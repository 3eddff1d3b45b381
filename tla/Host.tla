--------------------------------- MODULE Host ---------------------------------
(***************************************************************************)
(* The menu-bar app, its listener process and the pipe between them.       *)
(*                                                                         *)
(* The app is the delegate of AppDelegate.  The listener                   *)
(* (muse_on_listener.c) is modelled by what it promises the app: which     *)
(* events it writes, in which order, what it does to the key filter, and   *)
(* how it ends.  The app reads the pipe one line at a time; it learns of   *)
(* the end of the output after the last line, but of the end of the        *)
(* process at any moment after it happened.                                *)
(*                                                                         *)
(* What happens without a cause inside the system - the user, the          *)
(* controller, macOS, failures - is a stir.  A behaviour keeps to one of   *)
(* the StirSets, and MaxStirs bounds how many stirs occur; to start with a *)
(* permission missing counts as one.                                       *)
(***************************************************************************)
EXTENDS AppDelegate, Sequences

CONSTANTS
  StirSets,   \* stirs that may occur together
  MaxStirs,   \* bound: stirs in a behaviour
  PipeRoom    \* bound: lines in the pipe beyond which the listener waits

StirNames ==
  {"controller", "permission", "focus", "session", "enable", "disable",
   "profile", "retry", "quit", "crash", "launch fails", "open fails",
   "apply fails", "restore fails", "release fails", "HID fails",
   "listener crash"}

ASSUME StirsAssumption ==
  /\ StirSets \subseteq SUBSET StirNames
  /\ MaxStirs \in Nat
  /\ PipeRoom \in Nat

VARIABLES
  app,    \* the delegate, and what it saved
  child,  \* the listener of the current generation
  pipe,   \* its stdout: events written and not yet read
  world,  \* the controller, the permissions, the desktop, the key mapping
  notice, \* a session notification waits on the app's main queue
  stirs,  \* those this behaviour allows, and how many occurred
  refused \* history: a recovery listener was refused a permission

vars == <<app, child, pipe, world, notice, stirs, refused>>

Stir(name) == /\ name \in stirs.allowed
              /\ stirs.count < MaxStirs
              /\ stirs' = [stirs EXCEPT !.count = @ + 1]

Calm == UNCHANGED stirs

-----------------------------------------------------------------------------
(* The listener's own state.                                               *)

Controllers ==
  {[state |-> "DISCONNECTED", location |-> 0],
   [state |-> "MULTIPLE",     location |-> 0]}
    \cup [state : {"SINGLE"}, location : Locations]

NoController == [state |-> "DISCONNECTED", location |-> 0]

(* What macOS and the user decide, and the mapping of the keyboard.        *)
Worlds == [controller : Controllers, granted : SUBSET Gates,
           foreground : BOOLEAN, session : BOOLEAN, filtered : BOOLEAN]

(* The listener, as far as the app can tell its states apart.              *)
Children ==
  [phase         : {"NONE", "BOOTING", "RUNNING", "GONE"},
   seen          : Controllers,
   missing       : SUBSET Gates,
   foreground    : BOOLEAN,
   released      : BOOLEAN,
   filter        : {"OFF", "APPLIED", "OWED"},
   stopping      : BOOLEAN,
   failure       : SafetyFailures,
   releaseFailed : BOOLEAN,
   partial       : BOOLEAN,
   exit          : {"NONE", "CLEAN", "FAILED"}]

(* filter: OWED means a mapping was taken off duty but is not restored yet *)
(* (keyFilterApplied = false, restore_pending = true).                     *)
NoChild ==
  [phase         |-> "NONE",
   seen          |-> NoController,  \* the snapshot it last emitted
   missing       |-> {},            \* gates it knows to be missing
   foreground    |-> FALSE,
   released      |-> FALSE,         \* lifecycle.inputs_released
   filter        |-> "OFF",
   stopping      |-> FALSE,         \* stopRequested by itself
   failure       |-> "NONE",        \* safetyFailure, emitted when first set
   releaseFailed |-> FALSE,
   partial       |-> FALSE,         \* died in the middle of a line
   exit          |-> "NONE"]

Booting == [NoChild EXCEPT !.phase = "BOOTING"]

(* A topology event names what is seen, or that nothing is known.          *)
Sights == Controllers \cup {UnknownSnapshot}

(* The lines of a listener's output.                                       *)
Events ==
  [event : {"topology"}, snapshot : Sights]
    \cup [event : {"tcc_status", "permissions_changed"}, missing : SUBSET Gates]
    \cup [event : {"permission_required"}, missing : SUBSET Gates, gate : Gates]
    \cup [event : {"focus_changed"}, foreground : BOOLEAN]
    \cup [event : {"neutral_entry"}, released : BOOLEAN]
    \cup [event : {"safety_latch"}, reason : SafetyFailures]
    \cup [event : {"filter_applied", "filter_restored"}]
    \cup [event : {"ready"}, missing : SUBSET Gates, applied : {FALSE}]
    \cup [event : {"recovery_state"}, outcome : RecoveryOutcomes,
          snapshot : Sights, released : BOOLEAN, permission : BOOLEAN,
          verified : BOOLEAN]
    \cup [event : {"stopped"}, reason : SafetyFailures, releaseFailed : BOOLEAN]

Topology(snapshot) == [event |-> "topology", snapshot |-> snapshot]
TccStatus(gates)   == [event |-> "tcc_status", missing |-> gates]
Focus(front)       == [event |-> "focus_changed", foreground |-> front]
Neutral(released)  == [event |-> "neutral_entry", released |-> released]
SafetyLatch(why)   == [event |-> "safety_latch", reason |-> why]
FilterApplied      == [event |-> "filter_applied"]
FilterRestored     == [event |-> "filter_restored"]
Ready              == [event |-> "ready", missing |-> {}, applied |-> FALSE]
PermissionsChanged(gates) == [event |-> "permissions_changed", missing |-> gates]
PermissionRequired(gates) ==
  [event |-> "permission_required", missing |-> gates,
   gate  |-> IF gates = {"ACCESSIBILITY"}
             THEN "ACCESSIBILITY" ELSE "INPUT_MONITORING"]
Stopped(c) == [event |-> "stopped", reason |-> c.failure,
               releaseFailed |-> c.releaseFailed]

(* A safety latch is emitted once per process and keeps its first reason.  *)
Latched(c, why) == [c EXCEPT !.failure = IF @ = "NONE" THEN why ELSE @]
LatchLine(c, why) == IF c.failure = "NONE" THEN <<SafetyLatch(why)>> ELSE <<>>

Emit(lines) == pipe' = pipe \o lines

-----------------------------------------------------------------------------
(* The steps of the listener.                                              *)

Missing == Gates \ world.granted

ChildRuns == child.phase = "RUNNING" /\ Len(pipe) <= PipeRoom /\ UNCHANGED app

ChildExits(c, exit) == child' = [c EXCEPT !.phase = "GONE", !.exit = exit]

(* Startup up to the permission check; without the permissions the         *)
(* listener reports the first missing gate and ends cleanly.               *)
ChildLacksPermission ==
  /\ child.phase = "BOOTING"
  /\ Missing # {}
  /\ Emit(<<Topology(UnknownSnapshot), TccStatus(Missing),
            Topology(UnknownSnapshot), PermissionRequired(Missing),
            Stopped(child)>>)
  /\ ChildExits(child, "CLEAN")
  /\ Calm /\ UNCHANGED <<app, world>>

(* What a listener that opened its managers writes first.                  *)
FirstLook ==
  <<Topology(UnknownSnapshot), TccStatus({}), Topology(NoController),
    Focus(world.foreground)>>
    \o (IF world.foreground THEN <<>> ELSE <<Neutral(FALSE)>>)

ChildBoots ==
  /\ child.phase = "BOOTING"
  /\ Missing = {}
  /\ Emit(FirstLook \o <<Ready>>)
  /\ child' = [child EXCEPT !.phase      = "RUNNING",
                            !.foreground = world.foreground]
  /\ Calm /\ UNCHANGED <<app, world>>

(* macOS said that Input Monitoring is granted and does not permit to open *)
(* a HID manager all the same.  Like a permission found missing, this is   *)
(* reported and ends the listener cleanly, through the shutdown.           *)
ChildIsNotPermitted ==
  /\ child.phase = "BOOTING"
  /\ Missing = {}
  /\ Emit(<<Topology(UnknownSnapshot), TccStatus({}), Topology(UnknownSnapshot),
            Topology(UnknownSnapshot), PermissionRequired({"INPUT_MONITORING"}),
            Topology(UnknownSnapshot), Stopped(child)>>)
  /\ ChildExits(child, "CLEAN")
  /\ Stir("open fails") /\ UNCHANGED <<app, world>>

(* The managers, or the timer, cannot be created, or a manager does not    *)
(* open for another reason.  The failures differ in how far the shutdown   *)
(* goes: without its managers the listener latches, and without that of    *)
(* the joystick it does not even write "stopped".                          *)
ChildCannotOpen ==
  LET blind   == <<Topology(UnknownSnapshot), TccStatus({}), Topology(UnknownSnapshot)>>
      stop    == <<Topology(UnknownSnapshot), Stopped(child)>>
      latched == Latched(child, "DEVICE_UNCERTAIN")
  IN /\ child.phase = "BOOTING"
     /\ Missing = {}
     /\ \/ /\ Emit(blind \o <<SafetyLatch("DEVICE_UNCERTAIN"), Stopped(latched)>>)
           /\ ChildExits(latched, "FAILED")
        \/ /\ \E lines \in {blind, blind \o stop, FirstLook \o stop} : Emit(lines)
           /\ ChildExits(child, "FAILED")
     /\ Stir("open fails") /\ UNCHANGED <<app, world>>

(* SIGTERM before main installs its handlers.                              *)
ChildKilledAtBoot ==
  /\ child.phase = "BOOTING"
  /\ app.signalled
  /\ ChildExits(child, "FAILED")
  /\ Calm /\ UNCHANGED <<app, pipe, world>>

(* macOS refuses to post the release of a hold, as it always does without  *)
(* Accessibility.  The listener latches and stops.                         *)
HoldIsStuck ==
  \/ Stir("release fails")
  \/ "ACCESSIBILITY" \in Missing /\ Calm

Stuck(c) == [Latched(c, "HOLD_RELEASE") EXCEPT !.releaseFailed = TRUE,
                                               !.stopping      = TRUE]

(* The mapping comes off or is still settling, after the hold was released *)
(* or was found stuck.  `lines' precede.                                   *)
LetGoOfFilter(c, lines) ==
  LET owed == [c EXCEPT !.filter = "OWED", !.released = FALSE]
  IN \/ /\ child' = [owed EXCEPT !.filter = "OFF"]
        /\ world' = [world EXCEPT !.filtered = FALSE]
        /\ Emit(lines \o <<FilterRestored>>)
        /\ Calm
     \/ /\ child' = owed
        /\ world.filtered
        /\ Emit(lines)
        /\ Calm /\ UNCHANGED world
     \/ \E restored \in BOOLEAN :
          /\ ~restored => world.filtered
          /\ child' = [Stuck(owed) EXCEPT !.filter = IF restored THEN "OFF" ELSE @]
          /\ world' = [world EXCEPT !.filtered = @ /\ ~restored]
          /\ Emit(lines \o LatchLine(c, "HOLD_RELEASE")
                     \o (IF restored THEN <<FilterRestored>> ELSE <<>>))
          /\ HoldIsStuck

PutFilterOn(c, lines) ==
  /\ child' = [c EXCEPT !.filter = "APPLIED"]
  /\ world' = [world EXCEPT !.filtered = TRUE]
  /\ Emit(lines \o <<FilterApplied>>)

(* The controller changed (device_added, device_removed).  A controller    *)
(* that appears is filtered at once if its service is found, whatever the  *)
(* permissions; the timer corrects that.                                   *)
ChildSeesController ==
  LET seen  == [child EXCEPT !.seen = world.controller, !.released = FALSE]
      lines == <<Topology(world.controller)>>
  IN /\ ChildRuns
     /\ child.seen # world.controller
     /\ \/ /\ child.filter = "APPLIED"
           /\ LetGoOfFilter(seen, lines)
        \/ /\ child.filter = "OFF"
           /\ world.controller.state = "SINGLE"
           /\ PutFilterOn(seen, lines)
           /\ Calm
        \/ /\ child.filter # "APPLIED"
           /\ child' = seen
           /\ Emit(lines)
           /\ Calm /\ UNCHANGED world

WantFilter == child.seen.state = "SINGLE" /\ child.missing = {}

ChildAppliesFilter ==
  /\ ChildRuns
  /\ child.filter = "OFF"
  /\ WantFilter
  /\ child.seen = world.controller
  /\ PutFilterOn(child, <<>>)
  /\ Calm

(* The apply policy gives up, or the rollback of a failed apply cannot be  *)
(* verified and the mapping stays owed.                                    *)
ChildCannotApply ==
  /\ ChildRuns
  /\ child.filter = "OFF"
  /\ WantFilter
  /\ \/ /\ child' = [Latched(child, "DEVICE_UNCERTAIN") EXCEPT !.stopping = TRUE]
        /\ Emit(LatchLine(child, "DEVICE_UNCERTAIN"))
        /\ UNCHANGED world
     \/ /\ child' = [child EXCEPT !.filter = "OWED", !.stopping = TRUE]
        /\ world' = [world EXCEPT !.filtered = TRUE]
        /\ UNCHANGED pipe
  /\ Stir("apply fails")

ChildDropsUnwantedFilter ==
  /\ ChildRuns
  /\ child.filter = "APPLIED"
  /\ ~WantFilter
  /\ LetGoOfFilter(child, <<>>)

(* The retry of an owed restoration; its deadline ends the listener.       *)
ChildRestoresOwed ==
  /\ ChildRuns
  /\ child.filter = "OWED"
  /\ \/ /\ child' = [child EXCEPT !.filter = "OFF"]
        /\ world' = [world EXCEPT !.filtered = FALSE]
        /\ Emit(<<FilterRestored>>)
        /\ Calm
     \/ /\ child' = [Latched(child, "PASSTHROUGH_RESTORE") EXCEPT
                       !.releaseFailed = TRUE, !.stopping = TRUE]
        /\ ~child.releaseFailed
        /\ Emit(LatchLine(child, "PASSTHROUGH_RESTORE"))
        /\ Stir("restore fails") /\ UNCHANGED world

ChildSeesFocus ==
  LET seen  == [child EXCEPT !.foreground = world.foreground,
                             !.released   = @ /\ world.foreground]
      lines == <<Focus(world.foreground)>>
                 \o (IF world.foreground THEN <<>> ELSE <<Neutral(FALSE)>>)
  IN /\ ChildRuns
     /\ child.foreground # world.foreground
     /\ \/ child' = seen /\ Emit(lines) /\ Calm
        \/ /\ child.released /\ child.foreground
           /\ child' = Stuck(seen)
           /\ Emit(lines \o LatchLine(child, "HOLD_RELEASE"))
           /\ HoldIsStuck
     /\ UNCHANGED world

(* Reports reach the lifecycle only while it is bound, which needs the     *)
(* filter on.                                                              *)
ChildReconcilesNeutral ==
  /\ ChildRuns
  /\ child.filter = "APPLIED"
  /\ child.seen.state = "SINGLE"
  /\ child' = [child EXCEPT !.released = ~@]
  /\ Emit(<<Neutral(~child.released)>>)
  /\ Calm /\ UNCHANGED world

(* The permission poll; a filter no longer permitted is dropped in the     *)
(* same timer tick or a later one.                                         *)
ChildSeesPermissions ==
  LET told == [child EXCEPT !.missing = Missing]
  IN /\ ChildRuns
     /\ child.missing # Missing
     /\ child' = told
     /\ Emit(<<PermissionsChanged(Missing),
               Topology(IF Missing = {} THEN child.seen ELSE UnknownSnapshot)>>)
     /\ Calm /\ UNCHANGED world

(* An action finds the permission to post gone.  It is dropped and nothing *)
(* is written, so the poll above sees no change either; a hold that cannot *)
(* be ended stops the listener.                                            *)
ChildFindsPostDenied ==
  LET denied == [child EXCEPT !.missing = {"ACCESSIBILITY"}]
  IN /\ ChildRuns
     /\ ~app.recovery /\ ~child.stopping
     /\ child.filter = "APPLIED" /\ child.seen.state = "SINGLE"
     /\ child.released /\ child.foreground /\ world.foreground
     /\ child.missing = {} /\ "ACCESSIBILITY" \in Missing
     /\ \/ child' = denied /\ UNCHANGED pipe
        \/ /\ child' = Stuck(denied)
           /\ Emit(LatchLine(child, "HOLD_RELEASE"))
     /\ Calm /\ UNCHANGED world

(* A HID callback fails.                                                   *)
ChildLosesDevice ==
  /\ ChildRuns
  /\ ~child.stopping
  /\ child' = [Latched(child, "DEVICE_UNCERTAIN") EXCEPT !.stopping = TRUE]
  /\ Emit(<<Topology(UnknownSnapshot)>> \o LatchLine(child, "DEVICE_UNCERTAIN"))
  /\ Stir("HID fails") /\ UNCHANGED world

(* A recovery listener reports once and stops: success or a pending        *)
(* release over a verified filter, failure when it does not settle.        *)
ChildReportsRecovery ==
  LET verified == child.filter = "APPLIED" /\ child.seen.state = "SINGLE"
      proven   == verified /\ child.missing = {}
      outcome  == IF ~proven THEN "FAILURE"
                  ELSE IF child.released THEN "SUCCESS"
                  ELSE "NEUTRAL_ENTRY_PENDING"
  IN /\ child.phase = "RUNNING"
     /\ app.recovery
     /\ ~child.stopping
     /\ child' = [child EXCEPT !.stopping = TRUE]
     /\ Emit(<<[event      |-> "recovery_state",
                outcome    |-> outcome,
                snapshot   |-> child.seen,
                released   |-> child.released,
                permission |-> child.missing = {},
                verified   |-> verified]>>)
     /\ Calm /\ UNCHANGED <<app, world>>

(* The shutdown path, on SIGTERM or on its own account: one last attempt   *)
(* to restore, the managers are closed, then "stopped".  What may fail is  *)
(* the restoration (and before it the release of a hold, which then names  *)
(* the reason), that release alone, and the closing.                       *)
ChildStops ==
  LET restored == [child EXCEPT !.filter = "OFF"]
      told     == IF child.filter = "OFF" THEN <<>> ELSE <<FilterRestored>>
      Failed(c, why) == [Latched(c, why) EXCEPT !.releaseFailed = TRUE]
      Leave(c, lines) ==
        /\ Emit(<<Topology(UnknownSnapshot)>> \o lines \o <<Stopped(c)>>)
        /\ ChildExits(c, IF c.releaseFailed THEN "FAILED" ELSE "CLEAN")
      MappingIsOff ==
        world' = [world EXCEPT !.filtered = @ /\ child.filter = "OFF"]
  IN /\ child.phase = "RUNNING"
     /\ app.signalled \/ child.stopping
     /\ UNCHANGED app
     /\ \/ /\ Leave(restored, told)
           /\ MappingIsOff
           /\ Calm
        \/ /\ child.filter # "OFF" /\ world.filtered
           /\ \E why \in {"PASSTHROUGH_RESTORE", "HOLD_RELEASE"} :
                /\ why = "HOLD_RELEASE" => child.filter = "APPLIED"
                /\ Leave(Failed(child, why), LatchLine(child, why))
           /\ Stir("restore fails") /\ UNCHANGED world
        \/ /\ child.filter = "APPLIED"
           /\ Leave(Failed(restored, "HOLD_RELEASE"),
                    LatchLine(child, "HOLD_RELEASE") \o told)
           /\ MappingIsOff
           /\ HoldIsStuck
        \/ /\ Leave(Failed(restored, "DEVICE_UNCERTAIN"),
                    told \o LatchLine(child, "DEVICE_UNCERTAIN"))
           /\ MappingIsOff
           /\ Stir("HID fails")

ChildCrashes ==
  /\ child.phase \in {"BOOTING", "RUNNING"}
  /\ \E partial \in BOOLEAN :
       ChildExits([child EXCEPT !.partial = partial], "FAILED")
  /\ Stir("listener crash") /\ UNCHANGED <<app, pipe, world>>

ChildStep ==
  /\ \/ /\ ChildLacksPermission \/ ChildIsNotPermitted
        /\ refused' = (refused \/ app.recovery)
     \/ /\ \/ ChildBoots
           \/ ChildCannotOpen
           \/ ChildKilledAtBoot
           \/ ChildSeesController
           \/ ChildAppliesFilter
           \/ ChildCannotApply
           \/ ChildDropsUnwantedFilter
           \/ ChildRestoresOwed
           \/ ChildSeesFocus
           \/ ChildReconcilesNeutral
           \/ ChildSeesPermissions
           \/ ChildFindsPostDenied
           \/ ChildLosesDevice
           \/ ChildReportsRecovery
           \/ ChildStops
           \/ ChildCrashes
        /\ UNCHANGED refused
  /\ UNCHANGED notice

-----------------------------------------------------------------------------
(* The steps of the app.                                                   *)

View(shown) == [session    |-> world.session,
                foreground |-> world.foreground,
                shown      |-> shown]

(* The delegate steps to `next'.  A new generation starts a new process    *)
(* with a new pipe; an app that is gone takes its listener with it, which  *)
(* may or may not get to restore the mapping.                              *)
HostStep(next) ==
  /\ app' = next
  /\ IF next.running /\ next.task
     THEN /\ IF ~app.running \/ next.top.generation # app.top.generation
             THEN child' = Booting /\ pipe' = <<>>
             ELSE UNCHANGED <<child, pipe>>
          /\ UNCHANGED world
     ELSE /\ child' = NoChild
          /\ pipe' = <<>>
          /\ IF next.running \/ child.phase \notin {"BOOTING", "RUNNING"}
             THEN UNCHANGED world
             ELSE \E left \in {world.filtered, FALSE} :
                    world' = [world EXCEPT !.filtered = left]

(* A launch that may follow from the step succeeds, or is made to fail.    *)
HostStepMayLaunch(Next(_)) ==
  \/ HostStep(Next(TRUE)) /\ Calm
  \/ /\ Stir("launch fails")
     /\ Next(FALSE) # Next(TRUE)
     /\ HostStep(Next(FALSE))

HostReads ==
  /\ app.running /\ app.task
  /\ pipe # <<>>
  /\ \E shown \in BOOLEAN : app' = HandleEvent(app, View(shown), Head(pipe))
  /\ pipe' = Tail(pipe)
  /\ Calm /\ UNCHANGED <<child, world>>

HostSeesEOF ==
  /\ app.running /\ app.task /\ ~app.eof
  /\ child.phase = "GONE"
  /\ pipe = <<>>
  /\ \E shown \in BOOLEAN :
       HostStepMayLaunch(LAMBDA ok : OutputEOF(app, View(shown), child.partial, ok))

HostSeesExit ==
  /\ app.running /\ app.task /\ app.termination = "NONE"
  /\ child.phase = "GONE"
  /\ \E shown \in BOOLEAN :
       HostStepMayLaunch(LAMBDA ok : Termination(app, View(shown), child.exit, ok))

HostSeesSession ==
  /\ app.running
  /\ notice
  /\ notice' = FALSE
  /\ \E shown \in BOOLEAN :
       HostStepMayLaunch(LAMBDA ok : SessionDidChange(app, View(shown), ok))

(* Opening the popover.                                                    *)
HostRefreshes ==
  /\ app.running
  /\ HostStep(Observe(app, View(TRUE)))
  /\ Calm

(* The buttons; none can be pressed while a Quit waits for its answer.     *)
MenuIsUsable == app.running /\ ~app.quitInFlight

Shown == View(TRUE)

(* A launch fails only as a stir; here it comes with the user's own.       *)
LaunchEnds(ok) == ok \/ "launch fails" \in stirs.allowed

UserEnables ==
  /\ MenuIsUsable /\ CanEnable(app) /\ Stir("enable")
  /\ \E ok \in BOOLEAN : LaunchEnds(ok) /\ HostStep(Enable(app, Shown, ok))

UserDisables ==
  /\ MenuIsUsable /\ app.enabled /\ Stir("disable")
  /\ HostStep(Disable(app, Shown))

UserChangesProfile ==
  /\ MenuIsUsable /\ Stir("profile")
  /\ \E ok \in BOOLEAN : LaunchEnds(ok) /\ HostStep(ChangeProfile(app, Shown, ok))

UserRetries ==
  /\ MenuIsUsable /\ Stir("retry")
  /\ \E ok \in BOOLEAN : LaunchEnds(ok) /\ HostStep(Retry(app, Shown, ok))

UserQuits ==
  /\ MenuIsUsable /\ Stir("quit")
  /\ \E confirmed \in BOOLEAN : HostStep(Quit(app, Shown, confirmed))

AppCrashes ==
  /\ app.running /\ Stir("crash")
  /\ HostStep([app EXCEPT !.running = FALSE])

(* The app is opened at login or by its user, in an available session.     *)
AppLaunches ==
  /\ ~app.running
  /\ world.session
  /\ notice' = FALSE
  /\ \E shown \in BOOLEAN :
       HostStepMayLaunch(LAMBDA ok : Launch(app, View(shown), ok))

AppStep ==
  \/ /\ \/ HostReads
        \/ HostSeesEOF
        \/ HostSeesExit
        \/ HostRefreshes
        \/ UserEnables
        \/ UserDisables
        \/ UserChangesProfile
        \/ UserRetries
        \/ UserQuits
        \/ AppCrashes
     /\ UNCHANGED notice
  \/ HostSeesSession
  \/ AppLaunches

-----------------------------------------------------------------------------
(* The system around.                                                      *)

(* Plugging is slower than the listener's run loop.  When the keyboard     *)
(* interface goes its mapping goes with it; when only the joystick does,   *)
(* the mapping stays.                                                      *)
ControllerMoves ==
  /\ child.phase = "RUNNING" => child.seen = world.controller
  /\ \E controller \in Controllers \ {world.controller},
        left \in {world.filtered, FALSE} :
       /\ controller # NoController => left = world.filtered
       /\ world' = [world EXCEPT !.controller = controller, !.filtered = left]
  /\ Stir("controller") /\ UNCHANGED notice

PermissionMoves ==
  /\ \E gate \in Gates :
       world' = [world EXCEPT !.granted = IF gate \in @ THEN @ \ {gate}
                                          ELSE @ \cup {gate}]
  /\ Stir("permission") /\ UNCHANGED notice

FocusMoves ==
  /\ world' = [world EXCEPT !.foreground = ~@]
  /\ Stir("focus") /\ UNCHANGED notice

(* Sleep, lock or switching away is a stir; the session always returns.    *)
SessionMoves ==
  /\ world' = [world EXCEPT !.session = ~@]
  /\ notice' = app.running
  /\ \/ ~world.session /\ Calm
     \/ world.session /\ app.running /\ Stir("session")

WorldStep ==
  /\ \/ ControllerMoves
     \/ PermissionMoves
     \/ FocusMoves
     \/ SessionMoves
  /\ UNCHANGED <<app, child, pipe>>

-----------------------------------------------------------------------------
(* The first launch after a clean end of the previous run.                 *)

Init ==
  /\ \E enabled \in BOOLEAN :
       app = [InitialApp EXCEPT !.enabled = enabled]
  /\ child = NoChild
  /\ pipe = <<>>
  /\ \E controller \in Controllers, granted \in SUBSET Gates, foreground \in BOOLEAN,
        allowed \in StirSets :
       /\ granted # Gates => "permission" \in allowed /\ MaxStirs > 0
       /\ world = [controller |-> controller,
                   granted    |-> granted,
                   foreground |-> foreground,
                   session    |-> TRUE,
                   filtered   |-> FALSE]  \* the sink mapping is on the keyboard
       /\ stirs = [allowed |-> allowed, count |-> IF granted = Gates THEN 0 ELSE 1]
  /\ notice = FALSE
  /\ refused = FALSE

Next == \/ ChildStep
        \/ (AppStep \/ WorldStep) /\ UNCHANGED refused

Spec == Init /\ [][Next]_vars

(* The listener's run loop, its 10 ms timer and the app's main queue keep  *)
(* running; a recovery listener's policy always ends in a report.  Weak    *)
(* fairness with the enabling condition of each step written out.          *)
AppListens == app.running /\ app.task

FairSpec ==
  /\ Spec
  /\ \/ []<>(child.phase # "BOOTING")
     \/ []<><<ChildBoots \/ ChildLacksPermission>>_vars
  /\ \/ []<>~(child.phase = "RUNNING" /\ app.recovery /\ ~child.stopping)
     \/ []<><<ChildReportsRecovery>>_vars
  /\ \/ []<>~(child.phase = "RUNNING" /\ (app.signalled \/ child.stopping))
     \/ []<><<ChildStops>>_vars
  /\ \/ []<>~(AppListens /\ pipe # <<>>)
     \/ []<><<HostReads>>_vars
  /\ \/ []<>~(AppListens /\ child.phase = "GONE" /\ pipe = <<>> /\ ~app.eof)
     \/ []<><<HostSeesEOF>>_vars
  /\ \/ []<>~(AppListens /\ child.phase = "GONE" /\ app.termination = "NONE")
     \/ []<><<HostSeesExit>>_vars

-----------------------------------------------------------------------------
(* Invariants.                                                             *)

(* Every field of the delegate, the listener and the world has its C type, *)
(* and the pipe within its room plus the bursts of startup and shutdown.   *)
TypeOK ==
  /\ app \in Apps
  /\ child \in Children
  /\ pipe \in Seq(Events) /\ Len(pipe) <= PipeRoom + 11
  /\ world \in Worlds
  /\ notice \in BOOLEAN
  /\ stirs \in [allowed : StirSets, count : 0..MaxStirs]
  /\ refused \in BOOLEAN

(* What the app believes of the controller is grounded in the generation   *)
(* it trusts: no proof outlives the listener, the controller or the mode   *)
(* it was given for.                                                       *)
BeliefIsGrounded == Grounded(app.top)

(* The app claims Active only while a normal listener runs that proved its *)
(* filter on the one controller and saw every control released, with the   *)
(* permissions it reported (SAFETY.md, the Active gates).                  *)
ActiveHasItsEvidence ==
  app.running /\ app.coord.request_dispatch =>
    /\ app.enabled
    /\ app.task /\ ~app.recovery
    /\ app.permission
    /\ app.top.authoritative
    /\ app.top.snapshot.state = "SINGLE"
    /\ app.top.filter_verified
    /\ app.top.inputs_released

(* While the app shows the latch no normal listener goes on: it was told   *)
(* to stop, is stopping by itself, or is gone (SAFETY.md, "Safety latch").  *)
LatchStopsListener ==
  app.running /\ app.task /\ ~app.recovery /\ app.coord.safety_latched =>
    app.signalled \/ child.stopping \/ child.phase = "GONE"

(* Disabled is reached only when no listener is left to act.               *)
DisabledHasNoListener ==
  app.running /\ app.coord.status = "DISABLED" => ~app.task

(* A key mapping left on the keyboard by a listener that is gone is never  *)
(* forgotten: the app is latched until a recovery restores it (SAFETY.md,  *)
(* "unverified restoration remains Safety latched").  There is one way to  *)
(* forget it, which LatchEndsOverPassThrough below shows: a recovery       *)
(* listener that is refused a permission is taken for a verified cleanup.  *)
LeftMappingIsLatched ==
  app.running /\ world.filtered /\ ~app.task =>
    app.coord.safety_latched \/ refused

(* The marker of a safe Quit is written only by a Quit that left Pass-     *)
(* through restored, and the next launch takes it back - with the same     *)
(* exception.                                                              *)
SafeMarkerIsEarned ==
  app.savedSafe /\ ~refused => ~app.running /\ ~world.filtered

-----------------------------------------------------------------------------
(* Action properties.                                                      *)

(* The latch - and with it a pending Disable - ends only once the mapping  *)
(* is off the keyboard and the listener that took it off is gone.          *)
LatchEndsOverPassThrough ==
  [][app.running /\ app'.running
       /\ app.coord.safety_latched /\ ~app'.coord.safety_latched
     => ~world.filtered /\ (app'.task => child'.phase = "BOOTING")]_vars

(* The code does not promise that, but nearly: as long as macOS refused no *)
(* recovery listener a permission, after crashes, failed restorations,     *)
(* Quits and relaunches of every kind, the latch ends over Pass-through    *)
(* control only (handleListenerTerminationForPurpose:cleanupVerified:).    *)
LatchEndsEarlyOnlyByRefusal ==
  [][app.running /\ app'.running
       /\ app.coord.safety_latched /\ ~app'.coord.safety_latched
     => \/ ~world.filtered /\ (app'.task => child'.phase = "BOOTING")
        \/ refused]_vars

(* A listener that did all it promises - restored the mapping, said so,    *)
(* said "stopped", exited with 0 - is accepted when it was asked to stop,  *)
(* in whichever order the ends of its output and of its process arrive     *)
(* (muse_on_listener_completion_gate_test.c, eof_first_matches_            *)
(* termination_first).                                                     *)
CleanStopIsAccepted ==
  [][app.running /\ app'.running /\ app.task /\ ~app'.task
       /\ ~app.recovery /\ app.purpose # "NONE"
       /\ child.exit = "CLEAN" /\ child.failure = "NONE"
     => app'.cleanupKnown]_vars

(* Once the app has heard of it, an unavailable session has no filtering   *)
(* listener that nobody is stopping (docs/adr/0007).                       *)
UnavailableSessionIsLetGo ==
  app.running /\ ~world.session /\ ~notice /\ ~app.signalled /\ ~app.recovery =>
    child.filter # "APPLIED"

(* When the app has read all the listener wrote, it knows which permission *)
(* the running listener is missing (SAFETY.md, "Permissions").             *)
MissingPermissionIsKnown ==
  app.running /\ child.phase = "RUNNING" /\ pipe = <<>> =>
    child.missing \subseteq app.missing

-----------------------------------------------------------------------------
(* Liveness.                                                               *)

(* A stop that was asked for comes to its end: the purpose is served and   *)
(* dropped, or the app is gone.                                            *)
StopIsServed ==
  app.task /\ app.purpose # "NONE" ~> app.purpose = "NONE" \/ ~app.running

(* A Quit that was put off is answered.                                    *)
QuitIsAnswered == app.quitInFlight ~> ~app.quitInFlight \/ ~app.running
=============================================================================
