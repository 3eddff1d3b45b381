----------------------------- MODULE ButtonHold -----------------------------
(***************************************************************************)
(* From a button of the controller to a key held down in Codex: the        *)
(* listener's action path (muse_on_listener.c, muse_on_listener_lifecycle.c*)
(* and the router of muse_on_action_map.c).                                *)
(*                                                                         *)
(* Holding black8 holds the dictation shortcut down; holding the turntable *)
(* repeats a shortcut.  Press and release reach the router only while the  *)
(* gates are open, a 10 ms timer carries out what is debounced or repeated,*)
(* and the same timer is how the listener learns that Codex lost the focus *)
(* or a permission went.  What must not happen is a shortcut that stays    *)
(* down, or goes on repeating, with nobody holding the control.            *)
(*                                                                         *)
(* Time is counted in ticks of the timer; the constants scale 80 ms, 20 ms,*)
(* 600 ms and 250 ms down.  A report is delivered when the control moves.  *)
(***************************************************************************)
EXTENDS Naturals

CONSTANTS
  HoldDebounce,    \* ticks; MUSE_ON_HOLD_DEBOUNCE_NS
  TriggerDebounce, \* ticks; trigger_debounce_ns of the turntable
  FirstRepeat,     \* ticks; MUSE_ON_TURNTABLE_INITIAL_REPEAT_NS
  NextRepeat,      \* ticks; MUSE_ON_TURNTABLE_REPEAT_NS
  Flicker,         \* may the focus go and return between two ticks?
  MaxFailures      \* bound: posts and restorations that macOS refuses

ASSUME TicksAssumption ==
  /\ HoldDebounce \in Nat \ {0}
  /\ TriggerDebounce \in Nat \ {0}
  /\ FirstRepeat \in Nat \ {0}
  /\ NextRepeat \in Nat \ {0}
  /\ Flicker \in BOOLEAN
  /\ MaxFailures \in Nat

VARIABLES
  world,    \* the controls, the plugs, the focus, the permission to post
  lc,       \* the listener
  out,      \* what the last step posted to Codex
  stale,    \* history: controls whose press is older than the last entry
  failures, \* refusals so far
  beat      \* turned by each tick, for the fairness of the timer

vars == <<world, lc, out, stale, failures, beat>>

Interfaces == {"KEYBOARD", "JOYSTICK"}

(* One control of each kind: the hold, the repeat, and one that only       *)
(* counts for Neutral Entry.                                               *)
Controls == {"black8", "turntable", "white3"}

ControlsOf(interface) ==
  IF interface = "KEYBOARD" THEN {"white3"} ELSE {"black8", "turntable"}

Outputs == {"NONE", "BEGIN", "END", "FORCED_END", "TRIGGER"}

Worlds == [frontmost: BOOLEAN, permitted: BOOLEAN,
           plugged: SUBSET Interfaces, pressed: SUBSET Controls]

-----------------------------------------------------------------------------
(* The router (of the joystick interface; the other one never holds).      *)

Routers ==
  [active: BOOLEAN, pending: {"NONE", "BEGIN", "END"}, age: 0..HoldDebounce,
   repeating: BOOLEAN, due: 0..(FirstRepeat + NextRepeat),
   since: 0..TriggerDebounce]

InitialRouter ==
  [active    |-> FALSE,            \* hold_active
   pending   |-> "NONE",           \* hold_pending, hold_pending_active
   age       |-> 0,                \* ticks since hold_pending_since_ns while
                                   \* pending, else 0
   repeating |-> FALSE,            \* turntable_repeat_active
   due       |-> 0,                \* ticks to turntable_repeat_next_ns
   since     |-> TriggerDebounce]  \* ticks since trigger_last_ns, capped

(* Mutant: the age of an edge is not capped at the debounce.               *)
Elapse_Uncapped(r) ==
  [r EXCEPT !.age = @ + 1, !.due = IF @ > 0 THEN @ - 1 ELSE @]

Elapse(r) ==
  [r EXCEPT !.age   = IF r.pending # "NONE" /\ @ < HoldDebounce
                      THEN @ + 1 ELSE @,
            !.due   = IF @ > 0 THEN @ - 1 ELSE @,
            !.since = IF @ < TriggerDebounce THEN @ + 1 ELSE @]

(* Mutant: an edge that bounces back leaves the pending one alone.         *)
RouteHold_IgnoresReturn(r, begin) ==
  IF begin = r.active THEN r
  ELSE [r EXCEPT !.pending = IF begin THEN "BEGIN" ELSE "END", !.age = 0]

(* A hold event asks for a state and waits out the debounce; one that asks *)
(* for the state already there cancels what is pending.                    *)
RouteHold(r, begin) ==
  LET wanted == IF begin THEN "BEGIN" ELSE "END"
  IN IF begin = r.active
     THEN [r EXCEPT !.pending = "NONE", !.age = 0]
     ELSE IF r.pending = wanted THEN r
     ELSE [r EXCEPT !.pending = wanted, !.age = 0]

TriggerIsDue(r) == r.since >= TriggerDebounce

(* Mutant: letting go of the turntable does not stop the repeat.           *)
RouteTurntable_KeepsRepeating(r, engaged) ==
  IF ~engaged THEN r
  ELSE [r EXCEPT !.repeating = TRUE, !.due = FirstRepeat, !.since = 0]

RouteTurntable(r, engaged) ==
  IF ~engaged THEN [r EXCEPT !.repeating = FALSE, !.due = 0]
  ELSE [r EXCEPT !.repeating = TRUE,
                 !.due       = FirstRepeat,
                 !.since     = IF TriggerIsDue(r) THEN 0 ELSE @]

HoldIsDue(r) == r.pending # "NONE" /\ r.age >= HoldDebounce

RepeatIsDue(r) == r.repeating /\ r.due = 0 /\ ~HoldIsDue(r)

SettleHold(r) == [r EXCEPT !.active  = r.pending = "BEGIN",
                           !.pending = "NONE",
                           !.age     = 0]

SettleRepeat(r) == [r EXCEPT !.due = NextRepeat, !.since = 0]

-----------------------------------------------------------------------------
(* The listener.                                                           *)

Listeners ==
  [running: BOOLEAN, bound: BOOLEAN, foreground: BOOLEAN, released: BOOLEAN,
   seen: SUBSET Interfaces, held: SUBSET Controls, router: Routers,
   applied: BOOLEAN, owed: BOOLEAN, postAccess: BOOLEAN, hold: BOOLEAN,
   releaseFailed: BOOLEAN, stop: BOOLEAN]

InitialListener ==
  [running       |-> TRUE,
   bound         |-> FALSE,          \* lifecycle.bound
   foreground    |-> FALSE,          \* lifecycle.foreground
   released      |-> FALSE,          \* lifecycle.inputs_released
   seen          |-> {},             \* interfaces the decoders have seen
   held          |-> {},             \* controls the decoders see held
   router        |-> InitialRouter,
   applied       |-> FALSE,          \* keyFilterApplied
   owed          |-> FALSE,          \* a restoration that is still settling
   postAccess    |-> TRUE,           \* postEventAccess
   hold          |-> FALSE,          \* syntheticHoldDown
   releaseFailed |-> FALSE,
   stop          |-> FALSE]          \* stopRequested

ResetBoundInputs(l) ==
  [l EXCEPT !.seen = {}, !.held = {}, !.router = InitialRouter,
            !.released = FALSE]

Unbind(l) == [ResetBoundInputs(l) EXCEPT !.bound = FALSE]

(* The decoders are seeded with what the kernel knows of each interface;   *)
(* `seeded' are those that could be read.                                  *)
Bind(l, seeded, pressed) ==
  LET held == UNION {ControlsOf(i) \cap pressed : i \in seeded}
  IN [ResetBoundInputs(l) EXCEPT !.bound    = TRUE,
                                 !.seen     = seeded,
                                 !.held     = held,
                                 !.released = seeded = Interfaces /\ held = {}]

(* force_release_synthetic_hold; `posted' is macOS's answer.               *)
ForceRelease(l, posted) ==
  IF ~l.hold THEN l
  ELSE IF posted THEN [l EXCEPT !.hold = FALSE]
  ELSE [l EXCEPT !.releaseFailed = TRUE]

(* What one attempt to restore the mapping can come to.                    *)
Restorations == {"DONE", "LATER", "FAILED"}

(* restore_keyboard_filter.  The first attempt also lets go of the hold and *)
(* of the binding; the later ones only settle what is owed, if anything.   *)
Restore(l, posted, restoration) ==
  LET unfiltered == [l EXCEPT !.applied = FALSE]
      loose      == IF l.owed THEN unfiltered
                    ELSE Unbind(ForceRelease(unfiltered, posted))
      owing      == [loose EXCEPT !.owed = TRUE]
  IN IF (~l.applied /\ ~l.owed) \/ restoration = "DONE"
     THEN [loose EXCEPT !.owed = FALSE]
     ELSE IF restoration = "LATER" THEN owing
     ELSE [owing EXCEPT !.releaseFailed = TRUE, !.stop = TRUE]

(* Mutant: a stop that was asked for does not close the gate.              *)
GateIsOpen_DespiteStop(l, frontmost) ==
  /\ ~l.releaseFailed
  /\ l.postAccess
  /\ l.applied
  /\ frontmost

(* external_route_gate, with Codex seen in front or not.                   *)
GateIsOpen(l, frontmost) ==
  /\ ~l.stop
  /\ ~l.releaseFailed
  /\ l.postAccess
  /\ l.applied
  /\ frontmost

RoutesInputs(l) == l.bound /\ l.foreground /\ l.released

(* Mutant: a release that could not be posted is forgotten.                *)
Lost_Quietly(l, output) == l

(* handle_action looks again at the focus and at the permission; it drops  *)
(* an action then, and a dropped or refused release of the hold is fatal.  *)
Lost(l, output) ==
  IF output = "END" /\ l.hold
  THEN [l EXCEPT !.releaseFailed = TRUE, !.stop = TRUE] ELSE l

(* muse_on_shortcut_dispatch_decide.                                       *)
IsRedundant(l, output) ==
  \/ output = "BEGIN" /\ l.hold
  \/ output = "END" /\ ~l.hold

Handle(l, output, frontmost, access, posted) ==
  LET known == [l EXCEPT !.postAccess = access]
  IN IF output = "NONE" \/ ~frontmost THEN l
     ELSE IF ~access THEN Lost(known, output)
     ELSE IF IsRedundant(l, output) THEN known
     ELSE IF ~posted THEN Lost(known, output)
     ELSE [known EXCEPT !.hold = IF output = "TRIGGER" THEN @
                                 ELSE output = "BEGIN"]

(* Whether the action was really posted.                                   *)
IsPosted(l, output, frontmost, access, posted) ==
  /\ output # "NONE"
  /\ frontmost /\ access /\ posted
  /\ ~IsRedundant(l, output)

-----------------------------------------------------------------------------
(* What macOS answers, and what can happen to the focus meanwhile.         *)

(* muse_on_post_hyper_key looks at the permission once more.               *)
Posts == IF world.permitted THEN BOOLEAN ELSE {FALSE}

Answers(posted, posting, restoration, restoring) ==
  LET refused == ~posted /\ world.permitted
      unsound == restoration # "DONE"
  IN /\ refused => posting
     /\ unsound => restoring
     /\ failures' = failures + (IF refused \/ unsound THEN 1 ELSE 0)
     /\ failures' <= MaxFailures

(* A focus that goes stays away until a tick has seen it gone, unless it   *)
(* may flicker.                                                            *)
MayBecome(frontmost) ==
  IF Flicker THEN BOOLEAN ELSE {frontmost, FALSE}

-----------------------------------------------------------------------------
(* Reports.                                                                *)

(* Neutral Entry is looked for while input is not routed.                  *)
Reconcile(l) == [l EXCEPT !.released = l.seen = Interfaces /\ l.held = {}]

ReportRouted(l, control, down) ==
  [l EXCEPT !.router =
     CASE control = "black8"    -> RouteHold(@, down)
       [] control = "turntable" -> RouteTurntable(@, down)
       [] OTHER                 -> @]

(* What the report makes the routers post.  The debounce of white3, which  *)
(* the keyboard's router keeps, is left open: `typed'.                     *)
ReportOutput(l, control, down, typed) ==
  IF \/ control = "turntable" /\ down /\ TriggerIsDue(l.router)
     \/ control = "white3" /\ down /\ typed
  THEN "TRIGGER" ELSE "NONE"

InterfaceOf(control) == IF control = "white3" THEN "KEYBOARD" ELSE "JOYSTICK"

ControlMoves(control) ==
  LET down    == control \notin world.pressed
      pressed == IF down THEN world.pressed \cup {control}
                 ELSE world.pressed \ {control}
      iface   == InterfaceOf(control)
      told    == [lc EXCEPT !.seen = @ \cup {iface},
                            !.held = (@ \ ControlsOf(iface))
                                       \cup (ControlsOf(iface) \cap pressed)]
  IN /\ iface \in world.plugged
     /\ stale' = IF ~down THEN stale \ {control}
                 ELSE IF RoutesInputs(lc) THEN stale ELSE stale \cup {control}
     /\ UNCHANGED beat
     /\ \E later \in MayBecome(world.frontmost), posted \in Posts,
           typed \in BOOLEAN :
          /\ world' = [world EXCEPT !.pressed = pressed, !.frontmost = later]
          /\ Answers(posted, lc.running, "DONE", FALSE)
          /\ IF ~lc.running \/ ~lc.bound \/ ~lc.applied
             THEN lc' = lc /\ out' = "NONE"
             ELSE IF ~RoutesInputs(lc)
             THEN lc' = Reconcile(told) /\ out' = "NONE"
             ELSE IF ~GateIsOpen(lc, world.frontmost)
             THEN lc' = told /\ out' = "NONE"
             ELSE LET output == ReportOutput(told, control, down, typed)
                  IN /\ lc' = Handle(ReportRouted(told, control, down), output,
                                     later, world.permitted, posted)
                     /\ out' = IF IsPosted(told, output, later,
                                           world.permitted, posted)
                               THEN output ELSE "NONE"

-----------------------------------------------------------------------------
(* The timer (action_timer): the focus and the permission first, then the  *)
(* filter, then what the router has due.                                   *)

PollPermission(l, poll) ==
  IF poll THEN [l EXCEPT !.postAccess = world.permitted] ELSE l

(* Mutant: losing the focus forgets to let go of the hold.                 *)
SeeFocus_KeepsHold(l, frontmost, posted) ==
  IF l.foreground = frontmost THEN l
  ELSE [l EXCEPT !.foreground = frontmost, !.released = @ /\ frontmost,
                 !.router = IF frontmost THEN @ ELSE InitialRouter]

(* Mutant: losing the focus leaves the pending edges in the router.        *)
SeeFocus_KeepsRouter(l, frontmost, posted) ==
  IF l.foreground = frontmost THEN l
  ELSE IF frontmost THEN [l EXCEPT !.foreground = TRUE]
  ELSE ForceRelease([l EXCEPT !.foreground = FALSE, !.released = FALSE], posted)

SeeFocus(l, frontmost, posted) ==
  IF l.foreground = frontmost THEN l
  ELSE IF frontmost THEN [l EXCEPT !.foreground = TRUE]
  ELSE ForceRelease([l EXCEPT !.foreground = FALSE,
                              !.released   = FALSE,
                              !.router     = InitialRouter], posted)

WantFilter(l) == l.postAccess /\ world.plugged = Interfaces

(* A filter wanted is applied on this tick or on a later one, once nothing  *)
(* is owed.                                                                *)
SeeFilter(l, posted, restoration, apply, seeded) ==
  LET settled == IF l.owed THEN Restore(l, posted, restoration) ELSE l
  IN IF ~WantFilter(l)
     THEN IF l.applied \/ l.owed THEN Restore(l, posted, restoration) ELSE l
     ELSE IF ~l.applied /\ apply
     THEN IF settled.owed THEN settled
          ELSE Bind([settled EXCEPT !.applied = TRUE], seeded, world.pressed)
     ELSE l

RouterTick(l, frontmost) ==
  IF ~RoutesInputs(l) \/ ~GateIsOpen(l, frontmost) THEN l
  ELSE IF HoldIsDue(l.router) THEN [l EXCEPT !.router = SettleHold(@)]
  ELSE IF RepeatIsDue(l.router) THEN [l EXCEPT !.router = SettleRepeat(@)]
  ELSE l

RouterOutput(l, frontmost) ==
  IF ~RoutesInputs(l) \/ ~GateIsOpen(l, frontmost) THEN "NONE"
  ELSE IF HoldIsDue(l.router) THEN l.router.pending
  ELSE IF RepeatIsDue(l.router) THEN "TRIGGER" ELSE "NONE"

(* The loop ends, and main restores once more; nothing is left for later.  *)
LeaveIfStopped(l, posted, restoration) ==
  IF l.stop \/ l.releaseFailed
  THEN [Restore(l, posted, IF restoration = "LATER" THEN "FAILED"
                           ELSE restoration) EXCEPT !.running = FALSE]
  ELSE l

Tick ==
  /\ lc.running
  /\ beat' = ~beat
  /\ \E poll, apply \in BOOLEAN, posted \in Posts, restoration \in Restorations,
        seeded \in SUBSET Interfaces :
     \E atGate \in MayBecome(world.frontmost) :
     \E later \in MayBecome(atGate) :
       LET timed   == [lc EXCEPT !.router = Elapse(@)]
           focused == SeeFocus(PollPermission(timed, poll), world.frontmost, posted)
           ready   == SeeFilter(focused, posted, restoration, apply, seeded)
           output  == RouterOutput(ready, atGate)
           handled == Handle(RouterTick(ready, atGate), output, later,
                             world.permitted, posted)
           left    == LeaveIfStopped(handled, posted, restoration)
       IN /\ apply => ~lc.applied /\ world.plugged = Interfaces
          /\ ~apply => seeded = {}
          /\ Answers(posted, lc.hold \/ output # "NONE",
                     restoration, lc.applied \/ lc.owed \/ apply)
          /\ lc' = left
          /\ world' = [world EXCEPT !.frontmost = later]
          /\ out' = IF IsPosted(ready, output, later, world.permitted, posted)
                    THEN output
                    ELSE IF lc.hold /\ ~left.hold THEN "FORCED_END" ELSE "NONE"
          /\ stale' = IF ready.foreground /\ (ready.bound => lc.bound)
                      THEN stale ELSE stale \cup world.pressed

-----------------------------------------------------------------------------
(* Plugs, the stop signal, the focus and the permission.                   *)

(* The binding goes first (sync_lifecycle_binding), then the hold.  The    *)
(* keyboard takes its mapping with it, unless the hold is stuck.           *)
Unplugged(l, interface, posted, restoration) ==
  LET loose    == Unbind(l)
      released == ForceRelease(loose, posted)
  IN IF interface = "KEYBOARD" /\ (l.applied \/ l.owed)
     THEN IF released.hold THEN [released EXCEPT !.stop = TRUE]
          ELSE [released EXCEPT !.applied = FALSE, !.owed = FALSE]
     ELSE IF l.applied THEN Restore(loose, posted, restoration)
     ELSE released

Unplug(interface) ==
  /\ interface \in world.plugged
  /\ \E posted \in Posts, restoration \in Restorations :
       /\ Answers(posted, lc.hold, restoration, lc.applied)
       /\ lc' = IF lc.running THEN Unplugged(lc, interface, posted, restoration)
                ELSE lc
  /\ UNCHANGED beat
  /\ out' = IF lc.hold /\ ~lc'.hold THEN "FORCED_END" ELSE "NONE"
  /\ world' = [world EXCEPT !.plugged = @ \ {interface},
                            !.pressed = @ \ ControlsOf(interface)]
  /\ stale' = stale \ ControlsOf(interface)

(* device_added tries the filter at once, whatever the permission.         *)
Plug(interface) ==
  /\ interface \notin world.plugged
  /\ world' = [world EXCEPT !.plugged = @ \cup {interface}]
  /\ \E apply \in BOOLEAN, seeded \in SUBSET Interfaces :
       /\ ~apply => seeded = {}
       /\ lc' = IF lc.running /\ apply /\ ~lc.applied
                     /\ world'.plugged = Interfaces
                THEN Bind([lc EXCEPT !.applied = TRUE, !.owed = FALSE],
                          seeded, world.pressed)
                ELSE lc
       /\ stale' = IF lc'.bound THEN stale \cup world.pressed ELSE stale
  /\ out' = "NONE"
  /\ UNCHANGED <<failures, beat>>

(* SIGTERM.                                                                *)
StopSignal ==
  /\ lc.running /\ ~lc.stop
  /\ lc' = [lc EXCEPT !.stop = TRUE]
  /\ out' = "NONE"
  /\ UNCHANGED <<world, stale, failures, beat>>

FocusMoves ==
  /\ ~world.frontmost => Flicker \/ ~lc.foreground
  /\ world' = [world EXCEPT !.frontmost = ~@]
  /\ out' = "NONE"
  /\ UNCHANGED <<lc, stale, failures, beat>>

(* A permission the listener knows to be gone stays away until the filter   *)
(* is, unless it may flicker.                                              *)
PermissionMoves ==
  /\ ~world.permitted => Flicker \/ lc.postAccess \/ ~lc.applied
  /\ world' = [world EXCEPT !.permitted = ~@]
  /\ out' = "NONE"
  /\ UNCHANGED <<lc, stale, failures, beat>>

-----------------------------------------------------------------------------

Init ==
  /\ \E frontmost \in BOOLEAN, pressed \in SUBSET Controls :
       /\ world = [frontmost |-> frontmost,
                   permitted |-> TRUE,
                   plugged   |-> Interfaces,
                   pressed   |-> pressed]
       /\ lc = [InitialListener EXCEPT !.foreground = frontmost]
       /\ stale = pressed
  /\ out = "NONE"
  /\ failures = 0
  /\ beat = FALSE

Next ==
  \/ \E control \in Controls : ControlMoves(control)
  \/ Tick
  \/ \E interface \in Interfaces : Unplug(interface) \/ Plug(interface)
  \/ StopSignal
  \/ FocusMoves
  \/ PermissionMoves

Spec == Init /\ [][Next]_vars

(* The timer keeps firing while the loop runs: weak fairness of Tick,      *)
(* which is possible exactly while lc.running and which alone turns the    *)
(* beat.                                                                   *)
FairSpec == Spec /\ ([]<>(~lc.running) \/ []<><<beat' # beat>>_beat)

-----------------------------------------------------------------------------
(* Invariants.                                                             *)

TypeOK ==
  /\ world \in Worlds
  /\ lc \in Listeners
  /\ out \in Outputs
  /\ stale \subseteq world.pressed
  /\ failures \in 0..MaxFailures
  /\ beat \in BOOLEAN

(* The listener itself is going down over a failure or a signal.           *)
Ending == lc.releaseFailed \/ lc.stop \/ ~lc.running

(* While Codex is in front, the shortcut is down only as long as its       *)
(* button is, or the release waits out the debounce (SAFETY.md,            *)
(* "Foreground boundary").                                                 *)
HoldIsTracked ==
  lc.hold /\ world.frontmost /\ world.permitted /\ ~Ending =>
    "black8" \in world.pressed \/ lc.router.pending = "END"

(* The shortcut is never left down without the filter, the binding or the  *)
(* focus the listener believes in, unless its release failed.              *)
HoldNeedsItsGates ==
  lc.hold => lc.releaseFailed \/ (lc.applied /\ lc.bound /\ lc.foreground)

(* While Codex is in front the repeat goes on only with the turntable      *)
(* held.                                                                   *)
RepeatIsTracked ==
  lc.router.repeating /\ world.frontmost /\ lc.postAccess /\ ~Ending =>
    "turntable" \in world.pressed

(* What is posted was pressed after the listener entered the foreground,   *)
(* the controller and Neutral Entry it is in, and is still pressed         *)
(* (CONTEXT.md, "Neutral Entry": "a fresh press is required").             *)
FreshPressOnly ==
  [][/\ out' = "BEGIN" => "black8" \in world'.pressed \ stale'
     /\ out' = "TRIGGER" =>
          ("turntable" \in world'.pressed \ stale'
             \/ "white3" \in world'.pressed \ stale')]_vars

(* Once a release failed or a stop was asked for, nothing new is posted.   *)
NothingAfterTheEnd ==
  [][Ending => out' \in {"NONE", "FORCED_END"}]_vars

(* A released button ends its shortcut, or the listener reports that it    *)
(* could not.                                                              *)
HoldEnds ==
  lc.hold /\ "black8" \notin world.pressed ~>
    ~lc.hold \/ "black8" \in world.pressed \/ lc.releaseFailed
=============================================================================
