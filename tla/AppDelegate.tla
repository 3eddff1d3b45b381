----------------------------- MODULE AppDelegate -----------------------------
(***************************************************************************)
(* The handlers of the menu-bar app's delegate (muse_on_menu_bar.m), all   *)
(* of which run on the main queue: the listener's events, the end of its   *)
(* output and of its process, session notifications, the menu's buttons,   *)
(* Quit and launch.  Each handler is one operator from the delegate's      *)
(* state `h' and what it reads of the system, `w', to the next state; the  *)
(* order of the calls inside is the code's.                                *)
(*                                                                         *)
(* w.session and w.foreground are read afresh by every call of the         *)
(* coordinator; w.shown says whether the popover is open, in which case    *)
(* several handlers refresh it, and a refresh is a coordinator call.       *)
(* Diagnostics, icons, notifications and settings panes are left out: they *)
(* are written by these handlers and never read by them.                   *)
(***************************************************************************)
EXTENDS TopologyHost

Gates == {"INPUT_MONITORING", "ACCESSIBILITY"}

Purposes == {"NONE", "PROFILE", "DISABLE", "RETRY", "QUIT", "SESSION"}

(* What a handler reads of the system: sessionAvailable, codexForeground   *)
(* and whether the popover is shown.                                       *)
Views == [session : BOOLEAN, foreground : BOOLEAN, shown : BOOLEAN]

(* The delegate's properties, and the preferences it saves.                *)
Apps ==
  [running            : BOOLEAN,
   enabled            : BOOLEAN,
   savedSafe          : BOOLEAN,
   savedPending       : BOOLEAN,
   coord              : CoordinatorStates,
   top                : Beliefs,
   task               : BOOLEAN,
   signalled          : BOOLEAN,
   recovery           : BOOLEAN,
   purpose            : Purposes,
   missing            : SUBSET Gates,
   permission         : BOOLEAN,
   permissionRequired : BOOLEAN,
   safetyFailure      : SafetyFailures,
   sawStopped         : BOOLEAN,
   sawFilterApplied   : BOOLEAN,
   sawFilterRestored  : BOOLEAN,
   sawSafetyLatch     : BOOLEAN,
   cleanupVerified    : BOOLEAN,
   cleanupKnown       : BOOLEAN,
   everStarted        : BOOLEAN,
   eof                : BOOLEAN,
   termination        : {"NONE", "CLEAN", "FAILED"},
   quitInFlight       : BOOLEAN]

(* listenerTaskGeneration is top.generation: both are set by the same      *)
(* lines.  listenerRecoveryValidated and listenerRecoveryFailed are copies *)
(* of the topology's fields.  savedSafe and savedPending are preference    *)
(* keys; `enabled' is _setup.enabled, saved in the handler that changes it.*)
InitialApp ==
  [running            |-> FALSE,
   enabled            |-> FALSE,
   savedSafe          |-> TRUE,
   savedPending       |-> FALSE,
   coord              |-> InitialState,
   top                |-> InitialBelief,
   task               |-> FALSE,     \* listenerTask # nil
   signalled          |-> FALSE,     \* [listenerTask terminate] was called
   recovery           |-> FALSE,     \* listenerRecoveryMode
   purpose            |-> "NONE",    \* listenerStopPurpose
   missing            |-> Gates,     \* missingPermissionGates
   permission         |-> FALSE,     \* permissionGranted
   permissionRequired |-> FALSE,     \* listenerPermissionRequired
   safetyFailure      |-> "NONE",    \* listenerSafetyFailure
   sawStopped         |-> FALSE,
   sawFilterApplied   |-> FALSE,
   sawFilterRestored  |-> FALSE,
   sawSafetyLatch     |-> FALSE,
   cleanupVerified    |-> FALSE,     \* listenerCleanupVerified
   cleanupKnown       |-> FALSE,     \* listenerCleanupKnown
   everStarted        |-> FALSE,     \* listenerEverStarted
   eof                |-> FALSE,     \* completion gate: stdout_eof_processed
   termination        |-> "NONE",    \* completion gate: how the process ended
   quitInFlight       |-> FALSE]

-----------------------------------------------------------------------------
(* Calls of the coordinator.                                               *)

(* The pending Disable is saved as the coordinator says; a pending Disable *)
(* is forgotten only in Disabled.                                          *)
Informed(h, next) ==
  [h EXCEPT !.coord        = next,
            !.savedPending = \/ next.disable_pending
                             \/ @ /\ next.status # "DISABLED"]

Command(h, w, command, cleanup, failure) ==
  Informed(h, Apply(h.coord, command,
                    PrerequisitesOf(h.top, command, failure, cleanup,
                                    h.permission, w.session, w.foreground)))

Unverified(h, w, command) == Command(h, w, command, FALSE, h.safetyFailure)

Verified(h, w, command) ==
  Command([h EXCEPT !.safetyFailure = "NONE"], w, command, TRUE, "NONE")

(* updateCoordinatorWithCommand: an observation vouches for the cleanup.   *)
Update(h, w, command) == Command(h, w, command, TRUE, h.safetyFailure)

Observe(h, w) == Update(h, w, "NONE")

RefreshIfShown(h, w) == IF w.shown THEN Observe(h, w) ELSE h

(* A mutant of InvalidateTopology: the coordinator is not told.            *)
InvalidateTopology_Silently(h, w, latch) ==
  [h EXCEPT !.top = Invalidate(h.top, latch, h.safetyFailure)]

Untrusted(h, latch) ==
  [h EXCEPT !.top = Invalidate(@, latch, h.safetyFailure)]

NamedByTopology(h) ==
  [h EXCEPT !.safetyFailure  = IF @ = "NONE" THEN h.top.safety_failure ELSE @,
            !.sawSafetyLatch = TRUE]

(* The generation is no longer trusted, and with `latch' that is a failure.*)
InvalidateTopology(h, w, latch) ==
  RefreshIfShown(
    IF latch THEN Unverified(NamedByTopology(Untrusted(h, TRUE)), w, "NONE")
    ELSE Observe(Untrusted(h, FALSE), w), w)

ProtocolFailure(h, w) == InvalidateTopology(h, w, TRUE)

Terminate(h) == [h EXCEPT !.signalled = TRUE]

Begun(h, recovery) ==
  [h EXCEPT
     !.top = RequireNeutralEntry(BeginGeneration(@, @.generation + 1, recovery)),
     !.recovery           = recovery,
     !.signalled          = FALSE,
     !.permissionRequired = FALSE,
     !.sawStopped         = FALSE,
     !.sawFilterApplied   = FALSE,
     !.sawFilterRestored  = FALSE,
     !.sawSafetyLatch     = FALSE,
     !.cleanupVerified    = FALSE,
     !.eof                = FALSE,
     !.termination        = "NONE"]

NotLaunched(h, w) ==
  Unverified([InvalidateTopology(h, w, TRUE) EXCEPT
                !.task          = FALSE,
                !.recovery      = FALSE,
                !.safetyFailure = "DEVICE_UNCERTAIN"], w, "NONE")

(* What the launch makes of a listener just set up.                        *)
Launched(h, w, ok) ==
  IF ok THEN [h EXCEPT !.everStarted = TRUE, !.cleanupKnown = FALSE]
  ELSE NotLaunched(h, w)

(* A normal listener is started only when Enabled with no latch and no     *)
(* pending Disable; a recovery listener whenever none runs.  `ok' is       *)
(* whether the process could be launched.                                  *)
Start(h, w, recovery, ok) ==
  IF /\ ~h.task
     /\ \/ recovery
        \/ /\ h.enabled
           /\ ~h.coord.safety_latched
           /\ ~h.coord.disable_pending
  THEN Launched([Observe(Begun(h, recovery), w) EXCEPT !.task = TRUE], w, ok)
  ELSE h

-----------------------------------------------------------------------------
(* Events of the running listener (recordListenerEvent).                   *)

OnTopology(h, w, e) ==
  IF EventResult(h.top, h.top.generation, e.snapshot) # "ACCEPTED" THEN h
  ELSE RefreshIfShown(
         Observe([h EXCEPT !.top = ApplyTopology(@, e.snapshot)], w), w)

PermissionsRead(h, missing) ==
  [h EXCEPT !.missing = missing, !.permission = missing = {}]

MissingPermission(h) ==
  [h EXCEPT !.permissionRequired = TRUE,
            !.top = RequireNeutralEntry(@),
            !.safetyFailure = IF h.coord.safety_latched THEN @ ELSE "NONE"]

(* The event names both gates as Booleans; updatePermissionStateFromEvent  *)
(* reads Input Monitoring only from a string, and adds the gate named.     *)
OnPermissionRequired(h, w, e) ==
  LET missing == (h.missing \ {"ACCESSIBILITY"})
                   \cup (e.missing \cap {"ACCESSIBILITY"}) \cup {e.gate}
  IN RefreshIfShown(
       Command(MissingPermission(
                 PermissionsRead(InvalidateTopology(h, w, FALSE), missing)),
               w, "NONE", TRUE, "NONE"), w)

(* tcc_status carries Input Monitoring as a string, permissions_changed as *)
(* a Boolean, which is not read.                                           *)
OnPermissions(h, w, e) ==
  LET missing == IF e.event = "tcc_status" THEN e.missing
                 ELSE (h.missing \ {"ACCESSIBILITY"})
                        \cup (e.missing \cap {"ACCESSIBILITY"})
      Settled(told) == IF told.permission THEN told
                       ELSE [told EXCEPT !.top = RequireNeutralEntry(@)]
  IN Observe(Settled(PermissionsRead(h, missing)), w)

OnFilter(h, w, verified) ==
  IF FilterEventTaken(h.top, h.top.generation, verified)
  THEN Observe([h EXCEPT !.top = ApplyFilterVerification(@, verified),
                         !.sawFilterApplied = @ \/ verified], w)
  ELSE ProtocolFailure(h, w)

OnReady(h, w, e) == OnFilter(PermissionsRead(h, e.missing), w, e.applied)

OnFilterRestored(h, w) ==
  OnFilter([h EXCEPT !.sawFilterRestored = TRUE], w, FALSE)

OnFocusChanged(h, w, e) ==
  IF IsCurrent(h.top, h.top.generation)
  THEN Observe([h EXCEPT !.top = ApplyFocusChanged(@, e.foreground)], w)
  ELSE ProtocolFailure(h, w)

OnNeutralEntry(h, w, e) ==
  IF IsCurrent(h.top, h.top.generation)
  THEN Observe([h EXCEPT !.top = ApplyNeutralEntry(@, e.released)], w)
  ELSE ProtocolFailure(h, w)

OnSafetyLatch(h, w, e) ==
  RefreshIfShown(
    Command([h EXCEPT !.sawSafetyLatch = TRUE, !.safetyFailure = e.reason],
            w, "NONE", FALSE, e.reason), w)

RecoveryTaken(h, w, e) ==
  LET taken == [h EXCEPT
                  !.top = ApplyRecovery(@, e.snapshot, e.outcome, e.released,
                                        e.permission, e.verified),
                  !.permission = e.permission]
      named == [taken EXCEPT
                  !.sawSafetyLatch = TRUE,
                  !.safetyFailure  = IF @ = "NONE" THEN "DEVICE_UNCERTAIN" ELSE @]
  IN IF e.outcome = "FAILURE" THEN Unverified(named, w, "NONE") ELSE taken

(* A recovery asked for by Retry or by a pending Disable has said what it  *)
(* had to say: it is stopped.                                              *)
OnRecoveryState(h, w, e) ==
  LET result == RecoveryResult(h.top, h.top.generation, e.snapshot, e.outcome,
                               e.released, e.permission, e.verified)
      asked  == h.recovery /\ h.purpose \in {"RETRY", "DISABLE"}
  IN CASE result = "IGNORED_STALE"    -> h
       [] result = "REJECTED_INVALID" -> ProtocolFailure(h, w)
       [] result = "ACCEPTED"         ->
            [RecoveryTaken(h, w, e) EXCEPT !.signalled = @ \/ asked]

OnStopped(h, e) ==
  [h EXCEPT !.sawStopped      = TRUE,
            !.cleanupVerified = ~e.releaseFailed /\ e.reason = "NONE",
            !.safetyFailure   = IF e.reason = "NONE" THEN @ ELSE e.reason,
            !.sawSafetyLatch  = @ \/ e.reason # "NONE"]

HandleEvent(h, w, e) ==
  CASE e.event = "topology"            -> OnTopology(h, w, e)
    [] e.event = "permission_required" -> OnPermissionRequired(h, w, e)
    [] e.event \in {"tcc_status", "permissions_changed"}
                                       -> OnPermissions(h, w, e)
    [] e.event = "ready"               -> OnReady(h, w, e)
    [] e.event = "focus_changed"       -> OnFocusChanged(h, w, e)
    [] e.event = "filter_applied"      -> OnFilter(h, w, TRUE)
    [] e.event = "filter_restored"     -> OnFilterRestored(h, w)
    [] e.event = "neutral_entry"       -> OnNeutralEntry(h, w, e)
    [] e.event = "safety_latch"        -> OnSafetyLatch(h, w, e)
    [] e.event = "recovery_state"      -> OnRecoveryState(h, w, e)
    [] e.event = "stopped"             -> OnStopped(h, e)

-----------------------------------------------------------------------------
(* The listener is gone (handleListenerTerminationForPurpose); `verified'  *)
(* says whether its cleanup is.                                            *)

(* replyToApplicationShouldTerminate:YES ends the process.                 *)
SafeQuit(h) ==
  [h EXCEPT !.savedSafe = TRUE, !.quitInFlight = FALSE, !.running = FALSE]

RefuseQuit(h) == [h EXCEPT !.quitInFlight = FALSE]

AfterProfile(h, w, verified, ok) ==
  IF ~verified THEN Unverified(h, w, "NONE") ELSE Start(h, w, FALSE, ok)

AfterDisable(h, w, verified) ==
  IF verified THEN Verified(h, w, "DISABLE") ELSE Unverified(h, w, "DISABLE")

RetryAnswered(retried, w, ok) ==
  IF retried.coord.quit_allowed THEN SafeQuit(retried)
  ELSE IF retried.coord.status # "DISABLED"
  THEN Start(retried, w, FALSE, ok) ELSE retried

(* Retry first stops a normal listener, then runs a recovery one, and only *)
(* the end of that one retries the coordinator.                            *)
AfterRetry(h, w, verified, ok) ==
  IF ~h.top.recovery_validated /\ ~h.recovery /\ ~h.quitInFlight
  THEN Start([h EXCEPT !.purpose = "RETRY"], w, TRUE, ok)
  ELSE IF ~verified THEN RefuseQuit(Unverified(h, w, "RETRY"))
  ELSE IF h.permissionRequired THEN Command(h, w, "NONE", TRUE, "NONE")
  ELSE RetryAnswered(Verified(h, w, "RETRY"), w, ok)

QuitAnswered(retried) ==
  IF retried.coord.quit_allowed THEN SafeQuit(retried) ELSE RefuseQuit(retried)

(* A mutant of AfterQuit: a refused Quit is never answered.                *)
AfterQuit_Unanswered(h, w, verified) ==
  IF ~verified THEN Unverified(h, w, "NONE")
  ELSE QuitAnswered(Verified(h, w, "RETRY"))

AfterQuit(h, w, verified) ==
  IF ~verified THEN RefuseQuit(Unverified(h, w, "NONE"))
  ELSE QuitAnswered(Verified(h, w, "RETRY"))

AfterSession(h, w, verified, ok) ==
  IF ~verified THEN Unverified(h, w, "NONE")
  ELSE IF ~w.session THEN Command(h, w, "NONE", TRUE, "NONE")
  ELSE Start(Command(h, w, "NONE", TRUE, "NONE"), w, FALSE, ok)

(* Nobody asked for the exit: only a permission-only listener may do that. *)
AfterNone(h, w, verified) ==
  IF verified /\ h.permissionRequired THEN Verified(h, w, "NONE")
  ELSE Command(h, w, "NONE", verified,
               IF verified THEN "DEVICE_UNCERTAIN" ELSE h.safetyFailure)

After(h, w, verified, ok) ==
  CASE h.purpose = "PROFILE" -> AfterProfile(h, w, verified, ok)
    [] h.purpose = "DISABLE" -> AfterDisable(h, w, verified)
    [] h.purpose = "RETRY"   -> AfterRetry(h, w, verified, ok)
    [] h.purpose = "QUIT"    -> AfterQuit(h, w, verified)
    [] h.purpose = "SESSION" -> AfterSession(h, w, verified, ok)
    [] h.purpose = "NONE"    -> AfterNone(h, w, verified)

(* The purpose is served unless it started a recovery listener.            *)
Served(h) ==
  CASE ~h.task              -> [h EXCEPT !.purpose = "NONE", !.recovery = FALSE,
                                         !.permissionRequired = FALSE]
    [] h.task /\ ~h.recovery -> [h EXCEPT !.purpose = "NONE"]
    [] h.task /\ h.recovery  -> h

HandleTermination(h, w, clean, ok) ==
  LET verified == clean /\ ~(/\ h.purpose = "RETRY" /\ h.recovery
                             /\ h.top.recovery_failed \/ ~h.top.recovery_validated)
      named    == [h EXCEPT !.safetyFailure =
                     IF ~verified /\ @ = "NONE" THEN "DEVICE_UNCERTAIN" ELSE @]
  IN Served(RefreshIfShown(After(named, w, verified, ok), w))

-----------------------------------------------------------------------------
(* The two ends of a listener.  They arrive in either order and only the   *)
(* second one finalizes (completion gate).                                 *)

(* A mutant of CleanupAccepted: the exit status vouches for the cleanup.   *)
CleanupAccepted_Unstopped(h) ==
  /\ h.termination = "CLEAN" \/ h.recovery
  /\ h.recovery /\ ~h.permissionRequired =>
       h.top.recovery_validated /\ ~h.top.recovery_failed
  /\ h.sawStopped

CleanupAccepted(h) ==
  /\ h.termination = "CLEAN"
  /\ h.recovery /\ ~h.permissionRequired =>
       h.top.recovery_validated /\ ~h.top.recovery_failed
  /\ h.sawFilterRestored \/ ~h.sawFilterApplied \/ h.permissionRequired
  /\ h.sawStopped
  /\ h.cleanupVerified
  /\ ~h.sawSafetyLatch

(* A mutant of FinalizeIfReady: only the end of the output, when it comes  *)
(* second, finalizes.                                                      *)
FinalizeIfReady_OnEOFOnly(h, w, ok) ==
  LET accepted == CleanupAccepted(h)
      gone     == [h EXCEPT !.task = FALSE, !.cleanupKnown = accepted]
  IN IF ~h.eof \/ h.termination # "CLEAN" THEN h
     ELSE HandleTermination(gone, w, accepted, ok)

FinalizeIfReady(h, w, ok) ==
  LET accepted == CleanupAccepted(h)
      gone == [h EXCEPT !.task          = FALSE,
                        !.cleanupKnown  = accepted,
                        !.safetyFailure = IF accepted \/ h.sawSafetyLatch
                                          THEN @ ELSE "DEVICE_UNCERTAIN"]
  IN IF ~h.eof \/ h.termination = "NONE" THEN h
     ELSE HandleTermination(gone, w, accepted, ok)

EndIsUnexpected(h) == h.purpose = "NONE" /\ ~h.permissionRequired

(* `partial': an unfinished line is left in the output buffer.             *)
OutputEOF(h, w, partial, ok) ==
  LET ended == InvalidateTopology(h, w, partial \/ EndIsUnexpected(h))
  IN FinalizeIfReady([ended EXCEPT !.eof = TRUE], w, ok)

Termination(h, w, exit, ok) ==
  LET ended == InvalidateTopology(h, w, EndIsUnexpected(h))
  IN FinalizeIfReady([ended EXCEPT !.termination = exit], w, ok)

-----------------------------------------------------------------------------
(* Session notifications and the menu.                                     *)

NeutralEntryRequired(h) == [h EXCEPT !.top = RequireNeutralEntry(@)]

SessionDidChange(h, w, ok) ==
  LET required == NeutralEntryRequired(h)
      stops    == ~w.session /\ h.task /\ ~h.recovery /\ h.purpose = "NONE"
      Resumed(observed) ==
        IF w.session THEN Start(observed, w, FALSE, ok) ELSE observed
  IN RefreshIfShown(
       Resumed(Observe(IF stops
                       THEN [Terminate(required) EXCEPT !.purpose = "SESSION"]
                       ELSE required, w)), w)

CanEnable(h) == ~h.enabled /\ ~h.coord.disable_pending

Enable(h, w, ok) ==
  Update(Start([h EXCEPT !.enabled = TRUE], w, FALSE, ok), w, "ENABLE")

(* A mutant of Disable: Disabled is claimed before the listener has gone.  *)
Disable_AtOnce(h, w) ==
  LET off  == [h EXCEPT !.enabled = FALSE]
      done == Verified(off, w, "DISABLE")
  IN IF h.task THEN Terminate([done EXCEPT !.purpose = "DISABLE"]) ELSE done

(* With no listener, Disable is verified when none ever ran or the last    *)
(* one's cleanup was.                                                      *)
Disable(h, w) ==
  LET off      == [h EXCEPT !.enabled = FALSE]
      verified == /\ ~h.coord.safety_latched
                  /\ ~h.coord.disable_pending
                  /\ ~h.everStarted \/ h.cleanupKnown
      failure  == IF h.safetyFailure = "NONE"
                  THEN "DEVICE_UNCERTAIN" ELSE h.safetyFailure
  IN Observe(
       IF h.task
       THEN Terminate(Unverified([off EXCEPT !.purpose = "DISABLE"], w, "DISABLE"))
       ELSE IF verified THEN Verified(off, w, "DISABLE")
       ELSE Command(off, w, "DISABLE", FALSE, failure), w)

ChangeProfile(h, w, ok) ==
  LET Restarted(observed) ==
        IF h.task THEN [Terminate(observed) EXCEPT !.purpose = "PROFILE"]
        ELSE Start(observed, w, FALSE, ok)
  IN Observe(Restarted(Observe(NeutralEntryRequired(h), w)), w)

Retry(h, w, ok) ==
  LET asked == [h EXCEPT !.purpose = IF h.coord.disable_pending
                                     THEN "DISABLE" ELSE "RETRY"]
  IN IF h.coord.disable_pending \/ h.coord.safety_latched
     THEN Observe(IF h.task THEN Terminate(asked)
                  ELSE Start(asked, w, TRUE, ok), w)
     ELSE Start(Update(NeutralEntryRequired(h), w, "RETRY"), w, FALSE, ok)

(* A mutant of Quit: the listener is not asked to stop.                    *)
Quit_WithoutStop(h, w, confirmed) ==
  LET inFlight == [h EXCEPT !.quitInFlight = TRUE]
  IN IF h.coord.safety_latched \/ h.coord.disable_pending
     THEN IF confirmed THEN [h EXCEPT !.running = FALSE] ELSE Observe(h, w)
     ELSE IF h.task
     THEN Unverified([inFlight EXCEPT !.purpose = "QUIT"], w, "QUIT")
     ELSE SafeQuit(h)

(* applicationShouldTerminate with the Quit policy.  An unverified state   *)
(* asks the user; confirmed, the app leaves at once and claims nothing.    *)
Quit(h, w, confirmed) ==
  LET inFlight == [h EXCEPT !.quitInFlight = TRUE]
      Asked(next) == IF next.coord.quit_allowed THEN SafeQuit(next) ELSE next
  IN IF h.coord.safety_latched \/ h.coord.disable_pending
     THEN IF confirmed THEN [h EXCEPT !.running = FALSE] ELSE Observe(h, w)
     ELSE IF h.task
     THEN Terminate(Unverified([inFlight EXCEPT !.purpose = "QUIT"], w, "QUIT"))
     ELSE IF h.everStarted /\ ~h.cleanupKnown THEN h
     ELSE Asked(Command(h, w, "QUIT", TRUE, "NONE"))

(* A mutant of Launch: how the last run ended is not looked at.            *)
Launch_TrustsLastRun(h, w, ok) ==
  LET loaded == [InitialApp EXCEPT !.running   = TRUE,
                                   !.enabled   = h.enabled,
                                   !.savedSafe = FALSE]
  IN Start(IF h.enabled THEN Update(loaded, w, "ENABLE") ELSE loaded,
           w, FALSE, ok)

(* A mutant of Launch: the marker of a safe Quit is not taken back.        *)
Launch_KeepsMarker(h, w, ok) ==
  LET loaded == [InitialApp EXCEPT !.running   = TRUE,
                                   !.enabled   = h.enabled,
                                   !.savedSafe = h.savedSafe]
  IN Start(IF h.enabled THEN Update(loaded, w, "ENABLE") ELSE loaded,
           w, FALSE, ok)

(* loadSetup and applicationDidFinishLaunching: what the last run saved    *)
(* decides whether this one starts latched.                                *)
Launch(h, w, ok) ==
  LET failure == IF ~h.savedSafe /\ (h.enabled \/ h.savedPending)
                 THEN "UNCLEAN_EXIT"
                 ELSE IF h.savedPending THEN "DEVICE_UNCERTAIN" ELSE "NONE"
      loaded  == [InitialApp EXCEPT !.running       = TRUE,
                                    !.enabled       = h.enabled,
                                    !.savedPending  = h.savedPending,
                                    !.savedSafe     = FALSE,
                                    !.safetyFailure = failure]
      resumed == IF h.enabled THEN Update(loaded, w, "ENABLE")
                 ELSE IF h.savedPending THEN Unverified(loaded, w, "DISABLE")
                 ELSE loaded
  IN Start(Observe(resumed, w), w, FALSE, ok)
=============================================================================
