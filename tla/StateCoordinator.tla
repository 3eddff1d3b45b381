-------------------------- MODULE StateCoordinator --------------------------
(***************************************************************************)
(* The state coordinator of the menu-bar app                               *)
(* (muse_on_state_coordinator.c): a pure function from a state, a user     *)
(* command and the observed prerequisites to the next state.  The app      *)
(* calls it on every observation with the command "NONE".                  *)
(*                                                                         *)
(* A coordinator state is the C struct MuseOnState with the nested effects *)
(* struct flattened into it.  This module declares no variable: Coordinator*)
(* runs it against arbitrary observations, AppDelegate against the         *)
(* observations the topology authority really produces.                    *)
(***************************************************************************)

Statuses == {"DISABLED", "INACTIVE", "ACTIVE", "SAFETY_LATCH"}

InactiveReasons ==
  {"NONE", "PERMISSION", "MULTIPLE", "DISCONNECTED", "SESSION",
   "NOT_FOREGROUND", "VERIFYING_CONTROL", "RELEASE_CONTROLS", "SAFETY_LATCH"}

SafetyFailures ==
  {"NONE", "HOLD_RELEASE", "PASSTHROUGH_RESTORE", "DEVICE_UNCERTAIN",
   "UNCLEAN_EXIT"}

Commands == {"NONE", "ENABLE", "DISABLE", "RETRY", "QUIT"}

(* MuseOnPrerequisites: what the adapter observed before the call.  The    *)
(* field safety_latched of the C struct is derived from safety_failure by  *)
(* its only caller and is read through ObservedSafetyFailure alone.        *)
Prerequisites ==
  [safety_failure           : SafetyFailures,
   cleanup_verified         : BOOLEAN,
   permission_granted       : BOOLEAN,
   controller_connected     : BOOLEAN,
   multiple_controllers     : BOOLEAN,
   session_available        : BOOLEAN,
   codex_foreground         : BOOLEAN,
   filter_verified          : BOOLEAN,
   recovery_filter_verified : BOOLEAN,
   inputs_released          : BOOLEAN]

CoordinatorStates ==
  [status           : Statuses,
   inactive_reason  : InactiveReasons,
   enabled_intent   : BOOLEAN,
   safety_latched   : BOOLEAN,
   safety_failure   : SafetyFailures,
   disable_pending  : BOOLEAN,
   quit_requested   : BOOLEAN,
   quit_allowed     : BOOLEAN,
   request_filter   : BOOLEAN,
   request_dispatch : BOOLEAN,
   request_cleanup  : BOOLEAN]

InitialState ==
  [status           |-> "DISABLED",
   inactive_reason  |-> "NONE",
   enabled_intent   |-> FALSE,
   safety_latched   |-> FALSE,
   safety_failure   |-> "NONE",
   disable_pending  |-> FALSE,
   quit_requested   |-> FALSE,
   quit_allowed     |-> FALSE,
   request_filter   |-> FALSE,
   request_dispatch |-> FALSE,
   request_cleanup  |-> FALSE]

-----------------------------------------------------------------------------
(* What the prerequisites say.                                             *)

(* A mutant of InactiveReason: a constant of the wrong enumeration.        *)
InactiveReason_AsFailure(p) ==
  IF ~p.permission_granted THEN "PERMISSION"
  ELSE IF ~p.inputs_released THEN "DEVICE_UNCERTAIN"
  ELSE "NONE"

(* A mutant of InactiveReason: the Neutral Entry gate is forgotten.        *)
InactiveReason_TrustsInputs(p) ==
  IF ~p.permission_granted        THEN "PERMISSION"
  ELSE IF p.multiple_controllers  THEN "MULTIPLE"
  ELSE IF ~p.controller_connected THEN "DISCONNECTED"
  ELSE IF ~p.session_available    THEN "SESSION"
  ELSE IF ~p.codex_foreground     THEN "NOT_FOREGROUND"
  ELSE IF ~p.filter_verified      THEN "VERIFYING_CONTROL"
  ELSE "NONE"

(* The gates of Active in the order of the priority list; the reason shown *)
(* is the first that fails.                                                *)
InactiveReason(p) ==
  IF ~p.permission_granted        THEN "PERMISSION"
  ELSE IF p.multiple_controllers  THEN "MULTIPLE"
  ELSE IF ~p.controller_connected THEN "DISCONNECTED"
  ELSE IF ~p.session_available    THEN "SESSION"
  ELSE IF ~p.codex_foreground     THEN "NOT_FOREGROUND"
  ELSE IF ~p.filter_verified      THEN "VERIFYING_CONTROL"
  ELSE IF ~p.inputs_released      THEN "RELEASE_CONTROLS"
  ELSE "NONE"

(* The only caller sets the C field safety_latched exactly when it passes  *)
(* a named failure, so the fallback to DEVICE_UNCERTAIN never applies.     *)
ObservedSafetyFailure(p) == p.safety_failure

(* A mutant of CleanupIsVerified: an observed failure does not count.      *)
CleanupIsVerified_DespiteFailure(p) == p.cleanup_verified

CleanupIsVerified(p) ==
  p.cleanup_verified /\ ObservedSafetyFailure(p) = "NONE"

(* A mutant of RecoveryGatesAreClear: no recovery filter proof is asked.   *)
RecoveryGatesAreClear_Unfiltered(p) ==
  /\ p.permission_granted
  /\ ~p.multiple_controllers
  /\ p.controller_connected
  /\ p.session_available

(* Foreground and Neutral Entry are deliberately absent: a Retry in the    *)
(* background may clear the latch.                                         *)
RecoveryGatesAreClear(p) ==
  /\ p.permission_granted
  /\ ~p.multiple_controllers
  /\ p.controller_connected
  /\ p.session_available
  /\ p.recovery_filter_verified

(* Enabled and Connected is Reserved: the raw buttons stay filtered.       *)
Reserved(p) == p.controller_connected /\ ~p.multiple_controllers
-----------------------------------------------------------------------------
(* The three ways a call can end.                                          *)

(* enabled_intent and request_cleanup are left as they are.                *)
SetDisabled(s) ==
  [s EXCEPT !.status           = "DISABLED",
            !.inactive_reason  = "NONE",
            !.safety_latched   = FALSE,
            !.safety_failure   = "NONE",
            !.disable_pending  = FALSE,
            !.quit_requested   = FALSE,
            !.quit_allowed     = FALSE,
            !.request_filter   = FALSE,
            !.request_dispatch = FALSE]

(* A mutant of SetSafetyLatch: the dispatch request survives.              *)
SetSafetyLatch_KeepsDispatch(s, failure, p) ==
  [s EXCEPT !.status          = "SAFETY_LATCH",
            !.inactive_reason = "SAFETY_LATCH",
            !.safety_latched  = TRUE,
            !.safety_failure  = IF failure # "NONE" THEN failure
                                ELSE IF @ = "NONE" THEN "DEVICE_UNCERTAIN"
                                ELSE @,
            !.request_filter  = s.enabled_intent /\ Reserved(p)]

(* A new failure replaces the one shown; without one the old name stays.   *)
SetSafetyLatch(s, failure, p) ==
  [s EXCEPT !.status           = "SAFETY_LATCH",
            !.inactive_reason  = "SAFETY_LATCH",
            !.safety_latched   = TRUE,
            !.safety_failure   = IF failure # "NONE" THEN failure
                                 ELSE IF @ = "NONE" THEN "DEVICE_UNCERTAIN"
                                 ELSE @,
            !.request_filter   = s.enabled_intent /\ Reserved(p),
            !.request_dispatch = FALSE]

SetActiveOrInactive(s, p) ==
  LET active == InactiveReason(p) = "NONE"
  IN [s EXCEPT !.status           = IF active THEN "ACTIVE" ELSE "INACTIVE",
               !.inactive_reason  = InactiveReason(p),
               !.safety_latched   = FALSE,
               !.safety_failure   = "NONE",
               !.request_filter   = active \/ Reserved(p),
               !.request_dispatch = active]

-----------------------------------------------------------------------------
(* muse_on_state_apply.                                                    *)

(* The command is folded into the intent before anything is looked at; the *)
(* two one-shot outputs of the previous call are dropped.                  *)
FoldCommand(s, command) ==
  [s EXCEPT !.quit_allowed    = FALSE,
            !.request_cleanup = FALSE,
            !.enabled_intent  = (@ \/ command = "ENABLE") /\ command # "DISABLE",
            !.quit_requested  = @ \/ command = "QUIT"]

(* A mutant of ApplyDisable: the Disable is not remembered as pending.     *)
ApplyDisable_NeverPends(s, p) ==
  LET cleaning == [s EXCEPT !.quit_requested = FALSE, !.request_cleanup = TRUE]
  IN IF CleanupIsVerified(p)
     THEN SetDisabled(cleaning)
     ELSE SetSafetyLatch(cleaning, ObservedSafetyFailure(p), p)

(* Disable finishes only over a verified cleanup and otherwise stays       *)
(* pending behind the latch.  It also withdraws a Quit.                    *)
ApplyDisable(s, p) ==
  LET pending == [s EXCEPT !.disable_pending = TRUE,
                           !.quit_requested  = FALSE,
                           !.request_cleanup = TRUE]
  IN IF CleanupIsVerified(p)
     THEN SetDisabled(pending)
     ELSE SetSafetyLatch(pending, ObservedSafetyFailure(p), p)

(* Only Retry looks at the prerequisites while a Disable is pending.       *)
ApplyWhilePending(s, command, p) ==
  LET retrying == [s EXCEPT !.request_cleanup = TRUE]
  IN IF command # "RETRY"       THEN SetSafetyLatch(s, "NONE", p)
     ELSE IF CleanupIsVerified(p) THEN SetDisabled(retrying)
     ELSE SetSafetyLatch(retrying, ObservedSafetyFailure(p), p)

(* An allowed Quit leaves status and latch as they were.                   *)
ApplyQuit(s, p) ==
  LET cleaning == [s EXCEPT !.request_cleanup = TRUE]
  IN IF CleanupIsVerified(p)
     THEN [cleaning EXCEPT !.quit_allowed     = TRUE,
                           !.request_filter   = FALSE,
                           !.request_dispatch = FALSE]
     ELSE SetSafetyLatch(cleaning, ObservedSafetyFailure(p), p)

(* A mutant of UpdateLatch: any command over clear gates leaves the latch. *)
UpdateLatch_ByAnyCommand(s, command, p) ==
  LET failure == ObservedSafetyFailure(p)
  IN IF failure # "NONE"
     THEN [s EXCEPT !.safety_latched = TRUE, !.safety_failure = failure]
     ELSE IF CleanupIsVerified(p) /\ RecoveryGatesAreClear(p)
     THEN [s EXCEPT !.safety_latched = FALSE, !.safety_failure = "NONE"]
     ELSE s

(* A mutant of UpdateLatch: every observation renames the failure.         *)
UpdateLatch_Renames(s, command, p) ==
  LET failure == ObservedSafetyFailure(p)
  IN IF failure # "NONE"
     THEN [s EXCEPT !.safety_latched = TRUE, !.safety_failure = failure]
     ELSE IF s.safety_latched /\ command = "RETRY"
               /\ CleanupIsVerified(p) /\ RecoveryGatesAreClear(p)
     THEN [s EXCEPT !.safety_latched = FALSE, !.safety_failure = "NONE"]
     ELSE s

(* The latch is entered on any observed failure and left only by a Retry   *)
(* that finds verified cleanup and every recovery gate.  While it is held, *)
(* only a Retry renames the failure.                                       *)
UpdateLatch(s, command, p) ==
  LET failure == ObservedSafetyFailure(p)
  IN IF failure # "NONE"
     THEN [s EXCEPT !.safety_latched = TRUE,
                    !.safety_failure =
                       IF ~s.safety_latched \/ command = "RETRY"
                       THEN failure ELSE @]
     ELSE IF s.safety_latched /\ command = "RETRY"
               /\ CleanupIsVerified(p) /\ RecoveryGatesAreClear(p)
     THEN [s EXCEPT !.safety_latched = FALSE, !.safety_failure = "NONE"]
     ELSE s

ApplyEnabled(s, command, p) ==
  LET updated == UpdateLatch(s, command, p)
  IN IF updated.safety_latched
     THEN SetSafetyLatch([updated EXCEPT !.request_cleanup = command = "RETRY"],
                         "NONE", p)
     ELSE SetActiveOrInactive(updated, p)

(* The branches in the order the code takes them.                          *)
Apply(state, command, p) ==
  LET s == FoldCommand(state, command)
  IN IF command = "DISABLE"     THEN ApplyDisable(s, p)
     ELSE IF s.disable_pending  THEN ApplyWhilePending(s, command, p)
     ELSE IF s.quit_requested   THEN ApplyQuit(s, p)
     ELSE IF ~s.enabled_intent  THEN SetDisabled(s)
     ELSE ApplyEnabled(s, command, p)
-----------------------------------------------------------------------------
(* What holds of every state the coordinator produces.  Stated of a state, *)
(* so that every module that keeps one can claim it.                       *)

(* Dispatch is requested only from a plain Active state: the intent is     *)
(* enabled, no latch, no Disable pending, no Quit under way (SAFETY.md,    *)
(* "dispatch is permitted only while every Active gate is current").       *)
GatedDispatch(s) ==
  s.request_dispatch =>
    /\ s.status = "ACTIVE"
    /\ s.enabled_intent
    /\ s.request_filter
    /\ ~s.safety_latched
    /\ ~s.disable_pending
    /\ ~s.quit_requested

(* The latch shown and the latch held are one, and it has a name - also    *)
(* across a Quit, which leaves the status alone.                           *)
VisibleLatch(s) ==
  /\ s.safety_latched <=> s.status = "SAFETY_LATCH"
  /\ s.safety_latched <=> s.inactive_reason = "SAFETY_LATCH"
  /\ s.safety_latched => s.safety_failure # "NONE"

(* A latch without an enabled intent is owned by a pending Disable or a    *)
(* pending Quit.  Otherwise the next observation would drop it through the *)
(* "not Enabled" branch, with no cleanup verified.                         *)
OwnedLatch(s) ==
  s.safety_latched =>
    s.enabled_intent \/ s.disable_pending \/ s.quit_requested

(* A pending Disable is a latch with the intent withdrawn (CONTEXT.md,     *)
(* "Disable Pending": Control remains in Safety latch and sends nothing).  *)
HeldDisable(s) ==
  s.disable_pending =>
    /\ s.safety_latched
    /\ ~s.enabled_intent
    /\ ~s.request_filter
    /\ ~s.request_dispatch

Coherent(s) ==
  /\ GatedDispatch(s)
  /\ VisibleLatch(s)
  /\ OwnedLatch(s)
  /\ HeldDisable(s)
=============================================================================
