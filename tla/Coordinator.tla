----------------------------- MODULE Coordinator -----------------------------
(***************************************************************************)
(* The state coordinator run against the world.  `observed' is what the    *)
(* adapter last saw of the world; it changes one fact at a time, in any    *)
(* order, whatever the coordinator believes.  `coord' is the coordinator's *)
(* state; it changes only when the app calls muse_on_state_apply.          *)
(***************************************************************************)
EXTENDS StateCoordinator

VARIABLES
  coord,    \* MuseOnState
  observed  \* MuseOnPrerequisites, as the next call will be given them

vars == <<coord, observed>>

NothingObserved ==
  [safety_failure           |-> "NONE",
   cleanup_verified         |-> FALSE,
   permission_granted       |-> FALSE,
   controller_connected     |-> FALSE,
   multiple_controllers     |-> FALSE,
   session_available        |-> FALSE,
   codex_foreground         |-> FALSE,
   filter_verified          |-> FALSE,
   recovery_filter_verified |-> FALSE,
   inputs_released          |-> FALSE]

(* loadSetup: nothing is known of the controller, and a previous exit that *)
(* was not verified, or a pending Disable, is a failure already.           *)
Init ==
  /\ coord = InitialState
  /\ \E failure \in {"NONE", "UNCLEAN_EXIT", "DEVICE_UNCERTAIN"},
        session \in BOOLEAN :
       observed = [NothingObserved EXCEPT !.safety_failure    = failure,
                                          !.session_available = session]

-----------------------------------------------------------------------------
(* The world moves: one fact, any value.                                   *)

FailureChanges ==
  \E failure \in SafetyFailures :
    observed' = [observed EXCEPT !.safety_failure = failure]

CleanupChanges ==
  observed' = [observed EXCEPT !.cleanup_verified = ~@]

PermissionChanges ==
  observed' = [observed EXCEPT !.permission_granted = ~@]

SessionChanges ==
  observed' = [observed EXCEPT !.session_available = ~@]

ForegroundChanges ==
  observed' = [observed EXCEPT !.codex_foreground = ~@]

(* A topology is none, one or several controllers; a change of it takes    *)
(* the live filter proof and Neutral Entry with it.                        *)
TopologyChanges ==
  \E single, multiple \in BOOLEAN :
    /\ ~(single /\ multiple)
    /\ observed' = [observed EXCEPT !.controller_connected = single,
                                    !.multiple_controllers = multiple,
                                    !.filter_verified      = FALSE,
                                    !.inputs_released      = FALSE]

FilterChanges ==
  /\ observed.controller_connected
  /\ observed' = [observed EXCEPT !.filter_verified = ~@]

RecoveryProofChanges ==
  observed' = [observed EXCEPT !.recovery_filter_verified = ~@]

InputsChange ==
  observed' = [observed EXCEPT !.inputs_released = ~@]

WorldMoves ==
  /\ \/ FailureChanges
     \/ CleanupChanges
     \/ PermissionChanges
     \/ SessionChanges
     \/ ForegroundChanges
     \/ TopologyChanges
     \/ FilterChanges
     \/ RecoveryProofChanges
     \/ InputsChange
  /\ UNCHANGED coord

-----------------------------------------------------------------------------
(* The app calls the coordinator.  The menu offers no Enable while a       *)
(* Disable is pending (enable: and the disabled segmented control).        *)

Call(command) ==
  /\ command = "ENABLE" => ~coord.disable_pending
  /\ coord' = Apply(coord, command, observed)
  /\ UNCHANGED observed

Next == WorldMoves \/ \E command \in Commands : Call(command)

Spec == Init /\ [][Next]_vars

-----------------------------------------------------------------------------
(* Invariants.                                                             *)

(* Every field of the coordinator and of the observation has its C type.   *)
TypeOK ==
  /\ coord \in CoordinatorStates
  /\ observed \in Prerequisites

(* Dispatch is requested only from a plain Active state, whatever commands *)
(* and observations led there: muse_on_state_apply never leaves the effect *)
(* set behind a latch, a pending Disable or a Quit.                        *)
DispatchIsGated == GatedDispatch(coord)

(* A latch stands: the status shows it exactly while it is held, with a    *)
(* named failure; somebody owns it, so that the "not Enabled" branch of    *)
(* the next observation cannot drop it; and while a Disable is pending it  *)
(* is held, the intent is withdrawn and nothing is filtered or dispatched. *)
LatchStands == VisibleLatch(coord) /\ OwnedLatch(coord) /\ HeldDisable(coord)

-----------------------------------------------------------------------------
(* What a step may never do.                                               *)

(* The latch is never left by an observation, by Enable or by Quit.        *)
LatchLeftOnlyByHand ==
  [][\A command \in {"NONE", "ENABLE", "QUIT"} :
       Call(command) /\ coord.safety_latched => coord'.safety_latched]_vars

(* Leaving the latch takes verified cleanup and no failure in sight; if    *)
(* Control stays Enabled it also takes permission, exactly one controller, *)
(* an available session and the recovery generation's filter proof         *)
(* (SAFETY.md, "Safety and recovery").                                     *)
LatchExitIsProven ==
  [][coord.safety_latched /\ ~coord'.safety_latched =>
       /\ observed.cleanup_verified
       /\ observed.safety_failure = "NONE"
       /\ coord'.enabled_intent =>
            /\ observed.permission_granted
            /\ observed.controller_connected
            /\ ~observed.multiple_controllers
            /\ observed.session_available
            /\ observed.recovery_filter_verified]_vars

(* A pending Disable ends only as Disabled, over verified cleanup, with no *)
(* intent and no Quit left to resume from.                                 *)
PendingDisableEndsDisabled ==
  [][coord.disable_pending /\ ~coord'.disable_pending =>
       /\ coord'.status = "DISABLED"
       /\ ~coord'.enabled_intent
       /\ ~coord'.quit_requested
       /\ observed.cleanup_verified
       /\ observed.safety_failure = "NONE"]_vars

(* A call that ends with dispatch requested saw every Active gate at once; *)
(* the recovery proof does not stand in for the live filter proof          *)
(* (CONTEXT.md, "Active": "Recovery proof never satisfies this gate").     *)
DispatchNeedsEveryGate ==
  [][(\E command \in Commands : Call(command)) /\ coord'.request_dispatch =>
       /\ observed.safety_failure = "NONE"
       /\ observed.permission_granted
       /\ observed.controller_connected
       /\ ~observed.multiple_controllers
       /\ observed.session_available
       /\ observed.codex_foreground
       /\ observed.filter_verified
       /\ observed.inputs_released]_vars

(* While latched, an observation never renames the failure the user sees,  *)
(* unless a Quit is waiting for cleanup.                                   *)
NamedFailureIsSticky ==
  [][Call("NONE") /\ coord.safety_latched /\ ~coord.quit_requested =>
       coord'.safety_failure = coord.safety_failure]_vars
=============================================================================
