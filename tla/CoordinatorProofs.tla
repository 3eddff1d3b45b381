-------------------------- MODULE CoordinatorProofs --------------------------
(***************************************************************************)
(* Proofs about Coordinator.  Everything follows from ApplyIsCoherent: every*)
(* call of muse_on_state_apply keeps a state typed and coherent.           *)
(***************************************************************************)
EXTENDS Coordinator, StateCoordinatorProofs

-----------------------------------------------------------------------------
(* The invariants.                                                         *)

IInv == TypeOK /\ Coherent(coord)

(* The world may move as it likes: it never touches the coordinator and    *)
(* keeps the observation typed.                                            *)
LEMMA WorldKeepsTypes ==
  ASSUME TypeOK, WorldMoves
  PROVE  coord' = coord /\ observed' \in Prerequisites
<1>1. coord' = coord
  BY DEF WorldMoves
<1>2. observed' \in Prerequisites
  BY DEF TypeOK, WorldMoves, FailureChanges, CleanupChanges,
         PermissionChanges, SessionChanges, ForegroundChanges,
         TopologyChanges, FilterChanges, RecoveryProofChanges, InputsChange,
         Prerequisites
<1>3. QED
  BY <1>1, <1>2

(* The app starts typed and coherent (muse_on_state_init).                 *)
LEMMA InitIsCoherent == Init => IInv
<1> SUFFICES ASSUME Init PROVE IInv
  OBVIOUS
<1>1. coord = InitialState
  BY DEF Init
<1>2. coord \in CoordinatorStates /\ Coherent(coord)
  BY <1>1 DEF InitialState, CoordinatorStates, Statuses, InactiveReasons,
              SafetyFailures, Coherent, GatedDispatch, VisibleLatch,
              OwnedLatch, HeldDisable
<1>3. observed \in Prerequisites
  BY DEF Init, NothingObserved, Prerequisites, SafetyFailures
<1>4. QED
  BY <1>2, <1>3 DEF IInv, TypeOK

(* No call of muse_on_state_apply and no move of the world breaks it.      *)
LEMMA StepIsCoherent == IInv /\ [Next]_vars => IInv'
<1> SUFFICES ASSUME IInv, [Next]_vars PROVE IInv'
  OBVIOUS
<1>1. CASE WorldMoves
  BY <1>1, WorldKeepsTypes DEF IInv, TypeOK
<1>2. ASSUME NEW c \in Commands, Call(c)
      PROVE  IInv'
  <2>1. /\ coord' = Apply(coord, c, observed)
        /\ observed' = observed
        /\ c = "ENABLE" => ~coord.disable_pending
    BY <1>2 DEF Call
  <2>2. coord \in CoordinatorStates /\ observed \in Prerequisites /\ Coherent(coord)
    BY DEF IInv, TypeOK
  <2>3. coord' \in CoordinatorStates /\ Coherent(coord')
    BY <2>1, <2>2, ApplyIsCoherent
  <2>4. QED
    BY <2>1, <2>2, <2>3 DEF IInv, TypeOK
<1>3. CASE UNCHANGED vars
  BY <1>3 DEF vars, IInv, TypeOK
<1>4. QED
  BY <1>1, <1>2, <1>3 DEF Next

(* IInv is inductive; the invariants below are its conjuncts.              *)
THEOREM CoherentAlways == Spec => []IInv
  BY InitIsCoherent, StepIsCoherent, PTL DEF Spec

(* Every field keeps its C type, whatever the world does.                  *)
THEOREM TypeCorrect == Spec => []TypeOK
<1>1. IInv => TypeOK
  BY DEF IInv
<1>2. QED
  BY <1>1, CoherentAlways, PTL

(* The effect struct never requests dispatch behind a latch, a pending     *)
(* Disable or a Quit.                                                      *)
THEOREM DispatchIsAlwaysGated == Spec => []DispatchIsGated
<1>1. IInv => DispatchIsGated
  BY DEF IInv, Coherent, DispatchIsGated
<1>2. QED
  BY <1>1, CoherentAlways, PTL

(* A held latch is shown, named and owned, and a pending Disable holds it. *)
THEOREM LatchIsHeldAndShown == Spec => []LatchStands
<1>1. IInv => LatchStands
  BY DEF IInv, Coherent, LatchStands
<1>2. QED
  BY <1>1, CoherentAlways, PTL

-----------------------------------------------------------------------------
(* The action properties.                                                  *)

(* No observation, Enable or Quit ever leaves the latch.                   *)
THEOREM LatchIsLeftOnlyByHand == Spec => LatchLeftOnlyByHand
<1>1. IInv /\ [Next]_vars =>
        [\A command \in {"NONE", "ENABLE", "QUIT"} :
           Call(command) /\ coord.safety_latched => coord'.safety_latched]_vars
  <2> SUFFICES ASSUME IInv, NEW c \in {"NONE", "ENABLE", "QUIT"},
                      Call(c), coord.safety_latched
               PROVE  coord'.safety_latched
    OBVIOUS
  <2>1. c \in Commands /\ c # "RETRY" /\ c # "DISABLE"
    BY DEF Commands
  <2>2. QED
    BY <2>1, ApplyIsCoherent DEF IInv, TypeOK, Call, StillPending
<1>2. QED
  BY <1>1, CoherentAlways, PTL DEF Spec, LatchLeftOnlyByHand

(* A pending Disable ends only as Disabled, over verified cleanup.         *)
THEOREM PendingDisableAlwaysEndsDisabled == Spec => PendingDisableEndsDisabled
<1>1. IInv /\ [Next]_vars =>
        [coord.disable_pending /\ ~coord'.disable_pending =>
           /\ coord'.status = "DISABLED"
           /\ ~coord'.enabled_intent
           /\ ~coord'.quit_requested
           /\ observed.cleanup_verified
           /\ observed.safety_failure = "NONE"]_vars
  <2> SUFFICES ASSUME IInv, Next, coord.disable_pending, ~coord'.disable_pending
               PROVE  /\ coord'.status = "DISABLED"
                      /\ ~coord'.enabled_intent
                      /\ ~coord'.quit_requested
                      /\ observed.cleanup_verified
                      /\ observed.safety_failure = "NONE"
    BY DEF vars
  <2>1. PICK c \in Commands : Call(c)
    BY WorldKeepsTypes DEF Next, IInv
  <2>2. CleanlyDisabled(coord', observed)
    BY <2>1, ApplyIsCoherent DEF IInv, TypeOK, Call, StillPending
  <2>3. QED
    BY <2>2 DEF CleanlyDisabled, CleanupIsVerified, ObservedSafetyFailure
<1>2. QED
  BY <1>1, CoherentAlways, PTL DEF Spec, PendingDisableEndsDisabled

(* The latch is left only over verified cleanup and, if Control stays      *)
(* Enabled, over every recovery gate.                                      *)
THEOREM LatchExitIsAlwaysProven == Spec => LatchExitIsProven
<1>1. IInv /\ [Next]_vars =>
        [coord.safety_latched /\ ~coord'.safety_latched =>
           /\ observed.cleanup_verified
           /\ observed.safety_failure = "NONE"
           /\ coord'.enabled_intent =>
                /\ observed.permission_granted
                /\ observed.controller_connected
                /\ ~observed.multiple_controllers
                /\ observed.session_available
                /\ observed.recovery_filter_verified]_vars
  <2> SUFFICES ASSUME IInv, Next, coord.safety_latched, ~coord'.safety_latched
               PROVE  /\ observed.cleanup_verified
                      /\ observed.safety_failure = "NONE"
                      /\ coord'.enabled_intent =>
                           RecoveryGatesAreClear(observed)
    BY DEF vars, RecoveryGatesAreClear
  <2>1. PICK c \in Commands : Call(c)
    BY WorldKeepsTypes DEF Next, IInv
  <2>2. \/ CleanlyDisabled(coord', observed)
        \/ CleanupIsVerified(observed) /\ RecoveryGatesAreClear(observed)
    BY <2>1, ApplyIsCoherent DEF IInv, TypeOK, Call, StillPending
  <2>3. QED
    BY <2>2 DEF CleanlyDisabled, CleanupIsVerified, ObservedSafetyFailure
<1>2. QED
  BY <1>1, CoherentAlways, PTL DEF Spec, LatchExitIsProven

(* No call ends with dispatch requested unless it saw every Active gate.   *)
THEOREM DispatchAlwaysNeedsEveryGate == Spec => DispatchNeedsEveryGate
<1>1. IInv /\ [Next]_vars =>
        [(\E command \in Commands : Call(command)) /\ coord'.request_dispatch =>
           /\ observed.safety_failure = "NONE"
           /\ observed.permission_granted
           /\ observed.controller_connected
           /\ ~observed.multiple_controllers
           /\ observed.session_available
           /\ observed.codex_foreground
           /\ observed.filter_verified
           /\ observed.inputs_released]_vars
  <2> SUFFICES ASSUME IInv, NEW c \in Commands, Call(c),
                      coord'.request_dispatch
               PROVE  /\ observed.safety_failure = "NONE"
                      /\ observed.permission_granted
                      /\ observed.controller_connected
                      /\ ~observed.multiple_controllers
                      /\ observed.session_available
                      /\ observed.codex_foreground
                      /\ observed.filter_verified
                      /\ observed.inputs_released
    OBVIOUS
  <2>1. InactiveReason(observed) = "NONE" /\ observed.safety_failure = "NONE"
    BY ApplyIsCoherent DEF IInv, TypeOK, Call
  <2>2. QED
    BY <2>1 DEF InactiveReason
<1>2. QED
  BY <1>1, CoherentAlways, PTL DEF Spec, DispatchNeedsEveryGate

(* While latched, no observation renames the failure the user sees, unless *)
(* a Quit waits for cleanup.                                               *)
THEOREM NamedFailureIsAlwaysSticky == Spec => NamedFailureIsSticky
<1>1. IInv /\ [Next]_vars =>
        [Call("NONE") /\ coord.safety_latched /\ ~coord.quit_requested =>
           coord'.safety_failure = coord.safety_failure]_vars
  <2> SUFFICES ASSUME IInv, Call("NONE"), coord.safety_latched,
                      ~coord.quit_requested
               PROVE  coord'.safety_failure = coord.safety_failure
    OBVIOUS
  <2> DEFINE s == FoldCommand(coord, "NONE")
  <2>1. /\ coord \in CoordinatorStates
        /\ coord' = Apply(coord, "NONE", observed)
        /\ OwnedLatch(coord) /\ VisibleLatch(coord)
    BY DEF IInv, TypeOK, Call, Coherent
  <2>2. /\ s \in CoordinatorStates
        /\ s.safety_latched /\ ~s.quit_requested
        /\ s.disable_pending = coord.disable_pending
        /\ s.enabled_intent = coord.enabled_intent
        /\ s.safety_failure = coord.safety_failure
        /\ s.safety_failure # "NONE"
    BY <2>1 DEF FoldCommand, CoordinatorStates, VisibleLatch
  <2>3. CASE s.disable_pending
    BY <2>1, <2>2, <2>3 DEF Apply, ApplyWhilePending, SetSafetyLatch, CoordinatorStates
  <2>4. CASE ~s.disable_pending
    <3> DEFINE updated == UpdateLatch(s, "NONE", observed)
    <3>1. /\ updated \in CoordinatorStates
          /\ updated.safety_latched
          /\ updated.safety_failure = s.safety_failure
      BY <2>1, <2>2 DEF UpdateLatch, CoordinatorStates
    <3>2. coord' = ApplyEnabled(s, "NONE", observed)
      BY <2>1, <2>2, <2>4 DEF Apply, OwnedLatch
    <3> QED
      BY <2>2, <3>1, <3>2 DEF ApplyEnabled, SetSafetyLatch, CoordinatorStates
  <2>5. QED
    BY <2>3, <2>4
<1>2. QED
  BY <1>1, CoherentAlways, PTL DEF Spec, NamedFailureIsSticky
=============================================================================
