----------------------------- MODULE TopologyHost -----------------------------
(***************************************************************************)
(* The topology authority of the menu-bar app (muse_on_topology.c): what   *)
(* the app believes of the controller, as reported by the one listener     *)
(* generation it trusts.  Every event names the generation it comes from;  *)
(* an event of another generation, or of a generation already invalidated, *)
(* is stale and changes nothing.                                           *)
(*                                                                         *)
(* A belief is the C struct MuseOnTopologyHostState with the nested        *)
(* authority flattened into it.  The module declares no variable; Host     *)
(* keeps one belief and feeds it the listener's events.                    *)
(***************************************************************************)
EXTENDS Naturals, StateCoordinator

CONSTANT Locations  \* USB locations a controller can be at; 0 is "no location"

ASSUME LocationsAssumption == Locations \subseteq Nat \ {0}

ConnectionStates == {"UNKNOWN", "DISCONNECTED", "SINGLE", "MULTIPLE"}

Snapshots == [state : ConnectionStates, location : Locations \cup {0}]

UnknownSnapshot == [state |-> "UNKNOWN", location |-> 0]

(* Exactly a single controller has a location.                             *)
SnapshotIsValid(snapshot) ==
  (snapshot.state = "SINGLE") <=> (snapshot.location # 0)

RecoveryOutcomes == {"WAIT", "NEUTRAL_ENTRY_PENDING", "SUCCESS", "FAILURE"}

Beliefs ==
  [generation               : Nat,
   authoritative            : BOOLEAN,
   snapshot                 : Snapshots,
   controller_connected     : BOOLEAN,
   multiple_controllers     : BOOLEAN,
   controller_location_id   : Locations \cup {0},
   inputs_released          : BOOLEAN,
   permission_granted       : BOOLEAN,
   filter_verified          : BOOLEAN,
   recovery_filter_verified : BOOLEAN,
   recovery_mode            : BOOLEAN,
   recovery_validated       : BOOLEAN,
   recovery_failed          : BOOLEAN,
   safety_failure           : SafetyFailures]

InitialBelief ==
  [generation               |-> 0,
   authoritative            |-> FALSE,
   snapshot                 |-> UnknownSnapshot,
   controller_connected     |-> FALSE,
   multiple_controllers     |-> FALSE,
   controller_location_id   |-> 0,
   inputs_released          |-> FALSE,
   permission_granted       |-> FALSE,
   filter_verified          |-> FALSE,
   recovery_filter_verified |-> FALSE,
   recovery_mode            |-> FALSE,
   recovery_validated       |-> FALSE,
   recovery_failed          |-> FALSE,
   safety_failure           |-> "NONE"]

-----------------------------------------------------------------------------
(* Generations.                                                            *)

ClearObservation(t) ==
  [t EXCEPT !.controller_connected     = FALSE,
            !.multiple_controllers     = FALSE,
            !.controller_location_id   = 0,
            !.inputs_released          = FALSE,
            !.filter_verified          = FALSE,
            !.recovery_filter_verified = FALSE]

(* A new generation is trusted and knows nothing yet.                      *)
BeginGeneration(t, generation, recovery) ==
  [ClearObservation(t) EXCEPT !.generation         = generation,
                              !.snapshot           = UnknownSnapshot,
                              !.authoritative      = TRUE,
                              !.recovery_mode      = recovery,
                              !.recovery_validated = FALSE,
                              !.recovery_failed    = FALSE,
                              !.safety_failure     = "NONE"]

IsCurrent(t, generation) == t.authoritative /\ t.generation = generation

(* A mutant of Invalidate: a constant of the wrong enumeration.            *)
Invalidate_NamesStatus(t, latch, fallback) ==
  [ClearObservation(t) EXCEPT
     !.snapshot       = UnknownSnapshot,
     !.authoritative  = FALSE,
     !.safety_failure = IF latch THEN "SAFETY_LATCH" ELSE @]

(* The generation ended or broke its protocol.  A validated recovery keeps *)
(* its terminal evidence, so that Retry can still use it.                  *)
Invalidate(t, latch, fallback) ==
  LET kept == IF t.recovery_mode /\ t.recovery_validated
              THEN t ELSE ClearObservation(t)
  IN [kept EXCEPT !.snapshot       = UnknownSnapshot,
                  !.authoritative  = FALSE,
                  !.safety_failure = IF ~latch THEN @
                                     ELSE IF fallback = "NONE"
                                     THEN "DEVICE_UNCERTAIN"
                                     ELSE fallback]

-----------------------------------------------------------------------------
(* Events of the current generation: which are taken, and what they do.    *)

EventResult(t, generation, snapshot) ==
  IF ~IsCurrent(t, generation)       THEN "IGNORED_STALE"
  ELSE IF ~SnapshotIsValid(snapshot) THEN "REJECTED_INVALID"
  ELSE "ACCEPTED"

(* A mutant of ApplyTopology: the live filter proof survives a change of   *)
(* the controller.                                                         *)
ApplyTopology_KeepsProof(t, snapshot) ==
  LET seen == [t EXCEPT !.snapshot = snapshot]
  IN IF snapshot.state = "UNKNOWN" /\ t.recovery_mode /\ t.recovery_validated
     THEN seen
     ELSE [seen EXCEPT !.controller_connected   = snapshot.state = "SINGLE",
                       !.multiple_controllers   = snapshot.state = "MULTIPLE",
                       !.controller_location_id = snapshot.location,
                       !.inputs_released        = FALSE]

(* The shutdown of a validated recovery ends in an Unknown topology, which *)
(* must not wipe the evidence.  Any other change of the controller takes   *)
(* Neutral Entry and the live filter proof with it.                        *)
ApplyTopology(t, snapshot) ==
  LET single   == snapshot.state = "SINGLE"
      multiple == snapshot.state = "MULTIPLE"
      seen     == [t EXCEPT !.snapshot = snapshot]
      fresh    == \/ snapshot.state = "UNKNOWN"
                  \/ t.controller_connected # single
                  \/ t.multiple_controllers # multiple
                  \/ t.controller_location_id # snapshot.location
  IN IF snapshot.state = "UNKNOWN" /\ t.recovery_mode /\ t.recovery_validated
     THEN seen
     ELSE [seen EXCEPT !.controller_connected   = single,
                       !.multiple_controllers   = multiple,
                       !.controller_location_id = snapshot.location,
                       !.inputs_released        = @ /\ ~fresh,
                       !.filter_verified        = @ /\ ~fresh]

(* A claim of success or of a pending release must carry its evidence.     *)
RecoveryClaimHolds(outcome, snapshot, released, permission, verified) ==
  LET proven == snapshot.state = "SINGLE" /\ permission /\ verified
  IN \/ outcome = "SUCCESS" /\ proven /\ released
     \/ outcome = "NEUTRAL_ENTRY_PENDING" /\ proven /\ ~released
     \/ outcome = "FAILURE"

RecoveryResult(t, generation, snapshot, outcome, released, permission, verified) ==
  LET result == EventResult(t, generation, snapshot)
  IN IF result # "ACCEPTED" THEN result
     ELSE IF /\ t.recovery_mode
             /\ RecoveryClaimHolds(outcome, snapshot, released, permission, verified)
     THEN "ACCEPTED" ELSE "REJECTED_INVALID"

(* What a recovery proves is recovery evidence, never a live filter proof. *)
ApplyRecovery(t, snapshot, outcome, released, permission, verified) ==
  LET validated == outcome # "FAILURE"
  IN [ApplyTopology(t, snapshot) EXCEPT
        !.recovery_validated       = validated,
        !.recovery_failed          = ~validated,
        !.inputs_released          = released,
        !.permission_granted       = permission,
        !.filter_verified          = FALSE,
        !.recovery_filter_verified = validated /\ verified]

ApplyNeutralEntry(t, released) == [t EXCEPT !.inputs_released = released]

ApplyFocusChanged(t, foreground) ==
  [t EXCEPT !.inputs_released = @ /\ foreground]

(* A live filter proof needs the one controller it is about.               *)
FilterEventTaken(t, generation, verified) ==
  /\ IsCurrent(t, generation)
  /\ verified => /\ t.snapshot.state = "SINGLE"
                 /\ t.controller_connected
                 /\ ~t.multiple_controllers

(* In a recovery generation a filter is acknowledged, never trusted.       *)
ApplyFilterVerification(t, verified) ==
  IF verified /\ t.recovery_mode THEN t
  ELSE [t EXCEPT !.filter_verified = verified]

RequireNeutralEntry(t) == [t EXCEPT !.inputs_released = FALSE]

-----------------------------------------------------------------------------
(* What the coordinator is told (apply_coordinator).                       *)

(* The recovery was validated, every gate is clear, and yet the cleanup of *)
(* the recovery listener is not verified: Pass-through was not restored.   *)
RestorationUnverified(t, cleanup, permission, session) ==
  /\ t.recovery_validated
  /\ ~cleanup
  /\ permission
  /\ t.controller_connected
  /\ ~t.multiple_controllers
  /\ session
  /\ t.inputs_released
  /\ ~t.filter_verified

PrerequisitesOf(t, command, failure, cleanup, permission, session, foreground) ==
  [safety_failure           |->
     IF /\ command = "RETRY"
        /\ failure = "NONE"
        /\ RestorationUnverified(t, cleanup, permission, session)
     THEN "PASSTHROUGH_RESTORE" ELSE failure,
   cleanup_verified         |-> cleanup,
   permission_granted       |-> permission,
   controller_connected     |-> t.controller_connected,
   multiple_controllers     |-> t.multiple_controllers,
   session_available        |-> session,
   codex_foreground         |-> foreground,
   filter_verified          |-> t.filter_verified,
   recovery_filter_verified |-> t.recovery_filter_verified,
   inputs_released          |-> t.inputs_released]

-----------------------------------------------------------------------------
(* What holds of every belief.                                             *)

(* A live filter proof belongs to a trusted, normal generation that sees   *)
(* exactly one controller; recovery evidence belongs to a validated        *)
(* recovery generation (CONTEXT.md, "Recovery filter proof").              *)
Grounded(t) ==
  /\ t.filter_verified =>
       /\ t.authoritative
       /\ ~t.recovery_mode
       /\ t.snapshot.state = "SINGLE"
       /\ t.controller_connected
  /\ t.recovery_filter_verified =>
       t.recovery_mode /\ t.recovery_validated
  /\ ~(t.controller_connected /\ t.multiple_controllers)
=============================================================================
