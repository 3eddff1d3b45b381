------------------------------ MODULE HostProofs ------------------------------
(***************************************************************************)
(* Proofs about Host: the menu-bar app and its listener, for every set of  *)
(* controllers, of stirs and every bound.                                  *)
(*                                                                         *)
(* HostInv is the inductive invariant.  It has three parts.                *)
(*                                                                         *)
(*   Settled  what holds of the delegate between two of its handlers: its  *)
(*            coordinator, its belief and its own fields agree;            *)
(*   Fits     what the listener may be doing and what it may have written  *)
(*            that the app has not read, given what the delegate believes; *)
(*   the types of what is around them.                                     *)
(*                                                                         *)
(* A handler of the delegate is an operator from a delegate h to a delegate*)
(* g, put together of calls of the coordinator, changes of the belief and  *)
(* the launch of a listener.  One predicate on h and g sums up each kind of*)
(* piece, and one lemma per piece shows it:                                *)
(*                                                                         *)
(*   Told, Noted   a call of the coordinator, with a command or without;   *)
(*   Loses         a generation is given up;                               *)
(*   Starts        a listener is set up and launched;                      *)
(*   Heard         an event of the listener is handled;                    *)
(*   Finishes      the end of a listener is settled;                       *)
(*   Acts          everything else: buttons, Quit, session, popover.       *)
(*                                                                         *)
(* The hard part is the pipe.  The app latches when the listener says that *)
(* its filter is on while the app believes no single controller is there.  *)
(* Nobody sees both sides at once: the listener writes lines the app reads *)
(* later.  Faithful therefore speaks of the snapshot the app will hold when*)
(* it comes to a line (SightedIn), and every step of the listener keeps    *)
(* the unread lines in that relation to what the listener wants (Speaks).  *)
(*                                                                         *)
(* The second half of the module is about the key mapping that a listener  *)
(* may leave on the keyboard, until a recovery listener is refused a       *)
(* permission.  MapInv is its invariant: whoever the mapping is left to    *)
(* answers for it - the listener that runs, the latch of an app that has   *)
(* none, or the saved marks of an app that ended.  It is built like the    *)
(* first half:                                                             *)
(*                                                                         *)
(*   Remembers, Recalls   what a call of the coordinator keeps of the latch*)
(*                        and of the reasons to hold it;                   *)
(*   Trusts               when the app takes a recovery for valid;         *)
(*   Rests, Lands         a handler that leaves no listener, or begins one;*)
(*   Goes, Way, Ensues    one after which the listener goes on, and either.*)
(***************************************************************************)
EXTENDS Host, StateCoordinatorProofs, SequenceTheorems

(* What the topology authority holds is typed, grounded and, in a normal   *)
(* generation, agrees with the snapshot it shows.                          *)
Believes(t) ==
  /\ t \in Beliefs
  /\ Grounded(t)
  /\ ~t.recovery_mode =>
       /\ t.controller_connected <=> t.snapshot.state = "SINGLE"
       /\ t.multiple_controllers <=> t.snapshot.state = "MULTIPLE"

(* A request to dispatch has its evidence.                                 *)
Evidence(h) ==
  h.coord.request_dispatch =>
    h.permission /\ h.top.filter_verified /\ h.top.inputs_released

(* The filter is believed of a normal listener that runs.                  *)
Seated(h) == h.top.filter_verified => h.task /\ ~h.recovery

(* What every handler keeps at each of its steps: the delegate is typed,   *)
(* the coordinator coherent, the belief grounded.                          *)
Sane(h) ==
  /\ h \in Apps
  /\ Coherent(h.coord)
  /\ Standing(h.coord)
  /\ Believes(h.top)
  /\ Seated(h)

(* The delegate between two handlers.                                      *)
Settled(h) ==
  /\ Sane(h)
  /\ Evidence(h)
  /\ h.task => (h.recovery <=> h.top.recovery_mode)
  /\ h.running =>
       /\ AtRest(h.coord)
       /\ h.enabled <=> h.coord.enabled_intent
       /\ h.task => h.coord.status # "DISABLED"
       /\ h.purpose = "DISABLE" => h.coord.disable_pending
       /\ h.safetyFailure # "NONE" =>
            h.coord.safety_latched \/ (h.task /\ h.sawSafetyLatch)

(* The delegate has seen, or named, a reason to stop its listener.         *)
Alarmed(h) ==
  \/ h.coord.safety_latched
  \/ h.safetyFailure # "NONE"
  \/ h.sawSafetyLatch
  \/ ~h.top.authoritative

(* The snapshot in force when line i of q is read is that of one           *)
(* controller: s, when no line before i changes it, or the last one named  *)
(* before i.                                                               *)
SightedIn(s, q, i) ==
  \E j \in 0..(i - 1) :
    /\ IF j = 0 THEN s.state = "SINGLE"
       ELSE q[j].event = "topology" /\ q[j].snapshot.state = "SINGLE"
    /\ \A k \in (j + 1)..(i - 1) : q[k].event # "topology"

(* The events that raise an alarm whenever they come.                      *)
Troubles == {"safety_latch", "stopped", "permission_required", "recovery_state"}

(* No line of q raises an alarm in an app that starts to read it with      *)
(* snapshot s.                                                             *)
Clear(s, q) ==
  \A i \in 1..Len(q) :
    /\ q[i].event \notin Troubles
    /\ q[i].event = "filter_applied" => SightedIn(s, q, i)

(* What the listener has written and the app has not read yet raises no    *)
(* alarm; the listener wants its filter only of a controller it named.     *)
Faithful(s, q, wanted) ==
  /\ Clear(s, q)
  /\ wanted => SightedIn(s, q, Len(q) + 1)

(* The listener wants its filter applied.                                  *)
Wanted(c) == c.seen.state = "SINGLE" /\ c.missing = {}

(* A normal listener the app goes on with has told nothing alarming, read  *)
(* or unread; else it is told to stop, or stops.                           *)
Obeys(a, c, q) ==
  a.running /\ a.task /\ ~a.recovery =>
    \/ a.signalled \/ c.stopping \/ c.phase = "GONE"
    \/ /\ ~Alarmed(a)
       /\ c.phase = "RUNNING" => Faithful(a.top.snapshot, q, Wanted(c))

(* There is a child exactly while the delegate has a task; a child that    *)
(* boots has said nothing, and one that runs has room for what it says on  *)
(* its way out.                                                            *)
Runs(a, c, q) ==
  /\ c.phase = "NONE" <=> ~(a.running /\ a.task)
  /\ c.phase = "NONE" => c = NoChild /\ q = <<>>
  /\ c.phase = "BOOTING" => c = Booting /\ q = <<>>
  /\ c.phase = "RUNNING" /\ ~c.stopping => Len(q) <= PipeRoom + 6
  /\ c.phase = "RUNNING" /\ c.stopping => Len(q) <= PipeRoom + 7

(* The child and the pipe, given the delegate.                             *)
Fits(a, c, q) ==
  /\ c \in Children
  /\ q \in Seq(Events) /\ Len(q) <= PipeRoom + 11
  /\ Runs(a, c, q)
  /\ Obeys(a, c, q)

(* The types of what neither the app nor its child decides.                *)
Surroundings ==
  /\ world \in Worlds
  /\ notice \in BOOLEAN
  /\ stirs \in [allowed : StirSets, count : 0..MaxStirs]

(* The inductive invariant of Host.                                        *)
HostInv == Settled(app) /\ Fits(app, child, pipe) /\ Surroundings

-----------------------------------------------------------------------------
(* The topology authority.                                                 *)

(* What the listener can report is a snapshot the app accepts.             *)
LEMMA SightsAreValid ==
  ASSUME NEW s \in Sights
  PROVE  s \in Snapshots /\ SnapshotIsValid(s)
BY LocationsAssumption DEF Sights, Controllers, UnknownSnapshot, Snapshots,
   ConnectionStates, SnapshotIsValid

(* u is a new generation of the belief t.                                  *)
BeginsAnew(t, recovery, u) ==
  /\ Believes(u)
  /\ ~u.filter_verified
  /\ u.authoritative
  /\ u.recovery_mode = recovery
  /\ u.generation # t.generation

(* Beginning a generation forgets the proof of the filter and takes the    *)
(* authority back (beginGeneration, requireNeutralEntry).                  *)
LEMMA BeginBelieves ==
  ASSUME NEW t, Believes(t), NEW recovery \in BOOLEAN
  PROVE  BeginsAnew(t, recovery,
           RequireNeutralEntry(BeginGeneration(t, t.generation + 1, recovery)))
<1> DEFINE u == RequireNeutralEntry(BeginGeneration(t, t.generation + 1, recovery))
<1>1. t \in Beliefs /\ t.generation + 1 \in Nat /\ UnknownSnapshot \in Snapshots
      /\ t.generation + 1 # t.generation
  BY DEF Believes, Beliefs, UnknownSnapshot, Snapshots, ConnectionStates
<1>2. u \in Beliefs
  BY <1>1 DEF Beliefs, RequireNeutralEntry, BeginGeneration, ClearObservation,
     SafetyFailures
<1>3. /\ ~u.filter_verified /\ ~u.recovery_filter_verified
      /\ ~u.controller_connected /\ ~u.multiple_controllers
      /\ u.snapshot = UnknownSnapshot
      /\ u.authoritative
      /\ u.recovery_mode = recovery
      /\ u.generation = t.generation + 1
  BY <1>1 DEF Beliefs, RequireNeutralEntry, BeginGeneration, ClearObservation
<1> HIDE DEF u
<1>4. BeginsAnew(t, recovery, u)
  BY <1>1, <1>2, <1>3 DEF BeginsAnew, Believes, Grounded, UnknownSnapshot
<1> QED
  BY <1>4 DEF u

(* u is what becomes of t in the same generation.                          *)
Same(t, u) ==
  /\ Believes(u)
  /\ u.generation = t.generation
  /\ u.recovery_mode = t.recovery_mode

(* The generation of t is given up; one that latches names a failure.      *)
Doubts(t, latch, u) ==
  /\ Same(t, u)
  /\ ~u.authoritative
  /\ ~u.filter_verified
  /\ latch => u.safety_failure # "NONE"

(* Giving up a generation (invalidate).                                    *)
LEMMA InvalidateDoubts ==
  ASSUME NEW t, Believes(t), NEW latch \in BOOLEAN, NEW fallback \in SafetyFailures
  PROVE  Doubts(t, latch, Invalidate(t, latch, fallback))
<1> DEFINE kept == IF t.recovery_mode /\ t.recovery_validated
                   THEN t ELSE ClearObservation(t)
           named == IF ~latch THEN t.safety_failure
                    ELSE IF fallback = "NONE" THEN "DEVICE_UNCERTAIN" ELSE fallback
           u == Invalidate(t, latch, fallback)
<1>1. t \in Beliefs /\ Grounded(t) /\ UnknownSnapshot \in Snapshots
  BY DEF Believes, UnknownSnapshot, Snapshots, ConnectionStates
<1>2. /\ kept \in Beliefs
      /\ kept.generation = t.generation
      /\ kept.recovery_mode = t.recovery_mode
      /\ kept.safety_failure = t.safety_failure
      /\ ~kept.filter_verified
      /\ kept.recovery_filter_verified =>
           kept.recovery_mode /\ kept.recovery_validated
      /\ ~(kept.controller_connected /\ kept.multiple_controllers)
      /\ ~kept.recovery_mode =>
           ~kept.controller_connected /\ ~kept.multiple_controllers
  BY <1>1 DEF Beliefs, Grounded, ClearObservation
<1>3. named \in SafetyFailures /\ (latch => named # "NONE")
  BY <1>1 DEF SafetyFailures, Beliefs
<1>4. u = [kept EXCEPT !.snapshot = UnknownSnapshot, !.authoritative = FALSE,
                       !.safety_failure = named]
  <2>1. kept.safety_failure = t.safety_failure
    BY <1>2
  <2> QED
    BY <1>2, <2>1 DEF Invalidate, Beliefs
<1> HIDE DEF kept, named, u
<1>5. /\ u \in Beliefs
      /\ u.generation = kept.generation
      /\ u.recovery_mode = kept.recovery_mode
      /\ u.recovery_validated = kept.recovery_validated
      /\ u.safety_failure = named
      /\ u.filter_verified = kept.filter_verified
      /\ u.recovery_filter_verified = kept.recovery_filter_verified
      /\ u.controller_connected = kept.controller_connected
      /\ u.multiple_controllers = kept.multiple_controllers
      /\ u.snapshot = UnknownSnapshot
      /\ ~u.authoritative
  BY <1>1, <1>2, <1>3, <1>4 DEF Beliefs
<1>6. Doubts(t, latch, u)
  BY <1>2, <1>3, <1>5 DEF Doubts, Same, Believes, Grounded, UnknownSnapshot
<1> QED
  BY <1>6 DEF u

(* u is t with something learnt: the authority stays, no filter is newly   *)
(* believed.                                                               *)
Stays(t, u) ==
  /\ Same(t, u)
  /\ u.authoritative = t.authoritative
  /\ u.filter_verified => t.filter_verified

(* u is t with snapshot s in force.                                        *)
Beholds(t, s, u) ==
  /\ Stays(t, u)
  /\ u.snapshot = s

(* A topology event replaces the snapshot and never adds to the proof.     *)
LEMMA ApplyTopologyBeholds ==
  ASSUME NEW t, Believes(t), NEW s \in Sights
  PROVE  Beholds(t, s, ApplyTopology(t, s))
<1> DEFINE single   == s.state = "SINGLE"
           multiple == s.state = "MULTIPLE"
           fresh    == \/ s.state = "UNKNOWN"
                       \/ t.controller_connected # single
                       \/ t.multiple_controllers # multiple
                       \/ t.controller_location_id # s.location
           seen     == [t EXCEPT !.snapshot = s]
           inputs   == t.inputs_released /\ ~fresh
           filter   == t.filter_verified /\ ~fresh
           u        == ApplyTopology(t, s)
<1>1. /\ t \in Beliefs /\ Grounded(t)
      /\ s \in Snapshots
      /\ single \in BOOLEAN /\ multiple \in BOOLEAN
      /\ ~(single /\ multiple)
      /\ s.location \in Locations \cup {0}
  BY SightsAreValid DEF Believes, Snapshots
<1>2. inputs \in BOOLEAN /\ filter \in BOOLEAN
      /\ (filter => t.filter_verified /\ (t.controller_connected <=> single))
  BY <1>1 DEF Beliefs
<1>3. /\ seen \in Beliefs
      /\ seen.snapshot = s
      /\ seen.generation = t.generation
      /\ seen.recovery_mode = t.recovery_mode
      /\ seen.recovery_validated = t.recovery_validated
      /\ seen.authoritative = t.authoritative
      /\ seen.filter_verified = t.filter_verified
      /\ seen.inputs_released = t.inputs_released
      /\ seen.recovery_filter_verified = t.recovery_filter_verified
      /\ seen.controller_connected = t.controller_connected
      /\ seen.multiple_controllers = t.multiple_controllers
  BY <1>1 DEF Beliefs
<1>4. u = IF s.state = "UNKNOWN" /\ t.recovery_mode /\ t.recovery_validated
          THEN seen
          ELSE [seen EXCEPT !.controller_connected   = single,
                            !.multiple_controllers   = multiple,
                            !.controller_location_id = s.location,
                            !.inputs_released        = inputs,
                            !.filter_verified        = filter]
  BY <1>1 DEF ApplyTopology, Beliefs
<1>5. single <=> s.state = "SINGLE"
  OBVIOUS
<1>6. multiple <=> s.state = "MULTIPLE"
  OBVIOUS
<1> HIDE DEF single, multiple, fresh, seen, inputs, filter, u
<1>7. CASE s.state = "UNKNOWN" /\ t.recovery_mode /\ t.recovery_validated
  <2>1. u = seen
    BY <1>4, <1>7
  <2>2. ~t.filter_verified
    BY <1>1, <1>7 DEF Grounded
  <2> QED
    BY <2>1, <2>2, <1>1, <1>3, <1>7 DEF u, Beholds, Stays, Same, Believes, Grounded
<1>8. CASE ~(s.state = "UNKNOWN" /\ t.recovery_mode /\ t.recovery_validated)
  <2>1. u = [seen EXCEPT !.controller_connected   = single,
                            !.multiple_controllers   = multiple,
                            !.controller_location_id = s.location,
                            !.inputs_released        = inputs,
                            !.filter_verified        = filter]
    BY <1>4, <1>8
  <2>0. u \in Beliefs
    <3>1. /\ seen \in Beliefs /\ single \in BOOLEAN /\ multiple \in BOOLEAN
          /\ inputs \in BOOLEAN /\ filter \in BOOLEAN
          /\ s.location \in Locations \cup {0}
      BY <1>1, <1>2, <1>3
    <3> QED
      BY ONLY <3>1, <2>1 DEF Beliefs
  <2>2. /\ u \in Beliefs
        /\ u.snapshot = s
        /\ u.generation = t.generation
        /\ u.recovery_mode = t.recovery_mode
        /\ u.recovery_validated = t.recovery_validated
        /\ u.authoritative = t.authoritative
        /\ u.filter_verified = filter
        /\ u.recovery_filter_verified = t.recovery_filter_verified
        /\ u.controller_connected = single
        /\ u.multiple_controllers = multiple
    BY <2>0, <2>1, <1>3 DEF Beliefs
  <2>3. Grounded(u)
    BY <2>2, <1>1, <1>2, <1>3, <1>5, <1>6 DEF Grounded
  <2>4. Beholds(t, s, u)
    BY <2>2, <2>3, <1>2, <1>5, <1>6 DEF Beholds, Stays, Same, Believes
  <2> QED
    BY <2>4 DEF u
<1> QED
  BY <1>7, <1>8

(* The fields a recovery event writes keep the belief typed.               *)
LEMMA RecoveryTyped ==
  ASSUME NEW t \in Beliefs, NEW validated \in BOOLEAN, NEW failed \in BOOLEAN,
         NEW released \in BOOLEAN, NEW permission \in BOOLEAN,
         NEW live \in BOOLEAN, NEW proof \in BOOLEAN
  PROVE  [t EXCEPT !.recovery_validated       = validated,
                   !.recovery_failed          = failed,
                   !.inputs_released          = released,
                   !.permission_granted       = permission,
                   !.filter_verified          = live,
                   !.recovery_filter_verified = proof] \in Beliefs
BY DEF Beliefs

(* A recovery event of a recovery generation.                              *)
LEMMA ApplyRecoveryFollows ==
  ASSUME NEW t, Believes(t), NEW s \in Sights, NEW outcome,
         NEW released \in BOOLEAN, NEW permission \in BOOLEAN,
         NEW verified \in BOOLEAN, t.recovery_mode
  PROVE  Stays(t, ApplyRecovery(t, s, outcome, released, permission, verified))
<1> DEFINE v == ApplyTopology(t, s)
           validated == outcome # "FAILURE"
           failed == ~validated
           proof == validated /\ verified
           live == FALSE
           u == ApplyRecovery(t, s, outcome, released, permission, verified)
<1>1. Believes(v) /\ v.generation = t.generation /\ v.recovery_mode
      /\ v.authoritative = t.authoritative
  BY ApplyTopologyBeholds DEF Beholds, Stays, Same
<1>2. /\ validated \in BOOLEAN /\ failed \in BOOLEAN /\ proof \in BOOLEAN
      /\ proof => validated
  OBVIOUS
<1>3. u = [v EXCEPT !.recovery_validated       = validated,
                    !.recovery_failed          = failed,
                    !.inputs_released          = released,
                    !.permission_granted       = permission,
                    !.filter_verified          = live,
                    !.recovery_filter_verified = proof]
  BY DEF ApplyRecovery
<1>6. live \in BOOLEAN /\ ~live
  OBVIOUS
<1> HIDE DEF v, validated, failed, proof, live, u
<1>a. v \in Beliefs
  BY <1>1 DEF Believes
<1>b. u \in Beliefs
  BY <1>2, <1>3, <1>6, <1>a, RecoveryTyped
<1>4. /\ u \in Beliefs
      /\ u.generation = v.generation
      /\ u.recovery_mode = v.recovery_mode
      /\ u.authoritative = v.authoritative
      /\ u.recovery_validated = validated
      /\ u.recovery_filter_verified = proof
      /\ ~u.filter_verified
      /\ u.controller_connected = v.controller_connected
      /\ u.multiple_controllers = v.multiple_controllers
  BY <1>1, <1>3, <1>6, <1>a, <1>b DEF Beliefs
<1>5. Stays(t, u)
  BY <1>1, <1>2, <1>4 DEF Stays, Same, Believes, Grounded
<1> QED
  BY <1>5 DEF u

(* Only Neutral Entry is touched.                                          *)
LEMMA NeutralEntryFollows ==
  ASSUME NEW t, Believes(t), NEW released \in BOOLEAN
  PROVE  /\ Stays(t, [t EXCEPT !.inputs_released = released])
         /\ [t EXCEPT !.inputs_released = released].snapshot = t.snapshot
BY DEF Stays, Same, Believes, Grounded, Beliefs

(* u is t with its filter verified, or not.                                *)
Verifies(t, verified, u) ==
  /\ Same(t, u)
  /\ u.authoritative = t.authoritative
  /\ u.snapshot = t.snapshot
  /\ u.filter_verified => u.authoritative /\ ~u.recovery_mode

(* A filter event that is taken: the filter counts as verified only for an *)
(* authority that is not a recovery.                                       *)
LEMMA FilterVerified ==
  ASSUME NEW t, Believes(t), NEW verified \in BOOLEAN,
         FilterEventTaken(t, t.generation, verified)
  PROVE  Verifies(t, verified, ApplyFilterVerification(t, verified))
BY DEF Verifies, Same, Believes, Grounded, Beliefs, FilterEventTaken, IsCurrent,
   ApplyFilterVerification

-----------------------------------------------------------------------------
(* Calls of the coordinator.                                               *)

(* What a call of the coordinator does: s to t, on command c.  `verified'  *)
(* says that the cleanup is vouched for and no failure is named.           *)
Heeds(s, c, verified, failure, t) ==
  /\ t.enabled_intent <=> (s.enabled_intent \/ c = "ENABLE") /\ c # "DISABLE"
  /\ t.disable_pending => s.disable_pending \/ c = "DISABLE"
  /\ t.safety_latched /\ (s.disable_pending \/ c = "DISABLE") =>
       t.disable_pending
  /\ AtRest(s) /\ (c = "QUIT" => s.status # "DISABLED") => AtRest(t)
  /\ AtRest(s) /\ c = "ENABLE" => t.status # "DISABLED"
  /\ s.status # "DISABLED" /\ t.status = "DISABLED" =>
       c \in {"DISABLE", "RETRY"} /\ verified /\ (c = "RETRY" => s.disable_pending)
  /\ t.safety_latched /\ ~s.safety_latched => ~verified
  /\ s.safety_latched /\ ~t.safety_latched =>
       c \in {"DISABLE", "RETRY"} /\ verified
  /\ c = "DISABLE" /\ ~verified => t.safety_latched
  /\ failure # "NONE" /\ (s.status # "DISABLED" \/ c = "ENABLE") =>
       t.safety_latched
  /\ c = "QUIT" /\ ~s.disable_pending /\ verified => t.quit_allowed

(* Only the coordinator's state and the saved pending Disable differ.      *)
Keeps(h, g) ==
  /\ g.running            = h.running
  /\ g.enabled            = h.enabled
  /\ g.savedSafe          = h.savedSafe
  /\ g.top                = h.top
  /\ g.task               = h.task
  /\ g.signalled          = h.signalled
  /\ g.recovery           = h.recovery
  /\ g.purpose            = h.purpose
  /\ g.missing            = h.missing
  /\ g.permission         = h.permission
  /\ g.permissionRequired = h.permissionRequired
  /\ g.safetyFailure      = h.safetyFailure
  /\ g.sawStopped         = h.sawStopped
  /\ g.sawFilterApplied   = h.sawFilterApplied
  /\ g.sawFilterRestored  = h.sawFilterRestored
  /\ g.sawSafetyLatch     = h.sawSafetyLatch
  /\ g.cleanupVerified    = h.cleanupVerified
  /\ g.cleanupKnown       = h.cleanupKnown
  /\ g.everStarted        = h.everStarted
  /\ g.eof                = h.eof
  /\ g.termination        = h.termination
  /\ g.quitInFlight       = h.quitInFlight

(* g is h after a call of the coordinator with command c.                  *)
Told(h, c, verified, failure, g) ==
  /\ Sane(g) /\ Evidence(g)
  /\ Keeps(h, g)
  /\ Heeds(h.coord, c, verified, failure, g.coord)

(* The outcome of a call of the coordinator is stored with the saved       *)
(* pending Disable, and nothing else.                                      *)
LEMMA InformedTyped ==
  ASSUME NEW h \in Apps, NEW next \in CoordinatorStates, NEW saved \in BOOLEAN
  PROVE  /\ [h EXCEPT !.coord = next, !.savedPending = saved] \in Apps
         /\ [h EXCEPT !.coord = next, !.savedPending = saved].coord = next
         /\ Keeps(h, [h EXCEPT !.coord = next, !.savedPending = saved])
BY DEF Apps, Keeps

(* The prerequisites p say what was observed.                              *)
Conveys(t, failure, cleanup, permission, p) ==
  /\ p \in Prerequisites
  /\ CleanupIsVerified(p) <=> cleanup /\ failure = "NONE"
  /\ failure # "NONE" => p.safety_failure # "NONE"
  /\ InactiveReason(p) = "NONE" =>
       permission /\ t.filter_verified /\ t.inputs_released

(* The observation a call is given says what the delegate saw: no failure  *)
(* and no evidence is made up on the way.                                  *)
LEMMA PrerequisitesTyped ==
  ASSUME NEW t \in Beliefs, NEW c \in Commands, NEW failure \in SafetyFailures,
         NEW cleanup \in BOOLEAN, NEW permission \in BOOLEAN,
         NEW session \in BOOLEAN, NEW foreground \in BOOLEAN
  PROVE  Conveys(t, failure, cleanup, permission,
                 PrerequisitesOf(t, c, failure, cleanup, permission, session,
                                 foreground))
<1> DEFINE f == IF /\ c = "RETRY"
                   /\ failure = "NONE"
                   /\ RestorationUnverified(t, cleanup, permission, session)
                THEN "PASSTHROUGH_RESTORE" ELSE failure
           p == PrerequisitesOf(t, c, failure, cleanup, permission, session,
                                foreground)
<1>1. /\ f \in SafetyFailures
      /\ failure # "NONE" => f # "NONE"
      /\ cleanup => f = failure
  BY DEF SafetyFailures, RestorationUnverified
<1>2. p = [safety_failure           |-> f,
           cleanup_verified         |-> cleanup,
           permission_granted       |-> permission,
           controller_connected     |-> t.controller_connected,
           multiple_controllers     |-> t.multiple_controllers,
           session_available        |-> session,
           codex_foreground         |-> foreground,
           filter_verified          |-> t.filter_verified,
           recovery_filter_verified |-> t.recovery_filter_verified,
           inputs_released          |-> t.inputs_released]
  BY DEF PrerequisitesOf
<1> HIDE DEF f, p
<1>3. p \in Prerequisites
  BY <1>1, <1>2 DEF Prerequisites, Beliefs
<1>4. CleanupIsVerified(p) <=> cleanup /\ failure = "NONE"
  BY <1>1, <1>2 DEF CleanupIsVerified, ObservedSafetyFailure
<1>5. failure # "NONE" => p.safety_failure # "NONE"
  BY <1>1, <1>2
<1>6. InactiveReason(p) = "NONE" =>
        permission /\ t.filter_verified /\ t.inputs_released
  BY <1>2 DEF InactiveReason
<1>7. Conveys(t, failure, cleanup, permission, p)
  BY <1>3, <1>4, <1>5, <1>6 DEF Conveys
<1> QED
  BY <1>7 DEF p

(* A call of the coordinator through the delegate. Enable is never called  *)
(* over a pending Disable.                                                 *)
LEMMA CommandTells ==
  ASSUME NEW h, Sane(h), NEW w \in Views, NEW c \in Commands,
         NEW cleanup \in BOOLEAN, NEW failure \in SafetyFailures,
         c = "ENABLE" => ~h.coord.disable_pending
  PROVE  Told(h, c, cleanup /\ failure = "NONE", failure,
              Command(h, w, c, cleanup, failure))
<1> DEFINE p == PrerequisitesOf(h.top, c, failure, cleanup, h.permission,
                                w.session, w.foreground)
           next == Apply(h.coord, c, p)
           saved == \/ next.disable_pending
                    \/ h.savedPending /\ next.status # "DISABLED"
           g == Command(h, w, c, cleanup, failure)
<1>1. /\ h \in Apps /\ h.coord \in CoordinatorStates /\ h.top \in Beliefs
      /\ h.permission \in BOOLEAN /\ h.savedPending \in BOOLEAN
      /\ Coherent(h.coord) /\ Standing(h.coord)
  BY DEF Sane, Apps, Believes
<1>2. w.session \in BOOLEAN /\ w.foreground \in BOOLEAN
  BY DEF Views
<1>3. Conveys(h.top, failure, cleanup, h.permission, p)
  BY <1>1, <1>2, PrerequisitesTyped
<1>4. Follows(h.coord, c, p, next)
  BY <1>1, <1>3, ApplyFollows DEF Conveys
<1>5. g = [h EXCEPT !.coord = next, !.savedPending = saved]
  BY DEF Command, Informed
<1> HIDE DEF p, next, g
<1>6. next \in CoordinatorStates /\ saved \in BOOLEAN
  BY <1>1, <1>4 DEF Follows, CoordinatorStates
<1> HIDE DEF saved
<1>7. g \in Apps /\ g.coord = next /\ Keeps(h, g)
  BY <1>1, <1>5, <1>6, InformedTyped
<1>8. Sane(g)
  BY <1>4, <1>7 DEF Sane, Follows, Seated, Keeps
<1>9. Evidence(g)
  BY <1>3, <1>4, <1>7 DEF Evidence, Follows, Keeps, Conveys
<1>10. Heeds(h.coord, c, cleanup /\ failure = "NONE", failure, g.coord)
  BY <1>3, <1>4, <1>7 DEF Heeds, Follows, Conveys
<1>11. Told(h, c, cleanup /\ failure = "NONE", failure, g)
  BY <1>7, <1>8, <1>9, <1>10 DEF Told
<1> QED
  BY <1>11 DEF g

(* A call without a command: intent and pending Disable stay, Disabled is  *)
(* not entered, the latch is not left.                                     *)
Observes(s, t) ==
  /\ t.enabled_intent <=> s.enabled_intent
  /\ t.disable_pending <=> s.disable_pending
  /\ AtRest(s) => AtRest(t)
  /\ s.status # "DISABLED" => t.status # "DISABLED"
  /\ s.safety_latched => t.safety_latched

(* g is h after a call of the coordinator without a command.               *)
Noted(h, g) ==
  /\ Sane(g) /\ Evidence(g)
  /\ Keeps(h, g)
  /\ Observes(h.coord, g.coord)

(* A call that names no failure and vouches for the cleanup latches nothing*)
Quiet(h, g) == g.coord.safety_latched => h.coord.safety_latched

(* A failure the delegate holds is latched unless Control is Disabled.     *)
Firm(h, g) ==
  h.safetyFailure # "NONE" /\ h.coord.status # "DISABLED" =>
    g.coord.safety_latched

(* A call without a command.                                               *)
LEMMA NotesAreCommands ==
  ASSUME NEW h, Sane(h), NEW w \in Views,
         NEW cleanup \in BOOLEAN, NEW failure \in SafetyFailures
  PROVE  LET g == Command(h, w, "NONE", cleanup, failure) IN
         /\ Noted(h, g)
         /\ cleanup /\ failure = "NONE" => Quiet(h, g)
         /\ failure = h.safetyFailure => Firm(h, g)
         /\ failure # "NONE" /\ h.coord.status # "DISABLED" =>
              g.coord.safety_latched
<1> DEFINE g == Command(h, w, "NONE", cleanup, failure)
           verified == cleanup /\ failure = "NONE"
<1>1. Told(h, "NONE", cleanup /\ failure = "NONE", failure, g)
  BY CommandTells DEF Commands
<1>2. Sane(h) /\ h.coord.disable_pending => h.coord.safety_latched
  BY DEF Sane, Coherent, HeldDisable
<1> HIDE DEF g
<1>3. Noted(h, g)
  BY <1>1, <1>2 DEF Told, Heeds, Noted, Observes
<1>4. cleanup /\ failure = "NONE" => Quiet(h, g)
  BY <1>1 DEF Told, Heeds, Quiet
<1>5. failure = h.safetyFailure => Firm(h, g)
  BY <1>1 DEF Told, Heeds, Firm
<1>6. failure # "NONE" /\ h.coord.status # "DISABLED" => g.coord.safety_latched
  BY <1>1 DEF Told, Heeds
<1> QED
  BY <1>3, <1>4, <1>5, <1>6 DEF g

(* A call without a command that names the failure the delegate holds.     *)
LEMMA ObserveNotes ==
  ASSUME NEW h, Sane(h), NEW w \in Views
  PROVE  /\ Noted(h, Observe(h, w))
         /\ h.safetyFailure = "NONE" => Quiet(h, Observe(h, w))
         /\ Firm(h, Observe(h, w))
<1>1. h.safetyFailure \in SafetyFailures
  BY DEF Sane, Apps
<1> QED
  BY <1>1, NotesAreCommands DEF Observe, Update

(* A call without a command that does not vouch for the cleanup.           *)
LEMMA UnverifiedNotes ==
  ASSUME NEW h, Sane(h), NEW w \in Views
  PROVE  /\ Noted(h, Unverified(h, w, "NONE"))
         /\ Firm(h, Unverified(h, w, "NONE"))
<1>1. h.safetyFailure \in SafetyFailures
  BY DEF Sane, Apps
<1> QED
  BY <1>1, NotesAreCommands DEF Unverified

(* An open popover is refreshed.                                           *)
LEMMA RefreshNotes ==
  ASSUME NEW h, NEW g, Sane(h), Noted(h, g), NEW w \in Views
  PROVE  /\ Noted(h, RefreshIfShown(g, w))
         /\ Noted(g, RefreshIfShown(g, w))
         /\ h.safetyFailure = "NONE" => Quiet(g, RefreshIfShown(g, w))
<1> DEFINE r == RefreshIfShown(g, w)
<1>1. Sane(g) /\ Evidence(g)
  BY DEF Noted
<1>2. CASE w.shown
  <2>1. r = Observe(g, w)
    BY <1>2 DEF RefreshIfShown
  <2>2. Noted(g, r) /\ (g.safetyFailure = "NONE" => Quiet(g, r))
    BY <2>1, <1>1, ObserveNotes
  <2> HIDE DEF r
  <2>3. Noted(h, r)
    BY <2>2 DEF Noted, Observes, Keeps
  <2>4. g.safetyFailure = h.safetyFailure
    BY DEF Noted, Keeps
  <2> QED
    BY <2>2, <2>3, <2>4 DEF r
<1>3. CASE ~w.shown
  <2>1. r = g
    BY <1>3 DEF RefreshIfShown
  <2>2. Noted(g, g) /\ Quiet(g, g)
    BY <1>1 DEF Noted, Observes, Keeps, Quiet
  <2> QED
    BY <2>1, <2>2
<1> QED
  BY <1>2, <1>3

(* What the delegate goes on with: no command, the same listener.          *)
Watches(h, g) ==
  /\ g.running = h.running
  /\ g.enabled = h.enabled
  /\ g.task = h.task
  /\ g.recovery = h.recovery
  /\ g.purpose = h.purpose
  /\ g.top.generation = h.top.generation
  /\ g.top.recovery_mode <=> h.top.recovery_mode
  /\ h.signalled => g.signalled
  /\ Observes(h.coord, g.coord)

(* A generation is given up.                                               *)
Loses(h, g) ==
  /\ Sane(g) /\ Evidence(g)
  /\ Watches(h, g)
  /\ ~g.top.authoritative
  /\ ~g.top.filter_verified
  /\ g.safetyFailure # "NONE" /\ h.coord.status # "DISABLED" =>
       g.coord.safety_latched

(* Giving up a generation from the delegate: what it learns is a loss, and *)
(* a failure it names is latched unless Control is Disabled.               *)
LEMMA InvalidateTopologyLoses ==
  ASSUME NEW h, Sane(h), NEW w \in Views, NEW latch \in BOOLEAN
  PROVE  Loses(h, InvalidateTopology(h, w, latch))
<1> DEFINE t == Invalidate(h.top, latch, h.safetyFailure)
           u == [h EXCEPT !.top = t]
           failure == IF h.safetyFailure = "NONE" THEN t.safety_failure
                      ELSE h.safetyFailure
           n == [u EXCEPT !.safetyFailure = failure, !.sawSafetyLatch = TRUE]
           v == IF latch THEN Unverified(n, w, "NONE") ELSE Observe(u, w)
           g == InvalidateTopology(h, w, latch)
<1>1. h \in Apps /\ Believes(h.top) /\ h.safetyFailure \in SafetyFailures
  BY DEF Sane, Apps
<1>2. Doubts(h.top, latch, t)
  BY <1>1, InvalidateDoubts
<1>3. t \in Beliefs /\ t.safety_failure \in SafetyFailures
  BY <1>2 DEF Doubts, Same, Believes, Beliefs
<1>4. failure \in SafetyFailures
  BY <1>1, <1>3
<1> HIDE DEF t, failure
<1>5. /\ u \in Apps
      /\ u.top = t
      /\ u.coord = h.coord
      /\ u.running = h.running /\ u.enabled = h.enabled
      /\ u.task = h.task /\ u.recovery = h.recovery
      /\ u.purpose = h.purpose /\ u.signalled = h.signalled
      /\ u.safetyFailure = h.safetyFailure
  BY <1>1, <1>3 DEF Apps
<1> HIDE DEF u
<1>6. /\ n \in Apps
      /\ n.top = t
      /\ n.coord = h.coord
      /\ n.running = h.running /\ n.enabled = h.enabled
      /\ n.task = h.task /\ n.recovery = h.recovery
      /\ n.purpose = h.purpose /\ n.signalled = h.signalled
      /\ n.safetyFailure = failure
  BY <1>5, <1>4 DEF Apps
<1>7. NamedByTopology(Untrusted(h, TRUE)) = n \/ ~latch
  <2>1. latch => Untrusted(h, TRUE) = u
    BY DEF Untrusted, u, t
  <2>2. NamedByTopology(u) = n
    BY <1>5 DEF NamedByTopology, n, failure
  <2> QED
    BY <2>1, <2>2
<1>8. Untrusted(h, FALSE) = u \/ latch
  BY DEF Untrusted, u, t
<1>9. g = RefreshIfShown(v, w)
  BY <1>7, <1>8 DEF InvalidateTopology
<1> HIDE DEF n, g
<1>10. Sane(u) /\ Sane(n)
  BY <1>2, <1>5, <1>6 DEF Sane, Seated, Doubts, Same
<1> DEFINE b == IF latch THEN n ELSE u
<1>11. /\ Sane(b) /\ b.top = t /\ b.coord = h.coord
       /\ b.running = h.running /\ b.enabled = h.enabled
       /\ b.task = h.task /\ b.recovery = h.recovery
       /\ b.purpose = h.purpose /\ b.signalled = h.signalled
  BY <1>5, <1>6, <1>10
<1>12. Noted(b, v) /\ Firm(b, v)
  BY <1>10, UnverifiedNotes, ObserveNotes
<1> HIDE DEF b, v
<1>13. Noted(b, g) /\ Noted(v, g)
  BY <1>9, <1>11, <1>12, RefreshNotes
<1>14. Watches(h, g)
  BY <1>2, <1>11, <1>13 DEF Watches, Noted, Keeps, Doubts, Same
<1>15. g.safetyFailure # "NONE" /\ h.coord.status # "DISABLED" =>
         g.coord.safety_latched
  BY <1>11, <1>12, <1>13 DEF Firm, Noted, Keeps, Observes
<1>16. Loses(h, g)
  BY <1>2, <1>11, <1>13, <1>14, <1>15 DEF Loses, Noted, Keeps, Doubts
<1> QED
  BY <1>16 DEF g

-----------------------------------------------------------------------------
(* A new generation.                                                       *)

(* h sets up a listener of its own and g is what came of it: it runs, or   *)
(* it could not be launched and a failure is named.                        *)
Begins(h, recovery, g) ==
  /\ ~h.task
  /\ recovery \/ (h.enabled /\ ~h.coord.safety_latched)
  /\ g.top.generation # h.top.generation
  /\ g.task =>
       /\ g.recovery = recovery
       /\ g.top.recovery_mode <=> recovery
       /\ g.top.authoritative
       /\ ~g.sawSafetyLatch
       /\ g.safetyFailure = h.safetyFailure
       /\ h.safetyFailure = "NONE" => Quiet(h, g)
       /\ Firm(h, g)
  /\ ~g.task /\ h.coord.status # "DISABLED" => g.coord.safety_latched

(* g is h after an attempt to start a listener: refused, begun, or failed. *)
Starts(h, recovery, g) ==
  /\ Sane(g) /\ Evidence(g)
  /\ g.running = h.running /\ g.enabled = h.enabled
  /\ g.purpose = h.purpose
  /\ Observes(h.coord, g.coord)
  /\ \/ g = h /\ (recovery => h.task)
     \/ Begins(h, recovery, g)

(* b is h set up for a listener of a new generation, before its launch.    *)
BegunOf(h, recovery, b) ==
  /\ Sane(b)
  /\ BeginsAnew(h.top, recovery, b.top)
  /\ b.coord = h.coord
  /\ b.running = h.running /\ b.enabled = h.enabled
  /\ b.task = h.task /\ b.purpose = h.purpose
  /\ b.recovery = recovery
  /\ b.safetyFailure = h.safetyFailure
  /\ ~b.signalled /\ ~b.sawSafetyLatch

(* The fields of a listener set up anew.                                   *)
SetUp(h, t, recovery, b) ==
  /\ b \in Apps
  /\ b.top = t
  /\ b.coord = h.coord
  /\ b.running = h.running /\ b.enabled = h.enabled
  /\ b.task = h.task /\ b.purpose = h.purpose
  /\ b.recovery = recovery
  /\ b.safetyFailure = h.safetyFailure
  /\ ~b.signalled

(* The reset of the delegate for a new listener keeps it typed.            *)
LEMMA BegunIsSetUp ==
  ASSUME NEW h \in Apps, NEW t \in Beliefs, NEW recovery \in BOOLEAN
  PROVE  LET b == [h EXCEPT !.top = t,
                     !.recovery           = recovery,
                     !.signalled          = FALSE,
                     !.permissionRequired = FALSE,
                     !.sawStopped         = FALSE,
                     !.sawFilterApplied   = FALSE,
                     !.sawFilterRestored  = FALSE,
                     !.sawSafetyLatch     = FALSE,
                     !.cleanupVerified    = FALSE,
                     !.eof                = FALSE,
                     !.termination        = "NONE"]
         IN SetUp(h, t, recovery, b) /\ ~b.sawSafetyLatch
<1> DEFINE b1 == [h EXCEPT !.top = t, !.recovery = recovery, !.signalled = FALSE]
           b2 == [b1 EXCEPT !.permissionRequired = FALSE, !.sawStopped = FALSE,
                            !.sawFilterApplied = FALSE]
           b3 == [b2 EXCEPT !.sawFilterRestored = FALSE, !.sawSafetyLatch = FALSE,
                            !.cleanupVerified = FALSE]
           b4 == [b3 EXCEPT !.eof = FALSE, !.termination = "NONE"]
<1>1. SetUp(h, t, recovery, b1)
  BY DEF Apps, SetUp
<1> HIDE DEF b1
<1>2. SetUp(h, t, recovery, b2)
  BY <1>1 DEF Apps, SetUp
<1> HIDE DEF b2
<1>3. SetUp(h, t, recovery, b3) /\ ~b3.sawSafetyLatch
  BY <1>2 DEF Apps, SetUp
<1> HIDE DEF b3
<1>4. SetUp(h, t, recovery, b4) /\ ~b4.sawSafetyLatch
  BY <1>3 DEF Apps, SetUp
<1> QED
  BY <1>4 DEF b1, b2, b3, b4

(* Setting up a generation.                                                *)
LEMMA BegunIsSane ==
  ASSUME NEW h, Sane(h), NEW recovery \in BOOLEAN
  PROVE  BegunOf(h, recovery, Begun(h, recovery))
<1> DEFINE t == RequireNeutralEntry(
                  BeginGeneration(h.top, h.top.generation + 1, recovery))
           b == Begun(h, recovery)
<1>1. h \in Apps /\ Believes(h.top) /\ Coherent(h.coord) /\ Standing(h.coord)
  BY DEF Sane
<1>2. BeginsAnew(h.top, recovery, t)
  BY <1>1, BeginBelieves
<1>3. t \in Beliefs
  BY <1>2 DEF BeginsAnew, Believes
<1>4. b = [h EXCEPT !.top = t,
             !.recovery           = recovery,
             !.signalled          = FALSE,
             !.permissionRequired = FALSE,
             !.sawStopped         = FALSE,
             !.sawFilterApplied   = FALSE,
             !.sawFilterRestored  = FALSE,
             !.sawSafetyLatch     = FALSE,
             !.cleanupVerified    = FALSE,
             !.eof                = FALSE,
             !.termination        = "NONE"]
  BY DEF Begun
<1> HIDE DEF t, b
<1>5. SetUp(h, t, recovery, b) /\ ~b.sawSafetyLatch
  BY <1>1, <1>3, <1>4, BegunIsSetUp
<1>6. BegunOf(h, recovery, b)
  BY <1>1, <1>2, <1>5 DEF SetUp, BegunOf, Sane, BeginsAnew, Seated
<1> QED
  BY <1>6 DEF b

(* Starting a listener (startListenerRecovering:): only for Enabled        *)
(* Control without a latch, or to recover; a launch that fails is a safety *)
(* failure.                                                                *)
LEMMA StartStarts ==
  ASSUME NEW h, Sane(h), Evidence(h), NEW w \in Views,
         NEW recovery \in BOOLEAN, NEW ok \in BOOLEAN
  PROVE  Starts(h, recovery, Start(h, w, recovery, ok))
<1> DEFINE b == Begun(h, recovery)
           o == Observe(b, w)
           r == [o EXCEPT !.task = TRUE]
           l == [r EXCEPT !.everStarted = TRUE, !.cleanupKnown = FALSE]
           i == InvalidateTopology(r, w, TRUE)
           n == [i EXCEPT !.task = FALSE, !.recovery = FALSE,
                          !.safetyFailure = "DEVICE_UNCERTAIN"]
           f == Unverified(n, w, "NONE")
           g == Start(h, w, recovery, ok)
           begins == /\ ~h.task
                     /\ \/ recovery
                        \/ /\ h.enabled
                           /\ ~h.coord.safety_latched
                           /\ ~h.coord.disable_pending
<1>1. g = IF begins THEN IF ok THEN l ELSE f ELSE h
  BY DEF Start, Launched, NotLaunched
<1>2. BegunOf(h, recovery, b)
  BY BegunIsSane
<1> HIDE DEF b, g
<1>3. Noted(b, o) /\ Firm(b, o) /\ (b.safetyFailure = "NONE" => Quiet(b, o))
  BY <1>2, ObserveNotes DEF BegunOf
<1> HIDE DEF o
<1>4. /\ o \in Apps /\ Sane(o) /\ Evidence(o)
      /\ ~o.top.filter_verified
      /\ o.top = b.top
      /\ Observes(h.coord, o.coord)
      /\ o.running = h.running /\ o.enabled = h.enabled
      /\ o.purpose = h.purpose
      /\ o.recovery = recovery
      /\ o.safetyFailure = h.safetyFailure
      /\ ~o.sawSafetyLatch
      /\ Firm(h, o) /\ (h.safetyFailure = "NONE" => Quiet(h, o))
  BY <1>2, <1>3 DEF BegunOf, BeginsAnew, Noted, Keeps, Sane, Firm, Quiet
<1>5. /\ r \in Apps /\ r.task /\ r.coord = o.coord /\ r.top = o.top
      /\ r.running = o.running /\ r.enabled = o.enabled
      /\ r.purpose = o.purpose /\ r.recovery = o.recovery
      /\ r.safetyFailure = o.safetyFailure
      /\ r.sawSafetyLatch = o.sawSafetyLatch
      /\ r.permission = o.permission
  BY <1>4 DEF Apps
<1> HIDE DEF r
<1>6. Sane(r)
  BY <1>4, <1>5 DEF Sane, Seated
<1>7. CASE ~begins
  BY <1>1, <1>7 DEF Starts, Observes, g
<1>8. CASE begins /\ ok
  <2>1. g = l
    BY <1>1, <1>8
  <2>2. /\ l \in Apps /\ l.task /\ l.coord = r.coord /\ l.top = r.top
        /\ l.running = r.running /\ l.enabled = r.enabled
        /\ l.purpose = r.purpose /\ l.recovery = r.recovery
        /\ l.safetyFailure = r.safetyFailure
        /\ l.sawSafetyLatch = r.sawSafetyLatch
        /\ l.permission = r.permission
    BY <1>5 DEF Apps
  <2> HIDE DEF l
  <2>3. Sane(l) /\ Evidence(l)
    BY <2>2, <1>4, <1>5, <1>6 DEF Sane, Seated, Evidence
  <2>4. Begins(h, recovery, l)
    BY <2>2, <1>2, <1>4, <1>5, <1>8 DEF Begins, BegunOf, BeginsAnew, Quiet, Firm
  <2>5. Starts(h, recovery, l)
    BY <2>2, <2>3, <2>4, <1>4, <1>5 DEF Starts
  <2> QED
    BY <2>1, <2>5 DEF g
<1>9. CASE begins /\ ~ok
  <2>1. g = f
    BY <1>1, <1>9
  <2>2. Loses(r, i)
    BY <1>6, InvalidateTopologyLoses
  <2> HIDE DEF i
  <2>3. i \in Apps /\ "DEVICE_UNCERTAIN" \in SafetyFailures
    BY <2>2 DEF Loses, Sane, SafetyFailures
  <2>4. /\ n \in Apps /\ ~n.task /\ n.coord = i.coord /\ n.top = i.top
        /\ n.running = i.running /\ n.enabled = i.enabled
        /\ n.purpose = i.purpose
        /\ n.safetyFailure = "DEVICE_UNCERTAIN"
    BY <2>3 DEF Apps
  <2> HIDE DEF n
  <2>5. Sane(n)
    BY <2>2, <2>4 DEF Sane, Seated, Loses
  <2>6. Noted(n, f) /\ Firm(n, f)
    BY <2>5, UnverifiedNotes
  <2> HIDE DEF f
  <2>7. /\ ~f.task
        /\ f.running = h.running /\ f.enabled = h.enabled
        /\ f.purpose = h.purpose
        /\ f.top.generation = r.top.generation
        /\ Observes(h.coord, f.coord)
    BY <2>2, <2>4, <2>6, <1>4, <1>5 DEF Noted, Keeps, Loses, Watches, Observes
  <2>8. h.coord.status # "DISABLED" => f.coord.safety_latched
    BY <2>2, <2>4, <2>6, <1>4, <1>5
    DEF Noted, Keeps, Loses, Watches, Observes, Firm
  <2>9. Begins(h, recovery, f)
    BY <2>7, <2>8, <1>2, <1>4, <1>5, <1>9 DEF Begins, BegunOf, BeginsAnew
  <2>10. Starts(h, recovery, f)
    BY <2>6, <2>7, <2>9 DEF Starts, Noted
  <2> QED
    BY <2>1, <2>10 DEF g
<1> QED
  BY <1>7, <1>8, <1>9

-----------------------------------------------------------------------------
(* The events of the listener.                                             *)

(* A failure the delegate holds is latched, or the listener has named it   *)
(* and is about to stop.                                                   *)
Named(h) ==
  h.safetyFailure # "NONE" =>
    h.coord.safety_latched \/ (h.task /\ h.sawSafetyLatch)

(* A delegate that reads its listener's output.                            *)
Listening(h) ==
  /\ Sane(h) /\ Evidence(h)
  /\ h.task /\ h.coord.status # "DISABLED"
  /\ h.recovery <=> h.top.recovery_mode
  /\ Named(h)

(* Before the coordinator is called.                                       *)
Alike(h, x) ==
  /\ x.running = h.running /\ x.enabled = h.enabled
  /\ x.task = h.task /\ x.recovery = h.recovery /\ x.purpose = h.purpose
  /\ x.coord = h.coord
  /\ h.signalled => x.signalled
  /\ x.top.generation = h.top.generation
  /\ x.top.recovery_mode <=> h.top.recovery_mode

(* What every event handler keeps.                                         *)
Hears(h, g) ==
  /\ Sane(g) /\ Evidence(g)
  /\ Watches(h, g)
  /\ Named(g)

(* An event that raises no alarm in h.                                     *)
CalmEvent(h, e) ==
  /\ e.event \notin Troubles
  /\ e.event = "filter_applied" => h.top.snapshot.state = "SINGLE"

(* The snapshot in force after event e.                                    *)
Sighted(h, e) == IF e.event = "topology" THEN e.snapshot ELSE h.top.snapshot

(* What an event leaves behind; a calm one raises no alarm.                *)
Heard(h, e, g) ==
  /\ Hears(h, g)
  /\ ~h.recovery /\ ~Alarmed(h) /\ CalmEvent(h, e) =>
       ~Alarmed(g) /\ g.top.snapshot = Sighted(h, e)

(* A change before the call of the coordinator may come first.             *)
LEMMA AlikeWatches ==
  ASSUME NEW h, NEW x, NEW g, Alike(h, x), Watches(x, g)
  PROVE  Watches(h, g)
BY DEF Alike, Watches, Observes

(* A call without a command at the end of an event handler.                *)
LEMMA NotedHears ==
  ASSUME NEW h, NEW x, NEW g, Listening(h), Sane(x), Alike(h, x),
         Noted(x, g), Firm(x, g)
  PROVE  /\ Hears(h, g)
         /\ g.top = x.top
         /\ (x.safetyFailure = "NONE" => Quiet(x, g)) /\ ~Alarmed(x) =>
              ~Alarmed(g)
BY DEF Hears, Watches, Noted, Keeps, Named, Listening, Firm, Alike, Alarmed, Quiet

(* An event handler that gives the generation up.                          *)
LEMMA InvalidateHears ==
  ASSUME NEW h, NEW x, Listening(h), Sane(x), Alike(h, x),
         NEW w \in Views, NEW latch \in BOOLEAN
  PROVE  Hears(h, InvalidateTopology(x, w, latch))
<1> DEFINE g == InvalidateTopology(x, w, latch)
<1>1. Loses(x, g)
  BY InvalidateTopologyLoses
<1> HIDE DEF g
<1>2. Watches(h, g)
  BY <1>1, AlikeWatches DEF Loses
<1>3. Hears(h, g)
  BY <1>1, <1>2 DEF Hears, Loses, Named, Alike, Listening
<1> QED
  BY <1>3 DEF g

(* Only the belief is changed.                                             *)
LEMMA BeliefChanges ==
  ASSUME NEW h, Sane(h), NEW t, Same(h.top, t),
         t.filter_verified => h.task /\ ~h.recovery
  PROVE  /\ Sane([h EXCEPT !.top = t])
         /\ Alike(h, [h EXCEPT !.top = t])
         /\ [h EXCEPT !.top = t].top = t
         /\ [h EXCEPT !.top = t].safetyFailure = h.safetyFailure
         /\ [h EXCEPT !.top = t].sawSafetyLatch = h.sawSafetyLatch
<1> DEFINE x == [h EXCEPT !.top = t]
<1>1. h \in Apps /\ t \in Beliefs
  BY DEF Sane, Same, Believes
<1>2. /\ x \in Apps
      /\ x.top = t
      /\ x.coord = h.coord
      /\ x.running = h.running /\ x.enabled = h.enabled
      /\ x.task = h.task /\ x.recovery = h.recovery /\ x.purpose = h.purpose
      /\ x.signalled = h.signalled
      /\ x.safetyFailure = h.safetyFailure
      /\ x.sawSafetyLatch = h.sawSafetyLatch
  BY <1>1 DEF Apps
<1> HIDE DEF x
<1>3. Sane(x) /\ Alike(h, x)
  BY <1>2 DEF Sane, Same, Seated, Alike
<1> QED
  BY <1>2, <1>3 DEF x

(* The handler of topology.                                                *)
LEMMA TopologyHeard ==
  ASSUME NEW h, Listening(h), NEW w \in Views, NEW e,
         e.event = "topology", e.snapshot \in Sights
  PROVE  Heard(h, e, OnTopology(h, w, e))
<1> DEFINE t == ApplyTopology(h.top, e.snapshot)
           x == [h EXCEPT !.top = t]
           v == Observe(x, w)
           g == OnTopology(h, w, e)
           taken == EventResult(h.top, h.top.generation, e.snapshot) = "ACCEPTED"
<1>1. Sane(h) /\ Believes(h.top) /\ Seated(h)
  BY DEF Listening, Sane
<1>2. Beholds(h.top, e.snapshot, t)
  BY <1>1, ApplyTopologyBeholds
<1>3. h.top.authoritative => taken
  BY SightsAreValid DEF EventResult, IsCurrent
<1>4. g = IF taken THEN RefreshIfShown(v, w) ELSE h
  BY DEF OnTopology
<1> HIDE DEF t, g, taken
<1>5. CASE taken
  <2>1. /\ Sane(x) /\ Alike(h, x) /\ x.top = t
        /\ x.safetyFailure = h.safetyFailure
        /\ x.sawSafetyLatch = h.sawSafetyLatch
    BY <1>1, <1>2, BeliefChanges DEF Beholds, Stays, Seated
  <2> HIDE DEF x
  <2>2. Noted(x, v) /\ Firm(x, v) /\ (x.safetyFailure = "NONE" => Quiet(x, v))
    BY <2>1, ObserveNotes
  <2> HIDE DEF v
  <2>3. /\ Noted(x, g) /\ Noted(v, g)
        /\ x.safetyFailure = "NONE" => Quiet(v, g)
    BY <1>4, <1>5, <2>1, <2>2, RefreshNotes
  <2>4. Firm(x, g) /\ (x.safetyFailure = "NONE" => Quiet(x, g))
    BY <2>2, <2>3 DEF Firm, Quiet, Noted, Observes
  <2>5. /\ Hears(h, g) /\ g.top = t
        /\ ~Alarmed(x) => ~Alarmed(g)
    BY <2>1, <2>3, <2>4, NotedHears
  <2>6. ~Alarmed(h) => ~Alarmed(x)
    BY <2>1, <1>2 DEF Alarmed, Alike, Beholds, Stays
  <2> QED
    BY <2>5, <2>6, <1>2 DEF Heard, Sighted, Beholds, g
<1>6. CASE ~taken
  <2>1. Hears(h, h)
    BY DEF Hears, Listening, Watches, Observes
  <2> QED
    BY <2>1, <1>3, <1>4, <1>6 DEF Heard, Alarmed, g
<1> QED
  BY <1>5, <1>6

(* Made ready for the call of the coordinator, with no failure of its own. *)
Readies(h, x) ==
  /\ Sane(x)
  /\ Alike(h, x)
  /\ x.safetyFailure = h.safetyFailure
  /\ x.sawSafetyLatch = h.sawSafetyLatch
  /\ x.top.authoritative = h.top.authoritative

(* An event handler that ends with a call of the coordinator.              *)
LEMMA ObserveHears ==
  ASSUME NEW h, NEW x, Listening(h), Readies(h, x), NEW w \in Views
  PROVE  /\ Hears(h, Observe(x, w))
         /\ Observe(x, w).top = x.top
         /\ ~Alarmed(h) => ~Alarmed(Observe(x, w))
<1> DEFINE g == Observe(x, w)
<1>1. Sane(x) /\ Alike(h, x)
  BY DEF Readies
<1>2. Noted(x, g) /\ Firm(x, g) /\ (x.safetyFailure = "NONE" => Quiet(x, g))
  BY <1>1, ObserveNotes
<1> HIDE DEF g
<1>3. /\ Hears(h, g) /\ g.top = x.top
      /\ ~Alarmed(x) => ~Alarmed(g)
  BY <1>1, <1>2, NotedHears
<1>4. ~Alarmed(h) => ~Alarmed(x)
  BY DEF Readies, Alike, Alarmed
<1> QED
  BY <1>3, <1>4 DEF g

(* The belief may be changed before that call.                             *)
LEMMA BeliefReadies ==
  ASSUME NEW h, NEW x, Readies(h, x), NEW t, Stays(x.top, t)
  PROVE  /\ Readies(h, [x EXCEPT !.top = t])
         /\ [x EXCEPT !.top = t].top = t
<1> DEFINE y == [x EXCEPT !.top = t]
<1>1. Sane(x) /\ Same(x.top, t) /\ (t.filter_verified => x.task /\ ~x.recovery)
  BY DEF Readies, Sane, Seated, Stays
<1>2. /\ Sane(y) /\ Alike(x, y) /\ y.top = t
      /\ y.safetyFailure = x.safetyFailure
      /\ y.sawSafetyLatch = x.sawSafetyLatch
  BY <1>1, BeliefChanges
<1> HIDE DEF y
<1>3. Readies(h, y)
  BY <1>2 DEF Readies, Alike, Stays
<1> QED
  BY <1>2, <1>3 DEF y

(* Requiring Neutral Entry anew.                                           *)
LEMMA NeutralEntryRequiredStays ==
  ASSUME NEW t, Believes(t)
  PROVE  Stays(t, RequireNeutralEntry(t)) /\ RequireNeutralEntry(t).snapshot = t.snapshot
BY NeutralEntryFollows DEF RequireNeutralEntry

(* The permissions an event reports are stored.                            *)
LEMMA PermissionsReadReadies ==
  ASSUME NEW h, Sane(h), NEW missing \in SUBSET Gates
  PROVE  /\ Readies(h, PermissionsRead(h, missing))
         /\ PermissionsRead(h, missing).top = h.top
<1> DEFINE permission == missing = {}
           x == [h EXCEPT !.missing = missing, !.permission = permission]
<1>1. permission \in BOOLEAN /\ h \in Apps
  BY DEF Sane
<1>2. x = PermissionsRead(h, missing)
  BY DEF PermissionsRead
<1> HIDE DEF permission
<1>3. /\ x \in Apps
      /\ x.top = h.top
      /\ x.coord = h.coord
      /\ x.running = h.running /\ x.enabled = h.enabled
      /\ x.task = h.task /\ x.recovery = h.recovery /\ x.purpose = h.purpose
      /\ x.signalled = h.signalled
      /\ x.safetyFailure = h.safetyFailure
      /\ x.sawSafetyLatch = h.sawSafetyLatch
  BY <1>1 DEF Apps
<1> HIDE DEF x
<1>4. Readies(h, x)
  BY <1>3 DEF Readies, Sane, Seated, Alike
<1> QED
  BY <1>2, <1>3, <1>4

(* The handlers of tcc_status and permissions_changed.                     *)
LEMMA PermissionsHeard ==
  ASSUME NEW h, Listening(h), NEW w \in Views, NEW e,
         e.event \in {"tcc_status", "permissions_changed"},
         e.missing \in SUBSET Gates
  PROVE  Heard(h, e, OnPermissions(h, w, e))
<1> DEFINE missing == IF e.event = "tcc_status" THEN e.missing
                      ELSE (h.missing \ {"ACCESSIBILITY"})
                             \cup (e.missing \cap {"ACCESSIBILITY"})
           told == PermissionsRead(h, missing)
           t == RequireNeutralEntry(told.top)
           y == [told EXCEPT !.top = t]
           x == IF told.permission THEN told ELSE y
           g == OnPermissions(h, w, e)
<1>1. Sane(h) /\ h.missing \in SUBSET Gates
  BY DEF Listening, Sane, Apps
<1>2. missing \in SUBSET Gates
  BY <1>1
<1>3. g = Observe(x, w)
  BY DEF OnPermissions
<1> HIDE DEF missing, g
<1>4. Readies(h, told) /\ told.top = h.top
  BY <1>1, <1>2, PermissionsReadReadies
<1> HIDE DEF told
<1>5. Stays(told.top, t) /\ t.snapshot = h.top.snapshot
  BY <1>4, NeutralEntryRequiredStays DEF Readies, Sane
<1> HIDE DEF t
<1>6. Readies(h, y) /\ y.top = t
  BY <1>4, <1>5, BeliefReadies
<1> HIDE DEF y
<1>7. Readies(h, x) /\ x.top.snapshot = h.top.snapshot
  BY <1>4, <1>5, <1>6
<1> HIDE DEF x
<1>8. /\ Hears(h, g) /\ g.top = x.top
      /\ ~Alarmed(h) => ~Alarmed(g)
  BY <1>3, <1>7, ObserveHears
<1> QED
  BY <1>7, <1>8 DEF Heard, Sighted, g

(* What an event on the filter leaves behind: an alarm only when it says   *)
(* the filter is on over something else than one controller.               *)
FilterRead(h, x, verified, g) ==
  /\ Hears(h, g)
  /\ ~h.recovery /\ ~Alarmed(h)
       /\ (verified => x.top.snapshot.state = "SINGLE") =>
       ~Alarmed(g) /\ g.top.snapshot = x.top.snapshot

(* The handler of a filter event, from a delegate made ready for it.       *)
LEMMA FilterHears ==
  ASSUME NEW h, NEW x, Listening(h), Readies(h, x), NEW w \in Views,
         NEW verified \in BOOLEAN
  PROVE  FilterRead(h, x, verified, OnFilter(x, w, verified))
<1> DEFINE t == ApplyFilterVerification(x.top, verified)
           seen == x.sawFilterApplied \/ verified
           y == [x EXCEPT !.top = t, !.sawFilterApplied = seen]
           g == OnFilter(x, w, verified)
           taken == FilterEventTaken(x.top, x.top.generation, verified)
<1>1. /\ x \in Apps /\ Sane(x) /\ Alike(h, x) /\ Believes(x.top)
      /\ h.task /\ (h.recovery <=> x.top.recovery_mode)
      /\ x.top \in Beliefs
  BY DEF Readies, Sane, Listening, Alike, Believes
<1>2. g = IF taken THEN Observe(y, w) ELSE InvalidateTopology(x, w, TRUE)
  BY DEF OnFilter, ProtocolFailure
<1>3. ~h.recovery /\ ~Alarmed(h) /\ (verified => x.top.snapshot.state = "SINGLE")
        => taken
  BY <1>1 DEF Alarmed, Readies, FilterEventTaken, IsCurrent, Believes, Grounded
<1>4. seen \in BOOLEAN
  BY <1>1 DEF Apps
<1> HIDE DEF g, seen
<1>5. CASE taken
  <2>1. Verifies(x.top, verified, t)
    BY <1>1, <1>5, FilterVerified
  <2> HIDE DEF t
  <2>2. t \in Beliefs
    BY <2>1 DEF Verifies, Same, Believes
  <2>3. /\ y \in Apps
        /\ y.top = t
        /\ y.coord = x.coord
        /\ y.running = x.running /\ y.enabled = x.enabled
        /\ y.task = x.task /\ y.recovery = x.recovery /\ y.purpose = x.purpose
        /\ y.signalled = x.signalled
        /\ y.safetyFailure = x.safetyFailure
        /\ y.sawSafetyLatch = x.sawSafetyLatch
    BY <1>1, <1>4, <2>2 DEF Apps
  <2> HIDE DEF y
  <2>4. Readies(h, y)
    BY <1>1, <2>1, <2>3 DEF Readies, Sane, Seated, Alike, Verifies, Same
  <2>5. /\ Hears(h, g) /\ g.top = y.top
        /\ ~Alarmed(h) => ~Alarmed(g)
    BY <1>2, <1>5, <2>4, ObserveHears
  <2> QED
    BY <2>1, <2>3, <2>5 DEF Verifies, FilterRead, g
<1>6. CASE ~taken
  <2>1. Hears(h, g)
    BY <1>1, <1>2, <1>6, InvalidateHears
  <2> QED
    BY <2>1, <1>3, <1>6 DEF FilterRead, g
<1> QED
  BY <1>5, <1>6

(* Nothing has to be made ready.                                           *)
LEMMA ReadyIsItself ==
  ASSUME NEW h, Sane(h)
  PROVE  Readies(h, h)
BY DEF Readies, Alike

(* The handler of ready.                                                   *)
LEMMA ReadyHeard ==
  ASSUME NEW h, Listening(h), NEW w \in Views, NEW e,
         e.event = "ready", e.missing \in SUBSET Gates, e.applied = FALSE
  PROVE  Heard(h, e, OnReady(h, w, e))
<1> DEFINE x == PermissionsRead(h, e.missing)
           g == OnReady(h, w, e)
<1>1. Readies(h, x) /\ x.top = h.top
  BY PermissionsReadReadies DEF Listening
<1>2. g = OnFilter(x, w, FALSE)
  BY DEF OnReady
<1> HIDE DEF x, g
<1>3. FilterRead(h, x, FALSE, g)
  BY <1>1, <1>2, FilterHears
<1> QED
  BY <1>1, <1>3 DEF FilterRead, Heard, Sighted, g

(* The handler of filter_applied.                                          *)
LEMMA FilterAppliedHeard ==
  ASSUME NEW h, Listening(h), NEW w \in Views, NEW e,
         e.event = "filter_applied"
  PROVE  Heard(h, e, OnFilter(h, w, TRUE))
<1>1. Readies(h, h)
  BY ReadyIsItself DEF Listening
<1>2. FilterRead(h, h, TRUE, OnFilter(h, w, TRUE))
  BY <1>1, FilterHears
<1> QED
  BY <1>2 DEF FilterRead, Heard, Sighted, CalmEvent

(* The handler of filter_restored.                                         *)
LEMMA FilterRestoredHeard ==
  ASSUME NEW h, Listening(h), NEW w \in Views, NEW e,
         e.event = "filter_restored"
  PROVE  Heard(h, e, OnFilterRestored(h, w))
<1> DEFINE x == [h EXCEPT !.sawFilterRestored = TRUE]
           g == OnFilterRestored(h, w)
<1>1. Sane(h) /\ h \in Apps
  BY DEF Listening, Sane
<1>2. /\ x \in Apps
      /\ x.top = h.top
      /\ x.coord = h.coord
      /\ x.running = h.running /\ x.enabled = h.enabled
      /\ x.task = h.task /\ x.recovery = h.recovery /\ x.purpose = h.purpose
      /\ x.signalled = h.signalled
      /\ x.safetyFailure = h.safetyFailure
      /\ x.sawSafetyLatch = h.sawSafetyLatch
  BY <1>1 DEF Apps
<1>3. g = OnFilter(x, w, FALSE)
  BY DEF OnFilterRestored
<1> HIDE DEF x, g
<1>4. Readies(h, x)
  BY <1>1, <1>2 DEF Readies, Sane, Seated, Alike
<1>5. FilterRead(h, x, FALSE, g)
  BY <1>3, <1>4, FilterHears
<1> QED
  BY <1>2, <1>5 DEF FilterRead, Heard, Sighted, g

(* Focus and Neutral Entry events, of the current generation or not.       *)
Released(h, w, released) ==
  IF IsCurrent(h.top, h.top.generation)
  THEN Observe([h EXCEPT !.top = [h.top EXCEPT !.inputs_released = released]], w)
  ELSE ProtocolFailure(h, w)

(* Neutral Entry as reported, or lost with the focus.                      *)
LEMMA ReleasedHears ==
  ASSUME NEW h, Listening(h), NEW w \in Views, NEW released \in BOOLEAN
  PROVE  FilterRead(h, h, FALSE, Released(h, w, released))
<1> DEFINE t == [h.top EXCEPT !.inputs_released = released]
           x == [h EXCEPT !.top = t]
           g == Released(h, w, released)
           current == IsCurrent(h.top, h.top.generation)
<1>1. Sane(h) /\ Believes(h.top) /\ Readies(h, h) /\ Alike(h, h)
  BY ReadyIsItself DEF Listening, Sane, Readies
<1>2. Stays(h.top, t) /\ t.snapshot = h.top.snapshot
  BY <1>1, NeutralEntryFollows
<1>3. g = IF current THEN Observe(x, w) ELSE InvalidateTopology(h, w, TRUE)
  BY DEF Released, ProtocolFailure
<1>4. ~Alarmed(h) => current
  BY DEF Alarmed, IsCurrent
<1> HIDE DEF t, g, current
<1>5. Readies(h, x) /\ x.top = t
  BY <1>1, <1>2, BeliefReadies
<1> HIDE DEF x
<1>6. CASE current
  <2>1. /\ Hears(h, g) /\ g.top = x.top
        /\ ~Alarmed(h) => ~Alarmed(g)
    BY <1>3, <1>5, <1>6, ObserveHears
  <2> QED
    BY <2>1, <1>2, <1>5 DEF FilterRead, g
<1>7. CASE ~current
  <2>1. Hears(h, g)
    BY <1>1, <1>3, <1>7, InvalidateHears
  <2> QED
    BY <2>1, <1>4, <1>7 DEF FilterRead, g
<1> QED
  BY <1>6, <1>7

(* The handler of neutral_entry.                                           *)
LEMMA NeutralEntryHeard ==
  ASSUME NEW h, Listening(h), NEW w \in Views, NEW e,
         e.event = "neutral_entry", e.released \in BOOLEAN
  PROVE  Heard(h, e, OnNeutralEntry(h, w, e))
<1>1. OnNeutralEntry(h, w, e) = Released(h, w, e.released)
  BY DEF OnNeutralEntry, Released, ApplyNeutralEntry
<1>2. FilterRead(h, h, FALSE, OnNeutralEntry(h, w, e))
  BY <1>1, ReleasedHears
<1> QED
  BY <1>2 DEF FilterRead, Heard, Sighted

(* The handler of focus_changed.                                           *)
LEMMA FocusChangedHeard ==
  ASSUME NEW h, Listening(h), NEW w \in Views, NEW e,
         e.event = "focus_changed", e.foreground \in BOOLEAN
  PROVE  Heard(h, e, OnFocusChanged(h, w, e))
<1> DEFINE released == h.top.inputs_released /\ e.foreground
<1>1. released \in BOOLEAN
  BY DEF Listening, Sane, Believes, Beliefs
<1>2. OnFocusChanged(h, w, e) = Released(h, w, released)
  BY DEF OnFocusChanged, Released, ApplyFocusChanged
<1> HIDE DEF released
<1>3. FilterRead(h, h, FALSE, OnFocusChanged(h, w, e))
  BY <1>1, <1>2, ReleasedHears
<1> QED
  BY <1>3 DEF FilterRead, Heard, Sighted

(* The handler of permission_required: the listener gives up, so must the  *)
(* app.                                                                    *)
LEMMA PermissionRequiredHeard ==
  ASSUME NEW h, Listening(h), NEW w \in Views, NEW e,
         e.event = "permission_required", e.missing \in SUBSET Gates,
         e.gate \in Gates
  PROVE  Heard(h, e, OnPermissionRequired(h, w, e))
<1> DEFINE missing == (h.missing \ {"ACCESSIBILITY"})
                        \cup (e.missing \cap {"ACCESSIBILITY"}) \cup {e.gate}
           i == InvalidateTopology(h, w, FALSE)
           p == PermissionsRead(i, missing)
           t == RequireNeutralEntry(p.top)
           failure == IF p.coord.safety_latched THEN p.safetyFailure ELSE "NONE"
           m == [p EXCEPT !.permissionRequired = TRUE,
                          !.top = t,
                          !.safetyFailure = failure]
           c == Command(m, w, "NONE", TRUE, "NONE")
           g == OnPermissionRequired(h, w, e)
<1>1. Sane(h) /\ h.missing \in SUBSET Gates /\ "NONE" \in SafetyFailures
  BY DEF Listening, Sane, Apps, SafetyFailures
<1>2. missing \in SUBSET Gates
  BY <1>1
<1>3. g = RefreshIfShown(c, w)
  BY DEF OnPermissionRequired, MissingPermission
<1> HIDE DEF missing, g
<1>4. Loses(h, i)
  BY <1>1, InvalidateTopologyLoses
<1> HIDE DEF i
<1>5. Readies(i, p) /\ p.top = i.top
  BY <1>2, <1>4, PermissionsReadReadies DEF Loses
<1> HIDE DEF p
<1>6. p \in Apps /\ p.safetyFailure \in SafetyFailures /\ Sane(p)
  BY <1>5 DEF Readies, Sane, Apps
<1>7. Stays(p.top, t) /\ t \in Beliefs
  BY <1>6, NeutralEntryRequiredStays DEF Sane, Stays, Same, Believes
<1> HIDE DEF t
<1>8. failure \in SafetyFailures /\ (failure # "NONE" => p.coord.safety_latched)
  BY <1>1, <1>6
<1> HIDE DEF failure
<1>9. /\ m \in Apps
      /\ m.top = t
      /\ m.coord = p.coord
      /\ m.running = p.running /\ m.enabled = p.enabled
      /\ m.task = p.task /\ m.recovery = p.recovery /\ m.purpose = p.purpose
      /\ m.signalled = p.signalled
      /\ m.safetyFailure = failure
  BY <1>6, <1>7, <1>8 DEF Apps
<1> HIDE DEF m
<1>10. Sane(m) /\ Alike(i, m)
  BY <1>5, <1>6, <1>7, <1>9 DEF Sane, Seated, Alike, Readies, Stays, Same
<1>11. Noted(m, c)
  BY <1>1, <1>10, NotesAreCommands
<1> HIDE DEF c
<1>12. Noted(m, g)
  BY <1>3, <1>10, <1>11, RefreshNotes
<1>13. Watches(h, g)
  BY <1>4, <1>10, <1>12 DEF Watches, Loses, Alike, Noted, Keeps, Observes
<1>14. Named(g)
  BY <1>8, <1>9, <1>12 DEF Named, Noted, Keeps, Observes
<1>15. Hears(h, g)
  BY <1>12, <1>13, <1>14 DEF Hears, Noted
<1> QED
  BY <1>15 DEF Heard, CalmEvent, Troubles, g

(* The handler of safety_latch.                                            *)
LEMMA SafetyLatchHeard ==
  ASSUME NEW h, Listening(h), NEW w \in Views, NEW e,
         e.event = "safety_latch", e.reason \in SafetyFailures
  PROVE  Heard(h, e, OnSafetyLatch(h, w, e))
<1> DEFINE x == [h EXCEPT !.sawSafetyLatch = TRUE, !.safetyFailure = e.reason]
           c == Command(x, w, "NONE", FALSE, e.reason)
           g == OnSafetyLatch(h, w, e)
<1>1. Sane(h) /\ h \in Apps
  BY DEF Listening, Sane
<1>2. /\ x \in Apps
      /\ x.top = h.top
      /\ x.coord = h.coord
      /\ x.running = h.running /\ x.enabled = h.enabled
      /\ x.task = h.task /\ x.recovery = h.recovery /\ x.purpose = h.purpose
      /\ x.signalled = h.signalled
      /\ x.safetyFailure = e.reason
  BY <1>1 DEF Apps
<1>3. g = RefreshIfShown(c, w)
  BY DEF OnSafetyLatch
<1> HIDE DEF x, g
<1>4. Sane(x) /\ Alike(h, x)
  BY <1>1, <1>2 DEF Sane, Seated, Alike
<1>5. Noted(x, c) /\ Firm(x, c)
  BY <1>2, <1>4, NotesAreCommands
<1> HIDE DEF c
<1>6. Noted(x, g) /\ Noted(c, g)
  BY <1>3, <1>4, <1>5, RefreshNotes
<1>7. Firm(x, g)
  BY <1>5, <1>6 DEF Firm, Noted, Observes
<1>8. Hears(h, g)
  BY <1>4, <1>6, <1>7, NotedHears
<1> QED
  BY <1>8 DEF Heard, CalmEvent, Troubles, g

(* The handler of stopped.                                                 *)
LEMMA StoppedHeard ==
  ASSUME NEW h, Listening(h), NEW e, e.event = "stopped",
         e.reason \in SafetyFailures, e.releaseFailed \in BOOLEAN
  PROVE  Heard(h, e, OnStopped(h, e))
<1> DEFINE verified == ~e.releaseFailed /\ e.reason = "NONE"
           failure == IF e.reason = "NONE" THEN h.safetyFailure ELSE e.reason
           saw == h.sawSafetyLatch \/ e.reason # "NONE"
           g == OnStopped(h, e)
<1>1. Sane(h) /\ h \in Apps
  BY DEF Listening, Sane
<1>2. verified \in BOOLEAN /\ failure \in SafetyFailures /\ saw \in BOOLEAN
  BY <1>1 DEF Apps
<1>3. failure # "NONE" => failure = h.safetyFailure \/ saw
  OBVIOUS
<1>4. h.sawSafetyLatch => saw
  OBVIOUS
<1>5. g = [h EXCEPT !.sawStopped      = TRUE,
                    !.cleanupVerified = verified,
                    !.safetyFailure   = failure,
                    !.sawSafetyLatch  = saw]
  BY <1>1 DEF OnStopped, Apps
<1> HIDE DEF verified, failure, saw, g
<1>6. /\ g \in Apps
      /\ g.top = h.top
      /\ g.coord = h.coord
      /\ g.running = h.running /\ g.enabled = h.enabled
      /\ g.task = h.task /\ g.recovery = h.recovery /\ g.purpose = h.purpose
      /\ g.signalled = h.signalled
      /\ g.permission = h.permission
      /\ g.safetyFailure = failure
      /\ g.sawSafetyLatch = saw
  BY <1>1, <1>2, <1>5 DEF Apps
<1>7. Hears(h, g)
  BY <1>1, <1>3, <1>4, <1>6
  DEF Hears, Sane, Seated, Evidence, Watches, Observes, Named, Listening
<1> QED
  BY <1>7 DEF Heard, CalmEvent, Troubles, g

(* A recovery event of a recovery generation.                              *)
LEMMA RecoveryTakenHears ==
  ASSUME NEW h, Listening(h), h.top.recovery_mode, NEW w \in Views, NEW e,
         e.outcome \in RecoveryOutcomes, e.snapshot \in Sights,
         e.released \in BOOLEAN, e.permission \in BOOLEAN, e.verified \in BOOLEAN
  PROVE  Hears(h, RecoveryTaken(h, w, e))
<1> DEFINE t == ApplyRecovery(h.top, e.snapshot, e.outcome, e.released,
                              e.permission, e.verified)
           taken == [h EXCEPT !.top = t, !.permission = e.permission]
           failure == IF taken.safetyFailure = "NONE" THEN "DEVICE_UNCERTAIN"
                      ELSE taken.safetyFailure
           named == [taken EXCEPT !.sawSafetyLatch = TRUE,
                                  !.safetyFailure  = failure]
           told == Unverified(named, w, "NONE")
           g == RecoveryTaken(h, w, e)
<1>1. Sane(h) /\ h \in Apps /\ Believes(h.top)
  BY DEF Listening, Sane
<1>2. Stays(h.top, t)
  BY <1>1, ApplyRecoveryFollows
<1>3. g = IF e.outcome = "FAILURE" THEN told ELSE taken
  BY DEF RecoveryTaken
<1> HIDE DEF t, g
<1>4. t \in Beliefs /\ ~t.filter_verified /\ ~h.top.filter_verified
  BY <1>1, <1>2 DEF Stays, Same, Believes, Grounded
<1>5. /\ taken \in Apps
      /\ taken.top = t
      /\ taken.coord = h.coord
      /\ taken.running = h.running /\ taken.enabled = h.enabled
      /\ taken.task = h.task /\ taken.recovery = h.recovery
      /\ taken.purpose = h.purpose
      /\ taken.signalled = h.signalled
      /\ taken.safetyFailure = h.safetyFailure
      /\ taken.sawSafetyLatch = h.sawSafetyLatch
  BY <1>1, <1>4 DEF Apps
<1> HIDE DEF taken
<1>6. Sane(taken) /\ Evidence(taken) /\ Alike(h, taken)
  BY <1>1, <1>2, <1>4, <1>5
  DEF Sane, Seated, Alike, Stays, Same, Evidence, Listening
<1>7. Hears(h, taken)
  BY <1>5, <1>6 DEF Hears, Watches, Alike, Observes, Named, Listening
<1>8. failure \in SafetyFailures
  BY <1>5 DEF Apps, SafetyFailures
<1> HIDE DEF failure
<1>9. /\ named \in Apps
      /\ named.top = taken.top
      /\ named.coord = taken.coord
      /\ named.running = taken.running /\ named.enabled = taken.enabled
      /\ named.task = taken.task /\ named.recovery = taken.recovery
      /\ named.purpose = taken.purpose
      /\ named.signalled = taken.signalled
  BY <1>5, <1>8 DEF Apps
<1> HIDE DEF named
<1>10. Sane(named) /\ Alike(h, named)
  BY <1>6, <1>9 DEF Sane, Seated, Alike
<1>11. Noted(named, told) /\ Firm(named, told)
  BY <1>10, UnverifiedNotes
<1> HIDE DEF told
<1>12. Hears(h, told)
  BY <1>10, <1>11, NotedHears
<1> QED
  BY <1>3, <1>7, <1>12 DEF g

(* The handler of recovery_state; a normal generation treats it as a       *)
(* protocol failure.                                                       *)
LEMMA RecoveryStateHeard ==
  ASSUME NEW h, Listening(h), NEW w \in Views, NEW e,
         e.event = "recovery_state",
         e.outcome \in RecoveryOutcomes, e.snapshot \in Sights,
         e.released \in BOOLEAN, e.permission \in BOOLEAN, e.verified \in BOOLEAN
  PROVE  Heard(h, e, OnRecoveryState(h, w, e))
<1> DEFINE result == RecoveryResult(h.top, h.top.generation, e.snapshot,
                                    e.outcome, e.released, e.permission,
                                    e.verified)
           asked == h.recovery /\ h.purpose \in {"RETRY", "DISABLE"}
           taken == RecoveryTaken(h, w, e)
           signalled == taken.signalled \/ asked
           x == [taken EXCEPT !.signalled = signalled]
           g == OnRecoveryState(h, w, e)
<1>1. Sane(h) /\ Alike(h, h)
  BY DEF Listening, Alike
<1>2. result \in {"IGNORED_STALE", "REJECTED_INVALID", "ACCEPTED"}
  BY DEF RecoveryResult, EventResult
<1>3. result = "ACCEPTED" => h.top.recovery_mode
  BY DEF RecoveryResult, EventResult
<1>4. /\ result = "IGNORED_STALE" => g = h
      /\ result = "REJECTED_INVALID" => g = InvalidateTopology(h, w, TRUE)
      /\ result = "ACCEPTED" => g = x
  BY DEF OnRecoveryState, ProtocolFailure
<1> HIDE DEF result, g
<1>5. CASE result = "IGNORED_STALE"
  BY <1>1, <1>4, <1>5 DEF Heard, CalmEvent, Troubles, Hears, Listening, Watches,
     Observes, g
<1>6. CASE result = "REJECTED_INVALID"
  <2>1. g = InvalidateTopology(h, w, TRUE)
    BY <1>4, <1>6
  <2>2. Hears(h, g)
    BY <1>1, <2>1, InvalidateHears
  <2> QED
    BY <2>2 DEF Heard, CalmEvent, Troubles, g
<1>7. CASE result = "ACCEPTED"
  <2>1. Hears(h, taken)
    BY <1>3, <1>7, RecoveryTakenHears
  <2> HIDE DEF taken
  <2>2. taken \in Apps
    BY <2>1 DEF Hears, Sane
  <2>3. signalled \in BOOLEAN /\ (taken.signalled => signalled)
    BY <2>2 DEF Apps
  <2> HIDE DEF signalled
  <2>4. /\ x \in Apps
        /\ x.top = taken.top
        /\ x.coord = taken.coord
        /\ x.running = taken.running /\ x.enabled = taken.enabled
        /\ x.task = taken.task /\ x.recovery = taken.recovery
        /\ x.purpose = taken.purpose
        /\ x.permission = taken.permission
        /\ x.safetyFailure = taken.safetyFailure
        /\ x.sawSafetyLatch = taken.sawSafetyLatch
        /\ x.signalled = signalled
    BY <2>2, <2>3 DEF Apps
  <2> HIDE DEF x
  <2>5. Hears(h, x)
    BY <2>1, <2>3, <2>4 DEF Hears, Sane, Seated, Evidence, Watches, Named
  <2> QED
    BY <1>4, <1>7, <2>5 DEF Heard, CalmEvent, Troubles, g
<1> QED
  BY <1>2, <1>5, <1>6, <1>7

(* Every event of the listener (handleEvent:).                             *)
LEMMA EventHeard ==
  ASSUME NEW h, Listening(h), NEW w \in Views, NEW e \in Events
  PROVE  Heard(h, e, HandleEvent(h, w, e))
<1>1. CASE e \in [event : {"topology"}, snapshot : Sights]
  BY <1>1, TopologyHeard DEF HandleEvent
<1>2. CASE e \in [event : {"tcc_status", "permissions_changed"},
                  missing : SUBSET Gates]
  <2>1. /\ e.event \in {"tcc_status", "permissions_changed"}
        /\ e.missing \in SUBSET Gates
    BY <1>2
  <2>2. HandleEvent(h, w, e) = OnPermissions(h, w, e)
    BY <2>1 DEF HandleEvent
  <2> QED
    BY <2>1, <2>2, PermissionsHeard
<1>3. CASE e \in [event : {"permission_required"}, missing : SUBSET Gates,
                  gate : Gates]
  BY <1>3, PermissionRequiredHeard DEF HandleEvent
<1>4. CASE e \in [event : {"focus_changed"}, foreground : BOOLEAN]
  BY <1>4, FocusChangedHeard DEF HandleEvent
<1>5. CASE e \in [event : {"neutral_entry"}, released : BOOLEAN]
  BY <1>5, NeutralEntryHeard DEF HandleEvent
<1>6. CASE e \in [event : {"safety_latch"}, reason : SafetyFailures]
  BY <1>6, SafetyLatchHeard DEF HandleEvent
<1>7. CASE e \in [event : {"filter_applied", "filter_restored"}]
  BY <1>7, FilterAppliedHeard, FilterRestoredHeard DEF HandleEvent
<1>8. CASE e \in [event : {"ready"}, missing : SUBSET Gates, applied : {FALSE}]
  BY <1>8, ReadyHeard DEF HandleEvent
<1>9. CASE e \in [event : {"recovery_state"}, outcome : RecoveryOutcomes,
                  snapshot : Sights, released : BOOLEAN, permission : BOOLEAN,
                  verified : BOOLEAN]
  BY <1>9, RecoveryStateHeard DEF HandleEvent
<1>10. CASE e \in [event : {"stopped"}, reason : SafetyFailures,
                   releaseFailed : BOOLEAN]
  BY <1>10, StoppedHeard DEF HandleEvent
<1> QED
  BY <1>1, <1>2, <1>3, <1>4, <1>5, <1>6, <1>7, <1>8, <1>9, <1>10 DEF Events

-----------------------------------------------------------------------------
(* The end of a listener.                                                  *)

(* A purpose that names a pending Disable.                                 *)
Pends(h) == h.purpose = "DISABLE" => h.coord.disable_pending

(* The listener is gone and what it leaves is judged: an unverified        *)
(* cleanup has a failure to name, a verified one none that is not latched. *)
Ended(h, verified) ==
  /\ Sane(h) /\ Evidence(h)
  /\ h.running /\ ~h.task
  /\ h.coord.status # "DISABLED"
  /\ h.enabled <=> h.coord.enabled_intent
  /\ Pends(h)
  /\ verified => (h.safetyFailure # "NONE" => h.coord.safety_latched)
  /\ ~verified => h.safetyFailure # "NONE"

(* The purpose was served: nothing listens, or a new generation does.      *)
Resolved(h, g) ==
  /\ Sane(g) /\ Evidence(g)
  /\ g.running =>
       /\ AtRest(g.coord)
       /\ g.enabled <=> g.coord.enabled_intent
       /\ g.task => g.coord.status # "DISABLED"
       /\ g.safetyFailure # "NONE" => g.coord.safety_latched
  /\ g.task =>
       /\ g.top.generation # h.top.generation
       /\ g.recovery <=> g.top.recovery_mode
       /\ g.purpose # "DISABLE"
       /\ ~g.recovery => ~Alarmed(g)

(* A purpose that ends with a start of a listener.                         *)
LEMMA StartResolves ==
  ASSUME NEW h, NEW x, Sane(x), Evidence(x), x.running, ~x.task,
         x.coord.status # "DISABLED",
         x.enabled <=> x.coord.enabled_intent,
         x.purpose # "DISABLE",
         x.top.generation = h.top.generation,
         NEW w \in Views, NEW recovery \in BOOLEAN, NEW ok \in BOOLEAN,
         recovery \/ (x.safetyFailure # "NONE" => x.coord.safety_latched)
  PROVE  Resolved(h, Start(x, w, recovery, ok))
<1> DEFINE g == Start(x, w, recovery, ok)
<1>1. Starts(x, recovery, g)
  BY StartStarts
<1> HIDE DEF g
<1>2. Sane(x) => AtRest(x.coord)
  BY DEF AtRest
<1>3. CASE g = x /\ (recovery => x.task)
  BY <1>1, <1>2, <1>3 DEF Resolved, Starts, g
<1>4. CASE Begins(x, recovery, g)
  <2>1. AtRest(g.coord) /\ g.coord.status # "DISABLED"
        /\ (g.enabled <=> g.coord.enabled_intent)
    BY <1>1, <1>2 DEF Starts, Observes
  <2>2. g.safetyFailure # "NONE" => g.coord.safety_latched
    BY <1>1, <1>4 DEF Begins, Starts, Observes, Firm
  <2>3. g.task /\ ~g.recovery => ~Alarmed(g)
    BY <1>4 DEF Begins, Alarmed, Quiet
  <2>4. Resolved(h, g)
    BY <1>1, <1>4, <2>1, <2>2, <2>3 DEF Resolved, Starts, Begins
  <2> QED
    BY <2>4 DEF g
<1> QED
  BY <1>1, <1>3, <1>4 DEF Starts

(* A call over a cleanup that is vouched for.                              *)
LEMMA VerifiedTells ==
  ASSUME NEW h, Sane(h), NEW w \in Views, NEW c \in Commands \ {"ENABLE"}
  PROVE  LET g == Verified(h, w, c) IN
         /\ Sane(g) /\ Evidence(g)
         /\ Heeds(h.coord, c, TRUE, "NONE", g.coord)
         /\ g.running = h.running /\ g.enabled = h.enabled
         /\ g.task = h.task /\ g.recovery = h.recovery
         /\ g.purpose = h.purpose /\ g.top = h.top
         /\ g.signalled = h.signalled
         /\ g.safetyFailure = "NONE"
<1> DEFINE x == [h EXCEPT !.safetyFailure = "NONE"]
           g == Verified(h, w, c)
<1>1. h \in Apps /\ "NONE" \in SafetyFailures
  BY DEF Sane, SafetyFailures
<1>2. /\ x \in Apps
      /\ x.top = h.top
      /\ x.coord = h.coord
      /\ x.running = h.running /\ x.enabled = h.enabled
      /\ x.task = h.task /\ x.recovery = h.recovery /\ x.purpose = h.purpose
      /\ x.signalled = h.signalled
      /\ x.safetyFailure = "NONE"
  BY <1>1 DEF Apps
<1>3. g = Command(x, w, c, TRUE, "NONE")
  BY DEF Verified
<1> HIDE DEF x, g
<1>4. Sane(x)
  BY <1>2 DEF Sane, Seated
<1>5. Told(x, c, TRUE /\ "NONE" = "NONE", "NONE", g)
  BY <1>1, <1>3, <1>4, CommandTells
<1>6. Told(x, c, TRUE, "NONE", g)
  BY <1>5
<1> QED
  BY <1>2, <1>6 DEF Told, Keeps, g

(* A call over one that is not.                                            *)
LEMMA UnverifiedTells ==
  ASSUME NEW h, Sane(h), NEW w \in Views, NEW c \in Commands \ {"ENABLE"}
  PROVE  Told(h, c, FALSE, h.safetyFailure, Unverified(h, w, c))
<1>1. h.safetyFailure \in SafetyFailures
  BY DEF Sane, Apps
<1>2. Told(h, c, FALSE /\ h.safetyFailure = "NONE", h.safetyFailure,
           Unverified(h, w, c))
  BY <1>1, CommandTells DEF Unverified
<1> QED
  BY <1>2

(* The answers to a Quit.                                                  *)
LEMMA AnswersAreSane ==
  ASSUME NEW h, Sane(h), Evidence(h)
  PROVE  /\ Sane(SafeQuit(h)) /\ Evidence(SafeQuit(h)) /\ ~SafeQuit(h).running
         /\ SafeQuit(h).task = h.task
         /\ Sane(RefuseQuit(h)) /\ Evidence(RefuseQuit(h))
         /\ RefuseQuit(h).running = h.running
         /\ RefuseQuit(h).enabled = h.enabled
         /\ RefuseQuit(h).task = h.task
         /\ RefuseQuit(h).coord = h.coord
         /\ RefuseQuit(h).top = h.top
         /\ RefuseQuit(h).safetyFailure = h.safetyFailure
<1>1. h \in Apps
  BY DEF Sane
<1> DEFINE q == SafeQuit(h)
           r == RefuseQuit(h)
<1>2. /\ q \in Apps /\ ~q.running
      /\ q.task = h.task /\ q.recovery = h.recovery
      /\ q.coord = h.coord /\ q.top = h.top /\ q.permission = h.permission
  BY <1>1 DEF Apps, SafeQuit
<1>3. /\ r \in Apps /\ r.running = h.running /\ r.enabled = h.enabled
      /\ r.task = h.task /\ r.recovery = h.recovery
      /\ r.coord = h.coord /\ r.top = h.top /\ r.permission = h.permission
      /\ r.safetyFailure = h.safetyFailure
  BY <1>1 DEF Apps, RefuseQuit
<1> HIDE DEF q, r
<1>4. Sane(q) /\ Evidence(q)
  BY <1>2 DEF Sane, Seated, Evidence
<1>5. Sane(r) /\ Evidence(r)
  BY <1>3 DEF Sane, Seated, Evidence
<1> QED
  BY <1>2, <1>3, <1>4, <1>5 DEF q, r

(* The end of a listener that was stopped to change the profile.           *)
LEMMA ProfileResolves ==
  ASSUME NEW h, NEW verified \in BOOLEAN, Ended(h, verified),
         h.purpose = "PROFILE", NEW w \in Views, NEW ok \in BOOLEAN
  PROVE  Resolved(h, AfterProfile(h, w, verified, ok))
<1> DEFINE g == Unverified(h, w, "NONE")
<1>1. CASE ~verified
  <2>1. Noted(h, g) /\ Firm(h, g)
    BY UnverifiedNotes DEF Ended
  <2> HIDE DEF g
  <2>2. Resolved(h, g)
    BY <1>1, <2>1 DEF Resolved, Ended, Noted, Keeps, Observes, Firm, AtRest
  <2> QED
    BY <1>1, <2>2 DEF AfterProfile, g
<1>2. CASE verified
  <2>1. Resolved(h, Start(h, w, FALSE, ok))
    BY <1>2, StartResolves DEF Ended
  <2> QED
    BY <1>2, <2>1 DEF AfterProfile
<1> QED
  BY <1>1, <1>2

(* The end of one that was stopped by Disable.                             *)
LEMMA DisableResolves ==
  ASSUME NEW h, NEW verified \in BOOLEAN, Ended(h, verified),
         h.purpose = "DISABLE", NEW w \in Views
  PROVE  Resolved(h, AfterDisable(h, w, verified))
<1> DEFINE v == Verified(h, w, "DISABLE")
           u == Unverified(h, w, "DISABLE")
<1>1. Sane(h) /\ "DISABLE" \in Commands \ {"ENABLE"}
  BY DEF Ended, Commands
<1>2. /\ Sane(v) /\ Evidence(v)
      /\ Heeds(h.coord, "DISABLE", TRUE, "NONE", v.coord)
      /\ v.running = h.running /\ v.enabled = h.enabled
      /\ v.task = h.task /\ v.safetyFailure = "NONE"
  BY <1>1, VerifiedTells
<1>3. Told(h, "DISABLE", FALSE, h.safetyFailure, u)
  BY <1>1, UnverifiedTells
<1>4. ~h.enabled
  BY DEF Ended, Pends, Sane, Coherent, HeldDisable
<1> HIDE DEF u, v
<1>5. Resolved(h, v)
  BY <1>2, <1>4 DEF Resolved, Ended, Heeds, AtRest
<1>6. Resolved(h, u)
  BY <1>3, <1>4 DEF Resolved, Ended, Told, Keeps, Heeds, AtRest
<1> QED
  BY <1>5, <1>6 DEF AfterDisable, u, v

(* The end of one that was stopped, or run, by Retry.                      *)
LEMMA RetryResolves ==
  ASSUME NEW h, NEW verified \in BOOLEAN, Ended(h, verified),
         h.purpose = "RETRY", NEW w \in Views, NEW ok \in BOOLEAN
  PROVE  Resolved(h, AfterRetry(h, w, verified, ok))
<1> DEFINE x == [h EXCEPT !.purpose = "RETRY"]
           s == Start(x, w, TRUE, ok)
           u == Unverified(h, w, "RETRY")
           n == Command(h, w, "NONE", TRUE, "NONE")
           v == Verified(h, w, "RETRY")
           a == RetryAnswered(v, w, ok)
           recovers == ~h.top.recovery_validated /\ ~h.recovery /\ ~h.quitInFlight
<1>1. Sane(h) /\ "RETRY" \in Commands \ {"ENABLE"} /\ h \in Apps
      /\ "NONE" \in SafetyFailures
  BY DEF Ended, Commands, Sane, SafetyFailures
<1>2. x = h
  BY <1>1 DEF Apps
<1>3. s = Start(h, w, TRUE, ok)
  BY <1>2
<1> HIDE DEF s
<1>4. Resolved(h, s)
  BY <1>3, StartResolves DEF Ended
<1>5. ~verified => Resolved(h, RefuseQuit(u))
  <2>1. Told(h, "RETRY", FALSE, h.safetyFailure, u)
    BY <1>1, UnverifiedTells
  <2> DEFINE r == RefuseQuit(u)
  <2> HIDE DEF u
  <2>2. /\ Sane(r) /\ Evidence(r)
        /\ r.running = u.running /\ r.enabled = u.enabled
        /\ r.task = u.task /\ r.coord = u.coord /\ r.top = u.top
        /\ r.safetyFailure = u.safetyFailure
    BY <2>1, AnswersAreSane DEF Told
  <2> HIDE DEF r
  <2>3. ~verified => Resolved(h, r)
    BY <2>1, <2>2 DEF Resolved, Ended, Told, Keeps, Heeds, AtRest
  <2> QED
    BY <2>3 DEF r
<1>6. verified => Resolved(h, n)
  <2>1. Noted(h, n)
    BY <1>1, NotesAreCommands
  <2> HIDE DEF n
  <2> QED
    BY <2>1 DEF Resolved, Ended, Noted, Keeps, Observes, AtRest
<1>7. /\ Sane(v) /\ Evidence(v)
      /\ Heeds(h.coord, "RETRY", TRUE, "NONE", v.coord)
      /\ v.running = h.running /\ v.enabled = h.enabled
      /\ v.task = h.task /\ v.safetyFailure = "NONE"
      /\ v.purpose = h.purpose /\ v.top = h.top
  BY <1>1, VerifiedTells
<1> HIDE DEF v
<1>8. /\ ~v.task /\ v.running /\ (v.enabled <=> v.coord.enabled_intent)
      /\ AtRest(v.coord)
  BY <1>7 DEF Ended, Heeds, AtRest
<1>9. Resolved(h, a)
  <2>1. CASE v.coord.quit_allowed
    <3>1. /\ Sane(SafeQuit(v)) /\ Evidence(SafeQuit(v))
          /\ ~SafeQuit(v).running /\ SafeQuit(v).task = v.task
      BY <1>7, AnswersAreSane
    <3> QED
      BY <2>1, <3>1, <1>8 DEF Resolved, RetryAnswered
  <2>2. CASE ~v.coord.quit_allowed /\ v.coord.status # "DISABLED"
    <3>1. Resolved(h, Start(v, w, FALSE, ok))
      BY <2>2, <1>7, <1>8, StartResolves
    <3> QED
      BY <2>2, <3>1 DEF RetryAnswered
  <2>3. CASE ~v.coord.quit_allowed /\ v.coord.status = "DISABLED"
    BY <2>3, <1>7, <1>8 DEF Resolved, RetryAnswered
  <2> QED
    BY <2>1, <2>2, <2>3
<1> HIDE DEF u, n, a, recovers
<1>10. AfterRetry(h, w, verified, ok) =
         IF recovers THEN s
         ELSE IF ~verified THEN RefuseQuit(u)
         ELSE IF h.permissionRequired THEN n
         ELSE a
  BY DEF AfterRetry, recovers, s, u, n, a, v
<1> QED
  BY <1>4, <1>5, <1>6, <1>9, <1>10

(* The end of one that was stopped by Quit.                                *)
LEMMA QuitResolves ==
  ASSUME NEW h, NEW verified \in BOOLEAN, Ended(h, verified), NEW w \in Views
  PROVE  Resolved(h, AfterQuit(h, w, verified))
<1> DEFINE u == Unverified(h, w, "NONE")
           v == Verified(h, w, "RETRY")
           r == RefuseQuit(u)
           q == RefuseQuit(v)
<1>1. Sane(h) /\ "RETRY" \in Commands \ {"ENABLE"}
  BY DEF Ended, Commands
<1>2. ~verified => Resolved(h, RefuseQuit(u))
  <2>1. Noted(h, u) /\ Firm(h, u)
    BY <1>1, UnverifiedNotes
  <2> HIDE DEF u
  <2>2. /\ Sane(r) /\ Evidence(r)
        /\ r.running = u.running /\ r.enabled = u.enabled
        /\ r.task = u.task /\ r.coord = u.coord /\ r.top = u.top
        /\ r.safetyFailure = u.safetyFailure
    BY <2>1, AnswersAreSane DEF Noted
  <2> HIDE DEF r
  <2>3. ~verified => Resolved(h, r)
    BY <2>1, <2>2 DEF Resolved, Ended, Noted, Keeps, Observes, Firm, AtRest
  <2> QED
    BY <2>3 DEF r
<1>3. /\ Sane(v) /\ Evidence(v)
      /\ Heeds(h.coord, "RETRY", TRUE, "NONE", v.coord)
      /\ v.running = h.running /\ v.enabled = h.enabled
      /\ v.task = h.task /\ v.safetyFailure = "NONE"
      /\ v.purpose = h.purpose /\ v.top = h.top
  BY <1>1, VerifiedTells
<1> HIDE DEF v
<1>4. /\ ~v.task /\ v.running /\ (v.enabled <=> v.coord.enabled_intent)
      /\ AtRest(v.coord)
  BY <1>3 DEF Ended, Heeds, AtRest
<1>5. /\ Sane(SafeQuit(v)) /\ Evidence(SafeQuit(v))
      /\ ~SafeQuit(v).running /\ SafeQuit(v).task = v.task
      /\ Sane(q) /\ Evidence(q)
      /\ q.running = v.running /\ q.enabled = v.enabled
      /\ q.task = v.task /\ q.coord = v.coord /\ q.top = v.top
      /\ q.safetyFailure = v.safetyFailure
  BY <1>3, AnswersAreSane
<1>6. Resolved(h, SafeQuit(v))
  BY <1>4, <1>5 DEF Resolved
<1>7. Resolved(h, RefuseQuit(v))
  BY <1>3, <1>4, <1>5 DEF Resolved
<1> QED
  BY <1>2, <1>6, <1>7 DEF AfterQuit, QuitAnswered, u, v

(* The end of one that was stopped with its session.                       *)
LEMMA SessionResolves ==
  ASSUME NEW h, NEW verified \in BOOLEAN, Ended(h, verified),
         h.purpose = "SESSION", NEW w \in Views, NEW ok \in BOOLEAN
  PROVE  Resolved(h, AfterSession(h, w, verified, ok))
<1> DEFINE u == Unverified(h, w, "NONE")
           n == Command(h, w, "NONE", TRUE, "NONE")
<1>1. Sane(h) /\ "NONE" \in SafetyFailures
  BY DEF Ended, SafetyFailures
<1>2. Noted(h, u) /\ Firm(h, u)
  BY <1>1, UnverifiedNotes
<1>3. Noted(h, n)
  BY <1>1, NotesAreCommands
<1> HIDE DEF u, n
<1>4. ~verified => Resolved(h, u)
  BY <1>2 DEF Resolved, Ended, Noted, Keeps, Observes, Firm, AtRest
<1>5. verified => Resolved(h, n)
  BY <1>3 DEF Resolved, Ended, Noted, Keeps, Observes, AtRest
<1>6. verified => Resolved(h, Start(n, w, FALSE, ok))
  <2> SUFFICES ASSUME verified PROVE Resolved(h, Start(n, w, FALSE, ok))
    OBVIOUS
  <2>1. /\ Sane(n) /\ Evidence(n) /\ n.running /\ ~n.task
        /\ n.coord.status # "DISABLED"
        /\ n.enabled <=> n.coord.enabled_intent
        /\ n.purpose # "DISABLE"
        /\ n.top.generation = h.top.generation
        /\ n.safetyFailure # "NONE" => n.coord.safety_latched
    BY <1>3 DEF Ended, Noted, Keeps, Observes
  <2> QED
    BY <2>1, StartResolves
<1> QED
  BY <1>4, <1>5, <1>6 DEF AfterSession, u, n

(* The end of one that nobody asked to stop.                               *)
LEMMA NoneResolves ==
  ASSUME NEW h, NEW verified \in BOOLEAN, Ended(h, verified), NEW w \in Views
  PROVE  Resolved(h, AfterNone(h, w, verified))
<1> DEFINE v == Verified(h, w, "NONE")
           failure == IF verified THEN "DEVICE_UNCERTAIN" ELSE h.safetyFailure
           c == Command(h, w, "NONE", verified, failure)
<1>1. Sane(h) /\ "NONE" \in Commands \ {"ENABLE"}
      /\ failure \in SafetyFailures /\ failure # "NONE"
  BY DEF Ended, Commands, Sane, Apps, SafetyFailures
<1>2. AfterNone(h, w, verified) =
        IF verified /\ h.permissionRequired THEN v ELSE c
  BY DEF AfterNone
<1>3. /\ Sane(v) /\ Evidence(v)
      /\ Heeds(h.coord, "NONE", TRUE, "NONE", v.coord)
      /\ v.running = h.running /\ v.enabled = h.enabled
      /\ v.task = h.task /\ v.safetyFailure = "NONE"
      /\ v.purpose = h.purpose /\ v.top = h.top
  BY <1>1, VerifiedTells
<1> HIDE DEF failure
<1>4. Noted(h, c) /\ (h.coord.status # "DISABLED" => c.coord.safety_latched)
  BY <1>1, NotesAreCommands
<1> HIDE DEF v, c
<1>5. Resolved(h, v)
  BY <1>3 DEF Resolved, Ended, Heeds, AtRest
<1>6. Resolved(h, c)
  BY <1>4 DEF Resolved, Ended, Noted, Keeps, Observes, AtRest
<1> QED
  BY <1>2, <1>5, <1>6

(* Whatever the purpose was.                                               *)
LEMMA AfterResolves ==
  ASSUME NEW h, NEW verified \in BOOLEAN, Ended(h, verified),
         NEW w \in Views, NEW ok \in BOOLEAN
  PROVE  Resolved(h, After(h, w, verified, ok))
<1>1. h.purpose \in Purposes
  BY DEF Ended, Sane, Apps
<1>2. CASE h.purpose = "PROFILE"
  BY <1>2, ProfileResolves DEF After
<1>3. CASE h.purpose = "DISABLE"
  BY <1>3, DisableResolves DEF After
<1>4. CASE h.purpose = "RETRY"
  BY <1>4, RetryResolves DEF After
<1>5. CASE h.purpose = "QUIT"
  BY <1>5, QuitResolves DEF After
<1>6. CASE h.purpose = "SESSION"
  BY <1>6, SessionResolves DEF After
<1>7. CASE h.purpose = "NONE"
  BY <1>7, NoneResolves DEF After
<1> QED
  BY <1>1, <1>2, <1>3, <1>4, <1>5, <1>6, <1>7 DEF Purposes

(* A handler that ends with nothing listening or with a new generation.    *)
Finishes(h, g) ==
  /\ Settled(g)
  /\ g.task =>
       /\ g.top.generation # h.top.generation
       /\ ~g.recovery => ~Alarmed(g)

(* A purpose that is served is forgotten.                                  *)
LEMMA ServedFinishes ==
  ASSUME NEW h, NEW g, Resolved(h, g)
  PROVE  Finishes(h, Served(g))
<1> DEFINE x == [g EXCEPT !.purpose = "NONE", !.recovery = FALSE,
                          !.permissionRequired = FALSE]
           y == [g EXCEPT !.purpose = "NONE"]
           s == Served(g)
<1>1. g \in Apps /\ g.task \in BOOLEAN /\ g.recovery \in BOOLEAN
  BY DEF Resolved, Sane, Apps
<1>2. /\ ~g.task => s = x
      /\ g.task /\ ~g.recovery => s = y
      /\ g.task /\ g.recovery => s = g
  BY <1>1 DEF Served
<1>3. /\ x \in Apps
      /\ x.running = g.running /\ x.enabled = g.enabled
      /\ x.task = g.task /\ x.coord = g.coord /\ x.top = g.top
      /\ x.permission = g.permission
      /\ x.safetyFailure = g.safetyFailure
      /\ x.purpose = "NONE" /\ ~x.recovery
  BY <1>1 DEF Apps, Purposes
<1>4. /\ y \in Apps
      /\ y.running = g.running /\ y.enabled = g.enabled
      /\ y.task = g.task /\ y.coord = g.coord /\ y.top = g.top
      /\ y.permission = g.permission
      /\ y.safetyFailure = g.safetyFailure
      /\ y.sawSafetyLatch = g.sawSafetyLatch
      /\ y.purpose = "NONE" /\ y.recovery = g.recovery
  BY <1>1 DEF Apps, Purposes
<1> HIDE DEF x, y, s
<1>5. CASE ~g.task
  <2>1. Finishes(h, x)
    BY <1>3, <1>5
    DEF Resolved, Finishes, Settled, Sane, Seated, Evidence
  <2> QED
    BY <1>2, <1>5, <2>1 DEF s
<1>6. CASE g.task /\ ~g.recovery
  <2>1. Finishes(h, y)
    BY <1>4, <1>6
    DEF Resolved, Finishes, Settled, Sane, Seated, Evidence, Alarmed
  <2> QED
    BY <1>2, <1>6, <2>1 DEF s
<1>7. CASE g.task /\ g.recovery
  <2>1. Finishes(h, g)
    BY <1>7 DEF Resolved, Finishes, Settled
  <2> QED
    BY <1>2, <1>7, <2>1 DEF s
<1> QED
  BY <1>1, <1>5, <1>6, <1>7

(* The popover may be refreshed in between.                                *)
LEMMA RefreshResolves ==
  ASSUME NEW h, NEW g, Resolved(h, g), NEW w \in Views
  PROVE  Resolved(h, RefreshIfShown(g, w))
<1> DEFINE r == RefreshIfShown(g, w)
<1>1. Sane(g) /\ Noted(g, g)
  BY DEF Resolved, Noted, Keeps, Observes
<1>2. Noted(g, r) /\ (g.safetyFailure = "NONE" => Quiet(g, r))
  BY <1>1, RefreshNotes
<1> HIDE DEF r
<1>3. Resolved(h, r)
  BY <1>2 DEF Resolved, Noted, Keeps, Observes, Quiet, Alarmed
<1> QED
  BY <1>3 DEF r

(* The listener's end is judged: `clean' says what its output vouched for. *)
Judged(h, clean) ==
  /\ Sane(h) /\ Evidence(h)
  /\ h.running /\ ~h.task
  /\ h.coord.status # "DISABLED"
  /\ h.enabled <=> h.coord.enabled_intent
  /\ Pends(h)
  /\ clean => (h.safetyFailure # "NONE" => h.coord.safety_latched)

(* The end of a listener, judged clean or not                              *)
(* (handleTerminationWithCleanup:).                                        *)
LEMMA HandleTerminationFinishes ==
  ASSUME NEW h, NEW clean \in BOOLEAN, Judged(h, clean),
         NEW w \in Views, NEW ok \in BOOLEAN
  PROVE  Finishes(h, HandleTermination(h, w, clean, ok))
<1> DEFINE verified ==
             clean /\ ~(/\ h.purpose = "RETRY" /\ h.recovery
                        /\ h.top.recovery_failed \/ ~h.top.recovery_validated)
           failure == IF ~verified /\ h.safetyFailure = "NONE"
                      THEN "DEVICE_UNCERTAIN" ELSE h.safetyFailure
           named == [h EXCEPT !.safetyFailure = failure]
           a == After(named, w, verified, ok)
           r == RefreshIfShown(a, w)
           g == HandleTermination(h, w, clean, ok)
<1>1. h \in Apps /\ Sane(h)
  BY DEF Judged, Sane
<1>2. /\ verified \in BOOLEAN
      /\ verified => clean
      /\ failure \in SafetyFailures
      /\ ~verified => failure # "NONE"
      /\ verified => failure = h.safetyFailure
  BY <1>1 DEF Apps, SafetyFailures
<1>3. g = Served(r)
  <2>1. named = [h EXCEPT !.safetyFailure =
                   IF ~verified /\ @ = "NONE" THEN "DEVICE_UNCERTAIN" ELSE @]
    BY <1>1 DEF Apps
  <2> QED
    BY <2>1 DEF HandleTermination
<1> HIDE DEF verified, failure, r, g
<1>4. /\ named \in Apps
      /\ named.running = h.running /\ named.enabled = h.enabled
      /\ named.task = h.task /\ named.recovery = h.recovery
      /\ named.coord = h.coord /\ named.top = h.top
      /\ named.purpose = h.purpose
      /\ named.permission = h.permission
      /\ named.safetyFailure = failure
  BY <1>1, <1>2 DEF Apps
<1> HIDE DEF named
<1>5. Ended(named, verified)
  BY <1>2, <1>4 DEF Judged, Ended, Sane, Seated, Evidence, Pends
<1>6. Resolved(named, a)
  BY <1>2, <1>5, AfterResolves
<1> HIDE DEF a
<1>7. Resolved(named, r)
  BY <1>6, RefreshResolves DEF r
<1>8. Finishes(named, g)
  BY <1>3, <1>7, ServedFinishes
<1>9. Finishes(h, g)
  BY <1>4, <1>8 DEF Finishes
<1> QED
  BY <1>9 DEF g

(* One end of the listener has been heard, and its generation given up.    *)
Ending(h) ==
  /\ Sane(h) /\ Evidence(h)
  /\ h.running /\ h.task
  /\ h.recovery <=> h.top.recovery_mode
  /\ h.coord.status # "DISABLED"
  /\ h.enabled <=> h.coord.enabled_intent
  /\ Pends(h)
  /\ ~h.top.filter_verified
  /\ h.safetyFailure # "NONE" => h.coord.safety_latched

(* Both ends, of the output and of the process, must have been heard       *)
(* (finalizeTerminationIfReady).                                           *)
LEMMA FinalizeFinishes ==
  ASSUME NEW h, Ending(h), NEW w \in Views, NEW ok \in BOOLEAN
  PROVE  \/ FinalizeIfReady(h, w, ok) = h
         \/ Finishes(h, FinalizeIfReady(h, w, ok))
<1> DEFINE accepted == CleanupAccepted(h)
           failure == IF accepted \/ h.sawSafetyLatch
                      THEN h.safetyFailure ELSE "DEVICE_UNCERTAIN"
           gone == [h EXCEPT !.task          = FALSE,
                             !.cleanupKnown  = accepted,
                             !.safetyFailure = failure]
           g == FinalizeIfReady(h, w, ok)
<1>1. h \in Apps
  BY DEF Ending, Sane
<1>2. accepted \in BOOLEAN
  BY DEF CleanupAccepted
<1>3. failure \in SafetyFailures /\ (accepted => failure = h.safetyFailure)
  BY <1>1 DEF Apps, SafetyFailures
<1>4. g = IF ~h.eof \/ h.termination = "NONE" THEN h
          ELSE HandleTermination(gone, w, accepted, ok)
  BY <1>1 DEF FinalizeIfReady, Apps
<1> HIDE DEF accepted, failure, g
<1>5. /\ gone \in Apps
      /\ gone.running = h.running /\ gone.enabled = h.enabled
      /\ ~gone.task /\ gone.recovery = h.recovery
      /\ gone.coord = h.coord /\ gone.top = h.top
      /\ gone.purpose = h.purpose
      /\ gone.permission = h.permission
      /\ gone.safetyFailure = failure
  BY <1>1, <1>2, <1>3 DEF Apps
<1> HIDE DEF gone
<1>6. Judged(gone, accepted)
  BY <1>3, <1>5 DEF Ending, Judged, Sane, Seated, Evidence, Pends
<1>7. Finishes(gone, HandleTermination(gone, w, accepted, ok))
  BY <1>2, <1>6, HandleTerminationFinishes
<1>8. g = h \/ Finishes(h, g)
  BY <1>4, <1>5, <1>7 DEF Finishes
<1> QED
  BY <1>8 DEF g

(* What becomes of the listener in a step of the app.                      *)
Moves(h, g) ==
  g.running /\ g.task =>
    \/ /\ ~h.running \/ g.top.generation # h.top.generation
       /\ ~g.recovery => ~Alarmed(g)
    \/ /\ h.running /\ h.task
       /\ g.top.generation = h.top.generation
       /\ g.recovery = h.recovery
       /\ h.signalled => g.signalled

(* x is y but for the mark of the end that was heard.                      *)
Marks(y, x) ==
  /\ x \in Apps
  /\ x.running = y.running /\ x.enabled = y.enabled
  /\ x.task = y.task /\ x.recovery = y.recovery /\ x.purpose = y.purpose
  /\ x.signalled = y.signalled
  /\ x.coord = y.coord /\ x.top = y.top
  /\ x.permission = y.permission
  /\ x.safetyFailure = y.safetyFailure

(* The first of the two ends gives the generation up; the second one       *)
(* settles the end.                                                        *)
LEMMA EndMoves ==
  ASSUME NEW h, Settled(h), h.running, h.task, NEW y, Loses(h, y),
         NEW x, Marks(y, x), NEW w \in Views, NEW ok \in BOOLEAN
  PROVE  /\ Settled(FinalizeIfReady(x, w, ok))
         /\ Moves(h, FinalizeIfReady(x, w, ok))
<1> DEFINE g == FinalizeIfReady(x, w, ok)
<1>1. /\ Sane(x) /\ Evidence(x)
      /\ ~x.top.filter_verified
      /\ x.top.generation = h.top.generation
      /\ x.recovery = h.recovery
      /\ h.signalled => x.signalled
  BY DEF Marks, Loses, Watches, Sane, Seated, Evidence
<1>2. Ending(x)
  BY <1>1 DEF Ending, Settled, Loses, Watches, Observes, Marks, Pends
<1>3. g = x \/ Finishes(x, g)
  BY <1>2, FinalizeFinishes
<1> HIDE DEF g
<1>4. CASE g = x
  <2>1. Settled(x)
    BY <1>2 DEF Ending, Settled, Pends, AtRest
  <2>2. Moves(h, x)
    BY <1>1 DEF Moves
  <2> QED
    BY <1>4, <2>1, <2>2 DEF g
<1>5. CASE Finishes(x, g)
  BY <1>1, <1>5 DEF Finishes, Moves, g
<1> QED
  BY <1>3, <1>4, <1>5

(* The handler of the end of the output.                                   *)
LEMMA OutputEOFMoves ==
  ASSUME NEW h, Settled(h), h.running, h.task, NEW w \in Views,
         NEW partial \in BOOLEAN, NEW ok \in BOOLEAN
  PROVE  /\ Settled(OutputEOF(h, w, partial, ok))
         /\ Moves(h, OutputEOF(h, w, partial, ok))
<1> DEFINE latch == partial \/ EndIsUnexpected(h)
           y == InvalidateTopology(h, w, latch)
           x == [y EXCEPT !.eof = TRUE]
<1>1. latch \in BOOLEAN /\ Sane(h)
  BY DEF EndIsUnexpected, Settled
<1> HIDE DEF latch
<1>2. Loses(h, y)
  BY <1>1, InvalidateTopologyLoses
<1> HIDE DEF y
<1>3. Marks(y, x)
  BY <1>2 DEF Marks, Loses, Sane, Apps
<1>4. OutputEOF(h, w, partial, ok) = FinalizeIfReady(x, w, ok)
  BY DEF OutputEOF, x, y, latch
<1> HIDE DEF x
<1> QED
  BY <1>2, <1>3, <1>4, EndMoves

(* The handler of the end of the process.                                  *)
LEMMA TerminationMoves ==
  ASSUME NEW h, Settled(h), h.running, h.task, NEW w \in Views,
         NEW exit \in {"NONE", "CLEAN", "FAILED"}, NEW ok \in BOOLEAN
  PROVE  /\ Settled(Termination(h, w, exit, ok))
         /\ Moves(h, Termination(h, w, exit, ok))
<1> DEFINE latch == EndIsUnexpected(h)
           y == InvalidateTopology(h, w, latch)
           x == [y EXCEPT !.termination = exit]
<1>1. latch \in BOOLEAN /\ Sane(h)
  BY DEF EndIsUnexpected, Settled
<1> HIDE DEF latch
<1>2. Loses(h, y)
  BY <1>1, InvalidateTopologyLoses
<1> HIDE DEF y
<1>3. Marks(y, x)
  BY <1>2 DEF Marks, Loses, Sane, Apps
<1>4. Termination(h, w, exit, ok) = FinalizeIfReady(x, w, ok)
  BY DEF Termination, x, y, latch
<1> HIDE DEF x
<1> QED
  BY <1>2, <1>3, <1>4, EndMoves

-----------------------------------------------------------------------------
(* The handlers that listen on, or start a listener.                       *)

(* A listener that goes on is told to stop, or hears of no new alarm.      *)
Steady(h, g) ==
  h.running /\ g.running /\ g.task /\ ~g.recovery
    /\ g.top.generation = h.top.generation =>
    \/ g.signalled
    \/ ~Alarmed(h) => ~Alarmed(g) /\ g.top.snapshot = h.top.snapshot

(* What a handler does that is neither an event nor an end.                *)
Acts(h, g) == Settled(g) /\ Moves(h, g) /\ Steady(h, g)

(* A handler under way that has started no listener.                       *)
Underway(h, x) ==
  /\ Sane(x)
  /\ h.running /\ x.running
  /\ x.task = h.task /\ x.recovery = h.recovery
  /\ x.task => (x.recovery <=> x.top.recovery_mode)
  /\ x.top.generation = h.top.generation
  /\ h.signalled => x.signalled
  /\ AtRest(x.coord)
  /\ x.enabled <=> x.coord.enabled_intent
  /\ x.task => x.coord.status # "DISABLED"
  /\ Pends(x)
  /\ Named(x)
  /\ x.task =>
       \/ x.signalled
       \/ ~Alarmed(h) => ~Alarmed(x) /\ x.top.snapshot = h.top.snapshot

(* A handler may end when the evidence is in order.                        *)
LEMMA UnderwayActs ==
  ASSUME NEW h, NEW x, Underway(h, x), Evidence(x)
  PROVE  Acts(h, x)
BY DEF Underway, Acts, Settled, Moves, Steady, Pends, Named

(* A handler begins.                                                       *)
LEMMA SettledIsUnderway ==
  ASSUME NEW h, Settled(h), h.running
  PROVE  Underway(h, h)
BY DEF Underway, Settled, Pends, Named

(* The belief has changed but for the snapshot.                            *)
LEMMA ReadiesUnderway ==
  ASSUME NEW h, NEW x, Settled(h), h.running, Readies(h, x),
         x.top.snapshot = h.top.snapshot
  PROVE  Underway(h, x)
BY DEF Readies, Alike, Underway, Settled, Pends, Named, Alarmed

(* Neutral Entry is required anew.                                         *)
LEMMA NeutralEntryIsUnderway ==
  ASSUME NEW h, Settled(h), h.running
  PROVE  /\ Underway(h, NeutralEntryRequired(h))
         /\ NeutralEntryRequired(h).coord = h.coord
         /\ NeutralEntryRequired(h).safetyFailure = h.safetyFailure
<1> DEFINE t == RequireNeutralEntry(h.top)
           x == [h EXCEPT !.top = t]
<1>1. Sane(h) /\ Readies(h, h)
  BY ReadyIsItself DEF Settled
<1>2. Stays(h.top, t) /\ t.snapshot = h.top.snapshot
  BY <1>1, NeutralEntryRequiredStays DEF Sane
<1>3. x = NeutralEntryRequired(h)
  BY DEF NeutralEntryRequired
<1> HIDE DEF t
<1>4. Readies(h, x) /\ x.top = t
  BY <1>1, <1>2, BeliefReadies
<1> HIDE DEF x
<1>5. Underway(h, x)
  BY <1>2, <1>4, ReadiesUnderway
<1> QED
  BY <1>3, <1>4, <1>5 DEF Readies, Alike

(* The coordinator is called without a command.                            *)
LEMMA ObserveUnderway ==
  ASSUME NEW h, NEW x, Underway(h, x), NEW w \in Views
  PROVE  /\ Underway(h, Observe(x, w))
         /\ Noted(x, Observe(x, w))
         /\ Evidence(Observe(x, w))
<1> DEFINE g == Observe(x, w)
<1>1. Sane(x)
  BY DEF Underway
<1>2. Noted(x, g) /\ Firm(x, g) /\ (x.safetyFailure = "NONE" => Quiet(x, g))
  BY <1>1, ObserveNotes
<1> HIDE DEF g
<1>3. x.safetyFailure # "NONE" => g.coord.safety_latched
  BY <1>1, <1>2
  DEF Underway, Named, Firm, Sane, Coherent, VisibleLatch, Noted, Observes
<1>4. ~Alarmed(x) => ~Alarmed(g) /\ g.top.snapshot = x.top.snapshot
  BY <1>2 DEF Noted, Keeps, Quiet, Alarmed
<1>5. Underway(h, g)
  BY <1>2, <1>3, <1>4 DEF Underway, Noted, Keeps, Observes, Pends, Named
<1> QED
  BY <1>2, <1>5 DEF Noted, g

(* The handler ends with a start.                                          *)
LEMMA StartActs ==
  ASSUME NEW h, NEW x, Underway(h, x), Evidence(x), NEW w \in Views,
         NEW recovery \in BOOLEAN, NEW ok \in BOOLEAN,
         recovery => x.coord.status # "DISABLED"
  PROVE  Acts(h, Start(x, w, recovery, ok))
<1> DEFINE g == Start(x, w, recovery, ok)
<1>1. Starts(x, recovery, g)
  BY StartStarts DEF Underway
<1> HIDE DEF g
<1>2. CASE g = x
  BY <1>2, UnderwayActs DEF g
<1>3. CASE Begins(x, recovery, g)
  <2>1. x.coord.status # "DISABLED" /\ g.coord.status # "DISABLED"
    BY <1>1, <1>3 DEF Begins, Underway, Starts, Observes, AtRest
  <2>2. Named(g)
    BY <1>1, <1>3, <2>1 DEF Begins, Starts, Observes, Named, Firm
  <2>3. Settled(g)
    BY <1>1, <1>3, <2>1, <2>2
    DEF Settled, Starts, Observes, Begins, Underway, Pends, Named, AtRest
  <2>4. g.task /\ ~g.recovery => ~Alarmed(g)
    BY <1>3 DEF Begins, Underway, Named, Alarmed, Quiet
  <2>5. Acts(h, g)
    BY <1>3, <2>3, <2>4 DEF Acts, Moves, Steady, Begins, Underway
  <2> QED
    BY <2>5 DEF g
<1> QED
  BY <1>1, <1>2, <1>3 DEF Starts

(* A call of the coordinator may follow.                                   *)
LEMMA ObserveActs ==
  ASSUME NEW h, NEW x, Acts(h, x), NEW w \in Views
  PROVE  Acts(h, Observe(x, w))
<1> DEFINE g == Observe(x, w)
<1>1. Sane(x)
  BY DEF Acts, Settled
<1>2. Noted(x, g) /\ Firm(x, g) /\ (x.safetyFailure = "NONE" => Quiet(x, g))
  BY <1>1, ObserveNotes
<1> HIDE DEF g
<1>3. x.running /\ x.safetyFailure # "NONE" => g.coord.safety_latched
  BY <1>1, <1>2
  DEF Acts, Settled, Firm, Sane, Coherent, VisibleLatch, Noted, Observes
<1>4. ~Alarmed(x) => ~Alarmed(g) /\ g.top.snapshot = x.top.snapshot
  BY <1>2 DEF Noted, Keeps, Quiet, Alarmed
<1>5. Settled(g)
  BY <1>2, <1>3 DEF Acts, Settled, Noted, Keeps, Observes
<1>6. Moves(h, g) /\ Steady(h, g)
  BY <1>2, <1>4 DEF Acts, Moves, Steady, Noted, Keeps
<1> QED
  BY <1>5, <1>6 DEF Acts, g

(* The popover may be refreshed last.                                      *)
LEMMA RefreshActs ==
  ASSUME NEW h, NEW x, Acts(h, x), NEW w \in Views
  PROVE  Acts(h, RefreshIfShown(x, w))
BY ObserveActs DEF RefreshIfShown

(* Telling the listener to stop, with a purpose or without.                *)
LEMMA TerminateUnderway ==
  ASSUME NEW h, NEW x, Underway(h, x), NEW purpose \in Purposes,
         purpose = "DISABLE" => x.coord.disable_pending
  PROVE  /\ Underway(h, [Terminate(x) EXCEPT !.purpose = purpose])
         /\ Evidence(x) =>
              Evidence([Terminate(x) EXCEPT !.purpose = purpose])
<1> DEFINE y == [Terminate(x) EXCEPT !.purpose = purpose]
<1>1. x \in Apps
  BY DEF Underway, Sane
<1>2. /\ y \in Apps
      /\ y.top = x.top /\ y.coord = x.coord
      /\ y.running = x.running /\ y.enabled = x.enabled
      /\ y.task = x.task /\ y.recovery = x.recovery
      /\ y.purpose = purpose /\ y.signalled
      /\ y.permission = x.permission
      /\ y.safetyFailure = x.safetyFailure
      /\ y.sawSafetyLatch = x.sawSafetyLatch
  BY <1>1 DEF Terminate, Apps
<1> HIDE DEF y
<1>3. Underway(h, y) /\ (Evidence(x) => Evidence(y))
  BY <1>2 DEF Underway, Sane, Seated, Pends, Named, Evidence
<1> QED
  BY <1>3 DEF y

(* A call of the coordinator alone.                                        *)
LEMMA ObservationActs ==
  ASSUME NEW h, Settled(h), h.running, NEW w \in Views
  PROVE  Acts(h, Observe(h, w))
BY SettledIsUnderway, ObserveUnderway, UnderwayActs

(* The handler of a session that switches.                                 *)
LEMMA SessionDidChangeActs ==
  ASSUME NEW h, Settled(h), h.running, NEW w \in Views, NEW ok \in BOOLEAN
  PROVE  Acts(h, SessionDidChange(h, w, ok))
<1> DEFINE r == NeutralEntryRequired(h)
           s == [Terminate(r) EXCEPT !.purpose = "SESSION"]
           stops == ~w.session /\ h.task /\ ~h.recovery /\ h.purpose = "NONE"
           o == Observe(IF stops THEN s ELSE r, w)
           n == IF w.session THEN Start(o, w, FALSE, ok) ELSE o
           g == SessionDidChange(h, w, ok)
<1>1. Underway(h, r)
  BY NeutralEntryIsUnderway
<1>2. g = RefreshIfShown(n, w)
  BY DEF SessionDidChange
<1> HIDE DEF r, g
<1>3. Underway(h, s)
  BY <1>1, TerminateUnderway DEF Purposes
<1> HIDE DEF s, stops
<1>4. Underway(h, o) /\ Evidence(o)
  BY <1>1, <1>3, ObserveUnderway
<1> HIDE DEF o
<1>5. Acts(h, o)
  BY <1>4, UnderwayActs
<1>6. Acts(h, Start(o, w, FALSE, ok))
  BY <1>4, StartActs
<1>7. Acts(h, n)
  BY <1>5, <1>6
<1> HIDE DEF n
<1> QED
  BY <1>2, <1>7, RefreshActs DEF g

(* The Enable button.                                                      *)
LEMMA EnableActs ==
  ASSUME NEW h, Settled(h), h.running, CanEnable(h),
         NEW w \in Views, NEW ok \in BOOLEAN
  PROVE  Acts(h, Enable(h, w, ok))
<1> DEFINE x == [h EXCEPT !.enabled = TRUE]
           s == Start(x, w, FALSE, ok)
           g == Enable(h, w, ok)
<1>1. Sane(h) /\ Evidence(h) /\ h \in Apps /\ AtRest(h.coord)
      /\ ~h.coord.disable_pending /\ h.purpose # "DISABLE"
      /\ "ENABLE" \in Commands
  BY DEF Settled, Sane, CanEnable, Commands
<1>2. /\ x \in Apps
      /\ x.top = h.top /\ x.coord = h.coord
      /\ x.running = h.running /\ x.enabled
      /\ x.task = h.task /\ x.recovery = h.recovery
      /\ x.purpose = h.purpose /\ x.signalled = h.signalled
      /\ x.permission = h.permission
      /\ x.safetyFailure = h.safetyFailure
      /\ x.sawSafetyLatch = h.sawSafetyLatch
  BY <1>1 DEF Apps
<1> HIDE DEF x
<1>3. Sane(x) /\ Evidence(x)
  BY <1>1, <1>2 DEF Sane, Seated, Evidence
<1>4. Starts(x, FALSE, s)
  BY <1>3, StartStarts
<1>5. g = Command(s, w, "ENABLE", TRUE, s.safetyFailure)
  BY DEF Enable, Update, s, x
<1> HIDE DEF s, g
<1>6. /\ s.safetyFailure \in SafetyFailures /\ ~s.coord.disable_pending
      /\ AtRest(s.coord)
  BY <1>1, <1>2, <1>4 DEF Starts, Sane, Apps, Observes
<1>7. Told(s, "ENABLE", TRUE /\ s.safetyFailure = "NONE", s.safetyFailure, g)
  BY <1>1, <1>4, <1>5, <1>6, CommandTells DEF Starts
<1>8. /\ g.coord.enabled_intent /\ g.coord.status # "DISABLED"
      /\ AtRest(g.coord)
      /\ g.safetyFailure # "NONE" => g.coord.safety_latched
      /\ s.safetyFailure = "NONE" =>
           (g.coord.safety_latched => s.coord.safety_latched)
      /\ g.running = s.running /\ g.enabled /\ g.task = s.task
      /\ g.recovery = s.recovery /\ g.purpose # "DISABLE"
      /\ g.signalled = s.signalled /\ g.top = s.top
      /\ g.safetyFailure = s.safetyFailure
      /\ g.sawSafetyLatch = s.sawSafetyLatch
      /\ g.running
  BY <1>1, <1>2, <1>4, <1>6, <1>7 DEF Told, Heeds, Keeps, Starts, AtRest
<1>9. Sane(g) /\ Evidence(g)
  BY <1>7 DEF Told
<1>10. CASE s = x
  <2>1. Settled(g)
    BY <1>2, <1>8, <1>9, <1>10 DEF Settled
  <2>2. ~Alarmed(h) => ~Alarmed(g)
    BY <1>2, <1>8, <1>10 DEF Alarmed
  <2>3. Moves(h, g) /\ Steady(h, g)
    BY <1>2, <1>8, <1>10, <2>2 DEF Moves, Steady
  <2> QED
    BY <2>1, <2>3 DEF Acts, g
<1>11. CASE Begins(x, FALSE, s)
  <2>1. Settled(g)
    BY <1>8, <1>9, <1>11 DEF Settled, Begins
  <2>2. g.task => ~Alarmed(g)
    BY <1>2, <1>8, <1>11 DEF Begins, Alarmed, Quiet, Settled
  <2>3. Moves(h, g) /\ Steady(h, g)
    BY <1>2, <1>8, <1>11, <2>2 DEF Moves, Steady, Begins
  <2> QED
    BY <2>1, <2>3 DEF Acts, g
<1> QED
  BY <1>4, <1>10, <1>11 DEF Starts

(* The Disable button.                                                     *)
LEMMA DisableActs ==
  ASSUME NEW h, Settled(h), h.running, NEW w \in Views
  PROVE  Acts(h, Disable(h, w))
<1> DEFINE off == [h EXCEPT !.enabled = FALSE]
           p == [off EXCEPT !.purpose = "DISABLE"]
           u == Unverified(p, w, "DISABLE")
           t == Terminate(u)
           verified == /\ ~h.coord.safety_latched
                       /\ ~h.coord.disable_pending
                       /\ ~h.everStarted \/ h.cleanupKnown
           v == Verified(off, w, "DISABLE")
           failure == IF h.safetyFailure = "NONE"
                      THEN "DEVICE_UNCERTAIN" ELSE h.safetyFailure
           c == Command(off, w, "DISABLE", FALSE, failure)
           d == IF h.task THEN t ELSE IF verified THEN v ELSE c
<1>1. Sane(h) /\ h \in Apps /\ AtRest(h.coord)
      /\ "DISABLE" \in Commands /\ "DISABLE" \in Commands \ {"ENABLE"}
      /\ "DISABLE" \in Purposes
  BY DEF Settled, Sane, Commands, Purposes
<1>2. /\ off \in Apps
      /\ off.top = h.top /\ off.coord = h.coord
      /\ off.running = h.running /\ ~off.enabled
      /\ off.task = h.task /\ off.recovery = h.recovery
      /\ off.purpose = h.purpose /\ off.signalled = h.signalled
      /\ off.safetyFailure = h.safetyFailure
  BY <1>1 DEF Apps
<1>3. Disable(h, w) = Observe(d, w)
  BY DEF Disable, d, off, p, u, t, verified, v, failure, c
<1>4. failure \in SafetyFailures /\ failure # "NONE"
  BY <1>1 DEF Apps, SafetyFailures
<1> HIDE DEF off, failure
<1>5. Sane(off)
  BY <1>1, <1>2 DEF Sane, Seated
<1>6. h.task => Underway(h, t)
  <2>1. /\ p \in Apps
        /\ p.top = off.top /\ p.coord = off.coord
        /\ p.running = off.running /\ ~p.enabled
        /\ p.task = off.task /\ p.recovery = off.recovery
        /\ p.purpose = "DISABLE" /\ p.signalled = off.signalled
    BY <1>1, <1>2 DEF Apps
  <2> HIDE DEF p
  <2>2. Sane(p)
    BY <1>5, <2>1 DEF Sane, Seated
  <2>3. Told(p, "DISABLE", FALSE, p.safetyFailure, u)
    BY <1>1, <2>2, UnverifiedTells
  <2> HIDE DEF u
  <2>4. u \in Apps
    BY <2>3 DEF Told, Sane
  <2>5. /\ t \in Apps
        /\ t.top = u.top /\ t.coord = u.coord
        /\ t.running = u.running /\ t.enabled = u.enabled
        /\ t.task = u.task /\ t.recovery = u.recovery
        /\ t.purpose = u.purpose /\ t.signalled
    BY <2>4 DEF Terminate, Apps
  <2> HIDE DEF t
  <2>6. /\ u.coord.safety_latched /\ u.coord.disable_pending
        /\ u.coord.status # "DISABLED" /\ ~u.coord.enabled_intent
    BY <2>3 DEF Told, Heeds, Sane, Coherent, VisibleLatch
  <2>7. Sane(t)
    BY <2>3, <2>5 DEF Told, Sane, Seated
  <2>8. h.task => Underway(h, t)
    BY <1>2, <2>1, <2>3, <2>5, <2>6, <2>7
    DEF Underway, Told, Keeps, Pends, Named, AtRest, Settled
  <2> QED
    BY <2>8
<1>7. ~h.task /\ verified => Underway(h, v)
  <2>1. /\ Sane(v)
        /\ Heeds(off.coord, "DISABLE", TRUE, "NONE", v.coord)
        /\ v.running = off.running /\ v.enabled = off.enabled
        /\ v.task = off.task /\ v.recovery = off.recovery
        /\ v.purpose = off.purpose /\ v.top = off.top
        /\ v.signalled = off.signalled
        /\ v.safetyFailure = "NONE"
    BY <1>1, <1>5, VerifiedTells
  <2> HIDE DEF v
  <2>2. AtRest(v.coord) /\ ~v.coord.enabled_intent
        /\ (v.coord.safety_latched => h.coord.safety_latched)
    BY <1>1, <1>2, <2>1 DEF Heeds
  <2>3. verified => h.purpose # "DISABLE"
    BY DEF Settled
  <2>4. ~h.task /\ verified => Underway(h, v)
    BY <1>2, <2>1, <2>2, <2>3 DEF Underway, Pends, Named
  <2> QED
    BY <2>4 DEF v
<1>8. ~h.task => Underway(h, c)
  <2>1. Told(off, "DISABLE", FALSE /\ failure = "NONE", failure, c)
    BY <1>1, <1>4, <1>5, CommandTells
  <2> HIDE DEF c
  <2>2. /\ c.coord.safety_latched /\ c.coord.disable_pending
        /\ AtRest(c.coord) /\ ~c.coord.enabled_intent
    BY <1>1, <1>2, <2>1 DEF Told, Heeds
  <2>3. ~h.task => Underway(h, c)
    BY <1>2, <2>1, <2>2 DEF Underway, Told, Keeps, Pends, Named
  <2> QED
    BY <2>3 DEF c
<1> HIDE DEF t, v, c
<1>9. Underway(h, d)
  BY <1>6, <1>7, <1>8
<1> HIDE DEF d
<1>10. Acts(h, Observe(d, w))
  BY <1>9, ObserveUnderway, UnderwayActs
<1> QED
  BY <1>3, <1>10

(* The choice of another profile.                                          *)
LEMMA ChangeProfileActs ==
  ASSUME NEW h, Settled(h), h.running, NEW w \in Views, NEW ok \in BOOLEAN
  PROVE  Acts(h, ChangeProfile(h, w, ok))
<1> DEFINE r == NeutralEntryRequired(h)
           o == Observe(r, w)
           t == [Terminate(o) EXCEPT !.purpose = "PROFILE"]
           s == Start(o, w, FALSE, ok)
           n == IF h.task THEN t ELSE s
<1>1. ChangeProfile(h, w, ok) = Observe(n, w)
  BY DEF ChangeProfile
<1>2. Underway(h, r)
  BY NeutralEntryIsUnderway
<1> HIDE DEF r
<1>3. Underway(h, o) /\ Evidence(o)
  BY <1>2, ObserveUnderway
<1> HIDE DEF o
<1>4. Underway(h, t) /\ Evidence(t)
  BY <1>3, TerminateUnderway DEF Purposes
<1> HIDE DEF t
<1>5. Acts(h, t)
  BY <1>4, UnderwayActs
<1>6. Acts(h, s)
  BY <1>3, StartActs
<1> HIDE DEF s
<1>7. Acts(h, n)
  BY <1>5, <1>6
<1> HIDE DEF n
<1> QED
  BY <1>1, <1>7, ObserveActs

(* A purpose is noted before the listener is told to stop.                 *)
LEMMA PurposeUnderway ==
  ASSUME NEW h, NEW x, Underway(h, x), Evidence(x), NEW purpose \in Purposes,
         purpose = "DISABLE" => x.coord.disable_pending
  PROVE  LET y == [x EXCEPT !.purpose = purpose] IN
         /\ Underway(h, y) /\ Evidence(y)
         /\ y.coord = x.coord
         /\ Terminate(y) = [Terminate(x) EXCEPT !.purpose = purpose]
<1> DEFINE y == [x EXCEPT !.purpose = purpose]
<1>1. x \in Apps
  BY DEF Underway, Sane
<1>2. /\ y \in Apps
      /\ y.top = x.top /\ y.coord = x.coord
      /\ y.running = x.running /\ y.enabled = x.enabled
      /\ y.task = x.task /\ y.recovery = x.recovery
      /\ y.purpose = purpose
      /\ y.signalled = x.signalled
      /\ y.permission = x.permission
      /\ y.safetyFailure = x.safetyFailure
      /\ y.sawSafetyLatch = x.sawSafetyLatch
  BY <1>1 DEF Apps
<1>3. Terminate(y) = [Terminate(x) EXCEPT !.purpose = purpose]
  BY <1>1 DEF Terminate, Apps
<1> HIDE DEF y
<1>4. Sane(y) /\ Evidence(y)
  BY <1>2 DEF Underway, Sane, Seated, Evidence
<1>5. Alarmed(x) <=> Alarmed(y)
  BY <1>2 DEF Alarmed
<1>6. Underway(h, y)
  BY <1>2, <1>4, <1>5 DEF Underway, Pends, Named
<1> QED
  BY <1>2, <1>3, <1>4, <1>6 DEF y

(* The Retry button.                                                       *)
LEMMA RetryActs ==
  ASSUME NEW h, Settled(h), h.running, NEW w \in Views, NEW ok \in BOOLEAN
  PROVE  Acts(h, Retry(h, w, ok))
<1> DEFINE held == h.coord.disable_pending \/ h.coord.safety_latched
           purpose == IF h.coord.disable_pending THEN "DISABLE" ELSE "RETRY"
           asked == [h EXCEPT !.purpose = purpose]
           t == Terminate(asked)
           s == Start(asked, w, TRUE, ok)
           n == IF h.task THEN t ELSE s
           r == NeutralEntryRequired(h)
           u == Update(r, w, "RETRY")
           v == Start(u, w, FALSE, ok)
<1>1. Retry(h, w, ok) = IF held THEN Observe(n, w) ELSE v
  BY DEF Retry
<1>2. Sane(h) /\ Evidence(h) /\ Underway(h, h) /\ purpose \in Purposes
      /\ (purpose = "DISABLE" => h.coord.disable_pending)
      /\ "RETRY" \in Commands /\ "RETRY" # "ENABLE"
  BY SettledIsUnderway DEF Settled, Purposes, Commands
<1> HIDE DEF purpose
<1>3. Underway(h, asked) /\ Evidence(asked) /\ asked.coord = h.coord
      /\ t = [Terminate(h) EXCEPT !.purpose = purpose]
  BY <1>2, PurposeUnderway
<1> HIDE DEF asked
<1>4. Underway(h, t) /\ Evidence(t)
  BY <1>2, <1>3, TerminateUnderway
<1> HIDE DEF t
<1>5. held => h.coord.status # "DISABLED"
  BY <1>2 DEF Sane, Coherent, VisibleLatch, HeldDisable
<1>6. held => Acts(h, s)
  BY <1>3, <1>5, StartActs
<1>7. Acts(h, t)
  BY <1>4, UnderwayActs
<1> HIDE DEF s
<1>8. held => Acts(h, n)
  BY <1>6, <1>7
<1> HIDE DEF n
<1>9. held => Acts(h, Observe(n, w))
  BY <1>8, ObserveActs
<1>10. ~held => Acts(h, v)
  <2> SUFFICES ASSUME ~held PROVE Acts(h, v)
    OBVIOUS
  <2>1. Underway(h, r) /\ Sane(r) /\ r.safetyFailure \in SafetyFailures
        /\ r.coord = h.coord
    BY NeutralEntryIsUnderway DEF Underway, Sane, Apps
  <2>2. u = Command(r, w, "RETRY", TRUE, r.safetyFailure)
    BY DEF Update
  <2> HIDE DEF r, u
  <2>3. Told(r, "RETRY", TRUE /\ r.safetyFailure = "NONE", r.safetyFailure, u)
    BY <1>2, <2>1, <2>2, CommandTells
  <2>4. Heeds(r.coord, "RETRY", r.safetyFailure = "NONE", r.safetyFailure, u.coord)
        /\ Keeps(r, u) /\ Sane(u) /\ Evidence(u)
    BY <2>3 DEF Told
  <2>5. u.safetyFailure # "NONE" => u.coord.safety_latched
    BY <2>1, <2>4 DEF Keeps, Heeds, Underway, Named, AtRest, Settled
  <2>6. u.safetyFailure = "NONE" => ~u.coord.safety_latched
    BY <2>1, <2>4 DEF Keeps, Heeds
  <2>7. ~Alarmed(r) => ~Alarmed(u) /\ u.top.snapshot = r.top.snapshot
    BY <2>4, <2>6 DEF Keeps, Alarmed
  <2>8. /\ AtRest(u.coord)
        /\ u.enabled <=> u.coord.enabled_intent
        /\ u.task => u.coord.status # "DISABLED"
        /\ ~(u.purpose = "DISABLE")
    BY <2>1, <2>4 DEF Keeps, Heeds, Underway, Pends
  <2>9. Underway(h, u)
    BY <2>1, <2>4, <2>5, <2>7, <2>8 DEF Keeps, Underway, Pends, Named
  <2> QED
    BY <2>4, <2>9, StartActs
<1> HIDE DEF held, v
<1> QED
  BY <1>1, <1>9, <1>10

(* Quit, confirmed or not.                                                 *)
LEMMA QuitActs ==
  ASSUME NEW h, Settled(h), h.running, NEW w \in Views,
         NEW confirmed \in BOOLEAN
  PROVE  Acts(h, Quit(h, w, confirmed))
<1> DEFINE held == h.coord.safety_latched \/ h.coord.disable_pending
           gone == [h EXCEPT !.running = FALSE]
           o == Observe(h, w)
           p == [[h EXCEPT !.quitInFlight = TRUE] EXCEPT !.purpose = "QUIT"]
           u == Unverified(p, w, "QUIT")
           t == Terminate(u)
           c == Command(h, w, "QUIT", TRUE, "NONE")
           a == IF c.coord.quit_allowed THEN SafeQuit(c) ELSE c
<1>1. Quit(h, w, confirmed) =
        IF held THEN IF confirmed THEN gone ELSE o
        ELSE IF h.task THEN t
        ELSE IF h.everStarted /\ ~h.cleanupKnown THEN h ELSE a
  BY DEF Quit
<1>2. Sane(h) /\ Evidence(h) /\ h \in Apps /\ "NONE" \in SafetyFailures
      /\ "QUIT" \in Commands /\ "QUIT" \in Commands \ {"ENABLE"}
      /\ "QUIT" \in Purposes
  BY DEF Settled, Sane, Commands, SafetyFailures, Purposes
<1>3. Acts(h, gone)
  <2>1. /\ gone \in Apps /\ ~gone.running
        /\ gone.top = h.top /\ gone.coord = h.coord
        /\ gone.task = h.task /\ gone.recovery = h.recovery
        /\ gone.permission = h.permission
    BY <1>2 DEF Apps
  <2> HIDE DEF gone
  <2>2. Acts(h, gone)
    BY <2>1 DEF Acts, Settled, Sane, Seated, Evidence, Moves, Steady
  <2> QED
    BY <2>2 DEF gone
<1>4. Acts(h, o)
  BY ObservationActs
<1>5. Acts(h, h)
  BY <1>2, SettledIsUnderway, UnderwayActs
<1>6. ~held /\ h.task => Acts(h, t)
  <2>1. /\ p \in Apps
        /\ p.top = h.top /\ p.coord = h.coord
        /\ p.running = h.running /\ p.enabled = h.enabled
        /\ p.task = h.task /\ p.recovery = h.recovery
        /\ p.purpose = "QUIT" /\ p.signalled = h.signalled
        /\ p.safetyFailure = h.safetyFailure
    BY <1>2 DEF Apps
  <2> HIDE DEF p
  <2>2. Sane(p)
    BY <1>2, <2>1 DEF Sane, Seated
  <2>3. Told(p, "QUIT", FALSE, p.safetyFailure, u)
    BY <1>2, <2>2, UnverifiedTells
  <2> HIDE DEF u
  <2>4. u \in Apps
    BY <2>3 DEF Told, Sane
  <2>5. /\ t \in Apps
        /\ t.top = u.top /\ t.coord = u.coord
        /\ t.running = u.running /\ t.enabled = u.enabled
        /\ t.task = u.task /\ t.recovery = u.recovery
        /\ t.purpose = u.purpose /\ t.signalled
        /\ t.permission = u.permission
        /\ t.safetyFailure = u.safetyFailure
    BY <2>4 DEF Terminate, Apps
  <2> HIDE DEF t
  <2>6. Sane(t) /\ Evidence(t)
    BY <2>3, <2>5 DEF Told, Sane, Seated, Evidence
  <2>7. h.task => /\ AtRest(u.coord)
                  /\ u.coord.status # "DISABLED"
                  /\ u.enabled <=> u.coord.enabled_intent
                  /\ u.safetyFailure # "NONE" => u.coord.safety_latched
    BY <2>1, <2>3 DEF Told, Heeds, Keeps, Settled
  <2>8. h.task => Underway(h, t)
    BY <2>1, <2>3, <2>5, <2>6, <2>7
    DEF Underway, Told, Keeps, Pends, Named, Settled
  <2>9. h.task => Acts(h, t)
    BY <2>6, <2>8, UnderwayActs
  <2> QED
    BY <2>9 DEF t, u, p
<1>7. ~held => Acts(h, a)
  <2>1. Told(h, "QUIT", TRUE /\ "NONE" = "NONE", "NONE", c)
    BY <1>2, CommandTells
  <2>2. Told(h, "QUIT", TRUE, "NONE", c)
    BY <2>1
  <2> HIDE DEF c
  <2>3. ~held => c.coord.quit_allowed
    BY <2>2 DEF Told, Heeds
  <2>4. Sane(c) /\ Evidence(c) /\ c.recovery = h.recovery /\ c.task = h.task
        /\ c.top = h.top
    BY <2>2 DEF Told, Keeps
  <2> DEFINE q == SafeQuit(c)
  <2>5. /\ Sane(q) /\ Evidence(q) /\ ~q.running /\ q.task = c.task
    BY <2>4, AnswersAreSane
  <2>6. q.recovery = c.recovery /\ q.top = c.top
    BY <2>4 DEF SafeQuit, Sane, Apps
  <2> HIDE DEF q
  <2>7. Acts(h, q)
    BY <2>4, <2>5, <2>6 DEF Acts, Settled, Moves, Steady
  <2> QED
    BY <2>3, <2>7 DEF q
<1> HIDE DEF held, gone, o, t, a
<1> QED
  BY <1>1, <1>3, <1>4, <1>5, <1>6, <1>7

(* The delegate that has loaded what the last run saved.                   *)
Loaded(enabled, pending, failure) ==
  [InitialApp EXCEPT !.running       = TRUE,
                     !.enabled       = enabled,
                     !.savedPending  = pending,
                     !.savedSafe     = FALSE,
                     !.safetyFailure = failure]

(* The delegate before it is launched.                                     *)
LEMMA InitialAppTyped ==
  /\ InitialApp \in Apps
  /\ InitialApp.coord = InitialState /\ InitialApp.top = InitialBelief
  /\ ~InitialApp.running /\ ~InitialApp.task /\ InitialApp.purpose = "NONE"
  /\ Coherent(InitialState) /\ Standing(InitialState)
  /\ Believes(InitialBelief) /\ ~InitialBelief.filter_verified
<1>1. InitialState \in CoordinatorStates /\ Coherent(InitialState)
      /\ Standing(InitialState)
  BY DEF InitialState, CoordinatorStates, Statuses, InactiveReasons,
     SafetyFailures, Coherent, GatedDispatch, VisibleLatch, OwnedLatch,
     HeldDisable, Standing
<1>2. Believes(InitialBelief) /\ ~InitialBelief.filter_verified
  BY DEF InitialBelief, UnknownSnapshot, Snapshots, ConnectionStates, Believes,
     Grounded, Beliefs, SafetyFailures
<1>3. InitialApp \in Apps
  BY <1>1, <1>2 DEF Believes, InitialApp, Apps, Purposes, SafetyFailures, Gates
<1> QED
  BY <1>1, <1>2, <1>3 DEF InitialApp

(* The delegate once it has read its saved intent.                         *)
LEMMA LoadedIsSane ==
  ASSUME NEW enabled \in BOOLEAN, NEW pending \in BOOLEAN,
         NEW failure \in SafetyFailures,
         NEW l, l = Loaded(enabled, pending, failure)
  PROVE  /\ Sane(l) /\ Evidence(l)
         /\ l.running /\ l.enabled = enabled /\ ~l.task
         /\ l.purpose = "NONE" /\ l.safetyFailure = failure
         /\ l.coord = InitialState
<1>1. /\ l \in Apps
      /\ l.running /\ l.enabled = enabled /\ ~l.task
      /\ l.purpose = "NONE" /\ l.safetyFailure = failure
      /\ l.coord = InitialState /\ l.top = InitialBelief
  BY InitialAppTyped DEF Apps, Loaded
<1>2. ~l.coord.request_dispatch
  BY <1>1 DEF InitialState
<1> QED
  BY <1>1, <1>2, InitialAppTyped DEF Sane, Seated, Evidence

(* The launch: a saved pending Disable, or a marker that the last run did  *)
(* not end safely, goes to recovery.                                       *)
LEMMA LaunchActs ==
  ASSUME NEW h \in Apps, ~h.running, NEW w \in Views, NEW ok \in BOOLEAN
  PROVE  Settled(Launch(h, w, ok)) /\ Moves(h, Launch(h, w, ok))
<1> DEFINE failure == IF ~h.savedSafe /\ (h.enabled \/ h.savedPending)
                      THEN "UNCLEAN_EXIT"
                      ELSE IF h.savedPending THEN "DEVICE_UNCERTAIN" ELSE "NONE"
           l == Loaded(h.enabled, h.savedPending, failure)
           e == Update(l, w, "ENABLE")
           d == Unverified(l, w, "DISABLE")
           r == IF h.enabled THEN e ELSE IF h.savedPending THEN d ELSE l
           o == Observe(r, w)
           g == Launch(h, w, ok)
<1>1. g = Start(o, w, FALSE, ok)
  BY DEF Launch, Loaded
<1>2. /\ h.enabled \in BOOLEAN /\ h.savedPending \in BOOLEAN
      /\ failure \in SafetyFailures
      /\ h.savedPending => failure # "NONE"
      /\ ~h.enabled /\ ~h.savedPending => failure = "NONE"
      /\ "ENABLE" \in Commands /\ "DISABLE" \in Commands \ {"ENABLE"}
  BY DEF Apps, SafetyFailures, Commands
<1> HIDE DEF failure, g
<1>3. /\ Sane(l) /\ Evidence(l)
      /\ l.running /\ l.enabled = h.enabled /\ ~l.task
      /\ l.purpose = "NONE" /\ l.safetyFailure = failure
      /\ l.coord = InitialState
  BY <1>2, LoadedIsSane
<1> HIDE DEF l
<1>4. AtRest(l.coord) /\ ~l.coord.enabled_intent /\ ~l.coord.disable_pending
      /\ ~l.coord.safety_latched
  BY <1>3 DEF InitialState, AtRest
<1>5. e = Command(l, w, "ENABLE", TRUE, failure)
  BY <1>3 DEF Update
<1> HIDE DEF e
<1>6. Told(l, "ENABLE", TRUE /\ failure = "NONE", failure, e)
  BY <1>2, <1>3, <1>4, <1>5, CommandTells
<1>7. h.enabled => Settled(e) /\ e.running /\ ~e.task
  BY <1>3, <1>4, <1>6 DEF Told, Keeps, Heeds, Settled
<1>8. Told(l, "DISABLE", FALSE, l.safetyFailure, d)
  BY <1>2, <1>3, UnverifiedTells
<1> HIDE DEF d
<1>9. ~h.enabled => Settled(d) /\ d.running /\ ~d.task
  BY <1>3, <1>4, <1>8 DEF Told, Keeps, Heeds, Settled
<1>10. ~h.enabled /\ ~h.savedPending => Settled(l)
  BY <1>2, <1>3, <1>4 DEF Settled
<1>11. Settled(r) /\ r.running /\ ~r.task
  BY <1>3, <1>7, <1>9, <1>10
<1> HIDE DEF r
<1>12. Underway(r, o) /\ Evidence(o)
  BY <1>11, SettledIsUnderway, ObserveUnderway
<1> HIDE DEF o
<1>13. Acts(r, g)
  BY <1>1, <1>12, StartActs
<1>14. Settled(g) /\ Moves(h, g)
  BY <1>11, <1>13 DEF Acts, Moves
<1> QED
  BY <1>14 DEF g

-----------------------------------------------------------------------------
(* The pipe.                                                               *)

(* What the prover needs to know of a concatenation.                       *)
LEMMA SequencesJoin ==
  ASSUME NEW S, NEW q \in Seq(S), NEW l \in Seq(S)
  PROVE  /\ q \o l \in Seq(S)
         /\ Len(q \o l) = Len(q) + Len(l)
         /\ \A i \in 1..Len(q) : (q \o l)[i] = q[i]
         /\ \A i \in 1..Len(l) : (q \o l)[Len(q) + i] = l[i]
         /\ Len(q) \in Nat /\ Len(l) \in Nat
OBVIOUS

(* Every line the listener writes is an event.                             *)
LEMMA LinesAreEvents ==
  /\ \A s \in Sights : Topology(s) \in Events
  /\ \A gates \in SUBSET Gates :
       /\ TccStatus(gates) \in Events
       /\ PermissionsChanged(gates) \in Events
       /\ PermissionRequired(gates) \in Events
  /\ \A b \in BOOLEAN : Focus(b) \in Events /\ Neutral(b) \in Events
  /\ \A why \in SafetyFailures : SafetyLatch(why) \in Events
  /\ FilterApplied \in Events /\ FilterRestored \in Events /\ Ready \in Events
  /\ \A c \in Children : Stopped(c) \in Events
<1>1. \A s \in Sights : Topology(s) \in Events
  BY DEF Topology, Events
<1>2. \A gates \in SUBSET Gates :
        TccStatus(gates) \in Events /\ PermissionsChanged(gates) \in Events
  BY DEF TccStatus, PermissionsChanged, Events
<1>3. \A gates \in SUBSET Gates : PermissionRequired(gates) \in Events
  BY DEF PermissionRequired, Events, Gates
<1>4. \A b \in BOOLEAN : Focus(b) \in Events /\ Neutral(b) \in Events
  BY DEF Focus, Neutral, Events
<1>5. \A why \in SafetyFailures : SafetyLatch(why) \in Events
  BY DEF SafetyLatch, Events
<1>6. FilterApplied \in Events /\ FilterRestored \in Events /\ Ready \in Events
  BY DEF FilterApplied, FilterRestored, Ready, Events
<1>7. \A c \in Children : Stopped(c) \in Events
  BY DEF Stopped, Events, Children
<1> QED
  BY <1>1, <1>2, <1>3, <1>4, <1>5, <1>6, <1>7

(* What is in force at a place of the pipe depends on what is before it.   *)
LEMMA SightedInPrefix ==
  ASSUME NEW S, NEW q \in Seq(S), NEW l \in Seq(S), NEW s,
         NEW i \in 1..(Len(q) + 1), SightedIn(s, q, i)
  PROVE  SightedIn(s, q \o l, i)
<1>1. PICK j \in 0..(i - 1) :
        /\ IF j = 0 THEN s.state = "SINGLE"
           ELSE q[j].event = "topology" /\ q[j].snapshot.state = "SINGLE"
        /\ \A k \in (j + 1)..(i - 1) : q[k].event # "topology"
  BY DEF SightedIn
<1>2. \A k \in 1..(i - 1) : (q \o l)[k] = q[k]
  BY SequencesJoin
<1> QED
  BY <1>1, <1>2 DEF SightedIn

(* Line e may follow: it troubles nobody, and it says the filter is on only*)
(* while that is wanted.                                                   *)
Admits(wanted, e, next) ==
  /\ e.event \notin Troubles
  /\ e.event = "filter_applied" => wanted
  /\ next => IF e.event = "topology" THEN e.snapshot.state = "SINGLE"
             ELSE wanted

(* One more line.                                                          *)
LEMMA LineIsFaithful ==
  ASSUME NEW q \in Seq(Events), NEW e \in Events, NEW s,
         NEW wanted, NEW next, Faithful(s, q, wanted), Admits(wanted, e, next)
  PROVE  Faithful(s, q \o <<e>>, next)
<1> DEFINE p == q \o <<e>>
<1>1. /\ <<e>> \in Seq(Events) /\ Len(<<e>>) = 1 /\ <<e>>[1] = e
      /\ Len(q) \in Nat
  OBVIOUS
<1>2. /\ Len(p) = Len(q) + 1 /\ p[Len(q) + 1] = e
      /\ \A i \in 1..Len(q) : p[i] = q[i]
  BY <1>1, SequencesJoin
<1>3. \A i \in 1..(Len(q) + 1) : SightedIn(s, q, i) => SightedIn(s, p, i)
  BY <1>1, SightedInPrefix
<1> HIDE DEF p
<1>4. Clear(s, p)
  <2> SUFFICES ASSUME NEW i \in 1..Len(p)
               PROVE  /\ p[i].event \notin Troubles
                      /\ p[i].event = "filter_applied" => SightedIn(s, p, i)
    BY DEF Clear
  <2>1. CASE i \in 1..Len(q)
    BY <2>1, <1>1, <1>2, <1>3 DEF Faithful, Clear
  <2>2. CASE i = Len(q) + 1
    BY <2>2, <1>1, <1>2, <1>3 DEF Faithful, Admits
  <2> QED
    BY <2>1, <2>2, <1>1, <1>2
<1>5. ASSUME next PROVE SightedIn(s, p, Len(p) + 1)
  <2>1. CASE e.event = "topology"
    <3>1. e.snapshot.state = "SINGLE"
      BY <1>5, <2>1 DEF Admits
    <3>2. /\ Len(q) + 1 \in 0..(Len(p) + 1 - 1) /\ Len(q) + 1 # 0
          /\ (Len(q) + 1 + 1)..(Len(p) + 1 - 1) = {}
      BY <1>1, <1>2
    <3> QED
      BY <1>2, <2>1, <3>1, <3>2 DEF SightedIn
  <2>2. CASE e.event # "topology"
    <3>1. SightedIn(s, p, Len(q) + 1)
      BY <1>5, <2>2, <1>1, <1>3 DEF Admits, Faithful
    <3>2. PICK j \in 0..Len(q) :
            /\ IF j = 0 THEN s.state = "SINGLE"
               ELSE p[j].event = "topology" /\ p[j].snapshot.state = "SINGLE"
            /\ \A k \in (j + 1)..Len(q) : p[k].event # "topology"
      BY <1>1, <3>1 DEF SightedIn
    <3>3. \A k \in (j + 1)..(Len(q) + 1) : p[k].event # "topology"
      BY <1>1, <1>2, <2>2, <3>2
    <3>4. j \in 0..(Len(p) + 1 - 1) /\ Len(p) + 1 - 1 = Len(q) + 1
      BY <1>1, <1>2
    <3> QED
      BY <3>2, <3>3, <3>4 DEF SightedIn
  <2> QED
    BY <2>1, <2>2
<1>6. Faithful(s, p, next)
  BY <1>4, <1>5 DEF Faithful
<1> QED
  BY <1>6 DEF p

(* Two lines in one write.                                                 *)
LEMMA LinesJoin ==
  ASSUME NEW e \in Events, NEW f \in Events
  PROVE  <<e>> \o <<f>> = <<e, f>>
<1>1. /\ <<e>> \in Seq(Events) /\ Len(<<e>>) = 1 /\ <<e>>[1] = e
      /\ <<f>> \in Seq(Events) /\ Len(<<f>>) = 1 /\ <<f>>[1] = f
      /\ <<e, f>> \in Seq(Events) /\ Len(<<e, f>>) = 2
      /\ <<e, f>>[1] = e /\ <<e, f>>[2] = f
  OBVIOUS
<1> DEFINE p == <<e>> \o <<f>>
<1>2. p \in Seq(Events) /\ Len(p) = 2 /\ p[1] = e /\ p[2] = f
  BY <1>1, SequencesJoin
<1> HIDE DEF p
<1>3. p = <<e, f>>
  BY <1>1, <1>2, SeqEqual
<1> QED
  BY <1>3 DEF p

(* Two more lines.                                                         *)
LEMMA TwoLinesAreFaithful ==
  ASSUME NEW q \in Seq(Events), NEW e \in Events, NEW f \in Events, NEW s,
         NEW wanted, NEW middle, NEW next, Faithful(s, q, wanted),
         Admits(wanted, e, middle), Admits(middle, f, next)
  PROVE  Faithful(s, q \o <<e, f>>, next)
<1>1. Faithful(s, q \o <<e>>, middle)
  BY LineIsFaithful
<1>2. <<e>> \in Seq(Events) /\ <<f>> \in Seq(Events) /\ q \o <<e>> \in Seq(Events)
  OBVIOUS
<1>3. Faithful(s, (q \o <<e>>) \o <<f>>, next)
  BY <1>1, <1>2, LineIsFaithful
<1>4. (q \o <<e>>) \o <<f>> = q \o <<e, f>>
  <2>1. \A s1, s2, s3 \in Seq(Events) : (s1 \o s2) \o s3 = s1 \o (s2 \o s3)
    BY ConcatAssociative
  <2> DEFINE a == <<e>>
             b == <<f>>
  <2>2. a \o b = <<e, f>>
    BY LinesJoin
  <2>3. a \in Seq(Events) /\ b \in Seq(Events)
    BY <1>2
  <2> HIDE DEF a, b
  <2>4. (q \o a) \o b = q \o (a \o b)
    BY <2>1, <2>3
  <2> QED
    BY <2>2, <2>4 DEF a, b
<1> QED
  BY <1>3, <1>4

(* The app reads the first line.                                           *)
LEMMA ReadingIsFaithful ==
  ASSUME NEW q \in Seq(Events), q # <<>>, NEW s, NEW wanted,
         Faithful(s, q, wanted)
  PROVE  /\ Head(q).event \notin Troubles
         /\ Head(q).event = "filter_applied" => s.state = "SINGLE"
         /\ Faithful(IF Head(q).event = "topology" THEN Head(q).snapshot ELSE s,
                     Tail(q), wanted)
<1> DEFINE e == Head(q)
           u == IF e.event = "topology" THEN e.snapshot ELSE s
           t == Tail(q)
<1>1. /\ Len(q) \in Nat /\ Len(q) >= 1 /\ e = q[1]
      /\ t \in Seq(Events) /\ Len(t) = Len(q) - 1
      /\ \A i \in 1..Len(t) : t[i] = q[i + 1]
  OBVIOUS
<1>2. /\ e.event \notin Troubles
      /\ e.event = "filter_applied" => SightedIn(s, q, 1)
  BY <1>1 DEF Faithful, Clear
<1>3. SightedIn(s, q, 1) => s.state = "SINGLE"
  BY DEF SightedIn
<1> HIDE DEF e, t
<1>4. ASSUME NEW i \in 1..(Len(t) + 1), SightedIn(s, q, i + 1)
      PROVE  SightedIn(u, t, i)
  <2>1. PICK j \in 0..i :
          /\ IF j = 0 THEN s.state = "SINGLE"
             ELSE q[j].event = "topology" /\ q[j].snapshot.state = "SINGLE"
          /\ \A k \in (j + 1)..i : q[k].event # "topology"
    BY <1>4 DEF SightedIn
  <2>2. \A k \in 1..(i - 1) : t[k] = q[k + 1]
    BY <1>1
  <2>3. CASE j = 0
    <3>1. e.event # "topology" /\ u.state = "SINGLE"
      BY <1>1, <2>1, <2>3
    <3>2. \A k \in 1..(i - 1) : t[k].event # "topology"
      BY <2>1, <2>2, <2>3
    <3> QED
      BY <3>1, <3>2 DEF SightedIn
  <2>4. CASE j = 1
    <3>1. u.state = "SINGLE"
      BY <1>1, <2>1, <2>4
    <3>2. \A k \in 1..(i - 1) : t[k].event # "topology"
      BY <2>1, <2>2, <2>4
    <3> QED
      BY <3>1, <3>2 DEF SightedIn
  <2>5. CASE j > 1
    <3>1. /\ j - 1 \in 0..(i - 1) /\ j - 1 # 0 /\ t[j - 1] = q[j]
          /\ j - 1 \in 1..(i - 1)
      BY <2>1, <2>2, <2>5
    <3>2. \A k \in (j - 1 + 1)..(i - 1) : t[k].event # "topology"
      BY <2>1, <2>2, <2>5
    <3> QED
      BY <2>1, <2>5, <3>1, <3>2 DEF SightedIn
  <2> QED
    BY <2>1, <2>3, <2>4, <2>5
<1> HIDE DEF u
<1>5. Clear(u, t)
  <2> SUFFICES ASSUME NEW i \in 1..Len(t)
               PROVE  /\ t[i].event \notin Troubles
                      /\ t[i].event = "filter_applied" => SightedIn(u, t, i)
    BY DEF Clear
  <2>1. i + 1 \in 1..Len(q) /\ t[i] = q[i + 1]
    BY <1>1
  <2> QED
    BY <1>1, <1>4, <2>1 DEF Faithful, Clear
<1>6. wanted => SightedIn(u, t, Len(t) + 1)
  <2>1. Len(q) + 1 = Len(t) + 1 + 1 /\ Len(t) + 1 \in 1..(Len(t) + 1)
    BY <1>1
  <2> QED
    BY <1>4, <2>1 DEF Faithful
<1> QED
  BY <1>2, <1>3, <1>5, <1>6 DEF Faithful, e, u, t

-----------------------------------------------------------------------------
(* The listener steps.                                                     *)

(* The listener goes from c to d over the lines.                           *)
Speaks(c, lines, d) ==
  /\ d \in Children
  /\ d.phase = "RUNNING"
  /\ lines \in Seq(Events) /\ Len(lines) <= 3
  /\ c.stopping => d.stopping
  /\ \/ d.stopping
     \/ lines = <<>> /\ (Wanted(d) => Wanted(c))
     \/ \E e \in Events : lines = <<e>> /\ Admits(Wanted(c), e, Wanted(d))
     \/ \E e, f \in Events, middle \in BOOLEAN :
          /\ lines = <<e, f>>
          /\ Admits(Wanted(c), e, middle)
          /\ Admits(middle, f, Wanted(d))

(* A listener that speaks keeps the invariant of the pipe.                 *)
LEMMA SpeakingFits ==
  ASSUME NEW a, NEW c, NEW q, Fits(a, c, q), c.phase = "RUNNING",
         Len(q) <= PipeRoom, NEW lines, NEW d, Speaks(c, lines, d)
  PROVE  Fits(a, d, q \o lines)
<1>1. /\ q \in Seq(Events) /\ lines \in Seq(Events) /\ d \in Children
      /\ d.phase = "RUNNING" /\ Len(lines) <= 3 /\ (c.stopping => d.stopping)
      /\ PipeRoom \in Nat /\ Len(q) \in Nat /\ Len(lines) \in Nat
  BY StirsAssumption DEF Fits, Speaks
<1> DEFINE p == q \o lines
<1>2. p \in Seq(Events) /\ Len(p) <= PipeRoom + 3 /\ Len(p) \in Nat
  BY <1>1, SequencesJoin
<1>3. ASSUME NEW s, Faithful(s, q, Wanted(c)), ~d.stopping
      PROVE  Faithful(s, p, Wanted(d))
  <2>1. CASE lines = <<>> /\ (Wanted(d) => Wanted(c))
    <3>1. p = q
      BY <1>1, <2>1
    <3> QED
      BY <1>3, <2>1, <3>1 DEF Faithful
  <2>2. CASE \E e \in Events : lines = <<e>> /\ Admits(Wanted(c), e, Wanted(d))
    BY <1>1, <1>3, <2>2, LineIsFaithful
  <2>3. CASE \E e, f \in Events, middle \in BOOLEAN :
               /\ lines = <<e, f>>
               /\ Admits(Wanted(c), e, middle)
               /\ Admits(middle, f, Wanted(d))
    BY <1>1, <1>3, <2>3, TwoLinesAreFaithful
  <2> QED
    BY <1>3, <2>1, <2>2, <2>3 DEF Speaks
<1> HIDE DEF p
<1>4. Runs(a, d, p)
  BY <1>1, <1>2 DEF Fits, Runs
<1>5. Obeys(a, d, p)
  BY <1>1, <1>3 DEF Fits, Obeys
<1>6. Fits(a, d, p)
  BY <1>1, <1>2, <1>4, <1>5 DEF Fits
<1> QED
  BY <1>6 DEF p

(* A listener that is gone may have said anything.                         *)
LEMMA EndingFits ==
  ASSUME NEW a, NEW c, NEW q, Fits(a, c, q),
         c.phase \in {"BOOTING", "RUNNING"},
         NEW lines \in Seq(Events), NEW d \in Children, d.phase = "GONE",
         c.phase = "BOOTING" => Len(lines) <= 7,
         c.phase = "RUNNING" => Len(lines) <= 4
  PROVE  Fits(a, d, q \o lines)
<1>1. /\ q \in Seq(Events)
      /\ PipeRoom \in Nat /\ Len(q) \in Nat /\ Len(lines) \in Nat
      /\ c.phase = "BOOTING" => Len(q) = 0
      /\ c.phase = "RUNNING" => Len(q) <= PipeRoom + 7
  BY StirsAssumption DEF Fits, Runs
<1> DEFINE p == q \o lines
<1>2. p \in Seq(Events) /\ Len(p) <= PipeRoom + 11
  BY <1>1, SequencesJoin
<1> HIDE DEF p
<1>3. Fits(a, d, p)
  BY <1>2 DEF Fits, Runs, Obeys
<1> QED
  BY <1>3 DEF p

(* The stirs are counted.                                                  *)
LEMMA StirTyped ==
  ASSUME Surroundings, NEW name, Stir(name) \/ Calm
  PROVE  stirs' \in [allowed : StirSets, count : 0..MaxStirs]
BY StirsAssumption DEF Surroundings, Stir, Calm

(* The world keeps its type when the filter changes.                       *)
LEMMA FilteredTyped ==
  ASSUME NEW w \in Worlds, NEW b \in BOOLEAN
  PROVE  [w EXCEPT !.filtered = b] \in Worlds
BY DEF Worlds

(* The child keeps its type in every change of a field.                    *)
LEMMA ChildTyped ==
  ASSUME NEW c \in Children
  PROVE  /\ \A f \in {"OFF", "APPLIED", "OWED"} :
              [c EXCEPT !.filter = f] \in Children
         /\ \A s \in Controllers, b \in BOOLEAN :
              [c EXCEPT !.seen = s, !.released = b] \in Children
         /\ \A gates \in SUBSET Gates : [c EXCEPT !.missing = gates] \in Children
         /\ \A b \in BOOLEAN : [c EXCEPT !.stopping = b] \in Children
         /\ \A b \in BOOLEAN : [c EXCEPT !.releaseFailed = b] \in Children
         /\ \A b \in BOOLEAN : [c EXCEPT !.partial = b] \in Children
         /\ \A b \in BOOLEAN : [c EXCEPT !.released = b] \in Children
         /\ \A b \in BOOLEAN, r \in BOOLEAN :
              [c EXCEPT !.foreground = b, !.released = r] \in Children
BY DEF Children

(* A listener that latches, and the line it writes of that.                *)
LEMMA LatchedTyped ==
  ASSUME NEW c \in Children, NEW why \in SafetyFailures
  PROVE  /\ Latched(c, why) \in Children
         /\ Latched(c, why).phase = c.phase
         /\ Latched(c, why).stopping = c.stopping
         /\ LatchLine(c, why) \in Seq(Events)
         /\ Len(LatchLine(c, why)) <= 1
<1>1. c.failure \in SafetyFailures /\ SafetyLatch(why) \in Events
  BY LinesAreEvents DEF Children
<1>2. Latched(c, why) \in Children
  BY <1>1 DEF Children, Latched
<1>3. Latched(c, why).phase = c.phase /\ Latched(c, why).stopping = c.stopping
  BY DEF Children, Latched
<1>4. LatchLine(c, why) \in Seq(Events) /\ Len(LatchLine(c, why)) <= 1
  BY <1>1 DEF LatchLine
<1> QED
  BY <1>2, <1>3, <1>4

(* A listener that could not let go of the filter.                         *)
LEMMA StuckTyped ==
  ASSUME NEW c \in Children
  PROVE  Stuck(c) \in Children /\ Stuck(c).phase = c.phase /\ Stuck(c).stopping
<1> DEFINE l == Latched(c, "HOLD_RELEASE")
<1>1. l \in Children /\ l.phase = c.phase
  BY LatchedTyped DEF SafetyFailures
<1> HIDE DEF l
<1>2. LET s == [l EXCEPT !.releaseFailed = TRUE, !.stopping = TRUE] IN
      s \in Children /\ s.phase = c.phase /\ s.stopping
  BY <1>1 DEF Children
<1> QED
  BY <1>2 DEF Stuck, l

(* Lines that open what the listener says next.                            *)
Opens(c, lines, d) ==
  \/ lines = <<>> /\ (Wanted(d) => Wanted(c))
  \/ \E e \in Events : lines = <<e>> /\ Admits(Wanted(c), e, Wanted(d))

(* An opening is one line at most.                                         *)
LEMMA OpeningIsShort ==
  ASSUME NEW c, NEW lines, NEW d, Opens(c, lines, d)
  PROVE  lines \in Seq(Events) /\ Len(lines) <= 1
<1>1. CASE lines = <<>>
  BY <1>1
<1>2. CASE \E e \in Events : lines = <<e>>
  BY <1>2
<1> QED
  BY <1>1, <1>2 DEF Opens

(* An opening is all the listener says.                                    *)
LEMMA OpeningSpeaks ==
  ASSUME NEW c, NEW lines, NEW d \in Children, d.phase = "RUNNING",
         c.stopping => d.stopping, Opens(c, lines, d)
  PROVE  Speaks(c, lines, d)
<1>1. lines \in Seq(Events) /\ Len(lines) <= 3
  <2>1. lines \in Seq(Events) /\ Len(lines) <= 1
    BY OpeningIsShort
  <2> QED
    BY <2>1
<1> QED
  BY <1>1 DEF Opens, Speaks

(* An opening and one more line.                                           *)
LEMMA ClosingSpeaks ==
  ASSUME NEW c, NEW lines, NEW m, NEW d \in Children, d.phase = "RUNNING",
         c.stopping => d.stopping, Opens(c, lines, m),
         NEW f \in Events, Admits(Wanted(m), f, Wanted(d))
  PROVE  Speaks(c, lines \o <<f>>, d)
<1>1. CASE lines = <<>> /\ (Wanted(m) => Wanted(c))
  <2>1. lines \o <<f>> = <<f>> /\ <<f>> \in Seq(Events) /\ Len(<<f>>) = 1
    BY <1>1
  <2>2. Admits(Wanted(c), f, Wanted(d))
    BY <1>1 DEF Admits
  <2> DEFINE l == lines \o <<f>>
  <2>3. l = <<f>>
    BY <2>1
  <2> HIDE DEF l
  <2>4. Speaks(c, l, d)
    BY <2>1, <2>2, <2>3 DEF Speaks
  <2> QED
    BY <2>4 DEF l
<1>2. ASSUME NEW e \in Events, lines = <<e>>, Admits(Wanted(c), e, Wanted(m))
      PROVE  Speaks(c, lines \o <<f>>, d)
  <2>1. lines \o <<f>> = <<e, f>>
    BY <1>2, LinesJoin
  <2>2. <<e, f>> \in Seq(Events) /\ Len(<<e, f>>) = 2
    BY <1>2
  <2>3. Wanted(m) \in BOOLEAN
    BY DEF Wanted
  <2> QED
    BY <1>2, <2>1, <2>2, <2>3 DEF Speaks
<1> QED
  BY <1>1, <1>2 DEF Opens

(* A listener on its way out may say what it likes.                        *)
LEMMA StoppingSpeaks ==
  ASSUME NEW c, NEW lines \in Seq(Events), Len(lines) <= 3,
         NEW d \in Children, d.phase = "RUNNING", d.stopping
  PROVE  Speaks(c, lines, d)
BY DEF Speaks

(* It says one line.                                                       *)
LEMMA LineSpeaks ==
  ASSUME NEW c, NEW d \in Children, d.phase = "RUNNING",
         c.stopping => d.stopping,
         NEW e \in Events, Admits(Wanted(c), e, Wanted(d))
  PROVE  Speaks(c, <<e>>, d)
<1>1. Opens(c, <<e>>, d)
  BY DEF Opens
<1> QED
  BY <1>1, OpeningSpeaks

(* It says two.                                                            *)
LEMMA TwoLinesSpeak ==
  ASSUME NEW c, NEW d \in Children, d.phase = "RUNNING",
         c.stopping => d.stopping,
         NEW e \in Events, NEW f \in Events, NEW middle \in BOOLEAN,
         Admits(Wanted(c), e, middle), Admits(middle, f, Wanted(d))
  PROVE  Speaks(c, <<e, f>>, d)
<1>1. <<e, f>> \in Seq(Events) /\ Len(<<e, f>>) = 2
  OBVIOUS
<1> DEFINE l == <<e, f>>
<1>2. l \in Seq(Events) /\ Len(l) <= 3
  BY <1>1
<1>3. \E g, k \in Events, m \in BOOLEAN :
        l = <<g, k>> /\ Admits(Wanted(c), g, m) /\ Admits(m, k, Wanted(d))
  OBVIOUS
<1> HIDE DEF l
<1>4. Speaks(c, l, d)
  BY <1>2, <1>3 DEF Speaks
<1> QED
  BY <1>4 DEF l

(* The app is as it was, and so is what waits on its queue.                *)
LEMMA ChildSpeaksKeeps ==
  ASSUME HostInv, child.phase = "RUNNING", Len(pipe) <= PipeRoom,
         NEW lines, Speaks(child, lines, child'), pipe' = pipe \o lines,
         world' \in Worlds, stirs' \in [allowed : StirSets, count : 0..MaxStirs],
         UNCHANGED <<app, notice>>
  PROVE  HostInv'
<1>1. Fits(app, child', pipe')
  BY SpeakingFits DEF HostInv
<1>2. app' = app /\ notice' = notice
  OBVIOUS
<1>3. Fits(app', child', pipe') /\ Settled(app')
  BY <1>1, <1>2 DEF HostInv
<1>4. Surroundings'
  BY <1>2 DEF HostInv, Surroundings
<1> QED
  BY <1>3, <1>4 DEF HostInv

(* The listener ends over its last lines; the app is as it was.            *)
LEMMA ChildEndsKeeps ==
  ASSUME HostInv, child.phase \in {"BOOTING", "RUNNING"},
         NEW lines \in Seq(Events),
         child.phase = "BOOTING" => Len(lines) <= 7,
         child.phase = "RUNNING" => Len(lines) <= 4,
         child' \in Children, child'.phase = "GONE", pipe' = pipe \o lines,
         world' \in Worlds, stirs' \in [allowed : StirSets, count : 0..MaxStirs],
         UNCHANGED <<app, notice>>
  PROVE  HostInv'
<1>1. Fits(app, child', pipe')
  BY EndingFits DEF HostInv
<1>2. app' = app /\ notice' = notice
  OBVIOUS
<1>3. Fits(app', child', pipe') /\ Settled(app')
  BY <1>1, <1>2 DEF HostInv
<1>4. Surroundings'
  BY <1>2 DEF HostInv, Surroundings
<1> QED
  BY <1>3, <1>4 DEF HostInv

(* The listener lets go of a filter it no longer wants, or cannot and      *)
(* latches, after an opening line.                                         *)
LEMMA LetGoKeeps ==
  ASSUME HostInv, child.phase = "RUNNING", Len(pipe) <= PipeRoom,
         NEW c \in Children, c.phase = "RUNNING", c.stopping = child.stopping,
         NEW lines, Opens(child, lines, c), LetGoOfFilter(c, lines),
         UNCHANGED <<app, notice>>
  PROVE  HostInv'
<1> DEFINE owed == [c EXCEPT !.filter = "OWED", !.released = FALSE]
           off == [owed EXCEPT !.filter = "OFF"]
           stuck == Stuck(owed)
           freed == [stuck EXCEPT !.filter = "OFF"]
<1>1. world \in Worlds /\ world.filtered \in BOOLEAN
  BY DEF HostInv, Surroundings, Worlds
<1>2. /\ owed \in Children /\ owed.phase = "RUNNING"
      /\ owed.stopping = child.stopping /\ (Wanted(owed) <=> Wanted(c))
  BY DEF Children, Wanted
<1>3. /\ off \in Children /\ off.phase = "RUNNING"
      /\ off.stopping = child.stopping /\ (Wanted(off) <=> Wanted(c))
  BY DEF Children, Wanted
<1> HIDE DEF owed
<1>4. stuck \in Children /\ stuck.phase = "RUNNING" /\ stuck.stopping
  BY <1>2, StuckTyped
<1> HIDE DEF stuck, off
<1>5. freed \in Children /\ freed.phase = "RUNNING" /\ freed.stopping
  BY <1>4 DEF Children
<1> HIDE DEF freed
<1>6. CASE /\ child' = off
           /\ world' = [world EXCEPT !.filtered = FALSE]
           /\ pipe' = pipe \o (lines \o <<FilterRestored>>)
           /\ Calm
  <2>1. Admits(Wanted(c), FilterRestored, Wanted(off)) /\ FilterRestored \in Events
    BY <1>3, LinesAreEvents DEF Admits, FilterRestored, Troubles
  <2>2. Speaks(child, lines \o <<FilterRestored>>, off)
    BY <1>3, <2>1, ClosingSpeaks
  <2>3. world' \in Worlds
    BY <1>1, <1>6, FilteredTyped
  <2>4. stirs' \in [allowed : StirSets, count : 0..MaxStirs]
    BY <1>6, StirTyped DEF HostInv
  <2> QED
    BY <1>6, <2>2, <2>3, <2>4, ChildSpeaksKeeps
<1>7. CASE /\ child' = owed
           /\ pipe' = pipe \o lines
           /\ Calm /\ UNCHANGED world
  <2>1. Opens(child, lines, owed)
    BY <1>2 DEF Opens, Admits
  <2>2. Speaks(child, lines, owed)
    BY <1>2, <2>1, OpeningSpeaks
  <2>3. stirs' \in [allowed : StirSets, count : 0..MaxStirs]
    BY <1>7, StirTyped DEF HostInv
  <2> QED
    BY <1>1, <1>7, <2>2, <2>3, ChildSpeaksKeeps
<1>8. ASSUME NEW restored \in BOOLEAN,
             child' = [stuck EXCEPT !.filter = IF restored THEN "OFF" ELSE @],
             world' = [world EXCEPT !.filtered = @ /\ ~restored],
             pipe' = pipe \o (lines \o LatchLine(c, "HOLD_RELEASE")
                        \o (IF restored THEN <<FilterRestored>> ELSE <<>>)),
             HoldIsStuck
      PROVE  HostInv'
  <2> DEFINE b == LatchLine(c, "HOLD_RELEASE")
             d == IF restored THEN <<FilterRestored>> ELSE <<>>
             l == lines \o b \o d
  <2>1. lines \in Seq(Events) /\ Len(lines) <= 1
    BY OpeningIsShort
  <2>2. b \in Seq(Events) /\ Len(b) <= 1
    BY LatchedTyped DEF SafetyFailures
  <2>3. d \in Seq(Events) /\ Len(d) <= 1
    BY LinesAreEvents
  <2> HIDE DEF b, d
  <2>4. lines \o b \in Seq(Events) /\ Len(lines \o b) <= 2
    BY <2>1, <2>2, SequencesJoin
  <2>5. l \in Seq(Events) /\ Len(l) <= 3
    BY <2>3, <2>4, SequencesJoin
  <2>6. child' \in Children /\ child'.phase = "RUNNING" /\ child'.stopping
    <3>1. CASE restored
      BY <1>5, <1>8, <3>1 DEF freed
    <3>2. CASE ~restored
      <4>1. child' = stuck
        BY <1>4, <1>8, <3>2 DEF Children
      <4> QED
        BY <1>4, <4>1
    <3> QED
      BY <3>1, <3>2
  <2>7. pipe' = pipe \o l
    BY <1>8 DEF b, d
  <2> HIDE DEF l
  <2>8. Speaks(child, l, child')
    BY <2>5, <2>6, StoppingSpeaks
  <2>9. world' \in Worlds
    BY <1>1, <1>8, FilteredTyped
  <2>10. stirs' \in [allowed : StirSets, count : 0..MaxStirs]
    BY <1>8, StirTyped DEF HostInv, HoldIsStuck
  <2> QED
    BY <2>7, <2>8, <2>9, <2>10, ChildSpeaksKeeps
<1> QED
  BY <1>6, <1>7, <1>8 DEF LetGoOfFilter, Emit, owed, off, stuck

(* What HostInv says of the child by itself.                               *)
LEMMA ChildFacts ==
  ASSUME HostInv
  PROVE  /\ child \in Children /\ pipe \in Seq(Events)
         /\ world \in Worlds
         /\ world.controller \in Controllers /\ world.foreground \in BOOLEAN
         /\ Missing \in SUBSET Gates
         /\ child.phase = "BOOTING" =>
              /\ child = Booting /\ pipe = <<>>
              /\ ~child.stopping /\ ~Wanted(child)
         /\ child.seen \in Controllers /\ child.missing \in SUBSET Gates
<1>1. /\ child \in Children /\ pipe \in Seq(Events) /\ world \in Worlds
      /\ child.phase = "BOOTING" => child = Booting /\ pipe = <<>>
  BY DEF HostInv, Fits, Runs, Surroundings
<1>2. ~Booting.stopping /\ Booting.seen.state # "SINGLE"
  BY DEF Booting, NoChild, NoController
<1> QED
  BY <1>1, <1>2 DEF Worlds, Missing, Wanted, Children

(* Startup without a permission.                                           *)
LEMMA LacksPermissionKeeps ==
  ASSUME HostInv, ChildLacksPermission, UNCHANGED notice
  PROVE  HostInv'
<1> DEFINE lines == <<Topology(UnknownSnapshot), TccStatus(Missing),
                      Topology(UnknownSnapshot), PermissionRequired(Missing),
                      Stopped(child)>>
<1>1. child \in Children /\ Missing \in SUBSET Gates /\ world \in Worlds
      /\ UnknownSnapshot \in Sights
  BY ChildFacts DEF Sights
<1>2. lines \in Seq(Events) /\ Len(lines) <= 5
  BY <1>1, LinesAreEvents
<1>3. pipe' = pipe \o lines
  BY DEF ChildLacksPermission, Emit
<1> HIDE DEF lines
<1>4. /\ child' \in Children /\ child'.phase = "GONE"
      /\ child.phase = "BOOTING" /\ world' \in Worlds
  BY <1>1 DEF ChildLacksPermission, ChildExits, Children
<1>5. stirs' \in [allowed : StirSets, count : 0..MaxStirs]
  BY StirTyped DEF HostInv, ChildLacksPermission
<1> QED
  BY <1>1, <1>2, <1>3, <1>4, <1>5, ChildEndsKeeps DEF ChildLacksPermission

(* Startup that is not permitted to open the devices.                      *)
LEMMA IsNotPermittedKeeps ==
  ASSUME HostInv, ChildIsNotPermitted, UNCHANGED notice
  PROVE  HostInv'
<1> DEFINE e == Topology(UnknownSnapshot)
           t == TccStatus({})
           p == PermissionRequired({"INPUT_MONITORING"})
           f == Stopped(child)
           lines == <<e, t, e, e, p, e, f>>
<1>1. child \in Children /\ world \in Worlds /\ UnknownSnapshot \in Sights
      /\ {} \in SUBSET Gates /\ {"INPUT_MONITORING"} \in SUBSET Gates
  BY ChildFacts DEF Sights, Gates
<1>2. e \in Events /\ t \in Events /\ p \in Events /\ f \in Events
  BY <1>1, LinesAreEvents
<1>3. pipe' = pipe \o lines
  BY DEF ChildIsNotPermitted, Emit
<1> HIDE DEF e, t, p, f
<1>4. lines \in Seq(Events) /\ Len(lines) <= 7
  BY <1>2
<1> HIDE DEF lines
<1>5. /\ child' \in Children /\ child'.phase = "GONE"
      /\ child.phase = "BOOTING" /\ world' \in Worlds
  BY <1>1 DEF ChildIsNotPermitted, ChildExits, Children
<1>6. stirs' \in [allowed : StirSets, count : 0..MaxStirs]
  BY StirTyped DEF HostInv, ChildIsNotPermitted
<1> QED
  BY <1>1, <1>3, <1>4, <1>5, <1>6, ChildEndsKeeps DEF ChildIsNotPermitted

(* What a listener writes first is five lines at most, and no alarm.       *)
LEMMA FirstLookIsHarmless ==
  ASSUME world \in Worlds
  PROVE  /\ FirstLook \in Seq({e \in Events : e.event \notin Troubles
                                       /\ e.event # "filter_applied"})
         /\ Len(FirstLook) <= 5
<1> DEFINE Harmless == {e \in Events : e.event \notin Troubles
                                    /\ e.event # "filter_applied"}
           a == Topology(UnknownSnapshot)
           b == TccStatus({})
           c == Topology(NoController)
           d == Focus(world.foreground)
           n == Neutral(FALSE)
           opening == <<a, b, c, d>>
           middle == IF world.foreground THEN <<>> ELSE <<n>>
<1>1. /\ UnknownSnapshot \in Sights /\ NoController \in Sights
      /\ {} \in SUBSET Gates /\ world.foreground \in BOOLEAN
  BY DEF Sights, Controllers, NoController, Worlds
<1>2. a \in Harmless /\ b \in Harmless /\ c \in Harmless /\ d \in Harmless
      /\ n \in Harmless
  BY <1>1, LinesAreEvents DEF Topology, TccStatus, Focus, Neutral, Troubles
<1>3. FirstLook = opening \o middle
  BY DEF FirstLook
<1> HIDE DEF Harmless, a, b, c, d, n
<1>4. opening \in Seq(Harmless) /\ Len(opening) = 4
  BY <1>2
<1>5. middle \in Seq(Harmless) /\ Len(middle) <= 1
  <2>1. <<>> \in Seq(Harmless) /\ Len(<<>>) = 0
    OBVIOUS
  <2>2. <<n>> \in Seq(Harmless) /\ Len(<<n>>) = 1
    BY <1>2
  <2>3. CASE world.foreground
    BY <2>1, <2>3
  <2>4. CASE ~world.foreground
    BY <2>2, <2>4
  <2> QED
    BY <2>3, <2>4
<1> HIDE DEF opening, middle
<1>6. FirstLook \in Seq(Harmless) /\ Len(FirstLook) <= 5
  BY <1>3, <1>4, <1>5, SequencesJoin
<1> QED
  BY <1>6 DEF Harmless

(* Startup that cannot open the devices.                                   *)
LEMMA CannotOpenKeeps ==
  ASSUME HostInv, ChildCannotOpen, UNCHANGED notice
  PROVE  HostInv'
<1> DEFINE latched == Latched(child, "DEVICE_UNCERTAIN")
           e == Topology(UnknownSnapshot)
           t == TccStatus({})
           s == SafetyLatch("DEVICE_UNCERTAIN")
           f == Stopped(child)
           g == Stopped(latched)
           blind == <<e, t, e>>
           stop == <<e, f>>
           broken == <<s, g>>
<1>1. child \in Children /\ world \in Worlds /\ UnknownSnapshot \in Sights
      /\ {} \in SUBSET Gates /\ "DEVICE_UNCERTAIN" \in SafetyFailures
  BY ChildFacts DEF Sights, SafetyFailures
<1>2. latched \in Children
  BY <1>1, LatchedTyped
<1>3. PICK lines \in {blind \o broken, blind, blind \o stop, FirstLook \o stop} :
        pipe' = pipe \o lines
  BY DEF ChildCannotOpen, Emit
<1>4. /\ child.phase = "BOOTING" /\ UNCHANGED <<app, world>>
      /\ \/ child' = [latched EXCEPT !.phase = "GONE", !.exit = "FAILED"]
         \/ child' = [child EXCEPT !.phase = "GONE", !.exit = "FAILED"]
  BY DEF ChildCannotOpen, ChildExits
<1> HIDE DEF latched
<1>5. e \in Events /\ t \in Events /\ s \in Events /\ f \in Events /\ g \in Events
  BY <1>1, <1>2, LinesAreEvents
<1> HIDE DEF e, t, s, f, g
<1>6. /\ blind \in Seq(Events) /\ Len(blind) = 3
      /\ stop \in Seq(Events) /\ Len(stop) = 2
      /\ broken \in Seq(Events) /\ Len(broken) = 2
  BY <1>5
<1>7. FirstLook \in Seq(Events) /\ Len(FirstLook) <= 5
  BY <1>1, FirstLookIsHarmless
<1> HIDE DEF blind, stop, broken
<1>8. lines \in Seq(Events) /\ Len(lines) <= 7
  <2>1. blind \o broken \in Seq(Events) /\ Len(blind \o broken) <= 7
    BY <1>6, SequencesJoin
  <2>2. blind \o stop \in Seq(Events) /\ Len(blind \o stop) <= 7
    BY <1>6, SequencesJoin
  <2>3. FirstLook \o stop \in Seq(Events) /\ Len(FirstLook \o stop) <= 7
    BY <1>6, <1>7, SequencesJoin
  <2>4. blind \in Seq(Events) /\ Len(blind) <= 7
    BY <1>6
  <2> QED
    <3>1. CASE lines = blind \o broken
      BY <2>1, <3>1
    <3>2. CASE lines = blind
      BY <2>4, <3>2
    <3>3. CASE lines = blind \o stop
      BY <2>2, <3>3
    <3>4. CASE lines = FirstLook \o stop
      BY <2>3, <3>4
    <3> QED
      BY <1>3, <3>1, <3>2, <3>3, <3>4
<1>9. child' \in Children /\ child'.phase = "GONE"
  BY <1>1, <1>2, <1>4 DEF Children
<1>10. stirs' \in [allowed : StirSets, count : 0..MaxStirs]
  BY StirTyped DEF HostInv, ChildCannotOpen
<1> QED
  BY <1>1, <1>3, <1>4, <1>8, <1>9, <1>10, ChildEndsKeeps

(* The listener is killed, or crashes.                                     *)
LEMMA SilentEndKeeps ==
  ASSUME HostInv, ChildKilledAtBoot \/ ChildCrashes, UNCHANGED notice
  PROVE  HostInv'
<1>1. child \in Children /\ world \in Worlds /\ pipe \in Seq(Events)
  BY ChildFacts
<1> DEFINE none == <<>>
<1>2. pipe' = pipe \o none /\ none \in Seq(Events) /\ Len(none) <= 3
  <2>1. pipe \o <<>> = pipe
    BY <1>1
  <2>2. pipe' = pipe
    BY DEF ChildKilledAtBoot, ChildCrashes
  <2>3. <<>> \in Seq(Events) /\ Len(<<>>) = 0
    OBVIOUS
  <2> QED
    BY <2>1, <2>2, <2>3
<1> HIDE DEF none
<1>3. child' \in Children /\ child'.phase = "GONE"
      /\ child.phase \in {"BOOTING", "RUNNING"}
  <2>1. CASE ChildKilledAtBoot
    BY <2>1, <1>1 DEF ChildKilledAtBoot, ChildExits, Children
  <2>2. CASE ChildCrashes
    <3>1. PICK partial \in BOOLEAN :
            ChildExits([child EXCEPT !.partial = partial], "FAILED")
      BY <2>2 DEF ChildCrashes
    <3>2. [child EXCEPT !.partial = partial] \in Children
      BY <1>1, ChildTyped
    <3> QED
      BY <2>2, <3>1, <3>2 DEF ChildExits, ChildCrashes, Children
  <2> QED
    BY <2>1, <2>2
<1>4. stirs' \in [allowed : StirSets, count : 0..MaxStirs]
  BY StirTyped DEF HostInv, ChildKilledAtBoot, ChildCrashes
<1>5. world' \in Worlds /\ UNCHANGED app
  BY <1>1 DEF ChildKilledAtBoot, ChildCrashes
<1>6. Len(none) <= 5
  BY <1>2
<1> QED
  BY <1>6, <1>2, <1>3, <1>4, <1>5, ChildEndsKeeps

(* Startup writes six lines at most, and no alarm.                         *)
LEMMA BootsKeeps ==
  ASSUME HostInv, ChildBoots, UNCHANGED notice
  PROVE  HostInv'
<1>1. /\ child = Booting /\ child \in Children /\ pipe = <<>>
      /\ world \in Worlds /\ world.foreground \in BOOLEAN
      /\ ~Wanted(child) /\ ~child.stopping
      /\ PipeRoom \in Nat
  BY ChildFacts, StirsAssumption DEF ChildBoots
<1> DEFINE ready == <<Ready>>
           Harmless == {e \in Events : e.event \notin Troubles
                                    /\ e.event # "filter_applied"}
           l == FirstLook \o ready
<1>2. pipe' = <<>> \o l
  BY <1>1 DEF ChildBoots, Emit
<1>3. FirstLook \in Seq(Harmless) /\ Len(FirstLook) <= 5
  BY <1>1, FirstLookIsHarmless
<1>4. ready \in Seq(Harmless) /\ Len(ready) = 1
  <2>1. Ready \in Harmless
    BY LinesAreEvents DEF Ready, Troubles
  <2> HIDE DEF Harmless
  <2> QED
    BY <2>1
<1> HIDE DEF ready
<1>6. l \in Seq(Harmless) /\ Len(l) <= 6 /\ Len(l) \in Nat
  <2> HIDE DEF Harmless
  <2>1. /\ l \in Seq(Harmless) /\ Len(l) = Len(FirstLook) + Len(ready)
        /\ Len(FirstLook) \in Nat
    BY <1>3, <1>4, SequencesJoin
  <2> QED
    BY <1>3, <1>4, <2>1
<1> HIDE DEF l
<1>7. l \in Seq(Events) /\ \A i \in 1..Len(l) : l[i] \in Harmless
  BY <1>6
<1>8. pipe' = l
  BY <1>2, <1>7
<1>9. /\ child' \in Children /\ child'.phase = "RUNNING"
      /\ ~child'.stopping /\ ~Wanted(child')
  BY <1>1 DEF ChildBoots, Children, Wanted
<1>10. \A s : Faithful(s, l, Wanted(child'))
  BY <1>7, <1>9 DEF Faithful, Clear
<1>11. app' = app /\ notice' = notice /\ world' = world
       /\ stirs' \in [allowed : StirSets, count : 0..MaxStirs]
  BY StirTyped DEF HostInv, ChildBoots
<1>12. Runs(app, child', l)
  BY <1>1, <1>6, <1>9 DEF HostInv, Fits, Runs, ChildBoots
<1>13. Obeys(app, child', l)
  BY <1>1, <1>9, <1>10 DEF HostInv, Fits, Obeys, ChildBoots
<1>14. Fits(app, child', l)
  BY <1>1, <1>6, <1>7, <1>9, <1>12, <1>13 DEF Fits
<1>15. Fits(app', child', pipe') /\ Settled(app')
  BY <1>8, <1>11, <1>14 DEF HostInv
<1>16. Surroundings'
  BY <1>1, <1>11 DEF HostInv, Surroundings
<1> QED
  BY <1>15, <1>16 DEF HostInv

(* The listener sees a controller come, go or be joined by another.        *)
LEMMA SeesControllerKeeps ==
  ASSUME HostInv, ChildSeesController, UNCHANGED notice
  PROVE  HostInv'
<1> DEFINE seen == [child EXCEPT !.seen = world.controller, !.released = FALSE]
           e == Topology(world.controller)
           on == [seen EXCEPT !.filter = "APPLIED"]
<1>1. /\ child \in Children /\ world \in Worlds
      /\ child.phase = "RUNNING" /\ Len(pipe) <= PipeRoom
      /\ world.controller \in Controllers /\ UNCHANGED <<app, notice>>
  BY ChildFacts DEF ChildSeesController, ChildRuns
<1>2. /\ seen \in Children /\ seen.phase = "RUNNING"
      /\ seen.stopping = child.stopping
      /\ Wanted(seen) => world.controller.state = "SINGLE"
      /\ seen.missing = child.missing /\ seen.seen = world.controller
  BY <1>1 DEF Children, Wanted
<1>3. e \in Events /\ e.event = "topology" /\ e.snapshot = world.controller
  BY <1>1, LinesAreEvents DEF Sights, Topology
<1>4. Opens(child, <<e>>, seen)
  <2>1. Admits(Wanted(child), e, Wanted(seen))
    BY <1>2, <1>3 DEF Admits, Troubles
  <2> HIDE DEF seen, e
  <2> QED
    BY <1>3, <2>1 DEF Opens
<1> HIDE DEF seen
<1>5. on \in Children /\ on.phase = "RUNNING" /\ on.stopping = child.stopping
      /\ (Wanted(on) <=> Wanted(seen))
  BY <1>2 DEF Children, Wanted
<1> HIDE DEF on
<1>6. CASE LetGoOfFilter(seen, <<e>>)
  BY <1>1, <1>2, <1>4, <1>6, LetGoKeeps
<1>7. CASE world.controller.state = "SINGLE" /\ PutFilterOn(seen, <<e>>) /\ Calm
  <2>1. child' = on /\ pipe' = pipe \o (<<e>> \o <<FilterApplied>>)
        /\ world' = [world EXCEPT !.filtered = TRUE]
    BY <1>7 DEF PutFilterOn, Emit, on
  <2>2. FilterApplied \in Events /\ FilterApplied.event = "filter_applied"
    BY LinesAreEvents DEF FilterApplied
  <2>3. /\ Admits(Wanted(child), e, TRUE)
        /\ Admits(TRUE, FilterApplied, Wanted(on))
    BY <1>3, <1>7, <2>2 DEF Admits, Troubles
  <2>4. <<e>> \o <<FilterApplied>> = <<e, FilterApplied>>
    BY <1>3, <2>2, LinesJoin
  <2>5. Speaks(child, <<e, FilterApplied>>, on)
    BY <1>2, <1>3, <1>5, <2>2, <2>3, TwoLinesSpeak
  <2>6. world' \in Worlds
    BY <1>1, <2>1, FilteredTyped
  <2>7. stirs' \in [allowed : StirSets, count : 0..MaxStirs]
    BY <1>7, StirTyped DEF HostInv
  <2> QED
    BY <1>1, <2>1, <2>4, <2>5, <2>6, <2>7, ChildSpeaksKeeps
<1>8. CASE /\ child' = seen
           /\ pipe' = pipe \o <<e>>
           /\ Calm /\ UNCHANGED world
  <2>1. Speaks(child, <<e>>, seen)
    BY <1>2, <1>4, OpeningSpeaks
  <2>2. stirs' \in [allowed : StirSets, count : 0..MaxStirs]
    BY <1>8, StirTyped DEF HostInv
  <2> QED
    BY <1>1, <1>8, <2>1, <2>2, ChildSpeaksKeeps
<1> QED
  BY <1>6, <1>7, <1>8 DEF ChildSeesController, Emit, seen, e

(* It applies its filter.                                                  *)
LEMMA AppliesFilterKeeps ==
  ASSUME HostInv, ChildAppliesFilter, UNCHANGED notice
  PROVE  HostInv'
<1>1. /\ child \in Children /\ world \in Worlds /\ pipe \in Seq(Events)
      /\ child.phase = "RUNNING" /\ Len(pipe) <= PipeRoom
      /\ Wanted(child) /\ UNCHANGED <<app, notice>>
  BY ChildFacts DEF ChildAppliesFilter, ChildRuns, WantFilter, Wanted
<1>2. FilterApplied \in Events /\ FilterApplied.event = "filter_applied"
  BY LinesAreEvents DEF FilterApplied
<1>3. pipe' = pipe \o <<FilterApplied>>
      /\ world' = [world EXCEPT !.filtered = TRUE]
  BY <1>2 DEF ChildAppliesFilter, PutFilterOn, Emit
<1>4. /\ child' \in Children /\ child'.phase = "RUNNING"
      /\ child'.stopping = child.stopping /\ Wanted(child')
  BY <1>1 DEF ChildAppliesFilter, PutFilterOn, Children, Wanted
<1>5. Admits(Wanted(child), FilterApplied, Wanted(child'))
  BY <1>1, <1>2 DEF Admits, Troubles
<1>6. Speaks(child, <<FilterApplied>>, child')
  BY <1>2, <1>4, <1>5, LineSpeaks
<1>7. world' \in Worlds
  BY <1>1, <1>3, FilteredTyped
<1>8. stirs' \in [allowed : StirSets, count : 0..MaxStirs]
  BY StirTyped DEF HostInv, ChildAppliesFilter
<1> QED
  BY <1>1, <1>3, <1>6, <1>7, <1>8, ChildSpeaksKeeps

(* It cannot, and latches.                                                 *)
LEMMA CannotApplyKeeps ==
  ASSUME HostInv, ChildCannotApply, UNCHANGED notice
  PROVE  HostInv'
<1> DEFINE latched == Latched(child, "DEVICE_UNCERTAIN")
           line == LatchLine(child, "DEVICE_UNCERTAIN")
           none == <<>>
<1>1. /\ child \in Children /\ world \in Worlds /\ pipe \in Seq(Events)
      /\ child.phase = "RUNNING" /\ Len(pipe) <= PipeRoom
      /\ UNCHANGED <<app, notice>>
  BY ChildFacts DEF ChildCannotApply, ChildRuns
<1>2. /\ latched \in Children /\ latched.phase = "RUNNING"
      /\ line \in Seq(Events) /\ Len(line) <= 3
  <2>1. /\ latched \in Children /\ latched.phase = child.phase
        /\ line \in Seq(Events) /\ Len(line) <= 1
    BY <1>1, LatchedTyped DEF SafetyFailures
  <2> HIDE DEF latched, line
  <2> QED
    BY <1>1, <2>1
<1>3. stirs' \in [allowed : StirSets, count : 0..MaxStirs]
  BY StirTyped DEF HostInv, ChildCannotApply
<1>4. none \in Seq(Events) /\ Len(none) <= 3 /\ pipe \o none = pipe
  <2>1. <<>> \in Seq(Events) /\ Len(<<>>) = 0 /\ pipe \o <<>> = pipe
    BY <1>1
  <2> QED
    BY <2>1
<1>5. CASE /\ child' = [latched EXCEPT !.stopping = TRUE]
           /\ pipe' = pipe \o line
           /\ UNCHANGED world
  <2> HIDE DEF latched, line
  <2>1. child' \in Children /\ child'.phase = "RUNNING" /\ child'.stopping
    BY <1>2, <1>5 DEF Children
  <2>2. Speaks(child, line, child')
    BY <1>2, <2>1, StoppingSpeaks
  <2>3. world' \in Worlds
    BY <1>1, <1>5
  <2> QED
    BY <1>1, <1>3, <1>5, <2>2, <2>3, ChildSpeaksKeeps
<1>6. CASE /\ child' = [child EXCEPT !.filter = "OWED", !.stopping = TRUE]
           /\ world' = [world EXCEPT !.filtered = TRUE]
           /\ UNCHANGED pipe
  <2>1. child' \in Children /\ child'.phase = "RUNNING" /\ child'.stopping
    BY <1>1, <1>6 DEF Children
  <2> HIDE DEF none
  <2>2. Speaks(child, none, child')
    BY <1>4, <2>1, StoppingSpeaks
  <2>3. world' \in Worlds
    BY <1>1, <1>6, FilteredTyped
  <2>4. pipe' = pipe \o none
    BY <1>4, <1>6
  <2> QED
    BY <1>1, <1>3, <2>2, <2>3, <2>4, ChildSpeaksKeeps
<1> QED
  BY <1>5, <1>6 DEF ChildCannotApply, Emit

(* It drops a filter it does not want any more.                            *)
LEMMA DropsUnwantedFilterKeeps ==
  ASSUME HostInv, ChildDropsUnwantedFilter, UNCHANGED notice
  PROVE  HostInv'
<1>1. /\ child \in Children /\ child.phase = "RUNNING" /\ Len(pipe) <= PipeRoom
      /\ UNCHANGED <<app, notice>> /\ LetGoOfFilter(child, <<>>)
  BY ChildFacts DEF ChildDropsUnwantedFilter, ChildRuns
<1>2. Opens(child, <<>>, child)
  BY DEF Opens
<1> QED
  BY <1>1, <1>2, LetGoKeeps

(* It pays back a filter it owes.                                          *)
LEMMA RestoresOwedKeeps ==
  ASSUME HostInv, ChildRestoresOwed, UNCHANGED notice
  PROVE  HostInv'
<1> DEFINE latched == Latched(child, "PASSTHROUGH_RESTORE")
           line == LatchLine(child, "PASSTHROUGH_RESTORE")
<1>1. /\ child \in Children /\ world \in Worlds
      /\ child.phase = "RUNNING" /\ Len(pipe) <= PipeRoom
      /\ UNCHANGED <<app, notice>>
  BY ChildFacts DEF ChildRestoresOwed, ChildRuns
<1>2. /\ latched \in Children /\ latched.phase = "RUNNING"
      /\ line \in Seq(Events) /\ Len(line) <= 3
  <2>1. /\ latched \in Children /\ latched.phase = child.phase
        /\ line \in Seq(Events) /\ Len(line) <= 1
    BY <1>1, LatchedTyped DEF SafetyFailures
  <2> HIDE DEF latched, line
  <2> QED
    BY <1>1, <2>1
<1>3. stirs' \in [allowed : StirSets, count : 0..MaxStirs]
  BY StirTyped DEF HostInv, ChildRestoresOwed
<1>4. CASE /\ child' = [child EXCEPT !.filter = "OFF"]
           /\ world' = [world EXCEPT !.filtered = FALSE]
           /\ pipe' = pipe \o <<FilterRestored>>
  <2>1. FilterRestored \in Events /\ FilterRestored.event = "filter_restored"
    BY LinesAreEvents DEF FilterRestored
  <2>2. /\ child' \in Children /\ child'.phase = "RUNNING"
        /\ child'.stopping = child.stopping
        /\ Wanted(child') <=> Wanted(child)
    BY <1>1, <1>4 DEF Children, Wanted
  <2>3. Admits(Wanted(child), FilterRestored, Wanted(child'))
    BY <2>1, <2>2 DEF Admits, Troubles
  <2>4. Speaks(child, <<FilterRestored>>, child')
    BY <2>1, <2>2, <2>3, LineSpeaks
  <2>5. world' \in Worlds
    BY <1>1, <1>4, FilteredTyped
  <2> QED
    BY <1>1, <1>3, <1>4, <2>4, <2>5, ChildSpeaksKeeps
<1>5. CASE /\ child' = [latched EXCEPT !.releaseFailed = TRUE, !.stopping = TRUE]
           /\ pipe' = pipe \o line
           /\ UNCHANGED world
  <2> HIDE DEF latched, line
  <2>1. child' \in Children /\ child'.phase = "RUNNING" /\ child'.stopping
    BY <1>2, <1>5 DEF Children
  <2>2. Speaks(child, line, child')
    BY <1>2, <2>1, StoppingSpeaks
  <2>3. world' \in Worlds
    BY <1>1, <1>5
  <2> QED
    BY <1>1, <1>3, <1>5, <2>2, <2>3, ChildSpeaksKeeps
<1> QED
  BY <1>4, <1>5 DEF ChildRestoresOwed, Emit

(* It sees the frontmost application change.                               *)
LEMMA SeesFocusKeeps ==
  ASSUME HostInv, ChildSeesFocus, UNCHANGED notice
  PROVE  HostInv'
<1> DEFINE seen == [child EXCEPT !.foreground = world.foreground,
                                 !.released   = @ /\ world.foreground]
           e == Focus(world.foreground)
           f == Neutral(FALSE)
           rest == IF world.foreground THEN <<>> ELSE <<f>>
           lines == <<e>> \o rest
           stuck == Stuck(seen)
           line == LatchLine(child, "HOLD_RELEASE")
<1>1. /\ child \in Children /\ world \in Worlds
      /\ child.phase = "RUNNING" /\ Len(pipe) <= PipeRoom
      /\ UNCHANGED <<app, notice, world>> /\ world.foreground \in BOOLEAN
  BY ChildFacts DEF ChildSeesFocus, ChildRuns
<1>2. /\ seen \in Children /\ seen.phase = "RUNNING"
      /\ seen.stopping = child.stopping
      /\ Wanted(seen) <=> Wanted(child)
  BY <1>1 DEF Children, Wanted
<1>3. e \in Events /\ f \in Events /\ e.event = "focus_changed"
      /\ f.event = "neutral_entry"
  BY <1>1, LinesAreEvents DEF Focus, Neutral
<1>4. stirs' \in [allowed : StirSets, count : 0..MaxStirs]
  BY StirTyped DEF HostInv, ChildSeesFocus, HoldIsStuck
<1>5. \/ child' = seen /\ pipe' = pipe \o lines
      \/ child' = stuck /\ pipe' = pipe \o (lines \o line)
  BY DEF ChildSeesFocus, Emit
<1>6. lines = <<e>> \/ lines = <<e, f>>
  <2> HIDE DEF e, f
  <2>1. <<e>> \o <<>> = <<e>> /\ <<e>> \o <<f>> = <<e, f>>
    BY <1>3, LinesJoin
  <2>2. CASE world.foreground
    BY <2>1, <2>2
  <2>3. CASE ~world.foreground
    BY <2>1, <2>3
  <2> QED
    BY <2>2, <2>3
<1>7. stuck \in Children /\ stuck.phase = "RUNNING" /\ stuck.stopping
  <2> HIDE DEF seen
  <2> QED
    BY <1>2, StuckTyped
<1>8. line \in Seq(Events) /\ Len(line) <= 1
  BY <1>1, LatchedTyped DEF SafetyFailures
<1> HIDE DEF seen, e, f, rest, lines, stuck, line
<1>9. /\ Admits(Wanted(child), e, Wanted(seen))
      /\ Admits(Wanted(child), e, Wanted(child))
      /\ Admits(Wanted(child), f, Wanted(seen))
      /\ Wanted(child) \in BOOLEAN
  BY <1>2, <1>3 DEF Admits, Troubles, Wanted
<1>10. Speaks(child, <<e>>, seen) /\ Speaks(child, <<e, f>>, seen)
  BY <1>2, <1>3, <1>9, LineSpeaks, TwoLinesSpeak
<1>11. Speaks(child, lines, seen)
  BY <1>6, <1>10
<1>12. lines \in Seq(Events) /\ Len(lines) <= 2
  <2>1. <<e>> \in Seq(Events) /\ Len(<<e>>) = 1
        /\ <<e, f>> \in Seq(Events) /\ Len(<<e, f>>) = 2
    BY <1>3
  <2>2. CASE lines = <<e>>
    BY <2>1, <2>2
  <2>3. CASE lines = <<e, f>>
    BY <2>1, <2>3
  <2> QED
    BY <1>6, <2>2, <2>3
<1>13. lines \o line \in Seq(Events) /\ Len(lines \o line) <= 3
  BY <1>8, <1>12, SequencesJoin
<1>14. Speaks(child, lines \o line, stuck)
  BY <1>7, <1>13, StoppingSpeaks
<1>15. world' \in Worlds
  BY <1>1
<1> QED
  BY <1>1, <1>4, <1>5, <1>11, <1>14, <1>15, ChildSpeaksKeeps

(* It finds the inputs released.                                           *)
LEMMA ReconcilesNeutralKeeps ==
  ASSUME HostInv, ChildReconcilesNeutral, UNCHANGED notice
  PROVE  HostInv'
<1> DEFINE e == Neutral(~child.released)
<1>1. /\ child \in Children /\ world' \in Worlds
      /\ child.phase = "RUNNING" /\ Len(pipe) <= PipeRoom
      /\ UNCHANGED <<app, notice>>
  BY ChildFacts DEF ChildReconcilesNeutral, ChildRuns
<1>2. e \in Events /\ e.event = "neutral_entry"
  <2>1. (~child.released) \in BOOLEAN
    BY <1>1 DEF Children
  <2> QED
    BY <2>1, LinesAreEvents DEF Neutral
<1>3. pipe' = pipe \o <<e>>
  BY DEF ChildReconcilesNeutral, Emit
<1>4. /\ child' \in Children /\ child'.phase = "RUNNING"
      /\ child'.stopping = child.stopping
      /\ Wanted(child') <=> Wanted(child)
  BY <1>1 DEF ChildReconcilesNeutral, Children, Wanted
<1> HIDE DEF e
<1>5. Admits(Wanted(child), e, Wanted(child'))
  BY <1>2, <1>4 DEF Admits, Troubles
<1>6. Speaks(child, <<e>>, child')
  BY <1>2, <1>4, <1>5, LineSpeaks
<1>7. stirs' \in [allowed : StirSets, count : 0..MaxStirs]
  BY StirTyped DEF HostInv, ChildReconcilesNeutral
<1> QED
  BY <1>1, <1>3, <1>6, <1>7, ChildSpeaksKeeps

(* It sees the permissions change.                                         *)
LEMMA SeesPermissionsKeeps ==
  ASSUME HostInv, ChildSeesPermissions, UNCHANGED notice
  PROVE  HostInv'
<1> DEFINE sight == IF Missing = {} THEN child.seen ELSE UnknownSnapshot
           e == PermissionsChanged(Missing)
           f == Topology(sight)
<1>1. /\ child \in Children /\ world' \in Worlds
      /\ child.phase = "RUNNING" /\ Len(pipe) <= PipeRoom
      /\ UNCHANGED <<app, notice>>
      /\ Missing \in SUBSET Gates /\ child.seen \in Controllers
  BY ChildFacts DEF ChildSeesPermissions, ChildRuns
<1>2. sight \in Sights
  BY <1>1 DEF Sights
<1>3. /\ e \in Events /\ f \in Events /\ e.event = "permissions_changed"
      /\ f.event = "topology" /\ f.snapshot = sight
  <2> HIDE DEF sight
  <2> QED
    BY <1>1, <1>2, LinesAreEvents DEF PermissionsChanged, Topology
<1>4. pipe' = pipe \o <<e, f>>
  BY DEF ChildSeesPermissions, Emit
<1>5. /\ child' \in Children /\ child'.phase = "RUNNING"
      /\ child'.stopping = child.stopping
      /\ Wanted(child') => sight.state = "SINGLE"
  BY <1>1 DEF ChildSeesPermissions, Children, Wanted
<1> HIDE DEF e, f, sight
<1>6. /\ Admits(Wanted(child), e, Wanted(child))
      /\ Admits(Wanted(child), f, Wanted(child'))
      /\ Wanted(child) \in BOOLEAN
  BY <1>3, <1>5 DEF Admits, Troubles, Wanted
<1>7. Speaks(child, <<e, f>>, child')
  BY <1>3, <1>5, <1>6, TwoLinesSpeak
<1>8. stirs' \in [allowed : StirSets, count : 0..MaxStirs]
  BY StirTyped DEF HostInv, ChildSeesPermissions
<1> QED
  BY <1>1, <1>4, <1>7, <1>8, ChildSpeaksKeeps

(* It finds that it may not post any more.                                 *)
LEMMA FindsPostDeniedKeeps ==
  ASSUME HostInv, ChildFindsPostDenied, UNCHANGED notice
  PROVE  HostInv'
<1> DEFINE denied == [child EXCEPT !.missing = {"ACCESSIBILITY"}]
           stuck == Stuck(denied)
           line == LatchLine(child, "HOLD_RELEASE")
           none == <<>>
<1>1. /\ child \in Children /\ pipe \in Seq(Events) /\ world' \in Worlds
      /\ child.phase = "RUNNING" /\ Len(pipe) <= PipeRoom
      /\ UNCHANGED <<app, notice>>
  BY ChildFacts DEF ChildFindsPostDenied, ChildRuns
<1>2. /\ denied \in Children /\ denied.phase = "RUNNING"
      /\ denied.stopping = child.stopping /\ ~Wanted(denied)
  <2>1. {"ACCESSIBILITY"} \in SUBSET Gates /\ {"ACCESSIBILITY"} # {}
    BY DEF Gates
  <2> QED
    BY <1>1, <2>1 DEF Children, Wanted
<1>3. line \in Seq(Events) /\ Len(line) <= 3
  <2>1. line \in Seq(Events) /\ Len(line) <= 1
    BY <1>1, LatchedTyped DEF SafetyFailures
  <2> HIDE DEF line
  <2> QED
    BY <2>1
<1>4. none = <<>> /\ pipe \o none = pipe
  <2>1. pipe \o <<>> = pipe
    BY <1>1
  <2> QED
    BY <2>1
<1>5. \/ child' = denied /\ pipe' = pipe
      \/ child' = stuck /\ pipe' = pipe \o line
  BY DEF ChildFindsPostDenied, Emit
<1> HIDE DEF denied
<1>6. stuck \in Children /\ stuck.phase = "RUNNING" /\ stuck.stopping
  BY <1>2, StuckTyped
<1> HIDE DEF stuck, line, none
<1>7. Speaks(child, none, denied)
  <2>1. Opens(child, none, denied)
    BY <1>2, <1>4 DEF Opens
  <2> QED
    BY <1>2, <2>1, OpeningSpeaks
<1>8. Speaks(child, line, stuck)
  BY <1>3, <1>6, StoppingSpeaks
<1>9. stirs' \in [allowed : StirSets, count : 0..MaxStirs]
  BY StirTyped DEF HostInv, ChildFindsPostDenied
<1>10. CASE child' = denied /\ pipe' = pipe
  <2>1. pipe' = pipe \o none
    BY <1>4, <1>10
  <2> QED
    BY <1>1, <1>7, <1>9, <1>10, <2>1, ChildSpeaksKeeps
<1>11. CASE child' = stuck /\ pipe' = pipe \o line
  BY <1>1, <1>8, <1>9, <1>11, ChildSpeaksKeeps
<1> QED
  BY <1>5, <1>10, <1>11

(* It loses the device.                                                    *)
LEMMA LosesDeviceKeeps ==
  ASSUME HostInv, ChildLosesDevice, UNCHANGED notice
  PROVE  HostInv'
<1> DEFINE latched == Latched(child, "DEVICE_UNCERTAIN")
           line == LatchLine(child, "DEVICE_UNCERTAIN")
           e == Topology(UnknownSnapshot)
           lines == <<e>> \o line
<1>1. /\ child \in Children /\ world' \in Worlds
      /\ child.phase = "RUNNING" /\ Len(pipe) <= PipeRoom
      /\ UNCHANGED <<app, notice>>
  BY ChildFacts DEF ChildLosesDevice, ChildRuns
<1>2. /\ latched \in Children /\ latched.phase = "RUNNING"
      /\ line \in Seq(Events) /\ Len(line) <= 1
  BY <1>1, LatchedTyped DEF SafetyFailures
<1>3. <<e>> \in Seq(Events) /\ Len(<<e>>) <= 1
  <2>1. e \in Events
    BY LinesAreEvents DEF Sights
  <2> HIDE DEF e
  <2>2. <<e>> \in Seq(Events) /\ Len(<<e>>) = 1
    BY <2>1
  <2> QED
    BY <2>2
<1>4. child' = [latched EXCEPT !.stopping = TRUE] /\ pipe' = pipe \o lines
  BY DEF ChildLosesDevice, Emit
<1> HIDE DEF latched, line, e
<1>5. child' \in Children /\ child'.phase = "RUNNING" /\ child'.stopping
  BY <1>2, <1>4 DEF Children
<1>6. lines \in Seq(Events) /\ Len(lines) <= 3
  BY <1>2, <1>3, SequencesJoin
<1> HIDE DEF lines
<1>7. Speaks(child, lines, child')
  BY <1>5, <1>6, StoppingSpeaks
<1>8. stirs' \in [allowed : StirSets, count : 0..MaxStirs]
  BY StirTyped DEF HostInv, ChildLosesDevice
<1> QED
  BY <1>1, <1>4, <1>7, <1>8, ChildSpeaksKeeps

(* A recovery reports.                                                     *)
LEMMA ReportsRecoveryKeeps ==
  ASSUME HostInv, ChildReportsRecovery, UNCHANGED notice
  PROVE  HostInv'
<1> DEFINE verified == child.filter = "APPLIED" /\ child.seen.state = "SINGLE"
           proven   == verified /\ child.missing = {}
           outcome  == IF ~proven THEN "FAILURE"
                       ELSE IF child.released THEN "SUCCESS"
                       ELSE "NEUTRAL_ENTRY_PENDING"
           e == [event      |-> "recovery_state",
                 outcome    |-> outcome,
                 snapshot   |-> child.seen,
                 released   |-> child.released,
                 permission |-> child.missing = {},
                 verified   |-> verified]
           p == pipe \o <<e>>
<1>1. /\ child \in Children /\ pipe \in Seq(Events) /\ world \in Worlds
      /\ child.phase = "RUNNING" /\ ~child.stopping
      /\ app' = app /\ notice' = notice /\ world' = world
      /\ child.seen \in Sights
      /\ pipe' = p /\ child' = [child EXCEPT !.stopping = TRUE]
  BY ChildFacts DEF ChildReportsRecovery, Emit, Sights
<1>2. e \in Events
  <2>1. /\ outcome \in RecoveryOutcomes /\ verified \in BOOLEAN
        /\ (child.missing = {}) \in BOOLEAN /\ child.released \in BOOLEAN
    BY <1>1 DEF RecoveryOutcomes, Children
  <2> HIDE DEF outcome, verified
  <2> QED
    BY <1>1, <2>1 DEF Events
<1> HIDE DEF e
<1>3. /\ child' \in Children /\ child'.phase = "RUNNING" /\ child'.stopping
  BY <1>1 DEF Children
<1>4. <<e>> \in Seq(Events) /\ Len(<<e>>) = 1 /\ Len(pipe) \in Nat
      /\ PipeRoom \in Nat
  BY <1>1, <1>2, StirsAssumption
<1>5. p \in Seq(Events) /\ Len(p) = Len(pipe) + 1
  BY <1>1, <1>4, SequencesJoin
<1> HIDE DEF p
<1>6. Len(pipe) <= PipeRoom + 6
  BY <1>1 DEF HostInv, Fits, Runs
<1>7. Runs(app, child', p)
  BY <1>1, <1>3, <1>4, <1>5, <1>6 DEF HostInv, Fits, Runs
<1>8. Obeys(app, child', p)
  BY <1>3 DEF Obeys
<1>9. Fits(app', child', pipe') /\ Settled(app')
  <2>1. Fits(app, child', p)
    BY <1>3, <1>4, <1>5, <1>6, <1>7, <1>8 DEF Fits
  <2> QED
    BY <1>1, <2>1 DEF HostInv
<1>10. stirs' \in [allowed : StirSets, count : 0..MaxStirs]
  BY StirTyped DEF HostInv, ChildReportsRecovery
<1>11. Surroundings'
  BY <1>1, <1>10 DEF HostInv, Surroundings
<1> QED
  BY <1>9, <1>11 DEF HostInv

(* The last lines of a listener that stops.                                *)
LEMMA LeavingKeeps ==
  ASSUME HostInv, child.phase = "RUNNING",
         NEW c \in Children, NEW lines \in Seq(Events), Len(lines) <= 2,
         NEW exit \in {"CLEAN", "FAILED"},
         pipe' = pipe \o (<<Topology(UnknownSnapshot)>> \o lines
                            \o <<Stopped(c)>>),
         child' = [c EXCEPT !.phase = "GONE", !.exit = exit],
         world' \in Worlds, stirs' \in [allowed : StirSets, count : 0..MaxStirs],
         UNCHANGED <<app, notice>>
  PROVE  HostInv'
<1> DEFINE e == Topology(UnknownSnapshot)
           f == Stopped(c)
           b == <<e>> \o lines
           l == b \o <<f>>
<1>1. e \in Events /\ f \in Events
  BY LinesAreEvents DEF Sights
<1>2. pipe' = pipe \o l
  OBVIOUS
<1> HIDE DEF e, f
<1>3. <<e>> \in Seq(Events) /\ Len(<<e>>) = 1
      /\ <<f>> \in Seq(Events) /\ Len(<<f>>) = 1
  BY <1>1
<1>4. b \in Seq(Events) /\ Len(b) <= 3
  BY <1>3, SequencesJoin
<1> HIDE DEF b
<1>5. l \in Seq(Events) /\ Len(l) <= 4
  BY <1>3, <1>4, SequencesJoin
<1> HIDE DEF l
<1>6. child' \in Children /\ child'.phase = "GONE"
  BY DEF Children
<1> QED
  BY <1>2, <1>5, <1>6, ChildEndsKeeps

(* The listener stops.                                                     *)
LEMMA StopsKeeps ==
  ASSUME HostInv, ChildStops, UNCHANGED notice
  PROVE  HostInv'
<1> DEFINE restored == [child EXCEPT !.filter = "OFF"]
           told == IF child.filter = "OFF" THEN <<>> ELSE <<FilterRestored>>
           Failed(c, why) == [Latched(c, why) EXCEPT !.releaseFailed = TRUE]
           ExitOf(c) == IF c.releaseFailed THEN "FAILED" ELSE "CLEAN"
           Leave(c, lines) ==
             /\ pipe' = pipe \o (<<Topology(UnknownSnapshot)>> \o lines
                                   \o <<Stopped(c)>>)
             /\ child' = [c EXCEPT !.phase = "GONE", !.exit = ExitOf(c)]
<1>1. /\ child \in Children /\ world \in Worlds
      /\ child.phase = "RUNNING" /\ UNCHANGED <<app, notice>>
  BY ChildFacts DEF ChildStops
<1>2. restored \in Children
  BY <1>1, ChildTyped
<1>3. ASSUME NEW c \in Children, NEW why \in SafetyFailures
      PROVE  Failed(c, why) \in Children
  <2> DEFINE d == Latched(c, why)
  <2>1. d \in Children
    BY LatchedTyped
  <2> HIDE DEF d
  <2>2. [d EXCEPT !.releaseFailed = TRUE] \in Children
    BY <2>1, ChildTyped
  <2> QED
    BY <2>2 DEF d
<1>4. told \in Seq(Events) /\ Len(told) <= 1
  <2>1. FilterRestored \in Events
    BY LinesAreEvents
  <2>2. <<FilterRestored>> \in Seq(Events) /\ Len(<<FilterRestored>>) <= 1
    BY <2>1
  <2>3. <<>> \in Seq(Events) /\ Len(<<>>) <= 1
    OBVIOUS
  <2> QED
    BY <2>2, <2>3
<1>5. \A why \in SafetyFailures :
        LatchLine(child, why) \in Seq(Events) /\ Len(LatchLine(child, why)) <= 1
  BY <1>1, LatchedTyped
<1>6. {"PASSTHROUGH_RESTORE", "HOLD_RELEASE", "DEVICE_UNCERTAIN"} \subseteq SafetyFailures
  BY DEF SafetyFailures
<1>7. /\ stirs' \in [allowed : StirSets, count : 0..MaxStirs]
      /\ world' \in Worlds
  <2>1. stirs' \in [allowed : StirSets, count : 0..MaxStirs]
    BY StirTyped DEF HostInv, ChildStops, HoldIsStuck
  <2>2. (world.filtered /\ child.filter = "OFF") \in BOOLEAN
    OBVIOUS
  <2>3. [world EXCEPT !.filtered = @ /\ child.filter = "OFF"] \in Worlds
    BY <1>1, <2>2, FilteredTyped
  <2>4. \/ world' = [world EXCEPT !.filtered = @ /\ child.filter = "OFF"]
        \/ world' = world
    BY DEF ChildStops
  <2> QED
    BY <1>1, <2>1, <2>3, <2>4
<1>8. \/ Leave(restored, told)
      \/ \E why \in {"PASSTHROUGH_RESTORE", "HOLD_RELEASE"} :
           Leave(Failed(child, why), LatchLine(child, why))
      \/ Leave(Failed(restored, "HOLD_RELEASE"),
               LatchLine(child, "HOLD_RELEASE") \o told)
      \/ Leave(Failed(restored, "DEVICE_UNCERTAIN"),
               told \o LatchLine(child, "DEVICE_UNCERTAIN"))
  BY DEF ChildStops, Emit, ExitOf, ChildExits
<1>9. \A c : ExitOf(c) \in {"CLEAN", "FAILED"}
  OBVIOUS
<1> HIDE DEF restored, told, Failed, ExitOf
<1>10. ASSUME NEW c \in Children, NEW lines \in Seq(Events), Len(lines) <= 2,
              Leave(c, lines)
       PROVE  HostInv'
  BY <1>1, <1>7, <1>9, <1>10, LeavingKeeps
<1>11. \A why \in SafetyFailures :
         /\ LatchLine(child, why) \o told \in Seq(Events)
         /\ Len(LatchLine(child, why) \o told) <= 2
         /\ told \o LatchLine(child, why) \in Seq(Events)
         /\ Len(told \o LatchLine(child, why)) <= 2
  BY <1>4, <1>5, SequencesJoin
<1> HIDE DEF Leave
<1>12. CASE Leave(restored, told)
  BY <1>2, <1>4, <1>10, <1>12
<1>13. ASSUME NEW why \in {"PASSTHROUGH_RESTORE", "HOLD_RELEASE"},
              Leave(Failed(child, why), LatchLine(child, why))
       PROVE  HostInv'
  <2>1. Failed(child, why) \in Children
    BY <1>1, <1>3, <1>6
  <2>2. /\ LatchLine(child, why) \in Seq(Events)
        /\ Len(LatchLine(child, why)) <= 2
    <3>1. /\ LatchLine(child, why) \in Seq(Events)
          /\ Len(LatchLine(child, why)) <= 1
      BY <1>5, <1>6
    <3> QED
      BY <3>1
  <2> QED
    BY <1>10, <1>13, <2>1, <2>2
<1>14. CASE Leave(Failed(restored, "HOLD_RELEASE"),
                  LatchLine(child, "HOLD_RELEASE") \o told)
  BY <1>2, <1>3, <1>6, <1>10, <1>11, <1>14
<1>15. CASE Leave(Failed(restored, "DEVICE_UNCERTAIN"),
                  told \o LatchLine(child, "DEVICE_UNCERTAIN"))
  BY <1>2, <1>3, <1>6, <1>10, <1>11, <1>15
<1> QED
  BY <1>8, <1>12, <1>13, <1>14, <1>15

(* Every step of the listener.                                             *)
LEMMA ChildStepKeeps ==
  ASSUME HostInv, ChildStep
  PROVE  HostInv'
<1>1. UNCHANGED notice
  BY DEF ChildStep
<1> QED
  BY <1>1, LacksPermissionKeeps, IsNotPermittedKeeps, BootsKeeps,
     CannotOpenKeeps, SilentEndKeeps,
     SeesControllerKeeps, AppliesFilterKeeps, CannotApplyKeeps,
     DropsUnwantedFilterKeeps, RestoresOwedKeeps, SeesFocusKeeps,
     ReconcilesNeutralKeeps, SeesPermissionsKeeps, FindsPostDeniedKeeps,
     LosesDeviceKeeps, ReportsRecoveryKeeps, StopsKeeps
  DEF ChildStep

-----------------------------------------------------------------------------
(* The app and the world step.                                             *)

(* No child, and one that boots.                                           *)
LEMMA NewChildrenTyped ==
  /\ NoChild \in Children /\ NoChild.phase = "NONE"
  /\ Booting \in Children /\ Booting.phase = "BOOTING"
<1>1. NoController \in Controllers
  BY DEF NoController, Controllers
<1>2. NoChild \in Children /\ NoChild.phase = "NONE"
  BY <1>1 DEF NoChild, Children, SafetyFailures
<1> QED
  BY <1>2 DEF Booting, Children

(* A step of the app: the child goes with its task, a new one boots with a *)
(* new generation, a signal stops it.                                      *)
LEMMA HostStepKeeps ==
  ASSUME HostInv, NEW g, Settled(g), Moves(app, g),
         Steady(app, g) \/ child.phase = "GONE", HostStep(g),
         notice' \in BOOLEAN, stirs' \in [allowed : StirSets, count : 0..MaxStirs]
  PROVE  HostInv'
<1>1. /\ app' = g /\ world \in Worlds /\ world.filtered \in BOOLEAN
      /\ PipeRoom \in Nat
      /\ <<>> \in Seq(Events) /\ Len(<<>>) = 0
  BY StirsAssumption DEF HostStep, HostInv, Surroundings, Worlds
<1>2. world' \in Worlds
  <2>1. CASE g.running /\ g.task
    BY <1>1, <2>1 DEF HostStep
  <2>2. CASE ~(g.running /\ g.task) /\ UNCHANGED world
    BY <1>1, <2>2
  <2>3. CASE \E left \in {world.filtered, FALSE} :
               world' = [world EXCEPT !.filtered = left]
    BY <1>1, <2>3, FilteredTyped
  <2> QED
    BY <2>1, <2>2, <2>3 DEF HostStep
<1>3. Surroundings'
  BY <1>2 DEF Surroundings
<1>4. CASE g.running /\ g.task
            /\ (~app.running \/ g.top.generation # app.top.generation)
  <2>1. child' = Booting /\ pipe' = <<>>
    BY <1>4 DEF HostStep
  <2>2. Runs(g, Booting, <<>>)
    BY <1>4, NewChildrenTyped DEF Runs
  <2>3. Obeys(g, Booting, <<>>)
    BY <1>4, NewChildrenTyped DEF Obeys, Moves
  <2>4. Fits(g, Booting, <<>>)
    BY <1>1, <2>2, <2>3, NewChildrenTyped DEF Fits
  <2> QED
    BY <1>1, <1>3, <2>1, <2>4 DEF HostInv
<1>5. CASE g.running /\ g.task /\ app.running
            /\ g.top.generation = app.top.generation
  <2>1. child' = child /\ pipe' = pipe
    BY <1>5 DEF HostStep
  <2>2. /\ app.task /\ g.recovery = app.recovery
        /\ app.signalled => g.signalled
    BY <1>5 DEF Moves
  <2>3. Runs(g, child, pipe)
    BY <1>5, <2>2 DEF HostInv, Fits, Runs
  <2>4. Obeys(g, child, pipe)
    BY <1>5, <2>2 DEF HostInv, Fits, Obeys, Steady
  <2>5. Fits(g, child, pipe)
    BY <2>3, <2>4 DEF HostInv, Fits
  <2> QED
    BY <1>1, <1>3, <2>1, <2>5 DEF HostInv
<1>6. CASE ~(g.running /\ g.task)
  <2>1. child' = NoChild /\ pipe' = <<>>
    BY <1>6 DEF HostStep
  <2>2. Runs(g, NoChild, <<>>)
    BY <1>6, NewChildrenTyped DEF Runs
  <2>3. Obeys(g, NoChild, <<>>)
    BY <1>6 DEF Obeys
  <2>4. Fits(g, NoChild, <<>>)
    BY <1>1, <2>2, <2>3, NewChildrenTyped DEF Fits
  <2> QED
    BY <1>1, <1>3, <2>1, <2>4 DEF HostInv
<1> QED
  BY <1>4, <1>5, <1>6

(* The same of a handler that is neither an event nor an end.              *)
LEMMA ActKeeps ==
  ASSUME HostInv, NEW g, Acts(app, g), HostStep(g),
         notice' \in BOOLEAN, stirs' \in [allowed : StirSets, count : 0..MaxStirs]
  PROVE  HostInv'
BY HostStepKeeps DEF Acts

(* What a handler sees of the world.                                       *)
LEMMA ViewTyped ==
  ASSUME HostInv, NEW shown \in BOOLEAN
  PROVE  View(shown) \in Views
BY DEF HostInv, Surroundings, Worlds, View, Views

(* The app reads a line.                                                   *)
LEMMA HostReadsKeeps ==
  ASSUME HostInv, HostReads, UNCHANGED notice
  PROVE  HostInv'
<1>1. /\ app.running /\ app.task /\ pipe # <<>> /\ Settled(app)
      /\ Fits(app, child, pipe) /\ pipe \in Seq(Events)
      /\ child' = child /\ pipe' = Tail(pipe)
      /\ world' = world /\ notice' = notice
  BY DEF HostReads, HostInv, Fits
<1> DEFINE e == Head(pipe)
<1>2. PICK shown \in BOOLEAN : app' = HandleEvent(app, View(shown), e)
  BY DEF HostReads
<1>3. e \in Events /\ Len(Tail(pipe)) = Len(pipe) - 1 /\ Len(pipe) \in Nat
      /\ Tail(pipe) \in Seq(Events) /\ PipeRoom \in Nat
  BY <1>1, StirsAssumption
<1> HIDE DEF e
<1>4. Listening(app)
  BY <1>1 DEF Settled, Listening, Named
<1>5. Heard(app, e, app')
  BY <1>2, <1>3, <1>4, ViewTyped, EventHeard
<1>6. /\ app'.running /\ app'.task /\ app'.recovery = app.recovery
      /\ app.signalled => app'.signalled
  BY <1>1, <1>5 DEF Heard, Hears, Watches
<1>7. Settled(app')
  BY <1>1, <1>5 DEF Heard, Hears, Watches, Observes, Settled, Named, AtRest
<1>8. Runs(app', child, Tail(pipe))
  <2>1. child.phase # "NONE" /\ child.phase # "BOOTING"
    BY <1>1 DEF Fits, Runs
  <2> QED
    BY <1>1, <1>3, <1>6, <2>1 DEF Fits, Runs
<1>9. child.phase \in {"RUNNING", "GONE"}
  BY <1>1 DEF Fits, Runs, Children
<1>10. Obeys(app', child, Tail(pipe))
  <2> SUFFICES ASSUME ~app.recovery, ~app'.signalled, ~child.stopping,
                      child.phase = "RUNNING"
               PROVE  ~Alarmed(app')
                      /\ Faithful(app'.top.snapshot, Tail(pipe), Wanted(child))
    BY <1>6, <1>9 DEF Obeys
  <2>1. ~Alarmed(app) /\ Faithful(app.top.snapshot, pipe, Wanted(child))
    BY <1>1, <1>6 DEF Fits, Obeys
  <2>2. /\ e.event \notin Troubles
        /\ e.event = "filter_applied" => app.top.snapshot.state = "SINGLE"
        /\ Faithful(IF e.event = "topology" THEN e.snapshot
                    ELSE app.top.snapshot, Tail(pipe), Wanted(child))
    BY <1>1, <2>1, ReadingIsFaithful DEF e
  <2>3. ~Alarmed(app') /\ app'.top.snapshot = Sighted(app, e)
    BY <1>5, <2>1, <2>2 DEF Heard, CalmEvent
  <2> QED
    BY <2>2, <2>3 DEF Sighted
<1>11. Fits(app', child', pipe')
  <2>1. child \in Children /\ Len(Tail(pipe)) <= PipeRoom + 11
    BY <1>1, <1>3 DEF Fits
  <2> QED
    BY <1>1, <1>3, <1>8, <1>10, <2>1 DEF Fits
<1>12. stirs' \in [allowed : StirSets, count : 0..MaxStirs]
  BY StirTyped DEF HostInv, HostReads
<1>13. Surroundings'
  BY <1>1, <1>12 DEF HostInv, Surroundings
<1> QED
  BY <1>7, <1>11, <1>13 DEF HostInv

(* It reads the end of the output.                                         *)
LEMMA HostSeesEOFKeeps ==
  ASSUME HostInv, HostSeesEOF, UNCHANGED notice
  PROVE  HostInv'
<1>1. /\ app.running /\ app.task /\ Settled(app) /\ child.phase = "GONE"
      /\ notice' \in BOOLEAN /\ child.partial \in BOOLEAN
  BY DEF HostSeesEOF, HostInv, Fits, Surroundings, Children
<1>2. PICK shown \in BOOLEAN, ok \in BOOLEAN :
        HostStep(OutputEOF(app, View(shown), child.partial, ok))
  BY DEF HostSeesEOF, HostStepMayLaunch
<1>3. stirs' \in [allowed : StirSets, count : 0..MaxStirs]
  BY StirTyped DEF HostInv, HostSeesEOF, HostStepMayLaunch
<1> DEFINE g == OutputEOF(app, View(shown), child.partial, ok)
<1>4. Settled(g) /\ Moves(app, g)
  BY <1>1, ViewTyped, OutputEOFMoves
<1> HIDE DEF g
<1>5. HostStep(g)
  BY <1>2 DEF g
<1> QED
  BY <1>1, <1>3, <1>4, <1>5, HostStepKeeps

(* It hears of the end of the process.                                     *)
LEMMA HostSeesExitKeeps ==
  ASSUME HostInv, HostSeesExit, UNCHANGED notice
  PROVE  HostInv'
<1>1. /\ app.running /\ app.task /\ Settled(app) /\ child.phase = "GONE"
      /\ notice' \in BOOLEAN /\ child.exit \in {"NONE", "CLEAN", "FAILED"}
  BY DEF HostSeesExit, HostInv, Fits, Surroundings, Children
<1>2. PICK shown \in BOOLEAN, ok \in BOOLEAN :
        HostStep(Termination(app, View(shown), child.exit, ok))
  BY DEF HostSeesExit, HostStepMayLaunch
<1>3. stirs' \in [allowed : StirSets, count : 0..MaxStirs]
  BY StirTyped DEF HostInv, HostSeesExit, HostStepMayLaunch
<1> DEFINE g == Termination(app, View(shown), child.exit, ok)
<1>4. Settled(g) /\ Moves(app, g)
  BY <1>1, ViewTyped, TerminationMoves
<1> HIDE DEF g
<1>5. HostStep(g)
  BY <1>2 DEF g
<1> QED
  BY <1>1, <1>3, <1>4, <1>5, HostStepKeeps

(* It hears of a session that switched.                                    *)
LEMMA HostSeesSessionKeeps ==
  ASSUME HostInv, HostSeesSession
  PROVE  HostInv'
<1>1. app.running /\ Settled(app) /\ notice' \in BOOLEAN
  BY DEF HostSeesSession, HostInv
<1>2. PICK shown \in BOOLEAN, ok \in BOOLEAN :
        HostStep(SessionDidChange(app, View(shown), ok))
  BY DEF HostSeesSession, HostStepMayLaunch
<1>3. stirs' \in [allowed : StirSets, count : 0..MaxStirs]
  BY StirTyped DEF HostInv, HostSeesSession, HostStepMayLaunch
<1> DEFINE g == SessionDidChange(app, View(shown), ok)
<1>4. Acts(app, g)
  BY <1>1, ViewTyped, SessionDidChangeActs
<1> HIDE DEF g
<1>5. HostStep(g)
  BY <1>2 DEF g
<1> QED
  BY <1>1, <1>3, <1>4, <1>5, ActKeeps

(* It is launched.                                                         *)
LEMMA AppLaunchesKeeps ==
  ASSUME HostInv, AppLaunches
  PROVE  HostInv'
<1>1. ~app.running /\ app \in Apps /\ notice' \in BOOLEAN
  BY DEF AppLaunches, HostInv, Settled, Sane
<1>2. PICK shown \in BOOLEAN, ok \in BOOLEAN :
        HostStep(Launch(app, View(shown), ok))
  BY DEF AppLaunches, HostStepMayLaunch
<1>3. stirs' \in [allowed : StirSets, count : 0..MaxStirs]
  BY StirTyped DEF HostInv, AppLaunches, HostStepMayLaunch
<1> DEFINE g == Launch(app, View(shown), ok)
<1>4. Settled(g) /\ Moves(app, g)
  BY <1>1, ViewTyped, LaunchActs
<1> HIDE DEF g
<1>5. HostStep(g)
  BY <1>2 DEF g
<1>6. Steady(app, g)
  BY <1>1 DEF Steady
<1> QED
  BY <1>1, <1>3, <1>4, <1>5, <1>6, HostStepKeeps

(* Opening the popover, the buttons and Quit.                              *)
LEMMA MenuKeeps ==
  ASSUME HostInv, UNCHANGED notice,
         HostRefreshes \/ UserEnables \/ UserDisables \/ UserChangesProfile
           \/ UserRetries \/ UserQuits
  PROVE  HostInv'
<1>1. app.running /\ Settled(app) /\ notice' \in BOOLEAN
  BY DEF HostRefreshes, UserEnables, UserDisables, UserChangesProfile,
     UserRetries, UserQuits, MenuIsUsable, HostInv, Surroundings
<1>2. stirs' \in [allowed : StirSets, count : 0..MaxStirs]
  BY StirTyped DEF HostRefreshes, UserEnables, UserDisables,
     UserChangesProfile, UserRetries, UserQuits, HostInv
<1>3. View(TRUE) \in Views
  BY ViewTyped
<1>4. ASSUME NEW g, Acts(app, g), HostStep(g) PROVE HostInv'
  BY <1>1, <1>2, <1>4, ActKeeps
<1>5. CASE HostRefreshes
  BY <1>1, <1>3, <1>4, <1>5, ObservationActs DEF HostRefreshes
<1>6. CASE UserEnables
  BY <1>1, <1>3, <1>4, <1>6, EnableActs DEF UserEnables, Shown
<1>7. CASE UserDisables
  BY <1>1, <1>3, <1>4, <1>7, DisableActs DEF UserDisables, Shown
<1>8. CASE UserChangesProfile
  BY <1>1, <1>3, <1>4, <1>8, ChangeProfileActs DEF UserChangesProfile, Shown
<1>9. CASE UserRetries
  BY <1>1, <1>3, <1>4, <1>9, RetryActs DEF UserRetries, Shown
<1>10. CASE UserQuits
  BY <1>1, <1>3, <1>4, <1>10, QuitActs DEF UserQuits, Shown
<1> QED
  BY <1>5, <1>6, <1>7, <1>8, <1>9, <1>10

(* It crashes.                                                             *)
LEMMA AppCrashesKeeps ==
  ASSUME HostInv, AppCrashes, UNCHANGED notice
  PROVE  HostInv'
<1> DEFINE g == [app EXCEPT !.running = FALSE]
<1>1. Settled(app) /\ app \in Apps /\ notice' \in BOOLEAN
  BY DEF HostInv, Settled, Sane, Surroundings
<1>2. /\ g \in Apps /\ ~g.running
      /\ g.task = app.task /\ g.recovery = app.recovery
      /\ g.coord = app.coord /\ g.top = app.top
      /\ g.permission = app.permission
  BY <1>1 DEF Apps
<1>3. HostStep(g) /\ stirs' \in [allowed : StirSets, count : 0..MaxStirs]
  BY StirTyped DEF AppCrashes, HostInv
<1> HIDE DEF g
<1>4. Acts(app, g)
  BY <1>1, <1>2 DEF Settled, Sane, Seated, Evidence, Acts, Moves, Steady
<1> QED
  BY <1>1, <1>3, <1>4, ActKeeps

(* The world moves.                                                        *)
LEMMA WorldStepKeeps ==
  ASSUME HostInv, WorldStep
  PROVE  HostInv'
<1>1. /\ app' = app /\ child' = child /\ pipe' = pipe
      /\ world \in Worlds /\ notice \in BOOLEAN
      /\ app.running \in BOOLEAN
  BY DEF WorldStep, HostInv, Surroundings, Settled, Sane, Apps
<1>2. stirs' \in [allowed : StirSets, count : 0..MaxStirs]
  BY StirTyped DEF WorldStep, ControllerMoves, PermissionMoves, FocusMoves,
     SessionMoves, HostInv
<1>3. world' \in Worlds
  <2>1. CASE ControllerMoves
    BY <1>1, <2>1 DEF ControllerMoves, Worlds
  <2>2. CASE PermissionMoves
    BY <1>1, <2>2 DEF PermissionMoves, Worlds
  <2>3. CASE FocusMoves
    BY <1>1, <2>3 DEF FocusMoves, Worlds
  <2>4. CASE SessionMoves
    BY <1>1, <2>4 DEF SessionMoves, Worlds
  <2> QED
    BY <2>1, <2>2, <2>3, <2>4 DEF WorldStep
<1>4. notice' \in BOOLEAN
  BY <1>1 DEF WorldStep, ControllerMoves, PermissionMoves, FocusMoves,
     SessionMoves
<1> QED
  BY <1>1, <1>2, <1>3, <1>4 DEF HostInv, Surroundings

(* The initial states.                                                     *)
LEMMA InitHolds ==
  ASSUME Init
  PROVE  HostInv
<1>1. PICK enabled \in BOOLEAN : app = [InitialApp EXCEPT !.enabled = enabled]
  BY DEF Init
<1>2. "NONE" \in SafetyFailures /\ FALSE \in BOOLEAN
  BY DEF SafetyFailures
<1> DEFINE l == Loaded(enabled, FALSE, "NONE")
<1>3. Sane(l) /\ Evidence(l) /\ ~l.task /\ l.coord = InitialState
  BY <1>2, LoadedIsSane
<1>4. /\ l.top = InitialApp.top /\ l.recovery = InitialApp.recovery
      /\ l.permission = InitialApp.permission
  BY DEF Loaded, InitialApp
<1>5. app \in Apps /\ ~app.running /\ ~app.task
      /\ app.coord = InitialState /\ app.top = InitialApp.top
      /\ app.recovery = InitialApp.recovery
      /\ app.permission = InitialApp.permission
  BY <1>1, InitialAppTyped DEF Apps
<1> HIDE DEF l
<1>6. Settled(app)
  BY <1>3, <1>4, <1>5 DEF Settled, Sane, Seated, Evidence
<1>7. /\ world \in Worlds /\ notice \in BOOLEAN
      /\ stirs \in [allowed : StirSets, count : 0..MaxStirs]
  <2>1. PICK controller \in Controllers, granted \in SUBSET Gates,
             foreground \in BOOLEAN, allowed \in StirSets :
          /\ granted # Gates => "permission" \in allowed /\ MaxStirs > 0
          /\ world = [controller |-> controller,
                      granted    |-> granted,
                      foreground |-> foreground,
                      session    |-> TRUE,
                      filtered   |-> FALSE]
          /\ stirs = [allowed |-> allowed,
                      count   |-> IF granted = Gates THEN 0 ELSE 1]
    BY DEF Init
  <2>2. world \in Worlds
    BY <2>1 DEF Worlds
  <2>3. (IF granted = Gates THEN 0 ELSE 1) \in 0..MaxStirs
    BY <2>1, StirsAssumption
  <2>4. stirs \in [allowed : StirSets, count : 0..MaxStirs]
    BY <2>1, <2>3
  <2> QED
    BY <2>2, <2>4 DEF Init
<1>8. /\ child = NoChild /\ pipe = <<>> /\ <<>> \in Seq(Events)
      /\ Len(<<>>) = 0 /\ PipeRoom \in Nat
  BY StirsAssumption DEF Init
<1>9. Fits(app, NoChild, <<>>)
  BY <1>5, <1>8, NewChildrenTyped DEF Fits, Runs, Obeys
<1> QED
  BY <1>6, <1>7, <1>8, <1>9 DEF HostInv, Surroundings

-----------------------------------------------------------------------------
(* The theorems.                                                           *)

(* Every step keeps HostInv.                                               *)
LEMMA NextKeeps ==
  ASSUME HostInv, [Next]_vars
  PROVE  HostInv'
<1>1. CASE ChildStep
  BY <1>1, ChildStepKeeps
<1>2. CASE AppStep
  BY <1>2, HostReadsKeeps, HostSeesEOFKeeps, HostSeesExitKeeps, MenuKeeps,
     AppCrashesKeeps, HostSeesSessionKeeps, AppLaunchesKeeps
  DEF AppStep
<1>3. CASE WorldStep
  BY <1>3, WorldStepKeeps
<1>4. CASE UNCHANGED vars
  BY <1>4 DEF vars, HostInv, Surroundings
<1> QED
  BY <1>1, <1>2, <1>3, <1>4 DEF Next

(* HostInv holds in every reachable state, whatever the controllers, the   *)
(* stirs and the bounds.                                                   *)
THEOREM HostInvariant == Spec => []HostInv
BY InitHolds, NextKeeps, PTL DEF Spec

(* A refused recovery is remembered for good.                              *)
LEMMA RefusedGrows ==
  ASSUME [Next]_vars
  PROVE  refused' = refused \/ refused' = (refused \/ app.recovery)
BY DEF Next, ChildStep, vars

LEMMA RefusedTyped == Spec => [](refused \in BOOLEAN)
<1>1. Init => refused \in BOOLEAN
  BY DEF Init
<1>2. refused \in BOOLEAN /\ [Next]_vars => (refused \in BOOLEAN)'
  BY RefusedGrows
<1> QED
  BY <1>1, <1>2, PTL DEF Spec

(* The types of the app, its listener and the pipe between them; in        *)
(* particular the pipe is bounded.                                         *)
THEOREM TypeCorrect == Spec => []TypeOK
<1>1. HostInv /\ refused \in BOOLEAN => TypeOK
  BY DEF HostInv, Settled, Sane, Fits, Surroundings, TypeOK
<1> QED
  BY <1>1, HostInvariant, RefusedTyped, PTL

(* What the topology authority believes of the filter and of Neutral Entry *)
(* has a ground in the snapshot it holds (Grounded;                        *)
(* muse_on_topology_authority.m).                                          *)
THEOREM BeliefsAreGrounded == Spec => []BeliefIsGrounded
<1>1. HostInv => BeliefIsGrounded
  BY DEF HostInv, Settled, Sane, Believes, BeliefIsGrounded
<1> QED
  BY <1>1, HostInvariant, PTL

(* Control that is Active has a live normal listener, one controller, the  *)
(* permission, a verified filter and released inputs, all of the same      *)
(* generation (muse_on_menu_bar.m, applyState).                            *)
THEOREM ActiveAlwaysHasItsEvidence == Spec => []ActiveHasItsEvidence
<1>1. HostInv => ActiveHasItsEvidence
  BY DEF HostInv, Settled, Sane, Believes, Grounded, Coherent, GatedDispatch,
     Seated, Evidence, ActiveHasItsEvidence
<1> QED
  BY <1>1, HostInvariant, PTL

(* Control that is Disabled has no listener: neither a start nor a late    *)
(* event brings one back (muse_on_menu_bar.m, startListenerRecovering:,    *)
(* handleTermination).                                                     *)
THEOREM DisabledNeverHasListener == Spec => []DisabledHasNoListener
<1>1. HostInv => DisabledHasNoListener
  BY DEF HostInv, Settled, DisabledHasNoListener
<1> QED
  BY <1>1, HostInvariant, PTL

(* A normal listener does not go on behind a safety latch: it has been     *)
(* told to stop, or is on its way out (muse_on_menu_bar.m,                 *)
(* invalidateTopology, terminateListener).                                 *)
THEOREM LatchAlwaysStopsListener == Spec => []LatchStopsListener
<1>1. HostInv => LatchStopsListener
  BY DEF HostInv, Fits, Obeys, Alarmed, LatchStopsListener
<1> QED
  BY <1>1, HostInvariant, PTL

-----------------------------------------------------------------------------
(* What a handler remembers of the latch, the intent and the saved marks.  *)

(* Control has a reason not to be Disabled.                                *)
Wants(s) == s.enabled_intent \/ s.disable_pending \/ s.quit_requested

(* It is latched and will not drop the latch for want of a reason.         *)
Holds(s) == s.safety_latched /\ Wants(s)

(* What a call of the coordinator, s to t on command c, remembers: the     *)
(* latch is kept unless Disable or Retry finds the cleanup verified, and   *)
(* entered over a failure.                                                 *)
Remembers(s, c, verified, failed, t) ==
  /\ t \in CoordinatorStates
  /\ t.enabled_intent <=> (s.enabled_intent \/ c = "ENABLE") /\ c # "DISABLE"
  /\ t.quit_requested => c # "DISABLE" /\ (s.quit_requested \/ c = "QUIT")
  /\ Wants(s) /\ c = "NONE" => Wants(t)
  /\ Holds(s) /\ (c \in {"DISABLE", "RETRY"} => ~verified) => Holds(t)
  /\ (Wants(s) \/ c \in {"ENABLE", "DISABLE"}) /\ failed => Holds(t)
  /\ c = "DISABLE" /\ ~verified => Holds(t)

(* Entering the latch, from any state.                                     *)
LEMMA SetSafetyLatchLatches ==
  ASSUME NEW s \in CoordinatorStates, NEW failure \in SafetyFailures,
         NEW p \in Prerequisites, NEW t, t = SetSafetyLatch(s, failure, p)
  PROVE  /\ t \in CoordinatorStates
         /\ t.safety_latched
         /\ t.enabled_intent = s.enabled_intent
         /\ t.quit_requested = s.quit_requested
         /\ t.disable_pending = s.disable_pending
<1> DEFINE name == IF failure # "NONE" THEN failure
                   ELSE IF s.safety_failure = "NONE" THEN "DEVICE_UNCERTAIN"
                   ELSE s.safety_failure
           filter == s.enabled_intent /\ Reserved(p)
<1>1. name \in SafetyFailures /\ filter \in BOOLEAN
      /\ "SAFETY_LATCH" \in Statuses /\ "SAFETY_LATCH" \in InactiveReasons
  BY DEF CoordinatorStates, SafetyFailures, Statuses, InactiveReasons, Reserved
<1>2. t = [s EXCEPT !.status           = "SAFETY_LATCH",
                    !.inactive_reason  = "SAFETY_LATCH",
                    !.safety_latched   = TRUE,
                    !.safety_failure   = name,
                    !.request_filter   = filter,
                    !.request_dispatch = FALSE]
  BY DEF SetSafetyLatch, CoordinatorStates
<1> HIDE DEF name, filter
<1> QED
  BY <1>1, <1>2 DEF CoordinatorStates

(* Disable, over any state.                                                *)
LEMMA DisableLatches ==
  ASSUME NEW s \in CoordinatorStates, NEW p \in Prerequisites,
         NEW t, t = ApplyDisable(s, p)
  PROVE  /\ t \in CoordinatorStates
         /\ t.enabled_intent = s.enabled_intent /\ ~t.quit_requested
         /\ ~CleanupIsVerified(p) => t.safety_latched /\ t.disable_pending
<1> DEFINE u == [s EXCEPT !.disable_pending = TRUE,
                          !.quit_requested  = FALSE,
                          !.request_cleanup = TRUE]
           f == ObservedSafetyFailure(p)
<1>1. /\ u \in CoordinatorStates
      /\ u.enabled_intent = s.enabled_intent
      /\ u.disable_pending /\ ~u.quit_requested
  BY DEF CoordinatorStates
<1>2. t = IF CleanupIsVerified(p) THEN SetDisabled(u) ELSE SetSafetyLatch(u, f, p)
  BY DEF ApplyDisable
<1>3. f \in SafetyFailures
  BY DEF ObservedSafetyFailure, Prerequisites
<1> HIDE DEF u, f
<1> QED
  BY <1>1, <1>2, <1>3, SetDisabledIsCoherent, SetSafetyLatchLatches

(* A call while a Disable is pending.                                      *)
LEMMA PendingLatches ==
  ASSUME NEW s \in CoordinatorStates, NEW c \in Commands,
         NEW p \in Prerequisites, s.disable_pending,
         NEW t, t = ApplyWhilePending(s, c, p)
  PROVE  /\ t \in CoordinatorStates
         /\ t.enabled_intent = s.enabled_intent
         /\ t.quit_requested => s.quit_requested
         /\ c # "RETRY" \/ ~CleanupIsVerified(p) =>
              t.safety_latched /\ t.disable_pending
<1> DEFINE u == [s EXCEPT !.request_cleanup = TRUE]
           f == ObservedSafetyFailure(p)
<1>1. /\ u \in CoordinatorStates
      /\ u.enabled_intent = s.enabled_intent
      /\ u.quit_requested = s.quit_requested
      /\ u.disable_pending
  BY DEF CoordinatorStates
<1>2. t = IF c # "RETRY" THEN SetSafetyLatch(s, "NONE", p)
          ELSE IF CleanupIsVerified(p) THEN SetDisabled(u)
          ELSE SetSafetyLatch(u, f, p)
  BY DEF ApplyWhilePending
<1>3. f \in SafetyFailures /\ "NONE" \in SafetyFailures
  BY DEF ObservedSafetyFailure, Prerequisites, SafetyFailures
<1> HIDE DEF u, f
<1> QED
  BY <1>1, <1>2, <1>3, SetDisabledIsCoherent, SetSafetyLatchLatches

(* A call while a Quit is asked for.                                       *)
LEMMA QuitLatches ==
  ASSUME NEW s \in CoordinatorStates, NEW p \in Prerequisites,
         NEW t, t = ApplyQuit(s, p)
  PROVE  /\ t \in CoordinatorStates
         /\ t.enabled_intent = s.enabled_intent
         /\ t.quit_requested = s.quit_requested
         /\ t.disable_pending = s.disable_pending
         /\ s.safety_latched => t.safety_latched
         /\ ~CleanupIsVerified(p) => t.safety_latched
<1> DEFINE u == [s EXCEPT !.request_cleanup = TRUE]
           v == [u EXCEPT !.quit_allowed     = TRUE,
                          !.request_filter   = FALSE,
                          !.request_dispatch = FALSE]
           f == ObservedSafetyFailure(p)
<1>1. /\ u \in CoordinatorStates
      /\ u.enabled_intent = s.enabled_intent
      /\ u.quit_requested = s.quit_requested
      /\ u.disable_pending = s.disable_pending
      /\ u.safety_latched = s.safety_latched
  BY DEF CoordinatorStates
<1>2. t = IF CleanupIsVerified(p) THEN v ELSE SetSafetyLatch(u, f, p)
  BY DEF ApplyQuit
<1>3. f \in SafetyFailures
  BY DEF ObservedSafetyFailure, Prerequisites
<1> HIDE DEF u, f
<1>4. /\ v \in CoordinatorStates
      /\ v.enabled_intent = s.enabled_intent
      /\ v.quit_requested = s.quit_requested
      /\ v.disable_pending = s.disable_pending
      /\ v.safety_latched = s.safety_latched
  BY <1>1 DEF CoordinatorStates
<1> HIDE DEF v
<1> QED
  BY <1>1, <1>2, <1>3, <1>4, SetSafetyLatchLatches

(* A call while Control is enabled.                                        *)
LEMMA EnabledLatches ==
  ASSUME NEW s \in CoordinatorStates, NEW c \in Commands,
         NEW p \in Prerequisites,
         s.enabled_intent, ~s.disable_pending, ~s.quit_requested,
         NEW t, t = ApplyEnabled(s, c, p)
  PROVE  /\ t \in CoordinatorStates
         /\ t.enabled_intent
         /\ ~t.quit_requested
         /\ s.safety_latched /\ (c = "RETRY" => ~CleanupIsVerified(p)) =>
              t.safety_latched
         /\ p.safety_failure # "NONE" => t.safety_latched
<1> DEFINE u == UpdateLatch(s, c, p)
           v == [u EXCEPT !.request_cleanup = c = "RETRY"]
<1>1. /\ u \in CoordinatorStates
      /\ u.enabled_intent /\ ~u.quit_requested
  BY UpdateLatchFacts
<1>2. t = IF u.safety_latched THEN SetSafetyLatch(v, "NONE", p)
          ELSE SetActiveOrInactive(u, p)
  BY DEF ApplyEnabled
<1>3. /\ p.safety_failure # "NONE" => t.safety_latched
      /\ t \in CoordinatorStates /\ t.enabled_intent
  BY ApplyEnabledFollows, ApplyEnabledIsCoherent
<1>4. s.safety_latched /\ (c = "RETRY" => ~CleanupIsVerified(p)) =>
        t.safety_latched
  BY ApplyEnabledIsCoherent
<1> HIDE DEF u
<1>5. /\ v \in CoordinatorStates
      /\ ~v.quit_requested
      /\ "NONE" \in SafetyFailures
  BY <1>1 DEF CoordinatorStates, SafetyFailures
<1> HIDE DEF v
<1>6. SetActiveOrInactive(u, p).quit_requested = u.quit_requested
  BY <1>1 DEF SetActiveOrInactive, CoordinatorStates
<1>7. ~t.quit_requested
  BY <1>1, <1>2, <1>5, <1>6, SetSafetyLatchLatches
<1> QED
  BY <1>3, <1>4, <1>7

(* Whatever the command, over any state.                                   *)
LEMMA ApplyRemembers ==
  ASSUME NEW s \in CoordinatorStates, NEW c \in Commands,
         NEW p \in Prerequisites
  PROVE  Remembers(s, c, CleanupIsVerified(p), p.safety_failure # "NONE",
                   Apply(s, c, p))
<1> DEFINE f == FoldCommand(s, c)
           t == Apply(s, c, p)
<1>1. /\ f \in CoordinatorStates
      /\ f.disable_pending = s.disable_pending
      /\ f.safety_latched = s.safety_latched
      /\ f.enabled_intent <=>
           (s.enabled_intent \/ c = "ENABLE") /\ c # "DISABLE"
      /\ f.quit_requested <=> s.quit_requested \/ c = "QUIT"
  BY FoldCommandFacts
<1>2. t = IF c = "DISABLE"          THEN ApplyDisable(f, p)
          ELSE IF f.disable_pending THEN ApplyWhilePending(f, c, p)
          ELSE IF f.quit_requested  THEN ApplyQuit(f, p)
          ELSE IF ~f.enabled_intent THEN SetDisabled(f)
          ELSE ApplyEnabled(f, c, p)
  BY DEF Apply
<1>3. p.safety_failure # "NONE" => ~CleanupIsVerified(p)
  BY DEF CleanupIsVerified, ObservedSafetyFailure
<1> DEFINE R(x) == Remembers(s, c, CleanupIsVerified(p),
                             p.safety_failure # "NONE", x)
<1> HIDE DEF f, t
<1>4. CASE c = "DISABLE"
  <2>1. /\ t \in CoordinatorStates
        /\ t.enabled_intent = f.enabled_intent /\ ~t.quit_requested
        /\ ~CleanupIsVerified(p) => t.safety_latched /\ t.disable_pending
    BY <1>1, <1>2, <1>4, DisableLatches
  <2> QED
    BY <2>1, <1>1, <1>3, <1>4 DEF Remembers, Wants, Holds, t
<1>5. CASE c # "DISABLE" /\ f.disable_pending
  <2>1. /\ t \in CoordinatorStates
        /\ t.enabled_intent = f.enabled_intent
        /\ t.quit_requested => f.quit_requested
        /\ c # "RETRY" \/ ~CleanupIsVerified(p) =>
             t.safety_latched /\ t.disable_pending
    BY <1>1, <1>2, <1>5, PendingLatches
  <2> QED
    BY <2>1, <1>1, <1>3, <1>5 DEF Remembers, Wants, Holds, t
<1>6. CASE c # "DISABLE" /\ ~f.disable_pending /\ f.quit_requested
  <2>1. /\ t \in CoordinatorStates
        /\ t.enabled_intent = f.enabled_intent
        /\ t.quit_requested = f.quit_requested
        /\ t.disable_pending = f.disable_pending
        /\ f.safety_latched => t.safety_latched
        /\ ~CleanupIsVerified(p) => t.safety_latched
    BY <1>1, <1>2, <1>6, QuitLatches
  <2> QED
    BY <2>1, <1>1, <1>3, <1>6 DEF Remembers, Wants, Holds, t
<1>7. CASE /\ c # "DISABLE" /\ ~f.disable_pending /\ ~f.quit_requested
           /\ ~f.enabled_intent
  <2>1. /\ t \in CoordinatorStates
        /\ t.enabled_intent = f.enabled_intent
        /\ ~t.quit_requested
    BY <1>1, <1>2, <1>7, SetDisabledIsCoherent
  <2> QED
    BY <2>1, <1>1, <1>3, <1>7 DEF Remembers, Wants, Holds, t
<1>8. CASE /\ c # "DISABLE" /\ ~f.disable_pending /\ ~f.quit_requested
           /\ f.enabled_intent
  <2>1. /\ t \in CoordinatorStates
        /\ t.enabled_intent
        /\ ~t.quit_requested
        /\ f.safety_latched /\ (c = "RETRY" => ~CleanupIsVerified(p)) =>
             t.safety_latched
        /\ p.safety_failure # "NONE" => t.safety_latched
    BY <1>1, <1>2, <1>8, EnabledLatches
  <2> QED
    BY <2>1, <1>1, <1>3, <1>8 DEF Remembers, Wants, Holds, t
<1> QED
  BY <1>4, <1>5, <1>6, <1>7, <1>8

(* A pending Disable is saved, and a Quit is asked for only of Enabled     *)
(* Control.                                                                *)
Owning(a) ==
  /\ a.coord.disable_pending => a.savedPending
  /\ a.coord.quit_requested => a.coord.enabled_intent

(* g is h after a call of the coordinator.                                 *)
Recalls(h, c, verified, failed, g) ==
  /\ g \in Apps
  /\ Keeps(h, g)
  /\ Remembers(h.coord, c, verified, failed, g.coord)
  /\ g.coord.disable_pending => g.savedPending

(* A call of the coordinator through the delegate.                         *)
LEMMA CommandRecalls ==
  ASSUME NEW h \in Apps, NEW w \in Views, NEW c \in Commands,
         NEW cleanup \in BOOLEAN, NEW failure \in SafetyFailures
  PROVE  Recalls(h, c, cleanup /\ failure = "NONE", failure # "NONE",
                 Command(h, w, c, cleanup, failure))
<1> DEFINE p == PrerequisitesOf(h.top, c, failure, cleanup, h.permission,
                                w.session, w.foreground)
           next == Apply(h.coord, c, p)
           saved == \/ next.disable_pending
                    \/ h.savedPending /\ next.status # "DISABLED"
           g == Command(h, w, c, cleanup, failure)
<1>1. /\ h.coord \in CoordinatorStates /\ h.top \in Beliefs
      /\ h.permission \in BOOLEAN /\ h.savedPending \in BOOLEAN
      /\ w.session \in BOOLEAN /\ w.foreground \in BOOLEAN
  BY DEF Apps, Views
<1>2. Conveys(h.top, failure, cleanup, h.permission, p)
  BY <1>1, PrerequisitesTyped
<1>3. Remembers(h.coord, c, CleanupIsVerified(p), p.safety_failure # "NONE", next)
  BY <1>1, <1>2, ApplyRemembers DEF Conveys
<1>4. g = [h EXCEPT !.coord = next, !.savedPending = saved]
  BY DEF Command, Informed
<1>5. next \in CoordinatorStates /\ saved \in BOOLEAN
  BY <1>1, <1>3 DEF Remembers, CoordinatorStates
<1>6. next.disable_pending => saved
  OBVIOUS
<1> HIDE DEF p, next, saved, g
<1>7. /\ g \in Apps /\ g.coord = next /\ g.savedPending = saved /\ Keeps(h, g)
  BY <1>4, <1>5, InformedTyped DEF Apps
<1>8. Remembers(h.coord, c, cleanup /\ failure = "NONE", failure # "NONE", g.coord)
  BY <1>2, <1>3, <1>7 DEF Remembers, Conveys
<1> QED
  BY <1>6, <1>7, <1>8 DEF Recalls, g

(* What a handler carries over that goes on with what it has: listener,    *)
(* purpose, marker, reason and latch.  A recovery is taken for validated   *)
(* only over a claim of the listener.                                      *)
Carries(h, claim, g) ==
  /\ g \in Apps
  /\ g.running = h.running /\ g.enabled = h.enabled
  /\ g.task = h.task /\ g.recovery = h.recovery
  /\ g.purpose = h.purpose
  /\ g.savedSafe = h.savedSafe
  /\ g.permissionRequired = h.permissionRequired
  /\ g.termination = h.termination
  /\ g.top.generation = h.top.generation
  /\ g.top.recovery_validated => h.top.recovery_validated \/ claim
  /\ Owning(h) => Owning(g)
  /\ Wants(h.coord) => Wants(g.coord)
  /\ Holds(h.coord) => Holds(g.coord)

(* One after the other.                                                    *)
LEMMA CarriesOn ==
  ASSUME NEW h, NEW claim, NEW x, NEW more, NEW g,
         Carries(h, claim, x), Carries(x, more, g)
  PROVE  Carries(h, claim \/ more, g)
BY DEF Carries

(* A call without a command.                                               *)
LEMMA NoteCarries ==
  ASSUME NEW h \in Apps, NEW w \in Views, NEW cleanup \in BOOLEAN,
         NEW failure \in SafetyFailures
  PROVE  /\ Carries(h, FALSE, Command(h, w, "NONE", cleanup, failure))
         /\ Wants(h.coord) /\ failure # "NONE" =>
              Holds(Command(h, w, "NONE", cleanup, failure).coord)
<1> DEFINE g == Command(h, w, "NONE", cleanup, failure)
<1>1. Recalls(h, "NONE", cleanup /\ failure = "NONE", failure # "NONE", g)
  BY CommandRecalls DEF Commands
<1> HIDE DEF g
<1>2. Carries(h, FALSE, g)
  BY <1>1 DEF Recalls, Keeps, Remembers, Carries, Owning
<1>3. Wants(h.coord) /\ failure # "NONE" => Holds(g.coord)
  BY <1>1 DEF Recalls, Remembers
<1> QED
  BY <1>2, <1>3 DEF g

(* The delegate's calls without a command.                                 *)
LEMMA ObserveCarries ==
  ASSUME NEW h \in Apps, NEW w \in Views
  PROVE  /\ Carries(h, FALSE, Observe(h, w))
         /\ Carries(h, FALSE, RefreshIfShown(h, w))
         /\ Carries(h, FALSE, Unverified(h, w, "NONE"))
         /\ Wants(h.coord) /\ h.safetyFailure # "NONE" =>
              /\ Holds(Observe(h, w).coord)
              /\ Holds(Unverified(h, w, "NONE").coord)
<1>1. h.safetyFailure \in SafetyFailures
  BY DEF Apps
<1>2. Carries(h, FALSE, h)
  BY DEF Carries
<1> QED
  BY <1>1, <1>2, NoteCarries DEF Observe, Update, Unverified, RefreshIfShown

(* And with a refresh after any of them.                                   *)
LEMMA RefreshCarries ==
  ASSUME NEW h, NEW claim, NEW g, Carries(h, claim, g), NEW w \in Views
  PROVE  /\ Carries(h, claim, RefreshIfShown(g, w))
         /\ Carries(h, claim, Observe(g, w))
<1>1. g \in Apps
  BY DEF Carries
<1>2. /\ Carries(g, FALSE, RefreshIfShown(g, w))
      /\ Carries(g, FALSE, Observe(g, w))
  BY <1>1, ObserveCarries
<1> QED
  BY <1>2 DEF Carries

(* What becomes of a belief, as far as recoveries and generations go.      *)
Trusts(t, claim, u) ==
  /\ u \in Beliefs
  /\ u.generation = t.generation
  /\ u.recovery_validated => t.recovery_validated \/ claim

(* The delegate changes no field that Carries looks at but its belief.     *)
Beside(h, claim, x) ==
  /\ x \in Apps
  /\ x.running = h.running /\ x.enabled = h.enabled
  /\ x.task = h.task /\ x.recovery = h.recovery
  /\ x.purpose = h.purpose
  /\ x.savedSafe = h.savedSafe /\ x.savedPending = h.savedPending
  /\ x.permissionRequired = h.permissionRequired
  /\ x.termination = h.termination
  /\ x.coord = h.coord
  /\ Trusts(h.top, claim, x.top)

(* That carries everything over.                                           *)
LEMMA BesideCarries ==
  ASSUME NEW h, NEW claim, NEW x, Beside(h, claim, x)
  PROVE  Carries(h, claim, x)
BY DEF Beside, Carries, Trusts, Owning

(* The belief alone is changed.                                            *)
LEMMA BeliefBeside ==
  ASSUME NEW h \in Apps, NEW claim, NEW t, Trusts(h.top, claim, t)
  PROVE  Beside(h, claim, [h EXCEPT !.top = t])
BY DEF Beside, Trusts, Apps

(* What was heard of the permissions,                                      *)
LEMMA PermissionsBeside ==
  ASSUME NEW h, NEW claim, NEW x, Beside(h, claim, x),
         NEW missing \in SUBSET Gates, NEW permission \in BOOLEAN
  PROVE  /\ Beside(h, claim, [x EXCEPT !.missing = missing,
                                      !.permission = permission])
         /\ Beside(h, claim, [x EXCEPT !.permission = permission])
BY DEF Beside, Apps

(* of the filter,                                                          *)
LEMMA FilterBeside ==
  ASSUME NEW h, NEW claim, NEW x, Beside(h, claim, x), NEW saw \in BOOLEAN
  PROVE  /\ Beside(h, claim, [x EXCEPT !.sawFilterApplied = saw])
         /\ Beside(h, claim, [x EXCEPT !.sawFilterRestored = saw])
         /\ Beside(h, claim, [x EXCEPT !.signalled = saw])
BY DEF Beside, Apps

(* and of a failure.                                                       *)
LEMMA FailureBeside ==
  ASSUME NEW h, NEW claim, NEW x, Beside(h, claim, x), NEW saw \in BOOLEAN,
         NEW failure \in SafetyFailures
  PROVE  Beside(h, claim, [x EXCEPT !.sawSafetyLatch = saw,
                                    !.safetyFailure = failure])
BY DEF Beside, Apps

(* How much is trusted only shrinks when a generation is given up.         *)
LEMMA InvalidateTrusts ==
  ASSUME NEW t \in Beliefs, NEW latch \in BOOLEAN, NEW fallback \in SafetyFailures
  PROVE  Trusts(t, FALSE, Invalidate(t, latch, fallback))
<1> DEFINE kept == IF t.recovery_mode /\ t.recovery_validated
                   THEN t ELSE ClearObservation(t)
           name == IF ~latch THEN t.safety_failure
                   ELSE IF fallback = "NONE" THEN "DEVICE_UNCERTAIN"
                   ELSE fallback
           u == [kept EXCEPT !.snapshot = UnknownSnapshot,
                             !.authoritative = FALSE,
                             !.safety_failure = name]
<1>1. name \in SafetyFailures /\ UnknownSnapshot \in Snapshots
      /\ 0 \in Locations \cup {0}
  BY DEF Beliefs, SafetyFailures, UnknownSnapshot, Snapshots, ConnectionStates
<1>2. /\ kept \in Beliefs
      /\ kept.generation = t.generation
      /\ kept.recovery_validated = t.recovery_validated
      /\ kept.safety_failure = t.safety_failure
  BY <1>1 DEF Beliefs, ClearObservation
<1>3. Invalidate(t, latch, fallback) = u
  BY <1>2 DEF Invalidate
<1> HIDE DEF kept, name
<1>4. Trusts(t, FALSE, u)
  BY <1>1, <1>2 DEF Trusts, Beliefs
<1> QED
  BY <1>3, <1>4

(* Giving a generation up.                                                 *)
LEMMA InvalidateCarries ==
  ASSUME NEW h \in Apps, NEW w \in Views, NEW latch \in BOOLEAN
  PROVE  Carries(h, FALSE, InvalidateTopology(h, w, latch))
<1> DEFINE t == Invalidate(h.top, latch, h.safetyFailure)
           u == [h EXCEPT !.top = t]
           failure == IF u.safetyFailure = "NONE" THEN u.top.safety_failure
                      ELSE u.safetyFailure
           n == [u EXCEPT !.safetyFailure = failure, !.sawSafetyLatch = TRUE]
           v == IF latch THEN Unverified(n, w, "NONE") ELSE Observe(u, w)
<1>1. Trusts(h.top, FALSE, t)
  BY InvalidateTrusts DEF Apps
<1>2. Untrusted(h, latch) = u
  BY DEF Untrusted
<1> HIDE DEF t
<1>3. Carries(h, FALSE, u)
  BY <1>1, BeliefBeside, BesideCarries
<1> HIDE DEF u
<1>4. NamedByTopology(u) = n
  BY <1>3 DEF Carries, Apps, NamedByTopology
<1>5. u \in Apps /\ failure \in SafetyFailures
  BY <1>3 DEF Carries, Apps, Beliefs
<1> HIDE DEF failure
<1>6. Carries(u, FALSE, n)
  <2>1. Beside(u, FALSE, u)
    BY <1>5 DEF Beside, Trusts, Apps
  <2>2. Beside(u, FALSE, n)
    BY <1>5, <2>1 DEF Beside, Apps, n
  <2> QED
    BY <2>2, BesideCarries
<1> HIDE DEF n
<1>7. /\ Carries(u, FALSE, Observe(u, w))
      /\ Carries(n, FALSE, Unverified(n, w, "NONE"))
  BY <1>5, <1>6, ObserveCarries DEF Carries
<1>8. Carries(h, FALSE, v)
  BY <1>3, <1>6, <1>7 DEF Carries
<1>9. InvalidateTopology(h, w, latch) = RefreshIfShown(v, w)
  BY <1>2, <1>4 DEF InvalidateTopology
<1> HIDE DEF v
<1> QED
  BY <1>8, <1>9, RefreshCarries

-----------------------------------------------------------------------------
(* What makes the delegate trust a recovery.                               *)

(* A recovery listener claims to have restored Pass-through control.       *)
Claims(e) == e.event = "recovery_state" /\ e.outcome # "FAILURE"

(* A change of a belief by a topology,                                     *)
LEMMA TopologyTrusts ==
  ASSUME NEW t \in Beliefs, NEW s \in Snapshots
  PROVE  Trusts(t, FALSE, ApplyTopology(t, s))
<1> DEFINE seen  == [t EXCEPT !.snapshot = s]
           fresh == \/ s.state = "UNKNOWN"
                    \/ t.controller_connected # (s.state = "SINGLE")
                    \/ t.multiple_controllers # (s.state = "MULTIPLE")
                    \/ t.controller_location_id # s.location
           released == t.inputs_released /\ ~fresh
           verified == t.filter_verified /\ ~fresh
           single   == s.state = "SINGLE"
           multiple == s.state = "MULTIPLE"
           v == [seen EXCEPT !.controller_connected   = single,
                             !.multiple_controllers   = multiple,
                             !.controller_location_id = s.location]
           u == [v EXCEPT !.inputs_released = released,
                          !.filter_verified = verified]
<1>1. /\ seen \in Beliefs
      /\ seen.generation = t.generation
      /\ seen.recovery_validated = t.recovery_validated
      /\ seen.inputs_released = t.inputs_released
      /\ seen.filter_verified = t.filter_verified
      /\ s.location \in Locations \cup {0}
      /\ released \in BOOLEAN /\ verified \in BOOLEAN
      /\ single \in BOOLEAN /\ multiple \in BOOLEAN
  BY DEF Beliefs, Snapshots
<1>2. ApplyTopology(t, s) =
        IF s.state = "UNKNOWN" /\ t.recovery_mode /\ t.recovery_validated
        THEN seen ELSE u
  BY <1>1 DEF ApplyTopology
<1> HIDE DEF seen, fresh, released, verified, single, multiple
<1>3. Trusts(t, FALSE, u)
  <2>1. Trusts(t, FALSE, v)
    BY <1>1 DEF Trusts, Beliefs
  <2> HIDE DEF v
  <2> QED
    BY <1>1, <2>1 DEF Trusts, Beliefs
<1>4. Trusts(t, FALSE, seen)
  BY <1>1 DEF Trusts
<1> HIDE DEF u
<1> QED
  BY <1>2, <1>3, <1>4

(* by a recovery,                                                          *)
LEMMA RecoveryTrusts ==
  ASSUME NEW t \in Beliefs, NEW s \in Snapshots, NEW outcome \in RecoveryOutcomes,
         NEW released \in BOOLEAN, NEW permission \in BOOLEAN,
         NEW verified \in BOOLEAN
  PROVE  Trusts(t, outcome # "FAILURE",
                ApplyRecovery(t, s, outcome, released, permission, verified))
<1> DEFINE u == ApplyTopology(t, s)
           validated == outcome # "FAILURE"
           v == [u EXCEPT !.recovery_validated       = validated,
                          !.recovery_failed          = ~validated,
                          !.inputs_released          = released]
           x == [v EXCEPT !.permission_granted       = permission,
                          !.filter_verified          = FALSE,
                          !.recovery_filter_verified = validated /\ verified]
<1>1. Trusts(t, FALSE, u)
  BY TopologyTrusts
<1>2. ApplyRecovery(t, s, outcome, released, permission, verified) = x
  BY DEF ApplyRecovery
<1>3. validated \in BOOLEAN
  OBVIOUS
<1> HIDE DEF u, validated
<1>4. /\ v \in Beliefs /\ v.generation = t.generation
      /\ v.recovery_validated = validated
  BY <1>1, <1>3 DEF Trusts, Beliefs
<1> HIDE DEF v
<1>5. Trusts(t, validated, x)
  BY <1>3, <1>4 DEF Trusts, Beliefs
<1> QED
  BY <1>2, <1>5 DEF validated

(* and by the other events.                                                *)
LEMMA EntryTrusts ==
  ASSUME NEW t \in Beliefs, NEW b \in BOOLEAN
  PROVE  /\ Trusts(t, FALSE, t)
         /\ Trusts(t, FALSE, RequireNeutralEntry(t))
         /\ Trusts(t, FALSE, ApplyNeutralEntry(t, b))
         /\ Trusts(t, FALSE, ApplyFocusChanged(t, b))
         /\ Trusts(t, FALSE, ApplyFilterVerification(t, b))
<1>1. Trusts(t, FALSE, t)
  BY DEF Trusts
<1>2. \A r \in BOOLEAN : Trusts(t, FALSE, [t EXCEPT !.inputs_released = r])
  BY DEF Trusts, Beliefs
<1>3. Trusts(t, FALSE, [t EXCEPT !.filter_verified = b])
  BY DEF Trusts, Beliefs
<1>4. ApplyFocusChanged(t, b) = [t EXCEPT !.inputs_released =
                                            t.inputs_released /\ b]
  BY DEF ApplyFocusChanged
<1>5. (t.inputs_released /\ b) \in BOOLEAN
  BY DEF Beliefs
<1> QED
  BY <1>1, <1>2, <1>3, <1>4, <1>5
  DEF RequireNeutralEntry, ApplyNeutralEntry, ApplyFilterVerification

(* A delegate is beside itself.                                            *)
LEMMA ItselfBeside ==
  ASSUME NEW h \in Apps
  PROVE  Beside(h, FALSE, h)
BY DEF Beside, Trusts, Apps

(* An observation after a change on the side.                              *)
LEMMA BesideObserved ==
  ASSUME NEW h, NEW claim, NEW x, Beside(h, claim, x), NEW w \in Views
  PROVE  /\ Carries(h, claim, Observe(x, w))
         /\ Carries(h, claim, RefreshIfShown(Observe(x, w), w))
BY BesideCarries, RefreshCarries

(* A generation given up after a change on the side.                       *)
LEMMA BesideInvalidated ==
  ASSUME NEW h, NEW x, Beside(h, FALSE, x), NEW w \in Views, NEW latch \in BOOLEAN
  PROVE  Carries(h, FALSE, InvalidateTopology(x, w, latch))
<1>1. Carries(h, FALSE, x) /\ x \in Apps
  BY BesideCarries DEF Beside
<1>2. Carries(x, FALSE, InvalidateTopology(x, w, latch))
  BY <1>1, InvalidateCarries
<1> QED
  BY <1>1, <1>2 DEF Carries

(* The handler of topology.                                                *)
LEMMA TopologyCarries ==
  ASSUME NEW h \in Apps, NEW w \in Views, NEW e, e.snapshot \in Sights
  PROVE  Carries(h, FALSE, OnTopology(h, w, e))
<1> DEFINE t == ApplyTopology(h.top, e.snapshot)
           x == [h EXCEPT !.top = t]
<1>1. Trusts(h.top, FALSE, t)
  BY TopologyTrusts, SightsAreValid DEF Apps
<1>2. Carries(h, FALSE, RefreshIfShown(Observe(x, w), w))
  BY <1>1, BeliefBeside, BesideObserved
<1>3. Carries(h, FALSE, h)
  BY ItselfBeside, BesideCarries
<1> HIDE DEF t
<1> QED
  BY <1>2, <1>3 DEF OnTopology, t, x

(* The handlers of the filter's events, over what was heard with them.     *)
LEMMA FilterCarries ==
  ASSUME NEW h, NEW x, Beside(h, FALSE, x), NEW w \in Views,
         NEW verified \in BOOLEAN
  PROVE  Carries(h, FALSE, OnFilter(x, w, verified))
<1> DEFINE t == ApplyFilterVerification(x.top, verified)
           y == [x EXCEPT !.top = t]
           saw == x.sawFilterApplied \/ verified
           z == [y EXCEPT !.sawFilterApplied = saw]
<1>1. x \in Apps /\ x.top \in Beliefs /\ saw \in BOOLEAN
  BY DEF Beside, Apps
<1>2. Trusts(x.top, FALSE, t)
  BY <1>1, EntryTrusts
<1> HIDE DEF t
<1>3. Beside(x, FALSE, y)
  BY <1>1, <1>2, BeliefBeside
<1> HIDE DEF y
<1>4. Beside(x, FALSE, z)
  BY <1>1, <1>3, FilterBeside
<1>5. Beside(h, FALSE, z)
  BY <1>4 DEF Beside, Trusts
<1>6. [x EXCEPT !.top = ApplyFilterVerification(@, verified),
                !.sawFilterApplied = @ \/ verified] = z
  BY <1>1 DEF y, t
<1> HIDE DEF z
<1>7. Carries(h, FALSE, Observe(z, w))
  BY <1>5, BesideObserved
<1>8. Carries(h, FALSE, InvalidateTopology(x, w, TRUE))
  BY BesideInvalidated
<1> QED
  BY <1>6, <1>7, <1>8 DEF OnFilter, ProtocolFailure

(* The handlers of the permissions' events.                                *)
LEMMA PermissionsCarries ==
  ASSUME NEW h \in Apps, NEW w \in Views, NEW e, e.missing \in SUBSET Gates
  PROVE  Carries(h, FALSE, OnPermissions(h, w, e))
<1> DEFINE missing == IF e.event = "tcc_status" THEN e.missing
                      ELSE (h.missing \ {"ACCESSIBILITY"})
                             \cup (e.missing \cap {"ACCESSIBILITY"})
           x == [h EXCEPT !.missing = missing, !.permission = missing = {}]
           t == RequireNeutralEntry(x.top)
           y == [x EXCEPT !.top = t]
<1>1. missing \in SUBSET Gates /\ (missing = {}) \in BOOLEAN
  BY DEF Apps, Gates
<1> HIDE DEF missing
<1>2. Beside(h, FALSE, x)
  BY <1>1, ItselfBeside, PermissionsBeside
<1> HIDE DEF x
<1>3. x \in Apps /\ x.top \in Beliefs
  BY <1>2 DEF Beside, Apps
<1>4. Beside(x, FALSE, y)
  BY <1>3, EntryTrusts, BeliefBeside
<1>5. Beside(h, FALSE, y)
  BY <1>2, <1>4 DEF Beside, Trusts
<1>6. y = [x EXCEPT !.top = RequireNeutralEntry(@)]
  OBVIOUS
<1> HIDE DEF y
<1>7. Carries(h, FALSE, Observe(x, w)) /\ Carries(h, FALSE, Observe(y, w))
  BY <1>2, <1>5, BesideObserved
<1>8. OnPermissions(h, w, e) = Observe(IF x.permission THEN x ELSE y, w)
  BY <1>6 DEF OnPermissions, PermissionsRead, x, missing
<1> QED
  BY <1>7, <1>8

(* The handlers of ready and filter_restored.                              *)
LEMMA ReadyCarries ==
  ASSUME NEW h \in Apps, NEW w \in Views, NEW e,
         e.missing \in SUBSET Gates, e.applied = FALSE
  PROVE  Carries(h, FALSE, OnReady(h, w, e))
<1>1. (e.missing = {}) \in BOOLEAN
  OBVIOUS
<1>2. Beside(h, FALSE, PermissionsRead(h, e.missing))
  BY <1>1, ItselfBeside, PermissionsBeside DEF PermissionsRead
<1> QED
  BY <1>2, FilterCarries DEF OnReady

(* The handler of filter_restored.                                         *)
LEMMA RestoredCarries ==
  ASSUME NEW h \in Apps, NEW w \in Views
  PROVE  Carries(h, FALSE, OnFilterRestored(h, w))
<1>1. Beside(h, FALSE, [h EXCEPT !.sawFilterRestored = TRUE])
  BY ItselfBeside, FilterBeside
<1> QED
  BY <1>1, FilterCarries DEF OnFilterRestored

(* The handlers of focus_changed and neutral_entry.                        *)
LEMMA EntryCarries ==
  ASSUME NEW h \in Apps, NEW w \in Views, NEW e
  PROVE  /\ e.foreground \in BOOLEAN =>
              Carries(h, FALSE, OnFocusChanged(h, w, e))
         /\ e.released \in BOOLEAN =>
              Carries(h, FALSE, OnNeutralEntry(h, w, e))
<1>1. h.top \in Beliefs /\ Beside(h, FALSE, h)
  BY ItselfBeside DEF Apps
<1>2. Carries(h, FALSE, InvalidateTopology(h, w, TRUE))
  BY <1>1, BesideInvalidated
<1>3. ASSUME NEW t, Trusts(h.top, FALSE, t)
      PROVE  Carries(h, FALSE, Observe([h EXCEPT !.top = t], w))
  BY <1>3, BeliefBeside, BesideObserved
<1>4. e.foreground \in BOOLEAN =>
        Carries(h, FALSE,
                Observe([h EXCEPT !.top = ApplyFocusChanged(@, e.foreground)], w))
  BY <1>1, <1>3, EntryTrusts
<1>5. e.released \in BOOLEAN =>
        Carries(h, FALSE,
                Observe([h EXCEPT !.top = ApplyNeutralEntry(@, e.released)], w))
  BY <1>1, <1>3, EntryTrusts
<1> QED
  BY <1>2, <1>4, <1>5 DEF OnFocusChanged, OnNeutralEntry, ProtocolFailure

(* The handler of safety_latch.                                            *)
LEMMA SafetyLatchCarries ==
  ASSUME NEW h \in Apps, NEW w \in Views, NEW e, e.reason \in SafetyFailures
  PROVE  Carries(h, FALSE, OnSafetyLatch(h, w, e))
<1> DEFINE x == [h EXCEPT !.sawSafetyLatch = TRUE, !.safetyFailure = e.reason]
           c == Command(x, w, "NONE", FALSE, e.reason)
<1>1. Beside(h, FALSE, x)
  BY ItselfBeside, FailureBeside
<1> HIDE DEF x
<1>2. Carries(h, FALSE, x) /\ x \in Apps
  BY <1>1, BesideCarries DEF Beside
<1>3. Carries(x, FALSE, c)
  BY <1>2, NoteCarries
<1> HIDE DEF c
<1>4. Carries(h, FALSE, c)
  BY <1>2, <1>3 DEF Carries
<1>5. OnSafetyLatch(h, w, e) = RefreshIfShown(c, w)
  BY DEF OnSafetyLatch, c, x
<1> QED
  BY <1>4, <1>5, RefreshCarries

(* The handler of stopped.                                                 *)
LEMMA StoppedCarries ==
  ASSUME NEW h \in Apps, NEW e, e.reason \in SafetyFailures,
         e.releaseFailed \in BOOLEAN
  PROVE  Carries(h, FALSE, OnStopped(h, e))
<1> DEFINE clean == ~e.releaseFailed /\ e.reason = "NONE"
           failure == IF e.reason = "NONE" THEN h.safetyFailure ELSE e.reason
           saw == h.sawSafetyLatch \/ e.reason # "NONE"
           x == [h EXCEPT !.sawStopped = TRUE, !.cleanupVerified = clean]
           y == [x EXCEPT !.safetyFailure = failure, !.sawSafetyLatch = saw]
<1>1. clean \in BOOLEAN /\ failure \in SafetyFailures /\ saw \in BOOLEAN
  BY DEF Apps
<1>2. OnStopped(h, e) = y
  BY DEF OnStopped, Apps
<1> HIDE DEF clean, failure, saw
<1>3. Beside(h, FALSE, x)
  BY <1>1, ItselfBeside DEF Beside, Apps
<1> HIDE DEF x
<1>4. Beside(h, FALSE, y)
  BY <1>1, <1>3 DEF Beside, Apps
<1> QED
  BY <1>2, <1>4, BesideCarries

(* The handler of recovery_state.                                          *)
LEMMA RecoveryCarries ==
  ASSUME NEW h \in Apps, NEW w \in Views, NEW e,
         e.outcome \in RecoveryOutcomes, e.snapshot \in Sights,
         e.released \in BOOLEAN, e.permission \in BOOLEAN, e.verified \in BOOLEAN
  PROVE  Carries(h, e.outcome # "FAILURE", OnRecoveryState(h, w, e))
<1> DEFINE claim == e.outcome # "FAILURE"
           t == ApplyRecovery(h.top, e.snapshot, e.outcome, e.released,
                              e.permission, e.verified)
           b == [h EXCEPT !.top = t]
           x == [b EXCEPT !.permission = e.permission]
           failure == IF x.safetyFailure = "NONE" THEN "DEVICE_UNCERTAIN"
                      ELSE x.safetyFailure
           y == [x EXCEPT !.sawSafetyLatch = TRUE, !.safetyFailure = failure]
           r == RecoveryTaken(h, w, e)
           asked == h.recovery /\ h.purpose \in {"RETRY", "DISABLE"}
           s == [r EXCEPT !.signalled = @ \/ asked]
<1>1. Trusts(h.top, claim, t)
  BY RecoveryTrusts, SightsAreValid DEF Apps
<1> HIDE DEF claim, t
<1>2. Beside(h, claim, b)
  BY <1>1, BeliefBeside
<1>3. Beside(h, claim, x)
  BY <1>2, PermissionsBeside
<1>4. failure \in SafetyFailures
  BY <1>3 DEF Beside, Apps, SafetyFailures
<1>5. r = IF e.outcome = "FAILURE" THEN Unverified(y, w, "NONE") ELSE x
  <2>1. x = [h EXCEPT !.top = ApplyRecovery(@, e.snapshot, e.outcome, e.released,
                                            e.permission, e.verified),
                      !.permission = e.permission]
    BY DEF t
  <2>2. y = [x EXCEPT !.sawSafetyLatch = TRUE,
                      !.safetyFailure = IF @ = "NONE" THEN "DEVICE_UNCERTAIN"
                                        ELSE @]
    BY <1>3 DEF Beside, Apps
  <2> HIDE DEF x, y
  <2> QED
    BY <2>1, <2>2 DEF RecoveryTaken
<1> HIDE DEF b, x, failure, r, asked
<1>6. Beside(h, claim, y)
  BY <1>3, <1>4, FailureBeside
<1> HIDE DEF y
<1>7. Carries(h, claim, x) /\ Carries(h, claim, y) /\ y \in Apps
  BY <1>3, <1>6, BesideCarries DEF Beside
<1>8. Carries(y, FALSE, Unverified(y, w, "NONE"))
  BY <1>7, ObserveCarries
<1>9. Carries(h, claim, Unverified(y, w, "NONE"))
  BY <1>7, <1>8 DEF Carries
<1>10. Carries(h, claim, r)
  BY <1>5, <1>7, <1>9
<1>11. Carries(h, claim, s)
  <2>1. r \in Apps
    BY <1>10 DEF Carries
  <2>2. (r.signalled \/ asked) \in BOOLEAN
    BY <2>1 DEF Apps, asked
  <2>3. Beside(r, FALSE, s)
    BY <2>1, <2>2, ItselfBeside, FilterBeside
  <2>4. Carries(r, FALSE, s)
    BY <2>3, BesideCarries
  <2> QED
    BY <1>10, <2>4 DEF Carries
<1>12. Carries(h, claim, InvalidateTopology(h, w, TRUE))
  <2>1. Carries(h, FALSE, InvalidateTopology(h, w, TRUE))
    BY InvalidateCarries
  <2> QED
    BY <2>1 DEF Carries
<1>13. Carries(h, claim, h)
  BY DEF Carries
<1>14. OnRecoveryState(h, w, e) \in {h, InvalidateTopology(h, w, TRUE), s}
  BY DEF OnRecoveryState, ProtocolFailure, RecoveryResult, EventResult, s, r, asked
<1> QED
  BY <1>11, <1>12, <1>13, <1>14 DEF claim

(* Every event but that of a missing permission.                           *)
LEMMA EventCarries ==
  ASSUME NEW h \in Apps, NEW w \in Views, NEW e \in Events,
         e.event # "permission_required"
  PROVE  Carries(h, Claims(e), HandleEvent(h, w, e))
<1>1. CASE e \in [event : {"topology"}, snapshot : Sights]
  BY <1>1, TopologyCarries DEF HandleEvent, Claims
<1>2. CASE e \in [event : {"tcc_status", "permissions_changed"},
                  missing : SUBSET Gates]
  <2>1. /\ e.event \in {"tcc_status", "permissions_changed"}
        /\ e.missing \in SUBSET Gates
    BY <1>2
  <2>2. HandleEvent(h, w, e) = OnPermissions(h, w, e)
    BY <2>1 DEF HandleEvent
  <2> QED
    BY <2>1, <2>2, PermissionsCarries DEF Claims
<1>3. CASE e \in [event : {"focus_changed"}, foreground : BOOLEAN]
  BY <1>3, EntryCarries DEF HandleEvent, Claims
<1>4. CASE e \in [event : {"neutral_entry"}, released : BOOLEAN]
  BY <1>4, EntryCarries DEF HandleEvent, Claims
<1>5. CASE e \in [event : {"safety_latch"}, reason : SafetyFailures]
  BY <1>5, SafetyLatchCarries DEF HandleEvent, Claims
<1>6. CASE e \in [event : {"filter_applied", "filter_restored"}]
  <2>1. /\ e.event = "filter_applied" =>
             HandleEvent(h, w, e) = OnFilter(h, w, TRUE)
        /\ e.event = "filter_restored" =>
             HandleEvent(h, w, e) = OnFilterRestored(h, w)
        /\ e.event \in {"filter_applied", "filter_restored"}
    BY <1>6 DEF HandleEvent
  <2> QED
    BY <2>1, ItselfBeside, FilterCarries, RestoredCarries DEF Claims
<1>7. CASE e \in [event : {"ready"}, missing : SUBSET Gates, applied : {FALSE}]
  BY <1>7, ReadyCarries DEF HandleEvent, Claims
<1>8. CASE e \in [event : {"recovery_state"}, outcome : RecoveryOutcomes,
                  snapshot : Sights, released : BOOLEAN, permission : BOOLEAN,
                  verified : BOOLEAN]
  <2>1. /\ e.event = "recovery_state" /\ e.outcome \in RecoveryOutcomes
        /\ e.snapshot \in Sights /\ e.released \in BOOLEAN
        /\ e.permission \in BOOLEAN /\ e.verified \in BOOLEAN
    BY <1>8
  <2>2. HandleEvent(h, w, e) = OnRecoveryState(h, w, e)
    BY <2>1 DEF HandleEvent
  <2> QED
    BY <2>1, <2>2, RecoveryCarries DEF Claims
<1>9. CASE e \in [event : {"stopped"}, reason : SafetyFailures,
                  releaseFailed : BOOLEAN]
  BY <1>9, StoppedCarries DEF HandleEvent, Claims
<1> QED
  BY <1>1, <1>2, <1>3, <1>4, <1>5, <1>6, <1>7, <1>8, <1>9 DEF Events

-----------------------------------------------------------------------------
(* The mapping while no listener is left, and the handlers that end there. *)

(* Only a normal listener asks for a permission.                           *)
Excused(a) == a.permissionRequired => ~a.recovery

(* No listener of h's is left, or a new one begins, and the mapping is on  *)
(* the keyboard or not (`left').  Control that goes on over a mapping left *)
(* behind holds the latch, and only a recovery listener is begun under it; *)
(* an app that ends over one leaves the marks of an unclean end.           *)
Rests(left, g) ==
  /\ g \in Apps
  /\ ~g.running => (left => ~g.savedSafe /\ (g.enabled \/ g.savedPending))
  /\ g.running =>
       /\ Owning(g) /\ ~g.savedSafe /\ Excused(g)
       /\ left => Holds(g.coord) /\ (g.task => g.recovery)
       /\ g.task /\ g.recovery => Holds(g.coord)
       /\ g.task => g.termination = "NONE" /\ ~g.top.recovery_validated

(* A handler that carries everything over leaves such a state alone.       *)
LEMMA CarriesRests ==
  ASSUME NEW left \in BOOLEAN, NEW x, Rests(left, x), NEW g,
         Carries(x, FALSE, g), x.running \/ ~left
  PROVE  Rests(left, g)
BY DEF Rests, Carries, Excused

(* Setting up a listener.                                                  *)
LEMMA BegunCarries ==
  ASSUME NEW h \in Apps, NEW recovery \in BOOLEAN
  PROVE  LET b == Begun(h, recovery) IN
         /\ b \in Apps
         /\ b.coord = h.coord /\ b.savedPending = h.savedPending
         /\ b.savedSafe = h.savedSafe
         /\ b.running = h.running /\ b.enabled = h.enabled
         /\ b.purpose = h.purpose /\ b.task = h.task
         /\ b.recovery = recovery
         /\ b.termination = "NONE" /\ ~b.permissionRequired
         /\ ~b.top.recovery_validated
<1> DEFINE c == ClearObservation(h.top)
           n == h.top.generation + 1
           v == [c EXCEPT !.generation         = n,
                          !.snapshot           = UnknownSnapshot,
                          !.authoritative      = TRUE,
                          !.recovery_mode      = recovery]
           u == [v EXCEPT !.recovery_validated = FALSE,
                          !.recovery_failed    = FALSE,
                          !.safety_failure     = "NONE"]
           t == RequireNeutralEntry(u)
           b1 == [h EXCEPT !.top = t, !.recovery = recovery, !.signalled = FALSE,
                           !.permissionRequired = FALSE]
           b2 == [b1 EXCEPT !.sawStopped = FALSE, !.sawFilterApplied = FALSE,
                            !.sawFilterRestored = FALSE]
           b3 == [b2 EXCEPT !.sawSafetyLatch = FALSE, !.cleanupVerified = FALSE,
                            !.eof = FALSE, !.termination = "NONE"]
<1>1. h.top \in Beliefs /\ n \in Nat /\ UnknownSnapshot \in Snapshots
      /\ "NONE" \in SafetyFailures
  BY DEF Apps, Beliefs, UnknownSnapshot, Snapshots, ConnectionStates,
     SafetyFailures
<1>2. c \in Beliefs
  BY <1>1 DEF Beliefs, ClearObservation
<1>3. Begun(h, recovery) = b3
  BY DEF Begun, BeginGeneration
<1> HIDE DEF c, n
<1>4. v \in Beliefs
  BY <1>1, <1>2 DEF Beliefs
<1> HIDE DEF v
<1>5. u \in Beliefs /\ ~u.recovery_validated
  BY <1>1, <1>4 DEF Beliefs
<1> HIDE DEF u
<1>6. t \in Beliefs /\ ~t.recovery_validated
  BY <1>5 DEF Beliefs, RequireNeutralEntry
<1> HIDE DEF t
<1> DEFINE Q(b) == /\ b \in Apps /\ b.top = t
                   /\ b.coord = h.coord /\ b.savedPending = h.savedPending
                   /\ b.savedSafe = h.savedSafe
                   /\ b.running = h.running /\ b.enabled = h.enabled
                   /\ b.purpose = h.purpose /\ b.task = h.task
                   /\ b.recovery = recovery
                   /\ ~b.permissionRequired
<1>7. Q(b1)
  BY <1>6 DEF Apps
<1> HIDE DEF b1
<1>8. Q(b2)
  BY <1>7 DEF Apps
<1> HIDE DEF b2
<1>9. Q(b3) /\ b3.termination = "NONE"
  BY <1>8 DEF Apps
<1> HIDE DEF b3
<1> QED
  BY <1>3, <1>6, <1>9

(* A normal listener is begun only without a latch, and a recovery one     *)
(* only under it; a launch that fails leaves the latch as it was.          *)
LEMMA StartRests ==
  ASSUME NEW left \in BOOLEAN, NEW x, Rests(left, x), x.running, ~x.task,
         NEW w \in Views, NEW recovery \in BOOLEAN, NEW ok,
         recovery => Holds(x.coord)
  PROVE  LET g == Start(x, w, recovery, ok) IN
         /\ Rests(left, g)
         /\ g.running /\ g.purpose = x.purpose
         /\ Holds(x.coord) => Holds(g.coord)
<1> DEFINE b == Begun(x, recovery)
           o == Observe(b, w)
           r == [o EXCEPT !.task = TRUE]
           l == [r EXCEPT !.everStarted = TRUE, !.cleanupKnown = FALSE]
           i == InvalidateTopology(r, w, TRUE)
           n == [i EXCEPT !.task = FALSE, !.recovery = FALSE,
                          !.safetyFailure = "DEVICE_UNCERTAIN"]
           f == Unverified(n, w, "NONE")
           g == Start(x, w, recovery, ok)
           begins == /\ ~x.task
                     /\ \/ recovery
                        \/ /\ x.enabled
                           /\ ~x.coord.safety_latched
                           /\ ~x.coord.disable_pending
           P(y) == /\ y \in Apps
                   /\ y.running /\ y.purpose = x.purpose
                   /\ Owning(y) /\ ~y.savedSafe /\ ~y.permissionRequired
                   /\ Holds(x.coord) => Holds(y.coord)
                   /\ y.termination = "NONE" /\ ~y.top.recovery_validated
<1>1. g = IF begins THEN IF ok THEN l ELSE f ELSE x
  BY DEF Start, Launched, NotLaunched
<1>2. x \in Apps /\ Owning(x) /\ ~x.savedSafe /\ (left => Holds(x.coord))
  BY DEF Rests
<1>3. P(b) /\ b.recovery = recovery
  BY <1>2, BegunCarries DEF Owning
<1> HIDE DEF b, g
<1>4. P(o) /\ o.recovery = recovery
  BY <1>3, ObserveCarries DEF Carries
<1> HIDE DEF o
<1>5. P(r) /\ r.recovery = recovery /\ r.task
  BY <1>4 DEF Apps, Owning
<1> HIDE DEF r
<1>6. CASE ~begins
  BY <1>1, <1>6 DEF g
<1>7. begins => recovery \/ ~Holds(x.coord)
  BY DEF Holds
<1>8. CASE begins /\ ok
  <2>1. P(l) /\ l.recovery = recovery /\ l.task
    BY <1>5 DEF Apps, Owning
  <2> HIDE DEF l
  <2>2. Rests(left, l)
    BY <2>1, <1>2, <1>7, <1>8 DEF Rests, Excused
  <2> QED
    BY <2>1, <2>2, <1>1, <1>8 DEF g
<1>9. CASE begins /\ ~ok
  <2>0. Carries(r, FALSE, i)
    BY <1>5, InvalidateCarries
  <2> HIDE DEF i
  <2>1. P(i)
    BY <1>5, <2>0 DEF Carries
  <2>2. P(n) /\ ~n.task
    BY <2>1 DEF Apps, Owning, SafetyFailures
  <2> HIDE DEF n
  <2>3. P(f) /\ ~f.task
    BY <2>2, ObserveCarries DEF Carries
  <2> HIDE DEF f
  <2>4. Rests(left, f)
    BY <2>3, <1>2 DEF Rests, Excused
  <2> QED
    BY <2>3, <2>4, <1>1, <1>9 DEF g
<1> QED
  BY <1>6, <1>8, <1>9

(* What holds of an app that runs, between two handlers.                   *)
Guarded(a) ==
  /\ Owning(a) /\ ~a.savedSafe /\ Excused(a)
  /\ a.purpose = "RETRY" => Holds(a.coord)
  /\ a.task /\ a.recovery => Holds(a.coord)

(* The listener is gone and the purpose not served yet.                    *)
Gone(h) == h \in Apps /\ h.running /\ ~h.task /\ Guarded(h) /\ Wants(h.coord)

(* The failure is forgotten, or named.                                     *)
LEMMA GoneNamed ==
  ASSUME NEW h, Gone(h), NEW failure \in SafetyFailures
  PROVE  /\ Gone([h EXCEPT !.safetyFailure = failure])
         /\ [h EXCEPT !.safetyFailure = failure].safetyFailure = failure
         /\ [h EXCEPT !.safetyFailure = failure].purpose = h.purpose
         /\ [h EXCEPT !.safetyFailure = failure].top = h.top
         /\ [h EXCEPT !.safetyFailure = failure].recovery = h.recovery
         /\ [h EXCEPT !.safetyFailure = failure].quitInFlight = h.quitInFlight
BY DEF Gone, Guarded, Owning, Excused, Apps

(* A call of the coordinator that names a failure, if a mapping is left.   *)
LEMMA GoneTold ==
  ASSUME NEW h, Gone(h), NEW left \in BOOLEAN, NEW w \in Views,
         NEW c \in {"NONE", "DISABLE", "RETRY"},
         NEW cleanup \in BOOLEAN, NEW failure \in SafetyFailures,
         left => failure # "NONE"
  PROVE  LET g == Command(h, w, c, cleanup, failure) IN
         /\ Rests(left, g)
         /\ g.running /\ ~g.task
<1> DEFINE g == Command(h, w, c, cleanup, failure)
<1>1. c \in Commands /\ h \in Apps
  BY DEF Commands, Gone
<1>2. Recalls(h, c, cleanup /\ failure = "NONE", failure # "NONE", g)
  BY <1>1, CommandRecalls
<1> HIDE DEF g
<1>3. /\ g \in Apps /\ Keeps(h, g)
      /\ Remembers(h.coord, c, cleanup /\ failure = "NONE", failure # "NONE", g.coord)
      /\ g.coord.disable_pending => g.savedPending
  BY <1>2 DEF Recalls
<1>4. g.running /\ ~g.task /\ ~g.savedSafe /\ Excused(g)
  BY <1>3 DEF Keeps, Gone, Guarded, Excused
<1>5. Owning(g)
  BY <1>3 DEF Remembers, Owning, Gone, Guarded
<1>6. left => Holds(g.coord)
  BY <1>3 DEF Remembers, Gone
<1>7. Rests(left, g) /\ g.running /\ ~g.task
  BY <1>3, <1>4, <1>5, <1>6 DEF Rests
<1> QED
  BY <1>7 DEF g

(* Calls that do and do not vouch for the cleanup.                         *)
LEMMA GoneVerified ==
  ASSUME NEW h, Gone(h), NEW w \in Views, NEW c \in {"NONE", "DISABLE", "RETRY"}
  PROVE  LET g == Verified(h, w, c) IN
         Rests(FALSE, g) /\ g.running /\ ~g.task
<1>1. "NONE" \in SafetyFailures
  BY DEF SafetyFailures
<1> DEFINE x == [h EXCEPT !.safetyFailure = "NONE"]
<1>2. Gone(x)
  BY <1>1, GoneNamed
<1>3. Verified(h, w, c) = Command(x, w, c, TRUE, "NONE")
  BY DEF Verified
<1> HIDE DEF x
<1> QED
  BY <1>1, <1>2, <1>3, GoneTold

(* The other kind.                                                         *)
LEMMA GoneUnverified ==
  ASSUME NEW h, Gone(h), h.safetyFailure # "NONE", NEW left \in BOOLEAN,
         NEW w \in Views, NEW c \in {"NONE", "DISABLE", "RETRY"}
  PROVE  LET g == Unverified(h, w, c) IN
         Rests(left, g) /\ g.running /\ ~g.task
<1>1. h.safetyFailure \in SafetyFailures
  BY DEF Gone, Apps
<1> QED
  BY <1>1, GoneTold DEF Unverified

(* The answers to a Quit.                                                  *)
LEMMA AnswersRest ==
  ASSUME NEW left \in BOOLEAN, NEW x, Rests(left, x), x.running
  PROVE  /\ Rests(left, RefuseQuit(x)) /\ RefuseQuit(x).running
         /\ ~left => Rests(left, SafeQuit(x))
<1>1. x \in Apps
  BY DEF Rests
<1> DEFINE r == RefuseQuit(x)
           s == SafeQuit(x)
<1>2. /\ r \in Apps /\ r.running /\ r.coord = x.coord /\ r.top = x.top
      /\ r.savedPending = x.savedPending /\ r.savedSafe = x.savedSafe
      /\ r.enabled = x.enabled /\ r.task = x.task /\ r.recovery = x.recovery
      /\ r.permissionRequired = x.permissionRequired
      /\ r.termination = x.termination
  BY <1>1 DEF Apps, RefuseQuit
<1>3. s \in Apps /\ ~s.running
  BY <1>1 DEF Apps, SafeQuit
<1> HIDE DEF r, s
<1>4. Rests(left, r)
  BY <1>2 DEF Rests, Owning, Excused
<1>5. ~left => Rests(left, s)
  BY <1>3 DEF Rests
<1> QED
  BY <1>2, <1>4, <1>5 DEF r, s

(* The judgement on the end of a listener: only over a verified one is     *)
(* nothing left, and the other has a name.                                 *)
Verdict(left, h, verified) ==
  /\ Gone(h)
  /\ verified => ~left
  /\ ~verified => h.safetyFailure # "NONE"

(* The handlers of the end of a listener that Retry stopped or started,    *)
LEMMA RetryRests ==
  ASSUME NEW left \in BOOLEAN, NEW h, NEW verified \in BOOLEAN,
         Verdict(left, h, verified), h.purpose = "RETRY",
         NEW w \in Views, NEW ok \in BOOLEAN
  PROVE  LET g == AfterRetry(h, w, verified, ok) IN
         Rests(left, g) /\ (g.running \/ ~left)
<1> DEFINE x == [h EXCEPT !.purpose = "RETRY"]
           v == Verified(h, w, "RETRY")
           u == Unverified(h, w, "RETRY")
           s == Start(x, w, TRUE, ok)
           a == RetryAnswered(v, w, ok)
           n == Command(h, w, "NONE", TRUE, "NONE")
           P(g) == Rests(left, g) /\ (g.running \/ ~left)
<1>1. h \in Apps /\ Gone(h) /\ Holds(h.coord) /\ "NONE" \in SafetyFailures
  BY DEF Verdict, Gone, Guarded, SafetyFailures
<1>2. x = h
  BY <1>1 DEF Apps
<1>3. Rests(left, h)
  BY <1>1 DEF Rests, Gone, Guarded
<1>4. P(s)
  BY <1>1, <1>2, <1>3, StartRests DEF Gone
<1>5. ~verified => P(RefuseQuit(u))
  <2>1. ~verified => Rests(left, u) /\ u.running
    BY <1>1, GoneUnverified DEF Verdict
  <2> HIDE DEF u
  <2> QED
    BY <2>1, AnswersRest
<1>6. Rests(FALSE, v) /\ v.running /\ ~v.task
  BY <1>1, GoneVerified
<1> HIDE DEF v
<1>7. Rests(FALSE, a)
  <2>1. Rests(FALSE, Start(v, w, FALSE, ok))
    BY <1>6, StartRests
  <2> QED
    BY <1>6, <2>1, AnswersRest DEF RetryAnswered
<1>8. Rests(FALSE, n)
  BY <1>1, GoneTold
<1>9. verified => P(a) /\ P(n)
  BY <1>7, <1>8 DEF Verdict
<1> HIDE DEF s, a, u, x, n
<1>10. \/ AfterRetry(h, w, verified, ok) = s
       \/ ~verified /\ AfterRetry(h, w, verified, ok) = RefuseQuit(u)
       \/ verified /\ AfterRetry(h, w, verified, ok) \in {a, n}
  BY DEF AfterRetry, s, u, a, v, x, n
<1> QED
  BY <1>4, <1>5, <1>9, <1>10

(* for a change of the profile,                                            *)
LEMMA ProfileRests ==
  ASSUME NEW left \in BOOLEAN, NEW h, NEW verified \in BOOLEAN,
         Verdict(left, h, verified), NEW w \in Views, NEW ok \in BOOLEAN
  PROVE  LET g == AfterProfile(h, w, verified, ok) IN
         Rests(left, g) /\ (g.running \/ ~left)
<1>1. Gone(h) /\ (verified => Rests(left, h))
  BY DEF Verdict, Rests, Gone, Guarded
<1>2. verified => Rests(left, Start(h, w, FALSE, ok))
                  /\ Start(h, w, FALSE, ok).running
  BY <1>1, StartRests DEF Gone
<1>3. ~verified => Rests(left, Unverified(h, w, "NONE"))
                   /\ Unverified(h, w, "NONE").running
  BY <1>1, GoneUnverified DEF Verdict
<1> QED
  BY <1>2, <1>3 DEF AfterProfile

(* for a Disable,                                                          *)
LEMMA DisableRests ==
  ASSUME NEW left \in BOOLEAN, NEW h, NEW verified \in BOOLEAN,
         Verdict(left, h, verified), NEW w \in Views
  PROVE  LET g == AfterDisable(h, w, verified) IN
         Rests(left, g) /\ (g.running \/ ~left)
<1>1. Gone(h)
  BY DEF Verdict
<1>2. Rests(FALSE, Verified(h, w, "DISABLE"))
      /\ Verified(h, w, "DISABLE").running
  BY <1>1, GoneVerified
<1>3. ~verified => Rests(left, Unverified(h, w, "DISABLE"))
                   /\ Unverified(h, w, "DISABLE").running
  BY <1>1, GoneUnverified DEF Verdict
<1>4. verified => left = FALSE
  BY DEF Verdict
<1> QED
  BY <1>2, <1>3, <1>4 DEF AfterDisable

(* for a Quit,                                                             *)
LEMMA QuitRests ==
  ASSUME NEW left \in BOOLEAN, NEW h, NEW verified \in BOOLEAN,
         Verdict(left, h, verified), NEW w \in Views
  PROVE  LET g == AfterQuit(h, w, verified) IN
         Rests(left, g) /\ (g.running \/ ~left)
<1> DEFINE u == Unverified(h, w, "NONE")
           v == Verified(h, w, "RETRY")
<1>1. Gone(h)
  BY DEF Verdict
<1>2. Rests(FALSE, v) /\ v.running
  BY <1>1, GoneVerified
<1>3. ~verified => Rests(left, u) /\ u.running
  BY <1>1, GoneUnverified DEF Verdict
<1>4. verified => left = FALSE
  BY DEF Verdict
<1>5. AfterQuit(h, w, verified) =
        IF ~verified THEN RefuseQuit(u) ELSE QuitAnswered(v)
  BY DEF AfterQuit
<1> HIDE DEF u, v
<1>6. ~verified => Rests(left, RefuseQuit(u)) /\ RefuseQuit(u).running
  BY <1>3, AnswersRest
<1>7. Rests(FALSE, QuitAnswered(v))
  BY <1>2, AnswersRest DEF QuitAnswered
<1> QED
  BY <1>4, <1>5, <1>6, <1>7

(* for a session that switched,                                            *)
LEMMA SessionRests ==
  ASSUME NEW left \in BOOLEAN, NEW h, NEW verified \in BOOLEAN,
         Verdict(left, h, verified), NEW w \in Views, NEW ok \in BOOLEAN
  PROVE  LET g == AfterSession(h, w, verified, ok) IN
         Rests(left, g) /\ (g.running \/ ~left)
<1> DEFINE u == Unverified(h, w, "NONE")
           n == Command(h, w, "NONE", TRUE, "NONE")
<1>1. Gone(h) /\ "NONE" \in SafetyFailures
  BY DEF Verdict, SafetyFailures
<1>2. Rests(FALSE, n) /\ n.running /\ ~n.task
  BY <1>1, GoneTold
<1>3. ~verified => Rests(left, u) /\ u.running
  BY <1>1, GoneUnverified DEF Verdict
<1>4. verified => left = FALSE
  BY DEF Verdict
<1>5. AfterSession(h, w, verified, ok) =
        IF ~verified THEN u
        ELSE IF ~w.session THEN n ELSE Start(n, w, FALSE, ok)
  BY DEF AfterSession
<1> HIDE DEF u, n
<1>6. Rests(FALSE, Start(n, w, FALSE, ok))
  BY <1>2, StartRests
<1> QED
  BY <1>2, <1>3, <1>4, <1>5, <1>6

(* and of one that nobody asked to end.                                    *)
LEMMA NoneRests ==
  ASSUME NEW left \in BOOLEAN, NEW h, NEW verified \in BOOLEAN,
         Verdict(left, h, verified), NEW w \in Views
  PROVE  LET g == AfterNone(h, w, verified) IN
         Rests(left, g) /\ (g.running \/ ~left)
<1> DEFINE failure == IF verified THEN "DEVICE_UNCERTAIN" ELSE h.safetyFailure
<1>1. Gone(h) /\ failure \in SafetyFailures /\ failure # "NONE"
  BY DEF Verdict, Gone, Apps, SafetyFailures
<1>2. CASE verified /\ h.permissionRequired
  <2>1. Rests(FALSE, Verified(h, w, "NONE")) /\ left = FALSE
    BY <1>1, <1>2, GoneVerified DEF Verdict
  <2> QED
    BY <1>2, <2>1 DEF AfterNone
<1>3. CASE ~(verified /\ h.permissionRequired)
  <2>1. AfterNone(h, w, verified) = Command(h, w, "NONE", verified, failure)
    BY <1>3 DEF AfterNone
  <2> HIDE DEF failure
  <2> QED
    BY <1>1, <2>1, GoneTold
<1> QED
  BY <1>2, <1>3

(* Whatever the purpose.                                                   *)
LEMMA AfterRests ==
  ASSUME NEW left \in BOOLEAN, NEW h, NEW verified \in BOOLEAN,
         Verdict(left, h, verified), NEW w \in Views, NEW ok \in BOOLEAN
  PROVE  LET g == After(h, w, verified, ok) IN
         Rests(left, g) /\ (g.running \/ ~left)
<1>1. h.purpose \in Purposes
  BY DEF Verdict, Gone, Apps
<1>2. CASE h.purpose = "PROFILE"
  BY <1>2, ProfileRests DEF After
<1>3. CASE h.purpose = "DISABLE"
  BY <1>3, DisableRests DEF After
<1>4. CASE h.purpose = "RETRY"
  BY <1>4, RetryRests DEF After
<1>5. CASE h.purpose = "QUIT"
  BY <1>5, QuitRests DEF After
<1>6. CASE h.purpose = "SESSION"
  BY <1>6, SessionRests DEF After
<1>7. CASE h.purpose = "NONE"
  BY <1>7, NoneRests DEF After
<1> QED
  BY <1>1, <1>2, <1>3, <1>4, <1>5, <1>6, <1>7 DEF Purposes

(* A step of the app that leaves no listener, or begins a new one.         *)
Lands(left, g) == Rests(left, g) /\ (g.running => Guarded(g))

(* The purpose is served.                                                  *)
LEMMA ServedLands ==
  ASSUME NEW left \in BOOLEAN, NEW r, Rests(left, r)
  PROVE  Lands(left, Served(r))
<1> DEFINE x == [r EXCEPT !.purpose = "NONE", !.recovery = FALSE,
                          !.permissionRequired = FALSE]
           y == [r EXCEPT !.purpose = "NONE"]
           g == Served(r)
<1>1. r \in Apps /\ r.task \in BOOLEAN /\ r.recovery \in BOOLEAN
  BY DEF Rests, Apps
<1>2. /\ ~r.task => g = x
      /\ r.task /\ ~r.recovery => g = y
      /\ r.task /\ r.recovery => g = r
  BY <1>1 DEF Served
<1> HIDE DEF g
<1>3. /\ x \in Apps
      /\ x.running = r.running /\ x.enabled = r.enabled
      /\ x.task = r.task /\ x.coord = r.coord /\ x.top = r.top
      /\ x.savedSafe = r.savedSafe /\ x.savedPending = r.savedPending
      /\ x.purpose = "NONE" /\ ~x.permissionRequired
  BY <1>1 DEF Apps, Purposes
<1>4. /\ y \in Apps
      /\ y.running = r.running /\ y.enabled = r.enabled
      /\ y.task = r.task /\ y.coord = r.coord /\ y.top = r.top
      /\ y.savedSafe = r.savedSafe /\ y.savedPending = r.savedPending
      /\ y.purpose = "NONE" /\ y.permissionRequired = r.permissionRequired
      /\ y.recovery = r.recovery /\ y.termination = r.termination
  BY <1>1 DEF Apps, Purposes
<1> HIDE DEF x, y
<1>5. CASE ~r.task
  BY <1>2, <1>3, <1>5 DEF Rests, Lands, Guarded, Owning, Excused, g
<1>6. CASE r.task /\ ~r.recovery
  BY <1>2, <1>4, <1>6 DEF Rests, Lands, Guarded, Owning, Excused, g
<1>7. CASE r.task /\ r.recovery
  BY <1>2, <1>7 DEF Rests, Lands, Guarded, g
<1> QED
  BY <1>1, <1>5, <1>6, <1>7

(* The end of a listener; only a clean one is verified.                    *)
LEMMA HandleTerminationLands ==
  ASSUME NEW left \in BOOLEAN, NEW h, Gone(h), NEW clean \in BOOLEAN,
         clean => ~left, NEW w \in Views, NEW ok \in BOOLEAN
  PROVE  Lands(left, HandleTermination(h, w, clean, ok))
<1> DEFINE verified ==
             clean /\ ~(/\ h.purpose = "RETRY" /\ h.recovery
                        /\ h.top.recovery_failed \/ ~h.top.recovery_validated)
           failure == IF ~verified /\ h.safetyFailure = "NONE"
                      THEN "DEVICE_UNCERTAIN" ELSE h.safetyFailure
           named == [h EXCEPT !.safetyFailure = failure]
           a == After(named, w, verified, ok)
           r == RefreshIfShown(a, w)
           g == HandleTermination(h, w, clean, ok)
<1>1. h \in Apps
  BY DEF Gone
<1>2. /\ verified \in BOOLEAN
      /\ verified => clean
      /\ failure \in SafetyFailures
      /\ ~verified => failure # "NONE"
  BY <1>1 DEF Apps, SafetyFailures
<1>3. g = Served(r)
  <2>1. named = [h EXCEPT !.safetyFailure =
                   IF ~verified /\ @ = "NONE" THEN "DEVICE_UNCERTAIN" ELSE @]
    BY <1>1 DEF Apps
  <2> QED
    BY <2>1 DEF HandleTermination
<1> HIDE DEF verified, failure, r, g
<1>4. Verdict(left, named, verified)
  BY <1>2, GoneNamed DEF Verdict
<1> HIDE DEF named
<1>5. Rests(left, a) /\ (a.running \/ ~left)
  BY <1>2, <1>4, AfterRests
<1> HIDE DEF a
<1>6. Rests(left, r)
  <2>1. a \in Apps
    BY <1>5 DEF Rests
  <2>2. Carries(a, FALSE, r)
    BY <2>1, ObserveCarries DEF r
  <2> QED
    BY <1>5, <2>2, CarriesRests
<1>7. Lands(left, g)
  BY <1>3, <1>6, ServedLands
<1> QED
  BY <1>7 DEF g

(* One end of a listener was heard; both, and it is judged.                *)
LEMMA FinalizeLands ==
  ASSUME NEW left \in BOOLEAN, NEW h \in Apps, h.running, h.task, Guarded(h),
         Wants(h.coord), CleanupAccepted(h) => ~left,
         NEW w \in Views, NEW ok \in BOOLEAN
  PROVE  \/ FinalizeIfReady(h, w, ok) = h
         \/ Lands(left, FinalizeIfReady(h, w, ok))
<1> DEFINE accepted == CleanupAccepted(h)
           failure == IF accepted \/ h.sawSafetyLatch
                      THEN h.safetyFailure ELSE "DEVICE_UNCERTAIN"
           gone == [h EXCEPT !.task          = FALSE,
                             !.cleanupKnown  = accepted,
                             !.safetyFailure = failure]
           g == FinalizeIfReady(h, w, ok)
<1>1. accepted \in BOOLEAN /\ failure \in SafetyFailures
  BY DEF CleanupAccepted, Apps, SafetyFailures
<1>2. g = IF ~h.eof \/ h.termination = "NONE" THEN h
          ELSE HandleTermination(gone, w, accepted, ok)
  BY DEF FinalizeIfReady, Apps
<1>3. accepted => ~left
  OBVIOUS
<1> HIDE DEF accepted, failure, g
<1>4. Gone(gone)
  BY <1>1 DEF Apps, Gone, Guarded, Owning, Excused
<1> HIDE DEF gone
<1>5. Lands(left, HandleTermination(gone, w, accepted, ok))
  BY <1>1, <1>3, <1>4, HandleTerminationLands
<1>6. g = h \/ Lands(left, g)
  BY <1>2, <1>5
<1> QED
  BY <1>6 DEF g

-----------------------------------------------------------------------------
(* The mapping while the listener goes on.                                 *)

(* The listener of h goes on.                                              *)
Goes(h, claim, g) ==
  /\ g \in Apps
  /\ g.running = h.running
  /\ g.task /\ g.recovery = h.recovery
  /\ g.top.generation = h.top.generation
  /\ g.top.recovery_validated => h.top.recovery_validated \/ claim
  /\ g.savedSafe = h.savedSafe
  /\ Excused(h) => Excused(g)
  /\ Owning(h) => Owning(g)
  /\ Holds(h.coord) => Holds(g.coord)

(* Carrying over is going on.                                              *)
LEMMA CarriesGoes ==
  ASSUME NEW h, h.running, h.task, Guarded(h), NEW claim, NEW g,
         Carries(h, claim, g)
  PROVE  Goes(h, claim, g) /\ Guarded(g) /\ g.termination = h.termination
BY DEF Carries, Goes, Guarded, Excused

(* So does the answer to a listener that asks for a permission.            *)
LEMMA AskedGoes ==
  ASSUME NEW h \in Apps, h.running, h.task, Guarded(h), ~h.recovery,
         NEW w \in Views, NEW e \in Events, e.event = "permission_required"
  PROVE  LET g == HandleEvent(h, w, e) IN
         Goes(h, FALSE, g) /\ Guarded(g) /\ g.termination = h.termination
<1> DEFINE missing == (h.missing \ {"ACCESSIBILITY"})
                        \cup (e.missing \cap {"ACCESSIBILITY"}) \cup {e.gate}
           i == InvalidateTopology(h, w, FALSE)
           p == PermissionsRead(i, missing)
           t == RequireNeutralEntry(p.top)
           failure == IF p.coord.safety_latched THEN p.safetyFailure ELSE "NONE"
           m == [p EXCEPT !.permissionRequired = TRUE,
                          !.top = t,
                          !.safetyFailure = failure]
           c == Command(m, w, "NONE", TRUE, "NONE")
           g == HandleEvent(h, w, e)
<1>1. missing \in SUBSET Gates /\ "NONE" \in SafetyFailures
  BY DEF Events, Apps, SafetyFailures
<1>2. g = RefreshIfShown(c, w)
  BY DEF HandleEvent, OnPermissionRequired, MissingPermission
<1> HIDE DEF missing, g
<1>3. Carries(h, FALSE, i)
  BY InvalidateCarries
<1> HIDE DEF i
<1>4. Carries(i, FALSE, p)
  <2>1. Beside(i, FALSE, i)
    BY <1>3 DEF Beside, Carries, Trusts, Apps
  <2> QED
    BY <1>1, <2>1, PermissionsBeside, BesideCarries DEF PermissionsRead
<1> HIDE DEF p
<1>5. p \in Apps /\ Trusts(p.top, FALSE, t) /\ failure \in SafetyFailures
  BY <1>1, <1>4, EntryTrusts DEF Carries, Apps
<1> HIDE DEF t, failure
<1>6. /\ m \in Apps
      /\ m.running = p.running /\ m.enabled = p.enabled
      /\ m.task = p.task /\ m.recovery = p.recovery /\ m.purpose = p.purpose
      /\ m.savedSafe = p.savedSafe /\ m.savedPending = p.savedPending
      /\ m.termination = p.termination /\ m.coord = p.coord
      /\ Trusts(p.top, FALSE, m.top)
  BY <1>5 DEF Apps, Trusts
<1> HIDE DEF m
<1>7. Carries(m, FALSE, g)
  BY <1>1, <1>2, <1>6, NoteCarries, RefreshCarries
<1>8. /\ g \in Apps /\ g.running = h.running
      /\ g.task /\ ~g.recovery /\ g.purpose = h.purpose
      /\ g.savedSafe = h.savedSafe /\ g.termination = h.termination
      /\ g.top.generation = h.top.generation
      /\ g.top.recovery_validated => h.top.recovery_validated
      /\ Owning(h) => Owning(g)
      /\ Holds(h.coord) => Holds(g.coord)
  BY <1>3, <1>4, <1>6, <1>7 DEF Carries, Trusts, Owning
<1>9. h.recovery \in BOOLEAN /\ g.recovery \in BOOLEAN
  BY <1>8 DEF Apps
<1> QED
  BY <1>8, <1>9 DEF Goes, Guarded, Excused, g

(* A handler of h that is under way: the listener goes on, if there is     *)
(* one, and else nothing or a new one comes of it.                         *)
Way(left, h, x) ==
  /\ x.running
  /\ x.purpose = "RETRY" => Holds(x.coord)
  /\ h.task => Goes(h, FALSE, x) /\ x.termination = h.termination
  /\ ~h.task => Rests(left, x)

(* An app that may handle what comes: a mapping left behind is latched.    *)
Calmed(left, h) ==
  /\ Settled(h) /\ h.running /\ Guarded(h)
  /\ left /\ ~h.task => h.coord.safety_latched

(* The latch shown has a reason.                                           *)
LEMMA LatchedHolds ==
  ASSUME NEW h, Settled(h)
  PROVE  /\ h.coord.safety_latched <=> Holds(h.coord)
         /\ h.coord.disable_pending => Holds(h.coord)
         /\ h.running /\ h.task => Wants(h.coord)
         /\ h.running => (h.enabled <=> h.coord.enabled_intent)
BY DEF Settled, Sane, Coherent, OwnedLatch, HeldDisable, Standing, Holds, Wants

(* It begins to.                                                           *)
LEMMA WayBegins ==
  ASSUME NEW left \in BOOLEAN, NEW h, Calmed(left, h)
  PROVE  Way(left, h, h) /\ h \in Apps
<1>1. h \in Apps /\ (h.coord.safety_latched <=> Holds(h.coord))
  BY LatchedHolds DEF Calmed, Settled, Sane
<1> QED
  BY <1>1 DEF Calmed, Guarded, Way, Goes, Rests

(* It has done.                                                            *)
LEMMA WayEnds ==
  ASSUME NEW left \in BOOLEAN, NEW h, Calmed(left, h), NEW g, Way(left, h, g)
  PROVE  /\ h.task => Goes(h, FALSE, g) /\ Guarded(g)
                      /\ g.termination = h.termination
         /\ ~h.task => Lands(left, g)
BY DEF Calmed, Way, Guarded, Goes, Rests, Lands

(* A change that carries everything over.                                  *)
LEMMA WayCarries ==
  ASSUME NEW left \in BOOLEAN, NEW h, NEW x, Way(left, h, x), NEW g,
         Carries(x, FALSE, g)
  PROVE  Way(left, h, g)
<1>1. ~h.task => Rests(left, g)
  BY CarriesRests DEF Way
<1>2. h.task => Goes(h, FALSE, g) /\ g.termination = h.termination
  BY DEF Way, Goes, Carries, Excused
<1> QED
  BY <1>1, <1>2 DEF Way, Carries

(* An observation.                                                         *)
LEMMA WayObserves ==
  ASSUME NEW left \in BOOLEAN, NEW h, NEW x, Way(left, h, x), NEW w \in Views
  PROVE  Way(left, h, Observe(x, w)) /\ Way(left, h, RefreshIfShown(x, w))
<1>1. x \in Apps
  BY DEF Way, Goes, Rests
<1> QED
  BY <1>1, ObserveCarries, WayCarries

(* A start of a listener, which is refused while one is there.             *)
LEMMA WayStarts ==
  ASSUME NEW left \in BOOLEAN, NEW h \in Apps, NEW x,
         Way(left, h, x), NEW w \in Views, NEW ok
  PROVE  /\ Way(left, h, Start(x, w, FALSE, ok))
         /\ Holds(x.coord) => Way(left, h, Start(x, w, TRUE, ok))
<1>1. (h.task => x.task) /\ h.task \in BOOLEAN
  BY DEF Way, Goes, Apps
<1>2. ASSUME NEW recovery \in BOOLEAN, recovery => Holds(x.coord)
      PROVE  Way(left, h, Start(x, w, recovery, ok))
  <2> DEFINE g == Start(x, w, recovery, ok)
  <2>1. CASE x.task
    BY <2>1 DEF Start
  <2>2. CASE ~x.task
    <3>1. Rests(left, x) /\ x.running
      BY <1>1, <2>2 DEF Way
    <3>2. /\ Rests(left, g) /\ g.running /\ g.purpose = x.purpose
          /\ Holds(x.coord) => Holds(g.coord)
      BY <1>2, <2>2, <3>1, StartRests
    <3> HIDE DEF g
    <3>3. Way(left, h, g)
      BY <1>1, <2>2, <3>2 DEF Way
    <3> QED
      BY <3>3 DEF g
  <2> QED
    BY <2>1, <2>2
<1> DEFINE recovery == FALSE
<1>3. recovery \in BOOLEAN /\ ~recovery
  OBVIOUS
<1> HIDE DEF recovery
<1>4. Way(left, h, Start(x, w, recovery, ok))
  BY <1>2, <1>3
<1>5. Way(left, h, Start(x, w, FALSE, ok))
  BY <1>4 DEF recovery
<1> QED
  BY <1>2, <1>5

(* A call with a command, over no latch, or over one it keeps.             *)
LEMMA WayTold ==
  ASSUME NEW left \in BOOLEAN, NEW h, NEW x, Way(left, h, x),
         NEW c \in Commands, NEW w \in Views,
         NEW cleanup \in BOOLEAN, NEW failure \in SafetyFailures,
         Holds(x.coord) => (c \in {"DISABLE", "RETRY"} => ~cleanup),
         c = "QUIT" => x.coord.enabled_intent,
         Owning(x)
  PROVE  Way(left, h, Command(x, w, c, cleanup, failure))
<1> DEFINE g == Command(x, w, c, cleanup, failure)
           verified == cleanup /\ failure = "NONE"
           failed == failure # "NONE"
<1>1. x \in Apps
  BY DEF Way, Goes, Rests
<1>2. Recalls(x, c, verified, failed, g)
  BY <1>1, CommandRecalls
<1>3. verified => cleanup
  OBVIOUS
<1> HIDE DEF g, verified, failed
<1>4. /\ g \in Apps /\ Keeps(x, g)
      /\ Remembers(x.coord, c, verified, failed, g.coord)
      /\ g.coord.disable_pending => g.savedPending
  BY <1>2 DEF Recalls
<1>5. Owning(g)
  BY <1>4 DEF Owning, Remembers
<1>6. Holds(x.coord) => Holds(g.coord)
  BY <1>3, <1>4 DEF Remembers
<1>7. h.task => Goes(h, FALSE, g) /\ g.termination = h.termination
  BY <1>4, <1>5, <1>6 DEF Way, Goes, Keeps, Excused
<1>8. ~h.task => Rests(left, g)
  BY <1>4, <1>5, <1>6 DEF Way, Rests, Keeps, Excused
<1>9. Way(left, h, g)
  BY <1>4, <1>6, <1>7, <1>8 DEF Way, Keeps
<1> QED
  BY <1>9 DEF g

(* A change of what the handler keeps for itself.                          *)
LEMMA WaySets ==
  ASSUME NEW left \in BOOLEAN, NEW h, NEW x, Way(left, h, x), NEW y \in Apps,
         y.running = x.running, y.task = x.task, y.recovery = x.recovery,
         y.savedSafe = x.savedSafe, y.savedPending = x.savedPending,
         y.permissionRequired = x.permissionRequired,
         y.termination = x.termination, y.coord = x.coord,
         Trusts(x.top, FALSE, y.top),
         y.purpose = "RETRY" => Holds(x.coord)
  PROVE  Way(left, h, y)
<1>1. h.task => Goes(h, FALSE, y) /\ y.termination = h.termination
  BY DEF Way, Goes, Trusts, Owning, Excused
<1>2. ~h.task => Rests(left, y)
  BY DEF Way, Rests, Trusts, Owning, Excused
<1> QED
  BY <1>1, <1>2 DEF Way

(* Its purpose, its intent and its signal.                                 *)
LEMMA WayPurpose ==
  ASSUME NEW left \in BOOLEAN, NEW h, NEW x, Way(left, h, x),
         NEW purpose \in Purposes, purpose = "RETRY" => Holds(x.coord),
         NEW enabled \in BOOLEAN
  PROVE  /\ Way(left, h, [x EXCEPT !.purpose = purpose])
         /\ Way(left, h, [x EXCEPT !.enabled = enabled])
         /\ Way(left, h, [x EXCEPT !.quitInFlight = TRUE])
         /\ Way(left, h, Terminate(x))
         /\ Way(left, h, NeutralEntryRequired(x))
<1>1. x \in Apps /\ Trusts(x.top, FALSE, x.top)
      /\ (x.purpose = "RETRY" => Holds(x.coord))
      /\ Trusts(x.top, FALSE, RequireNeutralEntry(x.top))
  <2>1. x \in Apps /\ x.top \in Beliefs
    BY DEF Way, Goes, Rests, Apps
  <2> QED
    BY <2>1, EntryTrusts DEF Way
<1> DEFINE p == [x EXCEPT !.purpose = purpose]
           e == [x EXCEPT !.enabled = enabled]
           q == [x EXCEPT !.quitInFlight = TRUE]
           t == [x EXCEPT !.signalled = TRUE]
           n == RequireNeutralEntry(x.top)
           r == [x EXCEPT !.top = n]
           Only(y) == /\ y \in Apps
                      /\ y.running = x.running /\ y.task = x.task
                      /\ y.recovery = x.recovery /\ y.savedSafe = x.savedSafe
                      /\ y.savedPending = x.savedPending
                      /\ y.permissionRequired = x.permissionRequired
                      /\ y.termination = x.termination /\ y.coord = x.coord
<1>2. r = NeutralEntryRequired(x) /\ t = Terminate(x)
  BY DEF NeutralEntryRequired, Terminate
<1> HIDE DEF n
<1>3. n \in Beliefs
  BY <1>1 DEF Trusts, n
<1>4. Only(p) /\ p.top = x.top /\ p.purpose = purpose
  BY <1>1 DEF Apps
<1>5. Only(e) /\ e.top = x.top /\ e.purpose = x.purpose
  BY <1>1 DEF Apps
<1>6. Only(q) /\ q.top = x.top /\ q.purpose = x.purpose
  BY <1>1 DEF Apps
<1>7. Only(t) /\ t.top = x.top /\ t.purpose = x.purpose
  BY <1>1 DEF Apps
<1>8. Only(r) /\ r.top = n /\ r.purpose = x.purpose
  BY <1>1, <1>3 DEF Apps
<1> HIDE DEF p, e, q, t, r
<1>9. Way(left, h, p)
  BY <1>1, <1>4, WaySets
<1>10. Way(left, h, e) /\ Way(left, h, q) /\ Way(left, h, t)
  BY <1>1, <1>5, <1>6, <1>7, WaySets
<1>11. Way(left, h, r)
  BY <1>1, <1>8, WaySets DEF n
<1> QED
  BY <1>2, <1>9, <1>10, <1>11 DEF p, e, q

(* A call of the coordinator over the failure the delegate holds.          *)
LEMMA WayUpdates ==
  ASSUME NEW left \in BOOLEAN, NEW h, NEW x, Way(left, h, x), Owning(x),
         NEW w \in Views, NEW c \in {"ENABLE", "RETRY"},
         c = "RETRY" => ~Holds(x.coord)
  PROVE  Way(left, h, Update(x, w, c))
<1>1. x.safetyFailure \in SafetyFailures /\ c \in Commands /\ c # "QUIT"
  BY DEF Way, Goes, Rests, Apps, Commands
<1>2. Holds(x.coord) => (c \in {"DISABLE", "RETRY"} => ~TRUE)
  OBVIOUS
<1> QED
  BY <1>1, <1>2, WayTold DEF Update

(* And one that does not vouch for the cleanup.                            *)
LEMMA WayUnverified ==
  ASSUME NEW left \in BOOLEAN, NEW h, NEW x, Way(left, h, x), Owning(x),
         NEW w \in Views, NEW c \in {"DISABLE", "QUIT"},
         c = "QUIT" => x.coord.enabled_intent
  PROVE  Way(left, h, Unverified(x, w, c))
<1>1. x.safetyFailure \in SafetyFailures /\ c \in Commands
  BY DEF Way, Goes, Rests, Apps, Commands
<1> QED
  BY <1>1, WayTold DEF Unverified

(* The handlers: a session that switched,                                  *)
LEMMA SessionWay ==
  ASSUME NEW left \in BOOLEAN, NEW h, Calmed(left, h), NEW w \in Views,
         NEW ok \in BOOLEAN
  PROVE  Way(left, h, SessionDidChange(h, w, ok))
<1> DEFINE r == NeutralEntryRequired(h)
           t == Terminate(r)
           s == [t EXCEPT !.purpose = "SESSION"]
           stops == ~w.session /\ h.task /\ ~h.recovery /\ h.purpose = "NONE"
           o == Observe(IF stops THEN s ELSE r, w)
           n == IF w.session THEN Start(o, w, FALSE, ok) ELSE o
<1>1. Way(left, h, h) /\ h \in Apps
  BY WayBegins
<1>2. h.task \in BOOLEAN /\ "SESSION" \in Purposes /\ "SESSION" # "RETRY"
      /\ FALSE \in BOOLEAN
  BY <1>1 DEF Apps, Purposes
<1>3. Way(left, h, r)
  BY <1>1, <1>2, WayPurpose
<1>4. SessionDidChange(h, w, ok) = RefreshIfShown(n, w)
  BY DEF SessionDidChange
<1> HIDE DEF r
<1>5. Way(left, h, t)
  BY <1>2, <1>3, WayPurpose
<1> HIDE DEF t
<1>6. Way(left, h, s)
  BY <1>2, <1>5, WayPurpose
<1> HIDE DEF s, stops
<1>7. Way(left, h, o)
  BY <1>3, <1>6, WayObserves
<1> HIDE DEF o
<1>8. Way(left, h, n)
  BY <1>1, <1>7, WayStarts
<1> HIDE DEF n
<1> QED
  BY <1>4, <1>8, WayObserves

(* Enable,                                                                 *)
LEMMA EnableWay ==
  ASSUME NEW left \in BOOLEAN, NEW h, Calmed(left, h), CanEnable(h),
         NEW w \in Views, NEW ok \in BOOLEAN
  PROVE  Way(left, h, Enable(h, w, ok))
<1> DEFINE x == [h EXCEPT !.enabled = TRUE]
           s == Start(x, w, FALSE, ok)
<1>1. Way(left, h, h) /\ h \in Apps
  BY WayBegins
<1>2. h.task \in BOOLEAN /\ "NONE" \in Purposes /\ "NONE" # "RETRY"
  BY <1>1 DEF Apps, Purposes
<1>3. Way(left, h, x)
  BY <1>1, <1>2, WayPurpose
<1>4. ~h.task
  BY LatchedHolds DEF Calmed, CanEnable, Guarded, Owning, Wants
<1>5. Enable(h, w, ok) = Update(s, w, "ENABLE")
  BY DEF Enable
<1> HIDE DEF x
<1>6. Way(left, h, s)
  BY <1>1, <1>3, WayStarts
<1> HIDE DEF s
<1>7. Owning(s)
  BY <1>4, <1>6 DEF Way, Rests
<1> QED
  BY <1>5, <1>6, <1>7, WayUpdates

(* Disable,                                                                *)
LEMMA DisableWay ==
  ASSUME NEW left \in BOOLEAN, NEW h, Calmed(left, h), NEW w \in Views
  PROVE  Way(left, h, Disable(h, w))
<1> DEFINE off == [h EXCEPT !.enabled = FALSE]
           p == [off EXCEPT !.purpose = "DISABLE"]
           u == Unverified(p, w, "DISABLE")
           t == Terminate(u)
           verified == /\ ~h.coord.safety_latched
                       /\ ~h.coord.disable_pending
                       /\ ~h.everStarted \/ h.cleanupKnown
           z == [off EXCEPT !.safetyFailure = "NONE"]
           v == Verified(off, w, "DISABLE")
           failure == IF h.safetyFailure = "NONE"
                      THEN "DEVICE_UNCERTAIN" ELSE h.safetyFailure
           n == Command(off, w, "DISABLE", FALSE, failure)
<1>1. Way(left, h, h) /\ h \in Apps /\ Owning(h)
  BY WayBegins DEF Calmed, Guarded
<1>2. /\ "DISABLE" \in Purposes /\ "DISABLE" # "RETRY"
      /\ "DISABLE" \in Commands /\ "NONE" \in SafetyFailures
      /\ failure \in SafetyFailures
  BY <1>1 DEF Apps, Purposes, Commands, SafetyFailures
<1>3. Way(left, h, off)
  BY <1>1, <1>2, WayPurpose
<1>4. Disable(h, w) =
        Observe(IF h.task THEN t ELSE IF verified THEN v ELSE n, w)
  BY DEF Disable
<1>5. Owning(off) /\ off.coord = h.coord /\ off \in Apps
  BY <1>1 DEF Owning, Apps
<1> HIDE DEF off, failure
<1>6. Way(left, h, p)
  BY <1>2, <1>3, WayPurpose
<1>7. Owning(p)
  BY <1>5 DEF Owning, Apps
<1> HIDE DEF p
<1>8. Way(left, h, u)
  BY <1>6, <1>7, WayUnverified
<1> HIDE DEF u
<1>9. Way(left, h, t)
  BY <1>2, <1>8, WayPurpose
<1>10. Way(left, h, n)
  BY <1>2, <1>3, <1>5, WayTold
<1>11. verified => Way(left, h, v)
  <2>1. /\ z \in Apps
        /\ z.running = off.running /\ z.task = off.task
        /\ z.recovery = off.recovery
        /\ z.savedSafe = off.savedSafe /\ z.savedPending = off.savedPending
        /\ z.permissionRequired = off.permissionRequired
        /\ z.termination = off.termination /\ z.coord = off.coord
        /\ z.top = off.top /\ z.purpose = off.purpose
    BY <1>2, <1>5 DEF Apps
  <2>2. v = Command(z, w, "DISABLE", TRUE, "NONE")
    BY DEF Verified
  <2> HIDE DEF z, v
  <2>3. Trusts(off.top, FALSE, z.top)
    BY <1>5, <2>1 DEF Trusts, Apps
  <2>4. Way(left, h, z)
    BY <1>3, <2>1, <2>3, WaySets DEF Way
  <2>5. verified => ~Holds(z.coord)
    BY <1>5, <2>1 DEF Holds
  <2>6. Owning(z)
    BY <1>5, <2>1 DEF Owning
  <2> HIDE DEF verified
  <2> QED
    BY <1>2, <2>2, <2>4, <2>5, <2>6, WayTold
<1> HIDE DEF t, n, v, verified
<1> QED
  BY <1>4, <1>9, <1>10, <1>11, WayObserves

(* a change of the profile,                                                *)
LEMMA ProfileWay ==
  ASSUME NEW left \in BOOLEAN, NEW h, Calmed(left, h), NEW w \in Views,
         NEW ok \in BOOLEAN
  PROVE  Way(left, h, ChangeProfile(h, w, ok))
<1> DEFINE r == NeutralEntryRequired(h)
           o == Observe(r, w)
           t == Terminate(o)
           p == [t EXCEPT !.purpose = "PROFILE"]
           s == Start(o, w, FALSE, ok)
<1>1. Way(left, h, h) /\ h \in Apps
  BY WayBegins
<1>2. h.task \in BOOLEAN /\ "PROFILE" \in Purposes /\ "PROFILE" # "RETRY"
      /\ FALSE \in BOOLEAN
  BY <1>1 DEF Apps, Purposes
<1>3. Way(left, h, r)
  BY <1>1, <1>2, WayPurpose
<1>4. ChangeProfile(h, w, ok) = Observe(IF h.task THEN p ELSE s, w)
  BY DEF ChangeProfile
<1> HIDE DEF r
<1>5. Way(left, h, o)
  BY <1>3, WayObserves
<1> HIDE DEF o
<1>6. Way(left, h, t)
  BY <1>2, <1>5, WayPurpose
<1> HIDE DEF t
<1>7. Way(left, h, p) /\ Way(left, h, s)
  BY <1>1, <1>2, <1>5, <1>6, WayPurpose, WayStarts
<1> HIDE DEF p, s
<1> QED
  BY <1>4, <1>7, WayObserves

(* and Retry.                                                              *)
LEMMA RetryWay ==
  ASSUME NEW left \in BOOLEAN, NEW h, Calmed(left, h), NEW w \in Views,
         NEW ok \in BOOLEAN
  PROVE  Way(left, h, Retry(h, w, ok))
<1> DEFINE purpose == IF h.coord.disable_pending THEN "DISABLE" ELSE "RETRY"
           x == [h EXCEPT !.purpose = purpose]
           t == Terminate(x)
           s == Start(x, w, TRUE, ok)
           r == NeutralEntryRequired(h)
           u == Update(r, w, "RETRY")
           n == Start(u, w, FALSE, ok)
           latched == h.coord.disable_pending \/ h.coord.safety_latched
<1>1. Way(left, h, h) /\ h \in Apps /\ Owning(h)
  BY WayBegins DEF Calmed, Guarded
<1>2. h.task \in BOOLEAN /\ purpose \in Purposes /\ "NONE" \in Purposes
      /\ "NONE" # "RETRY" /\ TRUE \in BOOLEAN
  BY <1>1 DEF Apps, Purposes
<1>3. latched => Holds(h.coord)
  BY LatchedHolds DEF Calmed
<1>4. ~latched => ~Holds(h.coord)
  BY DEF Holds
<1>5. Retry(h, w, ok) =
        IF latched THEN Observe(IF h.task THEN t ELSE s, w) ELSE n
  BY DEF Retry
<1> HIDE DEF latched, purpose
<1>6. CASE latched
  <2>1. Way(left, h, x)
    BY <1>1, <1>2, <1>3, <1>6, WayPurpose
  <2>2. Holds(x.coord)
    BY <1>1, <1>3, <1>6 DEF Apps
  <2> HIDE DEF x
  <2>3. Way(left, h, t) /\ Way(left, h, s)
    BY <1>1, <1>2, <2>1, <2>2, WayPurpose, WayStarts
  <2> HIDE DEF t, s
  <2> QED
    BY <1>5, <1>6, <2>3, WayObserves
<1>7. CASE ~latched
  <2>1. Way(left, h, r)
    BY <1>1, <1>2, WayPurpose
  <2>2. r.coord = h.coord /\ r.savedPending = h.savedPending
    BY <1>1 DEF NeutralEntryRequired, Apps
  <2> HIDE DEF r
  <2>3. Way(left, h, u)
    BY <1>1, <1>4, <1>7, <2>1, <2>2, WayUpdates DEF Owning
  <2> HIDE DEF u
  <2>4. Way(left, h, n)
    BY <1>1, <2>3, WayStarts
  <2> QED
    BY <1>5, <1>7, <2>4
<1> QED
  BY <1>6, <1>7

(* A Quit goes on like these, or ends the app: with the mapping off the    *)
(* keyboard, or with the marks of an unclean end.                          *)
LEMMA QuitWay ==
  ASSUME NEW left \in BOOLEAN, NEW h, Calmed(left, h), NEW w \in Views,
         NEW confirmed \in BOOLEAN
  PROVE  LET g == Quit(h, w, confirmed) IN
         \/ Way(left, h, g)
         \/ Lands(left, g) /\ ~g.running
<1> DEFINE inFlight == [h EXCEPT !.quitInFlight = TRUE]
           p == [inFlight EXCEPT !.purpose = "QUIT"]
           u == Unverified(p, w, "QUIT")
           t == Terminate(u)
           c == Command(h, w, "QUIT", TRUE, "NONE")
           gone == [h EXCEPT !.running = FALSE]
           asked == IF c.coord.quit_allowed THEN SafeQuit(c) ELSE c
           latched == h.coord.safety_latched \/ h.coord.disable_pending
           g == Quit(h, w, confirmed)
<1>1. Way(left, h, h) /\ h \in Apps /\ Owning(h) /\ Sane(h)
  BY WayBegins DEF Calmed, Guarded, Settled
<1>2. /\ h.task \in BOOLEAN /\ "QUIT" \in Purposes /\ "QUIT" # "RETRY"
      /\ "QUIT" \in Commands /\ "NONE" \in SafetyFailures
  BY <1>1 DEF Apps, Purposes, Commands, SafetyFailures
<1>3. g = IF latched THEN IF confirmed THEN gone ELSE Observe(h, w)
          ELSE IF h.task THEN t
          ELSE IF h.everStarted /\ ~h.cleanupKnown THEN h
          ELSE asked
  BY DEF Quit
<1>4. Way(left, h, Observe(h, w))
  BY <1>1, WayObserves
<1>5. Lands(left, gone) /\ ~gone.running
  <2>1. /\ gone \in Apps /\ ~gone.running
        /\ gone.savedSafe = h.savedSafe /\ gone.enabled = h.enabled
        /\ gone.savedPending = h.savedPending
    BY <1>1 DEF Apps
  <2>2. left => Wants(h.coord)
    BY LatchedHolds DEF Calmed, Holds
  <2>3. left => ~h.savedSafe /\ (h.enabled \/ h.savedPending)
    BY <1>1, <2>2, LatchedHolds DEF Calmed, Guarded, Owning, Wants
  <2> QED
    BY <2>1, <2>3 DEF Lands, Rests
<1>6. ~latched /\ h.task => Way(left, h, t)
  <2>1. Way(left, h, inFlight)
    BY <1>1, <1>2, WayPurpose
  <2>2. inFlight \in Apps /\ inFlight.coord = h.coord
        /\ inFlight.savedPending = h.savedPending
    BY <1>1 DEF Apps
  <2> HIDE DEF inFlight
  <2>3. Way(left, h, p)
    BY <1>2, <2>1, WayPurpose
  <2>4. p.coord = h.coord /\ p.savedPending = h.savedPending
    BY <2>2 DEF Apps
  <2> HIDE DEF p
  <2>5. ~latched /\ h.task => p.coord.enabled_intent
    BY <1>1, <2>4, LatchedHolds DEF Calmed, Owning, Wants
  <2>6. ~latched /\ h.task => Way(left, h, u)
    BY <1>1, <2>3, <2>4, <2>5, WayUnverified DEF Owning
  <2> HIDE DEF u, latched
  <2> QED
    BY <1>2, <2>6, WayPurpose
<1>7. ~latched /\ ~h.task => Lands(left, asked) /\ ~asked.running
  <2>1. Told(h, "QUIT", TRUE /\ "NONE" = "NONE", "NONE", c)
    BY <1>1, <1>2, CommandTells
  <2> HIDE DEF c
  <2>2. c \in Apps /\ (~latched => c.coord.quit_allowed)
    BY <2>1 DEF Told, Sane, Heeds
  <2>3. ~latched /\ ~h.task => ~left
    BY DEF Calmed
  <2>4. SafeQuit(c) \in Apps /\ ~SafeQuit(c).running
    BY <2>2 DEF Apps, SafeQuit
  <2> QED
    BY <2>2, <2>3, <2>4 DEF Lands, Rests
<1> HIDE DEF gone, t, asked, latched, g
<1>8. Way(left, h, g) \/ (Lands(left, g) /\ ~g.running)
  BY <1>1, <1>2, <1>3, <1>4, <1>5, <1>6, <1>7
<1> QED
  BY <1>8 DEF g

(* The launch: a mapping left behind is met by the latch.                  *)
LEMMA LaunchLands ==
  ASSUME NEW left \in BOOLEAN, NEW h, ~h.running, Rests(left, h),
         NEW w \in Views, NEW ok \in BOOLEAN
  PROVE  LET g == Launch(h, w, ok) IN Lands(left, g) /\ g.running
<1> DEFINE failure == IF ~h.savedSafe /\ (h.enabled \/ h.savedPending)
                      THEN "UNCLEAN_EXIT"
                      ELSE IF h.savedPending THEN "DEVICE_UNCERTAIN" ELSE "NONE"
           l == Loaded(h.enabled, h.savedPending, failure)
           e == Update(l, w, "ENABLE")
           d == Unverified(l, w, "DISABLE")
           r == IF h.enabled THEN e ELSE IF h.savedPending THEN d ELSE l
           o == Observe(r, w)
           g == Launch(h, w, ok)
           P(y) == Rests(left, y) /\ y.running /\ ~y.task /\ y.purpose = "NONE"
<1>1. g = Start(o, w, FALSE, ok)
  BY DEF Launch, Loaded
<1>2. /\ h \in Apps
      /\ h.enabled \in BOOLEAN /\ h.savedPending \in BOOLEAN
      /\ failure \in SafetyFailures
      /\ left => failure # "NONE" /\ (h.enabled \/ h.savedPending)
      /\ "ENABLE" \in Commands /\ "DISABLE" \in Commands
  BY DEF Rests, Apps, SafetyFailures, Commands
<1> HIDE DEF failure, g
<1>3. /\ l \in Apps
      /\ l.running /\ ~l.task /\ l.purpose = "NONE"
      /\ ~l.savedSafe /\ ~l.permissionRequired
      /\ l.coord = InitialState /\ l.safetyFailure = failure
  <2>1. Sane(l) /\ l.running /\ ~l.task /\ l.purpose = "NONE"
        /\ l.coord = InitialState /\ l.safetyFailure = failure
    BY <1>2, LoadedIsSane
  <2>2. ~l.savedSafe /\ ~l.permissionRequired
    BY DEF Loaded, InitialApp
  <2> QED
    BY <2>1, <2>2 DEF Sane
<1> HIDE DEF l
<1>4. ~l.coord.disable_pending /\ ~l.coord.quit_requested
  BY <1>3 DEF InitialState
<1>5. ASSUME NEW c \in {"ENABLE", "DISABLE"}, NEW cleanup \in BOOLEAN
      PROVE  P(Command(l, w, c, cleanup, failure))
  <2> DEFINE y == Command(l, w, c, cleanup, failure)
  <2>1. Recalls(l, c, cleanup /\ failure = "NONE", failure # "NONE", y)
    BY <1>2, <1>3, <1>5, CommandRecalls
  <2> HIDE DEF y
  <2>2. /\ y \in Apps /\ y.running /\ ~y.task /\ y.purpose = "NONE"
        /\ ~y.savedSafe /\ ~y.permissionRequired
        /\ Owning(y)
        /\ failure # "NONE" => Holds(y.coord)
    BY <1>3, <1>4, <2>1 DEF Recalls, Keeps, Remembers, Owning
  <2>3. P(y)
    BY <1>2, <2>2 DEF Rests, Excused
  <2> QED
    BY <2>3 DEF y
<1>6. P(e) /\ P(d)
  BY <1>3, <1>5 DEF Update, Unverified
<1>7. ~left => P(l)
  BY <1>3, <1>4 DEF Rests, Owning, Excused
<1> HIDE DEF e, d
<1>8. P(r)
  BY <1>2, <1>6, <1>7
<1> HIDE DEF r
<1>9. P(o)
  <2>1. r \in Apps
    BY <1>8 DEF Rests
  <2>2. Carries(r, FALSE, o)
    BY <2>1, ObserveCarries
  <2> HIDE DEF o
  <2>3. Rests(left, o)
    BY <1>8, <2>2, CarriesRests
  <2> QED
    BY <1>8, <2>2, <2>3 DEF Carries
<1> HIDE DEF o
<1>10. Rests(left, g) /\ g.running /\ g.purpose = "NONE"
  <2> DEFINE recovery == FALSE
             n == Start(o, w, recovery, ok)
  <2>1. recovery \in BOOLEAN /\ ~recovery
    OBVIOUS
  <2>2. g = n
    BY <1>1
  <2> HIDE DEF recovery
  <2>3. Rests(left, n) /\ n.running /\ n.purpose = o.purpose
    BY <1>9, <2>1, StartRests
  <2> QED
    BY <1>9, <2>2, <2>3
<1>11. Lands(left, g)
  BY <1>10 DEF Lands, Rests, Guarded
<1> QED
  BY <1>10, <1>11 DEF g

(* An end of the listener is heard: the listener is marked, or the end is  *)
(* settled.  A cleanup is accepted only over nothing left.                 *)
LEMMA EndLands ==
  ASSUME NEW left \in BOOLEAN, NEW h, Calmed(left, h), h.task,
         NEW y, Carries(h, FALSE, y), NEW x \in Apps,
         x.running = y.running, x.task = y.task, x.recovery = y.recovery,
         x.savedSafe = y.savedSafe, x.savedPending = y.savedPending,
         x.permissionRequired = y.permissionRequired,
         x.coord = y.coord, x.top = y.top, x.purpose = y.purpose,
         x.termination = "CLEAN" /\ (x.recovery => h.top.recovery_validated) =>
           ~left,
         NEW w \in Views, NEW ok \in BOOLEAN
  PROVE  LET g == FinalizeIfReady(x, w, ok) IN
         /\ Goes(h, FALSE, x) /\ Guarded(x)
         /\ g = x \/ Lands(left, g)
<1>1. Goes(h, FALSE, y) /\ Guarded(y) /\ Wants(y.coord)
  BY CarriesGoes, LatchedHolds DEF Calmed, Carries
<1>2. Goes(h, FALSE, x) /\ Guarded(x) /\ Wants(x.coord)
  BY <1>1 DEF Goes, Guarded, Owning, Excused
<1>3. x.running /\ x.task /\ Excused(x)
  BY <1>2 DEF Goes, Guarded, Calmed
<1>4. CleanupAccepted(x) => ~left
  BY <1>2, <1>3 DEF CleanupAccepted, Goes, Excused
<1> QED
  BY <1>2, <1>3, <1>4, FinalizeLands

-----------------------------------------------------------------------------
(* A step of the app.                                                      *)

(* A step of the app from h to g: the listener goes on, having ended or    *)
(* not, or none is left, or a new one begins.                              *)
Ensues(left, h, end, g) ==
  \/ /\ h.running /\ h.task
     /\ Goes(h, FALSE, g) /\ Guarded(g)
     /\ g.termination = end
  \/ /\ Lands(left, g)
     /\ g.running /\ g.task =>
          ~h.running \/ g.top.generation # h.top.generation

(* A handler that is neither an event nor an end.                          *)
LEMMA WayEnsues ==
  ASSUME NEW left \in BOOLEAN, NEW h, Calmed(left, h), NEW g,
         Way(left, h, g), Moves(h, g)
  PROVE  Ensues(left, h, h.termination, g)
<1>1. h.task \in BOOLEAN
  BY WayBegins DEF Apps
<1>2. CASE h.task
  BY <1>2, WayEnds DEF Ensues, Calmed
<1>3. CASE ~h.task
  BY <1>3, WayEnds DEF Ensues, Moves
<1> QED
  BY <1>1, <1>2, <1>3

(* The second end of a listener settles the end, or nothing does yet.      *)
LEMMA EndEnsues ==
  ASSUME NEW left \in BOOLEAN, NEW h, Calmed(left, h), h.task,
         NEW y, Loses(h, y), Carries(h, FALSE, y), NEW x, Marks(y, x),
         x.savedSafe = y.savedSafe, x.savedPending = y.savedPending,
         x.permissionRequired = y.permissionRequired,
         x.termination = "CLEAN" /\ (x.recovery => h.top.recovery_validated) =>
           ~left,
         NEW w \in Views, NEW ok \in BOOLEAN
  PROVE  Ensues(left, h, x.termination, FinalizeIfReady(x, w, ok))
<1> DEFINE g == FinalizeIfReady(x, w, ok)
<1>1. Goes(h, FALSE, x) /\ Guarded(x) /\ (g = x \/ Lands(left, g))
  BY EndLands DEF Marks
<1>2. h.running /\ Settled(h)
  BY DEF Calmed
<1>3. /\ Sane(x) /\ Evidence(x)
      /\ ~x.top.filter_verified
      /\ x.top.generation = h.top.generation
  BY <1>2 DEF Marks, Loses, Watches, Sane, Seated, Evidence
<1>4. Ending(x)
  BY <1>2, <1>3 DEF Ending, Settled, Loses, Watches, Observes, Marks, Pends
<1>5. g = x \/ Finishes(x, g)
  BY <1>4, FinalizeFinishes
<1> HIDE DEF g
<1>6. Ensues(left, h, x.termination, g)
  BY <1>1, <1>2, <1>3, <1>5 DEF Finishes, Ensues
<1> QED
  BY <1>6 DEF g

(* The end of the output,                                                  *)
LEMMA OutputEOFEnsues ==
  ASSUME NEW left \in BOOLEAN, NEW h, Calmed(left, h), h.task,
         h.termination = "CLEAN" /\ (h.recovery => h.top.recovery_validated) =>
           ~left,
         NEW w \in Views, NEW partial \in BOOLEAN, NEW ok \in BOOLEAN
  PROVE  Ensues(left, h, h.termination, OutputEOF(h, w, partial, ok))
<1> DEFINE latch == partial \/ EndIsUnexpected(h)
           y == InvalidateTopology(h, w, latch)
           x == [y EXCEPT !.eof = TRUE]
<1>1. latch \in BOOLEAN /\ Sane(h) /\ h \in Apps
  BY DEF EndIsUnexpected, Calmed, Settled, Sane
<1>2. OutputEOF(h, w, partial, ok) = FinalizeIfReady(x, w, ok)
  BY DEF OutputEOF
<1> HIDE DEF latch
<1>3. Loses(h, y) /\ Carries(h, FALSE, y)
  BY <1>1, InvalidateTopologyLoses, InvalidateCarries
<1> HIDE DEF y
<1>4. Marks(y, x)
  BY <1>3 DEF Marks, Loses, Sane, Apps
<1>5. /\ x.savedSafe = y.savedSafe /\ x.savedPending = y.savedPending
      /\ x.permissionRequired = y.permissionRequired
      /\ x.termination = h.termination /\ x.recovery = h.recovery
  BY <1>3 DEF Carries, Apps
<1> HIDE DEF x
<1> QED
  BY <1>2, <1>3, <1>4, <1>5, EndEnsues

(* and the end of the process.                                             *)
LEMMA TerminationEnsues ==
  ASSUME NEW left \in BOOLEAN, NEW h, Calmed(left, h), h.task,
         NEW exit \in {"NONE", "CLEAN", "FAILED"},
         exit = "CLEAN" /\ (h.recovery => h.top.recovery_validated) => ~left,
         NEW w \in Views, NEW ok \in BOOLEAN
  PROVE  Ensues(left, h, exit, Termination(h, w, exit, ok))
<1> DEFINE latch == EndIsUnexpected(h)
           y == InvalidateTopology(h, w, latch)
           x == [y EXCEPT !.termination = exit]
<1>1. latch \in BOOLEAN /\ Sane(h) /\ h \in Apps
  BY DEF EndIsUnexpected, Calmed, Settled, Sane
<1>2. Termination(h, w, exit, ok) = FinalizeIfReady(x, w, ok)
  BY DEF Termination
<1> HIDE DEF latch
<1>3. Loses(h, y) /\ Carries(h, FALSE, y)
  BY <1>1, InvalidateTopologyLoses, InvalidateCarries
<1> HIDE DEF y
<1>4. Marks(y, x)
  BY <1>3 DEF Marks, Loses, Sane, Apps
<1>5. /\ x.savedSafe = y.savedSafe /\ x.savedPending = y.savedPending
      /\ x.permissionRequired = y.permissionRequired
      /\ x.termination = exit /\ x.recovery = h.recovery
  BY <1>3 DEF Carries, Apps
<1> HIDE DEF x
<1> QED
  BY <1>2, <1>3, <1>4, <1>5, EndEnsues

-----------------------------------------------------------------------------
(* The listener answers for the mapping, and the pipe for what it said.    *)

(* The app has cause to take the mapping for restored when the process     *)
(* ends well: of a normal listener always, of a recovery listener once it  *)
(* claimed so, read or unread.                                             *)
Vouched(a, q) ==
  \/ ~a.recovery
  \/ a.top.recovery_validated
  \/ \E n \in 1..Len(q) : Claims(q[n])

(* A listener answers for the mapping that is on the keyboard.             *)
Kept(filtered, c) == filtered => c.filter # "OFF"

(* A listener that ends well has restored the mapping.                     *)
Spares(c) == c.exit = "CLEAN" => c.phase = "GONE" /\ c.filter = "OFF"

(* What the app may take for true of the mapping.                          *)
Tends(a, c, q, filtered) ==
  /\ a.running => Guarded(a)
  /\ a.running /\ a.task =>
       /\ a.termination = "CLEAN" => c.exit = "CLEAN"
       /\ Vouched(a, q) => Kept(filtered, c)
  /\ a.running /\ ~a.task /\ filtered => a.coord.safety_latched
  /\ ~a.running => Rests(filtered, a)

(* A recovery listener asks for no permission.                             *)
Permitted(a, q) ==
  a.recovery => \A n \in 1..Len(q) : q[n].event # "permission_required"

(* What HostInv lacks of the mapping, as long as no recovery listener was  *)
(* refused a permission.                                                   *)
MapInv ==
  /\ Spares(child)
  /\ Permitted(app, pipe)
  /\ Tends(app, child, pipe, world.filtered)

(* What LatchEndsOverPassThrough says of a step.                           *)
LatchEnds ==
  app.running /\ app'.running
    /\ app.coord.safety_latched /\ ~app'.coord.safety_latched
  => ~world.filtered /\ (app'.task => child'.phase = "BOOTING")

(* An app that runs may handle what comes.                                 *)
LEMMA MappedIsCalmed ==
  ASSUME HostInv, MapInv, app.running
  PROVE  /\ world.filtered \in BOOLEAN
         /\ Calmed(world.filtered, app)
         /\ app.termination = "CLEAN" /\ app.task
              /\ (app.recovery => app.top.recovery_validated) => ~world.filtered
<1>1. world.filtered \in BOOLEAN
  BY DEF HostInv, Surroundings, Worlds
<1> QED
  BY <1>1 DEF HostInv, MapInv, Calmed, Tends, Spares, Vouched, Kept

(* What becomes of the mapping in a step of the app.                       *)
LEMMA EnsuesMaps ==
  ASSUME HostInv, MapInv, NEW end, NEW g, Ensues(world.filtered, app, end, g),
         Settled(g), end = "CLEAN" => child.exit = "CLEAN", HostStep(g)
  PROVE  MapInv' /\ LatchEnds
<1>1. /\ app' = g /\ world.filtered \in BOOLEAN /\ world \in Worlds
      /\ app.running => Settled(app)
      /\ g.running \in BOOLEAN /\ g.task \in BOOLEAN
  BY DEF HostStep, HostInv, Surroundings, Worlds, Settled, Sane, Apps
<1>2. /\ Booting.phase = "BOOTING" /\ Spares(Booting) /\ Spares(NoChild)
      /\ Permitted(g, <<>>) /\ Len(<<>>) = 0
  BY DEF Spares, Booting, NoChild, Permitted
<1>3. g.coord.safety_latched <=> Holds(g.coord)
  BY LatchedHolds
<1>4. CASE app.running /\ app.task /\ Goes(app, FALSE, g) /\ Guarded(g)
           /\ g.termination = end
  <2>1. child' = child /\ pipe' = pipe /\ world' = world
    BY <1>4 DEF HostStep, Goes
  <2>2. Tends(g, child, pipe, world.filtered)
    BY <1>4 DEF MapInv, Tends, Vouched, Goes
  <2>3. app.coord.safety_latched => g.coord.safety_latched
    BY <1>1, <1>3, <1>4, LatchedHolds DEF Goes
  <2>4. Permitted(g, pipe)
    BY <1>4 DEF MapInv, Permitted, Goes
  <2> QED
    BY <1>1, <2>1, <2>2, <2>3, <2>4 DEF MapInv, LatchEnds
<1>5. CASE /\ Lands(world.filtered, g)
           /\ g.running /\ g.task =>
                ~app.running \/ g.top.generation # app.top.generation
  <2>1. CASE g.running /\ g.task
    <3>1. child' = Booting /\ pipe' = <<>> /\ world' = world
      BY <1>5, <2>1 DEF HostStep
    <3>2. /\ g.termination = "NONE" /\ ~g.top.recovery_validated
          /\ world.filtered => g.recovery /\ Holds(g.coord)
          /\ Guarded(g)
      BY <1>5, <2>1 DEF Lands, Rests
    <3>3. Vouched(g, <<>>) => ~world.filtered
      BY <1>2, <3>2 DEF Vouched
    <3>4. Tends(g, Booting, <<>>, world.filtered)
      BY <2>1, <3>2, <3>3 DEF Tends, Kept
    <3> QED
      BY <1>1, <1>2, <1>3, <3>1, <3>2, <3>4 DEF MapInv, LatchEnds
  <2>2. CASE g.running /\ ~g.task
    <3>1. child' = NoChild /\ pipe' = <<>> /\ world' = world
      BY <2>2 DEF HostStep
    <3>2. /\ world.filtered => Holds(g.coord)
          /\ Guarded(g)
      BY <1>5, <2>2 DEF Lands, Rests
    <3>3. Tends(g, NoChild, <<>>, world.filtered)
      BY <1>3, <2>2, <3>2 DEF Tends
    <3> QED
      BY <1>1, <1>2, <1>3, <2>2, <3>1, <3>2, <3>3 DEF MapInv, LatchEnds
  <2>3. CASE ~g.running
    <3>1. child' = NoChild /\ pipe' = <<>>
      BY <2>3 DEF HostStep
    <3>2. world'.filtered \in {world.filtered, FALSE}
      BY <1>1, <2>3 DEF HostStep, Worlds
    <3>3. Rests(world'.filtered, g)
      BY <1>5, <2>3, <3>2 DEF Lands, Rests
    <3>4. Tends(g, NoChild, <<>>, world'.filtered)
      BY <2>3, <3>3 DEF Tends
    <3> QED
      BY <1>1, <1>2, <2>3, <3>1, <3>4 DEF MapInv, LatchEnds
  <2> QED
    BY <1>1, <2>1, <2>2, <2>3
<1> QED
  BY <1>4, <1>5 DEF Ensues

(* The same of a handler that is neither an event nor an end.              *)
LEMMA ActMaps ==
  ASSUME HostInv, MapInv, app.running, NEW g, Way(world.filtered, app, g),
         Acts(app, g), HostStep(g)
  PROVE  MapInv' /\ LatchEnds
<1>1. world.filtered \in BOOLEAN /\ Calmed(world.filtered, app)
  BY MappedIsCalmed
<1>2. Ensues(world.filtered, app, app.termination, g)
  BY <1>1, WayEnsues DEF Acts
<1>3. app.termination = "CLEAN" /\ app.task => child.exit = "CLEAN"
  BY DEF MapInv, Tends
<1>4. CASE app.task
  BY <1>2, <1>3, <1>4, EnsuesMaps DEF Acts
<1>5. CASE ~app.task
  <2>1. Ensues(world.filtered, app, "NONE", g)
    BY <1>2, <1>5 DEF Ensues
  <2> QED
    BY <2>1, EnsuesMaps DEF Acts
<1>6. app.task \in BOOLEAN
  BY <1>1, WayBegins DEF Apps
<1> QED
  BY <1>4, <1>5, <1>6

(* The app reads a line.                                                   *)
LEMMA HostReadsMaps ==
  ASSUME HostInv, HostInv', MapInv, HostReads
  PROVE  MapInv' /\ LatchEnds
<1>1. /\ app.running /\ app.task /\ pipe # <<>> /\ Settled(app)
      /\ pipe \in Seq(Events) /\ app \in Apps
      /\ child' = child /\ pipe' = Tail(pipe) /\ world' = world
      /\ Settled(app')
  BY DEF HostReads, HostInv, Fits, Settled, Sane
<1> DEFINE e == Head(pipe)
<1>2. PICK shown \in BOOLEAN : app' = HandleEvent(app, View(shown), e)
  BY DEF HostReads
<1>3. /\ e \in Events /\ e = pipe[1]
      /\ Len(pipe) \in Nat /\ Len(pipe) >= 1
      /\ Len(Tail(pipe)) = Len(pipe) - 1
      /\ \A n \in 1..Len(Tail(pipe)) : Tail(pipe)[n] = pipe[n + 1]
  BY <1>1
<1> HIDE DEF e
<1>4. Guarded(app) /\ app.recovery \in BOOLEAN
  BY <1>1 DEF MapInv, Tends, Apps
<1>5. /\ Goes(app, Claims(e), app') /\ Guarded(app')
      /\ app'.termination = app.termination
  <2>1. CASE e.event = "permission_required"
    <3>1. ~app.recovery
      BY <1>3, <2>1 DEF MapInv, Permitted
    <3>2. /\ Goes(app, FALSE, app') /\ Guarded(app')
          /\ app'.termination = app.termination
      BY <1>1, <1>2, <1>3, <1>4, <2>1, <3>1, ViewTyped, AskedGoes
    <3> QED
      BY <3>2 DEF Goes
  <2>2. CASE e.event # "permission_required"
    <3>1. Carries(app, Claims(e), app')
      BY <1>1, <1>2, <1>3, <2>2, ViewTyped, EventCarries
    <3> QED
      BY <1>1, <1>4, <3>1, CarriesGoes
  <2> QED
    BY <2>1, <2>2
<1>6. app'.recovery = app.recovery
  BY <1>5 DEF Goes
<1>7. Permitted(app', Tail(pipe))
  BY <1>3, <1>6 DEF MapInv, Permitted
<1>8. Vouched(app', Tail(pipe)) => Vouched(app, pipe)
  <2>1. ASSUME NEW n \in 1..Len(Tail(pipe)), Claims(Tail(pipe)[n])
        PROVE  \E m \in 1..Len(pipe) : Claims(pipe[m])
    <3>1. n + 1 \in 1..Len(pipe) /\ Claims(pipe[n + 1])
      BY <1>3, <2>1
    <3> QED
      BY <3>1
  <2>2. Claims(e) => \E m \in 1..Len(pipe) : Claims(pipe[m])
    BY <1>3
  <2> QED
    BY <1>5, <2>1, <2>2 DEF Vouched, Goes
<1>9. Tends(app', child, Tail(pipe), world.filtered)
  BY <1>1, <1>5, <1>8 DEF MapInv, Tends, Goes
<1>10. LatchEnds
  BY <1>1, <1>5, LatchedHolds DEF LatchEnds, Goes
<1> QED
  BY <1>1, <1>7, <1>9, <1>10 DEF MapInv

(* It reads the end of the output.                                         *)
LEMMA HostSeesEOFMaps ==
  ASSUME HostInv, MapInv, HostSeesEOF
  PROVE  MapInv' /\ LatchEnds
<1>1. /\ app.running /\ app.task /\ Settled(app)
      /\ child.partial \in BOOLEAN
  BY DEF HostSeesEOF, HostInv, Fits, Children
<1>2. PICK shown \in BOOLEAN, ok \in BOOLEAN :
        HostStep(OutputEOF(app, View(shown), child.partial, ok))
  BY DEF HostSeesEOF, HostStepMayLaunch
<1> DEFINE g == OutputEOF(app, View(shown), child.partial, ok)
<1>3. Settled(g)
  BY <1>1, ViewTyped, OutputEOFMoves
<1>4. Ensues(world.filtered, app, app.termination, g)
  BY <1>1, ViewTyped, MappedIsCalmed, OutputEOFEnsues
<1>5. app.termination = "CLEAN" => child.exit = "CLEAN"
  BY <1>1 DEF MapInv, Tends
<1> HIDE DEF g
<1>6. HostStep(g)
  BY <1>2 DEF g
<1> QED
  BY <1>3, <1>4, <1>5, <1>6, EnsuesMaps

(* It hears of the end of the process.                                     *)
LEMMA HostSeesExitMaps ==
  ASSUME HostInv, MapInv, HostSeesExit
  PROVE  MapInv' /\ LatchEnds
<1>1. /\ app.running /\ app.task /\ Settled(app)
      /\ child.exit \in {"NONE", "CLEAN", "FAILED"}
  BY DEF HostSeesExit, HostInv, Fits, Children
<1>2. PICK shown \in BOOLEAN, ok \in BOOLEAN :
        HostStep(Termination(app, View(shown), child.exit, ok))
  BY DEF HostSeesExit, HostStepMayLaunch
<1> DEFINE g == Termination(app, View(shown), child.exit, ok)
<1>3. Settled(g)
  BY <1>1, ViewTyped, TerminationMoves
<1>4. child.exit = "CLEAN" /\ (app.recovery => app.top.recovery_validated) =>
        ~world.filtered
  BY <1>1 DEF MapInv, Tends, Vouched, Kept, Spares
<1>5. Ensues(world.filtered, app, child.exit, g)
  BY <1>1, <1>4, ViewTyped, MappedIsCalmed, TerminationEnsues
<1> HIDE DEF g
<1>6. HostStep(g)
  BY <1>2 DEF g
<1> QED
  BY <1>3, <1>5, <1>6, EnsuesMaps

(* It hears of a session that switched.                                    *)
LEMMA HostSeesSessionMaps ==
  ASSUME HostInv, MapInv, HostSeesSession
  PROVE  MapInv' /\ LatchEnds
<1>1. app.running /\ Settled(app)
  BY DEF HostSeesSession, HostInv
<1>2. PICK shown \in BOOLEAN, ok \in BOOLEAN :
        HostStep(SessionDidChange(app, View(shown), ok))
  BY DEF HostSeesSession, HostStepMayLaunch
<1> DEFINE g == SessionDidChange(app, View(shown), ok)
<1>3. Acts(app, g) /\ Way(world.filtered, app, g)
  BY <1>1, ViewTyped, SessionDidChangeActs, MappedIsCalmed, SessionWay
<1> HIDE DEF g
<1>4. HostStep(g)
  BY <1>2 DEF g
<1> QED
  BY <1>1, <1>3, <1>4, ActMaps

(* It is launched.                                                         *)
LEMMA AppLaunchesMaps ==
  ASSUME HostInv, MapInv, AppLaunches
  PROVE  MapInv' /\ LatchEnds
<1>1. ~app.running /\ app \in Apps /\ world.filtered \in BOOLEAN
      /\ Rests(world.filtered, app)
  BY DEF AppLaunches, HostInv, Settled, Sane, Surroundings, Worlds, MapInv, Tends
<1>2. PICK shown \in BOOLEAN, ok \in BOOLEAN :
        HostStep(Launch(app, View(shown), ok))
  BY DEF AppLaunches, HostStepMayLaunch
<1> DEFINE g == Launch(app, View(shown), ok)
<1>3. Settled(g)
  BY <1>1, ViewTyped, LaunchActs
<1>4. Lands(world.filtered, g)
  BY <1>1, ViewTyped, LaunchLands
<1> HIDE DEF g
<1>5. Ensues(world.filtered, app, "NONE", g)
  BY <1>1, <1>4 DEF Ensues
<1>6. HostStep(g)
  BY <1>2 DEF g
<1> QED
  BY <1>3, <1>5, <1>6, EnsuesMaps

(* Opening the popover, the buttons and Quit.                              *)
LEMMA MenuMaps ==
  ASSUME HostInv, MapInv,
         HostRefreshes \/ UserEnables \/ UserDisables \/ UserChangesProfile
           \/ UserRetries \/ UserQuits
  PROVE  MapInv' /\ LatchEnds
<1>1. app.running /\ Settled(app)
  BY DEF HostRefreshes, UserEnables, UserDisables, UserChangesProfile,
     UserRetries, UserQuits, MenuIsUsable, HostInv
<1>2. View(TRUE) \in Views /\ world.filtered \in BOOLEAN
      /\ Calmed(world.filtered, app)
  BY <1>1, ViewTyped, MappedIsCalmed
<1>3. ASSUME NEW g, Acts(app, g), Way(world.filtered, app, g), HostStep(g)
      PROVE  MapInv' /\ LatchEnds
  BY <1>1, <1>3, ActMaps
<1>4. CASE HostRefreshes
  <2>1. Way(world.filtered, app, Observe(app, View(TRUE)))
    BY <1>2, WayBegins, WayObserves
  <2> QED
    BY <1>1, <1>2, <1>3, <1>4, <2>1, ObservationActs DEF HostRefreshes
<1>5. CASE UserEnables
  <2>1. PICK ok \in BOOLEAN : HostStep(Enable(app, View(TRUE), ok))
    BY <1>5 DEF UserEnables, Shown
  <2>2. CanEnable(app)
    BY <1>5 DEF UserEnables
  <2>3. Acts(app, Enable(app, View(TRUE), ok))
    BY <1>1, <1>2, <2>2, EnableActs
  <2>4. Way(world.filtered, app, Enable(app, View(TRUE), ok))
    BY <1>2, <2>2, EnableWay
  <2> QED
    BY <1>3, <2>1, <2>3, <2>4
<1>6. CASE UserDisables
  <2>1. HostStep(Disable(app, View(TRUE))) /\ app.enabled
    BY <1>6 DEF UserDisables, Shown
  <2>2. Acts(app, Disable(app, View(TRUE)))
    BY <1>1, <1>2, <2>1, DisableActs
  <2>3. Way(world.filtered, app, Disable(app, View(TRUE)))
    BY <1>2, DisableWay
  <2> QED
    BY <1>3, <2>1, <2>2, <2>3
<1>7. CASE UserChangesProfile
  <2>1. PICK ok \in BOOLEAN : HostStep(ChangeProfile(app, View(TRUE), ok))
    BY <1>7 DEF UserChangesProfile, Shown
  <2>2. Acts(app, ChangeProfile(app, View(TRUE), ok))
    BY <1>1, <1>2, ChangeProfileActs
  <2>3. Way(world.filtered, app, ChangeProfile(app, View(TRUE), ok))
    BY <1>2, ProfileWay
  <2> QED
    BY <1>3, <2>1, <2>2, <2>3
<1>8. CASE UserRetries
  <2>1. PICK ok \in BOOLEAN : HostStep(Retry(app, View(TRUE), ok))
    BY <1>8 DEF UserRetries, Shown
  <2>2. Acts(app, Retry(app, View(TRUE), ok))
    BY <1>1, <1>2, RetryActs
  <2>3. Way(world.filtered, app, Retry(app, View(TRUE), ok))
    BY <1>2, RetryWay
  <2> QED
    BY <1>3, <2>1, <2>2, <2>3
<1>9. CASE UserQuits
  <2>1. PICK confirmed \in BOOLEAN : HostStep(Quit(app, View(TRUE), confirmed))
    BY <1>9 DEF UserQuits, Shown
  <2> DEFINE g == Quit(app, View(TRUE), confirmed)
  <2>2. Acts(app, g)
    BY <1>1, <1>2, QuitActs
  <2>3. \/ Way(world.filtered, app, g)
        \/ Lands(world.filtered, g) /\ ~g.running
    BY <1>2, QuitWay
  <2> HIDE DEF g
  <2>4. HostStep(g)
    BY <2>1 DEF g
  <2>5. CASE Way(world.filtered, app, g)
    BY <1>3, <2>2, <2>4, <2>5
  <2>6. CASE Lands(world.filtered, g) /\ ~g.running
    <3>1. Ensues(world.filtered, app, "NONE", g)
      BY <2>6 DEF Ensues
    <3> QED
      BY <2>2, <2>4, <3>1, EnsuesMaps DEF Acts
  <2> QED
    BY <2>3, <2>5, <2>6
<1> QED
  BY <1>4, <1>5, <1>6, <1>7, <1>8, <1>9

(* It crashes.                                                             *)
LEMMA AppCrashesMaps ==
  ASSUME HostInv, MapInv, AppCrashes
  PROVE  MapInv' /\ LatchEnds
<1> DEFINE g == [app EXCEPT !.running = FALSE]
<1>1. Settled(app) /\ app \in Apps /\ app.running /\ HostStep(g)
      /\ world.filtered \in BOOLEAN
  BY DEF HostInv, Settled, Sane, AppCrashes, Surroundings, Worlds
<1>2. /\ g \in Apps /\ ~g.running
      /\ g.task = app.task /\ g.recovery = app.recovery
      /\ g.coord = app.coord /\ g.top = app.top
      /\ g.permission = app.permission
      /\ g.savedSafe = app.savedSafe /\ g.savedPending = app.savedPending
      /\ g.enabled = app.enabled
  BY <1>1 DEF Apps
<1> HIDE DEF g
<1>3. Settled(g)
  BY <1>1, <1>2 DEF Settled, Sane, Seated, Evidence
<1>4. world.filtered => Wants(app.coord)
  BY <1>1, LatchedHolds DEF MapInv, Tends, Holds, Apps
<1>5. Guarded(app)
  BY <1>1 DEF MapInv, Tends
<1>6. world.filtered => ~g.savedSafe /\ (g.enabled \/ g.savedPending)
  BY <1>1, <1>2, <1>4, <1>5, LatchedHolds DEF Guarded, Owning, Wants
<1>7. Ensues(world.filtered, app, "NONE", g)
  BY <1>2, <1>6 DEF Ensues, Lands, Rests
<1> QED
  BY <1>1, <1>3, <1>7, EnsuesMaps

(* The steps of the app.                                                   *)
LEMMA AppStepMaps ==
  ASSUME HostInv, HostInv', MapInv, AppStep
  PROVE  MapInv' /\ LatchEnds
BY HostReadsMaps, HostSeesEOFMaps, HostSeesExitMaps, MenuMaps, AppCrashesMaps,
   HostSeesSessionMaps, AppLaunchesMaps DEF AppStep

-----------------------------------------------------------------------------
(* A step of the listener.                                                 *)

(* Lines that neither ask for a permission nor claim a recovery.           *)
Plain(lines) ==
  /\ lines \in Seq(Events)
  /\ \A n \in 1..Len(lines) :
       lines[n].event # "permission_required" /\ ~Claims(lines[n])

(* Nothing, one line, and the listener's lines one after the other.        *)
LEMMA PlainJoin ==
  ASSUME NEW a, Plain(a), NEW b, Plain(b)
  PROVE  Plain(a \o b)
<1>1. a \o b \in Seq(Events) /\ Len(a \o b) = Len(a) + Len(b)
  BY DEF Plain
<1>2. ASSUME NEW n \in 1..Len(a \o b)
      PROVE  (a \o b)[n] = IF n <= Len(a) THEN a[n] ELSE b[n - Len(a)]
  BY DEF Plain
<1>3. Len(a) \in Nat /\ Len(b) \in Nat
  BY DEF Plain
<1>4. ASSUME NEW n \in 1..Len(a \o b)
      PROVE  /\ (a \o b)[n].event # "permission_required"
             /\ ~Claims((a \o b)[n])
  <2>1. CASE n <= Len(a)
    BY <1>2, <1>3, <2>1, <1>1, <1>4 DEF Plain
  <2>2. CASE ~(n <= Len(a))
    <3>1. n - Len(a) \in 1..Len(b)
      BY <1>1, <1>3, <2>2
    <3> QED
      BY <1>2, <2>2, <3>1 DEF Plain
  <2> QED
    BY <2>1, <2>2
<1> QED
  BY <1>1, <1>4 DEF Plain

(* One line.                                                               *)
LEMMA PlainLine ==
  ASSUME NEW e \in Events,
         e.event \notin {"permission_required", "recovery_state"}
  PROVE  Plain(<<e>>) /\ Plain(<<>>)
BY DEF Plain, Claims

(* The listener says nothing that matters to the mapping, and answers for  *)
(* it if it did before.                                                    *)
LEMMA ChildMaps ==
  ASSUME HostInv, MapInv, child.phase \in {"BOOTING", "RUNNING"},
         UNCHANGED app, Spares(child'),
         NEW lines, Plain(lines), pipe' = pipe \o lines,
         Kept(world.filtered, child) => Kept(world'.filtered, child')
  PROVE  MapInv'
<1>1. /\ app.running /\ app.task /\ pipe \in Seq(Events)
      /\ child.exit # "CLEAN"
  BY DEF HostInv, Fits, Runs, MapInv, Spares
<1>2. lines \in Seq(Events) /\ Len(lines) \in Nat /\ Len(pipe) \in Nat
  BY <1>1 DEF Plain
<1>3. /\ Len(pipe') = Len(pipe) + Len(lines)
      /\ \A n \in 1..Len(pipe') :
           pipe'[n] = IF n <= Len(pipe) THEN pipe[n] ELSE lines[n - Len(pipe)]
  BY <1>1, <1>2
<1>4. ASSUME NEW n \in 1..Len(pipe')
      PROVE  /\ \/ pipe'[n].event # "permission_required"
                \/ \E m \in 1..Len(pipe) : pipe[m].event = "permission_required"
             /\ Claims(pipe'[n]) => \E m \in 1..Len(pipe) : Claims(pipe[m])
  <2>1. CASE n <= Len(pipe)
    BY <1>2, <1>3, <2>1
  <2>2. CASE ~(n <= Len(pipe))
    <3>1. n - Len(pipe) \in 1..Len(lines)
      BY <1>2, <1>3, <2>2
    <3> QED
      BY <1>3, <2>2, <3>1 DEF Plain
  <2> QED
    BY <2>1, <2>2
<1>5. Vouched(app, pipe') => Vouched(app, pipe)
  BY <1>4 DEF Vouched
<1>6. Tends(app, child', pipe', world'.filtered)
  BY <1>1, <1>5 DEF MapInv, Tends
<1>7. Permitted(app, pipe')
  BY <1>4 DEF MapInv, Permitted
<1> QED
  BY <1>6, <1>7 DEF MapInv

(* A listener that has not ended well.                                     *)
Sound(c) == c \in Children /\ c.exit # "CLEAN"

(* The one that takes a step.                                              *)
LEMMA ChildIsSound ==
  ASSUME HostInv, MapInv, child.phase \in {"BOOTING", "RUNNING"}
  PROVE  Sound(child) /\ world.filtered \in BOOLEAN /\ world \in Worlds
         /\ pipe \in Seq(Events) /\ pipe \o <<>> = pipe
         /\ Plain(<<>>)
<1>1. pipe \in Seq(Events) /\ <<>> \in Seq(Events) /\ Len(<<>>) = 0
  BY ChildFacts
<1>2. pipe \o <<>> = pipe
  BY <1>1
<1>3. Plain(<<>>)
  BY <1>1 DEF Plain
<1> QED
  BY <1>1, <1>2, <1>3, ChildFacts DEF MapInv, Spares, Sound, Worlds

(* The listener stays sound when a field changes,                          *)
LEMMA SoundChanges ==
  ASSUME NEW c, Sound(c)
  PROVE  /\ Spares(c)
         /\ \A b \in BOOLEAN : /\ Sound([c EXCEPT !.stopping = b])
                               /\ [c EXCEPT !.stopping = b].filter = c.filter
         /\ \A b \in BOOLEAN :
              /\ Sound([c EXCEPT !.releaseFailed = b])
              /\ [c EXCEPT !.releaseFailed = b].filter = c.filter
         /\ \A f \in {"OFF", "APPLIED", "OWED"} :
              /\ Sound([c EXCEPT !.filter = f])
              /\ [c EXCEPT !.filter = f].filter = f
<1>1. \A b \in BOOLEAN : /\ [c EXCEPT !.stopping = b].exit = c.exit
                         /\ [c EXCEPT !.stopping = b].filter = c.filter
  BY DEF Sound, Children
<1>2. \A b \in BOOLEAN : /\ [c EXCEPT !.releaseFailed = b].exit = c.exit
                         /\ [c EXCEPT !.releaseFailed = b].filter = c.filter
  BY DEF Sound, Children
<1>3. \A f : /\ [c EXCEPT !.filter = f].exit = c.exit
             /\ [c EXCEPT !.filter = f].filter = f
  BY DEF Sound, Children
<1> QED
  BY <1>1, <1>2, <1>3, ChildTyped DEF Sound, Spares

(* and when it latches.                                                    *)
LEMMA SoundLatches ==
  ASSUME NEW c, Sound(c), NEW why \in SafetyFailures
  PROVE  /\ Sound(Latched(c, why)) /\ Latched(c, why).filter = c.filter
         /\ Sound(Stuck(c)) /\ Stuck(c).filter = c.filter
         /\ Plain(LatchLine(c, why))
<1>1. ASSUME NEW reason \in SafetyFailures
      PROVE  Sound(Latched(c, reason)) /\ Latched(c, reason).filter = c.filter
  <2>1. /\ Latched(c, reason).exit = c.exit
        /\ Latched(c, reason).filter = c.filter
    BY DEF Latched, Sound, Children
  <2> QED
    BY <2>1, LatchedTyped DEF Sound
<1> DEFINE l == Latched(c, "HOLD_RELEASE")
           r == [l EXCEPT !.releaseFailed = TRUE]
           s == [l EXCEPT !.releaseFailed = TRUE, !.stopping = TRUE]
<1>2. Sound(l) /\ l.filter = c.filter
  BY <1>1 DEF SafetyFailures
<1> HIDE DEF l
<1>3. s \in Children /\ s.exit = l.exit /\ s.filter = l.filter
  BY <1>2 DEF Sound, Children
<1>4. Sound(Stuck(c)) /\ Stuck(c).filter = c.filter
  BY <1>2, <1>3 DEF Sound, Stuck, l
<1>5. Plain(LatchLine(c, why))
  <2>1. SafetyLatch(why) \in Events /\ SafetyLatch(why).event = "safety_latch"
    BY LinesAreEvents DEF SafetyLatch
  <2>2. Plain(<<SafetyLatch(why)>>) /\ Plain(<<>>)
    BY <2>1, PlainLine
  <2> QED
    BY <2>2 DEF LatchLine
<1> QED
  BY <1>1, <1>4, <1>5

(* The lines a listener writes that are plain.                             *)
LEMMA PlainLines ==
  ASSUME NEW s \in Sights, NEW front \in BOOLEAN, NEW c \in Children
  PROVE  /\ Plain(<<Topology(s)>>) /\ Plain(<<TccStatus({})>>)
         /\ Plain(<<Focus(front)>>) /\ Plain(<<Neutral(front)>>)
         /\ Plain(<<FilterApplied>>) /\ Plain(<<FilterRestored>>)
         /\ Plain(<<Ready>>) /\ Plain(<<Stopped(c)>>)
<1>1. /\ Topology(s).event = "topology" /\ TccStatus({}).event = "tcc_status"
      /\ Focus(front).event = "focus_changed"
      /\ Neutral(front).event = "neutral_entry"
      /\ FilterApplied.event = "filter_applied"
      /\ FilterRestored.event = "filter_restored"
      /\ Ready.event = "ready" /\ Stopped(c).event = "stopped"
  BY DEF Topology, TccStatus, Focus, Neutral, FilterApplied, FilterRestored,
     Ready, Stopped
<1>2. /\ Topology(s) \in Events /\ TccStatus({}) \in Events
      /\ Focus(front) \in Events /\ Neutral(front) \in Events
      /\ FilterApplied \in Events /\ FilterRestored \in Events
      /\ Ready \in Events /\ Stopped(c) \in Events
  BY LinesAreEvents
<1> QED
  BY <1>1, <1>2, PlainLine

(* The mapping comes off, or is owed.                                      *)
LEMMA LetGoMaps ==
  ASSUME HostInv, MapInv, child.phase \in {"BOOTING", "RUNNING"},
         UNCHANGED app, NEW c, Sound(c), NEW lines, Plain(lines),
         LetGoOfFilter(c, lines)
  PROVE  MapInv'
<1> DEFINE owed == [c EXCEPT !.filter = "OWED", !.released = FALSE]
           off == [owed EXCEPT !.filter = "OFF"]
           stuck == Stuck(owed)
           line == LatchLine(c, "HOLD_RELEASE")
<1>1. world \in Worlds /\ world.filtered \in BOOLEAN
  BY ChildIsSound
<1>2. Sound(owed) /\ owed.filter = "OWED"
  BY DEF Sound, Children
<1> HIDE DEF owed
<1>3. Sound(off) /\ Spares(off) /\ Spares(owed)
  BY <1>2, SoundChanges
<1> HIDE DEF off
<1>4. Sound(stuck) /\ stuck.filter = "OWED" /\ Plain(line)
  BY <1>2, SoundLatches DEF SafetyFailures
<1> HIDE DEF stuck, line
<1>5. Plain(<<FilterRestored>>) /\ Plain(<<>>)
  <2>1. FilterRestored \in Events /\ FilterRestored.event = "filter_restored"
    BY LinesAreEvents DEF FilterRestored
  <2> QED
    BY <2>1, PlainLine
<1>6. CASE /\ child' = off
           /\ world' = [world EXCEPT !.filtered = FALSE]
           /\ pipe' = pipe \o (lines \o <<FilterRestored>>)
  <2>1. Plain(lines \o <<FilterRestored>>)
    BY <1>5, PlainJoin
  <2>2. world'.filtered = FALSE
    BY <1>1, <1>6 DEF Worlds
  <2> QED
    BY <1>3, <1>6, <2>1, <2>2, ChildMaps DEF Kept
<1>7. CASE child' = owed /\ pipe' = pipe \o lines /\ UNCHANGED world
  BY <1>2, <1>3, <1>7, ChildMaps DEF Kept
<1>8. ASSUME NEW restored \in BOOLEAN,
             child' = [stuck EXCEPT !.filter = IF restored THEN "OFF" ELSE @],
             world' = [world EXCEPT !.filtered = @ /\ ~restored],
             pipe' = pipe \o (lines \o line
                        \o (IF restored THEN <<FilterRestored>> ELSE <<>>))
      PROVE  MapInv'
  <2> DEFINE d == IF restored THEN <<FilterRestored>> ELSE <<>>
             l == lines \o line \o d
             f == IF restored THEN "OFF" ELSE stuck.filter
  <2>1. Plain(d)
    BY <1>5
  <2> HIDE DEF d
  <2>2. Plain(lines \o line)
    BY <1>4, PlainJoin
  <2>3. Plain(l)
    BY <2>1, <2>2, PlainJoin
  <2>4. pipe' = pipe \o l
    BY <1>8 DEF d
  <2> HIDE DEF l
  <2>5. f \in {"OFF", "APPLIED", "OWED"} /\ child' = [stuck EXCEPT !.filter = f]
    BY <1>4, <1>8
  <2>6. restored \/ f # "OFF"
    BY <1>4
  <2> HIDE DEF f
  <2>7. Spares(child') /\ child'.filter = f
    BY <1>4, <2>5, SoundChanges
  <2>8. world'.filtered => ~restored
    BY <1>1, <1>8 DEF Worlds
  <2> QED
    BY <2>3, <2>4, <2>6, <2>7, <2>8, ChildMaps DEF Kept
<1> QED
  BY <1>6, <1>7, <1>8 DEF LetGoOfFilter, Emit, owed, off, stuck, line

(* It is put on.                                                           *)
LEMMA PutOnMaps ==
  ASSUME HostInv, MapInv, child.phase \in {"BOOTING", "RUNNING"},
         UNCHANGED app, NEW c, Sound(c), NEW lines, Plain(lines),
         PutFilterOn(c, lines)
  PROVE  MapInv'
<1>1. Plain(<<FilterApplied>>)
  <2>1. FilterApplied \in Events /\ FilterApplied.event = "filter_applied"
    BY LinesAreEvents DEF FilterApplied
  <2> QED
    BY <2>1, PlainLine
<1>2. Plain(lines \o <<FilterApplied>>)
  BY <1>1, PlainJoin
<1>3. child' = [c EXCEPT !.filter = "APPLIED"]
      /\ pipe' = pipe \o (lines \o <<FilterApplied>>)
  BY DEF PutFilterOn, Emit
<1>4. Spares(child') /\ child'.filter = "APPLIED"
  BY <1>3, SoundChanges
<1> QED
  BY <1>2, <1>3, <1>4, ChildMaps DEF Kept

(* It is left as it is.                                                    *)
LEMMA TalkMaps ==
  ASSUME HostInv, MapInv, child.phase \in {"BOOTING", "RUNNING"},
         UNCHANGED <<app, world>>, Sound(child'), child'.filter = child.filter,
         NEW lines, Plain(lines), pipe' = pipe \o lines
  PROVE  MapInv'
<1>1. Spares(child')
  BY SoundChanges
<1> QED
  BY <1>1, ChildMaps DEF Kept

(* The listener ends: with a failure, or having restored the mapping.      *)
LEMMA LeavingMaps ==
  ASSUME HostInv, MapInv, child.phase \in {"BOOTING", "RUNNING"},
         UNCHANGED app, NEW c, Sound(c), NEW exit \in {"CLEAN", "FAILED"},
         ChildExits(c, exit), exit = "CLEAN" => c.filter = "OFF",
         NEW lines, Plain(lines), pipe' = pipe \o lines,
         Kept(world.filtered, child) => Kept(world'.filtered, c)
  PROVE  MapInv'
<1>1. /\ child'.exit = exit /\ child'.phase = "GONE"
      /\ child'.filter = c.filter
  BY DEF ChildExits, Sound, Children
<1> QED
  BY <1>1, ChildMaps DEF Spares, Kept

(* What a listener writes first asks for nothing and claims nothing.       *)
LEMMA FirstLookIsPlain ==
  ASSUME HostInv
  PROVE  Plain(FirstLook)
<1> DEFINE a == Topology(UnknownSnapshot)
           b == TccStatus({})
           c == Topology(NoController)
           d == Focus(world.foreground)
           n == Neutral(FALSE)
           opening == <<a, b, c, d>>
           middle == IF world.foreground THEN <<>> ELSE <<n>>
<1>1. /\ UnknownSnapshot \in Sights /\ NoController \in Sights
      /\ {} \in SUBSET Gates /\ world.foreground \in BOOLEAN
  BY ChildFacts DEF Sights, Controllers, NoController
<1>2. /\ a \in Events /\ b \in Events /\ c \in Events /\ d \in Events
      /\ n \in Events
      /\ a.event = "topology" /\ b.event = "tcc_status"
      /\ c.event = "topology" /\ d.event = "focus_changed"
      /\ n.event = "neutral_entry"
  BY <1>1, LinesAreEvents DEF Topology, TccStatus, Focus, Neutral
<1>3. FirstLook = opening \o middle
  BY DEF FirstLook
<1> HIDE DEF a, b, c, d, n
<1>4. Plain(middle)
  BY <1>2, PlainLine
<1>5. Plain(opening)
  <2>1. /\ opening \in Seq(Events) /\ Len(opening) = 4
        /\ opening[1] = a /\ opening[2] = b /\ opening[3] = c /\ opening[4] = d
    BY <1>2
  <2>2. \A e \in {a, b, c, d} : e.event # "permission_required" /\ ~Claims(e)
    BY <1>2 DEF Claims
  <2> HIDE DEF opening
  <2>3. \A i \in 1..4 : opening[i] \in {a, b, c, d}
    BY <2>1
  <2> QED
    BY <2>1, <2>2, <2>3 DEF Plain
<1> HIDE DEF opening, middle
<1> QED
  BY <1>3, <1>4, <1>5, PlainJoin

(* Startup, with every permission.                                         *)
LEMMA BootsMaps ==
  ASSUME HostInv, MapInv, ChildBoots
  PROVE  MapInv'
<1> DEFINE l == FirstLook \o <<Ready>>
<1>1. /\ Sound(child) /\ child.phase \in {"BOOTING", "RUNNING"}
      /\ UNCHANGED <<app, world>> /\ pipe' = pipe \o l
      /\ Ready \in Events /\ Ready.event = "ready"
  BY ChildIsSound, LinesAreEvents DEF ChildBoots, Emit, Ready
<1>2. Plain(<<Ready>>)
  BY <1>1, PlainLine
<1>3. Plain(l)
  BY <1>2, FirstLookIsPlain, PlainJoin
<1> HIDE DEF l
<1>4. Sound(child') /\ child'.filter = child.filter
  BY <1>1, ChildFacts DEF ChildBoots, Sound, Children
<1> QED
  BY <1>1, <1>3, <1>4, TalkMaps

(* A HID manager does not open.                                            *)
LEMMA CannotOpenMaps ==
  ASSUME HostInv, MapInv, ChildCannotOpen
  PROVE  MapInv'
<1> DEFINE latched == Latched(child, "DEVICE_UNCERTAIN")
           a == Topology(UnknownSnapshot)
           b == TccStatus({})
           s == SafetyLatch("DEVICE_UNCERTAIN")
           f == Stopped(child)
           g == Stopped(latched)
           blind == <<a, b, a>>
           stop == <<a, f>>
           broken == <<s, g>>
<1>1. /\ Sound(child) /\ child.phase \in {"BOOTING", "RUNNING"}
      /\ UnknownSnapshot \in Sights /\ child \in Children
      /\ UNCHANGED <<app, world>> /\ Plain(<<>>)
      /\ "DEVICE_UNCERTAIN" \in SafetyFailures
  BY ChildIsSound, ChildFacts DEF ChildCannotOpen, Sights, SafetyFailures
<1>2. Sound(latched) /\ latched.filter = child.filter /\ latched \in Children
  BY <1>1, SoundLatches DEF Sound
<1>3. PICK l \in {blind \o broken, blind, blind \o stop, FirstLook \o stop} :
        pipe' = pipe \o l
  BY DEF ChildCannotOpen, Emit
<1>4. ChildExits(latched, "FAILED") \/ ChildExits(child, "FAILED")
  BY DEF ChildCannotOpen
<1> HIDE DEF latched
<1>5. /\ a \in Events /\ b \in Events /\ f \in Events /\ g \in Events
      /\ s \in Events /\ s.event = "safety_latch" /\ g.event = "stopped"
      /\ a.event = "topology" /\ b.event = "tcc_status" /\ f.event = "stopped"
  BY <1>1, <1>2, LinesAreEvents DEF Topology, TccStatus, Stopped, SafetyLatch
<1> HIDE DEF a, b, f, g, s
<1>6. Plain(<<a>>) /\ Plain(<<b>>) /\ Plain(<<f>>) /\ Plain(<<g>>) /\ Plain(<<s>>)
  BY <1>5, PlainLine
<1>7. Plain(stop) /\ Plain(broken)
  <2>1. <<a>> \o <<f>> = <<a, f>> /\ <<s>> \o <<g>> = <<s, g>>
    BY <1>5, LinesJoin
  <2> QED
    BY <1>6, <2>1, PlainJoin
<1>8. Plain(blind)
  <2>1. /\ blind \in Seq(Events) /\ Len(blind) = 3
        /\ blind[1] = a /\ blind[2] = b /\ blind[3] = a
    BY <1>5
  <2> HIDE DEF blind
  <2>2. \A n \in 1..3 : blind[n] \in {a, b}
    BY <2>1
  <2>3. \A e \in {a, b} : e.event # "permission_required" /\ ~Claims(e)
    BY <1>5 DEF Claims
  <2> QED
    BY <2>1, <2>2, <2>3 DEF Plain
<1> HIDE DEF blind, stop, broken
<1>9. Plain(l)
  <2>1. /\ Plain(blind \o broken) /\ Plain(blind \o stop)
        /\ Plain(FirstLook \o stop)
    BY <1>7, <1>8, FirstLookIsPlain, PlainJoin
  <2> QED
    BY <1>3, <1>8, <2>1
<1>10. PICK c \in {latched, child} : ChildExits(c, "FAILED")
  BY <1>4
<1>11. Sound(c) /\ (Kept(world.filtered, child) => Kept(world'.filtered, c))
  BY <1>1, <1>2 DEF Kept
<1> QED
  BY <1>1, <1>3, <1>9, <1>10, <1>11, LeavingMaps

(* It is killed, or crashes.                                               *)
LEMMA SilentEndMaps ==
  ASSUME HostInv, MapInv, ChildKilledAtBoot \/ ChildCrashes
  PROVE  MapInv'
<1>1. /\ child.phase \in {"BOOTING", "RUNNING"}
      /\ UNCHANGED <<app, pipe, world>>
  BY DEF ChildKilledAtBoot, ChildCrashes
<1>2. Sound(child) /\ Plain(<<>>) /\ pipe' = pipe \o <<>>
  BY <1>1, ChildIsSound
<1>3. PICK c : Sound(c) /\ c.filter = child.filter /\ ChildExits(c, "FAILED")
  <2>1. CASE ChildKilledAtBoot
    BY <1>2, <2>1 DEF ChildKilledAtBoot
  <2>2. CASE ChildCrashes
    <3>1. PICK partial \in BOOLEAN :
            ChildExits([child EXCEPT !.partial = partial], "FAILED")
      BY <2>2 DEF ChildCrashes
    <3> DEFINE c == [child EXCEPT !.partial = partial]
    <3>2. Sound(c) /\ c.filter = child.filter
      BY <1>2 DEF Sound, Children
    <3> QED
      BY <3>1, <3>2
  <2> QED
    BY <2>1, <2>2
<1> DEFINE none == <<>>
<1>4. Plain(none) /\ pipe' = pipe \o none
  BY <1>2
<1> HIDE DEF none
<1> QED
  BY <1>1, <1>3, <1>4, LeavingMaps DEF Kept

(* The controller changed.                                                 *)
LEMMA SeesControllerMaps ==
  ASSUME HostInv, MapInv, ChildSeesController
  PROVE  MapInv'
<1> DEFINE seen == [child EXCEPT !.seen = world.controller, !.released = FALSE]
           lines == <<Topology(world.controller)>>
<1>1. /\ child.phase \in {"BOOTING", "RUNNING"} /\ UNCHANGED app
      /\ world.controller \in Controllers
  BY ChildFacts DEF ChildSeesController, ChildRuns
<1>2. Sound(child)
  BY <1>1, ChildIsSound
<1>3. Sound(seen) /\ seen.filter = child.filter
  BY <1>1, <1>2 DEF Sound, Children
<1>4. Plain(lines)
  BY <1>1, <1>2, PlainLines DEF Sound, Sights
<1>5. \/ LetGoOfFilter(seen, lines)
      \/ PutFilterOn(seen, lines)
      \/ child' = seen /\ pipe' = pipe \o lines /\ UNCHANGED world
  BY DEF ChildSeesController, Emit
<1> HIDE DEF seen, lines
<1> QED
  BY <1>1, <1>3, <1>4, <1>5, LetGoMaps, PutOnMaps, TalkMaps

(* The filter is applied.                                                  *)
LEMMA AppliesFilterMaps ==
  ASSUME HostInv, MapInv, ChildAppliesFilter
  PROVE  MapInv'
<1> DEFINE none == <<>>
<1>1. /\ child.phase \in {"BOOTING", "RUNNING"} /\ UNCHANGED app
      /\ PutFilterOn(child, none)
  BY DEF ChildAppliesFilter, ChildRuns
<1>2. Sound(child) /\ Plain(none)
  BY <1>1, ChildIsSound
<1> HIDE DEF none
<1> QED
  BY <1>1, <1>2, PutOnMaps

(* It cannot be, or is and not verified.                                   *)
LEMMA CannotApplyMaps ==
  ASSUME HostInv, MapInv, ChildCannotApply
  PROVE  MapInv'
<1> DEFINE latched == Latched(child, "DEVICE_UNCERTAIN")
           line == LatchLine(child, "DEVICE_UNCERTAIN")
           owed == [child EXCEPT !.filter = "OWED"]
           none == <<>>
<1>1. child.phase \in {"BOOTING", "RUNNING"} /\ UNCHANGED app
  BY DEF ChildCannotApply, ChildRuns
<1>2. Sound(child) /\ Plain(none) /\ pipe \o none = pipe
  BY <1>1, ChildIsSound
<1>3. Sound(latched) /\ latched.filter = child.filter /\ Plain(line)
  BY <1>2, SoundLatches DEF SafetyFailures
<1>4. CASE /\ child' = [latched EXCEPT !.stopping = TRUE]
           /\ pipe' = pipe \o line
           /\ UNCHANGED world
  <2> HIDE DEF latched, line
  <2>1. Sound(child') /\ child'.filter = child.filter
    BY <1>3, <1>4, SoundChanges
  <2> QED
    BY <1>1, <1>3, <1>4, <2>1, TalkMaps
<1>5. CASE /\ child' = [child EXCEPT !.filter = "OWED", !.stopping = TRUE]
           /\ UNCHANGED pipe
  <2>1. Sound(child') /\ child'.filter = "OWED"
    BY <1>2, <1>5 DEF Sound, Children
  <2>2. Spares(child')
    BY <2>1, SoundChanges
  <2>3. pipe' = pipe \o none
    BY <1>2, <1>5
  <2> HIDE DEF none
  <2> QED
    BY <1>1, <1>2, <2>1, <2>2, <2>3, ChildMaps DEF Kept
<1> QED
  BY <1>4, <1>5 DEF ChildCannotApply, Emit

(* It is not wanted any more.                                              *)
LEMMA DropsUnwantedFilterMaps ==
  ASSUME HostInv, MapInv, ChildDropsUnwantedFilter
  PROVE  MapInv'
<1> DEFINE none == <<>>
<1>1. /\ child.phase \in {"BOOTING", "RUNNING"} /\ UNCHANGED app
      /\ LetGoOfFilter(child, none)
  BY DEF ChildDropsUnwantedFilter, ChildRuns
<1>2. Sound(child) /\ Plain(none)
  BY <1>1, ChildIsSound
<1> HIDE DEF none
<1> QED
  BY <1>1, <1>2, LetGoMaps

(* It is paid back.                                                        *)
LEMMA RestoresOwedMaps ==
  ASSUME HostInv, MapInv, ChildRestoresOwed
  PROVE  MapInv'
<1> DEFINE latched == Latched(child, "PASSTHROUGH_RESTORE")
           line == LatchLine(child, "PASSTHROUGH_RESTORE")
           told == <<FilterRestored>>
<1>1. child.phase \in {"BOOTING", "RUNNING"} /\ UNCHANGED app
  BY DEF ChildRestoresOwed, ChildRuns
<1>2. Sound(child) /\ world \in Worlds
  BY <1>1, ChildIsSound
<1>3. Sound(latched) /\ latched.filter = child.filter /\ Plain(line)
  BY <1>2, SoundLatches DEF SafetyFailures
<1>4. Plain(told)
  <2>1. FilterRestored \in Events /\ FilterRestored.event = "filter_restored"
    BY LinesAreEvents DEF FilterRestored
  <2> QED
    BY <2>1, PlainLine
<1> HIDE DEF latched, line, told
<1>5. CASE /\ child' = [child EXCEPT !.filter = "OFF"]
           /\ world' = [world EXCEPT !.filtered = FALSE]
           /\ pipe' = pipe \o told
  <2>1. Spares(child')
    BY <1>2, <1>5, SoundChanges
  <2>2. world'.filtered = FALSE
    BY <1>2, <1>5 DEF Worlds
  <2> QED
    BY <1>1, <1>4, <1>5, <2>1, <2>2, ChildMaps DEF Kept
<1>6. CASE /\ child' = [latched EXCEPT !.releaseFailed = TRUE, !.stopping = TRUE]
           /\ pipe' = pipe \o line
           /\ UNCHANGED world
  <2>1. Sound(child') /\ child'.filter = child.filter
    BY <1>3, <1>6 DEF Sound, Children
  <2> QED
    BY <1>1, <1>3, <1>6, <2>1, TalkMaps
<1> QED
  BY <1>5, <1>6 DEF ChildRestoresOwed, Emit, latched, line, told

(* The frontmost application changed.                                      *)
LEMMA SeesFocusMaps ==
  ASSUME HostInv, MapInv, ChildSeesFocus
  PROVE  MapInv'
<1> DEFINE seen == [child EXCEPT !.foreground = world.foreground,
                                 !.released   = @ /\ world.foreground]
           rest == IF world.foreground THEN <<>> ELSE <<Neutral(FALSE)>>
           lines == <<Focus(world.foreground)>> \o rest
           stuck == Stuck(seen)
           line == LatchLine(child, "HOLD_RELEASE")
<1>1. /\ child.phase \in {"BOOTING", "RUNNING"} /\ UNCHANGED <<app, world>>
      /\ world.foreground \in BOOLEAN
  BY ChildFacts DEF ChildSeesFocus, ChildRuns
<1>2. Sound(child) /\ Plain(<<>>)
  BY <1>1, ChildIsSound
<1>3. Sound(seen) /\ seen.filter = child.filter
  BY <1>1, <1>2 DEF Sound, Children
<1>4. Plain(<<Focus(world.foreground)>>) /\ Plain(<<Neutral(FALSE)>>)
  BY <1>1, <1>2, PlainLines DEF Sound, Sights
<1>5. Plain(rest)
  BY <1>1, <1>2, <1>4
<1>6. \/ child' = seen /\ pipe' = pipe \o lines
      \/ child' = stuck /\ pipe' = pipe \o (lines \o line)
  BY DEF ChildSeesFocus, Emit
<1> HIDE DEF rest, seen
<1>7. Plain(lines)
  BY <1>4, <1>5, PlainJoin
<1>8. Sound(stuck) /\ stuck.filter = child.filter /\ Plain(line)
  BY <1>2, <1>3, SoundLatches DEF SafetyFailures
<1> HIDE DEF lines, stuck, line
<1>9. Plain(lines \o line)
  BY <1>7, <1>8, PlainJoin
<1> QED
  BY <1>1, <1>3, <1>6, <1>7, <1>8, <1>9, TalkMaps

(* The inputs are released, or not.                                        *)
LEMMA ReconcilesNeutralMaps ==
  ASSUME HostInv, MapInv, ChildReconcilesNeutral
  PROVE  MapInv'
<1> DEFINE lines == <<Neutral(~child.released)>>
<1>1. /\ child.phase \in {"BOOTING", "RUNNING"} /\ UNCHANGED <<app, world>>
      /\ pipe' = pipe \o lines
  BY DEF ChildReconcilesNeutral, ChildRuns, Emit
<1>2. Sound(child) /\ (~child.released) \in BOOLEAN /\ UnknownSnapshot \in Sights
  BY <1>1, ChildIsSound DEF Sound, Children, Sights
<1>3. Plain(lines)
  BY <1>2, PlainLines DEF Sound
<1>4. Sound(child') /\ child'.filter = child.filter
  BY <1>2 DEF ChildReconcilesNeutral, Sound, Children
<1> HIDE DEF lines
<1> QED
  BY <1>1, <1>3, <1>4, TalkMaps

(* A HID callback failed.                                                  *)
LEMMA LosesDeviceMaps ==
  ASSUME HostInv, MapInv, ChildLosesDevice
  PROVE  MapInv'
<1> DEFINE latched == Latched(child, "DEVICE_UNCERTAIN")
           line == LatchLine(child, "DEVICE_UNCERTAIN")
           lines == <<Topology(UnknownSnapshot)>> \o line
<1>1. /\ child.phase \in {"BOOTING", "RUNNING"} /\ UNCHANGED <<app, world>>
      /\ child' = [latched EXCEPT !.stopping = TRUE] /\ pipe' = pipe \o lines
      /\ UnknownSnapshot \in Sights
  BY DEF ChildLosesDevice, ChildRuns, Emit, Sights
<1>2. Sound(child)
  BY <1>1, ChildIsSound
<1>3. Sound(latched) /\ latched.filter = child.filter /\ Plain(line)
  BY <1>2, SoundLatches DEF SafetyFailures
<1>4. Plain(<<Topology(UnknownSnapshot)>>)
  BY <1>1, <1>2, PlainLines DEF Sound
<1> HIDE DEF latched, line
<1>5. Plain(lines)
  BY <1>3, <1>4, PlainJoin
<1>6. Sound(child') /\ child'.filter = child.filter
  BY <1>1, <1>3, SoundChanges
<1> HIDE DEF lines
<1> QED
  BY <1>1, <1>5, <1>6, TalkMaps

(* A recovery claims what it verified: the filter is on.                   *)
LEMMA ReportsRecoveryMaps ==
  ASSUME HostInv, MapInv, ChildReportsRecovery
  PROVE  MapInv'
<1> DEFINE verified == child.filter = "APPLIED" /\ child.seen.state = "SINGLE"
           proven   == verified /\ child.missing = {}
           outcome  == IF ~proven THEN "FAILURE"
                       ELSE IF child.released THEN "SUCCESS"
                       ELSE "NEUTRAL_ENTRY_PENDING"
           e == [event      |-> "recovery_state",
                 outcome    |-> outcome,
                 snapshot   |-> child.seen,
                 released   |-> child.released,
                 permission |-> child.missing = {},
                 verified   |-> verified]
<1>1. /\ child.phase \in {"BOOTING", "RUNNING"} /\ UNCHANGED <<app, world>>
      /\ child' = [child EXCEPT !.stopping = TRUE] /\ pipe' = pipe \o <<e>>
      /\ child.phase = "RUNNING"
  BY DEF ChildReportsRecovery, Emit
<1>2. Sound(child) /\ pipe \in Seq(Events)
  BY <1>1, ChildIsSound
<1>3. Sound(child') /\ child'.filter = child.filter
  BY <1>1, <1>2, SoundChanges
<1>4. /\ e.event = "recovery_state"
      /\ Claims(e) => child.filter = "APPLIED"
  BY DEF Claims
<1> HIDE DEF e
<1>5. /\ Len(pipe') = Len(pipe) + 1 /\ Len(pipe) \in Nat
      /\ \A n \in 1..Len(pipe') :
           pipe'[n] = IF n <= Len(pipe) THEN pipe[n] ELSE e
  BY <1>1, <1>2
<1>6. Permitted(app, pipe')
  BY <1>4, <1>5 DEF MapInv, Permitted
<1>7. Vouched(app, pipe') => Vouched(app, pipe) \/ child'.filter = "APPLIED"
  BY <1>3, <1>4, <1>5 DEF Vouched
<1>8. app.running /\ app.task /\ app.termination # "CLEAN"
  BY <1>1, <1>2 DEF HostInv, Fits, Runs, MapInv, Tends, Sound
<1>9. Tends(app, child', pipe', world.filtered)
  BY <1>3, <1>7, <1>8 DEF MapInv, Tends, Kept
<1> QED
  BY <1>1, <1>3, <1>6, <1>9, SoundChanges DEF MapInv

(* The listener stops.                                                     *)
LEMMA StopsMaps ==
  ASSUME HostInv, MapInv, ChildStops
  PROVE  MapInv'
<1> DEFINE restored == [child EXCEPT !.filter = "OFF"]
           told == IF child.filter = "OFF" THEN <<>> ELSE <<FilterRestored>>
           head == <<Topology(UnknownSnapshot)>>
           Failed(c, why) == [Latched(c, why) EXCEPT !.releaseFailed = TRUE]
           Line(why) == LatchLine(child, why)
           ExitOf(c) == IF c.releaseFailed THEN "FAILED" ELSE "CLEAN"
           Leave(c, lines) ==
             /\ pipe' = pipe \o (head \o lines \o <<Stopped(c)>>)
             /\ ChildExits(c, ExitOf(c))
           Off == world' = [world EXCEPT !.filtered = @ /\ child.filter = "OFF"]
<1>1. /\ child.phase \in {"BOOTING", "RUNNING"} /\ UNCHANGED app
      /\ UnknownSnapshot \in Sights /\ world \in Worlds
      /\ "PASSTHROUGH_RESTORE" \in SafetyFailures
      /\ "HOLD_RELEASE" \in SafetyFailures
      /\ "DEVICE_UNCERTAIN" \in SafetyFailures
  BY ChildFacts DEF ChildStops, Sights, SafetyFailures
<1>2. Sound(child)
  BY <1>1, ChildIsSound
<1>3. Sound(restored) /\ restored.filter = "OFF"
  BY <1>2, SoundChanges
<1>4. ASSUME NEW c, Sound(c), NEW why \in SafetyFailures
      PROVE  /\ Sound(Failed(c, why)) /\ Failed(c, why).filter = c.filter
             /\ Failed(c, why).releaseFailed
  <2> DEFINE d == Latched(c, why)
  <2>1. Sound(d) /\ d.filter = c.filter
    BY <1>4, SoundLatches
  <2> HIDE DEF d
  <2> DEFINE e == [d EXCEPT !.releaseFailed = TRUE]
  <2>2. Sound(e) /\ e.filter = c.filter
    BY <2>1, SoundChanges
  <2>3. e.releaseFailed
    BY <2>1 DEF Sound, Children
  <2> QED
    BY <2>2, <2>3 DEF d
<1>5. \A why \in SafetyFailures : Plain(Line(why))
  BY <1>2, SoundLatches
<1>6. Plain(told) /\ Plain(head)
  BY <1>1, <1>2, PlainLines, ChildIsSound DEF Sound
<1>7. \/ Leave(restored, told) /\ Off
      \/ \E why \in {"PASSTHROUGH_RESTORE", "HOLD_RELEASE"} :
           Leave(Failed(child, why), Line(why)) /\ UNCHANGED world
      \/ Leave(Failed(restored, "HOLD_RELEASE"), Line("HOLD_RELEASE") \o told) /\ Off
      \/ Leave(Failed(restored, "DEVICE_UNCERTAIN"),
               told \o Line("DEVICE_UNCERTAIN")) /\ Off
  BY DEF ChildStops, Emit
<1>8. Off /\ Kept(world.filtered, child) => ~world'.filtered
  BY <1>1 DEF Worlds, Kept
<1> HIDE DEF restored, told, head, Failed, Line, Off
<1>9. ASSUME NEW c, Sound(c), NEW lines, Plain(lines), Leave(c, lines),
             c.filter = "OFF" \/ c.releaseFailed,
             Kept(world.filtered, child) => Kept(world'.filtered, c)
      PROVE  MapInv'
  <2> DEFINE end == <<Stopped(c)>>
             l == head \o lines \o end
             exit == ExitOf(c)
  <2>1. Plain(end)
    BY <1>1, <1>9, PlainLines DEF Sound
  <2> HIDE DEF end
  <2>2. Plain(head \o lines)
    BY <1>6, <1>9, PlainJoin
  <2>3. Plain(l)
    BY <2>1, <2>2, PlainJoin
  <2>4. pipe' = pipe \o l /\ ChildExits(c, exit)
    BY <1>9 DEF end
  <2>5. exit \in {"CLEAN", "FAILED"} /\ (exit = "CLEAN" => c.filter = "OFF")
    BY <1>9
  <2> HIDE DEF l, exit, Leave, ExitOf
  <2> QED
    BY <1>1, <1>9, <2>3, <2>4, <2>5, LeavingMaps
<1> HIDE DEF Leave, ExitOf
<1>10. CASE Leave(restored, told) /\ Off
  BY <1>3, <1>6, <1>8, <1>9, <1>10 DEF Kept
<1>11. ASSUME NEW why \in {"PASSTHROUGH_RESTORE", "HOLD_RELEASE"},
              Leave(Failed(child, why), Line(why)), UNCHANGED world
       PROVE  MapInv'
  <2> DEFINE c == Failed(child, why)
  <2>1. Sound(c) /\ c.filter = child.filter /\ c.releaseFailed
    BY <1>1, <1>2, <1>4
  <2>2. Plain(Line(why))
    BY <1>1, <1>5
  <2>3. Kept(world.filtered, child) => Kept(world'.filtered, c)
    BY <1>11, <2>1 DEF Kept
  <2> HIDE DEF c
  <2>4. Leave(c, Line(why))
    BY <1>11 DEF c
  <2> QED
    BY <1>9, <2>1, <2>2, <2>3, <2>4
<1>12. ASSUME NEW why \in SafetyFailures, NEW lines, Plain(lines), Off,
              Leave(Failed(restored, why), lines)
       PROVE  MapInv'
  <2> DEFINE c == Failed(restored, why)
  <2>1. Sound(c) /\ c.filter = "OFF" /\ c.releaseFailed
    BY <1>3, <1>4
  <2>2. Kept(world.filtered, child) => Kept(world'.filtered, c)
    BY <1>8, <1>12 DEF Kept
  <2> HIDE DEF c
  <2>3. Leave(c, lines)
    BY <1>12 DEF c
  <2> QED
    BY <1>9, <1>12, <2>1, <2>2, <2>3
<1>13. Plain(Line("HOLD_RELEASE") \o told) /\ Plain(told \o Line("DEVICE_UNCERTAIN"))
  BY <1>1, <1>5, <1>6, PlainJoin
<1> QED
  BY <1>1, <1>7, <1>10, <1>11, <1>12, <1>13

(* A normal listener is refused a permission at its start; a recovery one  *)
(* is the case that is left out.  The mapping is off, and stays so.        *)
LEMMA RefusalMaps ==
  ASSUME HostInv, MapInv, ~app.recovery,
         ChildLacksPermission \/ ChildIsNotPermitted
  PROVE  MapInv'
<1>1. /\ child.phase = "BOOTING"
      /\ UNCHANGED <<app, world>> /\ ChildExits(child, "CLEAN")
  BY DEF ChildLacksPermission, ChildIsNotPermitted
<1>2. /\ child = Booting /\ child.filter = "OFF"
      /\ app.running /\ app.task /\ child.exit = "NONE"
  BY <1>1 DEF HostInv, Fits, Runs, Booting, NoChild
<1>3. ~world.filtered /\ Guarded(app) /\ app.termination # "CLEAN"
  BY <1>1, <1>2 DEF MapInv, Tends, Vouched, Kept
<1>4. Spares(child') /\ child'.exit = "CLEAN"
  BY <1>1, <1>2 DEF ChildExits, Spares, Booting, NoChild
<1>5. Tends(app, child', pipe', world.filtered)
  BY <1>2, <1>3 DEF Tends, Kept
<1> QED
  BY <1>1, <1>4, <1>5 DEF MapInv, Permitted

(* The permissions are told,                                               *)
LEMMA SeesPermissionsMaps ==
  ASSUME HostInv, MapInv, ChildSeesPermissions
  PROVE  MapInv'
<1> DEFINE s == IF Missing = {} THEN child.seen ELSE UnknownSnapshot
           a == PermissionsChanged(Missing)
           b == Topology(s)
           lines == <<a, b>>
<1>1. /\ child.phase \in {"BOOTING", "RUNNING"} /\ UNCHANGED <<app, world>>
      /\ child' = [child EXCEPT !.missing = Missing] /\ pipe' = pipe \o lines
  BY DEF ChildSeesPermissions, ChildRuns, Emit
<1>2. Sound(child) /\ Missing \in SUBSET Gates
  BY <1>1, ChildIsSound DEF Missing
<1>3. s \in Sights
  BY <1>2 DEF Sound, Children, Sights
<1> HIDE DEF s
<1>4. /\ a \in Events /\ a.event = "permissions_changed"
      /\ b \in Events /\ b.event = "topology"
  BY <1>2, <1>3, LinesAreEvents DEF PermissionsChanged, Topology
<1> HIDE DEF a, b
<1>5. Plain(lines)
  <2>1. Plain(<<a>>) /\ Plain(<<b>>)
    BY <1>4, PlainLine
  <2>2. <<a>> \o <<b>> = lines
    BY <1>4, LinesJoin
  <2> QED
    BY <2>1, <2>2, PlainJoin
<1>6. Sound(child') /\ child'.filter = child.filter
  BY <1>1, <1>2 DEF Sound, Children
<1> HIDE DEF lines
<1> QED
  BY <1>1, <1>5, <1>6, TalkMaps

(* or found to be gone.                                                    *)
LEMMA FindsPostDeniedMaps ==
  ASSUME HostInv, MapInv, ChildFindsPostDenied
  PROVE  MapInv'
<1> DEFINE denied == [child EXCEPT !.missing = {"ACCESSIBILITY"}]
           stuck == Stuck(denied)
           line == LatchLine(child, "HOLD_RELEASE")
           none == <<>>
<1>1. /\ child.phase \in {"BOOTING", "RUNNING"} /\ UNCHANGED <<app, world>>
      /\ \/ child' = denied /\ UNCHANGED pipe
         \/ child' = stuck /\ pipe' = pipe \o line
  BY DEF ChildFindsPostDenied, ChildRuns, Emit
<1>2. Sound(child) /\ Plain(none) /\ pipe \o none = pipe
  BY <1>1, ChildIsSound
<1>3. Sound(denied) /\ denied.filter = child.filter
  BY <1>2 DEF Sound, Children, Gates
<1> HIDE DEF denied
<1>4. Sound(stuck) /\ stuck.filter = child.filter /\ Plain(line)
  BY <1>2, <1>3, SoundLatches DEF SafetyFailures
<1> HIDE DEF stuck, line, none
<1> QED
  BY <1>1, <1>2, <1>3, <1>4, TalkMaps

(* Every step of the listener.                                             *)
LEMMA ChildStepMaps ==
  ASSUME HostInv, MapInv, ~refused', ChildStep
  PROVE  MapInv' /\ LatchEnds
<1>1. MapInv'
  BY RefusalMaps, BootsMaps, CannotOpenMaps, SilentEndMaps,
     SeesControllerMaps, AppliesFilterMaps, CannotApplyMaps,
     DropsUnwantedFilterMaps, RestoresOwedMaps, SeesFocusMaps,
     ReconcilesNeutralMaps, SeesPermissionsMaps, FindsPostDeniedMaps,
     LosesDeviceMaps, ReportsRecoveryMaps, StopsMaps
  DEF ChildStep
<1>2. app' = app
  BY DEF ChildStep, ChildLacksPermission, ChildIsNotPermitted, ChildBoots,
     ChildCannotOpen, ChildKilledAtBoot, ChildSeesController, ChildAppliesFilter,
     ChildCannotApply, ChildDropsUnwantedFilter, ChildRestoresOwed,
     ChildSeesFocus, ChildReconcilesNeutral, ChildSeesPermissions,
     ChildFindsPostDenied, ChildLosesDevice, ChildReportsRecovery, ChildStops,
     ChildCrashes, ChildRuns
<1> QED
  BY <1>1, <1>2 DEF LatchEnds

(* The world moves: the mapping may go with the keyboard.                  *)
LEMMA WorldStepMaps ==
  ASSUME HostInv, MapInv, WorldStep
  PROVE  MapInv' /\ LatchEnds
<1>1. /\ app' = app /\ child' = child /\ pipe' = pipe
      /\ world \in Worlds /\ world.filtered \in BOOLEAN
      /\ app \in Apps
  BY DEF WorldStep, HostInv, Surroundings, Worlds, Settled, Sane
<1>2. world'.filtered \in {world.filtered, FALSE}
  BY <1>1 DEF WorldStep, ControllerMoves, PermissionMoves, FocusMoves,
     SessionMoves, Worlds
<1>3. Tends(app, child, pipe, world'.filtered)
  BY <1>1, <1>2 DEF MapInv, Tends, Kept, Rests
<1> QED
  BY <1>1, <1>3 DEF MapInv, LatchEnds

(* The first launch finds no mapping.                                      *)
LEMMA InitMaps ==
  ASSUME Init
  PROVE  MapInv
<1>1. HostInv
  BY InitHolds
<1>2. app \in Apps /\ ~app.running /\ world.filtered = FALSE
  <2>1. app \in Apps
    BY <1>1 DEF HostInv, Settled, Sane
  <2>2. ~app.running
    BY InitialAppTyped DEF Init, Apps, InitialApp
  <2> QED
    BY <2>1, <2>2 DEF Init
<1>3. Spares(NoChild) /\ Permitted(app, <<>>)
  BY DEF Spares, NoChild, Permitted
<1>4. child = NoChild /\ pipe = <<>>
  BY DEF Init
<1>5. Tends(app, NoChild, <<>>, world.filtered)
  BY <1>2 DEF Tends, Rests
<1> QED
  BY <1>3, <1>4, <1>5 DEF MapInv

(* Every step keeps MapInv until a recovery listener is refused a          *)
(* permission.                                                             *)
LEMMA NextMaps ==
  ASSUME HostInv, HostInv', MapInv, [Next]_vars, ~refused'
  PROVE  MapInv' /\ LatchEnds
<1>1. CASE UNCHANGED vars
  BY <1>1 DEF vars, MapInv, LatchEnds
<1>2. CASE Next
  BY <1>2, ChildStepMaps, AppStepMaps, WorldStepMaps DEF Next
<1> QED
  BY <1>1, <1>2

(* Somebody answers for a mapping that is on the keyboard, in every state  *)
(* before which no recovery listener was refused a permission.             *)
LEMMA MapInvariant == Spec => [](refused \/ MapInv)
<1>1. Init => refused \/ MapInv
  BY InitMaps
<1>2. /\ HostInv /\ HostInv' /\ (refused \/ MapInv) /\ refused \in BOOLEAN
      /\ [Next]_vars
      => (refused \/ MapInv)'
  <2> SUFFICES ASSUME HostInv, HostInv', refused \/ MapInv, [Next]_vars,
                      refused \in BOOLEAN, ~refused'
               PROVE  MapInv'
    OBVIOUS
  <2>1. ~refused
    BY RefusedGrows
  <2> QED
    BY <2>1, NextMaps
<1> QED
  BY <1>1, <1>2, HostInvariant, RefusedTyped, PTL DEF Spec

(* A mapping left on the keyboard is never forgotten: an app without a     *)
(* listener is latched over it (muse_on_menu_bar.m,                        *)
(* handleListenerTerminationForPurpose:).  The only exception starts with  *)
(* a recovery listener that is refused a permission, found missing or when *)
(* it opens its devices, exits with 0 and is taken for a verified cleanup. *)
THEOREM LeftMappingAlwaysLatched == Spec => []LeftMappingIsLatched
<1>1. refused \/ MapInv => LeftMappingIsLatched
  BY DEF MapInv, Tends, LeftMappingIsLatched
<1> QED
  BY <1>1, MapInvariant, PTL

(* The marker of a safe Quit is saved only over a keyboard without the     *)
(* mapping, with the same exception (muse_on_menu_bar.m, finishSafeQuit).  *)
THEOREM SafeMarkerAlwaysEarned == Spec => []SafeMarkerIsEarned
<1>1. HostInv /\ MapInv => SafeMarkerIsEarned
  BY DEF HostInv, Settled, Sane, Apps, Surroundings, Worlds, MapInv, Tends,
     Guarded, Rests, SafeMarkerIsEarned
<1>2. refused => SafeMarkerIsEarned
  BY DEF SafeMarkerIsEarned
<1> QED
  BY <1>1, <1>2, HostInvariant, MapInvariant, PTL

(* The latch ends only over Pass-through control, with no listener left    *)
(* but one that has not begun, with the same exception                     *)
(* (muse_on_state_coordinator.c, muse_on_state_apply).                     *)
THEOREM LatchAlwaysEndsOverPassThrough == Spec => LatchEndsEarlyOnlyByRefusal
<1> DEFINE Step ==
      app.running /\ app'.running
        /\ app.coord.safety_latched /\ ~app'.coord.safety_latched
      => \/ ~world.filtered /\ (app'.task => child'.phase = "BOOTING")
         \/ refused
<1>1. /\ HostInv /\ HostInv' /\ (refused \/ MapInv) /\ refused \in BOOLEAN
      /\ [Next]_vars
      => [Step]_vars
  <2> SUFFICES ASSUME HostInv, HostInv', MapInv, ~refused, [Next]_vars
               PROVE  Step
    OBVIOUS
  <2>1. CASE ~refused'
    BY <2>1, NextMaps DEF LatchEnds
  <2>2. CASE refused'
    <3>1. app' = app
      BY <2>2 DEF Next, ChildStep, ChildLacksPermission, ChildIsNotPermitted, vars
    <3> QED
      BY <3>1
  <2> QED
    BY <2>1, <2>2
<1> QED
  BY <1>1, HostInvariant, MapInvariant, RefusedTyped, PTL
  DEF Spec, LatchEndsEarlyOnlyByRefusal, Step

=============================================================================
