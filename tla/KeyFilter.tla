------------------------------ MODULE KeyFilter ------------------------------
(***************************************************************************)
(* The key filter: how the listener (muse_on_listener.c) takes the keys of *)
(* one keyboard away through muse_on_key_filter.c, and gives them back.    *)
(*                                                                         *)
(* The keyboard interface keeps a key mapping of its own.  The listener    *)
(* saves it, writes the sink, and owes the saved one until it read back    *)
(* that it is there again, or knows that the keyboard is gone.  Lookup and *)
(* writing can fail, so applying and restoring are retried for a bounded   *)
(* time by a timer, while the controllers come and go and a listener may   *)
(* be killed at any moment and another one started.                        *)
(*                                                                         *)
(* A keyboard is the identity macOS gives it when it is plugged in; the    *)
(* same controller plugged in again is another one at the same location.   *)
(***************************************************************************)
EXTENDS Connection, Integers

CONSTANTS
  Keyboards,     \* registry identities, in the order macOS hands them out
  Locations,     \* USB locations
  RetryTicks,    \* ticks; kFilterRetryIntervalNs
  SettleTicks,   \* ticks; MUSE_ON_KEY_FILTER_*_SETTLEMENT_NS
  RecoveryTicks, \* ticks; MUSE_ON_RECOVERY_SETTLEMENT_NS
  Beats,         \* whether a tick turns the beat; only liveness needs it
  MaxFaults,     \* bound: failures of macOS
  MaxMoves       \* bound: changes of permission, joysticks unplugged, signals

ASSUME KeyFilterAssumption ==
  /\ Keyboards \cup Locations \subseteq Nat \ {0}
  /\ {RetryTicks, SettleTicks, RecoveryTicks} \subseteq Nat \ {0}
  /\ Beats \in BOOLEAN
  /\ {MaxFaults, MaxMoves} \subseteq Nat

VARIABLES
  st,       \* the listener, and the key mappings it works on
  plug,     \* each keyboard: not yet plugged in, in, or out again
  at,       \* each keyboard's location
  due,      \* ghost: the mapping the user of a keyboard is to find
  stranded, \* ghost: keyboards an ended listener left with the sink
  beat,     \* turns at every tick, so that a tick is a step of its own
  bounds    \* faults and moves so far

world == <<plug, at>>
ghosts == <<due, stranded>>
vars == <<st, world, ghosts, beat, bounds>>

Nobody == 0  \* no identity

Off == -1  \* a policy that is not waiting, a retry time that is not set

Ages(limit) == (0..limit) \cup {Off}

IsDue(retry) == retry \in {0, Off}

(* A listener after its start: ListenerState and MuseOnKeyFilter.          *)
Started(mapping, latched) ==
  [mapping       |-> mapping,     \* of each keyboard: macOS keeps them
   running       |-> TRUE,
   latched       |-> latched,     \* config.safety_latched: a recovery
   slots         |-> {},          \* keyboards in the slots
   sticks        |-> {},          \* locations of the joysticks in the slots
   allowed       |-> TRUE,        \* filter_permissions_ready
   applied       |-> FALSE,       \* keyFilterApplied
   active        |-> FALSE,       \* ownership.active
   own           |-> Nobody,      \* ownership while restore_pending
   saved         |-> "EMPTY",     \* original_mapping, a null one is empty
   applyAge      |-> Off,         \* filterApplyPolicy
   restoreAge    |-> Off,         \* filterRestorePolicy
   retry         |-> Off,         \* ticks to filterRetryAfterNs
   bound         |-> 0,           \* location the lifecycle is bound to
   hold          |-> FALSE,       \* syntheticHoldDown
   released      |-> FALSE,       \* inputs_released
   stop          |-> FALSE,       \* stopRequested
   releaseFailed |-> FALSE,
   failure       |-> "NONE",      \* safetyFailure
   error         |-> FALSE,       \* recoveryErrorObserved
   recoveryAge   |-> 0,
   outcome       |-> "NONE",      \* of the recovery, once it was emitted
   exit          |-> "NONE"]

-----------------------------------------------------------------------------
(* What macOS does to the calls of one handler.  A fault hits the first    *)
(* call it can, or all of them.                                            *)

MappingFaults ==
  {"BLIND",    \* the services cannot be read, or no client can be made
   "REFUSED",  \* a write is refused
   "STORED",   \* a write is refused and yet takes effect
   "IGNORED",  \* a write is accepted without effect
   "UNREAD",   \* a write takes effect and cannot be read back
   "STRANGE"}  \* the mapping found is not an array, or memory runs out

(* Besides, at most once in a handler: the release of the shortcut cannot  *)
(* be posted (HOLD), a device callback reports an error or no properties   *)
(* (CALLBACK), there is no memory for a slot (MEMORY), a device cannot be  *)
(* closed (CLOSE).                                                         *)

NoFault == [kind |-> "NONE", lasts |-> FALSE]

Later(f) == IF f.lasts THEN f ELSE NoFault

WriteIsStored(f) == f.kind \notin {"REFUSED", "IGNORED"}

WriteIsAccepted(f) == f.kind \notin {"REFUSED", "STORED"}

Served(s) == {k \in Keyboards : s.mapping[k] # "NONE"}

(* Mutant: a list read only in part confirms an absence too.               *)
SelectService_Trusting(served, blind, k) ==
  IF k \in served \ blind THEN "MATCHED" ELSE "CONFIRMED_ABSENT"

(* muse_on_key_filter_select_service: the readable service whose registry  *)
(* chain contains k.  Only a list read in full confirms its absence.       *)
SelectService(served, blind, k) ==
  IF k \in served \ blind THEN "MATCHED"
  ELSE IF blind # {} THEN "UNCERTAIN" ELSE "CONFIRMED_ABSENT"

Find(s, k, f) ==
  SelectService(Served(s), IF f.kind = "BLIND" THEN Keyboards ELSE {}, k)

Write(s, k, value, f) ==
  IF WriteIsStored(f) THEN [s EXCEPT !.mapping[k] = value] ELSE s

(* What is read back after the write; a mapping that cannot be read looks  *)
(* like a null one, which is what an empty one may read as.                *)
IsVerified(written, k, value, f) ==
  /\ WriteIsAccepted(f)
  /\ IF f.kind = "UNREAD" THEN value = "EMPTY"
     ELSE written.mapping[k] = value

-----------------------------------------------------------------------------
(* muse_on_key_filter.c.                                                   *)

Disown(s) == [s EXCEPT !.own = Nobody, !.active = FALSE, !.saved = "EMPTY"]

(* muse_on_key_filter_restore; it succeeds when nothing is owned after it. *)
RestoreMapping(s, f) ==
  LET idle    == [s EXCEPT !.active = FALSE]
      found   == Find(s, s.own, f)
      written == Write(idle, s.own, s.saved, f)
  IN IF s.own = Nobody \/ found = "UNCERTAIN" THEN idle
     ELSE IF found = "CONFIRMED_ABSENT" THEN Disown(idle)
     ELSE IF IsVerified(written, s.own, s.saved, f) THEN Disown(written)
     ELSE written

(* Mutant: a sink left by a killed listener is saved as the user's own.    *)
Original_KeepsSink(mapping) == mapping

Original(mapping) == IF mapping = "SINK" THEN "EMPTY" ELSE mapping

(* muse_on_key_filter_apply.  A result that the policy retries is          *)
(* TRANSIENT.  Ownership is taken before the write, and a write that does  *)
(* not read back is rolled back at once.                                   *)
ApplyMapping(s, k, f) ==
  LET found   == Find(s, k, f)
      owning  == [s EXCEPT !.own = k, !.saved = Original(s.mapping[k])]
      written == Write(owning, k, "SINK", f)
      rolled  == RestoreMapping(written, Later(f))
      Answer(state, result) == [state |-> state, result |-> result]
  IN IF s.active \/ s.own # Nobody THEN Answer(s, "FATAL")
     ELSE IF found # "MATCHED" THEN Answer(s, "TRANSIENT")
     ELSE IF f.kind = "STRANGE" THEN Answer(s, "FATAL")
     ELSE IF IsVerified(written, k, "SINK", f)
     THEN Answer([written EXCEPT !.active = TRUE], "APPLIED")
     ELSE Answer(rolled, IF rolled.own = Nobody THEN "TRANSIENT"
                         ELSE "ROLLBACK_UNVERIFIED")

(* The two settlement policies: a retry starts the clock, and one that     *)
(* comes when the time is up fails.                                        *)
Waiting(age) == IF age = Off THEN 0 ELSE age

HasSettledTooLong(age) == age # Off /\ age >= SettleTicks

RemovalDecision(s, k, single) ==
  IF k = s.own /\ k # Nobody
  THEN IF single THEN "CONFIRM_EXACT_TARGET_AND_REAPPLY" ELSE "CONFIRM_EXACT_TARGET"
  ELSE IF \/ s.applied /\ ~single
          \/ k # Nobody /\ s.own # Nobody /\ at[s.own] = at[k]
  THEN "RESTORE_GENERIC" ELSE "NONE"

-----------------------------------------------------------------------------
(* muse_on_listener.c.                                                     *)

Latch(s, failure) ==
  [s EXCEPT !.failure = IF @ = "NONE" THEN failure ELSE @]

(* emit_error, seen by a recovery.                                         *)
Error(s) == [s EXCEPT !.error = @ \/ s.latched]

Fatal(s) == [Latch(Error(s), "DEVICE_UNCERTAIN") EXCEPT !.stop = TRUE]

Interfaces(s) ==
  {[id |-> <<"K", k>>, kind |-> "KEYBOARD", location |-> at[k], connected |-> TRUE]
     : k \in s.slots}
  \cup
  {[id |-> <<"J", l>>, kind |-> "JOYSTICK", location |-> l, connected |-> TRUE]
     : l \in s.sticks}

(* current_connection_snapshot.                                            *)
Snapshot(s) == Classify(Interfaces(s))

IsSingle(s) == Snapshot(s).state = "SINGLE"

(* active_filter_matches_current_keyboard, and that it is applied.         *)
FilterIsVerified(s) ==
  /\ IsSingle(s)
  /\ s.applied /\ s.active
  /\ s.own \in s.slots /\ at[s.own] = Snapshot(s).location

Unbind(s) == [s EXCEPT !.bound = 0, !.released = FALSE]

(* sync_lifecycle_binding; `calm' is what the decoders are seeded with.    *)
SyncBinding(s, calm) ==
  IF ~FilterIsVerified(s) THEN Unbind(s)
  ELSE IF s.bound = Snapshot(s).location THEN s
  ELSE [s EXCEPT !.bound = Snapshot(s).location, !.released = calm]

(* Mutant: a lifecycle that is unbound has nothing to release.             *)
ReleaseHold_OnlyBound(s, f) ==
  IF ~s.hold \/ s.bound = 0 THEN s
  ELSE IF f.kind # "HOLD" THEN [s EXCEPT !.hold = FALSE]
  ELSE [Latch(s, "HOLD_RELEASE") EXCEPT !.releaseFailed = TRUE]

(* force_release.                                                          *)
ReleaseHold(s, f) ==
  IF ~s.hold THEN s
  ELSE IF f.kind # "HOLD" THEN [s EXCEPT !.hold = FALSE]
  ELSE [Latch(s, "HOLD_RELEASE") EXCEPT !.releaseFailed = TRUE]

(* restore_keyboard_filter; it returns whether nothing is owned after it.  *)
Restore(s, f, final) ==
  LET first   == s.restoreAge = Off /\ s.retry = Off
      loose   == [(IF first THEN Unbind(ReleaseHold(s, f)) ELSE s)
                    EXCEPT !.applied = FALSE]
      present == \E k \in s.slots : s.own # Nobody /\ at[k] = at[s.own]
      tooSoon == ~final /\ s.restoreAge # Off /\ present /\ ~IsDue(s.retry)
      tried   == RestoreMapping(loose, f)
  IN IF s.own = Nobody THEN [loose EXCEPT !.restoreAge = Off, !.retry = Off]
     ELSE IF tooSoon THEN loose
     ELSE IF tried.own = Nobody
     THEN [tried EXCEPT !.restoreAge = Off, !.retry = Off, !.applyAge = Off]
     ELSE IF final \/ (present /\ HasSettledTooLong(s.restoreAge))
     THEN [Latch(Error(tried), "PASSTHROUGH_RESTORE")
             EXCEPT !.restoreAge = IF final THEN Off ELSE @,
                    !.releaseFailed = TRUE, !.stop = TRUE]
     ELSE [tried EXCEPT !.restoreAge = IF present THEN Waiting(@) ELSE Off,
                        !.retry = RetryTicks]

(* An attempt to apply that did not succeed, under the apply policy.       *)
NotApplied(s, result) ==
  IF result = "FATAL" \/ HasSettledTooLong(s.applyAge)
  THEN [Fatal(s) EXCEPT !.applyAge = Off, !.retry = Off]
  ELSE [s EXCEPT !.applyAge = Waiting(@), !.retry = RetryTicks]

(* activate_keyboard_filter: first what is owed, then the keyboard of the  *)
(* one controller in sight.                                                *)
ApplyTo(s, f, calm) ==
  LET k     == CHOOSE x \in s.slots : at[x] = Snapshot(s).location
      tried == ApplyMapping(s, k, f)
      back  == Restore([Error(tried.state) EXCEPT !.stop = TRUE], Later(f), FALSE)
  IN CASE tried.result = "APPLIED" ->
            SyncBinding([tried.state EXCEPT !.applyAge = Off, !.applied = TRUE,
                                            !.retry = Off], calm)
       [] tried.result = "ROLLBACK_UNVERIFIED" ->
            IF back.own = Nobody THEN Latch(back, "DEVICE_UNCERTAIN") ELSE back
       [] tried.result \in {"FATAL", "TRANSIENT"} ->
            NotApplied(tried.state, tried.result)

Activate(s, f, calm) ==
  LET cleared == IF s.own = Nobody THEN s ELSE Restore(s, f, FALSE)
      next    == IF s.own = Nobody THEN f ELSE Later(f)
  IN IF s.applied \/ s.active THEN s
     ELSE IF cleared.own # Nobody THEN cleared
     ELSE IF IsSingle(cleared) THEN ApplyTo(cleared, next, calm)
     ELSE [cleared EXCEPT !.applyAge = Off, !.retry = RetryTicks]

(* Mutant: only the keyboard's coming and going matters to the filter.     *)
Added_KeepsFilter(s, f, calm) ==
  SyncBinding(IF s.applied THEN s ELSE Activate(s, f, calm), calm)

(* device_added, once the slot is there.                                   *)
Added(s, f, calm) ==
  SyncBinding(IF ~s.applied THEN Activate(s, f, calm)
              ELSE IF ~IsSingle(s) THEN Restore(s, f, FALSE) ELSE s,
              calm)

(* The exact keyboard of the filter went, and its mapping with it.         *)
ConfirmRemoved(s, f, calm, reapply) ==
  LET free == ReleaseHold(s, f)
      gone == [Disown(free) EXCEPT !.applied = FALSE, !.retry = Off,
                                   !.applyAge = Off, !.restoreAge = Off]
      anew == Activate(gone, Later(f), calm)
  IN IF free.hold THEN [free EXCEPT !.stop = TRUE]
     ELSE IF ~reapply \/ free.releaseFailed THEN gone
     ELSE IF ~anew.applied /\ anew.applyAge = Off /\ anew.failure = "NONE"
     THEN [Latch(anew, "DEVICE_UNCERTAIN") EXCEPT !.stop = TRUE] ELSE anew

(* device_removed, once the slot is marked; k is Nobody for a joystick.    *)
Removed(s, k, f, calm) ==
  LET unbound  == SyncBinding([s EXCEPT !.applyAge = Off], calm)
      decision == RemovalDecision(unbound, k, IsSingle(s))
  IN CASE decision = "CONFIRM_EXACT_TARGET" ->
            ConfirmRemoved(unbound, f, calm, FALSE)
       [] decision = "CONFIRM_EXACT_TARGET_AND_REAPPLY" ->
            ConfirmRemoved(unbound, f, calm, TRUE)
       [] decision = "RESTORE_GENERIC" -> Restore(unbound, f, FALSE)
       [] decision = "NONE" -> ReleaseHold(unbound, f)

(* Mutant: what a failed restoration still owes is left alone.             *)
UpdateFilter_ForgetsOwed(s, f, calm) ==
  LET wanted == s.allowed /\ IsSingle(s)
      idle   == IF wanted THEN s ELSE [s EXCEPT !.applyAge = Off]
  IN IF ~IsDue(s.retry) THEN idle
     ELSE IF wanted THEN Activate(idle, f, calm)
     ELSE IF s.applied THEN Restore(idle, f, FALSE) ELSE idle

(* update_focus_and_filter, but for the focus.                             *)
UpdateFilter(s, f, calm) ==
  LET wanted == s.allowed /\ IsSingle(s)
      idle   == IF wanted THEN s ELSE [s EXCEPT !.applyAge = Off]
  IN IF ~IsDue(s.retry) THEN idle
     ELSE IF wanted THEN Activate(idle, f, calm)
     ELSE IF s.applied \/ s.own # Nobody THEN Restore(idle, f, FALSE)
     ELSE idle

(* Mutant: no recovery fails for a permission that may yet be given.       *)
RecoveryOutcome_AwaitsPermission(s) ==
  IF ~s.allowed THEN "NONE"
  ELSE IF FilterIsVerified(s) /\ ~s.error
  THEN IF s.released THEN "SUCCESS" ELSE "NEUTRAL_ENTRY_PENDING"
  ELSE IF s.applyAge # Off /\ IsSingle(s) /\ ~s.error THEN "NONE"
  ELSE IF s.recoveryAge >= RecoveryTicks THEN "FAILURE" ELSE "NONE"

(* muse_on_recovery_policy_evaluate and muse_on_recovery_outcome_for, of   *)
(* what emit_recovery_state observes.                                      *)
RecoveryOutcome(s) ==
  IF s.allowed /\ FilterIsVerified(s) /\ ~s.error
  THEN IF s.released THEN "SUCCESS" ELSE "NEUTRAL_ENTRY_PENDING"
  ELSE IF s.applyAge # Off /\ s.allowed /\ IsSingle(s) /\ ~s.error THEN "NONE"
  ELSE IF s.recoveryAge >= RecoveryTicks THEN "FAILURE" ELSE "NONE"

EmitRecovery(s) ==
  IF ~s.latched \/ s.outcome # "NONE" THEN s
  ELSE [s EXCEPT !.outcome = RecoveryOutcome(s),
                 !.stop    = @ \/ RecoveryOutcome(s) # "NONE"]

(* A tick of time.                                                         *)
Older(age, limit) == IF age = Off \/ age >= limit THEN age ELSE age + 1

Elapse(s) ==
  [s EXCEPT !.applyAge    = Older(@, SettleTicks),
            !.restoreAge  = Older(@, SettleTicks),
            !.recoveryAge = IF s.latched THEN Older(@, RecoveryTicks) ELSE @,
            !.retry       = IF @ \in {0, Off} THEN @ ELSE @ - 1]

MustLeave(s) == s.stop \/ s.releaseFailed

(* Mutant: the exit code does not tell that the restoration failed.        *)
Left_Quietly(s, f) ==
  LET last == Restore(s, f, TRUE)
  IN [RestoreMapping(last, Later(f)) EXCEPT !.running = FALSE, !.exit = "CLEAN"]

(* The end of main: restore for the last time, close the devices, restore  *)
(* once more in muse_on_key_filter_destroy.                                *)
Left(s, f) ==
  LET last   == Restore(s, f, TRUE)
      closed == IF f.kind # "CLOSE" THEN last
                ELSE [Latch(Error(last), "DEVICE_UNCERTAIN")
                        EXCEPT !.releaseFailed = TRUE]
  IN [RestoreMapping(closed, Later(f))
        EXCEPT !.running = FALSE,
               !.exit    = IF closed.releaseFailed THEN "FAILED" ELSE "CLEAN"]

-----------------------------------------------------------------------------
(* Actions.                                                                *)

(* Only where macOS is asked for something can it fail.                    *)
Faults(kinds) ==
  {NoFault} \cup
  (IF bounds.faults = MaxFaults THEN {}
   ELSE [kind : kinds \cup (IF st.hold THEN {"HOLD"} ELSE {}), lasts : {FALSE}]
        \cup (IF Served(st) = {} /\ st.own = Nobody THEN {}
              ELSE [kind : MappingFaults, lasts : BOOLEAN]))

Spent(f, moves) ==
  /\ bounds.moves + moves <= MaxMoves
  /\ bounds' = [bounds EXCEPT !.faults = @ + (IF f = NoFault THEN 0 ELSE 1),
                              !.moves  = @ + moves]

(* The mapping of a keyboard that is out swallows nothing any more.        *)
Swallowing(s) == {k \in Keyboards : s.mapping[k] = "SINK" /\ plug[k] = "IN"}

(* The listener's step, and what it does to the ghosts while it runs.      *)
Steps(next) ==
  /\ st' = next
  /\ stranded' = (stranded \cap Swallowing(next)) \ {next.own}
  /\ UNCHANGED <<world, due>>

(* What is left of a listener that ended: its exit, and a key it held.     *)
Ends(next) ==
  /\ st' = [Started(next.mapping, FALSE) EXCEPT !.running = FALSE,
                                                !.exit    = next.exit,
                                                !.hold    = next.hold]
  /\ stranded' = Swallowing(next)
  /\ due' = [k \in Keyboards |-> IF k \in stranded' THEN "EMPTY" ELSE due[k]]
  /\ UNCHANGED world

(* A device callback reports the keyboard k, or could not say which.       *)
KeyboardAdded(k) ==
  /\ st.running /\ plug[k] = "IN" /\ k \notin st.slots
  /\ \E f \in Faults({"CALLBACK", "MEMORY"}), calm \in BOOLEAN :
       /\ calm => st.latched
       /\ Spent(f, 0) /\ UNCHANGED beat
       /\ Steps(CASE f.kind = "CALLBACK" -> Fatal(st)
                  [] f.kind = "MEMORY" -> Error(st)
                  [] OTHER -> Added([st EXCEPT !.slots = @ \cup {k}], f, calm))

JoystickAdded(l) ==
  /\ st.running /\ l \notin st.sticks
  /\ \E f \in Faults({"CALLBACK", "MEMORY"}), calm \in BOOLEAN :
       /\ calm => st.latched
       /\ Spent(f, 0) /\ UNCHANGED beat
       /\ Steps(CASE f.kind = "CALLBACK" -> Fatal(st)
                  [] f.kind = "MEMORY" -> Error(st)
                  [] OTHER -> Added([st EXCEPT !.sticks = @ \cup {l}], f, calm))

KeyboardRemoved(k) ==
  /\ st.running /\ plug[k] = "OUT" /\ k \in st.slots
  /\ \E f \in Faults({"CALLBACK"}), calm \in BOOLEAN :
       /\ calm => st.latched
       /\ Spent(f, 0) /\ UNCHANGED beat
       /\ Steps(IF f.kind = "CALLBACK" THEN Fatal(st)
                ELSE Removed([st EXCEPT !.slots = @ \ {k}], k, f, calm))

JoystickRemoved(l) ==
  /\ st.running /\ l \in st.sticks
  /\ \E f \in Faults({"CALLBACK"}) :
       /\ Spent(f, 1) /\ UNCHANGED beat
       /\ Steps(IF f.kind = "CALLBACK" THEN Fatal(st)
                ELSE Removed([st EXCEPT !.sticks = @ \ {l}], Nobody, f, FALSE))

(* action_timer: the permission is polled, the filter looked after, a      *)
(* recovery reported, and the loop left.                                   *)
Beat == st.running /\ beat' = (Beats # beat)

Tick ==
  /\ Beat
  /\ \E f \in Faults(IF st.slots = {} THEN {} ELSE {"CLOSE"}), calm, allowed \in BOOLEAN :
       LET polled   == [Elapse(st) EXCEPT !.allowed = allowed]
           filtered == UpdateFilter(polled, f, calm)
           told     == EmitRecovery(filtered)
       IN /\ calm => st.latched
          /\ Spent(f, IF allowed = st.allowed THEN 0 ELSE 1)
          /\ IF MustLeave(told) THEN Ends(Left(told, Later(f))) ELSE Steps(told)

(* The hold button goes down or up; nothing is posted in a recovery.       *)
HoldMoves ==
  /\ st.running /\ ~st.latched
  /\ st.hold \/ (st.applied /\ st.bound # 0 /\ ~MustLeave(st))
  /\ Steps([st EXCEPT !.hold = ~@])
  /\ UNCHANGED <<beat, bounds>>

(* The user lets go of the controls, or touches one.                       *)
NeutralEntryMoves ==
  /\ st.running /\ st.latched /\ st.bound # 0
  /\ Steps([st EXCEPT !.released = ~@])
  /\ UNCHANGED <<beat, bounds>>

StopSignal ==
  /\ st.running /\ ~st.stop
  /\ Spent(NoFault, 1) /\ UNCHANGED beat
  /\ Steps([st EXCEPT !.stop = TRUE])

Killed ==
  /\ st.running
  /\ Ends([st EXCEPT !.running = FALSE, !.exit = "KILLED"])
  /\ UNCHANGED <<beat, bounds>>

(* The app starts the next listener, over whatever the last one left.      *)
Launched ==
  /\ ~st.running
  /\ \E latched \in BOOLEAN :
       Steps(Started(st.mapping, latched))
  /\ UNCHANGED <<beat, bounds>>

(* A keyboard is plugged in, once; macOS serves it, and stops serving it,  *)
(* before or after the listener is told.                                   *)
PluggedIn(k) ==
  /\ plug[k] = "NEW" /\ \A j \in 1..(k - 1) : plug[j] # "NEW"
  /\ plug' = [plug EXCEPT ![k] = "IN"]
  /\ UNCHANGED <<st, at, ghosts, beat, bounds>>

Unplugged(k) ==
  /\ plug[k] = "IN"
  /\ plug' = [plug EXCEPT ![k] = "OUT"]
  /\ stranded' = stranded \ {k}
  /\ UNCHANGED <<st, at, due, beat, bounds>>

ServiceAppears(k) ==
  /\ plug[k] = "IN" /\ st.mapping[k] = "NONE"
  /\ \E own \in {"EMPTY", "USER"} :
       /\ st' = [st EXCEPT !.mapping[k] = own]
       /\ due' = [due EXCEPT ![k] = own]
  /\ UNCHANGED <<world, stranded, beat, bounds>>

ServiceVanishes(k) ==
  /\ plug[k] = "OUT" /\ st.mapping[k] # "NONE"
  /\ st' = [st EXCEPT !.mapping[k] = "NONE"]
  /\ UNCHANGED <<world, ghosts, beat, bounds>>

Init ==
  /\ \E latched \in BOOLEAN :
       st = Started([k \in Keyboards |-> "NONE"], latched)
  /\ plug = [k \in Keyboards |-> "NEW"]
  /\ at \in [Keyboards -> Locations]
  /\ \A k \in Keyboards : at[k] <= k  \* locations are numbered as they are seen
  /\ due = [k \in Keyboards |-> "EMPTY"]
  /\ stranded = {}
  /\ beat = FALSE
  /\ bounds = [faults |-> 0, moves |-> 0]

Next ==
  \/ \E k \in Keyboards : \/ KeyboardAdded(k) \/ KeyboardRemoved(k)
                          \/ PluggedIn(k) \/ Unplugged(k)
                          \/ ServiceAppears(k) \/ ServiceVanishes(k)
  \/ \E l \in Locations : JoystickAdded(l) \/ JoystickRemoved(l)
  \/ Tick
  \/ HoldMoves \/ NeutralEntryMoves
  \/ StopSignal \/ Killed \/ Launched

Spec == Init /\ [][Next]_vars

(* The timer keeps firing while the run loop turns.                        *)
FairSpec == Spec /\ WF_beat(Beat)

-----------------------------------------------------------------------------

Mappings == [Keyboards -> {"NONE", "EMPTY", "USER", "SINK"}]

Listeners ==
  [mapping       : Mappings,
   running       : BOOLEAN,
   latched       : BOOLEAN,
   slots         : SUBSET Keyboards,
   sticks        : SUBSET Locations,
   allowed       : BOOLEAN,
   applied       : BOOLEAN,
   active        : BOOLEAN,
   own           : Keyboards \cup {Nobody},
   saved         : {"EMPTY", "USER"},
   applyAge      : Ages(SettleTicks),
   restoreAge    : Ages(SettleTicks),
   retry         : Ages(RetryTicks),
   bound         : Locations \cup {0},
   hold          : BOOLEAN,
   released      : BOOLEAN,
   stop          : BOOLEAN,
   releaseFailed : BOOLEAN,
   failure       : {"NONE", "DEVICE_UNCERTAIN", "HOLD_RELEASE", "PASSTHROUGH_RESTORE"},
   error         : BOOLEAN,
   recoveryAge   : 0..RecoveryTicks,
   outcome       : {"NONE", "SUCCESS", "NEUTRAL_ENTRY_PENDING", "FAILURE"},
   exit          : {"NONE", "CLEAN", "FAILED", "KILLED"}]

TypeOK ==
  /\ st \in Listeners
  /\ plug \in [Keyboards -> {"NEW", "IN", "OUT"}]
  /\ at \in [Keyboards -> Locations]
  /\ due \in [Keyboards -> {"EMPTY", "USER"}]
  /\ stranded \subseteq Keyboards

(* The promise of KeyboardLease: a keyboard is on lease while its mapping  *)
(* is owed, and away from the moment it is unplugged.                      *)
Lease ==
  INSTANCE KeyboardLease WITH
    holder  <- st.own,
    mapping <- [k \in Keyboards |->
                  IF plug[k] = "OUT" THEN "NONE" ELSE st.mapping[k]]

KeepsTheLease == Lease!Spec

(* The keyboard of the filter is the only one in sight, and the only       *)
(* joystick in sight is its own.                                           *)
FilterOfTheOne ==
  st.slots = {st.own} /\ st.sticks = {at[st.own]}

(* Keys are filtered for the one controller in sight; a second one, or a   *)
(* missing half, ends that at once, unless the listener is about to end.   *)
FilteredForTheOne == st.running /\ st.applied => FilterOfTheOne \/ st.stop

(* Input is bound only over the filter of the one controller in sight, and *)
(* its keyboard is swallowing its keys or already gone from macOS.         *)
BoundOverFilter ==
  st.bound # 0 =>
    /\ st.applied /\ FilterOfTheOne
    /\ st.bound = at[st.own]
    /\ st.mapping[st.own] \in {"SINK", "NONE"}

(* A shortcut is held down only over a filter that is on, unless its       *)
(* release failed and the listener says so.                                *)
HoldOverFilter == st.running /\ st.hold => st.applied \/ st.releaseFailed

(* A listener that ends CLEAN has given everything back: nothing swallows  *)
(* keys that did not before it, and no shortcut is down.                   *)
CleanEndGivesBack ==
  [][st.running /\ ~st'.running /\ st'.exit = "CLEAN" =>
       stranded' \subseteq stranded /\ ~st'.hold]_vars

(* A mapping that is owed is given back, or the listener ends.             *)
OwedIsSettled ==
  st.own # Nobody /\ ~st.applied ~> st.own = Nobody \/ st.applied \/ ~st.running

(* A recovery comes to an end.                                             *)
RecoveryEnds == st.running /\ st.latched ~> ~st.running
===============================================================================
