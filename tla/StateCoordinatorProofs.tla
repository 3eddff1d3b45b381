----------------------- MODULE StateCoordinatorProofs ------------------------
(***************************************************************************)
(* Lemmas about muse_on_state_apply, for every state, command and          *)
(* observation.  One lemma per branch shows that the branch keeps a state  *)
(* typed and coherent; ApplyIsCoherent puts them together, and ApplyFollows*)
(* says what a call may change.  Coordinator and Host are proved over them.*)
(***************************************************************************)
EXTENDS StateCoordinator, TLAPS

-----------------------------------------------------------------------------
(* How a Disable can stand after a call: finished over verified cleanup, or *)
(* still pending behind the latch.                                         *)

CleanlyDisabled(s, p) ==
  /\ s.status = "DISABLED"
  /\ ~s.enabled_intent
  /\ ~s.quit_requested
  /\ CleanupIsVerified(p)

StillPending(s) == s.disable_pending /\ s.safety_latched

-----------------------------------------------------------------------------
(* The three ways a call can end.                                          *)

(* SetDisabled always ends typed and coherent: nothing is requested and    *)
(* nothing is latched.                                                     *)
LEMMA SetDisabledIsCoherent ==
  ASSUME NEW s \in CoordinatorStates
  PROVE  /\ SetDisabled(s) \in CoordinatorStates
         /\ Coherent(SetDisabled(s))
         /\ SetDisabled(s).status = "DISABLED"
         /\ SetDisabled(s).enabled_intent = s.enabled_intent
         /\ ~SetDisabled(s).quit_requested
         /\ ~SetDisabled(s).disable_pending
         /\ ~SetDisabled(s).safety_latched
BY DEF SetDisabled, CoordinatorStates, Statuses, InactiveReasons,
       SafetyFailures, Coherent, GatedDispatch, VisibleLatch, OwnedLatch,
       HeldDisable

(* SetSafetyLatch ends coherent when somebody owns the latch and a pending *)
(* Disable has withdrawn the intent.                                       *)
LEMMA SetSafetyLatchIsCoherent ==
  ASSUME NEW s \in CoordinatorStates, NEW failure \in SafetyFailures,
         NEW p \in Prerequisites,
         s.enabled_intent \/ s.disable_pending \/ s.quit_requested,
         s.disable_pending => ~s.enabled_intent
  PROVE  /\ SetSafetyLatch(s, failure, p) \in CoordinatorStates
         /\ Coherent(SetSafetyLatch(s, failure, p))
         /\ SetSafetyLatch(s, failure, p).safety_latched
         /\ SetSafetyLatch(s, failure, p).disable_pending = s.disable_pending
<1> DEFINE t == SetSafetyLatch(s, failure, p)
<1>1. /\ t \in CoordinatorStates
      /\ t.safety_failure # "NONE"
  <2> DEFINE name == IF failure # "NONE" THEN failure
                     ELSE IF s.safety_failure = "NONE" THEN "DEVICE_UNCERTAIN"
                     ELSE s.safety_failure
             filter == s.enabled_intent /\ Reserved(p)
  <2>1. name \in SafetyFailures /\ name # "NONE"
    BY DEF CoordinatorStates, SafetyFailures
  <2>2. filter \in BOOLEAN
    OBVIOUS
  <2>3. t = [s EXCEPT !.status = "SAFETY_LATCH",
                      !.inactive_reason = "SAFETY_LATCH",
                      !.safety_latched = TRUE,
                      !.safety_failure = name,
                      !.request_filter = filter,
                      !.request_dispatch = FALSE]
    BY DEF SetSafetyLatch
  <2> HIDE DEF name, filter, t
  <2>4. t \in CoordinatorStates
    BY <2>1, <2>2, <2>3 DEF CoordinatorStates, Statuses, InactiveReasons
  <2>5. t.safety_failure = name
    BY <2>3 DEF CoordinatorStates
  <2>6. QED
    BY <2>1, <2>4, <2>5
<1>2. /\ t.status = "SAFETY_LATCH"
      /\ t.inactive_reason = "SAFETY_LATCH"
      /\ t.safety_latched
      /\ t.request_filter => s.enabled_intent
      /\ ~t.request_dispatch
      /\ t.enabled_intent = s.enabled_intent
      /\ t.disable_pending = s.disable_pending
      /\ t.quit_requested = s.quit_requested
  BY DEF SetSafetyLatch, Reserved, CoordinatorStates
<1>3. QED
  BY <1>1, <1>2 DEF Coherent, GatedDispatch, VisibleLatch, OwnedLatch,
                    HeldDisable

(* SetActiveOrInactive ends coherent when the intent is enabled and nothing *)
(* is pending.                                                             *)
LEMMA SetActiveOrInactiveIsCoherent ==
  ASSUME NEW s \in CoordinatorStates, NEW p \in Prerequisites,
         s.enabled_intent, ~s.disable_pending, ~s.quit_requested
  PROVE  /\ SetActiveOrInactive(s, p) \in CoordinatorStates
         /\ Coherent(SetActiveOrInactive(s, p))
         /\ SetActiveOrInactive(s, p).request_dispatch
              <=> InactiveReason(p) = "NONE"
         /\ ~SetActiveOrInactive(s, p).safety_latched
<1> DEFINE active == InactiveReason(p) = "NONE"
           status == IF active THEN "ACTIVE" ELSE "INACTIVE"
           reason == InactiveReason(p)
           filter == active \/ Reserved(p)
           t == SetActiveOrInactive(s, p)
<1>1. /\ status \in {"ACTIVE", "INACTIVE"}
      /\ active => status = "ACTIVE" /\ filter
      /\ reason \in InactiveReasons /\ reason # "SAFETY_LATCH"
      /\ active \in BOOLEAN /\ filter \in BOOLEAN
  BY DEF InactiveReason, InactiveReasons
<1>2. t = [s EXCEPT !.status = status,
                    !.inactive_reason = reason,
                    !.safety_latched = FALSE,
                    !.safety_failure = "NONE",
                    !.request_filter = filter,
                    !.request_dispatch = active]
  BY DEF SetActiveOrInactive
<1>a. active <=> InactiveReason(p) = "NONE"
  OBVIOUS
<1> HIDE DEF active, status, reason, filter, t
<1>3. t \in CoordinatorStates
  BY <1>1, <1>2 DEF CoordinatorStates, Statuses, SafetyFailures
<1>4. /\ t.status = status
      /\ t.inactive_reason = reason
      /\ ~t.safety_latched
      /\ t.request_filter = filter
      /\ t.request_dispatch = active
      /\ t.enabled_intent
      /\ ~t.disable_pending
      /\ ~t.quit_requested
  BY <1>2 DEF CoordinatorStates
<1>5. Coherent(t)
  <2>1. t.status # "SAFETY_LATCH" /\ t.inactive_reason # "SAFETY_LATCH"
    BY <1>1, <1>4
  <2>2. t.request_dispatch => t.status = "ACTIVE" /\ t.request_filter
    BY <1>1, <1>4
  <2>3. QED
    BY <2>1, <2>2, <1>4 DEF Coherent, GatedDispatch, VisibleLatch, OwnedLatch,
                            HeldDisable
<1>6. t.request_dispatch <=> InactiveReason(p) = "NONE"
  BY <1>4, <1>a
<1>7. QED
  BY <1>3, <1>4, <1>5, <1>6 DEF t

-----------------------------------------------------------------------------
(* The fold of the command.                                                *)

(* FoldCommand touches intent, quit request and the two one-shot outputs   *)
(* only.                                                                   *)
LEMMA FoldCommandFacts ==
  ASSUME NEW s \in CoordinatorStates, NEW c \in Commands
  PROVE  LET t == FoldCommand(s, c) IN
         /\ t \in CoordinatorStates
         /\ t.status = s.status
         /\ t.inactive_reason = s.inactive_reason
         /\ t.safety_latched = s.safety_latched
         /\ t.safety_failure = s.safety_failure
         /\ t.disable_pending = s.disable_pending
         /\ t.request_filter = s.request_filter
         /\ t.request_dispatch = s.request_dispatch
         /\ t.enabled_intent <=>
              (s.enabled_intent \/ c = "ENABLE") /\ c # "DISABLE"
         /\ t.quit_requested <=> s.quit_requested \/ c = "QUIT"
<1> DEFINE intent == (s.enabled_intent \/ c = "ENABLE") /\ c # "DISABLE"
           quit == s.quit_requested \/ c = "QUIT"
           t == FoldCommand(s, c)
<1>1. intent \in BOOLEAN /\ quit \in BOOLEAN
  OBVIOUS
<1>2. t = [s EXCEPT !.quit_allowed = FALSE, !.request_cleanup = FALSE,
                    !.enabled_intent = intent, !.quit_requested = quit]
  BY DEF FoldCommand, CoordinatorStates
<1> HIDE DEF intent, quit, t
<1>3. t \in CoordinatorStates
  BY <1>1, <1>2 DEF CoordinatorStates
<1>4. /\ t.status = s.status
      /\ t.inactive_reason = s.inactive_reason
      /\ t.safety_latched = s.safety_latched
      /\ t.safety_failure = s.safety_failure
      /\ t.disable_pending = s.disable_pending
      /\ t.request_filter = s.request_filter
      /\ t.request_dispatch = s.request_dispatch
      /\ t.enabled_intent = intent
      /\ t.quit_requested = quit
  BY <1>2 DEF CoordinatorStates
<1>5. QED
  BY <1>3, <1>4 DEF t, intent, quit

-----------------------------------------------------------------------------
(* The branches of muse_on_state_apply, after the fold.                    *)

(* A Disable ends Disabled or pending behind the latch.                    *)
LEMMA ApplyDisableIsCoherent ==
  ASSUME NEW s \in CoordinatorStates, NEW p \in Prerequisites,
         ~s.enabled_intent
  PROVE  /\ ApplyDisable(s, p) \in CoordinatorStates
         /\ Coherent(ApplyDisable(s, p))
         /\ StillPending(ApplyDisable(s, p)) \/ CleanlyDisabled(ApplyDisable(s, p), p)
<1> DEFINE u == [s EXCEPT !.disable_pending = TRUE,
                          !.quit_requested  = FALSE,
                          !.request_cleanup = TRUE]
<1>1. u \in CoordinatorStates /\ u.disable_pending /\ ~u.enabled_intent
  BY DEF CoordinatorStates
<1>2. ObservedSafetyFailure(p) \in SafetyFailures
  BY DEF ObservedSafetyFailure, Prerequisites
<1>3. ApplyDisable(s, p) = IF CleanupIsVerified(p) THEN SetDisabled(u)
                           ELSE SetSafetyLatch(u, ObservedSafetyFailure(p), p)
  BY DEF ApplyDisable
<1> HIDE DEF u
<1>4. QED
  BY <1>1, <1>2, <1>3, SetDisabledIsCoherent, SetSafetyLatchIsCoherent
     DEF StillPending, CleanlyDisabled

(* While a Disable is pending a call ends Disabled or keeps the latch.     *)
LEMMA ApplyWhilePendingIsCoherent ==
  ASSUME NEW s \in CoordinatorStates, NEW c \in Commands,
         NEW p \in Prerequisites,
         s.disable_pending, ~s.enabled_intent
  PROVE  /\ ApplyWhilePending(s, c, p) \in CoordinatorStates
         /\ Coherent(ApplyWhilePending(s, c, p))
         /\ \/ StillPending(ApplyWhilePending(s, c, p))
            \/ c = "RETRY" /\ CleanlyDisabled(ApplyWhilePending(s, c, p), p)
<1> DEFINE u == [s EXCEPT !.request_cleanup = TRUE]
<1>1. u \in CoordinatorStates /\ u.disable_pending /\ ~u.enabled_intent
  BY DEF CoordinatorStates
<1>2. ObservedSafetyFailure(p) \in SafetyFailures /\ "NONE" \in SafetyFailures
  BY DEF ObservedSafetyFailure, Prerequisites, SafetyFailures
<1>3. ApplyWhilePending(s, c, p) =
        IF c # "RETRY" THEN SetSafetyLatch(s, "NONE", p)
        ELSE IF CleanupIsVerified(p) THEN SetDisabled(u)
        ELSE SetSafetyLatch(u, ObservedSafetyFailure(p), p)
  BY DEF ApplyWhilePending
<1> HIDE DEF u
<1>4. QED
  BY <1>1, <1>2, <1>3, SetDisabledIsCoherent, SetSafetyLatchIsCoherent
     DEF StillPending, CleanlyDisabled

(* An allowed Quit leaves a coherent state coherent; any other latches.    *)
(* The premise is about the state before the fold, whose intent, latch and *)
(* status the fold leaves alone.                                           *)
LEMMA ApplyQuitIsCoherent ==
  ASSUME NEW s \in CoordinatorStates, NEW p \in Prerequisites,
         VisibleLatch(s), s.quit_requested, ~s.disable_pending
  PROVE  /\ ApplyQuit(s, p) \in CoordinatorStates
         /\ Coherent(ApplyQuit(s, p))
         /\ s.safety_latched => ApplyQuit(s, p).safety_latched
         /\ ~ApplyQuit(s, p).request_dispatch
<1> DEFINE u == [s EXCEPT !.request_cleanup = TRUE]
           v == [u EXCEPT !.quit_allowed     = TRUE,
                          !.request_filter   = FALSE,
                          !.request_dispatch = FALSE]
<1>1. u \in CoordinatorStates /\ u.quit_requested /\ ~u.disable_pending
  BY DEF CoordinatorStates
<1>2. ObservedSafetyFailure(p) \in SafetyFailures
  BY DEF ObservedSafetyFailure, Prerequisites
<1>3. /\ v \in CoordinatorStates
      /\ v.status = s.status
      /\ v.inactive_reason = s.inactive_reason
      /\ v.safety_latched = s.safety_latched
      /\ v.safety_failure = s.safety_failure
      /\ v.quit_requested
      /\ ~v.disable_pending
      /\ ~v.request_dispatch
  BY DEF CoordinatorStates
<1>4. ApplyQuit(s, p) = IF CleanupIsVerified(p) THEN v
                        ELSE SetSafetyLatch(u, ObservedSafetyFailure(p), p)
  BY DEF ApplyQuit
<1> HIDE DEF u, v
<1>5. CASE CleanupIsVerified(p)
  BY <1>3, <1>4, <1>5 DEF Coherent, GatedDispatch, VisibleLatch, OwnedLatch,
                          HeldDisable
<1>6. CASE ~CleanupIsVerified(p)
  <2> DEFINE w == SetSafetyLatch(u, ObservedSafetyFailure(p), p)
  <2>1. w \in CoordinatorStates /\ Coherent(w) /\ w.safety_latched
    BY <1>1, <1>2, SetSafetyLatchIsCoherent
  <2>2. ~w.request_dispatch
    BY <2>1 DEF Coherent, GatedDispatch
  <2>3. QED
    BY <2>1, <2>2, <1>4, <1>6
<1>7. QED
  BY <1>5, <1>6

(* UpdateLatch moves the latch and its name only, and never leaves a held  *)
(* latch without a name; only a Retry over every proof leaves it.          *)
LEMMA UpdateLatchFacts ==
  ASSUME NEW s \in CoordinatorStates, NEW c \in Commands,
         NEW p \in Prerequisites
  PROVE  LET t == UpdateLatch(s, c, p) IN
         /\ t \in CoordinatorStates
         /\ t.enabled_intent = s.enabled_intent
         /\ t.disable_pending = s.disable_pending
         /\ t.quit_requested = s.quit_requested
         /\ p.safety_failure # "NONE" => t.safety_latched
         /\ s.safety_latched /\ ~t.safety_latched =>
               /\ c = "RETRY"
               /\ CleanupIsVerified(p)
               /\ RecoveryGatesAreClear(p)
<1> DEFINE failure == ObservedSafetyFailure(p)
           name == IF ~s.safety_latched \/ c = "RETRY"
                   THEN failure ELSE s.safety_failure
           latched == [s EXCEPT !.safety_latched = TRUE,
                                !.safety_failure = name]
           cleared == [s EXCEPT !.safety_latched = FALSE,
                                !.safety_failure = "NONE"]
<1>1. failure \in SafetyFailures /\ name \in SafetyFailures
  BY DEF ObservedSafetyFailure, Prerequisites, CoordinatorStates
<1>2. UpdateLatch(s, c, p) =
        IF failure # "NONE" THEN latched
        ELSE IF s.safety_latched /\ c = "RETRY"
                  /\ CleanupIsVerified(p) /\ RecoveryGatesAreClear(p)
        THEN cleared
        ELSE s
  BY DEF UpdateLatch
<1>3. failure = p.safety_failure
  BY DEF ObservedSafetyFailure
<1> HIDE DEF failure, name
<1>4. /\ latched \in CoordinatorStates
      /\ latched.enabled_intent = s.enabled_intent
      /\ latched.disable_pending = s.disable_pending
      /\ latched.quit_requested = s.quit_requested
      /\ latched.safety_latched
  BY <1>1 DEF CoordinatorStates
<1>5. /\ cleared \in CoordinatorStates
      /\ cleared.enabled_intent = s.enabled_intent
      /\ cleared.disable_pending = s.disable_pending
      /\ cleared.quit_requested = s.quit_requested
      /\ ~cleared.safety_latched
  BY DEF CoordinatorStates, SafetyFailures
<1> HIDE DEF latched, cleared
<1>6. QED
  BY <1>2, <1>3, <1>4, <1>5

(* While Enabled a call ends behind the latch, Active or Inactive; a latch *)
(* is left only by a Retry over every proof, and dispatch needs every gate.*)
LEMMA ApplyEnabledIsCoherent ==
  ASSUME NEW s \in CoordinatorStates, NEW c \in Commands,
         NEW p \in Prerequisites,
         s.enabled_intent, ~s.disable_pending, ~s.quit_requested
  PROVE  LET t == ApplyEnabled(s, c, p) IN
         /\ t \in CoordinatorStates
         /\ Coherent(t)
         /\ s.safety_latched /\ ~t.safety_latched =>
               /\ c = "RETRY"
               /\ CleanupIsVerified(p)
               /\ RecoveryGatesAreClear(p)
         /\ t.request_dispatch =>
               InactiveReason(p) = "NONE" /\ p.safety_failure = "NONE"
<1> DEFINE u == UpdateLatch(s, c, p)
           cleanup == c = "RETRY"
           v == [u EXCEPT !.request_cleanup = cleanup]
           t == ApplyEnabled(s, c, p)
<1>1. /\ u \in CoordinatorStates
      /\ u.enabled_intent /\ ~u.disable_pending /\ ~u.quit_requested
      /\ p.safety_failure # "NONE" => u.safety_latched
      /\ s.safety_latched /\ ~u.safety_latched =>
            /\ c = "RETRY"
            /\ CleanupIsVerified(p)
            /\ RecoveryGatesAreClear(p)
  BY UpdateLatchFacts
<1>2. t = IF u.safety_latched THEN SetSafetyLatch(v, "NONE", p)
          ELSE SetActiveOrInactive(u, p)
  BY DEF ApplyEnabled
<1>3. cleanup \in BOOLEAN /\ "NONE" \in SafetyFailures
  BY DEF SafetyFailures
<1> HIDE DEF u, cleanup, t
<1>4. v \in CoordinatorStates /\ v.enabled_intent /\ ~v.disable_pending
  BY <1>1, <1>3 DEF CoordinatorStates
<1> HIDE DEF v
<1>5. CASE u.safety_latched
  <2>1. t = SetSafetyLatch(v, "NONE", p)
    BY <1>2, <1>5
  <2>2. t \in CoordinatorStates /\ Coherent(t) /\ t.safety_latched
    BY <2>1, <1>3, <1>4, SetSafetyLatchIsCoherent
  <2>3. ~t.request_dispatch
    BY <2>2 DEF Coherent, GatedDispatch
  <2>4. QED
    BY <2>2, <2>3 DEF t
<1>6. CASE ~u.safety_latched
  <2>1. t = SetActiveOrInactive(u, p)
    BY <1>2, <1>6
  <2>2. /\ t \in CoordinatorStates
        /\ Coherent(t)
        /\ t.request_dispatch <=> InactiveReason(p) = "NONE"
    BY <2>1, <1>1, SetActiveOrInactiveIsCoherent
  <2>3. p.safety_failure = "NONE"
    BY <1>1, <1>6
  <2>4. QED
    BY <2>2, <2>3, <1>1, <1>6 DEF t
<1>7. QED
  BY <1>5, <1>6

-----------------------------------------------------------------------------
(* muse_on_state_apply.  From here on the branches are opaque.             *)

(* Every call keeps the coordinator typed and coherent.                    *)
LEMMA ApplyIsCoherent ==
  ASSUME NEW state \in CoordinatorStates, Coherent(state),
         NEW c \in Commands, NEW p \in Prerequisites,
         c = "ENABLE" => ~state.disable_pending
  PROVE  /\ Apply(state, c, p) \in CoordinatorStates
         /\ Coherent(Apply(state, c, p))
         /\ c # "DISABLE" /\ state.disable_pending =>
              \/ StillPending(Apply(state, c, p))
              \/ c = "RETRY" /\ CleanlyDisabled(Apply(state, c, p), p)
         /\ c = "DISABLE" =>
              \/ StillPending(Apply(state, c, p))
              \/ CleanlyDisabled(Apply(state, c, p), p)
         /\ c # "DISABLE" /\ ~state.disable_pending /\ state.safety_latched =>
              \/ Apply(state, c, p).safety_latched
              \/ /\ c = "RETRY"
                 /\ CleanupIsVerified(p)
                 /\ RecoveryGatesAreClear(p)
         /\ Apply(state, c, p).request_dispatch =>
              InactiveReason(p) = "NONE" /\ p.safety_failure = "NONE"
<1> DEFINE s == FoldCommand(state, c)
<1>1. /\ s \in CoordinatorStates
      /\ s.disable_pending = state.disable_pending
      /\ s.enabled_intent <=>
           (state.enabled_intent \/ c = "ENABLE") /\ c # "DISABLE"
      /\ s.safety_latched = state.safety_latched
      /\ VisibleLatch(s)
      /\ OwnedLatch(s) \/ c = "DISABLE"
      /\ s.disable_pending => ~s.enabled_intent
  <2>1. VisibleLatch(state) /\ OwnedLatch(state) /\ HeldDisable(state)
    BY DEF Coherent
  <2>2. VisibleLatch(s)
    BY <2>1, FoldCommandFacts DEF VisibleLatch
  <2>3. s.disable_pending => ~s.enabled_intent
    BY <2>1, FoldCommandFacts DEF HeldDisable
  <2>4. OwnedLatch(s) \/ c = "DISABLE"
    BY <2>1, FoldCommandFacts DEF OwnedLatch
  <2>5. QED
    BY <2>2, <2>3, <2>4, FoldCommandFacts
<1>2. Apply(state, c, p) =
        IF c = "DISABLE"          THEN ApplyDisable(s, p)
        ELSE IF s.disable_pending THEN ApplyWhilePending(s, c, p)
        ELSE IF s.quit_requested  THEN ApplyQuit(s, p)
        ELSE IF ~s.enabled_intent THEN SetDisabled(s)
        ELSE ApplyEnabled(s, c, p)
  BY DEF Apply
<1> HIDE DEF s
<1> DEFINE t == Apply(state, c, p)
<1>a. Coherent(t) => (t.request_dispatch =>
                        t.status = "ACTIVE" /\ ~t.safety_latched)
  BY DEF Coherent, GatedDispatch
<1>3. CASE c = "DISABLE"
  <2>1. /\ t \in CoordinatorStates
        /\ Coherent(t)
        /\ StillPending(t) \/ CleanlyDisabled(t, p)
    BY <1>1, <1>2, <1>3, ApplyDisableIsCoherent
  <2>2. ~t.request_dispatch
    BY <2>1, <1>a DEF StillPending, CleanlyDisabled
  <2>3. QED
    BY <2>1, <2>2, <1>3
<1>4. CASE c # "DISABLE" /\ s.disable_pending
  <2>1. /\ t \in CoordinatorStates
        /\ Coherent(t)
        /\ \/ StillPending(t)
           \/ c = "RETRY" /\ CleanlyDisabled(t, p)
    BY <1>1, <1>2, <1>4, ApplyWhilePendingIsCoherent
  <2>2. ~t.request_dispatch
    BY <2>1, <1>a DEF StillPending, CleanlyDisabled
  <2>3. QED
    BY <2>1, <2>2, <1>1, <1>4
<1>5. CASE c # "DISABLE" /\ ~s.disable_pending /\ s.quit_requested
  BY <1>1, <1>2, <1>5, ApplyQuitIsCoherent
<1>6. CASE c # "DISABLE" /\ ~s.disable_pending /\ ~s.quit_requested
                         /\ ~s.enabled_intent
  <2>1. t = SetDisabled(s) /\ ~s.safety_latched
    BY <1>1, <1>2, <1>6 DEF OwnedLatch
  <2>2. t \in CoordinatorStates /\ Coherent(t) /\ t.status = "DISABLED"
    BY <2>1, <1>1, SetDisabledIsCoherent
  <2>3. QED
    BY <2>1, <2>2, <1>1, <1>6, <1>a
<1>7. CASE c # "DISABLE" /\ ~s.disable_pending /\ ~s.quit_requested
                         /\ s.enabled_intent
  BY <1>1, <1>2, <1>7, ApplyEnabledIsCoherent
<1>8. QED
  BY <1>3, <1>4, <1>5, <1>6, <1>7

-----------------------------------------------------------------------------
(* What a call may change.                                                 *)

(* A Control that is not Disabled is wanted: the intent is enabled, or a   *)
(* Disable or a Quit waits for its cleanup.                                *)
Standing(s) ==
  s.status # "DISABLED" =>
    s.enabled_intent \/ s.disable_pending \/ s.quit_requested

(* A Disabled Control wants nothing.                                       *)
AtRest(s) == s.status = "DISABLED" => ~s.enabled_intent /\ ~s.quit_requested

(* Intent and pending Disable move by their commands only; Disabled is     *)
(* entered by hand over verified cleanup and left by an Enable; the latch  *)
(* is entered over a failure or unverified cleanup, and always over a      *)
(* failure, and left by hand over verified cleanup.                        *)
Follows(s, c, p, t) ==
  /\ t \in CoordinatorStates /\ Coherent(t) /\ Standing(t)
  /\ t.enabled_intent <=> (s.enabled_intent \/ c = "ENABLE") /\ c # "DISABLE"
  /\ t.disable_pending => s.disable_pending \/ c = "DISABLE"
  /\ t.safety_latched /\ (s.disable_pending \/ c = "DISABLE") =>
       t.disable_pending
  /\ AtRest(s) /\ (c = "QUIT" => s.status # "DISABLED") => AtRest(t)
  /\ AtRest(s) /\ c = "ENABLE" => t.status # "DISABLED"
  /\ s.status # "DISABLED" /\ t.status = "DISABLED" =>
       /\ c \in {"DISABLE", "RETRY"}
       /\ CleanupIsVerified(p)
       /\ c = "RETRY" => s.disable_pending
  /\ t.safety_latched /\ ~s.safety_latched =>
       ~CleanupIsVerified(p)
  /\ s.safety_latched /\ ~t.safety_latched =>
       c \in {"DISABLE", "RETRY"} /\ CleanupIsVerified(p)
  /\ c = "DISABLE" /\ ~CleanupIsVerified(p) => t.safety_latched
  /\ p.safety_failure # "NONE" /\ (s.status # "DISABLED" \/ c = "ENABLE") =>
       t.safety_latched
  /\ c = "QUIT" /\ ~s.disable_pending /\ CleanupIsVerified(p) => t.quit_allowed
  /\ t.request_dispatch => InactiveReason(p) = "NONE"

(* Entering the latch leaves intent, pending Disable and Quit alone.       *)
LEMMA SetSafetyLatchFrame ==
  ASSUME NEW s \in CoordinatorStates, NEW failure, NEW p
  PROVE  /\ SetSafetyLatch(s, failure, p).status = "SAFETY_LATCH"
         /\ SetSafetyLatch(s, failure, p).enabled_intent = s.enabled_intent
         /\ SetSafetyLatch(s, failure, p).quit_requested = s.quit_requested
         /\ SetSafetyLatch(s, failure, p).disable_pending = s.disable_pending
BY DEF SetSafetyLatch, CoordinatorStates

(* A Disable withdraws the intent and the Quit.                            *)
LEMMA ApplyDisableFollows ==
  ASSUME NEW s \in CoordinatorStates, NEW p \in Prerequisites,
         ~s.enabled_intent
  PROVE  /\ ~ApplyDisable(s, p).enabled_intent
         /\ ~ApplyDisable(s, p).quit_requested
         /\ ApplyDisable(s, p).safety_latched <=> ~CleanupIsVerified(p)
         /\ ApplyDisable(s, p).disable_pending <=> ~CleanupIsVerified(p)
         /\ Standing(ApplyDisable(s, p))
         /\ AtRest(ApplyDisable(s, p))
<1> DEFINE u == [s EXCEPT !.disable_pending = TRUE,
                          !.quit_requested  = FALSE,
                          !.request_cleanup = TRUE]
<1>1. /\ u \in CoordinatorStates
      /\ u.disable_pending /\ ~u.enabled_intent /\ ~u.quit_requested
  BY DEF CoordinatorStates
<1>2. ObservedSafetyFailure(p) \in SafetyFailures
  BY DEF ObservedSafetyFailure, Prerequisites
<1>3. ApplyDisable(s, p) = IF CleanupIsVerified(p) THEN SetDisabled(u)
                           ELSE SetSafetyLatch(u, ObservedSafetyFailure(p), p)
  BY DEF ApplyDisable
<1> HIDE DEF u
<1> QED
  BY <1>1, <1>2, <1>3, SetDisabledIsCoherent, SetSafetyLatchIsCoherent,
     SetSafetyLatchFrame DEF Standing, AtRest

(* While a Disable is pending, only a Retry over verified cleanup ends it. *)
LEMMA ApplyWhilePendingFollows ==
  ASSUME NEW s \in CoordinatorStates, NEW c \in Commands,
         NEW p \in Prerequisites,
         s.disable_pending, ~s.enabled_intent
  PROVE  LET t == ApplyWhilePending(s, c, p) IN
         /\ ~t.enabled_intent
         /\ Standing(t)
         /\ AtRest(t)
         /\ t.safety_latched \/ (c = "RETRY" /\ CleanupIsVerified(p))
         /\ t.status = "DISABLED" => c = "RETRY" /\ CleanupIsVerified(p)
         /\ t.safety_latched => t.disable_pending
<1> DEFINE u == [s EXCEPT !.request_cleanup = TRUE]
           t == ApplyWhilePending(s, c, p)
<1>1. u \in CoordinatorStates /\ u.disable_pending /\ ~u.enabled_intent
  BY DEF CoordinatorStates
<1>2. ObservedSafetyFailure(p) \in SafetyFailures /\ "NONE" \in SafetyFailures
  BY DEF ObservedSafetyFailure, Prerequisites, SafetyFailures
<1>3. t = IF c # "RETRY" THEN SetSafetyLatch(s, "NONE", p)
          ELSE IF CleanupIsVerified(p) THEN SetDisabled(u)
          ELSE SetSafetyLatch(u, ObservedSafetyFailure(p), p)
  BY DEF ApplyWhilePending
<1> HIDE DEF u, t
<1>4. /\ ~t.enabled_intent
      /\ Standing(t)
      /\ AtRest(t)
      /\ t.safety_latched \/ (c = "RETRY" /\ CleanupIsVerified(p))
      /\ t.status = "DISABLED" => c = "RETRY" /\ CleanupIsVerified(p)
      /\ t.safety_latched => t.disable_pending
  BY <1>1, <1>2, <1>3, SetDisabledIsCoherent, SetSafetyLatchIsCoherent,
     SetSafetyLatchFrame DEF Standing, AtRest
<1> QED
  BY <1>4 DEF t

(* A Quit over verified cleanup leaves the status; any other latches.      *)
LEMMA ApplyQuitFollows ==
  ASSUME NEW s \in CoordinatorStates, NEW p \in Prerequisites,
         s.quit_requested, ~s.disable_pending
  PROVE  LET t == ApplyQuit(s, p) IN
         /\ t.enabled_intent = s.enabled_intent
         /\ t.quit_requested
         /\ ~t.disable_pending
         /\ CleanupIsVerified(p) =>
              /\ t.status = s.status /\ t.safety_latched = s.safety_latched
              /\ t.quit_allowed
         /\ ~CleanupIsVerified(p) =>
              t.status = "SAFETY_LATCH" /\ t.safety_latched
<1> DEFINE u == [s EXCEPT !.request_cleanup = TRUE]
           v == [u EXCEPT !.quit_allowed     = TRUE,
                          !.request_filter   = FALSE,
                          !.request_dispatch = FALSE]
           t == ApplyQuit(s, p)
<1>1. /\ u \in CoordinatorStates /\ u.quit_requested /\ ~u.disable_pending
      /\ u.enabled_intent = s.enabled_intent
  BY DEF CoordinatorStates
<1>2. ObservedSafetyFailure(p) \in SafetyFailures
  BY DEF ObservedSafetyFailure, Prerequisites
<1>3. /\ v.status = s.status
      /\ v.safety_latched = s.safety_latched
      /\ v.quit_requested /\ v.quit_allowed
      /\ ~v.disable_pending
      /\ v.enabled_intent = s.enabled_intent
  BY DEF CoordinatorStates
<1>4. t = IF CleanupIsVerified(p) THEN v
          ELSE SetSafetyLatch(u, ObservedSafetyFailure(p), p)
  BY DEF ApplyQuit
<1> HIDE DEF u, v, t
<1>5. /\ t.enabled_intent = s.enabled_intent
      /\ t.quit_requested
      /\ ~t.disable_pending
      /\ CleanupIsVerified(p) =>
           /\ t.status = s.status /\ t.safety_latched = s.safety_latched
           /\ t.quit_allowed
      /\ ~CleanupIsVerified(p) =>
           t.status = "SAFETY_LATCH" /\ t.safety_latched
  BY <1>1, <1>2, <1>3, <1>4, SetSafetyLatchIsCoherent, SetSafetyLatchFrame
<1> QED
  BY <1>5 DEF t

(* While Enabled a call is latched by a failure only, and never Disabled.  *)
LEMMA ApplyEnabledFollows ==
  ASSUME NEW s \in CoordinatorStates, NEW c \in Commands,
         NEW p \in Prerequisites,
         s.enabled_intent, ~s.disable_pending, ~s.quit_requested
  PROVE  LET t == ApplyEnabled(s, c, p) IN
         /\ t.enabled_intent
         /\ t.status # "DISABLED"
         /\ ~t.disable_pending
         /\ p.safety_failure # "NONE" => t.safety_latched
         /\ p.safety_failure = "NONE" /\ ~s.safety_latched => ~t.safety_latched
<1> DEFINE u == UpdateLatch(s, c, p)
           cleanup == c = "RETRY"
           v == [u EXCEPT !.request_cleanup = cleanup]
           t == ApplyEnabled(s, c, p)
<1>1. /\ u \in CoordinatorStates
      /\ u.enabled_intent /\ ~u.disable_pending /\ ~u.quit_requested
      /\ p.safety_failure # "NONE" => u.safety_latched
  BY UpdateLatchFacts
<1>2. p.safety_failure = "NONE" /\ ~s.safety_latched => ~u.safety_latched
  BY DEF UpdateLatch, ObservedSafetyFailure
<1>3. t = IF u.safety_latched THEN SetSafetyLatch(v, "NONE", p)
          ELSE SetActiveOrInactive(u, p)
  BY DEF ApplyEnabled
<1>4. cleanup \in BOOLEAN /\ "NONE" \in SafetyFailures
  BY DEF SafetyFailures
<1> HIDE DEF u, cleanup, t
<1>5. v \in CoordinatorStates /\ v.enabled_intent /\ ~v.disable_pending
  BY <1>1, <1>4 DEF CoordinatorStates
<1> HIDE DEF v
<1>6. CASE u.safety_latched
  <2>1. /\ t.safety_latched /\ t.status = "SAFETY_LATCH"
        /\ t.enabled_intent /\ ~t.disable_pending
    BY <1>3, <1>4, <1>5, <1>6, SetSafetyLatchIsCoherent, SetSafetyLatchFrame
  <2> QED
    BY <2>1, <1>2, <1>6 DEF t
<1>7. CASE ~u.safety_latched
  <2>1. t = SetActiveOrInactive(u, p)
    BY <1>3, <1>7
  <2>2. ~t.safety_latched
    BY <2>1, <1>1, SetActiveOrInactiveIsCoherent
  <2>3. /\ t.status # "DISABLED"
        /\ t.enabled_intent = u.enabled_intent
        /\ t.disable_pending = u.disable_pending
    BY <2>1, <1>1 DEF SetActiveOrInactive, CoordinatorStates
  <2> QED
    BY <2>2, <2>3, <1>1, <1>7 DEF t
<1> QED
  BY <1>6, <1>7

(* Every call of muse_on_state_apply keeps to Follows.                     *)
LEMMA ApplyFollows ==
  ASSUME NEW state \in CoordinatorStates, Coherent(state), Standing(state),
         NEW c \in Commands, NEW p \in Prerequisites,
         c = "ENABLE" => ~state.disable_pending
  PROVE  Follows(state, c, p, Apply(state, c, p))
<1> DEFINE s == FoldCommand(state, c)
           t == Apply(state, c, p)
<1> SUFFICES Follows(state, c, p, t)
  OBVIOUS
<1>1. /\ s \in CoordinatorStates
      /\ s.status = state.status
      /\ s.disable_pending = state.disable_pending
      /\ s.enabled_intent <=>
           (state.enabled_intent \/ c = "ENABLE") /\ c # "DISABLE"
      /\ s.quit_requested <=> state.quit_requested \/ c = "QUIT"
      /\ s.safety_latched = state.safety_latched
      /\ s.disable_pending => ~s.enabled_intent
  BY FoldCommandFacts DEF Coherent, HeldDisable
<1>2. t = IF c = "DISABLE"          THEN ApplyDisable(s, p)
          ELSE IF s.disable_pending THEN ApplyWhilePending(s, c, p)
          ELSE IF s.quit_requested  THEN ApplyQuit(s, p)
          ELSE IF ~s.enabled_intent THEN SetDisabled(s)
          ELSE ApplyEnabled(s, c, p)
  BY DEF Apply
<1>3. /\ t \in CoordinatorStates /\ Coherent(t)
      /\ t.request_dispatch => InactiveReason(p) = "NONE"
  BY ApplyIsCoherent
<1>4. /\ state.safety_latched <=> state.status = "SAFETY_LATCH"
      /\ state.disable_pending => state.safety_latched
      /\ state.safety_latched =>
           state.enabled_intent \/ state.disable_pending \/ state.quit_requested
      /\ t.safety_latched <=> t.status = "SAFETY_LATCH"
      /\ t.disable_pending => t.safety_latched
  BY <1>3 DEF Coherent, VisibleLatch, HeldDisable, OwnedLatch
<1>5. p.safety_failure # "NONE" => ~CleanupIsVerified(p)
  BY DEF CleanupIsVerified, ObservedSafetyFailure
<1> HIDE DEF s, t
<1>6. CASE c = "DISABLE"
  <2>1. /\ ~t.enabled_intent /\ ~t.quit_requested
        /\ t.safety_latched <=> ~CleanupIsVerified(p)
        /\ t.disable_pending <=> ~CleanupIsVerified(p)
        /\ Standing(t) /\ AtRest(t)
    BY <1>1, <1>2, <1>6, ApplyDisableFollows
  <2> QED
    BY <2>1, <1>3, <1>4, <1>5, <1>6 DEF Follows
<1>7. CASE c # "DISABLE" /\ s.disable_pending
  <2>1. /\ ~t.enabled_intent
        /\ Standing(t) /\ AtRest(t)
        /\ t.safety_latched \/ (c = "RETRY" /\ CleanupIsVerified(p))
        /\ t.status = "DISABLED" => c = "RETRY" /\ CleanupIsVerified(p)
        /\ t.safety_latched => t.disable_pending
    BY <1>1, <1>2, <1>7, ApplyWhilePendingFollows
  <2> QED
    BY <2>1, <1>1, <1>3, <1>4, <1>5, <1>7 DEF Follows
<1>8. CASE c # "DISABLE" /\ ~s.disable_pending /\ s.quit_requested
  <2>1. /\ t.enabled_intent = s.enabled_intent
        /\ t.quit_requested
        /\ ~t.disable_pending
        /\ CleanupIsVerified(p) =>
             /\ t.status = s.status /\ t.safety_latched = s.safety_latched
             /\ t.quit_allowed
        /\ ~CleanupIsVerified(p) =>
             t.status = "SAFETY_LATCH" /\ t.safety_latched
    BY <1>1, <1>2, <1>8, ApplyQuitFollows
  <2> QED
    BY <2>1, <1>1, <1>3, <1>4, <1>5, <1>8 DEF Follows, Standing, AtRest
<1>9. CASE c # "DISABLE" /\ ~s.disable_pending /\ ~s.quit_requested
                         /\ ~s.enabled_intent
  <2>1. /\ t.status = "DISABLED" /\ ~t.safety_latched
        /\ ~t.enabled_intent /\ ~t.quit_requested /\ ~t.disable_pending
    BY <1>1, <1>2, <1>9, SetDisabledIsCoherent
  <2> QED
    BY <2>1, <1>1, <1>3, <1>4, <1>5, <1>9 DEF Follows, Standing, AtRest
<1>10. CASE c # "DISABLE" /\ ~s.disable_pending /\ ~s.quit_requested
                          /\ s.enabled_intent
  <2>1. /\ t.enabled_intent
        /\ t.status # "DISABLED"
        /\ ~t.disable_pending
        /\ p.safety_failure # "NONE" => t.safety_latched
        /\ p.safety_failure = "NONE" /\ ~s.safety_latched => ~t.safety_latched
    BY <1>1, <1>2, <1>10, ApplyEnabledFollows
  <2>2. state.safety_latched /\ ~t.safety_latched =>
          c = "RETRY" /\ CleanupIsVerified(p)
    BY <1>1, <1>2, <1>10, ApplyEnabledIsCoherent
  <2> QED
    BY <2>1, <2>2, <1>1, <1>3, <1>4, <1>5, <1>10 DEF Follows, Standing, AtRest
<1> QED
  BY <1>6, <1>7, <1>8, <1>9, <1>10
=============================================================================
