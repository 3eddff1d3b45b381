----------------------------- MODULE KeyFilterProofs -----------------------------
(***************************************************************************)
(* That the key filter keeps its promises, for every set of keyboards and  *)
(* locations, however long the retries last and however often macOS fails. *)
(*                                                                         *)
(* A function of muse_on_key_filter.c or muse_on_listener.c is an operator *)
(* from a listener s to a listener t.  The first part has a lemma for each *)
(* of them, which says what it keeps of s (Lawful, Orderly and the Same... *)
(* below), what it adds, and which keyboards it may leave swallowing keys. *)
(*                                                                         *)
(* FilterInv, of the second part, is inductive.  It says of the listener   *)
(* what the lemmas show every function to keep, and ties the ghosts to the *)
(* keyboards.  Each action is a step (StepsRightly) or an end              *)
(* (EndsRightly) of the listener, or a move of the world; each of them     *)
(* keeps FilterInv and is a step of KeyboardLease or leaves the lease      *)
(* alone.                                                                  *)
(***************************************************************************)
EXTENDS KeyFilter, FiniteSetTheorems, TLAPS

-----------------------------------------------------------------------------
(* The snapshot: what SINGLE says, however many interfaces are in sight.   *)

(* A finite set that is not empty and has no two members has one.          *)
LEMMA SoleMember ==
  ASSUME NEW S, IsFiniteSet(S), S # {}, ~(Cardinality(S) > 1)
  PROVE  \A x, y \in S : x = y
<1>1. Cardinality(S) \in Nat /\ Cardinality(S) # 0
  BY FS_CardinalityType, FS_EmptySet
<1>2. Cardinality(S) = 1
  BY <1>1
<1>3. \E x : S = {x}
  BY <1>2, FS_Singleton
<1> QED
  BY <1>3

(* The locations of finitely many interfaces are finitely many.            *)
LEMMA LocationsAreFinite ==
  ASSUME NEW interfaces, IsFiniteSet(interfaces)
  PROVE  IsFiniteSet({i.location : i \in interfaces})
<1> DEFINE locations == {i.location : i \in interfaces}
           locate    == [i \in interfaces |-> i.location]
<1>1. locate \in Surjection(interfaces, locations)
  BY DEF Surjection
<1> QED
  BY <1>1, FS_Surjection

(* A SINGLE snapshot names a complete controller, one keyboard and one     *)
(* joystick interface, and nothing else is in sight                        *)
(* (muse_on_connection.c, classify_connections): no interface of another   *)
(* controller, none disconnected and none of another kind.                 *)
THEOREM SingleIsTheOnlyOne ==
  ASSUME NEW interfaces, IsFiniteSet(interfaces),
         Classify(interfaces).state = "SINGLE"
  PROVE  LET location == Classify(interfaces).location
         IN /\ IsComplete(interfaces, location)
            /\ \A i \in interfaces :
                 /\ i.connected
                 /\ i.location = location
                 /\ location # 0
                 /\ i.kind \in InterfaceKinds
<1> DEFINE locations == {i.location : i \in interfaces}
           location  == Classify(interfaces).location
<1>1. /\ interfaces # {}
      /\ \A i \in interfaces :
           i.connected /\ i.location # 0 /\ i.kind \in InterfaceKinds
      /\ \A l \in locations : IsComplete(interfaces, l)
      /\ ~(Cardinality(locations) > 1)
  BY DEF Classify, Disconnected
<1>2. location = CHOOSE l \in locations : TRUE
  BY <1>1 DEF Classify
<1>3. location \in locations
  BY <1>1, <1>2
<1>4. \A l \in locations : l = location
  BY <1>1, <1>3, LocationsAreFinite, SoleMember
<1>5. \A i \in interfaces : i.location = location
  BY <1>4
<1> QED
  BY <1>1, <1>3, <1>5

-----------------------------------------------------------------------------
(* The listener: what its functions keep.                                  *)

(* Whatever is owed is the mapping its user is due, nothing else swallows  *)
(* keys but what ended listeners left so, and a filter that counts as on   *)
(* has its sink on the keyboard.  Nothing is said of one that is out.      *)
Lawful(s) ==
  /\ s \in Listeners
  /\ \A k \in Keyboards : plug[k] # "OUT" =>
       /\ s.mapping[k] \in {"NONE", "SINK", due[k]}
       /\ s.mapping[k] = "SINK" => k = s.own \/ k \in stranded
       /\ k = s.own => s.saved = due[k] /\ s.mapping[k] # "NONE"
  /\ s.active => s.own # Nobody /\ s.mapping[s.own] \in {"SINK", "NONE"}
  /\ s.applied => s.active

(* The clocks of the policies run only for what is owed.                   *)
Clocked(s) ==
  /\ s.own = Nobody => s.restoreAge = Off
  /\ s.applied => s.restoreAge = Off /\ s.retry = Off

(* BoundOverFilter, of any listener, but for the mapping.                  *)
BoundRightly(s) ==
  s.bound # 0 =>
    /\ s.applied
    /\ s.slots = {s.own} /\ s.sticks = {at[s.own]}
    /\ s.bound = at[s.own]

(* HoldOverFilter, of any listener.                                        *)
HeldRightly(s) == s.hold => s.applied \/ s.releaseFailed

(* FilteredForTheOne, of any listener.                                     *)
FilteredRightly(s) ==
  s.applied => s.stop \/ (s.slots = {s.own} /\ s.sticks = {at[s.own]})

(* The parts of a listener that an operator leaves alone.                  *)
SameSight(s, t) ==
  /\ t.running = s.running
  /\ t.slots = s.slots
  /\ t.sticks = s.sticks

SameMapping(s, t) ==
  /\ t.mapping = s.mapping
  /\ t.own = s.own
  /\ t.saved = s.saved
  /\ t.active = s.active

SameCourse(s, t) ==
  /\ SameSight(s, t)
  /\ t.applied = s.applied
  /\ t.applyAge = s.applyAge
  /\ t.restoreAge = s.restoreAge
  /\ t.retry = s.retry
  /\ t.bound = s.bound
  /\ t.hold = s.hold
  /\ t.stop = s.stop
  /\ t.releaseFailed = s.releaseFailed

(* The keyboards that swallow keys, but for those that are out.            *)
SinksOf(s) == {k \in Keyboards : plug[k] # "OUT" /\ s.mapping[k] = "SINK"}

(* The world and the ghosts, as far as the listener relies on them.        *)
Grounds ==
  /\ plug \in [Keyboards -> {"NEW", "IN", "OUT"}]
  /\ at \in [Keyboards -> Locations]
  /\ due \in [Keyboards -> {"EMPTY", "USER"}]
  /\ stranded \subseteq Keyboards
  /\ \A k \in stranded : due[k] = "EMPTY"

(* A fault that lets every mapping be found, written and read back.        *)
Benign(f) == f.kind \notin MappingFaults

-----------------------------------------------------------------------------

(* What the assumptions on the constants come to.                          *)
LEMMA Constants ==
  /\ RetryTicks \in Nat /\ SettleTicks \in Nat /\ RecoveryTicks \in Nat
  /\ RetryTicks # 0
  /\ \A k \in Keyboards : k # Nobody
  /\ \A l \in Locations : l # 0
BY KeyFilterAssumption DEF Nobody

(* A service is matched only while macOS serves the keyboard, and its      *)
(* absence is confirmed only when it does not                              *)
(* (muse_on_key_filter_select_service).                                    *)
LEMMA FindIsSure ==
  ASSUME NEW s \in Listeners, NEW k \in Keyboards, NEW f
  PROVE  /\ Find(s, k, f) \in {"MATCHED", "CONFIRMED_ABSENT", "UNCERTAIN"}
         /\ Find(s, k, f) = "MATCHED" => s.mapping[k] # "NONE"
         /\ Find(s, k, f) = "CONFIRMED_ABSENT" => s.mapping[k] = "NONE"
         /\ f.kind # "BLIND" => Find(s, k, f) # "UNCERTAIN"
BY DEF Find, SelectService, Served

(* Ownership is given up without touching a mapping.                       *)
LEMMA DisownFacts ==
  ASSUME NEW s \in Listeners
  PROVE  /\ Disown(s) \in Listeners
         /\ SameCourse(s, Disown(s))
         /\ Disown(s).mapping = s.mapping
         /\ Disown(s).own = Nobody /\ ~Disown(s).active
BY DEF Disown, Listeners, SameCourse, SameSight

(* A write changes the mapping of one keyboard, and a write that verified  *)
(* has taken effect.                                                       *)
LEMMA WriteFacts ==
  ASSUME NEW s \in Listeners, NEW k \in Keyboards, NEW f,
         NEW v \in {"EMPTY", "USER", "SINK"}
  PROVE  LET t == Write(s, k, v, f) IN
         /\ t \in Listeners
         /\ SameCourse(s, t)
         /\ t.own = s.own /\ t.saved = s.saved /\ t.active = s.active
         /\ \A j \in Keyboards : j # k => t.mapping[j] = s.mapping[j]
         /\ t.mapping[k] = IF WriteIsStored(f) THEN v ELSE s.mapping[k]
         /\ IsVerified(t, k, v, f) => t.mapping[k] = v
<1> DEFINE t == Write(s, k, v, f)
<1>1. /\ t \in Listeners
      /\ SameCourse(s, t)
      /\ t.own = s.own /\ t.saved = s.saved /\ t.active = s.active
  BY DEF Write, Listeners, Mappings, SameCourse, SameSight
<1>2. /\ \A j \in Keyboards : j # k => t.mapping[j] = s.mapping[j]
      /\ t.mapping[k] = IF WriteIsStored(f) THEN v ELSE s.mapping[k]
  BY DEF Write, Listeners, Mappings
<1>3. IsVerified(t, k, v, f) => t.mapping[k] = v
  BY <1>2 DEF IsVerified, WriteIsAccepted, WriteIsStored
<1> QED
  BY <1>1, <1>2, <1>3

(* muse_on_key_filter_restore keeps the listener lawful whatever fails: it *)
(* writes only what is due, leaves no further keyboard swallowing, forgets *)
(* the ownership only of a keyboard that is restored or gone, and succeeds *)
(* when no fault hits a mapping.                                           *)
LEMMA RestoreMappingFacts ==
  ASSUME Grounds, NEW s, Lawful(s), ~s.applied, NEW f
  PROVE  LET t == RestoreMapping(s, f) IN
         /\ Lawful(t) /\ ~t.active
         /\ SameCourse(s, t)
         /\ Served(t) = Served(s)
         /\ SinksOf(t) \subseteq SinksOf(s)
         /\ t.own \in {s.own, Nobody}
         /\ s.own = Nobody => t.mapping = s.mapping
         /\ Benign(f) => t.own = Nobody
         /\ WriteIsStored(f) /\ f.kind # "BLIND" => s.own \notin SinksOf(t)
<1> DEFINE t       == RestoreMapping(s, f)
           idle    == [s EXCEPT !.active = FALSE]
           found   == Find(s, s.own, f)
           written == Write(idle, s.own, s.saved, f)
<1>0. s \in Listeners /\ s.own \in Keyboards \cup {Nobody} /\ s.saved \in {"EMPTY", "USER"}
  BY DEF Lawful, Listeners
<1>1. /\ idle \in Listeners /\ ~idle.active /\ SameCourse(s, idle)
      /\ idle.mapping = s.mapping /\ idle.own = s.own /\ idle.saved = s.saved
  BY <1>0 DEF Listeners, SameCourse, SameSight
<1>2. Lawful(idle)
  BY <1>1 DEF Lawful, SameCourse
<1> HIDE DEF idle
<1>3. CASE s.own = Nobody
  <2>1. t = idle
    BY <1>3 DEF RestoreMapping, idle
  <2> QED
    BY <1>1, <1>2, <1>3, <2>1, Constants DEF Served, SinksOf
<1>4. CASE s.own # Nobody /\ found = "UNCERTAIN"
  <2>1. t = idle
    BY <1>4 DEF RestoreMapping, idle
  <2>2. f.kind = "BLIND" /\ ~Benign(f)
    BY <1>0, <1>4, FindIsSure DEF Benign, MappingFaults
  <2> QED
    BY <1>1, <1>2, <1>4, <2>1, <2>2 DEF Served, SinksOf
<1>5. CASE s.own # Nobody /\ found = "CONFIRMED_ABSENT"
  <2>1. t = Disown(idle)
    BY <1>5 DEF RestoreMapping, idle
  <2>2. s.mapping[s.own] = "NONE"
    BY <1>0, <1>5, FindIsSure
  <2>3. /\ t \in Listeners /\ t.mapping = s.mapping /\ t.own = Nobody /\ ~t.active
        /\ SameCourse(s, t)
    BY <1>1, <2>1, DisownFacts DEF SameCourse, SameSight
  <2>4. Lawful(t)
    BY <1>0, <2>2, <2>3, Constants DEF Lawful, SameCourse
  <2> QED
    BY <1>1, <1>5, <2>2, <2>3, <2>4 DEF Served, SinksOf
<1>6. CASE s.own # Nobody /\ found = "MATCHED"
  <2>1. s.mapping[s.own] # "NONE"
    BY <1>0, <1>6, FindIsSure
  <2>2. /\ written \in Listeners /\ SameCourse(s, written)
        /\ written.own = s.own /\ written.saved = s.saved /\ ~written.active
        /\ \A j \in Keyboards : j # s.own => written.mapping[j] = s.mapping[j]
        /\ written.mapping[s.own] = IF WriteIsStored(f) THEN s.saved ELSE s.mapping[s.own]
        /\ IsVerified(written, s.own, s.saved, f) => written.mapping[s.own] = s.saved
    <3>1. s.own \in Keyboards /\ s.saved \in {"EMPTY", "USER", "SINK"}
      BY <1>0, <1>1, <1>6
    <3>2. written \in Listeners
      BY <1>1, <3>1, WriteFacts
    <3>3. SameCourse(idle, written)
      BY <1>1, <3>1, WriteFacts
    <3>4. /\ written.own = idle.own /\ written.saved = idle.saved
          /\ written.active = idle.active
      BY <1>1, <3>1, WriteFacts
    <3>5. \A j \in Keyboards : j # s.own => written.mapping[j] = idle.mapping[j]
      BY <1>1, <3>1, WriteFacts
    <3>6. written.mapping[s.own] = IF WriteIsStored(f) THEN s.saved ELSE idle.mapping[s.own]
      BY <1>1, <3>1, WriteFacts
    <3>7. IsVerified(written, s.own, s.saved, f) => written.mapping[s.own] = s.saved
      BY <1>1, <3>1, WriteFacts
    <3> QED
      BY <1>1, <3>2, <3>3, <3>4, <3>5, <3>6, <3>7 DEF SameCourse, SameSight
  <2> HIDE DEF written
  <2>3. /\ Lawful(written)
        /\ Served(written) = Served(s) /\ SinksOf(written) \subseteq SinksOf(s)
    BY <1>0, <1>6, <2>1, <2>2 DEF Lawful, Served, SinksOf, SameCourse
  <2>4. CASE IsVerified(written, s.own, s.saved, f)
    <3>1. t = Disown(written)
      BY <1>6, <2>4 DEF RestoreMapping, idle, written
    <3>2. /\ t \in Listeners /\ t.mapping = written.mapping /\ t.own = Nobody /\ ~t.active
          /\ SameCourse(s, t)
      BY <2>2, <3>1, DisownFacts DEF SameCourse, SameSight
    <3>3. Lawful(t)
      BY <1>0, <2>2, <2>3, <2>4, <3>2, Constants DEF Lawful, SameCourse
    <3>4. WriteIsStored(f) => t.mapping[s.own] # "SINK"
      BY <1>0, <2>2, <3>2
    <3> QED
      BY <1>6, <2>3, <3>2, <3>3, <3>4 DEF Served, SinksOf
  <2>5. CASE ~IsVerified(written, s.own, s.saved, f)
    <3>1. t = written
      BY <1>6, <2>5 DEF RestoreMapping, idle, written
    <3>2. Benign(f) => IsVerified(written, s.own, s.saved, f)
      BY <2>2 DEF Benign, MappingFaults, IsVerified, WriteIsAccepted, WriteIsStored
    <3>3. ~Benign(f)
      BY <2>5, <3>2
    <3>4. WriteIsStored(f) => t.mapping[s.own] # "SINK"
      BY <1>0, <2>2, <3>1
    <3> QED
      BY <1>6, <2>2, <2>3, <3>1, <3>3, <3>4 DEF SinksOf
  <2> QED
    BY <2>4, <2>5
<1> QED
  BY <1>0, <1>3, <1>4, <1>5, <1>6, FindIsSure

(* A fault that lasts hits the later calls of its handler too.             *)
LEMMA LaterFacts ==
  ASSUME NEW f
  PROVE  /\ Later(Later(f)) = Later(f)
         /\ Benign(f) => Benign(Later(f))
         /\ ~Benign(Later(f)) => Later(f) = f
BY DEF Later, Benign, NoFault, MappingFaults

(* muse_on_key_filter_apply takes ownership before it writes, so that the  *)
(* listener is lawful whatever fails, and a rollback that fails stays owed.*)
(* A keyboard is left with the sink by a first fault only if that fault is *)
(* over when the handler goes on.                                          *)
LEMMA ApplyMappingFacts ==
  ASSUME Grounds, NEW s, Lawful(s), ~s.applied, NEW k \in Keyboards, NEW f
  PROVE  LET a == ApplyMapping(s, k, f)
             t == a.state
         IN /\ a.result \in {"APPLIED", "TRANSIENT", "FATAL", "ROLLBACK_UNVERIFIED"}
            /\ Lawful(t)
            /\ SameCourse(s, t)
            /\ Served(t) = Served(s)
            /\ a.result \in {"TRANSIENT", "FATAL"} => t.own = s.own
            /\ a.result \in {"APPLIED", "ROLLBACK_UNVERIFIED"} =>
                 s.own = Nobody /\ t.own = k
            /\ a.result = "APPLIED" => t.active
            /\ SinksOf(t) \subseteq stranded \cup {s.own} \/ Benign(Later(f))
<1> DEFINE a       == ApplyMapping(s, k, f)
           t       == a.state
           found   == Find(s, k, f)
           owning  == [s EXCEPT !.own = k, !.saved = Original(s.mapping[k])]
           written == Write(owning, k, "SINK", f)
           rolled  == RestoreMapping(written, Later(f))
           on      == [written EXCEPT !.active = TRUE]
<1>0. s \in Listeners /\ s.own \in Keyboards \cup {Nobody}
  BY DEF Lawful, Listeners
<1>1. SinksOf(s) \subseteq stranded \cup {s.own}
  BY DEF Lawful, SinksOf
<1>2. CASE s.active \/ s.own # Nobody
  <2>1. a = [state |-> s, result |-> "FATAL"]
    BY <1>2 DEF ApplyMapping
  <2> QED
    BY <1>1, <1>2, <2>1 DEF SameCourse, SameSight
<1>3. CASE ~(s.active \/ s.own # Nobody) /\ (found # "MATCHED" \/ f.kind = "STRANGE")
  <2>1. a.state = s /\ a.result \in {"TRANSIENT", "FATAL"}
    BY <1>3 DEF ApplyMapping
  <2> QED
    BY <1>1, <1>3, <2>1 DEF SameCourse, SameSight
<1>4. CASE ~(s.active \/ s.own # Nobody) /\ ~(found # "MATCHED" \/ f.kind = "STRANGE")
  <2>1. s.own = Nobody /\ ~s.active /\ s.mapping[k] # "NONE" /\ f.kind # "BLIND"
    BY <1>0, <1>4, FindIsSure DEF Find, SelectService
  <2>2. s.mapping[k] \in {"EMPTY", "USER", "SINK"}
    BY <1>0, <2>1 DEF Listeners, Mappings
  <2>3. Original(s.mapping[k]) \in {"EMPTY", "USER"}
    BY <2>2 DEF Original
  <2>4. /\ owning \in Listeners /\ SameCourse(s, owning)
        /\ owning.mapping = s.mapping /\ owning.own = k /\ ~owning.active
        /\ owning.saved = Original(s.mapping[k])
    BY <1>0, <2>1, <2>3 DEF Listeners, SameCourse, SameSight
  <2> HIDE DEF owning
  <2>5. plug[k] # "OUT" => Original(s.mapping[k]) = due[k]
    BY <2>1, <2>2, Constants DEF Lawful, Original, Grounds
  <2>6. Lawful(owning)
    BY <1>0, <2>1, <2>4, <2>5, Constants DEF Lawful, SameCourse
  <2>7. /\ written \in Listeners
        /\ written.own = k /\ written.saved = owning.saved /\ ~written.active
    BY <2>4, WriteFacts
  <2>8. SameCourse(owning, written)
    BY <2>4, WriteFacts
  <2>9. \A j \in Keyboards : j # k => written.mapping[j] = s.mapping[j]
    BY <2>4, WriteFacts
  <2>10. written.mapping[k] = IF WriteIsStored(f) THEN "SINK" ELSE s.mapping[k]
    BY <2>4, WriteFacts
  <2>11. IsVerified(written, k, "SINK", f) => written.mapping[k] = "SINK"
    BY <2>4, WriteFacts
  <2> HIDE DEF written
  <2>12. Lawful(written) /\ SameCourse(s, written) /\ Served(written) = Served(s)
    BY <1>0, <2>1, <2>2, <2>4, <2>6, <2>7, <2>8, <2>9, <2>10
       DEF Lawful, SameCourse, SameSight, Served
  <2>13. CASE IsVerified(written, k, "SINK", f)
    <3>1. a = [state |-> on, result |-> "APPLIED"]
      BY <1>4, <2>13 DEF ApplyMapping, written, owning
    <3>2. /\ on \in Listeners /\ SameCourse(written, on)
          /\ on.mapping = written.mapping /\ on.own = k /\ on.saved = written.saved
          /\ on.active
      BY <2>7 DEF Listeners, SameCourse, SameSight
    <3> HIDE DEF on
    <3>3. Lawful(on)
      BY <2>7, <2>11, <2>12, <2>13, <3>2, Constants DEF Lawful, SameCourse
    <3>4. CASE WriteIsStored(f)
      <4>1. Benign(f)
        BY <1>4, <2>1, <2>13, <3>4
           DEF Benign, MappingFaults, IsVerified, WriteIsAccepted, WriteIsStored
      <4> QED
        BY <2>1, <2>12, <3>1, <3>2, <3>3, <4>1, LaterFacts DEF SameCourse, SameSight, Served
    <3>5. CASE ~WriteIsStored(f)
      <4>1. SinksOf(on) \subseteq SinksOf(s)
        BY <2>9, <2>10, <3>2, <3>5 DEF SinksOf
      <4> QED
        BY <1>1, <2>1, <2>12, <3>1, <3>2, <3>3, <4>1 DEF SameCourse, SameSight, Served
    <3> QED
      BY <3>4, <3>5
  <2>14. CASE ~IsVerified(written, k, "SINK", f)
    <3>1. /\ a.state = rolled
          /\ a.result = IF rolled.own = Nobody THEN "TRANSIENT" ELSE "ROLLBACK_UNVERIFIED"
      BY <1>4, <2>14 DEF ApplyMapping, written, owning
    <3>2. ~written.applied
      BY <2>12 DEF SameCourse
    <3>3. /\ Lawful(rolled) /\ SameCourse(written, rolled)
          /\ Served(rolled) = Served(written)
          /\ SinksOf(rolled) \subseteq SinksOf(written)
          /\ rolled.own \in {k, Nobody}
          /\ WriteIsStored(Later(f)) /\ Later(f).kind # "BLIND" => k \notin SinksOf(rolled)
      BY <2>7, <2>12, <3>2, RestoreMappingFacts
    <3>4. SinksOf(rolled) \subseteq stranded \/ Benign(Later(f))
      <4> SUFFICES ASSUME ~Benign(Later(f))
                   PROVE  SinksOf(rolled) \subseteq stranded
        OBVIOUS
      <4>1. Later(f) = f
        BY LaterFacts
      <4>2. CASE WriteIsStored(f)
        <5>1. SinksOf(written) \subseteq stranded \cup {k}
          BY <2>7, <2>12 DEF Lawful, SinksOf
        <5> QED
          BY <2>1, <3>3, <4>1, <4>2, <5>1
      <4>3. CASE ~WriteIsStored(f)
        <5>1. SinksOf(written) \subseteq SinksOf(s)
          BY <2>9, <2>10, <4>3 DEF SinksOf
        <5> QED
          BY <1>1, <2>1, <3>3, <5>1, Constants DEF SinksOf
      <4> QED
        BY <4>2, <4>3
    <3> QED
      BY <2>1, <2>12, <3>1, <3>3, <3>4 DEF SameCourse, SameSight
  <2> QED
    BY <2>13, <2>14
<1> QED
  BY <1>2, <1>3, <1>4

-----------------------------------------------------------------------------

(* Only finitely many devices were reported to a listener.                 *)
InSight(s) == IsFiniteSet(s.slots) /\ IsFiniteSet(s.sticks)

(* A listener with finitely many slots sees finitely many interfaces.      *)
LEMMA InterfacesAreFinite ==
  ASSUME NEW s, InSight(s)
  PROVE  IsFiniteSet(Interfaces(s))
<1> DEFINE keyboard(k) == [id |-> <<"K", k>>, kind |-> "KEYBOARD",
                           location |-> at[k], connected |-> TRUE]
           joystick(l) == [id |-> <<"J", l>>, kind |-> "JOYSTICK",
                           location |-> l, connected |-> TRUE]
           keyboards   == {keyboard(k) : k \in s.slots}
           joysticks   == {joystick(l) : l \in s.sticks}
           first       == [k \in s.slots |-> keyboard(k)]
           second      == [l \in s.sticks |-> joystick(l)]
<1> HIDE DEF keyboard, joystick
<1>1. first \in Surjection(s.slots, keyboards)
  BY DEF Surjection
<1>2. second \in Surjection(s.sticks, joysticks)
  BY DEF Surjection
<1>3. IsFiniteSet(keyboards) /\ IsFiniteSet(joysticks)
  BY <1>1, <1>2, FS_Surjection DEF InSight
<1>4. Interfaces(s) = keyboards \cup joysticks
  BY DEF Interfaces, keyboard, joystick
<1> QED
  BY <1>3, <1>4, FS_Union

(* A SINGLE snapshot is one keyboard and one joystick, both of one location*)
(* (current_connection_snapshot).                                          *)
LEMMA SingleIsOneController ==
  ASSUME Grounds, NEW s \in Listeners, InSight(s), IsSingle(s)
  PROVE  \E k \in Keyboards :
           /\ s.slots = {k} /\ s.sticks = {at[k]}
           /\ Snapshot(s).location = at[k]
<1> DEFINE seen        == Interfaces(s)
           l           == Snapshot(s).location
           keyboard(k) == [id |-> <<"K", k>>, kind |-> "KEYBOARD",
                           location |-> at[k], connected |-> TRUE]
           joystick(j) == [id |-> <<"J", j>>, kind |-> "JOYSTICK",
                           location |-> j, connected |-> TRUE]
           here(kind)  == AtLocation(seen, l, kind)
<1>1. IsFiniteSet(seen)
  BY InterfacesAreFinite
<1>2. /\ IsComplete(seen, l)
      /\ \A i \in seen : i.connected /\ i.location = l
  BY <1>1, SingleIsTheOnlyOne DEF IsSingle, Snapshot
<1>3. \A kind \in InterfaceKinds : here(kind) \subseteq seen /\ Cardinality(here(kind)) = 1
  BY <1>2 DEF IsComplete, AtLocation
<1>4. \A kind \in InterfaceKinds : \E i : here(kind) = {i}
  BY <1>1, <1>3, FS_Subset, FS_Singleton
<1>5. /\ \A k \in s.slots : keyboard(k) \in seen
      /\ \A j \in s.sticks : joystick(j) \in seen
      /\ \A i \in seen : (\E k \in s.slots : i = keyboard(k))
                            \/ (\E j \in s.sticks : i = joystick(j))
  BY DEF Interfaces
<1>6. /\ \A k \in s.slots : keyboard(k) \in here("KEYBOARD") /\ at[k] = l
      /\ \A j \in s.sticks : joystick(j) \in here("JOYSTICK") /\ j = l
  BY <1>2, <1>5 DEF AtLocation
<1>7. /\ s.slots # {}
      /\ s.sticks # {}
  BY <1>4, <1>5 DEF AtLocation, InterfaceKinds
<1>8. \A j, k \in s.slots : j = k
  <2> SUFFICES ASSUME NEW j \in s.slots, NEW k \in s.slots
               PROVE  j = k
    OBVIOUS
  <2>1. keyboard(j) = keyboard(k)
    BY <1>4, <1>6 DEF InterfaceKinds
  <2>2. keyboard(j).id = keyboard(k).id
    BY <2>1
  <2> QED
    BY <2>2
<1>9. PICK k \in s.slots : s.slots = {k}
  BY <1>7, <1>8
<1>10. s.sticks = {l} /\ at[k] = l
  BY <1>6, <1>7
<1>11. k \in Keyboards
  BY <1>9 DEF Listeners
<1> QED
  BY <1>9, <1>10, <1>11

(* Being lawful is about the mappings and their ownership only.            *)
LEMMA LawMovesAlong ==
  ASSUME NEW s, Lawful(s), NEW t \in Listeners, SameMapping(s, t),
         t.applied => t.active
  PROVE  Lawful(t) /\ Served(t) = Served(s) /\ SinksOf(t) = SinksOf(s)
BY DEF Lawful, SameMapping, Served, SinksOf

(* The first safety failure is kept, and nothing else changes.             *)
LEMMA LatchFacts ==
  ASSUME NEW s \in Listeners,
         NEW failure \in {"DEVICE_UNCERTAIN", "HOLD_RELEASE", "PASSTHROUGH_RESTORE"}
  PROVE  LET t == Latch(s, failure) IN
         /\ t \in Listeners /\ SameMapping(s, t) /\ SameCourse(s, t)
<1>1. Latch(s, failure) \in Listeners
  BY DEF Latch, Listeners
<1>2. SameMapping(s, Latch(s, failure)) /\ SameCourse(s, Latch(s, failure))
  BY DEF Latch, Listeners, SameMapping, SameCourse, SameSight
<1> QED
  BY <1>1, <1>2

(* emit_error leaves the filter alone.                                     *)
LEMMA ErrorFacts ==
  ASSUME NEW s \in Listeners
  PROVE  Error(s) \in Listeners /\ SameMapping(s, Error(s)) /\ SameCourse(s, Error(s))
<1>1. Error(s) \in Listeners
  BY DEF Error, Listeners
<1>2. SameMapping(s, Error(s)) /\ SameCourse(s, Error(s))
  BY DEF Error, Listeners, SameMapping, SameCourse, SameSight
<1> QED
  BY <1>1, <1>2

(* A fatal error stops the listener and leaves the filter to its end.      *)
LEMMA FatalFacts ==
  ASSUME NEW s \in Listeners
  PROVE  LET t == Fatal(s) IN
         /\ t \in Listeners /\ SameMapping(s, t) /\ SameSight(s, t)
         /\ t.applied = s.applied /\ t.applyAge = s.applyAge
         /\ t.restoreAge = s.restoreAge /\ t.retry = s.retry
         /\ t.bound = s.bound /\ t.hold = s.hold
         /\ t.releaseFailed = s.releaseFailed /\ t.stop
<1> DEFINE u == Latch(Error(s), "DEVICE_UNCERTAIN")
           t == Fatal(s)
<1>1. u \in Listeners
  BY ErrorFacts, LatchFacts
<1>2. SameMapping(s, u)
  BY ErrorFacts, LatchFacts DEF SameMapping
<1>3. SameCourse(s, u)
  BY ErrorFacts, LatchFacts DEF SameCourse, SameSight
<1>4. t = [u EXCEPT !.stop = TRUE]
  BY DEF Fatal
<1> HIDE DEF u, t
<1>5. t \in Listeners
  BY <1>1, <1>4 DEF Listeners
<1>6. SameMapping(u, t) /\ SameSight(u, t)
  BY <1>1, <1>4 DEF Listeners, SameMapping, SameSight
<1>7. /\ t.applied = u.applied /\ t.applyAge = u.applyAge
      /\ t.restoreAge = u.restoreAge /\ t.retry = u.retry
      /\ t.bound = u.bound /\ t.hold = u.hold
      /\ t.releaseFailed = u.releaseFailed /\ t.stop
  BY <1>1, <1>4 DEF Listeners
<1> QED
  BY <1>2, <1>3, <1>5, <1>6, <1>7 DEF SameMapping, SameSight, SameCourse, t

(* An unbound lifecycle is bound to no location.                           *)
LEMMA UnbindFacts ==
  ASSUME NEW s \in Listeners
  PROVE  LET t == Unbind(s) IN
         /\ t \in Listeners /\ SameMapping(s, t) /\ SameSight(s, t)
         /\ t.applied = s.applied /\ t.applyAge = s.applyAge
         /\ t.restoreAge = s.restoreAge /\ t.retry = s.retry
         /\ t.hold = s.hold /\ t.stop = s.stop
         /\ t.releaseFailed = s.releaseFailed
         /\ t.bound = 0
BY DEF Unbind, Listeners, SameMapping, SameSight

(* After sync_lifecycle_binding the lifecycle is bound to the location of a*)
(* verified filter or not at all, and nothing else changed.                *)
LEMMA SyncBindingFacts ==
  ASSUME Grounds, NEW s, Lawful(s), InSight(s), NEW calm \in BOOLEAN
  PROVE  LET t == SyncBinding(s, calm) IN
         /\ Lawful(t) /\ SameMapping(s, t) /\ SameSight(s, t)
         /\ Served(t) = Served(s) /\ SinksOf(t) = SinksOf(s)
         /\ t.applied = s.applied /\ t.applyAge = s.applyAge
         /\ t.restoreAge = s.restoreAge /\ t.retry = s.retry
         /\ t.hold = s.hold /\ t.stop = s.stop
         /\ t.releaseFailed = s.releaseFailed
         /\ BoundRightly(t)
         /\ t.bound # 0 => s.own \in s.slots
<1> DEFINE t == SyncBinding(s, calm)
           l == Snapshot(s).location
<1>0. s \in Listeners
  BY DEF Lawful
<1>1. CASE ~FilterIsVerified(s)
  <2>1. t = Unbind(s)
    BY <1>1 DEF SyncBinding
  <2>2. t \in Listeners /\ SameMapping(s, t) /\ SameSight(s, t)
    BY <1>0, <2>1, UnbindFacts
  <2>3. /\ t.applied = s.applied /\ t.applyAge = s.applyAge
        /\ t.restoreAge = s.restoreAge /\ t.retry = s.retry
        /\ t.hold = s.hold /\ t.stop = s.stop
        /\ t.releaseFailed = s.releaseFailed
        /\ t.bound = 0
    BY <1>0, <2>1, UnbindFacts
  <2>4. t.applied => t.active
    BY <2>2, <2>3 DEF SameMapping, Lawful
  <2>5. Lawful(t) /\ Served(t) = Served(s) /\ SinksOf(t) = SinksOf(s)
    BY <2>2, <2>4, LawMovesAlong
  <2> QED
    BY <2>2, <2>3, <2>5 DEF BoundRightly
<1>2. CASE FilterIsVerified(s)
  <2>1. PICK k \in Keyboards : s.slots = {k} /\ s.sticks = {at[k]} /\ l = at[k]
    BY <1>0, <1>2, SingleIsOneController DEF FilterIsVerified
  <2>2. s.own = k /\ s.applied
    BY <1>2, <2>1 DEF FilterIsVerified
  <2>3. \/ t = s /\ s.bound = l
        \/ t = [s EXCEPT !.bound = l, !.released = calm]
    BY <1>2 DEF SyncBinding
  <2>4. l \in Locations
    BY <2>1 DEF Grounds
  <2> HIDE DEF t, l
  <2>5. t \in Listeners /\ SameMapping(s, t) /\ SameSight(s, t)
    BY <1>0, <2>3, <2>4 DEF Listeners, SameMapping, SameSight
  <2>6. /\ t.applied = s.applied /\ t.applyAge = s.applyAge
        /\ t.restoreAge = s.restoreAge /\ t.retry = s.retry
        /\ t.hold = s.hold /\ t.stop = s.stop
        /\ t.releaseFailed = s.releaseFailed
        /\ t.bound = l
    BY <1>0, <2>3 DEF Listeners
  <2>7. t.applied => t.active
    BY <2>5, <2>6 DEF SameMapping, Lawful
  <2>8. Lawful(t) /\ Served(t) = Served(s) /\ SinksOf(t) = SinksOf(s)
    BY <2>5, <2>7, LawMovesAlong
  <2>9. BoundRightly(t)
    BY <2>1, <2>2, <2>5, <2>6 DEF BoundRightly, SameMapping, SameSight
  <2> QED
    BY <2>1, <2>2, <2>5, <2>6, <2>8, <2>9 DEF t
<1> QED
  BY <1>1, <1>2

(* force_release lets a held shortcut go or says that it failed.           *)
LEMMA ReleaseHoldFacts ==
  ASSUME NEW s \in Listeners, NEW f
  PROVE  LET t == ReleaseHold(s, f) IN
         /\ t \in Listeners /\ SameMapping(s, t) /\ SameSight(s, t)
         /\ t.applied = s.applied /\ t.applyAge = s.applyAge
         /\ t.restoreAge = s.restoreAge /\ t.retry = s.retry
         /\ t.bound = s.bound /\ t.stop = s.stop
         /\ t.hold => s.hold /\ t.releaseFailed
         /\ s.releaseFailed => t.releaseFailed
<1> DEFINE t == ReleaseHold(s, f)
           u == Latch(s, "HOLD_RELEASE")
<1>1. CASE ~s.hold
  <2>1. t = s
    BY <1>1 DEF ReleaseHold
  <2> QED
    BY <1>1, <2>1 DEF SameMapping, SameSight
<1>2. CASE s.hold /\ f.kind # "HOLD"
  <2>1. t = [s EXCEPT !.hold = FALSE]
    BY <1>2 DEF ReleaseHold
  <2> QED
    BY <2>1 DEF Listeners, SameMapping, SameSight
<1>3. CASE s.hold /\ f.kind = "HOLD"
  <2>1. t = [u EXCEPT !.releaseFailed = TRUE]
    BY <1>3 DEF ReleaseHold
  <2>2. u \in Listeners /\ SameMapping(s, u) /\ SameCourse(s, u)
    BY LatchFacts
  <2> HIDE DEF t, u
  <2>3. t \in Listeners /\ SameMapping(u, t) /\ SameSight(u, t)
    BY <2>1, <2>2 DEF Listeners, SameMapping, SameSight
  <2>4. /\ t.applied = u.applied /\ t.applyAge = u.applyAge
        /\ t.restoreAge = u.restoreAge /\ t.retry = u.retry
        /\ t.bound = u.bound /\ t.stop = u.stop
        /\ t.hold = u.hold /\ t.releaseFailed
    BY <2>1, <2>2 DEF Listeners
  <2> QED
    BY <1>3, <2>2, <2>3, <2>4 DEF SameMapping, SameSight, SameCourse, t
<1> QED
  BY <1>1, <1>2, <1>3

-----------------------------------------------------------------------------

(* What holds of the listener between the calls of a handler.              *)
Orderly(s) ==
  /\ Lawful(s)
  /\ InSight(s)
  /\ Clocked(s)
  /\ s.bound # 0 => s.applied
  /\ HeldRightly(s)

(* restore_keyboard_filter turns the filter off whatever fails, unbinds the*)
(* input, lets a held shortcut go or says that it failed, and leaves no    *)
(* further keyboard swallowing. The final one gives everything back or     *)
(* reports a failed release.                                               *)
LEMMA RestoreFacts ==
  ASSUME Grounds, NEW s, Orderly(s), NEW f, NEW final \in BOOLEAN
  PROVE  LET t == Restore(s, f, final) IN
         /\ Orderly(t) /\ SameSight(s, t)
         /\ Served(t) = Served(s)
         /\ SinksOf(t) \subseteq SinksOf(s)
         /\ ~t.applied
         /\ t.own \in {s.own, Nobody}
         /\ s.stop => t.stop
         /\ s.releaseFailed => t.releaseFailed
         /\ final => t.own = Nobody \/ t.releaseFailed
         /\ final /\ Benign(f) => t.own = Nobody
<1> DEFINE t       == Restore(s, f, final)
           first   == s.restoreAge = Off /\ s.retry = Off
           open    == IF first THEN Unbind(ReleaseHold(s, f)) ELSE s
           loose   == [open EXCEPT !.applied = FALSE]
           present == \E k \in s.slots : s.own # Nobody /\ at[k] = at[s.own]
           tooSoon == ~final /\ s.restoreAge # Off /\ present /\ ~IsDue(s.retry)
           tried   == RestoreMapping(loose, f)
           failed  == Latch(Error(tried), "PASSTHROUGH_RESTORE")
<1>0. s \in Listeners
  BY DEF Orderly, Lawful
<1>1. /\ open \in Listeners /\ SameMapping(s, open) /\ SameSight(s, open)
      /\ open.restoreAge = s.restoreAge /\ open.stop = s.stop
      /\ s.releaseFailed => open.releaseFailed
      /\ open.bound = 0
      /\ open.hold => open.releaseFailed
  <2>1. CASE first
    <3>1. ReleaseHold(s, f) \in Listeners
      BY <1>0, ReleaseHoldFacts
    <3>2. open \in Listeners
      BY <2>1, <3>1, UnbindFacts
    <3>3. SameMapping(s, open)
      BY <1>0, <2>1, <3>1, ReleaseHoldFacts, UnbindFacts DEF SameMapping
    <3>4. SameSight(s, open)
      BY <1>0, <2>1, <3>1, ReleaseHoldFacts, UnbindFacts DEF SameSight
    <3>5. /\ open.restoreAge = s.restoreAge /\ open.stop = s.stop
          /\ s.releaseFailed => open.releaseFailed
          /\ open.bound = 0
          /\ open.hold => open.releaseFailed
      BY <1>0, <2>1, <3>1, ReleaseHoldFacts, UnbindFacts
    <3> QED
      BY <3>2, <3>3, <3>4, <3>5
  <2>2. CASE ~first
    <3>1. ~s.applied
      BY <2>2 DEF Orderly, Clocked
    <3> QED
      BY <1>0, <2>2, <3>1 DEF Orderly, HeldRightly, SameMapping, SameSight
  <2> QED
    BY <2>1, <2>2
<1> HIDE DEF open
<1>2. /\ loose \in Listeners /\ SameMapping(s, loose) /\ SameSight(s, loose)
      /\ loose.restoreAge = s.restoreAge /\ loose.stop = s.stop
      /\ s.releaseFailed => loose.releaseFailed
      /\ loose.bound = 0 /\ ~loose.applied
      /\ loose.hold => loose.releaseFailed
  <2>1. loose \in Listeners
    BY <1>1 DEF Listeners
  <2>2. SameMapping(open, loose) /\ SameSight(open, loose)
    BY <1>1 DEF Listeners, SameMapping, SameSight
  <2>3. /\ loose.restoreAge = open.restoreAge /\ loose.stop = open.stop
        /\ loose.releaseFailed = open.releaseFailed
        /\ loose.bound = open.bound /\ loose.hold = open.hold /\ ~loose.applied
    BY <1>1 DEF Listeners
  <2> QED
    BY <1>1, <2>1, <2>2, <2>3 DEF SameMapping, SameSight
<1> HIDE DEF loose
<1>3. Lawful(loose) /\ Served(loose) = Served(s) /\ SinksOf(loose) = SinksOf(s)
  BY <1>2, LawMovesAlong DEF Orderly
<1>4. /\ Lawful(tried) /\ SameCourse(loose, tried)
      /\ Served(tried) = Served(loose)
      /\ SinksOf(tried) \subseteq SinksOf(loose)
      /\ tried.own \in {loose.own, Nobody}
      /\ Benign(f) => tried.own = Nobody
  BY <1>2, <1>3, RestoreMappingFacts
<1> HIDE DEF tried, present, tooSoon
<1>5. ASSUME NEW u, u \in Listeners,
             SameMapping(loose, u) \/ SameMapping(tried, u),
             SameSight(s, u),
             ~u.applied, u.bound = 0,
             u.hold => u.releaseFailed,
             u.own = Nobody => u.restoreAge = Off
      PROVE  /\ Orderly(u)
             /\ Served(u) = Served(s)
             /\ SinksOf(u) \subseteq SinksOf(s)
             /\ u.own \in {s.own, Nobody}
  <2>1. Lawful(u) /\ Served(u) = Served(s) /\ SinksOf(u) \subseteq SinksOf(s)
    BY <1>3, <1>4, <1>5, LawMovesAlong
  <2>2. u.own \in {s.own, Nobody}
    BY <1>2, <1>4, <1>5 DEF SameMapping
  <2> QED
    BY <1>5, <2>1, <2>2 DEF Orderly, InSight, Clocked, HeldRightly, SameSight
<1>6. CASE s.own = Nobody
  <2>1. t = [loose EXCEPT !.restoreAge = Off, !.retry = Off]
    BY <1>6 DEF Restore, loose, open
  <2> HIDE DEF t
  <2>2. t \in Listeners
    BY <1>2, <2>1 DEF Listeners, Ages
  <2>3. SameMapping(loose, t) /\ SameSight(loose, t)
    BY <1>2, <2>1 DEF Listeners, SameMapping, SameSight
  <2>4. /\ ~t.applied /\ t.bound = 0 /\ t.hold = loose.hold /\ t.stop = loose.stop
        /\ t.releaseFailed = loose.releaseFailed /\ t.restoreAge = Off
    BY <1>2, <2>1 DEF Listeners
  <2>5. SameSight(s, t)
    BY <1>2, <2>3 DEF SameSight
  <2>6. t.hold => t.releaseFailed
    BY <1>2, <2>4
  <2>7. /\ Orderly(t) /\ Served(t) = Served(s) /\ SinksOf(t) \subseteq SinksOf(s)
        /\ t.own \in {s.own, Nobody}
    BY <1>5, <2>2, <2>3, <2>4, <2>5, <2>6
  <2> QED
    BY <1>2, <1>6, <2>4, <2>5, <2>7 DEF t
<1>7. CASE s.own # Nobody /\ tooSoon
  <2>1. t = loose /\ ~final
    BY <1>7 DEF Restore, loose, open, tooSoon, present
  <2>2. loose.own # Nobody
    BY <1>2, <1>7 DEF SameMapping
  <2>3. SameMapping(loose, loose)
    BY DEF SameMapping
  <2>4. /\ Orderly(loose) /\ Served(loose) = Served(s) /\ SinksOf(loose) \subseteq SinksOf(s)
        /\ loose.own \in {s.own, Nobody}
    BY <1>2, <1>5, <2>2, <2>3
  <2> QED
    BY <1>2, <2>1, <2>4
<1>8. CASE s.own # Nobody /\ ~tooSoon /\ tried.own = Nobody
  <2>1. t = [tried EXCEPT !.restoreAge = Off, !.retry = Off, !.applyAge = Off]
    BY <1>8 DEF Restore, loose, open, tooSoon, present, tried
  <2> HIDE DEF t
  <2>a. tried \in Listeners
    BY <1>4 DEF Lawful
  <2>2. t \in Listeners
    BY <2>a, <2>1 DEF Listeners, Ages
  <2>3. SameMapping(tried, t) /\ SameSight(tried, t)
    BY <2>a, <2>1 DEF Listeners, SameMapping, SameSight
  <2>4. /\ t.applied = tried.applied /\ t.bound = tried.bound
        /\ t.hold = tried.hold /\ t.stop = tried.stop
        /\ t.releaseFailed = tried.releaseFailed /\ t.restoreAge = Off
    BY <2>a, <2>1 DEF Listeners
  <2>5. SameSight(s, t)
    BY <1>2, <1>4, <2>3 DEF SameSight, SameCourse
  <2>6. /\ ~t.applied /\ t.bound = 0 /\ t.stop = s.stop
        /\ t.hold => t.releaseFailed
        /\ s.releaseFailed => t.releaseFailed
    BY <1>2, <1>4, <2>4 DEF SameCourse
  <2>7. /\ Orderly(t) /\ Served(t) = Served(s) /\ SinksOf(t) \subseteq SinksOf(s)
        /\ t.own \in {s.own, Nobody}
    BY <1>5, <2>2, <2>3, <2>4, <2>5, <2>6
  <2>8. t.own = Nobody
    BY <1>8, <2>3 DEF SameMapping
  <2> QED
    BY <2>5, <2>6, <2>7, <2>8 DEF t
<1>9. CASE s.own # Nobody /\ ~tooSoon /\ tried.own # Nobody
            /\ (final \/ (present /\ HasSettledTooLong(s.restoreAge)))
  <2>1. t = [failed EXCEPT !.restoreAge = IF final THEN Off ELSE @,
                           !.releaseFailed = TRUE, !.stop = TRUE]
    BY <1>9 DEF Restore, loose, open, tooSoon, present, tried
  <2>a. tried \in Listeners
    BY <1>4 DEF Lawful
  <2>b. /\ failed \in Listeners /\ SameMapping(tried, failed)
        /\ SameCourse(tried, failed)
    BY <2>a, ErrorFacts, LatchFacts DEF SameMapping, SameCourse, SameSight
  <2> HIDE DEF t, failed
  <2>2. t \in Listeners
    BY <2>b, <2>1 DEF Listeners, Ages
  <2>3. SameMapping(failed, t) /\ SameSight(failed, t)
    BY <2>b, <2>1 DEF Listeners, SameMapping, SameSight
  <2>4. /\ t.applied = failed.applied /\ t.bound = failed.bound
        /\ t.stop /\ t.releaseFailed
    BY <2>b, <2>1 DEF Listeners
  <2>5. SameSight(s, t) /\ SameMapping(tried, t)
    BY <1>2, <1>4, <2>b, <2>3 DEF SameSight, SameCourse, SameMapping
  <2>6. ~t.applied /\ t.bound = 0 /\ t.own # Nobody
    BY <1>2, <1>4, <1>9, <2>b, <2>4, <2>5 DEF SameCourse, SameMapping
  <2>7. /\ Orderly(t) /\ Served(t) = Served(s) /\ SinksOf(t) \subseteq SinksOf(s)
        /\ t.own \in {s.own, Nobody}
    BY <1>5, <2>2, <2>4, <2>5, <2>6
  <2>8. ~Benign(f)
    BY <1>4, <1>9
  <2> QED
    BY <2>4, <2>5, <2>6, <2>7, <2>8 DEF t
<1>10. CASE s.own # Nobody /\ ~tooSoon /\ tried.own # Nobody
            /\ ~(final \/ (present /\ HasSettledTooLong(s.restoreAge)))
  <2>1. t = [tried EXCEPT !.restoreAge = IF present THEN Waiting(@) ELSE Off,
                          !.retry = RetryTicks]
    BY <1>10 DEF Restore, loose, open, tooSoon, present, tried
  <2>a. tried \in Listeners
    BY <1>4 DEF Lawful
  <2> HIDE DEF t
  <2>2. t \in Listeners
    <3> DEFINE age == IF present THEN Waiting(tried.restoreAge) ELSE Off
    <3>1. age \in Ages(SettleTicks) /\ RetryTicks \in Ages(RetryTicks)
      BY <2>a, Constants DEF Listeners, Ages, Waiting
    <3>2. t = [tried EXCEPT !.restoreAge = age, !.retry = RetryTicks]
      BY <2>a, <2>1 DEF Listeners
    <3> HIDE DEF age
    <3> QED
      BY <2>a, <3>1, <3>2 DEF Listeners
  <2>3. SameMapping(tried, t) /\ SameSight(tried, t)
    BY <2>a, <2>1 DEF Listeners, SameMapping, SameSight
  <2>4. /\ t.applied = tried.applied /\ t.bound = tried.bound
        /\ t.hold = tried.hold /\ t.stop = tried.stop
        /\ t.releaseFailed = tried.releaseFailed
    BY <2>a, <2>1 DEF Listeners
  <2>5. SameSight(s, t)
    BY <1>2, <1>4, <2>3 DEF SameSight, SameCourse
  <2>6. /\ ~t.applied /\ t.bound = 0 /\ t.stop = s.stop
        /\ t.hold => t.releaseFailed
        /\ s.releaseFailed => t.releaseFailed
        /\ t.own # Nobody /\ ~final
    BY <1>2, <1>4, <1>10, <2>3, <2>4 DEF SameCourse, SameMapping
  <2>7. /\ Orderly(t) /\ Served(t) = Served(s) /\ SinksOf(t) \subseteq SinksOf(s)
        /\ t.own \in {s.own, Nobody}
    BY <1>5, <2>2, <2>3, <2>4, <2>5, <2>6
  <2> QED
    BY <2>5, <2>6, <2>7 DEF t
<1> QED
  BY <1>6, <1>7, <1>8, <1>9, <1>10

(* The snapshot depends on the devices in sight only.                      *)
LEMMA SightFixesSnapshot ==
  ASSUME NEW s, NEW t, SameSight(s, t)
  PROVE  /\ Snapshot(t) = Snapshot(s)
         /\ IsSingle(t) <=> IsSingle(s)
         /\ InSight(t) <=> InSight(s)
<1>1. Interfaces(t) = Interfaces(s)
  BY DEF Interfaces, SameSight
<1> QED
  BY <1>1 DEF Snapshot, IsSingle, InSight, SameSight

(* An attempt that did not apply changes no mapping.                       *)
LEMMA NotAppliedFacts ==
  ASSUME NEW s, Orderly(s), ~s.applied, NEW result
  PROVE  LET t == NotApplied(s, result) IN
         /\ Orderly(t) /\ SameSight(s, t)
         /\ Served(t) = Served(s) /\ SinksOf(t) = SinksOf(s)
         /\ t.own = s.own /\ ~t.applied
         /\ s.stop => t.stop
         /\ s.releaseFailed => t.releaseFailed
<1> DEFINE t     == NotApplied(s, result)
           u     == Fatal(s)
           age   == Waiting(s.applyAge)
<1>0. s \in Listeners
  BY DEF Orderly, Lawful
<1>1. /\ t \in Listeners /\ SameMapping(s, t) /\ SameSight(s, t)
      /\ t.applied = s.applied /\ t.bound = s.bound /\ t.hold = s.hold
      /\ t.restoreAge = s.restoreAge /\ t.releaseFailed = s.releaseFailed
      /\ s.stop => t.stop
  <2>1. CASE result = "FATAL" \/ HasSettledTooLong(s.applyAge)
    <3>1. t = [u EXCEPT !.applyAge = Off, !.retry = Off]
      BY <2>1 DEF NotApplied
    <3>2. u \in Listeners /\ SameMapping(s, u) /\ SameSight(s, u)
      BY <1>0, FatalFacts
    <3>3. /\ u.applied = s.applied /\ u.bound = s.bound /\ u.hold = s.hold
          /\ u.restoreAge = s.restoreAge /\ u.releaseFailed = s.releaseFailed
          /\ u.stop
      BY <1>0, FatalFacts
    <3> HIDE DEF t, u
    <3>4. t \in Listeners
      BY <3>1, <3>2 DEF Listeners, Ages
    <3>5. SameMapping(u, t) /\ SameSight(u, t)
      BY <3>1, <3>2 DEF Listeners, SameMapping, SameSight
    <3>6. /\ t.applied = u.applied /\ t.bound = u.bound /\ t.hold = u.hold
          /\ t.restoreAge = u.restoreAge /\ t.releaseFailed = u.releaseFailed
          /\ t.stop = u.stop
      BY <3>1, <3>2 DEF Listeners
    <3> QED
      BY <3>2, <3>3, <3>4, <3>5, <3>6 DEF SameMapping, SameSight
  <2>2. CASE ~(result = "FATAL" \/ HasSettledTooLong(s.applyAge))
    <3>1. age \in Ages(SettleTicks) /\ RetryTicks \in Ages(RetryTicks)
      BY <1>0, Constants DEF Listeners, Ages, Waiting
    <3>2. t = [s EXCEPT !.applyAge = age, !.retry = RetryTicks]
      BY <1>0, <2>2 DEF NotApplied, Listeners
    <3> HIDE DEF t, age
    <3>3. t \in Listeners
      BY <1>0, <3>1, <3>2 DEF Listeners
    <3>4. SameMapping(s, t) /\ SameSight(s, t)
      BY <1>0, <3>2 DEF Listeners, SameMapping, SameSight
    <3>5. /\ t.applied = s.applied /\ t.bound = s.bound /\ t.hold = s.hold
          /\ t.restoreAge = s.restoreAge /\ t.releaseFailed = s.releaseFailed
          /\ t.stop = s.stop
      BY <1>0, <3>2 DEF Listeners
    <3> QED
      BY <3>3, <3>4, <3>5
  <2> QED
    BY <2>1, <2>2
<1> HIDE DEF t
<1>2. Lawful(t) /\ Served(t) = Served(s) /\ SinksOf(t) = SinksOf(s)
  BY <1>1, LawMovesAlong DEF Orderly
<1>3. Orderly(t)
  BY <1>1, <1>2 DEF Orderly, InSight, Clocked, HeldRightly, SameMapping, SameSight
<1> QED
  BY <1>1, <1>2, <1>3 DEF SameMapping, t

(* With one controller in sight and nothing owed, the filter comes on for  *)
(* exactly that controller, or stays off.                                  *)
LEMMA ApplyToFacts ==
  ASSUME Grounds, NEW s, Orderly(s), s.own = Nobody, ~s.applied, IsSingle(s),
         NEW f, NEW calm \in BOOLEAN
  PROVE  LET t == ApplyTo(s, f, calm) IN
         /\ Orderly(t) /\ SameSight(s, t)
         /\ BoundRightly(t) /\ FilteredRightly(t)
         /\ Served(t) = Served(s)
         /\ SinksOf(t) \subseteq stranded \/ Benign(Later(f))
         /\ s.stop => t.stop
         /\ s.releaseFailed => t.releaseFailed
<1> DEFINE t     == ApplyTo(s, f, calm)
           k     == CHOOSE x \in s.slots : at[x] = Snapshot(s).location
           tried == ApplyMapping(s, k, f)
           u     == tried.state
           on    == [u EXCEPT !.applyAge = Off, !.applied = TRUE, !.retry = Off]
           off   == [Error(u) EXCEPT !.stop = TRUE]
           back  == Restore(off, Later(f), FALSE)
<1>0. s \in Listeners /\ InSight(s) /\ Lawful(s)
  BY DEF Orderly, Lawful
<1>1. PICK j \in Keyboards : s.slots = {j} /\ s.sticks = {at[j]}
                             /\ Snapshot(s).location = at[j]
  BY <1>0, SingleIsOneController
<1>2. k = j
  BY <1>1
<1> HIDE DEF k
<1>3. tried.result \in {"APPLIED", "TRANSIENT", "FATAL", "ROLLBACK_UNVERIFIED"}
  BY <1>0, <1>2, ApplyMappingFacts
<1>4. Lawful(u)
  BY <1>0, <1>2, ApplyMappingFacts
<1>5. SameCourse(s, u)
  BY <1>0, <1>2, ApplyMappingFacts
<1>6. Served(u) = Served(s)
  BY <1>0, <1>2, ApplyMappingFacts
<1>7. /\ tried.result \in {"TRANSIENT", "FATAL"} => u.own = Nobody
      /\ tried.result = "APPLIED" => u.own = k /\ u.active
  BY <1>0, <1>2, ApplyMappingFacts
<1>8. SinksOf(u) \subseteq stranded \/ Benign(Later(f))
  <2>1. SinksOf(u) \subseteq stranded \cup {Nobody} \/ Benign(Later(f))
    BY <1>0, <1>2, ApplyMappingFacts
  <2> QED
    BY <2>1, Constants DEF SinksOf
<1>9. u \in Listeners
  BY <1>4 DEF Lawful
<1>10. CASE tried.result = "APPLIED"
  <2>1. t = SyncBinding(on, calm)
    BY <1>10 DEF ApplyTo, k
  <2> HIDE DEF tried, t
  <2>2. on \in Listeners
    BY <1>9 DEF Listeners, Ages
  <2>3. SameMapping(u, on) /\ SameSight(u, on)
    BY <1>9 DEF Listeners, SameMapping, SameSight
  <2>4. /\ on.applied /\ on.restoreAge = u.restoreAge /\ on.retry = Off
        /\ on.hold = u.hold /\ on.stop = u.stop /\ on.bound = u.bound
        /\ on.releaseFailed = u.releaseFailed
    BY <1>9 DEF Listeners
  <2> HIDE DEF on
  <2>5. on.active
    BY <1>7, <1>10, <2>3 DEF SameMapping
  <2>6. Lawful(on) /\ Served(on) = Served(u) /\ SinksOf(on) = SinksOf(u)
    BY <1>4, <2>2, <2>3, <2>5, LawMovesAlong
  <2>7. SameSight(s, on)
    BY <1>5, <2>3 DEF SameCourse, SameSight
  <2>8. InSight(on)
    BY <1>0, <2>7 DEF InSight, SameSight
  <2>9. Lawful(t) /\ SameMapping(on, t) /\ SameSight(on, t)
    BY <2>1, <2>6, <2>8, SyncBindingFacts
  <2>10. /\ Served(t) = Served(on) /\ SinksOf(t) = SinksOf(on)
         /\ t.applied = on.applied /\ t.stop = on.stop
         /\ t.restoreAge = on.restoreAge /\ t.retry = on.retry
         /\ t.releaseFailed = on.releaseFailed
         /\ BoundRightly(t)
    BY <2>1, <2>6, <2>8, SyncBindingFacts
  <2>11. SameSight(s, t)
    BY <2>7, <2>9 DEF SameSight
  <2>12. t.own = j /\ t.slots = {j} /\ t.sticks = {at[j]}
    BY <1>1, <1>2, <1>7, <1>10, <2>3, <2>9, <2>11 DEF SameMapping, SameSight
  <2>13. FilteredRightly(t)
    BY <2>12 DEF FilteredRightly
  <2>14. t.restoreAge = Off /\ t.retry = Off
    BY <1>5, <2>4, <2>10 DEF Orderly, Clocked, SameCourse
  <2>15. Orderly(t)
    BY <2>4, <2>8, <2>9, <2>10, <2>14 DEF Orderly, InSight, Clocked, HeldRightly, SameSight
  <2>16. /\ s.stop => t.stop
         /\ s.releaseFailed => t.releaseFailed
    BY <1>5, <2>4, <2>10 DEF SameCourse
  <2> QED
    BY <1>6, <1>8, <2>6, <2>10, <2>11, <2>13, <2>15, <2>16 DEF t
<1>11. ASSUME tried.result # "APPLIED"
       PROVE  Orderly(u) /\ ~u.applied
  BY <1>0, <1>4, <1>5 DEF Orderly, InSight, Clocked, HeldRightly, SameCourse, SameSight
<1>12. ASSUME NEW v, Orderly(v), ~v.applied
       PROVE  BoundRightly(v) /\ FilteredRightly(v)
  BY <1>12 DEF Orderly, BoundRightly, FilteredRightly
<1>13. CASE tried.result = "ROLLBACK_UNVERIFIED"
  <2>1. \/ t = back
        \/ t = Latch(back, "DEVICE_UNCERTAIN")
    BY <1>13 DEF ApplyTo, k
  <2> HIDE DEF t, tried
  <2>2. Error(u) \in Listeners /\ SameMapping(u, Error(u)) /\ SameCourse(u, Error(u))
    BY <1>9, ErrorFacts
  <2>3. off \in Listeners /\ SameMapping(Error(u), off) /\ SameSight(Error(u), off)
    BY <2>2 DEF Listeners, SameMapping, SameSight
  <2>4. LET e == Error(u) IN
        /\ off.applied = e.applied /\ off.restoreAge = e.restoreAge
        /\ off.retry = e.retry /\ off.bound = e.bound /\ off.hold = e.hold
        /\ off.stop /\ off.releaseFailed = e.releaseFailed
    BY <2>2 DEF Listeners
  <2> HIDE DEF off
  <2>5. SameMapping(u, off) /\ SameSight(u, off)
    BY <2>2, <2>3 DEF SameMapping, SameCourse, SameSight
  <2>6. /\ off.applied = u.applied /\ off.restoreAge = u.restoreAge
        /\ off.retry = u.retry /\ off.bound = u.bound /\ off.hold = u.hold
        /\ off.stop /\ off.releaseFailed = u.releaseFailed
    BY <2>2, <2>4 DEF SameCourse
  <2>7. Lawful(off) /\ Served(off) = Served(u) /\ SinksOf(off) = SinksOf(u)
    BY <1>4, <1>11, <1>13, <2>3, <2>5, <2>6, LawMovesAlong
  <2>8. Orderly(off)
    BY <1>11, <1>13, <2>5, <2>6, <2>7
       DEF Orderly, InSight, Clocked, HeldRightly, SameMapping, SameSight
  <2>9. Orderly(back) /\ SameSight(off, back)
    BY <2>8, RestoreFacts
  <2>10. Served(back) = Served(off) /\ SinksOf(back) \subseteq SinksOf(off)
    BY <2>8, RestoreFacts
  <2>11. /\ ~back.applied
         /\ off.stop => back.stop
         /\ off.releaseFailed => back.releaseFailed
    BY <2>8, RestoreFacts
  <2> HIDE DEF back
  <2>12. back \in Listeners
    BY <2>9 DEF Orderly, Lawful
  <2>13. t \in Listeners /\ SameMapping(back, t) /\ SameCourse(back, t)
    BY <2>1, <2>12, LatchFacts DEF SameMapping, SameCourse, SameSight
  <2>14. Lawful(t) /\ Served(t) = Served(back) /\ SinksOf(t) = SinksOf(back)
    BY <2>9, <2>11, <2>13, LawMovesAlong DEF Orderly, SameCourse
  <2>15. Orderly(t) /\ ~t.applied
    BY <2>9, <2>11, <2>13, <2>14
       DEF Orderly, InSight, Clocked, HeldRightly, SameMapping, SameCourse, SameSight
  <2>16. SameSight(s, t)
    BY <1>5, <2>5, <2>9, <2>13 DEF SameCourse, SameSight
  <2>17. /\ t.stop
         /\ s.releaseFailed => t.releaseFailed
    BY <1>5, <2>6, <2>11, <2>13 DEF SameCourse
  <2>18. Served(t) = Served(s) /\ (SinksOf(t) \subseteq stranded \/ Benign(Later(f)))
    BY <1>6, <1>8, <2>7, <2>10, <2>14
  <2> QED
    BY <1>12, <2>15, <2>16, <2>17, <2>18 DEF t
<1>14. CASE tried.result \in {"FATAL", "TRANSIENT"}
  <2>1. t = NotApplied(u, tried.result)
    BY <1>14 DEF ApplyTo, k
  <2> HIDE DEF tried, t
  <2>2. Orderly(t) /\ SameSight(u, t)
    BY <1>11, <1>14, <2>1, NotAppliedFacts
  <2>3. Served(t) = Served(u) /\ SinksOf(t) = SinksOf(u)
    BY <1>11, <1>14, <2>1, NotAppliedFacts
  <2>4. /\ ~t.applied
        /\ u.stop => t.stop
        /\ u.releaseFailed => t.releaseFailed
    BY <1>11, <1>14, <2>1, NotAppliedFacts
  <2>5. SameSight(s, t)
    BY <1>5, <2>2 DEF SameCourse, SameSight
  <2> QED
    BY <1>5, <1>6, <1>8, <1>12, <2>2, <2>3, <2>4, <2>5 DEF SameCourse, t
<1> QED
  BY <1>3, <1>10, <1>13, <1>14

(* activate_keyboard_filter keeps what was right, and leaves no keyboard   *)
(* swallowing but the one it owned, unless the fault is over.              *)
LEMMA ActivateFacts ==
  ASSUME Grounds, NEW s, Orderly(s), NEW f, NEW calm \in BOOLEAN
  PROVE  LET t == Activate(s, f, calm) IN
         /\ Orderly(t) /\ SameSight(s, t)
         /\ BoundRightly(s) => BoundRightly(t)
         /\ FilteredRightly(s) => FilteredRightly(t)
         /\ Served(t) = Served(s)
         /\ SinksOf(t) \subseteq stranded \cup {s.own} \/ Benign(Later(f))
         /\ s.stop => t.stop
         /\ s.releaseFailed => t.releaseFailed
<1> DEFINE t       == Activate(s, f, calm)
           cleared == IF s.own = Nobody THEN s ELSE Restore(s, f, FALSE)
           next    == IF s.own = Nobody THEN f ELSE Later(f)
           idle    == [cleared EXCEPT !.applyAge = Off, !.retry = RetryTicks]
<1>0. SinksOf(s) \subseteq stranded \cup {s.own}
  BY DEF Orderly, Lawful, SinksOf
<1>1. CASE s.applied \/ s.active
  <2>1. t = s
    BY <1>1 DEF Activate
  <2> QED
    BY <1>0, <2>1 DEF SameSight
<1>2. CASE ~(s.applied \/ s.active)
  <2>1. Orderly(cleared) /\ ~cleared.applied
    BY <1>2, RestoreFacts
  <2>2. SameSight(s, cleared)
    BY <1>2, RestoreFacts DEF SameSight
  <2>3. Served(cleared) = Served(s) /\ SinksOf(cleared) \subseteq SinksOf(s)
    BY <1>2, RestoreFacts
  <2>4. /\ s.stop => cleared.stop
        /\ s.releaseFailed => cleared.releaseFailed
    BY <1>2, RestoreFacts
  <2>5. Later(next) = Later(f)
    BY LaterFacts
  <2>6. CASE cleared.own # Nobody
    <3>1. t = cleared
      BY <1>2, <2>6 DEF Activate
    <3> QED
      BY <1>0, <2>1, <2>2, <2>3, <2>4, <3>1 DEF BoundRightly, FilteredRightly, Orderly
  <2>7. CASE cleared.own = Nobody /\ IsSingle(cleared)
    <3>1. t = ApplyTo(cleared, next, calm)
      BY <1>2, <2>7 DEF Activate
    <3> HIDE DEF cleared, next, t
    <3>2. Orderly(t) /\ SameSight(cleared, t)
      BY <2>1, <2>7, <3>1, ApplyToFacts
    <3>3. BoundRightly(t) /\ FilteredRightly(t)
      BY <2>1, <2>7, <3>1, ApplyToFacts
    <3>4. /\ Served(t) = Served(cleared)
          /\ SinksOf(t) \subseteq stranded \/ Benign(Later(next))
      BY <2>1, <2>7, <3>1, ApplyToFacts
    <3>5. /\ cleared.stop => t.stop
          /\ cleared.releaseFailed => t.releaseFailed
      BY <2>1, <2>7, <3>1, ApplyToFacts
    <3> QED
      BY <2>2, <2>3, <2>4, <2>5, <3>2, <3>3, <3>4, <3>5 DEF SameSight, t
  <2>8. CASE cleared.own = Nobody /\ ~IsSingle(cleared)
    <3>1. t = idle
      BY <1>2, <2>8 DEF Activate
    <3>2. cleared \in Listeners
      BY <2>1 DEF Orderly, Lawful
    <3> HIDE DEF cleared, next, t
    <3>a. RetryTicks \in Ages(RetryTicks) /\ Off \in Ages(SettleTicks)
      BY Constants DEF Ages
    <3>3. idle \in Listeners
      BY <3>2, <3>a DEF Listeners
    <3>4. SameMapping(cleared, idle) /\ SameSight(cleared, idle)
      BY <3>2 DEF Listeners, SameMapping, SameSight
    <3>5. /\ idle.applied = cleared.applied /\ idle.restoreAge = cleared.restoreAge
          /\ idle.bound = cleared.bound /\ idle.hold = cleared.hold
          /\ idle.stop = cleared.stop /\ idle.releaseFailed = cleared.releaseFailed
      BY <3>2 DEF Listeners
    <3> HIDE DEF idle
    <3>6. Lawful(idle) /\ Served(idle) = Served(cleared) /\ SinksOf(idle) = SinksOf(cleared)
      BY <2>1, <3>3, <3>4, <3>5, LawMovesAlong DEF Orderly
    <3>7. Orderly(idle) /\ ~idle.applied
      BY <2>1, <3>4, <3>5, <3>6
         DEF Orderly, InSight, Clocked, HeldRightly, SameMapping, SameSight
    <3>8. SameSight(s, idle)
      BY <2>2, <3>4 DEF SameSight
    <3>9. BoundRightly(idle) /\ FilteredRightly(idle)
      BY <3>7 DEF Orderly, BoundRightly, FilteredRightly
    <3> QED
      BY <1>0, <2>3, <2>4, <3>1, <3>5, <3>6, <3>7, <3>8, <3>9 DEF t
  <2> QED
    BY <2>6, <2>7, <2>8
<1> QED
  BY <1>1, <1>2

(* Without a filter nothing is bound to it and nothing is filtered.        *)
LEMMA UnappliedIsRight ==
  ASSUME NEW s, Orderly(s), ~s.applied
  PROVE  BoundRightly(s) /\ FilteredRightly(s)
BY DEF Orderly, BoundRightly, FilteredRightly

(* sync_lifecycle_binding, of an orderly listener.                         *)
LEMMA SyncedIsOrderly ==
  ASSUME Grounds, NEW s, Orderly(s), NEW calm \in BOOLEAN
  PROVE  LET t == SyncBinding(s, calm) IN
         /\ Orderly(t) /\ SameSight(s, t)
         /\ t.own = s.own /\ t.applied = s.applied
         /\ t.stop = s.stop /\ t.releaseFailed = s.releaseFailed
         /\ Served(t) = Served(s) /\ SinksOf(t) = SinksOf(s)
         /\ BoundRightly(t)
         /\ FilteredRightly(s) => FilteredRightly(t)
         /\ t.bound # 0 => s.own \in s.slots
<1> DEFINE t == SyncBinding(s, calm)
<1>0. Lawful(s) /\ InSight(s)
  BY DEF Orderly
<1>1. Lawful(t) /\ SameMapping(s, t) /\ SameSight(s, t)
  BY <1>0, SyncBindingFacts
<1>2. /\ Served(t) = Served(s) /\ SinksOf(t) = SinksOf(s)
      /\ t.applied = s.applied /\ t.restoreAge = s.restoreAge /\ t.retry = s.retry
      /\ t.hold = s.hold /\ t.stop = s.stop /\ t.releaseFailed = s.releaseFailed
  BY <1>0, SyncBindingFacts
<1>3. /\ BoundRightly(t)
      /\ t.bound # 0 => s.own \in s.slots
  BY <1>0, SyncBindingFacts
<1> HIDE DEF t
<1>4. Orderly(t)
  BY <1>1, <1>2, <1>3
     DEF Orderly, InSight, Clocked, HeldRightly, BoundRightly, SameMapping, SameSight
<1>5. FilteredRightly(s) => FilteredRightly(t)
  BY <1>1, <1>2 DEF FilteredRightly, SameMapping, SameSight
<1> QED
  BY <1>1, <1>2, <1>3, <1>4, <1>5 DEF SameMapping, t

(* After device_added the filter is on for the one controller in sight or  *)
(* off, and input is bound only over it.                                   *)
LEMMA AddedFacts ==
  ASSUME Grounds, NEW s, Orderly(s), IsSingle(s) => FilteredRightly(s),
         NEW f, NEW calm \in BOOLEAN
  PROVE  LET t == Added(s, f, calm) IN
         /\ Orderly(t) /\ SameSight(s, t)
         /\ BoundRightly(t) /\ FilteredRightly(t)
         /\ Served(t) = Served(s)
<1> DEFINE t == Added(s, f, calm)
           u == IF ~s.applied THEN Activate(s, f, calm)
                ELSE IF ~IsSingle(s) THEN Restore(s, f, FALSE) ELSE s
<1>1. Orderly(u) /\ SameSight(s, u) /\ Served(u) = Served(s) /\ FilteredRightly(u)
  <2>1. CASE ~s.applied
    <3>1. u = Activate(s, f, calm)
      BY <2>1
    <3> HIDE DEF u
    <3> QED
      BY <2>1, <3>1, ActivateFacts, UnappliedIsRight
  <2>2. CASE s.applied /\ ~IsSingle(s)
    <3>1. u = Restore(s, f, FALSE)
      BY <2>2
    <3> HIDE DEF u
    <3> QED
      BY <2>2, <3>1, RestoreFacts, UnappliedIsRight
  <2>3. CASE s.applied /\ IsSingle(s)
    BY <2>3 DEF SameSight
  <2> QED
    BY <2>1, <2>2, <2>3
<1> HIDE DEF u
<1>2. t = SyncBinding(u, calm)
  BY DEF Added, u
<1> HIDE DEF t
<1>3. Orderly(t) /\ SameSight(u, t) /\ Served(t) = Served(u)
  BY <1>1, <1>2, SyncedIsOrderly
<1>4. BoundRightly(t) /\ FilteredRightly(t)
  BY <1>1, <1>2, SyncedIsOrderly
<1> QED
  BY <1>1, <1>3, <1>4 DEF SameSight, t

(* force_release, of an orderly listener.                                  *)
LEMMA ReleasedIsOrderly ==
  ASSUME NEW s, Orderly(s), NEW f
  PROVE  LET t == ReleaseHold(s, f) IN
         /\ Orderly(t) /\ SameSight(s, t) /\ SameMapping(s, t)
         /\ t.applied = s.applied /\ t.bound = s.bound /\ t.stop = s.stop
         /\ s.releaseFailed => t.releaseFailed
         /\ t.hold => t.releaseFailed
         /\ Served(t) = Served(s)
         /\ BoundRightly(s) => BoundRightly(t)
         /\ FilteredRightly(s) => FilteredRightly(t)
<1> DEFINE t == ReleaseHold(s, f)
<1>0. s \in Listeners /\ Lawful(s)
  BY DEF Orderly, Lawful
<1>1. t \in Listeners /\ SameMapping(s, t) /\ SameSight(s, t)
  BY <1>0, ReleaseHoldFacts
<1>2. /\ t.applied = s.applied /\ t.restoreAge = s.restoreAge /\ t.retry = s.retry
      /\ t.bound = s.bound /\ t.stop = s.stop
      /\ t.hold => t.releaseFailed
      /\ s.releaseFailed => t.releaseFailed
  BY <1>0, ReleaseHoldFacts
<1> HIDE DEF t
<1>3. t.applied => t.active
  BY <1>0, <1>1, <1>2 DEF Lawful, SameMapping
<1>4. Lawful(t) /\ Served(t) = Served(s)
  BY <1>0, <1>1, <1>3, LawMovesAlong
<1>5. Orderly(t)
  BY <1>1, <1>2, <1>4
     DEF Orderly, InSight, Clocked, HeldRightly, SameMapping, SameSight
<1>6. /\ BoundRightly(s) => BoundRightly(t)
      /\ FilteredRightly(s) => FilteredRightly(t)
  BY <1>1, <1>2 DEF BoundRightly, FilteredRightly, SameMapping, SameSight
<1> QED
  BY <1>1, <1>2, <1>4, <1>5, <1>6 DEF t

(* When the keyboard of the filter is gone, its mapping is owed to nobody; *)
(* the filter is off, or on for the next controller, or the listener stops *)
(* because a shortcut is stuck.                                            *)
LEMMA ConfirmRemovedFacts ==
  ASSUME Grounds, NEW s, Orderly(s), s.bound = 0,
         s.own \in Keyboards => plug[s.own] = "OUT",
         NEW f, NEW calm \in BOOLEAN, NEW reapply \in BOOLEAN
  PROVE  LET t == ConfirmRemoved(s, f, calm, reapply) IN
         /\ Orderly(t) /\ SameSight(s, t)
         /\ BoundRightly(t) /\ FilteredRightly(t)
         /\ Served(t) = Served(s)
<1> DEFINE t    == ConfirmRemoved(s, f, calm, reapply)
           free == ReleaseHold(s, f)
           own  == Disown(free)
           gone == [own EXCEPT !.applied = FALSE, !.retry = Off,
                               !.applyAge = Off, !.restoreAge = Off]
           anew == Activate(gone, Later(f), calm)
           held == [free EXCEPT !.stop = TRUE]
<1>1. Orderly(free) /\ SameSight(s, free) /\ SameMapping(s, free)
  BY ReleasedIsOrderly
<1>2. /\ free.bound = 0 /\ Served(free) = Served(s)
      /\ free.hold => free.releaseFailed
  BY ReleasedIsOrderly
<1>3. free \in Listeners /\ Lawful(free)
  BY <1>1 DEF Orderly, Lawful
<1>4. CASE free.hold
  <2>1. t = held
    BY <1>4 DEF ConfirmRemoved
  <2> HIDE DEF free, t
  <2>2. held \in Listeners /\ SameMapping(free, held) /\ SameSight(free, held)
    BY <1>3 DEF Listeners, SameMapping, SameSight
  <2>3. /\ held.applied = free.applied /\ held.restoreAge = free.restoreAge
        /\ held.retry = free.retry /\ held.bound = free.bound
        /\ held.hold = free.hold /\ held.releaseFailed = free.releaseFailed
        /\ held.stop
    BY <1>3 DEF Listeners
  <2> HIDE DEF held
  <2>4. held.applied => held.active
    BY <1>3, <2>2, <2>3 DEF Lawful, SameMapping
  <2>5. Lawful(held) /\ Served(held) = Served(free)
    BY <1>3, <2>2, <2>4, LawMovesAlong
  <2>6. Orderly(held)
    BY <1>1, <2>2, <2>3, <2>5
       DEF Orderly, InSight, Clocked, HeldRightly, SameMapping, SameSight
  <2>7. BoundRightly(held) /\ FilteredRightly(held)
    BY <1>2, <2>3 DEF BoundRightly, FilteredRightly
  <2> QED
    BY <1>1, <1>2, <2>1, <2>2, <2>5, <2>6, <2>7 DEF SameSight, t
<1>5. CASE ~free.hold
  <2> HIDE DEF free
  <2>1. own \in Listeners /\ SameCourse(free, own) /\ own.mapping = free.mapping
        /\ own.own = Nobody /\ ~own.active
    BY <1>3, DisownFacts
  <2> HIDE DEF own
  <2>a. Off \in Ages(SettleTicks) /\ Off \in Ages(RetryTicks)
    BY DEF Ages
  <2>2. gone \in Listeners
    BY <2>1, <2>a DEF Listeners
  <2>3. SameMapping(own, gone) /\ SameSight(own, gone)
    BY <2>1 DEF Listeners, SameMapping, SameSight
  <2>4. /\ ~gone.applied /\ gone.restoreAge = Off /\ gone.retry = Off
        /\ gone.bound = own.bound /\ gone.hold = own.hold
    BY <2>1 DEF Listeners
  <2> HIDE DEF gone
  <2>5. gone.mapping = s.mapping /\ gone.own = Nobody /\ ~gone.active
    BY <1>1, <2>1, <2>3 DEF SameMapping
  <2>6. Lawful(gone) /\ Served(gone) = Served(s)
    BY <2>2, <2>4, <2>5, Constants DEF Orderly, Lawful, Served
  <2>7. SameSight(s, gone)
    BY <1>1, <2>1, <2>3 DEF SameSight, SameCourse
  <2>8. Orderly(gone)
    BY <1>1, <1>2, <1>5, <2>1, <2>4, <2>6, <2>7
       DEF Orderly, InSight, Clocked, HeldRightly, SameSight, SameCourse
  <2>9. BoundRightly(gone) /\ FilteredRightly(gone)
    BY <2>4, <2>8, UnappliedIsRight
  <2>10. Orderly(anew) /\ SameSight(gone, anew) /\ Served(anew) = Served(gone)
    BY <2>8, ActivateFacts
  <2>11. BoundRightly(anew) /\ FilteredRightly(anew)
    BY <2>8, <2>9, ActivateFacts
  <2> HIDE DEF anew
  <2>12. SameSight(s, anew) /\ Served(anew) = Served(s)
    BY <2>6, <2>7, <2>10 DEF SameSight
  <2>13. CASE t \in {gone, anew}
    BY <2>6, <2>7, <2>8, <2>9, <2>10, <2>11, <2>12, <2>13 DEF t
  <2>14. CASE t = [Latch(anew, "DEVICE_UNCERTAIN") EXCEPT !.stop = TRUE]
    <3> DEFINE u == Latch(anew, "DEVICE_UNCERTAIN")
    <3>1. anew \in Listeners /\ Lawful(anew)
      BY <2>10 DEF Orderly, Lawful
    <3>2. u \in Listeners /\ SameMapping(anew, u) /\ SameCourse(anew, u)
      BY <3>1, LatchFacts
    <3> HIDE DEF t, u
    <3>3. t \in Listeners /\ SameMapping(u, t) /\ SameSight(u, t)
      BY <2>14, <3>2 DEF Listeners, SameMapping, SameSight, u
    <3>4. /\ t.applied = u.applied /\ t.restoreAge = u.restoreAge
          /\ t.retry = u.retry /\ t.bound = u.bound
          /\ t.hold = u.hold /\ t.releaseFailed = u.releaseFailed
          /\ t.stop
      BY <2>14, <3>2 DEF Listeners, u
    <3>5. SameMapping(anew, t) /\ SameSight(anew, t)
      BY <3>2, <3>3 DEF SameMapping, SameSight, SameCourse
    <3>6. t.applied => t.active
      BY <3>1, <3>2, <3>4, <3>5 DEF Lawful, SameMapping, SameCourse
    <3>7. Lawful(t) /\ Served(t) = Served(anew)
      BY <3>1, <3>3, <3>5, <3>6, LawMovesAlong
    <3>8. Orderly(t)
      BY <2>10, <3>2, <3>4, <3>5, <3>7
         DEF Orderly, InSight, Clocked, HeldRightly, SameMapping, SameSight, SameCourse
    <3>9. BoundRightly(t) /\ FilteredRightly(t)
      BY <2>11, <3>2, <3>4, <3>5
         DEF BoundRightly, FilteredRightly, SameMapping, SameSight, SameCourse
    <3>10. SameSight(s, t)
      BY <2>12, <3>5 DEF SameSight
    <3> QED
      BY <2>12, <3>7, <3>8, <3>9, <3>10 DEF t
  <2>15. \/ t \in {gone, anew}
         \/ t = [Latch(anew, "DEVICE_UNCERTAIN") EXCEPT !.stop = TRUE]
    BY <1>5 DEF ConfirmRemoved, free, own, gone, anew
  <2> QED
    BY <2>13, <2>14, <2>15
<1> QED
  BY <1>4, <1>5

(* After device_removed the filter is on for the one controller in sight or*)
(* off, or the listener stops; input is bound only over it.                *)
LEMMA RemovedFacts ==
  ASSUME Grounds, NEW s, Orderly(s),
         NEW k, k = Nobody \/ (k \in Keyboards /\ plug[k] = "OUT" /\ k \notin s.slots),
         IsSingle(s) => FilteredRightly(s) \/ k = s.own,
         NEW f, NEW calm \in BOOLEAN
  PROVE  LET t == Removed(s, k, f, calm) IN
         /\ Orderly(t) /\ SameSight(s, t)
         /\ BoundRightly(t) /\ FilteredRightly(t)
         /\ Served(t) = Served(s)
<1> DEFINE t        == Removed(s, k, f, calm)
           fresh    == [s EXCEPT !.applyAge = Off]
           u        == SyncBinding(fresh, calm)
           decision == RemovalDecision(u, k, IsSingle(s))
<1>0. s \in Listeners /\ Lawful(s)
  BY DEF Orderly, Lawful
<1>1. fresh \in Listeners /\ SameMapping(s, fresh) /\ SameSight(s, fresh)
  BY <1>0 DEF Listeners, Ages, SameMapping, SameSight
<1>2. /\ fresh.applied = s.applied /\ fresh.restoreAge = s.restoreAge
      /\ fresh.retry = s.retry /\ fresh.bound = s.bound /\ fresh.hold = s.hold
      /\ fresh.releaseFailed = s.releaseFailed /\ fresh.stop = s.stop
  BY <1>0 DEF Listeners
<1> HIDE DEF fresh
<1>3. fresh.applied => fresh.active
  BY <1>0, <1>1, <1>2 DEF Lawful, SameMapping
<1>4. Lawful(fresh) /\ Served(fresh) = Served(s)
  BY <1>0, <1>1, <1>3, LawMovesAlong
<1>5. Orderly(fresh)
  BY <1>1, <1>2, <1>4
     DEF Orderly, InSight, Clocked, HeldRightly, SameMapping, SameSight
<1>6. Orderly(u) /\ SameSight(fresh, u) /\ Served(u) = Served(fresh)
  BY <1>5, SyncedIsOrderly
<1>7. /\ u.own = s.own /\ u.applied = s.applied /\ u.stop = s.stop
      /\ BoundRightly(u)
      /\ u.bound # 0 => s.own \in s.slots
  <2>1. /\ u.own = fresh.own /\ u.applied = fresh.applied /\ u.stop = fresh.stop
        /\ BoundRightly(u)
        /\ u.bound # 0 => fresh.own \in fresh.slots
    BY <1>5, SyncedIsOrderly
  <2> QED
    BY <1>1, <1>2, <2>1 DEF SameMapping, SameSight
<1> HIDE DEF u
<1>8. SameSight(s, u) /\ Served(u) = Served(s)
  BY <1>1, <1>4, <1>6 DEF SameSight
<1>10. FilteredRightly(s) => FilteredRightly(u)
  BY <1>7, <1>8 DEF FilteredRightly, SameSight
<1>11. decision \in {"CONFIRM_EXACT_TARGET", "CONFIRM_EXACT_TARGET_AND_REAPPLY",
                     "RESTORE_GENERIC", "NONE"}
  BY DEF RemovalDecision
<1>12. CASE decision \in {"CONFIRM_EXACT_TARGET", "CONFIRM_EXACT_TARGET_AND_REAPPLY"}
  <2>1. k = u.own /\ k # Nobody
    BY <1>12 DEF RemovalDecision
  <2>2. u.bound = 0 /\ plug[u.own] = "OUT"
    BY <1>7, <2>1
  <2>3. PICK reapply \in BOOLEAN : t = ConfirmRemoved(u, f, calm, reapply)
    BY <1>12 DEF Removed, u, fresh
  <2> HIDE DEF t
  <2>4. Orderly(t) /\ SameSight(u, t) /\ BoundRightly(t) /\ FilteredRightly(t)
        /\ Served(t) = Served(u)
    BY <1>6, <2>2, <2>3, ConfirmRemovedFacts
  <2> QED
    BY <1>8, <2>4 DEF SameSight, t
<1>13. CASE decision = "RESTORE_GENERIC"
  <2>1. t = Restore(u, f, FALSE)
    BY <1>13 DEF Removed, u, fresh
  <2> HIDE DEF t
  <2>2. Orderly(t) /\ SameSight(u, t) /\ ~t.applied /\ Served(t) = Served(u)
    BY <1>6, <2>1, RestoreFacts
  <2> QED
    BY <1>8, <2>2, UnappliedIsRight DEF SameSight, t
<1>14. CASE decision = "NONE"
  <2>1. t = ReleaseHold(u, f)
    BY <1>14 DEF Removed, u, fresh
  <2>2. /\ k # u.own \/ k = Nobody
        /\ u.applied => IsSingle(s)
    BY <1>14 DEF RemovalDecision
  <2>3. FilteredRightly(u)
    <3>1. u.applied => u.own # Nobody
      BY <1>6 DEF Orderly, Lawful
    <3> QED
      BY <1>7, <1>10, <2>2, <3>1 DEF FilteredRightly
  <2> HIDE DEF t
  <2>4. Orderly(t) /\ SameSight(u, t) /\ Served(t) = Served(u)
        /\ BoundRightly(t) /\ FilteredRightly(t)
    BY <1>6, <1>7, <2>1, <2>3, ReleasedIsOrderly
  <2> QED
    BY <1>8, <2>4 DEF SameSight, t
<1> QED
  BY <1>11, <1>12, <1>13, <1>14

(* update_focus_and_filter keeps what was right.                           *)
LEMMA UpdateFilterFacts ==
  ASSUME Grounds, NEW s, Orderly(s), BoundRightly(s), FilteredRightly(s),
         NEW f, NEW calm \in BOOLEAN
  PROVE  LET t == UpdateFilter(s, f, calm) IN
         /\ Orderly(t) /\ SameSight(s, t)
         /\ BoundRightly(t) /\ FilteredRightly(t)
         /\ Served(t) = Served(s)
         /\ SinksOf(t) \subseteq stranded \cup {s.own} \/ Benign(Later(f))
<1> DEFINE t      == UpdateFilter(s, f, calm)
           wanted == s.allowed /\ IsSingle(s)
           idle   == IF wanted THEN s ELSE [s EXCEPT !.applyAge = Off]
<1>0. s \in Listeners /\ Lawful(s) /\ SinksOf(s) \subseteq stranded \cup {s.own}
  BY DEF Orderly, Lawful, SinksOf
<1>1. idle \in Listeners /\ SameMapping(s, idle) /\ SameSight(s, idle)
  BY <1>0 DEF Listeners, Ages, SameMapping, SameSight
<1>2. /\ idle.applied = s.applied /\ idle.restoreAge = s.restoreAge
      /\ idle.retry = s.retry /\ idle.bound = s.bound /\ idle.hold = s.hold
      /\ idle.releaseFailed = s.releaseFailed /\ idle.stop = s.stop
  BY <1>0 DEF Listeners
<1>3. \/ t = idle
      \/ t = Activate(idle, f, calm)
      \/ t = Restore(idle, f, FALSE)
  BY DEF UpdateFilter
<1> HIDE DEF idle, t
<1>4. idle.applied => idle.active
  BY <1>0, <1>1, <1>2 DEF Lawful, SameMapping
<1>5. Lawful(idle) /\ Served(idle) = Served(s) /\ SinksOf(idle) = SinksOf(s)
  BY <1>0, <1>1, <1>4, LawMovesAlong
<1>6. Orderly(idle)
  BY <1>1, <1>2, <1>5
     DEF Orderly, InSight, Clocked, HeldRightly, SameMapping, SameSight
<1>7. BoundRightly(idle) /\ FilteredRightly(idle) /\ idle.own = s.own
  BY <1>1, <1>2 DEF BoundRightly, FilteredRightly, SameMapping, SameSight
<1>8. CASE t = idle
  BY <1>0, <1>1, <1>5, <1>6, <1>7, <1>8 DEF t
<1>9. CASE t = Activate(idle, f, calm)
  <2>1. Orderly(t) /\ SameSight(idle, t) /\ BoundRightly(t) /\ FilteredRightly(t)
    BY <1>6, <1>7, <1>9, ActivateFacts
  <2>2. /\ Served(t) = Served(idle)
        /\ SinksOf(t) \subseteq stranded \cup {idle.own} \/ Benign(Later(f))
    BY <1>6, <1>9, ActivateFacts
  <2> QED
    BY <1>1, <1>5, <1>7, <2>1, <2>2 DEF SameSight, t
<1>10. CASE t = Restore(idle, f, FALSE)
  <2>1. Orderly(t) /\ SameSight(idle, t) /\ ~t.applied
    BY <1>6, <1>10, RestoreFacts
  <2>2. Served(t) = Served(idle) /\ SinksOf(t) \subseteq SinksOf(idle)
    BY <1>6, <1>10, RestoreFacts
  <2>3. BoundRightly(t) /\ FilteredRightly(t)
    BY <2>1, UnappliedIsRight
  <2> QED
    BY <1>0, <1>1, <1>5, <2>1, <2>2, <2>3 DEF SameSight, t
<1> QED
  BY <1>3, <1>8, <1>9, <1>10

(* Time passes without touching the filter.                                *)
LEMMA ElapseFacts ==
  ASSUME NEW s, Orderly(s), NEW allowed \in BOOLEAN
  PROVE  LET t == [Elapse(s) EXCEPT !.allowed = allowed] IN
         /\ Orderly(t) /\ SameSight(s, t)
         /\ t.own = s.own
         /\ Served(t) = Served(s)
         /\ BoundRightly(s) => BoundRightly(t)
         /\ FilteredRightly(s) => FilteredRightly(t)
<1> DEFINE t           == [Elapse(s) EXCEPT !.allowed = allowed]
           applyAge    == Older(s.applyAge, SettleTicks)
           restoreAge  == Older(s.restoreAge, SettleTicks)
           recoveryAge == IF s.latched THEN Older(s.recoveryAge, RecoveryTicks)
                          ELSE s.recoveryAge
           retry       == IF s.retry \in {0, Off} THEN s.retry ELSE s.retry - 1
<1>0. s \in Listeners
  BY DEF Orderly, Lawful
<1>1. applyAge \in Ages(SettleTicks)
  BY <1>0, Constants DEF Listeners, Ages, Older, Off
<1>2. restoreAge \in Ages(SettleTicks) /\ (s.restoreAge = Off => restoreAge = Off)
  BY <1>0, Constants DEF Listeners, Ages, Older, Off
<1>3. recoveryAge \in 0..RecoveryTicks
  BY <1>0, Constants DEF Listeners, Older, Off
<1>4. retry \in Ages(RetryTicks) /\ (s.retry = Off => retry = Off)
  BY <1>0, Constants DEF Listeners, Ages, Off
<1>5. t = [s EXCEPT !.applyAge = applyAge, !.restoreAge = restoreAge,
                    !.recoveryAge = recoveryAge, !.retry = retry,
                    !.allowed = allowed]
  BY <1>0 DEF Elapse, Listeners
<1> HIDE DEF t, applyAge, restoreAge, recoveryAge, retry
<1>6. t \in Listeners
  BY <1>0, <1>1, <1>2, <1>3, <1>4, <1>5 DEF Listeners
<1>7. SameMapping(s, t) /\ SameSight(s, t)
  BY <1>0, <1>5 DEF Listeners, SameMapping, SameSight
<1>8. /\ t.applied = s.applied /\ t.restoreAge = restoreAge /\ t.retry = retry
      /\ t.bound = s.bound /\ t.hold = s.hold
      /\ t.releaseFailed = s.releaseFailed /\ t.stop = s.stop
  BY <1>0, <1>5 DEF Listeners
<1>9. t.applied => t.active
  BY <1>7, <1>8 DEF Orderly, Lawful, SameMapping
<1>10. Lawful(t) /\ Served(t) = Served(s)
  BY <1>6, <1>7, <1>9, LawMovesAlong DEF Orderly
<1>11. Orderly(t)
  BY <1>2, <1>4, <1>7, <1>8, <1>10
     DEF Orderly, InSight, Clocked, HeldRightly, SameMapping, SameSight
<1>12. /\ BoundRightly(s) => BoundRightly(t)
       /\ FilteredRightly(s) => FilteredRightly(t)
  BY <1>7, <1>8 DEF BoundRightly, FilteredRightly, SameMapping, SameSight
<1> QED
  BY <1>7, <1>10, <1>11, <1>12 DEF SameMapping, t

(* Reporting a recovery touches no mapping.                                *)
LEMMA EmitRecoveryFacts ==
  ASSUME NEW s, Orderly(s)
  PROVE  LET t == EmitRecovery(s) IN
         /\ Orderly(t) /\ SameSight(s, t)
         /\ Served(t) = Served(s) /\ SinksOf(t) = SinksOf(s)
         /\ BoundRightly(s) => BoundRightly(t)
         /\ FilteredRightly(s) => FilteredRightly(t)
<1> DEFINE t       == EmitRecovery(s)
           outcome == RecoveryOutcome(s)
           stop    == s.stop \/ outcome # "NONE"
<1>0. s \in Listeners /\ Lawful(s)
  BY DEF Orderly, Lawful
<1>1. /\ t \in Listeners /\ SameMapping(s, t) /\ SameSight(s, t)
      /\ t.applied = s.applied /\ t.restoreAge = s.restoreAge
      /\ t.retry = s.retry /\ t.bound = s.bound /\ t.hold = s.hold
      /\ t.releaseFailed = s.releaseFailed
      /\ s.stop => t.stop
  <2>1. CASE ~s.latched \/ s.outcome # "NONE"
    BY <1>0, <2>1 DEF EmitRecovery, SameMapping, SameSight
  <2>2. CASE ~(~s.latched \/ s.outcome # "NONE")
    <3>1. outcome \in {"NONE", "SUCCESS", "NEUTRAL_ENTRY_PENDING", "FAILURE"}
      BY DEF RecoveryOutcome
    <3>2. t = [s EXCEPT !.outcome = outcome, !.stop = stop]
      BY <1>0, <2>2 DEF EmitRecovery, Listeners
    <3>3. stop \in BOOLEAN
      BY <1>0 DEF Listeners
    <3> HIDE DEF t, outcome
    <3>4. t \in Listeners
      BY <1>0, <3>1, <3>2, <3>3 DEF Listeners
    <3>5. SameMapping(s, t) /\ SameSight(s, t)
      BY <1>0, <3>2 DEF Listeners, SameMapping, SameSight
    <3>6. /\ t.applied = s.applied /\ t.restoreAge = s.restoreAge
          /\ t.retry = s.retry /\ t.bound = s.bound /\ t.hold = s.hold
          /\ t.releaseFailed = s.releaseFailed
          /\ s.stop => t.stop
      BY <1>0, <3>2 DEF Listeners
    <3> QED
      BY <3>4, <3>5, <3>6
  <2> QED
    BY <2>1, <2>2
<1> HIDE DEF t
<1>2. t.applied => t.active
  BY <1>0, <1>1 DEF Lawful, SameMapping
<1>3. Lawful(t) /\ Served(t) = Served(s) /\ SinksOf(t) = SinksOf(s)
  BY <1>0, <1>1, <1>2, LawMovesAlong
<1>4. Orderly(t)
  BY <1>1, <1>3 DEF Orderly, InSight, Clocked, HeldRightly, SameMapping, SameSight
<1>5. /\ BoundRightly(s) => BoundRightly(t)
      /\ FilteredRightly(s) => FilteredRightly(t)
  BY <1>1 DEF BoundRightly, FilteredRightly, SameMapping, SameSight
<1> QED
  BY <1>1, <1>3, <1>4, <1>5 DEF t

(* The end of main: nothing swallows that did not before, a CLEAN exit owes*)
(* nothing and holds nothing, and an end without a fault of the mappings   *)
(* owes nothing.                                                           *)
LEMMA LeftFacts ==
  ASSUME Grounds, NEW s, Orderly(s), NEW f
  PROVE  LET t == Left(s, f) IN
         /\ Lawful(t)
         /\ Served(t) = Served(s)
         /\ SinksOf(t) \subseteq SinksOf(s)
         /\ t.exit \in {"CLEAN", "FAILED"}
         /\ t.exit = "CLEAN" => t.own = Nobody /\ ~t.hold
         /\ Benign(f) => t.own = Nobody
<1> DEFINE t      == Left(s, f)
           last   == Restore(s, f, TRUE)
           uncertain == Latch(Error(last), "DEVICE_UNCERTAIN")
           closed == IF f.kind # "CLOSE" THEN last
                     ELSE [uncertain EXCEPT !.releaseFailed = TRUE]
           final  == RestoreMapping(closed, Later(f))
           exit   == IF closed.releaseFailed THEN "FAILED" ELSE "CLEAN"
<1>1. Orderly(last) /\ ~last.applied
  BY RestoreFacts
<1>2. Served(last) = Served(s) /\ SinksOf(last) \subseteq SinksOf(s)
  BY RestoreFacts
<1>3. /\ last.own = Nobody \/ last.releaseFailed
      /\ Benign(f) => last.own = Nobody
  BY RestoreFacts
<1> HIDE DEF last
<1>4. last \in Listeners /\ Lawful(last)
  BY <1>1 DEF Orderly, Lawful
<1>5. /\ closed \in Listeners /\ SameMapping(last, closed)
      /\ ~closed.applied /\ closed.hold = last.hold
      /\ last.releaseFailed => closed.releaseFailed
  <2>1. CASE f.kind # "CLOSE"
    BY <1>1, <1>4, <2>1 DEF SameMapping
  <2>2. CASE f.kind = "CLOSE"
    <3>1. uncertain \in Listeners /\ SameMapping(last, uncertain)
          /\ SameCourse(last, uncertain)
      BY <1>4, ErrorFacts, LatchFacts DEF SameMapping, SameCourse, SameSight
    <3> HIDE DEF uncertain
    <3>2. closed = [uncertain EXCEPT !.releaseFailed = TRUE]
      BY <2>2
    <3> HIDE DEF closed
    <3>3. closed \in Listeners /\ SameMapping(uncertain, closed)
      BY <3>1, <3>2 DEF Listeners, SameMapping
    <3>4. closed.applied = uncertain.applied /\ closed.hold = uncertain.hold
          /\ closed.releaseFailed
      BY <3>1, <3>2 DEF Listeners
    <3> QED
      BY <1>1, <3>1, <3>3, <3>4 DEF SameMapping, SameCourse
  <2> QED
    BY <2>1, <2>2
<1>6. t = [final EXCEPT !.running = FALSE, !.exit = exit]
  BY DEF Left, last
<1> HIDE DEF closed, t
<1>7. Lawful(closed) /\ Served(closed) = Served(last) /\ SinksOf(closed) = SinksOf(last)
  BY <1>4, <1>5, LawMovesAlong
<1>8. /\ Lawful(final) /\ ~final.active /\ SameCourse(closed, final)
  BY <1>5, <1>7, RestoreMappingFacts
<1>9. /\ Served(final) = Served(closed)
      /\ SinksOf(final) \subseteq SinksOf(closed)
      /\ final.own \in {closed.own, Nobody}
  BY <1>5, <1>7, RestoreMappingFacts
<1> HIDE DEF final
<1>10. final \in Listeners /\ exit \in {"CLEAN", "FAILED"}
  BY <1>8 DEF Lawful
<1>11. exit = "CLEAN" => ~closed.releaseFailed
  OBVIOUS
<1> HIDE DEF exit
<1>12. t \in Listeners /\ SameMapping(final, t)
  BY <1>6, <1>10 DEF Listeners, SameMapping
<1>13. t.applied = final.applied /\ t.hold = final.hold /\ t.exit = exit
  BY <1>6, <1>10 DEF Listeners
<1>14. ~t.applied /\ t.own = final.own
  BY <1>5, <1>8, <1>12, <1>13 DEF SameCourse, SameMapping
<1>15. Lawful(t) /\ Served(t) = Served(final) /\ SinksOf(t) = SinksOf(final)
  BY <1>8, <1>12, <1>14, LawMovesAlong
<1>16. Benign(f) => t.own = Nobody
  BY <1>3, <1>5, <1>9, <1>14 DEF SameMapping
<1>17. ASSUME exit = "CLEAN"
       PROVE  t.own = Nobody /\ ~t.hold
  <2>1. ~closed.releaseFailed /\ ~last.releaseFailed
    BY <1>5, <1>11, <1>17
  <2>2. closed.own = Nobody
    BY <1>3, <1>5, <2>1 DEF SameMapping
  <2>3. ~closed.hold
    BY <1>1, <1>5, <2>1 DEF Orderly, HeldRightly
  <2> QED
    BY <1>8, <1>9, <1>13, <1>14, <2>2, <2>3 DEF SameCourse
<1> QED
  BY <1>2, <1>7, <1>9, <1>10, <1>13, <1>15, <1>16, <1>17 DEF t

-----------------------------------------------------------------------------
(* The inductive invariant. Lawful is what the safety properties need: it  *)
(* bounds which keyboards may swallow keys by what is owned and what was   *)
(* stranded before. Clocked and the rest are what the functions rely on.   *)
FilterInv ==
  /\ Grounds
  /\ Lawful(st)
  /\ InSight(st)
  /\ Clocked(st)
  /\ BoundRightly(st)
  /\ FilteredRightly(st)
  /\ st.running => HeldRightly(st)
  /\ ~st.running => st.own = Nobody
  /\ \A k \in Keyboards : plug[k] = "NEW" => st.mapping[k] = "NONE"
  /\ stranded \subseteq Swallowing(st)

-----------------------------------------------------------------------------

(* A running listener is in order when an event reaches it.                *)
LEMMA RunningIsOrderly ==
  ASSUME FilterInv, st.running
  PROVE  Orderly(st)
BY DEF FilterInv, Orderly, BoundRightly

(* Order is about the filter, its clocks and the held shortcut.            *)
LEMMA OrderMovesAlong ==
  ASSUME NEW s, Orderly(s), NEW t \in Listeners, SameMapping(s, t), InSight(t),
         t.applied = s.applied, t.restoreAge = s.restoreAge, t.retry = s.retry,
         t.bound = s.bound,
         t.hold => s.hold \/ t.applied,
         t.releaseFailed = s.releaseFailed
  PROVE  Orderly(t) /\ Served(t) = Served(s)
<1>1. t.applied => t.active
  BY DEF Orderly, Lawful, SameMapping
<1>2. Lawful(t) /\ Served(t) = Served(s)
  BY <1>1, LawMovesAlong DEF Orderly
<1> QED
  BY <1>2 DEF Orderly, Clocked, HeldRightly, SameMapping

(* A device callback that fails only reports it, or stops the listener.    *)
LEMMA FailingIsOrderly ==
  ASSUME NEW s, Orderly(s), BoundRightly(s), FilteredRightly(s),
         NEW t \in {Fatal(s), Error(s)}
  PROVE  /\ Orderly(t) /\ SameSight(s, t)
         /\ BoundRightly(t) /\ FilteredRightly(t)
         /\ Served(t) = Served(s)
<1>0. s \in Listeners
  BY DEF Orderly, Lawful
<1>1. t \in Listeners /\ SameMapping(s, t) /\ SameSight(s, t)
  BY <1>0, FatalFacts, ErrorFacts DEF SameCourse
<1>2. /\ t.applied = s.applied /\ t.restoreAge = s.restoreAge
      /\ t.retry = s.retry /\ t.bound = s.bound /\ t.hold = s.hold
      /\ t.releaseFailed = s.releaseFailed
      /\ s.stop => t.stop
  <2>1. CASE t = Fatal(s)
    BY <1>0, <2>1, FatalFacts
  <2>2. CASE t = Error(s)
    BY <1>0, <2>2, ErrorFacts DEF SameCourse
  <2> QED
    BY <2>1, <2>2
<1>3. Orderly(t) /\ Served(t) = Served(s)
  BY <1>1, <1>2, OrderMovesAlong DEF Orderly, InSight, SameSight
<1> QED
  BY <1>1, <1>2, <1>3 DEF BoundRightly, FilteredRightly, SameMapping, SameSight

(* No keyboard has a mapping before it was plugged in.                     *)
LEMMA SwallowingIsSinks ==
  ASSUME FilterInv, NEW s, Served(s) = Served(st)
  PROVE  Swallowing(s) = SinksOf(s)
BY DEF FilterInv, Grounds, Served, Swallowing, SinksOf

(* A step to a listener in order keeps the invariant.                      *)
LEMMA StepsKeepInv ==
  ASSUME FilterInv, NEW next, Steps(next),
         Orderly(next), BoundRightly(next), FilteredRightly(next),
         next.running, Served(next) = Served(st)
  PROVE  FilterInv'
<1>1. Swallowing(next) = SinksOf(next)
  BY SwallowingIsSinks
<1>2. /\ st' = next /\ plug' = plug /\ at' = at /\ due' = due
      /\ stranded' = (stranded \cap SinksOf(next)) \ {next.own}
  BY <1>1 DEF Steps, world
<1>3. Grounds'
  BY <1>2 DEF FilterInv, Grounds
<1>4. Lawful(st)'
  BY <1>2 DEF Orderly, Lawful, SinksOf
<1>5. InSight(st)' /\ Clocked(st)'
  BY <1>2 DEF Orderly, InSight, Clocked
<1>6. BoundRightly(st)' /\ FilteredRightly(st)'
  BY <1>2 DEF BoundRightly, FilteredRightly
<1>7. HeldRightly(st)' /\ st'.running
  BY <1>2 DEF Orderly, HeldRightly
<1>8. \A k \in Keyboards : plug'[k] = "NEW" => st'.mapping[k] = "NONE"
  BY <1>2 DEF FilterInv, Served
<1>9. stranded' \subseteq Swallowing(st)'
  BY <1>1, <1>2 DEF Swallowing
<1> QED
  BY <1>3, <1>4, <1>5, <1>6, <1>7, <1>8, <1>9 DEF FilterInv

(* What a step writes is a service of the lease: to the keyboard that is   *)
(* owned after it.                                                         *)
LEMMA StepsServe ==
  ASSUME FilterInv, NEW next, Steps(next), Lawful(next), Served(next) = Served(st)
  PROVE  next.own \in Keyboards \cup {Nobody} /\ Lease!Serve(next.own)
<1> DEFINE before == [k \in Keyboards |->
                        IF plug[k] = "OUT" THEN "NONE" ELSE st.mapping[k]]
           after  == [k \in Keyboards |->
                        IF plug[k] = "OUT" THEN "NONE" ELSE next.mapping[k]]
<1>1. Swallowing(next) = SinksOf(next)
  BY SwallowingIsSinks
<1>2. /\ st' = next /\ plug' = plug /\ at' = at /\ due' = due
      /\ stranded' = (stranded \cap SinksOf(next)) \ {next.own}
  BY <1>1 DEF Steps, world
<1>3. next \in Listeners /\ next.own \in Keyboards \cup {Nobody}
  BY DEF Lawful, Listeners
<1>4. {k \in Keyboards : after[k] = "SINK"} = SinksOf(next)
  BY DEF SinksOf
<1>5. SinksOf(next) \subseteq stranded \cup {next.own}
  BY DEF Lawful, SinksOf
<1>6. after \in [Keyboards -> {"EMPTY", "USER"} \cup {"NONE", "SINK"}]
  BY <1>3 DEF Listeners, Mappings
<1>7. \A k \in Keyboards :
        after[k] = before[k] \/ (before[k] # "NONE" /\ after[k] \in {"SINK", due[k]})
  BY DEF Lawful, Served
<1> HIDE DEF before, after
<1>8. Lease!Serve(next.own)
      <=> /\ after \in [Keyboards -> {"EMPTY", "USER"} \cup {"NONE", "SINK"}]
          /\ \A k \in Keyboards :
               after[k] = before[k]
                 \/ (before[k] # "NONE" /\ after[k] \in {"SINK", due[k]})
          /\ {k \in Keyboards : after[k] = "SINK"} \subseteq stranded \cup {next.own}
          /\ st'.own = next.own
          /\ stranded' = (stranded \cap {k \in Keyboards : after[k] = "SINK"}) \ {next.own}
          /\ due' = due
  BY <1>2 DEF Lease!Serve, Lease!Written, Lease!Swallowing, Lease!Mappings,
              Lease!UserMappings, before, after
<1> QED
  BY <1>2, <1>3, <1>4, <1>5, <1>6, <1>7, <1>8

(* A lawful end keeps the invariant: whatever it left swallowing is        *)
(* stranded from then on.                                                  *)
LEMMA EndsKeepInv ==
  ASSUME FilterInv, NEW next, Ends(next), Lawful(next), Served(next) = Served(st)
  PROVE  FilterInv'
<1>1. Swallowing(next) = SinksOf(next)
  BY SwallowingIsSinks
<1>2. /\ plug' = plug /\ at' = at
      /\ stranded' = SinksOf(next)
      /\ due' = [k \in Keyboards |-> IF k \in stranded' THEN "EMPTY" ELSE due[k]]
  BY <1>1 DEF Ends, world
<1>3. next \in Listeners
  BY DEF Lawful
<1>4. st' \in Listeners
  <2>1. /\ Off \in Ages(SettleTicks) /\ Off \in Ages(RetryTicks)
        /\ 0 \in 0..RecoveryTicks
    BY Constants DEF Ages
  <2>2. next.mapping \in Mappings /\ next.hold \in BOOLEAN
        /\ next.exit \in {"NONE", "CLEAN", "FAILED", "KILLED"}
    BY <1>3 DEF Listeners
  <2> QED
    BY <2>1, <2>2 DEF Ends, Started, Listeners
<1>5. /\ st'.mapping = next.mapping /\ ~st'.running
      /\ st'.slots = {} /\ st'.sticks = {} /\ st'.bound = 0
      /\ ~st'.applied /\ ~st'.active /\ st'.own = Nobody
      /\ st'.restoreAge = Off /\ st'.retry = Off
  BY DEF Ends, Started
<1>6. Grounds'
  BY <1>2 DEF FilterInv, Grounds, SinksOf
<1>7. Lawful(st)'
  <2>1. \A k \in Keyboards : plug'[k] # "OUT" =>
          /\ st'.mapping[k] \in {"NONE", "SINK", due'[k]}
          /\ st'.mapping[k] = "SINK" => k \in stranded'
          /\ k # st'.own
    BY <1>2, <1>5, Constants DEF Lawful, SinksOf
  <2> QED
    BY <1>4, <1>5, <2>1 DEF Lawful
<1>8. InSight(st)' /\ Clocked(st)'
  BY <1>5, FS_EmptySet DEF InSight, Clocked
<1>9. BoundRightly(st)' /\ FilteredRightly(st)'
  BY <1>5 DEF BoundRightly, FilteredRightly
<1>10. \A k \in Keyboards : plug'[k] = "NEW" => st'.mapping[k] = "NONE"
  BY <1>2, <1>5 DEF FilterInv, Served
<1>11. stranded' \subseteq Swallowing(st)'
  BY <1>1, <1>2, <1>5 DEF Swallowing
<1> QED
  BY <1>5, <1>6, <1>7, <1>8, <1>9, <1>10, <1>11 DEF FilterInv

(* An end that leaves no other keyboard swallowing than the one that was   *)
(* owned is the end of the lease.                                          *)
LEMMA EndsEnd ==
  ASSUME FilterInv, NEW next, Ends(next), Lawful(next), Served(next) = Served(st),
         SinksOf(next) \subseteq stranded \cup {st.own}
  PROVE  Lease!End
<1> DEFINE before == [k \in Keyboards |->
                        IF plug[k] = "OUT" THEN "NONE" ELSE st.mapping[k]]
           after  == [k \in Keyboards |->
                        IF plug[k] = "OUT" THEN "NONE" ELSE next.mapping[k]]
<1>1. Swallowing(next) = SinksOf(next)
  BY SwallowingIsSinks
<1>2. /\ plug' = plug /\ at' = at
      /\ stranded' = SinksOf(next)
      /\ due' = [k \in Keyboards |-> IF k \in stranded' THEN "EMPTY" ELSE due[k]]
      /\ st'.mapping = next.mapping /\ st'.own = Nobody
  BY <1>1 DEF Ends, Started, world
<1>3. next \in Listeners
  BY DEF Lawful
<1>4. {k \in Keyboards : after[k] = "SINK"} = SinksOf(next)
  BY DEF SinksOf
<1>5. after \in [Keyboards -> {"EMPTY", "USER"} \cup {"NONE", "SINK"}]
  BY <1>3 DEF Listeners, Mappings
<1>6. \A k \in Keyboards :
        after[k] = before[k] \/ (before[k] # "NONE" /\ after[k] \in {"SINK", due[k]})
  BY DEF Lawful, Served
<1> HIDE DEF before, after
<1>7. Lease!End
      <=> /\ after \in [Keyboards -> {"EMPTY", "USER"} \cup {"NONE", "SINK"}]
          /\ \A k \in Keyboards :
               after[k] = before[k]
                 \/ (before[k] # "NONE" /\ after[k] \in {"SINK", due[k]})
          /\ {k \in Keyboards : after[k] = "SINK"} \subseteq stranded \cup {st.own}
          /\ st'.own = Nobody
          /\ stranded' = {k \in Keyboards : after[k] = "SINK"}
          /\ due' = [k \in Keyboards |-> IF k \in stranded' THEN "EMPTY" ELSE due[k]]
  BY <1>2 DEF Lease!End, Lease!Written, Lease!Swallowing, Lease!Mappings,
              Lease!UserMappings, before, after
<1> QED
  BY <1>2, <1>4, <1>5, <1>6, <1>7

-----------------------------------------------------------------------------

(* A step of the listener that leaves it in order.                         *)
StepsRightly ==
  \E next : /\ Steps(next)
            /\ Orderly(next) /\ BoundRightly(next) /\ FilteredRightly(next)
            /\ next.running /\ Served(next) = Served(st)

(* An end of the listener that leaves no keyboard swallowing but those     *)
(* that did, the one it owned, and none at all if it is clean.             *)
EndsRightly ==
  \E next : /\ Ends(next)
            /\ Lawful(next) /\ Served(next) = Served(st)
            /\ SinksOf(next) \subseteq stranded \cup {st.own}
            /\ next.exit = "CLEAN" => next.own = Nobody /\ ~next.hold

(* device_added of a keyboard: if two halves of one controller are in      *)
(* sight after it, no filter was on before.                                *)
LEMMA KeyboardAddedFacts ==
  ASSUME FilterInv, NEW k \in Keyboards, KeyboardAdded(k)
  PROVE  StepsRightly
<1> USE DEF StepsRightly
<1> DEFINE s == [st EXCEPT !.slots = @ \cup {k}]
<1>1. /\ st.running /\ Orderly(st) /\ k \notin st.slots
      /\ Grounds /\ BoundRightly(st) /\ FilteredRightly(st)
  BY RunningIsOrderly DEF KeyboardAdded, FilterInv
<1>2. st \in Listeners /\ InSight(st)
  BY <1>1 DEF Orderly, Lawful
<1>3. s \in Listeners /\ SameMapping(st, s) /\ s.running = st.running
  BY <1>2 DEF Listeners, SameMapping
<1>4. /\ s.slots = st.slots \cup {k} /\ s.sticks = st.sticks
      /\ s.applied = st.applied /\ s.restoreAge = st.restoreAge
      /\ s.retry = st.retry /\ s.bound = st.bound /\ s.hold = st.hold
      /\ s.releaseFailed = st.releaseFailed /\ s.stop = st.stop
  BY <1>2 DEF Listeners
<1>5. PICK f, calm :
        /\ calm \in BOOLEAN
        /\ Steps(CASE f.kind = "CALLBACK" -> Fatal(st)
                   [] f.kind = "MEMORY" -> Error(st)
                   [] OTHER -> Added(s, f, calm))
  BY DEF KeyboardAdded
<1> HIDE DEF s
<1>6. InSight(s)
  BY <1>2, <1>4, FS_AddElement DEF InSight
<1>7. Orderly(s) /\ Served(s) = Served(st)
  BY <1>1, <1>3, <1>4, <1>6, OrderMovesAlong
<1>8. ASSUME IsSingle(s)
      PROVE  FilteredRightly(s)
  <2>1. PICK j \in Keyboards : s.slots = {j} /\ s.sticks = {at[j]}
    BY <1>1, <1>3, <1>6, <1>8, SingleIsOneController
  <2>2. st.slots = {}
    BY <1>1, <1>4, <2>1
  <2> QED
    BY <1>1, <1>4, <2>2 DEF FilteredRightly
<1>9. CASE f.kind = "CALLBACK"
  BY <1>1, <1>5, <1>9, FailingIsOrderly DEF SameSight
<1>10. CASE f.kind = "MEMORY"
  BY <1>1, <1>5, <1>10, FailingIsOrderly DEF SameSight
<1>11. CASE f.kind \notin {"CALLBACK", "MEMORY"}
  <2>1. Steps(Added(s, f, calm))
    BY <1>5, <1>11
  <2>2. /\ Orderly(Added(s, f, calm)) /\ SameSight(s, Added(s, f, calm))
        /\ BoundRightly(Added(s, f, calm)) /\ FilteredRightly(Added(s, f, calm))
        /\ Served(Added(s, f, calm)) = Served(s)
    BY <1>1, <1>5, <1>7, <1>8, AddedFacts
  <2> QED
    BY <1>1, <1>3, <1>7, <2>1, <2>2 DEF SameSight
<1> QED
  BY <1>9, <1>10, <1>11

(* device_added of a joystick.                                             *)
LEMMA JoystickAddedFacts ==
  ASSUME FilterInv, NEW l \in Locations, JoystickAdded(l)
  PROVE  StepsRightly
<1> USE DEF StepsRightly
<1> DEFINE s == [st EXCEPT !.sticks = @ \cup {l}]
<1>1. /\ st.running /\ Orderly(st) /\ l \notin st.sticks
      /\ Grounds /\ BoundRightly(st) /\ FilteredRightly(st)
  BY RunningIsOrderly DEF JoystickAdded, FilterInv
<1>2. st \in Listeners /\ InSight(st)
  BY <1>1 DEF Orderly, Lawful
<1>3. s \in Listeners /\ SameMapping(st, s) /\ s.running = st.running
  BY <1>2 DEF Listeners, SameMapping
<1>4. /\ s.slots = st.slots /\ s.sticks = st.sticks \cup {l}
      /\ s.applied = st.applied /\ s.restoreAge = st.restoreAge
      /\ s.retry = st.retry /\ s.bound = st.bound /\ s.hold = st.hold
      /\ s.releaseFailed = st.releaseFailed /\ s.stop = st.stop
  BY <1>2 DEF Listeners
<1>5. PICK f, calm :
        /\ calm \in BOOLEAN
        /\ Steps(CASE f.kind = "CALLBACK" -> Fatal(st)
                   [] f.kind = "MEMORY" -> Error(st)
                   [] OTHER -> Added(s, f, calm))
  BY DEF JoystickAdded
<1> HIDE DEF s
<1>6. InSight(s)
  BY <1>2, <1>4, FS_AddElement DEF InSight
<1>7. Orderly(s) /\ Served(s) = Served(st)
  BY <1>1, <1>3, <1>4, <1>6, OrderMovesAlong
<1>8. ASSUME IsSingle(s)
      PROVE  FilteredRightly(s)
  <2>1. PICK j \in Keyboards : s.slots = {j} /\ s.sticks = {at[j]}
    BY <1>1, <1>3, <1>6, <1>8, SingleIsOneController
  <2>2. st.sticks = {}
    BY <1>1, <1>4, <2>1
  <2> QED
    BY <1>1, <1>4, <2>2 DEF FilteredRightly
<1>9. CASE f.kind = "CALLBACK"
  BY <1>1, <1>5, <1>9, FailingIsOrderly DEF SameSight
<1>10. CASE f.kind = "MEMORY"
  BY <1>1, <1>5, <1>10, FailingIsOrderly DEF SameSight
<1>11. CASE f.kind \notin {"CALLBACK", "MEMORY"}
  <2>1. Steps(Added(s, f, calm))
    BY <1>5, <1>11
  <2>2. /\ Orderly(Added(s, f, calm)) /\ SameSight(s, Added(s, f, calm))
        /\ BoundRightly(Added(s, f, calm)) /\ FilteredRightly(Added(s, f, calm))
        /\ Served(Added(s, f, calm)) = Served(s)
    BY <1>1, <1>5, <1>7, <1>8, AddedFacts
  <2> QED
    BY <1>1, <1>3, <1>7, <2>1, <2>2 DEF SameSight
<1> QED
  BY <1>9, <1>10, <1>11

(* device_removed of a keyboard: a filter was on for this one, or the      *)
(* listener is stopping.                                                   *)
LEMMA KeyboardRemovedFacts ==
  ASSUME FilterInv, NEW k \in Keyboards, KeyboardRemoved(k)
  PROVE  StepsRightly
<1> USE DEF StepsRightly
<1> DEFINE s == [st EXCEPT !.slots = @ \ {k}]
<1>1. /\ st.running /\ Orderly(st) /\ k \in st.slots /\ plug[k] = "OUT"
      /\ Grounds /\ BoundRightly(st) /\ FilteredRightly(st)
  BY RunningIsOrderly DEF KeyboardRemoved, FilterInv
<1>2. st \in Listeners /\ InSight(st)
  BY <1>1 DEF Orderly, Lawful
<1>3. s \in Listeners /\ SameMapping(st, s) /\ s.running = st.running
  BY <1>2 DEF Listeners, SameMapping
<1>4. /\ s.slots = st.slots \ {k} /\ s.sticks = st.sticks
      /\ s.applied = st.applied /\ s.restoreAge = st.restoreAge
      /\ s.retry = st.retry /\ s.bound = st.bound /\ s.hold = st.hold
      /\ s.releaseFailed = st.releaseFailed /\ s.stop = st.stop
  BY <1>2 DEF Listeners
<1>5. PICK f, calm :
        /\ calm \in BOOLEAN
        /\ Steps(IF f.kind = "CALLBACK" THEN Fatal(st) ELSE Removed(s, k, f, calm))
  BY DEF KeyboardRemoved
<1> HIDE DEF s
<1>6. InSight(s)
  BY <1>2, <1>4, FS_Subset DEF InSight
<1>7. Orderly(s) /\ Served(s) = Served(st)
  BY <1>1, <1>3, <1>4, <1>6, OrderMovesAlong
<1>8. FilteredRightly(s) \/ k = s.own
  BY <1>1, <1>3, <1>4 DEF FilteredRightly, SameMapping
<1>9. CASE f.kind = "CALLBACK"
  BY <1>1, <1>5, <1>9, FailingIsOrderly DEF SameSight
<1>10. CASE f.kind # "CALLBACK"
  <2>1. Steps(Removed(s, k, f, calm))
    BY <1>5, <1>10
  <2>2. /\ Orderly(Removed(s, k, f, calm)) /\ SameSight(s, Removed(s, k, f, calm))
        /\ BoundRightly(Removed(s, k, f, calm)) /\ FilteredRightly(Removed(s, k, f, calm))
        /\ Served(Removed(s, k, f, calm)) = Served(s)
    BY <1>1, <1>4, <1>5, <1>7, <1>8, RemovedFacts
  <2> QED
    BY <1>1, <1>3, <1>7, <2>1, <2>2 DEF SameSight
<1> QED
  BY <1>9, <1>10

(* device_removed of a joystick: the controller of a filter that was on is *)
(* not complete any more.                                                  *)
LEMMA JoystickRemovedFacts ==
  ASSUME FilterInv, NEW l \in Locations, JoystickRemoved(l)
  PROVE  StepsRightly
<1> USE DEF StepsRightly
<1> DEFINE s == [st EXCEPT !.sticks = @ \ {l}]
<1>1. /\ st.running /\ Orderly(st) /\ l \in st.sticks
      /\ Grounds /\ BoundRightly(st) /\ FilteredRightly(st)
  BY RunningIsOrderly DEF JoystickRemoved, FilterInv
<1>2. st \in Listeners /\ InSight(st)
  BY <1>1 DEF Orderly, Lawful
<1>3. s \in Listeners /\ SameMapping(st, s) /\ s.running = st.running
  BY <1>2 DEF Listeners, SameMapping
<1>4. /\ s.slots = st.slots /\ s.sticks = st.sticks \ {l}
      /\ s.applied = st.applied /\ s.restoreAge = st.restoreAge
      /\ s.retry = st.retry /\ s.bound = st.bound /\ s.hold = st.hold
      /\ s.releaseFailed = st.releaseFailed /\ s.stop = st.stop
  BY <1>2 DEF Listeners
<1>5. PICK f :
        Steps(IF f.kind = "CALLBACK" THEN Fatal(st) ELSE Removed(s, Nobody, f, FALSE))
  BY DEF JoystickRemoved
<1> HIDE DEF s
<1>6. InSight(s)
  BY <1>2, <1>4, FS_Subset DEF InSight
<1>7. Orderly(s) /\ Served(s) = Served(st)
  BY <1>1, <1>3, <1>4, <1>6, OrderMovesAlong
<1>8. ASSUME IsSingle(s)
      PROVE  FilteredRightly(s)
  <2>1. PICK j \in Keyboards : s.slots = {j} /\ s.sticks = {at[j]}
    BY <1>1, <1>3, <1>6, <1>8, SingleIsOneController
  <2>2. st.sticks # {at[st.own]}
    BY <1>1, <1>4, <2>1
  <2> QED
    BY <1>1, <1>4, <2>2 DEF FilteredRightly
<1>9. CASE f.kind = "CALLBACK"
  BY <1>1, <1>5, <1>9, FailingIsOrderly DEF SameSight
<1>10. CASE f.kind # "CALLBACK"
  <2> DEFINE t == Removed(s, Nobody, f, FALSE)
  <2>1. Steps(t)
    BY <1>5, <1>10
  <2>2. /\ Orderly(t) /\ SameSight(s, t) /\ BoundRightly(t) /\ FilteredRightly(t)
        /\ Served(t) = Served(s)
    BY <1>1, <1>7, <1>8, RemovedFacts
  <2> QED
    BY <1>1, <1>3, <1>7, <2>1, <2>2 DEF SameSight
<1> QED
  BY <1>9, <1>10

(* The timer looks after the filter and, once the listener must leave,     *)
(* ends it. A keyboard taken in the very tick that ends the listener is    *)
(* given back by its final restoration, because the fault that hit the     *)
(* first call is over by then, or was never taken.                         *)
LEMMA TickFacts ==
  ASSUME FilterInv, Tick
  PROVE  StepsRightly \/ EndsRightly
<1> DEFINE polled(allowed)   == [Elapse(st) EXCEPT !.allowed = allowed]
           filtered(f, c, a) == UpdateFilter(polled(a), f, c)
           told(f, c, a)     == EmitRecovery(filtered(f, c, a))
<1>1. /\ st.running /\ Orderly(st)
      /\ Grounds /\ BoundRightly(st) /\ FilteredRightly(st)
  BY RunningIsOrderly DEF Tick, Beat, FilterInv
<1>2. PICK f, calm, allowed :
        /\ calm \in BOOLEAN /\ allowed \in BOOLEAN
        /\ IF MustLeave(told(f, calm, allowed))
           THEN Ends(Left(told(f, calm, allowed), Later(f)))
           ELSE Steps(told(f, calm, allowed))
  BY DEF Tick
<1> DEFINE p == polled(allowed)
           u == filtered(f, calm, allowed)
           t == told(f, calm, allowed)
<1>3. /\ Orderly(p) /\ SameSight(st, p) /\ p.own = st.own /\ Served(p) = Served(st)
      /\ BoundRightly(p) /\ FilteredRightly(p)
  BY <1>1, <1>2, ElapseFacts
<1> HIDE DEF polled
<1>4. /\ Orderly(u) /\ SameSight(p, u) /\ Served(u) = Served(p)
      /\ BoundRightly(u) /\ FilteredRightly(u)
  BY <1>1, <1>2, <1>3, UpdateFilterFacts
<1>5. SinksOf(u) \subseteq stranded \cup {p.own} \/ Benign(Later(f))
  BY <1>1, <1>2, <1>3, UpdateFilterFacts
<1> HIDE DEF filtered
<1>6. /\ Orderly(t) /\ SameSight(u, t) /\ Served(t) = Served(u)
      /\ SinksOf(t) = SinksOf(u)
      /\ BoundRightly(t) /\ FilteredRightly(t)
  BY <1>4, EmitRecoveryFacts
<1> HIDE DEF told
<1>7. CASE MustLeave(t)
  <2> DEFINE last == Left(t, Later(f))
  <2>1. Ends(last)
    BY <1>2, <1>7
  <2>2. /\ Lawful(last) /\ Served(last) = Served(t)
        /\ SinksOf(last) \subseteq SinksOf(t)
    BY <1>1, <1>6, LeftFacts
  <2>3. /\ last.exit = "CLEAN" => last.own = Nobody /\ ~last.hold
        /\ Benign(Later(f)) => last.own = Nobody
    BY <1>1, <1>6, LeftFacts
  <2> HIDE DEF last
  <2>4. SinksOf(last) \subseteq stranded \cup {last.own}
    BY <2>2 DEF Lawful, SinksOf
  <2>5. SinksOf(last) \subseteq stranded \cup {st.own}
    <3>1. CASE Benign(Later(f))
      BY <2>3, <2>4, <3>1, Constants DEF SinksOf
    <3>2. CASE ~Benign(Later(f))
      BY <1>3, <1>5, <1>6, <2>2, <3>2
    <3> QED
      BY <3>1, <3>2
  <2> QED
    BY <1>3, <1>4, <1>6, <2>1, <2>2, <2>3, <2>5 DEF EndsRightly
<1>8. CASE ~MustLeave(t)
  BY <1>1, <1>2, <1>3, <1>4, <1>6, <1>8 DEF StepsRightly, SameSight
<1> QED
  BY <1>7, <1>8

(* A held shortcut, the user's controls and a signal leave the filter      *)
(* alone.                                                                  *)
LEMMA SmallMoveFacts ==
  ASSUME FilterInv, HoldMoves \/ NeutralEntryMoves \/ StopSignal
  PROVE  StepsRightly
<1> USE DEF StepsRightly
<1>1. /\ st.running /\ Orderly(st)
      /\ BoundRightly(st) /\ FilteredRightly(st)
  BY RunningIsOrderly DEF HoldMoves, NeutralEntryMoves, StopSignal, FilterInv
<1>2. st \in Listeners /\ InSight(st)
  BY <1>1 DEF Orderly, Lawful
<1>3. PICK next :
        /\ Steps(next)
        /\ \/ next = [st EXCEPT !.hold = ~@] /\ (st.hold \/ st.applied)
           \/ next = [st EXCEPT !.released = ~@]
           \/ next = [st EXCEPT !.stop = TRUE]
  BY DEF HoldMoves, NeutralEntryMoves, StopSignal
<1>4. /\ next \in Listeners /\ SameMapping(st, next) /\ SameSight(st, next)
      /\ next.applied = st.applied /\ next.restoreAge = st.restoreAge
      /\ next.retry = st.retry /\ next.bound = st.bound
      /\ next.hold => st.hold \/ st.applied
      /\ next.releaseFailed = st.releaseFailed
      /\ st.stop => next.stop
  <2>1. CASE next = [st EXCEPT !.hold = ~@] /\ (st.hold \/ st.applied)
    BY <1>2, <2>1 DEF Listeners, SameMapping, SameSight
  <2>2. CASE next = [st EXCEPT !.released = ~@]
    BY <1>2, <2>2 DEF Listeners, SameMapping, SameSight
  <2>3. CASE next = [st EXCEPT !.stop = TRUE]
    BY <1>2, <2>3 DEF Listeners, SameMapping, SameSight
  <2> QED
    BY <1>3, <2>1, <2>2, <2>3
<1>5. Orderly(next) /\ Served(next) = Served(st)
  BY <1>1, <1>2, <1>4, OrderMovesAlong DEF InSight, SameSight
<1>6. BoundRightly(next) /\ FilteredRightly(next)
  BY <1>1, <1>4 DEF BoundRightly, FilteredRightly, SameMapping, SameSight
<1> QED
  BY <1>1, <1>3, <1>4, <1>5, <1>6 DEF SameSight

(* A listener starts over whatever the last one left.                      *)
LEMMA LaunchedFacts ==
  ASSUME FilterInv, Launched
  PROVE  StepsRightly
<1> USE DEF StepsRightly
<1>1. PICK latched \in BOOLEAN : Steps(Started(st.mapping, latched))
  BY DEF Launched
<1> DEFINE next == Started(st.mapping, latched)
<1>2. Lawful(st) /\ st.own = Nobody /\ st.mapping \in Mappings
  BY DEF FilterInv, Launched, Lawful, Listeners
<1>3. /\ Off \in Ages(SettleTicks) /\ Off \in Ages(RetryTicks)
      /\ 0 \in 0..RecoveryTicks
  BY Constants DEF Ages
<1>4. next \in Listeners
  BY <1>2, <1>3 DEF Started, Listeners
<1>5. /\ next.mapping = st.mapping /\ next.own = Nobody /\ next.running
      /\ next.slots = {} /\ next.sticks = {} /\ next.bound = 0
      /\ ~next.applied /\ ~next.active /\ ~next.hold
      /\ next.restoreAge = Off /\ next.retry = Off
  BY DEF Started
<1> HIDE DEF next
<1>6. Lawful(next)
  BY <1>2, <1>4, <1>5, Constants DEF Lawful
<1>7. InSight(next)
  BY <1>5, FS_EmptySet DEF InSight
<1>8. Orderly(next)
  BY <1>5, <1>6, <1>7 DEF Orderly, Clocked, HeldRightly
<1>9. Served(next) = Served(st) /\ BoundRightly(next) /\ FilteredRightly(next)
  BY <1>5 DEF Served, BoundRightly, FilteredRightly
<1> QED
  BY <1>1, <1>5, <1>8, <1>9 DEF next

(* A killed listener leaves what it owned.                                 *)
LEMMA KilledFacts ==
  ASSUME FilterInv, Killed
  PROVE  EndsRightly
<1> DEFINE next == [st EXCEPT !.running = FALSE, !.exit = "KILLED"]
<1>1. Lawful(st) /\ st \in Listeners
  BY DEF FilterInv, Lawful
<1>2. Ends(next)
  BY DEF Killed
<1>3. /\ next \in Listeners /\ SameMapping(st, next)
      /\ next.applied = st.applied /\ next.exit = "KILLED"
  BY <1>1 DEF Listeners, SameMapping
<1> HIDE DEF next
<1>4. next.applied => next.active
  BY <1>1, <1>3 DEF Lawful, SameMapping
<1>5. Lawful(next) /\ Served(next) = Served(st) /\ SinksOf(next) = SinksOf(st)
  BY <1>1, <1>3, <1>4, LawMovesAlong
<1>6. SinksOf(st) \subseteq stranded \cup {st.own}
  BY <1>1 DEF Lawful, SinksOf
<1> QED
  BY <1>2, <1>3, <1>5, <1>6 DEF EndsRightly

-----------------------------------------------------------------------------

(* A keyboard that is plugged in has no mapping yet.                       *)
LEMMA PluggedInKeepsInv ==
  ASSUME FilterInv, NEW k \in Keyboards, PluggedIn(k)
  PROVE  FilterInv' /\ UNCHANGED Lease!vars
<1>1. /\ plug' = [plug EXCEPT ![k] = "IN"] /\ plug[k] = "NEW"
      /\ st' = st /\ at' = at /\ due' = due /\ stranded' = stranded
  BY DEF PluggedIn, ghosts
<1>2. plug \in [Keyboards -> {"NEW", "IN", "OUT"}] /\ st \in Listeners
  BY DEF FilterInv, Grounds, Lawful
<1>3. plug' \in [Keyboards -> {"NEW", "IN", "OUT"}]
      /\ \A j \in Keyboards : (plug'[j] = "OUT" <=> plug[j] = "OUT")
                              /\ (plug'[j] = "NEW" => plug[j] = "NEW")
                              /\ (plug[j] = "IN" => plug'[j] = "IN")
  BY <1>1, <1>2
<1>4. Grounds'
  BY <1>1, <1>3 DEF FilterInv, Grounds
<1>5. Lawful(st)'
  BY <1>1, <1>3 DEF FilterInv, Lawful
<1>6. /\ InSight(st)' /\ Clocked(st)' /\ BoundRightly(st)' /\ FilteredRightly(st)'
      /\ st'.running => HeldRightly(st)'
      /\ ~st'.running => st'.own = Nobody
  BY <1>1 DEF FilterInv, InSight, Clocked, BoundRightly, FilteredRightly, HeldRightly
<1>7. \A j \in Keyboards : plug'[j] = "NEW" => st'.mapping[j] = "NONE"
  BY <1>1, <1>3 DEF FilterInv
<1>8. stranded' \subseteq Swallowing(st)'
  BY <1>1, <1>3 DEF FilterInv, Swallowing
<1>9. UNCHANGED Lease!vars
  BY <1>1, <1>3 DEF Lease!vars
<1> QED
  BY <1>4, <1>5, <1>6, <1>7, <1>8, <1>9 DEF FilterInv

(* A keyboard that goes takes its mapping with it.                         *)
LEMMA UnpluggedKeepsInv ==
  ASSUME FilterInv, NEW k \in Keyboards, Unplugged(k)
  PROVE  FilterInv' /\ (Lease!Vanish(k) \/ UNCHANGED Lease!vars)
<1>1. /\ plug' = [plug EXCEPT ![k] = "OUT"] /\ plug[k] = "IN"
      /\ st' = st /\ at' = at /\ due' = due /\ stranded' = stranded \ {k}
  BY DEF Unplugged
<1>2. plug \in [Keyboards -> {"NEW", "IN", "OUT"}] /\ st \in Listeners
  BY DEF FilterInv, Grounds, Lawful
<1>3. /\ plug' \in [Keyboards -> {"NEW", "IN", "OUT"}]
      /\ plug'[k] = "OUT"
      /\ \A j \in Keyboards : j # k => plug'[j] = plug[j]
  BY <1>1, <1>2
<1>4. Grounds'
  BY <1>1, <1>3 DEF FilterInv, Grounds
<1>5. Lawful(st)'
  BY <1>1, <1>3 DEF FilterInv, Lawful
<1>6. /\ InSight(st)' /\ Clocked(st)' /\ BoundRightly(st)' /\ FilteredRightly(st)'
      /\ st'.running => HeldRightly(st)'
      /\ ~st'.running => st'.own = Nobody
  BY <1>1 DEF FilterInv, InSight, Clocked, BoundRightly, FilteredRightly, HeldRightly
<1>7. \A j \in Keyboards : plug'[j] = "NEW" => st'.mapping[j] = "NONE"
  BY <1>1, <1>3 DEF FilterInv
<1>8. stranded' \subseteq Swallowing(st)'
  BY <1>1, <1>3 DEF FilterInv, Swallowing
<1>9. Lease!Vanish(k) \/ UNCHANGED Lease!vars
  <2> DEFINE before == [j \in Keyboards |->
                          IF plug[j] = "OUT" THEN "NONE" ELSE st.mapping[j]]
             after  == [j \in Keyboards |->
                          IF plug'[j] = "OUT" THEN "NONE" ELSE st.mapping[j]]
  <2>1. after = [before EXCEPT ![k] = "NONE"]
    BY <1>3
  <2>2. CASE st.mapping[k] # "NONE"
    <3>1. before[k] # "NONE"
      BY <1>1, <2>2
    <3> QED
      BY <1>1, <2>1, <3>1 DEF Lease!Vanish
  <2>3. CASE st.mapping[k] = "NONE"
    <3>1. after = before
      BY <1>3, <2>3
    <3>2. k \notin stranded
      BY <2>3 DEF FilterInv, Swallowing
    <3> QED
      BY <1>1, <3>1, <3>2 DEF Lease!vars
  <2> QED
    BY <2>2, <2>3
<1> QED
  BY <1>4, <1>5, <1>6, <1>7, <1>8, <1>9 DEF FilterInv

(* A keyboard that appears is owned by nobody.                             *)
LEMMA ServiceAppearsKeepsInv ==
  ASSUME FilterInv, NEW k \in Keyboards, ServiceAppears(k)
  PROVE  FilterInv' /\ Lease!Appear(k)
<1>1. PICK own \in {"EMPTY", "USER"} :
        st' = [st EXCEPT !.mapping[k] = own] /\ due' = [due EXCEPT ![k] = own]
  BY DEF ServiceAppears
<1>2. /\ plug[k] = "IN" /\ st.mapping[k] = "NONE"
      /\ plug' = plug /\ at' = at /\ stranded' = stranded
  BY DEF ServiceAppears, world
<1>3. Grounds /\ Lawful(st) /\ st \in Listeners
  BY DEF FilterInv, Lawful
<1>4. st.own # k /\ k \notin stranded
  BY <1>2, <1>3 DEF FilterInv, Lawful, Swallowing
<1>5. /\ st' \in Listeners
      /\ st'.mapping = [st.mapping EXCEPT ![k] = own]
  BY <1>1, <1>3 DEF Listeners, Mappings
<1>6. /\ st'.own = st.own /\ st'.saved = st.saved
      /\ st'.active = st.active /\ st'.applied = st.applied
      /\ st'.running = st.running /\ st'.slots = st.slots /\ st'.sticks = st.sticks
      /\ st'.restoreAge = st.restoreAge /\ st'.retry = st.retry
      /\ st'.bound = st.bound /\ st'.hold = st.hold /\ st'.stop = st.stop
      /\ st'.releaseFailed = st.releaseFailed
  BY <1>1, <1>3 DEF Listeners
<1>7. /\ st'.mapping[k] = own /\ due'[k] = own
      /\ \A j \in Keyboards : j # k => st'.mapping[j] = st.mapping[j] /\ due'[j] = due[j]
  BY <1>1, <1>3, <1>5 DEF Listeners, Mappings, Grounds
<1>8. Grounds'
  BY <1>1, <1>2, <1>3, <1>4, <1>7 DEF Grounds
<1>9. Lawful(st)'
  <2>1. \A j \in Keyboards : plug'[j] # "OUT" =>
          /\ st'.mapping[j] \in {"NONE", "SINK", due'[j]}
          /\ st'.mapping[j] = "SINK" => j = st'.own \/ j \in stranded'
          /\ j = st'.own => st'.saved = due'[j] /\ st'.mapping[j] # "NONE"
    BY <1>2, <1>3, <1>4, <1>6, <1>7 DEF Lawful
  <2>2. st'.active => st'.own # Nobody /\ st'.mapping[st'.own] \in {"SINK", "NONE"}
    BY <1>3, <1>4, <1>6, <1>7 DEF Lawful, Listeners
  <2>3. st'.applied => st'.active
    BY <1>3, <1>6 DEF Lawful
  <2> QED
    BY <1>5, <2>1, <2>2, <2>3 DEF Lawful
<1>10. /\ InSight(st)' /\ Clocked(st)' /\ BoundRightly(st)' /\ FilteredRightly(st)'
       /\ st'.running => HeldRightly(st)'
       /\ ~st'.running => st'.own = Nobody
  BY <1>2, <1>6 DEF FilterInv, InSight, Clocked, BoundRightly, FilteredRightly, HeldRightly
<1>11. \A j \in Keyboards : plug'[j] = "NEW" => st'.mapping[j] = "NONE"
  BY <1>2, <1>7 DEF FilterInv
<1>12. stranded' \subseteq Swallowing(st)'
  BY <1>2, <1>4, <1>7 DEF FilterInv, Swallowing
<1>13. Lease!Appear(k)
  <2> DEFINE before == [j \in Keyboards |->
                          IF plug[j] = "OUT" THEN "NONE" ELSE st.mapping[j]]
             after  == [j \in Keyboards |->
                          IF plug[j] = "OUT" THEN "NONE" ELSE st'.mapping[j]]
  <2>1. after = [before EXCEPT ![k] = own]
    BY <1>2, <1>7
  <2>2. before[k] = "NONE"
    BY <1>2
  <2> HIDE DEF before, after
  <2> QED
    BY <1>1, <1>2, <1>4, <1>6, <2>1, <2>2
       DEF Lease!Appear, Lease!UserMappings, before, after
<1> QED
  BY <1>8, <1>9, <1>10, <1>11, <1>12, <1>13 DEF FilterInv

(* A service that vanishes late is one of a keyboard that is gone.         *)
LEMMA ServiceVanishesKeepsInv ==
  ASSUME FilterInv, NEW k \in Keyboards, ServiceVanishes(k)
  PROVE  FilterInv' /\ UNCHANGED Lease!vars
<1>1. /\ st' = [st EXCEPT !.mapping[k] = "NONE"]
      /\ plug[k] = "OUT"
      /\ plug' = plug /\ at' = at /\ due' = due /\ stranded' = stranded
  BY DEF ServiceVanishes, world, ghosts
<1>2. Grounds /\ Lawful(st) /\ st \in Listeners
  BY DEF FilterInv, Lawful
<1>3. st' \in Listeners
  BY <1>1, <1>2 DEF Listeners, Mappings
<1>4. /\ st'.own = st.own /\ st'.saved = st.saved
      /\ st'.active = st.active /\ st'.applied = st.applied
      /\ st'.running = st.running /\ st'.slots = st.slots /\ st'.sticks = st.sticks
      /\ st'.restoreAge = st.restoreAge /\ st'.retry = st.retry
      /\ st'.bound = st.bound /\ st'.hold = st.hold /\ st'.stop = st.stop
      /\ st'.releaseFailed = st.releaseFailed
  BY <1>1, <1>2 DEF Listeners
<1>5. /\ st'.mapping[k] = "NONE"
      /\ \A j \in Keyboards : j # k => st'.mapping[j] = st.mapping[j]
  BY <1>1, <1>2 DEF Listeners, Mappings
<1>6. Grounds'
  BY <1>1, <1>2 DEF Grounds
<1>7. Lawful(st)'
  <2>1. \A j \in Keyboards : plug'[j] # "OUT" => j # k /\ st'.mapping[j] = st.mapping[j]
    BY <1>1, <1>5
  <2>2. st'.active => st'.own # Nobody /\ st'.mapping[st'.own] \in {"SINK", "NONE"}
    BY <1>2, <1>4, <1>5 DEF Lawful, Listeners
  <2> QED
    BY <1>1, <1>2, <1>3, <1>4, <2>1, <2>2 DEF Lawful
<1>8. /\ InSight(st)' /\ Clocked(st)' /\ BoundRightly(st)' /\ FilteredRightly(st)'
      /\ st'.running => HeldRightly(st)'
      /\ ~st'.running => st'.own = Nobody
  BY <1>1, <1>4 DEF FilterInv, InSight, Clocked, BoundRightly, FilteredRightly, HeldRightly
<1>9. \A j \in Keyboards : plug'[j] = "NEW" => st'.mapping[j] = "NONE"
  BY <1>1, <1>5 DEF FilterInv
<1>10. stranded' \subseteq Swallowing(st)'
  BY <1>1, <1>5 DEF FilterInv, Swallowing
<1>11. UNCHANGED Lease!vars
  <2>1. [j \in Keyboards |-> IF plug[j] = "OUT" THEN "NONE" ELSE st'.mapping[j]]
        = [j \in Keyboards |-> IF plug[j] = "OUT" THEN "NONE" ELSE st.mapping[j]]
    BY <1>1, <1>5
  <2> QED
    BY <1>1, <1>4, <2>1 DEF Lease!vars
<1> QED
  BY <1>6, <1>7, <1>8, <1>9, <1>10, <1>11 DEF FilterInv

(* A step of nobody.                                                       *)
LEMMA StandstillKeepsInv ==
  ASSUME FilterInv, UNCHANGED vars
  PROVE  FilterInv' /\ UNCHANGED Lease!vars
<1>1. /\ st' = st /\ plug' = plug /\ at' = at
      /\ due' = due /\ stranded' = stranded
  BY DEF vars, world, ghosts
<1>2. Grounds' /\ Lawful(st)' /\ InSight(st)' /\ Clocked(st)'
  BY <1>1 DEF FilterInv, Grounds, Lawful, InSight, Clocked
<1>3. /\ BoundRightly(st)' /\ FilteredRightly(st)'
      /\ st'.running => HeldRightly(st)'
      /\ ~st'.running => st'.own = Nobody
      /\ \A k \in Keyboards : plug'[k] = "NEW" => st'.mapping[k] = "NONE"
      /\ stranded' \subseteq Swallowing(st)'
  BY <1>1 DEF FilterInv, BoundRightly, FilteredRightly, HeldRightly, Swallowing
<1>4. UNCHANGED Lease!vars
  BY <1>1 DEF Lease!vars
<1> QED
  BY <1>2, <1>3, <1>4 DEF FilterInv

(* The first listener starts with nothing plugged in.                      *)
LEMMA InitIsRight ==
  ASSUME Init
  PROVE  FilterInv /\ Lease!Init
<1>1. PICK latched \in BOOLEAN : st = Started([k \in Keyboards |-> "NONE"], latched)
  BY DEF Init
<1>2. /\ plug = [k \in Keyboards |-> "NEW"]
      /\ at \in [Keyboards -> Locations]
      /\ due = [k \in Keyboards |-> "EMPTY"]
      /\ stranded = {}
  BY DEF Init
<1>3. /\ Off \in Ages(SettleTicks) /\ Off \in Ages(RetryTicks)
      /\ 0 \in 0..RecoveryTicks
  BY Constants DEF Ages
<1>4. st \in Listeners
  BY <1>1, <1>3 DEF Started, Listeners, Mappings
<1>5. /\ st.mapping = [k \in Keyboards |-> "NONE"] /\ st.own = Nobody /\ st.running
      /\ st.slots = {} /\ st.sticks = {} /\ st.bound = 0
      /\ ~st.applied /\ ~st.active /\ ~st.hold
      /\ st.restoreAge = Off /\ st.retry = Off
  BY <1>1 DEF Started
<1>6. Grounds
  BY <1>2 DEF Grounds
<1>7. Lawful(st)
  BY <1>4, <1>5, Constants DEF Lawful
<1>8. InSight(st) /\ Clocked(st) /\ BoundRightly(st) /\ FilteredRightly(st) /\ HeldRightly(st)
  BY <1>5, FS_EmptySet DEF InSight, Clocked, BoundRightly, FilteredRightly, HeldRightly
<1>9. FilterInv
  BY <1>2, <1>5, <1>6, <1>7, <1>8 DEF FilterInv
<1>10. Lease!Init
  <2> DEFINE m == [k \in Keyboards |-> IF plug[k] = "OUT" THEN "NONE" ELSE st.mapping[k]]
  <2>1. m = [k \in Keyboards |-> "NONE"]
    BY <1>2, <1>5
  <2> HIDE DEF m
  <2>2. /\ m \in [Keyboards -> {"EMPTY", "USER"} \cup {"NONE", "SINK"}]
        /\ due \in [Keyboards -> {"EMPTY", "USER"}]
        /\ \A k \in Keyboards : m[k] \in {"NONE", "SINK", due[k]}
        /\ stranded = {k \in Keyboards : m[k] = "SINK"}
    BY <1>2, <2>1
  <2> QED
    BY <1>5, <2>2 DEF Lease!Init, Lease!Mappings, Lease!UserMappings, Lease!Swallowing, m
<1> QED
  BY <1>9, <1>10

-----------------------------------------------------------------------------

(* Every action keeps the invariant and the lease, and a clean end gives   *)
(* everything back.                                                        *)
LEMMA NextKeepsInv ==
  ASSUME FilterInv, Next
  PROVE  /\ FilterInv'
         /\ Lease!Next \/ UNCHANGED Lease!vars
         /\ st.running /\ ~st'.running /\ st'.exit = "CLEAN" =>
              stranded' \subseteq stranded /\ ~st'.hold
<1>1. ASSUME StepsRightly
      PROVE  FilterInv' /\ Lease!Next /\ st'.running
  <2>1. PICK next : /\ Steps(next)
                    /\ Orderly(next) /\ BoundRightly(next) /\ FilteredRightly(next)
                    /\ next.running /\ Served(next) = Served(st)
    BY <1>1 DEF StepsRightly
  <2>2. FilterInv'
    BY <2>1, StepsKeepInv
  <2>3. Lease!Next
    BY <2>1, StepsServe DEF Orderly, Lease!Next
  <2> QED
    BY <2>1, <2>2, <2>3 DEF Steps
<1>2. ASSUME EndsRightly
      PROVE  /\ FilterInv' /\ Lease!Next
             /\ st'.exit = "CLEAN" => stranded' \subseteq stranded /\ ~st'.hold
  <2>1. PICK next : /\ Ends(next)
                    /\ Lawful(next) /\ Served(next) = Served(st)
                    /\ SinksOf(next) \subseteq stranded \cup {st.own}
                    /\ next.exit = "CLEAN" => next.own = Nobody /\ ~next.hold
    BY <1>2 DEF EndsRightly
  <2>2. FilterInv'
    BY <2>1, EndsKeepInv
  <2>3. Lease!Next
    BY <2>1, EndsEnd DEF Lease!Next
  <2>4. st'.exit = next.exit /\ st'.hold = next.hold /\ stranded' = Swallowing(next)
    BY <2>1 DEF Ends, Started
  <2>5. next.own = Nobody => Swallowing(next) \subseteq stranded
    BY <2>1, Constants DEF Lawful, Swallowing
  <2> QED
    BY <2>1, <2>2, <2>3, <2>4, <2>5
<1>3. ASSUME UNCHANGED <<st, bounds>> \/ \E k \in Keyboards : ServiceAppears(k) \/ ServiceVanishes(k)
      PROVE  st'.running <=> st.running
  BY <1>3 DEF ServiceAppears, ServiceVanishes, FilterInv, Lawful, Listeners
<1>4. CASE \E k \in Keyboards : KeyboardAdded(k)
  BY <1>1, <1>4, KeyboardAddedFacts
<1>5. CASE \E k \in Keyboards : KeyboardRemoved(k)
  BY <1>1, <1>5, KeyboardRemovedFacts
<1>6. CASE \E k \in Keyboards : PluggedIn(k)
  BY <1>3, <1>6, PluggedInKeepsInv DEF PluggedIn
<1>7. CASE \E k \in Keyboards : Unplugged(k)
  BY <1>3, <1>7, UnpluggedKeepsInv DEF Unplugged, Lease!Next
<1>8. CASE \E k \in Keyboards : ServiceAppears(k)
  BY <1>3, <1>8, ServiceAppearsKeepsInv DEF Lease!Next
<1>9. CASE \E k \in Keyboards : ServiceVanishes(k)
  BY <1>3, <1>9, ServiceVanishesKeepsInv
<1>10. CASE \E l \in Locations : JoystickAdded(l)
  BY <1>1, <1>10, JoystickAddedFacts
<1>11. CASE \E l \in Locations : JoystickRemoved(l)
  BY <1>1, <1>11, JoystickRemovedFacts
<1>12. CASE Tick
  BY <1>1, <1>2, <1>12, TickFacts
<1>13. CASE HoldMoves \/ NeutralEntryMoves \/ StopSignal
  BY <1>1, <1>13, SmallMoveFacts
<1>14. CASE Killed
  BY <1>2, <1>14, KilledFacts
<1>15. CASE Launched
  BY <1>1, <1>15, LaunchedFacts
<1> QED
  BY <1>4, <1>5, <1>6, <1>7, <1>8, <1>9, <1>10, <1>11, <1>12, <1>13, <1>14, <1>15
     DEF Next

(* The invariant of the key filter, with or without faults.                *)
THEOREM FilterIsInvariant == Spec => []FilterInv
<1>1. Init => FilterInv
  BY InitIsRight
<1>2. FilterInv /\ [Next]_vars => FilterInv'
  BY NextKeepsInv, StandstillKeepsInv
<1> QED
  BY <1>1, <1>2, PTL DEF Spec

(* Every state of the listener is one of the program: no policy clock runs *)
(* over its limit, nothing but the sink and the users' mappings is ever    *)
(* written.                                                                *)
THEOREM TypeCorrect == Spec => []TypeOK
<1>1. FilterInv => TypeOK
  BY DEF FilterInv, Lawful, Grounds, TypeOK
<1> QED
  BY <1>1, FilterIsInvariant, PTL

(* Keys are filtered for the one controller in sight, or the listener is   *)
(* about to end (device_added, device_removed, update_focus_and_filter).   *)
THEOREM OnlyTheOneIsFiltered == Spec => []FilteredForTheOne
<1>1. FilterInv => FilteredForTheOne
  BY DEF FilterInv, FilteredRightly, FilteredForTheOne, FilterOfTheOne
<1> QED
  BY <1>1, FilterIsInvariant, PTL

(* Input is bound only over the filter of the one controller in sight,     *)
(* whose keyboard is swallowing its keys or already gone                   *)
(* (sync_lifecycle_binding).                                               *)
THEOREM InputIsBoundOverTheFilter == Spec => []BoundOverFilter
<1>1. FilterInv => BoundOverFilter
  BY DEF FilterInv, Lawful, BoundRightly, BoundOverFilter, FilterOfTheOne
<1> QED
  BY <1>1, FilterIsInvariant, PTL

(* A shortcut is held down only over a filter that is on, unless its       *)
(* release failed and the listener says so (force_release).                *)
THEOREM HoldsAreOverTheFilter == Spec => []HoldOverFilter
<1>1. FilterInv => HoldOverFilter
  BY DEF FilterInv, HeldRightly, HoldOverFilter
<1> QED
  BY <1>1, FilterIsInvariant, PTL

(* A listener that ends CLEAN leaves no keyboard swallowing that was not   *)
(* before it, and no shortcut down (the end of main).                      *)
THEOREM CleanEndsGiveBack == Spec => CleanEndGivesBack
<1>1. FilterInv /\ [Next]_vars =>
        [st.running /\ ~st'.running /\ st'.exit = "CLEAN" =>
           stranded' \subseteq stranded /\ ~st'.hold]_vars
  BY NextKeepsInv
<1> QED
  BY <1>1, FilterIsInvariant, PTL DEF Spec, CleanEndGivesBack

(* The key filter implements the lease: saving before writing, rolling     *)
(* back what does not read back, retrying, and a kill at any moment        *)
(* included.                                                               *)
THEOREM LeaseIsKept == Spec => KeepsTheLease
<1>1. Init => Lease!Init
  BY InitIsRight
<1>2. FilterInv /\ [Next]_vars => [Lease!Next]_(Lease!vars)
  BY NextKeepsInv, StandstillKeepsInv
<1> QED
  BY <1>1, <1>2, FilterIsInvariant, PTL DEF Spec, KeepsTheLease, Lease!Spec

(* So the user of a keyboard finds the mapping he is due, unless it is the *)
(* one on lease, or one that an ended listener left swallowing.            *)
THEOREM MappingsAreTheUsers == Spec => [](Lease!SwallowsOnLease /\ Lease!UserGetsDue)
<1>1. FilterInv => Lease!SwallowsOnLease /\ Lease!UserGetsDue
  BY DEF FilterInv, Lawful, Lease!SwallowsOnLease, Lease!UserGetsDue
<1> QED
  BY <1>1, FilterIsInvariant, PTL
=============================================================================
