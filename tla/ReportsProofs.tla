----------------------------- MODULE ReportsProofs -----------------------------
(***************************************************************************)
(* That the decoders and the capture never lose a press or a release, and  *)
(* never route what was held before, for every set of keys, modifiers,     *)
(* buttons and mapped inputs, and any room for reports in flight.          *)
(*                                                                         *)
(* The events of a report are a sequence that the code builds from three   *)
(* loops over unordered elements. Nothing here depends on their order,     *)
(* only on which events there are: Says names that set, and each loop has  *)
(* a lemma about it. EventsTell joins them: the events of any report       *)
(* tell, of any state, exactly how it changes.                             *)
(*                                                                         *)
(* ReportsInv is inductive: what the events say is what the decoders       *)
(* hold, what is on its way ends with what is, and an input that is held   *)
(* across a transition is down in every report about it, so that no event  *)
(* presses it.                                                             *)
(***************************************************************************)
EXTENDS Reports, SequenceTheorems, FiniteSetTheorems, TLAPS

USE DecoderAssumption, RoomAssumption

-----------------------------------------------------------------------------
(* Types: names, events, reports and the states of the decoders.           *)

(* The inputs that an interface has.                                       *)
Inputs(i) ==
  IF i = "KEYBOARD" THEN Keys \cup Modifiers ELSE Buttons \cup Directions

(* What an event can name; HAT is the lone event of a hat that is turned   *)
(* past its directions.                                                    *)
Names == Inputs("KEYBOARD") \cup Inputs("JOYSTICK") \cup {"HAT"}

(* The events of muse_on_decode_report.                                    *)
Events == [input : Names, down : BOOLEAN]

(* What a slot of a keyboard report holds.                                 *)
KeyNames == Keys \cup {NoKey}

(* Reports of the keyboard, short or long, as the kernel gives them.       *)
KeyboardReports ==
  [valid : BOOLEAN, modifiers : SUBSET Modifiers,
   keys : [1..ShortSlots -> KeyNames] \cup [1..LongSlots -> KeyNames]]

(* Reports of the joystick.                                                *)
JoystickReports == [valid : BOOLEAN, hat : Hats, buttons : SUBSET Buttons]

(* The reports of an interface.                                            *)
ReportType(i) == IF i = "KEYBOARD" THEN KeyboardReports ELSE JoystickReports

(* The state the keyboard is decoded against.                              *)
KeyboardDecoders ==
  [seen : BOOLEAN, modifiers : SUBSET Modifiers, keys : [1..LongSlots -> KeyNames]]

(* The state the joystick is decoded against.                              *)
JoystickDecoders == [seen : BOOLEAN, hat : Hats, buttons : SUBSET Buttons]

(* The states of the decoder of an interface.                              *)
DecoderType(i) == IF i = "KEYBOARD" THEN KeyboardDecoders ELSE JoystickDecoders

-----------------------------------------------------------------------------
(* The events of one report.                                               *)

(* A finite set put in a sequence: each of its members, and nothing else.  *)
LEMMA SetToSeqProperties ==
  ASSUME NEW S, IsFiniteSet(S)
  PROVE  /\ SetToSeq(S) \in [1..Cardinality(S) -> S]
         /\ Cardinality(S) \in Nat
         /\ \A x \in S : \E n \in 1..Cardinality(S) : SetToSeq(S)[n] = x
<1>1. Cardinality(S) \in Nat
  BY FS_CardinalityType
<1>2. \E f \in [1..Cardinality(S) -> S] : IsInjective(f)
  BY FS_CardinalityType DEF ExistsBijection, Bijection, Injection
<1> DEFINE order == SetToSeq(S)
<1>3. order \in [1..Cardinality(S) -> S] /\ IsInjective(order)
  BY <1>2 DEF SetToSeq
<1>4. order \in Injection(1..Cardinality(S), S)
  BY <1>3 DEF Injection
<1>5. Cardinality(1..Cardinality(S)) = Cardinality(S)
  BY <1>1, FS_Interval
<1>6. order \in Surjection(1..Cardinality(S), S)
  BY <1>4, <1>5, FS_Injection
<1> QED
  BY <1>1, <1>3, <1>6 DEF Surjection

(* `told' is what the events say, each once at least.                      *)
Says(events, told) ==
  /\ events \in Seq(Events)
  /\ \A n \in 1..Len(events) : events[n] \in told
  /\ \A e \in told : \E n \in 1..Len(events) : events[n] = e

(* What two sequences of events say, one after the other.                  *)
LEMMA BothSay ==
  ASSUME NEW s, NEW t, NEW a, NEW b, Says(s, a), Says(t, b)
  PROVE  Says(s \o t, a \cup b) /\ Len(s \o t) = Len(s) + Len(t)
<1>1. /\ s \o t \in Seq(Events)
      /\ Len(s \o t) = Len(s) + Len(t)
      /\ \A n \in 1..(Len(s) + Len(t)) :
           (s \o t)[n] = IF n <= Len(s) THEN s[n] ELSE t[n - Len(s)]
  BY ConcatProperties DEF Says
<1>2. Len(s) \in Nat /\ Len(t) \in Nat
  BY LenProperties DEF Says
<1>3. ASSUME NEW n \in 1..Len(s \o t)
      PROVE  (s \o t)[n] \in a \cup b
  <2>1. CASE n <= Len(s)
    BY <1>1, <1>2, <2>1 DEF Says
  <2>2. CASE n > Len(s)
    <3>1. n - Len(s) \in 1..Len(t) /\ (s \o t)[n] = t[n - Len(s)]
      BY <1>1, <1>2, <2>2
    <3> QED
      BY <3>1 DEF Says
  <2> QED
    BY <1>1, <1>2, <2>1, <2>2
<1>4. ASSUME NEW e \in a
      PROVE  \E n \in 1..Len(s \o t) : (s \o t)[n] = e
  <2>1. PICK n \in 1..Len(s) : s[n] = e
    BY DEF Says
  <2> QED
    BY <1>1, <1>2, <2>1
<1>5. ASSUME NEW e \in b
      PROVE  \E n \in 1..Len(s \o t) : (s \o t)[n] = e
  <2>1. PICK n \in 1..Len(t) : t[n] = e
    BY DEF Says
  <2>2. n + Len(s) \in 1..Len(s \o t) /\ (s \o t)[n + Len(s)] = t[n]
    BY <1>1, <1>2
  <2> QED
    BY <2>1, <2>2
<1> QED
  BY <1>1, <1>3, <1>4, <1>5 DEF Says

(* The events of a change of state.                                        *)
Changed(old, new) ==
  {Event(input, FALSE) : input \in old \ new} \cup {Event(input, TRUE) : input \in new \ old}

(* The loop over modifiers or buttons says what changed, in at most as     *)
(* many events as there are elements.                                      *)
LEMMA ChangesSay ==
  ASSUME NEW S, IsFiniteSet(S), S \subseteq Names,
         NEW old \in SUBSET S, NEW new \in SUBSET S
  PROVE  /\ Says(Changes(old, new), Changed(old, new))
         /\ Len(Changes(old, new)) <= Cardinality(S)
<1> DEFINE apart == (old \ new) \cup (new \ old)
           order == SetToSeq(apart)
           size  == Cardinality(apart)
           events == Changes(old, new)
<1>1. IsFiniteSet(apart) /\ size <= Cardinality(S)
  BY FS_Subset
<1>2. /\ order \in [1..size -> apart] /\ size \in Nat
      /\ \A x \in apart : \E n \in 1..size : order[n] = x
  BY <1>1, SetToSeqProperties
<1>3. events = [n \in 1..size |-> Event(order[n], order[n] \in new)]
  BY <1>2 DEF Changes
<1> HIDE DEF apart, order, size, events
<1>4. \A n \in 1..size : events[n] \in Events
  <2> SUFFICES ASSUME NEW n \in 1..size PROVE events[n] \in Events
    OBVIOUS
  <2>1. order[n] \in Names
    BY <1>2 DEF apart
  <2> QED
    BY <1>3, <2>1 DEF Events, Event
<1>5. events \in Seq(Events) /\ Len(events) = size
  BY <1>2, <1>3, <1>4
<1>6. ASSUME NEW n \in 1..size
      PROVE  events[n] \in Changed(old, new)
  <2>1. order[n] \in apart /\ events[n] = Event(order[n], order[n] \in new)
    BY <1>2, <1>3
  <2>2. CASE order[n] \in new
    <3>1. events[n] = Event(order[n], TRUE) /\ order[n] \in new \ old
      BY <2>1, <2>2 DEF apart, Event
    <3> QED
      BY <3>1 DEF Changed
  <2>3. CASE order[n] \notin new
    <3>1. (order[n] \in new) = FALSE /\ order[n] \in old \ new
      BY <2>1, <2>3 DEF apart
    <3>2. events[n] = Event(order[n], FALSE)
      BY <2>1, <3>1
    <3> QED
      BY <3>1, <3>2 DEF Changed
  <2> QED
    BY <2>2, <2>3
<1>7. ASSUME NEW e \in Changed(old, new)
      PROVE  \E n \in 1..size : events[n] = e
  <2>1. \E x \in apart : e = Event(x, x \in new)
    <3>1. CASE e \in {Event(input, FALSE) : input \in old \ new}
      <4>1. PICK x \in old \ new : e = Event(x, FALSE)
        BY <3>1
      <4>2. x \in apart /\ (x \in new) = FALSE
        BY <4>1 DEF apart
      <4>3. e = Event(x, x \in new)
        BY <4>1, <4>2
      <4> QED
        BY <4>2, <4>3
    <3>2. CASE e \in {Event(input, TRUE) : input \in new \ old}
      <4>1. PICK x \in new \ old : e = Event(x, TRUE)
        BY <3>2
      <4>2. x \in apart /\ e = Event(x, x \in new)
        BY <4>1 DEF apart, Event
      <4> QED
        BY <4>2
    <3> QED
      BY <3>1, <3>2 DEF Changed
  <2>3. PICK x \in apart : e = Event(x, x \in new)
    BY <2>1
  <2>2. PICK n \in 1..size : order[n] = x
    BY <1>2
  <2> QED
    BY <1>3, <2>2, <2>3
<1>8. Says(events, Changed(old, new))
  BY <1>5, <1>6, <1>7 DEF Says
<1> QED
  BY <1>1, <1>5, <1>8 DEF events

(* A loop over the slots of a keyboard report says which keys are in this  *)
(* array only, in at most one event a slot: the array bounds it.           *)
LEMMA SlottedSays ==
  ASSUME NEW m \in Nat, NEW keys \in [1..m -> KeyNames], NEW others, NEW down \in BOOLEAN
  PROVE  LET events == Slotted(keys, SlotsApart(keys, others), down)
         IN  /\ Says(events, {Event(k, down) : k \in KeysIn(keys) \ KeysIn(others)})
             /\ Len(events) <= m
<1> DEFINE slots == SlotsApart(keys, others)
           order == SetToSeq(slots)
           size  == Cardinality(slots)
           events == Slotted(keys, slots, down)
           told  == {Event(k, down) : k \in KeysIn(keys) \ KeysIn(others)}
<1>0. slots \subseteq 1..m
  BY DEF SlotsApart
<1>1. IsFiniteSet(slots) /\ size <= m
  <2>1. IsFiniteSet(1..m) /\ Cardinality(1..m) = m
    BY FS_Interval
  <2> QED
    BY <1>0, <2>1, FS_Subset
<1>2. /\ order \in [1..size -> slots] /\ size \in Nat
      /\ \A x \in slots : \E n \in 1..size : order[n] = x
  BY <1>1, SetToSeqProperties
<1>3. events = [n \in 1..size |-> Event(keys[order[n]], down)]
  BY <1>2 DEF Slotted
<1>4. \A slot \in slots : keys[slot] \in Keys /\ keys[slot] \in KeysIn(keys) \ KeysIn(others)
  BY DEF SlotsApart, KeysIn, Range, KeyNames
<1>5. \A k \in KeysIn(keys) \ KeysIn(others) : \E slot \in slots : keys[slot] = k
  BY DEF SlotsApart, KeysIn, Range
<1> HIDE DEF slots, order, size, events
<1>6. \A n \in 1..size : events[n] \in Events
  <2> SUFFICES ASSUME NEW n \in 1..size PROVE events[n] \in Events
    OBVIOUS
  <2>1. keys[order[n]] \in Names
    BY <1>2, <1>4 DEF Names, Inputs
  <2> QED
    BY <1>3, <2>1 DEF Events, Event
<1>7. events \in Seq(Events) /\ Len(events) = size
  BY <1>2, <1>3, <1>6
<1>8. ASSUME NEW n \in 1..size
      PROVE  events[n] \in told
  BY <1>2, <1>3, <1>4
<1>9. ASSUME NEW e \in told
      PROVE  \E n \in 1..size : events[n] = e
  <2>1. PICK k \in KeysIn(keys) \ KeysIn(others) : e = Event(k, down)
    OBVIOUS
  <2>2. PICK slot \in slots : keys[slot] = k
    BY <1>5
  <2>3. PICK n \in 1..size : order[n] = slot
    BY <1>2
  <2> QED
    BY <1>3, <2>1, <2>2, <2>3
<1>10. Says(events, told)
  BY <1>7, <1>8, <1>9 DEF Says
<1> QED
  BY <1>1, <1>7, <1>10 DEF events, slots

(* Events that tell how one state becomes another: every change, and       *)
(* nothing else but the lone hat event.                                    *)
Tells(events, old, new) ==
  \E told : /\ Says(events, told)
            /\ Changed(old, new) \subseteq told
            /\ told \subseteq Changed(old, new) \cup {Event("HAT", TRUE)}

(* Who knows the old state and sees events that tell the change knows the  *)
(* new state. Each input changes once, so that the order of the events     *)
(* does not matter.                                                        *)
LEMMA ReplayFollows ==
  ASSUME NEW events, NEW old, NEW new, Tells(events, old, new),
         "HAT" \notin old \cup new,
         NEW down, down \ {"HAT"} = old
  PROVE  Replay(down, events) \ {"HAT"} = new
<1>1. /\ DOMAIN events = 1..Len(events) /\ Len(events) \in Nat
      /\ \A n \in 1..Len(events) :
           \/ events[n] = Event("HAT", TRUE)
           \/ \E x \in old \ new : events[n] = Event(x, FALSE)
           \/ \E x \in new \ old : events[n] = Event(x, TRUE)
      /\ \A x \in old \ new : \E n \in 1..Len(events) : events[n] = Event(x, FALSE)
      /\ \A x \in new \ old : \E n \in 1..Len(events) : events[n] = Event(x, TRUE)
  <2>1. PICK told : /\ Says(events, told)
                    /\ Changed(old, new) \subseteq told
                    /\ told \subseteq Changed(old, new) \cup {Event("HAT", TRUE)}
    BY DEF Tells
  <2>2. DOMAIN events = 1..Len(events) /\ Len(events) \in Nat
    BY <2>1, LenProperties DEF Says
  <2> QED
    BY <2>1, <2>2 DEF Says, Changed
<1>3. \A x, n : LiftedAfter(events, n, x) => x \in old \ new
  BY <1>1 DEF LiftedAfter, Event
<1>4. \A x \in old \ new : LiftedAfter(events, 0, x)
  <2> SUFFICES ASSUME NEW x \in old \ new PROVE LiftedAfter(events, 0, x)
    OBVIOUS
  <2>1. PICK n \in 1..Len(events) : events[n] = Event(x, FALSE)
    BY <1>1
  <2>2. n \in DOMAIN events /\ n > 0
    BY <1>1
  <2> QED
    BY <2>1, <2>2 DEF LiftedAfter
<1>5. ASSUME NEW x \in new
      PROVE  x \in Replay(down, events) \ {"HAT"}
  <2>1. CASE x \in old
    BY <1>3, <2>1 DEF Replay
  <2>2. CASE x \notin old
    <3>1. PICK n \in 1..Len(events) : events[n] = Event(x, TRUE)
      BY <1>1, <2>2
    <3>2. events[n].down /\ events[n].input = x
      BY <3>1 DEF Event
    <3>3. ~LiftedAfter(events, n, x)
      BY <1>3
    <3> QED
      BY <1>1, <3>2, <3>3 DEF Replay
  <2> QED
    BY <2>1, <2>2
<1>6. ASSUME NEW x \in Replay(down, events) \ {"HAT"}
      PROVE  x \in new
  <2>1. CASE x \in down /\ ~LiftedAfter(events, 0, x)
    BY <1>4, <2>1
  <2>2. CASE \E n \in 1..Len(events) : events[n].down /\ events[n].input = x
    <3>1. PICK n \in 1..Len(events) : events[n].down /\ events[n].input = x
      BY <2>2
    <3>2. CASE events[n] = Event("HAT", TRUE)
      BY <3>1, <3>2 DEF Event
    <3>3. CASE \E y \in old \ new : events[n] = Event(y, FALSE)
      BY <3>1, <3>3 DEF Event
    <3>4. CASE \E y \in new \ old : events[n] = Event(y, TRUE)
      BY <3>1, <3>4 DEF Event
    <3> QED
      BY <1>1, <3>2, <3>3, <3>4
  <2> QED
    BY <1>1, <2>1, <2>2 DEF Replay
<1> QED
  BY <1>5, <1>6

(* Replay stays among the names.                                           *)
LEMMA ReplayOfNames ==
  ASSUME NEW events \in Seq(Events), NEW down \in SUBSET Names
  PROVE  Replay(down, events) \in SUBSET Names
<1>1. DOMAIN events = 1..Len(events)
  BY LenProperties
<1>2. \A n \in DOMAIN events : events[n].input \in Names
  <2>1. \A n \in DOMAIN events : events[n] \in Events
    BY <1>1, ElementOfSeq
  <2> QED
    BY <2>1 DEF Events
<1> QED
  BY <1>2 DEF Replay

-----------------------------------------------------------------------------

(* What is down in a report or a decoder, element by element.              *)
LEMMA InputsOf ==
  /\ \A d \in KeyboardDecoders \cup KeyboardReports :
       DownIn("KEYBOARD", d) = d.modifiers \cup KeysIn(d.keys)
       /\ KeysIn(d.keys) \subseteq Keys /\ d.modifiers \subseteq Modifiers
  /\ \A d \in JoystickDecoders \cup JoystickReports :
       DownIn("JOYSTICK", d) = d.buttons \cup ({d.hat} \cap Directions)
       /\ d.buttons \subseteq Buttons
<1>1. ASSUME NEW m \in {ShortSlots, LongSlots}, NEW keys \in [1..m -> KeyNames]
      PROVE  KeysIn(keys) \subseteq Keys
  BY DEF KeysIn, Range, KeyNames
<1> QED
  BY <1>1 DEF DownIn, KeyboardDecoders, KeyboardReports, JoystickDecoders, JoystickReports

(* All loops of a keyboard report together tell the change; and they fit,  *)
(* so that the capacity of the event array cuts nothing off.               *)
LEMMA KeyboardTells ==
  ASSUME NEW d \in KeyboardDecoders, NEW r \in KeyboardReports
  PROVE  Tells(EventsOf("KEYBOARD", d, r), DownIn("KEYBOARD", d), DownIn("KEYBOARD", r))
<1> DEFINE mods == Changes(d.modifiers, r.modifiers)
           ups  == Slotted(d.keys, SlotsApart(d.keys, r.keys), FALSE)
           downs == Slotted(r.keys, SlotsApart(r.keys, d.keys), TRUE)
           toldUp == {Event(k, FALSE) : k \in KeysIn(d.keys) \ KeysIn(r.keys)}
           toldDown == {Event(k, TRUE) : k \in KeysIn(r.keys) \ KeysIn(d.keys)}
           toldMods == Changed(d.modifiers, r.modifiers)
<1>1. Says(mods, toldMods) /\ Len(mods) <= Cardinality(Modifiers)
  <2>1. Modifiers \subseteq Names
    BY DEF Names, Inputs
  <2>2. d.modifiers \in SUBSET Modifiers /\ r.modifiers \in SUBSET Modifiers
    BY DEF KeyboardDecoders, KeyboardReports
  <2> QED
    BY <2>1, <2>2, ChangesSay
<1>2. Says(ups, toldUp) /\ Len(ups) <= LongSlots
  BY SlottedSays DEF KeyboardDecoders
<1>3. Says(downs, toldDown) /\ Len(downs) <= LongSlots
  <2>1. PICK m \in {ShortSlots, LongSlots} : r.keys \in [1..m -> KeyNames]
    BY DEF KeyboardReports
  <2>2. m \in Nat /\ m <= LongSlots
    BY <2>1
  <2>3. Says(downs, toldDown) /\ Len(downs) <= m
    BY <2>1, <2>2, SlottedSays
  <2> HIDE DEF downs, toldDown
  <2>4. Len(downs) \in Nat
    BY <2>3, LenProperties DEF Says
  <2> QED
    BY <2>2, <2>3, <2>4
<1> HIDE DEF mods, ups, downs, toldUp, toldDown, toldMods
<1>4. Says(mods \o ups, toldMods \cup toldUp) /\ Len(mods \o ups) = Len(mods) + Len(ups)
  BY <1>1, <1>2, BothSay
<1>5. /\ Says((mods \o ups) \o downs, (toldMods \cup toldUp) \cup toldDown)
      /\ Len((mods \o ups) \o downs) = Len(mods) + Len(ups) + Len(downs)
  BY <1>3, <1>4, BothSay
<1>6. Len((mods \o ups) \o downs) <= MaxEvents
  <2>1. Len(mods) \in Nat /\ Len(ups) \in Nat /\ Len(downs) \in Nat
    BY <1>1, <1>2, <1>3, LenProperties DEF Says
  <2>2. Cardinality(Modifiers) \in Nat
    BY FS_CardinalityType
  <2> QED
    BY <1>1, <1>2, <1>3, <1>5, <2>1, <2>2 DEF MaxEvents
<1>7. EventsOf("KEYBOARD", d, r) = (mods \o ups) \o downs
  BY <1>6 DEF EventsOf, KeyboardEvents, Fitting, mods, ups, downs
<1>8. (toldMods \cup toldUp) \cup toldDown = Changed(DownIn("KEYBOARD", d), DownIn("KEYBOARD", r))
  <2>1. /\ KeysIn(d.keys) \subseteq Keys /\ d.modifiers \subseteq Modifiers
        /\ KeysIn(r.keys) \subseteq Keys /\ r.modifiers \subseteq Modifiers
        /\ DownIn("KEYBOARD", d) = d.modifiers \cup KeysIn(d.keys)
        /\ DownIn("KEYBOARD", r) = r.modifiers \cup KeysIn(r.keys)
    BY InputsOf
  <2>2. /\ DownIn("KEYBOARD", d) \ DownIn("KEYBOARD", r)
             = (d.modifiers \ r.modifiers) \cup (KeysIn(d.keys) \ KeysIn(r.keys))
        /\ DownIn("KEYBOARD", r) \ DownIn("KEYBOARD", d)
             = (r.modifiers \ d.modifiers) \cup (KeysIn(r.keys) \ KeysIn(d.keys))
    BY <2>1
  <2> QED
    BY <2>2 DEF Changed, toldMods, toldUp, toldDown
<1> QED
  BY <1>5, <1>7, <1>8 DEF Tells

(* A single event.                                                         *)
LEMMA OneSays ==
  ASSUME NEW e \in Events
  PROVE  Says(<<e>>, {e}) /\ Len(<<e>>) = 1
BY DEF Says

(* No event.                                                               *)
LEMMA NoneSays ==
  Says(<<>>, {}) /\ Len(<<>>) = 0
BY EmptySeq DEF Says

(* The events of one direction that is left, or of one that is entered.    *)
LEMMA TurnSays ==
  ASSUME NEW hat \in Hats, NEW down \in BOOLEAN
  PROVE  LET events == IF hat \in Directions THEN <<Event(hat, down)>> ELSE <<>>
         IN  /\ Says(events, {Event(x, down) : x \in {hat} \cap Directions})
             /\ Len(events) \in 0..1
<1> DEFINE e == Event(hat, down)
           told == {Event(x, down) : x \in {hat} \cap Directions}
<1>1. CASE hat \in Directions
  <2>1. e \in Events
    BY <1>1 DEF Event, Events, Names, Inputs
  <2>2. told = {e}
    BY <1>1
  <2> HIDE DEF e, told
  <2>3. Says(<<e>>, told) /\ Len(<<e>>) = 1
    BY <2>1, <2>2, OneSays
  <2>4. (IF hat \in Directions THEN <<e>> ELSE <<>>) = <<e>>
    BY <1>1
  <2>5. Len(<<e>>) \in 0..1
    BY <2>3
  <2> QED
    BY <2>3, <2>4, <2>5 DEF e, told
<1>2. CASE hat \notin Directions
  <2>2. told = {}
    BY <1>2
  <2> HIDE DEF e, told
  <2>4. (IF hat \in Directions THEN <<e>> ELSE <<>>) = <<>>
    BY <1>2
  <2>5. Len(<<>>) \in 0..1
    BY NoneSays
  <2> QED
    BY <2>2, <2>4, <2>5, NoneSays DEF e, told
<1> QED
  BY <1>1, <1>2

(* The events of the hat tell which direction was left and which one       *)
(* entered, in at most two events.                                         *)
LEMMA HatTells ==
  ASSUME NEW old \in Hats, NEW new \in Hats
  PROVE  /\ Tells(HatEvents(old, new), {old} \cap Directions, {new} \cap Directions)
         /\ Len(HatEvents(old, new)) <= 2
<1> DEFINE ups == IF old \in Directions THEN <<Event(old, FALSE)>> ELSE <<>>
           downs == IF new \in Directions THEN <<Event(new, TRUE)>> ELSE <<>>
           events == HatEvents(old, new)
           from == {old} \cap Directions
           to   == {new} \cap Directions
           left == {Event(x, FALSE) : x \in from}
           entered == {Event(x, TRUE) : x \in to}
           other == Event("HAT", TRUE)
<1>3. CASE new = old
  <2>1. events = <<>>
    BY <1>3 DEF HatEvents
  <2>2. Changed(from, to) = {}
    BY <1>3 DEF Changed
  <2> HIDE DEF events, from, to
  <2>3. Says(events, {}) /\ Len(events) = 0
    BY <2>1, NoneSays
  <2>4. Tells(events, from, to)
    BY <2>2, <2>3 DEF Tells
  <2> QED
    BY <2>3, <2>4 DEF events, from, to
<1>4. CASE new # old /\ {old, new} \cap Directions = {}
  <2>1. events = <<other>>
    BY <1>4 DEF HatEvents
  <2>2. Changed(from, to) = {}
    BY <1>4 DEF Changed
  <2>3. other \in Events
    BY DEF Event, Events, Names
  <2> HIDE DEF events, from, to, other
  <2>4. Says(events, {other}) /\ Len(events) = 1
    BY <2>1, <2>3, OneSays
  <2>5. Tells(events, from, to)
    BY <2>2, <2>4 DEF Tells, other
  <2> QED
    BY <2>4, <2>5 DEF events, from, to
<1>5. CASE new # old /\ {old, new} \cap Directions # {}
  <2>1. events = ups \o downs
    BY <1>5 DEF HatEvents
  <2>2. Says(ups, left) /\ Len(ups) \in 0..1
    BY TurnSays
  <2>3. Says(downs, entered) /\ Len(downs) \in 0..1
    BY TurnSays
  <2>5. left \cup entered = Changed(from, to)
    BY <1>5 DEF Changed
  <2> HIDE DEF ups, downs, events, from, to, left, entered
  <2>4. Says(events, left \cup entered) /\ Len(events) = Len(ups) + Len(downs)
    BY <2>1, <2>2, <2>3, BothSay
  <2>6. Tells(events, from, to)
    BY <2>4, <2>5 DEF Tells
  <2>7. Len(events) <= 2
    <3>1. Len(ups) + Len(downs) <= 2
      <4>1. \A m, n \in 0..1 : m + n <= 2
        OBVIOUS
      <4> QED
        BY <2>2, <2>3, <4>1
    <3> QED
      BY <2>4, <3>1
  <2> QED
    BY <2>6, <2>7 DEF events, from, to
<1> QED
  BY <1>3, <1>4, <1>5

(* The buttons and the hat of a joystick report tell the change, and fit.  *)
LEMMA JoystickTells ==
  ASSUME NEW d \in JoystickDecoders, NEW r \in JoystickReports
  PROVE  Tells(EventsOf("JOYSTICK", d, r), DownIn("JOYSTICK", d), DownIn("JOYSTICK", r))
<1> DEFINE hats == HatEvents(d.hat, r.hat)
           butts == Changes(d.buttons, r.buttons)
           turned == Changed({d.hat} \cap Directions, {r.hat} \cap Directions)
           pushed == Changed(d.buttons, r.buttons)
<1>1. d.hat \in Hats /\ r.hat \in Hats /\ d.buttons \in SUBSET Buttons /\ r.buttons \in SUBSET Buttons
  BY DEF JoystickDecoders, JoystickReports
<1>2. Says(butts, pushed) /\ Len(butts) <= Cardinality(Buttons)
  <2>1. Buttons \subseteq Names
    BY DEF Names, Inputs
  <2> QED
    BY <1>1, <2>1, ChangesSay
<1>3. Tells(hats, {d.hat} \cap Directions, {r.hat} \cap Directions) /\ Len(hats) <= 2
  BY <1>1, HatTells
<1> HIDE DEF hats, butts
<1>4. PICK told : /\ Says(hats, told)
                  /\ turned \subseteq told /\ told \subseteq turned \cup {Event("HAT", TRUE)}
  BY <1>3 DEF Tells
<1>5. Says(hats \o butts, told \cup pushed) /\ Len(hats \o butts) = Len(hats) + Len(butts)
  BY <1>2, <1>4, BothSay
<1>6. Len(hats \o butts) <= MaxEvents
  <2>1. Len(hats) \in Nat /\ Len(butts) \in Nat
    BY <1>2, <1>4, LenProperties DEF Says
  <2>2. Cardinality(Buttons) \in Nat /\ Cardinality(Modifiers) \in Nat
    BY FS_CardinalityType
  <2>3. MaxEvents \in Nat
    BY <2>2 DEF MaxEvents
  <2> QED
    BY <1>2, <1>3, <1>5, <2>1, <2>2, <2>3
<1>7. EventsOf("JOYSTICK", d, r) = hats \o butts
  BY <1>6 DEF EventsOf, JoystickEvents, Fitting, hats, butts
<1>8. turned \cup pushed = Changed(DownIn("JOYSTICK", d), DownIn("JOYSTICK", r))
  <2>1. /\ DownIn("JOYSTICK", d) = d.buttons \cup ({d.hat} \cap Directions)
        /\ DownIn("JOYSTICK", r) = r.buttons \cup ({r.hat} \cap Directions)
    BY InputsOf
  <2>2. /\ DownIn("JOYSTICK", d) \ DownIn("JOYSTICK", r)
             = (d.buttons \ r.buttons) \cup (({d.hat} \cap Directions) \ ({r.hat} \cap Directions))
        /\ DownIn("JOYSTICK", r) \ DownIn("JOYSTICK", d)
             = (r.buttons \ d.buttons) \cup (({r.hat} \cap Directions) \ ({d.hat} \cap Directions))
    BY <1>1, <2>1
  <2> QED
    BY <2>2 DEF Changed
<1>9. /\ Changed(DownIn("JOYSTICK", d), DownIn("JOYSTICK", r)) \subseteq told \cup pushed
      /\ told \cup pushed \subseteq Changed(DownIn("JOYSTICK", d), DownIn("JOYSTICK", r)) \cup {Event("HAT", TRUE)}
  BY <1>4, <1>8
<1> QED
  BY <1>5, <1>7, <1>9 DEF Tells

(* muse_on_decode_report, for either interface: the events tell how the    *)
(* state becomes that of the report.                                       *)
LEMMA EventsTell ==
  ASSUME NEW i \in Interfaces, NEW d \in DecoderType(i), NEW r \in ReportType(i)
  PROVE  Tells(EventsOf(i, d, r), DownIn(i, d), DownIn(i, r))
<1>1. CASE i = "KEYBOARD"
  BY <1>1, KeyboardTells DEF DecoderType, ReportType
<1>2. CASE i = "JOYSTICK"
  BY <1>2, JoystickTells DEF DecoderType, ReportType
<1> QED
  BY <1>1, <1>2 DEF Interfaces

(* The new state of the decoder is that of the report, copied in full.     *)
LEMMA DecoderFollows ==
  ASSUME NEW i \in Interfaces, NEW d \in DecoderType(i), NEW r \in ReportType(i)
  PROVE  /\ DecoderAfter(i, d, r) \in DecoderType(i)
         /\ DecoderAfter(i, d, r).seen
         /\ DownIn(i, DecoderAfter(i, d, r)) = DownIn(i, r)
<1>1. CASE i = "KEYBOARD"
  <2>1. d \in KeyboardDecoders /\ r \in KeyboardReports
    BY <1>1 DEF DecoderType, ReportType
  <2> DEFINE keys == KeysAfter(d.keys, r.keys)
             after == DecoderAfter(i, d, r)
  <2>2. PICK m \in {ShortSlots, LongSlots} : r.keys \in [1..m -> KeyNames]
    BY <2>1 DEF KeyboardReports
  <2>3. m \in Nat /\ m <= LongSlots /\ Len(r.keys) = m
    BY <2>2
  <2>4. keys \in [1..LongSlots -> KeyNames]
    BY <2>2, <2>3 DEF KeysAfter, KeyNames
  <2>5. KeysIn(keys) = KeysIn(r.keys)
    <3>1. \A slot \in 1..m : slot \in 1..LongSlots /\ keys[slot] = r.keys[slot]
      BY <2>2, <2>3 DEF KeysAfter
    <3>2. \A slot \in 1..LongSlots : keys[slot] = NoKey \/ slot \in 1..m
      BY <2>2, <2>3 DEF KeysAfter
    <3> QED
      BY <2>2, <2>4, <3>1, <3>2 DEF KeysIn, Range
  <2>6. after = [seen |-> TRUE, modifiers |-> r.modifiers, keys |-> keys]
    BY <1>1 DEF DecoderAfter
  <2>7. r.modifiers \in SUBSET Modifiers
    BY <2>1 DEF KeyboardReports
  <2> HIDE DEF keys, after
  <2>8. after \in KeyboardDecoders /\ after.seen
    BY <2>4, <2>6, <2>7 DEF KeyboardDecoders
  <2>9. DownIn(i, after) = DownIn(i, r)
    BY <1>1, <2>5, <2>6 DEF DownIn
  <2> QED
    BY <1>1, <2>8, <2>9 DEF DecoderType, after
<1>2. CASE i = "JOYSTICK"
  BY <1>2 DEF DecoderType, ReportType, JoystickDecoders, JoystickReports, DecoderAfter, DownIn
<1> QED
  BY <1>1, <1>2 DEF Interfaces

-----------------------------------------------------------------------------

(* The state of the capture: what one observed report does to it.          *)

(* The lifecycle: bound, in front, released.                               *)
Lifecycles == [bound : BOOLEAN, foreground : BOOLEAN, released : BOOLEAN]

(* A decoder for each interface.                                           *)
DecoderStates ==
  {d \in [Interfaces -> KeyboardDecoders \cup JoystickDecoders] :
     \A i \in Interfaces : d[i] \in DecoderType(i)}

(* What the events said of each interface.                                 *)
Replays == [Interfaces -> SUBSET Names]

(* What Observe and Reset work on.                                         *)
CaptureStates ==
  [decoders : DecoderStates, lc : Lifecycles, routed : SUBSET Names, replayed : Replays]

(* A capture that knows what is down: its events told what its decoders    *)
(* hold, and there is no Neutral Entry without a binding and both          *)
(* interfaces heard.                                                       *)
Lawful(s) ==
  /\ s \in CaptureStates
  /\ \A i \in Interfaces : s.replayed[i] \ {"HAT"} = DownIn(i, s.decoders[i])
  /\ s.lc.released => s.lc.bound /\ \A i \in Interfaces : s.decoders[i].seen

(* The decoders after a report.                                            *)
Decoded(s, i, report) == [s.decoders EXCEPT ![i] = DecoderAfter(i, @, report)]

(* What the events say after a report.                                     *)
Heard(s, i, report) == [s.replayed EXCEPT ![i] = Replay(@, EventsOf(i, s.decoders[i], report))]

(* What is down is among the inputs of the interface; HAT is none.         *)
LEMMA HatIsNoInput ==
  ASSUME NEW i \in Interfaces, NEW d \in DecoderType(i) \cup ReportType(i)
  PROVE  /\ "HAT" \notin DownIn(i, d)
         /\ DownIn(i, d) \subseteq Inputs(i)
<1>1. CASE i = "KEYBOARD"
  BY <1>1, InputsOf DEF DecoderType, ReportType, Inputs
<1>2. CASE i = "JOYSTICK"
  BY <1>2, InputsOf DEF DecoderType, ReportType, Directions, Inputs
<1> QED
  BY <1>1, <1>2 DEF Interfaces

(* A report brings the decoder of its interface, and what its events said, *)
(* up to date; it leaves the other interface alone.                        *)
LEMMA HearingProperties ==
  ASSUME NEW s, Lawful(s), NEW i \in Interfaces, NEW report \in ReportType(i)
  PROVE  /\ Decoded(s, i, report) \in DecoderStates
         /\ Decoded(s, i, report)[i].seen
         /\ DownIn(i, Decoded(s, i, report)[i]) = DownIn(i, report)
         /\ \A j \in Interfaces \ {i} : Decoded(s, i, report)[j] = s.decoders[j]
         /\ Heard(s, i, report) \in Replays
         /\ \A j \in Interfaces : Heard(s, i, report)[j] \ {"HAT"} = DownIn(j, Decoded(s, i, report)[j])
<1> DEFINE after == DecoderAfter(i, s.decoders[i], report)
           events == EventsOf(i, s.decoders[i], report)
           replay == Replay(s.replayed[i], events)
           decoded == Decoded(s, i, report)
           heard == Heard(s, i, report)
<1>1. /\ s.decoders \in [Interfaces -> KeyboardDecoders \cup JoystickDecoders]
      /\ \A j \in Interfaces : s.decoders[j] \in DecoderType(j)
      /\ s.replayed \in [Interfaces -> SUBSET Names]
      /\ \A j \in Interfaces : s.replayed[j] \ {"HAT"} = DownIn(j, s.decoders[j])
  BY DEF Lawful, CaptureStates, DecoderStates, Replays
<1>2. after \in DecoderType(i) /\ after.seen /\ DownIn(i, after) = DownIn(i, report)
  BY <1>1, DecoderFollows
<1>3. Tells(events, DownIn(i, s.decoders[i]), DownIn(i, report))
  BY <1>1, EventsTell
<1>4. replay \ {"HAT"} = DownIn(i, report)
  <2>1. "HAT" \notin DownIn(i, s.decoders[i]) \cup DownIn(i, report)
    BY <1>1, HatIsNoInput
  <2> QED
    BY <1>1, <1>3, <2>1, ReplayFollows
<1>5. replay \in SUBSET Names
  <2>1. events \in Seq(Events)
    BY <1>3 DEF Tells, Says
  <2> QED
    BY <1>1, <2>1, ReplayOfNames
<1>6. decoded = [s.decoders EXCEPT ![i] = after] /\ heard = [s.replayed EXCEPT ![i] = replay]
  BY <1>1 DEF Decoded, Heard, Replays
<1> HIDE DEF after, events, replay, decoded, heard
<1>7. /\ decoded[i] = after
      /\ \A j \in Interfaces \ {i} : decoded[j] = s.decoders[j]
      /\ heard[i] = replay
      /\ \A j \in Interfaces \ {i} : heard[j] = s.replayed[j]
  BY <1>1, <1>6
<1>8. decoded \in DecoderStates
  <2>1. after \in KeyboardDecoders \cup JoystickDecoders
    BY <1>2 DEF DecoderType
  <2>2. decoded \in [Interfaces -> KeyboardDecoders \cup JoystickDecoders]
    BY <1>1, <1>6, <2>1
  <2> QED
    BY <1>1, <1>2, <1>7, <2>2 DEF DecoderStates
<1>9. heard \in Replays
  BY <1>1, <1>5, <1>6 DEF Replays
<1>10. \A j \in Interfaces : heard[j] \ {"HAT"} = DownIn(j, decoded[j])
  BY <1>1, <1>2, <1>4, <1>7
<1> QED
  BY <1>2, <1>7, <1>8, <1>9, <1>10 DEF decoded, heard

(* The inputs that a report presses.                                       *)
PressedBy(s, i, report) == DownIn(i, report) \ DownIn(i, s.decoders[i])

(* A press that an event names is of an input that was not down before.    *)
LEMMA PressesOf ==
  ASSUME NEW s, Lawful(s), NEW i \in Interfaces, NEW report \in ReportType(i)
  PROVE  {e.input : e \in {x \in Range(EventsOf(i, s.decoders[i], report)) : x.down}}
           \subseteq PressedBy(s, i, report) \cup {"HAT"}
<1> DEFINE events == EventsOf(i, s.decoders[i], report)
<1>1. s.decoders[i] \in DecoderType(i)
  BY DEF Lawful, CaptureStates, DecoderStates
<1>2. Tells(events, DownIn(i, s.decoders[i]), DownIn(i, report))
  BY <1>1, EventsTell
<1>3. PICK told : /\ Says(events, told)
                  /\ told \subseteq Changed(DownIn(i, s.decoders[i]), DownIn(i, report))
                                     \cup {Event("HAT", TRUE)}
  BY <1>2 DEF Tells
<1>4. DOMAIN events = 1..Len(events)
  BY <1>3, LenProperties DEF Says
<1>5. Range(events) \subseteq told
  BY <1>3, <1>4 DEF Says, Range
<1> HIDE DEF events
<1> SUFFICES ASSUME NEW e \in Range(events), e.down
             PROVE  e.input \in PressedBy(s, i, report) \cup {"HAT"}
  BY DEF events
<1>6. \/ \E x \in DownIn(i, s.decoders[i]) \ DownIn(i, report) : e = Event(x, FALSE)
      \/ \E x \in PressedBy(s, i, report) : e = Event(x, TRUE)
      \/ e = Event("HAT", TRUE)
  BY <1>3, <1>5 DEF Changed, PressedBy
<1> QED
  BY <1>6 DEF Event

(* Observing a report, whatever the gate says: what was lawful stays so,   *)
(* and what is routed was released before and is pressed now.              *)
LEMMA ObserveProperties ==
  ASSUME NEW s, Lawful(s), NEW i \in Interfaces, NEW report \in ReportType(i), NEW gate \in BOOLEAN
  PROVE  LET t == Observe(s, i, report, gate)
         IN  /\ Lawful(t)
             /\ t.lc.bound = s.lc.bound
             /\ ~(s.lc.bound /\ report.valid) => t = s
             /\ s.lc.bound /\ report.valid => t.decoders = Decoded(s, i, report)
             /\ ~gate => t.routed = s.routed
             /\ t.routed # s.routed =>
                  /\ s.lc.released
                  /\ t.routed \subseteq PressedBy(s, i, report) \cup {"HAT"}
<1> DEFINE t == Observe(s, i, report, gate)
<1>1. CASE ~(s.lc.bound /\ report.valid)
  BY <1>1 DEF Observe
<1>2. CASE s.lc.bound /\ report.valid
  <2> DEFINE decoded == Decoded(s, i, report)
             heard == Heard(s, i, report)
             presses == {e.input : e \in {x \in Range(EventsOf(i, s.decoders[i], report)) : x.down}}
             known == [s EXCEPT !.decoders = decoded, !.replayed = heard]
             routes == s.lc.foreground /\ s.lc.released
  <2>1. s \in CaptureStates /\ s.lc \in Lifecycles
    BY DEF Lawful, CaptureStates
  <2>2. t = IF ~routes THEN [known EXCEPT !.lc.released = IsCalm(decoded)]
            ELSE IF gate THEN [known EXCEPT !.routed = presses] ELSE known
    BY <1>2, <2>1 DEF Observe, Observed, Decoded, Heard, CaptureStates
  <2>3. /\ decoded \in DecoderStates
        /\ heard \in Replays
        /\ \A j \in Interfaces : heard[j] \ {"HAT"} = DownIn(j, decoded[j])
        /\ \A j \in Interfaces : s.decoders[j].seen => decoded[j].seen
    BY HearingProperties
  <2>4. presses \subseteq PressedBy(s, i, report) \cup {"HAT"}
    BY PressesOf
  <2>5. presses \in SUBSET Names
    <3>1. DownIn(i, report) \subseteq Inputs(i)
      BY HatIsNoInput
    <3>2. Inputs(i) \subseteq Names
      BY DEF Names, Interfaces, Inputs
    <3>3. "HAT" \in Names
      BY DEF Names
    <3> QED
      BY <2>4, <3>1, <3>2, <3>3 DEF PressedBy
  <2>6. IsCalm(decoded) \in BOOLEAN /\ (IsCalm(decoded) => \A j \in Interfaces : decoded[j].seen)
    BY DEF IsCalm, NeutralState
  <2> HIDE DEF decoded, heard, presses, routes
  <2>7. /\ known \in CaptureStates
        /\ known.decoders = decoded /\ known.lc = s.lc
        /\ known.routed = s.routed /\ known.replayed = heard
    BY <2>1, <2>3 DEF CaptureStates
  <2> HIDE DEF known
  <2>8. CASE ~routes
    <3> DEFINE lc2 == [s.lc EXCEPT !.released = IsCalm(decoded)]
    <3>1. t = [known EXCEPT !.lc = lc2]
      BY <2>2, <2>7, <2>8 DEF CaptureStates
    <3>2. lc2 \in Lifecycles /\ lc2.bound = s.lc.bound /\ lc2.released = IsCalm(decoded)
      BY <2>1, <2>6 DEF Lifecycles
    <3> HIDE DEF lc2, t
    <3>3. t \in CaptureStates
      BY <2>7, <3>1, <3>2 DEF CaptureStates
    <3>4. /\ t.decoders = decoded /\ t.replayed = heard /\ t.lc = lc2 /\ t.routed = s.routed
      BY <2>7, <3>1 DEF CaptureStates
    <3>5. Lawful(t)
      BY <1>2, <2>3, <2>6, <3>2, <3>3, <3>4 DEF Lawful
    <3> QED
      BY <1>2, <3>2, <3>4, <3>5 DEF decoded, t
  <2>9. CASE routes
    <3> DEFINE out == IF gate THEN presses ELSE s.routed
    <3>1. t = [known EXCEPT !.routed = out]
      BY <2>2, <2>7, <2>9 DEF CaptureStates
    <3>2. out \in SUBSET Names
      BY <2>1, <2>5 DEF CaptureStates
    <3> HIDE DEF t, out
    <3>3. t \in CaptureStates
      BY <2>7, <3>1, <3>2 DEF CaptureStates
    <3>4. /\ t.decoders = decoded /\ t.replayed = heard /\ t.lc = s.lc /\ t.routed = out
      BY <2>7, <3>1 DEF CaptureStates
    <3>5. Lawful(t)
      BY <1>2, <2>3, <3>3, <3>4 DEF Lawful
    <3>6. s.lc.released /\ (~gate => out = s.routed) /\ (out # s.routed => out \subseteq PressedBy(s, i, report) \cup {"HAT"})
      BY <2>4, <2>9 DEF out, routes
    <3> QED
      BY <1>2, <3>4, <3>5, <3>6 DEF decoded, t
  <2> QED
    BY <2>8, <2>9
<1> QED
  BY <1>1, <1>2

(* reset_bound_inputs forgets what was down on both interfaces alike.      *)
LEMMA ResetProperties ==
  ASSUME NEW s, s \in CaptureStates, NEW bound \in BOOLEAN
  PROVE  LET t == Reset(s, bound)
         IN  /\ Lawful(t)
             /\ t.lc.bound = bound
             /\ t.routed = s.routed
             /\ \A i \in Interfaces : ~t.decoders[i].seen
<1> DEFINE t == Reset(s, bound)
           start == [i \in Interfaces |-> InitialDecoder(i)]
           silence == [i \in Interfaces |-> {}]
<1>1. \A i \in Interfaces : /\ start[i] \in DecoderType(i) /\ ~start[i].seen
                           /\ DownIn(i, start[i]) = {}
  <2>1. NoKeys \in [1..LongSlots -> KeyNames] /\ KeysIn(NoKeys) = {}
    BY DEF NoKeys, KeyNames, KeysIn, Range
  <2> QED
    BY <2>1 DEF InitialDecoder, DecoderType, KeyboardDecoders, JoystickDecoders, DownIn, Interfaces, Hats, Directions
<1>2. start \in DecoderStates
  BY <1>1 DEF DecoderStates, DecoderType
<1>3. silence \in Replays /\ \A i \in Interfaces : silence[i] = {}
  BY DEF Replays
<1>4. t = [s EXCEPT !.decoders = start, !.replayed = silence, !.lc.bound = bound, !.lc.released = FALSE]
  BY DEF Reset
<1> HIDE DEF t, start, silence
<1>5. /\ t \in CaptureStates
      /\ t.decoders = start /\ t.replayed = silence /\ t.routed = s.routed
      /\ t.lc.bound = bound /\ t.lc.released = FALSE
  BY <1>2, <1>3, <1>4 DEF CaptureStates, Lifecycles
<1> QED
  BY <1>1, <1>3, <1>5 DEF Lawful, t

-----------------------------------------------------------------------------

(* The inductive invariant.                                                *)

(* The types of the world and of the ghosts.                               *)
Typed ==
  /\ user \in [Interfaces -> SUBSET Names]
  /\ \A i \in Interfaces : user[i] \in Holdable(i)
  /\ kernel \in JoystickReports
  /\ inflight \in [Interfaces -> Seq(KeyboardReports) \cup Seq(JoystickReports)]
  /\ \A i \in Interfaces : inflight[i] \in Seq(ReportType(i)) /\ Len(inflight[i]) <= Room
  /\ routed \subseteq Names
  /\ current \in [Interfaces -> BOOLEAN]
  /\ held \subseteq Inputs("KEYBOARD") \cup Inputs("JOYSTICK")

(* What is on its way ends with what is.                                   *)
LastIsTrue(i) ==
  inflight[i] # <<>> =>
    IF i = "KEYBOARD" THEN inflight[i][Len(inflight[i])] \in ReportsOf(i, user[i])
    ELSE inflight[i][Len(inflight[i])] = kernel

(* A held input is down in all that is said of it.                         *)
HeldThroughout(i, x) ==
  /\ x \in user[i]
  /\ i = "JOYSTICK" => x \in DownIn(i, kernel)
  /\ \A n \in 1..Len(inflight[i]) : inflight[i][n].valid => x \in DownIn(i, inflight[i][n])
  /\ x \in Mapped /\ decoders[i].seen => x \in DownIn(i, decoders[i])

(* The invariant.                                                          *)
ReportsInv ==
  /\ Typed
  /\ Lawful(Before)
  /\ \A i \in Interfaces : LastIsTrue(i)
  /\ DownIn("JOYSTICK", kernel) \subseteq user["JOYSTICK"]
  /\ DecodersCatchUp
  /\ \A i \in Interfaces : \A x \in held \cap Inputs(i) : HeldThroughout(i, x)
  /\ HeldIsNotRouted

-----------------------------------------------------------------------------
(* Every action keeps it.                                                  *)

(* A report says what the user holds, unless the keyboard had no room for  *)
(* it.                                                                     *)
LEMMA ReportsDescribe ==
  ASSUME NEW i \in Interfaces, NEW down \in Holdable(i), NEW r \in ReportsOf(i, down)
  PROVE  /\ r \in ReportType(i)
         /\ r.valid \/ i = "JOYSTICK" => DownIn(i, r) = down
<1>1. CASE i = "KEYBOARD"
  <2> DEFINE full(n) == {s \in [1..n -> (down \cap Keys) \cup {NoKey}] :
                           /\ KeysIn(s) = down \cap Keys
                           /\ Cardinality({slot \in 1..n : s[slot] # NoKey})
                                = Cardinality(down \cap Keys)}
  <2>1. PICK n \in {ShortSlots, LongSlots} :
          \/ r \in [valid : {TRUE}, modifiers : {down \cap Modifiers}, keys : full(n)]
          \/ r \in [valid : {FALSE}, modifiers : {{}}, keys : {NoKeys}]
    BY <1>1 DEF ReportsOf
  <2>2. CASE r \in [valid : {TRUE}, modifiers : {down \cap Modifiers}, keys : full(n)]
    <3>1. /\ r \in [valid : BOOLEAN, modifiers : SUBSET Modifiers, keys : [1..n -> KeyNames]]
          /\ r.modifiers = down \cap Modifiers /\ KeysIn(r.keys) = down \cap Keys
      BY <2>2 DEF KeyNames
    <3>2. r \in KeyboardReports
      BY <3>1 DEF KeyboardReports
    <3>3. DownIn(i, r) = (down \cap Modifiers) \cup (down \cap Keys)
      BY <1>1, <3>1 DEF DownIn
    <3>4. down \subseteq Modifiers \cup Keys
      BY <1>1 DEF Holdable
    <3> QED
      BY <1>1, <3>2, <3>3, <3>4 DEF ReportType
  <2>3. CASE r \in [valid : {FALSE}, modifiers : {{}}, keys : {NoKeys}]
    <3>1. NoKeys \in [1..LongSlots -> KeyNames]
      BY DEF NoKeys, KeyNames
    <3>2. r \in KeyboardReports /\ ~r.valid
      BY <2>3, <3>1 DEF KeyboardReports
    <3> QED
      BY <1>1, <3>2 DEF ReportType
  <2> QED
    BY <2>1, <2>2, <2>3
<1>2. CASE i = "JOYSTICK"
  <2>1. r \in [valid : BOOLEAN,
               hat : IF down \cap Directions = {} THEN Hats \ Directions ELSE down \cap Directions,
               buttons : {down \cap Buttons}]
    BY <1>2 DEF ReportsOf
  <2>2. down \subseteq Buttons \cup Directions /\ ~Directions \subseteq down
    BY <1>2 DEF Holdable
  <2>3. {r.hat} \cap Directions = down \cap Directions /\ r.hat \in Hats
    <3>1. CASE down \cap Directions = {}
      BY <2>1, <3>1
    <3>2. CASE down \cap Directions # {}
      <4>1. r.hat \in down \cap Directions
        BY <2>1, <3>2
      <4>2. \A x, y \in down \cap Directions : x = y
        BY <2>2 DEF Directions
      <4>3. r.hat \in Hats
        BY <4>1 DEF Hats
      <4> QED
        BY <4>1, <4>2, <4>3
    <3> QED
      BY <3>1, <3>2
  <2>4. r \in JoystickReports /\ r.buttons = down \cap Buttons
    BY <2>1, <2>3 DEF JoystickReports
  <2>5. DownIn(i, r) = down
    BY <1>2, <2>2, <2>3, <2>4 DEF DownIn
  <2> QED
    BY <1>2, <2>4, <2>5 DEF ReportType
<1> QED
  BY <1>1, <1>2 DEF Interfaces

(* No input belongs to both interfaces.                                    *)
LEMMA InputsAreApart ==
  /\ Inputs("KEYBOARD") \cap Inputs("JOYSTICK") = {}
  /\ \A i \in Interfaces : Inputs(i) \subseteq Names /\ "HAT" \notin Inputs(i)
  /\ \A i \in Interfaces : \A down \in Holdable(i) : down \subseteq Inputs(i)
BY DEF Inputs, Names, Interfaces, Holdable, Directions

(* What an action makes the state is as lawful as that.                    *)
LEMMA LawMovesOn ==
  ASSUME NEW t, Lawful(t), Becomes(t)
  PROVE  Lawful(Before)' /\ routed' \subseteq Names
<1>1. /\ decoders' = t.decoders /\ lc' = t.lc /\ replayed' = t.replayed /\ routed' = t.routed
  BY DEF Becomes
<1>2. /\ t.decoders \in DecoderStates /\ t.lc \in Lifecycles /\ t.replayed \in Replays
      /\ t.routed \subseteq Names
  BY DEF Lawful, CaptureStates
<1>3. Before' \in CaptureStates
  BY <1>1, <1>2 DEF Before, CaptureStates
<1>4. Before'.decoders = t.decoders /\ Before'.lc = t.lc /\ Before'.replayed = t.replayed
  BY <1>1 DEF Before
<1>5. Lawful(Before')
  BY <1>3, <1>4 DEF Lawful
<1> QED
  BY <1>1, <1>2, <1>5 DEF Lawful, CaptureStates, DecoderStates

(* The invariant, said of the fields of Before.                            *)
LEMMA LawNow ==
  ASSUME ReportsInv
  PROVE  /\ Lawful(Before)
         /\ Before.decoders = decoders /\ Before.lc = lc /\ Before.replayed = replayed /\ Before.routed = {}
         /\ decoders \in DecoderStates
         /\ lc \in Lifecycles
BY DEF ReportsInv, Lawful, Before, CaptureStates

(* What an action leaves alone.                                            *)
LEMMA LawStays ==
  ASSUME ReportsInv, UNCHANGED <<decoders, lc, replayed>>
  PROVE  Lawful(Before)'
<1>1. Before' = Before
  BY DEF Before
<1> QED
  BY <1>1 DEF ReportsInv, Lawful

(* The user presses or lets go of something.                               *)
LEMMA UserMovesKeeps ==
  ASSUME ReportsInv, NEW i \in Interfaces, UserMoves(i)
  PROVE  ReportsInv'
<1> USE DEF ReportsInv
<1>0. PICK down \in Holdable(i) : \E report \in ReportsOf(i, down) :
        /\ user' = [user EXCEPT ![i] = down]
        /\ inflight' = [inflight EXCEPT ![i] = Append(@, report)]
        /\ kernel' = IF i = "JOYSTICK" THEN report ELSE kernel
        /\ held' = held \ (user[i] \ down)
  BY DEF UserMoves
<1>1. PICK report \in ReportsOf(i, down) :
        /\ user' = [user EXCEPT ![i] = down]
        /\ inflight' = [inflight EXCEPT ![i] = Append(@, report)]
        /\ kernel' = IF i = "JOYSTICK" THEN report ELSE kernel
        /\ held' = held \ (user[i] \ down)
  BY <1>0
<1>2. /\ Len(inflight[i]) < Room /\ routed' = {}
      /\ UNCHANGED <<decoders, lc, replayed, current>>
  <2>1. Len(inflight["KEYBOARD"]) \in Nat /\ Len(inflight["JOYSTICK"]) \in Nat
    BY LenProperties DEF ReportsInv, Typed, Interfaces
  <2>2. Len(inflight["KEYBOARD"]) + Len(inflight["JOYSTICK"]) < Room
    BY DEF UserMoves
  <2>3. \A m, n \in Nat : m + n < Room => m < Room /\ n < Room
    OBVIOUS
  <2>4. Len(inflight["KEYBOARD"]) < Room /\ Len(inflight["JOYSTICK"]) < Room
    BY ONLY <2>1, <2>2, <2>3
  <2> QED
    BY <2>4 DEF UserMoves, Interfaces
<1>3. /\ report \in ReportType(i)
      /\ report.valid \/ i = "JOYSTICK" => DownIn(i, report) = down
  BY ReportsDescribe
<1> DEFINE longer == Append(inflight[i], report)
<1>4. /\ inflight[i] \in Seq(ReportType(i)) /\ Len(inflight[i]) \in Nat
      /\ longer \in Seq(ReportType(i)) /\ longer # <<>>
      /\ Len(longer) = Len(inflight[i]) + 1
      /\ longer[Len(longer)] = report
      /\ \A n \in 1..Len(longer) : n # Len(longer) => n \in 1..Len(inflight[i]) /\ longer[n] = inflight[i][n]
  BY <1>3, AppendProperties, LenProperties, EmptySeq DEF Typed
<1>5. /\ inflight'[i] = longer /\ \A j \in Interfaces \ {i} : inflight'[j] = inflight[j]
      /\ user'[i] = down /\ \A j \in Interfaces \ {i} : user'[j] = user[j]
  BY <1>1 DEF Typed
<1> HIDE DEF longer
<1>6. down \subseteq Names /\ down \subseteq Inputs(i)
  BY InputsAreApart
<1>7. Typed'
  <2>1. user' \in [Interfaces -> SUBSET Names]
    BY <1>1, <1>6 DEF Typed
  <2>2. \A j \in Interfaces : user'[j] \in Holdable(j)
    BY <1>5 DEF Typed
  <2>3. kernel' \in JoystickReports
    BY <1>1, <1>3 DEF Typed, ReportType
  <2>4. \A j \in Interfaces : inflight'[j] \in Seq(ReportType(j)) /\ Len(inflight'[j]) <= Room
    BY <1>2, <1>4, <1>5 DEF Typed
  <2>5. inflight' \in [Interfaces -> Seq(KeyboardReports) \cup Seq(JoystickReports)]
    <3>1. longer \in Seq(KeyboardReports) \cup Seq(JoystickReports)
      BY <1>4 DEF ReportType
    <3>2. inflight' = [inflight EXCEPT ![i] = longer]
      BY <1>1 DEF longer
    <3> QED
      BY <3>1, <3>2 DEF Typed
  <2> QED
    BY <1>1, <1>2, <2>1, <2>2, <2>3, <2>4, <2>5 DEF Typed
<1>8. Lawful(Before)'
  BY <1>2, LawStays
<1>9. \A j \in Interfaces : LastIsTrue(j)'
  <2> SUFFICES ASSUME NEW j \in Interfaces, inflight'[j] # <<>>
               PROVE  IF j = "KEYBOARD" THEN inflight'[j][Len(inflight'[j])] \in ReportsOf(j, user'[j])
                      ELSE inflight'[j][Len(inflight'[j])] = kernel'
    BY DEF LastIsTrue
  <2>1. CASE j = i
    <3>1. inflight'[j][Len(inflight'[j])] = report /\ user'[j] = down
      BY <1>4, <1>5, <2>1
    <3>2. j # "KEYBOARD" => kernel' = report
      BY <1>1, <2>1 DEF Interfaces
    <3> QED
      BY <2>1, <3>1, <3>2
  <2>2. CASE j # i
    <3>1. inflight'[j] = inflight[j] /\ user'[j] = user[j]
      BY <1>5, <2>2
    <3>2. j # "KEYBOARD" => kernel' = kernel
      BY <1>1, <2>2 DEF Interfaces
    <3> QED
      BY <3>1, <3>2 DEF LastIsTrue
  <2> QED
    BY <2>1, <2>2
<1>10. DownIn("JOYSTICK", kernel') \subseteq user'["JOYSTICK"]
  <2>1. CASE i = "JOYSTICK"
    BY <1>1, <1>3, <1>5, <2>1
  <2>2. CASE i # "JOYSTICK"
    BY <1>1, <1>5, <2>2 DEF Interfaces
  <2> QED
    BY <2>1, <2>2
<1>11. DecodersCatchUp'
  <2> SUFFICES ASSUME NEW j \in Interfaces, current'[j], inflight'[j] = <<>>
               PROVE  DownIn(j, decoders'[j]) \cap Mapped =
                        Mapped \cap (IF j = "KEYBOARD" THEN user'[j] ELSE DownIn(j, kernel'))
    BY DEF DecodersCatchUp
  <2>1. j # i
    BY <1>4, <1>5
  <2>2. inflight[j] = <<>> /\ user'[j] = user[j] /\ current[j] /\ decoders' = decoders
    BY <1>2, <1>5, <2>1
  <2>3. j # "KEYBOARD" => kernel' = kernel
    BY <1>1, <2>1 DEF Interfaces
  <2> QED
    BY <2>2, <2>3 DEF DecodersCatchUp
<1>12. \A j \in Interfaces : \A x \in held' \cap Inputs(j) : HeldThroughout(j, x)'
  <2> SUFFICES ASSUME NEW j \in Interfaces, NEW x \in held' \cap Inputs(j)
               PROVE  HeldThroughout(j, x)'
    OBVIOUS
  <2>1. x \in held /\ HeldThroughout(j, x)
    BY <1>1
  <2>2. CASE j = i
    <3>1. x \in down
      BY <1>1, <2>1, <2>2 DEF HeldThroughout
    <3>2. j = "JOYSTICK" => x \in DownIn(j, kernel')
      BY <1>1, <1>3, <2>2, <3>1
    <3>3. \A n \in 1..Len(inflight'[j]) : inflight'[j][n].valid => x \in DownIn(j, inflight'[j][n])
      BY <1>3, <1>4, <1>5, <2>1, <2>2, <3>1 DEF HeldThroughout
    <3>4. x \in Mapped /\ decoders'[j].seen => x \in DownIn(j, decoders'[j])
      BY <1>2, <2>1 DEF HeldThroughout
    <3> QED
      BY <1>5, <2>2, <3>1, <3>2, <3>3, <3>4 DEF HeldThroughout
  <2>3. CASE j # i
    <3>1. inflight'[j] = inflight[j] /\ user'[j] = user[j] /\ decoders' = decoders
      BY <1>2, <1>5, <2>3
    <3>2. j = "JOYSTICK" => kernel' = kernel
      BY <1>1, <2>3
    <3> QED
      BY <2>1, <3>1, <3>2 DEF HeldThroughout
  <2> QED
    BY <2>2, <2>3
<1>13. HeldIsNotRouted'
  BY <1>2 DEF HeldIsNotRouted
<1> QED
  BY <1>7, <1>8, <1>9, <1>10, <1>11, <1>12, <1>13

(* A report arrives: report_received. A held input is down in it and in    *)
(* the decoder, so that no event presses it.                               *)
LEMMA DeliverKeeps ==
  ASSUME ReportsInv, NEW i \in Interfaces, Deliver(i)
  PROVE  ReportsInv'
<1> USE DEF ReportsInv
<1> DEFINE report == Head(inflight[i])
           rest   == Tail(inflight[i])
<1>1. PICK gate \in BOOLEAN : Becomes(Observe(Before, i, report, gate))
  BY DEF Deliver
<1> DEFINE t == Observe(Before, i, report, gate)
<1>2. /\ inflight[i] # <<>>
      /\ inflight' = [inflight EXCEPT ![i] = rest]
      /\ current' = [current EXCEPT ![i] = lc.bound /\ report.valid]
      /\ UNCHANGED <<user, kernel, held>>
  BY DEF Deliver
<1>3. /\ inflight[i] \in Seq(ReportType(i)) /\ Len(inflight[i]) \in Nat \ {0}
      /\ report \in ReportType(i) /\ report = inflight[i][1]
      /\ rest \in Seq(ReportType(i)) /\ Len(rest) = Len(inflight[i]) - 1
      /\ \A n \in 1..Len(rest) : rest[n] = inflight[i][n + 1]
      /\ rest # <<>> => Len(rest) # 0
      /\ rest = <<>> => Len(inflight[i]) = 1
  <2>1. inflight[i] \in Seq(ReportType(i)) /\ Len(inflight[i]) \in Nat \ {0}
    BY <1>2, EmptySeq DEF Typed
  <2>2. /\ rest \in Seq(ReportType(i)) /\ Len(rest) = Len(inflight[i]) - 1
        /\ \A n \in 1..Len(rest) : rest[n] = inflight[i][n + 1]
        /\ report \in ReportType(i)
    BY <1>2, <2>1, HeadTailProperties
  <2>3. rest # <<>> => Len(rest) # 0
    BY <2>2, EmptySeq
  <2>4. rest = <<>> => Len(rest) = 0
    BY EmptySeq
  <2>5. report = inflight[i][1]
    BY <2>1
  <2> QED
    BY <2>1, <2>2, <2>3, <2>4, <2>5
<1>4. /\ Before.decoders = decoders /\ Before.lc = lc /\ Before.routed = {}
      /\ Lawful(Before) /\ decoders \in DecoderStates
  BY LawNow
<1> HIDE DEF report, rest
<1>5. /\ Lawful(t)
      /\ ~(lc.bound /\ report.valid) => t = Before
      /\ lc.bound /\ report.valid => t.decoders = Decoded(Before, i, report)
      /\ t.routed # {} => /\ lc.released
                         /\ t.routed \subseteq PressedBy(Before, i, report) \cup {"HAT"}
  BY <1>3, <1>4, ObserveProperties
<1> HIDE DEF t
<1>6. decoders' = t.decoders /\ routed' = t.routed
  BY <1>1 DEF Becomes, t
<1>7. /\ \A j \in Interfaces \ {i} : decoders'[j] = decoders[j] /\ inflight'[j] = inflight[j]
                                      /\ current'[j] = current[j]
      /\ inflight'[i] = rest
      /\ decoders'[i] = decoders[i] \/ (DownIn(i, decoders'[i]) = DownIn(i, report) /\ report.valid)
      /\ current'[i] => report.valid /\ DownIn(i, decoders'[i]) = DownIn(i, report)
      /\ decoders'[i].seen => decoders[i].seen \/ report.valid
  <2>1. /\ DownIn(i, Decoded(Before, i, report)[i]) = DownIn(i, report)
        /\ \A j \in Interfaces \ {i} : Decoded(Before, i, report)[j] = decoders[j]
    BY <1>3, <1>4, HearingProperties
  <2>2. /\ \A j \in Interfaces \ {i} : inflight'[j] = inflight[j] /\ current'[j] = current[j]
        /\ inflight'[i] = rest
        /\ current'[i] = (lc.bound /\ report.valid)
    BY <1>2 DEF Typed
  <2>3. CASE lc.bound /\ report.valid
    BY <1>5, <1>6, <2>1, <2>2, <2>3
  <2>4. CASE ~(lc.bound /\ report.valid)
    <3>1. decoders' = decoders
      BY <1>4, <1>5, <1>6, <2>4
    <3>2. ~current'[i]
      BY <2>2, <2>4
    <3>3. \A j \in Interfaces : decoders'[j] = decoders[j]
      BY <3>1
    <3>4. decoders'[i] = decoders[i] /\ (decoders'[i].seen => decoders[i].seen \/ report.valid)
      BY <3>3
    <3>5. \A j \in Interfaces \ {i} : decoders'[j] = decoders[j] /\ inflight'[j] = inflight[j]
                                    /\ current'[j] = current[j]
      BY <2>2, <3>3
    <3> QED
      BY <2>2, <3>2, <3>4, <3>5
  <2> QED
    BY <2>3, <2>4
<1>8. Lawful(Before)' /\ routed' \subseteq Names
  BY <1>1, <1>5, LawMovesOn DEF t
<1>9. Typed'
  <2>1. /\ \A j \in Interfaces : inflight'[j] \in Seq(ReportType(j)) /\ Len(inflight'[j]) <= Room
    <3> SUFFICES ASSUME NEW j \in Interfaces
                 PROVE  inflight'[j] \in Seq(ReportType(j)) /\ Len(inflight'[j]) <= Room
      OBVIOUS
    <3>1. CASE j = i
      <4>1. Len(rest) <= Len(inflight[i]) /\ Len(inflight[i]) <= Room /\ Len(rest) \in Nat
        BY <1>3 DEF Typed
      <4> QED
        BY <1>3, <1>7, <3>1, <4>1
    <3>2. CASE j # i
      BY <1>7, <3>2 DEF Typed
    <3> QED
      BY <3>1, <3>2
  <2>2. inflight' \in [Interfaces -> Seq(KeyboardReports) \cup Seq(JoystickReports)]
    <3>1. rest \in Seq(KeyboardReports) \cup Seq(JoystickReports)
      BY <1>3 DEF ReportType
    <3> QED
      BY <1>2, <3>1 DEF Typed
  <2>3. current' \in [Interfaces -> BOOLEAN]
    <3>1. (lc.bound /\ report.valid) \in BOOLEAN
      OBVIOUS
    <3> QED
      BY <1>2, <3>1 DEF Typed
  <2> QED
    BY <1>2, <1>8, <2>1, <2>2, <2>3 DEF Typed
<1>10. \A j \in Interfaces : LastIsTrue(j)'
  <2> SUFFICES ASSUME NEW j \in Interfaces, inflight'[j] # <<>>
               PROVE  IF j = "KEYBOARD" THEN inflight'[j][Len(inflight'[j])] \in ReportsOf(j, user'[j])
                      ELSE inflight'[j][Len(inflight'[j])] = kernel'
    BY DEF LastIsTrue
  <2>1. inflight[j] # <<>> /\ inflight'[j][Len(inflight'[j])] = inflight[j][Len(inflight[j])]
    <3>1. CASE j = i
      <4>1. rest # <<>> /\ Len(rest) \in 1..Len(rest)
        BY <1>3, <1>7, <3>1
      <4>2. rest[Len(rest)] = inflight[i][Len(rest) + 1] /\ Len(rest) + 1 = Len(inflight[i])
        BY <1>3, <4>1
      <4> QED
        BY <1>2, <1>7, <3>1, <4>2
    <3>2. CASE j # i
      BY <1>7, <3>2
    <3> QED
      BY <3>1, <3>2
  <2> QED
    BY <1>2, <2>1 DEF LastIsTrue
<1>11. DecodersCatchUp'
  <2> SUFFICES ASSUME NEW j \in Interfaces, current'[j], inflight'[j] = <<>>
               PROVE  DownIn(j, decoders'[j]) \cap Mapped =
                        Mapped \cap (IF j = "KEYBOARD" THEN user[j] ELSE DownIn(j, kernel))
    BY <1>2 DEF DecodersCatchUp
  <2>1. CASE j = i
    <3>1. report = inflight[i][Len(inflight[i])]
      BY <1>3, <1>7, <2>1
    <3>2. report.valid /\ DownIn(i, decoders'[i]) = DownIn(i, report)
      BY <1>7, <2>1
    <3>3. CASE i = "KEYBOARD"
      <4>1. report \in ReportsOf(i, user[i]) /\ user[i] \in Holdable(i)
        BY <1>2, <3>1, <3>3 DEF LastIsTrue, Typed
      <4>2. DownIn(i, report) = user[i]
        BY <3>2, <4>1, ReportsDescribe
      <4> QED
        BY <2>1, <3>2, <3>3, <4>2
    <3>4. CASE i # "KEYBOARD"
      <4>1. report = kernel
        BY <1>2, <3>1, <3>4 DEF LastIsTrue
      <4> QED
        BY <2>1, <3>2, <3>4, <4>1
    <3> QED
      BY <3>3, <3>4
  <2>2. CASE j # i
    BY <1>7, <2>2 DEF DecodersCatchUp
  <2> QED
    BY <2>1, <2>2
<1>12. \A j \in Interfaces : \A x \in held' \cap Inputs(j) : HeldThroughout(j, x)'
  <2> SUFFICES ASSUME NEW j \in Interfaces, NEW x \in held \cap Inputs(j)
               PROVE  HeldThroughout(j, x)'
    BY <1>2
  <2>1. HeldThroughout(j, x)
    OBVIOUS
  <2>2. CASE j = i
    <3>1. report.valid => x \in DownIn(i, report)
      BY <1>3, <2>1, <2>2 DEF HeldThroughout
    <3>2. \A n \in 1..Len(rest) : rest[n].valid => x \in DownIn(i, rest[n])
      <4> SUFFICES ASSUME NEW n \in 1..Len(rest), rest[n].valid PROVE x \in DownIn(i, rest[n])
        OBVIOUS
      <4>1. n + 1 \in 1..Len(inflight[i]) /\ rest[n] = inflight[i][n + 1]
        BY <1>3
      <4> QED
        BY <2>1, <2>2, <4>1 DEF HeldThroughout
    <3>3. x \in Mapped /\ decoders'[i].seen => x \in DownIn(i, decoders'[i])
      BY <1>7, <2>1, <2>2, <3>1 DEF HeldThroughout
    <3> QED
      BY <1>2, <1>7, <2>1, <2>2, <3>2, <3>3 DEF HeldThroughout
  <2>3. CASE j # i
    BY <1>2, <1>7, <2>1, <2>3 DEF HeldThroughout
  <2> QED
    BY <2>2, <2>3
<1>13. HeldIsNotRouted'
  <2> SUFFICES ASSUME NEW x \in routed' \cap Mapped \cap held PROVE FALSE
    BY <1>2 DEF HeldIsNotRouted
  <2>1. lc.released /\ x \in PressedBy(Before, i, report) \cup {"HAT"}
    BY <1>5, <1>6
  <2>2. x # "HAT"
    BY InputsAreApart DEF Typed, Interfaces
  <2>3. x \in DownIn(i, report) /\ x \notin DownIn(i, decoders[i])
    BY <1>4, <2>1, <2>2 DEF PressedBy
  <2>4. x \in Inputs(i)
    BY <1>3, <2>3, HatIsNoInput
  <2>5. decoders[i].seen
    BY <1>4, <2>1 DEF Lawful
  <2> QED
    BY <2>3, <2>4, <2>5 DEF HeldThroughout
<1> QED
  BY <1>2, <1>8, <1>9, <1>10, <1>11, <1>12, <1>13

(* What is taken to be held at a transition is down, and nothing about it  *)
(* is on its way.                                                          *)
LEMMA HeldOnIsDown ==
  ASSUME ReportsInv, NEW i \in Interfaces, NEW x \in HeldOn(i)
  PROVE  /\ inflight[i] = <<>> /\ x \in Inputs(i) /\ x \in user[i]
         /\ i = "JOYSTICK" => x \in DownIn(i, kernel)
<1>1. inflight[i] = <<>> /\ x \in IF i = "KEYBOARD" THEN user[i] ELSE DownIn(i, kernel)
  BY DEF HeldOn
<1>2. x \in user[i]
  BY <1>1 DEF ReportsInv, Interfaces
<1>3. x \in Inputs(i)
  BY <1>2, InputsAreApart DEF ReportsInv, Typed
<1> QED
  BY <1>1, <1>2, <1>3 DEF Interfaces

(* After a transition, a held input was held before or is taken to be.     *)
LEMMA HeldOnProperties ==
  ASSUME ReportsInv, NEW some \in SUBSET Interfaces,
         held' = held \cup UNION {HeldOn(i) : i \in some}
  PROVE  /\ held' \subseteq Inputs("KEYBOARD") \cup Inputs("JOYSTICK")
         /\ \A i \in Interfaces : \A x \in held' \cap Inputs(i) :
              \/ x \in held /\ HeldThroughout(i, x)
              \/ i \in some /\ x \in HeldOn(i)
<1>1. \A i \in some : HeldOn(i) \subseteq Inputs(i)
  BY HeldOnIsDown
<1>2. held' \subseteq Inputs("KEYBOARD") \cup Inputs("JOYSTICK")
  BY <1>1 DEF ReportsInv, Typed, Interfaces
<1>3. ASSUME NEW i \in Interfaces, NEW x \in held' \cap Inputs(i), x \notin held
      PROVE  i \in some /\ x \in HeldOn(i)
  <2>1. PICK j \in some : x \in HeldOn(j)
    BY <1>3
  <2>2. j = i
    BY <1>1, <2>1, InputsAreApart DEF Interfaces
  <2> QED
    BY <2>1, <2>2
<1> QED
  BY <1>2, <1>3 DEF ReportsInv

(* sync_lifecycle_binding: a binding starts from what is seeded.           *)
LEMMA BindKeeps ==
  ASSUME ReportsInv, Bind
  PROVE  ReportsInv'
<1> USE DEF ReportsInv
<1>1. PICK keyboard \in ReportsOf("KEYBOARD", user["KEYBOARD"]), read \in SUBSET Interfaces :
        LET bound  == Reset(Before, TRUE)
            first  == IF "KEYBOARD" \in read
                      THEN Observe(bound, "KEYBOARD", keyboard, FALSE) ELSE bound
            seeded == IF "JOYSTICK" \in read
                      THEN Observe(first, "JOYSTICK", Snapshot(kernel), FALSE) ELSE first
        IN /\ Becomes(seeded)
           /\ current' = [i \in Interfaces |-> seeded.decoders[i].seen]
  BY DEF Bind
<1>2. /\ held' = held \cup UNION {HeldOn(i) : i \in Interfaces}
      /\ UNCHANGED <<user, kernel, inflight>>
  BY DEF Bind
<1> DEFINE bound  == Reset(Before, TRUE)
           first  == IF "KEYBOARD" \in read
                     THEN Observe(bound, "KEYBOARD", keyboard, FALSE) ELSE bound
           joystick == Snapshot(kernel)
           seeded == IF "JOYSTICK" \in read
                     THEN Observe(first, "JOYSTICK", joystick, FALSE) ELSE first
<1>3. /\ Becomes(seeded)
      /\ current' = [i \in Interfaces |-> seeded.decoders[i].seen]
  BY <1>1
<1>4. /\ Lawful(bound) /\ bound.lc.bound = TRUE /\ bound.routed = {}
      /\ \A i \in Interfaces : ~bound.decoders[i].seen
  BY LawNow, ResetProperties DEF Lawful
<1>5. /\ keyboard \in ReportType("KEYBOARD")
      /\ keyboard.valid => DownIn("KEYBOARD", keyboard) = user["KEYBOARD"]
  BY ReportsDescribe DEF Typed, Interfaces
<1>6. /\ joystick \in ReportType("JOYSTICK") /\ joystick.valid = kernel.valid
      /\ DownIn("JOYSTICK", joystick) \cap Mapped = DownIn("JOYSTICK", kernel) \cap Mapped
  <2>1. /\ joystick \in JoystickReports /\ joystick.valid = kernel.valid
        /\ joystick.hat = kernel.hat /\ joystick.buttons = kernel.buttons \cap Mapped
    BY DEF Snapshot, Typed, JoystickReports
  <2> QED
    BY <2>1 DEF ReportType, DownIn
<1> HIDE DEF bound, joystick
<1>7. /\ Lawful(first) /\ first.lc.bound = TRUE /\ first.routed = {}
      /\ ~first.decoders["JOYSTICK"].seen
      /\ first.decoders["KEYBOARD"].seen =>
           DownIn("KEYBOARD", first.decoders["KEYBOARD"]) = user["KEYBOARD"]
  <2>1. CASE "KEYBOARD" \in read
    <3>1. /\ Lawful(first) /\ first.lc.bound = TRUE /\ first.routed = {}
          /\ ~keyboard.valid => first = bound
          /\ keyboard.valid => first.decoders = Decoded(bound, "KEYBOARD", keyboard)
      BY <1>4, <1>5, <2>1, ObserveProperties DEF Interfaces
    <3>2. CASE keyboard.valid
      <4> DEFINE decoded == Decoded(bound, "KEYBOARD", keyboard)
      <4>1. /\ DownIn("KEYBOARD", decoded["KEYBOARD"]) = DownIn("KEYBOARD", keyboard)
            /\ decoded["JOYSTICK"] = bound.decoders["JOYSTICK"]
        BY <1>4, <1>5, HearingProperties DEF Interfaces
      <4> HIDE DEF first, decoded
      <4>2. first.decoders = decoded
        BY <3>1, <3>2 DEF decoded
      <4> QED
        BY <1>4, <1>5, <3>1, <3>2, <4>1, <4>2 DEF Interfaces
    <3>3. CASE ~keyboard.valid
      <4> HIDE DEF first
      <4> QED
        BY <1>4, <3>1, <3>3 DEF Interfaces
    <3> QED
      BY <3>2, <3>3
  <2>2. CASE "KEYBOARD" \notin read
    BY <1>4, <2>2 DEF Interfaces
  <2> QED
    BY <2>1, <2>2
<1> HIDE DEF first
<1>8. /\ Lawful(seeded) /\ seeded.routed = {}
      /\ seeded.decoders["KEYBOARD"].seen =>
           DownIn("KEYBOARD", seeded.decoders["KEYBOARD"]) = user["KEYBOARD"]
      /\ seeded.decoders["JOYSTICK"].seen =>
           DownIn("JOYSTICK", seeded.decoders["JOYSTICK"]) \cap Mapped
             = DownIn("JOYSTICK", kernel) \cap Mapped
  <2>1. CASE "JOYSTICK" \in read
    <3>1. /\ Lawful(seeded) /\ seeded.routed = {}
          /\ ~joystick.valid => seeded = first
          /\ joystick.valid => seeded.decoders = Decoded(first, "JOYSTICK", joystick)
      BY <1>6, <1>7, <2>1, ObserveProperties DEF Interfaces
    <3>2. CASE joystick.valid
      <4> DEFINE decoded == Decoded(first, "JOYSTICK", joystick)
      <4>1. /\ DownIn("JOYSTICK", decoded["JOYSTICK"]) = DownIn("JOYSTICK", joystick)
            /\ decoded["KEYBOARD"] = first.decoders["KEYBOARD"]
        BY <1>6, <1>7, HearingProperties DEF Interfaces
      <4> HIDE DEF seeded, decoded
      <4>2. seeded.decoders = decoded
        BY <3>1, <3>2 DEF decoded
      <4> QED
        BY <1>6, <1>7, <3>1, <4>1, <4>2
    <3>3. CASE ~joystick.valid
      <4> HIDE DEF seeded
      <4> QED
        BY <1>7, <3>1, <3>3
    <3> QED
      BY <3>2, <3>3
  <2>2. CASE "JOYSTICK" \notin read
    BY <1>7, <2>2
  <2> QED
    BY <2>1, <2>2
<1> HIDE DEF seeded
<1>9. decoders' = seeded.decoders /\ routed' = {}
  BY <1>3, <1>8 DEF Becomes
<1>10. Lawful(Before)'
  BY <1>3, <1>8, LawMovesOn
<1>11. Typed'
  <2>1. \A i \in Interfaces : seeded.decoders[i].seen \in BOOLEAN
    BY <1>8 DEF Lawful, CaptureStates, DecoderStates, DecoderType, KeyboardDecoders, JoystickDecoders
  <2>2. current' \in [Interfaces -> BOOLEAN]
    BY <1>3, <2>1
  <2>3. held' \subseteq Inputs("KEYBOARD") \cup Inputs("JOYSTICK")
    BY <1>2, HeldOnProperties
  <2> QED
    BY <1>2, <1>9, <2>2, <2>3 DEF Typed
<1>12. \A i \in Interfaces : LastIsTrue(i)'
  BY <1>2 DEF LastIsTrue
<1>13. DecodersCatchUp'
  <2> SUFFICES ASSUME NEW i \in Interfaces, current'[i], inflight'[i] = <<>>
               PROVE  DownIn(i, decoders'[i]) \cap Mapped =
                        Mapped \cap (IF i = "KEYBOARD" THEN user[i] ELSE DownIn(i, kernel))
    BY <1>2 DEF DecodersCatchUp
  <2>1. seeded.decoders[i].seen
    BY <1>3
  <2> QED
    BY <1>8, <1>9, <2>1 DEF Interfaces
<1>14. \A i \in Interfaces : \A x \in held' \cap Inputs(i) : HeldThroughout(i, x)'
  <2> SUFFICES ASSUME NEW i \in Interfaces, NEW x \in held' \cap Inputs(i)
               PROVE  HeldThroughout(i, x)'
    OBVIOUS
  <2>1. /\ x \in user[i] /\ (i = "JOYSTICK" => x \in DownIn(i, kernel))
        /\ \A n \in 1..Len(inflight[i]) : inflight[i][n].valid => x \in DownIn(i, inflight[i][n])
    <3>1. CASE HeldThroughout(i, x)
      BY <3>1 DEF HeldThroughout
    <3>2. CASE x \in HeldOn(i)
      <4>1. Len(<<>>) = 0
        OBVIOUS
      <4> QED
        BY <3>2, <4>1, HeldOnIsDown
    <3> QED
      BY <1>2, <3>1, <3>2, HeldOnProperties
  <2>2. x \in Mapped /\ decoders'[i].seen => x \in DownIn(i, decoders'[i])
    BY <1>8, <1>9, <2>1 DEF Interfaces
  <2> QED
    BY <1>2, <2>1, <2>2 DEF HeldThroughout
<1>15. HeldIsNotRouted'
  BY <1>9 DEF HeldIsNotRouted
<1> QED
  BY <1>2, <1>10, <1>11, <1>12, <1>13, <1>14, <1>15

(* A binding ends.                                                         *)
LEMMA UnbindKeeps ==
  ASSUME ReportsInv, Unbind
  PROVE  ReportsInv'
<1> USE DEF ReportsInv
<1> DEFINE t == Reset(Before, FALSE)
<1>1. /\ Becomes(t) /\ current' = [i \in Interfaces |-> FALSE]
      /\ UNCHANGED <<user, kernel, inflight, held>>
  BY DEF Unbind
<1>2. Lawful(t) /\ t.routed = {} /\ \A i \in Interfaces : ~t.decoders[i].seen
  BY LawNow, ResetProperties DEF Lawful
<1> HIDE DEF t
<1>3. decoders' = t.decoders /\ routed' = {}
  BY <1>1, <1>2 DEF Becomes
<1>4. Lawful(Before)'
  BY <1>1, <1>2, LawMovesOn
<1>5. Typed'
  BY <1>1, <1>3 DEF Typed
<1>6. \A i \in Interfaces : LastIsTrue(i)'
  BY <1>1 DEF LastIsTrue
<1>7. DecodersCatchUp'
  BY <1>1 DEF DecodersCatchUp
<1>8. \A i \in Interfaces : \A x \in held' \cap Inputs(i) : HeldThroughout(i, x)'
  BY <1>1, <1>2, <1>3 DEF HeldThroughout
<1>9. HeldIsNotRouted'
  BY <1>3 DEF HeldIsNotRouted
<1> QED
  BY <1>1, <1>4, <1>5, <1>6, <1>7, <1>8, <1>9

(* muse_on_listener_lifecycle_focus_changed.                               *)
LEMMA FocusChangesKeeps ==
  ASSUME ReportsInv, FocusChanges
  PROVE  ReportsInv'
<1> USE DEF ReportsInv
<1> DEFINE some == {j \in Interfaces : ~lc.foreground /\ current[j]}
<1>1. /\ lc' = [lc EXCEPT !.foreground = ~@, !.released = @ /\ ~lc.foreground]
      /\ routed' = {}
      /\ held' = held \cup UNION {HeldOn(i) : i \in some}
      /\ UNCHANGED <<user, kernel, inflight, decoders, replayed, current>>
  BY DEF FocusChanges
<1>2. lc' \in Lifecycles /\ lc'.bound = lc.bound /\ (lc'.released => lc.released)
  BY <1>1, LawNow DEF Lifecycles
<1>3. Lawful(Before)'
  <2>1. Before' = [Before EXCEPT !.lc = lc']
    BY <1>1 DEF Before
  <2>2. /\ Before' \in CaptureStates /\ Before'.lc = lc' /\ Before'.decoders = decoders
        /\ Before'.replayed = replayed
    BY <1>2, <2>1, LawNow DEF Lawful, CaptureStates
  <2>3. Lawful(Before')
    BY <1>2, <2>2, LawNow DEF Lawful
  <2> QED
    BY <2>3 DEF Lawful, CaptureStates, DecoderStates
<1>4. some \in SUBSET Interfaces
  OBVIOUS
<1> HIDE DEF some
<1>5. /\ held' \subseteq Inputs("KEYBOARD") \cup Inputs("JOYSTICK")
      /\ \A i \in Interfaces : \A x \in held' \cap Inputs(i) :
           (x \in held /\ HeldThroughout(i, x)) \/ (i \in some /\ x \in HeldOn(i))
  BY <1>1, <1>4, HeldOnProperties
<1>6. Typed'
  BY <1>1, <1>5 DEF Typed
<1>7. \A i \in Interfaces : LastIsTrue(i)'
  BY <1>1 DEF LastIsTrue
<1>8. DecodersCatchUp'
  BY <1>1 DEF DecodersCatchUp
<1>9. \A i \in Interfaces : \A x \in held' \cap Inputs(i) : HeldThroughout(i, x)'
  <2> SUFFICES ASSUME NEW i \in Interfaces, NEW x \in held' \cap Inputs(i)
               PROVE  HeldThroughout(i, x)'
    OBVIOUS
  <2>1. CASE HeldThroughout(i, x)
    BY <1>1, <2>1 DEF HeldThroughout
  <2>2. CASE i \in some /\ x \in HeldOn(i)
    <3>1. /\ inflight[i] = <<>> /\ x \in user[i] /\ (i = "JOYSTICK" => x \in DownIn(i, kernel))
      BY <2>2, HeldOnIsDown
    <3>2. x \in Mapped => x \in DownIn(i, decoders[i])
      BY <2>2, <3>1 DEF some, DecodersCatchUp, Interfaces
    <3>3. \A n \in 1..Len(inflight[i]) : inflight[i][n].valid => x \in DownIn(i, inflight[i][n])
      <4>1. Len(<<>>) = 0
        OBVIOUS
      <4> QED
        BY <3>1, <4>1
    <3> QED
      BY <1>1, <3>1, <3>2, <3>3 DEF HeldThroughout
  <2> QED
    BY <1>5, <2>1, <2>2
<1>10. HeldIsNotRouted'
  BY <1>1 DEF HeldIsNotRouted
<1> QED
  BY <1>1, <1>3, <1>6, <1>7, <1>8, <1>9, <1>10

(* It holds before anything is bound.                                      *)
LEMMA InitialReports ==
  ASSUME Init
  PROVE  ReportsInv
<1> DEFINE start == [i \in Interfaces |-> InitialDecoder(i)]
<1>1. /\ user \in [Interfaces -> UNION {Holdable(i) : i \in Interfaces}]
      /\ \A i \in Interfaces : user[i] \in Holdable(i)
      /\ kernel = Idle
      /\ inflight = [i \in Interfaces |-> <<>>]
      /\ decoders = start
      /\ lc = [bound |-> FALSE, foreground |-> FALSE, released |-> FALSE]
      /\ routed = {} /\ held = {}
      /\ replayed = [i \in Interfaces |-> {}]
      /\ current = [i \in Interfaces |-> FALSE]
  BY DEF Init
<1>2. kernel \in JoystickReports /\ DownIn("JOYSTICK", kernel) = {}
  BY <1>1 DEF Idle, JoystickReports, DownIn, Hats, Directions
<1>3. \A i \in Interfaces : inflight[i] = <<>> /\ Len(inflight[i]) = 0 /\ inflight[i] \in Seq(ReportType(i))
  BY <1>1, EmptySeq
<1>4. Typed
  <2>1. user \in [Interfaces -> SUBSET Names]
    <3>1. \A i \in Interfaces : user[i] \subseteq Names
      BY <1>1, InputsAreApart
    <3> QED
      BY <1>1, <3>1
  <2>2. inflight \in [Interfaces -> Seq(KeyboardReports) \cup Seq(JoystickReports)]
    BY <1>1, EmptySeq
  <2> QED
    BY <1>1, <1>2, <1>3, <2>1, <2>2 DEF Typed
<1>5. \A i \in Interfaces : start[i] \in DecoderType(i) /\ ~start[i].seen /\ DownIn(i, start[i]) = {}
  <2>1. NoKeys \in [1..LongSlots -> KeyNames] /\ KeysIn(NoKeys) = {}
    BY DEF NoKeys, KeyNames, KeysIn, Range
  <2> QED
    BY <2>1 DEF InitialDecoder, DecoderType, KeyboardDecoders, JoystickDecoders, DownIn, Interfaces, Hats, Directions
<1>6. Lawful(Before)
  <2>1. start \in DecoderStates
    BY <1>5 DEF DecoderStates, DecoderType
  <2>2. lc \in Lifecycles /\ ~lc.released
    BY <1>1 DEF Lifecycles
  <2>3. replayed \in Replays /\ \A i \in Interfaces : replayed[i] = {}
    BY <1>1 DEF Replays
  <2>4. Before \in CaptureStates
    BY <1>1, <2>1, <2>2, <2>3 DEF Before, CaptureStates
  <2> HIDE DEF start
  <2> QED
    BY <1>1, <1>5, <2>2, <2>3, <2>4 DEF Lawful, Before
<1>7. \A i \in Interfaces : LastIsTrue(i)
  BY <1>3 DEF LastIsTrue
<1>8. DecodersCatchUp
  BY <1>1 DEF DecodersCatchUp
<1>9. HeldIsNotRouted
  BY <1>1 DEF HeldIsNotRouted
<1> QED
  BY <1>1, <1>2, <1>4, <1>6, <1>7, <1>8, <1>9 DEF ReportsInv

(* It is inductive.                                                        *)
LEMMA ReportsAreInductive ==
  ASSUME ReportsInv, [Next]_vars
  PROVE  ReportsInv'
<1>1. CASE UNCHANGED vars
  <2>1. /\ UNCHANGED <<user, kernel, inflight, decoders, lc, routed>>
        /\ UNCHANGED <<replayed, current, held>>
    BY <1>1 DEF vars, ghosts
  <2>2. Lawful(Before)'
    BY <2>1, LawStays
  <2> QED
    BY <2>1, <2>2 DEF ReportsInv, Typed, LastIsTrue, DecodersCatchUp, HeldThroughout, HeldIsNotRouted
<1>2. ASSUME NEW i \in Interfaces, UserMoves(i)
      PROVE  ReportsInv'
  BY <1>2, UserMovesKeeps
<1>3. ASSUME NEW i \in Interfaces, Deliver(i)
      PROVE  ReportsInv'
  BY <1>3, DeliverKeeps
<1>4. CASE Bind
  BY <1>4, BindKeeps
<1>5. CASE Unbind
  BY <1>5, UnbindKeeps
<1>6. CASE FocusChanges
  BY <1>6, FocusChangesKeeps
<1> QED
  BY <1>1, <1>2, <1>3, <1>4, <1>5, <1>6 DEF Next

-----------------------------------------------------------------------------
(* Theorems.                                                               *)

(* It always holds.                                                        *)
LEMMA ReportsAreLawful == Spec => []ReportsInv
<1>1. Init => ReportsInv
  BY InitialReports
<1>2. ReportsInv /\ [Next]_vars => ReportsInv'
  BY ReportsAreInductive
<1> QED
  BY <1>1, <1>2, PTL DEF Spec

(* Every field keeps its type; Neutral Entry is left with the binding, and *)
(* needs both interfaces heard (muse_on_listener_lifecycle.c).             *)
THEOREM ReportsAreTyped == Spec => []TypeOK
<1>1. ReportsInv => TypeOK
  <2> SUFFICES ASSUME ReportsInv PROVE TypeOK
    OBVIOUS
  <2>1. /\ decoders["KEYBOARD"] \in KeyboardDecoders /\ decoders["JOYSTICK"] \in JoystickDecoders
    BY LawNow DEF DecoderStates, DecoderType, Interfaces
  <2>2. /\ decoders["KEYBOARD"].keys \in [1..LongSlots -> Keys \cup {NoKey}]
        /\ decoders["KEYBOARD"].modifiers \subseteq Modifiers
        /\ decoders["JOYSTICK"].hat \in Hats
        /\ decoders["JOYSTICK"].buttons \subseteq Buttons
    BY <2>1 DEF KeyboardDecoders, JoystickDecoders, KeyNames
  <2>3. /\ lc \in Lifecycles
        /\ lc.released => lc.bound /\ \A i \in Interfaces : decoders[i].seen
    BY LawNow DEF Lawful
  <2> QED
    BY <2>2, <2>3 DEF TypeOK, ReportsInv, Typed, Lifecycles
<1> QED
  BY <1>1, ReportsAreLawful, PTL

(* No press and no release is lost between the reports and the events of   *)
(* muse_on_decode_report, whatever the order and the size of the reports,  *)
(* and however the elements are enumerated.                                *)
THEOREM EventsAlwaysTellTheState == Spec => []EventsTellState
<1>1. ReportsInv => EventsTellState
  BY LawNow DEF Lawful, EventsTellState
<1> QED
  BY <1>1, ReportsAreLawful, PTL

(* Once what is in flight arrived, the decoders know what is down          *)
(* (muse_on_decode_report, report_received).                               *)
THEOREM DecodersAlwaysCatchUp == Spec => []DecodersCatchUp
<1>1. ReportsInv => DecodersCatchUp
  BY DEF ReportsInv
<1> QED
  BY <1>1, ReportsAreLawful, PTL

(* What is held across a binding or a return of Codex never triggers an    *)
(* action: only a fresh press does                                         *)
(* (muse_on_listener_lifecycle_observe_report).                            *)
THEOREM HeldInputsAreNeverRouted == Spec => []HeldIsNotRouted
<1>1. ReportsInv => HeldIsNotRouted
  BY DEF ReportsInv
<1> QED
  BY <1>1, ReportsAreLawful, PTL
=============================================================================
