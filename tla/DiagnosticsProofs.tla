--------------------------- MODULE DiagnosticsProofs ---------------------------
(***************************************************************************)
(* Diagnostics, for every capacity of the ring and every set of lines: the *)
(* ring is the bounded history it promises (a refinement of                *)
(* DiagnosticsLog), the reason shown is that of the last listener, and the *)
(* copy is the beginning of the whole text.                                *)
(*                                                                         *)
(* The first two rest on how an index wraps.  While the ring fills up the  *)
(* oldest line stays where it is and the new one lands behind the last;    *)
(* once it is full the oldest slot is the next one to be written.          *)
(*                                                                         *)
(* The copy is built by two loops, which the model states as functions     *)
(* defined by recursion.  That such a function exists, and what it is at   *)
(* every number, needs induction; NatInductionOnSets has it of sets of     *)
(* numbers, from the well-foundedness of the finite sets.                  *)
(***************************************************************************)
EXTENDS Diagnostics, SequenceTheorems, FiniteSetTheorems, TLAPS

USE DiagnosticsAssumption

(* The slot of the nth line of the history.                                *)
SlotOf(n) == Wrapped(Oldest + n - 1)

-----------------------------------------------------------------------------
(* Indices.                                                                *)

(* Every index that is taken modulo the capacity is a slot again.          *)
LEMMA WrappedIsASlot ==
  ASSUME NEW n \in 0..(2 * Capacity - 1)
  PROVE  Wrapped(n) \in Slots
BY DEF Wrapped, Slots

(* The oldest line, and every line of the history, is in a slot.           *)
LEMMA SlotOfIsASlot ==
  ASSUME TypeOK, NEW n \in 1..Capacity
  PROVE  /\ Oldest \in Slots
         /\ SlotOf(n) \in Slots
<1>1. Oldest \in Slots
  BY WrappedIsASlot DEF TypeOK, Oldest, Slots
<1>2. Oldest + n - 1 \in 0..(2 * Capacity - 1)
  BY <1>1 DEF Slots
<1>3. SlotOf(n) \in Slots
  BY <1>2, WrappedIsASlot DEF SlotOf
<1> QED
  BY <1>1, <1>3

(* While there is room, a new line leaves the oldest one in place and goes *)
(* right behind the last, into a slot that holds none.                     *)
LEMMA RoomKeepsOrder ==
  ASSUME TypeOK, NEW line \in Lines, Record(line), count < Capacity
  PROVE  /\ Oldest' = Oldest
         /\ SlotOf(count + 1) = next
         /\ \A n \in 1..count : SlotOf(n) # next
BY DEF TypeOK, Record, Oldest, SlotOf, Wrapped, Slots

(* In a full ring the next slot holds the oldest line, and each of the     *)
(* others moves up by one.                                                 *)
LEMMA FullDropsOldest ==
  ASSUME TypeOK, NEW line \in Lines, Record(line), count = Capacity
  PROVE  /\ \A n \in 1..(Capacity - 1) :
              SlotOf(n)' = SlotOf(n + 1) /\ SlotOf(n + 1) # next
         /\ SlotOf(Capacity)' = next
BY DEF TypeOK, Record, Oldest, SlotOf, Wrapped, Slots

-----------------------------------------------------------------------------
(* The history.                                                            *)

(* A history is as long as there are lines.                                *)
LEMMA HistoryProperties ==
  ASSUME TypeOK
  PROVE  /\ count \in Nat
         /\ History \in Seq(Lines)
         /\ Len(History) = count
         /\ \A n \in 1..count : History[n] = entries[SlotOf(n)]
<1>1. count \in Nat /\ History \in Seq(Lines)
  BY DEF TypeOK
<1>2. Len(History) = count
  BY <1>1 DEF History
<1> QED
  BY <1>1, <1>2 DEF History, SlotOf

(* A recorded line is appended, and of more lines than the ring can hold   *)
(* the oldest is dropped.                                                  *)
LEMMA RecordAppends ==
  ASSUME TypeOK, NEW line \in Lines, Record(line)
  PROVE  History' = Log!Kept(Append(History, line))
<1> DEFINE longer == Append(History, line)
<1>1. /\ count \in Nat
      /\ Len(History) = count
      /\ \A n \in 1..count : History[n] = entries[SlotOf(n)]
      /\ longer \in Seq(Lines)
      /\ Len(longer) = count + 1
      /\ \A n \in 1..count : longer[n] = History[n]
      /\ longer[count + 1] = line
  BY HistoryProperties, AppendProperties
<1>2. CASE count < Capacity
  <2>1. Log!Kept(longer) = longer
    BY <1>1, <1>2 DEF Log!Kept
  <2>2. count' = count + 1
    BY <1>2 DEF Record
  <2>3. \A n \in 1..(count + 1) : SlotOf(n)' = SlotOf(n)
    BY <1>2, RoomKeepsOrder DEF SlotOf
  <2>4. \A n \in 1..(count + 1) :
          entries'[SlotOf(n)] = IF n = count + 1 THEN line ELSE entries[SlotOf(n)]
    <3> SUFFICES ASSUME NEW n \in 1..(count + 1)
                 PROVE  entries'[SlotOf(n)] =
                          IF n = count + 1 THEN line ELSE entries[SlotOf(n)]
      OBVIOUS
    <3>1. n \in 1..Capacity
      BY <1>1, <1>2
    <3>2. SlotOf(n) \in Slots
      BY <3>1, SlotOfIsASlot
    <3>3. (SlotOf(n) = next) <=> (n = count + 1)
      BY <1>1, <1>2, RoomKeepsOrder
    <3> QED
      BY <3>2, <3>3 DEF Record, TypeOK
  <2>5. \A n \in 1..(count + 1) : entries'[SlotOf(n)'] = longer[n]
    BY <1>1, <2>3, <2>4
  <2>6. History' = [n \in 1..(count + 1) |-> entries'[SlotOf(n)']]
    BY <2>2 DEF History, SlotOf
  <2>7. longer = [n \in 1..(count + 1) |-> longer[n]]
    BY <1>1, LenProperties
  <2> QED
    BY <2>1, <2>5, <2>6, <2>7
<1>3. CASE count = Capacity
  <2>1. Log!Kept(longer) = Tail(longer)
    BY <1>1, <1>3 DEF Log!Kept
  <2>2. /\ Tail(longer) \in Seq(Lines)
        /\ Len(Tail(longer)) = Capacity
        /\ \A n \in 1..Capacity : Tail(longer)[n] = longer[n + 1]
    <3>1. longer # <<>>
      <4>1. Len(<<>>) = 0 /\ count + 1 # 0
        BY <1>1, EmptySeq
      <4> QED
        BY <1>1, <4>1
    <3> QED
      BY <1>1, <1>3, <3>1, HeadTailProperties
  <2>3. count' = Capacity
    BY <1>3 DEF Record
  <2>4. \A n \in 1..Capacity : entries'[SlotOf(n)'] = longer[n + 1]
    <3> SUFFICES ASSUME NEW n \in 1..Capacity
                 PROVE  entries'[SlotOf(n)'] = longer[n + 1]
      OBVIOUS
    <3>1. CASE n = Capacity
      BY <1>1, <1>3, <3>1, FullDropsOldest DEF Record, TypeOK
    <3>2. CASE n # Capacity
      <4>1. n \in 1..(Capacity - 1) /\ n + 1 \in 1..Capacity
        BY <3>2
      <4>2. SlotOf(n)' = SlotOf(n + 1) /\ SlotOf(n + 1) # next
        BY <1>3, <4>1, FullDropsOldest
      <4>3. entries'[SlotOf(n + 1)] = entries[SlotOf(n + 1)]
        BY <4>1, <4>2, SlotOfIsASlot DEF Record, TypeOK
      <4> QED
        BY <1>1, <1>3, <4>1, <4>2, <4>3
    <3> QED
      BY <3>1, <3>2
  <2>5. History' = [n \in 1..Capacity |-> entries'[SlotOf(n)']]
    BY <2>3 DEF History, SlotOf
  <2>6. Tail(longer) = [n \in 1..Capacity |-> Tail(longer)[n]]
    BY <2>2, LenProperties
  <2> QED
    BY <2>1, <2>2, <2>4, <2>5, <2>6
<1> QED
  BY <1>2, <1>3 DEF TypeOK

(* A cleared ring is an empty history.                                     *)
LEMMA ClearForgets ==
  ASSUME ClearRing
  PROVE  History' = <<>> /\ TypeOK'
<1>1. History' = <<>>
  BY DEF ClearRing, History
<1> QED
  BY <1>1, EmptySeq DEF ClearRing, TypeOK, Slots

(* What is kept of a history is one.                                       *)
LEMMA RecordKeepsType ==
  ASSUME TypeOK, NEW line \in Lines, Record(line)
  PROVE  TypeOK'
<1>1. Append(History, line) \in Seq(Lines) /\ Len(Append(History, line)) \in Nat \ {0}
  BY HistoryProperties, AppendProperties
<1>2. Log!Kept(Append(History, line)) \in Seq(Lines)
  <2>1. Append(History, line) # <<>>
    BY <1>1, EmptySeq
  <2> QED
    BY <1>1, <2>1, HeadTailProperties DEF Log!Kept
<1>3. History' \in Seq(Lines)
  BY <1>2, RecordAppends
<1>4. next + 1 \in 0..(2 * Capacity - 1)
  BY DEF TypeOK, Slots
<1>5. Wrapped(next + 1) \in Slots
  BY <1>4, WrappedIsASlot
<1>6. entries' \in [Slots -> Lines \cup {NoLine}]
  BY DEF TypeOK, Record
<1> QED
  BY <1>3, <1>5, <1>6 DEF TypeOK, Record

-----------------------------------------------------------------------------
(* The specification.                                                      *)

(* Every step but a stuttering one leaves the ring alone, records a line   *)
(* or clears it; and it leaves the reason to what it was, to nothing, or   *)
(* to the listener of now.                                                 *)
LEMMA StepsOfTheRing ==
  ASSUME [Next]_vars
  PROVE  \/ UNCHANGED ring
         \/ \E line \in Lines : Record(line)
         \/ ClearRing
BY DEF Next, Note, Starts, ListenerFails, ListenerEnds, Quits, vars

(* Every step keeps the shape of the ring.                                 *)
LEMMA TypeIsInductive ==
  ASSUME TypeOK, [Next]_vars
  PROVE  TypeOK'
<1>1. CASE UNCHANGED ring
  BY <1>1 DEF ring, TypeOK, History, Oldest
<1>2. CASE \E line \in Lines : Record(line)
  BY <1>2, RecordKeepsType
<1>3. CASE ClearRing
  BY <1>3, ClearForgets
<1> QED
  BY <1>1, <1>2, <1>3, StepsOfTheRing

(* The app starts with an empty history.                                   *)
LEMMA InitialHistory ==
  ASSUME Init
  PROVE  TypeOK /\ History = <<>>
<1>1. History = <<>>
  BY DEF Init, History
<1> QED
  BY <1>1, EmptySeq DEF Init, TypeOK, Slots

(* The ring keeps its shape (muse_on_diagnostics.h:51-57): its indices are *)
(* in range, and the slots in use hold lines.                              *)
THEOREM RingIsTyped == Spec => []TypeOK
<1>1. Init => TypeOK
  BY InitialHistory
<1>2. TypeOK /\ [Next]_vars => TypeOK'
  BY TypeIsInductive
<1> QED
  BY <1>1, <1>2, PTL DEF Spec

(* The ring of muse_on_diagnostics.c is the bounded history of CONTEXT.md: *)
(* its initial state is the empty history, and every step of it records a  *)
(* line, forgets all of them or changes nothing.                           *)
THEOREM RingImplementsHistory == Spec => KeepsRecent
<1>1. Init => Log!Init
  BY InitialHistory DEF Log!Init
<1>2. TypeOK /\ [Next]_vars => [Log!Next]_History
  <2> SUFFICES ASSUME TypeOK, [Next]_vars
               PROVE  [Log!Next]_History
    OBVIOUS
  <2>1. CASE UNCHANGED ring
    BY <2>1 DEF ring, History, Oldest
  <2>2. CASE \E line \in Lines : Record(line)
    BY <2>2, RecordAppends DEF Log!Next, Log!Record
  <2>3. CASE ClearRing
    BY <2>3, ClearForgets DEF Log!Next, Log!Forget
  <2> QED
    BY <2>1, <2>2, <2>3, StepsOfTheRing
<1> QED
  BY <1>1, <1>2, RingIsTyped, PTL DEF Spec, KeepsRecent, Log!Spec

(* The reason shown for a latch is that of the last listener               *)
(* (menu_bar.m, startListenerWithSafetyLatch), never of one before it.     *)
THEOREM ReasonIsAlwaysOfTheLastRun == Spec => []ReasonIsOfTheLastRun
<1>1. Init => ReasonIsOfTheLastRun
  BY DEF Init, ReasonIsOfTheLastRun
<1>2. ReasonIsOfTheLastRun /\ [Next]_vars => ReasonIsOfTheLastRun'
  <2> SUFFICES ASSUME ReasonIsOfTheLastRun, [Next]_vars
               PROVE  ReasonIsOfTheLastRun'
    OBVIOUS
  <2> USE DEF ReasonIsOfTheLastRun
  <2>1. \A recovery \in BOOLEAN : Start(recovery) => ReasonIsOfTheLastRun'
    BY DEF Start, ResetTuple, TupleBecomes
  <2>2. CASE Note
    BY <2>2 DEF Note, tuple
  <2>3. CASE Starts
    BY <2>1, <2>3 DEF Starts
  <2>4. CASE ListenerFails
    BY <2>4 DEF ListenerFails
  <2>5. CASE ListenerEnds
    <3>1. CASE \E recovery \in BOOLEAN : Start(recovery)
      BY <2>1, <3>1
    <3>2. CASE /\ listener' = NoListener
               /\ \E failed, cleared \in BOOLEAN :
                    IF cleared THEN ResetTuple
                    ELSE TupleBecomes(error, IF failed THEN listener.run ELSE termination)
      <4>1. listener'.run = listener.run
        BY <3>2 DEF NoListener
      <4> QED
        BY <3>2, <4>1 DEF ResetTuple, TupleBecomes
    <3> QED
      BY <2>5, <3>1, <3>2 DEF ListenerEnds
  <2>6. CASE Quits
    BY <2>6 DEF Quits, ResetTuple, TupleBecomes
  <2>7. CASE UNCHANGED vars
    BY <2>7 DEF vars, tuple
  <2> QED
    BY <2>2, <2>3, <2>4, <2>5, <2>6, <2>7 DEF Next
<1> QED
  BY <1>1, <1>2, PTL DEF Spec

-----------------------------------------------------------------------------
HIDE DiagnosticsAssumption

(* Induction over numbers, and functions defined by recursion on them.     *)

(* Induction: a set with 0, and with the successor of each of its numbers, *)
(* has them all. Of the numbers outside, one would have a least initial    *)
(* segment.                                                                *)
LEMMA NatInductionOnSets ==
  ASSUME NEW S, 0 \in S, \A n \in Nat : n \in S => n + 1 \in S
  PROVE  Nat \subseteq S
<1> SUFFICES ASSUME NEW m \in Nat, m \notin S PROVE FALSE
  OBVIOUS
<1> DEFINE Segments == {0 .. n : n \in Nat \ S}
<1>1. ASSUME NEW n \in Nat PROVE 0 .. n \in FiniteSubsetsOf(Nat)
  <2>1. IsFiniteSet(0 .. n)
    BY FS_Interval
  <2> QED
    BY <2>1 DEF FiniteSubsetsOf
<1>0. Segments \subseteq FiniteSubsetsOf(Nat)
  BY <1>1
<1>2. Segments # {}
  OBVIOUS
<1>3. PICK seg \in Segments : \A t \in Segments : <<t, seg>> \notin StrictSubsetOrdering(Nat)
  <2> HIDE DEF Segments
  <2>1. IsWellFoundedOn(StrictSubsetOrdering(Nat), FiniteSubsetsOf(Nat))
    BY FS_StrictSubsetOrderingWellFounded
  <2> QED
    BY <1>0, <1>2, <2>1, WFMin
<1>4. PICK k \in Nat \ S : seg = 0 .. k
  OBVIOUS
<1>5. k # 0 /\ k - 1 \in Nat \ S
  OBVIOUS
<1>6. 0 .. (k - 1) \in Segments
  BY <1>5
<1>7. <<0 .. (k - 1), 0 .. k>> \in StrictSubsetOrdering(Nat)
  BY <1>5 DEF StrictSubsetOrdering
<1> QED
  BY <1>3, <1>4, <1>6, <1>7

(* The same up to a bound.                                                 *)
LEMMA IntervalInduction ==
  ASSUME NEW N \in Nat, NEW S, 0 \in S,
         \A n \in 1..N : n - 1 \in S => n \in S
  PROVE  0..N \subseteq S
<1> DEFINE T == {n \in Nat : n <= N => n \in S}
<1>1. 0 \in T
  OBVIOUS
<1>2. ASSUME NEW n \in Nat, n \in T PROVE n + 1 \in T
  <2>1. CASE n + 1 <= N
    <3>1. n + 1 \in 1..N /\ (n + 1) - 1 = n /\ n \in S
      BY <1>2, <2>1
    <3> QED
      BY <3>1
  <2> QED
    BY <2>1
<1>3. Nat \subseteq T
  <2> HIDE DEF T
  <2> QED
    BY <1>1, <1>2, NatInductionOnSets
<1> QED
  BY <1>3

(* A function is computed from 0 to N, from its base by these steps.       *)
Computable(N, X, base, step) ==
  \E f \in [0..N -> X] :
    f[0] = base /\ \A n \in 1..N : f[n] = step[<<n, f[n - 1]>>]

(* Any base and any step that stay in a set compute a function.            *)
LEMMA RecursionExists ==
  ASSUME NEW N \in Nat, NEW X, NEW base \in X, NEW step \in [(1..N) \X X -> X]
  PROVE  Computable(N, X, base, step)
<1> DEFINE Follows(f, m) ==
      f[0] = base /\ \A n \in 1..m : f[n] = step[<<n, f[n - 1]>>]
           S == {m \in 0..N : \E f \in [0..m -> X] : Follows(f, m)}
<1>1. 0 \in S
  <2> DEFINE g == [n \in 0..0 |-> base]
  <2>1. g \in [0..0 -> X] /\ Follows(g, 0)
    OBVIOUS
  <2>2. \E f \in [0..0 -> X] : Follows(f, 0)
    BY <2>1
  <2> HIDE DEF Follows
  <2> QED
    BY <2>2
<1>2. ASSUME NEW m \in 1..N, m - 1 \in S PROVE m \in S
  <2>1. PICK f \in [0..(m - 1) -> X] : Follows(f, m - 1)
    BY <1>2
  <2> DEFINE last == step[<<m, f[m - 1]>>]
             g == [n \in 0..m |-> IF n = m THEN last ELSE f[n]]
  <2>2. last \in X
    BY <2>1
  <2>3. g \in [0..m -> X]
    <3> HIDE DEF last
    <3> QED BY <2>2
  <2>4. g[0] = base /\ g[m] = last
    BY <2>1
  <2>5. ASSUME NEW n \in 1..m PROVE g[n] = step[<<n, g[n - 1]>>]
    <3>1. g[n - 1] = f[n - 1]
      OBVIOUS
    <3>2. CASE n = m
      BY <2>4, <3>1, <3>2
    <3>3. CASE n # m
      <4>1. n \in 1..(m - 1) /\ g[n] = f[n]
        BY <3>3
      <4> HIDE DEF g
      <4> QED
        BY <2>1, <3>1, <4>1
    <3> QED
      BY <3>2, <3>3
  <2> HIDE DEF g
  <2> QED
    BY <2>3, <2>4, <2>5
<1>3. N \in S
  <2> HIDE DEF S
  <2>1. 0..N \subseteq S
    BY <1>1, <1>2, IntervalInduction
  <2> QED
    BY <2>1
<1>4. PICK f \in [0..N -> X] : Follows(f, N)
  BY <1>3
<1> QED
  BY <1>4 DEF Computable

-----------------------------------------------------------------------------
(* The text of the copy.                                                   *)

(* The characters of a text, by the kind of text they are from.            *)
Characters == {"line", "newline", "error", "end"} \X Nat \X Nat

(* Texts.                                                                  *)
Texts == Seq(Characters)

(* The beginning of a text that has room.                                  *)
Fit(text, room) == SubSeq(text, 1, IF Len(text) <= room THEN Len(text) ELSE room)

(* A text of some length.                                                  *)
LEMMA TextProperties ==
  ASSUME NEW kind \in {"line", "newline", "error", "end"}, NEW length \in Nat
  PROVE  Text(kind, length) \in Texts /\ Len(Text(kind, length)) = length
<1>1. Text(kind, length) \in [1..length -> Characters]
  BY DEF Text, Characters
<1> QED
  BY <1>1 DEF Texts

(* The beginning of a text: its length and its characters.                 *)
LEMMA FitProperties ==
  ASSUME NEW text \in Texts, NEW room \in Nat
  PROVE  /\ Fit(text, room) \in Texts
         /\ Len(Fit(text, room)) = IF Len(text) <= room THEN Len(text) ELSE room
         /\ \A k \in 1..Len(Fit(text, room)) : Fit(text, room)[k] = text[k]
         /\ Len(text) \in Nat
<1> DEFINE n == IF Len(text) <= room THEN Len(text) ELSE room
<1>1. Len(text) \in Nat /\ n \in Nat /\ n <= Len(text)
  BY LenProperties DEF Texts
<1>2. 1 \in 1..(Len(text) + 1) /\ n \in 0..Len(text)
  BY <1>1
<1>3. /\ SubSeq(text, 1, n) \in Texts
      /\ Len(SubSeq(text, 1, n)) = n
      /\ \A k \in 1..n : SubSeq(text, 1, n)[k] = text[k]
  <2> HIDE DEF n
  <2> QED
    BY <1>1, <1>2, SubSeqProperties DEF Texts
<1> QED
  BY <1>1, <1>3 DEF Fit

(* Texts with the same characters are the same.                            *)
LEMMA SameText ==
  ASSUME NEW s \in Texts, NEW t \in Texts, Len(s) = Len(t),
         \A k \in 1..Len(s) : s[k] = t[k]
  PROVE  s = t
BY SeqEqual DEF Texts

(* A text behind another one.                                              *)
LEMMA JoinProperties ==
  ASSUME NEW s \in Texts, NEW t \in Texts
  PROVE  /\ s \o t \in Texts
         /\ Len(s \o t) = Len(s) + Len(t)
         /\ \A k \in 1..(Len(s) + Len(t)) :
              (s \o t)[k] = IF k <= Len(s) THEN s[k] ELSE t[k - Len(s)]
         /\ Len(s) \in Nat /\ Len(t) \in Nat
BY ConcatProperties, LenProperties DEF Texts

(* What muse_on_diagnostics_copy appends, with its look at the room that   *)
(* is left, to the beginning of a text is the beginning of the longer      *)
(* text: the memcpy of min(length, available) characters.                  *)
LEMMA PutFits ==
  ASSUME NEW s \in Texts, NEW t \in Texts, NEW room \in Nat
  PROVE  /\ Put(Fit(s, room), t, room) = Fit(s \o t, room)
         /\ Put(Fit(s, room), t, room) \in Texts
<1> DEFINE w == Fit(s, room)
           p == Put(w, t, room)
           q == Fit(s \o t, room)
<1>1. /\ w \in Texts /\ Len(w) \in Nat /\ Len(w) <= room
      /\ Len(w) = IF Len(s) <= room THEN Len(s) ELSE room
      /\ \A k \in 1..Len(w) : w[k] = s[k]
      /\ Len(s) \in Nat /\ Len(t) \in Nat
  <2>1. /\ w \in Texts
        /\ Len(w) = IF Len(s) <= room THEN Len(s) ELSE room
        /\ \A k \in 1..Len(w) : w[k] = s[k]
    BY FitProperties
  <2>2. Len(s) \in Nat /\ Len(t) \in Nat
    BY JoinProperties
  <2> HIDE DEF w
  <2> QED
    BY <2>1, <2>2
<1>2. /\ s \o t \in Texts
      /\ Len(s \o t) = Len(s) + Len(t)
      /\ \A k \in 1..(Len(s) + Len(t)) :
           (s \o t)[k] = IF k <= Len(s) THEN s[k] ELSE t[k - Len(s)]
  BY JoinProperties
<1>3. /\ q \in Texts
      /\ Len(q) = IF Len(s) + Len(t) <= room THEN Len(s) + Len(t) ELSE room
      /\ \A k \in 1..Len(q) : q[k] = (s \o t)[k]
  BY <1>2, FitProperties
<1>0. p = Put(w, t, room)
  OBVIOUS
<1> HIDE DEF w, p, q
<1>4. CASE Len(w) + Len(t) <= room
  <2>1. p = w \o t
    BY <1>0, <1>4 DEF Put
  <2>2. /\ p \in Texts
        /\ Len(p) = Len(w) + Len(t)
        /\ \A k \in 1..(Len(w) + Len(t)) :
             p[k] = IF k <= Len(w) THEN w[k] ELSE t[k - Len(w)]
    BY <1>1, <2>1, JoinProperties
  <2>3. CASE Len(s) <= room
    <3>1. Len(w) = Len(s) /\ Len(q) = Len(p)
      BY <1>1, <1>3, <1>4, <2>2, <2>3
    <3>2. \A k \in 1..Len(p) : p[k] = q[k]
      BY <1>1, <1>2, <1>3, <2>2, <3>1
    <3> QED
      BY <1>3, <2>2, <3>1, <3>2, SameText DEF w, p, q
  <2>4. CASE Len(s) > room
    <3>1. Len(w) = room /\ Len(t) = 0 /\ Len(q) = room /\ Len(p) = room
      BY <1>1, <1>3, <1>4, <2>2, <2>4
    <3>2. \A k \in 1..Len(p) : p[k] = q[k]
      BY <1>1, <1>2, <1>3, <2>2, <2>4, <3>1
    <3> QED
      BY <1>3, <2>2, <3>1, <3>2, SameText DEF w, p, q
  <2> QED
    BY <1>1, <2>3, <2>4
<1>5. CASE ~(Len(w) + Len(t) <= room)
  <2> DEFINE some == SubSeq(t, 1, room - Len(w))
  <2>1. p = w \o some
    BY <1>0, <1>5 DEF Put
  <2>2. room - Len(w) \in 0..Len(t)
    BY <1>1, <1>5
  <2>3. /\ some \in Texts /\ Len(some) = room - Len(w)
        /\ \A k \in 1..(room - Len(w)) : some[k] = t[k]
    <3>1. \A k \in 1..(room - Len(w)) : t[k] \in Characters
      BY <1>1, <2>2, ElementOfSeq DEF Texts
    <3>2. room - Len(w) \in Int /\ 1 \in Int
      BY <2>2
    <3> QED
      BY <2>2, <3>1, <3>2, SubSeqProperties DEF Texts
  <2> HIDE DEF some
  <2>4. /\ p \in Texts
        /\ Len(p) = Len(w) + Len(some)
        /\ \A k \in 1..(Len(w) + Len(some)) :
             p[k] = IF k <= Len(w) THEN w[k] ELSE some[k - Len(w)]
    BY <1>1, <2>1, <2>3, JoinProperties
  <2>5. Len(p) = room /\ Len(q) = room
    BY <1>1, <1>3, <1>5, <2>3, <2>4
  <2>6. ASSUME NEW k \in 1..room PROVE p[k] = q[k]
    <3>1. q[k] = IF k <= Len(s) THEN s[k] ELSE t[k - Len(s)]
      BY <1>1, <1>2, <1>3, <1>5, <2>5
    <3>2. CASE k <= Len(w)
      BY <1>1, <2>3, <2>4, <3>1, <3>2
    <3>3. CASE k > Len(w)
      <4>1. k - Len(w) \in 1..(room - Len(w)) /\ Len(s) = Len(w) /\ k > Len(s)
        BY <1>1, <3>3
      <4>2. p[k] = some[k - Len(w)]
        BY <1>1, <2>3, <2>4, <3>3
      <4> QED
        BY <2>3, <3>1, <4>1, <4>2
    <3> QED
      BY <1>1, <3>2, <3>3
  <2> QED
    BY <1>3, <2>4, <2>5, <2>6, SameText DEF w, p, q
<1> QED
  BY <1>4, <1>5 DEF w, p, q

(* The lines and the details that the whole text joins.                    *)
Paragraphs == [n \in 1..count |-> Text("line", History[n])] \o Details

(* What there is to join, in order; none of it is empty.                   *)
LEMMA ParagraphsProperties ==
  ASSUME TypeOK
  PROVE  /\ Details \in Seq(Texts) /\ Len(Details) \in Nat
         /\ \A m \in 1..Len(Details) : Len(Details[m]) > 0
         /\ Paragraphs \in Seq(Texts)
         /\ Len(Paragraphs) = count + Len(Details)
         /\ \A n \in 1..count : Paragraphs[n] = Text("line", History[n])
         /\ \A m \in 1..Len(Details) : Paragraphs[count + m] = Details[m]
         /\ \A n \in 1..Len(Paragraphs) : Len(Paragraphs[n]) > 0
<1> DEFINE kept == [n \in 1..count |-> Text("line", History[n])]
<1>1. /\ count \in Nat
      /\ \A n \in 1..count : History[n] \in Lines
  <2>1. /\ count \in Nat /\ History \in Seq(Lines) /\ Len(History) = count
    BY HistoryProperties
  <2> QED
    BY <2>1, ElementOfSeq
<1>2. \A n \in 1..count : Text("line", History[n]) \in Texts /\ Len(Text("line", History[n])) > 0
  <2> SUFFICES ASSUME NEW n \in 1..count
               PROVE  Text("line", History[n]) \in Texts /\ Len(Text("line", History[n])) > 0
    OBVIOUS
  <2>1. History[n] \in Nat \ {0}
    BY <1>1, DiagnosticsAssumption
  <2> QED
    BY <2>1, TextProperties
<1>3. kept \in Seq(Texts) /\ Len(kept) = count
  BY <1>1, <1>2
<1>4. /\ Details \in Seq(Texts)
      /\ \A m \in 1..Len(Details) : Len(Details[m]) > 0
  <2>1. /\ Text("error", 3) \in Texts /\ Len(Text("error", 3)) > 0
        /\ Text("end", 2) \in Texts /\ Len(Text("end", 2)) > 0
    BY TextProperties
  <2> DEFINE a == Text("error", 3)
             b == Text("end", 2)
  <2>2. Details \in {<<a>> \o <<b>>, <<a>> \o <<>>, <<>> \o <<b>>, <<>> \o <<>>}
    BY DEF Details
  <2> HIDE DEF a, b
  <2>3. a \in Texts /\ Len(a) > 0 /\ b \in Texts /\ Len(b) > 0
    BY <2>1 DEF a, b
  <2> HIDE DEF Texts
  <2>4. CASE Details = <<a>> \o <<b>>
    BY <2>3, <2>4
  <2>5. CASE Details = <<a>> \o <<>>
    BY <2>3, <2>5
  <2>6. CASE Details = <<>> \o <<b>>
    BY <2>3, <2>6
  <2>7. CASE Details = <<>> \o <<>>
    BY <2>7
  <2> QED
    BY <2>2, <2>4, <2>5, <2>6, <2>7
<1>5. Len(Details) \in Nat
  BY <1>4, LenProperties
<1> HIDE DEF kept
<1>6. /\ kept \o Details \in Seq(Texts)
      /\ Len(kept \o Details) = count + Len(Details)
      /\ \A n \in 1..(count + Len(Details)) :
           (kept \o Details)[n] = IF n <= count THEN kept[n] ELSE Details[n - count]
  BY <1>3, <1>4, ConcatProperties
<1>7. Paragraphs = kept \o Details
  BY DEF Paragraphs, kept
<1>8. \A n \in 1..count : Paragraphs[n] = Text("line", History[n])
  <2>1. \A n \in 1..count : Paragraphs[n] = kept[n]
    BY <1>1, <1>5, <1>6, <1>7
  <2> QED
    BY <2>1 DEF kept
<1>9. \A m \in 1..Len(Details) : Paragraphs[count + m] = Details[m]
  BY <1>1, <1>5, <1>6, <1>7
<1>10. \A n \in 1..Len(Paragraphs) : Len(Paragraphs[n]) > 0
  <2> SUFFICES ASSUME NEW n \in 1..Len(Paragraphs) PROVE Len(Paragraphs[n]) > 0
    OBVIOUS
  <2>1. CASE n <= count
    BY <1>1, <1>2, <1>8, <2>1
  <2>2. CASE n > count
    <3>1. n - count \in 1..Len(Details) /\ count + (n - count) = n
      BY <1>1, <1>5, <1>6, <1>7, <2>2
    <3>2. Paragraphs[n] = Details[n - count]
      BY <1>9, <3>1
    <3> QED
      BY <1>4, <3>1, <3>2
  <2> QED
    BY <1>1, <2>1, <2>2
<1> QED
  BY <1>4, <1>5, <1>6, <1>7, <1>8, <1>9, <1>10

(* The whole text after each paragraph.                                    *)
Joins(joined) ==
  /\ joined \in [0..Len(Paragraphs) -> Texts]
  /\ joined[0] = <<>>
  /\ Len(Paragraphs) > 0 => joined[1] = Paragraphs[1]
  /\ \A n \in 2..Len(Paragraphs) :
       joined[n] = (joined[n - 1] \o Newline) \o Paragraphs[n]

(* Whole is what is joined after the last paragraph.                       *)
LEMMA JoinedProperties ==
  ASSUME TypeOK
  PROVE  \E joined : Joins(joined) /\ Whole = joined[Len(Paragraphs)]
<1> DEFINE N == Len(Paragraphs)
           joined[n \in 0..N] ==
             IF n < 2 THEN IF n = 0 THEN <<>> ELSE Paragraphs[1]
             ELSE joined[n - 1] \o Newline \o Paragraphs[n]
<1>1. N \in Nat /\ \A n \in 1..N : Paragraphs[n] \in Texts
  BY ParagraphsProperties, LenProperties, ElementOfSeq
<1>2. Newline \in Texts
  BY TextProperties DEF Newline
<1>3. <<>> \in Texts
  BY EmptySeq DEF Texts
<1>0. Whole = joined[N]
  BY DEF Whole, Paragraphs
<1>4. \E f \in [0..N -> Texts] :
        f = [n \in 0..N |-> IF n < 2 THEN IF n = 0 THEN <<>> ELSE Paragraphs[1]
                            ELSE f[n - 1] \o Newline \o Paragraphs[n]]
  <2> DEFINE step == [p \in (1..N) \X Texts |->
                        IF p[1] < 2 THEN Paragraphs[1]
                        ELSE p[2] \o Newline \o Paragraphs[p[1]]]
  <2>1. step \in [(1..N) \X Texts -> Texts]
    <3> SUFFICES ASSUME NEW n \in 1..N, NEW t \in Texts
                 PROVE  (IF n < 2 THEN Paragraphs[1] ELSE t \o Newline \o Paragraphs[n]) \in Texts
      OBVIOUS
    <3>1. Paragraphs[1] \in Texts
      BY <1>1
    <3>2. t \o Newline \in Texts
      BY <1>2, JoinProperties
    <3>3. (t \o Newline) \o Paragraphs[n] \in Texts
      BY <1>1, <3>2, JoinProperties
    <3> QED
      BY <3>1, <3>3
  <2>2. \A n \in 1..N, t \in Texts :
          step[<<n, t>>] = IF n < 2 THEN Paragraphs[1] ELSE t \o Newline \o Paragraphs[n]
    OBVIOUS
  <2> HIDE DEF step, N
  <2>3. PICK f \in [0..N -> Texts] :
          f[0] = <<>> /\ \A n \in 1..N : f[n] = step[<<n, f[n - 1]>>]
    <3>1. N \in Nat
      BY <1>1
    <3> DEFINE none == <<>>
    <3>2. none \in Texts
      BY <1>3
    <3> HIDE DEF none
    <3>3. Computable(N, Texts, none, step)
      BY <2>1, <3>1, <3>2, RecursionExists
    <3> QED
      BY <3>3 DEF none, Computable
  <2>4. ASSUME NEW n \in 0..N
        PROVE  f[n] = IF n < 2 THEN IF n = 0 THEN <<>> ELSE Paragraphs[1]
                      ELSE f[n - 1] \o Newline \o Paragraphs[n]
    <3>1. f[n] = IF n = 0 THEN <<>> ELSE step[<<n, f[n - 1]>>]
      BY <2>3
    <3>2. CASE n = 0
      BY <3>1, <3>2
    <3>3. CASE n # 0
      <4>1. n \in 1..N /\ f[n - 1] \in Texts
        <5>1. n \in 1..N /\ n - 1 \in 0..N
          BY <1>1, <3>3
        <5>2. f \in [0..N -> Texts]
          BY <2>3
        <5> QED
          BY <5>1, <5>2
      <4> QED
        BY <2>2, <3>1, <3>3, <4>1
    <3> QED
      BY <3>2, <3>3
  <2> QED
    BY <2>4
<1>5. joined = [n \in 0..N |-> IF n < 2 THEN IF n = 0 THEN <<>> ELSE Paragraphs[1]
                               ELSE joined[n - 1] \o Newline \o Paragraphs[n]]
  BY <1>4, Zenon
<1> HIDE DEF joined
<1>6. joined \in [0..N -> Texts]
  <2> DEFINE S == {n \in 0..N : joined[n] \in Texts}
  <2>1. 0 \in S
    BY <1>1, <1>3, <1>5
  <2>2. ASSUME NEW n \in 1..N, n - 1 \in S PROVE n \in S
    <3>1. joined[n] = IF n < 2 THEN Paragraphs[1] ELSE joined[n - 1] \o Newline \o Paragraphs[n]
      BY <1>5
    <3>2. joined[n - 1] \in Texts /\ Paragraphs[1] \in Texts
      BY <1>1, <2>2
    <3>3. joined[n - 1] \o Newline \in Texts
      BY <1>2, <3>2, JoinProperties
    <3>4. (joined[n - 1] \o Newline) \o Paragraphs[n] \in Texts
      BY <1>1, <3>3, JoinProperties
    <3> QED
      BY <3>1, <3>2, <3>4
  <2>3. 0..N \subseteq S
    <3> HIDE DEF S
    <3> QED
      BY <1>1, <2>1, <2>2, IntervalInduction
  <2> QED
    BY <1>5, <2>3
<1>7. /\ joined[0] = <<>>
      /\ N > 0 => joined[1] = Paragraphs[1]
      /\ \A n \in 2..N : joined[n] = joined[n - 1] \o Newline \o Paragraphs[n]
  BY <1>1, <1>5
<1> HIDE DEF N
<1>8. Whole = joined[N]
  BY <1>0
<1> QED
  BY <1>6, <1>7, <1>8 DEF N, Joins
(* Each paragraph goes behind a newline, but the first one.                *)
LEMMA PrefixOfJoin ==
  ASSUME TypeOK, NEW joined, Joins(joined), NEW n \in 1..Len(Paragraphs)
  PROVE  /\ joined[n] \in Texts /\ joined[n - 1] \in Texts /\ Paragraphs[n] \in Texts
         /\ Len(joined[n]) > 0
         /\ n = 1 => joined[n - 1] = <<>> /\ joined[n] = <<>> \o Paragraphs[n]
         /\ n > 1 => joined[n] = (joined[n - 1] \o Newline) \o Paragraphs[n]
<1>1. /\ Len(Paragraphs) \in Nat /\ Paragraphs[n] \in Texts /\ Len(Paragraphs[n]) > 0
  BY ParagraphsProperties, LenProperties, ElementOfSeq
<1>2. joined[n] \in Texts /\ joined[n - 1] \in Texts
  <2>1. joined \in [0..Len(Paragraphs) -> Texts] /\ n - 1 \in 0..Len(Paragraphs)
    BY <1>1 DEF Joins
  <2> QED
    BY <1>1, <2>1
<1>3. Newline \in Texts
  BY TextProperties DEF Newline
<1>4. CASE n = 1
  <2>1. joined[n - 1] = <<>> /\ joined[n] = Paragraphs[n]
    BY <1>1, <1>4 DEF Joins
  <2>2. <<>> \o Paragraphs[n] = Paragraphs[n]
    BY <1>1, ConcatEmptySeq DEF Texts
  <2> QED
    BY <1>1, <1>2, <1>4, <2>1, <2>2
<1>5. CASE n > 1
  <2>0. n \in 2..Len(Paragraphs)
    BY <1>1, <1>5
  <2>1. joined[n] = (joined[n - 1] \o Newline) \o Paragraphs[n]
    BY <2>0 DEF Joins
  <2>2. joined[n - 1] \o Newline \in Texts
    BY <1>2, <1>3, JoinProperties
  <2> DEFINE before == joined[n - 1] \o Newline
  <2>3. joined[n] = before \o Paragraphs[n] /\ before \in Texts
    BY <2>1, <2>2
  <2> HIDE DEF before
  <2>4. Len(joined[n]) > 0
    <3>1. /\ Len(before \o Paragraphs[n]) = Len(before) + Len(Paragraphs[n])
          /\ Len(before) \in Nat /\ Len(Paragraphs[n]) \in Nat
      BY <1>1, <2>3, JoinProperties
    <3> QED
      BY <1>1, <2>3, <3>1
  <2>5. ~(n = 1)
    BY <1>5
  <2> QED
    BY <1>1, <1>2, <2>1, <2>4, <2>5, Zenon
<1>6. n = 1 \/ n > 1
  BY <1>1
<1> QED
  BY <1>4, <1>5, <1>6, Zenon

(* Nothing fits everywhere.                                                *)
LEMMA EmptyFits ==
  ASSUME NEW room \in Nat
  PROVE  Fit(<<>>, room) = <<>> /\ <<>> \in Texts
<1>1. <<>> \in Texts /\ Len(<<>>) = 0
  BY EmptySeq DEF Texts
<1>2. Fit(<<>>, room) \in Texts /\ Len(Fit(<<>>, room)) = 0
  BY <1>1, FitProperties
<1> QED
  BY <1>1, <1>2, SameText

(* The two blocks of the details, of which the code skips the newline when *)
(* nothing is written yet, continue the beginning of the text.             *)
LEMMA DetailsAreCopied ==
  ASSUME TypeOK, NEW joined, Joins(joined), NEW room \in Nat
  PROVE  WithDetails(Fit(joined[count], room), room) = Fit(joined[Len(Paragraphs)], room)
<1> DEFINE M == Len(Details)
           written == Fit(joined[count], room)
           Added(before, m) ==
             Put(IF before = <<>> THEN before ELSE Put(before, Newline, room),
                 Details[m], room)
           put[n \in 0..M] ==
             IF n = 0 THEN written
             ELSE LET before == put[n - 1]
                  IN Put(IF before = <<>> THEN before ELSE Put(before, Newline, room),
                         Details[n], room)
           g == [n \in 0..M |-> Fit(joined[count + n], room)]
<1>1. M \in Nat /\ count \in Nat /\ Len(Paragraphs) = count + M
  BY ParagraphsProperties DEF TypeOK
<1>2. Newline \in Texts
  BY TextProperties DEF Newline
<1>3. ASSUME NEW n \in 1..M
      PROVE  Added(Fit(joined[count + (n - 1)], room), n) = Fit(joined[count + n], room)
  <2> DEFINE k == count + n
             j == joined[count + (n - 1)]
             before == Fit(j, room)
             text == Details[n]
  <2>1. k \in 1..Len(Paragraphs) /\ Paragraphs[k] = text /\ k - 1 = count + (n - 1)
    BY <1>1, ParagraphsProperties
  <2>2. /\ joined[k] \in Texts /\ j \in Texts /\ text \in Texts
        /\ k = 1 => j = <<>> /\ joined[k] = <<>> \o text
        /\ k > 1 => joined[k] = (j \o Newline) \o text
    <3> HIDE DEF k
    <3> QED
      BY <2>1, PrefixOfJoin
  <2>3. k > 1 => Len(j) > 0
    <3>1. k > 1 => k - 1 \in 1..Len(Paragraphs)
      BY <1>1
    <3>2. k - 1 = count + (n - 1)
      BY <2>1
    <3> HIDE DEF k
    <3> QED
      BY <3>1, <3>2, PrefixOfJoin
  <2> HIDE DEF j, text
  <2>4. before \in Texts /\ Len(before) = IF Len(j) <= room THEN Len(j) ELSE room
    BY <2>2, FitProperties
  <2>8. /\ before = <<>> => Added(before, n) = Put(<<>>, text, room)
        /\ before # <<>> => Added(before, n) = Put(Put(before, Newline, room), text, room)
    BY DEF text
  <2>10. j = joined[count + (n - 1)]
    BY DEF j
  <2>11. before = Fit(j, room)
    OBVIOUS
  <2> HIDE DEF before, Added, k
  <2>9. before = Fit(j, room) /\ before = Fit(joined[count + (n - 1)], room)
    BY <2>10, <2>11
  <2>5. ASSUME k = 1
       PROVE  Added(before, n) = Fit(joined[k], room)
    <3>1. before = <<>> /\ Fit(<<>>, room) = <<>>
      BY <2>2, <2>5, <2>9, EmptyFits
    <3>2. Put(Fit(<<>>, room), text, room) = Fit(<<>> \o text, room)
      BY <2>2, EmptyFits, PutFits
    <3> QED
      BY <2>2, <2>5, <2>8, <2>9, <3>1, <3>2
  <2>6. ASSUME k > 1, room = 0
       PROVE  Added(before, n) = Fit(joined[k], room)
    <3>1. before = <<>>
      <4>1. Len(before) = 0
        BY <2>3, <2>4, <2>6
      <4> QED
        BY <2>4, <4>1 DEF Texts
    <3>2. Put(Fit(<<>>, room), text, room) = Fit(<<>> \o text, room)
      BY <2>2, EmptyFits, PutFits
    <3>3. <<>> \o text \in Texts
      BY <2>2, EmptyFits, JoinProperties
    <3>4. /\ Fit(<<>> \o text, room) \in Texts /\ Len(Fit(<<>> \o text, room)) = 0
          /\ Fit(joined[k], room) \in Texts /\ Len(Fit(joined[k], room)) = 0
      BY <2>2, <2>6, <3>3, FitProperties
    <3>5. Fit(<<>> \o text, room) = Fit(joined[k], room)
      BY <3>4, SameText
    <3>6. Put(<<>>, text, room) = Fit(joined[k], room)
      BY <3>2, <3>5, EmptyFits
    <3> QED
      BY <2>8, <2>9, <3>1, <3>6
  <2>7. ASSUME k > 1, room # 0
       PROVE  Added(before, n) = Fit(joined[k], room)
    <3>1. before # <<>>
      <4>1. Len(before) # 0
        BY <2>2, <2>3, <2>4, <2>7, FitProperties
      <4> QED
        BY <4>1
    <3>2. Put(before, Newline, room) = Fit(j \o Newline, room) /\ j \o Newline \in Texts
      <4>1. Put(Fit(j, room), Newline, room) = Fit(j \o Newline, room)
        BY <1>2, <2>2, PutFits
      <4>2. j \o Newline \in Texts
        BY <1>2, <2>2, JoinProperties
      <4> QED
        BY <2>9, <4>1, <4>2
    <3>3. Put(Fit(j \o Newline, room), text, room) = Fit((j \o Newline) \o text, room)
      BY <2>2, <3>2, PutFits
    <3> QED
      BY <2>2, <2>7, <2>8, <2>9, <3>1, <3>2, <3>3
  <2> QED
    <3>1. k = 1 \/ k > 1
      BY <2>1, <1>1
    <3>2. Added(before, n) = Fit(joined[k], room)
      BY <2>5, <2>6, <2>7, <2>9, <3>1 DEF k
    <3> QED
      BY <2>9, <3>2 DEF k
<1>0. WithDetails(written, room) = put[M]
  BY DEF WithDetails
<1>4. g = [n \in 0..M |->
             IF n = 0 THEN written
             ELSE LET before == g[n - 1]
                  IN Put(IF before = <<>> THEN before ELSE Put(before, Newline, room),
                         Details[n], room)]
  <2> SUFFICES ASSUME NEW n \in 0..M
               PROVE  g[n] = IF n = 0 THEN written ELSE Added(g[n - 1], n)
    OBVIOUS
  <2>1. CASE n = 0
    BY <1>1, <2>1
  <2>2. CASE n # 0
    <3>1. n \in 1..M /\ g[n] = Fit(joined[count + n], room) /\ g[n - 1] = Fit(joined[count + (n - 1)], room)
      BY <1>1, <2>2
    <3> HIDE DEF g, Added
    <3> QED
      BY <1>3, <2>2, <3>1
  <2> QED
    BY <2>1, <2>2
<1>5. \E f : f = [n \in 0..M |->
             IF n = 0 THEN written
             ELSE LET before == f[n - 1]
                  IN Put(IF before = <<>> THEN before ELSE Put(before, Newline, room),
                         Details[n], room)]
  <2> HIDE DEF g
  <2> QED
    BY <1>4
<1>6. put = [n \in 0..M |->
             IF n = 0 THEN written
             ELSE LET before == put[n - 1]
                  IN Put(IF before = <<>> THEN before ELSE Put(before, Newline, room),
                         Details[n], room)]
  BY <1>5, Zenon
<1> HIDE DEF put, g
<1>7. put[0] = written /\ \A n \in 1..M : put[n] = Added(put[n - 1], n)
  BY <1>1, <1>6
<1>8. g[0] = written /\ \A n \in 1..M : g[n] = Added(g[n - 1], n)
  BY <1>1, <1>4
<1> HIDE DEF Added, written
<1>9. put[M] = g[M]
  <2> DEFINE S == {n \in 0..M : put[n] = g[n]}
  <2>1. 0 \in S
    BY <1>1, <1>7, <1>8
  <2>2. ASSUME NEW n \in 1..M, n - 1 \in S PROVE n \in S
    BY <1>7, <1>8, <2>2
  <2>3. 0..M \subseteq S
    <3> HIDE DEF S, M
    <3> QED
      BY <1>1, <2>1, <2>2, IntervalInduction
  <2> QED
    BY <1>1, <2>3
<1> QED
  BY <1>1, <1>0, <1>9 DEF g, written
(* The loop over the ring writes the beginning of the joined lines: a      *)
(* newline behind each line but the last.                                  *)
LEMMA LinesAreCopied ==
  ASSUME TypeOK, NEW joined, Joins(joined), NEW capacity \in Nat \ {0}
  PROVE  Copied(capacity) = WithDetails(Fit(joined[count], capacity - 1), capacity - 1)
<1> DEFINE room == capacity - 1
           Added(before, n) ==
             LET line == Put(before, Text("line", History[n]), room)
             IN IF n < count THEN Put(line, Newline, room) ELSE line
           put[n \in 0..count] ==
             IF n = 0 THEN <<>>
             ELSE LET line == Put(put[n - 1], Text("line", History[n]), room)
                  IN IF n < count THEN Put(line, Newline, room) ELSE line
           behind(n) == IF n = 0 THEN <<>>
                        ELSE IF n < count THEN joined[n] \o Newline ELSE joined[n]
           g == [n \in 0..count |-> Fit(behind(n), room)]
<1>1. room \in Nat /\ count \in Nat /\ Newline \in Texts
  BY TextProperties DEF TypeOK, Newline
<1>2. ASSUME NEW n \in 1..count
      PROVE  Added(Fit(behind(n - 1), room), n) = Fit(behind(n), room)
  <2> DEFINE text == Text("line", History[n])
             before == behind(n - 1)
  <2>1. n \in 1..Len(Paragraphs) /\ Paragraphs[n] = text
    <3>1. Len(Paragraphs) = count + Len(Details) /\ Len(Details) \in Nat
      BY ParagraphsProperties
    <3> QED
      BY <1>1, <3>1, ParagraphsProperties
  <2>2. /\ joined[n] \in Texts /\ joined[n - 1] \in Texts /\ text \in Texts
        /\ n = 1 => joined[n] = <<>> \o text
        /\ n > 1 => joined[n] = (joined[n - 1] \o Newline) \o text
    <3> HIDE DEF text
    <3> QED
      BY <2>1, PrefixOfJoin
  <2>3. before \in Texts /\ joined[n] = before \o text
    <3>1. CASE n = 1
      BY <2>2, <3>1, EmptyFits
    <3>2. CASE n # 1
      <4>1. before = joined[n - 1] \o Newline /\ n > 1
        BY <1>1, <3>2
      <4>2. joined[n - 1] \o Newline \in Texts
        BY <1>1, <2>2, JoinProperties
      <4> HIDE DEF before, text
      <4> QED
        BY <2>2, <4>1, <4>2
    <3> QED
      BY <3>1, <3>2
  <2>4. /\ n < count => behind(n) = joined[n] \o Newline
        /\ ~(n < count) => behind(n) = joined[n]
    BY <1>1
  <2>5. /\ n < count => Added(Fit(before, room), n) = Put(Put(Fit(before, room), text, room), Newline, room)
        /\ ~(n < count) => Added(Fit(before, room), n) = Put(Fit(before, room), text, room)
    OBVIOUS
  <2> HIDE DEF before, text, behind, Added, room
  <2>6. Put(Fit(before, room), text, room) = Fit(joined[n], room)
    BY <1>1, <2>2, <2>3, PutFits
  <2>7. Put(Fit(joined[n], room), Newline, room) = Fit(joined[n] \o Newline, room)
    BY <1>1, <2>2, PutFits
  <2>8. Added(Fit(before, room), n) = Fit(behind(n), room)
    BY <2>4, <2>5, <2>6, <2>7
  <2> QED
    BY <2>8 DEF before
<1>0. Copied(capacity) = WithDetails(put[count], room)
  BY DEF Copied
<1>4. g = [n \in 0..count |->
             IF n = 0 THEN <<>>
             ELSE LET line == Put(g[n - 1], Text("line", History[n]), room)
                  IN IF n < count THEN Put(line, Newline, room) ELSE line]
  <2> SUFFICES ASSUME NEW n \in 0..count
               PROVE  g[n] = IF n = 0 THEN <<>> ELSE Added(g[n - 1], n)
    OBVIOUS
  <2>1. CASE n = 0
    BY <1>1, <2>1, EmptyFits
  <2>2. CASE n # 0
    <3>1. n \in 1..count /\ n - 1 \in 0..count
      BY <1>1, <2>2
    <3> HIDE DEF behind
    <3>2. g[n] = Fit(behind(n), room) /\ g[n - 1] = Fit(behind(n - 1), room)
      BY <3>1
    <3> HIDE DEF g, Added
    <3> QED
      BY <1>2, <2>2, <3>1, <3>2
  <2> QED
    BY <2>1, <2>2
<1>5. \E f : f = [n \in 0..count |->
             IF n = 0 THEN <<>>
             ELSE LET line == Put(f[n - 1], Text("line", History[n]), room)
                  IN IF n < count THEN Put(line, Newline, room) ELSE line]
  <2> HIDE DEF g
  <2> QED
    BY <1>4
<1>6. put = [n \in 0..count |->
             IF n = 0 THEN <<>>
             ELSE LET line == Put(put[n - 1], Text("line", History[n]), room)
                  IN IF n < count THEN Put(line, Newline, room) ELSE line]
  BY <1>5, Zenon
<1> HIDE DEF put, g
<1>7. put[0] = <<>> /\ \A n \in 1..count : put[n] = Added(put[n - 1], n)
  BY <1>1, <1>6
<1>8. g[0] = <<>> /\ \A n \in 1..count : g[n] = Added(g[n - 1], n)
  BY <1>1, <1>4
<1> HIDE DEF Added
<1>9. put[count] = g[count]
  <2> DEFINE S == {n \in 0..count : put[n] = g[n]}
  <2>1. 0 \in S
    BY <1>1, <1>7, <1>8
  <2>2. ASSUME NEW n \in 1..count, n - 1 \in S PROVE n \in S
    BY <1>7, <1>8, <2>2
  <2>3. 0..count \subseteq S
    <3> HIDE DEF S
    <3> QED
      BY <1>1, <2>1, <2>2, IntervalInduction
  <2> QED
    BY <1>1, <2>3
<1>10. behind(count) = joined[count]
  BY <1>1 DEF Joins
<1>11. g[count] = Fit(behind(count), room)
  <2> HIDE DEF behind
  <2> QED
    BY <1>1 DEF g
<1> QED
  BY <1>0, <1>9, <1>10, <1>11

(* Both loops together.                                                    *)
LEMMA CopiesFit ==
  ASSUME TypeOK
  PROVE  CopyIsPrefix
<1>1. PICK joined : Joins(joined) /\ Whole = joined[Len(Paragraphs)]
  BY JoinedProperties
<1>2. Len(Paragraphs) \in Nat /\ Whole \in Texts
  <2>1. Len(Paragraphs) \in Nat
    BY ParagraphsProperties, LenProperties
  <2> QED
    BY <1>1, <2>1 DEF Joins
<1>3. ASSUME NEW capacity \in 1..(Len(Whole) + 2)
      PROVE  Copied(capacity) = Fit(Whole, capacity - 1)
  <2>1. capacity \in Nat \ {0} /\ capacity - 1 \in Nat
    OBVIOUS
  <2>2. Copied(capacity) = WithDetails(Fit(joined[count], capacity - 1), capacity - 1)
    BY <1>1, <2>1, LinesAreCopied
  <2>3. WithDetails(Fit(joined[count], capacity - 1), capacity - 1)
          = Fit(joined[Len(Paragraphs)], capacity - 1)
    BY <1>1, <2>1, DetailsAreCopied
  <2> QED
    BY <1>1, <2>2, <2>3
<1>4. Len(Whole) \in Nat
  BY <1>2, LenProperties DEF Texts
<1>5. ASSUME NEW capacity \in 1..(Len(Whole) + 2)
      PROVE  Copied(capacity)
               = SubSeq(Whole, 1, IF Len(Whole) < capacity THEN Len(Whole) ELSE capacity - 1)
  <2>1. (IF Len(Whole) <= capacity - 1 THEN Len(Whole) ELSE capacity - 1)
          = IF Len(Whole) < capacity THEN Len(Whole) ELSE capacity - 1
    BY <1>4
  <2> QED
    BY <1>3, <2>1 DEF Fit
<1> QED
  BY <1>5 DEF CopyIsPrefix

(* For every history, listener state and capacity of the buffer, the copy  *)
(* of muse_on_diagnostics_copy is the beginning of the whole text, with    *)
(* room for the end of the string: neither a newline nor a detail is       *)
(* written past the room or dropped while there is some.                   *)
THEOREM CopiesAlwaysFit == Spec => []CopyIsPrefix
BY RingIsTyped, CopiesFit, PTL
=============================================================================
