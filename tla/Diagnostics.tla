------------------------------ MODULE Diagnostics ------------------------------
(***************************************************************************)
(* The diagnostics of the app (muse_on_diagnostics.c): a ring of lines and *)
(* what the listener said last of its own failure, with the calls the      *)
(* delegate makes as listeners start, fail, end and are recovered.         *)
(*                                                                         *)
(* A line is its length here, and its text so many characters.  A listener *)
(* is known by the number of its run.                                      *)
(***************************************************************************)
EXTENDS Naturals, Sequences

CONSTANTS
  Lines,    \* lengths of the lines that may be recorded
  Capacity, \* lines the ring holds
  MaxRuns   \* bound: listeners started

ASSUME DiagnosticsAssumption ==
  /\ Lines \subseteq Nat \ {0}
  /\ Capacity \in Nat \ {0}
  /\ MaxRuns \in Nat

VARIABLES
  entries,     \* the ring
  next,        \* the slot of the next line
  count,       \* slots in use
  error,       \* the run that reported an error, or NoRun
  termination, \* the run whose end was recorded, or NoRun
  listener     \* the listener of the app

ring == <<entries, next, count>>
tuple == <<error, termination>>
vars == <<ring, tuple, listener>>

NoLine == 0
NoRun  == 0

Slots == 0..(Capacity - 1)

(* n % Capacity, for every n the code takes it of.                         *)
Wrapped(n) == IF n < Capacity THEN n ELSE n - Capacity

-----------------------------------------------------------------------------
(* The ring.                                                               *)

(* Mutant: the count grows on, and with it the age of the oldest line.     *)
Record_CountsOn(line) ==
  /\ entries' = [entries EXCEPT ![next] = line]
  /\ next' = Wrapped(next + 1)
  /\ count' = IF count <= Capacity THEN count + 1 ELSE count

(* record_line.                                                            *)
Record(line) ==
  /\ entries' = [entries EXCEPT ![next] = line]
  /\ next' = Wrapped(next + 1)
  /\ count' = IF count < Capacity THEN count + 1 ELSE count

(* muse_on_diagnostics_init.                                               *)
ClearRing ==
  /\ entries' = [slot \in Slots |-> NoLine]
  /\ next' = 0
  /\ count' = 0

Oldest == Wrapped(next + Capacity - count)

(* The lines in the order in which they are copied.                        *)
History == [n \in 1..count |-> entries[Wrapped(Oldest + n - 1)]]

-----------------------------------------------------------------------------
(* The text.                                                               *)

(* The characters of a text of this kind and length.                       *)
Text(kind, length) == [k \in 1..length |-> <<kind, length, k>>]

Newline == Text("newline", 1)

Details ==
  (IF error # NoRun THEN << Text("error", 3) >> ELSE <<>>)
    \o (IF termination # NoRun THEN << Text("end", 2) >> ELSE <<>>)

(* What fits of a text behind `written'.                                   *)
Put(written, text, room) ==
  IF Len(written) + Len(text) <= room THEN written \o text
  ELSE written \o SubSeq(text, 1, room - Len(written))

(* Mutant: a detail is put behind the history without a look at the room.  *)
WithDetails_Unseparated(written, room) ==
  LET put[n \in 0..Len(Details)] ==
        IF n = 0 THEN written ELSE Put(put[n - 1], Details[n], room)
  IN put[Len(Details)]

WithDetails(written, room) ==
  LET put[n \in 0..Len(Details)] ==
        IF n = 0 THEN written
        ELSE LET before == put[n - 1]
             IN Put(IF before = <<>> THEN before ELSE Put(before, Newline, room),
                    Details[n], room)
  IN put[Len(Details)]

(* muse_on_diagnostics_copy, into a buffer of this many characters.        *)
Copied(capacity) ==
  LET room == capacity - 1
      put[n \in 0..count] ==
        IF n = 0 THEN <<>>
        ELSE LET line == Put(put[n - 1], Text("line", History[n]), room)
             IN IF n < count THEN Put(line, Newline, room) ELSE line
  IN WithDetails(put[count], room)

-----------------------------------------------------------------------------
(* The delegate.                                                           *)

TupleBecomes(e, t) ==
  /\ error' = e
  /\ termination' = t

(* muse_on_diagnostics_reset_listener.                                     *)
ResetTuple == TupleBecomes(NoRun, NoRun)

NoListener == [run |-> listener.run, phase |-> "NONE", recovery |-> FALSE]

(* recordListenerEvent: states, actions, latches.                          *)
Note ==
  /\ \E line \in Lines : Record(line)
  /\ UNCHANGED <<tuple, listener>>

(* Mutant: a recovery starts with the tuple of the listener before it.     *)
Start_Recovering(recovery) ==
  /\ listener.run < MaxRuns
  /\ IF recovery THEN UNCHANGED tuple ELSE ResetTuple
  /\ \E phase \in {"RUNNING", "NONE"} :
       listener' = [run |-> listener.run + 1, phase |-> phase,
                    recovery |-> recovery /\ phase = "RUNNING"]

(* startListener: the tuple is reset, and the launch may fail.             *)
Start(recovery) ==
  /\ listener.run < MaxRuns
  /\ ResetTuple
  /\ \E phase \in {"RUNNING", "NONE"} :
       listener' = [run |-> listener.run + 1, phase |-> phase,
                    recovery |-> recovery /\ phase = "RUNNING"]

Starts ==
  /\ listener.phase = "NONE"
  /\ \E recovery \in BOOLEAN : Start(recovery)
  /\ UNCHANGED ring

(* recordListenerError, for an error that is neither a missing permission  *)
(* nor a bad report.                                                       *)
ListenerFails ==
  /\ listener.phase = "RUNNING"
  /\ error' = listener.run
  /\ \E line \in Lines : Record(line)
  /\ UNCHANGED <<termination, listener>>

(* finalizeListenerIfReady and handleListenerTermination: a failed end is  *)
(* recorded; a verified one may start the next listener, and the end of a  *)
(* validated recovery clears the tuple when nothing runs any more.         *)
ListenerEnds ==
  /\ listener.phase = "RUNNING"
  /\ \E verified, failed, cleared \in BOOLEAN :
       /\ ~verified \/ error # NoRun => failed
       /\ cleared => verified /\ listener.recovery
       /\ IF verified THEN UNCHANGED ring ELSE \E line \in Lines : Record(line)
       /\ \/ /\ listener' = NoListener
             /\ IF cleared THEN ResetTuple
                ELSE TupleBecomes(error, IF failed THEN listener.run ELSE termination)
          \/ verified /\ Start(FALSE)
          \/ ~listener.recovery /\ Start(TRUE)

(* finishSafeQuit.                                                         *)
Quits ==
  /\ listener.phase = "NONE"
  /\ ClearRing
  /\ ResetTuple
  /\ UNCHANGED listener

Init ==
  /\ entries = [slot \in Slots |-> NoLine]
  /\ next = 0
  /\ count = 0
  /\ error = NoRun
  /\ termination = NoRun
  /\ listener = [run |-> 0, phase |-> "NONE", recovery |-> FALSE]

Next == Note \/ Starts \/ ListenerFails \/ ListenerEnds \/ Quits

Spec == Init /\ [][Next]_vars

-----------------------------------------------------------------------------

(* The ring has its shape: the slots in use hold lines.                    *)
TypeOK ==
  /\ entries \in [Slots -> Lines \cup {NoLine}]
  /\ next \in Slots
  /\ count \in 0..Capacity
  /\ History \in Seq(Lines)

Log == INSTANCE DiagnosticsLog WITH history <- History

(* The ring implements the promised history: wherever it wraps, what is    *)
(* kept are the most recent lines, in their order.                         *)
KeepsRecent == Log!Spec

(* The whole text, without a bound.                                        *)
Whole ==
  LET lines == [n \in 1..count |-> Text("line", History[n])] \o Details
      joined[n \in 0..Len(lines)] ==
        IF n < 2 THEN IF n = 0 THEN <<>> ELSE lines[1]
        ELSE joined[n - 1] \o Newline \o lines[n]
  IN joined[Len(lines)]

(* However small the buffer, a copy is the beginning of the whole text and *)
(* leaves room for the end of the string.                                  *)
CopyIsPrefix ==
  \A capacity \in 1..(Len(Whole) + 2) :
    LET fits == IF Len(Whole) < capacity THEN Len(Whole) ELSE capacity - 1
    IN Copied(capacity) = SubSeq(Whole, 1, fits)

(* The reason shown for a latch is that of the last listener, never of one *)
(* before it.                                                              *)
ReasonIsOfTheLastRun == {error, termination} \subseteq {NoRun, listener.run}
===============================================================================
