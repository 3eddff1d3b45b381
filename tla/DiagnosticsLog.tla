----------------------------- MODULE DiagnosticsLog -----------------------------
(***************************************************************************)
(* What Diagnostics promise: "a bounded in-memory history ... that clears  *)
(* on Quit" (CONTEXT.md, "Diagnostics").  The last Capacity lines, oldest  *)
(* first.                                                                  *)
(***************************************************************************)
EXTENDS Naturals, Sequences

CONSTANTS Lines, Capacity

VARIABLE history

Kept(lines) == IF Len(lines) <= Capacity THEN lines ELSE Tail(lines)

Record(line) == history' = Kept(Append(history, line))

Forget == history' = <<>>

Init == history = <<>>

Next == Forget \/ \E line \in Lines : Record(line)

Spec == Init /\ [][Next]_history
===============================================================================
