---------------------------- MODULE ResultStream -----------------------------
(* What an executor operator promises to the caller of Operator::next: it    *)
(* returns every row of its result exactly once, never one that another row  *)
(* still owed must precede, and then None.                                   *)
EXTENDS Naturals, Sequences

CONSTANTS Results,          \* the rows a result may consist of
          Precedes(_, _)    \* the order the operator promises, if any

VARIABLES owed,             \* rows of the result not returned yet
          emitted,          \* rows returned by next, in order
          ended             \* next has returned None

vars == <<owed, emitted, ended>>

Init == /\ owed \in SUBSET Results
        /\ emitted = <<>>
        /\ ended = FALSE

\* next() returns Some(row).
Emit(row) == /\ ~ended
             /\ \A other \in owed : ~Precedes(other, row)
             /\ owed' = owed \ {row}
             /\ emitted' = Append(emitted, row)
             /\ UNCHANGED ended

\* next() returns None.
Finish == /\ owed = {}
          /\ ended' = TRUE
          /\ UNCHANGED <<owed, emitted>>

Next == Finish \/ \E row \in owed : Emit(row)

Spec == Init /\ [][Next]_vars

\* A caller that keeps calling next() gets None in the end.
Ends == <>ended
=============================================================================
