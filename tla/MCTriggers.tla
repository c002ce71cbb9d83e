----------------------------- MODULE MCTriggers -----------------------------
(* Small instances of Triggers: row values chosen on both sides of every    *)
(* boundary of the queries.                                                 *)
EXTENDS Triggers

CONSTANTS p1, Null

OneProject == {p1}

\* A quiet active project, and the same with one column changed at a time.
Quiet == [assigned |-> TRUE, active |-> TRUE, complete |-> FALSE,
          due |-> Null, turnover |-> Null, should |-> 0, invoiced |-> 0]
Due(d) == [Quiet EXCEPT !.due = d]
Gap_(s, i) == [Quiet EXCEPT !.should = s, !.invoiced = i]

\* Dates on both sides of today, of today + 3 and of midnight.
DateRows ==
    {Quiet} \cup {Due(d) : d \in {0, 3, 4}}
    \cup {[Due(0) EXCEPT !.assigned = FALSE], [Due(0) EXCEPT !.active = FALSE],
          [Quiet EXCEPT !.turnover = 0],
          [Quiet EXCEPT !.turnover = -1, !.complete = TRUE],
          [Quiet EXCEPT !.turnover = 0, !.assigned = FALSE]}

\* Gaps of -10, 19 and 20, and the MCS number.
GapRows ==
    {Gap_(40, 50), Gap_(59, 40), Gap_(60, 40),
     [Quiet EXCEPT !.assigned = FALSE],
     [Quiet EXCEPT !.assigned = FALSE, !.active = FALSE]}

BoundaryRows == DateRows \cup GapRows
=============================================================================
