------------------------------- MODULE MCUtmp -------------------------------
(* One process that writes new records and one whose record is there. *)
EXTENDS Utmp

CONSTANTS p1, p2, l1, l2

MCOwns == [p \in Proc |-> IF p = p1 THEN {l1, Boot} ELSE {l2}]

MCOwnsBoth == [p \in Proc |-> {l1, l2}]

\* A logout left its record, and a full disk half of another one.
MCInitial == Halves([type |-> "dead", line |-> l2, by |-> None])
MCTorn == Append(MCInitial, <<[type |-> "user", line |-> l1, by |-> None], 1>>)

\* The hypothesis of the theorems about Utmp, with p1 the process that appends.
ASSUME MCHypothesis == Owns = MCOwns => OnlyNew(p1)
=============================================================================
