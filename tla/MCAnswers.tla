------------------------------ MODULE MCAnswers ------------------------------
(* Two announces of one user in flight, with two limits on seed lists. *)
EXTENDS Answers, TLC

MCSeedLimits == {[halvings |-> 1, most |-> 1], [halvings |-> 2, most |-> 0]}

MCLeechLimits == {[halvings |-> 1, most |-> 0]}

Symmetry == Permutations(Handler)
=============================================================================
