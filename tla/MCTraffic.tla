------------------------------ MODULE MCTraffic ------------------------------
(***************************************************************************)
(* Few users and clients, all alike.                                       *)
(***************************************************************************)
EXTENDS Traffic, TLC

Symmetry == Permutations(User) \cup Permutations(PeerId) \cup Permutations(Handler)
=============================================================================
