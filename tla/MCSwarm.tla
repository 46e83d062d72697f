------------------------------- MODULE MCSwarm -------------------------------
(***************************************************************************)
(* One torrent and one user with two clients; two announces in flight, and *)
(* two upserts of the torrent by the website.                              *)
(***************************************************************************)
EXTENDS Swarm, TLC

Symmetry == Permutations(PeerId) \cup Permutations(Handler) \cup Permutations(ApiCall)
=============================================================================
