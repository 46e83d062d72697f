------------------------------- MODULE MCUsers -------------------------------
(***************************************************************************)
(* Two users, and passkeys enough to change one twice.                     *)
(***************************************************************************)
EXTENDS Users, TLC

Symmetry ==
    Permutations(User) \cup Permutations(Passkey) \cup Permutations(Call)
    \cup Permutations(Handler)
=============================================================================
