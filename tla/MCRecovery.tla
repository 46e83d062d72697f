----------------------------- MODULE MCRecovery -----------------------------
(* One client with one announce at a time: everything a crash may separate. *)
EXTENDS Recovery
=============================================================================
