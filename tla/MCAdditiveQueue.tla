--------------------------- MODULE MCAdditiveQueue ---------------------------
(***************************************************************************)
(* The torrents queue: deltas, fed by the handlers and by reap, flushed by *)
(* the scheduler and, at the end, by main.                                 *)
(***************************************************************************)
EXTENDS AdditiveQueue, Deltas

ASSUME DeltasAssumption == OfDeltas
=============================================================================
