--------------------------- MODULE MCHistoryQueue ---------------------------
(***************************************************************************)
(* The histories queue: rows whose state is overwritten, with two columns  *)
(* that should stick: completed_at and immune.                             *)
(***************************************************************************)
EXTENDS UpdateQueue, HistoryRows

\* An update that carries a completion leaves its row completed for good: the
\* queued updates are sent to the database (queue.rs, flush), which keeps the
\* first completed_at it is sent (history_update.rs, COALESCE).
CompletionIsKept ==
    [][\A k \in Key :
        main = "serving" /\ Shown[k].completed # 0 => Shown'[k].completed # 0]_vars
=============================================================================
