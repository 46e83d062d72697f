---------------------------- MODULE AdditiveQueue ----------------------------
(***************************************************************************)
(* An update queue whose records are deltas: the torrents and users queues,*)
(* and the counters of the histories queue.  The laws are those of adding  *)
(* numbers.                                                                *)
(***************************************************************************)
EXTENDS UpdateQueue

\* Merging two records before they are written is writing one after the other.
MergeLaw ==
    \A r \in Row, u, v \in Update : Apply(r, Merge(u, v)) = Apply(Apply(r, u), v)

\* The order in which records are written does not matter.
OrderLaw ==
    \A r \in Row, u, v \in Update : Apply(Apply(r, u), v) = Apply(Apply(r, v), u)

OfDeltas == MergeLaw /\ OrderLaw
=============================================================================
