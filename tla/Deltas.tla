------------------------------- MODULE Deltas -------------------------------
(***************************************************************************)
(* The records of the torrents and users queues, which add up.  A record   *)
(* is known by the updates it stands for: it counts how often each update  *)
(* is in it, up to Twice, so that a lost update shows as 0 and one applied *)
(* more than once as 2.                                                    *)
(***************************************************************************)
EXTENDS Integers

CONSTANT UpdateId   \* a name for each update that is made

Twice == 2          \* "more than once"

Counts == [UpdateId -> 0..Twice]

NoCounts == [i \in UpdateId |-> 0]

Sum2(a, b) == [i \in UpdateId |-> IF a[i] + b[i] > Twice THEN Twice ELSE a[i] + b[i]]

\* self.x_delta = self.x_delta + new.x_delta, for every field of the record.
MergeDeltas(old, new) == Sum2(old, new)

\* ON DUPLICATE KEY UPDATE x = x + VALUES(x)
ApplyDeltas(row, update) == Sum2(row, update)

\* The n-th update is made once.
FreshDeltas(n) == {[i \in UpdateId |-> IF i = n THEN 1 ELSE 0]}
=============================================================================
