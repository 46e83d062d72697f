------------------------------ MODULE PeerRows ------------------------------
(***************************************************************************)
(* The records of the peers queue: an upsert overwrites the row, so of a   *)
(* record only the announce whose data it holds matters (updated, the time *)
(* of that announce) and the time the peer was first seen (created).       *)
(***************************************************************************)
EXTENDS Integers

CONSTANT LastTime   \* bound on time

PeerUpdate == [created : 1..LastTime, updated : 1..LastTime]

NoPeerRow == [created |-> 0, updated |-> 0]

PeerRow == PeerUpdate \cup {NoPeerRow}

Earlier(a, b) == IF a < b THEN a ELSE b

\* Mistake: the merge without its guard.
MergePeerUnguarded(old, new) ==
    [created |-> Earlier(old.created, new.created), updated |-> new.updated]

\* A record put back after a failed flush meets a newer one: the guard keeps
\* the newer data.
MergePeer(old, new) ==
    [created |-> Earlier(old.created, new.created),
     updated |-> IF new.updated > old.updated THEN new.updated ELSE old.updated]

\* INSERT ... ON DUPLICATE KEY UPDATE every column but created_at.
ApplyPeer(row, update) ==
    IF row = NoPeerRow THEN update ELSE [update EXCEPT !.created = row.created]

\* An announce's now is read before the connectivity check's await and queued
\* after it: announces reach the queue with their times in any order.
FreshPeer(n) == {[created |-> t, updated |-> t] : t \in 1..LastTime}
=============================================================================
