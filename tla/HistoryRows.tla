----------------------------- MODULE HistoryRows -----------------------------
(***************************************************************************)
(* The records of the histories queue, without the deltas (see Deltas):    *)
(* last names the announce that agent, active, seeder, client_uploaded and *)
(* client_downloaded come from; completed is 0 for None.                   *)
(***************************************************************************)
EXTENDS Integers

CONSTANT LastTime   \* bound on time: the n-th announce comes at time n

HistoryUpdate ==
    [last : 1..LastTime, completed : 0..LastTime, immune : BOOLEAN,
     created : 1..LastTime, updated : 1..LastTime]

NoHistoryRow ==
    [last |-> 0, completed |-> 0, immune |-> FALSE, created |-> 0, updated |-> 0]

HistoryRow == HistoryUpdate \cup {NoHistoryRow}

Earlier(a, b) == IF a < b THEN a ELSE b
Later(a, b) == IF a < b THEN b ELSE a

\* The state is taken from new, whichever is newer, and is_immune from old.
MergeHistory(old, new) ==
    [last |-> new.last,
     completed |-> new.completed,
     immune |-> old.immune,
     created |-> Earlier(old.created, new.created),
     updated |-> Later(old.updated, new.updated)]

ApplyHistory(row, update) ==
    IF row = NoHistoryRow THEN update
    ELSE [last |-> update.last,
          completed |-> IF row.completed # 0 THEN row.completed ELSE update.completed,
          immune |-> row.immune /\ update.immune,
          created |-> row.created,
          updated |-> update.updated]

\* The n-th announce, which may carry the completed event.
FreshHistory(n) ==
    {[last |-> n, completed |-> c, immune |-> i, created |-> n, updated |-> n] :
        c \in {0, n}, i \in BOOLEAN}
=============================================================================
