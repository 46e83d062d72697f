---------------------------- MODULE WriteThrough ----------------------------
(***************************************************************************)
(* What a queue of database updates promises: whatever batching, merging,  *)
(* failing and retrying goes on below, the row of a key is the row the     *)
(* database would hold had every update been written the moment it was     *)
(* queued, once, in the order it was queued.                               *)
(***************************************************************************)
CONSTANTS
    Key,          \* primary keys of the table
    Update,       \* the values a handler queues for a key
    NoRow,        \* the row of a key that was never written
    Apply(_, _)   \* the row after the upsert statement ran on it

VARIABLE row

Init == row = [k \in Key |-> NoRow]

Write(k, u) == row' = [row EXCEPT ![k] = Apply(@, u)]

Next == \E k \in Key, u \in Update : Write(k, u)

Spec == Init /\ [][Next]_row
=============================================================================
