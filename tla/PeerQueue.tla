------------------------------ MODULE PeerQueue ------------------------------
(***************************************************************************)
(* An update queue whose records are rows: the peers queue.  Two ghosts    *)
(* remember what its handlers gave it.                                     *)
(***************************************************************************)
EXTENDS UpdateQueue, PeerRows

VARIABLES
    promised,   \* promised[k]: the row if every announce were written at once
    overtaken   \* the keys that were once queued with a time not after the last

peerVars == <<vars, promised, overtaken>>

\* The queue is that of PeerRows, which only the handlers feed.
OfPeers ==
    /\ Update = PeerUpdate /\ Row = PeerRow /\ NoRow = NoPeerRow
    /\ \A u, v \in PeerUpdate : Merge(u, v) = MergePeer(u, v)
    /\ \A r \in PeerRow, u \in PeerUpdate : Apply(r, u) = ApplyPeer(r, u)
    /\ \A n \in 1..MaxUpdates : Fresh(n) \subseteq FreshPeer(n)

PeerInit ==
    /\ Init
    /\ promised = [k \in Key |-> NoRow]
    /\ overtaken = {}

PeerUpsert(k, u) ==
    /\ Upsert(k, u)
    /\ promised' = [promised EXCEPT ![k] = Apply(@, u)]
    /\ overtaken' = IF u.updated > promised[k].updated THEN overtaken
                    ELSE overtaken \cup {k}

PeerAnnounce ==
    /\ main = "serving"
    /\ made < MaxUpdates
    /\ \E k \in Key : \E u \in Fresh(made + 1) : PeerUpsert(k, u)

PeerNext == PeerAnnounce \/ (Flush /\ UNCHANGED <<promised, overtaken>>)

PeerSpec == PeerInit /\ [][PeerNext]_peerVars

\* As long as only the scheduler flushes, the newest announce wins: drains,
\* failed batches that are put back under newer records, and statements that
\* were applied although they are reported as failed, change no row as it is
\* shown.  This is said of the peers whose announces reached the queue in the
\* order of their times; the merge's guard does not protect a row that is
\* already written from an older announce (queue.rs, flush; peer_update.rs).
NewestAnnounceShown ==
    main = "serving" => \A k \in Key \ overtaken : Shown[k] = promised[k]
=============================================================================
