------------------------------- MODULE Tracker -------------------------------
(***************************************************************************)
(* The process as a whole, beside its database.  What Swarm does in memory *)
(* reaches the tables through two queues that are flushed one by one: the  *)
(* peers queue takes the row of every announce, the torrents queue what    *)
(* the counters moved by.  A crash loses memory and queues; the process    *)
(* that starts afterwards recounts the torrents from the rows, and loads   *)
(* peers, counters and users from the tables.                              *)
(*                                                                         *)
(* A queue is flushed here in one statement; UpdateQueue has its batches,  *)
(* its second flusher and its shutdown.  The website's calls and the       *)
(* reload of the config stay in Swarm.                                     *)
(***************************************************************************)
EXTENDS Swarm

CONSTANTS
    NoRecord,         \* nothing under this key
    MaxFailures,      \* bound on the statements that fail
    MaxCrashes        \* bound on crashes

ASSUME FaultAssumption == MaxFailures \in Nat /\ MaxCrashes \in Nat

Key == Torrent \X Index

\* queue/peer_update.rs: the columns of the row that are loaded again, and the
\* order of the announces, which updated_at tells.
Record == [peer : Peer, updated : Nat]

ASSUME RecordAssumption == NoRecord \notin Record

NoRecords == [k \in Key |-> NoRecord]

Counts == [seeders : Int, leechers : Int]

NoCounts == [t \in Torrent |-> [seeders |-> 0, leechers |-> 0]]

VARIABLES
    started,       \* the process runs, and has loaded the tables
    stamp,         \* for each request, when it was received: its now
    told,          \* the row that a request is about to hand to the peers queue
    peerQueue,     \* queues.peers
    torrentQueue,  \* queues.torrents: a record of zeros writes nothing, like none
    taking,        \* a flush has taken from the peers queue, not from the torrents'
    peerBatch,     \* the statement on peers that is not answered yet
    torrentBatch,  \* the statement on torrents that is not answered yet
    rows,          \* the table peers
    counts,        \* seeders and leechers in the table torrents
    failures,      \* failed statements so far, for the bound
    crashes,       \* crashes so far, for the bound
    overlapped     \* ghost: the keys that had two announces in flight at once

queued == <<stamp, told, peerQueue, torrentQueue, taking, peerBatch, torrentBatch>>

stored == <<rows, counts>>

history == <<failures, crashes, overlapped>>

trackerVars == <<vars, started, queued, stored, history>>

TrackerInit ==
    /\ Init
    /\ started = TRUE
    /\ stamp = [h \in Handler |-> 0]
    /\ told = [h \in Handler |-> NoRecord]
    /\ peerQueue = NoRecords
    /\ torrentQueue = NoCounts
    /\ taking = FALSE
    /\ peerBatch = NoRecords
    /\ torrentBatch = NoCounts
    /\ rows = [t \in Torrent |-> NoPeers]
    /\ counts = NoCounts
    /\ failures = 0
    /\ crashes = 0
    /\ overlapped = {}

(***************************************************************************)
(* An announce, and the two queues it tells.                               *)
(***************************************************************************)
\* The peer that a request is about.
KeyOf(h) == <<announce[h].torrent, announce[h].index>>

\* Nothing keeps a client from announcing again before it is answered.
Overlaps(h) == \E g \in Handler \ {h} : announce[g] # Idle /\ KeyOf(g) = KeyOf(h)

Arrive(h) ==
    /\ started
    /\ Receive(h)
    /\ stamp' = [stamp EXCEPT ![h] = announces']
    /\ overlapped' = IF Overlaps(h)' THEN overlapped \cup {KeyOf(h)'} ELSE overlapped
    /\ UNCHANGED <<started, told, peerQueue, torrentQueue, taking, peerBatch, torrentBatch>>
    /\ UNCHANGED <<stored, failures, crashes>>

Proceed(h) ==
    /\ Probed(h) \/ Reject(h) \/ Count(h)
    /\ UNCHANGED <<started, queued, stored, history>>

Tell(h, peer) ==
    /\ told' = [told EXCEPT ![h] = [peer |-> peer, updated |-> stamp[h]]]
    /\ UNCHANGED <<started, stamp, peerQueue, torrentQueue, taking, peerBatch, torrentBatch>>
    /\ UNCHANGED <<stored, history>>

\* The row of a peer that is kept is the peer.
KeepPeer(h) ==
    /\ Modify(h) \/ Insert(h)
    /\ Tell(h, torrents'[announce[h].torrent].peers[announce[h].index])

\* The row of a peer that has stopped stays, inactive; left may be anything.
StopPeer(h) ==
    /\ Stop(h)
    /\ \E is_seeder \in BOOLEAN :
        Tell(h, [is_seeder |-> is_seeder, is_active |-> FALSE, is_visible |-> FALSE,
                 is_connectable |-> announce[h].connectable, age |-> announce[h].age])

\* Mistake: a record that is put back replaces a newer one.
LastWins(old, new) == new

\* PeerUpdate::merge
Merged(old, new) ==
    IF old = NoRecord \/ new.updated > old.updated THEN new ELSE old

QueuePeer(h) ==
    /\ announce[h].pc = "queueing"
    /\ told[h] # NoRecord
    /\ LET k == <<announce[h].torrent, announce[h].index>>
       IN  peerQueue' = [peerQueue EXCEPT ![k] = Merged(@, told[h])]
    /\ told' = [told EXCEPT ![h] = NoRecord]
    /\ stamp' = [stamp EXCEPT ![h] = 0]
    /\ UNCHANGED <<vars, started, torrentQueue, taking, peerBatch, torrentBatch, stored, history>>

Plus(x, y) == [seeders |-> x.seeders + y.seeders, leechers |-> x.leechers + y.leechers]

Minus(x, y) == [seeders |-> x.seeders - y.seeders, leechers |-> x.leechers - y.leechers]

\* What this step of Swarm hands to the torrents queue is merged into it.
TellTorrents ==
    torrentQueue' = [t \in Torrent |-> Plus(torrentQueue[t], Minus(persisted'[t], persisted[t]))]

QueueTorrent(h) ==
    /\ Queue(h)
    /\ told[h] = NoRecord
    /\ TellTorrents
    /\ UNCHANGED <<started, stamp, told, peerQueue, taking, peerBatch, torrentBatch>>
    /\ UNCHANGED <<stored, history>>

(***************************************************************************)
(* The scheduler: one task that flushes and reaps in turn.                 *)
(***************************************************************************)
Flushing == taking \/ peerBatch # NoRecords \/ torrentBatch # NoCounts

StartReap ==
    /\ started /\ ~Flushing
    /\ ReapStarts
    /\ UNCHANGED <<started, queued, stored, history>>

ReapAndTell ==
    /\ Reap
    /\ TellTorrents
    /\ UNCHANGED <<started, stamp, told, peerQueue, taking, peerBatch, torrentBatch>>
    /\ UNCHANGED <<stored, history>>

\* Mistake: without rows to write there is no flush.
TakePeersIfAny ==
    /\ started /\ ~Flushing /\ reaper = Idle
    /\ peerQueue # NoRecords
    /\ peerBatch' = peerQueue
    /\ peerQueue' = NoRecords
    /\ taking' = TRUE
    /\ UNCHANGED <<vars, started, stamp, told, torrentQueue, torrentBatch, stored, history>>

\* Queues::flush takes from one queue after the other before it waits for the
\* first answer; with nothing queued, a flush does nothing.
TakePeers ==
    /\ started /\ ~Flushing /\ reaper = Idle
    /\ peerQueue # NoRecords \/ torrentQueue # NoCounts
    /\ peerBatch' = peerQueue
    /\ peerQueue' = NoRecords
    /\ taking' = TRUE
    /\ UNCHANGED <<vars, started, stamp, told, torrentQueue, torrentBatch, stored, history>>

TakeTorrents ==
    /\ taking
    /\ torrentBatch' = torrentQueue
    /\ torrentQueue' = NoCounts
    /\ taking' = FALSE
    /\ UNCHANGED <<vars, started, stamp, told, peerQueue, peerBatch, stored, history>>

\* INSERT ... ON DUPLICATE KEY UPDATE: the row is overwritten.
RowsWith(batch) ==
    [t \in Torrent |-> [i \in Index |->
        IF batch[<<t, i>>] = NoRecord THEN rows[t][i] ELSE batch[<<t, i>>].peer]]

CountsWith(batch) == [t \in Torrent |-> Plus(counts[t], batch[t])]

PeersWritten ==
    /\ peerBatch # NoRecords
    /\ rows' = RowsWith(peerBatch)
    /\ peerBatch' = NoRecords
    /\ UNCHANGED <<vars, started, stamp, told, peerQueue, torrentQueue, taking, torrentBatch>>
    /\ UNCHANGED <<counts, history>>

TorrentsWritten ==
    /\ torrentBatch # NoCounts
    /\ counts' = CountsWith(torrentBatch)
    /\ torrentBatch' = NoCounts
    /\ UNCHANGED <<vars, started, stamp, told, peerQueue, torrentQueue, taking, peerBatch>>
    /\ UNCHANGED <<rows, history>>

Fail ==
    /\ failures < MaxFailures
    /\ failures' = failures + 1
    /\ UNCHANGED <<vars, started, stamp, told, taking, counts, crashes, overlapped>>

\* Mistake: the batch that failed is dropped.
TorrentsDropped ==
    /\ Fail
    /\ torrentBatch # NoCounts
    /\ torrentBatch' = NoCounts
    /\ UNCHANGED <<peerQueue, peerBatch, torrentQueue, rows>>

\* upsert_batch: what was not written goes back, and meets what has been
\* queued since. A statement that is reported as failed may have been applied.
PeersFail ==
    /\ Fail
    /\ peerBatch # NoRecords
    /\ peerQueue' = [k \in Key |-> IF peerBatch[k] = NoRecord THEN peerQueue[k]
                                   ELSE Merged(peerQueue[k], peerBatch[k])]
    /\ peerBatch' = NoRecords
    /\ rows' \in {rows, RowsWith(peerBatch)}
    /\ UNCHANGED <<torrentQueue, torrentBatch>>

\* Here a statement that failed was not applied: deltas that were committed and
\* reported as failed would be added again, and nothing would notice.
TorrentsFail ==
    /\ Fail
    /\ torrentBatch # NoCounts
    /\ torrentQueue' = [t \in Torrent |-> Plus(torrentQueue[t], torrentBatch[t])]
    /\ torrentBatch' = NoCounts
    /\ UNCHANGED <<peerQueue, peerBatch, rows>>

(***************************************************************************)
(* A crash, and the start after it (store.rs).                             *)
(***************************************************************************)
\* Everything in memory is gone.  Of the statements that were not answered
\* each may have been applied or not.
Crash ==
    /\ started
    /\ crashes < MaxCrashes
    /\ \E peersApplied \in BOOLEAN, torrentsApplied \in BOOLEAN :
        /\ peersApplied => peerBatch # NoRecords
        /\ torrentsApplied => torrentBatch # NoCounts
        /\ rows' = IF peersApplied THEN RowsWith(peerBatch) ELSE rows
        /\ counts' = IF torrentsApplied THEN CountsWith(torrentBatch) ELSE counts
    /\ started' = FALSE
    /\ torrents' = [t \in Torrent |->
          [is_deleted |-> FALSE, seeders |-> 0, leechers |-> 0, peers |-> NoPeers]]
    /\ users' = [u \in User |-> [num_seeding |-> 0, num_leeching |-> 0]]
    /\ reaper' = Idle
    /\ announce' = [h \in Handler |-> Idle]
    /\ persisted' = NoCounts
    /\ stamp' = [h \in Handler |-> 0]
    /\ told' = [h \in Handler |-> NoRecord]
    /\ peerQueue' = NoRecords
    /\ torrentQueue' = NoCounts
    /\ taking' = FALSE
    /\ peerBatch' = NoRecords
    /\ torrentBatch' = NoCounts
    /\ crashes' = crashes + 1
    /\ overlapped' = {}
    /\ UNCHANGED <<require, api, moved, announces, reloads, apiCalls, failures>>

\* The rows that the recount looks at.
CountedRows(t, req) ==
    {i \in Index : rows[t][i] # NoPeer /\ rows[t][i].is_active /\ rows[t][i].is_visible
                   /\ (req => rows[t][i].is_connectable)}

\* Mistake: the recount takes in peers that are no longer active.
SyncedAll(t, req) ==
    [seeders |-> Cardinality({i \in Index : rows[t][i] # NoPeer /\ rows[t][i].is_seeder}),
     leechers |-> Cardinality({i \in Index : rows[t][i] # NoPeer /\ ~rows[t][i].is_seeder})]

\* sync_peer_count_aggregates
Synced(t, req) ==
    [seeders |-> Cardinality({i \in CountedRows(t, req) : rows[t][i].is_seeder}),
     leechers |-> Cardinality({i \in CountedRows(t, req) : ~rows[t][i].is_seeder})]

\* The rows of u that UserStore::from_db counts, on all torrents: connectable
\* or not.
LoadedOf(u, is_seeder) ==
    Cardinality({k \in Key : /\ k[2][1] = u /\ rows[k[1]][k[2]] # NoPeer
                             /\ rows[k[1]][k[2]].is_active /\ rows[k[1]][k[2]].is_visible
                             /\ rows[k[1]][k[2]].is_seeder = is_seeder})

\* Mistake: the counts start at 0.
LoadedAsNew(u) == [num_seeding |-> 0, num_leeching |-> 0]

\* Mistake: a SUM over no rows is no number.
LoadedAsNull(u) ==
    [num_seeding |-> IF LoadedOf(u, TRUE) = 0 THEN NoRecord ELSE LoadedOf(u, TRUE),
     num_leeching |-> LoadedOf(u, FALSE)]

LoadedUser(u) == [num_seeding |-> LoadedOf(u, TRUE), num_leeching |-> LoadedOf(u, FALSE)]

\* The counters are recounted in the table, and everything is loaded.
Start ==
    /\ ~started
    /\ started' = TRUE
    /\ counts' = [t \in Torrent |-> Synced(t, require)]
    /\ torrents' = [t \in Torrent |->
          [is_deleted |-> FALSE, seeders |-> counts'[t].seeders, leechers |-> counts'[t].leechers,
           peers |-> rows[t]]]
    /\ users' = [u \in User |-> LoadedUser(u)]
    /\ persisted' = counts'
    /\ UNCHANGED <<require, reaper, announce, api, moved, announces, reloads, apiCalls>>
    /\ UNCHANGED <<queued, rows, history>>

(***************************************************************************)
(* Time.                                                                   *)
(***************************************************************************)
OlderRecord(r) == IF r = NoRecord THEN NoRecord ELSE [r EXCEPT !.peer.age = Older(@)]

\* Time passes in the tables too, and while the process is down.  A tick is
\* longer than the database takes for a statement.
TimePasses ==
    /\ ~Flushing
    /\ Tick
    /\ told' = [h \in Handler |-> OlderRecord(told[h])]
    /\ peerQueue' = [k \in Key |-> OlderRecord(peerQueue[k])]
    /\ rows' = [t \in Torrent |-> OlderPeers(rows[t])]
    /\ UNCHANGED <<started, stamp, torrentQueue, taking, peerBatch, torrentBatch, counts, history>>

Handle(h) ==
    \/ Arrive(h) \/ Proceed(h) \/ KeepPeer(h) \/ StopPeer(h) \/ QueuePeer(h) \/ QueueTorrent(h)

Flush ==
    \/ TakePeers \/ TakeTorrents
    \/ PeersWritten \/ TorrentsWritten \/ PeersFail \/ TorrentsFail

TrackerNext ==
    \/ \E h \in Handler : Handle(h)
    \/ StartReap \/ ReapAndTell
    \/ Flush
    \/ Crash \/ Start
    \/ TimePasses

TrackerSpec == TrackerInit /\ [][TrackerNext]_trackerVars

\* The scheduler flushes and reaps again and again, the database answers, time
\* passes, and a process that has crashed is started again.
TrackerFairness ==
    /\ SF_trackerVars(TimePasses)
    /\ WF_trackerVars(StartReap \/ ReapAndTell)
    /\ SF_trackerVars(TakePeers)
    /\ WF_trackerVars(TakeTorrents)
    /\ WF_trackerVars(PeersWritten)
    /\ WF_trackerVars(TorrentsWritten)
    /\ WF_trackerVars(Start)

FairTracker == TrackerSpec /\ TrackerFairness

(***************************************************************************)
(* Properties.                                                             *)
(***************************************************************************)
TrackerTypeOK ==
    /\ TypeOK
    /\ started \in BOOLEAN
    /\ stamp \in [Handler -> 0..MaxAnnounces]
    /\ told \in [Handler -> Record \cup {NoRecord}]
    /\ peerQueue \in [Key -> Record \cup {NoRecord}]
    /\ torrentQueue \in [Torrent -> Counts]
    /\ taking \in BOOLEAN
    /\ peerBatch \in [Key -> Record \cup {NoRecord}]
    /\ torrentBatch \in [Torrent -> Counts]
    /\ rows \in [Torrent -> PeerStore]
    /\ counts \in [Torrent -> Counts]
    /\ failures \in 0..MaxFailures
    /\ crashes \in 0..MaxCrashes
    /\ overlapped \subseteq Key

\* The table's counters, with what is queued for them, unanswered or still with
\* a request, are those in memory, across failed statements, crashes and starts
\* (queue/torrent_update.rs; store.rs, sync_peer_count_aggregates).
TableFollowsCounters ==
    started => \A t \in Torrent :
        LET due == Plus(counts[t], Plus(torrentQueue[t], torrentBatch[t]))
        IN  /\ due.seeders + SumFunction(InFlight(t, "seeder_delta")) = torrents[t].seeders
            /\ due.leechers + SumFunction(InFlight(t, "leecher_delta")) = torrents[t].leechers

\* A row of this key has still to be written.
OnItsWay(k) ==
    \/ peerQueue[k] # NoRecord \/ peerBatch[k] # NoRecord
    \/ \E h \in Handler : told[h] # NoRecord /\ KeyOf(h) = k

\* Once it is written, the row of a peer that is active is the peer; and the row
\* of one that is not active, or gone, is one that no start takes for a client
\* that is still there: it is inactive, or so old that the next reap expires it
\* (queue/peer_update.rs, merge; store/torrent.rs, the load).  This is said of
\* the peers that never had two announces in flight since the process started:
\* of two that overlap, the one received first may be the last to take the
\* torrents lock, and memory then has its data while the row has the other's.
RowsFollowPeers ==
    started => \A t \in Torrent, i \in Index :
        LET row == rows[t][i]
            peer == torrents[t].peers[i]
        IN  <<t, i>> \notin overlapped /\ ~OnItsWay(<<t, i>>) =>
              IF peer # NoPeer /\ peer.is_active THEN row = peer
              ELSE row = NoPeer \/ ~row.is_active \/ Expired(row)

\* When announces stop, table and memory agree in the end that nobody is there,
\* whatever was lost, put back or recounted on the way (scheduler.rs; queue.rs;
\* store.rs).
TablesSettle ==
    <>[](\A h \in Handler : announce[h] = Idle)
        => <>[](/\ started
                /\ counts = NoCounts
                /\ \A t \in Torrent : torrents[t].peers = NoPeers)
=============================================================================
