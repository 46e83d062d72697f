---------------------------- MODULE TrackerProofs ----------------------------
(***************************************************************************)
(* For every set of torrents, users, peers and requests, and any number of *)
(* failed statements and crashes: the process and its tables are type      *)
(* correct, a torrent's counters are the numbers of its peers also after a *)
(* start from the tables, what the table of torrents lacks of them is on   *)
(* its way, and no user is counted too low.                                *)
(***************************************************************************)
EXTENDS Tracker, SwarmProofs

(***************************************************************************)
(* The steps of the process, as steps of the swarm.                        *)
(***************************************************************************)
\* Everything but a crash and a start is a step of Swarm, or leaves it alone
\* (announce.rs, scheduler.rs, queue.rs).
LEMMA StepsOfSwarm ==
    ASSUME [TrackerNext]_trackerVars, ~Crash, ~Start
    PROVE  [Next]_vars
<1>1. ASSUME NEW h \in Handler, Handle(h)
      PROVE  [Next]_vars
  <2>1. Announce(h) \/ UNCHANGED vars
    BY <1>1 DEF Handle, Arrive, Proceed, KeepPeer, StopPeer, QueuePeer, QueueTorrent, Announce
  <2> QED BY <2>1 DEF Next
<1>2. CASE StartReap \/ ReapAndTell
  BY <1>2 DEF StartReap, ReapAndTell, Next
<1>3. CASE Flush
  BY <1>3 DEF Flush, TakePeers, TakeTorrents, PeersWritten, TorrentsWritten, PeersFail,
              TorrentsFail, Fail
<1>4. CASE TimePasses
  BY <1>4 DEF TimePasses, Next
<1>5. CASE UNCHANGED trackerVars
  BY <1>5 DEF trackerVars
<1> QED BY <1>1, <1>2, <1>3, <1>4, <1>5 DEF TrackerNext

(***************************************************************************)
(* A start from the tables.                                                *)
(***************************************************************************)
\* The rows of a user that the load counts are so many (store/user.rs).
LEMMA LoadedType ==
    ASSUME NEW u, NEW is_seeder
    PROVE  LoadedOf(u, is_seeder) \in Nat
<1> DEFINE S == {k \in Key : /\ k[2][1] = u /\ rows[k[1]][k[2]] # NoPeer
                             /\ rows[k[1]][k[2]].is_active /\ rows[k[1]][k[2]].is_visible
                             /\ rows[k[1]][k[2]].is_seeder = is_seeder}
<1>1. IsFiniteSet(Key)
  BY IndexFinite, SetAssumption, FS_Product DEF Key
<1>2. S \subseteq Key
  OBVIOUS
<1> HIDE DEF S
<1>3. Cardinality(S) \in Nat
  BY <1>1, <1>2, FS_Subset, FS_CardinalityType
<1> QED BY <1>3 DEF LoadedOf, S

\* The recount of the rows is the sizes of the lists they make (store.rs,
\* sync_peer_count_aggregates; store/peer.rs, is_included_in_peer_list).
LEMMA RecountExact ==
    ASSUME NEW t, rows[t] \in PeerStore, NEW req \in BOOLEAN
    PROVE  /\ Synced(t, req).seeders = Cardinality(SeedersIn(rows[t], req))
           /\ Synced(t, req).leechers = Cardinality(LeechersIn(rows[t], req))
           /\ Synced(t, req).seeders \in Nat /\ Synced(t, req).leechers \in Nat
           /\ Synced(t, req) = [seeders |-> Synced(t, req).seeders,
                                leechers |-> Synced(t, req).leechers]
<1>1. DOMAIN rows[t] = Index
  BY DEF PeerStore
<1>2. /\ {i \in CountedRows(t, req) : rows[t][i].is_seeder} = SeedersIn(rows[t], req)
      /\ {i \in CountedRows(t, req) : ~rows[t][i].is_seeder} = LeechersIn(rows[t], req)
  BY <1>1 DEF CountedRows, SeedersIn, LeechersIn, InSeedList, InLeechList, Included
<1>3. SeedersIn(rows[t], req) \in SUBSET Index /\ LeechersIn(rows[t], req) \in SUBSET Index
  BY <1>1 DEF SeedersIn, LeechersIn
<1>4. /\ Cardinality(SeedersIn(rows[t], req)) \in Nat
      /\ Cardinality(LeechersIn(rows[t], req)) \in Nat
  BY <1>3, PeersCounted
<1> QED BY <1>2, <1>4 DEF Synced

\* What a start loads (store/torrent.rs, store/user.rs).
LEMMA StartLoads ==
    ASSUME TrackerTypeOK, Start
    PROVE  /\ TypeOK'
           /\ counts' \in [Torrent -> Counts]
           /\ \A t \in Torrent : SeederDrift(t)' = 0 /\ LeecherDrift(t)' = 0
<1>1. /\ TypeOK /\ require \in BOOLEAN /\ rows \in [Torrent -> PeerStore]
  BY DEF TrackerTypeOK, TypeOK
<1>2. /\ counts' = [t \in Torrent |-> Synced(t, require)]
      /\ torrents' = [t \in Torrent |->
            [is_deleted |-> FALSE, seeders |-> counts'[t].seeders,
             leechers |-> counts'[t].leechers, peers |-> rows[t]]]
      /\ users' = [u \in User |-> LoadedUser(u)]
      /\ persisted' = counts'
      /\ UNCHANGED <<require, reaper, announce, api, moved, announces, reloads, apiCalls>>
  BY DEF Start
<1>3. ASSUME NEW t \in Torrent
      PROVE  /\ counts'[t].seeders = Cardinality(SeedersIn(rows[t], require))
             /\ counts'[t].leechers = Cardinality(LeechersIn(rows[t], require))
             /\ counts'[t].seeders \in Nat /\ counts'[t].leechers \in Nat
             /\ counts'[t] \in [seeders : Int, leechers : Int]
             /\ rows[t] \in PeerStore
  <2>1. rows[t] \in PeerStore /\ counts'[t] = Synced(t, require)
    BY <1>1, <1>2
  <2> QED BY <1>1, <2>1, RecountExact
<1>4. torrents' \in [Torrent -> Entry \cup {Absent}]
  BY <1>2, <1>3 DEF Entry
<1>5. counts' \in [Torrent -> [seeders : Int, leechers : Int]]
  BY <1>2, <1>3
<1>6. users' \in [User -> [num_seeding : Nat, num_leeching : Nat]]
  BY <1>2, LoadedType DEF LoadedUser
<1>7. TypeOK'
  BY <1>1, <1>2, <1>4, <1>5, <1>6 DEF TypeOK
<1>8. ASSUME NEW t \in Torrent
      PROVE  SeederDrift(t)' = 0 /\ LeecherDrift(t)' = 0
  <2>1. /\ torrents'[t].seeders = counts'[t].seeders
        /\ torrents'[t].leechers = counts'[t].leechers
        /\ torrents'[t].peers = rows[t]
        /\ require' = require
    BY <1>2
  <2> QED BY <1>3, <2>1 DEF SeederDrift, LeecherDrift
<1> QED BY <1>5, <1>7, <1>8 DEF Counts

\* What a crash leaves in memory (main.rs; store/torrent.rs, TorrentStore::new).
LEMMA CrashEmpties ==
    ASSUME TypeOK, Crash
    PROVE  /\ TypeOK'
           /\ \A t \in Torrent : SeederDrift(t)' = 0 /\ LeecherDrift(t)' = 0
<1>1. /\ torrents' = [t \in Torrent |->
            [is_deleted |-> FALSE, seeders |-> 0, leechers |-> 0, peers |-> NoPeers]]
      /\ users' = [u \in User |-> [num_seeding |-> 0, num_leeching |-> 0]]
      /\ reaper' = Idle /\ announce' = [h \in Handler |-> Idle] /\ persisted' = NoCounts
      /\ UNCHANGED <<require, api, moved, announces, reloads, apiCalls>>
  BY DEF Crash
<1>2. torrents' \in [Torrent -> Entry \cup {Absent}]
  <2>1. NoPeers \in PeerStore
    BY DEF NoPeers, PeerStore
  <2> QED BY <1>1, <2>1 DEF Entry
<1>3. TypeOK'
  <2>1. announce' \in [Handler -> Request]
    BY <1>1 DEF Request
  <2>2. persisted' \in [Torrent -> [seeders : Int, leechers : Int]]
    BY <1>1 DEF NoCounts
  <2>3. users' \in [User -> [num_seeding : Nat, num_leeching : Nat]]
    BY <1>1
  <2> QED BY <1>1, <1>2, <2>1, <2>2, <2>3 DEF TypeOK
<1>4. SeedersIn(NoPeers, require') = {} /\ LeechersIn(NoPeers, require') = {}
  BY DEF SeedersIn, LeechersIn, InSeedList, InLeechList, Included, NoPeers
<1>5. ASSUME NEW t \in Torrent
      PROVE  SeederDrift(t)' = 0 /\ LeecherDrift(t)' = 0
  <2>1. /\ torrents'[t].seeders = 0 /\ torrents'[t].leechers = 0
        /\ torrents'[t].peers = NoPeers
    BY <1>1
  <2> QED BY <1>4, <2>1, FS_EmptySet DEF SeederDrift, LeecherDrift
<1> QED BY <1>3, <1>5

(***************************************************************************)
(* Type correctness of the queues and the tables.                          *)
(***************************************************************************)
\* A record of a peer that is a peer (queue/peer_update.rs).
LEMMA MergedType ==
    ASSUME NEW x \in Record \cup {NoRecord}, NEW y \in Record
    PROVE  Merged(x, y) \in Record
BY DEF Merged

\* Counts add up to counts (queue/torrent_update.rs, merge).
LEMMA CountsType ==
    ASSUME NEW x \in Counts, NEW y \in Counts
    PROVE  Plus(x, y) \in Counts /\ Minus(x, y) \in Counts
BY DEF Counts, Plus, Minus

\* A statement writes rows of peers (queue/peer_update.rs, flush_to_db).
LEMMA RowsWithType ==
    ASSUME rows \in [Torrent -> PeerStore], NEW batch \in [Key -> Record \cup {NoRecord}]
    PROVE  RowsWith(batch) \in [Torrent -> PeerStore]
<1>1. ASSUME NEW t \in Torrent, NEW i \in Index
      PROVE  (IF batch[<<t, i>>] = NoRecord THEN rows[t][i] ELSE batch[<<t, i>>].peer)
                \in Peer \cup {NoPeer}
  <2>1. <<t, i>> \in Key /\ rows[t] \in PeerStore
    BY DEF Key
  <2>2. batch[<<t, i>>] \in Record \cup {NoRecord} /\ rows[t][i] \in Peer \cup {NoPeer}
    BY <2>1 DEF PeerStore
  <2> QED BY <2>2 DEF Record
<1> QED BY <1>1 DEF RowsWith, PeerStore

\* Initially nothing is queued and the tables are empty.
LEMMA TrackerTypeInit == TrackerInit => TrackerTypeOK
<1> SUFFICES ASSUME TrackerInit PROVE TrackerTypeOK
  OBVIOUS
<1>1. TypeOK
  BY TypeInit DEF TrackerInit
<1>2. NoRecords \in [Key -> Record \cup {NoRecord}] /\ NoCounts \in [Torrent -> Counts]
  BY DEF NoRecords, NoCounts, Counts
<1>3. [t \in Torrent |-> NoPeers] \in [Torrent -> PeerStore]
  BY DEF NoPeers, PeerStore
<1>4. 0 \in 0..MaxAnnounces /\ 0 \in 0..MaxFailures /\ 0 \in 0..MaxCrashes
  BY NumberAssumption, FaultAssumption
<1> QED BY <1>1, <1>2, <1>3, <1>4 DEF TrackerInit, TrackerTypeOK

\* The row of the peer that an announce leaves in the store (announce.rs).
LEMMA KeptPeerType ==
    ASSUME TypeOK, NEW h \in Handler, Modify(h) \/ Insert(h)
    PROVE  torrents'[announce[h].torrent].peers[announce[h].index] \in Peer
<1> DEFINE a == announce[h]
<1>1. a \in Locking /\ Locked(h)
  BY RequestPhases DEF Modify, Insert, Locked
<1>2. a.torrent \in Torrent /\ torrents[a.torrent] \in Entry /\ a.index \in Index
  BY <1>1, PresentType DEF Locked, Announceable, Locking
<1>3. OldPeer(h) \in Peer \cup {NoPeer}
  BY <1>2 DEF OldPeer, Entry, PeerStore
<1>4. PICK new \in Peer : Replace(h, new)
  BY <1>1, <1>3, AnnouncedPeerType DEF Modify, Insert
<1>5. torrents'[a.torrent].peers[a.index] = new
  BY <1>2, <1>4 DEF Replace, TypeOK, Entry, PeerStore
<1> QED BY <1>4, <1>5

\* What a step hands to the torrents queue is merged to counts (announce.rs,
\* scheduler.rs).
LEMMA TellTorrentsType ==
    ASSUME TrackerTypeOK, TypeOK', TellTorrents
    PROVE  torrentQueue' \in [Torrent -> Counts]
<1>1. ASSUME NEW t \in Torrent
      PROVE  Plus(torrentQueue[t], Minus(persisted'[t], persisted[t])) \in Counts
  <2>1. torrentQueue[t] \in Counts /\ persisted'[t] \in Counts /\ persisted[t] \in Counts
    BY DEF TrackerTypeOK, TypeOK, Counts
  <2> QED BY <2>1, CountsType
<1> QED BY <1>1 DEF TellTorrents

\* An announce, in each of its steps (announce.rs).
LEMMA HandleType ==
    ASSUME TrackerTypeOK, TypeOK', NEW h \in Handler, Handle(h)
    PROVE  TrackerTypeOK'
<1>1. CASE Arrive(h)
  <2>1. KeyOf(h)' \in Key
    BY <1>1 DEF Arrive, Receive, KeyOf, Key, TrackerTypeOK, TypeOK
  <2>2. overlapped' \subseteq Key
    BY <1>1, <2>1 DEF Arrive, TrackerTypeOK
  <2>3. stamp' \in [Handler -> 0..MaxAnnounces]
    BY <1>1 DEF Arrive, TrackerTypeOK, TypeOK
  <2> QED BY <1>1, <2>2, <2>3 DEF Arrive, TrackerTypeOK, stored
<1>2. CASE Proceed(h)
  BY <1>2 DEF Proceed, TrackerTypeOK, queued, stored, history
<1>3. CASE KeepPeer(h)
  <2>1. torrents'[announce[h].torrent].peers[announce[h].index] \in Peer
    BY <1>3, KeptPeerType DEF KeepPeer, TrackerTypeOK
  <2>2. told' \in [Handler -> Record \cup {NoRecord}]
    BY <1>3, <2>1, NumberAssumption DEF KeepPeer, Tell, TrackerTypeOK, Record
  <2> QED BY <1>3, <2>2 DEF KeepPeer, Tell, TrackerTypeOK, stored, history
<1>4. CASE StopPeer(h)
  <2>1. announce[h] \in Locking
    BY <1>4, RequestPhases DEF StopPeer, Stop, Locked, TrackerTypeOK
  <2>2. PICK is_seeder \in BOOLEAN :
          Tell(h, [is_seeder |-> is_seeder, is_active |-> FALSE, is_visible |-> FALSE,
                   is_connectable |-> announce[h].connectable, age |-> announce[h].age])
    BY <1>4 DEF StopPeer
  <2>3. [is_seeder |-> is_seeder, is_active |-> FALSE, is_visible |-> FALSE,
         is_connectable |-> announce[h].connectable, age |-> announce[h].age] \in Peer
    BY <2>1 DEF Locking, Peer
  <2>4. told' \in [Handler -> Record \cup {NoRecord}]
    BY <2>2, <2>3, NumberAssumption DEF Tell, TrackerTypeOK, Record
  <2> QED BY <2>2, <2>4 DEF Tell, TrackerTypeOK, stored, history
<1>5. CASE QueuePeer(h)
  <2> DEFINE k == <<announce[h].torrent, announce[h].index>>
  <2>1. peerQueue' = [peerQueue EXCEPT ![k] = Merged(@, told[h])] /\ told[h] \in Record
    BY <1>5 DEF QueuePeer, TrackerTypeOK
  <2>2. peerQueue' \in [Key -> Record \cup {NoRecord}]
    BY <2>1, MergedType DEF TrackerTypeOK
  <2> QED BY <1>5, <2>2, NumberAssumption DEF QueuePeer, TrackerTypeOK, stored, history
<1>6. CASE QueueTorrent(h)
  BY <1>6, TellTorrentsType DEF QueueTorrent, TrackerTypeOK, stored, history
<1> QED BY <1>1, <1>2, <1>3, <1>4, <1>5, <1>6 DEF Handle

\* A flush, answered or failed (queue.rs, flush and upsert_batch).
LEMMA FlushType ==
    ASSUME TrackerTypeOK, TypeOK', Flush
    PROVE  TrackerTypeOK'
<1>1. NoRecords \in [Key -> Record \cup {NoRecord}] /\ NoCounts \in [Torrent -> Counts]
  BY DEF NoRecords, NoCounts, Counts
<1>2. CASE TakePeers \/ TakeTorrents
  BY <1>1, <1>2 DEF TakePeers, TakeTorrents, TrackerTypeOK, stored, history
<1>3. CASE PeersWritten
  <2>1. RowsWith(peerBatch) \in [Torrent -> PeerStore]
    BY RowsWithType DEF TrackerTypeOK
  <2> QED BY <1>1, <1>3, <2>1 DEF PeersWritten, TrackerTypeOK, history
<1>4. CASE TorrentsWritten
  <2>1. CountsWith(torrentBatch) \in [Torrent -> Counts]
    BY CountsType DEF CountsWith, TrackerTypeOK
  <2> QED BY <1>1, <1>4, <2>1 DEF TorrentsWritten, TrackerTypeOK, history
<1>5. CASE PeersFail
  <2>1. peerQueue' \in [Key -> Record \cup {NoRecord}]
    <3>1. ASSUME NEW k \in Key
          PROVE  (IF peerBatch[k] = NoRecord THEN peerQueue[k]
                  ELSE Merged(peerQueue[k], peerBatch[k])) \in Record \cup {NoRecord}
      BY MergedType DEF TrackerTypeOK
    <3> QED BY <1>5, <3>1 DEF PeersFail
  <2>2. rows' \in [Torrent -> PeerStore]
    BY <1>5, RowsWithType DEF PeersFail, TrackerTypeOK
  <2> QED BY <1>1, <1>5, <2>1, <2>2, FaultAssumption DEF PeersFail, Fail, TrackerTypeOK
<1>6. CASE TorrentsFail
  <2>1. torrentQueue' \in [Torrent -> Counts]
    BY <1>6, CountsType DEF TorrentsFail, TrackerTypeOK
  <2> QED BY <1>1, <1>6, <2>1, FaultAssumption DEF TorrentsFail, Fail, TrackerTypeOK
<1> QED BY <1>2, <1>3, <1>4, <1>5, <1>6 DEF Flush

\* The process dies, with a statement applied or not.
LEMMA CrashType ==
    ASSUME TrackerTypeOK, TypeOK', Crash
    PROVE  TrackerTypeOK'
<1>1. NoRecords \in [Key -> Record \cup {NoRecord}] /\ NoCounts \in [Torrent -> Counts]
  BY DEF NoRecords, NoCounts, Counts
<1>2. RowsWith(peerBatch) \in [Torrent -> PeerStore]
  BY RowsWithType DEF TrackerTypeOK
<1>3. CountsWith(torrentBatch) \in [Torrent -> Counts]
  BY CountsType DEF CountsWith, TrackerTypeOK
<1>4. rows' \in [Torrent -> PeerStore] /\ counts' \in [Torrent -> Counts]
  BY <1>2, <1>3 DEF Crash, TrackerTypeOK
<1>5. /\ started' = FALSE /\ stamp' = [h \in Handler |-> 0] /\ told' = [h \in Handler |-> NoRecord]
      /\ peerQueue' = NoRecords /\ torrentQueue' = NoCounts /\ taking' = FALSE
      /\ peerBatch' = NoRecords /\ torrentBatch' = NoCounts
      /\ crashes' = crashes + 1 /\ crashes < MaxCrashes /\ failures' = failures
      /\ overlapped' = {}
  BY DEF Crash
<1>6. crashes' \in 0..MaxCrashes
  BY <1>5, FaultAssumption DEF TrackerTypeOK
<1>7. stamp' \in [Handler -> 0..MaxAnnounces] /\ told' \in [Handler -> Record \cup {NoRecord}]
  BY <1>5, NumberAssumption
<1>8. /\ peerQueue' \in [Key -> Record \cup {NoRecord}]
      /\ peerBatch' \in [Key -> Record \cup {NoRecord}]
      /\ torrentQueue' \in [Torrent -> Counts] /\ torrentBatch' \in [Torrent -> Counts]
  BY <1>1, <1>5
<1>9. /\ started' \in BOOLEAN /\ taking' \in BOOLEAN /\ failures' \in 0..MaxFailures
      /\ overlapped' \subseteq Key
  BY <1>5 DEF TrackerTypeOK
<1> QED BY <1>4, <1>6, <1>7, <1>8, <1>9 DEF TrackerTypeOK

\* Time passes, in memory, in the queues and in the table.
LEMMA TimeType ==
    ASSUME TrackerTypeOK, TypeOK', TimePasses
    PROVE  TrackerTypeOK'
<1>1. ASSUME NEW r \in Record \cup {NoRecord}
      PROVE  OlderRecord(r) \in Record \cup {NoRecord}
  <2>1. CASE r \in Record
    <3>1. r.peer \in Peer /\ Older(r.peer.age) \in Age
      BY <2>1, NumberAssumption DEF Record, Peer, Age, Oldest, Older
    <3>2. [r.peer EXCEPT !.age = Older(@)] \in Peer
      BY <3>1 DEF Peer
    <3>3. [r EXCEPT !.peer = [r.peer EXCEPT !.age = Older(@)]] \in Record
      BY <2>1, <3>2 DEF Record
    <3>4. [r EXCEPT !.peer.age = Older(@)] = [r EXCEPT !.peer = [r.peer EXCEPT !.age = Older(@)]]
      BY <2>1 DEF Record, Peer
    <3> QED BY <3>3, <3>4 DEF OlderRecord
  <2>2. CASE r = NoRecord
    BY <2>2 DEF OlderRecord
  <2> QED BY <2>1, <2>2
<1>2. told' \in [Handler -> Record \cup {NoRecord}] /\ peerQueue' \in [Key -> Record \cup {NoRecord}]
  BY <1>1 DEF TimePasses, TrackerTypeOK
<1>3. rows' \in [Torrent -> PeerStore]
  BY PeersType DEF TimePasses, TrackerTypeOK
<1> QED BY <1>2, <1>3 DEF TimePasses, TrackerTypeOK, history

\* Every step keeps the types of queues and tables.
LEMMA TrackerTypeStep ==
    ASSUME TrackerTypeOK, TypeOK', [TrackerNext]_trackerVars
    PROVE  TrackerTypeOK'
<1>1. CASE StartReap \/ UNCHANGED trackerVars
  BY <1>1 DEF StartReap, trackerVars, queued, stored, history, TrackerTypeOK
<1>2. CASE ReapAndTell
  BY <1>2, TellTorrentsType DEF ReapAndTell, stored, history, TrackerTypeOK
<1>3. CASE Start
  BY <1>3, StartLoads DEF Start, queued, history, TrackerTypeOK
<1> QED BY <1>1, <1>2, <1>3, HandleType, FlushType, CrashType, TimeType DEF TrackerNext

(***************************************************************************)
(* The theorems.                                                           *)
(***************************************************************************)
\* What is true between any two steps: what the swarm keeps, and the types of
\* what surrounds it.
TrackerInvariant == CountersInvariant /\ TrackerTypeOK

\* Initially nothing is there.
LEMMA TrackerInvariantInit == TrackerInit => TrackerInvariant
BY CountersInit, TrackerTypeInit DEF TrackerInit, TrackerInvariant

\* Every step keeps it: those of Swarm by what is proved there, a crash because
\* it leaves nothing, and a start because it counts what it loads.
LEMMA TrackerInvariantStep ==
    TrackerInvariant /\ [TrackerNext]_trackerVars => TrackerInvariant'
<1> SUFFICES ASSUME TrackerInvariant, [TrackerNext]_trackerVars
             PROVE  TrackerInvariant'
  OBVIOUS
<1>1. TypeOK /\ FreshUntilMoved /\ CountersInvariant /\ TrackerTypeOK
  BY DEF TrackerInvariant, CountersInvariant
<1>2. CountersInvariant'
  <2>1. CASE ~Crash /\ ~Start
    BY <1>1, <2>1, StepsOfSwarm, CountersStep
  <2>2. CASE Crash
    <3>1. FreshUntilMoved'
      BY <2>2 DEF Crash, FreshUntilMoved, ConfigFresh, Idle
    <3> QED BY <1>1, <2>2, <3>1, CrashEmpties DEF CountersInvariant, CountersExact, Present
  <2>3. CASE Start
    <3>1. FreshUntilMoved'
      BY <1>1, <2>3 DEF Start, FreshUntilMoved, ConfigFresh
    <3> QED BY <1>1, <2>3, <3>1, StartLoads DEF CountersInvariant, CountersExact, Present
  <2> QED BY <2>1, <2>2, <2>3
<1>3. TrackerTypeOK'
  BY <1>1, <1>2, TrackerTypeStep DEF CountersInvariant
<1> QED BY <1>2, <1>3 DEF TrackerInvariant

\* Memory, queues, statements and tables keep their types across failures,
\* crashes and starts (queue.rs, store.rs, store/torrent.rs, store/user.rs).
THEOREM TrackerTypeCorrect == TrackerSpec => []TrackerTypeOK
<1>1. TrackerInvariant => TrackerTypeOK
  BY DEF TrackerInvariant
<1> QED BY <1>1, TrackerInvariantInit, TrackerInvariantStep, PTL DEF TrackerSpec

\* A torrent's seeders and leechers are the numbers of its peers, however
\* often the process crashes, wherever a crash cuts a flush, and whatever of it
\* the tables have received (announce.rs; scheduler.rs; store.rs).
THEOREM CountersSurviveCrashes == TrackerSpec => []CountersExact
<1>1. TrackerInvariant => CountersExact
  BY DEF TrackerInvariant, CountersInvariant
<1> QED BY <1>1, TrackerInvariantInit, TrackerInvariantStep, PTL DEF TrackerSpec

(***************************************************************************)
(* The counters in the table, and the users' counts.                       *)
(***************************************************************************)
\* The website's calls and the reload are not among the steps of the process.
Undisturbed ==
    /\ moved = {} /\ reloads = 0 /\ api = [a \in ApiCall |-> Free]
    /\ \A t \in Torrent : torrents[t] # Absent

\* Before the start nobody is there, and nothing is queued for the counters.
NoDeltasBeforeStart ==
    ~started => /\ announce = [h \in Handler |-> Idle] /\ reaper = Idle
                /\ torrentQueue = NoCounts /\ torrentBatch = NoCounts

\* A flush that has still to take from the torrents queue holds no batch of it.
TakingHoldsNone == taking => torrentBatch = NoCounts

\* What was handed to the torrents queue, and what was loaded, is in the table,
\* in the queue or in the statement that is not answered yet.
Due(t) == Plus(counts[t], Plus(torrentQueue[t], torrentBatch[t]))

NothingLost ==
    started => \A t \in Torrent : /\ Due(t).seeders = persisted[t].seeders
                                  /\ Due(t).leechers = persisted[t].leechers

TablesInv ==
    /\ Undisturbed /\ NoDeltasBeforeStart /\ TakingHoldsNone /\ NothingLost
    /\ QueueFollowsMemory /\ UsersInvariant

\* No step takes a torrent out of the store (announce.rs, scheduler.rs, store.rs).
LEMMA UndisturbedStep ==
    ASSUME TrackerTypeOK, Undisturbed, [TrackerNext]_trackerVars
    PROVE  Undisturbed'
<1>1. TypeOK
  BY DEF TrackerTypeOK
<1>2. CASE UNCHANGED <<torrents, api, moved, reloads>>
  BY <1>2 DEF Undisturbed
<1>3. ASSUME NEW h \in Handler, Handle(h)
      PROVE  Undisturbed'
  <2>1. CASE Stop(h) \/ Modify(h) \/ Insert(h)
    <3>1. PICK new \in Peer \cup {NoPeer} : Replace(h, new)
      BY <1>1, <2>1, ReplacedByPeer
    <3>2. Locked(h)
      BY <1>1, <2>1, ReplacedByPeer
    <3>3. \A t \in Torrent : torrents'[t] \in Entry \/ torrents'[t] = torrents[t]
      BY <1>1, <3>1, <3>2, ReplaceHolds
    <3>4. UNCHANGED <<api, moved, reloads>>
      BY <3>1 DEF Replace
    <3> QED BY <3>3, <3>4, AbsentAssumption DEF Undisturbed
  <2>2. CASE ~(Stop(h) \/ Modify(h) \/ Insert(h))
    BY <1>2, <1>3, <2>2 DEF Handle, Arrive, Proceed, KeepPeer, StopPeer, QueuePeer, QueueTorrent,
                            Receive, Probed, Reject, Refuse, Count, Queue, vars
  <2> QED BY <2>1, <2>2
<1>4. CASE StartReap \/ Flush \/ UNCHANGED trackerVars
  BY <1>2, <1>4 DEF StartReap, ReapStarts, Flush, TakePeers, TakeTorrents, PeersWritten,
                    TorrentsWritten, PeersFail, TorrentsFail, Fail, vars, trackerVars
<1>5. CASE ReapAndTell
  <2>1. TypeOK'
    BY <1>1, <1>5, ReapType DEF ReapAndTell
  <2>2. UNCHANGED <<api, moved, reloads>>
    BY <1>5 DEF ReapAndTell, Reap
  <2>3. ASSUME NEW t \in Torrent PROVE torrents'[t] # Absent
    <3>1. torrents'[t] \in Entry
      BY <1>1, <1>5, ReapKeepsEntries DEF ReapAndTell, Undisturbed, Present
    <3> QED BY <3>1, AbsentAssumption
  <2> QED BY <2>2, <2>3 DEF Undisturbed
<1>6. CASE TimePasses
  <2>1. UNCHANGED <<moved, reloads>> /\ api' = [a \in ApiCall |-> Free]
    BY <1>6 DEF TimePasses, Tick, Undisturbed
  <2>2. ASSUME NEW t \in Torrent PROVE torrents'[t] # Absent
    <3>1. torrents[t] \in Entry
      BY <1>1, PresentType DEF Undisturbed
    <3>2. torrents'[t] = [torrents[t] EXCEPT !.peers = OlderPeers(@)]
      BY <1>6 DEF TimePasses, Tick, Undisturbed
    <3>3. torrents'[t] \in Entry
      BY <3>1, <3>2, PeersType DEF Entry
    <3> QED BY <3>3, AbsentAssumption
  <2> QED BY <2>1, <2>2 DEF Undisturbed
<1>7. CASE Crash
  <2>1. [is_deleted |-> FALSE, seeders |-> 0, leechers |-> 0, peers |-> NoPeers] \in Entry
    BY DEF Entry, PeerStore, NoPeers
  <2> QED BY <1>7, <2>1, AbsentAssumption DEF Crash, Undisturbed
<1>8. CASE Start
  <2>1. ASSUME NEW t \in Torrent PROVE torrents'[t] # Absent
    <3>1. require \in BOOLEAN /\ rows[t] \in PeerStore
      BY DEF TrackerTypeOK, TypeOK
    <3>2. torrents'[t] = [is_deleted |-> FALSE, seeders |-> Synced(t, require).seeders,
                          leechers |-> Synced(t, require).leechers, peers |-> rows[t]]
      BY <1>8 DEF Start
    <3>3. torrents'[t] \in Entry
      BY <3>1, <3>2, RecountExact DEF Entry
    <3> QED BY <3>3, AbsentAssumption
  <2> QED BY <1>8, <2>1 DEF Start, Undisturbed
<1> QED BY <1>3, <1>4, <1>5, <1>6, <1>7, <1>8 DEF TrackerNext

\* Before the start nothing happens, and a flush takes once (queue.rs, flush).
LEMMA FlushOrder ==
    ASSUME TrackerTypeOK, NoDeltasBeforeStart, TakingHoldsNone, [TrackerNext]_trackerVars
    PROVE  NoDeltasBeforeStart' /\ TakingHoldsNone'
<1>1. TypeOK /\ Idle.pc = "idle"
  BY DEF TrackerTypeOK, Idle
<1>2. ASSUME NEW h \in Handler, Handle(h)
      PROVE  started /\ UNCHANGED <<started, taking, torrentBatch>>
  <2>1. started
    <3>1. CASE Arrive(h)
      BY <3>1 DEF Arrive
    <3>2. CASE ~Arrive(h)
      <4>1. announce[h].pc # "idle"
        BY <1>2, <3>2 DEF Handle, Proceed, KeepPeer, StopPeer, QueuePeer, QueueTorrent, Probed,
                          Reject, Count, Queue, Stop, Modify, Insert, Locked
      <4> QED BY <1>1, <4>1 DEF NoDeltasBeforeStart
    <3> QED BY <3>1, <3>2
  <2>2. UNCHANGED <<started, taking, torrentBatch>>
    BY <1>2 DEF Handle, Arrive, Proceed, KeepPeer, StopPeer, Tell, QueuePeer, QueueTorrent, queued
  <2> QED BY <2>1, <2>2
<1>3. CASE \E h \in Handler : Handle(h)
  BY <1>2, <1>3 DEF NoDeltasBeforeStart, TakingHoldsNone
<1>4. CASE StartReap \/ ReapAndTell
  <2>1. started /\ UNCHANGED <<started, taking, torrentBatch>>
    BY <1>4 DEF StartReap, ReapAndTell, Reap, NoDeltasBeforeStart, queued
  <2> QED BY <2>1 DEF NoDeltasBeforeStart, TakingHoldsNone
<1>5. CASE Flush
  <2>1. UNCHANGED <<announce, reaper, started>>
    BY <1>5 DEF Flush, TakePeers, TakeTorrents, PeersWritten, TorrentsWritten, PeersFail,
                TorrentsFail, Fail, vars
  <2>2. ~started => torrentQueue' = NoCounts /\ torrentBatch' = NoCounts
    BY <1>5 DEF Flush, TakePeers, TakeTorrents, PeersWritten, TorrentsWritten, PeersFail,
                TorrentsFail, NoDeltasBeforeStart
  <2>3. TakingHoldsNone'
    BY <1>5 DEF Flush, TakePeers, TakeTorrents, PeersWritten, TorrentsWritten, PeersFail,
                TorrentsFail, Fail, TakingHoldsNone, Flushing
  <2> QED BY <2>1, <2>2, <2>3 DEF NoDeltasBeforeStart
<1>6. CASE TimePasses
  <2>1. ~started => announce' = [h \in Handler |-> Idle]
    BY <1>6 DEF TimePasses, Tick, NoDeltasBeforeStart
  <2> QED BY <1>6, <2>1 DEF TimePasses, Tick, NoDeltasBeforeStart, TakingHoldsNone
<1>7. CASE Crash
  BY <1>7 DEF Crash, NoDeltasBeforeStart, TakingHoldsNone
<1>8. CASE Start
  BY <1>8 DEF Start, queued, NoDeltasBeforeStart, TakingHoldsNone
<1>9. CASE UNCHANGED trackerVars
  BY <1>9 DEF trackerVars, vars, queued, NoDeltasBeforeStart, TakingHoldsNone
<1> QED BY <1>3, <1>4, <1>5, <1>6, <1>7, <1>8, <1>9 DEF TrackerNext

\* What is added to a torrent's counts, on each side (queue/torrent_update.rs).
LEMMA Sides ==
    ASSUME NEW x, NEW y
    PROVE  /\ Plus(x, y).seeders = x.seeders + y.seeders
           /\ Plus(x, y).leechers = x.leechers + y.leechers
           /\ Minus(x, y).seeders = x.seeders - y.seeders
           /\ Minus(x, y).leechers = x.leechers - y.leechers
BY DEF Plus, Minus

\* What is due to the table is in one of three places.
LEMMA DueSides ==
    ASSUME NEW t
    PROVE  /\ Due(t).seeders
                 = counts[t].seeders + (torrentQueue[t].seeders + torrentBatch[t].seeders)
           /\ Due(t).leechers
                 = counts[t].leechers + (torrentQueue[t].leechers + torrentBatch[t].leechers)
BY DEF Due, Plus

\* The numbers that are due (queue/torrent_update.rs).
DueTyped ==
    \A t \in Torrent :
        /\ counts[t].seeders \in Int /\ counts[t].leechers \in Int
        /\ torrentQueue[t].seeders \in Int /\ torrentQueue[t].leechers \in Int
        /\ torrentBatch[t].seeders \in Int /\ torrentBatch[t].leechers \in Int
        /\ persisted[t].seeders \in Int /\ persisted[t].leechers \in Int

LEMMA DueTypes == TrackerTypeOK => DueTyped
BY DEF TrackerTypeOK, TypeOK, DueTyped, Counts

\* Neither a flush, failed or not, nor an announce or a reap loses anything that
\* is due to the table; a start has nothing due but what it has counted
\* (queue.rs, upsert_batch; queue/torrent_update.rs; store.rs).
LEMMA NothingLostStep ==
    ASSUME TrackerTypeOK, TrackerTypeOK', NoDeltasBeforeStart, TakingHoldsNone, NothingLost,
           [TrackerNext]_trackerVars
    PROVE  NothingLost'
<1>1. CASE UNCHANGED <<started, counts, torrentQueue, torrentBatch, persisted>>
  BY <1>1 DEF NothingLost, Due
<1>2. DueTyped /\ DueTyped'
  BY DueTypes, PTL
<1>3. \A t \in Torrent : NoCounts[t].seeders = 0 /\ NoCounts[t].leechers = 0
  BY DEF NoCounts
<1>4. ASSUME TellTorrents, UNCHANGED <<started, counts, torrentBatch>>
      PROVE  NothingLost'
  <2> SUFFICES ASSUME started, NEW t \in Torrent
               PROVE  /\ Due(t)'.seeders = persisted'[t].seeders
                      /\ Due(t)'.leechers = persisted'[t].leechers
    BY <1>4 DEF NothingLost
  <2>1. torrentQueue'[t] = Plus(torrentQueue[t], Minus(persisted'[t], persisted[t]))
    BY <1>4 DEF TellTorrents
  <2>2. /\ torrentQueue'[t].seeders
              = torrentQueue[t].seeders + (persisted'[t].seeders - persisted[t].seeders)
        /\ torrentQueue'[t].leechers
              = torrentQueue[t].leechers + (persisted'[t].leechers - persisted[t].leechers)
    BY <2>1 DEF Plus, Minus
  <2>3. Due(t).seeders = persisted[t].seeders /\ Due(t).leechers = persisted[t].leechers
    BY DEF NothingLost
  <2>4. /\ Due(t)'.seeders
              = counts[t].seeders + (torrentQueue'[t].seeders + torrentBatch[t].seeders)
        /\ Due(t)'.leechers
              = counts[t].leechers + (torrentQueue'[t].leechers + torrentBatch[t].leechers)
    BY <1>4 DEF Due, Plus
  <2> QED BY <1>2, <2>2, <2>3, <2>4, DueSides DEF DueTyped
<1>5. ASSUME NEW h \in Handler, Handle(h)
      PROVE  NothingLost'
  <2>1. CASE QueueTorrent(h)
    BY <1>4, <2>1 DEF QueueTorrent, stored
  <2>2. CASE Stop(h) \/ Modify(h) \/ Insert(h)
    <3>1. UNCHANGED persisted
      BY <2>2 DEF Modify, Insert, Stop, Replace
    <3>2. UNCHANGED <<started, counts, torrentBatch, torrentQueue>> \/ QueueTorrent(h)
      BY <1>5 DEF Handle, Arrive, Proceed, KeepPeer, StopPeer, Tell, QueuePeer, queued, stored
    <3> QED BY <1>1, <2>1, <3>1, <3>2
  <2>3. CASE ~QueueTorrent(h) /\ ~(Stop(h) \/ Modify(h) \/ Insert(h))
    <3>1. UNCHANGED persisted
      BY <1>5, <2>3 DEF Handle, Arrive, Proceed, KeepPeer, StopPeer, QueuePeer, Receive, Probed,
                        Reject, Refuse, Count, vars
    <3>2. UNCHANGED <<started, counts, torrentBatch, torrentQueue>>
      BY <1>5, <2>3 DEF Handle, Arrive, Proceed, KeepPeer, StopPeer, Tell, QueuePeer, queued, stored
    <3> QED BY <1>1, <3>1, <3>2
  <2> QED BY <2>1, <2>2, <2>3
<1>6. CASE StartReap \/ ReapAndTell
  BY <1>1, <1>4, <1>6 DEF StartReap, ReapStarts, ReapAndTell, queued, stored
<1>7. CASE TakePeers \/ PeersWritten \/ PeersFail \/ TimePasses \/ UNCHANGED trackerVars
  BY <1>1, <1>7 DEF TakePeers, PeersWritten, PeersFail, Fail, TimePasses, Tick, trackerVars,
                    queued, stored, vars
<1>8. CASE TakeTorrents
  <2> SUFFICES ASSUME started, NEW t \in Torrent
               PROVE  /\ Due(t)'.seeders = persisted[t].seeders
                      /\ Due(t)'.leechers = persisted[t].leechers
    BY <1>8 DEF NothingLost, TakeTorrents, vars
  <2>1. torrentBatch = NoCounts
    BY <1>8 DEF TakeTorrents, TakingHoldsNone
  <2>2. Due(t).seeders = persisted[t].seeders /\ Due(t).leechers = persisted[t].leechers
    BY DEF NothingLost
  <2>3. /\ Due(t)'.seeders = counts[t].seeders + (NoCounts[t].seeders + torrentQueue[t].seeders)
        /\ Due(t)'.leechers = counts[t].leechers + (NoCounts[t].leechers + torrentQueue[t].leechers)
    BY <1>8 DEF TakeTorrents, Due, Plus, stored
  <2> QED BY <1>2, <1>3, <2>1, <2>2, <2>3, DueSides DEF DueTyped
<1>9. CASE TorrentsWritten
  <2> SUFFICES ASSUME started, NEW t \in Torrent
               PROVE  /\ Due(t)'.seeders = persisted[t].seeders
                      /\ Due(t)'.leechers = persisted[t].leechers
    BY <1>9 DEF NothingLost, TorrentsWritten, vars
  <2>1. Due(t).seeders = persisted[t].seeders /\ Due(t).leechers = persisted[t].leechers
    BY DEF NothingLost
  <2>2. /\ counts'[t].seeders = counts[t].seeders + torrentBatch[t].seeders
        /\ counts'[t].leechers = counts[t].leechers + torrentBatch[t].leechers
    BY <1>9 DEF TorrentsWritten, CountsWith, Plus
  <2>3. /\ Due(t)'.seeders = counts'[t].seeders + (torrentQueue[t].seeders + NoCounts[t].seeders)
        /\ Due(t)'.leechers = counts'[t].leechers + (torrentQueue[t].leechers + NoCounts[t].leechers)
    BY <1>9 DEF TorrentsWritten, Due, Plus
  <2> QED BY <1>2, <1>3, <2>1, <2>2, <2>3, DueSides DEF DueTyped
<1>10. CASE TorrentsFail
  <2> SUFFICES ASSUME started, NEW t \in Torrent
               PROVE  /\ Due(t)'.seeders = persisted[t].seeders
                      /\ Due(t)'.leechers = persisted[t].leechers
    BY <1>10 DEF NothingLost, TorrentsFail, Fail, vars
  <2>1. Due(t).seeders = persisted[t].seeders /\ Due(t).leechers = persisted[t].leechers
    BY DEF NothingLost
  <2>2. /\ torrentQueue'[t].seeders = torrentQueue[t].seeders + torrentBatch[t].seeders
        /\ torrentQueue'[t].leechers = torrentQueue[t].leechers + torrentBatch[t].leechers
    BY <1>10 DEF TorrentsFail, Plus
  <2>3. /\ Due(t)'.seeders = counts[t].seeders + (torrentQueue'[t].seeders + NoCounts[t].seeders)
        /\ Due(t)'.leechers = counts[t].leechers + (torrentQueue'[t].leechers + NoCounts[t].leechers)
    BY <1>10 DEF TorrentsFail, Fail, Due, Plus, stored
  <2> QED BY <1>2, <1>3, <2>1, <2>2, <2>3, DueSides DEF DueTyped
<1>11. CASE Crash
  BY <1>11 DEF Crash, NothingLost
<1>12. CASE Start
  <2> SUFFICES ASSUME NEW t \in Torrent
               PROVE  /\ Due(t)'.seeders = persisted'[t].seeders
                      /\ Due(t)'.leechers = persisted'[t].leechers
    BY DEF NothingLost
  <2>1. torrentQueue = NoCounts /\ torrentBatch = NoCounts
    BY <1>12 DEF Start, NoDeltasBeforeStart
  <2>2. persisted'[t] = counts'[t]
    BY <1>12 DEF Start
  <2>3. /\ Due(t)'.seeders = counts'[t].seeders + (NoCounts[t].seeders + NoCounts[t].seeders)
        /\ Due(t)'.leechers = counts'[t].leechers + (NoCounts[t].leechers + NoCounts[t].leechers)
    BY <1>12, <2>1 DEF Start, Due, Plus, queued
  <2> QED BY <1>2, <1>3, <2>2, <2>3 DEF DueTyped
<1> QED BY <1>5, <1>6, <1>7, <1>8, <1>9, <1>10, <1>11, <1>12 DEF TrackerNext, Flush

\* A crash leaves memory empty (main.rs).
LEMMA CrashedIsEmpty ==
    ASSUME TrackerTypeOK, Undisturbed, Crash
    PROVE  QueueFollowsMemory' /\ UsersInvariant'
<1>1. TypeOK'
  BY CrashEmpties DEF TrackerTypeOK
<1>2. Empty'
  BY DEF Crash, Empty, Undisturbed, NoCounts
<1>3. QueueFollowsMemory' /\ UsersInvariant'
  BY <1>1, <1>2, QueueInit, UsersInit, PTL
<1> QED BY <1>3

\* With no request in flight nothing is on its way to the torrents queue, or owed
\* to a user.
Quiet ==
    announce = [h \in Handler |-> Idle]
        => \A d \in DeltaName :
             /\ \A t \in Torrent : SumFunction(InFlight(t, d)) = 0
             /\ \A u \in User : SumFunction(Owed(u, d)) = 0

LEMMA QuietAtRest == TypeOK => Quiet
BY IdleOwesNothing DEF Quiet

\* A start hands nothing to the queue, and has no request in flight (store.rs).
LEMMA StartQueuesNothing ==
    ASSUME TrackerTypeOK, TypeOK', NoDeltasBeforeStart, Start
    PROVE  QueueFollowsMemory'
<1>1. announce' = [h \in Handler |-> Idle]
  BY DEF Start, NoDeltasBeforeStart
<1>2. Quiet'
  BY QuietAtRest, PTL
<1> SUFFICES ASSUME NEW t \in Torrent
             PROVE  /\ persisted'[t].seeders + SumFunction(InFlight(t, "seeder_delta")')
                          = torrents'[t].seeders
                    /\ persisted'[t].leechers + SumFunction(InFlight(t, "leecher_delta")')
                          = torrents'[t].leechers
  BY DEF QueueFollowsMemory, Present
<1>4. /\ SumFunction(InFlight(t, "seeder_delta")') = 0
      /\ SumFunction(InFlight(t, "leecher_delta")') = 0
  BY <1>1, <1>2 DEF Quiet, DeltaName
<1>5. persisted'[t].seeders \in Int /\ persisted'[t].leechers \in Int
  BY DEF TypeOK
<1>6. persisted'[t].seeders = torrents'[t].seeders /\ persisted'[t].leechers = torrents'[t].leechers
  BY DEF Start
<1> QED BY <1>4, <1>5, <1>6

\* The rows of u that the load counts (store/user.rs, from_db).
LoadedRows(u, is_seeder) ==
    {k \in Key : /\ k[2][1] = u /\ rows[k[1]][k[2]] # NoPeer
                 /\ rows[k[1]][k[2]].is_active /\ rows[k[1]][k[2]].is_visible
                 /\ rows[k[1]][k[2]].is_seeder = is_seeder}

\* The load counts each peer of u that it puts on a list (store/user.rs, from_db;
\* store/torrent.rs, from_db).
LEMMA LoadCounts ==
    ASSUME TrackerTypeOK, TypeOK', Undisturbed, Undisturbed', Start,
           NEW u \in User, NEW d \in DeltaName
    PROVE  CountOf(u, d)' >= Cardinality(OnList(u, d)')
<1> DEFINE seeds == d = "seeder_delta"
           L == LoadedRows(u, seeds)
           T == OnList(u, d)'
           row == [p \in T |-> <<p[1][2], p[2]>>]
<1>1. CountOf(u, d)' = Cardinality(L)
  <2>1. users'[u] = LoadedUser(u)
    BY DEF Start
  <2>2. LoadedOf(u, TRUE) = Cardinality(LoadedRows(u, TRUE))
    BY DEF LoadedOf, LoadedRows
  <2>3. LoadedOf(u, FALSE) = Cardinality(LoadedRows(u, FALSE))
    BY DEF LoadedOf, LoadedRows
  <2>4. /\ users'[u].num_seeding = LoadedOf(u, TRUE)
        /\ users'[u].num_leeching = LoadedOf(u, FALSE)
    BY <2>1 DEF LoadedUser
  <2>5. CASE d = "seeder_delta"
    <3>1. L = LoadedRows(u, TRUE)
      BY <2>5 DEF LoadedRows
    <3>2. CountOf(u, d)' = users'[u].num_seeding
      BY <2>5 DEF CountOf
    <3> QED BY <2>2, <2>4, <3>1, <3>2
  <2>6. CASE d = "leecher_delta"
    <3>1. L = LoadedRows(u, FALSE)
      BY <2>6 DEF LoadedRows
    <3>2. CountOf(u, d)' = users'[u].num_leeching
      BY <2>6 DEF CountOf
    <3> QED BY <2>3, <2>4, <3>1, <3>2
  <2> QED BY <2>5, <2>6 DEF DeltaName
<1>2. T = {p \in Place \X Index : p[2][1] = u /\ InList(PeersAt(p[1])'[p[2]], require', d)}
  BY DEF OnList
<1>3. ASSUME NEW x \in Place, NEW i \in Index, i[1] = u, InList(PeersAt(x)'[i], require', d)
      PROVE  x[1] = "store" /\ x = <<"store", x[2]>> /\ <<x[2], i>> \in L
  <2>1. CASE x \in {"call"} \X ApiCall
    <3>1. x[1] # "store" /\ api'[x[2]] = Free
      BY <2>1 DEF Start, Undisturbed
    <3>2. PeersAt(x)' = NoPeers
      BY <3>1 DEF PeersAt
    <3> QED BY <1>3, <3>2 DEF NoPeers, InList, InSeedList, InLeechList, Included
  <2>2. CASE x \in {"store"} \X Torrent
    <3>1. PICK t \in Torrent : x = <<"store", t>>
      BY <2>2
    <3>2. PeersAt(x)' = rows[t]
      BY <3>1 DEF PeersAt, Start, Undisturbed
    <3>3. <<t, i>> \in Key
      BY DEF Key
    <3>4. InList(rows[t][i], require', d)
      BY <1>3, <3>2
    <3>5. rows[t] \in PeerStore
      BY DEF TrackerTypeOK
    <3>6. rows[t][i] # NoPeer => rows[t][i].is_seeder \in BOOLEAN
      BY <3>5 DEF PeerStore, Peer
    <3>7. /\ rows[t][i] # NoPeer /\ rows[t][i].is_active /\ rows[t][i].is_visible
          /\ rows[t][i].is_seeder = seeds
      BY <3>4, <3>6 DEF InList, InSeedList, InLeechList, Included
    <3> HIDE DEF seeds
    <3>8. <<t, i>> \in L
      BY <1>3, <3>3, <3>7 DEF LoadedRows
    <3> QED BY <3>1, <3>8
  <2> QED BY <2>1, <2>2 DEF Place
<1>4. ASSUME NEW p \in T
      PROVE  p = <<<<"store", p[1][2]>>, p[2]>> /\ row[p] \in L
  <2>1. PICK x \in Place, i \in Index : p = <<x, i>>
    BY <1>2
  <2>2. p[1] = x /\ p[2] = i /\ i[1] = u /\ InList(PeersAt(x)'[i], require', d)
    BY <1>2, <2>1
  <2>3. x = <<"store", x[2]>> /\ <<x[2], i>> \in L
    BY <1>3, <2>2
  <2> HIDE DEF T, L
  <2> QED BY <2>1, <2>2, <2>3
<1>5. row \in [T -> L]
  BY <1>4
<1>6. ASSUME NEW p \in T, NEW q \in T, row[p] = row[q] PROVE p = q
  <2>1. p[1][2] = q[1][2] /\ p[2] = q[2]
    BY <1>6
  <2> HIDE DEF T, row
  <2> QED BY <1>4, <2>1
<1>7. row \in Injection(T, L)
  BY <1>5, <1>6 DEF Injection, IsInjective
<1>8. IsFiniteSet(L) /\ Cardinality(L) \in Nat /\ Cardinality(T) \in Nat
  <2>1. IsFiniteSet(Key)
    BY IndexFinite, SetAssumption, FS_Product DEF Key
  <2>2. L \in SUBSET Key
    BY DEF LoadedRows
  <2>3. T \in SUBSET (Place \X Index)
    BY <1>2
  <2> HIDE DEF L, T
  <2> QED BY <2>1, <2>2, <2>3, FS_Subset, FS_CardinalityType, OnListFinite
<1> HIDE DEF row, L, T
<1>9. Cardinality(T) <= Cardinality(L)
  BY <1>7, <1>8, FS_Injection
<1> QED BY <1>1, <1>8, <1>9 DEF T

\* Initially, all of it is empty.
LEMMA TablesInit == TrackerInit => TablesInv
<1> SUFFICES ASSUME TrackerInit PROVE TablesInv
  OBVIOUS
<1>1. TypeOK /\ Empty /\ ConfigFresh
  BY TypeInit DEF TrackerInit, Init, Empty, ConfigFresh, Idle
<1>2. QueueFollowsMemory /\ UsersInvariant
  BY <1>1, QueueInit, UsersInit
<1>3. Undisturbed
  <2>1. [is_deleted |-> FALSE, seeders |-> 0, leechers |-> 0, peers |-> NoPeers] \in Entry
    BY DEF Entry, PeerStore, NoPeers
  <2> QED BY <2>1, AbsentAssumption DEF TrackerInit, Init, Undisturbed
<1>4. NoDeltasBeforeStart /\ TakingHoldsNone
  BY DEF TrackerInit, NoDeltasBeforeStart, TakingHoldsNone
<1>5. NothingLost
  BY DEF TrackerInit, Init, NothingLost, Due, Plus, NoCounts
<1> QED BY <1>2, <1>3, <1>4, <1>5 DEF TablesInv

\* Every step keeps it.
LEMMA TablesStep ==
    TrackerInvariant /\ TablesInv /\ [TrackerNext]_trackerVars => TablesInv'
<1> SUFFICES ASSUME TrackerInvariant, TablesInv, [TrackerNext]_trackerVars
             PROVE  TablesInv'
  OBVIOUS
<1>1. /\ CountersInvariant /\ TrackerTypeOK /\ TypeOK
      /\ Undisturbed /\ NoDeltasBeforeStart /\ TakingHoldsNone /\ NothingLost
      /\ QueueFollowsMemory /\ UsersInvariant
  BY DEF TrackerInvariant, TablesInv, CountersInvariant
<1>2. TrackerTypeOK' /\ TypeOK'
  BY TrackerInvariantStep DEF TrackerInvariant, CountersInvariant
<1>3. Undisturbed' /\ NoDeltasBeforeStart' /\ TakingHoldsNone' /\ NothingLost'
  BY <1>1, <1>2, UndisturbedStep, FlushOrder, NothingLostStep
<1>4. QueueFollowsMemory' /\ UsersInvariant'
  <2>1. CASE ~Crash /\ ~Start
    BY <1>1, <2>1, StepsOfSwarm, QueueStep, UsersStep
  <2>2. CASE Crash
    BY <1>1, <2>2, CrashedIsEmpty
  <2>3. CASE Start
    <3>1. QueueFollowsMemory'
      BY <1>1, <1>2, <2>3, StartQueuesNothing
    <3>2. announce' = [h \in Handler |-> Idle]
      BY <1>1, <2>3 DEF Start, NoDeltasBeforeStart
    <3>3. ConfigFresh'
      BY <1>1, <2>3, <3>2 DEF Start, NoDeltasBeforeStart, ConfigFresh, Idle
    <3>4. ASSUME NEW u \in User, NEW d \in DeltaName
          PROVE  CountOf(u, d)' + SumFunction(Owed(u, d)') >= Cardinality(OnList(u, d)')
      <4>1. CountOf(u, d)' >= Cardinality(OnList(u, d)')
        BY <1>1, <1>2, <1>3, <2>3, LoadCounts
      <4>2. SumFunction(Owed(u, d)') = 0
        <5>1. Quiet'
          BY <1>2, QuietAtRest, PTL
        <5> QED BY <3>2, <5>1 DEF Quiet
      <4>3. CountOf(u, d)' \in Nat /\ Cardinality(OnList(u, d)') \in Nat
        <5>1. UsersTyped'
          BY <1>2, UsersTypes, PTL
        <5> QED BY <5>1 DEF UsersTyped
      <4> HIDE DEF CountOf, OnList, Owed
      <4> QED BY <4>1, <4>2, <4>3
    <3>5. UsersCovered'
      BY <3>4 DEF UsersCovered
    <3> QED BY <1>2, <3>1, <3>3, <3>5 DEF UsersInvariant
  <2> QED BY <2>1, <2>2, <2>3
<1> QED BY <1>3, <1>4 DEF TablesInv

\* The table's counters, with what is queued for them, unanswered or still with
\* a request, are those in memory, whatever statement fails and wherever a crash
\* cuts a flush (queue.rs, upsert_batch; queue/torrent_update.rs; store.rs).
THEOREM TableKeepsUp == TrackerSpec => []TableFollowsCounters
<1>1. TrackerInvariant /\ TablesInv => TableFollowsCounters
  <2> SUFFICES ASSUME TrackerInvariant, TablesInv, started, NEW t \in Torrent
               PROVE  /\ Due(t).seeders + SumFunction(InFlight(t, "seeder_delta"))
                            = torrents[t].seeders
                      /\ Due(t).leechers + SumFunction(InFlight(t, "leecher_delta"))
                            = torrents[t].leechers
    BY DEF TableFollowsCounters, Due
  <2>1. t \in Present \ moved
    BY DEF TablesInv, Undisturbed, Present
  <2>2. Due(t).seeders = persisted[t].seeders /\ Due(t).leechers = persisted[t].leechers
    BY DEF TablesInv, NothingLost
  <2> QED BY <2>1, <2>2 DEF TablesInv, QueueFollowsMemory
<1> QED BY <1>1, TrackerInvariantInit, TrackerInvariantStep, TablesInit, TablesStep, PTL
        DEF TrackerSpec

\* A user's counts are never below the number of the user's peers on the lists
\* also after a crash: a start counts at least the peers it loads onto a list
\* (store/user.rs, from_db; store/torrent.rs, from_db).
THEOREM UsersKeepUpAcrossCrashes == TrackerSpec => []UsersNeverUndercounted
<1>1. TablesInv => UsersNeverUndercounted
  BY UsersInvariantShows DEF TablesInv
<1> QED BY <1>1, TrackerInvariantInit, TrackerInvariantStep, TablesInit, TablesStep, PTL
        DEF TrackerSpec
=============================================================================
