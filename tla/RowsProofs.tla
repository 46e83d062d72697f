----------------------------- MODULE RowsProofs -----------------------------
(***************************************************************************)
(* For every set of torrents, users, peers and requests, and any number of *)
(* failed statements and crashes: once nothing of it is on its way, the    *)
(* row of a peer is what a start needs to find, if the client never had    *)
(* two announces in flight at once.  The reason is an order: of the rows   *)
(* of such a peer that a request, the queue, a statement and the table     *)
(* hold, the newest is always the one that is written last.                *)
(***************************************************************************)
EXTENDS TrackerProofs

(***************************************************************************)
(* The invariant.                                                          *)
(***************************************************************************)
\* A request that may still queue a row of its peer.
Pending(h) == announce[h].pc \in {"probing", "locking"} \/ told[h] # NoRecord

\* Requests in flight are about different peers, or have been seen to overlap.
RequestsApart ==
    \A g, h \in Handler :
        /\ g # h /\ announce[g] # Idle /\ announce[h] # Idle
        /\ KeyOf(h) \notin overlapped
        => KeyOf(g) # KeyOf(h)

\* A request hands over a row after it has left the torrents lock, once.
ToldLate ==
    \A h \in Handler : told[h] # NoRecord =>
        announce[h].pc \in {"counting", "queueing"} /\ told[h].updated = stamp[h]

\* Of a peer whose announces never overlapped, what is in a statement is older
\* than what is queued, and both are older than what a request will queue.
StampsInOrder ==
    /\ \A k \in Key :
        /\ peerQueue[k] # NoRecord => peerQueue[k].updated <= announces
        /\ peerBatch[k] # NoRecord => peerBatch[k].updated <= announces
        /\ k \notin overlapped /\ peerQueue[k] # NoRecord /\ peerBatch[k] # NoRecord =>
              peerBatch[k].updated < peerQueue[k].updated
    /\ \A h \in Handler : Pending(h) =>
        /\ stamp[h] <= announces
        /\ KeyOf(h) \notin overlapped =>
              /\ peerQueue[KeyOf(h)] # NoRecord => peerQueue[KeyOf(h)].updated < stamp[h]
              /\ peerBatch[KeyOf(h)] # NoRecord => peerBatch[KeyOf(h)].updated < stamp[h]

\* Before the start nobody is there, and nothing is queued.
NothingBeforeStart ==
    ~started => /\ announce = [h \in Handler |-> Idle]
                /\ told = [h \in Handler |-> NoRecord]
                /\ peerQueue = NoRecords
                /\ peerBatch = NoRecords

\* The website leaves the torrents alone.
AllPresent == \A t \in Torrent : torrents[t] # Absent

\* A row that will do for the peer.
Matches(row, peer) ==
    IF peer # NoPeer /\ peer.is_active THEN row = peer
    ELSE row = NoPeer \/ ~row.is_active \/ Expired(row)

Telling(k) == {h \in Handler : told[h] # NoRecord /\ KeyOf(h) = k}

\* The newest row of a peer, wherever it is on its way, will do for the peer.
NewestMatches(t, i) ==
    LET k == <<t, i>>
        peer == torrents[t].peers[i]
    IN  /\ \A h \in Telling(k) : Matches(told[h].peer, peer)
        /\ Telling(k) = {} =>
              IF peerQueue[k] # NoRecord THEN Matches(peerQueue[k].peer, peer)
              ELSE IF peerBatch[k] # NoRecord THEN Matches(peerBatch[k].peer, peer)
              ELSE Matches(rows[t][i], peer)

NewestReflects ==
    started => \A t \in Torrent, i \in Index : <<t, i>> \notin overlapped => NewestMatches(t, i)

RowsInv ==
    /\ RequestsApart /\ ToldLate /\ StampsInOrder /\ NothingBeforeStart /\ AllPresent
    /\ NewestReflects

RowsInvariant == TrackerTypeOK /\ RowsInv

(***************************************************************************)
(* What holds between any two steps.                                       *)
(***************************************************************************)
\* A request in flight has a key (announce.rs).
LEMMA KeyType ==
    ASSUME TypeOK, NEW h \in Handler, announce[h] # Idle
    PROVE  /\ announce[h].torrent \in Torrent /\ announce[h].index \in Index
           /\ KeyOf(h) \in Key
           /\ announce[h].pc \in {"probing", "locking", "counting", "queueing"}
<1>1. announce[h] \in Probing \cup Locking \cup Late
  BY DEF TypeOK, Request
<1> QED BY <1>1 DEF Probing, Locking, Late, KeyOf, Key

\* A request that tells is in flight.
LEMMA ToldInFlight ==
    ASSUME TypeOK, ToldLate, NEW h \in Handler, told[h] # NoRecord
    PROVE  announce[h] # Idle
<1>1. Idle.pc = "idle"
  BY DEF Idle
<1> QED BY <1>1 DEF ToldLate

\* A request that may still queue a row is in flight.
LEMMA PendingInFlight ==
    ASSUME TypeOK, ToldLate, NEW h \in Handler, Pending(h)
    PROVE  announce[h] # Idle
<1>1. Idle.pc = "idle"
  BY DEF Idle
<1> QED BY <1>1, ToldInFlight DEF Pending

\* A row that will do for a peer will do after the next reap (scheduler.rs).
LEMMA MatchesReaped ==
    ASSUME NEW row, NEW peer \in Peer \cup {NoPeer}, Matches(row, peer)
    PROVE  Matches(row, Reaped(peer))
<1>1. CASE peer = NoPeer \/ Forgotten(peer)
  BY <1>1 DEF Matches, Reaped, Forgotten, Expired
<1>2. CASE peer # NoPeer /\ ~Forgotten(peer) /\ Expired(peer)
  BY <1>2, SentinelAssumption DEF Matches, Reaped, Expired, Peer
<1>3. CASE peer # NoPeer /\ ~Forgotten(peer) /\ ~Expired(peer)
  BY <1>3 DEF Matches, Reaped
<1> QED BY <1>1, <1>2, <1>3

\* Time makes a peer and its row older alike.
LEMMA MatchesOlder ==
    ASSUME NEW row \in Peer, NEW peer \in Peer \cup {NoPeer}, Matches(row, peer)
    PROVE  Matches([row EXCEPT !.age = Older(@)],
                   IF peer = NoPeer THEN NoPeer ELSE [peer EXCEPT !.age = Older(@)])
<1> DEFINE row2 == [row EXCEPT !.age = Older(@)]
           peer2 == IF peer = NoPeer THEN NoPeer ELSE [peer EXCEPT !.age = Older(@)]
<1>1. row2 \in [is_seeder : BOOLEAN, is_active : BOOLEAN, is_visible : BOOLEAN,
                is_connectable : BOOLEAN, age : Int]
      /\ row2.is_active = row.is_active /\ row2.age >= row.age
  BY NumberAssumption DEF Peer, Age, Older, Oldest
<1>2. row2 # NoPeer
  <2>1. row2 \in Peer
    BY NumberAssumption DEF Peer, Age, Older, Oldest
  <2> QED BY <2>1, SentinelAssumption
<1>3. CASE peer # NoPeer /\ peer.is_active
  <2>1. row = peer
    BY <1>3 DEF Matches
  <2> QED BY <1>3, <2>1 DEF Matches, Peer
<1>4. CASE ~(peer # NoPeer /\ peer.is_active)
  <2>1. row = NoPeer \/ ~row.is_active \/ Expired(row)
    BY <1>4 DEF Matches
  <2>2. ~row2.is_active \/ Expired(row2)
    BY <1>1, <1>2, <2>1, SentinelAssumption, NumberAssumption DEF Expired, Peer, Age, Oldest
  <2>3. peer2 = NoPeer \/ ~peer2.is_active
    BY <1>4 DEF Peer
  <2> QED BY <2>2, <2>3 DEF Matches
<1> QED BY <1>3, <1>4

(***************************************************************************)
(* Steps that move no rows.                                                *)
(***************************************************************************)
\* What a request may do in such a step: nothing, end, or go on.
GoesOn(h) ==
    \/ announce'[h] = announce[h]
    \/ announce'[h] = Idle /\ told[h] = NoRecord
    \/ /\ announce[h] # Idle /\ announce'[h] # Idle /\ KeyOf(h)' = KeyOf(h)
       /\ announce'[h].pc \in {"probing", "locking"} => announce[h].pc \in {"probing", "locking"}
       /\ announce[h].pc \in {"counting", "queueing"} =>
             announce'[h].pc \in {"counting", "queueing"}

\* Requests that end or go on, and peers that their rows still match, keep the
\* invariant.
LEMMA QuietStep ==
    ASSUME RowsInvariant, TrackerTypeOK',
           UNCHANGED <<started, stamp, told, peerQueue, peerBatch, rows, announces, overlapped>>,
           \A h \in Handler : GoesOn(h),
           \A t \in Torrent : torrents'[t] # Absent,
           \A t \in Torrent, i \in Index : \A row :
              Matches(row, torrents[t].peers[i]) => Matches(row, torrents'[t].peers[i])
    PROVE  RowsInv'
<1> USE DEF RowsInvariant
<1>1. TypeOK /\ TypeOK' /\ ToldLate /\ Idle.pc = "idle"
  BY DEF TrackerTypeOK, RowsInv, Idle
<1>2. \A h \in Handler : announce'[h] # Idle => announce[h] # Idle /\ KeyOf(h)' = KeyOf(h)
  BY DEF GoesOn, KeyOf
<1>3. RequestsApart'
  BY <1>2 DEF RowsInv, RequestsApart
<1>4. ToldLate'
  BY <1>1 DEF ToldLate, GoesOn
<1>5. \A h \in Handler : told[h] # NoRecord => announce'[h] # Idle
  BY <1>1, <1>4 DEF ToldLate
<1>6. \A h \in Handler : Pending(h)' => Pending(h) /\ announce'[h] # Idle
  BY <1>1, <1>5 DEF Pending, GoesOn
<1>7. StampsInOrder'
  BY <1>2, <1>6 DEF RowsInv, StampsInOrder
<1>8. NothingBeforeStart'
  <2>1. ASSUME ~started PROVE announce' = [h \in Handler |-> Idle]
    BY <1>1, <2>1 DEF RowsInv, NothingBeforeStart, GoesOn, TypeOK
  <2> QED BY <2>1 DEF RowsInv, NothingBeforeStart
<1>9. NewestReflects'
  <2> SUFFICES ASSUME started, NEW t \in Torrent, NEW i \in Index, <<t, i>> \notin overlapped
               PROVE  NewestMatches(t, i)'
    BY DEF NewestReflects
  <2> DEFINE k == <<t, i>>
  <2>1. NewestMatches(t, i)
    BY DEF RowsInv, NewestReflects
  <2>2. Telling(k)' = Telling(k)
    BY <1>2, <1>5 DEF Telling
  <2> QED BY <2>1, <2>2 DEF NewestMatches
<1> QED BY <1>3, <1>4, <1>7, <1>8, <1>9 DEF RowsInv, AllPresent

\* The steps of a request that move no row.
LEMMA ProceedStep ==
    ASSUME RowsInvariant, TrackerTypeOK', NEW h \in Handler, Proceed(h) \/ QueueTorrent(h)
    PROVE  RowsInv'
<1>1. TypeOK /\ AllPresent /\ ToldLate /\ Idle.pc = "idle"
  BY DEF RowsInvariant, TrackerTypeOK, RowsInv, Idle
<1>2. UNCHANGED <<started, stamp, told, peerQueue, peerBatch, rows, announces, torrents, overlapped>>
  BY DEF Proceed, QueueTorrent, Probed, Reject, Refuse, Count, Queue, queued, stored, history
<1>3. \A g \in Handler \ {h} : announce'[g] = announce[g]
  BY <1>1 DEF Proceed, QueueTorrent, Probed, Reject, Refuse, Count, Queue, TypeOK
<1>4. GoesOn(h)
  <2>1. CASE Probed(h)
    BY <1>1, <2>1 DEF Probed, GoesOn, KeyOf, TypeOK
  <2>2. CASE Reject(h)
    BY <1>1, <2>2 DEF Reject, Refuse, GoesOn, ToldLate, TypeOK
  <2>3. CASE Count(h)
    <3>1. announce[h] \in Late
      BY <1>1, <2>3, RequestPhases DEF Count
    <3>2. announce' = [announce EXCEPT ![h].pc = "queueing"]
      BY <2>3 DEF Count
    <3> QED BY <1>1, <2>3, <3>1, <3>2 DEF Count, GoesOn, KeyOf, Late, TypeOK
  <2>4. CASE QueueTorrent(h)
    BY <1>1, <2>4 DEF QueueTorrent, Queue, GoesOn, TypeOK
  <2> QED BY <2>1, <2>2, <2>3, <2>4 DEF Proceed
<1>5. \A g \in Handler : GoesOn(g)
  BY <1>3, <1>4 DEF GoesOn
<1> QED BY <1>1, <1>2, <1>5, QuietStep DEF AllPresent

\* A reap changes peers, but no row; what it makes inactive has a row that the
\* next reap will find expired (scheduler.rs).
LEMMA ReapStep ==
    ASSUME RowsInvariant, TrackerTypeOK', ReapAndTell
    PROVE  RowsInv'
<1>1. TypeOK /\ AllPresent
  BY DEF RowsInvariant, TrackerTypeOK, RowsInv
<1>2. UNCHANGED <<started, stamp, told, peerQueue, peerBatch, rows, announces, announce, overlapped>>
  BY DEF ReapAndTell, Reap, stored, history
<1>3. ASSUME NEW t \in Torrent
      PROVE  /\ torrents[t].peers \in PeerStore
             /\ torrents'[t].peers = ReapedPeers(torrents[t].peers)
             /\ torrents'[t] # Absent
  <2>1. torrents[t] \in Entry
    BY <1>1 DEF TypeOK, AllPresent
  <2>2. torrents'[t] = [torrents[t] EXCEPT
           !.peers = ReapedPeers(torrents[t].peers),
           !.seeders = Saturating(@, -Cardinality(ExpiredSeeders(torrents[t].peers))),
           !.leechers = Saturating(@, -Cardinality(ExpiredLeechers(torrents[t].peers)))]
    BY <1>1 DEF ReapAndTell, Reap, AllPresent
  <2>3. torrents'[t].peers = ReapedPeers(torrents[t].peers)
    BY <2>1, <2>2 DEF Entry
  <2>4. torrents'[t] # Absent
    <3>1. /\ Saturating(torrents[t].seeders,
                        -Cardinality(ExpiredSeeders(torrents[t].peers))) \in Nat
          /\ Saturating(torrents[t].leechers,
                        -Cardinality(ExpiredLeechers(torrents[t].peers))) \in Nat
      <4>1. ASSUME NEW n \in Nat, NEW m \in Nat PROVE Saturating(n, -m) \in Nat
        BY SaturatingType
      <4>2. t \in Present
        BY <1>1 DEF AllPresent, Present
      <4> QED BY <1>1, <2>1, <4>1, <4>2, ReapedCounts DEF Entry
    <3>2. ReapedPeers(torrents[t].peers) \in PeerStore
      BY <2>1, PeersType DEF Entry
    <3>3. torrents'[t] \in Entry
      BY <2>1, <2>2, <3>1, <3>2 DEF Entry
    <3> QED BY <3>3, AbsentAssumption
  <2> QED BY <2>1, <2>3, <2>4 DEF Entry
<1>4. ASSUME NEW t \in Torrent, NEW i \in Index, NEW row, Matches(row, torrents[t].peers[i])
      PROVE  Matches(row, torrents'[t].peers[i])
  <2>1. torrents[t].peers[i] \in Peer \cup {NoPeer}
    BY <1>3 DEF PeerStore
  <2>2. torrents'[t].peers[i] = Reaped(torrents[t].peers[i])
    BY <1>3 DEF ReapedPeers
  <2> QED BY <1>4, <2>1, <2>2, MatchesReaped
<1> QED BY <1>2, <1>3, <1>4, QuietStep DEF GoesOn

(***************************************************************************)
(* A request comes in, and its row moves on.                               *)
(***************************************************************************)
\* A new request has the newest stamp, and a peer that no other is about unless
\* it is seen to overlap (announce.rs, now; queue/peer_update.rs, updated_at).
LEMMA ArriveStep ==
    ASSUME RowsInvariant, TrackerTypeOK', NEW h \in Handler, Arrive(h)
    PROVE  RowsInv'
<1> USE DEF RowsInvariant
<1>1. /\ TypeOK /\ ToldLate /\ Idle.pc = "idle" /\ announces \in Nat
      /\ stamp \in [Handler -> 0..MaxAnnounces] /\ told \in [Handler -> Record \cup {NoRecord}]
      /\ peerQueue \in [Key -> Record \cup {NoRecord}]
      /\ peerBatch \in [Key -> Record \cup {NoRecord}]
  BY NumberAssumption DEF TrackerTypeOK, TypeOK, RowsInv, Idle
<1>2. /\ announce[h] = Idle /\ started /\ announces' = announces + 1
      /\ stamp' = [stamp EXCEPT ![h] = announces + 1]
      /\ UNCHANGED <<started, told, peerQueue, peerBatch, rows, torrents>>
      /\ \A g \in Handler \ {h} : announce'[g] = announce[g]
      /\ announce'[h].pc = "probing" /\ announce'[h] # Idle
  BY <1>1 DEF Arrive, Receive, stored, TypeOK
<1>3. told[h] = NoRecord
  BY <1>1, <1>2 DEF ToldLate
<1>4. overlapped \subseteq overlapped'
  BY DEF Arrive
<1>5. \A g \in Handler \ {h} :
        announce'[g] # Idle /\ KeyOf(h)' \notin overlapped' => KeyOf(g)' # KeyOf(h)'
  BY DEF Arrive, Overlaps
<1>6. \A g \in Handler \ {h} : KeyOf(g)' = KeyOf(g) /\ stamp'[g] = stamp[g]
  BY <1>1, <1>2 DEF KeyOf
<1>7. RequestsApart'
  BY <1>2, <1>4, <1>5, <1>6 DEF RowsInv, RequestsApart
<1>8. ToldLate'
  BY <1>2, <1>3, <1>6 DEF RowsInv, ToldLate
<1>9. StampsInOrder'
  <2>1. \A k \in Key :
          /\ peerQueue[k] # NoRecord => peerQueue[k].updated \in Nat
          /\ peerBatch[k] # NoRecord => peerBatch[k].updated \in Nat
    BY <1>1 DEF Record
  <2>2. ASSUME NEW g \in Handler, Pending(g)', NEW k \in Key, k = KeyOf(g)'
        PROVE  /\ stamp'[g] <= announces'
               /\ k \notin overlapped' =>
                     /\ peerQueue[k] # NoRecord => peerQueue[k].updated < stamp'[g]
                     /\ peerBatch[k] # NoRecord => peerBatch[k].updated < stamp'[g]
    <3>1. CASE g = h
      BY <1>1, <1>2, <2>1, <3>1 DEF RowsInv, StampsInOrder
    <3>2. CASE g # h
      <4>1. Pending(g) /\ KeyOf(g) = k
        BY <1>2, <1>6, <2>2, <3>2 DEF Pending
      <4>2. stamp[g] \in Nat
        BY <1>1, NumberAssumption
      <4> QED BY <1>1, <1>2, <1>4, <1>6, <3>2, <4>1, <4>2 DEF RowsInv, StampsInOrder
    <3> QED BY <3>1, <3>2
  <2>3. \A g \in Handler : Pending(g)' => KeyOf(g)' \in Key
    <3>1. KeyOf(h)' \in Key
      BY <1>1 DEF Arrive, Receive, KeyOf, Key, TypeOK
    <3>2. ASSUME NEW g \in Handler \ {h}, Pending(g)' PROVE KeyOf(g)' \in Key
      <4>1. Pending(g)
        BY <1>2, <3>2 DEF Pending
      <4> QED BY <1>1, <1>6, <3>2, <4>1, PendingInFlight, KeyType
    <3> QED BY <3>1, <3>2
  <2> QED BY <1>1, <1>2, <1>4, <2>1, <2>2, <2>3 DEF RowsInv, StampsInOrder
<1>10. NothingBeforeStart' /\ AllPresent'
  BY <1>2 DEF RowsInv, NothingBeforeStart, AllPresent
<1>11. NewestReflects'
  <2>1. \A k : Telling(k)' = Telling(k)
    BY <1>2, <1>3, <1>6 DEF Telling
  <2> QED BY <1>2, <1>4, <2>1 DEF RowsInv, NewestReflects, NewestMatches
<1> QED BY <1>7, <1>8, <1>9, <1>10, <1>11 DEF RowsInv

\* The lock section changes one peer of one torrent (announce.rs).
LEMMA OnePeerReplaced ==
    ASSUME TypeOK, AllPresent, NEW h \in Handler, Locked(h),
           NEW new \in Peer \cup {NoPeer}, Replace(h, new)
    PROVE  /\ \A t \in Torrent : torrents'[t] # Absent
           /\ \A t \in Torrent, i \in Index :
                 torrents'[t].peers[i] = IF <<t, i>> = KeyOf(h) THEN new ELSE torrents[t].peers[i]
           /\ announce'[h] # Idle /\ announce'[h].pc = "counting" /\ KeyOf(h)' = KeyOf(h)
           /\ \A g \in Handler \ {h} : announce'[g] = announce[g]
<1> DEFINE a == announce[h]
<1>1. a \in Locking /\ a.torrent \in Torrent /\ a.index \in Index
  BY RequestPhases DEF Locked, Locking
<1>2. \A t \in Torrent : torrents[t] \in Entry
  BY DEF TypeOK, AllPresent
<1>3. ASSUME NEW t \in Torrent
      PROVE  torrents'[t] # Absent
  <2>1. CASE t = a.torrent
    <3>1. TypeOK'
      BY ReplaceType
    <3>2. PICK x, y : torrents'[t] = [torrents[t] EXCEPT !.peers = [@ EXCEPT ![a.index] = new],
                                                          !.seeders = Saturating(@, x),
                                                          !.leechers = Saturating(@, y)]
                      /\ x \in Int /\ y \in Int
      BY <1>1, <1>2, <2>1, DeltaType DEF Replace, TypeOK, Entry
    <3>3. /\ Saturating(torrents[t].seeders, x) \in Nat
          /\ Saturating(torrents[t].leechers, y) \in Nat
      BY <1>2, <3>2, SaturatingType DEF Entry
    <3>4. [torrents[t].peers EXCEPT ![a.index] = new] \in PeerStore
      BY <1>1, <1>2 DEF Entry, PeerStore
    <3>5. torrents'[t] \in Entry
      BY <1>2, <3>2, <3>3, <3>4 DEF Entry
    <3> QED BY <3>5, AbsentAssumption
  <2>2. CASE t # a.torrent
    BY <2>2 DEF Replace, TypeOK, AllPresent
  <2> QED BY <2>1, <2>2
<1>4. ASSUME NEW t \in Torrent, NEW i \in Index
      PROVE  torrents'[t].peers[i] = IF <<t, i>> = KeyOf(h) THEN new ELSE torrents[t].peers[i]
  BY <1>1, <1>2 DEF Replace, TypeOK, Entry, PeerStore, KeyOf
<1>5. Idle.pc = "idle"
  BY DEF Idle
<1>6. announce'[h].pc = "counting" /\ KeyOf(h)' = KeyOf(h)
  BY DEF Replace, TypeOK, KeyOf
<1>7. \A g \in Handler \ {h} : announce'[g] = announce[g]
  BY DEF Replace, TypeOK
<1> QED BY <1>3, <1>4, <1>5, <1>6, <1>7

\* The lock section makes the newest row of its peer, one that will do for what
\* it leaves there (announce.rs, from the lock to the peers queue).
LEMMA TellStep ==
    ASSUME RowsInvariant, NEW h \in Handler, Locked(h),
           NEW new \in Peer \cup {NoPeer}, Replace(h, new),
           NEW row \in Peer, Tell(h, row), Matches(row, new)
    PROVE  RowsInv'
<1> USE DEF RowsInvariant
<1>1. /\ TypeOK /\ ToldLate /\ AllPresent /\ Idle.pc = "idle"
      /\ stamp \in [Handler -> 0..MaxAnnounces] /\ told \in [Handler -> Record \cup {NoRecord}]
  BY DEF TrackerTypeOK, RowsInv, Idle
<1>2. /\ \A t \in Torrent : torrents'[t] # Absent
      /\ \A t \in Torrent, i \in Index :
            torrents'[t].peers[i] = IF <<t, i>> = KeyOf(h) THEN new ELSE torrents[t].peers[i]
      /\ announce'[h] # Idle /\ announce'[h].pc = "counting" /\ KeyOf(h)' = KeyOf(h)
      /\ \A g \in Handler \ {h} : announce'[g] = announce[g]
  BY <1>1, OnePeerReplaced
<1>3. announce[h] # Idle /\ announce[h].pc = "locking" /\ told[h] = NoRecord
  BY <1>1 DEF Locked, ToldLate
<1>4. /\ UNCHANGED <<started, stamp, peerQueue, peerBatch, rows, announces, overlapped>>
      /\ told'[h] = [peer |-> row, updated |-> stamp[h]]
      /\ \A g \in Handler \ {h} : told'[g] = told[g]
  BY <1>1 DEF Tell, Replace, stored, history
<1>5. told'[h] # NoRecord
  <2>1. stamp[h] \in Nat
    BY <1>1, NumberAssumption
  <2> QED BY <1>4, <2>1, RecordAssumption DEF Record
<1>6. \A g \in Handler : KeyOf(g)' = KeyOf(g) /\ (announce'[g] # Idle <=> announce[g] # Idle)
  BY <1>2, <1>3 DEF KeyOf
<1>7. RequestsApart'
  BY <1>4, <1>6 DEF RowsInv, RequestsApart
<1>8. ToldLate'
  BY <1>2, <1>4 DEF RowsInv, ToldLate
<1>9. StampsInOrder'
  <2>1. \A g \in Handler : Pending(g)' => Pending(g)
    BY <1>2, <1>3, <1>4 DEF Pending
  <2> QED BY <1>4, <1>6, <2>1 DEF RowsInv, StampsInOrder
<1>10. NothingBeforeStart' /\ AllPresent'
  <2>1. started
    BY <1>3 DEF RowsInv, NothingBeforeStart
  <2> QED BY <1>2, <1>4, <2>1 DEF NothingBeforeStart, AllPresent
<1>11. NewestReflects'
  <2> SUFFICES ASSUME started, NEW t \in Torrent, NEW i \in Index, <<t, i>> \notin overlapped
               PROVE  NewestMatches(t, i)'
    BY <1>4 DEF NewestReflects
  <2> DEFINE k == <<t, i>>
  <2>1. NewestMatches(t, i)
    BY DEF RowsInv, NewestReflects
  <2>2. CASE k = KeyOf(h)
    <3>1. Telling(k)' = {h}
      <4>1. \A g \in Handler \ {h} : told'[g] # NoRecord => KeyOf(g)' # k
        BY <1>1, <1>3, <1>4, <1>6, <2>2, ToldInFlight DEF RowsInv, RequestsApart
      <4> QED BY <1>5, <1>6, <2>2, <4>1 DEF Telling
    <3>2. Matches(told'[h].peer, torrents'[t].peers[i])
      BY <1>2, <1>4, <2>2
    <3>3. \A r, p : Matches(r, p)' = Matches(r, p)
      BY DEF Matches, Expired
    <3> QED BY <3>1, <3>2, <3>3 DEF NewestMatches
  <2>3. CASE k # KeyOf(h)
    <3>1. Telling(k)' = Telling(k) /\ h \notin Telling(k)
      BY <1>4, <1>6, <2>3 DEF Telling
    <3>2. \A g \in Telling(k) : told'[g] = told[g]
      BY <1>4, <3>1 DEF Telling
    <3>3. torrents'[t].peers[i] = torrents[t].peers[i]
      BY <1>2, <2>3
    <3> QED BY <1>4, <2>1, <3>1, <3>2, <3>3 DEF NewestMatches
  <2> QED BY <2>2, <2>3
<1> QED BY <1>7, <1>8, <1>9, <1>10, <1>11 DEF RowsInv

\* The row of a peer that is kept is the peer; that of a peer that has stopped
\* is inactive (announce.rs).
LEMMA KeepOrStopStep ==
    ASSUME RowsInvariant, NEW h \in Handler, KeepPeer(h) \/ StopPeer(h)
    PROVE  RowsInv'
<1>1. TypeOK /\ AllPresent
  BY DEF RowsInvariant, TrackerTypeOK, RowsInv
<1>2. Locked(h) /\ announce[h] \in Locking
  BY <1>1, RequestPhases DEF KeepPeer, StopPeer, Modify, Insert, Stop, Locked
<1> DEFINE t == announce[h].torrent
           i == announce[h].index
<1>3. t \in Torrent /\ i \in Index /\ torrents[t] \in Entry
  BY <1>1, <1>2 DEF Locking, TypeOK, AllPresent
<1>4. OldPeer(h) \in Peer \cup {NoPeer}
  BY <1>3 DEF OldPeer, Entry, PeerStore
<1>5. CASE KeepPeer(h)
  <2>1. PICK new \in Peer : Replace(h, new) /\ new.is_active
    <3>1. CASE Insert(h)
      <4>1. Inserted(announce[h]) \in Peer /\ Inserted(announce[h]).is_active
        BY <1>2, AnnouncedPeerType DEF Inserted
      <4> QED BY <3>1, <4>1 DEF Insert
    <3>2. CASE Modify(h)
      <4>1. OldPeer(h) \in Peer
        BY <1>4, <3>2 DEF Modify
      <4>2. Updated(announce[h], OldPeer(h)) \in Peer
        BY <1>2, <4>1, AnnouncedPeerType
      <4>3. Updated(announce[h], OldPeer(h)).is_active
        BY <4>1, <4>2 DEF Updated, Peer
      <4> QED BY <3>2, <4>2, <4>3 DEF Modify
    <3> QED BY <1>5, <3>1, <3>2 DEF KeepPeer
  <2>2. torrents'[t].peers[i] = new
    BY <1>1, <1>2, <1>3, <2>1, OnePeerReplaced DEF KeyOf
  <2>3. Tell(h, new)
    BY <1>5, <2>2 DEF KeepPeer
  <2>4. Matches(new, new)
    BY <2>1 DEF Matches
  <2> QED BY <1>2, <2>1, <2>3, <2>4, TellStep
<1>6. CASE StopPeer(h)
  <2>1. PICK is_seeder \in BOOLEAN :
          Tell(h, [is_seeder |-> is_seeder, is_active |-> FALSE, is_visible |-> FALSE,
                   is_connectable |-> announce[h].connectable, age |-> announce[h].age])
    BY <1>6 DEF StopPeer
  <2> DEFINE row == [is_seeder |-> is_seeder, is_active |-> FALSE, is_visible |-> FALSE,
                     is_connectable |-> announce[h].connectable, age |-> announce[h].age]
  <2>2. row \in Peer /\ ~row.is_active
    BY <1>2 DEF Locking, Peer
  <2>3. Replace(h, NoPeer) /\ Matches(row, NoPeer)
    BY <1>6, <2>2 DEF StopPeer, Stop, Matches
  <2> QED BY <1>2, <2>1, <2>2, <2>3, TellStep
<1> QED BY <1>5, <1>6

\* A row that is queued is newer than what it meets there, and becomes the
\* queued one (queue/peer_update.rs, merge).
LEMMA QueuePeerStep ==
    ASSUME RowsInvariant, NEW h \in Handler, QueuePeer(h)
    PROVE  RowsInv'
<1> USE DEF RowsInvariant
<1> DEFINE key == KeyOf(h)
<1>1. /\ TypeOK /\ ToldLate /\ Idle.pc = "idle"
      /\ stamp \in [Handler -> 0..MaxAnnounces] /\ told \in [Handler -> Record \cup {NoRecord}]
      /\ peerQueue \in [Key -> Record \cup {NoRecord}]
      /\ peerBatch \in [Key -> Record \cup {NoRecord}]
  BY DEF TrackerTypeOK, RowsInv, Idle
<1>2. /\ told[h] # NoRecord /\ announce[h].pc = "queueing"
      /\ peerQueue' = [peerQueue EXCEPT ![key] = Merged(@, told[h])]
      /\ told' = [told EXCEPT ![h] = NoRecord] /\ stamp' = [stamp EXCEPT ![h] = 0]
      /\ UNCHANGED <<vars, started, peerBatch, rows, overlapped>>
  BY DEF QueuePeer, KeyOf, stored, history
<1>3. UNCHANGED <<torrents, announce, announces>> /\ announce[h] # Idle
  BY <1>1, <1>2 DEF vars
<1>4. key \in Key
  BY <1>1, <1>3, KeyType
<1>5. Pending(h) /\ told[h].updated = stamp[h]
  BY <1>1, <1>2 DEF Pending, ToldLate
<1>6. /\ stamp[h] <= announces
      /\ key \notin overlapped =>
            /\ peerQueue[key] # NoRecord => peerQueue[key].updated < stamp[h]
            /\ peerBatch[key] # NoRecord => peerBatch[key].updated < stamp[h]
  BY <1>5 DEF RowsInv, StampsInOrder
<1>7. /\ Merged(peerQueue[key], told[h]) \in {peerQueue[key], told[h]}
      /\ key \notin overlapped => Merged(peerQueue[key], told[h]) = told[h]
  BY <1>5, <1>6 DEF Merged
<1>8. /\ peerQueue'[key] \in {peerQueue[key], told[h]}
      /\ key \notin overlapped => peerQueue'[key] = told[h]
      /\ \A k \in Key \ {key} : peerQueue'[k] = peerQueue[k]
  BY <1>1, <1>2, <1>4, <1>7
<1>9. RequestsApart' /\ ToldLate' /\ AllPresent'
  BY <1>1, <1>2, <1>3 DEF RowsInv, RequestsApart, KeyOf, ToldLate, AllPresent
<1>10. ASSUME NEW g \in Handler, Pending(g)'
       PROVE  /\ g # h /\ Pending(g) /\ KeyOf(g)' = KeyOf(g) /\ KeyOf(g) \in Key
              /\ KeyOf(g) \notin overlapped => KeyOf(g) # key
              /\ stamp'[g] = stamp[g]
  <2>1. g # h
    BY <1>1, <1>2, <1>3, <1>10 DEF Pending
  <2>2. Pending(g) /\ KeyOf(g)' = KeyOf(g)
    BY <1>1, <1>2, <1>3, <1>10, <2>1 DEF Pending, KeyOf
  <2>3. announce[g] # Idle
    BY <1>1, <2>2, PendingInFlight
  <2>4. KeyOf(g) \in Key
    BY <1>1, <2>3, KeyType
  <2>5. KeyOf(g) \notin overlapped => KeyOf(g) # key
    BY <1>3, <2>1, <2>3 DEF RowsInv, RequestsApart
  <2> QED BY <1>1, <1>2, <2>1, <2>2, <2>4, <2>5
<1>11. StampsInOrder'
  <2>1. \A k \in Key :
          /\ peerQueue'[k] # NoRecord => peerQueue'[k].updated <= announces
          /\ peerBatch[k] # NoRecord => peerBatch[k].updated <= announces
          /\ k \notin overlapped /\ peerQueue'[k] # NoRecord /\ peerBatch[k] # NoRecord =>
                peerBatch[k].updated < peerQueue'[k].updated
    BY <1>5, <1>6, <1>8 DEF RowsInv, StampsInOrder
  <2>2. \A g \in Handler : Pending(g)' =>
          /\ stamp'[g] <= announces
          /\ KeyOf(g)' \notin overlapped =>
                /\ peerQueue'[KeyOf(g)'] # NoRecord => peerQueue'[KeyOf(g)'].updated < stamp'[g]
                /\ peerBatch[KeyOf(g)'] # NoRecord => peerBatch[KeyOf(g)'].updated < stamp'[g]
    BY <1>8, <1>10 DEF RowsInv, StampsInOrder
  <2> QED BY <1>2, <1>3, <2>1, <2>2 DEF StampsInOrder
<1>12. NothingBeforeStart'
  BY <1>2, <1>3 DEF RowsInv, NothingBeforeStart
<1>13. NewestReflects'
  <2> SUFFICES ASSUME started, NEW t \in Torrent, NEW i \in Index, <<t, i>> \notin overlapped
               PROVE  NewestMatches(t, i)'
    BY <1>2 DEF NewestReflects
  <2> DEFINE k == <<t, i>>
  <2>1. NewestMatches(t, i) /\ k \in Key
    BY DEF RowsInv, NewestReflects, Key
  <2>2. CASE k = key
    <3>1. Telling(k)' = {}
      <4>1. \A g \in Handler \ {h} : told[g] # NoRecord => KeyOf(g) # k
        BY <1>1, <1>3, <2>2, ToldInFlight DEF RowsInv, RequestsApart
      <4> QED BY <1>1, <1>2, <1>3, <4>1 DEF Telling, KeyOf
    <3>2. Matches(told[h].peer, torrents[t].peers[i])
      BY <1>2, <2>1, <2>2 DEF NewestMatches, Telling
    <3> QED BY <1>2, <1>3, <1>8, <2>2, <3>1, <3>2 DEF NewestMatches
  <2>3. CASE k # key
    <3>1. Telling(k)' = Telling(k) /\ \A g \in Telling(k) : told'[g] = told[g]
      BY <1>1, <1>2, <1>3, <2>3 DEF Telling, KeyOf
    <3> QED BY <1>2, <1>3, <1>8, <2>1, <2>3, <3>1 DEF NewestMatches
  <2> QED BY <2>2, <2>3
<1> QED BY <1>9, <1>11, <1>12, <1>13 DEF RowsInv

(***************************************************************************)
(* Flushes, crashes, starts and time.                                      *)
(***************************************************************************)
\* Taking, writing and putting back change which of queue, statement and table
\* holds the newest row, and never what it is (queue.rs, flush and upsert_batch).
LEMMA FlushStep ==
    ASSUME RowsInvariant, TrackerTypeOK', Flush
    PROVE  RowsInv'
<1> USE DEF RowsInvariant
<1>1. /\ TypeOK /\ ToldLate /\ AllPresent
      /\ peerQueue \in [Key -> Record \cup {NoRecord}]
      /\ peerBatch \in [Key -> Record \cup {NoRecord}]
  BY DEF TrackerTypeOK, RowsInv
<1>2. \A k \in Key : NoRecords[k] = NoRecord
  BY DEF NoRecords
<1>3. UNCHANGED <<vars, started, stamp, told, overlapped>>
  BY DEF Flush, TakePeers, TakeTorrents, PeersWritten, TorrentsWritten, PeersFail, TorrentsFail,
         Fail, history
<1>4. UNCHANGED <<torrents, announce, announces>>
  BY <1>3 DEF vars
<1>5. \A h \in Handler : Pending(h)' = Pending(h) /\ KeyOf(h)' = KeyOf(h)
  BY <1>3, <1>4 DEF Pending, KeyOf
<1>6. RequestsApart' /\ ToldLate' /\ AllPresent'
  BY <1>3, <1>4, <1>5 DEF RowsInv, RequestsApart, ToldLate, AllPresent
<1>7. \A h \in Handler : Pending(h) => KeyOf(h) \in Key
  BY <1>1, PendingInFlight, KeyType
<1>8. \A k : Telling(k)' = Telling(k)
  BY <1>3, <1>5 DEF Telling
<1>9. CASE UNCHANGED <<peerQueue, peerBatch, rows>>
  BY <1>1, <1>3, <1>4, <1>9, QuietStep DEF GoesOn, AllPresent
<1>10. CASE TakePeers
  <2>1. peerBatch = NoRecords /\ peerBatch' = peerQueue /\ peerQueue' = NoRecords /\ rows' = rows
        /\ started
    BY <1>10 DEF TakePeers, Flushing, stored
  <2>2. StampsInOrder'
    BY <1>2, <1>3, <1>4, <1>5, <1>7, <2>1 DEF RowsInv, StampsInOrder
  <2>3. NothingBeforeStart'
    BY <1>3, <2>1 DEF NothingBeforeStart
  <2>4. NewestReflects'
    <3> SUFFICES ASSUME NEW t \in Torrent, NEW i \in Index, <<t, i>> \notin overlapped
                 PROVE  NewestMatches(t, i)'
      BY <1>3 DEF NewestReflects
    <3>1. NewestMatches(t, i) /\ <<t, i>> \in Key
      BY <2>1 DEF RowsInv, NewestReflects, Key
    <3> QED BY <1>2, <1>3, <1>4, <1>8, <2>1, <3>1 DEF NewestMatches
  <2> QED BY <1>6, <2>2, <2>3, <2>4 DEF RowsInv
<1>11. CASE PeersWritten
  <2>1. rows' = RowsWith(peerBatch) /\ peerBatch' = NoRecords /\ peerQueue' = peerQueue
    BY <1>11 DEF PeersWritten
  <2>2. StampsInOrder'
    BY <1>2, <1>3, <1>4, <1>5, <1>7, <2>1 DEF RowsInv, StampsInOrder
  <2>3. NothingBeforeStart'
    BY <1>3, <1>4, <2>1 DEF RowsInv, NothingBeforeStart
  <2>4. NewestReflects'
    <3> SUFFICES ASSUME started, NEW t \in Torrent, NEW i \in Index, <<t, i>> \notin overlapped
                 PROVE  NewestMatches(t, i)'
      BY <1>3 DEF NewestReflects
    <3>1. NewestMatches(t, i) /\ <<t, i>> \in Key
      BY DEF RowsInv, NewestReflects, Key
    <3>2. rows'[t][i] = IF peerBatch[<<t, i>>] = NoRecord THEN rows[t][i]
                        ELSE peerBatch[<<t, i>>].peer
      BY <2>1 DEF RowsWith
    <3> QED BY <1>2, <1>3, <1>4, <1>8, <2>1, <3>1, <3>2 DEF NewestMatches
  <2> QED BY <1>6, <2>2, <2>3, <2>4 DEF RowsInv
<1>12. CASE PeersFail
  <2>1. peerBatch' = NoRecords /\ rows' \in {rows, RowsWith(peerBatch)}
    BY <1>12 DEF PeersFail
  <2>2. ASSUME NEW k \in Key
        PROVE  /\ peerQueue'[k] \in {peerQueue[k], peerBatch[k]}
               /\ k \notin overlapped =>
                     peerQueue'[k] = IF peerQueue[k] # NoRecord THEN peerQueue[k] ELSE peerBatch[k]
    <3>1. peerQueue'[k] = IF peerBatch[k] = NoRecord THEN peerQueue[k]
                          ELSE Merged(peerQueue[k], peerBatch[k])
      BY <1>12 DEF PeersFail
    <3>2. CASE k \notin overlapped /\ peerQueue[k] # NoRecord /\ peerBatch[k] # NoRecord
      <4>1. peerBatch[k].updated < peerQueue[k].updated
        BY <3>2 DEF RowsInv, StampsInOrder
      <4>2. peerBatch[k].updated \in Nat /\ peerQueue[k].updated \in Nat
        BY <1>1, <3>2 DEF Record
      <4> QED BY <3>1, <3>2, <4>1, <4>2 DEF Merged
    <3> QED BY <3>1, <3>2 DEF Merged
  <2>3. StampsInOrder'
    BY <1>2, <1>3, <1>4, <1>5, <1>7, <2>1, <2>2 DEF RowsInv, StampsInOrder
  <2>4. NothingBeforeStart'
    <3>1. peerBatch # NoRecords
      BY <1>12 DEF PeersFail
    <3> QED BY <1>3, <3>1 DEF RowsInv, NothingBeforeStart
  <2>5. NewestReflects'
    <3> SUFFICES ASSUME started, NEW t \in Torrent, NEW i \in Index, <<t, i>> \notin overlapped
                 PROVE  NewestMatches(t, i)'
      BY <1>3 DEF NewestReflects
    <3>1. NewestMatches(t, i) /\ <<t, i>> \in Key
      BY DEF RowsInv, NewestReflects, Key
    <3>2. peerBatch[<<t, i>>] = NoRecord => rows'[t][i] = rows[t][i]
      BY <2>1 DEF RowsWith
    <3> QED BY <1>2, <1>3, <1>4, <1>8, <2>1, <2>2, <3>1, <3>2 DEF NewestMatches
  <2> QED BY <1>6, <2>3, <2>4, <2>5 DEF RowsInv
<1>13. TakeTorrents \/ TorrentsWritten \/ TorrentsFail => UNCHANGED <<peerQueue, peerBatch, rows>>
  BY DEF TakeTorrents, TorrentsWritten, TorrentsFail, Fail, stored
<1> QED BY <1>9, <1>10, <1>11, <1>12, <1>13 DEF Flush

\* A crash leaves nobody, and nothing that is queued.
LEMMA CrashStep ==
    ASSUME RowsInvariant, Crash
    PROVE  RowsInv'
<1>1. /\ ~started' /\ announce' = [h \in Handler |-> Idle]
      /\ told' = [h \in Handler |-> NoRecord] /\ peerQueue' = NoRecords /\ peerBatch' = NoRecords
  BY DEF Crash
<1>2. \A k \in Key : NoRecords[k] = NoRecord
  BY DEF NoRecords
<1>3. Idle.pc = "idle"
  BY DEF Idle
<1>4. RequestsApart' /\ ToldLate' /\ NothingBeforeStart' /\ NewestReflects'
  BY <1>1 DEF RequestsApart, ToldLate, NothingBeforeStart, NewestReflects
<1>5. \A h \in Handler : ~Pending(h)'
  BY <1>1, <1>3 DEF Pending
<1>6. StampsInOrder'
  BY <1>1, <1>2, <1>5 DEF StampsInOrder
<1>7. AllPresent'
  <2>1. [is_deleted |-> FALSE, seeders |-> 0, leechers |-> 0, peers |-> NoPeers] \in Entry
    BY DEF Entry, PeerStore, NoPeers
  <2> QED BY <2>1, AbsentAssumption DEF Crash, AllPresent
<1> QED BY <1>4, <1>6, <1>7 DEF RowsInv

\* What is loaded is what the rows say (store/torrent.rs, from_db).
LEMMA StartStep ==
    ASSUME RowsInvariant, TrackerTypeOK', Start
    PROVE  RowsInv'
<1>1. /\ ~started /\ started' /\ announce = [h \in Handler |-> Idle]
      /\ told = [h \in Handler |-> NoRecord] /\ peerQueue = NoRecords /\ peerBatch = NoRecords
      /\ rows \in [Torrent -> PeerStore]
  BY DEF Start, RowsInvariant, RowsInv, NothingBeforeStart, TrackerTypeOK
<1>2. /\ UNCHANGED <<announce, told, peerQueue, peerBatch, rows, stamp>>
      /\ \A t \in Torrent : torrents'[t].peers = rows[t]
  BY DEF Start, queued
<1>3. \A k \in Key : NoRecords[k] = NoRecord
  BY DEF NoRecords
<1>4. Idle.pc = "idle"
  BY DEF Idle
<1>5. RequestsApart' /\ ToldLate' /\ NothingBeforeStart'
  BY <1>1, <1>2 DEF RequestsApart, ToldLate, NothingBeforeStart
<1>6. \A h \in Handler : ~Pending(h)'
  BY <1>1, <1>2, <1>4 DEF Pending
<1>7. StampsInOrder'
  BY <1>1, <1>2, <1>3, <1>6 DEF StampsInOrder
<1>8. AllPresent'
  <2> SUFFICES ASSUME NEW t \in Torrent PROVE torrents'[t] # Absent
    BY DEF AllPresent
  <2>1. require \in BOOLEAN /\ rows[t] \in PeerStore
    BY <1>1 DEF RowsInvariant, TrackerTypeOK, TypeOK
  <2>2. torrents'[t] = [is_deleted |-> FALSE, seeders |-> Synced(t, require).seeders,
                        leechers |-> Synced(t, require).leechers, peers |-> rows[t]]
    BY DEF Start
  <2>3. torrents'[t] \in Entry
    BY <2>1, <2>2, RecountExact DEF Entry
  <2> QED BY <2>3, AbsentAssumption
<1>9. NewestReflects'
  <2> SUFFICES ASSUME NEW t \in Torrent, NEW i \in Index PROVE NewestMatches(t, i)'
    BY DEF NewestReflects
  <2>1. Telling(<<t, i>>)' = {}
    BY <1>1, <1>2 DEF Telling
  <2>2. torrents'[t].peers[i] = rows[t][i] /\ <<t, i>> \in Key
    BY <1>2 DEF Key
  <2>3. Matches(rows[t][i], rows[t][i])
    BY DEF Matches
  <2> QED BY <1>1, <1>2, <1>3, <2>1, <2>2, <2>3 DEF NewestMatches
<1> QED BY <1>5, <1>7, <1>8, <1>9 DEF RowsInv

\* Time makes peers and all their rows older alike.
LEMMA TimeStep ==
    ASSUME RowsInvariant, TimePasses
    PROVE  RowsInv'
<1> USE DEF RowsInvariant
<1>1. /\ TypeOK /\ ToldLate /\ AllPresent /\ Idle.pc = "idle"
      /\ told \in [Handler -> Record \cup {NoRecord}]
      /\ peerQueue \in [Key -> Record \cup {NoRecord}] /\ rows \in [Torrent -> PeerStore]
  BY DEF TrackerTypeOK, RowsInv, Idle
<1>2. /\ peerBatch = NoRecords /\ UNCHANGED <<started, stamp, peerBatch, announces, overlapped>>
      /\ told' = [h \in Handler |-> OlderRecord(told[h])]
      /\ peerQueue' = [k \in Key |-> OlderRecord(peerQueue[k])]
      /\ rows' = [t \in Torrent |-> OlderPeers(rows[t])]
  BY DEF TimePasses, Flushing, Tick, history
<1>3. ASSUME NEW r \in Record \cup {NoRecord}
      PROVE  /\ OlderRecord(r) = NoRecord <=> r = NoRecord
             /\ r # NoRecord => /\ OlderRecord(r).updated = r.updated
                                /\ OlderRecord(r).peer = [r.peer EXCEPT !.age = Older(@)]
                                /\ r.peer \in Peer
  <2>1. CASE r = NoRecord
    BY <2>1 DEF OlderRecord
  <2>2. CASE r \in Record /\ r # NoRecord
    <3>1. Older(r.peer.age) \in Age
      BY <2>2, NumberAssumption DEF Record, Peer, Age, Oldest, Older
    <3>2. [r EXCEPT !.peer = [r.peer EXCEPT !.age = Older(@)]] \in Record
      BY <2>2, <3>1 DEF Record, Peer
    <3>3. OlderRecord(r) = [r EXCEPT !.peer = [r.peer EXCEPT !.age = Older(@)]]
      BY <2>2 DEF OlderRecord, Record, Peer
    <3> QED BY <2>2, <3>2, <3>3, RecordAssumption DEF Record
  <2> QED BY <2>1, <2>2
<1>4. ASSUME NEW h \in Handler
      PROVE  /\ announce'[h] # Idle <=> announce[h] # Idle
             /\ announce'[h].pc = announce[h].pc /\ KeyOf(h)' = KeyOf(h)
             /\ Pending(h)' = Pending(h)
  <2>1. announce'[h] = IF announce[h] = Idle THEN Idle ELSE [announce[h] EXCEPT !.age = Older(@)]
    BY DEF TimePasses, Tick
  <2>2. announce[h] # Idle => announce[h] \in Probing \cup Locking \cup Late
    BY <1>1 DEF TypeOK, Request
  <2>3. announce[h] # Idle => announce'[h].pc = announce[h].pc /\ announce[h].pc # "idle"
    BY <2>1, <2>2 DEF Probing, Locking, Late
  <2>4. KeyOf(h)' = KeyOf(h)
    BY <2>1, <2>2 DEF KeyOf, Probing, Locking, Late
  <2>5. told'[h] # NoRecord <=> told[h] # NoRecord
    BY <1>1, <1>2, <1>3
  <2> QED BY <1>1, <2>1, <2>3, <2>4, <2>5 DEF Pending
<1>5. RequestsApart'
  BY <1>2, <1>4 DEF RowsInv, RequestsApart
<1>6. ToldLate'
  BY <1>1, <1>2, <1>3, <1>4 DEF ToldLate
<1>7. StampsInOrder'
  <2>1. \A k \in Key : /\ peerQueue'[k] # NoRecord <=> peerQueue[k] # NoRecord
                       /\ peerQueue[k] # NoRecord => peerQueue'[k].updated = peerQueue[k].updated
    BY <1>1, <1>2, <1>3
  <2>2. \A h \in Handler : Pending(h) => KeyOf(h) \in Key
    BY <1>1, PendingInFlight, KeyType
  <2> QED BY <1>2, <1>4, <2>1, <2>2 DEF RowsInv, StampsInOrder
<1>8. NothingBeforeStart'
  <2> SUFFICES ASSUME ~started
               PROVE  /\ announce' = [h \in Handler |-> Idle]
                      /\ told' = [h \in Handler |-> NoRecord]
                      /\ peerQueue' = NoRecords /\ peerBatch' = NoRecords
    BY <1>2 DEF NothingBeforeStart
  <2>1. announce = [h \in Handler |-> Idle] /\ told = [h \in Handler |-> NoRecord]
        /\ peerQueue = NoRecords
    BY DEF RowsInv, NothingBeforeStart
  <2>2. OlderRecord(NoRecord) = NoRecord
    BY DEF OlderRecord
  <2> QED BY <1>2, <2>1, <2>2 DEF TimePasses, Tick, NoRecords
<1>9. ASSUME NEW t \in Torrent
      PROVE  /\ torrents[t] \in Entry /\ torrents'[t] # Absent
             /\ torrents'[t].peers = OlderPeers(torrents[t].peers)
  <2>1. torrents[t] \in Entry
    BY <1>1 DEF TypeOK, AllPresent
  <2>2. torrents'[t] = [torrents[t] EXCEPT !.peers = OlderPeers(@)]
    BY <1>1 DEF TimePasses, Tick, AllPresent
  <2>3. torrents'[t] \in Entry
    BY <2>1, <2>2, PeersType DEF Entry
  <2> QED BY <2>1, <2>2, <2>3, AbsentAssumption DEF Entry
<1>10. AllPresent'
  BY <1>9 DEF AllPresent
<1>11. NewestReflects'
  <2> SUFFICES ASSUME started, NEW t \in Torrent, NEW i \in Index, <<t, i>> \notin overlapped
               PROVE  NewestMatches(t, i)'
    BY <1>2 DEF NewestReflects
  <2> DEFINE k == <<t, i>>
             p == torrents[t].peers[i]
             p2 == IF p = NoPeer THEN NoPeer ELSE [p EXCEPT !.age = Older(@)]
  <2>1. NewestMatches(t, i) /\ k \in Key
    BY DEF RowsInv, NewestReflects, Key
  <2>2. p \in Peer \cup {NoPeer} /\ torrents'[t].peers[i] = p2
    BY <1>9 DEF Entry, PeerStore, OlderPeers
  <2>3. Telling(k)' = Telling(k)
    BY <1>1, <1>2, <1>3, <1>4 DEF Telling
  <2>4. ASSUME NEW r \in Record, r # NoRecord, Matches(r.peer, p)
        PROVE  Matches(OlderRecord(r).peer, p2)
    <3>1. OlderRecord(r).peer = [r.peer EXCEPT !.age = Older(@)] /\ r.peer \in Peer
      BY <1>3, <2>4
    <3>2. Matches([r.peer EXCEPT !.age = Older(@)], p2)
      BY <2>2, <2>4, <3>1, MatchesOlder
    <3> QED BY <3>1, <3>2
  <2>5. ASSUME NEW h \in Telling(k)'
        PROVE  Matches(told'[h].peer, p2)
    <3>1. told[h] \in Record /\ told[h] # NoRecord /\ Matches(told[h].peer, p)
      BY <1>1, <2>1, <2>3 DEF Telling, NewestMatches
    <3> QED BY <1>2, <2>4, <3>1 DEF Telling
  <2>6. CASE Telling(k) = {} /\ peerQueue[k] # NoRecord
    <3>1. peerQueue[k] \in Record /\ Matches(peerQueue[k].peer, p)
      BY <1>1, <2>1, <2>6 DEF NewestMatches
    <3>2. peerQueue'[k] # NoRecord /\ Matches(peerQueue'[k].peer, p2)
      <4>1. peerQueue'[k] = OlderRecord(peerQueue[k])
        BY <1>2, <2>1
      <4>2. peerQueue'[k] # NoRecord
        BY <1>3, <2>6, <3>1, <4>1
      <4> QED BY <2>4, <2>6, <3>1, <4>1, <4>2
    <3> QED BY <2>2, <2>3, <2>5, <2>6, <3>2 DEF NewestMatches
  <2>7. CASE Telling(k) = {} /\ peerQueue[k] = NoRecord
    <3>1. peerQueue'[k] = NoRecord /\ peerBatch[k] = NoRecord
      BY <1>2, <2>1, <2>7 DEF OlderRecord, NoRecords
    <3>2. Matches(rows[t][i], p) /\ rows[t][i] \in Peer \cup {NoPeer}
      BY <1>1, <2>1, <2>7, <3>1 DEF NewestMatches, PeerStore
    <3>3. rows'[t][i] = IF rows[t][i] = NoPeer THEN NoPeer ELSE [rows[t][i] EXCEPT !.age = Older(@)]
      BY <1>2 DEF OlderPeers
    <3>4. Matches(rows'[t][i], p2)
      <4>1. CASE rows[t][i] = NoPeer
        BY <2>2, <3>2, <3>3, <4>1 DEF Matches, Peer
      <4>2. CASE rows[t][i] \in Peer /\ rows[t][i] # NoPeer
        BY <2>2, <3>2, <3>3, <4>2, MatchesOlder
      <4> QED BY <3>2, <4>1, <4>2
    <3> QED BY <1>2, <2>2, <2>3, <2>5, <2>7, <3>1, <3>4 DEF NewestMatches
  <2>8. CASE Telling(k) # {}
    BY <2>2, <2>3, <2>5, <2>8 DEF NewestMatches
  <2> QED BY <2>6, <2>7, <2>8
<1> QED BY <1>5, <1>6, <1>7, <1>8, <1>10, <1>11 DEF RowsInv

(***************************************************************************)
(* The theorem.                                                            *)
(***************************************************************************)
\* Initially nobody is there and no row is written.
LEMMA RowsInit == TrackerInit => RowsInv
<1> SUFFICES ASSUME TrackerInit PROVE RowsInv
  OBVIOUS
<1>1. /\ announce = [h \in Handler |-> Idle] /\ told = [h \in Handler |-> NoRecord]
      /\ peerQueue = NoRecords /\ peerBatch = NoRecords
      /\ rows = [t \in Torrent |-> NoPeers]
      /\ torrents = [t \in Torrent |->
            [is_deleted |-> FALSE, seeders |-> 0, leechers |-> 0, peers |-> NoPeers]]
  BY DEF TrackerInit, Init
<1>2. Idle.pc = "idle" /\ \A k \in Key : NoRecords[k] = NoRecord
  BY DEF Idle, NoRecords
<1>3. RequestsApart /\ ToldLate /\ NothingBeforeStart
  BY <1>1 DEF RequestsApart, ToldLate, NothingBeforeStart
<1>4. StampsInOrder
  <2>1. \A h \in Handler : ~Pending(h)
    BY <1>1, <1>2 DEF Pending
  <2> QED BY <1>1, <1>2, <2>1 DEF StampsInOrder
<1>5. AllPresent
  <2>1. [is_deleted |-> FALSE, seeders |-> 0, leechers |-> 0, peers |-> NoPeers] \in Entry
    BY DEF Entry, PeerStore, NoPeers
  <2> QED BY <1>1, <2>1, AbsentAssumption DEF AllPresent
<1>6. NewestReflects
  <2> SUFFICES ASSUME NEW t \in Torrent, NEW i \in Index PROVE NewestMatches(t, i)
    BY DEF NewestReflects
  <2>1. <<t, i>> \in Key /\ Telling(<<t, i>>) = {}
    BY <1>1 DEF Key, Telling
  <2>2. torrents[t].peers[i] = NoPeer /\ rows[t][i] = NoPeer
    BY <1>1 DEF NoPeers
  <2> QED BY <1>1, <1>2, <2>1, <2>2 DEF NewestMatches, Matches
<1> QED BY <1>3, <1>4, <1>5, <1>6 DEF RowsInv

\* Every step keeps the invariant.
LEMMA RowsStep ==
    ASSUME RowsInvariant, TrackerTypeOK', [TrackerNext]_trackerVars
    PROVE  RowsInv'
<1>1. ASSUME NEW h \in Handler, Handle(h) PROVE RowsInv'
  BY <1>1, ArriveStep, ProceedStep, KeepOrStopStep, QueuePeerStep DEF Handle
<1>2. CASE StartReap \/ UNCHANGED trackerVars
  <2>1. UNCHANGED <<started, stamp, told, peerQueue, peerBatch, rows, announces, announce, torrents,
                     overlapped>>
    BY <1>2 DEF StartReap, ReapStarts, trackerVars, vars, queued, stored, history
  <2> QED BY <2>1, QuietStep DEF GoesOn, RowsInvariant, RowsInv, AllPresent
<1> QED BY <1>1, <1>2, ReapStep, FlushStep, CrashStep, StartStep, TimeStep DEF TrackerNext

\* Whatever fails, is applied although it failed, or is lost in a crash: once
\* nothing of it is on its way, the row of a peer whose announces never
\* overlapped is the peer if it is active, and otherwise one that no start takes
\* for a client that is still there (queue/peer_update.rs, merge;
\* store/torrent.rs, the load; scheduler.rs, reap).
THEOREM RowsAlwaysFollowPeers == TrackerSpec => []RowsFollowPeers
<1>1. RowsInvariant => RowsFollowPeers
  <2> SUFFICES ASSUME RowsInvariant, started, NEW t \in Torrent, NEW i \in Index,
                      <<t, i>> \notin overlapped, ~OnItsWay(<<t, i>>)
               PROVE  Matches(rows[t][i], torrents[t].peers[i])
    BY DEF RowsFollowPeers, Matches
  <2>1. Telling(<<t, i>>) = {}
    BY DEF Telling, OnItsWay, KeyOf
  <2>2. NewestMatches(t, i)
    BY DEF RowsInvariant, RowsInv, NewestReflects
  <2> QED BY <2>1, <2>2 DEF NewestMatches, OnItsWay
<1>2. TrackerInvariant /\ RowsInv => RowsInvariant
  BY DEF TrackerInvariant, RowsInvariant
<1>3. TrackerInvariant /\ RowsInv /\ [TrackerNext]_trackerVars => (TrackerInvariant /\ RowsInv)'
  BY <1>2, TrackerInvariantStep, RowsStep DEF TrackerInvariant
<1>4. TrackerInit => TrackerInvariant /\ RowsInv
  BY TrackerInvariantInit, RowsInit
<1> QED BY <1>1, <1>2, <1>3, <1>4, PTL DEF TrackerSpec
=============================================================================
