----------------------------- MODULE SwarmProofs -----------------------------
(***************************************************************************)
(* For every set of torrents, users, peers, requests and API calls: the    *)
(* swarm is type correct, a torrent's counters are the numbers of its      *)
(* peers, and once they are moved off no announce and no reap takes them   *)
(* further off; what the torrents queue is told adds up to the counters;   *)
(* no user is counted too low; and nothing erases a peer but its stop, its *)
(* silence, or two upserts of the website at once.                         *)
(***************************************************************************)
EXTENDS Swarm, FiniteSums

(***************************************************************************)
(* Lemmas about peers and counters.                                        *)
(***************************************************************************)
\* The peers a torrent may have are finitely many (store/peer.rs, Index).
LEMMA IndexFinite == IsFiniteSet(Index)
BY SetAssumption, FS_Product DEF Index

\* A set of peers has a size (store/peer.rs).
LEMMA PeersCounted ==
    ASSUME NEW S \in SUBSET Index
    PROVE  IsFiniteSet(S) /\ Cardinality(S) \in Nat
BY IndexFinite, FS_Subset, FS_CardinalityType

\* A counter that saturates stays a counter (u32::saturating_add_signed).
LEMMA SaturatingType ==
    ASSUME NEW n \in Nat, NEW d \in Int
    PROVE  Saturating(n, d) \in Nat
BY DEF Saturating

\* If two sets differ in one element at most, their sizes differ by whether it
\* is in them.
LEMMA SizeOfReplaced ==
    ASSUME NEW S, NEW T, NEW i, IsFiniteSet(S), IsFiniteSet(T), S \ {i} = T \ {i}
    PROVE  Cardinality(T) = Cardinality(S)
              + ((IF i \in T THEN 1 ELSE 0) - (IF i \in S THEN 1 ELSE 0))
<1>1. Cardinality(S) \in Nat /\ Cardinality(T) \in Nat
  BY FS_CardinalityType
<1>2. Cardinality(S \ {i}) = IF i \in S THEN Cardinality(S) - 1 ELSE Cardinality(S)
  BY FS_RemoveElement
<1>3. Cardinality(T \ {i}) = IF i \in T THEN Cardinality(T) - 1 ELSE Cardinality(T)
  BY FS_RemoveElement
<1> QED BY <1>1, <1>2, <1>3

\* Replacing one peer moves the number of seeders and of leechers by the
\* deltas an announce works out (announce.rs, seeder_delta and leecher_delta).
LEMMA ReplacedPeerCounts ==
    ASSUME NEW peers \in PeerStore, NEW i \in Index, NEW new \in Peer \cup {NoPeer},
           NEW req \in BOOLEAN
    PROVE  LET after == [peers EXCEPT ![i] = new]
           IN  /\ Cardinality(SeedersIn(after, req)) = Cardinality(SeedersIn(peers, req))
                    + Delta(InSeedList(new, req), InSeedList(peers[i], req))
               /\ Cardinality(LeechersIn(after, req)) = Cardinality(LeechersIn(peers, req))
                    + Delta(InLeechList(new, req), InLeechList(peers[i], req))
<1> DEFINE after == [peers EXCEPT ![i] = new]
<1>1. /\ DOMAIN peers = Index /\ DOMAIN after = Index
      /\ after[i] = new
      /\ \A j \in Index : j # i => after[j] = peers[j]
  BY DEF PeerStore
<1> HIDE DEF after
<1>2. /\ SeedersIn(peers, req) \in SUBSET Index /\ SeedersIn(after, req) \in SUBSET Index
      /\ LeechersIn(peers, req) \in SUBSET Index /\ LeechersIn(after, req) \in SUBSET Index
  BY <1>1 DEF SeedersIn, LeechersIn
<1>3. SeedersIn(peers, req) \ {i} = SeedersIn(after, req) \ {i}
  BY <1>1 DEF SeedersIn
<1>4. LeechersIn(peers, req) \ {i} = LeechersIn(after, req) \ {i}
  BY <1>1 DEF LeechersIn
<1>5. /\ Bit(InSeedList(new, req)) = IF i \in SeedersIn(after, req) THEN 1 ELSE 0
      /\ Bit(InSeedList(peers[i], req)) = IF i \in SeedersIn(peers, req) THEN 1 ELSE 0
  BY <1>1 DEF SeedersIn, Bit
<1>6. /\ Bit(InLeechList(new, req)) = IF i \in LeechersIn(after, req) THEN 1 ELSE 0
      /\ Bit(InLeechList(peers[i], req)) = IF i \in LeechersIn(peers, req) THEN 1 ELSE 0
  BY <1>1 DEF LeechersIn, Bit
<1>7. Cardinality(SeedersIn(after, req)) = Cardinality(SeedersIn(peers, req))
         + Delta(InSeedList(new, req), InSeedList(peers[i], req))
  BY <1>2, <1>3, <1>5, PeersCounted, SizeOfReplaced DEF Delta
<1>8. Cardinality(LeechersIn(after, req)) = Cardinality(LeechersIn(peers, req))
         + Delta(InLeechList(new, req), InLeechList(peers[i], req))
  BY <1>2, <1>4, <1>6, PeersCounted, SizeOfReplaced DEF Delta
<1> QED BY <1>7, <1>8 DEF after

\* A reap takes the expired peers off the lists and leaves the others on them
\* (scheduler.rs, reap).
LEMMA ReapedLists ==
    ASSUME NEW peers \in PeerStore, NEW req \in BOOLEAN, reaper.require = req
    PROVE  /\ SeedersIn(ReapedPeers(peers), req)
                = SeedersIn(peers, req) \ ExpiredSeeders(peers)
           /\ LeechersIn(ReapedPeers(peers), req)
                = LeechersIn(peers, req) \ ExpiredLeechers(peers)
<1>1. DOMAIN peers = Index /\ DOMAIN ReapedPeers(peers) = Index
  BY DEF PeerStore, ReapedPeers
<1>2. \A i \in Index : peers[i] \in Peer \cup {NoPeer} /\ ReapedPeers(peers)[i] = Reaped(peers[i])
  BY DEF PeerStore, ReapedPeers
<1>3. ASSUME NEW p \in Peer \cup {NoPeer}
      PROVE  /\ InSeedList(Reaped(p), req) = (InSeedList(p, req) /\ ~Expired(p))
             /\ InLeechList(Reaped(p), req) = (InLeechList(p, req) /\ ~Expired(p))
  <2>1. CASE Forgotten(p)
    BY <2>1 DEF Reaped, Forgotten, Expired, InSeedList, InLeechList, Included
  <2>2. CASE ~Forgotten(p) /\ Expired(p)
    <3>1. Reaped(p) = [p EXCEPT !.is_active = FALSE] /\ p \in Peer
      BY <2>2 DEF Reaped, Expired
    <3>2. Reaped(p).is_active = FALSE
      BY <3>1 DEF Peer
    <3> QED BY <2>2, <3>2 DEF InSeedList, InLeechList, Included
  <2>3. CASE ~Forgotten(p) /\ ~Expired(p)
    BY <2>3 DEF Reaped, InSeedList, InLeechList, Included
  <2> QED BY <2>1, <2>2, <2>3
<1>4. SeedersIn(ReapedPeers(peers), req) = SeedersIn(peers, req) \ ExpiredSeeders(peers)
  BY <1>1, <1>2, <1>3 DEF SeedersIn, ExpiredSeeders
<1>5. LeechersIn(ReapedPeers(peers), req) = LeechersIn(peers, req) \ ExpiredLeechers(peers)
  BY <1>1, <1>2, <1>3 DEF LeechersIn, ExpiredLeechers
<1> QED BY <1>4, <1>5

\* So a list shrinks by the number of its expired peers (scheduler.rs, reap).
LEMMA ReapedPeerCounts ==
    ASSUME NEW peers \in PeerStore, NEW req \in BOOLEAN, reaper.require = req
    PROVE  /\ Cardinality(SeedersIn(ReapedPeers(peers), req))
                = Cardinality(SeedersIn(peers, req)) - Cardinality(ExpiredSeeders(peers))
           /\ Cardinality(LeechersIn(ReapedPeers(peers), req))
                = Cardinality(LeechersIn(peers, req)) - Cardinality(ExpiredLeechers(peers))
<1>1. DOMAIN peers = Index
  BY DEF PeerStore
<1>2. /\ SeedersIn(ReapedPeers(peers), req) = SeedersIn(peers, req) \ ExpiredSeeders(peers)
      /\ LeechersIn(ReapedPeers(peers), req) = LeechersIn(peers, req) \ ExpiredLeechers(peers)
  BY ReapedLists
<1>6. /\ SeedersIn(peers, req) \cap ExpiredSeeders(peers) = ExpiredSeeders(peers)
      /\ LeechersIn(peers, req) \cap ExpiredLeechers(peers) = ExpiredLeechers(peers)
  BY DEF ExpiredSeeders, ExpiredLeechers
<1>7. SeedersIn(peers, req) \in SUBSET Index /\ LeechersIn(peers, req) \in SUBSET Index
  BY <1>1 DEF SeedersIn, LeechersIn
<1>8. /\ IsFiniteSet(SeedersIn(peers, req)) /\ IsFiniteSet(LeechersIn(peers, req))
  BY <1>7, PeersCounted
<1>9. ASSUME NEW S, NEW T, IsFiniteSet(S), S \cap T = T
      PROVE  Cardinality(S \ T) = Cardinality(S) - Cardinality(T)
  <2>1. Cardinality(S \ T) = Cardinality(S) - Cardinality(S \cap T)
    BY <1>9, FS_Difference
  <2> QED BY <1>9, <2>1
<1>10. Cardinality(SeedersIn(peers, req) \ ExpiredSeeders(peers))
         = Cardinality(SeedersIn(peers, req)) - Cardinality(ExpiredSeeders(peers))
  BY <1>6, <1>8, <1>9
<1>11. Cardinality(LeechersIn(peers, req) \ ExpiredLeechers(peers))
         = Cardinality(LeechersIn(peers, req)) - Cardinality(ExpiredLeechers(peers))
  BY <1>6, <1>8, <1>9
<1> QED BY <1>2, <1>10, <1>11

(***************************************************************************)
(* Type correctness.                                                       *)
(***************************************************************************)
\* What is known of a request in each phase of the handler (announce.rs).
LEMMA RequestPhases ==
    ASSUME TypeOK, NEW h \in Handler
    PROVE  /\ announce[h].pc = "probing" => announce[h] \in Probing
           /\ announce[h].pc = "locking" => announce[h] \in Locking
           /\ announce[h].pc \in {"counting", "queueing"} => announce[h] \in Late
<1>1. announce[h] \in {Idle} \cup Probing \cup Locking \cup Late
  BY DEF TypeOK, Request
<1>2. /\ Idle.pc = "idle"
      /\ \A a \in Probing : a.pc = "probing"
      /\ \A a \in Locking : a.pc = "locking"
      /\ \A a \in Late : a.pc \in {"counting", "queueing"}
  BY DEF Idle, Probing, Locking, Late
<1> QED BY <1>1, <1>2

\* An API call that is not free holds a torrent's peers (api/torrent.rs, upsert).
LEMMA CallPhases ==
    ASSUME TypeOK, NEW a \in ApiCall, api[a] # Free
    PROVE  api[a] \in Holding
BY DEF TypeOK

\* The peer an announce leaves behind is a peer, and listed or not by the config
\* it loaded (announce.rs, and_modify and or_insert).
LEMMA AnnouncedPeerType ==
    ASSUME NEW a \in Locking
    PROVE  /\ Inserted(a) \in Peer
           /\ \A old \in Peer : Updated(a, old) \in Peer
<1>1. /\ (a.event = "seeding") \in BOOLEAN
      /\ HitSlotLimit(a) \in BOOLEAN
      /\ \A p \in Peer : InLeechList(p, a.require) \in BOOLEAN
  BY DEF HitSlotLimit, InLeechList, Included
<1>2. a.connectable \in BOOLEAN /\ a.age \in Age /\ a.require \in BOOLEAN
  BY DEF Locking
<1>3. Inserted(a) \in Peer
  BY <1>1, <1>2 DEF Inserted, Peer
<1>4. ASSUME NEW old \in Peer
      PROVE  Updated(a, old) \in Peer
  <2> DEFINE seen == [old EXCEPT !.is_seeder = (a.event = "seeding"),
                                 !.is_connectable = a.connectable]
  <2>1. seen \in Peer
    BY <1>1, <1>2 DEF Peer
  <2> HIDE DEF seen
  <2>2. (InLeechList(seen, a.require) \/ ~HitSlotLimit(a)) \in BOOLEAN
    OBVIOUS
  <2>3. [seen EXCEPT !.is_visible = InLeechList(seen, a.require) \/ ~HitSlotLimit(a),
                     !.is_active = TRUE, !.age = a.age] \in Peer
    BY <1>2, <2>1, <2>2 DEF Peer
  <2> QED BY <2>3 DEF Updated, seen
<1> QED BY <1>3, <1>4

\* The deltas of an announce are -1, 0 or 1 (announce.rs, bool as i32).
LEMMA DeltaType ==
    ASSUME NEW P, NEW Q
    PROVE  Delta(P, Q) \in -1..1 /\ Delta(P, Q) \in Int
BY DEF Delta, Bit

\* Reaping and ageing leave peers (scheduler.rs, reap).
LEMMA PeersType ==
    ASSUME NEW peers \in PeerStore
    PROVE  ReapedPeers(peers) \in PeerStore /\ OlderPeers(peers) \in PeerStore
<1>1. ASSUME NEW i \in Index
      PROVE  /\ Reaped(peers[i]) \in Peer \cup {NoPeer}
             /\ (IF peers[i] = NoPeer THEN NoPeer ELSE [peers[i] EXCEPT !.age = Older(@)])
                   \in Peer \cup {NoPeer}
  <2>1. peers[i] \in Peer \cup {NoPeer}
    BY DEF PeerStore
  <2>2. CASE peers[i] = NoPeer
    BY <2>2 DEF Reaped, Forgotten, Expired
  <2>3. CASE peers[i] \in Peer
    <3>1. [peers[i] EXCEPT !.is_active = FALSE] \in Peer
      BY <2>3 DEF Peer
    <3>2. Older(peers[i].age) \in Age
      BY <2>3, NumberAssumption DEF Peer, Age, Oldest, Older
    <3>3. [peers[i] EXCEPT !.age = Older(@)] \in Peer
      BY <2>3, <3>2 DEF Peer
    <3> QED BY <2>3, <3>1, <3>3 DEF Reaped
  <2> QED BY <2>1, <2>2, <2>3
<1> QED BY <1>1 DEF PeerStore, ReapedPeers, OlderPeers

\* A torrent that is present is an entry of the store.
LEMMA PresentType ==
    ASSUME TypeOK, NEW t \in Torrent, torrents[t] # Absent
    PROVE  torrents[t] \in Entry
BY DEF TypeOK

\* What the lock section does to the torrent and to the request (announce.rs,
\* from the peer's replacement to the counters).
LEMMA ReplaceType ==
    ASSUME TypeOK, NEW h \in Handler, NEW new \in Peer \cup {NoPeer}, Locked(h), Replace(h, new)
    PROVE  TypeOK'
<1> DEFINE a == announce[h]
           t == a.torrent
           old == torrents[t].peers[a.index]
           seeder_delta == Delta(InSeedList(new, a.require), InSeedList(old, a.require))
           leecher_delta == Delta(InLeechList(new, a.require), InLeechList(old, a.require))
<1>1. a \in Locking
  BY RequestPhases DEF Locked
<1>2. t \in Torrent /\ torrents[t] \in Entry /\ a.index \in Index /\ a.age \in Age
  BY <1>1, PresentType DEF Locked, Announceable, Locking
<1>3. /\ seeder_delta \in -1..1 /\ seeder_delta \in Int
      /\ leecher_delta \in -1..1 /\ leecher_delta \in Int
  BY DeltaType
<1>4. /\ torrents' = [torrents EXCEPT
             ![t].peers[a.index] = new,
             ![t].seeders = Saturating(@, seeder_delta),
             ![t].leechers = Saturating(@, leecher_delta)]
      /\ announce' = [announce EXCEPT ![h] =
             [pc |-> "counting", torrent |-> t, index |-> a.index, age |-> a.age,
              seeder_delta |-> seeder_delta, leecher_delta |-> leecher_delta]]
      /\ UNCHANGED <<users, require, reaper, api, persisted, moved, announces, reloads, apiCalls>>
  BY DEF Replace
<1> HIDE DEF seeder_delta, leecher_delta
<1>5. [pc |-> "counting", torrent |-> t, index |-> a.index, age |-> a.age,
       seeder_delta |-> seeder_delta, leecher_delta |-> leecher_delta] \in Request
  BY <1>2, <1>3 DEF Request, Late
<1>6. announce' \in [Handler -> Request]
  BY <1>4, <1>5 DEF TypeOK
<1>7. /\ Saturating(torrents[t].seeders, seeder_delta) \in Nat
      /\ Saturating(torrents[t].leechers, leecher_delta) \in Nat
  BY <1>2, <1>3, SaturatingType DEF Entry
<1>8. [torrents[t].peers EXCEPT ![a.index] = new] \in PeerStore
  BY <1>2 DEF Entry, PeerStore
<1>9. [torrents[t] EXCEPT
          !.peers = [torrents[t].peers EXCEPT ![a.index] = new],
          !.seeders = Saturating(torrents[t].seeders, seeder_delta),
          !.leechers = Saturating(torrents[t].leechers, leecher_delta)] \in Entry
  BY <1>2, <1>7, <1>8 DEF Entry
<1>10. torrents' = [torrents EXCEPT ![t] =
          [torrents[t] EXCEPT
             !.peers = [torrents[t].peers EXCEPT ![a.index] = new],
             !.seeders = Saturating(torrents[t].seeders, seeder_delta),
             !.leechers = Saturating(torrents[t].leechers, leecher_delta)]]
  BY <1>2, <1>4 DEF TypeOK, Entry
<1>11. torrents' \in [Torrent -> Entry \cup {Absent}]
  BY <1>9, <1>10 DEF TypeOK
<1> QED BY <1>4, <1>6, <1>11 DEF TypeOK

\* Initially every torrent is empty.
LEMMA TypeInit == Init => TypeOK
<1> SUFFICES ASSUME Init PROVE TypeOK
  OBVIOUS
<1>1. NoPeers \in PeerStore
  BY DEF NoPeers, PeerStore
<1>2. torrents \in [Torrent -> Entry \cup {Absent}]
  BY <1>1 DEF Init, Entry
<1>3. announce \in [Handler -> Request] /\ api \in [ApiCall -> {Free} \cup Holding]
  BY DEF Init, Request
<1>4. persisted \in [Torrent -> [seeders : Int, leechers : Int]]
  BY DEF Init
<1>5. users \in [User -> [num_seeding : Nat, num_leeching : Nat]]
  BY DEF Init
<1>6. require \in BOOLEAN /\ reaper \in {Idle} \cup Reaping
  BY SetAssumption DEF Init
<1>7. announces \in 0..MaxAnnounces /\ reloads \in 0..MaxReloads /\ apiCalls \in 0..MaxApiCalls
  BY NumberAssumption DEF Init
<1>8. moved \subseteq Torrent
  BY DEF Init
<1> QED BY <1>2, <1>3, <1>4, <1>5, <1>6, <1>7, <1>8 DEF TypeOK

\* An announce keeps the types, in each of its steps (announce.rs, announce).
LEMMA AnnounceType ==
    ASSUME TypeOK, NEW h \in Handler, Announce(h)
    PROVE  TypeOK'
<1>1. CASE Receive(h)
  <2>1. PICK t \in Torrent, i \in Index, e \in Event :
          announce' = [announce EXCEPT ![h] =
              [pc |-> "probing", torrent |-> t, index |-> i, event |-> e,
               full |-> users[i[1]].num_leeching >= Slots, age |-> 0]]
    BY <1>1 DEF Receive
  <2>2. (users[i[1]].num_leeching >= Slots) \in BOOLEAN /\ 0 \in Age
    BY NumberAssumption DEF Age, Oldest
  <2>3. announce' \in [Handler -> Request]
    BY <2>1, <2>2 DEF TypeOK, Request, Probing
  <2>4. announces' \in 0..MaxAnnounces
    BY <1>1, NumberAssumption DEF Receive, TypeOK
  <2> QED BY <1>1, <2>3, <2>4 DEF Receive, TypeOK
<1>2. CASE Probed(h)
  <2>1. announce[h] \in Probing
    BY <1>2, RequestPhases DEF Probed
  <2>2. PICK c \in Connectable :
          announce' = [announce EXCEPT ![h] =
              [pc |-> "locking", torrent |-> @.torrent, index |-> @.index,
               event |-> @.event, full |-> @.full, age |-> @.age, connectable |-> c,
               require |-> require]]
    BY <1>2 DEF Probed
  <2>3. c \in BOOLEAN /\ require \in BOOLEAN
    BY SetAssumption DEF TypeOK
  <2>4. announce' \in [Handler -> Request]
    BY <2>1, <2>2, <2>3 DEF TypeOK, Request, Probing, Locking
  <2> QED BY <1>2, <2>4 DEF Probed, TypeOK
<1>3. CASE Reject(h)
  BY <1>3 DEF Reject, Refuse, TypeOK, Request
<1>4. CASE Stop(h)
  BY <1>4, ReplaceType DEF Stop
<1>5. CASE Modify(h)
  <2>1. announce[h] \in Locking
    BY <1>5, RequestPhases DEF Modify, Locked
  <2>2. OldPeer(h) \in Peer
    <3>1. announce[h].torrent \in Torrent /\ announce[h].index \in Index
      BY <2>1 DEF Locking
    <3>2. torrents[announce[h].torrent] \in Entry
      BY <1>5, <3>1, PresentType DEF Modify, Locked, Announceable
    <3>3. torrents[announce[h].torrent].peers \in PeerStore
      BY <3>2 DEF Entry
    <3> QED BY <1>5, <3>1, <3>3 DEF Modify, OldPeer, PeerStore
  <2>3. Updated(announce[h], OldPeer(h)) \in Peer
    BY <2>1, <2>2, AnnouncedPeerType
  <2> QED BY <1>5, <2>3, ReplaceType DEF Modify
<1>6. CASE Insert(h)
  <2>1. Inserted(announce[h]) \in Peer
    BY <1>6, RequestPhases, AnnouncedPeerType DEF Insert, Locked
  <2> QED BY <1>6, <2>1, ReplaceType DEF Insert
<1>7. CASE Count(h)
  <2> DEFINE a == announce[h]
             u == a.index[1]
  <2>1. a \in Late
    BY <1>7, RequestPhases DEF Count
  <2>2. u \in User /\ a.seeder_delta \in Int /\ a.leecher_delta \in Int
    BY <2>1 DEF Late, Index
  <2>3. users[u] \in [num_seeding : Nat, num_leeching : Nat]
    BY <2>2 DEF TypeOK
  <2>4. /\ Saturating(users[u].num_seeding, a.seeder_delta) \in Nat
        /\ Saturating(users[u].num_leeching, a.leecher_delta) \in Nat
    BY <2>2, <2>3, SaturatingType
  <2>5. users' = [users EXCEPT ![u].num_seeding = Saturating(@, a.seeder_delta),
                               ![u].num_leeching = Saturating(@, a.leecher_delta)]
    BY <1>7 DEF Count
  <2>6. users' \in [User -> [num_seeding : Nat, num_leeching : Nat]]
    <3>1. [[users[u] EXCEPT !.num_seeding = Saturating(@, a.seeder_delta)]
              EXCEPT !.num_leeching = Saturating(@, a.leecher_delta)]
            \in [num_seeding : Nat, num_leeching : Nat]
      BY <2>3, <2>4
    <3> QED BY <2>2, <2>4, <2>5, <3>1 DEF TypeOK
  <2>7. announce' \in [Handler -> Request]
    BY <1>7, <2>1 DEF Count, TypeOK, Request, Late
  <2> QED BY <1>7, <2>6, <2>7 DEF Count, TypeOK
<1>8. CASE Queue(h)
  <2> DEFINE a == announce[h]
             t == a.torrent
  <2>1. a \in Late
    BY <1>8, RequestPhases DEF Queue
  <2>2. t \in Torrent /\ a.seeder_delta \in Int /\ a.leecher_delta \in Int
    BY <2>1 DEF Late
  <2>3. persisted' \in [Torrent -> [seeders : Int, leechers : Int]]
    BY <1>8, <2>2 DEF Queue, TypeOK
  <2>4. announce' \in [Handler -> Request]
    BY <1>8 DEF Queue, TypeOK, Request
  <2> QED BY <1>8, <2>3, <2>4 DEF Queue, TypeOK
<1> QED BY <1>1, <1>2, <1>3, <1>4, <1>5, <1>6, <1>7, <1>8 DEF Announce

\* What a reap counts are numbers (scheduler.rs, seeder_delta, leecher_delta).
LEMMA ReapedCounts ==
    ASSUME TypeOK
    PROVE  /\ \A t \in Present :
                /\ Cardinality(ExpiredSeeders(torrents[t].peers)) \in Nat
                /\ Cardinality(ExpiredLeechers(torrents[t].peers)) \in Nat
           /\ \A u \in User :
                /\ ExpiredOf(u, AllExpiredSeeders) \in Nat
                /\ ExpiredOf(u, AllExpiredLeechers) \in Nat
<1>1. ASSUME NEW t \in Present
      PROVE  /\ Cardinality(ExpiredSeeders(torrents[t].peers)) \in Nat
             /\ Cardinality(ExpiredLeechers(torrents[t].peers)) \in Nat
  <2>1. DOMAIN torrents[t].peers = Index
    BY PresentType DEF Present, Entry, PeerStore
  <2> QED BY <2>1, PeersCounted DEF ExpiredSeeders, ExpiredLeechers, SeedersIn, LeechersIn
<1>2. IsFiniteSet(Present \X Index)
  BY SetAssumption, IndexFinite, FS_Subset, FS_Product DEF Present
<1>3. \A S \in SUBSET (Present \X Index) : Cardinality(S) \in Nat
  BY <1>2, FS_Subset, FS_CardinalityType
<1>4. ASSUME NEW u \in User
      PROVE  /\ ExpiredOf(u, AllExpiredSeeders) \in Nat
             /\ ExpiredOf(u, AllExpiredLeechers) \in Nat
  BY <1>3 DEF ExpiredOf
<1> QED BY <1>1, <1>4

\* A reap keeps the types (scheduler.rs, reap).
LEMMA ReapType ==
    ASSUME TypeOK, Reap
    PROVE  TypeOK'
<1>1. ASSUME NEW n \in Nat, NEW m \in Nat
      PROVE  Saturating(n, -m) \in Nat
  BY SaturatingType
<1>2. torrents' \in [Torrent -> Entry \cup {Absent}]
  <2> DEFINE reaped(t) == [torrents[t] EXCEPT
                !.peers = ReapedPeers(torrents[t].peers),
                !.seeders = Saturating(@, -Cardinality(ExpiredSeeders(torrents[t].peers))),
                !.leechers = Saturating(@, -Cardinality(ExpiredLeechers(torrents[t].peers)))]
  <2>1. ASSUME NEW t \in Present
        PROVE  reaped(t) \in Entry
    <3>1. torrents[t] \in Entry
      BY PresentType DEF Present
    <3>2. ReapedPeers(torrents[t].peers) \in PeerStore
      BY <3>1, PeersType DEF Entry
    <3>3. /\ Saturating(torrents[t].seeders,
                        -Cardinality(ExpiredSeeders(torrents[t].peers))) \in Nat
          /\ Saturating(torrents[t].leechers,
                        -Cardinality(ExpiredLeechers(torrents[t].peers))) \in Nat
      BY <1>1, <3>1, ReapedCounts DEF Entry
    <3> QED BY <3>1, <3>2, <3>3 DEF Entry
  <2>2. torrents' = [t \in Torrent |-> IF torrents[t] = Absent THEN Absent ELSE reaped(t)]
    BY DEF Reap
  <2> QED BY <2>1, <2>2 DEF Present
<1>3. users' \in [User -> [num_seeding : Nat, num_leeching : Nat]]
  <2>1. ASSUME NEW u \in User
        PROVE  /\ Saturating(users[u].num_seeding, -ExpiredOf(u, AllExpiredSeeders)) \in Nat
               /\ Saturating(users[u].num_leeching, -ExpiredOf(u, AllExpiredLeechers)) \in Nat
    <3>1. users[u].num_seeding \in Nat /\ users[u].num_leeching \in Nat
      BY DEF TypeOK
    <3>2. /\ ExpiredOf(u, AllExpiredSeeders) \in Nat
          /\ ExpiredOf(u, AllExpiredLeechers) \in Nat
      BY ReapedCounts
    <3> QED BY <1>1, <3>1, <3>2
  <2> QED BY <2>1 DEF Reap
<1>4. persisted' \in [Torrent -> [seeders : Int, leechers : Int]]
  <2>1. ASSUME NEW t \in Present
        PROVE  /\ persisted[t].seeders - Cardinality(ExpiredSeeders(torrents[t].peers)) \in Int
               /\ persisted[t].leechers - Cardinality(ExpiredLeechers(torrents[t].peers)) \in Int
    <3>1. persisted[t].seeders \in Int /\ persisted[t].leechers \in Int
      BY DEF TypeOK, Present
    <3>2. /\ Cardinality(ExpiredSeeders(torrents[t].peers)) \in Nat
          /\ Cardinality(ExpiredLeechers(torrents[t].peers)) \in Nat
      BY ReapedCounts
    <3> QED BY <3>1, <3>2
  <2> QED BY <2>1 DEF Reap, TypeOK, Present
<1> QED BY <1>2, <1>3, <1>4 DEF Reap, TypeOK

\* An upsert of the website keeps the types (api/torrent.rs, upsert).
LEMMA UpsertType ==
    ASSUME TypeOK, NEW a \in ApiCall, TakeOut(a) \/ PutIn(a)
    PROVE  TypeOK'
<1>1. CASE TakeOut(a)
  <2>1. PICK t \in Torrent, d \in BOOLEAN, s \in ApiCount, l \in ApiCount :
          /\ api' = [api EXCEPT ![a] =
                [pc |-> "holding", torrent |-> t, is_deleted |-> d, seeders |-> s,
                 leechers |-> l,
                 peers |-> IF torrents[t] = Absent THEN NoPeers ELSE torrents[t].peers]]
          /\ torrents' = [torrents EXCEPT ![t] = Absent]
    BY <1>1 DEF TakeOut
  <2>2. (IF torrents[t] = Absent THEN NoPeers ELSE torrents[t].peers) \in PeerStore
    BY PresentType DEF Entry, NoPeers, PeerStore
  <2>3. s \in Nat /\ l \in Nat
    BY SetAssumption
  <2>4. api' \in [ApiCall -> {Free} \cup Holding]
    BY <2>1, <2>2, <2>3 DEF TypeOK, Holding
  <2>5. torrents' \in [Torrent -> Entry \cup {Absent}]
    BY <2>1 DEF TypeOK
  <2>6. apiCalls' \in 0..MaxApiCalls
    BY <1>1, NumberAssumption DEF TakeOut, TypeOK
  <2> QED BY <1>1, <2>4, <2>5, <2>6 DEF TakeOut, TypeOK
<1>2. CASE PutIn(a)
  <2>1. api[a] \in Holding
    BY <1>2, CallPhases DEF PutIn, Free
  <2>2. torrents' \in [Torrent -> Entry \cup {Absent}]
    BY <1>2, <2>1 DEF PutIn, TypeOK, Holding, Entry
  <2>3. moved' \subseteq Torrent /\ api' \in [ApiCall -> {Free} \cup Holding]
    BY <1>2, <2>1 DEF PutIn, TypeOK, Holding
  <2> QED BY <1>2, <2>2, <2>3 DEF PutIn, TypeOK
<1> QED BY <1>1, <1>2

\* Time keeps the types.
LEMMA TickType ==
    ASSUME TypeOK, Tick
    PROVE  TypeOK'
<1>1. torrents' \in [Torrent -> Entry \cup {Absent}]
  <2>1. ASSUME NEW t \in Torrent, torrents[t] # Absent
        PROVE  [torrents[t] EXCEPT !.peers = OlderPeers(@)] \in Entry
    BY <2>1, PresentType, PeersType DEF Entry
  <2> QED BY <2>1 DEF Tick
<1>2. announce' \in [Handler -> Request]
  <2>1. ASSUME NEW h \in Handler, announce[h] # Idle
        PROVE  [announce[h] EXCEPT !.age = Older(@)] \in Request
    <3>1. announce[h] \in Probing \cup Locking \cup Late
      BY <2>1 DEF TypeOK, Request
    <3>2. Older(announce[h].age) \in Age
      BY <3>1, NumberAssumption DEF Probing, Locking, Late, Age, Oldest, Older
    <3>3. CASE announce[h] \in Probing
      BY <3>2, <3>3 DEF Request, Probing
    <3>4. CASE announce[h] \in Locking
      BY <3>2, <3>4 DEF Request, Locking
    <3>5. CASE announce[h] \in Late
      BY <3>2, <3>5 DEF Request, Late
    <3> QED BY <3>1, <3>3, <3>4, <3>5
  <2>2. Idle \in Request
    BY DEF Request
  <2> QED BY <2>1, <2>2 DEF Tick
<1>3. api' \in [ApiCall -> {Free} \cup Holding]
  <2>1. ASSUME NEW a \in ApiCall, api[a] # Free
        PROVE  [api[a] EXCEPT !.peers = OlderPeers(@)] \in Holding
    BY <2>1, CallPhases, PeersType DEF Holding
  <2> QED BY <2>1 DEF Tick
<1> QED BY <1>1, <1>2, <1>3 DEF Tick, TypeOK

\* Every step keeps the types.
LEMMA TypeStep == TypeOK /\ [Next]_vars => TypeOK'
<1> SUFFICES ASSUME TypeOK, [Next]_vars PROVE TypeOK'
  OBVIOUS
<1>1. CASE \E h \in Handler : Announce(h)
  BY <1>1, AnnounceType
<1>2. CASE ReapStarts
  <2>1. reaper' \in {Idle} \cup Reaping
    BY <1>2 DEF ReapStarts, TypeOK, Reaping
  <2> QED BY <1>2, <2>1 DEF ReapStarts, TypeOK
<1>3. CASE Reap
  BY <1>3, ReapType
<1>4. CASE \E a \in ApiCall : TakeOut(a) \/ PutIn(a)
  BY <1>4, UpsertType
<1>5. CASE \E t \in Torrent : Destroy(t)
  <2>1. PICK t \in Torrent : Destroy(t)
    BY <1>5
  <2>2. [torrents[t] EXCEPT !.is_deleted = TRUE] \in Entry
    BY <2>1, PresentType DEF Destroy, Entry
  <2>3. torrents' \in [Torrent -> Entry \cup {Absent}]
    BY <2>1, <2>2 DEF Destroy, TypeOK
  <2> QED BY <2>1, <2>3 DEF Destroy, TypeOK
<1>6. CASE Reload
  <2>1. require' \in BOOLEAN /\ moved' \subseteq Torrent /\ reloads' \in 0..MaxReloads
    BY <1>6, NumberAssumption DEF Reload, TypeOK
  <2> QED BY <1>6, <2>1 DEF Reload, TypeOK
<1>7. CASE Tick
  BY <1>7, TickType
<1>8. CASE UNCHANGED vars
  BY <1>8 DEF vars, TypeOK
<1> QED BY <1>1, <1>2, <1>3, <1>4, <1>5, <1>6, <1>7, <1>8 DEF Next

\* The swarm, its counters and the requests in flight keep their types, however
\* announces, reaps, API calls and reloads interleave (store/torrent.rs,
\* store/peer.rs, announce.rs).
THEOREM TypeCorrect == Spec => []TypeOK
BY TypeInit, TypeStep, PTL DEF Spec

(***************************************************************************)
(* Counters and peers move together.                                       *)
(***************************************************************************)
\* The counters of t move by what its lists grow, but for saturation.
Together(t) ==
    \E d, e \in Int :
        /\ torrents'[t].seeders = Saturating(torrents[t].seeders, d)
        /\ torrents'[t].leechers = Saturating(torrents[t].leechers, e)
        /\ Cardinality(SeedersIn(torrents'[t].peers, require))
              = Cardinality(SeedersIn(torrents[t].peers, require)) + d
        /\ Cardinality(LeechersIn(torrents'[t].peers, require))
              = Cardinality(LeechersIn(torrents[t].peers, require)) + e

\* The numbers of a present torrent.
LEMMA PresentCounts ==
    ASSUME TypeOK, NEW t \in Present
    PROVE  /\ torrents[t] \in Entry
           /\ torrents[t].seeders \in Nat /\ torrents[t].leechers \in Nat
           /\ torrents[t].peers \in PeerStore
           /\ Cardinality(SeedersIn(torrents[t].peers, require)) \in Nat
           /\ Cardinality(LeechersIn(torrents[t].peers, require)) \in Nat
<1>1. torrents[t] \in Entry
  BY PresentType DEF Present
<1>2. torrents[t].peers \in PeerStore
  BY <1>1 DEF Entry
<1>3. DOMAIN torrents[t].peers = Index
  BY <1>2 DEF PeerStore
<1>4. /\ Cardinality(SeedersIn(torrents[t].peers, require)) \in Nat
      /\ Cardinality(LeechersIn(torrents[t].peers, require)) \in Nat
  BY <1>3, PeersCounted DEF SeedersIn, LeechersIn
<1> QED BY <1>1, <1>2, <1>4 DEF Entry

\* A torrent whose counters and lists stay as they are.
LEMMA StaysTogether ==
    ASSUME TypeOK, NEW t \in Present,
           torrents'[t].seeders = torrents[t].seeders,
           torrents'[t].leechers = torrents[t].leechers,
           SeedersIn(torrents'[t].peers, require) = SeedersIn(torrents[t].peers, require),
           LeechersIn(torrents'[t].peers, require) = LeechersIn(torrents[t].peers, require)
    PROVE  Together(t)
<1>1. /\ torrents[t].seeders = Saturating(torrents[t].seeders, 0)
      /\ torrents[t].leechers = Saturating(torrents[t].leechers, 0)
      /\ Cardinality(SeedersIn(torrents[t].peers, require))
            = Cardinality(SeedersIn(torrents[t].peers, require)) + 0
      /\ Cardinality(LeechersIn(torrents[t].peers, require))
            = Cardinality(LeechersIn(torrents[t].peers, require)) + 0
  BY PresentCounts DEF Saturating
<1> QED BY <1>1 DEF Together

\* A torrent stays in the store when it is reaped (scheduler.rs, reap).
LEMMA ReapKeepsEntries ==
    ASSUME TypeOK, Reap, NEW t \in Present
    PROVE  torrents'[t] \in Entry
<1>1. t \in Torrent /\ torrents[t] # Absent
  BY DEF Present
<1>2. /\ torrents[t] \in Entry /\ ReapedPeers(torrents[t].peers) \in PeerStore
      /\ Cardinality(ExpiredSeeders(torrents[t].peers)) \in Nat
      /\ Cardinality(ExpiredLeechers(torrents[t].peers)) \in Nat
  BY PresentCounts, PeersType, ReapedCounts
<1>3. /\ Saturating(torrents[t].seeders,
                    -Cardinality(ExpiredSeeders(torrents[t].peers))) \in Nat
      /\ Saturating(torrents[t].leechers,
                    -Cardinality(ExpiredLeechers(torrents[t].peers))) \in Nat
  <2>1. \A n, m \in Nat : Saturating(n, -m) \in Nat
    BY SaturatingType
  <2> QED BY <1>2, <2>1 DEF Entry
<1> QED BY <1>1, <1>2, <1>3 DEF Reap, Entry

\* The lock section of an announce by the config of now (announce.rs).
LEMMA ReplacesTogether ==
    ASSUME TypeOK, NEW h \in Handler, NEW new \in Peer \cup {NoPeer}, Locked(h),
           Replace(h, new), announce[h].require = require, NEW t \in Present
    PROVE  Together(t)
<1> DEFINE a == announce[h]
           i == a.index
           old == torrents[t].peers[i]
           d == Delta(InSeedList(new, require), InSeedList(old, require))
           e == Delta(InLeechList(new, require), InLeechList(old, require))
<1>1. a \in Locking /\ t \in Torrent
  BY RequestPhases DEF Locked, Present
<1>2. a.index \in Index /\ a.torrent \in Torrent /\ require \in BOOLEAN
  BY <1>1 DEF Locking, TypeOK
<1>3. CASE a.torrent # t
  <2>1. torrents'[t] = torrents[t]
    BY <1>1, <1>3 DEF Replace, TypeOK
  <2> QED BY <2>1, StaysTogether
<1>4. CASE a.torrent = t
  <2>1. d \in Int /\ e \in Int
    BY DeltaType
  <2>2. torrents' = [torrents EXCEPT ![t].peers[i] = new,
                                     ![t].seeders = Saturating(@, d),
                                     ![t].leechers = Saturating(@, e)]
    BY <1>4 DEF Replace
  <2> HIDE DEF d, e
  <2>3. /\ torrents'[t].seeders = Saturating(torrents[t].seeders, d)
        /\ torrents'[t].leechers = Saturating(torrents[t].leechers, e)
        /\ torrents'[t].peers = [torrents[t].peers EXCEPT ![i] = new]
    BY <1>1, <2>2, PresentCounts DEF TypeOK, Entry
  <2>4. /\ Cardinality(SeedersIn(torrents'[t].peers, require))
              = Cardinality(SeedersIn(torrents[t].peers, require)) + d
        /\ Cardinality(LeechersIn(torrents'[t].peers, require))
              = Cardinality(LeechersIn(torrents[t].peers, require)) + e
    BY <1>2, <2>3, ReplacedPeerCounts, PresentCounts DEF d, e
  <2> QED BY <2>1, <2>3, <2>4 DEF Together
<1> QED BY <1>3, <1>4

\* A reap by the config of now (scheduler.rs, reap).
LEMMA ReapsTogether ==
    ASSUME TypeOK, Reap, reaper.require = require, NEW t \in Present
    PROVE  Together(t)
<1> DEFINE peers == torrents[t].peers
           d == -Cardinality(ExpiredSeeders(peers))
           e == -Cardinality(ExpiredLeechers(peers))
<1>1. t \in Torrent /\ torrents[t] # Absent /\ require \in BOOLEAN
  BY DEF Present, TypeOK
<1>2. torrents'[t] = [torrents[t] EXCEPT !.peers = ReapedPeers(peers),
                                         !.seeders = Saturating(@, d),
                                         !.leechers = Saturating(@, e)]
  BY <1>1 DEF Reap
<1>3. /\ Cardinality(ExpiredSeeders(peers)) \in Nat
      /\ Cardinality(ExpiredLeechers(peers)) \in Nat
  BY ReapedCounts
<1>4. /\ torrents'[t].seeders = Saturating(torrents[t].seeders, d)
      /\ torrents'[t].leechers = Saturating(torrents[t].leechers, e)
      /\ torrents'[t].peers = ReapedPeers(peers)
  BY <1>2, PresentCounts DEF Entry
<1>5. /\ Cardinality(SeedersIn(ReapedPeers(peers), require))
            = Cardinality(SeedersIn(peers, require)) - Cardinality(ExpiredSeeders(peers))
      /\ Cardinality(LeechersIn(ReapedPeers(peers), require))
            = Cardinality(LeechersIn(peers, require)) - Cardinality(ExpiredLeechers(peers))
  BY <1>1, PresentCounts, ReapedPeerCounts
<1>6. d \in Int /\ e \in Int
  BY <1>3
<1>7. /\ Cardinality(SeedersIn(torrents'[t].peers, require))
            = Cardinality(SeedersIn(peers, require)) + d
      /\ Cardinality(LeechersIn(torrents'[t].peers, require))
            = Cardinality(LeechersIn(peers, require)) + e
  BY <1>3, <1>4, <1>5, PresentCounts
<1> QED BY <1>4, <1>6, <1>7 DEF Together

\* Time does not change who is on a list (store/peer.rs,
\* is_included_in_peer_list).
LEMMA OlderPeersListed ==
    ASSUME NEW peers \in PeerStore, NEW req \in BOOLEAN
    PROVE  /\ SeedersIn(OlderPeers(peers), req) = SeedersIn(peers, req)
           /\ LeechersIn(OlderPeers(peers), req) = LeechersIn(peers, req)
<1>1. DOMAIN peers = Index /\ DOMAIN OlderPeers(peers) = Index
  BY DEF PeerStore, OlderPeers
<1>2. ASSUME NEW i \in Index
      PROVE  /\ InSeedList(OlderPeers(peers)[i], req) = InSeedList(peers[i], req)
             /\ InLeechList(OlderPeers(peers)[i], req) = InLeechList(peers[i], req)
  <2>1. peers[i] \in Peer \cup {NoPeer}
    BY DEF PeerStore
  <2>2. CASE peers[i] = NoPeer
    BY <2>2 DEF OlderPeers
  <2>3. CASE peers[i] # NoPeer
    <3>1. OlderPeers(peers)[i] = [peers[i] EXCEPT !.age = Older(@)] /\ peers[i] \in Peer
      BY <2>1, <2>3 DEF OlderPeers
    <3>2. OlderPeers(peers)[i] \in Peer
      BY PeersType, <2>3, <3>1, NumberAssumption DEF Peer, Age, Oldest, Older
    <3>3. /\ OlderPeers(peers)[i].is_seeder = peers[i].is_seeder
          /\ OlderPeers(peers)[i].is_active = peers[i].is_active
          /\ OlderPeers(peers)[i].is_visible = peers[i].is_visible
          /\ OlderPeers(peers)[i].is_connectable = peers[i].is_connectable
      BY <3>1 DEF Peer
    <3> QED BY <2>3, <3>2, <3>3, SentinelAssumption DEF InSeedList, InLeechList, Included
  <2> QED BY <2>1, <2>2, <2>3
<1> QED BY <1>1, <1>2 DEF SeedersIn, LeechersIn

\* Every step of announces and reaps that work by the config of now, and every
\* step that is no business of t's counters, moves them and t's lists together.
LEMMA StepMovesTogether ==
    ASSUME TypeOK, [Next]_vars, ConfigFresh, require' = require,
           NEW t \in Torrent, torrents[t] # Absent, torrents'[t] # Absent,
           t \notin moved' \/ api' = api
    PROVE  Together(t)
<1>1. t \in Present
  BY DEF Present
<1>2. CASE torrents'[t] = torrents[t]
  BY <1>1, <1>2, StaysTogether
<1>3. CASE \E h \in Handler : Announce(h)
  <2>1. PICK h \in Handler : Announce(h)
    BY <1>3
  <2>2. CASE Receive(h) \/ Probed(h) \/ Reject(h) \/ Count(h) \/ Queue(h)
    BY <1>2, <2>2 DEF Receive, Probed, Reject, Refuse, Count, Queue
  <2>3. CASE Stop(h)
    BY <1>1, <2>3, ReplacesTogether DEF Stop, Locked, ConfigFresh
  <2>4. CASE Modify(h)
    <3>1. announce[h] \in Locking
      BY <2>4, RequestPhases DEF Modify, Locked
    <3>2. announce[h].torrent \in Present /\ announce[h].index \in Index
      BY <2>4, <3>1 DEF Modify, Locked, Announceable, Locking, Present
    <3>3. OldPeer(h) \in Peer
      BY <2>4, <3>2, PresentCounts DEF Modify, OldPeer, PeerStore
    <3>4. Updated(announce[h], OldPeer(h)) \in Peer
      BY <3>1, <3>3, AnnouncedPeerType
    <3> QED BY <1>1, <2>4, <3>4, ReplacesTogether DEF Modify, Locked, ConfigFresh
  <2>5. CASE Insert(h)
    <3>1. Inserted(announce[h]) \in Peer
      BY <2>5, RequestPhases, AnnouncedPeerType DEF Insert, Locked
    <3> QED BY <1>1, <2>5, <3>1, ReplacesTogether DEF Insert, Locked, ConfigFresh
  <2> QED BY <2>1, <2>2, <2>3, <2>4, <2>5 DEF Announce
<1>4. CASE ReapStarts \/ Reload
  BY <1>2, <1>4 DEF ReapStarts, Reload
<1>5. CASE Reap
  BY <1>1, <1>5, ReapsTogether DEF Reap, ConfigFresh
<1>6. CASE \E a \in ApiCall : TakeOut(a) \/ PutIn(a)
  <2>1. PICK a \in ApiCall : TakeOut(a) \/ PutIn(a)
    BY <1>6
  <2>2. CASE TakeOut(a)
    BY <1>2, <2>2 DEF TakeOut, TypeOK
  <2>3. CASE PutIn(a)
    <3>1. api' # api
      BY <2>3 DEF PutIn, Free, TypeOK
    <3>2. api[a].torrent # t
      BY <2>3, <3>1 DEF PutIn
    <3> QED BY <1>2, <2>3, <3>2 DEF PutIn, TypeOK
  <2> QED BY <2>1, <2>2, <2>3
<1>7. CASE \E u \in Torrent : Destroy(u)
  <2>1. PICK u \in Torrent : Destroy(u)
    BY <1>7
  <2>2. /\ torrents'[t].peers = torrents[t].peers
        /\ torrents'[t].seeders = torrents[t].seeders
        /\ torrents'[t].leechers = torrents[t].leechers
    BY <1>1, <2>1, PresentCounts DEF Destroy, TypeOK, Entry
  <2> QED BY <1>1, <2>2, StaysTogether
<1>8. CASE Tick
  <2>1. torrents'[t] = [torrents[t] EXCEPT !.peers = OlderPeers(@)]
    BY <1>8 DEF Tick
  <2>2. /\ torrents'[t].peers = OlderPeers(torrents[t].peers)
        /\ torrents'[t].seeders = torrents[t].seeders
        /\ torrents'[t].leechers = torrents[t].leechers
    BY <1>1, <2>1, PresentCounts DEF Entry
  <2>3. /\ SeedersIn(torrents'[t].peers, require) = SeedersIn(torrents[t].peers, require)
        /\ LeechersIn(torrents'[t].peers, require) = LeechersIn(torrents[t].peers, require)
    BY <1>1, <2>2, OlderPeersListed, PresentCounts DEF TypeOK
  <2> QED BY <1>1, <2>2, <2>3, StaysTogether
<1>9. CASE UNCHANGED vars
  BY <1>2, <1>9 DEF vars
<1> QED BY <1>3, <1>4, <1>5, <1>6, <1>7, <1>8, <1>9 DEF Next

\* Once a torrent's counters are off, no announce and no reap that works by the
\* config of now takes them further off (announce.rs, scheduler.rs).
THEOREM CountersOnlyImprove == Spec => DriftNeverGrows
<1>1. ASSUME TypeOK, TypeOK', [Next]_vars, ConfigFresh, require' = require,
             NEW t \in Present \cap Present', api' = api
      PROVE  /\ Abs(SeederDrift(t)') <= Abs(SeederDrift(t))
             /\ Abs(LeecherDrift(t)') <= Abs(LeecherDrift(t))
  <2>1. Together(t)
    BY <1>1, StepMovesTogether DEF Present
  <2>2. PICK d, e \in Int :
          /\ torrents'[t].seeders = Saturating(torrents[t].seeders, d)
          /\ torrents'[t].leechers = Saturating(torrents[t].leechers, e)
          /\ Cardinality(SeedersIn(torrents'[t].peers, require))
                = Cardinality(SeedersIn(torrents[t].peers, require)) + d
          /\ Cardinality(LeechersIn(torrents'[t].peers, require))
                = Cardinality(LeechersIn(torrents[t].peers, require)) + e
    BY <2>1 DEF Together
  <2>3. /\ torrents[t].seeders \in Nat /\ torrents[t].leechers \in Nat
        /\ Cardinality(SeedersIn(torrents[t].peers, require)) \in Nat
        /\ Cardinality(LeechersIn(torrents[t].peers, require)) \in Nat
    BY <1>1, PresentCounts
  <2>4. /\ Cardinality(SeedersIn(torrents'[t].peers, require)) \in Nat
        /\ Cardinality(LeechersIn(torrents'[t].peers, require)) \in Nat
    <3>1. torrents'[t] \in Entry
      BY <1>1 DEF TypeOK, Present
    <3>2. DOMAIN torrents'[t].peers = Index
      BY <3>1 DEF Entry, PeerStore
    <3> QED BY <3>2, PeersCounted DEF SeedersIn, LeechersIn
  <2>5. ASSUME NEW s \in Nat, NEW c \in Nat, NEW f \in Int, c + f \in Nat
        PROVE  Abs(Saturating(s, f) - (c + f)) <= Abs(s - c)
    BY <2>5 DEF Abs, Saturating
  <2>6. /\ Abs(torrents'[t].seeders - Cardinality(SeedersIn(torrents'[t].peers, require)))
              <= Abs(torrents[t].seeders - Cardinality(SeedersIn(torrents[t].peers, require)))
        /\ Abs(torrents'[t].leechers - Cardinality(LeechersIn(torrents'[t].peers, require)))
              <= Abs(torrents[t].leechers - Cardinality(LeechersIn(torrents[t].peers, require)))
    BY <2>2, <2>3, <2>4, <2>5
  <2> QED BY <1>1, <2>6 DEF SeederDrift, LeecherDrift
<1>2. TypeOK /\ TypeOK' /\ [Next]_vars =>
        [ ConfigFresh /\ require' = require =>
            \A t \in Present \cap Present' : api' = api =>
                /\ Abs(SeederDrift(t)') <= Abs(SeederDrift(t))
                /\ Abs(LeecherDrift(t)') <= Abs(LeecherDrift(t)) ]_vars
  BY <1>1
<1> QED BY <1>2, TypeCorrect, PTL DEF Spec, DriftNeverGrows

(***************************************************************************)
(* The counters are exact.                                                 *)
(***************************************************************************)
\* As long as some torrent's counters were never moved, there was no reload,
\* and everyone works by the config of now.
FreshUntilMoved == moved # Torrent => ConfigFresh

CountersInvariant == TypeOK /\ FreshUntilMoved /\ CountersExact

\* Initially all lists are empty and nobody holds a config.
LEMMA CountersInit == Init => CountersInvariant
<1> SUFFICES ASSUME Init PROVE CountersInvariant
  OBVIOUS
<1>1. TypeOK
  BY TypeInit
<1>2. FreshUntilMoved
  BY DEF Init, FreshUntilMoved, ConfigFresh, Idle
<1>3. ASSUME NEW t \in Torrent
      PROVE  SeederDrift(t) = 0 /\ LeecherDrift(t) = 0
  <2>1. /\ torrents[t].seeders = 0 /\ torrents[t].leechers = 0 /\ torrents[t].peers = NoPeers
    BY DEF Init
  <2>2. SeedersIn(NoPeers, require) = {} /\ LeechersIn(NoPeers, require) = {}
    BY DEF SeedersIn, LeechersIn, InSeedList, InLeechList, Included, NoPeers
  <2> QED BY <2>1, <2>2, FS_EmptySet DEF SeederDrift, LeecherDrift
<1> QED BY <1>1, <1>2, <1>3 DEF CountersInvariant, CountersExact, Present

\* Only a reload hands anybody a config other than the one of now.
LEMMA FreshKept ==
    ASSUME TypeOK, ConfigFresh, [Next]_vars, ~Reload
    PROVE  require' = require /\ ConfigFresh'
<1>1. require' = require
  BY DEF Next, vars, Announce, Receive, Probed, Reject, Refuse, Stop, Modify, Insert, Replace,
              Count, Queue, ReapStarts, Reap, TakeOut, PutIn, Destroy, Tick
<1>2. ASSUME NEW h \in Handler, announce'[h].pc = "locking"
      PROVE  announce'[h].require = require
  <2>1. CASE announce'[h] = announce[h]
    BY <1>2, <2>1 DEF ConfigFresh
  <2>2. CASE \E g \in Handler : Announce(g)
    <3>1. PICK g \in Handler : Announce(g)
      BY <2>2
    <3>2. CASE g # h
      BY <2>1, <3>1, <3>2 DEF Announce, Receive, Probed, Reject, Refuse, Stop, Modify, Insert,
                              Replace, Count, Queue, TypeOK
    <3>3. CASE g = h
      <4>2. CASE Probed(h)
        BY <4>2 DEF Probed, TypeOK
      <4>3. CASE Receive(h)
        BY <1>2, <4>3 DEF Receive, TypeOK
      <4>4. CASE Reject(h)
        BY <1>2, <4>4 DEF Reject, Refuse, TypeOK, Idle
      <4>5. CASE Stop(h) \/ Modify(h) \/ Insert(h)
        <5>1. PICK new : Replace(h, new)
          BY <4>5 DEF Stop, Modify, Insert
        <5>2. announce'[h].pc = "counting"
          BY <5>1 DEF Replace, TypeOK
        <5> QED BY <1>2, <5>2
      <4>6. CASE Count(h)
        <5>1. announce[h] \in Late
          BY <4>6, RequestPhases DEF Count
        <5>2. announce'[h].pc = "queueing"
          BY <4>6, <5>1 DEF Count, TypeOK, Late
        <5> QED BY <1>2, <5>2
      <4>7. CASE Queue(h)
        BY <1>2, <4>7 DEF Queue, TypeOK, Idle
      <4> QED BY <3>1, <3>3, <4>2, <4>3, <4>4, <4>5, <4>6, <4>7 DEF Announce
    <3> QED BY <3>2, <3>3
  <2>3. CASE Tick
    <3>1. announce[h] # Idle => announce'[h] = [announce[h] EXCEPT !.age = Older(@)]
      BY <2>3 DEF Tick
    <3>2. announce[h] # Idle
      BY <1>2, <2>3 DEF Tick, Idle
    <3>3. announce'[h].pc = announce[h].pc
      BY <3>1, <3>2 DEF TypeOK, Request, Probing, Locking, Late
    <3>4. announce[h] \in Locking
      BY <1>2, <3>3, RequestPhases
    <3>5. announce'[h].require = announce[h].require
      BY <3>1, <3>2, <3>4 DEF Locking
    <3> QED BY <1>2, <3>3, <3>5 DEF ConfigFresh
  <2> QED BY <2>1, <2>2, <2>3 DEF Next, vars, ReapStarts, Reap, TakeOut, PutIn, Destroy
<1>3. reaper' # Idle => reaper'.require = require
  <2>1. CASE ReapStarts
    BY <2>1 DEF ReapStarts
  <2>2. CASE ~ReapStarts
    <3>1. reaper' \in {reaper, Idle}
      BY <2>2 DEF Next, vars, Announce, Receive, Probed, Reject, Refuse, Stop, Modify,
                        Insert, Replace, Count, Queue, Reap, TakeOut, PutIn, Destroy, Tick
    <3> QED BY <3>1 DEF ConfigFresh
  <2> QED BY <2>1, <2>2
<1> QED BY <1>1, <1>2, <1>3 DEF ConfigFresh

\* A step that leaves some torrent unmoved was no reload, and hands nobody a
\* config other than the one of now.
LEMMA FreshStep ==
    ASSUME TypeOK, FreshUntilMoved, [Next]_vars, moved' # Torrent
    PROVE  ConfigFresh /\ require' = require /\ ConfigFresh'
<1>1. ~Reload
  BY DEF Reload
<1>2. moved # Torrent
  <2>1. moved \subseteq moved'
    BY DEF Next, vars, Announce, Receive, Probed, Reject, Refuse, Stop, Modify, Insert, Replace,
           Count, Queue, ReapStarts, Reap, TakeOut, PutIn, Destroy, Reload, Tick, TypeOK
  <2> QED BY <2>1, TypeStep DEF TypeOK
<1>3. ConfigFresh
  BY <1>2 DEF FreshUntilMoved
<1> QED BY <1>1, <1>3, FreshKept

\* A torrent that is new in the store was put there by the website.
LEMMA OnlyPutInAppears ==
    ASSUME TypeOK, [Next]_vars, NEW t \in Torrent, torrents[t] = Absent, torrents'[t] # Absent
    PROVE  t \in moved'
<1>1. CASE \E h \in Handler : Announce(h)
  <2>1. PICK h \in Handler : Announce(h)
    BY <1>1
  <2>2. Stop(h) \/ Modify(h) \/ Insert(h)
    BY <2>1 DEF Announce, Receive, Probed, Reject, Refuse, Count, Queue
  <2>3. announce[h].torrent # t
    BY <2>2 DEF Stop, Modify, Insert, Locked, Announceable
  <2>4. torrents'[t] = torrents[t]
    BY <2>2, <2>3 DEF Stop, Modify, Insert, Replace, TypeOK
  <2> QED BY <2>4
<1>2. CASE \E a \in ApiCall : TakeOut(a) \/ PutIn(a)
  BY <1>2 DEF TakeOut, PutIn, TypeOK
<1>3. CASE \E u \in Torrent : Destroy(u)
  BY <1>3 DEF Destroy, TypeOK
<1>4. CASE Reap \/ Tick
  BY <1>4 DEF Reap, Tick
<1>5. CASE ReapStarts \/ Reload \/ UNCHANGED vars
  BY <1>5 DEF ReapStarts, Reload, vars
<1> QED BY <1>1, <1>2, <1>3, <1>4, <1>5 DEF Next

\* Every step keeps the counters exact.
LEMMA CountersStep == CountersInvariant /\ [Next]_vars => CountersInvariant'
<1> SUFFICES ASSUME CountersInvariant, [Next]_vars PROVE CountersInvariant'
  OBVIOUS
<1>1. TypeOK /\ TypeOK' /\ FreshUntilMoved /\ CountersExact
  BY TypeStep DEF CountersInvariant
<1>2. FreshUntilMoved'
  BY <1>1, FreshStep DEF FreshUntilMoved
<1>3. ASSUME NEW t \in Torrent, torrents'[t] # Absent, t \notin moved'
      PROVE  SeederDrift(t)' = 0 /\ LeecherDrift(t)' = 0
  <2>1. ConfigFresh /\ require' = require
    BY <1>1, <1>3, FreshStep
  <2>2. torrents[t] # Absent
    BY <1>1, <1>3, OnlyPutInAppears
  <2>3. t \notin moved
    BY <1>3 DEF Next, vars, Announce, Receive, Probed, Reject, Refuse, Stop, Modify, Insert,
                Replace, Count, Queue, ReapStarts, Reap, TakeOut, PutIn, Destroy, Reload, Tick
  <2>4. SeederDrift(t) = 0 /\ LeecherDrift(t) = 0
    BY <1>1, <2>2, <2>3 DEF CountersExact, Present
  <2>5. PICK d, e \in Int :
          /\ torrents'[t].seeders = Saturating(torrents[t].seeders, d)
          /\ torrents'[t].leechers = Saturating(torrents[t].leechers, e)
          /\ Cardinality(SeedersIn(torrents'[t].peers, require))
                = Cardinality(SeedersIn(torrents[t].peers, require)) + d
          /\ Cardinality(LeechersIn(torrents'[t].peers, require))
                = Cardinality(LeechersIn(torrents[t].peers, require)) + e
    BY <1>1, <1>3, <2>1, <2>2, StepMovesTogether DEF Together
  <2>6. /\ torrents[t].seeders \in Nat /\ torrents[t].leechers \in Nat
        /\ Cardinality(SeedersIn(torrents[t].peers, require)) \in Nat
        /\ Cardinality(LeechersIn(torrents[t].peers, require)) \in Nat
    BY <1>1, <2>2, PresentCounts DEF Present
  <2>7. /\ Cardinality(SeedersIn(torrents'[t].peers, require)) \in Nat
        /\ Cardinality(LeechersIn(torrents'[t].peers, require)) \in Nat
    <3>1. torrents'[t] \in Entry
      BY <1>1, <1>3 DEF TypeOK
    <3>2. DOMAIN torrents'[t].peers = Index
      BY <3>1 DEF Entry, PeerStore
    <3> QED BY <3>2, PeersCounted DEF SeedersIn, LeechersIn
  <2>8. /\ torrents'[t].seeders = Cardinality(SeedersIn(torrents'[t].peers, require))
        /\ torrents'[t].leechers = Cardinality(LeechersIn(torrents'[t].peers, require))
    BY <2>4, <2>5, <2>6, <2>7 DEF SeederDrift, LeecherDrift, Saturating
  <2> QED BY <2>1, <2>6, <2>7, <2>8 DEF SeederDrift, LeecherDrift
<1>4. CountersExact'
  BY <1>3 DEF CountersExact, Present
<1> QED BY <1>1, <1>2, <1>4 DEF CountersInvariant

\* Whatever announces, reaps and API calls interleave, the counters of a
\* torrent are the numbers of peers on its lists, unless the website or a
\* config reload moved them (announce.rs, scheduler.rs).
THEOREM CountersAreExact == Spec => []CountersExact
<1>1. CountersInvariant => CountersExact
  BY DEF CountersInvariant
<1> QED BY <1>1, CountersInit, CountersStep, PTL DEF Spec

(***************************************************************************)
(* The deltas of the requests in flight.                                   *)
(***************************************************************************)
\* The fields of a late request that hold a delta.
DeltaName == {"seeder_delta", "leecher_delta"}

DeltasTyped ==
    \A d \in DeltaName :
        /\ \A u \in User : Owed(u, d) \in [Handler -> Int]
        /\ \A t \in Torrent : InFlight(t, d) \in [Handler -> Int]

\* Deltas are integers (announce.rs, seeder_delta and leecher_delta).
LEMMA DeltasTypes == TypeOK => DeltasTyped
<1> SUFFICES ASSUME TypeOK PROVE DeltasTyped
  OBVIOUS
<1>1. ASSUME NEW h \in Handler, announce[h].pc \in {"counting", "queueing"}, NEW d \in DeltaName
      PROVE  announce[h][d] \in Int
  <2>1. announce[h] \in Late
    BY <1>1, RequestPhases
  <2>2. announce[h].seeder_delta \in Int /\ announce[h].leecher_delta \in Int
    BY <2>1 DEF Late
  <2> QED BY <1>1, <2>2 DEF DeltaName
<1> QED BY <1>1 DEF DeltasTyped, Owed, InFlight

\* The requests that a step of h does not touch owe what they owed.
LEMMA OthersKept ==
    ASSUME TypeOK, NEW h \in Handler, Announce(h), NEW k \in Handler, k # h
    PROVE  announce'[k] = announce[k]
BY DEF Announce, Receive, Probed, Reject, Refuse, Stop, Modify, Insert, Replace, Count, Queue,
       TypeOK

\* A step of a request changes its own terms only (announce.rs, announce).
LEMMA DeltasChange ==
    ASSUME TypeOK, TypeOK', NEW h \in Handler, Announce(h), NEW d \in DeltaName
    PROVE  /\ \A u \in User :
                SumFunction(Owed(u, d)')
                    = SumFunction(Owed(u, d)) + Owed(u, d)'[h] - Owed(u, d)[h]
           /\ \A t \in Torrent :
                SumFunction(InFlight(t, d)')
                    = SumFunction(InFlight(t, d)) + InFlight(t, d)'[h] - InFlight(t, d)[h]
<1>1. DeltasTyped /\ DeltasTyped'
  BY DeltasTypes, PTL
<1>2. ASSUME NEW k \in Handler \ {h} PROVE announce'[k] = announce[k]
  BY OthersKept
<1>3. IsFiniteSet(Handler)
  BY SetAssumption
<1>4. ASSUME NEW u \in User
      PROVE  SumFunction(Owed(u, d)') = SumFunction(Owed(u, d)) + Owed(u, d)'[h] - Owed(u, d)[h]
  <2>1. \A k \in Handler \ {h} : Owed(u, d)'[k] = Owed(u, d)[k]
    BY <1>2 DEF Owed
  <2>2. Owed(u, d) \in [Handler -> Int] /\ Owed(u, d)' \in [Handler -> Int]
    BY <1>1 DEF DeltasTyped
  <2> QED BY <1>3, <2>1, <2>2, TotalOfChanged
<1>5. ASSUME NEW t \in Torrent
      PROVE  SumFunction(InFlight(t, d)')
                = SumFunction(InFlight(t, d)) + InFlight(t, d)'[h] - InFlight(t, d)[h]
  <2>1. \A k \in Handler \ {h} : InFlight(t, d)'[k] = InFlight(t, d)[k]
    BY <1>2 DEF InFlight
  <2>2. InFlight(t, d) \in [Handler -> Int] /\ InFlight(t, d)' \in [Handler -> Int]
    BY <1>1 DEF DeltasTyped
  <2> QED BY <1>3, <2>1, <2>2, TotalOfChanged
<1> QED BY <1>4, <1>5

\* The sums are integers.
LEMMA DeltaSums ==
    ASSUME TypeOK, NEW d \in DeltaName
    PROVE  /\ \A u \in User, h \in Handler :
                SumFunction(Owed(u, d)) \in Int /\ Owed(u, d)[h] \in Int
           /\ \A t \in Torrent, h \in Handler :
                SumFunction(InFlight(t, d)) \in Int /\ InFlight(t, d)[h] \in Int
BY DeltasTypes, SetAssumption, TotalType DEF DeltasTyped

\* Time passes, and nothing is owed for it.
LEMMA DeltasKept ==
    ASSUME TypeOK, announce' = announce \/ Tick, NEW d \in DeltaName
    PROVE  /\ \A u \in User : Owed(u, d)' = Owed(u, d)
           /\ \A t \in Torrent : InFlight(t, d)' = InFlight(t, d)
<1>1. CASE announce' = announce
  BY <1>1 DEF Owed, InFlight
<1>2. CASE Tick
  <2>1. ASSUME NEW h \in Handler, announce[h].pc \in {"counting", "queueing"}
        PROVE  /\ announce'[h].pc = announce[h].pc
               /\ announce'[h].torrent = announce[h].torrent
               /\ announce'[h].index = announce[h].index
               /\ announce'[h][d] = announce[h][d]
    <3>1. announce[h] \in Late
      BY <2>1, RequestPhases
    <3>2. announce[h] # Idle
      BY <2>1 DEF Idle
    <3>3. announce'[h] = [announce[h] EXCEPT !.age = Older(@)]
      BY <1>2, <3>2 DEF Tick
    <3> QED BY <3>1, <3>3 DEF Late, DeltaName
  <2>2. ASSUME NEW h \in Handler
        PROVE  announce'[h].pc = announce[h].pc
    <3>1. CASE announce[h] = Idle
      BY <1>2, <3>1 DEF Tick
    <3>2. CASE announce[h] # Idle
      <4>1. announce'[h] = [announce[h] EXCEPT !.age = Older(@)]
        BY <1>2, <3>2 DEF Tick
      <4> QED BY <3>2, <4>1 DEF TypeOK, Request, Probing, Locking, Late
    <3> QED BY <3>1, <3>2
  <2> QED BY <2>1, <2>2 DEF Owed, InFlight
<1> QED BY <1>1, <1>2

(***************************************************************************)
(* What is queued follows the counters.                                    *)
(***************************************************************************)
\* The request that has replaced a peer holds the deltas, and the torrent's
\* counters have saturated by them (announce.rs, under the torrents lock).
LEMMA ReplaceHolds ==
    ASSUME TypeOK, NEW h \in Handler, NEW new \in Peer \cup {NoPeer}, Locked(h), Replace(h, new)
    PROVE  LET a == announce[h]
               t == a.torrent
               old == torrents[t].peers[a.index]
               d == Delta(InSeedList(new, a.require), InSeedList(old, a.require))
               e == Delta(InLeechList(new, a.require), InLeechList(old, a.require))
           IN  /\ a \in Locking /\ t \in Present /\ d \in Int /\ e \in Int
               /\ announce'[h] =
                    [pc |-> "counting", torrent |-> t, index |-> a.index, age |-> a.age,
                     seeder_delta |-> d, leecher_delta |-> e]
               /\ torrents'[t].peers = [torrents[t].peers EXCEPT ![a.index] = new]
               /\ torrents'[t].seeders = Saturating(torrents[t].seeders, d)
               /\ torrents'[t].leechers = Saturating(torrents[t].leechers, e)
               /\ torrents'[t] \in Entry
               /\ \A s \in Torrent : s # t => torrents'[s] = torrents[s]
<1> DEFINE a == announce[h]
           t == a.torrent
           old == torrents[t].peers[a.index]
           d == Delta(InSeedList(new, a.require), InSeedList(old, a.require))
           e == Delta(InLeechList(new, a.require), InLeechList(old, a.require))
<1>1. a \in Locking
  BY RequestPhases DEF Locked
<1>2. t \in Torrent /\ torrents[t] # Absent
  BY <1>1 DEF Locking, Locked, Announceable
<1>3. torrents[t] \in Entry
  BY <1>2, PresentType
<1>4. d \in Int /\ e \in Int
  BY DeltaType
<1>5. /\ torrents' = [torrents EXCEPT ![t].peers[a.index] = new,
                                      ![t].seeders = Saturating(@, d),
                                      ![t].leechers = Saturating(@, e)]
      /\ announce' = [announce EXCEPT ![h] =
             [pc |-> "counting", torrent |-> t, index |-> a.index, age |-> a.age,
              seeder_delta |-> d, leecher_delta |-> e]]
  BY DEF Replace
<1> HIDE DEF d, e
<1>6. announce'[h] = [pc |-> "counting", torrent |-> t, index |-> a.index, age |-> a.age,
                      seeder_delta |-> d, leecher_delta |-> e]
  BY <1>5 DEF TypeOK
<1>7. /\ torrents'[t].peers = [torrents[t].peers EXCEPT ![a.index] = new]
      /\ torrents'[t].seeders = Saturating(torrents[t].seeders, d)
      /\ torrents'[t].leechers = Saturating(torrents[t].leechers, e)
  BY <1>2, <1>3, <1>5 DEF TypeOK, Entry
<1>8. \A s \in Torrent : s # t => torrents'[s] = torrents[s]
  BY <1>5 DEF TypeOK
<1>9. torrents'[t] \in Entry
  <2> DEFINE after == [torrents[t] EXCEPT
                         !.peers = [torrents[t].peers EXCEPT ![a.index] = new],
                         !.seeders = Saturating(torrents[t].seeders, d),
                         !.leechers = Saturating(torrents[t].leechers, e)]
  <2>1. /\ Saturating(torrents[t].seeders, d) \in Nat
        /\ Saturating(torrents[t].leechers, e) \in Nat
    BY <1>3, <1>4, SaturatingType DEF Entry
  <2>2. [torrents[t].peers EXCEPT ![a.index] = new] \in PeerStore
    BY <1>1, <1>3 DEF Locking, Entry, PeerStore
  <2>3. after \in Entry
    BY <1>3, <2>1, <2>2 DEF Entry
  <2>4. torrents' = [torrents EXCEPT ![t] = after]
    BY <1>2, <1>3, <1>5 DEF TypeOK, Entry
  <2> QED BY <1>2, <2>3, <2>4 DEF TypeOK
<1> QED BY <1>1, <1>2, <1>4, <1>6, <1>7, <1>8, <1>9 DEF d, e, Present

\* While a torrent's counters are exact they never saturate (announce.rs).
LEMMA ReplaceExact ==
    ASSUME TypeOK, NEW h \in Handler, NEW new \in Peer \cup {NoPeer}, Locked(h), Replace(h, new),
           announce[h].require = require,
           SeederDrift(announce[h].torrent) = 0, LeecherDrift(announce[h].torrent) = 0
    PROVE  LET t == announce[h].torrent
           IN  /\ torrents'[t].seeders = torrents[t].seeders + announce'[h].seeder_delta
               /\ torrents'[t].leechers = torrents[t].leechers + announce'[h].leecher_delta
<1> DEFINE a == announce[h]
           t == a.torrent
           i == a.index
           old == torrents[t].peers[i]
           d == Delta(InSeedList(new, require), InSeedList(old, require))
           e == Delta(InLeechList(new, require), InLeechList(old, require))
           after == [torrents[t].peers EXCEPT ![i] = new]
<1>1. /\ a \in Locking /\ t \in Present /\ d \in Int /\ e \in Int
      /\ announce'[h].seeder_delta = d /\ announce'[h].leecher_delta = e
      /\ torrents'[t].seeders = Saturating(torrents[t].seeders, d)
      /\ torrents'[t].leechers = Saturating(torrents[t].leechers, e)
  <2> DEFINE d0 == Delta(InSeedList(new, a.require), InSeedList(old, a.require))
             e0 == Delta(InLeechList(new, a.require), InLeechList(old, a.require))
  <2>1. /\ a \in Locking /\ t \in Present /\ d0 \in Int /\ e0 \in Int
        /\ announce'[h] = [pc |-> "counting", torrent |-> t, index |-> i, age |-> a.age,
                           seeder_delta |-> d0, leecher_delta |-> e0]
        /\ torrents'[t].seeders = Saturating(torrents[t].seeders, d0)
        /\ torrents'[t].leechers = Saturating(torrents[t].leechers, e0)
    BY ReplaceHolds
  <2>2. d0 = d /\ e0 = e
    OBVIOUS
  <2> HIDE DEF d0, e0, d, e
  <2> QED BY <2>1, <2>2
<1>2. i \in Index /\ require \in BOOLEAN
  BY <1>1 DEF Locking, TypeOK
<1>3. /\ torrents[t].peers \in PeerStore
      /\ torrents[t].seeders \in Nat /\ torrents[t].leechers \in Nat
      /\ Cardinality(SeedersIn(torrents[t].peers, require)) \in Nat
      /\ Cardinality(LeechersIn(torrents[t].peers, require)) \in Nat
  BY <1>1, PresentCounts
<1>4. /\ Cardinality(SeedersIn(after, require))
            = Cardinality(SeedersIn(torrents[t].peers, require)) + d
      /\ Cardinality(LeechersIn(after, require))
            = Cardinality(LeechersIn(torrents[t].peers, require)) + e
  BY <1>2, <1>3, ReplacedPeerCounts
<1>5. /\ Cardinality(SeedersIn(after, require)) \in Nat
      /\ Cardinality(LeechersIn(after, require)) \in Nat
  <2>1. DOMAIN after = Index
    BY <1>3 DEF PeerStore
  <2> HIDE DEF after
  <2> QED BY <2>1, PeersCounted DEF SeedersIn, LeechersIn
<1> HIDE DEF d, e, after
<1> QED BY <1>1, <1>3, <1>4, <1>5 DEF SeederDrift, LeecherDrift, Saturating

\* A reap by the config of now takes off the counters what it takes off the
\* lists (scheduler.rs, reap).
LEMMA ReapExact ==
    ASSUME TypeOK, Reap, reaper.require = require, NEW t \in Present,
           SeederDrift(t) = 0, LeecherDrift(t) = 0
    PROVE  /\ torrents'[t].seeders - persisted'[t].seeders
                = torrents[t].seeders - persisted[t].seeders
           /\ torrents'[t].leechers - persisted'[t].leechers
                = torrents[t].leechers - persisted[t].leechers
<1> DEFINE peers == torrents[t].peers
           d == Cardinality(ExpiredSeeders(peers))
           e == Cardinality(ExpiredLeechers(peers))
<1>1. t \in Torrent /\ torrents[t] # Absent /\ require \in BOOLEAN
  BY DEF Present, TypeOK
<1>2. torrents'[t] = [torrents[t] EXCEPT !.peers = ReapedPeers(peers),
                                         !.seeders = Saturating(@, -d),
                                         !.leechers = Saturating(@, -e)]
  BY <1>1 DEF Reap
<1>3. persisted'[t] = [seeders |-> persisted[t].seeders - d,
                       leechers |-> persisted[t].leechers - e]
  BY <1>1 DEF Reap
<1>4. d \in Nat /\ e \in Nat
  BY ReapedCounts
<1> HIDE DEF d, e
<1>5. /\ torrents'[t].seeders = Saturating(torrents[t].seeders, -d)
      /\ torrents'[t].leechers = Saturating(torrents[t].leechers, -e)
  BY <1>2, PresentCounts DEF Entry
<1>6. /\ Cardinality(SeedersIn(ReapedPeers(peers), require))
            = Cardinality(SeedersIn(peers, require)) - d
      /\ Cardinality(LeechersIn(ReapedPeers(peers), require))
            = Cardinality(LeechersIn(peers, require)) - e
  BY <1>1, PresentCounts, ReapedPeerCounts DEF d, e
<1>7. /\ Cardinality(SeedersIn(ReapedPeers(peers), require)) \in Nat
      /\ Cardinality(LeechersIn(ReapedPeers(peers), require)) \in Nat
  <2>1. DOMAIN ReapedPeers(peers) = Index
    BY DEF ReapedPeers
  <2> QED BY <2>1, PeersCounted DEF SeedersIn, LeechersIn
<1>8. /\ torrents[t].seeders \in Nat /\ torrents[t].leechers \in Nat
      /\ Cardinality(SeedersIn(peers, require)) \in Nat
      /\ Cardinality(LeechersIn(peers, require)) \in Nat
  BY PresentCounts
<1>9. /\ torrents'[t].seeders = torrents[t].seeders - d
      /\ torrents'[t].leechers = torrents[t].leechers - e
  BY <1>4, <1>5, <1>6, <1>7, <1>8 DEF SeederDrift, LeecherDrift, Saturating
<1>10. persisted[t].seeders \in Int /\ persisted[t].leechers \in Int
  BY <1>1 DEF TypeOK
<1>11. /\ persisted'[t].seeders = persisted[t].seeders - d
       /\ persisted'[t].leechers = persisted[t].leechers - e
  BY <1>3
<1> QED BY <1>4, <1>8, <1>9, <1>10, <1>11

\* What the lock section leaves in the place of a peer is a peer, or none
\* (announce.rs, the match on the event).
LEMMA ReplacedByPeer ==
    ASSUME TypeOK, NEW h \in Handler, Stop(h) \/ Modify(h) \/ Insert(h)
    PROVE  Locked(h) /\ \E new \in Peer \cup {NoPeer} : Replace(h, new)
<1>1. CASE Stop(h)
  BY <1>1 DEF Stop
<1>2. CASE Modify(h)
  <2>1. announce[h] \in Locking
    BY <1>2, RequestPhases DEF Modify, Locked
  <2>2. announce[h].torrent \in Present /\ announce[h].index \in Index
    BY <1>2, <2>1 DEF Modify, Locked, Announceable, Locking, Present
  <2>3. OldPeer(h) \in Peer
    BY <1>2, <2>2, PresentCounts DEF Modify, OldPeer, PeerStore
  <2> QED BY <1>2, <2>1, <2>3, AnnouncedPeerType DEF Modify
<1>3. CASE Insert(h)
  <2>1. Inserted(announce[h]) \in Peer
    BY <1>3, RequestPhases, AnnouncedPeerType DEF Insert, Locked
  <2> QED BY <1>3, <2>1 DEF Insert
<1> QED BY <1>1, <1>2, <1>3

\* A step of a request changes a torrent's counters, what is queued of them and
\* what the request still has to queue by the same (announce.rs).
LEMMA AnnounceQueues ==
    ASSUME TypeOK, ConfigFresh, NEW h \in Handler, Announce(h), NEW t \in Present,
           SeederDrift(t) = 0, LeecherDrift(t) = 0
    PROVE  /\ torrents'[t].seeders - persisted'[t].seeders - InFlight(t, "seeder_delta")'[h]
                = torrents[t].seeders - persisted[t].seeders - InFlight(t, "seeder_delta")[h]
           /\ torrents'[t].leechers - persisted'[t].leechers - InFlight(t, "leecher_delta")'[h]
                = torrents[t].leechers - persisted[t].leechers - InFlight(t, "leecher_delta")[h]
<1> DEFINE a == announce[h]
<1>1. /\ t \in Torrent /\ torrents[t].seeders \in Nat /\ torrents[t].leechers \in Nat
      /\ persisted[t].seeders \in Int /\ persisted[t].leechers \in Int
  BY PresentCounts DEF Present, TypeOK
<1>2. CASE Receive(h) \/ Probed(h) \/ Reject(h)
  <2>1. UNCHANGED <<torrents, persisted>>
    BY <1>2 DEF Receive, Probed, Reject, Refuse
  <2>2. announce[h].pc \notin {"counting", "queueing"}
    BY <1>2 DEF Receive, Probed, Reject, Idle
  <2>3. announce'[h].pc \notin {"counting", "queueing"}
    BY <1>2 DEF Receive, Probed, Reject, Refuse, Idle, TypeOK
  <2> QED BY <2>1, <2>2, <2>3 DEF InFlight
<1>3. ASSUME NEW new \in Peer \cup {NoPeer}, Locked(h), Replace(h, new)
      PROVE  /\ torrents'[t].seeders - persisted'[t].seeders - InFlight(t, "seeder_delta")'[h]
                  = torrents[t].seeders - persisted[t].seeders - InFlight(t, "seeder_delta")[h]
             /\ torrents'[t].leechers - persisted'[t].leechers
                      - InFlight(t, "leecher_delta")'[h]
                  = torrents[t].leechers - persisted[t].leechers
                      - InFlight(t, "leecher_delta")[h]
  <2>1. /\ announce'[h].pc = "counting" /\ announce'[h].torrent = a.torrent
        /\ announce'[h].seeder_delta \in Int /\ announce'[h].leecher_delta \in Int
        /\ a.torrent # t => torrents'[t] = torrents[t]
    <3> DEFINE old == torrents[a.torrent].peers[a.index]
               d0 == Delta(InSeedList(new, a.require), InSeedList(old, a.require))
               e0 == Delta(InLeechList(new, a.require), InLeechList(old, a.require))
    <3>1. /\ d0 \in Int /\ e0 \in Int
          /\ announce'[h] = [pc |-> "counting", torrent |-> a.torrent, index |-> a.index,
                             age |-> a.age, seeder_delta |-> d0, leecher_delta |-> e0]
          /\ \A s \in Torrent : s # a.torrent => torrents'[s] = torrents[s]
      BY <1>3, ReplaceHolds
    <3> HIDE DEF d0, e0
    <3> QED BY <1>1, <3>1
  <2>2. persisted' = persisted /\ a.pc = "locking" /\ a.require = require
    BY <1>3 DEF Replace, Locked, ConfigFresh
  <2>3. /\ InFlight(t, "seeder_delta")[h] = 0 /\ InFlight(t, "leecher_delta")[h] = 0
        /\ InFlight(t, "seeder_delta")'[h]
              = IF a.torrent = t THEN announce'[h].seeder_delta ELSE 0
        /\ InFlight(t, "leecher_delta")'[h]
              = IF a.torrent = t THEN announce'[h].leecher_delta ELSE 0
    BY <2>1, <2>2 DEF InFlight
  <2>4. /\ torrents'[t].seeders = torrents[t].seeders + InFlight(t, "seeder_delta")'[h]
        /\ torrents'[t].leechers = torrents[t].leechers + InFlight(t, "leecher_delta")'[h]
        /\ InFlight(t, "seeder_delta")'[h] \in Int /\ InFlight(t, "leecher_delta")'[h] \in Int
    BY <1>1, <1>3, <2>1, <2>2, <2>3, ReplaceExact
  <2> QED BY <1>1, <2>2, <2>3, <2>4
<1>4. CASE Stop(h) \/ Modify(h) \/ Insert(h)
  BY <1>3, <1>4, ReplacedByPeer
<1>5. CASE Count(h)
  <2>1. announce[h] \in Late /\ announce[h].pc = "counting"
    BY <1>5, RequestPhases DEF Count
  <2>2. announce'[h] = [announce[h] EXCEPT !.pc = "queueing"]
    BY <1>5 DEF Count, TypeOK
  <2>3. /\ announce'[h].pc = "queueing" /\ announce'[h].torrent = a.torrent
        /\ announce'[h].seeder_delta = a.seeder_delta
        /\ announce'[h].leecher_delta = a.leecher_delta
    BY <2>1, <2>2 DEF Late
  <2>4. UNCHANGED <<torrents, persisted>>
    BY <1>5 DEF Count
  <2> QED BY <2>1, <2>3, <2>4 DEF InFlight
<1>6. CASE Queue(h)
  <2>1. a \in Late /\ a.pc = "queueing"
    BY <1>6, RequestPhases DEF Queue
  <2>2. a.torrent \in Torrent /\ a.seeder_delta \in Int /\ a.leecher_delta \in Int
    BY <2>1 DEF Late
  <2>3. /\ InFlight(t, "seeder_delta")[h] = IF a.torrent = t THEN a.seeder_delta ELSE 0
        /\ InFlight(t, "leecher_delta")[h] = IF a.torrent = t THEN a.leecher_delta ELSE 0
    BY <2>1 DEF InFlight
  <2>4. /\ InFlight(t, "seeder_delta")'[h] = 0 /\ InFlight(t, "leecher_delta")'[h] = 0
    <3>1. announce'[h] = Idle
      BY <1>6 DEF Queue, TypeOK
    <3> QED BY <3>1 DEF InFlight, Idle
  <2>5. /\ persisted'[t].seeders
              = persisted[t].seeders + (IF a.torrent = t THEN a.seeder_delta ELSE 0)
        /\ persisted'[t].leechers
              = persisted[t].leechers + (IF a.torrent = t THEN a.leecher_delta ELSE 0)
    BY <1>1, <1>6, <2>2 DEF Queue, TypeOK
  <2>6. torrents' = torrents
    BY <1>6 DEF Queue
  <2> QED BY <1>1, <2>2, <2>3, <2>4, <2>5, <2>6
<1> QED BY <1>2, <1>4, <1>5, <1>6 DEF Announce

\* Every other step changes what is queued of a torrent's counters with the
\* counters (scheduler.rs, reap; api/torrent.rs).
LEMMA OthersQueue ==
    ASSUME TypeOK, ConfigFresh, [Next]_vars, ~(\E h \in Handler : Announce(h)),
           NEW t \in Present, torrents'[t] # Absent, t \notin moved',
           SeederDrift(t) = 0, LeecherDrift(t) = 0
    PROVE  /\ announce' = announce \/ Tick
           /\ torrents'[t].seeders - persisted'[t].seeders
                = torrents[t].seeders - persisted[t].seeders
           /\ torrents'[t].leechers - persisted'[t].leechers
                = torrents[t].leechers - persisted[t].leechers
<1>1. t \in Torrent /\ torrents[t] \in Entry
  BY PresentCounts DEF Present
<1>2. CASE ReapStarts \/ Reload \/ UNCHANGED vars
  BY <1>2 DEF ReapStarts, Reload, vars
<1>3. CASE Reap
  <2>1. announce' = announce
    BY <1>3 DEF Reap
  <2>2. reaper.require = require
    BY <1>3 DEF Reap, ConfigFresh
  <2> QED BY <1>3, <2>1, <2>2, ReapExact
<1>4. CASE \E a \in ApiCall : TakeOut(a) \/ PutIn(a)
  <2>1. PICK a \in ApiCall : TakeOut(a) \/ PutIn(a)
    BY <1>4
  <2>2. UNCHANGED <<announce, persisted>>
    BY <2>1 DEF TakeOut, PutIn
  <2>3. torrents'[t] = torrents[t]
    <3>1. CASE TakeOut(a)
      BY <1>1, <3>1 DEF TakeOut, TypeOK
    <3>2. CASE PutIn(a)
      BY <1>1, <3>2 DEF PutIn, TypeOK
    <3> QED BY <2>1, <3>1, <3>2
  <2> QED BY <2>2, <2>3
<1>5. CASE \E u \in Torrent : Destroy(u)
  <2>1. PICK u \in Torrent : Destroy(u)
    BY <1>5
  <2>2. torrents'[t].seeders = torrents[t].seeders /\ torrents'[t].leechers = torrents[t].leechers
    BY <1>1, <2>1 DEF Destroy, TypeOK, Entry
  <2> QED BY <2>1, <2>2 DEF Destroy
<1>6. CASE Tick
  <2>1. torrents'[t] = [torrents[t] EXCEPT !.peers = OlderPeers(@)]
    BY <1>1, <1>6 DEF Tick
  <2>2. torrents'[t].seeders = torrents[t].seeders /\ torrents'[t].leechers = torrents[t].leechers
    BY <1>1, <2>1 DEF Entry
  <2> QED BY <1>6, <2>2 DEF Tick
<1> QED BY <1>2, <1>3, <1>4, <1>5, <1>6 DEF Next

\* Memory as it is when nobody has announced yet, and nothing was loaded.
Empty ==
    /\ torrents = [t \in Torrent |->
          [is_deleted |-> FALSE, seeders |-> 0, leechers |-> 0, peers |-> NoPeers]]
    /\ users = [u \in User |-> [num_seeding |-> 0, num_leeching |-> 0]]
    /\ reaper = Idle
    /\ announce = [h \in Handler |-> Idle]
    /\ api = [a \in ApiCall |-> Free]
    /\ persisted = [t \in Torrent |-> [seeders |-> 0, leechers |-> 0]]

\* With no request in flight there are no deltas under way (announce.rs).
LEMMA IdleOwesNothing ==
    ASSUME TypeOK, announce = [h \in Handler |-> Idle], NEW d \in DeltaName
    PROVE  /\ \A t \in Torrent : SumFunction(InFlight(t, d)) = 0
           /\ \A u \in User : SumFunction(Owed(u, d)) = 0
<1>1. ASSUME NEW f \in [Handler -> Int], \A h \in Handler : f[h] = 0
      PROVE  SumFunction(f) = 0
  BY <1>1, SetAssumption, TotalOfZeros
<1>2. ASSUME NEW h \in Handler
      PROVE  /\ \A t \in Torrent : InFlight(t, d)[h] = 0
             /\ \A u \in User : Owed(u, d)[h] = 0
  BY DEF InFlight, Owed, Idle
<1>3. DeltasTyped
  BY DeltasTypes
<1> QED BY <1>1, <1>2, <1>3 DEF DeltasTyped

\* While memory is empty nothing is queued, counted or in flight.
LEMMA QueueInit == TypeOK /\ Empty => QueueFollowsMemory
<1> SUFFICES ASSUME TypeOK, Empty, NEW t \in Present
             PROVE  /\ persisted[t].seeders + SumFunction(InFlight(t, "seeder_delta"))
                          = torrents[t].seeders
                    /\ persisted[t].leechers + SumFunction(InFlight(t, "leecher_delta"))
                          = torrents[t].leechers
  BY DEF QueueFollowsMemory
<1>1. /\ SumFunction(InFlight(t, "seeder_delta")) = 0
      /\ SumFunction(InFlight(t, "leecher_delta")) = 0
  BY IdleOwesNothing DEF Empty, Present, DeltaName
<1> QED BY <1>1 DEF Empty, Present

\* Every step keeps what is queued, with what is in flight, at the counters.
LEMMA QueueStep == CountersInvariant /\ QueueFollowsMemory /\ [Next]_vars => QueueFollowsMemory'
<1> SUFFICES ASSUME CountersInvariant, QueueFollowsMemory, [Next]_vars,
                    NEW t \in Torrent, torrents'[t] # Absent, t \notin moved'
             PROVE  /\ persisted'[t].seeders + SumFunction(InFlight(t, "seeder_delta")')
                          = torrents'[t].seeders
                    /\ persisted'[t].leechers + SumFunction(InFlight(t, "leecher_delta")')
                          = torrents'[t].leechers
  BY DEF QueueFollowsMemory, Present
<1>1. TypeOK /\ TypeOK' /\ FreshUntilMoved /\ CountersExact
  BY TypeStep DEF CountersInvariant
<1>2. ConfigFresh /\ require' = require
  BY <1>1, FreshStep
<1>3. t \in Present
  BY <1>1, OnlyPutInAppears DEF Present
<1>4. t \notin moved
  BY DEF Next, vars, Announce, Receive, Probed, Reject, Refuse, Stop, Modify, Insert, Replace,
         Count, Queue, ReapStarts, Reap, TakeOut, PutIn, Destroy, Reload, Tick
<1>5. SeederDrift(t) = 0 /\ LeecherDrift(t) = 0
  BY <1>1, <1>3, <1>4 DEF CountersExact
<1> DEFINE s == torrents[t].seeders
           s1 == torrents'[t].seeders
           ps == persisted[t].seeders
           ps1 == persisted'[t].seeders
           is == SumFunction(InFlight(t, "seeder_delta"))
           is1 == SumFunction(InFlight(t, "seeder_delta")')
           l == torrents[t].leechers
           l1 == torrents'[t].leechers
           pl == persisted[t].leechers
           pl1 == persisted'[t].leechers
           il == SumFunction(InFlight(t, "leecher_delta"))
           il1 == SumFunction(InFlight(t, "leecher_delta")')
<1>6. /\ s \in Int /\ l \in Int /\ ps \in Int /\ pl \in Int /\ is \in Int /\ il \in Int
  BY <1>1, <1>3, PresentCounts, DeltaSums, SetAssumption, DeltasTypes, TotalType
     DEF TypeOK, DeltaName, DeltasTyped
<1>7. s1 \in Int /\ l1 \in Int /\ ps1 \in Int /\ pl1 \in Int
  <2>1. torrents'[t] \in Entry /\ persisted'[t] \in [seeders : Int, leechers : Int]
    BY <1>1 DEF TypeOK
  <2> QED BY <2>1 DEF Entry
<1>8. ps + is = s /\ pl + il = l
  BY <1>3, <1>4 DEF QueueFollowsMemory
<1>9. CASE \E h \in Handler : Announce(h)
  <2>1. PICK h \in Handler : Announce(h)
    BY <1>9
  <2> DEFINE os == InFlight(t, "seeder_delta")[h]
             os1 == InFlight(t, "seeder_delta")'[h]
             ol == InFlight(t, "leecher_delta")[h]
             ol1 == InFlight(t, "leecher_delta")'[h]
  <2>2. /\ os \in Int /\ ol \in Int /\ os1 \in Int /\ ol1 \in Int
    <3>1. DeltasTyped /\ DeltasTyped'
      BY <1>1, DeltasTypes, PTL
    <3> QED BY <3>1 DEF DeltasTyped, DeltaName
  <2>3. is1 = is + os1 - os /\ il1 = il + ol1 - ol
    BY <1>1, <2>1, DeltasChange DEF DeltaName
  <2>4. s1 - ps1 - os1 = s - ps - os /\ l1 - pl1 - ol1 = l - pl - ol
    BY <1>1, <1>2, <1>3, <1>5, <2>1, AnnounceQueues
  <2> HIDE DEF s, s1, ps, ps1, is, is1, l, l1, pl, pl1, il, il1, os, os1, ol, ol1
  <2>5. ps1 + is1 = s1 /\ pl1 + il1 = l1
    BY <1>6, <1>7, <1>8, <2>2, <2>3, <2>4
  <2> QED BY <2>5 DEF s1, ps1, is1, l1, pl1, il1
<1>10. CASE ~(\E h \in Handler : Announce(h))
  <2>1. /\ announce' = announce \/ Tick
        /\ s1 - ps1 = s - ps /\ l1 - pl1 = l - pl
    BY <1>1, <1>2, <1>3, <1>5, <1>10, OthersQueue
  <2>2. is1 = is /\ il1 = il
    BY <1>1, <2>1, DeltasKept DEF DeltaName
  <2> HIDE DEF s, s1, ps, ps1, is, is1, l, l1, pl, pl1, il, il1
  <2>3. ps1 + is1 = s1 /\ pl1 + il1 = l1
    BY <1>6, <1>7, <1>8, <2>1, <2>2
  <2> QED BY <2>3 DEF s1, ps1, is1, l1, pl1, il1
<1> QED BY <1>9, <1>10

\* What was handed to the torrents queue adds up to the counters in memory, but
\* for the requests between the two, however announces, reaps and API calls
\* interleave (announce.rs, the torrents queue's upsert; scheduler.rs, reap).
THEOREM QueueFollowsCounters == Spec => []QueueFollowsMemory
<1>1. CountersInvariant /\ QueueFollowsMemory /\ [Next]_vars
          => (CountersInvariant /\ QueueFollowsMemory)'
  BY CountersStep, QueueStep
<1>2. Init => QueueFollowsMemory
  BY TypeInit, QueueInit DEF Init, Empty
<1> QED BY <1>1, <1>2, CountersInit, PTL DEF Spec

(***************************************************************************)
(* The users' counts.                                                      *)
(***************************************************************************)
\* Where peers are kept: with a torrent of the store, or in the hands of an
\* upsert of the website.
Place == ({"store"} \X Torrent) \cup ({"call"} \X ApiCall)

PeersAt(x) ==
    IF x[1] = "store"
    THEN IF torrents[x[2]] = Absent THEN NoPeers ELSE torrents[x[2]].peers
    ELSE IF api[x[2]] = Free THEN NoPeers ELSE api[x[2]].peers

\* The list that a delta is about.
InList(p, req, d) == IF d = "seeder_delta" THEN InSeedList(p, req) ELSE InLeechList(p, req)

ListIn(peers, req, d) == {i \in Index : InList(peers[i], req, d)}

\* The peers of u on such a list, wherever they are kept.
OnList(u, d) ==
    {p \in Place \X Index : p[2][1] = u /\ InList(PeersAt(p[1])[p[2]], require, d)}

CountOf(u, d) == IF d = "seeder_delta" THEN users[u].num_seeding ELSE users[u].num_leeching

\* A user's count, with what is owed, covers the user's peers on every list.
UsersCovered ==
    \A u \in User, d \in DeltaName :
        CountOf(u, d) + SumFunction(Owed(u, d)) >= Cardinality(OnList(u, d))

UsersInvariant == TypeOK /\ (reloads = 0 => ConfigFresh /\ UsersCovered)

\* What is kept at a place is a torrent's peers (store/peer.rs).
PlacesTyped == \A x \in Place : PeersAt(x) \in PeerStore

LEMMA PlacesTypes == TypeOK => PlacesTyped
<1> SUFFICES ASSUME TypeOK, NEW x \in Place PROVE PeersAt(x) \in PeerStore
  BY DEF PlacesTyped
<1>1. NoPeers \in PeerStore
  BY DEF NoPeers, PeerStore
<1>2. CASE x \in {"store"} \X Torrent
  <2>1. x[1] = "store" /\ x[2] \in Torrent
    BY <1>2
  <2> QED BY <1>1, <2>1, PresentType DEF PeersAt, Entry
<1>3. CASE x \in {"call"} \X ApiCall
  <2>1. x[1] # "store" /\ x[2] \in ApiCall
    BY <1>3
  <2> QED BY <1>1, <2>1, CallPhases DEF PeersAt, Holding
<1> QED BY <1>2, <1>3 DEF Place

\* The lists at all places are finite (store/peer.rs).
LEMMA OnListFinite ==
    ASSUME NEW S \in SUBSET (Place \X Index)
    PROVE  IsFiniteSet(S) /\ Cardinality(S) \in Nat
<1>1. IsFiniteSet({"store"}) /\ IsFiniteSet({"call"})
  BY FS_Singleton
<1>2. IsFiniteSet({"store"} \X Torrent) /\ IsFiniteSet({"call"} \X ApiCall)
  BY <1>1, SetAssumption, FS_Product
<1>3. IsFiniteSet(Place)
  BY <1>2, FS_Union DEF Place
<1>4. IsFiniteSet(Place \X Index)
  BY <1>3, IndexFinite, FS_Product
<1> QED BY <1>4, FS_Subset, FS_CardinalityType

\* The numbers of the invariant (store/user.rs, num_seeding and num_leeching).
UsersTyped ==
    \A u \in User, d \in DeltaName :
        /\ CountOf(u, d) \in Nat
        /\ Cardinality(OnList(u, d)) \in Nat
        /\ IsFiniteSet(OnList(u, d))

LEMMA UsersTypes == TypeOK => UsersTyped
<1> SUFFICES ASSUME TypeOK, NEW u \in User, NEW d \in DeltaName
             PROVE  /\ CountOf(u, d) \in Nat
                    /\ Cardinality(OnList(u, d)) \in Nat
                    /\ IsFiniteSet(OnList(u, d))
  BY DEF UsersTyped
<1>1. users[u] \in [num_seeding : Nat, num_leeching : Nat]
  BY DEF TypeOK
<1>2. OnList(u, d) \in SUBSET (Place \X Index)
  BY DEF OnList
<1> QED BY <1>1, <1>2, OnListFinite DEF CountOf

\* The lists that the code counts (store/peer.rs, is_included_in_seed_list and
\* is_included_in_leech_list).
LEMMA ListsByName ==
    ASSUME NEW peers \in PeerStore, NEW req \in BOOLEAN
    PROVE  /\ ListIn(peers, req, "seeder_delta") = SeedersIn(peers, req)
           /\ ListIn(peers, req, "leecher_delta") = LeechersIn(peers, req)
<1>1. DOMAIN peers = Index
  BY DEF PeerStore
<1> QED BY <1>1 DEF ListIn, InList, SeedersIn, LeechersIn

\* A step that changes no list leaves all of them.
LEMMA ListsKept ==
    ASSUME require' = require, NEW u \in User, NEW d \in DeltaName,
           \A x \in Place : ListIn(PeersAt(x)', require, d) = ListIn(PeersAt(x), require, d)
    PROVE  OnList(u, d)' = OnList(u, d)
<1>1. ASSUME NEW x \in Place, NEW i \in Index
      PROVE  InList(PeersAt(x)'[i], require, d) = InList(PeersAt(x)[i], require, d)
  BY DEF ListIn, InList, InSeedList, InLeechList, Included
<1>2. ASSUME NEW p \in Place \X Index
      PROVE  InList(PeersAt(p[1])'[p[2]], require, d) = InList(PeersAt(p[1])[p[2]], require, d)
  BY <1>1
<1>3. OnList(u, d) = {p \in Place \X Index :
                        p[2][1] = u /\ InList(PeersAt(p[1])[p[2]], require, d)}
  BY DEF OnList
<1>4. OnList(u, d)' = {p \in Place \X Index :
                        p[2][1] = u /\ InList(PeersAt(p[1])'[p[2]], require', d)}
  BY DEF OnList
<1> QED BY <1>2, <1>3, <1>4

\* A step that leaves the store's peers and the website's where they are.
LEMMA PlacesKept ==
    ASSUME \A t \in Torrent :
               /\ torrents'[t] = Absent <=> torrents[t] = Absent
               /\ torrents[t] # Absent => torrents'[t].peers = torrents[t].peers,
           api' = api, NEW x \in Place
    PROVE  PeersAt(x)' = PeersAt(x)
BY DEF PeersAt, Place

\* Peers that are handed from one place to another, over those that were there,
\* are on no more lists than before (api/torrent.rs, upsert).
LEMMA HandedOver ==
    ASSUME TypeOK, TypeOK', require' = require, NEW x \in Place, NEW y \in Place, x # y,
           PeersAt(y)' = PeersAt(x), PeersAt(x)' = NoPeers,
           \A z \in Place \ {x, y} : PeersAt(z)' = PeersAt(z),
           NEW u \in User, NEW d \in DeltaName
    PROVE  Cardinality(OnList(u, d)') <= Cardinality(OnList(u, d))
<1> DEFINE S == OnList(u, d)
           T == OnList(u, d)'
           from == [p \in T |-> IF p[1] = y THEN <<x, p[2]>> ELSE p]
<1>1. T = {p \in Place \X Index : p[2][1] = u /\ InList(PeersAt(p[1])'[p[2]], require', d)}
  BY DEF OnList
<1>2. ASSUME NEW p \in T
      PROVE  p[1] # x /\ from[p] \in S
  <2>1. /\ p \in Place \X Index /\ p[2][1] = u /\ InList(PeersAt(p[1])'[p[2]], require, d)
    BY <1>1
  <2>2. p[1] # x
    BY <2>1 DEF NoPeers, InList, InSeedList, InLeechList, Included
  <2>3. CASE p[1] = y
    BY <2>1, <2>3 DEF OnList
  <2>4. CASE p[1] # y
    <3>1. PeersAt(p[1])' = PeersAt(p[1])
      BY <2>1, <2>2, <2>4
    <3> QED BY <2>1, <2>2, <2>4, <3>1 DEF OnList
  <2> QED BY <2>2, <2>3, <2>4
<1>3. \A p \in T : p = <<p[1], p[2]>>
  BY <1>1
<1>4. from \in [T -> S]
  BY <1>2
<1>5. ASSUME NEW p \in T, NEW q \in T, from[p] = from[q] PROVE p = q
  <2>1. p[1] # x /\ q[1] # x /\ p = <<p[1], p[2]>> /\ q = <<q[1], q[2]>>
    BY <1>2, <1>3
  <2>2. ASSUME NEW r \in T
        PROVE  from[r][1] = (IF r[1] = y THEN x ELSE r[1]) /\ from[r][2] = r[2]
    OBVIOUS
  <2>3. /\ (IF p[1] = y THEN x ELSE p[1]) = (IF q[1] = y THEN x ELSE q[1])
        /\ p[2] = q[2]
    BY <1>5, <2>2
  <2>4. p[1] = q[1]
    BY <2>1, <2>3
  <2> HIDE DEF from, T
  <2> QED BY <2>1, <2>3, <2>4
<1>6. from \in Injection(T, S)
  BY <1>4, <1>5 DEF Injection, IsInjective
<1>7. IsFiniteSet(S)
  BY UsersTypes DEF UsersTyped
<1> HIDE DEF from, S, T
<1>8. Cardinality(T) <= Cardinality(S)
  BY <1>6, <1>7, FS_Injection
<1> QED BY <1>8 DEF S, T

\* The lock section of an announce by the config of now moves the user's peers
\* on a list by what the request then owes (announce.rs).
LEMMA ReplaceOwes ==
    ASSUME TypeOK, TypeOK', NEW h \in Handler, NEW new \in Peer \cup {NoPeer}, Locked(h),
           Replace(h, new), announce[h].require = require, NEW u \in User, NEW d \in DeltaName,
           NEW t \in Torrent, NEW i \in Index, announce[h].torrent = t, announce[h].index = i
    PROVE  Cardinality(OnList(u, d)') = Cardinality(OnList(u, d)) + Owed(u, d)'[h]
<1> DEFINE a == announce[h]
           old == torrents[t].peers[i]
           x == <<"store", t>>
           q == <<x, i>>
           S == OnList(u, d)
           T == OnList(u, d)'
           moves == Delta(InList(new, require, d), InList(old, require, d))
<1>1. /\ torrents[t] # Absent /\ torrents'[t] # Absent
      /\ torrents'[t].peers = [torrents[t].peers EXCEPT ![i] = new]
      /\ \A s \in Torrent : s # t => torrents'[s] = torrents[s]
  BY ReplaceHolds, AbsentAssumption DEF Present
<1>3. require' = require /\ api' = api
  BY DEF Replace
<1>4. /\ x \in Place /\ PeersAt(x) = torrents[t].peers /\ PeersAt(x) \in PeerStore
      /\ PeersAt(x)' = [PeersAt(x) EXCEPT ![i] = new]
      /\ \A z \in Place \ {x} : PeersAt(z)' = PeersAt(z)
  <2>1. x \in Place /\ PeersAt(x) = torrents[t].peers /\ PeersAt(x)' = torrents'[t].peers
    BY <1>1 DEF Place, PeersAt
  <2>2. PeersAt(x) \in PeerStore
    BY <2>1, PlacesTypes DEF PlacesTyped
  <2>3. ASSUME NEW z \in Place \ {x} PROVE PeersAt(z)' = PeersAt(z)
    BY <1>1, <1>3 DEF Place, PeersAt
  <2> QED BY <1>1, <2>1, <2>2, <2>3
<1>5. q \in Place \X Index
  BY <1>1, <1>4
<1>6. S = {p \in Place \X Index : p[2][1] = u /\ InList(PeersAt(p[1])[p[2]], require, d)}
  BY DEF OnList
<1>7. T = {p \in Place \X Index : p[2][1] = u /\ InList(PeersAt(p[1])'[p[2]], require, d)}
  BY <1>3 DEF OnList
<1>8. S \ {q} = T \ {q}
  <2>1. ASSUME NEW p \in Place \X Index, p # q
        PROVE  PeersAt(p[1])'[p[2]] = PeersAt(p[1])[p[2]]
    <3>1. p = <<p[1], p[2]>> /\ p[1] \in Place /\ p[2] \in Index
      OBVIOUS
    <3>2. CASE p[1] # x
      BY <1>4, <3>1, <3>2
    <3>3. CASE p[1] = x
      <4>1. p[2] # i
        BY <2>1, <3>1, <3>3
      <4>2. PeersAt(x)'[p[2]] = PeersAt(x)[p[2]]
        BY <1>4, <3>1, <4>1 DEF PeerStore
      <4> QED BY <3>3, <4>2
    <3> QED BY <3>2, <3>3
  <2> HIDE DEF S, T, q
  <2> QED BY <1>6, <1>7, <2>1
<1>9. /\ (q \in S) <=> (i[1] = u /\ InList(old, require, d))
      /\ (q \in T) <=> (i[1] = u /\ InList(new, require, d))
  <2>1. q[1] = x /\ q[2] = i
    OBVIOUS
  <2>2. PeersAt(x)'[i] = new /\ PeersAt(x)[i] = old
    BY <1>1, <1>4 DEF PeerStore
  <2> HIDE DEF S, T, q
  <2> QED BY <1>5, <1>6, <1>7, <2>1, <2>2
<1>10. Owed(u, d)'[h] = IF i[1] = u THEN moves ELSE 0
  <2> DEFINE d0 == Delta(InSeedList(new, a.require), InSeedList(old, a.require))
             e0 == Delta(InLeechList(new, a.require), InLeechList(old, a.require))
  <2>1. announce'[h] = [pc |-> "counting", torrent |-> t, index |-> i, age |-> a.age,
                        seeder_delta |-> d0, leecher_delta |-> e0]
    BY ReplaceHolds
  <2>2. moves = IF d = "seeder_delta" THEN d0 ELSE e0
    BY DEF InList
  <2> HIDE DEF d0, e0, moves
  <2>3. announce'[h].pc = "counting" /\ announce'[h].index = i /\ announce'[h][d] = moves
    BY <2>1, <2>2 DEF DeltaName
  <2> QED BY <2>3 DEF Owed
<1>11. IsFiniteSet(S) /\ IsFiniteSet(T) /\ Cardinality(S) \in Nat
  <2>1. UsersTyped /\ UsersTyped'
    BY UsersTypes, PTL
  <2> QED BY <2>1 DEF UsersTyped
<1>12. Cardinality(T) = Cardinality(S)
           + ((IF q \in T THEN 1 ELSE 0) - (IF q \in S THEN 1 ELSE 0))
  <2> HIDE DEF S, T, q
  <2> QED BY <1>8, <1>11, SizeOfReplaced
<1>13. Cardinality(T) = Cardinality(S) + Owed(u, d)'[h]
  <2> HIDE DEF S, T, q
  <2> QED BY <1>9, <1>10, <1>11, <1>12 DEF moves, Delta, Bit
<1> QED BY <1>13 DEF S, T

\* The peers of u that a reap by the config of now takes off such a list.
ExpiredFor(u, d) ==
    {p \in Present \X Index :
        /\ p[2][1] = u
        /\ InList(torrents[p[1]].peers[p[2]], require, d)
        /\ Expired(torrents[p[1]].peers[p[2]])}

\* They are what the reap counts (scheduler.rs, reap).
LEMMA ReapCountsExpired ==
    ASSUME TypeOK, Reap, reaper.require = require, NEW u \in User, NEW d \in DeltaName
    PROVE  CountOf(u, d)' = Saturating(CountOf(u, d), -Cardinality(ExpiredFor(u, d)))
<1>1. ASSUME NEW t \in Present
      PROVE  /\ AllExpiredSeeders[t] = {i \in Index :
                    /\ InSeedList(torrents[t].peers[i], require)
                    /\ Expired(torrents[t].peers[i])}
             /\ AllExpiredLeechers[t] = {i \in Index :
                    /\ InLeechList(torrents[t].peers[i], require)
                    /\ Expired(torrents[t].peers[i])}
  <2>1. DOMAIN torrents[t].peers = Index
    BY PresentCounts DEF PeerStore
  <2> QED BY <2>1 DEF AllExpiredSeeders, AllExpiredLeechers, ExpiredSeeders, ExpiredLeechers,
                      SeedersIn, LeechersIn
<1>2. users'[u] =
        [num_seeding |-> Saturating(users[u].num_seeding, -ExpiredOf(u, AllExpiredSeeders)),
         num_leeching |-> Saturating(users[u].num_leeching, -ExpiredOf(u, AllExpiredLeechers))]
  BY DEF Reap
<1>3. CASE d = "seeder_delta"
  <2>1. ExpiredFor(u, d)
            = {p \in Present \X Index : p[2][1] = u /\ p[2] \in AllExpiredSeeders[p[1]]}
    BY <1>1, <1>3 DEF ExpiredFor, InList
  <2>2. ExpiredOf(u, AllExpiredSeeders) = Cardinality(ExpiredFor(u, d))
    BY <2>1 DEF ExpiredOf
  <2> QED BY <1>2, <1>3, <2>2 DEF CountOf
<1>4. CASE d = "leecher_delta"
  <2>1. ExpiredFor(u, d)
            = {p \in Present \X Index : p[2][1] = u /\ p[2] \in AllExpiredLeechers[p[1]]}
    BY <1>1, <1>4 DEF ExpiredFor, InList
  <2>2. ExpiredOf(u, AllExpiredLeechers) = Cardinality(ExpiredFor(u, d))
    BY <2>1 DEF ExpiredOf
  <2> QED BY <1>2, <1>4, <2>2 DEF CountOf
<1> QED BY <1>3, <1>4 DEF DeltaName

\* A reap takes no more off a user's count than off the user's peers on the
\* lists (scheduler.rs, reap).
LEMMA ReapCovers ==
    ASSUME TypeOK, TypeOK', Reap, reaper.require = require, NEW u \in User, NEW d \in DeltaName
    PROVE  CountOf(u, d)' - Cardinality(OnList(u, d)') >= CountOf(u, d) - Cardinality(OnList(u, d))
<1> DEFINE S == OnList(u, d)
           T == OnList(u, d)'
           X == ExpiredFor(u, d)
           place == [p \in X |-> <<<<"store", p[1]>>, p[2]>>]
<1>1. /\ S = {p \in Place \X Index : p[2][1] = u /\ InList(PeersAt(p[1])[p[2]], require, d)}
      /\ T = {p \in Place \X Index : p[2][1] = u /\ InList(PeersAt(p[1])'[p[2]], require, d)}
  BY DEF OnList, Reap
<1>2. ASSUME NEW t \in Torrent
      PROVE  /\ torrents[t] = Absent => PeersAt(<<"store", t>>)' = PeersAt(<<"store", t>>)
             /\ torrents[t] # Absent =>
                    /\ PeersAt(<<"store", t>>) = torrents[t].peers
                    /\ PeersAt(<<"store", t>>)' = ReapedPeers(torrents[t].peers)
  <2>1. CASE torrents[t] = Absent
    BY <2>1 DEF Reap, PeersAt
  <2>2. CASE torrents[t] # Absent
    <3>1. torrents'[t] \in Entry
      BY <2>2, ReapKeepsEntries DEF Present
    <3>2. torrents'[t].peers = ReapedPeers(torrents[t].peers)
      BY <2>2, PresentType DEF Reap, Entry
    <3> QED BY <2>2, <3>1, <3>2, AbsentAssumption DEF PeersAt
  <2> QED BY <2>1, <2>2
<1>3. ASSUME NEW a \in ApiCall
      PROVE  PeersAt(<<"call", a>>)' = PeersAt(<<"call", a>>)
  BY DEF Reap, PeersAt
<1>4. ASSUME NEW peers \in PeerStore, NEW i \in Index
      PROVE  InList(ReapedPeers(peers)[i], require, d)
                = (InList(peers[i], require, d) /\ ~Expired(peers[i]))
  <2>1. /\ SeedersIn(ReapedPeers(peers), require) = SeedersIn(peers, require) \ ExpiredSeeders(peers)
        /\ LeechersIn(ReapedPeers(peers), require)
              = LeechersIn(peers, require) \ ExpiredLeechers(peers)
    BY ReapedLists DEF TypeOK
  <2>2. DOMAIN peers = Index /\ DOMAIN ReapedPeers(peers) = Index
    BY DEF PeerStore, ReapedPeers
  <2>3. /\ InSeedList(ReapedPeers(peers)[i], require)
              = (InSeedList(peers[i], require) /\ ~Expired(peers[i]))
        /\ InLeechList(ReapedPeers(peers)[i], require)
              = (InLeechList(peers[i], require) /\ ~Expired(peers[i]))
    BY <2>1, <2>2 DEF SeedersIn, LeechersIn, ExpiredSeeders, ExpiredLeechers, InSeedList,
                      InLeechList, Included
  <2> QED BY <2>3 DEF InList
<1>5. ASSUME NEW p \in T PROVE p \in S
  <2>1. PICK x \in Place, i \in Index : p = <<x, i>>
    BY <1>1
  <2>2. i[1] = u /\ InList(PeersAt(x)'[i], require, d)
    BY <1>1, <2>1
  <2>3. InList(PeersAt(x)[i], require, d)
    <3>1. CASE x \in {"store"} \X Torrent
      <4>1. PICK t \in Torrent : x = <<"store", t>>
        BY <3>1
      <4>2. CASE torrents[t] = Absent
        BY <1>2, <2>2, <4>1, <4>2
      <4>3. CASE torrents[t] # Absent
        BY <1>2, <1>4, <2>2, <4>1, <4>3, PresentCounts DEF Present
      <4> QED BY <4>2, <4>3
    <3>2. CASE x \in {"call"} \X ApiCall
      BY <1>3, <2>2, <3>2
    <3> QED BY <3>1, <3>2 DEF Place
  <2> QED BY <1>1, <2>1, <2>2, <2>3
<1>6. ASSUME NEW p \in X PROVE place[p] \in S \ T
  <2>1. PICK t \in Present, i \in Index : p = <<t, i>>
    BY DEF ExpiredFor
  <2>2. /\ i[1] = u /\ InList(torrents[t].peers[i], require, d) /\ Expired(torrents[t].peers[i])
    BY <2>1 DEF ExpiredFor
  <2>3. /\ PeersAt(<<"store", t>>) = torrents[t].peers
        /\ PeersAt(<<"store", t>>)' = ReapedPeers(torrents[t].peers)
    BY <1>2 DEF Present
  <2>4. ~InList(ReapedPeers(torrents[t].peers)[i], require, d)
    BY <1>4, <2>2, PresentCounts
  <2>5. place[p] = <<<<"store", t>>, i>> /\ <<"store", t>> \in Place
    BY <2>1 DEF Present, Place
  <2> HIDE DEF place, S, T, X
  <2> QED BY <1>1, <2>2, <2>3, <2>4, <2>5
<1>7. place \in Injection(X, S \ T)
  <2>1. place \in [X -> S \ T]
    BY <1>6
  <2>2. ASSUME NEW p \in X, NEW q \in X, place[p] = place[q] PROVE p = q
    <3>1. p = <<p[1], p[2]>> /\ q = <<q[1], q[2]>>
      BY DEF ExpiredFor
    <3>2. /\ place[p][1][2] = p[1] /\ place[p][2] = p[2]
          /\ place[q][1][2] = q[1] /\ place[q][2] = q[2]
      OBVIOUS
    <3> HIDE DEF place, X
    <3> QED BY <2>2, <3>1, <3>2
  <2> HIDE DEF place, S, T, X
  <2> QED BY <2>1, <2>2 DEF Injection, IsInjective
<1>8. /\ IsFiniteSet(S) /\ IsFiniteSet(T) /\ Cardinality(S) \in Nat /\ Cardinality(T) \in Nat
      /\ CountOf(u, d) \in Nat
  <2>1. UsersTyped /\ UsersTyped'
    BY UsersTypes, PTL
  <2> QED BY <2>1 DEF UsersTyped
<1>9. CountOf(u, d)' = Saturating(CountOf(u, d), -Cardinality(X))
  BY ReapCountsExpired
<1> HIDE DEF S, T, X, place
<1>10. IsFiniteSet(S \ T) /\ Cardinality(S \ T) = Cardinality(S) - Cardinality(T)
  <2>1. S \cap T = T
    BY <1>5
  <2> QED BY <1>8, <2>1, FS_Difference
<1>11. IsFiniteSet(X) /\ Cardinality(X) <= Cardinality(S \ T)
  BY <1>7, <1>10, FS_Injection
<1>12. Cardinality(X) \in Nat
  BY <1>11, FS_CardinalityType
<1>13. CountOf(u, d)' - Cardinality(T) >= CountOf(u, d) - Cardinality(S)
  BY <1>8, <1>9, <1>10, <1>11, <1>12 DEF Saturating
<1> QED BY <1>13 DEF S, T

\* The peers of u on a list of any torrent are on that list at some place.
LEMMA ListedCovered ==
    ASSUME TypeOK, NEW u \in User
    PROVE  /\ Listed(u, SeedersIn) <= Cardinality(OnList(u, "seeder_delta"))
           /\ Listed(u, LeechersIn) <= Cardinality(OnList(u, "leecher_delta"))
<1>1. ASSUME NEW t \in Torrent, NEW peers \in PlacesOf(t)
      PROVE  \E x \in Place : peers = PeersAt(x) /\ t = (IF x[1] = "store" THEN x[2]
                                                         ELSE api[x[2]].torrent)
  <2>1. CASE torrents[t] # Absent /\ peers = torrents[t].peers
    <3>1. <<"store", t>> \in Place /\ PeersAt(<<"store", t>>) = peers
      BY <2>1 DEF Place, PeersAt
    <3> QED BY <3>1
  <2>2. CASE \E a \in ApiCall : /\ api[a].pc = "holding" /\ api[a].torrent = t
                                /\ peers = api[a].peers
    <3>1. PICK a \in ApiCall : /\ api[a].pc = "holding" /\ api[a].torrent = t
                               /\ peers = api[a].peers
      BY <2>2
    <3>2. <<"call", a>> \in Place /\ PeersAt(<<"call", a>>) = peers
      BY <3>1 DEF Place, PeersAt, Free
    <3> QED BY <3>1, <3>2
  <2> QED BY <2>1, <2>2 DEF PlacesOf
<1>2. ASSUME NEW d \in DeltaName, NEW L,
             L \subseteq {p \in Torrent \X Index :
                 p[2][1] = u /\ \E peers \in PlacesOf(p[1]) : p[2] \in ListIn(peers, require, d)}
      PROVE  Cardinality(L) <= Cardinality(OnList(u, d))
  <2> DEFINE S == OnList(u, d)
             TorrentAt(x) == IF x[1] = "store" THEN x[2] ELSE api[x[2]].torrent
             place == [p \in L |-> CHOOSE q \in S : TorrentAt(q[1]) = p[1] /\ q[2] = p[2]]
  <2>1. ASSUME NEW p \in L
        PROVE  \E q \in S : TorrentAt(q[1]) = p[1] /\ q[2] = p[2]
    <3>1. p \in Torrent \X Index /\ p[2][1] = u
      BY <1>2
    <3>2. PICK peers \in PlacesOf(p[1]) : p[2] \in ListIn(peers, require, d)
      BY <1>2
    <3>3. PICK x \in Place : peers = PeersAt(x) /\ p[1] = TorrentAt(x)
      BY <1>1, <3>1
    <3>4. <<x, p[2]>> \in S
      BY <3>1, <3>2, <3>3 DEF OnList, ListIn
    <3> HIDE DEF S, TorrentAt
    <3>5. <<x, p[2]>>[1] = x /\ <<x, p[2]>>[2] = p[2]
      OBVIOUS
    <3> QED BY <3>3, <3>4, <3>5
  <2>2. ASSUME NEW p \in L
        PROVE  place[p] \in S /\ TorrentAt(place[p][1]) = p[1] /\ place[p][2] = p[2]
    <3> DEFINE fits(q) == TorrentAt(q[1]) = p[1] /\ q[2] = p[2]
    <3>1. \E q \in S : fits(q)
      BY <2>1
    <3>2. place[p] = CHOOSE q \in S : fits(q)
      OBVIOUS
    <3> HIDE DEF fits, place, S
    <3>3. place[p] \in S /\ fits(place[p])
      BY <3>1, <3>2
    <3> QED BY <3>3 DEF fits
  <2>3. \A p \in L : p = <<p[1], p[2]>>
    BY <1>2
  <2>4. place \in [L -> S]
    BY <2>2
  <2> HIDE DEF place, S, TorrentAt
  <2>5. ASSUME NEW p \in L, NEW q \in L, place[p] = place[q] PROVE p = q
    BY <2>2, <2>3, <2>5
  <2>6. place \in Injection(L, S)
    BY <2>4, <2>5 DEF Injection, IsInjective
  <2>7. IsFiniteSet(S)
    BY UsersTypes DEF UsersTyped, S
  <2> QED BY <2>6, <2>7, FS_Injection DEF S
<1>3. ASSUME NEW t \in Torrent, NEW peers \in PlacesOf(t)
      PROVE  /\ SeedersIn(peers, require) = ListIn(peers, require, "seeder_delta")
             /\ LeechersIn(peers, require) = ListIn(peers, require, "leecher_delta")
  <2>1. peers \in PeerStore
    BY <1>1, PlacesTypes DEF PlacesTyped
  <2> QED BY <2>1, ListsByName DEF TypeOK
<1>4. Listed(u, SeedersIn) <= Cardinality(OnList(u, "seeder_delta"))
  BY <1>2, <1>3 DEF Listed, DeltaName
<1>5. Listed(u, LeechersIn) <= Cardinality(OnList(u, "leecher_delta"))
  BY <1>2, <1>3 DEF Listed, DeltaName
<1> QED BY <1>4, <1>5

\* While memory is empty there are no peers, and all counts are 0.
LEMMA UsersInit == TypeOK /\ Empty => UsersInvariant
<1> SUFFICES ASSUME TypeOK, Empty PROVE UsersInvariant
  OBVIOUS
<1>1. ConfigFresh
  BY DEF Empty, ConfigFresh, Idle
<1>2. ASSUME NEW u \in User, NEW d \in DeltaName
      PROVE  CountOf(u, d) + SumFunction(Owed(u, d)) >= Cardinality(OnList(u, d))
  <2>1. CountOf(u, d) = 0
    BY DEF Empty, CountOf
  <2>2. SumFunction(Owed(u, d)) = 0
    BY IdleOwesNothing DEF Empty
  <2>3. OnList(u, d) = {}
    <3>1. ASSUME NEW x \in Place, NEW i \in Index PROVE ~InList(PeersAt(x)[i], require, d)
      <4>1. PeersAt(x) = NoPeers
        BY DEF Empty, PeersAt, Place
      <4> QED BY <4>1 DEF NoPeers, InList, InSeedList, InLeechList, Included
    <3> QED BY <3>1 DEF OnList
  <2> QED BY <2>1, <2>2, <2>3, FS_EmptySet
<1> QED BY <1>1, <1>2 DEF UsersInvariant, UsersCovered

\* A step of a request that leaves the peers alone leaves the lists alone.
LEMMA SameListsKept ==
    ASSUME torrents' = torrents, api' = api, require' = require, NEW u \in User,
           NEW d \in DeltaName
    PROVE  OnList(u, d)' = OnList(u, d)
BY DEF OnList, PeersAt

\* A step of a request keeps a user's count, with what this request owes, as far
\* above the user's peers on the lists as it was (announce.rs).
LEMMA AnnounceCovers ==
    ASSUME TypeOK, TypeOK', ConfigFresh, NEW h \in Handler, Announce(h), NEW u \in User,
           NEW d \in DeltaName
    PROVE  CountOf(u, d)' + Owed(u, d)'[h] - Cardinality(OnList(u, d)')
                >= CountOf(u, d) + Owed(u, d)[h] - Cardinality(OnList(u, d))
<1> DEFINE a == announce[h]
<1>1. /\ CountOf(u, d) \in Nat /\ Cardinality(OnList(u, d)) \in Nat
      /\ Owed(u, d)[h] \in Int /\ Owed(u, d)'[h] \in Int
  <2>1. UsersTyped /\ DeltasTyped /\ DeltasTyped'
    BY UsersTypes, DeltasTypes, PTL
  <2> QED BY <2>1 DEF UsersTyped, DeltasTyped
<1>2. CASE Receive(h) \/ Probed(h) \/ Reject(h) \/ Queue(h)
  <2>1. UNCHANGED <<torrents, users, api, require>>
    BY <1>2 DEF Receive, Probed, Reject, Refuse, Queue
  <2>2. announce[h].pc # "counting" /\ announce'[h].pc # "counting"
    BY <1>2 DEF Receive, Probed, Reject, Refuse, Queue, Idle, TypeOK
  <2>3. OnList(u, d)' = OnList(u, d) /\ CountOf(u, d)' = CountOf(u, d)
    BY <2>1, SameListsKept DEF CountOf
  <2>4. Owed(u, d)[h] = 0 /\ Owed(u, d)'[h] = 0
    BY <2>2 DEF Owed
  <2> QED BY <1>1, <2>3, <2>4
<1>3. CASE Stop(h) \/ Modify(h) \/ Insert(h)
  <2>1. PICK new \in Peer \cup {NoPeer} : Replace(h, new)
    BY <1>3, ReplacedByPeer
  <2>2. Locked(h) /\ a.pc = "locking" /\ a.require = require
    BY <1>3, ReplacedByPeer DEF Locked, ConfigFresh
  <2>3. a \in Locking
    BY <2>2, RequestPhases
  <2>4. PICK t \in Torrent, i \in Index : a.torrent = t /\ a.index = i
    BY <2>3 DEF Locking
  <2>5. Cardinality(OnList(u, d)') = Cardinality(OnList(u, d)) + Owed(u, d)'[h]
    BY <2>1, <2>2, <2>4, ReplaceOwes
  <2>6. CountOf(u, d)' = CountOf(u, d) /\ Owed(u, d)[h] = 0
    BY <2>1, <2>2 DEF Replace, CountOf, Owed
  <2> QED BY <1>1, <2>5, <2>6
<1>4. CASE Count(h)
  <2>1. a \in Late /\ a.pc = "counting"
    BY <1>4, RequestPhases DEF Count
  <2>2. UNCHANGED <<torrents, api, require>>
    BY <1>4 DEF Count
  <2>3. OnList(u, d)' = OnList(u, d)
    BY <2>2, SameListsKept
  <2>4. Owed(u, d)'[h] = 0
    <3>1. announce'[h].pc = "queueing"
      BY <1>4, <2>1 DEF Count, TypeOK, Late
    <3> QED BY <3>1 DEF Owed
  <2>5. CountOf(u, d)' >= CountOf(u, d) + Owed(u, d)[h]
    <3>1. /\ a.index[1] \in User /\ a.seeder_delta \in Int /\ a.leecher_delta \in Int
      BY <2>1 DEF Late, Index
    <3>2. users[u] \in [num_seeding : Nat, num_leeching : Nat]
      BY DEF TypeOK
    <3>3. CASE a.index[1] = u
      <4>1. users'[u].num_seeding = Saturating(users[u].num_seeding, a.seeder_delta)
        BY <1>4, <3>2, <3>3 DEF Count, TypeOK
      <4>2. users'[u].num_leeching = Saturating(users[u].num_leeching, a.leecher_delta)
        BY <1>4, <3>2, <3>3 DEF Count, TypeOK
      <4>3. Owed(u, d)[h] = IF d = "seeder_delta" THEN a.seeder_delta ELSE a.leecher_delta
        BY <2>1, <3>3 DEF Owed, DeltaName
      <4> QED BY <3>1, <3>2, <4>1, <4>2, <4>3 DEF CountOf, Saturating
    <3>4. CASE a.index[1] # u
      <4>1. users'[u] = users[u]
        BY <1>4, <3>4 DEF Count, TypeOK
      <4>2. Owed(u, d)[h] = 0
        BY <3>4 DEF Owed
      <4> QED BY <1>1, <4>1, <4>2 DEF CountOf
    <3> QED BY <3>3, <3>4
  <2>6. CountOf(u, d)' \in Nat
    <3>1. UsersTyped'
      BY UsersTypes, PTL
    <3> QED BY <3>1 DEF UsersTyped
  <2> QED BY <1>1, <2>3, <2>4, <2>5, <2>6
<1> QED BY <1>2, <1>3, <1>4 DEF Announce

\* An upsert of the website leaves no user with more peers on the lists
\* (api/torrent.rs, upsert).
LEMMA UpsertCovers ==
    ASSUME TypeOK, TypeOK', NEW a \in ApiCall, TakeOut(a) \/ PutIn(a), NEW u \in User,
           NEW d \in DeltaName
    PROVE  Cardinality(OnList(u, d)') <= Cardinality(OnList(u, d))
<1>1. CASE TakeOut(a)
  <2>1. PICK t \in Torrent, is_deleted \in BOOLEAN, s \in ApiCount, l \in ApiCount :
          /\ api' = [api EXCEPT ![a] =
                [pc |-> "holding", torrent |-> t, is_deleted |-> is_deleted, seeders |-> s,
                 leechers |-> l,
                 peers |-> IF torrents[t] = Absent THEN NoPeers ELSE torrents[t].peers]]
          /\ torrents' = [torrents EXCEPT ![t] = Absent]
    BY <1>1 DEF TakeOut
  <2> DEFINE x == <<"store", t>>
             y == <<"call", a>>
  <2>2. x \in Place /\ y \in Place /\ x # y
    BY DEF Place
  <2>3. PeersAt(y)' = PeersAt(x) /\ PeersAt(x)' = NoPeers
    BY <2>1 DEF PeersAt, TypeOK, Free
  <2>4. ASSUME NEW z \in Place \ {x, y} PROVE PeersAt(z)' = PeersAt(z)
    BY <2>1 DEF PeersAt, Place, TypeOK
  <2>5. require' = require
    BY <1>1 DEF TakeOut
  <2> HIDE DEF x, y
  <2> QED BY <2>2, <2>3, <2>4, <2>5, HandedOver
<1>2. CASE PutIn(a)
  <2>1. api[a] \in Holding
    BY <1>2, CallPhases DEF PutIn, Free
  <2>2. PICK t \in Torrent : api[a].torrent = t
    BY <2>1 DEF Holding
  <2> DEFINE x == <<"call", a>>
             y == <<"store", t>>
             entry == [is_deleted |-> api[a].is_deleted, seeders |-> api[a].seeders,
                       leechers |-> api[a].leechers, peers |-> api[a].peers]
  <2>3. /\ torrents' = [torrents EXCEPT ![t] = entry] /\ api' = [api EXCEPT ![a] = Free]
        /\ require' = require /\ api[a] # Free
    BY <1>2, <2>2 DEF PutIn, Free
  <2>4. x \in Place /\ y \in Place /\ x # y
    BY DEF Place
  <2>5. entry # Absent /\ entry.peers = api[a].peers
    BY <2>1, AbsentAssumption DEF Holding, Entry
  <2>6. torrents'[t] = entry /\ api'[a] = Free
    BY <2>3 DEF TypeOK
  <2>7. PeersAt(y)' = PeersAt(x) /\ PeersAt(x)' = NoPeers
    <3> HIDE DEF entry
    <3>1. PeersAt(y)' = api[a].peers
      BY <2>5, <2>6 DEF PeersAt
    <3> QED BY <2>3, <2>6, <3>1 DEF PeersAt
  <2>8. ASSUME NEW z \in Place \ {x, y} PROVE PeersAt(z)' = PeersAt(z)
    <3> HIDE DEF entry
    <3> QED BY <2>3 DEF PeersAt, Place, TypeOK
  <2> HIDE DEF x, y
  <2> QED BY <2>3, <2>4, <2>7, <2>8, HandedOver
<1> QED BY <1>1, <1>2

\* Every other step but a reload keeps a user's count as far above the user's
\* peers on the lists (scheduler.rs, reap; api/torrent.rs).
LEMMA OthersCover ==
    ASSUME TypeOK, TypeOK', ConfigFresh, [Next]_vars, ~Reload,
           ~(\E h \in Handler : Announce(h)), NEW u \in User, NEW d \in DeltaName
    PROVE  /\ announce' = announce \/ Tick
           /\ CountOf(u, d)' - Cardinality(OnList(u, d)')
                >= CountOf(u, d) - Cardinality(OnList(u, d))
<1>1. /\ CountOf(u, d) \in Nat /\ Cardinality(OnList(u, d)) \in Nat
      /\ Cardinality(OnList(u, d)') \in Nat
  <2>1. UsersTyped /\ UsersTyped'
    BY UsersTypes, PTL
  <2> QED BY <2>1 DEF UsersTyped
<1>2. CASE ReapStarts \/ UNCHANGED vars
  <2>1. UNCHANGED <<torrents, users, api, require, announce>>
    BY <1>2 DEF ReapStarts, vars
  <2>2. OnList(u, d)' = OnList(u, d) /\ CountOf(u, d)' = CountOf(u, d)
    BY <2>1, SameListsKept DEF CountOf
  <2> QED BY <1>1, <2>1, <2>2
<1>3. CASE Reap
  <2>1. announce' = announce /\ reaper.require = require
    BY <1>3 DEF Reap, ConfigFresh
  <2> QED BY <1>3, <2>1, ReapCovers
<1>4. CASE \E a \in ApiCall : TakeOut(a) \/ PutIn(a)
  <2>1. PICK a \in ApiCall : TakeOut(a) \/ PutIn(a)
    BY <1>4
  <2>2. announce' = announce /\ CountOf(u, d)' = CountOf(u, d)
    BY <2>1 DEF TakeOut, PutIn, CountOf
  <2>3. Cardinality(OnList(u, d)') <= Cardinality(OnList(u, d))
    BY <2>1, UpsertCovers
  <2> QED BY <1>1, <2>2, <2>3
<1>5. CASE \E t \in Torrent : Destroy(t)
  <2>1. PICK t \in Torrent : Destroy(t)
    BY <1>5
  <2>2. UNCHANGED <<users, api, require, announce>>
    BY <2>1 DEF Destroy
  <2>3. ASSUME NEW s \in Torrent
        PROVE  /\ torrents'[s] = Absent <=> torrents[s] = Absent
               /\ torrents[s] # Absent => torrents'[s].peers = torrents[s].peers
    <3>1. CASE s # t
      BY <2>1, <3>1 DEF Destroy, TypeOK
    <3>2. CASE s = t
      <4>1. torrents[t] \in Entry
        BY <2>1, PresentType DEF Destroy
      <4>2. torrents'[t] = [torrents[t] EXCEPT !.is_deleted = TRUE]
        BY <2>1 DEF Destroy, TypeOK
      <4>3. torrents'[t] \in Entry /\ torrents'[t].peers = torrents[t].peers
        BY <4>1, <4>2 DEF Entry
      <4> QED BY <3>2, <4>1, <4>3, AbsentAssumption
    <3> QED BY <3>1, <3>2
  <2>4. \A x \in Place : PeersAt(x)' = PeersAt(x)
    BY <2>2, <2>3, PlacesKept
  <2>5. OnList(u, d)' = OnList(u, d)
    BY <2>2, <2>4, ListsKept
  <2>6. CountOf(u, d)' = CountOf(u, d)
    BY <2>2 DEF CountOf
  <2> QED BY <1>1, <2>2, <2>5, <2>6
<1>6. CASE Tick
  <2>1. UNCHANGED <<users, require>>
    BY <1>6 DEF Tick
  <2>2. ASSUME NEW x \in Place
        PROVE  ListIn(PeersAt(x)', require, d) = ListIn(PeersAt(x), require, d)
    <3>1. PeersAt(x) \in PeerStore /\ require \in BOOLEAN
      BY PlacesTypes DEF PlacesTyped, TypeOK
    <3>2. PeersAt(x)' = OlderPeers(PeersAt(x))
      <4>1. OlderPeers(NoPeers) = NoPeers
        BY DEF OlderPeers, NoPeers
      <4>2. ASSUME NEW t \in Torrent PROVE PeersAt(<<"store", t>>)' = OlderPeers(PeersAt(<<"store", t>>))
        <5>1. CASE torrents[t] = Absent
          BY <1>6, <4>1, <5>1 DEF Tick, PeersAt
        <5>2. CASE torrents[t] # Absent
          <6>1. torrents[t] \in Entry
            BY <5>2, PresentType
          <6>2. torrents'[t] = [torrents[t] EXCEPT !.peers = OlderPeers(@)]
            BY <1>6, <5>2 DEF Tick
          <6>3. OlderPeers(torrents[t].peers) \in PeerStore
            BY <6>1, PeersType DEF Entry
          <6>4. torrents'[t] \in Entry /\ torrents'[t].peers = OlderPeers(torrents[t].peers)
            BY <6>1, <6>2, <6>3 DEF Entry
          <6> QED BY <5>2, <6>4, AbsentAssumption DEF PeersAt
        <5> QED BY <5>1, <5>2
      <4>3. ASSUME NEW a \in ApiCall PROVE PeersAt(<<"call", a>>)' = OlderPeers(PeersAt(<<"call", a>>))
        <5>1. CASE api[a] = Free
          BY <1>6, <4>1, <5>1 DEF Tick, PeersAt
        <5>2. CASE api[a] # Free
          <6>1. api[a] \in Holding
            BY <5>2, CallPhases
          <6>2. api'[a] = [api[a] EXCEPT !.peers = OlderPeers(@)]
            BY <1>6, <5>2 DEF Tick
          <6>3. api'[a].pc = "holding" /\ api'[a].peers = OlderPeers(api[a].peers)
            BY <6>1, <6>2 DEF Holding
          <6> QED BY <5>2, <6>3 DEF PeersAt, Free
        <5> QED BY <5>1, <5>2
      <4> QED BY <4>2, <4>3 DEF Place
    <3>3. OlderPeers(PeersAt(x)) \in PeerStore
      BY <3>1, PeersType
    <3>4. /\ SeedersIn(OlderPeers(PeersAt(x)), require) = SeedersIn(PeersAt(x), require)
          /\ LeechersIn(OlderPeers(PeersAt(x)), require) = LeechersIn(PeersAt(x), require)
      BY <3>1, OlderPeersListed
    <3> QED BY <3>1, <3>2, <3>3, <3>4, ListsByName DEF DeltaName
  <2>3. OnList(u, d)' = OnList(u, d)
    BY <2>1, <2>2, ListsKept
  <2>4. CountOf(u, d)' = CountOf(u, d)
    BY <2>1 DEF CountOf
  <2> QED BY <1>1, <1>6, <2>3, <2>4
<1> QED BY <1>2, <1>3, <1>4, <1>5, <1>6 DEF Next

\* Without a reload, every step keeps the users' counts at their peers or above.
LEMMA UsersStep == UsersInvariant /\ [Next]_vars => UsersInvariant'
<1> SUFFICES ASSUME UsersInvariant, [Next]_vars PROVE UsersInvariant'
  OBVIOUS
<1>1. TypeOK /\ TypeOK'
  BY TypeStep DEF UsersInvariant
<1>2. ASSUME reloads' = 0 PROVE ConfigFresh' /\ UsersCovered'
  <2>1. reloads = 0 /\ ~Reload
    <3>1. reloads \in Nat
      BY <1>1, NumberAssumption DEF TypeOK
    <3>2. ~Reload
      BY <1>2, <3>1 DEF Reload
    <3>3. reloads' = reloads
      BY <3>2 DEF Next, vars, Announce, Receive, Probed, Reject, Refuse, Stop, Modify, Insert,
                  Replace, Count, Queue, ReapStarts, Reap, TakeOut, PutIn, Destroy, Tick
    <3> QED BY <1>2, <3>2, <3>3
  <2>2. ConfigFresh /\ UsersCovered
    BY <2>1 DEF UsersInvariant
  <2>3. ConfigFresh'
    BY <1>1, <2>1, <2>2, FreshKept
  <2>4. ASSUME NEW u \in User, NEW d \in DeltaName
        PROVE  CountOf(u, d)' + SumFunction(Owed(u, d)') >= Cardinality(OnList(u, d)')
    <3> DEFINE n == CountOf(u, d)
               n1 == CountOf(u, d)'
               owed == SumFunction(Owed(u, d))
               owed1 == SumFunction(Owed(u, d)')
               k == Cardinality(OnList(u, d))
               k1 == Cardinality(OnList(u, d)')
    <3>1. n \in Nat /\ n1 \in Nat /\ k \in Nat /\ k1 \in Nat
      <4>1. UsersTyped /\ UsersTyped'
        BY <1>1, UsersTypes, PTL
      <4> QED BY <4>1 DEF UsersTyped
    <3>2. n + owed >= k
      BY <2>2 DEF UsersCovered
    <3>3. owed \in Int
      BY <1>1, DeltasTypes, SetAssumption, TotalType DEF DeltasTyped
    <3>4. CASE \E h \in Handler : Announce(h)
      <4>1. PICK h \in Handler : Announce(h)
        BY <3>4
      <4> DEFINE own == Owed(u, d)[h]
                 own1 == Owed(u, d)'[h]
      <4>2. own \in Int /\ own1 \in Int
        <5>1. DeltasTyped /\ DeltasTyped'
          BY <1>1, DeltasTypes, PTL
        <5> QED BY <5>1 DEF DeltasTyped
      <4>3. owed1 = owed + own1 - own
        BY <1>1, <4>1, DeltasChange
      <4>4. n1 + own1 - k1 >= n + own - k
        BY <1>1, <2>2, <4>1, AnnounceCovers
      <4> HIDE DEF n, n1, owed, owed1, k, k1, own, own1
      <4>5. n1 + owed1 >= k1
        BY <3>1, <3>2, <3>3, <4>2, <4>3, <4>4
      <4> QED BY <4>5 DEF n1, owed1, k1
    <3>5. CASE ~(\E h \in Handler : Announce(h))
      <4>1. (announce' = announce \/ Tick) /\ n1 - k1 >= n - k
        BY <1>1, <2>1, <2>2, <3>5, OthersCover
      <4>2. owed1 = owed
        BY <1>1, <4>1, DeltasKept
      <4> HIDE DEF n, n1, owed, owed1, k, k1
      <4>3. n1 + owed1 >= k1
        BY <3>1, <3>2, <3>3, <4>1, <4>2
      <4> QED BY <4>3 DEF n1, owed1, k1
    <3> QED BY <3>4, <3>5
  <2> QED BY <2>3, <2>4 DEF UsersCovered
<1> QED BY <1>1, <1>2 DEF UsersInvariant

\* The lists by places hold those by torrents (store/user.rs).
LEMMA UsersInvariantShows == UsersInvariant => UsersNeverUndercounted
<1> SUFFICES ASSUME TypeOK, UsersCovered, NEW u \in User
             PROVE  /\ users[u].num_seeding + SumFunction(Owed(u, "seeder_delta"))
                          >= Listed(u, SeedersIn)
                    /\ users[u].num_leeching + SumFunction(Owed(u, "leecher_delta"))
                          >= Listed(u, LeechersIn)
  BY DEF UsersInvariant, UsersNeverUndercounted
<1>1. /\ CountOf(u, "seeder_delta") = users[u].num_seeding
      /\ CountOf(u, "leecher_delta") = users[u].num_leeching
  BY DEF CountOf
<1>2. /\ Listed(u, SeedersIn) <= Cardinality(OnList(u, "seeder_delta"))
      /\ Listed(u, LeechersIn) <= Cardinality(OnList(u, "leecher_delta"))
  BY ListedCovered
<1>3. /\ users[u].num_seeding + SumFunction(Owed(u, "seeder_delta"))
            >= Cardinality(OnList(u, "seeder_delta"))
      /\ users[u].num_leeching + SumFunction(Owed(u, "leecher_delta"))
            >= Cardinality(OnList(u, "leecher_delta"))
  BY <1>1 DEF UsersCovered, DeltaName
<1>4. /\ users[u].num_seeding \in Nat /\ users[u].num_leeching \in Nat
      /\ SumFunction(Owed(u, "seeder_delta")) \in Int
      /\ SumFunction(Owed(u, "leecher_delta")) \in Int
      /\ Cardinality(OnList(u, "seeder_delta")) \in Nat
      /\ Cardinality(OnList(u, "leecher_delta")) \in Nat
  BY <1>1, UsersTypes, DeltasTypes, SetAssumption, TotalType
     DEF UsersTyped, DeltasTyped, DeltaName
<1>5. Listed(u, SeedersIn) \in Int /\ Listed(u, LeechersIn) \in Int
  <2>1. \A S \in SUBSET (Torrent \X Index) : Cardinality(S) \in Nat
    BY SetAssumption, IndexFinite, FS_Product, FS_Subset, FS_CardinalityType
  <2> QED BY <2>1 DEF Listed
<1> HIDE DEF OnList
<1> QED BY <1>2, <1>3, <1>4, <1>5

\* A user's counts, with what requests in flight still owe, are never below the
\* number of the user's peers on the lists, whatever announces, reaps and API
\* calls interleave (announce.rs, the users lock after the torrents lock).
THEOREM UsersKeepUp == Spec => []UsersNeverUndercounted
<1>1. Init => UsersInvariant
  BY TypeInit, UsersInit DEF Init, Empty
<1> QED BY <1>1, UsersInvariantShows, UsersStep, PTL DEF Spec

(***************************************************************************)
(* What erases a peer.                                                     *)
(***************************************************************************)
InStore(t, i) == torrents[t] # Absent /\ torrents[t].peers[i] # NoPeer

InHandsOf(a, t, i) ==
    api[a].pc = "holding" /\ api[a].torrent = t /\ api[a].peers[i] # NoPeer

\* A peer is known in the store or in the hands of a call (api/torrent.rs).
KnownSomewhere ==
    \A t \in Torrent, i \in Index :
        Known(t, i) <=> InStore(t, i) \/ \E a \in ApiCall : InHandsOf(a, t, i)

\* There is no other place.
LEMMA KnownWhere == KnownSomewhere
<1> SUFFICES ASSUME NEW t \in Torrent, NEW i \in Index
             PROVE  Known(t, i) <=> InStore(t, i) \/ \E a \in ApiCall : InHandsOf(a, t, i)
  BY DEF KnownSomewhere
<1>1. ASSUME NEW peers \in PlacesOf(t), peers[i] # NoPeer
      PROVE  InStore(t, i) \/ \E a \in ApiCall : InHandsOf(a, t, i)
  <2>1. CASE torrents[t] # Absent /\ peers = torrents[t].peers
    BY <1>1, <2>1 DEF InStore
  <2>2. CASE \E a \in ApiCall :
                api[a].pc = "holding" /\ api[a].torrent = t /\ peers = api[a].peers
    BY <1>1, <2>2 DEF InHandsOf
  <2> QED BY <2>1, <2>2 DEF PlacesOf
<1>2. InStore(t, i) => Known(t, i)
  BY DEF InStore, Known, PlacesOf
<1>3. ASSUME NEW a \in ApiCall, InHandsOf(a, t, i) PROVE Known(t, i)
  <2>1. api[a].peers \in PlacesOf(t)
    BY <1>3 DEF InHandsOf, PlacesOf
  <2> QED BY <1>3, <2>1 DEF InHandsOf, Known
<1> QED BY <1>1, <1>2, <1>3 DEF Known

\* An announce erases no peer but the one it stops (announce.rs, the match on the
\* event).
LEMMA AnnounceErases ==
    ASSUME TypeOK, NEW h \in Handler, Announce(h), NEW t \in Torrent, NEW i \in Index,
           InStore(t, i), ~InStore(t, i)'
    PROVE  /\ announce[h].pc = "locking" /\ announce[h].event = "stopped"
           /\ announce[h].torrent = t /\ announce[h].index = i
<1>1. CASE Receive(h) \/ Probed(h) \/ Reject(h) \/ Count(h) \/ Queue(h)
  BY <1>1 DEF Receive, Probed, Reject, Refuse, Count, Queue, InStore
<1>2. CASE Stop(h) \/ Modify(h) \/ Insert(h)
  <2>1. PICK new \in Peer \cup {NoPeer} : Replace(h, new) /\ (new = NoPeer => Stop(h))
    <3>1. CASE Stop(h)
      BY <3>1 DEF Stop
    <3>2. CASE Modify(h) \/ Insert(h)
      <4>1. announce[h] \in Locking
        BY <3>2, RequestPhases DEF Modify, Insert, Locked
      <4>2. announce[h].torrent \in Present /\ announce[h].index \in Index
        BY <3>2, <4>1 DEF Modify, Insert, Locked, Announceable, Locking, Present
      <4>3. OldPeer(h) \in Peer \cup {NoPeer}
        BY <4>2, PresentCounts DEF OldPeer, PeerStore
      <4> QED BY <3>2, <4>1, <4>3, AnnouncedPeerType, SentinelAssumption DEF Modify, Insert
    <3> QED BY <1>2, <3>1, <3>2
  <2>2. Locked(h)
    BY <1>2 DEF Stop, Modify, Insert
  <2>3. /\ announce[h] \in Locking /\ announce[h].torrent \in Present
        /\ torrents'[announce[h].torrent].peers
              = [torrents[announce[h].torrent].peers EXCEPT ![announce[h].index] = new]
        /\ torrents'[announce[h].torrent] \in Entry
        /\ \A s \in Torrent : s # announce[h].torrent => torrents'[s] = torrents[s]
    BY <2>1, <2>2, ReplaceHolds
  <2>4. announce[h].torrent = t
    BY <2>3 DEF InStore
  <2>5. torrents[t].peers \in PeerStore /\ torrents'[t] # Absent
    BY <2>3, <2>4, PresentCounts, AbsentAssumption
  <2>6. torrents'[t].peers[i] = NoPeer
    BY <2>5 DEF InStore
  <2>7. announce[h].index = i /\ new = NoPeer
    BY <2>3, <2>4, <2>5, <2>6 DEF InStore, PeerStore
  <2> QED BY <2>1, <2>2, <2>4, <2>7 DEF Stop, Locked
<1> QED BY <1>1, <1>2 DEF Announce

\* A reap erases no peer of the store but one that was forgotten (reap).
LEMMA ReapErases ==
    ASSUME TypeOK, Reap, NEW t \in Torrent, NEW i \in Index, InStore(t, i), ~InStore(t, i)'
    PROVE  Forgotten(torrents[t].peers[i])
<1>1. torrents[t] \in Entry
  BY PresentType DEF InStore
<1>2. torrents[t].peers[i] \in Peer
  BY <1>1 DEF InStore, Entry, PeerStore
<1>3. t \in Present
  BY DEF InStore, Present
<1>4. torrents'[t] \in Entry
  BY <1>3, ReapKeepsEntries
<1>5. torrents'[t].peers[i] = NoPeer
  BY <1>4, AbsentAssumption DEF InStore
<1>6. torrents'[t].peers[i] = Reaped(torrents[t].peers[i])
  BY <1>1 DEF Reap, ReapedPeers, InStore, Entry
<1>7. \A p \in Peer : Reaped(p) = NoPeer => Forgotten(p)
  BY SentinelAssumption DEF Reaped, Peer
<1> QED BY <1>2, <1>5, <1>6, <1>7

\* Time erases no peer (the ages of updated_at).
LEMMA TickErases ==
    ASSUME TypeOK, Tick, NEW t \in Torrent, NEW i \in Index
    PROVE  /\ InStore(t, i) => InStore(t, i)'
           /\ \A a \in ApiCall : InHandsOf(a, t, i) => InHandsOf(a, t, i)'
<1>1. ASSUME NEW p \in Peer PROVE [p EXCEPT !.age = Older(p.age)] # NoPeer
  <2>1. Older(p.age) \in Age
    BY NumberAssumption DEF Older, Peer, Age, Oldest
  <2> QED BY <2>1, SentinelAssumption DEF Peer
<1>2. ASSUME NEW peers \in PeerStore, peers[i] # NoPeer PROVE OlderPeers(peers)[i] # NoPeer
  <2>1. peers[i] \in Peer
    BY <1>2 DEF PeerStore
  <2> QED BY <1>1, <1>2, <2>1 DEF OlderPeers
<1>3. ASSUME InStore(t, i) PROVE InStore(t, i)'
  <2>1. torrents[t] \in Entry
    BY <1>3, PresentType DEF InStore
  <2>2. torrents'[t] = [torrents[t] EXCEPT !.peers = OlderPeers(torrents[t].peers)]
    BY <1>3 DEF Tick, InStore
  <2>3. torrents'[t].peers = OlderPeers(torrents[t].peers) /\ torrents[t].peers \in PeerStore
    BY <2>1, <2>2 DEF Entry
  <2>4. torrents' \in [Torrent -> Entry \cup {Absent}] /\ torrents'[t] # Absent
    <3>1. OlderPeers(torrents[t].peers) \in PeerStore
      BY <2>3, PeersType
    <3>2. torrents'[t] \in Entry
      BY <2>1, <2>2, <3>1 DEF Entry
    <3>3. torrents' \in [Torrent -> Entry \cup {Absent}]
      BY TickType DEF TypeOK
    <3> QED BY <3>2, <3>3, AbsentAssumption
  <2> QED BY <1>2, <1>3, <2>3, <2>4 DEF InStore
<1>4. ASSUME NEW a \in ApiCall, InHandsOf(a, t, i) PROVE InHandsOf(a, t, i)'
  <2>1. api[a] # Free
    BY <1>4 DEF InHandsOf, Free
  <2>2. api[a] \in Holding
    BY <2>1, CallPhases
  <2>3. api'[a] = [api[a] EXCEPT !.peers = OlderPeers(api[a].peers)]
    BY <2>1 DEF Tick
  <2>4. /\ api'[a].pc = "holding" /\ api'[a].torrent = t
        /\ api'[a].peers = OlderPeers(api[a].peers) /\ api[a].peers \in PeerStore
    BY <1>4, <2>2, <2>3 DEF Holding, InHandsOf
  <2> QED BY <1>2, <1>4, <2>4 DEF InHandsOf
<1> QED BY <1>3, <1>4

\* An upsert of the website erases no peer but from under another one that
\* overlaps it (api/torrent.rs, upsert).
LEMMA UpsertErases ==
    ASSUME TypeOK, TypeOK', NEW a \in ApiCall, TakeOut(a) \/ PutIn(a), NEW t \in Torrent,
           NEW i \in Index, InStore(t, i) \/ \E b \in ApiCall : InHandsOf(b, t, i),
           ~(InStore(t, i)' \/ \E b \in ApiCall : InHandsOf(b, t, i)')
    PROVE  api[a].pc = "holding" /\ api[a].torrent = t /\ api'[a] = Free /\ torrents[t] # Absent
<1>1. ASSUME NEW b \in ApiCall, b # a, InHandsOf(b, t, i) PROVE InHandsOf(b, t, i)'
  <2>1. api'[b] = api[b]
    BY <1>1 DEF TakeOut, PutIn, TypeOK
  <2> QED BY <1>1, <2>1 DEF InHandsOf
<1>2. CASE TakeOut(a)
  <2>1. ~InHandsOf(a, t, i) /\ InStore(t, i)
    BY <1>1, <1>2 DEF TakeOut, InHandsOf, Free
  <2>2. PICK s \in Torrent :
            /\ \E d \in BOOLEAN, m \in ApiCount, l \in ApiCount :
                  api' = [api EXCEPT ![a] =
                     [pc |-> "holding", torrent |-> s, is_deleted |-> d, seeders |-> m,
                      leechers |-> l,
                      peers |-> IF torrents[s] = Absent THEN NoPeers ELSE torrents[s].peers]]
            /\ torrents' = [torrents EXCEPT ![s] = Absent]
    BY <1>2 DEF TakeOut
  <2>3. CASE s = t
    BY <2>1, <2>2, <2>3 DEF InStore, InHandsOf, TypeOK
  <2>4. CASE s # t
    BY <2>1, <2>2, <2>4 DEF InStore, TypeOK
  <2> QED BY <2>3, <2>4
<1>3. CASE PutIn(a)
  <2>1. /\ api[a].pc = "holding" /\ api'[a] = Free
        /\ torrents' = [torrents EXCEPT ![api[a].torrent] =
              [is_deleted |-> api[a].is_deleted, seeders |-> api[a].seeders,
               leechers |-> api[a].leechers, peers |-> api[a].peers]]
    BY <1>3 DEF PutIn, TypeOK
  <2>2. api[a] \in Holding
    BY <2>1, CallPhases DEF Free
  <2>3. api[a].torrent = t
    BY <1>1, <2>1, <2>2 DEF InStore, InHandsOf, Holding, TypeOK
  <2>4. torrents'[t] =
            [is_deleted |-> api[a].is_deleted, seeders |-> api[a].seeders,
             leechers |-> api[a].leechers, peers |-> api[a].peers]
    BY <2>1, <2>3 DEF TypeOK
  <2>5. torrents'[t] \in Entry
    BY <2>2, <2>4 DEF Holding, Entry
  <2>6. ~InHandsOf(a, t, i)
    BY <2>4, <2>5, AbsentAssumption DEF InStore, InHandsOf
  <2>7. InStore(t, i)
    BY <1>1, <2>6
  <2> QED BY <2>1, <2>3, <2>7 DEF InStore
<1> QED BY <1>2, <1>3

\* A peer is erased by a stop of its own, by a reap after it was silent for long
\* enough, or by two upserts of its torrent that overlap, and by nothing else, for
\* any number of requests and calls (announce.rs; scheduler.rs, reap;
\* api/torrent.rs, upsert).
THEOREM NothingElseErases == Spec => ErasedOnlyWhenStale
<1>1. ASSUME TypeOK, [Next]_vars, NEW t \in Torrent, NEW i \in Index, Known(t, i),
             ~Known(t, i)'
      PROVE  \/ ForgottenEverywhere(t, i)
             \/ \E h \in Handler : announce[h].pc = "locking" /\ announce[h].event = "stopped"
                                   /\ announce[h].torrent = t /\ announce[h].index = i
             \/ \E a \in ApiCall : api[a].pc = "holding" /\ api[a].torrent = t
                                   /\ api'[a] = Free /\ torrents[t] # Absent
  <2>1. KnownSomewhere /\ KnownSomewhere' /\ TypeOK'
    BY <1>1, KnownWhere, TypeStep, PTL
  <2>2. InStore(t, i) \/ \E a \in ApiCall : InHandsOf(a, t, i)
    BY <1>1, <2>1 DEF KnownSomewhere
  <2>3. ~InStore(t, i)' /\ \A a \in ApiCall : ~InHandsOf(a, t, i)'
    BY <1>1, <2>1 DEF KnownSomewhere
  <2>4. api' = api => InStore(t, i) /\ \A a \in ApiCall : ~InHandsOf(a, t, i)
    BY <2>2, <2>3 DEF InHandsOf
  <2>5. torrents' = torrents => ~InStore(t, i)
    BY <2>3 DEF InStore
  <2>6. CASE \E h \in Handler : Announce(h)
    <3>1. PICK h \in Handler : Announce(h)
      BY <2>6
    <3>2. api' = api
      BY <3>1 DEF Announce, Receive, Probed, Reject, Refuse, Stop, Modify, Insert, Replace,
                  Count, Queue
    <3> QED BY <1>1, <2>3, <2>4, <3>1, <3>2, AnnounceErases
  <2>7. CASE ReapStarts \/ Reload \/ UNCHANGED vars
    BY <2>4, <2>5, <2>7 DEF ReapStarts, Reload, vars
  <2>8. CASE Reap
    <3>1. InStore(t, i) /\ \A a \in ApiCall : ~InHandsOf(a, t, i)
      BY <2>4, <2>8 DEF Reap
    <3>2. Forgotten(torrents[t].peers[i])
      BY <1>1, <2>3, <2>8, <3>1, ReapErases
    <3>3. ASSUME NEW peers \in PlacesOf(t), peers[i] # NoPeer PROVE Forgotten(peers[i])
      <4>1. peers = torrents[t].peers
        BY <3>1, <3>3 DEF PlacesOf, InHandsOf
      <4> QED BY <3>2, <4>1
    <3> QED BY <3>3 DEF ForgottenEverywhere
  <2>9. CASE \E a \in ApiCall : TakeOut(a) \/ PutIn(a)
    <3>1. PICK a \in ApiCall : TakeOut(a) \/ PutIn(a)
      BY <2>9
    <3>2. api[a].pc = "holding" /\ api[a].torrent = t /\ api'[a] = Free /\ torrents[t] # Absent
      BY <1>1, <2>1, <2>2, <2>3, <3>1, UpsertErases
    <3> QED BY <3>2
  <2>10. CASE \E s \in Torrent : Destroy(s)
    <3>1. PICK s \in Torrent : Destroy(s)
      BY <2>10
    <3>2. InStore(t, i)
      BY <2>4, <3>1 DEF Destroy
    <3>3. torrents[t] \in Entry
      BY <1>1, <3>2, PresentType DEF InStore
    <3>4. torrents'[t] \in {torrents[t], [torrents[t] EXCEPT !.is_deleted = TRUE]}
      BY <1>1, <3>1 DEF Destroy, TypeOK
    <3>5. torrents'[t] \in Entry /\ torrents'[t].peers = torrents[t].peers
      BY <3>3, <3>4 DEF Entry
    <3> QED BY <2>3, <3>2, <3>5, AbsentAssumption DEF InStore
  <2>11. CASE Tick
    BY <1>1, <2>2, <2>3, <2>11, TickErases
  <2> QED BY <1>1, <2>6, <2>7, <2>8, <2>9, <2>10, <2>11 DEF Next
<1>2. TypeOK /\ [Next]_vars =>
        [ \A t \in Torrent, i \in Index :
            Known(t, i) /\ ~Known(t, i)' =>
              \/ ForgottenEverywhere(t, i)
              \/ \E h \in Handler : announce[h].pc = "locking" /\ announce[h].event = "stopped"
                                    /\ announce[h].torrent = t /\ announce[h].index = i
              \/ \E a \in ApiCall : api[a].pc = "holding" /\ api[a].torrent = t
                                    /\ api'[a] = Free /\ torrents[t] # Absent ]_vars
  BY <1>1
<1> QED BY <1>2, TypeCorrect, PTL DEF Spec, ErasedOnlyWhenStale
=============================================================================
