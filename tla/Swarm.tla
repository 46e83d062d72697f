-------------------------------- MODULE Swarm --------------------------------
(***************************************************************************)
(* The peers of every torrent and the counters kept beside them: the       *)
(* torrents' seeders and leechers, and the users' num_seeding and          *)
(* num_leeching.  Announces, the reaper, the website's API calls and       *)
(* config reloads run concurrently; an announce takes the torrents lock    *)
(* once, and reads or writes everything else before or after that.         *)
(*                                                                         *)
(* Time is kept as ages: a peer's age is how many ticks ago its updated_at *)
(* was.                                                                    *)
(***************************************************************************)
EXTENDS Integers, FiniteSets, Functions

CONSTANTS
    Torrent,
    User,
    PeerId,
    Handler,          \* announce requests that may be in flight at once
    ApiCall,          \* torrent upserts that may be in flight at once
    NoPeer,           \* no peer with this index
    Absent,           \* no torrent with this id
    Slots,            \* download_slots of the users' group
    MaxPeers,         \* max_peers_per_torrent_per_user
    ActiveTtl,        \* active_peer_ttl, in ticks
    InactiveTtl,      \* inactive_peer_ttl, in ticks
    Connectable,      \* the outcomes check_connectivity may have
    ApiCount,         \* the counters the website may send
    Require,          \* require_peer_connectivity at the start
    MaxAnnounces,     \* bound on announces
    MaxReloads,       \* bound on config reloads
    MaxApiCalls       \* bound on torrent upserts

ASSUME SetAssumption ==
    /\ IsFiniteSet(Torrent) /\ IsFiniteSet(User) /\ IsFiniteSet(PeerId)
    /\ IsFiniteSet(Handler) /\ IsFiniteSet(ApiCall)
    /\ Connectable \subseteq BOOLEAN /\ Require \in BOOLEAN /\ ApiCount \subseteq Nat
ASSUME NumberAssumption ==
    /\ Slots \in Nat /\ MaxPeers \in Nat
    /\ ActiveTtl \in Nat /\ InactiveTtl \in Nat
    /\ MaxAnnounces \in Nat /\ MaxReloads \in Nat /\ MaxApiCalls \in Nat

\* store/peer.rs, Index
Index == User \X PeerId

\* Older than both times to live is as old as it matters.
Oldest == 1 + (IF ActiveTtl < InactiveTtl THEN InactiveTtl ELSE ActiveTtl)

Age == 0..Oldest

Peer == [is_seeder : BOOLEAN, is_active : BOOLEAN, is_visible : BOOLEAN,
         is_connectable : BOOLEAN, age : Age]

ASSUME SentinelAssumption == NoPeer \notin Peer

PeerStore == [Index -> Peer \cup {NoPeer}]

NoPeers == [i \in Index |-> NoPeer]

Entry == [is_deleted : BOOLEAN, seeders : Nat, leechers : Nat, peers : PeerStore]

ASSUME AbsentAssumption == Absent \notin Entry

VARIABLES
    torrents,    \* stores.torrents, behind its mutex
    users,       \* stores.users: the peer counts of each user
    require,     \* config.require_peer_connectivity
    reaper,      \* the reap that is about to take the torrents lock, or Idle
    announce,    \* the announce requests in flight
    api,         \* the torrent upserts in flight
    persisted,   \* the deltas handed to the torrents queue, added up
    moved,       \* torrents whose counters the website or a reload has moved
    announces,   \* announces so far, for the bound
    reloads,     \* config reloads so far, for the bound
    apiCalls     \* torrent upserts so far, for the bound

vars == <<torrents, users, require, reaper, announce, api, persisted, moved, announces,
          reloads, apiCalls>>

(***************************************************************************)
(* Peers and counters.                                                     *)
(***************************************************************************)
\* store/peer.rs, is_included_in_peer_list: req is require_peer_connectivity.
Included(p, req) ==
    p # NoPeer /\ p.is_active /\ p.is_visible /\ (req => p.is_connectable)

InSeedList(p, req) == Included(p, req) /\ p.is_seeder

InLeechList(p, req) == Included(p, req) /\ ~p.is_seeder

\* bool as i32
Bit(b) == IF b THEN 1 ELSE 0

\* Mistake: the peer that was there before is not looked at.
DeltaOfNew(is, was) == Bit(is)

\* What a list grows when the peer that was on it, or not, now is, or is not.
Delta(is, was) == Bit(is) - Bit(was)

\* Mistake: the sum is not kept from falling below 0.
NotSaturating(n, delta) == n + delta

\* u32::saturating_add_signed
Saturating(n, delta) == IF n + delta < 0 THEN 0 ELSE n + delta

SeedersIn(peers, req) == {i \in DOMAIN peers : InSeedList(peers[i], req)}

LeechersIn(peers, req) == {i \in DOMAIN peers : InLeechList(peers[i], req)}

ActiveOf(peers, u) ==
    {i \in DOMAIN peers : i[1] = u /\ peers[i] # NoPeer /\ peers[i].is_active}

Idle == [pc |-> "idle"]

Free == [pc |-> "free"]

Init ==
    /\ torrents = [t \in Torrent |->
          [is_deleted |-> FALSE, seeders |-> 0, leechers |-> 0, peers |-> NoPeers]]
    /\ users = [u \in User |-> [num_seeding |-> 0, num_leeching |-> 0]]
    /\ require = Require
    /\ reaper = Idle
    /\ announce = [h \in Handler |-> Idle]
    /\ api = [a \in ApiCall |-> Free]
    /\ persisted = [t \in Torrent |-> [seeders |-> 0, leechers |-> 0]]
    /\ moved = {}
    /\ announces = 0
    /\ reloads = 0
    /\ apiCalls = 0

(***************************************************************************)
(* An announce.                                                            *)
(***************************************************************************)
\* What an announce says: event=stopped, or else left > 0 or left = 0.
Event == {"stopped", "leeching", "seeding"}

\* Up to the await: the user is cloned from the store and now is read. Of the
\* clone only the comparison of num_leeching with the slots is used later. A
\* request that is refused before the torrents lock changes nothing: Reject.
Receive(h) ==
    /\ announce[h] = Idle
    /\ announces < MaxAnnounces
    /\ \E t \in Torrent, i \in Index, e \in Event :
        announce' = [announce EXCEPT ![h] =
            [pc |-> "probing", torrent |-> t, index |-> i, event |-> e,
             full |-> users[i[1]].num_leeching >= Slots, age |-> 0]]
    /\ announces' = announces + 1
    /\ UNCHANGED <<torrents, users, require, reaper, api, persisted, moved, reloads, apiCalls>>

\* check_connectivity has returned, and the config is loaded.
Probed(h) ==
    /\ announce[h].pc = "probing"
    /\ \E c \in Connectable :
        announce' = [announce EXCEPT ![h] =
            [pc |-> "locking", torrent |-> @.torrent, index |-> @.index,
             event |-> @.event, full |-> @.full, age |-> @.age, connectable |-> c,
             require |-> require]]
    /\ UNCHANGED <<torrents, users, require, reaper, api, persisted, moved, announces, reloads,
                   apiCalls>>

\* The announce is refused: nothing changes.
Refuse(h) ==
    /\ announce' = [announce EXCEPT ![h] = Idle]
    /\ UNCHANGED <<torrents, users, require, reaper, api, persisted, moved, announces, reloads,
                   apiCalls>>

\* The torrent can be announced to.
Announceable(t) == torrents[t] # Absent /\ ~torrents[t].is_deleted

\* Refused for a torrent that is not in the store, or is deleted; or for what
\* this module leaves open: the torrent's status, the user's right to download
\* and the user's group.
Reject(h) ==
    /\ announce[h].pc = "locking"
    /\ Refuse(h)

HitSlotLimit(a) == a.event = "leeching" /\ a.full

\* The peer after the announce a, which found old.  The visibility is worked
\* out on a peer that is already seeder or leecher as announced, and
\* connectable as probed, but still active and visible as it was.
Updated(a, old) ==
    LET seen == [old EXCEPT !.is_seeder = (a.event = "seeding"), !.is_connectable = a.connectable]
    IN  [seen EXCEPT !.is_visible = InLeechList(seen, a.require) \/ ~HitSlotLimit(a),
                     !.is_active = TRUE,
                     !.age = a.age]

Inserted(a) ==
    [is_seeder |-> a.event = "seeding", is_active |-> TRUE, is_visible |-> ~HitSlotLimit(a),
     is_connectable |-> a.connectable, age |-> a.age]

\* The section under the torrents lock that replaces one peer by another, by
\* NoPeer if it is removed, moves the torrent's counters by the difference,
\* and keeps the deltas for the steps that follow.
Replace(h, new) ==
    LET a == announce[h]
        t == a.torrent
        old == torrents[t].peers[a.index]
        seeder_delta == Delta(InSeedList(new, a.require), InSeedList(old, a.require))
        leecher_delta == Delta(InLeechList(new, a.require), InLeechList(old, a.require))
    IN  /\ torrents' = [torrents EXCEPT
              ![t].peers[a.index] = new,
              ![t].seeders = Saturating(@, seeder_delta),
              ![t].leechers = Saturating(@, leecher_delta)]
        /\ announce' = [announce EXCEPT ![h] =
              [pc |-> "counting", torrent |-> t, index |-> a.index, age |-> a.age,
               seeder_delta |-> seeder_delta, leecher_delta |-> leecher_delta]]
        /\ UNCHANGED <<users, require, reaper, api, persisted, moved, announces, reloads, apiCalls>>

Locked(h) ==
    /\ announce[h].pc = "locking"
    /\ Announceable(announce[h].torrent)

OldPeer(h) == torrents[announce[h].torrent].peers[announce[h].index]

\* event=stopped removes the peer.
Stop(h) ==
    /\ Locked(h)
    /\ announce[h].event = "stopped"
    /\ OldPeer(h) # NoPeer
    /\ Replace(h, NoPeer)

\* The peer is known: it is updated, and active again if it was not.
Modify(h) ==
    /\ Locked(h)
    /\ announce[h].event # "stopped"
    /\ OldPeer(h) # NoPeer
    /\ Replace(h, Updated(announce[h], OldPeer(h)))

\* The peer is new: it is inserted unless that makes one active peer of the
\* user too many on this torrent.
Insert(h) ==
    /\ Locked(h)
    /\ announce[h].event # "stopped"
    /\ OldPeer(h) = NoPeer
    /\ Cardinality(ActiveOf(torrents[announce[h].torrent].peers, announce[h].index[1])) + 1
          <= MaxPeers
    /\ Replace(h, Inserted(announce[h]))

\* Mistake: the two counts are confused.
CountSwapped(h) ==
    /\ announce[h].pc = "counting"
    /\ LET a == announce[h]
       IN  users' = [users EXCEPT
              ![a.index[1]].num_seeding = Saturating(@, a.leecher_delta),
              ![a.index[1]].num_leeching = Saturating(@, a.seeder_delta)]
    /\ announce' = [announce EXCEPT ![h].pc = "queueing"]
    /\ UNCHANGED <<torrents, require, reaper, api, persisted, moved, announces, reloads, apiCalls>>

\* The lock is released; the user's counts follow, under their own lock.
Count(h) ==
    /\ announce[h].pc = "counting"
    /\ LET a == announce[h]
       IN  users' = [users EXCEPT
              ![a.index[1]].num_seeding = Saturating(@, a.seeder_delta),
              ![a.index[1]].num_leeching = Saturating(@, a.leecher_delta)]
    /\ announce' = [announce EXCEPT ![h].pc = "queueing"]
    /\ UNCHANGED <<torrents, require, reaper, api, persisted, moved, announces, reloads, apiCalls>>

\* Mistake: nothing is queued when only the leechers have changed.
QueueIfSeeder(h) ==
    /\ announce[h].pc = "queueing"
    /\ LET a == announce[h]
       IN  persisted' = IF a.seeder_delta = 0 THEN persisted ELSE
              [persisted EXCEPT ![a.torrent].seeders = @ + a.seeder_delta,
                                ![a.torrent].leechers = @ + a.leecher_delta]
    /\ announce' = [announce EXCEPT ![h] = Idle]
    /\ UNCHANGED <<torrents, users, require, reaper, api, moved, announces, reloads, apiCalls>>

\* The torrent update is queued, and the response sent.
Queue(h) ==
    /\ announce[h].pc = "queueing"
    /\ LET a == announce[h]
       IN  persisted' = [persisted EXCEPT
              ![a.torrent].seeders = @ + a.seeder_delta,
              ![a.torrent].leechers = @ + a.leecher_delta]
    /\ announce' = [announce EXCEPT ![h] = Idle]
    /\ UNCHANGED <<torrents, users, require, reaper, api, moved, announces, reloads, apiCalls>>

Announce(h) ==
    \/ Receive(h) \/ Probed(h)
    \/ Reject(h) \/ Stop(h) \/ Modify(h) \/ Insert(h)
    \/ Count(h) \/ Queue(h)

(***************************************************************************)
(* The reaper (scheduler.rs, reap): the config and the cutoffs are read    *)
(* first, the rest happens under the torrents lock.                        *)
(***************************************************************************)
ReapStarts ==
    /\ reaper = Idle
    /\ reaper' = [pc |-> "reaping", require |-> require]
    /\ UNCHANGED <<torrents, users, require, announce, api, persisted, moved, announces,
                   reloads, apiCalls>>

\* Inactive for longer than inactive_peer_ttl.
Forgotten(p) == p # NoPeer /\ ~p.is_active /\ p.age > InactiveTtl

\* Still active, but silent for longer than active_peer_ttl.
Expired(p) == p # NoPeer /\ p.is_active /\ p.age > ActiveTtl

\* Mistake: a peer is removed as soon as it has expired.
ReapedAtOnce(p) == IF Forgotten(p) \/ Expired(p) THEN NoPeer ELSE p

Reaped(p) ==
    IF Forgotten(p) THEN NoPeer
    ELSE IF Expired(p) THEN [p EXCEPT !.is_active = FALSE]
    ELSE p

ReapedPeers(peers) == [i \in Index |-> Reaped(peers[i])]

\* Mistake: an expired peer leaves the list and is not counted.
UncountedSeeders(peers) == {}

ExpiredSeeders(peers) == {i \in SeedersIn(peers, reaper.require) : Expired(peers[i])}

\* Mistake: a peer that was on no list is counted too.
ExpiredAndHidden(peers) ==
    {i \in DOMAIN peers : Expired(peers[i]) /\ ~peers[i].is_seeder}

ExpiredLeechers(peers) == {i \in LeechersIn(peers, reaper.require) : Expired(peers[i])}

Present == {t \in Torrent : torrents[t] # Absent}

AllExpiredSeeders == [t \in Present |-> ExpiredSeeders(torrents[t].peers)]

AllExpiredLeechers == [t \in Present |-> ExpiredLeechers(torrents[t].peers)]

\* How many of the expired peers of all torrents are u's.
ExpiredOf(u, expired) ==
    Cardinality({p \in Present \X Index : p[2][1] = u /\ p[2] \in expired[p[1]]})

Reap ==
    /\ reaper # Idle
    /\ reaper' = Idle
    /\ torrents' = [t \in Torrent |->
          IF torrents[t] = Absent THEN Absent
          ELSE LET peers == torrents[t].peers
               IN  [torrents[t] EXCEPT
                       !.peers = ReapedPeers(peers),
                       !.seeders = Saturating(@, -Cardinality(ExpiredSeeders(peers))),
                       !.leechers = Saturating(@, -Cardinality(ExpiredLeechers(peers)))]]
    /\ users' = [u \in User |->
          [num_seeding |-> Saturating(users[u].num_seeding, -ExpiredOf(u, AllExpiredSeeders)),
           num_leeching |-> Saturating(users[u].num_leeching, -ExpiredOf(u, AllExpiredLeechers))]]
    /\ persisted' = [t \in Torrent |->
          IF torrents[t] = Absent THEN persisted[t]
          ELSE LET peers == torrents[t].peers
               IN  [seeders |-> persisted[t].seeders - Cardinality(ExpiredSeeders(peers)),
                    leechers |-> persisted[t].leechers - Cardinality(ExpiredLeechers(peers))]]
    /\ UNCHANGED <<require, announce, api, moved, announces, reloads, apiCalls>>

(***************************************************************************)
(* The website's calls (api/torrent.rs) and the reload of the config.      *)
(***************************************************************************)
\* upsert, first half: the torrent is taken out of the store with its peers.
TakeOut(a) ==
    /\ api[a] = Free
    /\ apiCalls < MaxApiCalls
    /\ \E t \in Torrent, d \in BOOLEAN, s \in ApiCount, l \in ApiCount :
        /\ api' = [api EXCEPT ![a] =
              [pc |-> "holding", torrent |-> t, is_deleted |-> d, seeders |-> s, leechers |-> l,
               peers |-> IF torrents[t] = Absent THEN NoPeers ELSE torrents[t].peers]]
        /\ torrents' = [torrents EXCEPT ![t] = Absent]
    /\ apiCalls' = apiCalls + 1
    /\ UNCHANGED <<users, require, reaper, announce, persisted, moved, announces, reloads>>

\* upsert, second half: another lock section puts it back, with the peers that
\* were taken out and the counters that were sent.
PutIn(a) ==
    /\ api[a].pc = "holding"
    /\ torrents' = [torrents EXCEPT ![api[a].torrent] =
          [is_deleted |-> api[a].is_deleted, seeders |-> api[a].seeders,
           leechers |-> api[a].leechers, peers |-> api[a].peers]]
    /\ moved' = moved \cup {api[a].torrent}
    /\ api' = [api EXCEPT ![a] = Free]
    /\ UNCHANGED <<users, require, reaper, announce, persisted, announces, reloads, apiCalls>>

\* destroy
Destroy(t) ==
    /\ torrents[t] # Absent
    /\ torrents' = [torrents EXCEPT ![t].is_deleted = TRUE]
    /\ UNCHANGED <<users, require, reaper, announce, api, persisted, moved, announces, reloads,
                   apiCalls>>

\* A reload that changes REQUIRE_PEER_CONNECTIVITY: what the counters count is
\* another set of peers from now on.
Reload ==
    /\ reloads < MaxReloads
    /\ require' = ~require
    /\ moved' = Torrent
    /\ reloads' = reloads + 1
    /\ UNCHANGED <<torrents, users, reaper, announce, api, persisted, announces, apiCalls>>

(***************************************************************************)
(* Time.                                                                   *)
(***************************************************************************)
Older(age) == IF age < Oldest THEN age + 1 ELSE age

OlderPeers(peers) ==
    [i \in Index |-> IF peers[i] = NoPeer THEN NoPeer
                     ELSE [peers[i] EXCEPT !.age = Older(@)]]

\* A tick is longer than a request lasts, and than a reap waits for the lock:
\* the connectivity probe is given half a second, and the time to live of a peer
\* is counted in minutes.
Tick ==
    /\ reaper = Idle
    /\ \A h \in Handler : announce[h] # Idle => announce[h].age = 0
    /\ torrents' = [t \in Torrent |->
          IF torrents[t] = Absent THEN Absent
          ELSE [torrents[t] EXCEPT !.peers = OlderPeers(@)]]
    /\ announce' = [h \in Handler |->
          IF announce[h] = Idle THEN Idle ELSE [announce[h] EXCEPT !.age = Older(@)]]
    /\ api' = [a \in ApiCall |->
          IF api[a] = Free THEN Free ELSE [api[a] EXCEPT !.peers = OlderPeers(@)]]
    /\ UNCHANGED <<users, require, reaper, persisted, moved, announces, reloads, apiCalls>>

Next ==
    \/ \E h \in Handler : Announce(h)
    \/ ReapStarts \/ Reap
    \/ \E a \in ApiCall : TakeOut(a) \/ PutIn(a)
    \/ \E t \in Torrent : Destroy(t)
    \/ Reload
    \/ Tick

Spec == Init /\ [][Next]_vars

(***************************************************************************)
(* Properties.                                                             *)
(***************************************************************************)
Probing ==
    [pc : {"probing"}, torrent : Torrent, index : Index, event : Event, full : BOOLEAN, age : Age]

Locking ==
    [pc : {"locking"}, torrent : Torrent, index : Index, event : Event, full : BOOLEAN,
     age : Age, connectable : BOOLEAN, require : BOOLEAN]

Late ==
    [pc : {"counting", "queueing"}, torrent : Torrent, index : Index, age : Age,
     seeder_delta : -1..1, leecher_delta : -1..1]

Request == {Idle} \cup Probing \cup Locking \cup Late

Reaping == [pc : {"reaping"}, require : BOOLEAN]

Holding ==
    [pc : {"holding"}, torrent : Torrent, is_deleted : BOOLEAN, seeders : Nat, leechers : Nat,
     peers : PeerStore]

TypeOK ==
    /\ torrents \in [Torrent -> Entry \cup {Absent}]
    /\ users \in [User -> [num_seeding : Nat, num_leeching : Nat]]
    /\ require \in BOOLEAN
    /\ reaper \in {Idle} \cup Reaping
    /\ announce \in [Handler -> Request]
    /\ api \in [ApiCall -> {Free} \cup Holding]
    /\ persisted \in [Torrent -> [seeders : Int, leechers : Int]]
    /\ moved \subseteq Torrent
    /\ announces \in 0..MaxAnnounces
    /\ reloads \in 0..MaxReloads
    /\ apiCalls \in 0..MaxApiCalls

\* How far the counters of t are from its peers.
SeederDrift(t) ==
    torrents[t].seeders - Cardinality(SeedersIn(torrents[t].peers, require))

LeecherDrift(t) ==
    torrents[t].leechers - Cardinality(LeechersIn(torrents[t].peers, require))

\* A torrent's seeders and leechers are the numbers of its peers in the seed
\* and leech lists, as long as the website has not sent counters of its own and
\* no reload has changed what is counted (announce.rs, under the torrents lock;
\* scheduler.rs, reap).
CountersExact ==
    \A t \in Present \ moved : SeederDrift(t) = 0 /\ LeecherDrift(t) = 0

Abs(n) == IF n < 0 THEN -n ELSE n

\* Whoever is about to take the torrents lock has read the config of now.
ConfigFresh ==
    /\ \A h \in Handler : announce[h].pc = "locking" => announce[h].require = require
    /\ reaper # Idle => reaper.require = require

\* And once they are off, no announce and no reap takes them further off:
\* saturation only ever brings a counter back (announce.rs, scheduler.rs).
DriftNeverGrows ==
    [][ ConfigFresh /\ require' = require =>
        \A t \in Present \cap Present' : api' = api =>
            /\ Abs(SeederDrift(t)') <= Abs(SeederDrift(t))
            /\ Abs(LeecherDrift(t)') <= Abs(LeecherDrift(t)) ]_vars

\* What each request still owes user u of one of the deltas.
Owed(u, delta) ==
    [h \in Handler |->
        IF announce[h].pc = "counting" /\ announce[h].index[1] = u
        THEN announce[h][delta] ELSE 0]

\* The peers of t, wherever they are: in the store, or in the hands of an
\* upsert of the website.
PlacesOf(t) ==
    (IF torrents[t] = Absent THEN {} ELSE {torrents[t].peers})
    \cup {api[a].peers : a \in {b \in ApiCall : api[b].pc = "holding" /\ api[b].torrent = t}}

\* The torrents that u has a peer on that listed(peers, require) lists.
Listed(u, listed(_, _)) ==
    Cardinality({p \in Torrent \X Index :
        p[2][1] = u /\ \E peers \in PlacesOf(p[1]) : p[2] \in listed(peers, require)})

\* A user's counts, with what requests in flight still owe, are never below
\* the number of the user's peers: late deltas, in whatever order, can only
\* leave a count too high (announce.rs, the users lock after the torrents lock).
UsersNeverUndercounted ==
    reloads = 0 => \A u \in User :
        /\ users[u].num_seeding + SumFunction(Owed(u, "seeder_delta")) >= Listed(u, SeedersIn)
        /\ users[u].num_leeching + SumFunction(Owed(u, "leecher_delta"))
              >= Listed(u, LeechersIn)

\* What announce.rs and scheduler.rs say they do: with no request in flight, a
\* user's counts are the numbers of the user's peers.
UserCountsMatch ==
    reloads = 0 /\ (\A h \in Handler : announce[h] = Idle) =>
        \A u \in User : users[u].num_leeching = Listed(u, LeechersIn)

\* What config.rs says of max_peers_per_torrent_per_user: it is the most active
\* peers a user has on a torrent.
ActivePeersLimited ==
    \A t \in Present, u \in User : Cardinality(ActiveOf(torrents[t].peers, u)) <= MaxPeers

\* One of the deltas of each request on t between the torrents lock and the queue.
InFlight(t, delta) ==
    [h \in Handler |->
        IF announce[h].pc \in {"counting", "queueing"} /\ announce[h].torrent = t
        THEN announce[h][delta] ELSE 0]

\* What was handed to the torrents queue adds up to the counters in memory, but
\* for the requests between the two (announce.rs, the torrents queue's upsert;
\* scheduler.rs, the one in reap).
QueueFollowsMemory ==
    \A t \in Present \ moved :
        /\ persisted[t].seeders + SumFunction(InFlight(t, "seeder_delta")) = torrents[t].seeders
        /\ persisted[t].leechers + SumFunction(InFlight(t, "leecher_delta"))
              = torrents[t].leechers

\* The peer i of t, wherever it is.
Known(t, i) == \E peers \in PlacesOf(t) : peers[i] # NoPeer

ForgottenEverywhere(t, i) ==
    \A peers \in PlacesOf(t) : peers[i] # NoPeer => Forgotten(peers[i])

\* A peer is erased when its client stops it, or when it has been silent for
\* inactive_peer_ttl (config.rs), or by two upserts of the website that overlap,
\* when the second puts what it found over what the first put back (upsert in
\* api/torrent.rs, between its two lock sections); and by nothing else.
ErasedOnlyWhenStale ==
    [][ \A t \in Torrent, i \in Index :
        Known(t, i) /\ ~Known(t, i)' =>
            \/ ForgottenEverywhere(t, i)
            \/ \E h \in Handler : announce[h].pc = "locking" /\ announce[h].event = "stopped"
                                  /\ announce[h].torrent = t /\ announce[h].index = i
            \/ \E a \in ApiCall : api[a].pc = "holding" /\ api[a].torrent = t
                                  /\ api'[a] = Free /\ torrents[t] # Absent ]_vars
=============================================================================
