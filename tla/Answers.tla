------------------------------- MODULE Answers -------------------------------
(***************************************************************************)
(* What one user's announces are answered with: the connectivity check and *)
(* its cache, the warnings, and the rate limits on peer lists.  Of an      *)
(* announce that is in flight the rates are those of the user as cloned    *)
(* before the check, while what it asked for is counted after the answer   *)
(* has been made, under another lock.                                      *)
(*                                                                         *)
(* The decay of a rate by the factor exp(-elapsed / window) is a halving   *)
(* per unit of time for a window of 1 / ln 2 units, and n halvings for an  *)
(* n-th of that; counts are kept in parts of Unit, so that no halving      *)
(* leaves a remainder.                                                     *)
(***************************************************************************)
EXTENDS Integers, Sequences, FiniteSets, Functions

CONSTANTS
    Handler,         \* announces of the user that may be in flight at once
    Ttl,             \* connectivity_check_interval
    Check,           \* is_connectivity_check_enabled: the values it may have
    Require,         \* require_peer_connectivity
    SeedLimits,      \* user_receive_seed_list_rate_limits
    LeechLimits,     \* user_receive_leech_list_rate_limits
    MostHalvings,    \* the halvings per unit of time of the shortest window
    MostPeers,       \* bound on the seeds there are, and on the torrent's counters
    MaxTime,         \* bound on time
    MaxAnnounces     \* bound on announces

\* A limit: how often a rate over this window halves, and what it may be.
LimitType == [halvings : 1..MostHalvings, most : Nat]

ASSUME NumberAssumption ==
    /\ Ttl \in Int /\ MostHalvings \in Nat /\ MostPeers \in Nat
    /\ MaxTime \in Nat /\ MaxAnnounces \in Nat
ASSUME LimitAssumption == SeedLimits \subseteq LimitType /\ LeechLimits \subseteq LimitType
ASSUME SetAssumption == IsFiniteSet(Handler) /\ Check \subseteq BOOLEAN /\ Require \in BOOLEAN

VARIABLES
    time,
    check,       \* config.is_connectivity_check_enabled
    loaded,      \* what the start has loaded for the client's socket, or Empty
    cache,       \* stores.connectable_ports at the client's socket, or Empty
    rates,       \* receive_seed_list_rates and receive_leech_list_rates
    announce,    \* the announces in flight
    probes,      \* every probe so far: when it began, and what it has found
    asked,       \* when each list was asked for
    granted,     \* when each list was granted
    announces    \* announces so far, for the bound

vars == <<time, check, loaded, cache, rates, announce, probes, asked, granted, announces>>

Kind == {"seed", "leech"}

Time == 0..MaxTime

Limits == [seed |-> SeedLimits, leech |-> LeechLimits]

Idle == [pc |-> "idle"]

\* No entry at this socket.
Empty == [updated_at |-> -1]

\* The moments up to the start of which an entry is not stale then; one that is
\* stale is probed again, as if there were none.
Past == (1 - Ttl)..0

Init ==
    /\ time = 0
    /\ check \in Check
    /\ loaded \in {Empty} \cup [connectable : BOOLEAN, updated_at : Past]
    /\ cache = loaded
    /\ rates = [k \in Kind |-> [l \in Limits[k] |-> [count |-> 0, updated_at |-> 0]]]
    /\ announce = [h \in Handler |-> Idle]
    /\ probes = <<>>
    /\ asked = [k \in Kind |-> [t \in Time |-> 0]]
    /\ granted = [k \in Kind |-> [t \in Time |-> 0]]
    /\ announces = 0

(***************************************************************************)
(* Rates (rate.rs).                                                        *)
(***************************************************************************)
PowerOf2[n \in Nat] == IF n = 0 THEN 1 ELSE 2 * PowerOf2[n - 1]

Unit == PowerOf2[MaxTime * MostHalvings]

Decayed(count, limit, elapsed) == count \div PowerOf2[elapsed * limit.halvings]

\* Mistake: the count does not decay.
TickedForever(rate, limit) == [count |-> rate.count + Unit, updated_at |-> time]

\* Rate::tick
Ticked(rate, limit) ==
    [count |-> Decayed(rate.count, limit, time - rate.updated_at) + Unit, updated_at |-> time]

\* RateCollection::tick
AllTicked(k) == [l \in Limits[k] |-> Ticked(rates[k][l], l)]

\* Mistake: it is enough to be under one limit.
UnderSomeLimit(k) == \E l \in Limits[k] : rates[k][l].count <= l.most * Unit

\* RateCollection::is_under_limit: the counts are those of the last tick.
UnderLimits(k) == \A l \in Limits[k] : rates[k][l].count <= l.most * Unit

(***************************************************************************)
(* The connectivity check (announce.rs, check_connectivity).               *)
(***************************************************************************)
\* Up to the check: the user is cloned. Of the rates in the clone only the
\* comparison with the limit is used.
Receive(h) ==
    /\ announce[h] = Idle
    /\ announces < MaxAnnounces
    /\ announce' = [announce EXCEPT ![h] =
          [pc |-> "checking", under |-> [k \in Kind |-> UnderLimits(k)]]]
    /\ announces' = announces + 1
    /\ UNCHANGED <<time, check, loaded, cache, rates, probes, asked, granted>>

Checked(h, connectable) ==
    announce' = [announce EXCEPT ![h] =
        [pc |-> "locking", under |-> @.under, connectable |-> connectable]]

\* The check is disabled: no socket counts as connectable.
NoCheck(h) ==
    /\ announce[h].pc = "checking" /\ ~check
    /\ Checked(h, FALSE)
    /\ UNCHANGED <<time, check, loaded, cache, rates, probes, asked, granted, announces>>

Good(entry) == entry # Empty /\ entry.updated_at + Ttl > time

Fresh == Good(cache)

CacheHit(h) ==
    /\ announce[h].pc = "checking" /\ check /\ Fresh
    /\ Checked(h, cache.connectable)
    /\ UNCHANGED <<time, check, loaded, cache, rates, probes, asked, granted, announces>>

\* Nothing in the cache, or nothing that is still good: the socket is probed.
ProbeBegins(h) ==
    /\ announce[h].pc = "checking" /\ check /\ ~Fresh
    /\ announce' = [announce EXCEPT ![h] =
          [pc |-> "probing", under |-> @.under, probe |-> Len(probes) + 1]]
    /\ probes' = Append(probes, [began |-> time, found |-> {}])
    /\ UNCHANGED <<time, check, loaded, cache, rates, asked, granted, announces>>

\* Mistake: only a success is remembered.
CachedIfConnectable(connectable, now) ==
    IF connectable THEN [connectable |-> TRUE, updated_at |-> now] ELSE cache

\* Mistake: when it ceases to be good is written.
CachedUntil(connectable, now) == [connectable |-> connectable, updated_at |-> now + Ttl]

\* Mistake: the time of the answer is written.
CachedNow(connectable, now) == [connectable |-> connectable, updated_at |-> time]

\* What the write leaves in the cache, whatever another probe has put there: now
\* was read before the probe.
Cached(connectable, now) == [connectable |-> connectable, updated_at |-> now]

ProbeEnds(h) ==
    /\ announce[h].pc = "probing"
    /\ \E connectable \in BOOLEAN :
        /\ cache' = Cached(connectable, probes[announce[h].probe].began)
        /\ probes' = [probes EXCEPT ![announce[h].probe].found = {connectable}]
        /\ Checked(h, connectable)
    /\ UNCHANGED <<time, check, loaded, rates, asked, granted, announces>>

(***************************************************************************)
(* The answer (announce.rs, under the torrents lock).                      *)
(***************************************************************************)
Smaller(m, n) == IF m < n THEN m ELSE n

\* What the announce meets: whether the client leeches, how many peers it wants,
\* how many seeds of other users there are to give, the torrent's counters, which
\* the website and a reload can move away from the peers, and whether any
\* warning but the one about connectivity was added.
View == [leeching : BOOLEAN, stopped : BOOLEAN, numwant : 0..(MostPeers + 1),
         seeds : 0..MostPeers, seeders : 0..MostPeers, leechers : 0..MostPeers, warned : BOOLEAN]

Warned(a, v) == v.warned \/ (Require /\ ~a.connectable)

Listing(a, v) == ~v.stopped /\ v.leechers > 0 /\ ~Warned(a, v)

\* has_requested_seed_list
AsksSeeds(a, v) == Listing(a, v) /\ v.leeching /\ v.seeders > 0 /\ v.numwant > 0

SeedsGiven(a, v) ==
    IF AsksSeeds(a, v) /\ a.under["seed"] THEN Smaller(v.numwant, v.seeds) ELSE 0

\* has_requested_leech_list
AsksLeeches(a, v) == Listing(a, v) /\ v.numwant > SeedsGiven(a, v)

Asks(a, v) ==
    [k \in Kind |-> CASE k = "seed" -> AsksSeeds(a, v) [] k = "leech" -> AsksLeeches(a, v)]

\* One more of these events, now.
Again(events) == [events EXCEPT ![time] = @ + 1]

\* The list is made from the clone's rates; how long it is is kept until the
\* answer is sent.
Answer(h) ==
    /\ announce[h].pc = "locking"
    /\ \E asks \in {Asks(announce[h], v) : v \in View} :
        /\ announce' = [announce EXCEPT ![h] = [pc |-> "counting", asks |-> asks]]
        /\ granted' = [k \in Kind |-> IF asks[k] /\ announce[h].under[k]
                                      THEN Again(granted[k]) ELSE granted[k]]
    /\ UNCHANGED <<time, check, loaded, cache, rates, probes, asked, announces>>

\* Mistake: an announce is counted against one limit at most.
CountOne(h) ==
    /\ announce[h].pc = "counting"
    /\ rates' = [k \in Kind |-> IF announce[h].asks[k] /\ (k = "seed" \/ ~announce[h].asks["seed"])
                               THEN AllTicked(k) ELSE rates[k]]
    /\ asked' = [k \in Kind |-> IF announce[h].asks[k] THEN Again(asked[k]) ELSE asked[k]]
    /\ announce' = [announce EXCEPT ![h] = Idle]
    /\ UNCHANGED <<time, check, loaded, cache, probes, granted, announces>>

\* The users lock: what was asked for is counted, granted or not.
Count(h) ==
    /\ announce[h].pc = "counting"
    /\ rates' = [k \in Kind |-> IF announce[h].asks[k] THEN AllTicked(k) ELSE rates[k]]
    /\ asked' = [k \in Kind |-> IF announce[h].asks[k] THEN Again(asked[k]) ELSE asked[k]]
    /\ announce' = [announce EXCEPT ![h] = Idle]
    /\ UNCHANGED <<time, check, loaded, cache, probes, granted, announces>>

Announce(h) ==
    \/ Receive(h) \/ NoCheck(h) \/ CacheHit(h) \/ ProbeBegins(h) \/ ProbeEnds(h)
    \/ Answer(h) \/ Count(h)

\* A probe is given half a second.
TimePasses ==
    /\ time < MaxTime
    /\ \A h \in Handler : announce[h].pc = "probing" => probes[announce[h].probe].began = time
    /\ time' = time + 1
    /\ UNCHANGED <<check, loaded, cache, rates, announce, probes, asked, granted, announces>>

Next == (\E h \in Handler : Announce(h)) \/ TimePasses

Spec == Init /\ [][Next]_vars
-----------------------------------------------------------------------------
\* The type invariant (rate.rs, store/connectable_port.rs and the locals of
\* an announce).
TypeOK ==
    /\ time \in Time /\ check \in Check /\ announces \in 0..MaxAnnounces
    /\ loaded \in {Empty} \cup [connectable : BOOLEAN, updated_at : Past]
    /\ cache \in {Empty} \cup [connectable : BOOLEAN, updated_at : Past \cup Time]
    /\ \A k \in Kind : rates[k] \in [Limits[k] -> [count : Nat, updated_at : Time]]
    /\ announce \in [Handler ->
          {Idle}
          \cup [pc : {"checking"}, under : [Kind -> BOOLEAN]]
          \cup [pc : {"probing"}, under : [Kind -> BOOLEAN], probe : DOMAIN probes]
          \cup [pc : {"locking"}, under : [Kind -> BOOLEAN], connectable : BOOLEAN]
          \cup [pc : {"counting"}, asks : [Kind -> BOOLEAN]]]
    /\ probes \in Seq([began : Time, found : SUBSET BOOLEAN])
    /\ asked \in [Kind -> [Time -> Nat]] /\ granted \in [Kind -> [Time -> Nat]]

\* What events, so many at each time, weigh by now.
Weight(events, limit, now) ==
    SumFunction([t \in 0..now |-> events[t] * Decayed(Unit, limit, now - t)])

\* A rate is what its documentation says it is: each list that was asked for,
\* granted or not, counts 1 at that time and decays from then on, whatever
\* came in between (rate.rs, Rate::tick; announce.rs, the users lock).
RateFollowsRequests ==
    \A k \in Kind : \A l \in Limits[k] :
        rates[k][l].count = Weight(asked[k], l, rates[k][l].updated_at)

\* The limits hold up to the announces of the user that are in flight at once,
\* although a list is granted on rates that were read before the connectivity
\* check, and counted after the answer has been made (announce.rs, the lists).
GrantsNearLimit ==
    \A k \in Kind : \A l \in Limits[k] :
        Weight(granted[k], l, time) <= (l.most + Cardinality(Handler)) * Unit

\* While the check is enabled, a verdict is that of a probe that began less
\* than connectivity_check_interval ago, or of the announce's own, even when
\* an older probe's answer has been written over a newer one's; or it is what
\* the start has loaded, for as long (announce.rs, check_connectivity;
\* store/connectable_port.rs).
VerdictFollowsProbe ==
    [][check => \A h \in Handler :
          announce[h].pc = "checking" /\ announce'[h].pc = "locking" =>
              \/ \E i \in DOMAIN probes :
                    /\ probes[i].began + Ttl > time
                    /\ announce'[h].connectable \in probes[i].found
              \/ Good(loaded) /\ announce'[h].connectable = loaded.connectable]_vars

\* A socket is spared: of the probes that were under way when a period of
\* connectivity_check_interval began, each can put its older answer over a newer
\* one once, and then the announces whose older probes have ended may all probe
\* again. With n announces in flight that makes 1 + 2 + ... + n probes
\* (announce.rs, check_connectivity).
ProbesBounded ==
    \A t \in Time :
        Cardinality({i \in DOMAIN probes : probes[i].began \in t..(t + Ttl - 1)})
            <= (Cardinality(Handler) * (Cardinality(Handler) + 1)) \div 2
=============================================================================
