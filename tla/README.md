# UNIT3D-Announce in TLA+

UNIT3D-Announce is the BitTorrent tracker of UNIT3D sites: an HTTP server that keeps
every peer in memory, answers announces from there, and writes what changed to the
site's MySQL database in batches. This directory holds TLA+ modules of its stateful
parts, the TLC configurations that check them on small instances, and proofs of
the most important theorems for all instances.

Paths below are those of the repository's `src/` directory (`src/src` from here).

## 1. The system

### Components, state, operations

| part | code | state | operations |
|---|---|---|---|
| announce handler | `announce.rs` | none of its own; a request holds a cloned user, the time, the connectivity, a config | check the request, probe the client, change the peer under the torrents lock, move the user's counts, queue up to six updates |
| torrent and peer stores | `store/torrent.rs`, `store/peer.rs` | per torrent: status, counters, and a map of peers | looked up and changed by announces, the reaper and the API |
| user store | `store/user.rs`, `store/passkey2id.rs` | per user: rights, `num_seeding`, `num_leeching`, rates; a map from passkeys | read by announces, counts moved by announces and the reaper, replaced by the API |
| update queues | `queue.rs`, `queue/*.rs` | per table: a ring map from key to record | upsert, drain into batches, write, put back |
| scheduler | `scheduler.rs` | a counter of milliseconds | flush on every n-th tick, reap on every m-th |
| shutdown | `main.rs` | a count of flushes | after the server has stopped: flush until the queues are empty, 1000 times at most |
| website API | `api/*.rs` | none | insert, replace and remove torrents, users, groups, tokens, ... |
| config | `config.rs` | one value, swapped as a whole | reload |
| connectivity cache | `announce.rs`, `store/connectable_port.rs` | per socket: outcome and time of the last probe | probe, with a time to live |
| rate limits | `rate.rs` | per user and window: a decaying count | tick, compare |
| start-up | `store.rs`, `state.rs` | the database | recount the aggregates, load everything |
| statistics | `stats.rs` | moving averages | increment, show |

### Interaction

Everything runs in one process, as tasks on a thread pool that share `AppState`. Each store
and each queue has its own lock. No task holds a lock over an `await`; but a handler takes
one lock after another, so between two of its steps anything may run:

    announce:   users (read, clone) -- await probe -- load config -- TORRENTS LOCK:
                peer, torrent counters -- users (write) -- peers queue -- histories queue --
                users queue -- torrents queue
    scheduler:  flush (drain under each queue's lock, await the database, put back)
                reap (config, cutoffs, then the torrents lock, with the users and the
                torrents queue locked inside it)
    API:        torrents upsert: TORRENTS LOCK (take out) -- TORRENTS LOCK (put in)
                users upsert: users (take out) -- passkeys (old one out) -- users (put in) --
                passkeys (new one in);  users destroy: users -- passkeys
    main:       serve until a signal, then flush in a loop; the scheduler's task keeps on

### What is hard

* **Interleaving.** The counters of a torrent, those of a user and the deltas sent to the
  database are changed by the same announce at three different times.
* **Stale reads.** The user is cloned before a probe of up to half a second; the config is
  held through the lock section.
* **Order.** The deltas of two announces may reach the user, and a queue, in the other order.
* **Failure.** A batch fails as a whole and is merged, late, into newer records; a statement
  reported as failed may have been committed.
* **Shutdown.** Two tasks flush the same queues at once, and the process ends when one is done.
* **Restart.** The database is all that is left, as far as it was flushed.

### What makes each part correct

* queues: every update reaches its row, once and in order, whatever fails in between; no
  statement exceeds the limits; a shutdown that reports success leaves nothing behind, or little.
* swarm: a torrent's counters are the sizes of its lists; a user's are the sums over
  torrents; the database gets the same deltas; peers go when they have been silent for long
  enough and not before; a user has only so many active peers on a torrent.
* API: a call changes what it names and loses nothing else.
* connectivity cache, rate limits: decisions follow the newest knowledge.

`PROJECT.json` lists every component with its status, and under `hazards` each place where
one of these things can go wrong, with the properties that watch it.

## 2. The modules

| module | models |
|---|---|
| `WriteThrough` | the promise of an update queue: every update is written at once, in order |
| `UpdateQueue` | `Queue<K, V>` of `queue.rs`, its flushes by the scheduler and by `main.rs`, and the database's answers; generic in the record type, as the code is |
| `AdditiveQueue` | the same for records that are deltas: the laws of addition, `OfDeltas` |
| `Deltas`, `PeerRows`, `HistoryRows` | record types: what `merge` and the upsert statement do |
| `PeerQueue` | the update queue with the rows of peers (`OfPeers`), and what its handlers gave it so far |
| `UpdateQueueProofs` | theorems about `UpdateQueue`, `AdditiveQueue` and `PeerQueue` |
| `Swarm` | peers, torrent counters, user counts, under announces, the reaper, the torrent API and reloads |
| `SwarmProofs` | theorems about `Swarm` |
| `Tracker` | `Swarm` with the peers and torrents queues, their tables, failing statements, crashes and the start after them |
| `TrackerProofs`, `RowsProofs` | theorems about `Tracker` |
| `Traffic` | what announces credit, and what histories, users and the torrent are told of it |
| `Recovery` | `Traffic` with the four tables an announce is written to, and a crash that cuts them off at different moments |
| `Answers` | the connectivity check and its cache, the warnings, the lists of peers and the rate limits on them |
| `TrafficProofs` | theorems about `Traffic` and `Recovery` |
| `AnswersProofs` | theorems about `Answers` |
| `Users` | the user and passkey maps, under the website's calls and announces |
| `UsersProofs` | theorems about `Users` |
| `FiniteSums` | sums over finite sets, for the proofs: no part of the model |
| `MCAdditiveQueue`, `MCPeerQueue`, `MCHistoryQueue`, `MCSwarm`, `MCTracker`, `MCTraffic`, `MCRecovery`, `MCAnswers`, `MCUsers` | instances for TLC |

The laws are definitions, not assumptions of the modules: `MCAdditiveQueue` states
them with `ASSUME` for the record type it gives the queue, so that TLC evaluates them, and the
theorems that need them have them as hypotheses. `Tracker` extends `Swarm` and `Recovery` extends
`Traffic`: each of their steps is a step of the module below with what it means for queues and tables, or a step of the queues, the database or
a crash.

A definition whose comment begins with "Mistake:" is no part of the model: it is what the
definition after it would be if the code had a plausible bug there. They are used to see
that each property notices one.

### UpdateQueue

State: `order` and `queued` are the ring map (order of keys, record of each key); `held[f]`
and `sent[f]` are a running flush of flusher `f`, its records and its batches with the
answers so far; `db` is the table; `main` and `flushes` are where `main` is in its shutdown
loop; `made` only bounds the run. `late` is for a property: the keys that may still be unwritten when
`main` has found the queue empty.

| action | code |
|---|---|
| `AnnounceUpsert`, `ReapUpsert` | `Queue::upsert` by a handler (only while serving) or by `reap` (in the scheduler's loop, so not while the scheduler flushes) |
| `SchedulerFlush`, `MainFlush` (both by `Take`) | `flush` up to `join_all`: drain at most `MaxBatches * MaxBatchSize` from the front, sort, split from the end, send all batches |
| `DbOk`, `DbError`, `DbErrorAfterCommit` | a statement is answered; the last is committed although reported as failed |
| `Forget`, `PutBack` | `join_all` has returned: the results in order, `upsert_batch` for those that failed, one lock section each |
| `StopServing`, `MainFlushed` | `serve` returns; a flush of `main`'s is over |
| `MainFindsEmpty`, `MainContinues` | `are_not_empty` looks at this queue under its lock and finds it empty; it, or another of the six, is not |
| `MainGivesUp`, `MainExits` | `flushes` has reached its bound; the process ends |

A key's record is written when the database commits, not when the task learns of it; so
`DbOk` clears `held`. One queue stands for all six: they share nothing but `main`'s loop, which
goes on while any is not empty, so `MainContinues` may fire though this queue is empty. `are_not_empty`
locks the queues one after the other, and `main` returns later: between `MainFindsEmpty` and `MainExits` the
scheduler may put back what it holds, and `reap` upsert. The
unkeyed announces queue is left out. After `main` has exited nothing happens: whether MySQL
still commits a statement whose client is gone is not known to the program.

`WriteThrough` is implemented under a refinement mapping (`Shown`): the row of `k` is shown
as the table's, then what the scheduler's flush holds for it, then what main's does, then
what is queued. Draining, answering and putting back must not change it, and an upsert must
change it as one write would.

For rows that are overwritten that is too much to ask: an announce reads its time before the probe's
await and reaches the queue after it, so that a record may be older than the one before it (`FreshPeer`
gives it any time). `PeerQueue` therefore remembers what each row would be if every announce were written at once
(`promised`) and which keys were once given a time that was not after the last (`overtaken`); its
property, `NewestAnnounceShown`, is about the others.

### Swarm

State: `torrents` (with `peers`, `seeders`, `leechers`, `is_deleted`), `users` (the two
counts), `require` (the one config value that decides who is counted), `announce[h]` (a
request in flight, with what it remembers at each of its steps), `reaper`, `api[a]` (a torrent
upsert between its two halves), `persisted` (the sum of the deltas handed to the torrents
queue). `moved` is for the properties: the torrents whose counters the website or a reload
set to something else. The rest are bounds.

| action | code |
|---|---|
| `Receive` | `announce` up to the await: user cloned (`full`: are the slots used up), `now` read (`age`) |
| `Probed` | `check_connectivity` returns any outcome; the config is loaded |
| `Reject` | any early return in the lock section; nothing changes |
| `Stop`, `Modify`, `Insert` (all by `Replace`) | the section under the torrents lock, one of its three ways |
| `Count` | the users lock |
| `Queue` | the torrents queue's upsert (the end of the request) |
| `ReapStarts`, `Reap` | `reap` before and under the torrents lock |
| `TakeOut`, `PutIn`, `Destroy` | `api/torrent.rs` |
| `Reload` | `Config::reload` of a file with the other `REQUIRE_PEER_CONNECTIVITY` |
| `Tick` | time |

Time is kept as the age of each peer in ticks, cut off above both times to live (the configuration
does not ask that the one for active peers be the shorter). A request lasts less
than a tick, but may span the start of one, so that `updated_at` may be a tick old when it is
written: the half second of the probe against time to live values of minutes. What decides
about a rejection but is not in the module (status, rights, groups) is left to `Reject`,
which may always happen. Left out as well: traffic, its credit and completions (in `Traffic`), the
peer list, rates, the other queues.

### Tracker

State, besides that of `Swarm`: `started` (the process runs); `stamp[h]`, the `now` of a request,
and `told[h]`, the row it is about to hand over; `peerQueue` and `torrentQueue`; `taking`,
`peerBatch` and `torrentBatch`, a flush in its steps; the tables `rows` and `counts`.

| action | code |
|---|---|
| `Arrive`, `Proceed`, `KeepPeer`, `StopPeer`, `QueueTorrent` | the announce of `Swarm`, and the row it makes |
| `QueuePeer` | the peers queue's upsert, with `PeerUpdate::merge` |
| `StartReap`, `ReapAndTell` | `reap`, with the torrents queue's upserts under its lock |
| `TakePeers`, `TakeTorrents` | `Queues::flush` up to its first await: one queue after the other |
| `PeersWritten`, `TorrentsWritten`, `PeersFail`, `TorrentsFail` | a statement is answered; what failed is merged back |
| `Crash` | memory and queues are gone; each unanswered statement was applied or was not |
| `Start` | `store.rs`: `sync_peer_count_aggregates`, then the load of torrents, peers and users |
| `TimePasses` | time, in the tables and during an outage too |

`overlapped` is for a property: the peers that were once announced by two requests at a time. Their row and
their peer may differ: the request that is first at the torrents lock may be the one whose `now` is the later.

Simplified: a queue is flushed in one statement (batches and the second flusher are in
`UpdateQueue`); a statement is answered within a tick, and is over when the process starts
again; a statement of the peers queue that is reported as failed may have been applied, one of the torrents queue was
not, for added deltas would count twice and nothing in the code can notice. The website's calls
and the reload are not combined with crashes. `Start` is one
step: nobody else is there before the listener is bound.

### Traffic

One torrent. State: `client` is what each client has counted since its session began, and
what it reports; `traffic` what it has really transferred; `peers` keeps of each peer what the
code's differences are taken from; `completed` is `times_completed` in memory; `announce[h]` is a
request and what it remembers; `history`, `credit` and `torrent` are the rows of the three tables
as far as their queues have been told, for `UpdateQueue` shows that what is handed to a queue
arrives. `crossed` is for the properties: the users who had two announces in flight at once.

| action | code |
|---|---|
| `Transfer`, `Restart` | a client transfers a unit; begins a new session under its old peer id |
| `Receive`, `Reject` | the request with its `uploaded` and `downloaded`; any refusal |
| `Stop`, `Modify`, `Insert` (all by `Replace`) | the section under the torrents lock: three ways to work out the change; the factors that config, group and torrent give |
| `QueueHistory` | freeleech and featured torrents are looked up, the credit is worked out, and the histories queue is told |
| `QueueUser`, `QueueTorrent` | the other two queues are told, if there is something to tell |
| `Reap` | `reap`, of any peers: the time is in `Swarm` |

The factors are any of two sets, 200 and 0 for featured and free torrents. `featured_torrents` is
read twice, so its two answers need not agree. The peers queue is left out: its rows take no deltas.

### Recovery

State, besides that of `Traffic`: `handed`, the newest row of each peer the peers queue was given;
the tables `peersTable`, `historyTable`, `usersTable` and `torrentsTable`; `repeated`, for the
property: how much of what each user's clients had reported the rows found by a start did not say.

| action | code |
|---|---|
| `AnnounceAndHand`, `Go` | the announce of `Traffic`, and everything else in it |
| `WritePeers`, `WriteHistories`, `WriteUsers`, `WriteTorrents` | one statement of a flush is applied |
| `Crash` | the process dies and is started again, from the tables |

A table is written as its queue was when the flush took it. Taking is no step here: what was
taken and is lost is the same as what was never taken. `AnnounceAndHand` hands the row to its queue
under the torrents lock instead of right after it; a crash between the two finds the row not
written, which a crash before `WritePeers` finds as well.

### Answers

One user, at one socket. State: `cache` is the entry of `connectable_ports`; `rates` the counts
of both kinds of lists in each of their windows; `announce[h]` a request with what it remembers;
`check` whether the check is enabled, which stays as it is during a run. `probes`, `asked` and
`granted` are what happened so far, for the properties.

| action | code |
|---|---|
| `Receive` | the user is cloned, with the rates of that moment |
| `NoCheck`, `CacheHit`, `ProbeBegins`, `ProbeEnds` | `check_connectivity`: its early returns, and the two sides of its await |
| `Answer` | under the torrents lock: warnings, which lists are asked for, how many peers they have |
| `Count` | under the users lock: `RateCollection::tick` for each list that was asked for |
| `TimePasses` | time; a probe takes less than a unit |

The decay `exp(-elapsed / window)` is a halving per unit for a window of 1 / ln 2 units and `n`
halvings for an `n`-th of it (`PowerOf2`): exact, and like the code's it is multiplicative over time. What the
torrent has to give, and its stored `seeders` and `leechers`, which the website or a reload can set apart from
its peers (`View`), are any of a few numbers, independent of each other; which peers are picked is left out. `loaded` is
what the start has found in the rows for the socket: nothing, or an entry with the time of the newest *announce* from there, which
need not be that of a probe. Only entries that are good at the start are told apart (`Past`).

### Users

State: `site` and `issued` are the website's users and the passkeys it has given out (it never
gives out one twice, which is what its random passkeys amount to); `users` and `passkey2id` are the two maps;
`call[c]` is a call of the website at one of its lock sections; `announce[h]` is a request that
has found a user. `listed` (users some peer list was counted for) and `disturbed` (users with
two calls at once, or a call that was refused) are for the properties.

| action | code |
|---|---|
| `Register`, `Edit`, `ChangePasskey`, `Remove` (all by `Send`) | the website changes a user and calls |
| `TakeOut`, `Retire` / `Keep` / `Refuse`, `Enter`, `Map` | `upsert`, one action for each lock it takes |
| `Forget`, `Unmap` | `destroy` |
| `Find`, `Load`, `Count` | `announce`: the passkey, the user, and at the end the user's rates |

Of a user only the passkey and the rates are kept, the rates as "counts nothing" or "counts
something". A call whose `passkey` is malformed is refused before it does anything, and left out. It
is possible to lose a user or a passkey: two calls about the same user at once do, and so does a
malformed `new_passkey`. The properties are about the users this has not happened to.

## 3. What TLC checks

Runs of kind "violation" show a disagreement between the code and what the repository says
of it (`findings` in `PROJECT.json`); everything else holds.

| run | instance | shows |
|---|---|---|
| `additive_queue` | 3 keys, 3 updates, 2 batches of 1 record, main gives up after 2 flushes | the queue of deltas keeps the promise of `WriteThrough` under both flushers (`KeepsPromise`); no record is stranded; limits; what a clean exit may lose; every update is written in the end; the shutdown ends |
| `history_completion` | 1 key, 3 updates | violation: a queued `completed_at` is overwritten by `None` |
| `shutdown_race` | the peers queue: 3 keys, 4 updates of any time, 2 batches of 2 records | violation: `main` may return while the flush that the scheduler began is unanswered |
| `swarm` | 1 torrent, 1 user with 2 clients, 2 handlers, 2 announces, 2 torrent upserts that may overlap, 1 reload, both probe outcomes | exact counters, users never undercounted, queue follows memory, drift never grows, nobody erased early |
| `user_counts` | 2 handlers, 1 client | violation: reordered deltas leave a user's count too high |
| `peer_limit` | 1 user with 2 clients, 1 handler, 3 announces, limit 1 | violation: a peer that was marked inactive comes back beyond the limit |
| `tracker` | 1 torrent, 1 client, 2 handlers, 2 announces, 1 failed statement, 1 crash | memory, queues and tables agree at every step and across the crash; in the end nobody is left in them |
| `traffic` | 1 user with 2 clients, 2 handlers, 3 announces, 2 units, 1 restart | the three ledgers agree, credit is earned, a history is active as long as a peer is |
| `recovery` | 1 client, 1 handler, 3 announces, 2 units, 1 restart of the client, 1 crash; the torrent featured or free | what a crash makes count twice is bounded by what was not written |
| `answers` | 2 handlers, 4 announces, 2 windows for seed lists and 1 for leech lists, time to live 2 units, check enabled or not | verdicts are fresh, sockets are spared, rates are what was asked for, grants stay near the limits |
| `overtaken_announce` | 1 client, 2 handlers, 4 announces, no restart | violation: an overtaken announce makes traffic count twice |
| `users` | 2 users, 3 passkeys, 2 calls at a time, 5 in all, 1 announce | both maps end up as the website has them; rates are kept |

### The properties

* `NoRecordStranded`: the ring map's order and records agree, and every drained record is in
  exactly one batch that will be looked at.
* `CleanExitLosesOnlyLate` against `CleanExitLosesNothing`: what `main` does guarantee, and what
  it says it does. The queues are empty when `main` looks, but the scheduler may hold what it has drained, and put it
  back before `main` returns, or `reap` may upsert: of nothing else is a record lost.
* `UsersNeverUndercounted` against `UserCountsMatch`: reordering can make a count too high only.
  A user whose count is too high is denied slots, one whose count is too low would get more.
* `CountersExact` and `DriftNeverGrows`: the counters are exact until something else sets
  them; after that saturation at 0 can only bring them nearer. The second needs everybody
  at the lock to have loaded the config of now (`ConfigFresh`); without that a reload in the
  middle of a request moves the counters for good.
* `ErasedOnlyWhenStale`: a peer is erased by a stop of its own, or by a reap after it was silent for
  long enough, and by one thing more, which the property names: when two upserts of a torrent overlap,
  the second finds no torrent and puts an empty one over the first's. Nothing in the repository says that two may
  overlap, nor that they may not. Neither a destroyed torrent, whose peers stay, nor a single
  upsert, whatever runs between its two halves, loses any.
* `TableFollowsCounters` and `RowsFollowPeers`: the two promises a start rests on. The counters of the
  table lack exactly what is queued, unanswered or still with a request; the row of a peer that is
  there is that peer once nothing newer is on its way, whatever failed, was applied or not, and was put back. A reap writes
  no rows, so the row of a peer
  that it has made inactive is still active: the property asks that it be so old that the next
  reap finds it expired. It leaves out a peer once two of its announces have been in flight at a time: then the older may be the
  last under the torrents lock while the guard of `merge` keeps the newer's row, or the other way round. The runs contain such
  announces (two handlers, one client), and what is claimed of the counters is claimed of these too.
* `TablesSettle`: without further announces the tables come to hold no active counts and memory no peers, whatever
  failed, crashed or was recounted. A start takes peers back that a reap had already
  marked, and their stops that were not written: all of these must expire again.
* `ActivePeersLimited` is what `config.rs:72` says ("Max amount of active peers a user is allowed to have on a torrent"),
  and does not hold: the limit is checked for new peers, against active ones, so that one that comes back while inactive
  is not counted. A start can do the same by taking back a peer that a reap had marked.
* `CrashRepeatsOnlyUnwritten`: a crash between the statements of a flush lets the histories know of
  traffic the peers' rows do not; the next announce is compared with the row. The property bounds
  what is counted twice by what the row did not say. A user that had two announces in flight is left
  out, for `overtaken_announce` shows what happens then without any crash.
* `VerdictFollowsProbe` and `ProbesBounded`: two sides of a cache that overlapping probes write with the
  time they began: nothing too old is used, and nobody is probed without need. The bound on
  probes in a period is `n(n+1)/2` for `n` announces in flight, not `n`: an older answer written over a newer one
  makes the entry stale early. TLC reaches it (3 for two handlers).
* `RateFollowsRequests` and `GrantsNearLimit`: the count of a rate is the decayed sum of what was asked
  for, even by announces whose ticks are late; and lists granted on a rate read before the probe pass the limit by
  no more than the announces in flight.
* `UserLedgerFollows` and `TorrentLedgerFollows`: the three queues are told at different moments, two
  of them only if there is something to tell, and yet the sums agree.
* `CreditIsEarned` against `CreditNeverExceedsTraffic`: nobody is credited what was not
  transferred, as long as a user's announces come one after the other. When one overtakes
  another of the same client it is taken for a new session, and stores counters that are too low.
* `HistoryShowsActive`: clients of a user share one history row. A peer that is reaped does not
  change the row, so the other direction is not true, nor meant to be.
* `StoresFollowSite`: calls about other users may stand at any step; a passkey leads to nobody
  but its user, an old one to nobody.

### Bounds

Two flushers need two records to interleave and a third to arrive meanwhile; three updates
and two batches do that, and three keys, more than a flush takes (2 x 1),
exercise the limits (`WithinLimits` is proved for all). Deltas count each update up to 2, enough to tell "lost", "once" and "twice"
apart.

In `swarm` two announces suffice for every pair of steps to be in either order, with a reload and
two upserts between any two of them; its properties are proved for any number. In `peer_limit` the
third announce is the one that comes back. In `tracker` the two announces are of one client, one after the other or at once;
what matters there is that the crash, the failure and the flush can be between
any two steps of either, and that peers expire after one tick
(`ActiveTtl = InactiveTtl = 0`; the `swarm` instance has 1 and 2). The run's action constraint, `FirstComesFirst`, only says which of two
idle requests comes in; they are alike, and none of them is treated fairly. `Connectable` has one value there: with both,
1,170,743 states instead of 601,439, the same properties hold, and that a recount includes a peer as the lists do
is proved for both (`RecountExact`). A second crash starts from tables
as any, since `counts` is overwritten by the start.

In `traffic` the third announce is the one that takes a difference to what the first two left
behind, and two units are one before and one between them. `recovery` needs the three announces
before the crash, between its statements and after it. In `answers` two time units
are one time to live, four announces fill two windows twice. Three passkeys let one user change its
passkey while the other registers; five calls are a registration, two changes and a removal with
one about the other user.

`MaxUpdates`, `MaxAnnounces`, `MaxReloads`, `MaxApiCalls`, `MaxFailures`, `MaxCrashes`, `MaxTime` and
`MaxTraffic` only bound the runs. The runs do not check for deadlock: a system without further requests,
or after its exit, rightly stops.

### Fairness

`UpdateQueue`: the runtime polls ready tasks and the scheduler's interval ticks (weak fairness of
the flushers' steps), statements are answered, one way or the other (the driver's timeouts),
and the database does not refuse the batches of the same key for ever (strong
fairness of `DbOk` for each key). The last is an assumption about the database: `EveryUpdateIsWritten` needs it, and a
record that MySQL never accepts keeps its batch from being written for ever.

`Tracker`: time passes; the scheduler, one task, flushes and reaps in turn (weak fairness of the
reap, which nothing but a crash interrupts; of `TakeTorrents`, which follows `TakePeers` without an await);
the database answers, and, the failures being bounded, writes in the end; a crashed process is started again, as
its supervisor does. Time stands still while a flush or a reap is under way, and no flush begins
during a reap, so that time and `TakePeers` are enabled again and again but not all along: they
need strong fairness. Requests need no fairness: `TablesSettle` speaks of runs in which they end. The
other modules have no liveness properties.

## 4. What is proved

By TLAPS, for every value of the constants that satisfies the named assumptions: every safety invariant and
every action property of section 3 that holds in a run. For each module, the theorems, and what makes their
invariants inductive.

### UpdateQueueProofs

* `TypeCorrect`, `HeldRecordsAreSent`: types, and that a record which was drained and is not settled is
  in a batch. The second is the strengthening `QueueKeepsPromise` needs: only then does an answer or a put-back of
  *all batches* settle *all records*.
* `QueueKeepsPromise`: a queue of deltas (`OfDeltas`) implements `WriteThrough`, if no
  statement reported as failed was committed (`AmbiguousErrors = FALSE`). From `MergeLaw`
  (merging is writing one after the other) and `OrderLaw` (order does not matter), that is, for
  the queues of `torrents` and `users` short of saturation. Each action is shown to leave `Shown` alone,
  but for the upserts, which are one `Write`. `CountsKeepPromise` applies it to the records of `Deltas`,
  for any set of updates: they obey the laws.
* `PeersKeepPromise`: with the queue of peers (`OfPeers`, `PeerSpec`), as long as `main` does not flush, each row
  is shown as writing every announce at once would leave it (`NewestAnnounceShown`), with ambiguous errors too, but for the keys that were once given a
  time not after the last. The invariant is that what the scheduler has drained of such a key is no newer than what
  was queued since (`InOrder`); then writing the older row once more, or putting it back, changes nothing. The order does not
  survive a second flusher, nor announces that reach the queue out of order: both can leave the older row, in the model as in the code, and
  these are the two conditions of the theorem. No run lists this property; TLC has checked it on 2 keys, 3 times and 3 updates (109,151 states), where
  a merge without its guard violates it.
* `NothingStranded`, `WithinLimits`, `CleanExit`: three parts of one invariant, `StrandedInv`. The order of
  the ring map lists each queued key once; each drained record is in one batch that has not succeeded, and in one only; and main has
  batches only while it waits for them; and when `main` is leaving, what is left is among `late` (`OnlyLateLeft`). That batches are sorted and split by rank is proved from the ranks of
  a finite set of integers (`SortedFacts`).

### SwarmProofs

* `TypeCorrect`.
* `CountersAreExact` and `CountersOnlyImprove`: both from one lemma
  (`StepMovesTogether`): a step of anybody who works by the config of now moves a torrent's counters, but for
  saturation, by exactly as much as it moves the sizes of its lists. Exactness follows, for what is exact does not
  saturate; and that saturating brings nearer is arithmetic. The invariant of the first adds `FreshUntilMoved`: as long as some
  torrent was not moved there was no reload, so everybody holds the config of now. Without it
  the invariant is not inductive: a request with an older config would count wrongly.
* `QueueFollowsCounters`: with that invariant, for the deltas that a request has yet to hand over are what it
  changed the counters by only if nothing saturated.
* `UsersKeepUp`: a user's count, with what requests still owe, is at least the number of the user's peers on the
  list (`UsersCovered`). At least, since a negative delta that comes first saturates. The peers are counted wherever
  they are kept (`Place`): in a torrent, or in the hands of an upsert, which moves them twice and makes them no more.
* `NothingElseErases`: whoever makes a known peer unknown is a stop of that peer, a reap that finds it silent for
  long enough, or an upsert that overwrites another's; each other action has its lemma.

### TrackerProofs, RowsProofs

* `TrackerTypeCorrect`, `CountersSurviveCrashes`: every step
  of `Tracker` but the crash and the start is a step of `Swarm` or leaves its variables alone (`StepsOfSwarm`), so that the
  invariant of `SwarmProofs` carries over; a crash empties the swarm (`CrashEmpties`), and a start makes counters and
  peers from the same rows (`StartLoads`, from `RecountExact`). What the tables hold does not
  matter for this: the recount makes the counters exact whatever was lost.
* `TableKeepsUp`: the table, the queue and the statement that is not answered add up to what was handed to the
  queue (`NothingLost`), and that, by `QueueFollowsCounters`, to the counters. The invariant needs that a flush takes
  from the torrents queue only when it has no batch of it (`TakingHoldsNone`): else the second batch would replace the first.
* `UsersKeepUpAcrossCrashes`: a start counts each user's peers as it loads them.
* `RowsAlwaysFollowPeers`: of the rows of a peer that a request, the queue, a statement
  and the table hold, the newest will do for the peer (`NewestReflects`), and it is the one that is written
  last: a statement is older than what is queued, and both are older than what a request is about
  to queue (`StampsInOrder`), so that `merge` with its guard keeps the right one, be it new or put back, also when the
  statement that failed was applied. This is said of a peer whose announces never overlapped: two requests in flight
  about the same peer put it among `overlapped` (`RequestsApart`), which `Arrive` does not prevent; and the start
  relies on nothing being on its way (`NothingBeforeStart`).

### TrafficProofs

* `TrafficTypeCorrect`, `UserLedger`, `TorrentLedger`: the sums agree by themselves. Each step of an announce
  changes one of the parts and what is in flight by the same amount; nothing else is needed but the types.
* `HistoryActive`: for a user whose announces come one after the other (`OneAtATime`, as long as the user is not among
  `crossed`), the history is active or the one announce will make it so (`HistoryWillShow`).
* `CreditEarned`: what was credited, what is about to be, and what each client could still be credited with its next
  report are together covered by what was transferred (`Covered`). The third part is what makes it inductive: a lower
  number in `peers` would be credit for the future.
* `CrashesRepeatOnlyUnwritten`: the same account, but kept against the rows a start would find instead of the peers in
  memory (`Accounted`, with `RowsFollow`: a peer is what the row says that was handed over for it). A crash moves the difference between
  what was handed over and what was written to `repeated`, and nothing else.

### AnswersProofs

* `TypeCorrect`.
* `VerdictsAreFresh`: the cache always holds what the start has loaded, or what some probe found, under the time at which that
  one began (`CacheIsProbed`). To keep this, no two announces may share a probe, and one that is under way
  has found nothing yet (`ProbesApart`).
* `SocketIsSpared`: a budget for each period of one time to live (`Budget`). An announce without a probe may begin one,
  unless the cache is good for the whole period; an announce whose probe began before the period may spoil the
  cache once, and let all others begin again. The budget never grows, and gives the bound `n(n+1)/2` of `ProbesBounded`.
* `RatesCountRequests`: decay is multiplicative over time, so that a rate brought up to date at any later
  moment counts each request with the weight of its own (`RequestsInv`).
* `GrantsStayNearLimit`: there is room under the limit, and one list for each announce, for all who may yet be given one
  (`Room`, `GrantInv`); what was given has been asked for, or is owed by an announce that has not yet counted.

### UsersProofs

* `TypeCorrect`, and `MapsFollowSite`: the invariant adds that no passkey stands for
  two users, be it in the map, at the website or in a call (`PasskeysApart`), so that no call can
  touch another user's passkey; and, for a user with a call under way, how far the maps have
  followed (`Underway`). That the website gives out no passkey twice is what the first rests on.
* `RatesKept`: the rates are in the store or in the hands of the one call about the user, and while a call has them
  the store has no such user, so that no announce counts for an entry which is then overwritten (`RatesInv`).

### Sums

Ledgers and counters are sums over requests, users, peers or moments (`SumFunction`, a fold). The induction
theorems of the library take an operator as a parameter, which the installed provers cannot instantiate; `FiniteSums`
states induction for sets instead (`NatSetInduction`, `SubsetInduction`: a set that contains 0 and every successor contains `Nat`),
proves it from facts about finite cardinality, and with it what a sum is when one member is added, taken away or
changed, when all are scaled, and how two sums compare.

### Model-checked only

* Liveness, `EveryUpdateIsWritten`, `ShutdownEnds` and `TablesSettle`: their proofs need `ENABLED` for
  the fairness conditions, which is out of the prover's reach.
* The five violations, which are counterexamples and not theorems.
* `HistoryRows` has no promise that a theorem could state: its run is a violation.

## 5. What is not modelled, and the plan

Not modelled for good: routes, texts, parsing and conversions of parameters, statistics,
printing, the listener. Single inserts into one map under one lock (groups, tokens, blacklists,
featured torrents) have no behaviour that a model would explain.

Known, and without a property, since nothing in the repository says what should happen: users'
counts are loaded without regard to connectivity, the torrents' counters with it
(`store/user.rs:37`, `store.rs:128`); times to live too large for a date make the reap panic, and end the task
that flushes as well (`scheduler.rs:33`). The other hazards without a property carry a note in `PROJECT.json`.

Known as well, and without a run of their own:

* `config.rs:97` says how many lists a user is allowed to receive per window; `rate.rs:58` compares with `<=`, the count of before this list, so
  that even one announce at a time is granted one more. `GrantsNearLimit` bounds by how much (the announces in flight).
* `config.rs:80` calls `connectivity_check_interval` the minimum number of seconds a status is cached for; an older probe's answer
  written over a newer one's makes the entry stale early. `ProbesBounded` bounds how often.
* Several announces at once pass a group's download slots together (`announce.rs:445`).
* The conditions on a peer list take the stored counters, which an API call or a reload can set apart from the peers: an announce
  without a warning may then get an empty list although there are leeches (`announce.rs:632`).
* Two announces of one client in flight at once may leave its row and its peer in memory different (`announce.rs:348`, `overlapped` in `Tracker`),
  and so may the two flushers of a shutdown leave the older of two rows (`main.rs:110`).

Left for later, in this order:

1. The histories queue with all its columns: rows overwritten by older announces, deltas at
   their width.
2. How the load groups the rows of a socket for the connectivity cache, and which peers a list picks.
3. The tick arithmetic of the scheduler, and the announces queue, which has no keys.

Theorems left: which of the columns of `HistoryRows` keep the promise of `WriteThrough`. No safety property of a passing run is without its
theorem. Liveness stays with TLC.
