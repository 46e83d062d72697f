------------------------------- MODULE Traffic -------------------------------
(***************************************************************************)
(* What the announces of one torrent credit to its users, and the three    *)
(* places that are told: the user's history on the torrent, the user's     *)
(* total, and the torrent's balance.  An announce works the change out     *)
(* under the torrents lock, and hands it to one queue after the other.     *)
(*                                                                         *)
(* A queue is taken as UpdateQueue promises it: what is handed to it is    *)
(* written in that order.  Whether a peer is listed, and the counts of     *)
(* peers, are in Swarm.                                                    *)
(***************************************************************************)
EXTENDS Integers, FiniteSets, Functions

CONSTANTS
    User,
    PeerId,
    Handler,          \* announce requests that may be in flight at once
    NoPeer,           \* no peer with this index
    UploadFactor,     \* what config, group, torrent and donor status may make
    DownloadFactor,   \*   of the factors, in percent
    MaxTraffic,       \* bound on the units the clients transfer
    MaxRestarts,      \* bound on the sessions the clients begin anew
    MaxAnnounces      \* bound on announces

ASSUME SetAssumption ==
    /\ IsFiniteSet(User) /\ IsFiniteSet(PeerId) /\ IsFiniteSet(Handler)
    /\ UploadFactor \subseteq Nat /\ DownloadFactor \subseteq 0..100
ASSUME NumberAssumption == MaxTraffic \in Nat /\ MaxRestarts \in Nat /\ MaxAnnounces \in Nat

\* store/peer.rs, Index
Index == User \X PeerId

Amounts == [uploaded : Nat, downloaded : Nat]

Direction == {"uploaded", "downloaded"}

Nothing == [uploaded |-> 0, downloaded |-> 0]

Plus(x, y) == [uploaded |-> x.uploaded + y.uploaded, downloaded |-> x.downloaded + y.downloaded]

Peer == [is_active : BOOLEAN, is_seeder : BOOLEAN, reported : Amounts]

ASSUME SentinelAssumption == NoPeer \notin Peer

VARIABLES
    client,      \* what each client has counted in its session: it reports that
    traffic,     \* what each client has transferred in all its sessions
    peers,       \* the torrent's peers, behind the torrents lock
    completed,   \* the torrent's times_completed, behind the same lock
    announce,    \* the announce requests in flight
    history,     \* the rows of the users on the torrent, as handed to the queue
    credit,      \* the users' uploaded and downloaded, as handed to the queue
    torrent,     \* the torrent's row, as handed to the queue
    crossed,     \* users who had two announces in flight at once
    announces,   \* announces so far, for the bound
    restarts     \* sessions begun anew so far, for the bound

vars == <<client, traffic, peers, completed, announce, history, credit, torrent, crossed,
          announces, restarts>>

Idle == [pc |-> "idle"]

Init ==
    /\ client = [i \in Index |-> Nothing]
    /\ traffic = [i \in Index |-> Nothing]
    /\ peers = [i \in Index |-> NoPeer]
    /\ completed = 0
    /\ announce = [h \in Handler |-> Idle]
    /\ history = [u \in User |-> [is_active |-> FALSE, actual |-> Nothing, credited |-> Nothing]]
    /\ credit = [u \in User |-> Nothing]
    /\ torrent = [times_completed |-> 0, balance |-> 0]
    /\ crossed = {}
    /\ announces = 0
    /\ restarts = 0

(***************************************************************************)
(* The clients.                                                            *)
(***************************************************************************)
TotalTraffic == SumFunction([i \in Index |-> traffic[i].uploaded + traffic[i].downloaded])

Transfer(i) ==
    /\ TotalTraffic < MaxTraffic
    /\ \E unit \in {[uploaded |-> 1, downloaded |-> 0], [uploaded |-> 0, downloaded |-> 1]} :
        /\ client' = [client EXCEPT ![i] = Plus(@, unit)]
        /\ traffic' = [traffic EXCEPT ![i] = Plus(@, unit)]
    /\ UNCHANGED <<peers, completed, announce, history, credit, torrent, crossed, announces,
                   restarts>>

\* A client begins a new session under the same peer id.
Restart(i) ==
    /\ restarts < MaxRestarts
    /\ client[i] # Nothing
    /\ client' = [client EXCEPT ![i] = Nothing]
    /\ restarts' = restarts + 1
    /\ UNCHANGED <<traffic, peers, completed, announce, history, credit, torrent, crossed, announces>>

(***************************************************************************)
(* The change since the previous announce.                                 *)
(***************************************************************************)
\* Mistake: the difference is not kept from falling below 0.
PlainSub(m, n) == m - n

\* u64::saturating_sub
SaturatingSub(m, n) == IF m < n THEN 0 ELSE m - n

Difference(new, old) ==
    [uploaded |-> SaturatingSub(new.uploaded, old.uploaded),
     downloaded |-> SaturatingSub(new.downloaded, old.downloaded)]

\* The counters of another session than the one before.
Restarted(new, old) == new.uploaded < old.uploaded \/ new.downloaded < old.downloaded

Change(new, old) == IF Restarted(new, old) THEN Nothing ELSE Difference(new, old)

\* Mistake: a client that is new is taken to have transferred all it reports now.
AllIsNew(new) == new

\* A client that is new to the torrent is credited from now on.
ChangeAtFirst(new) == Nothing

(***************************************************************************)
(* An announce.                                                            *)
(***************************************************************************)
\* The request of client i arrives with the client's counters.  One that is
\* refused before the torrents lock changes nothing; it is a Reject.
Receive(h) ==
    /\ announce[h] = Idle
    /\ announces < MaxAnnounces
    /\ \E i \in Index, stopped \in BOOLEAN, is_seeder \in BOOLEAN :
        /\ announce' = [announce EXCEPT ![h] =
              [pc |-> "locking", index |-> i, stopped |-> stopped, is_seeder |-> is_seeder,
               reported |-> client[i]]]
        /\ crossed' = IF \E g \in Handler : announce[g] # Idle /\ announce[g].index[1] = i[1]
                      THEN crossed \cup {i[1]} ELSE crossed
    /\ announces' = announces + 1
    /\ UNCHANGED <<client, traffic, peers, completed, history, credit, torrent, restarts>>

\* Refused, for whatever reason: nothing changes.
Reject(h) ==
    /\ announce[h].pc = "locking"
    /\ announce' = [announce EXCEPT ![h] = Idle]
    /\ UNCHANGED <<client, traffic, peers, completed, history, credit, torrent, crossed, announces,
                   restarts>>

\* The section under the torrents lock: the peer is replaced, and what follows
\* from it is remembered, with the factors that hold now.
Replace(h, new, change, completion, is_active) ==
    LET a == announce[h]
    IN  /\ peers' = [peers EXCEPT ![a.index] = new]
        /\ completed' = completed + completion
        /\ \E up \in UploadFactor, down \in DownloadFactor :
            announce' = [announce EXCEPT ![h] =
                [pc |-> "histories", index |-> a.index, change |-> change,
                 completion |-> completion, is_active |-> is_active,
                 upload_factor |-> up, download_factor |-> down]]
        /\ UNCHANGED <<client, traffic, history, credit, torrent, crossed, announces, restarts>>

\* The peer as announced.
Announced(a) == [is_active |-> TRUE, is_seeder |-> a.is_seeder, reported |-> a.reported]

OldPeer(h) == peers[announce[h].index]

\* Mistake: the user's other peers on the torrent are forgotten.
InactiveAfterStop(index) == FALSE

\* is_active_after_stop: another peer of the same user is active here.
ActiveAfterStop(index) ==
    \E i \in Index \ {index} : i[1] = index[1] /\ peers[i] # NoPeer /\ peers[i].is_active

Stop(h) ==
    /\ announce[h].pc = "locking"
    /\ announce[h].stopped
    /\ OldPeer(h) # NoPeer
    /\ Replace(h, NoPeer, Difference(announce[h].reported, OldPeer(h).reported), 0,
               ActiveAfterStop(announce[h].index))

Modify(h) ==
    /\ announce[h].pc = "locking"
    /\ ~announce[h].stopped
    /\ OldPeer(h) # NoPeer
    /\ Replace(h, Announced(announce[h]), Change(announce[h].reported, OldPeer(h).reported),
               IF announce[h].is_seeder /\ ~OldPeer(h).is_seeder THEN 1 ELSE 0, TRUE)

Insert(h) ==
    /\ announce[h].pc = "locking"
    /\ ~announce[h].stopped
    /\ OldPeer(h) = NoPeer
    /\ Replace(h, Announced(announce[h]), ChangeAtFirst(announce[h].reported), 0, TRUE)

\* Per cent of the change, rounded down.
Credited(change, upload_factor, download_factor) ==
    [uploaded |-> (upload_factor * change.uploaded) \div 100,
     downloaded |-> (download_factor * change.downloaded) \div 100]

\* The torrents lock is released.  Freeleech makes the download factor 0, and a
\* featured torrent the upload factor 200: each is looked up on its own, so
\* with the website's calls in between any two answers go together.  Then the
\* change is handed to the histories queue.
QueueHistory(h) ==
    /\ announce[h].pc = "histories"
    /\ \E freeleech \in BOOLEAN, featured \in BOOLEAN :
        LET a == announce[h]
            u == a.index[1]
            credited == Credited(a.change,
                                 IF featured THEN 200 ELSE a.upload_factor,
                                 IF freeleech THEN 0 ELSE a.download_factor)
        IN  /\ history' = [history EXCEPT ![u] =
                  [is_active |-> a.is_active, actual |-> Plus(@.actual, a.change),
                   credited |-> Plus(@.credited, credited)]]
            /\ announce' = [announce EXCEPT ![h] =
                  [pc |-> "users", index |-> a.index, change |-> a.change,
                   completion |-> a.completion, credited |-> credited]]
    /\ UNCHANGED <<client, traffic, peers, completed, credit, torrent, crossed, announces, restarts>>

\* Mistake: the user is told the change before the factors.
QueueUserUncredited(h) ==
    /\ announce[h].pc = "users"
    /\ LET a == announce[h]
       IN  credit' = [credit EXCEPT ![a.index[1]] =
              IF a.credited = Nothing THEN @ ELSE Plus(@, a.change)]
    /\ announce' = [announce EXCEPT ![h].pc = "torrents"]
    /\ UNCHANGED <<client, traffic, peers, completed, history, torrent, crossed, announces, restarts>>

\* The users queue is told of what was credited, unless that is nothing.
QueueUser(h) ==
    /\ announce[h].pc = "users"
    /\ LET a == announce[h]
       IN  credit' = [credit EXCEPT ![a.index[1]] =
              IF a.credited = Nothing THEN @ ELSE Plus(@, a.credited)]
    /\ announce' = [announce EXCEPT ![h].pc = "torrents"]
    /\ UNCHANGED <<client, traffic, peers, completed, history, torrent, crossed, announces, restarts>>

\* Mistake: what was only downloaded is no reason to queue anything.
QueueTorrentIfUploaded(h) ==
    /\ announce[h].pc = "torrents"
    /\ LET a == announce[h]
       IN  torrent' = IF a.completion = 0 /\ a.change.uploaded = 0 THEN torrent ELSE
              [times_completed |-> torrent.times_completed + a.completion,
               balance |-> torrent.balance + a.change.uploaded - a.change.downloaded]
    /\ announce' = [announce EXCEPT ![h] = Idle]
    /\ UNCHANGED <<client, traffic, peers, completed, history, credit, crossed, announces, restarts>>

\* The torrents queue is told of the uncredited change, unless there is none.
\* A change of the counts of peers alone is sent too, and adds nothing here.
QueueTorrent(h) ==
    /\ announce[h].pc = "torrents"
    /\ LET a == announce[h]
       IN  torrent' = IF a.completion = 0 /\ a.change = Nothing THEN torrent ELSE
              [times_completed |-> torrent.times_completed + a.completion,
               balance |-> torrent.balance + a.change.uploaded - a.change.downloaded]
    /\ announce' = [announce EXCEPT ![h] = Idle]
    /\ UNCHANGED <<client, traffic, peers, completed, history, credit, crossed, announces, restarts>>

Announce(h) ==
    \/ Receive(h)
    \/ Reject(h) \/ Stop(h) \/ Modify(h) \/ Insert(h)
    \/ QueueHistory(h) \/ QueueUser(h) \/ QueueTorrent(h)

(***************************************************************************)
(* The reaper (scheduler.rs, reap).  Which peers have been silent for too  *)
(* long is left open: Swarm has the time.                                  *)
(***************************************************************************)
Active == {i \in Index : peers[i] # NoPeer /\ peers[i].is_active}

Inactive == {i \in Index : peers[i] # NoPeer /\ ~peers[i].is_active}

Reap ==
    /\ \E expired \in SUBSET Active, forgotten \in SUBSET Inactive :
        /\ expired \cup forgotten # {}
        /\ peers' = [i \in Index |->
              IF i \in forgotten THEN NoPeer
              ELSE IF i \in expired THEN [peers[i] EXCEPT !.is_active = FALSE]
              ELSE peers[i]]
    /\ UNCHANGED <<client, traffic, completed, announce, history, credit, torrent, crossed,
                   announces, restarts>>

Next ==
    \/ \E i \in Index : Transfer(i) \/ Restart(i)
    \/ \E h \in Handler : Announce(h)
    \/ Reap

Spec == Init /\ [][Next]_vars

(***************************************************************************)
(* Properties.                                                             *)
(***************************************************************************)
Locking ==
    [pc : {"locking"}, index : Index, stopped : BOOLEAN, is_seeder : BOOLEAN,
     reported : Amounts]

Changed ==
    [pc : {"histories"}, index : Index, change : Amounts, completion : {0, 1},
     is_active : BOOLEAN, upload_factor : UploadFactor, download_factor : DownloadFactor]

Telling ==
    [pc : {"users", "torrents"}, index : Index, change : Amounts, completion : {0, 1},
     credited : Amounts]

Request == {Idle} \cup Locking \cup Changed \cup Telling

History == [is_active : BOOLEAN, actual : Amounts, credited : Amounts]

TypeOK ==
    /\ client \in [Index -> Amounts]
    /\ traffic \in [Index -> Amounts]
    /\ peers \in [Index -> Peer \cup {NoPeer}]
    /\ completed \in Nat
    /\ announce \in [Handler -> Request]
    /\ history \in [User -> History]
    /\ credit \in [User -> Amounts]
    /\ torrent \in [times_completed : Nat, balance : Int]
    /\ crossed \subseteq User
    /\ announces \in 0..MaxAnnounces
    /\ restarts \in 0..MaxRestarts

\* What of the request of h the users queue has yet to be told, in direction d.
CreditOwed(u, d) ==
    [h \in Handler |->
        IF announce[h].pc = "users" /\ announce[h].index[1] = u
        THEN announce[h].credited[d] ELSE 0]

\* A user's total is what the user's histories were credited, but for the
\* requests between the two queues (announce.rs, the histories queue's and the
\* users queue's upsert).
UserLedgerFollows ==
    \A u \in User, d \in Direction :
        credit[u][d] + SumFunction(CreditOwed(u, d)) = history[u].credited[d]

\* What the torrents queue has yet to be told, the history having been.
BalanceOwed ==
    [h \in Handler |->
        IF announce[h].pc \in {"users", "torrents"}
        THEN announce[h].change.uploaded - announce[h].change.downloaded ELSE 0]

CompletionOwed ==
    [h \in Handler |->
        IF announce[h].pc \in {"histories", "users", "torrents"}
        THEN announce[h].completion ELSE 0]

Balances == [u \in User |-> history[u].actual.uploaded - history[u].actual.downloaded]

\* The torrent's balance is what its users have uploaded less what they have
\* downloaded, and the completions sent are those counted in memory, but for the
\* requests that are not there yet (announce.rs, the torrents queue's upsert
\* and its condition).
TorrentLedgerFollows ==
    /\ torrent.balance + SumFunction(BalanceOwed) = SumFunction(Balances)
    /\ torrent.times_completed + SumFunction(CompletionOwed) = completed

TrafficOf(u, d) == SumFunction([i \in {u} \X PeerId |-> traffic[i][d]])

WithinTraffic(u) == \A d \in Direction : history[u].actual[d] <= TrafficOf(u, d)

\* A user whose announces come one after the other is never credited more than
\* the user's clients have transferred, whatever sessions begin anew, peers are
\* reaped, stopped or come back (announce.rs, the change since the previous
\* announce).
CreditIsEarned == \A u \in User \ crossed : WithinTraffic(u)

\* What announce.rs says of the change: it is the change since the previous
\* announce, so that no announces add up to more than was transferred.
CreditNeverExceedsTraffic == \A u \in User : WithinTraffic(u)

\* The history of a user whose announces come one after the other is active as
\* long as one of the user's peers is (announce.rs, is_active_after_stop).
HistoryShowsActive ==
    \A u \in User \ crossed :
        (\E i \in Active : i[1] = u) /\ (\A h \in Handler : announce[h] # Idle
                                              => announce[h].index[1] # u)
            => history[u].is_active
=============================================================================
