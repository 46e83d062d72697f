------------------------------ MODULE Recovery ------------------------------
(***************************************************************************)
(* What a crash does to the traffic of Traffic.  An announce hands a row   *)
(* to the peers queue and deltas to three others; the tables are written   *)
(* one independently of the other, so that a crash may find the deltas of  *)
(* an announce written and its row not, or the row and not the deltas.     *)
(* The process that starts afterwards goes on from the rows.               *)
(*                                                                         *)
(* A table is written as its queue was when the flush took it: what is     *)
(* taken and not written, or failed and was put back, is lost in a crash   *)
(* like what was never taken, so the taking is left out.                   *)
(***************************************************************************)
EXTENDS Traffic

CONSTANT MaxCrashes   \* bound on crashes

ASSUME CrashAssumption == MaxCrashes \in Nat

VARIABLES
    handed,       \* the newest row of each peer that was handed to the peers queue
    peersTable,   \* the tables, as they are written
    historyTable,
    usersTable,
    torrentsTable,
    repeated,     \* what crashes so far have made the tracker forget having counted
    crashes       \* crashes so far, for the bound

tables == <<peersTable, historyTable, usersTable, torrentsTable>>

recoveryVars == <<vars, handed, tables, repeated, crashes>>

RecoveryInit ==
    /\ Init
    /\ handed = peers
    /\ peersTable = peers
    /\ historyTable = history
    /\ usersTable = credit
    /\ torrentsTable = torrent
    /\ repeated = [u \in User |-> Nothing]
    /\ crashes = 0

\* The row that the announce of h, which has just left the torrents lock, hands
\* to the peers queue: the client as announced, active unless it has stopped.
Hand(h) ==
    handed' = [handed EXCEPT ![announce[h].index] =
        [is_active |-> ~announce[h].stopped, is_seeder |-> announce[h].is_seeder,
         reported |-> announce[h].reported]]

AnnounceAndHand(h) ==
    /\ Stop(h) \/ Modify(h) \/ Insert(h)
    /\ Hand(h)
    /\ UNCHANGED <<tables, repeated, crashes>>

\* Everything else that happens in Traffic.
Go ==
    /\ \/ \E i \in Index : Transfer(i) \/ Restart(i)
       \/ \E h \in Handler :
            Receive(h) \/ Reject(h) \/ QueueHistory(h) \/ QueueUser(h) \/ QueueTorrent(h)
       \/ Reap
    /\ UNCHANGED <<handed, tables, repeated, crashes>>

\* The four statements of a flush: each is answered on its own.
WritePeers ==
    /\ peersTable' = handed
    /\ UNCHANGED <<vars, handed, historyTable, usersTable, torrentsTable, repeated, crashes>>

WriteHistories ==
    /\ historyTable' = history
    /\ UNCHANGED <<vars, handed, peersTable, usersTable, torrentsTable, repeated, crashes>>

WriteUsers ==
    /\ usersTable' = credit
    /\ UNCHANGED <<vars, handed, peersTable, historyTable, torrentsTable, repeated, crashes>>

WriteTorrents ==
    /\ torrentsTable' = torrent
    /\ UNCHANGED <<vars, handed, peersTable, historyTable, usersTable, repeated, crashes>>

\* Mistake: the counters of a peer that is loaded begin at 0.
LoadedFromNothing(row) == IF row = NoPeer THEN NoPeer ELSE [row EXCEPT !.reported = Nothing]

\* TorrentStore::from_db: a peer is its row, also one that has stopped.
Loaded(row) == row

\* What the client i has reported beyond the row that is found.
Forgotten(i) ==
    IF handed[i] = NoPeer \/ peersTable[i] = NoPeer THEN Nothing
    ELSE Difference(handed[i].reported, peersTable[i].reported)

ForgottenOf(u) ==
    LET total(d) == SumFunction([i \in {u} \X PeerId |-> Forgotten(i)[d]])
    IN  [uploaded |-> total("uploaded"), downloaded |-> total("downloaded")]

\* The process dies with its memory and its queues, and is started again.
Crash ==
    /\ crashes < MaxCrashes
    /\ peers' = [i \in Index |-> Loaded(peersTable[i])]
    /\ handed' = peersTable
    /\ completed' = torrentsTable.times_completed
    /\ announce' = [h \in Handler |-> Idle]
    /\ history' = historyTable
    /\ credit' = usersTable
    /\ torrent' = torrentsTable
    /\ repeated' = [u \in User |-> Plus(repeated[u], ForgottenOf(u))]
    /\ crashes' = crashes + 1
    /\ UNCHANGED <<client, traffic, crossed, announces, restarts, tables>>

RecoveryNext ==
    \/ \E h \in Handler : AnnounceAndHand(h)
    \/ Go
    \/ WritePeers \/ WriteHistories \/ WriteUsers \/ WriteTorrents
    \/ Crash

RecoverySpec == RecoveryInit /\ [][RecoveryNext]_recoveryVars

(***************************************************************************)
(* Properties.                                                             *)
(***************************************************************************)
\* A crash makes the tracker count at most that traffic twice whose row had not
\* been written: the row is overwritten as a whole, and what a client reports
\* is compared with it (queue/peer_update.rs; store/torrent.rs, the load;
\* announce.rs, the change since the previous announce).
CrashRepeatsOnlyUnwritten ==
    \A u \in User \ crossed : \A d \in Direction :
        history[u].actual[d] <= TrafficOf(u, d) + repeated[u][d]
=============================================================================
