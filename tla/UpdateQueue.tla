----------------------------- MODULE UpdateQueue -----------------------------
(***************************************************************************)
(* One Queue<K, V> of queue.rs, behind its mutex: handlers upsert records, *)
(* the scheduler flushes in rounds, and after the server has stopped main  *)
(* flushes too, while the scheduler's task is still running.               *)
(*                                                                         *)
(* The module is generic, as the code is: Merge is the record type's       *)
(* Mergeable::merge and Apply its upsert statement.                        *)
(***************************************************************************)
EXTENDS Integers, Sequences, FiniteSets, Functions

CONSTANTS
    Key,              \* the keys, ordered as the integers they are
    Update,           \* the values of records
    Row,              \* the rows of the table, NoRow included
    NoRow,            \* no row with this key yet
    None,             \* no record for this key
    Merge(_, _),      \* Merge(old, new): the record after old.merge(new)
    Apply(_, _),      \* Apply(row, u): the row after the upsert of u
    Fresh(_),         \* Fresh(n): what the n-th update made may be
    MaxBatches,       \* max_batches_per_flush
    MaxBatchSize,     \* the smaller of the bindings limit and max_records_per_batch
    MaxFlushes,       \* main's bound on its flushes, 1000 in the code
    ReapUpdates,      \* TRUE for the torrents queue, which reap also feeds
    AmbiguousErrors,  \* TRUE if a statement reported as failed may have been applied
    MaxUpdates        \* bound on the updates made in a run

Flusher == {"scheduler", "main"}

ASSUME KeyAssumption == Key \subseteq Int /\ IsFiniteSet(Key)
ASSUME NoneAssumption == None \notin Update
ASSUME RowAssumption ==
    /\ NoRow \in Row
    /\ \A r \in Row, u \in Update : Apply(r, u) \in Row
ASSUME UpdateAssumption ==
    /\ \A u, v \in Update : Merge(u, v) \in Update
    /\ \A n \in 1..MaxUpdates : Fresh(n) \subseteq Update
ASSUME LimitAssumption ==
    /\ MaxBatches \in Nat /\ MaxBatchSize \in Nat \ {0}
    /\ MaxFlushes \in Nat /\ MaxUpdates \in Nat
    /\ ReapUpdates \in BOOLEAN /\ AmbiguousErrors \in BOOLEAN

VARIABLES
    order,    \* the keys of the records, front of the ring map first
    queued,   \* the record of each key, or None
    held,     \* held[f]: the records f drained and has not yet written or put back
    sent,     \* sent[f]: the batches of f's current flush, in the order of join_all
    db,       \* the table
    main,     \* where main is: serving, or in its shutdown loop, or gone
    flushes,  \* main's count of flushes
    made,     \* how many updates were made, for the bound MaxUpdates
    late      \* ghost: the keys whose records main's last check could not see

vars == <<order, queued, held, sent, db, main, flushes, made, late>>

Nothing == [k \in Key |-> None]

Init ==
    /\ order = <<>>
    /\ queued = Nothing
    /\ held = [f \in Flusher |-> Nothing]
    /\ sent = [f \in Flusher |-> <<>>]
    /\ db = [k \in Key |-> NoRow]
    /\ main = "serving"
    /\ flushes = 0
    /\ made = 0
    /\ late = {}

(***************************************************************************)
(* Records.                                                                *)
(***************************************************************************)
\* Mistake: the record that is queued is overwritten.
Overwritten(old, u) == u

\* The record of a key after u is upserted over old.
Merged(old, u) == IF old = None THEN u ELSE Merge(old, u)

\* Mistake: every upsert pushes to the back.
PlacedAgain(ord, k) == Append(ord, k)

\* The ring map's order after k is upserted: a new key goes to the back.
Placed(ord, k) == IF k \in Range(ord) THEN ord ELSE Append(ord, k)

Idle(f) == sent[f] = <<>>

\* Mistake: the drain takes one record too many.
DrainedOneMore ==
    {k \in Key : \E i \in DOMAIN order :
                    i <= MaxBatches * MaxBatchSize + 1 /\ order[i] = k}

\* The first records of the ring map, as many as one flush may take.
Drained ==
    {k \in Key : \E i \in DOMAIN order :
                    i <= MaxBatches * MaxBatchSize /\ order[i] = k}

\* How far k is from the largest key of D, which counts as 1.
Rank(k, D) == Cardinality({x \in D : x >= k})

\* The keys of D, the smallest first.
Sorted(D) ==
    [i \in 1..Cardinality(D) |-> CHOOSE k \in D : Rank(k, D) = Cardinality(D) + 1 - i]

\* Mistake: the batches are one record too large.
BatchesTooLarge(D) ==
    LET count == (Cardinality(D) + MaxBatchSize) \div (MaxBatchSize + 1)
    IN  [i \in 1..count |->
            {k \in D : (Rank(k, D) - 1) \div (MaxBatchSize + 1) = count - i}]

\* D sorted and split from its end: every batch is full but the first.
Batches(D) ==
    LET count == (Cardinality(D) + MaxBatchSize - 1) \div MaxBatchSize
    IN  [i \in 1..count |->
            {k \in D : (Rank(k, D) - 1) \div MaxBatchSize = count - i}]

(***************************************************************************)
(* Upserts by the handlers and by reap.                                    *)
(***************************************************************************)
Upsert(k, u) ==
    /\ queued' = [queued EXCEPT ![k] = Merged(@, u)]
    /\ order' = Placed(order, k)
    /\ made' = made + 1
    /\ late' = IF main = "leaving" THEN late \cup {k} ELSE late
    /\ UNCHANGED <<held, sent, db, main, flushes>>

\* Axum ends serve() only when the last handler has returned.
AnnounceUpsert ==
    /\ main = "serving"
    /\ made < MaxUpdates
    /\ \E k \in Key : \E u \in Fresh(made + 1) : Upsert(k, u)

\* Reap runs in the scheduler's loop, so never while the scheduler flushes.
ReapUpsert ==
    /\ ReapUpdates
    /\ main # "exited"
    /\ Idle("scheduler")
    /\ made < MaxUpdates
    /\ \E k \in Key : \E u \in Fresh(made + 1) : Upsert(k, u)

(***************************************************************************)
(* One flush of a flusher: drain, send every batch at once, wait for all   *)
(* the answers, put the batches that failed back.                          *)
(***************************************************************************)
Take(f) ==
    /\ held' = [held EXCEPT ![f] =
                   [k \in Key |-> IF k \in Drained THEN queued[k] ELSE None]]
    /\ queued' = [k \in Key |-> IF k \in Drained THEN None ELSE queued[k]]
    /\ order' = SubSeq(order, Cardinality(Drained) + 1, Len(order))
    /\ sent' = [sent EXCEPT ![f] =
                   [i \in DOMAIN Batches(Drained) |->
                       [keys |-> Batches(Drained)[i], answer |-> "none"]]]

Write(f, i) ==
    db' = [k \in Key |-> IF k \in sent[f][i].keys /\ held[f][k] # None
                         THEN Apply(db[k], held[f][k])
                         ELSE db[k]]

Answer(f, i, a) ==
    /\ main # "exited"
    /\ sent[f][i].answer = "none"
    /\ sent' = [sent EXCEPT ![f][i].answer = a]

\* The statement was committed and the driver says so.
DbOk(f, i) ==
    /\ Answer(f, i, "ok")
    /\ Write(f, i)
    /\ held' = [held EXCEPT ![f] =
                   [k \in Key |-> IF k \in sent[f][i].keys THEN None ELSE @[k]]]
    /\ UNCHANGED <<order, queued, main, flushes, made, late>>

\* The statement failed as a whole.
DbError(f, i) ==
    /\ Answer(f, i, "error")
    /\ UNCHANGED <<order, queued, held, db, main, flushes, made, late>>

\* The statement was committed and its answer was lost on the way.
DbErrorAfterCommit(f, i) ==
    /\ AmbiguousErrors
    /\ Answer(f, i, "error")
    /\ Write(f, i)
    /\ UNCHANGED <<order, queued, held, main, flushes, made, late>>

\* join_all has returned, and the results are gone through in order.
Answered(f) ==
    /\ main # "exited"
    /\ sent[f] # <<>>
    /\ \A i \in DOMAIN sent[f] : sent[f][i].answer # "none"

Forget(f) ==
    /\ Answered(f)
    /\ Head(sent[f]).answer = "ok"
    /\ sent' = [sent EXCEPT ![f] = Tail(@)]
    /\ UNCHANGED <<order, queued, held, db, main, flushes, made, late>>

\* upsert_batch: each record is upserted over what was queued meanwhile.
PutBack(f) ==
    /\ Answered(f)
    /\ Head(sent[f]).answer = "error"
    /\ LET batch == Head(sent[f]).keys
       IN  /\ queued' = [k \in Key |->
                            IF k \in batch /\ held[f][k] # None
                            THEN Merged(queued[k], held[f][k])
                            ELSE queued[k]]
           /\ order' = order \o Sorted(batch \ Range(order))
           /\ held' = [held EXCEPT ![f] =
                          [k \in Key |-> IF k \in batch THEN None ELSE @[k]]]
    /\ sent' = [sent EXCEPT ![f] = Tail(@)]
    /\ UNCHANGED <<db, main, flushes, made, late>>

\* Mistake: the scheduler waits until there is more than one record to write.
SchedulerFlushesMany ==
    /\ main # "exited"
    /\ Idle("scheduler")
    /\ Len(order) > 1
    /\ Take("scheduler")
    /\ UNCHANGED <<db, main, flushes, made, late>>

\* The scheduler's loop, on every flush_interval_milliseconds-th tick.
SchedulerFlush ==
    /\ main # "exited"
    /\ Idle("scheduler")
    /\ order # <<>>
    /\ Take("scheduler")
    /\ UNCHANGED <<db, main, flushes, made, late>>

(***************************************************************************)
(* The shutdown loop of main.                                              *)
(***************************************************************************)
\* The signal has come and serve() has returned.
StopServing ==
    /\ main = "serving"
    /\ main' = "checking"
    /\ UNCHANGED <<order, queued, held, sent, db, flushes, made, late>>

\* Mistake: flushes <= max_flushes
MainContinuesOnce ==
    /\ main \in {"checking", "leaving"}
    /\ flushes <= MaxFlushes
    /\ main' = "taking"
    /\ late' = {}
    /\ UNCHANGED <<order, queued, held, sent, db, flushes, made>>

\* flushes < max_flushes && are_not_empty(): if this queue is found empty, one
\* that is looked at before or after it may be the reason to go on.
MainContinues ==
    /\ main \in {"checking", "leaving"}
    /\ flushes < MaxFlushes
    /\ main' = "taking"
    /\ late' = {}
    /\ UNCHANGED <<order, queued, held, sent, db, flushes, made>>

\* Mistake: one flush is thought to be enough.
MainFindsEnough ==
    /\ main = "checking"
    /\ flushes < MaxFlushes
    /\ flushes >= 1 \/ order = <<>>
    /\ main' = "leaving"
    /\ late' = {k \in Key : held["scheduler"][k] # None}
    /\ UNCHANGED <<order, queued, held, sent, db, flushes, made>>

\* are_not_empty() finds this queue empty and lets go of its lock: the scheduler
\* may put back what it holds, and reap upsert, before main looks at the other
\* queues and returns.
MainFindsEmpty ==
    /\ main = "checking"
    /\ flushes < MaxFlushes
    /\ order = <<>>
    /\ main' = "leaving"
    /\ late' = {k \in Key : held["scheduler"][k] # None}
    /\ UNCHANGED <<order, queued, held, sent, db, flushes, made>>

\* The bound on the flushes ends the loop before the queues are looked at.
MainGivesUp ==
    /\ main = "checking"
    /\ flushes >= MaxFlushes
    /\ main' = "leaving"
    /\ UNCHANGED <<order, queued, held, sent, db, flushes, made, late>>

\* Main returns, and the process and its other tasks end with it.
MainExits ==
    /\ main = "leaving"
    /\ main' = "exited"
    /\ UNCHANGED <<order, queued, held, sent, db, flushes, made, late>>

MainFlush ==
    /\ main = "taking"
    /\ Take("main")
    /\ main' = "flushing"
    /\ UNCHANGED <<db, flushes, made, late>>

\* Mistake: flushes is not counted up.
MainFlushedUncounted ==
    /\ main = "flushing"
    /\ Idle("main")
    /\ main' = "checking"
    /\ UNCHANGED <<order, queued, held, sent, db, flushes, made, late>>

MainFlushed ==
    /\ main = "flushing"
    /\ Idle("main")
    /\ flushes' = flushes + 1
    /\ main' = "checking"
    /\ UNCHANGED <<order, queued, held, sent, db, made, late>>

DbAnswers(f) ==
    \E i \in DOMAIN sent[f] : DbOk(f, i) \/ DbError(f, i) \/ DbErrorAfterCommit(f, i)

GoThroughResults(f) == Forget(f) \/ PutBack(f)

MainLoop ==
    MainContinues \/ MainFindsEmpty \/ MainGivesUp \/ MainExits \/ MainFlush \/ MainFlushed

Flush ==
    \/ SchedulerFlush
    \/ \E f \in Flusher : DbAnswers(f) \/ GoThroughResults(f)
    \/ StopServing
    \/ MainLoop

Next == AnnounceUpsert \/ ReapUpsert \/ Flush

Spec == Init /\ [][Next]_vars

\* The runtime polls every ready task, the scheduler's interval keeps ticking
\* and the driver's timeouts make the database answer each statement one way or
\* the other. The last conjunct asks for more: the database does not refuse the
\* batches of the same key for ever.
Fairness ==
    /\ WF_vars(SchedulerFlush)
    /\ WF_vars(MainLoop)
    /\ \A f \in Flusher :
        /\ WF_vars(DbAnswers(f))
        /\ WF_vars(GoThroughResults(f))
        /\ \A k \in Key :
            SF_vars(\E i \in DOMAIN sent[f] : k \in sent[f][i].keys /\ DbOk(f, i))

FairSpec == Spec /\ Fairness

(***************************************************************************)
(* Properties.                                                             *)
(***************************************************************************)
Main == {"serving", "checking", "taking", "flushing", "leaving", "exited"}

Record == Update \cup {None}

SentBatch == [keys : SUBSET Key, answer : {"none", "ok", "error"}]

\* The type of every variable but the order of the ring map.
TypeOK ==
    /\ queued \in [Key -> Record]
    /\ held \in [Flusher -> [Key -> Record]]
    /\ sent \in [Flusher -> Seq(SentBatch)]
    /\ db \in [Key -> Row]
    /\ main \in Main
    /\ flushes \in 0..MaxFlushes
    /\ made \in 0..MaxUpdates
    /\ late \subseteq Key

\* Where the records of f's flush are that are not in the table yet.
Unwritten(f) ==
    UNION {sent[f][i].keys : i \in {j \in DOMAIN sent[f] : sent[f][j].answer # "ok"}}

\* No record is stranded: the ring map lists every queued record exactly once,
\* and every drained record is in exactly one batch that is still to be
\* answered or put back (queue.rs, take_batches and flush).
NoRecordStranded ==
    /\ Range(order) = {k \in Key : queued[k] # None}
    /\ IsInjective(order)
    /\ \A f \in Flusher :
        /\ Unwritten(f) = {k \in Key : held[f][k] # None}
        /\ \A i, j \in DOMAIN sent[f] :
            i # j => sent[f][i].keys \cap sent[f][j].keys = {}

\* A flush sends no more batches, and in a batch no more records, than the
\* limits allow, whatever was queued, and no empty statement (queue.rs,
\* take_batches; flush_to_db itself does not check them).
FlushWithinLimits ==
    \A f \in Flusher :
        /\ Len(sent[f]) <= MaxBatches
        /\ \A i \in DOMAIN sent[f] : Cardinality(sent[f][i].keys) \in 1..MaxBatchSize

\* The process still has a record of k that is not in the table.
HasRecord(k) == queued[k] # None \/ \E f \in Flusher : held[f][k] # None

\* What main.rs promises: all remaining updates are flushed before a shutdown
\* that reports success ends the process.
CleanExitLosesNothing ==
    main = "exited" /\ flushes < MaxFlushes => \A k \in Key : ~HasRecord(k)

\* What main's loop does guarantee of a shutdown that reports success: the only
\* records lost are those of keys the scheduler had in a flush of its own when
\* main found the queue empty, or that reap upserted after that (main.rs, the
\* shutdown loop; queue.rs, are_not_empty).
CleanExitLosesOnlyLate ==
    main = "exited" /\ flushes < MaxFlushes
        => \A k \in Key : HasRecord(k) => k \in late

\* Every queued update reaches the table, however often its batches fail in
\* between, unless the process ends first (queue.rs, flush).
EveryUpdateIsWritten ==
    \A k \in Key : HasRecord(k) ~> (~HasRecord(k) \/ main = "exited")

\* The shutdown ends, even when the database refuses every batch (main.rs,
\* max_flushes).
ShutdownEnds == main = "checking" ~> main = "exited"

(***************************************************************************)
(* The rows as the updates made so far should have left them: the table,   *)
(* then what was drained, then what is queued.                             *)
(***************************************************************************)
Applied(r, u) == IF u = None THEN r ELSE Apply(r, u)

Shown ==
    [k \in Key |->
        Applied(Applied(Applied(db[k], held["scheduler"][k]), held["main"][k]), queued[k])]

Promise == INSTANCE WriteThrough WITH row <- Shown

\* The queue keeps its promise: drains, failed batches and two flushers at work
\* change nothing, and each upsert counts once.
KeepsPromise == Promise!Spec
=============================================================================
