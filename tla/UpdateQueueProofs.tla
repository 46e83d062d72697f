-------------------------- MODULE UpdateQueueProofs --------------------------
(***************************************************************************)
(* For every set of keys, every bound and every record type: the update    *)
(* queue is type correct, strands no record, stays within its limits, and  *)
(* loses only what came late when main ends before its bound on flushes.   *)
(* A queue of deltas keeps the promise of WriteThrough whatever its        *)
(* flushers and the database do; the queue of peers' rows shows the newest *)
(* announce of those that come in order while only the scheduler flushes.  *)
(***************************************************************************)
EXTENDS AdditiveQueue, PeerQueue, Deltas, FiniteSetTheorems, TLAPS

(***************************************************************************)
(* Lemmas about records and rows.                                          *)
(***************************************************************************)

\* Upserting an update over a record, or over nothing, gives a record of the
\* table's type (Queue::upsert).
LEMMA MergedType ==
    ASSUME NEW r \in Record, NEW u \in Update
    PROVE  Merged(r, u) \in Update /\ Merged(r, u) # None
BY UpdateAssumption, NoneAssumption DEF Merged, Record

\* Applying a record, or nothing, to a row gives a row (flush_to_db).
LEMMA AppliedType ==
    ASSUME NEW r \in Row, NEW u \in Record
    PROVE  Applied(r, u) \in Row
BY RowAssumption, NoneAssumption DEF Applied, Record

\* It does not matter which of two drained records is written first
\* (flush_to_db of two batches in flight).
LEMMA AppliedInAnyOrder ==
    ASSUME OfDeltas, NEW r \in Row, NEW u \in Record, NEW v \in Record
    PROVE  Applied(Applied(r, u), v) = Applied(Applied(r, v), u)
BY NoneAssumption DEF OfDeltas, OrderLaw, Applied, Record

\* Merging a record into what is queued and writing the result is writing one
\* after the other (Mergeable::merge then flush_to_db).
LEMMA AppliedMerged ==
    ASSUME OfDeltas, NEW r \in Row, NEW u \in Record, NEW v \in Update
    PROVE  Applied(r, Merged(u, v)) = Applied(Applied(r, u), v)
BY NoneAssumption, UpdateAssumption DEF OfDeltas, MergeLaw, Applied, Merged, Record

\* A drain is split into finitely many batches of its own keys
\* (take_batches).
LEMMA BatchesType ==
    ASSUME NEW D \in SUBSET Key
    PROVE  Batches(D) \in Seq(SUBSET Key)
<1>1. IsFiniteSet(D)
  BY KeyAssumption, FS_Subset
<1>2. Cardinality(D) \in Nat
  BY <1>1, FS_CardinalityType
<1> DEFINE count == (Cardinality(D) + MaxBatchSize - 1) \div MaxBatchSize
<1>3. count \in Nat
  <2>1. Cardinality(D) + MaxBatchSize - 1 \in Nat /\ MaxBatchSize \in Nat \ {0}
    BY <1>2, LimitAssumption
  <2>2. \A n \in Nat, m \in Nat \ {0} : n \div m \in Nat
    OBVIOUS
  <2> QED BY <2>1, <2>2
<1>4. Batches(D) \in [1..count -> SUBSET Key]
  BY DEF Batches
<1> QED BY <1>3, <1>4

\* A flush drains records of the queue and leaves the others.
LEMMA TakeType ==
    ASSUME TypeOK, NEW f \in Flusher, Take(f)
    PROVE  /\ queued' \in [Key -> Record]
           /\ held' \in [Flusher -> [Key -> Record]]
           /\ sent' \in [Flusher -> Seq(SentBatch)]
<1> USE DEF TypeOK
<1>1. queued' \in [Key -> Record]
  BY DEF Take, Record
<1>2. held' \in [Flusher -> [Key -> Record]]
  BY DEF Take, Record
<1>3. sent' \in [Flusher -> Seq(SentBatch)]
  <2> DEFINE B == Batches(Drained)
             S == [i \in DOMAIN B |-> [keys |-> B[i], answer |-> "none"]]
  <2>1. B \in Seq(SUBSET Key)
    BY BatchesType DEF Drained
  <2>2. S \in Seq(SentBatch)
    <3> HIDE DEF B
    <3>1. Len(B) \in Nat /\ DOMAIN B = 1..Len(B) /\ \A i \in 1..Len(B) : B[i] \in SUBSET Key
      BY <2>1
    <3>2. S \in [1..Len(B) -> SentBatch]
      BY <3>1 DEF SentBatch
    <3> HIDE DEF S
    <3> QED BY <3>1, <3>2
  <2>3. sent' = [sent EXCEPT ![f] = S]
    BY DEF Take
  <2> HIDE DEF B, S
  <2> QED BY <2>2, <2>3
<1> QED BY <1>1, <1>2, <1>3

\* Noting the answer to a batch leaves a sequence of batches.
LEMMA AnswerType ==
    ASSUME NEW s \in Seq(SentBatch), NEW i \in DOMAIN s, NEW a \in {"ok", "error"}
    PROVE  [s EXCEPT ![i].answer = a] \in Seq(SentBatch)
<1>1. s[i] \in SentBatch
  OBVIOUS
<1>2. [s[i] EXCEPT !.answer = a] \in SentBatch
  BY <1>1 DEF SentBatch
<1> QED BY <1>2

\* What one answer of the database leaves (flush_to_db).
LEMMA DbAnswersType ==
    ASSUME TypeOK, NEW f \in Flusher, DbAnswers(f)
    PROVE  /\ sent' \in [Flusher -> Seq(SentBatch)]
           /\ db' \in [Key -> Row]
           /\ held' \in [Flusher -> [Key -> Record]]
<1> USE DEF TypeOK
<1>1. PICK i \in DOMAIN sent[f] : DbOk(f, i) \/ DbError(f, i) \/ DbErrorAfterCommit(f, i)
  BY DEF DbAnswers
<1>2. PICK a \in {"ok", "error"} : sent' = [sent EXCEPT ![f][i].answer = a]
  BY <1>1 DEF DbOk, DbError, DbErrorAfterCommit, Answer
<1>3. sent' \in [Flusher -> Seq(SentBatch)]
  <2>1. [sent[f] EXCEPT ![i].answer = a] \in Seq(SentBatch)
    BY AnswerType
  <2> QED BY <1>2, <2>1
<1>4. Write(f, i) => db' \in [Key -> Row]
  BY RowAssumption DEF Write, Record
<1>5. db' \in [Key -> Row]
  BY <1>1, <1>4 DEF DbOk, DbError, DbErrorAfterCommit
<1>6. held' \in [Flusher -> [Key -> Record]]
  <2>1. [k \in Key |-> IF k \in sent[f][i].keys THEN None ELSE held[f][k]] \in [Key -> Record]
    BY DEF Record
  <2> QED BY <1>1, <2>1 DEF DbOk, DbError, DbErrorAfterCommit
<1> QED BY <1>3, <1>5, <1>6

\* What going through one result leaves (flush, after join_all).
LEMMA GoThroughResultsType ==
    ASSUME TypeOK, NEW f \in Flusher, GoThroughResults(f)
    PROVE  /\ sent' \in [Flusher -> Seq(SentBatch)]
           /\ held' \in [Flusher -> [Key -> Record]]
           /\ queued' \in [Key -> Record]
<1> USE DEF TypeOK
<1>1. sent' = [sent EXCEPT ![f] = Tail(@)] /\ sent[f] # <<>>
  BY DEF GoThroughResults, Forget, PutBack, Answered
<1>2. Tail(sent[f]) \in Seq(SentBatch)
  BY <1>1
<1>3. sent' \in [Flusher -> Seq(SentBatch)]
  BY <1>1, <1>2
<1>4. CASE Forget(f)
  BY <1>3, <1>4 DEF Forget
<1>5. CASE PutBack(f)
  <2> DEFINE batch == Head(sent[f]).keys
  <2>1. [k \in Key |-> IF k \in batch THEN None ELSE held[f][k]] \in [Key -> Record]
    BY DEF Record
  <2>2. held' \in [Flusher -> [Key -> Record]]
    BY <1>5, <2>1 DEF PutBack
  <2>3. ASSUME NEW k \in Key, held[f][k] # None
        PROVE  Merged(queued[k], held[f][k]) \in Record
    BY <2>3, MergedType DEF Record
  <2>4. queued' \in [Key -> Record]
    BY <1>5, <2>3 DEF PutBack
  <2> QED BY <1>3, <2>2, <2>4
<1> QED BY <1>4, <1>5 DEF GoThroughResults

(***************************************************************************)
(* Type correctness.                                                       *)
(***************************************************************************)

\* The type of flushes rests on main's loop: past its check it is below the
\* bound.
LoopBound == main \in {"taking", "flushing"} => flushes < MaxFlushes

\* Every variable but the ring map's order always has its type.
THEOREM TypeCorrect == Spec => []TypeOK
<1>1. Init => TypeOK /\ LoopBound
  BY LimitAssumption, RowAssumption
     DEF Init, TypeOK, LoopBound, Nothing, Record, Flusher, Main
<1>2. TypeOK /\ LoopBound /\ [Next]_vars => TypeOK' /\ LoopBound'
  <2> SUFFICES ASSUME TypeOK, LoopBound, [Next]_vars PROVE TypeOK' /\ LoopBound'
    OBVIOUS
  <2> USE DEF TypeOK, LoopBound
  <2>1. ASSUME NEW k \in Key, NEW u \in Fresh(made + 1), Upsert(k, u), made < MaxUpdates
        PROVE  TypeOK' /\ LoopBound'
    <3>1. u \in Update
      BY <2>1, UpdateAssumption, LimitAssumption
    <3>2. Merged(queued[k], u) \in Record
      BY <3>1, MergedType DEF Record
    <3> QED BY <2>1, <3>2, LimitAssumption DEF Upsert
  <2>2. CASE AnnounceUpsert
    BY <2>1, <2>2 DEF AnnounceUpsert
  <2>3. CASE ReapUpsert
    BY <2>1, <2>3 DEF ReapUpsert
  <2>4. CASE SchedulerFlush
    BY <2>4, TakeType DEF SchedulerFlush, Flusher
  <2>5. ASSUME NEW f \in Flusher, DbAnswers(f)
        PROVE  TypeOK' /\ LoopBound'
    BY <2>5, DbAnswersType DEF DbAnswers, DbOk, DbError, DbErrorAfterCommit
  <2>6. ASSUME NEW f \in Flusher, GoThroughResults(f)
        PROVE  TypeOK' /\ LoopBound'
    BY <2>6, GoThroughResultsType DEF GoThroughResults, Forget, PutBack
  <2>7. CASE StopServing
    BY <2>7 DEF StopServing, Main
  <2>8. CASE MainContinues
    BY <2>8 DEF MainContinues, Main
  <2>9. CASE MainExits
    BY <2>9 DEF MainExits, Main
  <2>10. CASE MainFlush
    BY <2>10, TakeType DEF MainFlush, Main, Flusher
  <2>11. CASE MainFlushed
    BY <2>11, LimitAssumption DEF MainFlushed, Main
  <2>12. CASE MainFindsEmpty \/ MainGivesUp
    BY <2>12 DEF MainFindsEmpty, MainGivesUp, Main
  <2>13. CASE UNCHANGED vars
    BY <2>13 DEF vars
  <2> QED BY <2>2, <2>3, <2>4, <2>5, <2>6, <2>7, <2>8, <2>9, <2>10, <2>11, <2>12, <2>13
          DEF Next, Flush, MainLoop
<1> QED BY <1>1, <1>2, PTL DEF Spec

(***************************************************************************)
(* No drained record escapes its flush.                                    *)
(***************************************************************************)

\* Division of a natural number by a positive one is monotone, and counts the
\* divisors that fit.
LEMMA DivFacts ==
    ASSUME NEW a \in Nat, NEW b \in Nat, NEW s \in Nat \ {0}, a <= b
    PROVE  /\ a \div s <= b \div s
           /\ (b + s) \div s = (b \div s) + 1
           /\ a \div s \in Nat /\ b \div s \in Nat
<1>1. a \div s <= b \div s
  OBVIOUS
<1>2. (b + s) \div s = (b \div s) + 1
  OBVIOUS
<1>3. a \div s \in Nat /\ b \div s \in Nat
  OBVIOUS
<1> QED BY <1>1, <1>2, <1>3

\* Splitting the drained records from the end leaves none out (take_batches).
LEMMA BatchesCover ==
    ASSUME NEW D \in SUBSET Key, NEW k \in D
    PROVE  \E i \in DOMAIN Batches(D) : k \in Batches(D)[i]
<1> DEFINE c == Cardinality(D)
           r == Rank(k, D)
           count == (c + MaxBatchSize - 1) \div MaxBatchSize
           i == count - ((r - 1) \div MaxBatchSize)
<1>1. IsFiniteSet(D) /\ c \in Nat
  BY KeyAssumption, FS_Subset, FS_CardinalityType
<1>2. r \in 1..c
  <2> DEFINE T == {x \in D : x >= k}
  <2>1. T \subseteq D /\ k \in T
    BY KeyAssumption
  <2>2. IsFiniteSet(T) /\ Cardinality(T) \in Nat /\ Cardinality(T) <= c
    BY <1>1, <2>1, FS_Subset, FS_CardinalityType
  <2>3. Cardinality(T) # 0
    BY <2>1, <2>2, FS_EmptySet
  <2> QED BY <1>1, <2>2, <2>3 DEF Rank
<1> HIDE DEF c, r
<1>3. i \in 1..count
  <2>1. r - 1 \in Nat /\ c - 1 \in Nat /\ r - 1 <= c - 1 /\ MaxBatchSize \in Nat \ {0}
    BY <1>1, <1>2, LimitAssumption
  <2>2. (r - 1) \div MaxBatchSize <= (c - 1) \div MaxBatchSize
    BY <2>1, DivFacts
  <2>3. ((c - 1) + MaxBatchSize) \div MaxBatchSize = ((c - 1) \div MaxBatchSize) + 1
    BY <2>1, DivFacts
  <2>4. (r - 1) \div MaxBatchSize \in Nat /\ (c - 1) \div MaxBatchSize \in Nat
    BY <2>1, DivFacts
  <2>5. c + MaxBatchSize - 1 = (c - 1) + MaxBatchSize
    BY <1>1, LimitAssumption
  <2> QED BY <2>2, <2>3, <2>4, <2>5
<1>4. (r - 1) \div MaxBatchSize = count - i
  <2>1. (r - 1) \div MaxBatchSize \in Nat /\ count \in Int
    BY <1>1, <1>2, LimitAssumption, DivFacts
  <2> QED BY <2>1
<1>5. k \in {x \in D : (Rank(x, D) - 1) \div MaxBatchSize = count - i}
  BY <1>4 DEF r
<1> QED BY <1>3, <1>5 DEF Batches, c

\* Every drained record is in a batch that is not settled, and a flusher that
\* is not flushing holds nothing: what the next drain would overwrite.
HeldIsSent ==
    /\ \A f \in Flusher, k \in Key : held[f][k] # None =>
        \E i \in DOMAIN sent[f] : k \in sent[f][i].keys /\ sent[f][i].answer # "ok"
    /\ main \in {"serving", "checking", "taking", "leaving"} => Idle("main")

\* What a drain puts in flight is covered by the batches sent.
LEMMA TakeHeldIsSent ==
    ASSUME TypeOK, HeldIsSent, NEW f \in Flusher, Take(f)
    PROVE  \A g \in Flusher, k \in Key : held'[g][k] # None =>
               \E i \in DOMAIN sent'[g] : k \in sent'[g][i].keys /\ sent'[g][i].answer # "ok"
<1> SUFFICES ASSUME NEW g \in Flusher, NEW k \in Key, held'[g][k] # None
             PROVE  \E i \in DOMAIN sent'[g] :
                        k \in sent'[g][i].keys /\ sent'[g][i].answer # "ok"
    OBVIOUS
<1>1. CASE g # f
  <2>1. held'[g] = held[g] /\ sent'[g] = sent[g]
    BY <1>1 DEF Take, TypeOK
  <2> QED BY <2>1 DEF HeldIsSent
<1>2. CASE g = f
  <2> DEFINE B == Batches(Drained)
  <2>1. k \in Drained
    BY <1>2 DEF Take, TypeOK
  <2>2. PICK i \in DOMAIN B : k \in B[i]
    BY <2>1, BatchesCover DEF Drained
  <2>3. sent'[g] = [j \in DOMAIN B |-> [keys |-> B[j], answer |-> "none"]]
    BY <1>2 DEF Take, TypeOK
  <2> HIDE DEF B
  <2> QED BY <2>2, <2>3
<1> QED BY <1>1, <1>2

\* A record that a flush has drained and that is not settled is in one of the
\* flush's batches, where the put-back finds it (queue.rs, take_batches, flush).
THEOREM HeldRecordsAreSent == Spec => []HeldIsSent
<1>1. Init => HeldIsSent
  BY DEF Init, HeldIsSent, Nothing, Idle, Flusher
<1>2. TypeOK /\ HeldIsSent /\ [Next]_vars => HeldIsSent'
  <2> SUFFICES ASSUME TypeOK, HeldIsSent, [Next]_vars PROVE HeldIsSent'
    OBVIOUS
  <2>1. CASE AnnounceUpsert
    BY <2>1 DEF AnnounceUpsert, Upsert, HeldIsSent, Idle
  <2>2. CASE ReapUpsert
    BY <2>2 DEF ReapUpsert, Upsert, HeldIsSent, Idle
  <2>3. CASE SchedulerFlush
    <3>1. Take("scheduler") /\ "scheduler" \in Flusher /\ main' = main
      BY <2>3 DEF SchedulerFlush, Flusher
    <3>2. sent'["main"] = sent["main"]
      BY <3>1 DEF Take, TypeOK, Flusher
    <3> QED BY <3>1, <3>2, TakeHeldIsSent DEF HeldIsSent, Idle
  <2>4. ASSUME NEW f \in Flusher, DbAnswers(f)
        PROVE  HeldIsSent'
    <3>1. PICK i \in DOMAIN sent[f] : DbOk(f, i) \/ DbError(f, i) \/ DbErrorAfterCommit(f, i)
      BY <2>4 DEF DbAnswers
    <3>2. DOMAIN sent'[f] = DOMAIN sent[f] /\ main' = main
      BY <3>1 DEF DbOk, DbError, DbErrorAfterCommit, Answer, TypeOK
    <3>3. \A g \in Flusher : g # f => held'[g] = held[g] /\ sent'[g] = sent[g]
      BY <3>1 DEF DbOk, DbError, DbErrorAfterCommit, Answer, TypeOK
    <3>4. \A j \in DOMAIN sent[f] : j # i => sent'[f][j] = sent[f][j]
      BY <3>1 DEF DbOk, DbError, DbErrorAfterCommit, Answer, TypeOK
    <3>5. ASSUME NEW k \in Key, held'[f][k] # None
          PROVE  \E j \in DOMAIN sent'[f] :
                     k \in sent'[f][j].keys /\ sent'[f][j].answer # "ok"
      <4>1. CASE DbOk(f, i)
        <5>1. held'[f] = [x \in Key |-> IF x \in sent[f][i].keys THEN None ELSE held[f][x]]
          BY <4>1 DEF DbOk, TypeOK
        <5>2. k \notin sent[f][i].keys /\ held[f][k] # None
          BY <3>5, <5>1
        <5> QED BY <3>2, <3>4, <5>2 DEF HeldIsSent
      <4>2. CASE DbError(f, i) \/ DbErrorAfterCommit(f, i)
        <5>1. held' = held
          BY <4>2 DEF DbError, DbErrorAfterCommit
        <5>2. sent'[f][i].answer = "error" /\ sent'[f][i].keys = sent[f][i].keys
          <6>1. sent'[f] = [sent[f] EXCEPT ![i].answer = "error"]
            BY <4>2 DEF DbError, DbErrorAfterCommit, Answer, TypeOK
          <6>2. sent[f][i] \in SentBatch
            BY DEF TypeOK
          <6> QED BY <6>1, <6>2 DEF SentBatch, TypeOK
        <5> QED BY <3>2, <3>4, <3>5, <5>1, <5>2 DEF HeldIsSent
      <4> QED BY <3>1, <4>1, <4>2
    <3>6. Idle("main") => Idle("main")'
      BY <3>1, <3>2, <3>3 DEF Idle, TypeOK, Flusher
    <3> QED BY <3>2, <3>3, <3>5, <3>6 DEF HeldIsSent
  <2>5. ASSUME NEW f \in Flusher, GoThroughResults(f)
        PROVE  HeldIsSent'
    <3>1. /\ sent' = [sent EXCEPT ![f] = Tail(@)] /\ sent[f] # <<>>
          /\ main' = main
      BY <2>5 DEF GoThroughResults, Forget, PutBack, Answered
    <3>2. \A g \in Flusher : g # f => held'[g] = held[g] /\ sent'[g] = sent[g]
      BY <2>5 DEF GoThroughResults, Forget, PutBack, TypeOK
    <3>3. ASSUME NEW k \in Key, held'[f][k] # None
          PROVE  /\ held[f][k] # None
                 /\ ~(k \in sent[f][1].keys /\ sent[f][1].answer # "ok")
      <4>1. CASE Forget(f)
        BY <3>3, <4>1, <3>1 DEF Forget, TypeOK
      <4>2. CASE PutBack(f)
        <5>1. held'[f] = [x \in Key |-> IF x \in Head(sent[f]).keys THEN None ELSE held[f][x]]
          BY <4>2 DEF PutBack, TypeOK
        <5> QED BY <3>1, <3>3, <5>1 DEF TypeOK
      <4> QED BY <2>5, <4>1, <4>2 DEF GoThroughResults
    <3>4. ASSUME NEW k \in Key, held'[f][k] # None
          PROVE  \E j \in DOMAIN sent'[f] :
                     k \in sent'[f][j].keys /\ sent'[f][j].answer # "ok"
      <4>1. PICK j \in DOMAIN sent[f] : k \in sent[f][j].keys /\ sent[f][j].answer # "ok"
        BY <3>3, <3>4 DEF HeldIsSent
      <4>2. j # 1 /\ j \in 1..Len(sent[f])
        BY <3>3, <3>4, <4>1 DEF TypeOK
      <4>3. sent'[f] = Tail(sent[f]) /\ sent[f] \in Seq(SentBatch)
        BY <3>1 DEF TypeOK
      <4>4. j - 1 \in DOMAIN sent'[f] /\ sent'[f][j - 1] = sent[f][j]
        BY <4>2, <4>3
      <4> QED BY <4>1, <4>4
    <3>5. Idle("main") => Idle("main")'
      BY <3>1, <3>2 DEF Idle, TypeOK, Flusher
    <3> QED BY <3>1, <3>2, <3>4, <3>5 DEF HeldIsSent
  <2>6. CASE StopServing
    BY <2>6 DEF StopServing, HeldIsSent, Idle
  <2>7. CASE MainContinues
    BY <2>7 DEF MainContinues, HeldIsSent, Idle
  <2>8. CASE MainFindsEmpty \/ MainGivesUp \/ MainExits
    BY <2>8 DEF MainFindsEmpty, MainGivesUp, MainExits, HeldIsSent, Idle
  <2>9. CASE MainFlush
    <3>1. Take("main") /\ "main" \in Flusher /\ main' = "flushing"
      BY <2>9 DEF MainFlush, Flusher
    <3> QED BY <3>1, TakeHeldIsSent DEF HeldIsSent
  <2>10. CASE MainFlushed
    BY <2>10 DEF MainFlushed, HeldIsSent, Idle
  <2>11. CASE UNCHANGED vars
    BY <2>11 DEF vars, HeldIsSent, Idle
  <2> QED BY <2>1, <2>2, <2>3, <2>4, <2>5, <2>6, <2>7, <2>8, <2>9, <2>10, <2>11
          DEF Next, Flush, MainLoop
<1> QED BY <1>1, <1>2, TypeCorrect, PTL DEF Spec

(***************************************************************************)
(* The promise.                                                            *)
(***************************************************************************)

\* Moving what f drained, or part of it, from the queue, to the table or back
\* leaves every row as it is shown: the four places a row is read from commute.
LEMMA ShownType ==
    ASSUME TypeOK
    PROVE  Shown \in [Key -> Row]
<1> SUFFICES ASSUME NEW k \in Key
             PROVE  Applied(Applied(Applied(db[k], held["scheduler"][k]), held["main"][k]),
                            queued[k]) \in Row
    BY DEF Shown
<1>1. db[k] \in Row /\ held["scheduler"][k] \in Record /\ held["main"][k] \in Record
      /\ queued[k] \in Record
  BY DEF TypeOK, Flusher
<1> QED BY <1>1, AppliedType

\* The row of a key, read with a flusher's record first.
LEMMA ShownEitherWay ==
    ASSUME OfDeltas, NEW r \in Row, NEW s \in Record, NEW m \in Record, NEW q \in Record
    PROVE  LET shown == Applied(Applied(Applied(r, s), m), q)
           IN  /\ shown = Applied(Applied(Applied(r, m), s), q)
               /\ shown = Applied(Applied(Applied(r, q), m), s)
               /\ shown = Applied(Applied(Applied(r, s), q), m)
               /\ shown = Applied(Applied(Applied(r, q), s), m)
<1>1. Applied(Applied(r, s), m) = Applied(Applied(r, m), s)
  BY AppliedInAnyOrder
<1>2. Applied(r, s) \in Row /\ Applied(r, m) \in Row /\ Applied(r, q) \in Row
  BY AppliedType
<1>3. Applied(Applied(Applied(r, s), m), q) = Applied(Applied(Applied(r, s), q), m)
  BY <1>2, AppliedInAnyOrder
<1>4. Applied(Applied(r, s), q) = Applied(Applied(r, q), s)
  BY AppliedInAnyOrder
<1>5. Applied(Applied(Applied(r, q), s), m) = Applied(Applied(Applied(r, q), m), s)
  BY <1>2, AppliedInAnyOrder
<1> QED BY <1>1, <1>3, <1>4, <1>5

\* A drain changes no row (take_batches).
LEMMA TakeKeepsShown ==
    ASSUME OfDeltas, TypeOK, HeldIsSent, NEW f \in Flusher, Idle(f), Take(f), db' = db
    PROVE  Shown' = Shown
<1> SUFFICES ASSUME NEW k \in Key
             PROVE  Applied(Applied(Applied(db'[k], held'["scheduler"][k]), held'["main"][k]),
                            queued'[k])
                  = Applied(Applied(Applied(db[k], held["scheduler"][k]), held["main"][k]),
                            queued[k])
    BY DEF Shown
<1> DEFINE r == db[k]
           s == held["scheduler"][k]
           m == held["main"][k]
           q == queued[k]
<1>1. r \in Row /\ s \in Record /\ m \in Record /\ q \in Record
  BY DEF TypeOK, Flusher
<1>2. held[f][k] = None
  BY DEF HeldIsSent, Idle
<1>3. CASE k \notin Drained
  BY <1>2, <1>3 DEF Take, TypeOK, Flusher
<1>4. CASE k \in Drained
  <2>1. held'[f][k] = q /\ queued'[k] = None
    BY <1>4 DEF Take, TypeOK
  <2>2. CASE f = "scheduler"
    <3>1. s = None /\ held'["main"][k] = m
      BY <1>2, <2>2 DEF Take, TypeOK, Flusher
    <3>2. Applied(Applied(r, q), m) = Applied(Applied(r, m), q)
      BY <1>1, AppliedInAnyOrder
    <3> QED BY <2>1, <2>2, <3>1, <3>2 DEF Applied
  <2>3. CASE f = "main"
    <3>1. m = None /\ held'["scheduler"][k] = s
      BY <1>2, <2>3 DEF Take, TypeOK, Flusher
    <3> QED BY <2>1, <2>3, <3>1 DEF Applied
  <2> QED BY <2>2, <2>3 DEF Flusher
<1> QED BY <1>3, <1>4

\* Writing a batch, once, changes no row as it is shown (flush_to_db).
LEMMA DbOkKeepsShown ==
    ASSUME OfDeltas, TypeOK, NEW f \in Flusher, NEW i \in DOMAIN sent[f], DbOk(f, i)
    PROVE  Shown' = Shown
<1> SUFFICES ASSUME NEW k \in Key
             PROVE  Applied(Applied(Applied(db'[k], held'["scheduler"][k]), held'["main"][k]),
                            queued'[k])
                  = Applied(Applied(Applied(db[k], held["scheduler"][k]), held["main"][k]),
                            queued[k])
    BY DEF Shown
<1> DEFINE r == db[k]
           s == held["scheduler"][k]
           m == held["main"][k]
           q == queued[k]
<1>1. r \in Row /\ s \in Record /\ m \in Record /\ q \in Record
  BY DEF TypeOK, Flusher
<1>2. queued'[k] = q
  BY DEF DbOk
<1>3. held' = [held EXCEPT ![f] =
                  [x \in Key |-> IF x \in sent[f][i].keys THEN None ELSE held[f][x]]]
  BY DEF DbOk
<1>4. db'[k] = IF k \in sent[f][i].keys THEN Applied(r, held[f][k]) ELSE r
  BY DEF DbOk, Write, Applied
<1>5. CASE f = "scheduler"
  BY <1>2, <1>3, <1>4, <1>5 DEF Applied, TypeOK, Flusher
<1>6. CASE f = "main"
  <2>1. held'["scheduler"][k] = s
    BY <1>3, <1>6 DEF TypeOK, Flusher
  <2>2. Applied(Applied(r, m), s) = Applied(Applied(r, s), m)
    BY <1>1, AppliedInAnyOrder
  <2>3. CASE k \in sent[f][i].keys
    <3>1. held'["main"][k] = None /\ db'[k] = Applied(r, m)
      BY <1>3, <1>4, <1>6, <2>3 DEF TypeOK, Flusher
    <3> QED BY <1>2, <2>1, <2>2, <3>1 DEF Applied
  <2>4. CASE k \notin sent[f][i].keys
    <3>1. held'["main"][k] = m /\ db'[k] = r
      BY <1>3, <1>4, <1>6, <2>4 DEF TypeOK, Flusher
    <3> QED BY <1>2, <2>1, <3>1
  <2> QED BY <2>3, <2>4
<1> QED BY <1>5, <1>6 DEF Flusher

\* Putting a failed batch back changes no row (upsert_batch).
LEMMA PutBackKeepsShown ==
    ASSUME OfDeltas, TypeOK, NEW f \in Flusher, PutBack(f)
    PROVE  Shown' = Shown
<1> SUFFICES ASSUME NEW k \in Key
             PROVE  Applied(Applied(Applied(db'[k], held'["scheduler"][k]), held'["main"][k]),
                            queued'[k])
                  = Applied(Applied(Applied(db[k], held["scheduler"][k]), held["main"][k]),
                            queued[k])
    BY DEF Shown
<1> DEFINE r == db[k]
           s == held["scheduler"][k]
           m == held["main"][k]
           q == queued[k]
           batch == Head(sent[f]).keys
<1>1. r \in Row /\ s \in Record /\ m \in Record /\ q \in Record
  BY DEF TypeOK, Flusher
<1>2. db'[k] = r
  BY DEF PutBack
<1>3. held' = [held EXCEPT ![f] = [x \in Key |-> IF x \in batch THEN None ELSE held[f][x]]]
  BY DEF PutBack
<1>4. queued'[k] = IF k \in batch /\ held[f][k] # None THEN Merged(q, held[f][k]) ELSE q
  BY DEF PutBack
<1>5. ASSUME NEW x \in Row, NEW u \in Record
      PROVE  Applied(x, IF u # None THEN Merged(q, u) ELSE q) = Applied(Applied(x, u), q)
  <2>1. CASE u = None
    BY <2>1 DEF Applied
  <2>2. CASE u # None
    <3>1. Applied(x, Merged(q, u)) = Applied(Applied(x, q), u)
      BY <1>1, <2>2, AppliedMerged DEF Record
    <3> QED BY <1>1, <2>2, <3>1, AppliedInAnyOrder
  <2> QED BY <2>1, <2>2
<1>6. CASE k \notin batch
  BY <1>2, <1>3, <1>4, <1>6 DEF TypeOK, Flusher
<1>7. CASE k \in batch /\ f = "scheduler"
  <2>1. held'["scheduler"][k] = None /\ held'["main"][k] = m
    BY <1>3, <1>7 DEF TypeOK, Flusher
  <2>2. Applied(r, m) \in Row
    BY <1>1, AppliedType
  <2>3. Applied(Applied(r, m), IF s # None THEN Merged(q, s) ELSE q)
            = Applied(Applied(Applied(r, m), s), q)
    BY <1>1, <1>5, <2>2
  <2>4. Applied(Applied(r, m), s) = Applied(Applied(r, s), m)
    BY <1>1, AppliedInAnyOrder
  <2> QED BY <1>2, <1>4, <1>7, <2>1, <2>3, <2>4 DEF Applied
<1>8. CASE k \in batch /\ f = "main"
  <2>1. held'["main"][k] = None /\ held'["scheduler"][k] = s
    BY <1>3, <1>8 DEF TypeOK, Flusher
  <2>2. Applied(r, s) \in Row
    BY <1>1, AppliedType
  <2>3. Applied(Applied(r, s), IF m # None THEN Merged(q, m) ELSE q)
            = Applied(Applied(Applied(r, s), m), q)
    BY <1>1, <1>5, <2>2
  <2> QED BY <1>2, <1>4, <1>8, <2>1, <2>3 DEF Applied
<1> QED BY <1>6, <1>7, <1>8 DEF Flusher

\* An upsert is one write of the promise (Queue::upsert).
LEMMA UpsertIsWrite ==
    ASSUME OfDeltas, TypeOK, NEW k \in Key, NEW u \in Update, Upsert(k, u)
    PROVE  Promise!Write(k, u)
<1>1. Applied(Applied(Applied(db[k], held["scheduler"][k]), held["main"][k]),
              Merged(queued[k], u)) = Apply(Shown[k], u)
  <2> DEFINE x == Applied(Applied(db[k], held["scheduler"][k]), held["main"][k])
  <2>1. x \in Row /\ queued[k] \in Record
    BY AppliedType DEF TypeOK, Flusher
  <2>2. Applied(x, Merged(queued[k], u)) = Applied(Applied(x, queued[k]), u)
    BY <2>1, AppliedMerged
  <2>3. Shown[k] = Applied(x, queued[k])
    BY DEF Shown
  <2> QED BY <2>2, <2>3, NoneAssumption DEF Applied
<1>2. Shown' = [Shown EXCEPT ![k] = Apply(Shown[k], u)]
  <2>1. ASSUME NEW x \in Key
        PROVE  Shown'[x] = IF x = k THEN Apply(Shown[k], u) ELSE Shown[x]
    BY <1>1 DEF Upsert, Shown, TypeOK
  <2> QED BY <2>1 DEF Shown
<1> QED BY <1>2 DEF Promise!Write

\* When an error means that nothing was written, a queue of deltas is, to its
\* readers, the table with every update written at once and exactly once.
THEOREM QueueKeepsPromise ==
    ASSUME OfDeltas, AmbiguousErrors = FALSE
    PROVE  Spec => KeepsPromise
<1>1. Init => Promise!Init
  BY DEF Init, Promise!Init, Shown, Applied, Nothing, Flusher
<1>2. TypeOK /\ HeldIsSent /\ [Next]_vars => [Promise!Next]_Shown
  <2> SUFFICES ASSUME TypeOK, HeldIsSent, [Next]_vars
               PROVE  Promise!Next \/ Shown' = Shown
    OBVIOUS
  <2>1. ASSUME NEW k \in Key, NEW u \in Fresh(made + 1), Upsert(k, u), made < MaxUpdates
        PROVE  Promise!Next
    <3>1. u \in Update
      BY <2>1, UpdateAssumption, LimitAssumption DEF TypeOK
    <3> QED BY <2>1, <3>1, UpsertIsWrite DEF Promise!Next
  <2>2. CASE AnnounceUpsert
    BY <2>1, <2>2 DEF AnnounceUpsert
  <2>3. CASE ReapUpsert
    BY <2>1, <2>3 DEF ReapUpsert
  <2>4. CASE SchedulerFlush
    BY <2>4, TakeKeepsShown DEF SchedulerFlush, Flusher
  <2>5. ASSUME NEW f \in Flusher, DbAnswers(f)
        PROVE  Shown' = Shown
    <3>1. PICK i \in DOMAIN sent[f] : DbOk(f, i) \/ DbError(f, i)
      BY <2>5 DEF DbAnswers, DbErrorAfterCommit
    <3>2. CASE DbOk(f, i)
      BY <3>2, DbOkKeepsShown
    <3>3. CASE DbError(f, i)
      BY <3>3 DEF DbError, Shown
    <3> QED BY <3>1, <3>2, <3>3
  <2>6. ASSUME NEW f \in Flusher, GoThroughResults(f)
        PROVE  Shown' = Shown
    BY <2>6, PutBackKeepsShown DEF GoThroughResults, Forget, Shown
  <2>7. CASE StopServing
    BY <2>7 DEF StopServing, Shown
  <2>8. CASE MainContinues \/ MainFindsEmpty \/ MainGivesUp \/ MainExits \/ MainFlushed
    BY <2>8 DEF MainContinues, MainFindsEmpty, MainGivesUp, MainExits, MainFlushed, Shown
  <2>9. CASE MainFlush
    <3>1. Idle("main")
      BY <2>9 DEF MainFlush, HeldIsSent
    <3> QED BY <2>9, <3>1, TakeKeepsShown DEF MainFlush, Flusher
  <2>10. CASE UNCHANGED vars
    BY <2>10 DEF vars, Shown
  <2> QED BY <2>2, <2>3, <2>4, <2>5, <2>6, <2>7, <2>8, <2>9, <2>10 DEF Next, Flush, MainLoop
<1> QED BY <1>1, <1>2, TypeCorrect, HeldRecordsAreSent, PTL
        DEF Spec, KeepsPromise, Promise!Spec

\* The queue is that of Deltas.
OfCounts ==
    /\ Update = Counts /\ Row = Counts
    /\ \A u, v \in Counts : Merge(u, v) = MergeDeltas(u, v)
    /\ \A r, u \in Counts : Apply(r, u) = ApplyDeltas(r, u)

\* Records that count each update add up, also when they stop counting at Twice
\* (merge in torrent_update.rs and user_update.rs, and x = x + VALUES(x)).
LEMMA CountsAreDeltas == OfCounts => OfDeltas
<1> SUFFICES ASSUME OfCounts PROVE OfDeltas
  OBVIOUS
<1>1. ASSUME NEW a \in Counts, NEW b \in Counts
      PROVE  /\ Sum2(a, b) \in Counts
             /\ \A i \in UpdateId : /\ a[i] \in 0..2 /\ b[i] \in 0..2
                                    /\ Sum2(a, b)[i] = IF a[i] + b[i] > 2 THEN 2 ELSE a[i] + b[i]
  BY DEF Counts, Sum2, Twice
<1>2. ASSUME NEW r \in Counts, NEW u \in Counts, NEW v \in Counts
      PROVE  /\ Sum2(r, Sum2(u, v)) = Sum2(Sum2(r, u), v)
             /\ Sum2(Sum2(r, u), v) = Sum2(Sum2(r, v), u)
  <2>1. /\ \A i \in UpdateId : Sum2(r, Sum2(u, v))[i] = Sum2(Sum2(r, u), v)[i]
        /\ \A i \in UpdateId : Sum2(Sum2(r, u), v)[i] = Sum2(Sum2(r, v), u)[i]
    <3>1. /\ Sum2(r, u) \in Counts /\ Sum2(u, v) \in Counts /\ Sum2(r, v) \in Counts
      BY <1>1
    <3> QED BY <1>1, <3>1
  <2>2. /\ Sum2(r, Sum2(u, v)) \in Counts /\ Sum2(Sum2(r, u), v) \in Counts
        /\ Sum2(Sum2(r, v), u) \in Counts
    BY <1>1
  <2> QED BY <2>1, <2>2 DEF Counts
<1>3. \A a, b \in Counts : /\ Merge(a, b) = Sum2(a, b) /\ Apply(a, b) = Sum2(a, b)
                           /\ Sum2(a, b) \in Counts
  BY <1>1 DEF OfCounts, MergeDeltas, ApplyDeltas
<1>4. MergeLaw
  BY <1>2, <1>3 DEF MergeLaw, OfCounts
<1>5. OrderLaw
  BY <1>2, <1>3 DEF OrderLaw, OfCounts
<1> QED BY <1>4, <1>5 DEF OfDeltas

\* The torrents and users queues, as far as their records count which updates
\* are in them, keep the promise (torrent_update.rs, user_update.rs).
THEOREM CountsKeepPromise ==
    ASSUME OfCounts, AmbiguousErrors = FALSE
    PROVE  Spec => KeepsPromise
<1>1. OfDeltas
  BY CountsAreDeltas
<1> QED BY <1>1, QueueKeepsPromise, PTL

(***************************************************************************)
(* The promise of the peers queue, whose records overwrite each other.     *)
(***************************************************************************)

\* No record is of a later time than t, and what was drained, h, is of no later
\* time than what has been queued since, q.
Ordered(q, h, t) ==
    /\ \A u \in {q, h} \ {None} : u.created <= t /\ u.updated <= t
    /\ q # None /\ h # None => h.created <= q.created /\ h.updated <= q.updated

\* So it is of a key whose announces were queued in the order of their times, for
\* as long as only the scheduler flushes: t is the time of the newest of them.
InOrder ==
    main = "serving" =>
        \A k \in Key \ overtaken :
            Ordered(queued[k], held["scheduler"][k], promised[k].updated)

\* The rows promised are rows.
PromisedRows == promised \in [Key -> PeerRow]

\* Writing two records one after the other, the earlier first, is writing what
\* they merge into, in either order (PeerUpdate::merge and its statement).
LEMMA PeersMerge ==
    ASSUME NEW r \in PeerRow, NEW u \in PeerUpdate, NEW v \in PeerUpdate,
           u.created <= v.created, u.updated <= v.updated
    PROVE  /\ ApplyPeer(ApplyPeer(r, u), v) = ApplyPeer(r, MergePeer(v, u))
           /\ u.updated < v.updated =>
                ApplyPeer(ApplyPeer(r, u), v) = ApplyPeer(r, MergePeer(u, v))
<1> DEFINE both == [created |-> u.created, updated |-> v.updated]
<1>1. MergePeer(v, u) = both /\ (u.updated < v.updated => MergePeer(u, v) = both)
  BY DEF MergePeer, Earlier, PeerUpdate
<1>2. u # NoPeerRow /\ u \in [created : 1..LastTime, updated : 1..LastTime]
  BY DEF NoPeerRow, PeerUpdate
<1>3. ApplyPeer(ApplyPeer(r, u), v) = ApplyPeer(r, both)
  <2>1. CASE r = NoPeerRow
    BY <1>2, <2>1 DEF ApplyPeer, PeerUpdate
  <2>2. CASE r # NoPeerRow
    <3>1. r \in PeerUpdate
      BY <2>2 DEF PeerRow
    <3>2. ApplyPeer(r, u) = [created |-> r.created, updated |-> u.updated]
      BY <2>2 DEF ApplyPeer, PeerUpdate
    <3>3. ApplyPeer(r, u) # NoPeerRow /\ ApplyPeer(r, u).created = r.created
      BY <3>1, <3>2 DEF PeerUpdate, NoPeerRow
    <3> QED BY <2>2, <3>3 DEF ApplyPeer, PeerUpdate
  <2> QED BY <2>1, <2>2
<1> QED BY <1>1, <1>3

\* Writing a row twice is writing it once: a statement that was committed and
\* reported as failed may be sent again.
LEMMA PeersAgain ==
    ASSUME NEW r \in PeerRow, NEW u \in PeerUpdate
    PROVE  ApplyPeer(ApplyPeer(r, u), u) = ApplyPeer(r, u)
BY DEF ApplyPeer, PeerRow, PeerUpdate, NoPeerRow

\* What the records of the peers queue are.
LEMMA PeersRecords ==
    ASSUME OfPeers, TypeOK, NEW k \in Key
    PROVE  /\ queued[k] \in PeerUpdate \cup {None}
           /\ \A f \in Flusher : held[f][k] \in PeerUpdate \cup {None}
           /\ db[k] \in PeerRow /\ None \notin PeerUpdate /\ made \in Nat
BY NoneAssumption, LimitAssumption DEF OfPeers, TypeOK, Record

\* What an announce is, and what it makes of the row that is promised (upsert).
LEMMA PeerUpsertFacts ==
    ASSUME OfPeers, TypeOK, PromisedRows, made < MaxUpdates,
           NEW k \in Key, NEW u \in Fresh(made + 1), PeerUpsert(k, u)
    PROVE  /\ u \in PeerUpdate /\ u \in Update /\ u.created = u.updated
           /\ promised' = [promised EXCEPT ![k] = ApplyPeer(promised[k], u)]
           /\ PromisedRows'
           /\ overtaken \subseteq overtaken'
           /\ \A x \in Key : promised[x].updated \in Int
           /\ k \notin overtaken' => promised[k].updated < u.updated
           /\ promised'[k].updated = u.updated
<1>1. u \in PeerUpdate /\ u \in Update /\ u.created = u.updated
  BY UpdateAssumption, LimitAssumption DEF OfPeers, FreshPeer, PeerUpdate, TypeOK
<1>2. promised' = [promised EXCEPT ![k] = ApplyPeer(promised[k], u)]
  <2>1. promised' = [promised EXCEPT ![k] = Apply(promised[k], u)]
    BY DEF PeerUpsert
  <2>2. Apply(promised[k], u) = ApplyPeer(promised[k], u)
    BY <1>1 DEF OfPeers, PromisedRows
  <2> QED BY <2>1, <2>2
<1>3. ApplyPeer(promised[k], u) \in PeerRow /\ ApplyPeer(promised[k], u).updated = u.updated
  BY <1>1 DEF ApplyPeer, PeerRow, PeerUpdate, NoPeerRow, PromisedRows
<1>4. PromisedRows'
  BY <1>2, <1>3 DEF PromisedRows
<1>5. \A x \in Key : promised[x].updated \in Int
  BY DEF PromisedRows, PeerRow, PeerUpdate, NoPeerRow
<1>6. overtaken \subseteq overtaken' /\ (k \notin overtaken' => promised[k].updated < u.updated)
  BY <1>1, <1>5 DEF PeerUpsert, PeerUpdate
<1>7. promised'[k].updated = u.updated
  BY <1>2, <1>3 DEF PromisedRows
<1> QED BY <1>1, <1>2, <1>4, <1>5, <1>6, <1>7

\* The update of an announce that is not overtaken is newer than all that is
\* there (upsert).
LEMMA UpsertInOrder ==
    ASSUME OfPeers, TypeOK, PromisedRows, InOrder, made < MaxUpdates, main = "serving",
           NEW k \in Key, NEW u \in Fresh(made + 1), PeerUpsert(k, u)
    PROVE  InOrder'
<1>1. /\ u \in PeerUpdate /\ u.created = u.updated /\ overtaken \subseteq overtaken'
      /\ promised' = [promised EXCEPT ![k] = ApplyPeer(promised[k], u)]
      /\ \A x \in Key : promised[x].updated \in Int
      /\ k \notin overtaken' => promised[k].updated < u.updated
      /\ promised'[k].updated = u.updated
  BY PeerUpsertFacts
<1>2. ASSUME NEW x \in Key, x \notin overtaken'
      PROVE  Ordered(queued[x], held["scheduler"][x], promised[x].updated)'
  <2> DEFINE q == queued[x]
             h == held["scheduler"][x]
             t == promised[x].updated
  <2>1. /\ q \in PeerUpdate \cup {None} /\ h \in PeerUpdate \cup {None}
        /\ None \notin PeerUpdate /\ t \in Int
    BY <1>1, PeersRecords DEF Flusher
  <2>2. Ordered(q, h, t)
    BY <1>1, <1>2 DEF InOrder
  <2>3. held'["scheduler"][x] = h
    BY DEF PeerUpsert, Upsert
  <2>4. queued'[x] = IF x = k THEN Merged(q, u) ELSE q
    BY DEF PeerUpsert, Upsert, TypeOK
  <2>5. CASE x = k
    <3>1. t < u.updated /\ promised'[x].updated = u.updated
      BY <1>1, <1>2, <2>5
    <3> HIDE DEF q, h, t
    <3>2. q # None => MergePeer(q, u) = [created |-> q.created, updated |-> u.updated]
      BY <1>1, <2>1, <2>2, <3>1 DEF Ordered, MergePeer, Earlier, PeerUpdate
    <3>3. Merged(q, u) = IF q = None THEN u ELSE [created |-> q.created, updated |-> u.updated]
      BY <1>1, <2>1, <3>2 DEF Merged, OfPeers
    <3>4. CASE q # None
      BY <1>1, <2>1, <2>2, <2>3, <2>4, <2>5, <3>1, <3>3, <3>4 DEF Ordered, PeerUpdate
    <3>5. CASE q = None
      BY <1>1, <2>1, <2>2, <2>3, <2>4, <2>5, <3>1, <3>3, <3>5 DEF Ordered, PeerUpdate
    <3> QED BY <3>4, <3>5
  <2>6. CASE x # k
    BY <1>1, <2>2, <2>3, <2>4, <2>6 DEF Ordered, PromisedRows
  <2> QED BY <2>5, <2>6
<1> QED BY <1>2 DEF InOrder

\* A batch that is put back is merged below what is newer (upsert_batch).
LEMMA PutBackInOrder ==
    ASSUME OfPeers, TypeOK, PromisedRows, InOrder, PutBack("scheduler"), main = "serving",
           UNCHANGED <<promised, overtaken>>
    PROVE  InOrder'
<1>1. promised' = promised /\ \A x \in Key : promised[x].updated \in Int
  BY DEF PromisedRows, PeerRow, PeerUpdate, NoPeerRow
<1>2. ASSUME NEW x \in Key, x \notin overtaken
      PROVE  Ordered(queued[x], held["scheduler"][x], promised[x].updated)'
  <2> DEFINE q == queued[x]
             h == held["scheduler"][x]
             t == promised[x].updated
             batch == Head(sent["scheduler"]).keys
  <2>1. /\ q \in PeerUpdate \cup {None} /\ h \in PeerUpdate \cup {None}
        /\ None \notin PeerUpdate /\ t \in Int /\ promised'[x].updated = t
    BY <1>1, PeersRecords DEF Flusher
  <2>2. Ordered(q, h, t)
    BY <1>2 DEF InOrder
  <2>3. /\ held'["scheduler"][x] = IF x \in batch THEN None ELSE h
        /\ queued'[x] = IF x \in batch /\ h # None THEN Merged(q, h) ELSE q
    BY DEF PutBack, TypeOK, Flusher
  <2> HIDE DEF q, h, t, batch
  <2>4. q # None /\ h # None =>
            MergePeer(q, h) = [created |-> h.created, updated |-> q.updated]
    BY <2>1, <2>2 DEF Ordered, MergePeer, Earlier, PeerUpdate
  <2>5. h # None => Merged(q, h) =
            IF q = None THEN h ELSE [created |-> h.created, updated |-> q.updated]
    BY <2>1, <2>4 DEF Merged, OfPeers
  <2>6. CASE x \in batch /\ h # None /\ q # None
    BY <2>1, <2>2, <2>3, <2>5, <2>6 DEF Ordered, PeerUpdate
  <2>7. CASE x \in batch /\ h # None /\ q = None
    BY <2>1, <2>2, <2>3, <2>5, <2>7 DEF Ordered, PeerUpdate
  <2>8. CASE x \notin batch \/ h = None
    BY <2>1, <2>2, <2>3, <2>8 DEF Ordered
  <2> QED BY <2>6, <2>7, <2>8
<1> QED BY <1>2 DEF InOrder

\* While main serves it has drained nothing.
LEMMA MainHoldsNothing ==
    ASSUME TypeOK, HeldIsSent, main = "serving"
    PROVE  /\ sent["main"] = <<>> /\ ~Answered("main") /\ ~DbAnswers("main")
           /\ \A k \in Key : held["main"][k] = None
<1>1. sent["main"] = <<>>
  BY DEF HeldIsSent, Idle
<1>2. \A k \in Key : held["main"][k] = None
  BY <1>1 DEF HeldIsSent, Flusher
<1> QED BY <1>1, <1>2 DEF Answered, DbAnswers

\* Before and after a flusher's step that leaves main serving it was serving.
LEMMA ServingBefore ==
    ASSUME Flush, main' = "serving"
    PROVE  main = "serving" /\ ~StopServing /\ ~MainLoop
<1>1. ~StopServing /\ ~MainLoop
  BY DEF StopServing, MainLoop, MainContinues, MainFindsEmpty, MainGivesUp, MainExits,
         MainFlush, MainFlushed
<1>2. CASE SchedulerFlush
  BY <1>1, <1>2 DEF SchedulerFlush
<1>3. CASE \E f \in Flusher : DbAnswers(f) \/ GoThroughResults(f)
  BY <1>1, <1>3 DEF DbAnswers, DbOk, DbError, DbErrorAfterCommit, GoThroughResults, Forget, PutBack
<1> QED BY <1>1, <1>2, <1>3 DEF Flush

\* The order of times is kept by every step of the scheduler's flush.
LEMMA FlushInOrder ==
    ASSUME OfPeers, TypeOK, HeldIsSent, PromisedRows, InOrder, Flush,
           UNCHANGED <<promised, overtaken>>
    PROVE  InOrder'
<1> SUFFICES ASSUME main' = "serving" PROVE InOrder'
  BY DEF InOrder
<1>1. main = "serving" /\ ~StopServing /\ ~MainLoop
  BY ServingBefore
<1>2. CASE SchedulerFlush
  <2>1. Take("scheduler") /\ Idle("scheduler")
    BY <1>2 DEF SchedulerFlush
  <2>2. ASSUME NEW x \in Key, x \notin overtaken
        PROVE  Ordered(queued[x], held["scheduler"][x], promised[x].updated)'
    <3>1. /\ held'["scheduler"][x] = IF x \in Drained THEN queued[x] ELSE None
          /\ queued'[x] = IF x \in Drained THEN None ELSE queued[x]
      BY <2>1 DEF Take, TypeOK, Flusher
    <3>2. Ordered(queued[x], held["scheduler"][x], promised[x].updated)
      BY <1>1, <2>2 DEF InOrder
    <3> QED BY <3>1, <3>2 DEF Ordered
  <2> QED BY <2>2 DEF InOrder
<1>3. ASSUME NEW f \in Flusher, DbAnswers(f) PROVE InOrder'
  <2>1. PICK i \in DOMAIN sent[f] : DbOk(f, i) \/ DbError(f, i) \/ DbErrorAfterCommit(f, i)
    BY <1>3 DEF DbAnswers
  <2>2. queued' = queued
    BY <2>1 DEF DbOk, DbError, DbErrorAfterCommit
  <2>3. ASSUME NEW x \in Key PROVE held'["scheduler"][x] \in {held["scheduler"][x], None}
    BY <2>1 DEF DbOk, DbError, DbErrorAfterCommit, TypeOK, Flusher
  <2> QED BY <1>1, <2>2, <2>3 DEF InOrder, Ordered
<1>4. ASSUME NEW f \in Flusher, GoThroughResults(f) PROVE InOrder'
  <2>1. f = "scheduler"
    BY <1>1, <1>4, MainHoldsNothing DEF GoThroughResults, Forget, PutBack, Flusher
  <2>2. CASE Forget(f)
    BY <1>1, <2>2 DEF Forget, InOrder, Ordered
  <2>3. CASE PutBack(f)
    BY <1>1, <2>1, <2>3, PutBackInOrder
  <2> QED BY <1>4, <2>2, <2>3 DEF GoThroughResults
<1> QED BY <1>1, <1>2, <1>3, <1>4 DEF Flush

\* What a key is shown is what was written and drained, then what is queued.
LEMMA ShownParts ==
    ASSUME OfPeers, TypeOK, HeldIsSent, main = "serving", NEW k \in Key
    PROVE  Shown[k] = Applied(Applied(db[k], held["scheduler"][k]), queued[k])
<1>1. held["main"][k] = None
  BY MainHoldsNothing
<1> QED BY <1>1 DEF Shown, Applied

\* An announce that is not overtaken shows as a write of the row (upsert).
LEMMA PeerUpsertIsShown ==
    ASSUME OfPeers, TypeOK, HeldIsSent, PromisedRows, InOrder, NewestAnnounceShown,
           main = "serving", made < MaxUpdates,
           NEW k \in Key, NEW u \in Fresh(made + 1), PeerUpsert(k, u)
    PROVE  NewestAnnounceShown'
<1>1. /\ u \in PeerUpdate /\ u \in Update /\ u.created = u.updated
      /\ promised' = [promised EXCEPT ![k] = ApplyPeer(promised[k], u)]
      /\ overtaken \subseteq overtaken'
      /\ \A x \in Key : promised[x].updated \in Int
      /\ k \notin overtaken' => promised[k].updated < u.updated
  BY PeerUpsertFacts
<1>2. ASSUME NEW y \in Key, y # k, y \notin overtaken'
      PROVE  Shown'[y] = promised'[y]
  <2>1. Shown[y] = promised[y]
    BY <1>1, <1>2 DEF NewestAnnounceShown
  <2>2. Shown'[y] = Shown[y]
    BY <1>2 DEF PeerUpsert, Upsert, Shown, TypeOK
  <2>3. promised'[y] = promised[y]
    BY <1>1, <1>2 DEF PromisedRows
  <2> QED BY <2>1, <2>2, <2>3
<1>3. ASSUME k \notin overtaken'
      PROVE  Shown'[k] = promised'[k]
  <2> DEFINE x == Applied(Applied(db[k], held["scheduler"][k]), held["main"][k])
             q == queued[k]
             t == promised[k].updated
  <2>1. q \in PeerUpdate \cup {None} /\ None \notin PeerUpdate /\ t \in Int
    BY <1>1, PeersRecords DEF OfPeers, TypeOK
  <2>2. x \in PeerRow
    BY AppliedType, PeersRecords DEF TypeOK, Flusher, OfPeers
  <2>3. Shown[k] = Applied(x, q) /\ Shown[k] = promised[k]
    BY <1>1, <1>3 DEF Shown, NewestAnnounceShown
  <2>4. q # None => q.created <= u.created /\ q.updated < u.updated
    <3>1. q # None => q.created <= t /\ q.updated <= t
      BY <1>1, <1>3 DEF InOrder, Ordered
    <3>2. t < u.updated
      BY <1>1, <1>3
    <3> HIDE DEF q, t
    <3> QED BY <1>1, <2>1, <3>1, <3>2 DEF PeerUpdate
  <2>5. Shown'[k] = Applied(x, Merged(q, u))
    BY DEF PeerUpsert, Upsert, Shown, TypeOK
  <2>6. promised'[k] = ApplyPeer(promised[k], u) /\ promised[k] \in PeerRow
    BY <1>1 DEF PromisedRows
  <2> HIDE DEF x, q, t
  <2>7. CASE q = None
    <3>1. Shown'[k] = Apply(x, u) /\ Shown[k] = x
      BY <1>1, <2>1, <2>3, <2>5, <2>7 DEF Applied, Merged
    <3> QED BY <1>1, <2>2, <2>3, <2>6, <3>1 DEF OfPeers
  <2>8. CASE q # None
    <3>1. ApplyPeer(ApplyPeer(x, q), u) = ApplyPeer(x, MergePeer(q, u))
      BY <1>1, <2>1, <2>2, <2>4, <2>8, PeersMerge DEF PeerUpdate
    <3>2. Merge(q, u) = MergePeer(q, u) /\ Merge(q, u) \in PeerUpdate
      BY <1>1, <2>1, <2>8, UpdateAssumption DEF OfPeers
    <3>3. Shown[k] = ApplyPeer(x, q)
      BY <2>1, <2>2, <2>3, <2>8 DEF Applied, OfPeers
    <3>4. Shown'[k] = ApplyPeer(x, MergePeer(q, u))
      BY <2>1, <2>2, <2>5, <2>8, <3>2 DEF Applied, Merged, OfPeers
    <3> QED BY <2>3, <2>6, <3>1, <3>3, <3>4
  <2> QED BY <2>7, <2>8
<1> QED BY <1>2, <1>3 DEF NewestAnnounceShown

\* A drain of the scheduler changes no row (take_batches).
LEMMA PeerTakeKeepsShown ==
    ASSUME TypeOK, HeldIsSent, main = "serving", Idle("scheduler"), Take("scheduler"), db' = db
    PROVE  Shown' = Shown
<1>1. ASSUME NEW k \in Key
      PROVE  Applied(Applied(Applied(db'[k], held'["scheduler"][k]), held'["main"][k]),
                     queued'[k])
           = Applied(Applied(Applied(db[k], held["scheduler"][k]), held["main"][k]), queued[k])
  <2>1. held["scheduler"][k] = None /\ held["main"][k] = None
    BY MainHoldsNothing DEF HeldIsSent, Idle, Flusher
  <2>2. /\ held'["scheduler"][k] = IF k \in Drained THEN queued[k] ELSE None
        /\ held'["main"][k] = None
        /\ queued'[k] = IF k \in Drained THEN None ELSE queued[k]
    BY <2>1 DEF Take, TypeOK, Flusher
  <2> QED BY <2>1, <2>2 DEF Applied
<1> QED BY <1>1 DEF Shown

\* Nor does an answer of the database, also one that was lost (flush_to_db).
LEMMA PeerAnswerKeepsShown ==
    ASSUME OfPeers, TypeOK, HeldIsSent, main = "serving", DbAnswers("scheduler")
    PROVE  Shown' = Shown
<1>1. PICK i \in DOMAIN sent["scheduler"] :
          \/ DbOk("scheduler", i) \/ DbError("scheduler", i)
          \/ DbErrorAfterCommit("scheduler", i)
  BY DEF DbAnswers
<1>2. ASSUME NEW k \in Key
      PROVE  Applied(Applied(Applied(db'[k], held'["scheduler"][k]), held'["main"][k]),
                     queued'[k])
           = Applied(Applied(Applied(db[k], held["scheduler"][k]), held["main"][k]), queued[k])
  <2> DEFINE h == held["scheduler"][k]
             r == db[k]
  <2>1. held["main"][k] = None
    BY MainHoldsNothing
  <2>2. h \in PeerUpdate \cup {None} /\ r \in PeerRow /\ None \notin PeerUpdate
    BY PeersRecords DEF Flusher
  <2>3. queued'[k] = queued[k] /\ held'["main"][k] = None
    BY <1>1, <2>1 DEF DbOk, DbError, DbErrorAfterCommit, TypeOK, Flusher
  <2>4. Write("scheduler", i) =>
            db'[k] = IF k \in sent["scheduler"][i].keys THEN Applied(r, h) ELSE r
    BY DEF Write, Applied
  <2>5. Applied(Applied(r, h), h) = Applied(r, h)
    <3> HIDE DEF h, r
    <3>1. CASE h = None
      BY <3>1 DEF Applied
    <3>2. CASE h # None
      <4>1. Apply(r, h) = ApplyPeer(r, h) /\ Apply(r, h) \in PeerRow
        BY <2>2, <3>2, RowAssumption DEF OfPeers
      <4>2. ApplyPeer(ApplyPeer(r, h), h) = ApplyPeer(r, h)
        BY <2>2, <3>2, PeersAgain
      <4> QED BY <2>2, <3>2, <4>1, <4>2 DEF Applied, OfPeers
    <3> QED BY <3>1, <3>2
  <2>6. CASE DbOk("scheduler", i)
    <3>1. held'["scheduler"][k] = IF k \in sent["scheduler"][i].keys THEN None ELSE h
      BY <2>6 DEF DbOk, TypeOK, Flusher
    <3> QED BY <2>1, <2>3, <2>4, <2>6, <3>1 DEF DbOk, Applied
  <2>7. CASE DbError("scheduler", i)
    BY <2>7 DEF DbError
  <2>8. CASE DbErrorAfterCommit("scheduler", i)
    BY <2>1, <2>3, <2>4, <2>5, <2>8 DEF DbErrorAfterCommit, Applied
  <2> QED BY <1>1, <2>6, <2>7, <2>8
<1> QED BY <1>2 DEF Shown

\* Nor does a batch that is put back (upsert_batch).
LEMMA PeerPutBackKeepsShown ==
    ASSUME OfPeers, TypeOK, HeldIsSent, InOrder, main = "serving", PutBack("scheduler")
    PROVE  \A k \in Key \ overtaken : Shown'[k] = Shown[k]
<1>1. ASSUME NEW k \in Key, k \notin overtaken
      PROVE  Applied(Applied(Applied(db'[k], held'["scheduler"][k]), held'["main"][k]),
                     queued'[k])
           = Applied(Applied(Applied(db[k], held["scheduler"][k]), held["main"][k]), queued[k])
  <2> DEFINE h == held["scheduler"][k]
             r == db[k]
             q == queued[k]
             batch == Head(sent["scheduler"]).keys
  <2>1. held["main"][k] = None /\ held'["main"][k] = None /\ db'[k] = r
    BY MainHoldsNothing DEF PutBack, TypeOK, Flusher
  <2>2. /\ h \in PeerUpdate \cup {None} /\ q \in PeerUpdate \cup {None} /\ r \in PeerRow
        /\ None \notin PeerUpdate
    BY PeersRecords DEF Flusher
  <2>3. /\ held'["scheduler"][k] = IF k \in batch THEN None ELSE h
        /\ queued'[k] = IF k \in batch /\ h # None THEN Merged(q, h) ELSE q
    BY DEF PutBack, TypeOK, Flusher
  <2>4. Ordered(q, h, promised[k].updated)
    BY <1>1 DEF InOrder
  <2> HIDE DEF h, r, q, batch
  <2>5. h # None => Applied(r, Merged(q, h)) = Applied(Applied(r, h), q)
    <3>1. CASE q = None
      BY <3>1, <2>2 DEF Merged, Applied
    <3>2. CASE q # None /\ h # None
      <4>1. ApplyPeer(ApplyPeer(r, h), q) = ApplyPeer(r, MergePeer(q, h))
        BY <2>2, <2>4, <3>2, PeersMerge DEF Ordered
      <4>2. Merge(q, h) = MergePeer(q, h) /\ Merge(q, h) \in PeerUpdate
        BY <2>2, <3>2, UpdateAssumption DEF OfPeers
      <4>3. ApplyPeer(r, h) \in PeerRow /\ Apply(r, h) = ApplyPeer(r, h)
        BY <2>2, <3>2, RowAssumption DEF OfPeers
      <4> QED BY <2>2, <3>2, <4>1, <4>2, <4>3 DEF Applied, Merged, OfPeers
    <3> QED BY <3>1, <3>2
  <2>6. CASE k \in batch /\ h # None
    <3>1. held'["scheduler"][k] = None /\ queued'[k] = Merged(q, h)
      BY <2>3, <2>6
    <3> QED BY <2>1, <2>5, <2>6, <3>1 DEF Applied, h, q, r
  <2>7. CASE ~(k \in batch /\ h # None)
    <3>1. held'["scheduler"][k] = h
      BY <2>3, <2>7
    <3>2. queued'[k] = q
      BY <2>3, <2>7
    <3> QED BY <2>1, <3>1, <3>2 DEF h, q, r
  <2> QED BY <2>6, <2>7
<1> QED BY <1>1 DEF Shown

\* No step of the scheduler's flush changes a row as it is shown.
LEMMA PeerFlushKeepsShown ==
    ASSUME OfPeers, TypeOK, HeldIsSent, InOrder, Flush, main' = "serving"
    PROVE  \A k \in Key \ overtaken : Shown'[k] = Shown[k]
<1>1. main = "serving" /\ ~StopServing /\ ~MainLoop
  BY ServingBefore
<1>2. CASE SchedulerFlush
  BY <1>1, <1>2, PeerTakeKeepsShown DEF SchedulerFlush
<1>3. ASSUME NEW f \in Flusher, DbAnswers(f) PROVE Shown' = Shown
  BY <1>1, <1>3, MainHoldsNothing, PeerAnswerKeepsShown DEF Flusher
<1>4. ASSUME NEW f \in Flusher, GoThroughResults(f)
      PROVE  \A k \in Key \ overtaken : Shown'[k] = Shown[k]
  <2>1. f = "scheduler"
    BY <1>1, <1>4, MainHoldsNothing DEF GoThroughResults, Forget, PutBack, Flusher
  <2>2. CASE Forget(f)
    BY <2>2 DEF Forget, Shown
  <2>3. CASE PutBack(f)
    BY <1>1, <2>1, <2>3, PeerPutBackKeepsShown
  <2> QED BY <1>4, <2>2, <2>3 DEF GoThroughResults
<1> QED BY <1>1, <1>2, <1>3, <1>4 DEF Flush

\* The row that is shown is the one promised, and the order of times is kept.
PeersInv == PromisedRows /\ InOrder /\ NewestAnnounceShown

\* Every step of the peers queue keeps the invariant.
LEMMA PeersStep ==
    ASSUME OfPeers, TypeOK, HeldIsSent, PeersInv, [PeerNext]_peerVars
    PROVE  PeersInv'
<1> USE DEF PeersInv
<1>1. CASE PeerAnnounce
  <2>1. PICK k \in Key : \E u \in Fresh(made + 1) : PeerUpsert(k, u)
    BY <1>1 DEF PeerAnnounce
  <2>2. PICK u \in Fresh(made + 1) : PeerUpsert(k, u)
    BY <2>1
  <2>3. main = "serving" /\ made < MaxUpdates
    BY <1>1 DEF PeerAnnounce
  <2> QED BY <2>2, <2>3, PeerUpsertFacts, UpsertInOrder, PeerUpsertIsShown
<1>2. CASE Flush /\ UNCHANGED <<promised, overtaken>>
  <2>1. InOrder' /\ PromisedRows'
    BY <1>2, FlushInOrder DEF PromisedRows
  <2>2. NewestAnnounceShown'
    <3> SUFFICES ASSUME main' = "serving", NEW k \in Key, k \notin overtaken
                 PROVE  Shown'[k] = promised[k]
      BY <1>2 DEF NewestAnnounceShown
    <3>1. Shown'[k] = Shown[k]
      BY <1>2, PeerFlushKeepsShown
    <3>2. main = "serving"
      BY <1>2, ServingBefore
    <3> QED BY <3>1, <3>2 DEF NewestAnnounceShown
  <2> QED BY <2>1, <2>2
<1>3. CASE UNCHANGED peerVars
  BY <1>3 DEF peerVars, vars, PromisedRows, InOrder, Ordered, NewestAnnounceShown, Shown
<1> QED BY <1>1, <1>2, <1>3 DEF PeerNext

\* The peers queue is an update queue.
LEMMA PeersAreQueue == PeerSpec => Spec
<1>1. PeerInit => Init
  BY DEF PeerInit
<1>2. [PeerNext]_peerVars => [Next]_vars
  BY DEF PeerNext, PeerAnnounce, PeerUpsert, Next, AnnounceUpsert, peerVars
<1> QED BY <1>1, <1>2, PTL DEF PeerSpec, Spec

\* As long as only the scheduler flushes, the row of a peer whose announces are
\* queued in the order of their times is shown as the newest of them left it,
\* also when statements that were committed are reported as failed: what is sent
\* or put back once more is never newer than what it meets.
THEOREM PeersKeepPromise ==
    ASSUME OfPeers
    PROVE  PeerSpec => []NewestAnnounceShown
<1>1. PeerInit => PeersInv
  <2> SUFFICES ASSUME PeerInit PROVE PeersInv
    OBVIOUS
  <2>1. /\ \A k \in Key : queued[k] = None /\ db[k] = NoPeerRow /\ promised[k] = NoPeerRow
        /\ \A f \in Flusher, k \in Key : held[f][k] = None
        /\ promised \in [Key -> PeerRow]
    BY DEF PeerInit, Init, Nothing, OfPeers, PeerRow
  <2>2. \A k \in Key : Shown[k] = NoPeerRow
    BY <2>1 DEF Shown, Applied, Flusher
  <2> QED BY <2>1, <2>2 DEF PeersInv, PromisedRows, InOrder, Ordered, NewestAnnounceShown,
                            Flusher
<1>2. TypeOK /\ HeldIsSent /\ PeersInv /\ [PeerNext]_peerVars => PeersInv'
  BY PeersStep
<1>3. PeersInv => NewestAnnounceShown
  BY DEF PeersInv
<1>4. PeerSpec => []TypeOK
  BY PeersAreQueue, TypeCorrect, PTL
<1>5. PeerSpec => []HeldIsSent
  BY PeersAreQueue, HeldRecordsAreSent, PTL
<1> QED BY <1>1, <1>2, <1>3, <1>4, <1>5, PTL DEF PeerSpec

(***************************************************************************)
(* Ranks, sorting and batches.                                             *)
(***************************************************************************)

\* The ranks of the keys of a set are the numbers up to its size, each of them
\* that of one key (take_batches, the sort).
LEMMA RankFacts ==
    ASSUME NEW D \in SUBSET Key
    PROVE  /\ IsFiniteSet(D) /\ Cardinality(D) \in Nat
           /\ \A k \in D : Rank(k, D) \in 1..Cardinality(D)
           /\ \A k, l \in D : Rank(k, D) = Rank(l, D) => k = l
           /\ \A n \in 1..Cardinality(D) : \E k \in D : Rank(k, D) = n
<1> DEFINE c == Cardinality(D)
           From(k) == {x \in D : x >= k}
           rank == [k \in D |-> Rank(k, D)]
<1>1. IsFiniteSet(D) /\ c \in Nat
  BY KeyAssumption, FS_Subset, FS_CardinalityType
<1>2. ASSUME NEW k \in D
      PROVE  IsFiniteSet(From(k)) /\ Rank(k, D) = Cardinality(From(k)) /\ Rank(k, D) \in 1..c
  <2>1. From(k) \in SUBSET D /\ k \in From(k)
    BY KeyAssumption
  <2>2. Rank(k, D) = Cardinality(From(k))
    BY DEF Rank
  <2> HIDE DEF From
  <2>3. IsFiniteSet(From(k)) /\ Cardinality(From(k)) \in Nat /\ Cardinality(From(k)) <= c
    BY <1>1, <2>1, FS_Subset, FS_CardinalityType
  <2>4. Cardinality(From(k)) # 0
    BY <2>1, <2>3, FS_EmptySet
  <2> QED BY <1>1, <2>2, <2>3, <2>4
<1>3. ASSUME NEW k \in D, NEW l \in D, k < l PROVE Rank(k, D) # Rank(l, D)
  <2>1. k \in Int /\ l \in Int /\ \A x \in D : x \in Int
    BY KeyAssumption
  <2>2. From(l) \in SUBSET From(k) /\ k \in From(k) /\ k \notin From(l)
    <3>1. \A x \in D : x >= l => x >= k
      BY <1>3, <2>1
    <3>2. k >= k /\ ~(k >= l)
      BY <1>3, <2>1
    <3> QED BY <3>1, <3>2
  <2> HIDE DEF From
  <2>3. From(l) # From(k)
    BY <2>2
  <2> QED BY <1>2, <2>2, <2>3, FS_Subset
<1>4. ASSUME NEW k \in D, NEW l \in D, Rank(k, D) = Rank(l, D) PROVE k = l
  <2>1. k \in Int /\ l \in Int
    BY KeyAssumption
  <2>2. ~(k < l) /\ ~(l < k)
    BY <1>3, <1>4
  <2> QED BY <2>1, <2>2
<1>5. rank \in Injection(D, 1..c)
  BY <1>2, <1>4 DEF Injection, IsInjective
<1>6. IsFiniteSet(1..c) /\ Cardinality(1..c) = c
  BY <1>1, FS_Interval
<1>7. rank \in Surjection(D, 1..c)
  <2> HIDE DEF rank
  <2> QED BY <1>5, <1>6, FS_Injection
<1>8. ASSUME NEW n \in 1..c PROVE \E k \in D : Rank(k, D) = n
  BY <1>7 DEF Surjection
<1> QED BY <1>1, <1>2, <1>4, <1>8

\* Sorting lists each key once (take_batches, the sort).
LEMMA SortedFacts ==
    ASSUME NEW D \in SUBSET Key
    PROVE  /\ Sorted(D) \in Seq(Key)
           /\ Range(Sorted(D)) = D
           /\ IsInjective(Sorted(D))
<1> DEFINE c == Cardinality(D)
           s == Sorted(D)
<1>1. c \in Nat /\ \A k \in D : Rank(k, D) \in 1..c
  BY RankFacts
<1>2. ASSUME NEW i \in 1..c PROVE s[i] \in D /\ Rank(s[i], D) = c + 1 - i
  <2>1. c + 1 - i \in 1..c
    BY <1>1
  <2>2. \E k \in D : Rank(k, D) = c + 1 - i
    BY <2>1, RankFacts
  <2>3. s[i] = CHOOSE k \in D : Rank(k, D) = c + 1 - i
    BY DEF Sorted
  <2> QED BY <2>2, <2>3
<1>3. DOMAIN s = 1..c /\ s = [i \in 1..c |-> s[i]]
  BY DEF Sorted
<1>4. s \in Seq(Key)
  <2> HIDE DEF s
  <2>1. s \in [1..c -> Key]
    BY <1>2, <1>3
  <2> HIDE DEF c
  <2> QED BY <1>1, <2>1
<1>5. ASSUME NEW k \in D PROVE \E i \in 1..c : s[i] = k
  <2> DEFINE i == c + 1 - Rank(k, D)
  <2>1. i \in 1..c /\ c + 1 - i = Rank(k, D)
    BY <1>1
  <2> HIDE DEF i, s
  <2>2. s[i] \in D /\ Rank(s[i], D) = Rank(k, D)
    BY <1>2, <2>1
  <2> QED BY <2>1, <2>2, RankFacts
<1>6. Range(s) = D
  <2> HIDE DEF s
  <2> QED BY <1>2, <1>3, <1>5 DEF Range
<1>7. ASSUME NEW i \in 1..c, NEW j \in 1..c, s[i] = s[j] PROVE i = j
  <2> HIDE DEF s
  <2>1. c + 1 - i = c + 1 - j
    BY <1>2, <1>7
  <2> QED BY <1>1, <2>1
<1>8. IsInjective(s)
  <2> HIDE DEF s
  <2> QED BY <1>3, <1>7 DEF IsInjective
<1> QED BY <1>4, <1>6, <1>8

\* What a division says of the dividend.
LEMMA DivBounds ==
    ASSUME NEW a \in Nat, NEW b \in Nat \ {0}
    PROVE  /\ a \div b \in Nat
           /\ (a \div b) * b <= a
           /\ a < (a \div b) * b + b
OBVIOUS

\* Rounded up, no more divisors fit than were allowed for.
LEMMA RoundedUp ==
    ASSUME NEW n \in Nat, NEW m \in Nat, NEW b \in Nat \ {0}, n <= m * b
    PROVE  (n + b - 1) \div b <= m
<1> DEFINE q == (n + b - 1) \div b
<1>1. n + b - 1 \in Nat
  OBVIOUS
<1>2. q \in Nat /\ q * b <= n + b - 1
  BY <1>1, DivBounds
<1> HIDE DEF q
<1>3. q * b < m * b + b
  BY <1>2
<1>4. ASSUME m + 1 <= q PROVE FALSE
  <2>1. (m + 1) * b <= q * b
    BY <1>2, <1>4
  <2>2. (m + 1) * b = m * b + b
    OBVIOUS
  <2> QED BY <1>2, <1>3, <2>1, <2>2
<1>5. q <= m
  BY <1>2, <1>4
<1> QED BY <1>5 DEF q

\* The batches of a drain: no more than allowed, none empty, none too large, and
\* no record in two of them (take_batches, split_off).
LEMMA BatchesFacts ==
    ASSUME NEW D \in SUBSET Key, Cardinality(D) <= MaxBatches * MaxBatchSize
    PROVE  /\ Batches(D) \in Seq(SUBSET Key)
           /\ Len(Batches(D)) <= MaxBatches
           /\ \A i \in DOMAIN Batches(D) :
                 /\ Cardinality(Batches(D)[i]) \in 1..MaxBatchSize
                 /\ Batches(D)[i] \subseteq D
           /\ \A i, j \in DOMAIN Batches(D) :
                 i # j => Batches(D)[i] \cap Batches(D)[j] = {}
<1> DEFINE c == Cardinality(D)
           size == MaxBatchSize
           count == (c + size - 1) \div size
           B == Batches(D)
<1>1. c \in Nat /\ IsFiniteSet(D) /\ size \in Nat \ {0} /\ MaxBatches \in Nat
  BY RankFacts, LimitAssumption
<1>2. count \in Nat /\ count * size <= c + size - 1 /\ count <= MaxBatches
  <2>1. c + size - 1 \in Nat
    BY <1>1
  <2> QED BY <1>1, <2>1, DivBounds, RoundedUp
<1>3. B = [i \in 1..count |-> {k \in D : (Rank(k, D) - 1) \div size = count - i}]
  BY DEF Batches
<1>4. Batches(D) \in Seq(SUBSET Key)
  BY BatchesType
<1>5. Len(B) = count
  <2> HIDE DEF count, B
  <2> QED BY <1>2, <1>3, <1>4
<1> HIDE DEF B
<1>6. ASSUME NEW i \in 1..count
      PROVE  Cardinality(B[i]) \in 1..size /\ B[i] \subseteq D
  <2> DEFINE low == (count - i) * size
             batch == {k \in D : (Rank(k, D) - 1) \div size = count - i}
             rank == [k \in batch |-> Rank(k, D)]
  <2>1. B[i] = batch
    BY <1>3
  <2>2. count - i \in Nat /\ low \in Nat
    BY <1>1, <1>2
  <2>3. \A k \in D : Rank(k, D) \in 1..c
    BY RankFacts
  <2>4. ASSUME NEW k \in batch PROVE Rank(k, D) \in low + 1 .. low + size
    <3>1. Rank(k, D) - 1 \in Nat /\ (Rank(k, D) - 1) \div size = count - i
      BY <2>3
    <3>2. low <= Rank(k, D) - 1 /\ Rank(k, D) - 1 < low + size
      BY <1>1, <3>1, DivBounds
    <3> HIDE DEF low
    <3> QED BY <1>1, <2>2, <2>3, <3>2
  <2>5. rank \in Injection(batch, low + 1 .. low + size)
    BY <2>4, RankFacts DEF Injection, IsInjective
  <2>6. IsFiniteSet(low + 1 .. low + size) /\ Cardinality(low + 1 .. low + size) = size
    <3> HIDE DEF low
    <3>1. /\ low + 1 \in Int /\ low + size \in Int /\ ~(low + 1 > low + size)
          /\ (low + size) - (low + 1) + 1 = size
      BY <1>1, <2>2
    <3> QED BY <3>1, FS_Interval
  <2>7. IsFiniteSet(batch) /\ Cardinality(batch) <= size /\ Cardinality(batch) \in Nat
    <3> HIDE DEF rank, batch, low
    <3> QED BY <2>5, <2>6, FS_Injection, FS_CardinalityType
  <2>8. low + 1 \in 1..c
    <3>1. low <= (count - 1) * size
      BY <1>1, <1>2
    <3>2. (count - 1) * size = count * size - size
      BY <1>1, <1>2
    <3> HIDE DEF low, count
    <3> QED BY <1>1, <1>2, <2>2, <3>1, <3>2
  <2>9. PICK k \in D : Rank(k, D) = low + 1
    BY <2>8, RankFacts
  <2>10. (Rank(k, D) - 1) \div size = count - i
    <3>1. \A q \in Nat : (q * size) \div size = q
      BY <1>1
    <3>2. Rank(k, D) - 1 = (count - i) * size
      BY <2>2, <2>9
    <3> HIDE DEF count
    <3> QED BY <2>2, <3>1, <3>2
  <2>11. batch # {}
    BY <2>10
  <2>12. Cardinality(batch) # 0
    <3> HIDE DEF batch
    <3> QED BY <2>7, <2>11, FS_EmptySet
  <2>13. batch \subseteq D
    OBVIOUS
  <2> HIDE DEF batch
  <2> QED BY <1>1, <2>1, <2>7, <2>12, <2>13
<1>7. ASSUME NEW i \in 1..count, NEW j \in 1..count, i # j
      PROVE  B[i] \cap B[j] = {}
  <2>1. ASSUME NEW k \in B[i], k \in B[j] PROVE FALSE
    <3>1. count - i = count - j
      BY <1>3, <2>1
    <3> QED BY <1>2, <1>7, <3>1
  <2> QED BY <2>1
<1>8. DOMAIN B = 1..count
  BY <1>3
<1> HIDE DEF count
<1> QED BY <1>2, <1>4, <1>5, <1>6, <1>7, <1>8 DEF B

\* What a drain takes, and what it leaves in the ring map (take_batches, drain).
LEMMA DrainFacts ==
    ASSUME order \in Seq(Key), IsInjective(order)
    PROVE  LET n == Cardinality(Drained)
               left == SubSeq(order, n + 1, Len(order))
           IN  /\ Drained \subseteq Range(order)
               /\ n <= MaxBatches * MaxBatchSize
               /\ left \in Seq(Key)
               /\ Range(left) = Range(order) \ Drained
               /\ IsInjective(left)
<1> DEFINE n == Cardinality(Drained)
           left == SubSeq(order, n + 1, Len(order))
           limit == MaxBatches * MaxBatchSize
           m == IF limit < Len(order) THEN limit ELSE Len(order)
           first == [i \in 1..m |-> order[i]]
<1>1. limit \in Nat /\ Len(order) \in Nat /\ DOMAIN order = 1..Len(order)
  BY LimitAssumption
<1>2. m \in 0..Len(order) /\ m <= limit
  BY <1>1
<1>3. \A i \in 1..Len(order) : i <= limit <=> i <= m
  BY <1>1
<1> HIDE DEF m, limit
<1>4. Drained = {order[i] : i \in 1..m}
  <2>1. \A i \in 1..Len(order) : order[i] \in Key
    BY <1>1
  <2>2. Drained = {k \in Key : \E i \in 1..Len(order) : i <= m /\ order[i] = k}
    BY <1>1, <1>3 DEF Drained, limit
  <2>3. \A i : i \in 1..m <=> i \in 1..Len(order) /\ i <= m
    BY <1>1, <1>2
  <2> QED BY <2>1, <2>2, <2>3
<1>5. first \in Bijection(1..m, Drained)
  <2>1. \A i, j \in 1..m : order[i] = order[j] => i = j
    BY <1>1, <1>2 DEF IsInjective
  <2> QED BY <1>4, <2>1 DEF Bijection, Injection, Surjection, IsInjective
<1>6. n = m
  <2>1. ExistsBijection(1..m, Drained)
    BY <1>5 DEF ExistsBijection
  <2> QED BY <1>2, <2>1, FS_CountingElements
<1>7. /\ left \in Seq(Key) /\ DOMAIN left = 1..(Len(order) - m)
      /\ \A j \in 1..(Len(order) - m) : left[j] = order[j + m]
  <2> HIDE DEF n
  <2> QED BY <1>1, <1>2, <1>6
<1> HIDE DEF left, n
<1>8. Range(left) = Range(order) \ Drained
  <2>1. ASSUME NEW j \in 1..(Len(order) - m)
        PROVE  left[j] \in Range(order) /\ left[j] \notin Drained
    <3>1. j + m \in 1..Len(order) /\ ~(j + m <= m)
      BY <1>1, <1>2
    <3>2. \A i \in 1..m : order[i] # order[j + m]
      BY <1>1, <1>2, <3>1 DEF IsInjective
    <3> QED BY <1>1, <1>4, <1>7, <3>1, <3>2 DEF Range
  <2>2. ASSUME NEW i \in 1..Len(order), order[i] \notin Drained
        PROVE  \E j \in 1..(Len(order) - m) : left[j] = order[i]
    <3>1. i \notin 1..m
      BY <1>4, <2>2
    <3>2. i - m \in 1..(Len(order) - m) /\ (i - m) + m = i
      BY <1>1, <1>2, <3>1
    <3> QED BY <1>7, <3>2
  <2> QED BY <1>1, <1>7, <2>1, <2>2 DEF Range
<1>9. IsInjective(left)
  <2> SUFFICES ASSUME NEW a \in 1..(Len(order) - m), NEW b \in 1..(Len(order) - m),
                      left[a] = left[b]
               PROVE  a = b
    BY <1>7 DEF IsInjective
  <2>1. a + m \in 1..Len(order) /\ b + m \in 1..Len(order) /\ order[a + m] = order[b + m]
    BY <1>1, <1>2, <1>7
  <2>2. a + m = b + m
    BY <1>1, <2>1 DEF IsInjective
  <2> QED BY <1>2, <2>2
<1>10. Drained \subseteq Range(order)
  BY <1>1, <1>2, <1>4 DEF Range
<1> QED BY <1>1, <1>2, <1>6, <1>7, <1>8, <1>9, <1>10 DEF n, left, limit

(***************************************************************************)
(* Nothing is stranded, and the limits hold.                               *)
(***************************************************************************)

\* The batches s of a flush hold what is drained and not yet written, and share
\* nothing: h gives the drained records.
Holds(s, h) ==
    /\ \A k \in Key : h[k] # None <=> \E i \in DOMAIN s : k \in s[i].keys /\ s[i].answer # "ok"
    /\ \A i, j \in DOMAIN s : i # j => s[i].keys \cap s[j].keys = {}

\* The batches s keep to the limits.
Within(s) ==
    /\ Len(s) <= MaxBatches
    /\ \A i \in DOMAIN s : Cardinality(s[i].keys) \in 1..MaxBatchSize

\* The ring map lists every queued record once.
RingLists ==
    /\ order \in Seq(Key)
    /\ IsInjective(order)
    /\ \A k \in Key : k \in Range(order) <=> queued[k] # None

\* Main has batches in flight only while it waits for them.
MainAwaits == main # "flushing" => Idle("main")

\* From the moment main has found the queue empty, what is left is late.
OnlyLateLeft ==
    main \in {"leaving", "exited"} /\ flushes < MaxFlushes
        => \A k \in Key : HasRecord(k) => k \in late

StrandedInv ==
    /\ RingLists
    /\ \A f \in Flusher : Holds(sent[f], held[f]) /\ Within(sent[f])
    /\ MainAwaits
    /\ OnlyLateLeft

\* Without h for a set of keys.
Without(h, S) == [k \in Key |-> IF k \in S THEN None ELSE h[k]]

\* An answer settles one batch, or leaves it to be put back (flush_to_db).
LEMMA AnswerHolds ==
    ASSUME NEW s \in Seq(SentBatch), NEW h, Holds(s, h), Within(s), NEW i \in DOMAIN s,
           s[i].answer = "none", NEW a \in {"ok", "error"},
           NEW t, t = [s EXCEPT ![i].answer = a]
    PROVE  /\ Within(t)
           /\ a = "ok" => Holds(t, Without(h, s[i].keys))
           /\ a = "error" => Holds(t, h)
<1>1. /\ t \in Seq(SentBatch) /\ Len(t) = Len(s) /\ DOMAIN t = DOMAIN s
      /\ \A j \in DOMAIN s : t[j].keys = s[j].keys
      /\ \A j \in DOMAIN s : t[j].answer = IF j = i THEN a ELSE s[j].answer
  <2>1. t \in Seq(SentBatch)
    BY AnswerType
  <2>2. \A j \in DOMAIN s : s[j] \in SentBatch
    OBVIOUS
  <2>3. \A j \in DOMAIN s : t[j] = IF j = i THEN [s[i] EXCEPT !.answer = a] ELSE s[j]
    OBVIOUS
  <2> QED BY <2>1, <2>2, <2>3 DEF SentBatch
<1>2. Within(t)
  BY <1>1 DEF Within
<1>3. \A j, l \in DOMAIN t : j # l => t[j].keys \cap t[l].keys = {}
  BY <1>1 DEF Holds
<1>4. ASSUME a = "error"
      PROVE  Holds(t, h)
  <2>1. \A j \in DOMAIN s : t[j].answer # "ok" <=> s[j].answer # "ok"
    BY <1>1, <1>4
  <2>2. \A k \in Key : h[k] # None <=> \E j \in DOMAIN t : k \in t[j].keys /\ t[j].answer # "ok"
    BY <1>1, <2>1 DEF Holds
  <2> QED BY <1>3, <2>2 DEF Holds
<1>5. ASSUME a = "ok"
      PROVE  Holds(t, Without(h, s[i].keys))
  <2>1. ASSUME NEW k \in Key
        PROVE  Without(h, s[i].keys)[k] # None
                  <=> \E j \in DOMAIN t : k \in t[j].keys /\ t[j].answer # "ok"
    <3>1. CASE k \in s[i].keys
      <4>1. Without(h, s[i].keys)[k] = None
        BY <3>1 DEF Without
      <4>2. ASSUME NEW j \in DOMAIN s, k \in s[j].keys PROVE j = i
        BY <3>1, <4>2 DEF Holds
      <4> QED BY <1>1, <1>5, <4>1, <4>2
    <3>2. CASE k \notin s[i].keys
      <4>1. Without(h, s[i].keys)[k] = h[k]
        BY <3>2 DEF Without
      <4> QED BY <1>1, <1>5, <3>2, <4>1 DEF Holds
    <3> QED BY <3>1, <3>2
  <2> QED BY <1>3, <2>1 DEF Holds
<1> QED BY <1>2, <1>4, <1>5

\* Going through a result takes its batch away (flush, after join_all).
LEMMA TailHolds ==
    ASSUME NEW s \in Seq(SentBatch), NEW h, Holds(s, h), Within(s), s # <<>>
    PROVE  /\ Within(Tail(s))
           /\ Head(s).answer = "ok" => Holds(Tail(s), h)
           /\ Head(s).answer = "error" =>
                 /\ \A k \in Head(s).keys : h[k] # None
                 /\ Holds(Tail(s), Without(h, Head(s).keys))
<1> DEFINE t == Tail(s)
<1>1. /\ Len(s) \in Nat /\ Len(s) >= 1 /\ DOMAIN s = 1..Len(s) /\ Head(s) = s[1]
      /\ t \in Seq(SentBatch) /\ Len(t) = Len(s) - 1 /\ DOMAIN t = 1..(Len(s) - 1)
      /\ \A j \in 1..(Len(s) - 1) : t[j] = s[j + 1]
  OBVIOUS
<1>2. \A j \in 1..Len(s) : j = 1 \/ (j - 1 \in 1..(Len(s) - 1) /\ t[j - 1] = s[j])
  BY <1>1
<1>3. \A j \in 1..(Len(s) - 1) : j + 1 \in 1..Len(s) /\ j + 1 # 1
  BY <1>1
<1> HIDE DEF t
<1>4. Within(t)
  <2>1. Len(t) <= MaxBatches
    BY <1>1, LimitAssumption DEF Within
  <2>2. ASSUME NEW j \in DOMAIN t PROVE Cardinality(t[j].keys) \in 1..MaxBatchSize
    <3>1. j + 1 \in DOMAIN s /\ t[j] = s[j + 1]
      BY <1>1, <1>3
    <3> QED BY <3>1 DEF Within
  <2> QED BY <2>1, <2>2 DEF Within
<1>5. \A i, j \in DOMAIN t : i # j => t[i].keys \cap t[j].keys = {}
  <2> SUFFICES ASSUME NEW i \in DOMAIN t, NEW j \in DOMAIN t, i # j
               PROVE  t[i].keys \cap t[j].keys = {}
    OBVIOUS
  <2>1. /\ i + 1 \in DOMAIN s /\ j + 1 \in DOMAIN s /\ i + 1 # j + 1
        /\ t[i] = s[i + 1] /\ t[j] = s[j + 1]
    BY <1>1, <1>3
  <2> QED BY <2>1 DEF Holds
<1>6. ASSUME NEW k
      PROVE  (\E j \in DOMAIN t : k \in t[j].keys /\ t[j].answer # "ok")
                <=> (\E j \in DOMAIN s : j # 1 /\ k \in s[j].keys /\ s[j].answer # "ok")
  <2>1. ASSUME NEW j \in DOMAIN t, k \in t[j].keys, t[j].answer # "ok"
        PROVE  \E l \in DOMAIN s : l # 1 /\ k \in s[l].keys /\ s[l].answer # "ok"
    <3>1. j + 1 \in DOMAIN s /\ j + 1 # 1 /\ s[j + 1] = t[j]
      BY <1>1, <1>3
    <3> QED BY <2>1, <3>1
  <2>2. ASSUME NEW j \in DOMAIN s, j # 1, k \in s[j].keys, s[j].answer # "ok"
        PROVE  \E l \in DOMAIN t : k \in t[l].keys /\ t[l].answer # "ok"
    <3>1. j - 1 \in DOMAIN t /\ t[j - 1] = s[j]
      BY <1>1, <1>2, <2>2
    <3> QED BY <2>2, <3>1
  <2> QED BY <2>1, <2>2
<1>7. ASSUME Head(s).answer = "ok"
      PROVE  Holds(t, h)
  <2>1. \A j \in DOMAIN s : s[j].answer # "ok" => j # 1
    BY <1>1, <1>7
  <2>2. \A k \in Key : h[k] # None <=> \E j \in DOMAIN s : k \in s[j].keys /\ s[j].answer # "ok"
    BY DEF Holds
  <2>3. \A k \in Key : h[k] # None <=> \E j \in DOMAIN t : k \in t[j].keys /\ t[j].answer # "ok"
    BY <1>6, <2>1, <2>2
  <2> QED BY <1>5, <2>3 DEF Holds
<1>8. ASSUME Head(s).answer = "error"
      PROVE  (\A k \in Head(s).keys : h[k] # None) /\ Holds(t, Without(h, Head(s).keys))
  <2>1. s[1] \in SentBatch
    BY <1>1
  <2>2. \A k \in Head(s).keys : h[k] # None
    BY <1>1, <1>8, <2>1 DEF Holds, SentBatch
  <2>3. ASSUME NEW k \in Key
        PROVE  Without(h, Head(s).keys)[k] # None
                  <=> \E j \in DOMAIN s : j # 1 /\ k \in s[j].keys /\ s[j].answer # "ok"
    <3>1. CASE k \in s[1].keys
      <4>1. ASSUME NEW j \in DOMAIN s, k \in s[j].keys PROVE j = 1
        BY <1>1, <3>1, <4>1 DEF Holds
      <4>2. Without(h, Head(s).keys)[k] = None
        BY <1>1, <3>1 DEF Without
      <4> QED BY <4>1, <4>2
    <3>2. CASE k \notin s[1].keys
      <4>1. Without(h, Head(s).keys)[k] = h[k]
        BY <1>1, <3>2 DEF Without
      <4> QED BY <1>1, <3>2, <4>1 DEF Holds
    <3> QED BY <3>1, <3>2
  <2> QED BY <1>5, <1>6, <2>2, <2>3 DEF Holds
<1> QED BY <1>4, <1>7, <1>8 DEF t

\* What lists other keys can be appended to the ring map (Queue::upsert).
LEMMA Joined ==
    ASSUME NEW s \in Seq(Key), NEW t \in Seq(Key), IsInjective(s), IsInjective(t),
           Range(s) \cap Range(t) = {}
    PROVE  /\ s \o t \in Seq(Key)
           /\ IsInjective(s \o t)
           /\ Range(s \o t) = Range(s) \cup Range(t)
<1> DEFINE r == s \o t
           m == Len(s)
           n == Len(t)
<1>1. /\ r \in Seq(Key) /\ m \in Nat /\ n \in Nat /\ DOMAIN r = 1..(m + n)
      /\ DOMAIN s = 1..m /\ DOMAIN t = 1..n
      /\ \A i \in 1..(m + n) : r[i] = IF i <= m THEN s[i] ELSE t[i - m]
  OBVIOUS
<1> HIDE DEF r, m, n
<1>2. \A i \in 1..(m + n) : i \in 1..m \/ (i - m \in 1..n /\ ~(i <= m))
  BY <1>1
<1>3. /\ \A i \in 1..m : i \in 1..(m + n) /\ i <= m
      /\ \A i \in 1..n : i + m \in 1..(m + n) /\ ~(i + m <= m) /\ (i + m) - m = i
  BY <1>1
<1>4. /\ \A i \in 1..m : s[i] \in Range(s)
      /\ \A i \in 1..n : t[i] \in Range(t)
  BY <1>1 DEF Range
<1>5. ASSUME NEW i \in 1..(m + n), NEW j \in 1..(m + n), r[i] = r[j] PROVE i = j
  <2>1. CASE i \in 1..m /\ j \in 1..m
    BY <1>1, <1>3, <1>5, <2>1 DEF IsInjective
  <2>2. CASE i \in 1..m /\ j \notin 1..m
    BY <1>1, <1>2, <1>3, <1>4, <1>5, <2>2
  <2>3. CASE i \notin 1..m /\ j \in 1..m
    BY <1>1, <1>2, <1>3, <1>4, <1>5, <2>3
  <2>4. CASE i \notin 1..m /\ j \notin 1..m
    <3>1. t[i - m] = t[j - m] /\ i - m \in 1..n /\ j - m \in 1..n
      BY <1>1, <1>2, <1>5, <2>4
    <3>2. i - m = j - m
      BY <1>1, <3>1 DEF IsInjective
    <3> QED BY <1>1, <3>2
  <2> QED BY <2>1, <2>2, <2>3, <2>4
<1>6. ASSUME NEW x PROVE x \in Range(r) <=> x \in Range(s) \/ x \in Range(t)
  <2>1. ASSUME NEW i \in 1..(m + n) PROVE r[i] \in Range(s) \/ r[i] \in Range(t)
    BY <1>1, <1>2, <1>3, <1>4
  <2>2. ASSUME NEW i \in 1..m PROVE s[i] \in Range(r)
    <3>1. i \in 1..(m + n) /\ r[i] = s[i]
      BY <1>1, <1>3
    <3> QED BY <1>1, <3>1 DEF Range
  <2>3. ASSUME NEW i \in 1..n PROVE t[i] \in Range(r)
    <3>1. i + m \in 1..(m + n) /\ r[i + m] = t[i]
      BY <1>1, <1>3
    <3> QED BY <1>1, <3>1 DEF Range
  <2> QED BY <1>1, <2>1, <2>2, <2>3 DEF Range
<1> QED BY <1>1, <1>5, <1>6 DEF r, IsInjective

\* Upserting a record, or putting one back, lists it (Queue::upsert).
LEMMA UpsertLists ==
    ASSUME TypeOK, StrandedInv, NEW k \in Key, NEW u \in Update, Upsert(k, u)
    PROVE  RingLists'
<1>1. order \in Seq(Key) /\ IsInjective(order) /\ \A x \in Key : x \in Range(order) <=> queued[x] # None
  BY DEF StrandedInv, RingLists
<1>2. /\ order' = IF k \in Range(order) THEN order ELSE Append(order, k)
      /\ queued' = [queued EXCEPT ![k] = Merged(queued[k], u)]
      /\ Merged(queued[k], u) # None
  BY MergedType DEF Upsert, Placed, TypeOK
<1>3. CASE k \in Range(order)
  BY <1>1, <1>2, <1>3 DEF RingLists, TypeOK
<1>4. CASE k \notin Range(order)
  <2>1. /\ order' \in Seq(Key) /\ Len(order') = Len(order) + 1 /\ Len(order) \in Nat
        /\ \A i \in 1..Len(order) : order'[i] = order[i]
        /\ order'[Len(order) + 1] = k
        /\ DOMAIN order = 1..Len(order) /\ DOMAIN order' = 1..(Len(order) + 1)
    BY <1>1, <1>2, <1>4
  <2>2. \A i \in 1..Len(order) : order[i] # k
    BY <1>4, <2>1 DEF Range
  <2>3. IsInjective(order')
    BY <1>1, <2>1, <2>2 DEF IsInjective
  <2>4. \A x : x \in Range(order') <=> x \in Range(order) \/ x = k
    <3>1. 1..(Len(order) + 1) = 1..Len(order) \cup {Len(order) + 1}
      BY <2>1
    <3> QED BY <2>1, <3>1 DEF Range
  <2> QED BY <1>1, <1>2, <2>1, <2>3, <2>4 DEF RingLists, TypeOK
<1> QED BY <1>3, <1>4

\* A flush drains records in batches that hold them (take_batches).
LEMMA TakeHolds ==
    ASSUME TypeOK, StrandedInv, NEW f \in Flusher, Take(f)
    PROVE  RingLists' /\ \A g \in Flusher : Holds(sent'[g], held'[g]) /\ Within(sent'[g])
<1> DEFINE D == Drained
           B == Batches(D)
           s == [i \in DOMAIN B |-> [keys |-> B[i], answer |-> "none"]]
           h == [k \in Key |-> IF k \in D THEN queued[k] ELSE None]
           left == SubSeq(order, Cardinality(D) + 1, Len(order))
<1>1. order \in Seq(Key) /\ IsInjective(order) /\ \A x \in Key : x \in Range(order) <=> queued[x] # None
  BY DEF StrandedInv, RingLists
<1>2. /\ D \subseteq Range(order) /\ Cardinality(D) <= MaxBatches * MaxBatchSize
      /\ left \in Seq(Key) /\ Range(left) = Range(order) \ D /\ IsInjective(left)
  BY <1>1, DrainFacts
<1>3. D \in SUBSET Key
  BY DEF Drained
<1>4. /\ held' = [held EXCEPT ![f] = h]
      /\ queued' = [k \in Key |-> IF k \in D THEN None ELSE queued[k]]
      /\ order' = left
      /\ sent' = [sent EXCEPT ![f] = s]
  BY DEF Take
<1> HIDE DEF left, D
<1>5. RingLists'
  BY <1>1, <1>2, <1>4 DEF RingLists
<1>6. /\ B \in Seq(SUBSET Key) /\ Len(B) <= MaxBatches
      /\ \A i \in DOMAIN B : Cardinality(B[i]) \in 1..MaxBatchSize /\ B[i] \subseteq D
      /\ \A i, j \in DOMAIN B : i # j => B[i] \cap B[j] = {}
  BY <1>2, <1>3, BatchesFacts
<1>7. \A k \in D : \E i \in DOMAIN B : k \in B[i]
  BY <1>3, BatchesCover
<1> HIDE DEF B
<1>8. /\ DOMAIN s = DOMAIN B
      /\ \A i \in DOMAIN B : s[i].keys = B[i] /\ s[i].answer = "none"
  OBVIOUS
<1>9. Len(s) = Len(B)
  BY <1>6
<1> HIDE DEF s
<1>10. Within(s)
  BY <1>6, <1>8, <1>9 DEF Within
<1>11. Holds(s, h)
  <2>1. ASSUME NEW k \in Key
        PROVE  h[k] # None <=> \E i \in DOMAIN s : k \in s[i].keys /\ s[i].answer # "ok"
    <3>1. h[k] # None <=> k \in D
      BY <1>1, <1>2
    <3> HIDE DEF h
    <3> QED BY <1>6, <1>7, <1>8, <3>1
  <2>2. \A i, j \in DOMAIN s : i # j => s[i].keys \cap s[j].keys = {}
    BY <1>6, <1>8
  <2> QED BY <2>1, <2>2 DEF Holds
<1> HIDE DEF h
<1>12. ASSUME NEW g \in Flusher
       PROVE  Holds(sent'[g], held'[g]) /\ Within(sent'[g])
  <2>1. CASE g = f
    <3>1. sent'[g] = s /\ held'[g] = h
      BY <1>4, <2>1 DEF TypeOK
    <3> QED BY <1>10, <1>11, <3>1
  <2>2. CASE g # f
    <3>1. sent'[g] = sent[g] /\ held'[g] = held[g]
      BY <1>4, <2>2 DEF TypeOK
    <3> QED BY <3>1 DEF StrandedInv
  <2> QED BY <2>1, <2>2
<1> QED BY <1>5, <1>12

\* An answer settles a batch or not (flush_to_db).
LEMMA DbAnswersHold ==
    ASSUME TypeOK, StrandedInv, NEW f \in Flusher, DbAnswers(f)
    PROVE  \A g \in Flusher : Holds(sent'[g], held'[g]) /\ Within(sent'[g])
<1>1. PICK i \in DOMAIN sent[f] : DbOk(f, i) \/ DbError(f, i) \/ DbErrorAfterCommit(f, i)
  BY DEF DbAnswers
<1>2. sent[f] \in Seq(SentBatch) /\ Holds(sent[f], held[f]) /\ Within(sent[f])
  BY DEF TypeOK, StrandedInv
<1>3. ASSUME NEW g \in Flusher, g # f
      PROVE  Holds(sent'[g], held'[g]) /\ Within(sent'[g])
  <2>1. sent'[g] = sent[g] /\ held'[g] = held[g]
    BY <1>1, <1>3 DEF DbOk, DbError, DbErrorAfterCommit, Answer, TypeOK
  <2> QED BY <2>1 DEF StrandedInv
<1>4. CASE DbOk(f, i)
  <2>1. sent'[f] = [sent[f] EXCEPT ![i].answer = "ok"] /\ sent[f][i].answer = "none"
    BY <1>4 DEF DbOk, Answer, TypeOK
  <2>2. held'[f] = Without(held[f], sent[f][i].keys)
    BY <1>4 DEF DbOk, Without, TypeOK
  <2>3. Holds(sent'[f], held'[f]) /\ Within(sent'[f])
    BY <1>2, <2>1, <2>2, AnswerHolds
  <2> QED BY <1>3, <2>3
<1>5. CASE DbError(f, i) \/ DbErrorAfterCommit(f, i)
  <2>1. sent'[f] = [sent[f] EXCEPT ![i].answer = "error"] /\ sent[f][i].answer = "none"
    BY <1>5 DEF DbError, DbErrorAfterCommit, Answer, TypeOK
  <2>2. held' = held
    BY <1>5 DEF DbError, DbErrorAfterCommit
  <2>3. Holds(sent'[f], held'[f]) /\ Within(sent'[f])
    BY <1>2, <2>1, <2>2, AnswerHolds
  <2> QED BY <1>3, <2>3
<1> QED BY <1>1, <1>4, <1>5

\* A batch that is gone through is written, or listed again (upsert_batch).
LEMMA GoThroughResultsHold ==
    ASSUME TypeOK, StrandedInv, NEW f \in Flusher, GoThroughResults(f)
    PROVE  RingLists' /\ \A g \in Flusher : Holds(sent'[g], held'[g]) /\ Within(sent'[g])
<1>1. /\ sent' = [sent EXCEPT ![f] = Tail(@)] /\ sent[f] # <<>>
  BY DEF GoThroughResults, Forget, PutBack, Answered
<1>2. /\ sent[f] \in Seq(SentBatch) /\ Holds(sent[f], held[f]) /\ Within(sent[f])
      /\ sent'[f] = Tail(sent[f])
  BY <1>1 DEF TypeOK, StrandedInv
<1>3. ASSUME NEW g \in Flusher, g # f
      PROVE  Holds(sent'[g], held'[g]) /\ Within(sent'[g])
  <2>1. sent'[g] = sent[g] /\ held'[g] = held[g]
    BY <1>1, <1>3 DEF GoThroughResults, Forget, PutBack, TypeOK
  <2> QED BY <2>1 DEF StrandedInv
<1>4. CASE Forget(f)
  <2>1. held' = held /\ Head(sent[f]).answer = "ok" /\ UNCHANGED <<order, queued>>
    BY <1>4 DEF Forget
  <2>2. Holds(sent'[f], held'[f]) /\ Within(sent'[f])
    BY <1>1, <1>2, <2>1, TailHolds
  <2> QED BY <1>3, <2>1, <2>2 DEF StrandedInv, RingLists
<1>5. CASE PutBack(f)
  <2> DEFINE batch == Head(sent[f]).keys
             back == Sorted(batch \ Range(order))
  <2>1. /\ Head(sent[f]).answer = "error"
        /\ queued' = [k \in Key |-> IF k \in batch /\ held[f][k] # None
                                    THEN Merged(queued[k], held[f][k]) ELSE queued[k]]
        /\ order' = order \o back
        /\ held'[f] = Without(held[f], batch)
    BY <1>5 DEF PutBack, Without, TypeOK
  <2>2. batch \in SUBSET Key
    <3>1. Head(sent[f]) \in SentBatch
      BY <1>1, <1>2
    <3> QED BY <3>1 DEF SentBatch
  <2>3. /\ Holds(sent'[f], held'[f]) /\ Within(sent'[f])
        /\ \A k \in batch : held[f][k] # None
    BY <1>1, <1>2, <2>1, TailHolds
  <2>4. back \in Seq(Key) /\ Range(back) = batch \ Range(order) /\ IsInjective(back)
    BY <2>2, SortedFacts
  <2>5. order \in Seq(Key) /\ IsInjective(order) /\ \A x \in Key : x \in Range(order) <=> queued[x] # None
    BY DEF StrandedInv, RingLists
  <2> HIDE DEF back
  <2>6. /\ order' \in Seq(Key) /\ IsInjective(order') /\ Range(order') = Range(order) \cup Range(back)
    BY <2>1, <2>4, <2>5, Joined
  <2>7. ASSUME NEW x \in Key PROVE x \in Range(order') <=> queued'[x] # None
    <3>1. x \in Range(order') <=> x \in Range(order) \/ x \in batch
      BY <2>4, <2>6
    <3>2. CASE x \in batch
      <4>1. held[f][x] \in Update /\ queued[x] \in Record
        BY <2>3, <3>2 DEF TypeOK, Record
      <4> QED BY <2>1, <2>3, <3>1, <3>2, <4>1, MergedType
    <3>3. CASE x \notin batch
      BY <2>1, <2>5, <3>1, <3>3
    <3> QED BY <3>2, <3>3
  <2> QED BY <1>3, <2>3, <2>6, <2>7 DEF RingLists
<1> QED BY <1>4, <1>5 DEF GoThroughResults

\* At the start there is nothing to strand.
LEMMA StrandedInit ==
    ASSUME Init
    PROVE  StrandedInv
<1>1. order = <<>> /\ queued = Nothing /\ main = "serving"
  BY DEF Init
<1>2. RingLists
  <2>1. <<>> \in Seq(Key) /\ Range(<<>>) = {} /\ IsInjective(<<>>)
    BY DEF Range, IsInjective
  <2> QED BY <1>1, <2>1 DEF RingLists, Nothing
<1>3. ASSUME NEW f \in Flusher PROVE Holds(sent[f], held[f]) /\ Within(sent[f]) /\ Idle(f)
  <2>1. sent[f] = <<>> /\ held[f] = Nothing
    BY DEF Init
  <2>2. Len(<<>>) = 0 /\ DOMAIN <<>> = {}
    OBVIOUS
  <2> QED BY <2>1, <2>2, LimitAssumption DEF Holds, Within, Nothing, Idle
<1>4. MainAwaits
  BY <1>3 DEF MainAwaits, Flusher
<1> QED BY <1>1, <1>2, <1>3, <1>4 DEF StrandedInv, OnlyLateLeft

\* A flusher that is idle holds no record.
LEMMA IdleHoldsNothing ==
    ASSUME NEW f \in Flusher, Holds(sent[f], held[f]), Idle(f)
    PROVE  \A k \in Key : held[f][k] = None
BY DEF Holds, Idle

\* A step by which only records that were there remain keeps what is left late.
LEMMA OnlyLateStays ==
    ASSUME OnlyLateLeft, UNCHANGED <<main, flushes, late>>,
           \A k \in Key : HasRecord(k)' => HasRecord(k)
    PROVE  OnlyLateLeft'
BY DEF OnlyLateLeft

\* Main finds the queue empty, and has nothing in a flush of its own
\* (are_not_empty).
LEMMA EmptyButLate ==
    ASSUME TypeOK, StrandedInv, MainFindsEmpty
    PROVE  OnlyLateLeft'
<1>1. Idle("main") /\ Holds(sent["main"], held["main"])
  BY DEF StrandedInv, MainAwaits, MainFindsEmpty, Flusher
<1>2. \A k \in Key : held["main"][k] = None
  BY <1>1, IdleHoldsNothing DEF Flusher
<1>3. \A k \in Key : queued[k] = None
  <2>1. Range(<<>>) = {}
    BY DEF Range
  <2> QED BY <2>1 DEF StrandedInv, RingLists, MainFindsEmpty
<1>4. /\ late' = {k \in Key : held["scheduler"][k] # None}
      /\ UNCHANGED <<queued, held>>
  BY DEF MainFindsEmpty
<1> QED BY <1>2, <1>3, <1>4 DEF OnlyLateLeft, HasRecord, Flusher

\* No step strands a record, whichever flusher takes it.
LEMMA StrandedStep ==
    ASSUME TypeOK, StrandedInv, [Next]_vars
    PROVE  StrandedInv'
<1>1. ASSUME NEW k \in Key, NEW u \in Fresh(made + 1), Upsert(k, u),
             main # "exited", made < MaxUpdates
      PROVE  StrandedInv'
  <2>1. u \in Update
    BY <1>1, UpdateAssumption, LimitAssumption DEF TypeOK
  <2>2. RingLists'
    BY <1>1, <2>1, UpsertLists
  <2>3. sent' = sent /\ held' = held /\ main' = main /\ flushes' = flushes
    BY <1>1 DEF Upsert
  <2>4. OnlyLateLeft'
    <3>1. \A x \in Key : x # k => queued'[x] = queued[x]
      BY <1>1 DEF Upsert, TypeOK
    <3>2. main = "leaving" => late' = late \cup {k}
      BY <1>1 DEF Upsert
    <3> QED BY <1>1, <2>3, <3>1, <3>2 DEF StrandedInv, OnlyLateLeft, HasRecord
  <2> QED BY <2>2, <2>3, <2>4 DEF StrandedInv, MainAwaits, Idle
<1>2. CASE AnnounceUpsert
  BY <1>1, <1>2 DEF AnnounceUpsert
<1>3. CASE ReapUpsert
  BY <1>1, <1>3 DEF ReapUpsert
<1>4. CASE SchedulerFlush
  <2>1. Take("scheduler") /\ UNCHANGED <<main, flushes, late>>
    BY <1>4 DEF SchedulerFlush
  <2>2. RingLists' /\ \A g \in Flusher : Holds(sent'[g], held'[g]) /\ Within(sent'[g])
    BY <2>1, TakeHolds DEF Flusher
  <2>3. sent'["main"] = sent["main"]
    BY <2>1 DEF Take, TypeOK, Flusher
  <2>4. \A k \in Key : HasRecord(k)' => HasRecord(k)
    <3>1. /\ \A k \in Key : queued'[k] \in {None, queued[k]}
          /\ \A k \in Key : held'["scheduler"][k] \in {None, queued[k]}
          /\ held'["main"] = held["main"]
      BY <2>1 DEF Take, TypeOK, Flusher
    <3> QED BY <3>1 DEF HasRecord, Flusher
  <2>5. OnlyLateLeft'
    BY <2>1, <2>4, OnlyLateStays DEF StrandedInv
  <2> QED BY <2>1, <2>2, <2>3, <2>5 DEF StrandedInv, MainAwaits, Idle
<1>5. ASSUME NEW f \in Flusher, DbAnswers(f)
      PROVE  StrandedInv'
  <2>1. /\ UNCHANGED <<main, flushes, late, order, queued>>
        /\ sent[f] # <<>>
        /\ \A g \in Flusher : g # f => sent'[g] = sent[g]
    BY <1>5 DEF DbAnswers, DbOk, DbError, DbErrorAfterCommit, Answer, TypeOK
  <2>2. \A g \in Flusher : Holds(sent'[g], held'[g]) /\ Within(sent'[g])
    BY <1>5, DbAnswersHold
  <2>3. RingLists'
    BY <2>1 DEF StrandedInv, RingLists
  <2>4. MainAwaits'
    BY <2>1 DEF StrandedInv, MainAwaits, Idle, Flusher
  <2>5. \A g \in Flusher, k \in Key : held'[g][k] \in {None, held[g][k]}
    BY <1>5 DEF DbAnswers, DbOk, DbError, DbErrorAfterCommit, TypeOK
  <2>6. \A k \in Key : HasRecord(k)' => HasRecord(k)
    BY <2>1, <2>5 DEF HasRecord
  <2>7. OnlyLateLeft'
    BY <2>1, <2>6, OnlyLateStays DEF StrandedInv
  <2> QED BY <2>2, <2>3, <2>4, <2>7 DEF StrandedInv
<1>6. ASSUME NEW f \in Flusher, GoThroughResults(f)
      PROVE  StrandedInv'
  <2>1. /\ UNCHANGED <<main, flushes, late>> /\ sent[f] # <<>>
        /\ \A g \in Flusher : g # f => sent'[g] = sent[g]
    BY <1>6 DEF GoThroughResults, Forget, PutBack, Answered, TypeOK
  <2>2. RingLists' /\ \A g \in Flusher : Holds(sent'[g], held'[g]) /\ Within(sent'[g])
    BY <1>6, GoThroughResultsHold
  <2>3. MainAwaits'
    BY <2>1 DEF StrandedInv, MainAwaits, Idle, Flusher
  <2>4. \A k \in Key : HasRecord(k)' => HasRecord(k)
    <3>1. CASE Forget(f)
      BY <3>1 DEF Forget, HasRecord
    <3>2. CASE PutBack(f)
      <4>1. \A g \in Flusher, k \in Key : held'[g][k] \in {None, held[g][k]}
        BY <3>2 DEF PutBack, TypeOK
      <4>2. \A k \in Key : queued'[k] = queued[k] \/ held[f][k] # None
        BY <3>2 DEF PutBack, TypeOK
      <4> QED BY <4>1, <4>2 DEF HasRecord
    <3> QED BY <1>6, <3>1, <3>2 DEF GoThroughResults
  <2>5. OnlyLateLeft'
    BY <2>1, <2>4, OnlyLateStays DEF StrandedInv
  <2> QED BY <2>2, <2>3, <2>5 DEF StrandedInv
<1>7. CASE MainFlush
  <2>1. Take("main") /\ main' = "flushing"
    BY <1>7 DEF MainFlush
  <2>2. RingLists' /\ \A g \in Flusher : Holds(sent'[g], held'[g]) /\ Within(sent'[g])
    BY <2>1, TakeHolds DEF Flusher
  <2> QED BY <2>1, <2>2 DEF StrandedInv, MainAwaits, OnlyLateLeft
<1>8. CASE MainFindsEmpty \/ MainGivesUp \/ MainExits
  <2>1. /\ UNCHANGED <<order, queued, held, sent, flushes>>
        /\ main \in {"checking", "leaving"}
    BY <1>8 DEF MainFindsEmpty, MainGivesUp, MainExits
  <2>2. OnlyLateLeft'
    <3>1. CASE MainGivesUp
      BY <2>1, <3>1, LimitAssumption DEF MainGivesUp, OnlyLateLeft, TypeOK
    <3>2. CASE MainExits
      BY <2>1, <3>2 DEF MainExits, StrandedInv, OnlyLateLeft, HasRecord
    <3> QED BY <1>8, <3>1, <3>2, EmptyButLate
  <2> QED BY <2>1, <2>2 DEF StrandedInv, RingLists, MainAwaits, Idle
<1>9. CASE StopServing \/ MainContinues \/ MainFlushed
  <2>1. /\ UNCHANGED <<order, queued, held, sent>> /\ main' \in {"checking", "taking"}
        /\ Idle("main")
    BY <1>9 DEF StopServing, MainContinues, MainFlushed, StrandedInv, MainAwaits
  <2> QED BY <2>1 DEF StrandedInv, RingLists, MainAwaits, Idle, OnlyLateLeft
<1>10. CASE UNCHANGED vars
  BY <1>10 DEF vars, StrandedInv, RingLists, MainAwaits, Idle, OnlyLateLeft, HasRecord
<1> QED BY <1>2, <1>3, <1>4, <1>5, <1>6, <1>7, <1>8, <1>9, <1>10 DEF Next, Flush, MainLoop

\* What the invariant says of a state, in the words of the properties.
LEMMA StrandedShows ==
    ASSUME TypeOK, StrandedInv
    PROVE  NoRecordStranded /\ FlushWithinLimits /\ CleanExitLosesOnlyLate
<1>1. Range(order) = {k \in Key : queued[k] # None}
  <2>1. Range(order) \subseteq Key
    BY DEF StrandedInv, RingLists, Range
  <2> QED BY <2>1 DEF StrandedInv, RingLists
<1>2. ASSUME NEW f \in Flusher
      PROVE  Unwritten(f) = {k \in Key : held[f][k] # None}
  <2>1. Holds(sent[f], held[f]) /\ sent[f] \in Seq(SentBatch)
    BY DEF StrandedInv, TypeOK
  <2>2. \A i \in DOMAIN sent[f] : sent[f][i].keys \subseteq Key
    <3>1. \A i \in DOMAIN sent[f] : sent[f][i] \in SentBatch
      BY <2>1
    <3> QED BY <3>1 DEF SentBatch
  <2>3. \A k : k \in Unwritten(f) <=>
                  \E i \in DOMAIN sent[f] : k \in sent[f][i].keys /\ sent[f][i].answer # "ok"
    BY DEF Unwritten
  <2> QED BY <2>1, <2>2, <2>3 DEF Holds
<1>3. NoRecordStranded
  BY <1>1, <1>2 DEF NoRecordStranded, StrandedInv, RingLists, Holds
<1>4. FlushWithinLimits
  BY DEF FlushWithinLimits, StrandedInv, Within
<1>5. CleanExitLosesOnlyLate
  BY DEF CleanExitLosesOnlyLate, StrandedInv, OnlyLateLeft
<1> QED BY <1>3, <1>4, <1>5

\* The invariant holds in every state: with the types, which it rests on.
THEOREM StrandedAlways == Spec => []StrandedInv
BY StrandedInit, StrandedStep, TypeCorrect, PTL DEF Spec

\* Whatever the flushers and the database do, every queued record is listed
\* once and every drained one is in exactly one batch that is still to be
\* answered or put back (queue.rs, take_batches and flush).
THEOREM NothingStranded == Spec => []NoRecordStranded
BY StrandedShows, StrandedAlways, TypeCorrect, PTL

\* No flush exceeds the limits of the configuration and of the protocol's
\* bindings, and none sends an empty statement (queue.rs, take_batches).
THEOREM WithinLimits == Spec => []FlushWithinLimits
BY StrandedShows, StrandedAlways, TypeCorrect, PTL

\* When main ends before its bound on flushes, only records are lost that the
\* scheduler held when main found the queue empty, or that reap upserted after
\* that: none that main drained, and none that was queued (main.rs, the shutdown
\* loop).
THEOREM CleanExit == Spec => []CleanExitLosesOnlyLate
BY StrandedShows, StrandedAlways, TypeCorrect, PTL
=============================================================================
