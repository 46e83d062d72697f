---------------------------- MODULE TrafficProofs ----------------------------
(***************************************************************************)
(* For every set of users, clients and requests: the ledgers of Traffic    *)
(* agree, a history is active as long as a peer is, and a user whose       *)
(* announces come one after the other is credited no more than was         *)
(* transferred; nor, after any number of crashes between the statements of *)
(* Recovery, more than that and what had not been written.                 *)
(***************************************************************************)
EXTENDS Recovery, FiniteSums

(***************************************************************************)
(* Lemmas about amounts and requests.                                      *)
(***************************************************************************)

\* An amount is two natural numbers, by direction (announce.rs, uploaded and
\* downloaded).
LEMMA AmountsByDirection ==
    ASSUME NEW x \in Amounts, NEW y \in Amounts
    PROVE  /\ \A d \in Direction : x[d] \in Nat
           /\ Plus(x, y) \in Amounts
           /\ \A d \in Direction : Plus(x, y)[d] = x[d] + y[d]
           /\ Nothing \in Amounts
           /\ \A d \in Direction : Nothing[d] = 0
           /\ x # Nothing => \E d \in Direction : x[d] # 0
<1>1. /\ x.uploaded \in Nat /\ x.downloaded \in Nat
      /\ y.uploaded \in Nat /\ y.downloaded \in Nat
  BY DEF Amounts
<1>2. Plus(x, y) \in Amounts
  BY <1>1 DEF Plus, Amounts
<1>3. /\ Plus(x, y).uploaded = x.uploaded + y.uploaded
      /\ Plus(x, y).downloaded = x.downloaded + y.downloaded
  BY DEF Plus
<1>4. x # Nothing => x.uploaded # 0 \/ x.downloaded # 0
  BY DEF Nothing, Amounts
<1> QED BY <1>1, <1>2, <1>3, <1>4 DEF Direction, Nothing, Amounts

\* The difference between two reports is an amount, at most what it takes to get
\* from one to the other (announce.rs, saturating_sub).
LEMMA DifferenceByDirection ==
    ASSUME NEW x \in Amounts, NEW y \in Amounts
    PROVE  /\ Difference(x, y) \in Amounts /\ Change(x, y) \in Amounts
           /\ \A d \in Direction : Difference(x, y)[d] = SaturatingSub(x[d], y[d])
           /\ \A d \in Direction : Change(x, y)[d] \in {0, SaturatingSub(x[d], y[d])}
<1>1. /\ x.uploaded \in Nat /\ x.downloaded \in Nat
      /\ y.uploaded \in Nat /\ y.downloaded \in Nat
  BY DEF Amounts
<1>2. \A m, n \in Nat : SaturatingSub(m, n) \in Nat
  BY DEF SaturatingSub
<1>3. /\ Difference(x, y) \in Amounts
      /\ Difference(x, y).uploaded = SaturatingSub(x.uploaded, y.uploaded)
      /\ Difference(x, y).downloaded = SaturatingSub(x.downloaded, y.downloaded)
  BY <1>1, <1>2 DEF Difference, Amounts
<1>4. \A d \in Direction : Difference(x, y)[d] = SaturatingSub(x[d], y[d])
  BY <1>3 DEF Direction
<1>5. Change(x, y) \in {Nothing, Difference(x, y)}
  BY DEF Change
<1>6. Nothing \in Amounts /\ \A d \in Direction : Nothing[d] = 0
  BY AmountsByDirection
<1> QED BY <1>3, <1>4, <1>5, <1>6

\* What is credited is an amount (announce.rs, the factors in percent).
LEMMA CreditedType ==
    ASSUME NEW x \in Amounts, NEW up \in Nat, NEW down \in Nat
    PROVE  Credited(x, up, down) \in Amounts
<1>1. /\ x.uploaded \in Nat /\ x.downloaded \in Nat
  BY DEF Amounts
<1>2. \A m, n \in Nat : m * n \in Nat
  OBVIOUS
<1>3. \A n \in Nat : n \div 100 \in Nat
  OBVIOUS
<1>4. /\ (up * x.uploaded) \div 100 \in Nat
      /\ (down * x.downloaded) \div 100 \in Nat
  BY <1>1, <1>2, <1>3
<1> QED BY <1>4 DEF Credited, Amounts

\* What is known of a request in each phase of the handler (announce.rs).
LEMMA RequestPhases ==
    ASSUME TypeOK, NEW h \in Handler
    PROVE  /\ announce[h].pc = "locking" => announce[h] \in Locking
           /\ announce[h].pc = "histories" => announce[h] \in Changed
           /\ announce[h].pc \in {"users", "torrents"} => announce[h] \in Telling
           /\ announce[h] # Idle =>
                announce[h].pc \in {"locking", "histories", "users", "torrents"}
           /\ announce[h] # Idle => announce[h].index \in Index
           /\ announce[h] = Idle => announce[h].pc = "idle"
<1>1. announce[h] \in {Idle} \cup Locking \cup Changed \cup Telling
  BY DEF TypeOK, Request
<1>2. /\ Idle.pc = "idle"
      /\ \A a \in Locking : a.pc = "locking" /\ a.index \in Index
      /\ \A a \in Changed : a.pc = "histories" /\ a.index \in Index
      /\ \A a \in Telling : a.pc \in {"users", "torrents"} /\ a.index \in Index
  BY DEF Idle, Locking, Changed, Telling
<1> QED BY <1>1, <1>2

\* A peer that is there is a peer (store/peer.rs).
LEMMA PresentPeer ==
    ASSUME TypeOK, NEW i \in Index, peers[i] # NoPeer
    PROVE  peers[i] \in Peer /\ peers[i].reported \in Amounts
BY DEF TypeOK, Peer

(***************************************************************************)
(* Type correctness.                                                       *)
(***************************************************************************)

\* What the section under the torrents lock does, whichever of its three ways
\* it goes (announce.rs).
LockSection(h) ==
    \E new \in Peer \cup {NoPeer}, change \in Amounts, completion \in {0, 1},
       is_active \in BOOLEAN :
        Replace(h, new, change, completion, is_active)

\* Each way is such a section.
LEMMA LockSections ==
    ASSUME TypeOK, NEW h \in Handler, Stop(h) \/ Modify(h) \/ Insert(h)
    PROVE  announce[h] \in Locking /\ LockSection(h)
<1>1. announce[h] \in Locking /\ announce[h].index \in Index /\ announce[h].reported \in Amounts
  BY RequestPhases DEF Stop, Modify, Insert, Locking
<1>2. Announced(announce[h]) \in Peer
  BY <1>1 DEF Announced, Peer, Locking
<1>3. CASE Stop(h)
  <2>1. OldPeer(h).reported \in Amounts
    BY <1>1, <1>3, PresentPeer DEF Stop, OldPeer
  <2>2. Difference(announce[h].reported, OldPeer(h).reported) \in Amounts
    BY <1>1, <2>1, DifferenceByDirection
  <2>3. ActiveAfterStop(announce[h].index) \in BOOLEAN
    BY DEF ActiveAfterStop
  <2> QED BY <1>1, <1>3, <2>2, <2>3 DEF Stop, LockSection
<1>4. CASE Modify(h)
  <2>1. OldPeer(h).reported \in Amounts
    BY <1>1, <1>4, PresentPeer DEF Modify, OldPeer
  <2>2. Change(announce[h].reported, OldPeer(h).reported) \in Amounts
    BY <1>1, <2>1, DifferenceByDirection
  <2> QED BY <1>1, <1>2, <1>4, <2>2 DEF Modify, LockSection
<1>5. CASE Insert(h)
  <2>1. ChangeAtFirst(announce[h].reported) \in Amounts
    BY DEF ChangeAtFirst, Nothing, Amounts
  <2> QED BY <1>1, <1>2, <1>5, <2>1 DEF Insert, LockSection
<1> QED BY <1>3, <1>4, <1>5

\* The lock section keeps the types.
LEMMA ReplaceType ==
    ASSUME TypeOK, NEW h \in Handler, announce[h] \in Locking, LockSection(h)
    PROVE  TypeOK'
<1>1. PICK new \in Peer \cup {NoPeer}, change \in Amounts, completion \in {0, 1},
           is_active \in BOOLEAN : Replace(h, new, change, completion, is_active)
  BY DEF LockSection
<1>2. announce[h].index \in Index
  BY DEF Locking
<1>3. peers' \in [Index -> Peer \cup {NoPeer}]
  BY <1>1, <1>2 DEF Replace, TypeOK
<1>4. completed' \in Nat
  BY <1>1 DEF Replace, TypeOK
<1>5. announce' \in [Handler -> Request]
  <2>1. PICK up \in UploadFactor, down \in DownloadFactor :
          announce' = [announce EXCEPT ![h] =
              [pc |-> "histories", index |-> announce[h].index, change |-> change,
               completion |-> completion, is_active |-> is_active,
               upload_factor |-> up, download_factor |-> down]]
    BY <1>1 DEF Replace
  <2>2. [pc |-> "histories", index |-> announce[h].index, change |-> change,
         completion |-> completion, is_active |-> is_active,
         upload_factor |-> up, download_factor |-> down] \in Request
    BY <1>2 DEF Request, Changed
  <2> QED BY <2>1, <2>2 DEF TypeOK
<1> QED BY <1>1, <1>3, <1>4, <1>5 DEF Replace, TypeOK

\* Telling the histories queue works a credit out, and hands it over with the
\* change (announce.rs).
LEMMA QueueHistoryDoes ==
    ASSUME TypeOK, NEW h \in Handler, QueueHistory(h)
    PROVE  LET a == announce[h]
               u == a.index[1]
           IN  /\ a \in Changed /\ u \in User
               /\ \E credited \in Amounts :
                    /\ history' = [history EXCEPT ![u] =
                          [is_active |-> a.is_active, actual |-> Plus(history[u].actual, a.change),
                           credited |-> Plus(history[u].credited, credited)]]
                    /\ announce' = [announce EXCEPT ![h] =
                          [pc |-> "users", index |-> a.index, change |-> a.change,
                           completion |-> a.completion, credited |-> credited]]
<1> DEFINE a == announce[h]
           u == a.index[1]
<1>1. a \in Changed /\ a.index \in Index /\ u \in User
  BY RequestPhases DEF QueueHistory, Changed, Index
<1>2. PICK freeleech \in BOOLEAN, featured \in BOOLEAN :
        LET credited == Credited(a.change, IF featured THEN 200 ELSE a.upload_factor,
                                 IF freeleech THEN 0 ELSE a.download_factor)
        IN  /\ history' = [history EXCEPT ![u] =
                  [is_active |-> a.is_active, actual |-> Plus(@.actual, a.change),
                   credited |-> Plus(@.credited, credited)]]
            /\ announce' = [announce EXCEPT ![h] =
                  [pc |-> "users", index |-> a.index, change |-> a.change,
                   completion |-> a.completion, credited |-> credited]]
  BY DEF QueueHistory
<1> DEFINE credited == Credited(a.change, IF featured THEN 200 ELSE a.upload_factor,
                                IF freeleech THEN 0 ELSE a.download_factor)
<1>3. /\ (IF featured THEN 200 ELSE a.upload_factor) \in Nat
      /\ (IF freeleech THEN 0 ELSE a.download_factor) \in Nat
      /\ a.change \in Amounts
  <2>1. a.upload_factor \in UploadFactor /\ a.download_factor \in DownloadFactor
        /\ a.change \in Amounts
    BY <1>1 DEF Changed
  <2>2. (\A n \in UploadFactor : n \in Nat) /\ (\A n \in DownloadFactor : n \in Nat)
    BY SetAssumption
  <2>3. 200 \in Nat /\ 0 \in Nat
    OBVIOUS
  <2> QED BY <2>1, <2>2, <2>3
<1>4. credited \in Amounts
  BY <1>3, CreditedType
<1>5. history[u] \in History
  BY <1>1 DEF TypeOK
<1>6. /\ history' = [history EXCEPT ![u] =
            [is_active |-> a.is_active, actual |-> Plus(history[u].actual, a.change),
             credited |-> Plus(history[u].credited, credited)]]
      /\ announce' = [announce EXCEPT ![h] =
            [pc |-> "users", index |-> a.index, change |-> a.change,
             completion |-> a.completion, credited |-> credited]]
  BY <1>2
<1> HIDE DEF credited
<1> QED BY <1>1, <1>4, <1>6

\* Initially nothing is there and nothing was transferred.
LEMMA TypeInit == Init => TypeOK
<1> SUFFICES ASSUME Init PROVE TypeOK
  OBVIOUS
<1>1. Nothing \in Amounts
  BY DEF Nothing, Amounts
<1>2. history \in [User -> History]
  BY <1>1 DEF Init, History
<1>3. announce \in [Handler -> Request]
  BY DEF Init, Request
<1>4. torrent \in [times_completed : Nat, balance : Int]
  BY DEF Init
<1>5. announces \in 0..MaxAnnounces /\ restarts \in 0..MaxRestarts
  BY NumberAssumption DEF Init
<1> QED BY <1>1, <1>2, <1>3, <1>4, <1>5 DEF Init, TypeOK

\* An announce keeps the types, in each of its steps (announce.rs).
LEMMA AnnounceType ==
    ASSUME TypeOK, NEW h \in Handler, Announce(h)
    PROVE  TypeOK'
<1>1. CASE Receive(h)
  <2>1. PICK i \in Index, stopped \in BOOLEAN, is_seeder \in BOOLEAN :
          /\ announce' = [announce EXCEPT ![h] =
                [pc |-> "locking", index |-> i, stopped |-> stopped, is_seeder |-> is_seeder,
                 reported |-> client[i]]]
          /\ crossed' \in {crossed, crossed \cup {i[1]}}
    BY <1>1 DEF Receive
  <2>2. i[1] \in User /\ client[i] \in Amounts
    BY DEF Index, TypeOK
  <2>3. announce' \in [Handler -> Request]
    BY <2>1, <2>2 DEF TypeOK, Request, Locking
  <2>4. announces' \in 0..MaxAnnounces
    BY <1>1, NumberAssumption DEF Receive, TypeOK
  <2> QED BY <1>1, <2>1, <2>2, <2>3, <2>4 DEF Receive, TypeOK
<1>2. CASE Reject(h)
  BY <1>2 DEF Reject, TypeOK, Request
<1>3. CASE Stop(h) \/ Modify(h) \/ Insert(h)
  BY <1>3, LockSections, ReplaceType
<1>4. CASE QueueHistory(h)
  <2> DEFINE a == announce[h]
             u == a.index[1]
  <2>1. PICK credited \in Amounts :
          /\ history' = [history EXCEPT ![u] =
                [is_active |-> a.is_active, actual |-> Plus(history[u].actual, a.change),
                 credited |-> Plus(history[u].credited, credited)]]
          /\ announce' = [announce EXCEPT ![h] =
                [pc |-> "users", index |-> a.index, change |-> a.change,
                 completion |-> a.completion, credited |-> credited]]
    BY <1>4, QueueHistoryDoes
  <2>2. /\ a \in Changed /\ u \in User /\ a.index \in Index /\ a.change \in Amounts
        /\ a.completion \in {0, 1} /\ a.is_active \in BOOLEAN
    BY <1>4, QueueHistoryDoes DEF Changed
  <2>3. history[u].actual \in Amounts /\ history[u].credited \in Amounts
    BY <2>2 DEF TypeOK, History
  <2>4. Plus(history[u].actual, a.change) \in Amounts
        /\ Plus(history[u].credited, credited) \in Amounts
    BY <2>2, <2>3, AmountsByDirection
  <2>5. history' \in [User -> History]
    BY <2>1, <2>2, <2>4 DEF TypeOK, History
  <2>6. announce' \in [Handler -> Request]
    BY <2>1, <2>2 DEF TypeOK, Request, Telling
  <2> QED BY <1>4, <2>5, <2>6 DEF QueueHistory, TypeOK
<1>5. CASE QueueUser(h)
  <2>1. announce[h] \in Telling /\ announce[h].credited \in Amounts
    BY <1>5, RequestPhases DEF QueueUser, Telling
  <2>2. [announce[h] EXCEPT !.pc = "torrents"] \in Request
    BY <2>1 DEF Telling, Request
  <2>3. \A u \in User : Plus(credit[u], announce[h].credited) \in Amounts
    BY <2>1, AmountsByDirection DEF TypeOK
  <2>4. credit' \in [User -> Amounts]
    BY <1>5, <2>3 DEF QueueUser, TypeOK
  <2> QED BY <1>5, <2>2, <2>4 DEF QueueUser, TypeOK
<1>6. CASE QueueTorrent(h)
  <2>1. announce[h] \in Telling /\ announce[h].completion \in {0, 1}
        /\ announce[h].change.uploaded \in Nat /\ announce[h].change.downloaded \in Nat
    BY <1>6, RequestPhases DEF QueueTorrent, Telling, Amounts
  <2>2. torrent' \in [times_completed : Nat, balance : Int]
    BY <1>6, <2>1 DEF QueueTorrent, TypeOK
  <2> QED BY <1>6, <2>2 DEF QueueTorrent, TypeOK, Request
<1> QED BY <1>1, <1>2, <1>3, <1>4, <1>5, <1>6 DEF Announce

\* Every step keeps the types.
LEMMA TypeStep == TypeOK /\ [Next]_vars => TypeOK'
<1> SUFFICES ASSUME TypeOK, [Next]_vars PROVE TypeOK'
  OBVIOUS
<1>1. ASSUME NEW i \in Index, Transfer(i) PROVE TypeOK'
  <2>1. PICK unit \in Amounts :
          /\ client' = [client EXCEPT ![i] = Plus(@, unit)]
          /\ traffic' = [traffic EXCEPT ![i] = Plus(@, unit)]
    <3>1. \A unit \in {[uploaded |-> 1, downloaded |-> 0], [uploaded |-> 0, downloaded |-> 1]} :
            unit \in Amounts
      BY DEF Amounts
    <3> QED BY <1>1, <3>1 DEF Transfer
  <2>2. Plus(client[i], unit) \in Amounts /\ Plus(traffic[i], unit) \in Amounts
    BY AmountsByDirection DEF TypeOK
  <2> QED BY <1>1, <2>1, <2>2 DEF Transfer, TypeOK
<1>2. ASSUME NEW i \in Index, Restart(i) PROVE TypeOK'
  BY <1>2, NumberAssumption DEF Restart, TypeOK, Nothing, Amounts
<1>3. ASSUME NEW h \in Handler, Announce(h) PROVE TypeOK'
  BY <1>3, AnnounceType
<1>4. CASE Reap
  <2>1. PICK expired \in SUBSET Active, forgotten \in SUBSET Inactive :
          peers' = [i \in Index |->
              IF i \in forgotten THEN NoPeer
              ELSE IF i \in expired THEN [peers[i] EXCEPT !.is_active = FALSE]
              ELSE peers[i]]
    BY <1>4 DEF Reap
  <2>2. \A i \in expired : [peers[i] EXCEPT !.is_active = FALSE] \in Peer
    BY PresentPeer DEF Active, Peer
  <2>3. peers' \in [Index -> Peer \cup {NoPeer}]
    BY <2>1, <2>2 DEF TypeOK
  <2> QED BY <1>4, <2>3 DEF Reap, TypeOK
<1>5. CASE UNCHANGED vars
  BY <1>5 DEF vars, TypeOK
<1> QED BY <1>1, <1>2, <1>3, <1>4, <1>5 DEF Next

\* Every variable of Traffic always has its type, in particular what is credited
\* is never negative (announce.rs).
THEOREM TrafficTypeCorrect == Spec => []TypeOK
<1> QED BY TypeInit, TypeStep, PTL DEF Spec

(***************************************************************************)
(* The ledgers.                                                            *)
(***************************************************************************)

\* What is owed is owed by requests, so that it can be added up (announce.rs).
OwedTyped ==
    /\ \A u \in User, d \in Direction : CreditOwed(u, d) \in [Handler -> Int]
    /\ BalanceOwed \in [Handler -> Int]
    /\ CompletionOwed \in [Handler -> Int]
    /\ Balances \in [User -> Int]

\* That follows from the types.
LEMMA OwedTypes == TypeOK => OwedTyped
<1> SUFFICES ASSUME TypeOK PROVE OwedTyped
  OBVIOUS
<1>1. ASSUME NEW h \in Handler, announce[h].pc \in {"users", "torrents"}
      PROVE  /\ \A d \in Direction : announce[h].credited[d] \in Int
             /\ announce[h].change.uploaded - announce[h].change.downloaded \in Int
             /\ announce[h].completion \in Int
  <2>1. announce[h].credited \in Amounts /\ announce[h].change \in Amounts
        /\ announce[h].completion \in {0, 1}
    BY <1>1, RequestPhases DEF Telling
  <2>2. \A d \in Direction : announce[h].credited[d] \in Nat
    BY <2>1, AmountsByDirection
  <2>3. announce[h].change.uploaded \in Nat /\ announce[h].change.downloaded \in Nat
    BY <2>1 DEF Amounts
  <2> QED BY <2>1, <2>2, <2>3
<1>2. ASSUME NEW h \in Handler, announce[h].pc = "histories"
      PROVE  announce[h].completion \in Int
  BY <1>2, RequestPhases DEF Changed
<1>3. ASSUME NEW u \in User
      PROVE  history[u].actual.uploaded - history[u].actual.downloaded \in Int
  BY DEF TypeOK, History, Amounts
<1>4. ASSUME NEW u \in User, NEW d \in Direction PROVE CreditOwed(u, d) \in [Handler -> Int]
  BY <1>1 DEF CreditOwed
<1>5. BalanceOwed \in [Handler -> Int]
  BY <1>1 DEF BalanceOwed
<1>6. CompletionOwed \in [Handler -> Int]
  BY <1>1, <1>2 DEF CompletionOwed
<1>7. Balances \in [User -> Int]
  BY <1>3 DEF Balances
<1> QED BY <1>4, <1>5, <1>6, <1>7 DEF OwedTyped

\* A step of an announce leaves the other requests as they are (announce.rs).
LEMMA OthersKept ==
    ASSUME TypeOK, NEW h \in Handler, Announce(h)
    PROVE  \A g \in Handler \ {h} : announce'[g] = announce[g]
<1>1. CASE Receive(h)
  BY <1>1 DEF Receive, TypeOK
<1>2. CASE Reject(h)
  BY <1>2 DEF Reject, TypeOK
<1>3. CASE Stop(h) \/ Modify(h) \/ Insert(h)
  <2>1. PICK r : announce' = [announce EXCEPT ![h] = r]
    BY <1>3, LockSections DEF LockSection, Replace
  <2> QED BY <2>1 DEF TypeOK
<1>4. CASE QueueHistory(h)
  <2>1. PICK r : announce' = [announce EXCEPT ![h] = r]
    BY <1>4, QueueHistoryDoes
  <2> QED BY <2>1 DEF TypeOK
<1>5. CASE QueueUser(h)
  BY <1>5 DEF QueueUser, TypeOK
<1>6. CASE QueueTorrent(h)
  BY <1>6 DEF QueueTorrent, TypeOK
<1> QED BY <1>1, <1>2, <1>3, <1>4, <1>5, <1>6 DEF Announce

\* So what is owed changes by what that one request owes (announce.rs).
LEMMA OwedChange ==
    ASSUME TypeOK, TypeOK', NEW h \in Handler, Announce(h)
    PROVE  /\ \A u \in User, d \in Direction :
                SumFunction(CreditOwed(u, d)')
                    = SumFunction(CreditOwed(u, d)) + CreditOwed(u, d)'[h] - CreditOwed(u, d)[h]
           /\ SumFunction(BalanceOwed') = SumFunction(BalanceOwed) + BalanceOwed'[h] - BalanceOwed[h]
           /\ SumFunction(CompletionOwed')
                = SumFunction(CompletionOwed) + CompletionOwed'[h] - CompletionOwed[h]
<1>0. OwedTyped /\ OwedTyped'
  BY OwedTypes, PTL
<1>1. IsFiniteSet(Handler)
  BY SetAssumption
<1>2. \A g \in Handler \ {h} : announce'[g] = announce[g]
  BY OthersKept
<1>3. ASSUME NEW f \in [Handler -> Int], NEW g \in [Handler -> Int],
             \A k \in Handler \ {h} : g[k] = f[k]
      PROVE  SumFunction(g) = SumFunction(f) + g[h] - f[h]
  BY <1>1, <1>3, TotalOfChanged
<1>4. ASSUME NEW u \in User, NEW d \in Direction
      PROVE  SumFunction(CreditOwed(u, d)')
                = SumFunction(CreditOwed(u, d)) + CreditOwed(u, d)'[h] - CreditOwed(u, d)[h]
  <2>1. \A k \in Handler \ {h} : CreditOwed(u, d)'[k] = CreditOwed(u, d)[k]
    BY <1>2 DEF CreditOwed
  <2>2. CreditOwed(u, d) \in [Handler -> Int] /\ CreditOwed(u, d)' \in [Handler -> Int]
    BY <1>0 DEF OwedTyped
  <2> QED BY <1>3, <2>1, <2>2
<1>5. SumFunction(BalanceOwed') = SumFunction(BalanceOwed) + BalanceOwed'[h] - BalanceOwed[h]
  <2>1. \A k \in Handler \ {h} : BalanceOwed'[k] = BalanceOwed[k]
    BY <1>2 DEF BalanceOwed
  <2> QED BY <1>0, <1>3, <2>1 DEF OwedTyped
<1>6. SumFunction(CompletionOwed')
        = SumFunction(CompletionOwed) + CompletionOwed'[h] - CompletionOwed[h]
  <2>1. \A k \in Handler \ {h} : CompletionOwed'[k] = CompletionOwed[k]
    BY <1>2 DEF CompletionOwed
  <2> QED BY <1>0, <1>3, <2>1 DEF OwedTyped
<1> QED BY <1>4, <1>5, <1>6

\* A step that leaves the rows, the counters and the requests leaves what is
\* owed (announce.rs).
LEMMA OwedKept ==
    ASSUME UNCHANGED <<completed, announce, history, credit, torrent>>
    PROVE  /\ \A u \in User, d \in Direction : CreditOwed(u, d)' = CreditOwed(u, d)
           /\ BalanceOwed' = BalanceOwed /\ CompletionOwed' = CompletionOwed
           /\ Balances' = Balances
BY DEF CreditOwed, BalanceOwed, CompletionOwed, Balances

\* The request's own part of the user's ledger balances in every step of the
\* announce (announce.rs).
LEMMA UserLedgerMoves ==
    ASSUME TypeOK, NEW h \in Handler, Announce(h), NEW u \in User, NEW d \in Direction
    PROVE  /\ credit'[u][d] + CreditOwed(u, d)'[h] - history'[u].credited[d]
                = credit[u][d] + CreditOwed(u, d)[h] - history[u].credited[d]
<1>0. /\ credit[u] \in Amounts /\ history[u].credited \in Amounts
      /\ credit[u][d] \in Nat /\ history[u].credited[d] \in Nat
      /\ announce \in [Handler -> Request]
  <2>1. credit[u] \in Amounts /\ history[u].credited \in Amounts
    BY DEF TypeOK, History
  <2>2. credit[u][d] \in Nat /\ history[u].credited[d] \in Nat
    BY <2>1, AmountsByDirection
  <2> QED BY <2>1, <2>2 DEF TypeOK
<1>1. ASSUME UNCHANGED <<credit, history>>, announce[h].pc # "users", announce'[h].pc # "users"
      PROVE  /\ CreditOwed(u, d)[h] = 0 /\ CreditOwed(u, d)'[h] = 0
             /\ credit'[u][d] = credit[u][d] /\ history'[u].credited[d] = history[u].credited[d]
  BY <1>1 DEF CreditOwed
<1>2. CASE Receive(h)
  <2>1. announce[h].pc # "users" /\ announce'[h].pc # "users"
    BY <1>0, <1>2 DEF Receive, Idle
  <2> QED BY <1>0, <1>1, <1>2, <2>1 DEF Receive
<1>3. CASE Reject(h)
  <2>1. announce[h].pc # "users" /\ announce'[h].pc # "users"
    BY <1>0, <1>3 DEF Reject, Idle
  <2> QED BY <1>0, <1>1, <1>3, <2>1 DEF Reject
<1>4. CASE Stop(h) \/ Modify(h) \/ Insert(h)
  <2>1. announce[h] \in Locking /\ LockSection(h)
    BY <1>4, LockSections
  <2>2. announce[h].pc # "users" /\ announce'[h].pc # "users"
    BY <1>0, <2>1 DEF Locking, LockSection, Replace
  <2> QED BY <1>0, <1>1, <2>1, <2>2 DEF LockSection, Replace
<1>5. CASE QueueHistory(h)
  <2> DEFINE a == announce[h]
             v == a.index[1]
  <2>1. PICK credited \in Amounts :
          /\ history' = [history EXCEPT ![v] =
                [is_active |-> a.is_active, actual |-> Plus(history[v].actual, a.change),
                 credited |-> Plus(history[v].credited, credited)]]
          /\ announce' = [announce EXCEPT ![h] =
                [pc |-> "users", index |-> a.index, change |-> a.change,
                 completion |-> a.completion, credited |-> credited]]
    BY <1>5, QueueHistoryDoes
  <2>2. a.pc = "histories" /\ credit' = credit
    BY <1>5 DEF QueueHistory
  <2>3. CreditOwed(u, d)[h] = 0 /\ CreditOwed(u, d)'[h] = IF v = u THEN credited[d] ELSE 0
    BY <1>0, <2>1, <2>2 DEF CreditOwed
  <2>4. history'[u].credited = IF v = u THEN Plus(history[u].credited, credited)
                               ELSE history[u].credited
    BY <2>1 DEF TypeOK
  <2>5. credited[d] \in Nat
        /\ Plus(history[u].credited, credited)[d] = history[u].credited[d] + credited[d]
    BY <1>0, AmountsByDirection
  <2> QED BY <1>0, <2>2, <2>3, <2>4, <2>5
<1>6. CASE QueueUser(h)
  <2> DEFINE a == announce[h]
             v == a.index[1]
  <2>1. a.pc = "users" /\ a \in Telling /\ a.credited \in Amounts
    BY <1>6, RequestPhases DEF QueueUser, Telling
  <2>2. announce'[h].pc = "torrents" /\ history' = history
    BY <1>0, <1>6 DEF QueueUser
  <2>3. CreditOwed(u, d)'[h] = 0 /\ CreditOwed(u, d)[h] = IF v = u THEN a.credited[d] ELSE 0
    BY <2>1, <2>2 DEF CreditOwed
  <2>4. credit'[u] = IF v = u THEN IF a.credited = Nothing THEN credit[u]
                                   ELSE Plus(credit[u], a.credited)
                     ELSE credit[u]
    BY <1>6 DEF QueueUser, TypeOK
  <2>5. /\ a.credited[d] \in Nat
        /\ Plus(credit[u], a.credited)[d] = credit[u][d] + a.credited[d]
        /\ a.credited = Nothing => a.credited[d] = 0
    BY <1>0, <2>1, AmountsByDirection
  <2> HIDE DEF a
  <2>6. credit'[u][d] = IF v = u THEN credit[u][d] + a.credited[d] ELSE credit[u][d]
    BY <1>0, <2>4, <2>5
  <2>7. history'[u].credited[d] = history[u].credited[d]
    BY <2>2
  <2> QED BY <1>0, <2>3, <2>5, <2>6, <2>7
<1>7. CASE QueueTorrent(h)
  <2>1. announce[h].pc # "users" /\ announce'[h].pc # "users"
    BY <1>0, <1>7 DEF QueueTorrent, Idle
  <2> QED BY <1>0, <1>1, <1>7, <2>1 DEF QueueTorrent
<1> QED BY <1>2, <1>3, <1>4, <1>5, <1>6, <1>7 DEF Announce

\* The steps that are no announce leave the ledgers alone: clients transfer and
\* begin anew, and the reaper removes peers (scheduler.rs, reap).
LEMMA OtherSteps ==
    ASSUME [Next]_vars
    PROVE  \/ UNCHANGED <<completed, announce, history, credit, torrent>>
           \/ \E h \in Handler : Announce(h)
<1>1. ASSUME NEW i \in Index, Transfer(i) \/ Restart(i)
      PROVE  UNCHANGED <<completed, announce, history, credit, torrent>>
  BY <1>1 DEF Transfer, Restart
<1>2. CASE Reap
  BY <1>2 DEF Reap
<1>3. CASE UNCHANGED vars
  BY <1>3 DEF vars
<1> QED BY <1>1, <1>2, <1>3 DEF Next

\* Initially nothing is owed and nothing was told.
LEMMA LedgersInit == Init => UserLedgerFollows /\ TorrentLedgerFollows
<1> SUFFICES ASSUME Init PROVE UserLedgerFollows /\ TorrentLedgerFollows
  OBVIOUS
<1>1. OwedTyped
  BY TypeInit, OwedTypes
<1>2. IsFiniteSet(Handler) /\ IsFiniteSet(User)
  BY SetAssumption
<1>3. \A h \in Handler : announce[h].pc = "idle"
  BY DEF Init, Idle
<1>4. ASSUME NEW u \in User, NEW d \in Direction
      PROVE  credit[u][d] + SumFunction(CreditOwed(u, d)) = history[u].credited[d]
  <2>1. \A h \in Handler : CreditOwed(u, d)[h] = 0
    BY <1>3 DEF CreditOwed
  <2>2. CreditOwed(u, d) \in [Handler -> Int]
    BY <1>1 DEF OwedTyped
  <2>3. SumFunction(CreditOwed(u, d)) = 0
    BY <1>2, <2>1, <2>2, TotalOfZeros
  <2>4. credit[u] = Nothing /\ history[u].credited = Nothing
    BY DEF Init
  <2>5. Nothing[d] = 0
    BY DEF Nothing, Direction
  <2> QED BY <2>3, <2>4, <2>5
<1>5. SumFunction(BalanceOwed) = 0
  <2>1. \A h \in Handler : BalanceOwed[h] = 0
    BY <1>3 DEF BalanceOwed
  <2> QED BY <1>1, <1>2, <2>1, TotalOfZeros DEF OwedTyped
<1>6. SumFunction(CompletionOwed) = 0
  <2>1. \A h \in Handler : CompletionOwed[h] = 0
    BY <1>3 DEF CompletionOwed
  <2> QED BY <1>1, <1>2, <2>1, TotalOfZeros DEF OwedTyped
<1>7. SumFunction(Balances) = 0
  <2>1. \A u \in User : Balances[u] = 0
    BY DEF Init, Balances, Nothing
  <2> QED BY <1>1, <1>2, <2>1, TotalOfZeros DEF OwedTyped
<1> QED BY <1>4, <1>5, <1>6, <1>7 DEF Init, UserLedgerFollows, TorrentLedgerFollows

\* Every step keeps the users' ledger.
LEMMA UserLedgerStep == TypeOK /\ TypeOK' /\ UserLedgerFollows /\ [Next]_vars => UserLedgerFollows'
<1> SUFFICES ASSUME TypeOK, TypeOK', UserLedgerFollows, [Next]_vars,
                    NEW u \in User, NEW d \in Direction
             PROVE  credit'[u][d] + SumFunction(CreditOwed(u, d)') = history'[u].credited[d]
  BY DEF UserLedgerFollows
<1>0. credit[u][d] + SumFunction(CreditOwed(u, d)) = history[u].credited[d]
  BY DEF UserLedgerFollows
<1>1. CASE UNCHANGED <<completed, announce, history, credit, torrent>>
  <2>1. CreditOwed(u, d)' = CreditOwed(u, d)
    BY <1>1 DEF CreditOwed
  <2> QED BY <1>0, <1>1, <2>1
<1>2. ASSUME NEW h \in Handler, Announce(h)
      PROVE  credit'[u][d] + SumFunction(CreditOwed(u, d)') = history'[u].credited[d]
  <2>1. SumFunction(CreditOwed(u, d)')
            = SumFunction(CreditOwed(u, d)) + CreditOwed(u, d)'[h] - CreditOwed(u, d)[h]
    BY <1>2, OwedChange
  <2>2. credit'[u][d] + CreditOwed(u, d)'[h] - history'[u].credited[d]
            = credit[u][d] + CreditOwed(u, d)[h] - history[u].credited[d]
    BY <1>2, UserLedgerMoves
  <2>3. OwedTyped /\ OwedTyped'
    BY OwedTypes, PTL
  <2>4. /\ CreditOwed(u, d) \in [Handler -> Int] /\ CreditOwed(u, d)' \in [Handler -> Int]
        /\ IsFiniteSet(Handler)
    BY <2>3, SetAssumption DEF OwedTyped
  <2>5. SumFunction(CreditOwed(u, d)) \in Int /\ CreditOwed(u, d)[h] \in Int
        /\ CreditOwed(u, d)'[h] \in Int
    BY <2>4, TotalType
  <2>6. /\ credit[u] \in Amounts /\ history[u].credited \in Amounts
        /\ credit'[u] \in Amounts /\ history'[u].credited \in Amounts
    BY DEF TypeOK, History
  <2>7. /\ credit[u][d] \in Int /\ history[u].credited[d] \in Int
        /\ credit'[u][d] \in Int /\ history'[u].credited[d] \in Int
    <3>1. \A x \in Amounts : x.uploaded \in Int /\ x.downloaded \in Int
      BY DEF Amounts
    <3>2. \A x \in Amounts : x[d] \in Int
      BY <3>1 DEF Direction
    <3> QED BY <2>6, <3>2
  <2> QED BY <1>0, <2>1, <2>2, <2>5, <2>7
<1> QED BY <1>1, <1>2, OtherSteps

\* What a user's total was told is what the user's histories were credited, but
\* for the requests between the two queues, however many requests of however
\* many users there are (announce.rs, the histories and the users queue).
THEOREM UserLedger == Spec => []UserLedgerFollows
<1>1. TypeOK /\ UserLedgerFollows /\ [Next]_vars => TypeOK' /\ UserLedgerFollows'
  BY TypeStep, UserLedgerStep
<1>2. Init => TypeOK /\ UserLedgerFollows
  BY TypeInit, LedgersInit
<1> QED BY <1>1, <1>2, PTL DEF Spec

\* The request's own part of the torrent's ledger balances in every step of the
\* announce (announce.rs): the torrent's row, what the request owes it, and what
\* the users' histories and the torrent's counter were told.
LEMMA TorrentLedgerMoves ==
    ASSUME TypeOK, TypeOK', NEW h \in Handler, Announce(h)
    PROVE  /\ torrent'.balance + BalanceOwed'[h] - SumFunction(Balances')
                = torrent.balance + BalanceOwed[h] - SumFunction(Balances)
           /\ torrent'.times_completed + CompletionOwed'[h] - completed'
                = torrent.times_completed + CompletionOwed[h] - completed
<1> DEFINE a == announce[h]
           v == a.index[1]
<1>a. OwedTyped /\ OwedTyped'
  BY OwedTypes, PTL
<1>b. IsFiniteSet(User) /\ IsFiniteSet(Handler)
  BY SetAssumption
<1>0. /\ announce \in [Handler -> Request]
      /\ torrent.balance \in Int /\ torrent.times_completed \in Nat /\ completed \in Nat
      /\ SumFunction(Balances) \in Int
      /\ BalanceOwed[h] \in Int /\ CompletionOwed[h] \in Int
  <2>1. /\ announce \in [Handler -> Request]
        /\ torrent.balance \in Int /\ torrent.times_completed \in Nat /\ completed \in Nat
    BY DEF TypeOK
  <2>2. Balances \in [User -> Int]
    BY <1>a DEF OwedTyped
  <2>3. SumFunction(Balances) \in Int
    BY <1>b, <2>2, TotalType
  <2>4. BalanceOwed[h] \in Int /\ CompletionOwed[h] \in Int
    BY <1>a DEF OwedTyped
  <2> QED BY <2>1, <2>3, <2>4
<1>1. ASSUME UNCHANGED <<torrent, history, completed>>,
             BalanceOwed'[h] = BalanceOwed[h], CompletionOwed'[h] = CompletionOwed[h]
      PROVE  /\ torrent'.balance + BalanceOwed'[h] - SumFunction(Balances')
                  = torrent.balance + BalanceOwed[h] - SumFunction(Balances)
             /\ torrent'.times_completed + CompletionOwed'[h] - completed'
                  = torrent.times_completed + CompletionOwed[h] - completed
  <2>1. Balances' = Balances
    BY <1>1 DEF Balances
  <2> QED BY <1>1, <2>1
<1>2. CASE Receive(h)
  <2>1. a.pc = "idle" /\ announce'[h].pc = "locking"
    BY <1>0, <1>2 DEF Receive, Idle
  <2>2. BalanceOwed'[h] = BalanceOwed[h] /\ CompletionOwed'[h] = CompletionOwed[h]
    BY <2>1 DEF BalanceOwed, CompletionOwed
  <2> QED BY <1>1, <1>2, <2>2 DEF Receive
<1>3. CASE Reject(h)
  <2>1. a.pc = "locking" /\ announce'[h].pc = "idle"
    BY <1>0, <1>3 DEF Reject, Idle
  <2>2. BalanceOwed'[h] = BalanceOwed[h] /\ CompletionOwed'[h] = CompletionOwed[h]
    BY <2>1 DEF BalanceOwed, CompletionOwed
  <2> QED BY <1>1, <1>3, <2>2 DEF Reject
<1>4. CASE Stop(h) \/ Modify(h) \/ Insert(h)
  <2>1. a.pc = "locking" /\ LockSection(h)
    BY <1>4, LockSections DEF Locking
  <2>2. PICK new \in Peer \cup {NoPeer}, change \in Amounts, completion \in {0, 1},
             is_active \in BOOLEAN : Replace(h, new, change, completion, is_active)
    BY <2>1 DEF LockSection
  <2>3. /\ announce'[h].pc = "histories" /\ announce'[h].completion = completion
        /\ completed' = completed + completion
    BY <1>0, <2>2 DEF Replace
  <2>4. /\ BalanceOwed[h] = 0 /\ BalanceOwed'[h] = 0
        /\ CompletionOwed[h] = 0 /\ CompletionOwed'[h] = completion
    BY <2>1, <2>3 DEF BalanceOwed, CompletionOwed
  <2>5. Balances' = Balances /\ torrent' = torrent
    BY <2>2 DEF Replace, Balances
  <2> QED BY <1>0, <2>3, <2>4, <2>5
<1>5. CASE QueueHistory(h)
  <2>1. PICK credited \in Amounts :
          /\ history' = [history EXCEPT ![v] =
                [is_active |-> a.is_active, actual |-> Plus(history[v].actual, a.change),
                 credited |-> Plus(history[v].credited, credited)]]
          /\ announce' = [announce EXCEPT ![h] =
                [pc |-> "users", index |-> a.index, change |-> a.change,
                 completion |-> a.completion, credited |-> credited]]
    BY <1>5, QueueHistoryDoes
  <2>2. /\ v \in User /\ a.pc = "histories" /\ a.change \in Amounts
        /\ a.change.uploaded \in Nat /\ a.change.downloaded \in Nat
        /\ torrent' = torrent /\ completed' = completed
    BY <1>5, QueueHistoryDoes DEF QueueHistory, Changed, Amounts
  <2>3. /\ BalanceOwed[h] = 0 /\ CompletionOwed'[h] = CompletionOwed[h]
        /\ BalanceOwed'[h] = a.change.uploaded - a.change.downloaded
    BY <1>0, <2>1, <2>2 DEF BalanceOwed, CompletionOwed
  <2>4. /\ history[v].actual \in Amounts
        /\ history[v].actual.uploaded \in Nat /\ history[v].actual.downloaded \in Nat
    BY <2>2 DEF TypeOK, History, Amounts
  <2>5. /\ history'[v].actual = Plus(history[v].actual, a.change)
        /\ \A w \in User \ {v} : history'[w] = history[w]
    BY <2>1, <2>2 DEF TypeOK
  <2>6. Balances'[v] = Balances[v] + a.change.uploaded - a.change.downloaded
    BY <2>2, <2>4, <2>5 DEF Balances, Plus
  <2>7. \A w \in User \ {v} : Balances'[w] = Balances[w]
    BY <2>5 DEF Balances
  <2>8. Balances \in [User -> Int] /\ Balances' \in [User -> Int]
    BY <1>a DEF OwedTyped
  <2>9. SumFunction(Balances') = SumFunction(Balances) + Balances'[v] - Balances[v]
    BY <1>b, <2>2, <2>7, <2>8, TotalOfChanged
  <2>10. Balances[v] \in Int /\ Balances'[v] \in Int
    BY <2>2, <2>8
  <2>11. torrent'.balance + BalanceOwed'[h] - SumFunction(Balances')
            = torrent.balance + BalanceOwed[h] - SumFunction(Balances)
    BY <1>0, <2>2, <2>3, <2>6, <2>9, <2>10
  <2> QED BY <1>0, <2>2, <2>3, <2>11
<1>6. CASE QueueUser(h)
  <2>1. a.pc = "users" /\ announce'[h] = [a EXCEPT !.pc = "torrents"] /\ a \in Telling
    BY <1>0, <1>6, RequestPhases DEF QueueUser
  <2>2. /\ announce'[h].pc = "torrents" /\ announce'[h].change = a.change
        /\ announce'[h].completion = a.completion
    BY <2>1 DEF Telling
  <2>3. BalanceOwed'[h] = BalanceOwed[h] /\ CompletionOwed'[h] = CompletionOwed[h]
    BY <2>1, <2>2 DEF BalanceOwed, CompletionOwed
  <2> QED BY <1>1, <1>6, <2>3 DEF QueueUser
<1>7. CASE QueueTorrent(h)
  <2>1. /\ a.pc = "torrents" /\ a.completion \in {0, 1} /\ announce'[h].pc = "idle"
        /\ a.change.uploaded \in Nat /\ a.change.downloaded \in Nat
    BY <1>0, <1>7, RequestPhases DEF QueueTorrent, Telling, Amounts, Idle
  <2>2. /\ BalanceOwed[h] = a.change.uploaded - a.change.downloaded /\ BalanceOwed'[h] = 0
        /\ CompletionOwed[h] = a.completion /\ CompletionOwed'[h] = 0
    BY <2>1 DEF BalanceOwed, CompletionOwed
  <2>3. /\ torrent'.balance = torrent.balance + a.change.uploaded - a.change.downloaded
        /\ torrent'.times_completed = torrent.times_completed + a.completion
    BY <1>0, <1>7, <2>1 DEF QueueTorrent, Nothing
  <2>4. Balances' = Balances /\ completed' = completed
    BY <1>7 DEF QueueTorrent, Balances
  <2> HIDE DEF a
  <2> QED BY <1>0, <2>1, <2>2, <2>3, <2>4
<1> QED BY <1>2, <1>3, <1>4, <1>5, <1>6, <1>7 DEF Announce

\* Every step keeps the torrent's ledger.
LEMMA TorrentLedgerStep ==
    TypeOK /\ TypeOK' /\ TorrentLedgerFollows /\ [Next]_vars => TorrentLedgerFollows'
<1> SUFFICES ASSUME TypeOK, TypeOK', TorrentLedgerFollows, [Next]_vars
             PROVE  /\ torrent'.balance + SumFunction(BalanceOwed') = SumFunction(Balances')
                    /\ torrent'.times_completed + SumFunction(CompletionOwed') = completed'
  BY DEF TorrentLedgerFollows
<1>0. /\ torrent.balance + SumFunction(BalanceOwed) = SumFunction(Balances)
      /\ torrent.times_completed + SumFunction(CompletionOwed) = completed
  BY DEF TorrentLedgerFollows
<1>1. CASE UNCHANGED <<completed, announce, history, credit, torrent>>
  BY <1>0, <1>1, OwedKept
<1>2. ASSUME NEW h \in Handler, Announce(h)
      PROVE  /\ torrent'.balance + SumFunction(BalanceOwed') = SumFunction(Balances')
             /\ torrent'.times_completed + SumFunction(CompletionOwed') = completed'
  <2>1. /\ SumFunction(BalanceOwed') = SumFunction(BalanceOwed) + BalanceOwed'[h] - BalanceOwed[h]
        /\ SumFunction(CompletionOwed')
                = SumFunction(CompletionOwed) + CompletionOwed'[h] - CompletionOwed[h]
    BY <1>2, OwedChange
  <2>2. /\ torrent'.balance + BalanceOwed'[h] - SumFunction(Balances')
                = torrent.balance + BalanceOwed[h] - SumFunction(Balances)
        /\ torrent'.times_completed + CompletionOwed'[h] - completed'
                = torrent.times_completed + CompletionOwed[h] - completed
    BY <1>2, TorrentLedgerMoves
  <2>3. OwedTyped /\ OwedTyped'
    BY OwedTypes, PTL
  <2>4. /\ BalanceOwed \in [Handler -> Int] /\ BalanceOwed' \in [Handler -> Int]
        /\ CompletionOwed \in [Handler -> Int] /\ CompletionOwed' \in [Handler -> Int]
        /\ Balances \in [User -> Int] /\ Balances' \in [User -> Int]
        /\ IsFiniteSet(Handler) /\ IsFiniteSet(User)
    BY <2>3, SetAssumption DEF OwedTyped
  <2>5. /\ SumFunction(BalanceOwed) \in Int /\ SumFunction(CompletionOwed) \in Int
        /\ SumFunction(Balances) \in Int /\ SumFunction(Balances') \in Int
    BY <2>4, TotalType
  <2>6. /\ BalanceOwed[h] \in Int /\ BalanceOwed'[h] \in Int
        /\ CompletionOwed[h] \in Int /\ CompletionOwed'[h] \in Int
    BY <2>4
  <2>7. /\ torrent.balance \in Int /\ torrent'.balance \in Int
        /\ torrent.times_completed \in Int /\ torrent'.times_completed \in Int
        /\ completed \in Int /\ completed' \in Int
    BY DEF TypeOK
  <2>8. /\ SumFunction(BalanceOwed') \in Int /\ SumFunction(CompletionOwed') \in Int
    BY <2>4, TotalType
  <2>9. torrent'.balance + SumFunction(BalanceOwed') = SumFunction(Balances')
    <3> DEFINE told == torrent.balance
               told1 == torrent'.balance
               owed == SumFunction(BalanceOwed)
               owed1 == SumFunction(BalanceOwed')
               moved == SumFunction(Balances)
               moved1 == SumFunction(Balances')
               own == BalanceOwed[h]
               own1 == BalanceOwed'[h]
    <3>1. told \in Int /\ told1 \in Int /\ owed \in Int /\ owed1 \in Int /\ moved \in Int
          /\ moved1 \in Int /\ own \in Int /\ own1 \in Int
      BY <2>5, <2>6, <2>7, <2>8
    <3>2. told + owed = moved /\ owed1 = owed + own1 - own
          /\ told1 + own1 - moved1 = told + own - moved
      BY <1>0, <2>1, <2>2
    <3> HIDE DEF told, told1, owed, owed1, moved, moved1, own, own1
    <3>3. told1 + owed1 = moved1
      BY <3>1, <3>2
    <3> QED BY <3>3 DEF told, told1, owed, owed1, moved, moved1, own, own1
  <2>10. torrent'.times_completed + SumFunction(CompletionOwed') = completed'
    <3> DEFINE told == torrent.times_completed
               told1 == torrent'.times_completed
               owed == SumFunction(CompletionOwed)
               owed1 == SumFunction(CompletionOwed')
               moved == completed
               moved1 == completed'
               own == CompletionOwed[h]
               own1 == CompletionOwed'[h]
    <3>1. told \in Int /\ told1 \in Int /\ owed \in Int /\ owed1 \in Int /\ moved \in Int
          /\ moved1 \in Int /\ own \in Int /\ own1 \in Int
      BY <2>5, <2>6, <2>7, <2>8
    <3>2. told + owed = moved /\ owed1 = owed + own1 - own
          /\ told1 + own1 - moved1 = told + own - moved
      BY <1>0, <2>1, <2>2
    <3> HIDE DEF told, told1, owed, owed1, moved, moved1, own, own1
    <3>3. told1 + owed1 = moved1
      BY <3>1, <3>2
    <3> QED BY <3>3 DEF told, told1, owed, owed1, moved, moved1, own, own1
  <2> QED BY <2>9, <2>10
<1> QED BY <1>1, <1>2, OtherSteps

\* The torrent's balance is what its users uploaded less what they downloaded,
\* and its completions are those counted in memory, but for the requests that
\* have not come to the torrents queue (announce.rs).
THEOREM TorrentLedger == Spec => []TorrentLedgerFollows
<1>1. TypeOK /\ TorrentLedgerFollows /\ [Next]_vars => TypeOK' /\ TorrentLedgerFollows'
  BY TypeStep, TorrentLedgerStep
<1>2. Init => TypeOK /\ TorrentLedgerFollows
  BY TypeInit, LedgersInit
<1> QED BY <1>1, <1>2, PTL DEF Spec

(***************************************************************************)
(* Users whose announces come one after the other.                         *)
(***************************************************************************)
Asks(h, u) == announce[h] # Idle /\ announce[h].index[1] = u

\* The requests whose change the histories queue has yet to be told.
Records(h, u) == announce[h].pc = "histories" /\ announce[h].index[1] = u

\* A user who never had two requests in flight has one at most.
OneAtATime ==
    \A u \in User \ crossed : \A g, h \in Handler : Asks(g, u) /\ Asks(h, u) => g = h

\* As long as a peer of the user is active, the row is, or will be when the
\* request that is on its way has told it.
HistoryWillShow ==
    \A u \in User \ crossed :
        (\E i \in Active : i[1] = u) =>
            /\ \A h \in Handler : Records(h, u) => announce[h].is_active
            /\ (\A h \in Handler : ~Records(h, u)) => history[u].is_active

\* A request is about the same peer until it ends, and it becomes no other
\* user's (announce.rs).
LEMMA AskedBefore ==
    ASSUME TypeOK, NEW h \in Handler, Announce(h), ~Receive(h)
    PROVE  /\ crossed' = crossed
           /\ announce[h] # Idle
           /\ announce'[h] # Idle => announce'[h].index = announce[h].index
           /\ \A g \in Handler, u \in User : Asks(g, u)' => Asks(g, u)
<1>0. \A g \in Handler \ {h} : announce'[g] = announce[g]
  BY OthersKept
<1>1. /\ crossed' = crossed /\ announce[h] # Idle
      /\ announce'[h] # Idle => announce'[h].index = announce[h].index
  <2>1. CASE Reject(h)
    BY <2>1 DEF Reject, TypeOK, Idle
  <2>2. CASE Stop(h) \/ Modify(h) \/ Insert(h)
    <3>1. announce[h] \in Locking /\ LockSection(h)
      BY <2>2, LockSections
    <3>2. announce[h] # Idle
      BY <3>1 DEF Locking, Idle
    <3> QED BY <3>1, <3>2 DEF LockSection, Replace, TypeOK
  <2>3. CASE QueueHistory(h)
    <3>1. announce[h] # Idle /\ crossed' = crossed
      BY <2>3 DEF QueueHistory, Idle
    <3>2. PICK credited \in Amounts :
            announce' = [announce EXCEPT ![h] =
                [pc |-> "users", index |-> announce[h].index, change |-> announce[h].change,
                 completion |-> announce[h].completion, credited |-> credited]]
      BY <2>3, QueueHistoryDoes
    <3>3. announce'[h].index = announce[h].index
      BY <3>2 DEF TypeOK
    <3> QED BY <3>1, <3>3
  <2>4. CASE QueueUser(h)
    <3>1. announce[h] # Idle /\ crossed' = crossed /\ announce[h] \in Telling
      BY <2>4, RequestPhases DEF QueueUser, Idle
    <3>2. announce'[h] = [announce[h] EXCEPT !.pc = "torrents"]
      BY <2>4 DEF QueueUser, TypeOK
    <3> QED BY <3>1, <3>2 DEF Telling
  <2>5. CASE QueueTorrent(h)
    BY <2>5 DEF QueueTorrent, TypeOK, Idle
  <2> QED BY <2>1, <2>2, <2>3, <2>4, <2>5 DEF Announce
<1>2. ASSUME NEW g \in Handler, NEW u \in User, Asks(g, u)' PROVE Asks(g, u)
  BY <1>0, <1>1, <1>2 DEF Asks
<1> QED BY <1>1, <1>2

\* A request that arrives is its user's only one, or the user is crossed
\* (announce.rs).
LEMMA AskedNow ==
    ASSUME TypeOK, NEW h \in Handler, Receive(h)
    PROVE  \E i \in Index, stopped \in BOOLEAN, is_seeder \in BOOLEAN :
             /\ announce[h] = Idle
             /\ announce' = [announce EXCEPT ![h] =
                    [pc |-> "locking", index |-> i, stopped |-> stopped, is_seeder |-> is_seeder,
                     reported |-> client[i]]]
             /\ i[1] \in User
             /\ crossed \subseteq crossed'
             /\ \A g \in Handler, u \in User \ crossed' : Asks(g, u)' =>
                    (g = h /\ u = i[1] /\ \A k \in Handler : ~Asks(k, u)) \/ (g # h /\ u # i[1] /\ Asks(g, u))
<1>1. PICK i \in Index, stopped \in BOOLEAN, is_seeder \in BOOLEAN :
        /\ announce' = [announce EXCEPT ![h] =
              [pc |-> "locking", index |-> i, stopped |-> stopped, is_seeder |-> is_seeder,
               reported |-> client[i]]]
        /\ crossed' = IF \E g \in Handler : announce[g] # Idle /\ announce[g].index[1] = i[1]
                      THEN crossed \cup {i[1]} ELSE crossed
  BY DEF Receive
<1>2. i[1] \in User /\ announce[h] = Idle /\ announce \in [Handler -> Request]
  BY DEF Index, Receive, TypeOK
<1>3. \A g \in Handler \ {h} : announce'[g] = announce[g]
  BY <1>1, <1>2
<1>4. announce'[h].index = i
  BY <1>1, <1>2
<1>5. ASSUME NEW g \in Handler, NEW u \in User \ crossed', Asks(g, u)'
      PROVE  (g = h /\ u = i[1] /\ \A k \in Handler : ~Asks(k, u))
                \/ (g # h /\ u # i[1] /\ Asks(g, u))
  <2>1. CASE g = h
    <3>1. u = i[1]
      BY <1>4, <1>5, <2>1 DEF Asks
    <3>2. \A k \in Handler : ~Asks(k, u)
      BY <1>1, <3>1 DEF Asks
    <3> QED BY <2>1, <3>1, <3>2
  <2>2. CASE g # h
    <3>1. Asks(g, u)
      BY <1>3, <1>5, <2>2 DEF Asks
    <3>2. u # i[1]
      BY <1>1, <3>1 DEF Asks
    <3> QED BY <2>2, <3>1, <3>2
  <2> QED BY <2>1, <2>2
<1> QED BY <1>1, <1>2, <1>5

\* A user has one request at most until two of them cross.
LEMMA OneStep == TypeOK /\ OneAtATime /\ [Next]_vars => OneAtATime'
<1> SUFFICES ASSUME TypeOK, OneAtATime, [Next]_vars PROVE OneAtATime'
  OBVIOUS
<1>1. CASE UNCHANGED <<announce, crossed>>
  BY <1>1 DEF OneAtATime, Asks
<1>2. ASSUME NEW h \in Handler, Announce(h), ~Receive(h) PROVE OneAtATime'
  BY <1>2, AskedBefore DEF OneAtATime
<1>3. ASSUME NEW h \in Handler, Receive(h) PROVE OneAtATime'
  <2>1. PICK i \in Index :
          /\ crossed \subseteq crossed'
          /\ \A g \in Handler, u \in User \ crossed' : Asks(g, u)' =>
                (g = h /\ u = i[1] /\ \A k \in Handler : ~Asks(k, u))
                    \/ (g # h /\ u # i[1] /\ Asks(g, u))
    BY <1>3, AskedNow
  <2> QED BY <2>1 DEF OneAtATime
<1>4. (\E h \in Handler : Announce(h)) \/ UNCHANGED <<announce, crossed>>
  <2>1. ASSUME NEW i \in Index, Transfer(i) \/ Restart(i) PROVE UNCHANGED <<announce, crossed>>
    BY <2>1 DEF Transfer, Restart
  <2>2. CASE Reap
    BY <2>2 DEF Reap
  <2>3. CASE UNCHANGED vars
    BY <2>3 DEF vars
  <2> QED BY <2>1, <2>2, <2>3 DEF Next
<1> QED BY <1>1, <1>2, <1>3, <1>4

\* A request that records is one of its user's.
LEMMA RecordsAsks ==
    ASSUME NEW h \in Handler, NEW u \in User, Records(h, u)
    PROVE  Asks(h, u)
BY DEF Records, Asks, Idle

\* What is left as it is for a user keeps showing the user as active: the row,
\* the requests that record, and peers of which none becomes active.
LEMMA ShowKept ==
    ASSUME TypeOK, HistoryWillShow, NEW u \in User \ crossed,
           \A i \in Active' : i[1] = u => i \in Active,
           history'[u].is_active = history[u].is_active,
           \A h \in Handler : Records(h, u)' = Records(h, u),
           \A h \in Handler : Records(h, u) => announce'[h].is_active = announce[h].is_active
    PROVE  (\E i \in Active' : i[1] = u) =>
              /\ \A h \in Handler : Records(h, u)' => announce'[h].is_active
              /\ (\A h \in Handler : ~Records(h, u)') => history'[u].is_active
BY DEF HistoryWillShow

\* The section under the torrents lock announces the peer as active, or knows
\* whether another peer of the user's is (announce.rs, is_active_after_stop).
LEMMA ShowAtLock ==
    ASSUME TypeOK, TypeOK', OneAtATime, HistoryWillShow,
           NEW h \in Handler, Stop(h) \/ Modify(h) \/ Insert(h), NEW u \in User \ crossed
    PROVE  (\E i \in Active' : i[1] = u) =>
              /\ \A g \in Handler : Records(g, u)' => announce'[g].is_active
              /\ (\A g \in Handler : ~Records(g, u)') => history'[u].is_active
<1> DEFINE a == announce[h]
<1>1. a \in Locking /\ a.pc = "locking" /\ a.index \in Index /\ Announce(h) /\ ~Receive(h)
      /\ Asks(h, a.index[1]) /\ a # Idle
  <2>1. a \in Locking /\ Announce(h)
    BY LockSections DEF Announce
  <2>2. a.pc = "locking" /\ a.index \in Index /\ a # Idle
    BY <2>1 DEF Locking, Idle
  <2> QED BY <2>1, <2>2 DEF Receive, Asks
<1>2. PICK new, change, completion, is_active :
        /\ Replace(h, new, change, completion, is_active)
        /\ (is_active = ActiveAfterStop(a.index) /\ new = NoPeer) \/ is_active = TRUE
  BY DEF Stop, Modify, Insert
<1>3. /\ peers' = [peers EXCEPT ![a.index] = new] /\ history' = history
      /\ announce'[h].pc = "histories" /\ announce'[h].is_active = is_active
      /\ announce'[h].index = a.index
  BY <1>2 DEF Replace, TypeOK
<1>4. \A g \in Handler \ {h} : announce'[g] = announce[g]
  BY <1>1, OthersKept
<1>5. \A i \in Index \ {a.index} : peers'[i] = peers[i]
  BY <1>3 DEF TypeOK
<1>6. CASE a.index[1] = u
  <2>1. Records(h, u)'
    BY <1>3, <1>6 DEF Records
  <2>2. \A g \in Handler \ {h} : ~Records(g, u)'
    <3>1. \A g \in Handler \ {h} : ~Asks(g, u)
      BY <1>1, <1>6 DEF OneAtATime
    <3> QED BY <1>4, <3>1, RecordsAsks DEF Records
  <2>3. ASSUME NEW i \in Active', i[1] = u PROVE is_active
    <3>1. CASE is_active = TRUE
      BY <3>1
    <3>2. CASE is_active = ActiveAfterStop(a.index) /\ new = NoPeer
      <4>1. i # a.index /\ i \in Index /\ peers[i] # NoPeer /\ peers[i].is_active
        BY <1>1, <1>3, <1>5, <2>3, <3>2 DEF Active, TypeOK
      <4> QED BY <1>6, <2>3, <3>2, <4>1 DEF ActiveAfterStop
    <3> QED BY <1>2, <3>1, <3>2
  <2> QED BY <1>3, <2>1, <2>2, <2>3
<1>7. CASE a.index[1] # u
  <2>1. \A i \in Active' : i[1] = u => i \in Active
    BY <1>5, <1>7 DEF Active
  <2>2. \A g \in Handler : Records(g, u)' = Records(g, u)
    BY <1>1, <1>3, <1>4, <1>7 DEF Records
  <2>3. \A g \in Handler : Records(g, u) => announce'[g].is_active = announce[g].is_active
    BY <1>1, <1>4 DEF Records
  <2> QED BY <1>3, <2>1, <2>2, <2>3, ShowKept
<1> QED BY <1>6, <1>7

\* Telling the histories queue makes the row what the request knew.
LEMMA ShowAtQueue ==
    ASSUME TypeOK, TypeOK', OneAtATime, HistoryWillShow,
           NEW h \in Handler, QueueHistory(h), NEW u \in User \ crossed
    PROVE  (\E i \in Active' : i[1] = u) =>
              /\ \A g \in Handler : Records(g, u)' => announce'[g].is_active
              /\ (\A g \in Handler : ~Records(g, u)') => history'[u].is_active
<1> DEFINE a == announce[h]
           v == a.index[1]
<1>1. /\ a.pc = "histories" /\ Announce(h) /\ ~Receive(h) /\ Records(h, v) /\ v \in User
      /\ peers' = peers
  <2>1. a.pc = "histories" /\ peers' = peers
    BY DEF QueueHistory
  <2> QED BY <2>1, QueueHistoryDoes DEF Announce, Receive, Records, Idle
<1>2. PICK credited \in Amounts :
        /\ history' = [history EXCEPT ![v] =
              [is_active |-> a.is_active, actual |-> Plus(history[v].actual, a.change),
               credited |-> Plus(history[v].credited, credited)]]
        /\ announce' = [announce EXCEPT ![h] =
              [pc |-> "users", index |-> a.index, change |-> a.change,
               completion |-> a.completion, credited |-> credited]]
  BY QueueHistoryDoes
<1>3. announce'[h].pc = "users" /\ history'[v].is_active = a.is_active
      /\ \A w \in User \ {v} : history'[w] = history[w]
  BY <1>1, <1>2 DEF TypeOK
<1>4. \A g \in Handler \ {h} : announce'[g] = announce[g]
  BY <1>1, OthersKept
<1>5. Active' = Active
  BY <1>1 DEF Active
<1>6. CASE v = u
  <2>1. \A g \in Handler : ~Records(g, u)'
    <3>1. \A g \in Handler \ {h} : ~Records(g, u)
      BY <1>1, <1>6, RecordsAsks DEF OneAtATime
    <3> QED BY <1>3, <1>4, <3>1 DEF Records
  <2>2. (\E i \in Active : i[1] = u) => a.is_active
    BY <1>1, <1>6 DEF HistoryWillShow
  <2> QED BY <1>3, <1>5, <1>6, <2>1, <2>2
<1>7. CASE v # u
  <2>1. \A g \in Handler : Records(g, u)' = Records(g, u)
    BY <1>1, <1>3, <1>4, <1>7 DEF Records
  <2>2. \A g \in Handler : Records(g, u) => announce'[g].is_active = announce[g].is_active
    BY <1>4, <1>7 DEF Records
  <2> QED BY <1>3, <1>5, <1>7, <2>1, <2>2, ShowKept
<1> QED BY <1>6, <1>7

\* Every step keeps the rows of users whose peers are active showing it.
LEMMA ShowStep ==
    TypeOK /\ TypeOK' /\ OneAtATime /\ HistoryWillShow /\ [Next]_vars => HistoryWillShow'
<1> SUFFICES ASSUME TypeOK, TypeOK', OneAtATime, HistoryWillShow, [Next]_vars,
                    NEW u \in User \ crossed'
             PROVE  (\E i \in Active' : i[1] = u) =>
                       /\ \A g \in Handler : Records(g, u)' => announce'[g].is_active
                       /\ (\A g \in Handler : ~Records(g, u)') => history'[u].is_active
  BY DEF HistoryWillShow
<1>1. CASE UNCHANGED <<announce, history, crossed>> /\ Active' \subseteq Active
  BY <1>1, ShowKept DEF Records
<1>2. ASSUME NEW h \in Handler, UNCHANGED <<peers, history>>,
             \A g \in Handler \ {h} : announce'[g] = announce[g],
             announce[h].pc # "histories", announce'[h].pc # "histories", u \notin crossed
      PROVE  (\E i \in Active' : i[1] = u) =>
                /\ \A g \in Handler : Records(g, u)' => announce'[g].is_active
                /\ (\A g \in Handler : ~Records(g, u)') => history'[u].is_active
  <2>1. Active' = Active
    BY <1>2 DEF Active
  <2>2. \A g \in Handler : Records(g, u)' = Records(g, u)
    BY <1>2 DEF Records
  <2>3. \A g \in Handler : Records(g, u) => announce'[g].is_active = announce[g].is_active
    BY <1>2 DEF Records
  <2> QED BY <1>2, <2>1, <2>2, <2>3, ShowKept
<1>3. ASSUME NEW h \in Handler, Announce(h)
      PROVE  (\E i \in Active' : i[1] = u) =>
                /\ \A g \in Handler : Records(g, u)' => announce'[g].is_active
                /\ (\A g \in Handler : ~Records(g, u)') => history'[u].is_active
  <2>0. \A g \in Handler \ {h} : announce'[g] = announce[g]
    BY <1>3, OthersKept
  <2>1. u \notin crossed
    BY <1>3, AskedBefore, AskedNow
  <2>2. CASE Stop(h) \/ Modify(h) \/ Insert(h)
    BY <2>1, <2>2, ShowAtLock
  <2>3. CASE QueueHistory(h)
    BY <2>1, <2>3, ShowAtQueue
  <2>4. CASE Receive(h) \/ Reject(h) \/ QueueUser(h) \/ QueueTorrent(h)
    <3>1. UNCHANGED <<peers, history>>
      BY <2>4 DEF Receive, Reject, QueueUser, QueueTorrent
    <3>2. announce[h].pc # "histories" /\ announce'[h].pc # "histories"
      <4>1. announce \in [Handler -> Request]
        BY DEF TypeOK
      <4>2. CASE Receive(h)
        BY <4>1, <4>2 DEF Receive, Idle
      <4>3. CASE Reject(h)
        BY <4>1, <4>3 DEF Reject, Idle
      <4>4. CASE QueueUser(h)
        <5>1. announce[h] \in Telling
          BY <4>4, RequestPhases DEF QueueUser
        <5> QED BY <4>1, <4>4, <5>1 DEF QueueUser, Telling
      <4>5. CASE QueueTorrent(h)
        BY <4>1, <4>5 DEF QueueTorrent, Idle
      <4> QED BY <2>4, <4>2, <4>3, <4>4, <4>5
    <3> QED BY <1>2, <2>0, <2>1, <3>1, <3>2
  <2> QED BY <1>3, <2>2, <2>3, <2>4 DEF Announce
<1>4. CASE Reap
  <2>1. PICK expired \in SUBSET Active, forgotten \in SUBSET Inactive :
          peers' = [i \in Index |->
              IF i \in forgotten THEN NoPeer
              ELSE IF i \in expired THEN [peers[i] EXCEPT !.is_active = FALSE]
              ELSE peers[i]]
    BY <1>4 DEF Reap
  <2>2. \A i \in expired : [peers[i] EXCEPT !.is_active = FALSE].is_active = FALSE
    BY PresentPeer DEF Active, Peer
  <2>3. Active' \subseteq Active
    BY <2>1, <2>2 DEF Active
  <2> QED BY <1>1, <1>4, <2>3 DEF Reap
<1>5. ASSUME NEW i \in Index, Transfer(i) \/ Restart(i)
      PROVE  UNCHANGED <<announce, history, crossed>> /\ Active' \subseteq Active
  BY <1>5 DEF Transfer, Restart, Active
<1>6. CASE UNCHANGED vars
  BY <1>1, <1>6 DEF vars, Active
<1> QED BY <1>1, <1>3, <1>4, <1>5, <1>6 DEF Next

\* The history of a user whose announces come one after the other is active as
\* long as a peer of the user's is, however many peers, reaped or stopped, and
\* whatever other users do (announce.rs, is_active_after_stop).
THEOREM HistoryActive == Spec => []HistoryShowsActive
<1>1. Init => TypeOK /\ OneAtATime /\ HistoryWillShow
  <2>1. Init => OneAtATime /\ HistoryWillShow
    BY DEF Init, OneAtATime, HistoryWillShow, Asks, Active
  <2> QED BY <2>1, TypeInit
<1>2. TypeOK /\ OneAtATime /\ HistoryWillShow /\ [Next]_vars
        => TypeOK' /\ OneAtATime' /\ HistoryWillShow'
  BY TypeStep, OneStep, ShowStep
<1>3. TypeOK /\ HistoryWillShow => HistoryShowsActive
  <2> SUFFICES ASSUME TypeOK, HistoryWillShow, NEW u \in User \ crossed,
                      \E i \in Active : i[1] = u,
                      \A h \in Handler : announce[h] # Idle => announce[h].index[1] # u
               PROVE  history[u].is_active
    BY DEF HistoryShowsActive
  <2>1. \A h \in Handler : ~Records(h, u)
    BY RecordsAsks DEF Asks
  <2> QED BY <2>1 DEF HistoryWillShow
<1> QED BY <1>1, <1>2, <1>3, PTL DEF Spec

(***************************************************************************)
(* What is credited was transferred.                                       *)
(***************************************************************************)
LockingOn(i) == {h \in Handler : announce[h].pc = "locking" /\ announce[h].index = i}

\* What a report of n would still have client i credited.
Since(n, i, d) == IF peers[i] = NoPeer THEN 0 ELSE SaturatingSub(n, peers[i].reported[d])

\* What client i has counted that no section under the lock has yet seen: since
\* the report on its way, if there is one, and that one's since the last.
Ahead(i, d) ==
    IF LockingOn(i) = {} THEN Since(client[i][d], i, d)
    ELSE LET n == announce[CHOOSE h \in LockingOn(i) : TRUE].reported[d]
         IN  SaturatingSub(client[i][d], n) + Since(n, i, d)

Aheads(u, d) == [i \in {u} \X PeerId |-> Ahead(i, d)]

\* What the histories queue has yet to be told.
Pending(u, d) == [h \in Handler |-> IF Records(h, u) THEN announce[h].change[d] ELSE 0]

\* What was credited, what is about to be and what could be next are covered by
\* what was transferred.
Covered(u, d) ==
    history[u].actual[d] + SumFunction(Pending(u, d)) + SumFunction(Aheads(u, d))
        <= TrafficOf(u, d)

AllCovered == \A u \in User \ crossed, d \in Direction : Covered(u, d)

\* The subtraction that does not go below zero: over a detour it is no less.
LEMMA SaturatingFacts ==
    ASSUME NEW m \in Nat, NEW n \in Nat, NEW k \in Nat
    PROVE  /\ SaturatingSub(m, n) \in Nat
           /\ SaturatingSub(m, m) = 0 /\ SaturatingSub(0, m) = 0
           /\ SaturatingSub(m, k) <= SaturatingSub(m, n) + SaturatingSub(n, k)
           /\ SaturatingSub(m + k, n) <= SaturatingSub(m, n) + k
BY DEF SaturatingSub

\* The counters compared are natural numbers (announce.rs).
LEMMA CountersTyped ==
    ASSUME TypeOK, NEW i \in Index, NEW d \in Direction
    PROVE  /\ client[i][d] \in Nat /\ traffic[i][d] \in Nat
           /\ peers[i] # NoPeer => peers[i].reported[d] \in Nat
           /\ \A h \in LockingOn(i) : announce[h].reported[d] \in Nat
           /\ \A n \in Nat : Since(n, i, d) \in Nat
<1>0. \A x \in Amounts : x[d] \in Nat
  <2>1. \A x \in Amounts : x.uploaded \in Nat /\ x.downloaded \in Nat
    BY DEF Amounts
  <2> QED BY <2>1 DEF Direction
<1>1. client[i][d] \in Nat /\ traffic[i][d] \in Nat
  BY <1>0 DEF TypeOK
<1>2. peers[i] # NoPeer => peers[i].reported[d] \in Nat
  BY <1>0, PresentPeer
<1>3. \A h \in LockingOn(i) : announce[h].reported[d] \in Nat
  BY <1>0, RequestPhases DEF LockingOn, Locking
<1>4. \A n \in Nat : Since(n, i, d) \in Nat
  BY <1>2, SaturatingFacts DEF Since
<1> QED BY <1>1, <1>2, <1>3, <1>4

\* So what is ahead is a natural number.
LEMMA AheadType ==
    ASSUME TypeOK, NEW i \in Index, NEW d \in Direction
    PROVE  Ahead(i, d) \in Nat
<1>1. CASE LockingOn(i) = {}
  BY <1>1, CountersTyped DEF Ahead
<1>2. CASE LockingOn(i) # {}
  <2> DEFINE h == CHOOSE h \in LockingOn(i) : TRUE
  <2>1. h \in LockingOn(i)
    BY <1>2
  <2>2. announce[h].reported[d] \in Nat /\ client[i][d] \in Nat
    BY <2>1, CountersTyped
  <2>3. /\ SaturatingSub(client[i][d], announce[h].reported[d]) \in Nat
        /\ Since(announce[h].reported[d], i, d) \in Nat
    BY <2>2, CountersTyped, SaturatingFacts
  <2>4. Ahead(i, d) = SaturatingSub(client[i][d], announce[h].reported[d])
                        + Since(announce[h].reported[d], i, d)
    BY <1>2 DEF Ahead
  <2> HIDE DEF h
  <2> QED BY <2>3, <2>4
<1> QED BY <1>1, <1>2

\* What the sums add up are integers.
CoverTyped ==
    \A u \in User, d \in Direction :
        /\ Aheads(u, d) \in [{u} \X PeerId -> Int]
        /\ Pending(u, d) \in [Handler -> Int]
        /\ [i \in {u} \X PeerId |-> traffic[i][d]] \in [{u} \X PeerId -> Int]
        /\ history[u].actual[d] \in Int

\* That follows from the types.
LEMMA CoverTypes == TypeOK => CoverTyped
<1> SUFFICES ASSUME TypeOK, NEW u \in User, NEW d \in Direction
             PROVE  /\ Aheads(u, d) \in [{u} \X PeerId -> Int]
                    /\ Pending(u, d) \in [Handler -> Int]
                    /\ [i \in {u} \X PeerId |-> traffic[i][d]] \in [{u} \X PeerId -> Int]
                    /\ history[u].actual[d] \in Int
  BY DEF CoverTyped
<1>0. \A x \in Amounts : x[d] \in Int
  <2>1. \A x \in Amounts : x.uploaded \in Int /\ x.downloaded \in Int
    BY DEF Amounts
  <2> QED BY <2>1 DEF Direction
<1>1. {u} \X PeerId \subseteq Index
  BY DEF Index
<1>2. \A i \in {u} \X PeerId : Ahead(i, d) \in Int /\ traffic[i][d] \in Int
  <2>1. \A i \in Index : Ahead(i, d) \in Int /\ traffic[i][d] \in Int
    BY AheadType, CountersTyped
  <2> QED BY <1>1, <2>1
<1>3. \A h \in Handler : Records(h, u) => announce[h].change[d] \in Int
  BY <1>0, RequestPhases DEF Records, Changed
<1>4. history[u].actual[d] \in Int
  BY <1>0 DEF TypeOK, History
<1> QED BY <1>2, <1>3, <1>4 DEF Aheads, Pending

\* And so are the sums, over finite sets.
CoverSummed ==
    \A u \in User, d \in Direction :
        /\ SumFunction(Pending(u, d)) \in Int
        /\ SumFunction(Aheads(u, d)) \in Int
        /\ TrafficOf(u, d) \in Int

\* The clients of a user are finitely many.
LEMMA ClientsFinite ==
    ASSUME NEW u \in User
    PROVE  IsFiniteSet({u} \X PeerId) /\ IsFiniteSet(Handler) /\ {u} \X PeerId \subseteq Index
BY SetAssumption, FS_Singleton, FS_Product DEF Index

\* That follows too.
LEMMA CoverSums == CoverTyped => CoverSummed
BY ClientsFinite, TotalType DEF CoverTyped, CoverSummed, TrafficOf

\* A step that only makes what is ahead less leaves it covered.
LEMMA StillCovered ==
    ASSUME TypeOK, TypeOK', NEW u \in User, NEW d \in Direction, Covered(u, d),
           traffic' = traffic, history'[u].actual = history[u].actual,
           Pending(u, d)' = Pending(u, d),
           \A i \in {u} \X PeerId : Ahead(i, d)' <= Ahead(i, d)
    PROVE  Covered(u, d)'
<1>1. CoverTyped /\ CoverTyped' /\ CoverSummed /\ CoverSummed'
  BY CoverTypes, CoverSums, PTL
<1>2. /\ Aheads(u, d) \in [{u} \X PeerId -> Int] /\ Aheads(u, d)' \in [{u} \X PeerId -> Int]
  BY <1>1 DEF CoverTyped
<1>3. \A i \in {u} \X PeerId : Aheads(u, d)'[i] <= Aheads(u, d)[i]
  BY DEF Aheads
<1>4. SumFunction(Aheads(u, d)') <= SumFunction(Aheads(u, d))
  BY <1>2, <1>3, ClientsFinite, TotalMonotone
<1>5. TrafficOf(u, d)' = TrafficOf(u, d)
  BY DEF TrafficOf
<1>6. /\ history[u].actual[d] \in Int /\ SumFunction(Pending(u, d)) \in Int
      /\ SumFunction(Aheads(u, d)) \in Int /\ SumFunction(Aheads(u, d)') \in Int
      /\ TrafficOf(u, d) \in Int
  BY <1>1 DEF CoverTyped, CoverSummed
<1>7. history[u].actual[d] + SumFunction(Pending(u, d)) + SumFunction(Aheads(u, d))
        <= TrafficOf(u, d)
  BY DEF Covered
<1>8. history[u].actual[d] + SumFunction(Pending(u, d)) + SumFunction(Aheads(u, d)')
        <= TrafficOf(u, d)
  <2> DEFINE told == history[u].actual[d]
             pending == SumFunction(Pending(u, d))
             ahead == SumFunction(Aheads(u, d))
             ahead1 == SumFunction(Aheads(u, d)')
             total == TrafficOf(u, d)
  <2>1. told \in Int /\ pending \in Int /\ ahead \in Int /\ ahead1 \in Int /\ total \in Int
        /\ ahead1 <= ahead /\ told + pending + ahead <= total
    BY <1>4, <1>6, <1>7
  <2> HIDE DEF told, pending, ahead, ahead1, total
  <2>2. told + pending + ahead1 <= total
    BY <2>1
  <2> QED BY <2>2 DEF told, pending, ahead, ahead1, total
<1> QED BY <1>5, <1>8 DEF Covered

\* What is ahead of a client depends on its counter, its peer and the request on
\* its way alone.
LEMMA AheadKept ==
    ASSUME NEW i \in Index, NEW d \in Direction,
           client'[i] = client[i], peers'[i] = peers[i],
           LockingOn(i)' = LockingOn(i),
           \A h \in LockingOn(i) : announce'[h].reported = announce[h].reported
    PROVE  Ahead(i, d)' = Ahead(i, d)
<1>1. \A n : Since(n, i, d)' = Since(n, i, d)
  BY DEF Since
<1>2. CASE LockingOn(i) = {}
  BY <1>1, <1>2 DEF Ahead
<1>3. CASE LockingOn(i) # {}
  <2>1. (CHOOSE h \in LockingOn(i) : TRUE) \in LockingOn(i)
    BY <1>3
  <2> QED BY <1>1, <1>3, <2>1 DEF Ahead
<1> QED BY <1>2, <1>3

\* Of a user's one request that waits for the lock, what is ahead is counted from
\* its report.
LEMMA AheadOfOne ==
    ASSUME TypeOK, NEW h \in Handler, announce[h].pc = "locking", NEW d \in Direction,
           \A g \in Handler : Asks(g, announce[h].index[1]) => g = h
    PROVE  /\ LockingOn(announce[h].index) = {h}
           /\ Ahead(announce[h].index, d)
                = SaturatingSub(client[announce[h].index][d], announce[h].reported[d])
                    + Since(announce[h].reported[d], announce[h].index, d)
<1>1. LockingOn(announce[h].index) = {h}
  BY DEF LockingOn, Asks, Idle
<1>2. (CHOOSE g \in {h} : TRUE) = h
  OBVIOUS
<1> QED BY <1>1, <1>2 DEF Ahead

\* The step of another user's request, and one that neither takes the lock nor
\* records, leave what is ahead (announce.rs).
LEMMA AheadOfOthers ==
    ASSUME TypeOK, NEW h \in Handler, Announce(h), NEW i \in Index, NEW d \in Direction,
           peers'[i] = peers[i],
           ~(announce[h].pc = "locking" /\ announce[h].index = i),
           ~(announce'[h].pc = "locking" /\ announce'[h].index = i)
    PROVE  Ahead(i, d)' = Ahead(i, d)
<1>1. \A g \in Handler \ {h} : announce'[g] = announce[g]
  BY OthersKept
<1>2. LockingOn(i)' = LockingOn(i)
  BY <1>1 DEF LockingOn
<1>3. \A g \in LockingOn(i) : announce'[g].reported = announce[g].reported
  BY <1>1 DEF LockingOn
<1>4. client' = client
  BY DEF Announce, Receive, Reject, Stop, Modify, Insert, Replace, QueueHistory, QueueUser,
         QueueTorrent
<1> QED BY <1>2, <1>3, <1>4, AheadKept

\* A request that arrives reports what its client has counted by now.
LEMMA CoveredAtReceive ==
    ASSUME TypeOK, TypeOK', NEW h \in Handler, Receive(h), NEW u \in User \ crossed',
           NEW d \in Direction, Covered(u, d)
    PROVE  Covered(u, d)'
<1>1. PICK j \in Index, stopped \in BOOLEAN, is_seeder \in BOOLEAN :
        /\ announce[h] = Idle
        /\ announce' = [announce EXCEPT ![h] =
              [pc |-> "locking", index |-> j, stopped |-> stopped, is_seeder |-> is_seeder,
               reported |-> client[j]]]
        /\ \A g \in Handler : Asks(g, u)' =>
              (g = h /\ u = j[1] /\ \A k \in Handler : ~Asks(k, u))
                  \/ (g # h /\ u # j[1] /\ Asks(g, u))
  BY AskedNow
<1>2. /\ announce'[h].pc = "locking" /\ announce'[h].index = j /\ announce'[h].reported = client[j]
      /\ announce[h].pc = "idle" /\ UNCHANGED <<client, traffic, peers, history>>
  BY <1>1 DEF Receive, TypeOK, Idle
<1>3. \A g \in Handler \ {h} : announce'[g] = announce[g]
  BY OthersKept DEF Announce
<1>4. Pending(u, d)' = Pending(u, d)
  BY <1>2, <1>3 DEF Pending, Records
<1>5. ASSUME NEW i \in {u} \X PeerId PROVE Ahead(i, d)' <= Ahead(i, d)
  <2>1. i \in Index /\ i[1] = u
    BY DEF Index
  <2>2. Ahead(i, d) \in Nat
    BY <2>1, AheadType
  <2>3. CASE i # j
    <3>1. Ahead(i, d)' = Ahead(i, d)
      BY <1>2, <2>1, <2>3, AheadOfOthers DEF Announce
    <3> QED BY <2>2, <3>1
  <2>4. CASE i = j
    <3>1. Asks(h, u)'
      BY <1>2, <2>1, <2>4 DEF Asks, Idle
    <3>2. \A k \in Handler : ~Asks(k, u)
      BY <1>1, <3>1
    <3>3. LockingOn(i) = {}
      BY <2>1, <3>2 DEF LockingOn, Asks, Idle
    <3>4. LockingOn(i)' = {h}
      BY <1>2, <1>3, <2>4, <3>3 DEF LockingOn
    <3>5. (CHOOSE g \in {h} : TRUE) = h
      OBVIOUS
    <3>6. Ahead(i, d)' = SaturatingSub(client[i][d], client[i][d]) + Since(client[i][d], i, d)'
      BY <1>2, <2>4, <3>4, <3>5 DEF Ahead
    <3>7. client[i][d] \in Nat /\ Since(client[i][d], i, d) \in Nat
      BY <2>1, CountersTyped
    <3>8. SaturatingSub(client[i][d], client[i][d]) = 0
      BY <3>7, SaturatingFacts
    <3>9. Since(client[i][d], i, d)' = Since(client[i][d], i, d)
      BY <1>2 DEF Since
    <3>10. Ahead(i, d) = Since(client[i][d], i, d)
      BY <3>3 DEF Ahead
    <3> QED BY <3>6, <3>7, <3>8, <3>9, <3>10
  <2> QED BY <2>3, <2>4
<1> QED BY <1>2, <1>4, <1>5, StillCovered

\* A request that is refused leaves less ahead than a detour by its report.
LEMMA CoveredAtReject ==
    ASSUME TypeOK, TypeOK', OneAtATime, NEW h \in Handler, Reject(h), NEW u \in User \ crossed,
           NEW d \in Direction, Covered(u, d)
    PROVE  Covered(u, d)'
<1> DEFINE j == announce[h].index
<1>1. /\ announce[h].pc = "locking" /\ announce'[h].pc = "idle" /\ j \in Index
      /\ UNCHANGED <<client, traffic, peers, history>> /\ Asks(h, j[1]) /\ j[1] \in User
      /\ announce[h].reported \in Amounts
  <2>1. announce[h] \in Locking /\ announce[h].pc = "locking"
    BY RequestPhases DEF Reject
  <2> QED BY <2>1 DEF Reject, TypeOK, Idle, Asks, Locking, Index
<1>2. \A g \in Handler \ {h} : announce'[g] = announce[g]
  BY OthersKept DEF Announce
<1>3. Pending(u, d)' = Pending(u, d)
  BY <1>1, <1>2 DEF Pending, Records
<1>4. ASSUME NEW i \in {u} \X PeerId PROVE Ahead(i, d)' <= Ahead(i, d)
  <2>1. i \in Index /\ i[1] = u
    BY DEF Index
  <2>2. Ahead(i, d) \in Nat
    BY <2>1, AheadType
  <2>3. CASE i # j
    <3>1. Ahead(i, d)' = Ahead(i, d)
      BY <1>1, <2>1, <2>3, AheadOfOthers DEF Announce
    <3> QED BY <2>2, <3>1
  <2>4. CASE i = j
    <3> DEFINE n == announce[h].reported[d]
    <3>1. \A g \in Handler : Asks(g, j[1]) => g = h
      BY <1>1, <2>1, <2>4 DEF OneAtATime
    <3>2. LockingOn(i) = {h}
          /\ Ahead(i, d) = SaturatingSub(client[i][d], n) + Since(n, i, d)
      BY <1>1, <2>4, <3>1, AheadOfOne
    <3>3. LockingOn(i)' = {}
      BY <1>1, <1>2, <3>2 DEF LockingOn
    <3>4. Ahead(i, d)' = Since(client[i][d], i, d)
      BY <1>1, <3>3 DEF Ahead, Since
    <3>5. /\ client[i][d] \in Nat /\ n \in Nat
          /\ peers[i] # NoPeer => peers[i].reported[d] \in Nat
      BY <2>1, <3>2, CountersTyped
    <3> HIDE DEF n
    <3>6. Since(client[i][d], i, d) <= SaturatingSub(client[i][d], n) + Since(n, i, d)
      <4> DEFINE c == client[i][d]
                 old == peers[i].reported[d]
      <4>1. CASE peers[i] = NoPeer
        <5>1. SaturatingSub(c, n) \in Nat
          BY <3>5, SaturatingFacts
        <5> QED BY <4>1, <5>1 DEF Since
      <4>2. CASE peers[i] # NoPeer
        <5>1. c \in Nat /\ old \in Nat
          BY <3>5, <4>2
        <5> HIDE DEF c, old
        <5>2. SaturatingSub(c, old) <= SaturatingSub(c, n) + SaturatingSub(n, old)
          BY <3>5, <5>1, SaturatingFacts
        <5> QED BY <4>2, <5>2 DEF Since, c, old
      <4> QED BY <4>1, <4>2
    <3> QED BY <3>2, <3>4, <3>6
  <2> QED BY <2>3, <2>4
<1> QED BY <1>1, <1>3, <1>4, StillCovered

\* Between the queues nothing moves that was not recorded.
LEMMA CoveredAtQueues ==
    ASSUME TypeOK, TypeOK', NEW h \in Handler, QueueUser(h) \/ QueueTorrent(h), NEW u \in User,
           NEW d \in Direction, Covered(u, d)
    PROVE  Covered(u, d)'
<1>1. /\ announce[h].pc \in {"users", "torrents"} /\ announce'[h].pc \in {"torrents", "idle"}
      /\ UNCHANGED <<client, traffic, peers, history>>
  <2>0. announce \in [Handler -> Request]
    BY DEF TypeOK
  <2>1. CASE QueueUser(h)
    <3>1. announce[h] \in Telling
      BY <2>1, RequestPhases DEF QueueUser
    <3> QED BY <2>0, <2>1, <3>1 DEF QueueUser, Telling
  <2>2. CASE QueueTorrent(h)
    BY <2>0, <2>2 DEF QueueTorrent, Idle
  <2> QED BY <2>1, <2>2
<1>2. \A g \in Handler \ {h} : announce'[g] = announce[g]
  BY OthersKept DEF Announce
<1>3. Pending(u, d)' = Pending(u, d)
  BY <1>1, <1>2 DEF Pending, Records
<1>4. ASSUME NEW i \in {u} \X PeerId PROVE Ahead(i, d)' <= Ahead(i, d)
  <2>1. i \in Index
    BY DEF Index
  <2>2. Ahead(i, d) \in Nat
    BY <2>1, AheadType
  <2>3. Ahead(i, d)' = Ahead(i, d)
    BY <1>1, <2>1, AheadOfOthers DEF Announce
  <2> QED BY <2>2, <2>3
<1> QED BY <1>1, <1>3, <1>4, StillCovered

\* What is credited under the lock was ahead, and is no longer (announce.rs, the
\* change since the previous announce): in each of the three ways.
LEMMA TakenFromAhead ==
    ASSUME NEW h \in Handler, NEW j, NEW d \in Direction, TypeOK, OneAtATime,
           Stop(h) \/ Modify(h) \/ Insert(h), announce[h].index = j, j[1] \notin crossed
    PROVE  /\ announce'[h].pc = "histories" /\ announce'[h].index = j
           /\ announce'[h].change[d] \in Nat
           /\ announce'[h].change[d] + Ahead(j, d)' <= Ahead(j, d)
<1> DEFINE a == announce[h]
           n == a.reported[d]
           c == client[j][d]
           old == peers[j].reported[d]
<1>1. /\ a \in Locking /\ a.pc = "locking" /\ j \in Index /\ j[1] \in User
      /\ a.reported \in Amounts /\ Announce(h) /\ Asks(h, j[1])
  BY LockSections DEF Announce, Locking, Index, Asks, Idle
<1>2. PICK new, change, completion, is_active :
        /\ Replace(h, new, change, completion, is_active)
        /\ \/ new = NoPeer /\ peers[j] # NoPeer /\ change = Difference(a.reported, peers[j].reported)
           \/ new = Announced(a) /\ peers[j] # NoPeer
                /\ change = Change(a.reported, peers[j].reported)
           \/ new = Announced(a) /\ peers[j] = NoPeer /\ change = ChangeAtFirst(a.reported)
  BY DEF Stop, Modify, Insert, OldPeer
<1>3. /\ announce'[h].pc = "histories" /\ announce'[h].index = j /\ announce'[h].change = change
      /\ peers'[j] = new /\ client' = client
  BY <1>1, <1>2 DEF Replace, TypeOK
<1>4. \A g \in Handler : Asks(g, j[1]) => g = h
  BY <1>1 DEF OneAtATime
<1>5. LockingOn(j) = {h} /\ Ahead(j, d) = SaturatingSub(c, n) + Since(n, j, d)
  BY <1>1, <1>4, AheadOfOne
<1>6. LockingOn(j)' = {}
  <2>1. \A g \in Handler \ {h} : announce'[g] = announce[g]
    BY <1>1, OthersKept
  <2> QED BY <1>3, <1>5, <2>1 DEF LockingOn
<1>7. Ahead(j, d)' = IF new = NoPeer THEN 0 ELSE SaturatingSub(c, new.reported[d])
  BY <1>3, <1>6 DEF Ahead, Since
<1>8. c \in Nat /\ n \in Nat /\ (peers[j] # NoPeer => old \in Nat)
  BY <1>1, <1>5, CountersTyped
<1>9. Announced(a) # NoPeer /\ Announced(a).reported[d] = n
  <2>1. Announced(a) \in Peer
    BY <1>1 DEF Announced, Peer, Locking
  <2> QED BY <2>1, SentinelAssumption DEF Announced
<1>10. SaturatingSub(c, n) \in Nat /\ (peers[j] # NoPeer => SaturatingSub(n, old) \in Nat)
  <2> HIDE DEF c, n, old
  <2> QED BY <1>8, SaturatingFacts
<1>11. CASE new = NoPeer /\ peers[j] # NoPeer /\ change = Difference(a.reported, peers[j].reported)
  <2>1. change[d] = SaturatingSub(n, old)
    BY <1>1, <1>11, PresentPeer, DifferenceByDirection
  <2>2. Since(n, j, d) = SaturatingSub(n, old) /\ Ahead(j, d)' = 0
    BY <1>7, <1>11 DEF Since
  <2>3. Ahead(j, d) = SaturatingSub(c, n) + SaturatingSub(n, old)
    BY <1>5, <2>2
  <2> QED BY <1>3, <1>10, <1>11, <2>1, <2>2, <2>3
<1>12. CASE new = Announced(a) /\ peers[j] # NoPeer
              /\ change = Change(a.reported, peers[j].reported)
  <2>1. change[d] \in {0, SaturatingSub(n, old)}
    BY <1>1, <1>12, PresentPeer, DifferenceByDirection
  <2>2. Since(n, j, d) = SaturatingSub(n, old) /\ Ahead(j, d)' = SaturatingSub(c, n)
    BY <1>7, <1>9, <1>12 DEF Since
  <2>3. Ahead(j, d) = SaturatingSub(c, n) + SaturatingSub(n, old)
    BY <1>5, <2>2
  <2> QED BY <1>3, <1>10, <1>12, <2>1, <2>2, <2>3
<1>13. CASE new = Announced(a) /\ peers[j] = NoPeer /\ change = ChangeAtFirst(a.reported)
  <2>1. change[d] = 0
    BY <1>13 DEF ChangeAtFirst, Nothing, Direction
  <2>2. Since(n, j, d) = 0 /\ Ahead(j, d)' = SaturatingSub(c, n)
    BY <1>7, <1>9, <1>13 DEF Since
  <2>3. Ahead(j, d) = SaturatingSub(c, n)
    BY <1>5, <1>10, <2>2
  <2> QED BY <1>3, <1>10, <2>1, <2>2, <2>3
<1> QED BY <1>2, <1>11, <1>12, <1>13

\* So the section under the lock leaves all covered.
LEMMA CoveredAtLock ==
    ASSUME TypeOK, TypeOK', OneAtATime, NEW h \in Handler, Stop(h) \/ Modify(h) \/ Insert(h),
           NEW u \in User \ crossed, NEW d \in Direction, Covered(u, d)
    PROVE  Covered(u, d)'
<1>0. PICK j : announce[h].index = j
  OBVIOUS
<1>1. /\ announce[h].pc = "locking" /\ announce'[h].pc = "histories" /\ announce'[h].index = j
      /\ j \in Index /\ Announce(h) /\ Records(h, j[1])' /\ ~Records(h, j[1])
      /\ UNCHANGED <<client, traffic, history>>
      /\ \A i \in Index \ {j} : peers'[i] = peers[i]
  <2>1. announce[h] \in Locking /\ LockSection(h) /\ Announce(h)
    BY LockSections DEF Announce
  <2>2. announce[h].pc = "locking" /\ j \in Index
    BY <1>0, <2>1 DEF Locking
  <2>3. PICK new, change, completion, is_active : Replace(h, new, change, completion, is_active)
    BY <2>1 DEF LockSection
  <2>4. announce'[h].pc = "histories" /\ announce'[h].index = j
    BY <1>0, <2>3 DEF Replace, TypeOK
  <2>5. UNCHANGED <<client, traffic, history>> /\ \A i \in Index \ {j} : peers'[i] = peers[i]
    BY <1>0, <2>3 DEF Replace, TypeOK
  <2> QED BY <1>0, <2>1, <2>2, <2>4, <2>5 DEF Records
<1>2. \A g \in Handler \ {h} : announce'[g] = announce[g]
  BY <1>1, OthersKept
<1>3. ASSUME NEW i \in {u} \X PeerId, i # j PROVE Ahead(i, d)' = Ahead(i, d)
  <2>1. i \in Index
    BY DEF Index
  <2> QED BY <1>0, <1>1, <1>3, <2>1, AheadOfOthers
<1>4. CASE j[1] # u
  <2>1. \A i \in {u} \X PeerId : i # j /\ Ahead(i, d) \in Nat
    BY <1>4, AheadType DEF Index
  <2>2. \A i \in {u} \X PeerId : Ahead(i, d)' <= Ahead(i, d)
    BY <1>3, <2>1
  <2>3. Pending(u, d)' = Pending(u, d)
    BY <1>0, <1>1, <1>2, <1>4 DEF Pending, Records
  <2> QED BY <1>1, <2>2, <2>3, StillCovered
<1>5. CASE j[1] = u
  <2>1. CoverTyped /\ CoverTyped' /\ CoverSummed /\ CoverSummed'
    BY CoverTypes, CoverSums, PTL
  <2>2. /\ announce'[h].change[d] \in Nat
        /\ announce'[h].change[d] + Ahead(j, d)' <= Ahead(j, d)
    BY <1>0, <1>5, TakenFromAhead
  <2>3. j \in {u} \X PeerId
    BY <1>1, <1>5 DEF Index
  <2>4. SumFunction(Aheads(u, d)') = SumFunction(Aheads(u, d)) + Ahead(j, d)' - Ahead(j, d)
    <3>1. \A i \in ({u} \X PeerId) \ {j} : Aheads(u, d)'[i] = Aheads(u, d)[i]
      BY <1>3 DEF Aheads
    <3>2. Aheads(u, d)'[j] = Ahead(j, d)' /\ Aheads(u, d)[j] = Ahead(j, d)
      BY <2>3 DEF Aheads
    <3>3. /\ Aheads(u, d) \in [{u} \X PeerId -> Int]
          /\ Aheads(u, d)' \in [{u} \X PeerId -> Int] /\ IsFiniteSet({u} \X PeerId)
      BY <2>1, ClientsFinite DEF CoverTyped
    <3>4. SumFunction(Aheads(u, d)')
            = SumFunction(Aheads(u, d)) + Aheads(u, d)'[j] - Aheads(u, d)[j]
      BY <2>3, <3>1, <3>3, TotalOfChanged
    <3> QED BY <3>2, <3>4
  <2>5. SumFunction(Pending(u, d)') = SumFunction(Pending(u, d)) + announce'[h].change[d] - 0
    <3>1. \A g \in Handler \ {h} : Pending(u, d)'[g] = Pending(u, d)[g]
      BY <1>2 DEF Pending, Records
    <3>2. Pending(u, d)'[h] = announce'[h].change[d] /\ Pending(u, d)[h] = 0
      BY <1>1, <1>5 DEF Pending
    <3>3. /\ Pending(u, d) \in [Handler -> Int] /\ Pending(u, d)' \in [Handler -> Int]
          /\ IsFiniteSet(Handler)
      BY <2>1, ClientsFinite DEF CoverTyped
    <3>4. SumFunction(Pending(u, d)')
            = SumFunction(Pending(u, d)) + Pending(u, d)'[h] - Pending(u, d)[h]
      BY <3>1, <3>3, TotalOfChanged
    <3> QED BY <3>2, <3>4
  <2> DEFINE told == history[u].actual[d]
             pending == SumFunction(Pending(u, d))
             pending1 == SumFunction(Pending(u, d)')
             ahead == SumFunction(Aheads(u, d))
             ahead1 == SumFunction(Aheads(u, d)')
             total == TrafficOf(u, d)
             change == announce'[h].change[d]
             own == Ahead(j, d)
             own1 == Ahead(j, d)'
  <2>6. /\ told \in Int /\ pending \in Int /\ pending1 \in Int /\ ahead \in Int /\ ahead1 \in Int
        /\ total \in Int
    BY <2>1 DEF CoverTyped, CoverSummed
  <2>7. own \in Int /\ own1 \in Int /\ change \in Int
    <3>1. Aheads(u, d) \in [{u} \X PeerId -> Int] /\ Aheads(u, d)' \in [{u} \X PeerId -> Int]
      BY <2>1 DEF CoverTyped
    <3>2. Aheads(u, d)'[j] = Ahead(j, d)' /\ Aheads(u, d)[j] = Ahead(j, d)
      BY <2>3 DEF Aheads
    <3> QED BY <2>2, <2>3, <3>1, <3>2
  <2>8. /\ change + own1 <= own /\ ahead1 = ahead + own1 - own /\ pending1 = pending + change - 0
        /\ told + pending + ahead <= total
    BY <2>2, <2>4, <2>5 DEF Covered
  <2>9. told' = told /\ total' = total
    BY <1>1 DEF TrafficOf
  <2>10. Covered(u, d)' = (told' + pending1 + ahead1 <= total')
    BY DEF Covered
  <2> HIDE DEF told, pending, pending1, ahead, ahead1, total, change, own, own1
  <2>11. told + pending1 + ahead1 <= total
    BY <2>6, <2>7, <2>8
  <2> QED BY <2>9, <2>10, <2>11
<1> QED BY <1>4, <1>5

\* Telling the histories queue moves the change from what is pending to what is
\* credited.
LEMMA CoveredAtQueueHistory ==
    ASSUME TypeOK, TypeOK', NEW h \in Handler, QueueHistory(h), NEW u \in User,
           NEW d \in Direction, Covered(u, d)
    PROVE  Covered(u, d)'
<1> DEFINE a == announce[h]
           v == a.index[1]
<1>1. /\ a.pc = "histories" /\ a \in Changed /\ v \in User /\ a.change \in Amounts /\ Announce(h)
      /\ UNCHANGED <<client, traffic, peers>>
  BY QueueHistoryDoes DEF QueueHistory, Changed, Announce
<1>2. PICK credited \in Amounts :
        /\ history' = [history EXCEPT ![v] =
              [is_active |-> a.is_active, actual |-> Plus(history[v].actual, a.change),
               credited |-> Plus(history[v].credited, credited)]]
        /\ announce' = [announce EXCEPT ![h] =
              [pc |-> "users", index |-> a.index, change |-> a.change,
               completion |-> a.completion, credited |-> credited]]
  BY QueueHistoryDoes
<1>3. /\ announce'[h].pc = "users" /\ history'[v].actual = Plus(history[v].actual, a.change)
      /\ \A w \in User \ {v} : history'[w] = history[w]
  BY <1>1, <1>2 DEF TypeOK
<1>4. \A g \in Handler \ {h} : announce'[g] = announce[g]
  BY <1>1, OthersKept
<1>5. \A i \in {u} \X PeerId : Ahead(i, d)' = Ahead(i, d)
  BY <1>1, <1>3, AheadOfOthers, ClientsFinite
<1>6. CASE v # u
  <2>1. Pending(u, d)' = Pending(u, d)
    BY <1>1, <1>3, <1>4, <1>6 DEF Pending, Records
  <2>2. \A i \in {u} \X PeerId : Ahead(i, d)' <= Ahead(i, d)
    <3>1. \A i \in {u} \X PeerId : Ahead(i, d) \in Nat
      BY ClientsFinite, AheadType
    <3> QED BY <1>5, <3>1
  <2> QED BY <1>1, <1>3, <1>6, <2>1, <2>2, StillCovered
<1>7. CASE v = u
  <2>1. CoverTyped /\ CoverTyped' /\ CoverSummed
    BY CoverTypes, CoverSums, PTL
  <2>2. SumFunction(Pending(u, d)') = SumFunction(Pending(u, d)) + 0 - a.change[d]
    <3>1. \A g \in Handler \ {h} : Pending(u, d)'[g] = Pending(u, d)[g]
      BY <1>4 DEF Pending, Records
    <3>2. Pending(u, d)'[h] = 0 /\ Pending(u, d)[h] = a.change[d]
      BY <1>1, <1>3, <1>7 DEF Pending, Records
    <3>3. /\ Pending(u, d) \in [Handler -> Int] /\ Pending(u, d)' \in [Handler -> Int]
          /\ IsFiniteSet(Handler)
      BY <2>1, ClientsFinite DEF CoverTyped
    <3>4. SumFunction(Pending(u, d)')
            = SumFunction(Pending(u, d)) + Pending(u, d)'[h] - Pending(u, d)[h]
      BY <3>1, <3>3, TotalOfChanged
    <3> QED BY <3>2, <3>4
  <2>3. Aheads(u, d)' = Aheads(u, d) /\ TrafficOf(u, d)' = TrafficOf(u, d)
    BY <1>1, <1>5 DEF Aheads, TrafficOf
  <2>4. history'[u].actual[d] = history[u].actual[d] + a.change[d] /\ a.change[d] \in Nat
    <3>1. history[u].actual \in Amounts
      BY DEF TypeOK, History
    <3> QED BY <1>1, <1>3, <1>7, <3>1, AmountsByDirection
  <2> DEFINE told == history[u].actual[d]
             told1 == history'[u].actual[d]
             pending == SumFunction(Pending(u, d))
             pending1 == SumFunction(Pending(u, d)')
             ahead == SumFunction(Aheads(u, d))
             total == TrafficOf(u, d)
             change == a.change[d]
  <2>5. /\ told \in Int /\ pending \in Int /\ ahead \in Int /\ total \in Int /\ change \in Nat
        /\ told1 = told + change /\ pending1 = pending + 0 - change
        /\ told + pending + ahead <= total
    BY <2>1, <2>2, <2>4 DEF CoverTyped, CoverSummed, Covered
  <2>6. Covered(u, d)' = (told1 + pending1 + ahead <= total)
    BY <2>3 DEF Covered
  <2> HIDE DEF told, told1, pending, pending1, ahead, total, change
  <2>7. told1 + pending1 + ahead <= total
    BY <2>5
  <2> QED BY <2>6, <2>7
<1> QED BY <1>6, <1>7

\* What a client transfers it counts: it gets ahead by no more.
LEMMA CoveredAtTransfer ==
    ASSUME TypeOK, TypeOK', NEW j \in Index, Transfer(j), NEW u \in User,
           NEW d \in Direction, Covered(u, d)
    PROVE  Covered(u, d)'
<1>1. PICK unit \in Amounts :
        /\ client' = [client EXCEPT ![j] = Plus(@, unit)]
        /\ traffic' = [traffic EXCEPT ![j] = Plus(@, unit)]
  <2>1. \A unit \in {[uploaded |-> 1, downloaded |-> 0], [uploaded |-> 0, downloaded |-> 1]} :
          unit \in Amounts
    BY DEF Amounts
  <2> QED BY <2>1 DEF Transfer
<1>2. UNCHANGED <<peers, announce, history>>
  BY DEF Transfer
<1>3. \A i \in Index \ {j} : client'[i] = client[i] /\ traffic'[i] = traffic[i]
  BY <1>1 DEF TypeOK
<1>4. \A i \in Index : LockingOn(i)' = LockingOn(i)
  BY <1>2 DEF LockingOn
<1>5. \A i \in Index \ {j} : Ahead(i, d)' = Ahead(i, d)
  BY <1>2, <1>3, <1>4, AheadKept
<1>6. Pending(u, d)' = Pending(u, d)
  BY <1>2 DEF Pending, Records
<1>7. CASE j[1] # u
  <2>1. \A i \in {u} \X PeerId : i \in Index \ {j}
    BY <1>7 DEF Index
  <2>2. Aheads(u, d)' = Aheads(u, d) /\ TrafficOf(u, d)' = TrafficOf(u, d)
    BY <1>3, <1>5, <2>1 DEF Aheads, TrafficOf
  <2> QED BY <1>2, <1>6, <2>2 DEF Covered
<1>8. CASE j[1] = u
  <2>0. j \in {u} \X PeerId /\ \A i \in ({u} \X PeerId) \ {j} : i \in Index \ {j}
    BY <1>8 DEF Index
  <2>1. CoverTyped /\ CoverTyped' /\ CoverSummed /\ CoverSummed'
    BY CoverTypes, CoverSums, PTL
  <2>2. /\ client[j][d] \in Nat /\ traffic[j][d] \in Nat /\ unit[d] \in Nat
        /\ client'[j][d] = client[j][d] + unit[d] /\ traffic'[j][d] = traffic[j][d] + unit[d]
    <3>1. /\ client[j] \in Amounts /\ traffic[j] \in Amounts
          /\ client'[j] = Plus(client[j], unit) /\ traffic'[j] = Plus(traffic[j], unit)
      BY <1>1 DEF TypeOK
    <3> QED BY <3>1, AmountsByDirection
  <2>3. Ahead(j, d)' <= Ahead(j, d) + unit[d]
    <3> DEFINE c == client[j][d]
               old == peers[j].reported[d]
    <3>1. CASE LockingOn(j) = {}
      <4>1. Ahead(j, d) = Since(c, j, d) /\ Ahead(j, d)' = Since(c + unit[d], j, d)
        BY <1>2, <1>4, <2>2, <3>1 DEF Ahead, Since
      <4>2. peers[j] # NoPeer =>
              SaturatingSub(c + unit[d], old) <= SaturatingSub(c, old) + unit[d]
        BY <2>2, CountersTyped, SaturatingFacts
      <4> QED BY <2>2, <4>1, <4>2 DEF Since
    <3>2. CASE LockingOn(j) # {}
      <4> DEFINE n == announce[CHOOSE g \in LockingOn(j) : TRUE].reported[d]
      <4>1. n \in Nat
        BY <3>2, CountersTyped
      <4>2. Ahead(j, d) = SaturatingSub(c, n) + Since(n, j, d)
        BY <3>2 DEF Ahead
      <4>3. Ahead(j, d)' = SaturatingSub(client'[j][d], n) + Since(n, j, d)
        <5>1. \A m : Since(m, j, d)' = Since(m, j, d)
          BY <1>2 DEF Since
        <5> QED BY <1>2, <1>4, <3>2, <5>1 DEF Ahead
      <4>4. c \in Nat /\ unit[d] \in Nat /\ client'[j][d] = c + unit[d] /\ Since(n, j, d) \in Nat
        BY <2>2, <4>1, CountersTyped
      <4> HIDE DEF n, c
      <4>5. SaturatingSub(c + unit[d], n) <= SaturatingSub(c, n) + unit[d]
        BY <4>1, <4>4, SaturatingFacts
      <4>6. SaturatingSub(c + unit[d], n) \in Nat /\ SaturatingSub(c, n) \in Nat
        <5>1. c + unit[d] \in Nat
          BY <4>4
        <5> QED BY <4>1, <4>4, <5>1, SaturatingFacts
      <4> QED BY <4>2, <4>3, <4>4, <4>5, <4>6 DEF c
    <3> QED BY <3>1, <3>2
  <2>4. SumFunction(Aheads(u, d)') = SumFunction(Aheads(u, d)) + Ahead(j, d)' - Ahead(j, d)
    <3>1. \A i \in ({u} \X PeerId) \ {j} : Aheads(u, d)'[i] = Aheads(u, d)[i]
      BY <1>5, <2>0 DEF Aheads
    <3>2. Aheads(u, d)'[j] = Ahead(j, d)' /\ Aheads(u, d)[j] = Ahead(j, d)
      BY <2>0 DEF Aheads
    <3>3. /\ Aheads(u, d) \in [{u} \X PeerId -> Int]
          /\ Aheads(u, d)' \in [{u} \X PeerId -> Int] /\ IsFiniteSet({u} \X PeerId)
      BY <2>1, ClientsFinite DEF CoverTyped
    <3>4. SumFunction(Aheads(u, d)')
            = SumFunction(Aheads(u, d)) + Aheads(u, d)'[j] - Aheads(u, d)[j]
      BY <2>0, <3>1, <3>3, TotalOfChanged
    <3> QED BY <3>2, <3>4
  <2>5. TrafficOf(u, d)' = TrafficOf(u, d) + (traffic[j][d] + unit[d]) - traffic[j][d]
    <3> DEFINE f == [i \in {u} \X PeerId |-> traffic[i][d]]
               g == [i \in {u} \X PeerId |-> traffic'[i][d]]
    <3>1. f \in [{u} \X PeerId -> Int] /\ g \in [{u} \X PeerId -> Int]
      BY <2>1 DEF CoverTyped
    <3>2. \A i \in ({u} \X PeerId) \ {j} : g[i] = f[i]
      BY <1>3, <2>0
    <3>3. g[j] = traffic[j][d] + unit[d] /\ f[j] = traffic[j][d]
      BY <2>0, <2>2
    <3>4. TrafficOf(u, d) = SumFunction(f) /\ TrafficOf(u, d)' = SumFunction(g)
      BY DEF TrafficOf
    <3> HIDE DEF f, g
    <3>5. SumFunction(g) = SumFunction(f) + g[j] - f[j]
      BY <2>0, <3>1, <3>2, ClientsFinite, TotalOfChanged
    <3> QED BY <3>3, <3>4, <3>5
  <2>6. Ahead(j, d) \in Int /\ Ahead(j, d)' \in Int
    <3>1. Ahead(j, d)' = Aheads(u, d)'[j] /\ Ahead(j, d) = Aheads(u, d)[j]
      BY <2>0 DEF Aheads
    <3>2. Aheads(u, d) \in [{u} \X PeerId -> Int] /\ Aheads(u, d)' \in [{u} \X PeerId -> Int]
      BY <2>1 DEF CoverTyped
    <3> QED BY <2>0, <3>1, <3>2
  <2> DEFINE told == history[u].actual[d]
             pending == SumFunction(Pending(u, d))
             ahead == SumFunction(Aheads(u, d))
             ahead1 == SumFunction(Aheads(u, d)')
             total == TrafficOf(u, d)
             total1 == TrafficOf(u, d)'
             own == Ahead(j, d)
             own1 == Ahead(j, d)'
             more == unit[d]
             before == traffic[j][d]
  <2>7. /\ told \in Int /\ pending \in Int /\ ahead \in Int /\ total \in Int /\ more \in Nat
        /\ own \in Int /\ own1 \in Int /\ before \in Nat
        /\ own1 <= own + more /\ ahead1 = ahead + own1 - own
        /\ total1 = total + (before + more) - before
        /\ told + pending + ahead <= total
    BY <2>1, <2>2, <2>3, <2>4, <2>5, <2>6 DEF CoverTyped, CoverSummed, Covered
  <2>8. Covered(u, d)' = (told + pending + ahead1 <= total1)
    BY <1>2, <1>6 DEF Covered
  <2> HIDE DEF told, pending, ahead, ahead1, total, total1, own, own1, more, before
  <2>9. told + pending + ahead1 <= total1
    BY <2>7
  <2> QED BY <2>8, <2>9
<1> QED BY <1>7, <1>8

\* A session begun anew counts from nothing: less is ahead.
LEMMA CoveredAtRestart ==
    ASSUME TypeOK, TypeOK', NEW j \in Index, Restart(j), NEW u \in User,
           NEW d \in Direction, Covered(u, d)
    PROVE  Covered(u, d)'
<1>1. UNCHANGED <<traffic, peers, announce, history>> /\ client'[j] = Nothing
      /\ \A i \in Index \ {j} : client'[i] = client[i]
  BY DEF Restart, TypeOK
<1>2. Pending(u, d)' = Pending(u, d)
  BY <1>1 DEF Pending, Records
<1>3. \A i \in Index : LockingOn(i)' = LockingOn(i)
  BY <1>1 DEF LockingOn
<1>4. ASSUME NEW i \in {u} \X PeerId PROVE Ahead(i, d)' <= Ahead(i, d)
  <2>1. i \in Index /\ Ahead(i, d) \in Nat
    BY ClientsFinite, AheadType
  <2>2. CASE i # j
    <3>1. Ahead(i, d)' = Ahead(i, d)
      BY <1>1, <1>3, <2>1, <2>2, AheadKept
    <3> QED BY <2>1, <3>1
  <2>3. CASE i = j
    <3>0. client'[i][d] = 0
      BY <1>1, <2>3 DEF Nothing, Direction
    <3>1. \A m : Since(m, i, d)' = Since(m, i, d)
      BY <1>1 DEF Since
    <3>2. CASE LockingOn(i) = {}
      <4>1. Ahead(i, d)' = Since(0, i, d)
        BY <1>3, <2>1, <3>0, <3>1, <3>2 DEF Ahead
      <4>2. Since(0, i, d) = 0
        BY <2>1, CountersTyped, SaturatingFacts DEF Since
      <4> QED BY <2>1, <4>1, <4>2
    <3>3. CASE LockingOn(i) # {}
      <4> DEFINE n == announce[CHOOSE g \in LockingOn(i) : TRUE].reported[d]
                 c == client[i][d]
      <4>1. n \in Nat /\ c \in Nat
        BY <2>1, <3>3, CountersTyped
      <4>2. Ahead(i, d) = SaturatingSub(c, n) + Since(n, i, d)
        BY <3>3 DEF Ahead
      <4>3. Ahead(i, d)' = SaturatingSub(client'[i][d], n) + Since(n, i, d)
        BY <1>1, <1>3, <2>1, <3>1, <3>3 DEF Ahead
      <4>4. Since(n, i, d) \in Nat
        BY <2>1, <4>1, CountersTyped
      <4> HIDE DEF n, c
      <4>5. SaturatingSub(0, n) = 0 /\ SaturatingSub(c, n) \in Nat
        BY <4>1, SaturatingFacts
      <4> QED BY <3>0, <4>2, <4>3, <4>4, <4>5
    <3> QED BY <3>2, <3>3
  <2> QED BY <2>2, <2>3
<1> QED BY <1>1, <1>2, <1>4, StillCovered

\* A peer that is reaped takes with it what it could still have been credited
\* (scheduler.rs, reap).
LEMMA CoveredAtReap ==
    ASSUME TypeOK, TypeOK', Reap, NEW u \in User, NEW d \in Direction, Covered(u, d)
    PROVE  Covered(u, d)'
<1>1. UNCHANGED <<traffic, client, announce, history>>
  BY DEF Reap
<1>2. Pending(u, d)' = Pending(u, d)
  BY <1>1 DEF Pending, Records
<1>3. \A i \in Index : LockingOn(i)' = LockingOn(i)
  BY <1>1 DEF LockingOn
<1>4. \A i \in Index : peers'[i] = NoPeer \/ (peers[i] # NoPeer /\ peers'[i].reported = peers[i].reported)
                          \/ peers'[i] = peers[i]
  <2>1. PICK expired \in SUBSET Active, forgotten \in SUBSET Inactive :
          peers' = [i \in Index |->
              IF i \in forgotten THEN NoPeer
              ELSE IF i \in expired THEN [peers[i] EXCEPT !.is_active = FALSE]
              ELSE peers[i]]
    BY DEF Reap
  <2>2. \A i \in expired : peers[i] # NoPeer /\ peers[i] \in Peer
    BY PresentPeer DEF Active
  <2>3. \A i \in expired : [peers[i] EXCEPT !.is_active = FALSE].reported = peers[i].reported
    BY <2>2 DEF Peer
  <2> QED BY <2>1, <2>2, <2>3
<1>5. ASSUME NEW i \in Index, NEW n \in Nat
      PROVE  Since(n, i, d)' <= Since(n, i, d) /\ Since(n, i, d)' \in Nat /\ Since(n, i, d) \in Nat
  <2>1. Since(n, i, d) \in Nat
    BY CountersTyped
  <2>2. Since(n, i, d)' = 0 \/ Since(n, i, d)' = Since(n, i, d)
    BY <1>4 DEF Since
  <2> QED BY <2>1, <2>2
<1>6. ASSUME NEW i \in {u} \X PeerId PROVE Ahead(i, d)' <= Ahead(i, d)
  <2>1. i \in Index
    BY ClientsFinite
  <2>2. CASE LockingOn(i) = {}
    <3>1. /\ Ahead(i, d) = Since(client[i][d], i, d)
          /\ Ahead(i, d)' = Since(client[i][d], i, d)'
      BY <1>1, <1>3, <2>1, <2>2 DEF Ahead
    <3>2. client[i][d] \in Nat
      BY <2>1, CountersTyped
    <3> QED BY <1>1, <1>5, <2>1, <3>1, <3>2
  <2>3. CASE LockingOn(i) # {}
    <3>1. PICK n \in Nat : n = announce[CHOOSE g \in LockingOn(i) : TRUE].reported[d]
      BY <2>1, <2>3, CountersTyped
    <3>2. Ahead(i, d) = SaturatingSub(client[i][d], n) + Since(n, i, d)
      BY <2>3, <3>1 DEF Ahead
    <3>3. Ahead(i, d)' = SaturatingSub(client[i][d], n) + Since(n, i, d)'
      <4>1. announce'[CHOOSE g \in LockingOn(i)' : TRUE].reported[d] = n /\ LockingOn(i)' # {}
        BY <1>1, <1>3, <2>1, <2>3, <3>1
      <4>2. Ahead(i, d)' =
              SaturatingSub(client'[i][d], announce'[CHOOSE g \in LockingOn(i)' : TRUE].reported[d])
                + Since(announce[CHOOSE g \in LockingOn(i) : TRUE].reported[d], i, d)'
        BY <4>1 DEF Ahead
      <4> QED BY <1>1, <4>1, <4>2 DEF Since
    <3>4. SaturatingSub(client[i][d], n) \in Nat
      BY <2>1, CountersTyped, SaturatingFacts
    <3> QED BY <1>5, <2>1, <3>2, <3>3, <3>4
  <2> QED BY <2>2, <2>3
<1> QED BY <1>1, <1>2, <1>6, StillCovered

\* Every step leaves all covered, for users whose announces do not cross.
LEMMA CoveredStep == TypeOK /\ TypeOK' /\ OneAtATime /\ AllCovered /\ [Next]_vars => AllCovered'
<1> SUFFICES ASSUME TypeOK, TypeOK', OneAtATime, AllCovered, [Next]_vars,
                    NEW u \in User \ crossed', NEW d \in Direction
             PROVE  Covered(u, d)'
  BY DEF AllCovered
<1>1. ASSUME NEW h \in Handler, Announce(h) PROVE Covered(u, d)'
  <2>1. u \in User \ crossed
    BY <1>1, AskedBefore, AskedNow
  <2>2. Covered(u, d)
    BY <2>1 DEF AllCovered
  <2>3. CASE Receive(h)
    BY <2>2, <2>3, CoveredAtReceive
  <2>4. CASE Reject(h)
    BY <2>1, <2>2, <2>4, CoveredAtReject
  <2>5. CASE Stop(h) \/ Modify(h) \/ Insert(h)
    BY <2>1, <2>2, <2>5, CoveredAtLock
  <2>6. CASE QueueHistory(h)
    BY <2>2, <2>6, CoveredAtQueueHistory
  <2>7. CASE QueueUser(h) \/ QueueTorrent(h)
    BY <2>2, <2>7, CoveredAtQueues
  <2> QED BY <1>1, <2>3, <2>4, <2>5, <2>6, <2>7 DEF Announce
<1>2. ASSUME NEW i \in Index, Transfer(i) PROVE Covered(u, d)'
  <2>1. Covered(u, d)
    BY <1>2 DEF Transfer, AllCovered
  <2> QED BY <1>2, <2>1, CoveredAtTransfer
<1>3. ASSUME NEW i \in Index, Restart(i) PROVE Covered(u, d)'
  <2>1. Covered(u, d)
    BY <1>3 DEF Restart, AllCovered
  <2> QED BY <1>3, <2>1, CoveredAtRestart
<1>4. CASE Reap
  <2>1. Covered(u, d)
    BY <1>4 DEF Reap, AllCovered
  <2> QED BY <1>4, <2>1, CoveredAtReap
<1>5. CASE UNCHANGED vars
  <2>1. Covered(u, d)
    BY <1>5 DEF vars, AllCovered
  <2>2. Pending(u, d)' = Pending(u, d) /\ Aheads(u, d)' = Aheads(u, d)
    BY <1>5 DEF vars, Pending, Records, Aheads, Ahead, Since, LockingOn
  <2> QED BY <1>5, <2>1, <2>2 DEF vars, Covered, TrafficOf
<1> QED BY <1>1, <1>2, <1>3, <1>4, <1>5 DEF Next

\* Initially nothing was transferred, and nothing is ahead.
LEMMA CoveredInit == Init => AllCovered
<1> SUFFICES ASSUME Init, NEW u \in User, NEW d \in Direction PROVE Covered(u, d)
  BY DEF AllCovered
<1>1. TypeOK /\ CoverTyped
  BY TypeInit, CoverTypes
<1>2. Nothing[d] = 0
  BY DEF Nothing, Direction
<1>3. \A i \in {u} \X PeerId : Aheads(u, d)[i] = 0 /\ traffic[i][d] = 0
  <2>1. \A i \in Index : LockingOn(i) = {} /\ peers[i] = NoPeer /\ traffic[i][d] = 0
    BY <1>2 DEF Init, LockingOn, Idle
  <2> QED BY <2>1, ClientsFinite DEF Aheads, Ahead, Since
<1>4. \A h \in Handler : Pending(u, d)[h] = 0
  BY DEF Init, Pending, Records, Idle
<1>5. history[u].actual[d] = 0
  BY <1>2 DEF Init
<1>6. SumFunction(Aheads(u, d)) = 0
  BY <1>1, <1>3, ClientsFinite, TotalOfZeros DEF CoverTyped
<1>7. SumFunction(Pending(u, d)) = 0
  BY <1>1, <1>4, ClientsFinite, TotalOfZeros DEF CoverTyped
<1>8. TrafficOf(u, d) = 0
  BY <1>1, <1>3, ClientsFinite, TotalOfZeros DEF CoverTyped, TrafficOf
<1> QED BY <1>5, <1>6, <1>7, <1>8 DEF Covered

\* What is covered was transferred: the rest of the sum is not negative.
LEMMA CoveredIsEarned == TypeOK /\ AllCovered => CreditIsEarned
<1> SUFFICES ASSUME TypeOK, AllCovered, NEW u \in User \ crossed, NEW d \in Direction
             PROVE  history[u].actual[d] <= TrafficOf(u, d)
  BY DEF CreditIsEarned, WithinTraffic
<1>1. CoverTyped /\ CoverSummed
  BY CoverTypes, CoverSums
<1>2. SumFunction(Aheads(u, d)) \in Nat
  <2>1. \A i \in {u} \X PeerId : Aheads(u, d)[i] >= 0
    <3>1. \A i \in {u} \X PeerId : Ahead(i, d) \in Nat
      BY ClientsFinite, AheadType
    <3> QED BY <3>1 DEF Aheads
  <2> QED BY <1>1, <2>1, ClientsFinite, TotalOfNaturals DEF CoverTyped
<1>3. SumFunction(Pending(u, d)) \in Nat
  <2>1. \A h \in Handler : Records(h, u) => announce[h].change[d] \in Nat
    <3>1. \A x \in Amounts : x.uploaded \in Nat /\ x.downloaded \in Nat
      BY DEF Amounts
    <3>2. \A x \in Amounts : x[d] \in Nat
      BY <3>1 DEF Direction
    <3> QED BY <3>2, RequestPhases DEF Records, Changed
  <2>2. \A h \in Handler : Pending(u, d)[h] >= 0
    BY <2>1 DEF Pending
  <2> QED BY <1>1, <2>2, ClientsFinite, TotalOfNaturals DEF CoverTyped
<1>4. history[u].actual[d] \in Int /\ TrafficOf(u, d) \in Int
  BY <1>1 DEF CoverTyped, CoverSummed
<1>5. history[u].actual[d] + SumFunction(Pending(u, d)) + SumFunction(Aheads(u, d))
        <= TrafficOf(u, d)
  BY DEF AllCovered, Covered
<1> QED BY <1>2, <1>3, <1>4, <1>5

\* A user whose announces come one after the other is never credited more than
\* the user's clients have transferred in all their sessions: however many
\* clients and sessions there are, and whatever is refused, stopped or reaped in
\* between (announce.rs, the change since the previous announce).
THEOREM CreditEarned == Spec => []CreditIsEarned
<1>1. Init => TypeOK /\ OneAtATime /\ AllCovered
  <2>1. Init => OneAtATime
    BY DEF Init, OneAtATime, Asks
  <2> QED BY <2>1, TypeInit, CoveredInit
<1>2. TypeOK /\ OneAtATime /\ AllCovered /\ [Next]_vars
        => TypeOK' /\ OneAtATime' /\ AllCovered'
  BY TypeStep, OneStep, CoveredStep
<1> QED BY <1>1, <1>2, CoveredIsEarned, PTL DEF Spec

(***************************************************************************)
(* Across crashes (Recovery).  A peer that is gone from memory may still   *)
(* have its row, from which the next process goes on: so what a client     *)
(* could be credited is counted from the row, not from the peer.           *)
(***************************************************************************)
\* The types of what Recovery adds to Traffic.
RecoveryTyped ==
    /\ handed \in [Index -> Peer \cup {NoPeer}]
    /\ peersTable \in [Index -> Peer \cup {NoPeer}]
    /\ historyTable \in [User -> History]
    /\ usersTable \in [User -> Amounts]
    /\ torrentsTable \in [times_completed : Nat, balance : Int]
    /\ repeated \in [User -> Amounts]

\* A peer is what its row says, there is no row before it was handed over, and a
\* history only grows.
RowsFollow ==
    /\ \A i \in Index : peers[i] # NoPeer =>
          handed[i] # NoPeer /\ handed[i].reported = peers[i].reported
    /\ \A i \in Index : handed[i] = NoPeer => peersTable[i] = NoPeer
    /\ \A u \in User, d \in Direction : historyTable[u].actual[d] <= history[u].actual[d]

\* What a report of n would have client i credited beyond its row, at most.
SinceRow(n, i, d) ==
    IF handed[i] = NoPeer THEN 0 ELSE SaturatingSub(n, handed[i].reported[d])

\* What client i has counted beyond its row, by way of the report on its way.
Beyond(i, d) ==
    IF LockingOn(i) = {} THEN SinceRow(client[i][d], i, d)
    ELSE LET n == announce[CHOOSE h \in LockingOn(i) : TRUE].reported[d]
         IN  SaturatingSub(client[i][d], n) + SinceRow(n, i, d)

\* What each client has transferred, but for what it could be credited yet.
Settled(u, d) == [i \in {u} \X PeerId |-> traffic[i][d] - Beyond(i, d)]

\* What was credited, and what is about to be, was transferred and is settled, or
\* a crash has made the tracker forget that it was.
Accounted(u, d) ==
    history[u].actual[d] + SumFunction(Pending(u, d))
        <= SumFunction(Settled(u, d)) + repeated[u][d]

AllAccounted == \A u \in User \ crossed, d \in Direction : Accounted(u, d)

\* A step that is no crash is one of Traffic, or changes none of its variables.
Ordinary ==
    \/ \E h \in Handler : AnnounceAndHand(h)
    \/ Go
    \/ WritePeers \/ WriteHistories \/ WriteUsers \/ WriteTorrents
    \/ UNCHANGED recoveryVars

\* So it is.
LEMMA OrdinarySteps == Ordinary => [Next]_vars
BY DEF Ordinary, AnnounceAndHand, Go, Announce, Next, WritePeers, WriteHistories, WriteUsers,
       WriteTorrents, recoveryVars, vars

\* The amount of a direction is a natural number.
LEMMA AmountType ==
    ASSUME NEW x \in Amounts, NEW d \in Direction
    PROVE  x[d] \in Nat
<1>1. x.uploaded \in Nat /\ x.downloaded \in Nat
  BY DEF Amounts
<1> QED BY <1>1 DEF Direction

\* The counters that are compared with the rows are natural numbers.
LEMMA RowCounters ==
    ASSUME TypeOK, RecoveryTyped, NEW i \in Index, NEW d \in Direction
    PROVE  /\ client[i][d] \in Nat /\ traffic[i][d] \in Nat
           /\ handed[i] # NoPeer => handed[i] \in Peer /\ handed[i].reported[d] \in Nat
           /\ peersTable[i] # NoPeer =>
                 peersTable[i] \in Peer /\ peersTable[i].reported[d] \in Nat
           /\ \A h \in LockingOn(i) : announce[h].reported[d] \in Nat
           /\ \A n \in Nat : SinceRow(n, i, d) \in Nat
           /\ Beyond(i, d) \in Nat
<1>1. /\ client[i][d] \in Nat /\ traffic[i][d] \in Nat
      /\ \A h \in LockingOn(i) : announce[h].reported[d] \in Nat
  BY CountersTyped
<1>2. /\ handed[i] # NoPeer => handed[i] \in Peer /\ handed[i].reported[d] \in Nat
      /\ peersTable[i] # NoPeer => peersTable[i] \in Peer /\ peersTable[i].reported[d] \in Nat
  BY AmountType DEF RecoveryTyped, Peer
<1>3. ASSUME NEW n \in Nat PROVE SinceRow(n, i, d) \in Nat
  <2>1. CASE handed[i] = NoPeer
    BY <2>1 DEF SinceRow
  <2>2. CASE handed[i] # NoPeer
    <3>1. SaturatingSub(n, handed[i].reported[d]) \in Nat
      BY <1>2, <2>2, SaturatingFacts
    <3> QED BY <2>2, <3>1 DEF SinceRow
  <2> QED BY <2>1, <2>2
<1>4. Beyond(i, d) \in Nat
  <2>1. CASE LockingOn(i) = {}
    BY <1>1, <1>3, <2>1 DEF Beyond
  <2>2. CASE LockingOn(i) # {}
    <3> DEFINE n == announce[CHOOSE h \in LockingOn(i) : TRUE].reported[d]
               c == client[i][d]
    <3>1. n \in Nat /\ c \in Nat
      BY <1>1, <2>2
    <3>2. Beyond(i, d) = SaturatingSub(c, n) + SinceRow(n, i, d)
      BY <2>2 DEF Beyond
    <3> HIDE DEF n, c
    <3>3. SaturatingSub(c, n) \in Nat /\ SinceRow(n, i, d) \in Nat
      BY <1>3, <3>1, SaturatingFacts
    <3> QED BY <3>2, <3>3
  <2> QED BY <2>1, <2>2
<1> QED BY <1>1, <1>2, <1>3, <1>4

\* What the sums add up are integers, and so are they.
SettledTyped ==
    \A u \in User, d \in Direction :
        /\ Settled(u, d) \in [{u} \X PeerId -> Int]
        /\ SumFunction(Settled(u, d)) \in Int
        /\ repeated[u][d] \in Nat

\* That follows from the types.
LEMMA SettledTypes == TypeOK /\ RecoveryTyped => SettledTyped
<1> SUFFICES ASSUME TypeOK, RecoveryTyped, NEW u \in User, NEW d \in Direction
             PROVE  /\ Settled(u, d) \in [{u} \X PeerId -> Int]
                    /\ SumFunction(Settled(u, d)) \in Int
                    /\ repeated[u][d] \in Nat
  BY DEF SettledTyped
<1>1. \A i \in {u} \X PeerId : traffic[i][d] - Beyond(i, d) \in Int
  <2>1. \A i \in {u} \X PeerId : traffic[i][d] \in Nat /\ Beyond(i, d) \in Nat
    BY ClientsFinite, RowCounters
  <2> QED BY <2>1
<1>2. Settled(u, d) \in [{u} \X PeerId -> Int]
  BY <1>1 DEF Settled
<1>3. SumFunction(Settled(u, d)) \in Int
  BY <1>2, ClientsFinite, TotalType
<1>4. repeated[u][d] \in Nat
  BY AmountType DEF RecoveryTyped
<1> QED BY <1>2, <1>3, <1>4

\* What a section under the lock hands to the peers queue is a row.
LEMMA HandType ==
    ASSUME TypeOK, RecoveryTyped, NEW h \in Handler, AnnounceAndHand(h)
    PROVE  /\ handed' \in [Index -> Peer \cup {NoPeer}]
           /\ announce[h] \in Locking /\ announce[h].pc = "locking"
           /\ announce[h].index \in Index /\ Announce(h)
           /\ handed'[announce[h].index] # NoPeer
           /\ handed'[announce[h].index].reported = announce[h].reported
           /\ \A i \in Index \ {announce[h].index} : handed'[i] = handed[i]
<1> DEFINE a == announce[h]
           row == [is_active |-> ~a.stopped, is_seeder |-> a.is_seeder, reported |-> a.reported]
<1>1. a \in Locking /\ Announce(h)
  BY LockSections DEF AnnounceAndHand, Announce
<1>2. a.index \in Index /\ a.pc = "locking" /\ row \in Peer
  BY <1>1 DEF Locking, Peer
<1>3. handed' = [handed EXCEPT ![a.index] = row]
  BY DEF AnnounceAndHand, Hand
<1>4. row # NoPeer /\ row.reported = a.reported
  BY <1>2, SentinelAssumption
<1> HIDE DEF row
<1> QED BY <1>1, <1>2, <1>3, <1>4 DEF RecoveryTyped

\* An ordinary step keeps the types.
LEMMA RecoveryTypeStep ==
    ASSUME TypeOK, RecoveryTyped, Ordinary
    PROVE  TypeOK' /\ RecoveryTyped'
<1>1. TypeOK'
  BY OrdinarySteps, TypeStep
<1>2. ASSUME NEW h \in Handler, AnnounceAndHand(h) PROVE RecoveryTyped'
  <2>1. handed' \in [Index -> Peer \cup {NoPeer}]
    BY <1>2, HandType
  <2> QED BY <1>2, <2>1 DEF AnnounceAndHand, RecoveryTyped, tables
<1>3. CASE Go
  BY <1>1, <1>3 DEF Go, RecoveryTyped, tables
<1>4. CASE WritePeers \/ WriteHistories \/ WriteUsers \/ WriteTorrents
  BY <1>1, <1>4 DEF WritePeers, WriteHistories, WriteUsers, WriteTorrents, RecoveryTyped, TypeOK, vars
<1>5. CASE UNCHANGED recoveryVars
  BY <1>1, <1>5 DEF recoveryVars, tables, RecoveryTyped
<1> QED BY <1>1, <1>2, <1>3, <1>4, <1>5 DEF Ordinary

\* What crashes have made the tracker forget is an amount.
LEMMA ForgottenType ==
    ASSUME TypeOK, RecoveryTyped, NEW u \in User
    PROVE  /\ ForgottenOf(u) \in Amounts
           /\ \A i \in {u} \X PeerId : Forgotten(i) \in Amounts
           /\ \A d \in Direction :
                 /\ [i \in {u} \X PeerId |-> Forgotten(i)[d]] \in [{u} \X PeerId -> Int]
                 /\ ForgottenOf(u)[d] = SumFunction([i \in {u} \X PeerId |-> Forgotten(i)[d]])
<1>1. ASSUME NEW i \in {u} \X PeerId PROVE Forgotten(i) \in Amounts
  <2>1. i \in Index
    BY ClientsFinite
  <2>2. CASE handed[i] = NoPeer \/ peersTable[i] = NoPeer
    BY <2>2 DEF Forgotten, Nothing, Amounts
  <2>3. CASE ~(handed[i] = NoPeer \/ peersTable[i] = NoPeer)
    <3>1. handed[i].reported \in Amounts /\ peersTable[i].reported \in Amounts
      BY <2>1, <2>3 DEF RecoveryTyped, Peer
    <3> QED BY <2>3, <3>1, DifferenceByDirection DEF Forgotten
  <2> QED BY <2>2, <2>3
<1> DEFINE f(d) == [i \in {u} \X PeerId |-> Forgotten(i)[d]]
<1>2. ASSUME NEW d \in Direction
      PROVE  f(d) \in [{u} \X PeerId -> Int] /\ SumFunction(f(d)) \in Nat
  <2>1. \A i \in {u} \X PeerId : Forgotten(i)[d] \in Nat
    BY <1>1, AmountType
  <2>2. f(d) \in [{u} \X PeerId -> Int] /\ \A i \in {u} \X PeerId : f(d)[i] >= 0
    BY <2>1
  <2> HIDE DEF f
  <2>3. SumFunction(f(d)) \in Nat
    BY <2>2, ClientsFinite, TotalOfNaturals
  <2> QED BY <2>2, <2>3
<1>3. "uploaded" \in Direction /\ "downloaded" \in Direction
  BY DEF Direction
<1>4. ForgottenOf(u) = [uploaded |-> SumFunction(f("uploaded")),
                        downloaded |-> SumFunction(f("downloaded"))]
  BY DEF ForgottenOf
<1>5. SumFunction(f("uploaded")) \in Nat /\ SumFunction(f("downloaded")) \in Nat
  BY <1>2, <1>3
<1>6. \A d \in Direction : d = "uploaded" \/ d = "downloaded"
  BY DEF Direction
<1> HIDE DEF f
<1>7. ForgottenOf(u) \in Amounts
  BY <1>4, <1>5 DEF Amounts
<1>8. \A d \in Direction : ForgottenOf(u)[d] = SumFunction(f(d))
  BY <1>4, <1>6
<1> QED BY <1>1, <1>2, <1>7, <1>8 DEF f

\* A crash keeps the types.
LEMMA CrashType ==
    ASSUME TypeOK, RecoveryTyped, Crash
    PROVE  TypeOK' /\ RecoveryTyped'
<1>1. /\ peers' \in [Index -> Peer \cup {NoPeer}] /\ history' \in [User -> History]
      /\ credit' \in [User -> Amounts] /\ torrent' \in [times_completed : Nat, balance : Int]
      /\ completed' \in Nat
  BY DEF Crash, Loaded, RecoveryTyped
<1>2. announce' \in [Handler -> Request]
  BY DEF Crash, Request
<1>3. TypeOK'
  BY <1>1, <1>2 DEF Crash, TypeOK
<1>4. repeated' \in [User -> Amounts]
  <2>1. \A u \in User : Plus(repeated[u], ForgottenOf(u)) \in Amounts
    BY ForgottenType, AmountsByDirection DEF RecoveryTyped
  <2> QED BY <2>1 DEF Crash
<1>5. RecoveryTyped'
  BY <1>4 DEF Crash, RecoveryTyped, tables
<1> QED BY <1>3, <1>5

\* The reaper takes a peer away or leaves what it has reported (scheduler.rs).
LEMMA ReapLeavesReports ==
    ASSUME TypeOK, Reap, NEW i \in Index
    PROVE  peers'[i] # NoPeer => peers[i] # NoPeer /\ peers'[i].reported = peers[i].reported
<1>1. PICK expired \in SUBSET Active, forgotten \in SUBSET Inactive :
        peers' = [k \in Index |->
            IF k \in forgotten THEN NoPeer
            ELSE IF k \in expired THEN [peers[k] EXCEPT !.is_active = FALSE]
            ELSE peers[k]]
  BY DEF Reap
<1>2. \A k \in expired : peers[k] # NoPeer /\ peers[k] \in Peer
  BY PresentPeer DEF Active
<1>3. \A k \in expired : [peers[k] EXCEPT !.is_active = FALSE].reported = peers[k].reported
  BY <1>2 DEF Peer
<1> QED BY <1>1, <1>2, <1>3

\* A history only grows, when a request tells the queue of it (announce.rs).
LEMMA HistoryGrows ==
    ASSUME TypeOK, [Next]_vars, NEW u \in User, NEW d \in Direction
    PROVE  history[u].actual[d] <= history'[u].actual[d]
<1>0. history[u].actual \in Amounts /\ history[u].actual[d] \in Nat
  BY AmountType DEF TypeOK, History
<1>1. ASSUME NEW h \in Handler, QueueHistory(h)
      PROVE  history[u].actual[d] <= history'[u].actual[d]
  <2> DEFINE a == announce[h]
             v == a.index[1]
  <2>1. PICK credited \in Amounts :
          history' = [history EXCEPT ![v] =
              [is_active |-> a.is_active, actual |-> Plus(history[v].actual, a.change),
               credited |-> Plus(history[v].credited, credited)]]
    BY <1>1, QueueHistoryDoes
  <2>2. a.change \in Amounts /\ v \in User
    BY <1>1, QueueHistoryDoes DEF Changed
  <2>3. CASE u = v
    <3>1. history'[u].actual = Plus(history[u].actual, a.change)
      BY <2>1, <2>3 DEF TypeOK
    <3>2. Plus(history[u].actual, a.change)[d] = history[u].actual[d] + a.change[d]
          /\ a.change[d] \in Nat
      BY <1>0, <2>2, AmountsByDirection
    <3> QED BY <1>0, <3>1, <3>2
  <2>4. CASE u # v
    <3>1. history'[u] = history[u]
      BY <2>1, <2>4 DEF TypeOK
    <3> QED BY <1>0, <3>1
  <2> QED BY <2>3, <2>4
<1>2. (\E h \in Handler : QueueHistory(h)) \/ UNCHANGED history
  BY DEF Next, Announce, Transfer, Restart, Receive, Reject, Stop, Modify, Insert, Replace,
         QueueUser, QueueTorrent, Reap, vars
<1> QED BY <1>0, <1>1, <1>2

\* What a section under the lock does with the peer: it is gone, or it is the row.
LEMMA PeerHanded ==
    ASSUME TypeOK, RecoveryTyped, NEW h \in Handler, AnnounceAndHand(h), NEW i \in Index
    PROVE  /\ i # announce[h].index => peers'[i] = peers[i]
           /\ i = announce[h].index /\ peers'[i] # NoPeer
                 => peers'[i].reported = announce[h].reported
           /\ UNCHANGED <<client, traffic, history>>
<1> DEFINE a == announce[h]
<1>1. a \in Locking /\ a.index \in Index /\ Announced(a).reported = a.reported
  BY HandType DEF Announced
<1>2. PICK new, change, completion, is_active :
        Replace(h, new, change, completion, is_active) /\ new \in {NoPeer, Announced(a)}
  BY DEF AnnounceAndHand, Stop, Modify, Insert
<1>3. peers' = [peers EXCEPT ![a.index] = new] /\ UNCHANGED <<client, traffic, history>>
  BY <1>2 DEF Replace
<1> QED BY <1>1, <1>2, <1>3 DEF TypeOK

\* The rows follow the peers, the tables the rows, and the histories' table the
\* histories.
LEMMA RowsStep ==
    ASSUME TypeOK, RecoveryTyped, RowsFollow, Ordinary
    PROVE  RowsFollow'
<1>0. \A u \in User, d \in Direction : history[u].actual[d] <= history'[u].actual[d]
                                       /\ history[u].actual[d] \in Nat
                                       /\ history'[u].actual[d] \in Nat
                                       /\ historyTable[u].actual[d] \in Nat
                                       /\ historyTable[u].actual[d] <= history[u].actual[d]
  <2>1. \A u \in User, d \in Direction : history[u].actual[d] <= history'[u].actual[d]
    BY OrdinarySteps, HistoryGrows
  <2>2. TypeOK'
    BY RecoveryTypeStep
  <2>3. \A x \in History, d \in Direction : x.actual[d] \in Nat
    BY AmountType DEF History
  <2>4. /\ history \in [User -> History] /\ history' \in [User -> History]
        /\ historyTable \in [User -> History]
    BY <2>2 DEF TypeOK, RecoveryTyped
  <2> QED BY <2>1, <2>3, <2>4 DEF RowsFollow
<1>1. ASSUME NEW h \in Handler, AnnounceAndHand(h) PROVE RowsFollow'
  <2> DEFINE j == announce[h].index
  <2>1. /\ j \in Index /\ handed'[j] # NoPeer /\ handed'[j].reported = announce[h].reported
        /\ \A i \in Index \ {j} : handed'[i] = handed[i]
        /\ UNCHANGED <<peersTable, historyTable, history>>
    <3>1. UNCHANGED <<peersTable, historyTable, history>>
      BY <1>1, HandType, PeerHanded DEF AnnounceAndHand, tables
    <3> QED BY <1>1, <3>1, HandType
  <2>2. ASSUME NEW i \in Index, peers'[i] # NoPeer
        PROVE  handed'[i] # NoPeer /\ handed'[i].reported = peers'[i].reported
    BY <1>1, <2>1, <2>2, PeerHanded DEF RowsFollow
  <2>3. ASSUME NEW i \in Index, handed'[i] = NoPeer PROVE peersTable'[i] = NoPeer
    BY <2>1, <2>3 DEF RowsFollow
  <2> QED BY <2>1, <2>2, <2>3 DEF RowsFollow
<1>2. CASE Go
  <2>1. \A i \in Index :
          peers'[i] # NoPeer => peers[i] # NoPeer /\ peers'[i].reported = peers[i].reported
    <3>1. Reap \/ UNCHANGED peers
      BY <1>2 DEF Go, Transfer, Restart, Receive, Reject, QueueHistory, QueueUser, QueueTorrent
    <3> QED BY <3>1, ReapLeavesReports
  <2>2. UNCHANGED <<handed, peersTable, historyTable>>
    BY <1>2 DEF Go, tables
  <2>3. \A u \in User, d \in Direction : historyTable[u].actual[d] <= history'[u].actual[d]
    BY <1>0
  <2> QED BY <2>1, <2>2, <2>3 DEF RowsFollow
<1>3. CASE WritePeers \/ WriteHistories \/ WriteUsers \/ WriteTorrents
  <2>1. UNCHANGED <<peers, handed, history>> /\ peersTable' \in {peersTable, handed}
        /\ historyTable' \in {historyTable, history}
    BY <1>3 DEF WritePeers, WriteHistories, WriteUsers, WriteTorrents, vars
  <2>2. \A u \in User, d \in Direction : historyTable'[u].actual[d] <= history[u].actual[d]
    BY <1>0, <2>1
  <2> QED BY <2>1, <2>2 DEF RowsFollow
<1>4. CASE UNCHANGED recoveryVars
  BY <1>4 DEF recoveryVars, vars, tables, RowsFollow
<1> QED BY <1>1, <1>2, <1>3, <1>4 DEF Ordinary

\* A step that settles no less, and tells the history nothing, leaves all accounted.
LEMMA StillAccounted ==
    ASSUME TypeOK, TypeOK', RecoveryTyped, RecoveryTyped', NEW u \in User, NEW d \in Direction,
           Accounted(u, d), repeated' = repeated, history'[u].actual = history[u].actual,
           Pending(u, d)' = Pending(u, d),
           \A i \in {u} \X PeerId :
              traffic[i][d] - Beyond(i, d) <= traffic'[i][d] - Beyond(i, d)'
    PROVE  Accounted(u, d)'
<1>1. CoverTyped /\ CoverSummed /\ SettledTyped /\ SettledTyped'
  BY CoverTypes, CoverSums, SettledTypes, PTL
<1>2. Settled(u, d) \in [{u} \X PeerId -> Int] /\ Settled(u, d)' \in [{u} \X PeerId -> Int]
  BY <1>1 DEF SettledTyped
<1>3. \A i \in {u} \X PeerId : Settled(u, d)[i] <= Settled(u, d)'[i]
  BY DEF Settled
<1>4. SumFunction(Settled(u, d)) <= SumFunction(Settled(u, d)')
  BY <1>2, <1>3, ClientsFinite, TotalMonotone
<1> DEFINE told == history[u].actual[d]
           pending == SumFunction(Pending(u, d))
           settled == SumFunction(Settled(u, d))
           settled1 == SumFunction(Settled(u, d)')
           again == repeated[u][d]
<1>5. told \in Int /\ pending \in Int /\ settled \in Int /\ settled1 \in Int
  BY <1>1 DEF CoverTyped, CoverSummed, SettledTyped
<1>6. again \in Int
  <2>1. again \in Nat
    BY <1>1 DEF SettledTyped
  <2> HIDE DEF again
  <2> QED BY <2>1
<1>7. told + pending <= settled + again /\ settled <= settled1
  BY <1>4 DEF Accounted
<1>8. Accounted(u, d)' = (told + pending <= settled1 + again)
  BY DEF Accounted
<1> HIDE DEF told, pending, settled, settled1, again
<1>9. told + pending <= settled1 + again
  BY <1>5, <1>6, <1>7
<1> QED BY <1>8, <1>9

\* What is beyond the rows is a natural number.
BeyondTyped == \A i \in Index, d \in Direction : Beyond(i, d) \in Nat

\* That follows from the types.
LEMMA BeyondTypes == TypeOK /\ RecoveryTyped => BeyondTyped
BY RowCounters DEF BeyondTyped

\* If no more is beyond the row, and the traffic is the same, no less is settled.
LEMMA NoMoreBeyond ==
    ASSUME TypeOK, TypeOK', RecoveryTyped, RecoveryTyped', NEW u \in User, NEW d \in Direction,
           NEW i \in {u} \X PeerId, traffic' = traffic, Beyond(i, d)' <= Beyond(i, d)
    PROVE  traffic[i][d] - Beyond(i, d) <= traffic'[i][d] - Beyond(i, d)'
<1>1. i \in Index
  BY ClientsFinite
<1>2. traffic[i][d] \in Nat /\ Beyond(i, d) \in Nat
  BY <1>1, RowCounters
<1>3. Beyond(i, d)' \in Nat
  <2>1. BeyondTyped'
    BY BeyondTypes, PTL
  <2> QED BY <1>1, <2>1 DEF BeyondTyped
<1> QED BY <1>2, <1>3

\* Over a detour by a report, a client is no less beyond its row.
LEMMA RowDetour ==
    ASSUME TypeOK, RecoveryTyped, NEW i \in Index, NEW d \in Direction, NEW c \in Nat, NEW n \in Nat
    PROVE  SinceRow(c, i, d) <= SaturatingSub(c, n) + SinceRow(n, i, d)
<1> DEFINE old == handed[i].reported[d]
<1>1. SaturatingSub(c, n) \in Nat
  BY SaturatingFacts
<1>2. CASE handed[i] = NoPeer
  BY <1>1, <1>2 DEF SinceRow
<1>3. CASE handed[i] # NoPeer
  <2>1. old \in Nat
    BY <1>3, RowCounters
  <2> HIDE DEF old
  <2>2. SaturatingSub(c, old) <= SaturatingSub(c, n) + SaturatingSub(n, old)
    BY <2>1, SaturatingFacts
  <2> QED BY <1>3, <2>2 DEF SinceRow, old
<1> QED BY <1>2, <1>3

\* What is beyond the row of a client depends on its counter, its row and the
\* request on its way alone.
LEMMA BeyondKept ==
    ASSUME NEW i \in Index, NEW d \in Direction,
           client'[i] = client[i], handed'[i] = handed[i],
           LockingOn(i)' = LockingOn(i),
           \A h \in LockingOn(i) : announce'[h].reported = announce[h].reported
    PROVE  Beyond(i, d)' = Beyond(i, d)
<1>1. \A n : SinceRow(n, i, d)' = SinceRow(n, i, d)
  BY DEF SinceRow
<1>2. CASE LockingOn(i) = {}
  BY <1>1, <1>2 DEF Beyond
<1>3. CASE LockingOn(i) # {}
  <2>1. (CHOOSE h \in LockingOn(i) : TRUE) \in LockingOn(i)
    BY <1>3
  <2> QED BY <1>1, <1>3, <2>1 DEF Beyond
<1> QED BY <1>2, <1>3

\* The step of another request leaves it (announce.rs).
LEMMA BeyondOfOthers ==
    ASSUME TypeOK, NEW h \in Handler, Announce(h), NEW i \in Index, NEW d \in Direction,
           handed'[i] = handed[i],
           ~(announce[h].pc = "locking" /\ announce[h].index = i),
           ~(announce'[h].pc = "locking" /\ announce'[h].index = i)
    PROVE  Beyond(i, d)' = Beyond(i, d)
<1>1. \A g \in Handler \ {h} : announce'[g] = announce[g]
  BY OthersKept
<1>2. LockingOn(i)' = LockingOn(i)
  BY <1>1 DEF LockingOn
<1>3. \A g \in LockingOn(i) : announce'[g].reported = announce[g].reported
  BY <1>1 DEF LockingOn
<1>4. client' = client
  BY DEF Announce, Receive, Reject, Stop, Modify, Insert, Replace, QueueHistory, QueueUser,
         QueueTorrent
<1> QED BY <1>2, <1>3, <1>4, BeyondKept

\* Of a user's one request that waits for the lock, it is counted from its report.
LEMMA BeyondOfOne ==
    ASSUME TypeOK, NEW h \in Handler, announce[h].pc = "locking", NEW d \in Direction,
           \A g \in Handler : Asks(g, announce[h].index[1]) => g = h
    PROVE  /\ LockingOn(announce[h].index) = {h}
           /\ Beyond(announce[h].index, d)
                = SaturatingSub(client[announce[h].index][d], announce[h].reported[d])
                    + SinceRow(announce[h].reported[d], announce[h].index, d)
<1>1. LockingOn(announce[h].index) = {h}
  BY DEF LockingOn, Asks, Idle
<1>2. (CHOOSE g \in {h} : TRUE) = h
  OBVIOUS
<1> QED BY <1>1, <1>2 DEF Beyond

\* A request that arrives reports what its client has counted by now.
LEMMA BeyondAtReceive ==
    ASSUME TypeOK, RecoveryTyped, NEW h \in Handler, Receive(h), handed' = handed,
           NEW u \in User \ crossed', NEW d \in Direction, NEW i \in {u} \X PeerId
    PROVE  Beyond(i, d)' <= Beyond(i, d)
<1>1. PICK j \in Index, stopped \in BOOLEAN, is_seeder \in BOOLEAN :
        /\ announce[h] = Idle
        /\ announce' = [announce EXCEPT ![h] =
              [pc |-> "locking", index |-> j, stopped |-> stopped, is_seeder |-> is_seeder,
               reported |-> client[j]]]
        /\ \A g \in Handler : Asks(g, u)' =>
              (g = h /\ u = j[1] /\ \A k \in Handler : ~Asks(k, u))
                  \/ (g # h /\ u # j[1] /\ Asks(g, u))
  BY AskedNow
<1>2. /\ announce'[h].pc = "locking" /\ announce'[h].index = j /\ announce'[h].reported = client[j]
      /\ announce[h].pc = "idle" /\ client' = client
  BY <1>1 DEF Receive, TypeOK, Idle
<1>3. \A g \in Handler \ {h} : announce'[g] = announce[g]
  BY OthersKept DEF Announce
<1>4. i \in Index /\ i[1] = u
  BY DEF Index
<1>5. Beyond(i, d) \in Nat
  BY <1>4, RowCounters
<1>6. CASE i # j
  <2>1. Beyond(i, d)' = Beyond(i, d)
    BY <1>2, <1>4, <1>6, BeyondOfOthers DEF Announce
  <2> QED BY <1>5, <2>1
<1>7. CASE i = j
  <2>1. Asks(h, u)'
    BY <1>2, <1>4, <1>7 DEF Asks, Idle
  <2>2. LockingOn(i) = {}
    BY <1>1, <1>4, <2>1 DEF LockingOn, Asks, Idle
  <2>3. LockingOn(i)' = {h}
    BY <1>2, <1>3, <1>7, <2>2 DEF LockingOn
  <2>4. (CHOOSE g \in {h} : TRUE) = h
    OBVIOUS
  <2>5. Beyond(i, d)' = SaturatingSub(client[i][d], client[i][d]) + SinceRow(client[i][d], i, d)
    BY <1>2, <1>7, <2>3, <2>4 DEF Beyond, SinceRow
  <2>6. Beyond(i, d) = SinceRow(client[i][d], i, d)
    BY <2>2 DEF Beyond
  <2>7. client[i][d] \in Nat
    BY <1>4, RowCounters
  <2>8. SaturatingSub(client[i][d], client[i][d]) = 0
    BY <2>7, SaturatingFacts
  <2> QED BY <1>5, <2>5, <2>6, <2>8
<1> QED BY <1>6, <1>7

\* One that is refused leaves its client no further beyond its row.
LEMMA BeyondAtReject ==
    ASSUME TypeOK, RecoveryTyped, OneAtATime, NEW h \in Handler, Reject(h), handed' = handed,
           NEW u \in User \ crossed, NEW d \in Direction, NEW i \in {u} \X PeerId
    PROVE  Beyond(i, d)' <= Beyond(i, d)
<1> DEFINE j == announce[h].index
           n == announce[h].reported[d]
<1>1. /\ announce[h].pc = "locking" /\ announce'[h].pc = "idle" /\ j \in Index
      /\ client' = client /\ Asks(h, j[1]) /\ j[1] \in User /\ n \in Nat
  <2>1. announce[h] \in Locking /\ announce[h].pc = "locking"
    BY RequestPhases DEF Reject
  <2>2. n \in Nat
    BY <2>1, AmountType DEF Locking
  <2> QED BY <2>1, <2>2 DEF Reject, TypeOK, Idle, Asks, Locking, Index
<1>2. \A g \in Handler \ {h} : announce'[g] = announce[g]
  BY OthersKept DEF Announce
<1>3. i \in Index /\ i[1] = u
  BY DEF Index
<1>4. Beyond(i, d) \in Nat
  BY <1>3, RowCounters
<1>5. CASE i # j
  <2>1. Beyond(i, d)' = Beyond(i, d)
    BY <1>1, <1>3, <1>5, BeyondOfOthers DEF Announce
  <2> QED BY <1>4, <2>1
<1>6. CASE i = j
  <2>1. \A g \in Handler : Asks(g, j[1]) => g = h
    BY <1>1, <1>3, <1>6 DEF OneAtATime
  <2>2. LockingOn(i) = {h}
        /\ Beyond(i, d) = SaturatingSub(client[i][d], n) + SinceRow(n, i, d)
    BY <1>1, <1>6, <2>1, BeyondOfOne
  <2>3. LockingOn(i)' = {}
    BY <1>1, <1>2, <2>2 DEF LockingOn
  <2>4. Beyond(i, d)' = SinceRow(client[i][d], i, d)
    BY <1>1, <2>3 DEF Beyond, SinceRow
  <2>5. client[i][d] \in Nat
    BY <1>3, RowCounters
  <2>6. SinceRow(client[i][d], i, d) <= SaturatingSub(client[i][d], n) + SinceRow(n, i, d)
    BY <1>1, <1>3, <2>5, RowDetour
  <2> QED BY <2>2, <2>4, <2>6
<1> QED BY <1>5, <1>6

\* What a client transfers it counts, and no more: no less is settled.
LEMMA SettledAtTransfer ==
    ASSUME TypeOK, RecoveryTyped, TypeOK', RecoveryTyped', NEW j \in Index, Transfer(j),
           handed' = handed, NEW u \in User, NEW d \in Direction, NEW i \in {u} \X PeerId
    PROVE  traffic[i][d] - Beyond(i, d) <= traffic'[i][d] - Beyond(i, d)'
<1>1. PICK unit \in Amounts :
        /\ client' = [client EXCEPT ![j] = Plus(@, unit)]
        /\ traffic' = [traffic EXCEPT ![j] = Plus(@, unit)]
  <2>1. \A unit \in {[uploaded |-> 1, downloaded |-> 0], [uploaded |-> 0, downloaded |-> 1]} :
          unit \in Amounts
    BY DEF Amounts
  <2> QED BY <2>1 DEF Transfer
<1>2. announce' = announce /\ LockingOn(i)' = LockingOn(i)
  BY DEF Transfer, LockingOn
<1>3. i \in Index
  BY ClientsFinite
<1>4. /\ client[i][d] \in Nat /\ traffic[i][d] \in Nat /\ Beyond(i, d) \in Nat
  BY <1>3, RowCounters
<1>5. CASE i # j
  <2>1. client'[i] = client[i] /\ traffic'[i] = traffic[i]
    BY <1>1, <1>3, <1>5 DEF TypeOK
  <2>2. Beyond(i, d)' = Beyond(i, d)
    BY <1>2, <1>3, <2>1, BeyondKept
  <2> QED BY <1>4, <2>1, <2>2
<1>6. CASE i = j
  <2> DEFINE c == client[i][d]
             m == unit[d]
             old == handed[i].reported[d]
  <2>1. m \in Nat /\ client'[i][d] = c + m /\ traffic'[i][d] = traffic[i][d] + m
    <3>1. /\ client[i] \in Amounts /\ traffic[i] \in Amounts
          /\ client'[i] = Plus(client[i], unit) /\ traffic'[i] = Plus(traffic[i], unit)
      BY <1>1, <1>6 DEF TypeOK
    <3> QED BY <3>1, AmountsByDirection
  <2>2. /\ c \in Nat /\ (handed[i] # NoPeer => old \in Nat)
        /\ \A n : SinceRow(n, i, d)' = SinceRow(n, i, d)
    BY <1>3, RowCounters DEF SinceRow
  <2>3. Beyond(i, d)' <= Beyond(i, d) + m
    <3>1. CASE LockingOn(i) = {}
      <4>1. Beyond(i, d) = SinceRow(c, i, d) /\ Beyond(i, d)' = SinceRow(c + m, i, d)
        BY <1>2, <2>1, <2>2, <3>1 DEF Beyond, SinceRow
      <4> HIDE DEF c, m, old
      <4>2. handed[i] # NoPeer => SaturatingSub(c + m, old) <= SaturatingSub(c, old) + m
        BY <2>1, <2>2, SaturatingFacts
      <4> QED BY <2>1, <4>1, <4>2 DEF SinceRow, old
    <3>2. CASE LockingOn(i) # {}
      <4> DEFINE n == announce[CHOOSE g \in LockingOn(i) : TRUE].reported[d]
      <4>1. n \in Nat
        BY <1>3, <3>2, RowCounters
      <4>2. Beyond(i, d) = SaturatingSub(c, n) + SinceRow(n, i, d)
        BY <3>2 DEF Beyond
      <4>3. Beyond(i, d)' = SaturatingSub(client'[i][d], n) + SinceRow(n, i, d)
        BY <1>2, <2>2, <3>2 DEF Beyond
      <4>4. SinceRow(n, i, d) \in Nat
        BY <1>3, <4>1, RowCounters
      <4> HIDE DEF n, c, m
      <4>5. SaturatingSub(c + m, n) <= SaturatingSub(c, n) + m /\ SaturatingSub(c, n) \in Nat
        BY <2>1, <2>2, <4>1, SaturatingFacts
      <4>6. SaturatingSub(c + m, n) \in Nat
        <5>1. c + m \in Nat
          BY <2>1, <2>2
        <5> QED BY <4>1, <5>1, SaturatingFacts
      <4> QED BY <2>1, <4>2, <4>3, <4>4, <4>5, <4>6
    <3> QED BY <3>1, <3>2
  <2>4. Beyond(i, d)' \in Nat
    <3>1. BeyondTyped'
      BY BeyondTypes, PTL
    <3> QED BY <1>3, <3>1 DEF BeyondTyped
  <2> HIDE DEF m
  <2> QED BY <1>4, <2>1, <2>3, <2>4
<1> QED BY <1>5, <1>6

\* A session begun anew counts from nothing.
LEMMA BeyondAtRestart ==
    ASSUME TypeOK, RecoveryTyped, NEW j \in Index, Restart(j), handed' = handed,
           NEW u \in User, NEW d \in Direction, NEW i \in {u} \X PeerId
    PROVE  Beyond(i, d)' <= Beyond(i, d)
<1>1. /\ announce' = announce /\ client'[j] = Nothing /\ LockingOn(i)' = LockingOn(i)
      /\ \A k \in Index \ {j} : client'[k] = client[k]
  BY DEF Restart, TypeOK, LockingOn
<1>2. i \in Index
  BY ClientsFinite
<1>3. Beyond(i, d) \in Nat
  BY <1>2, RowCounters
<1>4. CASE i # j
  <2>1. Beyond(i, d)' = Beyond(i, d)
    BY <1>1, <1>2, <1>4, BeyondKept
  <2> QED BY <1>3, <2>1
<1>5. CASE i = j
  <2>1. client'[i][d] = 0
    BY <1>1, <1>5 DEF Nothing, Direction
  <2>2. \A n : SinceRow(n, i, d)' = SinceRow(n, i, d)
    BY DEF SinceRow
  <2>3. CASE LockingOn(i) = {}
    <3>1. Beyond(i, d)' = SinceRow(0, i, d)
      BY <1>1, <2>1, <2>2, <2>3 DEF Beyond
    <3>2. SinceRow(0, i, d) = 0
      BY <1>2, RowCounters, SaturatingFacts DEF SinceRow
    <3> QED BY <1>3, <3>1, <3>2
  <2>4. CASE LockingOn(i) # {}
    <3> DEFINE n == announce[CHOOSE g \in LockingOn(i) : TRUE].reported[d]
               c == client[i][d]
    <3>1. n \in Nat /\ c \in Nat
      BY <1>2, <2>4, RowCounters
    <3>2. Beyond(i, d) = SaturatingSub(c, n) + SinceRow(n, i, d)
      BY <2>4 DEF Beyond
    <3>3. Beyond(i, d)' = SaturatingSub(client'[i][d], n) + SinceRow(n, i, d)
      BY <1>1, <2>2, <2>4 DEF Beyond
    <3>4. SinceRow(n, i, d) \in Nat
      BY <1>2, <3>1, RowCounters
    <3> HIDE DEF n, c
    <3>5. SaturatingSub(0, n) = 0 /\ SaturatingSub(c, n) \in Nat
      BY <3>1, SaturatingFacts
    <3> QED BY <2>1, <3>2, <3>3, <3>4, <3>5
  <2> QED BY <2>3, <2>4
<1> QED BY <1>4, <1>5

\* What is credited under the lock was beyond the row, and is so no longer: the
\* change is counted from the peer, and that is the row, if it is there.
LEMMA TakenFromBeyond ==
    ASSUME TypeOK, RecoveryTyped, OneAtATime, RowsFollow, NEW h \in Handler, AnnounceAndHand(h),
           NEW j, announce[h].index = j, j[1] \notin crossed, NEW d \in Direction
    PROVE  /\ announce'[h].pc = "histories" /\ announce'[h].index = j
           /\ announce'[h].change[d] \in Nat
           /\ announce'[h].change[d] + Beyond(j, d)' <= Beyond(j, d)
<1> DEFINE a == announce[h]
           n == a.reported[d]
           c == client[j][d]
           old == peers[j].reported[d]
<1>1. /\ a \in Locking /\ a.pc = "locking" /\ j \in Index /\ j[1] \in User
      /\ a.reported \in Amounts /\ Announce(h) /\ Asks(h, j[1])
      /\ handed'[j] # NoPeer /\ handed'[j].reported = a.reported
  BY HandType DEF Locking, Index, Asks, Idle
<1>2. PICK new, change, completion, is_active :
        /\ Replace(h, new, change, completion, is_active)
        /\ \/ peers[j] # NoPeer /\ change = Difference(a.reported, peers[j].reported)
           \/ peers[j] # NoPeer /\ change = Change(a.reported, peers[j].reported)
           \/ change = ChangeAtFirst(a.reported)
  BY DEF AnnounceAndHand, Stop, Modify, Insert, OldPeer
<1>3. /\ announce'[h].pc = "histories" /\ announce'[h].index = j /\ announce'[h].change = change
      /\ client' = client
  BY <1>1, <1>2 DEF Replace, TypeOK
<1>4. \A g \in Handler : Asks(g, j[1]) => g = h
  BY <1>1 DEF OneAtATime
<1>5. LockingOn(j) = {h} /\ Beyond(j, d) = SaturatingSub(c, n) + SinceRow(n, j, d)
  BY <1>1, <1>4, BeyondOfOne
<1>6. LockingOn(j)' = {}
  <2>1. \A g \in Handler \ {h} : announce'[g] = announce[g]
    BY <1>1, OthersKept
  <2> QED BY <1>3, <1>5, <2>1 DEF LockingOn
<1>7. Beyond(j, d)' = SaturatingSub(c, n)
  BY <1>1, <1>3, <1>6 DEF Beyond, SinceRow
<1>8. /\ c \in Nat /\ n \in Nat /\ (peers[j] # NoPeer => old \in Nat)
      /\ SinceRow(n, j, d) \in Nat
  <2>1. n \in Nat
    BY <1>1, AmountType
  <2> QED BY <1>1, <2>1, CountersTyped, RowCounters
<1>9. SaturatingSub(c, n) \in Nat /\ (peers[j] # NoPeer => SaturatingSub(n, old) \in Nat)
  <2> HIDE DEF c, n, old
  <2> QED BY <1>8, SaturatingFacts
<1>10. change[d] = 0 \/ (peers[j] # NoPeer /\ change[d] = SaturatingSub(n, old))
  <2>1. CASE peers[j] # NoPeer /\ change = Difference(a.reported, peers[j].reported)
    BY <1>1, <2>1, PresentPeer, DifferenceByDirection
  <2>2. CASE peers[j] # NoPeer /\ change = Change(a.reported, peers[j].reported)
    BY <1>1, <2>2, PresentPeer, DifferenceByDirection
  <2>3. CASE change = ChangeAtFirst(a.reported)
    BY <2>3 DEF ChangeAtFirst, Nothing, Direction
  <2> QED BY <1>2, <2>1, <2>2, <2>3
<1>11. CASE change[d] = 0
  BY <1>3, <1>5, <1>7, <1>8, <1>9, <1>11
<1>12. CASE peers[j] # NoPeer /\ change[d] = SaturatingSub(n, old)
  <2>1. SinceRow(n, j, d) = SaturatingSub(n, old)
    BY <1>1, <1>12 DEF SinceRow, RowsFollow
  <2> QED BY <1>3, <1>5, <1>7, <1>9, <1>12, <2>1
<1> QED BY <1>10, <1>11, <1>12

\* So the section under the lock settles no less than it makes pending.
LEMMA AccountedAtLock ==
    ASSUME TypeOK, TypeOK', RecoveryTyped, RecoveryTyped', OneAtATime, RowsFollow,
           NEW h \in Handler, AnnounceAndHand(h), NEW u \in User \ crossed, NEW d \in Direction,
           Accounted(u, d)
    PROVE  Accounted(u, d)'
<1>0. PICK j : announce[h].index = j
  OBVIOUS
<1>1. /\ announce[h].pc = "locking" /\ announce'[h].pc = "histories" /\ announce'[h].index = j
      /\ j \in Index /\ Announce(h) /\ Records(h, j[1])' /\ ~Records(h, j[1])
      /\ UNCHANGED <<client, traffic, history, repeated>>
      /\ \A i \in Index \ {j} : handed'[i] = handed[i]
  <2>1. /\ announce[h].pc = "locking" /\ j \in Index /\ Announce(h)
        /\ \A i \in Index \ {j} : handed'[i] = handed[i]
    BY <1>0, HandType
  <2>2. PICK new, change, completion, is_active : Replace(h, new, change, completion, is_active)
    BY DEF AnnounceAndHand, Stop, Modify, Insert
  <2>3. announce'[h].pc = "histories" /\ announce'[h].index = j
    BY <1>0, <2>2 DEF Replace, TypeOK
  <2>4. UNCHANGED <<client, traffic, history, repeated>>
    BY <2>1, PeerHanded DEF AnnounceAndHand
  <2> QED BY <2>1, <2>3, <2>4 DEF Records
<1>2. \A g \in Handler \ {h} : announce'[g] = announce[g]
  BY <1>1, OthersKept
<1>3. ASSUME NEW i \in {u} \X PeerId, i # j PROVE Beyond(i, d)' = Beyond(i, d)
  <2>1. i \in Index
    BY ClientsFinite
  <2> QED BY <1>0, <1>1, <1>3, <2>1, BeyondOfOthers
<1>4. \A i \in {u} \X PeerId : Beyond(i, d) \in Nat
  BY ClientsFinite, RowCounters
<1>5. CASE j[1] # u
  <2>1. \A i \in {u} \X PeerId : i # j
    BY <1>5
  <2>2. \A i \in {u} \X PeerId : Beyond(i, d)' <= Beyond(i, d)
    BY <1>3, <1>4, <2>1
  <2>3. Pending(u, d)' = Pending(u, d)
    BY <1>0, <1>1, <1>2, <1>5 DEF Pending, Records
  <2>4. \A i \in {u} \X PeerId :
          traffic[i][d] - Beyond(i, d) <= traffic'[i][d] - Beyond(i, d)'
    BY <1>1, <2>2, NoMoreBeyond
  <2> QED BY <1>1, <2>3, <2>4, StillAccounted
<1>6. CASE j[1] = u
  <2>1. CoverTyped /\ CoverTyped' /\ CoverSummed /\ CoverSummed' /\ SettledTyped /\ SettledTyped'
    BY CoverTypes, CoverSums, SettledTypes, PTL
  <2>2. /\ announce'[h].change[d] \in Nat
        /\ announce'[h].change[d] + Beyond(j, d)' <= Beyond(j, d)
    BY <1>0, <1>6, TakenFromBeyond
  <2>3. j \in {u} \X PeerId
    BY <1>1, <1>6 DEF Index
  <2>4. SumFunction(Settled(u, d)')
          = SumFunction(Settled(u, d)) + (traffic[j][d] - Beyond(j, d)') - (traffic[j][d] - Beyond(j, d))
    <3>1. \A i \in ({u} \X PeerId) \ {j} : Settled(u, d)'[i] = Settled(u, d)[i]
      BY <1>1, <1>3 DEF Settled
    <3>2. /\ Settled(u, d)'[j] = traffic[j][d] - Beyond(j, d)'
          /\ Settled(u, d)[j] = traffic[j][d] - Beyond(j, d)
      BY <1>1, <2>3 DEF Settled
    <3>3. /\ Settled(u, d) \in [{u} \X PeerId -> Int]
          /\ Settled(u, d)' \in [{u} \X PeerId -> Int] /\ IsFiniteSet({u} \X PeerId)
      BY <2>1, ClientsFinite DEF SettledTyped
    <3>4. SumFunction(Settled(u, d)')
            = SumFunction(Settled(u, d)) + Settled(u, d)'[j] - Settled(u, d)[j]
      BY <2>3, <3>1, <3>3, TotalOfChanged
    <3> QED BY <3>2, <3>4
  <2>5. SumFunction(Pending(u, d)') = SumFunction(Pending(u, d)) + announce'[h].change[d] - 0
    <3>1. \A g \in Handler \ {h} : Pending(u, d)'[g] = Pending(u, d)[g]
      BY <1>2 DEF Pending, Records
    <3>2. Pending(u, d)'[h] = announce'[h].change[d] /\ Pending(u, d)[h] = 0
      BY <1>1, <1>6 DEF Pending
    <3>3. /\ Pending(u, d) \in [Handler -> Int] /\ Pending(u, d)' \in [Handler -> Int]
          /\ IsFiniteSet(Handler)
      BY <2>1, ClientsFinite DEF CoverTyped
    <3>4. SumFunction(Pending(u, d)')
            = SumFunction(Pending(u, d)) + Pending(u, d)'[h] - Pending(u, d)[h]
      BY <3>1, <3>3, TotalOfChanged
    <3> QED BY <3>2, <3>4
  <2> DEFINE told == history[u].actual[d]
             pending == SumFunction(Pending(u, d))
             pending1 == SumFunction(Pending(u, d)')
             settled == SumFunction(Settled(u, d))
             settled1 == SumFunction(Settled(u, d)')
             again == repeated[u][d]
             change == announce'[h].change[d]
             own == Beyond(j, d)
             own1 == Beyond(j, d)'
             all == traffic[j][d]
  <2>6. told \in Int /\ pending \in Int /\ pending1 \in Int /\ settled \in Int /\ settled1 \in Int
    BY <2>1 DEF CoverTyped, CoverSummed, SettledTyped
  <2>7. own \in Nat /\ own1 \in Nat /\ change \in Nat /\ all \in Nat /\ again \in Nat
    <3>1. BeyondTyped'
      BY BeyondTypes, PTL
    <3>2. own1 \in Nat
      BY <1>1, <3>1 DEF BeyondTyped
    <3>3. again \in Nat
      BY <2>1 DEF SettledTyped
    <3> QED BY <1>1, <2>2, <3>2, <3>3, RowCounters
  <2>8. /\ change + own1 <= own /\ settled1 = settled + (all - own1) - (all - own)
        /\ pending1 = pending + change - 0
    BY <2>2, <2>4, <2>5
  <2>9. told + pending <= settled + again
    BY DEF Accounted
  <2>10. Accounted(u, d)' = (told + pending1 <= settled1 + again)
    BY <1>1 DEF Accounted
  <2> HIDE DEF told, pending, pending1, settled, settled1, again, change, own, own1, all
  <2>11. told + pending1 <= settled1 + again
    BY <2>6, <2>7, <2>8, <2>9
  <2> QED BY <2>10, <2>11
<1> QED BY <1>5, <1>6

\* Telling the histories queue moves the change from what is pending to what is
\* credited.
LEMMA AccountedAtQueueHistory ==
    ASSUME TypeOK, TypeOK', RecoveryTyped, RecoveryTyped', NEW h \in Handler, QueueHistory(h),
           UNCHANGED <<handed, repeated>>, NEW u \in User, NEW d \in Direction, Accounted(u, d)
    PROVE  Accounted(u, d)'
<1> DEFINE a == announce[h]
           v == a.index[1]
<1>1. /\ a.pc = "histories" /\ a \in Changed /\ v \in User /\ a.change \in Amounts /\ Announce(h)
      /\ UNCHANGED <<client, traffic>>
  BY QueueHistoryDoes DEF QueueHistory, Changed, Announce
<1>2. PICK credited \in Amounts :
        /\ history' = [history EXCEPT ![v] =
              [is_active |-> a.is_active, actual |-> Plus(history[v].actual, a.change),
               credited |-> Plus(history[v].credited, credited)]]
        /\ announce' = [announce EXCEPT ![h] =
              [pc |-> "users", index |-> a.index, change |-> a.change,
               completion |-> a.completion, credited |-> credited]]
  BY QueueHistoryDoes
<1>3. /\ announce'[h].pc = "users" /\ history'[v].actual = Plus(history[v].actual, a.change)
      /\ \A w \in User \ {v} : history'[w] = history[w]
  BY <1>1, <1>2 DEF TypeOK
<1>4. \A g \in Handler \ {h} : announce'[g] = announce[g]
  BY <1>1, OthersKept
<1>5. \A i \in {u} \X PeerId : Beyond(i, d)' = Beyond(i, d)
  BY <1>1, <1>3, BeyondOfOthers, ClientsFinite
<1>6. CASE v # u
  <2>1. Pending(u, d)' = Pending(u, d)
    BY <1>1, <1>3, <1>4, <1>6 DEF Pending, Records
  <2>2. \A i \in {u} \X PeerId : Beyond(i, d)' <= Beyond(i, d)
    <3>1. \A i \in {u} \X PeerId : Beyond(i, d) \in Nat
      BY ClientsFinite, RowCounters
    <3> QED BY <1>5, <3>1
  <2>3. \A i \in {u} \X PeerId :
          traffic[i][d] - Beyond(i, d) <= traffic'[i][d] - Beyond(i, d)'
    BY <1>1, <2>2, NoMoreBeyond
  <2> QED BY <1>3, <1>6, <2>1, <2>3, StillAccounted
<1>7. CASE v = u
  <2>1. CoverTyped /\ CoverTyped' /\ CoverSummed /\ SettledTyped
    BY CoverTypes, CoverSums, SettledTypes, PTL
  <2>2. SumFunction(Pending(u, d)') = SumFunction(Pending(u, d)) + 0 - a.change[d]
    <3>1. \A g \in Handler \ {h} : Pending(u, d)'[g] = Pending(u, d)[g]
      BY <1>4 DEF Pending, Records
    <3>2. Pending(u, d)'[h] = 0 /\ Pending(u, d)[h] = a.change[d]
      BY <1>1, <1>3, <1>7 DEF Pending, Records
    <3>3. /\ Pending(u, d) \in [Handler -> Int] /\ Pending(u, d)' \in [Handler -> Int]
          /\ IsFiniteSet(Handler)
      BY <2>1, ClientsFinite DEF CoverTyped
    <3>4. SumFunction(Pending(u, d)')
            = SumFunction(Pending(u, d)) + Pending(u, d)'[h] - Pending(u, d)[h]
      BY <3>1, <3>3, TotalOfChanged
    <3> QED BY <3>2, <3>4
  <2>3. Settled(u, d)' = Settled(u, d)
    BY <1>1, <1>5 DEF Settled
  <2>4. history'[u].actual[d] = history[u].actual[d] + a.change[d] /\ a.change[d] \in Nat
    <3>1. history[u].actual \in Amounts
      BY DEF TypeOK, History
    <3> QED BY <1>1, <1>3, <1>7, <3>1, AmountsByDirection
  <2> DEFINE told == history[u].actual[d]
             told1 == history'[u].actual[d]
             pending == SumFunction(Pending(u, d))
             pending1 == SumFunction(Pending(u, d)')
             settled == SumFunction(Settled(u, d))
             again == repeated[u][d]
             change == a.change[d]
  <2>5. told \in Int /\ pending \in Int /\ settled \in Int /\ again \in Nat /\ change \in Nat
    BY <2>1, <2>4 DEF CoverTyped, CoverSummed, SettledTyped
  <2>6. told1 = told + change /\ pending1 = pending + 0 - change
    BY <2>2, <2>4
  <2>7. told + pending <= settled + again
    BY DEF Accounted
  <2>8. Accounted(u, d)' = (told1 + pending1 <= settled + again)
    BY <2>3 DEF Accounted
  <2> HIDE DEF told, told1, pending, pending1, settled, again, change
  <2>9. told1 + pending1 <= settled + again
    BY <2>5, <2>6, <2>7
  <2> QED BY <2>8, <2>9
<1> QED BY <1>6, <1>7

\* What a crash makes the tracker forget is what it lets a client be credited
\* again.
LEMMA CrashForgets ==
    ASSUME TypeOK, RecoveryTyped, RowsFollow, Crash, NEW i \in Index, NEW d \in Direction
    PROVE  /\ Beyond(i, d)' <= Beyond(i, d) + Forgotten(i)[d]
           /\ Forgotten(i)[d] \in Nat
<1> DEFINE c == client[i][d]
           old == handed[i].reported[d]
           row == peersTable[i].reported[d]
<1>1. LockingOn(i)' = {} /\ client' = client /\ handed' = peersTable
  BY DEF Crash, LockingOn, Idle
<1>2. Beyond(i, d)' = IF peersTable[i] = NoPeer THEN 0 ELSE SaturatingSub(c, row)
  BY <1>1 DEF Beyond, SinceRow
<1>3. c \in Nat /\ Beyond(i, d) \in Nat
  BY RowCounters
<1>4. CASE peersTable[i] = NoPeer
  <2>1. Forgotten(i)[d] = 0
    BY <1>4 DEF Forgotten, Nothing, Direction
  <2> QED BY <1>2, <1>3, <1>4, <2>1
<1>5. CASE peersTable[i] # NoPeer
  <2>1. handed[i] # NoPeer /\ old \in Nat /\ row \in Nat
    BY <1>5, RowCounters DEF RowsFollow
  <2>2. Forgotten(i)[d] = SaturatingSub(old, row)
    <3>1. handed[i].reported \in Amounts /\ peersTable[i].reported \in Amounts
      BY <1>5, <2>1 DEF RecoveryTyped, Peer
    <3> QED BY <1>5, <2>1, <3>1, DifferenceByDirection DEF Forgotten
  <2>3. SinceRow(c, i, d) = SaturatingSub(c, old)
    BY <2>1 DEF SinceRow
  <2>4. SinceRow(c, i, d) <= Beyond(i, d)
    <3>1. CASE LockingOn(i) = {}
      BY <1>3, <3>1, RowCounters DEF Beyond
    <3>2. CASE LockingOn(i) # {}
      <4> DEFINE n == announce[CHOOSE g \in LockingOn(i) : TRUE].reported[d]
      <4>1. n \in Nat
        BY <3>2, RowCounters
      <4>2. Beyond(i, d) = SaturatingSub(c, n) + SinceRow(n, i, d)
        BY <3>2 DEF Beyond
      <4> HIDE DEF n, c
      <4>3. SinceRow(c, i, d) <= SaturatingSub(c, n) + SinceRow(n, i, d)
        BY <1>3, <4>1, RowDetour
      <4> QED BY <4>2, <4>3
    <3> QED BY <3>1, <3>2
  <2> HIDE DEF c, old, row
  <2>5. /\ SaturatingSub(c, row) <= SaturatingSub(c, old) + SaturatingSub(old, row)
        /\ SaturatingSub(c, row) \in Nat /\ SaturatingSub(c, old) \in Nat
        /\ SaturatingSub(old, row) \in Nat
    BY <1>3, <2>1, SaturatingFacts
  <2> QED BY <1>2, <1>3, <1>5, <2>2, <2>3, <2>4, <2>5
<1> QED BY <1>4, <1>5

\* So it leaves all accounted for.
LEMMA AccountedAtCrash ==
    ASSUME TypeOK, TypeOK', RecoveryTyped, RecoveryTyped', RowsFollow, Crash,
           NEW u \in User, NEW d \in Direction, Accounted(u, d)
    PROVE  Accounted(u, d)'
<1> DEFINE lost == [i \in {u} \X PeerId |-> Forgotten(i)[d]]
<1>1. CoverTyped /\ CoverTyped' /\ CoverSummed /\ CoverSummed' /\ SettledTyped /\ SettledTyped'
  BY CoverTypes, CoverSums, SettledTypes, PTL
<1>2. SumFunction(Settled(u, d)) <= SumFunction(Settled(u, d)') + SumFunction(lost)
  <2>1. /\ Settled(u, d) \in [{u} \X PeerId -> Int] /\ Settled(u, d)' \in [{u} \X PeerId -> Int]
        /\ lost \in [{u} \X PeerId -> Int] /\ IsFiniteSet({u} \X PeerId)
    BY <1>1, ClientsFinite, ForgottenType DEF SettledTyped
  <2>2. ASSUME NEW i \in {u} \X PeerId
        PROVE  Settled(u, d)[i] <= Settled(u, d)'[i] + lost[i]
    <3>1. i \in Index /\ traffic[i][d] \in Nat /\ Beyond(i, d) \in Nat
      BY ClientsFinite, RowCounters
    <3>2. Beyond(i, d)' <= Beyond(i, d) + Forgotten(i)[d] /\ Forgotten(i)[d] \in Nat
      BY <3>1, CrashForgets
    <3>3. Beyond(i, d)' \in Nat
      <4>1. BeyondTyped'
        BY BeyondTypes, PTL
      <4> QED BY <3>1, <4>1 DEF BeyondTyped
    <3>4. traffic' = traffic
      BY DEF Crash
    <3>5. /\ Settled(u, d)[i] = traffic[i][d] - Beyond(i, d)
          /\ Settled(u, d)'[i] = traffic[i][d] - Beyond(i, d)'
          /\ lost[i] = Forgotten(i)[d]
      BY <3>4 DEF Settled
    <3> QED BY <3>1, <3>2, <3>3, <3>5
  <2> HIDE DEF lost
  <2> QED BY <2>1, <2>2, TotalOfParts
<1>3. repeated'[u][d] = repeated[u][d] + SumFunction(lost) /\ SumFunction(lost) \in Nat
  <2>1. ForgottenOf(u) \in Amounts /\ ForgottenOf(u)[d] = SumFunction(lost)
    BY ForgottenType
  <2>2. repeated'[u] = Plus(repeated[u], ForgottenOf(u)) /\ repeated[u] \in Amounts
    BY DEF Crash, RecoveryTyped
  <2> HIDE DEF lost
  <2> QED BY <2>1, <2>2, AmountType, AmountsByDirection
<1>4. SumFunction(Pending(u, d)') = 0
  <2>1. \A h \in Handler : Pending(u, d)'[h] = 0
    BY DEF Crash, Pending, Records, Idle
  <2>2. Pending(u, d)' \in [Handler -> Int]
    BY <1>1 DEF CoverTyped
  <2> QED BY <2>1, <2>2, ClientsFinite, TotalOfZeros
<1>5. SumFunction(Pending(u, d)) \in Nat
  <2>1. \A h \in Handler : Records(h, u) => announce[h].change[d] \in Nat
    BY AmountType, RequestPhases DEF Records, Changed
  <2>2. \A h \in Handler : Pending(u, d)[h] >= 0
    BY <2>1 DEF Pending
  <2> QED BY <1>1, <2>2, ClientsFinite, TotalOfNaturals DEF CoverTyped
<1>6. history'[u].actual[d] <= history[u].actual[d] /\ history'[u].actual[d] \in Int
  BY <1>1 DEF Crash, RowsFollow, CoverTyped
<1> DEFINE told == history[u].actual[d]
           told1 == history'[u].actual[d]
           pending == SumFunction(Pending(u, d))
           pending1 == SumFunction(Pending(u, d)')
           settled == SumFunction(Settled(u, d))
           settled1 == SumFunction(Settled(u, d)')
           again == repeated[u][d]
           again1 == repeated'[u][d]
           more == SumFunction(lost)
<1>7. told \in Int /\ settled \in Int /\ settled1 \in Int /\ again \in Nat
  BY <1>1 DEF CoverTyped, SettledTyped
<1>8. told + pending <= settled + again
  BY DEF Accounted
<1>9. Accounted(u, d)' = (told1 + pending1 <= settled1 + again1)
  BY DEF Accounted
<1>10. /\ told1 <= told /\ told1 \in Int /\ pending \in Nat /\ pending1 = 0
       /\ again1 = again + more /\ more \in Nat /\ settled <= settled1 + more
  BY <1>2, <1>3, <1>4, <1>5, <1>6
<1> HIDE DEF told, told1, pending, pending1, settled, settled1, again, again1, more
<1>11. told1 + pending1 <= settled1 + again1
  BY <1>7, <1>8, <1>10
<1> QED BY <1>9, <1>11

\* A step that changes nothing of what is accounted leaves all accounted.
LEMMA AccountedIfUnchanged ==
    ASSUME AllAccounted, UNCHANGED <<client, traffic, announce, history, crossed, handed, repeated>>
    PROVE  AllAccounted'
<1>1. ASSUME NEW u \in User \ crossed, NEW d \in Direction PROVE Accounted(u, d)'
  <2>1. Pending(u, d)' = Pending(u, d)
    BY DEF Pending, Records
  <2>2. ASSUME NEW i \in {u} \X PeerId PROVE Beyond(i, d)' = Beyond(i, d)
    <3>1. LockingOn(i)' = LockingOn(i)
      BY DEF LockingOn
    <3> QED BY <3>1 DEF Beyond, SinceRow
  <2>3. Settled(u, d)' = Settled(u, d)
    BY <2>2 DEF Settled
  <2>4. Accounted(u, d)
    BY DEF AllAccounted
  <2> QED BY <2>1, <2>3, <2>4 DEF Accounted
<1> QED BY <1>1 DEF AllAccounted

\* And so does every other step.
LEMMA AccountedStep ==
    ASSUME TypeOK, TypeOK', RecoveryTyped, RecoveryTyped', OneAtATime, RowsFollow, AllAccounted,
           Ordinary
    PROVE  AllAccounted'
<1> SUFFICES ASSUME NEW u \in User \ crossed', NEW d \in Direction
             PROVE  Accounted(u, d)'
  BY DEF AllAccounted
<1>1. ASSUME NEW h \in Handler, AnnounceAndHand(h) PROVE Accounted(u, d)'
  <2>1. crossed' = crossed
    BY <1>1, LockSections DEF AnnounceAndHand, LockSection, Replace
  <2> QED BY <1>1, <2>1, AccountedAtLock DEF AllAccounted
<1>2. CASE Go
  <2>0. UNCHANGED <<handed, repeated>>
    BY <1>2 DEF Go
  <2>1. ASSUME NEW h \in Handler, QueueHistory(h) PROVE Accounted(u, d)'
    <3>1. crossed' = crossed
      BY <2>1 DEF QueueHistory
    <3> QED BY <2>0, <2>1, <3>1, AccountedAtQueueHistory DEF AllAccounted
  <2>2. ASSUME NEW h \in Handler, Receive(h) PROVE Accounted(u, d)'
    <3>1. crossed \subseteq crossed' /\ UNCHANGED <<traffic, history>>
      BY <2>2, AskedNow DEF Receive
    <3>2. \A i \in {u} \X PeerId : Beyond(i, d)' <= Beyond(i, d)
      BY <2>0, <2>2, BeyondAtReceive
    <3>3. Pending(u, d)' = Pending(u, d)
      BY <2>2 DEF Receive, TypeOK, Pending, Records, Idle
    <3>4. \A i \in {u} \X PeerId :
            traffic[i][d] - Beyond(i, d) <= traffic'[i][d] - Beyond(i, d)'
      BY <3>1, <3>2, NoMoreBeyond
    <3> QED BY <2>0, <3>1, <3>3, <3>4, StillAccounted DEF AllAccounted
  <2>3. ASSUME NEW h \in Handler, Reject(h) PROVE Accounted(u, d)'
    <3>1. crossed = crossed' /\ UNCHANGED <<traffic, history>>
      BY <2>3 DEF Reject
    <3>2. \A i \in {u} \X PeerId : Beyond(i, d)' <= Beyond(i, d)
      BY <2>0, <2>3, <3>1, BeyondAtReject
    <3>3. Pending(u, d)' = Pending(u, d)
      BY <2>3 DEF Reject, TypeOK, Pending, Records, Idle
    <3>4. \A i \in {u} \X PeerId :
            traffic[i][d] - Beyond(i, d) <= traffic'[i][d] - Beyond(i, d)'
      BY <3>1, <3>2, NoMoreBeyond
    <3> QED BY <2>0, <3>1, <3>3, <3>4, StillAccounted DEF AllAccounted
  <2>4. ASSUME NEW h \in Handler, QueueUser(h) \/ QueueTorrent(h) PROVE Accounted(u, d)'
    <3>1. /\ announce[h].pc \in {"users", "torrents"} /\ announce'[h].pc \in {"torrents", "idle"}
          /\ UNCHANGED <<traffic, history, crossed>> /\ Announce(h)
      <4>0. announce \in [Handler -> Request]
        BY DEF TypeOK
      <4>1. CASE QueueUser(h)
        <5>1. announce[h] \in Telling
          BY <4>1, RequestPhases DEF QueueUser
        <5> QED BY <4>0, <4>1, <5>1 DEF QueueUser, Telling, Announce
      <4>2. CASE QueueTorrent(h)
        BY <4>0, <4>2 DEF QueueTorrent, Idle, Announce
      <4> QED BY <2>4, <4>1, <4>2
    <3>2. \A g \in Handler \ {h} : announce'[g] = announce[g]
      BY <3>1, OthersKept
    <3>3. Pending(u, d)' = Pending(u, d)
      BY <3>1, <3>2 DEF Pending, Records
    <3>4. ASSUME NEW i \in {u} \X PeerId PROVE Beyond(i, d)' <= Beyond(i, d)
      <4>1. i \in Index /\ Beyond(i, d) \in Nat
        BY ClientsFinite, RowCounters
      <4>2. Beyond(i, d)' = Beyond(i, d)
        BY <2>0, <3>1, <4>1, BeyondOfOthers
      <4> QED BY <4>1, <4>2
    <3>5. \A i \in {u} \X PeerId :
            traffic[i][d] - Beyond(i, d) <= traffic'[i][d] - Beyond(i, d)'
      BY <3>1, <3>4, NoMoreBeyond
    <3> QED BY <2>0, <3>1, <3>3, <3>5, StillAccounted DEF AllAccounted
  <2>5. ASSUME NEW j \in Index, Transfer(j) PROVE Accounted(u, d)'
    <3>1. UNCHANGED <<crossed, history>> /\ Pending(u, d)' = Pending(u, d)
      BY <2>5 DEF Transfer, Pending, Records
    <3>2. \A i \in {u} \X PeerId :
            traffic[i][d] - Beyond(i, d) <= traffic'[i][d] - Beyond(i, d)'
      BY <2>0, <2>5, SettledAtTransfer
    <3> QED BY <2>0, <3>1, <3>2, StillAccounted DEF AllAccounted
  <2>6. ASSUME NEW j \in Index, Restart(j) PROVE Accounted(u, d)'
    <3>1. UNCHANGED <<crossed, traffic, history>> /\ Pending(u, d)' = Pending(u, d)
      BY <2>6 DEF Restart, Pending, Records
    <3>2. \A i \in {u} \X PeerId : Beyond(i, d)' <= Beyond(i, d)
      BY <2>0, <2>6, BeyondAtRestart
    <3>3. \A i \in {u} \X PeerId :
            traffic[i][d] - Beyond(i, d) <= traffic'[i][d] - Beyond(i, d)'
      BY <3>1, <3>2, NoMoreBeyond
    <3> QED BY <2>0, <3>1, <3>3, StillAccounted DEF AllAccounted
  <2>7. CASE Reap
    <3>1. UNCHANGED <<client, traffic, announce, history, crossed, handed, repeated>>
      BY <2>0, <2>7 DEF Reap
    <3> QED BY <3>1, AccountedIfUnchanged DEF AllAccounted
  <2>8. \/ \E j \in Index : Transfer(j) \/ Restart(j)
        \/ \E h \in Handler :
              \/ Receive(h) \/ Reject(h) \/ QueueHistory(h)
              \/ QueueUser(h) \/ QueueTorrent(h)
        \/ Reap
    BY <1>2 DEF Go
  <2>9. CASE \E j \in Index : Transfer(j) \/ Restart(j)
    BY <2>5, <2>6, <2>9
  <2>10. CASE \E h \in Handler :
                \/ Receive(h) \/ Reject(h) \/ QueueHistory(h)
                \/ QueueUser(h) \/ QueueTorrent(h)
    BY <2>1, <2>2, <2>3, <2>4, <2>10
  <2> QED BY <2>7, <2>8, <2>9, <2>10
<1>3. CASE \/ WritePeers \/ WriteHistories \/ WriteUsers \/ WriteTorrents
           \/ UNCHANGED recoveryVars
  <2>1. UNCHANGED <<client, traffic, announce, history, crossed, handed, repeated>>
    BY <1>3 DEF WritePeers, WriteHistories, WriteUsers, WriteTorrents, recoveryVars, vars
  <2> QED BY <2>1, AccountedIfUnchanged DEF AllAccounted
<1> QED BY <1>1, <1>2, <1>3 DEF Ordinary

RecoveryInv == TypeOK /\ RecoveryTyped /\ OneAtATime /\ RowsFollow /\ AllAccounted

\* Initially nothing is there.
LEMMA RecoveryInvInit == RecoveryInit => RecoveryInv
<1> SUFFICES ASSUME RecoveryInit PROVE RecoveryInv
  OBVIOUS
<1>1. Init /\ TypeOK /\ OneAtATime
  BY TypeInit DEF RecoveryInit, Init, OneAtATime, Asks
<1>2. RecoveryTyped
  BY <1>1 DEF RecoveryInit, RecoveryTyped, TypeOK, Nothing, Amounts
<1>3. RowsFollow
  <2>1. \A u \in User, d \in Direction : history[u].actual[d] \in Nat
    BY <1>1, AmountType DEF TypeOK, History
  <2> QED BY <2>1 DEF RecoveryInit, RowsFollow
<1>4. ASSUME NEW u \in User, NEW d \in Direction PROVE Accounted(u, d)
  <2>1. Nothing[d] = 0
    BY DEF Nothing, Direction
  <2>2. CoverTyped /\ SettledTyped
    BY <1>1, <1>2, CoverTypes, SettledTypes
  <2>3. \A i \in {u} \X PeerId : Settled(u, d)[i] = 0
    <3>1. ASSUME NEW i \in {u} \X PeerId PROVE traffic[i][d] = 0 /\ Beyond(i, d) = 0
      <4>1. i \in Index /\ traffic[i] = Nothing /\ handed[i] = NoPeer
        BY <1>1, ClientsFinite DEF RecoveryInit, Init
      <4>2. LockingOn(i) = {}
        BY <1>1 DEF Init, LockingOn, Idle
      <4> QED BY <2>1, <4>1, <4>2 DEF Beyond, SinceRow
    <3> QED BY <3>1 DEF Settled
  <2>4. SumFunction(Settled(u, d)) = 0
    BY <2>2, <2>3, ClientsFinite, TotalOfZeros DEF SettledTyped
  <2>5. \A h \in Handler : Pending(u, d)[h] = 0
    BY <1>1 DEF Init, Pending, Records, Idle
  <2>6. SumFunction(Pending(u, d)) = 0
    BY <2>2, <2>5, ClientsFinite, TotalOfZeros DEF CoverTyped
  <2>7. history[u].actual[d] = 0 /\ repeated[u][d] = 0
    BY <1>1, <2>1 DEF Init, RecoveryInit
  <2> QED BY <2>4, <2>6, <2>7 DEF Accounted
<1> QED BY <1>1, <1>2, <1>3, <1>4 DEF RecoveryInv, AllAccounted

\* Every step keeps the invariant, a crash too.
LEMMA RecoveryInvStep == RecoveryInv /\ [RecoveryNext]_recoveryVars => RecoveryInv'
<1> SUFFICES ASSUME RecoveryInv, [RecoveryNext]_recoveryVars PROVE RecoveryInv'
  OBVIOUS
<1>0. TypeOK /\ RecoveryTyped /\ OneAtATime /\ RowsFollow /\ AllAccounted
  BY DEF RecoveryInv
<1>1. CASE Ordinary
  <2>1. TypeOK' /\ RecoveryTyped' /\ OneAtATime' /\ RowsFollow'
    BY <1>0, <1>1, RecoveryTypeStep, OrdinarySteps, OneStep, RowsStep
  <2>2. AllAccounted'
    BY <1>0, <1>1, <2>1, AccountedStep
  <2> QED BY <2>1, <2>2 DEF RecoveryInv
<1>2. CASE Crash
  <2>1. TypeOK' /\ RecoveryTyped'
    BY <1>0, <1>2, CrashType
  <2>2. OneAtATime'
    BY <1>2 DEF Crash, OneAtATime, Asks
  <2>3. RowsFollow'
    <3>1. /\ peers' = peersTable /\ handed' = peersTable /\ peersTable' = peersTable
          /\ history' = historyTable /\ historyTable' = historyTable
      <4>1. peersTable \in [Index -> Peer \cup {NoPeer}]
        BY <1>0 DEF RecoveryTyped
      <4> QED BY <1>2, <4>1 DEF Crash, Loaded, tables
    <3>2. \A u \in User, d \in Direction : historyTable[u].actual[d] \in Nat
      BY <1>0, AmountType DEF RecoveryTyped, History
    <3> QED BY <3>1, <3>2 DEF RowsFollow
  <2>4. AllAccounted'
    <3>1. crossed' = crossed
      BY <1>2 DEF Crash
    <3> QED BY <1>0, <1>2, <2>1, <3>1, AccountedAtCrash DEF AllAccounted
  <2> QED BY <2>1, <2>2, <2>3, <2>4 DEF RecoveryInv
<1> QED BY <1>1, <1>2 DEF RecoveryNext, Ordinary

\* However often the tracker crashes, and whatever of the four tables was written
\* by then, a user whose announces come one after the other is credited no more
\* than was transferred and what was reported beyond the rows that were found
\* (queue/peer_update.rs; store/torrent.rs, the load; announce.rs, the change).
THEOREM CrashesRepeatOnlyUnwritten == RecoverySpec => []CrashRepeatsOnlyUnwritten
<1>1. RecoveryInv => CrashRepeatsOnlyUnwritten
  <2> SUFFICES ASSUME RecoveryInv, NEW u \in User \ crossed, NEW d \in Direction
               PROVE  history[u].actual[d] <= TrafficOf(u, d) + repeated[u][d]
    BY DEF CrashRepeatsOnlyUnwritten
  <2>1. TypeOK /\ RecoveryTyped /\ Accounted(u, d)
    BY DEF RecoveryInv, AllAccounted
  <2>2. CoverTyped /\ CoverSummed /\ SettledTyped
    BY <2>1, CoverTypes, CoverSums, SettledTypes
  <2>3. SumFunction(Settled(u, d)) <= TrafficOf(u, d)
    <3> DEFINE all == [i \in {u} \X PeerId |-> traffic[i][d]]
    <3>1. /\ all \in [{u} \X PeerId -> Int] /\ Settled(u, d) \in [{u} \X PeerId -> Int]
          /\ IsFiniteSet({u} \X PeerId) /\ TrafficOf(u, d) = SumFunction(all)
      BY <2>2, ClientsFinite DEF CoverTyped, SettledTyped, TrafficOf
    <3>2. ASSUME NEW i \in {u} \X PeerId PROVE Settled(u, d)[i] <= all[i]
      <4>1. traffic[i][d] \in Nat /\ Beyond(i, d) \in Nat
        BY <2>1, ClientsFinite, RowCounters
      <4>2. Settled(u, d)[i] = traffic[i][d] - Beyond(i, d)
        BY DEF Settled
      <4> QED BY <4>1, <4>2
    <3> HIDE DEF all
    <3> QED BY <3>1, <3>2, TotalMonotone
  <2>4. SumFunction(Pending(u, d)) \in Nat
    <3>1. \A h \in Handler : Records(h, u) => announce[h].change[d] \in Nat
      BY <2>1, AmountType, RequestPhases DEF Records, Changed
    <3>2. \A h \in Handler : Pending(u, d)[h] >= 0
      BY <3>1 DEF Pending
    <3> QED BY <2>2, <3>2, ClientsFinite, TotalOfNaturals DEF CoverTyped
  <2> DEFINE told == history[u].actual[d]
             pending == SumFunction(Pending(u, d))
             settled == SumFunction(Settled(u, d))
             total == TrafficOf(u, d)
             again == repeated[u][d]
  <2>5. told \in Int /\ settled \in Int /\ total \in Int /\ again \in Nat /\ pending \in Nat
    BY <2>2, <2>4 DEF CoverTyped, CoverSummed, SettledTyped
  <2>6. told + pending <= settled + again /\ settled <= total
    BY <2>1, <2>3 DEF Accounted
  <2> HIDE DEF told, pending, settled, total, again
  <2>7. told <= total + again
    BY <2>5, <2>6
  <2> QED BY <2>7 DEF told, total, again
<1> QED BY <1>1, RecoveryInvInit, RecoveryInvStep, PTL DEF RecoverySpec
=============================================================================
