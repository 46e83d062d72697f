---------------------------- MODULE AnswersProofs ----------------------------
(***************************************************************************)
(* Whatever number of announces overlap at a socket, and however their     *)
(* probes overtake each other: types, a verdict is that of a probe that is *)
(* fresh, and the socket is spared; a rate counts every list that was      *)
(* asked for, and the lists that are given stay near the limit.            *)
(***************************************************************************)
EXTENDS Answers, FiniteSums, SequenceTheorems

Probe == [began : Time, found : SUBSET BOOLEAN]

Entry == [connectable : BOOLEAN, updated_at : Past \cup Time]

\* The states of an announce.
Requests ==
    {Idle}
    \cup [pc : {"checking"}, under : [Kind -> BOOLEAN]]
    \cup [pc : {"probing"}, under : [Kind -> BOOLEAN], probe : DOMAIN probes]
    \cup [pc : {"locking"}, under : [Kind -> BOOLEAN], connectable : BOOLEAN]
    \cup [pc : {"counting"}, asks : [Kind -> BOOLEAN]]

\* The types of what the check works with; the rates have no part in it.
CheckTypes ==
    /\ time \in Time
    /\ loaded \in {Empty} \cup [connectable : BOOLEAN, updated_at : Past]
    /\ cache \in {Empty} \cup Entry
    /\ announce \in [Handler -> Requests]
    /\ probes \in Seq(Probe)

\* A probe that is under way has not found anything yet, and is one announce's.
ProbesApart ==
    \A h \in Handler : announce[h].pc = "probing" =>
        /\ probes[announce[h].probe].found = {}
        /\ \A g \in Handler \ {h} :
              announce[g].pc = "probing" => announce[g].probe # announce[h].probe

\* What the cache holds was found by the probe that began when it says, or has
\* been loaded.
CacheIsProbed ==
    cache # Empty =>
        \/ \E i \in DOMAIN probes :
              /\ probes[i].began = cache.updated_at
              /\ cache.connectable \in probes[i].found
        \/ cache = loaded

CheckInv == CheckTypes /\ ProbesApart /\ CacheIsProbed

\* The constants are such that time begins at 0 and is a natural number.
LEMMA TimeType == 0 \in Time /\ Time \subseteq Nat
BY NumberAssumption DEF Time

\* The time of an entry is none that has not come yet when the process starts.
LEMMA PastType == Past \subseteq Int /\ \A t \in Past : t <= 0
BY NumberAssumption DEF Past

\* At the start nothing is probed, and what is cached has been loaded.
LEMMA CheckInvInit == Init => CheckInv
<1> SUFFICES ASSUME Init PROVE CheckInv
  OBVIOUS
<1>1. cache \in {Empty} \cup Entry
  BY DEF Init, Entry
<1> QED BY <1>1, TimeType DEF Init, CheckInv, CheckTypes, ProbesApart, CacheIsProbed, Requests, Idle

\* No entry is the empty one.
LEMMA EmptyIsNoEntry == Empty \notin Entry
<1>1. ASSUME Empty \in Entry PROVE FALSE
  <2>1. "connectable" \in DOMAIN Empty
    BY <1>1 DEF Entry
  <2> QED BY <2>1 DEF Empty
<1> QED BY <1>1

\* An announce moves on, and none of the others does: the probes are as before.
LEMMA OneMovesOn ==
    ASSUME CheckInv, NEW h \in Handler, NEW a \in Requests,
           announce' = [announce EXCEPT ![h] = a],
           a.pc # "probing",
           UNCHANGED <<time, loaded, cache, probes>>
    PROVE  CheckInv'
<1>1. CheckTypes'
  <2>1. Requests' = Requests
    BY DEF Requests
  <2> QED BY <2>1 DEF CheckInv, CheckTypes
<1>2. ProbesApart'
  BY DEF CheckInv, CheckTypes, ProbesApart
<1>3. CacheIsProbed'
  BY DEF CheckInv, CacheIsProbed
<1> QED BY <1>1, <1>2, <1>3 DEF CheckInv

\* Every step keeps the invariant; those of the check that probe are the ones
\* that matter.
LEMMA CheckInvStep == CheckInv /\ [Next]_vars => CheckInv'
<1> SUFFICES ASSUME CheckInv, [Next]_vars PROVE CheckInv'
  OBVIOUS
<1>1. ASSUME NEW h \in Handler, Receive(h) PROVE CheckInv'
  <2> DEFINE a == [pc |-> "checking", under |-> [k \in Kind |-> UnderLimits(k)]]
  <2>1. \A k \in Kind : UnderLimits(k) \in BOOLEAN
    BY DEF UnderLimits
  <2>2. a \in Requests /\ a.pc # "probing"
    BY <2>1, Zenon DEF Requests
  <2>3. announce' = [announce EXCEPT ![h] = a] /\ UNCHANGED <<time, loaded, cache, probes>>
    BY <1>1 DEF Receive
  <2> QED BY <2>2, <2>3, OneMovesOn
<1>2. ASSUME NEW h \in Handler, NEW c \in BOOLEAN, announce[h].pc = "checking", Checked(h, c),
             UNCHANGED <<time, loaded, cache, probes>>
      PROVE  CheckInv'
  <2> DEFINE a == [pc |-> "locking", under |-> announce[h].under, connectable |-> c]
  <2>1. announce[h].under \in [Kind -> BOOLEAN]
    BY <1>2 DEF CheckInv, CheckTypes, Requests, Idle
  <2>2. a \in Requests /\ a.pc # "probing"
    BY <2>1 DEF Requests
  <2>3. announce' = [announce EXCEPT ![h] = a]
    BY <1>2 DEF Checked
  <2> QED BY <1>2, <2>2, <2>3, OneMovesOn
<1>3. ASSUME NEW h \in Handler, NoCheck(h) PROVE CheckInv'
  BY <1>2, <1>3 DEF NoCheck
<1>4. ASSUME NEW h \in Handler, CacheHit(h) PROVE CheckInv'
  <2>1. cache.connectable \in BOOLEAN
    BY <1>4 DEF CacheHit, Fresh, Good, CheckInv, CheckTypes, Entry
  <2> QED BY <1>2, <1>4, <2>1 DEF CacheHit
<1>5. ASSUME NEW h \in Handler, ProbeBegins(h) PROVE CheckInv'
  <2> DEFINE n == Len(probes) + 1
             p == [began |-> time, found |-> {}]
             a == [pc |-> "probing", under |-> announce[h].under, probe |-> n]
  <2>1. /\ announce' = [announce EXCEPT ![h] = a] /\ probes' = Append(probes, p)
        /\ UNCHANGED <<time, loaded, cache>> /\ announce[h].pc = "checking"
    BY <1>5 DEF ProbeBegins
  <2>2. p \in Probe
    BY DEF CheckInv, CheckTypes, Probe
  <2>3. /\ probes' \in Seq(Probe) /\ DOMAIN probes = 1..(n - 1) /\ DOMAIN probes' = 1..n
        /\ n \in Nat \ {0} /\ probes'[n] = p
        /\ \A i \in DOMAIN probes : probes'[i] = probes[i]
    BY <2>1, <2>2 DEF CheckInv, CheckTypes
  <2>4. announce[h].under \in [Kind -> BOOLEAN]
    BY <2>1 DEF CheckInv, CheckTypes, Requests, Idle
  <2>5. Requests \subseteq Requests' /\ a \in Requests'
    BY <2>3, <2>4 DEF Requests
  <2>6. CheckTypes'
    BY <2>1, <2>3, <2>5 DEF CheckInv, CheckTypes
  <2>7. \A g \in Handler : announce[g].pc = "probing" => announce[g].probe \in 1..(n - 1)
    BY <2>3 DEF CheckInv, CheckTypes, Requests, Idle
  <2>8. ProbesApart'
    BY <2>1, <2>3, <2>7 DEF CheckInv, CheckTypes, ProbesApart
  <2>9. CacheIsProbed'
    BY <2>1, <2>3 DEF CheckInv, CacheIsProbed
  <2> QED BY <2>6, <2>8, <2>9 DEF CheckInv
<1>6. ASSUME NEW h \in Handler, ProbeEnds(h) PROVE CheckInv'
  <2> DEFINE n == announce[h].probe
  <2>1. PICK c \in BOOLEAN :
          /\ cache' = Cached(c, probes[n].began)
          /\ probes' = [probes EXCEPT ![n].found = {c}]
          /\ Checked(h, c)
    BY <1>6 DEF ProbeEnds
  <2> DEFINE a == [pc |-> "locking", under |-> announce[h].under, connectable |-> c]
  <2>2. announce[h].pc = "probing" /\ time' = time /\ loaded' = loaded
    BY <1>6 DEF ProbeEnds
  <2>3. announce[h].under \in [Kind -> BOOLEAN] /\ n \in DOMAIN probes
    BY <2>2 DEF CheckInv, CheckTypes, Requests, Idle
  <2>4. announce' = [announce EXCEPT ![h] = a]
    BY <2>1 DEF Checked
  <2>5. probes[n] \in Probe
    BY <2>3 DEF CheckInv, CheckTypes
  <2>6. /\ DOMAIN probes' = DOMAIN probes
        /\ \A i \in DOMAIN probes \ {n} : probes'[i] = probes[i]
        /\ probes'[n] = [began |-> probes[n].began, found |-> {c}]
    BY <2>1, <2>3, <2>5 DEF CheckInv, CheckTypes, Probe
  <2>7. probes' \in Seq(Probe)
    <3> DEFINE e == [probes[n] EXCEPT !.found = {c}]
    <3>1. e \in Probe
      BY <2>5 DEF Probe
    <3>2. probes' = [probes EXCEPT ![n] = e]
      BY <2>1
    <3>3. n \in 1..Len(probes) /\ probes \in Seq(Probe)
      BY <2>3 DEF CheckInv, CheckTypes
    <3> QED BY <3>1, <3>2, <3>3, ExceptSeq
  <2>8. cache' \in Entry
    BY <2>1, <2>5 DEF Cached, Probe, Entry
  <2>9. CheckTypes'
    <3>1. Requests' = Requests /\ a \in Requests
      BY <2>3, <2>6 DEF Requests
    <3> QED BY <2>2, <2>4, <2>7, <2>8, <3>1 DEF CheckInv, CheckTypes
  <2>10. ProbesApart'
    <3> SUFFICES ASSUME NEW g \in Handler, announce'[g].pc = "probing"
                 PROVE  /\ probes'[announce'[g].probe].found = {}
                        /\ \A f \in Handler \ {g} :
                              announce'[f].pc = "probing" => announce'[f].probe # announce'[g].probe
      BY DEF ProbesApart
    <3>1. \A f \in Handler : announce'[f].pc = "probing" => f # h /\ announce'[f] = announce[f]
      BY <2>4 DEF CheckInv, CheckTypes
    <3>2. announce[g].probe # n
      BY <2>2, <3>1 DEF CheckInv, ProbesApart
    <3>3. announce[g].probe \in DOMAIN probes
      BY <3>1 DEF CheckInv, CheckTypes, Requests, Idle
    <3> QED BY <2>6, <3>1, <3>2, <3>3 DEF CheckInv, ProbesApart
  <2>11. CacheIsProbed'
    <3>1. probes'[n].began = cache'.updated_at /\ cache'.connectable \in probes'[n].found
      BY <2>1, <2>6 DEF Cached
    <3> QED BY <2>3, <2>6, <3>1 DEF CacheIsProbed
  <2> QED BY <2>9, <2>10, <2>11 DEF CheckInv
<1>7. ASSUME NEW h \in Handler, Answer(h) PROVE CheckInv'
  <2>1. PICK v \in View :
          announce' = [announce EXCEPT ![h] = [pc |-> "counting", asks |-> Asks(announce[h], v)]]
    BY <1>7 DEF Answer
  <2> DEFINE a == [pc |-> "counting", asks |-> Asks(announce[h], v)]
  <2>2. /\ AsksSeeds(announce[h], v) \in BOOLEAN /\ AsksLeeches(announce[h], v) \in BOOLEAN
    BY DEF AsksSeeds, AsksLeeches
  <2>3. Asks(announce[h], v) \in [Kind -> BOOLEAN]
    BY <2>2, Zenon DEF Asks, Kind
  <2>4. a \in Requests /\ a.pc # "probing"
    BY <2>3 DEF Requests
  <2> QED BY <1>7, <2>1, <2>4, OneMovesOn DEF Answer
<1>8. ASSUME NEW h \in Handler, Count(h) PROVE CheckInv'
  <2>1. Idle \in Requests /\ Idle.pc # "probing"
    BY DEF Requests, Idle
  <2> QED BY <1>8, <2>1, OneMovesOn DEF Count
<1>9. CASE TimePasses
  <2>1. time' \in Time /\ UNCHANGED <<loaded, cache, announce, probes>>
    BY <1>9, NumberAssumption DEF TimePasses, CheckInv, CheckTypes, Time
  <2>2. Requests' = Requests
    BY <2>1 DEF Requests
  <2> QED BY <2>1, <2>2 DEF CheckInv, CheckTypes, ProbesApart, CacheIsProbed
<1>10. CASE UNCHANGED vars
  <2>1. Requests' = Requests
    BY <1>10 DEF Requests, vars
  <2> QED BY <1>10, <2>1 DEF vars, CheckInv, CheckTypes, ProbesApart, CacheIsProbed
<1> QED BY <1>1, <1>3, <1>4, <1>5, <1>6, <1>7, <1>8, <1>9, <1>10 DEF Next, Announce

\* The invariant holds in every state.
LEMMA CheckInvariant == Spec => []CheckInv
<1> QED BY CheckInvInit, CheckInvStep, PTL DEF Spec

\* Only an answer of the cache takes an announce past the check without a
\* probe of its own, as long as the check is enabled.
LEMMA StepOfCheck ==
    ASSUME CheckInv, [Next]_vars, check, NEW h \in Handler,
           announce[h].pc = "checking", announce'[h].pc = "locking"
    PROVE  CacheHit(h)
<1>1. announce[h].pc # announce'[h].pc /\ announce[h] # announce'[h]
  OBVIOUS
<1>2. ~UNCHANGED vars /\ ~TimePasses
  BY <1>1 DEF vars, TimePasses
<1>3. PICK g \in Handler : Announce(g)
  BY <1>2 DEF Next
<1>4. g = h
  BY <1>1, <1>3 DEF Announce, Receive, NoCheck, CacheHit, ProbeBegins, ProbeEnds, Answer, Count,
                    Checked, CheckInv, CheckTypes
<1>5. ~NoCheck(h) /\ ~ProbeEnds(h) /\ ~Answer(h) /\ ~Count(h)
  BY DEF NoCheck, ProbeEnds, Answer, Count
<1>6. ~Receive(h)
  <2>1. Idle.pc = "idle"
    BY DEF Idle
  <2>2. announce[h] # Idle
    BY <2>1
  <2> QED BY <2>2 DEF Receive
<1>7. ~ProbeBegins(h)
  <2>1. ASSUME ProbeBegins(h) PROVE announce'[h].pc = "probing"
    BY <2>1 DEF ProbeBegins, CheckInv, CheckTypes
  <2> QED BY <2>1
<1> QED BY <1>3, <1>4, <1>5, <1>6, <1>7 DEF Announce

\* However many announces overlap, a verdict is that of a fresh probe, or loaded
\* no longer ago: an older answer that overwrites a newer one brings its own time
\* with it (announce.rs, check_connectivity; store/connectable_port.rs).
THEOREM VerdictsAreFresh == Spec => VerdictFollowsProbe
<1> DEFINE Fact ==
      check => \A h \in Handler :
          announce[h].pc = "checking" /\ announce'[h].pc = "locking" =>
              \/ \E i \in DOMAIN probes :
                    /\ probes[i].began + Ttl > time
                    /\ announce'[h].connectable \in probes[i].found
              \/ Good(loaded) /\ announce'[h].connectable = loaded.connectable
<1>1. CheckInv /\ [Next]_vars => Fact
  <2> SUFFICES ASSUME CheckInv, [Next]_vars, check, NEW h \in Handler,
                      announce[h].pc = "checking", announce'[h].pc = "locking"
               PROVE  \/ \E i \in DOMAIN probes :
                            /\ probes[i].began + Ttl > time
                            /\ announce'[h].connectable \in probes[i].found
                      \/ Good(loaded) /\ announce'[h].connectable = loaded.connectable
    OBVIOUS
  <2>1. CacheHit(h) /\ Good(cache)
    BY StepOfCheck DEF CacheHit, Fresh
  <2>2. announce'[h].connectable = cache.connectable
    BY <2>1 DEF CacheHit, Checked, CheckInv, CheckTypes
  <2>3. CASE cache = loaded
    BY <2>1, <2>2, <2>3
  <2>4. CASE \E i \in DOMAIN probes : /\ probes[i].began = cache.updated_at
                                     /\ cache.connectable \in probes[i].found
    BY <2>1, <2>2, <2>4 DEF Good
  <2> QED BY <2>1, <2>3, <2>4 DEF Good, CheckInv, CacheIsProbed
<1>2. CheckInv /\ [Next]_vars => [Fact]_vars
  BY <1>1
<1> QED BY <1>2, CheckInvariant, PTL DEF Spec, VerdictFollowsProbe

(***************************************************************************)
(* How many probes there are.                                              *)
(***************************************************************************)
Probing(h) == announce[h].pc = "probing"

Began(h) == probes[announce[h].probe].began

\* The announces whose probes began before a period that begins at t, and those
\* whose probes began in it, or later.
OlderThan(t) == {h \in Handler : Probing(h) /\ Began(h) < t}

YoungerThan(t) == {h \in Handler : Probing(h) /\ Began(h) >= t}

\* The probes that ProbesBounded counts.
Begun(t) == {i \in DOMAIN probes : probes[i].began \in t..(t + Ttl - 1)}

\* What the cache holds is good for the whole period.
Spared(t) == cache # Empty /\ cache.updated_at >= t

\* With n announces, old ones of which have an older probe under way, young a
\* younger one, and begun probes so far: every announce without a probe may
\* begin one unless the socket is spared, and each older one that ends lets all
\* the others begin again. Twice these numbers are within twice the bound.
Budget(n, old, young, begun, spared) ==
    2 * begun + (IF spared THEN 0 ELSE 2 * (n - old - young)) + 2 * old * n - old * (old - 1)
        <= n * (n + 1)

\* At the start of a period, or before it, there is enough.
LEMMA BudgetAtFirst ==
    ASSUME NEW n \in Nat, NEW old \in 0..n
    PROVE  Budget(n, old, 0, 0, FALSE)
<1>1. (n - old) * (n - old - 1) >= 0
  <2> DEFINE d == n - old
  <2>1. d \in Nat
    OBVIOUS
  <2> HIDE DEF d
  <2>2. d = 0 \/ d - 1 \in Nat
    BY <2>1
  <2>3. d * (d - 1) >= 0
    BY <2>1, <2>2
  <2> QED BY <2>3 DEF d
<1>2. (n - old) * (n - old - 1) = n * (n + 1) - (2 * (n - old) + 2 * old * n - old * (old - 1))
  OBVIOUS
<1> QED BY <1>1, <1>2 DEF Budget

\* A probe begins while the socket is not spared.
LEMMA BudgetWhenBegun ==
    ASSUME NEW n \in Nat, NEW old \in Nat, NEW young \in Nat, NEW begun \in Nat,
           Budget(n, old, young, begun, FALSE)
    PROVE  Budget(n, old, young + 1, begun + 1, FALSE)
BY DEF Budget

\* A younger probe ends and spares the socket.
LEMMA BudgetWhenYoungEnds ==
    ASSUME NEW n \in Nat, NEW old \in Nat, NEW young \in Nat, NEW begun \in Nat,
           old + young <= n, NEW spared \in BOOLEAN, Budget(n, old, young, begun, spared)
    PROVE  Budget(n, old, young - 1, begun, TRUE)
BY DEF Budget

\* An older probe ends, and its answer is good no more.
LEMMA BudgetWhenOldEnds ==
    ASSUME NEW n \in Nat, NEW old \in Nat \ {0}, NEW young \in Nat, NEW begun \in Nat,
           old + young <= n, NEW spared \in BOOLEAN, Budget(n, old, young, begun, spared)
    PROVE  Budget(n, old - 1, young, begun, FALSE)
<1>1. 2 * begun + 2 * old * n - old * (old - 1) <= n * (n + 1)
  BY DEF Budget
<1>2. 2 * (n - (old - 1) - young) + 2 * (old - 1) * n - (old - 1) * ((old - 1) - 1)
        = 2 * old * n - old * (old - 1) - 2 * young
  OBVIOUS
<1> QED BY <1>1, <1>2 DEF Budget

\* The probes begun alone are within the bound.
LEMMA BudgetBounds ==
    ASSUME NEW n \in Nat, NEW old \in Nat, NEW young \in Nat, NEW begun \in Nat,
           old + young <= n, NEW spared \in BOOLEAN, Budget(n, old, young, begun, spared)
    PROVE  2 * begun <= n * (n + 1)
<1>1. 2 * begun + 2 * old * n - old * (old - 1) <= n * (n + 1)
  BY DEF Budget
<1>2. old * n >= 0 /\ old * (n - old + 1) >= 0
  <2>1. n - old + 1 \in Nat
    OBVIOUS
  <2>2. \A a, b \in Nat : a * b >= 0
    OBVIOUS
  <2> QED BY <2>1, <2>2
<1>3. 2 * old * n - old * (old - 1) = old * n + old * (n - old + 1)
  OBVIOUS
<1>4. old * n \in Int /\ old * (n - old + 1) \in Int /\ n * (n + 1) \in Int
  OBVIOUS
<1> DEFINE X == old * n
           Y == old * (n - old + 1)
           Z == n * (n + 1)
<1>5. 2 * begun + X + Y <= Z
  <2>1. 2 * old * n - old * (old - 1) \in Int
    OBVIOUS
  <2> QED BY <1>1, <1>3, <2>1
<1> HIDE DEF X, Y, Z
<1>6. X >= 0 /\ Y >= 0 /\ X \in Int /\ Y \in Int /\ Z \in Int
  BY <1>2, <1>4 DEF X, Y, Z
<1>7. 2 * begun <= Z
  BY <1>5, <1>6
<1> QED BY <1>7 DEF Z

\* No probe began later than now, and every period is within its budget.
NoneAhead == \A i \in DOMAIN probes : probes[i].began <= time

WithinBudget(t) ==
    /\ time < t + Ttl =>
          Budget(Cardinality(Handler), Cardinality(OlderThan(t)), Cardinality(YoungerThan(t)),
                 Cardinality(Begun(t)), Spared(t))
    /\ 2 * Cardinality(Begun(t)) <= Cardinality(Handler) * (Cardinality(Handler) + 1)

BudgetInv == NoneAhead /\ \A t \in Time : WithinBudget(t)

\* When probes begin (check_connectivity).
LEMMA BeganTypes ==
    ASSUME CheckTypes
    PROVE  /\ \A i \in DOMAIN probes : probes[i] \in Probe
           /\ \A i \in DOMAIN probes : probes[i].began \in Time /\ probes[i].began \in Nat
           /\ \A h \in Handler : Probing(h) => /\ announce[h].probe \in DOMAIN probes
                                               /\ Began(h) \in Nat
<1>1. \A i \in DOMAIN probes : probes[i] \in Probe
  BY DEF CheckTypes
<1>2. \A h \in Handler : Probing(h) => announce[h].probe \in DOMAIN probes
  BY DEF CheckTypes, Requests, Idle, Probing
<1>3. \A i \in DOMAIN probes : probes[i].began \in Time /\ probes[i].began \in Nat
  BY <1>1, TimeType DEF Probe
<1> QED BY <1>1, <1>2, <1>3 DEF Began

\* The announces with older and younger probes are different ones.
LEMMA ProbingSizes ==
    ASSUME CheckTypes, NEW t \in Time
    PROVE  /\ IsFiniteSet(OlderThan(t)) /\ IsFiniteSet(YoungerThan(t)) /\ IsFiniteSet(Begun(t))
           /\ Cardinality(OlderThan(t)) \in Nat /\ Cardinality(YoungerThan(t)) \in Nat
           /\ Cardinality(Begun(t)) \in Nat /\ Cardinality(Handler) \in Nat
           /\ Cardinality(OlderThan(t)) + Cardinality(YoungerThan(t)) <= Cardinality(Handler)
           /\ \A h \in Handler : ~Probing(h) =>
                 Cardinality(OlderThan(t)) + Cardinality(YoungerThan(t)) + 1 <= Cardinality(Handler)
           /\ Spared(t) \in BOOLEAN
<1> DEFINE O == OlderThan(t)
           Y == YoungerThan(t)
<1>2. \A h \in Handler : Probing(h) => Began(h) \in Nat
  BY BeganTypes
<1>3. O \subseteq Handler /\ Y \subseteq Handler /\ O \cap Y = {}
  BY <1>2, TimeType DEF OlderThan, YoungerThan
<1>4. IsFiniteSet(Handler) /\ Cardinality(Handler) \in Nat
  BY SetAssumption, FS_CardinalityType
<1>5. IsFiniteSet(Begun(t)) /\ Cardinality(Begun(t)) \in Nat
  <2>1. DOMAIN probes = 1..Len(probes) /\ Len(probes) \in Nat
    BY DEF CheckTypes
  <2>2. IsFiniteSet(1..Len(probes))
    BY <2>1, FS_Interval
  <2>3. Begun(t) \subseteq 1..Len(probes)
    BY <2>1 DEF Begun
  <2> QED BY <2>2, <2>3, FS_Subset, FS_CardinalityType
<1> HIDE DEF O, Y
<1>6. IsFiniteSet(O) /\ IsFiniteSet(Y) /\ Cardinality(O) \in Nat /\ Cardinality(Y) \in Nat
  BY <1>3, <1>4, FS_Subset, FS_CardinalityType
<1>7. IsFiniteSet(O \cup Y) /\ Cardinality(O \cup Y) = Cardinality(O) + Cardinality(Y)
  <2>1. Cardinality(O \cap Y) = 0
    BY <1>3, FS_EmptySet
  <2>2. Cardinality(O \cup Y) = Cardinality(O) + Cardinality(Y) - Cardinality(O \cap Y)
    BY <1>6, FS_Union
  <2> QED BY <1>6, <2>1, <2>2, FS_Union
<1>8. Cardinality(O \cup Y) <= Cardinality(Handler)
  BY <1>3, <1>4, FS_Subset
<1>9. ASSUME NEW h \in Handler, ~Probing(h)
      PROVE  Cardinality(O) + Cardinality(Y) + 1 <= Cardinality(Handler)
  <2>1. h \notin O \cup Y
    BY <1>9 DEF O, Y, OlderThan, YoungerThan
  <2>2. Cardinality((O \cup Y) \cup {h}) = Cardinality(O \cup Y) + 1
    BY <1>7, <2>1, FS_AddElement
  <2>3. (O \cup Y) \cup {h} \subseteq Handler
    BY <1>3
  <2>4. Cardinality((O \cup Y) \cup {h}) <= Cardinality(Handler)
    BY <1>4, <2>3, FS_Subset
  <2> QED BY <1>6, <1>7, <2>2, <2>4
<1>10. Spared(t) \in BOOLEAN
  BY DEF Spared
<1> QED BY <1>4, <1>5, <1>6, <1>7, <1>8, <1>9, <1>10 DEF O, Y

\* What the cache says is not of the future either.
LEMMA CacheNotAhead ==
    ASSUME CheckInv, NoneAhead, cache # Empty
    PROVE  cache.updated_at <= time /\ cache.updated_at \in Int
<1>1. cache \in Entry
  BY DEF CheckInv, CheckTypes
<1>2. time \in Nat /\ cache.updated_at \in Int
  <2>1. time \in Time
    BY DEF CheckInv, CheckTypes
  <2>2. cache.updated_at \in Past \cup Time
    BY <1>1 DEF Entry
  <2>3. time \in Nat
    BY <2>1, TimeType
  <2>4. Past \cup Time \subseteq Int
    BY TimeType, PastType
  <2> QED BY <2>2, <2>3, <2>4
<1>3. CASE cache = loaded
  <2>1. cache.updated_at \in Past
    BY <1>3 DEF CheckInv, CheckTypes
  <2> QED BY <1>2, <2>1, PastType
<1>4. CASE cache # loaded
  BY <1>2, <1>4 DEF CheckInv, CacheIsProbed, NoneAhead
<1> QED BY <1>3, <1>4

\* An announce that neither begins nor ends a probe changes no budget.
LEMMA NoProbeMoves ==
    ASSUME CheckTypes, BudgetInv, NEW h \in Handler, NEW a, announce[h].pc # "probing",
           announce' = [announce EXCEPT ![h] = a], a.pc # "probing",
           UNCHANGED <<time, loaded, cache, probes>>
    PROVE  BudgetInv'
<1>1. \A g \in Handler : /\ Probing(g)' <=> Probing(g)
                         /\ Probing(g) => Began(g)' = Began(g)
  BY DEF Probing, Began, CheckTypes
<1>2. ASSUME NEW t \in Time
      PROVE  /\ OlderThan(t)' = OlderThan(t) /\ YoungerThan(t)' = YoungerThan(t)
             /\ Begun(t)' = Begun(t) /\ Spared(t)' = Spared(t)
  BY <1>1 DEF OlderThan, YoungerThan, Begun, Spared
<1>3. \A t \in Time : WithinBudget(t)'
  BY <1>2 DEF BudgetInv, WithinBudget
<1> QED BY <1>3 DEF BudgetInv, NoneAhead

\* A probe begins only when the cache is no longer good (check_connectivity).
LEMMA ProbeBeginsBudget ==
    ASSUME CheckInv, BudgetInv, NEW h \in Handler, ProbeBegins(h)
    PROVE  BudgetInv'
<1> DEFINE n == Len(probes) + 1
           p == [began |-> time, found |-> {}]
           N == Cardinality(Handler)
<1>1. /\ announce' = [announce EXCEPT ![h] =
               [pc |-> "probing", under |-> announce[h].under, probe |-> n]]
      /\ probes' = Append(probes, p)
      /\ UNCHANGED <<time, loaded, cache>> /\ announce[h].pc = "checking" /\ ~Fresh
  BY DEF ProbeBegins
<1>2. CheckTypes /\ NoneAhead /\ time \in Nat
  BY TimeType DEF CheckInv, CheckTypes, BudgetInv
<1>3. /\ DOMAIN probes = 1..(n - 1) /\ DOMAIN probes' = 1..n
      /\ n \in Nat \ {0} /\ probes'[n] = p
      /\ \A i \in DOMAIN probes : probes'[i] = probes[i] /\ probes[i].began \in Nat
  <2>1. p \in Probe
    BY <1>2 DEF CheckTypes, Probe
  <2>2. probes \in Seq(Probe)
    BY <1>2 DEF CheckTypes
  <2>3. \A i \in DOMAIN probes : probes[i].began \in Nat
    BY <1>2, BeganTypes
  <2> HIDE DEF p
  <2> QED BY <1>1, <2>1, <2>2, <2>3
<1>4. 1..n = 1..(n - 1) \cup {n} /\ n \notin 1..(n - 1)
  BY <1>3
<1>5. \A g \in Handler : /\ Probing(g)' <=> Probing(g) \/ g = h
                         /\ Probing(g) => Began(g)' = Began(g) /\ Began(g) \in Nat /\ Began(g) <= time
                         /\ g = h => Began(g)' = time
  <2>1. \A g \in Handler : Probing(g) => g # h /\ announce[g].probe \in DOMAIN probes
    BY <1>1, <1>2 DEF Probing, CheckTypes, Requests, Idle
  <2>2. announce'[h].pc = "probing" /\ announce'[h].probe = n
    BY <1>1, <1>2 DEF CheckTypes
  <2>3. \A g \in Handler : g # h => announce'[g] = announce[g]
    BY <1>1, <1>2 DEF CheckTypes
  <2>4. probes'[n].began = time
    BY <1>3
  <2> HIDE DEF n, p
  <2> QED BY <1>2, <1>3, <2>1, <2>2, <2>3, <2>4 DEF Probing, Began, NoneAhead
<1>6. NoneAhead'
  BY <1>1, <1>2, <1>3, <1>4 DEF NoneAhead
<1>7. ~Probing(h)
  BY <1>1 DEF Probing
<1>8. ASSUME NEW t \in Time PROVE WithinBudget(t)'
  <2>1. t \in Nat
    BY TimeType
  <2> DEFINE o == Cardinality(OlderThan(t))
             y == Cardinality(YoungerThan(t))
             b == Cardinality(Begun(t))
  <2>2. /\ IsFiniteSet(YoungerThan(t)) /\ IsFiniteSet(Begun(t))
        /\ o \in Nat /\ y \in Nat /\ b \in Nat /\ N \in Nat /\ o + y + 1 <= N
    BY <1>2, <1>7, ProbingSizes
  <2>3. Spared(t)' <=> Spared(t)
    BY <1>1 DEF Spared
  <2>4. CASE time < t
    <3>1. YoungerThan(t)' = {} /\ Begun(t)' = {}
      <4>1. \A i \in DOMAIN probes' : probes'[i].began < t
        BY <1>2, <1>3, <1>4, <2>1, <2>4 DEF NoneAhead
      <4>2. \A g \in Handler : Probing(g)' => Began(g)' < t
        BY <1>2, <1>5, <2>1, <2>4
      <4>3. \A i \in DOMAIN probes' : probes'[i].began \in Nat
        BY <1>2, <1>3, <1>4
      <4>4. \A g \in Handler : Probing(g)' => Began(g)' \in Nat
        BY <1>2, <1>5
      <4> QED BY <2>1, <4>1, <4>2, <4>3, <4>4, NumberAssumption DEF YoungerThan, Begun
    <3>2. Spared(t)' = FALSE
      BY <1>1, <1>2, <2>1, <2>4, CacheNotAhead DEF Spared
    <3>3. Cardinality(OlderThan(t)') \in 0..N
      <4>1. OlderThan(t)' \subseteq Handler
        BY DEF OlderThan
      <4>2. /\ IsFiniteSet(OlderThan(t)') /\ Cardinality(OlderThan(t)') <= N
        BY <4>1, SetAssumption, FS_Subset
      <4>3. Cardinality(OlderThan(t)') \in Nat
        BY <4>2, FS_CardinalityType
      <4> QED BY <2>2, <4>2, <4>3
    <3>4. Cardinality(YoungerThan(t)') = 0 /\ Cardinality(Begun(t)') = 0
      BY <3>1, FS_EmptySet
    <3>5. Budget(N, Cardinality(OlderThan(t)'), 0, 0, FALSE)
      BY <2>2, <3>3, BudgetAtFirst
    <3>6. 2 * 0 <= N * (N + 1)
      BY <2>2
    <3> QED BY <3>2, <3>4, <3>5, <3>6 DEF WithinBudget
  <2>5. CASE t <= time /\ time < t + Ttl
    <3>1. OlderThan(t)' = OlderThan(t)
      BY <1>2, <1>5, <2>1, <2>5 DEF OlderThan
    <3>2. YoungerThan(t)' = YoungerThan(t) \cup {h}
      BY <1>2, <1>5, <2>1, <2>5 DEF YoungerThan
    <3>3. Begun(t)' = Begun(t) \cup {n}
      BY <1>2, <1>3, <1>4, <2>1, <2>5, NumberAssumption DEF Begun
    <3>4. h \notin YoungerThan(t) /\ n \notin Begun(t)
      BY <1>3, <1>4, <1>7 DEF YoungerThan, Begun
    <3>5. Cardinality(YoungerThan(t)') = y + 1 /\ Cardinality(Begun(t)') = b + 1
      BY <2>2, <3>2, <3>3, <3>4, FS_AddElement
    <3>6. Spared(t) = FALSE
      <4>1. cache # Empty => cache.updated_at \in Int
        BY <1>2, CacheNotAhead
      <4>2. cache # Empty => ~(cache.updated_at + Ttl > time)
        BY <1>1 DEF Fresh, Good
      <4> QED BY <1>2, <2>1, <2>5, <4>1, <4>2, NumberAssumption DEF Spared
    <3>7. Budget(N, o, y, b, FALSE)
      BY <2>5, <3>6 DEF BudgetInv, WithinBudget
    <3>8. Budget(N, o, y + 1, b + 1, FALSE)
      BY <2>2, <3>7, BudgetWhenBegun
    <3>9. 2 * (b + 1) <= N * (N + 1)
      <4>1. o + (y + 1) <= N /\ y + 1 \in Nat /\ b + 1 \in Nat
        BY <2>2
      <4> HIDE DEF o, y, b, N
      <4> QED BY <2>2, <3>8, <4>1, BudgetBounds
    <3>10. Spared(t)' = FALSE
      BY <1>1, <3>6 DEF Spared
    <3>11. Budget(Cardinality(Handler), Cardinality(OlderThan(t)'), Cardinality(YoungerThan(t)'),
                  Cardinality(Begun(t)'), Spared(t)')
      BY <3>1, <3>5, <3>8, <3>10
    <3> QED BY <3>5, <3>9, <3>11 DEF WithinBudget
  <2>6. CASE time >= t + Ttl
    <3>1. Begun(t)' = Begun(t)
      BY <1>2, <1>3, <1>4, <2>1, <2>6, NumberAssumption DEF Begun
    <3>2. ~(time' < t + Ttl)
      BY <1>1, <1>2, <2>1, <2>6, NumberAssumption
    <3> QED BY <3>1, <3>2 DEF BudgetInv, WithinBudget
  <2> QED BY <1>2, <2>1, <2>4, <2>5, <2>6, NumberAssumption
<1> QED BY <1>6, <1>8 DEF BudgetInv

\* A probe that ends puts its answer into the cache, with the time it began
\* (check_connectivity).
LEMMA ProbeEndsBudget ==
    ASSUME CheckInv, BudgetInv, NEW h \in Handler, ProbeEnds(h)
    PROVE  BudgetInv'
<1> DEFINE n == announce[h].probe
           N == Cardinality(Handler)
<1>1. PICK c \in BOOLEAN :
        /\ cache' = [connectable |-> c, updated_at |-> probes[n].began]
        /\ probes' = [probes EXCEPT ![n].found = {c}]
        /\ announce' = [announce EXCEPT ![h] =
               [pc |-> "locking", under |-> announce[h].under, connectable |-> c]]
  BY DEF ProbeEnds, Cached, Checked
<1>2. CheckTypes /\ NoneAhead /\ time \in Nat /\ time' = time /\ Probing(h)
  BY TimeType DEF CheckInv, CheckTypes, BudgetInv, ProbeEnds, Probing
<1>3. n \in DOMAIN probes /\ probes[n].began \in Time
  <2>1. n \in DOMAIN probes
    BY <1>2, BeganTypes
  <2> QED BY <1>2, <2>1, BeganTypes
<1>4. DOMAIN probes' = DOMAIN probes /\ \A i \in DOMAIN probes : probes'[i].began = probes[i].began
  <2>1. \A i \in DOMAIN probes : probes[i] \in Probe
    BY <1>2, BeganTypes
  <2> QED BY <1>1, <1>3, <2>1 DEF Probe
<1>5. \A g \in Handler : /\ Probing(g)' <=> Probing(g) /\ g # h
                         /\ Probing(g)' => Began(g)' = Began(g)
  <2>1. announce'[h].pc # "probing"
    BY <1>1, <1>2 DEF CheckTypes
  <2>2. \A g \in Handler : g # h => announce'[g] = announce[g]
    BY <1>1, <1>2 DEF CheckTypes
  <2>3. \A g \in Handler : Probing(g) => announce[g].probe \in DOMAIN probes
    BY <1>2, BeganTypes
  <2> QED BY <1>4, <2>1, <2>2, <2>3 DEF Probing, Began
<1>6. NoneAhead'
  BY <1>2, <1>4 DEF NoneAhead
<1>7. cache' # Empty /\ cache'.updated_at = Began(h) /\ Began(h) \in Nat
  <2>1. cache' \in Entry
    BY <1>1, <1>3 DEF Entry
  <2> QED BY <1>1, <1>3, <2>1, EmptyIsNoEntry, TimeType DEF Began
<1>8. ASSUME NEW t \in Time PROVE WithinBudget(t)'
  <2>1. t \in Nat
    BY TimeType
  <2> DEFINE o == Cardinality(OlderThan(t))
             y == Cardinality(YoungerThan(t))
             b == Cardinality(Begun(t))
  <2>2. /\ IsFiniteSet(OlderThan(t)) /\ IsFiniteSet(YoungerThan(t))
        /\ o \in Nat /\ y \in Nat /\ b \in Nat /\ N \in Nat /\ o + y <= N
        /\ Spared(t) \in BOOLEAN
    BY <1>2, ProbingSizes
  <2>3. Begun(t)' = Begun(t)
    BY <1>4 DEF Begun
  <2>4. OlderThan(t)' = OlderThan(t) \ {h} /\ YoungerThan(t)' = YoungerThan(t) \ {h}
    BY <1>5 DEF OlderThan, YoungerThan
  <2>5. CASE Began(h) < t
    <3>1. h \in OlderThan(t) /\ h \notin YoungerThan(t)
      BY <1>2, <1>7, <2>1, <2>5 DEF OlderThan, YoungerThan
    <3>2. Cardinality(OlderThan(t)') = o - 1 /\ o # 0 /\ YoungerThan(t)' = YoungerThan(t)
      <4>1. o # 0
        BY <2>2, <3>1, FS_EmptySet
      <4>2. Cardinality(OlderThan(t) \ {h}) = o - 1
        BY <2>2, <3>1, FS_RemoveElement
      <4>3. YoungerThan(t) \ {h} = YoungerThan(t)
        BY <3>1
      <4> QED BY <2>4, <4>1, <4>2, <4>3
    <3>3. Spared(t)' = FALSE
      BY <1>7, <2>1, <2>5 DEF Spared
    <3>4. ASSUME time < t + Ttl PROVE Budget(N, o - 1, y, b, FALSE)
      <4>1. Budget(N, o, y, b, Spared(t))
        BY <3>4 DEF BudgetInv, WithinBudget
      <4> HIDE DEF o, y, b, N
      <4> QED BY <2>2, <3>2, <4>1, BudgetWhenOldEnds
    <3> QED BY <1>2, <2>3, <3>2, <3>3, <3>4 DEF BudgetInv, WithinBudget
  <2>6. CASE Began(h) >= t
    <3>1. h \notin OlderThan(t) /\ h \in YoungerThan(t)
      BY <1>2, <1>7, <2>1, <2>6 DEF OlderThan, YoungerThan
    <3>2. OlderThan(t)' = OlderThan(t) /\ Cardinality(YoungerThan(t)') = y - 1
      <4>1. Cardinality(YoungerThan(t) \ {h}) = y - 1
        BY <2>2, <3>1, FS_RemoveElement
      <4>2. OlderThan(t) \ {h} = OlderThan(t)
        BY <3>1
      <4> QED BY <2>4, <4>1, <4>2
    <3>3. Spared(t)' = TRUE
      BY <1>7, <2>1, <2>6 DEF Spared
    <3>4. ASSUME time < t + Ttl PROVE Budget(N, o, y - 1, b, TRUE)
      <4>1. Budget(N, o, y, b, Spared(t))
        BY <3>4 DEF BudgetInv, WithinBudget
      <4> HIDE DEF o, y, b, N
      <4> QED BY <2>2, <4>1, BudgetWhenYoungEnds
    <3> QED BY <1>2, <2>3, <3>2, <3>3, <3>4 DEF BudgetInv, WithinBudget
  <2> QED BY <1>7, <2>1, <2>5, <2>6
<1> QED BY <1>6, <1>8 DEF BudgetInv

\* At the start there is no probe.
LEMMA BudgetInit == Init => BudgetInv
<1> SUFFICES ASSUME Init PROVE BudgetInv
  OBVIOUS
<1>1. probes = <<>> /\ DOMAIN probes = {}
  BY DEF Init
<1>2. \A h \in Handler : ~Probing(h)
  BY DEF Init, Probing, Idle
<1>3. \A t \in Time : OlderThan(t) = {} /\ YoungerThan(t) = {} /\ Begun(t) = {}
  BY <1>1, <1>2 DEF OlderThan, YoungerThan, Begun
<1>4. Cardinality({}) = 0 /\ Cardinality(Handler) \in Nat
  BY SetAssumption, FS_EmptySet, FS_CardinalityType
<1>5. \A spared \in BOOLEAN : Budget(Cardinality(Handler), 0, 0, 0, spared)
  <2>1. 0 \in 0..Cardinality(Handler)
    BY <1>4
  <2>2. Budget(Cardinality(Handler), 0, 0, 0, FALSE)
    BY <1>4, <2>1, BudgetAtFirst
  <2> QED BY <1>4, <2>2 DEF Budget
<1>6. 2 * 0 <= Cardinality(Handler) * (Cardinality(Handler) + 1)
  BY <1>4
<1>7. \A t \in Time : Spared(t) \in BOOLEAN
  BY DEF Spared
<1>8. \A t \in Time : WithinBudget(t)
  BY <1>3, <1>4, <1>5, <1>6, <1>7 DEF WithinBudget
<1> QED BY <1>1, <1>8 DEF BudgetInv, NoneAhead

\* Every step stays within every budget.
LEMMA BudgetStep == CheckInv /\ BudgetInv /\ [Next]_vars => BudgetInv'
<1> SUFFICES ASSUME CheckInv, BudgetInv, [Next]_vars PROVE BudgetInv'
  OBVIOUS
<1>1. CheckTypes
  BY DEF CheckInv
<1>2. ASSUME NEW h \in Handler, Receive(h) PROVE BudgetInv'
  <2>1. announce[h].pc # "probing"
    BY <1>2 DEF Receive, Idle
  <2> QED BY <1>1, <1>2, <2>1, NoProbeMoves DEF Receive
<1>3. ASSUME NEW h \in Handler, NoCheck(h) \/ CacheHit(h) PROVE BudgetInv'
  BY <1>1, <1>3, NoProbeMoves DEF NoCheck, CacheHit, Checked
<1>4. ASSUME NEW h \in Handler, Answer(h) \/ Count(h) PROVE BudgetInv'
  <2>1. CASE Answer(h)
    <3>1. PICK asks : announce' = [announce EXCEPT ![h] = [pc |-> "counting", asks |-> asks]]
      BY <2>1 DEF Answer
    <3>2. [pc |-> "counting", asks |-> asks].pc # "probing"
      OBVIOUS
    <3>3. announce[h].pc # "probing" /\ UNCHANGED <<time, loaded, cache, probes>>
      BY <2>1 DEF Answer
    <3> QED BY <1>1, <3>1, <3>2, <3>3, NoProbeMoves
  <2>2. CASE Count(h)
    <3>1. announce' = [announce EXCEPT ![h] = Idle] /\ Idle.pc # "probing"
      BY <2>2 DEF Count, Idle
    <3>2. announce[h].pc # "probing" /\ UNCHANGED <<time, loaded, cache, probes>>
      BY <2>2 DEF Count
    <3> QED BY <1>1, <3>1, <3>2, NoProbeMoves
  <2> QED BY <1>4, <2>1, <2>2
<1>5. ASSUME NEW h \in Handler, ProbeBegins(h) \/ ProbeEnds(h) PROVE BudgetInv'
  BY <1>5, ProbeBeginsBudget, ProbeEndsBudget
<1>6. CASE TimePasses \/ UNCHANGED vars
  <2>1. UNCHANGED <<loaded, cache, announce, probes>> /\ time' \in Nat /\ time' >= time /\ time \in Nat
    BY <1>1, <1>6, TimeType DEF TimePasses, vars, CheckTypes
  <2>2. \A t \in Time : /\ OlderThan(t)' = OlderThan(t) /\ YoungerThan(t)' = YoungerThan(t)
                        /\ Begun(t)' = Begun(t) /\ Spared(t)' = Spared(t)
    BY <2>1 DEF OlderThan, YoungerThan, Begun, Spared, Probing, Began
  <2>3. \A t \in Time : time' < t + Ttl => time < t + Ttl
    BY <2>1, TimeType, NumberAssumption
  <2>4. \A t \in Time : WithinBudget(t)'
    BY <2>2, <2>3 DEF BudgetInv, WithinBudget
  <2>5. \A i \in DOMAIN probes : probes[i].began \in Nat
    BY <1>1, BeganTypes
  <2>6. NoneAhead'
    BY <2>1, <2>5 DEF BudgetInv, NoneAhead
  <2> QED BY <2>4, <2>6 DEF BudgetInv
<1> QED BY <1>2, <1>3, <1>4, <1>5, <1>6 DEF Next, Announce

\* However many announces overlap at a socket, in any period of
\* connectivity_check_interval they probe it 1 + 2 + ... + n times at most
\* (announce.rs, check_connectivity).
THEOREM SocketIsSpared == Spec => []ProbesBounded
<1>1. CheckInv /\ BudgetInv => ProbesBounded
  <2> SUFFICES ASSUME CheckInv, BudgetInv, NEW t \in Time
               PROVE  Cardinality(Begun(t))
                        <= (Cardinality(Handler) * (Cardinality(Handler) + 1)) \div 2
    BY DEF ProbesBounded, Begun
  <2>1. Cardinality(Begun(t)) \in Nat /\ Cardinality(Handler) \in Nat
    BY ProbingSizes DEF CheckInv
  <2>2. 2 * Cardinality(Begun(t)) <= Cardinality(Handler) * (Cardinality(Handler) + 1)
    BY DEF BudgetInv, WithinBudget
  <2>3. \A b \in Nat, m \in Int : 2 * b <= m => b <= m \div 2
    OBVIOUS
  <2>4. Cardinality(Handler) * (Cardinality(Handler) + 1) \in Int
    BY <2>1
  <2> QED BY <2>1, <2>2, <2>3, <2>4
<1> QED BY <1>1, CheckInvariant, BudgetInit, BudgetStep, PTL DEF Spec

(***************************************************************************)
(* Powers of two.                                                          *)
(***************************************************************************)
\* What one step of the recursion makes of smaller powers.
Doubled(g, n) == IF n = 0 THEN 1 ELSE 2 * g[n - 1]

\* The recursion has a solution up to every number.
LEMMA PowersExist ==
    ASSUME NEW n \in Nat
    PROVE  \E g : g = [m \in 0..n |-> Doubled(g, m)]
<1> DEFINE N == {i \in Nat : \E g : g = [m \in 0..i |-> Doubled(g, m)]}
<1>1. 0 \in N
  <2> DEFINE g == [m \in 0..0 |-> 1]
  <2>1. g = [m \in 0..0 |-> Doubled(g, m)]
    BY DEF Doubled
  <2> HIDE DEF g
  <2> QED BY <2>1
<1>2. ASSUME NEW i \in Nat, i \in N PROVE i + 1 \in N
  <2>1. PICK g : g = [m \in 0..i |-> Doubled(g, m)]
    BY <1>2
  <2> DEFINE h == [m \in 0..(i + 1) |-> Doubled(g, m)]
  <2>2. \A m \in 0..i : h[m] = g[m]
    BY <2>1
  <2>3. \A m \in 0..(i + 1) : Doubled(h, m) = Doubled(g, m)
    <3>1. \A m \in 0..(i + 1) : m # 0 => m - 1 \in 0..i
      OBVIOUS
    <3> HIDE DEF h
    <3> QED BY <2>2, <3>1 DEF Doubled
  <2>4. h = [m \in 0..(i + 1) |-> Doubled(h, m)]
    <3>1. h = [m \in 0..(i + 1) |-> h[m]]
      OBVIOUS
    <3>2. \A m \in 0..(i + 1) : h[m] = Doubled(g, m)
      OBVIOUS
    <3> HIDE DEF h
    <3> QED BY <2>3, <3>1, <3>2
  <2> HIDE DEF h
  <2> QED BY <2>4
<1>3. Nat \subseteq N
  <2> HIDE DEF N
  <2> QED BY <1>1, <1>2, NatSetInduction
<1> QED BY <1>3

\* And one only, however far it goes.
LEMMA PowersAgree ==
    ASSUME NEW m \in Nat, NEW n \in Nat, m <= n, NEW g, NEW h,
           g = [i \in 0..m |-> Doubled(g, i)], h = [i \in 0..n |-> Doubled(h, i)]
    PROVE  g[m] = h[m]
<1> DEFINE N == {i \in Nat : i <= m => g[i] = h[i]}
<1>0. /\ \A i \in 0..m : g[i] = Doubled(g, i)
      /\ \A i \in 0..n : h[i] = Doubled(h, i)
  OBVIOUS
<1>1. 0 \in N
  BY <1>0 DEF Doubled
<1>2. ASSUME NEW i \in Nat, i \in N PROVE i + 1 \in N
  <2> SUFFICES ASSUME i + 1 <= m PROVE g[i + 1] = h[i + 1]
    OBVIOUS
  <2>1. g[i + 1] = Doubled(g, i + 1) /\ h[i + 1] = Doubled(h, i + 1)
    BY <1>0
  <2>2. (i + 1) - 1 = i /\ i + 1 # 0 /\ g[i] = h[i]
    BY <1>2
  <2> QED BY <2>1, <2>2 DEF Doubled
<1>3. Nat \subseteq N
  <2> HIDE DEF N
  <2> QED BY <1>1, <1>2, NatSetInduction
<1> QED BY <1>3

\* So PowerOf2 is what its definition says.
LEMMA PowerUnfolds ==
    /\ PowerOf2[0] = 1
    /\ \A n \in Nat : PowerOf2[n + 1] = 2 * PowerOf2[n]
<1> DEFINE Step(g) == [n \in Nat |-> IF n = 0 THEN 1 ELSE 2 * g[n - 1]]
           Upto(n) == CHOOSE g : g = [m \in 0..n |-> Doubled(g, m)]
           all == [n \in Nat |-> Upto(n)[n]]
<1>1. \A n \in Nat : Upto(n) = [m \in 0..n |-> Doubled(Upto(n), m)]
  BY PowersExist
<1>2. all[0] = 1
  <2> DEFINE g == Upto(0)
  <2>1. g = [m \in 0..0 |-> Doubled(g, m)] /\ all[0] = g[0]
    BY <1>1
  <2> HIDE DEF g, all
  <2> QED BY <2>1 DEF Doubled
<1>3. ASSUME NEW n \in Nat PROVE all[n + 1] = 2 * all[n]
  <2> DEFINE g == Upto(n)
             h == Upto(n + 1)
  <2>1. g = [m \in 0..n |-> Doubled(g, m)] /\ h = [m \in 0..(n + 1) |-> Doubled(h, m)]
    BY <1>1
  <2>2. all[n] = g[n] /\ all[n + 1] = h[n + 1]
    OBVIOUS
  <2> HIDE DEF g, h
  <2>3. g[n] = h[n]
    BY <2>1, PowersAgree
  <2>4. h[n + 1] = Doubled(h, n + 1)
    BY <2>1
  <2>5. n + 1 # 0 /\ (n + 1) - 1 = n
    OBVIOUS
  <2> HIDE DEF all
  <2> QED BY <2>2, <2>3, <2>4, <2>5 DEF Doubled
<1> HIDE DEF Upto
<1>4. all = Step(all)
  <2>1. ASSUME NEW n \in Nat PROVE all[n] = IF n = 0 THEN 1 ELSE 2 * all[n - 1]
    <3>1. CASE n = 0
      BY <1>2, <3>1
    <3>2. CASE n # 0
      <4>1. n - 1 \in Nat /\ (n - 1) + 1 = n
        BY <3>2
      <4>2. all[(n - 1) + 1] = 2 * all[n - 1]
        BY <1>3, <4>1
      <4> HIDE DEF all
      <4> QED BY <3>2, <4>1, <4>2
    <3> HIDE DEF all
    <3> QED BY <3>1, <3>2
  <2>2. all = [n \in Nat |-> all[n]]
    OBVIOUS
  <2> HIDE DEF all
  <2> QED BY <2>1, <2>2
<1> HIDE DEF all
<1>5. PowerOf2 = CHOOSE g : g = Step(g)
  BY DEF PowerOf2
<1> HIDE DEF Step
<1>6. PowerOf2 = Step(PowerOf2)
  BY <1>4, <1>5
<1> USE DEF Step
<1>7. \A n \in Nat : PowerOf2[n] = IF n = 0 THEN 1 ELSE 2 * PowerOf2[n - 1]
  BY <1>6
<1>8. PowerOf2[0] = 1
  BY <1>7
<1>9. ASSUME NEW n \in Nat PROVE PowerOf2[n + 1] = 2 * PowerOf2[n]
  <2>1. n + 1 \in Nat /\ n + 1 # 0 /\ (n + 1) - 1 = n
    OBVIOUS
  <2>2. PowerOf2[n + 1] = 2 * PowerOf2[(n + 1) - 1]
    BY <1>7, <2>1
  <2> QED BY <2>1, <2>2
<1> QED BY <1>8, <1>9

\* A power of two is a positive number.
LEMMA PowerType ==
    ASSUME NEW n \in Nat
    PROVE  PowerOf2[n] \in Nat \ {0}
<1> DEFINE N == {i \in Nat : PowerOf2[i] \in Nat \ {0}}
<1>1. 0 \in N
  BY PowerUnfolds
<1>2. ASSUME NEW i \in Nat, i \in N PROVE i + 1 \in N
  BY <1>2, PowerUnfolds
<1>3. Nat \subseteq N
  <2> HIDE DEF N
  <2> QED BY <1>1, <1>2, NatSetInduction
<1> QED BY <1>3

\* Halving as often as m and n together is halving m times, then n times.
LEMMA PowerOfSum ==
    ASSUME NEW m \in Nat, NEW n \in Nat
    PROVE  PowerOf2[m + n] = PowerOf2[m] * PowerOf2[n]
<1> DEFINE N == {i \in Nat : PowerOf2[m + i] = PowerOf2[m] * PowerOf2[i]}
<1>1. 0 \in N
  <2>1. m + 0 = m /\ PowerOf2[m] \in Nat
    BY PowerType
  <2> QED BY <2>1, PowerUnfolds
<1>2. ASSUME NEW i \in Nat, i \in N PROVE i + 1 \in N
  <2> DEFINE a == PowerOf2[m]
             b == PowerOf2[i]
  <2>1. m + (i + 1) = (m + i) + 1 /\ m + i \in Nat
    OBVIOUS
  <2>2. PowerOf2[(m + i) + 1] = 2 * PowerOf2[m + i] /\ PowerOf2[i + 1] = 2 * b
    BY <2>1, PowerUnfolds
  <2>3. PowerOf2[m + i] = a * b
    BY <1>2
  <2>4. a \in Nat /\ b \in Nat
    BY PowerType
  <2> HIDE DEF a, b
  <2>5. 2 * (a * b) = a * (2 * b)
    BY <2>4
  <2>6. PowerOf2[m + (i + 1)] = a * PowerOf2[i + 1]
    BY <2>1, <2>2, <2>3, <2>5
  <2> QED BY <2>6 DEF a
<1>3. Nat \subseteq N
  <2> HIDE DEF N
  <2> QED BY <1>1, <1>2, NatSetInduction
<1> QED BY <1>3

(***************************************************************************)
(* What events weigh.                                                      *)
(***************************************************************************)
\* Division undoes multiplication.
LEMMA Quotient ==
    ASSUME NEW a \in Nat, NEW b \in Nat \ {0}
    PROVE  (a * b) \div b = a
<1> DEFINE c == a * b
           q == c \div b
<1>1. c \in Nat /\ q \in Int /\ b * q <= c /\ c < b * q + b
  OBVIOUS
<1>2. b * q <= b * a /\ b * a < b * (q + 1)
  BY <1>1
<1> HIDE DEF q
<1>3. q <= a
  <2> SUFFICES ASSUME q >= a + 1 PROVE FALSE
    BY <1>1
  <2> DEFINE d == q - a
  <2>1. d \in Nat /\ d >= 1 /\ q = a + d
    BY <1>1
  <2> HIDE DEF d
  <2>2. b * d >= b
    <3>1. d - 1 \in Nat
      BY <2>1
    <3>2. b * (d - 1) >= 0
      BY <3>1
    <3>3. b * (d - 1) = b * d - b
      BY <2>1
    <3> QED BY <2>1, <3>2, <3>3
  <2>3. b * q = b * a + b * d
    BY <2>1
  <2> QED BY <1>1, <1>2, <2>1, <2>2, <2>3
<1>4. a <= q
  <2> SUFFICES ASSUME a >= q + 1 PROVE FALSE
    BY <1>1
  <2> QED BY <1>1, <1>2
<1> QED BY <1>1, <1>3, <1>4 DEF q

\* A unit that has decayed is a smaller power of two, without a remainder.
LEMMA DecayedUnit ==
    ASSUME NEW l \in LimitType, NEW e \in Time
    PROVE  /\ MaxTime * MostHalvings - e * l.halvings \in Nat
           /\ Decayed(Unit, l, e) = PowerOf2[MaxTime * MostHalvings - e * l.halvings]
           /\ Decayed(Unit, l, e) \in Nat
<1> DEFINE h == l.halvings
           m == MaxTime * MostHalvings
           d == e * h
<1>1. h \in 1..MostHalvings /\ e \in 0..MaxTime /\ MaxTime \in Nat /\ MostHalvings \in Nat
  BY NumberAssumption DEF LimitType, Time
<1>2. m \in Nat /\ d \in Nat /\ d <= m
  <2>1. m \in Nat /\ d \in Nat
    BY <1>1
  <2>2. d <= MaxTime * h
    BY <1>1
  <2>3. MaxTime * h <= m
    BY <1>1
  <2> QED BY <1>1, <2>1, <2>2, <2>3
<1> HIDE DEF m, d
<1>3. m - d \in Nat /\ (m - d) + d = m
  BY <1>2
<1>4. PowerOf2[m] = PowerOf2[m - d] * PowerOf2[d]
  BY <1>2, <1>3, PowerOfSum
<1>5. PowerOf2[m - d] \in Nat /\ PowerOf2[d] \in Nat \ {0}
  BY <1>2, <1>3, PowerType
<1>6. PowerOf2[m] \div PowerOf2[d] = PowerOf2[m - d]
  BY <1>4, <1>5, Quotient
<1> QED BY <1>3, <1>5, <1>6 DEF Decayed, Unit, m, d

\* The weight of events is a natural number.
LEMMA WeightType ==
    ASSUME NEW events \in [Time -> Nat], NEW l \in LimitType, NEW now \in Time
    PROVE  /\ [t \in 0..now |-> events[t] * Decayed(Unit, l, now - t)] \in [0..now -> Nat]
           /\ IsFiniteSet(0..now)
           /\ Weight(events, l, now) \in Nat
<1> DEFINE f == [t \in 0..now |-> events[t] * Decayed(Unit, l, now - t)]
<1>1. ASSUME NEW t \in 0..now PROVE events[t] * Decayed(Unit, l, now - t) \in Nat
  <2>1. t \in Time /\ now - t \in Time
    BY NumberAssumption DEF Time
  <2>2. events[t] \in Nat /\ Decayed(Unit, l, now - t) \in Nat
    BY <2>1, DecayedUnit
  <2> QED BY <2>2
<1>2. f \in [0..now -> Nat]
  BY <1>1
<1>3. IsFiniteSet(0..now)
  BY FS_Interval, NumberAssumption DEF Time
<1> HIDE DEF f
<1>4. SumFunction(f) \in Nat
  <2>1. f \in [0..now -> Int] /\ \A t \in 0..now : f[t] >= 0
    BY <1>2
  <2> QED BY <1>3, <2>1, TotalOfNaturals
<1> QED BY <1>2, <1>3, <1>4 DEF Weight, f

\* Events that are all past lose weight as a rate does that counts them.
LEMMA WeightDecays ==
    ASSUME NEW events \in [Time -> Nat], NEW l \in LimitType, NEW u \in Time, NEW now \in Time,
           u <= now, \A t \in Time : t > u => events[t] = 0
    PROVE  /\ (now - u) * l.halvings \in Nat
           /\ Weight(events, l, now) * PowerOf2[(now - u) * l.halvings] = Weight(events, l, u)
           /\ Decayed(Weight(events, l, u), l, now - u) = Weight(events, l, now)
<1> DEFINE h == l.halvings
           c == PowerOf2[(now - u) * h]
           f == [t \in 0..u |-> events[t] * Decayed(Unit, l, u - t)]
           g == [t \in 0..now |-> events[t] * Decayed(Unit, l, now - t)]
<1>1. h \in Nat /\ u \in Nat /\ now \in Nat /\ MaxTime \in Nat /\ MostHalvings \in Nat
  BY NumberAssumption DEF LimitType, Time
<1>2. (now - u) * h \in Nat
  <2>1. now - u \in Nat
    BY <1>1
  <2> QED BY <1>1, <2>1
<1>3. c \in Nat \ {0}
  BY <1>2, PowerType
<1>4. ASSUME NEW t \in 0..u PROVE g[t] * c = f[t]
  <2> DEFINE x == MaxTime * MostHalvings - (now - t) * h
             y == MaxTime * MostHalvings - (u - t) * h
  <2>1. t \in Time /\ t \in 0..now /\ now - t \in Time /\ u - t \in Time
    BY <1>1 DEF Time
  <2>2. /\ x \in Nat /\ Decayed(Unit, l, now - t) = PowerOf2[x]
        /\ y \in Nat /\ Decayed(Unit, l, u - t) = PowerOf2[y]
    BY <2>1, DecayedUnit
  <2>3. x + (now - u) * h = y
    BY <1>1, <2>1
  <2>4. PowerOf2[y] = PowerOf2[x] * c
    BY <1>2, <2>2, <2>3, PowerOfSum
  <2>5. f[t] = events[t] * PowerOf2[y] /\ g[t] = events[t] * PowerOf2[x]
    BY <2>1, <2>2
  <2>6. events[t] \in Nat /\ PowerOf2[x] \in Nat
    BY <2>1, <2>2, PowerType
  <2>7. \A i, j, k \in Nat : (i * j) * k = i * (j * k)
    OBVIOUS
  <2> HIDE DEF x, y, f, g, c
  <2> QED BY <1>3, <2>4, <2>5, <2>6, <2>7
<1>5. ASSUME NEW t \in (0..now) \ (0..u) PROVE g[t] = 0
  <2>1. t \in Time /\ t > u /\ now - t \in Time
    BY <1>1 DEF Time
  <2>2. events[t] = 0 /\ Decayed(Unit, l, now - t) \in Nat
    BY <2>1, DecayedUnit
  <2> QED BY <2>2
<1>6. /\ f \in [0..u -> Int] /\ g \in [0..now -> Int] /\ IsFiniteSet(0..now)
      /\ 0..u \subseteq 0..now
  <2>1. f \in [0..u -> Nat] /\ g \in [0..now -> Nat] /\ IsFiniteSet(0..now)
    BY WeightType
  <2> QED BY <1>1, <2>1
<1>7. Weight(events, l, u) = SumFunction(f) /\ Weight(events, l, now) = SumFunction(g)
  BY DEF Weight
<1>8. Weight(events, l, now) \in Nat
  BY WeightType
<1> HIDE DEF f, g
<1>9. SumFunction(g) * c = SumFunction(f)
  <2> DEFINE R == 0..now
             S == 0..u
  <2>1. f \in [S -> Int] /\ g \in [R -> Int] /\ c \in Int /\ S \subseteq R /\ IsFiniteSet(R)
    BY <1>3, <1>6
  <2>2. (\A x \in S : g[x] * c = f[x]) /\ (\A x \in R \ S : g[x] = 0)
    BY <1>4, <1>5
  <2> HIDE DEF c, R, S
  <2> QED BY <2>1, <2>2, TotalScaled
<1>10. (Weight(events, l, now) * c) \div c = Weight(events, l, now)
  BY <1>3, <1>8, Quotient
<1> QED BY <1>2, <1>7, <1>9, <1>10 DEF Decayed

\* An event more, now, is a unit more.
LEMMA WeightOfAgain ==
    ASSUME NEW events \in [Time -> Nat], NEW l \in LimitType, time \in Time
    PROVE  /\ Again(events) \in [Time -> Nat]
           /\ Weight(Again(events), l, time) = Weight(events, l, time) + Unit
<1> DEFINE more == Again(events)
           f == [t \in 0..time |-> events[t] * Decayed(Unit, l, time - t)]
           g == [t \in 0..time |-> more[t] * Decayed(Unit, l, time - t)]
<1>1. more \in [Time -> Nat] /\ more[time] = events[time] + 1
      /\ \A t \in Time : t # time => more[t] = events[t]
  BY DEF Again
<1>2. Weight(more, l, time) = SumFunction(g) /\ Weight(events, l, time) = SumFunction(f)
  BY DEF Weight
<1> HIDE DEF more
<1>3. f \in [0..time -> Nat] /\ g \in [0..time -> Nat] /\ IsFiniteSet(0..time)
  BY <1>1, WeightType
<1>4. time \in 0..time /\ 0..time \subseteq Time /\ time - time = 0 /\ 0 \in Time
  BY NumberAssumption DEF Time
<1>5. Decayed(Unit, l, 0) = Unit /\ Unit \in Nat
  <2>1. 0 * l.halvings = 0 /\ MaxTime * MostHalvings \in Nat
    BY NumberAssumption DEF LimitType
  <2>2. MaxTime * MostHalvings - 0 * l.halvings = MaxTime * MostHalvings
    BY <2>1
  <2>3. Decayed(Unit, l, 0) = Unit
    BY <1>4, <2>2, DecayedUnit DEF Unit
  <2> QED BY <2>1, <2>3, PowerType DEF Unit
<1>6. \A t \in (0..time) \ {time} : g[t] = f[t]
  BY <1>1, <1>4
<1>7. f[time] = events[time] * Unit /\ g[time] = (events[time] + 1) * Unit
  BY <1>1, <1>4, <1>5
<1>8. events[time] \in Nat
  BY <1>4
<1> HIDE DEF f, g
<1> DEFINE S == 0..time
<1>9. /\ SumFunction(g) = SumFunction(f) + g[time] - f[time]
      /\ SumFunction(f) \in Int
  <2>1. f \in [S -> Int] /\ g \in [S -> Int] /\ IsFiniteSet(S) /\ time \in S
    BY <1>3, <1>4
  <2>2. \A t \in S \ {time} : g[t] = f[t]
    BY <1>6
  <2> HIDE DEF S
  <2> QED BY <2>1, <2>2, TotalOfChanged, TotalType
<1> DEFINE n == events[time]
<1>11. (n + 1) * Unit = n * Unit + Unit /\ n * Unit \in Int
  BY <1>5, <1>8
<1> QED BY <1>1, <1>2, <1>5, <1>7, <1>9, <1>11 DEF more

\* No event, no weight.
LEMMA WeightOfNone ==
    ASSUME NEW l \in LimitType, NEW now \in Time
    PROVE  Weight([t \in Time |-> 0], l, now) = 0
<1> DEFINE none == [t \in Time |-> 0]
           f == [t \in 0..now |-> none[t] * Decayed(Unit, l, now - t)]
<1>1. none \in [Time -> Nat]
  OBVIOUS
<1>2. f \in [0..now -> Nat] /\ IsFiniteSet(0..now)
  BY <1>1, WeightType
<1>3. ASSUME NEW t \in 0..now PROVE f[t] = 0
  <2>1. t \in Time /\ now - t \in Time
    BY NumberAssumption DEF Time
  <2>2. none[t] = 0 /\ Decayed(Unit, l, now - t) \in Nat
    BY <2>1, DecayedUnit
  <2> QED BY <2>2
<1>4. Weight(none, l, now) = SumFunction(f)
  BY DEF Weight
<1> HIDE DEF f
<1> DEFINE S == 0..now
<1>5. f \in [S -> Int] /\ IsFiniteSet(S) /\ \A t \in S : f[t] = 0
  BY <1>2, <1>3
<1> HIDE DEF S
<1> QED BY <1>4, <1>5, TotalOfZeros

(***************************************************************************)
(* Rates follow requests.                                                  *)
(***************************************************************************)
\* The types of what is counted, and of the settings.
CountTypes ==
    /\ check \in Check /\ announces \in 0..MaxAnnounces
    /\ \A k \in Kind : rates[k] \in [Limits[k] -> [count : Nat, updated_at : Time]]
    /\ asked \in [Kind -> [Time -> Nat]] /\ granted \in [Kind -> [Time -> Nat]]

\* Every rate counts all requests so far: none came after its last tick, which
\* is past.
RequestsInv ==
    \A k \in Kind : \A l \in Limits[k] :
        /\ rates[k][l].updated_at <= time
        /\ \A t \in Time : t > rates[k][l].updated_at => asked[k][t] = 0
        /\ rates[k][l].count = Weight(asked[k], l, rates[k][l].updated_at)

\* A limit is a window and a number (config.rs).
LEMMA LimitsType ==
    ASSUME NEW k \in Kind
    PROVE  Limits[k] \subseteq LimitType
BY LimitAssumption DEF Kind, Limits

\* Initially nothing is counted.
LEMMA RequestsInit == Init => CountTypes /\ RequestsInv
<1> SUFFICES ASSUME Init PROVE CountTypes /\ RequestsInv
  OBVIOUS
<1>1. 0 \in Time /\ time = 0
  BY TimeType DEF Init
<1>2. CountTypes
  <2>1. \A k \in Kind : rates[k] \in [Limits[k] -> [count : Nat, updated_at : Time]]
    BY <1>1 DEF Init
  <2>2. asked \in [Kind -> [Time -> Nat]] /\ granted \in [Kind -> [Time -> Nat]]
    BY DEF Init
  <2>3. check \in Check /\ announces \in 0..MaxAnnounces
    BY NumberAssumption DEF Init
  <2> QED BY <2>1, <2>2, <2>3 DEF CountTypes
<1>3. ASSUME NEW k \in Kind, NEW l \in Limits[k]
      PROVE  /\ rates[k][l] = [count |-> 0, updated_at |-> 0]
             /\ asked[k] = [t \in Time |-> 0]
             /\ Weight(asked[k], l, 0) = 0
  <2>1. rates[k][l] = [count |-> 0, updated_at |-> 0] /\ asked[k] = [t \in Time |-> 0]
    BY DEF Init
  <2>2. Weight([t \in Time |-> 0], l, 0) = 0
    BY <1>1, LimitsType, WeightOfNone
  <2> QED BY <2>1, <2>2
<1> QED BY <1>1, <1>2, <1>3 DEF RequestsInv

\* A tick takes a rate to now (rate.rs, Rate::tick).
LEMMA TickCounts ==
    ASSUME CountTypes, RequestsInv, time \in Time, NEW k \in Kind, NEW l \in Limits[k]
    PROVE  /\ Ticked(rates[k][l], l) \in [count : Nat, updated_at : Time]
           /\ Ticked(rates[k][l], l).updated_at = time
           /\ Ticked(rates[k][l], l).count = Weight(Again(asked[k]), l, time)
           /\ Weight(asked[k], l, time) <= rates[k][l].count
<1> DEFINE u == rates[k][l].updated_at
           w == Weight(asked[k], l, time)
<1>1. /\ rates[k][l] \in [count : Nat, updated_at : Time] /\ asked[k] \in [Time -> Nat]
      /\ l \in LimitType
  BY LimitsType DEF CountTypes
<1>2. /\ u \in Time /\ u <= time /\ \A t \in Time : t > u => asked[k][t] = 0
      /\ rates[k][l].count = Weight(asked[k], l, u)
  BY <1>1 DEF RequestsInv
<1>3. /\ (time - u) * l.halvings \in Nat
      /\ w * PowerOf2[(time - u) * l.halvings] = Weight(asked[k], l, u)
      /\ Decayed(Weight(asked[k], l, u), l, time - u) = w
  BY <1>1, <1>2, WeightDecays
<1>4. w \in Nat /\ Weight(Again(asked[k]), l, time) = w + Unit /\ Weight(Again(asked[k]), l, time) \in Nat
  <2>1. Again(asked[k]) \in [Time -> Nat] /\ Weight(Again(asked[k]), l, time) = w + Unit
    BY <1>1, WeightOfAgain
  <2> QED BY <1>1, <2>1, WeightType
<1>5. Ticked(rates[k][l], l) = [count |-> w + Unit, updated_at |-> time]
  BY <1>2, <1>3 DEF Ticked
<1>6. w <= rates[k][l].count
  <2> DEFINE c == PowerOf2[(time - u) * l.halvings]
  <2>1. c \in Nat /\ c >= 1
    BY <1>3, PowerType
  <2> HIDE DEF c, w
  <2>2. w * c >= w
    <3>1. c - 1 \in Nat
      BY <2>1
    <3>2. w * (c - 1) >= 0 /\ w * (c - 1) = w * c - w /\ w * c \in Int
      BY <1>4, <2>1, <3>1
    <3> QED BY <1>4, <3>2
  <2>3. w * c = rates[k][l].count
    BY <1>2, <1>3 DEF c, w
  <2> QED BY <2>2, <2>3 DEF w
<1> QED BY <1>4, <1>5, <1>6

\* The users lock ticks the rates of the lists that were asked for.
LEMMA CountKeepsRequests ==
    ASSUME CountTypes, RequestsInv, time \in Time, NEW h \in Handler, Count(h)
    PROVE  CountTypes' /\ RequestsInv'
<1> DEFINE asks == announce[h].asks
<1>1. /\ rates' = [k \in Kind |-> IF asks[k] THEN AllTicked(k) ELSE rates[k]]
      /\ asked' = [k \in Kind |-> IF asks[k] THEN Again(asked[k]) ELSE asked[k]]
      /\ UNCHANGED <<time, check, granted, announces>>
  BY DEF Count
<1>2. ASSUME NEW k \in Kind, asks[k]
      PROVE  /\ rates'[k] \in [Limits[k] -> [count : Nat, updated_at : Time]]
             /\ asked'[k] \in [Time -> Nat]
             /\ \A l \in Limits[k] :
                   /\ rates'[k][l].updated_at = time
                   /\ rates'[k][l].count = Weight(asked'[k], l, time)
                   /\ \A t \in Time : t > time => asked'[k][t] = 0
  <2>1. rates'[k] = [l \in Limits[k] |-> Ticked(rates[k][l], l)] /\ asked'[k] = Again(asked[k])
    BY <1>1, <1>2 DEF AllTicked
  <2>2. asked[k] \in [Time -> Nat]
    BY DEF CountTypes
  <2>3. asked'[k] \in [Time -> Nat] /\ \A t \in Time : t # time => asked'[k][t] = asked[k][t]
    BY <2>1, <2>2 DEF Again
  <2>4. ASSUME NEW l \in Limits[k]
        PROVE  /\ rates'[k][l] \in [count : Nat, updated_at : Time]
               /\ rates'[k][l].updated_at = time
               /\ rates'[k][l].count = Weight(asked'[k], l, time)
    BY <2>1, TickCounts
  <2>5. ASSUME NEW l \in Limits[k], NEW t \in Time, t > time
        PROVE  asked'[k][t] = 0
    <3>1. rates[k][l].updated_at \in Time /\ rates[k][l].updated_at <= time
      BY DEF CountTypes, RequestsInv
    <3>2. t \in Nat /\ time \in Nat /\ rates[k][l].updated_at \in Nat
      BY <3>1, TimeType
    <3>3. t > rates[k][l].updated_at /\ t # time
      BY <2>5, <3>1, <3>2
    <3> QED BY <2>3, <3>3 DEF RequestsInv
  <2> QED BY <2>1, <2>3, <2>4, <2>5
<1>3. ASSUME NEW k \in Kind, ~asks[k]
      PROVE  rates'[k] = rates[k] /\ asked'[k] = asked[k]
  BY <1>1, <1>3
<1>4. CountTypes'
  <2>1. \A k \in Kind : rates'[k] \in [Limits[k] -> [count : Nat, updated_at : Time]]
    BY <1>2, <1>3 DEF CountTypes
  <2>2. \A k \in Kind : asked'[k] \in [Time -> Nat]
    BY <1>2, <1>3 DEF CountTypes
  <2>3. asked' \in [Kind -> [Time -> Nat]]
    BY <1>1, <2>2
  <2> QED BY <1>1, <2>1, <2>3 DEF CountTypes
<1>5. ASSUME NEW k \in Kind, NEW l \in Limits[k]
      PROVE  /\ rates'[k][l].updated_at <= time
             /\ \A t \in Time : t > rates'[k][l].updated_at => asked'[k][t] = 0
             /\ rates'[k][l].count = Weight(asked'[k], l, rates'[k][l].updated_at)
  <2>1. CASE asks[k]
    <3>1. time <= time
      BY TimeType
    <3> QED BY <1>2, <2>1, <3>1
  <2>2. CASE ~asks[k]
    BY <1>3, <2>2 DEF RequestsInv
  <2> QED BY <2>1, <2>2
<1> QED BY <1>1, <1>4, <1>5 DEF RequestsInv

\* Every step keeps what is counted.
LEMMA RequestsStep ==
    ASSUME CheckTypes, CountTypes, RequestsInv, [Next]_vars
    PROVE  CountTypes' /\ RequestsInv'
<1>1. time \in Time /\ time \in Nat
  BY TimeType DEF CheckTypes
<1>2. ASSUME UNCHANGED <<check, rates, asked>>, time' \in Nat, time' >= time,
             announces' \in 0..MaxAnnounces, granted' \in [Kind -> [Time -> Nat]]
      PROVE  CountTypes' /\ RequestsInv'
  <2>1. CountTypes'
    BY <1>2 DEF CountTypes
  <2>2. ASSUME NEW k \in Kind, NEW l \in Limits[k] PROVE rates[k][l].updated_at <= time'
    <3>1. rates[k][l].updated_at \in Nat /\ rates[k][l].updated_at <= time
      BY TimeType DEF CountTypes, RequestsInv
    <3> QED BY <1>1, <1>2, <3>1
  <2>3. RequestsInv'
    BY <1>2, <2>2 DEF RequestsInv
  <2> QED BY <2>1, <2>3
<1>3. announces \in 0..MaxAnnounces /\ granted \in [Kind -> [Time -> Nat]]
  BY DEF CountTypes
<1>4. ASSUME NEW h \in Handler, Receive(h) PROVE CountTypes' /\ RequestsInv'
  <2>1. /\ UNCHANGED <<time, check, rates, asked>> /\ granted' = granted
        /\ announces < MaxAnnounces /\ announces' = announces + 1
    BY <1>4 DEF Receive
  <2>2. announces' \in 0..MaxAnnounces
    BY <1>3, <2>1, NumberAssumption
  <2> QED BY <1>1, <1>2, <1>3, <2>1, <2>2
<1>5. ASSUME NEW h \in Handler, NoCheck(h) \/ CacheHit(h) \/ ProbeBegins(h) \/ ProbeEnds(h)
      PROVE  CountTypes' /\ RequestsInv'
  <2>1. UNCHANGED <<time, check, rates, asked, granted, announces>>
    BY <1>5 DEF NoCheck, CacheHit, ProbeBegins, ProbeEnds
  <2> QED BY <1>1, <1>2, <1>3, <2>1
<1>6. ASSUME NEW h \in Handler, Answer(h) PROVE CountTypes' /\ RequestsInv'
  <2>1. PICK asks : granted' = [k \in Kind |-> IF asks[k] /\ announce[h].under[k]
                                               THEN Again(granted[k]) ELSE granted[k]]
    BY <1>6 DEF Answer
  <2>2. \A k \in Kind : Again(granted[k]) \in [Time -> Nat]
    BY <1>1, <1>3 DEF Again
  <2>3. granted' \in [Kind -> [Time -> Nat]]
    BY <1>3, <2>1, <2>2
  <2> QED BY <1>1, <1>2, <1>3, <1>6, <2>3 DEF Answer
<1>7. ASSUME NEW h \in Handler, Count(h) PROVE CountTypes' /\ RequestsInv'
  BY <1>1, <1>7, CountKeepsRequests
<1>8. CASE TimePasses
  <2>1. /\ UNCHANGED <<check, rates, asked>> /\ time' = time + 1
        /\ announces' = announces /\ granted' = granted
    BY <1>8 DEF TimePasses
  <2> QED BY <1>1, <1>2, <1>3, <2>1
<1>9. CASE UNCHANGED vars
  BY <1>1, <1>2, <1>3, <1>9 DEF vars
<1> QED BY <1>4, <1>5, <1>6, <1>7, <1>8, <1>9 DEF Next, Announce

\* Both invariants are one; the check and the counts only share the time.
AnswersInv == CheckInv /\ CountTypes /\ RequestsInv

\* It holds in every state.
LEMMA AnswersInvariant == Spec => []AnswersInv
<1>1. AnswersInv /\ [Next]_vars => AnswersInv'
  BY CheckInvStep, RequestsStep DEF AnswersInv, CheckInv
<1>2. Init => AnswersInv
  BY CheckInvInit, RequestsInit DEF AnswersInv
<1> QED BY <1>1, <1>2, PTL DEF Spec

\* Every variable keeps its type, whatever announces overlap (announce.rs,
\* rate.rs, store/connectable_port.rs).
THEOREM TypeCorrect == Spec => []TypeOK
<1>1. AnswersInv => TypeOK
  BY DEF AnswersInv, CheckInv, CheckTypes, CountTypes, TypeOK, Requests, Entry, Probe
<1> QED BY <1>1, AnswersInvariant, PTL

\* Every rate is what its documentation says, for any limits and however often
\* the lists are asked for meanwhile: the requests, each decayed since it was
\* made (rate.rs, Rate::tick; announce.rs, the users lock).
THEOREM RatesCountRequests == Spec => []RateFollowsRequests
<1>1. AnswersInv => RateFollowsRequests
  BY DEF AnswersInv, RequestsInv, RateFollowsRequests
<1> QED BY <1>1, AnswersInvariant, PTL

(***************************************************************************)
(* Grants keep near the limit.  A list is granted on rates that were read  *)
(* when the announce came in, and is counted only after the answer: so the *)
(* lists granted are compared with those asked for, and with the announces *)
(* that may still be granted one.                                          *)
(***************************************************************************)
\* An announce that was under the limit of these lists, and is not answered yet.
MayGet(a, k) == a.pc \in {"checking", "probing", "locking"} /\ a.under[k]

\* An announce that asked for the list and was answered, and is not counted yet.
Owes(a, k) == a.pc = "counting" /\ a.asks[k]

May(k) == {h \in Handler : MayGet(announce[h], k)}

Uncounted(k) == {h \in Handler : Owes(announce[h], k)}

\* Of lists that weigh w where the requests weigh a, with so many announces that
\* may get one and so many that owe their request: what is granted has been
\* asked for, and there is room for those that may get one.
Room(w, a, may, owed, most) ==
    /\ w <= a + owed * Unit
    /\ w + may * Unit <= (most + Cardinality(Handler)) * Unit

GrantInv ==
    \A k \in Kind :
        /\ \A t \in Time : t > time => granted[k][t] = 0
        /\ \A l \in Limits[k] :
              Room(Weight(granted[k], l, time), Weight(asked[k], l, time),
                   Cardinality(May(k)), Cardinality(Uncounted(k)), l.most)

\* An announce comes in under a limit: the rate, and so what has been asked for,
\* is within it.
LEMMA RoomForOneMore ==
    ASSUME NEW w \in Nat, NEW a \in Nat, NEW may \in Nat, NEW owed \in Nat, NEW most \in Nat,
           Room(w, a, may, owed, most), Unit \in Nat, Cardinality(Handler) \in Nat,
           a <= most * Unit, may + owed + 1 <= Cardinality(Handler)
    PROVE  Room(w, a, may + 1, owed, most)
<1> DEFINE u == Unit
           n == Cardinality(Handler)
           r == n - (may + owed + 1)
<1>1. u \in Nat /\ n \in Nat /\ r \in Nat /\ n = may + owed + 1 + r
  OBVIOUS
<1>2. w <= a + owed * u /\ a <= most * u
  BY DEF Room
<1> HIDE DEF u, n, r
<1>3. /\ (most + n) * u = most * u + owed * u + (may + 1) * u + r * u
      /\ r * u >= 0 /\ most * u \in Int /\ owed * u \in Int /\ (may + 1) * u \in Int /\ r * u \in Int
  <2>1. most + n = most + owed + (may + 1) + r
    BY <1>1
  <2>2. (most + owed + (may + 1) + r) * u = most * u + owed * u + (may + 1) * u + r * u
    BY <1>1
  <2>3. r * u \in Nat /\ most * u \in Int /\ owed * u \in Int /\ (may + 1) * u \in Int
    BY <1>1
  <2> QED BY <2>1, <2>2, <2>3
<1>4. w + (may + 1) * u <= (most + n) * u
  BY <1>2, <1>3
<1> QED BY <1>2, <1>4 DEF Room, u, n

\* The list is granted: one announce fewer may get one, and one more owes it.
LEMMA RoomWhenGranted ==
    ASSUME NEW w \in Nat, NEW a \in Nat, NEW may \in Nat, NEW owed \in Nat, NEW most \in Nat,
           Room(w, a, may + 1, owed, most), Unit \in Nat, Cardinality(Handler) \in Nat
    PROVE  Room(w + Unit, a, may, owed + 1, most)
<1>1. (may + 1) * Unit = may * Unit + Unit /\ (owed + 1) * Unit = owed * Unit + Unit
  OBVIOUS
<1>2. may * Unit \in Int /\ owed * Unit \in Int /\ (most + Cardinality(Handler)) * Unit \in Int
  OBVIOUS
<1> QED BY <1>1, <1>2 DEF Room

\* Fewer announces may get a list, or more owe it: there is as much room.
LEMMA RoomForFewer ==
    ASSUME NEW w \in Nat, NEW a \in Nat, NEW may \in Nat, NEW owed \in Nat, NEW most \in Nat,
           NEW fewer \in Nat, NEW more \in Nat, fewer <= may, more >= owed,
           Room(w, a, may, owed, most), Unit \in Nat, Cardinality(Handler) \in Nat
    PROVE  Room(w, a, fewer, more, most)
<1>1. fewer * Unit <= may * Unit /\ owed * Unit <= more * Unit
  <2>1. (may - fewer) * Unit >= 0 /\ (more - owed) * Unit >= 0
    <3>1. may - fewer \in Nat /\ more - owed \in Nat
      OBVIOUS
    <3> QED BY <3>1
  <2> QED BY <2>1
<1>2. /\ fewer * Unit \in Int /\ may * Unit \in Int /\ owed * Unit \in Int /\ more * Unit \in Int
      /\ (most + Cardinality(Handler)) * Unit \in Int
  OBVIOUS
<1> QED BY <1>1, <1>2 DEF Room

\* The request is counted.
LEMMA RoomWhenCounted ==
    ASSUME NEW w \in Nat, NEW a \in Nat, NEW may \in Nat, NEW owed \in Nat, NEW most \in Nat,
           Room(w, a, may, owed + 1, most), Unit \in Nat
    PROVE  Room(w, a + Unit, may, owed, most)
<1>1. (owed + 1) * Unit = owed * Unit + Unit /\ owed * Unit \in Int
  OBVIOUS
<1> QED BY <1>1 DEF Room

\* Time passes, and both weights decay by one factor.
LEMMA RoomInTime ==
    ASSUME NEW w \in Nat, NEW a \in Nat, NEW may \in Nat, NEW owed \in Nat, NEW most \in Nat,
           NEW p \in Nat \ {0}, Room(w * p, a * p, may, owed, most), Unit \in Nat,
           Cardinality(Handler) \in Nat
    PROVE  Room(w, a, may, owed, most)
<1> DEFINE o == owed * Unit
           m == may * Unit
           top == (most + Cardinality(Handler)) * Unit
<1>1. o \in Nat /\ m \in Nat /\ top \in Nat
  OBVIOUS
<1>2. w * p <= a * p + o /\ w * p + m <= top
  BY DEF Room
<1> HIDE DEF o, m, top
<1>3. w * p >= w
  <2>1. w * (p - 1) >= 0 /\ w * (p - 1) = w * p - w
    <3>1. p - 1 \in Nat
      OBVIOUS
    <3> QED BY <3>1
  <2> QED BY <2>1
<1>4. w <= a + o
  <2>1. CASE w <= a
    BY <1>1, <2>1
  <2>2. CASE w > a
    <3> DEFINE d == w - a
    <3>1. d \in Nat /\ (p - 1) \in Nat /\ d * (p - 1) >= 0
      BY <2>2
    <3>2. d * (p - 1) = w * p - a * p - d
      OBVIOUS
    <3>3. w * p \in Int /\ a * p \in Int
      OBVIOUS
    <3> QED BY <1>1, <1>2, <3>1, <3>2, <3>3
  <2> QED BY <2>1, <2>2
<1>5. w + m <= top
  BY <1>1, <1>2, <1>3
<1> QED BY <1>4, <1>5 DEF Room, o, m, top

\* One announce moves on: what that makes of a set of announces.
LEMMA OneComesOrGoes ==
    ASSUME NEW S \in SUBSET Handler, NEW T \in SUBSET Handler, NEW h \in Handler,
           \A g \in Handler \ {h} : g \in T <=> g \in S
    PROVE  /\ Cardinality(S) \in Nat /\ Cardinality(T) \in Nat
           /\ (h \in T <=> h \in S) => Cardinality(T) = Cardinality(S)
           /\ h \in T /\ h \notin S => Cardinality(T) = Cardinality(S) + 1
           /\ h \notin T /\ h \in S => Cardinality(S) = Cardinality(T) + 1
<1>1. IsFiniteSet(Handler) /\ IsFiniteSet(S) /\ IsFiniteSet(T)
  BY SetAssumption, FS_Subset
<1>2. Cardinality(S) \in Nat /\ Cardinality(T) \in Nat
  BY <1>1, FS_CardinalityType
<1>3. (h \in T <=> h \in S) => T = S
  OBVIOUS
<1>4. h \in T /\ h \notin S => T = S \cup {h} /\ Cardinality(T) = Cardinality(S) + 1
  BY <1>1, FS_AddElement
<1>5. h \notin T /\ h \in S => S = T \cup {h} /\ Cardinality(S) = Cardinality(T) + 1
  BY <1>1, FS_AddElement
<1> QED BY <1>2, <1>3, <1>4, <1>5

\* No announce both may get a list and owes it.
LEMMA AnnouncesInFlight ==
    ASSUME NEW k \in Kind, NEW h \in Handler, announce[h] = Idle
    PROVE  /\ Cardinality(May(k)) \in Nat /\ Cardinality(Uncounted(k)) \in Nat
           /\ Cardinality(Handler) \in Nat
           /\ Cardinality(May(k)) + Cardinality(Uncounted(k)) + 1 <= Cardinality(Handler)
<1> DEFINE M == May(k)
           U == Uncounted(k)
<1>1. M \in SUBSET Handler /\ U \in SUBSET Handler /\ M \cap U = {} /\ h \notin M \cup U
  BY DEF May, Uncounted, MayGet, Owes, Idle
<1> HIDE DEF M, U
<1>2. IsFiniteSet(Handler) /\ IsFiniteSet(M) /\ IsFiniteSet(U) /\ IsFiniteSet(M \cup U)
  BY <1>1, SetAssumption, FS_Subset, FS_Union
<1>3. Cardinality(M \cup U) = Cardinality(M) + Cardinality(U)
  <2>1. Cardinality(M \cup U) = Cardinality(M) + Cardinality(U) - Cardinality(M \cap U)
    BY <1>2, FS_Union
  <2>2. Cardinality(M \cap U) = 0
    BY <1>1, FS_EmptySet
  <2> QED BY <1>2, <2>1, <2>2, FS_CardinalityType
<1>4. Cardinality((M \cup U) \cup {h}) = Cardinality(M \cup U) + 1
  BY <1>1, <1>2, FS_AddElement
<1>5. Cardinality((M \cup U) \cup {h}) <= Cardinality(Handler)
  <2>1. (M \cup U) \cup {h} \subseteq Handler
    BY <1>1
  <2> QED BY <1>2, <2>1, FS_Subset
<1>6. Cardinality(M) \in Nat /\ Cardinality(U) \in Nat /\ Cardinality(Handler) \in Nat
  BY <1>2, FS_CardinalityType
<1> QED BY <1>3, <1>4, <1>5, <1>6 DEF M, U

\* The types of what the two weights are made of.
LEMMA GrantTypes ==
    ASSUME CountTypes, time \in Time, NEW k \in Kind, NEW l \in Limits[k]
    PROVE  /\ l \in LimitType /\ l.most \in Nat /\ Unit \in Nat /\ Cardinality(Handler) \in Nat
           /\ asked[k] \in [Time -> Nat] /\ granted[k] \in [Time -> Nat]
           /\ Weight(asked[k], l, time) \in Nat /\ Weight(granted[k], l, time) \in Nat
<1>1. l \in LimitType /\ asked[k] \in [Time -> Nat] /\ granted[k] \in [Time -> Nat]
  BY LimitsType DEF CountTypes
<1>2. Unit \in Nat
  <2>1. MaxTime * MostHalvings \in Nat
    BY NumberAssumption
  <2> QED BY <2>1, PowerType DEF Unit
<1>3. Cardinality(Handler) \in Nat
  BY SetAssumption, FS_CardinalityType
<1> QED BY <1>1, <1>2, <1>3, WeightType DEF LimitType

\* One announce moves on.
LEMMA AnnounceMoves ==
    ASSUME NEW k \in Kind, NEW h \in Handler, NEW a, announce \in [Handler -> Requests],
           announce' = [announce EXCEPT ![h] = a]
    PROVE  /\ Cardinality(May(k)) \in Nat /\ Cardinality(May(k)') \in Nat
           /\ (MayGet(a, k) <=> MayGet(announce[h], k)) =>
                  Cardinality(May(k)') = Cardinality(May(k))
           /\ MayGet(a, k) /\ ~MayGet(announce[h], k) =>
                  Cardinality(May(k)') = Cardinality(May(k)) + 1
           /\ ~MayGet(a, k) /\ MayGet(announce[h], k) =>
                  Cardinality(May(k)) = Cardinality(May(k)') + 1
           /\ Cardinality(Uncounted(k)) \in Nat /\ Cardinality(Uncounted(k)') \in Nat
           /\ (Owes(a, k) <=> Owes(announce[h], k)) =>
                  Cardinality(Uncounted(k)') = Cardinality(Uncounted(k))
           /\ Owes(a, k) /\ ~Owes(announce[h], k) =>
                  Cardinality(Uncounted(k)') = Cardinality(Uncounted(k)) + 1
           /\ ~Owes(a, k) /\ Owes(announce[h], k) =>
                  Cardinality(Uncounted(k)) = Cardinality(Uncounted(k)') + 1
<1>1. announce'[h] = a /\ \A g \in Handler \ {h} : announce'[g] = announce[g]
  OBVIOUS
<1> DEFINE M == May(k)
           N == {g \in Handler : MayGet(announce'[g], k)}
           U == Uncounted(k)
           V == {g \in Handler : Owes(announce'[g], k)}
<1>2. May(k)' = N /\ Uncounted(k)' = V
  BY DEF May, Uncounted, MayGet, Owes
<1>3. /\ M \in SUBSET Handler /\ N \in SUBSET Handler
      /\ \A g \in Handler \ {h} : g \in N <=> g \in M
      /\ (h \in N <=> MayGet(a, k)) /\ (h \in M <=> MayGet(announce[h], k))
  BY <1>1 DEF May
<1>4. /\ U \in SUBSET Handler /\ V \in SUBSET Handler
      /\ \A g \in Handler \ {h} : g \in V <=> g \in U
      /\ (h \in V <=> Owes(a, k)) /\ (h \in U <=> Owes(announce[h], k))
  BY <1>1 DEF Uncounted
<1> HIDE DEF M, N, U, V
<1>5. /\ Cardinality(M) \in Nat /\ Cardinality(N) \in Nat
      /\ (h \in N <=> h \in M) => Cardinality(N) = Cardinality(M)
      /\ h \in N /\ h \notin M => Cardinality(N) = Cardinality(M) + 1
      /\ h \notin N /\ h \in M => Cardinality(M) = Cardinality(N) + 1
  BY <1>3, OneComesOrGoes
<1>6. /\ Cardinality(U) \in Nat /\ Cardinality(V) \in Nat
      /\ (h \in V <=> h \in U) => Cardinality(V) = Cardinality(U)
      /\ h \in V /\ h \notin U => Cardinality(V) = Cardinality(U) + 1
      /\ h \notin V /\ h \in U => Cardinality(U) = Cardinality(V) + 1
  BY <1>4, OneComesOrGoes
<1>7. May(k) = M /\ Uncounted(k) = U
  BY DEF M, U
<1> HIDE DEF MayGet, Owes
<1> QED BY <1>2, <1>3, <1>4, <1>5, <1>6, <1>7

\* What is to be shown of a step, list by list.
LEMMA GrantStep ==
    ASSUME \A k \in Kind :
        /\ \A t \in Time : t > time' => granted'[k][t] = 0
        /\ \A l \in Limits[k] :
              Room(Weight(granted'[k], l, time'), Weight(asked'[k], l, time'),
                   Cardinality(May(k)'), Cardinality(Uncounted(k)'), l.most)
    PROVE  GrantInv'
BY DEF GrantInv

\* Before it is answered, an announce only learns more about its client.
LEMMA CheckKeepsGrants ==
    ASSUME CheckTypes, GrantInv, NEW h \in Handler, NEW a,
           announce' = [announce EXCEPT ![h] = a],
           announce[h].pc \in {"checking", "probing"}, a.pc \in {"probing", "locking"},
           a.under = announce[h].under, UNCHANGED <<time, asked, granted>>
    PROVE  GrantInv'
<1>1. ASSUME NEW k \in Kind
      PROVE  /\ Cardinality(May(k)') = Cardinality(May(k))
             /\ Cardinality(Uncounted(k)') = Cardinality(Uncounted(k))
  <2>1. MayGet(a, k) <=> MayGet(announce[h], k)
    BY DEF MayGet
  <2>2. ~Owes(a, k) /\ ~Owes(announce[h], k)
    BY DEF Owes
  <2>3. announce \in [Handler -> Requests]
    BY DEF CheckTypes
  <2> QED BY <2>1, <2>2, <2>3, AnnounceMoves
<1> QED BY <1>1, GrantStep DEF GrantInv

\* An announce comes in: if it is under the limits, so is all that was asked for.
LEMMA ReceiveKeepsGrants ==
    ASSUME CheckTypes, CountTypes, RequestsInv, GrantInv, NEW h \in Handler, Receive(h)
    PROVE  GrantInv'
<1> DEFINE a == [pc |-> "checking", under |-> [k \in Kind |-> UnderLimits(k)]]
<1>1. /\ announce[h] = Idle /\ announce' = [announce EXCEPT ![h] = a]
      /\ UNCHANGED <<time, asked, granted>> /\ time \in Time
      /\ announce \in [Handler -> Requests]
  BY DEF Receive, CheckTypes
<1>2. ASSUME NEW k \in Kind, NEW l \in Limits[k]
      PROVE  Room(Weight(granted[k], l, time), Weight(asked[k], l, time),
                  Cardinality(May(k)'), Cardinality(Uncounted(k)'), l.most)
  <2>1. Room(Weight(granted[k], l, time), Weight(asked[k], l, time),
             Cardinality(May(k)), Cardinality(Uncounted(k)), l.most)
    BY DEF GrantInv
  <2>2. ~MayGet(announce[h], k) /\ ~Owes(announce[h], k) /\ ~Owes(a, k)
    BY <1>1 DEF MayGet, Owes, Idle
  <2>3. MayGet(a, k) <=> UnderLimits(k)
    BY DEF MayGet
  <2> HIDE DEF a
  <2>4. Cardinality(Uncounted(k)') = Cardinality(Uncounted(k))
    BY <1>1, <2>2, AnnounceMoves
  <2>5. CASE ~UnderLimits(k)
    <3>1. Cardinality(May(k)') = Cardinality(May(k))
      BY <1>1, <2>2, <2>3, <2>5, AnnounceMoves
    <3> QED BY <2>1, <2>4, <3>1
  <2>6. CASE UnderLimits(k)
    <3>1. Cardinality(May(k)') = Cardinality(May(k)) + 1
      BY <1>1, <2>2, <2>3, <2>6, AnnounceMoves
    <3>2. Weight(asked[k], l, time) <= l.most * Unit
      <4>1. rates[k][l].count <= l.most * Unit /\ Weight(asked[k], l, time) <= rates[k][l].count
        BY <1>1, <2>6, TickCounts DEF UnderLimits
      <4>2. rates[k][l].count \in Nat /\ l.most * Unit \in Nat /\ Weight(asked[k], l, time) \in Nat
        BY <1>1, GrantTypes DEF CountTypes
      <4> QED BY <4>1, <4>2
    <3>3. /\ Cardinality(May(k)) \in Nat /\ Cardinality(Uncounted(k)) \in Nat
          /\ Cardinality(May(k)) + Cardinality(Uncounted(k)) + 1 <= Cardinality(Handler)
      BY <1>1, AnnouncesInFlight
    <3>4. /\ Weight(granted[k], l, time) \in Nat /\ Weight(asked[k], l, time) \in Nat
          /\ l.most \in Nat /\ Unit \in Nat /\ Cardinality(Handler) \in Nat
      BY <1>1, GrantTypes
    <3> DEFINE w == Weight(granted[k], l, time)
               b == Weight(asked[k], l, time)
               m == Cardinality(May(k))
               c == Cardinality(Uncounted(k))
    <3>5. Room(w, b, m, c, l.most) /\ w \in Nat /\ b \in Nat /\ m \in Nat /\ c \in Nat
      BY <2>1, <3>3, <3>4
    <3>6. b <= l.most * Unit /\ m + c + 1 <= Cardinality(Handler)
      BY <3>2, <3>3
    <3> HIDE DEF w, b, m, c
    <3>7. Room(w, b, m + 1, c, l.most)
      BY <3>4, <3>5, <3>6, RoomForOneMore
    <3> QED BY <2>4, <3>1, <3>7 DEF w, b, m, c
  <2> QED BY <2>5, <2>6
<1>3. \A k \in Kind : \A t \in Time : t > time => granted[k][t] = 0
  BY DEF GrantInv
<1> QED BY <1>1, <1>2, <1>3, GrantStep

\* The announce is answered: of a list that it asked for and gets, the one grant
\* uses the room that it had.
LEMMA AnswerKeepsGrants ==
    ASSUME CheckTypes, CountTypes, GrantInv, NEW h \in Handler, Answer(h)
    PROVE  GrantInv'
<1>1. PICK asks :
        /\ announce' = [announce EXCEPT ![h] = [pc |-> "counting", asks |-> asks]]
        /\ granted' = [k \in Kind |-> IF asks[k] /\ announce[h].under[k]
                                      THEN Again(granted[k]) ELSE granted[k]]
  BY DEF Answer
<1> DEFINE a == [pc |-> "counting", asks |-> asks]
<1>2. /\ announce[h].pc = "locking" /\ announce' = [announce EXCEPT ![h] = a]
      /\ UNCHANGED <<time, asked>> /\ time \in Time /\ announce \in [Handler -> Requests]
  BY <1>1 DEF Answer, CheckTypes
<1>3. ASSUME NEW k \in Kind
      PROVE  /\ ~MayGet(a, k) /\ (Owes(a, k) <=> asks[k]) /\ ~Owes(announce[h], k)
             /\ (MayGet(announce[h], k) <=> announce[h].under[k])
  BY <1>2 DEF MayGet, Owes
<1> HIDE DEF a
<1>4. ASSUME NEW k \in Kind, NEW l \in Limits[k]
      PROVE  Room(Weight(granted'[k], l, time), Weight(asked[k], l, time),
                  Cardinality(May(k)'), Cardinality(Uncounted(k)'), l.most)
  <2>1. Room(Weight(granted[k], l, time), Weight(asked[k], l, time),
             Cardinality(May(k)), Cardinality(Uncounted(k)), l.most)
    BY DEF GrantInv
  <2>2. /\ Cardinality(May(k)) \in Nat /\ Cardinality(May(k)') \in Nat
        /\ Cardinality(Uncounted(k)) \in Nat /\ Cardinality(Uncounted(k)') \in Nat
    BY <1>2, AnnounceMoves
  <2>3. CASE asks[k] /\ announce[h].under[k]
    <3>1. /\ Cardinality(May(k)) = Cardinality(May(k)') + 1
          /\ Cardinality(Uncounted(k)') = Cardinality(Uncounted(k)) + 1
      BY <1>2, <1>3, <2>3, AnnounceMoves
    <3>2. Weight(granted'[k], l, time) = Weight(granted[k], l, time) + Unit
      <4>1. granted'[k] = Again(granted[k])
        BY <1>1, <2>3
      <4> QED BY <1>2, <4>1, GrantTypes, WeightOfAgain
    <3>3. /\ Weight(granted[k], l, time) \in Nat /\ Weight(asked[k], l, time) \in Nat
          /\ l.most \in Nat /\ Unit \in Nat /\ Cardinality(Handler) \in Nat
      BY <1>2, GrantTypes
    <3> DEFINE w == Weight(granted[k], l, time)
               b == Weight(asked[k], l, time)
               m == Cardinality(May(k)')
               c == Cardinality(Uncounted(k))
    <3>4. Room(w, b, m + 1, c, l.most) /\ w \in Nat /\ b \in Nat /\ m \in Nat /\ c \in Nat
      BY <2>1, <2>2, <3>1, <3>3
    <3> HIDE DEF w, b, m, c
    <3>5. Room(w + Unit, b, m, c + 1, l.most)
      BY <3>3, <3>4, RoomWhenGranted
    <3> QED BY <3>1, <3>2, <3>5 DEF w, b, m, c
  <2>4. CASE ~(asks[k] /\ announce[h].under[k])
    <3>1. granted'[k] = granted[k]
      BY <1>1, <2>4
    <3>2. /\ Cardinality(May(k)') <= Cardinality(May(k))
          /\ Cardinality(Uncounted(k)') >= Cardinality(Uncounted(k))
      <4>1. CASE announce[h].under[k]
        <5>1. /\ Cardinality(May(k)) = Cardinality(May(k)') + 1
              /\ Cardinality(Uncounted(k)') = Cardinality(Uncounted(k))
          BY <1>2, <1>3, <2>4, <4>1, AnnounceMoves
        <5> QED BY <2>2, <5>1
      <4>2. CASE ~announce[h].under[k]
        <5>1. Cardinality(May(k)') = Cardinality(May(k))
          BY <1>2, <1>3, <4>2, AnnounceMoves
        <5>2. \/ Cardinality(Uncounted(k)') = Cardinality(Uncounted(k))
              \/ Cardinality(Uncounted(k)') = Cardinality(Uncounted(k)) + 1
          BY <1>2, <1>3, AnnounceMoves
        <5> QED BY <2>2, <5>1, <5>2
      <4> QED BY <4>1, <4>2
    <3> QED BY <1>2, <2>1, <2>2, <3>1, <3>2, GrantTypes, RoomForFewer
  <2> QED BY <2>3, <2>4
<1>5. ASSUME NEW k \in Kind, NEW t \in Time, t > time
      PROVE  granted'[k][t] = 0
  <2>1. granted[k][t] = 0 /\ granted[k] \in [Time -> Nat]
    BY <1>5 DEF GrantInv, CountTypes
  <2>2. t # time
    BY <1>2, <1>5, TimeType
  <2>3. Again(granted[k])[t] = granted[k][t]
    BY <2>1, <2>2 DEF Again
  <2> QED BY <1>1, <2>1, <2>3
<1> QED BY <1>2, <1>4, <1>5, GrantStep

\* What was asked for is counted.
LEMMA CountKeepsGrants ==
    ASSUME CheckTypes, CountTypes, GrantInv, NEW h \in Handler, Count(h)
    PROVE  GrantInv'
<1>1. /\ announce[h].pc = "counting" /\ announce' = [announce EXCEPT ![h] = Idle]
      /\ asked' = [k \in Kind |-> IF announce[h].asks[k] THEN Again(asked[k]) ELSE asked[k]]
      /\ UNCHANGED <<time, granted>> /\ time \in Time /\ announce \in [Handler -> Requests]
  BY DEF Count, CheckTypes
<1>2. ASSUME NEW k \in Kind, NEW l \in Limits[k]
      PROVE  Room(Weight(granted[k], l, time), Weight(asked'[k], l, time),
                  Cardinality(May(k)'), Cardinality(Uncounted(k)'), l.most)
  <2>1. Room(Weight(granted[k], l, time), Weight(asked[k], l, time),
             Cardinality(May(k)), Cardinality(Uncounted(k)), l.most)
    BY DEF GrantInv
  <2>2. /\ ~MayGet(Idle, k) /\ ~MayGet(announce[h], k) /\ ~Owes(Idle, k)
        /\ (Owes(announce[h], k) <=> announce[h].asks[k])
    BY <1>1 DEF MayGet, Owes, Idle
  <2>3. /\ Cardinality(May(k)) \in Nat /\ Cardinality(May(k)') = Cardinality(May(k))
        /\ Cardinality(Uncounted(k)) \in Nat /\ Cardinality(Uncounted(k)') \in Nat
    BY <1>1, <2>2, AnnounceMoves
  <2>4. CASE announce[h].asks[k]
    <3>1. Cardinality(Uncounted(k)) = Cardinality(Uncounted(k)') + 1
      BY <1>1, <2>2, <2>4, AnnounceMoves
    <3>2. Weight(asked'[k], l, time) = Weight(asked[k], l, time) + Unit
      <4>1. asked'[k] = Again(asked[k])
        BY <1>1, <2>4
      <4> QED BY <1>1, <4>1, GrantTypes, WeightOfAgain
    <3>3. /\ Weight(granted[k], l, time) \in Nat /\ Weight(asked[k], l, time) \in Nat
          /\ l.most \in Nat /\ Unit \in Nat /\ Cardinality(Handler) \in Nat
      BY <1>1, GrantTypes
    <3> DEFINE w == Weight(granted[k], l, time)
               b == Weight(asked[k], l, time)
               m == Cardinality(May(k))
               c == Cardinality(Uncounted(k)')
    <3>4. Room(w, b, m, c + 1, l.most) /\ w \in Nat /\ b \in Nat /\ m \in Nat /\ c \in Nat
      BY <2>1, <2>3, <3>1, <3>3
    <3> HIDE DEF w, b, m, c
    <3>5. Room(w, b + Unit, m, c, l.most)
      BY <3>3, <3>4, RoomWhenCounted
    <3> QED BY <2>3, <3>2, <3>5 DEF w, b, m, c
  <2>5. CASE ~announce[h].asks[k]
    <3>1. Cardinality(Uncounted(k)') = Cardinality(Uncounted(k))
      BY <1>1, <2>2, <2>5, AnnounceMoves
    <3>2. asked'[k] = asked[k]
      BY <1>1, <2>5
    <3> QED BY <2>1, <2>3, <3>1, <3>2
  <2> QED BY <2>4, <2>5
<1>3. \A k \in Kind : \A t \in Time : t > time => granted[k][t] = 0
  BY DEF GrantInv
<1> QED BY <1>1, <1>2, <1>3, GrantStep

\* Time passes: nothing was granted or asked for at the new time yet, so that both
\* weights only decay.
LEMMA TimeKeepsGrants ==
    ASSUME CheckTypes, CountTypes, RequestsInv, GrantInv, TimePasses
    PROVE  GrantInv'
<1>1. /\ time \in Time /\ time \in Nat /\ time' = time + 1 /\ time' \in Time /\ time < time'
      /\ UNCHANGED <<announce, asked, granted>>
  BY NumberAssumption, TimeType DEF CheckTypes, TimePasses, Time
<1>2. ASSUME NEW k \in Kind, NEW l \in Limits[k]
      PROVE  Room(Weight(granted[k], l, time'), Weight(asked[k], l, time'),
                  Cardinality(May(k)), Cardinality(Uncounted(k)), l.most)
  <2> DEFINE n == (time' - time) * l.halvings
             p == PowerOf2[n]
             w == Weight(granted[k], l, time')
             b == Weight(asked[k], l, time')
  <2>1. Room(Weight(granted[k], l, time), Weight(asked[k], l, time),
             Cardinality(May(k)), Cardinality(Uncounted(k)), l.most)
    BY DEF GrantInv
  <2>2. /\ l \in LimitType /\ l.most \in Nat /\ Unit \in Nat /\ Cardinality(Handler) \in Nat
        /\ asked[k] \in [Time -> Nat] /\ granted[k] \in [Time -> Nat]
    BY <1>1, GrantTypes
  <2>3. \A t \in Time : t > time => granted[k][t] = 0
    BY DEF GrantInv
  <2>4. \A t \in Time : t > time => asked[k][t] = 0
    <3>1. rates[k][l].updated_at \in Nat /\ rates[k][l].updated_at <= time
      BY TimeType DEF CountTypes, RequestsInv
    <3>2. ASSUME NEW t \in Time, t > time PROVE t > rates[k][l].updated_at
      <4>1. t \in Nat
        BY TimeType
      <4> QED BY <1>1, <3>1, <3>2, <4>1
    <3> QED BY <3>2 DEF RequestsInv
  <2>5. time <= time'
    BY <1>1
  <2>6. n \in Nat /\ w * p = Weight(granted[k], l, time)
    BY <1>1, <2>2, <2>3, <2>5, WeightDecays
  <2>7. b * p = Weight(asked[k], l, time)
    BY <1>1, <2>2, <2>4, <2>5, WeightDecays
  <2>8. w \in Nat /\ b \in Nat
    BY <1>1, <2>2, WeightType
  <2>9. p \in Nat \ {0}
    BY <2>6, PowerType
  <2>10. Cardinality(May(k)) \in Nat /\ Cardinality(Uncounted(k)) \in Nat
    <3>1. IsFiniteSet(May(k)) /\ IsFiniteSet(Uncounted(k))
      BY SetAssumption, FS_Subset DEF May, Uncounted
    <3> QED BY <3>1, FS_CardinalityType
  <2> HIDE DEF n, p, w, b
  <2>11. Room(w * p, b * p, Cardinality(May(k)), Cardinality(Uncounted(k)), l.most)
    BY <2>1, <2>6, <2>7
  <2>12. Room(w, b, Cardinality(May(k)), Cardinality(Uncounted(k)), l.most)
    BY <2>2, <2>8, <2>9, <2>10, <2>11, RoomInTime
  <2> QED BY <2>12 DEF w, b
<1>3. ASSUME NEW k \in Kind
      PROVE  May(k)' = May(k) /\ Uncounted(k)' = Uncounted(k)
  BY <1>1 DEF May, Uncounted
<1>4. ASSUME NEW k \in Kind, NEW t \in Time, t > time'
      PROVE  granted[k][t] = 0
  <2>1. t > time
    BY <1>1, <1>4, TimeType
  <2> QED BY <2>1 DEF GrantInv
<1> QED BY <1>1, <1>2, <1>3, <1>4, GrantStep

\* Initially nothing is granted.
LEMMA GrantInit == Init => GrantInv
<1> SUFFICES ASSUME Init PROVE GrantInv
  OBVIOUS
<1>1. /\ time = 0 /\ 0 \in Time /\ CountTypes
      /\ \A k \in Kind : asked[k] = [t \in Time |-> 0] /\ granted[k] = [t \in Time |-> 0]
  BY TimeType, RequestsInit DEF Init
<1>2. ASSUME NEW k \in Kind, NEW l \in Limits[k]
      PROVE  Room(Weight(granted[k], l, time), Weight(asked[k], l, time),
                  Cardinality(May(k)), Cardinality(Uncounted(k)), l.most)
  <2>1. Weight(granted[k], l, time) = 0 /\ Weight(asked[k], l, time) = 0
    BY <1>1, LimitsType, WeightOfNone
  <2>2. May(k) = {} /\ Uncounted(k) = {}
    BY DEF Init, May, Uncounted, MayGet, Owes, Idle
  <2>3. Cardinality(May(k)) = 0 /\ Cardinality(Uncounted(k)) = 0
    BY <2>2, FS_EmptySet
  <2>4. l.most \in Nat /\ Unit \in Nat /\ Cardinality(Handler) \in Nat
    BY <1>1, GrantTypes
  <2>5. (l.most + Cardinality(Handler)) * Unit >= 0 /\ 0 * Unit = 0
    BY <2>4
  <2> QED BY <2>1, <2>3, <2>5 DEF Room
<1>3. \A k \in Kind : \A t \in Time : t > time => granted[k][t] = 0
  BY <1>1
<1> QED BY <1>2, <1>3 DEF GrantInv

\* Every step keeps the grants near the limit.
LEMMA GrantsStep ==
    ASSUME CheckTypes, CountTypes, RequestsInv, GrantInv, [Next]_vars
    PROVE  GrantInv'
<1>1. ASSUME NEW h \in Handler, Receive(h) PROVE GrantInv'
  BY <1>1, ReceiveKeepsGrants
<1>2. ASSUME NEW h \in Handler, NoCheck(h) \/ CacheHit(h) \/ ProbeEnds(h) PROVE GrantInv'
  <2>1. PICK c \in BOOLEAN \cup {cache.connectable} : Checked(h, c)
    BY <1>2 DEF NoCheck, CacheHit, ProbeEnds
  <2> DEFINE a == [pc |-> "locking", under |-> announce[h].under, connectable |-> c]
  <2>2. /\ announce' = [announce EXCEPT ![h] = a]
        /\ announce[h].pc \in {"checking", "probing"} /\ UNCHANGED <<time, asked, granted>>
    BY <1>2, <2>1 DEF NoCheck, CacheHit, ProbeEnds, Checked, CheckTypes
  <2>3. a.pc = "locking" /\ a.under = announce[h].under
    OBVIOUS
  <2> HIDE DEF a
  <2> QED BY <2>2, <2>3, CheckKeepsGrants
<1>3. ASSUME NEW h \in Handler, ProbeBegins(h) PROVE GrantInv'
  <2> DEFINE a == [pc |-> "probing", under |-> announce[h].under, probe |-> Len(probes) + 1]
  <2>1. /\ announce' = [announce EXCEPT ![h] = a]
        /\ announce[h].pc = "checking" /\ UNCHANGED <<time, asked, granted>>
    BY <1>3 DEF ProbeBegins, CheckTypes
  <2>2. a.pc = "probing" /\ a.under = announce[h].under
    OBVIOUS
  <2> HIDE DEF a
  <2> QED BY <2>1, <2>2, CheckKeepsGrants
<1>4. ASSUME NEW h \in Handler, Answer(h) PROVE GrantInv'
  BY <1>4, AnswerKeepsGrants
<1>5. ASSUME NEW h \in Handler, Count(h) PROVE GrantInv'
  BY <1>5, CountKeepsGrants
<1>6. CASE TimePasses
  BY <1>6, TimeKeepsGrants
<1>7. CASE UNCHANGED vars
  BY <1>7 DEF vars, GrantInv, May, Uncounted
<1> QED BY <1>1, <1>2, <1>3, <1>4, <1>5, <1>6, <1>7 DEF Next, Announce

\* Whatever announces overlap, and however long their probes last, the lists that
\* were granted weigh no more than the limit and one list for each announce that
\* can be in flight (announce.rs, the lists; rate.rs).
THEOREM GrantsStayNearLimit == Spec => []GrantsNearLimit
<1>1. AnswersInv /\ GrantInv => GrantsNearLimit
  <2> SUFFICES ASSUME AnswersInv, GrantInv, NEW k \in Kind, NEW l \in Limits[k]
               PROVE  Weight(granted[k], l, time) <= (l.most + Cardinality(Handler)) * Unit
    BY DEF GrantsNearLimit
  <2> DEFINE w == Weight(granted[k], l, time)
             m == Cardinality(May(k)) * Unit
             top == (l.most + Cardinality(Handler)) * Unit
  <2>1. w + m <= top
    BY DEF GrantInv, Room
  <2>2. w \in Nat /\ l.most \in Nat /\ Unit \in Nat /\ Cardinality(Handler) \in Nat
    BY GrantTypes DEF AnswersInv, CheckInv, CheckTypes
  <2>3. Cardinality(May(k)) \in Nat
    BY SetAssumption, FS_Subset, FS_CardinalityType DEF May
  <2>4. m \in Nat /\ top \in Nat
    BY <2>2, <2>3
  <2> HIDE DEF w, m, top
  <2>5. w <= top
    BY <2>1, <2>2, <2>4
  <2> QED BY <2>5 DEF w, top
<1>2. Init => GrantInv
  BY GrantInit
<1>3. AnswersInv /\ GrantInv /\ [Next]_vars => GrantInv'
  BY GrantsStep DEF AnswersInv, CheckInv
<1> QED BY <1>1, <1>2, <1>3, AnswersInvariant, PTL DEF Spec
=============================================================================
