----------------------------- MODULE FiniteSums -----------------------------
(***************************************************************************)
(* Sums of integers over finite sets: what the provers need to know of     *)
(* SumFunctionOnSet to reason about ledgers and counters.  The induction   *)
(* is stated for sets, so that it can be cited like any other fact.        *)
(***************************************************************************)
EXTENDS Integers, FiniteSets, Functions, FiniteSetTheorems, TLAPS

(***************************************************************************)
(* Induction.                                                              *)
(***************************************************************************)

\* A set that holds 0 and every successor holds all natural numbers. If n were
\* missing, adding 1 would map what the set has up to n injectively into the
\* same without 0.
LEMMA NatSetInduction ==
    ASSUME NEW S, 0 \in S, \A n \in Nat : n \in S => n + 1 \in S
    PROVE  Nat \subseteq S
<1> SUFFICES ASSUME NEW n \in Nat, n \notin S PROVE FALSE
  OBVIOUS
<1> DEFINE T == {m \in 0..n : m \in S}
           next == [m \in T |-> m + 1]
<1>1. IsFiniteSet(T)
  <2>1. IsFiniteSet(0..n)
    BY FS_Interval
  <2>2. T \in SUBSET (0..n)
    OBVIOUS
  <2> HIDE DEF T
  <2> QED BY <2>1, <2>2, FS_Subset
<1>2. 0 \in T
  OBVIOUS
<1>3. next \in Injection(T, T \ {0})
  BY DEF Injection, IsInjective
<1>4. IsFiniteSet(T \ {0}) /\ Cardinality(T \ {0}) = Cardinality(T) - 1
  <2> HIDE DEF T
  <2> QED BY <1>1, <1>2, FS_RemoveElement
<1>5. Cardinality(T) <= Cardinality(T \ {0})
  <2> HIDE DEF T, next
  <2> QED BY <1>3, <1>4, FS_Injection
<1>6. Cardinality(T) \in Nat
  <2> HIDE DEF T
  <2> QED BY <1>1, FS_CardinalityType
<1> HIDE DEF T
<1> QED BY <1>4, <1>5, <1>6

\* A family of sets that holds the empty set, and with any set each of those
\* that have one element of S more, holds S if S is finite.
LEMMA SubsetInduction ==
    ASSUME NEW S, NEW F, IsFiniteSet(S), {} \in F,
           \A T \in SUBSET S : \A x \in S \ T : T \in F => T \cup {x} \in F
    PROVE  S \in F
<1> DEFINE N == {n \in Nat : \A T \in SUBSET S : Cardinality(T) = n => T \in F}
<1>1. 0 \in N
  <2> SUFFICES ASSUME NEW T \in SUBSET S, Cardinality(T) = 0 PROVE T \in F
    OBVIOUS
  <2>1. IsFiniteSet(T)
    BY FS_Subset
  <2> QED BY <2>1, FS_EmptySet
<1>2. ASSUME NEW n \in Nat, n \in N PROVE n + 1 \in N
  <2> SUFFICES ASSUME NEW T \in SUBSET S, Cardinality(T) = n + 1 PROVE T \in F
    OBVIOUS
  <2>1. IsFiniteSet(T)
    BY FS_Subset
  <2>2. T # {}
    BY <2>1, FS_EmptySet, n + 1 # 0
  <2>3. PICK x \in T : TRUE
    BY <2>2
  <2>4. IsFiniteSet(T \ {x}) /\ Cardinality(T \ {x}) = n
    <3>1. IsFiniteSet(T \ {x}) /\ Cardinality(T \ {x}) = Cardinality(T) - 1
      BY <2>1, FS_RemoveElement
    <3> QED BY <3>1
  <2>5. T \ {x} \in F
    BY <1>2, <2>4
  <2>6. (T \ {x}) \cup {x} \in F
    BY <2>5
  <2>7. (T \ {x}) \cup {x} = T
    OBVIOUS
  <2> QED BY <2>6, <2>7
<1>3. Nat \subseteq N
  <2> HIDE DEF N
  <2> QED BY <1>1, <1>2, NatSetInduction
<1>4. Cardinality(S) \in Nat
  BY FS_CardinalityType
<1> QED BY <1>3, <1>4

(***************************************************************************)
(* The recursion that defines a sum.                                       *)
(***************************************************************************)
Picked(T) == CHOOSE x \in T : TRUE

\* What one step of the recursion makes of the sums of smaller sets.
Unfolded(f, g, T) == IF T = {} THEN 0 ELSE f[Picked(T)] + g[T \ {Picked(T)}]

\* g gives the sum of f over every set of the family F.
Sums(f, g, F) == g = [T \in F |-> Unfolded(f, g, T)]

\* The recursion has a solution.
LEMMA SumsExist ==
    ASSUME NEW S, NEW f, IsFiniteSet(S)
    PROVE  \E g : Sums(f, g, SUBSET S)
<1> DEFINE Small(n) == {T \in SUBSET S : Cardinality(T) <= n}
           N == {n \in Nat : \E g : Sums(f, g, Small(n))}
<1>0. \A T \in SUBSET S : IsFiniteSet(T) /\ Cardinality(T) \in Nat
  BY FS_Subset, FS_CardinalityType
<1>1. 0 \in N
  <2> DEFINE g == [T \in Small(0) |-> 0]
  <2>1. \A T \in Small(0) : T = {}
    BY <1>0, FS_EmptySet
  <2>2. Sums(f, g, Small(0))
    BY <2>1 DEF Sums, Unfolded
  <2> HIDE DEF g, Small
  <2> QED BY <2>2
<1>2. ASSUME NEW n \in Nat, n \in N PROVE n + 1 \in N
  <2>1. PICK g : Sums(f, g, Small(n))
    BY <1>2
  <2> DEFINE h == [T \in Small(n + 1) |-> IF T \in Small(n) THEN g[T] ELSE Unfolded(f, g, T)]
  <2>2. ASSUME NEW T \in Small(n + 1), T # {}
        PROVE  T \ {Picked(T)} \in Small(n)
    <3>1. Picked(T) \in T
      BY <2>2 DEF Picked
    <3>2. Cardinality(T \ {Picked(T)}) = Cardinality(T) - 1
      BY <1>0, <3>1, FS_RemoveElement
    <3> QED BY <1>0, <3>2
  <2>3. \A T \in Small(n) : T \in Small(n + 1)
    BY <1>0
  <2>4. ASSUME NEW T \in Small(n + 1) PROVE h[T] = Unfolded(f, g, T)
    BY <2>1 DEF Sums
  <2>5. ASSUME NEW T \in Small(n) PROVE h[T] = g[T]
    BY <2>3
  <2>6. ASSUME NEW T \in Small(n + 1) PROVE Unfolded(f, h, T) = Unfolded(f, g, T)
    <3> HIDE DEF h, Small
    <3> QED BY <2>2, <2>5 DEF Unfolded
  <2>7. h = [T \in Small(n + 1) |-> h[T]]
    OBVIOUS
  <2>8. Sums(f, h, Small(n + 1))
    <3> HIDE DEF h, Small
    <3> QED BY <2>4, <2>6, <2>7 DEF Sums
  <2> HIDE DEF h, Small
  <2> QED BY <2>8
<1>3. Nat \subseteq N
  <2> HIDE DEF N
  <2> QED BY <1>1, <1>2, NatSetInduction
<1>4. Small(Cardinality(S)) = SUBSET S
  BY FS_Subset, <1>0
<1>5. Cardinality(S) \in N
  BY <1>0, <1>3
<1> QED BY <1>4, <1>5

\* And only one, whatever larger sets a solution is given for.
LEMMA SumsAgree ==
    ASSUME NEW S, NEW R, NEW f, NEW g, NEW h, IsFiniteSet(R), S \subseteq R,
           Sums(f, g, SUBSET R), Sums(f, h, SUBSET S)
    PROVE  g[S] = h[S]
<1> DEFINE N == {n \in Nat : \A T \in SUBSET S : Cardinality(T) = n => g[T] = h[T]}
<1>0. \A T \in SUBSET S : IsFiniteSet(T) /\ Cardinality(T) \in Nat
  BY FS_Subset, FS_CardinalityType
<1>1. 0 \in N
  <2> SUFFICES ASSUME NEW T \in SUBSET S, Cardinality(T) = 0 PROVE g[T] = h[T]
    OBVIOUS
  <2>1. T = {}
    BY <1>0, FS_EmptySet
  <2> QED BY <2>1 DEF Sums, Unfolded
<1>2. ASSUME NEW n \in Nat, n \in N PROVE n + 1 \in N
  <2> SUFFICES ASSUME NEW T \in SUBSET S, Cardinality(T) = n + 1 PROVE g[T] = h[T]
    OBVIOUS
  <2>1. T # {}
    BY <1>0, FS_EmptySet, n + 1 # 0
  <2>2. Picked(T) \in T
    BY <2>1 DEF Picked
  <2>3. Cardinality(T \ {Picked(T)}) = Cardinality(T) - 1
    BY <1>0, <2>2, FS_RemoveElement
  <2>4. g[T \ {Picked(T)}] = h[T \ {Picked(T)}]
    BY <1>2, <2>3
  <2>5. g[T] = Unfolded(f, g, T) /\ h[T] = Unfolded(f, h, T)
    BY DEF Sums
  <2> QED BY <2>4, <2>5 DEF Unfolded
<1>3. Nat \subseteq N
  <2> HIDE DEF N
  <2> QED BY <1>1, <1>2, NatSetInduction
<1> QED BY <1>0, <1>3

(***************************************************************************)
(* Sums.                                                                   *)
(***************************************************************************)

\* The sum is the recursion's solution, on every subset of a finite set.
LEMMA SumUnfolds ==
    ASSUME NEW S, NEW f, IsFiniteSet(S)
    PROVE  /\ SumFunctionOnSet(f, {}) = 0
           /\ S # {} => SumFunctionOnSet(f, S)
                           = f[Picked(S)] + SumFunctionOnSet(f, S \ {Picked(S)})
<1>1. ASSUME NEW T, IsFiniteSet(T)
      PROVE  \E g : Sums(f, g, SUBSET T) /\ SumFunctionOnSet(f, T) = g[T]
  <2> DEFINE Step(g) == [U \in SUBSET T |->
                            IF U = {} THEN 0
                            ELSE f[CHOOSE x \in U : TRUE] + g[U \ {CHOOSE x \in U : TRUE}]]
  <2>1. SumFunctionOnSet(f, T) = (CHOOSE g : g = Step(g))[T]
    BY DEF SumFunctionOnSet, FoldFunctionOnSet, MapThenFoldSet
  <2>2. \A g : Sums(f, g, SUBSET T) => g = Step(g)
    <3> SUFFICES ASSUME NEW g, Sums(f, g, SUBSET T) PROVE g = Step(g)
      OBVIOUS
    <3> QED BY DEF Sums, Unfolded, Picked
  <2>3. \A g : g = Step(g) => Sums(f, g, SUBSET T)
    <3> SUFFICES ASSUME NEW g, g = Step(g) PROVE Sums(f, g, SUBSET T)
      OBVIOUS
    <3> QED BY DEF Sums, Unfolded, Picked
  <2>4. \E g : g = Step(g)
    BY <1>1, <2>2, SumsExist
  <2> HIDE DEF Step
  <2>5. (CHOOSE g : g = Step(g)) = Step(CHOOSE g : g = Step(g))
    BY <2>4
  <2> QED BY <2>1, <2>3, <2>5
<1>2. SumFunctionOnSet(f, {}) = 0
  BY <1>1, FS_EmptySet DEF Sums, Unfolded
<1>3. ASSUME S # {}
      PROVE  SumFunctionOnSet(f, S) = f[Picked(S)] + SumFunctionOnSet(f, S \ {Picked(S)})
  <2>1. PICK g : Sums(f, g, SUBSET S) /\ SumFunctionOnSet(f, S) = g[S]
    BY <1>1
  <2> DEFINE T == S \ {Picked(S)}
  <2>2. IsFiniteSet(T) /\ T \subseteq S
    BY FS_Subset
  <2> HIDE DEF T
  <2>3. PICK h : Sums(f, h, SUBSET T) /\ SumFunctionOnSet(f, T) = h[T]
    BY <1>1, <2>2
  <2>4. g[T] = h[T]
    <3>1. Sums(f, g, SUBSET S) /\ Sums(f, h, SUBSET T) /\ T \subseteq S
      BY <2>1, <2>2, <2>3
    <3> QED BY <3>1, SumsAgree
  <2>5. g[S] = Unfolded(f, g, S)
    BY <2>1 DEF Sums
  <2> QED BY <1>3, <2>1, <2>3, <2>4, <2>5 DEF Unfolded, T
<1> QED BY <1>2, <1>3

\* There is nothing to add up in the empty set.
LEMMA SumOfNone ==
    ASSUME NEW f
    PROVE  SumFunctionOnSet(f, {}) = 0
BY SumUnfolds, FS_EmptySet

\* A sum of integers is an integer.
LEMMA SumType ==
    ASSUME NEW S, NEW f, IsFiniteSet(S), \A x \in S : f[x] \in Int
    PROVE  SumFunctionOnSet(f, S) \in Int
<1> DEFINE N == {n \in Nat : \A T \in SUBSET S : Cardinality(T) = n
                                => SumFunctionOnSet(f, T) \in Int}
<1>0. \A T \in SUBSET S : IsFiniteSet(T) /\ Cardinality(T) \in Nat
  BY FS_Subset, FS_CardinalityType
<1>1. 0 \in N
  <2> SUFFICES ASSUME NEW T \in SUBSET S, Cardinality(T) = 0 PROVE SumFunctionOnSet(f, T) \in Int
    OBVIOUS
  <2>1. T = {}
    BY <1>0, FS_EmptySet
  <2> QED BY <2>1, SumOfNone
<1>2. ASSUME NEW n \in Nat, n \in N PROVE n + 1 \in N
  <2> SUFFICES ASSUME NEW T \in SUBSET S, Cardinality(T) = n + 1
               PROVE  SumFunctionOnSet(f, T) \in Int
    OBVIOUS
  <2>1. T # {}
    BY <1>0, FS_EmptySet, n + 1 # 0
  <2>2. Picked(T) \in T
    BY <2>1 DEF Picked
  <2>3. Cardinality(T \ {Picked(T)}) = Cardinality(T) - 1
    BY <1>0, <2>2, FS_RemoveElement
  <2>4. SumFunctionOnSet(f, T \ {Picked(T)}) \in Int
    BY <1>2, <2>3
  <2>5. SumFunctionOnSet(f, T) = f[Picked(T)] + SumFunctionOnSet(f, T \ {Picked(T)})
    BY <1>0, <2>1, SumUnfolds
  <2> QED BY <2>2, <2>4, <2>5
<1>3. Nat \subseteq N
  <2> HIDE DEF N
  <2> QED BY <1>1, <1>2, NatSetInduction
<1> QED BY <1>0, <1>3

\* Any element may be taken out first.
LEMMA SumWithout ==
    ASSUME NEW S, NEW f, NEW x \in S, IsFiniteSet(S), \A y \in S : f[y] \in Int
    PROVE  SumFunctionOnSet(f, S) = f[x] + SumFunctionOnSet(f, S \ {x})
<1> DEFINE N == {n \in Nat : \A T \in SUBSET S : Cardinality(T) = n =>
                    \A y \in T : SumFunctionOnSet(f, T) = f[y] + SumFunctionOnSet(f, T \ {y})}
<1>0. \A T \in SUBSET S : IsFiniteSet(T) /\ Cardinality(T) \in Nat
                            /\ SumFunctionOnSet(f, T) \in Int
  BY FS_Subset, FS_CardinalityType, SumType
<1>1. 0 \in N
  BY <1>0, FS_EmptySet
<1>2. ASSUME NEW n \in Nat, n \in N PROVE n + 1 \in N
  <2> SUFFICES ASSUME NEW T \in SUBSET S, Cardinality(T) = n + 1, NEW y \in T
               PROVE  SumFunctionOnSet(f, T) = f[y] + SumFunctionOnSet(f, T \ {y})
    OBVIOUS
  <2> DEFINE p == Picked(T)
  <2>1. p \in T
    BY DEF Picked
  <2> HIDE DEF p
  <2>2. SumFunctionOnSet(f, T) = f[p] + SumFunctionOnSet(f, T \ {p})
    BY <1>0, SumUnfolds DEF p
  <2>3. CASE y = p
    BY <2>2, <2>3
  <2>4. CASE y # p
    <3>1. Cardinality(T \ {p}) = Cardinality(T) - 1 /\ Cardinality(T \ {y}) = Cardinality(T) - 1
      BY <1>0, <2>1, FS_RemoveElement
    <3>2. Cardinality(T \ {p}) = n /\ Cardinality(T \ {y}) = n
      BY <3>1
    <3>3. SumFunctionOnSet(f, T \ {p}) = f[y] + SumFunctionOnSet(f, (T \ {p}) \ {y})
      BY <1>2, <2>4, <3>2
    <3>4. SumFunctionOnSet(f, T \ {y}) = f[p] + SumFunctionOnSet(f, (T \ {y}) \ {p})
      BY <1>2, <2>1, <2>4, <3>2
    <3>5. (T \ {p}) \ {y} = (T \ {y}) \ {p}
      OBVIOUS
    <3>6. SumFunctionOnSet(f, (T \ {y}) \ {p}) \in Int /\ f[y] \in Int /\ f[p] \in Int
      BY <1>0, <2>1
    <3>7. SumFunctionOnSet(f, T) = f[p] + (f[y] + SumFunctionOnSet(f, (T \ {y}) \ {p}))
      BY <2>2, <3>3, <3>5
    <3> QED BY <3>4, <3>6, <3>7
  <2> QED BY <2>3, <2>4
<1>3. Nat \subseteq N
  <2> HIDE DEF N
  <2> QED BY <1>1, <1>2, NatSetInduction
<1> QED BY <1>0, <1>3

\* One more element adds its term.
LEMMA SumWith ==
    ASSUME NEW S, NEW f, NEW x, x \notin S, IsFiniteSet(S), \A y \in S \cup {x} : f[y] \in Int
    PROVE  SumFunctionOnSet(f, S \cup {x}) = f[x] + SumFunctionOnSet(f, S)
<1> DEFINE T == S \cup {x}
<1>1. IsFiniteSet(T) /\ x \in T /\ T \ {x} = S
  BY FS_AddElement
<1>2. \A y \in T : f[y] \in Int
  OBVIOUS
<1> HIDE DEF T
<1>3. SumFunctionOnSet(f, T) = f[x] + SumFunctionOnSet(f, T \ {x})
  BY <1>1, <1>2, SumWithout
<1> QED BY <1>1, <1>3 DEF T

\* A sum of terms that do not decrease does not decrease.
LEMMA SumMonotone ==
    ASSUME NEW S, NEW f, NEW g, IsFiniteSet(S),
           \A x \in S : f[x] \in Int /\ g[x] \in Int /\ f[x] <= g[x]
    PROVE  SumFunctionOnSet(f, S) <= SumFunctionOnSet(g, S)
<1> DEFINE F == {T \in SUBSET S : SumFunctionOnSet(f, T) <= SumFunctionOnSet(g, T)}
<1>0. \A T \in SUBSET S : IsFiniteSet(T)
  BY FS_Subset
<1>1. {} \in F
  BY SumOfNone
<1>2. ASSUME NEW T \in SUBSET S, NEW x \in S \ T, T \in F PROVE T \cup {x} \in F
  <2>1. SumFunctionOnSet(f, T \cup {x}) = f[x] + SumFunctionOnSet(f, T)
    BY <1>0, SumWith
  <2>2. SumFunctionOnSet(g, T \cup {x}) = g[x] + SumFunctionOnSet(g, T)
    BY <1>0, SumWith
  <2>3. SumFunctionOnSet(f, T) \in Int /\ SumFunctionOnSet(g, T) \in Int
    BY <1>0, SumType
  <2> QED BY <1>2, <2>1, <2>2, <2>3
<1>3. S \in F
  <2> HIDE DEF F
  <2> QED BY <1>1, <1>2, SubsetInduction
<1> QED BY <1>3

\* Functions that agree on S have the same sum over it.
LEMMA SumSame ==
    ASSUME NEW S, NEW f, NEW g, IsFiniteSet(S),
           \A x \in S : f[x] \in Int /\ g[x] = f[x]
    PROVE  SumFunctionOnSet(g, S) = SumFunctionOnSet(f, S)
<1>1. SumFunctionOnSet(f, S) <= SumFunctionOnSet(g, S)
  BY SumMonotone
<1>2. SumFunctionOnSet(g, S) <= SumFunctionOnSet(f, S)
  BY SumMonotone
<1>3. SumFunctionOnSet(f, S) \in Int /\ SumFunctionOnSet(g, S) \in Int
  BY SumType
<1> QED BY <1>1, <1>2, <1>3

\* A sum of zeros is zero.
LEMMA SumOfZeros ==
    ASSUME NEW S, NEW f, IsFiniteSet(S), \A x \in S : f[x] = 0
    PROVE  SumFunctionOnSet(f, S) = 0
<1> DEFINE F == {T \in SUBSET S : SumFunctionOnSet(f, T) = 0}
<1>0. (\A T \in SUBSET S : IsFiniteSet(T)) /\ \A x \in S : f[x] \in Int
  BY FS_Subset
<1>1. {} \in F
  BY SumOfNone
<1>2. ASSUME NEW T \in SUBSET S, NEW x \in S \ T, T \in F PROVE T \cup {x} \in F
  <2>1. SumFunctionOnSet(f, T \cup {x}) = f[x] + SumFunctionOnSet(f, T)
    BY <1>0, SumWith
  <2> QED BY <1>2, <2>1
<1>3. S \in F
  <2> HIDE DEF F
  <2> QED BY <1>1, <1>2, SubsetInduction
<1> QED BY <1>3

\* A factor of every term is one of the sum.
LEMMA SumScaled ==
    ASSUME NEW S, NEW f, NEW g, NEW c \in Int, IsFiniteSet(S),
           \A x \in S : f[x] \in Int /\ g[x] \in Int /\ g[x] * c = f[x]
    PROVE  SumFunctionOnSet(g, S) * c = SumFunctionOnSet(f, S)
<1> DEFINE F == {T \in SUBSET S : SumFunctionOnSet(g, T) * c = SumFunctionOnSet(f, T)}
<1>0. \A T \in SUBSET S : IsFiniteSet(T) /\ SumFunctionOnSet(g, T) \in Int
  BY FS_Subset, SumType
<1>1. {} \in F
  BY SumOfNone
<1>2. ASSUME NEW T \in SUBSET S, NEW x \in S \ T, T \in F PROVE T \cup {x} \in F
  <2>1. SumFunctionOnSet(f, T \cup {x}) = f[x] + SumFunctionOnSet(f, T)
    BY <1>0, SumWith
  <2>2. SumFunctionOnSet(g, T \cup {x}) = g[x] + SumFunctionOnSet(g, T)
    BY <1>0, SumWith
  <2>3. (g[x] + SumFunctionOnSet(g, T)) * c = g[x] * c + SumFunctionOnSet(g, T) * c
    <3>1. g[x] \in Int /\ SumFunctionOnSet(g, T) \in Int
      BY <1>0
    <3>2. \A a, b \in Int : (a + b) * c = a * c + b * c
      OBVIOUS
    <3> QED BY <3>1, <3>2
  <2> QED BY <1>2, <2>1, <2>2, <2>3
<1>3. S \in F
  <2> HIDE DEF F
  <2> QED BY <1>1, <1>2, SubsetInduction
<1> QED BY <1>3

\* Zeros add nothing to a sum.
LEMMA SumBeyond ==
    ASSUME NEW R, NEW S, NEW f, S \subseteq R, IsFiniteSet(R),
           \A x \in S : f[x] \in Int, \A x \in R \ S : f[x] = 0
    PROVE  SumFunctionOnSet(f, R) = SumFunctionOnSet(f, S)
<1> DEFINE F == {T \in SUBSET (R \ S) : SumFunctionOnSet(f, S \cup T) = SumFunctionOnSet(f, S)}
<1>0. IsFiniteSet(S) /\ IsFiniteSet(R \ S) /\ \A x \in R : f[x] \in Int
  BY FS_Subset
<1>1. {} \in F
  <2>1. S \cup {} = S
    OBVIOUS
  <2> QED BY <2>1
<1>2. ASSUME NEW T \in SUBSET (R \ S), NEW x \in (R \ S) \ T, T \in F PROVE T \cup {x} \in F
  <2>1. IsFiniteSet(S \cup T) /\ x \notin S \cup T /\ S \cup T \subseteq R
    BY FS_Subset
  <2>2. SumFunctionOnSet(f, (S \cup T) \cup {x}) = f[x] + SumFunctionOnSet(f, S \cup T)
    BY <1>0, <2>1, SumWith
  <2>3. (S \cup T) \cup {x} = S \cup (T \cup {x})
    OBVIOUS
  <2>4. SumFunctionOnSet(f, S) \in Int /\ f[x] = 0
    BY <1>0, SumType
  <2>5. SumFunctionOnSet(f, S \cup T) = SumFunctionOnSet(f, S)
    BY <1>2
  <2>6. SumFunctionOnSet(f, (S \cup T) \cup {x}) = SumFunctionOnSet(f, S)
    BY <2>2, <2>4, <2>5
  <2>7. SumFunctionOnSet(f, S \cup (T \cup {x})) = SumFunctionOnSet(f, S)
    BY <2>3, <2>6
  <2> QED BY <2>7
<1>3. R \ S \in F
  <2> HIDE DEF F
  <2> QED BY <1>0, <1>1, <1>2, SubsetInduction
<1>4. S \cup (R \ S) = R
  OBVIOUS
<1> QED BY <1>3, <1>4

\* A sum changes by as much as its one term that changes.
LEMMA SumOfChanged ==
    ASSUME NEW S, NEW f, NEW g, NEW x \in S, IsFiniteSet(S),
           \A y \in S : f[y] \in Int /\ g[y] \in Int,
           \A y \in S \ {x} : g[y] = f[y]
    PROVE  SumFunctionOnSet(g, S) = SumFunctionOnSet(f, S) + g[x] - f[x]
<1>1. IsFiniteSet(S \ {x})
  BY FS_Subset
<1>2. SumFunctionOnSet(f, S) = f[x] + SumFunctionOnSet(f, S \ {x})
  BY SumWithout
<1>3. SumFunctionOnSet(g, S) = g[x] + SumFunctionOnSet(g, S \ {x})
  BY SumWithout
<1>4. SumFunctionOnSet(g, S \ {x}) = SumFunctionOnSet(f, S \ {x})
  BY <1>1, SumSame
<1>5. SumFunctionOnSet(f, S \ {x}) \in Int
  BY <1>1, SumType
<1> QED BY <1>2, <1>3, <1>4, <1>5

(***************************************************************************)
(* The same for all terms of a function.                                   *)
(***************************************************************************)

\* A function's total is an integer.
LEMMA TotalType ==
    ASSUME NEW S, NEW f \in [S -> Int], IsFiniteSet(S)
    PROVE  SumFunction(f) \in Int
BY SumType DEF SumFunction

\* It changes by as much as the one term that changes.
LEMMA TotalOfChanged ==
    ASSUME NEW S, NEW f \in [S -> Int], NEW g \in [S -> Int], NEW x \in S, IsFiniteSet(S),
           \A y \in S \ {x} : g[y] = f[y]
    PROVE  SumFunction(g) = SumFunction(f) + g[x] - f[x]
BY SumOfChanged DEF SumFunction

\* It does not decrease if no term does.
LEMMA TotalMonotone ==
    ASSUME NEW S, NEW f \in [S -> Int], NEW g \in [S -> Int], IsFiniteSet(S),
           \A x \in S : f[x] <= g[x]
    PROVE  SumFunction(f) <= SumFunction(g)
BY SumMonotone DEF SumFunction

\* It is zero if every term is.
LEMMA TotalOfZeros ==
    ASSUME NEW S, NEW f \in [S -> Int], IsFiniteSet(S), \A x \in S : f[x] = 0
    PROVE  SumFunction(f) = 0
BY SumOfZeros DEF SumFunction

\* It is not negative if no term is.
LEMMA TotalOfNaturals ==
    ASSUME NEW S, NEW f \in [S -> Int], IsFiniteSet(S), \A x \in S : f[x] >= 0
    PROVE  SumFunction(f) \in Nat
<1> DEFINE zeros == [x \in S |-> 0]
<1>1. SumFunction(zeros) = 0
  BY TotalOfZeros
<1>2. SumFunction(zeros) <= SumFunction(f)
  BY TotalMonotone
<1>3. SumFunction(f) \in Int
  BY TotalType
<1> QED BY <1>1, <1>2, <1>3

\* A factor of every term is one of the sum, and zeros elsewhere add nothing.
LEMMA TotalScaled ==
    ASSUME NEW R, NEW S, NEW f \in [S -> Int], NEW g \in [R -> Int], NEW c \in Int,
           S \subseteq R, IsFiniteSet(R),
           \A x \in S : g[x] * c = f[x], \A x \in R \ S : g[x] = 0
    PROVE  SumFunction(g) * c = SumFunction(f)
<1>1. SumFunctionOnSet(g, R) = SumFunctionOnSet(g, S)
  BY SumBeyond
<1>2. IsFiniteSet(S)
  BY FS_Subset
<1>3. SumFunctionOnSet(g, S) * c = SumFunctionOnSet(f, S)
  BY <1>2, SumScaled
<1> QED BY <1>1, <1>3 DEF SumFunction

\* If no term exceeds two others, neither does the sum theirs.
LEMMA TotalOfParts ==
    ASSUME NEW S, NEW f \in [S -> Int], NEW g \in [S -> Int], NEW h \in [S -> Int],
           IsFiniteSet(S), \A x \in S : f[x] <= g[x] + h[x]
    PROVE  SumFunction(f) <= SumFunction(g) + SumFunction(h)
<1> DEFINE F == {T \in SUBSET S :
                    SumFunctionOnSet(f, T) <= SumFunctionOnSet(g, T) + SumFunctionOnSet(h, T)}
<1>0. \A T \in SUBSET S : /\ IsFiniteSet(T) /\ SumFunctionOnSet(f, T) \in Int
                          /\ SumFunctionOnSet(g, T) \in Int /\ SumFunctionOnSet(h, T) \in Int
  BY FS_Subset, SumType
<1>1. {} \in F
  BY SumOfNone
<1>2. ASSUME NEW T \in SUBSET S, NEW x \in S \ T, T \in F PROVE T \cup {x} \in F
  <2>1. /\ SumFunctionOnSet(f, T \cup {x}) = f[x] + SumFunctionOnSet(f, T)
        /\ SumFunctionOnSet(g, T \cup {x}) = g[x] + SumFunctionOnSet(g, T)
        /\ SumFunctionOnSet(h, T \cup {x}) = h[x] + SumFunctionOnSet(h, T)
    BY <1>0, SumWith
  <2>2. /\ f[x] \in Int /\ g[x] \in Int /\ h[x] \in Int /\ f[x] <= g[x] + h[x]
    OBVIOUS
  <2> QED BY <1>0, <1>2, <2>1, <2>2
<1>3. S \in F
  <2> HIDE DEF F
  <2> QED BY <1>1, <1>2, SubsetInduction
<1> QED BY <1>3 DEF SumFunction
=============================================================================
