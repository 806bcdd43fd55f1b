---------------------------- MODULE DataTheorems ----------------------------
(***************************************************************************)
(* Data the models compute with, and what the proofs about these models    *)
(* need of them: sums over finite sets, taken with the folds of the        *)
(* community modules (SQL's SUM, the loops over interfaces and records),   *)
(* rankings of finite sets (ORDER BY), loops and concatenated texts.  A    *)
(* fold is a function defined by recursion on the subsets of its set, a    *)
(* loop one on its turns; induction is by a counterexample of least size.  *)
(***************************************************************************)
EXTENDS Integers, FiniteSets, Functions, Sequences, SequencesExt, FiniteSetTheorems,
        SequenceTheorems, WellFoundedInduction, TLAPS

\* The sum of f over S, its elements taken in any order.
SumOf(f, S) == FoldFunctionOnSet(LAMBDA a, b : a + b, 0, f, S)

\* F is the recursive function a fold over S is the value of at S.
IsFold(F, f, S) ==
    F = [s \in SUBSET S |-> IF s = {} THEN 0
                            ELSE f[CHOOSE x \in s : TRUE] + F[s \ {CHOOSE x \in s : TRUE}]]

\* The fold is the value at S of some such function, if there is one.
LEMMA SumIsFold == ASSUME NEW f, NEW S PROVE SumOf(f, S) = (CHOOSE F : IsFold(F, f, S))[S]
BY DEF SumOf, FoldFunctionOnSet, MapThenFoldSet, IsFold

\* A set of numbers has a least one.
LEMMA LeastExists ==
    ASSUME NEW D \in SUBSET Nat, D # {}
    PROVE  \E k \in D : \A j \in D : k <= j
<1> DEFINE R == {ss \in Nat \X Nat : ss[1] < ss[2]}
<1>1. \A i, j \in Nat : i < j => <<i, j>> \in R
  OBVIOUS
<1>2. IsWellFoundedOn(R, Nat)
  BY NatLessThanWellFounded DEF OpToRel
<1> HIDE DEF R
<1>3. PICK k \in D : \A j \in D : ~(<<j, k>> \in R)
  BY <1>2, WFMin
<1>4. ASSUME NEW j \in D PROVE k <= j
  <2>1. j \in Nat /\ k \in Nat
    OBVIOUS
  <2>2. ~(j < k)
    BY <1>1, <1>3, <2>1, Zenon
  <2> QED
    BY <2>1, <2>2
<1> QED
  BY <1>4

\* Among sets of a finite set's elements there is a smallest one.
LEMMA SmallestExists ==
    ASSUME NEW S, IsFiniteSet(S), NEW T \in SUBSET (SUBSET S), T # {}
    PROVE  \E s \in T : \A t \in SUBSET s : t # s => t \notin T
<1>1. \A s \in T : IsFiniteSet(s) /\ Cardinality(s) \in Nat
  BY FS_Subset, FS_CardinalityType
<1> DEFINE D == {Cardinality(s) : s \in T}
<1>2. D \in SUBSET Nat /\ D # {}
  BY <1>1
<1>3. PICK k \in D : \A j \in D : k <= j
  BY <1>2, LeastExists
<1>4. PICK s \in T : k = Cardinality(s)
  OBVIOUS
<1>5. ASSUME NEW t \in SUBSET s, t # s, t \in T PROVE FALSE
  <2>1. Cardinality(t) <= Cardinality(s) /\ Cardinality(t) # Cardinality(s)
    BY <1>1, <1>5, FS_Subset
  <2>2. k <= Cardinality(t)
    BY <1>3, <1>5
  <2>3. Cardinality(t) \in Nat /\ Cardinality(s) \in Nat
    BY <1>1, <1>5
  <2> QED
    BY <1>4, <2>1, <2>2, <2>3
<1> QED
  BY <1>5

\* What a fold leaves to be added at s, and the element it takes there.
Pick(s) == CHOOSE x \in s : TRUE
Rest(s) == s \ {Pick(s)}

\* They are smaller than s.
LEMMA PickRest ==
    ASSUME NEW s, s # {}
    PROVE  Pick(s) \in s /\ Rest(s) \in SUBSET s /\ Rest(s) # s
BY DEF Pick, Rest

\* F is such a function on the subsets in G.
IsFoldOn(F, f, G) == F = [s \in G |-> IF s = {} THEN 0 ELSE f[Pick(s)] + F[Rest(s)]]

\* On all subsets it is the function of a fold.
LEMMA FoldOnSubsets == ASSUME NEW F, NEW f, NEW S PROVE IsFold(F, f, S) <=> IsFoldOn(F, f, SUBSET S)
BY DEF IsFold, IsFoldOn, Pick, Rest

\* The recursion has a solution on the subsets of a finite set.
LEMMA FoldExists ==
    ASSUME NEW f, NEW S, IsFiniteSet(S)
    PROVE  \E F : IsFold(F, f, S)
<1> DEFINE G(n) == {s \in SUBSET S : Cardinality(s) <= n}
           T == {n \in Nat : ~\E F : IsFoldOn(F, f, G(n))}
<1>0. \A s \in SUBSET S : IsFiniteSet(s) /\ Cardinality(s) \in Nat
  BY FS_Subset, FS_CardinalityType
<1>1. \A s \in SUBSET S : s # {} => /\ Rest(s) \in SUBSET S
                                   /\ Cardinality(Rest(s)) = Cardinality(s) - 1
  BY <1>0, PickRest, FS_RemoveElement DEF Rest
<1>2. T = {}
  <2> SUFFICES ASSUME T # {} PROVE FALSE
    OBVIOUS
  <2>1. PICK k \in T : \A j \in T : k <= j
    BY LeastExists
  <2>2. CASE k = 0
    <3>1. \A s \in G(k) : s = {}
      BY <1>0, <2>2, FS_EmptySet
    <3>2. IsFoldOn([s \in G(k) |-> 0], f, G(k))
      BY <3>1 DEF IsFoldOn
    <3> QED
      BY <3>2
  <2>3. CASE k # 0
    <3>0. k \in Nat /\ ~(k <= k - 1)
      OBVIOUS
    <3>1. k - 1 \in Nat /\ k - 1 \notin T
      <4> HIDE DEF T
      <4> QED
        BY <2>1, <2>3, <3>0
    <3>2. PICK F : IsFoldOn(F, f, G(k - 1))
      BY <3>1
    <3> DEFINE H == [s \in G(k) |-> IF s = {} THEN 0 ELSE f[Pick(s)] + F[Rest(s)]]
    <3>3. \A s \in G(k - 1) : s \in G(k) /\ F[s] = H[s]
      BY <1>0, <3>1, <3>2 DEF IsFoldOn
    <3>4. \A s \in G(k) : s # {} => Rest(s) \in G(k - 1)
      BY <1>0, <1>1, <3>1
    <3>5. \A s \in G(k) : H[s] = IF s = {} THEN 0 ELSE f[Pick(s)] + H[Rest(s)]
      BY <3>3, <3>4
    <3>6. IsFoldOn(H, f, G(k))
      BY <3>5 DEF IsFoldOn
    <3> QED
      BY <3>6
  <2> QED
    BY <2>2, <2>3
<1>3. Cardinality(S) \in Nat /\ G(Cardinality(S)) = SUBSET S
  BY <1>0, FS_Subset
<1>4. Cardinality(S) \notin T
  BY <1>2
<1>5. \E F : IsFoldOn(F, f, G(Cardinality(S)))
  BY <1>3, <1>4
<1> QED
  BY <1>3, <1>5, FoldOnSubsets

\* Two such functions agree where both are defined.
LEMMA FoldsAgree ==
    ASSUME NEW f, NEW g, NEW S, IsFiniteSet(S), NEW U \in SUBSET S, \A x \in U : f[x] = g[x],
           NEW F, IsFold(F, f, S), NEW H, IsFold(H, g, U)
    PROVE  \A s \in SUBSET U : F[s] = H[s]
<1> DEFINE T == {s \in SUBSET U : F[s] # H[s]}
<1>1. \A s \in SUBSET U : F[s] = IF s = {} THEN 0 ELSE f[Pick(s)] + F[Rest(s)]
  BY DEF IsFold, Pick, Rest
<1>2. \A s \in SUBSET U : H[s] = IF s = {} THEN 0 ELSE g[Pick(s)] + H[Rest(s)]
  BY DEF IsFold, Pick, Rest
<1> SUFFICES ASSUME T # {} PROVE FALSE
  OBVIOUS
<1>3. PICK s \in T : \A t \in SUBSET s : t # s => t \notin T
  <2>1. IsFiniteSet(U) /\ T \in SUBSET (SUBSET U)
    BY FS_Subset
  <2> HIDE DEF T
  <2> QED
    BY <2>1, SmallestExists
<1>4. s # {}
  BY <1>1, <1>2
<1>5. Pick(s) \in s /\ Rest(s) \in SUBSET s /\ Rest(s) # s
  BY <1>4, PickRest
<1>6. F[Rest(s)] = H[Rest(s)]
  BY <1>3, <1>5
<1>7. f[Pick(s)] = g[Pick(s)]
  BY <1>5
<1> QED
  BY <1>1, <1>2, <1>4, <1>6, <1>7

\* The sum of functions that agree on the set.
LEMMA SumEqual ==
    ASSUME NEW f, NEW g, NEW S, IsFiniteSet(S), \A x \in S : f[x] = g[x]
    PROVE  SumOf(f, S) = SumOf(g, S)
<1> DEFINE F == CHOOSE G : IsFold(G, f, S)
           H == CHOOSE G : IsFold(G, g, S)
<1>1. IsFold(F, f, S) /\ SumOf(f, S) = F[S]
  BY FoldExists, SumIsFold
<1>2. IsFold(H, g, S) /\ SumOf(g, S) = H[S]
  BY FoldExists, SumIsFold
<1>3. S \in SUBSET S
  OBVIOUS
<1> HIDE DEF F, H
<1>4. F[S] = H[S]
  BY <1>1, <1>2, <1>3, FoldsAgree
<1> QED
  BY <1>1, <1>2, <1>4

\* One step of the recursion.
LEMMA SumStep ==
    ASSUME NEW f, NEW S, IsFiniteSet(S)
    PROVE  SumOf(f, S) = IF S = {} THEN 0 ELSE f[Pick(S)] + SumOf(f, Rest(S))
<1> DEFINE F == CHOOSE G : IsFold(G, f, S)
           H == CHOOSE G : IsFold(G, f, Rest(S))
<1>1. IsFold(F, f, S) /\ SumOf(f, S) = F[S]
  BY FoldExists, SumIsFold
<1>2. S \in SUBSET S
  OBVIOUS
<1>3. F[S] = IF S = {} THEN 0 ELSE f[Pick(S)] + F[Rest(S)]
  BY <1>1, <1>2 DEF IsFold, Pick, Rest
<1>4. ASSUME S # {} PROVE SumOf(f, Rest(S)) = F[Rest(S)]
  <2>1. Rest(S) \in SUBSET S /\ IsFiniteSet(Rest(S)) /\ Rest(S) \in SUBSET Rest(S)
    BY <1>4, PickRest, FS_Subset
  <2>2. IsFold(H, f, Rest(S)) /\ SumOf(f, Rest(S)) = H[Rest(S)]
    BY <2>1, FoldExists, SumIsFold
  <2> HIDE DEF F, H
  <2> QED
    BY <1>1, <2>1, <2>2, FoldsAgree
<1> HIDE DEF F
<1> QED
  BY <1>1, <1>3, <1>4

\* A sum of numbers is a number.
LEMMA SumType ==
    ASSUME NEW f, NEW S, IsFiniteSet(S), \A x \in S : f[x] \in Nat
    PROVE  SumOf(f, S) \in Nat
<1> DEFINE T == {s \in SUBSET S : SumOf(f, s) \notin Nat}
<1> SUFFICES ASSUME T # {} PROVE FALSE
  OBVIOUS
<1>1. PICK s \in T : \A t \in SUBSET s : t # s => t \notin T
  <2>1. T \in SUBSET (SUBSET S)
    OBVIOUS
  <2> HIDE DEF T
  <2> QED
    BY <2>1, SmallestExists
<1>2. s \in SUBSET S /\ IsFiniteSet(s)
  BY FS_Subset
<1>3. SumOf(f, s) = IF s = {} THEN 0 ELSE f[Pick(s)] + SumOf(f, Rest(s))
  BY <1>2, SumStep
<1>4. s # {} => Pick(s) \in S /\ Rest(s) \in SUBSET S /\ SumOf(f, Rest(s)) \in Nat
  BY <1>1, <1>2, PickRest
<1> QED
  BY <1>3, <1>4

\* Any element may be taken first.
LEMMA SumRemove ==
    ASSUME NEW f, NEW S, IsFiniteSet(S), \A x \in S : f[x] \in Nat, NEW x \in S
    PROVE  SumOf(f, S) = f[x] + SumOf(f, S \ {x})
<1> DEFINE Good(s) == \A y \in s : SumOf(f, s) = f[y] + SumOf(f, s \ {y})
           T == {s \in SUBSET S : ~Good(s)}
<1> SUFFICES ASSUME T # {} PROVE FALSE
  BY Zenon
<1>1. PICK s \in T : \A t \in SUBSET s : t # s => t \notin T
  <2>1. T \in SUBSET (SUBSET S)
    OBVIOUS
  <2> HIDE DEF T
  <2> QED
    BY <2>1, SmallestExists
<1>2. \A t \in SUBSET s : t \in SUBSET S /\ IsFiniteSet(t) /\ SumOf(f, t) \in Nat
  BY FS_Subset, SumType
<1>3. \A t \in SUBSET s : t # s => Good(t)
  BY <1>1, <1>2
<1>4. PICK y \in s : SumOf(f, s) # f[y] + SumOf(f, s \ {y})
  BY <1>1
<1> DEFINE c == Pick(s)
           u == s \ {c}
           v == s \ {y}
           w == (s \ {c}) \ {y}
<1>5. SumOf(f, s) = f[c] + SumOf(f, u) /\ c \in s
  BY <1>2, <1>4, SumStep, PickRest DEF Rest
<1>6. y # c
  BY <1>4, <1>5
<1>7. Good(u) /\ Good(v) /\ y \in u /\ c \in v /\ w = v \ {c}
  BY <1>3, <1>4, <1>5, <1>6
<1> HIDE DEF c
<1>8. SumOf(f, u) = f[y] + SumOf(f, w)
  BY <1>7
<1>9. SumOf(f, v) = f[c] + SumOf(f, w)
  <2>1. SumOf(f, v) = f[c] + SumOf(f, v \ {c})
    BY <1>7
  <2> QED
    BY <1>7, <2>1
<1>10. f[c] \in Nat /\ f[y] \in Nat /\ SumOf(f, w) \in Nat
  BY <1>2, <1>4, <1>5
<1> HIDE DEF u, v, w
<1>11. SumOf(f, s) = f[y] + SumOf(f, v)
  BY <1>5, <1>8, <1>9, <1>10
<1> QED
  BY <1>4, <1>11 DEF v

\* One summand grows: the sum grows by as much.
LEMMA SumGrows ==
    ASSUME NEW f, NEW S, IsFiniteSet(S), \A y \in S : f[y] \in Nat, NEW x \in S, NEW n \in Nat,
           NEW g, g[x] = f[x] + n, \A y \in S : y # x => g[y] = f[y]
    PROVE  SumOf(g, S) = SumOf(f, S) + n
<1> DEFINE U == S \ {x}
<1>1. g[x] = f[x] + n /\ f[x] \in Nat /\ \A y \in U : g[y] = f[y]
  OBVIOUS
<1>2. (\A y \in S : f[y] \in Nat) /\ (\A y \in S : g[y] \in Nat) /\ (\A y \in U : f[y] \in Nat)
  OBVIOUS
<1>3. IsFiniteSet(U)
  BY FS_Subset
<1>4. SumOf(f, S) = f[x] + SumOf(f, U) /\ SumOf(g, S) = g[x] + SumOf(g, U)
  BY <1>2, SumRemove
<1>5. SumOf(g, U) = SumOf(f, U)
  BY <1>1, <1>3, SumEqual
<1>6. SumOf(f, U) \in Nat
  BY <1>2, <1>3, SumType
<1> QED
  BY <1>1, <1>4, <1>5, <1>6

\* One summand more.
LEMMA SumAdd ==
    ASSUME NEW f, NEW g, NEW S, IsFiniteSet(S), NEW x, x \notin S, g[x] \in Nat,
           \A y \in S : f[y] \in Nat /\ g[y] = f[y]
    PROVE  SumOf(g, S \cup {x}) = SumOf(f, S) + g[x]
<1> DEFINE U == S \cup {x}
<1>1. IsFiniteSet(U) /\ x \in U /\ U \ {x} = S /\ \A y \in U : g[y] \in Nat
  BY FS_AddElement
<1> HIDE DEF U
<1>2. SumOf(g, U) = g[x] + SumOf(g, U \ {x})
  BY <1>1, SumRemove
<1>3. SumOf(g, S) = SumOf(f, S) /\ SumOf(f, S) \in Nat
  BY SumEqual, SumType
<1>4. SumOf(g, U) = g[x] + SumOf(f, S)
  BY <1>1, <1>2, <1>3
<1>5. SumOf(g, U) = SumOf(f, S) + g[x]
  BY <1>3, <1>4
<1> QED
  BY <1>5 DEF U

\* The summands are all 0.
LEMMA SumOfZeros == ASSUME NEW f, NEW S, IsFiniteSet(S), \A x \in S : f[x] = 0 PROVE SumOf(f, S) = 0
<1> DEFINE T == {s \in SUBSET S : SumOf(f, s) # 0}
<1> SUFFICES ASSUME T # {} PROVE FALSE
  OBVIOUS
<1>1. PICK s \in T : \A t \in SUBSET s : t # s => t \notin T
  <2>1. T \in SUBSET (SUBSET S)
    OBVIOUS
  <2> HIDE DEF T
  <2> QED
    BY <2>1, SmallestExists
<1>2. s \in SUBSET S /\ IsFiniteSet(s)
  BY FS_Subset
<1>3. SumOf(f, s) = IF s = {} THEN 0 ELSE f[Pick(s)] + SumOf(f, Rest(s))
  BY <1>2, SumStep
<1>4. s # {} => f[Pick(s)] = 0 /\ SumOf(f, Rest(s)) = 0
  BY <1>1, <1>2, PickRest
<1> QED
  BY <1>3, <1>4

\* A sum of n summands is at most n times a bound of each.
LEMMA SumBound ==
    ASSUME NEW f, NEW S, IsFiniteSet(S), NEW b \in Nat, \A x \in S : f[x] \in Nat /\ f[x] <= b
    PROVE  SumOf(f, S) <= b * Cardinality(S)
<1> DEFINE T == {s \in SUBSET S : ~(SumOf(f, s) <= b * Cardinality(s))}
<1> SUFFICES ASSUME T # {} PROVE FALSE
  BY Zenon
<1>1. PICK s \in T : \A t \in SUBSET s : t # s => t \notin T
  <2>1. T \in SUBSET (SUBSET S)
    OBVIOUS
  <2> HIDE DEF T
  <2> QED
    BY <2>1, SmallestExists
<1>2. \A t \in SUBSET s : t \in SUBSET S /\ IsFiniteSet(t) /\ SumOf(f, t) \in Nat /\ Cardinality(t) \in Nat
  BY FS_Subset, FS_CardinalityType, SumType
<1>3. SumOf(f, s) = IF s = {} THEN 0 ELSE f[Pick(s)] + SumOf(f, Rest(s))
  BY <1>2, SumStep
<1>4. CASE s = {}
  <2>1. SumOf(f, s) = 0 /\ Cardinality(s) = 0
    BY <1>3, <1>4, FS_EmptySet
  <2> QED
    BY <1>1, <2>1
<1>5. CASE s # {}
  <2>1. Pick(s) \in s /\ Rest(s) \in SUBSET s /\ Rest(s) # s
    BY <1>5, PickRest
  <2>2. SumOf(f, Rest(s)) <= b * Cardinality(Rest(s))
    BY <1>1, <1>2, <2>1
  <2>3. Cardinality(Rest(s)) = Cardinality(s) - 1
    BY <1>2, <2>1, FS_RemoveElement DEF Rest
  <2> DEFINE c == Cardinality(s)
             p == f[Pick(s)]
             r == SumOf(f, Rest(s))
  <2>4. c \in Nat /\ p \in Nat /\ p <= b /\ r \in Nat /\ r <= b * (c - 1)
    BY <1>2, <2>1, <2>2, <2>3
  <2>5. SumOf(f, s) = p + r
    BY <1>3, <1>5
  <2> HIDE DEF c, p, r
  <2>6. b * (c - 1) = b * c - b /\ b * c \in Nat
    BY <2>4
  <2>7. p + r <= b * c
    BY <2>4, <2>6
  <2> QED
    BY <1>1, <2>5, <2>7 DEF c
<1> QED
  BY <1>4, <1>5

\* Summands that are 0 may be left out.
LEMMA SumOfPositive ==
    ASSUME NEW f, NEW S, IsFiniteSet(S), \A x \in S : f[x] \in Nat
    PROVE  SumOf(f, S) = SumOf(f, {x \in S : f[x] > 0})
<1> DEFINE P(s) == {x \in s : f[x] > 0}
           T == {s \in SUBSET S : SumOf(f, s) # SumOf(f, P(s))}
<1> SUFFICES ASSUME T # {} PROVE FALSE
  BY Zenon
<1>1. PICK s \in T : \A t \in SUBSET s : t # s => t \notin T
  <2>1. T \in SUBSET (SUBSET S)
    OBVIOUS
  <2> HIDE DEF T
  <2> QED
    BY <2>1, SmallestExists
<1>2. \A t \in SUBSET s : t \in SUBSET S /\ IsFiniteSet(t) /\ SumOf(f, t) \in Nat
  BY FS_Subset, SumType
<1>3. \A t \in SUBSET s : t # s => SumOf(f, t) = SumOf(f, P(t))
  BY <1>1, <1>2
<1>4. s # P(s)
  BY <1>1
<1>5. PICK x \in s : ~(f[x] > 0)
  BY <1>4
<1> DEFINE u == s \ {x}
<1>6. f[x] = 0
  BY <1>2, <1>5
<1>7. SumOf(f, s) = f[x] + SumOf(f, u)
  BY <1>2, SumRemove
<1>8. P(u) = P(s)
  BY <1>5
<1>9. u \in SUBSET s /\ u # s
  OBVIOUS
<1>10. SumOf(f, u) = SumOf(f, P(u)) /\ SumOf(f, u) \in Nat
  BY <1>2, <1>3, <1>9
<1> HIDE DEF P, u
<1>11. SumOf(f, s) = SumOf(f, P(s))
  BY <1>6, <1>7, <1>8, <1>10
<1> QED
  BY <1>1, <1>11

\* q lists S from the greatest key to the least.
IsRanking(q, S, key) ==
    /\ q \in [1..Cardinality(S) -> S] /\ \A i, j \in 1..Cardinality(S) : i # j => q[i] # q[j]
    /\ \A i, j \in 1..Cardinality(S) : i < j => key[q[i]] >= key[q[j]]

\* A finite set can be ranked: ORDER BY has an answer.
LEMMA RankingExists ==
    ASSUME NEW S, IsFiniteSet(S), NEW key, \A x \in S : key[x] \in Nat
    PROVE  \E q : IsRanking(q, S, key)
<1> DEFINE T == {s \in SUBSET S : ~\E q : IsRanking(q, s, key)}
<1> SUFFICES ASSUME T # {} PROVE FALSE
  BY Zenon
<1>1. PICK s \in T : \A t \in SUBSET s : t # s => t \notin T
  <2>1. T \in SUBSET (SUBSET S)
    OBVIOUS
  <2> HIDE DEF T
  <2> QED
    BY <2>1, SmallestExists
<1>2. s \in SUBSET S /\ IsFiniteSet(s) /\ Cardinality(s) \in Nat
  BY FS_Subset, FS_CardinalityType
<1>3. CASE s = {}
  <2>1. Cardinality(s) = 0
    BY <1>3, FS_EmptySet
  <2>2. IsRanking([i \in 1..0 |-> 0], s, key)
    BY <2>1 DEF IsRanking
  <2> QED
    BY <1>1, <2>2
<1>4. CASE s # {}
  <2> DEFINE D == {key[x] : x \in s}
             n == Cardinality(s)
  <2>1. D \in SUBSET Nat /\ D # {}
    BY <1>2, <1>4
  <2>2. PICK d \in D : \A e \in D : d <= e
    BY <2>1, LeastExists
  <2>3. PICK m \in s : d = key[m]
    OBVIOUS
  <2> DEFINE u == s \ {m}
  <2>4. u \in SUBSET s /\ u # s /\ Cardinality(u) = n - 1 /\ u \in SUBSET S
    BY <1>2, <2>3, FS_RemoveElement
  <2>5. PICK q : IsRanking(q, u, key)
    BY <1>1, <2>4
  <2> DEFINE r == [i \in 1..n |-> IF i = n THEN m ELSE q[i]]
  <2>6. n \in Nat /\ \A i \in 1..n : i # n => i \in 1..(n - 1)
    BY <1>2
  <2> HIDE DEF n
  <2>7. /\ \A i \in 1..(n - 1) : q[i] \in u
        /\ \A i, j \in 1..(n - 1) : i # j => q[i] # q[j]
        /\ \A i, j \in 1..(n - 1) : i < j => key[q[i]] >= key[q[j]]
    BY <2>4, <2>5 DEF IsRanking
  <2>8. \A x \in u : key[x] \in Nat /\ key[m] \in Nat /\ key[x] >= key[m]
    <3> SUFFICES ASSUME NEW x \in u PROVE key[x] \in Nat /\ key[m] \in Nat /\ key[x] >= key[m]
      OBVIOUS
    <3>1. key[x] \in D /\ key[m] \in D
      OBVIOUS
    <3>2. d <= key[x] /\ key[x] \in Nat /\ key[m] \in Nat
      BY <2>1, <2>2, <3>1
    <3> HIDE DEF D
    <3> QED
      BY <2>3, <3>2
  <2>9. r \in [1..n -> s] /\ \A i, j \in 1..n : i # j => r[i] # r[j]
    BY <2>6, <2>7
  <2>10. ASSUME NEW i \in 1..n, NEW j \in 1..n, i < j PROVE key[r[i]] >= key[r[j]]
    <3>1. i # n
      BY <2>6, <2>10
    <3>2. CASE j = n
      BY <2>6, <2>7, <2>8, <3>1, <3>2
    <3>3. CASE j # n
      BY <2>6, <2>7, <2>10, <3>1, <3>3
    <3> QED
      BY <3>2, <3>3
  <2> HIDE DEF r
  <2>11. IsRanking(r, s, key)
    BY <2>9, <2>10 DEF IsRanking, n
  <2> QED
    BY <1>1, <2>11
<1> QED
  BY <1>3, <1>4

\* A ranking lists everything.
LEMMA RankingIsWhole ==
    ASSUME NEW S, IsFiniteSet(S), NEW key, NEW q, IsRanking(q, S, key), NEW x \in S
    PROVE  \E i \in 1..Cardinality(S) : q[i] = x
<1> SUFFICES ASSUME \A i \in 1..Cardinality(S) : q[i] # x PROVE FALSE
  OBVIOUS
<1> DEFINE n == Cardinality(S)
           R == S \ {x}
<1>1. n \in Nat /\ IsFiniteSet(1..n) /\ Cardinality(1..n) = n
  BY FS_CardinalityType, FS_Interval
<1>2. IsFiniteSet(R) /\ Cardinality(R) = n - 1
  BY FS_RemoveElement
<1>3. q \in [1..n -> R]
  BY DEF IsRanking
<1> HIDE DEF n, R
<1>4. Cardinality(R) < Cardinality(1..n)
  BY <1>1, <1>2
<1>5. \E i, j \in 1..n : i # j /\ q[i] = q[j]
  BY <1>1, <1>2, <1>3, <1>4, FS_PigeonHole
<1> QED
  BY <1>5 DEF IsRanking, n

\* Of things that differ in their rank, a number, few come before a given one,
\* and at most n have less than n before them.
LEMMA FewComeFirst ==
    ASSUME NEW S, NEW f \in [S -> Nat], \A s, t \in S : f[s] = f[t] => s = t, NEW n \in Nat
    PROVE  LET P == {s \in S : Cardinality({q \in S : f[q] < f[s]}) < n}
           IN  IsFiniteSet(P) /\ Cardinality(P) <= n
<1> DEFINE Before(s) == {q \in S : f[q] < f[s]}
           P == {s \in S : Cardinality(Before(s)) < n}
           rank == [s \in P |-> Cardinality(Before(s))]
<1>1. ASSUME NEW s \in S PROVE IsFiniteSet(Before(s)) /\ Cardinality(Before(s)) \in Nat
  <2> DEFINE g == [q \in Before(s) |-> f[q]]
  <2>1. f[s] \in Nat /\ \A q \in Before(s) : q \in S /\ f[q] \in Nat /\ f[q] <= f[s]
    OBVIOUS
  <2>2. g \in [Before(s) -> 0..f[s]]
    BY <2>1
  <2>3. IsInjective(g)
    BY <2>1 DEF IsInjective
  <2>4. IsFiniteSet(0..f[s])
    BY <2>1, FS_Interval
  <2>5. g \in Injection(Before(s), 0..f[s])
    BY <2>2, <2>3 DEF Injection
  <2> HIDE DEF g, Before
  <2>6. IsFiniteSet(Before(s))
    BY <2>4, <2>5, FS_Injection
  <2> QED
    BY <2>6, FS_CardinalityType
<1>2. ASSUME NEW s \in S, NEW t \in S, f[s] < f[t]
      PROVE  Cardinality(Before(s)) < Cardinality(Before(t))
  <2>1. Before(s) \in SUBSET Before(t)
    BY <1>2
  <2>2. s \in Before(t) /\ s \notin Before(s)
    BY <1>2
  <2> HIDE DEF Before
  <2>3. IsFiniteSet(Before(t)) /\ Cardinality(Before(t)) \in Nat /\ Cardinality(Before(s)) \in Nat
    BY <1>1
  <2>4. Cardinality(Before(s)) <= Cardinality(Before(t)) /\ Cardinality(Before(t)) # Cardinality(Before(s))
    BY <2>1, <2>2, <2>3, FS_Subset
  <2> QED
    BY <2>3, <2>4
<1> HIDE DEF Before
<1>3. rank \in [P -> 0..n - 1]
  BY <1>1
<1>4. IsInjective(rank)
  <2> SUFFICES ASSUME NEW s \in P, NEW t \in P, rank[s] = rank[t] PROVE s = t
    BY DEF IsInjective
  <2>1. Cardinality(Before(s)) = Cardinality(Before(t)) /\ Cardinality(Before(s)) \in Nat
    BY <1>1
  <2>2. ~(f[s] < f[t]) /\ ~(f[t] < f[s])
    BY <1>2, <2>1
  <2>3. f[s] \in Nat /\ f[t] \in Nat
    OBVIOUS
  <2> QED
    BY <2>2, <2>3
<1>5. rank \in Injection(P, 0..n - 1)
  BY <1>3, <1>4 DEF Injection
<1>6. IsFiniteSet(0..n - 1) /\ Cardinality(0..n - 1) = n
  <2>1. n - 1 \in Int /\ 0 \in Int /\ (IF 0 > n - 1 THEN 0 ELSE (n - 1) - 0 + 1) = n
    OBVIOUS
  <2> QED
    BY <2>1, FS_Interval
<1> HIDE DEF P, rank
<1>7. IsFiniteSet(P) /\ Cardinality(P) <= Cardinality(0..n - 1)
  BY <1>5, <1>6, FS_Injection
<1> QED
  BY <1>6, <1>7 DEF P, Before

-----------------------------------------------------------------------------
(* Loops.                                                                  *)

\* Induction up to n, for a set of numbers instead of a predicate.
LEMMA StepByStep ==
    ASSUME NEW n \in Nat, NEW D, 0 \in D, \A i \in 0..n : i \in D /\ i < n => i + 1 \in D
    PROVE  \A i \in 0..n : i \in D
<1> DEFINE B == {i \in 0..n : i \notin D}
<1> SUFFICES ASSUME B # {} PROVE FALSE
  OBVIOUS
<1>1. B \in SUBSET Nat
  OBVIOUS
<1> HIDE DEF B
<1>2. PICK k \in B : \A j \in B : k <= j
  BY <1>1, LeastExists
<1>3. k \in 0..n /\ k \notin D
  BY DEF B
<1>4. k # 0
  BY <1>3
<1>5. k - 1 \in 0..n /\ k - 1 < n /\ k - 1 < k /\ (k - 1) + 1 = k
  BY <1>3, <1>4
<1>6. k - 1 \notin B
  BY <1>2, <1>3, <1>5
<1>7. k - 1 \in D
  BY <1>5, <1>6 DEF B
<1> QED
  BY <1>3, <1>5, <1>7

\* F holds the states of a loop that begins with a and whose k-th turn is G.
IsLoop(F, a, G, n) == F = [k \in 0..n |-> IF k = 0 THEN a ELSE G[<<k, F[k - 1]>>]]

\* A loop over states of X has such a function.
LEMMA LoopExists ==
    ASSUME NEW n \in Nat, NEW X, NEW a \in X, NEW G \in [Nat \X X -> X]
    PROVE  \E F \in [0..n -> X] : IsLoop(F, a, G, n)
<1> DEFINE D == {m \in Nat : \E F \in [0..m -> X] : IsLoop(F, a, G, m)}
<1>1. 0 \in D
  <2> DEFINE F == [k \in 0..0 |-> a]
  <2>1. F \in [0..0 -> X] /\ IsLoop(F, a, G, 0)
    BY DEF IsLoop
  <2> QED
    BY <2>1
<1>2. ASSUME NEW m \in 0..n, m \in D, m < n PROVE m + 1 \in D
  <2>1. PICK F \in [0..m -> X] : IsLoop(F, a, G, m)
    BY <1>2
  <2> DEFINE H == [k \in 0..(m + 1) |-> IF k <= m THEN F[k] ELSE G[<<m + 1, F[m]>>]]
  <2>2. m \in Nat /\ m + 1 \in Nat /\ G[<<m + 1, F[m]>>] \in X
    OBVIOUS
  <2>3. H \in [0..(m + 1) -> X]
    BY <2>2
  <2>4. ASSUME NEW k \in 0..(m + 1) PROVE H[k] = IF k = 0 THEN a ELSE G[<<k, H[k - 1]>>]
    <3>1. CASE k = 0
      BY <2>1, <2>2, <3>1 DEF IsLoop
    <3>2. CASE k # 0 /\ k <= m
      <4>1. k \in 0..m /\ k - 1 \in 0..m /\ k - 1 \in 0..(m + 1) /\ k - 1 <= m
        BY <2>2, <3>2
      <4>2. F[k] = G[<<k, F[k - 1]>>]
        BY <2>1, <3>2, <4>1 DEF IsLoop
      <4>3. H[k] = F[k] /\ H[k - 1] = F[k - 1]
        BY <3>2, <4>1
      <4> QED
        BY <3>2, <4>2, <4>3
    <3>3. CASE k = m + 1
      <4>1. k - 1 = m /\ m \in 0..(m + 1) /\ ~(m + 1 <= m) /\ m <= m /\ m + 1 # 0
        BY <2>2, <3>3
      <4>2. H[k] = G[<<m + 1, F[m]>>] /\ H[m] = F[m]
        BY <3>3, <4>1
      <4> QED
        BY <3>3, <4>1, <4>2
    <3> QED
      BY <2>2, <3>1, <3>2, <3>3
  <2> HIDE DEF H
  <2>5. H = [k \in 0..(m + 1) |-> IF k = 0 THEN a ELSE G[<<k, H[k - 1]>>]]
    BY <2>3, <2>4
  <2>6. IsLoop(H, a, G, m + 1)
    BY <2>5 DEF IsLoop
  <2> QED
    BY <2>2, <2>3, <2>6
<1> HIDE DEF D
<1>3. n \in D
  BY <1>1, <1>2, StepByStep
<1> QED
  BY <1>3 DEF D

\* A loop that has come to a state in which a turn does nothing stays there.
LEMMA LoopStays ==
    ASSUME NEW n \in Nat, NEW F, NEW st, NEW k \in 0..n, F[k] = st,
           \A i \in 1..n : F[i - 1] = st => F[i] = st
    PROVE  F[n] = st
<1> DEFINE m == n - k
           E == {i \in 0..m : F[k + i] = st}
<1>1. m \in Nat /\ k + m = n /\ k + 0 = k /\ 0 \in 0..m /\ m \in 0..m
  OBVIOUS
<1> HIDE DEF m
<1>2. 0 \in E
  BY <1>1
<1>3. ASSUME NEW i \in 0..m, i \in E, i < m PROVE i + 1 \in E
  <2>1. k + (i + 1) \in 1..n /\ (k + (i + 1)) - 1 = k + i /\ i + 1 \in 0..m
    BY <1>1, <1>3
  <2> QED
    BY <1>3, <2>1
<1>4. \A i \in 0..m : i \in E /\ i < m => i + 1 \in E
  BY <1>3
<1> HIDE DEF E
<1>5. m \in E
  BY <1>1, <1>2, <1>4, StepByStep
<1> QED
  BY <1>1, <1>5 DEF E

-----------------------------------------------------------------------------
(* Concatenated texts.                                                     *)

\* h is the recursive function FlattenSeq takes the last value of.
IsFlatten(h, g) == h = [i \in 1..Len(g) |-> IF i = 1 THEN g[i] ELSE h[i - 1] \o g[i]]

\* FlattenSeq by that function.
LEMMA FlattenIs ==
    ASSUME NEW g, Len(g) # 0 PROVE FlattenSeq(g) = (CHOOSE h : IsFlatten(h, g))[Len(g)]
BY DEF FlattenSeq, IsFlatten

\* The first k sequences of f, one after the other.
Joined(f, k) == FlattenSeq([i \in 1..k |-> f[i]])

\* They are joined one at a time.
LEMMA JoinedGrows ==
    ASSUME NEW S, NEW n \in Nat, NEW f \in [1..n -> Seq(S)]
    PROVE  /\ Joined(f, 0) = << >>
           /\ \A k \in 0..n : Joined(f, k) \in Seq(S)
           /\ \A k \in 1..n : Joined(f, k) = Joined(f, k - 1) \o f[k]
<1> DEFINE G == [q \in Nat \X Seq(S) |-> IF q[1] \in 1..n THEN q[2] \o f[q[1]] ELSE q[2]]
<1>1. << >> \in Seq(S)
  BY EmptySeq
<1>2. G \in [Nat \X Seq(S) -> Seq(S)]
  <2>1. ASSUME NEW q \in Nat \X Seq(S) PROVE (IF q[1] \in 1..n THEN q[2] \o f[q[1]] ELSE q[2]) \in Seq(S)
    <3>1. q[2] \in Seq(S) /\ (q[1] \in 1..n => f[q[1]] \in Seq(S))
      OBVIOUS
    <3> QED
      BY <3>1, ConcatProperties
  <2> QED
    BY <2>1
<1>3. PICK F \in [0..n -> Seq(S)] : IsLoop(F, << >>, G, n)
  BY <1>1, <1>2, LoopExists
<1>4. F[0] = << >> /\ \A k \in 1..n : F[k] = F[k - 1] \o f[k]
  <2>1. F[0] = << >>
    BY <1>3 DEF IsLoop
  <2>2. ASSUME NEW k \in 1..n PROVE F[k] = F[k - 1] \o f[k]
    <3>1. k \in 0..n /\ k - 1 \in 0..n /\ k # 0 /\ <<k, F[k - 1]>> \in Nat \X Seq(S)
      OBVIOUS
    <3>2. F[k] = G[<<k, F[k - 1]>>]
      BY <1>3, <3>1 DEF IsLoop
    <3> QED
      BY <3>1, <3>2
  <2> QED
    BY <2>1, <2>2
<1> HIDE DEF G
<1>5. ASSUME NEW m \in 1..n PROVE Joined(f, m) = F[m]
  <2> DEFINE g == [i \in 1..m |-> f[i]]
  <2>1. m \in Nat /\ m # 0 /\ Len(g) = m /\ \A i \in 1..m : g[i] = f[i] /\ i \in 1..n
    OBVIOUS
  <2> HIDE DEF g
  <2> DEFINE h0 == [i \in 1..m |-> F[i]]
  <2>2. IsFlatten(h0, g)
    <3>1. ASSUME NEW i \in 1..m PROVE F[i] = IF i = 1 THEN g[i] ELSE h0[i - 1] \o g[i]
      <4>1. F[i] = F[i - 1] \o f[i] /\ f[i] \in Seq(S)
        BY <1>4, <2>1
      <4>2. CASE i = 1
        <5>1. << >> \o f[i] = f[i]
          BY <4>1, ConcatEmptySeq
        <5>2. F[i - 1] = << >> /\ g[i] = f[i]
          BY <1>4, <2>1, <4>2
        <5> QED
          BY <4>1, <4>2, <5>1, <5>2
      <4>3. CASE i # 1
        <5>1. i - 1 \in 1..m
          BY <4>3
        <5> QED
          BY <2>1, <4>1, <4>3, <5>1
      <4> QED
        BY <4>2, <4>3
    <3> QED
      BY <2>1, <3>1 DEF IsFlatten
  <2> HIDE DEF h0
  <2> DEFINE h == CHOOSE x : IsFlatten(x, g)
  <2>3. IsFlatten(h, g)
    BY <2>2
  <2>4. Joined(f, m) = h[m]
    BY <2>1, FlattenIs DEF Joined, g
  <2> HIDE DEF h
  <2> DEFINE D == {i \in Nat : i = 0 \/ h[i] = F[i]}
  <2>5. ASSUME NEW i \in 0..m, i \in D, i < m PROVE i + 1 \in D
    <3>1. i + 1 \in 1..m /\ i + 1 \in 1..n /\ (i + 1) - 1 = i /\ i + 1 \in Nat
      BY <2>1, <2>5
    <3>2. h[i + 1] = IF i + 1 = 1 THEN g[i + 1] ELSE h[i] \o g[i + 1]
      BY <2>1, <2>3, <3>1 DEF IsFlatten
    <3>3. F[i + 1] = F[i] \o f[i + 1] /\ f[i + 1] \in Seq(S) /\ g[i + 1] = f[i + 1]
      BY <1>4, <2>1, <3>1
    <3>4. CASE i = 0
      <4>1. << >> \o f[i + 1] = f[i + 1]
        BY <3>3, ConcatEmptySeq
      <4>2. F[i] = << >> /\ i + 1 = 1
        BY <1>4, <3>4
      <4>3. h[i + 1] = F[i + 1]
        BY <3>2, <3>3, <4>1, <4>2
      <4> QED
        BY <3>1, <4>3
    <3>5. CASE i # 0
      <4>1. h[i] = F[i] /\ i + 1 # 1
        BY <2>5, <3>5
      <4> QED
        BY <3>1, <3>2, <3>3, <4>1
    <3> QED
      BY <3>4, <3>5
  <2>6. 0 \in D
    OBVIOUS
  <2> HIDE DEF D
  <2>7. m \in D
    <3>1. \A i \in 0..m : i \in D /\ i < m => i + 1 \in D
      BY <2>5
    <3>2. m \in Nat /\ m \in 0..m
      BY <2>1
    <3> QED
      BY <2>6, <3>1, <3>2, StepByStep
  <2> QED
    BY <2>1, <2>4, <2>7 DEF D
<1>6. Joined(f, 0) = << >>
  <2>1. [i \in 1..0 |-> f[i]] = << >>
    OBVIOUS
  <2>2. FlattenSeq(<< >>) = << >>
    BY DEF FlattenSeq
  <2> QED
    BY <2>1, <2>2 DEF Joined
<1>7. \A k \in 0..n : Joined(f, k) = F[k]
  BY <1>4, <1>5, <1>6
<1>8. \A k \in 1..n : k \in 0..n /\ k - 1 \in 0..n
  OBVIOUS
<1> QED
  BY <1>4, <1>6, <1>7, <1>8

\* Text t holds w from position p on.
Holds(t, p, w) == \A j \in 1..Len(w) : p + j - 1 \in 1..Len(t) /\ t[p + j - 1] = w[j]

\* What holds two texts in a row holds each of them.
LEMMA HoldsBoth ==
    ASSUME NEW S, NEW t, NEW p \in Nat, NEW a \in Seq(S), NEW b \in Seq(S), Holds(t, p, a \o b)
    PROVE  Holds(t, p, a) /\ Holds(t, p + Len(a), b)
<1>1. /\ Len(a) \in Nat /\ Len(b) \in Nat /\ Len(a \o b) = Len(a) + Len(b)
      /\ \A i \in 1..(Len(a) + Len(b)) : (a \o b)[i] = IF i <= Len(a) THEN a[i] ELSE b[i - Len(a)]
  BY ConcatProperties, LenProperties
<1>2. ASSUME NEW j \in 1..Len(a) PROVE p + j - 1 \in 1..Len(t) /\ t[p + j - 1] = a[j]
  <2>1. j \in 1..(Len(a) + Len(b)) /\ j <= Len(a)
    BY <1>1
  <2> QED
    BY <1>1, <2>1 DEF Holds
<1>3. ASSUME NEW j \in 1..Len(b) PROVE (p + Len(a)) + j - 1 \in 1..Len(t) /\ t[(p + Len(a)) + j - 1] = b[j]
  <2> DEFINE i == Len(a) + j
  <2>1. i \in 1..(Len(a) + Len(b)) /\ ~(i <= Len(a)) /\ i - Len(a) = j /\ p + i - 1 = (p + Len(a)) + j - 1
    BY <1>1
  <2> HIDE DEF i
  <2>2. p + i - 1 \in 1..Len(t) /\ t[p + i - 1] = (a \o b)[i]
    BY <1>1, <2>1 DEF Holds
  <2>3. (a \o b)[i] = b[j]
    BY <1>1, <2>1
  <2> QED
    BY <2>1, <2>2, <2>3
<1> QED
  BY <1>2, <1>3 DEF Holds

\* A text holds each of its parts at its place.
LEMMA HoldsItself == ASSUME NEW S, NEW t \in Seq(S) PROVE Holds(t, 1, t)
<1>1. Len(t) \in Nat
  BY LenProperties
<1>2. \A j \in 1..Len(t) : 1 + j - 1 = j
  BY <1>1
<1> QED
  BY <1>2 DEF Holds

\* A text that holds w has it as the part from p on.
LEMMA PartIs ==
    ASSUME NEW S, NEW t \in Seq(S), NEW p \in Nat, p >= 1, NEW w \in Seq(S), Len(w) > 0, Holds(t, p, w)
    PROVE  SubSeq(t, p, (p + Len(w)) - 1) = w
<1> DEFINE m == (p + Len(w)) - 1
           x == SubSeq(t, p, m)
<1>1. Len(w) \in Nat /\ Len(t) \in Nat /\ m \in Nat
  BY LenProperties
<1>2. p + Len(w) - 1 \in 1..Len(t)
  BY <1>1 DEF Holds
<1>3. x \in Seq(S) /\ Len(x) = Len(w) /\ \A i \in 1..Len(w) : x[i] = t[p + i - 1]
  BY <1>1, <1>2, SubSeqProperties
<1>4. \A i \in 1..Len(w) : x[i] = w[i]
  BY <1>3 DEF Holds
<1> HIDE DEF x
<1>5. x = w
  BY <1>3, <1>4, SeqEqual
<1> QED
  BY <1>5 DEF x, m

\* x is o with the first k elements of w behind it.
Extended(x, S, o, w, k) ==
    /\ x \in Seq(S) /\ Len(x) = Len(o) + k /\ \A i \in 1..Len(o) : x[i] = o[i]
    /\ \A j \in 1..k : x[Len(o) + j] = w[j]

\* One more is appended, and all of them make the whole.
LEMMA OneMore ==
    ASSUME NEW S, NEW o \in Seq(S), NEW w \in Seq(S)
    PROVE  /\ Extended(o, S, o, w, 0)
           /\ \A k \in 0..Len(w) : \A x : Extended(x, S, o, w, k) /\ k < Len(w) => Extended(Append(x, w[k + 1]), S, o, w, k + 1)
           /\ \A x : Extended(x, S, o, w, Len(w)) => x = o \o w
<1>1. Len(o) \in Nat /\ Len(w) \in Nat /\ \A j \in 1..Len(w) : w[j] \in S
  BY LenProperties, ElementOfSeq
<1>2. Extended(o, S, o, w, 0)
  BY <1>1 DEF Extended
<1>3. ASSUME NEW k \in 0..Len(w), NEW x, Extended(x, S, o, w, k), k < Len(w)
      PROVE  Extended(Append(x, w[k + 1]), S, o, w, k + 1)
  <2> DEFINE e == w[k + 1]
             y == Append(x, e)
  <2>1. k + 1 \in 1..Len(w) /\ e \in S /\ x \in Seq(S) /\ Len(x) = Len(o) + k
    BY <1>1, <1>3 DEF Extended
  <2> HIDE DEF e
  <2>2. y \in Seq(S) /\ Len(y) = Len(x) + 1 /\ (\A i \in 1..Len(x) : y[i] = x[i]) /\ y[Len(x) + 1] = e
    BY <2>1, AppendProperties
  <2> HIDE DEF y
  <2>3. ASSUME NEW i \in 1..Len(o) PROVE y[i] = o[i]
    BY <1>1, <1>3, <2>1, <2>2 DEF Extended
  <2>4. ASSUME NEW j \in 1..(k + 1) PROVE y[Len(o) + j] = w[j]
    <3>1. CASE j = k + 1
      BY <1>1, <2>1, <2>2, <3>1 DEF e
    <3>2. CASE j # k + 1
      <4>1. j \in 1..k /\ Len(o) + j \in 1..Len(x)
        BY <1>1, <2>1, <3>2
      <4> QED
        BY <1>3, <2>2, <4>1 DEF Extended
    <3> QED
      BY <3>1, <3>2
  <2>5. Extended(y, S, o, w, k + 1)
    BY <1>1, <2>1, <2>2, <2>3, <2>4 DEF Extended
  <2> QED
    BY <2>5 DEF y, e
<1>4. ASSUME NEW x, Extended(x, S, o, w, Len(w)) PROVE x = o \o w
  <2> DEFINE y == o \o w
  <2>1. /\ y \in Seq(S) /\ Len(y) = Len(o) + Len(w)
        /\ \A i \in 1..(Len(o) + Len(w)) : y[i] = IF i <= Len(o) THEN o[i] ELSE w[i - Len(o)]
    BY ConcatProperties
  <2> HIDE DEF y
  <2>2. x \in Seq(S) /\ Len(x) = Len(o) + Len(w)
    BY <1>4 DEF Extended
  <2>3. ASSUME NEW i \in 1..Len(x) PROVE x[i] = y[i]
    <3>1. CASE i <= Len(o)
      BY <1>1, <1>4, <2>1, <2>2, <3>1 DEF Extended
    <3>2. CASE ~(i <= Len(o))
      <4>1. PICK j \in 1..Len(w) : i = Len(o) + j
        <5>1. i - Len(o) \in 1..Len(w) /\ i = Len(o) + (i - Len(o))
          BY <1>1, <2>2, <3>2
        <5> QED
          BY <5>1
      <4>2. x[i] = w[j]
        BY <1>4, <4>1 DEF Extended
      <4>3. y[i] = w[i - Len(o)] /\ i - Len(o) = j
        BY <1>1, <2>1, <2>2, <3>2, <4>1
      <4> QED
        BY <4>2, <4>3
    <3> QED
      BY <3>1, <3>2
  <2>4. x = y
    BY <2>1, <2>2, <2>3, SeqEqual
  <2> QED
    BY <2>4 DEF y
<1> QED
  BY <1>2, <1>3, <1>4
=============================================================================
