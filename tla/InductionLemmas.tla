--------------------------- MODULE InductionLemmas ---------------------------
(***************************************************************************)
(* Induction over naturals for the proof modules.  The library's induction   *)
(* theorems take a predicate as a parameter; here a predicate is a set, and  *)
(* induction is the least element that is missing from it.  The same for the  *)
(* subsets of a finite set, and what sums over such a set do.                 *)
(***************************************************************************)
EXTENDS Integers, FiniteSets, FiniteSetTheorems, WellFoundedInduction, TLAPS

LEMMA LeastNat ==
  ASSUME NEW T, T \subseteq Nat, T # {}
  PROVE  \E x \in T : \A y \in T : x <= y
<1> DEFINE R == OpToRel(<, Nat)
<1>1. IsWellFoundedOn(R, Nat)
  BY NatLessThanWellFounded
<1>2. \A x, y \in Nat : x < y => <<x, y>> \in R
  BY DEF OpToRel
<1> HIDE DEF R
<1>3. PICK x \in T : \A y \in T : ~(<<y, x>> \in R)
  BY <1>1, WFMin
<1>4. ASSUME NEW y \in T PROVE x <= y
  <2>1. x \in Nat /\ y \in Nat /\ ~(y < x)
    BY <1>2, <1>3
  <2> QED BY <2>1
<1> QED BY <1>3, <1>4

(* A set of naturals with 0 in it that is closed under successor up to a bound. *)
LEMMA Reaches ==
  ASSUME NEW k \in Nat, NEW T, 0 \in T, \A n \in 0..k - 1 : n \in T => n + 1 \in T
  PROVE  \A n \in 0..k : n \in T
<1> DEFINE missing == {n \in 0..k : n \notin T}
<1>1. SUFFICES missing # {} => FALSE
  OBVIOUS
<1>2. SUFFICES ASSUME missing # {} PROVE FALSE
  BY <1>1
<1>3. missing \subseteq Nat
  OBVIOUS
<1>4. PICK x \in missing : \A y \in missing : x <= y
  BY <1>2, <1>3, LeastNat
<1>5. x \in 1..k
  BY <1>4
<1>6. PICK w \in 0..k - 1 : x = w + 1
  <2>1. x - 1 \in 0..k - 1 /\ x = (x - 1) + 1
    BY <1>5
  <2> QED BY <2>1
<1>7. w \in T
  BY <1>4, <1>6
<1>8. w + 1 \in T
  BY <1>6, <1>7
<1> QED BY <1>4, <1>6, <1>8

(* A recursion of k steps from a, each of which may depend on its number; they    *)
(* exist, so a recursive function is what its definition says.                   *)
IsRecursion(w, k, S, a, G) ==
  w \in [0..k -> S] /\ w[0] = a /\ \A n \in 1..k : w[n] = G[<<n, w[n - 1]>>]

LEMMA RecursionExists ==
  ASSUME NEW k \in Nat, NEW S, NEW a \in S, NEW G \in [(1..k) \X S -> S]
  PROVE  \E w : IsRecursion(w, k, S, a, G)
<1> DEFINE W(n) == {w \in [0..n -> S] : w[0] = a /\ \A m \in 1..n : w[m] = G[<<m, w[m - 1]>>]}
           T == {n \in Nat : W(n) # {}}
<1>1. 0 \in T
  <2>1. [n \in 0..0 |-> a] \in W(0)
    OBVIOUS
  <2> QED BY <2>1
<1>2. ASSUME NEW n \in 0..k - 1, n \in T PROVE n + 1 \in T
  <2>1. PICK w \in W(n) : TRUE
    BY <1>2
  <2> DEFINE v == [m \in 0..n + 1 |-> IF m = n + 1 THEN G[<<n + 1, w[n]>>] ELSE w[m]]
  <2>2. n \in Nat /\ w \in [0..n -> S] /\ w[n] \in S /\ <<n + 1, w[n]>> \in (1..k) \X S
    BY <2>1
  <2>a. G[<<n + 1, w[n]>>] \in S
    BY <2>2
  <2>3. v \in [0..n + 1 -> S]
    BY <2>2, <2>a
  <2>4. v[0] = a
    BY <2>1, <2>2
  <2>5. ASSUME NEW m \in 1..n + 1 PROVE v[m] = G[<<m, v[m - 1]>>]
    <3>1. CASE m = n + 1
      <4>1. m - 1 = n /\ n \in 0..n + 1 /\ m \in 0..n + 1 /\ n # n + 1
        BY <2>2, <3>1
      <4> QED BY <3>1, <4>1
    <3>2. CASE m # n + 1
      <4>1. m \in 1..n /\ m - 1 \in 0..n + 1 /\ m - 1 # n + 1 /\ m \in 0..n + 1
        BY <2>2, <3>2
      <4> QED BY <2>1, <3>2, <4>1
    <3> QED BY <3>1, <3>2
  <2>6. v \in W(n + 1)
    BY <2>3, <2>4, <2>5
  <2>7. n + 1 \in Nat
    BY <2>2
  <2> HIDE DEF v, W
  <2> QED BY <2>6, <2>7
<1>3. k \in T
  <2> HIDE DEF T
  <2>1. \A n \in 0..k : n \in T
    BY <1>1, <1>2, Reaches
  <2> QED BY <2>1
<1> QED BY <1>3 DEF IsRecursion

(* A walk: every step follows the same map. *)
IsWalk(w, k, S, a, G) == w \in [0..k -> S] /\ w[0] = a /\ \A n \in 1..k : w[n] = G[w[n - 1]]

LEMMA WalkExists ==
  ASSUME NEW k \in Nat, NEW S, NEW a \in S, NEW G \in [S -> S]
  PROVE  \E w : IsWalk(w, k, S, a, G)
<1> DEFINE H == [p \in (1..k) \X S |-> G[p[2]]]
<1>1. H \in [(1..k) \X S -> S]
  OBVIOUS
<1>2. \A n \in 1..k, x \in S : H[<<n, x>>] = G[x]
  OBVIOUS
<1> HIDE DEF H
<1>3. PICK w : IsRecursion(w, k, S, a, H)
  BY <1>1, RecursionExists
<1>4. ASSUME NEW n \in 1..k PROVE w[n] = G[w[n - 1]]
  <2>1. w[n - 1] \in S
    BY <1>3 DEF IsRecursion
  <2> QED BY <1>2, <1>3, <2>1 DEF IsRecursion
<1> QED BY <1>3, <1>4 DEF IsRecursion, IsWalk
-----------------------------------------------------------------------------
(* Sums over finite sets, as MapThenSumSet computes them: one element after     *)
(* another is chosen and removed.                                                *)
Chosen(s) == CHOOSE x \in s : TRUE

LEMMA ChosenRemoved ==
  ASSUME NEW S, IsFiniteSet(S), NEW s \in SUBSET S, s # {}
  PROVE  /\ Chosen(s) \in s /\ s \ {Chosen(s)} \in SUBSET S
         /\ Cardinality(s) \in Nat /\ Cardinality(s \ {Chosen(s)}) = Cardinality(s) - 1
<1>1. Chosen(s) \in s
  BY DEF Chosen
<1>2. IsFiniteSet(s)
  BY FS_Subset
<1>3. Cardinality(s) \in Nat
  BY <1>2, FS_CardinalityType
<1> QED BY <1>1, <1>2, <1>3, FS_RemoveElement

(* A property of subsets that survives the addition of a chosen element. *)
LEMMA SubsetsReached ==
  ASSUME NEW S, IsFiniteSet(S), NEW T, {} \in T,
         \A s \in SUBSET S : s # {} /\ s \ {Chosen(s)} \in T => s \in T
  PROVE  \A s \in SUBSET S : s \in T
<1> DEFINE sizes == {n \in Nat : \E s \in SUBSET S : Cardinality(s) = n /\ s \notin T}
<1>1. SUFFICES sizes = {}
  <2>1. \A s \in SUBSET S : Cardinality(s) \in Nat
    BY FS_Subset, FS_CardinalityType
  <2> QED BY <2>1
<1>2. SUFFICES ASSUME sizes # {} PROVE FALSE
  OBVIOUS
<1>3. PICK n \in sizes : \A m \in sizes : n <= m
  BY <1>2, LeastNat
<1>4. PICK s \in SUBSET S : Cardinality(s) = n /\ s \notin T
  BY <1>3
<1>5. s # {}
  BY <1>4
<1>6. /\ s \ {Chosen(s)} \in SUBSET S /\ Cardinality(s) \in Nat
      /\ Cardinality(s \ {Chosen(s)}) = Cardinality(s) - 1 /\ Chosen(s) \in s
  BY <1>5, ChosenRemoved
<1>7. s \ {Chosen(s)} \notin T
  BY <1>4, <1>5
<1>8. n - 1 \in Nat
  <2>1. IsFiniteSet(s \ {Chosen(s)})
    BY <1>6, FS_Subset
  <2> QED BY <1>4, <1>6, <2>1, FS_CardinalityType
<1>9. n - 1 \in sizes
  BY <1>4, <1>6, <1>7, <1>8
<1> QED BY <1>3, <1>8, <1>9

IsSum(w, f, S) ==
  w = [s \in SUBSET S |-> IF s = {} THEN 0 ELSE f[Chosen(s)] + w[s \ {Chosen(s)}]]

LEMMA SumExists ==
  ASSUME NEW S, IsFiniteSet(S), NEW f \in [S -> Nat]
  PROVE  \E w : IsSum(w, f, S)
<1> DEFINE F == [SUBSET S -> Nat]
           Turn(h) == [s \in SUBSET S |-> IF s = {} THEN 0 ELSE f[Chosen(s)] + h[s \ {Chosen(s)}]]
           zero == [s \in SUBSET S |-> 0]
           G == [h \in F |-> Turn(h)]
           N == Cardinality(S)
<1>1. N \in Nat
  BY FS_CardinalityType
<1>2. ASSUME NEW h \in F PROVE Turn(h) \in F
  <2>1. ASSUME NEW s \in SUBSET S, s # {} PROVE f[Chosen(s)] + h[s \ {Chosen(s)}] \in Nat
    <3>1. Chosen(s) \in S /\ s \ {Chosen(s)} \in SUBSET S
      BY <2>1, ChosenRemoved
    <3> QED BY <3>1
  <2> QED BY <2>1
<1>3. G \in [F -> F]
  BY <1>2
<1>4. zero \in F
  OBVIOUS
<1>g. \A h \in F : G[h] = Turn(h)
  OBVIOUS
<1> HIDE DEF F, zero, G
<1>5. PICK w : IsWalk(w, N + 1, F, zero, G)
  BY <1>1, <1>3, <1>4, WalkExists
<1>6. \A n \in 1..N + 1 : w[n] = Turn(w[n - 1])
  <2> TAKE n \in 1..N + 1
  <2>1. w[n - 1] \in F
    BY <1>1, <1>5 DEF IsWalk
  <2> QED BY <1>5, <1>g, <2>1 DEF IsWalk
<1> DEFINE Settled == {s \in SUBSET S :
                         \A n \in 1..N : Cardinality(s) < n => w[n + 1][s] = w[n][s]}
<1>7. \A s \in SUBSET S : s \in Settled
  <2>1. {} \in Settled
    <3>1. \A n \in 1..N + 1 : w[n][{}] = 0
      BY <1>6
    <3> QED BY <1>1, <3>1
  <2>2. ASSUME NEW s \in SUBSET S, s # {}, s \ {Chosen(s)} \in Settled PROVE s \in Settled
    <3> SUFFICES ASSUME NEW n \in 1..N, Cardinality(s) < n PROVE w[n + 1][s] = w[n][s]
      OBVIOUS
    <3>1. /\ Cardinality(s) \in Nat /\ Cardinality(s \ {Chosen(s)}) = Cardinality(s) - 1
          /\ Cardinality(s \ {Chosen(s)}) \in Nat
      <4>1. s \ {Chosen(s)} \in SUBSET S
        OBVIOUS
      <4>2. IsFiniteSet(s \ {Chosen(s)})
        BY <4>1, FS_Subset
      <4>3. Cardinality(s \ {Chosen(s)}) \in Nat
        BY <4>2, FS_CardinalityType
      <4> QED BY <2>2, <4>3, ChosenRemoved
    <3>2. n - 1 \in 1..N /\ Cardinality(s \ {Chosen(s)}) < n - 1
      BY <1>1, <3>1
    <3>3. w[(n - 1) + 1][s \ {Chosen(s)}] = w[n - 1][s \ {Chosen(s)}]
      BY <2>2, <3>2
    <3>4. (n - 1) + 1 = n /\ (n + 1) - 1 = n /\ n \in 1..N + 1 /\ n + 1 \in 1..N + 1
      BY <1>1
    <3>5. w[n][s \ {Chosen(s)}] = w[n - 1][s \ {Chosen(s)}]
      BY <3>3, <3>4
    <3>6. w[n][s] = f[Chosen(s)] + w[n - 1][s \ {Chosen(s)}]
      BY <1>6, <2>2, <3>4
    <3>7. w[n + 1][s] = f[Chosen(s)] + w[n][s \ {Chosen(s)}]
      <4>1. w[n + 1] = Turn(w[(n + 1) - 1])
        BY <1>6, <3>4, Zenon
      <4>2. w[n + 1] = Turn(w[n])
        BY <3>4, <4>1, Zenon
      <4> QED BY <2>2, <4>2
    <3> QED BY <3>5, <3>6, <3>7
  <2> HIDE DEF Settled
  <2> QED BY <2>1, <2>2, SubsetsReached
<1>8. IsSum(w[N + 1], f, S)
  <2>1. ASSUME NEW s \in SUBSET S, s # {}
        PROVE  w[N][s \ {Chosen(s)}] = w[N + 1][s \ {Chosen(s)}]
    <3>1. /\ Cardinality(s \ {Chosen(s)}) < Cardinality(s) /\ s \ {Chosen(s)} \in SUBSET S
          /\ Cardinality(s) <= N /\ Cardinality(s \ {Chosen(s)}) \in Nat /\ Cardinality(s) \in Nat
      <4>1. s \ {Chosen(s)} \in SUBSET S
        OBVIOUS
      <4>2. IsFiniteSet(s \ {Chosen(s)}) /\ Cardinality(s) <= N
        BY <4>1, FS_Subset
      <4>3. Cardinality(s \ {Chosen(s)}) \in Nat
        BY <4>2, FS_CardinalityType
      <4>4. Cardinality(s) \in Nat /\ Cardinality(s \ {Chosen(s)}) = Cardinality(s) - 1
        BY <2>1, ChosenRemoved
      <4> QED BY <4>1, <4>2, <4>3, <4>4
    <3>2. N \in 1..N /\ Cardinality(s \ {Chosen(s)}) < N
      BY <1>1, <3>1
    <3>3. s \ {Chosen(s)} \in Settled
      BY <1>7, <3>1
    <3> QED BY <3>2, <3>3
  <2>2. w[N + 1] = Turn(w[N])
    <3>1. N + 1 \in 1..N + 1 /\ (N + 1) - 1 = N
      BY <1>1
    <3> QED BY <1>6, <3>1
  <2>3. Turn(w[N]) = Turn(w[N + 1])
    BY <2>1
  <2>4. w[N + 1] = Turn(w[N + 1])
    BY <2>2, <2>3
  <2> QED BY <2>4 DEF IsSum
<1> QED BY <1>8

LEMMA SumUnfolds ==
  ASSUME NEW S, IsFiniteSet(S), NEW f \in [S -> Nat], NEW w, IsSum(w, f, S)
  PROVE  /\ w[{}] = 0
         /\ \A s \in SUBSET S : s # {} => w[s] = f[Chosen(s)] + w[s \ {Chosen(s)}]
         /\ \A s \in SUBSET S : w[s] \in Nat
<1>1. w[{}] = 0
  BY DEF IsSum
<1>2. ASSUME NEW s \in SUBSET S, s # {} PROVE w[s] = f[Chosen(s)] + w[s \ {Chosen(s)}]
  BY <1>2 DEF IsSum
<1> DEFINE T == {s \in SUBSET S : w[s] \in Nat}
<1>3. {} \in T
  BY <1>1
<1>4. ASSUME NEW s \in SUBSET S, s # {}, s \ {Chosen(s)} \in T PROVE s \in T
  <2>1. Chosen(s) \in S
    BY <1>4, ChosenRemoved
  <2> QED BY <1>2, <1>4, <2>1
<1> HIDE DEF T
<1>5. \A s \in SUBSET S : s \in T
  BY <1>3, <1>4, SubsetsReached
<1> QED BY <1>1, <1>2, <1>5 DEF T

(* One summand grows. *)
Raised(f, g, S, x, d) ==
  /\ f \in [S -> Nat] /\ g \in [S -> Nat] /\ x \in S /\ d \in Nat
  /\ g[x] = f[x] + d /\ \A y \in S : y # x => g[y] = f[y]

LEMMA SumGrows ==
  ASSUME NEW S, IsFiniteSet(S), NEW f, NEW g, NEW x, NEW d, Raised(f, g, S, x, d),
         NEW w, IsSum(w, f, S), NEW v, IsSum(v, g, S)
  PROVE  v[S] = w[S] + d
<1> USE DEF Raised
<1> DEFINE T == {s \in SUBSET S : v[s] = w[s] + (IF x \in s THEN d ELSE 0)}
<1>u. \A s \in SUBSET S : w[s] \in Nat /\ v[s] \in Nat
  BY SumUnfolds
<1>1. {} \in T
  BY SumUnfolds
<1>2. ASSUME NEW s \in SUBSET S, s # {}, s \ {Chosen(s)} \in T PROVE s \in T
  <2>1. Chosen(s) \in s
    BY <1>2, ChosenRemoved
  <2>2. w[s] = f[Chosen(s)] + w[s \ {Chosen(s)}] /\ v[s] = g[Chosen(s)] + v[s \ {Chosen(s)}]
    BY <1>2, SumUnfolds
  <2>3. v[s \ {Chosen(s)}] = w[s \ {Chosen(s)}] + (IF x \in s \ {Chosen(s)} THEN d ELSE 0)
    BY <1>2
  <2>4. s \ {Chosen(s)} \in SUBSET S
    OBVIOUS
  <2>5. w[s \ {Chosen(s)}] \in Nat /\ f[Chosen(s)] \in Nat
    BY <1>u, <2>1, <2>4
  <2>6. CASE Chosen(s) = x
    BY <2>1, <2>2, <2>3, <2>5, <2>6
  <2>7. CASE Chosen(s) # x
    BY <2>1, <2>2, <2>3, <2>5, <2>7
  <2> QED BY <2>6, <2>7
<1> HIDE DEF T
<1>3. \A s \in SUBSET S : s \in T
  BY <1>1, <1>2, SubsetsReached
<1>4. S \in T
  BY <1>3
<1> QED BY <1>4 DEF T

LEMMA SumOfZeros ==
  ASSUME NEW S, IsFiniteSet(S), NEW f \in [S -> Nat], \A y \in S : f[y] = 0, NEW w, IsSum(w, f, S)
  PROVE  w[S] = 0
<1> DEFINE T == {s \in SUBSET S : w[s] = 0}
<1>1. {} \in T
  BY SumUnfolds
<1>2. ASSUME NEW s \in SUBSET S, s # {}, s \ {Chosen(s)} \in T PROVE s \in T
  <2>1. Chosen(s) \in s
    BY <1>2, ChosenRemoved
  <2>2. w[s] = f[Chosen(s)] + w[s \ {Chosen(s)}]
    BY <1>2, SumUnfolds
  <2> QED BY <1>2, <2>1, <2>2
<1> HIDE DEF T
<1>3. \A s \in SUBSET S : s \in T
  BY <1>1, <1>2, SubsetsReached
<1>4. S \in T
  BY <1>3
<1> QED BY <1>4 DEF T
=============================================================================
