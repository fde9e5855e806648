----------------------------- MODULE DataLemmas -----------------------------
(***************************************************************************)
(* Facts that the proofs of several components need: the least and the     *)
(* greatest of a set of naturals, what the sums of the community modules   *)
(* compute, finite lists in an order, and what records of work, accounts   *)
(* and books of orders and positions keep, whoever holds them.             *)
(* SumFunctionOnSet picks the elements in an unspecified order through a   *)
(* recursive function; the lemmas show that the function exists, that the  *)
(* order does not matter, and how a sum follows its set.                   *)
(*                                                                         *)
(* Each induction is over the strict inclusion of finite sets and goes by  *)
(* a minimal counterexample.                                               *)
(***************************************************************************)
EXTENDS Integers, Sequences, FiniteSets, Functions, FiniteSetTheorems, WellFoundedInduction, TLAPS

-----------------------------------------------------------------------------
(* Extremes and images                                                       *)

\* A set of naturals that is not empty has a least member.
LEMMA LeastNatural ==
  ASSUME NEW S \in SUBSET Nat, S # {}
  PROVE  \E m \in S : \A n \in S : m <= n
<1> DEFINE R == StrictSubsetOrdering(Nat)
           T == {0..n : n \in S}
<1>1. T \subseteq FiniteSubsetsOf(Nat) /\ T # {}
  <2>1. ASSUME NEW n \in S
        PROVE  IsFiniteSet(0..n)
    BY FS_Interval
  <2>2. \A n \in S : 0..n \in FiniteSubsetsOf(Nat)
    BY <2>1 DEF FiniteSubsetsOf
  <2> QED
    BY <2>2
<1>2. PICK t \in T : \A u \in T : ~(<<u, t>> \in R)
  <2> HIDE DEF T, R
  <2>1. IsWellFoundedOn(R, FiniteSubsetsOf(Nat))
    BY FS_StrictSubsetOrderingWellFounded DEF R
  <2> QED
    BY <1>1, <2>1, WFMin
<1>3. PICK m \in S : t = 0..m
  BY <1>2
<1>4. ASSUME NEW n \in S, ~(m <= n)
      PROVE  FALSE
  <2>1. 0..n \in T /\ 0..n \subseteq 0..m
    BY <1>4
  <2>2. m \in 0..m /\ m \notin 0..n
    BY <1>4
  <2>3. <<0..n, t>> \in R
    BY <2>1, <2>2, <1>3 DEF StrictSubsetOrdering
  <2> QED
    BY <2>1, <2>3, <1>2
<1> QED
  BY <1>4

\* One that is bounded has a greatest.
LEMMA GreatestNatural ==
  ASSUME NEW S \in SUBSET Nat, S # {}, NEW b \in Nat, \A n \in S : n <= b
  PROVE  \E m \in S : \A n \in S : n <= m
<1> DEFINE T == {b - n : n \in S}
<1>1. T \subseteq Nat /\ T # {}
  <2>1. \A n \in S : b - n \in Nat
    OBVIOUS
  <2> QED
    BY <2>1
<1>2. PICK t \in T : \A u \in T : t <= u
  <2> HIDE DEF T
  <2> QED
    BY <1>1, LeastNatural
<1>3. PICK m \in S : t = b - m
  BY <1>2
<1>4. ASSUME NEW n \in S PROVE n <= m
  <2>1. b - m <= b - n
    BY <1>2, <1>3
  <2> QED
    BY <2>1
<1> QED
  BY <1>4

\* The image of a finite set is finite and no larger than the set.
LEMMA ImageFinite ==
  ASSUME NEW S, IsFiniteSet(S), NEW T, NEW f \in [S -> T],
         \A t \in T : \E s \in S : f[s] = t
  PROVE  IsFiniteSet(T) /\ Cardinality(T) <= Cardinality(S)
<1>1. f \in Surjection(S, T)
  BY DEF Surjection
<1> QED
  BY <1>1, FS_Surjection

\* What two finite sets cover through a function is no larger than the two.
LEMMA CoveredFinite ==
  ASSUME NEW P, NEW Q, IsFiniteSet(P), IsFiniteSet(Q), NEW n \in Nat,
         Cardinality(P) + Cardinality(Q) <= n,
         NEW f, DOMAIN f = P \cup Q, NEW L, \A x \in L : \E r \in P \cup Q : f[r] = x
  PROVE  IsFiniteSet(L) /\ Cardinality(L) <= n
<1> DEFINE R == P \cup Q
           K == {f[r] : r \in R}
<1>1. L \subseteq K
  OBVIOUS
<1>2. IsFiniteSet(R) /\ Cardinality(R) \in Nat /\ Cardinality(R) <= n
  <2>1. /\ IsFiniteSet(P \cap Q) /\ Cardinality(P \cap Q) \in Nat
        /\ Cardinality(P) \in Nat /\ Cardinality(Q) \in Nat
    BY FS_Subset, FS_CardinalityType
  <2>2. IsFiniteSet(R) /\ Cardinality(R) = Cardinality(P) + Cardinality(Q) - Cardinality(P \cap Q)
    BY FS_Union
  <2> HIDE DEF R
  <2> QED
    BY <2>1, <2>2, FS_CardinalityType
<1>3. IsFiniteSet(K) /\ Cardinality(K) <= Cardinality(R)
  <2> DEFINE g == [r \in R |-> f[r]]
  <2>1. g \in [R -> K] /\ \A k \in K : \E r \in R : g[r] = k
    OBVIOUS
  <2> HIDE DEF K, g, R
  <2> QED
    BY <1>2, <2>1, ImageFinite
<1> HIDE DEF K, R
<1>4. /\ IsFiniteSet(L) /\ Cardinality(L) <= Cardinality(K)
      /\ Cardinality(L) \in Nat /\ Cardinality(K) \in Nat
  BY <1>1, <1>3, FS_Subset, FS_CardinalityType
<1> QED
  BY <1>2, <1>3, <1>4

-----------------------------------------------------------------------------
(* Partial sums                                                              *)

Pick(s) == CHOOSE x \in s : TRUE
\* g holds the partial sums of f over the subsets of S.
PartialSums(g, f, S) ==
  g = [s \in SUBSET S |-> IF s = {} THEN 0 ELSE f[Pick(s)] + g[s \ {Pick(s)}]]
SumsOf(f, S) == CHOOSE g : PartialSums(g, f, S)

\* A set of finite sets has a minimal member.
LEMMA MinimalSet ==
  ASSUME NEW S, IsFiniteSet(S), NEW T, T \subseteq SUBSET S, T # {}
  PROVE  \E U \in T : \A V \in T : V \subseteq U => V = U
<1> DEFINE R == StrictSubsetOrdering(S)
<1>1. IsWellFoundedOn(R, FiniteSubsetsOf(S))
  BY FS_StrictSubsetOrderingWellFounded
<1>2. T \subseteq FiniteSubsetsOf(S)
  <2>1. \A s \in SUBSET S : IsFiniteSet(s)
    BY FS_Subset
  <2> QED
    BY <2>1 DEF FiniteSubsetsOf
<1> HIDE DEF R
<1>3. PICK U \in T : \A V \in T : ~(<<V, U>> \in R)
  BY <1>1, <1>2, WFMin
<1>4. \A V \in T : V \subseteq U /\ V # U => <<V, U>> \in R
  BY DEF R, StrictSubsetOrdering
<1>5. \A V \in T : V \subseteq U => V = U
  BY <1>3, <1>4
<1> QED
  BY <1>5

\* A finite set of numbers that is not empty has a greatest.
LEMMA GreatestFinite ==
  ASSUME NEW S \in SUBSET Int, S # {}, IsFiniteSet(S)
  PROVE  \E m \in S : \A n \in S : n <= m
<1> DEFINE Topped(U) == U = S \/ \E m \in S \ U : \A n \in S \ U : n <= m
           T == {U \in SUBSET S : Topped(U)}
<1>1. S \in T
  OBVIOUS
<1>2. PICK U \in T : \A V \in T : V \subseteq U => V = U
  <2> HIDE DEF Topped
  <2>1. T \subseteq SUBSET S /\ T # {}
    BY <1>1
  <2> HIDE DEF T
  <2>0. PICK V : V = S
    OBVIOUS
  <2>2. IsFiniteSet(V) /\ T \subseteq SUBSET V /\ T # {}
    BY <2>0, <2>1
  <2>3. \E U \in T : \A W \in T : W \subseteq U => W = U
    BY <2>2, MinimalSet
  <2> QED
    BY <2>3
<1>3. U = {}
  <2> SUFFICES ASSUME NEW u \in U PROVE FALSE
    OBVIOUS
  <2>1. u \in S /\ u \in Int
    BY <1>2
  <2>2. U \ {u} \in T
    <3>1. CASE U = S
      <4>1. S \ (U \ {u}) = {u}
        BY <2>1, <3>1
      <4> QED
        BY <2>1, <4>1, <1>2
    <3>2. CASE U # S
      <4>1. PICK m \in S \ U : \A n \in S \ U : n <= m
        BY <1>2, <3>2
      <4>2. m \in Int /\ (m <= u \/ u <= m)
        BY <2>1
      <4>3. \A n \in S \ (U \ {u}) : n \in S \ U \/ n = u
        OBVIOUS
      <4>4. CASE u <= m
        <5>1. \A n \in S \ (U \ {u}) : n <= m
          BY <4>1, <4>3, <4>4
        <5>2. m \in S \ (U \ {u})
          OBVIOUS
        <5> QED
          BY <1>2, <5>1, <5>2
      <4>5. CASE m <= u
        <5>1. \A n \in S \ (U \ {u}) : n <= u
          BY <2>1, <4>1, <4>3, <4>5
        <5>2. u \in S \ (U \ {u})
          BY <2>1
        <5> QED
          BY <1>2, <5>1, <5>2
      <4> QED
        BY <2>1, <4>4, <4>5
    <3> QED
      BY <3>1, <3>2
  <2> QED
    BY <1>2, <2>2
<1>4. S \ U = S
  BY <1>3
<1> QED
  BY <1>2, <1>4

LEMMA PickIn == ASSUME NEW s, s # {} PROVE Pick(s) \in s
BY DEF Pick

\* Two tables of partial sums agree where both are defined.
LEMMA SumsAgree ==
  ASSUME NEW f, NEW S, NEW V, NEW g, NEW h, IsFiniteSet(V), V \subseteq S,
         PartialSums(g, f, S), PartialSums(h, f, V)
  PROVE  \A s \in SUBSET V : g[s] = h[s]
<1> DEFINE T == {s \in SUBSET V : g[s] # h[s]}
<1>1. SUFFICES ASSUME T # {} PROVE FALSE
  OBVIOUS
<1>2. PICK U \in T : \A W \in T : W \subseteq U => W = U
  <2>1. T \subseteq SUBSET V
    OBVIOUS
  <2> HIDE DEF T
  <2> QED
    BY <1>1, <2>1, MinimalSet
<1>3. U \in SUBSET V /\ U \in SUBSET S
  OBVIOUS
<1>4. CASE U = {}
  BY <1>3, <1>4 DEF PartialSums
<1>5. CASE U # {}
  <2> DEFINE W == U \ {Pick(U)}
  <2>1. W \subseteq U /\ W # U
    BY <1>5, PickIn
  <2>2. g[W] = h[W]
    BY <1>2, <1>3, <2>1
  <2>3. g[U] = f[Pick(U)] + g[W] /\ h[U] = f[Pick(U)] + h[W]
    BY <1>3, <1>5 DEF PartialSums
  <2> QED
    BY <2>2, <2>3
<1> QED
  BY <1>4, <1>5

LEMMA SumsExist ==
  ASSUME NEW f, NEW S, IsFiniteSet(S)
  PROVE  PartialSums(SumsOf(f, S), f, S)
<1> DEFINE Defined(V) == \E g : PartialSums(g, f, V)
           T == {V \in SUBSET S : ~Defined(V)}
<1>1. SUFFICES ASSUME T # {} PROVE FALSE
  BY DEF SumsOf
<1>2. PICK U \in T : \A W \in T : W \subseteq U => W = U
  <2>1. T \subseteq SUBSET S
    OBVIOUS
  <2> HIDE DEF T
  <2> QED
    BY <1>1, <2>1, MinimalSet
<1>3. \A V \in SUBSET U : V # U => PartialSums(SumsOf(f, V), f, V) /\ IsFiniteSet(V)
  BY <1>2, FS_Subset DEF SumsOf
<1> DEFINE W == U \ {Pick(U)}
           h == [s \in SUBSET U |-> IF s = {} THEN 0
                                    ELSE IF s = U THEN f[Pick(U)] + SumsOf(f, W)[W]
                                    ELSE SumsOf(f, s)[s]]
<1>4. ASSUME NEW s \in SUBSET U, s # {}
      PROVE  h[s] = f[Pick(s)] + h[s \ {Pick(s)}]
  <2> DEFINE r == s \ {Pick(s)}
  <2>1. r \in SUBSET U /\ r \in SUBSET s /\ r # U /\ r # s
    BY <1>4, PickIn
  <2>2. h[r] = SumsOf(f, r)[r]
    <3>1. CASE r = {}
      <4>1. SumsOf(f, r)[r] = 0
        BY <1>3, <2>1, <3>1 DEF PartialSums
      <4> QED
        BY <3>1, <4>1
    <3>2. CASE r # {}
      BY <2>1, <3>2
    <3> QED
      BY <3>1, <3>2
  <2>3. CASE s = U
    BY <1>4, <2>2, <2>3
  <2>4. CASE s # U
    <3>1. PartialSums(SumsOf(f, s), f, s) /\ PartialSums(SumsOf(f, r), f, r) /\ IsFiniteSet(r)
      BY <1>3, <2>1, <2>4
    <3>2. SumsOf(f, s)[r] = SumsOf(f, r)[r]
      BY <2>1, <3>1, SumsAgree
    <3>3. SumsOf(f, s)[s] = f[Pick(s)] + SumsOf(f, s)[r]
      BY <1>4, <3>1 DEF PartialSums
    <3>4. h[s] = SumsOf(f, s)[s]
      BY <1>4, <2>4
    <3> HIDE DEF h
    <3> QED
      BY <2>2, <3>2, <3>3, <3>4
  <2> QED
    BY <2>3, <2>4
<1>5. h = [s \in SUBSET U |-> IF s = {} THEN 0 ELSE f[Pick(s)] + h[s \ {Pick(s)}]]
  <2>1. \A s \in SUBSET U : h[s] = IF s = {} THEN 0 ELSE f[Pick(s)] + h[s \ {Pick(s)}]
    <3>1. {} \in SUBSET U => h[{}] = 0
      OBVIOUS
    <3> HIDE DEF h
    <3> QED
      BY <1>4, <3>1
  <2>2. h = [s \in SUBSET U |-> h[s]]
    OBVIOUS
  <2> HIDE DEF h
  <2> QED
    BY <2>1, <2>2
<1>6. PartialSums(h, f, U)
  <2> HIDE DEF h
  <2> QED
    BY <1>5 DEF PartialSums
<1> QED
  BY <1>2, <1>6

-----------------------------------------------------------------------------
(* The sum itself                                                            *)

LEMMA SumIsPartial ==
  ASSUME NEW f, NEW S
  PROVE  SumFunctionOnSet(f, S) = SumsOf(f, S)[S]
BY DEF SumFunctionOnSet, FoldFunctionOnSet, MapThenFoldSet, SumsOf, PartialSums, Pick

LEMMA SumEmpty ==
  ASSUME NEW f
  PROVE  SumFunctionOnSet(f, {}) = 0
<1>1. PartialSums(SumsOf(f, {}), f, {})
  BY SumsExist, FS_EmptySet
<1>2. SumsOf(f, {})[{}] = 0
  BY <1>1 DEF PartialSums
<1> QED
  BY <1>2, SumIsPartial

LEMMA SumPick ==
  ASSUME NEW f, NEW S, IsFiniteSet(S), S # {}
  PROVE  SumFunctionOnSet(f, S) = f[Pick(S)] + SumFunctionOnSet(f, S \ {Pick(S)})
<1> DEFINE R == S \ {Pick(S)}
<1>1. PartialSums(SumsOf(f, S), f, S)
  BY SumsExist
<1>2. IsFiniteSet(R) /\ R \subseteq S
  BY FS_Subset
<1>3. PartialSums(SumsOf(f, R), f, R)
  BY <1>2, SumsExist
<1>4. SumsOf(f, S)[R] = SumsOf(f, R)[R]
  BY <1>1, <1>2, <1>3, SumsAgree
<1>5. SumsOf(f, S)[S] = f[Pick(S)] + SumsOf(f, S)[R]
  BY <1>1 DEF PartialSums
<1> QED
  BY <1>4, <1>5, SumIsPartial

\* A sum of integers is an integer.
LEMMA SumTyped ==
  ASSUME NEW f, NEW S, IsFiniteSet(S), \A x \in S : f[x] \in Int
  PROVE  SumFunctionOnSet(f, S) \in Int
<1> DEFINE T == {U \in SUBSET S : SumFunctionOnSet(f, U) \notin Int}
<1>1. ASSUME T # {} PROVE FALSE
  <2>1. PICK U \in T : \A W \in T : W \subseteq U => W = U
    <3>1. T \subseteq SUBSET S
      OBVIOUS
    <3> HIDE DEF T
    <3> QED
      BY <1>1, <3>1, MinimalSet
  <2>2. U \subseteq S /\ IsFiniteSet(U)
    BY FS_Subset
  <2>3. U # {}
    BY SumEmpty
  <2>4. Pick(U) \in U
    BY <2>3, PickIn
  <2>5. SumFunctionOnSet(f, U \ {Pick(U)}) \in Int
    BY <2>1, <2>2, <2>4
  <2>6. SumFunctionOnSet(f, U) = f[Pick(U)] + SumFunctionOnSet(f, U \ {Pick(U)})
    BY <2>2, <2>3, SumPick
  <2>7. f[Pick(U)] \in Int
    BY <2>2, <2>4
  <2> QED
    BY <2>5, <2>6, <2>7
<1> QED
  BY <1>1

\* Any element may be taken out first: the order does not matter.
LEMMA SumRemove ==
  ASSUME NEW f, NEW S, IsFiniteSet(S), \A x \in S : f[x] \in Int
  PROVE  \A x \in S : SumFunctionOnSet(f, S) = f[x] + SumFunctionOnSet(f, S \ {x})
<1> DEFINE Bad(U) == \E x \in U : SumFunctionOnSet(f, U) # f[x] + SumFunctionOnSet(f, U \ {x})
           T == {U \in SUBSET S : Bad(U)}
<1>1. ASSUME T # {} PROVE FALSE
  <2>1. PICK U \in T : \A W \in T : W \subseteq U => W = U
    <3>1. T \subseteq SUBSET S
      OBVIOUS
    <3> HIDE DEF T
    <3> QED
      BY <1>1, <3>1, MinimalSet
  <2>2. U \subseteq S /\ IsFiniteSet(U)
    BY FS_Subset
  <2>3. PICK x \in U : SumFunctionOnSet(f, U) # f[x] + SumFunctionOnSet(f, U \ {x})
    OBVIOUS
  <2> DEFINE p == Pick(U)
             B == (U \ {p}) \ {x}
  <2>4. p \in U /\ U # {}
    BY <2>3, PickIn
  <2>5. SumFunctionOnSet(f, U) = f[p] + SumFunctionOnSet(f, U \ {p})
    BY <2>2, <2>4, SumPick
  <2>6. x # p
    BY <2>3, <2>5
  <2>7. ~Bad(U \ {p}) /\ ~Bad(U \ {x})
    <3>1. ASSUME NEW W, W \subseteq U, W # U PROVE ~Bad(W)
      BY <2>1, <2>2, <3>1
    <3> HIDE DEF Bad
    <3> QED
      BY <2>3, <2>4, <3>1
  <2>8. SumFunctionOnSet(f, U \ {p}) = f[x] + SumFunctionOnSet(f, B)
    BY <2>3, <2>6, <2>7
  <2>9. SumFunctionOnSet(f, U \ {x}) = f[p] + SumFunctionOnSet(f, B)
    <3>1. (U \ {x}) \ {p} = B
      OBVIOUS
    <3> QED
      BY <2>4, <2>6, <2>7, <3>1
  <2>10. f[p] \in Int /\ f[x] \in Int /\ SumFunctionOnSet(f, B) \in Int
    BY <2>2, <2>3, <2>4, FS_Subset, SumTyped
  <2> QED
    BY <2>3, <2>5, <2>8, <2>9, <2>10
<1> QED
  BY <1>1

LEMMA SumAdd ==
  ASSUME NEW f, NEW S, IsFiniteSet(S), NEW x, x \notin S, \A y \in S \cup {x} : f[y] \in Int
  PROVE  SumFunctionOnSet(f, S \cup {x}) = f[x] + SumFunctionOnSet(f, S)
<1>1. (S \cup {x}) \ {x} = S
  OBVIOUS
<1>2. IsFiniteSet(S \cup {x})
  BY FS_AddElement
<1> QED
  BY <1>1, <1>2, SumRemove

LEMMA SumOne ==
  ASSUME NEW f, NEW x, f[x] \in Int
  PROVE  SumFunctionOnSet(f, {x}) = f[x]
<1> DEFINE none == {}
<1>1. /\ IsFiniteSet(none) /\ x \notin none /\ \A y \in none \cup {x} : f[y] \in Int
      /\ none \cup {x} = {x} /\ SumFunctionOnSet(f, none) = 0
  BY FS_EmptySet, SumEmpty
<1> HIDE DEF none
<1>2. SumFunctionOnSet(f, none \cup {x}) = f[x] + SumFunctionOnSet(f, none)
  BY <1>1, SumAdd
<1>3. SumFunctionOnSet(f, none \cup {x}) = SumFunctionOnSet(f, {x})
  BY <1>1, Zenon
<1>4. f[x] + SumFunctionOnSet(f, none) = f[x]
  BY <1>1
<1> QED
  BY <1>2, <1>3, <1>4, Zenon

\* Only the values on the set count.
LEMMA SumSame ==
  ASSUME NEW f, NEW g, NEW S, IsFiniteSet(S), \A x \in S : f[x] = g[x]
  PROVE  SumFunctionOnSet(f, S) = SumFunctionOnSet(g, S)
<1> DEFINE T == {U \in SUBSET S : SumFunctionOnSet(f, U) # SumFunctionOnSet(g, U)}
<1>1. ASSUME T # {} PROVE FALSE
  <2>1. PICK U \in T : \A W \in T : W \subseteq U => W = U
    <3>1. T \subseteq SUBSET S
      OBVIOUS
    <3> HIDE DEF T
    <3> QED
      BY <1>1, <3>1, MinimalSet
  <2>2. U \subseteq S /\ IsFiniteSet(U)
    BY FS_Subset
  <2>3. U # {}
    BY SumEmpty
  <2>4. Pick(U) \in U
    BY <2>3, PickIn
  <2>5. SumFunctionOnSet(f, U \ {Pick(U)}) = SumFunctionOnSet(g, U \ {Pick(U)})
    BY <2>1, <2>2, <2>4
  <2>6. /\ SumFunctionOnSet(f, U) = f[Pick(U)] + SumFunctionOnSet(f, U \ {Pick(U)})
        /\ SumFunctionOnSet(g, U) = g[Pick(U)] + SumFunctionOnSet(g, U \ {Pick(U)})
    BY <2>2, <2>3, SumPick
  <2> QED
    BY <2>2, <2>4, <2>5, <2>6
<1> QED
  BY <1>1

\* The sum over two sets that share nothing.
LEMMA SumUnion ==
  ASSUME NEW f, NEW A, NEW B, IsFiniteSet(A), IsFiniteSet(B), A \cap B = {},
         \A x \in A \cup B : f[x] \in Int
  PROVE  SumFunctionOnSet(f, A \cup B) = SumFunctionOnSet(f, A) + SumFunctionOnSet(f, B)
<1> DEFINE Adds(U) == SumFunctionOnSet(f, A \cup U) = SumFunctionOnSet(f, A) + SumFunctionOnSet(f, U)
           T == {U \in SUBSET B : ~Adds(U)}
<1>1. ASSUME T # {} PROVE FALSE
  <2>1. PICK U \in T : \A W \in T : W \subseteq U => W = U
    <3>1. T \subseteq SUBSET B
      OBVIOUS
    <3> HIDE DEF T
    <3> QED
      BY <1>1, <3>1, MinimalSet
  <2>2. U \subseteq B /\ IsFiniteSet(U)
    BY FS_Subset
  <2>3. SumFunctionOnSet(f, A) \in Int /\ SumFunctionOnSet(f, {}) = 0
    BY SumTyped, SumEmpty
  <2>4. U # {}
    <3>1. Adds({})
      BY <2>3
    <3> QED
      BY <3>1
  <2> DEFINE x == Pick(U)
             V == U \ {x}
  <2>5. x \in U
    BY <2>4, PickIn
  <2>6. Adds(V)
    BY <2>1, <2>2, <2>5
  <2>7. SumFunctionOnSet(f, U) = f[x] + SumFunctionOnSet(f, V)
    BY <2>2, <2>4, SumPick
  <2>8. SumFunctionOnSet(f, A \cup U) = f[x] + SumFunctionOnSet(f, A \cup V)
    <3>1. A \cup U = (A \cup V) \cup {x} /\ x \notin A \cup V
      BY <2>2, <2>5
    <3>2. IsFiniteSet(A \cup V)
      BY <2>2, FS_Subset, FS_Union
    <3> QED
      BY <2>2, <2>5, <3>1, <3>2, SumAdd
  <2>9. f[x] \in Int /\ SumFunctionOnSet(f, V) \in Int
    <3>1. IsFiniteSet(V) /\ \A y \in V : f[y] \in Int
      BY <2>2, FS_Subset
    <3> QED
      BY <2>2, <2>5, <3>1, SumTyped
  <2> QED
    BY <2>1, <2>3, <2>6, <2>7, <2>8, <2>9
<1> QED
  BY <1>1

\* Summed term by term.
LEMMA SumPlus ==
  ASSUME NEW f, NEW g, NEW h, NEW S, IsFiniteSet(S),
         \A x \in S : f[x] \in Int /\ g[x] \in Int /\ h[x] = f[x] + g[x]
  PROVE  SumFunctionOnSet(h, S) = SumFunctionOnSet(f, S) + SumFunctionOnSet(g, S)
<1> DEFINE Adds(U) == SumFunctionOnSet(h, U) = SumFunctionOnSet(f, U) + SumFunctionOnSet(g, U)
           T == {U \in SUBSET S : ~Adds(U)}
<1>1. ASSUME T # {} PROVE FALSE
  <2>1. PICK U \in T : \A W \in T : W \subseteq U => W = U
    <3>1. T \subseteq SUBSET S
      OBVIOUS
    <3> HIDE DEF T
    <3> QED
      BY <1>1, <3>1, MinimalSet
  <2>2. U \subseteq S /\ IsFiniteSet(U)
    BY FS_Subset
  <2>3. U # {}
    <3>1. Adds({})
      BY SumEmpty
    <3> QED
      BY <3>1
  <2> DEFINE x == Pick(U)
             V == U \ {x}
  <2>4. x \in U
    BY <2>3, PickIn
  <2>5. Adds(V)
    BY <2>1, <2>2, <2>4
  <2>6. /\ SumFunctionOnSet(f, U) = f[x] + SumFunctionOnSet(f, V)
        /\ SumFunctionOnSet(g, U) = g[x] + SumFunctionOnSet(g, V)
        /\ SumFunctionOnSet(h, U) = h[x] + SumFunctionOnSet(h, V)
    BY <2>2, <2>3, SumPick
  <2>7. f[x] \in Int /\ g[x] \in Int /\ h[x] = f[x] + g[x]
    BY <2>2, <2>4
  <2>8. SumFunctionOnSet(f, V) \in Int /\ SumFunctionOnSet(g, V) \in Int
    <3>1. IsFiniteSet(V) /\ \A y \in V : f[y] \in Int /\ g[y] \in Int
      BY <2>2, FS_Subset
    <3> QED
      BY <3>1, SumTyped
  <2> QED
    BY <2>1, <2>5, <2>6, <2>7, <2>8
<1> QED
  BY <1>1

\* A renaming of the elements does not change the sum.
LEMMA SumImage ==
  ASSUME NEW S, IsFiniteSet(S), NEW g, NEW f, NEW h,
         \A x, y \in S : g[x] = g[y] => x = y,
         \A x \in S : h[x] = f[g[x]] /\ h[x] \in Int
  PROVE  SumFunctionOnSet(f, {g[x] : x \in S}) = SumFunctionOnSet(h, S)
<1> DEFINE Same(U) == SumFunctionOnSet(f, {g[x] : x \in U}) = SumFunctionOnSet(h, U)
           T == {U \in SUBSET S : ~Same(U)}
<1>1. ASSUME T # {} PROVE FALSE
  <2>1. PICK U \in T : \A W \in T : W \subseteq U => W = U
    <3>1. T \subseteq SUBSET S
      OBVIOUS
    <3> HIDE DEF T
    <3> QED
      BY <1>1, <3>1, MinimalSet
  <2>2. U \subseteq S /\ IsFiniteSet(U)
    BY FS_Subset
  <2>3. U # {}
    <3>1. {g[x] : x \in {}} = {}
      OBVIOUS
    <3> QED
      BY <3>1, SumEmpty
  <2> DEFINE p == Pick(U)
             V == U \ {p}
             I == {g[x] : x \in V}
  <2>4. p \in U
    BY <2>3, PickIn
  <2>5. Same(V)
    BY <2>1, <2>2, <2>4
  <2>6. SumFunctionOnSet(h, U) = h[p] + SumFunctionOnSet(h, V)
    BY <2>2, <2>3, SumPick
  <2>7. {g[x] : x \in U} = I \cup {g[p]} /\ g[p] \notin I
    BY <2>2, <2>4
  <2>8. IsFiniteSet(I)
    <3>1. IsFiniteSet(V)
      BY <2>2, FS_Subset
    <3> DEFINE G == [x \in V |-> g[x]]
    <3>2. G \in Surjection(V, I)
      BY DEF Surjection
    <3> HIDE DEF G, V, I
    <3> QED
      BY <3>1, <3>2, FS_Surjection
  <2>9. \A y \in I \cup {g[p]} : f[y] \in Int
    BY <2>2, <2>4
  <2>10. SumFunctionOnSet(f, I \cup {g[p]}) = f[g[p]] + SumFunctionOnSet(f, I)
    <3> HIDE DEF I
    <3> QED
      BY <2>7, <2>8, <2>9, SumAdd
  <2> QED
    BY <2>1, <2>2, <2>4, <2>5, <2>6, <2>7, <2>10
<1> QED
  BY <1>1
\* No term is negative, so the sum is not.
LEMMA SumNatural ==
  ASSUME NEW f, NEW S, IsFiniteSet(S), \A x \in S : f[x] \in Nat
  PROVE  SumFunctionOnSet(f, S) \in Nat
<1> DEFINE T == {U \in SUBSET S : SumFunctionOnSet(f, U) \notin Nat}
<1>1. ASSUME T # {} PROVE FALSE
  <2>1. PICK U \in T : \A W \in T : W \subseteq U => W = U
    <3>1. T \subseteq SUBSET S
      OBVIOUS
    <3> HIDE DEF T
    <3> QED
      BY <1>1, <3>1, MinimalSet
  <2>2. U \subseteq S /\ IsFiniteSet(U)
    BY FS_Subset
  <2>3. U # {}
    BY SumEmpty
  <2>4. Pick(U) \in U
    BY <2>3, PickIn
  <2>5. SumFunctionOnSet(f, U \ {Pick(U)}) \in Nat
    BY <2>1, <2>2, <2>4
  <2>6. SumFunctionOnSet(f, U) = f[Pick(U)] + SumFunctionOnSet(f, U \ {Pick(U)})
    BY <2>2, <2>3, SumPick
  <2>7. f[Pick(U)] \in Nat
    BY <2>2, <2>4
  <2> QED
    BY <2>5, <2>6, <2>7
<1> QED
  BY <1>1

-----------------------------------------------------------------------------
(* Records and quotients                                                     *)

\* The parts of a sync's record, whatever their types.
LEMMA RecordParts ==
  ASSUME NEW x, x = [pc |-> x.pc, replace |-> x.replace, payload |-> x.payload], NEW at, NEW y
  PROVE  /\ [x EXCEPT !.pc = at, !.payload = y] = [pc |-> at, replace |-> x.replace, payload |-> y]
         /\ [x EXCEPT !.pc = at, !.replace = y] = [pc |-> at, replace |-> y, payload |-> x.payload]
<1>0. PICK A, B, C : x \in [pc : A, replace : B, payload : C]
  <2>1. x \in [pc : {x.pc}, replace : {x.replace}, payload : {x.payload}]
    OBVIOUS
  <2> QED
    BY <2>1
<1> DEFINE w == [x EXCEPT !.pc = at]
<1>1. w = [pc |-> at, replace |-> x.replace, payload |-> x.payload]
  BY <1>0
<1>2. w \in [pc : {at}, replace : B, payload : C] /\ w.pc = at /\ w.replace = x.replace /\ w.payload = x.payload
  BY <1>0, <1>1
<1>3. /\ [x EXCEPT !.pc = at, !.payload = y] = [w EXCEPT !.payload = y]
      /\ [x EXCEPT !.pc = at, !.replace = y] = [w EXCEPT !.replace = y]
  BY <1>0
<1> HIDE DEF w
<1>4. /\ [w EXCEPT !.payload = y] = [pc |-> w.pc, replace |-> w.replace, payload |-> y]
      /\ [w EXCEPT !.replace = y] = [pc |-> w.pc, replace |-> y, payload |-> w.payload]
  BY <1>2
<1> QED
  BY <1>2, <1>3, <1>4

\* A bucket holds the numbers from its start to the next bucket's.
LEMMA Division ==
  ASSUME NEW a \in Nat, NEW n \in Nat \ {0}
  PROVE  /\ a \div n \in Nat /\ (a \div n) * n <= a /\ a < (a \div n) * n + n
         /\ \A q \in Nat : q * n <= a /\ a < q * n + n => a \div n = q
<1>1. a \div n \in Nat
  OBVIOUS
<1>2. (a \div n) * n <= a /\ a < (a \div n) * n + n
  OBVIOUS
<1>3. ASSUME NEW q \in Nat, q * n <= a, a < q * n + n
      PROVE  a \div n = q
  <2> DEFINE p == a \div n
  <2>1. p \in Nat /\ p * n <= a /\ a < p * n + n
    BY <1>1, <1>2
  <2> HIDE DEF p
  <2>2. ASSUME p < q PROVE FALSE
    <3>1. p + 1 <= q
      BY <2>1, <2>2
    <3>2. (p + 1) * n <= q * n
      BY <2>1, <3>1
    <3>3. (p + 1) * n = p * n + n
      BY <2>1
    <3> QED
      BY <1>3, <2>1, <3>2, <3>3
  <2>3. ASSUME q < p PROVE FALSE
    <3>1. q + 1 <= p
      BY <2>1, <2>3
    <3>2. (q + 1) * n <= p * n
      BY <2>1, <3>1
    <3>3. (q + 1) * n = q * n + n
      BY <2>1
    <3> QED
      BY <1>3, <2>1, <3>2, <3>3
  <2>4. p = q
    BY <2>1, <2>2, <2>3
  <2> QED
    BY <2>4 DEF p
<1> QED
  BY <1>1, <1>2, <1>3

\* Two counts of a record edited (N: the naturals).
LEMMA CountsEdited ==
  ASSUME NEW N,
         NEW s \in [seen : N, inserted : N, updated : N, unchanged : N, deactivated : N],
         NEW a \in N, NEW b \in N
  PROVE  /\ LET new == [s EXCEPT !.seen = a, !.inserted = b]
            IN  /\ new \in [seen : N, inserted : N, updated : N, unchanged : N, deactivated : N]
                /\ new.seen = a /\ new.inserted = b
                /\ new.updated = s.updated /\ new.unchanged = s.unchanged
         /\ LET new == [s EXCEPT !.seen = a, !.updated = b]
            IN  /\ new \in [seen : N, inserted : N, updated : N, unchanged : N, deactivated : N]
                /\ new.seen = a /\ new.updated = b
                /\ new.inserted = s.inserted /\ new.unchanged = s.unchanged
         /\ LET new == [s EXCEPT !.seen = a, !.unchanged = b]
            IN  /\ new \in [seen : N, inserted : N, updated : N, unchanged : N, deactivated : N]
                /\ new.seen = a /\ new.unchanged = b
                /\ new.inserted = s.inserted /\ new.updated = s.updated
         /\ LET new == [s EXCEPT !.deactivated = a]
            IN  /\ new \in [seen : N, inserted : N, updated : N, unchanged : N, deactivated : N]
                /\ new.seen = s.seen /\ new.unchanged = s.unchanged
                /\ new.inserted = s.inserted /\ new.updated = s.updated
OBVIOUS

-----------------------------------------------------------------------------
(* Lists of a finite set in an order                                         *)

StrictOrder(R, S) ==
  /\ \A x \in S : <<x, x>> \notin R
  /\ \A x, y \in S : x # y => <<x, y>> \in R \/ <<y, x>> \in R
  /\ \A x, y, z \in S : <<x, y>> \in R /\ <<y, z>> \in R => <<x, z>> \in R

LastIn(R, S) == \E m \in S : \A x \in S \ {m} : <<x, m>> \in R
Lists(R, S) ==
  \E s \in [1 .. Cardinality(S) -> S] :
    \A j, k \in 1 .. Cardinality(S) : j < k => s[j] # s[k] /\ <<s[j], s[k]>> \in R

LEMMA OrderedSubset ==
  ASSUME NEW R, NEW S, StrictOrder(R, S), NEW U \in SUBSET S
  PROVE  StrictOrder(R, U)
BY DEF StrictOrder

LEMMA LastOfFinite ==
  ASSUME NEW S, IsFiniteSet(S), S # {}, NEW R, StrictOrder(R, S)
  PROVE  LastIn(R, S)
<1> DEFINE T == {U \in SUBSET S : U # {} /\ ~LastIn(R, U)}
<1> SUFFICES ASSUME T # {} PROVE FALSE
  BY DEF T
<1>1. PICK U \in T : \A V \in T : V \subseteq U => V = U
  <2>1. T \subseteq SUBSET S
    OBVIOUS
  <2> HIDE DEF T
  <2> QED
    BY <2>1, MinimalSet
<1>2. U \in SUBSET S /\ U # {} /\ ~LastIn(R, U) /\ StrictOrder(R, U)
  BY <1>1, OrderedSubset
<1>3. PICK u \in U : TRUE
  BY <1>2
<1>4. U \ {u} # {}
  BY <1>2, <1>3 DEF LastIn
<1>5. U \ {u} \notin T
  <2> HIDE DEF T
  <2>1. U \ {u} \subseteq U /\ U \ {u} # U
    BY <1>3
  <2> QED
    BY <1>1, <2>1
<1>6. LastIn(R, U \ {u})
  BY <1>2, <1>4, <1>5
<1>7. PICK m \in U \ {u} : \A x \in (U \ {u}) \ {m} : <<x, m>> \in R
  BY <1>6 DEF LastIn
<1>8. <<m, u>> \in R \/ <<u, m>> \in R
  BY <1>2, <1>3, <1>7 DEF StrictOrder
<1>9. CASE <<u, m>> \in R
  <2>1. \A x \in U \ {m} : <<x, m>> \in R
    BY <1>7, <1>9
  <2> QED
    BY <1>2, <1>7, <2>1 DEF LastIn
<1>10. CASE <<m, u>> \in R
  <2>1. \A x \in U \ {u} : <<x, u>> \in R
    BY <1>2, <1>3, <1>7, <1>10 DEF StrictOrder
  <2> QED
    BY <1>2, <1>3, <2>1 DEF LastIn
<1> QED
  BY <1>8, <1>9, <1>10

LEMMA ListOfFinite ==
  ASSUME NEW S, IsFiniteSet(S), NEW R, StrictOrder(R, S)
  PROVE  Lists(R, S)
<1> DEFINE T == {U \in SUBSET S : ~Lists(R, U)}
<1> SUFFICES ASSUME T # {} PROVE FALSE
  BY DEF T
<1>1. PICK U \in T : \A V \in T : V \subseteq U => V = U
  <2>1. T \subseteq SUBSET S
    OBVIOUS
  <2> HIDE DEF T
  <2> QED
    BY <2>1, MinimalSet
<1>2. U \in SUBSET S /\ ~Lists(R, U) /\ StrictOrder(R, U) /\ IsFiniteSet(U)
  BY <1>1, OrderedSubset, FS_Subset
<1>3. CASE U = {}
  <2>1. Cardinality(U) = 0
    BY <1>3, FS_EmptySet
  <2>2. PICK s : s \in [1 .. 0 -> U]
    <3>1. [j \in 1 .. 0 |-> j] \in [1 .. 0 -> U]
      OBVIOUS
    <3> QED
      BY <3>1
  <2>3. \A j, k \in 1 .. 0 : j < k => s[j] # s[k] /\ <<s[j], s[k]>> \in R
    OBVIOUS
  <2> QED
    BY <1>2, <2>1, <2>2, <2>3 DEF Lists
<1>4. CASE U # {}
  <2>1. PICK m \in U : \A x \in U \ {m} : <<x, m>> \in R
    BY <1>2, <1>4, LastOfFinite DEF LastIn
  <2> DEFINE V == U \ {m}
  <2> HIDE DEF T
  <2>2. Lists(R, V)
    <3>1. V \subseteq U /\ V # U /\ V \in SUBSET S
      BY <1>2, <2>1
    <3> HIDE DEF V
    <3>2. V \notin T
      BY <1>1, <3>1
    <3> QED
      BY <3>1, <3>2 DEF T
  <2>3. PICK n : n = Cardinality(V)
    OBVIOUS
  <2>4. n \in Nat /\ Cardinality(U) = n + 1
    <3>1. IsFiniteSet(V) /\ Cardinality(V) = Cardinality(U) - 1
      BY <1>2, <2>1, FS_RemoveElement
    <3>2. Cardinality(U) \in Nat /\ n \in Nat
      BY <1>2, <2>3, <3>1, FS_CardinalityType
    <3> QED
      BY <2>3, <3>1, <3>2
  <2>5. PICK s \in [1 .. n -> V] :
           \A j, k \in 1 .. n : j < k => s[j] # s[k] /\ <<s[j], s[k]>> \in R
    BY <2>2, <2>3 DEF Lists
  <2> DEFINE t == [j \in 1 .. n + 1 |-> IF j = n + 1 THEN m ELSE s[j]]
  <2>6. \A j \in 1 .. n : t[j] = s[j] /\ s[j] \in U \ {m}
    BY <2>4, <2>5
  <2>7. t[n + 1] = m
    BY <2>4
  <2>8. t \in [1 .. n + 1 -> U]
    BY <2>1, <2>4, <2>6
  <2> HIDE DEF V, t
  <2>9. \A j, k \in 1 .. n + 1 : j < k => t[j] # t[k] /\ <<t[j], t[k]>> \in R
    <3> SUFFICES ASSUME NEW j \in 1 .. n + 1, NEW k \in 1 .. n + 1, j < k
                 PROVE  t[j] # t[k] /\ <<t[j], t[k]>> \in R
      OBVIOUS
    <3>1. j \in 1 .. n
      BY <2>4
    <3>2. CASE k = n + 1
      BY <2>1, <2>6, <2>7, <3>1, <3>2
    <3>3. CASE k # n + 1
      <4>1. k \in 1 .. n
        BY <2>4, <3>3
      <4> QED
        BY <2>5, <2>6, <3>1, <4>1
    <3> QED
      BY <3>2, <3>3
  <2> QED
    BY <1>2, <2>4, <2>8, <2>9 DEF Lists
<1> QED
  BY <1>3, <1>4

-----------------------------------------------------------------------------
(* Items of the radar and the work of an import                              *)

RunKinds == {"live", "backfill"}
RadarItem == [run : Nat, date : Nat, eligible : BOOLEAN, counted : Int]
WorkType ==
  [at : {"idle", "create", "insert", "measure", "hit", "candidate"}, kind : RunKinds,
   dates : Seq(Nat), found : SUBSET Nat, run : Nat, left : SUBSET RadarItem, hit : Nat]

LEMMA ItemFields ==
  ASSUME NEW r, NEW d, NEW b, NEW c, NEW B
  PROVE  LET i == [run |-> r, date |-> d, eligible |-> b, counted |-> c] IN
         /\ i.run = r /\ i.date = d /\ i.eligible = b /\ i.counted = c
         /\ r \in Nat /\ d \in Nat /\ b \in B /\ c \in Int =>
              i \in [run : Nat, date : Nat, eligible : B, counted : Int]
OBVIOUS

LEMMA CountedFields ==
  ASSUME NEW B, NEW i \in [run : Nat, date : Nat, eligible : B, counted : Int], NEW c \in Int
  PROVE  LET m == [i EXCEPT !.counted = c] IN
         /\ m \in [run : Nat, date : Nat, eligible : B, counted : Int]
         /\ m.run = i.run /\ m.date = i.date /\ m.eligible = i.eligible /\ m.counted = c
OBVIOUS

Fielded(w) ==
  w = [at |-> w.at, table |-> w.table, file |-> w.file, left |-> w.left, run |-> w.run,
       rows |-> w.rows, keys |-> w.keys, stats |-> w.stats]

LEMMA FieldedIn ==
  ASSUME NEW U,
         NEW w \in [at : U, table : U, file : U, left : U, run : U, rows : U, keys : U, stats : U]
  PROVE  Fielded(w)
BY DEF Fielded

LEMMA WorkMovedIn ==
  ASSUME NEW U,
         NEW w \in [at : U, table : U, file : U, left : U, run : U, rows : U, keys : U, stats : U],
         NEW a \in U, NEW b \in U, NEW c \in U,
         NEW new, new = [w EXCEPT !.at = a, !.rows = b, !.stats = c]
  PROVE  /\ new \in [at : U, table : U, file : U, left : U, run : U, rows : U, keys : U, stats : U]
         /\ new.at = a /\ new.rows = b /\ new.stats = c
         /\ new.table = w.table /\ new.file = w.file /\ new.left = w.left
         /\ new.run = w.run /\ new.keys = w.keys
OBVIOUS

LEMMA WorkTakenIn ==
  ASSUME NEW U,
         NEW w \in [at : U, table : U, file : U, left : U, run : U, rows : U, keys : U, stats : U],
         NEW a \in U, NEW b \in U, NEW c \in U, NEW d \in U,
         NEW new, new = [w EXCEPT !.left = a, !.rows = b, !.keys = d, !.stats = c]
  PROVE  /\ new \in [at : U, table : U, file : U, left : U, run : U, rows : U, keys : U, stats : U]
         /\ new.left = a /\ new.rows = b /\ new.stats = c /\ new.keys = d
         /\ new.table = w.table /\ new.file = w.file /\ new.at = w.at
         /\ new.run = w.run
OBVIOUS

LEMMA WorkStartedIn ==
  ASSUME NEW U,
         NEW w \in [at : U, table : U, file : U, left : U, run : U, rows : U, keys : U, stats : U],
         NEW a \in U, NEW b \in U, NEW c \in U, NEW d \in U, NEW e \in U,
         NEW new, new = [w EXCEPT !.at = a, !.table = b, !.file = c, !.left = d, !.run = e]
  PROVE  /\ new \in [at : U, table : U, file : U, left : U, run : U, rows : U, keys : U, stats : U]
         /\ new.at = a /\ new.table = b /\ new.file = c /\ new.left = d
         /\ new.run = e /\ new.rows = w.rows /\ new.keys = w.keys /\ new.stats = w.stats
OBVIOUS

\* What the steps do to what is at work.
IsBegin(w, new, b, c) ==
  /\ Fielded(new) /\ new.at = "upsert" /\ new.rows = b /\ new.stats = c
  /\ new.table = w.table /\ new.file = w.file /\ new.left = w.left
  /\ new.run = w.run /\ new.keys = w.keys

IsTake(w, new, a, b, c, d) ==
  /\ Fielded(new) /\ new.left = a /\ new.rows = b /\ new.stats = c /\ new.keys = d
  /\ new.table = w.table /\ new.file = w.file /\ new.at = w.at /\ new.run = w.run

IsCommit(w, new, c) ==
  Fielded(new) /\ new.at = "finish" /\ new.stats = c /\ new.table = w.table /\ new.run = w.run

LEMMA WorkBegins ==
  ASSUME NEW w, Fielded(w), NEW b, NEW c,
         NEW new, new = [w EXCEPT !.at = "upsert", !.rows = b, !.stats = c]
  PROVE  IsBegin(w, new, b, c)
<1>1. PICK x1, x2, x3, x4, x5, x6, x7, x8 :
        w = [at |-> x1, table |-> x2, file |-> x3, left |-> x4, run |-> x5,
             rows |-> x6, keys |-> x7, stats |-> x8]
  BY DEF Fielded
<1>2. PICK U : U = {x1, x2, x3, x4, x5, x6, x7, x8, "upsert", b, c}
  OBVIOUS
<1>3. w \in [at : U, table : U, file : U, left : U, run : U, rows : U, keys : U, stats : U]
  BY <1>1, <1>2
<1>4. "upsert" \in U /\ b \in U /\ c \in U
  BY <1>2
<1>5. /\ new \in [at : U, table : U, file : U, left : U, run : U, rows : U, keys : U, stats : U]
      /\ new.at = "upsert" /\ new.rows = b /\ new.stats = c
      /\ new.table = w.table /\ new.file = w.file /\ new.left = w.left
      /\ new.run = w.run /\ new.keys = w.keys
  BY <1>3, <1>4, WorkMovedIn, Zenon
<1>6. Fielded(new)
  BY <1>5, FieldedIn, Zenon
<1> QED
  BY <1>5, <1>6 DEF IsBegin

LEMMA WorkCommits ==
  ASSUME NEW w, Fielded(w), NEW c,
         NEW new, new = [w EXCEPT !.at = "finish", !.rows = <<>>, !.stats = c]
  PROVE  IsCommit(w, new, c)
<1>1. PICK x1, x2, x3, x4, x5, x6, x7, x8 :
        w = [at |-> x1, table |-> x2, file |-> x3, left |-> x4, run |-> x5,
             rows |-> x6, keys |-> x7, stats |-> x8]
  BY DEF Fielded
<1>2. PICK U : U = {x1, x2, x3, x4, x5, x6, x7, x8, "finish", <<>>, c}
  OBVIOUS
<1>3. w \in [at : U, table : U, file : U, left : U, run : U, rows : U, keys : U, stats : U]
  BY <1>1, <1>2
<1>4. "finish" \in U /\ <<>> \in U /\ c \in U
  BY <1>2
<1>5. /\ new \in [at : U, table : U, file : U, left : U, run : U, rows : U, keys : U, stats : U]
      /\ new.at = "finish" /\ new.rows = <<>> /\ new.stats = c
      /\ new.table = w.table /\ new.file = w.file /\ new.left = w.left
      /\ new.run = w.run /\ new.keys = w.keys
  BY <1>3, <1>4, WorkMovedIn, Zenon
<1>6. Fielded(new)
  BY <1>5, FieldedIn, Zenon
<1> QED
  BY <1>5, <1>6 DEF IsCommit

LEMMA WorkTaken ==
  ASSUME NEW w, Fielded(w), NEW a, NEW b, NEW c, NEW d,
         NEW new, new = [w EXCEPT !.left = a, !.rows = b, !.keys = d, !.stats = c]
  PROVE  IsTake(w, new, a, b, c, d)
<1>1. PICK x1, x2, x3, x4, x5, x6, x7, x8 :
        w = [at |-> x1, table |-> x2, file |-> x3, left |-> x4, run |-> x5,
             rows |-> x6, keys |-> x7, stats |-> x8]
  BY DEF Fielded
<1>2. PICK U : U = {x1, x2, x3, x4, x5, x6, x7, x8, a, b, c, d}
  OBVIOUS
<1>3. w \in [at : U, table : U, file : U, left : U, run : U, rows : U, keys : U, stats : U]
  BY <1>1, <1>2
<1>4. a \in U /\ b \in U /\ c \in U /\ d \in U
  BY <1>2
<1>5. /\ new \in [at : U, table : U, file : U, left : U, run : U, rows : U, keys : U, stats : U]
      /\ new.left = a /\ new.rows = b /\ new.stats = c /\ new.keys = d
      /\ new.table = w.table /\ new.file = w.file /\ new.at = w.at
      /\ new.run = w.run
  BY <1>3, <1>4, WorkTakenIn, Zenon
<1>6. Fielded(new)
  BY <1>5, FieldedIn, Zenon
<1> QED
  BY <1>5, <1>6 DEF IsTake

-----------------------------------------------------------------------------
(* What an account's positions cost and gained (the desk)                    *)

Parts(S, i, j, b) == {d \in S : d.interval = i /\ (d.bucket * i) \div j = b.bucket}

OpenIds(ps) == {i \in DOMAIN ps : ps[i].status = "open"}
ClosedIds(ps) == {i \in DOMAIN ps : ps[i].status = "closed"}
DeskCost(ps) == SumFunctionOnSet([i \in OpenIds(ps) |-> ps[i].price], OpenIds(ps))
DeskGain(ps) == SumFunctionOnSet([i \in ClosedIds(ps) |-> ps[i].exit - ps[i].price], ClosedIds(ps))
ItemsOf(w) == {w[k] : k \in DOMAIN w}
\* A list of some of S, none twice.
ListFits(s, S) ==
  \E n \in Nat : s \in [1 .. n -> S] /\ \A j, k \in 1 .. n : j < k => s[j] # s[k]

\* What a step adds to the cost of what is open and to the gain of what is closed.
Moves(ps, qs, cost, gain) == DeskCost(qs) = DeskCost(ps) + cost /\ DeskGain(qs) = DeskGain(ps) + gain

LEMMA SumOfMore ==
  ASSUME NEW f, NEW g, NEW S, IsFiniteSet(S), NEW x, x \notin S, g[x] \in Int,
         \A y \in S : g[y] = f[y] /\ f[y] \in Int
  PROVE  SumFunctionOnSet(g, S \cup {x}) = SumFunctionOnSet(f, S) + g[x]
<1>1. SumFunctionOnSet(g, S) = SumFunctionOnSet(f, S)
  BY SumSame
<1>2. SumFunctionOnSet(g, S \cup {x}) = g[x] + SumFunctionOnSet(g, S)
  <2>1. \A y \in S \cup {x} : g[y] \in Int
    OBVIOUS
  <2> QED
    BY <2>1, SumAdd
<1>3. SumFunctionOnSet(f, S) \in Int
  BY SumTyped
<1> QED
  BY <1>1, <1>2, <1>3

PricesTyped(ps) == IsFiniteSet(DOMAIN ps) /\ \A i \in DOMAIN ps : ps[i].price \in Int /\ ps[i].exit \in Int

LEMMA SumsTyped ==
  ASSUME NEW ps, PricesTyped(ps)
  PROVE  /\ DeskCost(ps) \in Int /\ DeskGain(ps) \in Int
         /\ IsFiniteSet(OpenIds(ps)) /\ IsFiniteSet(ClosedIds(ps))
<1>1. IsFiniteSet(OpenIds(ps)) /\ IsFiniteSet(ClosedIds(ps))
  <2>1. OpenIds(ps) \subseteq DOMAIN ps /\ ClosedIds(ps) \subseteq DOMAIN ps
    BY DEF OpenIds, ClosedIds
  <2> QED
    BY <2>1, FS_Subset DEF PricesTyped
<1>2. DeskCost(ps) \in Int
  <2> DEFINE f == [i \in OpenIds(ps) |-> ps[i].price]
  <2>1. \A i \in OpenIds(ps) : f[i] \in Int
    BY DEF OpenIds, PricesTyped
  <2> HIDE DEF f
  <2>2. SumFunctionOnSet(f, OpenIds(ps)) \in Int
    BY <1>1, <2>1, SumTyped
  <2> QED
    BY <2>2 DEF DeskCost, f
<1>3. DeskGain(ps) \in Int
  <2> DEFINE f == [i \in ClosedIds(ps) |-> ps[i].exit - ps[i].price]
  <2>1. \A i \in ClosedIds(ps) : f[i] \in Int
    BY DEF ClosedIds, PricesTyped
  <2> HIDE DEF f
  <2>2. SumFunctionOnSet(f, ClosedIds(ps)) \in Int
    BY <1>1, <2>1, SumTyped
  <2> QED
    BY <2>2 DEF DeskGain, f
<1> QED
  BY <1>1, <1>2, <1>3

\* The same open positions at the same prices cost the same, one more costs its price more.
LEMMA SameCost ==
  ASSUME NEW ps, NEW qs, PricesTyped(ps), PricesTyped(qs), OpenIds(qs) = OpenIds(ps),
         \A i \in OpenIds(ps) : qs[i].price = ps[i].price
  PROVE  DeskCost(qs) = DeskCost(ps)
<1> DEFINE f == [i \in OpenIds(ps) |-> ps[i].price]  g == [i \in OpenIds(qs) |-> qs[i].price]
<1>1. \A i \in OpenIds(ps) : f[i] = g[i]
  OBVIOUS
<1> HIDE DEF f, g
<1>2. SumFunctionOnSet(f, OpenIds(ps)) = SumFunctionOnSet(g, OpenIds(ps))
  BY <1>1, SumsTyped, SumSame
<1> QED
  BY <1>2 DEF DeskCost, f, g

LEMMA SameGain ==
  ASSUME NEW ps, NEW qs, PricesTyped(ps), PricesTyped(qs), ClosedIds(qs) = ClosedIds(ps),
         \A i \in ClosedIds(ps) : qs[i].price = ps[i].price /\ qs[i].exit = ps[i].exit
  PROVE  DeskGain(qs) = DeskGain(ps)
<1> DEFINE f == [i \in ClosedIds(ps) |-> ps[i].exit - ps[i].price]
           g == [i \in ClosedIds(qs) |-> qs[i].exit - qs[i].price]
<1>1. \A i \in ClosedIds(ps) : f[i] = g[i]
  OBVIOUS
<1> HIDE DEF f, g
<1>2. SumFunctionOnSet(f, ClosedIds(ps)) = SumFunctionOnSet(g, ClosedIds(ps))
  BY <1>1, SumsTyped, SumSame
<1> QED
  BY <1>2 DEF DeskGain, f, g

CostsMore(ps, qs, x) == DeskCost(qs) = DeskCost(ps) + qs[x].price
GainsMore(ps, qs, x) == DeskGain(qs) = DeskGain(ps) + (qs[x].exit - qs[x].price)

LEMMA MoreCost ==
  ASSUME NEW ps, NEW qs, PricesTyped(ps), PricesTyped(qs), NEW x, x \notin OpenIds(ps),
         OpenIds(qs) = OpenIds(ps) \cup {x}, \A i \in OpenIds(ps) : qs[i].price = ps[i].price
  PROVE  CostsMore(ps, qs, x)
<1> DEFINE f == [i \in OpenIds(ps) |-> ps[i].price]  g == [i \in OpenIds(qs) |-> qs[i].price]
<1>1. (\A i \in OpenIds(ps) : g[i] = f[i] /\ f[i] \in Int) /\ g[x] = qs[x].price /\ g[x] \in Int
  <2>1. \A i \in OpenIds(ps) : ps[i].price \in Int
    BY DEF OpenIds, PricesTyped
  <2>2. qs[x].price \in Int
    BY DEF OpenIds, PricesTyped
  <2> QED
    BY <2>1, <2>2
<1> HIDE DEF f, g
<1>2. SumFunctionOnSet(g, OpenIds(ps) \cup {x}) = SumFunctionOnSet(f, OpenIds(ps)) + g[x]
  BY <1>1, SumsTyped, SumOfMore
<1> QED
  BY <1>1, <1>2 DEF CostsMore, DeskCost, f, g

LEMMA MoreGain ==
  ASSUME NEW ps, NEW qs, PricesTyped(ps), PricesTyped(qs), NEW x, x \notin ClosedIds(ps),
         ClosedIds(qs) = ClosedIds(ps) \cup {x},
         \A i \in ClosedIds(ps) : qs[i].price = ps[i].price /\ qs[i].exit = ps[i].exit
  PROVE  GainsMore(ps, qs, x)
<1> DEFINE f == [i \in ClosedIds(ps) |-> ps[i].exit - ps[i].price]
           g == [i \in ClosedIds(qs) |-> qs[i].exit - qs[i].price]
<1>1. /\ \A i \in ClosedIds(ps) : g[i] = f[i] /\ f[i] \in Int
      /\ g[x] = qs[x].exit - qs[x].price /\ g[x] \in Int
  <2>1. \A i \in ClosedIds(ps) : ps[i].price \in Int /\ ps[i].exit \in Int
    BY DEF ClosedIds, PricesTyped
  <2>2. qs[x].price \in Int /\ qs[x].exit \in Int
    BY DEF ClosedIds, PricesTyped
  <2> QED
    BY <2>1, <2>2
<1> HIDE DEF f, g
<1>2. SumFunctionOnSet(g, ClosedIds(ps) \cup {x}) = SumFunctionOnSet(f, ClosedIds(ps)) + g[x]
  BY <1>1, SumsTyped, SumOfMore
<1> QED
  BY <1>1, <1>2 DEF GainsMore, DeskGain, f, g

LEMMA MarkMoves ==
  ASSUME NEW ps, NEW i \in DOMAIN ps, NEW p, NEW qs, qs = [ps EXCEPT ![i] = p],
         ps[i].status = "open", p.status = "open", p.price = ps[i].price,
         PricesTyped(ps), PricesTyped(qs)
  PROVE  Moves(ps, qs, 0, 0)
<1>1. /\ DOMAIN qs = DOMAIN ps /\ qs[i] = p /\ \A j \in DOMAIN ps : j # i => qs[j] = ps[j]
  OBVIOUS
<1>2. DeskCost(qs) = DeskCost(ps)
  <2>1. OpenIds(qs) = OpenIds(ps)
    BY <1>1 DEF OpenIds
  <2>2. \A j \in OpenIds(ps) : qs[j].price = ps[j].price
    BY <1>1 DEF OpenIds
  <2> QED
    BY <2>1, <2>2, SameCost
<1>3. DeskGain(qs) = DeskGain(ps)
  <2>1. ClosedIds(qs) = ClosedIds(ps) /\ i \notin ClosedIds(ps)
    BY <1>1 DEF ClosedIds
  <2>2. \A j \in ClosedIds(ps) : qs[j].price = ps[j].price /\ qs[j].exit = ps[j].exit
    BY <1>1, <2>1 DEF ClosedIds
  <2> QED
    BY <2>1, <2>2, SameGain
<1> QED
  BY <1>2, <1>3, SumsTyped DEF Moves, CostsMore, GainsMore

LEMMA CloseMoves ==
  ASSUME NEW ps, NEW i \in DOMAIN ps, NEW p, NEW qs, qs = [ps EXCEPT ![i] = p],
         ps[i].status = "open", p.status = "closed", p.price = ps[i].price,
         PricesTyped(ps), PricesTyped(qs)
  PROVE  Moves(ps, qs, 0 - p.price, p.exit - p.price)
<1>1. /\ DOMAIN qs = DOMAIN ps /\ qs[i] = p /\ \A j \in DOMAIN ps : j # i => qs[j] = ps[j]
  OBVIOUS
<1>2. CostsMore(qs, ps, i)
  <2>1. OpenIds(ps) = OpenIds(qs) \cup {i} /\ i \notin OpenIds(qs)
    BY <1>1 DEF OpenIds
  <2>2. \A j \in OpenIds(qs) : ps[j].price = qs[j].price
    BY <1>1 DEF OpenIds
  <2> QED
    BY <2>1, <2>2, MoreCost, Zenon
<1>3. GainsMore(ps, qs, i)
  <2>1. ClosedIds(qs) = ClosedIds(ps) \cup {i} /\ i \notin ClosedIds(ps)
    BY <1>1 DEF ClosedIds
  <2>2. \A j \in ClosedIds(ps) : qs[j].price = ps[j].price /\ qs[j].exit = ps[j].exit
    BY <1>1, <2>1 DEF ClosedIds
  <2> QED
    BY <2>1, <2>2, MoreGain, Zenon
<1>4. p.price \in Int
  BY DEF PricesTyped
<1> QED
  BY <1>1, <1>2, <1>3, <1>4, SumsTyped DEF Moves, CostsMore, GainsMore

-----------------------------------------------------------------------------
(* Records of the desk                                                       *)

Shown == {"entered", "expired", "invalidated"}
DeskPlan == [low : Int, high : Int, stop : Int, target : Int, after : Nat]
DeskOrder ==
  [hit : Nat, date : Nat, status : {"pending_entry", "filled", "rejected"}, plan : DeskPlan, filled : Nat]
DeskPosition ==
  [entry : Nat, price : Int, stop : Int, target : Int, status : {"open", "closed"}, latest : Nat,
   holding : Nat, exit : Int, reason : {"", "STOP_LOSS", "TARGET", "TIME_EXIT"}, date : Nat]

\* What is written to a candidate leaves it a candidate (D, S, R, E: the types of its fields).
SameBut(new, c, s, k, o, T) ==
  new \in T /\ new.date = c.date /\ new.status = s /\ new.checked = k /\ new.order = o
DeskStatuses == {"active", "ignored"} \cup Shown

LEMMA CandidateReviewedIn ==
  ASSUME NEW D, NEW S, NEW R, NEW E, NEW r \in R, NEW s \in S,
         NEW c \in [date : D, status : S, review : R, expires : E, checked : D, order : D],
         NEW new, new = [c EXCEPT !.review = r, !.status = s]
  PROVE  SameBut(new, c, s, c.checked, c.order, [date : D, status : S, review : R, expires : E, checked : D, order : D])
BY DEF SameBut

LEMMA CandidateClosedIn ==
  ASSUME NEW D, NEW S, NEW R, NEW E, NEW s \in S, NEW k \in D,
         NEW c \in [date : D, status : S, review : R, expires : E, checked : D, order : D],
         NEW new, new = [c EXCEPT !.status = s, !.checked = k]
  PROVE  SameBut(new, c, s, k, c.order, [date : D, status : S, review : R, expires : E, checked : D, order : D])
BY DEF SameBut

LEMMA CandidateCheckedIn ==
  ASSUME NEW D, NEW S, NEW R, NEW E, NEW k \in D,
         NEW c \in [date : D, status : S, review : R, expires : E, checked : D, order : D],
         NEW new, new = [c EXCEPT !.checked = k]
  PROVE  SameBut(new, c, c.status, k, c.order, [date : D, status : S, review : R, expires : E, checked : D, order : D])
BY DEF SameBut

LEMMA CandidateLinkedIn ==
  ASSUME NEW D, NEW S, NEW R, NEW E, NEW o \in D,
         NEW c \in [date : D, status : S, review : R, expires : E, checked : D, order : D],
         NEW new, new = [c EXCEPT !.order = o]
  PROVE  SameBut(new, c, c.status, c.checked, o, [date : D, status : S, review : R, expires : E, checked : D, order : D])
BY DEF SameBut

\* An order decided on is the same order (S, P: its statuses and plans).
SameDeskOrder(new, o, s, T) ==
  new \in T /\ new.hit = o.hit /\ new.date = o.date /\ new.plan = o.plan /\ new.status = s

LEMMA OrderRejectedIn ==
  ASSUME NEW D, NEW S, NEW P, NEW s \in S,
         NEW o \in [hit : D, date : D, status : S, plan : P, filled : D],
         NEW new, new = [o EXCEPT !.status = s]
  PROVE  SameDeskOrder(new, o, s, [hit : D, date : D, status : S, plan : P, filled : D])
BY DEF SameDeskOrder

LEMMA OrderRejected ==
  ASSUME NEW o \in DeskOrder, NEW s \in {"pending_entry", "filled", "rejected"},
         NEW new, new = [o EXCEPT !.status = s]
  PROVE  SameDeskOrder(new, o, s, DeskOrder)
<1>1. PICK S, P : S = {"pending_entry", "filled", "rejected"} /\ P = DeskPlan
  OBVIOUS
<1>2. DeskOrder = [hit : Nat, date : Nat, status : S, plan : P, filled : Nat] /\ s \in S
  BY <1>1 DEF DeskOrder
<1>3. o \in [hit : Nat, date : Nat, status : S, plan : P, filled : Nat]
  BY <1>2
<1>4. SameDeskOrder(new, o, s, [hit : Nat, date : Nat, status : S, plan : P, filled : Nat])
  BY <1>2, <1>3, OrderRejectedIn, Zenon
<1> QED
  BY <1>2, <1>4

LEMMA OrderFilledIn ==
  ASSUME NEW S, NEW P, NEW s \in S, NEW k \in Nat,
         NEW o \in [hit : Nat, date : Nat, status : S, plan : P, filled : Nat],
         NEW new, new = [o EXCEPT !.status = s, !.filled = k]
  PROVE  SameDeskOrder(new, o, s, [hit : Nat, date : Nat, status : S, plan : P, filled : Nat])
BY DEF SameDeskOrder

LEMMA OrderFilled ==
  ASSUME NEW o \in DeskOrder, NEW s \in {"pending_entry", "filled", "rejected"}, NEW k \in Nat,
         NEW new, new = [o EXCEPT !.status = s, !.filled = k]
  PROVE  SameDeskOrder(new, o, s, DeskOrder)
<1>1. PICK S, P : S = {"pending_entry", "filled", "rejected"} /\ P = DeskPlan
  OBVIOUS
<1>2. /\ DeskOrder = [hit : Nat, date : Nat, status : S, plan : P, filled : Nat]
      /\ s \in S /\ k \in Nat
  BY <1>1 DEF DeskOrder
<1>3. o \in [hit : Nat, date : Nat, status : S, plan : P, filled : Nat]
  BY <1>2
<1>4. SameDeskOrder(new, o, s, [hit : Nat, date : Nat, status : S, plan : P, filled : Nat])
  BY <1>2, <1>3, OrderFilledIn, Zenon
<1> QED
  BY <1>2, <1>4

\* A position just opened at price k sessions in.
JustOpened(p, k, price) ==
  /\ p \in DeskPosition /\ p.entry = k /\ p.price = price /\ p.status = "open" /\ p.latest = 0
  /\ p.holding = 0 /\ p.reason = ""

LEMMA DeskPositionTyped ==
  ASSUME NEW S, NEW R, NEW s \in S, NEW r \in R, NEW d \in Nat, NEW k \in Nat, NEW n \in Nat, NEW m \in Nat,
         NEW stop \in Int, NEW price \in Int, NEW goal \in Int, NEW exit \in Int
  PROVE  [entry |-> k, price |-> price, stop |-> stop, target |-> goal, status |-> s, latest |-> n,
          holding |-> m, exit |-> exit, reason |-> r, date |-> d]
           \in [entry : Nat, price : Int, stop : Int, target : Int, status : S, latest : Nat,
               holding : Nat, exit : Int, reason : R, date : Nat]
OBVIOUS

LEMMA ZeroTyped == 0 \in Nat /\ 0 \in Int
OBVIOUS

LEMMA DeskOpenedTyped ==
  ASSUME NEW d \in Nat, NEW s \in Int, NEW price \in Int, NEW goal \in Int, NEW k \in Nat, NEW p,
         p = [entry |-> k, price |-> price, stop |-> s, target |-> goal,
              status |-> "open", latest |-> 0, holding |-> 0, exit |-> 0, reason |-> "", date |-> d]
  PROVE  JustOpened(p, k, price)
<1>1. /\ p.entry = k /\ p.price = price /\ p.status = "open" /\ p.latest = 0 /\ p.holding = 0 /\ p.reason = ""
  OBVIOUS
<1>2. p \in DeskPosition
  <2>1. "open" \in {"open", "closed"}
    OBVIOUS
  <2>2. "" \in {"", "STOP_LOSS", "TARGET", "TIME_EXIT"}
    OBVIOUS
  <2>3. 0 \in Nat /\ 0 \in Int
    BY ZeroTyped
  <2>4. p \in [entry : Nat, price : Int, stop : Int, target : Int, status : {"open", "closed"}, latest : Nat,
               holding : Nat, exit : Int, reason : {"", "STOP_LOSS", "TARGET", "TIME_EXIT"}, date : Nat]
    BY <2>1, <2>2, <2>3, DeskPositionTyped, Zenon
  <2> QED
    BY <2>4, Zenon DEF DeskPosition
<1> QED
  BY <1>1, <1>2 DEF JustOpened

\* The same position one candle on.
OnTo(q, p, k, held, status, reason, T) ==
  /\ q \in T /\ q.entry = p.entry /\ q.price = p.price /\ q.stop = p.stop /\ q.target = p.target
  /\ q.latest = k /\ q.holding = held /\ q.status = status /\ q.reason = reason

LEMMA MarkedIn ==
  ASSUME NEW S, NEW R, NEW k \in Nat, NEW held \in Nat,
         NEW p \in [entry : Nat, price : Int, stop : Int, target : Int, status : S, latest : Nat,
                    holding : Nat, exit : Int, reason : R, date : Nat],
         NEW q, q = [p EXCEPT !.latest = k, !.holding = held]
  PROVE  OnTo(q, p, k, held, p.status, p.reason,
              [entry : Nat, price : Int, stop : Int, target : Int, status : S, latest : Nat,
               holding : Nat, exit : Int, reason : R, date : Nat])
BY DEF OnTo

LEMMA Marked ==
  ASSUME NEW p \in DeskPosition, NEW k \in Nat, NEW held \in Nat,
         NEW q, q = [p EXCEPT !.latest = k, !.holding = held]
  PROVE  OnTo(q, p, k, held, p.status, p.reason, DeskPosition)
BY MarkedIn, Zenon DEF DeskPosition

ShutAt(q, p, k, held, reason, price, T) == OnTo(q, p, k, held, "closed", reason, T) /\ q.exit = price

LEMMA ClosedIn ==
  ASSUME NEW S, NEW R, NEW k \in Nat, NEW held \in Nat, "closed" \in S, NEW r \in R, NEW price \in Int,
         NEW p \in [entry : Nat, price : Int, stop : Int, target : Int, status : S, latest : Nat,
                    holding : Nat, exit : Int, reason : R, date : Nat],
         NEW q, q = [p EXCEPT !.latest = k, !.holding = held, !.status = "closed", !.exit = price, !.reason = r]
  PROVE  ShutAt(q, p, k, held, r, price,
                [entry : Nat, price : Int, stop : Int, target : Int, status : S, latest : Nat,
                 holding : Nat, exit : Int, reason : R, date : Nat])
BY DEF ShutAt, OnTo

LEMMA ShutDown ==
  ASSUME NEW p \in DeskPosition, NEW k \in Nat, NEW held \in Nat,
         NEW r \in {"", "STOP_LOSS", "TARGET", "TIME_EXIT"}, NEW price \in Int,
         NEW q, q = [p EXCEPT !.latest = k, !.holding = held, !.status = "closed", !.exit = price, !.reason = r]
  PROVE  ShutAt(q, p, k, held, r, price, DeskPosition)
<1>1. PICK S, R : S = {"open", "closed"} /\ R = {"", "STOP_LOSS", "TARGET", "TIME_EXIT"}
  OBVIOUS
<1>2. DeskPosition = [entry : Nat, price : Int, stop : Int, target : Int, status : S, latest : Nat,
                      holding : Nat, exit : Int, reason : R, date : Nat]
  BY <1>1 DEF DeskPosition
<1>3. "closed" \in S /\ r \in R
  <2>1. "closed" \in {"open", "closed"}
    OBVIOUS
  <2> QED
    BY <1>1, <2>1, Zenon
<1>4. p \in [entry : Nat, price : Int, stop : Int, target : Int, status : S, latest : Nat,
             holding : Nat, exit : Int, reason : R, date : Nat]
  BY <1>2
<1>5. ShutAt(q, p, k, held, r, price,
             [entry : Nat, price : Int, stop : Int, target : Int, status : S, latest : Nat,
              holding : Nat, exit : Int, reason : R, date : Nat])
  BY <1>3, <1>4, ClosedIn, ZenonT(60)
<1> QED
  BY <1>2, <1>5, Zenon

-----------------------------------------------------------------------------
(* Books of orders and positions, and the rows of what was closed            *)

CostOfAll(ps) == SumFunctionOnSet([p \in ps |-> p.shares * p.entry], ps)
GainOfAll(rs) == SumFunctionOnSet([r \in rs |-> r.pnl], rs)
PricedAll(ps) == IsFiniteSet(ps) /\ \A p \in ps : p.shares \in Nat /\ p.entry \in Nat
RowsPriced(rs) == IsFiniteSet(rs) /\ \A r \in rs : r.pnl \in Int

CostAdds(ps, x) ==
  /\ CostOfAll(ps) \in Int /\ x.shares * x.entry \in Nat
  /\ CostOfAll(ps \cup {x}) = CostOfAll(ps) + x.shares * x.entry
GainAdds(rs, x) == GainOfAll(rs) \in Int /\ GainOfAll(rs \cup {x}) = GainOfAll(rs) + x.pnl

LEMMA ProductNatural == \A a, b \in Nat : a * b \in Nat
OBVIOUS

LEMMA CostOfAllTyped == ASSUME NEW ps, PricedAll(ps) PROVE CostOfAll(ps) \in Int
<1> DEFINE f == [p \in ps |-> p.shares * p.entry]
<1>1. \A p \in ps : f[p] \in Int
  BY ProductNatural DEF PricedAll
<1> HIDE DEF f
<1>2. SumFunctionOnSet(f, ps) \in Int
  BY <1>1, SumTyped DEF PricedAll
<1> QED
  BY <1>2 DEF CostOfAll, f

LEMMA CostOfOneMore ==
  ASSUME NEW ps, NEW x, PricedAll(ps), x.shares \in Nat, x.entry \in Nat, x \notin ps
  PROVE  CostAdds(ps, x)
<1> DEFINE f == [p \in ps |-> p.shares * p.entry]
           g == [p \in ps \cup {x} |-> p.shares * p.entry]
<1>1. \A p \in ps : g[p] = f[p] /\ f[p] \in Int
  BY ProductNatural DEF PricedAll
<1>2. g[x] = x.shares * x.entry /\ x.shares * x.entry \in Nat
  BY ProductNatural
<1> HIDE DEF f, g
<1>3. SumFunctionOnSet(g, ps \cup {x}) = SumFunctionOnSet(f, ps) + g[x]
  BY <1>1, <1>2, SumOfMore DEF PricedAll
<1>4. CostOfAll(ps \cup {x}) = CostOfAll(ps) + x.shares * x.entry
  BY <1>2, <1>3 DEF CostOfAll, f, g
<1> QED
  BY <1>2, <1>4, CostOfAllTyped DEF CostAdds

LEMMA GainOfOneMore ==
  ASSUME NEW rs, NEW x, RowsPriced(rs), x.pnl \in Int, x \notin rs
  PROVE  GainAdds(rs, x)
<1> DEFINE f == [r \in rs |-> r.pnl]  g == [r \in rs \cup {x} |-> r.pnl]
<1>1. (\A r \in rs : g[r] = f[r] /\ f[r] \in Int) /\ g[x] = x.pnl /\ g[x] \in Int
  BY DEF RowsPriced
<1> HIDE DEF f, g
<1>2. SumFunctionOnSet(g, rs \cup {x}) = SumFunctionOnSet(f, rs) + g[x]
  BY <1>1, SumOfMore DEF RowsPriced
<1>3. SumFunctionOnSet(f, rs) \in Int
  BY <1>1, SumTyped DEF RowsPriced
<1> QED
  BY <1>1, <1>2, <1>3 DEF GainAdds, GainOfAll, f, g

\* A position that is replaced by one of the same cost.
LEMMA CostStays ==
  ASSUME NEW ps, NEW x \in ps, NEW y, PricedAll(ps), y \notin ps \ {x},
         y.shares = x.shares, y.entry = x.entry
  PROVE  CostOfAll((ps \ {x}) \cup {y}) = CostOfAll(ps)
<1> DEFINE rest == ps \ {x}
<1>1. PricedAll(rest) /\ x \notin rest /\ y \notin rest /\ rest \cup {x} = ps
  BY FS_RemoveElement DEF PricedAll
<1>2. x.shares \in Nat /\ x.entry \in Nat
  BY DEF PricedAll
<1> HIDE DEF rest
<1>3. CostAdds(rest, x) /\ CostAdds(rest, y)
  <2>1. CostAdds(rest, x)
    BY <1>1, <1>2, CostOfOneMore
  <2>2. CostAdds(rest, y)
    BY <1>1, <1>2, CostOfOneMore
  <2> QED
    BY <2>1, <2>2
<1>4. CostOfAll(rest \cup {y}) = CostOfAll(rest \cup {x})
  BY <1>3 DEF CostAdds
<1> QED
  BY <1>1, <1>4 DEF rest

LEMMA OneMember ==
  ASSUME NEW S, NEW x, IsFiniteSet(S), x \notin S, NEW T, T = S \cup {x}
  PROVE  IsFiniteSet(T) /\ Cardinality(T) = Cardinality(S) + 1 /\ Cardinality(S) \in Nat
BY FS_AddElement, FS_CardinalityType

\* One claim for a symbol, within the slots.
OneEach(b, slots) ==
  /\ IsFiniteSet(b.open) /\ IsFiniteSet(b.pending) /\ b.open \cap b.pending = {}
  /\ Cardinality(b.open) + Cardinality(b.pending) <= slots
  /\ \A x, y \in b.open \cup b.pending : x.sym = y.sym => x = y

\* Orders and positions came after what of their symbols was closed.
ClaimsFit(b, rs, d) ==
  /\ \A o \in b.pending : /\ o.sig \in Nat /\ o.allocation \in Int /\ o.sig <= d
                          /\ \A r \in rs : r.sym = o.sym => r.entered <= o.sig
  /\ \A p \in b.open : /\ p.sig \in Nat /\ p.entered \in Nat /\ p.bars \in Nat
                       /\ p.shares \in Nat /\ p.entry \in Nat
                       /\ p.sig < p.entered /\ p.entered <= d
                       /\ \A r \in rs : r.sym = p.sym => r.entered < p.entered
RowsFit(rs, d) ==
  /\ IsFiniteSet(rs) /\ \A r \in rs : r.entered \in Nat /\ r.entered <= d /\ r.pnl \in Int
  /\ \A r, s \in rs : r.sym = s.sym /\ r.entered = s.entered => r = s
Balanced(b, rs, start) ==
  b.cash \in Nat /\ b.cash + CostOfAll(b.open) = start + GainOfAll(rs)
\* A book that holds its claims up to date d, with the closes rs behind it.
BookFits(b, rs, d, slots, start) ==
  OneEach(b, slots) /\ ClaimsFit(b, rs, d) /\ RowsFit(rs, d) /\ Balanced(b, rs, start)

LEMMA BookPriced ==
  ASSUME NEW b, NEW rs, NEW d, NEW slots, NEW start, BookFits(b, rs, d, slots, start)
  PROVE  PricedAll(b.open) /\ RowsPriced(rs)
BY DEF BookFits, OneEach, ClaimsFit, RowsFit, PricedAll, RowsPriced

\* What of a book counts.
LEMMA SameBook ==
  ASSUME NEW b, NEW rs, NEW d, NEW slots, NEW start, BookFits(b, rs, d, slots, start),
         NEW c, c.cash = b.cash, c.open = b.open, c.pending = b.pending, d \in Nat,
         NEW e \in Nat, d <= e
  PROVE  BookFits(c, rs, e, slots, start)
<1>1. OneEach(c, slots)
  BY DEF BookFits, OneEach
<1>2. ClaimsFit(c, rs, e)
  BY DEF BookFits, ClaimsFit
<1>3. RowsFit(rs, e)
  BY DEF BookFits, RowsFit
<1>4. Balanced(c, rs, start)
  BY DEF BookFits, Balanced
<1> QED
  BY <1>1, <1>2, <1>3, <1>4 DEF BookFits

\* Orders are dropped.
LEMMA FewerOrders ==
  ASSUME NEW b, NEW rs, NEW d, NEW slots \in Nat, NEW start, BookFits(b, rs, d, slots, start),
         NEW c, c.cash = b.cash, c.open = b.open, c.pending \subseteq b.pending
  PROVE  BookFits(c, rs, d, slots, start)
<1>1. IsFiniteSet(c.pending) /\ Cardinality(c.pending) <= Cardinality(b.pending)
      /\ Cardinality(c.pending) \in Nat /\ Cardinality(b.pending) \in Nat /\ Cardinality(b.open) \in Nat
  BY FS_Subset, FS_CardinalityType DEF BookFits, OneEach
<1>2. OneEach(c, slots)
  BY <1>1 DEF BookFits, OneEach
<1>3. ClaimsFit(c, rs, d)
  BY DEF BookFits, ClaimsFit
<1>4. Balanced(c, rs, start)
  BY DEF BookFits, Balanced
<1> QED
  BY <1>2, <1>3, <1>4 DEF BookFits

\* The order o became the position p.
LEMMA BookFilled ==
  ASSUME NEW b, NEW rs, NEW d \in Nat, NEW slots \in Nat, NEW start \in Nat,
         BookFits(b, rs, d, slots, start),
         NEW o \in b.pending, NEW p, o.sig < d, p.sym = o.sym, p.sig = o.sig, p.entered = d, p.bars = 0,
         p.shares \in Nat, p.entry \in Nat, p.shares * p.entry <= b.cash,
         NEW c, c.cash = b.cash - p.shares * p.entry, c.open = b.open \cup {p}, c.pending = b.pending \ {o}
  PROVE  BookFits(c, rs, d, slots, start)
<1>1. /\ IsFiniteSet(b.open) /\ IsFiniteSet(b.pending) /\ b.open \cap b.pending = {}
      /\ \A x, y \in b.open \cup b.pending : x.sym = y.sym => x = y
  BY DEF BookFits, OneEach
<1>2. \A x \in b.open : x.sym # o.sym
  BY <1>1
<1>3. p \notin b.open
  BY <1>2
<1>4. p \notin c.pending
  BY <1>1
<1>5. OneEach(c, slots)
  <2>1. /\ IsFiniteSet(c.open) /\ Cardinality(c.open) = Cardinality(b.open) + 1
        /\ IsFiniteSet(c.pending) /\ Cardinality(c.pending) = Cardinality(b.pending) - 1
        /\ Cardinality(b.open) \in Nat /\ Cardinality(b.pending) \in Nat
    <3>1. IsFiniteSet(c.open) /\ Cardinality(c.open) = Cardinality(b.open) + 1 /\ Cardinality(b.open) \in Nat
      BY <1>1, <1>3, OneMember
    <3>2. IsFiniteSet(c.pending) /\ Cardinality(c.pending) = Cardinality(b.pending) - 1
          /\ Cardinality(b.pending) \in Nat
      BY <1>1, FS_RemoveElement, FS_CardinalityType
    <3> QED
      BY <3>1, <3>2
  <2>2. Cardinality(b.open) + Cardinality(b.pending) <= slots
    BY DEF BookFits, OneEach
  <2>3. Cardinality(c.open) + Cardinality(c.pending) <= slots
    BY <2>1, <2>2
  <2>4. \A x, y \in c.open \cup c.pending : x.sym = y.sym => x = y
    BY <1>1, <1>2
  <2> QED
    BY <1>1, <1>4, <2>1, <2>3, <2>4 DEF OneEach
<1>6. ClaimsFit(c, rs, d)
  <2>1. o.sig \in Nat /\ \A r \in rs : r.sym = o.sym => r.entered <= o.sig
    BY DEF BookFits, ClaimsFit
  <2>2. \A r \in rs : r.entered \in Nat
    BY DEF BookFits, RowsFit
  <2>3. /\ p.sig \in Nat /\ p.entered \in Nat /\ p.bars \in Nat /\ p.sig < p.entered /\ p.entered <= d
        /\ \A r \in rs : r.sym = p.sym => r.entered < p.entered
    BY <2>1, <2>2
  <2> QED
    BY <2>3 DEF BookFits, ClaimsFit
<1>7. Balanced(c, rs, start)
  <2>1. CostAdds(b.open, p)
    BY <1>3, BookPriced, CostOfOneMore
  <2>2. b.cash \in Nat /\ b.cash + CostOfAll(b.open) = start + GainOfAll(rs)
    BY DEF BookFits, Balanced
  <2> QED
    BY <2>1, <2>2 DEF CostAdds, Balanced
<1> QED
  BY <1>5, <1>6, <1>7 DEF BookFits

\* A position was closed as row t.
LEMMA BookClosed ==
  ASSUME NEW b, NEW rs, NEW d \in Nat, NEW slots \in Nat, NEW start \in Nat,
         BookFits(b, rs, d, slots, start),
         NEW p \in b.open, NEW price \in Nat, NEW t, t.sym = p.sym, t.entered = p.entered,
         t.pnl = (price - p.entry) * p.shares,
         NEW c, c.cash = b.cash + p.shares * price, c.open = b.open \ {p}, c.pending = b.pending
  PROVE  BookFits(c, rs \cup {t}, d, slots, start) /\ t \notin rs
<1>1. /\ IsFiniteSet(b.open) /\ IsFiniteSet(b.pending) /\ b.open \cap b.pending = {}
      /\ \A x, y \in b.open \cup b.pending : x.sym = y.sym => x = y
  BY DEF BookFits, OneEach
<1>2. /\ p.entered \in Nat /\ p.entered <= d /\ p.shares \in Nat /\ p.entry \in Nat
      /\ \A r \in rs : r.sym = p.sym => r.entered < p.entered
  BY DEF BookFits, ClaimsFit
<1>3. t \notin rs
  BY <1>2
<1>4. OneEach(c, slots)
  <2>1. /\ IsFiniteSet(c.open) /\ Cardinality(c.open) = Cardinality(b.open) - 1
        /\ Cardinality(b.open) \in Nat /\ Cardinality(b.pending) \in Nat
    BY <1>1, FS_RemoveElement, FS_CardinalityType
  <2>2. Cardinality(c.open) + Cardinality(c.pending) <= slots
    BY <2>1 DEF BookFits, OneEach
  <2> QED
    BY <1>1, <2>1, <2>2 DEF OneEach
<1>5. ClaimsFit(c, rs \cup {t}, d)
  <2>1. \A x \in c.open \cup c.pending : x.sym # t.sym
    BY <1>1
  <2> QED
    BY <2>1 DEF BookFits, ClaimsFit
<1>6. t.pnl \in Int /\ p.shares * price \in Nat /\ t.pnl = p.shares * price - p.shares * p.entry
      /\ p.shares * p.entry \in Nat
  BY <1>2
<1>7. RowsFit(rs \cup {t}, d)
  <2>1. IsFiniteSet(rs \cup {t})
    BY FS_AddElement DEF BookFits, RowsFit
  <2>2. \A r \in rs : r.entered \in Nat /\ (r.sym = t.sym => r.entered < t.entered)
    BY <1>2 DEF BookFits, RowsFit
  <2>3. \A r \in rs : r.sym = t.sym => r.entered # t.entered
    BY <2>2, <1>2
  <2>4. \A r, s \in rs \cup {t} : r.sym = s.sym /\ r.entered = s.entered => r = s
    BY <2>3 DEF BookFits, RowsFit
  <2> QED
    BY <1>2, <1>6, <2>1, <2>4 DEF BookFits, RowsFit
<1>8. Balanced(c, rs \cup {t}, start)
  <2>1. GainAdds(rs, t)
    BY <1>3, <1>6, BookPriced, GainOfOneMore
  <2>2. CostAdds(c.open, p)
    <3>1. PricedAll(c.open) /\ p \notin c.open
      BY BookPriced, FS_RemoveElement DEF PricedAll
    <3> QED
      BY <1>2, <3>1, CostOfOneMore
  <2>3. c.open \cup {p} = b.open
    OBVIOUS
  <2>4. CostOfAll(b.open) = CostOfAll(c.open) + p.shares * p.entry /\ CostOfAll(c.open) \in Int
    BY <2>2, <2>3 DEF CostAdds
  <2>5. b.cash \in Nat /\ b.cash + CostOfAll(b.open) = start + GainOfAll(rs)
    BY DEF BookFits, Balanced
  <2>6. GainOfAll(rs \cup {t}) = GainOfAll(rs) + t.pnl /\ GainOfAll(rs) \in Int
    BY <2>1 DEF GainAdds
  <2>7. c.cash \in Nat
    BY <1>6, <2>5
  <2>8. c.cash + CostOfAll(c.open) = start + GainOfAll(rs \cup {t})
    BY <1>6, <2>4, <2>5, <2>6
  <2> QED
    BY <2>7, <2>8 DEF Balanced
<1> QED
  BY <1>3, <1>4, <1>5, <1>7, <1>8 DEF BookFits

\* A position is a bar older.
LEMMA BookAged ==
  ASSUME NEW b, NEW rs, NEW d, NEW slots \in Nat, NEW start, BookFits(b, rs, d, slots, start),
         NEW p \in b.open, NEW q, q.sym = p.sym, q.sig = p.sig, q.entered = p.entered,
         q.shares = p.shares, q.entry = p.entry, q.bars = p.bars + 1,
         NEW c, c.cash = b.cash, c.open = (b.open \ {p}) \cup {q}, c.pending = b.pending
  PROVE  BookFits(c, rs, d, slots, start)
<1>1. /\ IsFiniteSet(b.open) /\ IsFiniteSet(b.pending) /\ b.open \cap b.pending = {}
      /\ \A x, y \in b.open \cup b.pending : x.sym = y.sym => x = y
  BY DEF BookFits, OneEach
<1>2. \A x \in (b.open \ {p}) \cup b.pending : x.sym # q.sym
  BY <1>1
<1>3. OneEach(c, slots)
  <2>1. IsFiniteSet(b.open \ {p}) /\ Cardinality(b.open \ {p}) = Cardinality(b.open) - 1
    BY <1>1, FS_RemoveElement
  <2>2. IsFiniteSet(c.open) /\ Cardinality(c.open) = Cardinality(b.open \ {p}) + 1
    <3>1. q \notin b.open \ {p}
      BY <1>2
    <3> QED
      BY <2>1, <3>1, OneMember
  <2>3. Cardinality(b.open) \in Nat
    BY <1>1, FS_CardinalityType
  <2>4. Cardinality(c.open) + Cardinality(c.pending) <= slots
    BY <2>1, <2>2, <2>3 DEF BookFits, OneEach
  <2>5. c.open \cap c.pending = {}
    BY <1>1, <1>2
  <2>6. \A x, y \in c.open \cup c.pending : x.sym = y.sym => x = y
    BY <1>1, <1>2
  <2> QED
    BY <1>1, <2>2, <2>4, <2>5, <2>6 DEF OneEach
<1>4. ClaimsFit(c, rs, d)
  <2>1. q.bars \in Nat
    BY DEF BookFits, ClaimsFit
  <2> QED
    BY <2>1 DEF BookFits, ClaimsFit
<1>5. Balanced(c, rs, start)
  <2>1. CostOfAll(c.open) = CostOfAll(b.open)
    BY <1>2, BookPriced, CostStays
  <2> QED
    BY <2>1 DEF BookFits, Balanced
<1> QED
  BY <1>3, <1>4, <1>5 DEF BookFits

\* An order is placed on date d for a symbol without a claim.
LEMMA BookOrdered ==
  ASSUME NEW b, NEW rs, NEW d \in Nat, NEW slots \in Nat, NEW start, BookFits(b, rs, d, slots, start),
         NEW o, o.sig = d, o.allocation \in Int, \A x \in b.open \cup b.pending : x.sym # o.sym,
         Cardinality(b.open) + Cardinality(b.pending) < slots,
         NEW c, c.cash = b.cash, c.open = b.open, c.pending = b.pending \cup {o}
  PROVE  BookFits(c, rs, d, slots, start)
<1>1. OneEach(c, slots)
  <2>1. IsFiniteSet(c.pending) /\ Cardinality(c.pending) = Cardinality(b.pending) + 1
    <3>1. IsFiniteSet(b.pending) /\ o \notin b.pending
      BY DEF BookFits, OneEach
    <3> QED
      BY <3>1, OneMember
  <2>2. Cardinality(b.open) \in Nat /\ Cardinality(b.pending) \in Nat
    BY FS_CardinalityType DEF BookFits, OneEach
  <2>3. Cardinality(c.open) + Cardinality(c.pending) <= slots
    BY <2>1, <2>2
  <2> QED
    BY <2>1, <2>3 DEF BookFits, OneEach
<1>2. ClaimsFit(c, rs, d)
  BY DEF BookFits, ClaimsFit, RowsFit
<1>3. Balanced(c, rs, start)
  BY DEF BookFits, Balanced
<1> QED
  BY <1>1, <1>2, <1>3 DEF BookFits

-----------------------------------------------------------------------------
(* Sessions a position was held, rows, parts                                 *)

\* The sessions with a candle of p's symbol from its entry to d.
HeldIn(st, p, d) == Cardinality({t \in p.entered .. d : p.sym \in DOMAIN st[t].bars})

LEMMA HeldFinite ==
  ASSUME NEW st, NEW p, NEW d \in Nat, p.entered \in Nat,
         NEW S, S = {t \in p.entered .. d : p.sym \in DOMAIN st[t].bars}
  PROVE  IsFiniteSet(S) /\ HeldIn(st, p, d) = Cardinality(S) /\ HeldIn(st, p, d) \in Nat
<1>1. IsFiniteSet(p.entered .. d)
  BY FS_Interval
<1>2. IsFiniteSet(S)
  BY <1>1, FS_Subset
<1> QED
  BY <1>2, FS_CardinalityType DEF HeldIn

LEMMA HeldLater ==
  ASSUME NEW st, NEW p, p.entered \in Nat, NEW l \in Nat, NEW d \in Nat, l <= d
  PROVE  /\ HeldIn(st, p, l) \in Nat /\ HeldIn(st, p, d) \in Nat /\ HeldIn(st, p, l) <= HeldIn(st, p, d)
         /\ l < d /\ p.entered <= d /\ p.sym \in DOMAIN st[d].bars => HeldIn(st, p, l) < HeldIn(st, p, d)
<1> DEFINE A == {t \in p.entered .. l : p.sym \in DOMAIN st[t].bars}
           B == {t \in p.entered .. d : p.sym \in DOMAIN st[t].bars}
<1>1. A \subseteq B
  OBVIOUS
<1>2. l < d /\ p.entered <= d /\ p.sym \in DOMAIN st[d].bars => d \in B /\ d \notin A
  OBVIOUS
<1>3. IsFiniteSet(A) /\ HeldIn(st, p, l) = Cardinality(A) /\ HeldIn(st, p, l) \in Nat
  BY HeldFinite
<1>4. IsFiniteSet(B) /\ HeldIn(st, p, d) = Cardinality(B) /\ HeldIn(st, p, d) \in Nat
  BY HeldFinite
<1> HIDE DEF A, B
<1>5. Cardinality(A) <= Cardinality(B)
  BY <1>1, <1>4, FS_Subset
<1>6. ASSUME d \in B, d \notin A PROVE Cardinality(A) < Cardinality(B)
  <2>1. IsFiniteSet(A \cup {d}) /\ Cardinality(A \cup {d}) = Cardinality(A) + 1
    BY <1>3, <1>6, OneMember
  <2>2. Cardinality(A \cup {d}) <= Cardinality(B)
    <3>1. A \cup {d} \subseteq B
      BY <1>1, <1>6
    <3> QED
      BY <3>1, <1>4, FS_Subset
  <2> QED
    BY <2>1, <2>2, <1>3, <1>4
<1> QED
  BY <1>2, <1>3, <1>4, <1>5, <1>6

\* The first session counts.
LEMMA HeldOne ==
  ASSUME NEW st, NEW p, NEW d \in Nat, p.entered = d, p.sym \in DOMAIN st[d].bars
  PROVE  HeldIn(st, p, d) \in Nat /\ 0 < HeldIn(st, p, d)
<1> DEFINE B == {t \in p.entered .. d : p.sym \in DOMAIN st[t].bars}
<1>1. IsFiniteSet(B) /\ HeldIn(st, p, d) = Cardinality(B) /\ HeldIn(st, p, d) \in Nat
  BY HeldFinite
<1>2. d \in B
  OBVIOUS
<1> HIDE DEF B
<1>3. Cardinality(B) # 0
  BY <1>1, <1>2, FS_EmptySet
<1> QED
  BY <1>1, <1>3

\* Later sessions do not matter.
LEMMA HeldSame ==
  ASSUME NEW st, NEW su, NEW p, NEW d \in Nat, p.entered \in Nat,
         \A t \in p.entered .. d : su[t] = st[t]
  PROVE  HeldIn(su, p, d) = HeldIn(st, p, d)
<1>1. {t \in p.entered .. d : p.sym \in DOMAIN su[t].bars} = {t \in p.entered .. d : p.sym \in DOMAIN st[t].bars}
  OBVIOUS
<1> QED
  BY <1>1 DEF HeldIn

\* As many bars as sessions, one more for each forced repeat; may one be added?
CountedBars(st, f, p, d) == p.bars <= HeldIn(st, p, d) + f
MayAge(st, f, p, d) ==
  CountedBars(st, f, p, d) /\ (p.sym \in DOMAIN st[d].bars => p.bars < HeldIn(st, p, d) + f)

\* A run about d, after the one about l or forced.
LEMMA DayAges ==
  ASSUME NEW st, NEW f \in Nat, NEW g \in Nat, NEW p, NEW l \in Nat, NEW d \in Nat, l <= d,
         p.entered \in Nat, p.entered <= l, p.bars \in Nat, CountedBars(st, f, p, l),
         (l < d /\ g = f) \/ (l = d /\ g = f + 1)
  PROVE  MayAge(st, g, p, d)
<1>1. /\ HeldIn(st, p, l) \in Nat /\ HeldIn(st, p, d) \in Nat /\ HeldIn(st, p, l) <= HeldIn(st, p, d)
      /\ l < d /\ p.entered <= d /\ p.sym \in DOMAIN st[d].bars => HeldIn(st, p, l) < HeldIn(st, p, d)
  BY HeldLater
<1> QED
  BY <1>1 DEF CountedBars, MayAge

LEMMA CountedSame ==
  ASSUME NEW st, NEW su, NEW p, NEW d \in Nat, p.entered \in Nat, p.entered <= d, NEW f,
         \A t \in p.entered .. d : su[t] = st[t]
  PROVE  /\ CountedBars(st, f, p, d) => CountedBars(su, f, p, d)
         /\ MayAge(st, f, p, d) => MayAge(su, f, p, d)
<1>1. HeldIn(su, p, d) = HeldIn(st, p, d)
  BY HeldSame
<1>2. su[d] = st[d]
  OBVIOUS
<1> QED
  BY <1>1, <1>2 DEF CountedBars, MayAge

LEMMA AgedCounted ==
  ASSUME NEW st, NEW f \in Nat, NEW p, NEW d \in Nat, p.entered \in Nat, p.bars \in Nat,
         MayAge(st, f, p, d), p.sym \in DOMAIN st[d].bars,
         NEW q, q.sym = p.sym, q.entered = p.entered, q.bars = p.bars + 1
  PROVE  CountedBars(st, f, q, d)
<1>1. HeldIn(st, q, d) = HeldIn(st, p, d)
  BY DEF HeldIn
<1>2. HeldIn(st, p, d) \in Nat
  BY HeldFinite
<1> QED
  BY <1>1, <1>2 DEF CountedBars, MayAge

LEMMA NewMayAge ==
  ASSUME NEW st, NEW f \in Nat, NEW p, NEW d \in Nat, p.entered = d, p.bars = 0,
         p.sym \in DOMAIN st[d].bars
  PROVE  MayAge(st, f, p, d)
BY HeldOne DEF CountedBars, MayAge

\* The rows of a file of rows, each once.
RowsIn(s) == {s[i] : i \in DOMAIN s}
EachOnce(s) == s \in Seq(RowsIn(s)) /\ IsFiniteSet(RowsIn(s)) /\ Cardinality(RowsIn(s)) = Len(s)

LEMMA RowAppended ==
  ASSUME NEW s, EachOnce(s), NEW x, x \notin RowsIn(s), NEW t, t = Append(s, x)
  PROVE  EachOnce(t) /\ RowsIn(t) = RowsIn(s) \cup {x}
<1> DEFINE R == RowsIn(s)  V == R \cup {x}
<1>1. s \in Seq(R) /\ IsFiniteSet(R) /\ Cardinality(R) = Len(s)
  BY DEF EachOnce
<1>2. V = RowsIn(s) \cup {x}
  OBVIOUS
<1> HIDE DEF R
<1>3. s \in Seq(V)
  BY <1>1
<1> HIDE DEF V
<1>4. x \in V
  BY <1>2
<1>5. /\ t \in Seq(V) /\ Len(t) = Len(s) + 1 /\ DOMAIN t = 1 .. Len(s) + 1 /\ t[Len(s) + 1] = x
      /\ DOMAIN s = 1 .. Len(s) /\ Len(s) \in Nat /\ \A i \in 1 .. Len(s) : t[i] = s[i]
  BY <1>3, <1>4
<1>6. RowsIn(t) = RowsIn(s) \cup {x}
  <2>1. \A y \in RowsIn(t) : y \in RowsIn(s) \cup {x}
    BY <1>5 DEF RowsIn
  <2>2. \A y \in RowsIn(s) : y \in RowsIn(t)
    BY <1>5 DEF RowsIn
  <2>3. x \in RowsIn(t)
    BY <1>5 DEF RowsIn
  <2> QED
    BY <2>1, <2>2, <2>3
<1>7. IsFiniteSet(V) /\ Cardinality(V) = Cardinality(R) + 1
  BY <1>1, <1>2, OneMember DEF R
<1> QED
  BY <1>1, <1>2, <1>5, <1>6, <1>7 DEF EachOnce

LEMMA KeyCount ==
  ASSUME NEW rs, NEW d, RowsFit(rs, d), NEW K, K = {<<r.sym, r.entered>> : r \in rs}
  PROVE  Cardinality(K) = Cardinality(rs)
<1> DEFINE f == [r \in rs |-> <<r.sym, r.entered>>]
<1>1. f \in [rs -> K] /\ \A k \in K : \E r \in rs : f[r] = k
  OBVIOUS
<1>2. \A r, s \in rs : f[r] = f[s] => r = s
  BY DEF RowsFit
<1> HIDE DEF f
<1>3. ExistsBijection(rs, K)
  BY <1>1, <1>2 DEF ExistsBijection, Bijection, Injection, Surjection, IsInjective
<1> QED
  BY <1>3, FS_Bijection DEF RowsFit

LEMMA ThreeParts ==
  ASSUME NEW A, NEW B, NEW C, IsFiniteSet(A), IsFiniteSet(B), IsFiniteSet(C),
         A \cap B = {}, A \cap C = {}, B \cap C = {}
  PROVE  Cardinality(A \cup B \cup C) = Cardinality(A) + Cardinality(B) + Cardinality(C)
<1> DEFINE U == A \cup B
<1>1. IsFiniteSet(U) /\ Cardinality(U) = Cardinality(A) + Cardinality(B) - Cardinality(A \cap B)
  BY FS_Union
<1>2. U \cap C = {} /\ A \cup B \cup C = U \cup C
  OBVIOUS
<1> HIDE DEF U
<1>3. Cardinality(U \cup C) = Cardinality(U) + Cardinality(C) - Cardinality(U \cap C)
  BY <1>1, FS_Union
<1>4. Cardinality(A \cap B) = 0 /\ Cardinality(U \cap C) = 0
  BY <1>2, FS_EmptySet
<1>5. Cardinality(A) \in Nat /\ Cardinality(B) \in Nat /\ Cardinality(C) \in Nat /\ Cardinality(U) \in Nat
  BY <1>1, FS_CardinalityType
<1>6. Cardinality(U) = Cardinality(A) + Cardinality(B)
  BY <1>1, <1>4, <1>5
<1>7. Cardinality(U \cup C) = Cardinality(U) + Cardinality(C)
  BY <1>3, <1>4, <1>5
<1> QED
  BY <1>2, <1>6, <1>7
-----------------------------------------------------------------------------
(* Days in their order, and the window of the first w of them                *)

UpTo(F, t) == {u \in F : u <= t}
Rank(F, t) == Cardinality(UpTo(F, t))
WindowOf(F, w) == {t \in F : Rank(F, t) <= w}

LEMMA RankTyped ==
  ASSUME NEW n \in Nat, NEW F \in SUBSET (1 .. n), NEW t, NEW w
  PROVE  /\ IsFiniteSet(F) /\ IsFiniteSet(UpTo(F, t)) /\ Rank(F, t) \in Nat
         /\ IsFiniteSet(WindowOf(F, w)) /\ Cardinality(WindowOf(F, w)) \in Nat
<1>1. IsFiniteSet(1 .. n)
  BY FS_Interval
<1>2. UpTo(F, t) \subseteq F /\ WindowOf(F, w) \subseteq F
  BY DEF UpTo, WindowOf
<1> QED
  BY <1>1, <1>2, FS_Subset, FS_CardinalityType DEF Rank

LEMMA RankSmaller ==
  ASSUME NEW n \in Nat, NEW F \in SUBSET (1 .. n), NEW G \in SUBSET F, NEW t, NEW u,
         UpTo(G, t) \subseteq UpTo(F, u)
  PROVE  Rank(G, t) <= Rank(F, u)
<1>1. IsFiniteSet(UpTo(F, u))
  BY RankTyped
<1> QED
  BY <1>1, FS_Subset DEF Rank

\* A window has no more than w days, the last of which is its greatest.
LEMMA WindowSmall ==
  ASSUME NEW n \in Nat, NEW F \in SUBSET (1 .. n), NEW w \in Nat
  PROVE  Cardinality(WindowOf(F, w)) <= w
<1>2. CASE WindowOf(F, w) = {}
  BY <1>2, FS_EmptySet
<1>3. CASE WindowOf(F, w) # {}
  <2>0. WindowOf(F, w) \subseteq F /\ F \subseteq Nat
    BY DEF WindowOf
  <2>1. WindowOf(F, w) \in SUBSET Nat /\ IsFiniteSet(WindowOf(F, w))
    BY <2>0, RankTyped
  <2>2. PICK m \in WindowOf(F, w) : \A t \in WindowOf(F, w) : t <= m
    BY <1>3, <2>1, GreatestFinite
  <2>3. Rank(F, m) <= w /\ WindowOf(F, w) \subseteq UpTo(F, m)
    BY <2>2 DEF WindowOf, UpTo
  <2>4. Cardinality(WindowOf(F, w)) <= Rank(F, m) /\ Cardinality(WindowOf(F, w)) \in Nat /\ Rank(F, m) \in Nat
    BY <2>3, RankTyped, FS_Subset DEF Rank
  <2> QED
    BY <2>3, <2>4
<1> QED
  BY <1>2, <1>3

\* Another stored day moves the later days back by one.
LEMMA RankAdded ==
  ASSUME NEW n \in Nat, NEW F \in SUBSET (1 .. n), NEW x \in 1 .. n, x \notin F, NEW t \in Nat
  PROVE  Rank(F \cup {x}, t) = IF t < x THEN Rank(F, t) ELSE Rank(F, t) + 1
<1>0. x \in Nat /\ F \subseteq Nat /\ x \notin UpTo(F, t)
  BY DEF UpTo
<1>1. x \in Nat /\ IsFiniteSet(UpTo(F, t)) /\ x \notin UpTo(F, t)
  BY <1>0, RankTyped
<1>2. CASE t < x
  <2>1. UpTo(F \cup {x}, t) = UpTo(F, t)
    BY <1>0, <1>2 DEF UpTo
  <2> QED
    BY <1>2, <2>1 DEF Rank
<1>3. CASE ~(t < x)
  <2>1. UpTo(F \cup {x}, t) = UpTo(F, t) \cup {x}
    BY <1>0, <1>3 DEF UpTo
  <2>2. Cardinality(UpTo(F, t) \cup {x}) = Cardinality(UpTo(F, t)) + 1
    BY <1>1, FS_AddElement
  <2> QED
    BY <1>3, <2>1, <2>2 DEF Rank
<1> QED
  BY <1>2, <1>3

\* A day stored after the window leaves it as it is; an earlier window is
\* never later than the new one.
LEMMA WindowAdded ==
  ASSUME NEW n \in Nat, NEW F \in SUBSET (1 .. n), NEW x \in 1 .. n, x \notin F, NEW w \in Nat
  PROVE  /\ (\A u \in WindowOf(F \cup {x}, w) : u < x) => WindowOf(F \cup {x}, w) = WindowOf(F, w)
         /\ (\A u \in F : u < x) => WindowOf(F, w) \subseteq WindowOf(F \cup {x}, w)
         /\ (\A u \in F : u < x) /\ Cardinality(WindowOf(F, w)) = w =>
              WindowOf(F \cup {x}, w) = WindowOf(F, w)
<1> DEFINE G == F \cup {x}
<1>0. x \in Nat /\ F \subseteq Nat /\ G \in SUBSET (1 .. n)
  OBVIOUS
<1> HIDE DEF G
<1>2. /\ \A t \in F : Rank(F, t) \in Nat /\ t \in Nat /\ Rank(G, t) \in Nat
      /\ Rank(G, x) \in Nat /\ Rank(F, x) \in Nat /\ x \in Nat /\ G \in SUBSET (1 .. n)
  <2>1. \A t : Rank(F, t) \in Nat /\ Rank(G, t) \in Nat
    BY <1>0, RankTyped
  <2> QED
    BY <1>0, <2>1
<1> USE DEF G
<1>3. /\ \A t \in F : Rank(G, t) = IF t < x THEN Rank(F, t) ELSE Rank(F, t) + 1
      /\ Rank(G, x) = Rank(F, x) + 1
  BY <1>2, RankAdded
<1>4. ASSUME \A u \in WindowOf(G, w) : u < x PROVE WindowOf(G, w) = WindowOf(F, w)
  <2>1. x \in G /\ x \notin WindowOf(G, w)
    BY <1>2, <1>4
  <2>2. Rank(G, x) > w
    BY <1>2, <2>1 DEF WindowOf
  <2>3. ASSUME NEW t \in F, t \in WindowOf(F, w) PROVE t \in WindowOf(G, w)
    <3>1. CASE t < x
      BY <1>2, <1>3, <2>3, <3>1 DEF WindowOf
    <3>2. CASE ~(t < x)
      <4>1. UpTo(F, x) \subseteq UpTo(F, t)
        <5>1. t \in Nat /\ x <= t
          BY <1>0, <2>3, <3>2
        <5>2. \A u \in F : u <= x => u <= t
          BY <1>0, <5>1
        <5> QED
          BY <5>2 DEF UpTo
      <4>2. Rank(F, x) <= Rank(F, t)
        BY <4>1, RankSmaller
      <4>3. PICK y : y = x
        OBVIOUS
      <4>4. CASE Rank(F, x) < Rank(F, t)
        BY <1>2, <1>3, <2>2, <2>3, <4>4 DEF WindowOf
      <4>5. CASE Rank(F, x) = Rank(F, t)
        <5>1. t \notin UpTo(F, x)
          BY <1>2, <2>3, <3>2 DEF UpTo
        <5>2. UpTo(F, x) \cup {t} \subseteq UpTo(F, t)
          BY <1>2, <2>3, <4>1 DEF UpTo
        <5>3. /\ IsFiniteSet(UpTo(F, x)) /\ IsFiniteSet(UpTo(F, t))
              /\ Cardinality(UpTo(F, x) \cup {t}) = Rank(F, x) + 1
          BY <5>1, RankTyped, FS_AddElement DEF Rank
        <5>4. Rank(F, x) + 1 <= Rank(F, t)
          BY <5>2, <5>3, FS_Subset DEF Rank
        <5> QED
          BY <1>2, <4>5, <5>4
      <4> QED
        BY <1>2, <4>2, <4>4, <4>5
    <3> QED
      BY <3>1, <3>2
  <2>4. ASSUME NEW t \in WindowOf(G, w) PROVE t \in WindowOf(F, w)
    BY <1>2, <1>3, <1>4, <2>4 DEF WindowOf
  <2>5. WindowOf(F, w) \subseteq F
    BY DEF WindowOf
  <2> QED
    BY <2>3, <2>4, <2>5
<1>5. ASSUME \A u \in F : u < x PROVE WindowOf(F, w) \subseteq WindowOf(G, w)
  BY <1>2, <1>3, <1>5 DEF WindowOf
<1>6. ASSUME \A u \in F : u < x, Cardinality(WindowOf(F, w)) = w PROVE WindowOf(G, w) = WindowOf(F, w)
  <2>1. x \notin WindowOf(G, w)
    <3>1. SUFFICES ASSUME x \in WindowOf(G, w) PROVE FALSE
      OBVIOUS
    <3>2. WindowOf(F, w) \subseteq UpTo(F, x)
      <4>1. \A u \in F : u <= x
        BY <1>0, <1>6
      <4> QED
        BY <4>1 DEF WindowOf, UpTo
    <3>3. w <= Rank(F, x)
      BY <1>6, <3>2, RankTyped, FS_Subset DEF Rank
    <3>4. Rank(F, x) + 1 <= w
      BY <1>3, <3>1 DEF WindowOf
    <3> QED
      BY <1>2, <3>3, <3>4
  <2>2. \A u \in WindowOf(G, w) : u \in F /\ u < x
    BY <1>6, <2>1 DEF WindowOf
  <2> QED
    BY <1>4, <2>2
<1> QED
  BY <1>4, <1>5, <1>6

-----------------------------------------------------------------------------
(* Records edited in several fields (Bits: the truth values)                 *)

\* A row switched off is otherwise as it was.
LEMMA RowOffIn ==
  ASSUME NEW Bits, NEW H, NEW row \in [hash : H, active : Bits, first : Nat, last : Nat], NEW b \in Bits
  PROVE  LET off == [row EXCEPT !.active = b]
         IN  /\ off \in [hash : H, active : Bits, first : Nat, last : Nat]
             /\ off.active = b /\ off.first = row.first /\ off.last = row.last /\ off.hash = row.hash
OBVIOUS

LEMMA RunEndedIn ==
  ASSUME NEW Bits, NEW T, NEW C, NEW row \in [table : T, done : Bits, error : Bits, stats : C],
         NEW b \in Bits, NEW error \in Bits, NEW stats \in C,
         NEW new, new = [row EXCEPT !.done = b, !.error = error, !.stats = stats]
  PROVE  /\ new \in [table : T, done : Bits, error : Bits, stats : C]
         /\ new.table = row.table /\ new.done = b /\ new.error = error /\ new.stats = stats
OBVIOUS

-----------------------------------------------------------------------------
(* Lists of tasks                                                            *)

\* Of what a call has still to do, b may come after a.
Behind(a, b) ==
  /\ \/ b.do = "candidate"
     \/ b.do = "enter" /\ a.do \notin {"candidate", "enter"}
     \/ b.do = "position" /\ a.do \in {"position", "outcome"}
     \/ b.do \in {"fill", "positions"} /\ a.do = "fill"
  /\ a.do = b.do \/ a.do = "enter" => a.id # b.id
Agenda(w) ==
  /\ w \in Seq(ItemsOf(w))
  /\ \A j, k \in DOMAIN w : j < k => Behind(w[j], w[k])

LEMMA AgendaTail ==
  ASSUME NEW w, Agenda(w), w # <<>>
  PROVE  /\ Agenda(Tail(w)) /\ ItemsOf(Tail(w)) \subseteq ItemsOf(w) /\ Head(w) \in ItemsOf(w)
         /\ \A b \in ItemsOf(Tail(w)) : Behind(Head(w), b)
<1> DEFINE t == Tail(w)
<1>1. PICK S : S = ItemsOf(w)
  OBVIOUS
<1>2. w \in Seq(S) /\ Len(w) \in Nat /\ Len(w) # 0 /\ DOMAIN w = 1 .. Len(w)
  BY <1>1 DEF Agenda
<1>3. /\ t \in Seq(S) /\ Len(t) = Len(w) - 1 /\ DOMAIN t = 1 .. Len(w) - 1
      /\ \A k \in DOMAIN t : t[k] = w[k + 1]
  BY <1>2
<1>4. Head(w) = w[1] /\ 1 \in DOMAIN w
  BY <1>2
<1> HIDE DEF t
<1>5. \A k \in DOMAIN t : k \in Nat /\ k + 1 \in DOMAIN w /\ 1 < k + 1
  BY <1>2, <1>3
<1>6. ItemsOf(t) \subseteq ItemsOf(w)
  BY <1>3, <1>5 DEF ItemsOf
<1>7. t \in Seq(ItemsOf(t))
  <2>1. \A k \in 1 .. Len(t) : t[k] \in ItemsOf(t)
    BY <1>2, <1>3 DEF ItemsOf
  <2>2. Len(t) \in Nat /\ t = [k \in 1 .. Len(t) |-> t[k]]
    BY <1>2, <1>3
  <2> QED
    BY <2>1, <2>2
<1>8. \A j, k \in DOMAIN t : j < k => Behind(t[j], t[k])
  <2> SUFFICES ASSUME NEW j \in DOMAIN t, NEW k \in DOMAIN t, j < k PROVE Behind(t[j], t[k])
    OBVIOUS
  <2>1. j + 1 \in DOMAIN w /\ k + 1 \in DOMAIN w /\ j + 1 < k + 1
    BY <1>5
  <2> QED
    BY <2>1, <1>3 DEF Agenda
<1>9. \A b \in ItemsOf(t) : Behind(Head(w), b)
  BY <1>3, <1>4, <1>5 DEF ItemsOf, Agenda
<1> QED
  BY <1>4, <1>6, <1>7, <1>8, <1>9 DEF Agenda, ItemsOf, t

LEMMA AgendaJoin ==
  ASSUME NEW u, NEW w, Agenda(u), Agenda(w),
         \A a \in ItemsOf(u), b \in ItemsOf(w) : Behind(a, b)
  PROVE  Agenda(u \o w) /\ ItemsOf(u \o w) \subseteq ItemsOf(u) \cup ItemsOf(w)
<1> DEFINE t == u \o w
<1>1. PICK S : S = ItemsOf(u) \cup ItemsOf(w)
  OBVIOUS
<1>2. PICK m, n : m = Len(u) /\ n = Len(w)
  OBVIOUS
<1>3. /\ u \in Seq(S) /\ w \in Seq(S) /\ m \in Nat /\ n \in Nat
      /\ DOMAIN u = 1 .. m /\ DOMAIN w = 1 .. n
  <2>1. /\ u \in Seq(ItemsOf(u)) /\ w \in Seq(ItemsOf(w))
    BY DEF Agenda
  <2> QED
    BY <1>1, <1>2, <2>1
<1>4. /\ t \in Seq(S) /\ Len(t) = m + n /\ DOMAIN t = 1 .. m + n
      /\ \A k \in 1 .. m : t[k] = u[k]
      /\ \A k \in m + 1 .. m + n : t[k] = w[k - m]
  BY <1>2, <1>3
<1> HIDE DEF t
<1>5. \A k \in DOMAIN t : k \in Int /\ (k \in DOMAIN u \/ (k > m /\ k - m \in DOMAIN w))
  BY <1>3, <1>4
<1>6. ItemsOf(t) \subseteq ItemsOf(u) \cup ItemsOf(w)
  BY <1>3, <1>4, <1>5 DEF ItemsOf
<1>7. t \in Seq(ItemsOf(t))
  <2>1. \A k \in 1 .. Len(t) : t[k] \in ItemsOf(t)
    BY <1>4 DEF ItemsOf
  <2>2. Len(t) \in Nat /\ t = [k \in 1 .. Len(t) |-> t[k]]
    BY <1>3, <1>4
  <2> QED
    BY <2>1, <2>2
<1>8. \A j, k \in DOMAIN t : j < k => Behind(t[j], t[k])
  <2> SUFFICES ASSUME NEW j \in DOMAIN t, NEW k \in DOMAIN t, j < k PROVE Behind(t[j], t[k])
    OBVIOUS
  <2>0. j \in Int /\ k \in Int /\ m \in Int
    BY <1>3, <1>5
  <2>1. CASE k \in DOMAIN u
    <3>1. j \in DOMAIN u
      BY <1>3, <1>5, <2>0, <2>1
    <3> QED
      BY <1>3, <1>4, <2>1, <3>1 DEF Agenda
  <2>2. CASE k > m /\ k - m \in DOMAIN w
    <3>1. t[k] = w[k - m]
      BY <1>3, <1>4, <2>0, <2>2
    <3>2. CASE j \in DOMAIN u
      <4>1. u[j] \in ItemsOf(u) /\ w[k - m] \in ItemsOf(w)
        BY <2>2, <3>2 DEF ItemsOf
      <4>2. t[j] = u[j]
        BY <1>3, <1>4, <3>2
      <4> QED
        BY <3>1, <4>1, <4>2
    <3>3. CASE j > m /\ j - m \in DOMAIN w
      <4>1. t[j] = w[j - m] /\ j - m < k - m
        BY <1>3, <1>4, <2>0, <3>3
      <4> QED
        BY <2>2, <3>1, <3>3, <4>1 DEF Agenda
    <3> QED
      BY <1>5, <3>2, <3>3
  <2> QED
    BY <1>5, <2>1, <2>2
<1> QED
  BY <1>6, <1>7, <1>8 DEF Agenda, t

LEMMA AgendaOne ==
  ASSUME NEW a
  PROVE  Agenda(<<a>>) /\ ItemsOf(<<a>>) = {a}
<1>1. DOMAIN <<a>> = {1} /\ <<a>>[1] = a
  OBVIOUS
<1>2. ItemsOf(<<a>>) = {a}
  BY <1>1 DEF ItemsOf
<1>3. <<a>> \in Seq({a})
  OBVIOUS
<1> QED
  BY <1>1, <1>2, <1>3 DEF Agenda
=============================================================================
