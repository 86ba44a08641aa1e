---------------------------- MODULE SumTheorems ----------------------------
(***************************************************************************)
(* Lemmas about SumFunctionOnSet, for the ledgers that the other modules    *)
(* keep: what a sum becomes when one summand changes.                       *)
(*                                                                          *)
(* SumFunctionOnSet is a recursive function over the subsets of a finite    *)
(* set.  Induction is stated here with a set in the place of a predicate,   *)
(* and rests on the least natural number of a set.                          *)
(***************************************************************************)
EXTENDS Functions, FiniteSetTheorems, WellFoundedInduction, TLAPS

-----------------------------------------------------------------------------
(* Induction.                                                               *)

LEMMA LeastNatural ==
  ASSUME NEW T, T \subseteq Nat, T # {}
  PROVE  \E n \in T : \A m \in T : n <= m
<1> DEFINE Less == {ss \in Nat \X Nat : ss[1] < ss[2]}
<1>1. IsWellFoundedOn(Less, Nat)
  BY NatLessThanWellFounded DEF OpToRel
<1>2. PICK n \in T : \A m \in T : <<m, n>> \notin Less
  <2> HIDE DEF Less
  <2> QED BY <1>1, WFMin
<1>3. ASSUME NEW m \in T, m < n
      PROVE  FALSE
  BY <1>2, <1>3
<1> QED BY <1>3

\* A family that holds a set as soon as it holds all that are smaller holds them all.
LEMMA SubsetInduction ==
  ASSUME NEW S, IsFiniteSet(S), NEW C,
         ASSUME NEW T \in SUBSET S, \A U \in SUBSET T : U # T => U \in C
         PROVE  T \in C
  PROVE  \A T \in SUBSET S : T \in C
<1> DEFINE B == {T \in SUBSET S : T \notin C}
<1> SUFFICES ASSUME B # {}
             PROVE  FALSE
  OBVIOUS
<1>1. \A T \in B : IsFiniteSet(T) /\ Cardinality(T) \in Nat
  BY FS_Subset, FS_CardinalityType
<1>2. PICK n \in {Cardinality(T) : T \in B} : \A m \in {Cardinality(T) : T \in B} : n <= m
  <2> DEFINE N == {Cardinality(T) : T \in B}
  <2>1. N \subseteq Nat /\ N # {}
    BY <1>1
  <2> HIDE DEF N
  <2>2. \E n \in N : \A m \in N : n <= m
    BY <2>1, LeastNatural
  <2> QED BY <2>2 DEF N
<1>3. PICK T \in B : n = Cardinality(T)
  OBVIOUS
<1>4. ASSUME NEW U \in SUBSET T, U # T
      PROVE  U \in C
  <2>1. IsFiniteSet(T) /\ Cardinality(T) \in Nat /\ U \in SUBSET S
    BY <1>1
  <2>2. Cardinality(U) <= Cardinality(T) /\ Cardinality(U) # Cardinality(T)
    BY <1>4, <2>1, FS_Subset
  <2>3. U \in B => Cardinality(U) \in Nat /\ Cardinality(T) <= Cardinality(U)
    BY <1>1, <1>2, <1>3
  <2> QED BY <2>1, <2>2, <2>3
<1> QED BY <1>4

-----------------------------------------------------------------------------
(* The recursive function behind a sum exists, and is one.                  *)

Picked(s) == CHOOSE x \in s : TRUE

IsSum(g, f, S) ==
  g = [s \in SUBSET S |-> IF s = {} THEN 0 ELSE f[Picked(s)] + g[s \ {Picked(s)}]]

SumOf(f, S) == CHOOSE g : IsSum(g, f, S)

LEMMA SumIs ==
  ASSUME NEW f, NEW S
  PROVE  SumFunctionOnSet(f, S) = SumOf(f, S)[S]
BY DEF SumFunctionOnSet, FoldFunctionOnSet, MapThenFoldSet, IsSum, SumOf, Picked

LEMMA PickedIsIn == ASSUME NEW s, s # {} PROVE Picked(s) \in s
BY DEF Picked

LEMMA IsSumAt ==
  ASSUME NEW g, NEW f, NEW S, IsSum(g, f, S), NEW s \in SUBSET S
  PROVE  g[s] = IF s = {} THEN 0 ELSE f[Picked(s)] + g[s \ {Picked(s)}]
BY DEF IsSum

LEMMA SumsAgree ==
  ASSUME NEW f, NEW S, IsFiniteSet(S), NEW T \in SUBSET S,
         NEW g, IsSum(g, f, S), NEW h, IsSum(h, f, T)
  PROVE  g[T] = h[T]
<1> DEFINE C == {U \in SUBSET T : g[U] = h[U]}
<1>1. ASSUME NEW V \in SUBSET T, \A U \in SUBSET V : U # V => U \in C
      PROVE  V \in C
  <2>1. V \in SUBSET S
    OBVIOUS
  <2>2. g[V] = IF V = {} THEN 0 ELSE f[Picked(V)] + g[V \ {Picked(V)}]
    BY <2>1, IsSumAt
  <2>3. h[V] = IF V = {} THEN 0 ELSE f[Picked(V)] + h[V \ {Picked(V)}]
    BY IsSumAt
  <2>4. V # {} => g[V \ {Picked(V)}] = h[V \ {Picked(V)}]
    BY <1>1, PickedIsIn
  <2> QED BY <2>2, <2>3, <2>4
<1>2. IsFiniteSet(T)
  BY FS_Subset
<1> HIDE DEF C
<1>3. T \in C
  BY <1>1, <1>2, SubsetInduction
<1> QED BY <1>3 DEF C

LEMMA SumExists ==
  ASSUME NEW f, NEW S, IsFiniteSet(S)
  PROVE  IsSum(SumOf(f, S), f, S)
<1> DEFINE C == {T \in SUBSET S : \E g : IsSum(g, f, T)}
<1>1. ASSUME NEW T \in SUBSET S, \A U \in SUBSET T : U # T => U \in C
      PROVE  T \in C
  <2> DEFINE value(s) == SumOf(f, s)[s]
             g == [s \in SUBSET T |->
                     IF s = {} THEN 0 ELSE f[Picked(s)] + value(s \ {Picked(s)})]
  <2>1. ASSUME NEW U \in SUBSET T, U # T
        PROVE  IsSum(SumOf(f, U), f, U)
    <3>1. \E k : IsSum(k, f, U)
      BY <1>1, <2>1
    <3> QED BY <3>1 DEF SumOf
  <2>2. ASSUME NEW U \in SUBSET T, U # T
        PROVE  g[U] = value(U)
    <3>1. value(U) = IF U = {} THEN 0 ELSE f[Picked(U)] + SumOf(f, U)[U \ {Picked(U)}]
      BY <2>1, <2>2, IsSumAt
    <3>2. ASSUME U # {}
          PROVE  SumOf(f, U)[U \ {Picked(U)}] = value(U \ {Picked(U)})
      <4> DEFINE W == U \ {Picked(U)}
      <4>1. W \in SUBSET U /\ W \in SUBSET T /\ W # T
        BY <2>2, <3>2, PickedIsIn
      <4>2. IsSum(SumOf(f, W), f, W)
        BY <2>1, <4>1
      <4>3. IsFiniteSet(U)
        BY FS_Subset
      <4>4. IsSum(SumOf(f, U), f, U)
        BY <2>1, <2>2
      <4> HIDE DEF W
      <4>5. SumOf(f, U)[W] = SumOf(f, W)[W]
        BY <4>1, <4>2, <4>3, <4>4, SumsAgree
      <4> QED BY <4>5 DEF W
    <3> HIDE DEF value
    <3> QED BY <3>1, <3>2
  <2>3. ASSUME NEW s \in SUBSET T, s # {}
        PROVE  s \ {Picked(s)} \in SUBSET T /\ s \ {Picked(s)} # T
    BY <2>3, PickedIsIn
  <2>4. \A s \in SUBSET T : s # {} => g[s \ {Picked(s)}] = value(s \ {Picked(s)})
    <3> HIDE DEF g, value
    <3> QED BY <2>2, <2>3
  <2>5. g = [s \in SUBSET T |-> IF s = {} THEN 0 ELSE f[Picked(s)] + g[s \ {Picked(s)}]]
    <3> HIDE DEF value
    <3> QED BY <2>4
  <2>6. IsSum(g, f, T)
    <3> HIDE DEF g
    <3> QED BY <2>5 DEF IsSum
  <2> HIDE DEF g
  <2> QED BY <2>6
<1> HIDE DEF C
<1>2. S \in C
  BY <1>1, SubsetInduction
<1>3. \E g : IsSum(g, f, S)
  BY <1>2 DEF C
<1> QED BY <1>3 DEF SumOf
-----------------------------------------------------------------------------
(* What a sum is.                                                           *)

LEMMA SumOfNone == ASSUME NEW f PROVE SumFunctionOnSet(f, {}) = 0
<1>1. IsSum(SumOf(f, {}), f, {})
  BY FS_EmptySet, SumExists
<1>2. SumOf(f, {})[{}] = 0
  BY <1>1, IsSumAt
<1> QED BY <1>2, SumIs

LEMMA SumUnfolds ==
  ASSUME NEW f, NEW S, IsFiniteSet(S), S # {}
  PROVE  SumFunctionOnSet(f, S) = f[Picked(S)] + SumFunctionOnSet(f, S \ {Picked(S)})
<1> DEFINE T == S \ {Picked(S)}
<1>1. T \in SUBSET S /\ IsFiniteSet(T)
  BY FS_Subset
<1>2. IsSum(SumOf(f, S), f, S) /\ IsSum(SumOf(f, T), f, T)
  BY <1>1, SumExists
<1>3. SumOf(f, S)[S] = f[Picked(S)] + SumOf(f, S)[T]
  BY <1>2, IsSumAt
<1> HIDE DEF T
<1>4. SumOf(f, S)[T] = SumOf(f, T)[T]
  BY <1>1, <1>2, SumsAgree
<1>5. SumFunctionOnSet(f, S) = SumOf(f, S)[S] /\ SumFunctionOnSet(f, T) = SumOf(f, T)[T]
  BY SumIs
<1>6. SumFunctionOnSet(f, S) = f[Picked(S)] + SumFunctionOnSet(f, T)
  BY <1>3, <1>4, <1>5
<1> QED BY <1>6 DEF T

\* A sum is an integer, and depends on the summands alone.
LEMMA SumType ==
  ASSUME NEW S, IsFiniteSet(S), NEW f, \A x \in S : f[x] \in Int
  PROVE  SumFunctionOnSet(f, S) \in Int
<1> DEFINE C == {T \in SUBSET S : SumFunctionOnSet(f, T) \in Int}
<1>1. ASSUME NEW T \in SUBSET S, \A U \in SUBSET T : U # T => U \in C
      PROVE  T \in C
  <2>1. CASE T = {}
    BY <2>1, SumOfNone
  <2>2. CASE T # {}
    <3>1. IsFiniteSet(T)
      BY FS_Subset
    <3>2. SumFunctionOnSet(f, T) = f[Picked(T)] + SumFunctionOnSet(f, T \ {Picked(T)})
      BY <2>2, <3>1, SumUnfolds
    <3>3. f[Picked(T)] \in Int /\ SumFunctionOnSet(f, T \ {Picked(T)}) \in Int
      BY <1>1, <2>2, PickedIsIn
    <3> QED BY <3>2, <3>3
  <2> QED BY <2>1, <2>2
<1> HIDE DEF C
<1>2. S \in C
  BY <1>1, SubsetInduction
<1> QED BY <1>2 DEF C

LEMMA SumSame ==
  ASSUME NEW S, IsFiniteSet(S), NEW f, NEW g, \A x \in S : f[x] = g[x]
  PROVE  SumFunctionOnSet(f, S) = SumFunctionOnSet(g, S)
<1> DEFINE C == {T \in SUBSET S : SumFunctionOnSet(f, T) = SumFunctionOnSet(g, T)}
<1>1. ASSUME NEW T \in SUBSET S, \A U \in SUBSET T : U # T => U \in C
      PROVE  T \in C
  <2>1. CASE T = {}
    BY <2>1, SumOfNone
  <2>2. CASE T # {}
    <3>1. IsFiniteSet(T)
      BY FS_Subset
    <3>2. /\ SumFunctionOnSet(f, T) = f[Picked(T)] + SumFunctionOnSet(f, T \ {Picked(T)})
          /\ SumFunctionOnSet(g, T) = g[Picked(T)] + SumFunctionOnSet(g, T \ {Picked(T)})
      BY <2>2, <3>1, SumUnfolds
    <3>3. f[Picked(T)] = g[Picked(T)]
      BY <2>2, PickedIsIn
    <3>4. SumFunctionOnSet(f, T \ {Picked(T)}) = SumFunctionOnSet(g, T \ {Picked(T)})
      BY <1>1, <2>2, PickedIsIn
    <3> QED BY <3>2, <3>3, <3>4
  <2> QED BY <2>1, <2>2
<1> HIDE DEF C
<1>2. S \in C
  BY <1>1, SubsetInduction
<1> QED BY <1>2 DEF C

\* Any element can be taken out, not only the one the definition picks.
LEMMA SumWithout ==
  ASSUME NEW S, IsFiniteSet(S), NEW f, \A x \in S : f[x] \in Int, NEW y \in S
  PROVE  SumFunctionOnSet(f, S) = f[y] + SumFunctionOnSet(f, S \ {y})
<1> DEFINE C == {T \in SUBSET S :
                   \A x \in T : SumFunctionOnSet(f, T) = f[x] + SumFunctionOnSet(f, T \ {x})}
<1>1. ASSUME NEW T \in SUBSET S, \A U \in SUBSET T : U # T => U \in C
      PROVE  T \in C
  <2> SUFFICES ASSUME NEW x \in T
               PROVE  SumFunctionOnSet(f, T) = f[x] + SumFunctionOnSet(f, T \ {x})
    OBVIOUS
  <2> DEFINE z == Picked(T)
             R == T \ {x, z}
  <2>1. z \in T /\ IsFiniteSet(T)
    BY PickedIsIn, FS_Subset
  <2>2. SumFunctionOnSet(f, T) = f[z] + SumFunctionOnSet(f, T \ {z})
    BY <2>1, SumUnfolds
  <2> HIDE DEF z, R
  <2>3. CASE x = z
    BY <2>2, <2>3
  <2>4. CASE x # z
    <3>1. T \ {z} \in C /\ T \ {x} \in C
      BY <1>1, <2>1
    <3>2. (T \ {z}) \ {x} = R /\ (T \ {x}) \ {z} = R
      BY DEF R
    <3>3. /\ SumFunctionOnSet(f, T \ {z}) = f[x] + SumFunctionOnSet(f, R)
          /\ SumFunctionOnSet(f, T \ {x}) = f[z] + SumFunctionOnSet(f, R)
      BY <2>1, <2>4, <3>1, <3>2
    <3>4. IsFiniteSet(R) /\ R \subseteq S
      BY FS_Subset DEF R
    <3>5. SumFunctionOnSet(f, R) \in Int
      BY <3>4, SumType
    <3>6. f[x] \in Int /\ f[z] \in Int
      BY <2>1
    <3> QED BY <2>2, <3>3, <3>5, <3>6
  <2> QED BY <2>3, <2>4
<1> HIDE DEF C
<1>2. S \in C
  BY <1>1, SubsetInduction
<1> QED BY <1>2 DEF C

-----------------------------------------------------------------------------
(* What a sum becomes.                                                      *)

\* The summands of the elements of T, of all of which S is the set.
Part(f, T, x) == IF x \in T THEN f[x] ELSE 0

\* A step that touches one element of S, what it adds or whether it is counted.
LEMMA SumChanges ==
  ASSUME NEW S, IsFiniteSet(S), NEW T \in SUBSET S, NEW U \in SUBSET S, NEW y \in S,
         NEW f, NEW g, \A x \in T : f[x] \in Int, \A x \in U : g[x] \in Int,
         \A x \in S \ {y} : (x \in T <=> x \in U) /\ (x \in T => f[x] = g[x])
  PROVE  /\ SumFunctionOnSet(f, T) \in Int
         /\ SumFunctionOnSet(g, U) = SumFunctionOnSet(f, T) + Part(g, U, y) - Part(f, T, y)
<1>1. IsFiniteSet(T) /\ IsFiniteSet(U) /\ IsFiniteSet(T \ {y}) /\ T \ {y} = U \ {y}
  <2>1. IsFiniteSet(T) /\ IsFiniteSet(U)
    BY FS_Subset
  <2>2. T \ {y} \in SUBSET S
    OBVIOUS
  <2>3. IsFiniteSet(T \ {y})
    BY <2>2, FS_Subset
  <2> QED BY <2>1, <2>3
<1>2. SumFunctionOnSet(f, T \ {y}) = SumFunctionOnSet(g, T \ {y})
  BY <1>1, SumSame
<1>3. SumFunctionOnSet(f, T \ {y}) \in Int
  BY <1>1, SumType
<1>4. SumFunctionOnSet(f, T) = SumFunctionOnSet(f, T \ {y}) + Part(f, T, y)
  <2>1. CASE y \in T
    BY <1>1, <1>3, <2>1, SumWithout DEF Part
  <2>2. CASE y \notin T
    <3>1. T \ {y} = T
      BY <2>2
    <3>2. SumFunctionOnSet(f, T) = SumFunctionOnSet(f, T \ {y})
      BY <3>1
    <3>3. Part(f, T, y) = 0
      BY <2>2 DEF Part
    <3> QED BY <1>3, <3>2, <3>3
  <2> QED BY <2>1, <2>2
<1>5. SumFunctionOnSet(g, U) = SumFunctionOnSet(g, U \ {y}) + Part(g, U, y)
  <2>1. SumFunctionOnSet(g, U \ {y}) \in Int
    BY <1>1, <1>2, <1>3
  <2>2. CASE y \in U
    BY <1>1, <2>1, <2>2, SumWithout DEF Part
  <2>3. CASE y \notin U
    <3>1. U \ {y} = U
      BY <2>3
    <3>2. SumFunctionOnSet(g, U) = SumFunctionOnSet(g, U \ {y})
      BY <3>1
    <3>3. Part(g, U, y) = 0
      BY <2>3 DEF Part
    <3> QED BY <2>1, <3>2, <3>3
  <2> QED BY <2>2, <2>3
<1>6. Part(f, T, y) \in Int /\ Part(g, U, y) \in Int
  BY DEF Part
<1> QED BY <1>1, <1>2, <1>3, <1>4, <1>5, <1>6

\* A step that touches none.
LEMMA SumStays ==
  ASSUME NEW S, IsFiniteSet(S), NEW T \in SUBSET S, NEW U, U = T,
         NEW f, NEW g, \A x \in T : f[x] = g[x]
  PROVE  SumFunctionOnSet(g, U) = SumFunctionOnSet(f, T)
<1>1. IsFiniteSet(T)
  BY FS_Subset
<1> QED BY <1>1, SumSame

\* More elements and larger summands make no smaller sum.
LEMMA SumGrows ==
  ASSUME NEW S, IsFiniteSet(S), NEW A, A \subseteq S, NEW f, NEW g,
         \A x \in A : f[x] \in Int /\ g[x] \in Int /\ f[x] <= g[x],
         \A x \in S : g[x] \in Nat
  PROVE  SumFunctionOnSet(f, A) <= SumFunctionOnSet(g, S)
<1> DEFINE C == {T \in SUBSET S : SumFunctionOnSet(f, T \cap A) <= SumFunctionOnSet(g, T)}
<1>1. ASSUME NEW T \in SUBSET S, \A U \in SUBSET T : U # T => U \in C
      PROVE  T \in C
  <2>1. CASE T = {}
    <3>1. T \cap A = {}
      BY <2>1
    <3> QED BY <2>1, <3>1, SumOfNone
  <2>2. CASE T # {}
    <3>1. PICK y \in T : TRUE
      BY <2>2
    <3> DEFINE U == T \ {y}
    <3>2. /\ IsFiniteSet(T) /\ IsFiniteSet(U)
          /\ IsFiniteSet(T \cap A) /\ IsFiniteSet(U \cap A)
      <4>1. U \in SUBSET S /\ T \cap A \in SUBSET S /\ U \cap A \in SUBSET S
        OBVIOUS
      <4> QED BY <4>1, FS_Subset
    <3>3. SumFunctionOnSet(f, U \cap A) <= SumFunctionOnSet(g, U)
      BY <1>1
    <3>4. SumFunctionOnSet(g, T) = g[y] + SumFunctionOnSet(g, U)
      BY <3>2, SumWithout
    <3>5. SumFunctionOnSet(g, U) \in Int /\ SumFunctionOnSet(f, U \cap A) \in Int
      BY <3>2, SumType
    <3>6. SumFunctionOnSet(f, T \cap A) = SumFunctionOnSet(f, U \cap A) + Part(f, A, y)
      <4>1. CASE y \in A
        <5>1. (T \cap A) \ {y} = U \cap A /\ y \in T \cap A
          BY <4>1
        <5>2. SumFunctionOnSet(f, T \cap A) = f[y] + SumFunctionOnSet(f, (T \cap A) \ {y})
          BY <3>2, <5>1, SumWithout
        <5> QED BY <3>5, <4>1, <5>1, <5>2 DEF Part
      <4>2. CASE y \notin A
        <5>1. T \cap A = U \cap A
          BY <4>2
        <5>2. SumFunctionOnSet(f, T \cap A) = SumFunctionOnSet(f, U \cap A)
          BY <5>1
        <5>3. Part(f, A, y) = 0
          BY <4>2 DEF Part
        <5> QED BY <3>5, <5>2, <5>3
      <4> QED BY <4>1, <4>2
    <3>7. Part(f, A, y) \in Int /\ g[y] \in Nat /\ Part(f, A, y) <= g[y]
      BY DEF Part
    <3> HIDE DEF U
    <3> QED BY <3>3, <3>4, <3>5, <3>6, <3>7
  <2> QED BY <2>1, <2>2
<1> HIDE DEF C
<1>2. S \in C
  BY ONLY IsFiniteSet(S), <1>1, SubsetInduction
<1>3. S \cap A = A
  OBVIOUS
<1> QED BY <1>2, <1>3 DEF C

LEMMA SumOfNats ==
  ASSUME NEW S, IsFiniteSet(S), NEW f, \A x \in S : f[x] \in Nat
  PROVE  SumFunctionOnSet(f, S) \in Nat
<1>1. SumFunctionOnSet(f, {}) <= SumFunctionOnSet(f, S)
  BY SumGrows
<1>2. SumFunctionOnSet(f, S) \in Int
  BY SumType
<1> QED BY <1>1, <1>2, SumOfNone
=============================================================================
