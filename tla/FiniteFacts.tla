------------------------------ MODULE FiniteFacts ------------------------------
(***************************************************************************)
(* What the proofs of several modules need of finite sets: ranks in a set  *)
(* that is strictly and totally ordered, the least and the greatest of a   *)
(* set of numbers, induction over subsets, sums, and the statistics of     *)
(* Statistics that are built from sums.  An order is a set of pairs.       *)
(*                                                                         *)
(* A fold chooses its elements in an order of its own.  SumRemove shows    *)
(* that the order does not matter for a sum, by SubsetInduction, which     *)
(* takes a set where a principle of induction usually takes a predicate.   *)
(***************************************************************************)
EXTENDS Statistics, FiniteSetTheorems, WellFoundedInduction, TLAPS

-----------------------------------------------------------------------------
(* Orders *)

Smaller(x, S, R) == {y \in S : <<y, x>> \in R}

StrictOrder(S, R) ==
    /\ \A x \in S : <<x, x>> \notin R
    /\ \A x, y, z \in S : <<x, y>> \in R /\ <<y, z>> \in R => <<x, z>> \in R
    /\ \A x, y \in S : x = y \/ <<x, y>> \in R \/ <<y, x>> \in R

Rank(x, S, R) == 1 + Cardinality(Smaller(x, S, R))

\* An element is not smaller than itself, so that fewer than all are.
LEMMA SmallerFewer ==
    ASSUME NEW S, IsFiniteSet(S), NEW R, StrictOrder(S, R), NEW x \in S
    PROVE  /\ IsFiniteSet(Smaller(x, S, R))
           /\ Cardinality(Smaller(x, S, R)) \in Nat
           /\ Rank(x, S, R) \in 1..Cardinality(S)
<1>1. Smaller(x, S, R) \in SUBSET (S \ {x})
  BY DEF Smaller, StrictOrder
<1>2. IsFiniteSet(S \ {x}) /\ Cardinality(S \ {x}) = Cardinality(S) - 1
  BY FS_RemoveElement
<1>3. IsFiniteSet(Smaller(x, S, R)) /\ Cardinality(Smaller(x, S, R)) <= Cardinality(S) - 1
  BY <1>1, <1>2, FS_Subset
<1> QED
  BY <1>3, FS_CardinalityType DEF Rank

\* Ranks grow along the order.
LEMMA RankGrows ==
    ASSUME NEW S, IsFiniteSet(S), NEW R, StrictOrder(S, R), NEW x \in S, NEW y \in S,
           <<x, y>> \in R
    PROVE  Rank(x, S, R) < Rank(y, S, R)
<1>1. Smaller(x, S, R) \in SUBSET Smaller(y, S, R)
  BY DEF Smaller, StrictOrder
<1>2. x \in Smaller(y, S, R) /\ x \notin Smaller(x, S, R)
  BY DEF Smaller, StrictOrder
<1>3. /\ IsFiniteSet(Smaller(y, S, R))
      /\ Cardinality(Smaller(x, S, R)) \in Nat /\ Cardinality(Smaller(y, S, R)) \in Nat
  BY SmallerFewer
<1>4. Cardinality(Smaller(x, S, R)) <= Cardinality(Smaller(y, S, R))
  BY <1>1, <1>3, FS_Subset
<1>5. Cardinality(Smaller(x, S, R)) # Cardinality(Smaller(y, S, R))
  BY <1>1, <1>2, <1>3, FS_Subset
<1> QED
  BY <1>3, <1>4, <1>5 DEF Rank

\* Two elements have two ranks.
LEMMA RankInjective ==
    ASSUME NEW S, IsFiniteSet(S), NEW R, StrictOrder(S, R), NEW x \in S, NEW y \in S,
           Rank(x, S, R) = Rank(y, S, R)
    PROVE  x = y
<1>1. Rank(x, S, R) \in Int /\ Rank(y, S, R) \in Int
  BY SmallerFewer, FS_CardinalityType
<1>2. CASE <<x, y>> \in R
  BY <1>1, <1>2, RankGrows
<1>3. CASE <<y, x>> \in R
  BY <1>1, <1>3, RankGrows
<1> QED
  BY <1>2, <1>3 DEF StrictOrder

\* The ranks are the numbers from 1 to the size of the set.
LEMMA RankSurjective ==
    ASSUME NEW S, IsFiniteSet(S), NEW R, StrictOrder(S, R)
    PROVE  {Rank(x, S, R) : x \in S} = 1..Cardinality(S)
<1> DEFINE N == 1..Cardinality(S)
           f == [x \in S |-> Rank(x, S, R)]
<1>1. Cardinality(S) \in Nat /\ IsFiniteSet(N) /\ Cardinality(N) = Cardinality(S)
  BY FS_CardinalityType, FS_Interval
<1>2. f \in [S -> N]
  BY SmallerFewer
<1>3. f \in Injection(S, N)
  BY <1>2, RankInjective DEF Injection, IsInjective
<1>4. f \in Surjection(S, N)
  BY <1>1, <1>3, FS_Injection
<1>5. \A n \in N : \E x \in S : f[x] = n
  BY <1>4 DEF Surjection
<1> QED
  BY <1>2, <1>5

\* A set with an element has a first one.
LEMMA FirstExists ==
    ASSUME NEW S, IsFiniteSet(S), NEW R, StrictOrder(S, R), S # {}
    PROVE  \E x \in S : \A y \in S : x = y \/ <<x, y>> \in R
<1>1. Cardinality(S) \in Nat /\ Cardinality(S) # 0
  BY FS_CardinalityType, FS_EmptySet
<1>2. PICK x \in S : Rank(x, S, R) = 1
  <2>1. 1 \in {Rank(x, S, R) : x \in S}
    BY <1>1, RankSurjective
  <2> QED
    BY <2>1
<1>3. Smaller(x, S, R) = {}
  <2>1. IsFiniteSet(Smaller(x, S, R)) /\ Cardinality(Smaller(x, S, R)) \in Nat
    BY SmallerFewer
  <2>2. Cardinality(Smaller(x, S, R)) = 0
    BY <1>2, <2>1 DEF Rank
  <2> QED
    BY <2>1, <2>2, FS_EmptySet
<1> QED
  BY <1>3 DEF Smaller, StrictOrder

\* A set of numbers has a least one.
LEMMA LeastExists ==
    ASSUME NEW T \in SUBSET Nat, T # {}
    PROVE  \E x \in T : \A y \in T : x <= y
<1>1. PICK x \in T : \A y \in T : <<y, x>> \notin OpToRel(<, Nat)
  BY NatLessThanWellFounded, WFMin
<1>2. ASSUME NEW y \in T, y < x PROVE FALSE
  BY <1>1, <1>2 DEF OpToRel
<1> QED
  BY <1>2

\* A finite set of numbers has a greatest one.
LEMMA GreatestExists ==
    ASSUME NEW T \in SUBSET Nat, T # {}, IsFiniteSet(T)
    PROVE  \E x \in T : \A y \in T : y <= x
<1> DEFINE R == {xy \in T \X T : xy[1] > xy[2]}
<1>1. \A x, y \in T : <<x, y>> \in R <=> x > y
  OBVIOUS
<1> HIDE DEF R
<1>2. StrictOrder(T, R)
  BY <1>1 DEF StrictOrder
<1>3. PICK x \in T : \A y \in T : x = y \/ <<x, y>> \in R
  BY <1>2, FirstExists
<1>4. ASSUME NEW y \in T PROVE y <= x
  <2>1. x \in Nat /\ y \in Nat
    OBVIOUS
  <2>2. x = y \/ x > y
    BY <1>1, <1>3
  <2> QED
    BY <2>1, <2>2
<1> QED
  BY <1>4

-----------------------------------------------------------------------------
(* Sums *)

Pick(s) == CHOOSE x \in s : TRUE
IsSum(a, S, F) ==
    F = [s \in SUBSET S |-> IF s = {} THEN 0 ELSE a[Pick(s)] + F[s \ {Pick(s)}]]

\* Among sets of subsets of a finite set there is a minimal one.
LEMMA MinimalSubset ==
    ASSUME NEW S, IsFiniteSet(S), NEW T \in SUBSET (SUBSET S), T # {}
    PROVE  \E m \in T : \A t \in T : t \subseteq m => t = m
<1> DEFINE N == {Cardinality(t) : t \in T}
<1>1. \A t \in T : IsFiniteSet(t) /\ Cardinality(t) \in Nat
  BY FS_Subset, FS_CardinalityType
<1>2. PICK n \in N : \A k \in N : n <= k
  <2>1. N \in SUBSET Nat /\ N # {}
    BY <1>1
  <2> HIDE DEF N
  <2> QED
    BY <2>1, LeastExists
<1>3. PICK m \in T : Cardinality(m) = n
  OBVIOUS
<1>4. ASSUME NEW t \in T, t \subseteq m PROVE t = m
  <2>1. Cardinality(m) <= Cardinality(t)
    BY <1>2, <1>3
  <2>2. Cardinality(t) <= Cardinality(m) /\ (Cardinality(t) = Cardinality(m) => t = m)
    BY <1>1, <1>4, FS_Subset
  <2> QED
    BY <1>1, <2>1, <2>2
<1> QED
  BY <1>4

\* Induction over the subsets of a finite set: a set of them that has {}, and every s whose
\* subsets with one element less it has, has all.
LEMMA SubsetInduction ==
    ASSUME NEW S, IsFiniteSet(S), NEW T,
           \A s \in SUBSET S : (\A x \in s : s \ {x} \in T) => s \in T
    PROVE  SUBSET S \subseteq T
<1> DEFINE U == {s \in SUBSET S : s \notin T}
<1> SUFFICES ASSUME U # {} PROVE FALSE
  OBVIOUS
<1>1. PICK m \in U : \A t \in U : t \subseteq m => t = m
  <2>1. U \in SUBSET (SUBSET S) /\ U # {}
    OBVIOUS
  <2> HIDE DEF U
  <2> QED
    BY <2>1, MinimalSubset
<1>2. PICK x \in m : m \ {x} \notin T
  OBVIOUS
<1> QED
  BY <1>1, <1>2

\* The choice from a nonempty set is in it.
LEMMA PickIn == \A s : s # {} => Pick(s) \in s
  BY DEF Pick

\* Two iterations of a sum agree on the sets that both know.
LEMMA IterUnique ==
    ASSUME NEW a, NEW S, IsFiniteSet(S), NEW R, NEW F, NEW G, IsSum(a, S, F), IsSum(a, R, G),
           S \subseteq R
    PROVE  \A s \in SUBSET S : F[s] = G[s]
<1> DEFINE T == {s \in SUBSET S : F[s] # G[s]}
<1> SUFFICES ASSUME T # {} PROVE FALSE
  OBVIOUS
<1>1. PICK m \in T : \A t \in T : t \subseteq m => t = m
  <2>1. T \in SUBSET (SUBSET S)
    OBVIOUS
  <2> HIDE DEF T
  <2> QED
    BY <2>1, MinimalSubset
<1>2. \A s \in SUBSET S : F[s] = IF s = {} THEN 0 ELSE a[Pick(s)] + F[s \ {Pick(s)}]
  BY DEF IsSum
<1>3. \A s \in SUBSET S : G[s] = IF s = {} THEN 0 ELSE a[Pick(s)] + G[s \ {Pick(s)}]
  <2>1. \A s \in SUBSET R : G[s] = IF s = {} THEN 0 ELSE a[Pick(s)] + G[s \ {Pick(s)}]
    BY DEF IsSum
  <2> QED
    BY <2>1
<1>4. m # {}
  BY <1>2, <1>3
<1>5. Pick(m) \in m
  BY <1>4, PickIn
<1>6. m \ {Pick(m)} \notin T
  BY <1>1, <1>5
<1>7. F[m \ {Pick(m)}] = G[m \ {Pick(m)}]
  BY <1>6
<1> QED
  BY <1>2, <1>3, <1>4, <1>7

\* The iteration of a sum exists on a finite set.
LEMMA IterExists ==
    ASSUME NEW a, NEW S, IsFiniteSet(S)
    PROVE  \E F : IsSum(a, S, F)
<1> DEFINE T == {s \in SUBSET S : ~\E F : IsSum(a, s, F)}
<1> SUFFICES ASSUME T # {} PROVE FALSE
  OBVIOUS
<1>1. PICK m \in T : \A t \in T : t \subseteq m => t = m
  <2>1. T \in SUBSET (SUBSET S)
    OBVIOUS
  <2> HIDE DEF T
  <2> QED
    BY <2>1, MinimalSubset
<1> DEFINE H(t) == CHOOSE F : IsSum(a, t, F)
           V(t) == H(t)[t]
           G == [t \in SUBSET m |-> IF t = {} THEN 0 ELSE a[Pick(t)] + V(t \ {Pick(t)})]
<1>2. \A t \in SUBSET m : t # m => IsSum(a, t, H(t))
  <2>1. \A t \in SUBSET m : t # m => \E F : IsSum(a, t, F)
    BY <1>1
  <2> QED
    BY <2>1
<1> HIDE DEF H
<1>3. \A t \in SUBSET m : t # m => G[t] = V(t)
  <2> SUFFICES ASSUME NEW t \in SUBSET m, t # m PROVE G[t] = V(t)
    OBVIOUS
  <2>1. H(t)[t] = IF t = {} THEN 0 ELSE a[Pick(t)] + H(t)[t \ {Pick(t)}]
    BY <1>2 DEF IsSum
  <2>2. CASE t = {}
    BY <2>1, <2>2
  <2>3. CASE t # {}
    <3> DEFINE r == t \ {Pick(t)}
    <3>1. Pick(t) \in t
      BY <2>3, PickIn
    <3>2. r \in SUBSET m /\ r # m /\ r \subseteq t /\ IsFiniteSet(r)
      BY <3>1, FS_Subset
    <3>3. IsSum(a, r, H(r)) /\ IsSum(a, t, H(t))
      BY <1>2, <3>2
    <3> HIDE DEF r
    <3>4. H(r)[r] = H(t)[r]
      BY <3>2, <3>3, IterUnique
    <3> QED
      BY <2>1, <2>3, <3>4 DEF r
  <2> QED
    BY <2>2, <2>3
<1>4. IsSum(a, m, G)
  <2>1. ASSUME NEW t \in SUBSET m, t # {} PROVE V(t \ {Pick(t)}) = G[t \ {Pick(t)}]
    BY <1>3, <2>1, PickIn
  <2> HIDE DEF V
  <2>2. G = [t \in SUBSET m |-> IF t = {} THEN 0 ELSE a[Pick(t)] + G[t \ {Pick(t)}]]
    BY <2>1
  <2> QED
    BY <2>2 DEF IsSum
<1> QED
  BY <1>4

\* SumFunctionOnSet is such an iteration.
LEMMA SumIs ==
    ASSUME NEW a, NEW S, IsFiniteSet(S), NEW F, IsSum(a, S, F)
    PROVE  \A s \in SUBSET S : SumFunctionOnSet(a, s) = F[s]
<1> SUFFICES ASSUME NEW s \in SUBSET S PROVE SumFunctionOnSet(a, s) = F[s]
  OBVIOUS
<1>1. IsFiniteSet(s)
  BY FS_Subset
<1>2. PICK G : IsSum(a, s, G) /\ SumFunctionOnSet(a, s) = G[s]
  <2>1. \E G : IsSum(a, s, G)
    BY <1>1, IterExists
  <2> QED
    BY <2>1 DEF SumFunctionOnSet, FoldFunctionOnSet, MapThenFoldSet, IsSum, Pick
<1>3. \A t \in SUBSET s : G[t] = F[t]
  BY <1>1, <1>2, IterUnique
<1> QED
  BY <1>2, <1>3

\* The sum over nothing is 0; over something it is one value and the sum of the others.
LEMMA SumStep ==
    ASSUME NEW a, NEW S, IsFiniteSet(S)
    PROVE  SumFunctionOnSet(a, S) =
               IF S = {} THEN 0 ELSE a[Pick(S)] + SumFunctionOnSet(a, S \ {Pick(S)})
<1>1. PICK F : IsSum(a, S, F)
  BY IterExists
<1>2. \A s \in SUBSET S : SumFunctionOnSet(a, s) = F[s]
  BY <1>1, SumIs
<1>3. F[S] = IF S = {} THEN 0 ELSE a[Pick(S)] + F[S \ {Pick(S)}]
  BY <1>1 DEF IsSum
<1> QED
  BY <1>2, <1>3

Whole(a, S) == \A x \in S : a[x] \in Int

\* The sum over nothing.
LEMMA SumEmpty == \A a : SumFunctionOnSet(a, {}) = 0
  BY SumStep, FS_EmptySet

\* A sum of whole numbers is one.
LEMMA SumType ==
    ASSUME NEW a, NEW S, IsFiniteSet(S), Whole(a, S)
    PROVE  SumFunctionOnSet(a, S) \in Int
<1> DEFINE T == {s \in SUBSET S : SumFunctionOnSet(a, s) \in Int}
<1>1. ASSUME NEW s \in SUBSET S, \A x \in s : s \ {x} \in T
      PROVE  s \in T
  <2>1. SumFunctionOnSet(a, s) = IF s = {} THEN 0
                                 ELSE a[Pick(s)] + SumFunctionOnSet(a, s \ {Pick(s)})
    BY SumStep, FS_Subset
  <2>2. s # {} => Pick(s) \in s /\ SumFunctionOnSet(a, s \ {Pick(s)}) \in Int
    BY <1>1, PickIn
  <2> QED
    BY <2>1, <2>2 DEF Whole
<1> HIDE DEF T
<1>2. S \in T
  BY <1>1, SubsetInduction
<1> QED
  BY <1>2 DEF T

\* A sum may begin with any of its values.
LEMMA SumRemove ==
    ASSUME NEW a, NEW S, IsFiniteSet(S), Whole(a, S)
    PROVE  \A x \in S : SumFunctionOnSet(a, S) = a[x] + SumFunctionOnSet(a, S \ {x})
<1> DEFINE Good(s) ==
             \A x \in s : SumFunctionOnSet(a, s) = a[x] + SumFunctionOnSet(a, s \ {x})
           T == {s \in SUBSET S : Good(s)}
<1>1. ASSUME NEW s \in SUBSET S, \A x \in s : s \ {x} \in T
      PROVE  s \in T
  <2> SUFFICES ASSUME NEW x \in s
               PROVE  SumFunctionOnSet(a, s) = a[x] + SumFunctionOnSet(a, s \ {x})
    OBVIOUS
  <2> DEFINE p == Pick(s)
             rest == SumFunctionOnSet(a, (s \ {p}) \ {x})
  <2>1. p \in s /\ SumFunctionOnSet(a, s) = a[p] + SumFunctionOnSet(a, s \ {p})
    BY SumStep, FS_Subset, PickIn
  <2>2. CASE x = p
    BY <2>1, <2>2
  <2>3. CASE x # p
    <3>1. Good(s \ {x}) /\ Good(s \ {p})
      BY <1>1, <2>1
    <3>2. /\ SumFunctionOnSet(a, s \ {p}) = a[x] + rest
          /\ SumFunctionOnSet(a, s \ {x}) = a[p] + SumFunctionOnSet(a, (s \ {x}) \ {p})
      BY <2>1, <2>3, <3>1
    <3>3. (s \ {x}) \ {p} = (s \ {p}) \ {x}
      OBVIOUS
    <3>4. a[x] \in Int /\ a[p] \in Int /\ rest \in Int
      <4>1. IsFiniteSet((s \ {p}) \ {x}) /\ Whole(a, (s \ {p}) \ {x})
        BY FS_Subset DEF Whole
      <4> QED
        BY <2>1, <4>1, SumType DEF Whole
    <3>5. a[p] + (a[x] + rest) = a[x] + (a[p] + rest)
      BY <3>4
    <3> HIDE DEF Good, p
    <3> QED
      BY <2>1, <3>2, <3>3, <3>5
  <2> QED
    BY <2>2, <2>3
<1> HIDE DEF T
<1>2. S \in T
  BY <1>1, SubsetInduction
<1> QED
  BY <1>2 DEF T

\* A sum begins with some value, and what is left of it is one of whole numbers.
LEMMA SumOf1 ==
    ASSUME NEW a, NEW S, IsFiniteSet(S), Whole(a, S), NEW s \in SUBSET S, NEW x \in s
    PROVE  /\ SumFunctionOnSet(a, s) = a[x] + SumFunctionOnSet(a, s \ {x})
           /\ a[x] \in Int /\ SumFunctionOnSet(a, s \ {x}) \in Int
           /\ SumFunctionOnSet(a, s) \in Int
           /\ IsFiniteSet(s) /\ IsFiniteSet(s \ {x})
           /\ Cardinality(s) = Cardinality(s \ {x}) + 1 /\ Cardinality(s \ {x}) \in Nat
<1>1. IsFiniteSet(s) /\ IsFiniteSet(s \ {x}) /\ Whole(a, s) /\ Whole(a, s \ {x})
  BY FS_Subset DEF Whole
<1>2. Cardinality(s \ {x}) = Cardinality(s) - 1 /\ Cardinality(s) \in Nat
      /\ Cardinality(s \ {x}) \in Nat
  BY <1>1, FS_RemoveElement, FS_CardinalityType
<1> QED
  BY <1>1, <1>2, SumRemove, SumType DEF Whole

\* What is summed is all that counts.
LEMMA SumSame ==
    ASSUME NEW a, NEW b, NEW S, IsFiniteSet(S), \A x \in S : a[x] = b[x]
    PROVE  SumFunctionOnSet(a, S) = SumFunctionOnSet(b, S)
<1> DEFINE T == {s \in SUBSET S : SumFunctionOnSet(a, s) = SumFunctionOnSet(b, s)}
<1>1. ASSUME NEW s \in SUBSET S, \A x \in s : s \ {x} \in T
      PROVE  s \in T
  <2>1. /\ SumFunctionOnSet(a, s) = IF s = {} THEN 0
                                    ELSE a[Pick(s)] + SumFunctionOnSet(a, s \ {Pick(s)})
        /\ SumFunctionOnSet(b, s) = IF s = {} THEN 0
                                    ELSE b[Pick(s)] + SumFunctionOnSet(b, s \ {Pick(s)})
    BY SumStep, FS_Subset
  <2>2. s # {} => Pick(s) \in s
    BY PickIn
  <2> QED
    BY <1>1, <2>1, <2>2
<1> HIDE DEF T
<1>2. S \in T
  BY <1>1, SubsetInduction
<1> QED
  BY <1>2 DEF T

\* Larger values have a larger sum.
LEMMA SumMonotonic ==
    ASSUME NEW a, NEW b, NEW S, IsFiniteSet(S), Whole(a, S), Whole(b, S),
           \A x \in S : a[x] <= b[x]
    PROVE  SumFunctionOnSet(a, S) <= SumFunctionOnSet(b, S)
<1> DEFINE T == {s \in SUBSET S : SumFunctionOnSet(a, s) <= SumFunctionOnSet(b, s)}
<1>1. ASSUME NEW s \in SUBSET S, \A x \in s : s \ {x} \in T
      PROVE  s \in T
  <2>1. CASE s = {}
    BY <2>1, SumEmpty
  <2>2. ASSUME NEW x \in s PROVE s \in T
    <3>1. a[x] <= b[x] /\ SumFunctionOnSet(a, s \ {x}) <= SumFunctionOnSet(b, s \ {x})
      BY <1>1
    <3> QED
      BY <3>1, SumOf1
  <2> QED
    BY <2>1, <2>2
<1> HIDE DEF T
<1>2. S \in T
  BY <1>1, SubsetInduction
<1> QED
  BY <1>2 DEF T

\* A sum of values between two bounds lies between as many times these.
LEMMA SumBounds ==
    ASSUME NEW a, NEW S, IsFiniteSet(S), NEW lo \in Int, NEW hi \in Int,
           \A x \in S : a[x] \in lo..hi
    PROVE  /\ Cardinality(S) * lo <= SumFunctionOnSet(a, S)
           /\ SumFunctionOnSet(a, S) <= Cardinality(S) * hi
<1> DEFINE T == {s \in SUBSET S : /\ Cardinality(s) * lo <= SumFunctionOnSet(a, s)
                                  /\ SumFunctionOnSet(a, s) <= Cardinality(s) * hi}
<1>1. ASSUME NEW s \in SUBSET S, \A x \in s : s \ {x} \in T
      PROVE  s \in T
  <2>1. CASE s = {}
    BY <2>1, SumEmpty, FS_EmptySet
  <2>2. ASSUME NEW x \in s PROVE s \in T
    <3>1. /\ Cardinality(s \ {x}) * lo <= SumFunctionOnSet(a, s \ {x})
          /\ SumFunctionOnSet(a, s \ {x}) <= Cardinality(s \ {x}) * hi
      BY <1>1
    <3>2. a[x] \in lo..hi /\ Whole(a, S)
      BY DEF Whole
    <3> DEFINE n == Cardinality(s \ {x})
               sum == SumFunctionOnSet(a, s \ {x})
    <3>3. /\ SumFunctionOnSet(a, s) = a[x] + sum /\ Cardinality(s) = n + 1
          /\ n \in Nat /\ sum \in Int
      BY <3>2, SumOf1
    <3> HIDE DEF n, sum
    <3>4. (n + 1) * lo = n * lo + lo /\ (n + 1) * hi = n * hi + hi
      BY <3>3
    <3>5. n * lo \in Int /\ n * hi \in Int
      BY <3>3
    <3>6. n * lo <= sum /\ sum <= n * hi
      BY <3>1 DEF n, sum
    <3> QED
      BY <3>2, <3>3, <3>4, <3>5, <3>6
  <2> QED
    BY <2>1, <2>2
<1> HIDE DEF T
<1>2. S \in T
  BY <1>1, SubsetInduction
<1> QED
  BY <1>2 DEF T

\* Sums of pairwise sums.
LEMMA SumPlus ==
    ASSUME NEW a, NEW b, NEW c, NEW S, IsFiniteSet(S), Whole(a, S), Whole(b, S),
           \A x \in S : c[x] = a[x] + b[x]
    PROVE  SumFunctionOnSet(c, S) = SumFunctionOnSet(a, S) + SumFunctionOnSet(b, S)
<1> DEFINE T == {s \in SUBSET S : SumFunctionOnSet(c, s)
                                  = SumFunctionOnSet(a, s) + SumFunctionOnSet(b, s)}
<1>1. ASSUME NEW s \in SUBSET S, \A x \in s : s \ {x} \in T
      PROVE  s \in T
  <2>1. CASE s = {}
    BY <2>1, SumEmpty
  <2>2. ASSUME NEW x \in s PROVE s \in T
    <3> DEFINE r == s \ {x}
    <3>1. /\ SumFunctionOnSet(c, r) = SumFunctionOnSet(a, r) + SumFunctionOnSet(b, r)
          /\ c[x] = a[x] + b[x]
      BY <1>1
    <3>2. Whole(c, S)
      BY DEF Whole
    <3>3. /\ SumFunctionOnSet(a, s) = a[x] + SumFunctionOnSet(a, r)
          /\ SumFunctionOnSet(b, s) = b[x] + SumFunctionOnSet(b, r)
          /\ SumFunctionOnSet(c, s) = c[x] + SumFunctionOnSet(c, r)
          /\ a[x] \in Int /\ b[x] \in Int
          /\ SumFunctionOnSet(a, r) \in Int /\ SumFunctionOnSet(b, r) \in Int
      BY <3>2, SumOf1
    <3> HIDE DEF r
    <3> QED
      BY <3>1, <3>3
  <2> QED
    BY <2>1, <2>2
<1> HIDE DEF T
<1>2. S \in T
  BY <1>1, SubsetInduction
<1> QED
  BY <1>2 DEF T

Multiples(c, k, a, S) == \A x \in S : c[x] = k * a[x]

\* Sums of multiples.
LEMMA SumTimes ==
    ASSUME NEW a, NEW c, NEW S, IsFiniteSet(S), Whole(a, S), NEW k \in Int,
           Multiples(c, k, a, S)
    PROVE  SumFunctionOnSet(c, S) = k * SumFunctionOnSet(a, S)
<1> DEFINE T == {s \in SUBSET S : SumFunctionOnSet(c, s) = k * SumFunctionOnSet(a, s)}
<1>1. ASSUME NEW s \in SUBSET S, \A x \in s : s \ {x} \in T
      PROVE  s \in T
  <2>1. CASE s = {}
    BY <2>1, SumEmpty
  <2>2. ASSUME NEW x \in s PROVE s \in T
    <3> DEFINE r == s \ {x}
    <3>1. SumFunctionOnSet(c, r) = k * SumFunctionOnSet(a, r) /\ c[x] = k * a[x]
      BY <1>1 DEF Multiples
    <3>2. Whole(c, S)
      BY DEF Whole, Multiples
    <3>3. /\ SumFunctionOnSet(a, s) = a[x] + SumFunctionOnSet(a, r)
          /\ a[x] \in Int /\ SumFunctionOnSet(a, r) \in Int
      BY SumOf1
    <3>5. SumFunctionOnSet(c, s) = c[x] + SumFunctionOnSet(c, r)
      BY <3>2, SumOf1
    <3> HIDE DEF r
    <3>4. \A i, j \in Int : k * (i + j) = k * i + k * j
      OBVIOUS
    <3> QED
      BY <3>1, <3>3, <3>4, <3>5
  <2> QED
    BY <2>1, <2>2
<1> HIDE DEF T
<1>2. S \in T
  BY <1>1, SubsetInduction
<1> QED
  BY <1>2 DEF T

\* The sum over two sets that share nothing.
LEMMA SumUnion ==
    ASSUME NEW a, NEW A, NEW B, IsFiniteSet(A), IsFiniteSet(B), Whole(a, A \cup B), A \cap B = {}
    PROVE  SumFunctionOnSet(a, A \cup B) = SumFunctionOnSet(a, A) + SumFunctionOnSet(a, B)
<1> DEFINE T == {s \in SUBSET B : SumFunctionOnSet(a, A \cup s)
                                  = SumFunctionOnSet(a, A) + SumFunctionOnSet(a, s)}
<1>1. Whole(a, A) /\ Whole(a, B) /\ IsFiniteSet(A \cup B)
  BY FS_Union DEF Whole
<1>2. SumFunctionOnSet(a, A) \in Int
  BY <1>1, SumType
<1>3. ASSUME NEW s \in SUBSET B, \A x \in s : s \ {x} \in T
      PROVE  s \in T
  <2>1. CASE s = {}
    <3>1. A \cup s = A
      BY <2>1
    <3> QED
      BY <1>2, <2>1, <3>1, SumEmpty
  <2>2. ASSUME NEW x \in s PROVE s \in T
    <3> DEFINE r == s \ {x}
               u == A \cup s
    <3>1. SumFunctionOnSet(a, A \cup r) = SumFunctionOnSet(a, A) + SumFunctionOnSet(a, r)
      BY <1>3
    <3>2. u \in SUBSET (A \cup B) /\ x \in u /\ u \ {x} = A \cup r
      OBVIOUS
    <3>3. /\ SumFunctionOnSet(a, s) = a[x] + SumFunctionOnSet(a, r)
          /\ a[x] \in Int /\ SumFunctionOnSet(a, r) \in Int
      BY <1>1, SumOf1
    <3>4. SumFunctionOnSet(a, u) = a[x] + SumFunctionOnSet(a, u \ {x})
      BY <1>1, <3>2, SumOf1
    <3>5. SumFunctionOnSet(a, u) = SumFunctionOnSet(a, A) + SumFunctionOnSet(a, s)
      <4> DEFINE p == SumFunctionOnSet(a, A)
                 q == SumFunctionOnSet(a, r)
      <4>1. SumFunctionOnSet(a, u) = a[x] + (p + q)
        BY <3>1, <3>2, <3>4
      <4>2. p \in Int /\ q \in Int /\ a[x] \in Int
        BY <1>2, <3>3
      <4> HIDE DEF p, q
      <4>3. a[x] + (p + q) = p + (a[x] + q)
        BY <4>2
      <4> QED
        BY <3>3, <4>1, <4>3 DEF p, q
    <3> QED
      BY <3>5
  <2> QED
    BY <2>1, <2>2
<1> HIDE DEF T
<1>4. B \in T
  BY <1>3, SubsetInduction
<1> QED
  BY <1>4 DEF T

\* A sum over more, none of it negative, is no smaller.
LEMMA SumSubset ==
    ASSUME NEW a, NEW B, IsFiniteSet(B), NEW A \in SUBSET B, \A x \in B : a[x] \in Nat
    PROVE  SumFunctionOnSet(a, A) <= SumFunctionOnSet(a, B)
<1> DEFINE C == B \ A
<1>1. A \cup C = B /\ A \cap C = {} /\ IsFiniteSet(A) /\ IsFiniteSet(C)
      /\ Whole(a, A \cup C)
  BY FS_Subset DEF Whole
<1>2. SumFunctionOnSet(a, B) = SumFunctionOnSet(a, A) + SumFunctionOnSet(a, C)
  BY <1>1, SumUnion
<1> DEFINE z == [x \in C |-> 0]
<1>3. SumFunctionOnSet(z, C) <= SumFunctionOnSet(a, C)
  <2>1. Whole(z, C) /\ Whole(a, C) /\ \A x \in C : z[x] <= a[x]
    BY DEF Whole
  <2> HIDE DEF z
  <2> QED
    BY <1>1, <2>1, SumMonotonic
<1>4. SumFunctionOnSet(z, C) >= 0
  <2>1. \A x \in C : z[x] \in 0..0
    OBVIOUS
  <2> HIDE DEF z
  <2>2. Cardinality(C) * 0 <= SumFunctionOnSet(z, C) /\ Cardinality(C) \in Nat
    BY <1>1, <2>1, SumBounds, FS_CardinalityType
  <2> QED
    BY <2>2
<1>5. SumFunctionOnSet(a, A) \in Int /\ SumFunctionOnSet(a, C) \in Int
      /\ SumFunctionOnSet(z, C) \in Int
  <2>1. Whole(a, A) /\ Whole(a, C) /\ Whole(z, C)
    BY DEF Whole
  <2> QED
    BY <1>1, <2>1, SumType
<1> HIDE DEF C, z
<1> QED
  BY <1>2, <1>3, <1>4, <1>5

\* Sums of what is not negative are not.
LEMMA SumNat ==
    ASSUME NEW a, NEW S, IsFiniteSet(S), \A x \in S : a[x] \in Nat
    PROVE  SumFunctionOnSet(a, S) \in Nat
<1>1. SumFunctionOnSet(a, {}) <= SumFunctionOnSet(a, S)
  BY SumSubset
<1>2. SumFunctionOnSet(a, S) \in Int
  <2>1. Whole(a, S)
    BY DEF Whole
  <2> QED
    BY <2>1, SumType
<1> QED
  BY <1>1, <1>2, SumEmpty

\* The number of elements is a sum of ones.
LEMMA SumOnes ==
    ASSUME NEW a, NEW S, IsFiniteSet(S), \A x \in S : a[x] = 1
    PROVE  SumFunctionOnSet(a, S) = Cardinality(S)
<1>1. \A x \in S : a[x] \in 1..1
  OBVIOUS
<1>2. Whole(a, S)
  BY DEF Whole
<1>3. SumFunctionOnSet(a, S) \in Int /\ Cardinality(S) \in Nat
  BY <1>2, SumType, FS_CardinalityType
<1>4. Cardinality(S) * 1 <= SumFunctionOnSet(a, S) /\ SumFunctionOnSet(a, S) <= Cardinality(S) * 1
  BY <1>1, SumBounds
<1> QED
  BY <1>3, <1>4

\* The elements with one of the keys s.
With(S, f, s) == {x \in S : f[x] \in s}
Keyed(S, f, K) == \A x \in S : f[x] \in K
Shares(b, K, f, a, S) == \A k \in K : b[k] = SumFunctionOnSet(a, With(S, f, {k}))
Counts(b, K, f, S) == \A k \in K : b[k] = Cardinality(With(S, f, {k}))

\* The sums over what has one key sum up to the sum over all.
LEMMA SumByKey ==
    ASSUME NEW a, NEW S, IsFiniteSet(S), Whole(a, S), NEW f, NEW K, IsFiniteSet(K), Keyed(S, f, K),
           NEW b, Shares(b, K, f, a, S)
    PROVE  SumFunctionOnSet(b, K) = SumFunctionOnSet(a, S)
<1>0. \A s : IsFiniteSet(With(S, f, s)) /\ Whole(a, With(S, f, s))
  BY FS_Subset DEF With, Whole
<1> DEFINE T == {s \in SUBSET K : SumFunctionOnSet(b, s) = SumFunctionOnSet(a, With(S, f, s))}
<1>1. Whole(b, K)
  <2> SUFFICES ASSUME NEW k \in K PROVE SumFunctionOnSet(a, With(S, f, {k})) \in Int
    BY DEF Whole, Shares
  <2> QED
    BY <1>0, SumType
<1>2. ASSUME NEW s \in SUBSET K, \A k \in s : s \ {k} \in T
      PROVE  s \in T
  <2>1. CASE s = {}
    <3>1. With(S, f, s) = {}
      BY <2>1 DEF With
    <3> QED
      BY <2>1, <3>1, SumEmpty
  <2>2. ASSUME NEW k \in s PROVE s \in T
    <3> DEFINE A == With(S, f, s \ {k})
               B == With(S, f, {k})
    <3>1. With(S, f, s) = A \cup B /\ A \cap B = {}
      BY DEF With
    <3>2. IsFiniteSet(A) /\ IsFiniteSet(B) /\ Whole(a, A \cup B) /\ Whole(a, A) /\ Whole(a, B)
      BY <1>0, <3>1
    <3>3. SumFunctionOnSet(b, s \ {k}) = SumFunctionOnSet(a, A)
      BY <1>2
    <3>4. SumFunctionOnSet(b, s) = b[k] + SumFunctionOnSet(b, s \ {k})
      BY <1>1, SumOf1
    <3>5. b[k] = SumFunctionOnSet(a, B)
      BY DEF Shares
    <3> HIDE DEF A, B
    <3>6. SumFunctionOnSet(a, A \cup B) = SumFunctionOnSet(a, A) + SumFunctionOnSet(a, B)
      BY <3>1, <3>2, SumUnion
    <3>7. SumFunctionOnSet(a, A) \in Int /\ SumFunctionOnSet(a, B) \in Int
      BY <3>2, SumType
    <3>8. SumFunctionOnSet(b, s) = SumFunctionOnSet(a, With(S, f, s))
      BY <3>1, <3>3, <3>4, <3>5, <3>6, <3>7
    <3> QED
      BY <3>8
  <2> QED
    BY <2>1, <2>2
<1> HIDE DEF T
<1>3. K \in T
  BY <1>2, SubsetInduction
<1>4. With(S, f, K) = S
  BY DEF With, Keyed
<1> QED
  BY <1>3, <1>4 DEF T

\* The step of the inequality of Cauchy and Schwarz.
LEMMA SquareStep ==
    ASSUME NEW n \in Nat, n > 0, NEW t \in Int, NEW q \in Int, NEW x \in Int, t * t <= n * q
    PROVE  (x + t) * (x + t) <= (n + 1) * (x * x + q)
<1> DEFINE d == (n + 1) * (x * x + q) - (x + t) * (x + t)
           e == t - n * x
           g == n * q - t * t
<1>1. n * d = (n + 1) * g + e * e
  OBVIOUS
<1>2. e * e >= 0 /\ e * e \in Int
  <2>1. \A i \in Int : i * i >= 0
    OBVIOUS
  <2>2. e \in Int
    OBVIOUS
  <2> HIDE DEF e
  <2> QED
    BY <2>1, <2>2
<1>3. (n + 1) * g >= 0 /\ (n + 1) * g \in Int
  <2>1. \A i, j \in Nat : i * j >= 0
    OBVIOUS
  <2>2. g \in Nat /\ n + 1 \in Nat
    OBVIOUS
  <2> HIDE DEF g
  <2> QED
    BY <2>1, <2>2
<1>4. d \in Int
  OBVIOUS
<1> HIDE DEF d, e, g
<1>5. n * d >= 0
  BY <1>1, <1>2, <1>3
<1>6. d >= 0
  <2> SUFFICES ASSUME d < 0 PROVE FALSE
    BY <1>4
  <2>1. \A i \in Int : i < 0 => n * i <= -n
    OBVIOUS
  <2> QED
    BY <1>4, <1>5, <2>1
<1>7. (n + 1) * (x * x + q) \in Int /\ (x + t) * (x + t) \in Int
  OBVIOUS
<1> QED
  BY <1>6, <1>7 DEF d

Squares(b, a, S) == \A x \in S : b[x] = a[x] * a[x]

\* The square of a sum is at most as many times the sum of the squares.
LEMMA SumSquares ==
    ASSUME NEW a, NEW b, NEW S, IsFiniteSet(S), Whole(a, S), Squares(b, a, S)
    PROVE  SumFunctionOnSet(a, S) * SumFunctionOnSet(a, S)
               <= Cardinality(S) * SumFunctionOnSet(b, S)
<1> DEFINE Good(s) == SumFunctionOnSet(a, s) * SumFunctionOnSet(a, s)
                          <= Cardinality(s) * SumFunctionOnSet(b, s)
           T == {s \in SUBSET S : Good(s)}
<1>0. Whole(b, S)
  BY DEF Whole, Squares
<1>1. ASSUME NEW s \in SUBSET S, \A x \in s : s \ {x} \in T
      PROVE  s \in T
  <2>1. CASE s = {}
    BY <2>1, SumEmpty, FS_EmptySet
  <2>2. ASSUME NEW x \in s PROVE s \in T
    <3> DEFINE r == s \ {x}
               t == SumFunctionOnSet(a, r)
               q == SumFunctionOnSet(b, r)
               n == Cardinality(r)
    <3>1. t * t <= n * q
      BY <1>1
    <3>2. b[x] = a[x] * a[x]
      BY DEF Squares
    <3> HIDE DEF Good
    <3>3. /\ SumFunctionOnSet(a, s) = a[x] + t /\ SumFunctionOnSet(b, s) = b[x] + q
          /\ a[x] \in Int /\ t \in Int /\ q \in Int /\ n \in Nat /\ Cardinality(s) = n + 1
          /\ IsFiniteSet(r)
      <4>1. /\ SumFunctionOnSet(a, s) = a[x] + t /\ a[x] \in Int /\ t \in Int
            /\ IsFiniteSet(r) /\ Cardinality(s) = n + 1 /\ n \in Nat
        BY SumOf1
      <4>2. SumFunctionOnSet(b, s) = b[x] + q /\ q \in Int
        BY <1>0, SumOf1
      <4> QED
        BY <4>1, <4>2
    <3>4. CASE n = 0
      <4>1. r = {}
        BY <3>3, <3>4, FS_EmptySet
      <4>2. t = 0 /\ q = 0
        BY <4>1, SumEmpty
      <4> HIDE DEF r, t, q, n
      <4>3. (a[x] + t) * (a[x] + t) = a[x] * a[x] /\ (n + 1) * (b[x] + q) = a[x] * a[x]
        BY <3>2, <3>3, <3>4, <4>2
      <4>4. a[x] * a[x] \in Int
        BY <3>3
      <4> QED
        BY <3>3, <4>3, <4>4 DEF Good
    <3>5. CASE n > 0
      <4> HIDE DEF r, t, q, n
      <4>1. (a[x] + t) * (a[x] + t) <= (n + 1) * (a[x] * a[x] + q)
        BY <3>1, <3>3, <3>5, SquareStep
      <4> QED
        BY <3>2, <3>3, <4>1 DEF Good
    <3> QED
      BY <3>3, <3>4, <3>5
  <2> QED
    BY <2>1, <2>2
<1> HIDE DEF T
<1>2. S \in T
  BY <1>1, SubsetInduction
<1> QED
  BY <1>2 DEF T

-----------------------------------------------------------------------------
(* Samples *)

Sample(s) == IsFiniteSet(DOMAIN s) /\ Whole(s, DOMAIN s)

\* The numbers that are computed from a sample are whole.
LEMMA SampleType ==
    ASSUME NEW s, Sample(s)
    PROVE  Size(s) \in Nat /\ SumOf(s) \in Int /\ SquaresOf(s) \in Int /\ Spread(s) \in Int
<1> DEFINE b == [i \in DOMAIN s |-> s[i] * s[i]]
<1>1. Size(s) \in Nat
  BY FS_CardinalityType DEF Sample, Size
<1>2. SumOf(s) \in Int
  BY SumType DEF Sample, SumOf, SumFunction
<1>3. SquaresOf(s) \in Int
  <2>1. Whole(b, DOMAIN s) /\ DOMAIN b = DOMAIN s
    BY DEF Sample, Whole
  <2>2. SquaresOf(s) = SumFunctionOnSet(b, DOMAIN s)
    BY DEF SquaresOf, SumFunction
  <2> HIDE DEF b
  <2> QED
    BY <2>1, <2>2, SumType DEF Sample
<1> QED
  BY <1>1, <1>2, <1>3 DEF Spread

\* Spread(s) is not negative, and no value of the sample is farther from its mean than
\* Spread(s) allows: the inequality of Samuelson, multiplied out.
LEMMA SpreadBounds ==
    ASSUME NEW s, Sample(s), NEW i \in DOMAIN s
    PROVE  /\ Spread(s) >= 0 /\ Size(s) >= 1
           /\ (Size(s) * s[i] - SumOf(s)) * (Size(s) * s[i] - SumOf(s)) <= (Size(s) - 1) * Spread(s)
<1> DEFINE D == DOMAIN s
           b == [k \in D |-> s[k] * s[k]]
           r == D \ {i}
           m == Cardinality(r)
           v == s[i]
           t == SumFunctionOnSet(s, r)
           q == SumFunctionOnSet(b, r)
<1>1. /\ SumOf(s) = v + t /\ v \in Int /\ t \in Int
      /\ Size(s) = m + 1 /\ m \in Nat /\ IsFiniteSet(r)
  BY SumOf1 DEF Sample, SumOf, SumFunction, Size
<1>2. Whole(b, D) /\ DOMAIN b = D /\ b[i] = v * v /\ SquaresOf(s) = SumFunctionOnSet(b, D)
  BY DEF Sample, Whole, SquaresOf, SumFunction
<1>3. SquaresOf(s) = v * v + q /\ q \in Int
  <2> HIDE DEF b
  <2> QED
    BY <1>2, SumOf1 DEF Sample
<1>4. t * t <= m * q
  <2>1. Whole(s, r) /\ Squares(b, s, r)
    BY DEF Sample, Whole, Squares
  <2> HIDE DEF b, r
  <2> QED
    BY <1>1, <2>1, SumSquares
<1>5. SumOf(s) * SumOf(s) <= Size(s) * SquaresOf(s)
  <2>1. Squares(b, s, D) /\ Whole(s, D) /\ IsFiniteSet(D)
    BY DEF Squares, Sample
  <2>2. SumFunctionOnSet(s, D) * SumFunctionOnSet(s, D) <= Cardinality(D) * SumFunctionOnSet(b, D)
    <3> HIDE DEF b
    <3> QED
      BY <2>1, SumSquares
  <2> QED
    BY <1>2, <2>2 DEF SumOf, SumFunction, Size
<1>6. Spread(s) >= 0
  BY <1>5, SampleType DEF Spread
<1>7. Spread(s) = (m + 1) * (v * v + q) - (v + t) * (v + t)
  BY <1>1, <1>3 DEF Spread
<1>8. Size(s) * s[i] - SumOf(s) = m * v - t
  <2>1. (m + 1) * v - (v + t) = m * v - t
    BY <1>1
  <2> QED
    BY <1>1, <2>1
<1> HIDE DEF m, v, t, q
<1>9. m * Spread(s) - (m * v - t) * (m * v - t) = (m + 1) * (m * q - t * t)
  BY <1>1, <1>3, <1>7
<1>10. (m + 1) * (m * q - t * t) >= 0
  <2>1. m * q - t * t \in Nat /\ m + 1 \in Nat
    BY <1>1, <1>3, <1>4
  <2>2. \A x, y \in Nat : x * y >= 0
    OBVIOUS
  <2> QED
    BY <2>1, <2>2
<1>11. m * Spread(s) \in Int /\ (m * v - t) * (m * v - t) \in Int
  <2>1. Spread(s) \in Int /\ m * v - t \in Int
    BY <1>1, SampleType
  <2> QED
    BY <1>1, <2>1
<1>12. (m * v - t) * (m * v - t) <= m * Spread(s)
  BY <1>9, <1>10, <1>11
<1>13. Size(s) >= 1 /\ Size(s) - 1 = m
  BY <1>1
<1> QED
  BY <1>6, <1>8, <1>12, <1>13

\* The square of a number between two others is at most one of theirs.
LEMMA SquareBetween ==
    ASSUME NEW x \in Int, NEW y \in Int, NEW z \in Int, x <= y, y <= z
    PROVE  y * y <= x * x \/ y * y <= z * z
<1>1. ASSUME NEW i \in Nat, NEW j \in Nat, i <= j PROVE i * i <= j * j
  <2>1. PICK k \in Nat : j = i + k
    <3>1. j - i \in Nat /\ j = i + (j - i)
      BY <1>1
    <3> QED
      BY <3>1
  <2>2. j * j = i * i + (2 * i * k + k * k)
    BY <2>1
  <2>3. 2 * i * k + k * k \in Nat /\ i * i \in Nat
    OBVIOUS
  <2> QED
    BY <2>2, <2>3
<1>2. CASE y >= 0
  BY <1>1, <1>2
<1>3. CASE y < 0
  <2>1. -y \in Nat /\ -x \in Nat /\ -y <= -x
    BY <1>3
  <2>2. (-y) * (-y) <= (-x) * (-x)
    BY <1>1, <2>1
  <2>3. (-y) * (-y) = y * y /\ (-x) * (-x) = x * x
    OBVIOUS
  <2> QED
    BY <2>2, <2>3
<1> QED
  BY <1>2, <1>3

\* The values of a function on a finite set are finitely many.
LEMMA FiniteImage ==
    ASSUME NEW S, IsFiniteSet(S), NEW f, DOMAIN f = S
    PROVE  IsFiniteSet({f[x] : x \in S})
<1> DEFINE g == [x \in S |-> f[x]]
           T == {f[x] : x \in S}
<1>1. g \in Surjection(S, T)
  BY DEF Surjection
<1> HIDE DEF T
<1>2. IsFiniteSet(T)
  BY <1>1, FS_Surjection
<1> QED
  BY <1>2 DEF T

\* No more values than elements.
LEMMA ImageFewer ==
    ASSUME NEW S, IsFiniteSet(S), NEW f, DOMAIN f = S, NEW T \in SUBSET {f[x] : x \in S}
    PROVE  /\ Cardinality(T) <= Cardinality(S) /\ IsFiniteSet(T)
           /\ Cardinality(T) \in Nat /\ Cardinality(S) \in Nat
<1> DEFINE g == [x \in S |-> f[x]]
           U == {f[x] : x \in S}
<1>1. g \in Surjection(S, U)
  BY DEF Surjection
<1> HIDE DEF U, g
<1>2. IsFiniteSet(U) /\ Cardinality(U) <= Cardinality(S)
  BY <1>1, FS_Surjection
<1>3. T \in SUBSET U
  BY DEF U
<1>4. IsFiniteSet(T) /\ Cardinality(T) <= Cardinality(U)
  BY <1>2, <1>3, FS_Subset
<1> QED
  BY <1>2, <1>4, FS_CardinalityType

\* As many values as elements, if no two of these have one value.
LEMMA ImageCount ==
    ASSUME NEW S, IsFiniteSet(S), NEW f, DOMAIN f = S,
           \A x, y \in S : f[x] = f[y] => x = y
    PROVE  Cardinality({f[x] : x \in S}) = Cardinality(S)
<1> DEFINE g == [x \in S |-> f[x]]
           T == {f[x] : x \in S}
<1>1. g \in Surjection(S, T)
  BY DEF Surjection
<1>3. g \in Injection(S, T)
  BY DEF Injection, IsInjective
<1> HIDE DEF T, g
<1>2. Cardinality(T) = Cardinality(S)
  BY <1>1, <1>3, FS_Surjection
<1> QED
  BY <1>2 DEF T

\* The elements counted by a key sum up to all of them.
LEMMA CountByKey ==
    ASSUME NEW S, IsFiniteSet(S), NEW f, NEW K, IsFiniteSet(K), Keyed(S, f, K),
           NEW b, Counts(b, K, f, S)
    PROVE  SumFunctionOnSet(b, K) = Cardinality(S)
<1> DEFINE a == [x \in S |-> 1]
<1>1. \A x \in S : a[x] = 1
  OBVIOUS
<1> HIDE DEF a
<1>2. Shares(b, K, f, a, S)
  <2> SUFFICES ASSUME NEW k \in K PROVE b[k] = SumFunctionOnSet(a, With(S, f, {k}))
    BY DEF Shares
  <2>1. With(S, f, {k}) \in SUBSET S
    BY DEF With
  <2>2. IsFiniteSet(With(S, f, {k})) /\ \A x \in With(S, f, {k}) : a[x] = 1
    BY <1>1, <2>1, FS_Subset
  <2>3. SumFunctionOnSet(a, With(S, f, {k})) = Cardinality(With(S, f, {k}))
    BY <2>2, SumOnes
  <2> QED
    BY <2>3 DEF Counts
<1>3. Whole(a, S)
  BY <1>1 DEF Whole
<1>4. SumFunctionOnSet(b, K) = SumFunctionOnSet(a, S)
  BY <1>2, <1>3, SumByKey
<1> QED
  BY <1>1, <1>4, SumOnes

\* Of finitely many elements one has the largest value.
LEMMA TopExists ==
    ASSUME NEW S, IsFiniteSet(S), S # {}, NEW a, Whole(a, S)
    PROVE  \E x \in S : \A y \in S : a[y] <= a[x]
<1> DEFINE HasTop(s) == s # {} => \E x \in s : \A y \in s : a[y] <= a[x]
           T == {s \in SUBSET S : HasTop(s)}
<1>1. ASSUME NEW s \in SUBSET S, \A x \in s : s \ {x} \in T
      PROVE  s \in T
  <2>1. SUFFICES ASSUME s # {} PROVE HasTop(s)
    OBVIOUS
  <2>2. PICK x \in s : TRUE
    BY <2>1
  <2>3. HasTop(s \ {x})
    BY <1>1
  <2>4. \A y \in s : a[y] \in Int
    BY DEF Whole
  <2>5. CASE s \ {x} = {}
    <3>1. \A y \in s : y = x
      BY <2>5
    <3> QED
      BY <2>2, <2>4, <3>1
  <2>6. CASE s \ {x} # {}
    <3>1. PICK z \in s \ {x} : \A y \in s \ {x} : a[y] <= a[z]
      BY <2>3, <2>6
    <3>2. CASE a[x] <= a[z]
      BY <3>1, <3>2
    <3>3. CASE ~(a[x] <= a[z])
      <4>1. \A y \in s : a[y] <= a[x]
        BY <2>4, <3>1, <3>3
      <4> QED
        BY <4>1
    <3> QED
      BY <3>2, <3>3
  <2> QED
    BY <2>5, <2>6
<1> HIDE DEF T
<1>2. SUBSET S \subseteq T
  BY <1>1, SubsetInduction
<1> QED
  BY <1>2 DEF T

\* Spread is 0 for a sample of one value only.
LEMMA ConstantIs ==
    ASSUME NEW s, Sample(s), NEW i \in DOMAIN s
    PROVE  Constant(s) <=> \A k \in DOMAIN s : s[k] = s[i]
<1> DEFINE n == Size(s)
<1>0. n \in Nat /\ n >= 1 /\ SumOf(s) \in Int /\ SquaresOf(s) \in Int
  BY SampleType, SpreadBounds
<1>1. ASSUME Constant(s), NEW k \in DOMAIN s PROVE n * s[k] = SumOf(s)
  <2> DEFINE d == n * s[k] - SumOf(s)
  <2>1. s[k] \in Int
    BY DEF Sample, Whole
  <2>2. d * d <= (n - 1) * Spread(s)
    BY SpreadBounds
  <2>3. (n - 1) * Spread(s) = 0
    BY <1>0, <1>1 DEF Constant
  <2>4. d \in Int
    BY <1>0, <2>1
  <2> HIDE DEF d
  <2>5. d = 0
    <3>1. \A j \in Int : j * j <= 0 => j = 0
      OBVIOUS
    <3> QED
      BY <2>2, <2>3, <2>4, <3>1
  <2>6. n * s[k] \in Int
    BY <1>0, <2>1
  <2> HIDE DEF n
  <2> QED
    BY <1>0, <2>5, <2>6 DEF d
<1>2. ASSUME Constant(s), NEW k \in DOMAIN s PROVE s[k] = s[i]
  <2>1. n * s[k] = n * s[i]
    BY <1>1, <1>2
  <2>2. s[k] \in Int /\ s[i] \in Int
    BY DEF Sample, Whole
  <2> DEFINE x == s[k]
             y == s[i]
  <2> HIDE DEF n, x, y
  <2>3. n * (x - y) = 0
    BY <1>0, <2>1, <2>2 DEF x, y
  <2>4. \A j \in Int : n * j = 0 => j = 0
    BY <1>0
  <2>5. x - y = 0
    BY <2>2, <2>3, <2>4 DEF x, y
  <2> QED
    BY <2>2, <2>5 DEF x, y
<1>3. ASSUME \A k \in DOMAIN s : s[k] = s[i] PROVE Constant(s) /\ SumOf(s) = n * s[i]
  <2> DEFINE v == s[i]
             b == [k \in DOMAIN s |-> s[k] * s[k]]
  <2>1. v \in Int /\ IsFiniteSet(DOMAIN s)
    BY DEF Sample, Whole
  <2>2. SumOf(s) = n * v
    <3>1. \A k \in DOMAIN s : s[k] \in v..v
      BY <1>3, <2>1
    <3>2. n * v <= SumOf(s) /\ SumOf(s) <= n * v
      <4> HIDE DEF v
      <4> QED
        BY <2>1, <3>1, SumBounds DEF SumOf, SumFunction, Size
    <3>3. n * v \in Int
      BY <1>0, <2>1
    <3> QED
      BY <1>0, <3>2, <3>3
  <2>3. SquaresOf(s) = n * (v * v)
    <3>1. v * v \in Int /\ DOMAIN b = DOMAIN s
      BY <2>1
    <3>2. \A k \in DOMAIN s : b[k] \in (v * v)..(v * v)
      BY <1>3, <3>1
    <3>3. SquaresOf(s) = SumFunctionOnSet(b, DOMAIN s)
      BY <3>1 DEF SquaresOf, SumFunction
    <3> DEFINE w == v * v
    <3> HIDE DEF v, b, w
    <3>4. n * w <= SumFunctionOnSet(b, DOMAIN s) /\ SumFunctionOnSet(b, DOMAIN s) <= n * w
      BY <2>1, <3>1, <3>2, SumBounds DEF Size, w
    <3>5. n * w \in Int
      BY <1>0, <3>1 DEF w
    <3> HIDE DEF n
    <3> QED
      BY <1>0, <3>3, <3>4, <3>5 DEF w
  <2> HIDE DEF v, n
  <2>4. n * (n * (v * v)) - (n * v) * (n * v) = 0
    BY <1>0, <2>1
  <2> QED
    BY <2>2, <2>3, <2>4 DEF Constant, Spread, n, v
<1> QED
  BY <1>2, <1>3

\* Of a sample of one value every other value is far, and that value is not.
LEMMA ConstantFar ==
    ASSUME NEW s, Sample(s), NEW i \in DOMAIN s, \A k \in DOMAIN s : s[k] = s[i],
           NEW v \in Int, NEW limit
    PROVE  AtLeast(limit, v, s) <=> v # s[i]
<1> DEFINE n == Size(s)
           w == s[i]
<1>1. n \in Nat /\ n >= 1 /\ w \in Int /\ IsFiniteSet(DOMAIN s)
  BY SampleType, SpreadBounds DEF Sample, Whole
<1>2. SumOf(s) = n * w
  <2>1. \A k \in DOMAIN s : s[k] \in w..w
    BY <1>1
  <2>2. n * w <= SumOf(s) /\ SumOf(s) <= n * w
    <3> HIDE DEF w
    <3> QED
      BY <1>1, <2>1, SumBounds DEF SumOf, SumFunction, Size
  <2>3. n * w \in Int /\ SumOf(s) \in Int
    BY <1>1, SampleType
  <2> QED
    BY <2>2, <2>3
<1>3. Constant(s)
  BY ConstantIs
<1>4. AtLeast(limit, v, s) <=> Distance(n * v - n * w) # 0
  BY <1>2, <1>3 DEF AtLeast
<1> HIDE DEF n, w
<1>5. n * v - n * w = n * (v - w) /\ n * v - n * w \in Int
  BY <1>1
<1>6. Distance(n * v - n * w) # 0 <=> n * (v - w) # 0
  BY <1>5 DEF Distance
<1>7. n * (v - w) = 0 <=> v - w = 0
  <2>1. \A j \in Int : n * j = 0 <=> j = 0
    BY <1>1
  <2> QED
    BY <1>1, <2>1
<1>8. v - w = 0 <=> v = w
  BY <1>1
<1>9. AtLeast(limit, v, s) <=> v # w
  BY <1>4, <1>6, <1>7, <1>8
<1> QED
  BY <1>9 DEF w

\* What lies within a sample of at most five values is not two deviations from its mean.
LEMMA WithinNotFar ==
    ASSUME NEW s, Sample(s), Size(s) <= 5, NEW i \in DOMAIN s, NEW j \in DOMAIN s,
           NEW v \in Int, s[i] <= v, v <= s[j], NEW limit \in Nat, limit >= 2
    PROVE  ~AtLeast(limit, v, s)
<1> DEFINE n == Size(s)
           S == SumOf(s)
           P == Spread(s)
           off == n * v - S
           x == n * s[i] - S
           z == n * s[j] - S
<1>1. n \in 1..5 /\ S \in Int /\ P \in Int /\ P >= 0 /\ s[i] \in Int /\ s[j] \in Int
  <2>1. n \in Nat /\ S \in Int /\ P \in Int
    BY SampleType
  <2>2. P >= 0 /\ n >= 1
    BY SpreadBounds
  <2>3. s[i] \in Int /\ s[j] \in Int
    BY DEF Sample, Whole
  <2> QED
    BY <2>1, <2>2, <2>3
<1>2. x * x <= (n - 1) * P /\ z * z <= (n - 1) * P
  BY SpreadBounds
<1>3. /\ off \in Int /\ x \in Int /\ z \in Int
      /\ x <= off /\ off <= z
  <2> HIDE DEF S
  <2>1. \A p, q \in Int : p <= q => n * p <= n * q
    BY <1>1
  <2> QED
    BY <1>1, <2>1
<1>4. CASE Constant(s)
  <2>1. v = s[i]
    <3>1. s[j] = s[i]
      BY <1>4, ConstantIs
    <3> QED
      BY <1>1, <3>1
  <2> QED
    BY <1>4, <2>1, ConstantIs, ConstantFar
<1>5. CASE ~Constant(s)
  <2>0. AtLeast(limit, v, s)
            <=> (n - 1) * Distance(off) * Distance(off) >= limit * limit * n * P
    BY <1>5 DEF AtLeast
  <2>1. P >= 1
    BY <1>1, <1>5 DEF Constant
  <2> HIDE DEF n, S, P, off, x, z
  <2>2. off * off <= (n - 1) * P
    <3>1. off * off <= x * x \/ off * off <= z * z
      BY <1>3, SquareBetween
    <3>2. off * off \in Int /\ x * x \in Int /\ z * z \in Int /\ (n - 1) * P \in Int
      BY <1>1, <1>3
    <3> QED
      BY <1>2, <3>1, <3>2
  <2>3. Distance(off) * Distance(off) = off * off
    BY <1>3 DEF Distance
  <2>4. (n - 1) * Distance(off) * Distance(off) <= (n - 1) * ((n - 1) * P)
    <3> DEFINE o == off * off
               e == (n - 1) * P
               d == Distance(off)
    <3>1. o \in Int /\ e \in Int /\ o <= e /\ d \in Int
      BY <1>1, <1>3, <2>2 DEF Distance
    <3>2. (n - 1) * d * d = (n - 1) * o
      <4>1. (n - 1) * d * d = (n - 1) * (d * d)
        <5> HIDE DEF d
        <5> QED
          BY <1>1, <3>1
      <4> QED
        BY <2>3, <4>1
    <3> HIDE DEF o, e, d
    <3>3. (n - 1) * o <= (n - 1) * e
      BY <1>1, <3>1
    <3> QED
      BY <3>2, <3>3 DEF e, d
  <2>5. limit * limit >= 4 /\ limit * limit \in Int
    <3>1. PICK k \in Nat : limit = 2 + k
      <4>1. limit - 2 \in Nat /\ limit = 2 + (limit - 2)
        OBVIOUS
      <4> QED
        BY <4>1
    <3>2. limit * limit = 4 + (4 * k + k * k) /\ 4 * k + k * k \in Nat
      BY <3>1
    <3> QED
      BY <3>2
  <2>6. (n - 1) * ((n - 1) * P) < 4 * n * P
    BY <1>1, <2>1
  <2>7. 4 * n * P <= limit * limit * n * P
    <3> DEFINE l == limit * limit
    <3>1. n * P \in Nat
      BY <1>1
    <3> HIDE DEF l
    <3>2. \A g \in Nat : 4 * g <= l * g
      BY <2>5 DEF l
    <3>3. 4 * n * P = 4 * (n * P) /\ l * n * P = l * (n * P)
      BY <1>1, <2>5 DEF l
    <3> QED
      BY <3>1, <3>2, <3>3 DEF l
  <2>8. /\ (n - 1) * Distance(off) * Distance(off) \in Int /\ (n - 1) * ((n - 1) * P) \in Int
        /\ 4 * n * P \in Int /\ limit * limit * n * P \in Int
    BY <1>1, <1>3, <2>5 DEF Distance
  <2> QED
    BY <2>0, <2>4, <2>6, <2>7, <2>8
<1> QED
  BY <1>4, <1>5

-----------------------------------------------------------------------------
(* Roots *)

\* Induction over the numbers: a set that has each number whose smaller ones it has, has all.
LEMMA NatSubset ==
    ASSUME NEW T, \A n \in Nat : (\A m \in 0..(n - 1) : m \in T) => n \in T
    PROVE  Nat \subseteq T
<1> DEFINE U == {n \in Nat : n \notin T}
<1> SUFFICES ASSUME U # {} PROVE FALSE
  OBVIOUS
<1>1. PICK n \in U : \A m \in U : n <= m
  <2>1. U \in SUBSET Nat
    OBVIOUS
  <2> HIDE DEF U
  <2> QED
    BY <2>1, LeastExists
<1>2. \A m \in 0..(n - 1) : m \in T
  BY <1>1
<1> QED
  BY <1>1, <1>2

RootFrom(F, n) ==
    IF n = 0 THEN 0
    ELSE LET r == 2 * F[n \div 4] IN IF (r + 1) * (r + 1) <= n THEN r + 1 ELSE r
IsRoot(n, F) == F = [m \in 0..n |-> RootFrom(F, m)]

\* A quarter is smaller.
LEMMA Quarter ==
    ASSUME NEW n \in Nat, n # 0
    PROVE  n \div 4 \in 0..(n - 1) /\ 4 * (n \div 4) <= n /\ n <= 4 * (n \div 4) + 3
  OBVIOUS

\* Two iterations of the root agree on the numbers that both know.
LEMMA RootUnique ==
    ASSUME NEW n \in Nat, NEW k \in Nat, n <= k, NEW F, NEW G, IsRoot(n, F), IsRoot(k, G)
    PROVE  \A m \in 0..n : F[m] = G[m]
<1> DEFINE T == {m \in Nat : m \in 0..n => F[m] = G[m]}
<1>1. ASSUME NEW m \in Nat, \A j \in 0..(m - 1) : j \in T PROVE m \in T
  <2> SUFFICES ASSUME m \in 0..n PROVE F[m] = G[m]
    OBVIOUS
  <2>1. m \in 0..k
    OBVIOUS
  <2>2. F[m] = RootFrom(F, m) /\ G[m] = RootFrom(G, m)
    BY <2>1 DEF IsRoot
  <2>3. CASE m = 0
    BY <2>2, <2>3 DEF RootFrom
  <2>4. CASE m # 0
    <3>1. m \div 4 \in 0..(m - 1) /\ m \div 4 \in 0..n
      BY <2>4, Quarter
    <3>2. F[m \div 4] = G[m \div 4]
      BY <1>1, <3>1
    <3> QED
      BY <2>2, <2>4, <3>2 DEF RootFrom
  <2> QED
    BY <2>3, <2>4
<1> HIDE DEF T
<1>2. Nat \subseteq T
  BY <1>1, NatSubset
<1> QED
  BY <1>2 DEF T

\* The iteration of the root exists up to every number.
LEMMA RootExists == \A n \in Nat : \E F : IsRoot(n, F)
<1> DEFINE T == {n \in Nat : \E F : IsRoot(n, F)}
<1>1. ASSUME NEW n \in Nat, \A m \in 0..(n - 1) : m \in T PROVE n \in T
  <2> DEFINE H(m) == CHOOSE F : IsRoot(m, F)
             V(m) == H(m)[m]
             P == [m \in 0..(n - 1) |-> V(m)]
             G == [m \in 0..n |-> RootFrom(P, m)]
  <2>1. \A m \in 0..(n - 1) : IsRoot(m, H(m))
    BY <1>1
  <2> HIDE DEF H
  <2>2. ASSUME NEW m \in 0..(n - 1) PROVE G[m] = V(m)
    <3>1. H(m)[m] = RootFrom(H(m), m)
      BY <2>1 DEF IsRoot
    <3>2. CASE m = 0
      BY <3>1, <3>2 DEF RootFrom
    <3>3. CASE m # 0
      <4> DEFINE q == m \div 4
      <4>1. q \in 0..m /\ q \in 0..(n - 1) /\ q \in Nat /\ m \in Nat /\ q <= m
        BY <3>3, Quarter
      <4> HIDE DEF q
      <4>2. IsRoot(q, H(q)) /\ IsRoot(m, H(m)) /\ q \in 0..q
        BY <2>1, <4>1
      <4>3. H(q)[q] = H(m)[q]
        BY <4>1, <4>2, RootUnique
      <4>4. P[q] = H(m)[q]
        BY <4>1, <4>3
      <4>5. RootFrom(P, m) = RootFrom(H(m), m)
        BY <3>3, <4>4 DEF RootFrom, q
      <4>6. m \in 0..n
        BY <4>1
      <4> HIDE DEF P
      <4> QED
        BY <3>1, <4>5, <4>6
    <3> QED
      BY <3>2, <3>3
  <2>3. ASSUME NEW m \in 0..n PROVE RootFrom(P, m) = RootFrom(G, m)
    <3>1. CASE m = 0
      BY <3>1 DEF RootFrom
    <3>2. CASE m # 0
      <4> DEFINE q == m \div 4
      <4>1. m \in Nat /\ q \in 0..(m - 1)
        BY <3>2, Quarter
      <4> HIDE DEF q
      <4>2. q \in 0..(n - 1)
        BY <4>1
      <4>3. P[q] = G[q]
        <5>1. P[q] = V(q)
          BY <4>2
        <5> HIDE DEF P, G, V
        <5> QED
          BY <2>2, <4>2, <5>1
      <4> HIDE DEF P, G
      <4> QED
        BY <3>2, <4>3 DEF RootFrom, q
    <3> QED
      BY <3>1, <3>2
  <2> HIDE DEF P
  <2>4. G = [m \in 0..n |-> RootFrom(G, m)]
    <3>1. \A m \in 0..n : RootFrom(P, m) = RootFrom(G, m)
      BY <2>3
    <3>2. [m \in 0..n |-> RootFrom(P, m)] = [m \in 0..n |-> RootFrom(G, m)]
      <4> HIDE DEF G
      <4> QED
        BY <3>1
    <3> QED
      BY <3>2
  <2> HIDE DEF G
  <2> QED
    BY <2>4 DEF IsRoot
<1> HIDE DEF T
<1>2. Nat \subseteq T
  BY <1>1, NatSubset
<1> QED
  BY <1>2 DEF T

\* Root is such an iteration.
LEMMA RootStep == \A n \in Nat : Root[n] = RootFrom(Root, n)
<1> DEFINE H(n) == CHOOSE F : IsRoot(n, F)
           G == [n \in Nat |-> H(n)[n]]
<1>1. \A n \in Nat : IsRoot(n, H(n))
  BY RootExists
<1> HIDE DEF H
<1>2. ASSUME NEW n \in Nat PROVE G[n] = RootFrom(G, n)
  <2>1. G[n] = RootFrom(H(n), n)
    BY <1>1 DEF IsRoot
  <2>2. CASE n = 0
    BY <2>1, <2>2 DEF RootFrom
  <2>3. CASE n # 0
    <3> DEFINE q == n \div 4
    <3>1. q \in Nat /\ q <= n
      BY <2>3, Quarter
    <3> HIDE DEF q
    <3>2. H(q)[q] = H(n)[q]
      BY <1>1, <3>1, RootUnique
    <3>3. G[q] = H(n)[q]
      BY <3>1, <3>2
    <3> HIDE DEF G
    <3> QED
      BY <2>1, <2>3, <3>3 DEF RootFrom, q
  <2> QED
    BY <2>2, <2>3
<1>3. G = [n \in Nat |-> RootFrom(G, n)]
  <2>1. G = [n \in Nat |-> G[n]]
    OBVIOUS
  <2> HIDE DEF G
  <2> QED
    BY <1>2, <2>1
<1> HIDE DEF G
<1>4. \E R : R = [n \in Nat |-> RootFrom(R, n)]
  BY <1>3
<1>5. Root = [n \in Nat |-> RootFrom(Root, n)]
  BY <1>4 DEF Root, RootFrom
<1> QED
  BY <1>5

\* Root is the root, rounded down.
LEMMA RootIs ==
    ASSUME NEW n \in Nat
    PROVE  Root[n] \in Nat /\ Root[n] * Root[n] <= n /\ n < (Root[n] + 1) * (Root[n] + 1)
<1> DEFINE Good(m) == Root[m] \in Nat /\ Root[m] * Root[m] <= m
                      /\ m < (Root[m] + 1) * (Root[m] + 1)
           T == {m \in Nat : Good(m)}
<1>1. ASSUME NEW m \in Nat, \A j \in 0..(m - 1) : j \in T PROVE m \in T
  <2>1. CASE m = 0
    <3>1. Root[m] = 0
      BY <2>1, RootStep DEF RootFrom
    <3> QED
      BY <2>1, <3>1
  <2>2. CASE m # 0
    <3> DEFINE q == m \div 4
               s == Root[q]
               r == Root[m]
    <3>1. q \in 0..(m - 1) /\ 4 * q <= m /\ m <= 4 * q + 3
      BY <2>2, Quarter
    <3>2. s \in Nat /\ s * s <= q /\ q < (s + 1) * (s + 1)
      BY <1>1, <3>1
    <3>3. r = IF (2 * s + 1) * (2 * s + 1) <= m THEN 2 * s + 1 ELSE 2 * s
      BY <2>2, RootStep DEF RootFrom
    <3> HIDE DEF q, s, r
    <3>4. (2 * s) * (2 * s) = 4 * (s * s) /\ (2 * s + 2) * (2 * s + 2) = 4 * ((s + 1) * (s + 1))
      BY <3>2
    <3>5. s * s \in Nat /\ (s + 1) * (s + 1) \in Nat
      BY <3>2
    <3>6. (2 * s) * (2 * s) <= m /\ m < (2 * s + 2) * (2 * s + 2)
      BY <3>1, <3>2, <3>4, <3>5
    <3>7. r \in Nat /\ r * r <= m /\ m < (r + 1) * (r + 1)
      <4>1. CASE (2 * s + 1) * (2 * s + 1) <= m
        <5>1. r = 2 * s + 1 /\ r + 1 = 2 * s + 2
          BY <3>2, <3>3, <4>1
        <5> QED
          BY <3>2, <3>6, <4>1, <5>1
      <4>2. CASE ~((2 * s + 1) * (2 * s + 1) <= m)
        <5>1. r = 2 * s /\ r + 1 = 2 * s + 1
          BY <3>2, <3>3, <4>2
        <5>2. (2 * s + 1) * (2 * s + 1) \in Int
          BY <3>2
        <5> QED
          BY <3>2, <3>6, <4>2, <5>1, <5>2
      <4> QED
        BY <4>1, <4>2
    <3> QED
      BY <3>7 DEF r
  <2> QED
    BY <2>1, <2>2
<1> HIDE DEF T
<1>2. Nat \subseteq T
  BY <1>1, NatSubset
<1> QED
  BY <1>2 DEF T

\* A z-score is a whole number, not a negative one.
LEMMA ZType ==
    ASSUME NEW s, Sample(s), Judged(s), NEW v \in Int
    PROVE  TenfoldZ(v, s) \in Nat
<1> DEFINE n == Size(s)
           off == Distance(n * v - SumOf(s))
<1>1. n \in Nat /\ n >= 2 /\ SumOf(s) \in Int /\ Spread(s) \in Int
  BY SampleType DEF Judged, MinPrior
<1>2. off \in Nat
  BY <1>1 DEF Distance
<1>3. Spread(s) >= 0
  <2>1. DOMAIN s # {}
    <3> SUFFICES ASSUME DOMAIN s = {} PROVE FALSE
      OBVIOUS
    <3>1. n = 0
      BY FS_EmptySet DEF Size, Sample
    <3> QED
      BY <1>1, <3>1
  <2>2. PICK i \in DOMAIN s : TRUE
    BY <2>1
  <2> QED
    BY SpreadBounds
<1>4. CASE Constant(s)
  BY <1>4 DEF TenfoldZ, ZCap
<1>5. CASE ~Constant(s)
  <2> DEFINE a == 100 * (n - 1) * off * off
             b == n * Spread(s)
  <2>1. TenfoldZ(v, s) = Root[a \div b]
    BY <1>5 DEF TenfoldZ
  <2>2. Spread(s) > 0
    BY <1>1, <1>3, <1>5 DEF Constant
  <2> HIDE DEF n, off
  <2>3. a \in Nat
    <3>1. n - 1 \in Nat
      BY <1>1
    <3>2. 100 * (n - 1) \in Nat
      BY <3>1
    <3> QED
      BY <1>2, <3>2
  <2>4. b \in Nat \ {0}
    BY <1>1, <2>2
  <2> HIDE DEF a, b
  <2>5. a \div b \in Nat
    BY <2>3, <2>4
  <2> QED
    BY <2>1, <2>5, RootIs
<1> QED
  BY <1>4, <1>5

\* The average of numbers is one.
LEMMA AverageType ==
    ASSUME NEW s, IsFiniteSet(DOMAIN s), DOMAIN s # {}, \A i \in DOMAIN s : s[i] \in Nat
    PROVE  Average(s) \in Nat
<1>1. SumOf(s) \in Nat
  BY SumNat DEF SumOf, SumFunction
<1>2. Size(s) \in Nat \ {0}
  BY FS_CardinalityType, FS_EmptySet DEF Size
<1> QED
  BY <1>1, <1>2 DEF Average
================================================================================
