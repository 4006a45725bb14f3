------------------------------ MODULE SumProofs ------------------------------
(***************************************************************************)
(* Sums over finite sets, as SumFunctionOnSet computes them.               *)
(*                                                                         *)
(* The library defines it by a recursive function on the subsets of the    *)
(* set, the partial sums; that such a function exists, and what it is      *)
(* equal to, is shown by minimal counterexample: a property that fails of  *)
(* some subset of a finite set fails of a smallest one.                    *)
(***************************************************************************)
EXTENDS Integers, FiniteSetsExt, FiniteSetTheorems, WellFoundedInduction, TLAPS

\* The element that the fold takes first.
Pick(s) == CHOOSE x \in s : TRUE

\* g has the partial sums of f over the subsets of S.
SumsUp(g, f, S) ==
    g = [s \in SUBSET S |->
            IF s = {} THEN 0 ELSE f[Pick(s)] + g[s \ {Pick(s)}]]

\* The partial sums that the library's fold computes with.
PartialSums(f, S) == CHOOSE g : SumsUp(g, f, S)

\* SumFunctionOnSet is defined as the last of the partial sums.
LEMMA SumIsPartialSum ==
    ASSUME NEW f, NEW S
    PROVE  SumFunctionOnSet(f, S) = PartialSums(f, S)[S]
BY DEF SumFunctionOnSet, FoldFunctionOnSet, MapThenFoldSet, PartialSums,
       SumsUp, Pick

\* The element taken is one of the set.
LEMMA PickIn == ASSUME NEW s, s # {} PROVE Pick(s) \in s
BY DEF Pick

\* A set of subsets of a finite set has a smallest member.
LEMMA SmallestSubset ==
    ASSUME NEW S, IsFiniteSet(S), NEW T, T \subseteq SUBSET S, T # {}
    PROVE  \E x \in T : \A y \in T : y \subseteq x => y = x
<1>1. IsWellFoundedOn(StrictSubsetOrdering(S), SUBSET S)
  BY FS_StrictSubsetOrderingWellFounded, FS_FiniteSubsetsOfFinite
<1>2. \E x \in T : \A y \in T : ~ (<<y, x>> \in StrictSubsetOrdering(S))
  BY <1>1, WFMin
<1> QED
  BY <1>2 DEF StrictSubsetOrdering

\* Partial sums over two sets agree on their common subsets.
LEMMA SumsAgree ==
    ASSUME NEW f, NEW S, IsFiniteSet(S), NEW R, NEW g, NEW h,
           SumsUp(g, f, S), SumsUp(h, f, R), NEW u, u \subseteq S, u \subseteq R
    PROVE  g[u] = h[u]
<1> DEFINE Differ == { s \in SUBSET S : s \subseteq R /\ g[s] # h[s] }
<1> SUFFICES ASSUME g[u] # h[u] PROVE FALSE
  OBVIOUS
<1>1. u \in Differ
  OBVIOUS
<1>2. PICK s \in Differ : \A y \in Differ : y \subseteq s => y = s
  <2>1. Differ \subseteq SUBSET S /\ Differ # {}
    BY <1>1
  <2> HIDE DEF Differ
  <2> QED
    BY <2>1, SmallestSubset
<1>3. s \subseteq S /\ s \subseteq R /\ g[s] # h[s]
  OBVIOUS
<1>4. CASE s = {}
  BY <1>3, <1>4 DEF SumsUp
<1>5. CASE s # {}
  <2> DEFINE r == s \ {Pick(s)}
  <2>1. r \subseteq s /\ r # s
    BY <1>5, PickIn
  <2>2. g[r] = h[r]
    BY <2>1, <1>2, <1>3
  <2>3. g[s] = f[Pick(s)] + g[r] /\ h[s] = f[Pick(s)] + h[r]
    BY <1>3, <1>5 DEF SumsUp
  <2> QED
    BY <2>2, <2>3, <1>3
<1> QED
  BY <1>4, <1>5

\* There are partial sums over every finite set: a smallest set without them
\* would have them, by one addition to those of its proper subsets.
LEMMA SumsExist ==
    ASSUME NEW f, NEW S, IsFiniteSet(S)
    PROVE  SumsUp(PartialSums(f, S), f, S)
<1> DEFINE Has(s) == \E g : SumsUp(g, f, s)
           Lack == { s \in SUBSET S : ~ Has(s) }
<1>1. SUFFICES Has(S)
  BY DEF PartialSums
<1> SUFFICES ASSUME ~ Has(S) PROVE FALSE
  OBVIOUS
<1>2. S \in Lack
  <2> HIDE DEF Has
  <2> QED
    OBVIOUS
<1>3. PICK s \in Lack : \A y \in Lack : y \subseteq s => y = s
  <2>1. Lack \subseteq SUBSET S /\ Lack # {}
    BY <1>2
  <2> HIDE DEF Lack
  <2> QED
    BY <2>1, SmallestSubset
<1>4. s \subseteq S /\ ~ Has(s)
  OBVIOUS
<1>5. \A u : u \subseteq s /\ u # s => SumsUp(PartialSums(f, u), f, u)
  BY <1>3, <1>4 DEF PartialSums
<1> DEFINE P(u) == PartialSums(f, u)
           G == [u \in SUBSET s |->
                   IF u # s THEN P(u)[u]
                   ELSE IF s = {} THEN 0
                   ELSE f[Pick(s)] + P(s \ {Pick(s)})[s \ {Pick(s)}]]
<1>6. ASSUME NEW u, u \subseteq s
      PROVE  G[u] = IF u = {} THEN 0 ELSE f[Pick(u)] + G[u \ {Pick(u)}]
  <2> DEFINE v == u \ {Pick(u)}
  <2>1. CASE u = {}
    <3>1. CASE u = s
      BY <2>1, <3>1
    <3>2. CASE u # s
      <4>1. SumsUp(P(u), f, u)
        BY <1>5, <1>6, <3>2
      <4>2. P(u)[u] = 0
        BY <4>1, <2>1 DEF SumsUp
      <4> QED
        BY <4>2, <2>1, <3>2, <1>6
    <3> QED
      BY <3>1, <3>2
  <2>2. CASE u # {}
    <3>1. v \subseteq u /\ v # u /\ v \subseteq s /\ v # s
      BY <2>2, <1>6, PickIn
    <3>2. G[v] = P(v)[v]
      BY <3>1
    <3>3. CASE u = s
      BY <3>2, <3>3, <2>2
    <3>4. CASE u # s
      <4>1. SumsUp(P(u), f, u) /\ SumsUp(P(v), f, v)
        BY <1>5, <1>6, <3>4, <3>1
      <4>2. IsFiniteSet(u)
        BY <1>6, <1>4, FS_Subset
      <4>3. P(u)[v] = P(v)[v]
        BY <4>1, <4>2, <3>1, SumsAgree
      <4>4. P(u)[u] = f[Pick(u)] + P(u)[v]
        BY <4>1, <2>2 DEF SumsUp
      <4>5. G[u] = P(u)[u]
        BY <3>4, <1>6
      <4> QED
        BY <4>3, <4>4, <4>5, <3>2, <2>2
    <3> QED
      BY <3>3, <3>4
  <2> QED
    BY <2>1, <2>2
<1>7. G = [u \in SUBSET s |->
              IF u = {} THEN 0 ELSE f[Pick(u)] + G[u \ {Pick(u)}]]
  <2> HIDE DEF G
  <2>1. G = [u \in SUBSET s |-> G[u]]
    BY DEF G
  <2> QED
    BY <2>1, <1>6
<1>8. SumsUp(G, f, s)
  BY <1>7 DEF SumsUp
<1> QED
  BY <1>8, <1>4

\* The sum over no element.
LEMMA SumEmpty ==
    ASSUME NEW f
    PROVE  SumFunctionOnSet(f, {}) = 0
<1>1. SumsUp(PartialSums(f, {}), f, {})
  BY SumsExist, FS_EmptySet
<1> QED
  BY <1>1, SumIsPartialSum DEF SumsUp

\* The sum with one element set apart, the one that the fold takes first.
LEMMA SumPick ==
    ASSUME NEW f, NEW S, IsFiniteSet(S), S # {}
    PROVE  SumFunctionOnSet(f, S) =
              f[Pick(S)] + SumFunctionOnSet(f, S \ {Pick(S)})
<1> DEFINE R == S \ {Pick(S)}
<1>1. IsFiniteSet(R) /\ R \subseteq S /\ R \subseteq R
  BY FS_Subset
<1>2. /\ SumsUp(PartialSums(f, S), f, S)
      /\ SumsUp(PartialSums(f, R), f, R)
  BY <1>1, SumsExist
<1>3. PartialSums(f, R)[R] = PartialSums(f, S)[R]
  <2> HIDE DEF R
  <2> QED
    BY <1>1, <1>2, SumsAgree
<1>4. PartialSums(f, S)[S] = f[Pick(S)] + PartialSums(f, S)[R]
  BY <1>2 DEF SumsUp
<1> QED
  BY <1>3, <1>4, SumIsPartialSum

\* A set of integers that is closed under addition holds the sum of its members.
LEMMA SumClosed ==
    ASSUME NEW A, 0 \in A, \A a, b \in A : a + b \in A,
           NEW f, NEW S, IsFiniteSet(S), \A x \in S : f[x] \in A
    PROVE  SumFunctionOnSet(f, S) \in A
<1> DEFINE Bad == { s \in SUBSET S : SumFunctionOnSet(f, s) \notin A }
<1> SUFFICES ASSUME SumFunctionOnSet(f, S) \notin A PROVE FALSE
  OBVIOUS
<1>1. Bad \subseteq SUBSET S /\ S \in Bad
  OBVIOUS
<1>2. PICK s \in Bad : \A y \in Bad : y \subseteq s => y = s
  <2> HIDE DEF Bad
  <2> QED
    BY <1>1, SmallestSubset
<1>3. s \subseteq S /\ IsFiniteSet(s)
  BY FS_Subset
<1>4. s # {}
  BY SumEmpty
<1>5. Pick(s) \in s /\ f[Pick(s)] \in A
  BY <1>3, <1>4, PickIn
<1>6. SumFunctionOnSet(f, s \ {Pick(s)}) \in A
  BY <1>2, <1>3, <1>5
<1>7. SumFunctionOnSet(f, s) \in A
  BY <1>3, <1>4, <1>5, <1>6, SumPick
<1> QED
  BY <1>7

\* A sum of integers is an integer.
LEMMA SumInt ==
    ASSUME NEW f, NEW S, IsFiniteSet(S), \A x \in S : f[x] \in Int
    PROVE  SumFunctionOnSet(f, S) \in Int
<1>1. 0 \in Int /\ \A a, b \in Int : a + b \in Int
  OBVIOUS
<1> QED
  BY <1>1, SumClosed

\* A sum of naturals is natural.
LEMMA SumNat ==
    ASSUME NEW f, NEW S, IsFiniteSet(S), \A x \in S : f[x] \in Nat
    PROVE  SumFunctionOnSet(f, S) \in Nat
<1>1. 0 \in Nat /\ \A a, b \in Nat : a + b \in Nat
  OBVIOUS
<1> QED
  BY <1>1, SumClosed

\* Any element may be set apart: the order of the sum does not matter.
LEMMA SumRemove ==
    ASSUME NEW f, NEW S, IsFiniteSet(S), \A x \in S : f[x] \in Int, NEW e \in S
    PROVE  SumFunctionOnSet(f, S) = f[e] + SumFunctionOnSet(f, S \ {e})
<1> DEFINE Apart(s, x) ==
             SumFunctionOnSet(f, s) = f[x] + SumFunctionOnSet(f, s \ {x})
           Bad == { s \in SUBSET S : \E x \in s : ~ Apart(s, x) }
<1> SUFFICES ASSUME ~ Apart(S, e) PROVE FALSE
  OBVIOUS
<1>1. Bad \subseteq SUBSET S /\ S \in Bad
  <2> HIDE DEF Apart
  <2> QED
    OBVIOUS
<1>2. PICK s \in Bad : \A y \in Bad : y \subseteq s => y = s
  <2> HIDE DEF Bad
  <2> QED
    BY <1>1, SmallestSubset
<1>3. PICK x \in s : ~ Apart(s, x)
  OBVIOUS
<1> DEFINE p == Pick(s)
           r == s \ {p, x}
<1>4. s \subseteq S /\ IsFiniteSet(s) /\ IsFiniteSet(r)
  BY FS_Subset
<1>5. p \in s /\ Apart(s, p)
  BY <1>4, PickIn, SumPick
<1>6. p # x
  BY <1>3, <1>5
<1>7. ASSUME NEW y \in s, NEW z \in s, y # z
      PROVE  SumFunctionOnSet(f, s \ {y}) =
                f[z] + SumFunctionOnSet(f, s \ {y, z})
  <2>1. s \ {y} \subseteq s /\ s \ {y} # s /\ z \in s \ {y}
    BY <1>7
  <2>2. Apart(s \ {y}, z)
    <3> HIDE DEF Apart
    <3> QED
      BY <2>1, <1>2, <1>4
  <2>3. (s \ {y}) \ {z} = s \ {y, z}
    OBVIOUS
  <2> QED
    BY <2>2, <2>3
<1>8. s \ {x, p} = r
  OBVIOUS
<1>9. /\ SumFunctionOnSet(f, s \ {p}) = f[x] + SumFunctionOnSet(f, r)
      /\ SumFunctionOnSet(f, s \ {x}) = f[p] + SumFunctionOnSet(f, r)
  BY <1>5, <1>6, <1>7, <1>8
<1>10. f[x] \in Int /\ f[p] \in Int /\ SumFunctionOnSet(f, r) \in Int
  BY <1>4, <1>5, SumInt
<1> HIDE DEF p, r
<1> QED
  BY <1>3, <1>5, <1>9, <1>10

\* Functions that agree on a set have the same sum over it.
LEMMA SumAgree ==
    ASSUME NEW f, NEW h, NEW S, IsFiniteSet(S), \A x \in S : f[x] = h[x]
    PROVE  SumFunctionOnSet(f, S) = SumFunctionOnSet(h, S)
<1> DEFINE Bad == { s \in SUBSET S :
                      SumFunctionOnSet(f, s) # SumFunctionOnSet(h, s) }
<1> SUFFICES ASSUME SumFunctionOnSet(f, S) # SumFunctionOnSet(h, S) PROVE FALSE
  OBVIOUS
<1>1. Bad \subseteq SUBSET S /\ S \in Bad
  OBVIOUS
<1>2. PICK s \in Bad : \A y \in Bad : y \subseteq s => y = s
  <2> HIDE DEF Bad
  <2> QED
    BY <1>1, SmallestSubset
<1>3. IsFiniteSet(s)
  BY FS_Subset
<1>4. s # {}
  BY SumEmpty
<1>5. Pick(s) \in s
  BY <1>4, PickIn
<1>6. SumFunctionOnSet(f, s \ {Pick(s)}) = SumFunctionOnSet(h, s \ {Pick(s)})
  BY <1>2, <1>5
<1>7. f[Pick(s)] = h[Pick(s)]
  BY <1>5
<1>8. SumFunctionOnSet(f, s) = SumFunctionOnSet(h, s)
  BY <1>3, <1>4, <1>6, <1>7, SumPick
<1> QED
  BY <1>8

\* The sum over a set is the sum over a part of it and over the rest.
LEMMA SumSplit ==
    ASSUME NEW f, NEW S, IsFiniteSet(S), \A x \in S : f[x] \in Int,
           NEW R, R \subseteq S
    PROVE  SumFunctionOnSet(f, S) =
              SumFunctionOnSet(f, R) + SumFunctionOnSet(f, S \ R)
<1> DEFINE Holds(s) == SumFunctionOnSet(f, S) =
                          SumFunctionOnSet(f, S \ s) + SumFunctionOnSet(f, s)
           Bad == { s \in SUBSET S : ~ Holds(s) }
<1>1. ASSUME ~ Holds(S \ R) PROVE FALSE
  <2>1. Bad \subseteq SUBSET S /\ S \ R \in Bad
    <3> HIDE DEF Holds
    <3> QED
      BY <1>1
  <2>2. PICK s \in Bad : \A y \in Bad : y \subseteq s => y = s
    <3> HIDE DEF Bad
    <3> QED
      BY <2>1, SmallestSubset
  <2>3. s \subseteq S /\ IsFiniteSet(s) /\ IsFiniteSet(S \ s)
    BY FS_Subset
  <2>4. s # {}
    <3>1. S \ {} = S
      OBVIOUS
    <3>2. SumFunctionOnSet(f, S) \in Int
      BY SumInt
    <3>3. Holds({})
      BY <3>1, <3>2, SumEmpty
    <3> QED
      BY <3>3
  <2> DEFINE p == Pick(s)
             t == s \ {p}
  <2>5. p \in s /\ t \subseteq s /\ t # s
    BY <2>4, PickIn
  <2>6. SumFunctionOnSet(f, S) =
           SumFunctionOnSet(f, S \ t) + SumFunctionOnSet(f, t)
    BY <2>2, <2>3, <2>5
  <2>7. SumFunctionOnSet(f, s) = f[p] + SumFunctionOnSet(f, t)
    BY <2>3, <2>4, SumPick
  <2>8. /\ IsFiniteSet(S \ t) /\ IsFiniteSet(t)
        /\ p \in S \ t /\ (S \ t) \ {p} = S \ s
    BY <2>3, <2>5, FS_Subset
  <2>9. SumFunctionOnSet(f, S \ t) = f[p] + SumFunctionOnSet(f, S \ s)
    BY <2>8, SumRemove
  <2>10. /\ SumFunctionOnSet(f, S \ s) \in Int
         /\ SumFunctionOnSet(f, t) \in Int /\ f[p] \in Int
    BY <2>3, <2>5, <2>8, SumInt
  <2> HIDE DEF p, t
  <2>11. Holds(s)
    BY <2>6, <2>7, <2>9, <2>10
  <2> QED
    BY <2>11
<1>2. S \ (S \ R) = R
  OBVIOUS
<1> QED
  BY <1>1, <1>2

==============================================================================
