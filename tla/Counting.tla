------------------------------ MODULE Counting ------------------------------
(***************************************************************************)
(* What the proofs about costs, counts and logs rest on: induction over a  *)
(* finite set, as the choice of a smallest counterexample; from it the sum *)
(* of a function over a finite set, whatever order the fold takes it in;   *)
(* and what a filter leaves of a sequence.                                 *)
(***************************************************************************)
EXTENDS Naturals, FiniteSets, FiniteSetTheorems, FiniteSetsExt, Functions, WellFoundedInduction, NaturalsInduction,
        Filters, SequenceTheorems, TLAPS

\* Among subsets of a finite set there is one with no smaller one.
LEMMA Smallest ==
    ASSUME NEW S, IsFiniteSet(S), NEW B \in SUBSET (SUBSET S), B # {}
    PROVE  \E T \in B : \A U \in B : U \subseteq T => U = T
<1>1. IsWellFoundedOn(StrictSubsetOrdering(S), SUBSET S)
    BY FS_StrictSubsetOrderingWellFounded, FS_FiniteSubsetsOfFinite
<1>2. PICK T \in B : \A U \in B : ~(<<U, T>> \in StrictSubsetOrdering(S))
    BY <1>1, WFMin
<1>3. ASSUME NEW U \in B, U \subseteq T
      PROVE  U = T
    BY <1>2, <1>3 DEF StrictSubsetOrdering
<1> QED
    BY <1>3

\* A set of numbers has a least one.
LEMMA Least ==
    ASSUME NEW S \in SUBSET Nat, S # {}
    PROVE  \E i \in S : \A j \in S : i <= j
<1> DEFINE R == {ss \in Nat \X Nat : ss[1] < ss[2]}
<1>1. IsWellFoundedOn(R, Nat)
    BY NatLessThanWellFounded DEF OpToRel
<1>2. \E i \in S : \A j \in S : ~(<<j, i>> \in R)
  <2> HIDE DEF R
  <2> QED
    BY <1>1, WFMin
<1>3. PICK i \in S : \A j \in S : ~(<<j, i>> \in R)
    BY <1>2
<1>4. ASSUME NEW j \in S PROVE i <= j
  <2>1. i \in Nat /\ j \in Nat
    OBVIOUS
  <2>2. <<j, i>> \in Nat \X Nat /\ <<j, i>>[1] = j /\ <<j, i>>[2] = i
    BY <2>1
  <2>3. ~(j < i)
    BY <1>3, <2>2
  <2> QED
    BY <2>1, <2>3
<1> QED
    BY <1>4

-----------------------------------------------------------------------------
(* The fold that SumFunctionOnSet is made of has a solution, and one only.   *)

Pick(s) == CHOOSE x \in s : TRUE

Body(f, g, s) == IF s = {} THEN 0 ELSE f[Pick(s)] + g[s \ {Pick(s)}]

Solves(f, g, S) == g = [s \in SUBSET S |-> Body(f, g, s)]

LEMMA SumDef ==
    ASSUME NEW S, NEW f
    PROVE  SumFunctionOnSet(f, S) = (CHOOSE g : Solves(f, g, S))[S]
    BY DEF SumFunctionOnSet, FoldFunctionOnSet, MapThenFoldSet, Solves, Body, Pick

LEMMA PickIn == \A s : s # {} => Pick(s) \in s
    BY DEF Pick

LEMMA Unique ==
    ASSUME NEW f, NEW S, IsFiniteSet(S), NEW T \in SUBSET S,
           NEW g, Solves(f, g, S), NEW h, Solves(f, h, T)
    PROVE  g[T] = h[T]
<1> DEFINE B == {s \in SUBSET T : g[s] # h[s]}
<1>1. SUFFICES ASSUME B # {} PROVE FALSE
    OBVIOUS
<1>2. IsFiniteSet(T)
    BY FS_Subset
<1>3. PICK s \in B : \A U \in B : U \subseteq s => U = s
    <2> HIDE DEF B
    <2>1. B \in SUBSET (SUBSET T)
        BY DEF B
    <2> QED
        BY <1>1, <1>2, <2>1, Smallest
<1>4. s \in SUBSET T /\ s \in SUBSET S /\ g[s] # h[s]
    OBVIOUS
<1>5. g[s] = Body(f, g, s) /\ h[s] = Body(f, h, s)
    BY <1>4 DEF Solves
<1>6. s # {}
    BY <1>4, <1>5 DEF Body
<1>7. s \ {Pick(s)} # s /\ s \ {Pick(s)} \subseteq s
    BY <1>6, PickIn
<1>8. g[s \ {Pick(s)}] = h[s \ {Pick(s)}]
    BY <1>3, <1>4, <1>7
<1> QED
    BY <1>4, <1>5, <1>6, <1>8 DEF Body

\* The solution for S, where there is one for every part of it.
Parts(f, S) ==
    [s \in SUBSET S |-> IF s = {} THEN 0
                        ELSE f[Pick(s)] + SumFunctionOnSet(f, s \ {Pick(s)})]

LEMMA Solvable ==
    ASSUME NEW f, NEW S, IsFiniteSet(S)
    PROVE  \E g : Solves(f, g, S)
<1> DEFINE B == {s \in SUBSET S : ~\E g : Solves(f, g, s)}
<1>1. SUFFICES ASSUME B # {} PROVE FALSE
    OBVIOUS
<1>2. PICK s \in B : \A U \in B : U \subseteq s => U = s
    <2> HIDE DEF B
    <2>1. B \in SUBSET (SUBSET S)
        BY DEF B
    <2> QED
        BY <1>1, <2>1, Smallest
<1>3. s \in SUBSET S /\ ~\E g : Solves(f, g, s)
    OBVIOUS
<1>4. ASSUME NEW t \in SUBSET s, t # s
      PROVE  Solves(f, CHOOSE g : Solves(f, g, t), t)
    BY <1>2, <1>3, <1>4
<1> HIDE DEF B
<1>5. ASSUME NEW t \in SUBSET s, t # s
      PROVE  SumFunctionOnSet(f, t) = Parts(f, s)[t]
    <2> DEFINE g == CHOOSE g : Solves(f, g, t)
               r == t \ {Pick(t)}
    <2>1. SumFunctionOnSet(f, t) = g[t] /\ Solves(f, g, t)
        BY <1>4, <1>5, SumDef
    <2>2. g[t] = Body(f, g, t)
        BY <2>1 DEF Solves
    <2>3. CASE t = {}
        BY <2>1, <2>2, <2>3 DEF Body, Parts
    <2>4. CASE t # {}
        <3>1. r \in SUBSET t /\ r # t /\ r # s /\ r \in SUBSET s
            BY <2>4, PickIn
        <3>2. Solves(f, CHOOSE h : Solves(f, h, r), r)
            BY <3>1, <1>4
        <3>3. IsFiniteSet(t)
            BY <1>3, FS_Subset
        <3>4. g[r] = (CHOOSE h : Solves(f, h, r))[r]
            <4> HIDE DEF g, r
            <4> QED
                BY <2>1, <3>1, <3>2, <3>3, Unique
        <3>5. g[r] = SumFunctionOnSet(f, r)
            BY <3>4, SumDef
        <3> QED
            BY <2>1, <2>2, <2>4, <3>5 DEF Body, Parts
    <2> QED
        BY <2>3, <2>4
<1>6. Solves(f, Parts(f, s), s)
    <2>1. ASSUME NEW t \in SUBSET s
          PROVE  Parts(f, s)[t] = Body(f, Parts(f, s), t)
        <3>1. CASE t = {}
            BY <3>1 DEF Parts, Body
        <3>2. CASE t # {}
            <4>1. t \ {Pick(t)} \in SUBSET s /\ t \ {Pick(t)} # s
                BY <3>2, PickIn
            <4>2. SumFunctionOnSet(f, t \ {Pick(t)}) = Parts(f, s)[t \ {Pick(t)}]
                BY <4>1, <1>5
            <4> QED
                BY <3>2, <4>2 DEF Parts, Body
        <3> QED
            BY <3>1, <3>2
    <2>2. Parts(f, s) = [t \in SUBSET s |-> Parts(f, s)[t]]
        BY DEF Parts
    <2> QED
        BY <2>1, <2>2 DEF Solves
<1> QED
    BY <1>3, <1>6

-----------------------------------------------------------------------------
(* Sums.                                                                     *)

LEMMA SumBody ==
    ASSUME NEW f, NEW S, IsFiniteSet(S)
    PROVE  SumFunctionOnSet(f, S) =
               IF S = {} THEN 0 ELSE f[Pick(S)] + SumFunctionOnSet(f, S \ {Pick(S)})
<1> DEFINE g == CHOOSE g : Solves(f, g, S)
           R == S \ {Pick(S)}
           h == CHOOSE h : Solves(f, h, R)
<1>1. Solves(f, g, S)
    BY Solvable
<1>2. g[S] = Body(f, g, S)
    BY <1>1 DEF Solves
<1>3. IsFiniteSet(R)
    BY FS_Subset
<1>4. Solves(f, h, R)
    BY <1>3, Solvable
<1>5. g[R] = h[R]
    <2> HIDE DEF g, h
    <2> QED
        BY <1>1, <1>4, Unique
<1>6. SumFunctionOnSet(f, S) = g[S] /\ SumFunctionOnSet(f, R) = h[R]
    BY SumDef
<1> QED
    BY <1>2, <1>5, <1>6 DEF Body

LEMMA SumNone ==
    ASSUME NEW f
    PROVE  SumFunctionOnSet(f, {}) = 0
    BY SumBody, FS_EmptySet

LEMMA SumType ==
    ASSUME NEW S, IsFiniteSet(S), NEW f, \A x \in S : f[x] \in Nat
    PROVE  SumFunctionOnSet(f, S) \in Nat
<1> DEFINE B == {s \in SUBSET S : SumFunctionOnSet(f, s) \notin Nat}
<1>1. SUFFICES ASSUME B # {} PROVE FALSE
    OBVIOUS
<1>2. PICK s \in B : \A U \in B : U \subseteq s => U = s
    <2> HIDE DEF B
    <2>1. B \in SUBSET (SUBSET S)
        BY DEF B
    <2> QED
        BY <1>1, <2>1, Smallest
<1>3. s # {} /\ IsFiniteSet(s)
    <2>1. s \in SUBSET S /\ SumFunctionOnSet(f, s) \notin Nat
        OBVIOUS
    <2>2. SumFunctionOnSet(f, {}) \in Nat
        BY SumNone
    <2>3. s # {}
        BY <2>1, <2>2
    <2>4. IsFiniteSet(s)
        BY <2>1, FS_Subset
    <2> QED
        BY <2>3, <2>4
<1>4. SumFunctionOnSet(f, s) = f[Pick(s)] + SumFunctionOnSet(f, s \ {Pick(s)})
    BY <1>3, SumBody
<1>5. Pick(s) \in s /\ f[Pick(s)] \in Nat
    BY <1>3, PickIn
<1>6. SumFunctionOnSet(f, s \ {Pick(s)}) \in Nat
    BY <1>2, <1>5
<1> QED
    BY <1>4, <1>5, <1>6

\* Any element may be taken out first.
LEMMA SumOut ==
    ASSUME NEW S, IsFiniteSet(S), NEW f, \A x \in S : f[x] \in Nat, NEW x \in S
    PROVE  SumFunctionOnSet(f, S) = f[x] + SumFunctionOnSet(f, S \ {x})
<1> DEFINE Out(s) == \A y \in s : SumFunctionOnSet(f, s) = f[y] + SumFunctionOnSet(f, s \ {y})
           B == {s \in SUBSET S : ~Out(s)}
<1>1. SUFFICES ASSUME B # {} PROVE FALSE
    OBVIOUS
<1>2. PICK s \in B : \A U \in B : U \subseteq s => U = s
    <2> HIDE DEF B
    <2>1. B \in SUBSET (SUBSET S)
        BY DEF B
    <2> QED
        BY <1>1, <2>1, Smallest
<1>3. PICK y \in s : SumFunctionOnSet(f, s) # f[y] + SumFunctionOnSet(f, s \ {y})
    BY <1>2
<1> DEFINE p == Pick(s)
<1>4. p \in s
    BY PickIn
<1>5. IsFiniteSet(s) /\ s \in SUBSET S
    BY FS_Subset
<1>6. SumFunctionOnSet(f, s) = f[p] + SumFunctionOnSet(f, s \ {p})
    BY <1>4, <1>5, SumBody
<1> HIDE DEF p
<1>7. p # y
    BY <1>3, <1>6
<1>8. Out(s \ {p}) /\ Out(s \ {y})
    <2>1. s \ {p} \in SUBSET S /\ s \ {p} # s /\ s \ {p} \subseteq s
        BY <1>4, <1>5
    <2>2. s \ {y} \in SUBSET S /\ s \ {y} # s /\ s \ {y} \subseteq s
        BY <1>3, <1>5
    <2> QED
        BY <1>2, <2>1, <2>2
<1> DEFINE rest == (s \ {p}) \ {y}
<1>9. rest = (s \ {y}) \ {p}
    OBVIOUS
<1>10. SumFunctionOnSet(f, s \ {p}) = f[y] + SumFunctionOnSet(f, rest)
    BY <1>3, <1>7, <1>8
<1>11. SumFunctionOnSet(f, s \ {y}) = f[p] + SumFunctionOnSet(f, rest)
    BY <1>4, <1>7, <1>8, <1>9
<1>12. SumFunctionOnSet(f, rest) \in Nat
    <2>1. IsFiniteSet(rest) /\ rest \subseteq S
        BY <1>5, FS_Subset
    <2> HIDE DEF rest
    <2> QED
        BY <2>1, SumType
<1>13. f[p] \in Nat /\ f[y] \in Nat
    BY <1>3, <1>4, <1>5
<1> HIDE DEF rest
<1> QED
    BY <1>3, <1>6, <1>10, <1>11, <1>12, <1>13

LEMMA SumAdd ==
    ASSUME NEW S, IsFiniteSet(S), NEW f, NEW x, x \notin S, f[x] \in Nat,
           \A y \in S : f[y] \in Nat
    PROVE  SumFunctionOnSet(f, S \cup {x}) = SumFunctionOnSet(f, S) + f[x]
<1>1. IsFiniteSet(S \cup {x})
    BY FS_AddElement
<1>2. (S \cup {x}) \ {x} = S
    OBVIOUS
<1>3. SumFunctionOnSet(f, S \cup {x}) = f[x] + SumFunctionOnSet(f, S)
    BY <1>1, <1>2, SumOut
<1> QED
    BY <1>3, SumType

\* What a sum depends on.
LEMMA SumSame ==
    ASSUME NEW S, IsFiniteSet(S), NEW f, NEW g, \A x \in S : f[x] = g[x]
    PROVE  SumFunctionOnSet(f, S) = SumFunctionOnSet(g, S)
<1> DEFINE B == {s \in SUBSET S : SumFunctionOnSet(f, s) # SumFunctionOnSet(g, s)}
<1>1. SUFFICES ASSUME B # {} PROVE FALSE
    OBVIOUS
<1>2. PICK s \in B : \A U \in B : U \subseteq s => U = s
    <2> HIDE DEF B
    <2>1. B \in SUBSET (SUBSET S)
        BY DEF B
    <2> QED
        BY <1>1, <2>1, Smallest
<1>3. s # {} /\ IsFiniteSet(s) /\ s \in SUBSET S
    BY SumNone, FS_Subset
<1>4. /\ SumFunctionOnSet(f, s) = f[Pick(s)] + SumFunctionOnSet(f, s \ {Pick(s)})
      /\ SumFunctionOnSet(g, s) = g[Pick(s)] + SumFunctionOnSet(g, s \ {Pick(s)})
    BY <1>3, SumBody
<1>5. Pick(s) \in s
    BY <1>3, PickIn
<1>6. SumFunctionOnSet(f, s \ {Pick(s)}) = SumFunctionOnSet(g, s \ {Pick(s)})
    BY <1>2, <1>3, <1>5
<1> QED
    BY <1>3, <1>4, <1>5, <1>6

\* Two sets that have nothing in common.
LEMMA SumBoth ==
    ASSUME NEW S, IsFiniteSet(S), NEW T, IsFiniteSet(T), S \cap T = {}, NEW f,
           \A x \in S \cup T : f[x] \in Nat
    PROVE  SumFunctionOnSet(f, S \cup T) = SumFunctionOnSet(f, S) + SumFunctionOnSet(f, T)
<1> DEFINE B == {s \in SUBSET T : SumFunctionOnSet(f, S \cup s)
                                     # SumFunctionOnSet(f, S) + SumFunctionOnSet(f, s)}
<1>1. SUFFICES ASSUME B # {} PROVE FALSE
    OBVIOUS
<1>2. PICK s \in B : \A U \in B : U \subseteq s => U = s
    <2> HIDE DEF B
    <2>1. B \in SUBSET (SUBSET T)
        BY DEF B
    <2> QED
        BY <1>1, <2>1, Smallest
<1>3. IsFiniteSet(s) /\ s \in SUBSET T
    BY FS_Subset
<1>4. SumFunctionOnSet(f, S) \in Nat
    BY SumType
<1>5. CASE s = {}
    <2>1. S \cup {} = S /\ SumFunctionOnSet(f, {}) = 0
        BY SumNone
    <2>2. SumFunctionOnSet(f, S \cup {}) # SumFunctionOnSet(f, S) + SumFunctionOnSet(f, {})
        BY <1>2, <1>5
    <2> QED
        BY <1>4, <2>1, <2>2
<1>6. CASE s # {}
    <2> DEFINE x == Pick(s)
               r == s \ {x}
    <2>1. x \in s
        BY <1>6, PickIn
    <2> HIDE DEF x
    <2>2. r \in SUBSET T /\ r # s /\ r \subseteq s /\ s = r \cup {x} /\ x \notin r
        BY <1>3, <2>1
    <2> HIDE DEF r
    <2>3. SumFunctionOnSet(f, S \cup r) = SumFunctionOnSet(f, S) + SumFunctionOnSet(f, r)
        BY <1>2, <2>2
    <2>4. IsFiniteSet(r) /\ IsFiniteSet(S \cup r)
        BY <1>3, <2>2, FS_Subset, FS_Union
    <2>5. f[x] \in Nat /\ \A y \in S \cup r : f[y] \in Nat
        BY <1>3, <2>1, <2>2
    <2>6. SumFunctionOnSet(f, s) = SumFunctionOnSet(f, r) + f[x]
        BY <2>2, <2>4, <2>5, SumAdd, SMTT(30)
    <2>7. x \notin S \cup r /\ S \cup s = (S \cup r) \cup {x}
        BY <1>3, <2>1, <2>2
    <2>8. SumFunctionOnSet(f, S \cup s) = SumFunctionOnSet(f, S \cup r) + f[x]
        BY <2>4, <2>5, <2>7, SumAdd, SMTT(30)
    <2>9. SumFunctionOnSet(f, r) \in Nat
        BY <2>4, <2>5, SumType
    <2> QED
        BY <1>2, <1>4, <2>3, <2>5, <2>6, <2>8, <2>9
<1> QED
    BY <1>5, <1>6

LEMMA SumLess ==
    ASSUME NEW S, IsFiniteSet(S), NEW f, \A x \in S : f[x] \in Nat, NEW T \in SUBSET S
    PROVE  SumFunctionOnSet(f, T) <= SumFunctionOnSet(f, S)
<1>1. IsFiniteSet(T) /\ IsFiniteSet(S \ T) /\ T \cap (S \ T) = {} /\ T \cup (S \ T) = S
    BY FS_Subset
<1>2. SumFunctionOnSet(f, T) \in Nat /\ SumFunctionOnSet(f, S \ T) \in Nat
    BY <1>1, SumType
<1> QED
    BY <1>1, <1>2, SumBoth

\* Nothing but zeros.
LEMMA SumZero ==
    ASSUME NEW S, IsFiniteSet(S), NEW f, \A x \in S : f[x] = 0
    PROVE  SumFunctionOnSet(f, S) = 0
<1> DEFINE B == {s \in SUBSET S : SumFunctionOnSet(f, s) # 0}
<1>1. SUFFICES ASSUME B # {} PROVE FALSE
    OBVIOUS
<1>2. PICK s \in B : \A U \in B : U \subseteq s => U = s
    <2> HIDE DEF B
    <2>1. B \in SUBSET (SUBSET S)
        BY DEF B
    <2> QED
        BY <1>1, <2>1, Smallest
<1>3. s \in SUBSET S /\ IsFiniteSet(s) /\ SumFunctionOnSet(f, s) # 0
    BY FS_Subset
<1>4. PICK x \in s : TRUE
    BY <1>3, SumNone
<1>5. SumFunctionOnSet(f, s) = f[x] + SumFunctionOnSet(f, s \ {x})
    BY <1>3, <1>4, SumOut
<1>6. SumFunctionOnSet(f, s \ {x}) = 0
    BY <1>2, <1>4
<1> QED
    BY <1>3, <1>4, <1>5, <1>6

-----------------------------------------------------------------------------
(* The filter of a sequence.                                                 *)

LEMMA RankLess ==
    ASSUME NEW K \in SUBSET Nat, IsFiniteSet(K), NEW i \in K, NEW j \in K, i < j
    PROVE  Rank(K, i) < Rank(K, j)
<1> DEFINE A == {x \in K : x <= i}
           B == {x \in K : x <= j}
<1>1. i \in Nat /\ j \in Nat /\ \A x \in K : x \in Nat
    OBVIOUS
<1>2. A \subseteq B /\ j \in B /\ j \notin A /\ B \in SUBSET K
    <2>1. \A x \in K : x <= i => x <= j
        BY <1>1
    <2>2. j <= j /\ ~(j <= i)
        BY <1>1
    <2> QED
        BY <2>1, <2>2
<1> HIDE DEF A, B
<1>3. IsFiniteSet(B) /\ IsFiniteSet(A)
    BY <1>2, FS_Subset
<1>4. Cardinality(A) <= Cardinality(B) /\ (Cardinality(A) = Cardinality(B) => A = B)
    BY <1>2, <1>3, FS_Subset
<1>5. Cardinality(A) \in Nat /\ Cardinality(B) \in Nat
    BY <1>3, FS_CardinalityType
<1>6. Cardinality(A) < Cardinality(B)
    BY <1>2, <1>4, <1>5
<1> QED
    BY <1>6 DEF Rank, A, B

\* The ranks of n numbers are 1 to n.
LEMMA NthIs ==
    ASSUME NEW K \in SUBSET Nat, IsFiniteSet(K)
    PROVE  /\ Cardinality(K) \in Nat
           /\ \A j \in 1..Cardinality(K) : Nth(K, j) \in K /\ Rank(K, Nth(K, j)) = j
           /\ \A i \in K : Rank(K, i) \in 1..Cardinality(K) /\ Nth(K, Rank(K, i)) = i
<1> DEFINE c == Cardinality(K)
           f == [i \in K |-> Rank(K, i)]
<1>1. c \in Nat
    BY FS_CardinalityType
<1>2. \A i \in K : Rank(K, i) \in 1..c
    <2> SUFFICES ASSUME NEW i \in K PROVE Rank(K, i) \in 1..c
        OBVIOUS
    <2> DEFINE A == {x \in K : x <= i}
    <2>1. A \in SUBSET K /\ i \in A
        OBVIOUS
    <2> HIDE DEF A
    <2>2. IsFiniteSet(A) /\ Cardinality(A) <= c
        BY <2>1, FS_Subset
    <2>3. Cardinality(A) \in Nat /\ Cardinality(A) # 0
        BY <2>1, <2>2, FS_CardinalityType, FS_EmptySet
    <2>4. Cardinality(A) \in 1..c
        BY <1>1, <2>2, <2>3
    <2> QED
        BY <2>4 DEF Rank, A
<1>3. \A i, j \in K : Rank(K, i) = Rank(K, j) => i = j
    <2> SUFFICES ASSUME NEW i \in K, NEW j \in K, i # j PROVE Rank(K, i) # Rank(K, j)
        OBVIOUS
    <2>1. CASE i < j
        BY <2>1, <1>1, <1>2, RankLess
    <2>2. CASE j < i
        BY <2>2, <1>1, <1>2, RankLess
    <2>3. i < j \/ j < i
        OBVIOUS
    <2> QED
        BY <2>1, <2>2, <2>3
<1>4. f \in Injection(K, 1..c)
    BY <1>2, <1>3 DEF Injection, IsInjective
<1>5. IsFiniteSet(1..c) /\ Cardinality(1..c) = c
    <2>1. 1 \in Int /\ c \in Int
        BY <1>1
    <2>2. IsFiniteSet(1..c) /\ Cardinality(1..c) = IF 1 > c THEN 0 ELSE c - 1 + 1
        BY <2>1, FS_Interval
    <2>3. (IF 1 > c THEN 0 ELSE c - 1 + 1) = c
        BY <1>1
    <2> QED
        BY <2>2, <2>3
<1>6. f \in Surjection(K, 1..c)
    BY <1>4, <1>5, FS_Injection
<1>7. \A j \in 1..c : \E i \in K : Rank(K, i) = j
    BY <1>6 DEF Surjection
<1>8. \A j \in 1..c : Nth(K, j) \in K /\ Rank(K, Nth(K, j)) = j
    BY <1>7 DEF Nth
<1> QED
    BY <1>1, <1>2, <1>3, <1>8

LEMMA NthType ==
    ASSUME NEW n \in Nat, NEW K \in SUBSET (1..n)
    PROVE  /\ IsFiniteSet(K) /\ Cardinality(K) \in Nat
           /\ \A j \in 1..Cardinality(K) : Nth(K, j) \in K
           /\ \A i \in K : Rank(K, i) \in 1..Cardinality(K) /\ Nth(K, Rank(K, i)) = i
           /\ \A i, j \in 1..Cardinality(K) : i < j => Nth(K, i) < Nth(K, j)
           /\ \A i, j \in 1..Cardinality(K) : Nth(K, i) = Nth(K, j) => i = j
<1>1. IsFiniteSet(K) /\ K \in SUBSET Nat
    <2>1. IsFiniteSet(1..n)
        BY FS_Interval
    <2>2. IsFiniteSet(K)
        BY <2>1, FS_Subset
    <2>3. K \subseteq Nat
        OBVIOUS
    <2> QED
        BY <2>2, <2>3
<1>2. /\ Cardinality(K) \in Nat
      /\ \A j \in 1..Cardinality(K) : Nth(K, j) \in K /\ Rank(K, Nth(K, j)) = j
      /\ \A i \in K : Rank(K, i) \in 1..Cardinality(K) /\ Nth(K, Rank(K, i)) = i
    BY <1>1, NthIs
<1>3. \A i, j \in 1..Cardinality(K) : i < j => Nth(K, i) < Nth(K, j)
    <2> SUFFICES ASSUME NEW i \in 1..Cardinality(K), NEW j \in 1..Cardinality(K), i < j,
                        ~(Nth(K, i) < Nth(K, j))
                 PROVE  FALSE
        OBVIOUS
    <2>1. /\ Nth(K, i) \in K /\ Nth(K, j) \in K
          /\ Rank(K, Nth(K, i)) = i /\ Rank(K, Nth(K, j)) = j
        BY <1>2
    <2>2. Nth(K, i) = Nth(K, j) \/ Nth(K, j) < Nth(K, i)
        <3>1. Nth(K, i) \in Nat /\ Nth(K, j) \in Nat
            BY <2>1, <1>1
        <3> QED
            BY <3>1
    <2>3. Nth(K, j) < Nth(K, i) => j < i
        BY <2>1, <1>1, RankLess
    <2> QED
        BY <1>2, <2>1, <2>2, <2>3
<1> QED
    BY <1>1, <1>2, <1>3

LEMMA FilteredIs ==
    ASSUME NEW S, NEW s \in Seq(S), NEW K \in SUBSET DOMAIN s
    PROVE  /\ Filtered(s, K) \in Seq(S)
           /\ Len(Filtered(s, K)) = Cardinality(K)
           /\ DOMAIN Filtered(s, K) = 1..Cardinality(K)
           /\ \A j \in 1..Cardinality(K) : Filtered(s, K)[j] = s[Nth(K, j)]
<1>1. Len(s) \in Nat /\ DOMAIN s = 1..Len(s) /\ \A i \in DOMAIN s : s[i] \in S
    OBVIOUS
<1>2. /\ Cardinality(K) \in Nat
      /\ \A j \in 1..Cardinality(K) : Nth(K, j) \in K
    BY <1>1, NthType
<1>3. \A j \in 1..Cardinality(K) : s[Nth(K, j)] \in S
    BY <1>1, <1>2
<1> DEFINE c == Cardinality(K)
           f == [j \in 1..c |-> s[Nth(K, j)]]
<1>4. f \in [1..c -> S] /\ DOMAIN f = 1..c
    BY <1>3
<1>5. f \in Seq(S) /\ Len(f) = c
    <2> HIDE DEF f
    <2>1. f \in Seq(S)
        BY <1>2, <1>4
    <2> QED
        BY <1>2, <1>4, <2>1
<1> QED
    BY <1>5 DEF Filtered

\* Where the elements of a sequence are that belong to a set.
Where(s, L) == {i \in DOMAIN s : s[i] \in L}

\* The filter keeps of them what is kept, and in their number.
LEMMA FilteredCount ==
    ASSUME NEW S, NEW s \in Seq(S), NEW K \in SUBSET DOMAIN s, NEW L
    PROVE  Cardinality(Where(Filtered(s, K), L)) = Cardinality(Where(s, L) \cap K)
<1> DEFINE c == Cardinality(K)
           A == {j \in 1..c : s[Nth(K, j)] \in L}
           B == {i \in K : s[i] \in L}
           f == [j \in A |-> Nth(K, j)]
<1>1. Where(Filtered(s, K), L) = A /\ Where(s, L) \cap K = B
    BY FilteredIs DEF Where
<1>2. /\ c \in Nat
      /\ \A j \in 1..c : Nth(K, j) \in K
      /\ \A i \in K : Rank(K, i) \in 1..c /\ Nth(K, Rank(K, i)) = i
      /\ \A i, j \in 1..c : Nth(K, i) = Nth(K, j) => i = j
    <2>1. Len(s) \in Nat /\ DOMAIN s = 1..Len(s)
        OBVIOUS
    <2> QED
        BY <2>1, NthType
<1> HIDE DEF c
<1>3. f \in [A -> B]
    BY <1>2
<1>4. \A i, j \in A : f[i] = f[j] => i = j
    BY <1>2
<1>5. \A i \in B : Rank(K, i) \in A /\ f[Rank(K, i)] = i
    BY <1>2
<1>6. f \in Bijection(A, B)
    <2> HIDE DEF f, A, B
    <2> QED
        BY <1>3, <1>4, <1>5 DEF Bijection, Injection, Surjection, IsInjective
<1>7. IsFiniteSet(A)
    <2>1. A \in SUBSET (1..c)
        OBVIOUS
    <2>2. IsFiniteSet(1..c)
        BY <1>2, FS_Interval
    <2> HIDE DEF A
    <2> QED
        BY <2>1, <2>2, FS_Subset
<1>8. Cardinality(B) = Cardinality(A)
    <2> HIDE DEF f, A, B
    <2>1. ExistsBijection(A, B)
        BY <1>6 DEF ExistsBijection
    <2> QED
        BY <1>7, <2>1, FS_Bijection
<1> QED
    BY <1>1, <1>8
LEMMA WhereFinite ==
    ASSUME NEW S, NEW s \in Seq(S), NEW L
    PROVE  IsFiniteSet(Where(s, L)) /\ Cardinality(Where(s, L)) \in Nat
<1>1. Len(s) \in Nat /\ DOMAIN s = 1..Len(s)
    OBVIOUS
<1>2. IsFiniteSet(1..Len(s))
    BY <1>1, FS_Interval
<1>3. Where(s, L) \in SUBSET (1..Len(s))
    BY <1>1 DEF Where
<1>4. IsFiniteSet(Where(s, L))
    BY <1>2, <1>3, FS_Subset
<1> QED
    BY <1>4, FS_CardinalityType

LEMMA WhereAppend ==
    ASSUME NEW S, NEW s \in Seq(S), NEW x \in S, NEW L
    PROVE  /\ Append(s, x) \in Seq(S)
           /\ Where(Append(s, x), L) = IF x \in L THEN Where(s, L) \cup {Len(s) + 1} ELSE Where(s, L)
           /\ Cardinality(Where(Append(s, x), L)) =
                  Cardinality(Where(s, L)) + IF x \in L THEN 1 ELSE 0
<1> DEFINE t == Append(s, x)
           n == Len(s) + 1
           old == Where(s, L)
<1>1. /\ t \in Seq(S) /\ Len(t) = n /\ Len(s) \in Nat
      /\ \A i \in 1..Len(s) : t[i] = s[i]
      /\ t[n] = x
    BY AppendProperties
<1>2. DOMAIN s = 1..Len(s) /\ DOMAIN t = 1..n
    BY <1>1
<1> HIDE DEF t
<1>3. DOMAIN t = DOMAIN s \cup {n} /\ n \notin DOMAIN s
    BY <1>1, <1>2
<1>4. Where(t, L) = IF x \in L THEN old \cup {n} ELSE old
    BY <1>1, <1>2, <1>3 DEF Where
<1>5. n \notin old
    BY <1>3 DEF Where
<1> HIDE DEF n, old
<1>6. IsFiniteSet(old) /\ Cardinality(old) \in Nat
    BY WhereFinite DEF old
<1>7. Cardinality(old \cup {n}) = Cardinality(old) + 1
    BY <1>5, <1>6, FS_AddElement
<1> QED
    BY <1>1, <1>4, <1>6, <1>7 DEF t, n, old

LEMMA WhereFiltered ==
    ASSUME NEW S, NEW s \in Seq(S), NEW K, NEW L \in SUBSET K
    PROVE  /\ Filtered(s, Where(s, K)) \in Seq(S)
           /\ Len(Filtered(s, Where(s, K))) = Cardinality(Where(s, K))
           /\ Cardinality(Where(Filtered(s, Where(s, K)), L)) = Cardinality(Where(s, L))
<1>1. Where(s, K) \in SUBSET DOMAIN s
    BY DEF Where
<1>2. Where(s, L) \cap Where(s, K) = Where(s, L)
    BY DEF Where
<1>3. Cardinality(Where(Filtered(s, Where(s, K)), L)) = Cardinality(Where(s, L) \cap Where(s, K))
    BY <1>1, FilteredCount
<1> QED
    BY <1>1, <1>2, <1>3, FilteredIs
=============================================================================
