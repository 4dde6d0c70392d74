------------------------------ MODULE SumProofs ------------------------------
(***************************************************************************)
(* What the sum of a function over a finite set is: SumFunctionOnSet folds *)
(* over the set in an order nobody knows.  The induction these facts need  *)
(* is over sets of numbers or of subsets, so that no operator has to be    *)
(* instantiated.                                                           *)
(***************************************************************************)
EXTENDS Integers, FiniteSets, Functions, FiniteSetTheorems, TLAPS

Sum(f, S) == SumFunctionOnSet(f, S)

(* The element the fold takes next.                                        *)
Pick(s) == CHOOSE x \in s : TRUE

(* g has the sums of f over the sets in D.                                 *)
IsSums(g, f, D) ==
  g = [s \in D |-> IF s = {} THEN 0 ELSE f[Pick(s)] + g[s \ {Pick(s)}]]

(* A set of natural numbers with 0 and all successors has all of them.     *)
LEMMA NatSetInduction ==
  ASSUME NEW N \in SUBSET Nat, 0 \in N, \A n \in N : n + 1 \in N
  PROVE  N = Nat
<1> DEFINE R == OpToRel(<, Nat)
           B == Nat \ N
<1> SUFFICES ASSUME B # {} PROVE FALSE
  OBVIOUS
<1>1. IsWellFoundedOn(R, Nat)
  BY NatLessThanWellFounded
<1>2. \A x, y \in Nat : x < y => <<x, y>> \in R
  BY DEF OpToRel
<1> HIDE DEF R
<1>3. \E x \in B : \A y \in B : <<y, x>> \notin R
  BY <1>1, WFMin
<1>4. PICK x \in B : \A y \in B : <<y, x>> \notin R
  BY <1>3
<1>5. x \in Nat /\ x # 0 /\ x - 1 \in Nat /\ x - 1 < x
  BY <1>4
<1>6. x - 1 \in N
  BY <1>2, <1>4, <1>5
<1>7. (x - 1) + 1 \in N
  BY <1>6
<1> QED
  BY <1>4, <1>5, <1>7

(* A set of subsets of S with the empty set that adding an element does    *)
(* not leave has all of them.                                              *)
LEMMA SubsetInduction ==
  ASSUME NEW S, IsFiniteSet(S), NEW G \in SUBSET SUBSET S, {} \in G,
         \A T \in G : \A x \in S \ T : T \cup {x} \in G
  PROVE  G = SUBSET S
<1> DEFINE N == {n \in Nat : \A T \in SUBSET S : Cardinality(T) = n => T \in G}
<1>1. \A T \in SUBSET S : IsFiniteSet(T) /\ Cardinality(T) \in Nat
  BY FS_Subset, FS_CardinalityType
<1>2. 0 \in N
  BY <1>1, FS_EmptySet
<1>3. ASSUME NEW n \in N PROVE n + 1 \in N
  <2> SUFFICES ASSUME NEW T \in SUBSET S, Cardinality(T) = n + 1 PROVE T \in G
    OBVIOUS
  <2>1. T # {}
    BY <1>1, FS_EmptySet
  <2>2. PICK x \in T : TRUE
    BY <2>1
  <2>3. IsFiniteSet(T) /\ x \in T
    BY <1>1, <2>2
  <2>4. Cardinality(T \ {x}) = Cardinality(T) - 1
    BY <2>3, FS_RemoveElement
  <2>5. Cardinality(T \ {x}) = n
    BY <2>4
  <2>6. T \ {x} \in G
    BY <2>5
  <2>7. (T \ {x}) \cup {x} \in G
    BY <2>3, <2>6
  <2>8. (T \ {x}) \cup {x} = T
    BY <2>3
  <2> QED
    BY <2>7, <2>8
<1>4. N = Nat
  <2> HIDE DEF N
  <2>1. N \in SUBSET Nat
    BY DEF N
  <2> QED
    BY <1>2, <1>3, <2>1, NatSetInduction
<1> QED
  BY <1>1, <1>4

-----------------------------------------------------------------------------
(* One element less.                                                       *)
LEMMA PickOne ==
  ASSUME NEW T, IsFiniteSet(T), T # {}
  PROVE  /\ Pick(T) \in T
         /\ T \ {Pick(T)} \in SUBSET T
         /\ IsFiniteSet(T \ {Pick(T)})
         /\ Cardinality(T) \in Nat
         /\ Cardinality(T \ {Pick(T)}) = Cardinality(T) - 1
<1>1. Pick(T) \in T
  BY DEF Pick
<1> QED
  BY <1>1, FS_RemoveElement, FS_CardinalityType

(* The recursive function inside the fold exists: it is built for sets of  *)
(* at most n elements, for every n.                                        *)
LEMMA SumsExist ==
  ASSUME NEW S, IsFiniteSet(S), NEW f
  PROVE  \E g : IsSums(g, f, SUBSET S)
<1> DEFINE Upto(n) == {T \in SUBSET S : Cardinality(T) <= n}
           N == {n \in Nat : \E g : IsSums(g, f, Upto(n))}
<1>1. \A T \in SUBSET S : IsFiniteSet(T) /\ Cardinality(T) \in Nat
  BY FS_Subset, FS_CardinalityType
<1>2. ASSUME NEW T \in SUBSET S, T # {}
      PROVE  /\ Pick(T) \in T
             /\ T \ {Pick(T)} \in SUBSET S
             /\ Cardinality(T \ {Pick(T)}) = Cardinality(T) - 1
  BY <1>1, <1>2, PickOne
<1>3. 0 \in N
  <2> DEFINE g == [s \in Upto(0) |-> 0]
  <2>1. \A s \in Upto(0) : s = {}
    BY <1>1, FS_EmptySet
  <2>2. IsSums(g, f, Upto(0))
    BY <2>1 DEF IsSums
  <2> QED
    BY <2>2
<1>4. ASSUME NEW n \in N PROVE n + 1 \in N
  <2>1. PICK g : IsSums(g, f, Upto(n))
    OBVIOUS
  <2> DEFINE h == [s \in Upto(n + 1) |->
                     IF s \in Upto(n) THEN g[s] ELSE f[Pick(s)] + g[s \ {Pick(s)}]]
  <2>2. ASSUME NEW s \in Upto(n + 1)
        PROVE  h[s] = IF s = {} THEN 0 ELSE f[Pick(s)] + h[s \ {Pick(s)}]
    <3>1. CASE s = {}
      <4>1. s \in Upto(n)
        BY <3>1, FS_EmptySet
      <4> QED
        BY <2>1, <3>1, <4>1 DEF IsSums
    <3>2. CASE s # {}
      <4> DEFINE t == s \ {Pick(s)}
      <4>1. t \in Upto(n) /\ t \in Upto(n + 1)
        BY <1>1, <1>2, <3>2
      <4>2. h[t] = g[t]
        BY <4>1
      <4>3. h[s] = f[Pick(s)] + g[t]
        <5>1. CASE s \in Upto(n)
          BY <2>1, <3>2, <5>1 DEF IsSums
        <5>2. CASE s \notin Upto(n)
          BY <5>2
        <5> QED
          BY <5>1, <5>2
      <4> QED
        BY <3>2, <4>2, <4>3
    <3> QED
      BY <3>1, <3>2
  <2>3. IsSums(h, f, Upto(n + 1))
    <3> HIDE DEF Upto
    <3>1. h = [s \in Upto(n + 1) |-> h[s]]
      OBVIOUS
    <3> HIDE DEF h
    <3> QED
      BY <2>2, <3>1 DEF IsSums
  <2> HIDE DEF h, Upto
  <2>4. n + 1 \in Nat /\ \E k : IsSums(k, f, Upto(n + 1))
    BY <2>3
  <2> QED
    BY <2>4
<1>5. N = Nat
  <2> HIDE DEF N
  <2>1. N \in SUBSET Nat
    BY DEF N
  <2> QED
    BY <1>3, <1>4, <2>1, NatSetInduction
<1>6. Cardinality(S) \in N
  BY <1>5, FS_CardinalityType
<1>7. Upto(Cardinality(S)) = SUBSET S
  BY <1>1, FS_Subset
<1> QED
  BY <1>6, <1>7

(* ... and is the same on the subsets of a subset.                         *)
LEMMA SumsAgree ==
  ASSUME NEW S, IsFiniteSet(S), NEW T, T \in SUBSET S, NEW f, NEW g, NEW h,
         IsSums(g, f, SUBSET S), IsSums(h, f, SUBSET T)
  PROVE  g[T] = h[T]
<1> DEFINE N == {n \in Nat : \A U \in SUBSET T : Cardinality(U) = n => g[U] = h[U]}
<1>1. \A U \in SUBSET T : IsFiniteSet(U) /\ Cardinality(U) \in Nat
  BY FS_Subset, FS_CardinalityType
<1>2. \A U \in SUBSET T :
        /\ g[U] = IF U = {} THEN 0 ELSE f[Pick(U)] + g[U \ {Pick(U)}]
        /\ h[U] = IF U = {} THEN 0 ELSE f[Pick(U)] + h[U \ {Pick(U)}]
  BY DEF IsSums
<1>3. 0 \in N
  BY <1>1, <1>2, FS_EmptySet
<1>4. ASSUME NEW n \in N PROVE n + 1 \in N
  <2> SUFFICES ASSUME NEW U \in SUBSET T, Cardinality(U) = n + 1 PROVE g[U] = h[U]
    OBVIOUS
  <2>1. U # {}
    BY <1>1, FS_EmptySet
  <2>2. U \ {Pick(U)} \in SUBSET T /\ Cardinality(U \ {Pick(U)}) = n
    BY <1>1, <2>1, PickOne
  <2> QED
    BY <1>2, <2>1, <2>2
<1>5. N = Nat
  <2> HIDE DEF N
  <2>1. N \in SUBSET Nat
    BY DEF N
  <2> QED
    BY <1>3, <1>4, <2>1, NatSetInduction
<1> QED
  <2>1. Cardinality(T) \in N
    BY <1>1, <1>5
  <2> QED
    BY <2>1

(* The equation that defines a sum.                                        *)
LEMMA SumUnfolds ==
  ASSUME NEW S, IsFiniteSet(S), NEW f
  PROVE  Sum(f, S) = IF S = {} THEN 0 ELSE f[Pick(S)] + Sum(f, S \ {Pick(S)})
<1> DEFINE G(T) == CHOOSE g : IsSums(g, f, SUBSET T)
<1>1. ASSUME NEW T \in SUBSET S
      PROVE  IsSums(G(T), f, SUBSET T) /\ Sum(f, T) = G(T)[T]
  <2>1. IsFiniteSet(T)
    BY FS_Subset
  <2>2. IsSums(G(T), f, SUBSET T)
    BY <2>1, SumsExist
  <2>3. Sum(f, T) = G(T)[T]
    BY DEF Sum, SumFunctionOnSet, FoldFunctionOnSet, MapThenFoldSet, IsSums, Pick
  <2> QED
    BY <2>2, <2>3
<1> DEFINE g == G(S)
<1>2. IsSums(g, f, SUBSET S) /\ Sum(f, S) = g[S]
  BY <1>1
<1> HIDE DEF g
<1>3. g[S] = IF S = {} THEN 0 ELSE f[Pick(S)] + g[S \ {Pick(S)}]
  BY <1>2 DEF IsSums
<1> DEFINE T == S \ {Pick(S)}
           h == G(T)
<1>4. IsSums(h, f, SUBSET T) /\ Sum(f, T) = h[T]
  BY <1>1
<1>5. g[T] = h[T]
  <2>1. T \in SUBSET S
    OBVIOUS
  <2> HIDE DEF G, h, T
  <2> QED
    BY <1>2, <1>4, <2>1, SumsAgree
<1> QED
  BY <1>2, <1>3, <1>4, <1>5

-----------------------------------------------------------------------------
(* What proofs about sums use.                                             *)

LEMMA SumEmpty ==
  ASSUME NEW f
  PROVE  Sum(f, {}) = 0
BY SumUnfolds, FS_EmptySet

(* Integers have an integer as their sum,                                  *)
LEMMA SumInt ==
  ASSUME NEW S, IsFiniteSet(S), NEW f, \A x \in S : f[x] \in Int
  PROVE  Sum(f, S) \in Int
<1> DEFINE N == {n \in Nat : \A T \in SUBSET S : Cardinality(T) = n => Sum(f, T) \in Int}
<1>1. \A T \in SUBSET S : IsFiniteSet(T) /\ Cardinality(T) \in Nat
  BY FS_Subset, FS_CardinalityType
<1>2. 0 \in N
  <2>1. \A T \in SUBSET S : Cardinality(T) = 0 => T = {}
    BY <1>1, FS_EmptySet
  <2> QED
    BY <2>1, SumEmpty
<1>3. ASSUME NEW n \in N PROVE n + 1 \in N
  <2> SUFFICES ASSUME NEW T \in SUBSET S, Cardinality(T) = n + 1
               PROVE  Sum(f, T) \in Int
    OBVIOUS
  <2>1. T # {}
    BY <1>1, FS_EmptySet
  <2>2. /\ Pick(T) \in S /\ T \ {Pick(T)} \in SUBSET S
        /\ Cardinality(T \ {Pick(T)}) = n
    BY <1>1, <2>1, PickOne
  <2>3. Sum(f, T) = f[Pick(T)] + Sum(f, T \ {Pick(T)})
    BY <1>1, <2>1, SumUnfolds
  <2>4. Sum(f, T \ {Pick(T)}) \in Int /\ f[Pick(T)] \in Int
    BY <2>2
  <2> QED
    BY <2>3, <2>4
<1>4. N = Nat
  <2> HIDE DEF N
  <2>1. N \in SUBSET Nat
    BY DEF N
  <2> QED
    BY <1>2, <1>3, <2>1, NatSetInduction
<1> QED
  BY <1>1, <1>4

(* whichever of them is taken first.                                       *)
LEMMA SumTakes ==
  ASSUME NEW S, IsFiniteSet(S), NEW f, \A x \in S : f[x] \in Int, NEW x \in S
  PROVE  Sum(f, S) = f[x] + Sum(f, S \ {x})
<1> DEFINE N == {n \in Nat : \A T \in SUBSET S : Cardinality(T) = n =>
                   \A y \in T : Sum(f, T) = f[y] + Sum(f, T \ {y})}
<1>1. \A T \in SUBSET S : IsFiniteSet(T) /\ Cardinality(T) \in Nat
  BY FS_Subset, FS_CardinalityType
<1>2. 0 \in N
  <2>1. \A T \in SUBSET S : Cardinality(T) = 0 => T = {}
    BY <1>1, FS_EmptySet
  <2> QED
    BY <2>1
<1>3. ASSUME NEW n \in N PROVE n + 1 \in N
  <2> SUFFICES ASSUME NEW T \in SUBSET S, Cardinality(T) = n + 1, NEW y \in T
               PROVE  Sum(f, T) = f[y] + Sum(f, T \ {y})
    OBVIOUS
  <2> DEFINE p == Pick(T)
             A == T \ {p}
             B == T \ {y}
             C == T \ {p, y}
  <2>1. /\ p \in T /\ A \in SUBSET S /\ Cardinality(A) = n
    BY <1>1, PickOne
  <2>2. Sum(f, T) = f[p] + Sum(f, A)
    BY <1>1, SumUnfolds
  <2>3. CASE p = y
    BY <2>2, <2>3
  <2>4. CASE p # y
    <3>1. B \in SUBSET S /\ Cardinality(B) = n
      BY <1>1, FS_RemoveElement
    <3>2. y \in A /\ p \in B /\ A \ {y} = C /\ B \ {p} = C /\ C \in SUBSET S
      BY <2>1, <2>4
    <3>3. Sum(f, A) = f[y] + Sum(f, C)
      BY <2>1, <3>2
    <3>4. Sum(f, B) = f[p] + Sum(f, C)
      BY <3>1, <3>2
    <3>5. IsFiniteSet(C)
      BY <1>1, <3>2
    <3>6. Sum(f, C) \in Int
      <4> HIDE DEF C
      <4>1. \A z \in C : f[z] \in Int
        BY <3>2
      <4> QED
        BY <3>5, <4>1, SumInt
    <3>7. f[p] \in Int /\ f[y] \in Int
      BY <2>1
    <3> HIDE DEF p, A, B, C
    <3>8. Sum(f, T) = f[y] + Sum(f, B)
      BY <2>2, <3>3, <3>4, <3>6, <3>7
    <3> QED
      BY <3>8 DEF B
  <2> QED
    BY <2>3, <2>4
<1>4. N = Nat
  <2> HIDE DEF N
  <2>1. N \in SUBSET Nat
    BY DEF N
  <2> QED
    BY <1>2, <1>3, <2>1, NatSetInduction
<1>5. \A y \in S : Sum(f, S) = f[y] + Sum(f, S \ {y})
  BY <1>1, <1>4
<1> QED
  BY <1>5

(* One element more.                                                       *)
LEMMA SumAdds ==
  ASSUME NEW S, IsFiniteSet(S), NEW x, x \notin S, NEW f,
         \A y \in S \cup {x} : f[y] \in Int
  PROVE  Sum(f, S \cup {x}) = f[x] + Sum(f, S)
<1>1. IsFiniteSet(S \cup {x})
  BY FS_AddElement
<1>2. (S \cup {x}) \ {x} = S
  OBVIOUS
<1>3. Sum(f, S \cup {x}) = f[x] + Sum(f, (S \cup {x}) \ {x})
  BY <1>1, SumTakes
<1> QED
  BY <1>2, <1>3

(* Functions with the same values have the same sum.                       *)
LEMMA SumSame ==
  ASSUME NEW S, IsFiniteSet(S), NEW f, NEW g,
         \A x \in S : f[x] \in Int /\ f[x] = g[x]
  PROVE  Sum(f, S) = Sum(g, S)
<1> DEFINE G == {T \in SUBSET S : Sum(f, T) = Sum(g, T)}
<1>1. {} \in G
  BY SumEmpty
<1>2. ASSUME NEW T \in G, NEW x \in S \ T PROVE T \cup {x} \in G
  <2>1. IsFiniteSet(T) /\ T \cup {x} \in SUBSET S
    BY FS_Subset
  <2>2. Sum(f, T \cup {x}) = f[x] + Sum(f, T)
    BY <2>1, SumAdds
  <2>3. \A y \in T \cup {x} : g[y] \in Int
    BY <2>1
  <2>4. Sum(g, T \cup {x}) = g[x] + Sum(g, T)
    BY <2>1, <2>3, SumAdds
  <2> QED
    BY <2>1, <2>2, <2>4
<1>3. G = SUBSET S
  <2> HIDE DEF G
  <2>1. G \in SUBSET SUBSET S
    BY DEF G
  <2> QED
    BY <1>1, <1>2, <2>1, SubsetInduction
<1> QED
  BY <1>3

(* Changing one value changes the sum by as much.                          *)
LEMMA SumChange ==
  ASSUME NEW S, IsFiniteSet(S), NEW x \in S, NEW f, NEW g, g[x] \in Int,
         \A y \in S : f[y] \in Int, \A y \in S \ {x} : g[y] = f[y]
  PROVE  Sum(g, S) = Sum(f, S) + g[x] - f[x]
<1>1. IsFiniteSet(S \ {x}) /\ f[x] \in Int
  BY FS_Subset
<1>2. Sum(f, S \ {x}) = Sum(g, S \ {x}) /\ Sum(f, S \ {x}) \in Int
  BY <1>1, SumSame, SumInt
<1>3. Sum(f, S) = f[x] + Sum(f, S \ {x})
  BY SumTakes
<1>4. \A y \in S : g[y] \in Int
  OBVIOUS
<1>5. Sum(g, S) = g[x] + Sum(g, S \ {x})
  BY <1>4, SumTakes
<1> QED
  BY <1>1, <1>2, <1>3, <1>5

(* The sum of zeros.                                                       *)
LEMMA SumZero ==
  ASSUME NEW S, IsFiniteSet(S), NEW f, \A x \in S : f[x] = 0
  PROVE  Sum(f, S) = 0
<1> DEFINE G == {T \in SUBSET S : Sum(f, T) = 0}
<1>1. {} \in G
  BY SumEmpty
<1>2. ASSUME NEW T \in G, NEW x \in S \ T PROVE T \cup {x} \in G
  <2>1. IsFiniteSet(T) /\ \A y \in T \cup {x} : f[y] \in Int
    BY FS_Subset
  <2>2. Sum(f, T \cup {x}) = f[x] + Sum(f, T)
    BY <2>1, SumAdds
  <2> QED
    BY <2>2
<1>3. G = SUBSET S
  <2> HIDE DEF G
  <2>1. G \in SUBSET SUBSET S
    BY DEF G
  <2> QED
    BY <1>1, <1>2, <2>1, SubsetInduction
<1> QED
  BY <1>3

(* Natural numbers have a natural number as their sum, and none of them is *)
(* larger than it.                                                         *)
LEMMA SumNat ==
  ASSUME NEW S, IsFiniteSet(S), NEW f, \A x \in S : f[x] \in Nat
  PROVE  Sum(f, S) \in Nat
<1> DEFINE G == {T \in SUBSET S : Sum(f, T) \in Nat}
<1>1. {} \in G
  BY SumEmpty
<1>2. ASSUME NEW T \in G, NEW x \in S \ T PROVE T \cup {x} \in G
  <2>1. IsFiniteSet(T) /\ \A y \in T \cup {x} : f[y] \in Int
    BY FS_Subset
  <2>2. Sum(f, T \cup {x}) = f[x] + Sum(f, T)
    BY <2>1, SumAdds
  <2> QED
    BY <2>2
<1>3. G = SUBSET S
  <2> HIDE DEF G
  <2>1. G \in SUBSET SUBSET S
    BY DEF G
  <2> QED
    BY <1>1, <1>2, <2>1, SubsetInduction
<1> QED
  BY <1>3

LEMMA SumBounds ==
  ASSUME NEW S, IsFiniteSet(S), NEW f, \A x \in S : f[x] \in Nat, NEW x \in S
  PROVE  f[x] <= Sum(f, S)
<1>1. Sum(f, S) = f[x] + Sum(f, S \ {x})
  <2>1. \A y \in S : f[y] \in Int
    OBVIOUS
  <2> QED
    BY <2>1, SumTakes
<1>2. Sum(f, S \ {x}) \in Nat
  <2>1. IsFiniteSet(S \ {x})
    BY FS_Subset
  <2> QED
    BY <2>1, SumNat
<1> QED
  BY <1>1, <1>2

(* Sums over disjoint sets add up.                                         *)
LEMMA SumUnion ==
  ASSUME NEW S, NEW R, IsFiniteSet(S), IsFiniteSet(R), S \cap R = {}, NEW f,
         \A x \in S \cup R : f[x] \in Int
  PROVE  Sum(f, S \cup R) = Sum(f, S) + Sum(f, R)
<1> DEFINE G == {T \in SUBSET S : Sum(f, T \cup R) = Sum(f, T) + Sum(f, R)}
<1>1. Sum(f, R) \in Int
  BY SumInt
<1>2. {} \in G
  <2>1. {} \cup R = R
    OBVIOUS
  <2> QED
    BY <1>1, <2>1, SumEmpty
<1>3. ASSUME NEW T \in G, NEW x \in S \ T PROVE T \cup {x} \in G
  <2>1. /\ IsFiniteSet(T) /\ IsFiniteSet(T \cup R)
        /\ x \notin T /\ x \notin T \cup R
        /\ (T \cup {x}) \cup R = (T \cup R) \cup {x}
    <3>1. IsFiniteSet(T)
      BY FS_Subset
    <3> QED
      BY <3>1, FS_Union
  <2>2. /\ \A y \in (T \cup R) \cup {x} : f[y] \in Int
        /\ \A y \in T \cup {x} : f[y] \in Int
        /\ f[x] \in Int
    OBVIOUS
  <2>3. Sum(f, T \cup {x}) = f[x] + Sum(f, T)
    BY <2>1, <2>2, SumAdds
  <2>4. Sum(f, (T \cup R) \cup {x}) = f[x] + Sum(f, T \cup R)
    <3> DEFINE U == T \cup R
    <3> HIDE DEF U
    <3>1. IsFiniteSet(U) /\ x \notin U /\ \A y \in U \cup {x} : f[y] \in Int
      BY <2>1, <2>2 DEF U
    <3>2. Sum(f, U \cup {x}) = f[x] + Sum(f, U)
      BY <3>1, SumAdds
    <3> QED
      BY <3>2 DEF U
  <2>5. Sum(f, T) \in Int
    BY <2>1, SumInt
  <2>6. Sum(f, T \cup R) = Sum(f, T) + Sum(f, R)
    OBVIOUS
  <2>7. Sum(f, (T \cup {x}) \cup R) = Sum(f, T \cup {x}) + Sum(f, R)
    <3>1. Sum(f, (T \cup {x}) \cup R) = f[x] + Sum(f, T \cup R)
      BY <2>1, <2>4
    <3> HIDE DEF G
    <3> QED
      BY <1>1, <2>2, <2>3, <2>5, <2>6, <3>1
  <2> QED
    BY <2>1, <2>7
<1>4. G = SUBSET S
  <2> HIDE DEF G
  <2>1. G \in SUBSET SUBSET S
    BY DEF G
  <2> QED
    BY <1>2, <1>3, <2>1, SubsetInduction
<1> QED
  BY <1>4

(* r is a one-to-one correspondence between S and R, ...                   *)
Renames(r, S, R) ==
  /\ \A x \in S : r[x] \in R
  /\ \A x, y \in S : r[x] = r[y] => x = y
  /\ \A z \in R : \E x \in S : r[x] = z

(* ... and the sets A[k] make up R and have nothing in common.             *)
Partitions(A, K, R) ==
  /\ \A k \in K : A[k] \subseteq R
  /\ \A z \in R : \E k \in K : z \in A[k]
  /\ \A k, l \in K : k # l => A[k] \cap A[l] = {}

(* Renaming the elements does not change the sum.                          *)
LEMMA SumRenamed ==
  ASSUME NEW S, IsFiniteSet(S), NEW f, NEW g, NEW r,
         NEW R, Renames(r, S, R), \A x \in S : f[x] \in Int /\ g[r[x]] = f[x]
  PROVE  IsFiniteSet(R) /\ Sum(g, R) = Sum(f, S)
<1> DEFINE Im(T) == {r[x] : x \in T}
           G == {T \in SUBSET S : IsFiniteSet(Im(T)) /\ Sum(g, Im(T)) = Sum(f, T)}
<1>1. {} \in G
  <2>1. Im({}) = {}
    OBVIOUS
  <2> HIDE DEF Im
  <2> QED
    BY <2>1, SumEmpty, FS_EmptySet
<1>2. ASSUME NEW T \in G, NEW x \in S \ T PROVE T \cup {x} \in G
  <2>1. /\ IsFiniteSet(T) /\ T \cup {x} \in SUBSET S
        /\ IsFiniteSet(Im(T)) /\ Sum(g, Im(T)) = Sum(f, T)
    BY FS_Subset
  <2>2. Im(T \cup {x}) = Im(T) \cup {r[x]} /\ r[x] \notin Im(T)
    BY DEF Renames
  <2>3. \A y \in Im(T) \cup {r[x]} : g[y] \in Int
    BY <2>1
  <2>4. \A y \in T \cup {x} : f[y] \in Int
    BY <2>1
  <2>5. g[r[x]] = f[x]
    OBVIOUS
  <2> HIDE DEF Im
  <2>6. Sum(f, T \cup {x}) = f[x] + Sum(f, T)
    BY <2>1, <2>4, SumAdds
  <2>7. Sum(g, Im(T) \cup {r[x]}) = g[r[x]] + Sum(g, Im(T))
    BY <2>1, <2>2, <2>3, SumAdds
  <2>8. IsFiniteSet(Im(T) \cup {r[x]})
    BY <2>1, FS_AddElement
  <2> QED
    BY <2>1, <2>2, <2>5, <2>6, <2>7, <2>8
<1>3. G = SUBSET S
  <2> HIDE DEF G
  <2>1. G \in SUBSET SUBSET S
    BY DEF G
  <2> QED
    BY <1>1, <1>2, <2>1, SubsetInduction
<1>4. S \in G
  BY <1>3
<1>5. Im(S) = R
  BY DEF Renames
<1> QED
  BY <1>4, <1>5

(* The sum over the union of a family of disjoint sets is the sum of the   *)
(* sums over them.                                                         *)
LEMMA SumFamily ==
  ASSUME NEW K, IsFiniteSet(K), NEW A, NEW R, Partitions(A, K, R),
         NEW f, \A x \in R : f[x] \in Int,
         NEW s, \A k \in K : IsFiniteSet(A[k]) /\ s[k] = Sum(f, A[k])
  PROVE  IsFiniteSet(R) /\ Sum(f, R) = Sum(s, K)
<1> DEFINE All(T) == UNION {A[k] : k \in T}
           G == {T \in SUBSET K : IsFiniteSet(All(T)) /\ Sum(f, All(T)) = Sum(s, T)}
<1>0. /\ \A k \in K : \A x \in A[k] : f[x] \in Int
      /\ \A k, l \in K : k # l => A[k] \cap A[l] = {}
  BY DEF Partitions
<1>1. {} \in G
  <2>1. All({}) = {}
    OBVIOUS
  <2> HIDE DEF All
  <2> QED
    BY <2>1, SumEmpty, FS_EmptySet
<1>2. ASSUME NEW T \in G, NEW k \in K \ T PROVE T \cup {k} \in G
  <2>1. /\ IsFiniteSet(T) /\ T \cup {k} \in SUBSET K
        /\ IsFiniteSet(All(T)) /\ Sum(f, All(T)) = Sum(s, T)
        /\ IsFiniteSet(A[k]) /\ s[k] = Sum(f, A[k])
    BY FS_Subset
  <2>2. All(T \cup {k}) = All(T) \cup A[k]
    OBVIOUS
  <2>3. \A x \in All(T) \cup A[k] : f[x] \in Int
    BY <1>0
  <2>4. All(T) \cap A[k] = {}
    <3>1. ASSUME NEW x \in All(T), x \in A[k] PROVE FALSE
      <4>1. PICK l \in T : x \in A[l]
        OBVIOUS
      <4>2. l \in K /\ l # k
        OBVIOUS
      <4> QED
        BY <1>0, <3>1, <4>1, <4>2
    <3> QED
      BY <3>1
  <2>5. \A y \in T \cup {k} : s[y] \in Int
    <3>1. ASSUME NEW y \in K PROVE s[y] \in Int
      <4>1. Sum(f, A[y]) \in Int
        BY <1>0, SumInt
      <4> QED
        BY <4>1
    <3> QED
      BY <2>1, <3>1
  <2> HIDE DEF All
  <2>6. Sum(s, T \cup {k}) = s[k] + Sum(s, T)
    BY <2>1, <2>5, SumAdds
  <2>7. Sum(f, All(T) \cup A[k]) = Sum(f, All(T)) + Sum(f, A[k])
    BY <2>1, <2>3, <2>4, SumUnion
  <2>8. Sum(f, All(T)) \in Int /\ s[k] \in Int
    BY <2>1, <2>3, <2>5, SumInt
  <2>9. IsFiniteSet(All(T) \cup A[k])
    BY <2>1, FS_Union
  <2>10. Sum(f, All(T) \cup A[k]) = Sum(s, T \cup {k})
    BY <2>1, <2>6, <2>7, <2>8
  <2> QED
    BY <2>1, <2>2, <2>9, <2>10
<1>3. G = SUBSET K
  <2> HIDE DEF G
  <2>1. G \in SUBSET SUBSET K
    BY DEF G
  <2> QED
    BY <1>1, <1>2, <2>1, SubsetInduction
<1>4. K \in G
  BY <1>3
<1>5. All(K) = R
  BY DEF Partitions
<1> QED
  BY <1>4, <1>5

(* A function that differs from zero on a part of a set only.              *)
LEMMA SumSupport ==
  ASSUME NEW S, IsFiniteSet(S), NEW T \in SUBSET S, NEW f,
         \A x \in S : f[x] \in Int, \A x \in S \ T : f[x] = 0
  PROVE  Sum(f, S) = Sum(f, T)
<1>1. /\ IsFiniteSet(T) /\ IsFiniteSet(S \ T)
      /\ T \cup (S \ T) = S /\ T \cap (S \ T) = {}
  BY FS_Subset
<1>2. Sum(f, S \ T) = 0
  BY <1>1, SumZero
<1>3. Sum(f, T \cup (S \ T)) = Sum(f, T) + Sum(f, S \ T)
  <2> DEFINE R == S \ T
  <2>1. IsFiniteSet(R) /\ T \cap R = {} /\ \A x \in T \cup R : f[x] \in Int
    BY <1>1
  <2> HIDE DEF R
  <2>2. Sum(f, T \cup R) = Sum(f, T) + Sum(f, R)
    BY <1>1, <2>1, SumUnion
  <2> QED
    BY <2>2 DEF R
<1>4. Sum(f, T) \in Int
  BY <1>1, SumInt
<1>5. Sum(f, S) = Sum(f, T) + Sum(f, S \ T)
  BY <1>1, <1>3
<1> QED
  BY <1>2, <1>4, <1>5

(* The sum of a sum, element by element.                                   *)
LEMMA SumPlus ==
  ASSUME NEW S, IsFiniteSet(S), NEW f, NEW g, NEW h,
         \A x \in S : g[x] \in Int /\ h[x] \in Int /\ f[x] = g[x] + h[x]
  PROVE  Sum(f, S) = Sum(g, S) + Sum(h, S)
<1> DEFINE G == {T \in SUBSET S : Sum(f, T) = Sum(g, T) + Sum(h, T)}
<1>1. {} \in G
  BY SumEmpty
<1>2. ASSUME NEW T \in G, NEW x \in S \ T PROVE T \cup {x} \in G
  <2>1. IsFiniteSet(T) /\ T \cup {x} \in SUBSET S
    BY FS_Subset
  <2>2. \A y \in T \cup {x} : f[y] \in Int /\ g[y] \in Int /\ h[y] \in Int
    BY <2>1
  <2>3. Sum(f, T \cup {x}) = f[x] + Sum(f, T)
    BY <2>1, <2>2, SumAdds
  <2>4. Sum(g, T \cup {x}) = g[x] + Sum(g, T)
    BY <2>1, <2>2, SumAdds
  <2>5. Sum(h, T \cup {x}) = h[x] + Sum(h, T)
    BY <2>1, <2>2, SumAdds
  <2>6. Sum(g, T) \in Int /\ Sum(h, T) \in Int
    BY <2>1, <2>2, SumInt
  <2>7. Sum(f, T \cup {x}) = Sum(g, T \cup {x}) + Sum(h, T \cup {x})
    BY <2>2, <2>3, <2>4, <2>5, <2>6
  <2> QED
    BY <2>1, <2>7
<1>3. G = SUBSET S
  <2> HIDE DEF G
  <2>1. G \in SUBSET SUBSET S
    BY DEF G
  <2> QED
    BY <1>1, <1>2, <2>1, SubsetInduction
<1> QED
  BY <1>3
=============================================================================
