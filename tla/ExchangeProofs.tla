--------------------------- MODULE ExchangeProofs ---------------------------
(***************************************************************************)
(* Proofs about Exchange for every set of accounts and denoms, every       *)
(* genesis and every set of messages.                                      *)
(*                                                                         *)
(* The first part is about the operators of OrderBook, for every book: the *)
(* subsequence operators keep the chosen orders in their order,            *)
(* AddLimitOrder inserts one order and moves no other, and both keep a     *)
(* ranked book ranked.  The second is about the coins of the running       *)
(* transaction, the third about the books.  The fourth is about all coins: *)
(* none is created or lost, and no product exceeds the supply.  The last   *)
(* shows that the exchange implements Escrow, and with it that the owners  *)
(* of matched orders are paid.                                             *)
(***************************************************************************)
EXTENDS ExchangeEscrow, SumProofs, SequenceTheorems

(* The position of an element of a finite set of positions among the       *)
(* others grows with the element.                                          *)
LEMMA RankStrict ==
  ASSUME NEW K \in SUBSET Int, IsFiniteSet(K), NEW k \in K, NEW l \in K, k < l
  PROVE  Rank(K, k) \in Nat /\ Rank(K, l) \in Nat /\ Rank(K, k) < Rank(K, l)
<1> DEFINE A == {m \in K : m < k}
           B == {m \in K : m < l}
<1>1. IsFiniteSet(A) /\ IsFiniteSet(B)
  BY FS_Subset, A \in SUBSET K, B \in SUBSET K
<1>2. Cardinality(A) \in Nat /\ Cardinality(B) \in Nat
  BY <1>1, FS_CardinalityType
<1>3. A \in SUBSET B /\ A # B
  <2> k \in Int /\ l \in Int /\ \A m \in K : m \in Int
    OBVIOUS
  <2> HIDE DEF A, B
  <2>1. ASSUME NEW m \in A PROVE m \in B
    BY DEF A, B
  <2>2. k \in B /\ k \notin A
    BY DEF A, B
  <2> QED
    BY <2>1, <2>2
<1>4. Cardinality(A) <= Cardinality(B) /\ Cardinality(A) # Cardinality(B)
  BY <1>1, <1>3, FS_Subset
<1> QED
  BY <1>2, <1>4 DEF Rank

(* A rank is below the size of the set.                                    *)
LEMMA RankBound ==
  ASSUME NEW K \in SUBSET Int, IsFiniteSet(K), NEW k \in K
  PROVE  Rank(K, k) \in 0..(Cardinality(K) - 1)
<1> DEFINE A == {m \in K : m < k}
<1>1. A \in SUBSET K /\ A # K
  <2>1. k \notin A
    OBVIOUS
  <2> QED
    BY <2>1
<1>2. IsFiniteSet(A) /\ Cardinality(A) <= Cardinality(K) /\ Cardinality(A) # Cardinality(K)
  BY <1>1, FS_Subset
<1>3. Cardinality(A) \in Nat /\ Cardinality(K) \in Nat
  BY <1>2, FS_CardinalityType
<1> QED
  BY <1>2, <1>3 DEF Rank

(* Nth enumerates a finite set of positions.                               *)
LEMMA NthExists ==
  ASSUME NEW K \in SUBSET Int, IsFiniteSet(K), NEW j \in 1..Cardinality(K)
  PROVE  Nth(K, j) \in K /\ Rank(K, Nth(K, j)) = j - 1
<1> DEFINE n == Cardinality(K)
           T == 0..(n - 1)
           f == [k \in K |-> Rank(K, k)]
<1>1. n \in Nat
  BY FS_CardinalityType
<1>2. f \in [K -> T]
  BY RankBound
<1>3. f \in Injection(K, T)
  <2>1. ASSUME NEW a \in K, NEW b \in K, f[a] = f[b]
        PROVE  a = b
    <3>1. CASE a < b
      BY <2>1, <3>1, RankStrict
    <3>2. CASE b < a
      BY <2>1, <3>2, RankStrict
    <3> QED
      BY <3>1, <3>2
  <2> QED
    BY <1>2, <2>1 DEF Injection, IsInjective
<1>4. IsFiniteSet(T) /\ Cardinality(T) = n
  <2> HIDE DEF n
  <2>1. 0 \in Int /\ n - 1 \in Int
    BY <1>1
  <2>2. IsFiniteSet(T) /\ Cardinality(T) = IF 0 > n - 1 THEN 0 ELSE (n - 1) - 0 + 1
    BY <2>1, FS_Interval
  <2> QED
    BY <1>1, <2>2
<1>5. f \in Surjection(K, T)
  BY <1>3, <1>4, FS_Injection
<1>6. j - 1 \in T
  BY <1>1
<1>7. \E k \in K : Rank(K, k) = j - 1
  BY <1>5, <1>6 DEF Surjection
<1> QED
  BY <1>7 DEF Nth

(* ... in increasing order,                                                *)
LEMMA NthIncreasing ==
  ASSUME NEW K \in SUBSET Int, IsFiniteSet(K),
         NEW j \in 1..Cardinality(K), NEW l \in 1..Cardinality(K), j < l
  PROVE  Nth(K, j) < Nth(K, l)
<1> DEFINE a == Nth(K, j)
           b == Nth(K, l)
<1>1. a \in K /\ b \in K /\ Rank(K, a) = j - 1 /\ Rank(K, b) = l - 1
  BY NthExists
<1>2. a # b
  BY <1>1, FS_CardinalityType
<1>3. ~(b < a)
  <2> SUFFICES ASSUME b < a PROVE FALSE
    OBVIOUS
  <2>1. Rank(K, b) < Rank(K, a)
    BY <1>1, RankStrict
  <2> QED
    BY <1>1, <2>1, FS_CardinalityType
<1>4. a \in Int /\ b \in Int
  BY <1>1
<1>5. a < b
  <2> HIDE DEF a, b
  <2> QED
    BY <1>2, <1>3, <1>4
<1> QED
  BY <1>5

(* ... and without leaving an element out.                                 *)
LEMMA NthCovers ==
  ASSUME NEW K \in SUBSET Int, IsFiniteSet(K), NEW k \in K
  PROVE  \E j \in 1..Cardinality(K) : Nth(K, j) = k
<1> DEFINE j == Rank(K, k) + 1
<1>1. Cardinality(K) \in Nat
  BY FS_CardinalityType
<1>2. j \in 1..Cardinality(K)
  BY <1>1, RankBound
<1>3. Nth(K, j) \in K /\ Rank(K, Nth(K, j)) = Rank(K, k)
  <2>1. Nth(K, j) \in K /\ Rank(K, Nth(K, j)) = j - 1
    BY <1>2, NthExists
  <2> QED
    BY <2>1, RankBound
<1> DEFINE a == Nth(K, j)
<1> HIDE DEF j
<1>4. a \in K /\ a \in Int /\ k \in Int /\ Rank(K, a) = Rank(K, k)
  BY <1>3
<1> HIDE DEF a
<1>5. a = k
  <2>1. CASE a < k
    BY <1>4, <2>1, RankStrict
  <2>2. CASE k < a
    BY <1>4, <2>2, RankStrict
  <2> QED
    BY <1>4, <2>1, <2>2
<1>6. Nth(K, j) = k
  BY <1>5 DEF a
<1> QED
  BY <1>2, <1>6

(* A nonempty finite set of positions has a least one.                     *)
LEMMA MinExists ==
  ASSUME NEW K \in SUBSET Int, IsFiniteSet(K), K # {}
  PROVE  Min(K) \in K /\ \A k \in K : Min(K) <= k
<1>1. Cardinality(K) \in Nat /\ Cardinality(K) # 0
  BY FS_CardinalityType, FS_EmptySet
<1> DEFINE a == Nth(K, 1)
<1>2. a \in K /\ Rank(K, a) = 0
  BY <1>1, NthExists
<1>3. ASSUME NEW k \in K, k < a PROVE FALSE
  <2>1. Rank(K, k) \in Nat /\ Rank(K, k) < Rank(K, a)
    BY <1>2, <1>3, RankStrict
  <2> QED
    BY <1>2, <2>1
<1> HIDE DEF a
<1>4. \A k \in K : a <= k
  BY <1>2, <1>3
<1> QED
  BY <1>2, <1>4 DEF Min

(* The positions of a sequence form a finite set of numbers.               *)
LEMMA PositionsFinite ==
  ASSUME NEW n \in Nat, NEW K \in SUBSET (1..n)
  PROVE  K \in SUBSET Int /\ IsFiniteSet(K) /\ Cardinality(K) \in Nat
<1>1. IsFiniteSet(1..n)
  BY FS_Interval
<1>2. IsFiniteSet(K)
  BY <1>1, FS_Subset
<1> QED
  BY <1>2, FS_CardinalityType

(* Keep returns the elements at the given positions, in their order.       *)
LEMMA KeepElements ==
  ASSUME NEW S, NEW s \in Seq(S), NEW K \in SUBSET (1..Len(s))
  PROVE  /\ Keep(s, K) \in Seq(S)
         /\ Len(Keep(s, K)) = Cardinality(K)
         /\ \A j \in 1..Len(Keep(s, K)) :
              Nth(K, j) \in K /\ Keep(s, K)[j] = s[Nth(K, j)]
<1>1. K \in SUBSET Int /\ IsFiniteSet(K) /\ Cardinality(K) \in Nat
  BY PositionsFinite, LenProperties
<1>2. \A j \in 1..Cardinality(K) : Nth(K, j) \in K
  BY <1>1, NthExists
<1>3. \A k \in K : s[k] \in S
  BY ElementOfSeq
<1>4. Keep(s, K) \in [1..Cardinality(K) -> S]
  BY <1>2, <1>3 DEF Keep
<1>5. Keep(s, K) \in Seq(S) /\ Len(Keep(s, K)) = Cardinality(K)
  BY <1>1, <1>4
<1> QED
  BY <1>2, <1>5 DEF Keep

(* ... all of them and no other.                                           *)
LEMMA KeepRange ==
  ASSUME NEW S, NEW s \in Seq(S), NEW K \in SUBSET (1..Len(s))
  PROVE  Range(Keep(s, K)) = {s[k] : k \in K}
<1>1. K \in SUBSET Int /\ IsFiniteSet(K) /\ Cardinality(K) \in Nat
  BY PositionsFinite, LenProperties
<1>2. DOMAIN Keep(s, K) = 1..Cardinality(K)
  BY DEF Keep
<1>3. ASSUME NEW j \in 1..Cardinality(K)
      PROVE  Keep(s, K)[j] \in {s[k] : k \in K}
  BY <1>1, NthExists DEF Keep
<1>4. ASSUME NEW k \in K
      PROVE  \E j \in 1..Cardinality(K) : Keep(s, K)[j] = s[k]
  BY <1>1, NthCovers DEF Keep
<1> QED
  BY <1>2, <1>3, <1>4 DEF Range

(* A ranked book stays ranked when orders leave it.                        *)
LEMMA KeepRanked ==
  ASSUME NEW s \in Seq(LimitOrder), NEW K \in SUBSET (1..Len(s)), Ranked(s)
  PROVE  Ranked(Keep(s, K))
<1>1. K \in SUBSET Int /\ IsFiniteSet(K) /\ Cardinality(K) \in Nat
  BY PositionsFinite, LenProperties
<1>2. ASSUME NEW j \in 1..Len(Keep(s, K)), NEW k \in 1..Len(Keep(s, K)), j < k
      PROVE  Outranks(Keep(s, K)[j], Keep(s, K)[k])
  <2>1. Len(Keep(s, K)) = Cardinality(K)
    BY KeepElements
  <2>2. Nth(K, j) < Nth(K, k)
    BY <1>1, <1>2, <2>1, NthIncreasing
  <2>3. /\ Nth(K, j) \in 1..Len(s) /\ Nth(K, k) \in 1..Len(s)
        /\ Keep(s, K)[j] = s[Nth(K, j)] /\ Keep(s, K)[k] = s[Nth(K, k)]
    BY KeepElements
  <2> QED
    BY <2>2, <2>3 DEF Ranked
<1> QED
  BY <1>2 DEF Ranked

(* Where AddLimitOrder puts an order: behind every order it scanned and in *)
(* front of one it must go before.                                         *)
LEMMA InsertPositionFirst ==
  ASSUME NEW s \in Seq(LimitOrder), NEW o \in LimitOrder
  PROVE  LET at == InsertPosition(s, o)
         IN  /\ at \in 1..Len(s) + 1
             /\ \A j \in 1..Len(s) :
                  j < at => ~ShouldInsertBefore(o.kind, o.price, s[j].price)
             /\ at <= Len(s) => ShouldInsertBefore(o.kind, o.price, s[at].price)
<1> DEFINE before == {j \in 1..Len(s) :
                        ShouldInsertBefore(o.kind, o.price, s[j].price)}
           at == InsertPosition(s, o)
<1>1. Len(s) \in Nat
  BY LenProperties
<1>2. before \in SUBSET Int /\ IsFiniteSet(before)
  <2>1. before \in SUBSET (1..Len(s))
    OBVIOUS
  <2> HIDE DEF before
  <2> QED
    BY <1>1, <2>1, PositionsFinite
<1>3. CASE before = {}
  <2>1. at = Len(s) + 1
    BY <1>3 DEF InsertPosition
  <2> QED
    BY <1>1, <1>3, <2>1
<1>4. CASE before # {}
  <2>1. at = Min(before)
    BY <1>4 DEF InsertPosition
  <2>2. at \in before /\ \A j \in before : at <= j
    BY <1>2, <1>4, <2>1, MinExists
  <2>3. ASSUME NEW j \in 1..Len(s), j < at
        PROVE  ~ShouldInsertBefore(o.kind, o.price, s[j].price)
    <3>1. at \in Int /\ j \in Int /\ ~(at <= j)
      BY <1>1, <2>2, <2>3
    <3>2. j \notin before
      BY <2>2, <3>1
    <3> QED
      BY <3>2
  <2> QED
    BY <1>1, <2>2, <2>3
<1> QED
  BY <1>3, <1>4

(* AddLimitOrder inserts the order and moves no other.                     *)
LEMMA AddLimitOrderElements ==
  ASSUME NEW s \in Seq(LimitOrder), NEW o \in LimitOrder
  PROVE  LET at == InsertPosition(s, o)
             r  == AddLimitOrder(s, o)
         IN  /\ r \in Seq(LimitOrder)
             /\ Len(r) = Len(s) + 1
             /\ at \in 1..Len(s) + 1
             /\ \A j \in 1..Len(s) + 1 :
                  r[j] = IF j < at THEN s[j] ELSE IF j = at THEN o ELSE s[j - 1]
             /\ Range(r) = Range(s) \cup {o}
<1> DEFINE at == InsertPosition(s, o)
           r  == AddLimitOrder(s, o)
           n  == Len(s)
<1>1. n \in Nat /\ DOMAIN s = 1..n /\ \A j \in 1..n : s[j] \in LimitOrder
  BY LenProperties, ElementOfSeq
<1>2. at \in 1..n + 1
  BY InsertPositionFirst
<1>3. r = [j \in 1..n + 1 |->
             IF j < at THEN s[j] ELSE IF j = at THEN o ELSE s[j - 1]]
  BY DEF AddLimitOrder
<1> HIDE DEF at, r, n
<1>4. \A j \in 1..n + 1 : r[j] \in LimitOrder
  BY <1>1, <1>2, <1>3
<1>5. r \in [1..n + 1 -> LimitOrder]
  BY <1>3, <1>4
<1>6. r \in Seq(LimitOrder) /\ Len(r) = n + 1
  BY <1>1, <1>5
<1>7. Range(r) = Range(s) \cup {o}
  <2>1. DOMAIN r = 1..n + 1
    BY <1>5
  <2>2. ASSUME NEW j \in 1..n + 1 PROVE r[j] \in Range(s) \cup {o}
    <3>1. CASE j < at
      <4>1. j \in 1..n /\ r[j] = s[j]
        BY <1>1, <1>2, <1>3, <3>1
      <4> QED
        BY <1>1, <4>1 DEF Range
    <3>2. CASE j = at
      BY <1>2, <1>3, <3>2
    <3>3. CASE j > at
      <4>1. j - 1 \in 1..n /\ r[j] = s[j - 1]
        BY <1>1, <1>2, <1>3, <3>3
      <4> QED
        BY <1>1, <4>1 DEF Range
    <3> QED
      BY <1>1, <1>2, <3>1, <3>2, <3>3
  <2>3. ASSUME NEW j \in 1..n PROVE \E k \in 1..n + 1 : r[k] = s[j]
    <3>1. CASE j < at
      BY <1>1, <1>2, <1>3, <3>1
    <3>2. CASE ~(j < at)
      <4>1. j + 1 \in 1..n + 1 /\ ~(j + 1 < at) /\ j + 1 # at /\ (j + 1) - 1 = j
        BY <1>1, <1>2, <3>2
      <4> QED
        BY <1>3, <4>1
    <3> QED
      BY <3>1, <3>2
  <2>4. r[at] = o
    BY <1>2, <1>3
  <2> QED
    BY <1>1, <1>2, <2>1, <2>2, <2>3, <2>4 DEF Range
<1> QED
  BY <1>2, <1>3, <1>6, <1>7 DEF at, r, n

(* A ranked book stays ranked when an order younger than all of its orders *)
(* is added: the scan stops behind every order of the same price.          *)
LEMMA AddLimitOrderRanked ==
  ASSUME NEW s \in Seq(LimitOrder), NEW o \in LimitOrder, Ranked(s),
         \A j \in 1..Len(s) : s[j].kind = o.kind /\ s[j].orderID < o.orderID
  PROVE  Ranked(AddLimitOrder(s, o))
<1> DEFINE at == InsertPosition(s, o)
           r  == AddLimitOrder(s, o)
           n  == Len(s)
<1>1. n \in Nat /\ \A j \in 1..n : s[j] \in LimitOrder
  BY LenProperties, ElementOfSeq
<1>2. /\ Len(r) = n + 1 /\ at \in 1..n + 1
      /\ \A j \in 1..n + 1 :
           r[j] = IF j < at THEN s[j] ELSE IF j = at THEN o ELSE s[j - 1]
  BY AddLimitOrderElements
<1>3. \A j \in 1..n : j < at => ~ShouldInsertBefore(o.kind, o.price, s[j].price)
  BY InsertPositionFirst
<1>4. at <= n => ShouldInsertBefore(o.kind, o.price, s[at].price)
  BY InsertPositionFirst
<1>5. \A j, k \in 1..n : j < k => Outranks(s[j], s[k])
  BY DEF Ranked
<1>6. \A j \in 1..n : s[j].kind = o.kind /\ s[j].orderID < o.orderID
  OBVIOUS
<1> HIDE DEF at, r, n
<1>7. \A j \in 1..n : j < at => Outranks(s[j], o)
  BY <1>1, <1>3, <1>6 DEF ShouldInsertBefore, Outranks, LimitOrder, Kinds
<1>8. \A j \in 1..n : j >= at => Outranks(o, s[j])
  <2> SUFFICES ASSUME NEW j \in 1..n, j >= at PROVE Outranks(o, s[j])
    OBVIOUS
  <2>1. at \in 1..n
    BY <1>1, <1>2
  <2>2. ShouldInsertBefore(o.kind, o.price, s[at].price)
    BY <1>4, <2>1
  <2>3. CASE j = at
    BY <1>1, <2>2, <2>3 DEF ShouldInsertBefore, Outranks, LimitOrder, Kinds
  <2>4. CASE j # at
    <3>1. Outranks(s[at], s[j])
      BY <1>1, <1>5, <2>1, <2>4
    <3>2. s[at] \in LimitOrder /\ s[j] \in LimitOrder /\ s[at].kind = o.kind /\ s[j].kind = o.kind
      BY <1>1, <1>6, <2>1
    <3> DEFINE a == s[at]
               b == s[j]
    <3>3. /\ a.price \in Nat /\ b.price \in Nat /\ o.price \in Nat
          /\ a.kind = o.kind /\ b.kind = o.kind /\ o.kind \in Kinds
      BY <3>2 DEF LimitOrder
    <3> HIDE DEF a, b
    <3>4. ShouldInsertBefore(o.kind, o.price, a.price) /\ Outranks(a, b)
      BY <2>2, <3>1 DEF a, b
    <3>5. Outranks(o, b)
      BY <3>3, <3>4 DEF ShouldInsertBefore, Outranks, Kinds
    <3> QED
      BY <3>5 DEF b
  <2> QED
    BY <2>3, <2>4
<1>9. ASSUME NEW j \in 1..n + 1, NEW k \in 1..n + 1, j < k
      PROVE  Outranks(r[j], r[k])
  <2>1. CASE k < at
    BY <1>1, <1>2, <1>5, <1>9, <2>1
  <2>2. CASE k = at
    BY <1>1, <1>2, <1>7, <1>9, <2>2
  <2>3. CASE k > at
    <3>1. k - 1 \in 1..n /\ k - 1 >= at /\ r[k] = s[k - 1]
      BY <1>1, <1>2, <1>9, <2>3
    <3>2. CASE j < at
      BY <1>1, <1>2, <1>5, <3>1, <3>2
    <3>3. CASE j = at
      BY <1>2, <1>8, <3>1, <3>3
    <3>4. CASE j > at
      <4>1. j - 1 \in 1..n /\ j - 1 < k - 1 /\ r[j] = s[j - 1]
        BY <1>1, <1>2, <1>9, <3>4
      <4> QED
        BY <1>5, <3>1, <4>1
    <3> QED
      BY <1>1, <1>2, <3>2, <3>3, <3>4
  <2> QED
    BY <1>1, <1>2, <2>1, <2>2, <2>3
<1> QED
  BY <1>2, <1>9 DEF Ranked, r, n

-----------------------------------------------------------------------------
(* Arithmetic the provers need spelled out.                                *)

(* A larger amount at the same price, or the same amount at a larger       *)
(* price, costs at least as much (getTotalPrice).                          *)
LEMMA TimesMonotone ==
  ASSUME NEW a \in Nat, NEW b \in Nat, NEW x \in Nat, NEW y \in Nat, a <= b, x <= y
  PROVE  a * x \in Nat /\ b * y \in Nat /\ a * x <= b * y
<1>1. \E n \in Nat : b = a + n
  <2> WITNESS b - a \in Nat
  <2> QED
    OBVIOUS
<1>2. PICK n \in Nat : b = a + n
  BY <1>1
<1>3. \E k \in Nat : y = x + k
  <2> WITNESS y - x \in Nat
  <2> QED
    OBVIOUS
<1>4. PICK k \in Nat : y = x + k
  BY <1>3
<1>5. b * y = a * x + a * k + n * x + n * k
  BY <1>2, <1>4
<1>6. a * x \in Nat /\ a * k \in Nat /\ n * x \in Nat /\ n * k \in Nat
  OBVIOUS
<1> HIDE <1>2, <1>4
<1> QED
  BY <1>5, <1>6

(* The price of an amount is the price of its two parts (getTotalPrice     *)
(* after a partial fill).                                                  *)
LEMMA TimesDifference ==
  ASSUME NEW a \in Nat, NEW b \in Nat, NEW x \in Nat, a <= b
  PROVE  (b - a) * x = b * x - a * x
OBVIOUS

-----------------------------------------------------------------------------
(* The bank.                                                               *)

(* SubtractCoins moves one balance, by x, and fails exactly when it cannot.*)
LEMMA SubtractCoinsEffect ==
  ASSUME NEW c \in Ledger, NEW a \in Accounts, NEW d \in Denoms, NEW x \in Nat
  PROVE  LET r == SubtractCoins(c, a, d, x)
         IN  /\ r.coins \in Ledger
             /\ r.err \in BOOLEAN
             /\ r.err <=> c[a][d] < x
             /\ ~r.err =>
                  \A b \in Accounts, e \in Denoms :
                    r.coins[b][e] = IF b = a /\ e = d THEN c[a][d] - x ELSE c[b][e]
<1>1. c[a][d] \in Nat
  BY DEF Ledger
<1>2. CASE c[a][d] < x
  BY <1>1, <1>2 DEF SubtractCoins
<1>3. CASE ~(c[a][d] < x)
  <2>1. ~(c[a][d] - x < 0) /\ c[a][d] - x \in Nat
    BY <1>1, <1>3
  <2> DEFINE new == [c EXCEPT ![a][d] = @ - x]
  <2>2. /\ new \in Ledger
        /\ \A b \in Accounts, e \in Denoms :
             new[b][e] = IF b = a /\ e = d THEN c[a][d] - x ELSE c[b][e]
    BY <2>1 DEF Ledger
  <2>3. SubtractCoins(c, a, d, x) = [coins |-> new, err |-> FALSE]
    BY <2>1 DEF SubtractCoins
  <2> HIDE DEF new
  <2> QED
    BY <1>3, <2>2, <2>3
<1> QED
  BY <1>2, <1>3

(* Adding a natural number of coins never fails.                           *)
LEMMA AddCoinsEffect ==
  ASSUME NEW c \in Ledger, NEW a \in Accounts, NEW d \in Denoms, NEW x \in Nat
  PROVE  LET r == AddCoins(c, a, d, x)
         IN  /\ r.coins \in Ledger
             /\ r.err \in BOOLEAN /\ ~r.err
             /\ \A b \in Accounts, e \in Denoms :
                  r.coins[b][e] = IF b = a /\ e = d THEN c[a][d] + x ELSE c[b][e]
<1>1. c[a][d] \in Nat
  BY DEF Ledger
<1>2. ~(c[a][d] + x < 0) /\ c[a][d] + x \in Nat
  BY <1>1
<1> DEFINE new == [c EXCEPT ![a][d] = @ + x]
<1>3. /\ new \in Ledger
      /\ \A b \in Accounts, e \in Denoms :
           new[b][e] = IF b = a /\ e = d THEN c[a][d] + x ELSE c[b][e]
  BY <1>2 DEF Ledger
<1>4. AddCoins(c, a, d, x) = [coins |-> new, err |-> FALSE]
  BY <1>2 DEF AddCoins
<1> HIDE DEF new
<1> QED
  BY <1>3, <1>4

(* From balances c to balances s, x of denom d went from a to b and y of   *)
(* denom e to a.                                                           *)
Settles(c, s, a, b, d, x, e, y) ==
  \A g \in Accounts, f \in Denoms :
    s[g][f] = c[g][f]
              - (IF g = a /\ f = d THEN x ELSE 0)
              + (IF g = b /\ f = d THEN x ELSE 0)
              + (IF g = a /\ f = e THEN y ELSE 0)

(* What a settlement does: the sender loses at most x of d, gains exactly  *)
(* y of e, and it fails exactly when the sender has less than x of d; the  *)
(* other party gets the x of d.                                            *)
LEMMA SettlementEffect ==
  ASSUME coins \in Ledger, NEW a \in Accounts, NEW b \in Accounts,
         NEW d \in Denoms, NEW e \in Denoms, d # e, NEW x \in Nat, NEW y \in Nat
  PROVE  LET r == sendAndUnlockCoins(a, b, d, x, e, y)
         IN  /\ r.coins \in Ledger
             /\ r.err \in BOOLEAN
             /\ r.err <=> coins[a][d] < x
             /\ ~r.err => /\ r.coins[a][d] >= coins[a][d] - x
                          /\ r.coins[a][e] = coins[a][e] + y
             /\ ~r.err => Settles(coins, r.coins, a, b, d, x, e, y)
<1> DEFINE s == SubtractCoins(coins, a, d, x)
           t == SendCoins(coins, a, b, d, x)
           r == sendAndUnlockCoins(a, b, d, x, e, y)
<1>1. /\ s.coins \in Ledger /\ s.err \in BOOLEAN /\ (s.err <=> coins[a][d] < x)
      /\ ~s.err => \A g \in Accounts, f \in Denoms :
           s.coins[g][f] = IF g = a /\ f = d THEN coins[a][d] - x ELSE coins[g][f]
  BY SubtractCoinsEffect
<1>2. CASE s.err
  <2>1. t = s
    BY <1>2 DEF SendCoins
  <2>2. r = s
    BY <1>2, <2>1 DEF sendAndUnlockCoins
  <2> QED
    BY <1>1, <1>2, <2>2
<1>3. CASE ~s.err
  <2> DEFINE sc == s.coins
             u  == AddCoins(sc, b, d, x)
             uc == u.coins
             v  == AddCoins(uc, a, e, y)
  <2>1. t = u
    BY <1>3 DEF SendCoins
  <2>2. \A g \in Accounts, f \in Denoms :
          sc[g][f] = IF g = a /\ f = d THEN coins[a][d] - x ELSE coins[g][f]
    BY <1>1, <1>3
  <2> sc \in Ledger
    BY <1>1
  <2> HIDE DEF s, sc
  <2>3. /\ u.coins \in Ledger /\ u.err \in BOOLEAN /\ ~u.err
        /\ \A g \in Accounts, f \in Denoms :
             u.coins[g][f] = IF g = b /\ f = d THEN sc[b][d] + x ELSE sc[g][f]
    BY AddCoinsEffect
  <2>4. r = v
    <3>1. ~t.err
      BY <2>1, <2>3
    <3> HIDE DEF t, u
    <3>2. r = AddCoins(t.coins, a, e, y)
      BY <3>1 DEF sendAndUnlockCoins, t
    <3> QED
      BY <2>1, <3>2
  <2>5. \A g \in Accounts, f \in Denoms :
          uc[g][f] = IF g = b /\ f = d THEN sc[b][d] + x ELSE sc[g][f]
    BY <2>3
  <2> uc \in Ledger
    BY <2>3
  <2> HIDE DEF u, uc
  <2>6. /\ v.coins \in Ledger /\ v.err \in BOOLEAN /\ ~v.err
        /\ \A g \in Accounts, f \in Denoms :
             v.coins[g][f] = IF g = a /\ f = e THEN uc[a][e] + y ELSE uc[g][f]
    BY AddCoinsEffect
  <2> HIDE DEF v, t, r
  <2>7. /\ sc[a][d] = coins[a][d] - x /\ sc[a][e] = coins[a][e]
        /\ coins[a][d] \in Nat /\ coins[a][e] \in Nat
    BY <2>2 DEF Ledger
  <2>8. uc[a][d] >= sc[a][d] /\ uc[a][e] = sc[a][e]
    BY <2>2, <2>5, <2>7 DEF Ledger
  <2>9. v.coins[a][d] = uc[a][d] /\ v.coins[a][e] = uc[a][e] + y
    BY <2>6
  <2>10. ASSUME NEW g \in Accounts, NEW f \in Denoms
         PROVE  v.coins[g][f] = coins[g][f]
                                - (IF g = a /\ f = d THEN x ELSE 0)
                                + (IF g = b /\ f = d THEN x ELSE 0)
                                + (IF g = a /\ f = e THEN y ELSE 0)
    <3>1. coins[g][f] \in Nat
      BY DEF Ledger
    <3>2. sc[g][f] = coins[g][f] - (IF g = a /\ f = d THEN x ELSE 0)
      BY <2>2, <3>1
    <3>3. uc[g][f] = sc[g][f] + (IF g = b /\ f = d THEN x ELSE 0)
      BY <2>5, <3>1, <3>2
    <3>4. v.coins[g][f] = uc[g][f] + (IF g = a /\ f = e THEN y ELSE 0)
      BY <2>6, <3>1, <3>2, <3>3
    <3> QED
      BY <3>1, <3>2, <3>3, <3>4
  <2>11. Settles(coins, v.coins, a, b, d, x, e, y)
    BY <2>10 DEF Settles
  <2> QED
    BY <1>1, <1>3, <2>4, <2>6, <2>7, <2>8, <2>9, <2>11 DEF s, r
<1> QED
  BY <1>1, <1>2, <1>3

-----------------------------------------------------------------------------
(***************************************************************************)
(* Types, and that a transaction never fails once its checks have passed.  *)
(* Neither is inductive alone: a balance stays natural because the sender  *)
(* is covered, and the sender stays covered because the checks made the    *)
(* price and the amounts positive and the two denoms different.            *)
(***************************************************************************)
TxChecked ==
  InTx => /\ tx.kind \in Kinds
          /\ tx.amountDenom # tx.priceDenom
          /\ tx.price \in Nat /\ tx.price > 0
          /\ tx.amount \in Nat
          /\ unfilled <= tx.amount

Settled == TypeOK /\ TxChecked /\ Covered /\ NoLateFailure

(* At genesis no transaction is being executed.                            *)
LEMMA SettledInit == Init => Settled
<1> SUFFICES ASSUME Init PROVE Settled
  OBVIOUS
<1>1. books \in Books /\ orderBook \in Seq(LimitOrder)
  BY DEF Init, Books
<1>2. ~InTx
  BY DEF Init, InTx
<1>3. err \in BOOLEAN /\ ~err
  BY DEF Init
<1>4. TypeOK
  BY <1>1, <1>2, <1>3, ConstantsAssumption DEF Init, TypeOK
<1> QED
  BY <1>2, <1>3, <1>4 DEF Settled, TxChecked, Covered, NoLateFailure

(* The message and the book of a running transaction.                      *)
LEMMA TxTypes ==
  ASSUME Settled, InTx
  PROVE  /\ tx.sender \in Accounts
         /\ tx.amountDenom \in Denoms /\ tx.priceDenom \in Denoms
         /\ tx.amountDenom # tx.priceDenom
         /\ tx.kind \in Kinds
         /\ tx.price \in Nat /\ tx.amount \in Nat /\ tx.expiresAt \in Nat
         /\ MatchingKey(tx) \in BookKeys /\ KeyOf(tx) \in BookKeys
         /\ saved \in [coins : Ledger, books : Books, nextOrderID : Nat]
<1>1. tx \in Msgs /\ saved \in [coins : Ledger, books : Books, nextOrderID : Nat]
  BY DEF Settled, TypeOK
<1>2. /\ tx.kind \in Kinds /\ tx.amountDenom # tx.priceDenom
      /\ tx.price \in Nat /\ tx.amount \in Nat
  BY DEF Settled, TxChecked
<1>3. /\ tx.sender \in Accounts /\ tx.expiresAt \in Nat
      /\ tx.amountDenom \in Denoms /\ tx.priceDenom \in Denoms
  BY <1>1, ConstantsAssumption DEF Msgs
<1>4. MatchingKind(tx.kind) \in Kinds
  BY DEF MatchingKind, Kinds
<1> QED
  BY <1>1, <1>2, <1>3, <1>4 DEF Settled, TypeOK, MatchingKey, KeyOf, BookKeys

(* A rolled back transaction leaves a settled state.                       *)
LEMMA RollbackSettled ==
  ASSUME Settled, InTx, Rollback, UNCHANGED <<clock, toRefund>>, err' \in BOOLEAN, ~err'
  PROVE  Settled'
<1>1. saved \in [coins : Ledger, books : Books, nextOrderID : Nat]
  BY TxTypes
<1>2. coins' \in Ledger /\ books' \in Books /\ nextOrderID' \in Nat
  BY <1>1 DEF Rollback
<1>3. ~InTx' /\ tx' = NoTx
  BY DEF Rollback, Idle, InTx
<1>4. /\ pc' = "idle" /\ unfilled' = 0 /\ orderBook' = <<>> /\ i' = 1 /\ saved' = NoTx
  BY DEF Rollback, Idle
<1>5. orderBook' \in Seq(LimitOrder)
  BY <1>4
<1>6. now' \in Nat /\ blockTime' \in Nat /\ toRefund' \in SUBSET LimitOrder
  BY DEF Settled, TypeOK, clock
<1>7. TypeOK'
  BY <1>2, <1>3, <1>4, <1>5, <1>6 DEF TypeOK
<1> QED
  BY <1>3, <1>7 DEF Settled, TxChecked, Covered, NoLateFailure

(* The checks establish the invariant for a new transaction.               *)
LEMMA SettledProcess ==
  ASSUME Settled, NEW m \in Msgs, processLimitOrder(m)
  PROVE  Settled'
<1>1. /\ m.kind \in Kinds /\ m.amountDenom # m.priceDenom
      /\ m.amount \in Nat /\ m.price \in Nat /\ m.price > 0
  <2>1. m.amount \in Int /\ m.price \in Int
    BY ConstantsAssumption DEF Msgs
  <2>2. /\ m.kind \in Kinds /\ m.amountDenom # m.priceDenom
        /\ m.amount > 0 /\ m.price > 0
    BY DEF processLimitOrder, OrderChecks
  <2> QED
    BY <2>1, <2>2
<1>2. /\ tx' = m /\ unfilled' = m.amount /\ orderBook' = books[MatchingKey(m)]
      /\ pc' = "fill" /\ i' = 1 /\ err' = err /\ toRefund' = toRefund
      /\ saved' = [coins |-> coins, books |-> books, nextOrderID |-> nextOrderID]
      /\ coins' = coins /\ books' = books /\ nextOrderID' = nextOrderID
      /\ now' = now /\ blockTime' = blockTime
  BY DEF processLimitOrder, getOrderBook, store, clock
<1>3. MatchingKey(m) \in BookKeys
  BY <1>1 DEF MatchingKey, MatchingKind, BookKeys, Kinds, Msgs
<1>4. orderBook' \in Seq(LimitOrder)
  BY <1>2, <1>3 DEF Settled, TypeOK, Books
<1>5. saved' \in [coins : Ledger, books : Books, nextOrderID : Nat]
  BY <1>2 DEF Settled, TypeOK
<1>6. InTx'
  BY <1>2 DEF InTx
<1>7. TypeOK'
  BY <1>1, <1>2, <1>4, <1>5, <1>6 DEF Settled, TypeOK
<1>8. TxChecked'
  BY <1>1, <1>2 DEF TxChecked
<1>9. Covered'
  BY <1>1, <1>2 DEF Covered, processLimitOrder, OrderChecks, HasCoins, TotalPrice, Kinds
<1> QED
  BY <1>2, <1>7, <1>8, <1>9 DEF Settled, NoLateFailure

(* The amount and the total price of a fill, against what the sender has.  *)
LEMMA FillTypes ==
  ASSUME Settled, pc = "fill", LoopGoesOn
  PROVE  /\ i \in 1..Len(orderBook)
         /\ orderBook[i] \in LimitOrder
         /\ Fill.ok = Crosses(orderBook[i], tx.kind, tx.price)
         /\ Fill.price = orderBook[i].price
         /\ Fill.amount \in Nat /\ Fill.amount <= unfilled
         /\ Fill.amount <= orderBook[i].amount
         /\ TotalPrice(Fill.amount, Fill.price) \in Nat
<1>1. i \in 1..Len(orderBook) /\ orderBook \in Seq(LimitOrder) /\ unfilled \in Nat
  BY LenProperties DEF Settled, TypeOK, LoopGoesOn
<1>2. orderBook[i] \in LimitOrder
  BY <1>1, ElementOfSeq
<1>3. orderBook[i].amount \in Nat /\ orderBook[i].price \in Nat
  BY <1>2 DEF LimitOrder
<1>4. /\ Fill.ok = Crosses(orderBook[i], tx.kind, tx.price)
      /\ Fill.price = orderBook[i].price
      /\ Fill.amount = FillAmount(orderBook[i], unfilled)
  BY DEF Fill, DoesFill
<1>5. /\ FillAmount(orderBook[i], unfilled) \in Nat
      /\ FillAmount(orderBook[i], unfilled) <= unfilled
      /\ FillAmount(orderBook[i], unfilled) <= orderBook[i].amount
  BY <1>1, <1>3 DEF FillAmount
<1>6. TotalPrice(Fill.amount, Fill.price) \in Nat
  BY <1>3, <1>4, <1>5 DEF TotalPrice
<1> QED
  BY <1>1, <1>2, <1>4, <1>5, <1>6

(* One settlement: it never fails and leaves the sender covered.           *)
LEMMA SettlementCovered ==
  ASSUME Settled, pc = "fill", LoopGoesOn
  PROVE  /\ Settlement.coins \in Ledger
         /\ Settlement.err \in BOOLEAN /\ ~Settlement.err
         /\ LET c == Settlement.coins[tx.sender]
            IN  IF tx.kind = "buy"
                THEN c[tx.priceDenom] >= (unfilled - Fill.amount) * tx.price
                ELSE c[tx.amountDenom] >= unfilled - Fill.amount
<1> DEFINE s == tx.sender
           b == orderBook[i].sender
           f == Fill.amount
           q == Fill.price
           p == tx.price
           total == TotalPrice(f, q)
<1>1. InTx
  BY DEF InTx
<1>2. /\ s \in Accounts /\ tx.amountDenom \in Denoms /\ tx.priceDenom \in Denoms
      /\ tx.amountDenom # tx.priceDenom /\ tx.kind \in Kinds /\ p \in Nat
  BY <1>1, TxTypes
<1>3. /\ f \in Nat /\ f <= unfilled /\ q = orderBook[i].price /\ total \in Nat
      /\ orderBook[i] \in LimitOrder /\ Crosses(orderBook[i], tx.kind, p)
  BY FillTypes DEF LoopGoesOn
<1>4. b \in Accounts /\ q \in Nat /\ unfilled \in Nat /\ coins \in Ledger
  BY <1>3 DEF LimitOrder, Settled, TypeOK
<1>5. total = f * q
  BY DEF TotalPrice
<1> HIDE DEF f, q, p, total, s, b
<1>6. CASE tx.kind = "buy"
  <2> DEFINE r == sendAndUnlockCoins(s, b, tx.priceDenom, total, tx.amountDenom, f)
  <2>1. Settlement = r
    BY <1>6 DEF Settlement, s, b, total, f, q
  <2>2. /\ r.coins \in Ledger /\ r.err \in BOOLEAN
        /\ r.err <=> coins[s][tx.priceDenom] < total
        /\ ~r.err => r.coins[s][tx.priceDenom] >= coins[s][tx.priceDenom] - total
    BY <1>2, <1>3, <1>4, SettlementEffect
  <2> HIDE DEF r
  <2>3. q <= p
    BY <1>2, <1>3, <1>4, <1>6 DEF Crosses
  <2>4. f * q <= f * p
    BY <1>2, <1>3, <1>4, <2>3, TimesMonotone
  <2>5. f * p <= unfilled * p /\ f * p \in Nat /\ unfilled * p \in Nat
    BY <1>2, <1>3, <1>4, TimesMonotone
  <2>6. coins[s][tx.priceDenom] >= unfilled * p
    BY <1>1, <1>6 DEF Settled, Covered, s, p
  <2>7. coins[s][tx.priceDenom] \in Nat
    BY <1>2, <1>4 DEF Ledger
  <2>8. ~r.err
    BY <1>3, <1>5, <2>2, <2>4, <2>5, <2>6, <2>7
  <2>9. (unfilled - f) * p = unfilled * p - f * p
    BY <1>2, <1>3, <1>4, TimesDifference
  <2>10. r.coins[s][tx.priceDenom] \in Nat
    BY <1>2, <2>2 DEF Ledger
  <2>11. r.coins[s][tx.priceDenom] >= (unfilled - f) * p
    <3> DEFINE new == r.coins[s][tx.priceDenom]
               old == coins[s][tx.priceDenom]
               fp  == f * p
               up  == unfilled * p
               rest == (unfilled - f) * p
    <3>1. /\ new >= old - total /\ old >= up /\ total <= fp /\ rest = up - fp
          /\ new \in Nat /\ old \in Nat /\ fp \in Nat /\ up \in Nat /\ total \in Nat
      BY <1>3, <1>5, <2>2, <2>4, <2>5, <2>6, <2>7, <2>8, <2>9, <2>10
    <3> HIDE DEF new, old, fp, up, rest
    <3>2. new >= rest
      BY <3>1
    <3> QED
      BY <3>2 DEF new, rest
  <2> QED
    BY <1>6, <2>1, <2>2, <2>8, <2>11 DEF s, p, f
<1>7. CASE tx.kind # "buy"
  <2> DEFINE r == sendAndUnlockCoins(s, b, tx.amountDenom, f, tx.priceDenom, total)
  <2>1. Settlement = r
    BY <1>7 DEF Settlement, s, b, total, f, q
  <2>2. /\ r.coins \in Ledger /\ r.err \in BOOLEAN
        /\ r.err <=> coins[s][tx.amountDenom] < f
        /\ ~r.err => r.coins[s][tx.amountDenom] >= coins[s][tx.amountDenom] - f
    BY <1>2, <1>3, <1>4, SettlementEffect
  <2> HIDE DEF r
  <2>3. coins[s][tx.amountDenom] >= unfilled
    BY <1>1, <1>7 DEF Settled, Covered, s
  <2>4. coins[s][tx.amountDenom] \in Nat
    BY <1>2, <1>4 DEF Ledger
  <2>5. ~r.err
    BY <1>3, <1>4, <2>2, <2>3, <2>4
  <2>6. r.coins[s][tx.amountDenom] \in Nat
    BY <1>2, <2>2 DEF Ledger
  <2>7. r.coins[s][tx.amountDenom] >= unfilled - f
    BY <1>3, <1>4, <2>2, <2>3, <2>4, <2>5, <2>6
  <2> QED
    BY <1>7, <2>1, <2>2, <2>5, <2>7 DEF s, f
<1> QED
  BY <1>6, <1>7

(* An iteration of the matching loop keeps the sender covered.             *)
LEMMA SettledFill ==
  ASSUME Settled, fillStoredOrder
  PROVE  Settled'
<1>1. pc = "fill" /\ LoopGoesOn /\ InTx
  BY DEF fillStoredOrder, InTx
<1>2. /\ Settlement.coins \in Ledger
      /\ Settlement.err \in BOOLEAN /\ ~Settlement.err
  BY <1>1, SettlementCovered
<1>3. /\ coins' = Settlement.coins
      /\ err' = Settlement.err
      /\ unfilled' = unfilled - Fill.amount
      /\ orderBook' = [orderBook EXCEPT ![i].amount = @ - Fill.amount]
      /\ i' = i + 1
      /\ books' = books /\ nextOrderID' = nextOrderID /\ now' = now
      /\ blockTime' = blockTime /\ pc' = pc /\ tx' = tx
      /\ toRefund' = toRefund /\ saved' = saved
  BY <1>2 DEF fillStoredOrder, clock
<1>4. /\ i \in 1..Len(orderBook) /\ orderBook[i] \in LimitOrder
      /\ Fill.amount \in Nat /\ Fill.amount <= unfilled
      /\ Fill.amount <= orderBook[i].amount
  BY <1>1, FillTypes
<1>5. orderBook' \in Seq(LimitOrder)
  <2> DEFINE o == [orderBook[i] EXCEPT !.amount = @ - Fill.amount]
  <2>1. o \in LimitOrder
    BY <1>4 DEF LimitOrder
  <2>2. orderBook' = [orderBook EXCEPT ![i] = o]
    BY <1>3
  <2>3. orderBook \in Seq(LimitOrder)
    BY DEF Settled, TypeOK
  <2> QED
    BY <1>4, <2>1, <2>2, <2>3, ExceptSeq
<1>6. unfilled' \in Nat /\ unfilled' <= unfilled /\ unfilled \in Nat
  BY <1>3, <1>4 DEF Settled, TypeOK
<1>7. InTx'
  BY <1>1, <1>3 DEF InTx
<1>8. TypeOK'
  BY <1>1, <1>2, <1>3, <1>5, <1>6, <1>7 DEF Settled, TypeOK
<1>9. TxChecked'
  BY <1>1, <1>3, <1>6 DEF Settled, TxChecked
<1>10. Covered'
  BY <1>1, <1>3, SettlementCovered DEF Covered
<1> QED
  BY <1>2, <1>3, <1>8, <1>9, <1>10 DEF Settled, NoLateFailure

(* The end of the matching loop moves no coins.                            *)
LEMMA SettledFillEnd ==
  ASSUME Settled, fillEnd
  PROVE  Settled'
<1>1. pc = "fill" /\ InTx /\ ~err /\ err \in BOOLEAN
  BY DEF fillEnd, InTx, Settled, NoLateFailure, TypeOK
<1>2. /\ books' = [books EXCEPT ![MatchingKey(tx)] = RemoveFilledLimitOrders(orderBook)]
      /\ pc' = "store" /\ orderBook' = <<>> /\ i' = 1
      /\ coins' = coins /\ nextOrderID' = nextOrderID /\ tx' = tx
      /\ unfilled' = unfilled /\ saved' = saved /\ now' = now
      /\ blockTime' = blockTime /\ err' = err /\ toRefund' = toRefund
  BY <1>1 DEF fillEnd, setOrderBook, clock
<1>3. RemoveFilledLimitOrders(orderBook) \in Seq(LimitOrder)
  BY KeepElements DEF RemoveFilledLimitOrders, Settled, TypeOK
<1>4. books' \in Books
  BY <1>2, <1>3 DEF Settled, TypeOK, Books
<1>5. InTx' /\ orderBook' \in Seq(LimitOrder)
  BY <1>2 DEF InTx
<1>6. TypeOK'
  BY <1>1, <1>2, <1>4, <1>5 DEF Settled, TypeOK
<1>7. TxChecked' /\ Covered'
  BY <1>1, <1>2 DEF Settled, TxChecked, Covered
<1> QED
  BY <1>1, <1>2, <1>6, <1>7 DEF Settled, NoLateFailure

(* The order that storeUnfilledLimitOrder stores and what it locks.        *)
LEMMA NewOrderTypes ==
  ASSUME Settled, InTx
  PROVE  /\ NewLimitOrder \in LimitOrder
         /\ LockedDenom(NewLimitOrder) \in Denoms
         /\ Locked(NewLimitOrder, unfilled) \in Nat
         /\ coins[tx.sender][LockedDenom(NewLimitOrder)]
              >= Locked(NewLimitOrder, unfilled)
<1>1. /\ tx.sender \in Accounts /\ tx.kind \in Kinds
      /\ tx.amountDenom \in Denoms /\ tx.priceDenom \in Denoms
      /\ tx.price \in Nat /\ tx.expiresAt \in Nat
      /\ nextOrderID \in Nat /\ unfilled \in Nat
  BY TxTypes DEF Settled, TypeOK
<1>2. NewLimitOrder \in LimitOrder
  BY <1>1 DEF NewLimitOrder, LimitOrder
<1>3. /\ NewLimitOrder.kind = tx.kind /\ NewLimitOrder.price = tx.price
      /\ NewLimitOrder.amountDenom = tx.amountDenom
      /\ NewLimitOrder.priceDenom = tx.priceDenom
  BY DEF NewLimitOrder
<1>4. unfilled * tx.price \in Nat
  BY <1>1
<1>5. IF tx.kind = "buy"
      THEN coins[tx.sender][tx.priceDenom] >= unfilled * tx.price
      ELSE coins[tx.sender][tx.amountDenom] >= unfilled
  BY DEF Settled, Covered
<1> QED
  BY <1>1, <1>2, <1>3, <1>4, <1>5 DEF LockedDenom, Locked, TotalPrice

(* Locking the rest of an order succeeds when the sender is covered.       *)
LEMMA LockEffect ==
  ASSUME Settled, InTx
  PROVE  Lock.coins \in Ledger /\ Lock.err \in BOOLEAN /\ ~Lock.err
<1> DEFINE d == LockedDenom(NewLimitOrder)
           x == Locked(NewLimitOrder, unfilled)
<1>1. d \in Denoms /\ x \in Nat /\ coins[tx.sender][d] >= x
  BY NewOrderTypes
<1>2. tx.sender \in Accounts /\ coins \in Ledger
  BY TxTypes DEF Settled, TypeOK
<1>3. coins[tx.sender][d] \in Nat
  BY <1>1, <1>2 DEF Ledger
<1>4. Lock = SubtractCoins(coins, tx.sender, d, x)
  BY DEF Lock
<1> HIDE DEF d, x
<1>5. /\ Lock.coins \in Ledger /\ Lock.err \in BOOLEAN
      /\ Lock.err <=> coins[tx.sender][d] < x
  BY <1>1, <1>2, <1>4, SubtractCoinsEffect
<1> QED
  BY <1>1, <1>3, <1>5

(* storeUnfilledLimitOrder locks what the sender is covered for.           *)
LEMMA SettledStore ==
  ASSUME Settled, storeUnfilledLimitOrder
  PROVE  Settled'
<1>1. InTx /\ pc = "store" /\ ~err /\ err \in BOOLEAN
  BY DEF storeUnfilledLimitOrder, InTx, Settled, NoLateFailure, TypeOK
<1>2. Lock.coins \in Ledger /\ Lock.err \in BOOLEAN /\ ~Lock.err
  BY <1>1, LockEffect
<1>3. Idle /\ nextOrderID' = nextOrderID + 1 /\ UNCHANGED <<clock, toRefund>>
  BY <1>2 DEF storeUnfilledLimitOrder, getNewOrderID
<1>4. coins' \in Ledger /\ err' \in BOOLEAN /\ ~err'
  BY <1>1, <1>2 DEF storeUnfilledLimitOrder, Settled, TypeOK
<1>5. books' \in Books
  <2>1. CASE unfilled = 0
    BY <1>1, <2>1 DEF storeUnfilledLimitOrder, Settled, TypeOK
  <2>2. CASE unfilled # 0
    <3>1. books' = [books EXCEPT ![KeyOf(tx)] = AddLimitOrder(@, NewLimitOrder)]
      BY <1>2, <2>2 DEF storeUnfilledLimitOrder, getOrderBook, setOrderBook
    <3>2. KeyOf(tx) \in BookKeys /\ NewLimitOrder \in LimitOrder
      BY <1>1, TxTypes, NewOrderTypes
    <3>3. books[KeyOf(tx)] \in Seq(LimitOrder)
      BY <3>2 DEF Settled, TypeOK, Books
    <3>4. AddLimitOrder(books[KeyOf(tx)], NewLimitOrder) \in Seq(LimitOrder)
      BY <3>2, <3>3, AddLimitOrderElements
    <3> QED
      BY <3>1, <3>4 DEF Settled, TypeOK, Books
  <2> QED
    BY <2>1, <2>2
<1>6. ~InTx' /\ orderBook' \in Seq(LimitOrder)
  BY <1>3 DEF Idle, InTx
<1>7. TypeOK'
  BY <1>3, <1>4, <1>5, <1>6 DEF Settled, TypeOK, Idle, clock
<1> QED
  BY <1>4, <1>6, <1>7 DEF Settled, TxChecked, Covered, NoLateFailure

(* The begin blocker only takes orders out of the books.                   *)
LEMMA SettledBeginBlocker ==
  ASSUME Settled, BeginBlocker
  PROVE  Settled'
<1>1. ~InTx /\ ~InTx' /\ err' = err
  BY DEF BeginBlocker, InTx
<1>2. ASSUME NEW k \in BookKeys
      PROVE  /\ RemoveExpired(books[k], now) \in Seq(LimitOrder)
             /\ Range(books[k]) \subseteq LimitOrder
  <2>1. books[k] \in Seq(LimitOrder)
    BY DEF Settled, TypeOK, Books
  <2>2. RemoveExpired(books[k], now) \in Seq(LimitOrder)
    BY <2>1, KeepElements DEF RemoveExpired
  <2> QED
    BY <2>1, <2>2, ElementOfSeq DEF Range
<1>3. books' \in Books
  BY <1>2 DEF BeginBlocker, Books
<1>4. toRefund' \in SUBSET LimitOrder
  BY <1>2 DEF BeginBlocker, ExpiredOrders
<1>5. TypeOK'
  BY <1>1, <1>3, <1>4 DEF Settled, TypeOK, BeginBlocker, local
<1> QED
  BY <1>1, <1>5 DEF Settled, TxChecked, Covered, NoLateFailure

(* A refund only adds coins.                                               *)
LEMMA SettledRefund ==
  ASSUME Settled, NEW o \in toRefund, refundOrder(o)
  PROVE  Settled'
<1>1. ~InTx /\ ~InTx' /\ err' = err
  BY DEF refundOrder, InTx
<1>2. o \in LimitOrder
  BY DEF Settled, TypeOK
<1>3. /\ o.sender \in Accounts /\ LockedDenom(o) \in Denoms
      /\ Locked(o, o.amount) \in Nat
  BY <1>2 DEF LimitOrder, LockedDenom, Locked, TotalPrice
<1>4. coins \in Ledger
  BY DEF Settled, TypeOK
<1>5. Refund(o).coins \in Ledger
  BY <1>3, <1>4, AddCoinsEffect DEF Refund
<1>6. TypeOK'
  BY <1>1, <1>5 DEF Settled, TypeOK, refundOrder, clock, local
<1> QED
  BY <1>1, <1>6 DEF Settled, TxChecked, Covered, NoLateFailure

(* Every step of the exchange preserves the inductive invariant.           *)
LEMMA SettledNext == Settled /\ [Next]_vars => Settled'
<1> SUFFICES ASSUME Settled, [Next]_vars PROVE Settled'
  OBVIOUS
<1>1. ASSUME NEW m \in Msgs, processLimitOrder(m) PROVE Settled'
  BY <1>1, SettledProcess
<1>2. CASE fillStoredOrder
  BY <1>2, SettledFill
<1>3. CASE fillEnd
  BY <1>3, SettledFillEnd
<1>4. CASE storeUnfilledLimitOrder
  BY <1>4, SettledStore
<1>5. CASE outOfGas
  <2>1. InTx /\ Rollback /\ UNCHANGED <<clock, toRefund>> /\ err' = err
    BY <1>5 DEF outOfGas
  <2>2. err' \in BOOLEAN /\ ~err'
    BY <2>1 DEF Settled, TypeOK, NoLateFailure
  <2> QED
    BY <2>1, <2>2, RollbackSettled
<1>6. CASE BeginBlocker
  BY <1>6, SettledBeginBlocker
<1>7. ASSUME NEW o \in toRefund, refundOrder(o) PROVE Settled'
  BY <1>7, SettledRefund
<1>8. CASE Tick
  <2>1. now' \in Nat
    BY <1>8 DEF Tick, Settled, TypeOK
  <2> QED
    BY <1>8, <2>1 DEF Tick, Settled, TypeOK, TxChecked, Covered, NoLateFailure, InTx, store, local
<1>9. CASE UNCHANGED vars
  BY <1>9 DEF vars, store, clock, local, Settled, TypeOK, TxChecked, Covered, NoLateFailure, InTx
<1> QED
  BY <1>1, <1>2, <1>3, <1>4, <1>5, <1>6, <1>7, <1>8, <1>9 DEF Next

(* The inductive invariant holds in every reachable state of the exchange. *)
THEOREM SettledAlways == Spec => []Settled
BY SettledInit, SettledNext, PTL DEF Spec

(* The variables of the keeper keep their types: in particular no balance  *)
(* is ever negative, in any transaction, fill, refund or rollback.         *)
THEOREM TypeCorrect == Spec => []TypeOK
<1>1. Settled => TypeOK
  BY DEF Settled
<1> QED
  BY <1>1, SettledAlways, PTL

(* Whatever orders a transaction is matched with, at every step of it the  *)
(* sender can pay for the unfilled rest.                                   *)
THEOREM AlwaysCovered == Spec => []Covered
<1>1. Settled => Covered
  BY DEF Settled
<1> QED
  BY <1>1, SettledAlways, PTL

(* A transaction that passed the checks of processLimitOrder never fails   *)
(* in fillOrderIfPossible or storeUnfilledLimitOrder for want of coins.    *)
THEOREM NeverFailsLate == Spec => []NoLateFailure
<1>1. Settled => NoLateFailure
  BY DEF Settled
<1> QED
  BY <1>1, SettledAlways, PTL

-----------------------------------------------------------------------------
(* The order books.                                                        *)

(***************************************************************************)
(* None of the properties of the books is inductive alone: a book stays    *)
(* sorted because the IDs of its orders are old ones, no two orders cross  *)
(* because the loop consumes the matching book by rank before anything is  *)
(* stored, and for rollbacks all of it must hold of the saved state too.   *)
(***************************************************************************)

(* The direction of a pair that ValidateBasic accepts.                     *)
Directed(d, e) ==
  /\ d # e
  /\ d # RUNE
  /\ e = RUNE \/ ~(DenomRank[d] < DenomRank[e])

(* What holds of an order in the book of key k when n is the next ID and   *)
(* expired orders were last removed at time t.                             *)
StoredIn(o, k, n, t) ==
  /\ KeyOf(o) = k
  /\ Directed(o.amountDenom, o.priceDenom)
  /\ o.amount > 0
  /\ o.orderID < n
  /\ o.expiresAt >= t

OrdersOf(b) == UNION {Range(b[k]) : k \in BookKeys}

SingleIDs(set) == \A o, p \in set : o.orderID = p.orderID => o = p

(* Buy orders of a pair are priced below its sell orders.                  *)
Apart(set) ==
  \A o, p \in set :
    o.kind = "buy" /\ KeyOf(p) = MatchingKey(o) => o.price < p.price

WellKept(b, n, t) ==
  /\ \A k \in BookKeys :
       Ranked(b[k]) /\ \A o \in Range(b[k]) : StoredIn(o, k, n, t)
  /\ SingleIDs(OrdersOf(b))
  /\ Apart(OrdersOf(b))

(* o is p, perhaps with a smaller amount.                                  *)
Shrunk(o, p) == o.amount <= p.amount /\ o = [p EXCEPT !.amount = o.amount]

ShrunkFrom(b, c) ==
  \A k \in BookKeys : \A o \in Range(b[k]) : \E p \in Range(c[k]) : Shrunk(o, p)

(* The loop has used up the orders of the book before i, but for the last  *)
(* of them perhaps, and has not touched the others.                        *)
Consumed(book) ==
  /\ Len(orderBook) = Len(book)
  /\ \A j \in 1..Len(book) :
       /\ Shrunk(orderBook[j], book[j])
       /\ j >= i => orderBook[j] = book[j]
       /\ j < i => orderBook[j].amount = 0 \/ (j = i - 1 /\ unfilled = 0)

TxKept ==
  InTx => /\ Directed(tx.amountDenom, tx.priceDenom)
          /\ tx.expiresAt >= blockTime
          /\ WellKept(saved.books, nextOrderID, blockTime)
          /\ saved.nextOrderID = nextOrderID
          /\ ShrunkFrom(books, saved.books)

FillKept ==
  pc = "fill" => books = saved.books /\ Consumed(books[MatchingKey(tx)])

(* Nothing in the matching book crosses what is left to be stored.         *)
StoreKept ==
  pc = "store" /\ unfilled # 0 =>
    \A o \in Range(books[MatchingKey(tx)]) : ~Crosses(o, tx.kind, tx.price)

RefundKept ==
  /\ pc # "refund" => toRefund = {}
  /\ \A o \in toRefund : o.orderID < nextOrderID
  /\ SingleIDs(OrdersOf(books) \cup toRefund)

BooksKept ==
  /\ Settled
  /\ blockTime <= now
  /\ WellKept(books, nextOrderID, blockTime)
  /\ TxKept
  /\ FillKept
  /\ StoreKept
  /\ RefundKept

-----------------------------------------------------------------------------
(* Orders and books, whatever the state.                                   *)

LEMMA RangeOfOrders ==
  ASSUME NEW s \in Seq(LimitOrder)
  PROVE  /\ Len(s) \in Nat
         /\ Range(s) = {s[j] : j \in 1..Len(s)}
         /\ Range(s) \subseteq LimitOrder
<1>1. Len(s) \in Nat /\ DOMAIN s = 1..Len(s)
  BY LenProperties
<1>2. \A j \in 1..Len(s) : s[j] \in LimitOrder
  BY ElementOfSeq
<1> QED
  BY <1>1, <1>2 DEF Range

LEMMA OrdersOfBooks ==
  ASSUME NEW b \in Books
  PROVE  OrdersOf(b) \subseteq LimitOrder
<1>1. \A k \in BookKeys : Range(b[k]) \subseteq LimitOrder
  BY RangeOfOrders DEF Books
<1> QED
  BY <1>1 DEF OrdersOf

(* An order does not outrank itself, so a sorted book lists it once.       *)
LEMMA RankedOnce ==
  ASSUME NEW s \in Seq(LimitOrder), Ranked(s),
         NEW j \in 1..Len(s), NEW k \in 1..Len(s), s[j] = s[k]
  PROVE  j = k
<1>1. s[j] \in LimitOrder /\ Len(s) \in Nat
  BY ElementOfSeq, LenProperties
<1>2. ~Outranks(s[j], s[j])
  <2>1. s[j].price \in Nat /\ s[j].orderID \in Nat
    BY <1>1 DEF LimitOrder
  <2> QED
    BY <2>1 DEF Outranks
<1>3. ~(j < k) /\ ~(k < j)
  BY <1>2 DEF Ranked
<1> QED
  BY <1>1, <1>3

(* In a sorted book of one kind, an order after one that does not fill an  *)
(* order does not fill it either: the loop may break.                      *)
LEMMA RestDoesNotCross ==
  ASSUME NEW s \in Seq(LimitOrder), Ranked(s), NEW kind \in Kinds, NEW price \in Nat,
         \A j \in 1..Len(s) : s[j].kind = MatchingKind(kind),
         NEW j \in 1..Len(s), ~Crosses(s[j], kind, price),
         NEW k \in 1..Len(s), j <= k
  PROVE  ~Crosses(s[k], kind, price)
<1>1. s[j] \in LimitOrder /\ s[k] \in LimitOrder /\ Len(s) \in Nat
  BY ElementOfSeq, LenProperties
<1>2. CASE j = k
  BY <1>2
<1>3. CASE j # k
  <2>1. Outranks(s[j], s[k])
    BY <1>1, <1>3 DEF Ranked
  <2>2. s[j].price \in Nat /\ s[k].price \in Nat
    BY <1>1 DEF LimitOrder
  <2>3. CASE kind = "buy"
    <3>1. s[j].kind = "sell"
      BY <2>3 DEF MatchingKind
    <3> QED
      BY <2>1, <2>2, <2>3, <3>1 DEF Outranks, Crosses
  <2>4. CASE kind = "sell"
    <3>1. s[j].kind = "buy"
      BY <2>4 DEF MatchingKind
    <3> QED
      BY <2>1, <2>2, <2>4, <3>1 DEF Outranks, Crosses
  <2> QED
    BY <2>3, <2>4 DEF Kinds
<1> QED
  BY <1>2, <1>3

(* Shrinking changes nothing but the amount.                               *)
LEMMA ShrunkFields ==
  ASSUME NEW o \in LimitOrder, NEW p \in LimitOrder, Shrunk(o, p)
  PROVE  /\ o.orderID = p.orderID /\ o.sender = p.sender /\ o.kind = p.kind
         /\ o.amountDenom = p.amountDenom /\ o.priceDenom = p.priceDenom
         /\ o.price = p.price /\ o.expiresAt = p.expiresAt
         /\ o.amount <= p.amount
         /\ KeyOf(o) = KeyOf(p) /\ MatchingKey(o) = MatchingKey(p)
         /\ LockedDenom(o) = LockedDenom(p)
BY DEF Shrunk, LimitOrder, KeyOf, MatchingKey, LockedDenom

LEMMA ShrunkReflexive ==
  ASSUME NEW b \in Books
  PROVE  ShrunkFrom(b, b)
<1>1. \A o \in LimitOrder : Shrunk(o, o)
  BY DEF Shrunk, LimitOrder
<1> QED
  BY <1>1, RangeOfOrders DEF ShrunkFrom, Books

(* Books whose orders are those of well kept books, some of them shrunk,   *)
(* some of them gone, are well kept.                                       *)
LEMMA ShrunkBooks ==
  ASSUME NEW b \in Books, NEW c \in Books, NEW n \in Nat, NEW t \in Nat, NEW u \in Nat,
         WellKept(c, n, t), ShrunkFrom(b, c),
         \A k \in BookKeys :
           /\ Ranked(b[k])
           /\ SingleIDs(Range(b[k]))
           /\ \A o \in Range(b[k]) : o.amount > 0 /\ o.expiresAt >= u
  PROVE  WellKept(b, n, u)
<1>1. ASSUME NEW k \in BookKeys, NEW o \in Range(b[k])
      PROVE  \E p \in Range(c[k]) :
               /\ o \in LimitOrder /\ p \in LimitOrder /\ Shrunk(o, p)
               /\ StoredIn(p, k, n, t) /\ p \in OrdersOf(c)
  <2>1. PICK p \in Range(c[k]) : Shrunk(o, p)
    BY DEF ShrunkFrom
  <2>2. o \in LimitOrder /\ p \in LimitOrder
    BY RangeOfOrders DEF Books
  <2>3. StoredIn(p, k, n, t) /\ p \in OrdersOf(c)
    BY DEF WellKept, OrdersOf
  <2> QED
    BY <2>1, <2>2, <2>3
<1>2. ASSUME NEW k \in BookKeys, NEW o \in Range(b[k])
      PROVE  StoredIn(o, k, n, u)
  <2>1. PICK p \in Range(c[k]) :
               /\ o \in LimitOrder /\ p \in LimitOrder /\ Shrunk(o, p)
               /\ StoredIn(p, k, n, t) /\ p \in OrdersOf(c)
    BY <1>1
  <2> QED
    BY <2>1, ShrunkFields DEF StoredIn
<1>3. SingleIDs(OrdersOf(b))
  <2> SUFFICES ASSUME NEW k \in BookKeys, NEW o \in Range(b[k]),
                      NEW l \in BookKeys, NEW p \in Range(b[l]), o.orderID = p.orderID
               PROVE  o = p
    BY DEF SingleIDs, OrdersOf
  <2>1. PICK q \in Range(c[k]) :
               /\ o \in LimitOrder /\ q \in LimitOrder /\ Shrunk(o, q)
               /\ StoredIn(q, k, n, t) /\ q \in OrdersOf(c)
    BY <1>1
  <2>2. PICK r \in Range(c[l]) :
               /\ p \in LimitOrder /\ r \in LimitOrder /\ Shrunk(p, r)
               /\ StoredIn(r, l, n, t) /\ r \in OrdersOf(c)
    BY <1>1
  <2>3. q.orderID = r.orderID
    BY <2>1, <2>2, ShrunkFields
  <2>4. q = r
    BY <2>1, <2>2, <2>3 DEF WellKept, SingleIDs
  <2>5. k = l
    BY <2>1, <2>2, <2>4 DEF StoredIn
  <2> QED
    BY <2>5 DEF SingleIDs
<1>4. Apart(OrdersOf(b))
  <2> SUFFICES ASSUME NEW k \in BookKeys, NEW o \in Range(b[k]),
                      NEW l \in BookKeys, NEW p \in Range(b[l]),
                      o.kind = "buy", KeyOf(p) = MatchingKey(o)
               PROVE  o.price < p.price
    BY DEF Apart, OrdersOf
  <2>1. PICK q \in Range(c[k]) :
               /\ o \in LimitOrder /\ q \in LimitOrder /\ Shrunk(o, q)
               /\ StoredIn(q, k, n, t) /\ q \in OrdersOf(c)
    BY <1>1
  <2>2. PICK r \in Range(c[l]) :
               /\ p \in LimitOrder /\ r \in LimitOrder /\ Shrunk(p, r)
               /\ StoredIn(r, l, n, t) /\ r \in OrdersOf(c)
    BY <1>1
  <2>3. /\ q.kind = "buy" /\ q.price = o.price /\ r.price = p.price
        /\ KeyOf(r) = MatchingKey(q)
    <3>1. q.kind = o.kind /\ q.price = o.price /\ MatchingKey(q) = MatchingKey(o)
      BY <2>1, ShrunkFields
    <3>2. r.price = p.price /\ KeyOf(r) = KeyOf(p)
      BY <2>2, ShrunkFields
    <3> QED
      BY <3>1, <3>2
  <2>4. q.price < r.price
    BY <2>1, <2>2, <2>3 DEF WellKept, Apart
  <2> QED
    BY <2>3, <2>4
<1> QED
  BY <1>2, <1>3, <1>4 DEF WellKept

(* The keys of the two books of a pair.                                    *)
LEMMA MatchingKeys ==
  ASSUME NEW o \in LimitOrder
  PROVE  /\ KeyOf(o) \in BookKeys /\ MatchingKey(o) \in BookKeys
         /\ MatchingKey(o) # KeyOf(o)
         /\ \A p \in LimitOrder : KeyOf(p) = MatchingKey(o) => KeyOf(o) = MatchingKey(p)
BY DEF LimitOrder, KeyOf, MatchingKey, MatchingKind, BookKeys, Kinds

(* Adding a new order that nothing in the matching book crosses.           *)
LEMMA AddToBooks ==
  ASSUME NEW b \in Books, NEW n \in Nat, NEW t \in Nat, WellKept(b, n, t),
         NEW o \in LimitOrder, o.orderID = n, o.amount > 0, o.expiresAt >= t,
         Directed(o.amountDenom, o.priceDenom),
         \A p \in Range(b[MatchingKey(o)]) : ~Crosses(p, o.kind, o.price)
  PROVE  WellKept([b EXCEPT ![KeyOf(o)] = AddLimitOrder(@, o)], n + 1, t)
<1> DEFINE K == KeyOf(o)
           s == b[K]
           r == AddLimitOrder(s, o)
           c == [b EXCEPT ![K] = r]
<1>1. K \in BookKeys /\ MatchingKey(o) \in BookKeys
  BY MatchingKeys
<1>2. s \in Seq(LimitOrder)
  BY <1>1 DEF Books
<1>3. r \in Seq(LimitOrder) /\ Range(r) = Range(s) \cup {o}
  BY <1>2, AddLimitOrderElements
<1>4. \A k \in BookKeys : \A p \in Range(b[k]) :
        StoredIn(p, k, n, t) /\ p \in LimitOrder /\ p \in OrdersOf(b)
  BY RangeOfOrders DEF WellKept, Books, OrdersOf
<1>5. Ranked(r)
  <2>1. \A j \in 1..Len(s) : s[j].kind = o.kind /\ s[j].orderID < o.orderID
    <3>1. \A j \in 1..Len(s) : s[j] \in Range(s)
      BY <1>2, RangeOfOrders
    <3>2. \A p \in Range(s) : p.kind = o.kind /\ p.orderID < o.orderID
      BY <1>1, <1>4 DEF StoredIn, KeyOf
    <3> QED
      BY <3>1, <3>2
  <2>2. Ranked(s)
    BY <1>1 DEF WellKept
  <2> QED
    BY <1>2, <2>1, <2>2, AddLimitOrderRanked
<1> HIDE DEF r
<1>6. c[K] = r /\ \A k \in BookKeys \ {K} : c[k] = b[k]
  BY <1>1 DEF Books
<1>7. \A k \in BookKeys : \A p \in Range(c[k]) :
        (p = o /\ k = K) \/ p \in Range(b[k])
  BY <1>3, <1>6
<1> HIDE DEF c
<1>8. ASSUME NEW k \in BookKeys
      PROVE  Ranked(c[k]) /\ \A p \in Range(c[k]) : StoredIn(p, k, n + 1, t)
  <2>1. Ranked(c[k])
    BY <1>5, <1>6 DEF WellKept
  <2>2. StoredIn(o, K, n + 1, t)
    BY DEF StoredIn
  <2>3. \A p \in Range(b[k]) : StoredIn(p, k, n + 1, t)
    BY <1>4 DEF StoredIn, LimitOrder
  <2> QED
    BY <1>7, <2>1, <2>2, <2>3
<1>9. OrdersOf(c) \subseteq OrdersOf(b) \cup {o}
  BY <1>7 DEF OrdersOf
<1>10. \A p \in OrdersOf(b) : p \in LimitOrder /\ p.orderID < n
  BY <1>4 DEF OrdersOf, StoredIn
<1>11. SingleIDs(OrdersOf(c))
  <2>1. SingleIDs(OrdersOf(b))
    BY DEF WellKept
  <2>2. \A p \in OrdersOf(b) : p.orderID # o.orderID
    BY <1>10 DEF LimitOrder
  <2> QED
    BY <1>9, <2>1, <2>2 DEF SingleIDs
<1>12. Apart(OrdersOf(c))
  <2>1. Apart(OrdersOf(b))
    BY DEF WellKept
  <2>2. \A p \in OrdersOf(b) : KeyOf(p) = MatchingKey(o) => ~Crosses(p, o.kind, o.price)
    BY <1>4 DEF OrdersOf, StoredIn
  <2>3. ASSUME NEW p \in OrdersOf(b), o.kind = "buy", KeyOf(p) = MatchingKey(o)
        PROVE  o.price < p.price
    BY <1>10, <2>2, <2>3 DEF Crosses, LimitOrder
  <2>4. ASSUME NEW p \in OrdersOf(b), p.kind = "buy", KeyOf(o) = MatchingKey(p)
        PROVE  p.price < o.price
    <3>1. KeyOf(p) = MatchingKey(o) /\ o.kind = "sell"
      BY <1>10, <2>4 DEF KeyOf, MatchingKey, MatchingKind
    <3> QED
      BY <1>10, <2>2, <3>1 DEF Crosses, LimitOrder
  <2>5. KeyOf(o) # MatchingKey(o)
    BY MatchingKeys
  <2> QED
    BY <1>9, <2>1, <2>3, <2>4, <2>5 DEF Apart
<1>13. WellKept(c, n + 1, t)
  BY <1>8, <1>11, <1>12 DEF WellKept
<1> QED
  BY <1>13 DEF c, r

(* In well kept books no two orders could trade with each other.           *)
LEMMA KeptNotCrossed ==
  ASSUME NEW b \in Books, NEW n \in Nat, NEW t \in Nat, WellKept(b, n, t),
         NEW o \in OrdersOf(b), NEW p \in OrdersOf(b),
         Gives(o) = Wants(p), Wants(o) = Gives(p)
  PROVE  Ask(o) * Ask(p) > Bid(o) * Bid(p)
<1>1. o \in LimitOrder /\ p \in LimitOrder
  BY OrdersOfBooks
<1>2. Directed(o.amountDenom, o.priceDenom) /\ Directed(p.amountDenom, p.priceDenom)
  BY DEF WellKept, OrdersOf, StoredIn
<1>3. Apart(OrdersOf(b))
  BY DEF WellKept
<1>4. o.kind # p.kind
  <2> SUFFICES ASSUME o.kind = p.kind PROVE FALSE
    OBVIOUS
  <2>1. o.amountDenom = p.priceDenom /\ o.priceDenom = p.amountDenom
    BY <1>1 DEF Gives, Wants, LimitOrder, Kinds
  <2>2. o.amountDenom \in Denoms /\ o.priceDenom \in Denoms
    BY <1>1 DEF LimitOrder
  <2>3. DenomRank[o.amountDenom] = DenomRank[o.priceDenom]
    BY <1>2, <2>1, <2>2, ConstantsAssumption DEF Directed
  <2> QED
    BY <1>2, <2>2, <2>3, ConstantsAssumption DEF Directed
<1>5. o.amountDenom = p.amountDenom /\ o.priceDenom = p.priceDenom
  BY <1>1, <1>4 DEF Gives, Wants, LimitOrder, Kinds
<1>6. o.price \in Nat /\ p.price \in Nat /\ o.kind \in Kinds /\ p.kind \in Kinds
  BY <1>1 DEF LimitOrder
<1>7. CASE o.kind = "buy"
  <2>1. p.kind = "sell"
    BY <1>4, <1>6, <1>7 DEF Kinds
  <2>2. KeyOf(p) = MatchingKey(o)
    BY <1>5, <1>7, <2>1 DEF KeyOf, MatchingKey, MatchingKind
  <2>3. o.price < p.price
    BY <1>3, <1>7, <2>2 DEF Apart
  <2> QED
    BY <1>6, <1>7, <2>1, <2>3 DEF Ask, Bid
<1>8. CASE o.kind # "buy"
  <2>1. p.kind = "buy" /\ o.kind = "sell"
    BY <1>4, <1>6, <1>8 DEF Kinds
  <2>2. KeyOf(o) = MatchingKey(p)
    BY <1>5, <2>1 DEF KeyOf, MatchingKey, MatchingKind
  <2>3. p.price < o.price
    BY <1>3, <2>1, <2>2 DEF Apart
  <2> QED
    BY <1>6, <2>1, <2>3 DEF Ask, Bid
<1> QED
  BY <1>7, <1>8

-----------------------------------------------------------------------------
(* Every step of the exchange keeps the books.                             *)

LEMMA KeptTypes ==
  ASSUME BooksKept
  PROVE  /\ books \in Books /\ nextOrderID \in Nat /\ blockTime \in Nat /\ now \in Nat
         /\ orderBook \in Seq(LimitOrder) /\ unfilled \in Nat /\ i \in Nat \ {0}
         /\ toRefund \subseteq LimitOrder
         /\ InTx => saved.books \in Books
BY TxTypes DEF BooksKept, Settled, TypeOK

LEMMA KeptInit == Init => BooksKept
<1> SUFFICES ASSUME Init PROVE BooksKept
  OBVIOUS
<1>1. Settled /\ ~InTx /\ pc = "idle" /\ toRefund = {} /\ blockTime = now /\ now \in Nat
  BY SettledInit DEF Init, InTx
<1>2. \A k \in BookKeys : books[k] = <<>>
  BY DEF Init
<1>3. Len(<<>>) = 0 /\ Range(<<>>) = {}
  BY DEF Range
<1>4. OrdersOf(books) = {}
  BY <1>2, <1>3 DEF OrdersOf
<1>5. WellKept(books, nextOrderID, blockTime)
  BY <1>2, <1>3, <1>4 DEF WellKept, Ranked, SingleIDs, Apart
<1> QED
  BY <1>1, <1>4, <1>5 DEF BooksKept, TxKept, FillKept, StoreKept, RefundKept, SingleIDs

(* A message that passed the checks finds well kept books and saves them.  *)
LEMMA KeptProcess ==
  ASSUME BooksKept, NEW m \in Msgs, processLimitOrder(m)
  PROVE  BooksKept'
<1>1. /\ pc = "idle" /\ pc' = "fill" /\ tx' = m /\ i' = 1
      /\ orderBook' = books[MatchingKey(m)]
      /\ saved'.books = books /\ saved'.nextOrderID = nextOrderID
      /\ books' = books /\ nextOrderID' = nextOrderID /\ blockTime' = blockTime
      /\ now' = now /\ toRefund' = toRefund /\ unfilled' = m.amount
  BY DEF processLimitOrder, getOrderBook, store, clock
<1>2. Settled'
  BY SettledProcess DEF BooksKept
<1>3. books \in Books /\ blockTime \in Nat /\ now \in Nat /\ blockTime <= now
  BY KeptTypes DEF BooksKept
<1>4. Directed(m.amountDenom, m.priceDenom) /\ m.expiresAt >= blockTime
  <2>1. m.expiresAt \in Nat /\ ~(m.expiresAt < now)
    BY ConstantsAssumption DEF processLimitOrder, ValidateBasic, Expired, Msgs
  <2>2. Directed(m.amountDenom, m.priceDenom)
    BY DEF processLimitOrder, ValidateBasic, Directed
  <2> QED
    BY <1>3, <2>1, <2>2
<1>5. TxKept'
  BY <1>1, <1>3, <1>4, ShrunkReflexive DEF TxKept, BooksKept
<1>6. FillKept'
  <2> DEFINE s == books[MatchingKey(m)]
  <2>1. MatchingKey(m) \in BookKeys
    <3>1. InTx'
      BY <1>1 DEF InTx
    <3> QED
      BY <1>1, <1>2, <3>1 DEF Settled, TypeOK, TxChecked, Msgs, MatchingKey, MatchingKind, BookKeys, Kinds
  <2>2. s \in Seq(LimitOrder)
    BY <1>3, <2>1 DEF Books
  <2>3. \A j \in 1..Len(s) : s[j] \in LimitOrder /\ Shrunk(s[j], s[j]) /\ j \in Int /\ ~(j < 1)
    <3> HIDE DEF s
    <3>1. \A j \in 1..Len(s) : s[j] \in LimitOrder
      BY <2>2, ElementOfSeq
    <3>2. \A o \in LimitOrder : Shrunk(o, o)
      BY DEF Shrunk, LimitOrder
    <3>3. Len(s) \in Nat
      BY <2>2, LenProperties
    <3> QED
      BY <3>1, <3>2, <3>3
  <2>4. orderBook' = s /\ books'[MatchingKey(tx')] = s
    BY <1>1
  <2> HIDE DEF s
  <2>5. Consumed(books[MatchingKey(tx)])'
    BY <1>1, <2>3, <2>4 DEF Consumed
  <2> QED
    BY <1>1, <2>5 DEF FillKept
<1>7. StoreKept'
  BY <1>1 DEF StoreKept
<1>8. RefundKept'
  BY <1>1 DEF BooksKept, RefundKept
<1> QED
  BY <1>1, <1>2, <1>3, <1>5, <1>6, <1>7, <1>8 DEF BooksKept

(* What an iteration of the loop that does not fail changes.               *)
LEMMA FillStep ==
  ASSUME Settled, fillStoredOrder
  PROVE  /\ pc = "fill" /\ LoopGoesOn /\ InTx /\ pc' = pc /\ tx' = tx
         /\ unfilled' = unfilled - Fill.amount
         /\ coins' = Settlement.coins
         /\ i' = i + 1 /\ i \in 1..Len(orderBook)
         /\ orderBook \in Seq(LimitOrder)
         /\ Len(orderBook') = Len(orderBook)
         /\ \A j \in 1..Len(orderBook) : j # i => orderBook'[j] = orderBook[j]
         /\ orderBook'[i] = [orderBook[i] EXCEPT !.amount = @ - Fill.amount]
         /\ orderBook'[i] \in LimitOrder
         /\ books' = books /\ nextOrderID' = nextOrderID /\ now' = now
         /\ blockTime' = blockTime /\ toRefund' = toRefund /\ saved' = saved
<1>1. pc = "fill" /\ LoopGoesOn /\ InTx
  BY DEF fillStoredOrder, InTx
<1>2. ~Settlement.err
  BY <1>1, SettlementCovered
<1>3. /\ coins' = Settlement.coins
      /\ unfilled' = unfilled - Fill.amount
      /\ orderBook' = [orderBook EXCEPT ![i].amount = @ - Fill.amount]
      /\ i' = i + 1
      /\ books' = books /\ nextOrderID' = nextOrderID /\ now' = now
      /\ blockTime' = blockTime /\ pc' = pc /\ tx' = tx
      /\ toRefund' = toRefund /\ saved' = saved
  BY <1>2 DEF fillStoredOrder, clock
<1>4. /\ i \in 1..Len(orderBook) /\ orderBook[i] \in LimitOrder
      /\ Fill.amount \in Nat /\ Fill.amount <= orderBook[i].amount
      /\ orderBook \in Seq(LimitOrder)
  BY <1>1, FillTypes DEF Settled, TypeOK
<1> DEFINE o == [orderBook[i] EXCEPT !.amount = @ - Fill.amount]
<1>5. o \in LimitOrder
  <2> DEFINE y == Fill.amount
  <2>0. y \in Nat /\ orderBook[i].amount \in Nat /\ y <= orderBook[i].amount
    BY <1>4 DEF LimitOrder
  <2> HIDE DEF y
  <2>1. orderBook[i].amount - Fill.amount \in Nat
    BY <2>0 DEF y
  <2> DEFINE x == orderBook[i].amount - Fill.amount
             p == orderBook[i]
  <2>2. o = [p EXCEPT !.amount = x]
    OBVIOUS
  <2> HIDE DEF x, p, o
  <2>3. p \in LimitOrder /\ x \in Nat
    BY <1>4, <2>1 DEF p, x
  <2> QED
    BY <2>2, <2>3 DEF LimitOrder
<1>6. orderBook' = [orderBook EXCEPT ![i] = o]
  BY <1>3
<1> HIDE DEF o
<1>7. /\ Len(orderBook') = Len(orderBook)
      /\ \A j \in 1..Len(orderBook) : orderBook'[j] = IF j = i THEN o ELSE orderBook[j]
  BY <1>4, <1>5, <1>6, ExceptSeq
<1> QED
  BY <1>1, <1>3, <1>4, <1>5, <1>7 DEF o

(* An iteration either uses up the order it fills or is the last one.      *)
LEMMA KeptFill ==
  ASSUME BooksKept, fillStoredOrder
  PROVE  BooksKept'
<1>1. /\ pc = "fill" /\ LoopGoesOn /\ InTx /\ pc' = pc /\ tx' = tx
      /\ unfilled' = unfilled - Fill.amount
      /\ i' = i + 1 /\ i \in 1..Len(orderBook)
      /\ orderBook \in Seq(LimitOrder)
      /\ Len(orderBook') = Len(orderBook)
      /\ \A j \in 1..Len(orderBook) : j # i => orderBook'[j] = orderBook[j]
      /\ orderBook'[i] = [orderBook[i] EXCEPT !.amount = @ - Fill.amount]
      /\ orderBook'[i] \in LimitOrder
      /\ books' = books /\ nextOrderID' = nextOrderID /\ now' = now
      /\ blockTime' = blockTime /\ toRefund' = toRefund /\ saved' = saved
  BY FillStep DEF BooksKept
<1>2. Settled' /\ InTx'
  BY <1>1, SettledFill DEF BooksKept, InTx
<1> DEFINE book == books[MatchingKey(tx)]
           f == Fill.amount
<1>3. Consumed(book) /\ books = saved.books
  BY <1>1 DEF BooksKept, FillKept
<1>4. /\ f \in Nat /\ f <= unfilled /\ f <= orderBook[i].amount
      /\ orderBook[i] \in LimitOrder /\ unfilled \in Nat /\ unfilled # 0
  BY <1>1, FillTypes DEF BooksKept, Settled, TypeOK, LoopGoesOn
<1>5. f = orderBook[i].amount \/ f = unfilled
  BY DEF Fill, DoesFill, FillAmount
<1> HIDE DEF f, book
<1>6. orderBook[i].amount \in Nat /\ orderBook'[i].amount = orderBook[i].amount - f
  BY <1>1, <1>4 DEF LimitOrder, f
<1>7. Shrunk(orderBook'[i], orderBook[i])
  <2>1. orderBook'[i] = [orderBook[i] EXCEPT !.amount = orderBook[i].amount - f]
    BY <1>1 DEF f
  <2> QED
    BY <1>4, <1>6, <2>1 DEF Shrunk
<1>8. Consumed(book)'
  <2>1. Len(orderBook) \in Nat /\ Len(orderBook) = Len(book) /\ book' = book
    BY <1>1, <1>3, LenProperties DEF Consumed, book
  <2>2. orderBook[i] = book[i]
    BY <1>1, <1>3, <2>1 DEF Consumed
  <2>3. ASSUME NEW j \in 1..Len(book), j # i
        PROVE  /\ orderBook'[j] = orderBook[j] /\ Shrunk(orderBook[j], book[j])
               /\ j >= i + 1 => orderBook[j] = book[j]
               /\ j < i + 1 => orderBook[j].amount = 0
    BY <1>1, <1>3, <1>4, <2>1, <2>3 DEF Consumed
  <2>4. /\ Shrunk(orderBook'[i], book[i])
        /\ orderBook'[i].amount = 0 \/ unfilled' = 0
    BY <1>1, <1>4, <1>5, <1>6, <1>7, <2>2 DEF f
  <2>5. i \in Nat /\ i' = i + 1 /\ Len(book) \in Nat
    BY <1>1, <2>1
  <2>6. ASSUME NEW j \in 1..Len(book)
        PROVE  /\ Shrunk(orderBook'[j], book[j])
               /\ j >= i' => orderBook'[j] = book[j]
               /\ j < i' => orderBook'[j].amount = 0 \/ (j = i' - 1 /\ unfilled' = 0)
    <3>1. CASE j = i
      BY <2>4, <2>5, <3>1
    <3>2. CASE j # i
      BY <2>3, <2>5, <3>2
    <3> QED
      BY <3>1, <3>2
  <2>7. Len(orderBook') = Len(book)
    BY <1>1, <2>1
  <2> QED
    BY <2>1, <2>6, <2>7 DEF Consumed
<1>9. FillKept'
  BY <1>1, <1>3, <1>8 DEF FillKept, book
<1>10. TxKept' /\ StoreKept' /\ RefundKept'
  BY <1>1, <1>2 DEF BooksKept, TxKept, StoreKept, RefundKept
<1> QED
  BY <1>1, <1>2, <1>9, <1>10 DEF BooksKept

(* What is left of the matching book is sorted, and an order that is not   *)
(* used up can only cross the transaction if that is filled.               *)
LEMMA KeptFillEnd ==
  ASSUME BooksKept, fillEnd
  PROVE  BooksKept'
<1> DEFINE M == MatchingKey(tx)
           s == orderBook
           c == books[M]
           K == {j \in 1..Len(s) : s[j].amount # 0}
           r == RemoveFilledLimitOrders(s)
<1>1. pc = "fill" /\ InTx /\ ~err /\ Settled /\ Settled' /\ ~LoopGoesOn
  BY SettledFillEnd DEF fillEnd, InTx, BooksKept, Settled, NoLateFailure
<1>2. /\ books' = [books EXCEPT ![M] = r]
      /\ pc' = "store" /\ nextOrderID' = nextOrderID /\ tx' = tx
      /\ unfilled' = unfilled /\ saved' = saved /\ now' = now
      /\ blockTime' = blockTime /\ toRefund' = toRefund
  BY <1>1 DEF fillEnd, setOrderBook, clock
<1>3. /\ M \in BookKeys /\ books \in Books /\ s \in Seq(LimitOrder)
      /\ nextOrderID \in Nat /\ blockTime \in Nat /\ unfilled \in Nat
      /\ i \in Nat \ {0} /\ tx.kind \in Kinds /\ tx.price \in Nat
      /\ books' \in Books
  BY <1>1, KeptTypes, TxTypes DEF Settled, TypeOK
<1>4. c \in Seq(LimitOrder)
  BY <1>3 DEF Books
<1>5. Consumed(c) /\ books = saved.books
  BY <1>1 DEF BooksKept, FillKept
<1>6. /\ WellKept(books, nextOrderID, blockTime)
      /\ Ranked(c) /\ \A o \in Range(c) : StoredIn(o, M, nextOrderID, blockTime)
  BY <1>3 DEF BooksKept, WellKept
<1>7. r = Keep(s, K)
  BY DEF RemoveFilledLimitOrders
<1> HIDE DEF r, K, M, c
<1>8. /\ Len(s) \in Nat /\ Len(s) = Len(c)
      /\ \A j \in 1..Len(s) :
           /\ s[j] \in LimitOrder /\ c[j] \in LimitOrder /\ c[j] \in Range(c)
           /\ Shrunk(s[j], c[j])
  BY <1>3, <1>4, <1>5, ElementOfSeq, LenProperties, RangeOfOrders DEF Consumed
<1>9. K \in SUBSET (1..Len(s)) /\ \A j \in K : s[j].amount # 0
  BY DEF K
<1>10. Range(r) = {s[j] : j \in K}
  BY <1>3, <1>7, <1>9, KeepRange
<1>11. Ranked(s)
  <2> SUFFICES ASSUME NEW j \in 1..Len(s), NEW k \in 1..Len(s), j < k
               PROVE  Outranks(s[j], s[k])
    BY DEF Ranked
  <2>1. Outranks(c[j], c[k])
    BY <1>6, <1>8 DEF Ranked
  <2> QED
    BY <1>8, <2>1, ShrunkFields DEF Outranks
<1>12. Ranked(r)
  BY <1>3, <1>7, <1>9, <1>11, KeepRanked
<1>13. /\ books'[M] = r /\ \A k \in BookKeys \ {M} : books'[k] = books[k]
  BY <1>2, <1>3 DEF Books
<1>14. \A o \in Range(r) : \E p \in Range(c) : Shrunk(o, p)
  BY <1>8, <1>9, <1>10
<1>15. ShrunkFrom(books', books)
  <2>1. ASSUME NEW k \in BookKeys, NEW o \in Range(books'[k])
        PROVE  \E p \in Range(books[k]) : Shrunk(o, p)
    <3>1. CASE k = M
      BY <1>13, <1>14, <3>1 DEF c
    <3>2. CASE k # M
      BY <1>3, <1>13, <3>2, ShrunkReflexive DEF ShrunkFrom
    <3> QED
      BY <3>1, <3>2
  <2> QED
    BY <2>1 DEF ShrunkFrom
<1>16. SingleIDs(Range(r))
  <2> SUFFICES ASSUME NEW j \in K, NEW k \in K, s[j].orderID = s[k].orderID
               PROVE  s[j] = s[k]
    BY <1>10 DEF SingleIDs
  <2>1. c[j].orderID = c[k].orderID
    BY <1>8, <1>9, ShrunkFields
  <2>2. c[j] \in OrdersOf(books) /\ c[k] \in OrdersOf(books)
    BY <1>3, <1>8, <1>9 DEF OrdersOf, c
  <2>3. c[j] = c[k]
    BY <1>6, <2>1, <2>2 DEF WellKept, SingleIDs
  <2>4. j = k
    BY <1>4, <1>6, <1>8, <1>9, <2>3, RankedOnce
  <2> QED
    BY <2>4
<1>17. ASSUME NEW k \in BookKeys
       PROVE  /\ Ranked(books'[k]) /\ SingleIDs(Range(books'[k]))
              /\ \A o \in Range(books'[k]) : o.amount > 0 /\ o.expiresAt >= blockTime
  <2>1. CASE k = M
    <3>1. ASSUME NEW o \in Range(r) PROVE o.amount > 0 /\ o.expiresAt >= blockTime
      <4>1. PICK j \in K : o = s[j]
        BY <1>10
      <4>2. o.amount \in Nat /\ o.amount # 0 /\ o.expiresAt = c[j].expiresAt
        BY <1>8, <1>9, <4>1, ShrunkFields DEF LimitOrder
      <4>3. c[j].expiresAt >= blockTime
        BY <1>6, <1>8, <1>9 DEF StoredIn
      <4> QED
        BY <4>2, <4>3
    <3> QED
      BY <1>12, <1>13, <1>16, <2>1, <3>1
  <2>2. CASE k # M
    <3>1. books'[k] = books[k] /\ Range(books[k]) \subseteq OrdersOf(books)
      BY <1>13, <2>2 DEF OrdersOf
    <3> QED
      BY <1>6, <3>1 DEF WellKept, SingleIDs, StoredIn
  <2> QED
    BY <2>1, <2>2
<1>18. WellKept(books', nextOrderID, blockTime)
  BY <1>3, <1>6, <1>15, <1>17, ShrunkBooks
<1>19. TxKept'
  BY <1>1, <1>2, <1>5, <1>15 DEF BooksKept, TxKept
<1>20. FillKept'
  BY <1>2 DEF FillKept
<1>21. StoreKept'
  <2> SUFFICES ASSUME unfilled # 0, NEW o \in Range(r)
               PROVE  ~Crosses(o, tx.kind, tx.price)
    BY <1>2, <1>13 DEF StoreKept, M
  <2>1. PICK j \in K : o = s[j]
    BY <1>10
  <2>2. j >= i /\ s[j] = c[j] /\ j \in 1..Len(s)
    BY <1>3, <1>5, <1>8, <1>9 DEF Consumed
  <2>3. i \in 1..Len(s) /\ ~Crosses(s[i], tx.kind, tx.price)
    BY <1>1, <1>3, <1>8, <2>2 DEF LoopGoesOn, Fill, DoesFill
  <2>4. \A k \in 1..Len(s) : s[k].kind = MatchingKind(tx.kind)
    <3>1. ASSUME NEW k \in 1..Len(s) PROVE s[k].kind = MatchingKind(tx.kind)
      <4>1. s[k].kind = c[k].kind
        BY <1>8, ShrunkFields
      <4>2. KeyOf(c[k]) = M
        BY <1>6, <1>8 DEF StoredIn
      <4> QED
        BY <4>1, <4>2 DEF KeyOf, MatchingKey, M
    <3> QED
      BY <3>1
  <2> QED
    BY <1>3, <1>11, <2>1, <2>2, <2>3, <2>4, RestDoesNotCross
<1>22. RefundKept'
  <2>1. toRefund = {} /\ toRefund' = {}
    BY <1>1, <1>2 DEF BooksKept, RefundKept
  <2> QED
    BY <1>18, <2>1 DEF RefundKept, WellKept, SingleIDs
<1> QED
  BY <1>1, <1>2, <1>18, <1>19, <1>20, <1>21, <1>22 DEF BooksKept

(* A transaction that is rolled back leaves the books it found.            *)
LEMMA KeptRollback ==
  ASSUME BooksKept, outOfGas
  PROVE  BooksKept'
<1>1. InTx /\ Rollback /\ UNCHANGED <<clock, err, toRefund>> /\ Settled
  BY DEF outOfGas, BooksKept
<1>2. Settled'
  <2>1. err' \in BOOLEAN /\ ~err'
    BY <1>1 DEF Settled, TypeOK, NoLateFailure
  <2> QED
    BY <1>1, <2>1, RollbackSettled
<1>3. /\ books' = saved.books /\ nextOrderID' = nextOrderID /\ ~InTx' /\ pc' = "idle"
      /\ now' = now /\ blockTime' = blockTime /\ toRefund' = toRefund /\ toRefund = {}
  BY <1>1 DEF Rollback, Idle, clock, BooksKept, TxKept, RefundKept, InTx
<1>4. WellKept(books', nextOrderID', blockTime')
  BY <1>1, <1>3 DEF BooksKept, TxKept
<1> QED
  BY <1>2, <1>3, <1>4
  DEF BooksKept, TxKept, FillKept, StoreKept, RefundKept, WellKept, SingleIDs

(* What the last step of a transaction that does not fail changes.         *)
LEMMA StoreStep ==
  ASSUME Settled, storeUnfilledLimitOrder
  PROVE  /\ InTx /\ pc = "store" /\ ~InTx' /\ pc' = "idle"
         /\ nextOrderID' = nextOrderID + 1
         /\ UNCHANGED <<clock, toRefund>>
         /\ unfilled = 0 => books' = books /\ coins' = coins
         /\ unfilled # 0 =>
              /\ books' = [books EXCEPT ![KeyOf(tx)] = AddLimitOrder(@, NewLimitOrder)]
              /\ coins' = Lock.coins
<1>1. InTx /\ pc = "store"
  BY DEF storeUnfilledLimitOrder, InTx
<1>2. ~Lock.err
  BY <1>1, LockEffect
<1> QED
  BY <1>1, <1>2 DEF storeUnfilledLimitOrder, Idle, InTx, getNewOrderID, getOrderBook, setOrderBook

(* The rest of an order is stored only when nothing crosses it.            *)
LEMMA KeptStore ==
  ASSUME BooksKept, storeUnfilledLimitOrder
  PROVE  BooksKept'
<1>1. /\ InTx /\ pc = "store" /\ ~InTx' /\ pc' = "idle"
      /\ nextOrderID' = nextOrderID + 1
      /\ now' = now /\ blockTime' = blockTime /\ toRefund' = toRefund
      /\ unfilled = 0 => books' = books
      /\ unfilled # 0 =>
           books' = [books EXCEPT ![KeyOf(tx)] = AddLimitOrder(@, NewLimitOrder)]
  BY StoreStep DEF BooksKept, clock
<1>2. Settled /\ Settled' /\ WellKept(books, nextOrderID, blockTime)
  BY SettledStore DEF BooksKept
<1>3. /\ books \in Books /\ nextOrderID \in Nat /\ blockTime \in Nat /\ unfilled \in Nat
  BY KeptTypes
<1>4. WellKept(books', nextOrderID + 1, blockTime)
  <2>1. CASE unfilled = 0
    <3>1. \A k \in BookKeys : \A o \in Range(books[k]) : o \in LimitOrder
      BY <1>3, RangeOfOrders DEF Books
    <3>2. \A k \in BookKeys : \A o \in Range(books[k]) :
            StoredIn(o, k, nextOrderID + 1, blockTime)
      BY <1>2, <1>3, <3>1 DEF WellKept, StoredIn, LimitOrder
    <3> QED
      BY <1>1, <1>2, <2>1, <3>2 DEF WellKept
  <2>2. CASE unfilled # 0
    <3> DEFINE o == NewLimitOrder
    <3>1. /\ o \in LimitOrder /\ o.orderID = nextOrderID /\ o.amount = unfilled
          /\ o.expiresAt = tx.expiresAt /\ o.amountDenom = tx.amountDenom
          /\ o.priceDenom = tx.priceDenom /\ o.kind = tx.kind /\ o.price = tx.price
      BY <1>1, <1>2, NewOrderTypes DEF NewLimitOrder
    <3>2. KeyOf(o) = KeyOf(tx) /\ MatchingKey(o) = MatchingKey(tx)
      BY <3>1 DEF KeyOf, MatchingKey
    <3>3. Directed(o.amountDenom, o.priceDenom) /\ o.expiresAt >= blockTime
      BY <1>1, <3>1 DEF BooksKept, TxKept
    <3>4. \A p \in Range(books[MatchingKey(o)]) : ~Crosses(p, o.kind, o.price)
      BY <1>1, <2>2, <3>1, <3>2 DEF BooksKept, StoreKept
    <3>5. books' = [books EXCEPT ![KeyOf(o)] = AddLimitOrder(@, o)]
      BY <1>1, <2>2, <3>2
    <3>6. o.amount > 0
      BY <1>3, <2>2, <3>1
    <3> HIDE DEF o
    <3>7. WellKept([books EXCEPT ![KeyOf(o)] = AddLimitOrder(@, o)], nextOrderID + 1, blockTime)
      BY <1>2, <1>3, <3>1, <3>3, <3>4, <3>6, AddToBooks
    <3> QED
      BY <3>5, <3>7
  <2> QED
    BY <2>1, <2>2
<1>5. toRefund = {}
  BY <1>1 DEF BooksKept, RefundKept
<1> QED
  BY <1>1, <1>2, <1>4, <1>5
  DEF BooksKept, TxKept, FillKept, StoreKept, RefundKept, WellKept, SingleIDs

(* Expired orders leave the books; those that wait for their refund are    *)
(* none of those that stay.                                                *)
LEMMA KeptBeginBlocker ==
  ASSUME BooksKept, BeginBlocker
  PROVE  BooksKept'
<1>1. /\ pc = "idle" /\ ~InTx' /\ pc' \in {"idle", "refund"}
      /\ blockTime' = now /\ now' = now /\ nextOrderID' = nextOrderID
      /\ books' = [k \in BookKeys |-> RemoveExpired(books[k], now)]
      /\ toRefund' = ExpiredOrders(now)
      /\ pc' # "refund" => toRefund' = {}
  BY DEF BeginBlocker, InTx
<1>2. Settled' /\ WellKept(books, nextOrderID, blockTime)
  BY SettledBeginBlocker DEF BooksKept
<1>3. books \in Books /\ nextOrderID \in Nat /\ blockTime \in Nat /\ now \in Nat
  BY KeptTypes
<1>4. ASSUME NEW k \in BookKeys
      PROVE  /\ books'[k] \in Seq(LimitOrder)
             /\ Ranked(books'[k])
             /\ Range(books'[k]) = {o \in Range(books[k]) : ~Expired(o, now)}
  <2> DEFINE s == books[k]
             K == {j \in 1..Len(s) : ~Expired(s[j], now)}
  <2>1. s \in Seq(LimitOrder) /\ Ranked(s)
    BY <1>2, <1>3 DEF Books, WellKept
  <2>2. books'[k] = Keep(s, K)
    BY <1>1 DEF RemoveExpired
  <2>3. K \in SUBSET (1..Len(s))
    OBVIOUS
  <2>4. Range(s) = {s[j] : j \in 1..Len(s)}
    BY <2>1, RangeOfOrders
  <2>5. {s[j] : j \in K} = {o \in Range(s) : ~Expired(o, now)}
    BY <2>4
  <2> HIDE DEF s, K
  <2>6. Keep(s, K) \in Seq(LimitOrder)
    BY <2>1, <2>3, KeepElements
  <2>7. Range(Keep(s, K)) = {s[j] : j \in K}
    BY <2>1, <2>3, KeepRange
  <2>8. Ranked(Keep(s, K))
    BY <2>1, <2>3, KeepRanked
  <2> QED
    BY <2>2, <2>5, <2>6, <2>7, <2>8 DEF s
<1>5. books' \in Books
  <2>1. DOMAIN books' = BookKeys /\ books' = [k \in BookKeys |-> books'[k]]
    BY <1>1
  <2> QED
    BY <1>4, <2>1 DEF Books
<1>6. ShrunkFrom(books', books)
  BY <1>3, <1>4, ShrunkReflexive DEF ShrunkFrom
<1>7. ASSUME NEW k \in BookKeys
      PROVE  /\ Ranked(books'[k]) /\ SingleIDs(Range(books'[k]))
             /\ \A o \in Range(books'[k]) : o.amount > 0 /\ o.expiresAt >= now
  <2>1. Range(books[k]) \subseteq OrdersOf(books) /\ Range(books[k]) \subseteq LimitOrder
    BY <1>3, RangeOfOrders DEF OrdersOf, Books
  <2>2. SingleIDs(Range(books'[k]))
    BY <1>2, <1>4, <2>1 DEF WellKept, SingleIDs
  <2>3. ASSUME NEW o \in Range(books'[k]) PROVE o.amount > 0 /\ o.expiresAt >= now
    <3>1. o \in Range(books[k]) /\ ~(o.expiresAt < now) /\ o.expiresAt \in Nat
      BY <1>4, <2>1 DEF Expired, LimitOrder
    <3> QED
      BY <1>2, <1>3, <3>1 DEF WellKept, StoredIn
  <2> QED
    BY <1>4, <2>2, <2>3
<1>8. WellKept(books', nextOrderID, now)
  BY <1>2, <1>3, <1>5, <1>6, <1>7, ShrunkBooks
<1>9. toRefund' \cup OrdersOf(books') \subseteq OrdersOf(books)
  BY <1>1, <1>4 DEF ExpiredOrders, OrdersOf
<1>10. RefundKept'
  <2>1. \A o \in toRefund' : o.orderID < nextOrderID
    BY <1>2, <1>9 DEF WellKept, OrdersOf, StoredIn
  <2>2. SingleIDs(OrdersOf(books') \cup toRefund')
    BY <1>2, <1>9 DEF WellKept, SingleIDs
  <2> QED
    BY <1>1, <2>1, <2>2 DEF RefundKept
<1>11. now <= now
  BY <1>3
<1> QED
  BY <1>1, <1>2, <1>8, <1>10, <1>11 DEF BooksKept, TxKept, FillKept, StoreKept, InTx

LEMMA KeptRefund ==
  ASSUME BooksKept, NEW o \in toRefund, refundOrder(o)
  PROVE  BooksKept'
<1>1. /\ pc = "refund" /\ ~InTx' /\ pc' \in {"idle", "refund"}
      /\ toRefund' = toRefund \ {o} /\ (pc' # "refund" => toRefund' = {})
      /\ books' = books /\ nextOrderID' = nextOrderID
      /\ now' = now /\ blockTime' = blockTime
  BY DEF refundOrder, clock, InTx
<1>2. Settled'
  BY SettledRefund DEF BooksKept
<1>3. RefundKept'
  BY <1>1 DEF BooksKept, RefundKept, SingleIDs
<1> QED
  BY <1>1, <1>2, <1>3 DEF BooksKept, TxKept, FillKept, StoreKept, InTx

LEMMA KeptNext == BooksKept /\ [Next]_vars => BooksKept'
<1> SUFFICES ASSUME BooksKept, [Next]_vars PROVE BooksKept'
  OBVIOUS
<1>1. ASSUME NEW m \in Msgs, processLimitOrder(m) PROVE BooksKept'
  BY <1>1, KeptProcess
<1>2. CASE fillStoredOrder
  BY <1>2, KeptFill
<1>3. CASE fillEnd
  BY <1>3, KeptFillEnd
<1>4. CASE storeUnfilledLimitOrder
  BY <1>4, KeptStore
<1>5. CASE outOfGas
  BY <1>5, KeptRollback
<1>6. CASE BeginBlocker
  BY <1>6, KeptBeginBlocker
<1>7. ASSUME NEW o \in toRefund, refundOrder(o) PROVE BooksKept'
  BY <1>7, KeptRefund
<1>8. CASE Tick
  <2>1. Settled'
    BY SettledNext DEF BooksKept
  <2>2. /\ books' = books /\ nextOrderID' = nextOrderID /\ blockTime' = blockTime
        /\ pc' = pc /\ tx' = tx /\ unfilled' = unfilled /\ orderBook' = orderBook
        /\ i' = i /\ toRefund' = toRefund /\ saved' = saved /\ now' = now + 1
    BY <1>8 DEF Tick, store, local
  <2>3. blockTime' <= now'
    BY <2>2, KeptTypes DEF BooksKept
  <2> QED
    BY <2>1, <2>2, <2>3
    DEF BooksKept, TxKept, FillKept, StoreKept, RefundKept, InTx, Consumed
<1>9. CASE UNCHANGED vars
  <2>1. Settled'
    BY SettledNext DEF BooksKept
  <2>2. /\ books' = books /\ nextOrderID' = nextOrderID /\ blockTime' = blockTime
        /\ pc' = pc /\ tx' = tx /\ unfilled' = unfilled /\ orderBook' = orderBook
        /\ i' = i /\ toRefund' = toRefund /\ saved' = saved /\ now' = now
    BY <1>9 DEF vars, store, clock, local
  <2> QED
    BY <2>1, <2>2
    DEF BooksKept, TxKept, FillKept, StoreKept, RefundKept, InTx, Consumed
<1> QED
  BY <1>1, <1>2, <1>3, <1>4, <1>5, <1>6, <1>7, <1>8, <1>9 DEF Next

(* The inductive invariant holds in every reachable state of the exchange. *)
THEOREM BooksAlwaysKept == Spec => []BooksKept
BY KeptInit, KeptNext, PTL DEF Spec

-----------------------------------------------------------------------------
(* What follows for the books.                                             *)

(* Every book is sorted by price, then by the age of the orders, after any *)
(* sequence of insertions, partial fills, expiries and rollbacks.          *)
THEOREM AlwaysRanked == Spec => []BooksRanked
<1>1. BooksKept => BooksRanked
  BY DEF BooksKept, WellKept, BooksRanked
<1> QED
  BY <1>1, BooksAlwaysKept, PTL

(* No two stored orders could trade with each other, between transactions  *)
(* and at every step of one.                                               *)
THEOREM NeverCrossed == Spec => []NotCrossed
<1>1. BooksKept => NotCrossed
  <2> SUFFICES ASSUME BooksKept, NEW o \in OpenOrders, NEW p \in OpenOrders,
                      Gives(o) = Wants(p), Wants(o) = Gives(p)
               PROVE  Ask(o) * Ask(p) > Bid(o) * Bid(p)
    BY DEF NotCrossed
  <2>1. WellKept(books, nextOrderID, blockTime) /\ OpenOrders = OrdersOf(books)
    BY DEF BooksKept, OpenOrders, OrdersOf
  <2> QED
    BY <2>1, KeptTypes, KeptNotCrossed
<1> QED
  BY <1>1, BooksAlwaysKept, PTL

(* The loop takes from an order only when every order that outranks it is  *)
(* used up.                                                                *)
THEOREM AlwaysByRank == Spec => []FillPriority
<1>1. BooksKept => FillPriority
  <2> SUFFICES ASSUME BooksKept, pc = "fill",
                      NEW j \in 1..Len(orderBook), NEW k \in 1..Len(orderBook),
                      orderBook[j].amount < books[MatchingKey(tx)][j].amount,
                      Outranks(orderBook[k], orderBook[j])
               PROVE  orderBook[k].amount = 0
    BY DEF FillPriority
  <2> DEFINE c == books[MatchingKey(tx)]
  <2>1. InTx /\ MatchingKey(tx) \in BookKeys
    BY TxTypes DEF BooksKept, InTx
  <2>2. Consumed(c) /\ c \in Seq(LimitOrder) /\ Ranked(c) /\ orderBook \in Seq(LimitOrder)
    BY <2>1, KeptTypes DEF BooksKept, FillKept, WellKept, Books
  <2>3. orderBook[j].amount < c[j].amount
    OBVIOUS
  <2> HIDE DEF c
  <2>4. /\ Len(c) = Len(orderBook) /\ Len(c) \in Nat
        /\ \A l \in 1..Len(c) : c[l] \in LimitOrder /\ orderBook[l] \in LimitOrder
    BY <2>2, ElementOfSeq, LenProperties DEF Consumed
  <2>5. /\ c[j].price = orderBook[j].price /\ c[j].orderID = orderBook[j].orderID
        /\ c[k].price = orderBook[k].price /\ c[k].orderID = orderBook[k].orderID
        /\ c[k].kind = orderBook[k].kind /\ c[j].kind = orderBook[j].kind
    BY <2>2, <2>4, ShrunkFields DEF Consumed
  <2>6. j < i
    <3>1. orderBook[j].amount \in Nat
      BY <2>4 DEF LimitOrder
    <3> QED
      BY <2>2, <2>3, <2>4, <3>1, KeptTypes DEF Consumed
  <2>7. ~Outranks(c[j], c[k]) /\ j # k
    <3>1. /\ orderBook[j].price \in Nat /\ orderBook[k].price \in Nat
          /\ orderBook[j].orderID \in Nat /\ orderBook[k].orderID \in Nat
      BY <2>4 DEF LimitOrder
    <3>2. orderBook[j].kind = orderBook[k].kind
      <4>1. \A o \in Range(c) : KeyOf(o) = MatchingKey(tx)
        BY <2>1 DEF BooksKept, WellKept, StoredIn, c
      <4>2. c[j] \in Range(c) /\ c[k] \in Range(c)
        BY <2>2, <2>4, RangeOfOrders
      <4> QED
        BY <2>5, <4>1, <4>2 DEF KeyOf
    <3> QED
      BY <2>5, <3>1, <3>2 DEF Outranks
  <2>8. k < j
    BY <2>2, <2>4, <2>7 DEF Ranked
  <2>9. k < i /\ k # i - 1
    BY <2>6, <2>8, KeptTypes
  <2> QED
    BY <2>2, <2>4, <2>9 DEF Consumed
<1> QED
  BY <1>1, BooksAlwaysKept, PTL

(* No stored order had expired when the block began.                       *)
THEOREM NeverStale == Spec => []NoneStale
<1>1. BooksKept => NoneStale
  BY DEF BooksKept, WellKept, StoredIn, NoneStale, OpenOrders
<1> QED
  BY <1>1, BooksAlwaysKept, PTL

(* An order ID is never given to a second order, rollbacks included.       *)
THEOREM AlwaysUniqueIDs == Spec => []IDsUnique
<1>1. BooksKept => IDsUnique
  <2> SUFFICES ASSUME BooksKept PROVE IDsUnique
    OBVIOUS
  <2>1. OpenOrders = OrdersOf(books)
    BY DEF OpenOrders, OrdersOf
  <2>2. \A o \in OrdersOf(books) : o.orderID < nextOrderID
    BY DEF BooksKept, WellKept, StoredIn, OrdersOf
  <2> QED
    BY <2>1, <2>2 DEF BooksKept, RefundKept, SingleIDs, IDsUnique
<1> QED
  BY <1>1, BooksAlwaysKept, PTL

-----------------------------------------------------------------------------
(* What a step does to the committed books.                                *)

OnlyShrinks ==
  \A k \in BookKeys : \A o \in Range(Committed'.books[k]) :
    \/ o.orderID >= Committed.nextOrderID
    \/ \E p \in Range(Committed.books[k]) :
         /\ o.amount <= p.amount
         /\ o = [p EXCEPT !.amount = o.amount]

LEMMA ShrinksWhenShrunk ==
  ASSUME ShrunkFrom(Committed'.books, Committed.books)
  PROVE  OnlyShrinks
BY DEF OnlyShrinks, ShrunkFrom, Shrunk

LEMMA CommittedTypes ==
  ASSUME BooksKept
  PROVE  /\ Committed.books \in Books
         /\ InTx => Committed = saved
         /\ ~InTx => Committed.books = books /\ Committed.nextOrderID = nextOrderID
BY KeptTypes DEF Committed

LEMMA StepOnlyShrinks ==
  ASSUME BooksKept, [Next]_vars
  PROVE  OnlyShrinks
<1>1. /\ Committed.books \in Books
      /\ InTx => Committed = saved
      /\ ~InTx => Committed.books = books /\ Committed.nextOrderID = nextOrderID
  BY CommittedTypes
<1>2. /\ InTx' => Committed' = saved'
      /\ ~InTx' => Committed'.books = books'
  BY DEF Committed
<1>3. ASSUME Committed'.books = Committed.books PROVE OnlyShrinks
  BY <1>1, <1>3, ShrunkReflexive, ShrinksWhenShrunk
<1>4. ASSUME InTx, UNCHANGED <<pc, saved>> PROVE OnlyShrinks
  BY <1>1, <1>2, <1>3, <1>4 DEF InTx
<1>5. ASSUME UNCHANGED <<pc, saved, books>> PROVE OnlyShrinks
  BY <1>1, <1>2, <1>3, <1>5 DEF InTx
<1>6. ASSUME NEW m \in Msgs, processLimitOrder(m) PROVE OnlyShrinks
  <2>1. ~InTx /\ InTx' /\ saved'.books = books
    BY <1>6 DEF processLimitOrder, InTx
  <2> QED
    BY <1>1, <1>2, <1>3, <2>1
<1>7. CASE fillStoredOrder
  <2>1. InTx /\ UNCHANGED <<pc, saved>>
    BY <1>7, FillStep DEF BooksKept
  <2> QED
    BY <1>4, <2>1
<1>8. CASE fillEnd
  <2>1. InTx /\ InTx' /\ saved' = saved
    BY <1>8 DEF fillEnd, InTx, BooksKept, Settled, NoLateFailure
  <2> QED
    BY <1>1, <1>2, <1>3, <2>1
<1>9. CASE storeUnfilledLimitOrder
  <2>1. /\ InTx /\ ~InTx'
        /\ unfilled = 0 => books' = books
        /\ unfilled # 0 =>
             books' = [books EXCEPT ![KeyOf(tx)] = AddLimitOrder(@, NewLimitOrder)]
    BY <1>9, StoreStep DEF BooksKept
  <2>2. /\ Committed'.books = books' /\ Committed.books = saved.books
        /\ Committed.nextOrderID = nextOrderID
        /\ ShrunkFrom(books, saved.books)
    BY <1>1, <1>2, <2>1 DEF BooksKept, TxKept
  <2>3. CASE unfilled = 0
    BY <2>1, <2>2, <2>3, ShrinksWhenShrunk
  <2>4. CASE unfilled # 0
    <3> DEFINE o == NewLimitOrder
               K == KeyOf(tx)
    <3>1. o \in LimitOrder /\ o.orderID = nextOrderID /\ K \in BookKeys
      BY <2>1, NewOrderTypes, TxTypes DEF BooksKept, NewLimitOrder
    <3>2. books \in Books /\ nextOrderID \in Nat
      BY KeptTypes
    <3>3. books[K] \in Seq(LimitOrder)
      BY <3>1, <3>2 DEF Books
    <3>4. books' = [books EXCEPT ![K] = AddLimitOrder(@, o)]
      BY <2>1, <2>4
    <3> HIDE DEF o, K
    <3>5. Range(AddLimitOrder(books[K], o)) = Range(books[K]) \cup {o}
      BY <3>1, <3>3, AddLimitOrderElements
    <3>6. ASSUME NEW k \in BookKeys, NEW p \in Range(books'[k])
          PROVE  p.orderID >= nextOrderID \/ p \in Range(books[k])
      <4>1. CASE k = K
        <5>1. books'[k] = AddLimitOrder(books[K], o)
          BY <3>1, <3>2, <3>4, <4>1 DEF Books
        <5>2. o.orderID >= nextOrderID
          BY <3>1, <3>2
        <5> QED
          BY <3>5, <4>1, <5>1, <5>2
      <4>2. CASE k # K
        BY <3>2, <3>4, <4>2 DEF Books
      <4> QED
        BY <4>1, <4>2
    <3> QED
      BY <2>2, <3>6 DEF OnlyShrinks, ShrunkFrom, Shrunk
  <2> QED
    BY <2>3, <2>4
<1>10. CASE outOfGas
  <2>1. InTx /\ ~InTx' /\ books' = saved.books
    BY <1>10 DEF outOfGas, Rollback, Idle, InTx
  <2> QED
    BY <1>1, <1>2, <1>3, <2>1
<1>11. CASE BeginBlocker
  <2>1. ~InTx /\ ~InTx' /\ books' = [k \in BookKeys |-> RemoveExpired(books[k], now)]
    BY <1>11 DEF BeginBlocker, InTx
  <2>2. ASSUME NEW k \in BookKeys PROVE Range(books'[k]) \subseteq Range(books[k])
    <3> DEFINE s == books[k]
               K == {j \in 1..Len(s) : ~Expired(s[j], now)}
    <3>1. s \in Seq(LimitOrder)
      BY KeptTypes DEF Books
    <3>2. Range(s) = {s[j] : j \in 1..Len(s)} /\ K \in SUBSET (1..Len(s))
      BY <3>1, RangeOfOrders
    <3>3. books'[k] = Keep(s, K)
      BY <2>1 DEF RemoveExpired
    <3> HIDE DEF s, K
    <3>4. Range(Keep(s, K)) = {s[j] : j \in K}
      BY <3>1, <3>2, KeepRange
    <3> QED
      BY <3>2, <3>3, <3>4 DEF s
  <2>3. ShrunkFrom(books', books)
    BY <2>2, KeptTypes, ShrunkReflexive DEF ShrunkFrom
  <2> QED
    BY <1>1, <1>2, <2>1, <2>3, ShrinksWhenShrunk
<1>12. ASSUME NEW o \in toRefund, refundOrder(o) PROVE OnlyShrinks
  <2>1. ~InTx /\ ~InTx' /\ books' = books
    BY <1>12 DEF refundOrder, InTx
  <2> QED
    BY <1>1, <1>2, <1>3, <2>1
<1>13. CASE Tick
  BY <1>5, <1>13 DEF Tick, store
<1>14. CASE UNCHANGED vars
  BY <1>5, <1>14 DEF vars, store
<1> QED
  BY <1>6, <1>7, <1>8, <1>9, <1>10, <1>11, <1>12, <1>13, <1>14 DEF Next

(* No block raises the amount of a stored order or changes anything else   *)
(* of it, and an order that left the books never returns.                  *)
THEOREM OrdersOnlyShrink == Spec => StoredOrdersOnlyShrink
<1>1. BooksKept /\ [Next]_vars => [OnlyShrinks]_vars
  BY StepOnlyShrinks
<1>2. Spec => [][OnlyShrinks]_vars
  BY <1>1, BooksAlwaysKept, PTL DEF Spec
<1> QED
  BY <1>2 DEF StoredOrdersOnlyShrink, OnlyShrinks

-----------------------------------------------------------------------------
(* The limit of a transaction.                                             *)

(* One settlement, seen by the sender.                                     *)
LEMMA SettlementGain ==
  ASSUME Settled, pc = "fill", LoopGoesOn
  PROVE  LET old == coins[tx.sender]
             new == Settlement.coins[tx.sender]
             f   == Fill.amount
         IN  IF tx.kind = "buy"
             THEN /\ new[tx.amountDenom] = old[tx.amountDenom] + f
                  /\ new[tx.priceDenom] >= old[tx.priceDenom] - f * tx.price
             ELSE /\ new[tx.amountDenom] >= old[tx.amountDenom] - f
                  /\ new[tx.priceDenom] >= old[tx.priceDenom] + f * tx.price
<1> DEFINE s == tx.sender
           b == orderBook[i].sender
           f == Fill.amount
           q == Fill.price
           p == tx.price
           total == TotalPrice(f, q)
<1>1. InTx
  BY DEF InTx
<1>2. /\ s \in Accounts /\ tx.amountDenom \in Denoms /\ tx.priceDenom \in Denoms
      /\ tx.amountDenom # tx.priceDenom /\ p \in Nat
  BY <1>1, TxTypes
<1>3. /\ f \in Nat /\ f <= unfilled /\ q = orderBook[i].price /\ total \in Nat
      /\ orderBook[i] \in LimitOrder /\ Crosses(orderBook[i], tx.kind, p)
  BY FillTypes DEF LoopGoesOn
<1>4. b \in Accounts /\ q \in Nat /\ coins \in Ledger
  BY <1>3 DEF LimitOrder, Settled, TypeOK
<1>e. /\ coins \in Ledger /\ s \in Accounts /\ b \in Accounts
      /\ tx.amountDenom \in Denoms /\ tx.priceDenom \in Denoms
      /\ tx.amountDenom # tx.priceDenom /\ f \in Nat /\ total \in Nat
  BY <1>2, <1>3, <1>4
<1>5. total = f * q
  BY DEF TotalPrice
<1>6. ~Settlement.err
  BY SettlementCovered
<1>7. /\ coins[s][tx.amountDenom] \in Nat /\ coins[s][tx.priceDenom] \in Nat
      /\ Settlement.coins[s][tx.amountDenom] \in Nat
      /\ Settlement.coins[s][tx.priceDenom] \in Nat
  BY <1>2, <1>4, SettlementCovered DEF Ledger
<1> HIDE DEF f, q, p, total, s, b
<1>8. CASE tx.kind = "buy"
  <2> DEFINE r == sendAndUnlockCoins(s, b, tx.priceDenom, total, tx.amountDenom, f)
  <2>1. Settlement = r
    BY <1>8 DEF Settlement, s, b, total, f, q
  <2>2. ~r.err => /\ r.coins[s][tx.priceDenom] >= coins[s][tx.priceDenom] - total
                  /\ r.coins[s][tx.amountDenom] = coins[s][tx.amountDenom] + f
    BY <1>e, SettlementEffect
  <2> HIDE DEF r
  <2>3. f * q <= f * p /\ f * p \in Nat
    <3>1. q <= p
      BY <1>2, <1>3, <1>4, <1>8 DEF Crosses
    <3> QED
      BY <1>2, <1>3, <1>4, <3>1, TimesMonotone
  <2> DEFINE fp == f * p
  <2>4. total <= fp /\ fp \in Nat
    BY <1>5, <2>3
  <2> HIDE DEF fp
  <2>5. /\ Settlement.coins[s][tx.amountDenom] = coins[s][tx.amountDenom] + f
        /\ Settlement.coins[s][tx.priceDenom] >= coins[s][tx.priceDenom] - fp
    BY <1>3, <1>6, <1>7, <2>1, <2>2, <2>4
  <2> QED
    BY <1>8, <2>5 DEF fp, s, p, f
<1>9. CASE tx.kind # "buy"
  <2> DEFINE r == sendAndUnlockCoins(s, b, tx.amountDenom, f, tx.priceDenom, total)
  <2>1. Settlement = r
    BY <1>9 DEF Settlement, s, b, total, f, q
  <2>2. ~r.err => /\ r.coins[s][tx.amountDenom] >= coins[s][tx.amountDenom] - f
                  /\ r.coins[s][tx.priceDenom] = coins[s][tx.priceDenom] + total
    BY <1>e, SettlementEffect
  <2> HIDE DEF r
  <2>3. f * p <= f * q /\ f * p \in Nat
    <3>1. p <= q
      BY <1>2, <1>3, <1>4, <1>9 DEF Crosses
    <3> QED
      BY <1>2, <1>3, <1>4, <3>1, TimesMonotone
  <2> DEFINE fp == f * p
  <2>4. fp <= total /\ fp \in Nat
    BY <1>5, <2>3
  <2> HIDE DEF fp
  <2>5. /\ Settlement.coins[s][tx.amountDenom] >= coins[s][tx.amountDenom] - f
        /\ Settlement.coins[s][tx.priceDenom] >= coins[s][tx.priceDenom] + fp
    BY <1>3, <1>6, <1>7, <2>1, <2>2, <2>4
  <2> QED
    BY <1>9, <2>5 DEF fp, s, p, f
<1> QED
  BY <1>8, <1>9

LEMMA LimitNext == Settled /\ LimitRespected /\ [Next]_vars => LimitRespected'
<1> SUFFICES ASSUME Settled, LimitRespected, [Next]_vars PROVE LimitRespected'
  OBVIOUS
<1>1. ASSUME UNCHANGED <<tx, unfilled, coins, saved, pc>> PROVE LimitRespected'
  BY <1>1 DEF LimitRespected, InTx
<1>2. ASSUME ~InTx' PROVE LimitRespected'
  BY <1>2 DEF LimitRespected
<1>3. ASSUME NEW m \in Msgs, processLimitOrder(m) PROVE LimitRespected'
  <2>1. /\ tx' = m /\ unfilled' = m.amount /\ coins' = coins
        /\ saved'.coins = coins /\ InTx'
    BY <1>3 DEF processLimitOrder, store, InTx
  <2>2. Settled'
    BY <1>3, SettledProcess
  <2>3. /\ tx'.sender \in Accounts /\ tx'.amountDenom \in Denoms
        /\ tx'.priceDenom \in Denoms /\ tx'.amount \in Nat /\ tx'.price \in Nat
    BY <1>3, <2>1, <2>2, ConstantsAssumption DEF Settled, TypeOK, TxChecked, Msgs
  <2>4. /\ coins[m.sender][m.amountDenom] \in Nat /\ coins[m.sender][m.priceDenom] \in Nat
    BY <2>1, <2>3 DEF Settled, TypeOK, Ledger
  <2>5. m.amount - m.amount = 0 /\ 0 * m.price = 0
    BY <2>1, <2>3
  <2> QED
    BY <2>1, <2>4, <2>5 DEF LimitRespected
<1>4. CASE fillStoredOrder
  <2>1. /\ pc = "fill" /\ LoopGoesOn /\ InTx /\ tx' = tx /\ saved' = saved
        /\ unfilled' = unfilled - Fill.amount
        /\ coins' = Settlement.coins
    BY <1>4, FillStep
  <2> DEFINE f == Fill.amount
             p == tx.price
             A == coins[tx.sender][tx.amountDenom]
             P == coins[tx.sender][tx.priceDenom]
             oldA == saved.coins[tx.sender][tx.amountDenom]
             oldP == saved.coins[tx.sender][tx.priceDenom]
             newA == coins'[tx.sender][tx.amountDenom]
             newP == coins'[tx.sender][tx.priceDenom]
             x == tx.amount - unfilled
             y == tx.amount - unfilled'
             xp == x * p
             yp == y * p
             fp == f * p
  <2>2. /\ f \in Nat /\ p \in Nat /\ tx.amount \in Nat /\ unfilled \in Nat
        /\ A \in Nat /\ P \in Nat /\ oldA \in Nat /\ oldP \in Nat
        /\ newA \in Nat /\ newP \in Nat
    <3>1. /\ tx.sender \in Accounts /\ tx.amountDenom \in Denoms
          /\ tx.priceDenom \in Denoms /\ p \in Nat /\ tx.amount \in Nat
          /\ saved.coins \in Ledger
      BY <2>1, TxTypes
    <3>2. coins \in Ledger /\ unfilled \in Nat /\ coins' \in Ledger
      BY <2>1, SettlementCovered DEF Settled, TypeOK
    <3>3. f \in Nat
      BY <2>1, FillTypes
    <3> QED
      BY <3>1, <3>2, <3>3 DEF Ledger
  <2>3. y = x + f /\ x \in Int
    BY <2>1, <2>2
  <2>4. yp = xp + fp /\ xp \in Int /\ fp \in Int
    <3> HIDE DEF x, y, f, p
    <3>1. (x + f) * p = x * p + f * p /\ x * p \in Int /\ f * p \in Int
      BY <2>2, <2>3
    <3> QED
      BY <2>3, <3>1
  <2>5. IF tx.kind = "buy" THEN newA = A + f /\ newP >= P - fp
                           ELSE newA >= A - f /\ newP >= P + fp
    BY <2>1, SettlementGain
  <2>6. IF tx.kind = "buy" THEN A - oldA = x /\ P - oldP >= -xp
                           ELSE A - oldA >= -x /\ P - oldP >= xp
    BY <2>1 DEF LimitRespected
  <2>7. IF tx.kind = "buy" THEN newA - oldA = y /\ newP - oldP >= -yp
                           ELSE newA - oldA >= -y /\ newP - oldP >= yp
    <3> HIDE DEF f, p, A, P, oldA, oldP, newA, newP, x, y, xp, yp, fp
    <3> QED
      BY <2>2, <2>3, <2>4, <2>5, <2>6
  <2> QED
    BY <2>1, <2>7 DEF LimitRespected
<1>5. CASE fillEnd
  <2>1. InTx /\ InTx' /\ UNCHANGED <<tx, unfilled, coins, saved>>
    BY <1>5 DEF fillEnd, InTx, Settled, NoLateFailure
  <2> QED
    BY <2>1 DEF LimitRespected
<1>6. CASE storeUnfilledLimitOrder
  BY <1>2, <1>6, StoreStep
<1>7. CASE outOfGas
  BY <1>2, <1>7 DEF outOfGas, Rollback, Idle, InTx
<1>8. CASE BeginBlocker
  BY <1>2, <1>8 DEF BeginBlocker, InTx
<1>9. ASSUME NEW o \in toRefund, refundOrder(o) PROVE LimitRespected'
  BY <1>2, <1>9 DEF refundOrder, InTx
<1>10. CASE Tick
  BY <1>1, <1>10 DEF Tick, store, local
<1>11. CASE UNCHANGED vars
  BY <1>1, <1>11 DEF vars, store, local
<1> QED
  BY <1>3, <1>4, <1>5, <1>6, <1>7, <1>8, <1>9, <1>10, <1>11 DEF Next

(* Whatever mix of orders a transaction is matched with, its sender pays   *)
(* at most, and receives at least, its own limit for what is filled.       *)
THEOREM LimitKept == Spec => []LimitRespected
<1>1. Init => LimitRespected
  BY DEF Init, LimitRespected, InTx
<1> QED
  BY <1>1, LimitNext, SettledAlways, PTL DEF Spec

-----------------------------------------------------------------------------
(* Balances.                                                               *)

LEMMA TotalCoinsType ==
  ASSUME NEW c \in Ledger, NEW d \in Denoms
  PROVE  /\ TotalCoins(c, d) \in Nat
         /\ \A a \in Accounts : c[a][d] <= TotalCoins(c, d)
<1> DEFINE f == [a \in Accounts |-> c[a][d]]
<1>1. \A a \in Accounts : f[a] \in Nat /\ f[a] = c[a][d]
  BY DEF Ledger
<1>2. TotalCoins(c, d) = Sum(f, Accounts)
  BY DEF TotalCoins, Sum
<1>3. IsFiniteSet(Accounts)
  BY ConstantsAssumption
<1> HIDE DEF f
<1> QED
  BY <1>1, <1>2, <1>3, SumNat, SumBounds

(* When one balance changes, the total changes by as much.                 *)
LEMMA TotalCoinsChange ==
  ASSUME NEW c \in Ledger, NEW e \in Ledger, NEW d \in Denoms, NEW a \in Accounts,
         \A b \in Accounts \ {a} : e[b][d] = c[b][d]
  PROVE  TotalCoins(e, d) = TotalCoins(c, d) + e[a][d] - c[a][d]
<1> DEFINE f == [b \in Accounts |-> c[b][d]]
           g == [b \in Accounts |-> e[b][d]]
<1>1. /\ \A b \in Accounts : f[b] \in Int
      /\ g[a] \in Int
      /\ \A b \in Accounts \ {a} : g[b] = f[b]
      /\ f[a] = c[a][d] /\ g[a] = e[a][d]
  BY DEF Ledger
<1>2. TotalCoins(c, d) = Sum(f, Accounts) /\ TotalCoins(e, d) = Sum(g, Accounts)
  BY DEF TotalCoins, Sum
<1>3. IsFiniteSet(Accounts)
  BY ConstantsAssumption
<1> HIDE DEF f, g
<1> QED
  BY <1>1, <1>2, <1>3, SumChange

LEMMA TotalCoinsSame ==
  ASSUME NEW c \in Ledger, NEW e \in Ledger, NEW d \in Denoms,
         \A b \in Accounts : e[b][d] = c[b][d]
  PROVE  TotalCoins(e, d) = TotalCoins(c, d)
<1>1. [b \in Accounts |-> e[b][d]] = [b \in Accounts |-> c[b][d]]
  OBVIOUS
<1> QED
  BY <1>1 DEF TotalCoins

LEMMA SubtractCoinsTotal ==
  ASSUME NEW c \in Ledger, NEW a \in Accounts, NEW d \in Denoms, NEW x \in Nat,
         ~SubtractCoins(c, a, d, x).err, NEW g \in Denoms
  PROVE  TotalCoins(SubtractCoins(c, a, d, x).coins, g)
           = TotalCoins(c, g) - (IF g = d THEN x ELSE 0)
<1> DEFINE r == SubtractCoins(c, a, d, x).coins
<1>1. /\ r \in Ledger
      /\ \A b \in Accounts, h \in Denoms :
           r[b][h] = IF b = a /\ h = d THEN c[a][d] - x ELSE c[b][h]
  BY SubtractCoinsEffect
<1>2. c[a][d] \in Nat /\ TotalCoins(c, g) \in Nat
  BY TotalCoinsType DEF Ledger
<1> HIDE DEF r
<1>3. CASE g = d
  <2>1. TotalCoins(r, g) = TotalCoins(c, g) + r[a][g] - c[a][g]
    BY <1>1, <1>3, TotalCoinsChange
  <2>2. r[a][g] = c[a][d] - x
    BY <1>1, <1>3
  <2>3. TotalCoins(r, g) = TotalCoins(c, g) - x
    BY <1>2, <1>3, <2>1, <2>2
  <2> QED
    BY <1>3, <2>3 DEF r
<1>4. CASE g # d
  <2>1. TotalCoins(r, g) = TotalCoins(c, g)
    BY <1>1, <1>4, TotalCoinsSame
  <2> QED
    BY <1>2, <1>4, <2>1 DEF r
<1> QED
  BY <1>3, <1>4

LEMMA AddCoinsTotal ==
  ASSUME NEW c \in Ledger, NEW a \in Accounts, NEW d \in Denoms, NEW x \in Nat,
         NEW g \in Denoms
  PROVE  TotalCoins(AddCoins(c, a, d, x).coins, g)
           = TotalCoins(c, g) + (IF g = d THEN x ELSE 0)
<1> DEFINE r == AddCoins(c, a, d, x).coins
<1>1. /\ r \in Ledger
      /\ \A b \in Accounts, h \in Denoms :
           r[b][h] = IF b = a /\ h = d THEN c[a][d] + x ELSE c[b][h]
  BY AddCoinsEffect
<1>2. c[a][d] \in Nat /\ TotalCoins(c, g) \in Nat
  BY TotalCoinsType DEF Ledger
<1> HIDE DEF r
<1>3. CASE g = d
  <2>1. TotalCoins(r, g) = TotalCoins(c, g) + r[a][g] - c[a][g]
    BY <1>1, <1>3, TotalCoinsChange
  <2>2. r[a][g] = c[a][d] + x
    BY <1>1, <1>3
  <2>3. TotalCoins(r, g) = TotalCoins(c, g) + x
    BY <1>2, <1>3, <2>1, <2>2
  <2> QED
    BY <1>3, <2>3 DEF r
<1>4. CASE g # d
  <2>1. TotalCoins(r, g) = TotalCoins(c, g)
    BY <1>1, <1>4, TotalCoinsSame
  <2> QED
    BY <1>2, <1>4, <2>1 DEF r
<1> QED
  BY <1>3, <1>4

(* A settlement brings back into the accounts what was unlocked.           *)
LEMMA SettlementTotal ==
  ASSUME coins \in Ledger, NEW a \in Accounts, NEW b \in Accounts,
         NEW d \in Denoms, NEW e \in Denoms, d # e, NEW x \in Nat, NEW y \in Nat,
         ~sendAndUnlockCoins(a, b, d, x, e, y).err, NEW g \in Denoms
  PROVE  TotalCoins(sendAndUnlockCoins(a, b, d, x, e, y).coins, g)
           = TotalCoins(coins, g) + (IF g = e THEN y ELSE 0)
<1> DEFINE s == SubtractCoins(coins, a, d, x)
           sc == s.coins
           t == SendCoins(coins, a, b, d, x)
           u == AddCoins(sc, b, d, x)
           uc == u.coins
           v == AddCoins(uc, a, e, y)
           r == sendAndUnlockCoins(a, b, d, x, e, y)
<1>1. ~s.err
  <2> SUFFICES ASSUME s.err PROVE FALSE
    OBVIOUS
  <2>1. t = s
    BY DEF SendCoins
  <2>2. r = s
    BY <2>1 DEF sendAndUnlockCoins
  <2> QED
    BY <2>2
<1>2. t = u
  BY <1>1 DEF SendCoins
<1>3. sc \in Ledger
  BY SubtractCoinsEffect
<1>4. TotalCoins(sc, g) = TotalCoins(coins, g) - (IF g = d THEN x ELSE 0)
  BY <1>1, SubtractCoinsTotal
<1> HIDE DEF s, sc
<1>5. u.coins \in Ledger /\ ~u.err
  BY <1>3, AddCoinsEffect
<1>6. r = v
  BY <1>2, <1>5 DEF sendAndUnlockCoins
<1>7. TotalCoins(uc, g) = TotalCoins(sc, g) + (IF g = d THEN x ELSE 0)
  BY <1>3, AddCoinsTotal
<1> HIDE DEF t, u
<1>8. uc \in Ledger
  BY <1>5
<1> HIDE DEF uc
<1>9. TotalCoins(v.coins, g) = TotalCoins(uc, g) + (IF g = e THEN y ELSE 0)
  BY <1>8, AddCoinsTotal
<1>10. /\ TotalCoins(coins, g) \in Nat /\ TotalCoins(sc, g) \in Nat
       /\ TotalCoins(uc, g) \in Nat
  BY <1>3, <1>8, TotalCoinsType
<1> HIDE DEF v, r
<1>11. TotalCoins(r.coins, g) = TotalCoins(coins, g) + (IF g = e THEN y ELSE 0)
  BY <1>4, <1>6, <1>7, <1>9, <1>10
<1> QED
  BY <1>11 DEF r

-----------------------------------------------------------------------------
(* What orders and books keep locked.                                      *)

LEMMA LockedAsType ==
  ASSUME NEW o \in LimitOrder, NEW d \in Denoms
  PROVE  LockedAs(o, d) \in Nat
<1>1. o.amount \in Nat /\ o.price \in Nat
  BY DEF LimitOrder
<1>2. o.amount * o.price \in Nat
  BY <1>1
<1> QED
  BY <1>1, <1>2 DEF LockedAs, Locked, TotalPrice

(* The locks of a book, position by position.                              *)
Locks(s, d) == [j \in 1..Len(s) |-> LockedAs(s[j], d)]

LEMMA LockedInType ==
  ASSUME NEW s \in Seq(LimitOrder), NEW d \in Denoms
  PROVE  /\ LockedIn(s, d) = Sum(Locks(s, d), 1..Len(s))
         /\ Len(s) \in Nat /\ IsFiniteSet(1..Len(s))
         /\ \A j \in 1..Len(s) :
              Locks(s, d)[j] = LockedAs(s[j], d) /\ LockedAs(s[j], d) \in Nat
         /\ LockedIn(s, d) \in Nat
         /\ \A j \in 1..Len(s) : LockedAs(s[j], d) <= LockedIn(s, d)
<1>1. LockedIn(s, d) = Sum(Locks(s, d), 1..Len(s))
  BY DEF LockedIn, Locks, Sum
<1>2. Len(s) \in Nat /\ IsFiniteSet(1..Len(s))
  BY LenProperties, FS_Interval
<1>3. \A j \in 1..Len(s) : s[j] \in LimitOrder
  BY ElementOfSeq
<1>4. \A j \in 1..Len(s) :
        Locks(s, d)[j] = LockedAs(s[j], d) /\ LockedAs(s[j], d) \in Nat
  BY <1>3, LockedAsType DEF Locks
<1> DEFINE f == Locks(s, d)
<1>5. \A j \in 1..Len(s) : f[j] \in Nat
  BY <1>4
<1> HIDE DEF f
<1>6. Sum(f, 1..Len(s)) \in Nat /\ \A j \in 1..Len(s) : f[j] <= Sum(f, 1..Len(s))
  BY <1>2, <1>5, SumNat, SumBounds
<1> QED
  BY <1>1, <1>2, <1>4, <1>6 DEF f

(* A fill of the order at position p.                                      *)
LEMMA LockedInChange ==
  ASSUME NEW s \in Seq(LimitOrder), NEW r \in Seq(LimitOrder), NEW d \in Denoms,
         Len(r) = Len(s), NEW p \in 1..Len(s),
         \A j \in 1..Len(s) : j # p => r[j] = s[j]
  PROVE  LockedIn(r, d) = LockedIn(s, d) + LockedAs(r[p], d) - LockedAs(s[p], d)
<1> DEFINE f == Locks(s, d)
           g == Locks(r, d)
           S == 1..Len(s)
<1>1. /\ LockedIn(s, d) = Sum(f, S) /\ IsFiniteSet(S)
      /\ \A j \in S : f[j] = LockedAs(s[j], d) /\ LockedAs(s[j], d) \in Nat
  BY LockedInType
<1>2. /\ LockedIn(r, d) = Sum(g, S)
      /\ \A j \in S : g[j] = LockedAs(r[j], d) /\ LockedAs(r[j], d) \in Nat
  BY LockedInType
<1>3. /\ g[p] \in Int /\ p \in S /\ \A j \in S : f[j] \in Int
      /\ \A j \in S \ {p} : g[j] = f[j]
  <2> HIDE DEF f, g
  <2> QED
    BY <1>1, <1>2
<1> HIDE DEF f, g, S
<1>4. Sum(g, S) = Sum(f, S) + g[p] - f[p]
  BY <1>1, <1>3, SumChange
<1> QED
  BY <1>1, <1>2, <1>3, <1>4

(* The locks of the orders that are kept.                                  *)
LEMMA LockedInKept ==
  ASSUME NEW s \in Seq(LimitOrder), NEW d \in Denoms, NEW K \in SUBSET (1..Len(s))
  PROVE  LockedIn(Keep(s, K), d) = Sum(Locks(s, d), K)
<1> DEFINE r == Keep(s, K)
           f == Locks(s, d)
           g == Locks(r, d)
           n == Cardinality(K)
           at == [j \in 1..n |-> Nth(K, j)]
<1>1. /\ r \in Seq(LimitOrder) /\ Len(r) = n
      /\ \A j \in 1..n : Nth(K, j) \in K /\ r[j] = s[Nth(K, j)]
  BY KeepElements
<1>2. Len(s) \in Nat
  BY LenProperties
<1>3. K \in SUBSET Int /\ IsFiniteSet(K) /\ n \in Nat
  BY <1>2, PositionsFinite
<1>4. /\ LockedIn(r, d) = Sum(g, 1..n) /\ IsFiniteSet(1..n)
      /\ \A j \in 1..n : g[j] = LockedAs(r[j], d) /\ LockedAs(r[j], d) \in Nat
  <2> HIDE DEF r, n
  <2> QED
    BY <1>1, LockedInType
<1>5. \A j \in 1..Len(s) : f[j] = LockedAs(s[j], d)
  BY LockedInType
<1>6. \A j \in 1..n : at[j] = Nth(K, j)
  OBVIOUS
<1>7. /\ \A j \in 1..n : at[j] \in K
      /\ \A k \in K : \E j \in 1..n : at[j] = k
  <2>1. \A k \in K : \E j \in 1..n : Nth(K, j) = k
    BY <1>3, NthCovers
  <2> QED
    BY <1>1, <1>6, <2>1
<1>8. \A j, l \in 1..n : at[j] = at[l] => j = l
  <2>1. ASSUME NEW j \in 1..n, NEW l \in 1..n, at[j] = at[l], j # l PROVE FALSE
    <3>1. ASSUME NEW v \in 1..n, NEW w \in 1..n, v < w PROVE Nth(K, v) # Nth(K, w)
      <4>1. Nth(K, v) < Nth(K, w)
        BY <1>3, <3>1, NthIncreasing
      <4>2. Nth(K, v) \in Int /\ Nth(K, w) \in Int
        BY <1>1, <1>3
      <4> QED
        BY <4>1, <4>2
    <3>2. j < l \/ l < j
      BY <1>3, <2>1
    <3> QED
      BY <1>6, <2>1, <3>1, <3>2
  <2> QED
    BY <2>1
<1> HIDE DEF r, f, g, n, at
<1>9. \A j \in 1..n : g[j] \in Int /\ f[at[j]] = g[j]
  <2> SUFFICES ASSUME NEW j \in 1..n PROVE g[j] \in Int /\ f[at[j]] = g[j]
    OBVIOUS
  <2>1. at[j] \in 1..Len(s) /\ r[j] = s[at[j]]
    BY <1>1, <1>6
  <2>2. f[at[j]] = LockedAs(s[at[j]], d)
    BY <1>5, <2>1
  <2>3. g[j] = LockedAs(r[j], d) /\ LockedAs(r[j], d) \in Nat
    BY <1>4
  <2> QED
    BY <2>1, <2>2, <2>3
<1> DEFINE D == 1..n
<1>10. Renames(at, D, K)
  BY <1>7, <1>8 DEF Renames
<1>11. Sum(f, K) = Sum(g, D)
  <2>1. IsFiniteSet(D) /\ \A j \in D : g[j] \in Int /\ f[at[j]] = g[j]
    BY <1>4, <1>9
  <2> HIDE DEF D
  <2> QED
    BY <1>10, <2>1, SumRenamed
<1> QED
  BY <1>4, <1>11 DEF f, r

(* Filled orders have nothing locked when they leave the book.             *)
LEMMA LockedInRemoveFilled ==
  ASSUME NEW s \in Seq(LimitOrder), NEW d \in Denoms
  PROVE  LockedIn(RemoveFilledLimitOrders(s), d) = LockedIn(s, d)
<1> DEFINE K == {j \in 1..Len(s) : s[j].amount # 0}
           f == Locks(s, d)
           S == 1..Len(s)
<1>1. K \in SUBSET S
  OBVIOUS
<1>2. LockedIn(RemoveFilledLimitOrders(s), d) = Sum(f, K)
  BY LockedInKept DEF RemoveFilledLimitOrders
<1>3. /\ LockedIn(s, d) = Sum(f, S) /\ IsFiniteSet(S)
      /\ \A j \in S : f[j] = LockedAs(s[j], d) /\ LockedAs(s[j], d) \in Nat
  BY LockedInType
<1>4. \A j \in S : f[j] \in Int
  <2> HIDE DEF f
  <2> QED
    BY <1>3
<1>5. \A j \in S \ K : f[j] = 0
  <2> SUFFICES ASSUME NEW j \in S \ K PROVE f[j] = 0
    OBVIOUS
  <2>1. s[j] \in LimitOrder
    BY ElementOfSeq
  <2>2. s[j].amount = 0 /\ s[j].price \in Nat
    BY <2>1 DEF LimitOrder
  <2>3. LockedAs(s[j], d) = 0
    BY <2>2 DEF LockedAs, Locked, TotalPrice
  <2> HIDE DEF f
  <2> QED
    BY <1>3, <2>3
<1> HIDE DEF f, K, S
<1> QED
  BY <1>1, <1>2, <1>3, <1>4, <1>5, SumSupport

(* A new order locks its own.                                              *)
LEMMA LockedInAdd ==
  ASSUME NEW s \in Seq(LimitOrder), NEW d \in Denoms, NEW o \in LimitOrder
  PROVE  LockedIn(AddLimitOrder(s, o), d) = LockedIn(s, d) + LockedAs(o, d)
<1> DEFINE r == AddLimitOrder(s, o)
           at == InsertPosition(s, o)
           n == Len(s)
           f == Locks(s, d)
           g == Locks(r, d)
           to == [j \in 1..n |-> IF j < at THEN j ELSE j + 1]
           R == (1..n + 1) \ {at}
<1>1. /\ r \in Seq(LimitOrder) /\ Len(r) = n + 1 /\ at \in 1..n + 1
      /\ \A j \in 1..n + 1 :
           r[j] = IF j < at THEN s[j] ELSE IF j = at THEN o ELSE s[j - 1]
  BY AddLimitOrderElements
<1>2. /\ LockedIn(s, d) = Sum(f, 1..n) /\ n \in Nat /\ IsFiniteSet(1..n)
      /\ \A j \in 1..n : f[j] = LockedAs(s[j], d) /\ LockedAs(s[j], d) \in Nat
      /\ LockedIn(s, d) \in Nat
  BY LockedInType
<1>3. /\ LockedIn(r, d) = Sum(g, 1..n + 1) /\ IsFiniteSet(1..n + 1)
      /\ \A j \in 1..n + 1 : g[j] = LockedAs(r[j], d) /\ LockedAs(r[j], d) \in Nat
  <2> HIDE DEF r
  <2> QED
    BY <1>1, LockedInType
<1>4. \A j \in 1..n : to[j] = IF j < at THEN j ELSE j + 1
  OBVIOUS
<1> HIDE DEF r, at, n, f, g, to
<1>5. at \in Nat
  BY <1>1, <1>2
<1>6. /\ \A j \in 1..n : to[j] \in R
      /\ \A k \in R : \E j \in 1..n : to[j] = k
  <2>1. \A j \in 1..n : to[j] \in R
    BY <1>1, <1>2, <1>4, <1>5
  <2>2. ASSUME NEW k \in R PROVE \E j \in 1..n : to[j] = k
    <3>1. CASE k < at
      <4>1. k \in 1..n /\ to[k] = k
        BY <1>1, <1>2, <1>4, <1>5, <3>1
      <4> QED
        BY <4>1
    <3>2. CASE ~(k < at)
      <4>1. k - 1 \in 1..n /\ to[k - 1] = k
        BY <1>1, <1>2, <1>4, <1>5, <3>2
      <4> QED
        BY <4>1
    <3> QED
      BY <3>1, <3>2
  <2> QED
    BY <2>1, <2>2
<1>7. \A j, l \in 1..n : to[j] = to[l] => j = l
  <2> SUFFICES ASSUME NEW j \in 1..n, NEW l \in 1..n, to[j] = to[l] PROVE j = l
    OBVIOUS
  <2>1. /\ to[j] = (IF j < at THEN j ELSE j + 1)
        /\ to[l] = (IF l < at THEN l ELSE l + 1)
    BY <1>4
  <2>2. j \in Int /\ l \in Int
    BY <1>2
  <2>3. (IF j < at THEN j ELSE j + 1) = (IF l < at THEN l ELSE l + 1)
    BY <2>1
  <2> QED
    BY <1>5, <2>2, <2>3
<1>8. \A j \in 1..n : f[j] \in Int /\ g[to[j]] = f[j]
  <2> SUFFICES ASSUME NEW j \in 1..n PROVE f[j] \in Int /\ g[to[j]] = f[j]
    OBVIOUS
  <2>1. to[j] \in 1..n + 1 /\ to[j] \in Nat
    BY <1>1, <1>2, <1>4, <1>5
  <2>2. r[to[j]] = s[j]
    <3>1. CASE j < at
      <4>1. to[j] = j /\ j \in 1..n + 1
        BY <1>2, <1>4, <3>1
      <4> QED
        BY <1>1, <3>1, <4>1
    <3>2. CASE ~(j < at)
      <4>1. to[j] = j + 1 /\ ~(j + 1 < at) /\ j + 1 # at /\ (j + 1) - 1 = j
        BY <1>2, <1>4, <1>5, <3>2
      <4>2. r[to[j]] = s[to[j] - 1]
        BY <1>1, <2>1, <4>1
      <4> QED
        BY <4>1, <4>2
    <3> QED
      BY <3>1, <3>2
  <2>3. g[to[j]] = LockedAs(s[j], d)
    BY <1>3, <2>1, <2>2
  <2> QED
    BY <1>2, <2>3
<1>9. Sum(g, R) = Sum(f, 1..n)
  <2> DEFINE S == 1..n
  <2> HIDE DEF R
  <2>1. Renames(to, S, R)
    BY <1>6, <1>7 DEF Renames
  <2>2. IsFiniteSet(S) /\ \A j \in S : f[j] \in Int /\ g[to[j]] = f[j]
    BY <1>2, <1>8
  <2> HIDE DEF S
  <2>3. Sum(g, R) = Sum(f, S)
    BY <2>1, <2>2, SumRenamed
  <2> QED
    BY <2>3 DEF S
<1>10. Sum(g, 1..n + 1) = g[at] + Sum(g, (1..n + 1) \ {at})
  <2> DEFINE S == 1..n + 1
  <2>1. at \in S /\ IsFiniteSet(S) /\ \A j \in S : g[j] \in Int
    BY <1>1, <1>3
  <2> HIDE DEF S
  <2>2. Sum(g, S) = g[at] + Sum(g, S \ {at})
    BY <2>1, SumTakes
  <2> QED
    BY <2>2 DEF S
<1>11. g[at] = LockedAs(o, d) /\ LockedAs(o, d) \in Nat
  <2>1. r[at] = o
    BY <1>1, <1>5
  <2> QED
    BY <1>1, <1>3, <2>1
<1>12. LockedIn(r, d) = LockedIn(s, d) + LockedAs(o, d)
  BY <1>2, <1>3, <1>9, <1>10, <1>11
<1> QED
  BY <1>12 DEF r

(* What expired orders had locked is no longer locked in the book.         *)
LEMMA LockedInRemoveExpired ==
  ASSUME NEW s \in Seq(LimitOrder), NEW d \in Denoms, NEW time \in Nat
  PROVE  LockedIn(s, d)
           = LockedIn(RemoveExpired(s, time), d)
             + Sum(Locks(s, d), {j \in 1..Len(s) : Expired(s[j], time)})
<1> DEFINE K == {j \in 1..Len(s) : ~Expired(s[j], time)}
           E == {j \in 1..Len(s) : Expired(s[j], time)}
           f == Locks(s, d)
           S == 1..Len(s)
<1>1. K \in SUBSET S /\ E \in SUBSET S /\ K \cup E = S /\ K \cap E = {}
  OBVIOUS
<1>2. LockedIn(RemoveExpired(s, time), d) = Sum(f, K)
  BY LockedInKept DEF RemoveExpired
<1>3. /\ LockedIn(s, d) = Sum(f, S) /\ IsFiniteSet(S)
      /\ \A j \in S : f[j] = LockedAs(s[j], d) /\ LockedAs(s[j], d) \in Nat
  BY LockedInType
<1>4. \A j \in S : f[j] \in Int
  <2> HIDE DEF f
  <2> QED
    BY <1>3
<1> HIDE DEF f, K, E, S
<1>5. IsFiniteSet(K) /\ IsFiniteSet(E)
  BY <1>1, <1>3, FS_Subset
<1>6. Sum(f, K \cup E) = Sum(f, K) + Sum(f, E)
  BY <1>1, <1>4, <1>5, SumUnion
<1> QED
  BY <1>1, <1>2, <1>3, <1>6 DEF f, E

LEMMA BookKeysFinite == IsFiniteSet(BookKeys)
<1> DEFINE P == Kinds \X (Denoms \X Denoms)
           f == [p \in P |-> <<p[1], p[2][1], p[2][2]>>]
<1>1. IsFiniteSet(Kinds)
  <2>1. IsFiniteSet({"buy"}) /\ IsFiniteSet({"sell"})
    BY FS_Singleton
  <2>2. IsFiniteSet({"buy"} \cup {"sell"})
    BY <2>1, FS_Union
  <2>3. Kinds = {"buy"} \cup {"sell"}
    BY DEF Kinds
  <2> QED
    BY <2>2, <2>3
<1>2. IsFiniteSet(P)
  BY <1>1, ConstantsAssumption, FS_Product
<1>3. f \in Surjection(P, BookKeys)
  <2>1. f \in [P -> BookKeys]
    BY DEF BookKeys
  <2>2. ASSUME NEW k \in BookKeys PROVE \E p \in P : f[p] = k
    <3>1. /\ k = <<k[1], k[2], k[3]>> /\ k[1] \in Kinds
          /\ k[2] \in Denoms /\ k[3] \in Denoms
      BY DEF BookKeys
    <3>2. <<k[1], <<k[2], k[3]>>>> \in P /\ f[<<k[1], <<k[2], k[3]>>>>] = k
      BY <3>1
    <3> QED
      BY <3>2
  <2> QED
    BY <2>1, <2>2 DEF Surjection
<1> HIDE DEF P, f
<1> QED
  BY <1>2, <1>3, FS_Surjection

(* The locks of the books, key by key.                                     *)
BookLocks(b, d) == [k \in BookKeys |-> LockedIn(b[k], d)]

LEMMA LockedInBooksType ==
  ASSUME NEW b \in Books, NEW d \in Denoms
  PROVE  /\ LockedInBooks(b, d) = Sum(BookLocks(b, d), BookKeys)
         /\ \A k \in BookKeys :
              BookLocks(b, d)[k] = LockedIn(b[k], d) /\ LockedIn(b[k], d) \in Nat
         /\ LockedInBooks(b, d) \in Nat
         /\ \A k \in BookKeys : LockedIn(b[k], d) <= LockedInBooks(b, d)
<1> DEFINE f == BookLocks(b, d)
<1>1. LockedInBooks(b, d) = Sum(f, BookKeys)
  BY DEF LockedInBooks, BookLocks, Sum
<1>2. \A k \in BookKeys : f[k] = LockedIn(b[k], d) /\ LockedIn(b[k], d) \in Nat
  <2>1. \A k \in BookKeys : LockedIn(b[k], d) \in Nat
    BY LockedInType DEF Books
  <2> QED
    BY <2>1 DEF BookLocks
<1> HIDE DEF f
<1>3. \A k \in BookKeys : f[k] \in Nat
  BY <1>2
<1>4. Sum(f, BookKeys) \in Nat /\ \A k \in BookKeys : f[k] <= Sum(f, BookKeys)
  BY <1>3, BookKeysFinite, SumNat, SumBounds
<1> QED
  BY <1>1, <1>2, <1>4 DEF f

LEMMA LockedInBooksChange ==
  ASSUME NEW b \in Books, NEW c \in Books, NEW d \in Denoms, NEW k \in BookKeys,
         \A l \in BookKeys : l # k => c[l] = b[l]
  PROVE  LockedInBooks(c, d)
           = LockedInBooks(b, d) + LockedIn(c[k], d) - LockedIn(b[k], d)
<1> DEFINE f == BookLocks(b, d)
           g == BookLocks(c, d)
<1>1. /\ LockedInBooks(b, d) = Sum(f, BookKeys)
      /\ \A l \in BookKeys : f[l] = LockedIn(b[l], d) /\ LockedIn(b[l], d) \in Nat
  BY LockedInBooksType
<1>2. /\ LockedInBooks(c, d) = Sum(g, BookKeys)
      /\ \A l \in BookKeys : g[l] = LockedIn(c[l], d) /\ LockedIn(c[l], d) \in Nat
  BY LockedInBooksType
<1> HIDE DEF f, g
<1>3. /\ g[k] \in Int /\ \A l \in BookKeys : f[l] \in Int
      /\ \A l \in BookKeys \ {k} : g[l] = f[l]
  BY <1>1, <1>2
<1>4. Sum(g, BookKeys) = Sum(f, BookKeys) + g[k] - f[k]
  BY <1>3, BookKeysFinite, SumChange
<1> QED
  BY <1>1, <1>2, <1>4

LEMMA LockedWaitingType ==
  ASSUME NEW set \in SUBSET LimitOrder, IsFiniteSet(set), NEW d \in Denoms
  PROVE  /\ LockedWaiting(set, d) \in Nat
         /\ \A o \in set : LockedAs(o, d) \in Nat /\ LockedAs(o, d) <= LockedWaiting(set, d)
<1> DEFINE f == [o \in set |-> LockedAs(o, d)]
<1>1. \A o \in set : f[o] = LockedAs(o, d) /\ LockedAs(o, d) \in Nat
  BY LockedAsType
<1>2. LockedWaiting(set, d) = Sum(f, set)
  BY DEF LockedWaiting, Sum
<1> HIDE DEF f
<1>3. \A o \in set : f[o] \in Nat
  BY <1>1
<1> QED
  BY <1>1, <1>2, <1>3, SumNat, SumBounds

LEMMA LockedWaitingEmpty ==
  ASSUME NEW d
  PROVE  LockedWaiting({}, d) = 0
BY SumEmpty DEF LockedWaiting, Sum

(* A refunded order waits no longer.                                       *)
LEMMA LockedWaitingRemove ==
  ASSUME NEW set \in SUBSET LimitOrder, IsFiniteSet(set), NEW d \in Denoms, NEW o \in set
  PROVE  LockedWaiting(set, d) = LockedAs(o, d) + LockedWaiting(set \ {o}, d)
<1> DEFINE T == set \ {o}
           f == [p \in set |-> LockedAs(p, d)]
           g == [p \in T |-> LockedAs(p, d)]
<1>1. LockedWaiting(set, d) = Sum(f, set) /\ LockedWaiting(T, d) = Sum(g, T)
  BY DEF LockedWaiting, Sum
<1>2. /\ f[o] = LockedAs(o, d) /\ \A p \in set : f[p] \in Int
      /\ \A p \in T : f[p] \in Int /\ f[p] = g[p]
  BY LockedAsType
<1>3. IsFiniteSet(T)
  BY FS_Subset
<1> HIDE DEF f, g
<1>4. Sum(f, set) = f[o] + Sum(f, T)
  BY <1>2, SumTakes
<1> HIDE DEF T
<1>5. Sum(f, T) = Sum(g, T)
  BY <1>2, <1>3, SumSame
<1> QED
  BY <1>1, <1>2, <1>4, <1>5 DEF T

(* What the books no longer lock after the expired orders have left is     *)
(* what waits to be refunded: no two keys and no two positions list the    *)
(* same order.                                                             *)
LEMMA LockedExpired ==
  ASSUME NEW b \in Books, NEW n \in Nat, NEW t \in Nat, WellKept(b, n, t),
         NEW time \in Nat, NEW d \in Denoms, NEW c \in Books,
         \A k \in BookKeys : c[k] = RemoveExpired(b[k], time),
         NEW out, out = UNION {{o \in Range(b[k]) : Expired(o, time)} : k \in BookKeys}
  PROVE  /\ IsFiniteSet(out)
         /\ LockedInBooks(b, d) = LockedInBooks(c, d) + LockedWaiting(out, d)
<1> DEFINE E(k) == {j \in 1..Len(b[k]) : Expired(b[k][j], time)}
           A == [k \in BookKeys |-> {o \in Range(b[k]) : Expired(o, time)}]
           w == [o \in out |-> LockedAs(o, d)]
           e == [k \in BookKeys |-> Sum(Locks(b[k], d), E(k))]
           f == BookLocks(b, d)
           g == BookLocks(c, d)
<1>1. \A k \in BookKeys :
        /\ A[k] = {o \in Range(b[k]) : Expired(o, time)}
        /\ e[k] = Sum(Locks(b[k], d), E(k))
  OBVIOUS
<1>2. \A k \in BookKeys :
        /\ b[k] \in Seq(LimitOrder) /\ Ranked(b[k]) /\ Range(b[k]) \subseteq LimitOrder
        /\ \A o \in Range(b[k]) : KeyOf(o) = k
  BY RangeOfOrders DEF Books, WellKept, StoredIn
<1>3. \A o \in out : o \in LimitOrder /\ w[o] = LockedAs(o, d) /\ LockedAs(o, d) \in Nat
  BY <1>2, LockedAsType
<1>4. LockedWaiting(out, d) = Sum(w, out)
  BY DEF LockedWaiting, Sum
<1>5. Partitions(A, BookKeys, out)
  <2> HIDE DEF A
  <2>1. \A k \in BookKeys : A[k] \subseteq out
    BY <1>1
  <2>2. \A o \in out : \E k \in BookKeys : o \in A[k]
    BY <1>1
  <2>3. ASSUME NEW k \in BookKeys, NEW l \in BookKeys, NEW o \in A[k] \cap A[l]
        PROVE  k = l
    <3>1. KeyOf(o) = k /\ KeyOf(o) = l
      BY <1>1, <1>2
    <3> QED
      BY <3>1
  <2> QED
    BY <2>1, <2>2, <2>3 DEF Partitions
<1> HIDE DEF A, w, e, f, g
<1>6. ASSUME NEW k \in BookKeys
      PROVE  /\ IsFiniteSet(A[k]) /\ e[k] = Sum(w, A[k])
             /\ e[k] \in Int /\ f[k] \in Int /\ g[k] \in Int
             /\ f[k] = g[k] + e[k]
  <2> DEFINE s == b[k]
             J == E(k)
             h == Locks(s, d)
             R == A[k]
  <2>1. s \in Seq(LimitOrder) /\ Ranked(s)
    BY <1>2
  <2>2. /\ Range(s) = {s[j] : j \in 1..Len(s)}
        /\ J \in SUBSET (1..Len(s)) /\ \A j \in 1..Len(s) : j \in J <=> Expired(s[j], time)
        /\ R = {o \in Range(s) : Expired(o, time)}
        /\ e[k] = Sum(h, J)
    BY <1>1, <2>1, RangeOfOrders
  <2>3. /\ IsFiniteSet(1..Len(s))
        /\ \A j \in 1..Len(s) : h[j] = LockedAs(s[j], d) /\ LockedAs(s[j], d) \in Nat
    BY <2>1, LockedInType
  <2>4. LockedIn(s, d) = LockedIn(c[k], d) + Sum(h, J)
    BY <2>1, LockedInRemoveExpired
  <2>5. /\ f[k] = LockedIn(b[k], d) /\ LockedIn(b[k], d) \in Nat
        /\ g[k] = LockedIn(c[k], d) /\ LockedIn(c[k], d) \in Nat
    BY LockedInBooksType DEF f, g
  <2>6. R \subseteq out
    BY <2>2
  <2> HIDE DEF h, J, E, R
  <2>7. IsFiniteSet(J) /\ \A j \in J : h[j] \in Int /\ w[s[j]] = h[j]
    <3>1. IsFiniteSet(J)
      BY <2>2, <2>3, FS_Subset
    <3>2. ASSUME NEW j \in J PROVE h[j] \in Int /\ w[s[j]] = h[j]
      <4>1. s[j] \in R /\ j \in 1..Len(s)
        BY <2>2
      <4> QED
        BY <1>3, <2>3, <2>6, <4>1
    <3> QED
      BY <3>1, <3>2
  <2>8. Renames(s, J, R)
    <3>1. \A j \in J : s[j] \in R
      BY <2>2
    <3>2. \A o \in R : \E j \in J : s[j] = o
      BY <2>2
    <3>3. \A j, l \in J : s[j] = s[l] => j = l
      BY <2>1, <2>2, RankedOnce
    <3> QED
      BY <3>1, <3>2, <3>3 DEF Renames
  <2> HIDE DEF s
  <2>9. IsFiniteSet(R) /\ Sum(w, R) = Sum(h, J)
    BY <2>7, <2>8, SumRenamed
  <2>10. Sum(h, J) \in Int
    BY <2>7, SumInt
  <2> QED
    BY <2>2, <2>4, <2>5, <2>9, <2>10 DEF R, s
<1>7. IsFiniteSet(out) /\ Sum(w, out) = Sum(e, BookKeys)
  <2>1. \A o \in out : w[o] \in Int
    BY <1>3
  <2>2. \A k \in BookKeys : IsFiniteSet(A[k]) /\ e[k] = Sum(w, A[k])
    BY <1>6
  <2> QED
    BY <1>5, <2>1, <2>2, BookKeysFinite, SumFamily
<1>8. Sum(f, BookKeys) = Sum(g, BookKeys) + Sum(e, BookKeys)
  <2>1. \A k \in BookKeys : g[k] \in Int /\ e[k] \in Int /\ f[k] = g[k] + e[k]
    BY <1>6
  <2> QED
    BY <2>1, BookKeysFinite, SumPlus
<1>9. LockedInBooks(b, d) = Sum(f, BookKeys) /\ LockedInBooks(c, d) = Sum(g, BookKeys)
  BY LockedInBooksType DEF f, g
<1> QED
  BY <1>4, <1>7, <1>8, <1>9

-----------------------------------------------------------------------------
(***************************************************************************)
(* CoinsConserved is not inductive alone: what a fill releases is what the *)
(* matched order had locked only because that order is of the other kind   *)
(* and of the same pair (BooksKept), and a rollback goes back to a state   *)
(* that must have added up too.                                            *)
(***************************************************************************)
AddsUp(c, b, set) ==
  \A d \in Denoms :
    TotalCoins(c, d) + LockedInBooks(b, d) + LockedWaiting(set, d)
      = TotalCoins(InitCoins, d)

(* The books of a transaction, with what the loop took counted off.        *)
Open == IF pc = "fill" THEN [books EXCEPT ![MatchingKey(tx)] = orderBook] ELSE books

Conserved ==
  /\ IsFiniteSet(toRefund)
  /\ AddsUp(coins, Open, toRefund)
  /\ InTx => AddsUp(saved.coins, saved.books, {})

LEMMA OpenTypes ==
  ASSUME BooksKept
  PROVE  /\ Open \in Books /\ coins \in Ledger /\ InitCoins \in Ledger
         /\ toRefund \in SUBSET LimitOrder
         /\ pc = "fill" => /\ MatchingKey(tx) \in BookKeys
                           /\ Open[MatchingKey(tx)] = orderBook
                           /\ \A k \in BookKeys : k # MatchingKey(tx) => Open[k] = books[k]
<1>1. /\ books \in Books /\ orderBook \in Seq(LimitOrder) /\ coins \in Ledger
      /\ toRefund \in SUBSET LimitOrder
  BY KeptTypes DEF BooksKept, Settled, TypeOK
<1>2. pc = "fill" => MatchingKey(tx) \in BookKeys
  BY TxTypes DEF BooksKept, InTx
<1> QED
  BY <1>1, <1>2, ConstantsAssumption DEF Open, Books

(* The order the loop looks at is as it is stored, and of the other kind.  *)
LEMMA MatchedOrder ==
  ASSUME BooksKept, pc = "fill", LoopGoesOn
  PROVE  /\ orderBook[i] \in LimitOrder
         /\ orderBook[i] \in Range(books[MatchingKey(tx)])
         /\ orderBook[i].kind = MatchingKind(tx.kind)
         /\ orderBook[i].amountDenom = tx.amountDenom
         /\ orderBook[i].priceDenom = tx.priceDenom
<1> DEFINE M == MatchingKey(tx)
           s == books[M]
<1>1. i \in 1..Len(orderBook) /\ orderBook[i] \in LimitOrder
  BY FillTypes DEF BooksKept
<1>2. M \in BookKeys /\ s \in Seq(LimitOrder)
  BY OpenTypes, KeptTypes DEF Books
<1>3. Len(s) = Len(orderBook) /\ orderBook[i] = s[i]
  BY <1>1 DEF BooksKept, FillKept, Consumed
<1>4. orderBook[i] \in Range(s)
  BY <1>1, <1>2, <1>3, RangeOfOrders
<1>5. KeyOf(orderBook[i]) = M
  BY <1>2, <1>4 DEF BooksKept, WellKept, StoredIn
<1> QED
  BY <1>1, <1>4, <1>5 DEF KeyOf, MatchingKey

(* A fill releases what it takes off the lock of the matched order.        *)
LEMMA ConservedFill ==
  ASSUME BooksKept, BooksKept', Conserved, fillStoredOrder
  PROVE  Conserved'
<1> DEFINE s == tx.sender
           b == orderBook[i].sender
           f == Fill.amount
           q == Fill.price
           total == TotalPrice(f, q)
           M == MatchingKey(tx)
           e == IF tx.kind = "buy" THEN tx.amountDenom ELSE tx.priceDenom
           y == IF tx.kind = "buy" THEN f ELSE total
<1>1. /\ pc = "fill" /\ LoopGoesOn /\ InTx /\ pc' = pc /\ tx' = tx
      /\ coins' = Settlement.coins
      /\ i \in 1..Len(orderBook)
      /\ orderBook \in Seq(LimitOrder) /\ orderBook' \in Seq(LimitOrder)
      /\ Len(orderBook') = Len(orderBook)
      /\ \A j \in 1..Len(orderBook) : j # i => orderBook'[j] = orderBook[j]
      /\ orderBook'[i] = [orderBook[i] EXCEPT !.amount = @ - Fill.amount]
      /\ orderBook'[i] \in LimitOrder
      /\ books' = books /\ toRefund' = toRefund /\ saved' = saved
  BY FillStep DEF BooksKept, Settled, TypeOK
<1>2. /\ s \in Accounts /\ tx.amountDenom \in Denoms /\ tx.priceDenom \in Denoms
      /\ tx.amountDenom # tx.priceDenom /\ tx.kind \in Kinds /\ M \in BookKeys
  BY <1>1, TxTypes DEF BooksKept
<1>3. /\ f \in Nat /\ f <= orderBook[i].amount /\ q = orderBook[i].price
      /\ total \in Nat
  BY <1>1, FillTypes DEF BooksKept
<1>4. /\ orderBook[i] \in LimitOrder
      /\ orderBook[i].kind = MatchingKind(tx.kind)
      /\ orderBook[i].amountDenom = tx.amountDenom
      /\ orderBook[i].priceDenom = tx.priceDenom
  BY <1>1, MatchedOrder
<1>5. /\ b \in Accounts /\ orderBook[i].amount \in Nat /\ q \in Nat
      /\ coins \in Ledger /\ coins' \in Ledger
  BY <1>3, <1>4 DEF LimitOrder, BooksKept, Settled, TypeOK
<1>6. total = f * q
  BY DEF TotalPrice
<1>7. /\ orderBook'[i].amount = orderBook[i].amount - f
      /\ orderBook'[i].price = q /\ orderBook'[i].kind = orderBook[i].kind
      /\ orderBook'[i].amountDenom = tx.amountDenom
      /\ orderBook'[i].priceDenom = tx.priceDenom
  BY <1>1, <1>3, <1>4 DEF LimitOrder
<1>8. e \in Denoms /\ y \in Nat
  BY <1>2, <1>3
<1>9. ~Settlement.err
  BY <1>1, SettlementCovered DEF BooksKept
<1> HIDE DEF f, q, total, s, b
<1>10. ASSUME NEW d \in Denoms
       PROVE  TotalCoins(coins', d) = TotalCoins(coins, d) + (IF d = e THEN y ELSE 0)
  <2>1. CASE tx.kind = "buy"
    <3> DEFINE r == sendAndUnlockCoins(s, b, tx.priceDenom, total, tx.amountDenom, f)
    <3>1. Settlement = r
      BY <2>1 DEF Settlement, s, b, total, f, q
    <3>2. ~r.err /\ coins' = r.coins
      BY <1>1, <1>9, <3>1
    <3>3. TotalCoins(r.coins, d) = TotalCoins(coins, d) + (IF d = tx.amountDenom THEN f ELSE 0)
      <4>1. tx.priceDenom # tx.amountDenom
        BY <1>2
      <4> QED
        BY <1>2, <1>3, <1>5, <3>2, <4>1, SettlementTotal
    <3> QED
      BY <2>1, <3>2, <3>3
  <2>2. CASE tx.kind # "buy"
    <3> DEFINE r == sendAndUnlockCoins(s, b, tx.amountDenom, f, tx.priceDenom, total)
    <3>1. Settlement = r
      BY <2>2 DEF Settlement, s, b, total, f, q
    <3>2. ~r.err /\ coins' = r.coins
      BY <1>1, <1>9, <3>1
    <3>3. TotalCoins(r.coins, d) = TotalCoins(coins, d) + (IF d = tx.priceDenom THEN total ELSE 0)
      BY <1>2, <1>3, <1>5, <3>2, SettlementTotal
    <3> QED
      BY <2>2, <3>2, <3>3
  <2> QED
    BY <2>1, <2>2
<1>11. ASSUME NEW d \in Denoms
       PROVE  LockedAs(orderBook'[i], d) = LockedAs(orderBook[i], d) - (IF d = e THEN y ELSE 0)
  <2>1. CASE tx.kind = "buy"
    <3>1. orderBook[i].kind = "sell"
      BY <1>4, <2>1 DEF MatchingKind
    <3> QED
      BY <1>3, <1>4, <1>5, <1>7, <2>1, <3>1 DEF LockedAs, LockedDenom, Locked
  <2>2. CASE tx.kind # "buy"
    <3>1. orderBook[i].kind = "buy"
      BY <1>2, <1>4, <2>2 DEF MatchingKind, Kinds
    <3> DEFINE x == orderBook[i].amount * q
               z == (orderBook[i].amount - f) * q
    <3>2. z = x - total /\ x \in Nat
      <4>1. z = x - f * q
        BY <1>3, <1>5, TimesDifference
      <4> QED
        BY <1>5, <1>6, <4>1
    <3>3. /\ LockedAs(orderBook[i], d) = IF d = tx.priceDenom THEN x ELSE 0
          /\ LockedAs(orderBook'[i], d) = IF d = tx.priceDenom THEN z ELSE 0
      BY <1>3, <1>4, <1>7, <3>1 DEF LockedAs, LockedDenom, Locked, TotalPrice
    <3> HIDE DEF x, z
    <3> QED
      BY <1>3, <2>2, <3>2, <3>3
  <2> QED
    BY <2>1, <2>2
<1> HIDE DEF M
<1>12. /\ Open \in Books /\ Open' \in Books
       /\ Open[M] = orderBook /\ Open'[M] = orderBook'
       /\ \A k \in BookKeys : k # M => Open'[k] = Open[k]
  <2>1. /\ Open \in Books /\ Open[M] = orderBook
        /\ \A k \in BookKeys : k # M => Open[k] = books[k]
    BY <1>1, OpenTypes DEF M
  <2>2. Open' = [books EXCEPT ![M] = orderBook']
    BY <1>1 DEF Open, M
  <2>3. books \in Books
    BY KeptTypes
  <2> QED
    BY <1>1, <1>2, <2>1, <2>2, <2>3 DEF Books
<1> HIDE DEF e, y
<1>13. ASSUME NEW d \in Denoms
       PROVE  TotalCoins(coins', d) + LockedInBooks(Open', d)
                = TotalCoins(coins, d) + LockedInBooks(Open, d)
  <2>1. LockedInBooks(Open', d)
          = LockedInBooks(Open, d) + LockedIn(orderBook', d) - LockedIn(orderBook, d)
    BY <1>2, <1>12, LockedInBooksChange
  <2>2. LockedIn(orderBook', d)
          = LockedIn(orderBook, d) + LockedAs(orderBook'[i], d) - LockedAs(orderBook[i], d)
    BY <1>1, LockedInChange
  <2>3. /\ LockedInBooks(Open, d) \in Nat /\ LockedIn(orderBook, d) \in Nat
        /\ LockedAs(orderBook[i], d) \in Nat /\ TotalCoins(coins, d) \in Nat
    BY <1>1, <1>4, <1>5, <1>12, LockedInBooksType, LockedInType, LockedAsType, TotalCoinsType
  <2> QED
    BY <1>8, <1>10, <1>11, <2>1, <2>2, <2>3
<1>14. AddsUp(coins', Open', toRefund)
  BY <1>13 DEF Conserved, AddsUp
<1> QED
  BY <1>1, <1>14 DEF Conserved, AddsUp, InTx

(* A transaction starts from what adds up, and saves it.                   *)
LEMMA ConservedProcess ==
  ASSUME BooksKept, Conserved, NEW m \in Msgs, processLimitOrder(m)
  PROVE  Conserved'
<1>1. /\ pc = "idle" /\ pc' = "fill" /\ tx' = m
      /\ orderBook' = books[MatchingKey(m)]
      /\ saved'.coins = coins /\ saved'.books = books
      /\ books' = books /\ coins' = coins /\ toRefund' = toRefund
  BY DEF processLimitOrder, getOrderBook, store
<1>2. books \in Books /\ toRefund = {} /\ Open = books
  BY <1>1, KeptTypes DEF BooksKept, RefundKept, Open
<1>3. Open' = books
  BY <1>1, <1>2 DEF Open, Books
<1> QED
  BY <1>1, <1>2, <1>3 DEF Conserved, AddsUp, InTx

(* Used up orders leave the book, with nothing locked.                     *)
LEMMA ConservedFillEnd ==
  ASSUME BooksKept, BooksKept', Conserved, fillEnd
  PROVE  Conserved'
<1> DEFINE M == MatchingKey(tx)
           r == RemoveFilledLimitOrders(orderBook)
<1>1. pc = "fill" /\ InTx /\ ~err
  BY DEF fillEnd, InTx, BooksKept, Settled, NoLateFailure
<1>2. /\ books' = [books EXCEPT ![M] = r]
      /\ pc' = "store" /\ coins' = coins /\ saved' = saved /\ toRefund' = toRefund
  BY <1>1 DEF fillEnd, setOrderBook
<1>3. /\ Open \in Books /\ M \in BookKeys /\ Open[M] = orderBook
      /\ \A k \in BookKeys : k # M => Open[k] = books[k]
      /\ orderBook \in Seq(LimitOrder) /\ coins \in Ledger
  BY <1>1, OpenTypes DEF BooksKept, Settled, TypeOK
<1>4. Open' = books' /\ books' \in Books /\ books \in Books
  BY <1>2, KeptTypes DEF Open, BooksKept, Settled, TypeOK
<1> HIDE DEF M
<1>5. Open'[M] = r /\ \A k \in BookKeys : k # M => Open'[k] = Open[k]
  BY <1>2, <1>3, <1>4 DEF Books
<1>6. ASSUME NEW d \in Denoms
      PROVE  LockedInBooks(Open', d) = LockedInBooks(Open, d)
  <2>1. LockedInBooks(Open', d)
          = LockedInBooks(Open, d) + LockedIn(Open'[M], d) - LockedIn(Open[M], d)
    BY <1>3, <1>4, <1>5, LockedInBooksChange
  <2>2. LockedIn(Open'[M], d) = LockedIn(Open[M], d)
    BY <1>3, <1>5, LockedInRemoveFilled
  <2>3. LockedInBooks(Open, d) \in Nat /\ LockedIn(Open[M], d) \in Nat
    BY <1>3, LockedInBooksType
  <2> QED
    BY <2>1, <2>2, <2>3
<1>7. InTx'
  BY <1>2 DEF InTx
<1> QED
  BY <1>1, <1>2, <1>6 DEF Conserved, AddsUp

(* The rest of an order locks what its sender is charged.                  *)
LEMMA ConservedStore ==
  ASSUME BooksKept, BooksKept', Conserved, storeUnfilledLimitOrder
  PROVE  Conserved'
<1> DEFINE o == NewLimitOrder
           x == Locked(o, unfilled)
           k == KeyOf(tx)
           s == books[k]
           r == AddLimitOrder(s, o)
<1>1. /\ InTx /\ pc = "store" /\ ~InTx' /\ pc' = "idle" /\ toRefund' = toRefund
      /\ unfilled = 0 => books' = books /\ coins' = coins
      /\ unfilled # 0 => books' = [books EXCEPT ![k] = r] /\ coins' = Lock.coins
  BY StoreStep DEF BooksKept
<1>2. Open = books /\ Open' = books' /\ books \in Books /\ books' \in Books /\ coins \in Ledger
  BY <1>1, KeptTypes DEF Open, BooksKept, Settled, TypeOK
<1>3. CASE unfilled = 0
  BY <1>1, <1>2, <1>3 DEF Conserved, AddsUp
<1>4. CASE unfilled # 0
  <2>1. /\ o \in LimitOrder /\ LockedDenom(o) \in Denoms /\ x \in Nat
        /\ o.amount = unfilled /\ tx.sender \in Accounts /\ k \in BookKeys
    BY <1>1, NewOrderTypes, TxTypes DEF BooksKept, NewLimitOrder
  <2>2. Lock = SubtractCoins(coins, tx.sender, LockedDenom(o), x) /\ ~Lock.err
    BY <1>1, LockEffect DEF BooksKept, Lock
  <2>3. s \in Seq(LimitOrder)
    BY <1>2, <2>1 DEF Books
  <2> HIDE DEF o, x, k
  <2>4. books'[k] = r /\ \A l \in BookKeys : l # k => books'[l] = books[l]
    BY <1>1, <1>2, <1>4, <2>1 DEF Books
  <2>5. ASSUME NEW d \in Denoms
        PROVE  TotalCoins(coins', d) + LockedInBooks(books', d)
                 = TotalCoins(coins, d) + LockedInBooks(books, d)
    <3>1. TotalCoins(coins', d) = TotalCoins(coins, d) - (IF d = LockedDenom(o) THEN x ELSE 0)
      BY <1>1, <1>2, <1>4, <2>1, <2>2, SubtractCoinsTotal
    <3>2. LockedInBooks(books', d) = LockedInBooks(books, d) + LockedIn(r, d) - LockedIn(s, d)
      BY <1>2, <2>1, <2>4, LockedInBooksChange
    <3>3. LockedIn(r, d) = LockedIn(s, d) + LockedAs(o, d)
      BY <2>1, <2>3, LockedInAdd
    <3>4. LockedAs(o, d) = IF d = LockedDenom(o) THEN x ELSE 0
      BY <2>1 DEF LockedAs, x
    <3>5. /\ LockedInBooks(books, d) \in Nat /\ LockedIn(s, d) \in Nat
          /\ TotalCoins(coins, d) \in Nat
      BY <1>2, <2>3, LockedInBooksType, LockedInType, TotalCoinsType
    <3> HIDE DEF r, s
    <3> QED
      BY <2>1, <3>1, <3>2, <3>3, <3>4, <3>5
  <2> QED
    BY <1>1, <1>2, <2>5 DEF Conserved, AddsUp
<1> QED
  BY <1>3, <1>4

(* A rollback returns to what added up.                                    *)
LEMMA ConservedRollback ==
  ASSUME BooksKept, Conserved, outOfGas
  PROVE  Conserved'
<1>1. /\ InTx /\ coins' = saved.coins /\ books' = saved.books /\ pc' = "idle"
      /\ toRefund' = toRefund
  BY DEF outOfGas, Rollback, Idle
<1>2. toRefund = {}
  BY <1>1 DEF BooksKept, RefundKept, InTx
<1>3. Open' = books'
  BY <1>1 DEF Open
<1> QED
  BY <1>1, <1>2, <1>3 DEF Conserved, AddsUp, InTx

(* What the expired orders had locked in the books waits to be refunded.   *)
LEMMA ConservedBeginBlocker ==
  ASSUME BooksKept, BooksKept', Conserved, BeginBlocker
  PROVE  Conserved'
<1>1. /\ pc = "idle" /\ pc' \in {"idle", "refund"} /\ coins' = coins
      /\ books' = [k \in BookKeys |-> RemoveExpired(books[k], now)]
      /\ toRefund' = ExpiredOrders(now)
  BY DEF BeginBlocker
<1>2. /\ Open = books /\ Open' = books' /\ toRefund = {} /\ ~InTx'
      /\ books \in Books /\ books' \in Books /\ coins \in Ledger /\ now \in Nat
      /\ nextOrderID \in Nat /\ blockTime \in Nat
      /\ WellKept(books, nextOrderID, blockTime)
  BY <1>1, KeptTypes DEF Open, InTx, BooksKept, RefundKept, Settled, TypeOK
<1>3. /\ \A k \in BookKeys : books'[k] = RemoveExpired(books[k], now)
      /\ toRefund' = UNION {{o \in Range(books[k]) : Expired(o, now)} : k \in BookKeys}
  BY <1>1 DEF ExpiredOrders
<1>4. ASSUME NEW d \in Denoms
      PROVE  /\ IsFiniteSet(toRefund')
             /\ LockedInBooks(books, d) = LockedInBooks(books', d) + LockedWaiting(toRefund', d)
  BY <1>2, <1>3, LockedExpired
<1>5. IsFiniteSet(toRefund')
  BY <1>4, ConstantsAssumption
<1>6. ASSUME NEW d \in Denoms
      PROVE  TotalCoins(coins', d) + LockedInBooks(Open', d) + LockedWaiting(toRefund', d)
               = TotalCoins(InitCoins, d)
  <2>1. TotalCoins(coins, d) + LockedInBooks(books, d) + LockedWaiting({}, d)
          = TotalCoins(InitCoins, d)
    BY <1>2 DEF Conserved, AddsUp
  <2>2. /\ LockedWaiting({}, d) = 0 /\ TotalCoins(coins, d) \in Nat
        /\ LockedInBooks(books', d) \in Nat
    BY <1>2, LockedWaitingEmpty, TotalCoinsType, LockedInBooksType
  <2>3. toRefund' \in SUBSET LimitOrder
    BY DEF BooksKept, Settled, TypeOK
  <2>4. LockedWaiting(toRefund', d) \in Nat
    BY <1>5, <2>3, LockedWaitingType
  <2> QED
    BY <1>1, <1>2, <1>4, <2>1, <2>2, <2>4
<1> QED
  BY <1>2, <1>5, <1>6 DEF Conserved, AddsUp

(* A refund pays what the order had locked.                                *)
LEMMA ConservedRefund ==
  ASSUME BooksKept, Conserved, NEW o \in toRefund, refundOrder(o)
  PROVE  Conserved'
<1> DEFINE d == LockedDenom(o)
           x == Locked(o, o.amount)
           T == toRefund \ {o}
<1>1. /\ pc = "refund" /\ pc' \in {"idle", "refund"} /\ books' = books
      /\ toRefund' = T /\ coins' = AddCoins(coins, o.sender, d, x).coins
  BY DEF refundOrder, Refund
<1>2. /\ Open = books /\ Open' = books /\ ~InTx' /\ books \in Books /\ coins \in Ledger
      /\ toRefund \in SUBSET LimitOrder /\ IsFiniteSet(toRefund)
  BY <1>1, KeptTypes DEF Open, InTx, BooksKept, Settled, TypeOK, Conserved
<1>3. o \in LimitOrder /\ o.sender \in Accounts /\ d \in Denoms /\ x \in Nat
  <2>1. o \in LimitOrder
    BY <1>2
  <2> QED
    BY <2>1 DEF LimitOrder, LockedDenom, Locked, TotalPrice
<1>4. IsFiniteSet(T) /\ T \in SUBSET LimitOrder
  BY <1>2, FS_Subset
<1> HIDE DEF d, x
<1>5. ASSUME NEW g \in Denoms
      PROVE  TotalCoins(coins', g) + LockedInBooks(Open', g) + LockedWaiting(toRefund', g)
               = TotalCoins(InitCoins, g)
  <2>1. TotalCoins(coins, g) + LockedInBooks(books, g) + LockedWaiting(toRefund, g)
          = TotalCoins(InitCoins, g)
    BY <1>2 DEF Conserved, AddsUp
  <2>2. TotalCoins(coins', g) = TotalCoins(coins, g) + (IF g = d THEN x ELSE 0)
    BY <1>1, <1>2, <1>3, AddCoinsTotal
  <2>3. LockedWaiting(toRefund, g) = LockedAs(o, g) + LockedWaiting(T, g)
    BY <1>2, LockedWaitingRemove
  <2>4. LockedAs(o, g) = IF g = d THEN x ELSE 0
    BY <1>3 DEF LockedAs, d, x
  <2>5. /\ TotalCoins(coins, g) \in Nat /\ LockedInBooks(books, g) \in Nat
        /\ LockedWaiting(T, g) \in Nat
    BY <1>2, <1>4, TotalCoinsType, LockedInBooksType, LockedWaitingType
  <2> HIDE DEF T
  <2> QED
    BY <1>1, <1>2, <1>3, <2>1, <2>2, <2>3, <2>4, <2>5
<1> QED
  BY <1>1, <1>2, <1>4, <1>5 DEF Conserved, AddsUp

LEMMA ConservedInit == Init => Conserved
<1> SUFFICES ASSUME Init PROVE Conserved
  OBVIOUS
<1>1. /\ pc = "idle" /\ coins = InitCoins /\ toRefund = {} /\ Open = books /\ books \in Books
      /\ \A k \in BookKeys : books[k] = <<>>
  BY DEF Init, Open, Books
<1>2. InitCoins \in Ledger
  BY ConstantsAssumption
<1>3. ASSUME NEW d \in Denoms PROVE LockedInBooks(books, d) = 0
  <2> DEFINE f == BookLocks(books, d)
  <2>1. LockedInBooks(books, d) = Sum(f, BookKeys)
    BY <1>1, LockedInBooksType
  <2>2. ASSUME NEW k \in BookKeys PROVE f[k] = 0
    <3>1. books[k] = <<>> /\ f[k] = LockedIn(books[k], d)
      BY <1>1, LockedInBooksType
    <3>2. LockedIn(<<>>, d) = Sum(Locks(<<>>, d), {})
      <4>1. 1..Len(<<>>) = {}
        OBVIOUS
      <4> QED
        BY <4>1 DEF LockedIn, Locks, Sum
    <3> QED
      BY <3>1, <3>2, SumEmpty
  <2> HIDE DEF f
  <2> QED
    BY <2>1, <2>2, BookKeysFinite, SumZero
<1>4. ASSUME NEW d \in Denoms PROVE LockedWaiting({}, d) = 0 /\ TotalCoins(InitCoins, d) \in Nat
  BY <1>2, LockedWaitingEmpty, TotalCoinsType
<1>5. AddsUp(coins, Open, toRefund)
  BY <1>1, <1>3, <1>4 DEF AddsUp
<1>6. IsFiniteSet(toRefund) /\ ~InTx
  BY <1>1, FS_EmptySet DEF InTx
<1> QED
  BY <1>5, <1>6 DEF Conserved

LEMMA ConservedNext == BooksKept /\ BooksKept' /\ Conserved /\ [Next]_vars => Conserved'
<1> SUFFICES ASSUME BooksKept, BooksKept', Conserved, [Next]_vars PROVE Conserved'
  OBVIOUS
<1>1. ASSUME NEW m \in Msgs, processLimitOrder(m) PROVE Conserved'
  BY <1>1, ConservedProcess
<1>2. CASE fillStoredOrder
  BY <1>2, ConservedFill
<1>3. CASE fillEnd
  BY <1>3, ConservedFillEnd
<1>4. CASE storeUnfilledLimitOrder
  BY <1>4, ConservedStore
<1>5. CASE outOfGas
  BY <1>5, ConservedRollback
<1>6. CASE BeginBlocker
  BY <1>6, ConservedBeginBlocker
<1>7. ASSUME NEW o \in toRefund, refundOrder(o) PROVE Conserved'
  BY <1>7, ConservedRefund
<1>8. CASE Tick
  BY <1>8 DEF Tick, store, local, Conserved, Open, InTx, AddsUp
<1>9. CASE UNCHANGED vars
  BY <1>9 DEF vars, store, local, Conserved, Open, InTx, AddsUp
<1> QED
  BY <1>1, <1>2, <1>3, <1>4, <1>5, <1>6, <1>7, <1>8, <1>9 DEF Next

(* The inductive invariant holds in every reachable state.                 *)
THEOREM ConservedAlways == Spec => []Conserved
<1>1. BooksKept /\ BooksKept' /\ Conserved /\ [Next]_vars => Conserved'
  BY ConservedNext
<1> QED
  BY <1>1, ConservedInit, BooksAlwaysKept, PTL DEF Spec

(* No sequence of orders, fills, expiries, refunds and rollbacks creates   *)
(* or destroys a coin: balances, locks and waiting refunds always add up   *)
(* to the coins of genesis.                                                *)
THEOREM AlwaysConserved == Spec => []CoinsConserved
<1>1. Conserved => CoinsConserved
  BY DEF Conserved, AddsUp, Open, CoinsConserved
<1> QED
  BY <1>1, ConservedAlways, PTL

-----------------------------------------------------------------------------
(* Products.                                                               *)

(* Where coins add up, no balance and no lock exceeds the supply.          *)
LEMMA WithinSupply ==
  ASSUME NEW c \in Ledger, NEW b \in Books, NEW set \in SUBSET LimitOrder,
         IsFiniteSet(set), AddsUp(c, b, set), NEW d \in Denoms
  PROVE  /\ \A a \in Accounts : c[a][d] <= TotalCoins(InitCoins, d)
         /\ \A o \in OrdersOf(b) \cup set : LockedAs(o, d) <= TotalCoins(InitCoins, d)
         /\ TotalCoins(InitCoins, d) \in Nat
<1>1. TotalCoins(c, d) + LockedInBooks(b, d) + LockedWaiting(set, d) = TotalCoins(InitCoins, d)
  BY DEF AddsUp
<1>2. /\ TotalCoins(c, d) \in Nat /\ LockedInBooks(b, d) \in Nat /\ LockedWaiting(set, d) \in Nat
      /\ \A a \in Accounts : c[a][d] \in Nat /\ c[a][d] <= TotalCoins(c, d)
  BY TotalCoinsType, LockedInBooksType, LockedWaitingType DEF Ledger
<1>3. ASSUME NEW o \in OrdersOf(b)
      PROVE  LockedAs(o, d) \in Nat /\ LockedAs(o, d) <= LockedInBooks(b, d)
  <2>1. PICK k \in BookKeys : o \in Range(b[k])
    BY DEF OrdersOf
  <2>2. b[k] \in Seq(LimitOrder)
    BY DEF Books
  <2>3. PICK j \in 1..Len(b[k]) : o = b[k][j]
    BY <2>1, <2>2, RangeOfOrders
  <2>4. LockedAs(o, d) \in Nat /\ LockedAs(o, d) <= LockedIn(b[k], d) /\ LockedIn(b[k], d) \in Nat
    BY <2>2, <2>3, LockedInType
  <2>5. LockedIn(b[k], d) <= LockedInBooks(b, d)
    BY LockedInBooksType
  <2> QED
    BY <1>2, <2>4, <2>5
<1>4. \A o \in set : LockedAs(o, d) \in Nat /\ LockedAs(o, d) <= LockedWaiting(set, d)
  BY LockedWaitingType
<1> QED
  BY <1>1, <1>2, <1>3, <1>4

LEMMA LockOfBuyer ==
  ASSUME NEW o \in LimitOrder, o.kind = "buy"
  PROVE  LockedAs(o, o.priceDenom) = TotalPrice(o.amount, o.price)
BY DEF LockedAs, LockedDenom, Locked

(* What a running transaction may still have to pay.                       *)
LEMMA TxWithinSupply ==
  ASSUME BooksKept, Conserved, InTx, tx.kind = "buy"
  PROVE  unfilled * tx.price <= TotalCoins(InitCoins, tx.priceDenom)
<1> DEFINE d == tx.priceDenom
           a == tx.sender
           S == TotalCoins(InitCoins, d)
           x == unfilled * tx.price
<1>1. /\ a \in Accounts /\ d \in Denoms /\ tx.price \in Nat /\ unfilled \in Nat
      /\ coins \in Ledger
  BY TxTypes DEF BooksKept, Settled, TypeOK
<1>2. coins[a][d] >= x /\ x \in Nat
  BY <1>1 DEF BooksKept, Settled, Covered
<1>3. coins[a][d] <= S /\ S \in Nat
  BY <1>1, OpenTypes, WithinSupply DEF Conserved
<1>4. coins[a][d] \in Nat
  BY <1>1 DEF Ledger
<1> HIDE DEF x, S, a, d
<1>5. x <= S
  BY <1>2, <1>3, <1>4
<1> QED
  BY <1>5 DEF x, S, d

LEMMA ProductsBounded == BooksKept /\ Conserved => ProductsInSupply
<1> SUFFICES ASSUME BooksKept, Conserved PROVE ProductsInSupply
  OBVIOUS
<1>1. ASSUME pc = "fill", LoopGoesOn
      PROVE  TotalPrice(Fill.amount, orderBook[i].price)
               <= TotalCoins(InitCoins, orderBook[i].priceDenom)
  <2> DEFINE o == orderBook[i]
             f == Fill.amount
             q == o.price
             d == o.priceDenom
             S == TotalCoins(InitCoins, d)
  <2>1. /\ o \in LimitOrder /\ o.kind = MatchingKind(tx.kind) /\ d = tx.priceDenom
        /\ f \in Nat /\ f <= unfilled /\ f <= o.amount /\ Crosses(o, tx.kind, tx.price)
    BY <1>1, FillTypes, MatchedOrder DEF BooksKept, LoopGoesOn
  <2>2. /\ InTx /\ tx.kind \in Kinds /\ tx.price \in Nat /\ unfilled \in Nat
        /\ q \in Nat /\ o.amount \in Nat /\ d \in Denoms
    BY <1>1, <2>1, TxTypes DEF InTx, BooksKept, Settled, TypeOK, LimitOrder
  <2>3. S \in Nat
    BY <2>2, OpenTypes, TotalCoinsType
  <2> HIDE DEF f, q
  <2>4. CASE tx.kind = "buy"
    <3>1. q <= tx.price
      BY <2>1, <2>2, <2>4 DEF Crosses, q
    <3>2. f * q <= unfilled * tx.price /\ f * q \in Nat /\ unfilled * tx.price \in Nat
      BY <2>1, <2>2, <3>1, TimesMonotone
    <3>3. unfilled * tx.price <= S
      BY <2>1, <2>2, <2>4, TxWithinSupply
    <3> DEFINE x == f * q
               y == unfilled * tx.price
    <3> HIDE DEF x, y, S
    <3>4. x <= S
      BY <2>3, <3>2, <3>3 DEF x, y
    <3> QED
      BY <3>4 DEF x, S, f, q, TotalPrice
  <2>5. CASE tx.kind # "buy"
    <3>1. o.kind = "buy"
      BY <2>1, <2>2, <2>5 DEF MatchingKind, Kinds
    <3>2. f * q <= o.amount * q /\ f * q \in Nat /\ o.amount * q \in Nat
      BY <2>1, <2>2, TimesMonotone
    <3>3. LockedAs(o, d) = o.amount * q
      BY <2>1, <3>1, LockOfBuyer DEF TotalPrice, q
    <3>4. o \in OrdersOf(Open)
      <4>1. Open[MatchingKey(tx)] = orderBook /\ MatchingKey(tx) \in BookKeys
        BY <1>1, OpenTypes
      <4>2. orderBook \in Seq(LimitOrder) /\ i \in 1..Len(orderBook)
        BY <1>1, FillTypes DEF BooksKept, Settled, TypeOK
      <4>3. o \in Range(orderBook)
        BY <4>2, RangeOfOrders
      <4> QED
        BY <4>1, <4>3 DEF OrdersOf
    <3>5. LockedAs(o, d) <= S
      BY <2>2, <3>4, OpenTypes, WithinSupply DEF Conserved
    <3> DEFINE x == f * q
               y == o.amount * q
    <3> HIDE DEF x, y, S
    <3>6. x <= S
      BY <2>3, <3>2, <3>3, <3>5 DEF x, y
    <3> QED
      BY <3>6 DEF x, S, f, q, TotalPrice
  <2> QED
    BY <2>4, <2>5
<1>2. ASSUME InTx, tx.kind = "buy"
      PROVE  TotalPrice(unfilled, tx.price) <= TotalCoins(InitCoins, tx.priceDenom)
  BY <1>2, TxWithinSupply DEF TotalPrice
<1>3. ASSUME NEW o \in OpenOrders \cup toRefund, o.kind = "buy"
      PROVE  TotalPrice(o.amount, o.price) <= TotalCoins(InitCoins, o.priceDenom)
  <2>1. OpenOrders = OrdersOf(books)
    BY DEF OpenOrders, OrdersOf
  <2>2. books \in Books /\ toRefund \in SUBSET LimitOrder
    BY KeptTypes
  <2>3. o \in LimitOrder
    BY <2>1, <2>2, OrdersOfBooks
  <2>4. o.priceDenom \in Denoms
    BY <2>3 DEF LimitOrder
  <2>5. LockedAs(o, o.priceDenom) <= TotalCoins(InitCoins, o.priceDenom)
    <3>1. CASE pc = "fill"
      <4>1. /\ books = saved.books /\ toRefund = {} /\ InTx
            /\ saved \in [coins : Ledger, books : Books, nextOrderID : Nat]
        BY <3>1, TxTypes DEF BooksKept, FillKept, RefundKept, InTx
      <4>2. AddsUp(saved.coins, books, {}) /\ saved.coins \in Ledger
        BY <4>1 DEF Conserved
      <4>3. o \in OrdersOf(books) \cup {}
        BY <2>1, <4>1
      <4> QED
        BY <2>2, <2>4, <4>2, <4>3, FS_EmptySet, WithinSupply
    <3>2. CASE pc # "fill"
      <4>1. Open = books /\ AddsUp(coins, books, toRefund) /\ coins \in Ledger
        BY <3>2, OpenTypes DEF Open, Conserved
      <4> QED
        BY <2>1, <2>2, <2>4, <4>1, WithinSupply DEF Conserved
    <3> QED
      BY <3>1, <3>2
  <2> QED
    BY <1>3, <2>3, <2>5, LockOfBuyer
<1> QED
  BY <1>1, <1>2, <1>3 DEF ProductsInSupply

(* No product of getTotalPrice after the checks of a message exceeds the   *)
(* supply of the denom it is a price in.                                   *)
THEOREM AlwaysInSupply == Spec => []ProductsInSupply
BY ProductsBounded, BooksAlwaysKept, ConservedAlways, PTL

-----------------------------------------------------------------------------
(***************************************************************************)
(* The exchange keeps the promise of Escrow.  The loop takes, order by     *)
(* order, what is promised: Matched holds at each of its iterations, and   *)
(* once it is over Traded says the same in the words of Trade, about the   *)
(* set of the orders that were open before.  Below, t is the message, s    *)
(* the matching book and r the copy that the loop works on; e are the      *)
(* balances before and orders the open orders.                             *)
(***************************************************************************)
Takes(s, r) == [j \in 1..Len(s) |-> s[j].amount - r[j].amount]

PaidIn(t) == IF t.kind = "buy" THEN t.priceDenom ELSE t.amountDenom

PayAt(t, s, r, j) ==
  IF t.kind = "buy" THEN (s[j].amount - r[j].amount) * r[j].price
                    ELSE s[j].amount - r[j].amount

GotIn(t) == IF t.kind = "buy" THEN t.amountDenom ELSE t.priceDenom

GotAt(t, s, r, j) ==
  IF t.kind = "buy" THEN s[j].amount - r[j].amount
                    ELSE (s[j].amount - r[j].amount) * r[j].price

Paying(t, s, r) == [j \in 1..Len(r) |-> PayAt(t, s, r, j)]

Getting(t, s, r) == [j \in 1..Len(r) |-> GotAt(t, s, r, j)]

OwnedBy(r, a) == {j \in 1..Len(r) : r[j].sender = a}

(* The balance of a in d after trades in which the owners of orders were   *)
(* paid x, the one of a among them xa, and the sender got y.               *)
Moved(t, e, a, d, xa, x, y) ==
  e[a][d] + (IF d = PaidIn(t) THEN xa ELSE 0)
          - (IF a = t.sender /\ d = PaidIn(t) THEN x ELSE 0)
          + (IF a = t.sender /\ d = GotIn(t) THEN y ELSE 0)

BalancesMoved(t, s, r, c, e) ==
  \A a \in Accounts, d \in Denoms :
    c[a][d] = Moved(t, e, a, d, Sum(Paying(t, s, r), OwnedBy(r, a)),
                    Sum(Paying(t, s, r), 1..Len(r)), Sum(Getting(t, s, r), 1..Len(r)))

TakenFrom(s, r) == Sum(Takes(s, r), 1..Len(s))

Matched ==
  pc = "fill" =>
    LET s == saved.books[MatchingKey(tx)]
    IN  /\ \A j \in 1..Len(s) : j < i => Crosses(s[j], tx.kind, tx.price)
        /\ unfilled = tx.amount - TakenFrom(s, orderBook)
        /\ BalancesMoved(tx, s, orderBook, coins, saved.coins)

PaidFor(orders, t) ==
  [o \in orders |-> IF t.kind = "buy" THEN Abstract!Taken(orders, t, o) * o.price
                                      ELSE Abstract!Taken(orders, t, o)]

GotFor(orders, t) ==
  [o \in orders |-> IF t.kind = "buy" THEN Abstract!Taken(orders, t, o)
                                      ELSE Abstract!Taken(orders, t, o) * o.price]

OrdersOwned(orders, a) == {o \in orders : o.sender = a}

Left(orders, t) ==
  {o \in {[o EXCEPT !.amount = @ - Abstract!Taken(orders, t, o)] : o \in orders} : o.amount # 0}

BalancesTraded(t, orders, c, e) ==
  \A a \in Accounts, d \in Denoms :
    c[a][d] = Moved(t, e, a, d, Sum(PaidFor(orders, t), OrdersOwned(orders, a)),
                    Sum(PaidFor(orders, t), orders), Sum(GotFor(orders, t), orders))

Traded ==
  pc = "store" =>
    LET orders == OrdersOf(saved.books)
    IN  /\ unfilled = Abstract!Rest(orders, tx)
        /\ OrdersOf(books) = Left(orders, tx)
        /\ BalancesTraded(tx, orders, coins, saved.coins)

Offered ==
  /\ InTx => Abstract!Affordable(saved.coins, tx)
  /\ now <= MaxTime

Promised == Offered /\ Matched /\ Traded

LEMMA TakingFinite ==
  ASSUME NEW r \in Seq(LimitOrder)
  PROVE  /\ Len(r) \in Nat /\ IsFiniteSet(1..Len(r))
         /\ \A a : OwnedBy(r, a) \subseteq 1..Len(r) /\ IsFiniteSet(OwnedBy(r, a))
<1>1. Len(r) \in Nat /\ IsFiniteSet(1..Len(r))
  BY LenProperties, FS_Interval
<1>2. \A a : OwnedBy(r, a) \subseteq 1..Len(r)
  BY DEF OwnedBy
<1> QED
  BY <1>1, <1>2, FS_Subset

LEMMA TakingTypes ==
  ASSUME NEW t, NEW s \in Seq(LimitOrder), NEW r \in Seq(LimitOrder), Len(s) = Len(r),
         NEW j \in 1..Len(r)
  PROVE  /\ Takes(s, r)[j] = s[j].amount - r[j].amount /\ Takes(s, r)[j] \in Int
         /\ Paying(t, s, r)[j] = PayAt(t, s, r, j) /\ Paying(t, s, r)[j] \in Int
         /\ Getting(t, s, r)[j] = GotAt(t, s, r, j) /\ Getting(t, s, r)[j] \in Int
         /\ s[j] = r[j] => /\ Takes(s, r)[j] = 0
                           /\ Paying(t, s, r)[j] = 0
                           /\ Getting(t, s, r)[j] = 0
<1> DEFINE x == s[j].amount - r[j].amount
           q == r[j].price
<1>1. r[j] \in LimitOrder /\ s[j] \in LimitOrder
  BY ElementOfSeq
<1>2. x \in Int /\ q \in Int /\ (s[j] = r[j] => x = 0)
  <2>1. r[j].amount \in Nat /\ s[j].amount \in Nat /\ r[j].price \in Nat
    BY <1>1 DEF LimitOrder
  <2> QED
    BY <2>1
<1>3. /\ PayAt(t, s, r, j) = (IF t.kind = "buy" THEN x * q ELSE x)
      /\ GotAt(t, s, r, j) = (IF t.kind = "buy" THEN x ELSE x * q)
  BY DEF PayAt, GotAt
<1>4. j \in 1..Len(s)
  OBVIOUS
<1>5. Takes(s, r)[j] = x /\ Paying(t, s, r)[j] = PayAt(t, s, r, j)
      /\ Getting(t, s, r)[j] = GotAt(t, s, r, j)
  BY <1>4 DEF Takes, Paying, Getting
<1> HIDE DEF x, q
<1>6. x * q \in Int /\ 0 * q = 0
  BY <1>2
<1>7. PayAt(t, s, r, j) \in Int /\ GotAt(t, s, r, j) \in Int
  BY <1>2, <1>3, <1>6
<1>8. s[j] = r[j] => PayAt(t, s, r, j) = 0 /\ GotAt(t, s, r, j) = 0
  BY <1>2, <1>3, <1>6
<1> QED
  BY <1>2, <1>5, <1>7, <1>8 DEF x

(* Before the loop starts nothing is taken.                                *)
LEMMA MatchedProcess ==
  ASSUME BooksKept, BooksKept', NEW m \in Msgs, processLimitOrder(m)
  PROVE  Matched'
<1> DEFINE r == orderBook'
           c == coins'
<1>1. /\ pc' = "fill" /\ tx' = m /\ i' = 1 /\ unfilled' = m.amount
      /\ saved'.books[MatchingKey(m)] = r /\ saved'.coins = c
  BY DEF processLimitOrder, getOrderBook, store
<1>2. c \in Ledger /\ r \in Seq(LimitOrder) /\ unfilled' \in Nat
  BY DEF BooksKept, Settled, TypeOK
<1> HIDE DEF r, c
<1> DEFINE D == 1..Len(r)
<1>3. /\ IsFiniteSet(D) /\ \A j \in D : ~(j < 1)
      /\ \A a : OwnedBy(r, a) \subseteq D /\ IsFiniteSet(OwnedBy(r, a))
      /\ \A j \in D : Takes(r, r)[j] = 0 /\ Paying(m, r, r)[j] = 0 /\ Getting(m, r, r)[j] = 0
  <2>1. /\ IsFiniteSet(D)
        /\ \A a : OwnedBy(r, a) \subseteq D /\ IsFiniteSet(OwnedBy(r, a))
    BY <1>2, TakingFinite
  <2>3. \A j \in D : Takes(r, r)[j] = 0 /\ Paying(m, r, r)[j] = 0 /\ Getting(m, r, r)[j] = 0
    BY <1>2, TakingTypes
  <2>2. \A j \in D : ~(j < 1)
    OBVIOUS
  <2> QED
    BY <2>1, <2>2, <2>3
<1>4. TakenFrom(r, r) = Sum(Takes(r, r), D)
  BY DEF TakenFrom
<1>5. m.amount = m.amount - TakenFrom(r, r)
  <2> HIDE DEF D
  <2>1. TakenFrom(r, r) = 0
    BY <1>3, <1>4, SumZero
  <2> QED
    BY <1>1, <1>2, <2>1
<1>6. ASSUME NEW a \in Accounts, NEW d \in Denoms
      PROVE  c[a][d] = Moved(m, c, a, d, Sum(Paying(m, r, r), OwnedBy(r, a)),
                             Sum(Paying(m, r, r), D), Sum(Getting(m, r, r), D))
  <2> HIDE DEF D
  <2>1. /\ Sum(Paying(m, r, r), OwnedBy(r, a)) = 0
        /\ Sum(Paying(m, r, r), D) = 0
        /\ Sum(Getting(m, r, r), D) = 0
    BY <1>3, SumZero
  <2>2. c[a][d] \in Int
    BY <1>2 DEF Ledger
  <2> QED
    BY <2>1, <2>2 DEF Moved
<1>7. BalancesMoved(m, r, r, c, c)
  BY <1>6 DEF BalancesMoved
<1>8. \A j \in 1..Len(r) : j < 1 => Crosses(r[j], m.kind, m.price)
  BY <1>3
<1> QED
  BY <1>1, <1>5, <1>7, <1>8 DEF Matched, r, c

(* One settlement moves the price of one fill from the sender to the owner *)
(* of the order, and what that had locked to the sender.                   *)
LEMMA SettlementMoves ==
  ASSUME BooksKept, pc = "fill", LoopGoesOn, NEW x, NEW y,
         x = IF tx.kind = "buy" THEN Fill.amount * orderBook[i].price ELSE Fill.amount,
         y = IF tx.kind = "buy" THEN Fill.amount ELSE Fill.amount * orderBook[i].price
  PROVE  /\ x \in Nat /\ y \in Nat
         /\ \A a \in Accounts, d \in Denoms :
              Settlement.coins[a][d]
                = Moved(tx, coins, a, d, IF orderBook[i].sender = a THEN x ELSE 0, x, y)
<1> DEFINE s == tx.sender
           b == orderBook[i].sender
           f == Fill.amount
           q == orderBook[i].price
           total == TotalPrice(f, q)
           D == PaidIn(tx)
           E == GotIn(tx)
           r == sendAndUnlockCoins(s, b, D, x, E, y)
<1>1. /\ s \in Accounts /\ tx.amountDenom \in Denoms /\ tx.priceDenom \in Denoms
      /\ tx.amountDenom # tx.priceDenom
  BY TxTypes DEF InTx, BooksKept
<1>2. /\ f \in Nat /\ Fill.price = q /\ total \in Nat /\ orderBook[i] \in LimitOrder
  BY FillTypes DEF BooksKept
<1>3. b \in Accounts /\ q \in Nat /\ coins \in Ledger
  BY <1>2 DEF LimitOrder, BooksKept, Settled, TypeOK
<1>4. ~Settlement.err /\ total = f * q
  BY SettlementCovered DEF BooksKept, TotalPrice
<1>5. Settlement = r /\ x \in Nat /\ y \in Nat
  <2>1. CASE tx.kind = "buy"
    <3>1. D = tx.priceDenom /\ E = tx.amountDenom /\ x = total /\ y = f
      BY <1>4, <2>1 DEF PaidIn, GotIn
    <3> HIDE DEF D, E, total, f, q, s, b
    <3>2. Settlement = sendAndUnlockCoins(s, b, tx.priceDenom, total, tx.amountDenom, f)
      BY <1>2, <2>1 DEF Settlement, s, b, total, f, q
    <3> QED
      BY <1>2, <3>1, <3>2
  <2>2. CASE tx.kind # "buy"
    <3>1. D = tx.amountDenom /\ E = tx.priceDenom /\ x = f /\ y = total
      BY <1>4, <2>2 DEF PaidIn, GotIn
    <3> HIDE DEF D, E, total, f, q, s, b
    <3>2. Settlement = sendAndUnlockCoins(s, b, tx.amountDenom, f, tx.priceDenom, total)
      BY <1>2, <2>2 DEF Settlement, s, b, total, f, q
    <3> QED
      BY <1>2, <3>1, <3>2
  <2> QED
    BY <2>1, <2>2
<1>6. D \in Denoms /\ E \in Denoms /\ D # E
  BY <1>1 DEF PaidIn, GotIn
<1> HIDE DEF D, E, s, b
<1>7. ~r.err => Settles(coins, r.coins, s, b, D, x, E, y)
  BY <1>1, <1>3, <1>5, <1>6, SettlementEffect
<1>8. ASSUME NEW a \in Accounts, NEW d \in Denoms
      PROVE  Settlement.coins[a][d] = Moved(tx, coins, a, d, IF b = a THEN x ELSE 0, x, y)
  <2> HIDE DEF r
  <2> DEFINE z == Settlement.coins[a][d]
             u == coins[a][d]
  <2>1. z = u - (IF a = s /\ d = D THEN x ELSE 0)
              + (IF a = b /\ d = D THEN x ELSE 0)
              + (IF a = s /\ d = E THEN y ELSE 0)
    BY <1>4, <1>5, <1>7 DEF Settles
  <2>2. u \in Int
    BY <1>3 DEF Ledger
  <2>3. Moved(tx, coins, a, d, IF b = a THEN x ELSE 0, x, y)
          = u + (IF d = D THEN (IF b = a THEN x ELSE 0) ELSE 0)
              - (IF a = s /\ d = D THEN x ELSE 0)
              + (IF a = s /\ d = E THEN y ELSE 0)
    BY DEF Moved, D, E, s
  <2> HIDE DEF z, u
  <2>4. z = u + (IF d = D THEN (IF b = a THEN x ELSE 0) ELSE 0)
              - (IF a = s /\ d = D THEN x ELSE 0)
              + (IF a = s /\ d = E THEN y ELSE 0)
    BY <1>5, <2>1, <2>2
  <2> QED
    BY <2>3, <2>4 DEF z
<1> QED
  BY <1>5, <1>8 DEF b

(* g is f, but for x more at k.                                            *)
Raises(f, g, S, k, x) ==
  /\ x \in Int
  /\ \A j \in S : f[j] \in Int /\ g[j] = IF j = k THEN f[j] + x ELSE f[j]

LEMMA SumRaised ==
  ASSUME NEW S, IsFiniteSet(S), NEW k, NEW x, NEW f, NEW g, Raises(f, g, S, k, x)
  PROVE  /\ Sum(f, S) \in Int
         /\ Sum(g, S) = Sum(f, S) + (IF k \in S THEN x ELSE 0)
<1> USE DEF Raises
<1>1. Sum(f, S) \in Int
  BY SumInt
<1>2. CASE k \in S
  <2>1. f[k] \in Int /\ g[k] = f[k] + x /\ g[k] \in Int
    BY <1>2
  <2>2. Sum(g, S) = Sum(f, S) + g[k] - f[k]
    BY <1>2, <2>1, SumChange
  <2> QED
    BY <1>1, <1>2, <2>1, <2>2
<1>3. CASE k \notin S
  <2>1. \A j \in S : f[j] \in Int /\ f[j] = g[j]
    BY <1>3
  <2>2. Sum(f, S) = Sum(g, S)
    BY <2>1, SumSame
  <2> QED
    BY <1>1, <1>3, <2>2
<1> QED
  BY <1>2, <1>3, <1>1

(* A fill takes from the order at i, and settles just that.                *)
LEMMA MatchedFill ==
  ASSUME BooksKept, BooksKept', Matched, fillStoredOrder
  PROVE  Matched'
<1> DEFINE f == Fill.amount
           q == orderBook[i].price
           x == IF tx.kind = "buy" THEN f * q ELSE f
           y == IF tx.kind = "buy" THEN f ELSE f * q
           s == saved.books[MatchingKey(tx)]
           r == orderBook
           u == orderBook'
           c == coins
           e == saved.coins
           D == 1..Len(r)
<1>1. /\ pc = "fill" /\ LoopGoesOn /\ pc' = pc /\ tx' = tx /\ InTx
      /\ coins' = Settlement.coins
      /\ unfilled' = unfilled - f /\ i' = i + 1
      /\ i \in D
      /\ r \in Seq(LimitOrder)
      /\ Len(u) = Len(r)
      /\ \A j \in D : j # i => u[j] = r[j]
      /\ u[i] = [r[i] EXCEPT !.amount = @ - f]
      /\ books' = books /\ saved' = saved
  BY FillStep DEF BooksKept
<1>2. /\ f \in Nat /\ r[i] \in LimitOrder /\ Fill.ok = Crosses(r[i], tx.kind, tx.price)
      /\ r[i].amount \in Nat /\ q \in Nat
      /\ tx.amount \in Nat /\ unfilled \in Nat /\ i \in Nat
  <2>1. tx.amount \in Nat /\ unfilled \in Nat /\ i \in Nat
    BY <1>1, TxTypes, KeptTypes DEF BooksKept
  <2>2. /\ f \in Nat /\ r[i] \in LimitOrder /\ Fill.ok = Crosses(r[i], tx.kind, tx.price)
    BY <1>1, FillTypes DEF BooksKept
  <2> QED
    BY <2>1, <2>2 DEF LimitOrder
<1>3. /\ u[i].amount = r[i].amount - f
      /\ u[i].price = q /\ u[i].sender = r[i].sender
  BY <1>1, <1>2 DEF LimitOrder
<1>4. books[MatchingKey(tx)] = s
  BY <1>1 DEF BooksKept, FillKept
<1>5. /\ s \in Seq(LimitOrder) /\ u \in Seq(LimitOrder) /\ Len(s) = Len(r) /\ s[i] = r[i]
      /\ c \in Ledger /\ coins' \in Ledger /\ e \in Ledger
  <2>1. s \in Seq(LimitOrder)
    BY <1>1, <1>4, OpenTypes, KeptTypes DEF Books
  <2>2. Len(s) = Len(r)
    BY <1>1, <1>4 DEF BooksKept, FillKept, Consumed
  <2>3. s[i] = r[i]
    <3>1. i >= i
      BY <1>1
    <3> QED
      BY <1>1, <1>4, <2>2, <3>1 DEF BooksKept, FillKept, Consumed
  <2>4. u \in Seq(LimitOrder) /\ c \in Ledger /\ coins' \in Ledger
    BY DEF BooksKept, Settled, TypeOK
  <2>5. e \in Ledger
    BY <1>1, TxTypes DEF InTx, BooksKept
  <2> QED
    BY <2>1, <2>2, <2>3, <2>4, <2>5
<1>6. /\ x \in Nat /\ y \in Nat
      /\ \A a \in Accounts, d \in Denoms :
           coins'[a][d] = Moved(tx, c, a, d, IF r[i].sender = a THEN x ELSE 0, x, y)
  BY <1>1, SettlementMoves
<1>7. /\ \A j \in 1..Len(s) : j < i => Crosses(s[j], tx.kind, tx.price)
      /\ unfilled = tx.amount - TakenFrom(s, r)
      /\ BalancesMoved(tx, s, r, c, e)
  BY <1>1 DEF Matched
<1>8. Crosses(s[i], tx.kind, tx.price)
  BY <1>1, <1>2, <1>5 DEF LoopGoesOn
<1> HIDE DEF s, r, u, c, e, f, q
<1>9. /\ Len(s) = Len(r) /\ Len(u) = Len(s) /\ 1..Len(s) = D /\ 1..Len(u) = D
      /\ IsFiniteSet(D) /\ \A j \in D : j \in Int
  BY <1>1, <1>5, TakingFinite
<1>10. /\ \A a : OwnedBy(r, a) \subseteq D /\ IsFiniteSet(OwnedBy(r, a))
       /\ \A j \in D :
            /\ s[j] = r[j] => /\ Takes(s, r)[j] = 0
                              /\ Paying(tx, s, r)[j] = 0 /\ Getting(tx, s, r)[j] = 0
            /\ Takes(s, r)[j] = s[j].amount - r[j].amount /\ Takes(s, r)[j] \in Int
            /\ Paying(tx, s, r)[j] = PayAt(tx, s, r, j) /\ Paying(tx, s, r)[j] \in Int
            /\ Getting(tx, s, r)[j] = GotAt(tx, s, r, j) /\ Getting(tx, s, r)[j] \in Int
  <2>1. \A a : OwnedBy(r, a) \subseteq D /\ IsFiniteSet(OwnedBy(r, a))
    BY <1>1, TakingFinite
  <2> QED
    BY <1>1, <1>5, <2>1, TakingTypes
<1>11. \A j \in D :
         /\ Takes(s, u)[j] = s[j].amount - u[j].amount
         /\ Paying(tx, s, u)[j] = PayAt(tx, s, u, j)
         /\ Getting(tx, s, u)[j] = GotAt(tx, s, u, j)
  <2>1. Len(s) = Len(u) /\ D = 1..Len(u)
    BY <1>9
  <2> HIDE DEF D
  <2> QED
    BY <1>5, <2>1, TakingTypes
<1>12. s[i].amount - u[i].amount = f /\ PayAt(tx, s, u, i) = x /\ GotAt(tx, s, u, i) = y
  <2>1. s[i].amount - u[i].amount = f
    BY <1>2, <1>3, <1>5
  <2> QED
    BY <1>3, <2>1 DEF PayAt, GotAt
<1>13. \A j \in D : j # i =>
         /\ s[j].amount - u[j].amount = s[j].amount - r[j].amount
         /\ PayAt(tx, s, u, j) = PayAt(tx, s, r, j) /\ GotAt(tx, s, u, j) = GotAt(tx, s, r, j)
  BY <1>1 DEF PayAt, GotAt
<1> HIDE DEF D, x, y
<1>14. /\ Raises(Takes(s, r), Takes(s, u), D, i, f)
       /\ Raises(Paying(tx, s, r), Paying(tx, s, u), D, i, x)
       /\ Raises(Getting(tx, s, r), Getting(tx, s, u), D, i, y)
  <2>1. \A j \in D :
         /\ Takes(s, u)[j] = IF j = i THEN Takes(s, r)[j] + f ELSE Takes(s, r)[j]
         /\ Paying(tx, s, u)[j] = IF j = i THEN Paying(tx, s, r)[j] + x ELSE Paying(tx, s, r)[j]
         /\ Getting(tx, s, u)[j] = IF j = i THEN Getting(tx, s, r)[j] + y ELSE Getting(tx, s, r)[j]
    <3>1. Takes(s, r)[i] = 0 /\ Paying(tx, s, r)[i] = 0 /\ Getting(tx, s, r)[i] = 0
      BY <1>1, <1>5, <1>10
    <3> QED
      BY <1>2, <1>6, <1>10, <1>11, <1>12, <1>13, <3>1
  <2>2. f \in Int /\ x \in Int /\ y \in Int
    BY <1>2, <1>6
  <2> QED
    BY <1>10, <2>1, <2>2 DEF Raises
<1>16. unfilled' = tx.amount - TakenFrom(s, u)
  <2>1. Sum(Takes(s, r), D) \in Int /\ Sum(Takes(s, u), D) = Sum(Takes(s, r), D) + f
    <3>1. /\ Sum(Takes(s, r), D) \in Int
          /\ Sum(Takes(s, u), D) = Sum(Takes(s, r), D) + (IF i \in D THEN f ELSE 0)
      BY <1>9, <1>14, SumRaised
    <3> QED
      BY <1>1, <3>1
  <2>2. TakenFrom(s, u) = Sum(Takes(s, u), D) /\ TakenFrom(s, r) = Sum(Takes(s, r), D)
    BY <1>9 DEF TakenFrom
  <2> QED
    BY <1>1, <1>2, <1>7, <2>1, <2>2
<1>17. ASSUME NEW a \in Accounts, NEW d \in Denoms
       PROVE  coins'[a][d] = Moved(tx, e, a, d, Sum(Paying(tx, s, u), OwnedBy(u, a)),
                Sum(Paying(tx, s, u), 1..Len(u)), Sum(Getting(tx, s, u), 1..Len(u)))
  <2> DEFINE S == OwnedBy(r, a)
             g == Paying(tx, s, r)
             h == Getting(tx, s, r)
             gg == Paying(tx, s, u)
             hh == Getting(tx, s, u)
  <2>1. OwnedBy(u, a) = S /\ (i \in S <=> r[i].sender = a) /\ S \subseteq D /\ IsFiniteSet(S)
    <3>1. \A j \in D : u[j].sender = r[j].sender
      BY <1>1, <1>3
    <3> QED
      BY <1>1, <1>9, <1>10, <3>1 DEF OwnedBy, D
  <2>2. Len(r) = Len(u)
    BY <1>9
  <2>3. c[a][d] = Moved(tx, e, a, d, Sum(g, S), Sum(g, D), Sum(h, D))
    BY <1>7 DEF BalancesMoved, D
  <2>4. coins'[a][d] = Moved(tx, c, a, d, IF i \in S THEN x ELSE 0, x, y)
    BY <1>6, <2>1
  <2>5. c[a][d] \in Int /\ e[a][d] \in Int
    BY <1>5 DEF Ledger
  <2> HIDE DEF S, g, h, gg, hh
  <2>6. Raises(g, gg, D, i, x) /\ Raises(h, hh, D, i, y) /\ Raises(g, gg, S, i, x)
    BY <1>14, <2>1 DEF Raises, g, h, gg, hh
  <2>7. Sum(g, D) \in Int /\ Sum(gg, D) = Sum(g, D) + (IF i \in D THEN x ELSE 0)
    BY <1>9, <2>6, SumRaised
  <2>8. Sum(h, D) \in Int /\ Sum(hh, D) = Sum(h, D) + (IF i \in D THEN y ELSE 0)
    BY <1>9, <2>6, SumRaised
  <2>9. Sum(g, S) \in Int /\ Sum(gg, S) = Sum(g, S) + (IF i \in S THEN x ELSE 0)
    BY <2>1, <2>6, SumRaised
  <2>10. coins'[a][d] = Moved(tx, e, a, d, Sum(gg, S), Sum(gg, D), Sum(hh, D))
    <3> DEFINE P == d = PaidIn(tx)
               Q == d = GotIn(tx)
               A == a = tx.sender
               z == e[a][d]
    <3>1. c[a][d] = z + (IF P THEN Sum(g, S) ELSE 0) - (IF A /\ P THEN Sum(g, D) ELSE 0)
                      + (IF A /\ Q THEN Sum(h, D) ELSE 0)
      BY <2>3 DEF Moved
    <3>2. coins'[a][d] = c[a][d] + (IF P THEN (IF i \in S THEN x ELSE 0) ELSE 0)
                      - (IF A /\ P THEN x ELSE 0) + (IF A /\ Q THEN y ELSE 0)
      BY <2>4 DEF Moved
    <3>3. Moved(tx, e, a, d, Sum(gg, S), Sum(gg, D), Sum(hh, D))
            = z + (IF P THEN Sum(gg, S) ELSE 0) - (IF A /\ P THEN Sum(gg, D) ELSE 0)
                + (IF A /\ Q THEN Sum(hh, D) ELSE 0)
      BY DEF Moved
    <3>5. z \in Int /\ x \in Nat /\ y \in Nat
      BY <1>6, <2>5
    <3>6. Sum(gg, D) = Sum(g, D) + x /\ Sum(hh, D) = Sum(h, D) + y
      BY <1>1, <2>7, <2>8
    <3> HIDE DEF z
    <3> QED
      BY <2>7, <2>8, <2>9, <3>1, <3>2, <3>3, <3>5, <3>6
  <2>11. 1..Len(u) = D
    BY <1>9
  <2> QED
    BY <2>1, <2>10, <2>11 DEF gg, hh
<1>18. BalancesMoved(tx, s, u, coins', e)
  BY <1>17 DEF BalancesMoved
<1>19. \A j \in 1..Len(s) : j < i + 1 => Crosses(s[j], tx.kind, tx.price)
  <2>1. \A j \in D : j < i + 1 => j < i \/ j = i
    BY <1>2, <1>9
  <2> QED
    BY <1>7, <1>8, <1>9, <2>1
<1> QED
  BY <1>1, <1>16, <1>18, <1>19 DEF Matched, s, u, e

-----------------------------------------------------------------------------
(***************************************************************************)
(* What Trade says of a message, order by order, is what the loop took.    *)
(* orders are those open before the message t, s is its matching book; the *)
(* loop left r of it, stopped at n and left u of t unfilled.               *)
(***************************************************************************)
MarketOf(orders, s, t) ==
  /\ IsFiniteSet(orders) /\ orders \subseteq LimitOrder
  /\ s \in Seq(LimitOrder) /\ Ranked(s)
  /\ Range(s) = {o \in orders : KeyOf(o) = MatchingKey(t)}
  /\ \A o \in orders : o.amount > 0
  /\ t.kind \in Kinds /\ t.amount \in Nat /\ t.price \in Nat

LoopEnded(s, r, t, n, u) ==
  /\ r \in Seq(LimitOrder) /\ Len(r) = Len(s) /\ n \in Nat \ {0} /\ u \in Nat
  /\ \A j \in 1..Len(s) :
       /\ Shrunk(r[j], s[j])
       /\ j >= n => r[j] = s[j]
       /\ j < n => /\ r[j].amount = 0 \/ (j = n - 1 /\ u = 0)
                   /\ Crosses(s[j], t.kind, t.price)
  /\ n \in 1..Len(s) => u = 0 \/ ~Crosses(s[n], t.kind, t.price)
  /\ u = t.amount - TakenFrom(s, r)

LEMMA SumsCoincide ==
  ASSUME NEW f, NEW S
  PROVE  Abstract!SumFunctionOnSet(f, S) = Sum(f, S)
BY DEF Abstract!SumFunctionOnSet, Abstract!FoldFunctionOnSet, Abstract!MapThenFoldSet,
       Sum, SumFunctionOnSet, FoldFunctionOnSet, MapThenFoldSet

LEMMA MinOfTwo ==
  ASSUME NEW a \in Int, NEW b \in Int
  PROVE  Abstract!Min({a, b}) = IF a <= b THEN a ELSE b
<1>1. \E x \in {a, b} : \A y \in {a, b} : x <= y
  OBVIOUS
<1> QED
  BY <1>1 DEF Abstract!Min

(* The orders of the matching book and their positions.                    *)
LEMMA BookPositions ==
  ASSUME NEW orders, NEW s, NEW t, MarketOf(orders, s, t)
  PROVE  /\ Len(s) \in Nat /\ IsFiniteSet(1..Len(s))
         /\ Range(s) = {s[j] : j \in 1..Len(s)}
         /\ \A j \in 1..Len(s) :
              /\ s[j] \in orders /\ s[j] \in LimitOrder
              /\ s[j].amount \in Nat /\ s[j].amount > 0 /\ s[j].price \in Nat
              /\ s[j].orderID \in Nat
              /\ s[j].kind = MatchingKind(t.kind) /\ s[j].kind \in Kinds
              /\ s[j].kind # t.kind
              /\ s[j].amountDenom = t.amountDenom /\ s[j].priceDenom = t.priceDenom
         /\ \A j, k \in 1..Len(s) : s[j] = s[k] => j = k
<1>1. /\ Len(s) \in Nat /\ IsFiniteSet(1..Len(s))
      /\ Range(s) = {s[j] : j \in 1..Len(s)}
  <2>1. s \in Seq(LimitOrder)
    BY DEF MarketOf
  <2>2. Len(s) \in Nat /\ Range(s) = {s[j] : j \in 1..Len(s)}
    BY <2>1, RangeOfOrders
  <2> QED
    BY <2>2, FS_Interval
<1>2. ASSUME NEW j \in 1..Len(s)
      PROVE  /\ s[j] \in orders /\ s[j] \in LimitOrder
             /\ s[j].amount \in Nat /\ s[j].amount > 0 /\ s[j].price \in Nat
             /\ s[j].orderID \in Nat
             /\ s[j].kind = MatchingKind(t.kind) /\ s[j].kind \in Kinds
             /\ s[j].kind # t.kind
             /\ s[j].amountDenom = t.amountDenom /\ s[j].priceDenom = t.priceDenom
  <2>1. s[j] \in orders /\ KeyOf(s[j]) = MatchingKey(t)
    BY <1>1 DEF MarketOf
  <2>2. s[j] \in LimitOrder /\ s[j].amount > 0 /\ t.kind \in Kinds
    BY <2>1 DEF MarketOf
  <2>3. /\ s[j].kind = MatchingKind(t.kind)
        /\ s[j].amountDenom = t.amountDenom /\ s[j].priceDenom = t.priceDenom
    BY <2>1 DEF KeyOf, MatchingKey
  <2>4. s[j].kind \in Kinds /\ s[j].kind # t.kind
    BY <2>2, <2>3 DEF MatchingKind, Kinds
  <2> QED
    BY <2>1, <2>2, <2>3, <2>4 DEF LimitOrder
<1>3. \A j, k \in 1..Len(s) : s[j] = s[k] => j = k
  BY RankedOnce DEF MarketOf
<1> QED
  BY <1>1, <1>2, <1>3

LEMMA AgreeingOrders ==
  ASSUME NEW orders, NEW s, NEW t, MarketOf(orders, s, t), NEW o \in orders
  PROVE  Abstract!Agree(o, t) <=> o \in Range(s) /\ Crosses(o, t.kind, t.price)
<1>1. o \in LimitOrder /\ t.kind \in Kinds /\ t.price \in Nat
  BY DEF MarketOf
<1>2. o.kind \in Kinds /\ o.price \in Nat
  BY <1>1 DEF LimitOrder
<1>3. o \in Range(s) <=> o.kind = MatchingKind(t.kind) /\ o.amountDenom = t.amountDenom
                         /\ o.priceDenom = t.priceDenom
  BY DEF MarketOf, KeyOf, MatchingKey
<1>4. o.kind = MatchingKind(t.kind) <=> o.kind # t.kind
  BY <1>1, <1>2 DEF MatchingKind, Kinds
<1>5. Crosses(o, t.kind, t.price) <=> /\ t.kind = "buy" => o.price <= t.price
                                      /\ t.kind = "sell" => o.price >= t.price
  BY <1>1, <1>2 DEF Crosses, Kinds
<1> QED
  BY <1>3, <1>4, <1>5 DEF Abstract!Agree

LEMMA RankIsPriority ==
  ASSUME NEW orders, NEW s, NEW t, MarketOf(orders, s, t),
         NEW j \in 1..Len(s), NEW k \in 1..Len(s)
  PROVE  Abstract!Before(s[k], s[j]) <=> k < j
<1> DEFINE o == s[j]
           p == s[k]
<1>1. /\ Len(s) \in Nat
      /\ o.price \in Nat /\ p.price \in Nat /\ o.orderID \in Nat /\ p.orderID \in Nat
      /\ o.kind \in Kinds /\ p.kind = o.kind
      /\ o = p => j = k
  BY BookPositions
<1>2. j < k => Outranks(o, p)
  BY DEF MarketOf, Ranked
<1>3. k < j => Outranks(p, o)
  BY DEF MarketOf, Ranked
<1>4. Abstract!Before(p, o) <=> Outranks(p, o)
  BY DEF Abstract!Before, Outranks
<1> HIDE DEF o, p
<1>5. ~(Outranks(o, p) /\ Outranks(p, o)) /\ ~Outranks(o, o)
  BY <1>1 DEF Outranks, Kinds
<1>6. j < k \/ j = k \/ k < j
  BY <1>1
<1>7. j = k => o = p
  BY DEF o, p
<1>8. ~(k < j) => ~Outranks(p, o)
  BY <1>2, <1>5, <1>6, <1>7
<1> QED
  BY <1>3, <1>4, <1>8 DEF o, p

Amts(s) == [k \in 1..Len(s) |-> s[k].amount]

(* If an order crosses, those before it are those ahead of it.             *)
LEMMA AmountAhead ==
  ASSUME NEW orders, NEW s, NEW t, MarketOf(orders, s, t),
         NEW j \in 1..Len(s), Crosses(s[j], t.kind, t.price)
  PROVE  LET ahead == {p \in orders : Abstract!Agree(p, t) /\ Abstract!Before(p, s[j])}
         IN  Sum([p \in orders |-> p.amount], ahead) = Sum(Amts(s), 1..(j - 1))
<1> DEFINE D == 1..(j - 1)
           f == [p \in orders |-> p.amount]
           g == Amts(s)
           ahead == {p \in orders : Abstract!Agree(p, t) /\ Abstract!Before(p, s[j])}
<1>1. /\ Len(s) \in Nat /\ IsFiniteSet(D) /\ D \subseteq 1..Len(s)
      /\ \A k \in 1..Len(s) : k \in D <=> k < j
  <2>1. Len(s) \in Nat
    BY BookPositions
  <2>2. IsFiniteSet(D)
    BY FS_Interval
  <2> QED
    BY <2>1, <2>2
<1>2. \A k \in D : Crosses(s[k], t.kind, t.price)
  <2> SUFFICES ASSUME NEW k \in D, ~Crosses(s[k], t.kind, t.price) PROVE FALSE
    OBVIOUS
  <2>1. k \in 1..Len(s) /\ k <= j
    BY <1>1
  <2>2. \A l \in 1..Len(s) : s[l].kind = MatchingKind(t.kind)
    BY BookPositions
  <2> QED
    BY <2>1, <2>2, RestDoesNotCross DEF MarketOf
<1>3. \A k \in D : s[k] \in ahead
  <2> SUFFICES ASSUME NEW k \in D PROVE s[k] \in ahead
    OBVIOUS
  <2>1. k \in 1..Len(s) /\ k < j
    BY <1>1
  <2>2. s[k] \in orders /\ s[k] \in Range(s)
    BY <2>1, BookPositions
  <2> QED
    BY <1>2, <2>1, <2>2, AgreeingOrders, RankIsPriority
<1>4. ASSUME NEW p \in ahead PROVE \E k \in D : s[k] = p
  <2>1. p \in orders /\ p \in Range(s) /\ Abstract!Before(p, s[j])
    BY AgreeingOrders
  <2>2. PICK k \in 1..Len(s) : s[k] = p
    BY <2>1, BookPositions
  <2>3. k < j
    BY <2>1, <2>2, RankIsPriority
  <2> QED
    BY <1>1, <2>2, <2>3
<1>5. \A k \in D : g[k] \in Int /\ f[s[k]] = g[k]
  <2> SUFFICES ASSUME NEW k \in D
               PROVE  g[k] \in Int /\ f[s[k]] = g[k]
    OBVIOUS
  <2>1. k \in 1..Len(s)
    BY <1>1
  <2>2. s[k] \in orders /\ s[k].amount \in Nat
    BY <2>1, BookPositions
  <2> QED
    BY <2>1, <2>2 DEF Amts
<1>6. \A k, l \in D : s[k] = s[l] => k = l
  BY <1>1, BookPositions
<1> HIDE DEF D, f, g, ahead
<1>7. Renames(s, D, ahead)
  <2>1. \A p \in ahead : \E k \in D : s[k] = p
    BY <1>4
  <2> QED
    BY <1>3, <1>6, <2>1 DEF Renames
<1>8. IsFiniteSet(D) /\ \A k \in D : g[k] \in Int /\ f[s[k]] = g[k]
  BY <1>1, <1>5
<1>9. Sum(f, ahead) = Sum(g, D)
  BY <1>7, <1>8, SumRenamed
<1> QED
  BY <1>9 DEF D, f, g, ahead

(* How much the loop took from the orders up to j.                         *)
LEMMA TakenUpTo ==
  ASSUME NEW orders, NEW s, NEW t, MarketOf(orders, s, t),
         NEW r, NEW n, NEW u, LoopEnded(s, r, t, n, u), NEW j \in 1..Len(s)
  PROVE  LET T == Sum(Amts(s), 1..(j - 1))
             x == Takes(s, r)[j]
         IN  /\ T \in Nat /\ x \in Nat /\ TakenFrom(s, r) \in Int
             /\ x = s[j].amount - r[j].amount /\ x <= s[j].amount
             /\ j < n => T + x <= TakenFrom(s, r)
             /\ j < n /\ x # s[j].amount => T + x = TakenFrom(s, r) /\ u = 0
             /\ j >= n => x = 0 /\ T >= TakenFrom(s, r)
<1> DEFINE D == 1..Len(s)
           L == 1..(j - 1)
           H == (j + 1)..Len(s)
           f == Takes(s, r)
           g == Amts(s)
           h == Amts(r)
<1>1. /\ Len(s) \in Nat /\ Len(r) = Len(s) /\ IsFiniteSet(D) /\ n \in Nat /\ u \in Nat
      /\ r \in Seq(LimitOrder) /\ s \in Seq(LimitOrder)
  BY BookPositions DEF LoopEnded, MarketOf
<1>2. /\ L \subseteq D /\ H \subseteq D /\ j \in D /\ j \notin L \cup H
      /\ D \ {j} = L \cup H /\ L \cap H = {}
      /\ \A k \in L : k < j
      /\ \A k \in H : k > j
      /\ \A k \in D : k \in Int
  BY <1>1
<1>3. IsFiniteSet(L) /\ IsFiniteSet(H)
  BY <1>1, <1>2, FS_Subset
<1>4. ASSUME NEW k \in D
      PROVE  /\ g[k] = s[k].amount /\ h[k] = r[k].amount /\ f[k] = g[k] - h[k]
             /\ f[k] \in Nat /\ g[k] \in Nat /\ h[k] \in Nat
             /\ k >= n => f[k] = 0
             /\ k < n => f[k] = g[k] \/ (k = n - 1 /\ u = 0)
  <2>1. /\ s[k] \in LimitOrder /\ r[k] \in LimitOrder
        /\ Shrunk(r[k], s[k]) /\ (k >= n => r[k] = s[k])
        /\ (k < n => r[k].amount = 0 \/ (k = n - 1 /\ u = 0))
    BY <1>1, ElementOfSeq DEF LoopEnded
  <2>2. /\ s[k].amount \in Nat /\ r[k].amount \in Nat /\ r[k].amount <= s[k].amount
    BY <2>1 DEF Shrunk, LimitOrder
  <2>3. k \in 1..Len(s) /\ k \in 1..Len(r)
    BY <1>1
  <2>4. g[k] = s[k].amount /\ h[k] = r[k].amount /\ f[k] = s[k].amount - r[k].amount
    BY <2>3 DEF Amts, Takes
  <2>5. k >= n => r[k].amount = s[k].amount
    BY <2>1
  <2> HIDE DEF f, g, h, D
  <2>6. f[k] = g[k] - h[k] /\ f[k] \in Nat
    BY <2>2, <2>4
  <2> QED
    BY <2>1, <2>2, <2>4, <2>5, <2>6
<1>5. TakenFrom(s, r) = Sum(f, D)
  BY DEF TakenFrom
<1> HIDE DEF D, L, H, f, g, h
<1>6. /\ \A k \in D : f[k] \in Int /\ g[k] \in Int /\ h[k] \in Int
      /\ \A k \in D : f[k] \in Nat /\ g[k] \in Nat /\ h[k] \in Nat
      /\ \A k \in D : g[k] = f[k] + h[k]
  <2>1. \A k \in D : f[k] = g[k] - h[k] /\ f[k] \in Nat /\ g[k] \in Nat /\ h[k] \in Nat
    BY <1>4
  <2> QED
    BY <2>1
<1>7. /\ Sum(g, L) \in Nat /\ Sum(f, L) \in Nat /\ Sum(h, L) \in Nat /\ Sum(f, H) \in Nat
  <2>1. /\ \A k \in L : f[k] \in Nat /\ g[k] \in Nat /\ h[k] \in Nat
        /\ \A k \in H : f[k] \in Nat
    BY <1>2, <1>6
  <2> QED
    BY <1>3, <2>1, SumNat
<1>8. Sum(f, D) = f[j] + Sum(f, L) + Sum(f, H)
  <2>1. Sum(f, D) = f[j] + Sum(f, D \ {j})
    BY <1>1, <1>2, <1>6, SumTakes
  <2>2. \A k \in L \cup H : f[k] \in Int
    BY <1>2, <1>6
  <2>3. Sum(f, L \cup H) = Sum(f, L) + Sum(f, H)
    BY <1>2, <1>3, <2>2, SumUnion
  <2>4. f[j] \in Nat
    BY <1>2, <1>6
  <2>5. Sum(f, D) = f[j] + Sum(f, L \cup H)
    BY <1>2, <2>1
  <2> QED
    BY <1>7, <2>3, <2>4, <2>5
<1>9. Sum(g, L) = Sum(f, L) + Sum(h, L)
  <2>1. \A k \in L : f[k] \in Int /\ h[k] \in Int /\ g[k] = f[k] + h[k]
    BY <1>2, <1>6
  <2> QED
    BY <1>3, <2>1, SumPlus
<1>10. j < n => Sum(f, L) = Sum(g, L)
  <2> SUFFICES ASSUME j < n PROVE Sum(f, L) = Sum(g, L)
    OBVIOUS
  <2>1. ASSUME NEW k \in L PROVE f[k] \in Int /\ f[k] = g[k]
    <3>1. k \in D /\ k < j /\ j \in Int /\ k \in Int
      BY <1>2
    <3>2. k < n /\ k # n - 1
      BY <1>1, <3>1
    <3> QED
      BY <1>4, <1>6, <3>1, <3>2
  <2> QED
    BY <1>3, <2>1, SumSame
<1>11. j >= n - 1 => Sum(f, H) = 0
  <2> SUFFICES ASSUME j >= n - 1 PROVE Sum(f, H) = 0
    OBVIOUS
  <2>1. ASSUME NEW k \in H PROVE f[k] = 0
    <3>1. k \in D /\ k > j /\ j \in Int /\ k \in Int
      BY <1>2
    <3>2. k >= n
      BY <1>1, <3>1
    <3> QED
      BY <1>4, <3>1, <3>2
  <2> QED
    BY <1>3, <2>1, SumZero
<1>12. /\ f[j] = s[j].amount - r[j].amount /\ g[j] = s[j].amount
       /\ f[j] \in Nat /\ g[j] \in Nat /\ h[j] \in Nat /\ g[j] = f[j] + h[j]
       /\ j \in Int
       /\ j >= n => f[j] = 0
       /\ j < n => f[j] = g[j] \/ (j = n - 1 /\ u = 0)
  BY <1>2, <1>4, <1>6
<1>13. /\ f[j] <= g[j]
       /\ j < n => Sum(g, L) + f[j] <= Sum(f, D)
       /\ j < n /\ f[j] # g[j] => Sum(g, L) + f[j] = Sum(f, D) /\ u = 0
       /\ j >= n => f[j] = 0 /\ Sum(g, L) >= Sum(f, D)
       /\ Sum(f, D) \in Int
  <2> DEFINE a == Sum(g, L)
             b == Sum(f, L)
             c == Sum(h, L)
             e == Sum(f, H)
             z == Sum(f, D)
             x == f[j]
             v == g[j]
  <2>1. a \in Nat /\ b \in Nat /\ c \in Nat /\ e \in Nat /\ z = x + b + e /\ a = b + c
    BY <1>7, <1>8, <1>9
  <2>2. /\ x \in Nat /\ v \in Nat /\ h[j] \in Nat /\ v = x + h[j] /\ j \in Int
        /\ n \in Nat /\ u \in Nat
        /\ j >= n => x = 0
        /\ j < n => x = v \/ (j = n - 1 /\ u = 0)
    BY <1>1, <1>12
  <2>3. (j < n => b = a) /\ (j >= n - 1 => e = 0)
    BY <1>10, <1>11
  <2> HIDE DEF a, b, c, e, z, x, v
  <2>4. /\ x <= v
        /\ j < n => a + x <= z
        /\ j < n /\ x # v => a + x = z /\ u = 0
        /\ j >= n => x = 0 /\ a >= z
        /\ z \in Int
    BY <2>1, <2>2, <2>3
  <2> QED
    BY <2>4 DEF a, z, x, v
<1> QED
  BY <1>5, <1>7, <1>12, <1>13 DEF f, g, L

(* The loop takes from every order what is promised.                       *)
LEMMA TakenByLoop ==
  ASSUME NEW orders, NEW s, NEW t, MarketOf(orders, s, t),
         NEW r, NEW n, NEW u, LoopEnded(s, r, t, n, u)
  PROVE  /\ \A j \in 1..Len(s) : Abstract!Taken(orders, t, s[j]) = Takes(s, r)[j]
         /\ \A o \in orders \ Range(s) : Abstract!Taken(orders, t, o) = 0
<1>1. ASSUME NEW o \in orders \ Range(s) PROVE Abstract!Taken(orders, t, o) = 0
  <2>1. ~Abstract!Agree(o, t)
    BY AgreeingOrders
  <2> QED
    BY <2>1 DEF Abstract!Taken
<1>2. ASSUME NEW j \in 1..Len(s) PROVE Abstract!Taken(orders, t, s[j]) = Takes(s, r)[j]
  <2> DEFINE A == Sum([p \in orders |-> p.amount],
                      {p \in orders : Abstract!Agree(p, t) /\ Abstract!Before(p, s[j])})
             T == Sum(Amts(s), 1..(j - 1))
             C == Crosses(s[j], t.kind, t.price)
             x == Takes(s, r)[j]
             X == TakenFrom(s, r)
             v == s[j].amount
             m == t.amount
  <2>1. Abstract!Taken(orders, t, s[j])
          = IF ~Abstract!Agree(s[j], t) \/ A >= m THEN 0 ELSE Abstract!Min({v, m - A})
    BY SumsCoincide DEF Abstract!Taken
  <2>2. /\ Len(s) \in Nat /\ s[j] \in orders /\ s[j] \in Range(s)
        /\ v \in Nat /\ v > 0 /\ s[j].kind = MatchingKind(t.kind)
    BY BookPositions
  <2>3. Abstract!Agree(s[j], t) <=> C
    BY <2>2, AgreeingOrders
  <2>4. C => A = T
    BY AmountAhead
  <2>5. /\ T \in Nat /\ x \in Nat /\ X \in Int /\ x <= v
        /\ j < n => T + x <= X
        /\ j < n /\ x # v => T + x = X /\ u = 0
        /\ j >= n => x = 0 /\ T >= X
    BY TakenUpTo
  <2>6. m \in Nat /\ n \in Nat \ {0} /\ u \in Nat /\ u = m - X
    BY DEF MarketOf, LoopEnded
  <2>7. j < n => C
    BY DEF LoopEnded
  <2>8. j >= n /\ C => u = 0
    <3> SUFFICES ASSUME j >= n, C PROVE u = 0
      OBVIOUS
    <3>1. n \in 1..Len(s)
      BY <2>2, <2>6
    <3>2. ASSUME ~Crosses(s[n], t.kind, t.price) PROVE FALSE
      <4>1. \A l \in 1..Len(s) : s[l].kind = MatchingKind(t.kind)
        BY BookPositions
      <4>2. n <= j
        BY <2>2, <2>6
      <4> QED
        BY <3>1, <3>2, <4>1, <4>2, RestDoesNotCross DEF MarketOf
    <3> QED
      BY <3>1, <3>2 DEF LoopEnded
  <2>9. j \in Int
    BY <2>2
  <2> HIDE DEF A, T, C, x, X, v, m
  <2>10. CASE ~C
    <3>1. x = 0
      BY <2>5, <2>6, <2>7, <2>9, <2>10
    <3> QED
      BY <2>1, <2>3, <2>10, <3>1 DEF x
  <2>11. CASE C /\ T >= m
    <3>1. x = 0
      BY <2>2, <2>5, <2>6, <2>8, <2>9, <2>11
    <3> QED
      BY <2>1, <2>3, <2>4, <2>11, <3>1 DEF x
  <2>12. CASE C /\ ~(T >= m)
    <3>1. m - T \in Int /\ v \in Int
      BY <2>2, <2>5, <2>6
    <3>2. Abstract!Min({v, m - T}) = IF v <= m - T THEN v ELSE m - T
      BY <3>1, MinOfTwo
    <3>3. x = IF v <= m - T THEN v ELSE m - T
      BY <2>2, <2>5, <2>6, <2>8, <2>9, <2>12
    <3> QED
      BY <2>1, <2>3, <2>4, <2>12, <3>2, <3>3 DEF x
  <2> QED
    BY <2>10, <2>11, <2>12
<1> QED
  BY <1>1, <1>2

(* A sum over orders that only those of the matching book contribute to is *)
(* a sum over positions.                                                   *)
LEMMA SumOverBook ==
  ASSUME NEW orders, NEW s, NEW t, MarketOf(orders, s, t),
         NEW S \in SUBSET (1..Len(s)), NEW R \in SUBSET orders,
         \A j \in 1..Len(s) : j \in S <=> s[j] \in R,
         NEW f, NEW g,
         \A j \in S : g[j] \in Int /\ f[s[j]] = g[j],
         \A o \in R \ Range(s) : f[o] = 0
  PROVE  Sum(f, R) = Sum(g, S)
<1> DEFINE T == {s[j] : j \in S}
<1>1. /\ IsFiniteSet(1..Len(s)) /\ Range(s) = {s[j] : j \in 1..Len(s)}
      /\ \A j, k \in 1..Len(s) : s[j] = s[k] => j = k
      /\ IsFiniteSet(orders)
  BY BookPositions DEF MarketOf
<1>2. IsFiniteSet(S) /\ IsFiniteSet(R)
  BY <1>1, FS_Subset
<1>3. T \in SUBSET R
  OBVIOUS
<1>4. \A o \in R \ T : f[o] = 0
  BY <1>1
<1>5. \A o \in T : f[o] \in Int
  OBVIOUS
<1>6. Renames(s, S, T)
  BY <1>1 DEF Renames
<1> HIDE DEF T
<1>7. Sum(f, T) = Sum(g, S)
  <2> DEFINE K == S
  <2>1. IsFiniteSet(K) /\ Renames(s, K, T) /\ \A j \in K : g[j] \in Int /\ f[s[j]] = g[j]
    BY <1>2, <1>6
  <2> HIDE DEF K
  <2>2. Sum(f, T) = Sum(g, K)
    BY <2>1, SumRenamed
  <2> QED
    BY <2>2 DEF K
<1>8. \A o \in R : f[o] \in Int
  BY <1>4, <1>5
<1>9. Sum(f, R) = Sum(f, T)
  BY <1>2, <1>3, <1>4, <1>8, SumSupport
<1> QED
  BY <1>7, <1>9

LEMMA RestOfLoop ==
  ASSUME NEW orders, NEW s, NEW t, MarketOf(orders, s, t),
         NEW r, NEW n, NEW u, LoopEnded(s, r, t, n, u)
  PROVE  Abstract!Rest(orders, t) = u
<1> DEFINE f == [o \in orders |-> Abstract!Taken(orders, t, o)]
           g == Takes(s, r)
           D == 1..Len(s)
<1>1. \A j \in D : s[j] \in orders /\ g[j] \in Int /\ f[s[j]] = g[j]
  BY BookPositions, TakenUpTo, TakenByLoop
<1>2. \A o \in orders \ Range(s) : f[o] = 0
  BY TakenByLoop
<1>3. Abstract!Rest(orders, t) = t.amount - Sum(f, orders)
  BY SumsCoincide DEF Abstract!Rest
<1>4. D \in SUBSET (1..Len(s)) /\ orders \in SUBSET orders
  OBVIOUS
<1>5. \A j \in 1..Len(s) : j \in D <=> s[j] \in orders
  BY <1>1
<1> HIDE DEF f, g, D
<1>6. Sum(f, orders) = Sum(g, D)
  BY <1>1, <1>2, <1>4, <1>5, SumOverBook
<1> QED
  BY <1>3, <1>6 DEF LoopEnded, TakenFrom, g, D

LEMMA PaidByLoop ==
  ASSUME NEW orders, NEW s, NEW t, MarketOf(orders, s, t),
         NEW r, NEW n, NEW u, LoopEnded(s, r, t, n, u)
  PROVE  /\ \A a : Sum(PaidFor(orders, t), OrdersOwned(orders, a))
                     = Sum(Paying(t, s, r), OwnedBy(r, a))
         /\ Sum(PaidFor(orders, t), orders) = Sum(Paying(t, s, r), 1..Len(r))
         /\ Sum(GotFor(orders, t), orders) = Sum(Getting(t, s, r), 1..Len(r))
<1> DEFINE D == 1..Len(s)
           f == PaidFor(orders, t)
           g == Paying(t, s, r)
           v == GotFor(orders, t)
           w == Getting(t, s, r)
<1>1. /\ s \in Seq(LimitOrder) /\ r \in Seq(LimitOrder) /\ Len(r) = Len(s)
      /\ 1..Len(r) = D
  BY DEF MarketOf, LoopEnded
<1>2. ASSUME NEW j \in D
      PROVE  /\ s[j] \in orders /\ r[j].sender = s[j].sender
             /\ g[j] \in Int /\ f[s[j]] = g[j]
             /\ w[j] \in Int /\ v[s[j]] = w[j]
  <2>1. s[j] \in orders /\ s[j] \in LimitOrder
    BY BookPositions
  <2>2. r[j].price = s[j].price /\ r[j].sender = s[j].sender
    <3>1. Shrunk(r[j], s[j]) /\ r[j] \in LimitOrder
      BY <1>1, ElementOfSeq DEF LoopEnded
    <3> QED
      BY <2>1, <3>1, ShrunkFields
  <2>3. Abstract!Taken(orders, t, s[j]) = s[j].amount - r[j].amount
    BY TakenUpTo, TakenByLoop
  <2>4. g[j] = PayAt(t, s, r, j) /\ g[j] \in Int /\ w[j] = GotAt(t, s, r, j) /\ w[j] \in Int
    BY <1>1, TakingTypes
  <2>5. f[s[j]] = PayAt(t, s, r, j) /\ v[s[j]] = GotAt(t, s, r, j)
    BY <2>1, <2>2, <2>3 DEF PaidFor, GotFor, PayAt, GotAt
  <2> QED
    BY <2>1, <2>2, <2>4, <2>5
<1>3. ASSUME NEW o \in orders \ Range(s) PROVE f[o] = 0 /\ v[o] = 0
  <2>1. Abstract!Taken(orders, t, o) = 0
    BY TakenByLoop
  <2>2. o.price \in Nat
    BY DEF MarketOf, LimitOrder
  <2>3. 0 * o.price = 0
    BY <2>2
  <2> QED
    BY <2>1, <2>3 DEF PaidFor, GotFor
<1> HIDE DEF f, g, v, w
<1>4. Sum(f, orders) = Sum(g, D) /\ Sum(v, orders) = Sum(w, D)
  <2>1. D \in SUBSET (1..Len(s)) /\ orders \in SUBSET orders
    OBVIOUS
  <2>2. /\ \A j \in 1..Len(s) : j \in D <=> s[j] \in orders
        /\ \A j \in D : g[j] \in Int /\ f[s[j]] = g[j]
        /\ \A j \in D : w[j] \in Int /\ v[s[j]] = w[j]
        /\ \A o \in orders \ Range(s) : f[o] = 0
        /\ \A o \in orders \ Range(s) : v[o] = 0
    BY <1>2, <1>3
  <2> HIDE DEF D
  <2>3. Sum(f, orders) = Sum(g, D)
    BY <2>1, <2>2, SumOverBook
  <2>4. Sum(v, orders) = Sum(w, D)
    BY <2>1, <2>2, SumOverBook
  <2> QED
    BY <2>3, <2>4
<1>5. ASSUME NEW a PROVE Sum(f, OrdersOwned(orders, a)) = Sum(g, OwnedBy(r, a))
  <2> DEFINE S == OwnedBy(r, a)
             R == OrdersOwned(orders, a)
  <2>1. S \in SUBSET (1..Len(s)) /\ R \in SUBSET orders
    BY <1>1 DEF OwnedBy, OrdersOwned
  <2>2. \A j \in 1..Len(s) : j \in S <=> s[j] \in R
    BY <1>1, <1>2 DEF OwnedBy, OrdersOwned
  <2> HIDE DEF S, R
  <2>3. /\ \A j \in S : g[j] \in Int /\ f[s[j]] = g[j]
        /\ \A o \in R \ Range(s) : f[o] = 0
    BY <1>2, <1>3, <2>1
  <2>4. Sum(f, R) = Sum(g, S)
    BY <2>1, <2>2, <2>3, SumOverBook
  <2> QED
    BY <2>4 DEF S, R
<1> QED
  BY <1>1, <1>4, <1>5 DEF f, g, v, w

LEMMA LeftByLoop ==
  ASSUME NEW orders, NEW s, NEW t, MarketOf(orders, s, t),
         NEW r, NEW n, NEW u, LoopEnded(s, r, t, n, u)
  PROVE  Left(orders, t)
           = (orders \ Range(s)) \cup {r[j] : j \in {k \in 1..Len(r) : r[k].amount # 0}}
<1> DEFINE rest(o) == [o EXCEPT !.amount = @ - Abstract!Taken(orders, t, o)]
           K == {k \in 1..Len(r) : r[k].amount # 0}
<1>1. /\ Range(s) = {s[j] : j \in 1..Len(s)} /\ Len(r) = Len(s) /\ r \in Seq(LimitOrder)
      /\ \A j \in 1..Len(s) : s[j] \in orders
  BY BookPositions DEF LoopEnded
<1>2. ASSUME NEW j \in 1..Len(s) PROVE rest(s[j]) = r[j]
  <2>1. s[j] \in LimitOrder /\ r[j] \in LimitOrder /\ Shrunk(r[j], s[j])
    BY <1>1, BookPositions, ElementOfSeq DEF LoopEnded
  <2>2. Abstract!Taken(orders, t, s[j]) = s[j].amount - r[j].amount
    BY TakenUpTo, TakenByLoop
  <2>3. s[j].amount - (s[j].amount - r[j].amount) = r[j].amount
    <3>1. s[j].amount \in Nat /\ r[j].amount \in Nat
      BY <2>1 DEF LimitOrder
    <3> QED
      BY <3>1
  <2>4. rest(s[j]) = [s[j] EXCEPT !.amount = s[j].amount - Abstract!Taken(orders, t, s[j])]
    OBVIOUS
  <2>5. rest(s[j]) = [s[j] EXCEPT !.amount = r[j].amount]
    BY <2>2, <2>3, <2>4
  <2> QED
    BY <2>1, <2>5 DEF Shrunk
<1>3. ASSUME NEW o \in orders \ Range(s) PROVE rest(o) = o /\ o.amount # 0
  <2>1. Abstract!Taken(orders, t, o) = 0
    BY TakenByLoop
  <2>2. o \in LimitOrder /\ o.amount > 0
    BY DEF MarketOf
  <2>3. o.amount \in Nat /\ o.amount - 0 = o.amount
    BY <2>2 DEF LimitOrder
  <2>4. rest(o) = [o EXCEPT !.amount = o.amount - Abstract!Taken(orders, t, o)]
    OBVIOUS
  <2>5. rest(o) = [o EXCEPT !.amount = o.amount]
    BY <2>1, <2>3, <2>4
  <2> HIDE DEF rest
  <2>6. rest(o) = o
    BY <2>2, <2>5 DEF LimitOrder
  <2> QED
    BY <2>2, <2>3, <2>6
<1>4. Left(orders, t) = {p \in {rest(o) : o \in orders} : p.amount # 0}
  BY DEF Left
<1> HIDE DEF rest
<1>5. ASSUME NEW p \in Left(orders, t)
      PROVE  p \in (orders \ Range(s)) \cup {r[j] : j \in K}
  <2>1. PICK o \in orders : p = rest(o)
    BY <1>4
  <2>2. p.amount # 0
    BY <1>4
  <2>3. CASE o \in Range(s)
    <3>1. PICK j \in 1..Len(s) : o = s[j]
      BY <1>1, <2>3
    <3>2. p = r[j] /\ j \in K
      BY <1>1, <1>2, <2>1, <2>2, <3>1
    <3> QED
      BY <3>2
  <2>4. CASE o \notin Range(s)
    BY <1>3, <2>1, <2>4
  <2> QED
    BY <2>3, <2>4
<1>6. ASSUME NEW o \in orders \ Range(s) PROVE o \in Left(orders, t)
  BY <1>3, <1>4
<1>7. ASSUME NEW j \in K PROVE r[j] \in Left(orders, t)
  <2>1. j \in 1..Len(s) /\ r[j].amount # 0
    BY <1>1
  <2>2. rest(s[j]) = r[j] /\ s[j] \in orders
    BY <1>1, <1>2, <2>1
  <2> QED
    BY <1>4, <2>1, <2>2
<1> QED
  BY <1>5, <1>6, <1>7

-----------------------------------------------------------------------------
(* The steps of a transaction.                                             *)

LEMMA OrdersFinite ==
  ASSUME NEW b \in Books, NEW n, NEW u, WellKept(b, n, u)
  PROVE  IsFiniteSet(OrdersOf(b))
<1> DEFINE R == OrdersOf(b)
           A == [k \in BookKeys |-> Range(b[k])]
           f == [o \in R |-> 0]
           z == [k \in BookKeys |-> 0]
<1>1. \A k \in BookKeys : A[k] = Range(b[k]) /\ A[k] \subseteq R /\ z[k] = 0
  BY DEF OrdersOf
<1>2. \A o \in R : f[o] = 0 /\ \E k \in BookKeys : o \in A[k]
  BY DEF OrdersOf
<1>3. \A k \in BookKeys : \A o \in A[k] : KeyOf(o) = k
  BY DEF WellKept, StoredIn
<1> HIDE DEF R, A, f, z
<1>4. Partitions(A, BookKeys, R)
  <2>1. \A k, l \in BookKeys : k # l => A[k] \cap A[l] = {}
    BY <1>3
  <2> QED
    BY <1>1, <1>2, <2>1 DEF Partitions
<1>5. ASSUME NEW k \in BookKeys PROVE IsFiniteSet(A[k]) /\ z[k] = Sum(f, A[k])
  <2> DEFINE s == b[k]
             D == 1..Len(s)
             g == [j \in D |-> 0]
  <2>1. s \in Seq(LimitOrder) /\ Ranked(s)
    BY DEF Books, WellKept
  <2>2. A[k] = {s[j] : j \in D} /\ Len(s) \in Nat
    BY <1>1, <2>1, RangeOfOrders
  <2>3. \A j, l \in D : s[j] = s[l] => j = l
    BY <2>1, RankedOnce
  <2>4. IsFiniteSet(D)
    BY <2>2, FS_Interval
  <2>5. \A j \in D : g[j] = 0 /\ s[j] \in A[k]
    BY <2>2
  <2> HIDE DEF s, D, g
  <2>6. \A j \in D : g[j] \in Int /\ f[s[j]] = g[j]
    BY <1>1, <1>2, <2>5
  <2>7. Renames(s, D, A[k])
    BY <2>2, <2>3, <2>5 DEF Renames
  <2>8. IsFiniteSet(A[k]) /\ Sum(f, A[k]) = Sum(g, D)
    BY <2>4, <2>6, <2>7, SumRenamed
  <2>9. Sum(g, D) = 0
    BY <2>4, <2>5, SumZero
  <2> QED
    BY <1>1, <2>8, <2>9
<1>6. \A o \in R : f[o] \in Int
  BY <1>2
<1>7. IsFiniteSet(R)
  BY <1>4, <1>5, <1>6, BookKeysFinite, SumFamily
<1> QED
  BY <1>7 DEF R

(* One book is replaced.                                                   *)
LEMMA OrdersReplaced ==
  ASSUME NEW b \in Books, NEW n, NEW u, WellKept(b, n, u), NEW k \in BookKeys, NEW r
  PROVE  OrdersOf([b EXCEPT ![k] = r]) = (OrdersOf(b) \ Range(b[k])) \cup Range(r)
<1> DEFINE c == [b EXCEPT ![k] = r]
<1>1. c[k] = r /\ \A l \in BookKeys \ {k} : c[l] = b[l]
  BY DEF Books
<1>2. \A l \in BookKeys : \A o \in Range(b[l]) : KeyOf(o) = l
  BY DEF WellKept, StoredIn
<1> HIDE DEF c
<1>3. \A o : o \in OrdersOf(c) <=> \E l \in BookKeys : o \in Range(c[l])
  BY DEF OrdersOf
<1>4. \A o : o \in OrdersOf(b) <=> \E l \in BookKeys : o \in Range(b[l])
  BY DEF OrdersOf
<1>5. ASSUME NEW o \in OrdersOf(c) PROVE o \in (OrdersOf(b) \ Range(b[k])) \cup Range(r)
  <2>1. PICK l \in BookKeys : o \in Range(c[l])
    BY <1>3
  <2>2. CASE l = k
    BY <1>1, <2>1, <2>2
  <2>3. CASE l # k
    <3>1. o \in Range(b[l]) /\ KeyOf(o) = l
      BY <1>1, <1>2, <2>1, <2>3
    <3>2. o \notin Range(b[k])
      BY <1>2, <2>3, <3>1
    <3> QED
      BY <1>4, <3>1, <3>2
  <2> QED
    BY <2>2, <2>3
<1>6. ASSUME NEW o \in OrdersOf(b) \ Range(b[k]) PROVE o \in OrdersOf(c)
  BY <1>1, <1>3, <1>4
<1>7. Range(r) \subseteq OrdersOf(c)
  BY <1>1, <1>3
<1> QED
  BY <1>5, <1>6, <1>7 DEF c

LEMMA MarketOfTx ==
  ASSUME BooksKept, InTx
  PROVE  MarketOf(OrdersOf(saved.books), saved.books[MatchingKey(tx)], tx)
<1> DEFINE b == saved.books
           k == MatchingKey(tx)
<1>1. /\ k \in BookKeys /\ b \in Books
      /\ tx.kind \in Kinds /\ tx.amount \in Nat /\ tx.price \in Nat
  BY TxTypes, KeptTypes DEF BooksKept
<1>2. WellKept(b, nextOrderID, blockTime)
  BY DEF BooksKept, TxKept
<1> HIDE DEF b, k
<1>3. IsFiniteSet(OrdersOf(b)) /\ OrdersOf(b) \subseteq LimitOrder
  BY <1>1, <1>2, OrdersFinite, OrdersOfBooks
<1>4. b[k] \in Seq(LimitOrder) /\ Ranked(b[k])
  BY <1>1, <1>2 DEF Books, WellKept
<1>5. Range(b[k]) = {o \in OrdersOf(b) : KeyOf(o) = k}
  BY <1>1, <1>2 DEF WellKept, OrdersOf, StoredIn
<1>6. \A o \in OrdersOf(b) : o.amount > 0
  BY <1>2 DEF WellKept, OrdersOf, StoredIn
<1> QED
  BY <1>1, <1>3, <1>4, <1>5, <1>6 DEF MarketOf, b, k

LEMMA LoopEndedAtEnd ==
  ASSUME BooksKept, Matched, pc = "fill", ~LoopGoesOn
  PROVE  LoopEnded(saved.books[MatchingKey(tx)], orderBook, tx, i, unfilled)
<1> DEFINE s == saved.books[MatchingKey(tx)]
           r == orderBook
<1>1. /\ ~err /\ r \in Seq(LimitOrder) /\ i \in Nat \ {0} /\ unfilled \in Nat
  BY KeptTypes DEF BooksKept, Settled, NoLateFailure
<1>2. s = books[MatchingKey(tx)] /\ Consumed(s)
  BY DEF BooksKept, FillKept
<1>3. /\ \A j \in 1..Len(s) : j < i => Crosses(s[j], tx.kind, tx.price)
      /\ unfilled = tx.amount - TakenFrom(s, r)
  BY DEF Matched
<1> HIDE DEF s
<1>4. /\ Len(r) = Len(s)
      /\ \A j \in 1..Len(s) :
           /\ Shrunk(r[j], s[j])
           /\ j >= i => r[j] = s[j]
           /\ j < i => r[j].amount = 0 \/ (j = i - 1 /\ unfilled = 0)
  BY <1>2 DEF Consumed
<1>5. i \in 1..Len(s) => unfilled = 0 \/ ~Crosses(s[i], tx.kind, tx.price)
  <2> SUFFICES ASSUME i \in 1..Len(s), unfilled # 0 PROVE ~Crosses(s[i], tx.kind, tx.price)
    OBVIOUS
  <2>1. i <= Len(r) /\ r[i] = s[i]
    <3>1. i >= i
      BY <1>1
    <3> QED
      BY <1>4, <3>1
  <2> QED
    BY <1>1, <2>1 DEF LoopGoesOn, Fill, DoesFill
<1> QED
  BY <1>1, <1>3, <1>4, <1>5 DEF LoopEnded, s

(* When the loop is over, orders and balances are as promised, but for the *)
(* rest of the message.                                                    *)
LEMMA TradedFillEnd ==
  ASSUME BooksKept, Matched, fillEnd
  PROVE  Traded'
<1> DEFINE b == saved.books
           k == MatchingKey(tx)
           s == b[k]
           r == orderBook
           orders == OrdersOf(b)
           K == {j \in 1..Len(r) : r[j].amount # 0}
<1>1. pc = "fill" /\ InTx /\ ~err /\ ~LoopGoesOn
  BY DEF fillEnd, InTx, BooksKept, Settled, NoLateFailure
<1>2. /\ books' = [books EXCEPT ![k] = RemoveFilledLimitOrders(r)]
      /\ pc' = "store" /\ tx' = tx /\ unfilled' = unfilled /\ saved' = saved /\ coins' = coins
  BY <1>1 DEF fillEnd, setOrderBook
<1>3. MarketOf(orders, s, tx) /\ LoopEnded(s, r, tx, i, unfilled)
  BY <1>1, MarketOfTx, LoopEndedAtEnd
<1>4. BalancesMoved(tx, s, r, coins, saved.coins)
  BY <1>1 DEF Matched
<1>5. books = b /\ WellKept(b, nextOrderID, blockTime) /\ k \in BookKeys /\ b \in Books
  BY <1>1, TxTypes, KeptTypes DEF BooksKept, FillKept, TxKept
<1>6. r \in Seq(LimitOrder)
  BY KeptTypes
<1>7. Range(RemoveFilledLimitOrders(r)) = {r[j] : j \in K}
  <2>1. K \in SUBSET (1..Len(r))
    OBVIOUS
  <2>2. RemoveFilledLimitOrders(r) = Keep(r, K)
    BY DEF RemoveFilledLimitOrders
  <2> HIDE DEF K
  <2> QED
    BY <1>6, <2>1, <2>2, KeepRange
<1>8. OrdersOf(books') = (orders \ Range(s)) \cup {r[j] : j \in K}
  <2> HIDE DEF b, k, K
  <2>1. OrdersOf([b EXCEPT ![k] = RemoveFilledLimitOrders(r)])
          = (OrdersOf(b) \ Range(b[k])) \cup Range(RemoveFilledLimitOrders(r))
    BY <1>5, OrdersReplaced
  <2> QED
    BY <1>2, <1>5, <1>7, <2>1
<1>9. Left(orders, tx) = (orders \ Range(s)) \cup {r[j] : j \in K}
  <2> HIDE DEF orders, s
  <2> QED
    BY <1>3, LeftByLoop
<1>10. unfilled = Abstract!Rest(orders, tx)
  <2> HIDE DEF orders, s
  <2> QED
    BY <1>3, RestOfLoop
<1>11. BalancesTraded(tx, orders, coins, saved.coins)
  <2> HIDE DEF orders, s, r
  <2>1. /\ \A a : Sum(PaidFor(orders, tx), OrdersOwned(orders, a))
                    = Sum(Paying(tx, s, r), OwnedBy(r, a))
        /\ Sum(PaidFor(orders, tx), orders) = Sum(Paying(tx, s, r), 1..Len(r))
        /\ Sum(GotFor(orders, tx), orders) = Sum(Getting(tx, s, r), 1..Len(r))
    BY <1>3, PaidByLoop
  <2> QED
    BY <1>4, <2>1 DEF BalancesMoved, BalancesTraded
<1> QED
  BY <1>2, <1>8, <1>9, <1>10, <1>11 DEF Traded

(* The checks of a message see what it could be asked to pay.              *)
LEMMA OfferedProcess ==
  ASSUME NEW m \in Msgs, processLimitOrder(m), Offered
  PROVE  Offered'
<1>1. /\ OrderChecks(m) /\ tx' = m /\ saved'.coins = coins /\ now' = now
  BY DEF processLimitOrder, clock
<1>2. Abstract!Affordable(coins, m)
  <2>1. /\ m.amount > 0 /\ m.price > 0 /\ m.kind \in {"buy", "sell"}
        /\ m.kind = "buy" => coins[m.sender][m.priceDenom] >= m.amount * m.price
        /\ m.kind = "sell" => coins[m.sender][m.amountDenom] >= m.amount
    BY <1>1 DEF OrderChecks, HasCoins, TotalPrice, Kinds
  <2> QED
    BY <2>1 DEF Abstract!Affordable, Abstract!Escrow, Abstract!EscrowDenom
<1>3. now' <= MaxTime
  BY <1>1 DEF Offered
<1>4. Abstract!Affordable(saved'.coins, tx')
  BY <1>1, <1>2
<1> QED
  BY <1>3, <1>4 DEF Offered

LEMMA PromisedNext == BooksKept /\ BooksKept' /\ Promised /\ [Next]_vars => Promised'
<1> SUFFICES ASSUME BooksKept, BooksKept', Promised, [Next]_vars PROVE Promised'
  OBVIOUS
<1> USE DEF Promised
<1>1. ASSUME NEW m \in Msgs, processLimitOrder(m) PROVE Promised'
  <2>1. pc' = "fill"
    BY <1>1 DEF processLimitOrder
  <2> QED
    BY <1>1, <2>1, OfferedProcess, MatchedProcess DEF Traded
<1>2. CASE fillStoredOrder
  <2>1. pc' = "fill" /\ InTx /\ tx' = tx /\ saved' = saved /\ now' = now
    BY <1>2, FillStep DEF BooksKept
  <2>2. Abstract!Affordable(saved'.coins, tx') /\ now' <= MaxTime
    BY <2>1 DEF Offered
  <2> QED
    BY <1>2, <2>1, <2>2, MatchedFill DEF Offered, Traded
<1>3. CASE fillEnd
  <2>1. /\ pc = "fill" /\ ~err /\ InTx /\ now' = now
    BY <1>3 DEF fillEnd, clock, InTx, BooksKept, Settled, NoLateFailure
  <2>2. pc' = "store" /\ tx' = tx /\ saved' = saved
    BY <1>3, <2>1 DEF fillEnd
  <2>3. Abstract!Affordable(saved'.coins, tx') /\ now' <= MaxTime
    BY <2>1, <2>2 DEF Offered
  <2> QED
    BY <1>3, <2>2, <2>3, TradedFillEnd DEF Offered, Matched
<1>4. CASE storeUnfilledLimitOrder
  <2>1. ~InTx' /\ pc' = "idle" /\ now' = now
    BY <1>4, StoreStep DEF BooksKept, clock
  <2> QED
    BY <2>1 DEF Offered, Matched, Traded
<1>5. CASE outOfGas
  <2>1. ~InTx' /\ pc' = "idle" /\ now' = now
    BY <1>5 DEF outOfGas, Rollback, Idle, clock, InTx
  <2> QED
    BY <2>1 DEF Offered, Matched, Traded
<1>6. CASE BeginBlocker
  <2>1. ~InTx' /\ pc' # "fill" /\ pc' # "store" /\ now' = now
    BY <1>6 DEF BeginBlocker, InTx
  <2> QED
    BY <2>1 DEF Offered, Matched, Traded
<1>7. ASSUME NEW o \in toRefund, refundOrder(o) PROVE Promised'
  <2>1. ~InTx' /\ pc' # "fill" /\ pc' # "store" /\ now' = now
    BY <1>7 DEF refundOrder, InTx, clock
  <2> QED
    BY <2>1 DEF Offered, Matched, Traded
<1>8. CASE Tick
  <2>1. /\ pc' = pc /\ tx' = tx /\ orderBook' = orderBook /\ books' = books
        /\ coins' = coins /\ saved' = saved /\ unfilled' = unfilled /\ i' = i
        /\ now' = now + 1 /\ now < MaxTime
    BY <1>8 DEF Tick, store, local
  <2>2. now' <= MaxTime
    BY <2>1, ConstantsAssumption DEF BooksKept, Settled, TypeOK
  <2>3. Matched' /\ Traded'
    BY <2>1 DEF Matched, Traded
  <2> QED
    BY <2>1, <2>2, <2>3 DEF Offered, InTx
<1>9. CASE UNCHANGED vars
  <2>1. /\ pc' = pc /\ tx' = tx /\ orderBook' = orderBook /\ books' = books
        /\ coins' = coins /\ saved' = saved /\ unfilled' = unfilled /\ i' = i
        /\ now' = now
    BY <1>9 DEF vars, store, local, clock
  <2>2. Matched' /\ Traded'
    BY <2>1 DEF Matched, Traded
  <2> QED
    BY <2>1, <2>2 DEF Offered, InTx
<1> QED
  BY <1>1, <1>2, <1>3, <1>4, <1>5, <1>6, <1>7, <1>8, <1>9 DEF Next

(* While orders are matched, those the loop has passed cross the new one,  *)
(* what is unfilled is its amount less what was taken, and every balance   *)
(* is the saved one with the payments so far; once the loop is done, what  *)
(* it did is the trade that Trade describes (processLimitOrder).           *)
THEOREM PromisedAlways == Spec => []Promised
<1>1. Init => Promised
  BY ConstantsAssumption DEF Init, Promised, Offered, Matched, Traded, InTx
<1> QED
  BY <1>1, PromisedNext, BooksAlwaysKept, PTL DEF Spec

-----------------------------------------------------------------------------
(* The owners of matched orders.                                           *)

LEMMA MatchedPays == BooksKept /\ Matched => MakersPaid
<1> SUFFICES ASSUME BooksKept, Matched, pc = "fill" PROVE MakersPaid
  BY DEF MakersPaid
<1> DEFINE s == saved.books[MatchingKey(tx)]
           r == orderBook
           e == saved.coins
           M(a, d) == {j \in 1..Len(r) : r[j].sender = a /\ d = PaidIn(tx)}
           p(a, d) == [j \in M(a, d) |-> PayAt(tx, s, r, j)]
<1>1. books[MatchingKey(tx)] = s
  BY DEF BooksKept, FillKept
<1>2. /\ s \in Seq(LimitOrder) /\ r \in Seq(LimitOrder) /\ Len(s) = Len(r)
      /\ coins \in Ledger /\ e \in Ledger
  <2>1. s \in Seq(LimitOrder)
    BY <1>1, OpenTypes, KeptTypes DEF Books
  <2>2. Len(s) = Len(r)
    BY <1>1 DEF BooksKept, FillKept, Consumed
  <2> QED
    BY <2>1, <2>2, TxTypes DEF BooksKept, Settled, TypeOK, InTx
<1>3. BalancesMoved(tx, s, r, coins, e)
  BY DEF Matched
<1>4. MakersPaid <=> \A a \in Accounts \ {tx.sender}, d \in Denoms :
                       coins[a][d] - e[a][d] = Sum(p(a, d), M(a, d))
  BY <1>1 DEF MakersPaid, PaidIn, PayAt, Sum
<1> HIDE DEF s, r, e
<1>5. ASSUME NEW a \in Accounts \ {tx.sender}, NEW d \in Denoms
      PROVE  coins[a][d] - e[a][d] = Sum(p(a, d), M(a, d))
  <2> DEFINE S == OwnedBy(r, a)
             g == Paying(tx, s, r)
             y == coins[a][d]
             z == e[a][d]
  <2>1. y = z + (IF d = PaidIn(tx) THEN Sum(g, S) ELSE 0) - 0 + 0
    BY <1>3 DEF BalancesMoved, Moved
  <2>2. y \in Int /\ z \in Int
    BY <1>2 DEF Ledger
  <2> HIDE DEF y, z
  <2>3. CASE d = PaidIn(tx)
    <3> DEFINE f == p(a, d)
    <3>1. M(a, d) = S
      BY <2>3 DEF OwnedBy
    <3>2. \A j \in S : f[j] = PayAt(tx, s, r, j)
      BY <3>1
    <3> HIDE DEF f, g, S
    <3>3. IsFiniteSet(S) /\ \A j \in S : j \in 1..Len(r)
      BY <1>2, TakingFinite DEF S
    <3>4. \A j \in S : f[j] \in Int /\ f[j] = g[j]
      BY <1>2, <3>2, <3>3, TakingTypes DEF g
    <3>5. Sum(f, S) = Sum(g, S) /\ Sum(f, S) \in Int
      BY <3>3, <3>4, SumSame, SumInt
    <3>6. y - z = Sum(f, S)
      BY <2>1, <2>2, <2>3, <3>5
    <3> QED
      BY <3>1, <3>6 DEF f, y, z
  <2>4. CASE d # PaidIn(tx)
    <3>1. M(a, d) = {}
      BY <2>4
    <3>2. y - z = 0
      BY <2>1, <2>2, <2>4
    <3> QED
      BY <3>1, <3>2, SumEmpty DEF y, z
  <2> QED
    BY <2>3, <2>4
<1> QED
  BY <1>4, <1>5

(* At every iteration of the loop every owner of a matched order other     *)
(* than the sender has been paid in full, and nobody else's balance moved. *)
THEOREM MakersAlwaysPaid == Spec => []MakersPaid
<1>1. BooksKept /\ Promised => MakersPaid
  BY MatchedPays DEF Promised
<1> QED
  BY <1>1, BooksAlwaysKept, PromisedAlways, PTL

-----------------------------------------------------------------------------
(* Steps of Exchange are steps of Escrow.                                  *)

LEMMA CommittedState ==
  ASSUME BooksKept
  PROVE  /\ CommittedOrders = OrdersOf(Committed.books)
         /\ InTx => Committed = saved
         /\ ~InTx => /\ Committed.coins = coins /\ Committed.books = books
                     /\ Committed.nextOrderID = nextOrderID
BY DEF CommittedOrders, OrdersOf, Committed

(* Storing the rest completes what the message does to the orders.         *)
LEMMA OrdersStored ==
  ASSUME BooksKept, Traded, storeUnfilledLimitOrder
  PROVE  OrdersOf(books') = Abstract!OrdersAfter(OrdersOf(saved.books), tx, nextOrderID)
<1> DEFINE orders == OrdersOf(saved.books)
           new == NewLimitOrder
           k == KeyOf(tx)
           left == {[o EXCEPT !.amount = @ - Abstract!Taken(orders, tx, o)] : o \in orders}
<1>1. /\ InTx /\ pc = "store"
      /\ unfilled = 0 => books' = books
      /\ unfilled # 0 => books' = [books EXCEPT ![k] = AddLimitOrder(@, new)]
  BY StoreStep DEF BooksKept
<1>2. /\ unfilled = Abstract!Rest(orders, tx)
      /\ OrdersOf(books) = {o \in left : o.amount # 0}
  BY <1>1 DEF Traded, Left
<1>3. Abstract!OrdersAfter(orders, tx, nextOrderID) = {o \in left \cup {new} : o.amount # 0}
  BY <1>2 DEF Abstract!OrdersAfter, NewLimitOrder
<1>4. new.amount = unfilled /\ new \in LimitOrder
  BY <1>1, NewOrderTypes DEF NewLimitOrder, BooksKept
<1>5. /\ books \in Books /\ WellKept(books, nextOrderID, blockTime) /\ k \in BookKeys
  BY <1>1, KeptTypes, TxTypes DEF BooksKept
<1> HIDE DEF left, new, orders, k
<1>6. CASE unfilled = 0
  BY <1>1, <1>2, <1>3, <1>4, <1>6 DEF orders
<1>7. CASE unfilled # 0
  <2> DEFINE b == AddLimitOrder(books[k], new)
  <2>1. OrdersOf([books EXCEPT ![k] = b]) = (OrdersOf(books) \ Range(books[k])) \cup Range(b)
    <3> HIDE DEF b
    <3> QED
      BY <1>5, OrdersReplaced
  <2>2. books[k] \in Seq(LimitOrder) /\ Range(books[k]) \subseteq OrdersOf(books)
    BY <1>5 DEF Books, OrdersOf
  <2>3. Range(b) = Range(books[k]) \cup {new}
    BY <1>4, <2>2, AddLimitOrderElements
  <2>4. books' = [books EXCEPT ![k] = b]
    BY <1>1, <1>7
  <2> HIDE DEF b
  <2>5. OrdersOf(books') = OrdersOf(books) \cup {new}
    BY <2>1, <2>2, <2>3, <2>4
  <2> QED
    BY <1>2, <1>3, <1>4, <1>7, <2>5 DEF orders
<1> QED
  BY <1>6, <1>7

(* What an order gives, and what it costs, are integers.                   *)
LEMMA TradedTypes ==
  ASSUME NEW orders, NEW s, NEW t, MarketOf(orders, s, t)
  PROVE  /\ \A R \in SUBSET orders : Sum(PaidFor(orders, t), R) \in Int
         /\ \A R \in SUBSET orders : Sum(GotFor(orders, t), R) \in Int
<1> DEFINE f == [p \in orders |-> p.amount]
           ahead(o) == {p \in orders : Abstract!Agree(p, t) /\ Abstract!Before(p, o)}
<1>1. /\ IsFiniteSet(orders) /\ t.amount \in Nat
      /\ \A o \in orders : o.amount \in Nat /\ o.price \in Nat
  BY DEF MarketOf, LimitOrder
<1>2. ASSUME NEW o \in orders
      PROVE  Abstract!Taken(orders, t, o) \in Int
  <2> DEFINE A == Sum(f, ahead(o))
             v == o.amount
             m == t.amount
  <2>1. Abstract!Taken(orders, t, o)
          = IF ~Abstract!Agree(o, t) \/ A >= m THEN 0 ELSE Abstract!Min({v, m - A})
    BY SumsCoincide DEF Abstract!Taken
  <2>2. ahead(o) \in SUBSET orders /\ \A p \in orders : f[p] \in Int
    BY <1>1
  <2> HIDE DEF f, ahead
  <2>3. A \in Int
    <3>1. IsFiniteSet(ahead(o)) /\ \A p \in ahead(o) : f[p] \in Int
      BY <1>1, <2>2, FS_Subset
    <3> QED
      BY <3>1, SumInt
  <2>4. v \in Int /\ m \in Int
    BY <1>1
  <2> HIDE DEF A, v, m
  <2>5. m - A \in Int
    BY <2>3, <2>4
  <2>6. Abstract!Min({v, m - A}) = IF v <= m - A THEN v ELSE m - A
    BY <2>4, <2>5, MinOfTwo
  <2>7. Abstract!Min({v, m - A}) \in Int
    BY <2>4, <2>5, <2>6
  <2> QED
    BY <2>1, <2>7
<1>3. \A o \in orders : PaidFor(orders, t)[o] \in Int /\ GotFor(orders, t)[o] \in Int
  <2> SUFFICES ASSUME NEW o \in orders
               PROVE  PaidFor(orders, t)[o] \in Int /\ GotFor(orders, t)[o] \in Int
    OBVIOUS
  <2> DEFINE x == Abstract!Taken(orders, t, o)
             q == o.price
  <2>1. x \in Int /\ q \in Int
    BY <1>1, <1>2
  <2>2. /\ PaidFor(orders, t)[o] = (IF t.kind = "buy" THEN x * q ELSE x)
        /\ GotFor(orders, t)[o] = (IF t.kind = "buy" THEN x ELSE x * q)
    BY DEF PaidFor, GotFor
  <2> HIDE DEF x, q
  <2>3. x * q \in Int
    BY <2>1
  <2> QED
    BY <2>1, <2>2, <2>3
<1>4. ASSUME NEW R \in SUBSET orders
      PROVE  Sum(PaidFor(orders, t), R) \in Int /\ Sum(GotFor(orders, t), R) \in Int
  <2>1. /\ IsFiniteSet(R)
        /\ \A o \in R : PaidFor(orders, t)[o] \in Int
        /\ \A o \in R : GotFor(orders, t)[o] \in Int
    BY <1>1, <1>3, FS_Subset
  <2> QED
    BY <2>1, SumInt
<1> QED
  BY <1>4

(* ... and locking it what the message does to the balances.               *)
LEMMA CoinsStored ==
  ASSUME BooksKept, BooksKept', Traded, storeUnfilledLimitOrder
  PROVE  coins' = Abstract!CoinsAfter(saved.coins, OrdersOf(saved.books), tx)
<1> DEFINE orders == OrdersOf(saved.books)
           e == saved.coins
           E == PaidIn(tx)
           F == GotIn(tx)
           lock == IF tx.kind = "buy" THEN unfilled * tx.price ELSE unfilled
           paid == PaidFor(orders, tx)
           got == GotFor(orders, tx)
<1>1. /\ InTx /\ pc = "store"
      /\ unfilled = 0 => coins' = coins
      /\ unfilled # 0 => coins' = Lock.coins
  BY StoreStep DEF BooksKept
<1>2. /\ unfilled = Abstract!Rest(orders, tx)
      /\ BalancesTraded(tx, orders, coins, e)
  BY <1>1 DEF Traded
<1>3. /\ coins \in Ledger /\ coins' \in Ledger /\ e \in Ledger /\ unfilled \in Nat
      /\ tx.sender \in Accounts /\ tx.price \in Nat
      /\ tx.amountDenom \in Denoms /\ tx.priceDenom \in Denoms
  BY <1>1, TxTypes DEF BooksKept, Settled, TypeOK
<1>4. /\ NewLimitOrder.kind = tx.kind /\ NewLimitOrder.price = tx.price
      /\ LockedDenom(NewLimitOrder) = E /\ Locked(NewLimitOrder, unfilled) = lock
      /\ E \in Denoms /\ lock \in Nat /\ (unfilled = 0 => lock = 0)
  <2>1. unfilled * tx.price \in Nat /\ 0 * tx.price = 0
    BY <1>3
  <2> QED
    BY <1>3, <2>1 DEF NewLimitOrder, LockedDenom, Locked, TotalPrice, PaidIn
<1>5. /\ Abstract!EscrowDenom(tx) = E
      /\ Abstract!Escrow(tx, Abstract!Rest(orders, tx)) = lock
      /\ (IF tx.kind = "buy" THEN tx.amountDenom ELSE tx.priceDenom) = F
  BY <1>2 DEF Abstract!EscrowDenom, Abstract!Escrow, PaidIn, GotIn
<1> HIDE DEF lock, E, F
<1>6. \A a \in Accounts, d \in Denoms :
        coins'[a][d] = coins[a][d] - (IF a = tx.sender /\ d = E THEN lock ELSE 0)
  <2>1. CASE unfilled = 0
    <3>1. \A a \in Accounts, d \in Denoms : coins[a][d] \in Int
      BY <1>3 DEF Ledger
    <3> QED
      BY <1>1, <1>4, <2>1, <3>1
  <2>2. CASE unfilled # 0
    <3>1. Lock = SubtractCoins(coins, tx.sender, E, lock) /\ ~Lock.err
      BY <1>1, <1>4, LockEffect DEF Lock, BooksKept
    <3>2. \A a \in Accounts, d \in Denoms :
            Lock.coins[a][d]
              = IF a = tx.sender /\ d = E THEN coins[tx.sender][E] - lock ELSE coins[a][d]
      BY <1>3, <1>4, <3>1, SubtractCoinsEffect
    <3>3. \A a \in Accounts, d \in Denoms : coins[a][d] \in Int
      BY <1>3 DEF Ledger
    <3> QED
      BY <1>1, <1>4, <2>2, <3>2, <3>3
  <2> QED
    BY <2>1, <2>2
<1> DEFINE given == [o \in orders |-> Abstract!Taken(orders, tx, o)]
           cost == [o \in orders |-> given[o] * o.price]
<1>7. /\ paid = IF tx.kind = "buy" THEN cost ELSE given
      /\ got = IF tx.kind = "buy" THEN given ELSE cost
  BY DEF PaidFor, GotFor
<1>8. Abstract!CoinsAfter(e, orders, tx)
        = [a \in Accounts |-> [d \in Denoms |->
             e[a][d]
             + (IF d = E THEN Sum(paid, OrdersOwned(orders, a)) ELSE 0)
             - (IF a = tx.sender /\ d = E THEN Sum(paid, orders) + lock ELSE 0)
             + (IF a = tx.sender /\ d = F THEN Sum(got, orders) ELSE 0)]]
  BY <1>5, <1>7, SumsCoincide DEF Abstract!CoinsAfter, OrdersOwned
<1> HIDE DEF paid, got, e, orders
<1>9. ASSUME NEW a \in Accounts, NEW d \in Denoms
      PROVE  coins'[a][d] = e[a][d]
               + (IF d = E THEN Sum(paid, OrdersOwned(orders, a)) ELSE 0)
               - (IF a = tx.sender /\ d = E THEN Sum(paid, orders) + lock ELSE 0)
               + (IF a = tx.sender /\ d = F THEN Sum(got, orders) ELSE 0)
  <2>1. coins[a][d] = e[a][d]
               + (IF d = E THEN Sum(paid, OrdersOwned(orders, a)) ELSE 0)
               - (IF a = tx.sender /\ d = E THEN Sum(paid, orders) ELSE 0)
               + (IF a = tx.sender /\ d = F THEN Sum(got, orders) ELSE 0)
    BY <1>2 DEF BalancesTraded, Moved, E, F, paid, got
  <2>2. /\ Sum(paid, OrdersOwned(orders, a)) \in Int
        /\ Sum(paid, orders) \in Int /\ Sum(got, orders) \in Int
    <3>1. OrdersOwned(orders, a) \in SUBSET orders /\ orders \in SUBSET orders
      BY DEF OrdersOwned
    <3>2. MarketOf(orders, saved.books[MatchingKey(tx)], tx)
      BY <1>1, MarketOfTx DEF orders
    <3> QED
      BY <3>1, <3>2, TradedTypes DEF paid, got
  <2>3. e[a][d] \in Int /\ lock \in Int
    BY <1>3, <1>4 DEF Ledger
  <2>4. coins'[a][d] = coins[a][d] - (IF a = tx.sender /\ d = E THEN lock ELSE 0)
    BY <1>6
  <2> DEFINE x == coins'[a][d]
             y == coins[a][d]
             z == e[a][d]
             A == Sum(paid, OrdersOwned(orders, a))
             B == Sum(paid, orders)
             C == Sum(got, orders)
             P == d = E
             Q == a = tx.sender /\ d = E
             R == a = tx.sender /\ d = F
  <2> HIDE DEF x, y, z, A, B, C
  <2>5. /\ y = z + (IF P THEN A ELSE 0) - (IF Q THEN B ELSE 0) + (IF R THEN C ELSE 0)
        /\ x = y - (IF Q THEN lock ELSE 0)
        /\ A \in Int /\ B \in Int /\ C \in Int /\ z \in Int
    BY <2>1, <2>2, <2>3, <2>4 DEF x, y, z, A, B, C
  <2>6. x = z + (IF P THEN A ELSE 0) - (IF Q THEN B + lock ELSE 0) + (IF R THEN C ELSE 0)
    BY <2>3, <2>5
  <2> QED
    BY <2>6 DEF x, z, A, B, C
<1> QED
  BY <1>3, <1>8, <1>9 DEF Ledger, e, orders

(* The end of a transaction is the step of its message.                    *)
LEMMA StoreIsPlace ==
  ASSUME BooksKept, BooksKept', Promised, storeUnfilledLimitOrder
  PROVE  \E m \in Msgs : Abstract!Place(m)
<1>1. /\ InTx /\ pc = "store" /\ ~InTx' /\ nextOrderID' = nextOrderID + 1
      /\ blockTime' = blockTime /\ toRefund' = toRefund
  BY StoreStep DEF BooksKept, clock
<1>2. /\ tx \in Msgs /\ toRefund = {} /\ tx.expiresAt >= blockTime
      /\ saved.nextOrderID = nextOrderID
      /\ Abstract!Affordable(saved.coins, tx)
  BY <1>1 DEF BooksKept, Settled, TypeOK, RefundKept, TxKept, Promised, Offered
<1>3. Committed = saved /\ CommittedOrders = OrdersOf(saved.books)
  BY <1>1, CommittedState
<1>4. /\ (Committed.coins)' = coins' /\ (Committed.nextOrderID)' = nextOrderID'
      /\ CommittedOrders' = OrdersOf(books')
  BY <1>1 DEF CommittedOrders, OrdersOf, Committed
<1>5. /\ OrdersOf(books') = Abstract!OrdersAfter(OrdersOf(saved.books), tx, nextOrderID)
      /\ coins' = Abstract!CoinsAfter(saved.coins, OrdersOf(saved.books), tx)
  BY OrdersStored, CoinsStored DEF Promised
<1>6. Abstract!Place(tx)
  BY <1>1, <1>2, <1>3, <1>4, <1>5 DEF Abstract!Place
<1> QED
  BY <1>2, <1>6

(* All expired orders leave the books at once.                             *)
LEMMA BeginBlockerIsLapse ==
  ASSUME BooksKept, BooksKept', Offered, BeginBlocker
  PROVE  \E t \in 0..MaxTime : Abstract!Lapse(t)
<1>1. /\ ~InTx /\ ~InTx' /\ blockTime' = now /\ coins' = coins /\ nextOrderID' = nextOrderID
      /\ books' = [k \in BookKeys |-> RemoveExpired(books[k], now)]
      /\ toRefund' = ExpiredOrders(now) /\ toRefund = {}
  BY DEF BeginBlocker, InTx, BooksKept, RefundKept
<1>2. /\ books \in Books /\ now \in 0..MaxTime /\ now >= blockTime
  BY KeptTypes, ConstantsAssumption DEF BooksKept, Offered
<1>3. /\ Committed.coins = coins /\ (Committed.coins)' = coins'
      /\ Committed.nextOrderID = nextOrderID /\ (Committed.nextOrderID)' = nextOrderID'
      /\ CommittedOrders = OrdersOf(books) /\ CommittedOrders' = OrdersOf(books')
  BY <1>1 DEF CommittedOrders, OrdersOf, Committed
<1>4. \A k \in BookKeys : Range(books'[k]) = {o \in Range(books[k]) : ~Expired(o, now)}
  <2> SUFFICES ASSUME NEW k \in BookKeys
               PROVE  Range(books'[k]) = {o \in Range(books[k]) : ~Expired(o, now)}
    OBVIOUS
  <2> DEFINE s == books[k]
             K == {j \in 1..Len(s) : ~Expired(s[j], now)}
  <2>1. s \in Seq(LimitOrder) /\ K \in SUBSET (1..Len(s))
    BY <1>2 DEF Books
  <2>2. books'[k] = Keep(s, K)
    BY <1>1 DEF RemoveExpired
  <2>3. {s[j] : j \in K} = {o \in Range(s) : ~Expired(o, now)}
    BY <2>1, RangeOfOrders
  <2> HIDE DEF s, K
  <2>4. Range(Keep(s, K)) = {s[j] : j \in K}
    BY <2>1, KeepRange
  <2> QED
    BY <2>2, <2>3, <2>4 DEF s
<1>5. ExpiredOrders(now) = {o \in OrdersOf(books) : Expired(o, now)}
  BY DEF ExpiredOrders, OrdersOf
<1>6. OrdersOf(books') = {o \in OrdersOf(books) : ~Expired(o, now)}
  BY <1>4 DEF OrdersOf
<1>7. Abstract!Lapsed(OrdersOf(books), now) = {o \in OrdersOf(books) : Expired(o, now)}
  BY DEF Abstract!Lapsed, Expired
<1>8. /\ toRefund' = Abstract!Lapsed(OrdersOf(books), now)
      /\ OrdersOf(books') = OrdersOf(books) \ Abstract!Lapsed(OrdersOf(books), now)
  BY <1>1, <1>5, <1>6, <1>7
<1>9. Abstract!Lapse(now)
  BY <1>1, <1>2, <1>3, <1>8 DEF Abstract!Lapse
<1> QED
  BY <1>2, <1>9

(* One order gives back what it had locked.                                *)
LEMMA RefundedOne ==
  ASSUME NEW c \in Ledger, NEW o \in LimitOrder
  PROVE  AddCoins(c, o.sender, LockedDenom(o), Locked(o, o.amount)).coins
           = Abstract!Refunded(c, {o})
<1> DEFINE x == Locked(o, o.amount)
           D == LockedDenom(o)
           back == [p \in {o} |-> Abstract!Escrow(p, p.amount)]
           of(a, d) == {p \in {o} : p.sender = a /\ Abstract!EscrowDenom(p) = d}
           r == AddCoins(c, o.sender, D, x).coins
<1>1. /\ o.sender \in Accounts /\ D \in Denoms /\ x \in Nat
  <2>1. /\ o.sender \in Accounts /\ o.amountDenom \in Denoms /\ o.priceDenom \in Denoms
        /\ o.amount \in Nat /\ o.price \in Nat
    BY DEF LimitOrder
  <2>2. o.amount * o.price \in Nat
    BY <2>1
  <2> QED
    BY <2>1, <2>2 DEF LockedDenom, Locked, TotalPrice
<1>2. /\ Abstract!EscrowDenom(o) = D /\ Abstract!Escrow(o, o.amount) = x
  BY DEF Abstract!EscrowDenom, Abstract!Escrow, LockedDenom, Locked, TotalPrice
<1>3. back[o] = x
  BY <1>2
<1>4. \A a, d : of(a, d) = IF o.sender = a /\ D = d THEN {o} ELSE {}
  BY <1>2
<1>5. Abstract!Refunded(c, {o})
        = [a \in Accounts |-> [d \in Denoms |-> c[a][d] + Sum(back, of(a, d))]]
  BY SumsCoincide DEF Abstract!Refunded
<1> HIDE DEF x, D, back, of
<1>6. Sum(back, {o}) = x /\ Sum(back, {}) = 0
  <2>1. Sum(back, {}) = 0 /\ IsFiniteSet({}) /\ o \notin {} /\ {} \cup {o} = {o}
    BY SumEmpty, FS_EmptySet
  <2>2. \A p \in {} \cup {o} : back[p] \in Int
    BY <1>1, <1>3
  <2>3. Sum(back, {} \cup {o}) = back[o] + Sum(back, {})
    BY <2>1, <2>2, SumAdds
  <2> QED
    BY <1>1, <1>3, <2>1, <2>3
<1>7. r \in Ledger /\ \A a \in Accounts, d \in Denoms :
        r[a][d] = IF a = o.sender /\ d = D THEN c[o.sender][D] + x ELSE c[a][d]
  BY <1>1, AddCoinsEffect
<1> HIDE DEF r
<1>8. ASSUME NEW a \in Accounts, NEW d \in Denoms
      PROVE  r[a][d] = c[a][d] + Sum(back, of(a, d))
  <2>1. c[a][d] \in Int
    BY DEF Ledger
  <2>2. CASE o.sender = a /\ D = d
    BY <1>4, <1>6, <1>7, <2>2
  <2>3. CASE ~(o.sender = a /\ D = d)
    <3>1. Sum(back, of(a, d)) = 0
      BY <1>4, <1>6, <2>3
    <3> QED
      BY <1>7, <2>1, <2>3, <3>1
  <2> QED
    BY <2>2, <2>3
<1> QED
  BY <1>5, <1>7, <1>8 DEF Ledger, r, x, D

LEMMA RefundIsRefund ==
  ASSUME BooksKept, BooksKept', NEW o \in toRefund, refundOrder(o)
  PROVE  Abstract!Refund(o)
<1>1. /\ ~InTx /\ ~InTx' /\ coins' = Refund(o).coins /\ toRefund' = toRefund \ {o}
      /\ books' = books /\ nextOrderID' = nextOrderID /\ blockTime' = blockTime
  BY DEF refundOrder, InTx, clock
<1>2. coins \in Ledger /\ o \in LimitOrder
  BY DEF BooksKept, Settled, TypeOK
<1>3. /\ Committed.coins = coins /\ (Committed.coins)' = coins'
      /\ Committed.nextOrderID = nextOrderID /\ (Committed.nextOrderID)' = nextOrderID'
      /\ CommittedOrders = OrdersOf(books) /\ CommittedOrders' = OrdersOf(books')
  BY <1>1 DEF CommittedOrders, OrdersOf, Committed
<1>4. coins' = Abstract!Refunded(coins, {o})
  BY <1>1, <1>2, RefundedOne DEF Refund
<1> QED
  BY <1>1, <1>3, <1>4 DEF Abstract!Refund

(* No other step is visible.                                               *)
LEMMA StepsOfEscrow ==
  BooksKept /\ BooksKept' /\ Promised /\ [Next]_vars => [Abstract!Next]_(Abstract!vars)
<1> SUFFICES ASSUME BooksKept, BooksKept', Promised, [Next]_vars
             PROVE  [Abstract!Next]_(Abstract!vars)
  OBVIOUS
<1>1. ASSUME Committed' = Committed, toRefund' = toRefund, blockTime' = blockTime
      PROVE  UNCHANGED Abstract!vars
  BY <1>1 DEF Abstract!vars, CommittedOrders
<1>2. ASSUME InTx, Rollback, UNCHANGED <<clock, toRefund>> PROVE UNCHANGED Abstract!vars
  <2>1. /\ coins' = saved.coins /\ books' = saved.books /\ nextOrderID' = saved.nextOrderID
        /\ ~InTx' /\ toRefund' = toRefund /\ blockTime' = blockTime
    BY <1>2 DEF Rollback, Idle, InTx, clock
  <2>2. Committed = saved
    BY <1>2 DEF Committed
  <2>3. /\ (Committed.coins)' = saved.coins /\ (Committed.books)' = saved.books
        /\ (Committed.nextOrderID)' = saved.nextOrderID
    BY <2>1 DEF Committed
  <2>4. CommittedOrders' = CommittedOrders
    BY <2>2, <2>3 DEF CommittedOrders
  <2> QED
    BY <2>1, <2>2, <2>3, <2>4 DEF Abstract!vars
<1>3. ASSUME NEW m \in Msgs, processLimitOrder(m) PROVE UNCHANGED Abstract!vars
  <2>1. /\ ~InTx /\ InTx' /\ toRefund' = toRefund /\ blockTime' = blockTime
        /\ saved' = [coins |-> coins, books |-> books, nextOrderID |-> nextOrderID]
    BY <1>3 DEF processLimitOrder, InTx, clock
  <2>2. Committed' = Committed
    BY <2>1 DEF Committed
  <2> QED
    BY <1>1, <2>1, <2>2
<1>4. CASE fillStoredOrder
  <2>1. /\ InTx /\ InTx' /\ saved' = saved /\ toRefund' = toRefund /\ blockTime' = blockTime
    BY <1>4, FillStep DEF InTx, BooksKept
  <2> QED
    BY <1>1, <2>1 DEF Committed
<1>5. CASE fillEnd
  <2>1. pc = "fill" /\ InTx /\ ~err /\ toRefund' = toRefund /\ blockTime' = blockTime
    BY <1>5 DEF fillEnd, clock, InTx, BooksKept, Settled, NoLateFailure
  <2>2. InTx' /\ saved' = saved
    BY <1>5, <2>1 DEF fillEnd, InTx
  <2> QED
    BY <1>1, <2>1, <2>2 DEF Committed
<1>6. CASE storeUnfilledLimitOrder
  BY <1>6, StoreIsPlace DEF Abstract!Next
<1>7. CASE outOfGas
  BY <1>2, <1>7 DEF outOfGas
<1>8. CASE BeginBlocker
  BY <1>8, BeginBlockerIsLapse DEF Abstract!Next, Promised
<1>9. ASSUME NEW o \in toRefund, refundOrder(o) PROVE Abstract!Next
  BY <1>9, RefundIsRefund DEF Abstract!Next
<1>10. CASE Tick
  <2>1. Committed' = Committed /\ toRefund' = toRefund /\ blockTime' = blockTime
    BY <1>10 DEF Tick, store, Committed, InTx
  <2> QED
    BY <1>1, <2>1
<1>11. CASE UNCHANGED vars
  <2>1. Committed' = Committed /\ toRefund' = toRefund /\ blockTime' = blockTime
    BY <1>11 DEF vars, store, clock, Committed, InTx
  <2> QED
    BY <1>1, <2>1
<1> QED
  BY <1>3, <1>4, <1>5, <1>6, <1>7, <1>8, <1>9, <1>10, <1>11 DEF Next

LEMMA StartsLikeEscrow == Init => Abstract!Init
<1> SUFFICES ASSUME Init PROVE Abstract!Init
  OBVIOUS
<1>1. /\ coins = InitCoins /\ books = [k \in BookKeys |-> <<>>]
      /\ nextOrderID = StartingOrderID /\ blockTime = 0 /\ toRefund = {} /\ ~InTx
  BY DEF Init, InTx
<1>2. Committed.coins = coins /\ Committed.books = books /\ Committed.nextOrderID = nextOrderID
  BY <1>1 DEF Committed
<1>3. Range(<<>>) = {}
  BY DEF Range
<1>4. CommittedOrders = {}
  BY <1>1, <1>2, <1>3 DEF CommittedOrders
<1> QED
  BY <1>1, <1>2, <1>4 DEF Abstract!Init

(* Every behaviour of the exchange is one of Escrow: whatever the loops,   *)
(* the single coin movements and the failing transactions do, users see    *)
(* trades by price and time priority at the price of the older order, all  *)
(* or nothing, and every lapsed order refunded what it had locked.         *)
THEOREM KeepsThePromise == Spec => ImplementsEscrow
<1>1. Init => Abstract!Init
  BY StartsLikeEscrow
<1>2. BooksKept /\ BooksKept' /\ Promised /\ [Next]_vars => [Abstract!Next]_(Abstract!vars)
  BY StepsOfEscrow
<1> QED
  BY <1>1, <1>2, BooksAlwaysKept, PromisedAlways, PTL DEF Spec, ImplementsEscrow, Abstract!Spec
=============================================================================
