--------------------------- MODULE ReplicasProofs ---------------------------
(***************************************************************************)
(* Proofs about Replicas for any nodes, quorums, messages, heights, clocks *)
(* and numbers of crashes: a version of a node is what the block before it *)
(* and two clock readings make of the version before, so nodes split over  *)
(* nothing but their clocks; and no version has more or fewer coins than   *)
(* the genesis file.                                                       *)
(***************************************************************************)
EXTENDS Replicas, SumProofs, SequenceTheorems

-----------------------------------------------------------------------------
(* What a block does to a state.                                           *)

(* The state a begin blocker leaves when it reads the time t.              *)
Begun(state, t) ==
  [state EXCEPT !.orders = @ \ Lapsed(state.orders, t),
                !.coins = Refunded(@, Lapsed(state.orders, t))]

(* The state the message m leaves when it is executed at the time t.       *)
Delivered(state, m, t) ==
  IF m.expiresAt < t \/ ~Affordable(state.coins, m)
  THEN state
  ELSE [coins       |-> CoinsAfter(state.coins, state.orders, m),
        orders      |-> OrdersAfter(state.orders, m, state.nextOrderID),
        nextOrderID |-> state.nextOrderID + 1]

(* Neither step looks at the clock but to compare it with an expiry.       *)
LEMMA BegunSame ==
  ASSUME NEW state, NEW t, NEW u,
         \A o \in state.orders : ~Splits(o.expiresAt, t, u)
  PROVE  Begun(state, t) = Begun(state, u)
<1>1. Lapsed(state.orders, t) = Lapsed(state.orders, u)
  BY DEF Lapsed, Splits
<1> QED
  BY <1>1 DEF Begun

LEMMA DeliveredSame ==
  ASSUME NEW state, NEW m, NEW t, NEW u, ~Splits(m.expiresAt, t, u)
  PROVE  Delivered(state, m, t) = Delivered(state, m, u)
BY DEF Delivered, Splits

-----------------------------------------------------------------------------
(* What the states are worth.                                              *)

Order == [orderID : Nat, sender : Accounts, kind : {"buy", "sell"},
          amountDenom : Denoms, priceDenom : Denoms,
          amount : Int, price : Int, expiresAt : Int]

Offer == [sender : Accounts, kind : {"buy", "sell"},
          amountDenom : Denoms, priceDenom : Denoms,
          amount : Int, price : Int, expiresAt : Int]

Balances == [Accounts -> [Denoms -> Int]]

(* Orders are told apart by their IDs, which are all old ones.  (That no   *)
(* amount is negative plays no part in what the states are worth.)         *)
Sound(state) ==
  /\ state \in [coins : Balances, orders : SUBSET Order, nextOrderID : Nat]
  /\ IsFiniteSet(state.orders)
  /\ \A o \in state.orders : o.orderID < state.nextOrderID
  /\ \A o, p \in state.orders : o.orderID = p.orderID => o = p

Keeps(o, d) == IF EscrowDenom(o) = d THEN Escrow(o, o.amount) ELSE 0

LEMMA LockedAsSum ==
  ASSUME NEW orders, NEW d
  PROVE  LockedBy(orders, d) = Sum([o \in orders |-> Keeps(o, d)], orders)
BY DEF LockedBy, Sum, Keeps

LEMMA EscrowType ==
  /\ \A o \in Order : /\ EscrowDenom(o) \in Denoms
                      /\ Escrow(o, o.amount) \in Int
                      /\ \A d : Keeps(o, d) \in Int
  /\ \A m \in Offer : /\ EscrowDenom(m) \in Denoms
                      /\ \A x \in Int : Escrow(m, x) \in Int
<1>1. ASSUME NEW o \in Order
      PROVE  EscrowDenom(o) \in Denoms /\ Escrow(o, o.amount) \in Int
  <2>1. o.amount \in Int /\ o.price \in Int
    BY DEF Order
  <2>2. o.amount * o.price \in Int
    BY <2>1
  <2> QED
    BY <2>1, <2>2 DEF Escrow, EscrowDenom, Order
<1>2. ASSUME NEW m \in Offer, NEW x \in Int
      PROVE  EscrowDenom(m) \in Denoms /\ Escrow(m, x) \in Int
  <2>1. x * m.price \in Int
    BY DEF Offer
  <2> QED
    BY <2>1 DEF Escrow, EscrowDenom, Offer
<1>3. \A m \in Offer : EscrowDenom(m) \in Denoms
  BY DEF EscrowDenom, Offer
<1> QED
  BY <1>1, <1>2, <1>3 DEF Keeps

(* The keeps of two sets of orders with nothing in common add up.          *)
LEMMA LockedUnion ==
  ASSUME NEW S \in SUBSET Order, NEW R \in SUBSET Order, S \cap R = {},
         IsFiniteSet(S), IsFiniteSet(R), NEW d
  PROVE  LockedBy(S \cup R, d) = LockedBy(S, d) + LockedBy(R, d)
<1> DEFINE f == [o \in S \cup R |-> Keeps(o, d)]
<1>1. \A o \in S \cup R : f[o] = Keeps(o, d) /\ f[o] \in Int
  BY EscrowType
<1> HIDE DEF f
<1>2. Sum(f, S \cup R) = Sum(f, S) + Sum(f, R)
  BY <1>1, SumUnion
<1>3. Sum(f, S) = Sum([o \in S |-> Keeps(o, d)], S)
  BY <1>1, SumSame
<1>4. Sum(f, R) = Sum([o \in R |-> Keeps(o, d)], R)
  BY <1>1, SumSame
<1>5. LockedBy(S \cup R, d) = Sum(f, S \cup R)
  BY LockedAsSum DEF f
<1> QED
  BY <1>2, <1>3, <1>4, <1>5, LockedAsSum

LEMMA LockedInt ==
  ASSUME NEW S \in SUBSET Order, IsFiniteSet(S), NEW d
  PROVE  LockedBy(S, d) \in Int
<1> DEFINE f == [o \in S |-> Keeps(o, d)]
<1>1. \A o \in S : f[o] \in Int
  BY EscrowType
<1> HIDE DEF f
<1>2. Sum(f, S) \in Int
  BY <1>1, SumInt
<1> QED
  BY <1>2, LockedAsSum DEF f

LEMMA TotalInt ==
  ASSUME NEW c \in Balances, NEW d \in Denoms
  PROVE  /\ TotalCoins(c, d) \in Int
         /\ TotalCoins(c, d) = Sum([a \in Accounts |-> c[a][d]], Accounts)
<1> DEFINE f == [a \in Accounts |-> c[a][d]]
<1>1. \A a \in Accounts : f[a] \in Int
  BY DEF Balances
<1>2. IsFiniteSet(Accounts)
  BY ReplicasAssumption
<1> HIDE DEF f
<1>3. Sum(f, Accounts) \in Int
  BY <1>1, <1>2, SumInt
<1> QED
  BY <1>3 DEF f, TotalCoins, Sum

Of(S, a) == {o \in S : o.sender = a}

(* What each account is given adds up to what is given in all.             *)
LEMMA SumByOwner ==
  ASSUME NEW S \in SUBSET Order, IsFiniteSet(S), NEW f, \A o \in S : f[o] \in Int,
         NEW s, \A a \in Accounts : s[a] = Sum(f, Of(S, a))
  PROVE  Sum(s, Accounts) = Sum(f, S) /\ \A a \in Accounts : s[a] \in Int
<1> DEFINE A == [a \in Accounts |-> Of(S, a)]
<1>1. Partitions(A, Accounts, S)
  BY DEF Partitions, Order, Of
<1>2. \A a \in Accounts : A[a] \in SUBSET S /\ s[a] = Sum(f, A[a])
  BY DEF Of
<1>3. IsFiniteSet(Accounts)
  BY ReplicasAssumption
<1> HIDE DEF A
<1>4. \A a \in Accounts : IsFiniteSet(A[a])
  BY <1>2, FS_Subset
<1>5. Sum(f, S) = Sum(s, Accounts)
  BY <1>1, <1>2, <1>3, <1>4, SumFamily
<1>6. ASSUME NEW a \in Accounts PROVE s[a] \in Int
  <2>1. \A o \in A[a] : f[o] \in Int
    BY <1>2
  <2> QED
    BY <1>2, <1>4, <2>1, SumInt
<1> QED
  BY <1>5, <1>6

(* Refunding orders turns what they keep into balances.                    *)
LEMMA RefundedWorth ==
  ASSUME NEW c \in Balances, NEW S \in SUBSET Order, IsFiniteSet(S)
  PROVE  /\ Refunded(c, S) \in Balances
         /\ \A d \in Denoms :
              TotalCoins(Refunded(c, S), d) = TotalCoins(c, d) + LockedBy(S, d)
<1> DEFINE back == [o \in S |-> Escrow(o, o.amount)]
           OfIn(a, d) == {o \in S : o.sender = a /\ EscrowDenom(o) = d}
           r == Refunded(c, S)
<1>1. \A a \in Accounts, d \in Denoms : r[a][d] = c[a][d] + Sum(back, OfIn(a, d))
  BY DEF Refunded, Sum
<1>2. \A o \in S : back[o] \in Int /\ back[o] = Escrow(o, o.amount)
  BY EscrowType
<1>3. r = [a \in Accounts |-> [d \in Denoms |-> r[a][d]]]
  BY DEF Refunded
<1> HIDE DEF r, back
<1>4. ASSUME NEW a \in Accounts, NEW d \in Denoms
      PROVE  /\ IsFiniteSet(OfIn(a, d))
             /\ Sum(back, OfIn(a, d)) \in Int
             /\ r[a][d] \in Int
  <2>1. OfIn(a, d) \in SUBSET S
    OBVIOUS
  <2>2. c[a][d] \in Int
    BY DEF Balances
  <2> HIDE DEF OfIn
  <2>3. IsFiniteSet(OfIn(a, d)) /\ \A o \in OfIn(a, d) : back[o] \in Int
    BY <1>2, <2>1, FS_Subset
  <2>4. Sum(back, OfIn(a, d)) \in Int
    BY <2>3, SumInt
  <2> QED
    BY <1>1, <2>2, <2>3, <2>4
<1>5. r \in Balances
  BY <1>3, <1>4 DEF Balances
<1>6. ASSUME NEW d \in Denoms
      PROVE  TotalCoins(r, d) = TotalCoins(c, d) + LockedBy(S, d)
  <2> DEFINE f == [o \in S |-> Keeps(o, d)]
             s == [a \in Accounts |-> Sum(f, Of(S, a))]
             g == [a \in Accounts |-> c[a][d]]
             h == [a \in Accounts |-> r[a][d]]
  <2>1. \A o \in S : f[o] \in Int /\ f[o] = Keeps(o, d)
    BY EscrowType
  <2>2. \A a \in Accounts : s[a] = Sum(f, Of(S, a))
    OBVIOUS
  <2>3. \A a \in Accounts : g[a] \in Int /\ g[a] = c[a][d] /\ h[a] = r[a][d]
    BY DEF Balances
  <2>4. TotalCoins(c, d) = Sum(g, Accounts) /\ TotalCoins(r, d) = Sum(h, Accounts)
    BY <1>5, TotalInt
  <2>5. LockedBy(S, d) = Sum(f, S)
    BY LockedAsSum
  <2> HIDE DEF f, s, g, h
  <2>6. Sum(s, Accounts) = Sum(f, S) /\ \A a \in Accounts : s[a] \in Int
    BY <2>1, <2>2, SumByOwner
  <2>7. ASSUME NEW a \in Accounts PROVE s[a] = Sum(back, OfIn(a, d))
    <3> DEFINE mine == Of(S, a)
    <3>1. OfIn(a, d) \in SUBSET mine /\ mine \in SUBSET S
      BY DEF Of
    <3>2. \A o \in mine \ OfIn(a, d) : f[o] = 0
      BY <2>1 DEF Keeps, Of
    <3>3. \A o \in OfIn(a, d) : f[o] = back[o]
      BY <1>2, <2>1 DEF Keeps
    <3>4. s[a] = Sum(f, mine)
      BY <2>2
    <3> HIDE DEF mine, OfIn
    <3>5. IsFiniteSet(mine) /\ IsFiniteSet(OfIn(a, d))
      BY <3>1, FS_Subset
    <3>6. \A o \in mine : f[o] \in Int
      BY <2>1, <3>1
    <3>7. Sum(f, mine) = Sum(f, OfIn(a, d))
      BY <3>1, <3>2, <3>5, <3>6, SumSupport
    <3>8. Sum(f, OfIn(a, d)) = Sum(back, OfIn(a, d))
      BY <3>1, <3>3, <3>5, <3>6, SumSame
    <3> QED
      BY <3>4, <3>7, <3>8
  <2>8. \A a \in Accounts : h[a] = g[a] + s[a]
    BY <1>1, <2>3, <2>7
  <2>9. Sum(h, Accounts) = Sum(g, Accounts) + Sum(s, Accounts)
    BY <2>3, <2>6, <2>8, SumPlus, ReplicasAssumption
  <2> QED
    BY <2>4, <2>5, <2>6, <2>9
<1> QED
  BY <1>5, <1>6 DEF r
-----------------------------------------------------------------------------
(* One message.                                                            *)

Given(S, m) == [o \in S |-> Taken(S, m, o)]
Cost(S, m) == [o \in S |-> Given(S, m)[o] * o.price]
Paid(S, m) == IF m.kind = "buy" THEN Cost(S, m) ELSE Given(S, m)
Got(S, m) == IF m.kind = "buy" THEN Given(S, m) ELSE Cost(S, m)
GotDenom(m) == IF m.kind = "buy" THEN m.amountDenom ELSE m.priceDenom

(* Only orders that agree with the message give anything.                  *)
LEMMA TakenType ==
  ASSUME NEW S \in SUBSET Order, IsFiniteSet(S), NEW m \in Offer, NEW o \in S
  PROVE  Taken(S, m, o) \in Int /\ (~Agree(o, m) => Taken(S, m, o) = 0)
<1> DEFINE f == [p \in S |-> p.amount]
           T == {p \in S : Agree(p, m) /\ Before(p, o)}
           ahead == Sum(f, T)
<1>1. T \in SUBSET S
  OBVIOUS
<1>2. Taken(S, m, o) = IF ~Agree(o, m) \/ ahead >= m.amount THEN 0
                       ELSE Min({o.amount, m.amount - ahead})
  BY DEF Taken, Sum
<1>3. \A p \in S : f[p] \in Int
  BY DEF Order
<1> HIDE DEF f, T
<1>4. ahead \in Int
  BY <1>1, <1>3, FS_Subset, SumInt
<1> HIDE DEF ahead
<1>5. o.amount \in Int /\ m.amount - ahead \in Int
  BY <1>4 DEF Order, Offer
<1>6. \A x, y \in Int : Min({x, y}) \in Int
  <2> SUFFICES ASSUME NEW x \in Int, NEW y \in Int PROVE Min({x, y}) \in Int
    OBVIOUS
  <2>1. \E z \in {x, y} : \A u \in {x, y} : z <= u
    OBVIOUS
  <2>2. Min({x, y}) \in {x, y}
    BY <2>1 DEF Min
  <2> QED
    BY <2>2
<1> QED
  BY <1>2, <1>5, <1>6

LEMMA TradedTypes ==
  ASSUME NEW S \in SUBSET Order, IsFiniteSet(S), NEW m \in Offer
  PROVE  /\ \A o \in S : /\ Given(S, m)[o] \in Int
                         /\ Given(S, m)[o] = Taken(S, m, o)
                         /\ Paid(S, m)[o] \in Int
                         /\ Got(S, m)[o] \in Int
                         /\ Got(S, m)[o] = IF m.kind = "buy" THEN Taken(S, m, o)
                                           ELSE Taken(S, m, o) * o.price
         /\ Sum(Given(S, m), S) \in Int /\ Sum(Paid(S, m), S) \in Int
         /\ Sum(Got(S, m), S) \in Int
         /\ Rest(S, m) \in Int
         /\ Rest(S, m) = m.amount - Sum(Given(S, m), S)
<1> DEFINE given == Given(S, m)
           paid == Paid(S, m)
           got == Got(S, m)
<1>1. \A o \in S : given[o] = Taken(S, m, o) /\ given[o] \in Int
  BY TakenType DEF Given
<1>2. \A o \in S : Cost(S, m)[o] = given[o] * o.price /\ Cost(S, m)[o] \in Int
  <2>1. \A o \in S : o.price \in Int
    BY DEF Order
  <2>2. \A o \in S : given[o] * o.price \in Int
    BY <1>1, <2>1
  <2> QED
    BY <2>2 DEF Cost
<1>3. \A o \in S : paid[o] \in Int /\ got[o] \in Int
  BY <1>1, <1>2 DEF Paid, Got
<1>4. \A o \in S : got[o] = IF m.kind = "buy" THEN given[o] ELSE given[o] * o.price
  BY <1>2 DEF Got
<1>5. Rest(S, m) = m.amount - Sum(given, S)
  BY DEF Rest, Sum, Given
<1>6. m.amount \in Int
  BY DEF Offer
<1> HIDE DEF given, paid, got
<1>7. Sum(given, S) \in Int /\ Sum(paid, S) \in Int /\ Sum(got, S) \in Int
  BY <1>1, <1>3, SumInt
<1>8. Rest(S, m) \in Int
  BY <1>5, <1>6, <1>7
<1> QED
  BY <1>1, <1>3, <1>4, <1>5, <1>7, <1>8 DEF given, paid, got

(* The sum of a function that is zero but at one element.                  *)
LEMMA SumOne ==
  ASSUME NEW S, IsFiniteSet(S), NEW x \in S, NEW f, f[x] \in Int,
         \A y \in S \ {x} : f[y] = 0
  PROVE  Sum(f, S) = f[x]
<1>1. \A y \in S : f[y] \in Int
  OBVIOUS
<1>2. Sum(f, S) = f[x] + Sum(f, S \ {x})
  BY <1>1, SumTakes
<1>3. Sum(f, S \ {x}) = 0
  BY SumZero, FS_RemoveElement
<1> QED
  BY <1>2, <1>3

(* The balances lose what the rest of the message locks, and gain what the *)
(* orders it was matched with had locked.                                  *)
LEMMA CoinsAfterWorth ==
  ASSUME NEW c \in Balances, NEW S \in SUBSET Order, IsFiniteSet(S), NEW m \in Offer
  PROVE  /\ CoinsAfter(c, S, m) \in Balances
         /\ \A d \in Denoms :
              TotalCoins(CoinsAfter(c, S, m), d) =
                TotalCoins(c, d)
                - (IF d = EscrowDenom(m) THEN Escrow(m, Rest(S, m)) ELSE 0)
                + (IF d = GotDenom(m) THEN Sum(Got(S, m), S) ELSE 0)
<1> DEFINE paid == Paid(S, m)
           got == Got(S, m)
           locked == Escrow(m, Rest(S, m))
           r == CoinsAfter(c, S, m)
           Pays(a, d) == IF d = EscrowDenom(m) THEN Sum(paid, Of(S, a)) ELSE 0
           Own(d) == (IF d = GotDenom(m) THEN Sum(got, S) ELSE 0)
                     - (IF d = EscrowDenom(m) THEN Sum(paid, S) + locked ELSE 0)
<1>1. r = [a \in Accounts |-> [d \in Denoms |->
            c[a][d]
            + (IF d = EscrowDenom(m) THEN Sum(paid, Of(S, a)) ELSE 0)
            - (IF a = m.sender /\ d = EscrowDenom(m) THEN Sum(paid, S) + locked ELSE 0)
            + (IF a = m.sender /\ d = GotDenom(m) THEN Sum(got, S) ELSE 0)]]
  BY DEF CoinsAfter, Sum, Of, Paid, Got, Cost, Given, GotDenom
<1>2. /\ \A o \in S : paid[o] \in Int
      /\ Sum(paid, S) \in Int /\ Sum(got, S) \in Int /\ Rest(S, m) \in Int
  BY TradedTypes
<1>3. locked \in Int /\ m.sender \in Accounts
  BY <1>2, EscrowType DEF Offer
<1> HIDE DEF paid, got, locked, r
<1>4. ASSUME NEW a \in Accounts PROVE Sum(paid, Of(S, a)) \in Int
  <2>1. Of(S, a) \in SUBSET S
    BY DEF Of
  <2> QED
    BY <1>2, <2>1, FS_Subset, SumInt
<1>5. \A a \in Accounts, d \in Denoms :
        /\ c[a][d] \in Int /\ Pays(a, d) \in Int /\ Own(d) \in Int
        /\ r[a][d] = c[a][d] + Pays(a, d) + (IF a = m.sender THEN Own(d) ELSE 0)
  <2> SUFFICES ASSUME NEW a \in Accounts, NEW d \in Denoms
               PROVE  /\ c[a][d] \in Int /\ Pays(a, d) \in Int /\ Own(d) \in Int
                      /\ r[a][d] = c[a][d] + Pays(a, d)
                                    + (IF a = m.sender THEN Own(d) ELSE 0)
    OBVIOUS
  <2>1. c[a][d] \in Int
    BY DEF Balances
  <2>2. Pays(a, d) \in Int
    BY <1>4
  <2>3. Own(d) \in Int
    BY <1>2, <1>3
  <2>4. r[a][d] =
          c[a][d]
          + Pays(a, d)
          - (IF a = m.sender /\ d = EscrowDenom(m) THEN Sum(paid, S) + locked ELSE 0)
          + (IF a = m.sender /\ d = GotDenom(m) THEN Sum(got, S) ELSE 0)
    BY <1>1
  <2> DEFINE p == Pays(a, d)
  <2>5. p \in Int
    BY <2>2
  <2>6. r[a][d] =
          c[a][d]
          + p
          - (IF a = m.sender /\ d = EscrowDenom(m) THEN Sum(paid, S) + locked ELSE 0)
          + (IF a = m.sender /\ d = GotDenom(m) THEN Sum(got, S) ELSE 0)
    BY <2>4
  <2> HIDE DEF p
  <2>7. r[a][d] = c[a][d] + p + (IF a = m.sender THEN Own(d) ELSE 0)
    BY <1>2, <1>3, <2>1, <2>5, <2>6
  <2> QED
    BY <2>1, <2>2, <2>3, <2>7 DEF p
<1>6. r \in Balances
  <2>1. \A a \in Accounts, d \in Denoms : r[a][d] \in Int
    BY <1>5
  <2> QED
    BY <1>1, <2>1 DEF Balances
<1>7. ASSUME NEW d \in Denoms
      PROVE  TotalCoins(r, d) = TotalCoins(c, d)
               - (IF d = EscrowDenom(m) THEN locked ELSE 0)
               + (IF d = GotDenom(m) THEN Sum(got, S) ELSE 0)
  <2> DEFINE g == [a \in Accounts |-> c[a][d]]
             h == [a \in Accounts |-> r[a][d]]
             s == [a \in Accounts |-> Pays(a, d)]
             k == [a \in Accounts |-> g[a] + s[a]]
             w == [a \in Accounts |-> IF a = m.sender THEN Own(d) ELSE 0]
  <2>1. TotalCoins(c, d) = Sum(g, Accounts) /\ TotalCoins(r, d) = Sum(h, Accounts)
    BY <1>6, TotalInt
  <2>2. \A a \in Accounts :
          /\ g[a] \in Int /\ s[a] \in Int /\ k[a] \in Int /\ w[a] \in Int
          /\ k[a] = g[a] + s[a] /\ h[a] = k[a] + w[a]
    BY <1>5
  <2>3. Sum(s, Accounts) = IF d = EscrowDenom(m) THEN Sum(paid, S) ELSE 0
    <3>1. CASE d = EscrowDenom(m)
      <4>1. \A a \in Accounts : s[a] = Sum(paid, Of(S, a))
        BY <3>1
      <4> HIDE DEF s
      <4> QED
        BY <1>2, <3>1, <4>1, SumByOwner
    <3>2. CASE d # EscrowDenom(m)
      <4>1. \A a \in Accounts : s[a] = 0
        BY <3>2
      <4> HIDE DEF s
      <4> QED
        BY <3>2, <4>1, SumZero, ReplicasAssumption
    <3> QED
      BY <3>1, <3>2
  <2>4. Sum(w, Accounts) = Own(d)
    <3>1. w[m.sender] = Own(d) /\ \A a \in Accounts \ {m.sender} : w[a] = 0
      BY <1>3
    <3>2. w[m.sender] \in Int
      BY <1>3, <1>5, <3>1
    <3> HIDE DEF w, Own
    <3> QED
      BY <1>3, <3>1, <3>2, SumOne, ReplicasAssumption
  <2> HIDE DEF g, h, s, k, w
  <2>5. Sum(k, Accounts) = Sum(g, Accounts) + Sum(s, Accounts)
    BY <2>2, SumPlus, ReplicasAssumption
  <2>6. Sum(h, Accounts) = Sum(k, Accounts) + Sum(w, Accounts)
    BY <2>2, SumPlus, ReplicasAssumption
  <2>7. Sum(g, Accounts) \in Int
    BY <2>2, SumInt, ReplicasAssumption
  <2> QED
    BY <1>2, <1>3, <2>1, <2>3, <2>4, <2>5, <2>6, <2>7
<1> QED
  BY <1>6, <1>7 DEF r, got, locked
Left(S, m, o) == [o EXCEPT !.amount = @ - Taken(S, m, o)]

NewOrder(S, m, id) ==
  [orderID |-> id, sender |-> m.sender, kind |-> m.kind,
   amountDenom |-> m.amountDenom, priceDenom |-> m.priceDenom,
   amount |-> Rest(S, m), price |-> m.price, expiresAt |-> m.expiresAt]

(* An order that was matched keeps less, by what the message got of it.    *)
LEMMA LeftKeeps ==
  ASSUME NEW S \in SUBSET Order, IsFiniteSet(S), NEW m \in Offer, NEW o \in S
  PROVE  /\ Left(S, m, o) \in Order
         /\ Left(S, m, o).orderID = o.orderID
         /\ \A d : Keeps(Left(S, m, o), d) =
                     Keeps(o, d) - (IF d = GotDenom(m) THEN Got(S, m)[o] ELSE 0)
<1> DEFINE t == Taken(S, m, o)
           l == Left(S, m, o)
<1>1. /\ t \in Int
      /\ ~Agree(o, m) => t = 0
      /\ Got(S, m)[o] = IF m.kind = "buy" THEN t ELSE t * o.price
  BY TakenType, TradedTypes
<1>2. /\ o \in Order /\ o.amount \in Int /\ o.price \in Int
      /\ o.kind \in {"buy", "sell"} /\ m.kind \in {"buy", "sell"}
  BY DEF Order, Offer
<1>3. l = [o EXCEPT !.amount = o.amount - t]
  BY DEF Left
<1> HIDE DEF t, l
<1>4. /\ l \in Order /\ l.orderID = o.orderID /\ l.kind = o.kind /\ l.price = o.price
      /\ l.amount = o.amount - t
      /\ l.amountDenom = o.amountDenom /\ l.priceDenom = o.priceDenom
  BY <1>1, <1>2, <1>3 DEF Order
<1>5. ASSUME NEW d
      PROVE  Keeps(l, d) = Keeps(o, d) - (IF d = GotDenom(m) THEN Got(S, m)[o] ELSE 0)
  <2>1. EscrowDenom(l) = EscrowDenom(o)
    BY <1>4 DEF EscrowDenom
  <2>2. CASE Agree(o, m) /\ o.kind = "buy"
    <3>1. (o.amount - t) * o.price = o.amount * o.price - t * o.price
      BY <1>1, <1>2
    <3>2. o.amount * o.price \in Int /\ t * o.price \in Int
      BY <1>1, <1>2
    <3>3. EscrowDenom(o) = GotDenom(m) /\ Got(S, m)[o] = t * o.price
      BY <1>1, <1>2, <2>2 DEF Agree, EscrowDenom, GotDenom
    <3>4. Escrow(l, l.amount) = (o.amount - t) * o.price /\ Escrow(o, o.amount) = o.amount * o.price
      BY <1>4, <2>2 DEF Escrow
    <3>5. Escrow(l, l.amount) = Escrow(o, o.amount) - Got(S, m)[o] /\ Escrow(o, o.amount) \in Int
      BY <3>1, <3>2, <3>3, <3>4
    <3> QED
      BY <2>1, <3>3, <3>5 DEF Keeps
  <2>3. CASE Agree(o, m) /\ o.kind = "sell"
    <3>1. EscrowDenom(o) = GotDenom(m) /\ Got(S, m)[o] = t
      BY <1>1, <1>2, <2>3 DEF Agree, EscrowDenom, GotDenom
    <3>2. Escrow(l, l.amount) = o.amount - t /\ Escrow(o, o.amount) = o.amount
      BY <1>4, <2>3 DEF Escrow
    <3> QED
      BY <1>1, <1>2, <2>1, <3>1, <3>2 DEF Keeps
  <2>4. CASE ~Agree(o, m)
    <3>1. t = 0 /\ Got(S, m)[o] = 0
      BY <1>1, <1>2, <2>4
    <3>2. l.amount = o.amount
      BY <1>2, <1>4, <3>1
    <3>3. Keeps(l, d) = Keeps(o, d)
      BY <1>4, <2>1, <3>2 DEF Keeps, Escrow
    <3> QED
      BY <3>1, <3>3, EscrowType
  <2> QED
    BY <1>2, <2>2, <2>3, <2>4
<1> QED
  BY <1>4, <1>5 DEF l

(* The orders keep less by what was released, and more by what is locked   *)
(* for the rest.                                                           *)
LEMMA OrdersAfterWorth ==
  ASSUME NEW S \in SUBSET Order, IsFiniteSet(S), NEW m \in Offer, NEW id \in Nat,
         \A o \in S : o.orderID < id,
         \A o, p \in S : o.orderID = p.orderID => o = p
  PROVE  /\ OrdersAfter(S, m, id) \in SUBSET Order
         /\ IsFiniteSet(OrdersAfter(S, m, id))
         /\ \A o \in OrdersAfter(S, m, id) : o.orderID < id + 1
         /\ \A o, p \in OrdersAfter(S, m, id) : o.orderID = p.orderID => o = p
         /\ \A d \in Denoms :
              LockedBy(OrdersAfter(S, m, id), d) =
                LockedBy(S, d)
                - (IF d = GotDenom(m) THEN Sum(Got(S, m), S) ELSE 0)
                + (IF d = EscrowDenom(m) THEN Escrow(m, Rest(S, m)) ELSE 0)
<1> DEFINE R == {Left(S, m, o) : o \in S}
           new == NewOrder(S, m, id)
           after == OrdersAfter(S, m, id)
           r == [o \in S |-> Left(S, m, o)]
<1>1. after = {o \in R \cup {new} : o.amount # 0}
  BY DEF OrdersAfter, Left, NewOrder
<1>2. \A o \in S : /\ r[o] = Left(S, m, o)
                   /\ r[o] \in Order
                   /\ r[o].orderID = o.orderID
  BY LeftKeeps
<1>3. R = {r[o] : o \in S}
  OBVIOUS
<1>4. /\ new \in Order /\ new.orderID = id
      /\ \A d : Keeps(new, d) = IF d = EscrowDenom(m) THEN Escrow(m, Rest(S, m)) ELSE 0
  <2>1. Rest(S, m) \in Int
    BY TradedTypes
  <2> QED
    BY <2>1 DEF NewOrder, Order, Offer, Keeps, Escrow, EscrowDenom
<1> HIDE DEF R, r, new, after
<1>5. Renames(r, S, R)
  BY <1>2, <1>3 DEF Renames
<1>6. R \in SUBSET Order /\ \A o \in R : o.orderID < id
  BY <1>2, <1>3
<1>7. \A o, p \in R : o.orderID = p.orderID => o = p
  BY <1>2, <1>3
<1>8. new \notin R
  BY <1>4, <1>6
<1>9. \A o \in S : o.orderID \in Nat
  BY DEF Order
<1>10. IsFiniteSet(R)
  <2> DEFINE f == [o \in S |-> 0]
             g == [o \in R |-> 0]
  <2>1. \A o \in S : f[o] \in Int /\ g[r[o]] = f[o]
    BY <1>3
  <2> HIDE DEF f, g
  <2>2. IsFiniteSet(R) /\ Sum(g, R) = Sum(f, S)
    BY <1>5, <2>1, SumRenamed
  <2> QED
    BY <2>2
<1>11. after \in SUBSET (R \cup {new}) /\ IsFiniteSet(R \cup {new})
  BY <1>1, <1>10, FS_AddElement
<1>12. IsFiniteSet(after) /\ after \in SUBSET Order
  BY <1>4, <1>6, <1>11, FS_Subset
<1>13. \A o \in after : o.orderID < id + 1
  <2>1. \A o \in R : o.orderID \in Nat
    BY <1>6 DEF Order
  <2> QED
    BY <1>4, <1>6, <1>11, <2>1
<1>14. \A o, p \in after : o.orderID = p.orderID => o = p
  <2>1. \A o \in R : o.orderID # id
    BY <1>6
  <2> QED
    BY <1>4, <1>7, <1>11, <2>1
<1>15. ASSUME NEW d \in Denoms
       PROVE  LockedBy(after, d) =
                LockedBy(S, d)
                - (IF d = GotDenom(m) THEN Sum(Got(S, m), S) ELSE 0)
                + (IF d = EscrowDenom(m) THEN Escrow(m, Rest(S, m)) ELSE 0)
  <2> DEFINE f == [o \in S |-> Keeps(o, d)]
             g == [o \in S |-> Keeps(r[o], d)]
             e == [o \in S |-> IF d = GotDenom(m) THEN Got(S, m)[o] ELSE 0]
             all == [o \in R \cup {new} |-> Keeps(o, d)]
             some == [o \in after |-> Keeps(o, d)]
             got == Got(S, m)
  <2>1. \A o \in S : /\ f[o] \in Int /\ g[o] \in Int /\ e[o] \in Int
                     /\ f[o] = g[o] + e[o]
    <3>1. \A o \in S : f[o] = Keeps(o, d) /\ g[o] = Keeps(Left(S, m, o), d)
      BY <1>2
    <3>2. \A o \in S : Keeps(o, d) \in Int /\ Got(S, m)[o] \in Int
      BY EscrowType, TradedTypes
    <3>3. \A o \in S : Keeps(Left(S, m, o), d) = Keeps(o, d) - e[o]
      BY LeftKeeps
    <3>4. \A o \in S : e[o] \in Int
      BY <3>2
    <3> QED
      BY <3>1, <3>2, <3>3, <3>4
  <2>2. \A o \in R \cup {new} : all[o] = Keeps(o, d) /\ all[o] \in Int
    BY <1>4, <1>6, EscrowType
  <2>3. \A o \in (R \cup {new}) \ after : all[o] = 0
    <3>1. ASSUME NEW o \in Order, o.amount = 0 PROVE Keeps(o, d) = 0
      <4>1. o.price \in Int
        BY DEF Order
      <4>2. o.amount * o.price = 0
        BY <3>1, <4>1
      <4> QED
        BY <3>1, <4>2 DEF Keeps, Escrow
    <3> QED
      BY <1>1, <1>4, <1>6, <2>2, <3>1
  <2>4. \A o \in S : all[r[o]] = g[o]
    BY <1>2, <1>3, <2>2
  <2>5. \A o \in after : some[o] = all[o] /\ some[o] \in Int
    BY <1>11, <2>2
  <2>6. LockedBy(S, d) = Sum(f, S) /\ LockedBy(after, d) = Sum(some, after)
    BY LockedAsSum
  <2>7. Sum(e, S) = IF d = GotDenom(m) THEN Sum(got, S) ELSE 0
    <3>1. CASE d = GotDenom(m)
      <4>1. \A o \in S : e[o] = got[o] /\ e[o] \in Int
        BY <2>1, <3>1
      <4> HIDE DEF e, got
      <4> QED
        BY <3>1, <4>1, SumSame
    <3>2. CASE d # GotDenom(m)
      <4>1. \A o \in S : e[o] = 0
        BY <3>2
      <4> HIDE DEF e
      <4> QED
        BY <3>2, <4>1, SumZero
    <3> QED
      BY <3>1, <3>2
  <2> HIDE DEF f, g, e, all, some
  <2>8. Sum(f, S) = Sum(g, S) + Sum(e, S)
    BY <2>1, SumPlus
  <2>9. Sum(all, R) = Sum(g, S)
    BY <1>5, <2>1, <2>4, SumRenamed
  <2>10. Sum(all, R \cup {new}) = all[new] + Sum(all, R)
    BY <1>8, <1>10, <2>2, SumAdds
  <2>11. Sum(all, R \cup {new}) = Sum(all, after)
    BY <1>11, <2>2, <2>3, SumSupport
  <2>12. Sum(some, after) = Sum(all, after)
    BY <1>12, <2>5, SumSame
  <2>13. all[new] = IF d = EscrowDenom(m) THEN Escrow(m, Rest(S, m)) ELSE 0
    BY <1>4, <2>2
  <2>14. all[new] \in Int /\ Sum(g, S) \in Int /\ Sum(e, S) \in Int
    BY <2>1, <2>2, SumInt
  <2> QED
    BY <2>6, <2>7, <2>8, <2>9, <2>10, <2>11, <2>12, <2>13, <2>14
<1> QED
  BY <1>12, <1>13, <1>14, <1>15 DEF after
-----------------------------------------------------------------------------
(* One block.                                                              *)

LEMMA WorthInt ==
  ASSUME NEW state, Sound(state), NEW d \in Denoms
  PROVE  /\ TotalCoins(state.coins, d) \in Int
         /\ LockedBy(state.orders, d) \in Int
BY LockedInt, TotalInt DEF Sound

(* Expired orders are refunded what they kept.                             *)
LEMMA BegunSound ==
  ASSUME NEW state, Sound(state), NEW t
  PROVE  /\ Sound(Begun(state, t))
         /\ \A d \in Denoms : Worth(Begun(state, t), d) = Worth(state, d)
<1> DEFINE L == Lapsed(state.orders, t)
           K == state.orders \ L
           r == Refunded(state.coins, L)
           s == Begun(state, t)
<1>1. L \in SUBSET state.orders
  BY DEF Lapsed
<1>2. /\ state \in [coins : Balances, orders : SUBSET Order, nextOrderID : Nat]
      /\ IsFiniteSet(state.orders)
  BY DEF Sound
<1>3. s = [coins |-> r, orders |-> K, nextOrderID |-> state.nextOrderID]
  <2>1. s = [state EXCEPT !.orders = K, !.coins = r]
    BY DEF Begun
  <2> HIDE DEF s, r, K
  <2> QED
    BY <1>2, <2>1
<1> HIDE DEF L, r, s
<1>4. /\ L \in SUBSET Order /\ K \in SUBSET Order /\ IsFiniteSet(L) /\ IsFiniteSet(K)
      /\ L \cap K = {} /\ L \cup K = state.orders
  BY <1>1, <1>2, FS_Subset
<1>5. /\ r \in Balances
      /\ \A d \in Denoms : TotalCoins(r, d) = TotalCoins(state.coins, d) + LockedBy(L, d)
  BY <1>2, <1>4, RefundedWorth DEF r
<1>6. Sound(s)
  BY <1>3, <1>4, <1>5 DEF Sound
<1>7. ASSUME NEW d \in Denoms PROVE Worth(s, d) = Worth(state, d)
  <2>1. LockedBy(L \cup K, d) = LockedBy(L, d) + LockedBy(K, d)
    BY <1>4, LockedUnion
  <2>2. LockedBy(L, d) \in Int /\ LockedBy(K, d) \in Int /\ TotalCoins(state.coins, d) \in Int
    BY <1>4, LockedInt, WorthInt
  <2>3. s.coins = r /\ s.orders = K
    BY <1>3
  <2> HIDE DEF K
  <2>4. Worth(s, d) = TotalCoins(r, d) + LockedBy(K, d)
    BY <2>3 DEF Worth
  <2>5. Worth(state, d) = TotalCoins(state.coins, d) + LockedBy(L \cup K, d)
    BY <1>4 DEF Worth
  <2>6. TotalCoins(r, d) = TotalCoins(state.coins, d) + LockedBy(L, d)
    BY <1>5
  <2> QED
    BY <2>1, <2>2, <2>4, <2>5, <2>6
<1> QED
  BY <1>6, <1>7 DEF s

(* What the sender pays, the owners get or the new order keeps; what the   *)
(* sender gets, the orders do not keep any more.                           *)
LEMMA DeliveredSound ==
  ASSUME NEW state, Sound(state), NEW m \in Offer, NEW t
  PROVE  /\ Sound(Delivered(state, m, t))
         /\ \A d \in Denoms : Worth(Delivered(state, m, t), d) = Worth(state, d)
<1> DEFINE S == state.orders
           id == state.nextOrderID
           c == CoinsAfter(state.coins, S, m)
           after == OrdersAfter(S, m, id)
           s == [coins |-> c, orders |-> after, nextOrderID |-> id + 1]
<1>1. /\ state.coins \in Balances /\ S \in SUBSET Order /\ id \in Nat /\ IsFiniteSet(S)
      /\ \A o \in S : o.orderID < id
      /\ \A o, p \in S : o.orderID = p.orderID => o = p
  BY DEF Sound
<1>2. Delivered(state, m, t) \in {state, s}
  BY DEF Delivered
<1> HIDE DEF S, id
<1>3. /\ c \in Balances
      /\ \A d \in Denoms :
           TotalCoins(c, d) =
             TotalCoins(state.coins, d)
             - (IF d = EscrowDenom(m) THEN Escrow(m, Rest(S, m)) ELSE 0)
             + (IF d = GotDenom(m) THEN Sum(Got(S, m), S) ELSE 0)
  BY <1>1, CoinsAfterWorth
<1>4. /\ after \in SUBSET Order
      /\ IsFiniteSet(after)
      /\ \A o \in after : o.orderID < id + 1
      /\ \A o, p \in after : o.orderID = p.orderID => o = p
      /\ \A d \in Denoms :
           LockedBy(after, d) =
             LockedBy(S, d)
             - (IF d = GotDenom(m) THEN Sum(Got(S, m), S) ELSE 0)
             + (IF d = EscrowDenom(m) THEN Escrow(m, Rest(S, m)) ELSE 0)
  BY <1>1, OrdersAfterWorth
<1>5. Escrow(m, Rest(S, m)) \in Int /\ Sum(Got(S, m), S) \in Int
  BY <1>1, TradedTypes, EscrowType
<1> HIDE DEF c, after
<1>6. Sound(s)
  BY <1>1, <1>3, <1>4 DEF Sound
<1>7. ASSUME NEW d \in Denoms PROVE Worth(s, d) = Worth(state, d)
  <2>1. TotalCoins(state.coins, d) \in Int /\ LockedBy(S, d) \in Int
    BY <1>1, LockedInt, TotalInt
  <2>2. Worth(s, d) = TotalCoins(c, d) + LockedBy(after, d)
    BY DEF Worth
  <2>3. Worth(state, d) = TotalCoins(state.coins, d) + LockedBy(S, d)
    BY DEF Worth, S
  <2> QED
    BY <1>3, <1>4, <1>5, <2>1, <2>2, <2>3
<1> QED
  BY <1>2, <1>6, <1>7
-----------------------------------------------------------------------------
(* Where the versions come from.                                           *)

States == [coins : Balances, orders : SUBSET Order, nextOrderID : Nat]

(* The readings of a node while it executed a block.                       *)
Readings == [begin : Int, deliver : Int]

Proper(state) ==
  Sound(state) /\ \A d \in Denoms : Worth(state, d) = TotalCoins(InitCoins, d)

(* What holds of a node with the versions v, the work w, the phase ph and  *)
(* the readings r when the blocks b are decided: each version, and what    *)
(* the node has of the next one, is computed from the version before, the  *)
(* block and the readings that were kept.  A crash forgets the work and    *)
(* its reading, and nothing else.                                          *)
NodeOK(b, v, w, ph, r) ==
  /\ ph \in {"idle", "begun", "delivered"}
  /\ v \in Seq(States) /\ Len(v) >= 1
  /\ r \in Seq(Readings)
  /\ Len(r) = Len(v) - 1 + (IF ph = "idle" THEN 0 ELSE 1)
  /\ Len(r) <= Len(b)
  /\ \A h \in 1..Len(v) : Proper(v[h])
  /\ \A h \in 1..(Len(v) - 1) :
       v[h + 1] = Delivered(Begun(v[h], r[h].begin), b[h].msg, r[h].deliver)
  /\ ph = "begun" => w = Begun(v[Len(v)], r[Len(v)].begin)
  /\ ph = "delivered" =>
       w = Delivered(Begun(v[Len(v)], r[Len(v)].begin), b[Len(v)].msg, r[Len(v)].deliver)

ReplicasInv ==
  /\ blocks \in Seq([msg : Offers, appState : States])
  /\ clock \in [Nodes -> Int]
  /\ versions \in [Nodes -> Seq(States)]
  /\ readings \in [Nodes -> Seq(Readings)]
  /\ phase \in [Nodes -> {"idle", "begun", "delivered"}]
  /\ working \in [Nodes -> States \cup {NoState}]
  /\ \A n \in Nodes : NodeOK(blocks, versions[n], working[n], phase[n], readings[n])

LEMMA BegunProper ==
  ASSUME NEW state, Proper(state), NEW t
  PROVE  Proper(Begun(state, t))
BY BegunSound DEF Proper

LEMMA DeliveredProper ==
  ASSUME NEW state, Proper(state), NEW m \in Offers, NEW t
  PROVE  Proper(Delivered(state, m, t))
<1>1. m \in Offer
  BY ReplicasAssumption DEF Offer
<1> QED
  BY <1>1, DeliveredSound DEF Proper

LEMMA ProperState ==
  ASSUME NEW state, Proper(state)
  PROVE  state \in States
BY DEF Proper, Sound, States

LEMMA GenesisProper == Proper(Genesis)
<1>1. InitCoins \in Balances
  BY ReplicasAssumption DEF Balances
<1>2. Sound(Genesis)
  BY <1>1, FS_EmptySet, ReplicasAssumption DEF Sound, Genesis
<1>3. ASSUME NEW d \in Denoms PROVE Worth(Genesis, d) = TotalCoins(InitCoins, d)
  <2>1. LockedBy({}, d) = 0
    BY LockedAsSum, SumEmpty
  <2>2. TotalCoins(InitCoins, d) \in Int
    BY <1>1, TotalInt
  <2> QED
    BY <2>1, <2>2 DEF Worth, Genesis
<1> QED
  BY <1>2, <1>3 DEF Proper

LEMMA ReplicasInit == Init => ReplicasInv
<1> SUFFICES ASSUME Init PROVE ReplicasInv
  OBVIOUS
<1>1. Proper(Genesis) /\ Genesis \in States
  BY GenesisProper, ProperState
<1>2. <<Genesis>> \in Seq(States) /\ Len(<<Genesis>>) = 1 /\ <<Genesis>>[1] = Genesis
  BY <1>1
<1>3. <<>> \in Seq(Readings) /\ Len(<<>>) = 0
  OBVIOUS
<1>4. /\ blocks \in Seq([msg : Offers, appState : States])
      /\ clock \in [Nodes -> Int]
      /\ versions \in [Nodes -> Seq(States)]
      /\ readings \in [Nodes -> Seq(Readings)]
      /\ phase \in [Nodes -> {"idle", "begun", "delivered"}]
      /\ working \in [Nodes -> States \cup {NoState}]
  BY <1>2, <1>3 DEF Init
<1>5. ASSUME NEW n \in Nodes
      PROVE  NodeOK(blocks, versions[n], working[n], phase[n], readings[n])
  <2>1. blocks = <<>> /\ versions[n] = <<Genesis>> /\ phase[n] = "idle" /\ readings[n] = <<>>
    BY DEF Init
  <2>2. \A h \in 1..Len(<<Genesis>>) : Proper(<<Genesis>>[h])
    BY <1>1, <1>2
  <2> QED
    BY <1>2, <1>3, <2>1, <2>2 DEF NodeOK
<1> QED
  BY <1>4, <1>5 DEF ReplicasInv

(* One step of one node, with what the others have left alone.             *)
LEMMA OneNode ==
  ASSUME ReplicasInv, NEW n \in Nodes,
         NEW v, NEW w, NEW ph, NEW r,
         versions' = [versions EXCEPT ![n] = v],
         working' = [working EXCEPT ![n] = w],
         phase' = [phase EXCEPT ![n] = ph],
         readings' = [readings EXCEPT ![n] = r],
         blocks' = blocks, clock' = clock,
         w \in States \cup {NoState}, NodeOK(blocks, v, w, ph, r)
  PROVE  ReplicasInv'
<1>1. /\ versions' \in [Nodes -> Seq(States)]
      /\ readings' \in [Nodes -> Seq(Readings)]
      /\ phase' \in [Nodes -> {"idle", "begun", "delivered"}]
      /\ working' \in [Nodes -> States \cup {NoState}]
  <2>1. v \in Seq(States) /\ r \in Seq(Readings) /\ ph \in {"idle", "begun", "delivered"}
    BY DEF NodeOK
  <2> QED
    BY <2>1 DEF ReplicasInv
<1>2. ASSUME NEW p \in Nodes
      PROVE  NodeOK(blocks', versions'[p], working'[p], phase'[p], readings'[p])
  <2>1. CASE p = n
    <3>1. versions'[p] = v /\ working'[p] = w /\ phase'[p] = ph /\ readings'[p] = r
      BY <2>1 DEF ReplicasInv
    <3> QED
      BY <3>1
  <2>2. CASE p # n
    <3>1. /\ versions'[p] = versions[p] /\ working'[p] = working[p]
          /\ phase'[p] = phase[p] /\ readings'[p] = readings[p]
      BY <2>2 DEF ReplicasInv
    <3> QED
      BY <3>1 DEF ReplicasInv
  <2> QED
    BY <2>1, <2>2
<1> QED
  BY <1>1, <1>2 DEF ReplicasInv
(* The steps of a node.                                                    *)

LEMMA BlockAppended ==
  ASSUME NEW B, NEW b \in Seq(B), NEW x \in B,
         NEW v, NEW w, NEW ph, NEW r, NodeOK(b, v, w, ph, r)
  PROVE  NodeOK(Append(b, x), v, w, ph, r)
<1>1. Len(Append(b, x)) = Len(b) + 1 /\ \A h \in 1..Len(b) : Append(b, x)[h] = b[h]
  BY AppendProperties
<1>2. Len(v) \in Nat /\ Len(r) \in Nat /\ Len(b) \in Nat
  BY LenProperties DEF NodeOK
<1>3. \A h \in 1..(Len(v) - 1) : Append(b, x)[h] = b[h]
  BY <1>1, <1>2 DEF NodeOK
<1>4. ph = "delivered" => Append(b, x)[Len(v)] = b[Len(v)]
  BY <1>1, <1>2 DEF NodeOK
<1> QED
  BY <1>1, <1>2, <1>3, <1>4 DEF NodeOK

LEMMA NodeBegins ==
  ASSUME NEW b, Len(b) \in Nat, NEW v, NEW w, NEW r, NodeOK(b, v, w, "idle", r),
         Len(v) - 1 < Len(b), NEW t \in Int
  PROVE  NodeOK(b, v, Begun(v[Len(v)], t), "begun",
                Append(r, [begin |-> t, deliver |-> t]))
<1> DEFINE x == [begin |-> t, deliver |-> t]
           s == Append(r, x)
<1>1. r \in Seq(Readings) /\ x \in Readings /\ Len(r) \in Nat /\ Len(v) \in Nat
      /\ Len(r) = Len(v) - 1
  BY LenProperties DEF NodeOK, Readings
<1>2. x.begin = t
  OBVIOUS
<1> HIDE DEF x
<1>3. s \in Seq(Readings) /\ Len(s) = Len(r) + 1 /\ s[Len(r) + 1] = x
      /\ \A h \in 1..Len(r) : s[h] = r[h]
  BY <1>1, AppendProperties
<1> HIDE DEF s
<1>4. \A h \in 1..(Len(v) - 1) : s[h] = r[h]
  BY <1>1, <1>3
<1>5. s[Len(v)].begin = t /\ Len(s) = Len(v) - 1 + 1 /\ Len(s) <= Len(b)
  BY <1>1, <1>2, <1>3
<1> QED
  BY <1>3, <1>4, <1>5 DEF NodeOK, s, x

LEMMA NodeDelivers ==
  ASSUME NEW b, NEW v, NEW w, NEW r, NodeOK(b, v, w, "begun", r), NEW t \in Int
  PROVE  NodeOK(b, v, Delivered(w, b[Len(v)].msg, t), "delivered",
                [r EXCEPT ![Len(r)].deliver = t])
<1> DEFINE s == [r EXCEPT ![Len(r)].deliver = t]
<1>1. /\ r \in Seq(Readings) /\ Len(r) \in Nat /\ Len(v) \in Nat /\ Len(v) >= 1
      /\ Len(r) = Len(v)
  BY LenProperties DEF NodeOK
<1>2. r[Len(r)] \in Readings
  BY <1>1, ElementOfSeq
<1>3. /\ s \in Seq(Readings) /\ Len(s) = Len(r)
      /\ s[Len(r)] = [r[Len(r)] EXCEPT !.deliver = t]
      /\ \A h \in 1..(Len(r) - 1) : s[h] = r[h]
  <2>1. [r[Len(r)] EXCEPT !.deliver = t] \in Readings
    BY <1>2 DEF Readings
  <2>2. s = [r EXCEPT ![Len(r)] = [r[Len(r)] EXCEPT !.deliver = t]]
    BY <1>1
  <2> QED
    BY <1>1, <2>1, <2>2, ExceptSeq
<1>4. s[Len(v)].deliver = t /\ s[Len(v)].begin = r[Len(v)].begin
  BY <1>1, <1>2, <1>3 DEF Readings
<1> HIDE DEF s
<1> QED
  BY <1>1, <1>3, <1>4 DEF NodeOK, s

LEMMA NodeCommits ==
  ASSUME NEW b, NEW v, NEW w, NEW r, NodeOK(b, v, w, "delivered", r),
         b[Len(v)].msg \in Offers
  PROVE  /\ w \in States
         /\ NodeOK(b, Append(v, w), NoState, "idle", r)
<1> DEFINE u == Append(v, w)
<1>1. /\ v \in Seq(States) /\ Len(v) \in Nat /\ Len(v) >= 1
      /\ Len(r) = Len(v)
  BY LenProperties DEF NodeOK
<1>2. w = Delivered(Begun(v[Len(v)], r[Len(v)].begin), b[Len(v)].msg, r[Len(v)].deliver)
  BY DEF NodeOK
<1>3. Proper(w)
  <2>1. Proper(v[Len(v)])
    BY <1>1 DEF NodeOK
  <2> QED
    BY <1>2, <2>1, BegunProper, DeliveredProper
<1>4. w \in States
  BY <1>3, ProperState
<1>5. /\ u \in Seq(States) /\ Len(u) = Len(v) + 1 /\ u[Len(v) + 1] = w
      /\ \A h \in 1..Len(v) : u[h] = v[h]
  BY <1>1, <1>4, AppendProperties
<1> HIDE DEF u
<1>6. \A h \in 1..Len(u) : Proper(u[h])
  BY <1>1, <1>3, <1>5 DEF NodeOK
<1>7. ASSUME NEW h \in 1..(Len(u) - 1)
      PROVE  u[h + 1] = Delivered(Begun(u[h], r[h].begin), b[h].msg, r[h].deliver)
  <2>1. CASE h = Len(v)
    BY <1>1, <1>2, <1>5, <2>1
  <2>2. CASE h # Len(v)
    <3>1. h \in 1..(Len(v) - 1) /\ u[h] = v[h] /\ u[h + 1] = v[h + 1]
      BY <1>1, <1>5, <2>2
    <3> QED
      BY <3>1 DEF NodeOK
  <2> QED
    BY <2>1, <2>2
<1> QED
  BY <1>1, <1>4, <1>5, <1>6, <1>7 DEF NodeOK, u

LEMMA NodeRestarts ==
  ASSUME NEW b, Len(b) \in Nat, NEW v, NEW w, NEW ph, NEW r,
         NodeOK(b, v, w, ph, r), ph # "idle"
  PROVE  NodeOK(b, v, NoState, "idle", SubSeq(r, 1, Len(r) - 1))
<1> DEFINE s == SubSeq(r, 1, Len(r) - 1)
<1>1. /\ r \in Seq(Readings) /\ Len(r) \in Nat /\ Len(v) \in Nat /\ Len(v) >= 1
      /\ Len(r) = Len(v)
  BY LenProperties DEF NodeOK
<1>2. /\ s \in Seq(Readings) /\ Len(s) = Len(r) - 1
      /\ \A h \in 1..(Len(r) - 1) : s[h] = r[h]
  BY <1>1, SubSeqProperties
<1> HIDE DEF s
<1>3. Len(s) <= Len(b) /\ Len(s) = Len(v) - 1 + 0
  BY <1>1, <1>2 DEF NodeOK
<1> QED
  BY <1>1, <1>2, <1>3 DEF NodeOK, s
LEMMA NodeFacts ==
  ASSUME NEW b, Len(b) \in Nat, NEW v, NEW w, NEW ph, NEW r, NodeOK(b, v, w, ph, r)
  PROVE  /\ Len(v) \in Nat /\ Len(v) >= 1
         /\ Proper(v[Len(v)])
         /\ ph # "idle" => Len(v) \in 1..Len(b)
         /\ ph = "begun" => Proper(w)
<1>1. v \in Seq(States) /\ Len(v) \in Nat /\ Len(v) >= 1
  BY LenProperties DEF NodeOK
<1>2. Proper(v[Len(v)])
  BY <1>1 DEF NodeOK
<1>3. ph # "idle" => Len(v) \in 1..Len(b)
  BY <1>1 DEF NodeOK
<1>4. ph = "begun" => Proper(w)
  BY <1>2, BegunProper DEF NodeOK
<1> QED
  BY <1>1, <1>2, <1>3, <1>4

LEMMA ReplicasStep == ReplicasInv /\ [Next]_vars => ReplicasInv'
<1> SUFFICES ASSUME ReplicasInv, [Next]_vars PROVE ReplicasInv'
  OBVIOUS
<1> DEFINE Blocks == [msg : Offers, appState : States]
<1>0. /\ blocks \in Seq(Blocks) /\ Len(blocks) \in Nat
      /\ \A n \in Nodes : NodeOK(blocks, versions[n], working[n], phase[n], readings[n])
      /\ \A n \in Nodes : clock[n] \in Int
  BY LenProperties DEF ReplicasInv
<1>1. ASSUME NEW n \in Nodes
      PROVE  /\ Len(versions[n]) \in Nat /\ Len(versions[n]) >= 1
             /\ Proper(versions[n][Len(versions[n])])
             /\ versions[n][Len(versions[n])] \in States
             /\ Height(n) = Len(versions[n]) - 1
             /\ Latest(n) = versions[n][Len(versions[n])]
  <2>1. /\ Len(versions[n]) \in Nat /\ Len(versions[n]) >= 1
        /\ Proper(versions[n][Len(versions[n])])
    BY <1>0, NodeFacts
  <2> QED
    BY <2>1, ProperState DEF Height, Latest
<1>2. ASSUME NEW m \in Offers, Decide(m) PROVE ReplicasInv'
  <2>1. PICK n \in Nodes : blocks' = Append(blocks, [msg |-> m, appState |-> Latest(n)])
    BY <1>2, ReplicasAssumption DEF Decide
  <2>2. [msg |-> m, appState |-> Latest(n)] \in Blocks
    BY <1>1
  <2>3. /\ versions' = versions /\ working' = working /\ phase' = phase
        /\ readings' = readings /\ clock' = clock
    BY <1>2 DEF Decide
  <2>4. blocks' \in Seq(Blocks)
    BY <1>0, <2>1, <2>2, AppendProperties
  <2>5. \A p \in Nodes : NodeOK(blocks', versions[p], working[p], phase[p], readings[p])
    BY <1>0, <2>1, <2>2, BlockAppended
  <2> QED
    BY <2>3, <2>4, <2>5 DEF ReplicasInv
<1>3. ASSUME NEW n \in Nodes, BeginBlock(n) PROVE ReplicasInv'
  <2> DEFINE w == Begun(versions[n][Len(versions[n])], clock[n])
             r == Append(readings[n], [begin |-> clock[n], deliver |-> clock[n]])
  <2>1. /\ phase[n] = "idle" /\ Len(versions[n]) - 1 < Len(blocks)
        /\ working' = [working EXCEPT ![n] = w]
        /\ phase' = [phase EXCEPT ![n] = "begun"]
        /\ readings' = [readings EXCEPT ![n] = r]
        /\ blocks' = blocks /\ clock' = clock /\ versions' = versions
    BY <1>1, <1>3 DEF BeginBlock, Begun, Read
  <2>2. NodeOK(blocks, versions[n], w, "begun", r)
    BY <1>0, <2>1, NodeBegins
  <2>3. w \in States
    BY <1>1, BegunProper, ProperState
  <2>4. versions' = [versions EXCEPT ![n] = versions[n]]
    BY <2>1 DEF ReplicasInv
  <2> HIDE DEF w, r
  <2> QED
    BY <2>1, <2>2, <2>3, <2>4, OneNode
<1>4. ASSUME NEW n \in Nodes, DeliverTx(n) PROVE ReplicasInv'
  <2> DEFINE w == Delivered(working[n], blocks[Len(versions[n])].msg, clock[n])
             r == [readings[n] EXCEPT ![Len(readings[n])].deliver = clock[n]]
  <2>0. Height(n) + 1 = Len(versions[n])
    BY <1>1
  <2>1. /\ phase[n] = "begun"
        /\ working' = [working EXCEPT ![n] = w]
        /\ phase' = [phase EXCEPT ![n] = "delivered"]
        /\ blocks' = blocks /\ clock' = clock /\ versions' = versions
    BY <1>4, <2>0 DEF DeliverTx, Delivered
  <2>2. readings' = [readings EXCEPT ![n] = r]
    BY <1>4 DEF DeliverTx, Read, ReplicasInv
  <2>3. NodeOK(blocks, versions[n], w, "delivered", r)
    BY <1>0, <2>1, NodeDelivers
  <2>4. w \in States
    <3>1. Len(versions[n]) \in 1..Len(blocks) /\ Proper(working[n])
      BY <1>0, <2>1, NodeFacts
    <3>2. blocks[Len(versions[n])] \in Blocks
      BY <1>0, <3>1, ElementOfSeq
    <3> QED
      BY <3>1, <3>2, DeliveredProper, ProperState
  <2>5. versions' = [versions EXCEPT ![n] = versions[n]]
    BY <2>1 DEF ReplicasInv
  <2> HIDE DEF w, r
  <2> QED
    BY <2>1, <2>2, <2>3, <2>4, <2>5, OneNode
<1>5. ASSUME NEW n \in Nodes, Commit(n) PROVE ReplicasInv'
  <2> DEFINE v == Append(versions[n], working[n])
  <2>1. /\ phase[n] = "delivered"
        /\ versions' = [versions EXCEPT ![n] = v]
        /\ working' = [working EXCEPT ![n] = NoState]
        /\ phase' = [phase EXCEPT ![n] = "idle"]
        /\ blocks' = blocks /\ clock' = clock /\ readings' = readings
    BY <1>5 DEF Commit
  <2>2. Len(versions[n]) \in 1..Len(blocks)
    BY <1>0, <2>1, NodeFacts
  <2>3. blocks[Len(versions[n])] \in Blocks
    BY <1>0, <2>2, ElementOfSeq
  <2>4. NodeOK(blocks, v, NoState, "idle", readings[n])
    BY <1>0, <2>1, <2>3, NodeCommits
  <2>5. readings' = [readings EXCEPT ![n] = readings[n]]
    BY <2>1 DEF ReplicasInv
  <2> HIDE DEF v
  <2> QED
    BY <2>1, <2>4, <2>5, OneNode
<1>6. ASSUME NEW n \in Nodes, Restart(n) PROVE ReplicasInv'
  <2> DEFINE r == SubSeq(readings[n], 1, Len(readings[n]) - 1)
  <2>1. /\ phase[n] # "idle"
        /\ working' = [working EXCEPT ![n] = NoState]
        /\ phase' = [phase EXCEPT ![n] = "idle"]
        /\ readings' = [readings EXCEPT ![n] = r]
        /\ blocks' = blocks /\ clock' = clock /\ versions' = versions
    BY <1>6 DEF Restart
  <2>2. NodeOK(blocks, versions[n], NoState, "idle", r)
    BY <1>0, <2>1, NodeRestarts
  <2>3. versions' = [versions EXCEPT ![n] = versions[n]]
    BY <2>1 DEF ReplicasInv
  <2> HIDE DEF r
  <2> QED
    BY <2>1, <2>2, <2>3, OneNode
<1>7. ASSUME NEW n \in Nodes, Tick(n) PROVE ReplicasInv'
  <2>1. clock' \in [Nodes -> Int]
    BY <1>0, <1>7 DEF Tick, ReplicasInv
  <2> QED
    BY <1>7, <2>1 DEF Tick, ReplicasInv
<1>8. CASE UNCHANGED vars
  BY <1>8 DEF vars, ReplicasInv
<1> QED
  BY <1>2, <1>3, <1>4, <1>5, <1>6, <1>7, <1>8 DEF Next, Execute

(* The invariant holds in every reachable state.                           *)
THEOREM ReplicasAlways == Spec => []ReplicasInv
BY ReplicasInit, ReplicasStep, PTL DEF Spec

-----------------------------------------------------------------------------

(* Nodes that execute the same blocks come to different states only where  *)
(* an order expires between their readings of time.Now(), in the handler   *)
(* or in the begin blocker, however often they crash and execute a block   *)
(* again.                                                                  *)
THEOREM SplitsAreExpiries == Spec => []SplitOnlyByExpiry
<1>1. ReplicasInv => SplitOnlyByExpiry
  <2> SUFFICES ASSUME ReplicasInv, NEW n \in Nodes, NEW p \in Nodes, NEW h \in 1..Height(n),
                      h <= Height(p),
                      versions[n][h] = versions[p][h],
                      ~Splits(blocks[h].msg.expiresAt, readings[n][h].deliver,
                              readings[p][h].deliver),
                      \A o \in versions[n][h].orders :
                        ~Splits(o.expiresAt, readings[n][h].begin, readings[p][h].begin)
               PROVE  versions[n][h + 1] = versions[p][h + 1]
    BY DEF SplitOnlyByExpiry
  <2>1. ASSUME NEW q \in Nodes, h <= Height(q)
        PROVE  versions[q][h + 1] =
                 Delivered(Begun(versions[q][h], readings[q][h].begin),
                           blocks[h].msg, readings[q][h].deliver)
    <3>1. NodeOK(blocks, versions[q], working[q], phase[q], readings[q])
      BY DEF ReplicasInv
    <3>2. Len(versions[q]) \in Nat /\ h \in 1..(Len(versions[q]) - 1)
      BY <2>1, <3>1, LenProperties DEF NodeOK, Height
    <3> QED
      BY <3>1, <3>2 DEF NodeOK
  <2>2. h <= Height(n)
    OBVIOUS
  <2>3. Begun(versions[n][h], readings[n][h].begin) = Begun(versions[p][h], readings[p][h].begin)
    BY BegunSame
  <2> QED
    BY <2>1, <2>2, <2>3, DeliveredSame
<1> QED
  BY <1>1, ReplicasAlways, PTL

(* In every version that a node ever committed, the balances and the       *)
(* escrow of the open orders add up to the coins of the genesis file: no   *)
(* block, replayed or not, refunds or trades twice.                        *)
THEOREM AlwaysSolvent == Spec => []VersionsSolvent
<1>1. ReplicasInv => VersionsSolvent
  BY DEF ReplicasInv, NodeOK, Proper, VersionsSolvent
<1> QED
  BY <1>1, ReplicasAlways, PTL
=============================================================================
