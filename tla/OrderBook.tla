------------------------------ MODULE OrderBook ------------------------------
(***************************************************************************)
(* The data and the pure functions of x/exchange/order_book.go and         *)
(* x/exchange/limit_order.go.  An order is a record; the Orders of a book  *)
(* are a sequence, best price first.                                       *)
(***************************************************************************)
EXTENDS Integers, Sequences, FiniteSets, FiniteSetsExt

CONSTANTS
  Accounts,   \* account addresses
  Denoms      \* coin denominations

Kinds == {"buy", "sell"}

MatchingKind(kind) == IF kind = "sell" THEN "buy" ELSE "sell"

(* LimitOrder: amount units of amountDenom at price units of priceDenom    *)
(* for each of them.                                                       *)
LimitOrder ==
  [orderID : Nat, sender : Accounts, kind : Kinds,
   amountDenom : Denoms, priceDenom : Denoms,
   amount : Nat, price : Nat, expiresAt : Nat]

(* One book per kind and pair of denoms, as in MakeKeyOrderBook.           *)
BookKeys == Kinds \X Denoms \X Denoms

KeyOf(o) == <<o.kind, o.amountDenom, o.priceDenom>>

MatchingKey(o) == <<MatchingKind(o.kind), o.amountDenom, o.priceDenom>>

(* getTotalPrice                                                           *)
TotalPrice(amount, price) == amount * price

(***************************************************************************)
(* What a stored order keeps locked: the price of its open amount for a    *)
(* buy order, its open amount for a sell order.                            *)
(***************************************************************************)
LockedDenom(o) == IF o.kind = "buy" THEN o.priceDenom ELSE o.amountDenom

Locked(o, amount) ==
  IF o.kind = "buy" THEN TotalPrice(amount, o.price) ELSE amount

(* Faulty variant: a new order goes before the orders of the same price.   *)
ShouldInsertBefore_OrEqual(kind, newPrice, oldPrice) ==
  IF kind = "buy" THEN newPrice >= oldPrice ELSE newPrice <= oldPrice

(***************************************************************************)
(* The order in which a book lists its orders.                             *)
(***************************************************************************)
ShouldInsertBefore(kind, newPrice, oldPrice) ==
  IF kind = "buy" THEN newPrice > oldPrice ELSE newPrice < oldPrice

(* Faulty variant: the new order is always appended.                       *)
InsertPosition_Last(orders, o) == Len(orders) + 1

(* AddLimitOrder scans the book from its head and stops at the first order *)
(* the new one goes before; without one it is appended.                    *)
InsertPosition(orders, o) ==
  LET before == {i \in 1..Len(orders) :
                   ShouldInsertBefore(o.kind, o.price, orders[i].price)}
  IN  IF before = {} THEN Len(orders) + 1 ELSE Min(before)

AddLimitOrder(orders, o) ==
  LET at == InsertPosition(orders, o)
  IN  [i \in 1..Len(orders) + 1 |->
         IF i < at THEN orders[i] ELSE IF i = at THEN o ELSE orders[i - 1]]

(***************************************************************************)
(* The subsequence of s at the positions in K: the loops that copy a slice *)
(* and skip some of its elements.  Rank counts the kept positions before k.*)
(***************************************************************************)
Rank(K, k) == Cardinality({m \in K : m < k})

Nth(K, j) == CHOOSE k \in K : Rank(K, k) = j - 1

Keep(s, K) == [j \in 1..Cardinality(K) |-> s[Nth(K, j)]]

RemoveFilledLimitOrders(orders) ==
  Keep(orders, {i \in 1..Len(orders) : orders[i].amount # 0})

(* Faulty variant: the comparison is the wrong way round.                  *)
Expired_Reversed(o, time) == o.expiresAt > time

Expired(o, time) == o.expiresAt < time

(* Faulty variant: an order stays in the book for one tick too many.       *)
RemoveExpired_Late(orders, time) ==
  Keep(orders, {i \in 1..Len(orders) : ~Expired(orders[i], time - 1)})

RemoveExpired(orders, time) ==
  Keep(orders, {i \in 1..Len(orders) : ~Expired(orders[i], time)})

(* Faulty variant: equal prices do not match.                              *)
Crosses_Strict(lo, kind, price) ==
  IF kind = "buy" THEN price > lo.price ELSE lo.price > price

(* Faulty variant: a sell order is compared like a buy order.              *)
Crosses_BuyOnly(lo, kind, price) == price >= lo.price

(***************************************************************************)
(* DoesFill: whether the stored order lo fills an order of the opposite    *)
(* kind for amount at price, how much of it, always at lo's own price.     *)
(***************************************************************************)
Crosses(lo, kind, price) ==
  IF kind = "buy" THEN price >= lo.price ELSE lo.price >= price

(* Faulty variant: the stored order is always filled whole.                *)
FillAmount_Whole(lo, amount) == lo.amount

FillAmount(lo, amount) == IF amount >= lo.amount THEN lo.amount ELSE amount

DoesFill(lo, kind, amount, price) ==
  [ok     |-> Crosses(lo, kind, price),
   amount |-> FillAmount(lo, amount),
   price  |-> lo.price]

(***************************************************************************)
(* Price-time priority, independently of how AddLimitOrder finds the place *)
(* of an order: a better price first, at one price the older order first.  *)
(***************************************************************************)
Outranks(o, p) ==
  \/ o.kind = "buy"  /\ o.price > p.price
  \/ o.kind = "sell" /\ o.price < p.price
  \/ o.price = p.price /\ o.orderID < p.orderID

Ranked(orders) ==
  \A j, k \in 1..Len(orders) : j < k => Outranks(orders[j], orders[k])
=============================================================================
