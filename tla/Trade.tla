-------------------------------- MODULE Trade --------------------------------
(***************************************************************************)
(* What the exchange promises its users, message by message and without    *)
(* books or loops: how one accepted limit order changes the open orders    *)
(* and the balances, and what the expiry of orders gives back.  Here the   *)
(* open orders are a set and a message m an order without an ID.           *)
(***************************************************************************)
EXTENDS Integers, FiniteSets, FiniteSetsExt, Functions

CONSTANTS
  Accounts,   \* account addresses
  Denoms      \* coin denominations

(* What an order for so much of its amount keeps locked, and the denom.    *)
Escrow(o, amount) == IF o.kind = "buy" THEN amount * o.price ELSE amount

EscrowDenom(o) == IF o.kind = "buy" THEN o.priceDenom ELSE o.amountDenom

(* Two offers of opposite kinds on one pair agree on a price when the      *)
(* buyer's limit is not below the seller's.                                *)
Agree(o, m) ==
  /\ o.kind # m.kind
  /\ o.amountDenom = m.amountDenom
  /\ o.priceDenom = m.priceDenom
  /\ m.kind = "buy" => o.price <= m.price
  /\ m.kind = "sell" => o.price >= m.price

(* Price, then time: among the orders that agree with m, o is served       *)
(* before p.                                                               *)
Before(o, p) ==
  \/ o.kind = "sell" /\ o.price < p.price
  \/ o.kind = "buy" /\ o.price > p.price
  \/ o.price = p.price /\ o.orderID < p.orderID

(* Each order gives m what m still wants once all orders before it gave    *)
(* all they had.                                                           *)
Taken(orders, m, o) ==
  LET ahead == SumFunctionOnSet([p \in orders |-> p.amount],
                                {p \in orders : Agree(p, m) /\ Before(p, o)})
  IN  IF ~Agree(o, m) \/ ahead >= m.amount THEN 0
      ELSE Min({o.amount, m.amount - ahead})

Rest(orders, m) ==
  m.amount - SumFunctionOnSet([o \in orders |-> Taken(orders, m, o)], orders)

(* m can be accepted: its sender holds all it could be asked to pay.       *)
Affordable(coins, m) ==
  /\ m.amount > 0
  /\ m.price > 0
  /\ coins[m.sender][EscrowDenom(m)] >= Escrow(m, m.amount)

(* Every unit is traded at the price of the order that was there first;    *)
(* its owner receives what the sender of m pays, the sender of m receives  *)
(* what the order had locked and locks what it needs for the rest.         *)
CoinsAfter(coins, orders, m) ==
  LET given    == [o \in orders |-> Taken(orders, m, o)]
      cost     == [o \in orders |-> given[o] * o.price]
      paid     == IF m.kind = "buy" THEN cost ELSE given
      got      == IF m.kind = "buy" THEN given ELSE cost
      gotDenom == IF m.kind = "buy" THEN m.amountDenom ELSE m.priceDenom
      of(a)    == {o \in orders : o.sender = a}
      locked   == Escrow(m, Rest(orders, m))
  IN  [a \in Accounts |-> [d \in Denoms |->
         coins[a][d]
         + (IF d = EscrowDenom(m) THEN SumFunctionOnSet(paid, of(a)) ELSE 0)
         - (IF a = m.sender /\ d = EscrowDenom(m)
            THEN SumFunctionOnSet(paid, orders) + locked ELSE 0)
         + (IF a = m.sender /\ d = gotDenom
            THEN SumFunctionOnSet(got, orders) ELSE 0)]]

(* What is left of the orders, and the rest of m as an order with this ID. *)
OrdersAfter(orders, m, id) ==
  LET left == {[o EXCEPT !.amount = @ - Taken(orders, m, o)] : o \in orders}
      new  == [orderID |-> id, sender |-> m.sender, kind |-> m.kind,
               amountDenom |-> m.amountDenom, priceDenom |-> m.priceDenom,
               amount |-> Rest(orders, m), price |-> m.price,
               expiresAt |-> m.expiresAt]
  IN  {o \in left \cup {new} : o.amount # 0}

Lapsed(orders, time) == {o \in orders : o.expiresAt < time}

(* Balances once the escrow of the orders in set is given back.            *)
Refunded(coins, set) ==
  LET back == [o \in set |-> Escrow(o, o.amount)]
  IN  [a \in Accounts |-> [d \in Denoms |->
         coins[a][d] + SumFunctionOnSet(back,
           {o \in set : o.sender = a /\ EscrowDenom(o) = d})]]
=============================================================================
