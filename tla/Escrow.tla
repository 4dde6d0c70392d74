------------------------------- MODULE Escrow -------------------------------
(***************************************************************************)
(* The promise of the exchange as a state machine.  An accepted message is *)
(* one indivisible step; a failed one, whatever it had already written, is *)
(* no step at all.  Orders that have lapsed leave the market in one step,  *)
(* and until each has been refunded nobody trades.                         *)
(***************************************************************************)
EXTENDS Trade

CONSTANTS
  InitCoins,        \* the balances at genesis
  StartingOrderID,  \* the first order ID
  Offers,           \* the messages users may send
  Times             \* clock readings

VARIABLES
  coins,        \* the balances
  orders,       \* the open orders
  nextOrderID,  \* the ID of the next order
  waiting,      \* lapsed orders still to be refunded
  time          \* the clock reading orders were last checked against

vars == <<coins, orders, nextOrderID, waiting, time>>

Init ==
  /\ coins = InitCoins
  /\ orders = {}
  /\ nextOrderID = StartingOrderID
  /\ waiting = {}
  /\ time = 0

(* An offer that had not lapsed at the last check may be accepted.         *)
Place(m) ==
  /\ waiting = {}
  /\ m.expiresAt >= time
  /\ Affordable(coins, m)
  /\ nextOrderID' = nextOrderID + 1
  /\ orders' = OrdersAfter(orders, m, nextOrderID)
  /\ coins' = CoinsAfter(coins, orders, m)
  /\ UNCHANGED <<waiting, time>>

Lapse(t) ==
  /\ waiting = {}
  /\ t >= time
  /\ time' = t
  /\ waiting' = Lapsed(orders, t)
  /\ orders' = orders \ Lapsed(orders, t)
  /\ UNCHANGED <<coins, nextOrderID>>

Refund(o) ==
  /\ waiting' = waiting \ {o}
  /\ coins' = Refunded(coins, {o})
  /\ UNCHANGED <<orders, nextOrderID, time>>

Next ==
  \/ \E m \in Offers : Place(m)
  \/ \E t \in Times : Lapse(t)
  \/ \E o \in waiting : Refund(o)

Spec == Init /\ [][Next]_vars
=============================================================================
