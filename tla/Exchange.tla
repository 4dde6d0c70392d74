------------------------------- MODULE Exchange -------------------------------
(***************************************************************************)
(* The exchange module of THORChain (x/exchange): limit orders, matching,  *)
(* escrow and expiry, on one node.                                         *)
(*                                                                         *)
(* A transaction runs in steps: the checks of processLimitOrder, one step  *)
(* per iteration of the matching loop, the end of the loop, and            *)
(* storeUnfilledLimitOrder.  The wall clock may advance between any two    *)
(* steps, and the transaction may run out of gas at any of them, which     *)
(* discards all it wrote.  The refunds of a begin blocker are one step per *)
(* order.  Transactions and begin blockers never overlap: Tendermint       *)
(* delivers them to the application one at a time.                         *)
(***************************************************************************)
EXTENDS Bank, OrderBook

CONSTANTS
  RUNE,             \* the denom that may only be a price
  DenomRank,        \* the position of a denom in the order of strings
  InitCoins,        \* the balances at genesis
  StartingOrderID,  \* the order ID of the genesis file
  Amounts,          \* amounts a message may carry (bound)
  Prices,           \* prices a message may carry (bound)
  Expiries,         \* expiry times a message may carry (bound)
  MaxOrderID,       \* the last order ID handed out (bound)
  MaxTime,          \* the last clock reading (bound)
  NoTx              \* no transaction is being executed

Ledger == [Accounts -> [Denoms -> Nat]]

ASSUME ConstantsAssumption ==
  /\ IsFiniteSet(Accounts)
  /\ IsFiniteSet(Denoms)
  /\ RUNE \in Denoms
  /\ DenomRank \in [Denoms -> Int]
  /\ \A d, e \in Denoms : DenomRank[d] = DenomRank[e] => d = e
  /\ InitCoins \in Ledger
  /\ StartingOrderID \in Nat
  /\ Amounts \subseteq Int
  /\ Prices \subseteq Int
  /\ Expiries \subseteq Nat
  /\ MaxOrderID \in Nat
  /\ MaxTime \in Nat

(* MsgCreateLimitOrder.  ParseKind turns an unknown kind into a third one. *)
Msgs ==
  [sender : Accounts, kind : Kinds \cup {"unknown"},
   amountDenom : Denoms, priceDenom : Denoms,
   amount : Amounts, price : Prices, expiresAt : Expiries]

VARIABLES
  coins,        \* the bank's balances, as the running block sees them
  books,        \* the stored order books
  nextOrderID,  \* the stored next order ID
  now,          \* the wall clock of the node
  blockTime,    \* the clock reading of the last begin blocker
  pc,           \* what the application is executing
  tx,           \* the message of the transaction being executed
  unfilled,     \* unfilledAmt of the matching loop
  orderBook,    \* the copy of the matching book the loop works on
  i,            \* the position of the loop in orderBook
  err,          \* the bank refused a coin movement after the checks passed
  toRefund,     \* osToRefund: the expired orders still to be refunded
  saved         \* the state a failed transaction is rolled back to

store == <<coins, books, nextOrderID>>
clock == <<now, blockTime>>
local == <<tx, unfilled, orderBook, i>>
vars == <<store, clock, pc, local, err, toRefund, saved>>

InTx == pc \in {"fill", "store"}

Init ==
  /\ coins = InitCoins
  /\ books = [k \in BookKeys |-> <<>>]
  /\ nextOrderID = StartingOrderID
  /\ now = 0
  /\ blockTime = 0
  /\ pc = "idle"
  /\ tx = NoTx
  /\ unfilled = 0
  /\ orderBook = <<>>
  /\ i = 1
  /\ err = FALSE
  /\ toRefund = {}
  /\ saved = NoTx

(* A book that is not stored is an empty one.                              *)
getOrderBook(key) == books[key]

setOrderBook(key, book) == books' = [books EXCEPT ![key] = book]

(* The ID is taken before it is known whether anything is left to store.   *)
getNewOrderID == nextOrderID' = nextOrderID + 1

-----------------------------------------------------------------------------
(* The checks a message passes before anything is written.  A message that *)
(* fails one of them is answered with an error and changes nothing.        *)

(* Faulty variant: either direction of a pair is accepted.                 *)
ValidateBasic_AnyDirection(m) ==
  /\ m.kind \in Kinds
  /\ m.amountDenom # m.priceDenom
  /\ ~Expired(m, now)

ValidateBasic(m) ==
  /\ m.kind \in Kinds
  /\ m.amountDenom # m.priceDenom
  /\ ~ \/ m.amountDenom = RUNE
       \/ /\ m.priceDenom # RUNE
          /\ DenomRank[m.amountDenom] < DenomRank[m.priceDenom]
  /\ ~Expired(m, now)

(* Faulty variant: a buyer needs the price of one unit only.               *)
OrderChecks_UnitPrice(m) ==
  /\ ~Expired(m, now)
  /\ m.kind \in Kinds
  /\ m.amountDenom # m.priceDenom
  /\ m.amount > 0
  /\ m.price > 0
  /\ m.kind = "buy" => HasCoins(coins, m.sender, m.priceDenom, m.price)
  /\ m.kind = "sell" => HasCoins(coins, m.sender, m.amountDenom, m.amount)

OrderChecks(m) ==
  /\ ~Expired(m, now)
  /\ m.kind \in Kinds
  /\ m.amountDenom # m.priceDenom
  /\ m.amount > 0
  /\ m.price > 0
  /\ m.kind = "buy" =>
       HasCoins(coins, m.sender, m.priceDenom, TotalPrice(m.amount, m.price))
  /\ m.kind = "sell" => HasCoins(coins, m.sender, m.amountDenom, m.amount)

(* A transaction reaches the handler: the checks of processLimitOrder pass *)
(* and fillOrderIfPossible reads the matching book.                        *)
processLimitOrder(m) ==
  /\ pc = "idle"
  /\ nextOrderID <= MaxOrderID
  /\ ValidateBasic(m)
  /\ OrderChecks(m)
  /\ pc' = "fill"
  /\ tx' = m
  /\ unfilled' = m.amount
  /\ orderBook' = getOrderBook(MatchingKey(m))
  /\ i' = 1
  /\ saved' = [coins |-> coins, books |-> books, nextOrderID |-> nextOrderID]
  /\ UNCHANGED <<store, clock, err, toRefund>>

-----------------------------------------------------------------------------
(* The matching loop of fillOrderIfPossible.                               *)

Fill == DoesFill(orderBook[i], tx.kind, unfilled, tx.price)

LoopGoesOn == ~err /\ i <= Len(orderBook) /\ unfilled # 0 /\ Fill.ok

(* Faulty variant: nothing is released to a.                               *)
sendAndUnlockCoins_NoUnlock(a, b, d, x, e, y) == SendCoins(coins, a, b, d, x)

(* sendAndUnlockCoins: a sends x of denom d to b, then y of denom e is     *)
(* released to a out of what b's order had locked.                         *)
sendAndUnlockCoins(a, b, d, x, e, y) ==
  LET sent == SendCoins(coins, a, b, d, x)
  IN  IF sent.err THEN sent ELSE AddCoins(sent.coins, a, e, y)

(* Faulty variant: the sender's own limit is the price.                    *)
Settlement_OwnPrice ==
  LET total == TotalPrice(Fill.amount, tx.price)
  IN  IF tx.kind = "buy"
      THEN sendAndUnlockCoins(tx.sender, orderBook[i].sender,
             tx.priceDenom, total, tx.amountDenom, Fill.amount)
      ELSE sendAndUnlockCoins(tx.sender, orderBook[i].sender,
             tx.amountDenom, Fill.amount, tx.priceDenom, total)

(* A buyer pays the price and gets the amount the seller had locked; a     *)
(* seller hands over the amount and gets the price the buyer had locked.   *)
Settlement ==
  LET total == TotalPrice(Fill.amount, Fill.price)
  IN  IF tx.kind = "buy"
      THEN sendAndUnlockCoins(tx.sender, orderBook[i].sender,
             tx.priceDenom, total, tx.amountDenom, Fill.amount)
      ELSE sendAndUnlockCoins(tx.sender, orderBook[i].sender,
             tx.amountDenom, Fill.amount, tx.priceDenom, total)

fillStoredOrder ==
  /\ pc = "fill"
  /\ LoopGoesOn
  /\ coins' = Settlement.coins
  /\ err' = Settlement.err
  /\ IF Settlement.err
     THEN UNCHANGED <<unfilled, orderBook, i>>
     ELSE /\ unfilled' = unfilled - Fill.amount
          /\ orderBook' = [orderBook EXCEPT ![i].amount = @ - Fill.amount]
          /\ i' = i + 1
  /\ UNCHANGED <<books, nextOrderID, clock, pc, tx, toRefund, saved>>

(* The transaction's locals are gone.                                      *)
Idle ==
  /\ pc' = "idle"
  /\ tx' = NoTx
  /\ unfilled' = 0
  /\ orderBook' = <<>>
  /\ i' = 1
  /\ saved' = NoTx

(* The transaction fails: baseapp drops the cache it wrote to (external).  *)
Rollback ==
  /\ coins' = saved.coins
  /\ books' = saved.books
  /\ nextOrderID' = saved.nextOrderID
  /\ Idle

(* Faulty variant: the book is saved under the key of the transaction's    *)
(* own kind.                                                               *)
fillEnd_OwnBook ==
  /\ pc = "fill"
  /\ ~LoopGoesOn
  /\ books' = [books EXCEPT ![KeyOf(tx)] = RemoveFilledLimitOrders(orderBook)]
  /\ pc' = "store"
  /\ orderBook' = <<>>
  /\ i' = 1
  /\ UNCHANGED <<coins, nextOrderID, tx, unfilled, saved, clock, err, toRefund>>

(* The loop is over: filled orders leave the book, the book is saved and   *)
(* an error of the loop fails the transaction.                             *)
fillEnd ==
  /\ pc = "fill"
  /\ ~LoopGoesOn
  /\ IF err
     THEN Rollback
     ELSE /\ setOrderBook(MatchingKey(tx), RemoveFilledLimitOrders(orderBook))
          /\ pc' = "store"
          /\ orderBook' = <<>>
          /\ i' = 1
          /\ UNCHANGED <<coins, nextOrderID, tx, unfilled, saved>>
  /\ UNCHANGED <<clock, err, toRefund>>

-----------------------------------------------------------------------------
(* storeUnfilledLimitOrder and the end of the transaction.                 *)

NewLimitOrder ==
  [orderID |-> nextOrderID, sender |-> tx.sender, kind |-> tx.kind,
   amountDenom |-> tx.amountDenom, priceDenom |-> tx.priceDenom,
   amount |-> unfilled, price |-> tx.price, expiresAt |-> tx.expiresAt]

(* Faulty variant: the whole amount is locked, filled or not.              *)
Lock_WholeAmount ==
  SubtractCoins(coins, tx.sender, LockedDenom(NewLimitOrder),
                Locked(NewLimitOrder, tx.amount))

(* Faulty variant: a buy order locks what it wants to buy.                 *)
Lock_AmountDenom == SubtractCoins(coins, tx.sender, tx.amountDenom, unfilled)

Lock ==
  SubtractCoins(coins, tx.sender, LockedDenom(NewLimitOrder),
                Locked(NewLimitOrder, unfilled))

(* Faulty variant: the next order ID is not stored.                        *)
storeUnfilledLimitOrder_SameID ==
  /\ pc = "store"
  /\ err' = (unfilled # 0 /\ Lock.err)
  /\ IF unfilled = 0 \/ Lock.err
     THEN UNCHANGED <<coins, books>>
     ELSE /\ books' = [books EXCEPT ![KeyOf(tx)] = AddLimitOrder(@, NewLimitOrder)]
          /\ coins' = Lock.coins
  /\ Idle
  /\ UNCHANGED <<nextOrderID, clock, toRefund>>

(* An order ID is used up even if nothing is left to store.                *)
storeUnfilledLimitOrder ==
  /\ pc = "store"
  /\ \/ /\ unfilled = 0
        /\ getNewOrderID
        /\ UNCHANGED <<coins, books, err>>
        /\ Idle
     \/ /\ unfilled # 0
        /\ err' = Lock.err
        /\ IF Lock.err
           THEN Rollback
           ELSE /\ getNewOrderID
                /\ setOrderBook(KeyOf(tx), AddLimitOrder(
                                  getOrderBook(KeyOf(tx)), NewLimitOrder))
                /\ coins' = Lock.coins
                /\ Idle
  /\ UNCHANGED <<clock, toRefund>>

(* A store access exceeds the gas limit of the transaction: the panic is   *)
(* recovered by baseapp's runTx (external).                                *)
outOfGas ==
  /\ InTx
  /\ Rollback
  /\ UNCHANGED <<clock, err, toRefund>>

-----------------------------------------------------------------------------
(* refundExpiredLimitOrders, which the begin blocker calls.  The clock is  *)
(* read once; all books are saved before the first coin is given back.     *)

ExpiredOrders(time) ==
  UNION {{o \in Range(books[k]) : Expired(o, time)} : k \in BookKeys}

BeginBlocker ==
  /\ pc = "idle"
  /\ blockTime' = now
  /\ books' = [k \in BookKeys |-> RemoveExpired(books[k], now)]
  /\ toRefund' = ExpiredOrders(now)
  /\ pc' = IF ExpiredOrders(now) = {} THEN "idle" ELSE "refund"
  /\ UNCHANGED <<coins, nextOrderID, now, local, err, saved>>

(* Faulty variant: the amount is given back, not its price.                *)
Refund_AmountOnly(o) == AddCoins(coins, o.sender, LockedDenom(o), o.amount)

Refund(o) == AddCoins(coins, o.sender, LockedDenom(o), Locked(o, o.amount))

refundOrder(o) ==
  /\ pc = "refund"
  /\ coins' = Refund(o).coins
  /\ toRefund' = toRefund \ {o}
  /\ pc' = IF toRefund' = {} THEN "idle" ELSE "refund"
  /\ UNCHANGED <<books, nextOrderID, clock, local, err, saved>>

(* Time passes (time.Now(), external).                                     *)
Tick ==
  /\ now < MaxTime
  /\ now' = now + 1
  /\ UNCHANGED <<store, blockTime, pc, local, err, toRefund, saved>>

Next ==
  \/ \E m \in Msgs : processLimitOrder(m)
  \/ fillStoredOrder
  \/ fillEnd
  \/ storeUnfilledLimitOrder
  \/ outOfGas
  \/ BeginBlocker
  \/ \E o \in toRefund : refundOrder(o)
  \/ Tick

Spec == Init /\ [][Next]_vars

(***************************************************************************)
(* A node that is running finishes the transaction or the refunds it is    *)
(* executing and its clock advances.  Tendermint puts finitely many        *)
(* transactions in a block, so a begin blocker that can run again and      *)
(* again between transactions does run.                                    *)
(***************************************************************************)
Fairness ==
  /\ WF_vars(fillStoredOrder \/ fillEnd \/ storeUnfilledLimitOrder)
  /\ WF_vars(\E o \in toRefund : refundOrder(o))
  /\ SF_vars(BeginBlocker)
  /\ WF_vars(Tick)

LiveSpec == Spec /\ Fairness

-----------------------------------------------------------------------------
(* Properties.                                                             *)

Books == [BookKeys -> Seq(LimitOrder)]

(* Every variable has its type, and a transaction has its message and the  *)
(* state to return to exactly while it is executed.                        *)
TypeOK ==
  /\ coins \in Ledger
  /\ books \in Books
  /\ nextOrderID \in Nat
  /\ now \in Nat
  /\ blockTime \in Nat
  /\ pc \in {"idle", "fill", "store", "refund"}
  /\ unfilled \in Nat
  /\ orderBook \in Seq(LimitOrder)
  /\ i \in Nat \ {0}
  /\ err \in BOOLEAN
  /\ toRefund \in SUBSET LimitOrder
  /\ InTx =>
       /\ tx \in Msgs
       /\ saved \in [coins : Ledger, books : Books, nextOrderID : Nat]
  /\ ~InTx => tx = NoTx /\ saved = NoTx

(* Every book lists its orders "sorted by best price, then time (first in, *)
(* first out)", as the comment on Keeper says, after any sequence of       *)
(* insertions, partial fills and expiries; no two orders of a book share   *)
(* an ID.                                                                  *)
BooksRanked == \A k \in BookKeys : Ranked(books[k])

(* The matching loop consumes the orders of a book by rank: once it has    *)
(* taken from an order, every order that outranks it is used up.  This is  *)
(* what the break of the loop at the first order that does not fill relies *)
(* on.                                                                     *)
FillPriority ==
  pc = "fill" =>
    \A j, k \in 1..Len(orderBook) :
      /\ orderBook[j].amount < books[MatchingKey(tx)][j].amount
      /\ Outranks(orderBook[k], orderBook[j])
      => orderBook[k].amount = 0

(* An order offers Bid(o) units of Gives(o) for every Ask(o) units of      *)
(* Wants(o).                                                               *)
Gives(o) == IF o.kind = "buy" THEN o.priceDenom ELSE o.amountDenom
Wants(o) == IF o.kind = "buy" THEN o.amountDenom ELSE o.priceDenom
Bid(o) == IF o.kind = "buy" THEN o.price ELSE 1
Ask(o) == IF o.kind = "buy" THEN 1 ELSE o.price

OpenOrders == UNION {Range(books[k]) : k \in BookKeys}

(* No two stored orders could trade with each other, whichever book and    *)
(* direction they were entered in: whatever crosses a new order is matched *)
(* before the rest of it is stored, and the rule of ValidateBasic on the   *)
(* direction of a pair makes such orders meet in one pair of books.        *)
NotCrossed ==
  \A o, p \in OpenOrders :
    Gives(o) = Wants(p) /\ Wants(o) = Gives(p) =>
      Ask(o) * Ask(p) > Bid(o) * Bid(p)

(* The balance check of processLimitOrder is made once, before any coin    *)
(* moves; while the loop pays at the prices of other orders (the sender's  *)
(* own among them) the sender can still pay for what is unfilled.          *)
Covered ==
  InTx =>
    IF tx.kind = "buy"
    THEN coins[tx.sender][tx.priceDenom] >= unfilled * tx.price
    ELSE coins[tx.sender][tx.amountDenom] >= unfilled

(* So neither a fill nor the locking of the rest ever fails for want of    *)
(* coins after the checks have passed: a transaction is never left half    *)
(* settled.                                                                *)
NoLateFailure == ~err

(* The limit price is kept whatever mix of orders was matched: a buyer has *)
(* received exactly what was filled and paid at most the limit for it, a   *)
(* seller has given at most what was filled and received at least the      *)
(* limit for it.  (Less than the full amount only leaves the sender when   *)
(* it trades with itself.)                                                 *)
LimitRespected ==
  InTx =>
    LET filled  == tx.amount - unfilled
        Gain(d) == coins[tx.sender][d] - saved.coins[tx.sender][d]
    IN  IF tx.kind = "buy"
        THEN /\ Gain(tx.amountDenom) = filled
             /\ Gain(tx.priceDenom) >= -(filled * tx.price)
        ELSE /\ Gain(tx.amountDenom) >= -filled
             /\ Gain(tx.priceDenom) >= filled * tx.price

(* Every owner of a matched order other than the sender is paid in full at *)
(* the price of the order, and nobody else's balance moves.                *)
MakersPaid ==
  pc = "fill" =>
    \A a \in Accounts \ {tx.sender}, d \in Denoms :
      LET Taken(j) == books[MatchingKey(tx)][j].amount - orderBook[j].amount
          Pay(j)   == IF tx.kind = "buy"
                      THEN Taken(j) * orderBook[j].price ELSE Taken(j)
          paidIn   == IF tx.kind = "buy" THEN tx.priceDenom ELSE tx.amountDenom
          matched  == {j \in 1..Len(orderBook) :
                         orderBook[j].sender = a /\ d = paidIn}
      IN  coins[a][d] - saved.coins[a][d] =
            SumFunctionOnSet([j \in matched |-> Pay(j)], matched)

(* The coins of denom d in all accounts, and those that an order, a book   *)
(* and all books keep locked.                                              *)
TotalCoins(c, d) == SumFunctionOnSet([a \in Accounts |-> c[a][d]], Accounts)

LockedAs(o, d) == IF LockedDenom(o) = d THEN Locked(o, o.amount) ELSE 0

LockedIn(orders, d) ==
  SumFunctionOnSet([j \in 1..Len(orders) |-> LockedAs(orders[j], d)],
                   1..Len(orders))

LockedInBooks(b, d) ==
  SumFunctionOnSet([k \in BookKeys |-> LockedIn(b[k], d)], BookKeys)

LockedWaiting(set, d) == SumFunctionOnSet([o \in set |-> LockedAs(o, d)], set)

(* No coin is created or destroyed: at every step the balances, what the   *)
(* books have locked and what is about to be refunded add up to the coins  *)
(* of genesis.                                                             *)
CoinsConserved ==
  \A d \in Denoms :
    LET open == IF pc = "fill"
                THEN [books EXCEPT ![MatchingKey(tx)] = orderBook] ELSE books
    IN  TotalCoins(coins, d) + LockedInBooks(open, d) + LockedWaiting(toRefund, d)
        = TotalCoins(InitCoins, d)

(* sdk.Int panics on a product above 255 bits.  The checks multiply what a *)
(* message says, when nothing is written yet; every later product, of a    *)
(* fill, of the rest to be locked and of a refund, is at most the supply   *)
(* of the price's denom.  So if the supply fits, neither a half settled    *)
(* transaction nor the begin blocker, where it would stop the node, panics.*)
ProductsInSupply ==
  LET Fits(o, amount) ==
        TotalPrice(amount, o.price) <= TotalCoins(InitCoins, o.priceDenom)
  IN  /\ pc = "fill" /\ LoopGoesOn => Fits(orderBook[i], Fill.amount)
      /\ InTx /\ tx.kind = "buy" => Fits(tx, unfilled)
      /\ \A o \in OpenOrders \cup toRefund : o.kind = "buy" => Fits(o, o.amount)

(* No stored order had expired when the current block began, so a          *)
(* transaction only ever fills orders that were alive at the block's start,*)
(* although the matching loop does not look at expiry times.               *)
NoneStale ==
  pc # "refund" =>
    \A o \in OpenOrders : o.expiresAt >= blockTime

(* An order ID is never given to a second order: all IDs in use are below  *)
(* the next one and no two stored or waiting orders share one, although a  *)
(* failed transaction returns the ID it took.                              *)
IDsUnique ==
  LET all == OpenOrders \cup toRefund
  IN  /\ \A o \in all : o.orderID < nextOrderID
      /\ \A o, p \in all : o.orderID = p.orderID => o = p

(* What the chain holds between transactions: while one is executed, the   *)
(* state it would be rolled back to.                                       *)
Committed ==
  IF InTx THEN saved
  ELSE [coins |-> coins, books |-> books, nextOrderID |-> nextOrderID]

(* A committed order only ever shrinks: no block raises the amount of an   *)
(* order or changes anything else of it, an order that left the books never*)
(* returns, and a new order has a new ID.                                  *)
StoredOrdersOnlyShrink ==
  [][ \A k \in BookKeys : \A o \in Range(Committed'.books[k]) :
        \/ o.orderID >= Committed.nextOrderID
        \/ \E p \in Range(Committed.books[k]) :
             /\ o.amount <= p.amount
             /\ o = [p EXCEPT !.amount = o.amount] ]_vars

(* Coins locked by an order do not stay locked: under LiveSpec every       *)
(* stored order is eventually filled or expires, and is refunded, so that  *)
(* no order holds coins for good.                                          *)
EscrowReleased ==
  \A n \in StartingOrderID..MaxOrderID :
    []<>(\A o \in OpenOrders \cup toRefund : o.orderID # n)
=============================================================================
