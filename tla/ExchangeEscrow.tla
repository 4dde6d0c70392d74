--------------------------- MODULE ExchangeEscrow ---------------------------
(***************************************************************************)
(* Exchange implements Escrow.  What a transaction has written so far is   *)
(* not visible to Escrow: the chain it sees is the committed one, and it   *)
(* moves when the transaction ends.                                        *)
(***************************************************************************)
EXTENDS Exchange

CommittedOrders == UNION {Range(Committed.books[k]) : k \in BookKeys}

Abstract == INSTANCE Escrow WITH
  coins       <- Committed.coins,
  orders      <- CommittedOrders,
  nextOrderID <- Committed.nextOrderID,
  waiting     <- toRefund,
  time        <- blockTime,
  Offers      <- Msgs,
  Times       <- 0..MaxTime

(* Whatever the loop of fillOrderIfPossible, the sorted books, the coin    *)
(* movements one by one, a transaction that fails half way and the two     *)
(* loops of refundExpiredLimitOrders do, users see trades by price and     *)
(* time priority at the price of the older order, all or nothing, and      *)
(* every lapsed order refunded what it had locked.                         *)
ImplementsEscrow == Abstract!Spec
=============================================================================
