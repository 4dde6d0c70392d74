----------------------------- MODULE MCReplicas -----------------------------
(* Two nodes, one of them the validator, for TLC.                          *)
EXTENDS Replicas

CONSTANTS Alice, Bob, ETH, RUNE, validator, follower

MCAccounts == {Alice, Bob}
MCDenoms == {RUNE, ETH}
MCNodes == {validator, follower}
MCQuorums == {{validator}}
MCInitCoins == [a \in MCAccounts |-> [d \in MCDenoms |-> 3]]

Offer(sender, kind, amount, price, expiresAt) ==
  [sender |-> sender, kind |-> kind, amountDenom |-> ETH, priceDenom |-> RUNE,
   amount |-> amount, price |-> price, expiresAt |-> expiresAt]

(* Alice sells at two prices, Bob buys from both; two lapse early.         *)
MCOffers ==
  {Offer(Alice, "sell", 1, 1, 0), Offer(Alice, "sell", 2, 2, 1),
   Offer(Bob, "buy", 2, 2, 0)}
=============================================================================
