----------------------------- MODULE MCExchange -----------------------------
(* Instances of Exchange for TLC.                                          *)
EXTENDS ExchangeEscrow, TLC

CONSTANTS Alice, Bob, ETH, BTC

MCAccounts == {Alice, Bob}
MCDenoms == {RUNE, ETH}
MCDenomRank == [d \in {RUNE, ETH} |-> IF d = RUNE THEN 2 ELSE 1]
MCInitCoins == [a \in MCAccounts |-> [d \in MCDenoms |-> IF d = RUNE THEN 3 ELSE 1]]

(* Three denoms share the balances: two pairs priced in RUNE, one without. *)
PairsDenoms == {RUNE, ETH, BTC}
PairsDenomRank ==
  [d \in PairsDenoms |-> CASE d = BTC -> 1 [] d = ETH -> 2 [] d = RUNE -> 3]
PairsInitCoins ==
  [a \in MCAccounts |->
    [d \in PairsDenoms |-> CASE d = BTC -> 1 [] d = ETH -> 2 [] d = RUNE -> 4]]

Symmetry == Permutations(MCAccounts)
=============================================================================
