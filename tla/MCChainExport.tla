---------------------------- MODULE MCChainExport ----------------------------
(* An instance of ChainExport for TLC.                                     *)
EXTENDS ChainExport, TLC

CONSTANTS Alice, ETH

MCAccounts == {Alice}
MCDenoms == {RUNE, ETH}
MCDenomRank == [d \in MCDenoms |-> IF d = RUNE THEN 2 ELSE 1]
MCInitCoins == [a \in MCAccounts |-> [d \in MCDenoms |-> 2]]
=============================================================================
