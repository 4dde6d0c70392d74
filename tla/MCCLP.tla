-------------------------------- MODULE MCCLP --------------------------------
(* Instances of CLP for TLC.                                               *)
EXTENDS CLP, TLC

CONSTANTS Alice, ETH, BTC

OneUser == {Alice}
OneTicker == {ETH}
TwoAndNoTicker == {ETH, BTC, NoTicker}
=============================================================================
