-------------------------------- MODULE Bank --------------------------------
(***************************************************************************)
(* The operations of the cosmos-sdk bank keeper that x/exchange and x/clp  *)
(* use (external code, modelled from its callers).  A ledger is a function *)
(* coins[account][denom]; every operation returns the ledger it leaves and *)
(* whether it returned an error.  Nothing here is atomic by itself: what   *)
(* an operation wrote before it failed stays written.                      *)
(***************************************************************************)
EXTENDS Integers

HasCoins(coins, a, d, x) == coins[a][d] >= x

(* Fails, writing nothing, when the account would go below zero.           *)
SubtractCoins(coins, a, d, x) ==
  IF coins[a][d] - x < 0
  THEN [coins |-> coins, err |-> TRUE]
  ELSE [coins |-> [coins EXCEPT ![a][d] = @ - x], err |-> FALSE]

(* Adding a negative coin fails when the account would go below zero.      *)
AddCoins(coins, a, d, x) ==
  IF coins[a][d] + x < 0
  THEN [coins |-> coins, err |-> TRUE]
  ELSE [coins |-> [coins EXCEPT ![a][d] = @ + x], err |-> FALSE]

(* Subtracts from the sender, then adds to the receiver.                   *)
SendCoins(coins, a, b, d, x) ==
  LET taken == SubtractCoins(coins, a, d, x)
  IN  IF taken.err THEN taken ELSE AddCoins(taken.coins, b, d, x)
=============================================================================
