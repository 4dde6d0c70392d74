----------------------------- MODULE ChainExport -----------------------------
(***************************************************************************)
(* The exchange of a chain that is exported to a genesis file and started  *)
(* again from it: ExportAppStateAndValidators and initChainer of           *)
(* app/app.go, with WriteGenesis and InitGenesis of x/exchange.            *)
(***************************************************************************)
EXTENDS Exchange

(* WriteGenesis: of the exchange, only the next order ID is written.       *)
WriteGenesis == [startingOrderID |-> nextOrderID]

(* ExportAppStateAndValidators writes every account with its coins.        *)
ExportAppState == [accounts |-> coins, exchangeData |-> WriteGenesis]

(* initChainer on an empty store.                                          *)
initChainer(genesis) ==
  /\ coins' = genesis.accounts
  /\ nextOrderID' = genesis.exchangeData.startingOrderID
  /\ books' = [k \in BookKeys |-> <<>>]

(* The chain is exported between two blocks and started again.             *)
exportAndRestart ==
  /\ pc = "idle"
  /\ initChainer(ExportAppState)
  /\ UNCHANGED <<clock, pc, local, err, toRefund, saved>>

ExportSpec == Init /\ [][Next \/ exportAndRestart]_vars

(* "All exchange state that must be provided at genesis" is in the genesis *)
(* file: every order that was open before an export, with the coins it has *)
(* locked, is open after the restart, or its coins are back with its       *)
(* owner, so that no coin is lost.                                         *)
NothingLostByExport == CoinsConserved
=============================================================================
