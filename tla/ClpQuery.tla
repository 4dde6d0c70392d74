------------------------------ MODULE ClpQuery ------------------------------
(***************************************************************************)
(* The REST queries for one pool and for all pools                         *)
(* (x/clp/client/rest/query.go), composed with the messages of CLP.  A     *)
(* handler reads the records of the pools in one query and then the        *)
(* account of each in a query of its own, every time from the last         *)
(* committed state, while the chain goes on changing it.  What it computes *)
(* of a pool is final then; the bytes of the response are left out.        *)
(***************************************************************************)
EXTENDS CLP

CONSTANT None   \* no request, no output

VARIABLES
  request,   \* the records read whose accounts are still to be read
  output     \* what the step put together for one pool

queryVars == <<request, output>>

QueryInit ==
  /\ Init
  /\ request = None
  /\ output = None

(* The response is complete: 200, 404 or 500.                              *)
Respond ==
  /\ request' = None
  /\ output' = None

(* The records of the tickers ts are read; without any the answer is 404.  *)
ReadRecords(ts) ==
  LET stored == {t \in ts : clps[t] # NoCLP}
  IN  /\ request = None
      /\ request' = IF stored = {} THEN None ELSE [t \in stored |-> clps[t]]
      /\ output' = None
      /\ UNCHANGED vars

(* The router matches /clp/{ticker} with a ticker that is not empty.       *)
queryClp(ticker) == ticker # NoTicker /\ ReadRecords({ticker})

(* All records under the prefix, that of the empty ticker among them.      *)
queryClps == ReadRecords(Tickers)

(* What a response shows of a pool: its record and the balances of its     *)
(* account; the price is a function of them.                               *)
Shown(record, t) ==
  [ticker |-> t, record |-> record, base |-> coins[t][RUNE], tokens |-> coins[t][t]]

(* getCLPAccountOutput for one of the records; the order of the loop over  *)
(* them does not matter.  CalculateCLPPrice panics on a balance that does  *)
(* not fit an int64.                                                       *)
getCLPAccountOutput(t) ==
  /\ request # None /\ t \in DOMAIN request
  /\ FitsInt64(coins[t][RUNE])
  /\ output' = Shown(request[t], t)
  /\ request' = IF DOMAIN request = {t} THEN None
                ELSE [u \in DOMAIN request \ {t} |-> request[u]]
  /\ UNCHANGED vars

(* A query of the node fails, or the handler panics.                       *)
queryFails ==
  /\ request # None
  /\ Respond
  /\ UNCHANGED vars

QueryNext ==
  \/ Next /\ output' = None /\ UNCHANGED request
  \/ \E t \in Tickers : queryClp(t) \/ getCLPAccountOutput(t)
  \/ queryClps
  \/ queryFails

QuerySpec == QueryInit /\ [][QueryNext]_<<vars, queryVars>>

(* Although the record and the balances of a pool are read at different    *)
(* heights, a response never mixes two states of it: what it shows of a    *)
(* pool, and so its price, is the pool of one committed state, the one     *)
(* whose balances are shown.  (What it shows of two pools may be of two.)  *)
(* It rests on no record ever changing, and so leaves out the pool of the  *)
(* empty ticker, which create opens again and again.                       *)
PoolShownAsItWas ==
  output # None /\ output.ticker # NoTicker =>
    output = Shown(clps[output.ticker], output.ticker)
=============================================================================
