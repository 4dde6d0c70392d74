--------------------------- MODULE EnsureAccounts ---------------------------
(***************************************************************************)
(* `thorchainspam account ensure` (cmd/thorchainspam/account/ensure.go):   *)
(* it counts the keys of the spam accounts, creates the missing ones, and  *)
(* sends coins to each.  Every run has flags of its own: how many accounts *)
(* there shall be, who pays, and how much each gets (of one coin).  The    *)
(* command may be run again at any time, may be killed, and broadcasts     *)
(* without waiting for an answer; keys and coins live in different places. *)
(* Nothing else creates keys of this prefix or sends from the payers.      *)
(***************************************************************************)
EXTENDS Integers, Sequences, FiniteSets, Functions

CONSTANTS
  Ks,         \* values of --k (bound)
  Amounts,    \* values of --amount: coins for an account (bound)
  Payers,     \* values of --from: accounts that pay
  InitCoins,  \* coins of each of them
  MaxKeys,    \* keys created in a behaviour (bound)
  MaxRuns     \* runs of the command in a behaviour (bound)

ASSUME EnsureAssumption ==
  /\ Ks \subseteq Nat
  /\ Amounts \subseteq Nat \ {0}
  /\ InitCoins \in Nat
  /\ MaxKeys \in Nat /\ MaxRuns \in Nat

VARIABLES
  keys,              \* the numbers of the spam keys in the key base, each
                     \* with the run that created it
  pc, runs,          \* where the command is, and how often it was run
  k, from, amount,   \* the flags of this run
  numExistingAccs, i,
  fromAccountSequence,
  checkedSequence,   \* the sequence of the account whose coins were checked
  unsure,            \* the payers whose coins the check of a run has not
                     \* secured (see readSequence)
  fromCoins,         \* the committed coins of the payers (external)
  chainSequence,     \* their committed sequences (external)
  mempool,           \* their waiting transfers (external)
  funded             \* the accounts they have paid on the chain (external)

flags == <<k, from, amount>>
history == <<checkedSequence, unsure>>
command == <<flags, numExistingAccs, i, fromAccountSequence, history>>
chain == <<fromCoins, chainSequence, mempool, funded>>
vars == <<keys, pc, runs, command, chain>>

(* No run has read its flags yet.                                          *)
Init ==
  /\ keys = <<>>
  /\ pc = "idle" /\ runs = 0
  /\ k = 0 /\ from \in Payers /\ amount \in Amounts
  /\ numExistingAccs = 0 /\ i = 0
  /\ fromAccountSequence = 0
  /\ checkedSequence = 0 /\ unsure = {}
  /\ fromCoins = [f \in Payers |-> InitCoins]
  /\ chainSequence = [f \in Payers |-> 0]
  /\ mempool = [f \in Payers |-> <<>>]
  /\ funded = [f \in Payers |-> {}]

(* The names are spamPrefix-0, spamPrefix-1, ...                           *)
CountSpamAccounts == Cardinality(DOMAIN keys)

(* The command is started; with enough keys it ends before it reads --from *)
(* and --amount.                                                           *)
ensure(n, f, a) ==
  /\ pc \in {"idle", "done", "failed"}
  /\ runs < MaxRuns /\ n <= MaxKeys
  /\ runs' = runs + 1
  /\ k' = n
  /\ numExistingAccs' = CountSpamAccounts
  /\ i' = 0
  /\ IF n - CountSpamAccounts <= 0
     THEN pc' = "done" /\ UNCHANGED <<from, amount>>
     ELSE pc' = "balance" /\ from' = f /\ amount' = a
  /\ UNCHANGED <<keys, fromAccountSequence, history, chain>>

numAccsToCreate == k - numExistingAccs

(* Faulty variant: the coins are not multiplied.                           *)
totalCoinsNeeded_One == amount

(* multiplyCoins                                                           *)
totalCoinsNeeded == amount * numAccsToCreate

ensureFromAccHasEnoughCoins ==
  /\ pc = "balance"
  /\ pc' = IF fromCoins[from] >= totalCoinsNeeded THEN "sequence" ELSE "failed"
  /\ checkedSequence' = chainSequence[from]
  /\ UNCHANGED <<keys, runs, flags, numExistingAccs, i, fromAccountSequence, unsure, chain>>

(* sendCoins queries the account again.  The coins that were checked may   *)
(* not be there for this run: a block was committed since, or transfers of *)
(* earlier runs, for more than this one pays, are still waiting.           *)
readSequence ==
  /\ pc = "sequence"
  /\ fromAccountSequence' = chainSequence[from]
  /\ unsure' = IF \/ chainSequence[from] # checkedSequence
                  \/ \E p \in DOMAIN mempool[from] : mempool[from][p].amount > amount
               THEN unsure \cup {from} ELSE unsure
  /\ pc' = "key"
  /\ UNCHANGED <<keys, runs, flags, numExistingAccs, i, checkedSequence, chain>>

(* Faulty variant: every run begins to number at 0.                        *)
accountName_FromZero == i

(* The number in the name of the account in hand.                          *)
accountName == i + numExistingAccs

(* Faulty variant: the key is not stored.                                  *)
createSpamAccountKey_NotStored ==
  /\ pc = "key"
  /\ pc' = IF i = numAccsToCreate THEN "done" ELSE "send"
  /\ UNCHANGED <<keys, runs, command, chain>>

(* The head of the loop of sendCoins: a new key, stored in the key base,   *)
(* which replaces one of the same name (external).                         *)
createSpamAccountKey ==
  /\ pc = "key"
  /\ IF i = numAccsToCreate
     THEN pc' = "done" /\ UNCHANGED keys
     ELSE /\ pc' = "send"
          /\ keys' = [n \in DOMAIN keys \cup {accountName} |->
                        IF n = accountName THEN runs ELSE keys[n]]
  /\ UNCHANGED <<runs, command, chain>>

(* CheckTx: the node takes a transaction with the next sequence.           *)
Accepts(sequence) == sequence = chainSequence[from] + Len(mempool[from])

Transfer == [to |-> accountName, amount |-> amount]

(* Faulty variant: the sequence is queried for every transfer.             *)
sendCoins_Requeries(err) ==
  /\ pc = "send"
  /\ \/ UNCHANGED mempool
     \/ /\ Accepts(chainSequence[from])
        /\ mempool' = [mempool EXCEPT ![from] = Append(@, Transfer)]
  /\ i' = i + 1
  /\ fromAccountSequence' = chainSequence[from]
  /\ pc' = IF err THEN "failed" ELSE "key"
  /\ UNCHANGED <<keys, runs, flags, numExistingAccs, history,
                 fromCoins, chainSequence, funded>>

(* The transfer may fail to be built or reach the node, which may drop or  *)
(* accept it: an asynchronous broadcast does not tell.                     *)
BuildSignAndBroadcastMsg ==
  \/ UNCHANGED mempool
  \/ /\ Accepts(fromAccountSequence)
     /\ mempool' = [mempool EXCEPT ![from] = Append(@, Transfer)]

(* The rest of the loop of sendCoins; err is what the client was told of   *)
(* the broadcast.                                                          *)
sendCoins(err) ==
  /\ pc = "send"
  /\ BuildSignAndBroadcastMsg
  /\ i' = i + 1
  /\ fromAccountSequence' = fromAccountSequence + 1
  /\ pc' = IF err THEN "failed" ELSE "key"
  /\ UNCHANGED <<keys, runs, flags, numExistingAccs, history,
                 fromCoins, chainSequence, funded>>

(* The command is interrupted, or one of its queries fails.                *)
kill ==
  /\ pc \in {"balance", "sequence", "key", "send"}
  /\ pc' = "failed"
  /\ UNCHANGED <<keys, runs, command, chain>>

(* DeliverTx: the sequence is used up even if the coins do not suffice.    *)
deliver(f) ==
  /\ mempool[f] # <<>>
  /\ mempool' = [mempool EXCEPT ![f] = Tail(@)]
  /\ chainSequence' = [chainSequence EXCEPT ![f] = @ + 1]
  /\ LET transfer == Head(mempool[f])
     IN  IF fromCoins[f] >= transfer.amount
         THEN /\ fromCoins' = [fromCoins EXCEPT ![f] = @ - transfer.amount]
              /\ funded' = [funded EXCEPT ![f] = @ \cup {transfer.to}]
         ELSE UNCHANGED <<fromCoins, funded>>
  /\ UNCHANGED <<keys, pc, runs, command>>

(* The node restarts and its mempool is gone.                              *)
loseMempool ==
  /\ \E f \in Payers : mempool[f] # <<>>
  /\ mempool' = [f \in Payers |-> <<>>]
  /\ UNCHANGED <<keys, pc, runs, command, fromCoins, chainSequence, funded>>

Next ==
  \/ \E n \in Ks, f \in Payers, a \in Amounts : ensure(n, f, a)
  \/ ensureFromAccHasEnoughCoins
  \/ readSequence
  \/ createSpamAccountKey
  \/ \E err \in BOOLEAN : sendCoins(err)
  \/ kill
  \/ \E f \in Payers : deliver(f)
  \/ loseMempool

Spec == Init /\ [][Next]_vars

-----------------------------------------------------------------------------
(* Properties.                                                             *)

(* A new key never replaces one that exists, whatever runs have failed     *)
(* before or were killed half way: the number of keys is always the number *)
(* of the next one.  (Keys that were removed, or that something else has   *)
(* named like spam accounts, would break this: they are left out.)         *)
NoKeyReplaced ==
  [][ \A n \in DOMAIN keys : n \in DOMAIN keys' /\ keys'[n] = keys[n] ]_vars

Positions(f) == 1..Len(mempool[f])

Recipients(f, positions) == {mempool[f][p].to : p \in positions}

(* Coins go only to accounts whose key is kept: the key is stored before   *)
(* the transfer is sent, and a run that ends in between loses no coins.    *)
PaidHaveKeys ==
  \A f \in Payers : funded[f] \cup Recipients(f, Positions(f)) \subseteq DOMAIN keys

(* No gap between accounts of the set that one run has created.            *)
Together(accounts) ==
  \A l, n \in accounts :
    keys[l] = keys[n] => \A m \in l..n : m \in accounts

(* The waiting transfers the payer has the coins for, each for itself.     *)
Affordable(f) == {p \in Positions(f) : fromCoins[f] >= mempool[f][p].amount}

(* The accounts that one run has paid are next to each other: a transfer   *)
(* that is dropped or lost takes all later ones of its run with it,        *)
(* because their sequences never come up.  (The first ones may be missing  *)
(* too: a run that starts while transfers are waiting reads a sequence     *)
(* that is already used.)  So are, together with them, those whose         *)
(* transfers are waiting, as long as the payer has the coins for one; once *)
(* it has not, what still waits of the run will not be paid.               *)
PaidTogether ==
  \A f \in Payers :
    /\ Together(funded[f])
    /\ Together(funded[f] \cup Recipients(f, Affordable(f)))

(* What the waiting transfers of a payer cost.                             *)
Owed(f) ==
  SumFunctionOnSet([p \in Positions(f) |-> mempool[f][p].amount], Positions(f))

(* Having passed the check of its coins, a payer can pay for all transfers *)
(* the node has accepted, of this run and of earlier ones still waiting,   *)
(* whatever was killed, dropped or lost.  There are two exceptions: a      *)
(* block was committed between the query for the coins and the query for   *)
(* the sequence of some run, or a run has started with a smaller --amount  *)
(* than transfers of the same payer that were still waiting.               *)
PayableUnlessUnsure == \A f \in Payers \ unsure : Owed(f) <= fromCoins[f]
=============================================================================
