------------------------------- MODULE Spammer -------------------------------
(***************************************************************************)
(* The sending loop of cmd/thorchainspam (GetTxsSend, Spammer.send and     *)
(* updateSequenceAndCoins) and what it relies on of the chain.             *)
(*                                                                         *)
(* The loop starts a goroutine for every transaction, round robin over the *)
(* spammers, and never waits for one.  The goroutines of a spammer share   *)
(* its sequence number; the channel queryFree, which holds one value, lets *)
(* one of them work at a time.  A node drops a transaction whose sequence  *)
(* is not the next of the account, and an asynchronous broadcast does not  *)
(* say so.                                                                 *)
(***************************************************************************)
EXTENDS Integers, Sequences

CONSTANTS
  Spammers,      \* the slice createSpammers returned, a sequence
  Goroutines,    \* goroutines alive at the same time (bound)
  CheckEvery,    \* sends between two refreshes (200)
  MaxSequence,   \* the last sequence the chain gives out (bound)
  Nobody         \* no spammer, no sequence

Names == {Spammers[n] : n \in 1..Len(Spammers)}

ASSUME SpammerAssumption ==
  /\ Spammers \in Seq(Names)
  /\ Len(Spammers) > 0
  /\ CheckEvery \in Nat
  /\ MaxSequence \in Nat
  /\ Nobody \notin Names \cup Nat

VARIABLES
  i,              \* the position of the loop in Spammers
  at,             \* where a goroutine is
  who,            \* the spammer it sends for
  signed,         \* the sequence it signed
  queryFree,      \* the number of values in the channel of a spammer
  nextSequence,   \* the sequence a spammer signs next
  sequenceCheck,  \* its sends since the last refresh
  chainSequence,  \* the committed sequence of its account (external)
  mempool         \* its transactions waiting for a block (external)

node == <<chainSequence, mempool>>
spammer == <<nextSequence, sequenceCheck>>
vars == <<i, at, who, signed, queryFree, spammer, node>>

Init ==
  /\ i = 1
  /\ at = [g \in Goroutines |-> "none"]
  /\ who = [g \in Goroutines |-> Nobody]
  /\ signed = [g \in Goroutines |-> Nobody]
  /\ queryFree = [s \in Names |-> 1]
  /\ nextSequence = [s \in Names |-> 0]
  /\ sequenceCheck = [s \in Names |-> 0]
  /\ chainSequence = [s \in Names |-> 0]
  /\ mempool = [s \in Names |-> 0]

Go(g, label) == at' = [at EXCEPT ![g] = label]

(* One iteration of the loop of GetTxsSend.                                *)
start(g) ==
  /\ at[g] = "none"
  /\ who' = [who EXCEPT ![g] = Spammers[i]]
  /\ Go(g, "wait")
  /\ i' = IF i = Len(Spammers) THEN 1 ELSE i + 1
  /\ UNCHANGED <<signed, queryFree, spammer, node>>

(* Faulty variant: the goroutine does not receive the value.               *)
take_Peek(g) ==
  /\ at[g] = "wait"
  /\ queryFree[who[g]] > 0
  /\ Go(g, "make")
  /\ UNCHANGED <<i, who, signed, queryFree, spammer, node>>

(* <-sp.queryFree                                                          *)
take(g) ==
  /\ at[g] = "wait"
  /\ queryFree[who[g]] > 0
  /\ queryFree' = [queryFree EXCEPT ![who[g]] = @ - 1]
  /\ Go(g, "make")
  /\ UNCHANGED <<i, who, signed, spammer, node>>

(* A random message is made and signed; without coins to use there is none *)
(* and the spammer is refreshed.                                           *)
makeMsg(g) ==
  /\ at[g] = "make"
  /\ \/ /\ signed' = [signed EXCEPT ![g] = nextSequence[who[g]]]
        /\ Go(g, "broadcast")
     \/ /\ Go(g, "account")
        /\ UNCHANGED signed
  /\ UNCHANGED <<i, who, queryFree, spammer, node>>

(* The sequence CheckTx expects (external).                                *)
NextAccepted(s) == chainSequence[s] + mempool[s]

(* CheckTx: a transaction with the expected sequence may enter the mempool,*)
(* any other is dropped.                                                   *)
Accepts(s, sequence) == sequence = NextAccepted(s) /\ sequence < MaxSequence

(* Sequences above MaxSequence are all alike: no account ever gets there.  *)
Advance(sequence) == IF sequence > MaxSequence THEN sequence ELSE sequence + 1

(* Faulty variant: the sends since the last refresh are not looked at.     *)
RefreshDue_Never(s) == FALSE

RefreshDue(s) == sequenceCheck[s] + 1 >= CheckEvery

(* The transaction may fail to be built or reach the node, which may drop  *)
(* or accept it: an asynchronous broadcast does not tell.                  *)
PrivBuildSignAndBroadcastMsg(g) ==
  \/ UNCHANGED mempool
  \/ /\ Accepts(who[g], signed[g])
     /\ mempool' = [mempool EXCEPT ![who[g]] = @ + 1]

(* The broadcast and the bookkeeping after it; err is what the client was  *)
(* told of the call.                                                       *)
broadcast(g, err) ==
  /\ at[g] = "broadcast"
  /\ PrivBuildSignAndBroadcastMsg(g)
  /\ nextSequence' = [nextSequence EXCEPT ![who[g]] = Advance(@)]
  /\ sequenceCheck' = [sequenceCheck EXCEPT ![who[g]] =
                         IF @ < CheckEvery THEN @ + 1 ELSE @]
  /\ signed' = [signed EXCEPT ![g] = Nobody]
  /\ Go(g, IF err \/ RefreshDue(who[g]) THEN "account" ELSE "release")
  /\ UNCHANGED <<i, who, queryFree, chainSequence>>

(* updateSequenceAndCoins queries the account, then its sequence.  Without *)
(* the account nothing is refreshed; without the sequence it becomes 0.    *)
accountFound(g) ==
  /\ at[g] = "account"
  /\ Go(g, "sequence")
  /\ UNCHANGED <<i, who, signed, queryFree, spammer, node>>

(* Faulty variant: updateSequenceAndCoins gives the value back and so does *)
(* its caller.                                                             *)
accountNotFound_Frees(g) ==
  /\ at[g] = "account"
  /\ queryFree' = [queryFree EXCEPT ![who[g]] = @ + 1]
  /\ Go(g, "release")
  /\ UNCHANGED <<i, who, signed, spammer, node>>

(* Faulty variant: send ends without giving the value back.                *)
accountNotFound_KeepsValue(g) ==
  /\ at[g] = "account"
  /\ who' = [who EXCEPT ![g] = Nobody]
  /\ Go(g, "none")
  /\ UNCHANGED <<i, signed, queryFree, spammer, node>>

accountNotFound(g) ==
  /\ at[g] = "account"
  /\ Go(g, "release")
  /\ UNCHANGED <<i, who, signed, queryFree, spammer, node>>

Refreshed(g, sequence) ==
  /\ at[g] = "sequence"
  /\ nextSequence' = [nextSequence EXCEPT ![who[g]] = sequence]
  /\ sequenceCheck' = [sequenceCheck EXCEPT ![who[g]] = 0]
  /\ Go(g, "release")
  /\ UNCHANGED <<i, who, signed, queryFree, node>>

sequenceRead(g) == Refreshed(g, chainSequence[who[g]])

sequenceFailed(g) == Refreshed(g, 0)

(* sp.queryFree <- true blocks while the channel is full; then send ends.  *)
release(g) ==
  /\ at[g] = "release"
  /\ queryFree[who[g]] < 1
  /\ queryFree' = [queryFree EXCEPT ![who[g]] = @ + 1]
  /\ who' = [who EXCEPT ![g] = Nobody]
  /\ Go(g, "none")
  /\ UNCHANGED <<i, signed, spammer, node>>

(* A block commits a transaction of s.                                     *)
commit(s) ==
  /\ mempool[s] > 0
  /\ mempool' = [mempool EXCEPT ![s] = @ - 1]
  /\ chainSequence' = [chainSequence EXCEPT ![s] = @ + 1]
  /\ UNCHANGED <<i, at, who, signed, queryFree, spammer>>

(* The node restarts and its mempool is gone.                              *)
loseMempool ==
  /\ \E s \in Names : mempool[s] > 0
  /\ mempool' = [s \in Names |-> 0]
  /\ UNCHANGED <<i, at, who, signed, queryFree, spammer, chainSequence>>

step(g) ==
  \/ take(g)
  \/ makeMsg(g)
  \/ \E err \in BOOLEAN : broadcast(g, err)
  \/ accountFound(g)
  \/ accountNotFound(g)
  \/ sequenceRead(g)
  \/ sequenceFailed(g)
  \/ release(g)

Next ==
  \/ \E g \in Goroutines : start(g) \/ step(g)
  \/ \E s \in Names : commit(s)
  \/ loseMempool

Spec == Init /\ [][Next]_vars

(***************************************************************************)
(* The limiter ticks for ever and the Go scheduler runs every goroutine    *)
(* that can go on; goroutines that wait for a channel are served in turn,  *)
(* a waiting transaction is committed, and a query that is made again and  *)
(* again for an account is answered some time.                             *)
(***************************************************************************)
Fairness ==
  /\ WF_vars(\E g \in Goroutines : start(g))
  /\ \A g \in Goroutines :
       /\ WF_vars(step(g))
       /\ SF_vars(take(g))
  /\ \A s \in Names :
       /\ WF_vars(commit(s))
       /\ SF_vars(\E g \in Goroutines : who[g] = s /\ accountFound(g))
       /\ SF_vars(\E g \in Goroutines : who[g] = s /\ sequenceRead(g))

LiveSpec == Spec /\ Fairness

-----------------------------------------------------------------------------
(* Properties.                                                             *)

Labels ==
  {"none", "wait", "make", "broadcast", "account", "sequence", "release"}

(* Every variable has its type; a goroutine that runs has its spammer and  *)
(* one that broadcasts the sequence it signed.                             *)
TypeOK ==
  /\ i \in 1..Len(Spammers)
  /\ at \in [Goroutines -> Labels]
  /\ who \in [Goroutines -> Names \cup {Nobody}]
  /\ signed \in [Goroutines -> Nat \cup {Nobody}]
  /\ queryFree \in [Names -> 0..1]
  /\ nextSequence \in [Names -> Nat]
  /\ sequenceCheck \in [Names -> Nat]
  /\ chainSequence \in [Names -> Nat]
  /\ mempool \in [Names -> Nat]
  /\ \A g \in Goroutines : at[g] = "none" <=> who[g] = Nobody
  /\ \A g \in Goroutines : at[g] = "broadcast" <=> signed[g] # Nobody

Holds(g, s) == who[g] = s /\ at[g] \notin {"none", "wait"}

(* The channel queryFree works as a lock on every path through send: at    *)
(* most one goroutine of a spammer is past the receive, and the value is in*)
(* the channel exactly when there is none, so it is never lost and the     *)
(* send that gives it back never blocks.                                   *)
OneSender ==
  \A s \in Names :
    /\ \A g, h \in Goroutines : Holds(g, s) /\ Holds(h, s) => g = h
    /\ queryFree[s] = 1 <=> \A g \in Goroutines : ~Holds(g, s)

(* The sequence a goroutine signed is still the next one of its spammer    *)
(* when the transaction is broadcast: no other goroutine has used it or    *)
(* refreshed it meanwhile.                                                 *)
SignedCurrent ==
  \A g \in Goroutines :
    at[g] = "broadcast" => signed[g] = nextSequence[who[g]]

(* Under LiveSpec a spammer finds back to the sequence the chain expects,  *)
(* again and again, whatever was dropped, failed, or lost with a mempool,  *)
(* and although a dropped transaction is never reported.                   *)
Resynchronises ==
  \A s \in Names : []<>(nextSequence[s] = NextAccepted(s))

(* Under LiveSpec every started send ends: no goroutine waits for good.    *)
SendsEnd ==
  \A g \in Goroutines : []<>(at[g] = "none")
=============================================================================
