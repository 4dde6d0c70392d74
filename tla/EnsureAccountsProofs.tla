----------------------- MODULE EnsureAccountsProofs -----------------------
(* Proofs about EnsureAccounts: for every number of accounts, of payers    *)
(* and of runs, each with its own amount, no key is ever replaced, coins   *)
(* go to accounts with keys, the accounts of a run are paid without gaps,  *)
(* and a payer can pay for what the node has accepted unless a run has     *)
(* raced a block or has asked for less than what was waiting.  The parts   *)
(* of the inductive invariant say what ties the loop counter, the          *)
(* sequences on both sides and the names of the accounts together.         *)
EXTENDS EnsureAccounts, SumProofs

Running == pc \in {"balance", "sequence", "key", "send"}
Looping == pc \in {"key", "send"}

Transfers == [to : Nat, amount : Amounts]

Types ==
  /\ pc \in {"idle", "balance", "sequence", "key", "send", "done", "failed"}
  /\ runs \in Nat /\ numExistingAccs \in Nat /\ i \in Nat
  /\ k \in Nat /\ from \in Payers /\ amount \in Amounts
  /\ fromAccountSequence \in Nat
  /\ checkedSequence \in Nat /\ unsure \in SUBSET Payers
  /\ fromCoins \in [Payers -> Nat] /\ chainSequence \in [Payers -> Nat]
  /\ mempool \in [Payers -> Seq(Transfers)]
  /\ DOMAIN funded = Payers

(* The keys are numbered without a gap, and a running command has created  *)
(* exactly those beyond the ones it has counted.                           *)
Numbered ==
  /\ CountSpamAccounts \in Nat
  /\ DOMAIN keys = 0..(CountSpamAccounts - 1)
  /\ pc \in {"balance", "sequence"} => i = 0
  /\ pc \in {"balance", "sequence", "key"} =>
       CountSpamAccounts = numExistingAccs + i
  /\ pc = "send" => /\ CountSpamAccounts = numExistingAccs + i + 1
                    /\ numExistingAccs + i < k
  /\ Running => numExistingAccs + i <= k

(* Later keys are of later runs.                                           *)
Dated ==
  /\ \A a \in DOMAIN keys : keys[a] \in Nat /\ keys[a] <= runs
  /\ \A a, b \in DOMAIN keys : a <= b => keys[a] <= keys[b]
  /\ Running => \A a \in DOMAIN keys : keys[a] = runs <=> a >= numExistingAccs

AllHaveKeys ==
  \A f \in Payers :
    /\ funded[f] \subseteq DOMAIN keys
    /\ \A p \in Positions(f) : mempool[f][p].to \in DOMAIN keys

(* The waiting transfers of one run are for the same amount and go to      *)
(* accounts that follow each other.                                        *)
Follows(s, t, distance) ==
  /\ keys[s.to] <= keys[t.to]
  /\ keys[s.to] = keys[t.to] => t.to - s.to = distance /\ s.amount = t.amount

Queued ==
  \A f \in Payers : \A p, q \in Positions(f) :
    p <= q => Follows(mempool[f][p], mempool[f][q], q - p)

(* The next account that will be paid follows those that are paid.         *)
NextPaid ==
  \A f \in Payers : mempool[f] # <<>> => \A n \in funded[f] :
    /\ keys[n] <= keys[mempool[f][1].to]
    /\ fromCoins[f] >= mempool[f][1].amount /\ keys[n] = keys[mempool[f][1].to] =>
         n < mempool[f][1].to /\ mempool[f][1].to - 1 \in funded[f]

AllTogether == \A f \in Payers : Together(funded[f])

(* The account whose transfer has the sequence the chain expects.          *)
Expected == chainSequence[from] + numExistingAccs + i - fromAccountSequence

(* Within a run, the sequence of a transfer tells its account.             *)
Sent ==
  Looping => \A p \in Positions(from) :
    keys[mempool[from][p].to] = runs =>
      mempool[from][p].to = Expected + p - 1 /\ mempool[from][p].amount = amount

(* While no sequence is missing, the run has paid up to that account.      *)
PaidInOrder ==
  /\ Looping
  /\ fromAccountSequence <= chainSequence[from] + Len(mempool[from])
  /\ fromCoins[from] >= amount
  => \A n \in funded[from] :
       keys[n] = runs => Expected - 1 \in funded[from] /\ n < Expected

(* The transfers the loop may still see committed: those with a sequence   *)
(* the chain has not used.                                                 *)
ToCome == fromAccountSequence - i + numAccsToCreate - chainSequence[from]

(* Unless its check has secured nothing, the coins of the payer suffice    *)
(* for what waits and for what the loop may still send.                    *)
Promised ==
  /\ pc = "sequence" => checkedSequence <= chainSequence[from]
  /\ PayableUnlessUnsure
  /\ pc = "sequence" /\ from \notin unsure /\ chainSequence[from] = checkedSequence =>
       fromCoins[from] >= amount * numAccsToCreate
  /\ Looping /\ from \notin unsure =>
       /\ \A p \in Positions(from) : mempool[from][p].amount <= amount
       /\ fromCoins[from] >= amount * ToCome

EnsureInv ==
  /\ Types /\ Numbered /\ Dated /\ AllHaveKeys
  /\ Queued /\ AllTogether /\ NextPaid /\ Sent /\ PaidInOrder
  /\ Promised

-----------------------------------------------------------------------------
(* What a queue of transfers costs.                                        *)

Costs(q) == [p \in 1..Len(q) |-> q[p].amount]
Cost(q) == Sum(Costs(q), 1..Len(q))

LEMMA CostTypes ==
  ASSUME NEW q \in Seq(Transfers)
  PROVE  /\ IsFiniteSet(1..Len(q)) /\ Len(q) \in Nat
         /\ \A p \in 1..Len(q) : Costs(q)[p] = q[p].amount /\ Costs(q)[p] \in Nat
         /\ Cost(q) \in Nat
<1>1. IsFiniteSet(1..Len(q)) /\ Len(q) \in Nat
  BY FS_Interval
<1>2. \A p \in 1..Len(q) : Costs(q)[p] = q[p].amount /\ Costs(q)[p] \in Nat
  <2>1. ASSUME NEW p \in 1..Len(q) PROVE q[p].amount \in Nat
    <3>1. q[p] \in Transfers
      OBVIOUS
    <3> QED
      BY <3>1, EnsureAssumption DEF Transfers
  <2> QED
    BY <2>1 DEF Costs
<1>3. Cost(q) \in Nat
  BY <1>1, <1>2, SumNat DEF Cost
<1> QED
  BY <1>1, <1>2, <1>3

LEMMA CostOfNone ==
  ASSUME NEW q, Len(q) = 0
  PROVE  Cost(q) = 0
<1>1. 1..Len(q) = {}
  OBVIOUS
<1> QED
  BY <1>1, SumEmpty DEF Cost

(* The first transfer and the rest.                                        *)
LEMMA CostOfFirst ==
  ASSUME NEW q \in Seq(Transfers), q # <<>>
  PROVE  Cost(q) = q[1].amount + Cost(Tail(q))
<1> DEFINE t == Tail(q)
           r == [p \in 1..Len(t) |-> p + 1]
<1>1. /\ t \in Seq(Transfers) /\ Len(q) >= 1 /\ Len(t) = Len(q) - 1
      /\ \A p \in 1..Len(t) : t[p] = q[p + 1]
  OBVIOUS
<1> HIDE DEF t
<1>2. (1..Len(q)) \ {1} = 2..Len(q) /\ 1 \in 1..Len(q)
  BY <1>1
<1>3. Cost(q) = Costs(q)[1] + Sum(Costs(q), 2..Len(q))
  <2> DEFINE S == 1..Len(q)
             g == Costs(q)
  <2>1. IsFiniteSet(S) /\ \A p \in S : g[p] \in Int
    BY CostTypes
  <2>2. S \ {1} = 2..Len(q) /\ 1 \in S /\ Cost(q) = Sum(g, S)
    BY <1>2 DEF Cost
  <2> HIDE DEF S, g
  <2>3. Sum(g, S) = g[1] + Sum(g, S \ {1})
    BY <2>1, <2>2, SumTakes
  <2> QED
    BY <2>2, <2>3 DEF g
<1>4. Renames(r, 1..Len(t), 2..Len(q))
  <2>1. \A p \in 1..Len(t) : r[p] \in 2..Len(q)
    BY <1>1
  <2>2. \A p, o \in 1..Len(t) : r[p] = r[o] => p = o
    BY <1>1
  <2>3. ASSUME NEW z \in 2..Len(q) PROVE \E p \in 1..Len(t) : r[p] = z
    <3>1. z - 1 \in 1..Len(t) /\ r[z - 1] = z
      BY <1>1
    <3> QED
      BY <3>1
  <2> HIDE DEF r
  <2> QED
    BY <2>1, <2>2, <2>3 DEF Renames
<1>5. \A p \in 1..Len(t) : Costs(t)[p] \in Int /\ Costs(q)[r[p]] = Costs(t)[p]
  <2>1. ASSUME NEW p \in 1..Len(t)
        PROVE  Costs(t)[p] \in Int /\ Costs(q)[r[p]] = Costs(t)[p]
    <3>1. r[p] = p + 1 /\ p + 1 \in 1..Len(q)
      BY <1>1
    <3>2. /\ Costs(t)[p] = t[p].amount /\ Costs(t)[p] \in Nat
          /\ Costs(q)[p + 1] = q[p + 1].amount
      BY <1>1, <3>1, CostTypes
    <3> QED
      BY <1>1, <3>1, <3>2
  <2> QED
    BY <2>1
<1>6. Sum(Costs(q), 2..Len(q)) = Cost(t)
  <2> HIDE DEF r
  <2>1. IsFiniteSet(1..Len(t))
    BY <1>1, CostTypes
  <2> QED
    BY <1>4, <1>5, <2>1, SumRenamed DEF Cost
<1>7. Costs(q)[1] = q[1].amount
  BY <1>2, CostTypes
<1> QED
  BY <1>3, <1>6, <1>7 DEF t

(* One transfer more.                                                      *)
LEMMA CostOfMore ==
  ASSUME NEW q \in Seq(Transfers), NEW t \in Transfers
  PROVE  Cost(Append(q, t)) = Cost(q) + t.amount
<1> DEFINE n == Len(q)
           a == Append(q, t)
<1>1. /\ n \in Nat /\ a \in Seq(Transfers) /\ Len(a) = n + 1
      /\ \A p \in 1..n : a[p] = q[p]
      /\ a[n + 1] = t
  OBVIOUS
<1> HIDE DEF n, a
<1>2. (1..(n + 1)) \ {n + 1} = 1..n /\ n + 1 \in 1..(n + 1)
  BY <1>1
<1>3. Cost(a) = Costs(a)[n + 1] + Sum(Costs(a), 1..n)
  <2>1. \A p \in 1..(n + 1) : Costs(a)[p] \in Int
    BY <1>1, CostTypes
  <2>2. IsFiniteSet(1..(n + 1))
    BY <1>1, CostTypes
  <2> DEFINE S == 1..(n + 1)
             g == Costs(a)
  <2>3. S \ {n + 1} = 1..n /\ n + 1 \in S /\ Cost(a) = Sum(g, S)
    BY <1>1, <1>2 DEF Cost
  <2>4. IsFiniteSet(S) /\ \A p \in S : g[p] \in Int
    BY <2>1, <2>2
  <2> HIDE DEF S, g
  <2>5. Sum(g, S) = g[n + 1] + Sum(g, S \ {n + 1})
    BY <2>3, <2>4, SumTakes
  <2> QED
    BY <2>3, <2>5 DEF g
<1>4. \A p \in 1..n : Costs(q)[p] \in Int /\ Costs(q)[p] = Costs(a)[p]
  <2>1. ASSUME NEW p \in 1..n
        PROVE  Costs(q)[p] \in Int /\ Costs(q)[p] = Costs(a)[p]
    <3>1. p \in 1..Len(a) /\ p \in 1..Len(q)
      BY <1>1 DEF n
    <3>2. /\ Costs(a)[p] = a[p].amount
          /\ Costs(q)[p] = q[p].amount /\ Costs(q)[p] \in Nat
      BY <1>1, <3>1, CostTypes
    <3> QED
      BY <1>1, <3>2
  <2> QED
    BY <2>1
<1>5. Sum(Costs(a), 1..n) = Cost(q)
  <2>1. IsFiniteSet(1..n)
    BY CostTypes DEF n
  <2>2. Sum(Costs(q), 1..n) = Sum(Costs(a), 1..n)
    BY <1>4, <2>1, SumSame
  <2> QED
    BY <2>2 DEF Cost, n
<1>6. Costs(a)[n + 1] = t.amount
  BY <1>1, <1>2, CostTypes
<1>7. Cost(q) \in Nat /\ t.amount \in Nat
  BY EnsureAssumption, CostTypes DEF Transfers
<1> QED
  BY <1>3, <1>5, <1>6, <1>7 DEF a

(* Transfers of at most c coins each.                                      *)
LEMMA CostAtMost ==
  ASSUME NEW q \in Seq(Transfers), NEW c \in Nat,
         \A p \in 1..Len(q) : q[p].amount <= c
  PROVE  Cost(q) <= c * Len(q)
<1> DEFINE S(n) == Sum(Costs(q), 1..n)
           N == {n \in Nat : n <= Len(q) => S(n) \in Int /\ S(n) <= c * n}
<1>1. 0 \in N
  <2>1. 1..0 = {} /\ c * 0 = 0
    OBVIOUS
  <2>2. S(0) = 0
    BY <2>1, SumEmpty
  <2> QED
    BY <2>1, <2>2
<1>2. ASSUME NEW n \in N PROVE n + 1 \in N
  <2> SUFFICES ASSUME n + 1 <= Len(q)
               PROVE  S(n + 1) \in Int /\ S(n + 1) <= c * (n + 1)
    OBVIOUS
  <2>1. n \in Nat /\ n + 1 \in 1..Len(q) /\ S(n) \in Int /\ S(n) <= c * n
    BY CostTypes
  <2>2. \A p \in 1..(n + 1) : Costs(q)[p] \in Int
    <3>1. \A p \in 1..(n + 1) : p \in 1..Len(q)
      BY <2>1, CostTypes
    <3> QED
      BY <3>1, CostTypes
  <2>3. Costs(q)[n + 1] <= c /\ Costs(q)[n + 1] \in Int
    BY <2>1, CostTypes
  <2>4. S(n + 1) = Costs(q)[n + 1] + S(n)
    <3> DEFINE T == 1..(n + 1)
               g == Costs(q)
    <3>1. IsFiniteSet(T)
      BY <2>1, FS_Interval
    <3>2. n + 1 \in T /\ T \ {n + 1} = 1..n /\ S(n + 1) = Sum(g, T)
      BY <2>1
    <3>3. \A p \in T : g[p] \in Int
      BY <2>2
    <3>4. S(n) = Sum(g, 1..n)
      OBVIOUS
    <3> HIDE DEF T, S, g
    <3>5. Sum(g, T) = g[n + 1] + Sum(g, T \ {n + 1})
      BY <3>1, <3>2, <3>3, SumTakes
    <3> QED
      BY <3>2, <3>4, <3>5 DEF g
  <2> HIDE DEF S, N
  <2>5. c * (n + 1) = c * n + c /\ c * n \in Int
    BY <2>1
  <2> QED
    BY <2>1, <2>3, <2>4, <2>5
<1>3. N = Nat
  <2> HIDE DEF N
  <2>1. N \in SUBSET Nat
    BY DEF N
  <2> QED
    BY <1>1, <1>2, <2>1, NatSetInduction
<1>4. Len(q) \in N
  BY <1>3, CostTypes
<1> QED
  BY <1>4, CostTypes DEF Cost

(* What a payer owes is the cost of its queue.                             *)
LEMMA OwedIsCost ==
  ASSUME NEW f \in Payers
  PROVE  Owed(f) = Cost(mempool[f])
BY DEF Owed, Cost, Costs, Sum, Positions

-----------------------------------------------------------------------------
(* The keys.                                                               *)

LEMMA EnsureInitially == Init => EnsureInv
<1> SUFFICES ASSUME Init PROVE EnsureInv
  OBVIOUS
<1>1. DOMAIN keys = {}
  BY DEF Init
<1>2. CountSpamAccounts = 0
  BY <1>1, FS_EmptySet DEF CountSpamAccounts
<1>i. \A f \in Payers : /\ mempool[f] = <<>> /\ funded[f] = {}
                        /\ fromCoins[f] \in Nat /\ Positions(f) = {}
  <2>1. ASSUME NEW f \in Payers
        PROVE  /\ mempool[f] = <<>> /\ funded[f] = {} /\ fromCoins[f] \in Nat
    BY EnsureAssumption DEF Init
  <2>2. \A f \in Payers : Positions(f) = {}
    BY <2>1 DEF Positions
  <2> QED
    BY <2>1, <2>2
<1>3. Types
  <2>1. mempool \in [Payers -> Seq(Transfers)]
    BY DEF Init
  <2>2. fromCoins \in [Payers -> Nat] /\ chainSequence \in [Payers -> Nat]
    BY EnsureAssumption DEF Init
  <2>3. DOMAIN funded = Payers /\ unsure \in SUBSET Payers
    BY DEF Init
  <2> QED
    BY <2>1, <2>2, <2>3 DEF Init, Types
<1>4. Numbered /\ Dated
  <2>1. pc = "idle" /\ DOMAIN keys = 0..(CountSpamAccounts - 1)
    BY <1>1, <1>2 DEF Init
  <2>2. Numbered
    BY <1>2, <2>1 DEF Numbered, Running
  <2>3. Dated
    BY <1>1, <2>1 DEF Dated, Running
  <2> QED
    BY <2>2, <2>3
<1>5. AllHaveKeys /\ Queued /\ AllTogether /\ NextPaid
  BY <1>i DEF AllHaveKeys, Queued, AllTogether, Together, NextPaid
<1>6. Sent /\ PaidInOrder
  BY DEF Init, Sent, PaidInOrder, Looping
<1>7. Promised
  <2>1. ASSUME NEW f \in Payers PROVE Owed(f) <= fromCoins[f]
    <3>1. Len(mempool[f]) = 0
      BY <1>i
    <3>2. Owed(f) = 0
      BY <3>1, OwedIsCost, CostOfNone
    <3> QED
      BY <1>i, <3>2
  <2>2. pc = "idle"
    BY DEF Init
  <2> QED
    BY <2>1, <2>2 DEF Promised, PayableUnlessUnsure, Looping
<1> QED
  BY <1>3, <1>4, <1>5, <1>6, <1>7 DEF EnsureInv

(* A new key gets the next number and leaves the others as they were.      *)
LEMMA KeyStored ==
  ASSUME Types, Numbered, createSpamAccountKey, pc' = "send"
  PROVE  /\ accountName = CountSpamAccounts
         /\ CountSpamAccounts' = CountSpamAccounts + 1
         /\ DOMAIN keys' = 0..CountSpamAccounts
         /\ keys'[CountSpamAccounts] = runs
         /\ \A n \in DOMAIN keys : keys'[n] = keys[n]
<1> DEFINE c == CountSpamAccounts
<1>1. /\ keys' = [n \in DOMAIN keys \cup {accountName} |->
                    IF n = accountName THEN runs ELSE keys[n]]
      /\ accountName = c /\ c \in Nat /\ DOMAIN keys = 0..(c - 1)
  BY DEF createSpamAccountKey, Numbered, Types, accountName
<1> HIDE DEF c
<1>2. keys' = [n \in DOMAIN keys \cup {c} |->
                 IF n = c THEN runs ELSE keys[n]]
  BY <1>1
<1>3. DOMAIN keys' = 0..c
  BY <1>1, <1>2
<1>4. keys'[c] = runs
  BY <1>2
<1>5. \A n \in DOMAIN keys : keys'[n] = keys[n]
  BY <1>1, <1>2
<1>6. Cardinality(0..c) = c + 1
  BY <1>1, FS_Interval
<1>7. CountSpamAccounts' = c + 1
  BY <1>3, <1>6 DEF CountSpamAccounts
<1> QED
  BY <1>1, <1>3, <1>4, <1>5, <1>7 DEF c

(* Every other action leaves the keys alone.                               *)
LEMMA KeysKept ==
  ASSUME [Next]_vars, ~(createSpamAccountKey /\ pc' = "send")
  PROVE  keys' = keys /\ CountSpamAccounts' = CountSpamAccounts
<1>1. keys' = keys
  BY DEF Next, vars, ensure, ensureFromAccHasEnoughCoins, readSequence,
         createSpamAccountKey, sendCoins, kill, deliver, loseMempool, command, flags, history, chain
<1> QED
  BY <1>1 DEF CountSpamAccounts

-----------------------------------------------------------------------------
(* One lemma for each part of the invariant.                               *)

LEMMA TypesStep ==
  ASSUME Types, Numbered, [Next]_vars
  PROVE  Types'
<1> USE EnsureAssumption
<1>1. CASE \E n \in Ks, f \in Payers, a \in Amounts : ensure(n, f, a)
  BY <1>1 DEF ensure, Types, Numbered, history, chain
<1>2. CASE ensureFromAccHasEnoughCoins
  BY <1>2 DEF ensureFromAccHasEnoughCoins, Types, flags, chain
<1>3. CASE readSequence
  BY <1>3 DEF readSequence, Types, flags, chain
<1>4. CASE createSpamAccountKey
  BY <1>4 DEF createSpamAccountKey, Types, command, flags, chain, history
<1>5. CASE \E err \in BOOLEAN : sendCoins(err)
  <2>1. Transfer \in Transfers
    BY DEF Transfer, Transfers, accountName, Types
  <2>2. mempool' \in [Payers -> Seq(Transfers)]
    <3>1. Append(mempool[from], Transfer) \in Seq(Transfers) /\ mempool \in [Payers -> Seq(Transfers)]
      BY <2>1 DEF Types
    <3> HIDE DEF Transfers
    <3> QED
      BY <1>5, <3>1 DEF sendCoins, BuildSignAndBroadcastMsg
  <2> QED
    BY <1>5, <2>2 DEF sendCoins, Types, flags, history
<1>6. CASE kill
  BY <1>6 DEF kill, Types, command, flags, chain, history
<1>7. CASE \E f \in Payers : deliver(f)
  <2> PICK f \in Payers : deliver(f)
    BY <1>7
  <2>1. mempool' \in [Payers -> Seq(Transfers)] /\ chainSequence' \in [Payers -> Nat]
    BY DEF deliver, Types
  <2>2. Head(mempool[f]) \in Transfers
    BY DEF deliver, Types
  <2>3. fromCoins' \in [Payers -> Nat] /\ DOMAIN funded' = Payers
    <3> DEFINE cost == Head(mempool[f]).amount
    <3>1. cost \in Nat /\ fromCoins \in [Payers -> Nat] /\ DOMAIN funded = Payers
      BY <2>2 DEF Types, Transfers
    <3>2. CASE fromCoins[f] >= cost
      <4>1. /\ fromCoins' = [fromCoins EXCEPT ![f] = @ - cost]
            /\ DOMAIN funded' = DOMAIN funded
        BY <3>2 DEF deliver
      <4> HIDE DEF cost
      <4> QED
        BY <3>1, <3>2, <4>1
    <3>3. CASE ~(fromCoins[f] >= cost)
      BY <3>1, <3>3 DEF deliver
    <3> QED
      BY <3>2, <3>3
  <2> QED
    BY <2>1, <2>3 DEF deliver, Types, command, flags, history
<1>8. CASE loseMempool
  BY <1>8 DEF loseMempool, Types, command, flags, history
<1>9. CASE UNCHANGED vars
  BY <1>9 DEF vars, Types, command, flags, chain, history
<1> QED
  BY <1>1, <1>2, <1>3, <1>4, <1>5, <1>6, <1>7, <1>8, <1>9 DEF Next

LEMMA NumberedStep ==
  ASSUME Types, Numbered, [Next]_vars
  PROVE  Numbered'
<1> DEFINE c == CountSpamAccounts
<1>c. c \in Nat /\ DOMAIN keys = 0..(c - 1)
  BY DEF Numbered
<1>1. CASE createSpamAccountKey /\ pc' = "send"
  <2>1. /\ CountSpamAccounts' = c + 1
        /\ DOMAIN keys' = 0..c
    BY <1>1, KeyStored
  <2>2. /\ pc = "key" /\ pc' = "send" /\ i # k - numExistingAccs
        /\ i' = i /\ numExistingAccs' = numExistingAccs /\ k' = k
    BY <1>1 DEF createSpamAccountKey, command, flags, numAccsToCreate
  <2>3. c = numExistingAccs + i /\ numExistingAccs + i <= k
    BY <2>2 DEF Numbered, Running
  <2> HIDE DEF c
  <2> QED
    BY <1>c, <2>1, <2>2, <2>3 DEF Numbered, Types, Running
<1>2. CASE ~(createSpamAccountKey /\ pc' = "send")
  <2>0. keys' = keys /\ CountSpamAccounts' = c
    BY <1>2, KeysKept
  <2> HIDE DEF c
  <2>n. /\ pc \in {"balance", "sequence"} => i = 0
        /\ pc \in {"balance", "sequence", "key"} => c = numExistingAccs + i
        /\ pc = "send" => c = numExistingAccs + i + 1 /\ numExistingAccs + i < k
        /\ Running => numExistingAccs + i <= k
    BY DEF Numbered, c
  <2> SUFFICES
        /\ pc' \in {"balance", "sequence"} => i' = 0
        /\ pc' \in {"balance", "sequence", "key"} => c = numExistingAccs' + i'
        /\ pc' = "send" => c = numExistingAccs' + i' + 1 /\ numExistingAccs' + i' < k'
        /\ Running' => numExistingAccs' + i' <= k'
    BY <1>c, <2>0 DEF Numbered
  <2>1. CASE \E n \in Ks, f \in Payers, a \in Amounts : ensure(n, f, a)
    <3> PICK n \in Ks, f \in Payers, a \in Amounts : ensure(n, f, a)
      BY <2>1
    <3>1. n \in Nat
      BY EnsureAssumption
    <3>2. /\ k' = n /\ numExistingAccs' = c /\ i' = 0
          /\ pc' = IF n - c <= 0 THEN "done" ELSE "balance"
      BY DEF ensure, c
    <3> QED
      BY <1>c, <3>1, <3>2 DEF Running
  <2>2. CASE ensureFromAccHasEnoughCoins
    BY <1>c, <2>n, <2>2 DEF ensureFromAccHasEnoughCoins, flags, Running
  <2>3. CASE readSequence
    BY <1>c, <2>n, <2>3 DEF readSequence, flags, Running
  <2>4. CASE createSpamAccountKey
    BY <1>2, <1>c, <2>n, <2>4 DEF createSpamAccountKey, command, flags, Running
  <2>5. CASE \E err \in BOOLEAN : sendCoins(err)
    <3>1. /\ pc = "send" /\ pc' \in {"key", "failed"} /\ i' = i + 1
          /\ numExistingAccs' = numExistingAccs /\ k' = k
      BY <2>5 DEF sendCoins, flags
    <3> QED
      BY <1>c, <2>n, <3>1 DEF Types, Running
  <2>6. CASE kill
    BY <2>6 DEF kill, Running
  <2>7. CASE \E f \in Payers : deliver(f)
    BY <2>n, <2>7 DEF deliver, command, flags, Running
  <2>8. CASE loseMempool
    BY <2>n, <2>8 DEF loseMempool, command, flags, Running
  <2>9. CASE UNCHANGED vars
    BY <2>n, <2>9 DEF vars, command, flags, Running
  <2> QED
    BY <2>1, <2>2, <2>3, <2>4, <2>5, <2>6, <2>7, <2>8, <2>9 DEF Next
<1> QED
  BY <1>1, <1>2

LEMMA DatedStep ==
  ASSUME Types, Numbered, Dated, [Next]_vars
  PROVE  Dated'
<1> DEFINE c == CountSpamAccounts
<1>c. c \in Nat /\ DOMAIN keys = 0..(c - 1)
  BY DEF Numbered
<1>d. /\ \A a \in DOMAIN keys : keys[a] \in Nat /\ keys[a] <= runs
      /\ \A a, b \in DOMAIN keys : a <= b => keys[a] <= keys[b]
      /\ Running => \A a \in DOMAIN keys : keys[a] = runs <=> a >= numExistingAccs
  BY DEF Dated
<1>r. runs \in Nat /\ numExistingAccs \in Nat /\ i \in Nat
  BY DEF Types
<1>1. CASE createSpamAccountKey /\ pc' = "send"
  <2>1. /\ DOMAIN keys' = 0..c
        /\ keys'[c] = runs
        /\ \A n \in DOMAIN keys : keys'[n] = keys[n]
    BY <1>1, KeyStored
  <2>2. /\ pc = "key" /\ runs' = runs /\ numExistingAccs' = numExistingAccs
    BY <1>1 DEF createSpamAccountKey, command
  <2>3. c = numExistingAccs + i
    BY <2>2 DEF Numbered
  <2>4. \A a \in DOMAIN keys : keys[a] = runs <=> a >= numExistingAccs
    BY <1>d, <2>2 DEF Running
  <2> HIDE DEF c
  <2>5. ASSUME NEW a \in DOMAIN keys'
        PROVE  /\ keys'[a] \in Nat /\ keys'[a] <= runs
               /\ keys'[a] = runs <=> a >= numExistingAccs
    <3>1. CASE a = c
      BY <1>r, <2>1, <2>3, <3>1
    <3>2. CASE a # c
      <4>1. a \in DOMAIN keys
        BY <1>c, <2>1, <3>2
      <4> QED
        BY <1>d, <2>1, <2>4, <4>1
    <3> QED
      BY <3>1, <3>2
  <2>6. ASSUME NEW a \in DOMAIN keys', NEW b \in DOMAIN keys', a <= b
        PROVE  keys'[a] <= keys'[b]
    <3>1. CASE b = c
      BY <2>1, <2>5, <3>1
    <3>2. CASE b # c
      <4>1. a \in DOMAIN keys /\ b \in DOMAIN keys
        BY <1>c, <2>1, <2>6, <3>2
      <4> QED
        BY <1>d, <2>1, <2>6, <4>1
    <3> QED
      BY <3>1, <3>2
  <2> QED
    BY <2>2, <2>5, <2>6 DEF Dated
<1>2. CASE ~(createSpamAccountKey /\ pc' = "send")
  <2>0. keys' = keys
    BY <1>2, KeysKept
  <2>1. CASE \E n \in Ks, f \in Payers, a \in Amounts : ensure(n, f, a)
    <3>1. runs' = runs + 1 /\ numExistingAccs' = c
      BY <2>1 DEF ensure
    <3>2. \A a \in DOMAIN keys : keys[a] <= runs + 1 /\ keys[a] # runs + 1 /\ ~(a >= c)
      <4> HIDE DEF c
      <4> QED
        BY <1>c, <1>d, <1>r
    <3> QED
      BY <1>d, <2>0, <3>1, <3>2 DEF Dated
  <2>2. CASE ~\E n \in Ks, f \in Payers, a \in Amounts : ensure(n, f, a)
    <3>1. /\ runs' = runs /\ numExistingAccs' = numExistingAccs
          /\ Running' => Running
      BY <2>2 DEF Next, vars, ensureFromAccHasEnoughCoins, readSequence, createSpamAccountKey,
         sendCoins, kill, deliver, loseMempool, command, flags, history, chain, Running
    <3> QED
      BY <1>d, <2>0, <3>1 DEF Dated
  <2> QED
    BY <2>1, <2>2
<1> QED
  BY <1>1, <1>2

-----------------------------------------------------------------------------
(* The chain and the mempool.                                              *)

(* What the named facts say of a payer in a state that satisfies the parts *)
(* above.                                                                  *)
LEMMA Placed ==
  ASSUME Types, Numbered, AllHaveKeys, NEW f \in Payers
  PROVE  /\ CountSpamAccounts \in Nat
         /\ DOMAIN keys \subseteq Nat
         /\ mempool[f] \in Seq(Transfers) /\ Len(mempool[f]) \in Nat
         /\ Positions(f) = 1..Len(mempool[f])
         /\ \A p \in 1..Len(mempool[f]) :
              mempool[f][p].to \in DOMAIN keys /\ mempool[f][p].amount \in Nat \ {0}
         /\ funded[f] \subseteq DOMAIN keys
         /\ fromCoins[f] \in Nat /\ chainSequence[f] \in Nat
<1>1. mempool[f] \in Seq(Transfers) /\ Len(mempool[f]) \in Nat
  BY DEF Types
<1>2. ASSUME NEW p \in 1..Len(mempool[f]) PROVE mempool[f][p].amount \in Nat \ {0}
  <2>1. mempool[f][p] \in Transfers
    BY <1>1
  <2> QED
    BY <2>1, EnsureAssumption DEF Transfers
<1> QED
  BY <1>1, <1>2 DEF Types, Numbered, AllHaveKeys, Positions

(* An accepted transfer is appended; otherwise the mempool stays.          *)
LEMMA TransferSent ==
  ASSUME Types, NEW err, sendCoins(err)
  PROVE  /\ \A f \in Payers \ {from} : mempool'[f] = mempool[f]
         /\ \/ mempool'[from] = mempool[from]
            \/ /\ fromAccountSequence = chainSequence[from] + Len(mempool[from])
               /\ mempool'[from] = Append(mempool[from], Transfer)
               /\ Len(mempool'[from]) = Len(mempool[from]) + 1
               /\ \A p \in 1..Len(mempool[from]) : mempool'[from][p] = mempool[from][p]
               /\ mempool'[from][Len(mempool[from]) + 1] =
                    [to |-> i + numExistingAccs, amount |-> amount]
<1>1. CASE mempool' = mempool
  BY <1>1
<1>2. CASE mempool' # mempool
  <2>1. /\ fromAccountSequence = chainSequence[from] + Len(mempool[from])
        /\ mempool' = [mempool EXCEPT ![from] = Append(@, Transfer)]
    BY <1>2 DEF sendCoins, BuildSignAndBroadcastMsg, Accepts
  <2>2. mempool[from] \in Seq(Transfers) /\ mempool'[from] = Append(mempool[from], Transfer)
    BY <2>1 DEF Types
  <2>3. \A f \in Payers \ {from} : mempool'[f] = mempool[f]
    BY <2>1 DEF Types
  <2>4. Transfer = [to |-> i + numExistingAccs, amount |-> amount]
    BY DEF Transfer, accountName
  <2> DEFINE q == mempool[from]
  <2> HIDE DEF q
  <2>5. \A t : /\ Len(Append(q, t)) = Len(q) + 1
               /\ \A p \in 1..Len(q) : Append(q, t)[p] = q[p]
               /\ Append(q, t)[Len(q) + 1] = t
    <3>1. q \in Seq(Transfers)
      BY <2>2 DEF q
    <3> QED
      BY <3>1
  <2> QED
    BY <2>1, <2>2, <2>3, <2>4, <2>5 DEF q
<1> QED
  BY <1>1, <1>2

(* The first transfer leaves the mempool.                                  *)
LEMMA TransferTaken ==
  ASSUME Types, NEW f \in Payers, deliver(f)
  PROVE  /\ Len(mempool[f]) >= 1 /\ mempool[f] # <<>>
         /\ mempool'[f] = Tail(mempool[f])
         /\ Len(mempool'[f]) = Len(mempool[f]) - 1
         /\ \A p \in 1..Len(mempool'[f]) : mempool'[f][p] = mempool[f][p + 1]
         /\ chainSequence'[f] = chainSequence[f] + 1
         /\ \/ /\ fromCoins[f] >= mempool[f][1].amount
               /\ fromCoins'[f] = fromCoins[f] - mempool[f][1].amount
               /\ funded'[f] = funded[f] \cup {mempool[f][1].to}
            \/ /\ ~(fromCoins[f] >= mempool[f][1].amount)
               /\ fromCoins'[f] = fromCoins[f] /\ funded'[f] = funded[f]
         /\ \A g \in Payers \ {f} :
              /\ mempool'[g] = mempool[g] /\ chainSequence'[g] = chainSequence[g]
              /\ fromCoins'[g] = fromCoins[g] /\ funded'[g] = funded[g]
<1>1. /\ mempool[f] # <<>> /\ mempool[f] \in Seq(Transfers)
      /\ mempool'[f] = Tail(mempool[f])
      /\ chainSequence'[f] = chainSequence[f] + 1
      /\ \A g \in Payers \ {f} :
           mempool'[g] = mempool[g] /\ chainSequence'[g] = chainSequence[g]
  BY DEF deliver, Types
<1>2. /\ Len(mempool[f]) >= 1
      /\ Len(mempool'[f]) = Len(mempool[f]) - 1
      /\ \A p \in 1..Len(mempool'[f]) : mempool'[f][p] = mempool[f][p + 1]
      /\ Head(mempool[f]) = mempool[f][1]
  BY <1>1
<1>3. CASE fromCoins[f] >= mempool[f][1].amount
  <2>1. /\ fromCoins' = [fromCoins EXCEPT ![f] = @ - mempool[f][1].amount]
        /\ funded' = [funded EXCEPT ![f] = @ \cup {mempool[f][1].to}]
    BY <1>2, <1>3 DEF deliver
  <2>2. fromCoins \in [Payers -> Nat] /\ DOMAIN funded = Payers
    BY DEF Types
  <2> QED
    BY <1>1, <1>2, <1>3, <2>1, <2>2
<1>4. CASE ~(fromCoins[f] >= mempool[f][1].amount)
  BY <1>1, <1>2, <1>4 DEF deliver
<1> QED
  BY <1>3, <1>4

(* What a step does to the chain and the mempool of a payer.               *)
LEMMA ChainStep ==
  ASSUME Types, [Next]_vars, NEW f \in Payers
  PROVE  \/ /\ mempool'[f] = mempool[f]
            /\ UNCHANGED <<funded[f], chainSequence[f], fromCoins[f]>>
         \/ /\ mempool'[f] = <<>>
            /\ UNCHANGED <<funded[f], chainSequence[f], fromCoins[f]>>
         \/ deliver(f)
         \/ f = from /\ \E err \in BOOLEAN : sendCoins(err)
<1>1. CASE \E g \in Payers : deliver(g)
  BY <1>1, TransferTaken
<1>2. CASE \E err \in BOOLEAN : sendCoins(err)
  <2> PICK err \in BOOLEAN : sendCoins(err)
    BY <1>2
  <2>1. UNCHANGED <<funded, chainSequence, fromCoins>>
    BY DEF sendCoins
  <2>2. f # from => mempool'[f] = mempool[f]
    BY TransferSent
  <2> QED
    BY <2>1, <2>2
<1>3. CASE loseMempool
  BY <1>3 DEF loseMempool
<1>4. CASE UNCHANGED chain
  BY <1>4 DEF chain
<1> QED
  BY <1>1, <1>2, <1>3, <1>4 DEF Next, vars, ensure, ensureFromAccHasEnoughCoins,
     readSequence, createSpamAccountKey, kill

(* The account in hand is the last one, and has a key of this run.         *)
LEMMA InHand ==
  ASSUME Types, Numbered, Dated, pc = "send"
  PROVE  i + numExistingAccs \in DOMAIN keys /\ keys[i + numExistingAccs] = runs
<1>1. CountSpamAccounts = numExistingAccs + i + 1 /\ DOMAIN keys = 0..(CountSpamAccounts - 1)
  BY DEF Numbered
<1>2. i + numExistingAccs \in DOMAIN keys /\ i + numExistingAccs >= numExistingAccs
  BY <1>1 DEF Types
<1> QED
  BY <1>2 DEF Dated, Running

(* A key that is stored stays as it is.                                    *)
LEMMA DatesKept ==
  ASSUME Types, Numbered, [Next]_vars
  PROVE  \A n \in DOMAIN keys : n \in DOMAIN keys' /\ keys'[n] = keys[n]
<1>1. CASE createSpamAccountKey /\ pc' = "send"
  <2>1. CountSpamAccounts \in Nat /\ DOMAIN keys = 0..(CountSpamAccounts - 1)
    BY DEF Numbered
  <2>2. /\ DOMAIN keys' = 0..CountSpamAccounts
        /\ \A n \in DOMAIN keys : keys'[n] = keys[n]
    BY <1>1, KeyStored
  <2> QED
    BY <2>1, <2>2
<1>2. CASE ~(createSpamAccountKey /\ pc' = "send")
  BY <1>2, KeysKept
<1> QED
  BY <1>1, <1>2

LEMMA AllHaveKeysStep ==
  ASSUME Types, Numbered, Dated, AllHaveKeys, [Next]_vars
  PROVE  AllHaveKeys'
<1>1. DOMAIN keys \subseteq DOMAIN keys'
  BY DatesKept
<1> SUFFICES ASSUME NEW f \in Payers
             PROVE  /\ funded'[f] \subseteq DOMAIN keys
                    /\ \A p \in 1..Len(mempool'[f]) : mempool'[f][p].to \in DOMAIN keys
  BY <1>1 DEF AllHaveKeys, Positions
<1>2. /\ funded[f] \subseteq DOMAIN keys /\ Len(mempool[f]) \in Nat
      /\ \A p \in 1..Len(mempool[f]) : mempool[f][p].to \in DOMAIN keys
  BY Placed
<1>3. CASE mempool'[f] = mempool[f] /\ funded'[f] = funded[f]
  BY <1>2, <1>3
<1>4. CASE mempool'[f] = <<>> /\ funded'[f] = funded[f]
  BY <1>2, <1>4
<1>5. CASE deliver(f)
  <2>1. \A p \in 1..Len(mempool'[f]) : mempool'[f][p].to \in DOMAIN keys
    <3>1. /\ Len(mempool'[f]) = Len(mempool[f]) - 1
          /\ \A p \in 1..Len(mempool'[f]) : mempool'[f][p] = mempool[f][p + 1]
      BY <1>5, TransferTaken
    <3>2. \A p \in 1..Len(mempool'[f]) : p + 1 \in 1..Len(mempool[f])
      BY <1>2, <3>1
    <3> QED
      BY <1>2, <3>1, <3>2
  <2>2. /\ funded'[f] = funded[f] \/ funded'[f] = funded[f] \cup {mempool[f][1].to}
        /\ 1 \in 1..Len(mempool[f])
    BY <1>2, <1>5, TransferTaken
  <2> QED
    BY <1>2, <2>1, <2>2
<1>6. CASE f = from /\ \E err \in BOOLEAN : sendCoins(err)
  <2> PICK err \in BOOLEAN : sendCoins(err)
    BY <1>6
  <2>1. i + numExistingAccs \in DOMAIN keys /\ funded' = funded
    BY InHand DEF sendCoins
  <2>2. CASE mempool'[f] = mempool[f]
    BY <1>2, <2>1, <2>2
  <2>3. CASE mempool'[f] # mempool[f]
    <3>1. /\ Len(mempool'[f]) = Len(mempool[f]) + 1
          /\ \A p \in 1..Len(mempool[f]) : mempool'[f][p] = mempool[f][p]
          /\ mempool'[f][Len(mempool[f]) + 1].to = i + numExistingAccs
      BY <1>6, <2>3, TransferSent
    <3>2. ASSUME NEW p \in 1..Len(mempool'[f]) PROVE mempool'[f][p].to \in DOMAIN keys
      <4>1. p \in 1..Len(mempool[f]) \/ p = Len(mempool[f]) + 1
        BY <1>2, <3>1
      <4> QED
        BY <1>2, <2>1, <3>1, <4>1
    <3> QED
      BY <1>2, <2>1, <3>2
  <2> QED
    BY <2>2, <2>3
<1> QED
  BY <1>3, <1>4, <1>5, <1>6, ChainStep

LEMMA TogetherStep ==
  ASSUME Types, Numbered, Dated, AllHaveKeys, AllTogether, NextPaid, [Next]_vars
  PROVE  AllTogether'
<1> SUFFICES ASSUME NEW f \in Payers PROVE Together(funded[f])'
  BY DEF AllTogether
<1>1. \A n \in DOMAIN keys : n \in DOMAIN keys' /\ keys'[n] = keys[n]
  BY DatesKept
<1>f. funded[f] \subseteq DOMAIN keys /\ DOMAIN keys \subseteq Nat
  BY Placed
<1>o. \A l, n \in funded[f] : keys[l] = keys[n] => \A m \in l..n : m \in funded[f]
  BY DEF AllTogether, Together
<1>2. CASE funded'[f] = funded[f]
  BY <1>1, <1>2, <1>f, <1>o DEF Together
<1>3. CASE funded'[f] # funded[f]
  <2>1. deliver(f)
    BY <1>3, ChainStep DEF sendCoins
  <2> DEFINE a == mempool[f][1].to
             F == funded[f]
  <2>2. /\ fromCoins[f] >= mempool[f][1].amount /\ funded'[f] = F \cup {a}
        /\ mempool[f] # <<>> /\ Len(mempool[f]) >= 1
    BY <1>3, <2>1, TransferTaken
  <2>3. a \in DOMAIN keys
    BY <2>2, Placed
  <2>4. \A n \in F : /\ keys[n] <= keys[a]
                     /\ keys[n] = keys[a] => n < a /\ a - 1 \in F
    BY <2>2 DEF NextPaid
  <2>d. \A x, y \in DOMAIN keys : x <= y => keys[x] <= keys[y]
    BY DEF Dated
  <2>k. \A x \in DOMAIN keys : keys[x] \in Nat
    BY DEF Dated
  <2>o. F \subseteq DOMAIN keys /\ \A l, n \in F : keys[l] = keys[n] => \A m \in l..n : m \in F
    BY <1>f, <1>o
  <2> HIDE DEF a, F
  <2>5. ASSUME NEW l \in F \cup {a}, NEW n \in F \cup {a},
               keys[l] = keys[n], NEW m \in l..n
        PROVE  m \in F \cup {a}
    <3>1. CASE l \in F /\ n \in F
      BY <2>5, <2>o, <3>1
    <3>2. CASE l \in F /\ n = a
      <4>1. l < a /\ a - 1 \in F
        BY <2>4, <2>5, <3>2
      <4>2. keys[a - 1] = keys[l]
        <5>1. l <= a - 1 /\ a - 1 <= a
          BY <1>f, <2>3, <2>o, <3>2, <4>1
        <5>2. keys[l] <= keys[a - 1] /\ keys[a - 1] <= keys[a]
          BY <2>3, <2>d, <2>o, <3>2, <4>1, <5>1
        <5> QED
          BY <2>3, <2>5, <2>k, <2>o, <3>2, <4>1, <5>2
      <4>3. CASE m = a
        BY <4>3
      <4>4. CASE m # a
        <5>1. m \in l..(a - 1)
          BY <1>f, <2>3, <2>o, <3>2, <4>4
        <5> QED
          BY <2>o, <3>2, <4>1, <4>2, <5>1
      <4> QED
        BY <4>3, <4>4
    <3>3. CASE l = a /\ n \in F
      BY <1>f, <2>3, <2>4, <2>5, <2>o, <3>3
    <3>4. CASE l = a /\ n = a
      BY <1>f, <2>3, <3>4
    <3> QED
      BY <3>1, <3>2, <3>3, <3>4
  <2>6. \A x \in F \cup {a} : keys'[x] = keys[x]
    BY <1>1, <2>3, <2>o
  <2> QED
    BY <2>2, <2>5, <2>6 DEF Together
<1> QED
  BY <1>2, <1>3

LEMMA QueuedStep ==
  ASSUME Types, Numbered, Dated, AllHaveKeys, Queued, Sent, [Next]_vars
  PROVE  Queued'
<1> SUFFICES ASSUME NEW f \in Payers,
                    NEW p \in 1..Len(mempool'[f]), NEW q \in 1..Len(mempool'[f]), p <= q
             PROVE  Follows(mempool[f][p], mempool[f][q], q - p)'
  BY DEF Queued, Positions
<1> DEFINE s == mempool[f]
           len == Len(s)
<1>p. /\ len \in Nat /\ DOMAIN keys \subseteq Nat
      /\ \A o \in 1..len : s[o].to \in DOMAIN keys
  BY Placed
<1>1. ASSUME NEW o \in 1..len, NEW r \in 1..len, o <= r
      PROVE  /\ Follows(s[o], s[r], r - o)
             /\ keys'[s[o].to] = keys[s[o].to] /\ keys'[s[r].to] = keys[s[r].to]
  <2>1. Follows(s[o], s[r], r - o)
    BY <1>1 DEF Queued, Positions
  <2> QED
    BY <1>1, <1>p, <2>1, DatesKept
<1>2. CASE mempool'[f] = s
  BY <1>1, <1>2 DEF Follows
<1>3. CASE mempool'[f] = <<>>
  BY <1>3
<1>4. CASE deliver(f)
  <2>1. /\ Len(mempool'[f]) = len - 1
        /\ \A o \in 1..Len(mempool'[f]) : mempool'[f][o] = s[o + 1]
    BY <1>4, TransferTaken
  <2>2. /\ p + 1 \in 1..len /\ q + 1 \in 1..len
        /\ p + 1 <= q + 1 /\ (q + 1) - (p + 1) = q - p
    BY <1>p, <2>1
  <2>3. mempool'[f][p] = s[p + 1] /\ mempool'[f][q] = s[q + 1]
    BY <2>1
  <2> HIDE DEF s, len
  <2> QED
    BY <1>1, <2>2, <2>3 DEF Follows
<1>5. CASE f = from /\ (\E err \in BOOLEAN : sendCoins(err)) /\ mempool'[f] # s
  <2> PICK err \in BOOLEAN : sendCoins(err)
    BY <1>5
  <2> DEFINE a == i + numExistingAccs
             t == [to |-> a, amount |-> amount]
  <2>1. /\ fromAccountSequence = chainSequence[f] + len
        /\ Len(mempool'[f]) = len + 1
        /\ \A o \in 1..len : mempool'[f][o] = s[o]
        /\ mempool'[f][len + 1] = t
    BY <1>5, TransferSent
  <2>2. keys' = keys /\ pc = "send"
    BY DEF sendCoins
  <2>3. a \in DOMAIN keys /\ keys[a] = runs
    BY <2>2, InHand
  <2>4. \A x \in DOMAIN keys : keys[x] \in Nat /\ keys[x] <= runs
    BY DEF Dated
  <2>5. \A o \in 1..len : keys[s[o].to] = runs =>
          s[o].to = Expected + o - 1 /\ s[o].amount = amount
    BY <1>5, <2>2 DEF Sent, Looping, Positions
  <2>n. i \in Nat /\ numExistingAccs \in Nat /\ chainSequence[f] \in Nat /\ runs \in Nat /\ a \in Nat
    BY DEF Types
  <2>t. t.to = a /\ t.amount = amount
    OBVIOUS
  <2> HIDE DEF s, t
  <2>6. ASSUME NEW o \in 1..len PROVE Follows(s[o], t, len + 1 - o)
    <3>1. keys[s[o].to] <= runs
      BY <1>p, <2>4
    <3>2. ASSUME keys[s[o].to] = runs PROVE a - s[o].to = len + 1 - o
      <4>1. s[o].to = Expected + o - 1
        BY <2>5, <3>2
      <4>2. Expected = a - len
        BY <1>5, <1>p, <2>1, <2>n DEF Expected
      <4> QED
        BY <1>p, <2>n, <4>1, <4>2
    <3> HIDE DEF a
    <3> QED
      BY <2>3, <2>5, <2>t, <3>1, <3>2 DEF Follows
  <2>7. Follows(t, t, 0)
    <3> HIDE DEF a
    <3> QED
      BY <2>3, <2>n, <2>t DEF Follows
  <2> HIDE DEF len, a
  <2>8. Follows(mempool'[f][p], mempool'[f][q], q - p)
    <3>1. CASE q \in 1..len
      <4>1. p \in 1..len
        BY <1>p, <2>1, <3>1
      <4> QED
        BY <1>1, <2>1, <3>1, <4>1
    <3>2. CASE q = len + 1 /\ p \in 1..len
      <4>1. mempool'[f][p] = s[p] /\ mempool'[f][q] = t
        BY <2>1, <3>2
      <4>2. Follows(s[p], t, len + 1 - p)
        BY <2>6, <3>2
      <4>3. q - p = len + 1 - p
        BY <1>p, <3>2
      <4> QED
        BY <4>1, <4>2, <4>3
    <3>3. CASE q = len + 1 /\ p = len + 1
      <4>1. q - p = 0
        BY <1>p, <3>3
      <4> QED
        BY <2>1, <2>7, <3>3, <4>1
    <3> QED
      BY <1>p, <2>1, <3>1, <3>2, <3>3
  <2> QED
    BY <2>2, <2>8 DEF Follows
<1> HIDE DEF len
<1> QED
  BY <1>2, <1>3, <1>4, <1>5, ChainStep

LEMMA NextPaidStep ==
  ASSUME Types, Numbered, Dated, AllHaveKeys, Queued, NextPaid, PaidInOrder, [Next]_vars
  PROVE  NextPaid'
<1> SUFFICES ASSUME NEW f \in Payers, mempool'[f] # <<>>, NEW n \in funded'[f]
             PROVE  /\ keys'[n] <= keys'[mempool'[f][1].to]
                    /\ fromCoins'[f] >= mempool'[f][1].amount
                         /\ keys'[n] = keys'[mempool'[f][1].to] =>
                         n < mempool'[f][1].to /\ mempool'[f][1].to - 1 \in funded'[f]
  BY DEF NextPaid
<1> DEFINE s == mempool[f]
           F == funded[f]
<1>1. \A x \in DOMAIN keys : keys'[x] = keys[x]
  BY DatesKept
<1>t. /\ DOMAIN keys \subseteq Nat /\ s \in Seq(Transfers) /\ Len(s) \in Nat
      /\ \A p \in 1..Len(s) : s[p].to \in DOMAIN keys /\ s[p].amount \in Nat
      /\ F \subseteq DOMAIN keys /\ fromCoins[f] \in Nat
  BY Placed
<1>k. \A x \in DOMAIN keys : keys[x] \in Nat /\ keys[x] <= runs
  BY DEF Dated
<1>n. s # <<>> => \A x \in F :
        /\ keys[x] <= keys[s[1].to]
        /\ fromCoins[f] >= s[1].amount /\ keys[x] = keys[s[1].to] =>
             x < s[1].to /\ s[1].to - 1 \in F
  BY DEF NextPaid
<1>2. CASE mempool'[f] = s /\ UNCHANGED <<funded[f], fromCoins[f]>>
  <2>1. s # <<>> /\ s[1].to \in DOMAIN keys /\ n \in F
    BY <1>2, <1>t
  <2> HIDE DEF s, F
  <2>2. keys'[n] = keys[n] /\ keys'[s[1].to] = keys[s[1].to]
    BY <1>1, <1>t, <2>1
  <2> QED
    BY <1>2, <1>n, <2>1, <2>2 DEF F
<1>3. CASE deliver(f)
  <2> DEFINE a == s[1].to
             b == s[2].to
  <2>1. /\ Len(s) >= 1 /\ s # <<>>
        /\ Len(mempool'[f]) = Len(s) - 1
        /\ \A p \in 1..Len(mempool'[f]) : mempool'[f][p] = s[p + 1]
        /\ \/ /\ fromCoins[f] >= s[1].amount
              /\ funded'[f] = F \cup {a}
           \/ /\ ~(fromCoins[f] >= s[1].amount)
              /\ fromCoins'[f] = fromCoins[f] /\ funded'[f] = F
    BY <1>3, TransferTaken
  <2>2. keys' = keys
    BY <1>3 DEF deliver
  <2>3. mempool'[f] = Tail(s)
    BY <1>3, TransferTaken
  <2>4. Len(s) >= 2 /\ mempool'[f][1] = s[2]
    BY <1>t, <2>1, <2>3
  <2>5. a \in DOMAIN keys /\ b \in DOMAIN keys
    BY <1>t, <2>4
  <2>6. /\ keys[a] <= keys[b]
        /\ keys[a] = keys[b] => b - a = 1 /\ s[1].amount = s[2].amount
    <3>1. 1 \in 1..Len(s) /\ 2 \in 1..Len(s) /\ 1 <= 2 /\ 2 - 1 = 1
      BY <1>t, <2>4
    <3>2. Follows(s[1], s[2], 2 - 1)
      BY <3>1 DEF Queued, Positions
    <3> QED
      BY <3>1, <3>2 DEF Follows
  <2>7. \A x \in F : keys[x] <= keys[a]
    BY <1>n, <2>1
  <2>8. fromCoins[f] >= s[1].amount =>
          \A x \in F : keys[x] = keys[a] => x < a
    BY <1>n, <2>1
  <2>p. fromCoins'[f] >= s[2].amount /\ keys[a] = keys[b] =>
          fromCoins[f] >= s[1].amount /\ funded'[f] = F \cup {a}
    BY <2>1, <2>6
  <2>f. n \in F \/ n = a
    BY <2>1
  <2> HIDE DEF a, b, F
  <2>9. n \in DOMAIN keys /\ keys[n] <= keys[a]
    BY <1>k, <1>t, <2>5, <2>7, <2>f
  <2>10. keys[n] <= keys[b]
    BY <1>k, <2>5, <2>6, <2>9
  <2>11. ASSUME fromCoins'[f] >= s[2].amount, keys[n] = keys[b]
         PROVE  n < b /\ b - 1 \in funded'[f]
    <3>1. keys[a] = keys[b] /\ keys[n] = keys[a]
      BY <1>k, <2>5, <2>6, <2>9, <2>11
    <3>2. n <= a /\ a \in funded'[f] /\ b - a = 1
      BY <1>t, <2>5, <2>6, <2>8, <2>9, <2>11, <2>f, <2>p, <3>1
    <3>3. n < b /\ b - 1 = a
      BY <1>t, <2>5, <2>9, <3>2
    <3> QED
      BY <3>2, <3>3
  <2> QED
    BY <2>2, <2>4, <2>10, <2>11 DEF b
<1>4. CASE f = from /\ (\E err \in BOOLEAN : sendCoins(err)) /\ mempool'[f] # s
  <2> PICK err \in BOOLEAN : sendCoins(err)
    BY <1>4
  <2> DEFINE len == Len(s)
             a == i + numExistingAccs
  <2>1. /\ fromAccountSequence = chainSequence[f] + len
        /\ Len(mempool'[f]) = len + 1
        /\ \A p \in 1..len : mempool'[f][p] = s[p]
        /\ mempool'[f][len + 1] = [to |-> a, amount |-> amount]
    BY <1>4, TransferSent
  <2>2. keys' = keys /\ pc = "send" /\ funded' = funded /\ fromCoins' = fromCoins
    BY DEF sendCoins
  <2>3. CASE s # <<>>
    <3>1. mempool'[f][1] = s[1]
      BY <1>t, <2>1, <2>3
    <3> QED
      BY <1>n, <2>2, <2>3, <3>1
  <2>4. CASE s = <<>>
    <3>1. mempool'[f][1].to = a /\ mempool'[f][1].amount = amount
          /\ fromAccountSequence = chainSequence[f] /\ len = 0
      BY <2>1, <2>4 DEF Types
    <3>2. a \in DOMAIN keys /\ keys[a] = runs
      BY <2>2, InHand
    <3>3. Expected = a
      BY <1>4, <3>1 DEF Expected, Types
    <3>4. fromCoins[f] >= amount =>
            \A x \in F : keys[x] = runs => a - 1 \in F /\ x < a
      <4>1. fromAccountSequence <= chainSequence[f] + len
        BY <3>1 DEF Types
      <4> QED
        BY <1>4, <2>2, <3>3, <4>1 DEF PaidInOrder, Looping
    <3>5. n \in F /\ keys[n] <= runs
      BY <1>k, <1>t, <2>2
    <3> HIDE DEF a, F, len
    <3> QED
      BY <1>4, <2>2, <3>1, <3>2, <3>4, <3>5 DEF F
  <2> QED
    BY <2>3, <2>4
<1>5. CASE f = from /\ (\E err \in BOOLEAN : sendCoins(err)) /\ mempool'[f] = s
  BY <1>2, <1>5 DEF sendCoins
<1> QED
  BY <1>2, <1>3, <1>4, <1>5, ChainStep

LEMMA SentStep ==
  ASSUME Types, Numbered, Dated, AllHaveKeys, Sent, [Next]_vars
  PROVE  Sent'
<1> DEFINE c == CountSpamAccounts
           s == mempool[from]
           e == Expected
<1>c. c \in Nat /\ DOMAIN keys = 0..(c - 1)
  BY DEF Numbered
<1>1. \A n \in DOMAIN keys : keys'[n] = keys[n]
  BY DatesKept
<1>f. from \in Payers
  BY DEF Types
<1>t. /\ Len(s) \in Nat /\ DOMAIN keys \subseteq Nat
      /\ i \in Nat /\ numExistingAccs \in Nat
      /\ chainSequence[from] \in Nat /\ fromAccountSequence \in Nat
      /\ \A p \in 1..Len(s) : s[p].to \in DOMAIN keys
  BY <1>f, Placed DEF Types
<1>n. /\ i \in Nat /\ numExistingAccs \in Nat
      /\ chainSequence[from] \in Nat /\ fromAccountSequence \in Nat
  BY <1>t
<1>e. e = chainSequence[from] + numExistingAccs + i - fromAccountSequence /\ e \in Int
  BY <1>t DEF Expected
<1>s. Looping => \A p \in 1..Len(s) : keys[s[p].to] = runs =>
        s[p].to = e + p - 1 /\ s[p].amount = amount
  BY DEF Sent, Positions
<1>q. ASSUME Looping' =>
               \A p \in 1..Len(mempool'[from']) : keys'[mempool'[from'][p].to] = runs' =>
                 mempool'[from'][p].to = e' + p - 1 /\ mempool'[from'][p].amount = amount'
      PROVE  Sent'
  BY <1>q DEF Sent, Positions
<1> HIDE DEF c, e
<1>2. CASE readSequence
  <2>1. /\ pc = "sequence" /\ mempool' = mempool /\ keys' = keys /\ runs' = runs
        /\ from' = from
    BY <1>2 DEF readSequence, flags, chain
  <2>2. c = numExistingAccs /\ \A a \in DOMAIN keys : keys[a] = runs => a >= numExistingAccs
    BY <1>t, <2>1 DEF Numbered, Dated, Running, c
  <2>3. \A a \in DOMAIN keys : keys[a] # runs
    BY <1>c, <1>t, <2>2
  <2>4. \A p \in 1..Len(mempool'[from']) : keys'[mempool'[from'][p].to] # runs'
    BY <1>t, <2>1, <2>3
  <2> QED
    BY <1>q, <2>4
<1>3. CASE deliver(from)
  <2>1. /\ Len(mempool'[from]) = Len(s) - 1
        /\ \A p \in 1..Len(mempool'[from]) : mempool'[from][p] = s[p + 1]
        /\ chainSequence'[from] = chainSequence[from] + 1
    BY <1>f, <1>3, TransferTaken
  <2>2. /\ UNCHANGED <<keys, runs, i, numExistingAccs, fromAccountSequence, from, amount>>
        /\ Looping' = Looping
    BY <1>3 DEF deliver, command, flags, Looping
  <2>3. e' = e + 1
    <3>1. chainSequence'[from] = chainSequence[from] + 1
      BY <2>1
    <3> QED
      BY <1>e, <1>n, <2>2, <3>1 DEF e, Expected
  <2>4. ASSUME Looping, NEW p \in 1..Len(mempool'[from]), keys[mempool'[from][p].to] = runs
        PROVE  mempool'[from][p].to = e' + p - 1 /\ mempool'[from][p].amount = amount
    <3>1. p + 1 \in 1..Len(s) /\ mempool'[from][p] = s[p + 1]
      BY <1>t, <2>1
    <3> HIDE DEF s
    <3>2. mempool'[from][p].to = e + (p + 1) - 1 /\ mempool'[from][p].amount = amount
      BY <1>s, <2>4, <3>1
    <3> QED
      BY <1>e, <2>3, <3>2
  <2> QED
    BY <1>q, <2>2, <2>4
<1>4. CASE \E err \in BOOLEAN : sendCoins(err)
  <2> PICK err \in BOOLEAN : sendCoins(err)
    BY <1>4
  <2> DEFINE len == Len(s)
  <2>1. /\ UNCHANGED <<keys, runs, numExistingAccs, chainSequence, from, amount>>
        /\ i' = i + 1 /\ fromAccountSequence' = fromAccountSequence + 1 /\ Looping
    BY DEF sendCoins, flags, Looping
  <2>2. e' = e
    BY <1>e, <1>t, <2>1 DEF e, Expected
  <2>3. CASE mempool'[from] = s
    BY <1>q, <1>s, <2>1, <2>2, <2>3
  <2>4. CASE mempool'[from] # s
    <3>1. /\ fromAccountSequence = chainSequence[from] + len
          /\ Len(mempool'[from]) = len + 1
          /\ \A p \in 1..len : mempool'[from][p] = s[p]
          /\ mempool'[from][len + 1] = [to |-> i + numExistingAccs, amount |-> amount]
      BY <2>4, TransferSent
    <3>2. len \in Nat /\ e + (len + 1) - 1 = i + numExistingAccs
      <4>1. fromAccountSequence = chainSequence[from] + len /\ len \in Nat
        BY <1>t, <3>1
      <4> HIDE DEF len
      <4> QED
        BY <1>e, <1>n, <4>1
    <3>3. ASSUME NEW p \in 1..(len + 1), keys[mempool'[from][p].to] = runs
          PROVE  mempool'[from][p].to = e + p - 1 /\ mempool'[from][p].amount = amount
      <4>1. CASE p \in 1..len
        <5>1. keys[s[p].to] = runs /\ mempool'[from][p] = s[p]
          BY <3>1, <3>3, <4>1
        <5> QED
          BY <1>s, <2>1, <4>1, <5>1
      <4>2. CASE p = len + 1
        <5>1. /\ mempool'[from][p].to = i + numExistingAccs
              /\ mempool'[from][p].amount = amount
          BY <3>1, <4>2
        <5> QED
          BY <3>2, <4>2, <5>1
      <4> QED
        BY <3>2, <4>1, <4>2
    <3> QED
      BY <1>q, <2>1, <2>2, <3>1, <3>3
  <2> QED
    BY <2>3, <2>4
<1>5. CASE mempool'[from'] = <<>>
  BY <1>5 DEF Sent, Positions
<1>6. CASE /\ mempool'[from] = s /\ chainSequence'[from] = chainSequence[from]
           /\ UNCHANGED <<runs, i, numExistingAccs, fromAccountSequence, from, amount>>
           /\ Looping' => Looping
  <2>1. e' = e
    BY <1>6 DEF e, Expected
  <2>2. ASSUME Looping, NEW p \in 1..Len(s), keys'[s[p].to] = runs
        PROVE  s[p].to = e + p - 1 /\ s[p].amount = amount
    <3>1. keys[s[p].to] = runs
      BY <1>1, <1>t, <2>2
    <3> QED
      BY <1>s, <2>2, <3>1
  <2> QED
    BY <1>6, <1>q, <2>1, <2>2
<1>7. CASE \E n \in Ks, f \in Payers, a \in Amounts : ensure(n, f, a)
  BY <1>7 DEF ensure, Sent, Looping
<1>8. CASE ensureFromAccHasEnoughCoins
  BY <1>8 DEF ensureFromAccHasEnoughCoins, Sent, Looping
<1>9. CASE createSpamAccountKey
  BY <1>6, <1>9 DEF createSpamAccountKey, command, flags, chain, Looping
<1>10. CASE kill
  BY <1>10 DEF kill, Sent, Looping
<1>11. CASE loseMempool
  <2>1. from' = from /\ mempool'[from] = <<>>
    BY <1>f, <1>11 DEF loseMempool, command, flags
  <2> QED
    BY <1>5, <2>1
<1>12. CASE UNCHANGED vars
  BY <1>6, <1>12 DEF vars, command, flags, chain, Looping
<1>13. ASSUME NEW f \in Payers, f # from, deliver(f)
       PROVE  Sent'
  <2>1. mempool'[from] = s /\ chainSequence'[from] = chainSequence[from]
    BY <1>f, <1>13, TransferTaken
  <2>2. /\ UNCHANGED <<runs, i, numExistingAccs, fromAccountSequence, from, amount>>
        /\ Looping' = Looping
    BY <1>13 DEF deliver, command, flags, Looping
  <2> QED
    BY <1>6, <2>1, <2>2
<1> QED
  BY <1>2, <1>3, <1>4, <1>7, <1>8, <1>9, <1>10, <1>11, <1>12, <1>13 DEF Next

LEMMA PaidInOrderStep ==
  ASSUME Types, Numbered, Dated, AllHaveKeys, NextPaid, Sent, PaidInOrder, [Next]_vars
  PROVE  PaidInOrder'
<1> DEFINE c == CountSpamAccounts
           s == mempool[from]
           F == funded[from]
           e == Expected
<1>c. c \in Nat /\ DOMAIN keys = 0..(c - 1)
  BY DEF Numbered
<1>1. \A n \in DOMAIN keys : keys'[n] = keys[n]
  BY DatesKept
<1>f. from \in Payers
  BY DEF Types
<1>p. /\ DOMAIN keys \subseteq Nat /\ Len(s) \in Nat
      /\ \A p \in 1..Len(s) : s[p].to \in DOMAIN keys
      /\ F \subseteq DOMAIN keys
  BY <1>f, Placed
<1>k. \A x \in DOMAIN keys : keys[x] \in Nat /\ keys[x] <= runs
  BY DEF Dated
<1>t. /\ i \in Nat /\ numExistingAccs \in Nat /\ runs \in Nat
      /\ chainSequence[from] \in Nat /\ fromAccountSequence \in Nat
      /\ fromCoins[from] \in Nat /\ amount \in Nat /\ Len(s) \in Nat
  BY <1>f, <1>p, EnsureAssumption DEF Types
<1>n. /\ i \in Nat /\ numExistingAccs \in Nat
      /\ chainSequence[from] \in Nat /\ fromAccountSequence \in Nat
  BY <1>t
<1>e. e \in Int /\ e = chainSequence[from] + numExistingAccs + i - fromAccountSequence
  BY <1>t DEF Expected
<1>s. /\ Looping
      /\ fromAccountSequence <= chainSequence[from] + Len(s)
      /\ fromCoins[from] >= amount
      => \A n \in F : keys[n] = runs => e - 1 \in F /\ n < e
  BY DEF PaidInOrder
<1>q. ASSUME /\ Looping'
             /\ fromAccountSequence' <= chainSequence'[from'] + Len(mempool'[from'])
             /\ fromCoins'[from'] >= amount'
             => \A n \in funded'[from'] :
                  keys'[n] = runs' => e' - 1 \in funded'[from'] /\ n < e'
      PROVE  PaidInOrder'
  BY <1>q DEF PaidInOrder
<1>m. ASSUME /\ UNCHANGED <<runs, i, numExistingAccs, fromAccountSequence, from, amount>>
             /\ UNCHANGED <<chainSequence[from], fromCoins[from], funded[from]>>
             /\ Looping' => Looping
             /\ Len(mempool'[from]) \in Nat /\ Len(mempool'[from]) <= Len(s)
      PROVE  PaidInOrder'
  <2>1. e' = e
    BY <1>m DEF Expected
  <2>2. fromAccountSequence <= chainSequence[from] + Len(mempool'[from]) =>
          fromAccountSequence <= chainSequence[from] + Len(s)
    BY <1>t, <1>m
  <2>3. \A n \in F : keys'[n] = keys[n]
    BY <1>1, <1>p
  <2>4. /\ Looping
        /\ fromAccountSequence <= chainSequence[from] + Len(mempool'[from])
        /\ fromCoins[from] >= amount
        => \A n \in F : keys'[n] = runs => e - 1 \in F /\ n < e
    <3> HIDE DEF s, e, F
    <3> QED
      BY <1>s, <2>2, <2>3
  <2>5. /\ from' = from /\ amount' = amount /\ runs' = runs
        /\ fromAccountSequence' = fromAccountSequence
        /\ chainSequence'[from] = chainSequence[from] /\ fromCoins'[from] = fromCoins[from]
        /\ funded'[from] = F /\ (Looping' => Looping)
    BY <1>m
  <2> HIDE DEF s, e, F
  <2> QED
    BY <1>q, <2>1, <2>4, <2>5
<1> HIDE DEF c, e
<1>2. CASE readSequence
  <2>1. /\ pc = "sequence" /\ funded' = funded /\ keys' = keys /\ runs' = runs
        /\ from' = from
    BY <1>2 DEF readSequence, flags, chain
  <2>2. c = numExistingAccs /\ \A a \in DOMAIN keys : keys[a] = runs => a >= numExistingAccs
    BY <1>t, <2>1 DEF Numbered, Dated, Running, c
  <2>3. \A a \in DOMAIN keys : keys[a] # runs
    BY <1>c, <1>t, <2>2
  <2> QED
    BY <1>p, <1>q, <2>1, <2>3
<1>3. CASE deliver(from)
  <2>2. /\ UNCHANGED <<keys, runs, i, numExistingAccs, fromAccountSequence, from, amount>>
        /\ Looping' = Looping
    BY <1>3 DEF deliver, command, flags, Looping
  <2> DEFINE a == s[1].to
  <2>1. /\ Len(s) >= 1 /\ s # <<>>
        /\ Len(mempool'[from]) = Len(s) - 1
        /\ chainSequence'[from] = chainSequence[from] + 1
        /\ \/ /\ fromCoins[from] >= s[1].amount
              /\ fromCoins'[from] = fromCoins[from] - s[1].amount
              /\ funded'[from] = F \cup {a}
           \/ /\ ~(fromCoins[from] >= s[1].amount)
              /\ fromCoins'[from] = fromCoins[from] /\ funded'[from] = F
    BY <1>f, <1>3, TransferTaken
  <2> SUFFICES ASSUME Looping, fromAccountSequence <= chainSequence'[from] + Len(mempool'[from]),
                      fromCoins'[from] >= amount, NEW n \in funded'[from], keys[n] = runs
               PROVE  e' - 1 \in funded'[from] /\ n < e'
    BY <1>q, <2>2
  <2>3. fromAccountSequence <= chainSequence[from] + Len(s)
    <3> HIDE DEF s
    <3> QED
      BY <1>t, <2>1
  <2>4. e' = e + 1
    <3>1. chainSequence'[from] = chainSequence[from] + 1
      BY <2>1
    <3> QED
      BY <1>e, <1>n, <2>2, <3>1 DEF e, Expected
  <2>a. a \in DOMAIN keys /\ s[1].amount \in Nat /\ 1 \in 1..Len(s)
    BY <1>f, <1>p, <2>1, Placed
  <2>5. fromCoins[from] >= amount =>
          \A x \in F : keys[x] = runs => e - 1 \in F /\ x < e
    BY <1>s, <2>3
  <2>6. keys[a] = runs => a = e /\ s[1].amount = amount
    <3>1. keys[a] = runs => a = e + 1 - 1 /\ s[1].amount = amount
      BY <2>a DEF Sent, Positions, e
    <3> QED
      BY <1>e, <3>1
  <2>7. \A x \in F : keys[x] <= keys[a]
    BY <1>f, <2>1 DEF NextPaid
  <2>8. n \in F \/ n = a
    BY <2>1
  <2>9. n \in DOMAIN keys
    BY <1>p, <2>8, <2>a
  <2>10. keys[a] = runs
    <3> HIDE DEF a, F
    <3> QED
      BY <1>k, <1>t, <2>7, <2>8, <2>9, <2>a
  <2>11. /\ fromCoins[from] >= amount /\ funded'[from] = F \cup {a}
    BY <1>t, <2>1, <2>6, <2>10, <2>a
  <2> HIDE DEF a, F, s
  <2>12. n \in Nat /\ n <= e
    <3>1. n \in Nat
      BY <1>p, <2>9
    <3>2. n \in F => n < e
      BY <2>5, <2>11
    <3> QED
      BY <1>e, <2>6, <2>8, <2>10, <3>1, <3>2
  <2>13. e' - 1 = e /\ n < e'
    BY <1>e, <2>4, <2>12
  <2> QED
    BY <2>6, <2>10, <2>11, <2>13
<1>4. CASE \E err \in BOOLEAN : sendCoins(err)
  <2> PICK err \in BOOLEAN : sendCoins(err)
    BY <1>4
  <2>1. /\ UNCHANGED <<keys, runs, numExistingAccs, chainSequence, funded, fromCoins, from, amount>>
        /\ i' = i + 1 /\ fromAccountSequence' = fromAccountSequence + 1 /\ Looping
    BY DEF sendCoins, flags, Looping
  <2>2. e' = e
    BY <1>e, <1>t, <2>1 DEF e, Expected
  <2>3. fromAccountSequence' <= chainSequence[from] + Len(mempool'[from]) =>
          fromAccountSequence <= chainSequence[from] + Len(s)
    <3>1. \/ Len(mempool'[from]) = Len(s)
          \/ fromAccountSequence = chainSequence[from] + Len(s)
      BY TransferSent
    <3> HIDE DEF s
    <3> QED
      BY <1>t, <2>1, <3>1
  <2> HIDE DEF s
  <2> QED
    BY <1>s, <1>q, <2>1, <2>2, <2>3
<1>5. CASE createSpamAccountKey
  <2>1. /\ UNCHANGED <<runs, i, numExistingAccs, chainSequence, fromAccountSequence, from, amount>>
        /\ UNCHANGED <<funded, fromCoins, mempool>> /\ Looping
    BY <1>5 DEF createSpamAccountKey, command, flags, chain, Looping
  <2> QED
    BY <1>m, <1>t, <2>1
<1>6. CASE loseMempool
  <2>1. /\ UNCHANGED <<runs, i, numExistingAccs, chainSequence, fromAccountSequence, from, amount>>
        /\ UNCHANGED <<funded, fromCoins, pc>> /\ mempool'[from] = <<>>
    BY <1>f, <1>6 DEF loseMempool, command, flags
  <2>2. Looping' = Looping /\ Len(mempool'[from]) = 0
    BY <2>1 DEF Looping
  <2> QED
    BY <1>m, <1>t, <2>1, <2>2
<1>7. CASE \E n \in Ks, f \in Payers, a \in Amounts : ensure(n, f, a)
  BY <1>7 DEF ensure, PaidInOrder, Looping
<1>8. CASE ensureFromAccHasEnoughCoins
  BY <1>8 DEF ensureFromAccHasEnoughCoins, PaidInOrder, Looping
<1>9. CASE kill
  BY <1>9 DEF kill, PaidInOrder, Looping
<1>10. CASE UNCHANGED vars
  <2>1. /\ UNCHANGED <<runs, i, numExistingAccs, fromAccountSequence, from, amount>>
        /\ UNCHANGED <<chainSequence, fromCoins, funded, mempool>>
        /\ Looping' = Looping
    BY <1>10 DEF vars, command, flags, chain, Looping
  <2> QED
    BY <1>m, <1>t, <2>1
<1>11. ASSUME NEW f \in Payers, f # from, deliver(f)
       PROVE  PaidInOrder'
  <2>1. /\ mempool'[from] = s /\ chainSequence'[from] = chainSequence[from]
        /\ fromCoins'[from] = fromCoins[from] /\ funded'[from] = funded[from]
    BY <1>f, <1>11, TransferTaken
  <2>2. /\ UNCHANGED <<runs, i, numExistingAccs, fromAccountSequence, from, amount>>
        /\ Looping' = Looping
    BY <1>11 DEF deliver, command, flags, Looping
  <2> QED
    BY <1>m, <1>t, <2>1, <2>2
<1> QED
  BY <1>2, <1>3, <1>4, <1>5, <1>6, <1>7, <1>8, <1>9, <1>10, <1>11 DEF Next

LEMMA PromisedStep ==
  ASSUME Types, Numbered, Dated, AllHaveKeys, Promised, [Next]_vars
  PROVE  Promised'
<1> DEFINE X == ToCome
           q == mempool[from]
           len == Len(q)
           Bounded == \A p \in 1..len : q[p].amount <= amount
<1>f. from \in Payers
  BY DEF Types
<1>q. q \in Seq(Transfers) /\ len \in Nat
  BY <1>f, Placed
<1>t. /\ i \in Nat /\ numExistingAccs \in Nat /\ k \in Nat
      /\ chainSequence[from] \in Nat /\ fromAccountSequence \in Nat
      /\ fromCoins[from] \in Nat /\ checkedSequence \in Nat
      /\ numAccsToCreate \in Int /\ X \in Int
      /\ amount \in Nat /\ amount > 0
  BY <1>f, EnsureAssumption DEF Types, numAccsToCreate, ToCome
<1>p. /\ pc = "sequence" => checkedSequence <= chainSequence[from]
      /\ \A f \in Payers \ unsure : Cost(mempool[f]) <= fromCoins[f]
      /\ pc = "sequence" /\ from \notin unsure /\ chainSequence[from] = checkedSequence =>
           fromCoins[from] >= amount * numAccsToCreate
      /\ Looping /\ from \notin unsure =>
           Bounded /\ fromCoins[from] >= amount * X
  BY OwedIsCost DEF Promised, PayableUnlessUnsure, Positions
<1> HIDE DEF X, Bounded
<1>s. ASSUME /\ pc' = "sequence" => checkedSequence' <= chainSequence'[from']
             /\ \A f \in Payers \ unsure' : Cost(mempool'[f]) <= fromCoins'[f]
             /\ pc' = "sequence" /\ from' \notin unsure'
                  /\ chainSequence'[from'] = checkedSequence' =>
                  fromCoins'[from'] >= amount' * numAccsToCreate'
             /\ Looping' /\ from' \notin unsure' =>
                  Bounded' /\ fromCoins'[from'] >= amount' * X'
      PROVE  Promised'
  <2>1. \A f \in Payers : Owed(f)' = Cost(mempool'[f])
    BY DEF Owed, Cost, Costs, Sum, Positions
  <2> QED
    BY <1>s, <2>1 DEF Promised, PayableUnlessUnsure, Positions, X, Bounded
<1>1. CASE \E n \in Ks, f \in Payers, a \in Amounts : ensure(n, f, a)
  <2>1. /\ unsure' = unsure /\ mempool' = mempool /\ fromCoins' = fromCoins
        /\ pc' # "sequence" /\ ~Looping'
    BY <1>1 DEF ensure, history, chain, Looping
  <2> QED
    BY <1>p, <1>s, <2>1
<1>2. CASE ensureFromAccHasEnoughCoins
  <2>1. /\ checkedSequence' = chainSequence[from] /\ from' = from /\ amount' = amount
        /\ UNCHANGED <<fromCoins, chainSequence, mempool, unsure>>
        /\ ~Looping' /\ numAccsToCreate' = numAccsToCreate
        /\ pc' = "sequence" => fromCoins[from] >= amount * numAccsToCreate
    BY <1>2 DEF ensureFromAccHasEnoughCoins, flags, chain, totalCoinsNeeded,
       numAccsToCreate, Looping
  <2> QED
    BY <1>t, <1>p, <1>s, <2>1
<1>3. CASE readSequence
  <2>1. /\ pc = "sequence" /\ pc' = "key" /\ i = 0
        /\ UNCHANGED <<fromCoins, chainSequence, mempool, from, amount>>
        /\ numAccsToCreate' = numAccsToCreate
        /\ i' = i /\ fromAccountSequence' = chainSequence[from]
    BY <1>3 DEF readSequence, flags, chain, numAccsToCreate, Numbered
  <2>2. X' = numAccsToCreate
    BY <1>t, <2>1 DEF X, ToCome
  <2>3. unsure \subseteq unsure'
    BY <1>3 DEF readSequence
  <2>4. from \notin unsure' =>
          /\ from \notin unsure /\ chainSequence[from] = checkedSequence
          /\ \A p \in DOMAIN mempool[from] : ~(mempool[from][p].amount > amount)
    BY <1>3 DEF readSequence
  <2>5. from \notin unsure' => Bounded'
    <3>1. ASSUME NEW p \in 1..len PROVE p \in DOMAIN q /\ q[p].amount \in Nat
      BY <1>f, <1>q, Placed
    <3>2. from \notin unsure' => Bounded
      BY <1>t, <2>4, <3>1 DEF Bounded
    <3> QED
      BY <2>1, <3>2 DEF Bounded
  <2> QED
    BY <1>p, <1>s, <2>1, <2>2, <2>3, <2>4, <2>5
<1>4. CASE createSpamAccountKey
  <2>1. /\ UNCHANGED <<unsure, fromCoins, chainSequence, mempool, from, amount>>
        /\ UNCHANGED <<i, k, numExistingAccs, fromAccountSequence>>
        /\ Looping /\ pc' # "sequence"
    BY <1>4 DEF createSpamAccountKey, command, flags, chain, history, Looping
  <2>2. X' = X /\ Bounded' = Bounded
    BY <2>1 DEF X, ToCome, numAccsToCreate, Bounded
  <2> QED
    BY <1>p, <1>s, <2>1, <2>2
<1>5. CASE \E err \in BOOLEAN : sendCoins(err)
  <2> PICK err \in BOOLEAN : sendCoins(err)
    BY <1>5
  <2>1. /\ UNCHANGED <<unsure, fromCoins, chainSequence, k, numExistingAccs, from, amount>>
        /\ i' = i + 1 /\ fromAccountSequence' = fromAccountSequence + 1
        /\ Looping /\ pc' # "sequence" /\ pc = "send"
    BY DEF sendCoins, history, flags, Looping
  <2>2. X' = X
    BY <1>t, <2>1 DEF X, ToCome, numAccsToCreate
  <2>3. \A f \in Payers \ {from} : mempool'[f] = mempool[f]
    BY TransferSent
  <2>4. CASE mempool'[from] = q
    <3>1. mempool' = mempool \/ \A f \in Payers : mempool'[f] = mempool[f]
      BY <2>3, <2>4
    <3>2. Bounded' = Bounded
      BY <2>1, <2>4 DEF Bounded
    <3> QED
      BY <1>p, <1>s, <2>1, <2>2, <3>1, <3>2
  <2>5. CASE mempool'[from] # q
    <3>1. /\ fromAccountSequence = chainSequence[from] + len
          /\ mempool'[from] = Append(q, Transfer)
          /\ Len(mempool'[from]) = len + 1
          /\ \A p \in 1..len : mempool'[from][p] = q[p]
          /\ mempool'[from][len + 1].amount = amount
      BY <2>5, TransferSent
    <3>2. Transfer \in Transfers /\ Transfer.amount = amount
      BY DEF Transfer, Transfers, accountName, Types
    <3>3. Cost(mempool'[from]) = Cost(q) + amount
      BY <1>q, <3>1, <3>2, CostOfMore
    <3>4. Bounded => Bounded'
      <4>1. ASSUME Bounded, NEW p \in 1..(len + 1) PROVE mempool'[from][p].amount <= amount
        <5>1. CASE p \in 1..len
          BY <3>1, <4>1, <5>1 DEF Bounded
        <5>2. CASE p = len + 1
          BY <1>t, <3>1, <5>2
        <5> QED
          BY <1>q, <5>1, <5>2
      <4> QED
        BY <2>1, <3>1, <4>1 DEF Bounded
    <3>5. from \notin unsure => Cost(mempool'[from]) <= fromCoins[from]
      <4> SUFFICES ASSUME from \notin unsure PROVE Cost(mempool'[from]) <= fromCoins[from]
        OBVIOUS
      <4>1. Bounded /\ fromCoins[from] >= amount * X
        BY <1>p, <2>1
      <4>2. Cost(q) <= amount * len /\ Cost(q) \in Nat
        BY <1>q, <1>t, <4>1, CostAtMost, CostTypes DEF Bounded
      <4>3. numExistingAccs + i < k
        BY <2>1 DEF Numbered
      <4> HIDE DEF q, len
      <4>4. fromAccountSequence = chainSequence[from] + len
        BY <3>1
      <4>5. X >= len + 1
        BY <1>q, <1>t, <4>3, <4>4 DEF X, ToCome, numAccsToCreate
      <4>6. amount * X >= amount * (len + 1) /\ amount * (len + 1) = amount * len + amount
        BY <1>q, <1>t, <4>5
      <4>7. amount * X \in Int /\ amount * len \in Int
        BY <1>q, <1>t
      <4> QED
        BY <1>t, <3>3, <4>1, <4>2, <4>6, <4>7
    <3>6. \A f \in Payers \ unsure' : Cost(mempool'[f]) <= fromCoins'[f]
      BY <1>p, <2>1, <2>3, <3>5
    <3> QED
      BY <1>p, <1>s, <2>1, <2>2, <3>4, <3>6
  <2> QED
    BY <2>4, <2>5
<1>6. CASE kill
  <2>1. /\ UNCHANGED <<unsure, fromCoins, mempool>> /\ pc' # "sequence" /\ ~Looping'
    BY <1>6 DEF kill, command, history, chain, Looping
  <2> QED
    BY <1>p, <1>s, <2>1
<1>7. ASSUME NEW f \in Payers, deliver(f)
      PROVE  Promised'
  <2> DEFINE s == mempool[f]
             coins == fromCoins[f]
             cost == s[1].amount
  <2>1. /\ s # <<>> /\ Len(s) >= 1
        /\ mempool'[f] = Tail(s) /\ Len(mempool'[f]) = Len(s) - 1
        /\ \A p \in 1..Len(mempool'[f]) : mempool'[f][p] = s[p + 1]
        /\ chainSequence'[f] = chainSequence[f] + 1
        /\ coins >= cost => fromCoins'[f] = coins - cost
        /\ \A g \in Payers \ {f} :
             /\ mempool'[g] = mempool[g] /\ chainSequence'[g] = chainSequence[g]
             /\ fromCoins'[g] = fromCoins[g]
    BY <1>7, TransferTaken
  <2>2. /\ UNCHANGED <<unsure, checkedSequence, pc, from, amount>>
        /\ UNCHANGED <<i, k, numExistingAccs, fromAccountSequence>>
        /\ Looping' = Looping
    BY <1>7 DEF deliver, command, history, flags, Looping
  <2>n. numAccsToCreate' = numAccsToCreate
    BY <2>2 DEF numAccsToCreate
  <2>3. s \in Seq(Transfers) /\ coins \in Nat /\ cost \in Nat /\ chainSequence[f] \in Nat
    BY <2>1, Placed
  <2>4. /\ Cost(s) = cost + Cost(Tail(s)) /\ Cost(Tail(s)) \in Nat
    <3>1. Cost(s) = s[1].amount + Cost(Tail(s))
      <4> HIDE DEF s
      <4> QED
        BY <2>1, <2>3, CostOfFirst
    <3>2. Tail(s) \in Seq(Transfers)
      BY <2>1, <2>3
    <3> QED
      BY <3>1, <3>2, CostTypes
  <2>5. f \notin unsure => /\ fromCoins'[f] = coins - cost
                           /\ Cost(mempool'[f]) <= fromCoins'[f]
    <3> SUFFICES ASSUME f \notin unsure
                 PROVE  fromCoins'[f] = coins - cost /\ Cost(Tail(s)) <= coins - cost
      BY <2>1
    <3>1. Cost(s) <= coins
      BY <1>p
    <3> HIDE DEF s, coins, cost
    <3> QED
      BY <2>1, <2>3, <2>4, <3>1
  <2>6. \A g \in Payers \ unsure' : Cost(mempool'[g]) <= fromCoins'[g]
    BY <1>p, <2>1, <2>2, <2>5
  <2>7. CASE f = from
    <3>1. X' = X - 1
      <4>1. chainSequence'[from] = chainSequence[from] + 1
        BY <2>1, <2>7
      <4> QED
        BY <1>t, <2>2, <2>n, <4>1 DEF X, ToCome
    <3>2. pc' = "sequence" => checkedSequence' < chainSequence'[from']
      <4>1. chainSequence'[from'] = chainSequence[from] + 1 /\ checkedSequence' = checkedSequence
        BY <2>1, <2>2, <2>7
      <4> QED
        BY <1>p, <1>t, <2>2, <4>1
    <3>3. ASSUME Looping, from \notin unsure
          PROVE  Bounded' /\ fromCoins'[from] >= amount * X'
      <4>1. Bounded /\ fromCoins[from] >= amount * X
        BY <1>p, <3>3
      <4>2. cost <= amount
        BY <2>1, <2>3, <2>7, <4>1 DEF Bounded
      <4>3. \A p \in 1..Len(mempool'[from]) : mempool'[from][p].amount <= amount
        <5> SUFFICES ASSUME NEW p \in 1..Len(mempool'[from])
                     PROVE  mempool'[from][p].amount <= amount
          OBVIOUS
        <5>1. p + 1 \in 1..len /\ mempool'[from][p] = q[p + 1]
          <6>1. /\ Len(mempool'[from]) = len - 1
                /\ \A o \in 1..Len(mempool'[from]) : mempool'[from][o] = q[o + 1]
            BY <2>1, <2>7
          <6> HIDE DEF q, len
          <6> QED
            BY <1>q, <6>1
        <5> QED
          BY <4>1, <5>1 DEF Bounded
      <4>4. Bounded'
        BY <2>2, <4>3 DEF Bounded
      <4>5. fromCoins'[from] = fromCoins[from] - cost
        BY <2>5, <2>7, <3>3
      <4>6. amount * (X - 1) = amount * X - amount /\ amount * X \in Int
        BY <1>t
      <4> HIDE DEF cost
      <4>7. fromCoins'[from] >= amount * (X - 1)
        BY <1>t, <2>3, <4>1, <4>2, <4>5, <4>6
      <4> QED
        BY <3>1, <4>4, <4>7
    <3>4. pc' = "sequence" => checkedSequence' <= chainSequence'[from']
                              /\ chainSequence'[from'] # checkedSequence'
      <4>1. chainSequence'[from'] \in Int /\ checkedSequence' \in Int
        BY <1>t, <2>1, <2>2, <2>7
      <4> QED
        BY <3>2, <4>1
    <3> QED
      BY <1>s, <2>2, <2>6, <3>3, <3>4
  <2>8. CASE f # from
    <3>1. /\ mempool'[from] = mempool[from] /\ chainSequence'[from] = chainSequence[from]
          /\ fromCoins'[from] = fromCoins[from]
      BY <1>f, <2>1, <2>8
    <3>2. X' = X /\ Bounded' = Bounded
      BY <2>2, <2>n, <3>1 DEF X, ToCome, Bounded
    <3> QED
      BY <1>p, <1>s, <2>2, <2>n, <2>6, <3>1, <3>2
  <2> QED
    BY <2>7, <2>8
<1>8. CASE loseMempool
  <2>1. /\ UNCHANGED <<unsure, checkedSequence, fromCoins, chainSequence, pc, from, amount>>
        /\ UNCHANGED <<i, k, numExistingAccs, fromAccountSequence>>
        /\ \A f \in Payers : mempool'[f] = <<>>
    BY <1>8 DEF loseMempool, command, flags, history
  <2>2. X' = X /\ Looping' = Looping /\ numAccsToCreate' = numAccsToCreate
    BY <2>1 DEF X, ToCome, numAccsToCreate, Looping
  <2>3. \A f \in Payers : Cost(mempool'[f]) <= fromCoins'[f]
    <3> SUFFICES ASSUME NEW f \in Payers PROVE Cost(mempool'[f]) <= fromCoins[f]
      BY <2>1
    <3>1. Len(mempool'[f]) = 0
      BY <2>1
    <3>2. Cost(mempool'[f]) = 0 /\ fromCoins[f] \in Nat
      BY <3>1, CostOfNone, Placed
    <3> QED
      BY <3>2
  <2>4. Bounded'
    BY <1>f, <2>1 DEF Bounded
  <2> QED
    BY <1>p, <1>s, <2>1, <2>2, <2>3, <2>4
<1>9. CASE UNCHANGED vars
  <2>1. /\ UNCHANGED <<unsure, checkedSequence, fromCoins, chainSequence, mempool, pc>>
        /\ UNCHANGED <<i, k, numExistingAccs, fromAccountSequence, from, amount>>
    BY <1>9 DEF vars, command, flags, history, chain
  <2>2. /\ X' = X /\ Looping' = Looping /\ numAccsToCreate' = numAccsToCreate
        /\ Bounded' = Bounded
    BY <2>1 DEF X, ToCome, numAccsToCreate, Looping, Bounded
  <2> QED
    BY <1>p, <1>s, <2>1, <2>2
<1> QED
  BY <1>1, <1>2, <1>3, <1>4, <1>5, <1>6, <1>7, <1>8, <1>9 DEF Next

-----------------------------------------------------------------------------
(* The theorems.                                                           *)

(* The sequences, the loop counter and the key base always agree as the    *)
(* parts of the invariant say.                                             *)
THEOREM EnsureAlways == Spec => []EnsureInv
<1>1. Init => EnsureInv
  BY EnsureInitially
<1>2. EnsureInv /\ [Next]_vars => EnsureInv'
  BY TypesStep, NumberedStep, DatedStep, AllHaveKeysStep, QueuedStep, TogetherStep,
     NextPaidStep, SentStep, PaidInOrderStep, PromisedStep DEF EnsureInv
<1> QED
  BY <1>1, <1>2, PTL DEF Spec

(* No run replaces a key that an earlier run has stored, even one that was *)
(* killed between two keys.                                                *)
THEOREM KeysNeverReplaced == Spec => NoKeyReplaced
<1>1. EnsureInv /\ [Next]_vars =>
        \A n \in DOMAIN keys : n \in DOMAIN keys' /\ keys'[n] = keys[n]
  BY DatesKept DEF EnsureInv
<1> QED
  BY <1>1, EnsureAlways, PTL DEF Spec, NoKeyReplaced

(* Coins go only to accounts whose keys are stored.                        *)
THEOREM AlwaysToKeys == Spec => []PaidHaveKeys
<1>1. EnsureInv => PaidHaveKeys
  BY DEF EnsureInv, AllHaveKeys, PaidHaveKeys, Recipients
<1> QED
  BY <1>1, EnsureAlways, PTL

(* Unless a run has raced a block, or has asked for less than transfers    *)
(* that were waiting, the payer can pay for every transfer the node has    *)
(* accepted, whatever amounts its runs send.                               *)
THEOREM AlwaysPayable == Spec => []PayableUnlessUnsure
<1>1. EnsureInv => PayableUnlessUnsure
  BY DEF EnsureInv, Promised
<1> QED
  BY <1>1, EnsureAlways, PTL

(* Two waiting transfers of a run, and what lies between their accounts.   *)
LEMMA QueueTogether ==
  ASSUME Types, Numbered, Dated, AllHaveKeys, Queued, NEW f \in Payers,
         NEW p \in Positions(f), NEW q \in Positions(f),
         keys[mempool[f][p].to] = keys[mempool[f][q].to],
         NEW m \in (mempool[f][p].to)..(mempool[f][q].to)
  PROVE  \E r \in Positions(f) :
           m = mempool[f][r].to /\ mempool[f][r].amount = mempool[f][p].amount
<1> DEFINE s == mempool[f]
           a == s[p].to
           b == s[q].to
<1>t. /\ Len(s) \in Nat /\ Positions(f) = 1..Len(s) /\ DOMAIN keys \subseteq Nat
      /\ a \in DOMAIN keys /\ b \in DOMAIN keys
      /\ \A x \in Positions(f) : s[x].to \in DOMAIN keys
  BY Placed
<1>q. \A x, y \in Positions(f) : x <= y => Follows(s[x], s[y], y - x)
  BY DEF Queued
<1>k. \A x \in DOMAIN keys : keys[x] \in Nat
  BY DEF Dated
<1>1. keys[a] = keys[b] /\ a <= m /\ m <= b /\ m \in Nat
  BY <1>t
<1>2. b - a = q - p
  <2>1. CASE p <= q
    <3>1. Follows(s[p], s[q], q - p)
      BY <1>q, <2>1
    <3> QED
      BY <1>1, <3>1 DEF Follows
  <2>2. CASE q <= p
    <3>1. Follows(s[q], s[p], p - q)
      BY <1>q, <2>2
    <3>2. a - b = p - q
      BY <1>1, <3>1 DEF Follows
    <3> QED
      BY <1>t, <3>2
  <2> QED
    BY <1>t, <2>1, <2>2
<1> DEFINE r == p + (m - a)
<1>3. r \in Positions(f) /\ p <= r /\ r <= q
  <2> DEFINE len == Len(s)
  <2>1. /\ len \in Nat /\ p \in 1..len /\ q \in 1..len /\ Positions(f) = 1..len
        /\ a \in Nat /\ b \in Nat
    BY <1>t
  <2> HIDE DEF s, a, b, len
  <2> QED
    BY <1>1, <1>2, <2>1
<1>4. Follows(s[p], s[r], r - p) /\ Follows(s[r], s[q], q - r)
  <2> HIDE DEF s, r
  <2> QED
    BY <1>3, <1>q
<1> HIDE DEF s
<1>5. keys[s[r].to] = keys[a]
  <2>1. keys[a] <= keys[s[r].to] /\ keys[s[r].to] <= keys[b]
    BY <1>4 DEF Follows
  <2>2. keys[s[r].to] \in Nat /\ keys[a] \in Nat
    BY <1>3, <1>k, <1>t
  <2> QED
    BY <1>1, <2>1, <2>2
<1>6. s[r].to - a = r - p /\ s[r].amount = s[p].amount /\ s[r].to \in Nat
  BY <1>3, <1>4, <1>5, <1>t DEF Follows
<1>7. m = s[r].to
  BY <1>t, <1>1, <1>6
<1> QED
  BY <1>3, <1>6, <1>7 DEF s

(* A paid account, a waiting transfer of the same run that can be paid,    *)
(* and what lies between them.                                             *)
LEMMA PaidThenQueued ==
  ASSUME EnsureInv, NEW f \in Payers, NEW l \in funded[f], NEW q \in Affordable(f),
         keys[l] = keys[mempool[f][q].to]
  PROVE  /\ l < mempool[f][q].to
         /\ \A m \in l..(mempool[f][q].to) :
              m \in funded[f] \cup Recipients(f, Affordable(f))
<1> DEFINE s == mempool[f]
           F == funded[f]
           a == s[1].to
           b == s[q].to
<1>i. Types /\ Numbered /\ Dated /\ AllHaveKeys /\ Queued /\ NextPaid /\ AllTogether
  BY DEF EnsureInv
<1>t. /\ Len(s) \in Nat /\ DOMAIN keys \subseteq Nat /\ Positions(f) = 1..Len(s)
      /\ q \in Positions(f) /\ 1 \in Positions(f) /\ s # <<>>
      /\ a \in DOMAIN keys /\ b \in DOMAIN keys /\ l \in DOMAIN keys
      /\ fromCoins[f] >= s[q].amount
  <2>1. /\ s \in Seq(Transfers) /\ Len(s) \in Nat /\ Positions(f) = 1..Len(s)
        /\ DOMAIN keys \subseteq Nat /\ l \in DOMAIN keys
        /\ \A p \in 1..Len(s) : s[p].to \in DOMAIN keys
    BY <1>i, Placed
  <2>2. q \in Positions(f) /\ fromCoins[f] >= s[q].amount
    BY DEF Affordable
  <2>3. 1 \in 1..Len(s) /\ s # <<>>
    BY <2>1, <2>2
  <2> QED
    BY <2>1, <2>2, <2>3
<1>k. \A x \in DOMAIN keys : keys[x] \in Nat
  BY <1>i DEF Dated
<1>d. \A x, y \in DOMAIN keys : x <= y => keys[x] <= keys[y]
  BY <1>i DEF Dated
<1>1. /\ keys[l] <= keys[a]
      /\ fromCoins[f] >= s[1].amount /\ keys[l] = keys[a] => l < a /\ a - 1 \in F
  <2>1. \A n \in F :
          /\ keys[n] <= keys[a]
          /\ fromCoins[f] >= s[1].amount /\ keys[n] = keys[a] => n < a /\ a - 1 \in F
    BY <1>i, <1>t DEF NextPaid
  <2> QED
    BY <2>1
<1>2. /\ keys[a] <= keys[b]
      /\ keys[a] = keys[b] => b - a = q - 1 /\ s[1].amount = s[q].amount
  <2>1. Follows(s[1], s[q], q - 1)
    BY <1>i, <1>t DEF Queued
  <2> QED
    BY <2>1 DEF Follows
<1>3. keys[l] = keys[a] /\ keys[a] = keys[b]
  <2>1. keys[l] \in Nat /\ keys[a] \in Nat /\ keys[b] \in Nat
    BY <1>k, <1>t
  <2>2. keys[l] = keys[b]
    OBVIOUS
  <2> HIDE DEF a, b
  <2> QED
    BY <1>1, <1>2, <2>1, <2>2
<1>4. l < a /\ a - 1 \in F /\ a <= b
  <2>1. l < a /\ a - 1 \in F /\ b - a = q - 1
    BY <1>1, <1>2, <1>3, <1>t
  <2> HIDE DEF a, b, s
  <2> QED
    BY <1>t, <2>1
<1>5. ASSUME NEW m \in l..b PROVE m \in F \cup Recipients(f, Affordable(f))
  <2>1. CASE m < a
    <3>1. a - 1 \in DOMAIN keys /\ l <= a - 1 /\ a - 1 <= a
      BY <1>i, <1>t, <1>4 DEF AllHaveKeys
    <3>2. keys[l] <= keys[a - 1] /\ keys[a - 1] <= keys[a]
      BY <1>d, <1>t, <3>1
    <3>3. keys[l] \in Nat /\ keys[a] \in Nat /\ keys[a - 1] \in Nat
      BY <1>k, <1>t, <3>1
    <3>4. keys[l] = keys[a - 1]
      BY <1>3, <3>2, <3>3
    <3>5. m \in l..(a - 1)
      BY <1>t, <2>1
    <3>6. m \in F
      BY <1>i, <1>4, <3>4, <3>5 DEF AllTogether, Together
    <3> QED
      BY <3>6
  <2>2. CASE a <= m
    <3>1. m \in a..b
      BY <1>t, <2>2
    <3>2. \E r \in Positions(f) : m = s[r].to /\ s[r].amount = s[1].amount
      BY <1>i, <1>t, <1>3, <3>1, QueueTogether
    <3>3. s[1].amount = s[q].amount
      BY <1>2, <1>3
    <3> HIDE DEF a, b
    <3>4. \E r \in Positions(f) : m = s[r].to /\ fromCoins[f] >= s[r].amount
      BY <1>t, <3>2, <3>3
    <3> QED
      BY <3>4 DEF Recipients, Affordable
  <2> QED
    BY <1>t, <2>1, <2>2
<1> QED
  BY <1>t, <1>4, <1>5

(* The accounts a run has paid have no gap, nor have they together with    *)
(* the ones still to be paid for which the payer has the coins.            *)
THEOREM AlwaysTogether == Spec => []PaidTogether
<1>1. ASSUME EnsureInv, NEW f \in Payers,
             NEW l \in funded[f] \cup Recipients(f, Affordable(f)),
             NEW n \in funded[f] \cup Recipients(f, Affordable(f)),
             keys[l] = keys[n], NEW m \in l..n
      PROVE  m \in funded[f] \cup Recipients(f, Affordable(f))
  <2>i. Types /\ Numbered /\ Dated /\ AllHaveKeys /\ Queued /\ AllTogether
    BY <1>1 DEF EnsureInv
  <2>1. CASE l \in funded[f] /\ n \in funded[f]
    BY <1>1, <2>i, <2>1 DEF AllTogether, Together
  <2>2. CASE l \in funded[f] /\ \E q \in Affordable(f) : n = mempool[f][q].to
    BY <1>1, <2>2, PaidThenQueued
  <2>3. CASE n \in funded[f] /\ \E q \in Affordable(f) : l = mempool[f][q].to
    <3>1. n < l
      BY <1>1, <2>3, PaidThenQueued
    <3>2. n \in Nat /\ l \in Nat
      BY <2>i, <2>3, Placed DEF Affordable
    <3> QED
      BY <1>1, <3>1, <3>2
  <2>4. CASE \E p, q \in Affordable(f) : l = mempool[f][p].to /\ n = mempool[f][q].to
    <3> PICK p \in Affordable(f), q \in Affordable(f) :
               l = mempool[f][p].to /\ n = mempool[f][q].to
      BY <2>4
    <3>1. p \in Positions(f) /\ q \in Positions(f) /\ fromCoins[f] >= mempool[f][p].amount
      BY DEF Affordable
    <3>2. \E r \in Positions(f) :
            m = mempool[f][r].to /\ mempool[f][r].amount = mempool[f][p].amount
      BY <1>1, <2>i, <3>1, QueueTogether
    <3> QED
      BY <3>1, <3>2 DEF Recipients, Affordable
  <2> QED
    BY <2>1, <2>2, <2>3, <2>4 DEF Recipients
<1>2. ASSUME EnsureInv, NEW f \in Payers
      PROVE  Together(funded[f]) /\ Together(funded[f] \cup Recipients(f, Affordable(f)))
  <2>1. Together(funded[f])
    BY <1>2 DEF EnsureInv, AllTogether
  <2>2. Together(funded[f] \cup Recipients(f, Affordable(f)))
    BY <1>1, <1>2 DEF Together
  <2> QED
    BY <2>1, <2>2
<1>3. EnsureInv => PaidTogether
  BY <1>2 DEF PaidTogether
<1> QED
  BY <1>3, EnsureAlways, PTL
=============================================================================
