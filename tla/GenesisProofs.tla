---------------------------- MODULE GenesisProofs ----------------------------
(***************************************************************************)
(* Proofs about Genesis for any number of genesis transactions: nothing is *)
(* lost or added between the transactions, the genesis state and the       *)
(* stores.                                                                 *)
(***************************************************************************)
EXTENDS Genesis, SumProofs, SequenceTheorems

-----------------------------------------------------------------------------
(* The two coins of an account, in the order of their denoms.              *)

LEMMA RearrangedTwo ==
  ASSUME NEW c, NEW d
  PROVE  Rearranged(<<c, d>>) = {<<c, d>>, <<d, c>>}
<1>1. DOMAIN <<c, d>> = {1, 2}
  OBVIOUS
<1>2. ASSUME NEW s \in Rearranged(<<c, d>>) PROVE s \in {<<c, d>>, <<d, c>>}
  <2>1. PICK p \in Bijection({1, 2}, {1, 2}) : s = [n \in {1, 2} |-> <<c, d>>[p[n]]]
    BY <1>1 DEF Rearranged
  <2>2. p \in [{1, 2} -> {1, 2}] /\ p[1] # p[2]
    <3>1. p \in [{1, 2} -> {1, 2}] /\ IsInjective(p)
      BY <2>1 DEF Bijection, Injection
    <3> QED
      BY <3>1 DEF IsInjective
  <2> QED
    BY <2>1, <2>2
<1>3. ASSUME NEW p \in [{1, 2} -> {1, 2}], p[1] # p[2]
      PROVE  p \in Bijection({1, 2}, {1, 2})
  <2>1. IsInjective(p)
    BY <1>3 DEF IsInjective
  <2>2. \A t \in {1, 2} : \E n \in {1, 2} : p[n] = t
    BY <1>3
  <2> QED
    BY <1>3, <2>1, <2>2 DEF Bijection, Injection, Surjection
<1>4. <<c, d>> \in Rearranged(<<c, d>>)
  <2> DEFINE p == [n \in {1, 2} |-> n]
  <2>1. p \in Bijection({1, 2}, {1, 2})
    BY <1>3
  <2>2. <<c, d>> = [n \in {1, 2} |-> <<c, d>>[p[n]]]
    OBVIOUS
  <2> HIDE DEF p
  <2> QED
    BY <1>1, <2>1, <2>2 DEF Rearranged
<1>5. <<d, c>> \in Rearranged(<<c, d>>)
  <2> DEFINE p == [n \in {1, 2} |-> 3 - n]
  <2>1. p \in Bijection({1, 2}, {1, 2})
    BY <1>3
  <2>2. <<d, c>> = [n \in {1, 2} |-> <<c, d>>[p[n]]]
    OBVIOUS
  <2> HIDE DEF p
  <2> QED
    BY <1>1, <2>1, <2>2 DEF Rearranged
<1> QED
  BY <1>2, <1>4, <1>5

Token(genTx) == Coin(genTx.name, 1000)
Rune == Coin(RUNE, FreeFermionsAcc)

(* initChainer stores the token and the RUNE of an account, the one with   *)
(* the smaller denom first.                                                *)
LEMMA SortedCoins ==
  ASSUME NEW genTx \in GenTxs
  PROVE  LET coins == ToAccount(NewGenesisAccount(genTx))
         IN  IF genTx.name < RUNE THEN coins = <<Token(genTx), Rune>>
                                  ELSE coins = <<Rune, Token(genTx)>>
<1> DEFINE c == Token(genTx)
           d == Rune
           Ascends(s) == \A m, n \in DOMAIN s : m < n => s[m].denom <= s[n].denom
           coins == CHOOSE s \in {<<c, d>>, <<d, c>>} : Ascends(s)
<1>1. c.denom = genTx.name /\ d.denom = RUNE
  BY DEF Token, Rune, Coin
<1>2. genTx.name \in Int /\ RUNE \in Int /\ genTx.name # RUNE
  BY GenesisAssumption DEF GenTxs
<1>3. ToAccount(NewGenesisAccount(genTx)) = coins
  <2>1. NewGenesisAccount(genTx).coins = <<c, d>>
    BY DEF NewGenesisAccount, Token, Rune
  <2> HIDE DEF c, d
  <2>2. Rearranged(<<c, d>>) = {<<c, d>>, <<d, c>>}
    BY RearrangedTwo
  <2> QED
    BY <2>1, <2>2 DEF ToAccount
<1> HIDE DEF c, d
<1>4. Ascends(<<c, d>>) <=> c.denom <= d.denom
  OBVIOUS
<1>5. Ascends(<<d, c>>) <=> d.denom <= c.denom
  OBVIOUS
<1> HIDE DEF Ascends
<1>6. CASE genTx.name < RUNE
  <2>1. Ascends(<<c, d>>) /\ ~Ascends(<<d, c>>)
    BY <1>1, <1>2, <1>4, <1>5, <1>6
  <2>2. coins = <<c, d>>
    BY <2>1
  <2> QED
    BY <1>3, <1>6, <2>2 DEF c, d
<1>7. CASE ~(genTx.name < RUNE)
  <2>1. Ascends(<<d, c>>) /\ ~Ascends(<<c, d>>)
    BY <1>1, <1>2, <1>4, <1>5, <1>7
  <2>2. coins = <<d, c>>
    BY <2>1
  <2> QED
    BY <1>3, <1>7, <2>2 DEF c, d
<1> QED
  BY <1>6, <1>7

(* AmountOf finds both coins of two that are in order.                     *)
LEMMA FoundInOrder ==
  ASSUME NEW c, NEW d, c.denom \in Int, d.denom \in Int, c.denom < d.denom
  PROVE  /\ AmountOf(<<c, d>>, c.denom) = c.amount
         /\ AmountOf(<<c, d>>, d.denom) = d.amount
<1> DEFINE s == <<c, d>>
<1>1. Len(s) = 2 /\ s[1] = c /\ s[2] = d
  OBVIOUS
<1>e. 2 \div 2 + 1 = 2 /\ 1..2 = {1, 2}
  OBVIOUS
<1> HIDE DEF s
<1>2. AmountOf(s, c.denom) = c.amount
  BY <1>1, <1>e DEF AmountOf
<1>3. AmountOf(s, d.denom) = d.amount
  BY <1>1, <1>e DEF AmountOf
<1> QED
  BY <1>2, <1>3 DEF s

(* What AmountOf finds of a loaded account.                                *)
LEMMA CoinsOfAccount ==
  ASSUME NEW genTx \in GenTxs
  PROVE  LET coins == ToAccount(NewGenesisAccount(genTx))
         IN  /\ coins \in Seq([denom : Int, amount : Nat])
             /\ AmountOf(coins, RUNE) = FreeFermionsAcc
             /\ \A n \in DOMAIN coins : AmountOf(coins, coins[n].denom) = coins[n].amount
<1> DEFINE c == Token(genTx)
           d == Rune
           coins == ToAccount(NewGenesisAccount(genTx))
<1>1. /\ c \in [denom : Int, amount : Nat] /\ d \in [denom : Int, amount : Nat]
      /\ c.denom = genTx.name /\ d.denom = RUNE /\ d.amount = FreeFermionsAcc
      /\ genTx.name # RUNE
  <2>1. /\ genTx.name \in Int /\ RUNE \in Int /\ genTx.name # RUNE
        /\ FreeFermionsAcc \in Nat
    BY GenesisAssumption DEF GenTxs
  <2>2. /\ c = [denom |-> genTx.name, amount |-> 1000]
        /\ d = [denom |-> RUNE, amount |-> FreeFermionsAcc]
    BY DEF Token, Rune, Coin
  <2> HIDE DEF c, d
  <2> QED
    BY <2>1, <2>2
<1>2. IF genTx.name < RUNE THEN coins = <<c, d>> ELSE coins = <<d, c>>
  BY SortedCoins
<1> HIDE DEF c, d, coins
<1>3. CASE genTx.name < RUNE
  <2>1. coins = <<c, d>>
    BY <1>2, <1>3
  <2>2. /\ AmountOf(coins, c.denom) = c.amount
        /\ AmountOf(coins, d.denom) = d.amount
    BY <1>1, <1>3, <2>1, FoundInOrder
  <2>3. coins \in Seq([denom : Int, amount : Nat]) /\ DOMAIN coins = {1, 2}
        /\ coins[1] = c /\ coins[2] = d
    BY <1>1, <2>1
  <2> QED
    BY <1>1, <2>2, <2>3 DEF coins
<1>4. CASE ~(genTx.name < RUNE)
  <2>1. coins = <<d, c>>
    BY <1>2, <1>4
  <2>2. /\ AmountOf(coins, c.denom) = c.amount
        /\ AmountOf(coins, d.denom) = d.amount
    BY <1>1, <1>4, <2>1, FoundInOrder
  <2>3. coins \in Seq([denom : Int, amount : Nat]) /\ DOMAIN coins = {1, 2}
        /\ coins[1] = d /\ coins[2] = c
    BY <1>1, <2>1
  <2> QED
    BY <1>1, <2>2, <2>3 DEF coins
<1> QED
  BY <1>3, <1>4

-----------------------------------------------------------------------------
(* The invariant.                                                          *)

Validator == [owner : Addresses, tokens : {FreeFermionVal}, shares : {FreeFermionVal}]

Account == [number : Nat, coins : Seq([denom : Int, amount : Nat])]

(* The genesis transactions that have an account in the genesis state, and *)
(* the accounts that are in the store.                                     *)
Generated == IF pc = "generate" THEN i ELSE Len(appGenTxs)
Stored == IF pc = "generate" THEN 0 ELSE i

GenesisTypes ==
  /\ appGenTxs \in Seq(GenTxs)
  /\ pc \in {"generate", "load", "done"}
  /\ i \in Nat /\ i <= Len(appGenTxs)
  /\ pc = "done" => i = Len(appGenTxs)
  /\ validators \in Seq(Validator)
  /\ genaccs \in Seq({NewGenesisAccount(genTx) : genTx \in GenTxs})
  /\ looseTokens \in Int

(* Every transaction has its account, at its place.                        *)
AccountsGenerated ==
  /\ Len(genaccs) = Generated
  /\ \A n \in 1..Generated : genaccs[n] = NewGenesisAccount(appGenTxs[n])

(* The named ones among the first k transactions.                          *)
Named(txs, k) == {n \in 1..k : txs[n].name # NoName}

(* Every named transaction has its validator, in the order of the          *)
(* transactions, and no other transaction has one.                         *)
ValidatorsMade ==
  /\ Len(validators) = Cardinality(Named(appGenTxs, Generated))
  /\ \A n \in Named(appGenTxs, Generated) :
       validators[Cardinality(Named(appGenTxs, n))] = NewValidator(appGenTxs[n])

(* A validator and its delegation are made together.                       *)
SelfDelegated ==
  /\ bonds \in Seq([delegator : Addresses, validator : Addresses, shares : Nat])
  /\ Len(bonds) = Len(validators)
  /\ \A n \in 1..Len(validators) : bonds[n] = SelfDelegation(validators[n])

(* What k accounts and the validators are given, ...                       *)
ToAccounts(k) == Sum([n \in 1..k |-> FreeFermionsAcc], 1..k)
ToValidators(vs) == Sum([n \in DOMAIN vs |-> vs[n].tokens], DOMAIN vs)

(* ... which is what the pool holds at any time.                           *)
Counted == looseTokens = ToAccounts(Generated) + ToValidators(validators)

(* The accounts of the first transactions are stored, and no others.       *)
AccountsStored ==
  /\ accounts \in [Addresses -> Account \cup {None}]
  /\ \A n \in 1..Stored : accounts[appGenTxs[n].address] # None
  /\ \A a \in Addresses : accounts[a] # None =>
       \E n \in 1..Stored :
         /\ appGenTxs[n].address = a
         /\ accounts[a].coins = ToAccount(NewGenesisAccount(appGenTxs[n]))

GenesisInv ==
  /\ GenesisTypes /\ AccountsGenerated /\ ValidatorsMade /\ SelfDelegated
  /\ Counted /\ AccountsStored

(* The place of a named transaction among the named ones.                  *)
LEMMA NamedPlaces ==
  ASSUME NEW txs, NEW k \in Nat
  PROVE  /\ Cardinality(Named(txs, k)) \in Nat
         /\ Cardinality(Named(txs, k + 1)) =
              Cardinality(Named(txs, k)) + (IF txs[k + 1].name # NoName THEN 1 ELSE 0)
         /\ \A n \in Named(txs, k) :
              Cardinality(Named(txs, n)) \in 1..Cardinality(Named(txs, k))
<1>1. \A m \in Nat : IsFiniteSet(Named(txs, m)) /\ Cardinality(Named(txs, m)) \in Nat
  <2> SUFFICES ASSUME NEW m \in Nat PROVE IsFiniteSet(Named(txs, m))
    BY FS_CardinalityType
  <2>1. IsFiniteSet(1..m) /\ Named(txs, m) \subseteq 1..m
    BY FS_Interval DEF Named
  <2> QED
    BY <2>1, FS_Subset
<1>2. Cardinality(Named(txs, k + 1)) =
        Cardinality(Named(txs, k)) + (IF txs[k + 1].name # NoName THEN 1 ELSE 0)
  <2>1. 1..(k + 1) = (1..k) \cup {k + 1} /\ k + 1 \notin 1..k
    OBVIOUS
  <2>2. CASE txs[k + 1].name # NoName
    <3>1. Named(txs, k + 1) = Named(txs, k) \cup {k + 1} /\ k + 1 \notin Named(txs, k)
      BY <2>1, <2>2 DEF Named
    <3>2. Cardinality(Named(txs, k) \cup {k + 1}) = Cardinality(Named(txs, k)) + 1
      BY <1>1, <3>1, FS_AddElement
    <3> QED
      BY <2>2, <3>1, <3>2
  <2>3. CASE txs[k + 1].name = NoName
    <3>1. Named(txs, k + 1) = Named(txs, k)
      BY <2>1, <2>3 DEF Named
    <3> QED
      BY <1>1, <2>3, <3>1
  <2> QED
    BY <2>2, <2>3
<1>3. ASSUME NEW n \in Named(txs, k)
      PROVE  Cardinality(Named(txs, n)) \in 1..Cardinality(Named(txs, k))
  <2>1. n \in 1..k /\ n \in Named(txs, n) /\ n \in Nat
    BY DEF Named
  <2>2. Named(txs, n) \subseteq Named(txs, k)
    BY <2>1 DEF Named
  <2>3. Cardinality(Named(txs, n)) <= Cardinality(Named(txs, k))
    BY <1>1, <2>2, FS_Subset
  <2>4. Cardinality(Named(txs, n)) # 0
    BY <1>1, <2>1, FS_EmptySet
  <2> QED
    BY <1>1, <2>1, <2>3, <2>4
<1> QED
  BY <1>1, <1>2, <1>3

(* A sum over one position more.                                           *)
LEMMA SumLonger ==
  ASSUME NEW k \in Nat, NEW f, NEW g,
         \A n \in 1..(k + 1) : g[n] \in Int, \A n \in 1..k : f[n] = g[n]
  PROVE  Sum(g, 1..(k + 1)) = Sum(f, 1..k) + g[k + 1]
<1>1. IsFiniteSet(1..k)
  BY FS_Interval
<1>2. 1..(k + 1) = (1..k) \cup {k + 1} /\ k + 1 \notin 1..k
  OBVIOUS
<1>3. Sum(g, 1..(k + 1)) = g[k + 1] + Sum(g, 1..k)
  <2>1. \A n \in (1..k) \cup {k + 1} : g[n] \in Int
    BY <1>2
  <2> QED
    BY <1>1, <1>2, <2>1, SumAdds
<1>4. Sum(g, 1..k) = Sum(f, 1..k)
  <2>1. \A n \in 1..k : g[n] \in Int /\ g[n] = f[n]
    OBVIOUS
  <2> QED
    BY <1>1, <2>1, SumSame
<1>5. Sum(g, 1..k) \in Int /\ g[k + 1] \in Int
  <2>1. \A n \in 1..k : g[n] \in Int
    OBVIOUS
  <2> QED
    BY <1>1, <2>1, SumInt
<1> QED
  BY <1>3, <1>4, <1>5

LEMMA NextToAccounts ==
  ASSUME NEW k \in Nat
  PROVE  /\ ToAccounts(k) \in Int
         /\ ToAccounts(k + 1) = ToAccounts(k) + FreeFermionsAcc
<1> DEFINE f == [n \in 1..k |-> FreeFermionsAcc]
           g == [n \in 1..(k + 1) |-> FreeFermionsAcc]
<1>1. FreeFermionsAcc \in Int
  BY GenesisAssumption
<1>2. /\ \A n \in 1..(k + 1) : g[n] \in Int
      /\ \A n \in 1..k : f[n] = g[n] /\ f[n] \in Int
      /\ g[k + 1] = FreeFermionsAcc
  BY <1>1
<1>3. IsFiniteSet(1..k)
  BY FS_Interval
<1>4. ToAccounts(k) = Sum(f, 1..k) /\ ToAccounts(k + 1) = Sum(g, 1..(k + 1))
  BY DEF ToAccounts
<1> HIDE DEF f, g
<1>5. Sum(f, 1..k) \in Int
  BY <1>2, <1>3, SumInt
<1>6. Sum(g, 1..(k + 1)) = Sum(f, 1..k) + g[k + 1]
  BY <1>2, SumLonger
<1> QED
  BY <1>2, <1>4, <1>5, <1>6

LEMMA NextToValidators ==
  ASSUME NEW vs \in Seq(Validator), NEW v \in Validator
  PROVE  /\ ToValidators(vs) \in Int
         /\ ToValidators(Append(vs, v)) = ToValidators(vs) + FreeFermionVal
<1> DEFINE k == Len(vs)
           ws == Append(vs, v)
           f == [n \in 1..k |-> vs[n].tokens]
           g == [n \in 1..(k + 1) |-> ws[n].tokens]
<1>1. FreeFermionVal \in Int /\ \A w \in Validator : w.tokens = FreeFermionVal
  BY GenesisAssumption DEF Validator
<1>2. k \in Nat /\ DOMAIN vs = 1..k /\ \A n \in 1..k : vs[n] \in Validator
  BY LenProperties
<1>3. /\ DOMAIN ws = 1..(k + 1) /\ ws[k + 1] = v
      /\ \A n \in 1..k : ws[n] = vs[n]
  BY AppendProperties, LenProperties
<1>4. ToValidators(vs) = Sum(f, 1..k) /\ ToValidators(ws) = Sum(g, 1..(k + 1))
  BY <1>2, <1>3 DEF ToValidators
<1> HIDE DEF k, ws
<1>5. \A n \in 1..k : f[n] = FreeFermionVal
  BY <1>1, <1>2
<1>6. \A n \in 1..(k + 1) : g[n] = FreeFermionVal
  <2>1. ASSUME NEW n \in 1..(k + 1) PROVE ws[n] \in Validator
    <3>1. CASE n = k + 1
      BY <1>3, <3>1
    <3>2. CASE n # k + 1
      <4>1. n \in 1..k
        BY <1>2, <3>2
      <4> QED
        BY <1>2, <1>3, <4>1
    <3> QED
      BY <3>1, <3>2
  <2> QED
    BY <1>1, <2>1
<1> HIDE DEF f, g
<1>7. k + 1 \in 1..(k + 1) /\ \A n \in 1..k : n \in 1..(k + 1)
  BY <1>2
<1>8. IsFiniteSet(1..k)
  BY <1>2, FS_Interval
<1>9. Sum(f, 1..k) \in Int
  BY <1>1, <1>5, <1>8, SumInt
<1>10. Sum(g, 1..(k + 1)) = Sum(f, 1..k) + g[k + 1]
  BY <1>1, <1>2, <1>5, <1>6, <1>7, SumLonger
<1> QED
  BY <1>4, <1>6, <1>7, <1>9, <1>10 DEF ws

LEMMA OneOfGenTxs ==
  ASSUME appGenTxs \in Seq(GenTxs), NEW n \in 1..Len(appGenTxs)
  PROVE  appGenTxs[n] \in GenTxs /\ appGenTxs[n].address \in Addresses
<1>1. appGenTxs[n] \in GenTxs
  BY ElementOfSeq
<1> QED
  BY <1>1 DEF GenTxs

LEMMA GenesisInit == Init => GenesisInv
<1> SUFFICES ASSUME Init PROVE GenesisInv
  OBVIOUS
<1>1. appGenTxs \in Seq(GenTxs)
  BY DEF Init
<1>2. /\ i = 0 /\ pc = "generate" /\ genaccs = <<>> /\ looseTokens = 0
      /\ validators = <<>> /\ bonds = <<>> /\ accounts = [a \in Addresses |-> None]
  BY DEF Init
<1>3. Generated = 0 /\ Stored = 0 /\ Len(appGenTxs) \in Nat /\ 1..0 = {}
  BY <1>1, <1>2, LenProperties DEF Generated, Stored
<1>4. GenesisTypes
  BY <1>1, <1>2, <1>3 DEF GenesisTypes
<1>5. AccountsGenerated /\ ValidatorsMade /\ SelfDelegated
  <2>1. Named(appGenTxs, 0) = {}
    BY <1>3 DEF Named
  <2>2. ValidatorsMade
    BY <1>2, <1>3, <2>1, FS_EmptySet DEF ValidatorsMade
  <2> QED
    BY <1>2, <1>3, <2>2 DEF AccountsGenerated, SelfDelegated
<1>6. Counted
  <2>1. DOMAIN validators = {}
    BY <1>2
  <2>2. ToAccounts(0) = 0 /\ ToValidators(validators) = 0
    BY <1>3, <2>1, SumEmpty DEF ToAccounts, ToValidators
  <2> QED
    BY <1>2, <1>3, <2>2 DEF Counted
<1>7. AccountsStored
  BY <1>2, <1>3 DEF AccountsStored
<1> QED
  BY <1>4, <1>5, <1>6, <1>7 DEF GenesisInv

(* What an iteration of ThorchainAppGenState leaves alone and appends.     *)
LEMMA KeptAddGenTx ==
  ASSUME GenesisInv, addGenTx
  PROVE  GenesisInv'
<1> USE DEF GenesisInv
<1> DEFINE genTx == appGenTxs[i + 1]
           acc == NewGenesisAccount(genTx)
           v == NewValidator(genTx)
<1>1. /\ pc = "generate" /\ i < Len(appGenTxs) /\ i \in Nat /\ Len(appGenTxs) \in Nat
      /\ appGenTxs \in Seq(GenTxs) /\ genTx \in GenTxs
  BY LenProperties DEF addGenTx, GenesisTypes
<1>2. /\ i' = i + 1 /\ pc' = pc /\ appGenTxs' = appGenTxs /\ accounts' = accounts
      /\ genaccs' = Append(genaccs, acc)
  BY DEF addGenTx
<1>3. Generated = i /\ Generated' = i + 1 /\ Stored = 0 /\ Stored' = 0 /\ Len(genaccs) = i
  BY <1>1, <1>2 DEF Generated, Stored, AccountsGenerated
<1> HIDE DEF acc
<1>4. /\ Len(genaccs') = i + 1 /\ genaccs'[i + 1] = acc
      /\ \A n \in 1..i : genaccs'[n] = genaccs[n]
      /\ genaccs' \in Seq({NewGenesisAccount(t) : t \in GenTxs})
  <2>1. acc \in {NewGenesisAccount(t) : t \in GenTxs}
    BY <1>1 DEF acc
  <2> QED
    BY <1>2, <1>3, <2>1, AppendProperties DEF GenesisTypes
<1>5. AccountsGenerated'
  <2>1. ASSUME NEW n \in 1..(i + 1) PROVE genaccs'[n] = NewGenesisAccount(appGenTxs[n])
    <3>1. CASE n = i + 1
      BY <1>4, <3>1 DEF acc
    <3>2. CASE n # i + 1
      <4>1. n \in 1..i
        BY <1>1, <3>2
      <4> QED
        BY <1>3, <1>4, <4>1 DEF AccountsGenerated
    <3> QED
      BY <3>1, <3>2
  <2> QED
    BY <1>2, <1>3, <1>4, <2>1 DEF AccountsGenerated
<1>6. AccountsStored'
  BY <1>2, <1>3 DEF AccountsStored
<1>7. /\ validators \in Seq(Validator) /\ Len(validators) \in Nat
      /\ DOMAIN validators = 1..Len(validators)
      /\ bonds \in Seq([delegator : Addresses, validator : Addresses, shares : Nat])
      /\ Len(bonds) = Len(validators)
      /\ v \in Validator /\ v.tokens = FreeFermionVal /\ FreeFermionVal \in Nat
      /\ FreeFermionsAcc \in Nat
      /\ SelfDelegation(v) \in [delegator : Addresses, validator : Addresses, shares : Nat]
  BY <1>1, LenProperties, GenesisAssumption
     DEF GenesisTypes, SelfDelegated, Validator, NewValidator, SelfDelegation, GenTxs
<1>8. ASSUME NEW x \in Nat, NEW y \in Seq(Validator), validators' = y,
             looseTokens' = looseTokens + FreeFermionsAcc + x,
             ToValidators(y) = ToValidators(validators) + x
      PROVE  Counted' /\ GenesisTypes'
  <2>1. looseTokens = ToAccounts(i) + ToValidators(validators)
    BY <1>3 DEF Counted
  <2>2. Counted' <=> looseTokens' = ToAccounts(i + 1) + ToValidators(y)
    BY <1>3, <1>8 DEF Counted
  <2>3. ToAccounts(i) \in Int /\ ToAccounts(i + 1) = ToAccounts(i) + FreeFermionsAcc
    BY <1>1, NextToAccounts
  <2>4. ToValidators(validators) \in Int
    BY <1>7, NextToValidators
  <2>5. Counted' /\ looseTokens' \in Int
    BY <1>7, <1>8, <2>1, <2>2, <2>3, <2>4
  <2> QED
    BY <1>1, <1>2, <1>4, <1>8, <2>5 DEF GenesisTypes
<1>9. CASE genTx.name # NoName
  <2>1. /\ validators' = Append(validators, v)
        /\ bonds' = Append(bonds, SelfDelegation(v))
        /\ looseTokens' = looseTokens + FreeFermionsAcc + FreeFermionVal
    BY <1>9 DEF addGenTx
  <2> DEFINE k == Len(validators)
             y == Append(validators, v)
             d == SelfDelegation(v)
  <2>2. /\ y \in Seq(Validator) /\ Len(y) = k + 1 /\ DOMAIN y = 1..(k + 1) /\ y[k + 1] = v
        /\ \A n \in 1..k : y[n] = validators[n]
    BY <1>7, AppendProperties, LenProperties
  <2>3. /\ bonds' \in Seq([delegator : Addresses, validator : Addresses, shares : Nat])
        /\ Len(bonds') = k + 1 /\ bonds'[k + 1] = d
        /\ \A n \in 1..k : bonds'[n] = bonds[n]
    BY <1>7, <2>1, AppendProperties
  <2>4. SelfDelegated'
    <3>1. ASSUME NEW n \in 1..(k + 1) PROVE bonds'[n] = SelfDelegation(y[n])
      <4>1. CASE n = k + 1
        BY <2>2, <2>3, <4>1
      <4>2. CASE n # k + 1
        <5>1. n \in 1..k
          BY <1>7, <4>2
        <5> QED
          BY <2>2, <2>3, <5>1 DEF SelfDelegated
      <4> QED
        BY <4>1, <4>2
    <3> QED
      BY <2>1, <2>2, <2>3, <3>1 DEF SelfDelegated
  <2>5. ToValidators(y) = ToValidators(validators) + FreeFermionVal
    BY <1>7, NextToValidators
  <2>v. ValidatorsMade'
    <3>1. /\ Cardinality(Named(appGenTxs, i)) = k
          /\ Cardinality(Named(appGenTxs, i + 1)) = k + 1
      BY <1>1, <1>3, <1>9, NamedPlaces DEF ValidatorsMade
    <3>2. ASSUME NEW n \in Named(appGenTxs, i + 1)
          PROVE  y[Cardinality(Named(appGenTxs, n))] = NewValidator(appGenTxs[n])
      <4>1. CASE n = i + 1
        BY <2>2, <3>1, <4>1
      <4>2. CASE n # i + 1
        <5>1. n \in Named(appGenTxs, i)
          BY <1>1, <4>2 DEF Named
        <5>2. Cardinality(Named(appGenTxs, n)) \in 1..k
          BY <1>1, <3>1, <5>1, NamedPlaces
        <5>3. validators[Cardinality(Named(appGenTxs, n))] = NewValidator(appGenTxs[n])
          BY <1>3, <5>1 DEF ValidatorsMade
        <5> QED
          BY <2>2, <5>2, <5>3
      <4> QED
        BY <4>1, <4>2
    <3> QED
      BY <1>2, <1>3, <2>1, <2>2, <3>1, <3>2 DEF ValidatorsMade
  <2> HIDE DEF y, v, k
  <2>6. Counted' /\ GenesisTypes'
    <3>1. FreeFermionVal \in Nat /\ y \in Seq(Validator) /\ validators' = y
      BY <1>7, <2>1, <2>2 DEF y
    <3> QED
      BY <1>8, <2>1, <2>5, <3>1
  <2> QED
    BY <1>5, <1>6, <2>4, <2>v, <2>6
<1>10. CASE genTx.name = NoName
  <2>1. /\ validators' = validators /\ bonds' = bonds
        /\ looseTokens' = looseTokens + FreeFermionsAcc + 0
    BY <1>10 DEF addGenTx
  <2>2. SelfDelegated'
    BY <2>1 DEF SelfDelegated
  <2>v. ValidatorsMade'
    <3>1. Named(appGenTxs, i + 1) = Named(appGenTxs, i)
      BY <1>1, <1>10 DEF Named
    <3> QED
      BY <1>2, <1>3, <2>1, <3>1 DEF ValidatorsMade
  <2>3. ToValidators(validators) \in Int
    BY <1>7, NextToValidators
  <2>4. ToValidators(validators) = ToValidators(validators) + 0
    BY <2>3
  <2>5. Counted' /\ GenesisTypes'
    BY <1>7, <1>8, <2>1, <2>4
  <2> QED
    BY <1>5, <1>6, <2>2, <2>v, <2>5
<1> QED
  BY <1>9, <1>10

LEMMA KeptGenesisState ==
  ASSUME GenesisInv, genesisState
  PROVE  GenesisInv'
<1> USE DEF GenesisInv
<1>1. /\ pc = "generate" /\ i = Len(appGenTxs) /\ i' = 0 /\ appGenTxs' = appGenTxs
      /\ pc' = IF appGenTxs = <<>> THEN "done" ELSE "load"
      /\ genaccs' = genaccs /\ looseTokens' = looseTokens
      /\ validators' = validators /\ bonds' = bonds /\ accounts' = accounts
  BY DEF genesisState, genesis
<1>2. Len(appGenTxs) \in Nat /\ (appGenTxs = <<>> => Len(appGenTxs) = 0)
  BY LenProperties DEF GenesisTypes
<1>3. pc' \in {"load", "done"} /\ pc' # "generate" /\ (pc' = "done" => Len(appGenTxs) = 0)
  BY <1>1, <1>2
<1>4. Generated = Len(appGenTxs) /\ Generated' = Generated /\ Stored = 0 /\ Stored' = 0
  BY <1>1, <1>3 DEF Generated, Stored
<1>5. GenesisTypes'
  BY <1>1, <1>2, <1>3 DEF GenesisTypes
<1>6. AccountsGenerated' /\ ValidatorsMade' /\ SelfDelegated' /\ Counted'
  BY <1>1, <1>4 DEF AccountsGenerated, ValidatorsMade, SelfDelegated, Counted
<1>7. AccountsStored'
  BY <1>1, <1>4 DEF AccountsStored
<1> QED
  BY <1>5, <1>6, <1>7

(* initChainer stores the account of the next transaction.                 *)
LEMMA KeptLoadAccount ==
  ASSUME GenesisInv, loadAccount
  PROVE  GenesisInv'
<1> USE DEF GenesisInv
<1> DEFINE k == i + 1
           genTx == appGenTxs[k]
           coins == ToAccount(NewGenesisAccount(genTx))
           stored == [number |-> i, coins |-> coins]
<1>1. /\ pc = "load" /\ i' = i + 1 /\ pc' = pc /\ appGenTxs' = appGenTxs
      /\ genaccs' = genaccs /\ looseTokens' = looseTokens
      /\ validators' = validators /\ bonds' = bonds
      /\ i < Len(genaccs)
  BY DEF loadAccount, genesis
<1>2. /\ Generated = Len(appGenTxs) /\ Generated' = Generated
      /\ Stored = i /\ Stored' = k
  BY <1>1 DEF Generated, Stored
<1>3. /\ i \in Nat /\ Len(appGenTxs) \in Nat /\ k \in 1..Len(appGenTxs)
      /\ genTx \in GenTxs
  BY <1>1, <1>2, LenProperties DEF GenesisTypes, AccountsGenerated
<1>4. genaccs[k] = NewGenesisAccount(genTx)
  BY <1>2, <1>3 DEF AccountsGenerated
<1>5. genTx.address \in Addresses /\ genaccs[k].address = genTx.address
  BY <1>3, <1>4 DEF GenTxs, NewGenesisAccount
<1>6. accounts' = [accounts EXCEPT ![genTx.address] = stored]
  BY <1>4, <1>5 DEF loadAccount
<1>7. coins \in Seq([denom : Int, amount : Nat])
  BY <1>3, CoinsOfAccount
<1>8. stored \in Account /\ stored # None /\ stored.coins = coins
  <2> HIDE DEF coins
  <2>1. stored \in Account
    BY <1>3, <1>7 DEF Account
  <2> QED
    BY <2>1, GenesisAssumption DEF Account
<1>9. GenesisTypes'
  BY <1>1, <1>3 DEF GenesisTypes
<1>10. AccountsGenerated' /\ ValidatorsMade' /\ SelfDelegated' /\ Counted'
  BY <1>1, <1>2 DEF AccountsGenerated, ValidatorsMade, SelfDelegated, Counted
<1>11. AccountsStored'
  <2> HIDE DEF stored
  <2>1. /\ accounts \in [Addresses -> Account \cup {None}]
        /\ accounts' \in [Addresses -> Account \cup {None}]
        /\ accounts'[genTx.address] = stored
        /\ \A a \in Addresses \ {genTx.address} : accounts'[a] = accounts[a]
    BY <1>5, <1>6, <1>8 DEF AccountsStored
  <2>2. ASSUME NEW n \in 1..k PROVE accounts'[appGenTxs[n].address] # None
    <3>1. CASE appGenTxs[n].address = genTx.address
      BY <1>8, <2>1, <3>1
    <3>2. CASE appGenTxs[n].address # genTx.address
      <4>1. n \in 1..i /\ n \in 1..Len(appGenTxs)
        BY <1>3, <3>2
      <4>2. appGenTxs[n].address \in Addresses
        BY <4>1, OneOfGenTxs DEF GenesisTypes
      <4>3. accounts[appGenTxs[n].address] # None
        BY <1>2, <4>1 DEF AccountsStored
      <4> QED
        BY <2>1, <3>2, <4>2, <4>3
    <3> QED
      BY <3>1, <3>2
  <2>3. ASSUME NEW a \in Addresses, accounts'[a] # None
        PROVE  \E n \in 1..k :
                 /\ appGenTxs[n].address = a
                 /\ accounts'[a].coins = ToAccount(NewGenesisAccount(appGenTxs[n]))
    <3>1. CASE a = genTx.address
      <4>1. k \in 1..k /\ appGenTxs[k].address = a
        BY <1>3, <3>1
      <4>2. accounts'[a].coins = ToAccount(NewGenesisAccount(appGenTxs[k]))
        BY <1>8, <2>1, <3>1
      <4> QED
        BY <4>1, <4>2
    <3>2. CASE a # genTx.address
      <4>1. accounts'[a] = accounts[a]
        BY <2>1, <3>2
      <4>2. PICK n \in 1..i :
              /\ appGenTxs[n].address = a
              /\ accounts[a].coins = ToAccount(NewGenesisAccount(appGenTxs[n]))
        BY <1>2, <2>3, <4>1 DEF AccountsStored
      <4>3. n \in 1..k
        BY <1>3
      <4> QED
        BY <4>1, <4>2, <4>3
    <3> QED
      BY <3>1, <3>2
  <2> HIDE DEF k
  <2> QED
    BY <1>1, <1>2, <2>1, <2>2, <2>3 DEF AccountsStored
<1> QED
  BY <1>9, <1>10, <1>11

LEMMA KeptInitChainer ==
  ASSUME GenesisInv, initChainer
  PROVE  GenesisInv'
<1> USE DEF GenesisInv
<1>1. /\ pc = "load" /\ i' = i /\ pc' = "done" /\ appGenTxs' = appGenTxs
      /\ genaccs' = genaccs /\ looseTokens' = looseTokens
      /\ validators' = validators /\ bonds' = bonds /\ accounts' = accounts
      /\ i = Len(genaccs)
  BY DEF initChainer, genesis
<1>2. Generated = Len(appGenTxs) /\ Generated' = Generated /\ Stored = i /\ Stored' = Stored
  BY <1>1 DEF Generated, Stored
<1>3. i = Len(appGenTxs)
  BY <1>1, <1>2 DEF AccountsGenerated
<1>4. GenesisTypes'
  BY <1>1, <1>3 DEF GenesisTypes
<1>5. AccountsGenerated' /\ ValidatorsMade' /\ SelfDelegated' /\ Counted'
  BY <1>1, <1>2 DEF AccountsGenerated, ValidatorsMade, SelfDelegated, Counted
<1>6. AccountsStored'
  BY <1>1, <1>2 DEF AccountsStored
<1> QED
  BY <1>4, <1>5, <1>6

LEMMA GenesisStutters ==
  ASSUME GenesisInv, UNCHANGED vars
  PROVE  GenesisInv'
<1>1. /\ i' = i /\ pc' = pc /\ appGenTxs' = appGenTxs /\ genaccs' = genaccs
      /\ looseTokens' = looseTokens /\ validators' = validators /\ bonds' = bonds
      /\ accounts' = accounts
  BY DEF vars, genesis
<1>2. Generated' = Generated /\ Stored' = Stored
  BY <1>1 DEF Generated, Stored
<1>3. /\ GenesisTypes' /\ AccountsGenerated' /\ ValidatorsMade' /\ SelfDelegated'
      /\ Counted' /\ AccountsStored'
  BY <1>1, <1>2
     DEF GenesisInv, GenesisTypes, AccountsGenerated, ValidatorsMade, SelfDelegated,
         Counted, AccountsStored
<1> QED
  BY <1>3 DEF GenesisInv

(* However many genesis transactions there are, up to the one that is      *)
(* being turned into genesis state each has its account, and each named    *)
(* one its validator, in the order of the transactions, with a delegation  *)
(* of all its shares; there is no validator and no delegation but these,   *)
(* and the pool counts what accounts and validators were given.  Up to the *)
(* one that is being loaded, each has its account in the store.            *)
THEOREM GenesisAlways == Spec => []GenesisInv
<1>1. Init => GenesisInv
  BY GenesisInit
<1>2. GenesisInv /\ [Next]_vars => GenesisInv'
  BY KeptAddGenTx, KeptGenesisState, KeptLoadAccount, KeptInitChainer, GenesisStutters
     DEF Next
<1> QED
  BY <1>1, <1>2, PTL DEF Spec

-----------------------------------------------------------------------------
(* What follows.                                                           *)

(* ToAccount sorts the coins that addGenTx lists in the order of the file: *)
(* AmountOf, a binary search, finds each coin of every loaded account,     *)
(* whether RUNE comes before or after the token of the account.            *)
THEOREM CoinsAlwaysFound == Spec => []CoinsFound
<1>1. GenesisInv => CoinsFound
  <2> SUFFICES ASSUME GenesisInv, NEW a \in Loaded PROVE
                 \A n \in DOMAIN accounts[a].coins :
                   AmountOf(accounts[a].coins, accounts[a].coins[n].denom)
                     = accounts[a].coins[n].amount
    BY DEF CoinsFound
  <2>1. PICK m \in 1..Stored :
          accounts[a].coins = ToAccount(NewGenesisAccount(appGenTxs[m]))
    BY DEF GenesisInv, AccountsStored, Loaded
  <2>2. appGenTxs[m] \in GenTxs
    <3>1. m \in 1..Len(appGenTxs)
      BY LenProperties DEF GenesisInv, GenesisTypes, Stored
    <3> QED
      BY <3>1 DEF GenesisInv, GenesisTypes
  <2> QED
    BY <2>1, <2>2, CoinsOfAccount
<1> QED
  BY <1>1, GenesisAlways, PTL

(* addGenTx makes a delegation with every validator and none without one:  *)
(* the shares of a validator are those of its delegations at any time.     *)
THEOREM SharesAlwaysDelegated == Spec => []SharesDelegated
<1>1. GenesisInv => SharesDelegated
  <2> SUFFICES ASSUME GenesisInv, NEW a \in Addresses
               PROVE  SumFunctionOnSet([n \in DOMAIN validators |-> validators[n].shares],
                        {n \in DOMAIN validators : validators[n].owner = a})
                      = SumFunctionOnSet([n \in DOMAIN bonds |-> bonds[n].shares],
                          {n \in DOMAIN bonds : bonds[n].validator = a})
    BY DEF SharesDelegated
  <2>1. DOMAIN validators = 1..Len(validators) /\ DOMAIN bonds = DOMAIN validators
    BY LenProperties DEF GenesisInv, GenesisTypes, SelfDelegated
  <2>2. \A n \in DOMAIN validators :
          bonds[n].shares = validators[n].shares /\ bonds[n].validator = validators[n].owner
    BY <2>1 DEF GenesisInv, SelfDelegated, SelfDelegation
  <2>3. [n \in DOMAIN validators |-> validators[n].shares]
          = [n \in DOMAIN bonds |-> bonds[n].shares]
    BY <2>1, <2>2
  <2>4. {n \in DOMAIN validators : validators[n].owner = a}
          = {n \in DOMAIN bonds : bonds[n].validator = a}
    BY <2>1, <2>2
  <2> QED
    BY <2>3, <2>4
<1> QED
  BY <1>1, GenesisAlways, PTL

(* The accounts of different transactions are different, if the addresses  *)
(* are: what the loaded accounts can spend is what the pool was given for  *)
(* all accounts.                                                           *)
LEMMA AllAccountsLoaded ==
  ASSUME GenesisInv, pc = "done", DistinctAddresses
  PROVE  SumFunctionOnSet([a \in Loaded |-> AmountOf(accounts[a].coins, RUNE)], Loaded)
           = ToAccounts(Generated)
<1> DEFINE T == 1..Len(appGenTxs)
           r == [n \in T |-> appGenTxs[n].address]
           f == [n \in T |-> FreeFermionsAcc]
           g == [a \in Loaded |-> AmountOf(accounts[a].coins, RUNE)]
<1>1. Generated = Len(appGenTxs) /\ Stored = Len(appGenTxs) /\ Len(appGenTxs) \in Nat
  BY LenProperties DEF GenesisInv, GenesisTypes, Generated, Stored
<1>2. \A n \in T : appGenTxs[n] \in GenTxs /\ appGenTxs[n].address \in Addresses
  BY OneOfGenTxs DEF GenesisInv, GenesisTypes
<1>3. \A n \in T : appGenTxs[n].address \in Loaded
  BY <1>1, <1>2 DEF GenesisInv, AccountsStored, Loaded
<1>4. ASSUME NEW a \in Loaded
      PROVE  \E n \in T : appGenTxs[n].address = a
                          /\ AmountOf(accounts[a].coins, RUNE) = FreeFermionsAcc
  <2>1. PICK n \in T : /\ appGenTxs[n].address = a
                       /\ accounts[a].coins = ToAccount(NewGenesisAccount(appGenTxs[n]))
    BY <1>1 DEF GenesisInv, AccountsStored, Loaded
  <2>2. AmountOf(ToAccount(NewGenesisAccount(appGenTxs[n])), RUNE) = FreeFermionsAcc
    BY <1>2, CoinsOfAccount
  <2> QED
    BY <2>1, <2>2
<1>5. Renames(r, T, Loaded)
  <2>1. \A n \in T : r[n] \in Loaded
    BY <1>3
  <2>2. \A m, n \in T : r[m] = r[n] => m = n
    BY DEF DistinctAddresses
  <2>3. \A a \in Loaded : \E n \in T : r[n] = a
    BY <1>4
  <2> HIDE DEF r, T
  <2> QED
    BY <2>1, <2>2, <2>3 DEF Renames
<1>6. \A n \in T : f[n] \in Int /\ g[r[n]] = f[n]
  <2>1. FreeFermionsAcc \in Int
    BY GenesisAssumption
  <2>2. \A a \in Loaded : g[a] = FreeFermionsAcc
    BY <1>4
  <2>3. \A n \in T : r[n] \in Loaded
    BY <1>3
  <2>4. \A n \in T : f[n] = FreeFermionsAcc
    OBVIOUS
  <2> HIDE DEF f, g, r, T
  <2> QED
    BY <2>1, <2>2, <2>3, <2>4
<1>7. IsFiniteSet(T)
  BY <1>1, FS_Interval
<1>8. ToAccounts(Generated) = Sum(f, T)
  BY <1>1 DEF ToAccounts
<1> HIDE DEF f, g, r, T
<1>9. Sum(g, Loaded) = Sum(f, T)
  BY <1>5, <1>6, <1>7, SumRenamed
<1> QED
  BY <1>8, <1>9 DEF g, Sum

(* The pool that initChainer hands on unchecked agrees with what it stores *)
(* beside it: the loose tokens are the RUNE the loaded accounts can spend  *)
(* and the tokens of the validators, for any number of genesis             *)
(* transactions with different addresses.                                  *)
THEOREM SupplyAlwaysCounted == Spec => []SupplyCounted
<1>1. GenesisInv => SupplyCounted
  <2> SUFFICES ASSUME GenesisInv, pc = "done", DistinctAddresses
               PROVE  looseTokens =
                 SumFunctionOnSet([a \in Loaded |-> AmountOf(accounts[a].coins, RUNE)], Loaded)
                 + SumFunctionOnSet([n \in DOMAIN validators |-> validators[n].tokens],
                                    DOMAIN validators)
    BY DEF SupplyCounted
  <2>1. looseTokens = ToAccounts(Generated) + ToValidators(validators)
    BY DEF GenesisInv, Counted
  <2>2. ToValidators(validators) =
          SumFunctionOnSet([n \in DOMAIN validators |-> validators[n].tokens],
                           DOMAIN validators)
    BY DEF ToValidators, Sum
  <2> QED
    BY <2>1, <2>2, AllAccountsLoaded
<1> QED
  BY <1>1, GenesisAlways, PTL
=============================================================================
