------------------------------- MODULE Genesis -------------------------------
(***************************************************************************)
(* The first state of a chain: ThorchainAppGenState turns the genesis      *)
(* transactions of the validators into a genesis state (app/genesis.go),   *)
(* and initChainer loads it into the stores (app/app.go).  The staking     *)
(* module checks nothing: the pool it is given has to agree with the       *)
(* accounts and the validators.                                            *)
(***************************************************************************)
EXTENDS Integers, Sequences, FiniteSets, FiniteSetsExt, Functions

CONSTANTS
  Addresses,
  Names,            \* monikers; a moniker stands for the place its token
                    \* takes among the denoms
  NoName,           \* the empty moniker, likewise
  RUNE,             \* the place of RUNE among the denoms
  FreeFermionVal,   \* given to a validator (100)
  FreeFermionsAcc,  \* given to an account (50000000000)
  MaxGenTxs,        \* genesis transactions (bound)
  None              \* no account

ASSUME GenesisAssumption ==
  /\ Names \subseteq Int
  /\ NoName \in Names
  /\ RUNE \in Int \ Names
  /\ FreeFermionVal \in Nat /\ FreeFermionsAcc \in Nat
  /\ None \notin [number : Nat, coins : Seq([denom : Int, amount : Nat])]

(* ThorchainAppGenTx insists on a name, ThorchainAppGenTxNF does not.      *)
GenTxs == [name : Names, address : Addresses]

VARIABLES
  appGenTxs,      \* the input
  i,              \* how many of them, or of the accounts, are done
  pc,             \* "generate", "load" or "done"
  genaccs,        \* the genesis accounts
  looseTokens,    \* of the pool in the stake data
  validators, bonds,
  accounts        \* what the account mapper holds (external)

genesis == <<genaccs, looseTokens, validators, bonds>>
vars == <<appGenTxs, i, pc, genesis, accounts>>

Init ==
  /\ appGenTxs \in UNION {[1..n -> GenTxs] : n \in 0..MaxGenTxs}
  /\ i = 0
  /\ pc = "generate"
  /\ genaccs = <<>>
  /\ looseTokens = 0
  /\ validators = <<>>
  /\ bonds = <<>>
  /\ accounts = [a \in Addresses |-> None]

Coin(denom, amount) == [denom |-> denom, amount |-> amount]

NewGenesisAccount(genTx) ==
  [address |-> genTx.address,
   coins   |-> <<Coin(genTx.name, 1000), Coin(RUNE, FreeFermionsAcc)>>]

(* AddTokensFromDel on a new validator, which is not bonded: its tokens    *)
(* stay loose, and a share is issued for each (external).                  *)
NewValidator(genTx) ==
  [owner |-> genTx.address, tokens |-> FreeFermionVal, shares |-> FreeFermionVal]

SelfDelegation(validator) ==
  [delegator |-> validator.owner, validator |-> validator.owner,
   shares |-> validator.shares]

(* Faulty variant: the tokens of the validator are not counted.            *)
addGenTx_NotCounted ==
  LET genTx == appGenTxs[i + 1]
  IN  /\ pc = "generate" /\ i < Len(appGenTxs)
      /\ i' = i + 1
      /\ genaccs' = Append(genaccs, NewGenesisAccount(genTx))
      /\ looseTokens' = looseTokens + FreeFermionsAcc
      /\ validators' = IF genTx.name = NoName THEN validators
                       ELSE Append(validators, NewValidator(genTx))
      /\ bonds' = IF genTx.name = NoName THEN bonds
                  ELSE Append(bonds, SelfDelegation(NewValidator(genTx)))
      /\ UNCHANGED <<appGenTxs, pc, accounts>>

(* Faulty variant: the delegation is made without a validator too.         *)
addGenTx_AlwaysDelegates ==
  LET genTx == appGenTxs[i + 1]
  IN  /\ pc = "generate" /\ i < Len(appGenTxs)
      /\ i' = i + 1
      /\ genaccs' = Append(genaccs, NewGenesisAccount(genTx))
      /\ looseTokens' = looseTokens + FreeFermionsAcc + FreeFermionVal
      /\ validators' = IF genTx.name = NoName THEN validators
                       ELSE Append(validators, NewValidator(genTx))
      /\ bonds' = Append(bonds, SelfDelegation(NewValidator(genTx)))
      /\ UNCHANGED <<appGenTxs, pc, accounts>>

(* One iteration of the loop of ThorchainAppGenState.                      *)
addGenTx ==
  LET genTx == appGenTxs[i + 1]
      named == genTx.name # NoName
  IN  /\ pc = "generate" /\ i < Len(appGenTxs)
      /\ i' = i + 1
      /\ genaccs' = Append(genaccs, NewGenesisAccount(genTx))
      /\ looseTokens' = looseTokens + FreeFermionsAcc
                          + (IF named THEN FreeFermionVal ELSE 0)
      /\ validators' = IF named THEN Append(validators, NewValidator(genTx))
                       ELSE validators
      /\ bonds' = IF named THEN Append(bonds, SelfDelegation(NewValidator(genTx)))
                  ELSE bonds
      /\ UNCHANGED <<appGenTxs, pc, accounts>>

(* The genesis state is complete; without a transaction it is an error.    *)
genesisState ==
  /\ pc = "generate" /\ i = Len(appGenTxs)
  /\ pc' = IF appGenTxs = <<>> THEN "done" ELSE "load"
  /\ i' = 0
  /\ UNCHANGED <<appGenTxs, genesis, accounts>>

(* Faulty variant: the coins stay in the order of the file.                *)
ToAccount_Unsorted(gacc) == gacc.coins

(* The sequences with the elements of s in any order.                      *)
Rearranged(s) ==
  {[n \in DOMAIN s |-> s[p[n]]] : p \in Bijection(DOMAIN s, DOMAIN s)}

(* ToAccount sorts the coins.                                              *)
ToAccount(gacc) ==
  CHOOSE coins \in Rearranged(gacc.coins) :
    \A m, n \in DOMAIN coins : m < n => coins[m].denom <= coins[n].denom

(* The loop of initChainer over the accounts.                              *)
loadAccount ==
  /\ pc = "load" /\ i < Len(genaccs)
  /\ i' = i + 1
  /\ accounts' = [accounts EXCEPT ![genaccs[i + 1].address] =
                    [number |-> i, coins |-> ToAccount(genaccs[i + 1])]]
  /\ UNCHANGED <<appGenTxs, pc, genesis>>

(* The rest of initChainer: the stake data is handed to stake.InitGenesis, *)
(* which is external.  It stores the pool, the validators and the          *)
(* delegations and derives more from them, such as who is bonded; here     *)
(* they stay what they were when they were handed over.                    *)
initChainer ==
  /\ pc = "load" /\ i = Len(genaccs)
  /\ pc' = "done"
  /\ UNCHANGED <<appGenTxs, i, genesis, accounts>>

Next == addGenTx \/ genesisState \/ loadAccount \/ initChainer

Spec == Init /\ [][Next]_vars

-----------------------------------------------------------------------------
(* Properties.                                                             *)

Loaded == {a \in Addresses : accounts[a] # None}

(* AmountOf of sdk.Coins finds a coin by binary search over the denoms,    *)
(* here of two coins: it finds both only if they are in order (external).  *)
AmountOf(coins, denom) ==
  LET mid == Len(coins) \div 2 + 1
      at  == IF denom < coins[mid].denom THEN mid - 1
             ELSE IF denom > coins[mid].denom THEN mid + 1 ELSE mid
  IN  IF at \in 1..Len(coins) /\ coins[at].denom = denom
      THEN coins[at].amount ELSE 0

DistinctAddresses ==
  \A m, n \in 1..Len(appGenTxs) :
    appGenTxs[m].address = appGenTxs[n].address => m = n

(* The loose tokens of the pool that stake.InitGenesis is given are the    *)
(* RUNE that the loaded accounts can spend and the tokens of the           *)
(* validators, none of which is bonded yet, if no two genesis transactions *)
(* are for one address.                                                    *)
SupplyCounted ==
  pc = "done" /\ DistinctAddresses =>
    looseTokens =
      SumFunctionOnSet([a \in Loaded |-> AmountOf(accounts[a].coins, RUNE)], Loaded)
      + SumFunctionOnSet([n \in DOMAIN validators |-> validators[n].tokens],
                         DOMAIN validators)

(* The shares of a validator are the shares of its delegations, and there  *)
(* is no delegation without a validator: unbonding pays out what was       *)
(* bonded.                                                                 *)
SharesDelegated ==
  \A a \in Addresses :
    SumFunctionOnSet([n \in DOMAIN validators |-> validators[n].shares],
                     {n \in DOMAIN validators : validators[n].owner = a})
    = SumFunctionOnSet([n \in DOMAIN bonds |-> bonds[n].shares],
                       {n \in DOMAIN bonds : bonds[n].validator = a})

(* An account can spend its token and its RUNE, whichever comes first      *)
(* among the denoms.                                                       *)
CoinsFound ==
  \A a \in Loaded : \A n \in DOMAIN accounts[a].coins :
    AmountOf(accounts[a].coins, accounts[a].coins[n].denom)
      = accounts[a].coins[n].amount
=============================================================================
