# THORChain in TLA+

THORChain (v1) is a blockchain application on the cosmos-sdk and Tendermint. Its own logic is a
decentralised exchange with limit orders (`x/exchange`), continuous liquidity pools (`x/clp`), the
application that wires them to the sdk (`app`), and a load generator (`cmd/thorchainspam`). This
directory models these parts in TLA+, checks them with TLC on small instances and proves some of the
properties with TLAPS for every instance. `PROJECT.json` lists the runs, the source lines behind every
definition, the hazards, and the theorems.

## 1. The system

### x/exchange

*State.* In the module's store: one order book per kind (buy or sell) and pair of denoms, and the next
order ID. In the bank: the balances. A stored order has its coins locked: they are subtracted from the
sender's balance and exist only as the order.

*Operations.* `MsgCreateLimitOrder` is checked (`ValidateBasic`, the head of `processLimitOrder`), matched
against the opposite book order by order (`fillOrderIfPossible`), and what is not filled is stored and
locked (`storeUnfilledLimitOrder`). At the start of every block `refundExpiredLimitOrders` removes the
expired orders from all books and gives the locked coins back. `InitGenesis` sets the first order ID;
`WriteGenesis` exports the next one.

*What is hard.* The balance check is made before the fills and the lock after them, at other prices and
possibly against the sender's own orders. The matching loop relies on the books being sorted. The clock
is the wall clock of the node, read at several points, and the loop does not look at expiry. Books, IDs
and balances are written at different points of a transaction that can fail in between.

*What makes it correct.* Books in price-time order and never crossed; every fill at the price of the stored
order and within the limit of the new one; no transaction half settled; coins neither created nor lost;
expired orders refunded once and not filled in later blocks; IDs unique; coins not locked for ever.

### x/clp

*State.* A record per ticker, and an account per pool that holds base coins (RUNE) and unsold tokens.

*Operations.* `create` opens a pool and mints its supply. `trade` buys tokens for base coins, sells them, or
sells at one pool and buys at another. The amount comes from a formula in floating point, rounded and
converted to `int64`.

*What is hard.* The bank errors of both transfers are ignored; the formula divides by a balance that can be
zero; the conversion of a float that does not fit is up to the processor. Whether a pool exists is told by the ticker
of the record that is read, and nothing refuses the empty ticker: its pool is stored and never found.

The REST handlers of `x/clp` answer with a pool's record, its balances and its price, which they collect in
several queries while blocks are being committed.

*What makes it correct.* Coins are minted only by `create`, once for a ticker; a trade moves what its log says;
nothing goes below zero; a response shows a pool as it was at one height.

### app

Calls the begin blocker of the exchange, builds the first genesis state from the genesis transactions of the
validators (`ThorchainAppGenState`), loads a genesis file (`initChainer`), and exports the state to one. Transactions
and begin blockers are executed one at a time, and a transaction that fails or panics is discarded (baseapp,
external). `NewThorchainApp` loads the last committed version of the stores, from which a node that crashed inside a
block goes on; every node of the network executes the same blocks, but by its own clock. What makes the processing
correct: a block that is executed twice counts once, and nodes on equal machines disagree for no other reason than
their clocks (on different processors the conversion of a float in `x/clp` may be another reason; `Replicas` has no
pools). What makes a genesis state correct: the staking pool, which nobody checks, agrees with the accounts and
validators; every validator has its delegation; every coin of an account can be found.

### cmd/thorchainspam

`account ensure` creates keys and funds them. `txs send` starts a goroutine per key that looks its account
up (`createSpammers`, `SpawnSpammer`), at most 50 at a time, and then starts a goroutine per transaction,
round robin over the spammers (`send`). Goroutines of one spammer share its sequence number and exclude
each other with a channel that holds one value. It is the only concurrent code of the repository.

*What is hard.* A slice appended to without a lock; a semaphore and a channel value that every return path
must give back; asynchronous broadcasts that report success for transactions the node drops, so that the
local sequence runs away from the chain's; `account ensure` keeps keys in one place and coins in another, may be
killed between the two, and is run again.

### The rest

`cmd/thorchaind`, `cmd/thorchaincli`, `cmd/thorchaindebug`, the clients that send messages, and the scripts
for networks parse input and wire sdk code together. They keep no state and are not modelled (section 6).

## 2. Modules

| Module | Models | Extends |
| --- | --- | --- |
| `Bank` | the operations of the sdk's bank keeper that the modules call (external) | |
| `OrderBook` | `order_book.go`, `limit_order.go`: data and pure functions | |
| `Exchange` | `keeper.go`, handler, message, begin blocker of `x/exchange` | `Bank`, `OrderBook` |
| `Trade` | what one accepted order and one expiry do to balances and open orders, without books and loops | |
| `Escrow` | the abstract specification of the exchange | `Trade` |
| `ExchangeEscrow` | the refinement mapping from `Exchange` to `Escrow` | `Exchange` (instance of `Escrow`) |
| `Replicas` | the exchange on several nodes: blocks, clocks, crashes, commits | `Trade` |
| `ChainExport` | export and restart of a chain with an exchange | `Exchange` |
| `CLP` | `keeper.go` and handler of `x/clp` | `Bank` |
| `ClpQuery` | the REST queries of `x/clp`, composed with its messages | `CLP` |
| `Genesis` | `ThorchainAppGenState` and what `initChainer` makes of its result | |
| `SpawnSpammer` | `createSpammers`, `SpawnSpammer` | |
| `Spammer` | `GetTxsSend`, `send`, `updateSequenceAndCoins`, and the node they talk to | |
| `EnsureAccounts` | `account ensure`, run again and again, and the node it talks to | |
| `SumProofs` | lemmas about sums over finite sets | |
| `ExchangeProofs` | theorems about the operators of `OrderBook`, the running transaction, the books, the coins, and that the exchange implements `Escrow` | `ExchangeEscrow`, `SumProofs` |
| `ReplicasProofs` | theorems about the nodes and what `Trade` makes of a state | `Replicas`, `SumProofs` |
| `ClpProofs` | theorems about the pools and the queries | `ClpQuery`, `SumProofs` |
| `GenesisProofs` | theorems about the first state of a chain, and what sorting two coins yields | `Genesis`, `SumProofs` |
| `SpawnSpammerProofs`, `SpammerProofs`, `EnsureAccountsProofs` | theorems | the module of the name |
| `MC...` | instances for TLC | the module of the name |

Operators with a suffix (`Crosses_Strict`, `spawn_NoAdd`) are faulty variants of the operator before the
underscore. No specification uses them; each is put in the place of its original to see that a property
fails.

**Exchange.** `coins`, `books` and `nextOrderID` are the stores as the running block sees them. A
transaction is cut into steps: `processLimitOrder` (all checks, then the matching book is read),
`fillStoredOrder` (one iteration of the loop, on the copy `orderBook`), `fillEnd` (filled orders removed,
book saved), `storeUnfilledLimitOrder`. `saved` is what the transaction is rolled back to: `outOfGas` may
end it at any step, and an error in the loop or of the lock ends it too. Messages that fail a check change
nothing and take no step. `BeginBlocker` reads the clock once, saves the books without expired orders, and
leaves them in `toRefund`; `refundOrder` gives back one order's coins. `Tick` advances the clock between
any two steps. `err` remembers that the bank refused a movement after the checks. A string comparison of
denoms is a rank (`DenomRank`). Times are numbers; `time.Before` is `<`.

**Trade and Escrow.** `Trade` says declaratively what `Exchange` computes step by step: an open order gives a new
one what is still wanted once all better or older orders gave all they had (`Taken`), every unit at the price of
the open order (`CoinsAfter`), and what is left stays open under the next ID (`OrdersAfter`). `Escrow` makes a
state machine of it: `Place` is a whole accepted message, `Lapse` takes the lapsed orders off the market, `Refund`
pays one of them back. The mapping in `ExchangeEscrow` shows `Escrow` the committed state: while a transaction runs
that is `saved`, so its steps, and its failure, are stuttering, and the step that ends it is `Place`. The orders are
those of all books together, `waiting` is `toRefund`, and the time is the clock reading of the last begin blocker.
That a book is sorted, that the loop stops at the first order that does not cross, and that a message in the wrong
direction is refused are what make the mapping hold; none of it occurs in `Escrow`.

**Replicas.** Each node executes the decided blocks in three steps (`BeginBlock`, `DeliverTx`, `Commit`), the first
two reading its own clock; `Restart` is a crash inside a block, after which the last committed version is loaded and
the block is executed again. A message and an expiry do what `Trade` says. A quorum whose members are in the same
state decides the next block, which carries that state (the app hash); a node in another state stops (`Halted`).
`readings` remembers by which clock readings each committed block was executed. A block holds one message, and the
refunds of a begin blocker are one step, since nothing of a block is visible before its commit.

**CLP.** A message is one action. The formula is not computed in floating point: `RoundsTo(n, ...)` says, in integers,
that `n` is within one half of the exact value, so that at a tie both neighbours are possible. When the value leaves
the range, or is infinite or not a number, the result is one of those that amd64 and arm64 produce. `MaxInt` scales
`int64` down. `NoTicker` is the empty ticker: a pool of it is stored like any other, but `HasCLP` denies it, so that
`create` opens it again, minting its supply and replacing its record, and no trade finds it. `send` is a transfer of
the bank module, by which a pool's account can also be paid. `ClpQuery` adds a client: `queryClp` (whose route needs a
ticker) and `queryClps` read records, `getCLPAccountOutput` reads one account and puts the output for its pool
together, and messages are executed between any two of these reads.

**SpawnSpammer.** `at[k]` is where the goroutine of key `k` is. Loading the slice header and storing it are
two steps; `writers[p]` collects the goroutines that wrote position `p`, and which of them the returned
slice shows is left open. A failed export of a key panics and ends the process.

**Spammer.** A goroutine is started (`start`), receives from `queryFree` (`take`), makes and signs a message
(`makeMsg`), broadcasts it and advances the sequence (`broadcast`), refreshes when an error, the count of
sends or the lack of coins calls for it (`accountFound` ... `sequenceFailed`), and gives the value back
(`release`). The node accepts a transaction with the expected sequence or drops it, commits it, or loses
its mempool in a restart. The client may be told of an error although the transaction arrived.

**Genesis.** One iteration of each loop is an action: `addGenTx` adds an account, counts its tokens and, for a named
transaction, adds a validator with its delegation; `loadAccount` stores an account. A moniker is a number, the place
its token takes among the denoms, since only their order matters: `AmountOf` of the sdk searches sorted coins. The
stake data is modelled up to where it is handed to `stake.InitGenesis`, which is external and stores more than it is
given.

**EnsureAccounts.** Every run reads its own `--k`, `--from` and `--amount`, unless there are enough keys. The
command's queries, the creation of a key and the broadcast are separate steps, between which it may be killed and
blocks may be committed. `keys` remembers which run created a key. Each payer's transfers wait in the mempool with
consecutive sequences; a transfer with any other sequence is dropped without an error. `checkedSequence` and `unsure`
are history variables: `unsure` are the payers for whom some run saw a block between its query for the coins and the
one for the sequence, or had a smaller amount than transfers that were still waiting. The check of the coins counts
the run's own transfers; those that wait take the sequences of its first ones, which the node then drops, and may cost
more than they. Keys of the prefix come from this command only; `CountSpamAccounts` would count any others too.

## 3. Runs

| Run | Shows | Bounds |
| --- | --- | --- |
| `exchange_matching` | ranking, priority, no crossing in either direction of a pair, cover, limits, payment, no late failure, conservation, no product above the supply | 2 accounts, 3 denoms, amounts 0-2, prices 0-3, 3 orders |
| `exchange_expiry` | `Exchange` implements `Escrow`; nothing stale, unique IDs, conservation, orders only shrink, locked coins are released | 1 pair, clock 0-2, expiries 0-1, amounts and prices 1-2, 3 orders |
| `replicas_blocks` | nodes differ only by an expiry between their clocks, every version is solvent, every block is executed | 2 nodes, 3 blocks, 3 offers, clock 0-1, 2 crashes |
| `export_orders` | *violated*: export loses orders and locked coins | 1 account |
| `clp_pools` | types, no coins created but by `create` (once, but for the empty ticker), trades as logged, responses show a pool as it was (but for the empty ticker) | 2 pools and that of the empty ticker, 1 user, 3 base coins, `MaxInt` 9 |
| `clp_log` | *violated*: an unpaid trade is logged as paid | 1 pool |
| `clp_supply` | *violated*: there are more tokens than the supply | 1 pool |
| `genesis` | pool, accounts, validators and delegations agree; all coins are found | 3 addresses, 3 monikers, up to 3 transactions |
| `spawn` | semaphore, waiting for all, termination | 4 keys, room for 2 |
| `spawn_lost` | *violated*: a spammer is lost by concurrent appends | 2 keys |
| `spammer_sends` | one sender, signed sequence current, sends end, the sequence is found again | 2 spammers, 2 goroutines, refresh after 2 |
| `ensure_runs` | no key replaced, no coins without a key, the accounts of a run are paid without gaps, a payer can pay for what the node accepts unless a block came between a run's queries or a run paid less than transfers still waiting | 2 payers with 3 coins each, 3 runs for 2, 4 or 5 accounts at 1 or 2 coins |

*Why the bounds are enough.* With two accounts there are trades with others and with oneself. Three orders let a new
order meet a book of two, so that it is filled by both at different prices, by a part of one, and stored with a rest;
insertion happens before, between and behind orders, at equal prices too. A fourth order only makes books longer, and
the theorems of section 5 hold for books of any length. Three denoms make three pairs, so that orders of different
books lock the same balance. Balances (4 RUNE, 2 ETH and 1 BTC, and 3 RUNE and 1 ETH) are small enough for the checks
to fail and to be met exactly. The clock passes every expiry before, during and after a transaction. Three blocks let
a replica store an order, trade with it and refund it, and let two nodes differ and then stop; with two crashes one
block is executed three times, or two blocks or nodes are hit. One node decides the blocks and one follows: a larger
quorum only makes blocks rarer. With `MaxInt` 9 the formula rounds, ties, divides by zero and leaves the range. Three
base coins open three pools, or two and leave one to trade with, or the pool of the empty ticker again and again.
Three genesis transactions can be for one address or for several, named or not, with a token that sorts before or
after RUNE. Three runs of `account ensure` let a run meet what a killed run and a run with lost transfers have left
behind, with transfers still waiting, of larger and smaller amounts and of two payers, and coins that run out before
or after them. Two goroutines and two spammers let goroutines wait for each other and work side by side. Sequences
above `MaxSequence` are all alike, since the chain never gets there; dropping a transaction at that bound is something
a node may always do, so the bound takes nothing away from the liveness properties.

*Symmetry* is used over accounts and keys, in runs without liveness only. *Deadlock* is checked except in the `CLP`
runs, where users may have nothing left to trade, and in `genesis`, `replicas_blocks` and
`ensure_runs`, where the work is done.

*Fairness.* `Exchange`: a transaction or refund that is being executed goes on, and the clock advances (weak
fairness); a begin blocker that can run again and again does (strong fairness: Tendermint makes blocks and puts
finitely many transactions into each). New orders are never forced, and `outOfGas` may strike at any time. `Replicas`:
a node that is up executes the next block (weak fairness); a node crashes finitely often inside blocks, and no block
is forced to be decided. `SpawnSpammer`: the Go scheduler runs every goroutine that can go on. `Spammer`: besides
that, waiting receivers of a channel are served in turn (Go's channels queue them), the limiter ticks for ever,
pending transactions are committed, and a query that is made again and again for an account succeeds some time.
Nothing is assumed about which messages are made or accepted.

## 4. Findings

* **Export loses open orders** (`export_orders`). The genesis state of the exchange is the next order ID;
  the coins locked by open orders are in no balance and are gone after a restart.
* **A trade the pool cannot pay succeeds** (`clp_log`). The errors of the transfers are ignored; the sender
  pays and the log claims that the tokens were received.
* **A pool without base coins creates tokens** (`clp_supply`). The formula divides by zero and, on amd64, the amount
  becomes the smallest integer; the bank credits the pool when it subtracts the negative amount from it, and refuses
  to add it to the sender. In the trace the tokens rise from 2 to 12 while `CurrentSupply` stays 2. (On arm64 the
  amount is the largest integer, which the pool cannot pay.)
* **Spammers are lost** (`spawn_lost`). Concurrent appends to one slice overwrite each other.

Two more are no runs of their own, but exceptions that properties have to make:

* **A pool can be opened twice.** `create` is to fail with "clp already exists for this ticker symbol"
  (`x/clp/errors.go`), and `keeper_test.go` tests that it does. For the empty ticker it does not
  (`x/clp/keeper.go:54`): every `create` mints the supply again and replaces the record. `NoCoinsCreated` and
  `PoolShownAsItWas` name this ticker, and are false without that.
* **`account ensure` can promise more than the payer has.** It checks the coins for its own transfers only.
  `PayableUnlessUnsure` names the two ways: a block between two queries, and a smaller `--amount` than before. Such a
  transfer is accepted by the node, fails in its block, and leaves an account without coins, which the next run counts.

## 5. Proofs

TLC checks the instances of section 3; the theorems hold for every value of the constants. All safety invariants
and step properties of the passing runs and the refinement of `Escrow` are proved; liveness is left to TLC.

**The running transaction** (`ExchangeProofs`, second part). `TypeCorrect`: no balance and no amount is ever
negative. `AlwaysCovered`: the sender can pay for what is unfilled. `NeverFailsLate`: nothing fails after the checks.
They rest on `Settled == TypeOK /\ TxChecked /\ Covered /\ NoLateFailure`. No part is inductive alone: balances stay
natural because the sender is covered; it stays covered in a fill because the fill price is at most the limit (for a
buyer), because the two denoms differ, and because the price and the open amount are not negative, which is what the
checks established (`TxChecked`). `SettlementCovered` is the heart: one fill costs the sender at most what the limit
allows for it, also when the stored order is its own.

**The books** (`ExchangeProofs`, first and third part). The first part proves what the slice operations do: `Keep`
(the loops that copy a slice and skip elements) returns exactly the kept elements in their order, `AddLimitOrder`
adds exactly the new order, and both preserve price-time order (`KeepRanked`, `AddLimitOrderRanked`). The third
proves `AlwaysRanked`, `NeverCrossed`, `AlwaysByRank`, `NeverStale`, `AlwaysUniqueIDs`, `OrdersOnlyShrink` and
`LimitKept` from one invariant, `BooksKept`. It adds to `Settled`

* `WellKept`, of the stored books: every order is in the book of its kind and pair, in the one direction that
  `ValidateBasic` accepts, open, with an old ID of its own, alive when the block began; books are ranked, and buy
  orders are priced below the sell orders of the pair;
* `TxKept`: the same of `saved`, without which a roll-back could bring anything back;
* `FillKept`: the loop has used up all orders before its position but perhaps the last, when the new order is filled,
  and left the others alone. This is `FillPriority`, and with the ranking it gives
* `StoreKept`: when the rest of an order is stored nothing in the matching book crosses it, so books do not cross;
* `RefundKept`: orders that wait for their refund have IDs that nobody else has.

The direction of pairs is what turns "these two books do not cross" into `NotCrossed`, which speaks of any two orders.

**The coins** (`SumProofs`, `ExchangeProofs`, fourth part). `AlwaysConserved`: balances, locked coins and refunds
under way add up to the genesis. `MakersAlwaysPaid`: every owner of a matched order has received exactly its price.
`AlwaysInSupply`: no product after the checks exceeds the supply. The invariant `Conserved` is `BooksKept`'s
companion: the sum is taken with the copy the loop works on (`Open`), since a fill moves the coins before the book is
saved, and `saved` must add up too. A fill balances because the matched order is of the other kind and the same pair,
which is `WellKept`. Sums are written with `SumFunctionOnSet`, about which `SumProofs` proves what is needed: one
element more, a changed value, disjoint unions, partitions, renaming, monotonicity. Its induction is over a set of
subsets (`SubsetInduction`) and needs no theorem with an operator parameter.

**The refinement** (`ExchangeProofs`, last part). `KeepsThePromise == Spec => ImplementsEscrow`. `Escrow` describes a
trade at once, by sets: an order gives what the better ones leave wanting, up to its amount (`Taken`); the code walks
a slice, fills one order after the other and rolls back. The invariant `Promised` stands between them:

* `Offered`: of the message in work, the sender could pay in the saved state, and the clock is within its bound;
* `Matched`: at every round of the loop, the orders it has passed cross the new one, what is unfilled is the amount
  less the sum taken from the book, and every balance is the saved one with the payments of those fills;
* `Traded`: after the loop, the same in the words of `Trade`: what rests, what is left of each order, the balances.

`TakenUpTo` and `TakenByLoop` are the core: because the book is ranked, the sum over the better orders of an order is
the sum over the slice before it, so a loop that takes the smaller of the open amount and the unfilled rest takes
`Taken`. `RestOfLoop`, `LeftByLoop` and `PaidByLoop` say this of the new order, the old ones and the balances,
`OrdersStored` and `CoinsStored` of the stored state, and `StoreIsPlace`, `BeginBlockerIsLapse` and `RefundIsRefund`
map the three steps of the code that `Escrow` sees; all others stutter (`StepsOfEscrow`). `MakersAlwaysPaid` is a
corollary of `Matched`.

**The nodes** (`ReplicasProofs`). `SplitsAreExpiries` and `AlwaysSolvent` hold for any nodes, quorums, messages,
heights and crashes. The invariant says (`NodeOK`) that each version of a node, and what it has of the next one, is
what the block and two kept clock readings make of the version before (`Begun`, `Delivered`); a crash forgets the work
and its reading and nothing else. Both functions look at the clock only to compare it with an expiry (`BegunSame`,
`DeliveredSame`), so two nodes with equal versions before a block differ after it only over an expiry between their
readings. Solvency is proved of `Trade` itself: `RefundedWorth`, `CoinsAfterWorth` and `OrdersAfterWorth` say that a
refund and an accepted message turn escrow into balances and back without a rest, for any open orders with different
IDs.

**The pools** (`ClpProofs`). `ClpTypeCorrect`: no balance becomes negative although the bank is handed unchecked, even
negative, amounts and its errors are ignored. `CoinsOnlyFromPools`: coins come only from opening a pool, and that once
for a ticker, except for the empty ticker and for trades whose formula left the range of `int64`. `TradesAsLogged`: a
trade that the pools can pay moves what it logs. Each kind of transfer is described once (`SendCoinsEffect`,
`LegEffect`), with and without an error; nothing is assumed of the number the formula yields but that it is an
integer. `QueriesReadOnly`: with the queries the chain is still `CLP`; `PoolsShownAsTheyWere` follows from the fact
that a stored record never changes (`PoolsStay`), that of the empty ticker excepted, about which the theorem says
nothing.

**The load generator.** `SpammerProofs` proves `TypeOK`, `OneSender` and `SignedCurrent` for any number of spammers
and goroutines; the three are inductive together: a goroutine that changes the sequence holds the channel's value, so
no other one of the spammer can be between signing and broadcasting. `SpawnSpammerProofs` proves `CountsWorkers` and
`AlwaysAfterAll` for any number of keys and any capacity: besides the semaphore, the WaitGroup counts the goroutines
that are started and not done (`SpawnInv`). `EnsureAccountsProofs` proves `KeysNeverReplaced`, `AlwaysToKeys`,
`AlwaysPayable` and `AlwaysTogether` for any runs, each with a number of accounts, a payer and an amount of its own.
The invariant `EnsureInv` ties the loop counter, the sequences on both sides and the numbers of the keys: keys are
numbered without gaps and later ones are of later runs, waiting transfers of a run pay accounts that follow each other
(`Queued`), the sequence of a transfer tells its account (`Sent`), and the coins suffice for what waits and what the
loop may still see committed unless the payer is `unsure` (`Promised`): the waiting transfers before the run's own
stand for as many of its own, which the node will drop, and cost no more.

**The first state** (`GenesisProofs`). `SupplyAlwaysCounted`, `SharesAlwaysDelegated` and `CoinsAlwaysFound` hold for
any number of genesis transactions, monikers on either side of RUNE, and any addresses (different ones, for the
supply). The staking module checks nothing of what it is given, so the agreement has to follow from the two loops. The
invariant `GenesisInv` says how far they are: the first `Generated` transactions have their account in the genesis
state, in place; the named ones, and no others, have their validator, in their order (`ValidatorsMade`), and each
validator has its own delegation (`SelfDelegated`); the pool holds what these accounts and validators were given
(`Counted`); and the accounts of the first `Stored` transactions, and no others, are in the store (`AccountsStored`).
When addresses are different, the transactions are a renaming of the loaded accounts, so that both sums are the same
(`AllAccountsLoaded`). `ToAccount` sorts, which the model writes as a choice among the rearranged coins; `SortedCoins`
proves that this is the one order that ascends, and `FoundInOrder` that the binary search of `AmountOf` finds both
coins in it.

*What the proofs changed.* `PaidTogether` used to say that paid and waiting accounts of a run are always next to each
other. It is false when the payer's coins run out while transfers wait: the first that fails is gone, and those after
it still wait. The earlier bounds never got there; `ensure_runs` does now, and the property says what holds (the
waiting accounts follow the paid ones only while the coins last). The exception in `NoCoinsCreated` said "a trade was
logged"; a trade whose log equals the one before changes no log, so it now names the step, `handleMsgTrade`.
`PayableUnlessUnsure` holds of any amounts only with its second exception; with one amount for all runs, as the model
once had it, the race of the two queries is the only way.

*Assumptions.* The proofs use only the assumptions named in the modules (`ConstantsAssumption`, `SpammerAssumption`,
`SpawnAssumption`, `EnsureAssumption`, `CLPAssumption`, `ReplicasAssumption`, `GenesisAssumption`), which TLC
evaluates in every run: types of the parameters, finitely many accounts, denoms, users, pools and keys, denoms of
different ranks (a string order is total), users that are not pools (addresses are different), RUNE that is neither
and the token of no moniker, and a `None` that is no account.

*Only model-checked:* liveness (`EscrowReleased`, `KeepsUp`, `Returns`, `SendsEnd`, `Resynchronises`): fairness and
ENABLED are out of TLAPS's reach.

## 6. What is not modelled

The sdk modules (auth, stake, slashing, governance), consensus and the network are external; what the code relies on
of them is in `Bank`, in the roll-back of transactions, in the blocks and versions of `Replicas`, and in the node of
`Spammer` and `EnsureAccounts`. Left out are error texts and logs (except the log of a trade, which is checked), gas
amounts, encodings, and the set-up of a network. `sdk.Int` is unbounded in `Exchange`; `ProductsInSupply` says that no
product of a running transaction exceeds the supply of the denom, so that only the product of the check itself, before
anything is written, can overflow its 255 bits and fail the message. The panic of the begin blocker
(`x/exchange/keeper.go:339`) is no step of `Exchange` or `Replicas`: `AddCoins` refuses a refund only if it leaves
less than nothing, and `TypeCorrect` says that balances, amounts and prices are natural numbers. The key of an order
book joins two denoms with a colon; denoms that contain one could share a key, which is left out. The documents
nowhere promise that nodes agree whatever their clocks are, so `Replicas` states when they may disagree and reports no
finding.

* *The clients that send messages* (`x/*/client/cli`, the POST handlers): they parse flags, sign and broadcast, and keep
  no state. Whether a repeated request is executed twice is decided by the node's sequence check, which is the sdk's.
* *Queries of order books*: one query, one decoded book, nothing between them.
* *The messages the spammer makes up*: random amounts of the coins it last read. Which messages are accepted is left
  open in `Spammer`, so everything shown there holds whatever they are.
* *The statistics of the spammer*: counters without synchronisation that are only printed. The loss of an increment
  has no other effect.
* *`thorchaindebug`*: a tool that decodes and prints, and a search over the heights of a stopped node's database.
* *`cmd/thorchaind`, `cmd/thorchaincli`*: wiring of sdk commands.

## 7. Plan

1. *Done:* all modules of section 2, the abstract specification `Escrow` and its refinement by TLC, and the proofs of
   section 5: nothing but liveness is left without one.
2. Export of a chain with pools: `WriteGenesis` of `x/clp` exports nothing, so a pool can be opened and minted again.
