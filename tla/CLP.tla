--------------------------------- MODULE CLP ---------------------------------
(***************************************************************************)
(* The continuous liquidity pools of THORChain (x/clp).  A pool is an      *)
(* account that holds base coins and all not yet sold tokens of its        *)
(* ticker; create opens it, trade buys from it, sells to it, or goes from  *)
(* one pool through the base coin to another.                              *)
(*                                                                         *)
(* A message is one step: baseapp runs it alone and keeps what it wrote    *)
(* only if it returns no error and does not panic (external), so a message *)
(* that fails takes no step.  Inside a trade nothing is undone: the bank   *)
(* errors that ProcessCLPTrade ignores leave what was already written.     *)
(***************************************************************************)
EXTENDS Bank, FiniteSets, FiniteSetsExt, Functions

CONSTANTS
  Users,          \* accounts that send messages
  Tickers,        \* tickers a pool may be opened for
  RUNE,           \* baseCoinTicker
  InitRune,       \* base coins of every user at genesis
  Ratios,         \* reserve ratios a message may carry (bound)
  Supplies,       \* initial supplies a message may carry (bound)
  BaseAmounts,    \* initial base coins a message may carry (bound)
  TradeAmounts,   \* amounts to trade or to send (bound)
  MaxInt,         \* the largest int64 (scaled down)
  NoTicker,       \* the empty ticker, which no check refuses
  NoCLP           \* no pool is stored

ASSUME CLPAssumption ==
  /\ IsFiniteSet(Users) /\ IsFiniteSet(Tickers)
  /\ RUNE \notin Tickers \cup Users
  /\ Users \cap Tickers = {}
  /\ InitRune \in Nat
  /\ Ratios \subseteq Int
  /\ Supplies \subseteq Int
  /\ BaseAmounts \subseteq Int
  /\ TradeAmounts \subseteq Int
  /\ MaxInt \in Nat
  /\ NoCLP \notin [creator : Users, reserveRatio : 1..100,
                    initialSupply : Nat, currentSupply : Nat]

MinInt == -MaxInt - 1

(* NewCLPAddress derives the address of a pool from its ticker: the ticker *)
(* stands for it.                                                          *)
Accounts == Users \cup Tickers
Denoms == Tickers \cup {RUNE}

VARIABLES
  coins,   \* the bank's balances
  clps,    \* the stored CLP of every ticker
  result   \* what handleMsgTrade logged of the last trade

vars == <<coins, clps, result>>

Init ==
  /\ coins = [a \in Accounts |-> [d \in Denoms |->
                IF a \in Users /\ d = RUNE THEN InitRune ELSE 0]]
  /\ clps = [t \in Tickers |-> NoCLP]
  /\ result = NoCLP

(* The supply never changes after NewCLP: trades move tokens only.         *)
NewCLP(sender, ratio, supply) ==
  [creator |-> sender, reserveRatio |-> ratio,
   initialSupply |-> supply, currentSupply |-> supply]

SetCLP(ticker, clp) == clps' = [clps EXCEPT ![ticker] = clp]

(* GetCLP returns a zero CLP if none is stored, and its callers take the   *)
(* ticker of what it returns for the sign that there is one.  A pool of    *)
(* the empty ticker is stored like any other and never found.              *)
HasCLP(ticker) == clps[ticker] # NoCLP /\ ticker # NoTicker

ensureNonexistentCLP(ticker) == ~HasCLP(ticker)

-----------------------------------------------------------------------------

(* Faulty variant: a stored pool is replaced.                             *)
CreateChecks_Replaces(ticker, ratio, supply, base) ==
  /\ supply > 0 /\ base > 0
  /\ ticker # RUNE
  /\ ratio > 0 /\ ratio <= 100

(* Faulty variant: a reserve ratio above 100 is accepted.                  *)
CreateChecks_AnyRatio(ticker, ratio, supply, base) ==
  /\ supply > 0 /\ base > 0
  /\ ticker # RUNE
  /\ ensureNonexistentCLP(ticker)
  /\ ratio > 0

CreateChecks(ticker, ratio, supply, base) ==
  /\ supply > 0 /\ base > 0
  /\ ticker # RUNE
  /\ ensureNonexistentCLP(ticker)
  /\ ratio > 0 /\ ratio <= 100

(* create: the supply is minted into the pool's account, next to the base  *)
(* coins its creator pays.                                                 *)
create(sender, ticker, ratio, supply, base) ==
  /\ CreateChecks(ticker, ratio, supply, base)
  /\ LET debit == SubtractCoins(coins, sender, RUNE, base)
         paid  == AddCoins(debit.coins, ticker, RUNE, base)
         mint  == AddCoins(paid.coins, ticker, ticker, supply)
     IN  /\ ~debit.err
         /\ ~paid.err
         /\ coins' = mint.coins
  /\ SetCLP(ticker, NewCLP(sender, ratio, supply))
  /\ UNCHANGED result

-----------------------------------------------------------------------------
(***************************************************************************)
(* RunCLPFormula: y = a * ((1 + b/c)^(p/q) - 1) in floating point, rounded *)
(* and converted to int64.  An integer n may result if it is at most one   *)
(* half away from y (at a tie the floating point error decides), that is   *)
(* if 2(n + a) - 1 <= 2a ((b + c) / c)^(p/q) <= 2(n + a) + 1.              *)
(***************************************************************************)
RoundsTo(n, a, b, c, p, q) ==
  LET lo == 2 * (n + a) - 1
      hi == 2 * (n + a) + 1
      t  == (2 * a)^q * (b + c)^p
  IN  IF b + c >= 0
      THEN /\ lo <= 0 \/ lo^q * c^p <= t
           /\ hi > 0 /\ t <= hi^q * c^p
      ELSE lo * c <= t /\ t <= hi * c

(* What int64(y) yields when y is too large, infinite or not a number      *)
(* depends on the processor: amd64 returns the smallest integer, arm64     *)
(* saturates and turns NaN into 0.                                         *)
OutOfRange == {MinInt, MaxInt}
NotANumber == {MinInt, 0}

RunCLPFormula(a, b, c, p, q) ==
  LET near == {n \in MinInt..MaxInt : RoundsTo(n, a, b, c, p, q)}
  IN  IF c = 0 THEN (IF b = 0 THEN NotANumber ELSE OutOfRange)
      ELSE IF b + c < 0 /\ q # 1 THEN NotANumber
      ELSE IF near = {} THEN OutOfRange ELSE near

(* reserveRatio / 100 in lowest terms.                                     *)
Gcd(ratio) == Max({g \in 1..100 : ratio % g = 0 /\ 100 % g = 0})

CalculateCoinsEmitted(clp, baseBalance, paid, buy) ==
  LET g   == Gcd(clp.reserveRatio)
      num == clp.reserveRatio \div g
      den == 100 \div g
  IN  IF buy THEN RunCLPFormula(clp.currentSupply, paid, baseBalance, num, den)
      ELSE RunCLPFormula(baseBalance, paid, clp.currentSupply, den, num)

(* AmountOf(...).Int64() panics on a balance that does not fit.            *)
FitsInt64(x) == x <= MaxInt

(* Both transfers of a trade; the errors of both are ignored.              *)
Exchanged(c, sender, pool, from, x, to, y) ==
  LET spent == SendCoins(c, sender, pool, from, x)
  IN  SendCoins(spent.coins, pool, sender, to, y).coins

(* ProcessCLPTrade: the outcomes of trading x with the pool of ticker from *)
(* the balances c; none if it returns an error or panics.                  *)
ProcessCLPTrade(c, sender, ticker, x, buy) ==
  LET from == IF buy THEN RUNE ELSE ticker
      to   == IF buy THEN ticker ELSE RUNE
      base == c[ticker][RUNE]
      held == c[ticker][ticker]
  IN  IF /\ HasCLP(ticker)
         /\ FitsInt64(base) /\ FitsInt64(held)
         /\ ~(buy /\ held <= 0) /\ ~(~buy /\ base <= 0)
      THEN {[coins   |-> Exchanged(c, sender, ticker, from, x, to, y),
             emitted |-> y] :
              y \in CalculateCoinsEmitted(clps[ticker], base, x, buy)}
      ELSE {}

TradeChecks(sender, from, to, x) ==
  /\ from # to
  /\ FitsInt64(coins[sender][from])
  /\ x > 0
  /\ coins[sender][from] >= x

Log(sender, from, to, x, received, rune) ==
  [sender |-> sender, from |-> from, to |-> to,
   spent |-> x, received |-> received, rune |-> rune]

(* Faulty variant: the second trade is for the amount of the first.        *)
TradeTwoPools_SameAmount(sender, from, to, x) ==
  \E r1 \in ProcessCLPTrade(coins, sender, from, x, FALSE) :
  \E r2 \in ProcessCLPTrade(r1.coins, sender, to, x, TRUE) :
    /\ coins' = r2.coins
    /\ result' = Log(sender, from, to, x, r2.emitted, r1.emitted)

(* A sale whose proceeds buy from the other pool.                          *)
TradeTwoPools(sender, from, to, x) ==
  \E r1 \in ProcessCLPTrade(coins, sender, from, x, FALSE) :
  \E r2 \in ProcessCLPTrade(r1.coins, sender, to, r1.emitted, TRUE) :
    /\ coins' = r2.coins
    /\ result' = Log(sender, from, to, x, r2.emitted, r1.emitted)

(* Faulty variant: the purchased tokens are added to the supply.           *)
trade_MovesSupply(sender, from, to, x) ==
  /\ TradeChecks(sender, from, to, x)
  /\ from = RUNE
  /\ \E r \in ProcessCLPTrade(coins, sender, to, x, TRUE) :
       /\ coins' = r.coins
       /\ result' = Log(sender, from, to, x, r.emitted, x)
       /\ SetCLP(to, [clps[to] EXCEPT !.currentSupply = @ + r.emitted])

(* trade: a buy, a sale, or both.                                          *)
trade(sender, from, to, x) ==
  /\ TradeChecks(sender, from, to, x)
  /\ \/ /\ from = RUNE
        /\ \E r \in ProcessCLPTrade(coins, sender, to, x, TRUE) :
             /\ coins' = r.coins
             /\ result' = Log(sender, from, to, x, r.emitted, x)
     \/ /\ to = RUNE
        /\ \E r \in ProcessCLPTrade(coins, sender, from, x, FALSE) :
             /\ coins' = r.coins
             /\ result' = Log(sender, from, to, x, r.emitted, r.emitted)
     \/ /\ from # RUNE /\ to # RUNE
        /\ TradeTwoPools(sender, from, to, x)
  /\ UNCHANGED clps

(* A transfer of the bank module (external); a pool's address is a valid   *)
(* receiver.                                                               *)
send(a, b, d, x) ==
  /\ x > 0
  /\ ~SendCoins(coins, a, b, d, x).err
  /\ coins' = SendCoins(coins, a, b, d, x).coins
  /\ UNCHANGED <<clps, result>>

(* The messages; ValidateBasic looks at the sender only.                   *)
MsgCreate ==
  [sender : Users, ticker : Denoms, reserveRatio : Ratios,
   initialSupply : Supplies, initialBaseCoinAmount : BaseAmounts]

MsgTrade ==
  [sender : Users, fromTicker : Denoms, toTicker : Denoms, fromAmount : TradeAmounts]

handleMsgCreate(m) ==
  create(m.sender, m.ticker, m.reserveRatio, m.initialSupply, m.initialBaseCoinAmount)

handleMsgTrade(m) == trade(m.sender, m.fromTicker, m.toTicker, m.fromAmount)

Next ==
  \/ \E m \in MsgCreate : handleMsgCreate(m)
  \/ \E m \in MsgTrade : handleMsgTrade(m)
  \/ \E s \in Users, a \in Accounts, d \in Denoms, x \in TradeAmounts : send(s, a, d, x)

Spec == Init /\ [][Next]_vars

-----------------------------------------------------------------------------
(* Properties.                                                             *)

(* No balance is ever negative, although trade hands the bank amounts it   *)
(* has not checked.                                                        *)
TypeOK ==
  /\ coins \in [Accounts -> [Denoms -> Nat]]
  /\ clps \in [Tickers -> [creator : Users, reserveRatio : 1..100,
                           initialSupply : Nat, currentSupply : Nat] \cup {NoCLP}]
  /\ result = NoCLP \/ result.sender \in Users

TotalOf(c, d) == SumFunctionOnSet([a \in Accounts |-> c[a][d]], Accounts)

Total(d) == TotalOf(coins, d)

Traded == result' # result

Created(d) == \E m \in MsgCreate : m.ticker = d /\ handleMsgCreate(m)

(* Every message leaves the total of every coin as it is, but for the      *)
(* supply of a pool that is opened, and that is minted once for a ticker.  *)
(* There are two exceptions: the empty ticker, whose pool                  *)
(* ensureNonexistentCLP never finds, so that every create of it mints once *)
(* more; and a trade in which the formula left the range of int64 and a    *)
(* negative amount was logged.                                             *)
NoCoinsCreated ==
  [][ \/ \A d \in Denoms :
           Total(d)' - Total(d) =
             IF /\ d \in Tickers /\ clps'[d] # NoCLP
                /\ clps[d] = NoCLP \/ (d = NoTicker /\ Created(d))
             THEN clps'[d].initialSupply ELSE 0
      \/ /\ \E m \in MsgTrade : handleMsgTrade(m)
         /\ result'.received < 0 \/ result'.rune < 0 ]_vars

(* The pools hold what the log r says they pay.                            *)
Payable(r) ==
  /\ r.received >= 0 /\ r.rune >= 0
  /\ r.received <= coins[IF r.to = RUNE THEN r.from ELSE r.to][r.to]
  /\ r.from # RUNE => r.rune <= coins[r.from][RUNE]

(* How the log r says the balance of a in d moves: the sender pays the     *)
(* spent coins and gets the received ones, the pool of a sale gets the     *)
(* tokens for base coins, the pool of a purchase base coins for tokens.    *)
LoggedChange(a, d, r) ==
  CASE a = r.sender /\ d = r.from -> -r.spent
    [] a = r.sender /\ d = r.to   -> r.received
    [] a = r.from /\ d = r.from   -> r.spent
    [] a = r.from /\ d = RUNE     -> -r.rune
    [] a = r.to /\ d = RUNE       -> r.rune
    [] a = r.to /\ d = r.to       -> -r.received
    [] OTHER                      -> 0

(* A trade the pools can pay moves exactly the coins handleMsgTrade logs,  *)
(* in one leg or in two: the base coins of a trade between two pools pass  *)
(* through the sender and leave its balance as it was, and no other        *)
(* account is touched.                                                     *)
TradeAsLogged ==
  [][ Traded /\ Payable(result') =>
        \A a \in Accounts, d \in Denoms :
          coins'[a][d] - coins[a][d] = LoggedChange(a, d, result') ]_vars

(* The log of a successful trade tells the sender what it received         *)
(* ("toTokenReceived" in handleMsgTrade).                                  *)
ReceivedAsLogged ==
  [][ Traded => coins'[result'.sender][result'.to]
                  - coins[result'.sender][result'.to] = result'.received ]_vars

(* The tokens held by the users and by the pool are its CurrentSupply, as  *)
(* the trading tests expect after every trade.                             *)
SupplyAccounted ==
  \A t \in Tickers : clps[t] # NoCLP => Total(t) = clps[t].currentSupply
=============================================================================
