------------------------------ MODULE ClpProofs ------------------------------
(* Proofs about CLP and ClpQuery: for all users, pools, ratios, supplies   *)
(* and amounts, and whatever number the formula yields, no balance becomes *)
(* negative, coins come only from opened pools, a trade the pools can pay  *)
(* moves what is logged of it, and a query shows a pool as it was.         *)
EXTENDS ClpQuery, SumProofs

Ledger == [Accounts -> [Denoms -> Nat]]

(* s is c after x of d has gone from a to b.                               *)
Moves(c, s, a, b, d, x) ==
  \A g \in Accounts, e \in Denoms :
    s[g][e] = IF g = a /\ e = d THEN c[g][e] - x
              ELSE IF g = b /\ e = d THEN c[g][e] + x
              ELSE c[g][e]

(* s is c after a trade between sender and pool: x of from, y of to back.  *)
Trades(c, s, sender, pool, from, x, to, y) ==
  \A g \in Accounts, e \in Denoms :
    s[g][e] = IF g = sender /\ e = from THEN c[g][e] - x
              ELSE IF g = sender /\ e = to THEN c[g][e] + y
              ELSE IF g = pool /\ e = from THEN c[g][e] + x
              ELSE IF g = pool /\ e = to THEN c[g][e] - y
              ELSE c[g][e]

-----------------------------------------------------------------------------
(* The bank.                                                               *)

LEMMA Separate ==
  /\ IsFiniteSet(Accounts)
  /\ RUNE \notin Accounts
  /\ \A u \in Users, t \in Tickers : u # t /\ t # RUNE /\ u \in Accounts /\ t \in Accounts
  /\ Tickers \subseteq Denoms /\ RUNE \in Denoms /\ Users \subseteq Accounts
  /\ Users \cap Denoms = {}
<1>1. IsFiniteSet(Users \cup Tickers)
  BY CLPAssumption, FS_Union
<1> QED
  BY <1>1, CLPAssumption DEF Accounts, Denoms

(* One balance of a ledger changed.                                        *)
LEMMA BalanceSet ==
  ASSUME NEW c \in Ledger, NEW a \in Accounts, NEW d \in Denoms, NEW n \in Nat
  PROVE  LET s == [c EXCEPT ![a][d] = n]
         IN  /\ s \in Ledger
             /\ \A g \in Accounts, e \in Denoms :
                  s[g][e] = IF g = a /\ e = d THEN n ELSE c[g][e]
  BY DEF Ledger

LEMMA SubtractCoinsEffect ==
  ASSUME NEW c \in Ledger, NEW a \in Accounts, NEW d \in Denoms, NEW x \in Int
  PROVE  LET r == SubtractCoins(c, a, d, x)
         IN  /\ r.coins \in Ledger
             /\ r.err \in BOOLEAN
             /\ r.err <=> c[a][d] < x
             /\ r.err => r.coins = c
             /\ ~r.err => \A g \in Accounts, e \in Denoms :
                  r.coins[g][e] = IF g = a /\ e = d THEN c[a][d] - x ELSE c[g][e]
<1>1. c[a][d] \in Nat
  BY DEF Ledger
<1>2. CASE c[a][d] < x
  <2>1. c[a][d] - x < 0
    BY <1>1, <1>2
  <2> QED
    BY <1>2, <2>1 DEF SubtractCoins
<1>3. CASE ~(c[a][d] < x)
  <2>1. ~(c[a][d] - x < 0) /\ c[a][d] - x \in Nat
    BY <1>1, <1>3
  <2> DEFINE s == [c EXCEPT ![a][d] = c[a][d] - x]
  <2>2. /\ s \in Ledger
        /\ \A g \in Accounts, e \in Denoms :
             s[g][e] = IF g = a /\ e = d THEN c[a][d] - x ELSE c[g][e]
    BY <2>1, BalanceSet
  <2>3. SubtractCoins(c, a, d, x) = [coins |-> s, err |-> FALSE]
    BY <2>1 DEF SubtractCoins
  <2> QED
    BY <1>3, <2>2, <2>3
<1> QED
  BY <1>2, <1>3

LEMMA AddCoinsEffect ==
  ASSUME NEW c \in Ledger, NEW a \in Accounts, NEW d \in Denoms, NEW x \in Int
  PROVE  LET r == AddCoins(c, a, d, x)
         IN  /\ r.coins \in Ledger
             /\ r.err \in BOOLEAN
             /\ x \in Nat => ~r.err
             /\ r.err => r.coins = c
             /\ ~r.err => \A g \in Accounts, e \in Denoms :
                  r.coins[g][e] = IF g = a /\ e = d THEN c[a][d] + x ELSE c[g][e]
<1>1. c[a][d] \in Nat
  BY DEF Ledger
<1>2. CASE c[a][d] + x < 0
  <2>1. x \notin Nat
    BY <1>1, <1>2
  <2> QED
    BY <1>2, <2>1 DEF AddCoins
<1>3. CASE ~(c[a][d] + x < 0)
  <2>1. c[a][d] + x \in Nat
    BY <1>1, <1>3
  <2> DEFINE s == [c EXCEPT ![a][d] = c[a][d] + x]
  <2>2. /\ s \in Ledger
        /\ \A g \in Accounts, e \in Denoms :
             s[g][e] = IF g = a /\ e = d THEN c[a][d] + x ELSE c[g][e]
    BY <2>1, BalanceSet
  <2>3. AddCoins(c, a, d, x) = [coins |-> s, err |-> FALSE]
    BY <1>3 DEF AddCoins
  <2> QED
    BY <2>2, <2>3
<1> QED
  BY <1>2, <1>3

(* Whatever amount it is asked to move, SendCoins leaves no negative       *)
(* balance.                                                                *)
LEMMA SendCoinsType ==
  ASSUME NEW c \in Ledger, NEW a \in Accounts, NEW b \in Accounts,
         NEW d \in Denoms, NEW x \in Int
  PROVE  SendCoins(c, a, b, d, x).coins \in Ledger
<1> DEFINE s == SubtractCoins(c, a, d, x)
<1>1. s.coins \in Ledger
  BY SubtractCoinsEffect
<1>2. AddCoins(s.coins, b, d, x).coins \in Ledger
  <2> DEFINE sc == s.coins
  <2>1. sc \in Ledger
    BY <1>1
  <2> HIDE DEF sc
  <2>2. AddCoins(sc, b, d, x).coins \in Ledger
    BY <2>1, AddCoinsEffect
  <2> QED
    BY <2>2 DEF sc
<1> QED
  BY <1>1, <1>2 DEF SendCoins

(* An amount that is not negative is moved, or nothing happens.            *)
LEMMA SendCoinsEffect ==
  ASSUME NEW c \in Ledger, NEW a \in Accounts, NEW b \in Accounts, a # b,
         NEW d \in Denoms, NEW x \in Nat
  PROVE  LET r == SendCoins(c, a, b, d, x)
         IN  /\ r.coins \in Ledger
             /\ c[a][d] < x => r.coins = c
             /\ ~(c[a][d] < x) => Moves(c, r.coins, a, b, d, x)
<1> DEFINE s == SubtractCoins(c, a, d, x)
           sc == s.coins
           u == AddCoins(sc, b, d, x)
           r == SendCoins(c, a, b, d, x)
<1>1. /\ sc \in Ledger /\ s.err \in BOOLEAN /\ (s.err <=> c[a][d] < x)
      /\ s.err => sc = c
      /\ ~s.err => \A g \in Accounts, e \in Denoms :
           sc[g][e] = IF g = a /\ e = d THEN c[a][d] - x ELSE c[g][e]
  BY SubtractCoinsEffect
<1>2. r.coins \in Ledger
  BY SendCoinsType
<1>3. r = IF s.err THEN s ELSE u
  BY DEF SendCoins
<1> HIDE DEF s, r
<1>4. ASSUME c[a][d] < x PROVE r.coins = c
  BY <1>1, <1>3, <1>4
<1>5. ASSUME ~(c[a][d] < x) PROVE Moves(c, r.coins, a, b, d, x)
  <2>0. r = u
    BY <1>1, <1>3, <1>5
  <2> HIDE DEF sc
  <2>1. \A g \in Accounts, e \in Denoms :
          u.coins[g][e] = IF g = b /\ e = d THEN sc[b][d] + x ELSE sc[g][e]
    <3>1. ~u.err
      BY <1>1, AddCoinsEffect
    <3> QED
      BY <1>1, <3>1, AddCoinsEffect
  <2>2. \A g \in Accounts, e \in Denoms :
          sc[g][e] = IF g = a /\ e = d THEN c[a][d] - x ELSE c[g][e]
    BY <1>1, <1>5
  <2> HIDE DEF u
  <2>3. sc[b][d] = c[b][d]
    BY <2>2
  <2>4. \A g \in Accounts, e \in Denoms :
          u.coins[g][e] = IF g = b /\ e = d THEN c[b][d] + x
                          ELSE IF g = a /\ e = d THEN c[a][d] - x ELSE c[g][e]
    BY <2>1, <2>2, <2>3
  <2> QED
    BY <2>0, <2>4 DEF Moves
<1> QED
  BY <1>2, <1>4, <1>5 DEF r

(* One balance more or less changes one total by as much.                  *)
LEMMA TotalChange ==
  ASSUME NEW c \in Ledger, NEW s \in Ledger, NEW a \in Accounts, NEW d \in Denoms,
         \A g \in Accounts, e \in Denoms : ~(g = a /\ e = d) => s[g][e] = c[g][e]
  PROVE  \A e \in Denoms :
           TotalOf(s, e) = IF e = d THEN TotalOf(c, e) + s[a][d] - c[a][d]
                           ELSE TotalOf(c, e)
<1> SUFFICES ASSUME NEW e \in Denoms
             PROVE  TotalOf(s, e) = IF e = d THEN TotalOf(c, e) + s[a][d] - c[a][d]
                                    ELSE TotalOf(c, e)
  OBVIOUS
<1> DEFINE f == [g \in Accounts |-> c[g][e]]
           h == [g \in Accounts |-> s[g][e]]
<1>1. IsFiniteSet(Accounts)
  BY Separate
<1>2. \A g \in Accounts : f[g] \in Int /\ h[g] \in Int
  BY DEF Ledger
<1>3. TotalOf(c, e) = Sum(f, Accounts) /\ TotalOf(s, e) = Sum(h, Accounts)
  BY DEF TotalOf, Sum
<1>4. CASE e = d
  <2>1. f[a] = c[a][d] /\ h[a] = s[a][d] /\ \A g \in Accounts \ {a} : h[g] = f[g]
    BY <1>4
  <2> HIDE DEF f, h
  <2>2. Sum(h, Accounts) = Sum(f, Accounts) + h[a] - f[a]
    BY <1>1, <1>2, <2>1, SumChange
  <2> QED
    BY <1>3, <1>4, <2>1, <2>2
<1>5. CASE e # d
  <2>1. \A g \in Accounts : h[g] = f[g]
    BY <1>5
  <2> HIDE DEF f, h
  <2>2. Sum(f, Accounts) = Sum(h, Accounts)
    BY <1>1, <1>2, <2>1, SumSame
  <2> QED
    BY <1>3, <1>5, <2>2
<1> QED
  BY <1>4, <1>5

LEMMA TotalOfInt ==
  ASSUME NEW c \in Ledger, NEW d \in Denoms
  PROVE  TotalOf(c, d) \in Int
<1> DEFINE f == [g \in Accounts |-> c[g][d]]
<1>1. \A g \in Accounts : f[g] \in Int
  BY DEF Ledger
<1>2. IsFiniteSet(Accounts) /\ TotalOf(c, d) = Sum(f, Accounts)
  BY Separate DEF TotalOf, Sum
<1> HIDE DEF f
<1> QED
  BY <1>1, <1>2, SumInt

(* A transfer changes no total.                                            *)
LEMMA TotalMoved ==
  ASSUME NEW c \in Ledger, NEW s \in Ledger, NEW a \in Accounts, NEW b \in Accounts, a # b,
         NEW d \in Denoms, NEW x \in Nat, Moves(c, s, a, b, d, x), ~(c[a][d] < x)
  PROVE  \A e \in Denoms : TotalOf(s, e) = TotalOf(c, e)
<1> DEFINE m == [c EXCEPT ![a][d] = c[a][d] - x]
<1>1. c[a][d] \in Nat /\ c[b][d] \in Nat /\ c[a][d] - x \in Nat
  BY DEF Ledger
<1>2. /\ m \in Ledger
      /\ \A g \in Accounts, e \in Denoms :
           m[g][e] = IF g = a /\ e = d THEN c[a][d] - x ELSE c[g][e]
  BY <1>1, BalanceSet
<1> HIDE DEF m
<1>3. s[a][d] = c[a][d] - x /\ s[b][d] = c[b][d] + x
  BY DEF Moves
<1>4. \A g \in Accounts, e \in Denoms : ~(g = b /\ e = d) => s[g][e] = m[g][e]
  BY <1>2 DEF Moves
<1>5. \A e \in Denoms : TotalOf(m, e) = IF e = d THEN TotalOf(c, e) + m[a][d] - c[a][d]
                                        ELSE TotalOf(c, e)
  <2>1. \A g \in Accounts, e \in Denoms : ~(g = a /\ e = d) => m[g][e] = c[g][e]
    BY <1>2
  <2> QED
    BY <1>2, <2>1, TotalChange
<1>6. \A e \in Denoms : TotalOf(s, e) = IF e = d THEN TotalOf(m, e) + s[b][d] - m[b][d]
                                        ELSE TotalOf(m, e)
  BY <1>2, <1>4, TotalChange
<1>7. m[a][d] = c[a][d] - x /\ m[b][d] = c[b][d]
  BY <1>2
<1>8. \A e \in Denoms : TotalOf(c, e) \in Int /\ TotalOf(m, e) \in Int
  BY <1>2, TotalOfInt
<1> SUFFICES ASSUME NEW e \in Denoms PROVE TotalOf(s, e) = TotalOf(c, e)
  OBVIOUS
<1>9. CASE e # d
  BY <1>5, <1>6, <1>9
<1>10. CASE e = d
  <2>1. TotalOf(m, d) = TotalOf(c, d) + (c[a][d] - x) - c[a][d]
    BY <1>5, <1>7
  <2>2. TotalOf(s, d) = TotalOf(m, d) + (c[b][d] + x) - c[b][d]
    BY <1>3, <1>6, <1>7
  <2> QED
    BY <1>1, <1>8, <1>10, <2>1, <2>2
<1> QED
  BY <1>9, <1>10

LEMMA SendKeepsTotals ==
  ASSUME NEW c \in Ledger, NEW a \in Accounts, NEW b \in Accounts, a # b,
         NEW d \in Denoms, NEW x \in Nat
  PROVE  \A e \in Denoms : TotalOf(SendCoins(c, a, b, d, x).coins, e) = TotalOf(c, e)
<1> DEFINE s == SendCoins(c, a, b, d, x).coins
<1>1. /\ s \in Ledger
      /\ c[a][d] < x => s = c
      /\ ~(c[a][d] < x) => Moves(c, s, a, b, d, x)
  BY SendCoinsEffect
<1> HIDE DEF s
<1>2. CASE c[a][d] < x
  <2>1. s = c
    BY <1>1, <1>2
  <2> QED
    BY <2>1 DEF s
<1>3. CASE ~(c[a][d] < x)
  <2>1. \A e \in Denoms : TotalOf(s, e) = TotalOf(c, e)
    BY <1>1, <1>3, TotalMoved
  <2> QED
    BY <2>1 DEF s
<1> QED
  BY <1>2, <1>3

-----------------------------------------------------------------------------
(* One leg of a trade.                                                     *)

(* Whatever the formula yields is an integer.                              *)
LEMMA EmittedInt ==
  ASSUME NEW a, NEW b, NEW c, NEW p, NEW q
  PROVE  RunCLPFormula(a, b, c, p, q) \subseteq Int
<1>1. MaxInt \in Int /\ MinInt \in Int
  BY CLPAssumption DEF MinInt
<1>2. OutOfRange \subseteq Int /\ NotANumber \subseteq Int
  BY <1>1 DEF OutOfRange, NotANumber
<1>3. MinInt..MaxInt \subseteq Int
  BY <1>1
<1> DEFINE near == {n \in MinInt..MaxInt : RoundsTo(n, a, b, c, p, q)}
<1>4. near \subseteq Int
  BY <1>3
<1>5. RunCLPFormula(a, b, c, p, q) =
        IF c = 0 THEN (IF b = 0 THEN NotANumber ELSE OutOfRange)
        ELSE IF b + c < 0 /\ q # 1 THEN NotANumber
        ELSE IF near = {} THEN OutOfRange ELSE near
  BY DEF RunCLPFormula
<1> HIDE DEF near
<1> QED
  BY <1>2, <1>4, <1>5

(* What comes out of a purchase, and of a sale.                            *)
LEMMA BuyOutcome ==
  ASSUME NEW c, NEW sender, NEW ticker, NEW x,
         NEW r \in ProcessCLPTrade(c, sender, ticker, x, TRUE)
  PROVE  /\ r.emitted \in Int
         /\ r.coins = Exchanged(c, sender, ticker, RUNE, x, ticker, r.emitted)
<1> DEFINE E == CalculateCoinsEmitted(clps[ticker], c[ticker][RUNE], x, TRUE)
           R == {[coins   |-> Exchanged(c, sender, ticker, RUNE, x, ticker, y),
                  emitted |-> y] : y \in E}
<1>1. E \subseteq Int
  BY EmittedInt DEF CalculateCoinsEmitted
<1>2. ProcessCLPTrade(c, sender, ticker, x, TRUE) \in {R, {}}
  BY DEF ProcessCLPTrade
<1>3. r \in R
  BY <1>2
<1> HIDE DEF E
<1> QED
  BY <1>1, <1>3

LEMMA SellOutcome ==
  ASSUME NEW c, NEW sender, NEW ticker, NEW x,
         NEW r \in ProcessCLPTrade(c, sender, ticker, x, FALSE)
  PROVE  /\ r.emitted \in Int
         /\ r.coins = Exchanged(c, sender, ticker, ticker, x, RUNE, r.emitted)
<1> DEFINE E == CalculateCoinsEmitted(clps[ticker], c[ticker][RUNE], x, FALSE)
           R == {[coins   |-> Exchanged(c, sender, ticker, ticker, x, RUNE, y),
                  emitted |-> y] : y \in E}
<1>1. E \subseteq Int
  BY EmittedInt DEF CalculateCoinsEmitted
<1>2. ProcessCLPTrade(c, sender, ticker, x, FALSE) \in {R, {}}
  BY DEF ProcessCLPTrade
<1>3. r \in R
  BY <1>2
<1> HIDE DEF E
<1> QED
  BY <1>1, <1>3

LEMMA LegType ==
  ASSUME NEW c \in Ledger, NEW sender \in Accounts, NEW pool \in Accounts,
         NEW from \in Denoms, NEW to \in Denoms, NEW x \in Int, NEW y \in Int
  PROVE  Exchanged(c, sender, pool, from, x, to, y) \in Ledger
<1> DEFINE s == SendCoins(c, sender, pool, from, x).coins
<1>1. s \in Ledger
  BY SendCoinsType
<1>2. Exchanged(c, sender, pool, from, x, to, y) = SendCoins(s, pool, sender, to, y).coins
  BY DEF Exchanged
<1> HIDE DEF s
<1> QED
  BY <1>1, <1>2, SendCoinsType

(* Unless the formula yielded a negative number, a leg changes no total.   *)
LEMMA LegKeepsTotals ==
  ASSUME NEW c \in Ledger, NEW sender \in Accounts, NEW pool \in Accounts, sender # pool,
         NEW from \in Denoms, NEW to \in Denoms, NEW x \in Nat, NEW y \in Nat
  PROVE  \A e \in Denoms :
           TotalOf(Exchanged(c, sender, pool, from, x, to, y), e) = TotalOf(c, e)
<1> DEFINE s == SendCoins(c, sender, pool, from, x).coins
<1>1. s \in Ledger /\ \A e \in Denoms : TotalOf(s, e) = TotalOf(c, e)
  BY SendCoinsType, SendKeepsTotals
<1>2. Exchanged(c, sender, pool, from, x, to, y) = SendCoins(s, pool, sender, to, y).coins
  BY DEF Exchanged
<1> HIDE DEF s
<1>3. \A e \in Denoms : TotalOf(SendCoins(s, pool, sender, to, y).coins, e) = TotalOf(s, e)
  BY <1>1, SendKeepsTotals
<1> QED
  BY <1>1, <1>2, <1>3

(* A leg that both sides can pay moves both amounts.                       *)
LEMMA LegEffect ==
  ASSUME NEW c \in Ledger, NEW sender \in Accounts, NEW pool \in Accounts, sender # pool,
         NEW from \in Denoms, NEW to \in Denoms, from # to, NEW x \in Nat, NEW y \in Nat,
         ~(c[sender][from] < x), ~(c[pool][to] < y)
  PROVE  Trades(c, Exchanged(c, sender, pool, from, x, to, y), sender, pool, from, x, to, y)
<1> DEFINE s == SendCoins(c, sender, pool, from, x).coins
           t == SendCoins(s, pool, sender, to, y).coins
<1>1. s \in Ledger /\ Moves(c, s, sender, pool, from, x)
  BY SendCoinsEffect
<1>2. Exchanged(c, sender, pool, from, x, to, y) = t
  BY DEF Exchanged
<1> HIDE DEF s
<1>3. s[pool][to] = c[pool][to]
  BY <1>1 DEF Moves
<1>4. Moves(s, t, pool, sender, to, y)
  BY <1>1, <1>3, SendCoinsEffect
<1> HIDE DEF t
<1>5. ASSUME NEW g \in Accounts, NEW e \in Denoms
      PROVE  t[g][e] = IF g = sender /\ e = from THEN c[g][e] - x
              ELSE IF g = sender /\ e = to THEN c[g][e] + y
              ELSE IF g = pool /\ e = from THEN c[g][e] + x
              ELSE IF g = pool /\ e = to THEN c[g][e] - y
              ELSE c[g][e]
  <2>1. s[g][e] = IF g = sender /\ e = from THEN c[g][e] - x
                  ELSE IF g = pool /\ e = from THEN c[g][e] + x
                  ELSE c[g][e]
    BY <1>1 DEF Moves
  <2>2. t[g][e] = IF g = pool /\ e = to THEN s[g][e] - y
                  ELSE IF g = sender /\ e = to THEN s[g][e] + y
                  ELSE s[g][e]
    BY <1>4 DEF Moves
  <2>3. CASE e = from
    BY <2>1, <2>2, <2>3
  <2>4. CASE e # from
    BY <2>1, <2>2, <2>4
  <2> QED
    BY <2>3, <2>4
<1> QED
  BY <1>2, <1>5 DEF Trades

-----------------------------------------------------------------------------
(* The messages.                                                           *)

StoredCLP == [creator : Users, reserveRatio : 1..100,
              initialSupply : Nat, currentSupply : Nat]

(* A pool is opened: its supply is all that is new.                        *)
LEMMA CreateEffect ==
  ASSUME TypeOK, NEW m \in MsgCreate, handleMsgCreate(m)
  PROVE  LET clp == NewCLP(m.sender, m.reserveRatio, m.initialSupply)
         IN  /\ m.ticker \in Tickers
             /\ clps[m.ticker] = NoCLP \/ m.ticker = NoTicker
             /\ clp \in StoredCLP /\ clp # NoCLP /\ clp.initialSupply = m.initialSupply
             /\ clps' = [clps EXCEPT ![m.ticker] = clp]
             /\ result' = result
             /\ coins' \in Ledger
             /\ \A e \in Denoms :
                  TotalOf(coins', e) = IF e = m.ticker THEN TotalOf(coins, e) + m.initialSupply
                                       ELSE TotalOf(coins, e)
<1> DEFINE s == m.sender
           t == m.ticker
           base == m.initialBaseCoinAmount
           supply == m.initialSupply
           clp == NewCLP(s, m.reserveRatio, supply)
           debit == SubtractCoins(coins, s, RUNE, base)
           paid  == AddCoins(debit.coins, t, RUNE, base)
           mint  == AddCoins(paid.coins, t, t, supply)
<1>1. /\ s \in Users /\ t \in Denoms /\ m.reserveRatio \in Int
      /\ base \in Int /\ supply \in Int
  BY CLPAssumption DEF MsgCreate
<1>2. /\ CreateChecks(t, m.reserveRatio, supply, base)
      /\ ~debit.err /\ ~paid.err /\ coins' = mint.coins
      /\ clps' = [clps EXCEPT ![t] = clp] /\ result' = result
  BY DEF handleMsgCreate, create, SetCLP
<1>3. /\ base \in Nat /\ supply \in Nat /\ t # RUNE
      /\ clps[t] = NoCLP \/ t = NoTicker
      /\ m.reserveRatio \in 1..100
  BY <1>1, <1>2 DEF CreateChecks, ensureNonexistentCLP, HasCLP
<1>4. t \in Tickers
  BY <1>1, <1>3 DEF Denoms
<1>5. clp \in StoredCLP /\ clp.initialSupply = supply
  BY <1>1, <1>3 DEF NewCLP, StoredCLP
<1>6. clp # NoCLP
  BY <1>5, CLPAssumption DEF StoredCLP
<1>7. s \in Accounts /\ t \in Accounts /\ s # t /\ RUNE \in Denoms /\ coins \in Ledger
  BY <1>1, <1>4, Separate DEF TypeOK, Ledger
<1>8. paid.coins = SendCoins(coins, s, t, RUNE, base).coins
  BY <1>2 DEF SendCoins
<1> HIDE DEF s, t, base, supply, clp, debit, paid
<1>9. /\ paid.coins \in Ledger
      /\ \A e \in Denoms : TotalOf(paid.coins, e) = TotalOf(coins, e)
  BY <1>3, <1>7, <1>8, SendCoinsType, SendKeepsTotals
<1> DEFINE pc == paid.coins
<1>10. pc \in Ledger /\ \A e \in Denoms : TotalOf(pc, e) = TotalOf(coins, e)
  BY <1>9
<1> HIDE DEF pc
<1>11. /\ coins' \in Ledger
       /\ \A g \in Accounts, e \in Denoms :
            coins'[g][e] = IF g = t /\ e = t THEN pc[t][t] + supply ELSE pc[g][e]
  <2>1. coins' = AddCoins(pc, t, t, supply).coins
    BY <1>2 DEF pc
  <2>2. LET r == AddCoins(pc, t, t, supply)
        IN  /\ r.coins \in Ledger
            /\ supply \in Nat => ~r.err
            /\ ~r.err => \A g \in Accounts, e \in Denoms :
                 r.coins[g][e] = IF g = t /\ e = t THEN pc[t][t] + supply ELSE pc[g][e]
    BY <1>1, <1>3, <1>7, <1>10, AddCoinsEffect
  <2> QED
    BY <1>3, <2>1, <2>2
<1>12. \A e \in Denoms :
         TotalOf(coins', e) = IF e = t THEN TotalOf(pc, e) + coins'[t][t] - pc[t][t]
                              ELSE TotalOf(pc, e)
  <2> DEFINE new == coins'
  <2>1. new \in Ledger /\ \A g \in Accounts, e \in Denoms :
                            ~(g = t /\ e = t) => new[g][e] = pc[g][e]
    BY <1>11
  <2> HIDE DEF new
  <2>2. t \in Denoms /\ pc \in Ledger
    BY <1>1, <1>10
  <2>3. \A e \in Denoms :
         TotalOf(new, e) = IF e = t THEN TotalOf(pc, e) + new[t][t] - pc[t][t]
                           ELSE TotalOf(pc, e)
    BY <1>7, <2>1, <2>2, TotalChange
  <2> QED
    BY <2>3 DEF new
<1>13. coins'[t][t] = pc[t][t] + supply /\ pc[t][t] \in Nat /\ TotalOf(pc, t) \in Int
  BY <1>1, <1>7, <1>10, <1>11, TotalOfInt DEF Ledger
<1>14. \A e \in Denoms :
         TotalOf(coins', e) = IF e = t THEN TotalOf(coins, e) + supply ELSE TotalOf(coins, e)
  <2> SUFFICES ASSUME NEW e \in Denoms
               PROVE  TotalOf(coins', e) = IF e = t THEN TotalOf(coins, e) + supply
                                           ELSE TotalOf(coins, e)
    OBVIOUS
  <2>1. CASE e = t
    <3>1. TotalOf(coins', t) = TotalOf(pc, t) + coins'[t][t] - pc[t][t]
      BY <1>1, <1>12
    <3>2. TotalOf(coins', t) = TotalOf(pc, t) + supply
      BY <1>3, <1>13, <3>1
    <3> QED
      BY <1>10, <2>1, <3>2
  <2>2. CASE e # t
    BY <1>10, <1>12, <2>2
  <2> QED
    BY <2>1, <2>2
<1> QED
  BY <1>2, <1>3, <1>4, <1>5, <1>6, <1>11, <1>14 DEF s, t, supply, clp

(* The three ways a trade may go, with what the formula has yielded.       *)
Buys(m) ==
  /\ m.fromTicker = RUNE /\ m.toTicker \in Tickers
  /\ \E y \in Int :
       /\ coins' = Exchanged(coins, m.sender, m.toTicker, RUNE, m.fromAmount, m.toTicker, y)
       /\ result' = Log(m.sender, m.fromTicker, m.toTicker, m.fromAmount, y, m.fromAmount)

Sells(m) ==
  /\ m.toTicker = RUNE /\ m.fromTicker \in Tickers
  /\ \E y \in Int :
       /\ coins' = Exchanged(coins, m.sender, m.fromTicker, m.fromTicker, m.fromAmount, RUNE, y)
       /\ result' = Log(m.sender, m.fromTicker, m.toTicker, m.fromAmount, y, y)

Swaps(m) ==
  /\ m.fromTicker \in Tickers /\ m.toTicker \in Tickers
  /\ \E y, z \in Int :
       /\ coins' = Exchanged(Exchanged(coins, m.sender, m.fromTicker,
                                       m.fromTicker, m.fromAmount, RUNE, y),
                             m.sender, m.toTicker, RUNE, y, m.toTicker, z)
       /\ result' = Log(m.sender, m.fromTicker, m.toTicker, m.fromAmount, z, y)

LEMMA TradeCases ==
  ASSUME TypeOK, NEW m \in MsgTrade, handleMsgTrade(m)
  PROVE  /\ m.sender \in Users /\ m.fromAmount \in Nat
         /\ m.fromTicker \in Denoms /\ m.toTicker \in Denoms
         /\ m.fromTicker # m.toTicker
         /\ ~(coins[m.sender][m.fromTicker] < m.fromAmount)
         /\ clps' = clps
         /\ Buys(m) \/ Sells(m) \/ Swaps(m)
<1> DEFINE s == m.sender
           f == m.fromTicker
           t == m.toTicker
           x == m.fromAmount
<1>1. s \in Users /\ f \in Denoms /\ t \in Denoms /\ x \in Int
  BY CLPAssumption DEF MsgTrade
<1>2. trade(s, f, t, x)
  BY DEF handleMsgTrade
<1>3. f # t /\ x > 0 /\ coins[s][f] >= x /\ clps' = clps
  BY <1>2 DEF trade, TradeChecks
<1>4. coins[s][f] \in Nat
  BY <1>1, Separate DEF TypeOK
<1> HIDE DEF s, f, t, x
<1>5. ASSUME f = RUNE,
             NEW r \in ProcessCLPTrade(coins, s, t, x, TRUE),
             coins' = r.coins, result' = Log(s, f, t, x, r.emitted, x)
      PROVE  Buys(m)
  <2>1. r.emitted \in Int /\ r.coins = Exchanged(coins, s, t, RUNE, x, t, r.emitted)
    BY BuyOutcome
  <2>2. t \in Tickers
    BY <1>1, <1>3, <1>5 DEF Denoms
  <2> QED
    BY <1>5, <2>1, <2>2 DEF Buys, s, f, t, x
<1>6. ASSUME t = RUNE,
             NEW r \in ProcessCLPTrade(coins, s, f, x, FALSE),
             coins' = r.coins, result' = Log(s, f, t, x, r.emitted, r.emitted)
      PROVE  Sells(m)
  <2>1. r.emitted \in Int /\ r.coins = Exchanged(coins, s, f, f, x, RUNE, r.emitted)
    BY SellOutcome
  <2>2. f \in Tickers
    BY <1>1, <1>3, <1>6 DEF Denoms
  <2> QED
    BY <1>6, <2>1, <2>2 DEF Sells, s, f, t, x
<1>7. ASSUME f # RUNE, t # RUNE, TradeTwoPools(s, f, t, x)
      PROVE  Swaps(m)
  <2>1. PICK r1 \in ProcessCLPTrade(coins, s, f, x, FALSE) :
             \E r2 \in ProcessCLPTrade(r1.coins, s, t, r1.emitted, TRUE) :
               /\ coins' = r2.coins
               /\ result' = Log(s, f, t, x, r2.emitted, r1.emitted)
    BY <1>7 DEF TradeTwoPools
  <2>2. PICK r2 \in ProcessCLPTrade(r1.coins, s, t, r1.emitted, TRUE) :
               /\ coins' = r2.coins
               /\ result' = Log(s, f, t, x, r2.emitted, r1.emitted)
    BY <2>1
  <2>3. r1.emitted \in Int /\ r1.coins = Exchanged(coins, s, f, f, x, RUNE, r1.emitted)
    BY SellOutcome
  <2>4. /\ r2.emitted \in Int
        /\ r2.coins = Exchanged(r1.coins, s, t, RUNE, r1.emitted, t, r2.emitted)
    <3> DEFINE c1 == r1.coins
               x1 == r1.emitted
    <3>1. r2 \in ProcessCLPTrade(c1, s, t, x1, TRUE)
      OBVIOUS
    <3> HIDE DEF c1, x1
    <3>2. r2.emitted \in Int /\ r2.coins = Exchanged(c1, s, t, RUNE, x1, t, r2.emitted)
      BY <3>1, BuyOutcome
    <3> QED
      BY <3>2 DEF c1, x1
  <2>5. f \in Tickers /\ t \in Tickers
    BY <1>1, <1>7 DEF Denoms
  <2> QED
    BY <2>2, <2>3, <2>4, <2>5 DEF Swaps, s, f, t, x
<1>8. Buys(m) \/ Sells(m) \/ Swaps(m)
  BY <1>2, <1>5, <1>6, <1>7 DEF trade
<1> QED
  BY <1>1, <1>3, <1>4, <1>8 DEF s, f, t, x

(* A transfer of the bank.                                                 *)
LEMMA SendEffect ==
  ASSUME TypeOK, NEW s \in Users, NEW a \in Accounts, NEW d \in Denoms,
         NEW x \in TradeAmounts, send(s, a, d, x)
  PROVE  /\ coins' \in Ledger
         /\ \A e \in Denoms : TotalOf(coins', e) = TotalOf(coins, e)
         /\ clps' = clps /\ result' = result
<1>1. x \in Nat /\ s \in Accounts /\ coins \in Ledger
  BY CLPAssumption, Separate DEF send, TypeOK, Ledger
<1>2. /\ coins' = SendCoins(coins, s, a, d, x).coins
      /\ ~SendCoins(coins, s, a, d, x).err
  BY DEF send
<1>3. CASE s # a
  BY <1>1, <1>2, <1>3, SendCoinsType, SendKeepsTotals DEF send
<1>4. CASE s = a
  <2> DEFINE r == SubtractCoins(coins, s, d, x)
             sc == r.coins
             u == AddCoins(sc, s, d, x)
  <2>1. /\ sc \in Ledger /\ r.err \in BOOLEAN
        /\ ~r.err => \A g \in Accounts, e \in Denoms :
             sc[g][e] = IF g = s /\ e = d THEN coins[s][d] - x ELSE coins[g][e]
    BY <1>1, SubtractCoinsEffect
  <2>2. SendCoins(coins, s, a, d, x) = IF r.err THEN r ELSE u
    BY <1>4 DEF SendCoins
  <2>3. ~r.err /\ coins' = u.coins
    BY <1>2, <2>2
  <2> HIDE DEF r, sc
  <2>4. /\ u.coins \in Ledger
        /\ \A g \in Accounts, e \in Denoms :
             u.coins[g][e] = IF g = s /\ e = d THEN sc[s][d] + x ELSE sc[g][e]
    <3>1. ~u.err
      BY <1>1, <2>1, AddCoinsEffect
    <3> QED
      BY <1>1, <2>1, <3>1, AddCoinsEffect
  <2> HIDE DEF u
  <2>5. coins[s][d] \in Nat /\ sc[s][d] = coins[s][d] - x
    BY <1>1, <2>1, <2>3 DEF Ledger
  <2>6. (coins[s][d] - x) + x = coins[s][d]
    BY <1>1, <2>5
  <2>7. \A g \in Accounts, e \in Denoms : u.coins[g][e] = coins[g][e]
    <3> SUFFICES ASSUME NEW g \in Accounts, NEW e \in Denoms
                 PROVE  u.coins[g][e] = coins[g][e]
      OBVIOUS
    <3>1. CASE g = s /\ e = d
      BY <2>4, <2>5, <2>6, <3>1
    <3>2. CASE ~(g = s /\ e = d)
      BY <2>1, <2>3, <2>4, <3>2
    <3> QED
      BY <3>1, <3>2
  <2>8. u.coins = coins
    BY <1>1, <2>4, <2>7 DEF Ledger
  <2> QED
    BY <1>1, <2>3, <2>8 DEF send
<1> QED
  BY <1>3, <1>4

(* Neither leg of a trade leaves a negative balance; without a negative    *)
(* number from the formula, neither changes a total.                       *)
LEMMA TradeKept ==
  ASSUME TypeOK, NEW m \in MsgTrade, handleMsgTrade(m)
  PROVE  /\ coins' \in Ledger
         /\ ~(result'.received < 0 \/ result'.rune < 0) =>
              \A e \in Denoms : TotalOf(coins', e) = TotalOf(coins, e)
         /\ clps' = clps
         /\ result'.sender \in Users
<1> DEFINE s == m.sender
           f == m.fromTicker
           t == m.toTicker
           x == m.fromAmount
<1>1. /\ s \in Users /\ x \in Nat /\ f \in Denoms /\ t \in Denoms /\ f # t
      /\ clps' = clps /\ (Buys(m) \/ Sells(m) \/ Swaps(m))
  BY TradeCases
<1>2. /\ coins \in Ledger /\ s \in Accounts /\ RUNE \in Denoms
      /\ \A p \in Tickers : p \in Accounts /\ p \in Denoms /\ s # p
  BY <1>1, Separate DEF TypeOK, Ledger
<1> HIDE DEF s, f, t, x
<1>3. CASE Buys(m)
  <2>1. PICK y \in Int : /\ coins' = Exchanged(coins, s, t, RUNE, x, t, y)
                         /\ result' = Log(s, f, t, x, y, x)
    BY <1>3 DEF Buys, s, f, t, x
  <2>2. t \in Tickers
    BY <1>3 DEF Buys, t
  <2>3. coins' \in Ledger
    BY <1>1, <1>2, <2>1, <2>2, LegType
  <2>4. result'.received = y /\ result'.sender = s
    BY <2>1 DEF Log
  <2>5. ASSUME y \in Nat PROVE \A e \in Denoms : TotalOf(coins', e) = TotalOf(coins, e)
    BY <1>1, <1>2, <2>1, <2>2, <2>5, LegKeepsTotals
  <2> QED
    BY <1>1, <2>3, <2>4, <2>5
<1>4. CASE Sells(m)
  <2>1. PICK y \in Int : /\ coins' = Exchanged(coins, s, f, f, x, RUNE, y)
                         /\ result' = Log(s, f, t, x, y, y)
    BY <1>4 DEF Sells, s, f, t, x
  <2>2. f \in Tickers
    BY <1>4 DEF Sells, f
  <2>3. coins' \in Ledger
    BY <1>1, <1>2, <2>1, <2>2, LegType
  <2>4. result'.received = y /\ result'.sender = s
    BY <2>1 DEF Log
  <2>5. ASSUME y \in Nat PROVE \A e \in Denoms : TotalOf(coins', e) = TotalOf(coins, e)
    BY <1>1, <1>2, <2>1, <2>2, <2>5, LegKeepsTotals
  <2> QED
    BY <1>1, <2>3, <2>4, <2>5
<1>5. CASE Swaps(m)
  <2>1. PICK y \in Int, z \in Int :
           /\ coins' = Exchanged(Exchanged(coins, s, f, f, x, RUNE, y), s, t, RUNE, y, t, z)
           /\ result' = Log(s, f, t, x, z, y)
    BY <1>5 DEF Swaps, s, f, t, x
  <2>2. f \in Tickers /\ t \in Tickers
    BY <1>5 DEF Swaps, f, t
  <2> DEFINE c1 == Exchanged(coins, s, f, f, x, RUNE, y)
  <2>3. c1 \in Ledger
    BY <1>1, <1>2, <2>2, LegType
  <2>4. coins' = Exchanged(c1, s, t, RUNE, y, t, z)
    BY <2>1
  <2>5. ASSUME y \in Nat PROVE \A e \in Denoms : TotalOf(c1, e) = TotalOf(coins, e)
    BY <1>1, <1>2, <2>2, <2>5, LegKeepsTotals
  <2> HIDE DEF c1
  <2>6. coins' \in Ledger
    BY <1>1, <1>2, <2>2, <2>3, <2>4, LegType
  <2>7. ASSUME y \in Nat, z \in Nat
        PROVE  \A e \in Denoms : TotalOf(coins', e) = TotalOf(coins, e)
    <3>1. \A e \in Denoms : TotalOf(coins', e) = TotalOf(c1, e)
      BY <1>1, <1>2, <2>2, <2>3, <2>4, <2>7, LegKeepsTotals
    <3> QED
      BY <2>5, <2>7, <3>1
  <2>8. result'.received = z /\ result'.rune = y /\ result'.sender = s
    BY <2>1 DEF Log
  <2> QED
    BY <1>1, <2>6, <2>7, <2>8
<1> QED
  BY <1>1, <1>3, <1>4, <1>5

-----------------------------------------------------------------------------
(* The theorems about the messages.                                        *)

LEMMA ClpInitially == Init => TypeOK
<1> SUFFICES ASSUME Init PROVE TypeOK
  OBVIOUS
<1>1. coins \in [Accounts -> [Denoms -> Nat]]
  BY CLPAssumption DEF Init
<1>2. clps \in [Tickers -> StoredCLP \cup {NoCLP}]
  BY DEF Init
<1> QED
  BY <1>1, <1>2 DEF Init, TypeOK, StoredCLP

LEMMA ClpStep ==
  ASSUME TypeOK, [Next]_vars
  PROVE  TypeOK'
<1>0. /\ coins \in Ledger /\ clps \in [Tickers -> StoredCLP \cup {NoCLP}]
      /\ result = NoCLP \/ result.sender \in Users
  BY DEF TypeOK, Ledger, StoredCLP
<1> SUFFICES /\ coins' \in Ledger /\ clps' \in [Tickers -> StoredCLP \cup {NoCLP}]
             /\ result' = NoCLP \/ result'.sender \in Users
  BY DEF TypeOK, Ledger, StoredCLP
<1>1. CASE \E m \in MsgCreate : handleMsgCreate(m)
  <2> PICK m \in MsgCreate : handleMsgCreate(m)
    BY <1>1
  <2> DEFINE clp == NewCLP(m.sender, m.reserveRatio, m.initialSupply)
  <2>1. /\ coins' \in Ledger /\ result' = result /\ clp \in StoredCLP
        /\ clps' = [clps EXCEPT ![m.ticker] = clp]
    BY CreateEffect
  <2> HIDE DEF clp
  <2> QED
    BY <1>0, <2>1
<1>2. CASE \E m \in MsgTrade : handleMsgTrade(m)
  BY <1>0, <1>2, TradeKept
<1>3. CASE \E s \in Users, a \in Accounts, d \in Denoms, x \in TradeAmounts : send(s, a, d, x)
  BY <1>0, <1>3, SendEffect
<1>4. CASE UNCHANGED vars
  BY <1>0, <1>4 DEF vars
<1> QED
  BY <1>1, <1>2, <1>3, <1>4 DEF Next

(* No message leaves a negative balance or a pool that is not well formed, *)
(* although trade hands the bank amounts it has not checked.               *)
THEOREM ClpTypeCorrect == Spec => []TypeOK
<1> QED
  BY ClpInitially, ClpStep, PTL DEF Spec

(* The pools whose supply a step mints.                                    *)
Minted(d) == /\ d \in Tickers /\ clps'[d] # NoCLP
             /\ clps[d] = NoCLP \/ (d = NoTicker /\ Created(d))

(* A step opens at most one pool.                                          *)
LEMMA OnlyOneMinted ==
  ASSUME TypeOK, NEW m \in MsgCreate, handleMsgCreate(m), NEW d \in Denoms
  PROVE  Minted(d) <=> d = m.ticker
<1> DEFINE clp(n) == NewCLP(n.sender, n.reserveRatio, n.initialSupply)
<1>1. \A n \in MsgCreate : handleMsgCreate(n) =>
        /\ n.ticker \in Tickers
        /\ clps[n.ticker] = NoCLP \/ n.ticker = NoTicker
        /\ clp(n) # NoCLP /\ clps' = [clps EXCEPT ![n.ticker] = clp(n)]
  BY CreateEffect
<1> HIDE DEF clp
<1>2. /\ clps' = [clps EXCEPT ![m.ticker] = clp(m)] /\ clp(m) # NoCLP
      /\ m.ticker \in Tickers
      /\ clps[m.ticker] = NoCLP \/ m.ticker = NoTicker
  BY <1>1
<1>3. DOMAIN clps = Tickers
  BY DEF TypeOK
<1>4. CASE d = m.ticker
  BY <1>2, <1>3, <1>4 DEF Minted, Created
<1>5. CASE d # m.ticker
  <2>1. d \in Tickers => clps'[d] = clps[d]
    BY <1>2, <1>3, <1>5
  <2>2. ASSUME d = NoTicker, NEW n \in MsgCreate, n.ticker = d, handleMsgCreate(n)
        PROVE  FALSE
    <3>1. clps[m.ticker] = NoCLP /\ clps'[m.ticker] # NoCLP
      BY <1>2, <1>3, <1>5, <2>2
    <3>2. clps'[m.ticker] = clps[m.ticker]
      BY <1>1, <1>2, <1>3, <1>5, <2>2
    <3> QED
      BY <3>1, <3>2
  <2> QED
    BY <1>5, <2>1, <2>2 DEF Minted, Created
<1> QED
  BY <1>4, <1>5

(* Every message leaves the total of every coin as it is, but for the      *)
(* supply of a pool it opens, unless the formula has left the range of     *)
(* int64.  That supply is minted once for a ticker, the empty one excepted *)
(* whose pool ensureNonexistentCLP never finds.                            *)
THEOREM CoinsOnlyFromPools == Spec => NoCoinsCreated
<1> DEFINE Kept == \A d \in Denoms :
             Total(d)' - Total(d) = IF Minted(d) THEN clps'[d].initialSupply ELSE 0
           Changes ==
             \/ Kept
             \/ /\ \E m \in MsgTrade : handleMsgTrade(m)
                /\ result'.received < 0 \/ result'.rune < 0
<1>1. ASSUME TypeOK, [Next]_vars PROVE Changes
  <2>0. /\ coins \in Ledger /\ clps \in [Tickers -> StoredCLP \cup {NoCLP}]
        /\ \A d \in Denoms : TotalOf(coins, d) \in Int
    BY <1>1, TotalOfInt DEF TypeOK, Ledger, StoredCLP
  <2>1. CASE \E m \in MsgCreate : handleMsgCreate(m)
    <3> PICK m \in MsgCreate : handleMsgCreate(m)
      BY <2>1
    <3> DEFINE t == m.ticker
               clp == NewCLP(m.sender, m.reserveRatio, m.initialSupply)
    <3>1. /\ t \in Tickers /\ clp.initialSupply = m.initialSupply
          /\ clps' = [clps EXCEPT ![t] = clp]
          /\ \A e \in Denoms :
               TotalOf(coins', e) = IF e = t THEN TotalOf(coins, e) + m.initialSupply
                                    ELSE TotalOf(coins, e)
      BY <1>1, CreateEffect
    <3>2. m.initialSupply \in Int
      BY CLPAssumption DEF MsgCreate
    <3>3. \A d \in Denoms : Minted(d) <=> d = t
      BY <1>1, OnlyOneMinted
    <3> HIDE DEF t, clp
    <3> SUFFICES ASSUME NEW d \in Denoms
                 PROVE  Total(d)' - Total(d) =
                          IF Minted(d) THEN clps'[d].initialSupply ELSE 0
      OBVIOUS
    <3>4. Total(d)' = TotalOf(coins', d) /\ Total(d) = TotalOf(coins, d)
      BY DEF Total
    <3>5. CASE d = t
      <4>1. Total(d)' - Total(d) = m.initialSupply
        BY <2>0, <3>1, <3>2, <3>4, <3>5
      <4>2. clps'[d].initialSupply = m.initialSupply
        BY <2>0, <3>1, <3>5
      <4> QED
        BY <3>3, <3>5, <4>1, <4>2
    <3>6. CASE d # t
      <4>1. Total(d)' - Total(d) = 0
        BY <2>0, <3>1, <3>4, <3>6
      <4> QED
        BY <3>3, <3>6, <4>1
    <3> QED
      BY <3>5, <3>6
  <2>s. ASSUME ~\E m \in MsgCreate : handleMsgCreate(m),
               clps' = clps, \A d \in Denoms : TotalOf(coins', d) = TotalOf(coins, d)
        PROVE  Changes
    <3>1. \A d \in Denoms : Total(d)' - Total(d) = 0
      BY <2>0, <2>s DEF Total
    <3>2. \A d \in Denoms : ~Minted(d)
      BY <2>s DEF Minted, Created
    <3> QED
      BY <3>1, <3>2
  <2>2. CASE /\ ~\E m \in MsgCreate : handleMsgCreate(m)
             /\ \E m \in MsgTrade : handleMsgTrade(m)
    <3>1. /\ clps' = clps
          /\ ~(result'.received < 0 \/ result'.rune < 0) =>
               \A e \in Denoms : TotalOf(coins', e) = TotalOf(coins, e)
      BY <1>1, <2>2, TradeKept
    <3> QED
      BY <2>2, <2>s, <3>1
  <2>3. CASE /\ ~\E m \in MsgCreate : handleMsgCreate(m)
             /\ \E s \in Users, a \in Accounts, d \in Denoms, x \in TradeAmounts :
                  send(s, a, d, x)
    BY <1>1, <2>3, <2>s, SendEffect
  <2>4. CASE (~\E m \in MsgCreate : handleMsgCreate(m)) /\ UNCHANGED vars
    <3>1. clps' = clps /\ coins' = coins
      BY <2>4 DEF vars
    <3> QED
      BY <2>4, <2>s, <3>1
  <2> QED
    BY <1>1, <2>1, <2>2, <2>3, <2>4 DEF Next
<1>2. TypeOK /\ [Next]_vars => [Changes]_vars
  BY <1>1
<1> QED
  BY <1>2, ClpTypeCorrect, PTL DEF Spec, NoCoinsCreated, Minted

(* A trade that both pools can pay, way by way.                            *)
LEMMA TradeLogged ==
  ASSUME TypeOK, NEW m \in MsgTrade, handleMsgTrade(m), Payable(result'),
         NEW a \in Accounts, NEW d \in Denoms
  PROVE  coins'[a][d] - coins[a][d] = LoggedChange(a, d, result')
<1> DEFINE s == m.sender
           f == m.fromTicker
           t == m.toTicker
           x == m.fromAmount
           n == coins[a][d]
<1>1. /\ s \in Users /\ x \in Nat /\ f \in Denoms /\ t \in Denoms /\ f # t
      /\ ~(coins[s][f] < x)
      /\ Buys(m) \/ Sells(m) \/ Swaps(m)
  BY TradeCases
<1>2. /\ coins \in Ledger /\ s \in Accounts /\ RUNE \in Denoms
      /\ \A p \in Tickers : p \in Accounts /\ p \in Denoms /\ s # p /\ p # RUNE
      /\ a # RUNE /\ s # f /\ s # t
  BY <1>1, Separate DEF TypeOK, Ledger
<1>n. n \in Nat /\ coins[s][RUNE] \in Nat /\ \A p \in Tickers, e \in Denoms : coins[p][e] \in Nat
  BY <1>2 DEF Ledger
<1> HIDE DEF s, f, t, x, n
<1>3. CASE Buys(m)
  <2>1. PICK y \in Int : /\ coins' = Exchanged(coins, s, t, RUNE, x, t, y)
                         /\ result' = Log(s, f, t, x, y, x)
    BY <1>3 DEF Buys, s, f, t, x
  <2>2. t \in Tickers /\ f = RUNE
    BY <1>3 DEF Buys, t, f
  <2>3. /\ result'.sender = s /\ result'.from = RUNE /\ result'.to = t
        /\ result'.spent = x /\ result'.received = y /\ result'.rune = x
    BY <2>1, <2>2 DEF Log
  <2>4. y \in Nat /\ ~(coins[t][t] < y)
    BY <1>2, <1>n, <2>2, <2>3 DEF Payable
  <2>5. Trades(coins, coins', s, t, RUNE, x, t, y)
    BY <1>1, <1>2, <2>1, <2>2, <2>4, LegEffect
  <2>6. coins'[a][d] = IF a = s /\ d = RUNE THEN n - x
                       ELSE IF a = s /\ d = t THEN n + y
                       ELSE IF a = t /\ d = RUNE THEN n + x
                       ELSE IF a = t /\ d = t THEN n - y
                       ELSE n
    BY <2>5 DEF Trades, n
  <2>7. LoggedChange(a, d, result') = IF a = s /\ d = RUNE THEN -x
                       ELSE IF a = s /\ d = t THEN y
                       ELSE IF a = t /\ d = RUNE THEN x
                       ELSE IF a = t /\ d = t THEN -y
                       ELSE 0
    BY <1>2, <2>2, <2>3 DEF LoggedChange
  <2> QED
    BY <1>1, <1>n, <2>4, <2>6, <2>7 DEF n
<1>4. CASE Sells(m)
  <2>1. PICK y \in Int : /\ coins' = Exchanged(coins, s, f, f, x, RUNE, y)
                         /\ result' = Log(s, f, t, x, y, y)
    BY <1>4 DEF Sells, s, f, t, x
  <2>2. f \in Tickers /\ t = RUNE
    BY <1>4 DEF Sells, t, f
  <2>3. /\ result'.sender = s /\ result'.from = f /\ result'.to = RUNE
        /\ result'.spent = x /\ result'.received = y /\ result'.rune = y
    BY <2>1, <2>2 DEF Log
  <2>4. y \in Nat /\ ~(coins[f][RUNE] < y)
    BY <1>2, <1>n, <2>2, <2>3 DEF Payable
  <2>5. Trades(coins, coins', s, f, f, x, RUNE, y)
    BY <1>1, <1>2, <2>1, <2>2, <2>4, LegEffect
  <2>6. coins'[a][d] = IF a = s /\ d = f THEN n - x
                       ELSE IF a = s /\ d = RUNE THEN n + y
                       ELSE IF a = f /\ d = f THEN n + x
                       ELSE IF a = f /\ d = RUNE THEN n - y
                       ELSE n
    BY <2>5 DEF Trades, n
  <2>7. LoggedChange(a, d, result') = IF a = s /\ d = f THEN -x
                       ELSE IF a = s /\ d = RUNE THEN y
                       ELSE IF a = f /\ d = f THEN x
                       ELSE IF a = f /\ d = RUNE THEN -y
                       ELSE 0
    BY <1>2, <2>2, <2>3 DEF LoggedChange
  <2> QED
    BY <1>1, <1>n, <2>4, <2>6, <2>7 DEF n
<1>5. CASE Swaps(m)
  <2>1. PICK y \in Int, z \in Int :
           /\ coins' = Exchanged(Exchanged(coins, s, f, f, x, RUNE, y), s, t, RUNE, y, t, z)
           /\ result' = Log(s, f, t, x, z, y)
    BY <1>5 DEF Swaps, s, f, t, x
  <2>2. f \in Tickers /\ t \in Tickers
    BY <1>5 DEF Swaps, f, t
  <2>3. /\ result'.sender = s /\ result'.from = f /\ result'.to = t
        /\ result'.spent = x /\ result'.received = z /\ result'.rune = y
    BY <2>1 DEF Log
  <2>4. /\ y \in Nat /\ ~(coins[f][RUNE] < y)
        /\ z \in Nat /\ ~(coins[t][t] < z)
    BY <1>2, <1>n, <2>2, <2>3 DEF Payable
  <2> DEFINE c1 == Exchanged(coins, s, f, f, x, RUNE, y)
  <2>5. c1 \in Ledger /\ coins' = Exchanged(c1, s, t, RUNE, y, t, z)
    BY <1>1, <1>2, <2>1, <2>2, LegType
  <2>6. Trades(coins, c1, s, f, f, x, RUNE, y)
    BY <1>1, <1>2, <2>2, <2>4, LegEffect
  <2> HIDE DEF c1
  <2>7. c1[s][RUNE] = coins[s][RUNE] + y /\ c1[t][t] = coins[t][t]
    BY <1>1, <1>2, <2>2, <2>6 DEF Trades
  <2>8. ~(c1[s][RUNE] < y) /\ ~(c1[t][t] < z)
    BY <1>n, <2>4, <2>7
  <2>9. Trades(c1, coins', s, t, RUNE, y, t, z)
    BY <1>1, <1>2, <2>2, <2>4, <2>5, <2>8, LegEffect
  <2>10. c1[a][d] = IF a = s /\ d = f THEN n - x
                    ELSE IF a = s /\ d = RUNE THEN n + y
                    ELSE IF a = f /\ d = f THEN n + x
                    ELSE IF a = f /\ d = RUNE THEN n - y
                    ELSE n
    BY <2>6 DEF Trades, n
  <2>11. coins'[a][d] = IF a = s /\ d = RUNE THEN c1[a][d] - y
                        ELSE IF a = s /\ d = t THEN c1[a][d] + z
                        ELSE IF a = t /\ d = RUNE THEN c1[a][d] + y
                        ELSE IF a = t /\ d = t THEN c1[a][d] - z
                        ELSE c1[a][d]
    BY <2>9 DEF Trades
  <2>12. /\ f # RUNE /\ t # RUNE /\ f # t /\ s # f /\ s # t
    BY <1>1, <1>2, <2>2
  <2>13. LoggedChange(a, d, result') = IF a = s /\ d = f THEN -x
                       ELSE IF a = s /\ d = t THEN z
                       ELSE IF a = f /\ d = f THEN x
                       ELSE IF a = f /\ d = RUNE THEN -y
                       ELSE IF a = t /\ d = RUNE THEN y
                       ELSE IF a = t /\ d = t THEN -z
                       ELSE 0
    BY <1>2, <2>3, <2>12 DEF LoggedChange
  <2>14. CASE a = s
    BY <1>1, <1>n, <2>4, <2>10, <2>11, <2>12, <2>13, <2>14 DEF n
  <2>15. CASE a = f
    BY <1>1, <1>n, <2>4, <2>10, <2>11, <2>12, <2>13, <2>15 DEF n
  <2>16. CASE a # s /\ a # f
    BY <1>1, <1>n, <2>4, <2>10, <2>11, <2>12, <2>13, <2>16 DEF n
  <2> QED
    BY <2>14, <2>15, <2>16
<1> QED
  BY <1>1, <1>3, <1>4, <1>5

(* Every trade the pools can pay, in one leg or in two, moves exactly what *)
(* handleMsgTrade logs of it, and touches no other balance.                *)
THEOREM TradesAsLogged == Spec => TradeAsLogged
<1> DEFINE AsLogged ==
      Traded /\ Payable(result') =>
        \A a \in Accounts, d \in Denoms :
          coins'[a][d] - coins[a][d] = LoggedChange(a, d, result')
<1>1. ASSUME TypeOK, [Next]_vars PROVE AsLogged
  <2>1. CASE \E m \in MsgCreate : handleMsgCreate(m)
    BY <2>1 DEF handleMsgCreate, create, Traded
  <2>2. CASE \E m \in MsgTrade : handleMsgTrade(m)
    BY <1>1, <2>2, TradeLogged
  <2>3. CASE \E s \in Users, a \in Accounts, d \in Denoms, x \in TradeAmounts : send(s, a, d, x)
    BY <2>3 DEF send, Traded
  <2>4. CASE UNCHANGED vars
    BY <2>4 DEF vars, Traded
  <2> QED
    BY <1>1, <2>1, <2>2, <2>3, <2>4 DEF Next
<1>2. TypeOK /\ [Next]_vars => [AsLogged]_vars
  BY <1>1
<1> QED
  BY <1>2, ClpTypeCorrect, PTL DEF Spec, TradeAsLogged

-----------------------------------------------------------------------------
(* The queries.                                                            *)

(* Serving queries changes nothing: with them, the chain is still CLP, so  *)
(* that what is proved of Spec holds of QuerySpec.                         *)
THEOREM QueriesReadOnly == QuerySpec => Spec
<1>1. QueryInit => Init
  BY DEF QueryInit
<1>2. [QueryNext]_<<vars, queryVars>> => [Next]_vars
  BY DEF QueryNext, queryClp, queryClps, ReadRecords, getCLPAccountOutput, queryFails
<1> QED
  BY <1>1, <1>2, PTL DEF QuerySpec, Spec

(* The records a request holds are still those of the chain: but for the   *)
(* empty ticker, a pool that is open is never replaced or removed.         *)
Current(held) ==
  \A t \in DOMAIN held :
    /\ t \in Tickers /\ clps[t] # NoCLP
    /\ t # NoTicker => held[t] = clps[t]

RecordsCurrent ==
  /\ request # None => Current(request)
  /\ PoolShownAsItWas

LEMMA PoolsStay ==
  ASSUME TypeOK, [Next]_vars
  PROVE  \A t \in Tickers : clps[t] # NoCLP =>
           clps'[t] # NoCLP /\ (t # NoTicker => clps'[t] = clps[t])
<1>1. CASE \E m \in MsgCreate : handleMsgCreate(m)
  <2> PICK m \in MsgCreate : handleMsgCreate(m)
    BY <1>1
  <2> DEFINE clp == NewCLP(m.sender, m.reserveRatio, m.initialSupply)
  <2>1. /\ clps[m.ticker] = NoCLP \/ m.ticker = NoTicker
        /\ clp # NoCLP /\ clps' = [clps EXCEPT ![m.ticker] = clp]
    BY CreateEffect
  <2> HIDE DEF clp
  <2> QED
    BY <2>1 DEF TypeOK
<1>2. CASE \E m \in MsgTrade : handleMsgTrade(m)
  BY <1>2 DEF handleMsgTrade, trade
<1>3. CASE \E s \in Users, a \in Accounts, d \in Denoms, x \in TradeAmounts : send(s, a, d, x)
  BY <1>3 DEF send
<1>4. CASE UNCHANGED vars
  BY <1>4 DEF vars
<1> QED
  BY <1>1, <1>2, <1>3, <1>4 DEF Next

LEMMA RecordsStep ==
  ASSUME TypeOK, RecordsCurrent, [QueryNext]_<<vars, queryVars>>
  PROVE  RecordsCurrent'
<1>0. request # None =>
        \A t \in DOMAIN request :
          /\ t \in Tickers /\ clps[t] # NoCLP
          /\ t # NoTicker => request[t] = clps[t]
  BY DEF RecordsCurrent, Current
<1>1. CASE Next /\ output' = None /\ UNCHANGED request
  <2>1. \A t \in Tickers : clps[t] # NoCLP =>
          clps'[t] # NoCLP /\ (t # NoTicker => clps'[t] = clps[t])
    BY <1>1, PoolsStay
  <2> QED
    BY <1>0, <1>1, <2>1 DEF RecordsCurrent, Current, PoolShownAsItWas
<1>2. ASSUME NEW ts \in SUBSET Tickers, ReadRecords(ts) PROVE RecordsCurrent'
  <2> DEFINE stored == {t \in ts : clps[t] # NoCLP}
  <2>1. /\ request' \in {None, [t \in stored |-> clps[t]]}
        /\ output' = None /\ clps' = clps
    BY <1>2 DEF ReadRecords, vars
  <2>2. CASE request' = None
    BY <2>1, <2>2 DEF RecordsCurrent, PoolShownAsItWas
  <2>3. CASE request' = [t \in stored |-> clps[t]]
    BY <2>1, <2>3 DEF RecordsCurrent, Current, PoolShownAsItWas
  <2> QED
    BY <2>1, <2>2, <2>3
<1>3. ASSUME NEW t \in Tickers, getCLPAccountOutput(t) PROVE RecordsCurrent'
  <2>1. /\ request # None /\ t \in DOMAIN request
        /\ output' = Shown(request[t], t)
        /\ request' \in {None, [u \in DOMAIN request \ {t} |-> request[u]]}
        /\ clps' = clps /\ coins' = coins
    BY <1>3 DEF getCLPAccountOutput, vars
  <2>2. t # NoTicker => request[t] = clps[t]
    BY <1>0, <2>1
  <2>3. output'.ticker = t /\ (t # NoTicker => output' = Shown(clps[t], t)')
    BY <2>1, <2>2 DEF Shown
  <2>4. PoolShownAsItWas'
    BY <2>1, <2>3 DEF PoolShownAsItWas, Shown
  <2>5. request' # None =>
          \A u \in DOMAIN request' :
            /\ u \in Tickers /\ clps'[u] # NoCLP
            /\ u # NoTicker => request'[u] = clps'[u]
    BY <1>0, <2>1
  <2> QED
    BY <2>4, <2>5 DEF RecordsCurrent, Current
<1>4. CASE \E t \in Tickers : queryClp(t) \/ getCLPAccountOutput(t)
  BY <1>2, <1>3, <1>4 DEF queryClp
<1>5. CASE queryClps
  BY <1>2, <1>5 DEF queryClps
<1>6. CASE queryFails
  BY <1>6 DEF queryFails, Respond, RecordsCurrent, PoolShownAsItWas
<1>7. CASE UNCHANGED <<vars, queryVars>>
  BY <1>7 DEF vars, queryVars, RecordsCurrent, Current, PoolShownAsItWas, Shown
<1> QED
  BY <1>1, <1>4, <1>5, <1>6, <1>7 DEF QueryNext

(* A response shows every pool as it was in one committed state, although  *)
(* its record and its balances are read at different heights: all pools    *)
(* but that of the empty ticker, whose record create may replace between.  *)
THEOREM PoolsShownAsTheyWere == QuerySpec => []PoolShownAsItWas
<1>1. QueryInit => RecordsCurrent
  BY DEF QueryInit, RecordsCurrent, PoolShownAsItWas
<1>2. TypeOK /\ RecordsCurrent /\ [QueryNext]_<<vars, queryVars>> => RecordsCurrent'
  BY RecordsStep
<1>3. QuerySpec => []TypeOK
  BY QueriesReadOnly, ClpTypeCorrect, PTL
<1>4. RecordsCurrent => PoolShownAsItWas
  BY DEF RecordsCurrent
<1> QED
  BY <1>1, <1>2, <1>3, <1>4, PTL DEF QuerySpec
=============================================================================
