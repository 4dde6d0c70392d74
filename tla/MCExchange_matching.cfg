\* Two accounts on three pairs of denoms that share balances: matching,
\* settlement and escrow; messages may name either direction of a pair.
SPECIFICATION Spec
CONSTANTS
  Alice = Alice
  Bob = Bob
  ETH = ETH
  BTC = BTC
  RUNE = RUNE
  NoTx = NoTx
  Accounts <- MCAccounts
  Denoms <- PairsDenoms
  DenomRank <- PairsDenomRank
  InitCoins <- PairsInitCoins
  StartingOrderID = 1
  Amounts = {0, 1, 2}
  Prices = {0, 1, 2, 3}
  Expiries = {1}
  MaxOrderID = 3
  MaxTime = 0
SYMMETRY Symmetry
INVARIANTS
  TypeOK
  BooksRanked
  FillPriority
  NotCrossed
  Covered
  NoLateFailure
  LimitRespected
  MakersPaid
  CoinsConserved
  ProductsInSupply
