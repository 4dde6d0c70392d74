\* Orders that expire while transactions run and fail.
SPECIFICATION LiveSpec
CONSTANTS
  Alice = Alice
  Bob = Bob
  ETH = ETH
  BTC = BTC
  RUNE = RUNE
  NoTx = NoTx
  Accounts <- MCAccounts
  Denoms <- MCDenoms
  DenomRank <- MCDenomRank
  InitCoins <- MCInitCoins
  StartingOrderID = 1
  Amounts = {1, 2}
  Prices = {1, 2}
  Expiries = {0, 1}
  MaxOrderID = 3
  MaxTime = 2
INVARIANTS
  NoneStale
  IDsUnique
  CoinsConserved
PROPERTIES
  ImplementsEscrow
  StoredOrdersOnlyShrink
  EscrowReleased
