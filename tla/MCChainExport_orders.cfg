\* One account places an order; the chain is exported and restarted.
SPECIFICATION ExportSpec
CONSTANTS
  Alice = Alice
  ETH = ETH
  RUNE = RUNE
  NoTx = NoTx
  Accounts <- MCAccounts
  Denoms <- MCDenoms
  DenomRank <- MCDenomRank
  InitCoins <- MCInitCoins
  StartingOrderID = 1
  Amounts = {1}
  Prices = {1}
  Expiries = {1}
  MaxOrderID = 2
  MaxTime = 0
INVARIANTS
  NothingLostByExport
