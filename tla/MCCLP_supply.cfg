\* A pool drained of its base coins.
SPECIFICATION Spec
CONSTANTS
  Alice = Alice
  ETH = ETH
  BTC = BTC
  RUNE = RUNE
  NoTicker = NoTicker
  NoCLP = NoCLP
  Users <- OneUser
  Tickers <- OneTicker
  InitRune = 4
  Ratios = {100}
  Supplies = {2}
  BaseAmounts = {1}
  TradeAmounts = {1, 2}
  MaxInt = 9
INVARIANTS
  SupplyAccounted
CHECK_DEADLOCK FALSE
