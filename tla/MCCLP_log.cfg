\* A trade the pool cannot pay is logged as paid.
SPECIFICATION Spec
CONSTANTS
  Alice = Alice
  ETH = ETH
  BTC = BTC
  RUNE = RUNE
  NoTicker = NoTicker
  NoCLP = NoCLP
  Users <- OneUser
  Tickers <- OneTicker
  InitRune = 8
  Ratios = {100}
  Supplies = {4}
  BaseAmounts = {1}
  TradeAmounts = {1, 2, 8}
  MaxInt = 20
PROPERTIES
  ReceivedAsLogged
CHECK_DEADLOCK FALSE
