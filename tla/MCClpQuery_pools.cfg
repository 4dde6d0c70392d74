\* Two pools and one user: every trade, with formula results out of range,
\* and queries for the pools in between.
SPECIFICATION QuerySpec
CONSTANTS
  Alice = Alice
  ETH = ETH
  BTC = BTC
  RUNE = RUNE
  NoTicker = NoTicker
  NoCLP = NoCLP
  None = None
  Users <- OneUser
  Tickers <- TwoAndNoTicker
  InitRune = 3
  Ratios = {0, 50, 100, 101}
  Supplies = {0, 2}
  BaseAmounts = {0, 1}
  TradeAmounts = {0, 1, 2}
  MaxInt = 9
INVARIANTS
  TypeOK
  PoolShownAsItWas
PROPERTIES
  NoCoinsCreated
  TradeAsLogged
CHECK_DEADLOCK FALSE
