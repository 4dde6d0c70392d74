\* Two nodes execute three blocks by their own clocks and crash twice.
SPECIFICATION LiveSpec
CONSTANTS
  Alice = Alice
  Bob = Bob
  ETH = ETH
  RUNE = RUNE
  validator = validator
  follower = follower
  NoState = NoState
  Accounts <- MCAccounts
  Denoms <- MCDenoms
  Nodes <- MCNodes
  Quorums <- MCQuorums
  InitCoins <- MCInitCoins
  Offers <- MCOffers
  StartingOrderID = 1
  MaxHeight = 3
  MaxTime = 1
  MaxCrashes = 2
INVARIANTS
  SplitOnlyByExpiry
  VersionsSolvent
PROPERTIES
  KeepsUp
CHECK_DEADLOCK FALSE
