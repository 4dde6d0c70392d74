CONSTANTS
  Alice = Alice
  Bob = Bob
  Payers <- TwoPayers
  Ks = {2, 4, 5}
  Amounts = {1, 2}
  InitCoins = 3
  MaxKeys = 5
  MaxRuns = 3
SPECIFICATION Spec
SYMMETRY Symmetry
INVARIANTS PaidHaveKeys PaidTogether PayableUnlessUnsure
PROPERTY NoKeyReplaced
CHECK_DEADLOCK FALSE
