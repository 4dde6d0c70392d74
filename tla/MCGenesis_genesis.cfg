CONSTANTS
  Addresses = {a1, a2, a3}
  Names = {1, 3, 4}
  NoName = 4
  RUNE = 2
  FreeFermionVal = 2
  FreeFermionsAcc = 5
  MaxGenTxs = 3
  None = None
SPECIFICATION Spec
INVARIANTS SupplyCounted SharesDelegated CoinsFound
CHECK_DEADLOCK FALSE
