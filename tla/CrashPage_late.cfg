SPECIFICATION Spec
CONSTANTS
  MaxRounds = 2
  MaxDrops = 0
  MaxWire = 4
INVARIANT CashoutIsOffered
CHECK_DEADLOCK FALSE
