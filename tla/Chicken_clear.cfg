SPECIFICATION Spec
CONSTANTS
  Calls = {c1, c2}
  MaxBets = 2
  MaxRestarts = 0
  MaxLanes = 2
  MaxOverrun = 0
  MinCashoutLane = 1
PROPERTY RoundKeptUntilDecided
CHECK_DEADLOCK FALSE
