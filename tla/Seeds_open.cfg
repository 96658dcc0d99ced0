SPECIFICATION SeedsSpec
CONSTANTS
  SeedCalls = {c1}
  Games = {"CRASH", "CHICKEN"}
  MaxDraws = 2
  MaxPairs = 3
INVARIANT NothingDecidedByRevealed
CHECK_DEADLOCK FALSE
