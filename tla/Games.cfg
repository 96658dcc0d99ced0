SPECIFICATION GamesSpec
CONSTANTS
  Calls = {c1, c2, c3}
  MaxBets = 2
  SeedCalls = {c1, c2, c3}
  Games = {"CHICKEN", "INSTANT"}
  MaxDraws = 2
  MaxPairs = 3
  Requests = {r1, r2}
  Amounts = {2}
  Multipliers = {0, 2}
  Limits = {0, 3}
  Ttl = 1
  Slow = 1
  MaxClock = 3
  MaxVersion = 1
  Tiles = {t1, t2, t3}
  MinesCount = 1
  Layouts = {{t1}}
  MaxRestarts = 1
  Grain = 444
  GridSize = 4
  ChickenMax = 50
  AviaMax = 8
  LimboMax = 100
SYMMETRY Symmetry
INVARIANTS TypesOK DrawsAreSpentOnce InstantBetsAddUp PaidForSafeTiles HistoryIsTrue EnginesKeepTheirWord
PROPERTY DecidedIsOver
CHECK_DEADLOCK FALSE
