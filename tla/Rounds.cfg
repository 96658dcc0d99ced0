SPECIFICATION RoundsSpec
CONSTANTS
  Calls = {c1, c2, c3}
  MaxBets = 2
  MaxRestarts = 1
  MaxLanes = 3
  MaxOverrun = 1
  MinCashoutLane = 2
  LastLane = 3
  UnlockLane = 2
  MaxErrors = 1
  MaxDrops = 1
  MaxWire = 2
  Grid = {t1, t2, t3}
  Mined = {t1}
  OnScreen = {"DICE", "LIMBO", "COINFLIP", "ROULETTE", "PLINKO", "KENO", "AVIA", "SLOTS"}
  Picks = {1, 2}
  MaxPlaced = 3
  MaxFrames = 4
  Holders = {"p1"}
  MaxNonce = 1
  MaxPairs = 2
  MaxReads = 2
  MaxSwitches = 2
  MaxRows = 3
  MaxFetches = 2
  MaxCuts = 1
  Amounts = {1}
  MaxAsks = 2
  MaxMoves = 1
  MaxMounts = 2
  MaxLogins = 2
  Fields = {"bet controls", "slots", "avia", "chicken"}
  Base = 4
  Scale = 2
  Cents = 1
  Keys = {1, 2}
  MaxKeys = 4
  MinBet = 8
  MaxBet = 32
  MaxUnits = 128
  Funds = {0, 5, 22, 100}
  CarHalf = 2
  FollowGap = 1
  Gate = 5
  Row = 9
  Exit = 12
  Speeds = {1, 2}
  Gaps = {2, 4}
  HopTime = 3
  Reach = 2
  Grace = 5
  Longest = 2
  MaxCars = 2
INVARIANTS TypesOK PaidForItsLane OneAtATime PagesShowWhatWasDecided ControlsAgree
PROPERTIES ImplementsWager SettlementEnds
CHECK_DEADLOCK FALSE
