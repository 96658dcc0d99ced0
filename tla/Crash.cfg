SPECIFICATION FairCrashSpec
CONSTANTS
  Calls = {c1, c2, c3}
  MaxBets = 3
  MaxRestarts = 1
  Top = 3
INVARIANTS CrashTypeOK PaidBelowCrashPoint
PROPERTIES ImplementsWager RoundEnds
CHECK_DEADLOCK FALSE
