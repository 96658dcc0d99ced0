SPECIFICATION PayoutsSpec
CONSTANTS
  Withdrawals = {w1}
  Gateways = {"CRYPTOMUS", "NOWPAYMENTS"}
  Hooks = {h1}
  CleanAnswers = FALSE
  MaxErrors = 0
INVARIANT NotPaidTwice
CHECK_DEADLOCK FALSE
