SPECIFICATION CashierSpec
CONSTANTS
  Withdrawals = {w1}
  Gateways = {"CRYPTOMUS", "NOWPAYMENTS", "MANUAL"}
  Hooks = {h1, h2, h3}
  CleanAnswers = TRUE
  MaxErrors = 2
  Invoices = {"i"}
  Handlers = {g, h}
  Hashes = {x}
  SharedHash = FALSE
  MaxFailures = 2
  Requests = {r1, r2}
  Players = {"p1"}
  TicksPerDay = 2
  Cap = 3
  PromoUses = 1
  PromoEnds = 3
  Sockets = {s1}
  MaxVersion = 1
  MaxTick = 2
  MaxEdge = 2
INVARIANTS TypesOK MovedOnce RowNeverLies RakebackIsEarned
PROPERTIES FailuresRefund PaidIsCredited HoldersLetGo
CHECK_DEADLOCK FALSE
