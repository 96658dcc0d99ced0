SPECIFICATION PlatformSpec
CONSTANTS
  Calls = {x1, x2}
  MaxVersion = 1
  Passwords = {"old", "new"}
  PerCode = 1
  PerEmail = 1
  PerAccount = 1
  Cooldown = 1
  Ttl = 1
  Window = 1
  MaxRequests = 3
  MaxCodes = 2
  MaxClock = 1
  MaxRestarts = 1
  Tokens = {"a", "b"}
  NoToken = "none"
  Good = {"a"}
  MessageCount = 2
  OutboxMax = 1
  MaxRetries = 1
  MaxSockets = 3
  MaxChanges = 1
  Players = {"p1", "p2"}
  TicksPerDay = 2
  Cap = 3
  PromoUses = 1
  PromoEnds = 3
  MaxTick = 5
  MaxEdge = 0
  RestoreWindow = 1
  MaxDay = 3
  PerTicket = 1
  PerDeposit = 2
  MaxPerClaim = 2
  EndDay = 2
  MaxMessages = 2
  MaxTickets = 1
  MaxLoads = 1
  MaxOpens = 1
  MaxCloses = 1
  MaxCuts = 1
  Pages = {"login", "register", "forgot", "modal", "account"}
  MaxPosts = 3
  MaxSolved = 3
  MaxBeat = 1
  Slices = 2
  MaxDue = 1
  MaxReads = 3
  MaxClaims = 2
  MaxOrders = 2
  MaxForms = 2
  MaxEdits = 1
  MaxSaves = 2
  MaxTyped = 1
  Holds = {"w1", "w2"}
  MaxActs = 2
SYMMETRY Symmetry
INVARIANTS TypesOK CodesAreHonouredOnce PasswordTokensCurrent LinkKeepsItsWord EarnedOnce DoneOnce
PROPERTY SessionsAndConsoleHold
CHECK_DEADLOCK FALSE
