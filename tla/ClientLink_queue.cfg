CONSTANTS
 Tokens = {"a", "b"}
 NoToken = "none"
 Good = {"a"}
 MessageCount = 2
 OutboxMax = 1
 MaxRetries = 1
 MaxSockets = 3
 MaxChanges = 2
SPECIFICATION LinkSpec
INVARIANT QueuedIsServed
CHECK_DEADLOCK FALSE
