CONSTANTS
  Message = {"m1", "m2", "m3", "m4", "m5"}
  Dest <- MCDest
  Pair <- MCPair
  MaxToTarget = 2
  MaxToProcess = 1
  Releaser = {"rx"}
  MailboxQueue = TRUE
  None = None
SPECIFICATION FairSpec
INVARIANTS InflightWithinLimit NoMessageLost
PROPERTY EventuallySent
CHECK_DEADLOCK FALSE
