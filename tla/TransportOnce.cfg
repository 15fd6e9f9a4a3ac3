CONSTANTS
  Node = {"n1", "n2"}
  Req = {"putSmall", "putNoAck", "getBack"}
  Kind <- MCKind
  Src <- MCSrc
  Dst <- MCDst
  AckReq <- MCAckReq
  Buffered <- MCBuffered
  ServiceVn <- MCServiceVn
  Outcome <- AnyAnswered
  MaxRetries = 0
  MaxE2EEntries = 2
  CQCapacity = 1
  QuickAcks = FALSE
  E2EOff = {}
  ModelPciCommands = {"n1", "n2"}
SPECIFICATION Spec
INVARIANTS EntriesWithinPool FiniWaitsForCommands DrainedPoolsAreFull
CHECK_DEADLOCK FALSE
