CONSTANTS
  Node = {"n1", "n2"}
  Req = {"get"}
  Kind <- MCKind
  Src <- MCSrc
  Dst <- MCDst
  AckReq <- MCAckReq
  Buffered <- MCBuffered
  ServiceVn <- MCServiceVn
  Outcome <- Acked
  MaxRetries = 1
  MaxE2EEntries = 4
  CQCapacity = 2
  QuickAcks = FALSE
  E2EOff = {}
  ModelPciCommands = {"n1", "n2"}
SPECIFICATION Spec
INVARIANTS EntriesWithinPool
CHECK_DEADLOCK FALSE
