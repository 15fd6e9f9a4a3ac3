CONSTANTS
  Node = {"n1", "n2", "n3"}
  Req = {"fetch", "loopGet"}
  Kind <- MCKind
  Src <- MCSrc
  Dst <- MCDst
  AckReq <- MCAckReq
  Buffered <- MCBuffered
  ServiceVn <- MCServiceVn
  Outcome <- Mixed
  MaxRetries = 1
  MaxE2EEntries = 4
  CQCapacity = 2
  QuickAcks = FALSE
  E2EOff = {"n3"}
  ModelPciCommands = {"n1", "n2"}
SPECIFICATION FairSpec
PROPERTIES EventuallyTold EventuallyFinished
CHECK_DEADLOCK FALSE
