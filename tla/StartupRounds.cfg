CONSTANTS
  User = {"u1", "u2", "u3"}
  Position <- MCPosition
  Nic = {"i1", "i2", "t1", "e1", "i3"}
  HostOf <- MCHostOf
  Role <- MCRole
  Vn <- MCVn
  RankProp <- MCRankProp
  PciProp = {"u1", "u3"}
  Daemon = {"u2"}
  Delayed = {"u3"}
  Twice = {"u1", "u2"}
  AskedPid <- MCAskedPid
  ModelPci = TRUE
  ModelPciCommands = TRUE
  E2EOff = FALSE
  None = None
  NoRank = NoRank
  PidAny = PidAny
SPECIFICATION Spec
INVARIANTS NobodyStartsEarly NodesAreReady OpenPidsDiffer PeersHavePublished
PROPERTIES EveryoneEnds
CHECK_DEADLOCK FALSE
