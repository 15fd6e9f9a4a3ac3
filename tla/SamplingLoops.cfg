CONSTANTS
  Actor = {"a", "b"}
  Loc = {"global", "local"}
  Global = {"global"}
  Stderr = {"local"}
  Iters <- MCIters
  Duration = {1, 2}
  LoopLength = {0, 2}
  cpu_threshold = 2
  cpu_accumulate = TRUE
  MaxOps = 2
  MaxBench = 2
  None = None
SPECIFICATION Spec
INVARIANTS MeasuresOnlyItself TimeConserved BenchedWhenNeeded
PROPERTIES EveryoneFinishes
CHECK_DEADLOCK FALSE
