CONSTANTS
  ME = {"once", "any", "spare", "spareOnce"}
  Message = {"put1", "put2", "get1"}
  Rx = {"rx", "rx2"}
  Matches <- MCMatches
  Overflow <- MCOverflow
  UseOnce <- MCUseOnce
  Gets <- MCGets
  None = None
SPECIFICATION Spec
INVARIANTS UseOnceMatchesOnce OverflowSettledOnce NoHeaderLeftBehind
CHECK_DEADLOCK FALSE
