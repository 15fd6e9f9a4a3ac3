CONSTANTS
  Counters = 2
  Waiter = {a, b}
  Updater = {rx, user}
  Tests = {1, 2}
  Amounts = {1, 2}
  SetValues = {0}
  Failures = TRUE
  MaxSuccess = 2
  MaxPolls = 1
SYMMETRY Symmetry
SPECIFICATION Spec
INVARIANTS SuspendedIsListed StillToBeWoken
PROPERTY WokenForAReason
CHECK_DEADLOCK FALSE
