CONSTANTS
  Eq = {"q1", "q2", "q3"}
  Mailbox = {"m1", "m2"}
  Issuer = {"rx1", "rx2"}
  Polls <- Mixed
  Timeouts = TRUE
  DrainedFrees = TRUE
  MaxEvents = 3
  None = None
SPECIFICATION Spec
INVARIANTS EventsAreSomewhere OwnEventsInOrder
PROPERTY EventuallyReturns
CHECK_DEADLOCK FALSE
