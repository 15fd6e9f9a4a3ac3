SPECIFICATION MCSpec
CONSTANTS
  Actor = {a1, a2}
  Slot <- MCSlot
  Addr = {x1, x2}
  Calls = {"Wait", "Waitall", "Waitany", "Waitsome", "Testany", "Testall", "Cancel", "Request_free", "Ibarrier"}
  PersistentImpl = {"smpi", "bull"}
  Careful = TRUE
  MaxSwitches = 1
  MaxDerived = 1
SYMMETRY MCSymmetry
INVARIANTS NeverUndefined RightlyTracked FacesMatch
CHECK_DEADLOCK FALSE
