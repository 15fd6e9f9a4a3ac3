CONSTANTS
  Location = {"l1", "l2"}
  Size = {0, 3, 6}
  Layout <- MCLayout
  Threshold = 3
  PAGE_SIZE = 2
  Blocksize = 4
  MapEnd = 12
  MaxHeld = 2
  WordBits = 4
  MaxLength = 5
  MaxPayload = 3
  MaxPuts = 3
  MaxAtomics = 1
  MaxMemcpy = 1
SPECIFICATION MCSpec
INVARIANT OneFilePerLocation
INVARIANT FoldsSharedPagesOnly
 
INVARIANT PrivateBlocksAreSets
INVARIANT DepositsFit
INVARIANT AtomicMeaning
CHECK_DEADLOCK FALSE
