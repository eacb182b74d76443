SPECIFICATION StoreSpec
CONSTANTS
  p = p
  q = q
  first = first
  a = a
  b = b
  None = None
  Client = {a, b}
  RunId = {1, 2, 3}
  Fingerprint = {p, q}
  Record <- MCRecord
  Review = {first}
  CurrentVersion = 2
  Stores <- MCStores
  Operation <- MCOperation
  MaxOperations = 4
  MaxFaults = 2
INVARIANTS
  ListsAreWhole
  IndexedReviewsAreReadable
PROPERTIES
  ImplementsRunIndex
CHECK_DEADLOCK FALSE
