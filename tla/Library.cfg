CONSTANTS
  Key = {k1, k2, k3, k4}
  Value = {v}
  Sizes = {0, 1, 2, 3}
  Group = 3
  W32 = 8
  W64 = 10
  Types <- MCTypes
  Values <- MCValues
  kMaxElementNum = 2
  Garbage = Garbage
  Numbers <- MCNumbers
  StreamBytes = 5
  StreamCalls = 3
SPECIFICATION LibrarySpec
SYMMETRY Symmetric
CHECK_DEADLOCK FALSE
INVARIANTS
  IndexAgrees
  LebReadsNumbers LebRoundTrips UnpackedAsPacked
  FileAgreesWithMemory EncodingsReadBack
PROPERTY EvictsOldest
