CONSTANTS
  Obj = {o1, o2}
  RootSet = {"stack", "compiler"}
  VM = VM
  None = None
  Block = {1, 2}
  FirstGC = 2
  ForceGC = FALSE
  MaxSize <- MCArraySize
SPECIFICATION Spec
INVARIANTS NoDangling NoBlackToWhite BytesAccounted
PROPERTIES CollectionIsExact ImplementsHeap CollectionEnds
