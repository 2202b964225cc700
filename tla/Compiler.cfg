CONSTANTS
  Names = {a, b}
  MaxLocals = 3
  MaxUpvalues = 2
  MaxNest = 4
  MaxFunctions = 3
  MaxParams = 1
SPECIFICATION Spec
SYMMETRY Symmetric
INVARIANTS TypeOK ReferencesAreLexical LocalsMatchStack NoOpenSlotPopped
