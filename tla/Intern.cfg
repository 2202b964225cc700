CONSTANTS
  Chars = {"a", "b", "c", "d"}
  Key <- MCStrings
  Value = {nil, true_val}
  Hash <- MCHash
  HashString <- MCHashString
  NULL = NULL
  NIL = nil
  TRUE_VAL = true_val
  MinCapacity = 2
  Limits <- MCLimits
  Plain = Plain
  MaxFrames = 2
  MaxFunctions = 2
SPECIFICATION MemorySpec
INVARIANTS OneStringPerContent HeldStringsAreFound NoFreedKey LocalsAreKept
CHECK_DEADLOCK FALSE
