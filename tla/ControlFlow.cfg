CONSTANTS
  Base = 9
  Programs <- MCPrograms
  MaxEvents = 4
  MaxRounds = 5
  SimpleOps = {"OP_NIL", "OP_POP", "OP_CLOSE_UPVALUE", "OP_RETURN"}
  Operand = {0, 8}
  MaxUpvalues = 2
  MaxInstructions = 3
SPECIFICATION CodeSpec
INVARIANTS AtInstruction RunsAsMeant ListsInstructions
CHECK_DEADLOCK FALSE
