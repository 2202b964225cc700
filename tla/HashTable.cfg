CONSTANTS
  Key <- MCKeys
  Table <- MCTables
  Value = {nil, true_val}
  Hash <- MCHash
  NULL = NULL
  NIL = nil
  TRUE_VAL = true_val
  MinCapacity = 2
  MaxCapacity = 4
SPECIFICATION Spec
VIEW TablesOnly
INVARIANTS ProbeTerminates OneSlotPerKey
PROPERTY ImplementsDictionary
