CONSTANTS
  Plain = {nil, clock}
  NIL = nil
  Native = {clock}
  Name = {g}
  Member = {init}
  initString = init
  FRAMES_MAX = 3
  MaxSlots = 4
  MaxArity = 1
  MaxCaptures = 2
  MaxClosures = 3
  MaxUpvalues = 2
  MaxClasses = 1
  MaxInstances = 1
  Lines = 1
SPECIFICATION Spec
CONSTRAINT Bounded
VIEW InUse
INVARIANTS TypeOK OpenListSorted NoDanglingUpvalue
PROPERTY CapturedVariableStable
CHECK_DEADLOCK FALSE
