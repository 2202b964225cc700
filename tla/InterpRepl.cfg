CONSTANTS
  Plain = {nil, v1}
  NIL = nil
  Native = {}
  Member = {}
  initString = init
  Name = {g}
  FRAMES_MAX = 2
  MaxSlots = 4
  MaxArity = 0
  MaxCaptures = 1
  MaxClosures = 3
  MaxUpvalues = 1
  MaxClasses = 0
  MaxInstances = 0
  Lines = 2
SPECIFICATION Spec
PROPERTY CapturedVariableStable
CHECK_DEADLOCK FALSE
