CONSTANTS
  Plain = {nil}
  NIL = nil
  Native = {}
  Name = {}
  Member = {init}
  initString = init
  FRAMES_MAX = 2
  MaxSlots = 5
  MaxArity = 1
  MaxCaptures = 0
  MaxClosures = 3
  MaxUpvalues = 0
  MaxClasses = 2
  MaxInstances = 1
  Lines = 1
SPECIFICATION Spec
VIEW InUse
INVARIANTS FramesKeepTheirCallee InvokeIsGetThenCall NearestDeclaration
CHECK_DEADLOCK FALSE
