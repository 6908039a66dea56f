SPECIFICATION PipesSpec
CONSTANTS
  Channels = {"stdin", "aux"}
  Pipes = {"aux"}
  MaxStarts = 2
  MaxChunks = 2
  MaxOut = 1
  MaxUnits = 2
  ReadBuf = 4
  Eager = FALSE
  MaxTyped = 3
  MaxPrompts = 2
  InputMax = 1
CHECK_DEADLOCK FALSE
INVARIANT RunIsTrue
 
PROPERTY EndsAreTold
