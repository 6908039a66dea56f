\* A pipe is quiet when both ends have been closed, a file may change no more,
\* and a program stops when it has made its calls.
SPECIFICATION SupportSpec
CONSTANTS
  c1 = c1
  c2 = c2
  c3 = c3
  Callers = {c1, c2, c3}
  None = None
  MaxBytes = 5
  Block = 2
  ReadBuf = 2
  Capacity = 3
  Secure = FALSE
  MaxChanges = 5
  MaxFiles = 3
  MaxStarts = 2
  MaxOps = 2
  MaxUpdates = 2
  MaxPrompts = 2
  Patient = TRUE
  Mixed = TRUE
  MaxVersion = 3
  MaxFailures = 1
CHECK_DEADLOCK FALSE
INVARIANT OwnResult
INVARIANT OneSleeper
PROPERTY ImplementsRemoteCall
INVARIANT PipeConsistent
PROPERTY ImplementsStream
INVARIANT MessageConsistent
INVARIANT RingsAreShown
PROPERTY NothingIsMissed
