SPECIFICATION Spec
CONSTANTS
  TimeoutWhen = {"asleep"}
CHECK_DEADLOCK FALSE
INVARIANT WorkerIsDone
