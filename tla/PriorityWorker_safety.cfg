SPECIFICATION Spec
CONSTANTS
  j1 = j1
  j2 = j2
  j3 = j3
  NoJob = NoJob
  Jobs = {j1, j2, j3}
  Priority <- MCPriority
  Cancellable = {j1}
  MayStop = TRUE
INVARIANTS TypeOK ChannelsSafe StopQuiesces ErrorsHonest
PROPERTIES StartOnlyAwaited ImplementsExecutor
CHECK_DEADLOCK FALSE
