SPECIFICATION FairSpec
CONSTANTS
  q1 = q1
  q2 = q2
  c1 = c1
  None = None
  Requests = {q1, q2, c1}
  Rest = {q2, c1}
  Queries = {q1, q2}
  Priority <- MCPriority
INVARIANTS Quiesces
PROPERTIES ConnectionKept ConnectionReturns EverythingEnds
CHECK_DEADLOCK FALSE
