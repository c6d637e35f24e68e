SPECIFICATION FairSpec
CONSTANTS
  none = none
  good = good
  other = other
  copy = copy
  modelCopy = modelCopy
  wrong = wrong
  broken = broken
  a = a
  b = b
  x = x
  y = y
  NoQuery = NoQuery
  NoJob = NoJob
  Queries = {none, good, other, copy, modelCopy, wrong, broken}
  Empty = none
  Invalid = {wrong}
  Failing = {broken}
  Copies = {copy}
  ModelCopies = {modelCopy}
  ColumnNames = {x, y}
  Columns <- QueryColumns
  Names = {a, b}
  FirstName = a
  MaxCalls = 3
INVARIANTS IdleAtRest ProfileAtRest NewestKept
PROPERTIES CallsEnd
CHECK_DEADLOCK FALSE
