SPECIFICATION FairSpec
CONSTANTS
  e1 = e1
  e2 = e2
  e3 = e3
  Ids = {e1, e2, e3}
  Priorities = {1, 2}
  MaxActions = 4
INVARIANTS TypeOK PromisesKept
PROPERTIES ImplementsPromises BestFirst CancelledForGood EverySettled
CHECK_DEADLOCK FALSE
