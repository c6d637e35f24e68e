SPECIFICATION FairSpec
CONSTANTS
  w1 = w1
  w2 = w2
  Waiters = {w1, w2}
  MaxUpdates = 3
  MaxConnects = 2
  MayThrow = TRUE
INVARIANTS AppliedInOrder WaitSeesUpdates ClientFollows
PROPERTIES BatchesEnd
CHECK_DEADLOCK FALSE
