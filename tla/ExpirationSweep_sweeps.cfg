SPECIFICATION FairSpec
CONSTANTS
  LastOrder = 3
  Sweepers = {w1, w2}
  BatchSize = 2
  MaxBlocked = 1
  MaxUserLocks = 2
  MaxCrashes = 1
INVARIANT ReleasedOnce
PROPERTY ClosableOrdersClose
