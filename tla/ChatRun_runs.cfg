SPECIFICATION FairSpec
CONSTANTS
  Requests = {r1, r2}
  Keys = {k1, k2}
  Categories = {laptop}
  MaxExecutions = 2
  MaxFaults = 1
INVARIANTS
  ResultsAreStored
  ErasedForGood
PROPERTIES
  ExecutedOnce
  WritesBuildOnLast
  LostRunsEnd
