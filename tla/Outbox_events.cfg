SPECIFICATION FairSpec
CONSTANTS
  Aggregates = {o1}
  LastSequence = 2
  Workers = {w1, w2}
  BatchSize = 2
  MaxAttempts = 2
  MaxRedrives = 1
INVARIANTS
  FirstDeliveryInOrder
  OneLeasePerAggregate
PROPERTIES
  PublishedIsFinal
  EveryEventSettles
