SPECIFICATION StreamSpec
CONSTANTS
  Streams = {s1, s2}
  Limit = 1
  BufferSize = 2
  MaxEvents = 3
  HiddenEvents = {2}
INVARIANTS
  NoGaps
  EndsWithResult
  EndWillCome
PROPERTY OnlyLostLeaseCancels
SYMMETRY StreamPermutations
CHECK_DEADLOCK FALSE
