SPECIFICATION Spec
CONSTANTS
  Requests = {r1}
  Keys = {k1, k2}
  Categories = {laptop, phone}
  MaxExecutions = 2
  MaxFaults = 0
PROPERTY EachRecommendationWritten
