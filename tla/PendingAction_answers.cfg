SPECIFICATION Spec
CONSTANTS
  Actions = {a1, a2}
  Values = {1, 2}
  Offers = {1, 3}
  MaxQuantity = 2
SYMMETRY ActionPermutations
INVARIANTS
  EffectsMatchRecords
  AnswersAgree
PROPERTY ResolvedOnce
