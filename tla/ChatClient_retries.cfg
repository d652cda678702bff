SPECIFICATION Spec
CONSTANTS
  MaxExchanges = 4
  MaxMixed = 3
INVARIANT NewKeyExplained
CONSTRAINT MixedOrPlain
CHECK_DEADLOCK FALSE
