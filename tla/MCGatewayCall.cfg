SPECIFICATION FairSpec
CONSTANTS
  c1 = c1
  c2 = c2
  Calls = {c1, c2}
  Limit = 2
  MaxUse = 2
  Chain = 3
  LastDay = 1
  MaxStarts = 3
  MaxResends = 1
INVARIANTS
  OverrunBounded
  ChargedIsLogged
PROPERTY CallAnswered
CHECK_DEADLOCK FALSE
