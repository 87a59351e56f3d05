SPECIFICATION FairSpec
CONSTANTS
  h1 = h1
  a1 = a1
  a2 = a2
  None = None
  Hexes = {h1}
  Predicted = {h1}
  Admins = {a1, a2}
  One = 10
  Step = 2
  MaxChange = 3
  Cap = 19
  Num = 1
  Den = 2
  Dwell = 1
  Demands <- Forecasts
  Manuals = {25}
  MaxShifts = 1
  MaxRequests = 2
  MaxFailures = 1
INVARIANTS
  SurgeInv
PROPERTIES
  ShownStepBounded
  KillTakesEffect
  Settles
