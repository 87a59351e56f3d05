SPECIFICATION Spec
CONSTANTS
  r1 = r1
  r2 = r2
  p1 = p1
  Quotes = {"EUR", "XOF"}
  Pivot = "DZD"
  Order <- AsSent
  MaxTime = 2
  RateAt <- Provider
  SEED <- Seed
  Configs <- Settable
  Amounts = {203}
  Refreshers = {r1, r2}
  Requests = {p1}
  MaxFaults = 1
  MaxUpserts = 1
INVARIANTS
  CacheNotBehind
  NoOldRate
  NotFoundIsUnknown
  ConvertedClosely
SYMMETRY RefreshSymmetry
