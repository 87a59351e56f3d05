SPECIFICATION FairSpec
CONSTANTS
  d1 = d1
  t1 = t1
  t2 = t2
  a1 = a1
  v1 = v1
  None = None
  Drivers = {d1}
  Langs = {"fr", "ar"}
  DefaultLang = "fr"
  Ticks = {t1, t2}
  Admins = {a1}
  Readers = {v1}
  ColdStart = 1
  MinNew = 1
  MaxRead = 2
  MaxReviews = 3
  MaxFaults = 1
  MaxRequests = 2
INVARIANTS
  Backed
PROPERTIES
  CronNeverRegresses
  SummariesCatchUp
  CacheSettles
CHECK_DEADLOCK FALSE
