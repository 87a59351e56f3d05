SPECIFICATION FairSpec
CONSTANTS
  r1 = r1
  r2 = r2
  Rides = {r1, r2}
  Subjects = {"driver", r1, r2}
  SubjectOf <- AboutDriver
  Texts = {"late", "abuse", ""}
  TextOf <- Written
  Toxic = {"abuse"}
  Blank = ""
  Starless <- Unmarked
  PullLimit = 1
  BombMin = 2
  AspectBatch = 2
  MaxTime = 2
  MaxFailures = 1
INVARIANTS
  NothingMissing
PROPERTIES
  ImplementsReviews
  StoredIsProcessed
CHECK_DEADLOCK FALSE
