SPECIFICATION Spec
CONSTANTS
  a1 = a1
  a2 = a2
  a3 = a3
  Admins = {a1, a2, a3}
  MaxVersions = 4
SYMMETRY Interchange
INVARIANTS
  VersionsContiguous
  SerialPublishes
PROPERTY ReleasedStays
