SPECIFICATION Spec
CONSTANTS
  d1 = d1
  d2 = d2
  a1 = a1
  a2 = a2
  r1 = r1
  None = None
  Docs = {d1, d2}
  Bodies <- Texts
  Target = 6
  Overlap = 1
  Gap = 1
  Admins = {a1, a2}
  Readers = {r1}
INVARIANTS
  OnceEach
  NoDraftServed
  NeverEmptyHanded
  EveryPassageFound
SYMMETRY KbSymmetry
