SPECIFICATION Spec
CONSTANTS
  s1 = s1
  s2 = s2
  u1 = u1
  r1 = r1
  r2 = r2
  refund1 = refund1
  refund2 = refund2
  Slots = {s1, s2}
  Actions = {refund1, refund2}
  Requests = {r1, r2}
  Users = {u1}
  Owner <- MCOwner
  KindOf <- MCKindOf
  NoSlot = NoSlot
  NoAction = NoAction
  ConfirmTtl = 1
  IdemTtl = 1
  MaxLatency = 0
  AnomalyAfter = 1
  LastDay = 1
SYMMETRY Interchange
INVARIANTS
  UnflaggedBounded
