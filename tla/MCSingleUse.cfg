SPECIFICATION Spec
CONSTANTS
  s1 = s1
  u1 = u1
  r1 = r1
  r2 = r2
  book = book
  refund = refund
  Slots = {s1}
  Actions = {book, refund}
  Requests = {r1, r2}
  Users = {u1}
  Owner <- MCOwner
  KindOf <- MCKindOf
  NoSlot = NoSlot
  NoAction = NoAction
  ConfirmTtl = 2
  IdemTtl = 2
  MaxLatency = 1
  AnomalyAfter = 1
  LastDay = 0
SYMMETRY HandlerSymmetry
INVARIANT SingleUse
