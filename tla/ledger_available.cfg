SPECIFICATION Spec
CONSTANTS
  u1 = u1
  p1 = p1
  o1 = o1
  f1 = f1
  f2 = f2
  Users = {u1}
  Payments = {p1}
  Orders = {o1}
  Freezes = {f1, f2}
  Owner <- MCOwner
  Amount <- MCAmount
  Adjustments = {1}
  Workers = {w1, w2}
  LocksJoinedRows = FALSE
  NoRow = NoRow
  NoJob = NoJob
  MaxPosted = 1
PROPERTIES
  SpendsAvailableOnly
CHECK_DEADLOCK FALSE
