SPECIFICATION Spec
CONSTANTS
  z1 = z1
  q1 = q1
  k1 = k1
  Payments = {z1, q1}
  QiCard = {q1}
  Keys = {k1}
  Key <- MCKey
  NoKey = NoKey
  Workers = {w1, w2, w3}
  NoPayment = NoPayment
INVARIANTS
  RefundTakesCreditBack
CHECK_DEADLOCK FALSE
