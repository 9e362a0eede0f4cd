CONSTANTS
  u1 = u1
  u2 = u2
  u3 = u3
  o1 = o1
  o2 = o2
  o3 = o3
  Users = {u1, u2}
  Orders = {o1, o2, o3}
  Coupons = {c1}
  Workers = {w1, w2}
  Buyer <- MCBuyer
  Large <- MCLarge
  Limits = {0, 1}
  Settings <- MCSettings
  NoUser = NoUser
  NoOrder = NoOrder
  NoCoupon = NoCoupon
SYMMETRY Symmetry
SPECIFICATION Spec
INVARIANTS
  TypeOK
  CountIsUsages
  OncePerUser
  QualifiedByOrder
PROPERTIES
  UsedWithinLimit
  KeepsOffers
