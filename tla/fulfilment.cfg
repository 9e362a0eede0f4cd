CONSTANTS
  o1 = o1
  o2 = o2
  i1 = i1
  i2 = i2
  i3 = i3
  Orders = {o1, o2}
  Items = {i1, i2, i3}
  ItemsOf <- MCItemsOf
  Mode <- MCMode
  Esims = {e1, e2}
  Workers = {w1, w2}
  MaxRetries = 2
  LocksJoinedRows = TRUE
  NoOrder = NoOrder
  NoItem = NoItem
  NoEsim = NoEsim
SYMMETRY Symmetry
CHECK_DEADLOCK FALSE
SPECIFICATION Spec
INVARIANTS
  TypeOK
  TakenRowsAreExclusive
  OneOwner
  InventoryOnlyComplete
  BoughtOnce
  SuspendedAtLimit
  ActivatedHasBundle
PROPERTY Delivers
