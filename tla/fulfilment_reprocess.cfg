CONSTANTS
  o1 = o1
  o2 = o2
  i1 = i1
  i2 = i2
  i3 = i3
  Orders = {o2}
  Items = {i2, i3}
  ItemsOf <- MCItemsOf
  Mode <- MCMode
  Esims = {e1, e2, e3}
  Workers = {w1}
  MaxRetries = 2
  LocksJoinedRows = TRUE
  NoOrder = NoOrder
  NoItem = NoItem
  NoEsim = NoEsim
CHECK_DEADLOCK FALSE
SPECIFICATION FairSpec
PROPERTY ReprocessedIsFulfilled
