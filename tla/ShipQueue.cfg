CONSTANTS
  slow = slow
  fast = fast
  Planet = {p1, p2}
  Ship = {slow, fast}
  ConTime <- MCConTime
  Price <- MCPrice
  Cap <- MCStock
  StartStock <- MCStock
  StartMoney = 5
  None = None
  MaxRows = 3
  MaxCount = 2
  LastOrder = 2
  MaxTime = 8
  MaxLateTime = 3
SPECIFICATION FairSpec
INVARIANTS JobsAndRows PaymentsBalance
PROPERTY RowLeaves
CHECK_DEADLOCK FALSE
