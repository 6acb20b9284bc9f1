CONSTANTS
  b1 = b1  b2 = b2
  NoRef = NoRef  NoKey = NoKey  Nobody = Nobody
  Item <- MCTwoItems
  Split <- MCSplit
  Blocked = {}
  Unbuildable = {}
  Ref <- MCRefTwice
  Bridge = {b1, b2}
  Locking = {b1}
  Limit = 2
  PostDocuments = FALSE
  MaxFailures = 1
SPECIFICATION Spec
CHECK_DEADLOCK FALSE
PROPERTY ConfirmedStays
