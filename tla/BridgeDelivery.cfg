CONSTANTS
  b1 = b1  b2 = b2
  NoRef = NoRef  NoKey = NoKey  Nobody = Nobody
  Item <- MCItem
  Split <- MCSplit
  Blocked <- MCBlocked
  Unbuildable <- MCUnbuildable
  Ref <- MCRef
  Bridge = {b1, b2}
  Locking = {b1, b2}
  Limit = 2
  PostDocuments = TRUE
  MaxFailures = 2
SPECIFICATION FairSpec
CHECK_DEADLOCK FALSE
INVARIANTS
  TypeOK
  OneDocumentPerKey
  ConfirmedAreAll
PROPERTY Delivered
