SPECIFICATION Spec
CONSTANTS
  ann = ann
  bob = bob
  Nobody = Nobody
  User <- MCUser
  Operation <- MCOperation
  Maker <- MCMaker
  First = ann
  Early <- MCEarly
  MaxLogins = 2
  MaxFailures = 1
  MaxOutside = 1
INVARIANT LostOnlyByLeaving
INVARIANT WaitingHasWork
PROPERTY PromiseSpec
CHECK_DEADLOCK FALSE
