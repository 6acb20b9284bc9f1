\* Three concurrent requests of one scenario: stock, money or archiving.
CONSTANTS
  h1 = h1  h2 = h2  h3 = h3
  w = w  r1 = r1  r2 = r2
  k1 = k1  k2 = k2
  NoKey = NoKey
  NoLocation = NoLocation
  NoRequest = NoRequest
  Product <- MCProduct
  Location = {w, r1, r2}
  Representative = {r1, r2}
  Key = {k1, k2}
  Request <- AllRequests
  Opening <- MCOpening
  OpeningDebt <- MCOpeningDebt
  Handler = {h1, h2, h3}
SPECIFICATION Spec
CHECK_DEADLOCK FALSE
CONSTRAINT OneScenario
SYMMETRY HandlerSymmetry
INVARIANTS
  TypeOK
  BalanceMatchesMovements
  DocumentsExplainState
  OneRowPerKey
  RepeatedMeansPosted
  StockNeverNegative
  DebtNeverNegative
  ArchivedHasNoStock
  BalanceRowsUncontended
  NoDeadlock
