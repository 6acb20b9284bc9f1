CONSTANTS
  h1 = h1  h2 = h2  h3 = h3
  k1 = k1  k2 = k2  d1 = d1  a = a  b = b  shop = shop
  lo = lo  hi = hi  warehouse = warehouse
  NoEntry = NoEntry  NoRequest = NoRequest  NoBridge = NoBridge
  NoLabel = NoLabel  NoPrice = NoPrice  BadPrice = BadPrice
  NoVersion = NoVersion  NoUnit = NoUnit  NoCall = NoCall
  Handler = {h1, h2, h3}
  Product <- MCProduct
  Location <- MCLocation
  Document = {d1}
  Label = {a, b, shop}
  Detail = {lo, hi, warehouse}
  Key <- MCKey
  Existing <- MCExisting
  Opening <- MCOpening
  MaxOutside = 1
  Policies = {NoBridge, "skip", "archive_if_zero_stock"}
  Direct <- MCDirect
  Listed = {1, 2, 3}
  Cards <- MCCards
  AtFirst <- MCAtFirst
  MaxChanges = 2
SPECIFICATION FairSpec
CHECK_DEADLOCK FALSE
INVARIANTS
  TypeOK
  DoneIsRecorded
PROPERTIES
  Imported
  CompletedStays
  ArchivesOnce
  OrphanedOnlyByOldChecks
