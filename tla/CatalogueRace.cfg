\* update_product against a document that brings stock.
CONSTANTS
  h1 = h1  h2 = h2  h3 = h3
  w = w  r1 = r1  r2 = r2
  k1 = k1  k2 = k2
  NoKey = NoKey
  NoLocation = NoLocation
  NoRequest = NoRequest
  Product <- MCProduct
  Location = {w, r1}
  Representative = {r1}
  Key = {k1, k2}
  Request <- CatalogueRequests
  Opening <- SmallOpening
  OpeningDebt <- SmallOpeningDebt
  Handler = {h1, h2, h3}
SPECIFICATION Spec
CHECK_DEADLOCK FALSE
INVARIANT ArchivedHasNoStock
