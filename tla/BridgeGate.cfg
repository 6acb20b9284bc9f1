CONSTANTS
  store = store  van = van  newVan = newVan
  nut = nut  bolt = bolt
  f1 = f1  f2 = f2  f3 = f3
  Op <- MCOp
  About <- MCAbout
  Product <- MCProduct
  Place <- MCPlace
  Rep <- MCRep
  Field <- MCField
  Published <- MCPublished
  Mapping <- MCMapping
  FirstMapping <- MCFirstMapping
  FirstMapped <- MCFirstMapped
  SyncLimit = 2
  HealthLimit = 3
  NoLock = NoLock  NoMapping = NoMapping  NoStructure = NoStructure
  MaxEdits = 1
SPECIFICATION Spec
INVARIANTS
  CarriesOperation
PROPERTIES
  ReadyMeansDelivered
  WrittenUnderLock
