SPECIFICATION Spec
CONSTANTS
  root = root
  boss = boss
  rep = rep
  p1 = p1
  p2 = p2
  h1 = h1
  h2 = h2
  w1 = w1
  Login <- MCLogin
  Handler <- MCHandler
  Password <- MCPassword
  Place <- MCPlace
  Root = root
  FirstPassword = p1
  AtFirst <- MCAtFirst
  NoAccount = NoAccount
  NoPlace = NoPlace
  NoRequest = NoRequest
  NoHandler = NoHandler
  MaxAttempts = 2
  Attempted <- MCAttempted
  MaxChanges = 3
  MaxTokens = 2
INVARIANTS
  TypeOK
  AttemptsLimited
PROPERTIES
  LastAdminFallsToRace
  SharedOnlyByRace
  OldTokensStayDead
CHECK_DEADLOCK FALSE
