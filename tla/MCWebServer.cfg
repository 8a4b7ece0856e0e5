CONSTANTS
  c1 = c1
  c2 = c2
  Conns = {c1, c2}
  NoConn = NoConn
  Requests <- Browsed
  Cuts <- OneCut
  Ckds = {1}
  PageChunks = 2
  CacheSize = 5
  RestartTicks = 2
  Typed <- Longer
  TypedToo <- Shorter
  Stored <- Befores
  SsidSize = 10
  PwdSize = 4

SPECIFICATION Spec
INVARIANT TypeOK
INVARIANT AnswersItsOwn
PROPERTY NotLockedOut
PROPERTY SavedTakesEffect
INVARIANT SavedAsTyped
