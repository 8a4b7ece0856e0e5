CONSTANTS
  c1 = c1
  c2 = c2
  Conns = {c1, c2}
  NoConn = NoConn
  ByName = FALSE
  Overlap = TRUE
  BrokerSends = {"PUBLISH0"}
  SendTimeout = 2
  KeepAlive = 1
  ReconnectTimeout = 1
  QueueCap = 2

SYMMETRY ConnSymmetry
SPECIFICATION Spec
INVARIANT OneConnection
