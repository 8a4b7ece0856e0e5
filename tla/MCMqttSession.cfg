\* One connection at a time, DNS included.
CONSTANTS
  c1 = c1
  c2 = c2
  Conns = {c1, c2}
  NoConn = NoConn
  ByName = TRUE
  Overlap = FALSE
  BrokerSends = {"PUBLISH0", "PUBLISH1", "PUBLISH2", "PUBREC", "PUBREL", "PINGREQ"}
  SendTimeout = 2
  KeepAlive = 1
  ReconnectTimeout = 1
  QueueCap = 2

SYMMETRY ConnSymmetry
SPECIFICATION Spec
INVARIANT OneConnection
INVARIANT FreedIsQuiet
INVARIANT DataInSession
INVARIANT NoStall
INVARIANT KeepAliveHonoured
