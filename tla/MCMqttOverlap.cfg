\* GOT_IP may come while an old connection or DNS request is under way.
CONSTANTS
  c1 = c1
  c2 = c2
  Conns = {c1, c2}
  NoConn = NoConn
  ByName = TRUE
  Overlap = TRUE
  BrokerSends = {"PUBLISH0"}
  SendTimeout = 1
  KeepAlive = 1
  ReconnectTimeout = 1
  QueueCap = 1

SYMMETRY ConnSymmetry
SPECIFICATION Spec
INVARIANT TypeOK
INVARIANT NoLostWakeup
INVARIANT ParkedWithoutLink
INVARIANT TimerFollowsLink
INVARIANT ConnackIsExpected
