\* The host is a domain name.
CONSTANTS
  c1 = c1
  c2 = c2
  Conns = {c1}
  NoConn = NoConn
  ByName = TRUE
  Overlap = FALSE
  BrokerSends = {}
  SendTimeout = 1
  KeepAlive = 1
  ReconnectTimeout = 1
  QueueCap = 2

SPECIFICATION FairSpec
PROPERTY Reconnects
