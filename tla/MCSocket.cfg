SPECIFICATION ScenesSpec
CONSTANTS
  Conn = {k1}
  Acceptor = {a1, a2}
  MaxSends = 2
  MsgLen = 2
  Cap = 2
  Urgent = {"client", "server"}
  First = a1
  NoConn = NoConn
INVARIANTS
  TypeOK
  ConnectedWhenReturned
  WholeMessages
PROPERTIES
  MinusOneHasACause
  ConnectReturns
  EveryoneServed
CHECK_DEADLOCK FALSE
