SPECIFICATION ScenesSpec
CONSTANTS
  Conn = {k1}
  Acceptor = {a1}
  MaxSends = 2
  MsgLen = 2
  Cap = 2
  Urgent = {}
  First = a1
  NoConn = NoConn
INVARIANTS
  SendTakesAll
CHECK_DEADLOCK FALSE
