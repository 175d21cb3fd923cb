CONSTANTS
  c1 = c1
  c2 = c2
  c3 = c3
  a1 = a1
  a2 = a2
  Conn <- MCConn
  Acceptor <- MCAcceptor
  Handler <- MCHandler
  FdLimit = 2
SPECIFICATION ServerFairSpec
INVARIANTS HandledOnce
PROPERTIES OnlyFullServerStarves
CHECK_DEADLOCK FALSE
