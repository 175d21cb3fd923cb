CONSTANTS
  sv = sv
  cl = cl
  Conn <- MCConn
  IsServer <- MCIsServer
  WriteBuf = 1
  ReadBuf = 1
  NetCap = 1
  Unit <- MCUnit
  MaxMessages <- MCMaxMessages
  Lengths <- MCLengths
  KindOf <- MCKindOf
  Controls <- MCControls
SPECIFICATION LinkFairSpec
INVARIANTS MessageIntegrity NoProtocolError
PROPERTIES CloseEndsBoth WriteReturns
CHECK_DEADLOCK FALSE
