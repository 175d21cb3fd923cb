CONSTANTS
  BrowserConn = BrowserConn
  TargetConn = TargetConn
  Conn <- MCConn
  IsServer <- MCIsServer
  WriteBuf = 1
  ReadBuf = 1
  NetCap = 1
  Unit <- MCUnit
  StopCap = 2
  Intercepts = TRUE
  Script <- MCScript
SPECIFICATION WsFairSpec
INVARIANTS OnlyWholeMessages NothingAfterClose
PROPERTIES EndOfEitherCloses GoroutinesEnd
CHECK_DEADLOCK FALSE
