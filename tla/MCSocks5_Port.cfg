CONSTANTS
  Client = Client
  Target = Target
  EofSignals = TRUE
  StopCap = 1
  BufLen = 2
  MaxSent <- MCMaxSent
  Intercepts = FALSE
  HandlerErrs = {}
  Inserted <- MCInserted
  Request <- MCConnect
  PeekLen = 3
  NMethods = 1
SPECIFICATION S5FairSpec
INVARIANTS PortIsBigEndian
CHECK_DEADLOCK FALSE
