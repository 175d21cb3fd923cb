CONSTANTS
  Client = Client
  Target = Target
  EofSignals = TRUE
  StopCap = 1
  BufLen = 2
  MaxSent <- MCMaxSent
  Intercepts = FALSE
  HandlerErrs = {}
  Inserted <- MCInserted
  Request <- MCRequest
  PeekLen = 3
  NMethods = 1
SPECIFICATION S5FairSpec
INVARIANTS HandshakeTakesTheRequest NoDataBeforeSuccess
PROPERTIES RepliesInOrder S5ImplementsPipe RequestDecided StreamEndCloses
CHECK_DEADLOCK FALSE
