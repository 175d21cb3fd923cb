CONSTANTS
  Client = Client
  Target = Target
  EofSignals = FALSE
  StopCap = 2
  BufLen = 2
  MaxSent <- MCMaxSent
  Intercepts = FALSE
  HandlerErrs = {}
  Inserted <- MCInserted
  PeekLen = 2
  HeaderLen = 2
  HelloAt = 3
  HelloLen = 2
SPECIFICATION TcpFairSpec
PROPERTIES TcpImplementsPipe SetupEnds EventuallyDelivered ErrorCloses
CHECK_DEADLOCK FALSE
