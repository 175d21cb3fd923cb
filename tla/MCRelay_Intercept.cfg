CONSTANTS
  Client = Client
  Target = Target
  EofSignals = TRUE
  StopCap = 1
  BufLen = 2
  MaxSent <- MCFewSent
  Intercepts = TRUE
  HandlerErrs = {"nil", "eof", "other"}
  Inserted <- MCInserted
SPECIFICATION FairSpec
INVARIANTS Increasing
PROPERTIES NoGoroutineLeft
CHECK_DEADLOCK FALSE
