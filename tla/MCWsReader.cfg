CONSTANTS
  Stream <- MCStream
  Limits = {0, 4}
  MaxInt = 7
  KeyLen = 2
  WordSize = 2
  BufSize = 2
  Room = 5
  Failures = 2
SPECIFICATION ReaderSpec
INVARIANTS DeliveredIsSent EndMeansWhole LimitHolds
CHECK_DEADLOCK FALSE
