CONSTANTS
  c1 = c1
  c2 = c2
  c3 = c3
  Caller <- MCCaller
  Name <- MCName
  Host <- MCHost
  SplitHost <- MCSplitHost
  NoHost = "nohost"
  NoCaller = NoCaller
SPECIFICATION FairSpec
INVARIANTS TypeOK SingleFlight CertMatchesHost Agreement NilOnlyAfterFailure CrashNeedsTwoHosts
PROPERTIES EveryCallReturns
CHECK_DEADLOCK FALSE
