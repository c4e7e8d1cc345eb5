SPECIFICATION FairSpec
CONSTANTS
  Conns = {c1}
  Requests <- MCCases
  MaxRequests = 3
  MinSends = 0
  MaxSends = 2
  MaxFailures = 1
  HandlerTokens = {"none", "close", "keep-alive"}
INVARIANTS TypeOK LastAnswerDecides ShutAfterLastAnswer CloseNeverStale
PROPERTIES HangUpEnds RequestSettles
CHECK_DEADLOCK FALSE
