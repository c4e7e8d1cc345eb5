SPECIFICATION Spec
CONSTANTS
  Conns = {c1}
  Requests <- MCAll
  MaxRequests = 3
  MinSends = 1
  MaxSends = 1
  MaxFailures = 1
  HandlerTokens = {"none"}
INVARIANTS PipelineAligned ReuseRule
PROPERTIES NothingAfterClose HttpPromise
CHECK_DEADLOCK FALSE
