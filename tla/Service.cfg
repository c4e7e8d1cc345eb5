SPECIFICATION FairServiceSpec
CONSTANTS
  Tree <- MCTree
  Keys = {"name"}
  Inputs <- MCInputs
  Asserts = TRUE
  MinSends = 1
  MaxSends = 1
  LateThrows = FALSE
  Requests <- MCRequests
  MaxRequests = 3
INVARIANTS AnswersMatchRequests
PROPERTIES RouteKeepsContract EveryRequestAnswered
CHECK_DEADLOCK FALSE
