SPECIFICATION Spec
CONSTANTS
  MaxFields = 3
  MaxTokens = 0
  Documents <- MCDocuments
  Bodies <- MCBodies
INVARIANTS
  BodyOutlivesTask
CHECK_DEADLOCK FALSE
