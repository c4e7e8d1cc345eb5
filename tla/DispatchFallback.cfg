SPECIFICATION Spec
CONSTANTS
  Tree <- MCFallback
  Keys = {"rest"}
  Inputs <- MCFallbackInputs
  Asserts = FALSE
  MinSends = 0
  MaxSends = 1
  LateThrows = TRUE
INVARIANTS TrueMeansServed FaultContained
PROPERTIES NothingAfterServed
CHECK_DEADLOCK FALSE
