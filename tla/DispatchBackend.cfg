SPECIFICATION Spec
CONSTANTS
  Tree <- MCBackend
  Keys = {"userId"}
  Inputs <- MCBackendInputs
  Asserts = TRUE
  MinSends = 1
  MaxSends = 1
  LateThrows = FALSE
INVARIANTS BoundRoutesServed
CHECK_DEADLOCK FALSE
