SPECIFICATION Spec
CONSTANTS
  Tree <- MCBarebones
  Keys = {}
  Inputs <- MCBarebonesInputs
  Asserts = TRUE
  MinSends = 1
  MaxSends = 1
  LateThrows = FALSE
INVARIANTS AssertsHold
CHECK_DEADLOCK FALSE
