SPECIFICATION Spec
CONSTANTS
  Tree <- MCApi
  Keys = {"id", "a", "b"}
  Inputs <- MCApiInputs
  Asserts = TRUE
  MinSends = 1
  MaxSends = 1
  LateThrows = FALSE
INVARIANTS SurvivesOnlyServed FirstMatchWins ParamsRebuildPath AnsweredOnce
CHECK_DEADLOCK FALSE
