SPECIFICATION Spec
CONSTANTS
  Conns = {c1, c2}
  Main = main
  Workers = {w1}
  Calls = {l1}
  Descriptors = 1
PROPERTY AcceptLoopSurvives
CHECK_DEADLOCK FALSE
