SPECIFICATION FairSpec
CONSTANTS
  Conns = {c1, c2, c3}
  Main = main
  Workers = {w1, w2}
  Calls = {l1, l2}
  Descriptors = 2
INVARIANTS OneThreadPerCoroutine ReturnsDrained ListensOnce
PROPERTIES ConnectionsServed ListenEnds
CHECK_DEADLOCK FALSE
