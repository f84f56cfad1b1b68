CONSTANTS
  main = main
  w1 = w1
  g1 = g1
  g2 = g2
  Workers = {main, w1}
  Main = main
  Groups = {g1, g2}
  Reentrant = {g2}
  MaxReady = 1
  MaxMessages = 2
SPECIFICATION FairSpec
INVARIANTS CallbackHoldsClock
PROPERTIES WorkIsDone IdleReleasesClock CancelStops
CHECK_DEADLOCK FALSE
