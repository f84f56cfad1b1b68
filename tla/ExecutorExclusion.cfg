CONSTANTS
  main = main
  w1 = w1
  g1 = g1
  g2 = g2
  Workers = {main, w1}
  Main = main
  Groups = {g1, g2}
  Reentrant = {g2}
  MaxReady = 2
  MaxMessages = 2
SPECIFICATION Spec
INVARIANTS GroupsExclude
CHECK_DEADLOCK FALSE
