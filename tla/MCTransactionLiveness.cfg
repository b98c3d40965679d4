CONSTANTS
  c1 = c1
  c2 = c2
  c3 = c3
  w1 = w1
  Callers = {c1, c2, c3}
  Writes = {w1}
  NoCaller = NoCaller
SPECIFICATION FairSpec
CHECK_DEADLOCK FALSE
PROPERTIES
  CallsReturn
  TransactionEnds
