CONSTANTS
  c1 = c1
  c2 = c2
  c3 = c3
  w1 = w1
  w2 = w2
  Callers = {c1, c2, c3}
  Writes = {w1, w2}
  NoCaller = NoCaller
SPECIFICATION Spec
SYMMETRY Symmetry
CHECK_DEADLOCK FALSE
INVARIANTS
  TypeOK
  ConnectionExclusive
  AllOrNothing
  CommitOkExact
  RollbackDiscards
  ReleasedSettles
  IInv
PROPERTIES
  NoAckAfterTake
  NoAckAfterSpoil
  ImplementsUnitOfWork
