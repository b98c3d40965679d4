CONSTANTS
  SqlStates = {"40001", "08006", "23505"}
  TransientKinds = {"timeout", "unavailable"}
  Statements = {s1}
  Begins = {b1, b2}
  Connections = 2
SPECIFICATION FairSpec
CHECK_DEADLOCK FALSE
INVARIANTS
  ConnectionsAccounted
  PInv
PROPERTIES
  KeepsContract
  CallsReturn
  ConnectionsReturn
