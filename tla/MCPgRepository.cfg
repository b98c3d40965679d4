CONSTANTS
  SqlStates = {"40001", "08006", "23505"}
  TransientKinds = {"timeout", "unavailable"}
  Calls = {c1, c2}
  Ids = {i1}
  NoRow = NoRow
  Old = Old
  MaxReplicas = 2
SPECIFICATION Spec
CHECK_DEADLOCK FALSE
INVARIANTS
  RepositoryInv
  ResultsMatchHistory
PROPERTIES
  KeepsContract
