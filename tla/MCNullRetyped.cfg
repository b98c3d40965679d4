CONSTANTS
  Kinds = {"Uuid"}
SPECIFICATION Spec
INVARIANT NullTakesColumnType
