CONSTANTS
  Modulus = 16
  MaxReplicas = 6
  MaxLaps = 4
SPECIFICATION Spec
INVARIANTS
  TypeOK
  ExactShares
  Balanced
PROPERTIES
  Rotation
