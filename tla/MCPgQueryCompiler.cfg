CONSTANTS
  Columns <- Kinds
  Conditions <- AllConditions
  Requests <- SomeRequests
  Rows <- AllRows
  Tables <- SomeTables
  Answerable <- AllAnswerable
  Matching <- AllMatching
  MaxI64 = 2
SPECIFICATION ReadSpec
CHECK_DEADLOCK FALSE
INVARIANTS
  TypeOK
  PlaceholdersInOrder
  FilterSelectsMatches
  OrderIsPortable
  RefusesExactly
  PageIsCounted
