CONSTANTS
  Kinds = {"Bool", "Numeric", "Text", "Bytes", "Uuid", "Json", "Date", "Time", "Timestamp", "TimestampTz"}
SPECIFICATION Spec
INVARIANTS
  PreparedInv
  
