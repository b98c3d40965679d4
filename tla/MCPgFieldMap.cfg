CONSTANTS
  Fields = {f1, f2, f3, bad}
  Physicals = {p1, p2, bad}
  BadNames = {bad}
  Kinds = {Text, Number}
SPECIFICATION Spec
CHECK_DEADLOCK FALSE
INVARIANT NoSilentChange
