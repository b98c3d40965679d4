CONSTANTS
  f1 = f1
  f2 = f2
  p1 = p1
  p2 = p2
  Text = Text
  Fields = {f1, f2}
  Physicals = {p1, p2}
  BadNames = {}
  Kinds = {Text}
  Permissions <- PermissionSets
  Values <- Everything
SPECIFICATION Spec
CHECK_DEADLOCK FALSE
INVARIANT ImmutableNeverUpdated
