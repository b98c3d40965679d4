CONSTANTS
  f1 = f1
  f2 = f2
  f3 = f3
  bad = bad
  p1 = p1
  p2 = p2
  p3 = p3
  Text = Text
  Fields = {f1, f2, f3, bad}
  Physicals = {p1, p2, p3, bad}
  BadNames = {bad}
  Kinds = {Text}
  Permissions <- PermissionSets
  Values <- Everything
SPECIFICATION Spec
SYMMETRY Symmetry
CHECK_DEADLOCK FALSE
INVARIANTS
  TypeOK
  OrderMatchesMap
  PlaceholdersAligned
  BindingsUsedOnce
  AssignsPermitted
  AddressesIdentity
