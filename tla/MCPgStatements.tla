--------------------------- MODULE MCPgStatements ---------------------------
(* PgStatements over mappings of up to three fields. *)
EXTENDS PgStatements, TLC

Allows(s, i, u) == [selectable |-> s, insertable |-> i, updatable |-> u]

(* PERSISTED, IMMUTABLE, GENERATED, write-only, and a field with no use. *)
PermissionSets ==
  { Allows(TRUE, TRUE, TRUE), Allows(TRUE, TRUE, FALSE), Allows(TRUE, FALSE, FALSE),
    Allows(FALSE, TRUE, TRUE), Allows(FALSE, FALSE, FALSE) }

Everything == Specials \cup {"value"}

Symmetry == Permutations(Fields \ BadNames) \cup Permutations(Physicals \ BadNames)
=============================================================================
