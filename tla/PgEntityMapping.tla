--------------------------- MODULE PgEntityMapping ---------------------------
(***************************************************************************)
(* PgEntityMapping (entity.rs) over PgFieldMap (mapping.rs): a builder that *)
(* adds fields one call at a time, consumed by the first call that fails,  *)
(* and validated once, when a repository is built from it.                 *)
(***************************************************************************)
EXTENDS Integers, Sequences

CONSTANTS
  Fields,       \* logical field names
  Physicals,    \* physical column names
  BadNames,     \* names that FieldName::new or PgIdentifier::new refuses
  Kinds,        \* PgScalarKind
  Permissions   \* the permission sets fields are declared with

ASSUME PermissionsAssumption ==
  Permissions \subseteq [selectable : BOOLEAN, insertable : BOOLEAN, updatable : BOOLEAN]

Column == [physical : Physicals, kind : Kinds, permissions : Permissions]

VARIABLES
  phase,           \* "building", "rejected", "valid" or "invalid"
  id_field,        \* the logical identity field
  columns,         \* PgFieldMap: logical field |-> Column
  ordered_fields   \* declaration order

mappingVars == <<phase, id_field, columns, ordered_fields>>

(* PgEntityMapping::new, in_schema. *)
MappingInit ==
  /\ phase = "building"
  /\ id_field \in Fields \ BadNames
  /\ columns = << >>
  /\ ordered_fields = << >>

Participates(permissions) ==
  permissions.selectable \/ permissions.insertable \/ permissions.updatable

(* Mutant: names are taken unchecked. *)
AcceptsAnyName(field, physical, permissions) ==
  /\ Participates(permissions)
  /\ field \notin DOMAIN columns

(* What with_field_permissions and insert_with_permissions check, in order. *)
Accepts(field, physical, permissions) ==
  /\ Participates(permissions)
  /\ field \notin BadNames
  /\ physical \notin BadNames
  /\ field \notin DOMAIN columns

(* BTreeMap::insert. *)
Insert(field, column) ==
  [f \in DOMAIN columns \cup {field} |-> IF f = field THEN column ELSE columns[f]]

(* Mutant: a field declared twice replaces its column and is listed twice. *)
WithFieldOverwrites(field, column) ==
  /\ phase = "building"
  /\ Participates(column.permissions) /\ {field, column.physical} \cap BadNames = {}
  /\ columns' = Insert(field, column)
  /\ ordered_fields' = Append(ordered_fields, field)
  /\ UNCHANGED <<phase, id_field>>

(* with_field, with_immutable_field, with_generated_field and their general *)
(* form.  The builder is passed by value: an error leaves nothing behind.   *)
WithField(field, column) ==
  /\ phase = "building"
  /\ IF Accepts(field, column.physical, column.permissions)
     THEN /\ columns' = Insert(field, column)
          /\ ordered_fields' = Append(ordered_fields, field)
          /\ UNCHANGED phase
     ELSE /\ phase' = "rejected"
          /\ UNCHANGED <<columns, ordered_fields>>
  /\ UNCHANGED id_field

Selectable(f) == columns[f].permissions.selectable
Insertable(f) == columns[f].permissions.insertable
Updatable(f) == columns[f].permissions.updatable

(* validate, in the order of its checks. *)
Complete ==
  /\ ordered_fields # << >>
  /\ id_field \in DOMAIN columns
  /\ Selectable(id_field)

(* PgRepository::new accepts the mapping, or refuses it. *)
NewRepository ==
  /\ phase = "building"
  /\ phase' = IF Complete THEN "valid" ELSE "invalid"
  /\ UNCHANGED <<id_field, columns, ordered_fields>>

MappingNext ==
  \/ \E field \in Fields, column \in Column : WithField(field, column)
  \/ NewRepository

MappingSpec == MappingInit /\ [][MappingNext]_mappingVars

-----------------------------------------------------------------------------
(* Type correctness of the builder; no refused name gets into a mapping. *)
MappingTypeOK ==
  /\ phase \in {"building", "rejected", "valid", "invalid"}
  /\ id_field \in Fields
  /\ DOMAIN columns \subseteq Fields \ BadNames
  /\ \A f \in DOMAIN columns : columns[f] \in Column /\ columns[f].physical \notin BadNames
  /\ ordered_fields \in Seq(Fields)

(* The declaration order lists every mapped field once and nothing else, so *)
(* no statement can skip a field it should name or name one twice.          *)
OrderMatchesMap ==
  /\ DOMAIN columns = {ordered_fields[k] : k \in 1 .. Len(ordered_fields)}
  /\ \A k, l \in 1 .. Len(ordered_fields) : ordered_fields[k] = ordered_fields[l] => k = l

=============================================================================
