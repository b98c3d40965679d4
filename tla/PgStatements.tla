---------------------------- MODULE PgStatements ----------------------------
(***************************************************************************)
(* compile_insert, compile_replace and compiled_id of PgRepository         *)
(* (repository.rs): the loops that turn an entity's fields into columns,   *)
(* placeholders and bindings, over any mapping the builder accepts.        *)
(*                                                                         *)
(* SQL text is abstracted to what placeholder alignment tells apart: the   *)
(* fields a statement assigns, and for each the number of its placeholder. *)
(***************************************************************************)
EXTENDS PgEntityMapping

CONSTANTS
  Values      \* what a codec can return for a field of an entity

(* PgValue::Null, PgValue::Default, a value of the wrong scalar family (or a *)
(* number that is not finite), an error of the codec itself.                *)
Specials == {"null", "default", "mismatched", "codec_error"}

(* A column of the statement and its placeholder; PgBindValue. *)
Slot == [field : Fields, number : Nat]
BindValue == [field : Fields, value : Values, kind : Kinds]

ASSUME ValuesAssumption == Specials \subseteq Values

VARIABLES
  op,         \* "none", "insert", "replace" or "by_id"
  entity,     \* field |-> the value its codec returns
  next,       \* position of the loop in ordered_fields
  slots,      \* what the statement assigns: [field, number], 0 for DEFAULT
  bindings,   \* the typed bindings, in order: [field, value, kind]
  id_slot,    \* the placeholder of the WHERE condition, 0 if none
  outcome     \* "idle", "compiling", "ok" or the error

statementVars == <<op, entity, next, slots, bindings, id_slot, outcome>>
vars == <<mappingVars, statementVars>>

Init ==
  /\ MappingInit
  /\ op = "none" /\ entity = << >> /\ next = 1
  /\ slots = << >> /\ bindings = << >> /\ id_slot = 0
  /\ outcome = "idle"

Build ==
  /\ MappingNext
  /\ UNCHANGED statementVars

(* Mutant: a replacement also assigns an updatable identity. *)
AssignedWithIdentity(f) == IF op = "insert" THEN Insertable(f) ELSE Updatable(f)

(* insertable_fields; updatable_fields without the identity. *)
Assigned(f) == IF op = "insert" THEN Insertable(f) ELSE Updatable(f) /\ f # id_field

Begin(o, e) ==
  /\ phase = "valid" /\ outcome = "idle"
  /\ op' = o /\ entity' = e
  /\ outcome' = IF o = "replace" /\ \A f \in DOMAIN columns : Updatable(f) => f = id_field
                THEN "unsupported" ELSE "compiling"
  /\ UNCHANGED <<mappingVars, next, slots, bindings, id_slot>>

(* normalize_entity_binding of the value by the column's kind. *)
Binding(f) == [field |-> f, value |-> entity[f], kind |-> columns[f].kind]

Fail(error) ==
  /\ outcome' = error
  /\ UNCHANGED <<next, slots, bindings, id_slot>>

(* One turn of the loop; the iterator passes over fields it does not want. *)
Looping == outcome = "compiling" /\ op # "by_id" /\ next <= Len(ordered_fields)

Skip ==
  /\ Looping /\ ~Assigned(ordered_fields[next])
  /\ next' = next + 1
  /\ UNCHANGED <<mappingVars, op, entity, slots, bindings, id_slot, outcome>>

(* Mutant: placeholders are numbered by column, counting those set to DEFAULT. *)
AssignNumbersByColumn ==
  /\ Looping /\ Assigned(ordered_fields[next])
  /\ LET f == ordered_fields[next] IN
     CASE entity[f] = "codec_error" -> Fail("codec_error")
       [] entity[f] = "mismatched" -> Fail("validation")
       [] entity[f] = "default" ->
            /\ slots' = Append(slots, [field |-> f, number |-> 0])
            /\ next' = next + 1
            /\ UNCHANGED <<bindings, id_slot, outcome>>
       [] OTHER ->
            /\ bindings' = Append(bindings, Binding(f))
            /\ slots' = Append(slots, [field |-> f, number |-> Len(slots) + 1])
            /\ next' = next + 1
            /\ UNCHANGED <<id_slot, outcome>>
  /\ UNCHANGED <<mappingVars, op, entity>>

Assign ==
  /\ Looping /\ Assigned(ordered_fields[next])
  /\ LET f == ordered_fields[next] IN
     CASE entity[f] = "codec_error" -> Fail("codec_error")
       [] entity[f] = "mismatched" -> Fail("validation")
       [] entity[f] = "default" ->
            /\ slots' = Append(slots, [field |-> f, number |-> 0])
            /\ next' = next + 1
            /\ UNCHANGED <<bindings, id_slot, outcome>>
       [] OTHER ->
            /\ bindings' = Append(bindings, Binding(f))
            /\ slots' = Append(slots, [field |-> f, number |-> Len(bindings) + 1])
            /\ next' = next + 1
            /\ UNCHANGED <<id_slot, outcome>>
  /\ UNCHANGED <<mappingVars, op, entity>>

FinishInsert ==
  /\ outcome = "compiling" /\ op = "insert" /\ next > Len(ordered_fields)
  /\ outcome' = "ok"
  /\ UNCHANGED <<mappingVars, op, entity, next, slots, bindings, id_slot>>

(* Mutant: only a null identity is refused, and DEFAULT is not. *)
BindIdAllowsDefault ==
  /\ outcome = "compiling"
  /\ op = "by_id" \/ (op = "replace" /\ next > Len(ordered_fields))
  /\ CASE entity[id_field] = "codec_error" -> Fail("codec_error")
       [] entity[id_field] \in {"null", "mismatched"} -> Fail("validation")
       [] OTHER ->
            /\ bindings' = Append(bindings, Binding(id_field))
            /\ id_slot' = Len(bindings) + 1
            /\ outcome' = "ok"
            /\ UNCHANGED <<next, slots>>
  /\ UNCHANGED <<mappingVars, op, entity>>

(* The identity is bound last, and may be neither null nor DEFAULT. *)
BindId ==
  /\ outcome = "compiling"
  /\ op = "by_id" \/ (op = "replace" /\ next > Len(ordered_fields))
  /\ CASE entity[id_field] = "codec_error" -> Fail("codec_error")
       [] entity[id_field] \in {"null", "default", "mismatched"} -> Fail("validation")
       [] OTHER ->
            /\ bindings' = Append(bindings, Binding(id_field))
            /\ id_slot' = Len(bindings) + 1
            /\ outcome' = "ok"
            /\ UNCHANGED <<next, slots>>
  /\ UNCHANGED <<mappingVars, op, entity>>

Next ==
  \/ Build
  \/ \E o \in {"insert", "replace", "by_id"}, e \in [DOMAIN columns -> Values] : Begin(o, e)
  \/ Skip \/ Assign \/ FinishInsert \/ BindId

Spec == Init /\ [][Next]_vars

-----------------------------------------------------------------------------
Outcomes == {"idle", "compiling", "ok", "unsupported", "validation", "codec_error"}

(* Type correctness of the mapping and of a compilation over it. *)
TypeOK ==
  /\ MappingTypeOK
  /\ op \in {"none", "insert", "replace", "by_id"}
  /\ outcome # "idle" => entity \in [DOMAIN columns -> Values]
  /\ next \in Nat \ {0}
  /\ slots \in Seq(Slot)
  /\ bindings \in Seq(BindValue)
  /\ id_slot \in Nat
  /\ outcome \in Outcomes

(* Every placeholder of a statement stands for the binding of its own       *)
(* field, of the value the codec gave and the column's kind; a field is set *)
(* to DEFAULT exactly when the codec said so.                              *)
PlaceholdersAligned ==
  \A k \in 1 .. Len(slots) :
    LET s == slots[k] IN
    IF entity[s.field] = "default" THEN s.number = 0
    ELSE s.number \in 1 .. Len(bindings) /\ bindings[s.number] = Binding(s.field)

(* Every binding is referred to, and by one placeholder only: PostgreSQL    *)
(* refuses a statement with more or fewer parameters than it is sent.      *)
BindingsUsedOnce ==
  outcome = "ok" =>
    \A b \in 1 .. Len(bindings) :
      IF b = id_slot THEN \A k \in 1 .. Len(slots) : slots[k].number # b
      ELSE \E k \in 1 .. Len(slots) :
             /\ slots[k].number = b
             /\ \A l \in 1 .. Len(slots) : slots[l].number = b => l = k

(* The fields a statement may assign, and the column it assigns k-th. *)
Permitted ==
  {f \in DOMAIN columns :
     IF op = "insert" THEN columns[f].permissions.insertable
                      ELSE columns[f].permissions.updatable /\ f # id_field}
AssignedColumn(k) == columns[slots[k].field].physical

(* Nothing in the code checks this of a mapping. *)
OwnColumns ==
  \A f, g \in DOMAIN columns : columns[f].physical = columns[g].physical => f = g

(* A compiled insert or replacement assigns exactly the fields its          *)
(* permissions allow, once each.  If moreover no two fields share a         *)
(* physical column, no column of a generated field is ever written, no      *)
(* replacement writes the column of the identity or of an immutable field,  *)
(* and no statement names a column twice.                                  *)
AssignsPermitted ==
  outcome = "ok" /\ op # "by_id" =>
    /\ {slots[k].field : k \in 1 .. Len(slots)} = Permitted
    /\ \A k, l \in 1 .. Len(slots) : slots[k].field = slots[l].field => k = l
    /\ OwnColumns =>
         /\ \A k \in 1 .. Len(slots), f \in DOMAIN columns :
              AssignedColumn(k) = columns[f].physical => f \in Permitted
         /\ \A k, l \in 1 .. Len(slots) : AssignedColumn(k) = AssignedColumn(l) => k = l

(* A compiled replacement, lookup or removal addresses one entity by its    *)
(* own identity, bound last, and never by null or DEFAULT.                 *)
AddressesIdentity ==
  outcome = "ok" /\ op # "insert" =>
    /\ id_slot = Len(bindings) /\ id_slot > 0
    /\ bindings[id_slot] = Binding(id_field)
    /\ bindings[id_slot].value \notin Specials

(* The doc comment of with_immutable_field, "a selected and inserted field  *)
(* that replacements never update": no replacement assigns its column.     *)
ImmutableNeverUpdated ==
  outcome = "ok" /\ op = "replace" =>
    \A f \in DOMAIN columns, k \in 1 .. Len(slots) :
      Selectable(f) /\ Insertable(f) /\ ~Updatable(f)
        => columns[slots[k].field].physical # columns[f].physical

=============================================================================
