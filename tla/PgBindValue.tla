---------------------------- MODULE PgBindValue ----------------------------
(***************************************************************************)
(* Values on their way to PostgreSQL (value.rs, compiler.rs): by which     *)
(* PgBindValue a column of a scalar kind is bound, the type SQLx declares   *)
(* for it, and the cast its placeholder carries.                           *)
(***************************************************************************)
Typed == {"Uuid", "Json", "Date", "Time", "Timestamp", "TimestampTz"}
ScalarKinds == {"Bool", "Numeric", "Text", "Bytes"} \cup Typed

NumberFamilies == {"I64", "U64", "F64"}
ScalarFamilies == {"Null", "Bool", "NotFinite", "String", "Bytes", "List"} \cup NumberFamilies
ValueFamilies ==
  {"Null", "Default", "Bool", "NotFinite", "Text", "Bytes", "Decimal"} \cup NumberFamilies \cup Typed

SqlType(kind) ==
  CASE kind = "Bool" -> "bool" [] kind = "Numeric" -> "numeric"
    [] kind = "Text" -> "text" [] kind = "Bytes" -> "bytea"
    [] kind = "Uuid" -> "uuid" [] kind = "Json" -> "jsonb"
    [] kind = "Date" -> "date" [] kind = "Time" -> "time"
    [] kind = "Timestamp" -> "timestamp" [] kind = "TimestampTz" -> "timestamptz"

NoCast == "no cast"

(* Mutant: only numbers are cast. *)
PlaceholderCastNumbers(kind) == IF kind = "Numeric" THEN SqlType(kind) ELSE NoCast

PlaceholderCast(kind) ==
  IF kind \in {"Bool", "Text", "Bytes"} THEN NoCast ELSE SqlType(kind)

Unfit == "unfit"   \* a value the column's kind refuses

(* The variant normalize_binding makes of a ScalarValue; nulls, lists and   *)
(* numbers that are not finite are refused with everything else.           *)
NormalizeBinding(kind, family) ==
  CASE kind = family /\ kind \in {"Bool", "Bytes"} -> kind
    [] kind = "Numeric" /\ family \in NumberFamilies -> "Numeric"
    [] kind \in Typed \cup {"Text"} /\ family = "String" -> "Text"
    [] OTHER -> Unfit

(* The variant normalize_entity_binding makes of a PgValue. *)
NormalizeEntityBinding(kind, family) ==
  CASE family = "Null" -> "Null"
    [] kind = "Numeric" /\ family \in NumberFamilies -> "Numeric"
    [] kind = "Numeric" /\ family = "Decimal" -> "Decimal"
    [] kind # "Numeric" /\ family = kind -> kind
    [] OTHER -> Unfit

(* Mutant: every null is sent as a null text. *)
DeclaredTypeTextNulls(kind, variant) ==
  CASE variant \in {"Numeric", "Text", "Null"} -> "text"
    [] variant = "Decimal" -> "numeric"
    [] OTHER -> SqlType(variant)

(* into_arguments: numbers, and nulls of most kinds, are sent as text. *)
DeclaredType(kind, variant) ==
  CASE variant \in {"Numeric", "Text"} -> "text"
    [] variant = "Null" -> IF kind \in {"Bool", "Bytes"} THEN SqlType(kind) ELSE "text"
    [] variant = "Decimal" -> "numeric"
    [] OTHER -> SqlType(variant)

=============================================================================
