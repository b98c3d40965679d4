------------------------ MODULE PgPreparedStatements ------------------------
(***************************************************************************)
(* The statements of repositories on one connection, seen from a column's  *)
(* placeholder.  SQLx prepares a text once per connection, with the types   *)
(* its first bindings declare, and finds it again by its text alone; later *)
(* bindings are sent in their own encoding and read in those types.        *)
(***************************************************************************)
EXTENDS PgBindValue

CONSTANT Kinds   \* PgScalarKind of the columns considered

ASSUME KindsAssumption == Kinds \subseteq ScalarKinds

VARIABLES
  kind,       \* the kind of the column
  prepared,   \* text |-> the variant it was prepared with and its types
  last        \* the last execution: [origin, sent, by, read], by as in prepared

vars == <<kind, prepared, last>>

(* Mutant: a condition compares numbers as the column stores them. *)
ColumnExpressionStored(k) == IF k = "Text" THEN "column COLLATE C" ELSE "column"

(* column_expression. *)
ColumnExpression(k) ==
  CASE k = "Numeric" -> "column::numeric" [] k = "Text" -> "column COLLATE C" [] OTHER -> "column"

(* What tells apart the texts in which the placeholder stands: find and get *)
(* share one unless the condition's expression differs.                    *)
Text(origin, k) ==
  CASE origin = "find" -> <<"SELECT", ColumnExpression(k)>>
    [] origin = "get" -> <<"SELECT", "column">>
    [] origin = "remove" -> <<"DELETE", "column">>
    [] origin \in {"insert", "replace"} -> <<origin, "column">>

Origins == {"insert", "replace", "get", "remove", "find"}
Nothing == [origin |-> "none", sent |-> "none", by |-> "none", read |-> TRUE]

Init ==
  /\ kind \in Kinds
  /\ prepared = << >>
  /\ last = Nothing

Prepare(text, variant) ==
  IF text \in DOMAIN prepared THEN prepared
  ELSE [t \in DOMAIN prepared \cup {text} |->
          IF t \in DOMAIN prepared THEN prepared[t]
          ELSE [by |-> variant, type |-> DeclaredType(kind, variant), cast |-> PlaceholderCast(kind)]]

Execute(origin, variant) ==
  LET text == Text(origin, kind)
      statements == Prepare(text, variant)
  IN  /\ prepared' = statements
      /\ last' = [origin |-> origin, sent |-> variant, by |-> statements[text].by,
                  read |-> variant = "Null" \/ statements[text].type = DeclaredType(kind, variant)]
      /\ UNCHANGED kind

(* insert, replace: a value the codec gave for a field. *)
Write(origin, value) ==
  /\ NormalizeEntityBinding(kind, value) # Unfit
  /\ Execute(origin, NormalizeEntityBinding(kind, value))

(* get, remove: the identity, which may not be null. *)
ById(origin, value) ==
  /\ value # "Null"
  /\ Write(origin, value)

Find(family) ==
  /\ NormalizeBinding(kind, family) # Unfit
  /\ Execute("find", NormalizeBinding(kind, family))

(* The least recently used statement goes, or the connection. *)
Evict(text) ==
  /\ prepared' = [t \in DOMAIN prepared \ {text} |-> prepared[t]]
  /\ UNCHANGED <<kind, last>>

Reconnect ==
  /\ prepared' = << >> /\ last' = Nothing
  /\ UNCHANGED kind

Next ==
  \/ \E origin \in {"insert", "replace"}, value \in ValueFamilies : Write(origin, value)
  \/ \E origin \in {"get", "remove"}, value \in ValueFamilies : ById(origin, value)
  \/ \E family \in ScalarFamilies : Find(family)
  \/ \E text \in DOMAIN prepared : Evict(text)
  \/ Reconnect

Spec == Init /\ [][Next]_vars

-----------------------------------------------------------------------------
Prepared ==
  [by : ScalarKinds \cup {"Null", "Decimal"}, type : {SqlType(k) : k \in ScalarKinds},
   cast : {NoCast} \cup {SqlType(k) : k \in ScalarKinds}]

(* Type correctness, and every statement ever prepared is one PostgreSQL    *)
(* takes: whatever the first binding declares, the placeholder has the      *)
(* column's type once its cast is applied.                                 *)
PreparedInv ==
  /\ kind \in Kinds
  /\ DOMAIN prepared \subseteq {Text(o, kind) : o \in Origins}
  /\ \A t \in DOMAIN prepared :
       /\ prepared[t] \in Prepared
       /\ SqlType(kind) = IF prepared[t].cast = NoCast THEN prepared[t].type ELSE prepared[t].cast

(* PostgreSQL misreads a value only after one of these histories of the     *)
(* connection: an exact decimal was written beside other numbers; a null    *)
(* prepared the insert or the replacement of a UUID, a JSON value, a date   *)
(* or a time; or find and get, which send such an identity as text and     *)
(* natively, share a text and the other one prepared it.  So no history     *)
(* makes it misread a boolean, a text or a binary value, a condition on a  *)
(* number, or the identity of a removal.                                   *)
OnlyMixedEncodingsMisread ==
  ~last.read =>
    \/ kind = "Numeric" /\ last.origin # "find" /\ (last.by = "Decimal" <=> last.sent # "Decimal")
    \/ kind \in Typed /\ last.origin \in {"insert", "replace"} /\ last.by = "Null"
    \/ kind \in Typed /\ last.origin = "get" /\ last.by = "Text"
    \/ kind \in Typed /\ last.origin = "find" /\ last.by = kind

(* The doc comment of PgValue::Null, "Typed SQL null. The mapped column     *)
(* supplies its PostgreSQL type.": a null leaves the connection's statement *)
(* with the types the column's other values need.                          *)
NullTakesColumnType == ~last.read => last.by # "Null"

=============================================================================
