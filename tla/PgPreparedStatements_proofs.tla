-------------------- MODULE PgPreparedStatements_proofs --------------------
(***************************************************************************)
(* That for any kinds of columns, and over any history of a connection,    *)
(* every prepared statement types its placeholder as the column, and only  *)
(* the named mixtures of encodings make PostgreSQL misread a value.        *)
(***************************************************************************)
EXTENDS PgPreparedStatements, TLAPS

(* The variants an operation binds a column of a kind by. *)
Stored(k) == IF k = "Numeric" THEN {"Numeric", "Decimal"} ELSE {k}
Sends(origin, k) ==
  CASE origin \in {"insert", "replace"} -> Stored(k) \cup {"Null"}
    [] origin \in {"get", "remove"} -> Stored(k)
    [] origin = "find" -> IF k \in Typed THEN {"Text"} ELSE {k}

(* What the connection remembers of the statement under a text: an          *)
(* operation with that text prepared it, by a variant that it sends and     *)
(* with the types that variant declares.                                   *)
StatementInv(t) ==
  /\ \E o \in Origins : t = Text(o, kind) /\ prepared[t].by \in Sends(o, kind)
  /\ prepared[t] = [by |-> prepared[t].by, type |-> DeclaredType(kind, prepared[t].by),
                    cast |-> PlaceholderCast(kind)]

(* The inductive invariant: it knows by what each statement was prepared,   *)
(* where PreparedInv only knows that it was prepared well.                 *)
HistoryInv ==
  /\ kind \in Kinds
  /\ DOMAIN prepared \subseteq {Text(o, kind) : o \in Origins}
  /\ \A t \in DOMAIN prepared : StatementInv(t)
  /\ OnlyMixedEncodingsMisread

-----------------------------------------------------------------------------
(* Operations send nothing but what the conversions of values give.         *)
LEMMA ConversionsAreSends ==
  ASSUME NEW k \in ScalarKinds
  PROVE  /\ \A origin \in {"insert", "replace"}, value \in ValueFamilies :
              NormalizeEntityBinding(k, value) \in Sends(origin, k) \cup {Unfit}
         /\ \A origin \in {"get", "remove"}, value \in ValueFamilies \ {"Null"} :
              NormalizeEntityBinding(k, value) \in Sends(origin, k) \cup {Unfit}
         /\ \A family \in ScalarFamilies :
              NormalizeBinding(k, family) \in Sends("find", k) \cup {Unfit}
BY DEF ScalarKinds, Typed, ValueFamilies, ScalarFamilies, NumberFamilies, Sends, Stored, Unfit,
       NormalizeEntityBinding, NormalizeBinding

(* Where no cast follows the placeholder every variant declares the         *)
(* column's own type.                                                      *)
LEMMA UncastVariants ==
  ASSUME NEW k \in {"Bool", "Text", "Bytes"}, NEW o \in Origins, NEW v \in Sends(o, k)
  PROVE  DeclaredType(k, v) = SqlType(k)
BY DEF Origins, Sends, Stored, Typed, DeclaredType, SqlType

(* The types of statements are types of columns. *)
LEMMA DeclaredAreTypes ==
  ASSUME NEW k \in ScalarKinds, NEW o \in Origins, NEW v \in Sends(o, k)
  PROVE  /\ v \in ScalarKinds \cup {"Null", "Decimal"}
         /\ DeclaredType(k, v) \in {SqlType(j) : j \in ScalarKinds}
<1>1. v \in ScalarKinds \cup {"Null", "Decimal"}
  BY DEF Origins, Sends, Stored, ScalarKinds, Typed
<1>2. SqlType("Text") = "text" /\ SqlType("Numeric") = "numeric"
  BY DEF SqlType
<1>3. "Text" \in ScalarKinds /\ "Numeric" \in ScalarKinds
  BY DEF ScalarKinds
<1>4. DeclaredType(k, v) \in {"text", "numeric", SqlType(k)} \/ (v \in ScalarKinds /\ DeclaredType(k, v) = SqlType(v))
  BY <1>1 DEF DeclaredType
<1> QED
  BY <1>1, <1>2, <1>3, <1>4

(* Operations share a text only where find and get do.                      *)
LEMMA TextsAreApart ==
  ASSUME NEW k \in ScalarKinds, NEW o \in Origins, NEW p \in Origins, Text(o, k) = Text(p, k)
  PROVE  o = p \/ (o \in {"find", "get"} /\ p \in {"find", "get"} /\ k \notin {"Numeric", "Text"})
BY DEF Origins, Text, ColumnExpression

(* A value that is not null, sent by one operation and read as another with *)
(* the same text had it prepared, is misread only in the named cases.       *)
LEMMA MisreadsAreMixed ==
  ASSUME NEW k \in ScalarKinds, NEW o \in Origins, NEW v \in Sends(o, k),
         NEW p \in Origins, NEW by \in Sends(p, k), Text(o, k) = Text(p, k),
         v # "Null", DeclaredType(k, by) # DeclaredType(k, v)
  PROVE  \/ k = "Numeric" /\ o # "find" /\ (by = "Decimal" <=> v # "Decimal")
         \/ k \in Typed /\ o \in {"insert", "replace"} /\ by = "Null"
         \/ k \in Typed /\ o = "get" /\ by = "Text"
         \/ k \in Typed /\ o = "find" /\ by = k
<1>1. k \notin {"Bool", "Text", "Bytes"}
  BY UncastVariants
<1>2. CASE k = "Numeric"
  BY <1>2, TextsAreApart DEF Origins, Sends, Stored, DeclaredType, Typed
<1>3. CASE k \in Typed
  BY <1>3, TextsAreApart DEF Origins, Sends, Stored, DeclaredType, Typed
<1> QED
  BY <1>1, <1>2, <1>3 DEF ScalarKinds

(* An execution finds or prepares a statement by a variant it sends.        *)
LEMMA ExecuteStep ==
  ASSUME HistoryInv, NEW origin \in Origins, NEW v \in Sends(origin, kind), Execute(origin, v)
  PROVE  HistoryInv'
<1> DEFINE text == Text(origin, kind)
<1>1. kind' = kind /\ prepared' = Prepare(text, v) /\ kind \in ScalarKinds
  BY KindsAssumption DEF Execute, HistoryInv
<1>2. DOMAIN prepared' = DOMAIN prepared \cup {text}
  BY <1>1 DEF Prepare
<1>3. \A t \in DOMAIN prepared : prepared'[t] = prepared[t]
  BY <1>1 DEF Prepare
<1>4. text \notin DOMAIN prepared =>
        prepared'[text] = [by |-> v, type |-> DeclaredType(kind, v), cast |-> PlaceholderCast(kind)]
  BY <1>1 DEF Prepare
<1>5. \A t \in DOMAIN prepared' : StatementInv(t)'
  <2> SUFFICES ASSUME NEW t \in DOMAIN prepared' PROVE StatementInv(t)'
    OBVIOUS
  <2>1. CASE t \in DOMAIN prepared
    BY <1>1, <1>3, <2>1 DEF HistoryInv, StatementInv
  <2>2. CASE t = text /\ t \notin DOMAIN prepared
    BY <1>1, <1>4, <2>2 DEF StatementInv
  <2> QED
    BY <1>2, <2>1, <2>2
<1>6. OnlyMixedEncodingsMisread'
  <2>1. /\ last'.origin = origin /\ last'.sent = v /\ last'.by = prepared'[text].by
        /\ last'.read = (v = "Null" \/ prepared'[text].type = DeclaredType(kind, v))
    BY <1>1 DEF Execute
  <2>2. PICK t \in DOMAIN prepared' : t = text
    BY <1>2
  <2>3. StatementInv(t)'
    BY <1>5
  <2>4. PICK p \in Origins : text = Text(p, kind) /\ prepared'[text].by \in Sends(p, kind)
    BY <1>1, <2>2, <2>3 DEF StatementInv
  <2>5. prepared'[text].type = DeclaredType(kind, prepared'[text].by)
    BY <1>1, <2>2, <2>3 DEF StatementInv
  <2>6. ASSUME ~last'.read
        PROVE  v # "Null" /\ DeclaredType(kind, prepared'[text].by) # DeclaredType(kind, v)
    BY <2>1, <2>5, <2>6
  <2> QED
    BY <1>1, <2>1, <2>4, <2>6, MisreadsAreMixed DEF OnlyMixedEncodingsMisread
<1> QED
  BY <1>1, <1>2, <1>5, <1>6 DEF HistoryInv

LEMMA StepHistoryInv == HistoryInv /\ [Next]_vars => HistoryInv'
<1> SUFFICES ASSUME HistoryInv, [Next]_vars PROVE HistoryInv'
  OBVIOUS
<1>1. kind \in ScalarKinds
  BY KindsAssumption DEF HistoryInv
<1>2. ASSUME NEW origin \in {"insert", "replace"}, NEW value \in ValueFamilies, Write(origin, value)
      PROVE  HistoryInv'
  BY <1>1, <1>2, ConversionsAreSends, ExecuteStep DEF Write, Origins
<1>3. ASSUME NEW origin \in {"get", "remove"}, NEW value \in ValueFamilies, ById(origin, value)
      PROVE  HistoryInv'
  BY <1>1, <1>3, ConversionsAreSends, ExecuteStep DEF ById, Write, Origins
<1>4. ASSUME NEW family \in ScalarFamilies, Find(family) PROVE HistoryInv'
  BY <1>1, <1>4, ConversionsAreSends, ExecuteStep DEF Find, Origins
<1>5. ASSUME NEW text \in DOMAIN prepared, Evict(text) PROVE HistoryInv'
  BY <1>5 DEF Evict, HistoryInv, StatementInv, OnlyMixedEncodingsMisread
<1>6. CASE Reconnect
  BY <1>6 DEF Reconnect, HistoryInv, StatementInv, OnlyMixedEncodingsMisread, Nothing
<1>7. CASE UNCHANGED vars
  BY <1>7 DEF vars, HistoryInv, StatementInv, OnlyMixedEncodingsMisread
<1> QED
  BY <1>2, <1>3, <1>4, <1>5, <1>6, <1>7 DEF Next

(* For any kinds: what was prepared, by what, and what was read.            *)
THEOREM HistoryInvariant == Spec => []HistoryInv
<1>1. Init => HistoryInv
  BY DEF Init, HistoryInv, OnlyMixedEncodingsMisread, Nothing
<1> QED
  BY <1>1, StepHistoryInv, PTL DEF Spec

(* Whatever a connection has been through, every statement it has prepared  *)
(* is one PostgreSQL takes.                                                *)
THEOREM StatementsArePrepared == Spec => []PreparedInv
<1>1. HistoryInv => PreparedInv
  <2> SUFFICES ASSUME HistoryInv, NEW t \in DOMAIN prepared
               PROVE  /\ prepared[t] \in Prepared
                      /\ SqlType(kind) = IF prepared[t].cast = NoCast THEN prepared[t].type
                                                                      ELSE prepared[t].cast
    BY DEF HistoryInv, PreparedInv
  <2>1. StatementInv(t) /\ kind \in ScalarKinds
    BY KindsAssumption DEF HistoryInv
  <2>2. PlaceholderCast(kind) \in {NoCast} \cup {SqlType(k) : k \in ScalarKinds}
    BY <2>1 DEF PlaceholderCast
  <2>3. prepared[t] \in Prepared
    BY <2>1, <2>2, DeclaredAreTypes DEF StatementInv, Prepared
  <2>4. CASE kind \in {"Bool", "Text", "Bytes"}
    BY <2>1, <2>3, <2>4, UncastVariants DEF StatementInv, PlaceholderCast
  <2>5. CASE kind \notin {"Bool", "Text", "Bytes"}
    <3>1. SqlType(kind) # NoCast
      BY <2>1 DEF SqlType, NoCast, ScalarKinds, Typed
    <3> QED
      BY <2>1, <2>3, <2>5, <3>1 DEF StatementInv, PlaceholderCast
  <2> QED
    BY <2>3, <2>4, <2>5
<1> QED
  BY <1>1, HistoryInvariant, PTL

(* And a value is misread only after a history that OnlyMixedEncodingsMisread *)
(* names.                                                                  *)
THEOREM MisreadsAreNamed == Spec => []OnlyMixedEncodingsMisread
<1>1. HistoryInv => OnlyMixedEncodingsMisread
  BY DEF HistoryInv
<1> QED
  BY <1>1, HistoryInvariant, PTL

=============================================================================
