----------------------------- MODULE PgFieldMap -----------------------------
(***************************************************************************)
(* PgFieldMap (mapping.rs) in the hands of a direct user, who gives it to a *)
(* PgQueryCompiler: with consumes the map, insert changes it in place, and *)
(* a duplicate is noticed after the column has been replaced.              *)
(***************************************************************************)
EXTENDS TLAPS

CONSTANTS
  Fields,       \* logical field names
  Physicals,    \* physical column names
  BadNames,     \* names that FieldName::new or PgIdentifier::new refuses
  Kinds         \* PgScalarKind

Columns == [physical : Physicals, kind : Kinds]

VARIABLES
  columns,    \* logical field |-> column
  lost,       \* the map went with a failed builder call
  granted,    \* what was asked for by the call that returned Ok
  reported    \* fields for which a call returned the duplicate error

vars == <<columns, lost, granted, reported>>

Extend(map, field, column) ==
  [f \in DOMAIN map \cup {field} |-> IF f = field THEN column ELSE map[f]]

Init ==
  /\ columns = << >> /\ granted = << >>
  /\ lost = FALSE /\ reported = {}

Named(field, column) == field \notin BadNames /\ column.physical \notin BadNames
Present(field) == field \in DOMAIN columns

(* Mutant: the value that BTreeMap::insert returns is ignored. *)
PutSilently(field, column) ==
  /\ columns' = Extend(columns, field, column)
  /\ granted' = IF Present(field) THEN granted ELSE Extend(granted, field, column)
  /\ UNCHANGED reported

(* insert_with_permissions, once the names have passed. *)
Put(field, column) ==
  /\ columns' = Extend(columns, field, column)
  /\ IF Present(field)
     THEN reported' = reported \cup {field} /\ UNCHANGED granted
     ELSE granted' = Extend(granted, field, column) /\ UNCHANGED reported

(* insert: its error leaves the map with the caller. *)
Insert(field, column) ==
  /\ ~lost /\ Named(field, column)
  /\ Put(field, column)
  /\ UNCHANGED lost

(* with: its error drops the map. *)
With(field, column) ==
  /\ ~lost
  /\ IF Named(field, column) /\ ~Present(field)
     THEN Put(field, column) /\ UNCHANGED lost
     ELSE lost' = TRUE /\ UNCHANGED <<columns, granted, reported>>

Next == \E field \in Fields, column \in Columns : Insert(field, column) \/ With(field, column)

Spec == Init /\ [][Next]_vars

-----------------------------------------------------------------------------
(* A field resolves exactly if some call that named it returned Ok, and to  *)
(* that call's column unless a caller has since been told of a duplicate:  *)
(* a compiler never binds by a column nobody was told about.               *)
NoSilentChange ==
  /\ DOMAIN columns = DOMAIN granted
  /\ \A f \in DOMAIN columns \ reported : columns[f] = granted[f]

(* For any fields and columns no mapping changes silently. *)
THEOREM ChangesAreReported == Spec => []NoSilentChange
<1>1. Init => NoSilentChange
  BY DEF Init, NoSilentChange
<1>2. NoSilentChange /\ [Next]_vars => NoSilentChange'
  <2> SUFFICES ASSUME NoSilentChange, [Next]_vars PROVE NoSilentChange'
    OBVIOUS
  <2>1. ASSUME NEW field \in Fields, NEW column \in Columns, Put(field, column) PROVE NoSilentChange'
    <3>1. CASE Present(field)
      BY <2>1, <3>1 DEF Put, Present, Extend, NoSilentChange
    <3>2. CASE ~Present(field)
      BY <2>1, <3>2 DEF Put, Present, Extend, NoSilentChange
    <3> QED
      BY <3>1, <3>2
  <2>2. CASE UNCHANGED <<columns, granted, reported>>
    BY <2>2 DEF NoSilentChange
  <2> QED
    BY <2>1, <2>2 DEF Next, Insert, With, vars
<1> QED
  BY <1>1, <1>2, PTL DEF Spec

=============================================================================
