------------------------- MODULE PgStatements_proofs -------------------------
(***************************************************************************)
(* Theorems of PgEntityMapping and PgStatements, for any fields, columns,  *)
(* scalar kinds and entity values.                                         *)
(***************************************************************************)
EXTENDS PgStatements, SequenceTheorems, TLAPS

(* The builder: well typed, in step with its order, complete once valid. *)
MInv ==
  /\ MappingTypeOK
  /\ OrderMatchesMap
  /\ phase = "valid" => Complete

LEMMA InitMInv == MappingInit => MInv
  BY DEF MappingInit, MInv, MappingTypeOK, OrderMatchesMap

LEMMA StepMInv == MInv /\ [MappingNext]_mappingVars => MInv'
<1> SUFFICES ASSUME MInv, [MappingNext]_mappingVars PROVE MInv'
  OBVIOUS
<1>1. ASSUME NEW field \in Fields, NEW column \in Column, WithField(field, column)
      PROVE  MInv'
  <2>1. CASE ~Accepts(field, column.physical, column.permissions)
    BY <1>1, <2>1 DEF WithField, MInv, MappingTypeOK, OrderMatchesMap
  <2>2. CASE Accepts(field, column.physical, column.permissions)
    <3>1. /\ columns' = [f \in DOMAIN columns \cup {field} |->
                           IF f = field THEN column ELSE columns[f]]
          /\ ordered_fields' = Append(ordered_fields, field)
          /\ phase = "building" /\ phase' = phase /\ id_field' = id_field
          /\ field \notin DOMAIN columns
          /\ field \notin BadNames /\ column.physical \notin BadNames
      BY <1>1, <2>2 DEF WithField, Insert, Accepts
    <3>2. MappingTypeOK'
      BY <3>1 DEF MInv, MappingTypeOK
    <3>3. /\ ordered_fields \in Seq(Fields)
          /\ Len(ordered_fields') = Len(ordered_fields) + 1
          /\ \A k \in 1 .. Len(ordered_fields) : ordered_fields'[k] = ordered_fields[k]
          /\ ordered_fields'[Len(ordered_fields) + 1] = field
      BY <3>1 DEF MInv, MappingTypeOK
    <3>4. OrderMatchesMap'
      BY <3>1, <3>3 DEF MInv, OrderMatchesMap
    <3> QED
      BY <3>1, <3>2, <3>4 DEF MInv
  <2> QED
    BY <2>1, <2>2
<1>2. CASE NewRepository
  BY <1>2 DEF NewRepository, MInv, MappingTypeOK, OrderMatchesMap, Complete, Selectable
<1>3. CASE UNCHANGED mappingVars
  BY <1>3 DEF mappingVars, MInv, MappingTypeOK, OrderMatchesMap, Complete, Selectable
<1> QED
  BY <1>1, <1>2, <1>3 DEF MappingNext

-----------------------------------------------------------------------------
Started == outcome # "idle"

(* The loop: where it is, and what it has passed. *)
LoopInv ==
  /\ phase # "valid" => ~Started
  /\ Started <=> op # "none"
  /\ ~Started => bindings = << >> /\ id_slot = 0
  /\ ~Started \/ op = "by_id" \/ outcome = "unsupported" => slots = << >> /\ next = 1
  /\ next <= Len(ordered_fields) + 1
  /\ outcome = "unsupported" => op = "replace"
  /\ outcome = "ok" /\ op # "by_id" => next = Len(ordered_fields) + 1

(* The fields assigned so far are the wanted ones among those passed. *)
FieldsInv ==
  Started /\ op # "by_id" /\ outcome # "unsupported" =>
    /\ \A k \in 1 .. Len(slots) :
         /\ Assigned(slots[k].field)
         /\ \E m \in 1 .. next - 1 : ordered_fields[m] = slots[k].field
    /\ \A m \in 1 .. next - 1 : Assigned(ordered_fields[m]) =>
         \E k \in 1 .. Len(slots) : slots[k].field = ordered_fields[m]
    /\ \A k, l \in 1 .. Len(slots) : slots[k].field = slots[l].field => k = l

(* Numbers and bindings correspond one to one, the identity's aside. *)
NumbersInv ==
  /\ \A k \in 1 .. Len(slots) : slots[k].number <= Len(bindings)
  /\ \A k \in 1 .. Len(slots) : slots[k].field \in DOMAIN columns
  /\ \A b \in 1 .. Len(bindings) : b # id_slot =>
       \E k \in 1 .. Len(slots) : slots[k].number = b
  /\ \A k, l \in 1 .. Len(slots) :
       slots[k].number = slots[l].number /\ slots[k].number > 0 => k = l
  /\ \A k \in 1 .. Len(slots) : id_slot > 0 => slots[k].number # id_slot
  /\ outcome # "ok" \/ op = "insert" => id_slot = 0

SInv ==
  /\ MInv
  /\ TypeOK
  /\ LoopInv
  /\ FieldsInv
  /\ NumbersInv
  /\ PlaceholdersAligned
  /\ AddressesIdentity

LEMMA InitSInv == Init => SInv
<1> SUFFICES ASSUME Init PROVE SInv
  OBVIOUS
<1>1. MInv
  BY InitMInv DEF Init
<1>2. TypeOK
  BY <1>1 DEF Init, TypeOK, MInv, Outcomes
<1>3. LoopInv
  BY <1>1 DEF Init, LoopInv, Started, MInv, MappingTypeOK, MappingInit
<1>4. FieldsInv /\ NumbersInv /\ PlaceholdersAligned /\ AddressesIdentity
  BY DEF Init, FieldsInv, NumbersInv, PlaceholdersAligned, AddressesIdentity, Started
<1> QED
  BY <1>1, <1>2, <1>3, <1>4 DEF SInv

(* Before a compilation has started, building keeps the invariant. *)
LEMMA BuildSInv == ASSUME SInv, Build PROVE SInv'
<1>1. phase = "building" /\ ~Started
  BY DEF Build, MappingNext, WithField, NewRepository, SInv, LoopInv, Started
<1>2. MInv'
  BY StepMInv DEF Build, SInv
<1>3. UNCHANGED statementVars
  BY DEF Build
<1>4. /\ op' = "none" /\ outcome' = "idle" /\ slots' = << >> /\ bindings' = << >>
      /\ id_slot' = 0 /\ next' = 1
  BY <1>1, <1>3 DEF statementVars, SInv, LoopInv, Started, TypeOK
<1>5. TypeOK'
  BY <1>2, <1>4 DEF TypeOK, MInv, Outcomes
<1>6. LoopInv'
  BY <1>2, <1>4 DEF LoopInv, Started, MInv, MappingTypeOK
<1>7. FieldsInv' /\ NumbersInv' /\ PlaceholdersAligned' /\ AddressesIdentity'
  BY <1>4 DEF FieldsInv, NumbersInv, PlaceholdersAligned, AddressesIdentity, Started
<1> QED
  BY <1>2, <1>5, <1>6, <1>7 DEF SInv

LEMMA BeginSInv ==
  ASSUME SInv, NEW o \in {"insert", "replace", "by_id"}, NEW e \in [DOMAIN columns -> Values],
         Begin(o, e)
  PROVE  SInv'
<1>1. /\ slots = << >> /\ bindings = << >> /\ id_slot = 0 /\ next = 1
      /\ UNCHANGED <<mappingVars, next, slots, bindings, id_slot>>
      /\ op' = o /\ entity' = e /\ phase = "valid"
      /\ outcome' \in {"unsupported", "compiling"}
      /\ outcome' = "unsupported" => o = "replace"
  BY DEF Begin, SInv, LoopInv, Started
<1>2. MInv'
  BY <1>1, StepMInv DEF SInv
<1>3. TypeOK'
  BY <1>1, <1>2 DEF TypeOK, MInv, Outcomes, SInv, mappingVars
<1>4. LoopInv'
  BY <1>1, <1>2 DEF LoopInv, Started, MInv, MappingTypeOK, mappingVars
<1>5. FieldsInv' /\ NumbersInv' /\ PlaceholdersAligned' /\ AddressesIdentity'
  BY <1>1 DEF FieldsInv, NumbersInv, PlaceholdersAligned, AddressesIdentity, Started
<1> QED
  BY <1>2, <1>3, <1>4, <1>5 DEF SInv

(* Passing over a field that is not assigned. *)
LEMMA SkipSInv == ASSUME SInv, Skip PROVE SInv'
<1>1. /\ outcome = "compiling" /\ op # "by_id" /\ next \in Nat \ {0}
      /\ next <= Len(ordered_fields) /\ next' = next + 1
      /\ ~Assigned(ordered_fields[next])
      /\ UNCHANGED <<mappingVars, op, entity, slots, bindings, id_slot, outcome>>
  BY DEF Skip, Looping, SInv, TypeOK
<1>2. /\ \A f : Assigned(f)' <=> Assigned(f)
      /\ \A f : Binding(f)' = Binding(f)
  BY <1>1 DEF Assigned, Insertable, Updatable, Binding, mappingVars
<1>3. MInv'
  BY <1>1, StepMInv DEF SInv
<1>4. TypeOK'
  BY <1>1, <1>3 DEF TypeOK, MInv, SInv, mappingVars
<1>5. LoopInv'
  BY <1>1 DEF LoopInv, Started, SInv, MInv, MappingTypeOK, mappingVars
<1>6. FieldsInv'
  <2>1. Len(slots) \in Nat
    BY DEF SInv, TypeOK
  <2> QED
    BY <1>1, <1>2, <2>1 DEF FieldsInv, Started, SInv, mappingVars
<1>7. NumbersInv' /\ PlaceholdersAligned' /\ AddressesIdentity'
  BY <1>1, <1>2 DEF NumbersInv, PlaceholdersAligned, AddressesIdentity, SInv, mappingVars
<1> QED
  BY <1>3, <1>4, <1>5, <1>6, <1>7 DEF SInv

(* What one turn of the loop does when it does not fail. *)
Appends(f, number) ==
  /\ slots' = Append(slots, [field |-> f, number |-> number])
  /\ next' = next + 1
  /\ UNCHANGED <<mappingVars, op, entity, id_slot, outcome>>

(* Failing keeps what was compiled and ends the loop. *)
LEMMA FailSInv ==
  ASSUME SInv, NEW error \in {"validation", "codec_error"}, outcome = "compiling",
         op = "insert" \/ op = "replace" \/ op = "by_id",
         Fail(error), UNCHANGED <<mappingVars, op, entity>>
  PROVE  SInv'
<1>1. /\ outcome' = error
      /\ UNCHANGED <<mappingVars, op, entity, next, slots, bindings, id_slot>>
  BY DEF Fail
<1>2. /\ \A f : Assigned(f)' <=> Assigned(f)
      /\ \A f : Binding(f)' = Binding(f)
  BY <1>1 DEF Assigned, Insertable, Updatable, Binding, mappingVars
<1>3. MInv'
  BY <1>1, StepMInv DEF SInv
<1>4. TypeOK'
  BY <1>1, <1>3 DEF TypeOK, MInv, SInv, mappingVars, Outcomes
<1>5. LoopInv'
  BY <1>1 DEF LoopInv, Started, SInv, mappingVars
<1>6. FieldsInv'
  BY <1>1, <1>2 DEF FieldsInv, Started, SInv, mappingVars
<1>7. NumbersInv' /\ PlaceholdersAligned' /\ AddressesIdentity'
  BY <1>1, <1>2 DEF NumbersInv, PlaceholdersAligned, AddressesIdentity, SInv, mappingVars
<1> QED
  BY <1>3, <1>4, <1>5, <1>6, <1>7 DEF SInv

(* Assigning the field the loop has come to. *)
LEMMA AssignSInv == ASSUME SInv, Assign PROVE SInv'
<1> DEFINE f == ordered_fields[next]
<1>1. /\ outcome = "compiling" /\ next \in Nat \ {0}
      /\ next <= Len(ordered_fields)
      /\ Assigned(f)
      /\ UNCHANGED <<mappingVars, op, entity>>
  BY DEF Assign, Looping, SInv, TypeOK
<1>2. op = "insert" \/ op = "replace"
  BY <1>1 DEF Assign, Looping, SInv, LoopInv, Started, TypeOK
<1>3. f \in DOMAIN columns /\ f \in Fields
  BY <1>1 DEF SInv, MInv, OrderMatchesMap, MappingTypeOK
<1>4. id_slot = 0
  BY <1>1 DEF SInv, NumbersInv
<1>5. CASE entity[f] = "codec_error"
  <2>1. Fail("codec_error")
    BY <1>5 DEF Assign
  <2> QED
    BY <1>1, <1>2, <2>1, FailSInv
<1>6. CASE entity[f] = "mismatched"
  <2>1. Fail("validation")
    BY <1>6 DEF Assign
  <2> QED
    BY <1>1, <1>2, <2>1, FailSInv
<1>7. ASSUME NEW n \in Nat, Appends(f, n),
             IF entity[f] = "default"
             THEN n = 0 /\ bindings' = bindings
             ELSE n = Len(bindings) + 1 /\ bindings' = Append(bindings, Binding(f))
      PROVE  SInv'
  <2>1. /\ slots' = Append(slots, [field |-> f, number |-> n])
        /\ next' = next + 1
        /\ UNCHANGED <<mappingVars, op, entity, id_slot, outcome>>
    BY <1>7 DEF Appends
  <2>2. /\ \A g : Assigned(g)' <=> Assigned(g)
        /\ \A g : Binding(g)' = Binding(g)
    BY <2>1 DEF Assigned, Insertable, Updatable, Binding, mappingVars
  <2>3. [field |-> f, number |-> n] \in Slot /\ Binding(f) \in BindValue
    BY <1>1, <1>3 DEF Binding, Slot, BindValue, SInv, TypeOK, MappingTypeOK, Column
  <2>14. slots \in Seq(Slot) /\ bindings \in Seq(BindValue)
    BY DEF SInv, TypeOK
  <2>4. /\ Len(slots) \in Nat /\ Len(bindings) \in Nat
        /\ slots' \in Seq(Slot)
        /\ Len(slots') = Len(slots) + 1
        /\ \A k \in 1 .. Len(slots) : slots'[k] = slots[k]
        /\ slots'[Len(slots) + 1] = [field |-> f, number |-> n]
    BY <2>1, <2>3, <2>14, AppendProperties
  <2>5. /\ bindings' \in Seq(BindValue)
        /\ Len(bindings') = IF n > 0 THEN Len(bindings) + 1 ELSE Len(bindings)
        /\ \A b \in 1 .. Len(bindings) : bindings'[b] = bindings[b]
        /\ n > 0 => n = Len(bindings) + 1 /\ bindings'[n] = Binding(f)
    <3>1. CASE entity[f] = "default"
      BY <1>7, <2>14, <3>1
    <3>2. CASE entity[f] # "default"
      <4>1. n = Len(bindings) + 1 /\ bindings' = Append(bindings, Binding(f))
        BY <1>7, <3>2
      <4>2. /\ Append(bindings, Binding(f)) \in Seq(BindValue)
            /\ Len(Append(bindings, Binding(f))) = Len(bindings) + 1
            /\ \A b \in 1 .. Len(bindings) : Append(bindings, Binding(f))[b] = bindings[b]
            /\ Append(bindings, Binding(f))[Len(bindings) + 1] = Binding(f)
        BY <2>3, <2>14, AppendProperties
      <4> QED
        BY <2>4, <4>1, <4>2
    <3> QED
      BY <3>1, <3>2
  <2>13. \A k \in 1 .. Len(slots) : slots[k].number \in Nat
    <3>1. \A k \in 1 .. Len(slots) : slots[k] \in Slot
      BY <2>14, ElementOfSeq
    <3> QED
      BY <3>1 DEF Slot
  <2>6. MInv'
    BY <2>1, StepMInv DEF SInv
  <2>7. TypeOK'
    <3>1. DOMAIN columns' = DOMAIN columns /\ MappingTypeOK'
      BY <2>1, <2>6 DEF MInv, mappingVars
    <3> QED
      BY <1>1, <2>1, <2>4, <2>5, <3>1 DEF TypeOK, SInv
  <2>8. LoopInv'
    BY <1>1, <1>2, <2>1 DEF LoopInv, Started, SInv, MInv, MappingTypeOK, mappingVars
  <2>9. FieldsInv'
    <3>1. /\ \A k \in 1 .. Len(slots) :
               /\ Assigned(slots[k].field)
               /\ \E m \in 1 .. next - 1 : ordered_fields[m] = slots[k].field
          /\ \A m \in 1 .. next - 1 : Assigned(ordered_fields[m]) =>
               \E k \in 1 .. Len(slots) : slots[k].field = ordered_fields[m]
          /\ \A k, l \in 1 .. Len(slots) : slots[k].field = slots[l].field => k = l
      BY <1>1, <1>2 DEF SInv, FieldsInv, Started
    <3>2. \A k \in 1 .. Len(slots) : slots[k].field # f
      BY <1>1, <3>1 DEF SInv, MInv, OrderMatchesMap
    <3>3. \A k \in 1 .. Len(slots') :
             /\ Assigned(slots'[k].field)
             /\ \E m \in 1 .. next' - 1 : ordered_fields[m] = slots'[k].field
      BY <1>1, <2>1, <2>4, <3>1
    <3>4. \A m \in 1 .. next' - 1 : Assigned(ordered_fields[m]) =>
             \E k \in 1 .. Len(slots') : slots'[k].field = ordered_fields[m]
      <4> SUFFICES ASSUME NEW m \in 1 .. next' - 1, Assigned(ordered_fields[m])
                   PROVE  \E k \in 1 .. Len(slots') : slots'[k].field = ordered_fields[m]
        OBVIOUS
      <4>1. CASE m = next
        BY <2>4, <4>1
      <4>2. CASE m \in 1 .. next - 1
        <5>1. PICK k \in 1 .. Len(slots) : slots[k].field = ordered_fields[m]
          BY <3>1, <4>2
        <5> QED
          BY <2>4, <5>1
      <4> QED
        BY <1>1, <2>1, <4>1, <4>2
    <3>5. \A k, l \in 1 .. Len(slots') : slots'[k].field = slots'[l].field => k = l
      <4> SUFFICES ASSUME NEW k \in 1 .. Len(slots'), NEW l \in 1 .. Len(slots'),
                          slots'[k].field = slots'[l].field
                   PROVE  k = l
        OBVIOUS
      <4>1. CASE k \in 1 .. Len(slots) /\ l \in 1 .. Len(slots)
        BY <2>4, <3>1, <4>1
      <4>2. CASE k = Len(slots) + 1 \/ l = Len(slots) + 1
        BY <2>4, <3>2, <4>2
      <4> QED
        BY <2>4, <4>1, <4>2
    <3>6. /\ op' = op /\ columns' = columns /\ id_field' = id_field
          /\ ordered_fields' = ordered_fields
      BY <2>1 DEF mappingVars
    <3>7. (\A k \in 1 .. Len(slots) :
             /\ Assigned(slots[k].field)
             /\ \E m \in 1 .. next - 1 : ordered_fields[m] = slots[k].field)'
      BY <3>3, <3>6 DEF Assigned, Insertable, Updatable
    <3>8. (\A m \in 1 .. next - 1 : Assigned(ordered_fields[m]) =>
             \E k \in 1 .. Len(slots) : slots[k].field = ordered_fields[m])'
      BY <3>4, <3>6 DEF Assigned, Insertable, Updatable
    <3>9. (\A k, l \in 1 .. Len(slots) : slots[k].field = slots[l].field => k = l)'
      BY <3>5
    <3> QED
      BY <3>7, <3>8, <3>9 DEF FieldsInv
  <2>10. NumbersInv'
    <3>1. \A k \in 1 .. Len(slots) : slots[k].number \in Nat /\ slots[k].number <= Len(bindings)
      BY <2>13 DEF SInv, NumbersInv
    <3>2. \A k \in 1 .. Len(slots') :
            slots'[k].number <= Len(bindings') /\ slots'[k].field \in DOMAIN columns
      BY <1>3, <2>4, <2>5, <3>1 DEF SInv, NumbersInv
    <3>3. \A b \in 1 .. Len(bindings') : \E k \in 1 .. Len(slots') : slots'[k].number = b
      <4> SUFFICES ASSUME NEW b \in 1 .. Len(bindings')
                   PROVE  \E k \in 1 .. Len(slots') : slots'[k].number = b
        OBVIOUS
      <4>1. CASE b = n
        BY <2>4, <4>1
      <4>2. CASE b \in 1 .. Len(bindings)
        <5>1. PICK k \in 1 .. Len(slots) : slots[k].number = b
          BY <1>4, <4>2 DEF SInv, NumbersInv
        <5> QED
          BY <2>4, <5>1
      <4> QED
        BY <2>4, <2>5, <4>1, <4>2
    <3>4. \A k, l \in 1 .. Len(slots') :
            slots'[k].number = slots'[l].number /\ slots'[k].number > 0 => k = l
      <4> SUFFICES ASSUME NEW k \in 1 .. Len(slots'), NEW l \in 1 .. Len(slots'),
                          slots'[k].number = slots'[l].number, slots'[k].number > 0
                   PROVE  k = l
        OBVIOUS
      <4>1. \A m \in 1 .. Len(slots) : slots[m].number > 0 => slots[m].number # n
        BY <2>5, <3>1, <2>4
      <4>2. CASE k \in 1 .. Len(slots) /\ l \in 1 .. Len(slots)
        BY <2>4, <4>2 DEF SInv, NumbersInv
      <4>3. CASE k = Len(slots) + 1 \/ l = Len(slots) + 1
        BY <2>4, <4>1, <4>3
      <4> QED
        BY <2>4, <4>2, <4>3
    <3>5. columns' = columns /\ id_slot' = 0
      BY <1>4, <2>1 DEF mappingVars
    <3> QED
      BY <3>2, <3>3, <3>4, <3>5 DEF NumbersInv
  <2>11. PlaceholdersAligned'
    <3> SUFFICES ASSUME NEW k \in 1 .. Len(slots')
                 PROVE  IF entity[slots'[k].field] = "default" THEN slots'[k].number = 0
                        ELSE /\ slots'[k].number \in 1 .. Len(bindings')
                             /\ bindings'[slots'[k].number] = Binding(slots'[k].field)
      BY <2>1, <2>2 DEF PlaceholdersAligned
    <3>1. CASE k = Len(slots) + 1
      BY <1>7, <2>4, <2>5, <3>1
    <3>2. CASE k \in 1 .. Len(slots)
      <4>1. slots'[k] = slots[k] /\ slots[k].number \in Nat
        BY <2>4, <2>13, <3>2
      <4> QED
        BY <2>4, <2>5, <3>2, <4>1 DEF SInv, PlaceholdersAligned
    <3> QED
      BY <2>4, <3>1, <3>2
  <2>12. AddressesIdentity'
    BY <1>1, <2>1 DEF AddressesIdentity
  <2> QED
    BY <2>6, <2>7, <2>8, <2>9, <2>10, <2>11, <2>12 DEF SInv
<1>8. CASE entity[f] = "default"
  <2>1. Appends(f, 0) /\ bindings' = bindings
    BY <1>8 DEF Assign, Appends
  <2> QED
    BY <1>7, <1>8, <2>1
<1>9. CASE entity[f] \notin {"codec_error", "mismatched", "default"}
  <2>1. /\ Appends(f, Len(bindings) + 1)
        /\ bindings' = Append(bindings, Binding(f))
    BY <1>9 DEF Assign, Appends
  <2>2. Len(bindings) + 1 \in Nat
    BY DEF SInv, TypeOK
  <2> QED
    BY <1>7, <1>9, <2>1, <2>2
<1> QED
  BY <1>5, <1>6, <1>8, <1>9

(* The last turn of an insert. *)
LEMMA FinishInsertSInv == ASSUME SInv, FinishInsert PROVE SInv'
<1>1. /\ outcome = "compiling" /\ outcome' = "ok" /\ op = "insert"
      /\ next = Len(ordered_fields) + 1
      /\ UNCHANGED <<mappingVars, op, entity, next, slots, bindings, id_slot>>
  BY DEF FinishInsert, SInv, TypeOK, LoopInv, MInv, MappingTypeOK
<1>2. /\ \A f : Assigned(f)' <=> Assigned(f)
      /\ \A f : Binding(f)' = Binding(f)
  BY <1>1 DEF Assigned, Insertable, Updatable, Binding, mappingVars
<1>3. MInv'
  BY <1>1, StepMInv DEF SInv
<1>4. TypeOK'
  BY <1>1, <1>3 DEF TypeOK, MInv, SInv, mappingVars, Outcomes
<1>5. LoopInv'
  BY <1>1 DEF LoopInv, Started, SInv, mappingVars
<1>6. FieldsInv'
  BY <1>1, <1>2 DEF FieldsInv, Started, SInv, mappingVars
<1>7. NumbersInv' /\ PlaceholdersAligned' /\ AddressesIdentity'
  BY <1>1, <1>2 DEF NumbersInv, PlaceholdersAligned, AddressesIdentity, SInv, mappingVars
<1> QED
  BY <1>3, <1>4, <1>5, <1>6, <1>7 DEF SInv

(* Binding the identity last. *)
LEMMA BindIdSInv == ASSUME SInv, BindId PROVE SInv'
<1>1. /\ outcome = "compiling"
      /\ op = "by_id" \/ (op = "replace" /\ next > Len(ordered_fields))
      /\ UNCHANGED <<mappingVars, op, entity>>
  BY DEF BindId
<1>2. id_field \in DOMAIN columns /\ id_field \in Fields
  BY <1>1 DEF SInv, LoopInv, Started, MInv, Complete, MappingTypeOK
<1>3. CASE entity[id_field] \in {"codec_error", "null", "default", "mismatched"}
  <2>1. Fail("codec_error") \/ Fail("validation")
    BY <1>3 DEF BindId
  <2> QED
    BY <1>1, <2>1, FailSInv
<1>4. CASE entity[id_field] \notin {"codec_error", "null", "default", "mismatched"}
  <2> DEFINE n == Len(bindings) + 1
  <2>1. /\ bindings' = Append(bindings, Binding(id_field))
        /\ id_slot' = n /\ outcome' = "ok"
        /\ UNCHANGED <<mappingVars, op, entity, next, slots>>
    BY <1>1, <1>4 DEF BindId
  <2>2. /\ \A g : Assigned(g)' <=> Assigned(g)
        /\ \A g : Binding(g)' = Binding(g)
    BY <2>1 DEF Assigned, Insertable, Updatable, Binding, mappingVars
  <2>3. Binding(id_field) \in BindValue /\ Binding(id_field).value \notin Specials
    BY <1>1, <1>2, <1>4
       DEF Binding, BindValue, SInv, TypeOK, MappingTypeOK, Column, Specials
  <2>4. slots \in Seq(Slot) /\ bindings \in Seq(BindValue)
    BY DEF SInv, TypeOK
  <2>5. /\ Append(bindings, Binding(id_field)) \in Seq(BindValue)
        /\ Len(Append(bindings, Binding(id_field))) = n
        /\ \A b \in 1 .. Len(bindings) :
             Append(bindings, Binding(id_field))[b] = bindings[b]
        /\ Append(bindings, Binding(id_field))[n] = Binding(id_field)
    BY <2>3, <2>4, AppendProperties
  <2>6. /\ bindings' \in Seq(BindValue) /\ Len(bindings') = n
        /\ \A b \in 1 .. Len(bindings) : bindings'[b] = bindings[b]
        /\ bindings'[n] = Binding(id_field)
        /\ Len(bindings) \in Nat /\ n \in Nat /\ n > 0 /\ Len(slots) \in Nat
    BY <2>1, <2>4, <2>5
  <2>7. \A k \in 1 .. Len(slots) : slots[k].number \in Nat
    <3>1. \A k \in 1 .. Len(slots) : slots[k] \in Slot
      BY <2>4, ElementOfSeq
    <3> QED
      BY <3>1 DEF Slot
  <2>8. MInv'
    BY <2>1, StepMInv DEF SInv
  <2>9. TypeOK'
    <3>1. DOMAIN columns' = DOMAIN columns /\ MappingTypeOK'
      BY <2>1, <2>8 DEF MInv, mappingVars
    <3>2. /\ entity \in [DOMAIN columns -> Values] /\ slots \in Seq(Slot)
          /\ op \in {"none", "insert", "replace", "by_id"} /\ next \in Nat \ {0}
      BY <1>1 DEF SInv, TypeOK
    <3>3. id_slot' \in Nat /\ outcome' \in Outcomes
      BY <2>1, <2>6 DEF Outcomes
    <3> HIDE DEF n
    <3> QED
      BY <2>1, <2>6, <3>1, <3>2, <3>3 DEF TypeOK
  <2>10. LoopInv'
    BY <1>1, <2>1, <2>6 DEF LoopInv, Started, SInv, TypeOK, MInv, MappingTypeOK, mappingVars
  <2>11. FieldsInv'
    BY <1>1, <2>1, <2>2 DEF FieldsInv, Started, SInv, mappingVars
  <2>12. NumbersInv'
    <3>1. \A k \in 1 .. Len(slots) : slots[k].number <= Len(bindings)
      BY DEF SInv, NumbersInv
    <3>2. \A b \in 1 .. Len(bindings') : b # n =>
            \E k \in 1 .. Len(slots) : slots[k].number = b
      BY <1>1, <2>6 DEF SInv, NumbersInv
    <3>3. \A k \in 1 .. Len(slots) : slots[k].number # n /\ slots[k].number <= n
      BY <2>6, <2>7, <3>1
    <3>4. \A k, l \in 1 .. Len(slots) :
            slots[k].number = slots[l].number /\ slots[k].number > 0 => k = l
      BY DEF SInv, NumbersInv
    <3>5. \A k \in 1 .. Len(slots) : slots[k].field \in DOMAIN columns
      BY DEF SInv, NumbersInv
    <3>6. columns' = columns /\ op' # "insert"
      BY <1>1, <2>1 DEF mappingVars
    <3> QED
      BY <2>1, <2>6, <3>2, <3>3, <3>4, <3>5, <3>6 DEF NumbersInv
  <2>13. PlaceholdersAligned'
    <3> SUFFICES ASSUME NEW k \in 1 .. Len(slots)
                 PROVE  IF entity[slots[k].field] = "default" THEN slots[k].number = 0
                        ELSE /\ slots[k].number \in 1 .. Len(bindings')
                             /\ bindings'[slots[k].number] = Binding(slots[k].field)
      BY <2>1, <2>2 DEF PlaceholdersAligned
    <3> QED
      BY <2>6, <2>7 DEF SInv, PlaceholdersAligned
  <2>14. AddressesIdentity'
    BY <2>1, <2>2, <2>3, <2>6 DEF AddressesIdentity, mappingVars
  <2> QED
    BY <2>8, <2>9, <2>10, <2>11, <2>12, <2>13, <2>14 DEF SInv
<1> QED
  BY <1>3, <1>4

LEMMA StepSInv == SInv /\ [Next]_vars => SInv'
<1> SUFFICES ASSUME SInv, [Next]_vars PROVE SInv'
  OBVIOUS
<1>1. CASE Build
  BY <1>1, BuildSInv
<1>2. ASSUME NEW o \in {"insert", "replace", "by_id"},
             NEW e \in [DOMAIN columns -> Values], Begin(o, e)
      PROVE  SInv'
  BY <1>2, BeginSInv
<1>3. CASE Skip
  BY <1>3, SkipSInv
<1>4. CASE Assign
  BY <1>4, AssignSInv
<1>5. CASE FinishInsert
  BY <1>5, FinishInsertSInv
<1>6. CASE BindId
  BY <1>6, BindIdSInv
<1>7. CASE UNCHANGED vars
  <2> USE <1>7 DEF vars, mappingVars, statementVars
  <2>1. /\ \A f : Assigned(f)' <=> Assigned(f)
        /\ \A f : Binding(f)' = Binding(f)
    BY DEF Assigned, Insertable, Updatable, Binding
  <2>2. MInv'
    BY StepMInv DEF SInv
  <2>3. TypeOK'
    BY <2>2 DEF TypeOK, MInv, SInv
  <2>4. LoopInv'
    BY DEF LoopInv, Started, SInv
  <2>5. FieldsInv'
    BY <2>1 DEF FieldsInv, Started, SInv
  <2>6. NumbersInv' /\ PlaceholdersAligned' /\ AddressesIdentity'
    BY <2>1 DEF NumbersInv, PlaceholdersAligned, AddressesIdentity, SInv
  <2> QED
    BY <2>2, <2>3, <2>4, <2>5, <2>6 DEF SInv
<1> QED
  BY <1>1, <1>2, <1>3, <1>4, <1>5, <1>6, <1>7 DEF Next

(* The invariant of the compilation holds for ever. *)
THEOREM CompilationInvariant == Spec => []SInv
  BY InitSInv, StepSInv, PTL DEF Spec

(* The mapping and the compilation over it stay well typed. *)
THEOREM TypeCorrect == Spec => []TypeOK
<1>1. SInv => TypeOK
  BY DEF SInv
<1> QED
  BY <1>1, CompilationInvariant, PTL

(* A mapping's declaration order lists every mapped field exactly once. *)
THEOREM OrderIsExact == Spec => []OrderMatchesMap
<1>1. SInv => OrderMatchesMap
  BY DEF SInv, MInv
<1> QED
  BY <1>1, CompilationInvariant, PTL

(* Every placeholder stands for its own field's binding. *)
THEOREM Alignment == Spec => []PlaceholdersAligned
<1>1. SInv => PlaceholdersAligned
  BY DEF SInv
<1> QED
  BY <1>1, CompilationInvariant, PTL

(* A statement has as many parameters as it binds, each used once. *)
THEOREM NoUnusedBinding == Spec => []BindingsUsedOnce
<1>1. SInv => BindingsUsedOnce
  <2> SUFFICES ASSUME SInv, NEW b \in 1 .. Len(bindings)
               PROVE  IF b = id_slot THEN \A k \in 1 .. Len(slots) : slots[k].number # b
                      ELSE \E k \in 1 .. Len(slots) :
                             /\ slots[k].number = b
                             /\ \A l \in 1 .. Len(slots) : slots[l].number = b => l = k
    BY DEF BindingsUsedOnce
  <2>1. CASE b = id_slot
    BY <2>1 DEF SInv, NumbersInv
  <2>2. CASE b # id_slot
    <3>1. PICK k \in 1 .. Len(slots) : slots[k].number = b
      BY <2>2 DEF SInv, NumbersInv
    <3>2. \A l \in 1 .. Len(slots) : slots[l].number = b => l = k
      BY <3>1 DEF SInv, NumbersInv
    <3> QED
      BY <2>2, <3>1, <3>2
  <2> QED
    BY <2>1, <2>2
<1> QED
  BY <1>1, CompilationInvariant, PTL

(* Statements assign exactly the fields their permissions allow, and where  *)
(* fields do not share them, exactly the columns.                          *)
THEOREM PermissionsKept == Spec => []AssignsPermitted
<1>1. SInv => AssignsPermitted
  <2> SUFFICES ASSUME SInv, outcome = "ok", op # "by_id"
               PROVE  /\ {slots[k].field : k \in 1 .. Len(slots)} = Permitted
                      /\ \A k, l \in 1 .. Len(slots) : slots[k].field = slots[l].field => k = l
                      /\ OwnColumns =>
                           /\ \A k \in 1 .. Len(slots), f \in DOMAIN columns :
                                AssignedColumn(k) = columns[f].physical => f \in Permitted
                           /\ \A k, l \in 1 .. Len(slots) :
                                AssignedColumn(k) = AssignedColumn(l) => k = l
    BY DEF AssignsPermitted
  <2>1. next = Len(ordered_fields) + 1 /\ Len(ordered_fields) \in Nat
    BY DEF SInv, LoopInv, MInv, MappingTypeOK
  <2>2. DOMAIN columns = {ordered_fields[m] : m \in 1 .. next - 1}
    BY <2>1 DEF SInv, MInv, OrderMatchesMap
  <2>3. /\ \A k \in 1 .. Len(slots) :
             /\ Assigned(slots[k].field)
             /\ \E m \in 1 .. next - 1 : ordered_fields[m] = slots[k].field
        /\ \A m \in 1 .. next - 1 : Assigned(ordered_fields[m]) =>
             \E k \in 1 .. Len(slots) : slots[k].field = ordered_fields[m]
        /\ \A k, l \in 1 .. Len(slots) : slots[k].field = slots[l].field => k = l
    BY DEF SInv, FieldsInv, Started
  <2>4. Permitted = {f \in DOMAIN columns : Assigned(f)}
    BY DEF Permitted, Assigned, Insertable, Updatable
  <2>5. \A f : f \in {slots[k].field : k \in 1 .. Len(slots)} <=> f \in Permitted
    BY <2>2, <2>3, <2>4
  <2>6. \A k \in 1 .. Len(slots) : slots[k].field \in DOMAIN columns /\ slots[k].field \in Permitted
    BY <2>4, <2>5
  <2>7. ASSUME OwnColumns
        PROVE  /\ \A k \in 1 .. Len(slots), f \in DOMAIN columns :
                    AssignedColumn(k) = columns[f].physical => f \in Permitted
               /\ \A k, l \in 1 .. Len(slots) : AssignedColumn(k) = AssignedColumn(l) => k = l
    BY <2>3, <2>6, <2>7 DEF OwnColumns, AssignedColumn
  <2> QED
    BY <2>3, <2>5, <2>7
<1> QED
  BY <1>1, CompilationInvariant, PTL

(* Replacements, lookups and removals address one entity by its identity. *)
THEOREM IdentityAddressed == Spec => []AddressesIdentity
<1>1. SInv => AddressesIdentity
  BY DEF SInv
<1> QED
  BY <1>1, CompilationInvariant, PTL

=============================================================================
