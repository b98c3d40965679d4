--------------------------- MODULE PgQueryCompiler ---------------------------
(***************************************************************************)
(* PgQueryCompiler (compiler.rs): portable conditions, sorting and paging   *)
(* compiled to an SQL fragment with numbered placeholders and the bindings *)
(* they stand for.  The fragment is kept as tokens, so that PostgreSQL's    *)
(* precedence, its three-valued logic and its typing decide what it means. *)
(*                                                                         *)
(* write_condition calls itself: a step is a call of it, an iteration of    *)
(* its loop or its return, and "calls" is the stack of its open calls.      *)
(*                                                                         *)
(* A value is abstracted to its scalar family and its rank in that family; *)
(* ranks survive to_string and the cast back, which are exact, and the      *)
(* ::numeric of a column, which is exact for integer and numeric columns:   *)
(* PostgreSQL rounds real and double precision, which are not considered.   *)
(***************************************************************************)
EXTENDS PgBindValue, Integers, Sequences, SequencesExt

CONSTANTS
  Columns,      \* PgFieldMap: logical field |-> PgScalarKind
  Conditions,   \* the conditions considered, with the members of their groups
  Requests,     \* the FindParams considered
  MaxI64        \* the largest BIGINT

SqlNull == -1
Absent == [family |-> "Absent"]   \* a predicate without a value
NoLimit == -1
NoCondition == [operator |-> "none"]

NullTests == {"is_null", "is_not_null"}
SetTests == {"in", "not_in"}
Comparisons == {"eq", "ne", "gt", "gte", "lt", "lte", "like"}
IsGroup(c) == c.operator \in {"AND", "OR"}

Scalars ==
  {v \in [family : ScalarFamilies \ {"List"}, rank : Nat \cup {SqlNull}] :
     v.family = "Null" <=> v.rank = SqlNull}
Lists == [family : {"List"}, items : Seq(Scalars)]
PredicateShape ==
  [operator : NullTests \cup SetTests \cup Comparisons, field : STRING,
   value : {Absent} \cup Scalars \cup Lists]
GroupShape == [operator : {"AND", "OR"}, conditions : Seq(Conditions)]
RequestShape ==
  [condition : Conditions \cup {NoCondition},
   sort : Seq([field : STRING, direction : {"asc", "desc"}]),
   limit : Nat \cup {NoLimit}, offset : Nat]

ASSUME ColumnsAssumption == \A field \in DOMAIN Columns : Columns[field] \in ScalarKinds
ASSUME ConditionsAssumption == Conditions \subseteq PredicateShape \cup GroupShape
ASSUME RequestsAssumption == Requests \subseteq RequestShape
ASSUME BigIntAssumption == MaxI64 \in Nat

VARIABLES
  params,      \* the FindParams of the calls
  operation,   \* the compilation that runs: "find", "count" or "none"
  calling,     \* the condition write_condition is called with next
  calls,       \* its open calls: the group, and how many members it has called
  output,      \* CompilerOutput: the tokens and bindings written so far
  compiled     \* what compile_find and compile_count made of params

vars == <<params, operation, calling, calls, output, compiled>>

Operations == {"find", "count"}

-----------------------------------------------------------------------------
(* Expressions, placeholders and bindings. *)

(* Mutant: no COLLATE clause. *)
ColumnExpressionPlain(field) ==
  [field |-> field, kind |-> Columns[field], collate_c |-> FALSE]

(* column_expression: text is compared bytewise, numbers as numeric (see    *)
(* above for which columns that changes no value).                         *)
ColumnExpression(field) ==
  [field |-> field, kind |-> Columns[field], collate_c |-> Columns[field] = "Text"]

(* What normalize_binding takes for a column, and what it binds. *)
Fits(kind, value) == NormalizeBinding(kind, value.family) # Unfit
Binding(kind, value) ==
  [type |-> DeclaredType(kind, NormalizeBinding(kind, value.family)), rank |-> value.rank]

-----------------------------------------------------------------------------
(* Writing a predicate. *)

EmptyOutput == [sql |-> << >>, bindings |-> << >>]
Push(token) == output' = [output EXCEPT !.sql = Append(@, [token |-> token])]

Test(field, operator, placeholders) ==
  [token |-> "test", operator |-> operator, expression |-> ColumnExpression(field),
   params |-> placeholders]
Placeholder(field, number) == [number |-> number, cast |-> PlaceholderCast(Columns[field])]
Bindings(field, values) == [i \in DOMAIN values |-> Binding(Columns[field], values[i])]

(* Mutant: the placeholders of every test start at $1. *)
WriteTestRestarts(field, operator, values) ==
  output' =
    [sql |-> Append(output.sql,
                    Test(field, operator, [i \in DOMAIN values |-> Placeholder(field, i)])),
     bindings |-> output.bindings \o Bindings(field, values)]

(* One test on a column, and its values pushed as the next bindings. *)
WriteTest(field, operator, values) ==
  LET n == Len(output.bindings) IN
  output' =
    [sql |-> Append(output.sql,
                    Test(field, operator, [i \in DOMAIN values |-> Placeholder(field, n + i)])),
     bindings |-> output.bindings \o Bindings(field, values)]

(* The values a predicate binds. *)
Operands(c) ==
  CASE c.operator \in NullTests -> << >>
    [] c.operator \in SetTests -> c.value.items
    [] c.operator \in Comparisons -> <<c.value>>

(* Mutant: LIKE is not kept to text columns. *)
AcceptsLikesAny(c) ==
  /\ c.field \in DOMAIN Columns
  /\ c.operator \in SetTests => c.value.family = "List"
  /\ \A i \in DOMAIN Operands(c) : Fits(Columns[c.field], Operands(c)[i])

(* What resolve, write_predicate and normalize_binding let pass. *)
Accepts(c) ==
  /\ c.field \in DOMAIN Columns
  /\ c.operator = "like" => Columns[c.field] = "Text"
  /\ c.operator \in SetTests => c.value.family = "List"
  /\ \A i \in DOMAIN Operands(c) : Fits(Columns[c.field], Operands(c)[i])

IsEmptySet(c) == c.operator \in SetTests /\ Operands(c) = << >>

WritePredicate(c) ==
  \/ IsEmptySet(c) /\ c.operator = "in" /\ Push("FALSE")
  \/ IsEmptySet(c) /\ c.operator = "not_in" /\ WriteTest(c.field, "is_not_null", << >>)
  \/ ~IsEmptySet(c) /\ WriteTest(c.field, c.operator, Operands(c))

-----------------------------------------------------------------------------
(* The calls of write_condition. *)

Pending == [status |-> "pending"]
Refused == [status |-> "refused"]

Return(result) ==
  /\ compiled' = [compiled EXCEPT ![operation] = result]
  /\ operation' = "none" /\ calling' = NoCondition /\ calls' = << >> /\ output' = EmptyOutput
  /\ UNCHANGED params

(* A predicate: its column is resolved and its test written. *)
CallPredicate ==
  /\ calling # NoCondition /\ ~IsGroup(calling)
  /\ IF Accepts(calling)
     THEN WritePredicate(calling) /\ calling' = NoCondition
          /\ UNCHANGED <<params, operation, calls, compiled>>
     ELSE Return(Refused)

(* A group: validate (external) has refused one of nothing, which is told   *)
(* here when it is reached.                                                *)
CallGroup ==
  /\ calling # NoCondition /\ IsGroup(calling)
  /\ IF calling.conditions # << >>
     THEN /\ Push("(")
          /\ calls' = Append(calls, [group |-> calling, called |-> 0])
          /\ calling' = NoCondition
          /\ UNCHANGED <<params, operation, compiled>>
     ELSE Return(Refused)

Open == calling = NoCondition /\ calls # << >>
Innermost == Last(calls)

(* An iteration of the loop of the innermost call. *)
CallMember ==
  /\ Open /\ Innermost.called < Len(Innermost.group.conditions)
  /\ IF Innermost.called > 0 THEN Push(Innermost.group.operator) ELSE UNCHANGED output
  /\ calling' = Innermost.group.conditions[Innermost.called + 1]
  /\ calls' = [calls EXCEPT ![Len(calls)].called = @ + 1]
  /\ UNCHANGED <<params, operation, compiled>>

LeaveGroup ==
  /\ Open /\ Innermost.called = Len(Innermost.group.conditions)
  /\ Push(")")
  /\ calls' = Front(calls)
  /\ UNCHANGED <<params, operation, calling, compiled>>

-----------------------------------------------------------------------------
(* compile_find and compile_count. *)

(* Mutant: nulls are left where PostgreSQL puts them. *)
OrderByDefaultNulls(sort) ==
  [i \in DOMAIN sort |->
     [expression |-> ColumnExpression(sort[i].field),
      descending |-> sort[i].direction = "desc",
      nulls_first |-> sort[i].direction = "desc"]]

OrderBy(sort) ==
  [i \in DOMAIN sort |->
     [expression |-> ColumnExpression(sort[i].field),
      descending |-> sort[i].direction = "desc",
      nulls_first |-> sort[i].direction = "asc"]]

BigInt(n) == [type |-> "int8", rank |-> n]

(* Mutant: an offset of zero is bound although its clause is left out. *)
PageBindingsZero(p) ==
  (IF p.limit = NoLimit THEN << >> ELSE <<BigInt(p.limit)>>) \o <<BigInt(p.offset)>>

(* Mutant: the offset is bound before the limit. *)
PageBindingsSwapped(p) ==
  (IF p.offset = 0 THEN << >> ELSE <<BigInt(p.offset)>>)
  \o (IF p.limit = NoLimit THEN << >> ELSE <<BigInt(p.limit)>>)

(* LIMIT comes before OFFSET, in the text and among the bindings. *)
PageBindings(p) ==
  (IF p.limit = NoLimit THEN << >> ELSE <<BigInt(p.limit)>>)
  \o (IF p.offset = 0 THEN << >> ELSE <<BigInt(p.offset)>>)

(* What is left of compile_find once the condition is written. *)
FindFragment ==
  LET n == Len(output.bindings)
      m == IF params.limit = NoLimit THEN n ELSE n + 1
  IN  IF \/ \E i \in DOMAIN params.sort : params.sort[i].field \notin DOMAIN Columns
         \/ params.limit > MaxI64 \/ params.offset > MaxI64
      THEN Refused
      ELSE [status |-> "ok", where |-> output.sql, order_by |-> OrderBy(params.sort),
            limit |-> (IF params.limit = NoLimit THEN 0 ELSE n + 1),
            offset |-> (IF params.offset = 0 THEN 0 ELSE m + 1),
            bindings |-> output.bindings \o PageBindings(params)]

CountFragment == [status |-> "ok", where |-> output.sql, bindings |-> output.bindings]

Init ==
  /\ params \in Requests
  /\ operation = "none" /\ calling = NoCondition /\ calls = << >> /\ output = EmptyOutput
  /\ compiled = [o \in Operations |-> Pending]

Compile(o) ==
  /\ operation = "none" /\ compiled[o] = Pending
  /\ operation' = o /\ calling' = params.condition
  /\ UNCHANGED <<params, calls, output, compiled>>

(* The condition, if there is one, has been written. *)
FinishFind ==
  /\ operation = "find" /\ calling = NoCondition /\ calls = << >>
  /\ Return(FindFragment)

FinishCount ==
  /\ operation = "count" /\ calling = NoCondition /\ calls = << >>
  /\ Return(CountFragment)

Next ==
  \/ \E o \in Operations : Compile(o)
  \/ CallPredicate \/ CallGroup \/ CallMember \/ LeaveGroup
  \/ FinishFind \/ FinishCount

Spec == Init /\ [][Next]_vars

-----------------------------------------------------------------------------
Ok(o) == compiled[o].status = "ok"
Fragment(o) == compiled[o]

SqlTypes == {SqlType(kind) : kind \in ScalarKinds}
Expressions == [field : DOMAIN Columns, kind : ScalarKinds, collate_c : BOOLEAN]
Tests ==
  [token : {"test"}, operator : NullTests \cup SetTests \cup Comparisons,
   expression : Expressions,
   params : Seq([number : Nat \ {0}, cast : SqlTypes \cup {NoCast}])]
Tokens == [token : {"(", ")", "AND", "OR", "FALSE"}] \cup Tests
Values == [type : SqlTypes, rank : Nat]
Keys == [expression : Expressions, descending : BOOLEAN, nulls_first : BOOLEAN]

IsFragment(f) == f.where \in Seq(Tokens) /\ f.bindings \in Seq(Values \cup [type : {"int8"}, rank : 0 .. MaxI64])

(* Type correctness: open calls are calls with groups of something, what is *)
(* bound is never null, and BIGINTs are bound only where a page has slots.  *)
TypeOK ==
  /\ params \in RequestShape
  /\ operation \in Operations \cup {"none"}
  /\ calling \in Conditions \cup {NoCondition}
  /\ calls \in Seq([group : {c \in Conditions : IsGroup(c)}, called : Nat])
  /\ \A k \in DOMAIN calls : calls[k].called <= Len(calls[k].group.conditions)
  /\ output \in [sql : Seq(Tokens), bindings : Seq(Values)]
  /\ DOMAIN compiled = Operations
  /\ \A o \in Operations : compiled[o] \in {Pending, Refused} \/ (Ok(o) /\ IsFragment(Fragment(o)))
  /\ Ok("find") =>
       LET f == Fragment("find") IN
       /\ f.order_by \in Seq(Keys)
       /\ {f.limit, f.offset} \subseteq 0 .. Len(f.bindings)
       /\ \A i \in DOMAIN f.bindings : f.bindings[i].type = "int8" <=> i \in {f.limit, f.offset}

(* The placeholders of a text, read from left to right, are $1 to $n. *)
Params(token) == IF token.token \in {"test", "page"} THEN token.params ELSE << >>
Numbered(text, n) ==
  /\ \A i \in DOMAIN text : \A k \in DOMAIN Params(text[i]) : Params(text[i])[k].number \in 1 .. n
  /\ \A b \in 1 .. n : \E i \in DOMAIN text : \E k \in DOMAIN Params(text[i]) : Params(text[i])[k].number = b
  /\ \A i, j \in DOMAIN text : \A k \in DOMAIN Params(text[i]), l \in DOMAIN Params(text[j]) :
       i < j \/ (i = j /\ k < l) => Params(text[i])[k].number < Params(text[j])[l].number

Page(slot) == IF slot = 0 THEN << >> ELSE <<[token |-> "page", params |-> <<[number |-> slot]>>]>>

(* The placeholders of a fragment, read from left to right, are $1, $2, ... *)
(* and number its bindings: none is skipped, repeated or left over.        *)
PlaceholdersInOrder ==
  /\ Ok("find") =>
       LET f == Fragment("find") IN
       Numbered(f.where \o Page(f.limit) \o Page(f.offset), Len(f.bindings))
  /\ Ok("count") => Numbered(Fragment("count").where, Len(Fragment("count").bindings))

=============================================================================
