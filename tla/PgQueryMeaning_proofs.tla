----------------------- MODULE PgQueryMeaning_proofs -----------------------
(***************************************************************************)
(* Proofs about PgQueryCompiler and PgQueryMeaning, for any columns, any    *)
(* conditions however deep, and any rows.                                  *)
(***************************************************************************)
EXTENDS PgQueryMeaning, SequenceTheorems, FiniteSetTheorems, TLAPS

-----------------------------------------------------------------------------
(* Values and predicates. *)

(* A value that a column takes is not null, and whatever it is bound by its *)
(* placeholder has the column's type once it is cast.                      *)
LEMMA FittingValues ==
  ASSUME NEW kind \in ScalarKinds, NEW family, NormalizeBinding(kind, family) # Unfit
  PROVE  /\ family \in {"Bool", "I64", "U64", "F64", "String", "Bytes"}
         /\ DeclaredType(kind, NormalizeBinding(kind, family)) \in SqlTypes
         /\ PlaceholderCast(kind) \in SqlTypes \cup {NoCast}
         /\ SqlType(kind) = IF PlaceholderCast(kind) = NoCast
                            THEN DeclaredType(kind, NormalizeBinding(kind, family))
                            ELSE PlaceholderCast(kind)
<1>1. /\ family \in {"Bool", "I64", "U64", "F64", "String", "Bytes"}
      /\ \/ kind \in {"Bool", "Bytes"} /\ NormalizeBinding(kind, family) = kind
         \/ kind = "Numeric" /\ NormalizeBinding(kind, family) = "Numeric"
         \/ kind \in Typed \cup {"Text"} /\ NormalizeBinding(kind, family) = "Text"
  BY DEF NormalizeBinding, NumberFamilies, Typed
<1>2. SqlType(kind) \in SqlTypes /\ SqlType("Text") \in SqlTypes /\ SqlType("Text") = "text"
  BY DEF SqlTypes, ScalarKinds, SqlType
<1>3. SqlType(kind) # NoCast
  BY DEF SqlType, NoCast, ScalarKinds, Typed
<1>4. CASE kind \in {"Bool", "Bytes"} /\ NormalizeBinding(kind, family) = kind
  BY <1>1, <1>2, <1>4 DEF DeclaredType, PlaceholderCast
<1>5. CASE kind = "Numeric" /\ NormalizeBinding(kind, family) = "Numeric"
  BY <1>1, <1>2, <1>3, <1>5 DEF DeclaredType, PlaceholderCast
<1>6. CASE kind \in Typed \cup {"Text"} /\ NormalizeBinding(kind, family) = "Text"
  BY <1>1, <1>2, <1>3, <1>6 DEF DeclaredType, PlaceholderCast, Typed
<1> QED
  BY <1>1, <1>4, <1>5, <1>6

LEMMA PredicatesShaped ==
  ASSUME NEW c \in Conditions
  PROVE  /\ IsGroup(c) => c \in GroupShape
         /\ ~IsGroup(c) => c \in PredicateShape
BY ConditionsAssumption DEF IsGroup, PredicateShape, GroupShape, NullTests, SetTests, Comparisons

(* What a compiled predicate binds: values the column takes, none null. *)
LEMMA OperandsFit ==
  ASSUME NEW c \in Conditions, ~IsGroup(c), Accepts(c)
  PROVE  /\ Columns[c.field] \in ScalarKinds
         /\ Operands(c) \in Seq(Scalars)
         /\ \A i \in DOMAIN Operands(c) :
              Fits(Columns[c.field], Operands(c)[i]) /\ Operands(c)[i].rank \in Nat
<1>1. c \in PredicateShape
  BY PredicatesShaped
<1>2. Columns[c.field] \in ScalarKinds
  BY ColumnsAssumption DEF Accepts
<1>3. Operands(c) \in Seq(Scalars)
  <2>1. CASE c.operator \in NullTests
    <3>1. Operands(c) = << >>
      BY <2>1 DEF Operands, NullTests, SetTests, Comparisons
    <3> QED
      BY <3>1
  <2>2. CASE c.operator \in SetTests
    <3>1. Operands(c) = c.value.items /\ c.value.family = "List"
      BY <2>2 DEF Operands, Accepts, NullTests, SetTests, Comparisons
    <3>2. c.value \in Lists
      BY <1>1, <3>1 DEF PredicateShape, Absent, Scalars, ScalarFamilies, NumberFamilies
    <3> QED
      BY <3>1, <3>2 DEF Lists
  <2>3. CASE c.operator \in Comparisons
    <3>1. Operands(c) = <<c.value>>
      BY <2>3 DEF Operands, NullTests, SetTests, Comparisons
    <3>2. NormalizeBinding(Columns[c.field], c.value.family) # Unfit
      BY <3>1 DEF Accepts, Fits
    <3>3. c.value.family \notin {"Absent", "List"}
      BY <1>2, <3>2, FittingValues
    <3>4. c.value \in Scalars
      BY <1>1, <3>3 DEF PredicateShape, Absent, Lists
    <3> QED
      BY <3>1, <3>4
  <2> QED
    BY <1>1, <2>1, <2>2, <2>3 DEF PredicateShape
<1>4. ASSUME NEW i \in DOMAIN Operands(c)
      PROVE  Fits(Columns[c.field], Operands(c)[i]) /\ Operands(c)[i].rank \in Nat
  <2>1. Fits(Columns[c.field], Operands(c)[i]) /\ Operands(c)[i] \in Scalars
    BY <1>3 DEF Accepts
  <2>2. Operands(c)[i].family # "Null"
    BY <1>2, <2>1, FittingValues DEF Fits
  <2> QED
    BY <2>1, <2>2 DEF Scalars
<1> QED
  BY <1>2, <1>3, <1>4

(* A compiler that takes a predicate and a portable meaning that gives it   *)
(* an answer are the same predicates.                                      *)
LEMMA AcceptsAnswerable ==
  ASSUME NEW c \in Conditions, ~IsGroup(c)
  PROVE  Accepts(c) <=> c \in Answerable
<1>1. c \in PredicateShape
  BY PredicatesShaped
<1>2. ASSUME NEW kind \in ScalarKinds, NEW value
      PROVE  Fits(kind, value) <=> Comparable(kind, value)
  BY DEF Fits, NormalizeBinding, Comparable, Unfit, NumberFamilies, ScalarKinds, Typed
<1>3. c.field \in DOMAIN Columns => Columns[c.field] \in ScalarKinds
  BY ColumnsAssumption
<1>4. c \in Answerable <=> PredicateIsAnswerable(c)
  BY AnswerableAssumption
<1>5. CASE c.operator \in NullTests
  <2>1. Operands(c) = << >> /\ c.operator \notin SetTests \cup Comparisons
    BY <1>5 DEF Operands, NullTests, SetTests, Comparisons
  <2> QED
    BY <2>1, <1>4 DEF Accepts, PredicateIsAnswerable, Comparisons
<1>6. CASE c.operator \in SetTests
  <2>1. Operands(c) = c.value.items /\ c.operator \notin Comparisons /\ c.operator # "like"
    BY <1>6 DEF Operands, NullTests, SetTests, Comparisons
  <2> QED
    BY <2>1, <1>2, <1>3, <1>4, <1>6 DEF Accepts, PredicateIsAnswerable
<1>7. CASE c.operator \in Comparisons
  <2>1. Operands(c) = <<c.value>> /\ c.operator \notin SetTests
    BY <1>7 DEF Operands, NullTests, SetTests, Comparisons
  <2>2. DOMAIN Operands(c) = {1} /\ Operands(c)[1] = c.value
    BY <2>1
  <2> QED
    BY <2>1, <2>2, <1>2, <1>3, <1>4, <1>7 DEF Accepts, PredicateIsAnswerable
<1> QED
  BY <1>1, <1>5, <1>6, <1>7 DEF PredicateShape

-----------------------------------------------------------------------------
(* What a test means. *)

(* A test of a predicate is true of the rows the predicate matches,         *)
(* wherever among the bindings its values stand.                           *)
LEMMA TestMeaning ==
  ASSUME NEW c \in Conditions, ~IsGroup(c), Accepts(c), NEW n \in Nat, NEW bindings,
         \A i \in DOMAIN Operands(c) : bindings[n + i].rank = Operands(c)[i].rank,
         NEW test, test = Test(c.field, c.operator,
                               [i \in DOMAIN Operands(c) |-> Placeholder(c.field, n + i)]),
         NEW row \in Rows
  PROVE  EvalTest(test, bindings, row) = True3 <=> PredicateMatches(c, row)
<1> DEFINE value == row[c.field]
           ranks == {Operands(c)[i].rank : i \in DOMAIN Operands(c)}
<1>1. c \in PredicateShape /\ c.field \in DOMAIN Columns
  BY PredicatesShaped DEF Accepts
<1>2. value \in Nat \cup {SqlNull}
  BY <1>1, RowsAssumption
<1>3. /\ test.expression.field = c.field /\ test.operator = c.operator
      /\ \A rank : Collated(test.expression, rank) = rank
  BY DEF Test, ColumnExpression, Collated
<1>4. {bindings[test.params[i].number].rank : i \in DOMAIN test.params} = ranks
  BY DEF Test, Placeholder
<1>5. ranks \subseteq Nat /\ SqlNull \notin ranks /\ ranks \ {SqlNull} = ranks
  BY OperandsFit DEF SqlNull
<1> HIDE DEF ranks
<1>6. CASE c.operator = "is_null"
  <2>1. EvalTest(test, bindings, row) = Truth(value = SqlNull)
    BY <1>3, <1>6 DEF EvalTest, NullTests
  <2>2. PredicateMatches(c, row) <=> value = SqlNull
    BY <1>6 DEF PredicateMatches, SetTests, Comparisons
  <2> QED
    BY <2>1, <2>2 DEF Truth, True3, False3
<1>7. CASE c.operator = "is_not_null"
  <2>1. EvalTest(test, bindings, row) = Truth(value # SqlNull)
    BY <1>3, <1>7 DEF EvalTest, NullTests
  <2>2. PredicateMatches(c, row) <=> value # SqlNull
    BY <1>7 DEF PredicateMatches, SetTests, Comparisons
  <2> QED
    BY <2>1, <2>2 DEF Truth, True3, False3
<1>8. CASE c.operator \in SetTests
  <2>1. ranks = {c.value.items[i].rank : i \in DOMAIN c.value.items}
    BY <1>8 DEF ranks, Operands, NullTests, SetTests, Comparisons
  <2>2. PredicateMatches(c, row) <=> value # SqlNull /\ ((c.operator = "in") <=> value \in ranks)
    BY <1>8, <2>1 DEF PredicateMatches, SetTests, Comparisons
  <2>3. EvalTest(test, bindings, row) =
          IF value = SqlNull THEN Unknown3
          ELSE IF c.operator = "in"
               THEN IF value \in ranks THEN True3 ELSE False3
               ELSE 0 - (IF value \in ranks THEN True3 ELSE False3)
    BY <1>3, <1>4, <1>5, <1>8 DEF EvalTest, NullTests, SetTests
  <2> QED
    BY <1>8, <2>2, <2>3 DEF True3, False3, Unknown3, SetTests
<1>9. CASE c.operator \in Comparisons
  <2>1. ranks = {c.value.rank}
    <3>1. Operands(c) = <<c.value>>
      BY <1>9 DEF Operands, NullTests, SetTests, Comparisons
    <3> QED
      BY <3>1 DEF ranks
  <2>2. PredicateMatches(c, row) <=> value # SqlNull /\ Compare(c.operator, value, c.value.rank)
    BY <1>9 DEF PredicateMatches, SetTests, Comparisons
  <2>3. EvalTest(test, bindings, row) =
          IF value = SqlNull THEN Unknown3
          ELSE Truth(\A operand \in ranks : Compare(c.operator, Collated(test.expression, value),
                                                     Collated(test.expression, operand)))
    BY <1>3, <1>4, <1>5, <1>9 DEF EvalTest, NullTests, Comparisons
  <2>4. (\A operand \in ranks : Compare(c.operator, Collated(test.expression, value),
                                        Collated(test.expression, operand)))
          <=> Compare(c.operator, value, c.value.rank)
    BY <1>3, <2>1
  <2> QED
    BY <2>2, <2>3, <2>4 DEF Truth, True3, False3, Unknown3
<1> QED
  BY <1>1, <1>6, <1>7, <1>8, <1>9 DEF PredicateShape, NullTests

-----------------------------------------------------------------------------
(* What a step of the compiler writes. *)

(* A token comes at the end of the text, and its placeholders number the    *)
(* values that come at the end of the bindings, each of its column's type. *)
Appends(token, values) ==
  /\ output' = [sql |-> Append(output.sql, token), bindings |-> output.bindings \o values]
  /\ DOMAIN Params(token) = 1 .. Len(values)
  /\ \A k \in 1 .. Len(values) : Params(token)[k].number = Len(output.bindings) + k
  /\ token.token = "test" =>
       \A k \in 1 .. Len(values) :
         SqlType(token.expression.kind) =
           (IF token.params[k].cast = NoCast THEN values[k].type ELSE token.params[k].cast)

OutputShape == [sql : Seq(Tokens), bindings : Seq(Values)]

(* Punctuation binds nothing. *)
LEMMA PushAppends ==
  ASSUME output \in OutputShape, NEW mark \in {"(", ")", "AND", "OR", "FALSE"}, Push(mark)
  PROVE  /\ Appends([token |-> mark], << >>)
         /\ [token |-> mark] \in Tokens /\ << >> \in Seq(Values)
<1> DEFINE token == [token |-> mark]
<1>1. output' = [sql |-> Append(output.sql, token), bindings |-> output.bindings \o << >>]
  <2>1. output.bindings \o << >> = output.bindings
    BY DEF OutputShape
  <2>2. output' = [sql |-> Append(output.sql, token), bindings |-> output.bindings]
    BY DEF Push, OutputShape
  <2> QED
    BY <2>1, <2>2
<1>2. Params(token) = << >> /\ token.token # "test"
  BY DEF Params
<1>3. token \in Tokens
  BY DEF Tokens
<1> QED
  BY <1>1, <1>2, <1>3 DEF Appends

(* A test on a mapped column of values that fit it. *)
LEMMA TestAppends ==
  ASSUME output \in OutputShape, NEW field \in DOMAIN Columns,
         NEW operator \in NullTests \cup SetTests \cup Comparisons,
         NEW values \in Seq(Scalars),
         \A i \in DOMAIN values : Fits(Columns[field], values[i]) /\ values[i].rank \in Nat,
         WriteTest(field, operator, values)
  PROVE  LET n == Len(output.bindings)
             token == Test(field, operator, [i \in DOMAIN values |-> Placeholder(field, n + i)])
         IN  /\ Appends(token, Bindings(field, values))
             /\ token \in Tokens /\ Bindings(field, values) \in Seq(Values)
<1> DEFINE n == Len(output.bindings)
           kind == Columns[field]
           params_ == [i \in DOMAIN values |-> Placeholder(field, n + i)]
           token == Test(field, operator, params_)
           bound == Bindings(field, values)
<1>1. kind \in ScalarKinds /\ n \in Nat /\ DOMAIN values = 1 .. Len(values) /\ Len(values) \in Nat
  BY ColumnsAssumption DEF OutputShape
<1>2. ASSUME NEW i \in 1 .. Len(values)
      PROVE  /\ bound[i] \in Values
             /\ Placeholder(field, n + i) \in [number : Nat \ {0}, cast : SqlTypes \cup {NoCast}]
             /\ SqlType(kind) = IF PlaceholderCast(kind) = NoCast
                                THEN bound[i].type ELSE PlaceholderCast(kind)
  <2>1. NormalizeBinding(kind, values[i].family) # Unfit /\ values[i].rank \in Nat
    BY <1>1 DEF Fits
  <2>2. bound[i] = [type |-> DeclaredType(kind, NormalizeBinding(kind, values[i].family)),
                    rank |-> values[i].rank]
    BY <1>1 DEF Bindings, Binding
  <2> QED
    BY <1>1, <2>1, <2>2, FittingValues DEF Values, Placeholder
<1>3. bound \in Seq(Values) /\ Len(bound) = Len(values)
  BY <1>1, <1>2 DEF Bindings
<1>4. /\ params_ \in Seq([number : Nat \ {0}, cast : SqlTypes \cup {NoCast}])
      /\ DOMAIN params_ = 1 .. Len(bound)
      /\ \A k \in 1 .. Len(bound) :
           params_[k].number = n + k /\ params_[k].cast = PlaceholderCast(kind)
  BY <1>1, <1>2, <1>3 DEF Placeholder
<1>5. token = [token |-> "test", operator |-> operator,
               expression |-> [field |-> field, kind |-> kind, collate_c |-> kind = "Text"],
               params |-> params_]
  BY DEF Test, ColumnExpression
<1> HIDE DEF token, bound, params_
<1>6. token \in Tests
  BY <1>1, <1>4, <1>5 DEF Tests, Expressions
<1>7. Params(token) = params_ /\ token.params = params_ /\ token.expression.kind = kind
  BY <1>5 DEF Params
<1>8. \A k \in 1 .. Len(bound) :
        /\ Params(token)[k].number = n + k
        /\ SqlType(token.expression.kind) =
             (IF token.params[k].cast = NoCast THEN bound[k].type ELSE token.params[k].cast)
  BY <1>2, <1>3, <1>4, <1>7
<1>9. output' = [sql |-> Append(output.sql, token), bindings |-> output.bindings \o bound]
  BY DEF WriteTest, token, bound, params_
<1> QED
  BY <1>3, <1>4, <1>6, <1>7, <1>8, <1>9 DEF Appends, Tokens, token, bound, params_

(* The token of a compiled predicate is true of the rows it matches. *)
LEMMA PredicateAppends ==
  ASSUME output \in OutputShape, NEW c \in Conditions, ~IsGroup(c), Accepts(c), WritePredicate(c)
  PROVE  \E token \in Tokens, values \in Seq(Values) :
           /\ Appends(token, values)
           /\ token.token \in {"test", "FALSE"}
           /\ TrueOn(token, output'.bindings) = {r \in Rows : PredicateMatches(c, r)}
<1>1. c \in PredicateShape /\ c.field \in DOMAIN Columns
  BY PredicatesShaped DEF Accepts
<1>2. CASE IsEmptySet(c) /\ c.operator = "in" /\ Push("FALSE")
  <2>1. \A r \in Rows : ~PredicateMatches(c, r)
    <3>1. Operands(c) = c.value.items /\ Operands(c) = << >>
      BY <1>2 DEF IsEmptySet, Operands, NullTests, SetTests, Comparisons
    <3> QED
      BY <1>2, <3>1 DEF PredicateMatches, SetTests, Comparisons
  <2>2. TrueOn([token |-> "FALSE"], output'.bindings) = {}
    BY DEF TrueOn
  <2> QED
    BY <1>2, <2>1, <2>2, PushAppends
<1>3. CASE IsEmptySet(c) /\ c.operator = "not_in" /\ WriteTest(c.field, "is_not_null", << >>)
  <2> DEFINE token == Test(c.field, "is_not_null", << >>)
  <2>1. /\ [i \in DOMAIN << >> |-> Placeholder(c.field, Len(output.bindings) + i)] = << >>
        /\ << >> \in Seq(Scalars) /\ DOMAIN << >> = {}
        /\ "is_not_null" \in NullTests
    BY DEF NullTests
  <2>2. Appends(token, Bindings(c.field, << >>)) /\ token \in Tokens
        /\ Bindings(c.field, << >>) \in Seq(Values)
    BY <1>1, <1>3, <2>1, TestAppends
  <2>3. \A r \in Rows : PredicateMatches(c, r) <=> r[c.field] # SqlNull
    <3>1. Operands(c) = c.value.items /\ Operands(c) = << >>
      BY <1>3 DEF IsEmptySet, Operands, NullTests, SetTests, Comparisons
    <3> QED
      BY <1>3, <3>1 DEF PredicateMatches, SetTests, Comparisons
  <2>4. token.token = "test" /\ token.operator = "is_not_null" /\ token.expression.field = c.field
    BY DEF Test, ColumnExpression
  <2>5. \A r \in Rows : EvalTest(token, output'.bindings, r) = Truth(r[c.field] # SqlNull)
    BY <2>4 DEF EvalTest, NullTests
  <2>6. TrueOn(token, output'.bindings) = {r \in Rows : PredicateMatches(c, r)}
    BY <2>3, <2>4, <2>5 DEF TrueOn, Truth, True3, False3
  <2> QED
    BY <2>2, <2>4, <2>6
<1>4. CASE ~IsEmptySet(c) /\ WriteTest(c.field, c.operator, Operands(c))
  <2> DEFINE n == Len(output.bindings)
             bound == Bindings(c.field, Operands(c))
             token == Test(c.field, c.operator,
                           [i \in DOMAIN Operands(c) |-> Placeholder(c.field, n + i)])
  <2>1. Appends(token, bound) /\ token \in Tokens /\ bound \in Seq(Values)
    BY <1>1, <1>4, OperandsFit, TestAppends DEF PredicateShape
  <2>2. token.token = "test"
    BY DEF Test
  <2>3. \A i \in DOMAIN Operands(c) : output'.bindings[n + i].rank = Operands(c)[i].rank
    <3>1. output'.bindings = output.bindings \o bound /\ output.bindings \in Seq(Values)
      BY <2>1 DEF Appends, OutputShape
    <3>2. ASSUME NEW i \in DOMAIN Operands(c)
          PROVE  i \in 1 .. Len(bound) /\ bound[i].rank = Operands(c)[i].rank
      <4>1. DOMAIN bound = DOMAIN Operands(c) /\ bound[i].rank = Operands(c)[i].rank
        BY DEF Bindings, Binding
      <4> QED
        BY <2>1, <4>1
    <3> HIDE DEF bound
    <3> QED
      BY <2>1, <3>1, <3>2
  <2>4. n \in Nat
    BY DEF OutputShape
  <2>5. \A r \in Rows : EvalTest(token, output'.bindings, r) = True3 <=> PredicateMatches(c, r)
    <3> HIDE DEF n
    <3>1. SUFFICES ASSUME NEW r \in Rows
                   PROVE  EvalTest(token, output'.bindings, r) = True3 <=> PredicateMatches(c, r)
      OBVIOUS
    <3> QED
      BY <2>3, <2>4, TestMeaning
  <2>6. TrueOn(token, output'.bindings) = {r \in Rows : PredicateMatches(c, r)}
    BY <2>2, <2>5 DEF TrueOn
  <2> HIDE DEF token, bound
  <2> QED
    BY <2>1, <2>2, <2>6
<1> QED
  BY <1>2, <1>3, <1>4 DEF WritePredicate

(* Only what a result is returned for is compiled by it. *)
LEMMA ReturnStep ==
  ASSUME DOMAIN compiled = Operations, NEW result, Return(result)
  PROVE  /\ DOMAIN compiled' = Operations
         /\ \A o \in Operations : compiled'[o] = IF o = operation THEN result ELSE compiled[o]
         /\ params' = params /\ operation' = "none" /\ calling' = NoCondition
         /\ calls' = << >> /\ output' = EmptyOutput
BY DEF Return

-----------------------------------------------------------------------------
(* Type correctness. *)

CallsShape == Seq([group : {c \in Conditions : IsGroup(c)}, called : Nat])

(* The innermost call, and the others. *)
LEMMA LastAndFront ==
  ASSUME NEW S, NEW s \in Seq(S), s # << >>
  PROVE  /\ Len(s) \in Nat \ {0} /\ Len(s) \in DOMAIN s
         /\ Last(s) = s[Len(s)] /\ s[Len(s)] \in S
         /\ Front(s) \in Seq(S) /\ Len(Front(s)) = Len(s) - 1
         /\ \A k \in 1 .. Len(s) - 1 : Front(s)[k] = s[k]
<1>1. Len(s) \in Nat \ {0} /\ Len(s) \in DOMAIN s /\ s[Len(s)] \in S
  OBVIOUS
<1>2. Last(s) = s[Len(s)]
  BY DEF Last
<1>3. /\ Front(s) \in Seq(S) /\ Len(Front(s)) = Len(s) - 1
      /\ \A k \in 1 .. Len(s) - 1 : Front(s)[k] = s[k]
  <2>1. Front(s) = [i \in 1 .. Len(s) - 1 |-> s[i]]
    BY <1>1 DEF Front
  <2>2. \A i \in 1 .. Len(s) - 1 : s[i] \in S
    BY <1>1
  <2> QED
    BY <1>1, <2>1, <2>2
<1> QED
  BY <1>1, <1>2, <1>3

(* The members of a group are conditions. *)
LEMMA MembersAreConditions ==
  ASSUME NEW c \in Conditions, IsGroup(c)
  PROVE  c.conditions \in Seq(Conditions) /\ c.operator \in {"AND", "OR"}
BY PredicatesShaped DEF GroupShape

LEMMA OpenCalls ==
  ASSUME calls \in CallsShape, calls # << >>
  PROVE  LET n == Len(calls) IN
         /\ n \in Nat \ {0} /\ n \in DOMAIN calls /\ Innermost = calls[n]
         /\ calls[n] \in [group : {c \in Conditions : IsGroup(c)}, called : Nat]
         /\ calls[n].called \in Nat /\ calls[n].group \in Conditions /\ IsGroup(calls[n].group)
         /\ calls[n].group.conditions \in Seq(Conditions)
         /\ calls[n].group.operator \in {"AND", "OR"}
         /\ Len(Front(calls)) = n - 1 /\ DOMAIN Front(calls) = 1 .. n - 1
         /\ \A k \in 1 .. n - 1 : Front(calls)[k] = calls[k]
<1> DEFINE S == [group : {c \in Conditions : IsGroup(c)}, called : Nat]
<1>1. calls \in Seq(S)
  BY DEF CallsShape
<1> HIDE DEF S
<1>2. /\ Len(calls) \in Nat \ {0} /\ Len(calls) \in DOMAIN calls
      /\ Last(calls) = calls[Len(calls)] /\ calls[Len(calls)] \in S
      /\ Front(calls) \in Seq(S) /\ Len(Front(calls)) = Len(calls) - 1
      /\ \A k \in 1 .. Len(calls) - 1 : Front(calls)[k] = calls[k]
  BY <1>1, LastAndFront
<1>3. DOMAIN Front(calls) = 1 .. Len(calls) - 1
  BY <1>2
<1>4. /\ calls[Len(calls)] \in [group : {c \in Conditions : IsGroup(c)}, called : Nat]
      /\ calls[Len(calls)].called \in Nat /\ calls[Len(calls)].group \in Conditions
      /\ IsGroup(calls[Len(calls)].group)
  BY <1>2 DEF S
<1>5. /\ calls[Len(calls)].group.conditions \in Seq(Conditions)
      /\ calls[Len(calls)].group.operator \in {"AND", "OR"}
  BY <1>4, MembersAreConditions
<1> QED
  BY <1>2, <1>3, <1>4, <1>5 DEF Innermost

(* NoCondition is not among the conditions: they have operators. *)
LEMMA NoConditionIsNone == NoCondition \notin Conditions
<1>1. SUFFICES ASSUME NoCondition \in Conditions PROVE FALSE
  OBVIOUS
<1>2. ~IsGroup(NoCondition) /\ NoCondition.operator = "none"
  BY DEF NoCondition, IsGroup
<1>3. NoCondition \in PredicateShape
  BY <1>1, <1>2, PredicatesShaped
<1> QED
  BY <1>2, <1>3 DEF PredicateShape, NullTests, SetTests, Comparisons

(* A limit and an offset after the bindings of the condition. *)
LEMMA TwoMore ==
  ASSUME NEW S, NEW s \in Seq(S), NEW a \in S, NEW b \in S
  PROVE  LET t == s \o (<<a>> \o <<b>>)
         IN  /\ t \in Seq(S) /\ Len(t) = Len(s) + 2
             /\ \A i \in 1 .. Len(s) : t[i] = s[i]
             /\ t[Len(s) + 1] = a /\ t[Len(s) + 2] = b
<1> DEFINE u == <<a>> \o <<b>>
<1>1. u \in Seq(S) /\ Len(u) = 2 /\ u[1] = a /\ u[2] = b
  OBVIOUS
<1> HIDE DEF u
<1> QED
  BY <1>1

(* What compile_find returns is a fragment, with BIGINTs in its page only. *)
LEMMA FindFragmentTyped ==
  ASSUME params \in RequestShape, output \in OutputShape, FindFragment # Refused
  PROVE  /\ FindFragment.status = "ok"
         /\ IsFragment(FindFragment)
         /\ FindFragment.order_by \in Seq(Keys)
         /\ {FindFragment.limit, FindFragment.offset} \subseteq 0 .. Len(FindFragment.bindings)
         /\ \A i \in DOMAIN FindFragment.bindings :
              FindFragment.bindings[i].type = "int8" <=> i \in {FindFragment.limit, FindFragment.offset}
<1> DEFINE n == Len(output.bindings)
           m == IF params.limit = NoLimit THEN n ELSE n + 1
           limit == IF params.limit = NoLimit THEN 0 ELSE n + 1
           offset == IF params.offset = 0 THEN 0 ELSE m + 1
           page == PageBindings(params)
           bound == output.bindings \o page
<1>1. /\ \A i \in DOMAIN params.sort : params.sort[i].field \in DOMAIN Columns
      /\ ~(params.limit > MaxI64) /\ ~(params.offset > MaxI64)
      /\ FindFragment = [status |-> "ok", where |-> output.sql, order_by |-> OrderBy(params.sort),
                         limit |-> limit, offset |-> offset, bindings |-> bound]
  BY DEF FindFragment
<1>2. /\ n \in Nat /\ output.bindings \in Seq(Values) /\ output.sql \in Seq(Tokens)
      /\ params.limit \in Nat \cup {-1} /\ params.offset \in Nat
      /\ params.sort \in Seq([field : STRING, direction : {"asc", "desc"}])
  BY DEF OutputShape, RequestShape, NoLimit
<1>3. OrderBy(params.sort) \in Seq(Keys)
  <2>1. ASSUME NEW i \in 1 .. Len(params.sort)
        PROVE  OrderBy(params.sort)[i] \in Keys
    <3>1. params.sort[i].field \in DOMAIN Columns /\ Columns[params.sort[i].field] \in ScalarKinds
      BY <1>1, <1>2, ColumnsAssumption
    <3>2. ColumnExpression(params.sort[i].field) \in Expressions
      BY <3>1 DEF ColumnExpression, Expressions
    <3> QED
      BY <1>2, <3>2 DEF OrderBy, Keys
  <2>2. DOMAIN OrderBy(params.sort) = 1 .. Len(params.sort) /\ Len(params.sort) \in Nat
    BY <1>2 DEF OrderBy
  <2> DEFINE key(i) == [expression |-> ColumnExpression(params.sort[i].field),
                        descending |-> params.sort[i].direction = "desc",
                        nulls_first |-> params.sort[i].direction = "asc"]
  <2>3. OrderBy(params.sort) = [i \in 1 .. Len(params.sort) |-> key(i)]
    BY <1>2 DEF OrderBy
  <2> HIDE DEF key
  <2>4. OrderBy(params.sort) \in [1 .. Len(params.sort) -> Keys]
    BY <2>1, <2>3
  <2> QED
    BY <2>2, <2>4
<1>4. "int8" \notin SqlTypes
  BY DEF SqlTypes, SqlType, ScalarKinds, Typed
<1>5. \A i \in 1 .. n : output.bindings[i] \in Values /\ output.bindings[i].type # "int8"
  <2>1. ASSUME NEW i \in 1 .. n
        PROVE  output.bindings[i] \in Values /\ output.bindings[i].type # "int8"
    <3>1. output.bindings[i] \in Values
      BY <1>2
    <3> QED
      BY <1>4, <3>1 DEF Values
  <2> QED
    BY <2>1
<1>6. /\ bound \in Seq(Values \cup [type : {"int8"}, rank : 0 .. MaxI64])
      /\ {limit, offset} \subseteq 0 .. Len(bound)
      /\ \A i \in 1 .. Len(bound) : bound[i].type = "int8" <=> i \in {limit, offset}
  <2> DEFINE V == Values \cup [type : {"int8"}, rank : 0 .. MaxI64]
  <2>1. /\ params.limit # NoLimit => BigInt(params.limit) \in V /\ BigInt(params.limit).type = "int8"
        /\ BigInt(params.offset) \in V /\ BigInt(params.offset).type = "int8"
    BY <1>1, <1>2, BigIntAssumption DEF BigInt, NoLimit
  <2>2. output.bindings \in Seq(V)
    BY <1>2
  <2> HIDE DEF V
  <2>3. CASE params.limit = NoLimit /\ params.offset = 0
    <3>1. bound = output.bindings
      BY <1>2, <2>3 DEF PageBindings
    <3> QED
      BY <1>2, <1>5, <2>2, <2>3, <3>1 DEF V
  <2>4. CASE params.limit # NoLimit /\ params.offset = 0
    <3>1. bound = Append(output.bindings, BigInt(params.limit))
      BY <1>2, <2>4 DEF PageBindings
    <3> QED
      BY <1>2, <1>5, <2>1, <2>2, <2>4, <3>1 DEF V
  <2>5. CASE params.limit = NoLimit /\ params.offset # 0
    <3>1. bound = Append(output.bindings, BigInt(params.offset))
      BY <1>2, <2>5 DEF PageBindings
    <3> QED
      BY <1>2, <1>5, <2>1, <2>2, <2>5, <3>1 DEF V
  <2>6. CASE params.limit # NoLimit /\ params.offset # 0
    <3>1. bound = output.bindings \o (<<BigInt(params.limit)>> \o <<BigInt(params.offset)>>)
      BY <2>6 DEF PageBindings
    <3>2. /\ bound \in Seq(V) /\ Len(bound) = n + 2
          /\ \A i \in 1 .. n : bound[i] = output.bindings[i]
          /\ bound[n + 1] = BigInt(params.limit) /\ bound[n + 2] = BigInt(params.offset)
      BY <2>1, <2>2, <2>6, <3>1, TwoMore
    <3> HIDE DEF bound
    <3>3. ASSUME NEW i \in 1 .. n + 2
          PROVE  bound[i].type = "int8" <=> i \in {n + 1, n + 2}
      BY <1>2, <1>5, <2>1, <2>6, <3>2
    <3>4. limit = n + 1 /\ offset = n + 2
      BY <2>6
    <3> QED
      BY <1>2, <3>2, <3>3, <3>4 DEF V
  <2> QED
    BY <2>3, <2>4, <2>5, <2>6
<1> HIDE DEF bound, limit, offset
<1> QED
  BY <1>1, <1>2, <1>3, <1>6 DEF IsFragment

(* The part of TypeOK about what has been compiled. *)
CompiledTyped ==
  /\ DOMAIN compiled = Operations
  /\ \A o \in Operations : compiled[o] \in {Pending, Refused} \/ (Ok(o) /\ IsFragment(Fragment(o)))
  /\ Ok("find") =>
       LET f == Fragment("find") IN
       /\ f.order_by \in Seq(Keys)
       /\ {f.limit, f.offset} \subseteq 0 .. Len(f.bindings)
       /\ \A i \in DOMAIN f.bindings : f.bindings[i].type = "int8" <=> i \in {f.limit, f.offset}

LEMMA RefusedTyped ==
  ASSUME CompiledTyped, Return(Refused)
  PROVE  CompiledTyped'
<1>1. /\ DOMAIN compiled' = Operations
      /\ \A o \in Operations : compiled'[o] = Refused \/ compiled'[o] = compiled[o]
  BY ReturnStep DEF CompiledTyped
<1>2. Refused.status # "ok" /\ "find" \in Operations
  BY DEF Refused, Operations
<1>3. Ok("find")' => Ok("find") /\ Fragment("find")' = Fragment("find")
  BY <1>1, <1>2 DEF Ok, Fragment
<1>4. ASSUME NEW o \in Operations
      PROVE  (compiled[o] \in {Pending, Refused} \/ (Ok(o) /\ IsFragment(Fragment(o))))'
  BY <1>1 DEF CompiledTyped, Ok, Fragment
<1> QED
  BY <1>1, <1>3, <1>4 DEF CompiledTyped

(* A token that is appended keeps the output typed. *)
LEMMA AppendsTyped ==
  ASSUME output \in OutputShape, NEW token \in Tokens, NEW values \in Seq(Values),
         Appends(token, values)
  PROVE  output' \in OutputShape
BY DEF Appends, OutputShape

LEMMA TypeStep ==
  ASSUME TypeOK, [Next]_vars
  PROVE  TypeOK'
<1> USE DEF CallsShape
<1>1. /\ params \in RequestShape /\ operation \in Operations \cup {"none"}
      /\ calling \in Conditions \cup {NoCondition} /\ calls \in CallsShape
      /\ \A k \in DOMAIN calls : calls[k].called <= Len(calls[k].group.conditions)
      /\ output \in OutputShape /\ CompiledTyped
  BY DEF TypeOK, CompiledTyped, OutputShape
<1>2. TypeOK' <=>
        /\ params' \in RequestShape /\ operation' \in Operations \cup {"none"}
        /\ calling' \in Conditions \cup {NoCondition} /\ calls' \in CallsShape
        /\ \A k \in DOMAIN calls' : calls'[k].called <= Len(calls'[k].group.conditions)
        /\ output' \in OutputShape /\ CompiledTyped'
  BY DEF TypeOK, CompiledTyped, OutputShape
<1>3. UNCHANGED compiled => CompiledTyped'
  BY <1>1 DEF CompiledTyped, Ok, Fragment
<1>4. ASSUME NEW result, Return(result), CompiledTyped' PROVE TypeOK'
  <2>1. EmptyOutput \in OutputShape
    BY DEF EmptyOutput, OutputShape
  <2> QED
    <3>1. /\ params' = params /\ operation' = "none" /\ calling' = NoCondition
          /\ calls' = << >> /\ output' = EmptyOutput
      BY <1>4 DEF Return
    <3>2. << >> \in CallsShape /\ DOMAIN << >> = {}
      OBVIOUS
    <3> QED
      BY <1>1, <1>2, <1>4, <2>1, <3>1, <3>2
<1>5. ASSUME Return(Refused) PROVE TypeOK'
  BY <1>1, <1>4, <1>5, RefusedTyped
<1>6. CASE \E o \in Operations : Compile(o)
  BY <1>1, <1>2, <1>3, <1>6 DEF Compile, RequestShape
<1>7. CASE CallPredicate
  <2>1. CASE Accepts(calling)
    <3>1. calling \in Conditions /\ ~IsGroup(calling) /\ WritePredicate(calling)
      BY <1>1, <1>7, <2>1 DEF CallPredicate
    <3>2. output' \in OutputShape
      BY <1>1, <2>1, <3>1, PredicateAppends, AppendsTyped
    <3> QED
      BY <1>1, <1>2, <1>3, <1>7, <2>1, <3>2 DEF CallPredicate
  <2>2. CASE ~Accepts(calling)
    BY <1>5, <1>7, <2>2 DEF CallPredicate
  <2> QED
    BY <2>1, <2>2
<1>8. CASE CallGroup
  <2>1. CASE calling.conditions # << >>
    <3>1. calling \in Conditions /\ IsGroup(calling) /\ Push("(")
      BY <1>1, <1>8, <2>1 DEF CallGroup
    <3>2. output' \in OutputShape
      BY <1>1, <3>1, PushAppends, AppendsTyped
    <3>3. calls' = Append(calls, [group |-> calling, called |-> 0])
      BY <1>8, <2>1 DEF CallGroup
    <3>4. calling.conditions \in Seq(Conditions)
      BY <3>1, MembersAreConditions
    <3>5. /\ calls' \in CallsShape
          /\ \A k \in DOMAIN calls' : calls'[k].called <= Len(calls'[k].group.conditions)
      BY <1>1, <3>1, <3>3, <3>4
    <3> QED
      BY <1>1, <1>2, <1>3, <1>8, <2>1, <3>2, <3>5 DEF CallGroup
  <2>2. CASE calling.conditions = << >>
    BY <1>5, <1>8, <2>2 DEF CallGroup
  <2> QED
    BY <2>1, <2>2
<1>9. CASE CallMember
  <2> DEFINE n == Len(calls)
             inner == calls[n]
  <2>1. /\ n \in Nat /\ n \in DOMAIN calls /\ Innermost = inner
        /\ inner.called \in Nat /\ inner.group \in {c \in Conditions : IsGroup(c)}
    BY <1>1, <1>9, OpenCalls DEF CallMember, Open
  <2>2. inner.group.conditions \in Seq(Conditions) /\ inner.group.operator \in {"AND", "OR"}
    BY <2>1, MembersAreConditions
  <2>3. calling' \in Conditions /\ inner.called + 1 <= Len(inner.group.conditions)
    BY <1>9, <2>1, <2>2 DEF CallMember
  <2>4. calls' = [calls EXCEPT ![n].called = @ + 1]
    BY <1>9 DEF CallMember
  <2>5. /\ calls' \in CallsShape
        /\ \A k \in DOMAIN calls' : calls'[k].called <= Len(calls'[k].group.conditions)
    <3>1. inner \in [group : {c \in Conditions : IsGroup(c)}, called : Nat]
      BY <1>1, <1>9, OpenCalls DEF CallMember, Open
    <3> QED
      BY <1>1, <2>1, <2>3, <2>4, <3>1
  <2>6. output' \in OutputShape
    <3>1. CASE inner.called > 0
      BY <1>1, <1>9, <2>1, <2>2, <3>1, PushAppends, AppendsTyped DEF CallMember
    <3>2. CASE ~(inner.called > 0)
      BY <1>1, <1>9, <2>1, <3>2 DEF CallMember
    <3> QED
      BY <3>1, <3>2
  <2> QED
    BY <1>1, <1>2, <1>3, <1>9, <2>3, <2>5, <2>6 DEF CallMember
<1>10. CASE LeaveGroup
  <2>1. /\ calls' \in CallsShape
        /\ \A k \in DOMAIN calls' : calls'[k].called <= Len(calls'[k].group.conditions)
    <3>1. calls # << >> /\ calls' = Front(calls)
      BY <1>10 DEF LeaveGroup, Open
    <3>2. /\ calls' \in CallsShape /\ DOMAIN calls' = 1 .. Len(calls) - 1
          /\ \A k \in DOMAIN calls' : k \in DOMAIN calls /\ calls'[k] = calls[k]
      BY <1>1, <3>1, LastAndFront
    <3> QED
      BY <1>1, <3>2
  <2>2. output' \in OutputShape
    BY <1>1, <1>10, PushAppends, AppendsTyped DEF LeaveGroup
  <2> QED
    BY <1>1, <1>2, <1>3, <1>10, <2>1, <2>2 DEF LeaveGroup
<1>11. CASE FinishFind
  <2>1. CASE FindFragment = Refused
    BY <1>5, <1>11, <2>1 DEF FinishFind
  <2>2. CASE FindFragment # Refused
    <3>1. /\ DOMAIN compiled' = Operations /\ compiled'["find"] = FindFragment
          /\ \A o \in Operations : o # "find" => compiled'[o] = compiled[o]
      BY <1>1, <1>11, ReturnStep DEF FinishFind, CompiledTyped, Operations
    <3>2. CompiledTyped'
      <4>1. \A o \in Operations \ {"find"} :
              (compiled[o] \in {Pending, Refused} \/ (Ok(o) /\ IsFragment(Fragment(o))))'
        BY <1>1, <3>1 DEF CompiledTyped, Ok, Fragment
      <4>2. /\ Ok("find")' /\ IsFragment(Fragment("find"))'
            /\ Fragment("find")' = FindFragment
        BY <1>1, <2>2, <3>1, FindFragmentTyped DEF Ok, Fragment, IsFragment
      <4> QED
        BY <1>1, <2>2, <3>1, <4>1, <4>2, FindFragmentTyped DEF CompiledTyped
    <3> QED
      BY <1>4, <1>11, <3>2 DEF FinishFind
  <2> QED
    BY <2>1, <2>2
<1>12. CASE FinishCount
  <2>1. /\ DOMAIN compiled' = Operations /\ compiled'["count"] = CountFragment
        /\ \A o \in Operations : o # "count" => compiled'[o] = compiled[o]
    BY <1>1, <1>12, ReturnStep DEF FinishCount, CompiledTyped, Operations
  <2>2. CountFragment.status = "ok" /\ IsFragment(CountFragment)
    <3>1. /\ CountFragment.status = "ok" /\ CountFragment.where = output.sql
          /\ CountFragment.bindings = output.bindings
      BY DEF CountFragment
    <3>2. output.bindings \in Seq(Values \cup [type : {"int8"}, rank : 0 .. MaxI64])
      BY <1>1 DEF OutputShape
    <3> QED
      BY <1>1, <3>1, <3>2 DEF IsFragment, OutputShape
  <2>3. CompiledTyped'
    <3>1. \A o \in Operations \ {"count"} :
            (compiled[o] \in {Pending, Refused} \/ (Ok(o) /\ IsFragment(Fragment(o))))'
      BY <1>1, <2>1 DEF CompiledTyped, Ok, Fragment
    <3>2. Ok("count")' /\ IsFragment(Fragment("count"))'
      BY <2>1, <2>2 DEF Ok, Fragment, IsFragment
    <3>3. "find" \in Operations /\ compiled'["find"] = compiled["find"]
      BY <2>1 DEF Operations
    <3> QED
      BY <1>1, <2>1, <3>1, <3>2, <3>3 DEF CompiledTyped, Ok, Fragment
  <2> QED
    BY <1>4, <1>12, <2>3 DEF FinishCount
<1>13. CASE UNCHANGED vars
  BY <1>1, <1>2, <1>3, <1>13 DEF vars
<1> QED
  BY <1>6, <1>7, <1>8, <1>9, <1>10, <1>11, <1>12, <1>13 DEF Next

-----------------------------------------------------------------------------
(* The text written so far. *)

(* A token whose placeholders go on where the text stopped. *)
LEMMA NumberedAppend ==
  ASSUME NEW S, NEW text \in Seq(S), NEW n \in Nat, NEW m \in Nat, NEW token,
         Numbered(text, n), DOMAIN Params(token) = 1 .. m,
         \A k \in 1 .. m : Params(token)[k].number = n + k
  PROVE  Numbered(Append(text, token), n + m)
<1> DEFINE more == Append(text, token)
           last == Len(text) + 1
<1>1. /\ Len(text) \in Nat /\ DOMAIN text = 1 .. Len(text) /\ DOMAIN more = 1 .. last
      /\ \A i \in DOMAIN text : more[i] = text[i]
      /\ more[last] = token
  OBVIOUS
<1> HIDE DEF more
<1>2. ASSUME NEW i \in DOMAIN more, NEW k \in DOMAIN Params(more[i])
      PROVE  Params(more[i])[k].number \in 1 .. n + m
  <2>1. CASE i \in DOMAIN text
    BY <1>1, <2>1 DEF Numbered
  <2>2. CASE i = last
    BY <1>1, <2>2
  <2> QED
    BY <1>1, <2>1, <2>2
<1>3. ASSUME NEW b \in 1 .. n + m
      PROVE  \E i \in DOMAIN more : \E k \in DOMAIN Params(more[i]) : Params(more[i])[k].number = b
  <2>1. CASE b \in 1 .. n
    <3>1. PICK i \in DOMAIN text : \E k \in DOMAIN Params(text[i]) : Params(text[i])[k].number = b
      BY <2>1 DEF Numbered
    <3> QED
      BY <1>1, <3>1
  <2>2. CASE b \notin 1 .. n
    <3>1. b - n \in 1 .. m /\ n + (b - n) = b
      BY <2>2
    <3>2. b - n \in DOMAIN Params(more[last]) /\ Params(more[last])[b - n].number = b
      BY <1>1, <3>1
    <3>3. \E k \in DOMAIN Params(more[last]) : Params(more[last])[k].number = b
      BY <3>2
    <3>4. last \in DOMAIN more
      BY <1>1
    <3> QED
      BY <3>3, <3>4
  <2> QED
    BY <2>1, <2>2
<1>4. ASSUME NEW i \in DOMAIN more, NEW j \in DOMAIN more,
             NEW k \in DOMAIN Params(more[i]), NEW l \in DOMAIN Params(more[j]),
             i < j \/ (i = j /\ k < l)
      PROVE  Params(more[i])[k].number < Params(more[j])[l].number
  <2>1. CASE j \in DOMAIN text
    BY <1>1, <1>4, <2>1 DEF Numbered
  <2>2. CASE j = last /\ i \in DOMAIN text
    <3>1. Params(more[i])[k].number \in 1 .. n
      BY <1>1, <2>2 DEF Numbered
    <3>2. l \in 1 .. m /\ Params(more[j])[l].number = n + l
      BY <1>1, <2>2
    <3> QED
      BY <3>1, <3>2
  <2>3. CASE j = last /\ i = last
    <3>1. k \in 1 .. m /\ l \in 1 .. m /\ k < l
      BY <1>1, <1>4, <2>3
    <3>2. Params(more[i])[k].number = n + k /\ Params(more[j])[l].number = n + l
      BY <1>1, <2>3, <3>1
    <3> QED
      BY <3>1, <3>2
  <2> QED
    BY <1>1, <2>1, <2>2, <2>3
<1> QED
  BY <1>2, <1>3, <1>4 DEF Numbered, more

(* The output grows token by token, until it is handed over. *)
LEMMA OutputSteps ==
  ASSUME TypeOK, [Next]_vars
  PROVE  \/ output' = output
         \/ output' = EmptyOutput
         \/ \E token \in Tokens, values \in Seq(Values) : Appends(token, values)
<1>1. output \in OutputShape /\ calling \in Conditions \cup {NoCondition} /\ calls \in CallsShape
  BY DEF TypeOK, OutputShape, CallsShape
<1>2. ASSUME NEW result, Return(result) PROVE output' = EmptyOutput
  BY <1>2 DEF Return
<1>3. ASSUME NEW mark \in {"(", ")", "AND", "OR", "FALSE"}, Push(mark)
      PROVE  \E token \in Tokens, values \in Seq(Values) : Appends(token, values)
  BY <1>1, <1>3, PushAppends
<1>4. CASE \E o \in Operations : Compile(o)
  BY <1>4 DEF Compile
<1>5. CASE CallPredicate
  <2>1. CASE Accepts(calling)
    <3>1. calling \in Conditions /\ ~IsGroup(calling) /\ WritePredicate(calling)
      BY <1>1, <1>5, <2>1 DEF CallPredicate
    <3> QED
      BY <1>1, <2>1, <3>1, PredicateAppends
  <2> QED
    BY <1>2, <1>5, <2>1 DEF CallPredicate
<1>6. CASE CallGroup
  BY <1>2, <1>3, <1>6 DEF CallGroup
<1>7. CASE CallMember
  <2>1. Innermost.group.operator \in {"AND", "OR"}
    BY <1>1, <1>7, OpenCalls DEF CallMember, Open
  <2> QED
    BY <1>3, <1>7, <2>1 DEF CallMember
<1>8. CASE LeaveGroup
  BY <1>3, <1>8 DEF LeaveGroup
<1>9. CASE FinishFind \/ FinishCount
  BY <1>2, <1>9 DEF FinishFind, FinishCount
<1>10. CASE UNCHANGED vars
  BY <1>10 DEF vars
<1> QED
  BY <1>4, <1>5, <1>6, <1>7, <1>8, <1>9, <1>10 DEF Next

(* The placeholders written are $1 to the number of bindings, and each      *)
(* stands for a value of its column's type.                                *)
TextInv ==
  Numbered(output.sql, Len(output.bindings)) /\ WellTyped(output.sql, output.bindings)

LEMMA TextStep ==
  ASSUME TypeOK, TextInv, [Next]_vars
  PROVE  TextInv'
<1>1. output \in OutputShape
  BY DEF TypeOK, OutputShape
<1>2. CASE output' = output
  BY <1>2 DEF TextInv
<1>3. CASE output' = EmptyOutput
  <2>1. output'.sql = << >> /\ Len(output'.bindings) = 0 /\ DOMAIN output'.sql = {}
    BY <1>3 DEF EmptyOutput
  <2> QED
    BY <2>1 DEF TextInv, Numbered, WellTyped
<1>4. ASSUME NEW token \in Tokens, NEW values \in Seq(Values), Appends(token, values)
      PROVE  TextInv'
  <2> DEFINE n == Len(output.bindings)
             m == Len(values)
  <2>1. /\ n \in Nat /\ m \in Nat /\ output.sql \in Seq(Tokens) /\ output.bindings \in Seq(Values)
        /\ output'.sql = Append(output.sql, token) /\ output'.bindings = output.bindings \o values
        /\ Len(output'.bindings) = n + m
    BY <1>1, <1>4 DEF Appends, OutputShape
  <2>2. Numbered(output'.sql, Len(output'.bindings))
    BY <1>4, <2>1, NumberedAppend DEF Appends, TextInv
  <2>3. ASSUME NEW i \in DOMAIN output'.sql, output'.sql[i].token = "test",
               NEW k \in DOMAIN output'.sql[i].params
        PROVE  LET slot == output'.sql[i].params[k] IN
               SqlType(output'.sql[i].expression.kind) =
                 (IF slot.cast = NoCast THEN output'.bindings[slot.number].type ELSE slot.cast)
    <3>1. CASE i \in DOMAIN output.sql
      <4>1. output'.sql[i] = output.sql[i]
        BY <2>1, <3>1
      <4>2. output.sql[i].params[k].number \in 1 .. n
        BY <2>3, <3>1, <4>1 DEF TextInv, Numbered, Params
      <4>3. output'.bindings[output.sql[i].params[k].number]
              = output.bindings[output.sql[i].params[k].number]
        BY <2>1, <4>2
      <4> QED
        BY <2>3, <3>1, <4>1, <4>3 DEF TextInv, WellTyped
    <3>2. CASE i = Len(output.sql) + 1
      <4>1. output'.sql[i] = token /\ Params(token) = token.params /\ k \in 1 .. m
        BY <1>4, <2>1, <2>3, <3>2 DEF Appends, Params
      <4>2. /\ token.params[k].number = n + k
            /\ SqlType(token.expression.kind) =
                 (IF token.params[k].cast = NoCast THEN values[k].type ELSE token.params[k].cast)
        BY <1>4, <2>3, <4>1 DEF Appends
      <4>3. output'.bindings[n + k] = values[k]
        BY <2>1, <4>1
      <4> QED
        BY <4>1, <4>2, <4>3
    <3>3. i \in DOMAIN output.sql \/ i = Len(output.sql) + 1
      BY <2>1
    <3> QED
      BY <3>1, <3>2, <3>3
  <2> QED
    BY <2>2, <2>3 DEF TextInv, WellTyped
<1> QED
  BY <1>2, <1>3, <1>4, OutputSteps

-----------------------------------------------------------------------------
(* What is compiled. *)

(* A condition that is refused when it is reached. *)
Unanswered(c) ==
  c \in Conditions /\ IF IsGroup(c) THEN c.conditions = << >> ELSE ~Accepts(c)

LEMMA UnansweredAsksNothing ==
  ASSUME NEW c \in Conditions
  PROVE  /\ Unanswered(c) => c \notin Answerable
         /\ ~IsGroup(c) /\ ~Unanswered(c) => c \in Answerable
<1>1. CASE IsGroup(c)
  BY <1>1, AnswerableAssumption DEF Unanswered
<1>2. CASE ~IsGroup(c)
  BY <1>2, AcceptsAnswerable DEF Unanswered
<1> QED
  BY <1>1, <1>2

(* A compilation is refused where it is called with such a condition, or    *)
(* returns at its end.                                                     *)
LEMMA CompiledSteps ==
  ASSUME TypeOK, [Next]_vars
  PROVE  /\ params' = params
         /\ \A o \in Operations :
              \/ compiled'[o] = compiled[o]
              \/ o = operation /\ compiled'[o] = Refused /\ Unanswered(calling)
              \/ o = "find" /\ FinishFind /\ compiled'[o] = FindFragment
              \/ o = "count" /\ FinishCount /\ compiled'[o] = CountFragment
<1>1. DOMAIN compiled = Operations /\ calling \in Conditions \cup {NoCondition}
  BY DEF TypeOK
<1>2. CASE CallPredicate
  <2>1. CASE Accepts(calling)
    BY <1>2, <2>1 DEF CallPredicate
  <2>2. CASE ~Accepts(calling)
    BY <1>1, <1>2, <2>2, ReturnStep DEF CallPredicate, Unanswered
  <2> QED
    BY <2>1, <2>2
<1>3. CASE CallGroup
  <2>1. CASE calling.conditions # << >>
    BY <1>3, <2>1 DEF CallGroup
  <2>2. CASE calling.conditions = << >>
    BY <1>1, <1>3, <2>2, ReturnStep DEF CallGroup, Unanswered
  <2> QED
    BY <2>1, <2>2
<1>4. CASE FinishFind
  <2>1. operation = "find" /\ Return(FindFragment)
    BY <1>4 DEF FinishFind
  <2> QED
    BY <1>1, <1>4, <2>1, ReturnStep
<1>5. CASE FinishCount
  <2>1. operation = "count" /\ Return(CountFragment)
    BY <1>5 DEF FinishCount
  <2> QED
    BY <1>1, <1>5, <2>1, ReturnStep
<1>6. CASE (\E o \in Operations : Compile(o)) \/ CallMember \/ LeaveGroup \/ UNCHANGED vars
  BY <1>6 DEF Compile, CallMember, LeaveGroup, vars
<1> QED
  BY <1>2, <1>3, <1>4, <1>5, <1>6 DEF Next

(* A find that is compiled is one of its parameters: its keys are those of  *)
(* the sort, its slots hold the limit and the offset.                      *)
Slot(f, slot, bound, none) ==
  IF bound = none THEN slot = 0 ELSE slot \in DOMAIN f.bindings /\ f.bindings[slot] = BigInt(bound)

FindInv ==
  Ok("find") =>
    LET f == Fragment("find")
    IN  /\ \A i \in DOMAIN params.sort : params.sort[i].field \in DOMAIN Columns
        /\ params.limit <= MaxI64 /\ params.offset <= MaxI64
        /\ f.order_by = OrderBy(params.sort)
        /\ Slot(f, f.limit, params.limit, NoLimit) /\ Slot(f, f.offset, params.offset, 0)

(* A page clause takes the next number; without one the text stays. *)
LEMMA NumberedPage ==
  ASSUME NEW S, NEW text \in Seq(S), NEW n \in Nat, Numbered(text, n)
  PROVE  /\ text \o Page(0) = text
         /\ text \o Page(n + 1) \in Seq(S \cup {Page(n + 1)[1]})
         /\ Numbered(text \o Page(n + 1), n + 1)
<1> DEFINE token == [token |-> "page", params |-> <<[number |-> n + 1]>>]
           T == S \cup {token}
<1>1. Page(n + 1) = <<token>> /\ Page(n + 1)[1] = token /\ Page(0) = << >>
  BY DEF Page
<1>2. Params(token) = <<[number |-> n + 1]>>
  BY DEF Params
<1>3. DOMAIN Params(token) = 1 .. 1 /\ \A k \in 1 .. 1 : Params(token)[k].number = n + k
  BY <1>2
<1> HIDE DEF token
<1>4. text \in Seq(T) /\ token \in T
  OBVIOUS
<1> HIDE DEF T
<1>5. text \o <<token>> = Append(text, token) /\ Append(text, token) \in Seq(T)
  BY <1>4, AppendIsConcat
<1>6. Numbered(Append(text, token), n + 1)
  BY <1>3, NumberedAppend
<1> QED
  BY <1>1, <1>5, <1>6, ConcatEmptySeq DEF T

(* How many values are bound before the offset, and with it. *)
AfterLimit(p, n) == IF p.limit # NoLimit THEN n + 1 ELSE n
AfterOffset(p, n) == IF p.offset # 0 THEN AfterLimit(p, n) + 1 ELSE AfterLimit(p, n)

(* What compile_find binds: the limit, if there is one, then the offset. *)
LEMMA PageBound ==
  ASSUME NEW V, output.bindings \in Seq(V), BigInt(params.limit) \in V, BigInt(params.offset) \in V
  PROVE  LET bound == output.bindings \o PageBindings(params)
             n == Len(output.bindings) IN
         /\ bound \in Seq(V) /\ Len(bound) = AfterOffset(params, n)
         /\ \A i \in 1 .. n : bound[i] = output.bindings[i]
         /\ params.limit # NoLimit => bound[n + 1] = BigInt(params.limit)
         /\ params.offset # 0 => bound[AfterLimit(params, n) + 1] = BigInt(params.offset)
<1> DEFINE x == BigInt(params.limit)
           y == BigInt(params.offset)
           page == PageBindings(params)
           a == IF params.limit # NoLimit THEN 1 ELSE 0
           written == output.bindings
           bound == written \o page
<1> HIDE DEF x, y
<1>1. /\ page \in Seq(V) /\ Len(page) = (IF params.offset # 0 THEN a + 1 ELSE a)
      /\ params.limit # NoLimit => page[1] = x
      /\ params.offset # 0 => page[a + 1] = y
  <2>1. page = (IF params.limit # NoLimit THEN <<x>> ELSE << >>)
               \o (IF params.offset # 0 THEN <<y>> ELSE << >>)
    BY DEF PageBindings, x, y
  <2>2. x \in V /\ y \in V
    BY DEF x, y
  <2> HIDE DEF page
  <2>3. CASE params.limit = NoLimit /\ params.offset = 0
    BY <2>1, <2>2, <2>3
  <2>4. CASE params.limit = NoLimit /\ params.offset # 0
    BY <2>1, <2>2, <2>4
  <2>5. CASE params.limit # NoLimit /\ params.offset = 0
    BY <2>1, <2>2, <2>5
  <2>6. CASE params.limit # NoLimit /\ params.offset # 0
    <3>1. page = <<x>> \o <<y>>
      BY <2>1, <2>6
    <3> QED
      BY <2>2, <2>6, <3>1
  <2> QED
    BY <2>3, <2>4, <2>5, <2>6
<1>2. page \in Seq(V) /\ written \in Seq(V)
  BY <1>1
<1> HIDE DEF page, written
<1>3. /\ bound \in Seq(V) /\ Len(bound) = Len(written) + Len(page)
      /\ \A i \in 1 .. Len(written) : bound[i] = written[i]
      /\ \A i \in 1 .. Len(page) : bound[Len(written) + i] = page[i]
  BY <1>2
<1> HIDE DEF bound
<1>4. params.limit # NoLimit => bound[Len(written) + 1] = x
  <2>1. params.limit # NoLimit => 1 \in 1 .. Len(page)
    BY <1>1
  <2> QED
    BY <1>1, <1>3, <2>1
<1>5. params.offset # 0 => bound[Len(written) + (a + 1)] = y
  <2>1. params.offset # 0 => a + 1 \in 1 .. Len(page)
    BY <1>1
  <2> QED
    BY <1>1, <1>3, <2>1
<1>6. /\ AfterLimit(params, Len(written)) + 1 = Len(written) + (a + 1)
      /\ AfterOffset(params, Len(written)) = Len(written) + Len(page)
  BY <1>1, <1>2 DEF AfterLimit, AfterOffset
<1>7. /\ bound \in Seq(V) /\ Len(bound) = AfterOffset(params, Len(written))
      /\ \A i \in 1 .. Len(written) : bound[i] = written[i]
      /\ params.limit # NoLimit => bound[Len(written) + 1] = BigInt(params.limit)
      /\ params.offset # 0 => bound[AfterLimit(params, Len(written)) + 1] = BigInt(params.offset)
  BY <1>3, <1>4, <1>5, <1>6 DEF x, y
<1> QED
  BY <1>7 DEF bound, page, written

(* What compile_find adds to the text and to the bindings: a slot for each  *)
(* end of the page, after the bindings of the condition.                   *)
LEMMA FindFragmentPages ==
  ASSUME params \in RequestShape, output \in OutputShape, TextInv, FindFragment # Refused
  PROVE  LET f == FindFragment
         IN  /\ Numbered(f.where \o Page(f.limit) \o Page(f.offset), Len(f.bindings))
             /\ WellTyped(f.where, f.bindings)
             /\ f.where = output.sql /\ f.order_by = OrderBy(params.sort)
             /\ Slot(f, f.limit, params.limit, NoLimit) /\ Slot(f, f.offset, params.offset, 0)
<1> DEFINE n == Len(output.bindings)
           m == AfterLimit(params, n)
           limit == IF params.limit = NoLimit THEN 0 ELSE n + 1
           offset == IF params.offset = 0 THEN 0 ELSE m + 1
           V == Values \cup {BigInt(params.limit), BigInt(params.offset)}
           bound == output.bindings \o PageBindings(params)
           T == Tokens \cup {Page(n + 1)[1]}
           text == output.sql \o Page(limit)
<1>1. /\ FindFragment.where = output.sql /\ FindFragment.order_by = OrderBy(params.sort)
      /\ FindFragment.limit = limit /\ FindFragment.offset = offset /\ FindFragment.bindings = bound
  BY DEF FindFragment, AfterLimit
<1>2. /\ n \in Nat /\ output.bindings \in Seq(Values) /\ output.sql \in Seq(Tokens)
      /\ params.limit \in Nat \cup {-1} /\ params.offset \in Nat
  BY DEF OutputShape, RequestShape, NoLimit
<1>3. /\ bound \in Seq(V) /\ Len(bound) = AfterOffset(params, n)
      /\ \A i \in 1 .. n : bound[i] = output.bindings[i]
      /\ params.limit # NoLimit => bound[n + 1] = BigInt(params.limit)
      /\ params.offset # 0 => bound[m + 1] = BigInt(params.offset)
  <2>1. output.bindings \in Seq(V) /\ BigInt(params.limit) \in V /\ BigInt(params.offset) \in V
    BY <1>2
  <2> HIDE DEF V
  <2> QED
    BY <2>1, PageBound
<1>4. text \in Seq(T) /\ Numbered(text, m) /\ m \in Nat
  <2>1. CASE params.limit = NoLimit
    <3>1. text = output.sql
      BY <1>2, <2>1, NumberedPage DEF TextInv
    <3> HIDE DEF text
    <3> QED
      BY <1>2, <2>1, <3>1 DEF TextInv, AfterLimit
  <2>2. CASE params.limit # NoLimit
    <3>1. text = output.sql \o Page(n + 1) /\ m = n + 1
      BY <1>2, <2>2 DEF AfterLimit
    <3>2. text \in Seq(T) /\ Numbered(text, n + 1)
      BY <1>2, <3>1, NumberedPage DEF TextInv
    <3> QED
      BY <1>2, <3>1, <3>2
  <2> QED
    BY <2>1, <2>2
<1> HIDE DEF text, bound, T
<1>5. Numbered(text \o Page(offset), Len(bound))
  <2>1. CASE params.offset = 0
    BY <1>3, <1>4, <2>1, NumberedPage DEF AfterOffset
  <2>2. CASE params.offset # 0
    BY <1>3, <1>4, <2>2, NumberedPage DEF AfterOffset
  <2> QED
    BY <2>1, <2>2
<1>6. WellTyped(output.sql, bound)
  <2>1. ASSUME NEW i \in DOMAIN output.sql, output.sql[i].token = "test",
               NEW k \in DOMAIN output.sql[i].params
        PROVE  output.sql[i].params[k].number \in 1 .. n
    BY <2>1 DEF TextInv, Numbered, Params
  <2> QED
    BY <1>3, <2>1 DEF TextInv, WellTyped
<1>7. /\ Slot(FindFragment, limit, params.limit, NoLimit)
      /\ Slot(FindFragment, offset, params.offset, 0)
  <2>1. DOMAIN bound = 1 .. Len(bound)
    BY <1>3
  <2> QED
    BY <1>1, <1>2, <1>3, <2>1 DEF Slot, AfterLimit, AfterOffset
<1> QED
  BY <1>1, <1>5, <1>6, <1>7 DEF text

LEMMA FragmentStep ==
  ASSUME TypeOK, TextInv, PlaceholdersInOrder, FindInv, [Next]_vars
  PROVE  PlaceholdersInOrder' /\ FindInv'
<1>1. /\ params' = params /\ params \in RequestShape /\ output \in OutputShape
      /\ "find" \in Operations /\ "count" \in Operations
  BY CompiledSteps DEF TypeOK, OutputShape, Operations
<1>2. Refused.status # "ok"
  BY DEF Refused
<1>3. Ok("find")' =>
        /\ LET f == Fragment("find")' IN
           Numbered(f.where \o Page(f.limit) \o Page(f.offset), Len(f.bindings))
        /\ FindInv'
  <2>1. CASE compiled'["find"] = compiled["find"]
    BY <1>1, <2>1 DEF Ok, Fragment, PlaceholdersInOrder, FindInv
  <2>2. CASE compiled'["find"] = Refused
    BY <1>2, <2>2 DEF Ok
  <2>3. CASE compiled'["find"] = FindFragment /\ FindFragment # Refused
    <3>1. /\ \A i \in DOMAIN params.sort : params.sort[i].field \in DOMAIN Columns
          /\ params.limit <= MaxI64 /\ params.offset <= MaxI64
      <4>1. /\ \A i \in DOMAIN params.sort : params.sort[i].field \in DOMAIN Columns
            /\ ~(params.limit > MaxI64) /\ ~(params.offset > MaxI64)
        BY <2>3 DEF FindFragment
      <4> QED
        BY <1>1, <4>1, BigIntAssumption DEF RequestShape, NoLimit
    <3>2. LET f == Fragment("find")' IN
          /\ Numbered(f.where \o Page(f.limit) \o Page(f.offset), Len(f.bindings))
          /\ f.order_by = OrderBy(params.sort)
          /\ Slot(f, f.limit, params.limit, NoLimit) /\ Slot(f, f.offset, params.offset, 0)
      BY <1>1, <2>3, FindFragmentPages DEF Fragment
    <3> QED
      BY <1>1, <3>1, <3>2 DEF FindInv
  <2> QED
    BY <1>1, <2>1, <2>2, <2>3, CompiledSteps
<1>4. Ok("count")' => Numbered(Fragment("count")'.where, Len(Fragment("count")'.bindings))
  <2>1. CASE compiled'["count"] = compiled["count"]
    BY <2>1 DEF Ok, Fragment, PlaceholdersInOrder
  <2>2. CASE compiled'["count"] = Refused
    BY <1>2, <2>2 DEF Ok
  <2>3. CASE compiled'["count"] = CountFragment
    BY <2>3 DEF Fragment, CountFragment, TextInv
  <2> QED
    BY <1>1, <2>1, <2>2, <2>3, CompiledSteps
<1>5. ~Ok("find")' => FindInv'
  BY DEF FindInv
<1> QED
  BY <1>3, <1>4, <1>5 DEF PlaceholdersInOrder

-----------------------------------------------------------------------------
(* Where the compiler is in the condition. *)

(* The open calls of write_condition, counting compile_condition's call     *)
(* with the whole condition as the first.                                  *)
Whole(p) == [group |-> [operator |-> "AND", conditions |-> <<p.condition>>], called |-> 1]
Level(p, cs, d) == IF d = 1 THEN Whole(p) ELSE cs[d - 1]
Depth(cs) == Len(cs) + 1
Member(p, cs, d) == Level(p, cs, d).group.conditions[Level(p, cs, d).called]

(* The last member called at a level has not returned. *)
Busy(cs, c, d) == d < Depth(cs) \/ c # NoCondition

(* The open calls are a path from the condition down to the one called. *)
OnPath(p, cs, c) ==
  \A k \in DOMAIN cs :
    /\ cs[k].group.conditions # << >>
    /\ cs[k].group = Member(p, cs, k)
    /\ Busy(cs, c, k + 1) => cs[k].called > 0

PathInv ==
  /\ operation = "none" => calling = NoCondition /\ calls = << >> /\ output = EmptyOutput
  /\ operation # "none" => compiled[operation] = Pending
  /\ OnPath(params, calls, calling)
  /\ calling # NoCondition => calling = Member(params, calls, Depth(calls))
  /\ operation # "none" /\ output.sql = << >> => calls = << >> /\ calling = params.condition
  /\ params.condition = NoCondition => output.sql = << >> /\ calls = << >> /\ calling = NoCondition

(* Something is always written. *)
LEMMA AppendsSomething ==
  ASSUME output \in OutputShape, NEW token, NEW values, Appends(token, values)
  PROVE  output'.sql # << >> /\ Len(output'.sql) = Len(output.sql) + 1 /\ Last(output'.sql) = token
<1>1. output'.sql = Append(output.sql, token) /\ output.sql \in Seq(Tokens)
  BY DEF Appends, OutputShape
<1> QED
  BY <1>1 DEF Last

LEMMA PathStep ==
  ASSUME TypeOK, PathInv, [Next]_vars
  PROVE  PathInv'
<1>1. /\ output \in OutputShape /\ calls \in CallsShape /\ Len(calls) \in Nat
      /\ DOMAIN calls = 1 .. Len(calls)
      /\ calling \in Conditions \cup {NoCondition} /\ operation \in Operations \cup {"none"}
  BY DEF TypeOK, OutputShape, CallsShape
<1>2. "none" \notin Operations
  BY DEF Operations
<1>3. ASSUME NEW result, Return(result) PROVE PathInv'
  <2>1. /\ operation' = "none" /\ calling' = NoCondition /\ calls' = << >> /\ output' = EmptyOutput
    BY <1>3 DEF Return
  <2>2. output'.sql = << >> /\ DOMAIN calls' = {}
    BY <2>1 DEF EmptyOutput
  <2> QED
    BY <2>1, <2>2 DEF PathInv, OnPath
<1>4. ASSUME NEW mark \in {"(", ")", "AND", "OR", "FALSE"}, Push(mark)
      PROVE  output'.sql # << >>
  BY <1>1, <1>4, PushAppends, AppendsSomething
<1>5. CASE \E o \in Operations : Compile(o)
  <2>1. PICK o \in Operations : Compile(o)
    BY <1>5
  <2>2. /\ operation = "none" /\ compiled[o] = Pending /\ operation' = o /\ calling' = params.condition
        /\ params' = params /\ calls' = calls /\ output' = output /\ compiled' = compiled
    BY <2>1 DEF Compile
  <2>3. calls = << >> /\ output.sql = << >> /\ DOMAIN calls = {} /\ Depth(calls) = 1
    BY <2>2 DEF PathInv, EmptyOutput, Depth
  <2>4. Member(params, calls, 1) = params.condition
    BY DEF Member, Level, Whole
  <2> QED
    BY <1>2, <2>2, <2>3, <2>4 DEF PathInv, OnPath
<1>6. CASE CallPredicate
  <2>1. CASE Accepts(calling)
    <3>1. /\ calling \in Conditions /\ ~IsGroup(calling) /\ WritePredicate(calling)
          /\ calling # NoCondition /\ calling' = NoCondition
          /\ params' = params /\ operation' = operation /\ calls' = calls /\ compiled' = compiled
      BY <1>1, <1>6, <2>1 DEF CallPredicate
    <3>2. output'.sql # << >>
      BY <1>1, <2>1, <3>1, PredicateAppends, AppendsSomething
    <3>3. OnPath(params, calls, NoCondition)
      BY <3>1 DEF PathInv, OnPath, Busy
    <3> QED
      BY <3>1, <3>2, <3>3 DEF PathInv
  <2> QED
    BY <1>3, <1>6, <2>1 DEF CallPredicate
<1>7. CASE CallGroup
  <2>1. CASE calling.conditions # << >>
    <3>1. /\ calling # NoCondition /\ Push("(") /\ calling' = NoCondition
          /\ calls' = Append(calls, [group |-> calling, called |-> 0])
          /\ params' = params /\ operation' = operation /\ compiled' = compiled
      BY <1>7, <2>1 DEF CallGroup
    <3>2. /\ Len(calls') = Len(calls) + 1 /\ DOMAIN calls' = 1 .. Len(calls) + 1
          /\ \A k \in 1 .. Len(calls) : calls'[k] = calls[k]
          /\ calls'[Len(calls) + 1].group = calling
      BY <1>1, <3>1
    <3>3. ASSUME NEW d \in 1 .. Len(calls) + 1
          PROVE  Level(params, calls', d) = Level(params, calls, d)
      BY <1>1, <3>2 DEF Level
    <3>4. ASSUME NEW k \in DOMAIN calls'
          PROVE  /\ calls'[k].group.conditions # << >>
                 /\ calls'[k].group = Member(params, calls', k)
                 /\ Busy(calls', calling', k + 1) => calls'[k].called > 0
      <4>1. CASE k \in 1 .. Len(calls)
        <5>1. calls'[k] = calls[k] /\ Member(params, calls', k) = Member(params, calls, k)
          BY <1>1, <3>2, <3>3, <4>1 DEF Member
        <5>2. Busy(calls, calling, k + 1)
          BY <3>1 DEF Busy
        <5> QED
          BY <1>1, <4>1, <5>1, <5>2 DEF PathInv, OnPath
      <4>2. CASE k = Len(calls) + 1
        <5>1. calls'[k].group = calling /\ Member(params, calls', k) = Member(params, calls, Depth(calls))
          BY <1>1, <3>2, <3>3, <4>2 DEF Member, Depth
        <5>2. ~Busy(calls', calling', k + 1)
          BY <1>1, <3>1, <3>2, <4>2 DEF Busy, Depth
        <5> QED
          BY <2>1, <3>1, <5>1, <5>2 DEF PathInv
      <4> QED
        BY <3>2, <4>1, <4>2
    <3>5. OnPath(params, calls', calling')
      BY <3>4 DEF OnPath
    <3> QED
      BY <1>4, <3>1, <3>5 DEF PathInv
  <2> QED
    BY <1>3, <1>7, <2>1 DEF CallGroup
<1>8. CASE CallMember
  <2> DEFINE n == Len(calls)
  <2>1. /\ calls # << >> /\ n \in DOMAIN calls /\ Innermost = calls[n] /\ calling = NoCondition
        /\ calls[n].called \in Nat
        /\ calling' = calls[n].group.conditions[calls[n].called + 1]
        /\ calls' = [calls EXCEPT ![n].called = @ + 1]
        /\ params' = params /\ operation' = operation /\ compiled' = compiled
    <3>1. calls # << >> /\ Innermost = Last(calls) /\ calling = NoCondition
      BY <1>8 DEF CallMember, Open, Innermost
    <3>2. n \in DOMAIN calls /\ Innermost = calls[n] /\ calls[n].called \in Nat
      BY <1>1, <3>1, OpenCalls
    <3> QED
      BY <1>8, <3>1, <3>2 DEF CallMember
  <2>2. /\ Len(calls') = n /\ DOMAIN calls' = 1 .. n
        /\ \A k \in 1 .. n - 1 : calls'[k] = calls[k]
        /\ calls'[n].group = calls[n].group /\ calls'[n].called = calls[n].called + 1
    BY <1>1, <2>1 DEF CallsShape
  <2>3. ASSUME NEW d \in 1 .. n
        PROVE  Level(params, calls', d) = Level(params, calls, d)
    BY <1>1, <2>2 DEF Level
  <2>4. ASSUME NEW k \in DOMAIN calls'
        PROVE  /\ calls'[k].group.conditions # << >>
               /\ calls'[k].group = Member(params, calls', k)
               /\ Busy(calls', calling', k + 1) => calls'[k].called > 0
    <3>1. calls'[k].group = calls[k].group /\ Member(params, calls', k) = Member(params, calls, k)
      BY <1>1, <2>2, <2>3 DEF Member
    <3>2. CASE k = n
      BY <1>1, <2>1, <2>2, <3>1, <3>2 DEF PathInv, OnPath
    <3>3. CASE k # n
      <4>1. Busy(calls, calling, k + 1) /\ calls'[k] = calls[k]
        BY <1>1, <2>2, <3>3 DEF Busy, Depth
      <4> QED
        BY <1>1, <2>2, <3>1, <4>1 DEF PathInv, OnPath
    <3> QED
      BY <3>2, <3>3
  <2>5. calling' = Member(params, calls', Depth(calls'))
    <3>1. Level(params, calls', Depth(calls')) = calls'[n]
      BY <1>1, <2>1, <2>2 DEF Level, Depth
    <3> QED
      BY <2>1, <2>2, <3>1 DEF Member
  <2>6. operation # "none" => output'.sql # << >>
    <3>1. operation # "none" => output.sql # << >>
      BY <2>1 DEF PathInv
    <3>2. Innermost.group.operator \in {"AND", "OR"}
      BY <1>1, <2>1, OpenCalls
    <3> QED
      BY <1>4, <1>8, <3>1, <3>2 DEF CallMember
  <2>7. OnPath(params, calls', calling')
    BY <2>4 DEF OnPath
  <2>8. operation # "none" /\ params.condition # NoCondition
    BY <2>1 DEF PathInv
  <2> QED
    BY <2>1, <2>5, <2>6, <2>7, <2>8 DEF PathInv
<1>9. CASE LeaveGroup
  <2> DEFINE n == Len(calls)
  <2>1. /\ calls # << >> /\ calling = NoCondition /\ calls' = Front(calls) /\ Push(")")
        /\ params' = params /\ operation' = operation /\ compiled' = compiled /\ calling' = calling
    BY <1>9 DEF LeaveGroup, Open
  <2>2. /\ n \in Nat \ {0} /\ Len(calls') = n - 1 /\ DOMAIN calls' = 1 .. n - 1
        /\ \A k \in 1 .. n - 1 : calls'[k] = calls[k]
    BY <1>1, <2>1, OpenCalls
  <2>3. ASSUME NEW k \in DOMAIN calls'
        PROVE  /\ calls'[k].group.conditions # << >>
               /\ calls'[k].group = Member(params, calls', k)
               /\ Busy(calls', calling', k + 1) => calls'[k].called > 0
    <3>1. calls'[k] = calls[k] /\ Level(params, calls', k) = Level(params, calls, k)
      BY <1>1, <2>2 DEF Level
    <3>2. Busy(calls, calling, k + 1) /\ k \in DOMAIN calls
      BY <1>1, <2>2 DEF Busy, Depth
    <3> QED
      BY <3>1, <3>2 DEF PathInv, OnPath, Member
  <2>4. OnPath(params, calls', calling')
    BY <2>3 DEF OnPath
  <2> QED
    BY <1>4, <2>1, <2>4 DEF PathInv
<1>10. CASE FinishFind \/ FinishCount
  BY <1>3, <1>10 DEF FinishFind, FinishCount
<1>11. CASE UNCHANGED vars
  BY <1>11 DEF vars, PathInv, OnPath
<1> QED
  BY <1>5, <1>6, <1>7, <1>8, <1>9, <1>10, <1>11 DEF Next

-----------------------------------------------------------------------------
(* What is asked. *)

(* The members that are still to be called have answers. *)
RestAsks(cs) ==
  \A k \in DOMAIN cs : \A i \in cs[k].called + 1 .. Len(cs[k].group.conditions) :
    cs[k].group.conditions[i] \in Answerable

(* What is open or still to be called decides whether the whole has an      *)
(* answer.                                                                 *)
AskInv ==
  operation # "none" =>
    /\ Asks(params.condition) => Asks(calling) /\ \A k \in DOMAIN calls : calls[k].group \in Answerable
    /\ Asks(calling) /\ RestAsks(calls) => Asks(params.condition)

LEMMA GroupAnswers ==
  ASSUME NEW c \in Conditions, IsGroup(c)
  PROVE  c \in Answerable <=>
           c.conditions # << >> /\ \A i \in DOMAIN c.conditions : c.conditions[i] \in Answerable
BY AnswerableAssumption

LEMMA AskStep ==
  ASSUME TypeOK, PathInv, AskInv, [Next]_vars
  PROVE  AskInv'
<1>1. /\ calls \in CallsShape /\ Len(calls) \in Nat /\ DOMAIN calls = 1 .. Len(calls)
      /\ calling \in Conditions \cup {NoCondition}
      /\ \A k \in DOMAIN calls : calls[k].called <= Len(calls[k].group.conditions)
  BY DEF TypeOK, CallsShape
<1>2. Asks(NoCondition)
  BY DEF Asks
<1>3. ASSUME NEW result, Return(result) PROVE AskInv'
  BY <1>3 DEF Return, AskInv
<1>4. CASE \E o \in Operations : Compile(o)
  <2>1. /\ operation = "none" /\ calling' = params.condition /\ params' = params /\ calls' = calls
    BY <1>4 DEF Compile
  <2>2. DOMAIN calls' = {}
    BY <2>1 DEF PathInv
  <2> QED
    BY <2>1, <2>2 DEF AskInv
<1>5. CASE CallPredicate
  <2>1. CASE Accepts(calling)
    <3>1. /\ calling # NoCondition /\ ~IsGroup(calling) /\ calling' = NoCondition
          /\ params' = params /\ operation' = operation /\ calls' = calls
      BY <1>5, <2>1 DEF CallPredicate
    <3>2. Asks(calling)
      BY <1>1, <2>1, <3>1, AcceptsAnswerable DEF Asks
    <3> QED
      BY <1>2, <3>1, <3>2 DEF AskInv
  <2> QED
    BY <1>3, <1>5, <2>1 DEF CallPredicate
<1>6. CASE CallGroup
  <2>1. CASE calling.conditions # << >>
    <3>1. /\ calling # NoCondition /\ IsGroup(calling) /\ calling' = NoCondition
          /\ calls' = Append(calls, [group |-> calling, called |-> 0])
          /\ params' = params /\ operation' = operation
      BY <1>6, <2>1 DEF CallGroup
    <3>2. /\ DOMAIN calls' = 1 .. Len(calls) + 1
          /\ \A k \in 1 .. Len(calls) : calls'[k] = calls[k]
          /\ calls'[Len(calls) + 1] = [group |-> calling, called |-> 0]
      BY <1>1, <3>1
    <3>3. calling \in Conditions /\ calling.conditions \in Seq(Conditions)
      BY <1>1, <3>1, MembersAreConditions
    <3>4. Asks(calling) <=> calling \in Answerable
      BY <3>1 DEF Asks
    <3>5. calling \in Answerable <=>
            \A i \in 1 .. Len(calling.conditions) : calling.conditions[i] \in Answerable
      BY <2>1, <3>1, <3>3, GroupAnswers
    <3>6. RestAsks(calls') => RestAsks(calls) /\ calling \in Answerable
      <4>1. ASSUME RestAsks(calls') PROVE RestAsks(calls)
        BY <1>1, <3>2, <4>1 DEF RestAsks
      <4>2. ASSUME RestAsks(calls') PROVE calling \in Answerable
        <5>1. Len(calls) + 1 \in DOMAIN calls'
          BY <1>1, <3>2
        <5>2. ASSUME NEW i \in 1 .. Len(calling.conditions)
              PROVE  calling.conditions[i] \in Answerable
          <6>1. /\ calls'[Len(calls) + 1].group = calling
                /\ calls'[Len(calls) + 1].called + 1 = 1
            BY <3>2
          <6> QED
            BY <4>2, <5>1, <6>1 DEF RestAsks
        <5> QED
          BY <3>5, <5>2
      <4> QED
        BY <4>1, <4>2
    <3>7. ASSUME operation # "none", Asks(params.condition)
          PROVE  \A k \in DOMAIN calls' : calls'[k].group \in Answerable
      <4>1. calling \in Answerable /\ \A k \in 1 .. Len(calls) : calls[k].group \in Answerable
        BY <1>1, <3>4, <3>7 DEF AskInv
      <4> QED
        BY <1>1, <3>2, <4>1
    <3> QED
      BY <1>2, <3>1, <3>4, <3>6, <3>7 DEF AskInv
  <2> QED
    BY <1>3, <1>6, <2>1 DEF CallGroup
<1>7. CASE CallMember
  <2> DEFINE n == Len(calls)
             m == calls[n].called + 1
             members == calls[n].group.conditions
  <2>1. calls # << >> /\ calling = NoCondition
    BY <1>7 DEF CallMember, Open
  <2>2. /\ n \in Nat \ {0} /\ n \in DOMAIN calls /\ Innermost = calls[n] /\ calls[n].called \in Nat
        /\ members \in Seq(Conditions) /\ calls[n].group \in Conditions /\ IsGroup(calls[n].group)
    BY <1>1, <2>1, OpenCalls
  <2>3. /\ calling' = members[m] /\ calls' = [calls EXCEPT ![n].called = @ + 1]
        /\ m \in 1 .. Len(members)
        /\ params' = params /\ operation' = operation
    BY <1>7, <2>2 DEF CallMember
  <2>4. /\ DOMAIN calls' = DOMAIN calls
        /\ \A k \in DOMAIN calls : calls'[k].group = calls[k].group
        /\ \A k \in DOMAIN calls : k # n => calls'[k] = calls[k]
        /\ calls'[n].called = m
    BY <1>1, <2>2, <2>3 DEF CallsShape
  <2>5. members[m] \in Conditions /\ (Asks(members[m]) <=> members[m] \in Answerable)
    BY <2>2, <2>3, NoConditionIsNone DEF Asks
  <2>6. ASSUME Asks(calling'), RestAsks(calls') PROVE RestAsks(calls)
    <3>1. ASSUME NEW k \in DOMAIN calls, NEW i \in calls[k].called + 1 .. Len(calls[k].group.conditions)
          PROVE  calls[k].group.conditions[i] \in Answerable
      <4>1. CASE k # n
        BY <2>4, <2>6, <3>1, <4>1 DEF RestAsks
      <4>2. CASE k = n /\ i = m
        BY <2>3, <2>5, <2>6, <4>2
      <4>3. CASE k = n /\ i # m
        <5>1. i \in m .. Len(members) /\ m \in Nat /\ Len(members) \in Nat
          BY <2>2, <4>3
        <5>2. i \in m + 1 .. Len(members)
          BY <4>3, <5>1
        <5>3. i \in calls'[n].called + 1 .. Len(calls'[n].group.conditions)
          BY <2>2, <2>4, <5>2
        <5> QED
          BY <2>2, <2>4, <2>6, <4>3, <5>3 DEF RestAsks
      <4> QED
        BY <4>1, <4>2, <4>3
    <3> QED
      BY <3>1 DEF RestAsks
  <2>7. ASSUME operation # "none", Asks(params.condition)
        PROVE  Asks(calling') /\ \A k \in DOMAIN calls' : calls'[k].group \in Answerable
    <3>1. \A k \in DOMAIN calls : calls[k].group \in Answerable
      BY <2>7 DEF AskInv
    <3>2. members[m] \in Answerable
      BY <2>2, <2>3, <3>1, GroupAnswers
    <3> QED
      BY <2>3, <2>4, <2>5, <3>1, <3>2
  <2> QED
    BY <1>2, <2>1, <2>3, <2>6, <2>7 DEF AskInv
<1>8. CASE LeaveGroup
  <2> DEFINE n == Len(calls)
  <2>1. /\ calls # << >> /\ calling = NoCondition /\ calls' = Front(calls)
        /\ Innermost.called = Len(Innermost.group.conditions)
        /\ params' = params /\ operation' = operation /\ calling' = calling
    BY <1>8 DEF LeaveGroup, Open
  <2>2. /\ n \in Nat \ {0} /\ n \in DOMAIN calls /\ Innermost = calls[n] /\ calls[n].called \in Nat
        /\ DOMAIN calls' = 1 .. n - 1
        /\ \A k \in 1 .. n - 1 : calls'[k] = calls[k]
    BY <1>1, <2>1, OpenCalls
  <2>3. RestAsks(calls') => RestAsks(calls)
    <3>1. ASSUME RestAsks(calls'), NEW k \in DOMAIN calls,
                 NEW i \in calls[k].called + 1 .. Len(calls[k].group.conditions)
          PROVE  calls[k].group.conditions[i] \in Answerable
      <4>1. CASE k = n
        BY <2>1, <2>2, <3>1, <4>1
      <4>2. CASE k # n
        BY <1>1, <2>2, <3>1, <4>2 DEF RestAsks
      <4> QED
        BY <4>1, <4>2
    <3> QED
      BY <3>1 DEF RestAsks
  <2>4. \A k \in DOMAIN calls' : k \in DOMAIN calls /\ calls'[k] = calls[k]
    BY <1>1, <2>2
  <2> QED
    BY <2>1, <2>3, <2>4 DEF AskInv
<1>9. CASE FinishFind \/ FinishCount
  BY <1>3, <1>9 DEF FinishFind, FinishCount
<1>10. CASE UNCHANGED vars
  BY <1>10 DEF vars, AskInv, RestAsks
<1> QED
  BY <1>4, <1>5, <1>6, <1>7, <1>8, <1>9, <1>10 DEF Next

LEMMA RefusalStep ==
  ASSUME TypeOK, PathInv, AskInv, RefusesExactly, [Next]_vars
  PROVE  RefusesExactly'
<1>1. /\ params' = params /\ params \in RequestShape /\ "find" \in Operations /\ "count" \in Operations
      /\ calling \in Conditions \cup {NoCondition}
  BY CompiledSteps DEF TypeOK, Operations
<1>2. Refused.status # "ok"
  BY DEF Refused
<1>3. ASSUME operation # "none", Unanswered(calling) PROVE ~Asks(params.condition)
  <2>1. ~Asks(calling)
    <3>1. calling \in Conditions /\ calling # NoCondition
      BY <1>3, NoConditionIsNone DEF Unanswered
    <3> QED
      BY <1>3, <3>1, UnansweredAsksNothing DEF Asks
  <2> QED
    BY <1>3, <2>1 DEF AskInv
<1>4. ASSUME operation # "none", calling = NoCondition, calls = << >> PROVE Asks(params.condition)
  <2>1. Asks(calling) /\ RestAsks(calls)
    BY <1>4 DEF Asks, RestAsks
  <2> QED
    BY <1>4, <2>1 DEF AskInv
<1>5. ASSUME compiled'["find"] # Pending
      PROVE  Ok("find")' <=>
               /\ Asks(params.condition)
               /\ \A i \in DOMAIN params.sort : params.sort[i].field \in DOMAIN Columns
               /\ params.limit <= MaxI64 /\ params.offset <= MaxI64
  <2>1. CASE compiled'["find"] = compiled["find"]
    BY <1>5, <2>1 DEF RefusesExactly, Ok
  <2>2. CASE operation = "find" /\ compiled'["find"] = Refused /\ Unanswered(calling)
    BY <1>2, <1>3, <2>2 DEF Ok
  <2>3. CASE FinishFind /\ compiled'["find"] = FindFragment
    <3>1. Asks(params.condition)
      BY <1>4, <2>3 DEF FinishFind
    <3>2. FindFragment.status = "ok" <=>
            /\ \A i \in DOMAIN params.sort : params.sort[i].field \in DOMAIN Columns
            /\ ~(params.limit > MaxI64) /\ ~(params.offset > MaxI64)
      BY <1>2 DEF FindFragment
    <3>3. /\ params.limit > MaxI64 <=> ~(params.limit <= MaxI64)
          /\ params.offset > MaxI64 <=> ~(params.offset <= MaxI64)
      BY <1>1, BigIntAssumption DEF RequestShape, NoLimit
    <3> QED
      BY <2>3, <3>1, <3>2, <3>3 DEF Ok
  <2> QED
    BY <1>1, <2>1, <2>2, <2>3, CompiledSteps
<1>6. ASSUME compiled'["count"] # Pending PROVE Ok("count")' <=> Asks(params.condition)
  <2>1. CASE compiled'["count"] = compiled["count"]
    BY <1>6, <2>1 DEF RefusesExactly, Ok
  <2>2. CASE operation = "count" /\ compiled'["count"] = Refused /\ Unanswered(calling)
    BY <1>2, <1>3, <2>2 DEF Ok
  <2>3. CASE FinishCount /\ compiled'["count"] = CountFragment
    <3>1. Asks(params.condition)
      BY <1>4, <2>3 DEF FinishCount
    <3> QED
      BY <2>3, <3>1 DEF Ok, CountFragment
  <2> QED
    BY <1>1, <2>1, <2>2, <2>3, CompiledSteps
<1> QED
  BY <1>1, <1>5, <1>6 DEF RefusesExactly

-----------------------------------------------------------------------------
(* What PostgreSQL has read. *)

(* The rows that the first n members of a group select. *)
Matched(group, n) ==
  IF group.operator = "AND"
  THEN {r \in Rows : \A i \in 1 .. n : r \in Matching[group.conditions[i]]}
  ELSE {r \in Rows : \E i \in 1 .. n : r \in Matching[group.conditions[i]]}

FrameShape == [any : SUBSET Rows, all : SUBSET Rows]

(* What PostgreSQL has made of them, when it wants one more and when it has *)
(* just read one.                                                          *)
FrameReads(frame, group, n, wants) ==
  /\ frame \in FrameShape
  /\ IF group.operator = "AND" THEN frame.any = {} /\ frame.all = Matched(group, n)
     ELSE IF wants THEN frame.any = Matched(group, n) /\ frame.all = Rows
     ELSE Value(frame) = Matched(group, n)

(* The portable meaning of a predicate and of a group. *)
LEMMA PredicateMeaning ==
  ASSUME NEW c \in Answerable, ~IsGroup(c)
  PROVE  Matching[c] = {r \in Rows : PredicateMatches(c, r)}
BY MatchingAssumption DEF IsGroup

LEMMA GroupMeaning ==
  ASSUME NEW c \in Answerable, IsGroup(c)
  PROVE  Matching[c] = Matched(c, Len(c.conditions))
<1>1. c \in Conditions
  BY AnswerableAssumption
<1>2. c.conditions \in Seq(Conditions) /\ DOMAIN c.conditions = 1 .. Len(c.conditions)
  BY <1>1, MembersAreConditions
<1>3. CASE c.operator = "AND"
  BY <1>2, <1>3, MatchingAssumption DEF Matched
<1>4. CASE c.operator = "OR"
  BY <1>2, <1>4, MatchingAssumption DEF Matched
<1> QED
  BY <1>3, <1>4 DEF IsGroup

LEMMA MeaningIsRows ==
  ASSUME NEW c \in Answerable
  PROVE  Matching[c] \subseteq Rows
BY PredicateMeaning, GroupMeaning DEF Matched

(* A group of nothing yet: all rows so far, or none. *)
LEMMA FrameOpens ==
  ASSUME NEW group
  PROVE  FrameReads(NothingRead, group, 0, TRUE)
BY DEF FrameReads, NothingRead, Matched, FrameShape

(* One more operand. *)
LEMMA FrameTakes ==
  ASSUME NEW frame, NEW group, NEW n \in Nat \ {0}, FrameReads(frame, group, n - 1, TRUE),
         NEW rows, rows = Matching[group.conditions[n]], rows \subseteq Rows,
         NEW next, next = [any |-> frame.any, all |-> frame.all \cap rows]
  PROVE  FrameReads(next, group, n, FALSE)
<1>1. \A i : i \in 1 .. n <=> i \in 1 .. n - 1 \/ i = n
  OBVIOUS
<1>2. next \in FrameShape /\ next.any = frame.any /\ next.all = frame.all \cap rows
  BY DEF FrameReads, FrameShape
<1>3. CASE group.operator = "AND"
  <2>1. Matched(group, n) = Matched(group, n - 1) \cap rows
    BY <1>1, <1>3 DEF Matched
  <2> QED
    BY <1>2, <1>3, <2>1 DEF FrameReads
<1>4. CASE group.operator # "AND"
  <2>1. Matched(group, n) = Matched(group, n - 1) \cup rows
    <3>1. \A r : r \in Matched(group, n) <=>
                   r \in Rows /\ \E i \in 1 .. n : r \in Matching[group.conditions[i]]
      BY <1>4 DEF Matched
    <3>2. \A r : r \in Matched(group, n - 1) <=>
                   r \in Rows /\ \E i \in 1 .. n - 1 : r \in Matching[group.conditions[i]]
      BY <1>4 DEF Matched
    <3>3. \A r : (\E i \in 1 .. n : r \in Matching[group.conditions[i]]) <=>
                   (\E i \in 1 .. n - 1 : r \in Matching[group.conditions[i]]) \/ r \in rows
      BY <1>1
    <3> QED
      BY <3>1, <3>2, <3>3
  <2>2. frame.any = Matched(group, n - 1) /\ frame.all = Rows
    BY <1>4 DEF FrameReads
  <2>3. Value(next) = Matched(group, n)
    BY <1>2, <2>1, <2>2 DEF Value
  <2> QED
    BY <1>2, <1>4, <2>3 DEF FrameReads
<1> QED
  BY <1>3, <1>4

(* The operator between two operands. *)
LEMMA FrameGoesOn ==
  ASSUME NEW frame, NEW group, NEW n, FrameReads(frame, group, n, FALSE)
  PROVE  /\ group.operator = "AND" => FrameReads(frame, group, n, TRUE)
         /\ group.operator = "OR" => FrameReads([any |-> Value(frame), all |-> Rows], group, n, TRUE)
BY DEF FrameReads, FrameShape, Value

(* The last operand. *)
LEMMA FrameCloses ==
  ASSUME NEW frame, NEW group, NEW n, FrameReads(frame, group, n, FALSE)
  PROVE  Value(frame) = Matched(group, n)
BY DEF FrameReads, Value

-----------------------------------------------------------------------------
(* One frame per level, read up to the last member that has returned. *)
Called(p, cs, c, d) ==
  IF Busy(cs, c, d) THEN Level(p, cs, d).called - 1 ELSE Level(p, cs, d).called
Wants(p, cs, c, d) == Busy(cs, c, d) \/ Level(p, cs, d).called = 0

ReadingShape == [frames : Seq(FrameShape), wants_operand : BOOLEAN, sound : BOOLEAN]
Sound(frames, wants) == [frames |-> frames, wants_operand |-> wants, sound |-> TRUE]

ReadsLevels(r, p, cs, c) ==
  /\ r \in ReadingShape /\ r.sound
  /\ r.wants_operand = Wants(p, cs, c, Depth(cs))
  /\ r.frames \in Seq(FrameShape) /\ Len(r.frames) = Depth(cs)
  /\ \A d \in 1 .. Depth(cs) :
       FrameReads(r.frames[d], Level(p, cs, d).group, Called(p, cs, c, d), Wants(p, cs, c, d))

ReadingInv ==
  /\ DOMAIN reading = Operations
  /\ operation # "none" /\ params.condition \in Answerable =>
       ReadsLevels(reading[operation], params, calls, calling)
  /\ \A o \in Operations : compiled[o] = Pending /\ o # operation => reading[o] = StartReading

LEMMA FrameTaking ==
  ASSUME NEW frame \in FrameShape, NEW rows
  PROVE  [frame EXCEPT !.all = @ \cap rows] = [any |-> frame.any, all |-> frame.all \cap rows]
<1>1. frame = [any |-> frame.any, all |-> frame.all]
  BY DEF FrameShape
<1> QED
  BY <1>1

LEMMA OperandRead ==
  ASSUME NEW frames \in Seq(FrameShape), frames # << >>, NEW rows
  PROVE  LET next == WithOperand(frames, rows)
             n == Len(frames)
         IN  /\ next \in Seq(FrameShape) /\ Len(next) = n
             /\ \A d \in 1 .. n - 1 : next[d] = frames[d]
             /\ next[n] = [any |-> frames[n].any, all |-> frames[n].all \cap rows]
<1> DEFINE n == Len(frames)
           next == WithOperand(frames, rows)
           frame == [any |-> frames[n].any, all |-> frames[n].all \cap rows]
<1>1. n \in Nat \ {0} /\ n \in DOMAIN frames /\ DOMAIN frames = 1 .. n
  BY EmptySeq, LenProperties
<1>2. frames[n] \in FrameShape
  BY <1>1, ElementOfSeq
<1>3. next = [frames EXCEPT ![n] = frame]
  <2>1. [frames[n] EXCEPT !.all = @ \cap rows] = frame
    BY <1>2, FrameTaking
  <2>2. next = [frames EXCEPT ![n] = [frames[n] EXCEPT !.all = @ \cap rows]]
    BY DEF WithOperand
  <2> QED
    BY <2>1, <2>2
<1>4. frame \in FrameShape
  BY <1>2 DEF FrameShape
<1> HIDE DEF frame
<1>5. next \in Seq(FrameShape) /\ Len(next) = n
  BY <1>1, <1>3, <1>4, ExceptSeq
<1> HIDE DEF next
<1>6. /\ \A d \in 1 .. n - 1 : next[d] = frames[d]
      /\ next[n] = frame
  <2> HIDE DEF n
  <2>1. \A d \in 1 .. n : next[d] = IF d = n THEN frame ELSE frames[d]
    BY <1>1, <1>3
  <2> QED
    BY <1>1, <2>1
<1> QED
  BY <1>5, <1>6 DEF next, frame

(* A compilation begins: nothing is read, and one operand is wanted. *)
LEMMA ReadingStarts ==
  ASSUME NEW p, p.condition # NoCondition
  PROVE  ReadsLevels(StartReading, p, << >>, p.condition)
<1>1. /\ Depth(<< >>) = 1 /\ Level(p, << >>, 1) = Whole(p)
      /\ Busy(<< >>, p.condition, 1) /\ Whole(p).called = 1
  BY DEF Depth, Level, Busy, Whole
<1>2. Called(p, << >>, p.condition, 1) = 0 /\ Wants(p, << >>, p.condition, 1) = TRUE
  BY <1>1 DEF Called, Wants
<1>3. NothingRead \in FrameShape
  BY DEF NothingRead, FrameShape
<1>4. /\ StartReading.frames = <<NothingRead>>
      /\ StartReading.sound = TRUE /\ StartReading.wants_operand = TRUE
  BY DEF StartReading
<1>5. /\ <<NothingRead>> \in Seq(FrameShape) /\ Len(<<NothingRead>>) = 1
      /\ <<NothingRead>>[1] = NothingRead
  BY <1>3
<1>7. StartReading \in ReadingShape
  BY <1>5 DEF StartReading, ReadingShape
<1>6. ASSUME NEW d \in 1 .. Depth(<< >>)
      PROVE  FrameReads(StartReading.frames[d], Level(p, << >>, d).group,
                        Called(p, << >>, p.condition, d), Wants(p, << >>, p.condition, d))
  <2>1. d = 1
    BY <1>1
  <2> QED
    BY <1>2, <1>4, <1>5, <2>1, FrameOpens
<1> QED
  BY <1>1, <1>2, <1>4, <1>5, <1>6, <1>7 DEF ReadsLevels

(* The condition called last has returned: its rows are an operand at the   *)
(* innermost level.                                                        *)
LEMMA LevelTakes ==
  ASSUME NEW p, NEW cs, NEW c, c # NoCondition, Len(cs) \in Nat,
         NEW r, ReadsLevels(r, p, cs, c),
         Level(p, cs, Depth(cs)).called \in Nat \ {0},
         NEW rows \in SUBSET Rows, rows = Matching[Member(p, cs, Depth(cs))],
         NEW next, next = Sound(WithOperand(r.frames, rows), FALSE)
  PROVE  ReadsLevels(next, p, cs, NoCondition)
<1> DEFINE n == Depth(cs)
           level == Level(p, cs, n)
<1>1. /\ n \in Nat \ {0} /\ n = Len(cs) + 1
      /\ r.frames \in Seq(FrameShape) /\ Len(r.frames) = n /\ r.frames # << >>
      /\ level.called \in Nat \ {0}
      /\ rows = Matching[level.group.conditions[level.called]]
  BY DEF ReadsLevels, Depth, Member
<1>9. /\ next.frames = WithOperand(r.frames, rows) /\ next.sound = TRUE
      /\ next.wants_operand = FALSE /\ (next.frames \in Seq(FrameShape) => next \in ReadingShape)
  BY DEF Sound, ReadingShape
<1>2. /\ next.frames \in Seq(FrameShape) /\ Len(next.frames) = n
      /\ \A d \in 1 .. n - 1 : next.frames[d] = r.frames[d]
      /\ next.frames[n] = [any |-> r.frames[n].any, all |-> r.frames[n].all \cap rows]
  <2> HIDE DEF level, n
  <2>1. LET taken == WithOperand(r.frames, rows) IN
        /\ taken \in Seq(FrameShape) /\ Len(taken) = Len(r.frames)
        /\ \A d \in 1 .. Len(r.frames) - 1 : taken[d] = r.frames[d]
        /\ taken[Len(r.frames)]
             = [any |-> r.frames[Len(r.frames)].any, all |-> r.frames[Len(r.frames)].all \cap rows]
    BY <1>1, OperandRead
  <2> QED
    BY <1>1, <1>9, <2>1
<1>3. /\ Called(p, cs, c, n) = level.called - 1 /\ Wants(p, cs, c, n)
      /\ Called(p, cs, NoCondition, n) = level.called /\ ~Wants(p, cs, NoCondition, n)
  BY <1>1 DEF Called, Wants, Busy
<1> HIDE DEF level
<1>4. ASSUME NEW d \in 1 .. n - 1
      PROVE  /\ Called(p, cs, NoCondition, d) = Called(p, cs, c, d)
             /\ Wants(p, cs, NoCondition, d) = Wants(p, cs, c, d)
  BY <1>1 DEF Called, Wants, Busy
<1>5. FrameReads(r.frames[n], level.group, level.called - 1, TRUE)
  <2>1. FrameReads(r.frames[n], Level(p, cs, n).group, Called(p, cs, c, n), Wants(p, cs, c, n))
    BY <1>1 DEF ReadsLevels
  <2>2. Wants(p, cs, c, n) = TRUE
    BY <1>3 DEF Wants
  <2> QED
    BY <1>3, <2>1, <2>2 DEF level
<1>6. FrameReads(next.frames[n], level.group, level.called, FALSE)
  <2>1. rows \subseteq Rows
    OBVIOUS
  <2>2. level.called \in Nat \ {0} /\ rows = Matching[level.group.conditions[level.called]]
    BY <1>1
  <2>3. next.frames[n] = [any |-> r.frames[n].any, all |-> r.frames[n].all \cap rows]
    BY <1>2
  <2> HIDE DEF n
  <2> QED
    BY <1>5, <2>1, <2>2, <2>3, FrameTakes
<1>7. ASSUME NEW d \in 1 .. n
      PROVE  FrameReads(next.frames[d], Level(p, cs, d).group,
                        Called(p, cs, NoCondition, d), Wants(p, cs, NoCondition, d))
  <2>1. CASE d = n
    <3>1. Wants(p, cs, NoCondition, n) = FALSE
      BY <1>3 DEF Wants
    <3> QED
      BY <1>3, <1>6, <2>1, <3>1 DEF level
  <2>2. CASE d # n
    <3>1. d \in 1 .. n - 1
      BY <1>1, <2>2
    <3> QED
      BY <1>2, <1>4, <3>1 DEF ReadsLevels
  <2> QED
    BY <2>1, <2>2
<1>8. next.wants_operand = Wants(p, cs, NoCondition, n)
  BY <1>3, <1>9 DEF Wants
<1> QED
  BY <1>2, <1>7, <1>8, <1>9 DEF ReadsLevels

(* A group is called: a level of its own, with nothing read. *)
LEMMA LevelOpens ==
  ASSUME NEW p, NEW cs \in CallsShape, NEW c \in Conditions, IsGroup(c), c # NoCondition,
         NEW r, ReadsLevels(r, p, cs, c),
         NEW next, next = Sound(Append(r.frames, NothingRead), TRUE)
  PROVE  ReadsLevels(next, p, Append(cs, [group |-> c, called |-> 0]), NoCondition)
<1> DEFINE call == [group |-> c, called |-> 0]
           deeper == Append(cs, call)
           n == Depth(cs)
<1>1. /\ n \in Nat \ {0} /\ n = Len(cs) + 1 /\ Len(cs) \in Nat
      /\ Len(deeper) = n /\ deeper[n] = call /\ \A k \in 1 .. n - 1 : deeper[k] = cs[k]
  BY DEF CallsShape, Depth
<1>2. call.group = c /\ call.called = 0
  OBVIOUS
<1> HIDE DEF deeper, call
<1>3. Depth(deeper) = n + 1 /\ Level(p, deeper, n + 1) = call
  BY <1>1 DEF Depth, Level
<1>4. /\ r.frames \in Seq(FrameShape) /\ Len(r.frames) = n /\ NothingRead \in FrameShape
  BY DEF ReadsLevels, FrameShape, NothingRead
<1>10. /\ next.frames = Append(r.frames, NothingRead) /\ next.sound = TRUE
       /\ next.wants_operand = TRUE /\ (next.frames \in Seq(FrameShape) => next \in ReadingShape)
  BY DEF Sound, ReadingShape
<1>5. /\ next.frames \in Seq(FrameShape) /\ Len(next.frames) = n + 1
      /\ next.frames[n + 1] = NothingRead /\ \A d \in 1 .. n : next.frames[d] = r.frames[d]
  <2>1. /\ Append(r.frames, NothingRead) \in Seq(FrameShape)
        /\ Len(Append(r.frames, NothingRead)) = Len(r.frames) + 1
        /\ \A i \in 1 .. Len(r.frames) : Append(r.frames, NothingRead)[i] = r.frames[i]
        /\ Append(r.frames, NothingRead)[Len(r.frames) + 1] = NothingRead
    BY <1>4, AppendProperties
  <2> HIDE DEF n
  <2> QED
    BY <1>1, <1>4, <1>10, <2>1
<1>6. Called(p, deeper, NoCondition, n + 1) = 0 /\ Wants(p, deeper, NoCondition, n + 1) = TRUE
  BY <1>1, <1>2, <1>3 DEF Called, Wants, Busy
<1>7. ASSUME NEW d \in 1 .. n
      PROVE  /\ Level(p, deeper, d) = Level(p, cs, d)
             /\ Called(p, deeper, NoCondition, d) = Called(p, cs, c, d)
             /\ Wants(p, deeper, NoCondition, d) = Wants(p, cs, c, d)
  <2>1. Level(p, deeper, d) = Level(p, cs, d)
    BY <1>1 DEF Level
  <2>2. Busy(cs, c, d) = TRUE /\ Busy(deeper, NoCondition, d) = TRUE
    BY <1>1, <1>3 DEF Busy
  <2> QED
    BY <2>1, <2>2 DEF Called, Wants
<1>8. ASSUME NEW d \in 1 .. n + 1
      PROVE  FrameReads(next.frames[d], Level(p, deeper, d).group,
                        Called(p, deeper, NoCondition, d), Wants(p, deeper, NoCondition, d))
  <2>1. CASE d = n + 1
    BY <1>5, <1>6, <2>1, FrameOpens
  <2>2. CASE d # n + 1
    <3>1. d \in 1 .. n
      BY <1>1, <2>2
    <3> QED
      BY <1>5, <1>7, <3>1 DEF ReadsLevels
  <2> QED
    BY <2>1, <2>2
<1>9. ReadsLevels(next, p, deeper, NoCondition)
  BY <1>3, <1>5, <1>6, <1>8, <1>10 DEF ReadsLevels
<1> QED
  BY <1>9 DEF deeper, call

(* A group is left: what is open above it, as when it was called. *)
LEMMA LevelLeft ==
  ASSUME NEW p, NEW cs \in CallsShape, cs # << >>, NEW c, c # NoCondition,
         NEW r, ReadsLevels(r, p, cs, NoCondition),
         NEW above, above = Sound(Front(r.frames), TRUE)
  PROVE  ReadsLevels(above, p, Front(cs), c)
<1> DEFINE n == Len(cs)
           outer == Front(cs)
<1>1. /\ n \in Nat \ {0} /\ Len(outer) = n - 1 /\ \A k \in 1 .. n - 1 : outer[k] = cs[k]
  BY LastAndFront DEF CallsShape
<1> HIDE DEF outer, n
<1>2. Depth(outer) = n /\ Depth(cs) = n + 1
  BY <1>1 DEF Depth, n
<1>3. r.frames \in Seq(FrameShape) /\ Len(r.frames) = n + 1 /\ r.frames # << >>
  BY <1>1, <1>2 DEF ReadsLevels
<1>8. /\ above.frames = Front(r.frames) /\ above.sound = TRUE
      /\ above.wants_operand = TRUE /\ (above.frames \in Seq(FrameShape) => above \in ReadingShape)
  BY DEF Sound, ReadingShape
<1>4. /\ above.frames \in Seq(FrameShape) /\ Len(above.frames) = n
      /\ \A d \in 1 .. n : above.frames[d] = r.frames[d]
  <2>1. /\ Front(r.frames) \in Seq(FrameShape) /\ Len(Front(r.frames)) = Len(r.frames) - 1
        /\ \A d \in 1 .. Len(r.frames) - 1 : Front(r.frames)[d] = r.frames[d]
    BY <1>3, LastAndFront
  <2>2. Len(r.frames) - 1 = n
    BY <1>1, <1>3
  <2> QED
    BY <1>8, <2>1, <2>2
<1>5. ASSUME NEW d \in 1 .. n
      PROVE  /\ Level(p, outer, d) = Level(p, cs, d)
             /\ Called(p, outer, c, d) = Called(p, cs, NoCondition, d)
             /\ Wants(p, outer, c, d) = Wants(p, cs, NoCondition, d)
  <2>1. Level(p, outer, d) = Level(p, cs, d)
    BY <1>1 DEF Level
  <2>2. Busy(outer, c, d) = TRUE /\ Busy(cs, NoCondition, d) = TRUE
    BY <1>1, <1>2 DEF Busy
  <2> QED
    BY <2>1, <2>2 DEF Called, Wants
<1>6. ASSUME NEW d \in 1 .. n
      PROVE  FrameReads(above.frames[d], Level(p, outer, d).group,
                        Called(p, outer, c, d), Wants(p, outer, c, d))
  <2>1. d \in 1 .. Depth(cs)
    BY <1>1, <1>2
  <2>2. FrameReads(r.frames[d], Level(p, cs, d).group,
                   Called(p, cs, NoCondition, d), Wants(p, cs, NoCondition, d))
    BY <2>1 DEF ReadsLevels
  <2> QED
    BY <1>4, <1>5, <2>2
<1>7. ReadsLevels(above, p, outer, c)
  <2>1. Wants(p, outer, c, n) = TRUE
    BY <1>1, <1>2 DEF Wants, Busy
  <2> QED
    BY <1>2, <1>4, <1>6, <1>8, <2>1 DEF ReadsLevels
<1> QED
  BY <1>7 DEF outer

(* One more member is called. *)
LEMMA MemberCounted ==
  ASSUME NEW G, NEW call \in [group : G, called : Nat]
  PROVE  LET e == [call EXCEPT !.called = @ + 1]
         IN  e.group = call.group /\ e.called = call.called + 1 /\ e \in [group : G, called : Nat]
OBVIOUS

(* The next member of the innermost group is called, after the operator     *)
(* that joins it to the members before.                                    *)
LEMMA LevelGoesOn ==
  ASSUME NEW p, NEW cs \in CallsShape, cs # << >>, NEW c, c # NoCondition,
         NEW r, ReadsLevels(r, p, cs, NoCondition),
         NEW next \in ReadingShape, next.sound, next.wants_operand = TRUE,
         LET n == Len(r.frames) IN
         next.frames = IF cs[Len(cs)].called > 0 /\ cs[Len(cs)].group.operator = "OR"
                       THEN [r.frames EXCEPT ![n] = [any |-> Value(r.frames[n]), all |-> Rows]]
                       ELSE r.frames
  PROVE  ReadsLevels(next, p, [cs EXCEPT ![Len(cs)].called = @ + 1], c)
<1> DEFINE n == Len(cs)
           further == [cs EXCEPT ![n].called = @ + 1]
           frame == [any |-> Value(r.frames[n + 1]), all |-> Rows]
<1>1. /\ n \in Nat \ {0} /\ n \in DOMAIN cs
      /\ cs[n].called \in Nat /\ cs[n].group.operator \in {"AND", "OR"}
  <2> DEFINE S == [group : {m \in Conditions : IsGroup(m)}, called : Nat]
  <2>1. cs \in Seq(S)
    BY DEF CallsShape
  <2> HIDE DEF S
  <2>2. n \in Nat \ {0} /\ n \in DOMAIN cs /\ cs[n] \in S
    BY <2>1, LastAndFront
  <2>3. cs[n].called \in Nat /\ cs[n].group \in Conditions /\ IsGroup(cs[n].group)
    BY <2>2 DEF S
  <2> QED
    BY <2>2, <2>3, MembersAreConditions
<1>2. /\ Len(further) = n /\ \A k \in 1 .. n - 1 : further[k] = cs[k]
      /\ further[n].group = cs[n].group /\ further[n].called = cs[n].called + 1
  <2> DEFINE S == [group : {m \in Conditions : IsGroup(m)}, called : Nat]
             e == [cs[n] EXCEPT !.called = @ + 1]
  <2>1. cs \in Seq(S) /\ n \in 1 .. Len(cs)
    BY <1>1 DEF CallsShape
  <2>2. cs[n] \in S
    <3> HIDE DEF S, n
    <3> QED
      BY <2>1, ElementOfSeq
  <2>3. e.group = cs[n].group /\ e.called = cs[n].called + 1 /\ e \in S
    BY <2>2, MemberCounted
  <2>4. further = [cs EXCEPT ![n] = e]
    OBVIOUS
  <2> HIDE DEF S, e, further, n
  <2>5. /\ Len([cs EXCEPT ![n] = e]) = Len(cs)
        /\ \A k \in 1 .. Len(cs) : [cs EXCEPT ![n] = e][k] = IF k = n THEN e ELSE cs[k]
    BY <2>1, <2>3, ExceptSeq
  <2>6. Len(cs) = n
    BY DEF n
  <2> QED
    BY <1>1, <2>3, <2>4, <2>5, <2>6
<1> HIDE DEF further
<1>3. /\ Depth(further) = n + 1 /\ Depth(cs) = n + 1
      /\ Level(p, cs, n + 1) = cs[n] /\ Level(p, further, n + 1) = further[n]
  BY <1>1, <1>2 DEF Depth, Level
<1>4. r.frames \in Seq(FrameShape) /\ Len(r.frames) = n + 1
  BY <1>3 DEF ReadsLevels
<1>5. frame \in FrameShape
  <2>1. r.frames[n + 1] \in FrameShape
    BY <1>1, <1>4, ElementOfSeq
  <2> QED
    BY <2>1 DEF FrameShape, Value
<1>6. /\ Called(p, further, c, n + 1) = cs[n].called /\ Wants(p, further, c, n + 1) = TRUE
      /\ Called(p, cs, NoCondition, n + 1) = cs[n].called
      /\ Wants(p, cs, NoCondition, n + 1) = (cs[n].called = 0)
  BY <1>1, <1>2, <1>3 DEF Called, Wants, Busy
<1>7. ASSUME NEW d \in 1 .. n
      PROVE  /\ Level(p, further, d) = Level(p, cs, d)
             /\ Called(p, further, c, d) = Called(p, cs, NoCondition, d)
             /\ Wants(p, further, c, d) = Wants(p, cs, NoCondition, d)
  <2>1. Level(p, further, d) = Level(p, cs, d)
    BY <1>1, <1>2 DEF Level
  <2>2. Busy(further, c, d) = TRUE /\ Busy(cs, NoCondition, d) = TRUE
    BY <1>1, <1>3 DEF Busy
  <2> QED
    BY <2>1, <2>2 DEF Called, Wants
<1>8. FrameReads(r.frames[n + 1], cs[n].group, cs[n].called, cs[n].called = 0)
  BY <1>1, <1>3, <1>6 DEF ReadsLevels
<1> HIDE DEF n
<1>12. Len(cs) = n
  BY DEF n
<1>9. /\ next.frames \in Seq(FrameShape) /\ Len(next.frames) = n + 1
      /\ \A d \in 1 .. n : next.frames[d] = r.frames[d]
      /\ FrameReads(next.frames[n + 1], cs[n].group, cs[n].called, TRUE)
  <2>1. CASE cs[n].called = 0
    <3>1. next.frames = r.frames /\ (cs[n].called = 0) = TRUE
      BY <1>1, <1>12, <2>1
    <3> QED
      BY <1>1, <1>4, <1>8, <3>1
  <2>2. CASE cs[n].called > 0 /\ cs[n].group.operator = "OR"
    <3>1. next.frames = [r.frames EXCEPT ![n + 1] = frame]
      BY <1>1, <1>4, <1>12, <2>2
    <3>2. /\ next.frames \in Seq(FrameShape) /\ Len(next.frames) = n + 1
          /\ next.frames[n + 1] = frame /\ \A d \in 1 .. n : next.frames[d] = r.frames[d]
      <4> HIDE DEF frame
      <4> QED
        BY <1>1, <1>4, <1>5, <3>1, ExceptSeq
    <3>3. (cs[n].called = 0) = FALSE
      BY <2>2
    <3> QED
      BY <1>8, <2>2, <3>2, <3>3, FrameGoesOn
  <2>3. CASE cs[n].called > 0 /\ cs[n].group.operator = "AND"
    <3>1. next.frames = r.frames /\ (cs[n].called = 0) = FALSE
      BY <1>12, <2>3
    <3> QED
      BY <1>1, <1>4, <1>8, <2>3, <3>1, FrameGoesOn
  <2>4. \/ cs[n].called = 0
        \/ cs[n].called > 0 /\ cs[n].group.operator = "OR"
        \/ cs[n].called > 0 /\ cs[n].group.operator = "AND"
    BY <1>1
  <2> QED
    BY <2>1, <2>2, <2>3, <2>4
<1>10. ASSUME NEW d \in 1 .. n + 1
       PROVE  FrameReads(next.frames[d], Level(p, further, d).group,
                         Called(p, further, c, d), Wants(p, further, c, d))
  <2>1. CASE d = n + 1
    BY <1>2, <1>3, <1>6, <1>9, <2>1
  <2>2. CASE d # n + 1
    <3>1. d \in 1 .. n
      BY <1>1, <2>2
    <3> QED
      BY <1>1, <1>3, <1>7, <1>9, <3>1 DEF ReadsLevels
  <2> QED
    BY <2>1, <2>2
<1>11. ReadsLevels(next, p, further, c)
  BY <1>3, <1>6, <1>9, <1>10 DEF ReadsLevels
<1> QED
  BY <1>11 DEF further, n

(* A token that is written is read; nothing else is. *)
LEMMA ReadsToken ==
  ASSUME output \in OutputShape, NEW token, NEW values, Appends(token, values), Reads,
         DOMAIN reading = Operations, operation \in Operations
  PROVE  /\ DOMAIN reading' = Operations
         /\ reading'[operation] = Read(reading[operation], token, output'.bindings)
         /\ \A o \in Operations : o # operation => reading'[o] = reading[o]
<1>1. Len(output'.sql) = Len(output.sql) + 1 /\ Last(output'.sql) = token
  BY AppendsSomething
<1>2. Len(output'.sql) > Len(output.sql)
  <2>1. Len(output.sql) \in Nat
    BY DEF OutputShape
  <2> QED
    BY <1>1, <2>1
<1>3. reading' = [reading EXCEPT ![operation] = Read(reading[operation], token, output'.bindings)]
  BY <1>1, <1>2 DEF Reads
<1> QED
  BY <1>3

LEMMA ReadsNothing ==
  ASSUME output \in OutputShape, output' = output \/ output' = EmptyOutput, Reads
  PROVE  reading' = reading
<1>1. ~(Len(output'.sql) > Len(output.sql))
  <2>1. Len(output.sql) \in Nat /\ (output'.sql = output.sql \/ output'.sql = << >>)
    BY DEF OutputShape, EmptyOutput
  <2> QED
    BY <2>1
<1> QED
  BY <1>1 DEF Reads

(* The condition called at a level has a meaning. *)
LEMMA CalledMeans ==
  ASSUME TypeOK, AskInv, operation # "none", params.condition \in Answerable
  PROVE  /\ calling # NoCondition => calling \in Answerable
         /\ \A k \in DOMAIN calls : calls[k].group \in Answerable
BY DEF AskInv, Asks

(* What each token does to a reading without an error. *)
LEMMA TokensRead ==
  ASSUME NEW r \in ReadingShape, r.sound, NEW token, NEW bindings
  PROVE  /\ token.token \in {"test", "FALSE"} /\ r.wants_operand =>
              Read(r, token, bindings)
                = Sound(WithOperand(r.frames, TrueOn(token, bindings)), FALSE)
         /\ token.token = "AND" /\ ~r.wants_operand =>
              Read(r, token, bindings) = Sound(r.frames, TRUE)
         /\ token.token = "OR" /\ ~r.wants_operand =>
              LET n == Len(r.frames) IN
              Read(r, token, bindings)
                = Sound([r.frames EXCEPT ![n] = [any |-> Value(r.frames[n]), all |-> Rows]], TRUE)
         /\ token.token = "(" /\ r.wants_operand =>
              Read(r, token, bindings) = Sound(Append(r.frames, NothingRead), TRUE)
         /\ token.token = ")" /\ ~r.wants_operand /\ Len(r.frames) # 1 =>
              Read(r, token, bindings)
                = Sound(WithOperand(Front(r.frames), Value(Last(r.frames))), FALSE)
<1>1. r = [frames |-> r.frames, wants_operand |-> r.wants_operand, sound |-> r.sound]
      /\ r.frames \in Seq(FrameShape) /\ r.sound = TRUE /\ r.wants_operand \in BOOLEAN
  BY DEF ReadingShape
<1>2. CASE token.token \in {"test", "FALSE"}
  BY <1>1, <1>2 DEF Read, Sound
<1>3. CASE token.token = "AND"
  BY <1>1, <1>3 DEF Read, Sound
<1>4. CASE token.token = "OR" /\ ~r.wants_operand
  <2> DEFINE n == Len(r.frames)
             frames == [r.frames EXCEPT ![n] = [any |-> Value(@), all |-> Rows]]
  <2>1. Read(r, token, bindings) = [frames |-> frames, wants_operand |-> TRUE, sound |-> TRUE]
    BY <1>1, <1>4 DEF Read
  <2>2. frames = [r.frames EXCEPT ![n] = [any |-> Value(r.frames[n]), all |-> Rows]]
    OBVIOUS
  <2> QED
    BY <1>4, <2>1, <2>2 DEF Sound
<1>5. CASE token.token = "("
  BY <1>1, <1>5 DEF Read, Sound
<1>6. CASE token.token = ")"
  BY <1>1, <1>6 DEF Read, Sound
<1> QED
  BY <1>2, <1>3, <1>4, <1>5, <1>6

(* A condition is called at a level that has called a member. *)
LEMMA MemberCalled ==
  ASSUME TypeOK, PathInv, calling # NoCondition
  PROVE  /\ calling = Member(params, calls, Depth(calls))
         /\ Level(params, calls, Depth(calls)).called \in Nat \ {0}
<1>1. calls \in CallsShape
  BY DEF TypeOK, CallsShape
<1>2. CASE calls = << >>
  BY <1>2 DEF PathInv, Level, Depth, Whole
<1>3. CASE calls # << >>
  <2>1. Len(calls) \in Nat \ {0} /\ Len(calls) \in DOMAIN calls /\ calls[Len(calls)].called \in Nat
    BY <1>1, <1>3, OpenCalls
  <2>2. calls[Len(calls)].called > 0
    BY <2>1 DEF PathInv, OnPath, Busy
  <2>3. Level(params, calls, Depth(calls)) = calls[Len(calls)]
    BY <2>1 DEF Level, Depth
  <2> QED
    BY <2>1, <2>2, <2>3 DEF PathInv
<1> QED
  BY <1>2, <1>3

LEMMA ReadingStep ==
  ASSUME TypeOK, PathInv, AskInv, ReadingInv, Next, Reads
  PROVE  ReadingInv'
<1>1. /\ output \in OutputShape /\ calls \in CallsShape /\ Len(calls) \in Nat
      /\ DOMAIN calls = 1 .. Len(calls) /\ DOMAIN compiled = Operations
      /\ calling \in Conditions \cup {NoCondition} /\ operation \in Operations \cup {"none"}
      /\ DOMAIN reading = Operations
  BY DEF TypeOK, OutputShape, CallsShape, ReadingInv
<1>2. "none" \notin Operations
  BY DEF Operations
<1> DEFINE r == reading[operation]
<1>3. ASSUME NEW result, result # Pending, Return(result) PROVE ReadingInv'
  <2>1. /\ \A o \in Operations : compiled'[o] = IF o = operation THEN result ELSE compiled[o]
        /\ operation' = "none" /\ output' = EmptyOutput
    BY <1>1, <1>3, ReturnStep
  <2>2. reading' = reading
    BY <1>1, <2>1, ReadsNothing
  <2> QED
    BY <1>3, <2>1, <2>2 DEF ReadingInv
<1>4. ASSUME NEW token, NEW values, Appends(token, values), operation # "none",
             params' = params, operation' = operation, compiled' = compiled,
             params.condition \in Answerable =>
               ReadsLevels(Read(r, token, output'.bindings), params, calls', calling')
      PROVE  ReadingInv'
  <2>1. operation \in Operations
    BY <1>1, <1>4
  <2>2. /\ DOMAIN reading' = Operations
        /\ reading'[operation] = Read(r, token, output'.bindings)
        /\ \A o \in Operations : o # operation => reading'[o] = reading[o]
    BY <1>1, <1>4, <2>1, ReadsToken
  <2> HIDE DEF r
  <2> QED
    BY <1>4, <2>2 DEF ReadingInv
<1>5. ASSUME output' = output, operation # "none",
             params' = params, operation' = operation, compiled' = compiled,
             params.condition \in Answerable => ReadsLevels(r, params, calls', calling')
      PROVE  ReadingInv'
  <2>1. reading' = reading
    BY <1>1, <1>5, ReadsNothing
  <2> QED
    BY <1>5, <2>1 DEF ReadingInv
<1>6. operation = "none" => calling = NoCondition /\ calls = << >>
  BY DEF PathInv
<1>7. params.condition \in Answerable => params.condition # NoCondition
  BY AnswerableAssumption, NoConditionIsNone
<1>8. CASE \E o \in Operations : Compile(o)
  <2>1. PICK o \in Operations : Compile(o)
    BY <1>8
  <2>2. /\ operation = "none" /\ compiled[o] = Pending /\ operation' = o /\ calling' = params.condition
        /\ params' = params /\ calls' = calls /\ output' = output /\ compiled' = compiled
    BY <2>1 DEF Compile
  <2>3. reading' = reading /\ calls = << >> /\ reading[o] = StartReading
    BY <1>1, <1>2, <1>6, <2>2, ReadsNothing DEF ReadingInv
  <2>4. params.condition \in Answerable =>
          ReadsLevels(StartReading, params, << >>, params.condition)
    BY <1>7, ReadingStarts
  <2> QED
    BY <1>2, <2>2, <2>3, <2>4 DEF ReadingInv
<1>9. CASE CallPredicate
  <2>1. CASE Accepts(calling)
    <3>1. /\ calling \in Conditions /\ ~IsGroup(calling) /\ WritePredicate(calling)
          /\ calling # NoCondition /\ calling' = NoCondition
          /\ params' = params /\ operation' = operation /\ calls' = calls /\ compiled' = compiled
      BY <1>1, <1>9, <2>1 DEF CallPredicate
    <3>2. PICK token \in Tokens, values \in Seq(Values) :
            /\ Appends(token, values)
            /\ token.token \in {"test", "FALSE"}
            /\ TrueOn(token, output'.bindings) = {s \in Rows : PredicateMatches(calling, s)}
      BY <1>1, <2>1, <3>1, PredicateAppends
    <3>3. operation # "none"
      BY <1>6, <3>1
    <3>4. ASSUME params.condition \in Answerable
          PROVE  ReadsLevels(Read(r, token, output'.bindings), params, calls, NoCondition)
      <4> DEFINE rows == TrueOn(token, output'.bindings)
                 next == Read(r, token, output'.bindings)
      <4>1. calling \in Answerable
        BY <3>1, <3>3, <3>4, CalledMeans
      <4>2. ReadsLevels(r, params, calls, calling)
        BY <3>3, <3>4 DEF ReadingInv
      <4>3. /\ calling = Member(params, calls, Depth(calls))
            /\ Level(params, calls, Depth(calls)).called \in Nat \ {0}
        BY <1>1, <3>1, MemberCalled
      <4>4. rows = Matching[calling] /\ rows \in SUBSET Rows
        BY <3>1, <3>2, <4>1, PredicateMeaning
      <4>5. r \in ReadingShape /\ r.sound /\ r.wants_operand
        BY <3>1, <4>2 DEF ReadsLevels, Wants, Busy
      <4>6. next = Sound(WithOperand(r.frames, rows), FALSE)
        BY <3>2, <4>5, TokensRead
      <4> HIDE DEF rows, next, r
      <4>7. ReadsLevels(next, params, calls, NoCondition)
        BY <1>1, <3>1, <4>2, <4>3, <4>4, <4>6, LevelTakes
      <4> QED
        BY <4>7 DEF next
    <3> QED
      BY <1>4, <3>1, <3>2, <3>3, <3>4
  <2>2. Refused # Pending
    BY DEF Refused, Pending
  <2> QED
    BY <1>3, <1>9, <2>1, <2>2 DEF CallPredicate
<1>10. CASE CallGroup
  <2>1. CASE calling.conditions # << >>
    <3> DEFINE token == [token |-> "("]
               next == Read(r, token, output'.bindings)
    <3>1. /\ calling # NoCondition /\ IsGroup(calling) /\ Push("(") /\ calling' = NoCondition
          /\ calls' = Append(calls, [group |-> calling, called |-> 0])
          /\ params' = params /\ operation' = operation /\ compiled' = compiled
      BY <1>10, <2>1 DEF CallGroup
    <3>2. Appends(token, << >>) /\ operation # "none" /\ calling \in Conditions
      BY <1>1, <1>6, <3>1, PushAppends
    <3>3. ASSUME params.condition \in Answerable
          PROVE  ReadsLevels(next, params, calls', NoCondition)
      <4>1. ReadsLevels(r, params, calls, calling)
        BY <3>2, <3>3 DEF ReadingInv
      <4>2. r \in ReadingShape /\ r.sound /\ r.wants_operand
        BY <3>1, <4>1 DEF ReadsLevels, Wants, Busy
      <4>3. next = Sound(Append(r.frames, NothingRead), TRUE)
        BY <4>2, TokensRead
      <4> HIDE DEF next, r
      <4> QED
        BY <1>1, <3>1, <3>2, <4>1, <4>3, LevelOpens
    <3> HIDE DEF token
    <3> QED
      BY <1>4, <3>1, <3>2, <3>3
  <2>2. Refused # Pending
    BY DEF Refused, Pending
  <2> QED
    BY <1>3, <1>10, <2>1, <2>2 DEF CallGroup
<1>11. CASE CallMember
  <2> DEFINE n == Len(calls)
             operator == calls[n].group.operator
             token == [token |-> operator]
  <2>1. /\ calls # << >> /\ calling = NoCondition
        /\ params' = params /\ operation' = operation /\ compiled' = compiled
    BY <1>11 DEF CallMember, Open
  <2>2. /\ n \in Nat \ {0} /\ n \in DOMAIN calls /\ Innermost = calls[n] /\ calls[n].called \in Nat
        /\ calls[n].group.conditions \in Seq(Conditions) /\ operator \in {"AND", "OR"}
    BY <1>1, <2>1, OpenCalls
  <2>3. /\ calling' \in Conditions
        /\ calls' = [calls EXCEPT ![n].called = @ + 1]
        /\ IF calls[n].called > 0 THEN Push(operator) ELSE output' = output
    BY <1>11, <2>2 DEF CallMember
  <2>4. calling' # NoCondition /\ operation # "none"
    BY <1>6, <2>1, <2>3, NoConditionIsNone
  <2>5. ASSUME params.condition \in Answerable
        PROVE  /\ ReadsLevels(r, params, calls, NoCondition)
               /\ r \in ReadingShape /\ r.sound /\ Len(r.frames) = n + 1
               /\ r.wants_operand = (calls[n].called = 0)
    <3>1. ReadsLevels(r, params, calls, NoCondition)
      BY <2>1, <2>4, <2>5 DEF ReadingInv
    <3>2. Depth(calls) = n + 1 /\ Level(params, calls, n + 1) = calls[n]
      BY <2>2 DEF Depth, Level
    <3> HIDE DEF r
    <3>3. Wants(params, calls, NoCondition, n + 1) = (calls[n].called = 0)
      BY <3>2 DEF Wants, Busy
    <3> QED
      BY <3>1, <3>2, <3>3 DEF ReadsLevels
  <2>6. CASE calls[n].called > 0
    <3> DEFINE next == Read(r, token, output'.bindings)
    <3>1. Appends(token, << >>)
      BY <1>1, <2>2, <2>3, <2>6, PushAppends
    <3>2. ASSUME params.condition \in Answerable
          PROVE  ReadsLevels(next, params, calls', calling')
      <4> DEFINE frames == IF operator = "OR"
                           THEN [r.frames EXCEPT ![n + 1] = [any |-> Value(r.frames[n + 1]), all |-> Rows]]
                           ELSE r.frames
      <4> HIDE DEF r, n
      <4>1. r.wants_operand = FALSE
        <5>1. (calls[n].called = 0) = FALSE
          BY <2>6
        <5> QED
          BY <2>5, <3>2, <5>1
      <4>2. next = Sound(frames, TRUE)
        <5>1. r \in ReadingShape /\ r.sound /\ ~r.wants_operand /\ Len(r.frames) = n + 1
          BY <2>5, <3>2, <4>1
        <5>2. CASE operator = "AND"
          <6>1. token.token = "AND" /\ frames = r.frames
            BY <5>2
          <6> HIDE DEF token, frames, operator
          <6> QED
            BY <5>1, <6>1, TokensRead
        <5>3. CASE operator = "OR"
          <6>1. /\ token.token = "OR"
                /\ frames = [r.frames EXCEPT ![n + 1] = [any |-> Value(r.frames[n + 1]), all |-> Rows]]
            BY <5>3
          <6> HIDE DEF token, frames, operator
          <6>2. next = Sound([r.frames EXCEPT ![Len(r.frames)]
                               = [any |-> Value(r.frames[Len(r.frames)]), all |-> Rows]], TRUE)
            BY <5>1, <6>1, TokensRead
          <6> QED
            BY <5>1, <6>1, <6>2
        <5> QED
          BY <2>2, <5>2, <5>3
      <4>3. frames \in Seq(FrameShape)
        <5>1. r.frames \in Seq(FrameShape) /\ n + 1 \in 1 .. Len(r.frames)
          BY <2>2, <2>5, <3>2 DEF ReadingShape
        <5>2. r.frames[n + 1] \in FrameShape
          BY <5>1
        <5>3. [any |-> Value(r.frames[n + 1]), all |-> Rows] \in FrameShape
          BY <5>2 DEF FrameShape, Value
        <5> QED
          BY <5>1, <5>3, ExceptSeq
      <4> HIDE DEF next, frames
      <4>4. /\ next.frames = frames /\ next.sound /\ next.wants_operand = TRUE
            /\ next \in ReadingShape
        BY <4>2, <4>3 DEF Sound, ReadingShape
      <4>5. next.frames = IF calls[n].called > 0 /\ calls[n].group.operator = "OR"
                          THEN [r.frames EXCEPT ![Len(r.frames)]
                                  = [any |-> Value(r.frames[Len(r.frames)]), all |-> Rows]]
                          ELSE r.frames
        BY <2>5, <2>6, <3>2, <4>4 DEF frames
      <4> HIDE DEF r
      <4>6. ReadsLevels(next, params, [calls EXCEPT ![Len(calls)].called = @ + 1], calling')
        BY <1>1, <2>1, <2>4, <2>5, <3>2, <4>4, <4>5, LevelGoesOn DEF n
      <4> QED
        BY <2>3, <4>6 DEF n
    <3> HIDE DEF token
    <3> QED
      BY <1>4, <2>1, <2>4, <3>1, <3>2
  <2>7. CASE ~(calls[n].called > 0)
    <3>1. ASSUME params.condition \in Answerable
          PROVE  ReadsLevels(r, params, calls', calling')
      <4>1. calls[n].called = 0
        BY <2>2, <2>7
      <4>2. r.wants_operand = TRUE
        BY <2>5, <3>1, <4>1
      <4>3. r.frames = IF calls[n].called > 0 /\ calls[n].group.operator = "OR"
                       THEN [r.frames EXCEPT ![Len(r.frames)]
                               = [any |-> Value(r.frames[Len(r.frames)]), all |-> Rows]]
                       ELSE r.frames
        BY <2>7
      <4> HIDE DEF r
      <4>4. ReadsLevels(r, params, [calls EXCEPT ![Len(calls)].called = @ + 1], calling')
        BY <1>1, <2>1, <2>4, <2>5, <3>1, <4>2, <4>3, LevelGoesOn
      <4> QED
        BY <2>3, <4>4
    <3> QED
      BY <1>5, <2>1, <2>3, <2>4, <2>7, <3>1
  <2> QED
    BY <2>6, <2>7
<1>12. CASE LeaveGroup
  <2> DEFINE n == Len(calls)
             group == calls[n].group
             token == [token |-> ")"]
             next == Read(r, token, output'.bindings)
  <2>1. /\ calls # << >> /\ calling = NoCondition /\ Push(")") /\ calls' = Front(calls)
        /\ Innermost.called = Len(Innermost.group.conditions)
        /\ params' = params /\ operation' = operation /\ compiled' = compiled /\ calling' = calling
    BY <1>12 DEF LeaveGroup, Open
  <2>2. /\ n \in Nat \ {0} /\ n \in DOMAIN calls /\ Innermost = calls[n] /\ calls[n].called \in Nat
        /\ group \in Conditions /\ IsGroup(group)
        /\ Len(Front(calls)) = n - 1 /\ \A k \in 1 .. n - 1 : Front(calls)[k] = calls[k]
    BY <1>1, <2>1, OpenCalls
  <2>3. Appends(token, << >>) /\ operation # "none"
    BY <1>1, <1>6, <2>1, PushAppends
  <2>4. ASSUME params.condition \in Answerable
        PROVE  ReadsLevels(next, params, calls', NoCondition)
    <3> DEFINE rows == Value(Last(r.frames))
               above == Sound(Front(r.frames), TRUE)
               outer == Front(calls)
    <3>1. ReadsLevels(r, params, calls, NoCondition)
      BY <2>1, <2>3, <2>4 DEF ReadingInv
    <3>2. /\ Depth(calls) = n + 1 /\ Level(params, calls, n + 1) = calls[n]
          /\ calls[n].called = Len(group.conditions) /\ group.conditions # << >>
          /\ group = Member(params, calls, n)
          /\ group \in Answerable
      <4>1. /\ group.conditions # << >> /\ group = Member(params, calls, n)
        BY <2>2 DEF PathInv, OnPath
      <4>2. group \in Answerable
        BY <2>2, <2>3, <2>4, CalledMeans
      <4> QED
        BY <2>1, <2>2, <4>1, <4>2 DEF Depth, Level
    <3>3. calls[n].called > 0
      BY <2>2, <3>2, MembersAreConditions, EmptySeq
    <3>4. /\ r \in ReadingShape /\ r.sound /\ ~r.wants_operand /\ Len(r.frames) = n + 1
          /\ r.frames \in Seq(FrameShape) /\ r.frames # << >>
          /\ FrameReads(r.frames[n + 1], group, calls[n].called, FALSE)
      <4> HIDE DEF r
      <4>1. Wants(params, calls, NoCondition, n + 1) = FALSE
        BY <2>2, <3>2, <3>3 DEF Wants, Busy
      <4>2. Called(params, calls, NoCondition, n + 1) = calls[n].called
        BY <2>2, <3>2 DEF Called, Busy
      <4>3. n + 1 \in 1 .. Depth(calls)
        BY <2>2, <3>2
      <4> HIDE DEF n
      <4>4. FrameReads(r.frames[n + 1], group, calls[n].called, FALSE)
        <5>1. FrameReads(r.frames[n + 1], Level(params, calls, n + 1).group,
                         Called(params, calls, NoCondition, n + 1),
                         Wants(params, calls, NoCondition, n + 1))
          BY <3>1, <4>3 DEF ReadsLevels
        <5> QED
          BY <3>2, <4>1, <4>2, <5>1
      <4>5. r \in ReadingShape /\ r.sound /\ r.frames \in Seq(FrameShape) /\ Len(r.frames) = n + 1
        BY <3>1, <3>2 DEF ReadsLevels
      <4>6. ~r.wants_operand
        BY <3>1, <3>2, <4>1 DEF ReadsLevels
      <4>7. r.frames # << >>
        BY <2>2, <4>5, EmptySeq
      <4> QED
        BY <4>4, <4>5, <4>6, <4>7
    <3>5. rows = Matching[group] /\ rows \in SUBSET Rows
      <4>1. Last(r.frames) = r.frames[n + 1]
        BY <3>4, LastAndFront
      <4>2. rows = Matched(group, Len(group.conditions))
        BY <3>2, <3>4, <4>1, FrameCloses
      <4> QED
        BY <2>2, <3>2, <4>2, GroupMeaning, MeaningIsRows
    <3>6. next = Sound(WithOperand(above.frames, rows), FALSE)
      <4>1. above.frames = Front(r.frames)
        BY DEF Sound
      <4>2. Len(r.frames) # 1
        BY <2>2, <3>4
      <4>3. token.token = ")"
        OBVIOUS
      <4> HIDE DEF token, r, n
      <4>4. Read(r, token, output'.bindings)
              = Sound(WithOperand(Front(r.frames), Value(Last(r.frames))), FALSE)
        BY <3>4, <4>2, <4>3, TokensRead
      <4> QED
        BY <4>1, <4>4
    <3>7. group # NoCondition
      BY <2>2, NoConditionIsNone
    <3>8. ReadsLevels(above, params, outer, group)
      BY <1>1, <2>1, <3>1, <3>7, LevelLeft
    <3>9. /\ Len(outer) \in Nat /\ Depth(outer) = n
          /\ Level(params, outer, n) = Level(params, calls, n)
      BY <2>2 DEF Depth, Level
    <3>10. /\ Member(params, outer, Depth(outer)) = group
           /\ Level(params, outer, Depth(outer)).called \in Nat \ {0}
      <4>1. Member(params, outer, n) = group
        BY <3>2, <3>9 DEF Member
      <4>2. Level(params, calls, n).called \in Nat \ {0}
        <5>1. CASE n = 1
          BY <5>1 DEF Level, Whole
        <5>2. CASE n # 1
          <6>1. n - 1 \in DOMAIN calls /\ Busy(calls, calling, n)
            BY <1>1, <2>2, <3>2, <5>2 DEF Busy
          <6>2. calls[n - 1].called \in Nat
            <7> DEFINE S == [group : {m \in Conditions : IsGroup(m)}, called : Nat]
            <7>1. calls \in Seq(S) /\ n - 1 \in 1 .. Len(calls)
              BY <1>1, <6>1 DEF CallsShape
            <7> HIDE DEF S, n
            <7>2. calls[n - 1] \in S
              BY <7>1, ElementOfSeq
            <7> QED
              BY <7>2 DEF S
          <6>3. calls[n - 1].called > 0
            <7>1. (n - 1) + 1 = n
              BY <2>2
            <7> QED
              BY <6>1, <7>1 DEF PathInv, OnPath
          <6> QED
            BY <5>2, <6>2, <6>3 DEF Level
        <5> QED
          BY <5>1, <5>2
      <4> QED
        BY <3>9, <4>1, <4>2
    <3> HIDE DEF next, above, rows, outer, group, r
    <3>11. ReadsLevels(next, params, outer, NoCondition)
      BY <3>5, <3>6, <3>7, <3>8, <3>9, <3>10, LevelTakes
    <3> QED
      BY <2>1, <3>11 DEF outer
  <2> HIDE DEF token
  <2> QED
    BY <1>4, <2>1, <2>3, <2>4
<1>13. CASE FinishFind \/ FinishCount
  <2>1. FindFragment # Pending /\ CountFragment # Pending
    BY DEF FindFragment, CountFragment, Refused, Pending
  <2> QED
    BY <1>3, <1>13, <2>1 DEF FinishFind, FinishCount
<1> QED
  BY <1>8, <1>9, <1>10, <1>11, <1>12, <1>13 DEF Next

(* A condition that is written has been read as one expression, true of the *)
(* rows it matches.                                                        *)
LEMMA ConditionRead ==
  ASSUME TypeOK, PathInv, AskInv, ReadingInv, operation # "none",
         calling = NoCondition, calls = << >>
  PROVE  /\ output.sql # << >> => Parses(operation)
         /\ (IF output.sql = << >> THEN Rows ELSE Value(reading[operation].frames[1]))
              = Matches(params.condition)
<1>1. Asks(params.condition)
  BY DEF AskInv, RestAsks, Asks
<1>2. CASE params.condition = NoCondition
  BY <1>2 DEF PathInv, Matches
<1>3. CASE params.condition # NoCondition
  <2> DEFINE r == reading[operation]
             group == Whole(params).group
  <2>1. params.condition \in Answerable
    BY <1>1, <1>3 DEF Asks
  <2>2. output.sql # << >>
    BY <1>3 DEF PathInv
  <2>3. Depth(calls) = 1 /\ Level(params, calls, 1) = Whole(params) /\ Whole(params).called = 1
    BY DEF Depth, Level, Whole
  <2>4. Wants(params, calls, NoCondition, 1) = FALSE /\ Called(params, calls, NoCondition, 1) = 1
    BY <2>3 DEF Wants, Called, Busy
  <2>5. ReadsLevels(r, params, calls, NoCondition)
    BY <2>1 DEF ReadingInv
  <2> HIDE DEF r
  <2>6. r.sound /\ ~r.wants_operand /\ Len(r.frames) = 1 /\ FrameReads(r.frames[1], group, 1, FALSE)
    <3>1. FrameReads(r.frames[1], Level(params, calls, 1).group,
                     Called(params, calls, NoCondition, 1), Wants(params, calls, NoCondition, 1))
      BY <2>3, <2>5 DEF ReadsLevels
    <3>2. FrameReads(r.frames[1], group, 1, FALSE)
      BY <2>3, <2>4, <3>1
    <3>3. r.sound /\ ~r.wants_operand /\ Len(r.frames) = 1
      BY <2>3, <2>4, <2>5 DEF ReadsLevels
    <3> QED
      BY <3>2, <3>3
  <2>7. Value(r.frames[1]) = Matched(group, 1)
    BY <2>6, FrameCloses
  <2>8. Matched(group, 1) = Matching[params.condition]
    <3>1. /\ group.operator = "AND" /\ group.conditions[1] = params.condition
          /\ \A i : i \in 1 .. 1 <=> i = 1
      BY DEF Whole
    <3>2. Matching[params.condition] \subseteq Rows
      BY <2>1, MeaningIsRows
    <3> HIDE DEF group
    <3> QED
      BY <3>1, <3>2 DEF Matched
  <2> QED
    BY <1>3, <2>2, <2>6, <2>7, <2>8 DEF r, Parses, Matches
<1> QED
  BY <1>2, <1>3

LEMMA FilterStep ==
  ASSUME TypeOK, PathInv, AskInv, ReadingInv, TextInv, FilterSelectsMatches, Next, Reads
  PROVE  FilterSelectsMatches'
<1>1. /\ params' = params /\ params \in RequestShape /\ output \in OutputShape
      /\ DOMAIN reading = Operations
  BY CompiledSteps DEF TypeOK, OutputShape, ReadingInv
<1>2. SUFFICES ASSUME NEW o \in Operations, Ok(o)'
               PROVE  /\ Fragment(o)'.where # << >> => Parses(o)'
                      /\ WellTyped(Fragment(o)'.where, Fragment(o)'.bindings)
                      /\ Selected(o)' = Matches(params.condition)
  BY <1>1 DEF FilterSelectsMatches
<1>3. CASE compiled'[o] = compiled[o]
  <2>1. Ok(o) /\ Fragment(o)' = Fragment(o)
    BY <1>2, <1>3 DEF Ok, Fragment
  <2>2. o # operation
    <3>1. operation \in Operations \cup {"none"} /\ Pending.status # "ok"
      BY DEF TypeOK, Pending
    <3> QED
      BY <1>2, <2>1, <3>1 DEF PathInv, Ok, Operations
  <2>3. reading'[o] = reading[o]
    BY <1>1, <2>2 DEF Reads
  <2>4. Parses(o)' <=> Parses(o)
    BY <2>3 DEF Parses
  <2>5. Selected(o)' = Selected(o)
    BY <2>1, <2>3 DEF Selected
  <2> QED
    BY <2>1, <2>4, <2>5 DEF FilterSelectsMatches
<1>4. CASE compiled'[o] = Refused
  BY <1>2, <1>4 DEF Ok, Refused
<1>5. ASSUME operation = o, calling = NoCondition, calls = << >>, output' = EmptyOutput,
             Fragment(o)'.where = output.sql
      PROVE  /\ Fragment(o)'.where # << >> => Parses(o)'
             /\ Selected(o)' = Matches(params.condition)
  <2>1. reading' = reading
    BY <1>1, <1>5, ReadsNothing
  <2>2. operation # "none"
    BY <1>2, <1>5 DEF Operations
  <2>3. /\ output.sql # << >> => Parses(o)
        /\ (IF output.sql = << >> THEN Rows ELSE Value(reading[o].frames[1]))
             = Matches(params.condition)
    BY <1>5, <2>2, ConditionRead
  <2>4. Parses(o)' <=> Parses(o)
    BY <2>1 DEF Parses
  <2>5. Selected(o)' = IF output.sql = << >> THEN Rows ELSE Value(reading[o].frames[1])
    BY <1>5, <2>1 DEF Selected
  <2> QED
    BY <1>5, <2>3, <2>4, <2>5
<1>6. CASE o = "find" /\ FinishFind /\ compiled'[o] = FindFragment
  <2>1. /\ operation = o /\ calling = NoCondition /\ calls = << >> /\ output' = EmptyOutput
    BY <1>6 DEF FinishFind, Return
  <2>2. FindFragment # Refused
    BY <1>2, <1>6 DEF Ok, Refused
  <2>3. WellTyped(FindFragment.where, FindFragment.bindings) /\ FindFragment.where = output.sql
    BY <1>1, <2>2, FindFragmentPages
  <2>4. Fragment(o)' = FindFragment
    BY <1>6 DEF Fragment
  <2> QED
    BY <1>5, <2>1, <2>3, <2>4
<1>7. CASE o = "count" /\ FinishCount /\ compiled'[o] = CountFragment
  <2>1. /\ operation = o /\ calling = NoCondition /\ calls = << >> /\ output' = EmptyOutput
    BY <1>7 DEF FinishCount, Return
  <2>2. WellTyped(CountFragment.where, CountFragment.bindings) /\ CountFragment.where = output.sql
    BY DEF TextInv, CountFragment
  <2>3. Fragment(o)' = CountFragment
    BY <1>7 DEF Fragment
  <2> QED
    BY <1>5, <2>1, <2>2, <2>3
<1> QED
  BY <1>3, <1>4, <1>6, <1>7, CompiledSteps

-----------------------------------------------------------------------------
(* The inductive invariant. *)
CompilerInv ==
  TypeOK /\ PathInv /\ AskInv /\ TextInv /\ FindInv /\ PlaceholdersInOrder /\ RefusesExactly
ReadInv == CompilerInv /\ ReadingInv /\ FilterSelectsMatches

LEMMA InitInv ==
  ASSUME ReadInit
  PROVE  ReadInv
<1>1. /\ params \in Requests /\ operation = "none" /\ calling = NoCondition /\ calls = << >>
      /\ output = EmptyOutput /\ compiled = [o \in Operations |-> Pending]
      /\ reading = [o \in Operations |-> StartReading]
  BY DEF ReadInit, Init
<1>2. \A o \in Operations : compiled[o] = Pending /\ ~Ok(o)
  BY <1>1 DEF Ok, Pending
<1>3. "find" \in Operations /\ "count" \in Operations /\ "none" \notin Operations
  BY DEF Operations
<1>4. EmptyOutput.sql = << >> /\ EmptyOutput.bindings = << >> /\ DOMAIN << >> = {}
  BY DEF EmptyOutput
<1>5. TypeOK
  <2>1. EmptyOutput \in [sql : Seq(Tokens), bindings : Seq(Values)]
    BY DEF EmptyOutput
  <2> QED
    BY <1>1, <1>2, <1>3, <1>4, <2>1, RequestsAssumption DEF TypeOK
<1>6. PathInv /\ AskInv
  BY <1>1, <1>3, <1>4 DEF PathInv, AskInv, OnPath
<1>7. TextInv
  BY <1>1, <1>4 DEF TextInv, Numbered, WellTyped
<1>8. FindInv /\ PlaceholdersInOrder /\ RefusesExactly
  BY <1>2, <1>3 DEF FindInv, PlaceholdersInOrder, RefusesExactly
<1>9. ReadingInv /\ FilterSelectsMatches
  BY <1>1, <1>2 DEF ReadingInv, FilterSelectsMatches
<1> QED
  BY <1>5, <1>6, <1>7, <1>8, <1>9 DEF ReadInv, CompilerInv

LEMMA StepInv ==
  ASSUME ReadInv, [ReadNext]_<<vars, reading>>
  PROVE  ReadInv'
<1>1. CASE ReadNext
  <2>1. Next /\ Reads /\ [Next]_vars
    BY <1>1 DEF ReadNext
  <2>2. TypeOK /\ PathInv /\ AskInv /\ TextInv /\ FindInv /\ PlaceholdersInOrder /\ RefusesExactly
        /\ ReadingInv /\ FilterSelectsMatches
    BY DEF ReadInv, CompilerInv
  <2>3. TypeOK' /\ TextInv' /\ PathInv' /\ AskInv'
    BY <2>1, <2>2, TypeStep, TextStep, PathStep, AskStep
  <2>4. FindInv' /\ PlaceholdersInOrder' /\ RefusesExactly'
    BY <2>1, <2>2, FragmentStep, RefusalStep
  <2>5. ReadingInv' /\ FilterSelectsMatches'
    BY <2>1, <2>2, ReadingStep, FilterStep
  <2> QED
    BY <2>3, <2>4, <2>5 DEF ReadInv, CompilerInv
<1>2. CASE UNCHANGED <<vars, reading>>
  BY <1>2 DEF vars, ReadInv, CompilerInv, TypeOK, PathInv, AskInv, TextInv, FindInv,
     PlaceholdersInOrder, RefusesExactly, ReadingInv, FilterSelectsMatches, Ok, Fragment, Slot,
     Parses, Selected, OnPath, RestAsks, IsFragment
<1> QED
  BY <1>1, <1>2

THEOREM CompilerInvariant == ReadSpec => []ReadInv
<1>1. ReadInit => ReadInv
  BY InitInv
<1>2. ReadInv /\ [ReadNext]_<<vars, reading>> => ReadInv'
  BY StepInv
<1> QED
  BY <1>1, <1>2, PTL DEF ReadSpec

-----------------------------------------------------------------------------
(* The order and the pages that follow from what a find is compiled to. *)

(* A key compares as the portable order does, nulls included. *)
LEMMA KeyCompares ==
  ASSUME NEW field \in DOMAIN Columns, NEW direction \in {"asc", "desc"},
         NEW r \in Rows, NEW s \in Rows,
         NEW key, key = [expression |-> ColumnExpression(field),
                         descending |-> direction = "desc", nulls_first |-> direction = "asc"]
  PROVE  /\ r[field] \in Nat \cup {SqlNull} /\ s[field] \in Nat \cup {SqlNull}
         /\ Before(key, r, s) <=> IF direction = "asc" THEN r[field] < s[field]
                                                       ELSE r[field] > s[field]
<1>1. r[field] \in Nat \cup {SqlNull} /\ s[field] \in Nat \cup {SqlNull}
  BY RowsAssumption
<1>2. /\ key.expression.field = field
      /\ key.descending = (direction = "desc") /\ key.nulls_first = (direction = "asc")
      /\ key.expression.kind = Columns[field]
      /\ key.expression.collate_c = (Columns[field] = "Text")
  BY DEF ColumnExpression
<1>3. \A rank : Collated(key.expression, rank) = rank
  BY <1>2 DEF Collated
<1>4. CASE r[field] = SqlNull \/ s[field] = SqlNull
  <2>1. Before(key, r, s) <=>
          /\ r[field] # s[field]
          /\ IF r[field] = SqlNull THEN direction = "asc" ELSE ~(direction = "asc")
    BY <1>2, <1>4 DEF Before
  <2> QED
    BY <1>1, <1>4, <2>1 DEF SqlNull
<1>5. CASE r[field] # SqlNull /\ s[field] # SqlNull
  <2>1. Before(key, r, s) <=> IF key.descending THEN r[field] > s[field] ELSE r[field] < s[field]
    BY <1>2, <1>3, <1>5 DEF Before
  <2>2. CASE direction = "asc"
    <3>1. key.descending = FALSE
      BY <1>2, <2>2
    <3> QED
      BY <1>1, <2>1, <2>2, <3>1
  <2>3. CASE direction = "desc"
    <3>1. key.descending = TRUE
      BY <1>2, <2>3
    <3> QED
      BY <1>1, <2>1, <2>3, <3>1
  <2> QED
    BY <2>2, <2>3
<1> QED
  BY <1>1, <1>4, <1>5

LEMMA SortIsOrdered ==
  ASSUME TypeOK, FindInv
  PROVE  OrderIsPortable
<1> SUFFICES ASSUME Ok("find"), NEW r \in Rows, NEW s \in Rows
             PROVE  OrderedBefore(Fragment("find").order_by, r, s) <=> SortsBefore(params.sort, r, s)
  BY DEF OrderIsPortable
<1> DEFINE sort == params.sort
           keys == OrderBy(sort)
<1>1. /\ Fragment("find").order_by = keys
      /\ \A i \in DOMAIN sort : sort[i].field \in DOMAIN Columns
      /\ sort \in Seq([field : STRING, direction : {"asc", "desc"}])
  BY DEF FindInv, TypeOK, RequestShape
<1>2. DOMAIN keys = DOMAIN sort /\ DOMAIN sort = 1 .. Len(sort) /\ Len(sort) \in Nat
  BY <1>1 DEF OrderBy
<1>3. ASSUME NEW i \in DOMAIN sort, NEW t \in Rows, NEW u \in Rows
      PROVE  /\ t[sort[i].field] \in Nat \cup {SqlNull} /\ u[sort[i].field] \in Nat \cup {SqlNull}
             /\ Before(keys[i], t, u) <=>
                  IF sort[i].direction = "asc" THEN t[sort[i].field] < u[sort[i].field]
                                               ELSE t[sort[i].field] > u[sort[i].field]
  <2>1. sort[i].field \in DOMAIN Columns /\ sort[i].direction \in {"asc", "desc"}
    <3> HIDE DEF sort
    <3>1. sort[i] \in [field : STRING, direction : {"asc", "desc"}]
      BY <1>1, <1>2, <1>3, ElementOfSeq
    <3> QED
      BY <1>1, <1>3, <3>1
  <2>2. keys[i] = [expression |-> ColumnExpression(sort[i].field),
                   descending |-> sort[i].direction = "desc",
                   nulls_first |-> sort[i].direction = "asc"]
    BY <1>3 DEF OrderBy
  <2> HIDE DEF keys, sort
  <2> QED
    BY <2>1, <2>2, KeyCompares
<1> HIDE DEF keys, sort
<1>4. ASSUME NEW i \in DOMAIN sort
      PROVE  ~Before(keys[i], r, s) /\ ~Before(keys[i], s, r) <=> r[sort[i].field] = s[sort[i].field]
  BY <1>3 DEF SqlNull
<1>5. OrderedBefore(keys, r, s) <=> SortsBefore(sort, r, s)
  <2>1. ASSUME NEW i \in DOMAIN sort, NEW j \in 1 .. i - 1 PROVE j \in DOMAIN sort
    BY <1>2
  <2> QED
    BY <1>2, <1>3, <1>4, <2>1 DEF OrderedBefore, SortsBefore
<1> QED
  BY <1>1, <1>5 DEF sort

(* A slot of a page holds its bound; a page end that is not asked for has   *)
(* none.                                                                   *)
LEMMA PagesAreBound ==
  ASSUME TypeOK, FindInv, FilterSelectsMatches
  PROVE  PageIsCounted
<1> SUFFICES ASSUME Ok("find"), Ok("count"), NEW table \in Tables
             PROVE  LET rest == Greatest(0, Cardinality(Selected("count") \cap table) - params.offset)
                    IN  PageLength(Fragment("find"), table) =
                          IF params.limit = NoLimit THEN rest ELSE Least(params.limit, rest)
  BY DEF PageIsCounted
<1> DEFINE f == Fragment("find")
           total == Cardinality(Selected("count") \cap table)
<1>1. Selected("find") = Selected("count")
  BY DEF FilterSelectsMatches, Operations
<1>2. total \in Nat
  BY TablesAssumption, FS_Intersection, FS_CardinalityType
<1>3. params.offset \in Nat /\ params.limit \in Nat \cup {NoLimit}
  BY DEF TypeOK, RequestShape
<1>4. 0 \notin DOMAIN f.bindings
  BY DEF TypeOK, IsFragment, Operations, Ok, Fragment, Pending, Refused
<1>5. Slot(f, f.limit, params.limit, NoLimit) /\ Slot(f, f.offset, params.offset, 0)
  BY DEF FindInv
<1>6. /\ params.limit = NoLimit => f.limit = 0
      /\ params.limit # NoLimit => f.limit # 0 /\ f.bindings[f.limit].rank = params.limit
      /\ params.offset = 0 => f.offset = 0
      /\ params.offset # 0 => f.offset # 0 /\ f.bindings[f.offset].rank = params.offset
  BY <1>4, <1>5 DEF Slot, BigInt
<1>7. PageLength(f, table) =
        LET rest == IF f.offset = 0 THEN total ELSE Greatest(0, total - f.bindings[f.offset].rank)
        IN  IF f.limit = 0 THEN rest ELSE Least(f.bindings[f.limit].rank, rest)
  BY <1>1 DEF PageLength
<1> HIDE DEF f, total
<1>8. total = Greatest(0, total - 0)
  BY <1>2 DEF Greatest
<1>9. PageLength(f, table) =
        LET rest == Greatest(0, total - params.offset)
        IN  IF params.limit = NoLimit THEN rest ELSE Least(params.limit, rest)
  BY <1>6, <1>7, <1>8
<1> QED
  BY <1>9 DEF f, total

-----------------------------------------------------------------------------
(* Theorems. *)

(* Type correctness: calls are open with groups of something, no null is    *)
(* bound, and BIGINTs only where a page has slots.                         *)
THEOREM CompilerTypes == ReadSpec => []TypeOK
<1>1. ReadInv => TypeOK
  BY DEF ReadInv, CompilerInv
<1> QED
  BY <1>1, CompilerInvariant, PTL

(* CompilerOutput numbers its placeholders $1 to $n in the order of their   *)
(* bindings, across nested conditions, LIMIT and OFFSET.                   *)
THEOREM PlaceholdersAreNumbered == ReadSpec => []PlaceholdersInOrder
<1>1. ReadInv => PlaceholdersInOrder
  BY DEF ReadInv, CompilerInv
<1> QED
  BY <1>1, CompilerInvariant, PTL

(* compile_find and compile_count refuse what they cannot answer and        *)
(* nothing else.                                                           *)
THEOREM RefusalsAreExact == ReadSpec => []RefusesExactly
<1>1. ReadInv => RefusesExactly
  BY DEF ReadInv, CompilerInv
<1> QED
  BY <1>1, CompilerInvariant, PTL

(* The WHERE clause written for a condition of any depth parses, is well    *)
(* typed and is true of exactly the rows that the condition matches.       *)
THEOREM FiltersMean == ReadSpec => []FilterSelectsMatches
<1>1. ReadInv => FilterSelectsMatches
  BY DEF ReadInv
<1> QED
  BY <1>1, CompilerInvariant, PTL

(* ORDER BY sorts any two rows as the portable sort does: nulls least, text *)
(* bytewise, earlier keys first.                                           *)
THEOREM SortsAreOrdered == ReadSpec => []OrderIsPortable
<1>1. ReadInv => OrderIsPortable
  BY SortIsOrdered DEF ReadInv, CompilerInv
<1> QED
  BY <1>1, CompilerInvariant, PTL

(* A page of a find has the rows that the count of the same parameters      *)
(* leaves after OFFSET, up to LIMIT.                                       *)
THEOREM PagesAreCounted == ReadSpec => []PageIsCounted
<1>1. ReadInv => PageIsCounted
  BY PagesAreBound DEF ReadInv, CompilerInv
<1> QED
  BY <1>1, CompilerInvariant, PTL

============================================================================
