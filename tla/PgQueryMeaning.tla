--------------------------- MODULE PgQueryMeaning ---------------------------
(***************************************************************************)
(* What PostgreSQL makes of a compiled fragment (external), what the        *)
(* portable query means, and that the two agree on every row.              *)
(*                                                                         *)
(* PostgreSQL's reading of a text is kept beside the compiler's variables:  *)
(* it depends on the tokens read so far, so it grows as they are written.  *)
(***************************************************************************)
EXTENDS PgQueryCompiler, FiniteSets

CONSTANTS
  Rows,        \* the rows a table may hold: field |-> rank or SqlNull
  Tables,      \* the tables on which a page is counted
  Answerable,  \* the conditions that ask something of the mapped columns
  Matching     \* the portable meaning: condition |-> the rows it matches

VARIABLE reading   \* per compilation, what PostgreSQL has read of its text

ASSUME RowsAssumption == Rows \subseteq [DOMAIN Columns -> Nat \cup {SqlNull}]
ASSUME TablesAssumption == Tables \subseteq {table \in SUBSET Rows : IsFiniteSet(table)}

-----------------------------------------------------------------------------
(* The portable meaning: a null is in no set, compares with nothing, sorts  *)
(* below every value, and only the null tests see it.                      *)

(* Comparisons of two values that are not null.  LIKE stands for any        *)
(* relation between a text and a pattern, which the portable operator and   *)
(* PostgreSQL's are taken to share: patterns are handed on as they are.     *)
Compare(operator, a, b) ==
  CASE operator = "eq" -> a = b [] operator = "ne" -> a # b
    [] operator = "gt" -> a > b [] operator = "gte" -> a >= b
    [] operator = "lt" -> a < b [] operator = "lte" -> a <= b
    [] operator = "like" -> a \in {b, b + 1}

(* The values a column can be compared with. *)
Comparable(kind, value) ==
  CASE kind \in {"Bool", "Bytes"} -> value.family = kind
    [] kind = "Numeric" -> value.family \in {"I64", "U64", "F64"}
    [] OTHER -> value.family = "String"

PredicateIsAnswerable(c) ==
  /\ c.field \in DOMAIN Columns
  /\ c.operator \in SetTests =>
       /\ c.value.family = "List"
       /\ \A i \in DOMAIN c.value.items : Comparable(Columns[c.field], c.value.items[i])
  /\ c.operator \in Comparisons => Comparable(Columns[c.field], c.value)
  /\ c.operator = "like" => Columns[c.field] = "Text"

PredicateMatches(c, row) ==
  CASE c.operator = "is_null" -> row[c.field] = SqlNull
    [] c.operator = "is_not_null" -> row[c.field] # SqlNull
    [] c.operator \in SetTests ->
         /\ row[c.field] # SqlNull
         /\ (c.operator = "in") <=>
              \E i \in DOMAIN c.value.items : c.value.items[i].rank = row[c.field]
    [] c.operator \in Comparisons ->
         row[c.field] # SqlNull /\ Compare(c.operator, row[c.field], c.value.rank)

(* Conditions are finite trees, on which these equations have one solution. *)
ASSUME AnswerableAssumption ==
  /\ Answerable \subseteq Conditions
  /\ \A c \in Conditions :
       c \in Answerable <=>
         IF IsGroup(c)
         THEN c.conditions # << >> /\ \A i \in DOMAIN c.conditions : c.conditions[i] \in Answerable
         ELSE PredicateIsAnswerable(c)

ASSUME MatchingAssumption ==
  /\ DOMAIN Matching = Answerable
  /\ \A c \in Answerable :
       Matching[c] =
         CASE c.operator = "AND" -> {r \in Rows : \A i \in DOMAIN c.conditions : r \in Matching[c.conditions[i]]}
           [] c.operator = "OR" -> {r \in Rows : \E i \in DOMAIN c.conditions : r \in Matching[c.conditions[i]]}
           [] OTHER -> {r \in Rows : PredicateMatches(c, r)}

Asks(c) == c = NoCondition \/ c \in Answerable
Matches(c) == IF c = NoCondition THEN Rows ELSE Matching[c]

SortsBefore(sort, r, s) ==
  \E i \in DOMAIN sort :
    /\ IF sort[i].direction = "asc" THEN r[sort[i].field] < s[sort[i].field]
                                    ELSE r[sort[i].field] > s[sort[i].field]
    /\ \A j \in 1 .. i - 1 : r[sort[j].field] = s[sort[j].field]

-----------------------------------------------------------------------------
(* PostgreSQL: tests.  True, unknown and false are kept apart in a test;    *)
(* AND and OR are true of the rows all, or one, of their operands are true *)
(* of, and no other operator is written.                                   *)
False3 == -1
Unknown3 == 0
True3 == 1
Truth(b) == IF b THEN True3 ELSE False3

(* Without COLLATE "C" text has the database's order, here the reverse. *)
Collated(expression, rank) ==
  IF expression.kind = "Text" /\ ~expression.collate_c THEN 0 - rank ELSE rank

(* One test of a WHERE clause on a row. *)
EvalTest(test, bindings, row) ==
  LET cell == row[test.expression.field]
      operands == {bindings[test.params[i].number].rank : i \in DOMAIN test.params}
      known == operands \ {SqlNull}
      isIn == IF cell \in known THEN True3 ELSE IF SqlNull \in operands THEN Unknown3 ELSE False3
  IN  CASE test.operator = "is_null" -> Truth(cell = SqlNull)
        [] test.operator = "is_not_null" -> Truth(cell # SqlNull)
        [] test.operator \notin NullTests /\ cell = SqlNull -> Unknown3
        [] test.operator = "in" /\ cell # SqlNull -> isIn
        [] test.operator = "not_in" /\ cell # SqlNull -> 0 - isIn
        [] OTHER ->
             IF operands # known THEN Unknown3
             ELSE Truth(\A operand \in operands :
                          Compare(test.operator, Collated(test.expression, cell),
                                                 Collated(test.expression, operand)))

TrueOn(token, bindings) ==
  {row \in Rows : token.token = "test" /\ EvalTest(token, bindings, row) = True3}

(* PostgreSQL has no operator between, say, uuid and text. *)
WellTyped(sql, bindings) ==
  \A i \in DOMAIN sql :
    sql[i].token = "test" =>
      \A k \in DOMAIN sql[i].params :
        LET slot == sql[i].params[k] IN
        SqlType(sql[i].expression.kind) =
          (IF slot.cast = NoCast THEN bindings[slot.number].type ELSE slot.cast)

-----------------------------------------------------------------------------
(* PostgreSQL: the tokens of a WHERE clause, one after the other.  OR binds *)
(* loosest, then AND, then parentheses.  Per open parenthesis it keeps the *)
(* rows "any" of the alternatives already read is true of, and the rows     *)
(* "all" operands of the one being read are true of.                       *)
NothingRead == [any |-> {}, all |-> Rows]
Value(frame) == frame.any \cup frame.all
StartReading == [frames |-> <<NothingRead>>, wants_operand |-> TRUE, sound |-> TRUE]

(* An operand that is true of some rows. *)
WithOperand(frames, rows) == [frames EXCEPT ![Len(frames)].all = @ \cap rows]

Read(r, token, bindings) ==
  CASE token.token \in {"test", "FALSE"} ->
         [frames |-> WithOperand(r.frames, TrueOn(token, bindings)),
          wants_operand |-> FALSE, sound |-> r.sound /\ r.wants_operand]
    [] token.token = "AND" ->
         [r EXCEPT !.wants_operand = TRUE, !.sound = @ /\ ~r.wants_operand]
    [] token.token = "OR" ->
         [frames |-> [r.frames EXCEPT ![Len(r.frames)] = [any |-> Value(@), all |-> Rows]],
          wants_operand |-> TRUE, sound |-> r.sound /\ ~r.wants_operand]
    [] token.token = "(" ->
         [r EXCEPT !.frames = Append(@, NothingRead), !.sound = @ /\ r.wants_operand]
    [] token.token = ")" ->
         IF r.wants_operand \/ Len(r.frames) = 1
         THEN [r EXCEPT !.sound = FALSE]
         ELSE [r EXCEPT !.frames = WithOperand(Front(r.frames), Value(Last(r.frames)))]

(* The compiler's step appends at most one token, which PostgreSQL reads. *)
Reads ==
  reading' = IF Len(output'.sql) > Len(output.sql)
             THEN [reading EXCEPT ![operation] = Read(@, Last(output'.sql), output'.bindings)]
             ELSE reading

ReadInit == Init /\ reading = [o \in Operations |-> StartReading]
ReadNext == Next /\ Reads
ReadSpec == ReadInit /\ [][ReadNext]_<<vars, reading>>

(* A text that parses to one expression, and the rows that is true of. *)
Parses(o) == reading[o].sound /\ ~reading[o].wants_operand /\ Len(reading[o].frames) = 1
Selected(o) == IF Fragment(o).where = << >> THEN Rows ELSE Value(reading[o].frames[1])

Least(a, b) == IF a < b THEN a ELSE b
Greatest(a, b) == IF a > b THEN a ELSE b

(* How many rows of a table come back after OFFSET and LIMIT. *)
PageLength(f, table) ==
  LET Bound(slot) == f.bindings[slot].rank
      total == Cardinality(Selected("find") \cap table)
      rest == IF f.offset = 0 THEN total ELSE Greatest(0, total - Bound(f.offset))
  IN  IF f.limit = 0 THEN rest ELSE Least(Bound(f.limit), rest)

(* r comes before s under a key of ORDER BY, and under all of them. *)
Before(key, r, s) ==
  LET a == r[key.expression.field]
      b == s[key.expression.field]
  IN  CASE a = SqlNull \/ b = SqlNull ->
             a # b /\ (IF a = SqlNull THEN key.nulls_first ELSE ~key.nulls_first)
        [] OTHER ->
             LET x == Collated(key.expression, a)
                 y == Collated(key.expression, b)
             IN  IF key.descending THEN x > y ELSE x < y

OrderedBefore(keys, r, s) ==
  \E i \in DOMAIN keys :
    /\ Before(keys[i], r, s)
    /\ \A j \in 1 .. i - 1 : ~Before(keys[j], r, s) /\ ~Before(keys[j], s, r)

-----------------------------------------------------------------------------
(* PostgreSQL, with its grammar, its three-valued logic, its typing and its *)
(* collations, selects exactly the rows the condition matches.             *)
FilterSelectsMatches ==
  \A o \in Operations :
    Ok(o) =>
      /\ Fragment(o).where # << >> => Parses(o)
      /\ WellTyped(Fragment(o).where, Fragment(o).bindings)
      /\ Selected(o) = Matches(params.condition)

(* ORDER BY is the portable order: nulls least in either direction, text    *)
(* bytewise, earlier keys first.                                           *)
OrderIsPortable ==
  Ok("find") =>
    \A r, s \in Rows :
      OrderedBefore(Fragment("find").order_by, r, s) <=> SortsBefore(params.sort, r, s)

(* A find is refused exactly when its condition asks something the columns  *)
(* cannot answer, a sort field is unknown, or a page is beyond a BIGINT; a *)
(* count depends on the condition alone.                                   *)
RefusesExactly ==
  /\ compiled["find"] # Pending =>
       (Ok("find") <=>
          /\ Asks(params.condition)
          /\ \A i \in DOMAIN params.sort : params.sort[i].field \in DOMAIN Columns
          /\ params.limit <= MaxI64 /\ params.offset <= MaxI64)
  /\ compiled["count"] # Pending => (Ok("count") <=> Asks(params.condition))

(* A page of a find has as many rows as the count of the same parameters    *)
(* leaves after the offset, up to the limit.                               *)
PageIsCounted ==
  Ok("find") /\ Ok("count") =>
    \A table \in Tables :
      LET rest == Greatest(0, Cardinality(Selected("count") \cap table) - params.offset)
      IN  PageLength(Fragment("find"), table) =
            IF params.limit = NoLimit THEN rest ELSE Least(params.limit, rest)

=============================================================================
