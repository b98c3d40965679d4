------------------------- MODULE MCPgQueryCompiler -------------------------
(* PgQueryCompiler on a table of four columns and conditions of depth two. *)
EXTENDS PgQueryMeaning

Kinds == [active |-> "Bool", age |-> "Numeric", name |-> "Text", id |-> "Uuid"]

(* Every combination of the null and two values of age and name. *)
SomeRows ==
  {[active |-> b, age |-> a, name |-> n, id |-> 0] :
     b \in {0, 1}, a \in {-1, 0, 1}, n \in {-1, 0, 1}}

SomeTables ==
  SUBSET {[active |-> b, age |-> a, name |-> 0, id |-> 0] : b \in {0, 1}, a \in {-1, 1}}

Scalar(f, r) == [family |-> f, rank |-> r]
SomeScalars ==
  {Scalar("Bool", 1), Scalar("I64", 0), Scalar("U64", 1), Scalar("String", 0),
   Scalar("String", 1), Scalar("Null", -1), Scalar("NotFinite", 0)}
List(items) == [family |-> "List", items |-> items]
SomeLists ==
  {List(<< >>)} \cup {List(<<v>>) : v \in SomeScalars} \cup {List(<<v, w>>) : v, w \in SomeScalars}

Predicate(f, o, v) == [operator |-> o, field |-> f, value |-> v]

(* Any operator on any field, mapped or not, with any value. *)
SomePredicates ==
  {Predicate(f, o, v) :
     f \in {"active", "age", "name", "id", "missing"},
     o \in Comparisons \cup SetTests \cup NullTests,
     v \in {Absent} \cup SomeScalars \cup SomeLists}

(* A few of them to be combined. *)
Parts ==
  { Predicate("active", "eq", Scalar("Bool", 1)),
    Predicate("age", "gte", Scalar("U64", 1)),
    Predicate("age", "not_in", List(<<Scalar("I64", 0), Scalar("I64", 1)>>)),
    Predicate("age", "in", List(<< >>)),
    Predicate("age", "is_null", Absent),
    Predicate("name", "lt", Scalar("String", 1)),
    Predicate("missing", "is_null", Absent) }

Group(o, cs) == [operator |-> o, conditions |-> cs]
PairsOf(parts) == {Group(o, <<c, d>>) : o \in {"AND", "OR"}, c, d \in parts}
Pairs == PairsOf(Parts)

(* Some pairs, and groups of them. *)
Few == {p \in Parts : p.operator \in {"gte", "not_in", "in"} \/ p.field = "missing"}
Nested ==
  {Group(o, <<c, g>>) : o \in {"AND", "OR"}, c \in Few, g \in PairsOf(Few)}
  \cup {Group(o, <<g, c>>) : o \in {"AND", "OR"}, c \in Few, g \in PairsOf(Few)}
Odd ==
  {Group("OR", << >>)}
  \cup {Group("AND", <<c, Group("OR", << >>)>>) : c \in Parts}
  \cup {Group(o, <<c, d, e>>) : o \in {"AND", "OR"}, c, d, e \in Few}
  \cup {Group("AND", <<g, h>>) : g, h \in {p \in PairsOf(Few) : p.operator = "OR"}}

SomeConditions == UNION {SomePredicates, Parts, Pairs, Nested, Odd}

(* The equations of PgQueryMeaning, solved from the leaves up. *)
RECURSIVE Answers(_)
Answers(c) ==
  IF IsGroup(c)
  THEN c.conditions # << >> /\ \A i \in DOMAIN c.conditions : Answers(c.conditions[i])
  ELSE PredicateIsAnswerable(c)

RECURSIVE Satisfies(_, _)
Satisfies(c, row) ==
  CASE c.operator = "AND" -> \A i \in DOMAIN c.conditions : Satisfies(c.conditions[i], row)
    [] c.operator = "OR" -> \E i \in DOMAIN c.conditions : Satisfies(c.conditions[i], row)
    [] OTHER -> PredicateMatches(c, row)

SomeAnswerable == {c \in SomeConditions : Answers(c)}
SomeMatching == [c \in SomeAnswerable |-> {row \in SomeRows : Satisfies(c, row)}]

(* TLC evaluates a definition once, but a constant's value at every use. *)
AllConditions == SomeConditions
AllAnswerable == SomeAnswerable
AllMatching == SomeMatching
AllRows == SomeRows

Request(c, s, l, o) == [condition |-> c, sort |-> s, limit |-> l, offset |-> o]
Sort(f, d) == [field |-> f, direction |-> d]
SomeKeys == {Sort(f, d) : f \in {"age", "name", "missing"}, d \in {"asc", "desc"}}
Sorts == {<< >>} \cup {<<k>> : k \in SomeKeys} \cup {<<k, l>> : k, l \in SomeKeys}

(* Every condition unsorted, and every sort and page of a few conditions. *)
SomeRequests ==
  {Request(c, << >>, -1, 0) : c \in SomeConditions \cup {NoCondition}}
  \cup {Request(c, s, l, o) :
          c \in Parts \cup {NoCondition}, s \in Sorts, l \in -1 .. 3, o \in 0 .. 3}
=============================================================================
