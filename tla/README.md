# A verification of soap-sqlx

`soap-sqlx` is a PostgreSQL adapter for the soaprs repository ports: about two
thousand lines of Rust under `src/src/postgres` that compile portable queries
and entities to SQL, run them on a pool, a shared transaction or a
primary/replica router, and map what comes back. These modules model that code,
check it with TLC on small instances, and prove with TLAPS, for every value of
the constants, all of the safety properties that hold. Liveness is model-checked.

    tlc -workers 2 -config MCTransactionSafety.cfg MCPgTransactionSource
    tlapm PgTransactionSource_proofs.tla

`PROJECT.json` maps every definition to the lines it stands for, and lists the
runs, the mutants that show each property can fail, the hazards, the findings
and the theorems.

## The system

| Part | Source | State it keeps | Operations | What makes it correct |
|---|---|---|---|---|
| `PgSource` | `source.rs` | none: the boundary | `fetch_all`, `fetch_optional`, `fetch_one`, `apply`, `apply_one` | a statement is performed at most once; the answer says whether it was, or that it is unknown |
| `PgPoolSource` | `source.rs` | a handle of the pool | the five, on any pool connection | every call returns, also when no connection is free; a connection is used by one call |
| `PgTransactionSource` | `transaction.rs` | `Mutex<Active(transaction) / Completed>` | `begin`, the five, `commit`, `rollback`, drop | one user of the connection at a time; writes kept all or none; commit's Ok means what it says; the connection comes back clean |
| `PgPrimaryReplicaSource` | `router.rs` | `AtomicUsize` counter | the five | reads rotate evenly, writes go to the primary |
| `PgFieldMap`, `PgColumn` | `mapping.rs` | logical field to column | `with`, `insert`, `resolve` | one column for each field; no refused name in it |
| `PgEntityMapping` | `entity.rs` | field map, declaration order, identity | `with_*_field`, `validate` | map and order agree; a validated mapping has a selectable identity |
| `PgRepository` | `repository.rs` | source, codec, compiler: none mutable | `find`, `get`, `count`, `insert`, `replace`, `remove`, `*_returning` | placeholders and bindings agree; permissions kept; one row addressed by its identity |
| `PgQueryCompiler` | `compiler.rs` | none | `compile_condition`, `compile_find`, `compile_count` | the fragment selects and orders what the portable query means |
| `PgNativeQueryHandler` | `native_query.rs` | source, spec | `bind`, `query` | it returns what one version of the table held |
| Error mapping | `error.rs` | none | `map_sqlx_error` | no kind says "not done" of what may have been done, and a transient Infrastructure error only of a conflict between transactions |
| `PgValue`, `PgBindValue` | `value.rs`, `compiler.rs` | none | binding, encoding | PostgreSQL reads what was sent |
| `PgIdentifier` | `identifier.rs` | none | `new`, quoting | a name is accepted or refused |

**How they interact.** A repository, or a native query handler, holds an
`Arc<dyn PgSource>` and calls one of its five methods per operation, after
compiling and before decoding. A router is a source over sources. A transaction
is a source shared, through its `Arc`, by any number of repositories and tasks;
whoever holds it may call `commit` or `rollback` at any moment. All calls are
futures: they make progress when polled and may be dropped at any await.

**What is hard.** Everything in the transaction. Statements hold an async mutex
across their await; `commit` and `rollback` take the transaction out, release
the mutex and only then await. A future dropped in the middle leaves a request
on the connection. A statement the server rejects aborts the transaction there
and leaves the source `Active`. Links fail around COMMIT. Beyond it: an atomic
counter that wraps; a pool whose connections open transactions hold, and whose
errors may leave a write undecided or still to come; replicas that lag; loops
that number placeholders while some columns have none; statements whose one text
is sent with several encodings; and SQL's three-valued logic, precedence, typing and null ordering
against a portable query language that has none of these. The hazards, at their
lines, are in `PROJECT.json`.

## The modules

| Module | Models | State and actions |
|---|---|---|
| `UnitOfWork` | the promise of a shared transaction | `phase`, `staged`, `acked`, `stored`; Stage, Acknowledge, Commit, Discard |
| `PgTransactionSource` | `transaction.rs` over a connection and a server | below |
| `PgSource` | the contract of the trait in `source.rs` | `called`, `times`, `told`; Call, TakeEffect, Tell |
| `PgPoolSource` | `source.rs` and `begin`, over a pool and a server | below |
| `SqlxErrors` | `error.rs` | operators: MapSqlxError, MapDatabaseError |
| `PgRepository` | the operations of `repository.rs`, `native_query.rs`, over a routed table | below |
| `PgPrimaryReplicaSource` | `router.rs` | `next_replica` is the counter; `picked`, `laps`, `last` record history; ReadReplica, ReadPrimary, Apply |
| `PgEntityMapping` | `entity.rs`, `mapping.rs` | `columns`, `ordered_fields`, `id_field`; WithField, NewRepository |
| `PgFieldMap` | `mapping.rs` in the hands of a direct user | `columns`; Insert, With; `granted` and `reported` record what callers were told |
| `PgStatements` | the compile functions of `repository.rs`, over any mapping | one action for each turn of a loop, as each may fail: Begin, Skip, Assign, FinishInsert, BindId |
| `PgBindValue` | value binding in `compiler.rs`, `value.rs` | operators: which variant, which wire type, which cast |
| `PgPreparedStatements` | statements of one text on one connection | `prepared`, `last`; Write, ById, Find, Evict, Reconnect |
| `PgQueryCompiler` | `compiler.rs` | below |
| `PgQueryMeaning` | what PostgreSQL makes of a fragment (external) and what the query means | `reading`, a history variable: what PostgreSQL has read so far; Reads |
| `*_proofs` | theorems about the module they extend | |
| `MC*` | values for the constants, symmetry | |

### PgTransactionSource

Each caller's future is `idle`, `locking` (at `state.lock().await`), `ready`
(it may send) or `awaiting` an answer. `state` and `guard` are the mutex: what
is in it, and which future holds its guard across an await. The actions are the
awaits of the code:

- `LockForStatement`, `Send`, `StatementReply`: `fetch_all` to `apply_one`, which
  keep the guard from lock to answer;
- `TakeActive`, `Send`, `FinishReply`: `commit` and `rollback`. The guard is a
  local of `take_active`, so `guard` stays free; the owned transaction is what
  excludes others;
- `RejectCompleted`: the error of a completed source;
- `CancelLocking`, `CancelStatement`, `CancelFinish`: a dropped future;
- `DropSource`: the last `Arc` goes while the source is `Active`.

The rest is external, modelled from how the code uses it. SQLx keeps one
request and its answer on a connection, drains abandoned ones before the next
(`Send` waits for `sent = "none"`), and queues a ROLLBACK when a transaction that
has not ended is dropped (`ReleaseConnection`). PostgreSQL aborts a transaction
at the first rejected statement, answers COMMIT of an aborted one with success
after rolling back, may reject a COMMIT, and rolls back when its client is gone.
`BreakLink` loses the connection at any moment: an answer that had arrived may be
lost with it, and a request that had left may still be performed.

### PgPoolSource and PgRepository

`PgPoolSource` gives every call a future that is `acquiring`, `executing`, `done`
or `dropped`. `Call`, `Reply` and `Cancel` are the code's; `Keeps` is `begin`,
which hands its connection to the transaction instead of returning it. Acquire,
timeout, close, answers and lost links are the pool's and the server's. The code
adds no retry, so its property is that of a source: `KeepsContract` maps each
call's answer to `ok`, `rejected` or `unknown` and refines `PgSource`. A request
whose caller has an Io error, or has gone, stays on the `wire` and may still be
served: this is why `unknown` leaves a later effect open.

`PgRepository` does not repeat the pool: it composes the operations with that
contract (`wire`, `answer`, `times`), with the router's choice (`AtPrimary`,
`Readable`) and with a table kept as the sequence of its committed `versions`,
each replica at one of them. `Call` hands the compiled statement over,
`CompileFails` is every error before that, `Results` is everything after the
await: `map_sqlx_error`, `rows_affected`, `decode`. Which statement is compiled is
the subject of `PgStatements` and `PgQueryCompiler`. A row is the call that wrote
it, so that two writes never look alike. The rotation is `PgPrimaryReplicaSource`'s;
here a read may meet any replica. A codec error after a write is in `Results`
because `insert_returning` and `replace_returning` decode what is already durable.

### PgPreparedStatements

Execution is external: SQLx prepares a text once on each connection, with the
types its first bindings declare, finds it again by its text alone, and sends
every binding in its own binary encoding. The code decides the rest: that texts
of `find` and `get` may coincide (`Text`), which variant a value becomes, the type
that variant declares (`DeclaredType`) and the cast. A null is the same in every
encoding and is always read.

### PgQueryCompiler and PgQueryMeaning

`write_condition` calls itself, so its calls are steps and the Rust stack is a
variable: `calls` holds the groups it is inside of, with the number of members
already called, `calling` the condition it is called with next, `output` the
`CompilerOutput`. `Compile` starts `compile_find` or `compile_count`;
`CallPredicate` resolves and writes a test; `CallGroup`, `CallMember` and
`LeaveGroup` are the opening parenthesis, an iteration of the loop and the closing
one; `FinishFind` and `FinishCount` are what follows the condition. An error
returns at once through every open call (`Return`). A group of nothing is refused
by the external `validate` before anything is written; here it is refused when
reached, which gives the same result.

Both the text and what it means have to be followed through conditions of any
depth, so neither uses a recursive operator. PostgreSQL's reading of the tokens
(`Read`) is an automaton with a frame per open parenthesis: the rows that the
alternatives read so far are true of, and the rows that the operands of the current
one are all true of. It reads each token as it is written. `Reads` gives `reading`
its next value in every step and guards none, and the compiler never looks at it: it
is a history variable, and without it the steps are those of the compiler.
The portable meaning is a constant function, `Matching`, given by one equation for
each kind of condition, and `Answerable` is the set of conditions that ask something
of mapped columns. Conditions are finite trees, so both equations have exactly one
solution; `MCPgQueryCompiler` computes it and TLC checks the equations.

## What the runs check

**transaction_safety** - three callers, two writes, reads, every interleaving
with cancellation, rejection and loss of the link.
`ConnectionExclusive`: never two users of the connection, although two kinds of
call exclude each other by different means. `AllOrNothing`: the durable writes
are the committed transaction or nothing; a statement reaching the connection
after its transaction has ended would commit on its own, and would show here.
`CommitOkExact`: what an Ok of `commit` says. `RollbackDiscards`: a source ended
by rollback or drop keeps nothing, whatever its caller was told.
`ReleasedSettles`: no connection goes back to the pool inside a transaction that
nobody is ending. `NoAckAfterTake`: no write is acknowledged once the
transaction is taken. `NoAckAfterSpoil`: none is acknowledged once a statement has
been rejected, so an error that `map_sqlx_error` calls transient is not followed, on
the same source, by statements that seem to work. `ImplementsUnitOfWork`: the whole refines `UnitOfWork`.
`IInv` is the inductive invariant of the proofs. Three callers are enough for a
statement, a finishing call and a waiter; two writes tell "all" from "some". The
server, the link and the connection are one each in the code too.

**transaction_liveness** - three callers, one write. `CallsReturn`: every call
returns. `TransactionEnds`: a completed or dropped source's transaction ends on
the server. No symmetry, as TLC needs for liveness.

**transaction_aborted**, **immutable_shared**, **null_retyped** - expected to fail,
see Findings.

**pool** - a statement and two transactions on two connections, so that
transactions alone can hold them all; one retryable, one connection and one
constraint error. `KeepsContract`: nothing runs twice, Ok and rejections are true
for good. `ConnectionsAccounted`: a connection out of the pool has a user.
`CallsReturn`: with every connection held and nobody ending a transaction, calls
still return. `ConnectionsReturn`: a statement, a failed begin and an abandoned one
give theirs back. `PInv` is the inductive invariant.

**repository** - two calls, each any of the nine operations, on one identifier, with
none, one or two replicas. Two calls are what it takes to race an insert or a
removal with `rows_affected`, and for a late effect to follow the next call.
`ResultsMatchHistory`: every result is one the table could have given at a moment
between the call and its return; a read through replicas may be stale, and no
staler than the slowest was when it began. `KeepsContract`: what the mapped result
says of the statement is true; the operation keeps the contract its source keeps.
NotFound, Conflict and Timeout say that it was not done. Transience does not: which
errors `SoapError`'s constructors make transient is decided outside this repository
(`TransientKinds`; a test shows it of Timeout only, and the theorem holds for any
choice), and an Unavailable error stands for a write that may have happened, marked
transient or not. Only a transient Infrastructure error says "not done", if its
constructor does not make it so: then `map_database_error` did, for 40001 or 40P01.
The run makes Unavailable transient. A codec error is told apart here by where
it comes from, whatever kind the codec gives it. `RepositoryInv` is the inductive invariant.

**field_map** - three fields, a refused name, four columns, any sequence of calls.
`NoSilentChange`: a field resolves to the column granted to it, unless a caller was
told of a duplicate. It allows what `insert` does after that report: the refused column
stays in the map.

**prepared** - a column of each of the ten kinds, every value, every history.
`PreparedInv`: every statement is one PostgreSQL takes. `OnlyMixedEncodingsMisread`:
a value is misread only after one of the four mixtures of encodings under Findings, of
any kind of column; booleans, texts, bytes, conditions on numbers and the identity of a
removal never are. Each of the four does occur.

**router** - up to six replicas, a counter modulo 16, four wraps.
`ExactShares` is the exact difference between the reads of any two replicas,
`Balanced` the bound it implies, `Rotation` the order. With 16 and up to six
replicas there are lists whose length divides the modulus (1, 2, 4) and lists
where the turn of the counter breaks the rotation (3, 5, 6), over several laps.

**statements** - the mappings of up to three fields, with a name the builder
refuses, five permission sets (the three of the code, write-only, and none), and
every combination of a value, null, DEFAULT, a value of the wrong family and a
codec error. Three fields allow a DEFAULT before, between and after bound
columns, beside the identity; with three physical columns each field may have its own
or share one, as nothing in the code forbids. `OrderMatchesMap`, `PlaceholdersAligned`,
`BindingsUsedOnce`, `AddressesIdentity` and `AssignsPermitted` say that the statement
assigns the fields it may, once, each with its own value. What `AssignsPermitted` says of
columns (a generated column is never written, a replacement does not write the identity's,
none is named twice) it says of mappings whose fields have their own (`OwnColumns`): with
a shared column none of it holds, see Findings.

**queries** - all eleven operators, on a boolean, a number, a text, a UUID and an
unmapped field, with every kind of value and list (null and non-finite ones
included); pairs of seven predicates, groups of three, groups in groups and groups of
nothing; up to two sort keys; limits and offsets from none to one past the largest
BIGINT (2 here). The tokens are read as PostgreSQL would, OR loosest, on rows of two
values and a null. `FilterSelectsMatches`: the WHERE clause parses, is well typed and
selects the rows the condition matches. `OrderIsPortable`: ORDER BY is the portable
order, nulls least. `PlaceholdersInOrder`, `RefusesExactly` and `PageIsCounted` cover
numbering, refusal and paging against `count`. A group in a group on either side of a
predicate is what a missing parenthesis would need to show; the proofs cover any depth.
Two things are taken as they are: a LIKE of PostgreSQL is the portable LIKE, one relation
on both sides; and `::numeric` of a column changes no value, which is so for integer and
numeric columns and not for real and double precision ones.

Deadlock is checked for the router and the prepared statements, which never stop.
Elsewhere the system ends when callers stop calling, a fragment is compiled or a
builder has dropped its map. Every bound is a
constant named in its module or in its MC module.

## Fairness

`FairSpec` of `PgTransactionSource` assumes

- weak fairness of `Send` and `Reply`: the runtime polls a woken future; a task
  that does not want the answer drops its future, which is a `Cancel`;
- strong fairness of each caller's `Lock`: the mutex is free infinitely often but
  not continuously. `async_lock` gives a starved waiter the lock in turn, which is
  exactly that;
- weak fairness of `Serve` and `AbandonSession`: the server answers what it was
  sent, or notices that the client is gone.

`FairSpec` of `PgPoolSource` assumes that an acquire gets a connection or its error
(SQLx always has an acquire timeout), that a woken future is polled, and that a
request on the wire is served or forgotten. Nobody is obliged to call, cancel,
drop or break anything, nor to end a transaction.

## What is proved

| Module | Theorems | Argument |
|---|---|---|
| `PgTransactionSource_proofs` | all properties of transaction_safety; `UnitIsAllOrNothing`, `SourceIsAllOrNothing` | `IInv` is inductive; the abstract unit commits only what is staged |
| `PgPrimaryReplicaSource_proofs` | all properties of router | `RInv` and modular arithmetic from five lemmas |
| `PgPoolSource_proofs` | all safety properties of pool; `ContractIsTruthful`, `PoolIsTruthful` | `PInv` is inductive; the contract lets nothing run twice and tells nobody anything untrue |
| `PgRepository_proofs` | all properties of repository; `RepositoryIsTruthful` | `RepositoryInv` is inductive |
| `PgFieldMap` | `ChangesAreReported` | the property is inductive as it stands |
| `PgStatements_proofs` | all properties of statements | `MInv` for the mapping, `SInv` for the loop |
| `PgPreparedStatements_proofs` | all properties of prepared | `HistoryInv` is inductive |
| `PgQueryMeaning_proofs` | all properties of queries | `ReadInv` is inductive |

*Transactions.* `ConnectionExclusive` is not inductive: a statement and a finishing
call exclude each other only because taking the transaction needs a free guard
and leaves the source `Completed`. `LockDiscipline` says so for the mutex;
`WireDiscipline` says whose request is on the connection and that an answer is
for the caller that awaits it; `SessionDiscipline` says when the server's
transaction can have ended, and that acknowledged writes are staged ones;
`AnswersTrue` says what an answer that has arrived proves. `AllOrNothing` needs
all of them, as it must show that no statement is on the wire when the session
has ended. `Refinement` maps every action to a step of `UnitOfWork` or a stutter, and
`SourceIsAllOrNothing` carries what is proved of the abstract unit over to the source.
The assumptions are that `NoCaller` is no caller and that writes are not named
like the other calls; the sets may be infinite.

*Pool.* `KeepsContract` is a refinement, and needs to know that an answer which
settles a call leaves nothing of it on the wire: `Settles` in `PInv`. The bound on
connections is kept by cardinalities, hence the assumption that the calls are
finitely many and that statements and begins differ.

*Repository.* `Settles` relates wire, answer, effects and result of each call;
`Linearizes` says what an answer proves of the table's history. Histories only
grow, so what was found in one stays there. `MapIsFaithful` is the lemma on the
error mapping: of a rejection it never says "done", and of an ambiguous error never
"not done", whatever is transient by default. The assumptions name the absent and the old row apart from the calls,
and that a duplicate key is among the errors.

*Router.* `RInv` adds that `last` is the replica before the counter's. The step
of `SharesAreExact` splits on whether the counter wraps. The assumption is that
the modulus is positive.

*Statements.* `SInv` relates the slots to the prefix of the declaration order the
loop has passed, with each placeholder's number, and the bindings to the slots;
the theorems follow at the loop's end for any number of fields.

*Prepared statements.* `PreparedInv` says that a statement was prepared well, which
later calls can use only if they know by which variant: `StatementInv` adds that an
operation with the same text prepared it, by a variant that operation sends. The rest is
which operations share a text (`TextsAreApart`) and which of what they send declares
another type (`MisreadsAreMixed`). The theorems are for any kinds of column.

*Queries.* `ReadInv` has one part for each thing a step of the compiler needs to know.
`PathInv`: the open calls are a path from the condition to the one called next, each
the member that the call above is at; without it nothing relates the stack to the
condition it came from. `TextInv`: the tokens so far are numbered $1 to $n and well
typed with the bindings so far. `AskInv`: the condition has an answer if what is
called and what is still to be called has, and only then; it is what makes
`RefusesExactly` hold when an error is met deep inside. `ReadingInv`, for a condition
with an answer: PostgreSQL has a frame for each open call, and has read in it the
members of that group that have returned, so an AND frame is true of the rows that
match all of them and an OR frame of those that match one. This is a proof by
induction over the condition, carried by the stack: when a group is left, its frame
is its meaning (`FrameCloses`) and becomes an operand of the frame above (`LevelTakes`).
`TestMeaning` is the base, a single test in three-valued logic. `FindInv` keeps what a
compiled find holds of its parameters, from which the order (`SortIsOrdered`) and the
pages (`PagesAreBound`) follow. The assumptions are the shapes of columns, conditions and
requests, finite tables for counting, and the two equations above.

Model-checked only: liveness (`CallsReturn`, `TransactionEnds`, `ConnectionsReturn`), which
TLAPS does not reach, and the violations below. Not proved either: that the equations of
`Matching` and `Answerable` have a solution for every set of conditions, which is induction
over data; TLC evaluates them for the conditions of the run.

## Findings

`commit` returns Ok for a transaction that a rejected statement has aborted: the
COMMIT of an aborted transaction succeeds, by rolling back, and nothing in the
source remembers the rejection. Its doc comment (`transaction.rs:38`) says
"Commits the transaction". The rejection may have been another caller's, or one
whose future was dropped before its error was read. `transaction_aborted` finds
an acknowledged write that is not durable after an Ok; `CommitOkExact` states
what the Ok does mean, and is proved.

An immutable field may be overwritten by a replacement. Neither `PgFieldMap` nor
`validate` compares physical columns, so a field added by `with_immutable_field`
("replacements never update", `entity.rs:98`) may share its column with an ordinary
field, and `compile_replace` assigns it. `immutable_shared` finds the smallest case.
The same way an ordinary field that shares the column of a generated field or of the
identity writes that column; hence the condition in `AssignsPermitted`.

A null does not take its column's type. `value.rs:50` says that the mapped column
supplies it, and `into_arguments` sends a null UUID, JSON value, date or time as a
null text (`compiler.rs:123`). Alone this is harmless, as the placeholder is cast.
But the statement is then prepared with a text parameter, and a later call of the
same statement on that connection sends a UUID's sixteen bytes to be read as text.
`null_retyped` finds the two inserts. It rests on the external part of
`PgPreparedStatements`, SQLx's cache keyed by text. Other pairs of encodings do the
same: an exact decimal beside an integer, and `find` and `get`, either before the
other, on a UUID, JSON or date identity, whose SELECT may be the same text.
`OnlyMixedEncodingsMisread` is proved: there are no others.

## Not modelled, and why

Quoting, SQL wording and RETURNING lists are text. `PgIdentifier` is a predicate
on names. Values are scalar families and ranks. `From` conversions wrap a value.
The codec, the application's native SQL and the conditions' own validation are
external. `lib.rs` and `mod.rs` declare modules; the integration tests need a
server and are read, not modelled. Accessors return a field.

The models are composed by contracts, not by one product. `PgRepository` speaks of
sources whose statements commit on their own; over a transaction source its effects
wait for the commit, and `PgTransactionSource` says what an Ok is worth. Several repositories on one router are several calls of
`PgRepository`. Prepared statements are followed on one connection and for one
placeholder, as connections share nothing and placeholders do not disturb each
other.

## Order of work

The transaction and its abstract unit came first, then the router, mapping and
statements, the query compiler; then the contract of a source with pool, error
mapping and repository on it, the field map, and last the encodings on a
connection. The compiler was then turned into steps, so that it could be proved about,
and its meaning and the prepared statements were proved. What could still be done: a
transaction source under `PgRepository`, where a statement's effect waits for the commit,
and a LIKE that matches characters.
