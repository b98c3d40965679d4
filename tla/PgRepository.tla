---------------------------- MODULE PgRepository ----------------------------
(***************************************************************************)
(* The operations of PgRepository (repository.rs) and PgNativeQueryHandler *)
(* (native_query.rs): compile, hand one statement to the source, map its   *)
(* error, look at the rows.  The source routes reads and writes as         *)
(* PgPrimaryReplicaSource (router.rs) does, over a table that replicas      *)
(* replay late, and keeps the contract of PgSource (source.rs).            *)
(*                                                                         *)
(* Compilation is the subject of PgStatements and PgQueryCompiler: here it *)
(* succeeds or fails.  A row is the call that wrote it.                    *)
(***************************************************************************)
EXTENDS SqlxErrors, Naturals, Sequences

CONSTANTS
  Calls,         \* calls of the repository's operations, one each
  Ids,           \* entity identifiers
  NoRow, Old,    \* no row, and a row that was there before
  MaxReplicas    \* bound: the replicas considered

ASSUME RowsAssumption == NoRow \notin Calls /\ Old \notin Calls \cup {NoRow}
ASSUME ReplicasAssumption == MaxReplicas \in Nat
ASSUME DuplicatesAssumption == "23505" \in SqlStates

(* What is not an error of this crate's making: Ok, or the codec's error. *)
Outcome(kind) == WithTransience(kind, "none")

Inserts == {"insert", "insert_returning"}
Replaces == {"replace", "replace_returning"}
Writes == Inserts \cup Replaces \cup {"remove"}
Reads == {"get", "find", "count", "native_query"}

(* The method of the source each operation hands its statement to. *)
Method(op) ==
  CASE op \in {"insert", "replace", "remove"} -> "apply"
    [] op \in {"insert_returning", "replace_returning"} -> "apply_one"
    [] op = "get" -> "fetch_optional"
    [] op = "count" -> "fetch_one"
    [] OTHER -> "fetch_all"

Tables == [Ids -> Calls \cup {NoRow, Old}]

VARIABLES
  replicas,   \* how many replicas the source reads from
  versions,   \* the table after each committed write
  replayed,   \* the version each replica has reached
  pc,         \* where each call's future is suspended
  op, id,     \* what each call is about
  base,       \* the oldest version a call that starts now may be answered from
  wire,       \* statements sent and not served
  answer,     \* what the source returned
  seen,       \* the rows a read was served from
  result,     \* what the repository returned
  times       \* how often each statement has taken effect

callVars == <<op, id, base>>
tableVars == <<replicas, versions, replayed>>
vars == <<tableVars, pc, callVars, wire, answer, seen, result, times>>

Latest == Len(versions)
Current == versions[Latest]

Init ==
  /\ replicas \in 0 .. MaxReplicas
  /\ \E table \in [Ids -> {NoRow, Old}] :
       versions = <<table>> /\ seen = [c \in Calls |-> table]
  /\ replayed = [r \in 1 .. replicas |-> 1]
  /\ pc = [c \in Calls |-> "new"]
  /\ op = [c \in Calls |-> "none"]
  /\ id \in [Calls -> Ids]
  /\ base = [c \in Calls |-> 1]
  /\ wire = {}
  /\ answer = [c \in Calls |-> "none"]
  /\ result = [c \in Calls |-> Outcome("none")]
  /\ times = [c \in Calls |-> 0]

(* read_source: the primary serves writes, and reads if it is alone. *)
AtPrimary(method) == method \in {"apply", "apply_one"} \/ replicas = 0

Moves(c, to) == pc' = [pc EXCEPT ![c] = to]

(* The versions a read may be served now. *)
Readable(method) == IF AtPrimary(method) THEN {Latest} ELSE {replayed[r] : r \in 1 .. replicas}

(* Mutant: an operation whose connection broke is sent again. *)
CallRetries(c, o) ==
  /\ pc[c] = "new" \/ (pc[c] = "answered" /\ answer[c] = "Io" /\ o = op[c])
  /\ Moves(c, "sent")
  /\ op' = [op EXCEPT ![c] = o]
  /\ wire' = wire \cup {c}
  /\ answer' = [answer EXCEPT ![c] = "none"]
  /\ UNCHANGED <<tableVars, id, base, seen, result, times>>

(* The operation has compiled its statement and hands it to the source. *)
Call(c, o) ==
  /\ pc[c] = "new"
  /\ Moves(c, "sent")
  /\ op' = [op EXCEPT ![c] = o]
  /\ \E v \in Readable(Method(o)) :
       (\A w \in Readable(Method(o)) : v <= w) /\ base' = [base EXCEPT ![c] = v]
  /\ wire' = wire \cup {c}
  /\ UNCHANGED <<tableVars, id, answer, seen, result, times>>

(* compile_*, compiled_id, PgNativeStatement::bind, into_parts fail: nothing *)
(* reaches the source.                                                      *)
CompileFails(c) ==
  /\ pc[c] = "new"
  /\ Moves(c, "refused")
  /\ UNCHANGED <<tableVars, callVars, wire, answer, seen, result, times>>

-----------------------------------------------------------------------------
(* The source: one statement takes effect at most once; its answer reaches  *)
(* the caller if the caller still waits for it.                             *)

Serves(c, a) ==
  /\ c \in wire
  /\ wire' = wire \ {c}
  /\ IF pc[c] = "sent"
     THEN Moves(c, "answered") /\ answer' = [answer EXCEPT ![c] = a]
     ELSE UNCHANGED <<pc, answer>>
  /\ times' = IF a = "done" THEN [times EXCEPT ![c] = @ + 1] ELSE times
  /\ UNCHANGED <<replicas, replayed, callVars, result>>

(* An insert wants no row with its identifier, the others want one. *)
Fits(c) == op[c] \in Inserts <=> Current[id[c]] = NoRow
Row(c) == IF op[c] = "remove" THEN NoRow ELSE c

ServeWrite(c) ==
  /\ op[c] \in Writes /\ Fits(c)
  /\ Serves(c, "done")
  /\ versions' = Append(versions, [Current EXCEPT ![id[c]] = Row(c)])
  /\ UNCHANGED seen

(* A duplicate key, or no row: rows_affected() is 0, fetch_one finds none. *)
ServeMisfit(c) ==
  /\ op[c] \in Writes /\ ~Fits(c)
  /\ Serves(c, CASE op[c] \in Inserts -> "23505"
                 [] op[c] \notin Inserts /\ Method(op[c]) = "apply" -> "empty"
                 [] OTHER -> "RowNotFound")
  /\ UNCHANGED <<versions, seen>>

ServeRead(c) ==
  /\ op[c] \in Reads
  /\ Serves(c, "done")
  /\ \E v \in Readable(Method(op[c])) : seen' = [seen EXCEPT ![c] = versions[v]]
  /\ UNCHANGED versions

(* The pool or the server refuses the statement. *)
Refuse(c) ==
  /\ \E error \in {"PoolTimedOut", "PoolClosed", "Tls"} \cup SqlStates : Serves(c, error)
  /\ UNCHANGED <<versions, seen>>

(* The answer is lost, or the request: it may still be served. *)
LoseLink(c) ==
  /\ pc[c] \in {"sent", "answered"}
  /\ Moves(c, "answered")
  /\ \E error \in {"Io", "Protocol"} : answer' = [answer EXCEPT ![c] = error]
  /\ UNCHANGED <<tableVars, callVars, wire, seen, result, times>>

Replay(r) ==
  /\ replayed[r] < Latest
  /\ replayed' = [replayed EXCEPT ![r] = @ + 1]
  /\ UNCHANGED <<replicas, versions, pc, callVars, wire, answer, seen, result, times>>

-----------------------------------------------------------------------------
(* find, get: the codec sees no row when there is none. *)
NothingToDecode(c) ==
  \/ op[c] = "get" /\ seen[c][id[c]] = NoRow
  \/ op[c] = "find" /\ \A i \in Ids : seen[c][i] = NoRow

(* Mutant: a replacement does not look at rows_affected. *)
ResultsIgnoreRows(c) ==
  IF answer[c] \in SqlxErrors THEN {MapSqlxError(answer[c])}
  ELSE CASE op[c] \in {"insert", "replace"} -> {Outcome("ok")}
         [] op[c] = "remove" -> {Outcome(IF answer[c] = "done" THEN "removed" ELSE "absent")}
         [] op[c] = "count" -> {Outcome("ok"), MapSqlxError("Decode"), Soap("infrastructure")}
         [] OTHER -> {Outcome("ok")} \cup IF NothingToDecode(c) THEN {} ELSE {Outcome("codec_error")}

(* What an operation makes of its answer; a row may fail to decode, *)
(* and count refuses a negative number.                                    *)
Results(c) ==
  IF answer[c] \in SqlxErrors THEN {MapSqlxError(answer[c])}
  ELSE CASE op[c] = "insert" -> {Outcome("ok")}
         [] op[c] = "replace" -> {IF answer[c] = "empty" THEN Soap("not_found") ELSE Outcome("ok")}
         [] op[c] = "remove" -> {Outcome(IF answer[c] = "done" THEN "removed" ELSE "absent")}
         [] op[c] = "count" -> {Outcome("ok"), MapSqlxError("Decode"), Soap("infrastructure")}
         [] OTHER -> {Outcome("ok")} \cup IF NothingToDecode(c) THEN {} ELSE {Outcome("codec_error")}

Return(c) ==
  /\ pc[c] = "answered"
  /\ Moves(c, "done")
  /\ \E r \in Results(c) : result' = [result EXCEPT ![c] = r]
  /\ UNCHANGED <<tableVars, callVars, wire, answer, seen, times>>

(* The caller drops its future. *)
Cancel(c) ==
  /\ pc[c] \in {"sent", "answered"}
  /\ Moves(c, "dropped")
  /\ UNCHANGED <<tableVars, callVars, wire, answer, seen, result, times>>

Next ==
  \/ \E c \in Calls :
       \/ \E o \in Writes \cup Reads : Call(c, o)
       \/ CompileFails(c) \/ Return(c) \/ Cancel(c)
       \/ ServeWrite(c) \/ ServeMisfit(c) \/ ServeRead(c) \/ Refuse(c) \/ LoseLink(c)
  \/ \E r \in 1 .. replicas : Replay(r)

Spec == Init /\ [][Next]_vars

-----------------------------------------------------------------------------
Answers == {"none", "done", "empty"} \cup SqlxErrors
Kinds == {"none", "ok", "removed", "absent", "codec_error"} \cup SoapErrorKinds

(* Type correctness of the operations, the source and the table. *)
TypeOK ==
  /\ replicas \in Nat
  /\ versions \in Seq(Tables) /\ Latest > 0
  /\ replayed \in [1 .. replicas -> 1 .. Latest]
  /\ pc \in [Calls -> {"new", "refused", "sent", "answered", "done", "dropped"}]
  /\ op \in [Calls -> Writes \cup Reads \cup {"none"}]
  /\ id \in [Calls -> Ids]
  /\ base \in [Calls -> 1 .. Latest]
  /\ wire \subseteq Calls
  /\ answer \in [Calls -> Answers]
  /\ seen \in [Calls -> Tables]
  /\ result \in [Calls -> [kind : Kinds, transience : {"none", "transient", "other"}]]
  /\ times \in [Calls -> Nat]

(* A decoding error comes after the statement has taken effect. *)
SaysDone == {"ok", "removed", "codec_error"}
(* 40001 or 40P01, if no other Infrastructure error can be transient. *)
Concurrency(r) ==
  /\ r.kind = "infrastructure" /\ r.transience = "transient"
  /\ "infrastructure" \notin TransientKinds
SaysNotDone(r) ==
  r.kind \in {"absent", "not_found", "conflict", "timeout"} \/ Concurrency(r)

Told(c) ==
  CASE pc[c] # "done" -> "nothing"
    [] pc[c] = "done" /\ result[c].kind \in SaysDone -> "ok"
    [] pc[c] = "done" /\ SaysNotDone(result[c]) -> "rejected"
    [] OTHER -> "unknown"

Contract == INSTANCE PgSource WITH
  called <- {c \in Calls : pc[c] \notin {"new", "refused"}},
  told <- [c \in Calls |-> Told(c)]

(* A repository's results are as good as its source's: Ok, remove's true    *)
(* and a codec error say that the statement took effect, once; remove's     *)
(* false, NotFound, Conflict and Timeout that it did not and never will,    *)
(* and so does an Infrastructure error that is transient, if its            *)
(* constructor does not make it so.  The other errors leave it open.        *)
(* Transience alone says nothing: an Unavailable error may be transient,    *)
(* and its write have happened or be still to come.                        *)
KeepsContract == Contract!Spec

(* The table changed under c's call: it had a row of c's identifier, or     *)
(* not, and has c's since.                                                 *)
Turned(c) ==
  \E k \in base[c] .. Latest - 1 :
    /\ versions[k][id[c]] # NoRow <=> op[c] \notin Inserts
    /\ versions[k + 1][id[c]] = Row(c)
Missed(c) == \E k \in base[c] .. Latest : versions[k][id[c]] = NoRow
SawOne(c) == \E k \in base[c] .. Latest : seen[c] = versions[k]

(* Every result is one the table could have given at one moment between    *)
(* the call and its return: an insert found no row and left its own, a     *)
(* replacement found one, remove is true once per row, NotFound and false  *)
(* are said when there was no row, and a read sees one version of the      *)
(* table, the latest one or later if the primary serves it, and otherwise  *)
(* no older than the slowest replica was when the read began.              *)
ResultsMatchHistory ==
  \A c \in Calls : pc[c] = "done" =>
    LET kind == result[c].kind IN
    /\ op[c] \in Writes /\ kind \in SaysDone => Turned(c)
    /\ kind \in {"absent", "not_found"} => Missed(c)
    /\ op[c] \in Reads /\ kind = "ok" => SawOne(c)

(* What wire, answers, effects and results say of one call agree. *)
Settles(c) ==
  /\ IF pc[c] \in {"new", "refused"} THEN c \notin wire /\ times[c] = 0 ELSE op[c] # "none"
  /\ pc[c] \in {"new", "refused", "sent"} => answer[c] = "none"
  /\ pc[c] = "sent" => c \in wire
  /\ pc[c] \in {"answered", "done"} => answer[c] # "none"
  /\ c \in wire => times[c] = 0
  /\ answer[c] = "done" => times[c] = 1
  /\ answer[c] \in Rejections \cup {"empty"} => times[c] = 0 /\ c \notin wire
  /\ times[c] \in {0, 1}
  /\ pc[c] = "done" => result[c] \in Results(c)

(* What a call's answer proves of the table. *)
Linearizes(c) ==
  /\ op[c] \in Writes /\ answer[c] = "done" => Turned(c)
  /\ op[c] \in Reads /\ answer[c] = "done" => SawOne(c)
  /\ answer[c] = "empty" => op[c] \in {"replace", "remove"}
  /\ answer[c] \in {"empty", "RowNotFound"} => Missed(c)
  /\ op[c] \in Reads /\ c \in wire /\ replicas > 0 => \A r \in 1 .. replicas : base[c] <= replayed[r]

(* The inductive invariant: what was answered is so, and stays so while     *)
(* other calls change the table and abandoned ones are served late.        *)
RepositoryInv ==
  /\ TypeOK
  /\ \A c \in Calls : Settles(c)
  /\ \A c \in Calls : Linearizes(c)

=============================================================================
