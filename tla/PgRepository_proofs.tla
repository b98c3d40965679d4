------------------------ MODULE PgRepository_proofs ------------------------
(***************************************************************************)
(* For every set of calls and identifiers and any number of replicas: what *)
(* a repository returns is so, and could have been seen at one moment.     *)
(***************************************************************************)
EXTENDS PgRepository, TLAPS

ResultType == [kind : Kinds, transience : {"none", "transient", "other"}]

(* An error that says "not done" was made from one that means it, and no    *)
(* error is mapped to a success.                                           *)
LEMMA MapIsFaithful ==
  ASSUME NEW error \in SqlxErrors
  PROVE  LET r == MapSqlxError(error) IN
         /\ r \in ResultType
         /\ r.kind \notin SaysDone \cup {"absent"}
         /\ r.kind = "not_found" => error = "RowNotFound"
         /\ SaysNotDone(r) => error \in Rejections
<1> USE DEF ResultType, Kinds, SoapErrorKinds, SaysDone, SaysNotDone, Concurrency, Rejections,
            Ambiguous, MapSqlxError, Soap, WithTransience, ConnectionExceptions, SqlxErrors
<1>1. CASE error \in ClientErrors
  BY <1>1, SqlStatesAssumption DEF ClientErrors, InvalidMapping
<1>2. CASE error \in SqlStates
  <2>1. /\ error \notin ClientErrors
        /\ error \in {"40001", "40P01", "08006", "23505", "23P01", "23503", "23502", "23514", "42703"}
    BY <1>2, SqlStatesAssumption
       DEF ClientErrors, InvalidMapping, Retryable, Collisions, Relationships, SchemaViolations
  <2>2. MapSqlxError(error) = MapDatabaseError(error)
    BY <2>1 DEF ClientErrors, InvalidMapping
  <2> QED
    BY <2>1, <2>2 DEF MapDatabaseError, Retryable, Collisions, Relationships, SchemaViolations
<1> QED
  BY <1>1, <1>2

LEMMA ErrorNames ==
  /\ {"none", "done", "empty"} \cap SqlxErrors = {}
  /\ {"Io", "Protocol"} \cap Rejections = {} /\ "RowNotFound" \in Rejections
  /\ {"PoolTimedOut", "PoolClosed", "Tls", "Io", "Protocol", "RowNotFound", "Decode"} \subseteq SqlxErrors
  /\ SqlStates \subseteq SqlxErrors /\ "RowNotFound" \notin SqlStates
  /\ Rejections \subseteq SqlxErrors
BY SqlStatesAssumption
   DEF SqlxErrors, ClientErrors, InvalidMapping, Rejections, Ambiguous, Retryable,
       ConnectionExceptions, Collisions, Relationships, SchemaViolations

(* What a result says of the answer it was made from. *)
LEMMA ResultMeans ==
  ASSUME NEW c \in Calls, NEW r \in Results(c), op[c] \in Writes \cup Reads,
         answer[c] \in Answers, answer[c] # "none",
         answer[c] = "empty" => op[c] \in {"replace", "remove"}
  PROVE  /\ r \in ResultType
         /\ r.kind \in SaysDone => answer[c] = "done"
         /\ op[c] \in Reads /\ r.kind = "ok" => answer[c] = "done"
         /\ r.kind \in {"absent", "not_found"} => answer[c] \in {"empty", "RowNotFound"}
         /\ SaysNotDone(r) => answer[c] \in Rejections \cup {"empty"}
<1>1. CASE answer[c] \in SqlxErrors
  <2>1. r = MapSqlxError(answer[c])
    BY <1>1 DEF Results
  <2>2. r.kind # "absent" /\ r.kind \notin SaysDone /\ "ok" \in SaysDone
    BY <1>1, <2>1, MapIsFaithful DEF SaysDone
  <2> QED
    BY <1>1, <2>1, <2>2, MapIsFaithful
<1>2. CASE answer[c] = "empty"
  <2>1. answer[c] \notin SqlxErrors
    BY <1>2, ErrorNames
  <2> QED
    BY <1>2, <2>1 DEF Results, Outcome, Soap, WithTransience, ResultType, Kinds, SoapErrorKinds,
                          SaysDone, SaysNotDone, Concurrency, Reads
<1>3. CASE answer[c] = "done"
  <2>1. answer[c] \notin SqlxErrors
    BY <1>3, ErrorNames
  <2>2. MapSqlxError("Decode") = WithTransience("infrastructure", "other")
    BY SqlStatesAssumption DEF MapSqlxError, InvalidMapping
  <2>3. r \in {Outcome("ok"), Outcome("removed"), Outcome("codec_error"),
               WithTransience("infrastructure", "other"), Soap("infrastructure")}
    BY <1>3, <2>1, <2>2 DEF Results
  <2> QED
    BY <1>3, <2>3 DEF Outcome, Soap, WithTransience, ResultType, Kinds, SoapErrorKinds,
                     SaysDone, SaysNotDone, Concurrency
<1> QED
  BY <1>1, <1>2, <1>3 DEF Answers

-----------------------------------------------------------------------------
(* A version, once committed, stays where it is. *)
LEMMA VersionsGrow ==
  ASSUME TypeOK, NEW table \in Tables, versions' = Append(versions, table)
  PROVE  /\ versions' \in Seq(Tables) /\ Latest' = Latest + 1 /\ Latest \in Nat
         /\ \A k \in 1 .. Latest : versions'[k] = versions[k]
         /\ versions'[Latest + 1] = table
BY DEF TypeOK, Latest

(* What was seen of the table stays seen. *)
LEMMA SightingsStay ==
  ASSUME TypeOK, NEW c \in Calls,
         versions' = versions \/ \E table \in Tables : versions' = Append(versions, table),
         op'[c] = op[c], id'[c] = id[c], base'[c] = base[c]
  PROVE  /\ Turned(c) => Turned(c)'
         /\ Missed(c) => Missed(c)'
         /\ SawOne(c) /\ seen'[c] = seen[c] => SawOne(c)'
<1>1. Latest' \in Nat /\ Latest \in Nat /\ Latest <= Latest' /\ base[c] \in 1 .. Latest
  BY VersionsGrow DEF TypeOK, Latest
<1>2. \A k \in 1 .. Latest : versions'[k] = versions[k]
  BY VersionsGrow
<1>3. Row(c)' = Row(c)
  BY DEF Row
<1>4. Turned(c) => Turned(c)'
  <2> SUFFICES ASSUME Turned(c) PROVE Turned(c)'
    OBVIOUS
  <2>1. PICK k \in base[c] .. Latest - 1 : /\ versions[k][id[c]] # NoRow <=> op[c] \notin Inserts
                                           /\ versions[k + 1][id[c]] = Row(c)
    BY DEF Turned
  <2>2. k \in base'[c] .. Latest' - 1 /\ k \in 1 .. Latest /\ k + 1 \in 1 .. Latest
    BY <1>1
  <2>3. versions'[k] = versions[k] /\ versions'[k + 1] = versions[k + 1]
    BY <1>2, <2>2
  <2> QED
    BY <1>3, <2>1, <2>2, <2>3 DEF Turned
<1>5. Missed(c) => Missed(c)'
  BY <1>1, <1>2 DEF Missed
<1>6. SawOne(c) /\ seen'[c] = seen[c] => SawOne(c)'
  BY <1>1, <1>2 DEF SawOne
<1> QED
  BY <1>4, <1>5, <1>6

(* A step that does not concern a call leaves what is known of it. *)
LEMMA Untouched ==
  ASSUME RepositoryInv, NEW d \in Calls,
         versions' = versions \/ \E table \in Tables : versions' = Append(versions, table),
         replicas' = replicas, \A r \in 1 .. replicas : replayed[r] <= replayed'[r],
         replayed' \in [1 .. replicas -> Nat],
         op'[d] = op[d], id'[d] = id[d], base'[d] = base[d], pc'[d] = pc[d], answer'[d] = answer[d],
         seen'[d] = seen[d], result'[d] = result[d], times'[d] = times[d], d \in wire' <=> d \in wire
  PROVE  Settles(d)' /\ Linearizes(d)'
<1>1. Results(d)' = Results(d)
  BY DEF Results, NothingToDecode
<1>2. Settles(d) /\ Linearizes(d) /\ TypeOK
  BY DEF RepositoryInv
<1>3. Settles(d)'
  BY <1>1, <1>2 DEF Settles
<1>4. ASSUME NEW r \in 1 .. replicas, base[d] <= replayed[r] PROVE base'[d] <= replayed'[r]
  <2>1. base[d] \in Nat /\ replayed[r] \in Nat /\ replayed'[r] \in Nat
    BY <1>2 DEF TypeOK, Latest
  <2> QED
    BY <1>4, <2>1
<1>5. Linearizes(d)'
  <2>1. /\ Turned(d) => Turned(d)'
        /\ Missed(d) => Missed(d)'
        /\ SawOne(d) => SawOne(d)'
    BY <1>2, SightingsStay
  <2> QED
    BY <1>2, <1>4, <2>1 DEF Linearizes
<1> QED
  BY <1>3, <1>5

LEMMA ReplicasRest ==
  ASSUME RepositoryInv, replayed' = replayed
  PROVE  /\ replayed' \in [1 .. replicas -> Nat]
         /\ \A r \in 1 .. replicas : replayed[r] <= replayed'[r]
<1>1. replayed \in [1 .. replicas -> 1 .. Latest] /\ Latest \in Nat
  BY DEF RepositoryInv, TypeOK, Latest
<1> QED
  BY <1>1

LEMMA InitRepositoryInv == Init => RepositoryInv
<1> SUFFICES ASSUME Init PROVE RepositoryInv
  OBVIOUS
<1>1. PICK table \in [Ids -> {NoRow, Old}] : versions = <<table>> /\ seen = [c \in Calls |-> table]
  BY DEF Init
<1>2. table \in Tables
  BY DEF Tables
<1>3. versions \in Seq(Tables) /\ Latest = 1
  BY <1>1, <1>2 DEF Latest
<1>4. replicas \in Nat /\ Outcome("none") \in ResultType
  BY ReplicasAssumption DEF Init, Outcome, WithTransience, ResultType, Kinds
<1>5. TypeOK
  BY <1>1, <1>2, <1>3, <1>4 DEF Init, TypeOK, Answers, ResultType
<1>6. \A c \in Calls : answer[c] = "none" /\ op[c] = "none" /\ pc[c] = "new" /\ times[c] = 0 /\ c \notin wire
  BY DEF Init
<1>7. \A c \in Calls : Settles(c)
  BY <1>6, ErrorNames DEF Settles
<1>8. \A c \in Calls : Linearizes(c)
  BY <1>6 DEF Linearizes, Writes, Reads, Inserts, Replaces
<1> QED
  BY <1>5, <1>7, <1>8 DEF RepositoryInv

(* The steps of a call's future. *)
LEMMA CallStep ==
  ASSUME RepositoryInv, NEW c \in Calls, NEW o \in Writes \cup Reads, Call(c, o)
  PROVE  RepositoryInv'
<1> USE DEF Moves
<1>1. TypeOK /\ Settles(c) /\ Linearizes(c)
  BY DEF RepositoryInv
<1>2. PICK v \in Readable(Method(o)) : (\A w \in Readable(Method(o)) : v <= w) /\ base' = [base EXCEPT ![c] = v]
  BY DEF Call
<1>3. Latest' = Latest /\ Latest \in Nat /\ Latest > 0
  BY DEF Call, tableVars, Latest, RepositoryInv, TypeOK
<1>4. v \in 1 .. Latest
  <2>1. CASE AtPrimary(Method(o))
    BY <1>2, <1>3, <2>1 DEF Readable
  <2>2. CASE ~AtPrimary(Method(o))
    <3>1. PICK r \in 1 .. replicas : v = replayed[r]
      BY <1>2, <2>2 DEF Readable
    <3> QED
      BY <1>1, <3>1 DEF TypeOK
  <2> QED
    BY <2>1, <2>2
<1>5. TypeOK'
  BY <1>1, <1>2, <1>3, <1>4 DEF Call, tableVars, TypeOK
<1>6. pc[c] = "new" /\ answer'[c] = "none" /\ times'[c] = 0 /\ pc'[c] = "sent" /\ c \in wire' /\ op'[c] = o
  BY <1>1 DEF Call, Settles, TypeOK
<1>7. Settles(c)'
  <2>1. o # "none"
    BY DEF Writes, Reads, Inserts, Replaces
  <2> QED
    BY <1>6, <2>1, ErrorNames DEF Settles
<1>8. ASSUME o \in Reads, replicas > 0, NEW r \in 1 .. replicas PROVE base'[c] <= replayed'[r]
  <2>1. Method(o) \notin {"apply", "apply_one"}
    BY <1>8 DEF Method, Reads
  <2>2. ~AtPrimary(Method(o))
    BY <1>1, <1>8, <2>1 DEF AtPrimary, TypeOK
  <2>3. replayed[r] \in Readable(Method(o))
    BY <1>8, <2>2 DEF Readable
  <2>4. base'[c] = v /\ replayed' = replayed
    BY <1>1, <1>2 DEF Call, tableVars, TypeOK
  <2> QED
    BY <1>2, <2>3, <2>4
<1>9. Linearizes(c)'
  <2>1. replicas' = replicas
    BY DEF Call, tableVars
  <2> QED
    BY <1>6, <1>8, <2>1 DEF Linearizes
<1>10. ASSUME NEW d \in Calls \ {c} PROVE Settles(d)' /\ Linearizes(d)'
  <2>1. /\ replicas' = replicas /\ replayed' = replayed /\ versions' = versions
        /\ op'[d] = op[d] /\ id'[d] = id[d] /\ base'[d] = base[d] /\ pc'[d] = pc[d]
        /\ answer'[d] = answer[d] /\ seen'[d] = seen[d] /\ result'[d] = result[d]
        /\ times'[d] = times[d] /\ (d \in wire' <=> d \in wire)
    BY <1>1, <1>2, <1>10 DEF Call, tableVars, TypeOK
  <2> QED
    BY <2>1, ReplicasRest, Untouched
<1> QED
  BY <1>5, <1>7, <1>9, <1>10 DEF RepositoryInv

LEMMA ReturnStep == ASSUME RepositoryInv, NEW c \in Calls, Return(c) PROVE RepositoryInv'
<1> USE DEF Moves
<1>1. TypeOK /\ Settles(c) /\ Linearizes(c)
  BY DEF RepositoryInv
<1>2. PICK r \in Results(c) : result' = [result EXCEPT ![c] = r]
  BY DEF Return
<1>3. /\ pc[c] = "answered" /\ answer[c] # "none" /\ answer[c] \in Answers
      /\ op[c] \in Writes \cup Reads
  BY <1>1 DEF Return, Settles, TypeOK
<1>4. r \in ResultType
  BY <1>1, <1>3, ResultMeans DEF Linearizes
<1>5. TypeOK'
  BY <1>1, <1>2, <1>4 DEF Return, tableVars, callVars, Latest, TypeOK, ResultType
<1>6. pc'[c] = "done" /\ result'[c] = r
  BY <1>1, <1>2 DEF Return, TypeOK
<1>7. Results(c)' = Results(c)
  BY DEF Return, callVars, Results, NothingToDecode
<1>8. Settles(c)'
  BY <1>1, <1>2, <1>3, <1>6, <1>7 DEF Return, callVars, Settles
<1>9. Linearizes(c)'
  BY <1>1 DEF Return, tableVars, callVars, Linearizes, Turned, Missed, SawOne, Row, Latest
<1>10. ASSUME NEW d \in Calls \ {c} PROVE Settles(d)' /\ Linearizes(d)'
  <2>1. /\ replicas' = replicas /\ replayed' = replayed /\ versions' = versions
        /\ op'[d] = op[d] /\ id'[d] = id[d] /\ base'[d] = base[d] /\ pc'[d] = pc[d]
        /\ answer'[d] = answer[d] /\ seen'[d] = seen[d] /\ result'[d] = result[d]
        /\ times'[d] = times[d] /\ (d \in wire' <=> d \in wire)
    BY <1>1, <1>2, <1>10 DEF Return, tableVars, callVars, TypeOK
  <2> QED
    BY <2>1, ReplicasRest, Untouched
<1> QED
  BY <1>5, <1>8, <1>9, <1>10 DEF RepositoryInv

(* LoseLink, Cancel and CompileFails touch neither table nor wire. *)
LEMMA AbandonStep ==
  ASSUME RepositoryInv, NEW c \in Calls, LoseLink(c) \/ Cancel(c) \/ CompileFails(c)
  PROVE  RepositoryInv'
<1> USE DEF Moves
<1>1. TypeOK /\ Settles(c) /\ Linearizes(c)
  BY DEF RepositoryInv
<1>2. UNCHANGED <<tableVars, callVars, wire, seen, result, times>>
  BY DEF LoseLink, Cancel, CompileFails
<1>3. answer'[c] \in {answer[c], "Io", "Protocol"} /\ answer' = [answer EXCEPT ![c] = answer'[c]]
  BY <1>1 DEF LoseLink, Cancel, CompileFails, TypeOK
<1>4. /\ pc' = [pc EXCEPT ![c] = pc'[c]]
      /\ \/ pc[c] = "new" /\ pc'[c] = "refused" /\ answer' = answer
         \/ pc[c] \in {"sent", "answered"} /\ pc'[c] = "dropped" /\ answer' = answer
         \/ pc[c] \in {"sent", "answered"} /\ pc'[c] = "answered" /\ answer'[c] \in {"Io", "Protocol"}
  BY <1>1 DEF LoseLink, Cancel, CompileFails, TypeOK
<1>5. TypeOK'
  <2>1. answer'[c] \in Answers
    BY <1>1, <1>3, ErrorNames DEF TypeOK, Answers
  <2>2. pc' \in [Calls -> {"new", "refused", "sent", "answered", "done", "dropped"}]
    BY <1>1, <1>4 DEF TypeOK
  <2>3. answer' \in [Calls -> Answers]
    BY <1>1, <1>3, <2>1 DEF TypeOK
  <2> QED
    BY <1>1, <1>2, <2>2, <2>3 DEF tableVars, callVars, TypeOK, Latest
<1>6. Settles(c)'
  BY <1>1, <1>2, <1>3, <1>4, ErrorNames DEF callVars, Settles
<1>7. Linearizes(c)'
  <2>1. (Turned(c) <=> Turned(c)') /\ (SawOne(c) <=> SawOne(c)') /\ (Missed(c) <=> Missed(c)')
    BY <1>2 DEF tableVars, callVars, Turned, Missed, SawOne, Row, Latest
  <2> QED
    BY <1>1, <1>2, <1>3, <2>1 DEF tableVars, callVars, Linearizes
<1>8. ASSUME NEW d \in Calls \ {c} PROVE Settles(d)' /\ Linearizes(d)'
  <2>1. answer'[d] = answer[d] /\ pc'[d] = pc[d]
    BY <1>1, <1>3, <1>4, <1>8 DEF TypeOK
  <2>2. /\ replicas' = replicas /\ replayed' = replayed /\ versions' = versions
        /\ op'[d] = op[d] /\ id'[d] = id[d] /\ base'[d] = base[d]
        /\ seen'[d] = seen[d] /\ result'[d] = result[d]
        /\ times'[d] = times[d] /\ (d \in wire' <=> d \in wire)
    BY <1>2 DEF tableVars, callVars
  <2> QED
    BY <2>1, <2>2, ReplicasRest, Untouched
<1> QED
  BY <1>5, <1>6, <1>7, <1>8 DEF RepositoryInv

(* What a served statement does to its own call, given what it proves. *)
LEMMA ServeStep ==
  ASSUME RepositoryInv, NEW c \in Calls, NEW a \in Answers, Serves(c, a), a # "none",
         versions' = versions \/ \E table \in Tables : versions' = Append(versions, table),
         seen' \in [Calls -> Tables], \A d \in Calls \ {c} : seen'[d] = seen[d],
         a = "done" \/ seen'[c] = seen[c],
         op[c] \in Writes /\ a = "done" => Turned(c)',
         op[c] \in Reads /\ a = "done" => SawOne(c)',
         a = "empty" => op[c] \in {"replace", "remove"},
         a \in {"empty", "RowNotFound"} => Missed(c)'
  PROVE  RepositoryInv'
<1> USE DEF Moves
<1>1. TypeOK /\ Settles(c) /\ Linearizes(c)
  BY DEF RepositoryInv
<1>2. /\ c \in wire /\ wire' = wire \ {c} /\ replicas' = replicas /\ replayed' = replayed
      /\ op' = op /\ id' = id /\ base' = base /\ result' = result
      /\ times[c] = 0 /\ pc[c] \notin {"new", "refused"} /\ op[c] # "none"
  BY <1>1 DEF Serves, callVars, Settles, TypeOK
<1>3. times' \in [Calls -> Nat] /\ times'[c] = (IF a = "done" THEN 1 ELSE 0)
      /\ \A d \in Calls \ {c} : times'[d] = times[d]
  BY <1>1, <1>2 DEF Serves, TypeOK
<1>4. /\ pc' \in [Calls -> {"new", "refused", "sent", "answered", "done", "dropped"}]
      /\ answer' \in [Calls -> Answers]
      /\ pc'[c] = (IF pc[c] = "sent" THEN "answered" ELSE pc[c])
      /\ answer'[c] = (IF pc[c] = "sent" THEN a ELSE answer[c])
      /\ \A d \in Calls \ {c} : pc'[d] = pc[d] /\ answer'[d] = answer[d]
  BY <1>1 DEF Serves, TypeOK
<1>5. TypeOK'
  <2>1. versions' \in Seq(Tables) /\ Latest' \in Nat /\ Latest \in Nat /\ Latest <= Latest' /\ Latest > 0
    BY <1>1, VersionsGrow DEF TypeOK, Latest
  <2>2. replayed' \in [1 .. replicas' -> 1 .. Latest'] /\ base' \in [Calls -> 1 .. Latest']
    BY <1>1, <1>2, <2>1 DEF TypeOK
  <2>3. Latest' > 0 /\ wire' \subseteq Calls
    BY <1>1, <1>2, <2>1 DEF TypeOK
  <2> QED
    BY <1>1, <1>2, <1>3, <1>4, <2>1, <2>2, <2>3 DEF TypeOK
<1>6. ASSUME pc[c] = "sent" PROVE Settles(c)' /\ Linearizes(c)'
  <2>1. Settles(c)'
    BY <1>2, <1>3, <1>4, <1>6, ErrorNames DEF Settles
  <2>2. Linearizes(c)'
    BY <1>2, <1>4, <1>6 DEF Linearizes
  <2> QED
    BY <2>1, <2>2
<1>7. ASSUME pc[c] # "sent" PROVE Settles(c)' /\ Linearizes(c)'
  <2>1. answer[c] # "done" /\ answer[c] \notin Rejections \cup {"empty"}
    BY <1>1, <1>2 DEF Settles
  <2>2. pc[c] = "done" => answer[c] \in SqlxErrors
    BY <1>1, <2>1 DEF Settles, TypeOK, Answers
  <2>3. pc[c] = "done" => Results(c)' = Results(c)
    BY <1>4, <1>7, <2>2 DEF Results
  <2>4. Settles(c)'
    BY <1>1, <1>2, <1>3, <1>4, <1>7, <2>1, <2>3 DEF Settles
  <2>5. Linearizes(c)'
    BY <1>2, <1>4, <1>7, <2>1, ErrorNames DEF Linearizes
  <2> QED
    BY <2>4, <2>5
<1>8. ASSUME NEW d \in Calls \ {c} PROVE Settles(d)' /\ Linearizes(d)'
  <2>1. d \in wire' <=> d \in wire
    BY <1>2, <1>8
  <2> QED
    BY <1>2, <1>3, <1>4, <1>8, <2>1, ReplicasRest, Untouched
<1> QED
  BY <1>5, <1>6, <1>7, <1>8 DEF RepositoryInv

(* The primary's version is the last, and what is read is one of them. *)
LEMMA ReadableVersions ==
  ASSUME TypeOK, NEW c \in Calls, NEW method, NEW v \in Readable(method),
         replicas > 0 /\ ~AtPrimary(method) => \A r \in 1 .. replicas : base[c] <= replayed[r]
  PROVE  v \in base[c] .. Latest
<1>1. Latest \in Nat /\ base[c] \in 1 .. Latest
  BY DEF TypeOK, Latest
<1>2. CASE AtPrimary(method)
  BY <1>1, <1>2 DEF Readable
<1>3. CASE ~AtPrimary(method)
  <2>1. PICK r \in 1 .. replicas : v = replayed[r]
    BY <1>3 DEF Readable
  <2>2. replicas > 0
    BY <2>1 DEF TypeOK
  <2> QED
    BY <1>1, <1>3, <2>1, <2>2 DEF TypeOK
<1> QED
  BY <1>2, <1>3

LEMMA StepRepositoryInv == ASSUME RepositoryInv, [Next]_vars PROVE RepositoryInv'
<1>1. TypeOK /\ (\A c \in Calls : Settles(c) /\ Linearizes(c))
  BY DEF RepositoryInv
<1>2. ASSUME NEW c \in Calls, ServeWrite(c) PROVE RepositoryInv'
  <2>1. /\ op[c] \in Writes /\ Fits(c) /\ Serves(c, "done") /\ seen' = seen
        /\ versions' = Append(versions, [Current EXCEPT ![id[c]] = Row(c)])
    BY <1>2 DEF ServeWrite
  <2> DEFINE table == [Current EXCEPT ![id[c]] = Row(c)]
  <2>2. Latest \in 1 .. Latest /\ Latest \in Nat /\ Current \in Tables /\ id[c] \in Ids
    BY <1>1 DEF TypeOK, Latest, Current
  <2>3. table \in Tables /\ table[id[c]] = Row(c)
    BY <2>2 DEF Tables, Row
  <2> HIDE DEF table
  <2>4. /\ Latest' = Latest + 1 /\ versions'[Latest] = Current /\ versions'[Latest + 1] = table
    BY <1>1, <2>1, <2>2, <2>3, VersionsGrow DEF Current, table
  <2>5. op' = op /\ id' = id /\ base' = base /\ base[c] \in 1 .. Latest
    BY <1>1, <2>1 DEF Serves, callVars, TypeOK
  <2>6. Turned(c)'
    <3>1. Latest \in base'[c] .. Latest' - 1
      BY <2>2, <2>4, <2>5
    <3>2. versions'[Latest][id'[c]] # NoRow <=> op'[c] \notin Inserts
      BY <2>1, <2>4, <2>5 DEF Fits
    <3>3. versions'[Latest + 1][id'[c]] = Row(c)'
      BY <2>3, <2>4, <2>5 DEF Row
    <3> QED
      BY <3>1, <3>2, <3>3 DEF Turned
  <2>7. op[c] \notin Reads /\ seen \in [Calls -> Tables] /\ "done" \in Answers
    BY <1>1, <2>1 DEF Reads, Writes, Inserts, Replaces, TypeOK, Answers
  <2>8. \E t \in Tables : versions' = Append(versions, t)
    BY <2>1, <2>3 DEF table
  <2> QED
    BY <2>1, <2>6, <2>7, <2>8, ServeStep
<1>3. ASSUME NEW c \in Calls, ServeMisfit(c) PROVE RepositoryInv'
  <2>1. PICK a : /\ Serves(c, a) /\ op[c] \in Writes /\ ~Fits(c) /\ versions' = versions /\ seen' = seen
                 /\ \/ op[c] \in Inserts /\ a = "23505"
                    \/ op[c] \in {"replace", "remove"} /\ a = "empty"
                    \/ op[c] \notin Inserts /\ a = "RowNotFound"
    BY <1>3 DEF ServeMisfit, Method, Writes, Inserts, Replaces
  <2>2. a \in Answers /\ a \notin {"none", "done"}
    BY <2>1, DuplicatesAssumption, ErrorNames DEF Answers
  <2>3. op' = op /\ id' = id /\ base' = base /\ base[c] \in 1 .. Latest /\ Latest \in Nat /\ Latest' = Latest
    BY <1>1, <2>1 DEF Serves, callVars, TypeOK, Latest
  <2>4. a \in {"empty", "RowNotFound"} => Missed(c)'
    <3> SUFFICES ASSUME a \in {"empty", "RowNotFound"} PROVE Missed(c)'
      OBVIOUS
    <3>1. op[c] \notin Inserts
      BY <2>1 DEF Inserts
    <3>2. versions[Latest][id[c]] = NoRow
      BY <2>1, <3>1 DEF Fits, Current
    <3>3. Latest \in base'[c] .. Latest'
      BY <2>3
    <3> QED
      BY <2>1, <2>3, <3>2, <3>3 DEF Missed
  <2>5. seen \in [Calls -> Tables] /\ (a = "empty" => op[c] \in {"replace", "remove"})
    BY <1>1, <2>1 DEF TypeOK
  <2> QED
    BY <2>1, <2>2, <2>4, <2>5, ServeStep
<1>4. ASSUME NEW c \in Calls, ServeRead(c) PROVE RepositoryInv'
  <2>1. PICK v \in Readable(Method(op[c])) : seen' = [seen EXCEPT ![c] = versions[v]]
    BY <1>4 DEF ServeRead
  <2>2. op[c] \in Reads /\ Serves(c, "done") /\ versions' = versions /\ c \in wire
    BY <1>4 DEF ServeRead, Serves
  <2>3. v \in base[c] .. Latest
    BY <1>1, <2>2, ReadableVersions DEF Linearizes
  <2>4. Latest' = Latest /\ base' = base /\ Latest \in Nat /\ base[c] \in 1 .. Latest
    BY <1>1, <2>2 DEF Serves, callVars, Latest, TypeOK
  <2>5. versions[v] \in Tables
    BY <1>1, <2>3, <2>4 DEF TypeOK, Latest
  <2>6. seen' \in [Calls -> Tables] /\ seen'[c] = versions[v] /\ \A d \in Calls \ {c} : seen'[d] = seen[d]
    BY <1>1, <2>1, <2>5 DEF TypeOK
  <2>7. SawOne(c)'
    BY <2>2, <2>3, <2>4, <2>6 DEF SawOne
  <2>8. op[c] \notin Writes /\ "done" \in Answers
    BY <2>2 DEF Reads, Writes, Inserts, Replaces, Answers
  <2> QED
    BY <2>2, <2>6, <2>7, <2>8, ServeStep
<1>5. ASSUME NEW c \in Calls, Refuse(c) PROVE RepositoryInv'
  <2>1. PICK error \in {"PoolTimedOut", "PoolClosed", "Tls"} \cup SqlStates : Serves(c, error)
    BY <1>5 DEF Refuse
  <2>2. /\ error \in Answers /\ error \notin {"none", "done", "empty", "RowNotFound"}
        /\ versions' = versions /\ seen' = seen /\ seen \in [Calls -> Tables]
    BY <1>1, <1>5, ErrorNames DEF Refuse, Answers, TypeOK
  <2> QED
    BY <2>1, <2>2, ServeStep
<1>6. ASSUME NEW r \in 1 .. replicas, Replay(r) PROVE RepositoryInv'
  <2>1. UNCHANGED <<replicas, versions, pc, callVars, wire, answer, seen, result, times>>
    BY <1>6 DEF Replay
  <2>2. /\ replayed' \in [1 .. replicas -> 1 .. Latest] /\ Latest \in Nat
        /\ \A q \in 1 .. replicas : replayed[q] <= replayed'[q]
    BY <1>1, <1>6 DEF Replay, TypeOK, Latest
  <2>3. TypeOK'
    BY <1>1, <2>1, <2>2 DEF TypeOK, callVars, Latest
  <2>4. replayed' \in [1 .. replicas -> Nat]
    BY <2>2
  <2>5. \A d \in Calls : Settles(d)' /\ Linearizes(d)'
    BY <2>1, <2>2, <2>4, Untouched DEF callVars
  <2> QED
    BY <2>3, <2>5 DEF RepositoryInv
<1>7. CASE UNCHANGED vars
  BY <1>1, <1>7 DEF vars, tableVars, callVars, RepositoryInv, TypeOK, Settles, Linearizes, Turned, Missed,
     SawOne, Row, Latest, Results, NothingToDecode
<1> QED
  BY <1>2, <1>3, <1>4, <1>5, <1>6, <1>7, CallStep, ReturnStep, AbandonStep DEF Next

(* What a repository's calls, its source and the table agree on, always. *)
THEOREM RepositoryInvariant == Spec => []RepositoryInv
BY InitRepositoryInv, StepRepositoryInv, PTL DEF Spec

(* Every result fits one version of the table since its call began, for any *)
(* number of calls, identifiers and replicas.                              *)
THEOREM ResultsAreHistory == Spec => []ResultsMatchHistory
<1>1. RepositoryInv => ResultsMatchHistory
  <2> SUFFICES ASSUME RepositoryInv, NEW c \in Calls, pc[c] = "done"
               PROVE  LET kind == result[c].kind IN
                      /\ op[c] \in Writes /\ kind \in SaysDone => Turned(c)
                      /\ kind \in {"absent", "not_found"} => Missed(c)
                      /\ op[c] \in Reads /\ kind = "ok" => SawOne(c)
    BY DEF ResultsMatchHistory
  <2>1. TypeOK /\ Settles(c) /\ Linearizes(c)
    BY DEF RepositoryInv
  <2>2. result[c] \in Results(c) /\ op[c] \in Writes \cup Reads /\ answer[c] \in Answers /\ answer[c] # "none"
    BY <2>1 DEF Settles, TypeOK
  <2> QED
    BY <2>1, <2>2, ResultMeans DEF Linearizes
<1> QED
  BY <1>1, RepositoryInvariant, PTL

-----------------------------------------------------------------------------
(* What a caller is told agrees with what the source answered. *)
LEMMA ToldTrue ==
  ASSUME RepositoryInv, NEW c \in Calls, pc[c] = "done"
  PROVE  /\ Told(c) \in {"ok", "rejected", "unknown"}
         /\ Told(c) = "ok" => times[c] = 1
         /\ Told(c) = "rejected" => times[c] = 0 /\ c \notin wire
<1>1. TypeOK /\ Settles(c) /\ Linearizes(c)
  BY DEF RepositoryInv
<1>2. result[c] \in Results(c) /\ op[c] \in Writes \cup Reads /\ answer[c] \in Answers /\ answer[c] # "none"
  BY <1>1 DEF Settles, TypeOK
<1>3. /\ result[c].kind \in SaysDone => answer[c] = "done"
      /\ SaysNotDone(result[c]) => answer[c] \in Rejections \cup {"empty"}
  BY <1>1, <1>2, ResultMeans DEF Linearizes
<1>4. "done" \notin Rejections \cup {"empty"}
  BY ErrorNames
<1> QED
  BY <1>1, <1>3, <1>4 DEF Told, Settles

(* A step of the repository is a step of the contract, or changes nothing   *)
(* its caller can tell.                                                    *)
LEMMA StepKeepsContract ==
  ASSUME RepositoryInv, [Next]_vars
  PROVE  [Contract!Next]_Contract!vars
<1> USE DEF Moves
<1> DEFINE called == {c \in Calls : pc[c] \notin {"new", "refused"}}
           told == [c \in Calls |-> Told(c)]
<1>1. TypeOK /\ (\A c \in Calls : Settles(c) /\ Linearizes(c))
  BY DEF RepositoryInv
(* What changes neither a result nor an effect is a stutter. *)
<1>2. ASSUME times' = times, \A d \in Calls : Told(d)' = Told(d),
             \A d \in Calls : pc'[d] \in {"new", "refused"} <=> pc[d] \in {"new", "refused"}
      PROVE  UNCHANGED Contract!vars
  <2>1. called' = called /\ told' = told
    BY <1>2
  <2> QED
    BY <1>2, <2>1 DEF Contract!vars
<1>3. ASSUME NEW c \in Calls, NEW o \in Writes \cup Reads, Call(c, o) PROVE Contract!Call(c)
  <2>1. c \notin called /\ called' = called \cup {c}
    BY <1>1, <1>3 DEF Call, TypeOK
  <2>2. \A d \in Calls : Told(d)' = Told(d)
    BY <1>1, <1>3 DEF Call, TypeOK, Told
  <2>3. told' = told /\ times' = times
    BY <1>3, <2>2 DEF Call
  <2> QED
    BY <2>1, <2>3 DEF Contract!Call
<1>4. ASSUME NEW c \in Calls, NEW a, Serves(c, a) PROVE [Contract!Next]_Contract!vars
  <2>1. /\ c \in wire /\ times[c] = 0 /\ result' = result /\ c \in called
        /\ times' = IF a = "done" THEN [times EXCEPT ![c] = @ + 1] ELSE times
    BY <1>1, <1>4 DEF Serves, Settles
  <2>2. \A d \in Calls : /\ pc'[d] \in {"new", "refused"} <=> pc[d] \in {"new", "refused"}
                         /\ pc'[d] = "done" <=> pc[d] = "done"
    BY <1>1, <1>4 DEF Serves, TypeOK
  <2>3. \A d \in Calls : Told(d)' = Told(d)
    BY <2>1, <2>2 DEF Told
  <2>4. CASE a = "done"
    <3>1. times' = [times EXCEPT ![c] = 1]
      BY <1>1, <2>1, <2>4 DEF TypeOK
    <3>2. Told(c) \in {"nothing", "unknown"}
      <4>1. CASE pc[c] = "done"
        BY <2>1, <4>1, ToldTrue
      <4>2. CASE pc[c] # "done"
        BY <4>2 DEF Told
      <4> QED
        BY <4>1, <4>2
    <3>3. called' = called /\ told' = told /\ told[c] \in {"nothing", "unknown"}
      BY <2>2, <2>3, <3>2
    <3> QED
      BY <2>1, <3>1, <3>3 DEF Contract!Next, Contract!TakeEffect
  <2>5. CASE a # "done"
    BY <1>2, <2>1, <2>2, <2>3, <2>5
  <2> QED
    BY <2>4, <2>5
<1>5. ASSUME NEW c \in Calls, Return(c) PROVE [Contract!Next]_Contract!vars
  <2>1. /\ times' = times /\ pc[c] = "answered" /\ pc'[c] = "done"
        /\ \A d \in Calls \ {c} : pc'[d] = pc[d] /\ result'[d] = result[d]
    BY <1>1, <1>5 DEF Return, TypeOK
  <2>2. /\ Told(c)' \in {"ok", "rejected", "unknown"}
        /\ (Told(c)' = "ok" => times[c] = 1) /\ (Told(c)' = "rejected" => times[c] = 0)
    <3>1. PICK r \in Results(c) : result'[c] = r
      BY <1>1, <1>5 DEF Return, TypeOK
    <3>2. answer[c] \in Answers /\ answer[c] # "none" /\ op[c] \in Writes \cup Reads
      BY <1>1, <2>1 DEF Settles, TypeOK
    <3>3. /\ r.kind \in SaysDone => answer[c] = "done"
          /\ SaysNotDone(r) => answer[c] \in Rejections \cup {"empty"}
      BY <1>1, <3>2, ResultMeans DEF Linearizes
    <3>4. /\ Told(c)' \in {"ok", "rejected", "unknown"}
          /\ Told(c)' = "ok" => r.kind \in SaysDone
          /\ Told(c)' = "rejected" => SaysNotDone(r)
      BY <2>1, <3>1 DEF Told, SaysNotDone
    <3> QED
      BY <1>1, <3>3, <3>4 DEF Settles
  <2>3. Told(c) = "nothing" /\ \A d \in Calls \ {c} : Told(d)' = Told(d)
    BY <2>1 DEF Told
  <2>4. called' = called /\ c \in called
    BY <1>1, <2>1 DEF TypeOK
  <2>5. told' = [told EXCEPT ![c] = Told(c)'] /\ told[c] = "nothing"
    BY <2>3
  <2> HIDE DEF called, told
  <2>6. Contract!Tell(c, Told(c)')
    BY <2>1, <2>2, <2>4, <2>5 DEF Contract!Tell, called, told
  <2> QED
    BY <2>2, <2>6 DEF Contract!Next
<1>6. ASSUME NEW c \in Calls, LoseLink(c) \/ Cancel(c) \/ CompileFails(c) PROVE UNCHANGED Contract!vars
  <2>1. times' = times /\ result' = result
    BY <1>6 DEF LoseLink, Cancel, CompileFails
  <2>2. \A d \in Calls : /\ pc'[d] \in {"new", "refused"} <=> pc[d] \in {"new", "refused"}
                         /\ pc'[d] = "done" <=> pc[d] = "done"
    BY <1>1, <1>6 DEF LoseLink, Cancel, CompileFails, TypeOK
  <2>3. \A d \in Calls : Told(d)' = Told(d)
    BY <2>1, <2>2 DEF Told
  <2> QED
    BY <1>2, <2>1, <2>2, <2>3
<1>7. ASSUME (\E r \in 1 .. replicas : Replay(r)) \/ UNCHANGED vars PROVE UNCHANGED Contract!vars
  BY <1>2, <1>7 DEF Replay, vars, Told
<1>8. ASSUME NEW c \in Calls, ServeWrite(c) \/ ServeMisfit(c) \/ ServeRead(c) \/ Refuse(c)
      PROVE  [Contract!Next]_Contract!vars
  <2>1. \E a : Serves(c, a)
    BY <1>8 DEF ServeWrite, ServeMisfit, ServeRead, Refuse
  <2> QED
    BY <1>4, <2>1
<1> QED
  BY <1>3, <1>5, <1>6, <1>7, <1>8 DEF Next, Contract!Next

(* For any number of calls and replicas the repository implements PgSource. *)
THEOREM RepositoryImplementsSource == Spec => KeepsContract
<1>1. Init => Contract!Init
  <2> SUFFICES ASSUME Init PROVE Contract!Init
    OBVIOUS
  <2>1. {c \in Calls : pc[c] \notin {"new", "refused"}} = {} /\ \A c \in Calls : Told(c) = "nothing"
    BY DEF Init, Told
  <2> QED
    BY <2>1 DEF Init, Contract!Init
<1> QED
  BY <1>1, StepKeepsContract, RepositoryInvariant, PTL DEF Spec, KeepsContract, Contract!Spec

(* So a caller of the repository is told nothing untrue either: what its    *)
(* results say was done is done once, what they say was not never is.      *)
THEOREM RepositoryIsTruthful == Spec => []Contract!Truthful
<1>1. RepositoryInv => Contract!Truthful
  <2> SUFFICES ASSUME RepositoryInv, NEW c \in Calls
               PROVE  /\ times[c] \in {0, 1}
                      /\ Told(c) = "ok" => times[c] = 1
                      /\ Told(c) = "rejected" => times[c] = 0
    BY DEF Contract!Truthful
  <2>1. times[c] \in {0, 1}
    BY DEF RepositoryInv, Settles
  <2>2. CASE pc[c] = "done"
    BY <2>1, <2>2, ToldTrue
  <2>3. CASE pc[c] # "done"
    BY <2>1, <2>3 DEF Told
  <2> QED
    BY <2>2, <2>3
<1> QED
  BY <1>1, RepositoryInvariant, PTL

=============================================================================
