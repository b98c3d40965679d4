---------------------------- MODULE PgPoolSource ----------------------------
(***************************************************************************)
(* PgPoolSource (source.rs) and PgTransactionSource::begin (transaction.rs) *)
(* over one sqlx pool.  A statement borrows a connection for its await; a  *)
(* begin that succeeds keeps its own until the transaction source ends.    *)
(* The source adds nothing to sqlx: no retry, no timeout, no failover, and *)
(* an answer is handed on as it is.  Pool, server and link are external.   *)
(***************************************************************************)
EXTENDS SqlxErrors, Naturals, FiniteSets

CONSTANTS
  Statements,    \* calls of fetch_all, fetch_optional, fetch_one, apply, apply_one
  Begins,        \* calls of PgTransactionSource::begin
  Connections    \* max_connections of the pool

Calls == Statements \cup Begins

ASSUME CallsAssumption == Statements \cap Begins = {} /\ IsFiniteSet(Calls)
ASSUME ConnectionsAssumption == Connections \in Nat \ {0}

VARIABLES
  closed,    \* the pool has been closed
  pc,        \* where each call's future is suspended
  inuse,     \* calls whose connection is out of the pool
  wire,      \* requests sent that the server has not served
  answer,    \* what the source returned, or is about to
  times      \* how often each statement has taken effect

vars == <<closed, pc, inuse, wire, answer, times>>

Init ==
  /\ closed = FALSE
  /\ pc = [c \in Calls |-> "new"]
  /\ inuse = {} /\ wire = {}
  /\ answer = [c \in Calls |-> "none"]
  /\ times = [c \in Calls |-> 0]

Moves(c, to) == pc' = [pc EXCEPT ![c] = to]
Answers(c, a) == answer' = [answer EXCEPT ![c] = a]

Call(c) ==
  /\ pc[c] = "new"
  /\ Moves(c, "acquiring")
  /\ UNCHANGED <<closed, inuse, wire, answer, times>>

(* The request is written as soon as there is a connection to write it to. *)
Acquire(c) ==
  /\ pc[c] = "acquiring" /\ ~closed
  /\ Cardinality(inuse) < Connections
  /\ Moves(c, "executing")
  /\ inuse' = inuse \cup {c}
  /\ wire' = wire \cup {c}
  /\ UNCHANGED <<closed, answer, times>>

(* The acquire timeout, a closed pool, or a connection that is not made. *)
AcquireFails(c) ==
  /\ pc[c] = "acquiring"
  /\ Moves(c, "done")
  /\ \E error \in IF closed THEN {"PoolClosed"} ELSE {"PoolTimedOut", "Io", "Tls"} :
       Answers(c, error)
  /\ UNCHANGED <<closed, inuse, wire, times>>

(* The server serves a request, also one whose caller has gone: then the   *)
(* connection has been drained and is free.                                *)
Serve(c) ==
  /\ c \in wire
  /\ wire' = wire \ {c}
  /\ \E a \in {"ok", "RowNotFound"} \cup SqlStates :
       /\ times' = IF a = "ok" THEN [times EXCEPT ![c] = @ + 1] ELSE times
       /\ answer' = IF pc[c] = "executing" THEN [answer EXCEPT ![c] = a] ELSE answer
  /\ inuse' = IF pc[c] = "executing" THEN inuse ELSE inuse \ {c}
  /\ UNCHANGED <<closed, pc>>

(* Mutant: a failed begin does not return its connection. *)
KeepsAlways(c) == c \in Begins

(* begin hands the connection to the transaction; a statement returns it. *)
Keeps(c) == c \in Begins /\ answer[c] = "ok"

(* Mutant: a transient failure is tried again until it passes. *)
ReplyRetries(c) ==
  /\ pc[c] = "executing" /\ answer[c] # "none"
  /\ Moves(c, IF answer[c] \in Retryable THEN "acquiring" ELSE "done")
  /\ inuse' = IF Keeps(c) THEN inuse ELSE inuse \ {c}
  /\ answer' = IF answer[c] \in Retryable THEN [answer EXCEPT ![c] = "none"] ELSE answer
  /\ UNCHANGED <<closed, wire, times>>

(* Mutant: the error of the write is dropped. *)
ReplySwallows(c) ==
  /\ pc[c] = "executing" /\ answer[c] # "none"
  /\ Moves(c, "done")
  /\ Answers(c, "ok")
  /\ inuse' = IF Keeps(c) THEN inuse ELSE inuse \ {c}
  /\ UNCHANGED <<closed, wire, times>>

Reply(c) ==
  /\ pc[c] = "executing" /\ answer[c] # "none"
  /\ Moves(c, "done")
  /\ inuse' = IF Keeps(c) THEN inuse ELSE inuse \ {c}
  /\ UNCHANGED <<closed, wire, answer, times>>

(* Mutant: the source runs a statement again when its connection broke. *)
LoseLinkRetries(c) ==
  /\ pc[c] = "executing"
  /\ wire' = wire \cup {c}
  /\ Answers(c, "none")
  /\ UNCHANGED <<closed, pc, inuse, times>>

(* The connection fails under a statement, or answers what sqlx cannot read *)
(* and is discarded.  A request that has left may be served all the same.   *)
LoseLink(c) ==
  /\ pc[c] = "executing"
  /\ Moves(c, "done")
  /\ \E error \in {"Io", "Protocol"} : Answers(c, error)
  /\ inuse' = inuse \ {c}
  /\ UNCHANGED <<closed, wire, times>>

(* A request nobody waits for never reaches the server, or dies with it. *)
Forget(c) ==
  /\ c \in wire /\ pc[c] # "executing"
  /\ wire' = wire \ {c}
  /\ inuse' = inuse \ {c}
  /\ UNCHANGED <<closed, pc, answer, times>>

(* Mutant: an abandoned statement keeps its connection. *)
CancelLeaks(c) ==
  /\ pc[c] \in {"acquiring", "executing"}
  /\ Moves(c, "dropped")
  /\ UNCHANGED <<closed, inuse, wire, answer, times>>

(* The future is dropped; its connection goes back once it is quiet. *)
Cancel(c) ==
  /\ pc[c] \in {"acquiring", "executing"}
  /\ Moves(c, "dropped")
  /\ inuse' = IF c \in wire THEN inuse ELSE inuse \ {c}
  /\ UNCHANGED <<closed, wire, answer, times>>

OpenTransaction(c) == c \in Begins \cap inuse /\ pc[c] = "done" /\ answer[c] = "ok"

(* commit, rollback or drop of the transaction source. *)
EndTransaction(c) ==
  /\ OpenTransaction(c)
  /\ inuse' = inuse \ {c}
  /\ UNCHANGED <<closed, pc, wire, answer, times>>

Close ==
  /\ ~closed
  /\ closed' = TRUE
  /\ UNCHANGED <<pc, inuse, wire, answer, times>>

Next ==
  \/ \E c \in Calls :
       \/ Call(c) \/ Acquire(c) \/ AcquireFails(c) \/ Reply(c) \/ Cancel(c)
       \/ EndTransaction(c) \/ Serve(c) \/ LoseLink(c) \/ Forget(c)
  \/ Close

Spec == Init /\ [][Next]_vars

(* An acquire ends by its timeout at the latest, a woken future is polled,  *)
(* and a request is answered or its connection found dead.  Nobody is      *)
(* obliged to end a transaction.                                           *)
FairSpec ==
  /\ Spec
  /\ \A c \in Calls :
       /\ WF_vars(Acquire(c) \/ AcquireFails(c))
       /\ WF_vars(Reply(c))
       /\ WF_vars(Serve(c) \/ Forget(c))

-----------------------------------------------------------------------------
(* Type correctness; the pool never opens more connections than it may. *)
TypeOK ==
  /\ closed \in BOOLEAN
  /\ pc \in [Calls -> {"new", "acquiring", "executing", "done", "dropped"}]
  /\ inuse \subseteq Calls /\ Cardinality(inuse) <= Connections
  /\ wire \subseteq Calls
  /\ answer \in [Calls -> {"none", "ok"} \cup SqlxErrors]
  /\ times \in [Calls -> Nat]

(* A connection is out of the pool only for a call that is running, for an  *)
(* open transaction, or until an abandoned request is drained.             *)
ConnectionsAccounted ==
  \A c \in inuse :
    pc[c] = "executing" \/ OpenTransaction(c) \/ (pc[c] = "dropped" /\ c \in wire)

(* The answers the server gave and the wire agree on what has happened. *)
Settles(c) ==
  /\ c \in wire => times[c] = 0 /\ pc[c] \in {"executing", "done", "dropped"}
  /\ pc[c] \in {"new", "acquiring"} => times[c] = 0 /\ answer[c] = "none"
  /\ pc[c] = "executing" /\ answer[c] = "none" => c \in wire
  /\ pc[c] = "done" => answer[c] # "none"
  /\ answer[c] = "ok" => times[c] = 1
  /\ answer[c] \in {"ok", "RowNotFound", "PoolTimedOut", "PoolClosed", "Tls"} \cup SqlStates
       => c \notin wire
  /\ answer[c] \in Rejections => times[c] = 0
  /\ times[c] \in {0, 1}

Settled == \A c \in Calls : Settles(c)

PInv == TypeOK /\ ConnectionsAccounted /\ Settled

Told(c) ==
  CASE pc[c] # "done" -> "nothing"
    [] pc[c] = "done" /\ answer[c] = "ok" -> "ok"
    [] pc[c] = "done" /\ answer[c] \in Rejections -> "rejected"
    [] OTHER -> "unknown"

Contract == INSTANCE PgSource WITH
  called <- {c \in Calls : pc[c] # "new"},
  told <- [c \in Calls |-> Told(c)]

(* A pool keeps the contract of a source: nothing runs twice, an Ok and a   *)
(* rejection are true for good, whatever was lost, late or abandoned.      *)
KeepsContract == Contract!Spec

(* Every call returns, also when open transactions hold every connection    *)
(* and nobody ends them.                                                   *)
CallsReturn ==
  \A c \in Calls : pc[c] \in {"acquiring", "executing"} ~> pc[c] \in {"done", "dropped"}

(* A connection comes back after a statement and after a begin that failed  *)
(* or was abandoned, whatever became of the request.                       *)
ConnectionsReturn ==
  \A c \in Calls : c \in inuse ~> c \notin inuse \/ OpenTransaction(c)

=============================================================================
