------------------------- MODULE PgTransactionSource -------------------------
(***************************************************************************)
(* PgTransactionSource (transaction.rs): one PostgreSQL transaction shared  *)
(* by many callers through an Arc, its state behind an async mutex.        *)
(*                                                                         *)
(* A statement holds the mutex across its await.  commit and rollback do   *)
(* not: take_active swaps the state to Completed, drops the guard, and the *)
(* owned transaction is awaited afterwards.  A caller may drop its future  *)
(* at any await.  The connection answers requests in order and drains what *)
(* an abandoned future left behind before it sends the next one; dropping  *)
(* a transaction that has not ended queues a ROLLBACK behind whatever is   *)
(* in flight.  The server and the link are external to this repository.    *)
(***************************************************************************)
EXTENDS FiniteSets

CONSTANTS
  Callers,    \* tasks that share the source
  Writes,     \* the write statements (apply, apply_one), each issued at most once
  NoCaller    \* the mutex is free

Finishes == {"commit", "rollback"}
Statements == Writes \cup {"fetch"}
Calls == Statements \cup Finishes
Failures == {"database_error", "io_error"}
Answers == {"none", "ok", "row_not_found"} \cup Failures
Live == {"open", "failed"}   \* the server still has the transaction

ASSUME NoCallerAssumption == NoCaller \notin Callers
ASSUME WritesAssumption == Writes \cap {"fetch", "commit", "rollback", "none"} = {}

VARIABLES
  state,      \* TransactionState, or "Dropped" once the Active source is gone
  guard,      \* who holds the mutex across an await
  pc,         \* where each caller's future is suspended
  call,       \* what each caller is calling
  sent,       \* the request on the connection the server has not served
  answer,     \* the answer the awaiting caller has not read
  cleanup,    \* a ROLLBACK queued by dropping the transaction
  link,       \* the connection, seen from the client
  released,   \* the connection has gone back to the pool
  session,    \* the transaction, seen from the server
  staged,     \* writes performed inside the transaction
  stored,     \* writes of this source that are durable
  acked,      \* writes a caller was told had succeeded
  issued,     \* writes some caller has asked for
  spoiled,    \* the server has rejected a statement of the transaction
  verdict     \* what the finishing call was and what its caller was told

clientVars == <<state, guard, pc, call, released, acked, issued, verdict>>
serverVars == <<session, staged, stored, spoiled>>
wireVars == <<sent, answer, cleanup, link>>
vars == <<clientVars, serverVars, wireVars>>

(* state.lock().await can return to c. *)
Unlocked == guard = NoCaller

(* Some future is waiting for the answer to the request on the wire. *)
Awaited == answer = "none" /\ \E c \in Callers : pc[c] = "awaiting"

(* The future of c has ended, by returning or by being dropped. *)
Returns(c) ==
  /\ pc' = [pc EXCEPT ![c] = "idle"]
  /\ call' = [call EXCEPT ![c] = "none"]

(* Drop of the owned transaction: the connection goes to the pool, behind a *)
(* queued ROLLBACK when the transaction has not ended and the link is up.   *)
ReleaseConnection(ended) ==
  /\ released' = TRUE
  /\ cleanup' = (~ended /\ link = "up")

(* begin has returned: BEGIN is answered, the source is shared. *)
Init ==
  /\ state = "Active" /\ guard = NoCaller
  /\ pc = [c \in Callers |-> "idle"] /\ call = [c \in Callers |-> "none"]
  /\ sent = "none" /\ answer = "none" /\ cleanup = FALSE /\ link = "up"
  /\ released = FALSE /\ session = "open"
  /\ staged = {} /\ stored = {} /\ acked = {} /\ issued = {}
  /\ spoiled = FALSE /\ verdict = <<"none", "none">>

-----------------------------------------------------------------------------
(* The callers' futures. *)

Call(c, k) ==
  /\ state # "Dropped"
  /\ pc[c] = "idle"
  /\ k \notin issued
  /\ pc' = [pc EXCEPT ![c] = "locking"]
  /\ call' = [call EXCEPT ![c] = k]
  /\ issued' = issued \cup ({k} \cap Writes)
  /\ UNCHANGED <<state, guard, released, acked, verdict, serverVars, wireVars>>

(* active, take_active on a completed source: the error returns at once. *)
RejectCompleted(c) ==
  /\ pc[c] = "locking" /\ Unlocked
  /\ state = "Completed"
  /\ Returns(c)
  /\ UNCHANGED <<state, guard, released, acked, issued, verdict, serverVars, wireVars>>

(* fetch_all ... apply_one: the guard lives until the statement's await ends. *)
LockForStatement(c) ==
  /\ pc[c] = "locking" /\ Unlocked
  /\ state = "Active"
  /\ call[c] \in Statements
  /\ guard' = c
  /\ pc' = [pc EXCEPT ![c] = "ready"]
  /\ UNCHANGED <<state, call, released, acked, issued, verdict, serverVars, wireVars>>

(* Mutant: take_active does not wait for the mutex. *)
TakeActiveUnlocked(c) ==
  /\ pc[c] = "locking"
  /\ state = "Active"
  /\ call[c] \in Finishes
  /\ state' = "Completed"
  /\ pc' = [pc EXCEPT ![c] = "ready"]
  /\ UNCHANGED <<guard, call, released, acked, issued, verdict, serverVars, wireVars>>

(* Mutant: take_active borrows the transaction and leaves the source Active. *)
TakeActiveBorrows(c) ==
  /\ pc[c] = "locking" /\ Unlocked
  /\ state = "Active"
  /\ call[c] \in Finishes
  /\ pc' = [pc EXCEPT ![c] = "ready"]
  /\ UNCHANGED <<state, guard, call, released, acked, issued, verdict, serverVars, wireVars>>

(* The guard is a local of take_active: it is gone before commit awaits. *)
TakeActive(c) ==
  /\ pc[c] = "locking" /\ Unlocked
  /\ state = "Active"
  /\ call[c] \in Finishes
  /\ state' = "Completed"
  /\ pc' = [pc EXCEPT ![c] = "ready"]
  /\ UNCHANGED <<guard, call, released, acked, issued, verdict, serverVars, wireVars>>

(* Mutant: rollback sends COMMIT. *)
SendCommits(c) ==
  /\ pc[c] = "ready"
  /\ link = "up" => sent = "none"
  /\ pc' = [pc EXCEPT ![c] = "awaiting"]
  /\ IF link = "up"
     THEN sent' = (IF call[c] \in Finishes THEN "commit" ELSE call[c]) /\ UNCHANGED answer
     ELSE answer' = "io_error" /\ UNCHANGED sent
  /\ UNCHANGED <<state, guard, call, released, acked, issued, verdict, cleanup, link, serverVars>>

(* The request leaves, after the answers to abandoned requests are drained. *)
Send(c) ==
  /\ pc[c] = "ready"
  /\ link = "up" => sent = "none"
  /\ pc' = [pc EXCEPT ![c] = "awaiting"]
  /\ IF link = "up"
     THEN sent' = call[c] /\ UNCHANGED answer
     ELSE answer' = "io_error" /\ UNCHANGED sent
  /\ UNCHANGED <<state, guard, call, released, acked, issued, verdict, cleanup, link, serverVars>>

(* Mutant: every answered call counts as an acknowledged write. *)
StatementReplyAcksAll(c) ==
  /\ pc[c] = "awaiting" /\ call[c] \in Statements
  /\ answer # "none"
  /\ Returns(c)
  /\ guard' = NoCaller
  /\ answer' = "none"
  /\ acked' = acked \cup {call[c]}
  /\ UNCHANGED <<state, released, issued, verdict, sent, cleanup, link, serverVars>>

StatementReply(c) ==
  /\ pc[c] = "awaiting" /\ call[c] \in Statements
  /\ answer # "none"
  /\ Returns(c)
  /\ guard' = NoCaller
  /\ answer' = "none"
  /\ acked' = IF answer = "ok" THEN acked \cup ({call[c]} \cap Writes) ELSE acked
  /\ UNCHANGED <<state, released, issued, verdict, sent, cleanup, link, serverVars>>

(* Mutant: the error of the finishing call is swallowed. *)
FinishReplySwallows(c) ==
  /\ pc[c] = "awaiting" /\ call[c] \in Finishes
  /\ answer # "none"
  /\ Returns(c)
  /\ answer' = "none"
  /\ verdict' = <<call[c], "ok">>
  /\ ReleaseConnection(answer = "ok")
  /\ UNCHANGED <<state, guard, acked, issued, sent, link, serverVars>>

FinishReply(c) ==
  /\ pc[c] = "awaiting" /\ call[c] \in Finishes
  /\ answer # "none"
  /\ Returns(c)
  /\ answer' = "none"
  /\ verdict' = <<call[c], answer>>
  /\ ReleaseConnection(answer = "ok")
  /\ UNCHANGED <<state, guard, acked, issued, sent, link, serverVars>>

(* A timeout, a select or an aborted task drops the future at an await.  The *)
(* guard, or the owned transaction, is dropped with it.                      *)
CancelLocking(c) ==
  /\ pc[c] = "locking"
  /\ Returns(c)
  /\ UNCHANGED <<state, guard, released, acked, issued, verdict, serverVars, wireVars>>

(* Mutant: an abandoned statement leaves the mutex locked. *)
CancelStatementKeepsGuard(c) ==
  /\ pc[c] \in {"ready", "awaiting"} /\ call[c] \in Statements
  /\ Returns(c)
  /\ answer' = "none"
  /\ UNCHANGED <<state, guard, released, acked, issued, verdict, sent, cleanup, link, serverVars>>

CancelStatement(c) ==
  /\ pc[c] \in {"ready", "awaiting"} /\ call[c] \in Statements
  /\ Returns(c)
  /\ guard' = NoCaller
  /\ answer' = "none"
  /\ UNCHANGED <<state, released, acked, issued, verdict, sent, cleanup, link, serverVars>>

(* Mutant: an abandoned commit or rollback returns the connection as it is. *)
CancelFinishLeaks(c) ==
  /\ pc[c] \in {"ready", "awaiting"} /\ call[c] \in Finishes
  /\ Returns(c)
  /\ answer' = "none"
  /\ verdict' = <<call[c], "cancelled">>
  /\ ReleaseConnection(TRUE)
  /\ UNCHANGED <<state, guard, acked, issued, sent, link, serverVars>>

CancelFinish(c) ==
  /\ pc[c] \in {"ready", "awaiting"} /\ call[c] \in Finishes
  /\ Returns(c)
  /\ answer' = "none"
  /\ verdict' = <<call[c], "cancelled">>
  /\ ReleaseConnection(FALSE)
  /\ UNCHANGED <<state, guard, acked, issued, sent, link, serverVars>>

(* The last Arc goes away while the source is Active. *)
DropSource ==
  /\ state = "Active"
  /\ \A c \in Callers : pc[c] = "idle"
  /\ state' = "Dropped"
  /\ verdict' = <<"drop", "none">>
  /\ ReleaseConnection(FALSE)
  /\ UNCHANGED <<guard, pc, call, acked, issued, sent, answer, link, serverVars>>

-----------------------------------------------------------------------------
(* The PostgreSQL session and the link (external). *)

Deliver(a) ==
  /\ sent' = "none"
  /\ answer' = IF Awaited THEN a ELSE answer

(* Outside a transaction block a statement would commit on its own. *)
Perform(w) ==
  /\ staged' = IF session \in Live THEN staged \cup {w} ELSE staged
  /\ stored' = IF session \in Live THEN stored ELSE stored \cup {w}

ServeStatement ==
  /\ sent \in Statements /\ session # "failed"
  /\ Deliver("ok")
  /\ IF sent \in Writes THEN Perform(sent) ELSE UNCHANGED <<staged, stored>>
  /\ UNCHANGED <<cleanup, link, session, spoiled, clientVars>>

(* fetch_one and apply_one turn an empty result into RowNotFound. *)
ServeNoRow ==
  /\ sent \in Statements /\ session # "failed"
  /\ Deliver("row_not_found")
  /\ UNCHANGED <<cleanup, link, serverVars, clientVars>>

(* A rejected statement aborts the whole transaction; so does every later one. *)
ServeReject ==
  /\ sent \in Statements
  /\ Deliver("database_error")
  /\ session' = IF session \in Live THEN "failed" ELSE session
  /\ spoiled' = TRUE
  /\ UNCHANGED <<cleanup, link, staged, stored, clientVars>>

(* COMMIT of an aborted transaction rolls back, and succeeds. *)
ServeCommit ==
  /\ sent = "commit"
  /\ Deliver("ok")
  /\ session' = CASE session = "open" -> "committed"
                  [] session = "failed" -> "rolledback"
                  [] OTHER -> session
  /\ stored' = IF session = "open" THEN staged ELSE stored
  /\ UNCHANGED <<cleanup, link, staged, spoiled, clientVars>>

(* A deferred constraint fails at COMMIT. *)
ServeCommitReject ==
  /\ sent = "commit" /\ session = "open"
  /\ Deliver("database_error")
  /\ session' = "rolledback"
  /\ UNCHANGED <<cleanup, link, staged, stored, spoiled, clientVars>>

EndedByRollback == IF session \in Live THEN "rolledback" ELSE session

ServeRollback ==
  /\ sent = "rollback"
  /\ Deliver("ok")
  /\ session' = EndedByRollback
  /\ UNCHANGED <<cleanup, link, staged, stored, spoiled, clientVars>>

ServeCleanup ==
  /\ cleanup /\ sent = "none"
  /\ cleanup' = FALSE
  /\ session' = EndedByRollback
  /\ UNCHANGED <<sent, answer, link, staged, stored, spoiled, clientVars>>

(* The client sees the connection fail.  An answer that had arrived may or  *)
(* may not be readable; a request that had left may still be served.        *)
BreakLink ==
  /\ link = "up"
  /\ link' = "down"
  /\ cleanup' = FALSE
  /\ answer' \in IF Awaited \/ answer # "none" THEN {"io_error", answer} \ {"none"}
                                               ELSE {"none"}
  /\ UNCHANGED <<sent, serverVars, clientVars>>

(* The server notices, and aborts what it has not committed. *)
AbandonSession ==
  /\ link = "down"
  /\ sent # "none" \/ session \in Live
  /\ sent' = "none"
  /\ session' = EndedByRollback
  /\ UNCHANGED <<answer, cleanup, link, staged, stored, spoiled, clientVars>>

Serve ==
  \/ ServeStatement \/ ServeNoRow \/ ServeReject
  \/ ServeCommit \/ ServeCommitReject \/ ServeRollback \/ ServeCleanup

-----------------------------------------------------------------------------
Lock(c) == RejectCompleted(c) \/ LockForStatement(c) \/ TakeActive(c)
Reply(c) == StatementReply(c) \/ FinishReply(c)
Cancel(c) == CancelLocking(c) \/ CancelStatement(c) \/ CancelFinish(c)

Next ==
  \/ \E c \in Callers :
       \/ \E k \in Calls : Call(c, k)
       \/ Lock(c) \/ Send(c) \/ Reply(c) \/ Cancel(c)
  \/ DropSource
  \/ Serve \/ BreakLink \/ AbandonSession

Spec == Init /\ [][Next]_vars

(***************************************************************************)
(* The runtime polls a woken future; async_lock's mutex hands the lock to a *)
(* starved waiter, so a caller that keeps finding it free gets it; the     *)
(* server answers what it was sent or notices that the client is gone.     *)
(* Nobody is obliged to call, to cancel, to drop or to break anything.     *)
(***************************************************************************)
Fairness ==
  /\ \A c \in Callers : SF_vars(Lock(c)) /\ WF_vars(Send(c)) /\ WF_vars(Reply(c))
  /\ WF_vars(Serve)
  /\ WF_vars(AbandonSession)

FairSpec == Spec /\ Fairness

-----------------------------------------------------------------------------
(* Type correctness of the source, of its callers and of the connection. *)
TypeOK ==
  /\ state \in {"Active", "Completed", "Dropped"}
  /\ guard \in Callers \cup {NoCaller}
  /\ pc \in [Callers -> {"idle", "locking", "ready", "awaiting"}]
  /\ call \in [Callers -> Calls \cup {"none"}]
  /\ sent \in Calls \cup {"none"}
  /\ answer \in Answers
  /\ cleanup \in BOOLEAN /\ link \in {"up", "down"} /\ released \in BOOLEAN
  /\ session \in Live \cup {"committed", "rolledback"}
  /\ staged \in SUBSET Writes /\ stored \in SUBSET Writes
  /\ acked \in SUBSET Writes /\ issued \in SUBSET Writes
  /\ spoiled \in BOOLEAN
  /\ verdict \in (Finishes \cup {"none", "drop"}) \X (Answers \cup {"cancelled"})

Using(c) == pc[c] \in {"ready", "awaiting"}

(* At most one caller is using the transaction's connection at any moment,  *)
(* although commit and rollback use it without holding the mutex.           *)
ConnectionExclusive ==
  \A c, d \in Callers : Using(c) /\ Using(d) => c = d

(* What the server keeps of this source is the whole transaction once it is *)
(* committed and nothing before or otherwise: no statement that reaches the *)
(* connection late commits on its own.                                      *)
AllOrNothing ==
  stored = IF session = "committed" THEN staged ELSE {}

(* commit returning Ok says exactly this: either some statement had been    *)
(* rejected and nothing was kept, or every acknowledged write is durable.   *)
CommitOkExact ==
  verdict = <<"commit", "ok">> =>
    IF spoiled THEN stored = {} ELSE session = "committed" /\ acked \subseteq stored

(* A source ended by rollback, or dropped while Active, keeps nothing, even *)
(* when the rollback was cancelled, failed or lost its connection.          *)
RollbackDiscards ==
  verdict[1] \in {"rollback", "drop"} => stored = {}

(* A connection never returns to the pool with the transaction left open:   *)
(* it has ended, or its COMMIT or ROLLBACK is on the way, or the link died. *)
ReleasedSettles ==
  released => session \notin Live \/ cleanup \/ sent \in Finishes \/ link = "down"

(* Once commit or rollback has taken the transaction no caller is told that *)
(* a write succeeded, so nobody relies on a write the commit did not cover. *)
NoAckAfterTake ==
  [][state = "Completed" => acked' = acked]_vars

(* Once the server has rejected a statement nothing a caller tries in this  *)
(* transaction succeeds: an error that is marked transient cannot be tried *)
(* again here, whoever met it.                                             *)
NoAckAfterSpoil ==
  [][spoiled => acked' = acked]_vars

(* The doc comment of commit, "Commits the transaction": once it returns Ok *)
(* every write a caller was told had succeeded is durable.                  *)
CommitOkPersists ==
  verdict = <<"commit", "ok">> => acked \subseteq stored

Finishing(c) == Using(c) /\ call[c] \in Finishes

(* The parts of the inductive invariant: the lock, the wire, the session. *)
LockDiscipline ==
  /\ \A c \in Callers : pc[c] = "idle" <=> call[c] = "none"
  /\ \A c \in Callers : guard = c <=> Using(c) /\ call[c] \in Statements
  /\ guard # NoCaller => state = "Active"
  /\ \A c \in Callers : Finishing(c) => state = "Completed" /\ ~released
  /\ \A c, d \in Callers : Finishing(c) /\ Finishing(d) => c = d
  /\ state = "Active" => ~released /\ sent \notin Finishes
  /\ released <=> verdict[1] # "none"

WireDiscipline ==
  /\ \A c \in Callers : pc[c] = "awaiting" =>
       IF answer = "none" THEN link = "up" /\ sent = call[c]
                          ELSE link = "up" => sent = "none"
  /\ answer # "none" => \E c \in Callers : pc[c] = "awaiting"
  /\ cleanup => released /\ link = "up"
  /\ sent \in Finishes => released \/ \E c \in Callers : pc[c] = "awaiting" /\ call[c] = sent
  /\ sent \in Statements => session \in Live

SessionDiscipline ==
  /\ session \notin Live =>
       link = "down" \/ released \/ (state = "Completed" /\ answer # "none")
  /\ session \in {"open", "committed"} => ~spoiled
  /\ session = "failed" => spoiled
  /\ session = "committed" \/ sent = "commit" =>
       verdict[1] = "commit" \/ \E c \in Callers : Finishing(c) /\ call[c] = "commit"
  /\ acked \subseteq staged

(* What an answer that has arrived, and a commit that has returned Ok, say. *)
AnswersTrue ==
  /\ \A c \in Callers : pc[c] = "awaiting" /\ answer = "ok" =>
       /\ call[c] \in Writes => call[c] \in staged
       /\ call[c] \in Finishes => session \notin Live
       /\ call[c] = "commit" => session = IF spoiled THEN "rolledback" ELSE "committed"
  /\ verdict = <<"commit", "ok">> => session = IF spoiled THEN "rolledback" ELSE "committed"

(* The mutex, the wire and the server's session always agree on who uses    *)
(* the transaction, whose request is in flight and how it can have ended.   *)
IInv ==
  /\ TypeOK
  /\ LockDiscipline
  /\ WireDiscipline
  /\ SessionDiscipline
  /\ AnswersTrue
  /\ AllOrNothing
  /\ ReleasedSettles

(* The unit of work that the source implements. *)
UoW == INSTANCE UnitOfWork WITH
  phase <- IF session \in Live THEN "open" ELSE session

ImplementsUnitOfWork == UoW!Spec

(* Every call returns: no order of waiting, cancelling and failing leaves a *)
(* caller behind a lock or an answer that never comes.                      *)
CallsReturn == \A c \in Callers : pc[c] # "idle" ~> pc[c] = "idle"

(* Once the source is completed or dropped the server's transaction ends,   *)
(* whether the finishing call is answered, cancelled or loses its link.     *)
TransactionEnds == state # "Active" ~> session \notin Live

=============================================================================
