--------------------- MODULE PgTransactionSource_proofs ---------------------
(***************************************************************************)
(* Theorems of PgTransactionSource, for any callers and any writes.        *)
(***************************************************************************)
EXTENDS PgTransactionSource, TLAPS

USE NoCallerAssumption, WritesAssumption

(* A source fresh from begin: nobody holds, asks or awaits anything. *)
LEMMA InitIInv == Init => IInv
<1> SUFFICES ASSUME Init PROVE IInv
  OBVIOUS
<1>1. TypeOK
  BY DEF Init, TypeOK, Calls, Statements, Answers, Live
<1>2. LockDiscipline
  BY DEF Init, LockDiscipline, Finishing, Using, Finishes
<1>3. WireDiscipline
  BY DEF Init, WireDiscipline, Statements, Finishes
<1>4. SessionDiscipline
  BY DEF Init, SessionDiscipline, Live
<1>5. AnswersTrue
  BY DEF Init, AnswersTrue
<1>6. AllOrNothing
  BY DEF Init, AllOrNothing
<1>7. ReleasedSettles
  BY DEF Init, ReleasedSettles
<1> QED
  BY <1>1, <1>2, <1>3, <1>4, <1>5, <1>6, <1>7 DEF IInv

(***************************************************************************)
(* One step for each action; under it one for each part of the invariant   *)
(* whose variables the action changes, with the other parts it rests on,   *)
(* and a last one for the parts it leaves alone.                           *)
(***************************************************************************)
LEMMA StepIInv == IInv /\ [Next]_vars => IInv'
<1> SUFFICES ASSUME IInv, [Next]_vars PROVE IInv'
  OBVIOUS
<1>1. /\ TypeOK /\ LockDiscipline /\ WireDiscipline /\ SessionDiscipline
      /\ AnswersTrue /\ AllOrNothing /\ ReleasedSettles
  BY DEF IInv
<1>2. ASSUME NEW c \in Callers, NEW k \in Calls, Call(c, k) PROVE IInv'
  <2>1. TypeOK'
    BY <1>1, <1>2 DEF Call, serverVars, wireVars, Calls, Statements, TypeOK, Finishes, Answers,
       Failures, Live
  <2>2. LockDiscipline'
    BY <1>1, <1>2 DEF Call, serverVars, wireVars, Calls, Statements, LockDiscipline, Finishing,
       Using, Finishes, TypeOK, Answers, Failures, Live
  <2>3. WireDiscipline'
    BY <1>1, <1>2 DEF Call, serverVars, wireVars, Calls, Statements, WireDiscipline, Finishes,
       Live
  <2>4. SessionDiscipline'
    BY <1>1, <1>2 DEF Call, serverVars, wireVars, Calls, Statements, SessionDiscipline, Live,
       Finishing, Using, Finishes
  <2>5. AnswersTrue'
    BY <1>1, <1>2 DEF Call, serverVars, wireVars, Calls, Statements, AnswersTrue, Finishes, Live
  <2>6. AllOrNothing' /\ ReleasedSettles'
    BY <1>1, <1>2 DEF Call, serverVars, wireVars, AllOrNothing, ReleasedSettles
  <2> QED
    BY <2>1, <2>2, <2>3, <2>4, <2>5, <2>6 DEF IInv
<1>3. ASSUME NEW c \in Callers, RejectCompleted(c) PROVE IInv'
  <2>1. TypeOK'
    BY <1>1, <1>3 DEF RejectCompleted, Returns, serverVars, wireVars, TypeOK, Calls, Statements,
       Finishes, Answers, Failures, Live
  <2>2. LockDiscipline'
    BY <1>1, <1>3 DEF RejectCompleted, Returns, serverVars, wireVars, LockDiscipline, Finishing,
       Using, Finishes, Statements, TypeOK, Calls, Answers, Failures, Live
  <2>3. WireDiscipline'
    BY <1>1, <1>3 DEF RejectCompleted, Returns, serverVars, wireVars, WireDiscipline,
       Statements, Finishes, Live
  <2>4. SessionDiscipline'
    BY <1>1, <1>3 DEF RejectCompleted, Returns, serverVars, wireVars, SessionDiscipline, Live,
       Finishing, Using, Finishes
  <2>5. AnswersTrue'
    BY <1>1, <1>3 DEF RejectCompleted, Returns, serverVars, wireVars, AnswersTrue, Finishes,
       Live
  <2>6. AllOrNothing' /\ ReleasedSettles'
    BY <1>1, <1>3 DEF RejectCompleted, Returns, serverVars, wireVars, AllOrNothing,
       ReleasedSettles
  <2> QED
    BY <2>1, <2>2, <2>3, <2>4, <2>5, <2>6 DEF IInv
<1>4. ASSUME NEW c \in Callers, LockForStatement(c) PROVE IInv'
  <2>1. TypeOK'
    BY <1>1, <1>4 DEF LockForStatement, Unlocked, serverVars, wireVars, TypeOK, Calls,
       Statements, Finishes, Answers, Failures, Live
  <2>2. LockDiscipline'
    BY <1>1, <1>4 DEF LockForStatement, Unlocked, serverVars, wireVars, LockDiscipline,
       Finishing, Using, Finishes, Statements, TypeOK, Calls, Answers, Failures, Live
  <2>3. WireDiscipline'
    BY <1>1, <1>4 DEF LockForStatement, Unlocked, serverVars, wireVars, WireDiscipline,
       Statements, Finishes, Live
  <2>4. SessionDiscipline'
    BY <1>1, <1>4 DEF LockForStatement, Unlocked, serverVars, wireVars, SessionDiscipline, Live,
       Finishing, Using, Finishes
  <2>5. AnswersTrue'
    BY <1>1, <1>4 DEF LockForStatement, Unlocked, serverVars, wireVars, AnswersTrue, Finishes,
       Live
  <2>6. AllOrNothing' /\ ReleasedSettles'
    BY <1>1, <1>4 DEF LockForStatement, serverVars, wireVars, AllOrNothing, ReleasedSettles
  <2> QED
    BY <2>1, <2>2, <2>3, <2>4, <2>5, <2>6 DEF IInv
<1>5. ASSUME NEW c \in Callers, TakeActive(c) PROVE IInv'
  <2>1. TypeOK'
    BY <1>1, <1>5 DEF TakeActive, Unlocked, serverVars, wireVars, TypeOK, Calls, Statements,
       Finishes, Answers, Failures, Live
  <2>2. LockDiscipline'
    BY <1>1, <1>5 DEF TakeActive, Unlocked, serverVars, wireVars, LockDiscipline, Finishing,
       Using, Finishes, Statements
  <2>3. WireDiscipline'
    BY <1>1, <1>5 DEF TakeActive, Unlocked, serverVars, wireVars, WireDiscipline, Statements,
       Finishes, Live
  <2>4. SessionDiscipline'
    BY <1>1, <1>5 DEF TakeActive, Unlocked, serverVars, wireVars, SessionDiscipline, Live,
       Finishing, Using, Finishes
  <2>5. AnswersTrue'
    BY <1>1, <1>5 DEF TakeActive, Unlocked, serverVars, wireVars, AnswersTrue, Finishes, Live
  <2>6. AllOrNothing' /\ ReleasedSettles'
    BY <1>1, <1>5 DEF TakeActive, serverVars, wireVars, AllOrNothing, ReleasedSettles
  <2> QED
    BY <2>1, <2>2, <2>3, <2>4, <2>5, <2>6 DEF IInv
<1>6. ASSUME NEW c \in Callers, Send(c) PROVE IInv'
  <2>1. TypeOK'
    BY <1>1, <1>6 DEF Send, serverVars, TypeOK, Calls, Statements, Finishes, Answers, Failures,
       Live
  <2>2. LockDiscipline'
    BY <1>1, <1>6 DEF Send, serverVars, LockDiscipline, Finishing, Using, Finishes, Statements
  <2>3. WireDiscipline'
    BY <1>1, <1>6 DEF Send, serverVars, WireDiscipline, Statements, Finishes, Live, TypeOK,
       Calls, Answers, Failures, LockDiscipline, Finishing, Using, SessionDiscipline
  <2>4. SessionDiscipline'
    BY <1>1, <1>6 DEF Send, serverVars, SessionDiscipline, Live, Finishing, Using, Finishes
  <2>5. AnswersTrue'
    BY <1>1, <1>6 DEF Send, serverVars, AnswersTrue, Finishes, Live, TypeOK, Calls, Statements,
       Answers, Failures, LockDiscipline, Finishing, Using, WireDiscipline
  <2>6. ReleasedSettles'
    BY <1>1, <1>6 DEF Send, serverVars, ReleasedSettles, Live, Finishes
  <2>7. AllOrNothing'
    BY <1>1, <1>6 DEF Send, serverVars, AllOrNothing
  <2> QED
    BY <2>1, <2>2, <2>3, <2>4, <2>5, <2>6, <2>7 DEF IInv
<1>7. ASSUME NEW c \in Callers, StatementReply(c) PROVE IInv'
  <2>1. TypeOK'
    BY <1>1, <1>7 DEF StatementReply, Returns, serverVars, TypeOK, Calls, Statements, Finishes,
       Answers, Failures, Live
  <2>2. LockDiscipline'
    BY <1>1, <1>7 DEF StatementReply, Returns, serverVars, LockDiscipline, Finishing, Using,
       Finishes, Statements, TypeOK, Calls, Answers, Failures, Live
  <2>3. WireDiscipline'
    BY <1>1, <1>7 DEF StatementReply, Returns, serverVars, WireDiscipline, Statements, Finishes,
       Live, TypeOK, Calls, Answers, Failures, LockDiscipline, Finishing, Using
  <2>4. SessionDiscipline'
    BY <1>1, <1>7 DEF StatementReply, Returns, serverVars, SessionDiscipline, Live, Finishing,
       Using, Finishes, LockDiscipline, Statements, AnswersTrue
  <2>5. AnswersTrue'
    BY <1>1, <1>7 DEF StatementReply, Returns, serverVars, AnswersTrue, Finishes, Live
  <2>6. AllOrNothing' /\ ReleasedSettles'
    BY <1>1, <1>7 DEF StatementReply, Returns, serverVars, AllOrNothing, ReleasedSettles
  <2> QED
    BY <2>1, <2>2, <2>3, <2>4, <2>5, <2>6 DEF IInv
<1>8. ASSUME NEW c \in Callers, FinishReply(c) PROVE IInv'
  <2>1. TypeOK'
    BY <1>1, <1>8 DEF FinishReply, Returns, ReleaseConnection, serverVars, TypeOK, Calls,
       Statements, Finishes, Answers, Failures, Live
  <2>2. LockDiscipline'
    BY <1>1, <1>8 DEF FinishReply, Returns, ReleaseConnection, serverVars, LockDiscipline,
       Finishing, Using, Finishes, Statements, TypeOK, Calls, Answers, Failures, Live
  <2>3. WireDiscipline'
    BY <1>1, <1>8 DEF FinishReply, Returns, ReleaseConnection, serverVars, WireDiscipline,
       Statements, Finishes, Live, TypeOK, Calls, Answers, Failures, LockDiscipline, Finishing,
       Using
  <2>4. SessionDiscipline'
    BY <1>1, <1>8 DEF FinishReply, Returns, ReleaseConnection, serverVars, SessionDiscipline,
       Live, Finishing, Using, Finishes, LockDiscipline, Statements
  <2>5. AnswersTrue'
    BY <1>1, <1>8 DEF FinishReply, Returns, ReleaseConnection, serverVars, AnswersTrue,
       Finishes, Live
  <2>6. ReleasedSettles'
    BY <1>1, <1>8 DEF FinishReply, Returns, ReleaseConnection, serverVars, ReleasedSettles,
       Live, Finishes, TypeOK, Calls, Statements, Answers, Failures, AnswersTrue
  <2>7. AllOrNothing'
    BY <1>1, <1>8 DEF FinishReply, Returns, ReleaseConnection, serverVars, AllOrNothing
  <2> QED
    BY <2>1, <2>2, <2>3, <2>4, <2>5, <2>6, <2>7 DEF IInv
<1>9. ASSUME NEW c \in Callers, CancelLocking(c) PROVE IInv'
  <2>1. TypeOK'
    BY <1>1, <1>9 DEF CancelLocking, Returns, serverVars, wireVars, TypeOK, Calls, Statements,
       Finishes, Answers, Failures, Live
  <2>2. LockDiscipline'
    BY <1>1, <1>9 DEF CancelLocking, Returns, serverVars, wireVars, LockDiscipline, Finishing,
       Using, Finishes, Statements, TypeOK, Calls, Answers, Failures, Live
  <2>3. WireDiscipline'
    BY <1>1, <1>9 DEF CancelLocking, Returns, serverVars, wireVars, WireDiscipline, Statements,
       Finishes, Live
  <2>4. SessionDiscipline'
    BY <1>1, <1>9 DEF CancelLocking, Returns, serverVars, wireVars, SessionDiscipline, Live,
       Finishing, Using, Finishes
  <2>5. AnswersTrue'
    BY <1>1, <1>9 DEF CancelLocking, Returns, serverVars, wireVars, AnswersTrue, Finishes, Live
  <2>6. AllOrNothing' /\ ReleasedSettles'
    BY <1>1, <1>9 DEF CancelLocking, Returns, serverVars, wireVars, AllOrNothing,
       ReleasedSettles
  <2> QED
    BY <2>1, <2>2, <2>3, <2>4, <2>5, <2>6 DEF IInv
<1>10. ASSUME NEW c \in Callers, CancelStatement(c) PROVE IInv'
  <2>1. TypeOK'
    BY <1>1, <1>10 DEF CancelStatement, Returns, serverVars, TypeOK, Calls, Statements,
       Finishes, Answers, Failures, Live
  <2>2. LockDiscipline'
    BY <1>1, <1>10 DEF CancelStatement, Returns, serverVars, LockDiscipline, Finishing, Using,
       Finishes, Statements, TypeOK, Calls, Answers, Failures, Live
  <2>3. WireDiscipline'
    BY <1>1, <1>10 DEF CancelStatement, Returns, serverVars, WireDiscipline, Statements,
       Finishes, Live, TypeOK, Calls, Answers, Failures, LockDiscipline, Finishing, Using
  <2>4. SessionDiscipline'
    BY <1>1, <1>10 DEF CancelStatement, Returns, serverVars, SessionDiscipline, Live, Finishing,
       Using, Finishes, LockDiscipline, Statements
  <2>5. AnswersTrue'
    BY <1>1, <1>10 DEF CancelStatement, Returns, serverVars, AnswersTrue, Finishes, Live
  <2>6. AllOrNothing' /\ ReleasedSettles'
    BY <1>1, <1>10 DEF CancelStatement, Returns, serverVars, AllOrNothing, ReleasedSettles
  <2> QED
    BY <2>1, <2>2, <2>3, <2>4, <2>5, <2>6 DEF IInv
<1>11. ASSUME NEW c \in Callers, CancelFinish(c) PROVE IInv'
  <2>1. TypeOK'
    BY <1>1, <1>11 DEF CancelFinish, Returns, ReleaseConnection, serverVars, TypeOK, Calls,
       Statements, Finishes, Answers, Failures, Live
  <2>2. LockDiscipline'
    BY <1>1, <1>11 DEF CancelFinish, Returns, ReleaseConnection, serverVars, LockDiscipline,
       Finishing, Using, Finishes, Statements, TypeOK, Calls, Answers, Failures, Live
  <2>3. WireDiscipline'
    BY <1>1, <1>11 DEF CancelFinish, Returns, ReleaseConnection, serverVars, WireDiscipline,
       Statements, Finishes, Live, TypeOK, Calls, Answers, Failures, LockDiscipline, Finishing,
       Using
  <2>4. SessionDiscipline'
    BY <1>1, <1>11 DEF CancelFinish, Returns, ReleaseConnection, serverVars, SessionDiscipline,
       Live, Finishing, Using, Finishes, LockDiscipline, Statements
  <2>5. AnswersTrue'
    BY <1>1, <1>11 DEF CancelFinish, Returns, ReleaseConnection, serverVars, AnswersTrue,
       Finishes, Live
  <2>6. ReleasedSettles'
    BY <1>1, <1>11 DEF CancelFinish, Returns, ReleaseConnection, serverVars, ReleasedSettles,
       Live, Finishes, TypeOK, Calls, Statements, Answers, Failures
  <2>7. AllOrNothing'
    BY <1>1, <1>11 DEF CancelFinish, Returns, ReleaseConnection, serverVars, AllOrNothing
  <2> QED
    BY <2>1, <2>2, <2>3, <2>4, <2>5, <2>6, <2>7 DEF IInv
<1>12. ASSUME DropSource PROVE IInv'
  <2>1. TypeOK'
    BY <1>1, <1>12 DEF DropSource, ReleaseConnection, serverVars, TypeOK, Calls, Statements,
       Finishes, Answers, Failures, Live
  <2>2. LockDiscipline'
    BY <1>1, <1>12 DEF DropSource, ReleaseConnection, serverVars, LockDiscipline, Finishing,
       Using, Finishes, Statements, TypeOK, Calls, Answers, Failures, Live
  <2>3. WireDiscipline'
    BY <1>1, <1>12 DEF DropSource, ReleaseConnection, serverVars, WireDiscipline, Statements,
       Finishes, Live
  <2>4. SessionDiscipline'
    BY <1>1, <1>12 DEF DropSource, ReleaseConnection, serverVars, SessionDiscipline, Live,
       Finishing, Using, Finishes, LockDiscipline, Statements
  <2>5. AnswersTrue'
    BY <1>1, <1>12 DEF DropSource, ReleaseConnection, serverVars, AnswersTrue, Finishes, Live
  <2>6. ReleasedSettles'
    BY <1>1, <1>12 DEF DropSource, ReleaseConnection, serverVars, ReleasedSettles, Live,
       Finishes, TypeOK, Calls, Statements, Answers, Failures
  <2>7. AllOrNothing'
    BY <1>1, <1>12 DEF DropSource, ReleaseConnection, serverVars, AllOrNothing
  <2> QED
    BY <2>1, <2>2, <2>3, <2>4, <2>5, <2>6, <2>7 DEF IInv
<1>13. ASSUME ServeStatement PROVE IInv'
  <2>1. TypeOK'
    BY <1>1, <1>13 DEF ServeStatement, Deliver, Awaited, Perform, clientVars, TypeOK, Calls,
       Statements, Finishes, Answers, Failures, Live
  <2>2. LockDiscipline'
    BY <1>1, <1>13 DEF ServeStatement, Deliver, Awaited, Perform, clientVars, LockDiscipline,
       Finishing, Using, Finishes, Statements
  <2>3. WireDiscipline'
    BY <1>1, <1>13 DEF ServeStatement, Deliver, Awaited, Perform, clientVars, WireDiscipline,
       Statements, Finishes, Live
  <2>4. SessionDiscipline'
    BY <1>1, <1>13 DEF ServeStatement, Deliver, Awaited, Perform, clientVars, SessionDiscipline,
       Live, Finishing, Using, Finishes
  <2>5. AnswersTrue'
    BY <1>1, <1>13 DEF ServeStatement, Deliver, Awaited, Perform, clientVars, AnswersTrue,
       Finishes, Live, WireDiscipline, Statements
  <2>6. AllOrNothing'
    BY <1>1, <1>13 DEF ServeStatement, Deliver, Awaited, Perform, clientVars, AllOrNothing,
       WireDiscipline, Statements, Finishes, Live
  <2>7. ReleasedSettles'
    BY <1>1, <1>13 DEF ServeStatement, Deliver, Awaited, Perform, clientVars, ReleasedSettles,
       Live, Finishes, TypeOK, Calls, Statements, Answers, Failures
  <2> QED
    BY <2>1, <2>2, <2>3, <2>4, <2>5, <2>6, <2>7 DEF IInv
<1>14. ASSUME ServeNoRow PROVE IInv'
  <2>1. TypeOK'
    BY <1>1, <1>14 DEF ServeNoRow, Deliver, Awaited, clientVars, serverVars, TypeOK, Calls,
       Statements, Finishes, Answers, Failures, Live
  <2>2. LockDiscipline'
    BY <1>1, <1>14 DEF ServeNoRow, Deliver, Awaited, clientVars, serverVars, LockDiscipline,
       Finishing, Using, Finishes, Statements
  <2>3. WireDiscipline'
    BY <1>1, <1>14 DEF ServeNoRow, Deliver, Awaited, clientVars, serverVars, WireDiscipline,
       Statements, Finishes, Live
  <2>4. SessionDiscipline'
    BY <1>1, <1>14 DEF ServeNoRow, Deliver, Awaited, clientVars, serverVars, SessionDiscipline,
       Live, Finishing, Using, Finishes
  <2>5. AnswersTrue'
    BY <1>1, <1>14 DEF ServeNoRow, Deliver, Awaited, clientVars, serverVars, AnswersTrue,
       Finishes, Live
  <2>6. ReleasedSettles'
    BY <1>1, <1>14 DEF ServeNoRow, Deliver, Awaited, clientVars, serverVars, ReleasedSettles,
       Live, Finishes, TypeOK, Calls, Statements, Answers, Failures
  <2>7. AllOrNothing'
    BY <1>1, <1>14 DEF ServeNoRow, Deliver, clientVars, serverVars, AllOrNothing
  <2> QED
    BY <2>1, <2>2, <2>3, <2>4, <2>5, <2>6, <2>7 DEF IInv
<1>15. ASSUME ServeReject PROVE IInv'
  <2>1. TypeOK'
    BY <1>1, <1>15 DEF ServeReject, Deliver, Awaited, clientVars, TypeOK, Calls, Statements,
       Finishes, Answers, Failures, Live
  <2>2. LockDiscipline'
    BY <1>1, <1>15 DEF ServeReject, Deliver, Awaited, clientVars, LockDiscipline, Finishing,
       Using, Finishes, Statements
  <2>3. WireDiscipline'
    BY <1>1, <1>15 DEF ServeReject, Deliver, Awaited, clientVars, WireDiscipline, Statements,
       Finishes, Live
  <2>4. SessionDiscipline'
    BY <1>1, <1>15 DEF ServeReject, Deliver, Awaited, clientVars, SessionDiscipline, Live,
       Finishing, Using, Finishes, WireDiscipline, Statements
  <2>5. AnswersTrue'
    BY <1>1, <1>15 DEF ServeReject, Deliver, Awaited, clientVars, AnswersTrue, Finishes, Live,
       WireDiscipline, Statements
  <2>6. AllOrNothing'
    BY <1>1, <1>15 DEF ServeReject, Deliver, Awaited, clientVars, AllOrNothing, TypeOK, Calls,
       Statements, Finishes, Answers, Failures, Live
  <2>7. ReleasedSettles'
    BY <1>1, <1>15 DEF ServeReject, Deliver, Awaited, clientVars, ReleasedSettles, Live,
       Finishes, TypeOK, Calls, Statements, Answers, Failures
  <2> QED
    BY <2>1, <2>2, <2>3, <2>4, <2>5, <2>6, <2>7 DEF IInv
<1>16. ASSUME ServeCommit PROVE IInv'
  <2>1. TypeOK'
    BY <1>1, <1>16 DEF ServeCommit, Deliver, Awaited, clientVars, TypeOK, Calls, Statements,
       Finishes, Answers, Failures, Live
  <2>2. LockDiscipline'
    BY <1>1, <1>16 DEF ServeCommit, Deliver, Awaited, clientVars, LockDiscipline, Finishing,
       Using, Finishes, Statements
  <2>3. WireDiscipline'
    BY <1>1, <1>16 DEF ServeCommit, Deliver, Awaited, clientVars, WireDiscipline, Statements,
       Finishes, Live
  <2>4. SessionDiscipline'
    BY <1>1, <1>16 DEF ServeCommit, Deliver, Awaited, clientVars, SessionDiscipline, Live,
       Finishing, Using, Finishes, LockDiscipline, Statements, WireDiscipline
  <2>5. AnswersTrue'
    BY <1>1, <1>16 DEF ServeCommit, Deliver, Awaited, clientVars, AnswersTrue, Finishes, Live,
       LockDiscipline, Finishing, Using, Statements, WireDiscipline, SessionDiscipline
  <2>6. AllOrNothing'
    BY <1>1, <1>16 DEF ServeCommit, Deliver, Awaited, clientVars, AllOrNothing
  <2>7. ReleasedSettles'
    BY <1>1, <1>16 DEF ServeCommit, Deliver, Awaited, clientVars, ReleasedSettles, Live,
       Finishes
  <2> QED
    BY <2>1, <2>2, <2>3, <2>4, <2>5, <2>6, <2>7 DEF IInv
<1>17. ASSUME ServeCommitReject PROVE IInv'
  <2>1. TypeOK'
    BY <1>1, <1>17 DEF ServeCommitReject, Deliver, Awaited, clientVars, TypeOK, Calls,
       Statements, Finishes, Answers, Failures, Live
  <2>2. LockDiscipline'
    BY <1>1, <1>17 DEF ServeCommitReject, Deliver, Awaited, clientVars, LockDiscipline,
       Finishing, Using, Finishes, Statements
  <2>3. WireDiscipline'
    BY <1>1, <1>17 DEF ServeCommitReject, Deliver, Awaited, clientVars, WireDiscipline,
       Statements, Finishes, Live
  <2>4. SessionDiscipline'
    BY <1>1, <1>17 DEF ServeCommitReject, Deliver, Awaited, clientVars, SessionDiscipline, Live,
       Finishing, Using, Finishes, LockDiscipline, Statements, WireDiscipline
  <2>5. AnswersTrue'
    BY <1>1, <1>17 DEF ServeCommitReject, Deliver, Awaited, clientVars, AnswersTrue, Finishes,
       Live
  <2>6. AllOrNothing'
    BY <1>1, <1>17 DEF ServeCommitReject, Deliver, Awaited, clientVars, AllOrNothing
  <2>7. ReleasedSettles'
    BY <1>1, <1>17 DEF ServeCommitReject, Deliver, Awaited, clientVars, ReleasedSettles, Live,
       Finishes
  <2> QED
    BY <2>1, <2>2, <2>3, <2>4, <2>5, <2>6, <2>7 DEF IInv
<1>18. ASSUME ServeRollback PROVE IInv'
  <2>1. TypeOK'
    BY <1>1, <1>18 DEF ServeRollback, Deliver, Awaited, EndedByRollback, clientVars, TypeOK,
       Calls, Statements, Finishes, Answers, Failures, Live
  <2>2. LockDiscipline'
    BY <1>1, <1>18 DEF ServeRollback, Deliver, Awaited, EndedByRollback, clientVars,
       LockDiscipline, Finishing, Using, Finishes, Statements
  <2>3. WireDiscipline'
    BY <1>1, <1>18 DEF ServeRollback, Deliver, Awaited, EndedByRollback, clientVars,
       WireDiscipline, Statements, Finishes, Live
  <2>4. SessionDiscipline'
    BY <1>1, <1>18 DEF ServeRollback, Deliver, Awaited, EndedByRollback, clientVars,
       SessionDiscipline, Live, Finishing, Using, Finishes, LockDiscipline, Statements,
       WireDiscipline
  <2>5. AnswersTrue'
    BY <1>1, <1>18 DEF ServeRollback, Deliver, Awaited, EndedByRollback, clientVars,
       AnswersTrue, Finishes, Live, WireDiscipline, Statements
  <2>6. AllOrNothing'
    BY <1>1, <1>18 DEF ServeRollback, Deliver, Awaited, EndedByRollback, clientVars,
       AllOrNothing, TypeOK, Calls, Statements, Finishes, Answers, Failures, Live
  <2>7. ReleasedSettles'
    BY <1>1, <1>18 DEF ServeRollback, Deliver, Awaited, EndedByRollback, clientVars,
       ReleasedSettles, Live, Finishes
  <2> QED
    BY <2>1, <2>2, <2>3, <2>4, <2>5, <2>6, <2>7 DEF IInv
<1>19. ASSUME ServeCleanup PROVE IInv'
  <2>1. TypeOK'
    BY <1>1, <1>19 DEF ServeCleanup, EndedByRollback, clientVars, TypeOK, Calls, Statements,
       Finishes, Answers, Failures, Live
  <2>2. WireDiscipline'
    BY <1>1, <1>19 DEF ServeCleanup, EndedByRollback, clientVars, WireDiscipline, Statements,
       Finishes, Live
  <2>3. SessionDiscipline'
    BY <1>1, <1>19 DEF ServeCleanup, EndedByRollback, clientVars, SessionDiscipline, Live,
       Finishing, Using, Finishes, WireDiscipline, Statements
  <2>4. AnswersTrue'
    BY <1>1, <1>19 DEF ServeCleanup, EndedByRollback, clientVars, AnswersTrue, Finishes, Live
  <2>5. AllOrNothing'
    BY <1>1, <1>19 DEF ServeCleanup, EndedByRollback, clientVars, AllOrNothing, TypeOK, Calls,
       Statements, Finishes, Answers, Failures, Live
  <2>6. ReleasedSettles'
    BY <1>1, <1>19 DEF ServeCleanup, EndedByRollback, clientVars, ReleasedSettles, Live,
       Finishes
  <2>7. LockDiscipline'
    BY <1>1, <1>19 DEF ServeCleanup, clientVars, LockDiscipline, Finishing, Using
  <2> QED
    BY <2>1, <2>2, <2>3, <2>4, <2>5, <2>6, <2>7 DEF IInv
<1>20. ASSUME BreakLink PROVE IInv'
  <2>1. TypeOK'
    <3>1. answer' \in Answers
      BY <1>1, <1>20 DEF BreakLink, Awaited, TypeOK, Answers, Failures
    <3>2. link' \in {"up", "down"} /\ cleanup' \in BOOLEAN
      BY <1>20 DEF BreakLink
    <3> QED
      BY <1>1, <1>20, <3>1, <3>2 DEF BreakLink, clientVars, serverVars, TypeOK
  <2>2. WireDiscipline'
    BY <1>1, <1>20 DEF BreakLink, Awaited, clientVars, serverVars, WireDiscipline, Statements,
       Finishes, Live
  <2>3. SessionDiscipline'
    BY <1>1, <1>20 DEF BreakLink, Awaited, clientVars, serverVars, SessionDiscipline, Live,
       Finishing, Using, Finishes
  <2>4. AnswersTrue'
    BY <1>1, <1>20 DEF BreakLink, Awaited, clientVars, serverVars, AnswersTrue, Finishes, Live
  <2>5. ReleasedSettles'
    BY <1>1, <1>20 DEF BreakLink, Awaited, clientVars, serverVars, ReleasedSettles, Live,
       Finishes
  <2>6. LockDiscipline' /\ AllOrNothing'
    BY <1>1, <1>20 DEF BreakLink, clientVars, serverVars, LockDiscipline, Finishing, Using,
       AllOrNothing
  <2> QED
    BY <2>1, <2>2, <2>3, <2>4, <2>5, <2>6 DEF IInv
<1>21. ASSUME AbandonSession PROVE IInv'
  <2>1. TypeOK'
    BY <1>1, <1>21 DEF AbandonSession, EndedByRollback, clientVars, TypeOK, Calls, Statements,
       Finishes, Answers, Failures, Live
  <2>2. LockDiscipline'
    BY <1>1, <1>21 DEF AbandonSession, EndedByRollback, clientVars, LockDiscipline, Finishing,
       Using, Finishes, Statements
  <2>3. WireDiscipline'
    BY <1>1, <1>21 DEF AbandonSession, EndedByRollback, clientVars, WireDiscipline, Statements,
       Finishes, Live
  <2>4. SessionDiscipline'
    BY <1>1, <1>21 DEF AbandonSession, EndedByRollback, clientVars, SessionDiscipline, Live,
       Finishing, Using, Finishes
  <2>5. AnswersTrue'
    BY <1>1, <1>21 DEF AbandonSession, EndedByRollback, clientVars, AnswersTrue, Finishes, Live
  <2>6. AllOrNothing'
    BY <1>1, <1>21 DEF AbandonSession, EndedByRollback, clientVars, AllOrNothing, TypeOK, Calls,
       Statements, Finishes, Answers, Failures, Live
  <2>7. ReleasedSettles'
    BY <1>1, <1>21 DEF AbandonSession, EndedByRollback, clientVars, ReleasedSettles, Live,
       Finishes
  <2> QED
    BY <2>1, <2>2, <2>3, <2>4, <2>5, <2>6, <2>7 DEF IInv
<1>22. ASSUME UNCHANGED vars PROVE IInv'
  BY <1>1, <1>22 DEF vars, clientVars, serverVars, wireVars, IInv, TypeOK,
     LockDiscipline, WireDiscipline, SessionDiscipline, AnswersTrue, AllOrNothing,
     ReleasedSettles, Finishing, Using
<1> QED
  BY <1>2, <1>3, <1>4, <1>5, <1>6, <1>7, <1>8, <1>9, <1>10, <1>11, <1>12, <1>13, <1>14, <1>15,
     <1>16, <1>17, <1>18, <1>19, <1>20, <1>21, <1>22
     DEF Next, Lock, Reply, Cancel, Serve

(* Mutex, wire and session agree in every reachable state. *)
THEOREM InvariantHolds == Spec => []IInv
  BY InitIInv, StepIInv, PTL DEF Spec

(* The source, its callers and its connection stay well typed. *)
THEOREM TypeCorrect == Spec => []TypeOK
<1>1. IInv => TypeOK
  BY DEF IInv
<1> QED
  BY <1>1, InvariantHolds, PTL

(***************************************************************************)
(* Two statements cannot share the mutex; a finisher is alone because the  *)
(* source is Completed as long as it runs and a guard is only kept while   *)
(* the source is Active.                                                   *)
(***************************************************************************)
THEOREM Exclusive == Spec => []ConnectionExclusive
<1>1. IInv => ConnectionExclusive
  <2> SUFFICES ASSUME IInv, NEW c \in Callers, NEW d \in Callers, Using(c), Using(d)
               PROVE c = d
    BY DEF ConnectionExclusive
  <2>1. /\ call[c] \in Statements \cup Finishes
        /\ call[d] \in Statements \cup Finishes
    BY DEF IInv, TypeOK, LockDiscipline, Using, Calls
  <2>2. CASE call[c] \in Finishes /\ call[d] \in Finishes
    BY <2>2 DEF IInv, LockDiscipline, Finishing
  <2>3. CASE call[c] \in Statements /\ call[d] \in Statements
    BY <2>3 DEF IInv, LockDiscipline
  <2>4. CASE call[c] \in Statements /\ call[d] \in Finishes
    BY <2>4 DEF IInv, LockDiscipline, Finishing
  <2>5. CASE call[c] \in Finishes /\ call[d] \in Statements
    BY <2>5 DEF IInv, LockDiscipline, Finishing
  <2> QED
    BY <2>1, <2>2, <2>3, <2>4, <2>5
<1> QED
  BY <1>1, InvariantHolds, PTL

(* The durable writes are the whole committed transaction or none of it. *)
THEOREM Atomic == Spec => []AllOrNothing
<1>1. IInv => AllOrNothing
  BY DEF IInv
<1> QED
  BY <1>1, InvariantHolds, PTL

(* What a commit that returned Ok guarantees, aborted transactions included. *)
THEOREM CommitOkMeans == Spec => []CommitOkExact
<1>1. IInv => CommitOkExact
  BY DEF IInv, CommitOkExact, AnswersTrue, SessionDiscipline, AllOrNothing
<1> QED
  BY <1>1, InvariantHolds, PTL

(***************************************************************************)
(* Only a COMMIT that was sent can commit, and the one finishing call that *)
(* ever gets the transaction was not a commit.                             *)
(***************************************************************************)
THEOREM RollbackKeepsNothing == Spec => []RollbackDiscards
<1>1. IInv => RollbackDiscards
  <2> SUFFICES ASSUME IInv, verdict[1] \in {"rollback", "drop"} PROVE stored = {}
    BY DEF RollbackDiscards
  <2>1. verdict[1] # "commit" /\ released
    BY DEF IInv, LockDiscipline
  <2>2. \A c \in Callers : ~Finishing(c)
    BY <2>1 DEF IInv, LockDiscipline
  <2>3. session # "committed"
    BY <2>1, <2>2 DEF IInv, SessionDiscipline
  <2> QED
    BY <2>3 DEF IInv, AllOrNothing
<1> QED
  BY <1>1, InvariantHolds, PTL

(* No connection goes back to the pool with an abandoned transaction. *)
THEOREM ReleaseIsSettled == Spec => []ReleasedSettles
<1>1. IInv => ReleasedSettles
  BY DEF IInv
<1> QED
  BY <1>1, InvariantHolds, PTL

(* Only a reply to a statement acknowledges, and its caller holds a guard   *)
(* that cannot be held once the source is Completed.                       *)
THEOREM NoLateAcknowledgement == Spec => NoAckAfterTake
<1>1. IInv /\ [Next]_vars => [state = "Completed" => acked' = acked]_vars
  <2> SUFFICES ASSUME IInv, Next, state = "Completed" PROVE acked' = acked
    OBVIOUS
  <2>1. ASSUME NEW c \in Callers, StatementReply(c) PROVE FALSE
    BY <2>1 DEF StatementReply, IInv, LockDiscipline, Using
  <2> QED
    BY <2>1 DEF Next, Call, Lock, RejectCompleted, LockForStatement, TakeActive, Send, Reply,
       FinishReply, Cancel, CancelLocking, CancelStatement, CancelFinish, DropSource, Serve,
       ServeStatement, ServeNoRow, ServeReject, ServeCommit, ServeCommitReject, ServeRollback,
       ServeCleanup, BreakLink, AbandonSession, clientVars
<1> QED
  BY <1>1, InvariantHolds, PTL DEF Spec, NoAckAfterTake

(* An Ok that has arrived is for the only request, and a statement's was    *)
(* given before any rejection.                                             *)
NoStaleOk ==
  answer = "ok" =>
    /\ sent = "none"
    /\ \A c \in Callers : pc[c] = "awaiting" /\ call[c] \in Statements => ~spoiled

LEMMA StepNoStaleOk == ASSUME IInv, NoStaleOk, [Next]_vars PROVE NoStaleOk'
<1>1. TypeOK /\ LockDiscipline /\ WireDiscipline /\ SessionDiscipline
  BY DEF IInv
<1>2. ASSUME NEW c \in Callers, Send(c) PROVE NoStaleOk'
  <2>1. \A d \in Callers : Using(d) => d = c
    BY <1>1, <1>2 DEF LockDiscipline, Send, Using, Finishing, TypeOK, Calls, Statements
  <2>2. answer = "none"
    BY <1>1, <1>2, <2>1 DEF WireDiscipline, Send, Using
  <2> QED
    BY <1>2, <2>2 DEF Send, NoStaleOk
<1>3. ASSUME NEW c \in Callers, StatementReply(c) \/ FinishReply(c) \/ CancelStatement(c) \/ CancelFinish(c)
      PROVE  NoStaleOk'
  BY <1>3 DEF StatementReply, FinishReply, CancelStatement, CancelFinish, NoStaleOk
<1>4. ASSUME NEW c \in Callers,
             \/ \E k \in Calls : Call(c, k)
             \/ RejectCompleted(c) \/ LockForStatement(c) \/ TakeActive(c) \/ CancelLocking(c)
      PROVE  NoStaleOk'
  <2>1. UNCHANGED <<answer, sent, spoiled>>
    BY <1>4 DEF Call, RejectCompleted, LockForStatement, TakeActive, CancelLocking, serverVars, wireVars
  <2>2. \A d \in Callers : pc'[d] = "awaiting" => pc[d] = "awaiting" /\ call'[d] = call[d]
    BY <1>1, <1>4 DEF Call, RejectCompleted, LockForStatement, TakeActive, CancelLocking, Returns, TypeOK
  <2> QED
    BY <2>1, <2>2 DEF NoStaleOk
<1>5. CASE ServeStatement
  BY <1>1, <1>5 DEF ServeStatement, Deliver, SessionDiscipline, WireDiscipline, Live, NoStaleOk, clientVars,
     TypeOK
<1>6. CASE ServeCommit \/ ServeRollback
  <2>1. sent \in Finishes /\ sent # "none" /\ UNCHANGED <<pc, call, spoiled>> /\ Deliver("ok")
    BY <1>6 DEF ServeCommit, ServeRollback, clientVars, Finishes
  <2>2. \A c \in Callers : pc[c] = "awaiting" /\ answer = "none" => call[c] \notin Statements
    BY <1>1, <2>1, WritesAssumption DEF WireDiscipline, Statements, Finishes
  <2> QED
    BY <2>1, <2>2 DEF Deliver, Awaited, NoStaleOk
<1>7. CASE ServeNoRow \/ ServeReject \/ ServeCommitReject
  <2>1. answer' = "ok" => answer' = answer /\ UNCHANGED <<pc, call>> /\ sent' = "none" /\ sent # "none"
    BY <1>7, WritesAssumption
       DEF ServeNoRow, ServeReject, ServeCommitReject, Deliver, clientVars, Statements
  <2>2. answer = "ok" => sent = "none"
    BY DEF NoStaleOk
  <2> QED
    BY <2>1, <2>2 DEF NoStaleOk
<1>8. CASE DropSource \/ ServeCleanup \/ BreakLink \/ AbandonSession \/ UNCHANGED vars
  BY <1>8 DEF DropSource, ServeCleanup, BreakLink, AbandonSession, vars, ReleaseConnection, NoStaleOk, clientVars,
     serverVars, wireVars, Awaited
<1> QED
  BY <1>2, <1>3, <1>4, <1>5, <1>6, <1>7, <1>8 DEF Next, Lock, Reply, Cancel, Serve

(* No write is acknowledged after any statement has been rejected. *)
THEOREM NoAcknowledgementInAborted == Spec => NoAckAfterSpoil
<1>1. Init => NoStaleOk
  BY DEF Init, NoStaleOk
<1>2. IInv /\ NoStaleOk /\ [Next]_vars => [spoiled => acked' = acked]_vars
  <2> SUFFICES ASSUME NoStaleOk, Next, spoiled PROVE acked' = acked
    OBVIOUS
  <2>1. ASSUME NEW c \in Callers, StatementReply(c) PROVE acked' = acked
    BY <2>1 DEF StatementReply, NoStaleOk
  <2> QED
    BY <2>1 DEF Next, Call, Lock, RejectCompleted, LockForStatement, TakeActive, Send, Reply,
       FinishReply, Cancel, CancelLocking, CancelStatement, CancelFinish, DropSource, Serve,
       ServeStatement, ServeNoRow, ServeReject, ServeCommit, ServeCommitReject, ServeRollback,
       ServeCleanup, BreakLink, AbandonSession, clientVars
<1> QED
  BY <1>1, <1>2, StepNoStaleOk, InvariantHolds, PTL DEF Spec, NoAckAfterSpoil

(***************************************************************************)
(* The source implements the abstract unit of work: a write is staged when *)
(* the server performs it, acknowledged when its caller reads the answer,  *)
(* and the unit ends when the server commits or rolls back.                *)
(***************************************************************************)
THEOREM Refinement == Spec => ImplementsUnitOfWork
<1>1. Init => UoW!Init
  BY DEF Init, UoW!Init, Live
<1>2. IInv /\ [Next]_vars => [UoW!Next]_UoW!vars
  <2> SUFFICES ASSUME IInv, [Next]_vars PROVE [UoW!Next]_UoW!vars
    OBVIOUS
  <2> USE DEF clientVars, serverVars, wireVars, UoW!vars
  <2>1. ASSUME NEW c \in Callers, StatementReply(c) PROVE [UoW!Next]_UoW!vars
    <3>1. CASE answer = "ok" /\ call[c] \in Writes
      <4>1. acked' = acked \cup {call[c]}
        BY <2>1, <3>1 DEF StatementReply
      <4>2. call[c] \in staged
        BY <2>1, <3>1 DEF StatementReply, IInv, AnswersTrue
      <4>3. state = "Active"
        BY <2>1 DEF StatementReply, IInv, LockDiscipline, Using
      <4>4. session # "committed"
        BY <4>3 DEF IInv, LockDiscipline, SessionDiscipline
      <4>5. UoW!Acknowledge(call[c])
        BY <2>1, <4>1, <4>2, <4>4 DEF StatementReply, UoW!Acknowledge
      <4> QED
        BY <3>1, <4>5 DEF UoW!Next
    <3>2. CASE ~(answer = "ok" /\ call[c] \in Writes)
      BY <2>1, <3>2 DEF StatementReply
    <3> QED
      BY <3>1, <3>2
  <2>2. CASE ServeStatement
    <3>1. session = "open"
      BY <2>2 DEF ServeStatement, IInv, WireDiscipline, Live
    <3>2. CASE sent \in Writes
      BY <2>2, <3>1, <3>2 DEF ServeStatement, Perform, Live, UoW!Next, UoW!Stage
    <3>3. CASE sent \notin Writes
      BY <2>2, <3>3 DEF ServeStatement
    <3> QED
      BY <3>2, <3>3
  <2>3. CASE ServeReject
    BY <2>3 DEF ServeReject, Live
  <2>4. CASE ServeCommit
    BY <2>4 DEF ServeCommit, IInv, TypeOK, Live, UoW!Next, UoW!Commit, UoW!Discard
  <2>5. CASE ServeCommitReject
    BY <2>5 DEF ServeCommitReject, Live, UoW!Next, UoW!Discard
  <2>6. CASE ServeRollback \/ ServeCleanup \/ AbandonSession
    BY <2>6 DEF ServeRollback, ServeCleanup, AbandonSession, EndedByRollback, Live,
       UoW!Next, UoW!Discard
  <2>7. CASE ServeNoRow \/ BreakLink \/ DropSource
    BY <2>7 DEF ServeNoRow, BreakLink, DropSource
  <2>8. ASSUME NEW c \in Callers,
               \/ \E k \in Calls : Call(c, k)
               \/ Lock(c) \/ Send(c) \/ FinishReply(c) \/ Cancel(c)
        PROVE [UoW!Next]_UoW!vars
    BY <2>8 DEF Call, Lock, RejectCompleted, LockForStatement, TakeActive, Send, FinishReply,
       Cancel, CancelLocking, CancelStatement, CancelFinish
  <2>9. CASE UNCHANGED vars
    BY <2>9 DEF vars
  <2> QED
    BY <2>1, <2>2, <2>3, <2>4, <2>5, <2>6, <2>7, <2>8, <2>9 DEF Next, Reply, Serve
<1> QED
  BY <1>1, <1>2, InvariantHolds, PTL DEF Spec, ImplementsUnitOfWork, UoW!Spec

(* What that buys: every unit of work is all or nothing, and its commit     *)
(* covers every acknowledged write, since no acknowledgement can follow it. *)
THEOREM UnitIsAllOrNothing == UoW!Spec => []UoW!AllOrNothing
<1>1. UoW!Init => UoW!UnitInv
  BY DEF UoW!Init, UoW!UnitInv, UoW!AllOrNothing
<1>2. UoW!UnitInv /\ [UoW!Next]_UoW!vars => UoW!UnitInv'
  <2> SUFFICES ASSUME UoW!UnitInv, [UoW!Next]_UoW!vars PROVE UoW!UnitInv'
    OBVIOUS
  <2> USE DEF UoW!UnitInv, UoW!AllOrNothing
  <2>1. ASSUME NEW w \in Writes, UoW!Stage(w) PROVE UoW!UnitInv'
    BY <2>1 DEF UoW!Stage
  <2>2. ASSUME NEW w \in Writes, UoW!Acknowledge(w) PROVE UoW!UnitInv'
    BY <2>2 DEF UoW!Acknowledge
  <2>3. CASE UoW!Commit
    BY <2>3 DEF UoW!Commit
  <2>4. CASE UoW!Discard
    BY <2>4 DEF UoW!Discard
  <2>5. CASE UNCHANGED UoW!vars
    BY <2>5 DEF UoW!vars
  <2> QED
    BY <2>1, <2>2, <2>3, <2>4, <2>5 DEF UoW!Next
<1> QED
  BY <1>1, <1>2, PTL DEF UoW!Spec, UoW!UnitInv

(* A transaction source is therefore a unit of work that is all or nothing. *)
THEOREM SourceIsAllOrNothing == Spec => []UoW!AllOrNothing
  BY Refinement, UnitIsAllOrNothing, PTL DEF ImplementsUnitOfWork

=============================================================================
