------------------------ MODULE PgPoolSource_proofs ------------------------
(***************************************************************************)
(* The pool never overdraws or leaks a connection, and keeps the contract  *)
(* of a source, for every set of calls and every pool size.                *)
(***************************************************************************)
EXTENDS PgPoolSource, FiniteSetTheorems, TLAPS

LEMMA InitPInv == Init => PInv
<1> SUFFICES ASSUME Init PROVE PInv
  OBVIOUS
<1>1. inuse = {} /\ Cardinality({}) = 0 /\ 0 <= Connections
  BY FS_EmptySet, ConnectionsAssumption DEF Init
<1>2. TypeOK
  BY <1>1 DEF Init, TypeOK
<1> QED
  BY <1>2 DEF Init, PInv, ConnectionsAccounted, Settled, Settles, Rejections, SqlxErrors, ClientErrors,
     InvalidMapping

(* The connections in use stay within the pool when one is added to fewer. *)
LEMMA InuseBound ==
  ASSUME NEW c \in Calls, TypeOK,
         \/ inuse' = inuse \cup {c} /\ Cardinality(inuse) < Connections
         \/ inuse' = inuse \ {c}
         \/ inuse' = inuse
  PROVE  inuse' \subseteq Calls /\ Cardinality(inuse') <= Connections
<1>1. IsFiniteSet(inuse)
  BY FS_Subset, CallsAssumption DEF TypeOK
<1>2. Cardinality(inuse) \in Nat
  BY <1>1, FS_CardinalityType
<1>3. Cardinality(inuse \cup {c}) <= Cardinality(inuse) + 1 /\ Cardinality(inuse \cup {c}) \in Nat
  BY <1>1, <1>2, FS_AddElement
<1>4. Cardinality(inuse \ {c}) <= Cardinality(inuse)
  <2>1. CASE c \in inuse
    BY <1>1, <1>2, <2>1, FS_RemoveElement
  <2>2. CASE c \notin inuse
    <3>1. inuse \ {c} = inuse
      BY <2>2
    <3> QED
      BY <1>2, <3>1
  <2> QED
    BY <2>1, <2>2
<1>5. Cardinality(inuse \ {c}) \in Nat
  BY <1>1, FS_Subset, FS_CardinalityType
<1>6. CASE inuse' = inuse \cup {c} /\ Cardinality(inuse) < Connections
  BY <1>2, <1>3, <1>6, ConnectionsAssumption DEF TypeOK
<1>7. CASE inuse' = inuse \ {c}
  BY <1>2, <1>4, <1>5, <1>7, ConnectionsAssumption DEF TypeOK
<1>8. CASE inuse' = inuse
  BY <1>8 DEF TypeOK
<1> QED
  BY <1>6, <1>7, <1>8

LEMMA StepPInv == ASSUME PInv, [Next]_vars PROVE PInv'
<1> USE DEF Moves, Answers
<1>1. /\ TypeOK /\ ConnectionsAccounted /\ Settled
      /\ "none" \notin SqlStates /\ "ok" \notin SqlStates
  BY SqlStatesAssumption DEF PInv, Retryable, ConnectionExceptions, Collisions, Relationships,
     SchemaViolations
<1> DEFINE Definite == {"ok", "RowNotFound", "PoolTimedOut", "PoolClosed", "Tls"} \cup SqlStates
<1>2. /\ "none" \notin Rejections /\ "ok" \notin Rejections
      /\ {"Io", "Protocol"} \cap (Rejections \cup Definite \cup {"none"}) = {}
      /\ {"PoolTimedOut", "Io", "Tls", "PoolClosed", "Protocol", "RowNotFound"} \subseteq SqlxErrors
      /\ SqlStates \subseteq SqlxErrors /\ Rejections \subseteq Definite
  BY <1>1, SqlStatesAssumption DEF Rejections, SqlxErrors, ClientErrors, InvalidMapping, Ambiguous,
     ConnectionExceptions, Retryable, Collisions, Relationships, SchemaViolations
<1>3. ASSUME NEW c \in Calls, Call(c) PROVE PInv'
  <2>1. TypeOK'
    BY <1>1, <1>3, InuseBound DEF Call, TypeOK
  <2>2. ConnectionsAccounted'
    BY <1>1, <1>3 DEF Call, TypeOK, ConnectionsAccounted, OpenTransaction, Keeps
  <2>3. Settled'
    BY <1>1, <1>3 DEF Call, TypeOK, Settled, Settles
  <2> QED
    BY <2>1, <2>2, <2>3 DEF PInv
<1>4. ASSUME NEW c \in Calls, Acquire(c) PROVE PInv'
  <2>1. TypeOK'
    BY <1>1, <1>4, InuseBound DEF Acquire, TypeOK
  <2>2. ConnectionsAccounted'
    BY <1>1, <1>4 DEF Acquire, TypeOK, ConnectionsAccounted, OpenTransaction, Keeps
  <2>3. Settled'
    BY <1>1, <1>2, <1>4 DEF Acquire, TypeOK, Settled, Settles
  <2> QED
    BY <2>1, <2>2, <2>3 DEF PInv
<1>5. ASSUME NEW c \in Calls, AcquireFails(c) PROVE PInv'
  <2>1. PICK error \in {"PoolClosed", "PoolTimedOut", "Io", "Tls"} : Answers(c, error)
    BY <1>5 DEF AcquireFails
  <2>2. TypeOK'
    BY <1>1, <1>2, <1>5, <2>1, InuseBound DEF AcquireFails, TypeOK
  <2>3. ConnectionsAccounted'
    BY <1>1, <1>5, <2>1 DEF AcquireFails, TypeOK, ConnectionsAccounted, OpenTransaction, Keeps
  <2>4. Settled'
    BY <1>1, <1>2, <1>5, <2>1 DEF AcquireFails, TypeOK, Settled, Settles
  <2> QED
    BY <2>2, <2>3, <2>4 DEF PInv
<1>6. ASSUME NEW c \in Calls, Serve(c) PROVE PInv'
  <2>1. PICK a \in {"ok", "RowNotFound"} \cup SqlStates :
          /\ times' = IF a = "ok" THEN [times EXCEPT ![c] = @ + 1] ELSE times
          /\ answer' = IF pc[c] = "executing" THEN [answer EXCEPT ![c] = a] ELSE answer
    BY <1>6 DEF Serve
  <2>2. TypeOK'
    <3>1. times' \in [Calls -> Nat]
      BY <1>1, <2>1 DEF TypeOK
    <3>2. answer' \in [Calls -> {"none", "ok"} \cup SqlxErrors]
      BY <1>1, <1>2, <2>1 DEF TypeOK
    <3>3. inuse' \subseteq Calls /\ Cardinality(inuse') <= Connections
      BY <1>1, <1>6, InuseBound DEF Serve
    <3> QED
      BY <1>1, <1>6, <3>1, <3>2, <3>3 DEF Serve, TypeOK
  <2>3. ConnectionsAccounted'
    BY <1>1, <1>6, <2>1 DEF Serve, TypeOK, ConnectionsAccounted, OpenTransaction, Keeps
  <2>4. Settled'
    <3>1. times[c] = 0 /\ c \notin wire' /\ pc' = pc /\ pc[c] \in {"executing", "done", "dropped"}
      BY <1>1, <1>6 DEF Serve, TypeOK, Settled, Settles
    <3>2. /\ times' \in [Calls -> Nat] /\ times'[c] = IF a = "ok" THEN 1 ELSE 0
          /\ \A d \in Calls \ {c} : times'[d] = times[d]
      BY <1>1, <2>1, <3>1 DEF TypeOK
    <3>3. /\ answer'[c] = IF pc[c] = "executing" THEN a ELSE answer[c]
          /\ \A d \in Calls \ {c} : answer'[d] = answer[d]
      BY <1>1, <2>1 DEF TypeOK
    <3>4. c \in wire /\ wire' = wire \ {c}
      BY <1>6 DEF Serve
    <3> SUFFICES ASSUME NEW d \in Calls PROVE Settles(d)'
      BY DEF Settled
    <3>5. CASE d # c
      BY <1>1, <3>1, <3>2, <3>3, <3>4, <3>5 DEF Settled, Settles
    <3>6. CASE d = c /\ pc[c] = "executing"
      BY <1>1, <1>2, <2>1, <3>1, <3>2, <3>3, <3>4, <3>6 DEF Settles
    <3>7. CASE d = c /\ pc[c] # "executing"
      BY <1>1, <1>2, <2>1, <3>1, <3>2, <3>3, <3>4, <3>7 DEF Settled, Settles
    <3> QED
      BY <3>5, <3>6, <3>7
  <2> QED
    BY <2>2, <2>3, <2>4 DEF PInv
<1>7. ASSUME NEW c \in Calls, Reply(c) PROVE PInv'
  <2>1. TypeOK'
    BY <1>1, <1>7, InuseBound DEF Reply, TypeOK
  <2>2. ConnectionsAccounted'
    BY <1>1, <1>7 DEF Reply, TypeOK, ConnectionsAccounted, OpenTransaction, Keeps
  <2>3. Settled'
    BY <1>1, <1>7 DEF Reply, TypeOK, Settled, Settles
  <2> QED
    BY <2>1, <2>2, <2>3 DEF PInv
<1>8. ASSUME NEW c \in Calls, LoseLink(c) PROVE PInv'
  <2>1. PICK error \in {"Io", "Protocol"} : Answers(c, error)
    BY <1>8 DEF LoseLink
  <2>2. TypeOK'
    BY <1>1, <1>2, <1>8, <2>1, InuseBound DEF LoseLink, TypeOK
  <2>3. ConnectionsAccounted'
    BY <1>1, <1>8, <2>1 DEF LoseLink, TypeOK, ConnectionsAccounted, OpenTransaction, Keeps
  <2>4. Settled'
    BY <1>1, <1>2, <1>8, <2>1 DEF LoseLink, TypeOK, Settled, Settles
  <2> QED
    BY <2>2, <2>3, <2>4 DEF PInv
<1>9. ASSUME NEW c \in Calls, Forget(c) PROVE PInv'
  <2>1. TypeOK'
    BY <1>1, <1>9, InuseBound DEF Forget, TypeOK
  <2>2. ConnectionsAccounted'
    BY <1>1, <1>9 DEF Forget, TypeOK, ConnectionsAccounted, OpenTransaction, Keeps
  <2>3. Settled'
    BY <1>1, <1>9 DEF Forget, TypeOK, Settled, Settles
  <2> QED
    BY <2>1, <2>2, <2>3 DEF PInv
<1>10. ASSUME NEW c \in Calls, Cancel(c) PROVE PInv'
  <2>1. TypeOK'
    BY <1>1, <1>10, InuseBound DEF Cancel, TypeOK
  <2>2. ConnectionsAccounted'
    BY <1>1, <1>10 DEF Cancel, TypeOK, ConnectionsAccounted, OpenTransaction, Keeps
  <2>3. Settled'
    BY <1>1, <1>10 DEF Cancel, TypeOK, Settled, Settles
  <2> QED
    BY <2>1, <2>2, <2>3 DEF PInv
<1>11. ASSUME NEW c \in Calls, EndTransaction(c) PROVE PInv'
  <2>1. TypeOK'
    BY <1>1, <1>11, InuseBound DEF EndTransaction, TypeOK
  <2>2. ConnectionsAccounted'
    BY <1>1, <1>11 DEF EndTransaction, TypeOK, ConnectionsAccounted, OpenTransaction, Keeps
  <2>3. Settled'
    BY <1>1, <1>11 DEF EndTransaction, Settled, Settles
  <2> QED
    BY <2>1, <2>2, <2>3 DEF PInv
<1>12. CASE Close \/ UNCHANGED vars
  BY <1>1, <1>12 DEF Close, vars, PInv, TypeOK, ConnectionsAccounted, OpenTransaction, Keeps, Settled, Settles
<1> QED
  BY <1>3, <1>4, <1>5, <1>6, <1>7, <1>8, <1>9, <1>10, <1>11, <1>12 DEF Next

(* Everything the pool and its callers' answers agree on holds always. *)
THEOREM PoolInvariant == Spec => []PInv
BY InitPInv, StepPInv, PTL DEF Spec

(* No connection is lost to a statement, a failed begin or a dropped future. *)
THEOREM NoConnectionLeaks == Spec => []ConnectionsAccounted
<1>1. PInv => ConnectionsAccounted
  BY DEF PInv
<1> QED
  BY <1>1, PoolInvariant, PTL

-----------------------------------------------------------------------------
(* A step of the pool is a step of the contract, or changes nothing a       *)
(* caller of the source can tell.                                          *)
LEMMA StepKeepsContract ==
  ASSUME PInv, [Next]_vars
  PROVE  [Contract!Next]_Contract!vars
<1> USE DEF Moves, Answers
<1> DEFINE called == {c \in Calls : pc[c] # "new"}
           told == [c \in Calls |-> Told(c)]
<1>1. TypeOK /\ Settled /\ SqlStates \subseteq SqlxErrors /\ Rejections \subseteq SqlxErrors
  BY DEF PInv, SqlxErrors, Rejections
<1>2. "none" \notin Rejections /\ "ok" \notin Rejections /\ {"Io", "Protocol"} \cap Rejections = {}
  BY SqlStatesAssumption DEF Rejections, SqlxErrors, ClientErrors,
     InvalidMapping, Ambiguous, ConnectionExceptions, Retryable, Collisions, Relationships,
     SchemaViolations
<1>3. Rejections \subseteq {"RowNotFound", "PoolTimedOut", "PoolClosed", "Tls"} \cup SqlStates
  BY SqlStatesAssumption DEF Rejections, SqlxErrors, ClientErrors, InvalidMapping, Ambiguous
<1>4. ASSUME NEW c \in Calls, Call(c) PROVE Contract!Call(c)
  <2>1. c \notin called /\ called' = called \cup {c}
    BY <1>1, <1>4 DEF Call, TypeOK
  <2>2. \A d \in Calls : Told(d)' = Told(d)
    BY <1>1, <1>4 DEF Call, TypeOK, Told
  <2>3. told' = told /\ times' = times
    BY <1>4, <2>2 DEF Call
  <2> QED
    BY <2>1, <2>3 DEF Contract!Call
(* The answer that reaches a caller: what it is told is true. *)
<1>5. ASSUME NEW c \in Calls, pc[c] \in {"acquiring", "executing"}, pc' = [pc EXCEPT ![c] = "done"],
             times' = times, \A d \in Calls \ {c} : answer'[d] = answer[d],
             answer'[c] = "ok" => times[c] = 1, answer'[c] \in Rejections => times[c] = 0
      PROVE  \E o \in {"ok", "rejected", "unknown"} : Contract!Tell(c, o)
  <2>1. called' = called /\ c \in called
    BY <1>1, <1>5 DEF TypeOK
  <2>2. Told(c) = "nothing" /\ Told(c)' \in {"ok", "rejected", "unknown"}
    BY <1>1, <1>5 DEF Told, TypeOK
  <2>3. \A d \in Calls \ {c} : Told(d)' = Told(d)
    BY <1>1, <1>5 DEF Told, TypeOK
  <2>4. told' = [told EXCEPT ![c] = Told(c)']
    BY <2>3
  <2>5. (Told(c)' = "ok" => times[c] = 1) /\ (Told(c)' = "rejected" => times[c] = 0)
    BY <1>1, <1>5 DEF Told, TypeOK
  <2> HIDE DEF called, told
  <2>6. told[c] = "nothing"
    BY <2>2 DEF told
  <2>7. Contract!Tell(c, Told(c)')
    BY <1>5, <2>1, <2>4, <2>5, <2>6 DEF Contract!Tell, called, told
  <2> QED
    BY <2>2, <2>7
(* What changes neither an answer that was read nor an effect is a stutter. *)
<1>6. ASSUME times' = times, \A d \in Calls : Told(d)' = Told(d),
             \A d \in Calls : pc'[d] = "new" <=> pc[d] = "new"
      PROVE  UNCHANGED Contract!vars
  <2>1. called' = called
    BY <1>6
  <2>2. told' = told
    BY <1>6
  <2> QED
    BY <1>6, <2>1, <2>2 DEF Contract!vars
<1>7. ASSUME NEW c \in Calls, Serve(c) PROVE [Contract!Next]_Contract!vars
  <2>1. PICK a \in {"ok", "RowNotFound"} \cup SqlStates :
          /\ times' = IF a = "ok" THEN [times EXCEPT ![c] = @ + 1] ELSE times
          /\ answer' = IF pc[c] = "executing" THEN [answer EXCEPT ![c] = a] ELSE answer
    BY <1>7 DEF Serve
  <2>2. /\ times[c] = 0 /\ c \in wire /\ pc' = pc /\ pc[c] \in {"executing", "done", "dropped"}
        /\ answer[c] # "ok" /\ answer[c] \notin Rejections
    BY <1>1, <1>3, <1>7 DEF Serve, Settled, Settles
  <2>3. \A d \in Calls : Told(d)' = Told(d)
    BY <1>1, <2>1, <2>2 DEF Told, TypeOK
  <2>4. CASE a = "ok"
    <3>1. times' = [times EXCEPT ![c] = 1]
      BY <1>1, <2>1, <2>2, <2>4 DEF TypeOK
    <3>2. called' = called /\ c \in called /\ told' = told
      BY <2>2, <2>3
    <3>3. told[c] \in {"nothing", "unknown"}
      BY <2>2 DEF Told
    <3>4. Contract!TakeEffect(c)
      BY <2>2, <3>1, <3>2, <3>3 DEF Contract!TakeEffect
    <3> QED
      BY <3>4 DEF Contract!Next
  <2>5. CASE a # "ok"
    BY <1>6, <2>1, <2>2, <2>3, <2>5
  <2> QED
    BY <2>4, <2>5
<1>8. ASSUME NEW c \in Calls, AcquireFails(c) PROVE [Contract!Next]_Contract!vars
  <2>1. PICK error \in {"PoolClosed", "PoolTimedOut", "Io", "Tls"} : Answers(c, error)
    BY <1>8 DEF AcquireFails
  <2>2. times[c] = 0 /\ pc[c] = "acquiring" /\ answer'[c] = error /\ error # "ok"
    BY <1>1, <1>8, <2>1 DEF AcquireFails, Settled, Settles, TypeOK
  <2>3. \A d \in Calls \ {c} : answer'[d] = answer[d]
    BY <1>1, <2>1 DEF TypeOK
  <2>4. pc' = [pc EXCEPT ![c] = "done"] /\ times' = times
    BY <1>8 DEF AcquireFails
  <2>5. \E o \in {"ok", "rejected", "unknown"} : Contract!Tell(c, o)
    BY <1>5, <2>2, <2>3, <2>4
  <2> QED
    BY <2>5 DEF Contract!Next
<1>9. ASSUME NEW c \in Calls, Reply(c) PROVE [Contract!Next]_Contract!vars
  <2>1. (answer'[c] = "ok" => times[c] = 1) /\ (answer'[c] \in Rejections => times[c] = 0)
    BY <1>1, <1>9 DEF Reply, Settled, Settles
  <2>2. \E o \in {"ok", "rejected", "unknown"} : Contract!Tell(c, o)
    BY <1>5, <1>9, <2>1 DEF Reply
  <2> QED
    BY <2>2 DEF Contract!Next
<1>10. ASSUME NEW c \in Calls, LoseLink(c) PROVE [Contract!Next]_Contract!vars
  <2>1. PICK error \in {"Io", "Protocol"} : Answers(c, error)
    BY <1>10 DEF LoseLink
  <2>2. answer'[c] = error /\ \A d \in Calls \ {c} : answer'[d] = answer[d]
    BY <1>1, <2>1 DEF TypeOK
  <2>3. \E o \in {"ok", "rejected", "unknown"} : Contract!Tell(c, o)
    BY <1>2, <1>5, <1>10, <2>2 DEF LoseLink
  <2> QED
    BY <2>3 DEF Contract!Next
<1>11. ASSUME NEW c \in Calls, Acquire(c) \/ Cancel(c) PROVE UNCHANGED Contract!vars
  <2>1. times' = times /\ answer' = answer
    BY <1>11 DEF Acquire, Cancel
  <2>2. \A d \in Calls : Told(d)' = Told(d) /\ (pc'[d] = "new" <=> pc[d] = "new")
    BY <1>1, <1>11, <2>1 DEF Acquire, Cancel, Told, TypeOK
  <2> QED
    BY <1>6, <2>1, <2>2
<1>12. ASSUME NEW c \in Calls, Forget(c) \/ EndTransaction(c) PROVE UNCHANGED Contract!vars
  BY <1>6, <1>12 DEF Forget, EndTransaction, Told
<1>13. CASE Close \/ UNCHANGED vars
  BY <1>6, <1>13 DEF Close, vars, Told
<1> QED
  BY <1>4, <1>7, <1>8, <1>9, <1>10, <1>11, <1>12, <1>13 DEF Next, Contract!Next

(* For any number of calls and connections the pool implements PgSource.    *)
THEOREM PoolImplementsSource == Spec => KeepsContract
<1>1. Init => Contract!Init
  <2> SUFFICES ASSUME Init PROVE Contract!Init
    OBVIOUS
  <2>1. {c \in Calls : pc[c] # "new"} = {} /\ \A c \in Calls : Told(c) = "nothing"
    BY DEF Init, Told
  <2> QED
    BY <2>1 DEF Init, Contract!Init
<1> QED
  BY <1>1, StepKeepsContract, PoolInvariant, PTL DEF Spec, KeepsContract, Contract!Spec

(* What that buys: whatever keeps the contract runs nothing twice, and an   *)
(* Ok or a rejection that a caller was told still holds at any later time. *)
THEOREM ContractIsTruthful == Contract!Spec => []Contract!Truthful
<1>1. Contract!Init => Contract!SourceInv
  BY DEF Contract!Init, Contract!SourceInv, Contract!Truthful
<1>2. Contract!SourceInv /\ [Contract!Next]_Contract!vars => Contract!SourceInv'
  <2> SUFFICES ASSUME Contract!SourceInv, [Contract!Next]_Contract!vars PROVE Contract!SourceInv'
    OBVIOUS
  <2> USE DEF Contract!SourceInv, Contract!Truthful
  <2>1. ASSUME NEW c \in Calls, Contract!Call(c) PROVE Contract!SourceInv'
    BY <2>1 DEF Contract!Call
  <2>2. ASSUME NEW c \in Calls, Contract!TakeEffect(c) PROVE Contract!SourceInv'
    BY <2>2 DEF Contract!TakeEffect
  <2>3. ASSUME NEW c \in Calls, NEW o \in {"ok", "rejected", "unknown"}, Contract!Tell(c, o)
        PROVE  Contract!SourceInv'
    BY <2>3 DEF Contract!Tell
  <2>4. CASE UNCHANGED Contract!vars
    BY <2>4 DEF Contract!vars
  <2> QED
    BY <2>1, <2>2, <2>3, <2>4 DEF Contract!Next
<1> QED
  BY <1>1, <1>2, PTL DEF Contract!Spec, Contract!SourceInv

(* The pool's callers are therefore told the truth.                         *)
THEOREM PoolIsTruthful == Spec => []Contract!Truthful
  BY PoolImplementsSource, ContractIsTruthful, PTL DEF KeepsContract

=============================================================================
