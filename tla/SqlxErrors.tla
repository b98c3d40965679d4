----------------------------- MODULE SqlxErrors -----------------------------
(***************************************************************************)
(* error.rs: what a repository tells its caller of an error of sqlx.  A     *)
(* database error is named by its SQLSTATE, from which sqlx derives the    *)
(* ErrorKind that map_database_error reads.                                *)
(***************************************************************************)

CONSTANTS
  SqlStates,        \* the database errors considered
  TransientKinds    \* the kinds that SoapError's constructors make transient

Retryable == {"40001", "40P01"}
ConnectionExceptions == {"08006"}               \* any SQLSTATE of class 08
Collisions == {"23505", "23P01"}                \* UniqueViolation, ExclusionViolation
Relationships == {"23503"}                      \* ForeignKeyViolation
SchemaViolations == {"23502", "23514"}          \* NotNullViolation, CheckViolation

ASSUME SqlStatesAssumption ==
  SqlStates \subseteq Retryable \cup ConnectionExceptions \cup Collisions
                      \cup Relationships \cup SchemaViolations \cup {"42703"}

(* The other variants of sqlx::Error; "Decode" stands for those that report *)
(* a value or a column that does not fit, "Other" for the ones not listed.  *)
InvalidMapping == {"Protocol", "Decode"}
ClientErrors ==
  {"RowNotFound", "PoolTimedOut", "PoolClosed", "Io", "Tls", "Other"} \cup InvalidMapping
SqlxErrors == ClientErrors \cup SqlStates

(* SoapError, where its transience can be told apart: "other" is permanent   *)
(* or not known.                                                           *)
SoapErrorKinds == {"not_found", "timeout", "unavailable", "infrastructure", "conflict"}

ASSUME TransientKindsAssumption ==
  /\ TransientKinds \subseteq SoapErrorKinds
  /\ "timeout" \in TransientKinds   \* the test classifies_pool_timeout_as_transient

WithTransience(kind, transience) == [kind |-> kind, transience |-> transience]

(* SoapError::not_found and the others: the constructor chooses. *)
Soap(kind) == WithTransience(kind, IF kind \in TransientKinds THEN "transient" ELSE "other")

MapDatabaseError(sqlstate) ==
  CASE sqlstate \in Retryable -> WithTransience("infrastructure", "transient")
    [] sqlstate \in ConnectionExceptions -> Soap("unavailable")
    [] sqlstate \in Collisions \cup Relationships -> Soap("conflict")
    [] OTHER -> WithTransience("infrastructure", "other")

(* Mutant: a lost connection is reported as a timeout. *)
MapIoAsTimeout(error) ==
  CASE error = "RowNotFound" -> Soap("not_found")
    [] error \in {"PoolTimedOut", "Io"} -> Soap("timeout")
    [] error = "PoolClosed" -> Soap("unavailable")
    [] error \in InvalidMapping \cup {"Tls"} -> WithTransience("infrastructure", "other")
    [] error = "Other" -> Soap("infrastructure")
    [] OTHER -> MapDatabaseError(error)

MapSqlxError(error) ==
  CASE error = "RowNotFound" -> Soap("not_found")
    [] error = "PoolTimedOut" -> Soap("timeout")
    [] error \in {"PoolClosed", "Io"} -> Soap("unavailable")
    [] error \in InvalidMapping \cup {"Tls"} -> WithTransience("infrastructure", "other")
    [] error = "Other" -> Soap("infrastructure")
    [] OTHER -> MapDatabaseError(error)

(* Errors after which the statement has had no effect and can have none.    *)
(* An answer that was lost or could not be understood says neither.        *)
Ambiguous == {"Io", "Protocol", "Other"} \cup ConnectionExceptions
Rejections == SqlxErrors \ (Ambiguous \cup {"Decode"})

=============================================================================
