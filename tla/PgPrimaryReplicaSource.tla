----------------------- MODULE PgPrimaryReplicaSource -----------------------
(***************************************************************************)
(* PgPrimaryReplicaSource (router.rs): reads rotate over the replicas by an *)
(* atomic counter that wraps, writes go to the primary.                    *)
(*                                                                         *)
(* A source is chosen in one atomic step when the call is made, before its *)
(* future is first polled, so concurrent callers are a sequence of choices *)
(* and an abandoned future has still used its turn.                        *)
(***************************************************************************)
EXTENDS Integers

CONSTANTS
  Modulus,       \* a usize counts modulo this: 2^64 or 2^32
  MaxReplicas,   \* bound: the replica lists considered
  MaxLaps        \* bound: how often the counter may wrap

ASSUME ModulusAssumption == Modulus \in Nat \ {0}
ASSUME BoundsAssumption == MaxReplicas \in Nat /\ MaxLaps \in Nat

VARIABLES
  replicas,      \* how many replicas the router was built with
  next_replica,  \* the counter
  served,        \* who took the latest call: an index, -1 the primary, -2 nobody yet
  last,          \* the replica chosen by the latest read, if any
  picked,        \* reads each replica has been chosen for
  laps           \* how often the counter has wrapped

vars == <<replicas, next_replica, served, last, picked, laps>>

Nobody == -2
Primary == -1
NoReplica == -1

(* Router state is built once; the replica list never changes. *)
Init ==
  /\ replicas \in 0 .. MaxReplicas
  /\ next_replica = 0
  /\ served = Nobody /\ last = NoReplica
  /\ picked = [i \in 0 .. replicas - 1 |-> 0]
  /\ laps = 0

(* Mutant: the counter does not wrap. *)
FetchAddUnbounded == next_replica' = next_replica + 1

(* fetch_add(1, Relaxed) returns the old value and wraps. *)
FetchAdd == next_replica' = (next_replica + 1) % Modulus

Wraps == next_replica + 1 = Modulus

Index == next_replica % replicas

(* Mutant: the counter is loaded and stored, and a concurrent read's update lost. *)
ReadReplicaLosesUpdate ==
  /\ replicas > 0
  /\ Wraps => laps < MaxLaps
  /\ next_replica' \in {next_replica, (next_replica + 1) % Modulus}
  /\ laps' = IF Wraps THEN laps + 1 ELSE laps
  /\ served' = Index /\ last' = Index
  /\ picked' = [picked EXCEPT ![Index] = @ + 1]
  /\ UNCHANGED replicas

(* Mutant: the index is kept inside the list by a clamp instead of a modulus. *)
ReadReplicaClamps ==
  /\ replicas > 0
  /\ Wraps => laps < MaxLaps
  /\ FetchAdd
  /\ laps' = IF Wraps THEN laps + 1 ELSE laps
  /\ LET i == IF next_replica < replicas THEN next_replica ELSE replicas - 1
     IN  /\ served' = i /\ last' = i
         /\ picked' = [picked EXCEPT ![i] = @ + 1]
  /\ UNCHANGED replicas

(* fetch_all, fetch_optional, fetch_one with a replica to read from. *)
ReadReplica ==
  /\ replicas > 0
  /\ Wraps => laps < MaxLaps
  /\ FetchAdd
  /\ laps' = IF Wraps THEN laps + 1 ELSE laps
  /\ served' = Index /\ last' = Index
  /\ picked' = [picked EXCEPT ![Index] = @ + 1]
  /\ UNCHANGED replicas

(* Without replicas read_source returns the primary and leaves the counter. *)
ReadPrimary ==
  /\ replicas = 0
  /\ served' = Primary
  /\ UNCHANGED <<replicas, next_replica, last, picked, laps>>

(* Mutant: apply asks read_source, and advances the counter. *)
ApplyTakesTurn ==
  /\ Wraps => laps < MaxLaps
  /\ FetchAdd
  /\ laps' = IF Wraps THEN laps + 1 ELSE laps
  /\ served' = Primary
  /\ UNCHANGED <<replicas, last, picked>>

(* apply, apply_one. *)
Apply ==
  /\ served' = Primary
  /\ UNCHANGED <<replicas, next_replica, last, picked, laps>>

Next == ReadReplica \/ ReadPrimary \/ Apply

Spec == Init /\ [][Next]_vars

-----------------------------------------------------------------------------
(* Type correctness of the router. *)
TypeOK ==
  /\ replicas \in Nat
  /\ next_replica \in 0 .. Modulus - 1
  /\ served \in Nat \cup {Primary, Nobody}
  /\ last \in Nat \cup {NoReplica}
  /\ picked \in [0 .. replicas - 1 -> Nat]
  /\ laps \in Nat

(* The rotation stopped between i and j: i has had its turn and j has not. *)
Between(i, cut, j) == i < cut /\ cut <= j

(* How reads are shared out, exactly: every lap of the counter, and the     *)
(* current one, puts a replica one read ahead of a later one if it stopped *)
(* between the two.  No concurrent caller's turn is lost or taken twice.   *)
ExactShares ==
  \A i, j \in 0 .. replicas - 1 : i <= j =>
    picked[i] - picked[j] =
      (IF Between(i, Modulus % replicas, j) THEN laps ELSE 0)
      + (IF Between(i, Index, j) THEN 1 ELSE 0)

(* No replica is ever more than one read ahead of another, plus one for     *)
(* each time the counter has wrapped.                                      *)
Balanced ==
  \A i, j \in 0 .. replicas - 1 : picked[i] - picked[j] <= laps + 1

(* Reads rotate: whatever writes come between, a read takes the replica     *)
(* after the previous read's, except at the turn of the counter, which may *)
(* choose one replica twice running.                                       *)
Rotation ==
  [][picked' # picked =>
       last = NoReplica \/ next_replica = 0 \/ last' = (last + 1) % replicas]_vars

=============================================================================
