-------------------- MODULE PgPrimaryReplicaSource_proofs --------------------
(***************************************************************************)
(* Theorems of PgPrimaryReplicaSource, for any number of replicas and any  *)
(* width of the counter.                                                   *)
(***************************************************************************)
EXTENDS PgPrimaryReplicaSource, TLAPS

LEMMA ModRange == ASSUME NEW k \in Nat, NEW n \in Nat \ {0}
                  PROVE  k % n \in 0 .. n - 1
  OBVIOUS

LEMMA ModSmall == ASSUME NEW n \in Nat \ {0}, NEW k \in 0 .. n - 1
                  PROVE  k % n = k
  OBVIOUS

LEMMA ModSelf == ASSUME NEW n \in Nat \ {0} PROVE n % n = 0
  OBVIOUS

LEMMA ModUnique == ASSUME NEW n \in Nat \ {0}, NEW q \in Int, NEW r \in 0 .. n - 1
                   PROVE  (n * q + r) % n = r
  OBVIOUS

(* One more turn moves the rotation to the next index, or back to 0. *)
LEMMA ModStep == ASSUME NEW k \in Nat, NEW n \in Nat \ {0}
                 PROVE  (k + 1) % n = IF (k % n) + 1 = n THEN 0 ELSE (k % n) + 1
<1> DEFINE q == k \div n
           r == k % n
<1>1. q \in Int /\ r \in 0 .. n - 1 /\ k = n * q + r
  OBVIOUS
<1>2. CASE r + 1 = n
  <2>1. k + 1 = n * (q + 1) + 0
    BY <1>1, <1>2
  <2>2. (n * (q + 1) + 0) % n = 0
    BY <1>1, ModUnique
  <2> QED
    BY <1>2, <2>1, <2>2
<1>3. CASE r + 1 # n
  <2>1. k + 1 = n * q + (r + 1)
    BY <1>1
  <2>2. r + 1 \in 0 .. n - 1
    BY <1>1, <1>3
  <2> HIDE DEF q, r
  <2>3. (n * q + (r + 1)) % n = r + 1
    BY <1>1, <2>2, ModUnique
  <2> USE DEF r
  <2> QED
    BY <1>3, <2>1, <2>3
<1> QED
  BY <1>2, <1>3
-----------------------------------------------------------------------------
(* The latest read took the turn before the counter's, unless it wrapped.   *)
LastTurn ==
  replicas > 0 /\ next_replica # 0 => (last + 1) % replicas = Index /\ last \in Nat

RInv == TypeOK /\ ExactShares /\ LastTurn

LEMMA InitRInv == Init => RInv
<1> SUFFICES ASSUME Init PROVE RInv
  OBVIOUS
<1>1. TypeOK
  BY BoundsAssumption, ModulusAssumption
     DEF Init, TypeOK, Nobody, Primary, NoReplica
<1>2. ExactShares
  <2> SUFFICES ASSUME NEW i \in 0 .. replicas - 1, NEW j \in 0 .. replicas - 1, i <= j
               PROVE  picked[i] - picked[j] =
                        (IF Between(i, Modulus % replicas, j) THEN laps ELSE 0)
                        + (IF Between(i, Index, j) THEN 1 ELSE 0)
    BY DEF ExactShares
  <2>1. replicas \in Nat \ {0} /\ Index = 0
    BY <1>1, ModSmall DEF Init, TypeOK, Index
  <2> QED
    BY <2>1 DEF Init, Between
<1>3. LastTurn
  BY DEF Init, LastTurn
<1> QED
  BY <1>1, <1>2, <1>3 DEF RInv

(* What one read does to the counter, the laps and the index. *)
LEMMA ReadTurn ==
  ASSUME TypeOK, ReadReplica
  PROVE  /\ replicas \in Nat \ {0}
         /\ Index \in 0 .. replicas - 1
         /\ next_replica' \in 0 .. Modulus - 1
         /\ LET turned == IF Index + 1 = replicas THEN 0 ELSE Index + 1
            IN  IF Wraps THEN /\ next_replica' = 0
                              /\ laps' = laps + 1
                              /\ Index' = 0
                              /\ Modulus % replicas = turned
                         ELSE /\ next_replica' = next_replica + 1
                              /\ laps' = laps
                              /\ Index' = turned
<1>1. replicas \in Nat \ {0} /\ replicas' = replicas
  BY DEF TypeOK, ReadReplica
<1>2. next_replica \in Nat /\ next_replica < Modulus /\ Modulus \in Nat \ {0}
  BY ModulusAssumption DEF TypeOK
<1>3. Index \in 0 .. replicas - 1
  BY <1>1, <1>2, ModRange DEF Index
<1>4. (next_replica + 1) % replicas = IF Index + 1 = replicas THEN 0 ELSE Index + 1
  BY <1>1, <1>2, ModStep DEF Index
<1>5. CASE Wraps
  <2>1. next_replica' = 0
    BY <1>2, <1>5, ModSelf DEF Wraps, ReadReplica, FetchAdd
  <2>2. Index' = 0
    BY <1>1, <2>1, ModSmall DEF Index
  <2>3. laps' = laps + 1
    BY <1>5 DEF ReadReplica
  <2> QED
    BY <1>1, <1>2, <1>3, <1>4, <1>5, <2>1, <2>2, <2>3 DEF Wraps
<1>6. CASE ~Wraps
  <2>1. next_replica + 1 \in 0 .. Modulus - 1
    BY <1>2, <1>6 DEF Wraps
  <2>2. next_replica' = next_replica + 1
    BY <1>2, <2>1, ModSmall DEF ReadReplica, FetchAdd
  <2>3. Index' = (next_replica + 1) % replicas
    BY <1>1, <2>2 DEF Index
  <2>4. laps' = laps
    BY <1>6 DEF ReadReplica
  <2> QED
    BY <1>1, <1>3, <1>4, <1>6, <2>1, <2>2, <2>3, <2>4
<1> QED
  BY <1>5, <1>6

LEMMA StepRInv == RInv /\ [Next]_vars => RInv'
<1> SUFFICES ASSUME RInv, [Next]_vars PROVE RInv'
  OBVIOUS
<1>1. CASE ReadReplica
  <2>1. TypeOK
    BY DEF RInv
  <2>2. /\ replicas \in Nat \ {0} /\ replicas' = replicas
        /\ Index \in 0 .. replicas - 1
    BY <1>1, <2>1, ReadTurn DEF ReadReplica
  <2>3. /\ served' = Index /\ last' = Index
        /\ picked' = [picked EXCEPT ![Index] = @ + 1]
    BY <1>1 DEF ReadReplica
  <2>4. TypeOK'
    <3>1. laps' \in Nat /\ next_replica' \in 0 .. Modulus - 1
      BY <1>1, <2>1, ReadTurn DEF TypeOK
    <3>2. picked' \in [0 .. replicas' - 1 -> Nat]
      BY <2>1, <2>2, <2>3 DEF TypeOK
    <3> QED
      BY <2>2, <2>3, <3>1, <3>2 DEF TypeOK
  <2>5. ExactShares'
    <3> SUFFICES ASSUME NEW i \in 0 .. replicas - 1, NEW j \in 0 .. replicas - 1, i <= j
                 PROVE  picked'[i] - picked'[j] =
                          (IF Between(i, Modulus % replicas, j) THEN laps' ELSE 0)
                          + (IF Between(i, Index', j) THEN 1 ELSE 0)
      BY <2>2 DEF ExactShares, Between
    <3> DEFINE turned == IF Index + 1 = replicas THEN 0 ELSE Index + 1
    <3>1. picked[i] - picked[j] =
            (IF Between(i, Modulus % replicas, j) THEN laps ELSE 0)
            + (IF Between(i, Index, j) THEN 1 ELSE 0)
      BY DEF RInv, ExactShares
    <3>2. /\ picked[i] \in Nat /\ picked[j] \in Nat /\ laps \in Nat
          /\ picked'[i] = picked[i] + (IF i = Index THEN 1 ELSE 0)
          /\ picked'[j] = picked[j] + (IF j = Index THEN 1 ELSE 0)
      BY <2>1, <2>2, <2>3 DEF TypeOK
    <3> HIDE DEF Index
    <3>3. picked'[i] - picked'[j] =
            (IF Between(i, Modulus % replicas, j) THEN laps ELSE 0)
            + (IF Between(i, turned, j) THEN 1 ELSE 0)
      BY <2>2, <3>1, <3>2 DEF Between
    <3>4. CASE Wraps
      <4>1. laps' = laps + 1 /\ Index' = 0 /\ Modulus % replicas = turned
        BY <1>1, <2>1, <3>4, ReadTurn
      <4> HIDE DEF turned
      <4> QED
        BY <3>2, <3>3, <4>1 DEF Between
    <3>5. CASE ~Wraps
      <4>1. laps' = laps /\ Index' = turned
        BY <1>1, <2>1, <3>5, ReadTurn
      <4> HIDE DEF turned
      <4> QED
        BY <3>3, <4>1
    <3> QED
      BY <3>4, <3>5
  <2>6. LastTurn'
    <3> SUFFICES ASSUME next_replica' # 0
                 PROVE  (Index + 1) % replicas = Index'
      BY <2>2, <2>3 DEF LastTurn
    <3>1. Index' = IF Index + 1 = replicas THEN 0 ELSE Index + 1
      BY <1>1, <2>1, ReadTurn
    <3>2. CASE Index + 1 = replicas
      BY <2>2, <3>1, <3>2, ModSelf
    <3>3. CASE Index + 1 # replicas
      <4>1. Index + 1 \in 0 .. replicas - 1
        BY <2>2, <3>3
      <4> QED
        BY <2>2, <3>1, <3>3, <4>1, ModSmall
    <3> QED
      BY <3>2, <3>3
  <2> QED
    BY <2>4, <2>5, <2>6 DEF RInv
<1>2. CASE ReadPrimary \/ Apply
  <2>1. /\ served' = Primary
        /\ UNCHANGED <<replicas, next_replica, last, picked, laps>>
    BY <1>2 DEF ReadPrimary, Apply
  <2>2. TypeOK'
    BY <2>1 DEF RInv, TypeOK
  <2>3. ExactShares' /\ LastTurn'
    BY <2>1 DEF RInv, ExactShares, LastTurn, Index, Between
  <2> QED
    BY <2>2, <2>3 DEF RInv
<1>3. CASE UNCHANGED vars
  BY <1>3 DEF vars, RInv, TypeOK, ExactShares, LastTurn, Index, Between
<1> QED
  BY <1>1, <1>2, <1>3 DEF Next

(* The exact shares of the replicas hold for ever. *)
THEOREM RouterInvariant == Spec => []RInv
  BY InitRInv, StepRInv, PTL DEF Spec

(* The counter stays below its modulus and every index within the list. *)
THEOREM RouterTypeCorrect == Spec => []TypeOK
<1>1. RInv => TypeOK
  BY DEF RInv
<1> QED
  BY <1>1, RouterInvariant, PTL

(* How reads are shared out, for every list of replicas and counter width. *)
THEOREM SharesAreExact == Spec => []ExactShares
<1>1. RInv => ExactShares
  BY DEF RInv
<1> QED
  BY <1>1, RouterInvariant, PTL

(* Reads stay balanced over the replicas within one read for each wrap. *)
THEOREM ReadsAreBalanced == Spec => []Balanced
<1>1. RInv => Balanced
  <2> SUFFICES ASSUME RInv, NEW i \in 0 .. replicas - 1, NEW j \in 0 .. replicas - 1
               PROVE  picked[i] - picked[j] <= laps + 1
    BY DEF Balanced
  <2>1. picked[i] \in Nat /\ picked[j] \in Nat /\ laps \in Nat
    BY DEF RInv, TypeOK
  <2>2. CASE i <= j
    BY <2>1, <2>2 DEF RInv, ExactShares
  <2>3. CASE j <= i
    BY <2>1, <2>3 DEF RInv, ExactShares
  <2>4. replicas \in Nat
    BY DEF RInv, TypeOK
  <2> QED
    BY <2>2, <2>3, <2>4
<1> QED
  BY <1>1, RouterInvariant, PTL

(* Consecutive reads take consecutive replicas, whatever writes interleave. *)
THEOREM ReadsRotate == Spec => Rotation
<1>1. RInv /\ [Next]_vars =>
        [picked' # picked =>
           last = NoReplica \/ next_replica = 0 \/ last' = (last + 1) % replicas]_vars
  <2> SUFFICES ASSUME RInv, Next, picked' # picked, next_replica # 0
               PROVE  last' = (last + 1) % replicas
    OBVIOUS
  <2>1. ReadReplica
    BY DEF Next, ReadPrimary, Apply
  <2> QED
    BY <2>1 DEF RInv, LastTurn, ReadReplica
<1> QED
  BY <1>1, RouterInvariant, PTL DEF Spec, Rotation

=============================================================================
