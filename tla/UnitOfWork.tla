----------------------------- MODULE UnitOfWork -----------------------------
(***************************************************************************)
(* What a shared transaction source promises the repositories that use it: *)
(* writes are staged together, a write may be acknowledged once it is      *)
(* staged, and the whole unit is then either made durable or discarded, in *)
(* one step and at most once.                                              *)
(***************************************************************************)

CONSTANT Writes   \* the write statements callers may issue

VARIABLES
  phase,    \* "open", "committed" or "rolledback"
  staged,   \* the writes performed inside the unit
  acked,    \* the writes a caller has been told succeeded
  stored    \* the writes of the unit that are durable

vars == <<phase, staged, acked, stored>>

TypeOK ==
  /\ phase \in {"open", "committed", "rolledback"}
  /\ staged \subseteq Writes
  /\ acked \subseteq Writes
  /\ stored \subseteq Writes

Init ==
  /\ phase = "open"
  /\ staged = {}
  /\ acked = {}
  /\ stored = {}

Stage(w) ==
  /\ phase = "open"
  /\ staged' = staged \cup {w}
  /\ UNCHANGED <<phase, acked, stored>>

Acknowledge(w) ==
  /\ phase # "committed"   \* a late answer may still be read after a discard
  /\ w \in staged
  /\ acked' = acked \cup {w}
  /\ UNCHANGED <<phase, staged, stored>>

Commit ==
  /\ phase = "open"
  /\ phase' = "committed"
  /\ stored' = staged
  /\ UNCHANGED <<staged, acked>>

Discard ==
  /\ phase = "open"
  /\ phase' = "rolledback"
  /\ UNCHANGED <<staged, acked, stored>>

Next ==
  \/ \E w \in Writes : Stage(w) \/ Acknowledge(w)
  \/ Commit
  \/ Discard

Spec == Init /\ [][Next]_vars

-----------------------------------------------------------------------------
(***************************************************************************)
(* Durable state is all of the unit or none of it, and a committed unit    *)
(* holds every write a caller was told had succeeded.                      *)
(***************************************************************************)
AllOrNothing ==
  /\ stored = IF phase = "committed" THEN staged ELSE {}
  /\ phase = "committed" => acked \subseteq stored

(* Acknowledged writes are staged writes: what Commit makes durable. *)
UnitInv ==
  /\ AllOrNothing
  /\ acked \subseteq staged

=============================================================================
