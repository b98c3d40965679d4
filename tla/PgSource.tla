------------------------------ MODULE PgSource ------------------------------
(***************************************************************************)
(* What the PgSource trait (source.rs) leaves a repository to rely on: a    *)
(* statement takes effect at most once, Ok says that it did, an error that *)
(* rejects it says that it did not and will not, and any other outcome     *)
(* leaves it open, also for later.                                         *)
(***************************************************************************)
EXTENDS Naturals

CONSTANT Calls   \* statements handed to the source, one each

VARIABLES
  called,   \* the calls that have been made
  times,    \* how often each statement has taken effect
  told      \* what each caller knows of it

vars == <<called, times, told>>

Init ==
  /\ called = {}
  /\ times = [c \in Calls |-> 0]
  /\ told = [c \in Calls |-> "nothing"]

Call(c) ==
  /\ c \notin called
  /\ called' = called \cup {c}
  /\ UNCHANGED <<times, told>>

TakeEffect(c) ==
  /\ c \in called /\ times[c] = 0
  /\ told[c] \in {"nothing", "unknown"}
  /\ times' = [times EXCEPT ![c] = 1]
  /\ UNCHANGED <<called, told>>

Tell(c, outcome) ==
  /\ c \in called /\ told[c] = "nothing"
  /\ outcome = "ok" => times[c] = 1
  /\ outcome = "rejected" => times[c] = 0
  /\ told' = [told EXCEPT ![c] = outcome]
  /\ UNCHANGED <<called, times>>

Next ==
  \E c \in Calls :
    Call(c) \/ TakeEffect(c) \/ \E o \in {"ok", "rejected", "unknown"} : Tell(c, o)

Spec == Init /\ [][Next]_vars

-----------------------------------------------------------------------------
(* No statement takes effect twice, and no caller is told anything untrue.  *)
Truthful ==
  \A c \in Calls :
    /\ times[c] \in {0, 1}
    /\ told[c] = "ok" => times[c] = 1
    /\ told[c] = "rejected" => times[c] = 0

SourceInv ==
  /\ times \in [Calls -> Nat]
  /\ told \in [Calls -> {"nothing", "ok", "rejected", "unknown"}]
  /\ Truthful

=============================================================================
