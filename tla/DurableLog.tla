------------------------------ MODULE DurableLog ------------------------------
(***************************************************************************)
(* What the persistent RAMFS promises its callers, without sectors, scans  *)
(* or power: an append-only log in which at most one record is in doubt.   *)
(* A record is stored first and acknowledged later; no other record is     *)
(* stored before the one in doubt is acknowledged or found by a recovery.  *)
(***************************************************************************)
EXTENDS Naturals, Sequences

CONSTANT Entry

VARIABLES
  stored,  \* the records a recovery would find
  acked,   \* the records the callers know of
  open     \* appends are accepted

vars == <<stored, acked, open>>

Init ==
  /\ stored \in Seq(Entry)
  /\ acked = stored
  /\ open = FALSE

Store(entry) ==
  /\ open
  /\ stored = acked
  /\ stored' = Append(stored, entry)
  /\ UNCHANGED <<acked, open>>

Acknowledge ==
  /\ open
  /\ acked # stored
  /\ acked' = stored
  /\ UNCHANGED <<stored, open>>

(* Whatever the last run left in doubt is adopted. *)
Recover ==
  /\ ~open
  /\ acked' = stored
  /\ open' \in BOOLEAN
  /\ UNCHANGED stored

Shut ==
  /\ open
  /\ open' = FALSE
  /\ UNCHANGED <<stored, acked>>

Next == (\E entry \in Entry : Store(entry)) \/ Acknowledge \/ Recover \/ Shut

Spec == Init /\ [][Next]_vars

==============================================================================
