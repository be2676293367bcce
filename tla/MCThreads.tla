----------------------------- MODULE MCThreads -----------------------------
(* Listeners for TLC that call all they may. *)
EXTENDS Threads

Upwards == [kind \in Kind |-> {op \in Anywhere : op = Clear \/ Height[kind] < Height[op.of]}]
============================================================================
