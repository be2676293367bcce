------------------------------ MODULE MCFraming ------------------------------
(* Framing for TLC: packets of one byte up to a sub-packet more than two. *)
EXTENDS Framing

Counted(n) == [i \in 1..n |-> (n + i) % (SubMax + 1)]
Packets_ == {[cmd |-> 1, data |-> Counted(n)] : n \in 1..(2 * SubMax + 1)}
==============================================================================
