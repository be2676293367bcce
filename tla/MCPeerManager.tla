--------------------------- MODULE MCPeerManager ---------------------------
(* Instances of PeerManager for TLC. *)
EXTENDS PeerManager

CONSTANTS a, b, c

AllPairs == {<<x, y>> \in Peer \X Peer : x # y}
\* c can be reached by a, a cannot be reached by c.
OneWay == AllPairs \ {<<c, a>>}
\* a and c cannot open a connection to each other.
Apart == AllPairs \ {<<c, a>>, <<a, c>>}

\* a's connection predicate refuses b.
Refusal == {<<a, b>>}

(* Joins one after the other: an instance joins only when nothing is under *)
(* way, through an instance that runs, only the first one starts alone, and *)
(* one instance at most leaves or is killed. *)
Quiet ==
    /\ \A n \in Peer : phase[n] \notin {"joining", "scanning"}
    /\ \A x, y \in Peer : chan[x][y] = <<>>

OneAtATime ==
    /\ (\E n \in Peer : phase[n] = "off" /\ phase'[n] = "running") =>
            \A n \in Peer : phase[n] \in {"off", "crashed"}
    /\ \A n \in Peer : phase[n] = "off" /\ phase'[n] = "joining" =>
            Quiet /\ phase[dial'[n]] = "running"
    /\ spent'.leaves + spent'.crashes <= 1

SerialSpec == Init /\ [][Next /\ OneAtATime]_vars /\ Fairness

Up(n) == phase[n] \in {"running", "scanning"}

(* As long as nobody leaves or dies, any two instances that have joined end *)
(* up directly connected. *)
Converges ==
    \A x, y \in Peer : x # y =>
        (Up(x) /\ Up(y) ~> \/ x \in Direct(y) /\ y \in Direct(x)
                           \/ \E z \in Peer : phase[z] = "crashed"
                           \/ spent.leaves > 0)

(* A peer that left or died is eventually known to nobody. *)
DepartedIsForgotten ==
    \A x, y \in Peer : y \in Known(x) /\ ~Up(y) ~> y \notin Known(x) \/ Up(y)
=============================================================================
