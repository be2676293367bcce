------------------------------ MODULE MCClimb ------------------------------
(***************************************************************************)
(* Behaviours of PeerManager that follow a script.  Of seven instances,    *)
(* 2, 4, 5 and 6 cannot open a connection to 7, which can to them.  7      *)
(* joins through 1, and its retrieve_peers is read after the others have   *)
(* joined and asked for ways to it.  By the time their forward_to are      *)
(* handled, 7 has connected to all of them.                                *)
(*                                                                         *)
(* Every step is one of Next.  Scripted is who connects to whom, and which *)
(* command is read next; all else is done as soon as it can be.            *)
(***************************************************************************)
EXTENDS PeerManager

VARIABLE at     \* how much of the script is done

Peers == 1..7
NotToSeven == {<<x, y>> \in Peers \X Peers : x # y /\ ~(x \in {2, 4, 5, 6} /\ y = 7)}

\* <<n, p>>: n connects to p if it is off, and reads a command of p if it
\* runs.  <<1, 1>>: 1 starts alone.
Script == <<
        <<2, 1>>, <<3, 1>>, <<7, 1>>, <<1, 1>>, <<1, 2>>, <<4, 1>>, <<1, 3>>, <<5, 3>>, <<2, 1>>, <<3, 1>>,
        <<1, 4>>, <<6, 1>>, <<4, 1>>, <<3, 2>>, <<1, 6>>, <<2, 3>>, <<6, 1>>, <<3, 5>>, <<4, 2>>, <<5, 3>>,
        <<1, 5>>, <<1, 7>>, <<3, 2>>, <<6, 4>>, <<5, 6>>, <<7, 1>>, <<4, 6>>, <<2, 3>>, <<6, 4>>, <<2, 4>>,
        <<2, 4>>, <<4, 2>>, <<4, 2>>, <<4, 6>>, <<6, 5>>, <<6, 4>>, <<6, 5>>, <<5, 6>>, <<6, 5>>, <<5, 6>>,
        <<5, 1>>, <<6, 5>>, <<5, 6>>, <<6, 5>>, <<5, 6>>, <<6, 5>>, <<5, 6>>, <<6, 5>>, <<5, 6>>, <<6, 5>>
    >>

\* What an instance does between two commands.
Busy(n) ==
    \/ JoinSucceeds(n)
    \/ ScanConnects(n)
    \/ ScanFails(n)
    \/ ScanEnds(n)
    \/ \E p \in Peer : ScanDial(n, p) \/ Accept(n, p)

Scripted(n, p) ==
    \/ n = p /\ Awake(n)
    \/ Connect(n, p)
    \/ Receive(n, p)

ClimbInit == Init /\ at = 0

ClimbNext ==
    \/ \E n \in Peer : Busy(n) /\ UNCHANGED at
    \/ /\ ~ \E n \in Peer : ENABLED Busy(n)
       /\ at < Len(Script) /\ at' = at + 1
       /\ Scripted(Script[at'][1], Script[at'][2])

ClimbSpec == ClimbInit /\ [][ClimbNext]_<<vars, at>>
=============================================================================
