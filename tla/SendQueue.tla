------------------------------ MODULE SendQueue ------------------------------
(***************************************************************************)
(* One entry of m_data_queues: the buffers io_manager::send queues for one *)
(* peer id, and the chain of write and write_done that empties the queue   *)
(* into the peer's socket.                                                 *)
(*                                                                         *)
(* The entry is made when the peer first connects and never removed.  The  *)
(* chain holds a copy of the peer it was started for, and with it that     *)
(* peer's socket, so that a peer that comes back finds the queue, and the  *)
(* chain, as its earlier connection left them.                             *)
(*                                                                         *)
(* io_service runs one handler at a time, in the order they were posted;   *)
(* `ready` is that queue.  Opening and losing a connection are handlers    *)
(* too, which the reactor may put anywhere between the others.             *)
(***************************************************************************)
EXTENDS Naturals, FiniteSets, SequencesExt

CONSTANTS
    MaxConnections,  \* bound: times the peer connects
    MaxSent          \* bound: commands sent on each connection

ASSUME BoundAssumption == MaxConnections \in Nat \ {0} /\ MaxSent \in Nat

Conn == 1..MaxConnections

VARIABLES
    current,  \* the latest connection, 0 before the first one
    isOpen,   \* whether its socket is open
    sent,     \* sent[c]: commands sent so far to the peer connected by c
    ready,    \* handlers posted and not yet run
    buffers,  \* m_data_queues.at(id)
    writes,   \* the async_writes under way: connection and buffer
    carried   \* carried[c]: what the socket of c has taken, whole

vars == <<current, isOpen, sent, ready, buffers, writes, carried>>

Buffer == [conn : Conn, no : 1..MaxSent]
Push(b) == [run |-> "push", buffer |-> b]
Done(c) == [run |-> "done", conn |-> c]
Handler == [run : {"push"}, buffer : Buffer] \cup [run : {"done"}, conn : Conn]

Init ==
    /\ current = 0 /\ isOpen = FALSE
    /\ sent = [c \in Conn |-> 0]
    /\ ready = <<>> /\ buffers = <<>> /\ writes = <<>>
    /\ carried = [c \in Conn |-> <<>>]

\* process_connected_peer: insert keeps the queue that is there.
Open ==
    /\ ~isOpen /\ current < MaxConnections
    /\ current' = current + 1
    /\ isOpen' = TRUE
    /\ UNCHANGED <<sent, ready, buffers, writes, carried>>

\* BadX is X with a plausible slip, which some property is to catch: see the
\* list of mutants in the README.
\* The write under way is left to itself.
BadLose ==
    /\ isOpen
    /\ isOpen' = FALSE
    /\ UNCHANGED <<current, sent, ready, buffers, writes, carried>>

\* The socket is closed, and the write under way, if any, will end with an
\* error.  The peer is forgotten, unless it was the timeout that closed it.
Lose ==
    /\ isOpen
    /\ isOpen' = FALSE
    /\ ready' = ready \o [i \in DOMAIN writes |-> Done(writes[i].conn)]
    /\ writes' = <<>>
    /\ UNCHANGED <<current, sent, buffers, carried>>

\* send, up to the post: the target is a copy of the peer.  A peer whose socket
\* the timeout closed is still sent to.
Send ==
    /\ current \in Conn /\ sent[current] < MaxSent
    /\ sent' = [sent EXCEPT ![current] = @ + 1]
    /\ ready' = Append(ready, Push([conn |-> current, no |-> sent[current] + 1]))
    /\ UNCHANGED <<current, isOpen, buffers, writes, carried>>

\* The socket is that of the peer now known by the id.
BadWrite(c, queue, rest) ==
    \/ /\ isOpen
       /\ writes' = Append(writes, [conn |-> current, buffer |-> Head(queue)])
       /\ ready' = rest
    \/ /\ ~isOpen
       /\ ready' = Append(rest, Done(c))
       /\ UNCHANGED writes

\* write(target) for the front of queue, target being the peer of connection c.
\* On a closed socket the write ends at once, with an error.
Write(c, queue, rest) ==
    \/ /\ c = current /\ isOpen
       /\ writes' = Append(writes, [conn |-> c, buffer |-> Head(queue)])
       /\ ready' = rest
    \/ /\ ~(c = current /\ isOpen)
       /\ ready' = Append(rest, Done(c))
       /\ UNCHANGED writes

\* Every buffer pushed starts a write.
BadRunPush ==
    /\ ready # <<>> /\ Head(ready).run = "push"
    /\ buffers' = Append(buffers, Head(ready).buffer)
    /\ Write(Head(ready).buffer.conn, buffers', Tail(ready))
    /\ UNCHANGED <<current, isOpen, sent, carried>>

\* The posted lambda of send.
RunPush ==
    /\ ready # <<>> /\ Head(ready).run = "push"
    /\ LET being_lazy == buffers = <<>> IN
       /\ buffers' = Append(buffers, Head(ready).buffer)
       /\ \/ being_lazy /\ Write(Head(ready).buffer.conn, buffers', Tail(ready))
          \/ ~being_lazy /\ ready' = Tail(ready) /\ UNCHANGED writes
    /\ UNCHANGED <<current, isOpen, sent, carried>>

\* The next buffer waits for the next send.
BadRunDone ==
    /\ ready # <<>> /\ Head(ready).run = "done"
    /\ buffers' = Tail(buffers)
    /\ ready' = Tail(ready)
    /\ UNCHANGED <<current, isOpen, sent, writes, carried>>

\* write_done, which does not look at the error.
RunDone ==
    /\ ready # <<>> /\ Head(ready).run = "done"
    /\ buffers' = Tail(buffers)
    /\ \/ buffers' # <<>> /\ Write(Head(ready).conn, buffers', Tail(ready))
       \/ buffers' = <<>> /\ ready' = Tail(ready) /\ UNCHANGED writes
    /\ UNCHANGED <<current, isOpen, sent, carried>>

\* The last buffer of the queue is the one written.
BadDrain ==
    /\ writes # <<>>
    /\ carried' = [carried EXCEPT ![Head(writes).conn] = Append(@, Last(buffers))]
    /\ writes' = Tail(writes)
    /\ ready' = Append(ready, Done(Head(writes).conn))
    /\ UNCHANGED <<current, isOpen, sent, buffers>>

\* The other end reads on and the socket has taken the whole buffer.
Drain ==
    /\ writes # <<>>
    /\ carried' = [carried EXCEPT ![Head(writes).conn] = Append(@, Head(writes).buffer)]
    /\ writes' = Tail(writes)
    /\ ready' = Append(ready, Done(Head(writes).conn))
    /\ UNCHANGED <<current, isOpen, sent, buffers>>

Next == Open \/ Lose \/ Send \/ RunPush \/ RunDone \/ Drain

Spec == Init /\ [][Next]_vars

\* io_service::run runs what is ready; a socket that stays open is read from.
Fairness == WF_vars(RunPush \/ RunDone) /\ WF_vars(Drain)

FairSpec == Spec /\ Fairness

------------------------------------------------------------------------------
(***************************************************************************)
(* Properties.                                                             *)
(***************************************************************************)
\* The shapes of the queue and of io_service's handlers; a write is under way
\* only on the connection that is open.
TypeOK ==
    /\ current \in 0..MaxConnections /\ isOpen \in BOOLEAN
    /\ isOpen => current \in Conn
    /\ sent \in [Conn -> 0..MaxSent]
    /\ ready \in Seq(Handler)
    /\ buffers \in Seq(Buffer)
    /\ writes \in Seq([conn : Conn, buffer : Buffer])
    /\ \A i \in DOMAIN writes : isOpen /\ writes[i].conn = current
    /\ carried \in [Conn -> Seq(Buffer)]

\* Two async_writes on a socket never overlap, which asio requires, and a queue
\* that is not empty never stalls: there is exactly one write under way, or one
\* write_done to come, as long as there are buffers.
Links == Len(writes) + Cardinality({i \in DOMAIN ready : ready[i].run = "done"})
OneChain == Links = (IF buffers = <<>> THEN 0 ELSE 1)

\* A socket carries what was sent to the peer of that connection and nothing
\* left over from an earlier one, in the order it was sent.
OwnInOrder ==
    \A c \in Conn : \A j \in DOMAIN carried[c] :
        /\ carried[c][j].conn = c
        /\ \A i \in 1..(j - 1) : carried[c][i].no < carried[c][j].no

\* What a connection carries of what was sent on it has no gap.
NothingSkipped ==
    \A c \in Conn : \A i \in DOMAIN carried[c] : carried[c][i].no = i

\* The first connection with a peer is a stream, as long as it stays open.
FirstSent == [i \in 1..sent[1] |-> [conn |-> 1, no |-> i]]
FirstConnection == INSTANCE Stream WITH
    Message <- Buffer, sent <- FirstSent, received <- carried[1]
FirstIsStream == FirstConnection!Spec

\* Every buffer leaves the queue, written or not.
QueueEmpties == buffers # <<>> ~> buffers = <<>>
==============================================================================
