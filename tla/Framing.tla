------------------------------- MODULE Framing -------------------------------
(***************************************************************************)
(* One direction of a connection: io_manager::send cuts a packet into sub- *)
(* packets, and io_manager::process_read at the other end puts it together *)
(* again from whatever pieces of the byte stream each read returns.        *)
(*                                                                         *)
(* process_read is split at the turns of its do-while loop (Parse...) and  *)
(* at its calls of itself (Enter), between which only the sender moves, so *)
(* that one step handles one sub-packet.  255 is SubMax here and a byte is *)
(* a number in 0..SubMax.                                                  *)
(***************************************************************************)
EXTENDS Naturals, SequencesExt

CONSTANTS
    SubMax,        \* numeric_limits<uint8_t>::max()
    BufferLength,  \* BUFFER_LENGTH, the size of fixed_buffer
    Packet,        \* the packets that are sent
    MaxSent        \* bound: packets sent

Byte == 0..SubMax

\* Commands are numbered from 1 here, to leave 0 for the one that is never sent.
NullCommand == 0

ASSUME SizeAssumption == SubMax \in Nat \ {0} /\ BufferLength \in Nat
\* The static_assert of the constructor.
ASSUME BufferAssumption == BufferLength > SubMax
\* Every caller of send passes some data, unused_param being one byte.
ASSUME PacketAssumption == Packet \subseteq [cmd : Byte \ {NullCommand}, data : Seq(Byte) \ {<<>>}]
ASSUME BoundAssumption == MaxSent \in Nat

VARIABLES
    sent,         \* the packets given to send so far
    wire,         \* bytes sent and not yet read
    step,         \* where process_read is: waiting for the socket, entered, in its loop
    buffer,       \* fixed_buffer
    dynamic,      \* dynamic_buffer
    lastRead,     \* last_read
    lastCommand,  \* last_command
    read,         \* the local variable read, 0 outside process_read
    index,        \* the local variable current_index, 0 outside process_read
    received      \* the packets data_received was called with

locals == <<read, index>>
kept   == <<buffer, dynamic, lastRead, lastCommand>>
vars   == <<sent, wire, step, kept, locals, received>>

Cell == 0..(BufferLength - 1)

Init ==
    /\ sent = <<>> /\ wire = <<>> /\ received = <<>>
    /\ step = "waiting"
    /\ buffer = [i \in Cell |-> 0]
    /\ dynamic = <<>>
    /\ lastRead = 0 /\ lastCommand = NullCommand
    /\ read = 0 /\ index = 0

------------------------------------------------------------------------------
(***************************************************************************)
(* Sending: a sub-packet is a length and that many bytes; the length is 0  *)
(* for a sub-packet of SubMax bytes that is not the last one.              *)
(***************************************************************************)
\* BadX is X with a plausible slip, which some property is to catch: see the
\* list of mutants in the README.
\* A last sub-packet that is full gets the length 0 too.
BadFullSubs(data) == Len(data) \div SubMax

\* Sub-packets before the last one.
FullSubs(data) == (Len(data) - 1) \div SubMax

\* The first n bytes of data cut into sub-packets, the first `full` of which are
\* followed by another.
Cut(data, full, n) ==
    [j \in 1..n |->
        LET sub == (j - 1) \div (SubMax + 1)
            at  == (j - 1) % (SubMax + 1)
        IN  CASE at > 0 -> data[sub * SubMax + at]
              [] at = 0 /\ sub < full -> 0
              [] OTHER -> Len(data) - sub * SubMax]

Encode(p) == <<p.cmd>> \o Cut(p.data, FullSubs(p.data), Len(p.data) + FullSubs(p.data) + 1)

Send(p) ==
    /\ Len(sent) < MaxSent
    /\ sent' = Append(sent, p)
    /\ wire' = wire \o Encode(p)
    /\ UNCHANGED <<step, kept, locals, received>>

------------------------------------------------------------------------------
(***************************************************************************)
(* Receiving.                                                              *)
(***************************************************************************)
\* The room is taken to be the whole buffer, wherever the read begins.
BadArrive(k) ==
    /\ step = "waiting"
    /\ k \in 1..BufferLength /\ k <= Len(wire)
    /\ buffer' = [i \in Cell |-> IF lastRead <= i /\ i < lastRead + k
                                 THEN wire[i - lastRead + 1] ELSE buffer[i]]
    /\ wire' = SubSeq(wire, k + 1, Len(wire))
    /\ read' = lastRead + k
    /\ step' = "entered"
    /\ UNCHANGED <<sent, dynamic, lastRead, lastCommand, index, received>>

\* async_read_some completes with k bytes.  Where no room is left it completes
\* at once, with none.
Arrive(k) ==
    /\ step = "waiting"
    /\ LET room == BufferLength - lastRead IN
       \/ k \in 1..room /\ k <= Len(wire)
       \/ k = 0 /\ room = 0
    /\ buffer' = [i \in Cell |-> IF lastRead <= i /\ i < lastRead + k
                                 THEN wire[i - lastRead + 1] ELSE buffer[i]]
    /\ wire' = SubSeq(wire, k + 1, Len(wire))
    /\ read' = lastRead + k
    /\ step' = "entered"
    /\ UNCHANGED <<sent, dynamic, lastRead, lastCommand, index, received>>

Wait ==
    /\ step' = "waiting"
    /\ read' = 0 /\ index' = 0

\* The head of process_read.  lastRead is 0 if the command is all there is.
Enter ==
    /\ step = "entered"
    /\ \/ /\ lastCommand # NullCommand
          /\ step' = "parsing"
          /\ UNCHANGED <<lastCommand, locals>>
       \/ /\ lastCommand = NullCommand /\ read > 1
          /\ lastCommand' = buffer[0]
          /\ index' = 1
          /\ step' = "parsing"
          /\ UNCHANGED read
       \/ /\ lastCommand = NullCommand /\ read = 1
          /\ lastCommand' = buffer[0]
          /\ Wait
    /\ UNCHANGED <<sent, wire, buffer, dynamic, lastRead, received>>

\* fixed_buff[current_index]: past what was read an old byte, past the end of
\* the array any byte.
Peek == IF index \in Cell THEN {buffer[index]} ELSE Byte

Want(length) == IF length = 0 THEN SubMax ELSE length
Within(length) == Want(length) + index + 1 <= read
Taken(length) == [i \in 1..Want(length) |-> buffer[index + i]]

\* The bytes buffer[from..read-1] move to the front.
MovedDown(from) ==
    [i \in Cell |-> IF i < read - from THEN buffer[from + i] ELSE buffer[i]]

\* A sub-packet that is not the last one.
ParseSub ==
    /\ step = "parsing" /\ 0 \in Peek /\ Within(0)
    /\ dynamic' = dynamic \o Taken(0)
    /\ lastRead' = 0
    /\ index' = index + 1 + SubMax
    /\ UNCHANGED <<sent, wire, step, buffer, lastCommand, read, received>>

\* The rest of the buffer is dropped with the packet.
BadParseLast ==
    /\ step = "parsing"
    /\ \E length \in Peek \ {0} :
       /\ Within(length)
       /\ received' = Append(received, [cmd |-> lastCommand, data |-> dynamic \o Taken(length)])
    /\ dynamic' = <<>>
    /\ lastCommand' = NullCommand
    /\ lastRead' = 0
    /\ Wait
    /\ UNCHANGED <<sent, wire, buffer>>

\* The last sub-packet: packet_processed.
ParseLast ==
    /\ step = "parsing"
    /\ \E length \in Peek \ {0} :
       /\ Within(length)
       /\ received' = Append(received, [cmd |-> lastCommand, data |-> dynamic \o Taken(length)])
       /\ LET next == index + 1 + length IN
          \/ /\ next < read
             /\ buffer' = MovedDown(next)
             /\ read' = read - next
             /\ index' = 0
             /\ step' = "entered"
          \/ /\ next >= read
             /\ Wait
             /\ UNCHANGED buffer
    /\ dynamic' = <<>>
    /\ lastCommand' = NullCommand
    /\ lastRead' = 0
    /\ UNCHANGED <<sent, wire>>

\* A sub-packet that is not all there: process_partial_read.  The count of the
\* bytes that are moved is a byte.
ParsePartial ==
    /\ step = "parsing" /\ \E length \in Peek : ~Within(length)
    /\ \/ /\ index = 1
          /\ lastCommand' = NullCommand
          /\ lastRead' = read
          /\ UNCHANGED buffer
       \/ /\ index # 1
          /\ lastRead' = (read - index) % (SubMax + 1)
          /\ buffer' = MovedDown(index)
          /\ UNCHANGED lastCommand
    /\ Wait
    /\ UNCHANGED <<sent, wire, dynamic, received>>

ProcessRead == Enter \/ ParseSub \/ ParseLast \/ ParsePartial

Next ==
    \/ \E p \in Packet : Send(p)
    \/ \E k \in 0..BufferLength : Arrive(k)
    \/ ProcessRead

Spec == Init /\ [][Next]_vars

\* The network thread reads as long as there is something to read.
Fairness == WF_vars((\E k \in 0..BufferLength : Arrive(k)) \/ ProcessRead)

FairSpec == Spec /\ Fairness

------------------------------------------------------------------------------
(***************************************************************************)
(* Properties.                                                             *)
(***************************************************************************)
\* What io_manager_data and the locals of process_read hold; no index into
\* fixed_buffer and no count of bytes read ever exceeds its size.
TypeOK ==
    /\ sent \in Seq(Packet)
    /\ wire \in Seq(Byte)
    /\ step \in {"waiting", "entered", "parsing"}
    /\ buffer \in [Cell -> Byte]
    /\ dynamic \in Seq(Byte)
    /\ lastRead \in 0..BufferLength /\ read \in 0..BufferLength /\ index \in 0..BufferLength
    /\ lastCommand \in Byte
    /\ received \in Seq([cmd : Byte, data : Seq(Byte)])

\* The packets data_received gets are those that were given to send, in that
\* order, whatever pieces the bytes arrive in, and every one of them.
Packets == INSTANCE Stream WITH Message <- Packet
PacketStream == Packets!FairSpec

\* A read that is started has room for at least one byte.
ReadHasRoom == step = "waiting" => lastRead < BufferLength

\* Bytes are neither lost, read twice nor reordered: the sub-packets taken in
\* so far, what is left in the buffer and what is under way are together the
\* packets that have not been handed over.
Begun ==
    LET subs == Len(dynamic) \div SubMax
    IN  IF lastCommand = NullCommand THEN <<>>
        ELSE <<lastCommand>> \o Cut(dynamic, subs, Len(dynamic) + subs)
Bytes(array, from, to) == [i \in 1..(to - from) |-> array[from + i - 1]]
Unparsed ==
    LET end == IF step = "waiting" THEN lastRead ELSE read
    IN  Bytes(buffer, index, end)
Due == [i \in 1..(Len(sent) - Len(received)) |-> Encode(sent[Len(received) + i])]
EveryByteCounts == Begun \o Unparsed \o wire = FlattenSeq(Due)
==============================================================================
