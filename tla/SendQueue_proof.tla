--------------------------- MODULE SendQueue_proof ---------------------------
(***************************************************************************)
(* Proofs about SendQueue, for any number of connections and commands.     *)
(*                                                                         *)
(* OneChain counts; what is inductive says the same one by one (Single).   *)
(* OwnInOrder follows from an order of all buffers that ready, the queue   *)
(* and the sockets keep (Sorted, Past), and from a chain that was started  *)
(* for no later connection than any buffer in the queue (Chained).         *)
(***************************************************************************)
EXTENDS SendQueue, FiniteSetTheorems, TLAPS

Written == [conn : Conn, buffer : Buffer]

\* Where the write_dones and the lambdas of send are among the handlers r.
Dones(r) == {i \in DOMAIN r : r[i].run = "done"}
Pushes(r) == {i \in DOMAIN r : r[i].run = "push"}

\* The order in which buffers were sent.
Before(b, e) == b.conn < e.conn \/ (b.conn = e.conn /\ b.no < e.no)

Posted(b) == b.conn <= current /\ b.no <= sent[b.conn]

\* A write under way, or a write_done to come, and not two of them.
Single(r, b, w) ==
    /\ Len(w) <= 1
    /\ w # <<>> => Dones(r) = {}
    /\ \A i, j \in Dones(r) : i = j
    /\ b # <<>> <=> w # <<>> \/ Dones(r) # {}

\* What is to be pushed was sent after what is in the queue, both in order.
Sorted(r, b) ==
    /\ \A i, j \in Pushes(r) : i < j => Before(r[i].buffer, r[j].buffer)
    /\ \A i, j \in DOMAIN b : i < j => Before(b[i], b[j])
    /\ \A i \in DOMAIN b, j \in Pushes(r) : Before(b[i], r[j].buffer)
    /\ \A i \in Pushes(r) : Posted(r[i].buffer)
    /\ \A i \in DOMAIN b : Posted(b[i])

\* The chain is that of a connection no later than any buffer's, and the one of
\* that buffer when it writes.
Chained(r, b, w) ==
    /\ \A i \in DOMAIN w : b # <<>> /\ w[i].buffer = b[1] /\ w[i].conn = b[1].conn
    /\ \A i \in Dones(r), j \in DOMAIN b : r[i].conn <= b[j].conn

\* What the sockets have taken was sent on them, in order, and before what is to
\* be pushed and what is in the queue from `first` on.
Past(r, b, first, ca) ==
    \A c \in Conn : \A k \in DOMAIN ca[c] :
        /\ ca[c][k].conn = c /\ Posted(ca[c][k])
        /\ \A j \in 1..(k - 1) : ca[c][j].no < ca[c][k].no
        /\ \A i \in Pushes(r) : Before(ca[c][k], r[i].buffer)
        /\ \A i \in DOMAIN b : i >= first => Before(ca[c][k], b[i])

\* The front of the queue may have been taken, unless its write is under way.
First(w) == IF w # <<>> THEN 1 ELSE 2

Inv ==
    /\ TypeOK
    /\ Single(ready, buffers, writes)
    /\ Sorted(ready, buffers)
    /\ Chained(ready, buffers, writes)
    /\ Past(ready, buffers, First(writes), carried)

------------------------------------------------------------------------------
(***************************************************************************)
(* Handlers, sequences and the order.                                      *)
(***************************************************************************)
LEMMA HandlerFacts ==
    /\ \A b \in Buffer : b.conn \in Conn /\ b.conn \in Nat /\ b.no \in 1..MaxSent /\ b.no \in Nat
    /\ \A h \in Handler : h.run \in {"push", "done"}
    /\ \A h \in Handler : h.run = "push" => h.buffer \in Buffer
    /\ \A h \in Handler : h.run = "done" => h.conn \in Conn
    /\ \A b \in Buffer : Push(b) \in Handler /\ Push(b).run = "push" /\ Push(b).buffer = b
    /\ \A c \in Conn : Done(c) \in Handler /\ Done(c).run = "done" /\ Done(c).conn = c
    /\ \A c \in Conn : c \in Nat
  <1>1. \A b \in Buffer : b.conn \in Conn /\ b.conn \in Nat /\ b.no \in 1..MaxSent /\ b.no \in Nat
    BY BoundAssumption DEF Buffer, Conn
  <1>2. \A h \in Handler : h.run \in {"push", "done"}
    BY DEF Handler
  <1>3. \A h \in Handler : h.run = "push" => h.buffer \in Buffer
    BY DEF Handler
  <1>4. \A h \in Handler : h.run = "done" => h.conn \in Conn
    BY DEF Handler
  <1>5. \A b \in Buffer : Push(b) \in Handler /\ Push(b).run = "push" /\ Push(b).buffer = b
    BY DEF Handler, Push
  <1>6. \A c \in Conn : Done(c) \in Handler /\ Done(c).run = "done" /\ Done(c).conn = c
    BY DEF Handler, Done
  <1>7. \A c \in Conn : c \in Nat
    BY BoundAssumption DEF Conn
  <1> QED
    BY <1>1, <1>2, <1>3, <1>4, <1>5, <1>6, <1>7

\* Before is an order, and one of connections.
LEMMA BeforeFacts ==
    ASSUME NEW b \in Buffer, NEW e \in Buffer, NEW f \in Buffer, Before(b, e)
    PROVE  /\ b.conn <= e.conn
           /\ b.conn = e.conn => b.no < e.no
           /\ Before(e, f) => Before(b, f)
  <1>1. /\ b.conn \in Nat /\ b.no \in Nat /\ e.conn \in Nat
        /\ e.no \in Nat /\ f.conn \in Nat /\ f.no \in Nat
    BY HandlerFacts
  <1> QED
    BY <1>1 DEF Before

LEMMA TailFacts ==
    ASSUME NEW S, NEW q \in Seq(S), q # <<>>
    PROVE  /\ Tail(q) \in Seq(S) /\ Head(q) = q[1] /\ q[1] \in S
           /\ 1 \in DOMAIN q
           /\ \A i \in DOMAIN Tail(q) : i \in Nat /\ i + 1 \in DOMAIN q /\ Tail(q)[i] = q[i + 1]
           /\ \A i \in DOMAIN q : i # 1 => i - 1 \in DOMAIN Tail(q) /\ i = (i - 1) + 1
  OBVIOUS

LEMMA NoWrites == <<>> \in Seq(Written) /\ \A i : i \notin DOMAIN <<>>
  OBVIOUS

LEMMA OneLong ==
    ASSUME NEW S, NEW q \in Seq(S), q # <<>>, Len(q) <= 1
    PROVE  Len(q) = 1 /\ 1 \in DOMAIN q /\ DOMAIN q = 1..1 /\ q[1] \in S /\ q = <<q[1]>> /\ Tail(q) = <<>>
  <1>1. Len(q) \in Nat /\ Len(q) # 0 /\ DOMAIN q = 1..Len(q)
    OBVIOUS
  <1>2. Len(q) = 1
    BY <1>1
  <1>3. q[1] \in S
    BY <1>1, <1>2
  <1>4. <<q[1]>> \in Seq(S) /\ Len(<<q[1]>>) = 1 /\ <<q[1]>>[1] = q[1]
    BY <1>3
  <1>5. \A i \in 1..Len(q) : q[i] = <<q[1]>>[i]
    BY <1>2, <1>4
  <1>6. Tail(q) = <<>>
    <2>1. Tail(q) \in Seq(S) /\ Len(Tail(q)) = 0
      BY <1>2
    <2> QED
      BY <2>1
  <1> QED
    BY <1>1, <1>2, <1>3, <1>4, <1>5, <1>6

LEMMA AppendFacts ==
    ASSUME NEW S, NEW q \in Seq(S), NEW e \in S
    PROVE  /\ Append(q, e) \in Seq(S) /\ Append(q, e) # <<>>
           /\ Append(q, e)[Len(q) + 1] = e /\ Len(q) + 1 \in DOMAIN Append(q, e)
           /\ \A i \in DOMAIN q : i \in Nat /\ i <= Len(q) /\ i \in DOMAIN Append(q, e) /\ Append(q, e)[i] = q[i]
           /\ \A i \in DOMAIN Append(q, e) : i \in DOMAIN q \/ i = Len(q) + 1
           /\ Len(q) + 1 \notin DOMAIN q
  OBVIOUS

\* What Tail and Append do to the write_dones and the lambdas among handlers.
LEMMA TailHandlers ==
    ASSUME NEW r \in Seq(Handler), r # <<>>
    PROVE  /\ \A i \in Dones(Tail(r)) : i \in Nat /\ i + 1 \in Dones(r) /\ Tail(r)[i] = r[i + 1]
           /\ \A i \in Pushes(Tail(r)) : i \in Nat /\ i + 1 \in Pushes(r) /\ Tail(r)[i] = r[i + 1]
           /\ \A i \in Dones(r) : i # 1 => i - 1 \in Dones(Tail(r))
  BY TailFacts DEF Dones, Pushes

LEMMA AppendDone ==
    ASSUME NEW r \in Seq(Handler), NEW c \in Conn
    PROVE  LET q == Append(r, Done(c)) IN
           /\ q \in Seq(Handler)
           /\ Dones(q) = Dones(r) \cup {Len(r) + 1} /\ q[Len(r) + 1] = Done(c)
           /\ Pushes(q) = Pushes(r)
           /\ \A i \in DOMAIN r : q[i] = r[i]
  <1>1. Done(c) \in Handler /\ Done(c).run = "done"
    BY HandlerFacts
  <1> QED
    BY <1>1, AppendFacts DEF Dones, Pushes

LEMMA AppendPush ==
    ASSUME NEW r \in Seq(Handler), NEW b \in Buffer
    PROVE  LET q == Append(r, Push(b)) IN
           /\ q \in Seq(Handler)
           /\ Pushes(q) = Pushes(r) \cup {Len(r) + 1} /\ q[Len(r) + 1] = Push(b)
           /\ Dones(q) = Dones(r)
           /\ \A i \in DOMAIN r : q[i] = r[i] /\ i \in Nat /\ i <= Len(r)
  <1>1. Push(b) \in Handler /\ Push(b).run = "push"
    BY HandlerFacts
  <1> QED
    BY <1>1, AppendFacts DEF Dones, Pushes

LEMMA PushedBuffers ==
    \A r \in Seq(Handler) : /\ \A i \in Pushes(r) : i \in DOMAIN r /\ r[i].buffer \in Buffer
                            /\ \A i \in Dones(r) : i \in DOMAIN r /\ r[i].conn \in Conn
  BY HandlerFacts DEF Pushes, Dones

------------------------------------------------------------------------------
(***************************************************************************)
(* The queue, the chain and the sockets, whatever handler made them.       *)
(***************************************************************************)
\* A chain that is started, or goes on, at the front of the queue: the write of
\* an open connection, or its end at once.
LEMMA WriteLinks ==
    ASSUME TypeOK, NEW c \in Conn, NEW b \in Seq(Buffer), NEW r \in Seq(Handler),
           Write(c, b, r), writes = <<>>, b # <<>>, Dones(r) = {},
           \A i \in DOMAIN b : c <= b[i].conn,
           Sorted(r, b), Past(r, b, 1, carried)
    PROVE  /\ ready' \in Seq(Handler) /\ writes' \in Seq(Written)
           /\ \A i \in DOMAIN writes' : isOpen /\ writes'[i].conn = current
           /\ Single(ready', b, writes')
           /\ Sorted(ready', b)
           /\ Chained(ready', b, writes')
           /\ Past(ready', b, First(writes'), carried)
  <1>1. b[1] \in Buffer /\ b[1].conn \in Nat /\ c \in Nat /\ Head(b) = b[1] /\ 1 \in DOMAIN b
    BY TailFacts, HandlerFacts
  <1>2. CASE c = current /\ isOpen
    <2> DEFINE it == [conn |-> c, buffer |-> b[1]]
    <2>1. writes' = <<it>> /\ ready' = r
      BY <1>1, <1>2 DEF Write
    <2>2. b[1].conn = c
      BY <1>1, <1>2 DEF Sorted, Posted
    <2>3. it \in Written /\ it.conn = c /\ it.buffer = b[1]
      BY <1>1 DEF Written
    <2> HIDE DEF it
    <2>4. writes' \in Seq(Written) /\ Len(writes') = 1 /\ writes' # <<>>
          /\ \A i \in DOMAIN writes' : writes'[i] = it
      BY <2>1, <2>3
    <2>5. Single(r, b, writes')
      BY <2>4 DEF Single
    <2>6. Chained(r, b, writes')
      BY <2>4, <2>3, <2>2 DEF Chained
    <2>7. First(writes') = 1
      BY <2>4 DEF First
    <2> QED
      BY <2>1, <2>3, <2>4, <2>5, <2>6, <2>7, <1>2
  <1>3. CASE ~(c = current /\ isOpen)
    <2>1. writes' = <<>> /\ ready' = Append(r, Done(c))
      BY <1>3 DEF Write
    <2>2. /\ ready' \in Seq(Handler)
          /\ Dones(ready') = {Len(r) + 1} /\ ready'[Len(r) + 1].conn = c
          /\ Pushes(ready') = Pushes(r)
          /\ \A i \in DOMAIN r : ready'[i] = r[i]
      BY <2>1, AppendDone, HandlerFacts
    <2>3. \A i \in Pushes(r) : ready'[i] = r[i]
      BY <2>2 DEF Pushes
    <2>4. Single(ready', b, writes')
      BY <2>1, <2>2 DEF Single
    <2>5. Sorted(ready', b)
      BY <2>2, <2>3 DEF Sorted
    <2>6. Chained(ready', b, writes')
      BY <2>1, <2>2 DEF Chained
    <2>7. Past(ready', b, 2, carried)
      BY <2>2, <2>3 DEF Past
    <2>8. First(writes') = 2
      BY <2>1 DEF First
    <2> QED
      BY <2>1, <2>2, <2>4, <2>5, <2>6, <2>7, <2>8 DEF TypeOK
  <1> QED
    BY <1>2, <1>3

\* A write that ends, done or not, leaves its write_done.
LEMMA WriteEnds ==
    ASSUME TypeOK, Single(ready, buffers, writes), Sorted(ready, buffers),
           Chained(ready, buffers, writes), writes # <<>>,
           ready' = Append(ready, Done(writes[1].conn)), writes' = <<>>
    PROVE  /\ writes[1] \in Written /\ writes = <<writes[1]>> /\ buffers # <<>>
           /\ writes[1].buffer = buffers[1] /\ writes[1].conn = buffers[1].conn
           /\ ready' \in Seq(Handler) /\ Pushes(ready') = Pushes(ready)
           /\ \A i \in Pushes(ready) : ready'[i] = ready[i]
           /\ Single(ready', buffers, writes')
           /\ Sorted(ready', buffers)
           /\ Chained(ready', buffers, writes')
  <1>1. /\ writes \in Seq(Written) /\ buffers \in Seq(Buffer) /\ ready \in Seq(Handler)
    BY DEF TypeOK, Written
  <1>2. writes[1] \in Written /\ writes = <<writes[1]>> /\ 1 \in DOMAIN writes
    BY <1>1, OneLong DEF Single
  <1> DEFINE c == writes[1].conn
  <1>3. c \in Conn /\ c \in Nat
    BY <1>2, HandlerFacts DEF Written
  <1>4. buffers # <<>> /\ writes[1].buffer = buffers[1] /\ c = buffers[1].conn
    BY <1>2 DEF Chained
  <1>5. \A j \in DOMAIN buffers : c <= buffers[j].conn
    <2> SUFFICES ASSUME NEW j \in DOMAIN buffers PROVE c <= buffers[j].conn
      OBVIOUS
    <2>1. buffers[1] \in Buffer /\ buffers[j] \in Buffer /\ 1 \in DOMAIN buffers
      BY <1>1, <1>4
    <2>2. CASE j = 1
      BY <2>2, <1>4, <1>3
    <2>3. CASE j # 1
      <3>1. Before(buffers[1], buffers[j])
        BY <2>1, <2>3, <1>1 DEF Sorted
      <3> QED
        BY <3>1, <2>1, <1>4, BeforeFacts
    <2> QED
      BY <2>2, <2>3
  <1>6. /\ ready' \in Seq(Handler)
        /\ Dones(ready') = Dones(ready) \cup {Len(ready) + 1} /\ ready'[Len(ready) + 1].conn = c
        /\ Pushes(ready') = Pushes(ready)
        /\ \A i \in DOMAIN ready : ready'[i] = ready[i]
    BY <1>1, <1>3, AppendDone, HandlerFacts
  <1>7. \A i \in Pushes(ready) : ready'[i] = ready[i]
    BY <1>6 DEF Pushes
  <1>8. Dones(ready') = {Len(ready) + 1}
    BY <1>6 DEF Single
  <1> HIDE DEF c
  <1>9. Single(ready', buffers, writes')
    BY <1>4, <1>8 DEF Single
  <1>10. Sorted(ready', buffers)
    BY <1>6, <1>7 DEF Sorted
  <1>11. Chained(ready', buffers, writes')
    BY <1>5, <1>6, <1>8 DEF Chained
  <1> QED
    BY <1>2, <1>4, <1>6, <1>7, <1>9, <1>10, <1>11 DEF c

------------------------------------------------------------------------------
(***************************************************************************)
(* Init and the steps.                                                     *)
(***************************************************************************)
LEMMA InitInv == Init => Inv
  <1> SUFFICES ASSUME Init PROVE Inv
    OBVIOUS
  <1>1. TypeOK
    <2>1. current \in 0..MaxConnections /\ isOpen = FALSE
      BY BoundAssumption DEF Init
    <2>2. sent \in [Conn -> 0..MaxSent] /\ carried \in [Conn -> Seq(Buffer)]
      BY BoundAssumption DEF Init
    <2>3. ready \in Seq(Handler) /\ buffers \in Seq(Buffer) /\ writes \in Seq(Written)
      BY DEF Init
    <2>4. \A i \in DOMAIN writes : isOpen /\ writes[i].conn = current
      BY DEF Init
    <2> QED
      BY <2>1, <2>2, <2>3, <2>4 DEF TypeOK, Written
  <1>2. ready = <<>> /\ buffers = <<>> /\ writes = <<>> /\ \A c \in Conn : carried[c] = <<>>
    BY DEF Init
  <1>3. Dones(<<>>) = {} /\ Pushes(<<>>) = {}
    BY DEF Dones, Pushes
  <1>4. Single(ready, buffers, writes) /\ Sorted(ready, buffers) /\ Chained(ready, buffers, writes)
    BY <1>2, <1>3 DEF Single, Sorted, Chained
  <1>5. Past(ready, buffers, First(writes), carried)
    BY <1>2 DEF Past
  <1> QED
    BY <1>1, <1>4, <1>5 DEF Inv

\* Every step but Open and Send keeps what was posted.
LEMMA Steady ==
    ASSUME UNCHANGED <<current, sent>>, TypeOK',
           Single(ready', buffers', writes'), Sorted(ready', buffers'),
           Chained(ready', buffers', writes'), Past(ready', buffers', First(writes'), carried')
    PROVE  Inv'
  <1>1. Single(ready, buffers, writes)' /\ Chained(ready, buffers, writes)'
    BY DEF Single, Chained, Dones
  <1>2. Sorted(ready, buffers)'
    BY DEF Sorted, Pushes, Posted, Before
  <1>3. Past(ready, buffers, First(writes), carried)'
    BY DEF Past, First, Pushes, Posted, Before
  <1> QED
    BY <1>1, <1>2, <1>3 DEF Inv

LEMMA OpenKeeps == Inv /\ Open => Inv'
  <1> SUFFICES ASSUME Inv, Open PROVE Inv'
    OBVIOUS
  <1> USE DEF Inv
  <1>1. /\ current' = current + 1 /\ current' \in Conn /\ current \in Nat
        /\ isOpen' = TRUE
        /\ UNCHANGED <<sent, ready, buffers, writes, carried>>
    BY BoundAssumption DEF Open, TypeOK, Conn
  <1>2. writes = <<>>
    <2>1. ~isOpen /\ writes \in Seq(Written) /\ \A i \in DOMAIN writes : isOpen
      BY DEF Open, TypeOK, Written
    <2> QED
      BY <2>1, TailFacts
  <1>3. TypeOK'
    BY <1>1, <1>2, BoundAssumption DEF TypeOK, Conn
  <1>4. \A b \in Buffer : Posted(b) => b.conn <= current' /\ b.no <= sent'[b.conn]
    BY <1>1, HandlerFacts DEF Posted
  <1>5. Single(ready, buffers, writes)' /\ Chained(ready, buffers, writes)'
    BY <1>1 DEF Single, Chained, Dones
  <1>6. /\ \A i \in Pushes(ready) : ready[i].buffer \in Buffer
        /\ \A i \in DOMAIN buffers : buffers[i] \in Buffer
        /\ \A c \in Conn : \A k \in DOMAIN carried[c] : carried[c][k] \in Buffer
    BY PushedBuffers DEF TypeOK
  <1>7. Sorted(ready, buffers)'
    BY <1>1, <1>4, <1>6 DEF Sorted, Pushes, Before, Posted
  <1>8. Past(ready, buffers, First(writes), carried)'
    <2>1. Past(ready, buffers, First(writes), carried)
      OBVIOUS
    <2>2. \A c \in Conn : \A k \in DOMAIN carried[c] :
            carried[c][k].conn <= current' /\ carried[c][k].no <= sent'[carried[c][k].conn]
      BY <1>4, <1>6 DEF Past
    <2> QED
      BY <1>1, <2>1, <2>2 DEF Past, Pushes, Before, First, Posted
  <1> QED
    BY <1>3, <1>5, <1>7, <1>8

LEMMA LoseKeeps == Inv /\ Lose => Inv'
  <1> SUFFICES ASSUME Inv, Lose PROVE Inv'
    OBVIOUS
  <1> USE DEF Inv
  <1>0. /\ isOpen' = FALSE /\ writes' = <<>>
        /\ UNCHANGED <<current, sent, buffers, carried>>
        /\ writes \in Seq(Written) /\ ready \in Seq(Handler)
    BY DEF Lose, TypeOK, Written
  <1>1. CASE writes = <<>>
    <2>1. ready' = ready /\ writes' = writes
      <3>1. [i \in DOMAIN writes |-> Done(writes[i].conn)] = <<>>
        BY <1>1
      <3> QED
        BY <3>1, <1>0 DEF Lose
    <2>2. TypeOK'
      BY <2>1, <1>0, <1>1, NoWrites DEF TypeOK, Written
    <2> QED
      BY <2>1, <2>2, <1>0, <1>1, Steady
  <1>2. CASE writes # <<>>
    <2>1. ready' = Append(ready, Done(writes[1].conn))
      <3>1. Len(writes) = 1 /\ DOMAIN writes = 1..1
        BY <1>0, <1>2, OneLong DEF Single
      <3>2. [i \in DOMAIN writes |-> Done(writes[i].conn)] = <<Done(writes[1].conn)>>
        BY <3>1
      <3> QED
        BY <3>2, <1>0 DEF Lose
    <2>2. /\ ready' \in Seq(Handler) /\ Pushes(ready') = Pushes(ready)
          /\ \A i \in Pushes(ready) : ready'[i] = ready[i]
          /\ Single(ready', buffers, writes')
          /\ Sorted(ready', buffers)
          /\ Chained(ready', buffers, writes')
      BY <1>0, <1>2, <2>1, WriteEnds
    <2>3. TypeOK'
      BY <1>0, <2>2, NoWrites DEF TypeOK, Written
    <2>4. Past(ready', buffers, First(writes'), carried)
      <3>1. First(writes) = 1 /\ First(writes') = 2
        BY <1>0, <1>2 DEF First
      <3>2. \A i \in DOMAIN buffers : i >= 2 => i >= 1
        BY DEF TypeOK
      <3> QED
        BY <2>2, <3>1, <3>2 DEF Past
    <2> QED
      BY <1>0, <2>2, <2>3, <2>4, Steady
  <1> QED
    BY <1>1, <1>2

LEMMA SendKeeps == Inv /\ Send => Inv'
  <1> SUFFICES ASSUME Inv, Send PROVE Inv'
    OBVIOUS
  <1> USE DEF Inv
  <1> DEFINE it == [conn |-> current, no |-> sent[current] + 1]
  <1>1. /\ current \in Conn /\ current \in Nat /\ sent[current] \in Nat /\ sent[current] + 1 \in 1..MaxSent
        /\ sent' = [sent EXCEPT ![current] = @ + 1] /\ ready' = Append(ready, Push(it))
        /\ UNCHANGED <<current, isOpen, buffers, writes, carried>>
        /\ sent \in [Conn -> 0..MaxSent] /\ ready \in Seq(Handler)
    BY BoundAssumption DEF Send, TypeOK, Conn
  <1>2. it \in Buffer /\ it.conn = current /\ it.no = sent[current] + 1
    BY <1>1 DEF Buffer
  <1> HIDE DEF it
  <1>3. sent' \in [Conn -> 0..MaxSent]
    BY <1>1, BoundAssumption
  <1>4. \A b \in Buffer : Posted(b) =>
          Before(b, it) /\ b.conn <= current' /\ b.no <= sent'[b.conn]
    <2> SUFFICES ASSUME NEW b \in Buffer, Posted(b)
                 PROVE  Before(b, it) /\ b.conn <= current' /\ b.no <= sent'[b.conn]
      OBVIOUS
    <2>1. b.conn \in Conn /\ b.conn \in Nat /\ b.no \in Nat
      BY HandlerFacts
    <2>2. sent[b.conn] \in Nat /\ sent'[b.conn] = IF b.conn = current THEN sent[b.conn] + 1 ELSE sent[b.conn]
      BY <2>1, <1>1
    <2>3. b.conn <= current /\ b.no <= sent[b.conn]
      BY DEF Posted
    <2>4. Before(b, it)
      BY <2>1, <2>2, <2>3, <1>1, <1>2 DEF Before
    <2> QED
      BY <2>1, <2>2, <2>3, <2>4, <1>1
  <1>5. it.conn <= current' /\ it.no <= sent'[it.conn]
    BY <1>1, <1>2
  <1>6. /\ ready' \in Seq(Handler)
        /\ Pushes(ready') = Pushes(ready) \cup {Len(ready) + 1}
        /\ ready'[Len(ready) + 1].buffer = it
        /\ Dones(ready') = Dones(ready)
        /\ \A i \in DOMAIN ready : ready'[i] = ready[i] /\ i \in Nat /\ i <= Len(ready)
    BY <1>1, <1>2, AppendPush, HandlerFacts
  <1>7. /\ \A i \in Pushes(ready) : i \in DOMAIN ready /\ ready[i].buffer \in Buffer
        /\ \A i \in Dones(ready) : i \in DOMAIN ready
        /\ \A i \in DOMAIN buffers : buffers[i] \in Buffer
        /\ \A c \in Conn : \A k \in DOMAIN carried[c] : carried[c][k] \in Buffer
    BY PushedBuffers DEF TypeOK
  <1>8. TypeOK'
    BY <1>1, <1>3, <1>6 DEF TypeOK
  <1>9. Single(ready, buffers, writes)' /\ Chained(ready, buffers, writes)'
    <2>1. Single(ready', buffers, writes)
      BY <1>6 DEF Single
    <2>2. Chained(ready', buffers, writes)
      BY <1>6, <1>7 DEF Chained
    <2> QED
      BY <2>1, <2>2, <1>1 DEF Single, Chained, Dones
  <1>10. Sorted(ready, buffers)'
    <2> DEFINE r == ready'
    <2>0. Len(ready) \in Nat
      BY <1>1
    <2>1. \A i \in Pushes(r) : i = Len(ready) + 1 \/ (i \in Pushes(ready) /\ r[i] = ready[i] /\ i \in Nat /\ i <= Len(ready))
      BY <1>6, <1>7
    <2>2. \A i \in Pushes(ready) : Before(ready[i].buffer, it)
      BY <1>4, <1>7 DEF Sorted
    <2>3. \A i \in DOMAIN buffers : Before(buffers[i], it)
      BY <1>4, <1>7 DEF Sorted
    <2>4. ASSUME NEW i \in Pushes(r), NEW j \in Pushes(r), i < j
          PROVE  Before(r[i].buffer, r[j].buffer)
      <3>1. i \in Pushes(ready) /\ r[i] = ready[i]
        BY <2>0, <2>1, <2>4
      <3>2. CASE j = Len(ready) + 1
        BY <3>1, <3>2, <2>2, <1>6
      <3>3. CASE j \in Pushes(ready) /\ r[j] = ready[j]
        BY <3>1, <3>3, <2>4 DEF Sorted
      <3> QED
        BY <3>2, <3>3, <2>1
    <2>5. \A i \in DOMAIN buffers, j \in Pushes(r) : Before(buffers[i], r[j].buffer)
      BY <2>1, <2>3, <1>6 DEF Sorted
    <2>6. \A i \in Pushes(r) : r[i].buffer.conn <= current' /\ r[i].buffer.no <= sent'[r[i].buffer.conn]
      BY <2>1, <1>4, <1>5, <1>6, <1>7 DEF Sorted
    <2>7. \A i \in DOMAIN buffers : buffers[i].conn <= current' /\ buffers[i].no <= sent'[buffers[i].conn]
      BY <1>4, <1>7 DEF Sorted
    <2>8. \A i, j \in DOMAIN buffers : i < j => Before(buffers[i], buffers[j])
      BY DEF Sorted
    <2> QED
      BY <2>4, <2>5, <2>6, <2>7, <2>8, <1>1 DEF Sorted, Posted, Pushes, Before
  <1>11. Past(ready, buffers, First(writes), carried)'
    <2>1. ASSUME NEW c \in Conn, NEW k \in DOMAIN carried[c]
          PROVE  /\ carried[c][k].conn = c
                 /\ carried[c][k].conn <= current' /\ carried[c][k].no <= sent'[carried[c][k].conn]
                 /\ \A j \in 1..(k - 1) : carried[c][j].no < carried[c][k].no
                 /\ \A i \in Pushes(ready') : Before(carried[c][k], ready'[i].buffer)
                 /\ \A i \in DOMAIN buffers : i >= First(writes) => Before(carried[c][k], buffers[i])
      <3>1. Posted(carried[c][k]) /\ carried[c][k] \in Buffer
        BY <1>7 DEF Past
      <3>2. \A i \in Pushes(ready') : Before(carried[c][k], ready'[i].buffer)
        BY <3>1, <1>4, <1>6, <1>7 DEF Past
      <3> QED
        BY <3>1, <3>2, <1>4 DEF Past
    <2> QED
      BY <2>1, <1>1 DEF Past, Posted, First
  <1> QED
    BY <1>8, <1>9, <1>10, <1>11

LEMMA RunPushKeeps == Inv /\ RunPush => Inv'
  <1> SUFFICES ASSUME Inv, RunPush PROVE Inv'
    OBVIOUS
  <1> USE DEF Inv
  <1> DEFINE e == Head(ready).buffer
             r == Tail(ready)
             b == Append(buffers, e)
             n == Len(buffers) + 1
  <1>1. /\ ready # <<>> /\ ready \in Seq(Handler) /\ buffers \in Seq(Buffer)
        /\ buffers' = b
        /\ \/ buffers = <<>> /\ Write(e.conn, b, r)
           \/ buffers # <<>> /\ ready' = r /\ UNCHANGED writes
        /\ UNCHANGED <<current, isOpen, sent, carried>>
    <2>1. ready \in Seq(Handler) /\ buffers \in Seq(Buffer)
      BY DEF TypeOK
    <2>2. ready # <<>> /\ buffers' = b /\ UNCHANGED <<current, isOpen, sent, carried>>
      BY DEF RunPush
    <2>3. \/ buffers = <<>> /\ Write(e.conn, b, r)
          \/ buffers # <<>> /\ ready' = r /\ UNCHANGED writes
      BY <2>2 DEF RunPush, Write
    <2> QED
      BY <2>1, <2>2, <2>3
  <1>2. /\ 1 \in Pushes(ready) /\ 1 \notin Dones(ready) /\ ready[1].buffer = e
        /\ e \in Buffer /\ r \in Seq(Handler)
    BY <1>1, TailFacts, HandlerFacts DEF RunPush, Pushes, Dones
  <1>3. /\ b \in Seq(Buffer) /\ b # <<>> /\ b[n] = e /\ n \in DOMAIN b /\ n \in Nat
        /\ \A i \in DOMAIN buffers : i \in Nat /\ i < n /\ i \in DOMAIN b /\ b[i] = buffers[i]
        /\ \A i \in DOMAIN b : i \in DOMAIN buffers \/ i = n
        /\ n \notin DOMAIN buffers
    <2>1. Len(buffers) \in Nat
      BY <1>1
    <2> QED
      BY <2>1, <1>1, <1>2, AppendFacts
  <1>4. /\ \A i \in Dones(r) : i \in Nat /\ i + 1 \in Dones(ready) /\ r[i] = ready[i + 1]
        /\ \A i \in Pushes(r) : i \in Nat /\ i + 1 \in Pushes(ready) /\ r[i] = ready[i + 1] /\ 1 < i + 1
        /\ \A i \in Dones(ready) : i # 1 => i - 1 \in Dones(r)
    <2>1. \A i \in Pushes(r) : i \in DOMAIN r /\ 1 < i + 1
      BY <1>2 DEF Pushes
    <2> QED
      BY <2>1, <1>1, TailHandlers
  <1> HIDE DEF e, r, b, n
  <1>5. Dones(r) = {} <=> Dones(ready) = {}
    BY <1>2, <1>4
  <1>6. Sorted(r, b)
    <2>1. \A i, j \in Pushes(r) : i < j => Before(r[i].buffer, r[j].buffer)
      BY <1>4 DEF Sorted
    <2>2. \A j \in Pushes(r) : Before(e, r[j].buffer)
      BY <1>2, <1>4 DEF Sorted
    <2>3. \A i \in DOMAIN buffers : Before(buffers[i], e) /\ \A j \in Pushes(r) : Before(buffers[i], r[j].buffer)
      BY <1>2, <1>4 DEF Sorted
    <2>4. \A i, j \in DOMAIN b : i < j => Before(b[i], b[j])
      BY <1>3, <2>3 DEF Sorted
    <2>5. \A i \in DOMAIN b, j \in Pushes(r) : Before(b[i], r[j].buffer)
      BY <1>3, <2>2, <2>3
    <2>6. \A i \in Pushes(r) : Posted(r[i].buffer)
      BY <1>4 DEF Sorted
    <2>7. \A i \in DOMAIN b : Posted(b[i])
      BY <1>2, <1>3 DEF Sorted
    <2> QED
      BY <2>1, <2>4, <2>5, <2>6, <2>7 DEF Sorted
  <1>7. \A c \in Conn : \A k \in DOMAIN carried[c] :
          /\ Before(carried[c][k], e)
          /\ \A i \in Pushes(r) : Before(carried[c][k], r[i].buffer)
    BY <1>2, <1>4 DEF Past
  <1>8. CASE buffers = <<>>
    <2>1. writes = <<>> /\ Dones(r) = {}
      BY <1>5, <1>8 DEF Single
    <2>2. DOMAIN buffers = {}
      BY <1>8
    <2>3. \A i \in DOMAIN b : e.conn <= b[i].conn
      <3>1. e.conn \in Nat
        BY <1>2, HandlerFacts
      <3> QED
        BY <3>1, <2>2, <1>3
    <2>4. Past(r, b, 1, carried)
      BY <1>7, <1>3, <2>2 DEF Past
    <2>5. e.conn \in Conn
      BY <1>2, HandlerFacts
    <2>6. /\ ready' \in Seq(Handler) /\ writes' \in Seq(Written)
          /\ \A i \in DOMAIN writes' : isOpen /\ writes'[i].conn = current
          /\ Single(ready', b, writes')
          /\ Sorted(ready', b)
          /\ Chained(ready', b, writes')
          /\ Past(ready', b, First(writes'), carried)
      BY <1>1, <1>2, <1>3, <1>6, <1>8, <2>1, <2>3, <2>4, <2>5, WriteLinks
    <2>7. TypeOK'
      BY <2>6, <1>1, <1>3 DEF TypeOK, Written
    <2> QED
      BY <2>6, <2>7, <1>1, Steady
  <1>9. CASE buffers # <<>>
    <2>1. ready' = r /\ writes' = writes
      BY <1>1, <1>9
    <2>2. Single(r, b, writes)
      <3>1. \A i, j \in Dones(r) : i = j
        BY <1>4 DEF Single
      <3> QED
        BY <3>1, <1>3, <1>5, <1>9 DEF Single
    <2>3. Chained(r, b, writes)
      <3>1. 1 \in DOMAIN buffers /\ b[1] = buffers[1] /\ buffers[1] \in Buffer
        BY <1>1, <1>3, <1>9, TailFacts
      <3>2. \A i \in DOMAIN writes : b # <<>> /\ writes[i].buffer = b[1] /\ writes[i].conn = b[1].conn
        BY <1>3, <3>1 DEF Chained
      <3>3. ASSUME NEW i \in Dones(r), NEW j \in DOMAIN b PROVE r[i].conn <= b[j].conn
        <4>1. i + 1 \in Dones(ready) /\ r[i].conn = ready[i + 1].conn /\ r[i].conn \in Nat
          BY <1>1, <1>4, PushedBuffers, HandlerFacts
        <4>2. CASE j \in DOMAIN buffers
          BY <4>1, <4>2, <1>3 DEF Chained
        <4>3. CASE j = n
          <5>1. r[i].conn <= buffers[1].conn
            BY <4>1, <3>1 DEF Chained
          <5>2. buffers[1].conn <= e.conn
            BY <3>1, <1>2, BeforeFacts DEF Sorted
          <5>3. buffers[1].conn \in Nat /\ e.conn \in Nat
            BY <3>1, <1>2, HandlerFacts
          <5> QED
            BY <5>1, <5>2, <5>3, <4>1, <4>3, <1>3
        <4> QED
          BY <4>2, <4>3, <1>3
      <3> QED
        BY <3>2, <3>3 DEF Chained
    <2>4. Past(r, b, First(writes), carried)
      BY <1>7, <1>3 DEF Past
    <2>5. TypeOK'
      BY <2>1, <1>1, <1>2, <1>3 DEF TypeOK
    <2> QED
      BY <2>1, <2>2, <2>3, <2>4, <2>5, <1>1, <1>6, Steady
  <1> QED
    BY <1>8, <1>9

LEMMA RunDoneKeeps == Inv /\ RunDone => Inv'
  <1> SUFFICES ASSUME Inv, RunDone PROVE Inv'
    OBVIOUS
  <1> USE DEF Inv
  <1> DEFINE c == Head(ready).conn
             r == Tail(ready)
             b == Tail(buffers)
  <1>1. /\ ready # <<>> /\ ready \in Seq(Handler) /\ buffers \in Seq(Buffer)
        /\ buffers' = b
        /\ \/ b # <<>> /\ Write(c, b, r)
           \/ b = <<>> /\ ready' = r /\ UNCHANGED writes
        /\ UNCHANGED <<current, isOpen, sent, carried>>
    <2>1. ready \in Seq(Handler) /\ buffers \in Seq(Buffer)
      BY DEF TypeOK
    <2>2. ready # <<>> /\ buffers' = b /\ UNCHANGED <<current, isOpen, sent, carried>>
      BY DEF RunDone
    <2>3. \/ b # <<>> /\ Write(c, b, r)
          \/ b = <<>> /\ ready' = r /\ UNCHANGED writes
      BY <2>2 DEF RunDone, Write
    <2> QED
      BY <2>1, <2>2, <2>3
  <1>2. /\ 1 \in Dones(ready) /\ ready[1].conn = c /\ c \in Conn /\ r \in Seq(Handler)
    BY <1>1, TailFacts, HandlerFacts DEF RunDone, Dones
  <1>3. writes = <<>> /\ buffers # <<>> /\ \A i \in Dones(ready) : i = 1
    BY <1>2 DEF Single
  <1>4. /\ b \in Seq(Buffer)
        /\ \A i \in DOMAIN b : i \in Nat /\ i + 1 \in DOMAIN buffers /\ b[i] = buffers[i + 1] /\ i + 1 >= 2
    <2>1. b \in Seq(Buffer) /\ \A i \in DOMAIN b : i \in 1..Len(b)
      BY <1>1, <1>3
    <2> QED
      BY <2>1, <1>1, <1>3, TailFacts
  <1>5. /\ \A i \in Dones(r) : i \in Nat /\ i + 1 \in Dones(ready) /\ i \in DOMAIN r /\ i >= 1
        /\ \A i \in Pushes(r) : i \in Nat /\ i + 1 \in Pushes(ready) /\ r[i] = ready[i + 1]
    <2>1. \A i \in Dones(r) : i \in DOMAIN r /\ i >= 1
      BY <1>2 DEF Dones
    <2> QED
      BY <2>1, <1>1, TailHandlers
  <1> HIDE DEF c, r, b
  <1>6. Dones(r) = {}
    BY <1>3, <1>5
  <1>7. Sorted(r, b)
    BY <1>4, <1>5 DEF Sorted
  <1>8. Past(r, b, 1, carried)
    <2>1. First(writes) = 2
      BY <1>3 DEF First
    <2> QED
      BY <2>1, <1>4, <1>5 DEF Past
  <1>9. \A i \in DOMAIN b : c <= b[i].conn
    BY <1>2, <1>4 DEF Chained
  <1>10. CASE b # <<>>
    <2>1. /\ ready' \in Seq(Handler) /\ writes' \in Seq(Written)
          /\ \A i \in DOMAIN writes' : isOpen /\ writes'[i].conn = current
          /\ Single(ready', b, writes')
          /\ Sorted(ready', b)
          /\ Chained(ready', b, writes')
          /\ Past(ready', b, First(writes'), carried)
      BY <1>1, <1>2, <1>3, <1>4, <1>6, <1>7, <1>8, <1>9, <1>10, WriteLinks
    <2>2. TypeOK'
      BY <2>1, <1>1, <1>4 DEF TypeOK, Written
    <2> QED
      BY <2>1, <2>2, <1>1, Steady
  <1>11. CASE b = <<>>
    <2>1. ready' = r /\ writes' = <<>>
      BY <1>1, <1>3, <1>11
    <2>2. Single(r, b, <<>>) /\ Chained(r, b, <<>>)
      BY <1>6, <1>11, NoWrites DEF Single, Chained
    <2>3. Past(r, b, First(<<>>), carried)
      BY <1>8, <1>11, NoWrites DEF Past
    <2>4. TypeOK'
      BY <2>1, <1>1, <1>2, <1>4, NoWrites DEF TypeOK, Written
    <2> QED
      BY <2>1, <2>2, <2>3, <2>4, <1>1, <1>7, Steady
  <1> QED
    BY <1>10, <1>11

LEMMA DrainKeeps == Inv /\ Drain => Inv'
  <1> SUFFICES ASSUME Inv, Drain PROVE Inv'
    OBVIOUS
  <1> USE DEF Inv
  <1> DEFINE w == writes[1]
  <1>1. /\ writes # <<>> /\ writes \in Seq(Written) /\ ready \in Seq(Handler) /\ buffers \in Seq(Buffer)
        /\ UNCHANGED <<current, isOpen, sent, buffers>>
        /\ carried \in [Conn -> Seq(Buffer)]
    BY DEF Drain, TypeOK, Written
  <1>2. writes = <<w>> /\ w \in Written /\ Head(writes) = w
    BY <1>1, OneLong, TailFacts DEF Single
  <1>3. /\ writes' = <<>> /\ ready' = Append(ready, Done(w.conn))
        /\ carried' = [carried EXCEPT ![w.conn] = Append(@, w.buffer)]
    <2>1. Tail(writes) = <<>>
      BY <1>1, OneLong DEF Single
    <2> QED
      BY <1>2, <2>1 DEF Drain
  <1>4. /\ buffers # <<>> /\ w.buffer = buffers[1] /\ w.conn = buffers[1].conn
        /\ ready' \in Seq(Handler) /\ Pushes(ready') = Pushes(ready)
        /\ \A i \in Pushes(ready) : ready'[i] = ready[i]
        /\ Single(ready', buffers, writes')
        /\ Sorted(ready', buffers)
        /\ Chained(ready', buffers, writes')
    BY <1>1, <1>3, WriteEnds
  <1> DEFINE own == w.conn
             e == buffers[1]
             old == carried[own]
             new == Append(old, e)
             n == Len(old) + 1
  <1>5. own \in Conn /\ e \in Buffer /\ e.conn = own /\ old \in Seq(Buffer) /\ 1 \in DOMAIN buffers
    BY <1>1, <1>2, <1>4, TailFacts DEF Written
  <1>6. /\ carried' \in [Conn -> Seq(Buffer)]
        /\ \A c \in Conn : c # own => carried'[c] = carried[c]
        /\ carried'[own] = new
    <2>1. carried' = [carried EXCEPT ![own] = Append(@, e)]
      BY <1>3, <1>4
    <2> QED
      BY <2>1, <1>1, <1>5
  <1>7. /\ new[n] = e /\ n \in Nat
        /\ \A k \in DOMAIN old : k \in Nat /\ k < n /\ new[k] = old[k]
        /\ \A k \in DOMAIN new : k \in DOMAIN old \/ k = n
        /\ \A k \in 1..(n - 1) : k \in DOMAIN old
    <2>1. Len(old) \in Nat /\ DOMAIN old = 1..Len(old)
      BY <1>5
    <2> QED
      BY <2>1, <1>5, AppendFacts
  <1> HIDE DEF w, own, e, old, new, n
  <1>8. TypeOK'
    BY <1>1, <1>3, <1>4, <1>6, NoWrites DEF TypeOK, Written
  <1>9. First(writes) = 1 /\ First(writes') = 2
    BY <1>1, <1>3 DEF First
  <1>10. \A i \in DOMAIN buffers : i \in Nat /\ i >= 1
    BY <1>1
  <1>11. ASSUME NEW c \in Conn, NEW k \in DOMAIN carried'[c]
         PROVE  /\ carried'[c][k].conn = c /\ Posted(carried'[c][k])
                /\ \A j \in 1..(k - 1) : carried'[c][j].no < carried'[c][k].no
                /\ \A i \in Pushes(ready') : Before(carried'[c][k], ready'[i].buffer)
                /\ \A i \in DOMAIN buffers : i >= 2 => Before(carried'[c][k], buffers[i])
    <2>1. CASE c # own
      <3>1. carried'[c] = carried[c] /\ k \in DOMAIN carried[c]
        BY <1>6, <2>1
      <3> QED
        BY <3>1, <1>4, <1>9, <1>10 DEF Past
    <2>2. CASE c = own /\ k \in DOMAIN old
      <3>1. carried'[c][k] = carried[c][k] /\ k \in DOMAIN carried[c] /\ k \in Nat /\ k < n
        BY <1>6, <1>7, <2>2 DEF old
      <3>2. \A j \in 1..(k - 1) : carried'[c][j] = carried[c][j]
        BY <3>1, <1>6, <1>7, <2>2 DEF old
      <3> QED
        BY <3>1, <3>2, <1>4, <1>9, <1>10 DEF Past
    <2>3. CASE c = own /\ k = n
      <3>1. carried'[c][k] = e
        BY <1>6, <1>7, <2>3
      <3>2. \A j \in 1..(k - 1) : carried'[c][j].no < e.no
        <4> SUFFICES ASSUME NEW j \in 1..(k - 1) PROVE carried'[c][j].no < e.no
          OBVIOUS
        <4>1. j \in DOMAIN old /\ carried'[c][j] = old[j]
          BY <1>6, <1>7, <2>3
        <4>2. old[j] \in Buffer /\ old[j].conn = own /\ Before(old[j], e)
          BY <4>1, <1>5, <1>9, <1>10 DEF Past, old, e
        <4> QED
          BY <4>1, <4>2, <1>5, BeforeFacts
      <3>3. Posted(e) /\ \A i \in Pushes(ready) : Before(e, ready[i].buffer)
        BY <1>5 DEF Sorted, e
      <3>4. \A i \in DOMAIN buffers : i >= 2 => Before(e, buffers[i])
        BY <1>5, <1>10 DEF Sorted, e
      <3> QED
        BY <3>1, <3>2, <3>3, <3>4, <1>4, <1>5, <2>3
    <2> QED
      BY <2>1, <2>2, <2>3, <1>6, <1>7
  <1>12. Past(ready', buffers, First(writes'), carried')
    BY <1>9, <1>11 DEF Past
  <1> QED
    BY <1>1, <1>4, <1>8, <1>12, Steady

LEMMA NextInv == Inv /\ [Next]_vars => Inv'
  <1>1. Inv /\ UNCHANGED vars => Inv'
    BY DEF vars, Inv, TypeOK, Single, Sorted, Chained, Past, First, Posted
  <1> QED
    BY <1>1, OpenKeeps, LoseKeeps, SendKeeps, RunPushKeeps, RunDoneKeeps, DrainKeeps DEF Next

LEMMA InvHolds == Spec => []Inv
  BY InitInv, NextInv, PTL DEF Spec

------------------------------------------------------------------------------
(***************************************************************************)
(* Theorems.                                                               *)
(***************************************************************************)
\* Single, counted.
LEMMA CountLinks == Inv => OneChain
  <1> SUFFICES ASSUME Inv PROVE OneChain
    OBVIOUS
  <1> DEFINE links == {i \in DOMAIN ready : ready[i].run = "done"}
  <1>1. links = Dones(ready)
    BY DEF Dones
  <1> HIDE DEF links
  <1>2. writes \in Seq(Written) /\ Len(writes) \in Nat /\ Single(ready, buffers, writes)
    BY DEF Inv, TypeOK, Written
  <1>3. CASE writes # <<>>
    <2>1. links = {} /\ buffers # <<>>
      BY <1>1, <1>2, <1>3 DEF Single
    <2>2. Len(writes) = 1
      BY <1>2, <1>3, OneLong DEF Single
    <2> QED
      BY <2>1, <2>2, FS_EmptySet DEF OneChain, Links, links
  <1>4. CASE writes = <<>> /\ links = {}
    <2>1. buffers = <<>> /\ Len(writes) = 0
      BY <1>1, <1>2, <1>4 DEF Single
    <2> QED
      BY <2>1, <1>4, FS_EmptySet DEF OneChain, Links, links
  <1>5. CASE writes = <<>> /\ links # {}
    <2>1. buffers # <<>> /\ Len(writes) = 0
      BY <1>1, <1>2, <1>5 DEF Single
    <2>2. PICK i : links = {i}
      BY <1>1, <1>2, <1>5 DEF Single
    <2>3. Cardinality(links) = 1
      BY <2>2, FS_Singleton
    <2> QED
      BY <2>1, <2>3 DEF OneChain, Links, links
  <1> QED
    BY <1>3, <1>4, <1>5

\* The shapes of the queue, the handlers and the sockets hold whatever handlers
\* run: io_manager::send, write and write_done on one entry of m_data_queues.
THEOREM TypeCorrect == Spec => []TypeOK
  <1>1. Inv => TypeOK
    BY DEF Inv
  <1> QED
    BY <1>1, InvHolds, PTL

\* However often a peer is lost and comes back, and whatever is queued for it
\* then, write is never called over a write under way, and a queue that is not
\* empty has a write or a write_done to come.
THEOREM ChainCorrect == Spec => []OneChain
  BY CountLinks, InvHolds, PTL

\* What a socket carries was sent to the peer of that connection, in order.
THEOREM OrderCorrect == Spec => []OwnInOrder
  <1>1. Inv => OwnInOrder
    <2> SUFFICES ASSUME Inv, NEW c \in Conn, NEW j \in DOMAIN carried[c]
                 PROVE  /\ carried[c][j].conn = c
                        /\ \A i \in 1..(j - 1) : carried[c][i].no < carried[c][j].no
      BY DEF OwnInOrder
    <2> QED
      BY DEF Inv, Past
  <1> QED
    BY <1>1, InvHolds, PTL

------------------------------------------------------------------------------
(***************************************************************************)
(* The first connection is a stream.  What is added to Inv is that nothing *)
(* sent on it goes missing while it is open: what the socket has not taken *)
(* waits in the queue or to be pushed.                                     *)
(***************************************************************************)
Waits(m) ==
    \/ \E i \in DOMAIN buffers : i >= First(writes) /\ buffers[i].no = m
    \/ \E i \in Pushes(ready) : ready[i].buffer.no = m

Gapless ==
    /\ \A i \in DOMAIN carried[1] : carried[1][i].no = i
    /\ current = 0 => sent[1] = 0
    /\ current = 1 /\ isOpen => \A m \in (Len(carried[1]) + 1)..sent[1] : Waits(m)

LEMMA FirstFacts ==
    /\ 1 \in Conn
    /\ \A c \in Conn : c >= 1
    /\ TypeOK => carried[1] \in Seq(Buffer) /\ Len(carried[1]) \in Nat /\ sent[1] \in Nat /\ current \in Nat
  BY BoundAssumption DEF Conn, TypeOK

LEMMA GaplessInit == Init => Gapless
  <1> SUFFICES ASSUME Init PROVE Gapless
    OBVIOUS
  <1>1. current = 0 /\ sent[1] = 0 /\ carried[1] = <<>>
    BY FirstFacts DEF Init
  <1> QED
    BY <1>1 DEF Gapless

LEMMA GaplessOpen == Inv /\ Gapless /\ Open => Gapless'
  <1> SUFFICES ASSUME Inv, Gapless, Open PROVE Gapless'
    OBVIOUS
  <1>1. /\ current' = current + 1 /\ UNCHANGED <<sent, carried>>
        /\ current \in Nat /\ Len(carried[1]) \in Nat /\ sent[1] \in Nat
    BY FirstFacts DEF Open, Inv
  <1>2. current' # 0
    BY <1>1
  <1>3. \A m \in (Len(carried[1]) + 1)..sent[1] : current' # 1
    BY <1>1 DEF Gapless
  <1> QED
    BY <1>1, <1>2, <1>3 DEF Gapless

LEMMA GaplessLose == Inv /\ Gapless /\ Lose => Gapless'
  BY DEF Lose, Gapless

LEMMA GaplessSend == Inv /\ Gapless /\ Send => Gapless'
  <1> SUFFICES ASSUME Inv, Gapless, Send PROVE Gapless'
    OBVIOUS
  <1> DEFINE it == [conn |-> current, no |-> sent[current] + 1]
  <1>1. /\ current \in Conn /\ current \in Nat /\ current >= 1 /\ current # 0
        /\ sent' = [sent EXCEPT ![current] = @ + 1] /\ ready' = Append(ready, Push(it))
        /\ UNCHANGED <<current, isOpen, buffers, writes, carried>>
        /\ sent \in [Conn -> 0..MaxSent] /\ ready \in Seq(Handler)
        /\ sent[current] + 1 \in 1..MaxSent
    BY FirstFacts, BoundAssumption DEF Send, Inv, TypeOK
  <1>2. it \in Buffer /\ it.no = sent[current] + 1
    BY <1>1 DEF Buffer
  <1> HIDE DEF it
  <1>3. ASSUME current = 1, isOpen, NEW m \in (Len(carried[1]) + 1)..sent'[1]
        PROVE  Waits(m)'
    <2>1. sent'[1] = sent[1] + 1 /\ sent[1] \in Nat /\ Len(carried[1]) \in Nat
      BY <1>1, <1>3, FirstFacts DEF Inv
    <2>2. /\ Pushes(ready') = Pushes(ready) \cup {Len(ready) + 1}
          /\ ready'[Len(ready) + 1].buffer = it
          /\ \A i \in DOMAIN ready : ready'[i] = ready[i]
      BY <1>1, <1>2, AppendPush, HandlerFacts
    <2>3. CASE m = sent[1] + 1
      BY <1>2, <1>3, <2>2, <2>3 DEF Waits
    <2>4. CASE m \in (Len(carried[1]) + 1)..sent[1]
      <3>1. Waits(m)
        BY <2>4, <1>1, <1>3 DEF Gapless
      <3>2. \A i \in Pushes(ready) : i \in Pushes(ready') /\ ready'[i] = ready[i]
        BY <2>2 DEF Pushes
      <3> QED
        BY <3>1, <3>2, <1>1 DEF Waits, First
    <2> QED
      BY <2>1, <2>3, <2>4
  <1> QED
    BY <1>1, <1>3 DEF Gapless

\* While the first connection is open, every write of the chain is its write.
LEMMA FirstWrite ==
    ASSUME current = 1, isOpen, NEW c \in Conn, c <= 1, NEW b, NEW r, Write(c, b, r), writes = <<>>
    PROVE  First(writes') = 1 /\ ready' = r
  <1>1. c = 1
    BY FirstFacts, HandlerFacts
  <1>2. writes' = Append(<<>>, [conn |-> c, buffer |-> Head(b)]) /\ ready' = r
    BY <1>1 DEF Write
  <1> QED
    BY <1>2 DEF First

LEMMA GaplessRunPush == Inv /\ Gapless /\ RunPush => Gapless'
  <1> SUFFICES ASSUME Inv, Gapless, RunPush PROVE Gapless'
    OBVIOUS
  <1> USE DEF Inv
  <1> DEFINE e == Head(ready).buffer
             r == Tail(ready)
             b == Append(buffers, e)
  <1>1. /\ ready # <<>> /\ ready \in Seq(Handler) /\ buffers \in Seq(Buffer)
        /\ buffers' = b
        /\ \/ buffers = <<>> /\ Write(e.conn, b, r)
           \/ buffers # <<>> /\ ready' = r /\ UNCHANGED writes
        /\ UNCHANGED <<current, isOpen, sent, carried>>
    <2>1. ready \in Seq(Handler) /\ buffers \in Seq(Buffer)
      BY DEF TypeOK
    <2>2. ready # <<>> /\ buffers' = b /\ UNCHANGED <<current, isOpen, sent, carried>>
      BY DEF RunPush
    <2>3. \/ buffers = <<>> /\ Write(e.conn, b, r)
          \/ buffers # <<>> /\ ready' = r /\ UNCHANGED writes
      BY <2>2 DEF RunPush, Write
    <2> QED
      BY <2>1, <2>2, <2>3
  <1>2. 1 \in Pushes(ready) /\ ready[1] = Head(ready) /\ e \in Buffer
    BY <1>1, TailFacts, HandlerFacts DEF RunPush, Pushes
  <1>3. /\ b[Len(buffers) + 1] = e /\ Len(buffers) + 1 \in DOMAIN b /\ Len(buffers) \in Nat
        /\ \A i \in DOMAIN buffers : i \in DOMAIN b /\ b[i] = buffers[i]
    BY <1>1, <1>2, AppendFacts
  <1>4. \A i \in Pushes(ready) : i # 1 => i - 1 \in Pushes(r) /\ r[i - 1] = ready[i]
    BY <1>1, TailFacts DEF Pushes
  <1> HIDE DEF e, r, b
  <1>5. ASSUME current = 1, isOpen
        PROVE  ready' = r /\ First(writes') <= First(writes) /\ First(writes') <= Len(buffers) + 1
    <2>1. CASE buffers = <<>>
      <3>1. writes = <<>>
        BY <2>1 DEF Single
      <3>2. e.conn \in Conn /\ e.conn <= 1
        BY <1>2, <1>5, HandlerFacts DEF Sorted, Posted, e
      <3>3. First(writes') = 1 /\ ready' = r
        BY <1>1, <1>5, <2>1, <3>1, <3>2, FirstWrite
      <3> QED
        BY <3>1, <3>3, <1>3 DEF First
    <2>2. CASE buffers # <<>>
      <3>1. Len(buffers) >= 1
        BY <1>1, <2>2
      <3> QED
        BY <1>1, <1>3, <2>2, <3>1 DEF First
    <2> QED
      BY <2>1, <2>2
  <1>6. ASSUME current = 1, isOpen, NEW m \in (Len(carried[1]) + 1)..sent[1]
        PROVE  Waits(m)'
    <2>1. Waits(m)
      BY <1>6 DEF Gapless
    <2>2. CASE \E i \in DOMAIN buffers : i >= First(writes) /\ buffers[i].no = m
      <3>1. PICK i \in DOMAIN buffers : i >= First(writes) /\ buffers[i].no = m
        BY <2>2
      <3>2. i \in Nat /\ First(writes) \in Nat /\ First(writes') \in Nat
        BY <1>1 DEF First
      <3>3. i \in DOMAIN b /\ b[i].no = m /\ i >= First(writes')
        BY <3>1, <3>2, <1>3, <1>5, <1>6
      <3> QED
        BY <3>3, <1>1 DEF Waits
    <2>3. CASE \E i \in Pushes(ready) : ready[i].buffer.no = m
      <3>1. PICK i \in Pushes(ready) : ready[i].buffer.no = m
        BY <2>3
      <3>2. CASE i = 1
        <4>1. e.no = m
          BY <3>1, <3>2, <1>2 DEF e
        <4>2. Len(buffers) + 1 >= First(writes')
          BY <1>3, <1>5, <1>6 DEF First
        <4> QED
          BY <4>1, <4>2, <1>1, <1>3 DEF Waits
      <3>3. CASE i # 1
        BY <3>1, <3>3, <1>4, <1>5, <1>6 DEF Waits
      <3> QED
        BY <3>2, <3>3
    <2> QED
      BY <2>1, <2>2, <2>3 DEF Waits
  <1> QED
    BY <1>1, <1>6 DEF Gapless

LEMMA GaplessRunDone == Inv /\ Gapless /\ RunDone => Gapless'
  <1> SUFFICES ASSUME Inv, Gapless, RunDone PROVE Gapless'
    OBVIOUS
  <1> USE DEF Inv
  <1> DEFINE c == Head(ready).conn
             r == Tail(ready)
             b == Tail(buffers)
  <1>1. /\ ready # <<>> /\ ready \in Seq(Handler) /\ buffers \in Seq(Buffer)
        /\ buffers' = b
        /\ \/ b # <<>> /\ Write(c, b, r)
           \/ b = <<>> /\ ready' = r /\ UNCHANGED writes
        /\ UNCHANGED <<current, isOpen, sent, carried>>
    <2>1. ready \in Seq(Handler) /\ buffers \in Seq(Buffer)
      BY DEF TypeOK
    <2>2. ready # <<>> /\ buffers' = b /\ UNCHANGED <<current, isOpen, sent, carried>>
      BY DEF RunDone
    <2>3. \/ b # <<>> /\ Write(c, b, r)
          \/ b = <<>> /\ ready' = r /\ UNCHANGED writes
      BY <2>2 DEF RunDone, Write
    <2> QED
      BY <2>1, <2>2, <2>3
  <1>2. 1 \in Dones(ready) /\ 1 \notin Pushes(ready) /\ ready[1] = Head(ready) /\ c \in Conn
    BY <1>1, TailFacts, HandlerFacts DEF RunDone, Dones, Pushes
  <1>3. writes = <<>> /\ buffers # <<>>
    BY <1>2 DEF Single
  <1>4. /\ b \in Seq(Buffer)
        /\ \A i \in DOMAIN buffers : i \in Nat /\ (i # 1 => i - 1 \in DOMAIN b /\ b[i - 1] = buffers[i])
        /\ \A i \in DOMAIN b : i \in Nat /\ i >= 1 /\ i + 1 \in DOMAIN buffers /\ b[i] = buffers[i + 1]
    <2>1. b \in Seq(Buffer) /\ \A i \in DOMAIN b : i \in 1..Len(b)
      BY <1>1, <1>3
    <2> QED
      BY <2>1, <1>1, <1>3, TailFacts
  <1>5. \A i \in Pushes(ready) : i - 1 \in Pushes(r) /\ r[i - 1] = ready[i]
    BY <1>1, <1>2, TailFacts DEF Pushes
  <1>6. \A i \in DOMAIN buffers : c <= buffers[i].conn /\ buffers[i].conn <= current /\ buffers[i].conn \in Nat
    BY <1>1, <1>2, HandlerFacts DEF Chained, Sorted, Posted
  <1> HIDE DEF c, r, b
  <1>7. ASSUME current = 1, isOpen
        PROVE  ready' = r /\ (b # <<>> => First(writes') = 1)
    <2>1. CASE b # <<>>
      <3>1. 1 \in DOMAIN b
        BY <1>4, <2>1, TailFacts
      <3>2. c <= 1
        BY <3>1, <1>2, <1>4, <1>6, <1>7, HandlerFacts
      <3> QED
        BY <3>2, <2>1, <1>1, <1>2, <1>3, <1>7, FirstWrite
    <2>2. CASE b = <<>>
      BY <2>2, <1>1
    <2> QED
      BY <2>1, <2>2
  <1>8. ASSUME current = 1, isOpen, NEW m \in (Len(carried[1]) + 1)..sent[1]
        PROVE  Waits(m)'
    <2>1. Waits(m)
      BY <1>8 DEF Gapless
    <2>2. CASE \E i \in DOMAIN buffers : i >= First(writes) /\ buffers[i].no = m
      <3>1. PICK i \in DOMAIN buffers : i >= 2 /\ buffers[i].no = m
        BY <2>2, <1>3 DEF First
      <3>2. i \in Nat /\ i - 1 \in DOMAIN b /\ b[i - 1].no = m /\ i - 1 >= 1
        BY <3>1, <1>4
      <3>3. b # <<>>
        BY <3>2
      <3> QED
        BY <3>2, <3>3, <1>1, <1>7, <1>8 DEF Waits
    <2>3. CASE \E i \in Pushes(ready) : ready[i].buffer.no = m
      BY <2>3, <1>5, <1>7, <1>8 DEF Waits
    <2> QED
      BY <2>1, <2>2, <2>3 DEF Waits
  <1> QED
    BY <1>1, <1>8 DEF Gapless

\* A buffer the first connection takes is the one after the last it took.
LEMMA GaplessDrain ==
    ASSUME Inv, Gapless, Drain
    PROVE  /\ Gapless'
           /\ \/ UNCHANGED <<sent, carried[1]>>
              \/ /\ Len(carried[1]) < sent[1] /\ UNCHANGED sent
                 /\ carried'[1] = Append(carried[1], [conn |-> 1, no |-> Len(carried[1]) + 1])
  <1> USE DEF Inv
  <1> DEFINE w == writes[1]
             n == Len(carried[1])
  <1>1. /\ writes # <<>> /\ writes \in Seq(Written) /\ ready \in Seq(Handler) /\ buffers \in Seq(Buffer)
        /\ UNCHANGED <<current, isOpen, sent, buffers>>
        /\ carried \in [Conn -> Seq(Buffer)]
        /\ \A i \in DOMAIN writes : isOpen /\ writes[i].conn = current
    BY DEF Drain, TypeOK, Written
  <1>2. writes = <<w>> /\ w \in Written /\ Head(writes) = w /\ 1 \in DOMAIN writes /\ Tail(writes) = <<>>
    BY <1>1, OneLong, TailFacts DEF Single
  <1>3. /\ writes' = <<>> /\ ready' = Append(ready, Done(w.conn))
        /\ carried' = [carried EXCEPT ![w.conn] = Append(@, w.buffer)]
    BY <1>2 DEF Drain
  <1>4. /\ buffers # <<>> /\ w.buffer = buffers[1] /\ w.conn = buffers[1].conn
        /\ Pushes(ready') = Pushes(ready)
        /\ \A i \in Pushes(ready) : ready'[i] = ready[i]
    BY <1>1, <1>3, WriteEnds
  <1>5. /\ isOpen /\ w.conn = current /\ w.conn \in Conn /\ w.buffer \in Buffer /\ 1 \in DOMAIN buffers
        /\ current \in Nat /\ current # 0
    BY <1>1, <1>2, <1>4, TailFacts, FirstFacts DEF Written
  <1>6. carried[1] \in Seq(Buffer) /\ n \in Nat /\ sent[1] \in Nat /\ 1 \in Conn
    BY FirstFacts
  <1> HIDE DEF w, n
  <1>7. CASE current # 1
    <2>1. carried'[1] = carried[1]
      BY <1>1, <1>3, <1>5, <1>6, <1>7
    <2> QED
      BY <2>1, <1>1, <1>5, <1>7 DEF Gapless
  <1>8. CASE current = 1
    <2> DEFINE e == buffers[1]
    <2>1. e \in Buffer /\ e.conn = 1 /\ e.no \in Nat /\ e.no >= 1 /\ e.no <= sent[1]
      <3>1. e \in Buffer /\ e.conn = 1 /\ Posted(e)
        BY <1>4, <1>5, <1>8 DEF Sorted
      <3>2. e.no \in 1..MaxSent
        BY <3>1, HandlerFacts
      <3> QED
        BY <3>1, <3>2, BoundAssumption DEF Posted
    <2> HIDE DEF e
    <2>2. carried'[1] = Append(carried[1], e)
      BY <1>1, <1>3, <1>4, <1>6, <1>8, <1>5 DEF e
    <2>3. e.no > n
      <3>1. CASE n = 0
        BY <3>1, <2>1
      <3>2. CASE n # 0
        <4>1. n \in DOMAIN carried[1]
          BY <1>6, <3>2 DEF n
        <4>2. First(writes) = 1
          BY <1>1 DEF First
        <4>3. Before(carried[1][n], e)
          BY <4>1, <4>2, <1>5, <1>6 DEF Past, e
        <4>4. carried[1][n] \in Buffer /\ carried[1][n].conn = 1 /\ carried[1][n].no = n
          BY <4>1, <1>6 DEF Past, Gapless
        <4> QED
          BY <4>3, <4>4, <2>1, BeforeFacts
      <3> QED
        BY <3>1, <3>2
    <2>4. n + 1 \in (n + 1)..sent[1]
      BY <2>1, <2>3, <1>6
    <2>5. Waits(n + 1)
      BY <2>4, <1>5, <1>8 DEF Gapless, n
    <2>6. e.no = n + 1
      <3>1. CASE \E i \in DOMAIN buffers : buffers[i].no = n + 1
        <4>1. PICK i \in DOMAIN buffers : buffers[i].no = n + 1
          BY <3>1
        <4>2. i \in Nat /\ i >= 1 /\ buffers[i] \in Buffer
          BY <1>1
        <4>3. CASE i # 1
          <5>1. Before(e, buffers[i]) /\ buffers[i].conn <= 1 /\ buffers[i].conn \in Nat
            BY <4>1, <4>2, <4>3, <1>5, <1>8, HandlerFacts DEF Sorted, Posted, e
          <5>2. buffers[i].conn = 1
            BY <5>1, <4>2, HandlerFacts, FirstFacts
          <5>3. e.no < buffers[i].no
            BY <5>1, <5>2, <4>2, <2>1, BeforeFacts
          <5> QED
            BY <5>3, <4>1, <2>1, <2>3, <1>6
        <4> QED
          BY <4>1, <4>3 DEF e
      <3>2. CASE \E i \in Pushes(ready) : ready[i].buffer.no = n + 1
        <4>1. PICK i \in Pushes(ready) : ready[i].buffer.no = n + 1
          BY <3>2
        <4>2. ready[i].buffer \in Buffer
          BY <1>1, PushedBuffers
        <4>3. Before(e, ready[i].buffer) /\ ready[i].buffer.conn <= 1 /\ ready[i].buffer.conn \in Nat
          BY <4>1, <4>2, <1>5, <1>8, HandlerFacts DEF Sorted, Posted, e
        <4>4. ready[i].buffer.conn = 1
          BY <4>2, <4>3, HandlerFacts, FirstFacts
        <4>5. e.no < ready[i].buffer.no
          BY <4>3, <4>4, <4>2, <2>1, BeforeFacts
        <4> QED
          BY <4>5, <4>1, <2>1, <2>3, <1>6
      <3> QED
        BY <2>5, <3>1, <3>2 DEF Waits
    <2>7. e = [conn |-> 1, no |-> n + 1]
      BY <2>1, <2>6 DEF Buffer
    <2>8. \A i \in DOMAIN carried'[1] : carried'[1][i].no = i
      BY <2>1, <2>2, <2>6, <1>6 DEF Gapless, n
    <2>9. Len(carried'[1]) = n + 1
      BY <2>1, <2>2, <1>6 DEF n
    <2>10. ASSUME NEW m \in (n + 2)..sent[1]
           PROVE  Waits(m)'
      <3>1. m \in (n + 1)..sent[1] /\ m # n + 1
        BY <1>6
      <3>2. Waits(m)
        BY <3>1, <1>5, <1>8 DEF Gapless, n
      <3>3. First(writes') = 2
        BY <1>3 DEF First
      <3>4. \A i \in DOMAIN buffers : buffers[i].no = m => i >= 2
        BY <3>1, <2>6, <1>1 DEF e
      <3> QED
        BY <3>2, <3>3, <3>4, <1>1, <1>4 DEF Waits
    <2>11. \A m \in (Len(carried'[1]) + 1)..sent'[1] : Waits(m)'
      BY <2>9, <2>10, <1>1, <1>6
    <2>12. Gapless'
      BY <2>8, <2>11, <1>1, <1>5 DEF Gapless
    <2> QED
      BY <2>2, <2>4, <2>7, <2>12, <1>1, <1>6, <2>1, <2>6 DEF n
  <1> QED
    BY <1>7, <1>8

LEMMA GaplessNext == Inv /\ Gapless /\ [Next]_vars => Gapless'
  <1>1. Gapless /\ UNCHANGED vars => Gapless'
    BY DEF vars, Gapless, Waits, First
  <1> QED
    BY <1>1, GaplessOpen, GaplessLose, GaplessSend, GaplessRunPush, GaplessRunDone, GaplessDrain DEF Next

\* What is sent on the first connection, as Stream sees it.
LEMMA FirstSentSteps ==
    ASSUME Inv
    PROVE  /\ FirstSent \in Seq(Buffer) /\ Len(FirstSent) = sent[1]
           /\ \A i \in 1..sent[1] : FirstSent[i] = [conn |-> 1, no |-> i]
           /\ Send => \/ UNCHANGED FirstSent
                      \/ \E m \in Buffer : FirstSent' = Append(FirstSent, m)
  <1>1. sent \in [Conn -> 0..MaxSent] /\ 1 \in Conn /\ sent[1] \in Nat
    BY FirstFacts DEF Inv, TypeOK
  <1>2. \A i \in 1..MaxSent : [conn |-> 1, no |-> i] \in Buffer
    BY <1>1 DEF Buffer
  <1>3. \A i \in 1..sent[1] : i \in 1..MaxSent
    BY <1>1, BoundAssumption
  <1>4. FirstSent \in Seq(Buffer) /\ Len(FirstSent) = sent[1]
    BY <1>1, <1>2, <1>3 DEF FirstSent
  <1>5. ASSUME Send, current = 1
        PROVE  \E m \in Buffer : FirstSent' = Append(FirstSent, m)
    <2> DEFINE m == [conn |-> 1, no |-> sent[1] + 1]
    <2>1. sent'[1] = sent[1] + 1 /\ sent[1] + 1 \in 1..MaxSent
      BY <1>1, <1>5, BoundAssumption DEF Send
    <2>2. m \in Buffer
      BY <2>1, <1>2
    <2>3. FirstSent' = [i \in 1..(sent[1] + 1) |-> [conn |-> 1, no |-> i]]
      BY <2>1 DEF FirstSent
    <2>4. FirstSent' = Append(FirstSent, m)
      <3>1. FirstSent' \in Seq(Buffer) /\ Len(FirstSent') = sent[1] + 1
        BY <2>1, <2>3, <1>1, <1>2, BoundAssumption
      <3>2. /\ Append(FirstSent, m) \in Seq(Buffer) /\ Len(Append(FirstSent, m)) = sent[1] + 1
            /\ Append(FirstSent, m)[sent[1] + 1] = m
            /\ \A i \in 1..sent[1] : Append(FirstSent, m)[i] = FirstSent[i]
        BY <1>1, <1>4, <2>2
      <3>3. \A i \in 1..sent[1] : FirstSent[i] = [conn |-> 1, no |-> i]
        BY DEF FirstSent
      <3>4. \A i \in 1..(sent[1] + 1) : FirstSent'[i] = Append(FirstSent, m)[i]
        <4>1. \A i \in 1..(sent[1] + 1) : FirstSent'[i] = [conn |-> 1, no |-> i]
          BY <2>3
        <4>2. \A i \in 1..(sent[1] + 1) : i \in 1..sent[1] \/ i = sent[1] + 1
          BY <1>1
        <4> HIDE DEF m
        <4>3. \A i \in 1..sent[1] : i \in 1..(sent[1] + 1)
          BY <1>1
        <4>4. \A i \in 1..sent[1] : FirstSent'[i] = Append(FirstSent, m)[i]
          BY <3>2, <3>3, <4>1, <4>3
        <4>5. sent[1] + 1 \in 1..(sent[1] + 1)
          BY <1>1
        <4>6. FirstSent'[sent[1] + 1] = m
          BY <4>1, <4>5 DEF m
        <4> QED
          BY <3>2, <4>2, <4>4, <4>6
      <3> QED
        BY <3>1, <3>2, <3>4
    <2> QED
      BY <2>2, <2>4
  <1>6. ASSUME Send, current # 1
        PROVE  UNCHANGED FirstSent
    <2>1. sent'[1] = sent[1]
      BY <1>1, <1>6, FirstFacts DEF Send, Inv, TypeOK
    <2> QED
      BY <2>1 DEF FirstSent
  <1> QED
    BY <1>4, <1>5, <1>6 DEF FirstSent

\* Up to its loss, and whatever becomes of the peer and its queue later, the first
\* connection with a peer delivers what was sent on it as Stream does: whole, in
\* order and without a gap (send, write, write_done, process_connected_peer).
THEOREM FirstConnectionIsStream == Spec => FirstIsStream
  <1> DEFINE view == <<FirstSent, carried[1]>>
  <1>1. Init => FirstConnection!Init
    <2> SUFFICES ASSUME Init PROVE FirstConnection!Init
      OBVIOUS
    <2>1. sent[1] = 0 /\ carried[1] = <<>>
      BY FirstFacts DEF Init
    <2> QED
      BY <2>1 DEF FirstConnection!Init, FirstSent
  <1>2. Inv /\ Gapless /\ [Next]_vars => [FirstConnection!Next]_view
    <2> SUFFICES ASSUME Inv, Gapless, [Next]_vars PROVE [FirstConnection!Next]_view
      OBVIOUS
    <2>1. CASE UNCHANGED <<sent, carried>>
      BY <2>1 DEF FirstSent
    <2>2. CASE Send
      <3>1. UNCHANGED carried[1]
        BY <2>2 DEF Send
      <3> QED
        BY <3>1, <2>2, FirstSentSteps DEF FirstConnection!Next, FirstConnection!Send
    <2>3. CASE Drain
      <3>1. CASE UNCHANGED <<sent, carried[1]>>
        BY <3>1 DEF FirstSent
      <3>2. CASE /\ Len(carried[1]) < sent[1] /\ UNCHANGED sent
                 /\ carried'[1] = Append(carried[1], [conn |-> 1, no |-> Len(carried[1]) + 1])
        <4>1. Len(carried[1]) \in Nat /\ sent[1] \in Nat
          BY FirstFacts DEF Inv
        <4>2. Len(carried[1]) + 1 \in 1..sent[1]
          BY <3>2, <4>1
        <4>3. FirstSent[Len(carried[1]) + 1] = [conn |-> 1, no |-> Len(carried[1]) + 1]
          BY <4>2, FirstSentSteps
        <4>4. Len(FirstSent) = sent[1] /\ UNCHANGED FirstSent
          BY <3>2, FirstSentSteps DEF FirstSent
        <4> QED
          BY <3>2, <4>3, <4>4 DEF FirstConnection!Next, FirstConnection!Receive
      <3> QED
        BY <2>3, <3>1, <3>2, GaplessDrain
    <2> QED
      BY <2>1, <2>2, <2>3 DEF Next, Open, Lose, RunPush, RunDone, vars
  <1> QED
    BY <1>1, <1>2, InitInv, NextInv, GaplessInit, GaplessNext, PTL DEF Spec, FirstIsStream, FirstConnection!Spec
=============================================================================
