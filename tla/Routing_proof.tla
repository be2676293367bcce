---------------------------- MODULE Routing_proof ----------------------------
(***************************************************************************)
(* Where the data of PeerManager goes.  A private message is at one place  *)
(* at a time, on a connection or with the listeners, and nowhere before it *)
(* is sent (Unique): whatever paths, bridges and dead pointers it meets,   *)
(* whoever leaves or dies, it is handed over once.                         *)
(*                                                                         *)
(* Where every instance can reach and accepts every other and nobody goes, *)
(* connections are only ever added, in pairs.  No dial fails, so there is  *)
(* nothing to bridge (Plain), and data comes straight from its sender, in  *)
(* order (Orderly).                                                        *)
(*                                                                         *)
(* Where some cannot reach others, bridges are made and undone in pairs    *)
(* (Paired), as a pointer leads to a peer that is known, or to one that    *)
(* died and does not come back (Points).                                   *)
(***************************************************************************)
EXTENDS Connections_proof

\* A private message is told by its sender and its number.
Private(m, s, k) == m.cmd = "send_to" /\ m.sender = s /\ m.no = k
Given(d, s, k)   == ~d.toAll /\ d.origin = s /\ d.no = k

\* A queue has it, and not twice.
Holds(q, s, k)  == \E i \in DOMAIN q : Private(q[i], s, k)
Single(q, s, k) == \A i, j \in DOMAIN q : Private(q[i], s, k) /\ Private(q[j], s, k) => i = j

Alone(ch, s, k) ==
    /\ \A x, y \in Peer : Single(ch[x][y], s, k)
    /\ \A x, y, u, v \in Peer : Holds(ch[x][y], s, k) /\ Holds(ch[u][v], s, k) => x = u /\ y = v
Nowhere(ch, s, k) == \A x, y \in Peer : ~Holds(ch[x][y], s, k)
NotGiven(s, k) == \A n \in Peer : \A i \in DOMAIN inbox[n] : ~Given(inbox[n][i], s, k)

Unique(s, k) ==
    /\ Alone(chan, s, k)
    /\ Nowhere(chan, s, k) \/ NotGiven(s, k)
    /\ \A n, o \in Peer : \A i \in DOMAIN inbox[n] : \A j \in DOMAIN inbox[o] :
         Given(inbox[n][i], s, k) /\ Given(inbox[o][j], s, k) => n = o /\ i = j
    /\ k > sent[s] => Nowhere(chan, s, k) /\ NotGiven(s, k)

UniqueInv == ConnInv /\ \A s \in Peer, k \in 1..MaxSent : Unique(s, k)

------------------------------------------------------------------------------
(***************************************************************************)
(* Queues that lose or repeat nothing.                                     *)
(***************************************************************************)
Thin(r, q, s, k) == (Holds(r, s, k) => Holds(q, s, k)) /\ (Single(q, s, k) => Single(r, s, k))

\* Anything but a private message, or the end of a stream.
Public == {m \in Command : m.cmd \notin {"eof", "send_to"}}

LEMMA PublicSeq == Seq(Public) \subseteq Seq(Sendable)
  <1> SUFFICES ASSUME NEW q \in Seq(Public) PROVE q \in Seq(Sendable)
    OBVIOUS
  <1>1. Len(q) \in Nat /\ q \in [1..Len(q) -> Public]
    OBVIOUS
  <1>2. q \in [1..Len(q) -> Sendable]
    BY <1>1 DEF Public, Sendable
  <1> QED
    BY <1>1, <1>2

\* A queue with more behind it.
LEMMA ConcatFacts ==
    ASSUME NEW q \in Seq(Command), NEW o \in Seq(Command)
    PROVE  /\ q \o o \in Seq(Command)
           /\ \A i \in DOMAIN (q \o o) :
                \/ i \in DOMAIN q /\ (q \o o)[i] = q[i]
                \/ i - Len(q) \in DOMAIN o /\ (q \o o)[i] = o[i - Len(q)]
           /\ \A i \in DOMAIN q : i \in DOMAIN (q \o o) /\ (q \o o)[i] = q[i]
           /\ Len(q) \in Nat /\ DOMAIN q \subseteq 1..Len(q)
  <1>1. /\ Len(q) \in Nat /\ Len(o) \in Nat /\ DOMAIN q = 1..Len(q) /\ DOMAIN o = 1..Len(o)
        /\ q \o o \in Seq(Command) /\ Len(q \o o) = Len(q) + Len(o)
        /\ DOMAIN (q \o o) = 1..(Len(q) + Len(o))
    BY ConcatProperties, LenProperties
  <1>2. \A i \in 1..(Len(q) + Len(o)) :
          (q \o o)[i] = IF i <= Len(q) THEN q[i] ELSE o[i - Len(q)]
    BY ConcatProperties
  <1>3. \A k, m \in Nat : /\ \A i \in 1..(k + m) : (i <= k => i \in 1..k) /\ (~(i <= k) => i - k \in 1..m)
                          /\ \A i \in 1..k : i \in 1..(k + m) /\ i <= k
    OBVIOUS
  <1> QED
    BY <1>1, <1>2, <1>3

LEMMA ThinConcat ==
    ASSUME NEW q \in Seq(Command), NEW o \in Seq(Command), NEW s, NEW k, ~Holds(o, s, k)
    PROVE  Thin(q \o o, q, s, k)
  <1> DEFINE r == q \o o
  <1>1. \A i \in DOMAIN r : Private(r[i], s, k) => i \in DOMAIN q /\ r[i] = q[i]
    BY ConcatFacts DEF Holds
  <1> HIDE DEF r
  <1>2. Thin(r, q, s, k)
    BY <1>1 DEF Thin, Holds, Single
  <1> QED
    BY <1>2 DEF r

\* The message that is put behind.
LEMMA ConcatOne ==
    ASSUME NEW q \in Seq(Command), NEW m \in Command, NEW s, NEW k, ~Holds(q, s, k)
    PROVE  Single(q \o <<m>>, s, k)
  <1> DEFINE o == <<m>>
             r == q \o o
  <1>1. o \in Seq(Command) /\ Len(o) = 1 /\ DOMAIN o = 1..1
    OBVIOUS
  <1>2. \A i \in DOMAIN r : Private(r[i], s, k) => i - Len(q) \in 1..1
    BY <1>1, ConcatFacts DEF Holds
  <1>3. r \in Seq(Command) /\ Len(q) \in Nat /\ Len(r) \in Nat /\ DOMAIN r = 1..Len(r)
    BY <1>1
  <1> HIDE DEF r, o
  <1>4. \A a, b, n \in Nat : a - n \in 1..1 /\ b - n \in 1..1 => a = b
    OBVIOUS
  <1>5. \A i \in DOMAIN r : i \in Nat
    BY <1>3
  <1>6. Single(r, s, k)
    BY <1>2, <1>3, <1>4, <1>5 DEF Single
  <1> QED
    BY <1>6 DEF r, o

LEMMA ThinTail ==
    ASSUME NEW q \in Seq(Command), q # <<>>, NEW s, NEW k
    PROVE  /\ Thin(Tail(q), q, s, k)
           /\ Private(Head(q), s, k) => Holds(q, s, k) /\ (Single(q, s, k) => ~Holds(Tail(q), s, k))
  <1> DEFINE r == Tail(q)
  <1>1. /\ Len(q) \in Nat /\ DOMAIN r = 1..(Len(q) - 1)
        /\ \A i \in DOMAIN r : i + 1 \in DOMAIN q /\ r[i] = q[i + 1]
    BY TailFacts
  <1>2. Head(q) = q[1] /\ 1 \in DOMAIN q
    OBVIOUS
  <1> HIDE DEF r
  <1>3. \A i \in DOMAIN r : i \in Nat /\ i + 1 # 1
    BY <1>1
  <1>4. \A i, j \in Nat : i + 1 = j + 1 => i = j
    OBVIOUS
  <1>5. Holds(r, s, k) => Holds(q, s, k)
    BY <1>1 DEF Holds
  <1>6. ASSUME Single(q, s, k), NEW i \in DOMAIN r, NEW j \in DOMAIN r, Private(r[i], s, k), Private(r[j], s, k)
        PROVE  i = j
    <2>1. i + 1 = j + 1
      BY <1>1, <1>6 DEF Single
    <2> QED
      BY <1>3, <1>4, <2>1
  <1>7. ASSUME Single(q, s, k), Private(Head(q), s, k), NEW i \in DOMAIN r, Private(r[i], s, k)
        PROVE  FALSE
    <2>1. i + 1 = 1
      BY <1>1, <1>2, <1>7 DEF Single
    <2> QED
      BY <1>3, <2>1
  <1>8. Thin(r, q, s, k)
    BY <1>5, <1>6 DEF Thin, Single
  <1>9. Private(Head(q), s, k) => Holds(q, s, k)
    BY <1>2 DEF Holds
  <1>10. Private(Head(q), s, k) /\ Single(q, s, k) => ~Holds(r, s, k)
    BY <1>7 DEF Holds
  <1> QED
    BY <1>8, <1>9, <1>10 DEF r

LEMMA ThinEmpty ==
    ASSUME NEW q, NEW s, NEW k
    PROVE  Thin(<<>>, q, s, k) /\ Thin(q, q, s, k)
  BY DEF Thin, Holds, Single

------------------------------------------------------------------------------
(***************************************************************************)
(* Channels.                                                               *)
(***************************************************************************)
ThinLines(new, old, s, k) == \A x, y \in Peer : Thin(new[x][y], old[x][y], s, k)

LEMMA ThinAlone ==
    ASSUME NEW new, NEW old, NEW s, NEW k, ThinLines(new, old, s, k)
    PROVE  (Alone(old, s, k) => Alone(new, s, k)) /\ (Nowhere(old, s, k) => Nowhere(new, s, k))
  BY DEF ThinLines, Thin, Alone, Nowhere

LEMMA ThinTwice ==
    ASSUME NEW a, NEW b, NEW c, NEW s, NEW k, ThinLines(a, b, s, k), ThinLines(b, c, s, k)
    PROVE  ThinLines(a, c, s, k)
  BY DEF ThinLines, Thin

LEMMA TakenThin ==
    ASSUME chan \in Chans, NEW a \in Peer, NEW b \in Peer, chan[a][b] # <<>>, NEW s, NEW k
    PROVE  ThinLines(Taken(a, b), chan, s, k)
  <1>1. \A x, y \in Peer : Taken(a, b)[x][y] = IF x = a /\ y = b THEN Tail(chan[a][b]) ELSE chan[x][y]
    BY DEF Taken, Chans
  <1>2. Thin(Tail(chan[a][b]), chan[a][b], s, k)
    BY ThinTail DEF Chans
  <1>3. \A x, y \in Peer : Thin(chan[x][y], chan[x][y], s, k)
    BY ThinEmpty
  <1> QED
    BY <1>1, <1>2, <1>3 DEF ThinLines

\* What is sent does not have the message.
LEMMA PostThin ==
    ASSUME NEW ch \in Chans, NEW n \in Peer, NEW out \in Outs, NEW s, NEW k,
           \A p \in Peer : ~Holds(out[p], s, k)
    PROVE  ThinLines(Post(ch, n, out), ch, s, k)
  <1>1. \A x, y \in Peer :
          Post(ch, n, out)[x][y] = IF x = n /\ Linked(n, y) THEN ch[x][y] \o out[y] ELSE ch[x][y]
    BY DEF Post, Chans
  <1>2. \A x, y \in Peer : ch[x][y] \in Seq(Command) /\ out[y] \in Seq(Command)
    BY SendableSeq DEF Chans, Outs
  <1>3. ASSUME NEW x \in Peer, NEW y \in Peer PROVE Thin(ch[x][y] \o out[y], ch[x][y], s, k)
    <2> DEFINE q == ch[x][y]
               o == out[y]
    <2>1. q \in Seq(Command) /\ o \in Seq(Command) /\ ~Holds(o, s, k)
      BY <1>2
    <2> HIDE DEF q, o
    <2>2. Thin(q \o o, q, s, k)
      BY <2>1, ThinConcat
    <2> QED
      BY <2>2 DEF q, o
  <1>4. \A x, y \in Peer : Thin(ch[x][y], ch[x][y], s, k)
    BY ThinEmpty
  <1> QED
    BY <1>1, <1>3, <1>4 DEF ThinLines

\* Nothing private is added to a queue that ends.
LEMMA ThinEnding ==
    ASSUME NEW q \in Seq(Command), NEW last \in Endings(q), NEW s, NEW k
    PROVE  Thin(last, q, s, k)
  <1>1. PICK told \in Seq(Command) :
          /\ last = Append(told, Eof) /\ Len(told) <= Len(q)
          /\ \A i \in 1..Len(told) : told[i] = q[i]
    BY EndingsTold
  <1>2. DOMAIN told = 1..Len(told) /\ DOMAIN q = 1..Len(q) /\ Len(told) \in Nat /\ Len(q) \in Nat
    BY LenProperties
  <1>3. \A i \in DOMAIN told : i \in DOMAIN q /\ told[i] = q[i]
    BY <1>1, <1>2
  <1>4. Thin(told, q, s, k)
    BY <1>3 DEF Thin, Holds, Single
  <1>5. Thin(Append(told, Eof), told, s, k)
    <2>1. Eof \in Command
      BY Commands
    <2>2. ~Holds(<<Eof>>, s, k)
      BY DEF Holds, Private, Eof
    <2>3. Append(told, Eof) = told \o <<Eof>> /\ <<Eof>> \in Seq(Command)
      BY <2>1
    <2> QED
      BY <2>2, <2>3, ThinConcat
  <1> QED
    BY <1>1, <1>4, <1>5 DEF Thin

LEMMA CloseThin ==
    ASSUME chan \in Chans, NEW n \in Peer, CloseAll(n), NEW s, NEW k
    PROVE  ThinLines(chan', chan, s, k)
  <1>1. \A x, y \in Peer :
          \/ chan'[x][y] = <<>>
          \/ x = n /\ chan'[x][y] \in Endings(chan[n][y])
          \/ chan'[x][y] = chan[x][y]
    BY ClosedLines, Zenon
  <1>2. \A x, y \in Peer : Thin(<<>>, chan[x][y], s, k) /\ Thin(chan[x][y], chan[x][y], s, k)
    BY ThinEmpty
  <1>3. ASSUME NEW y \in Peer, NEW last \in Endings(chan[n][y])
        PROVE  Thin(last, chan[n][y], s, k)
    <2>1. chan[n][y] \in Seq(Command)
      BY DEF Chans
    <2> QED
      BY <2>1, ThinEnding
  <1> QED
    BY <1>1, <1>2, <1>3, Zenon DEF ThinLines

LEMMA TimeoutThin ==
    ASSUME chan \in Chans, NEW n \in Peer, NEW p \in Peer, n # p, Timeout(n, p), NEW s, NEW k
    PROVE  ThinLines(chan', chan, s, k)
  <1>1. PICK e \in IF <<p, n>> \in open THEN Endings(chan[n][p]) ELSE {chan[n][p]} :
          chan' = [chan EXCEPT ![p][n] = <<>>, ![n][p] = e]
    BY DEF Timeout
  <1>2. \A x, y \in Peer : chan'[x][y] = IF x = p /\ y = n THEN <<>>
                                        ELSE IF x = n /\ y = p THEN e ELSE chan[x][y]
    BY <1>1 DEF Chans
  <1>3. \A x, y \in Peer : Thin(<<>>, chan[x][y], s, k) /\ Thin(chan[x][y], chan[x][y], s, k)
    BY ThinEmpty
  <1>4. Thin(e, chan[n][p], s, k)
    <2>1. chan[n][p] \in Seq(Command)
      BY DEF Chans
    <2>2. e \in Endings(chan[n][p]) \/ e = chan[n][p]
      BY <1>1
    <2> QED
      BY <1>3, <2>1, <2>2, ThinEnding
  <1> QED
    BY <1>2, <1>3, <1>4 DEF ThinLines

\* What one instance sends to another that nobody has yet is in one queue.
LEMMA PostAlone ==
    ASSUME NEW ch \in Chans, NEW n \in Peer, NEW h \in SUBSET Peer, \A x, y \in h : x = y,
           NEW m \in Sendable, NEW s, NEW k, Nowhere(ch, s, k)
    PROVE  Alone(Post(ch, n, To(h, <<m>>)), s, k)
  <1> DEFINE new == Post(ch, n, To(h, <<m>>))
  <1>1. \A x, y \in Peer : ch[x][y] \in Seq(Command) /\ ch[x][y] \o <<>> = ch[x][y]
    BY DEF Chans
  <1>2. \A x, y \in Peer :
          new[x][y] = IF x = n /\ Linked(n, y) /\ y \in h THEN ch[x][y] \o <<m>> ELSE ch[x][y]
    BY <1>1 DEF Post, To, Chans
  <1> HIDE DEF new
  <1>3. \A x, y \in Peer : Single(ch[x][y] \o <<m>>, s, k)
    BY <1>1, ConcatOne DEF Nowhere, Sendable
  <1>4. \A x, y \in Peer : Single(new[x][y], s, k)
    <2>1. \A x, y \in Peer : Single(ch[x][y], s, k)
      BY DEF Nowhere, Holds, Single
    <2> QED
      BY <1>2, <1>3, <2>1
  <1>5. \A x, y \in Peer : Holds(new[x][y], s, k) => x = n /\ y \in h
    BY <1>2 DEF Nowhere
  <1>6. Alone(new, s, k)
    BY <1>4, <1>5 DEF Alone
  <1> QED
    BY <1>6 DEF new

\* The message that is taken is nowhere else.
LEMMA TakenNowhere ==
    ASSUME chan \in Chans, NEW a \in Peer, NEW b \in Peer, chan[a][b] # <<>>,
           NEW s, NEW k, Private(Head(chan[a][b]), s, k), Alone(chan, s, k)
    PROVE  Nowhere(Taken(a, b), s, k) /\ ~Nowhere(chan, s, k)
  <1>1. \A x, y \in Peer : Taken(a, b)[x][y] = IF x = a /\ y = b THEN Tail(chan[a][b]) ELSE chan[x][y]
    BY DEF Taken, Chans
  <1>2. Holds(chan[a][b], s, k) /\ ~Holds(Tail(chan[a][b]), s, k)
    BY ThinTail DEF Chans, Alone
  <1> QED
    BY <1>1, <1>2 DEF Nowhere, Alone

------------------------------------------------------------------------------
(***************************************************************************)
(* Private messages.                                                       *)
(***************************************************************************)
\* No listener is given the message in this step.
NoneGiven(s, k) ==
    \A n \in Peer : \A i \in DOMAIN inbox'[n] :
        Given(inbox'[n][i], s, k) => i \in DOMAIN inbox[n] /\ inbox'[n][i] = inbox[n][i]

LEMMA ThinUnique ==
    ASSUME NEW s, NEW k, Unique(s, k), ThinLines(chan', chan, s, k), NoneGiven(s, k),
           k > sent'[s] => k > sent[s]
    PROVE  Unique(s, k)'
  <1>1. (Alone(chan, s, k) => Alone(chan', s, k)) /\ (Nowhere(chan, s, k) => Nowhere(chan', s, k))
    BY ThinAlone
  <1>2. NotGiven(s, k) => NotGiven(s, k)'
    BY DEF NotGiven, NoneGiven
  <1>3. ASSUME NEW n \in Peer, NEW o \in Peer, NEW i \in DOMAIN inbox'[n], NEW j \in DOMAIN inbox'[o],
               Given(inbox'[n][i], s, k), Given(inbox'[o][j], s, k)
        PROVE  n = o /\ i = j
    <2>1. /\ i \in DOMAIN inbox[n] /\ Given(inbox[n][i], s, k)
          /\ j \in DOMAIN inbox[o] /\ Given(inbox[o][j], s, k)
      BY <1>3 DEF NoneGiven
    <2> QED
      BY <2>1 DEF Unique
  <1> QED
    BY <1>1, <1>2, <1>3 DEF Unique

\* Nobody sends or gives a private message.
Tame == \A s \in Peer, k \in 1..MaxSent :
    ThinLines(chan', chan, s, k) /\ NoneGiven(s, k) /\ (k > sent'[s] => k > sent[s])

LEMMA TameKeeps ==
    ASSUME UniqueInv, Tame
    PROVE  \A s \in Peer, k \in 1..MaxSent : Unique(s, k)'
  BY ThinUnique DEF UniqueInv, Tame

LEMMA SameInbox ==
    ASSUME UNCHANGED inbox, NEW s, NEW k PROVE NoneGiven(s, k)
  BY DEF NoneGiven

\* What most handlers come down to.
Hushes(n, s) == Die(n) \/ \E out \in [Peer -> Seq(Public)] : Reply(n, s, out)

LEMMA PublicHolds ==
    ASSUME NEW o \in Seq(Public), NEW s, NEW k
    PROVE  ~Holds(o, s, k)
  <1>1. \A i \in DOMAIN o : o[i] \in Public
    OBVIOUS
  <1> QED
    BY <1>1 DEF Holds, Private, Public

\* What is sent to some is public if the commands are.
LEMMA PublicTo ==
    ASSUME NEW S, NEW cmds \in Seq(Public) PROVE To(S, cmds) \in [Peer -> Seq(Public)]
  BY DEF To

LEMMA PublicCommands ==
    /\ RetrievePeers \in Public
    /\ \A S \in SUBSET Peer : PeersList(S) \in Public
    /\ \A p \in Peer : RetrieveDistance(p) \in Public /\ ForwardTo(p) \in Public
    /\ \A d \in Byte, p \in Peer : UpdateDistance(d, p) \in Public /\ ForwardingTo(d, p) \in Public
    /\ \A p \in Peer, i \in 1..MaxSent : ToAll(p, i) \in Public
  <1>1. \A m \in Sendable : m.cmd # "send_to" => m \in Public
    BY DEF Sendable, Public
  <1>2. /\ RetrievePeers.cmd # "send_to"
        /\ \A S : PeersList(S).cmd # "send_to"
        /\ \A p : RetrieveDistance(p).cmd # "send_to" /\ ForwardTo(p).cmd # "send_to"
        /\ \A d, p : UpdateDistance(d, p).cmd # "send_to" /\ ForwardingTo(d, p).cmd # "send_to"
        /\ \A p, i : ToAll(p, i).cmd # "send_to"
    BY DEF RetrievePeers, PeersList, RetrieveDistance, ForwardTo, UpdateDistance, ForwardingTo, ToAll
  <1> QED
    BY <1>1, <1>2, Commands, Zenon

\* What n sends of its own accord.
LEMMA PublicPost ==
    ASSUME NEW ch \in Chans, NEW n \in Peer, NEW out \in [Peer -> Seq(Public)], NEW s, NEW k
    PROVE  ThinLines(Post(ch, n, out), ch, s, k)
  <1>1. out \in Outs
    BY PublicSeq DEF Outs
  <1>2. \A p \in Peer : ~Holds(out[p], s, k)
    BY PublicHolds
  <1> QED
    BY <1>1, <1>2, PostThin

LEMMA PublicReply ==
    ASSUME chan \in Chans, NEW n \in Peer, NEW a \in Peer, chan[a][n] # <<>>,
           NEW out \in [Peer -> Seq(Public)], Reply(n, a, out), NEW s, NEW k
    PROVE  ThinLines(chan', chan, s, k)
  <1>1. Taken(a, n) \in Chans /\ ThinLines(Taken(a, n), chan, s, k)
    BY TakenChans, TakenThin
  <1>2. ThinLines(Post(Taken(a, n), n, out), Taken(a, n), s, k)
    BY <1>1, PublicPost
  <1>3. chan' = Post(Taken(a, n), n, out)
    BY DEF Reply
  <1> QED
    BY <1>1, <1>2, <1>3, ThinTwice

\* A handler that is not one of data.
LEMMA HushedTame ==
    ASSUME UniqueInv, NEW n \in Peer, NEW a \in Peer, chan[a][n] # <<>>, Hushes(n, a), UNCHANGED data
    PROVE  Tame
  <1>1. chan \in Chans /\ UNCHANGED <<inbox, sent>>
    BY ConnParts DEF UniqueInv, data
  <1>2. ASSUME NEW s \in Peer, NEW k \in 1..MaxSent PROVE ThinLines(chan', chan, s, k)
    BY <1>1, PublicReply, CloseThin DEF Hushes, Die
  <1> QED
    BY <1>1, <1>2, SameInbox DEF Tame

LEMMA RetrievePeersHushes ==
    ASSUME Inv, NEW n \in Peer, NEW s \in Peer, HandleRetrievePeers(n, s) PROVE Hushes(n, s)
  <1>1. Known(n) \in SUBSET Peer
    BY DEF Inv, TypeOK, MapsType, IsMap, Known
  <1>2. <<PeersList(Known(n))>> \in Seq(Public)
    BY <1>1, PublicCommands
  <1> QED
    BY <1>2, PublicTo DEF HandleRetrievePeers, Hushes

LEMMA RetrieveDistanceHushes ==
    ASSUME Inv, NEW n \in Peer, NEW s \in Peer, HandleRetrieveDistance(n, s) PROVE Hushes(n, s)
  <1> DEFINE id == Head(chan[s][n]).id
  <1>1. id \in Peer
    BY HeadType, Fields DEF HandleRetrieveDistance, Inv, TypeOK
  <1>2. CASE id \in Known(n) /\ Reply(n, s, To({s}, <<UpdateDistance(dist[n][id], id)>>))
    <2>1. dist[n][id] \in Byte
      BY <1>2 DEF Inv, TypeOK, MapsType, IsMap, Known
    <2>2. <<UpdateDistance(dist[n][id], id)>> \in Seq(Public)
      BY <1>1, <2>1, PublicCommands
    <2> QED
      BY <1>2, <2>2, PublicTo DEF Hushes
  <1> QED
    BY <1>2 DEF HandleRetrieveDistance, Hushes

LEMMA UpdateDistanceHushes ==
    ASSUME Inv, NEW n \in Peer, NEW s \in Peer, HandleUpdateDistance(n, s) PROVE Hushes(n, s)
  <1> DEFINE m == Head(chan[s][n])
             d == (m.d + 1) % 256
  <1>1. m.id \in Peer /\ d \in Byte
    <2>1. m.id \in Peer /\ m.d \in Byte
      BY HeadType, Fields, Zenon DEF HandleUpdateDistance, Inv, TypeOK
    <2> QED
      BY <2>1, NextDistance
  <1>2. PICK whole \in BOOLEAN :
          LET better == whole /\ \/ m.id \in Known(n) /\ dist[n][m.id] > d
                                 \/ m.id \notin Known(n) /\ Contains(failed[n], m.id)
          IN  Reply(n, s, [p \in Peer |->
                (IF better /\ p = s THEN <<ForwardTo(m.id)>> ELSE <<>>) \o
                (IF better /\ p \in Direct(n) THEN <<UpdateDistance(d, m.id)>> ELSE <<>>)])
    BY Zenon DEF HandleUpdateDistance
  <1> DEFINE better == whole /\ \/ m.id \in Known(n) /\ dist[n][m.id] > d
                                \/ m.id \notin Known(n) /\ Contains(failed[n], m.id)
             first(p) == IF better /\ p = s THEN <<ForwardTo(m.id)>> ELSE <<>>
             second(p) == IF better /\ p \in Direct(n) THEN <<UpdateDistance(d, m.id)>> ELSE <<>>
             out == [p \in Peer |-> first(p) \o second(p)]
  <1>3. Reply(n, s, out)
    BY <1>2, Zenon
  <1>4. \A p \in Peer : first(p) \in Seq(Public) /\ second(p) \in Seq(Public)
    BY <1>1, PublicCommands
  <1> HIDE DEF first, second
  <1>5. out \in [Peer -> Seq(Public)]
    BY <1>4
  <1> HIDE DEF out
  <1> QED
    BY <1>3, <1>5 DEF Hushes

LEMMA ForwardToHushes ==
    ASSUME Inv, NEW n \in Peer, NEW s \in Peer, HandleForwardTo(n, s) PROVE Hushes(n, s)
  <1> DEFINE id == Head(chan[s][n]).id
             out == [p \in Peer |-> CASE p = id -> <<ForwardingTo(0, s)>>
                                      [] p = s -> <<ForwardingTo(dist[n][id], id)>>
                                      [] OTHER -> <<>>]
  <1>1. id \in Peer
    BY HeadType, Fields DEF HandleForwardTo, Inv, TypeOK
  <1>2. CASE id \in Known(n) /\ Reply(n, s, out)
    <2>1. dist[n][id] \in Byte /\ 0 \in Byte
      <3>1. dist[n][id] \in Byte
        BY <1>2 DEF Inv, TypeOK, MapsType, IsMap, Known
      <3>2. 0 \in Byte
        BY DEF Byte
      <3> QED
        BY <3>1, <3>2
    <2>2. /\ <<ForwardingTo(0, s)>> \in Seq(Public) /\ <<>> \in Seq(Public)
          /\ <<ForwardingTo(dist[n][id], id)>> \in Seq(Public)
      BY <1>1, <2>1, PublicCommands
    <2>3. out \in [Peer -> Seq(Public)]
      BY <2>2
    <2> HIDE DEF out
    <2> QED
      BY <1>2, <2>3 DEF Hushes
  <1>3. CASE Die(n)
    BY <1>3 DEF Hushes
  <1> QED
    BY <1>2, <1>3, Zenon DEF HandleForwardTo

LEMMA ForwardingToHushes ==
    ASSUME Inv, NEW n \in Peer, NEW s \in Peer, HandleForwardingTo(n, s) PROVE Hushes(n, s)
  <1>1. To({}, <<>>) \in [Peer -> Seq(Public)]
    <2>1. <<>> \in Seq(Public)
      OBVIOUS
    <2> QED
      BY <2>1, PublicTo
  <1>2. Die(n) \/ Reply(n, s, To({}, <<>>))
    BY Zenon DEF HandleForwardingTo
  <1> QED
    BY <1>1, <1>2 DEF Hushes

\* A broadcast that is handed over is no private message.
LEMMA BroadcastGiven ==
    ASSUME DataType, NEW n \in Peer, NEW from, NEW origin, NEW no,
           Deliver(n, from, origin, no, TRUE), NEW s, NEW k
    PROVE  NoneGiven(s, k)
  <1> DEFINE d == [from |-> from, origin |-> origin, no |-> no, toAll |-> TRUE]
  <1>1. \A o \in Peer : inbox'[o] = IF o = n THEN Append(inbox[o], d) ELSE inbox[o]
    BY DEF Deliver, DataType
  <1>2. ~Given(d, s, k)
    BY DEF Given
  <1> HIDE DEF d
  <1>3. \A o \in Peer : inbox[o] \in Seq(Delivery)
    BY DEF DataType
  <1>4. ASSUME NEW o \in Peer, NEW i \in DOMAIN Append(inbox[o], d)
        PROVE  (i \in DOMAIN inbox[o] /\ Append(inbox[o], d)[i] = inbox[o][i]) \/ Append(inbox[o], d)[i] = d
    BY <1>3, <1>4
  <1> QED
    BY <1>1, <1>2, <1>4 DEF NoneGiven

LEMMA SendToAllTame ==
    ASSUME UniqueInv, NEW n \in Peer, NEW a \in Peer, HandleSendToAll(n, a) PROVE Tame
  <1>0. Inv /\ chan \in Chans /\ DataType /\ MapsType /\ KeysAgree /\ NetType
    BY ConnParts DEF UniqueInv
  <1> DEFINE m == Head(chan[a][n])
  <1>1. m \in Public /\ chan[a][n] # <<>> /\ a \in Known(n) /\ UNCHANGED sent
    BY <1>0, HeadType DEF HandleSendToAll, Public
  <1>2. CASE \E fate \in Fate(ToSet(bridging[n][a])) :
                /\ Reply(n, a, [p \in Peer |-> [i \in 1..Copies(n, a, p, fate) |-> m]])
                /\ Deliver(n, a, m.origin, m.no, TRUE)
    <2>1. PICK fate \in Fate(ToSet(bridging[n][a])) :
                /\ Reply(n, a, [p \in Peer |-> [i \in 1..Copies(n, a, p, fate) |-> m]])
                /\ Deliver(n, a, m.origin, m.no, TRUE)
      BY <1>2
    <2> DEFINE out == [p \in Peer |-> [i \in 1..Copies(n, a, p, fate) |-> m]]
    <2>2. \A p \in Peer : Copies(n, a, p, fate) \in Nat
      BY <1>0, <1>1, CopiesNat
    <2>3. out \in [Peer -> Seq(Public)]
      BY <1>1, <2>2
    <2>4. Reply(n, a, out)
      BY <2>1
    <2> HIDE DEF out
    <2>5. \A s, k : ThinLines(chan', chan, s, k)
      BY <1>0, <1>1, <2>3, <2>4, PublicReply
    <2>6. \A s, k : NoneGiven(s, k)
      BY <1>0, <2>1, BroadcastGiven
    <2> QED
      BY <1>1, <2>5, <2>6 DEF Tame
  <1>3. CASE Die(n) /\ UNCHANGED inbox
    BY <1>0, <1>1, <1>3, CloseThin, SameInbox DEF Die, Tame
  <1> QED
    BY <1>2, <1>3, Zenon DEF HandleSendToAll

\* send_to: the message is new.
LEMMA SendToUnique ==
    ASSUME UniqueInv, NEW n \in Peer, NEW p \in Peer, SendTo(n, p), NEW s \in Peer, NEW k \in 1..MaxSent
    PROVE  Unique(s, k)'
  <1>0. /\ Inv /\ chan \in Chans /\ DataType /\ MapsType /\ KeysAgree
        /\ Unique(s, k) /\ UNCHANGED inbox /\ sent' = [sent EXCEPT ![n] = @ + 1] /\ p \in Known(n)
    BY ConnParts, Zenon DEF UniqueInv, SendTo
  <1>1. /\ sent[n] + 1 \in 1..MaxSent /\ sent[n] \in Nat /\ sent[s] \in Nat /\ k \in Nat
        /\ sent'[s] = IF s = n THEN sent[n] + 1 ELSE sent[s]
    BY <1>0, BoundAssumption DEF DataType, SendTo
  <1>2. k > sent'[s] => k > sent[s]
    BY <1>1
  <1>3. NoneGiven(s, k)
    BY <1>0, SameInbox
  <1>4. CASE UNCHANGED chan \/ Die(n)
    <2>1. UNCHANGED chan => ThinLines(chan', chan, s, k)
      BY ThinEmpty DEF ThinLines
    <2>2. Die(n) => ThinLines(chan', chan, s, k)
      BY <1>0, CloseThin DEF Die
    <2> QED
      BY <1>0, <1>2, <1>3, <1>4, <2>1, <2>2, ThinUnique
  <1>5. CASE chan' = Post(chan, n, To({path[n][p].to}, <<ToOne(n, p, sent[n] + 1)>>))
    <2> DEFINE m == ToOne(n, p, sent[n] + 1)
               h == {path[n][p].to}
    <2>1. m \in Sendable /\ m.cmd = "send_to" /\ m.sender = n /\ m.no = sent[n] + 1
      BY <1>1, Commands DEF ToOne
    <2>2. h \in SUBSET Peer /\ \A x, y \in h : x = y
      <3>1. path[n][p] \in Ref
        BY <1>0 DEF MapsType, IsMap, KeysAgree
      <3> QED
        BY <3>1 DEF Ref
    <2>3. chan' = Post(chan, n, To(h, <<m>>))
      BY <1>5
    <2> HIDE DEF m, h
    <2>4. CASE s = n /\ k = sent[n] + 1
      <3>1. Nowhere(chan, s, k) /\ NotGiven(s, k)
        BY <1>0, <1>1, <2>4 DEF Unique
      <3>2. Alone(chan', s, k)
        BY <1>0, <2>1, <2>2, <2>3, <3>1, PostAlone
      <3>3. NotGiven(s, k)'
        BY <1>0, <3>1 DEF NotGiven
      <3>4. ~(k > sent'[s])
        BY <1>1, <2>4
      <3> QED
        BY <3>2, <3>3, <3>4 DEF Unique, NotGiven
    <2>5. CASE ~(s = n /\ k = sent[n] + 1)
      <3>1. <<m>> \in Seq(Sendable) /\ <<>> \in Seq(Sendable)
        BY <2>1
      <3>2. To(h, <<m>>) \in Outs
        BY <3>1, ToOuts
      <3>3. ~Private(m, s, k)
        BY <2>1, <2>5 DEF Private
      <3>4. \A x \in Peer : ~Holds(To(h, <<m>>)[x], s, k)
        BY <3>3 DEF To, Holds
      <3>5. ThinLines(chan', chan, s, k)
        BY <1>0, <2>3, <3>2, <3>4, PostThin
      <3> QED
        BY <1>0, <1>2, <1>3, <3>5, ThinUnique
    <2> QED
      BY <2>4, <2>5
  <1> QED
    BY <1>4, <1>5, Zenon DEF SendTo, net

\* send_to_handler: the message goes on, is handed over or is lost.
LEMMA HandleSendToUnique ==
    ASSUME UniqueInv, NEW n \in Peer, NEW a \in Peer, HandleSendTo(n, a), NEW s \in Peer, NEW k \in 1..MaxSent
    PROVE  Unique(s, k)'
  <1> DEFINE m == Head(chan[a][n])
             hop == path[n][m.sender]
             new == Taken(a, n)
  <1>0. /\ Inv /\ chan \in Chans /\ DataType /\ MapsType /\ KeysAgree /\ NetType
        /\ Unique(s, k) /\ UNCHANGED sent
    BY ConnParts, Zenon DEF UniqueInv, HandleSendTo
  <1>1. /\ m \in Command /\ m.cmd = "send_to" /\ chan[a][n] # <<>>
    BY <1>0, HeadType DEF HandleSendTo
  <1>2. m \in Sendable /\ m.sender \in Peer
    <2> HIDE DEF m
    <2> QED
      BY <1>1, Fields DEF Sendable
  <1>3. new \in Chans /\ ThinLines(new, chan, s, k)
    BY <1>0, <1>1, TakenChans, TakenThin
  <1>4. Private(m, s, k) => /\ Nowhere(new, s, k) /\ ~Nowhere(chan, s, k) /\ Alone(new, s, k)
                            /\ NotGiven(s, k) /\ ~(k > sent[s])
    BY <1>0, <1>1, <1>3, TakenNowhere, ThinAlone DEF Unique
  <1>5. CASE Die(n) /\ UNCHANGED inbox
    BY <1>0, <1>5, CloseThin, SameInbox, ThinUnique DEF Die
  <1>6. CASE Reply(n, a, To({}, <<>>))
    <2>1. To({}, <<>>) \in [Peer -> Seq(Public)]
      <3>1. <<>> \in Seq(Public)
        OBVIOUS
      <3> QED
        BY <3>1, PublicTo
    <2>2. ThinLines(chan', chan, s, k)
      BY <1>0, <1>1, <1>6, <2>1, PublicReply
    <2>3. CASE UNCHANGED inbox
      BY <1>0, <2>2, <2>3, SameInbox, ThinUnique
    <2>4. CASE Deliver(n, m.sender, m.sender, m.no, FALSE)
      <3> DEFINE d == [from |-> m.sender, origin |-> m.sender, no |-> m.no, toAll |-> FALSE]
      <3>1. \A o \in Peer : inbox'[o] = IF o = n THEN Append(inbox[o], d) ELSE inbox[o]
        BY <1>0, <2>4 DEF Deliver, DataType
      <3>2. Given(d, s, k) <=> Private(m, s, k)
        BY <1>1 DEF Given, Private
      <3> HIDE DEF d, m
      <3>3. \A o \in Peer : inbox[o] \in Seq(Delivery)
        BY <1>0 DEF DataType
      <3>4. ASSUME NEW o \in Peer, NEW i \in DOMAIN Append(inbox[o], d)
            PROVE  \/ i \in DOMAIN inbox[o] /\ Append(inbox[o], d)[i] = inbox[o][i]
                   \/ i = Len(inbox[o]) + 1 /\ Append(inbox[o], d)[i] = d
        BY <3>3, <3>4
      <3>5. CASE ~Private(m, s, k)
        <4>1. NoneGiven(s, k)
          BY <3>1, <3>2, <3>4, <3>5 DEF NoneGiven
        <4> QED
          BY <1>0, <2>2, <4>1, ThinUnique
      <3>6. CASE Private(m, s, k)
        <4>1. Nowhere(chan', s, k) /\ Alone(chan', s, k)
          <5>1. ThinLines(chan', new, s, k)
            <6>1. chan' = Post(new, n, To({}, <<>>))
              BY <1>6 DEF Reply
            <6> QED
              BY <1>3, <2>1, <6>1, PublicPost
          <5> QED
            BY <1>4, <3>6, <5>1, ThinAlone
        <4>2. ASSUME NEW o \in Peer, NEW i \in DOMAIN inbox'[o], Given(inbox'[o][i], s, k)
              PROVE  o = n /\ i = Len(inbox[n]) + 1
          BY <1>4, <3>1, <3>4, <3>6, <4>2 DEF NotGiven
        <4>3. ~(k > sent'[s])
          BY <1>0, <1>4, <3>6
        <4> QED
          BY <4>1, <4>2, <4>3 DEF Unique
      <3> QED
        BY <3>5, <3>6
    <2> QED
      BY <2>3, <2>4, Zenon DEF HandleSendTo
  <1>7. CASE /\ m.sender \in Known(n) /\ UNCHANGED inbox
             /\ \E fate \in Fate({hop}) : Reply(n, a, To(IF fate = "intact" THEN {hop.to} ELSE {}, <<m>>))
    <2>1. PICK fate \in Fate({hop}) : Reply(n, a, To(IF fate = "intact" THEN {hop.to} ELSE {}, <<m>>))
      BY <1>7
    <2> DEFINE h == IF fate = "intact" THEN {hop.to} ELSE {}
    <2>2. chan' = Post(new, n, To(h, <<m>>))
      BY <2>1 DEF Reply
    <2>3. h \in SUBSET Peer /\ \A x, y \in h : x = y
      <3>1. hop \in Ref
        <4> HIDE DEF m
        <4> QED
          BY <1>0, <1>2, <1>7 DEF MapsType, IsMap, KeysAgree
      <3> HIDE DEF hop
      <3> QED
        BY <3>1 DEF Ref
    <2> HIDE DEF h, new, m
    <2>4. CASE Private(m, s, k)
      <3>1. Alone(chan', s, k)
        BY <1>2, <1>3, <1>4, <2>2, <2>3, <2>4, PostAlone
      <3>2. NotGiven(s, k)' /\ ~(k > sent'[s])
        BY <1>0, <1>4, <1>7, <2>4 DEF NotGiven
      <3> QED
        BY <3>1, <3>2 DEF Unique, NotGiven
    <2>5. CASE ~Private(m, s, k)
      <3>1. <<m>> \in Seq(Sendable)
        BY <1>2
      <3>2. To(h, <<m>>) \in Outs
        BY <3>1, ToOuts
      <3>3. \A x \in Peer : ~Holds(To(h, <<m>>)[x], s, k)
        BY <2>5 DEF To, Holds
      <3>4. ThinLines(chan', new, s, k)
        BY <1>3, <2>2, <3>2, <3>3, PostThin
      <3>5. ThinLines(chan', chan, s, k)
        BY <1>3, <3>4, ThinTwice
      <3> QED
        BY <1>0, <1>7, <3>5, SameInbox, ThinUnique
    <2> QED
      BY <2>4, <2>5
  <1> QED
    BY <1>5, <1>6, <1>7, ZenonT(30) DEF HandleSendTo

\* The rest of the steps.
LEMMA ThreadStepsTame ==
    ASSUME UniqueInv, UNCHANGED <<chan, inbox, sent>> PROVE Tame
  <1>1. \A s, k : ThinLines(chan', chan, s, k)
    BY ThinEmpty DEF ThinLines
  <1> QED
    BY <1>1, SameInbox DEF Tame

LEMMA ClosingTame ==
    ASSUME UniqueInv, NEW n \in Peer, CloseAll(n), UNCHANGED <<inbox, sent>> PROVE Tame
  BY ConnParts, CloseThin, SameInbox DEF UniqueInv, Tame

\* n says something in public.
LEMMA SayingTame ==
    ASSUME UniqueInv, NEW n \in Peer, NEW S, NEW cmds \in Seq(Public),
           chan' = Post(chan, n, To(S, cmds)), UNCHANGED inbox,
           \A s \in Peer, k \in 1..MaxSent : k > sent'[s] => k > sent[s]
    PROVE  Tame
  <1>1. To(S, cmds) \in [Peer -> Seq(Public)]
    BY PublicTo
  <1>2. chan \in Chans
    BY ConnParts DEF UniqueInv
  <1>3. \A s, k : ThinLines(chan', chan, s, k)
    BY <1>1, <1>2, PublicPost
  <1> QED
    BY <1>3, SameInbox DEF Tame

LEMMA ReceiveUnique ==
    ASSUME UniqueInv, NEW n \in Peer, NEW a \in Peer, Receive(n, a)
    PROVE  \A s \in Peer, k \in 1..MaxSent : Unique(s, k)'
  <1>0. Inv /\ chan \in Chans
    BY ConnParts DEF UniqueInv
  <1>1. CASE HandleEof(n, a) \/ HandlePeersList(n, a)
    <2>1. chan' = Taken(a, n) /\ chan[a][n] # <<>> /\ UNCHANGED <<inbox, sent>>
      BY <1>1 DEF HandleEof, HandlePeersList, Receives, data
    <2>2. Tame
      BY <1>0, <2>1, TakenThin, SameInbox DEF Tame
    <2> QED
      BY <2>2, TameKeeps
  <1>2. ASSUME Hushes(n, a), chan[a][n] # <<>>, UNCHANGED data
        PROVE  \A s \in Peer, k \in 1..MaxSent : Unique(s, k)'
    BY <1>2, HushedTame, TameKeeps
  <1>3. CASE HandleRetrievePeers(n, a)
    BY <1>0, <1>2, <1>3, RetrievePeersHushes DEF HandleRetrievePeers, Receives
  <1>4. CASE HandleRetrieveDistance(n, a)
    BY <1>0, <1>2, <1>4, RetrieveDistanceHushes, Zenon DEF HandleRetrieveDistance, Receives
  <1>5. CASE HandleUpdateDistance(n, a)
    BY <1>0, <1>2, <1>5, UpdateDistanceHushes, Zenon DEF HandleUpdateDistance, Receives
  <1>6. CASE HandleForwardTo(n, a)
    BY <1>0, <1>2, <1>6, ForwardToHushes, Zenon DEF HandleForwardTo, Receives
  <1>7. CASE HandleForwardingTo(n, a)
    BY <1>0, <1>2, <1>7, ForwardingToHushes, Zenon DEF HandleForwardingTo, Receives
  <1>8. CASE HandleSendToAll(n, a)
    BY <1>8, SendToAllTame, TameKeeps
  <1>9. CASE HandleSendTo(n, a)
    BY <1>9, HandleSendToUnique
  <1> QED
    BY <1>1, <1>3, <1>4, <1>5, <1>6, <1>7, <1>8, <1>9 DEF Receive

LEMMA ProgressUnique ==
    ASSUME UniqueInv, NEW n \in Peer, Progress(n)
    PROVE  \A s \in Peer, k \in 1..MaxSent : Unique(s, k)'
  <1>0. Inv /\ MapsType
    BY ConnParts DEF UniqueInv
  <1>1. CASE JoinFails(n) \/ ScanConnects(n) \/ ScanFails(n) \/ \E p \in Peer : ScanDial(n, p) \/ Accept(n, p)
    <2>1. UNCHANGED <<chan, inbox, sent>>
      BY <1>1 DEF JoinFails, ScanConnects, ScanFails, ScanDial, Accept, net, data
    <2> QED
      BY <2>1, ThreadStepsTame, TameKeeps
  <1>2. CASE JoinSucceeds(n)
    <2>1. <<RetrievePeers>> \in Seq(Public)
      BY PublicCommands
    <2>2. chan' = Post(chan, n, To({dial[n]}, <<RetrievePeers>>)) /\ UNCHANGED <<inbox, sent>>
      BY <1>2 DEF JoinSucceeds, data
    <2> QED
      BY <2>1, <2>2, SayingTame, TameKeeps
  <1>3. CASE ScanEnds(n)
    <2> DEFINE asked == [i \in DOMAIN failed[n] |-> RetrieveDistance(failed[n][i])]
    <2>1. failed[n] \in Seq(Peer)
      BY <1>0 DEF MapsType
    <2>2. Len(failed[n]) \in Nat /\ DOMAIN failed[n] = 1..Len(failed[n])
      BY <2>1
    <2>3. \A i \in 1..Len(failed[n]) : RetrieveDistance(failed[n][i]) \in Public
      BY <2>1, PublicCommands
    <2>4. asked \in Seq(Public)
      BY <2>2, <2>3
    <2>5. chan' = Post(chan, n, To(Direct(n) \cup got[n], asked)) /\ UNCHANGED <<inbox, sent>>
      BY <1>3 DEF ScanEnds, data
    <2> HIDE DEF asked
    <2> QED
      BY <2>4, <2>5, SayingTame, TameKeeps
  <1>4. CASE ScanThrows(n)
    <2>1. CloseAll(n) /\ UNCHANGED <<inbox, sent>>
      BY <1>4 DEF ScanThrows, Die, data
    <2> QED
      BY <2>1, ClosingTame, TameKeeps
  <1> QED
    BY <1>1, <1>2, <1>3, <1>4, ReceiveUnique DEF Progress

LEMMA ExternalUnique ==
    ASSUME UniqueInv, NEW n \in Peer, External(n)
    PROVE  \A s \in Peer, k \in 1..MaxSent : Unique(s, k)'
  <1>0. Inv /\ chan \in Chans /\ DataType /\ Threads
    BY ConnParts DEF UniqueInv
  <1>1. CASE Awake(n) \/ \E p \in Peer : Connect(n, p)
    <2>1. UNCHANGED <<chan, inbox, sent>>
      BY <1>1 DEF Awake, Connect, net, data
    <2> QED
      BY <2>1, ThreadStepsTame, TameKeeps
  <1>2. CASE Leave(n) \/ Crash(n)
    <2>1. CloseAll(n) /\ UNCHANGED <<inbox, sent>>
      BY <1>2 DEF Leave, Crash, Die, data
    <2> QED
      BY <2>1, ClosingTame, TameKeeps
  <1>3. CASE SendToAll(n)
    <2>1. /\ sent[n] + 1 \in 1..MaxSent /\ sent' = [sent EXCEPT ![n] = @ + 1]
          /\ chan' = Post(chan, n, To(Direct(n), <<ToAll(n, sent[n] + 1)>>)) /\ UNCHANGED inbox
      BY <1>0, <1>3, BoundAssumption DEF SendToAll, DataType
    <2>2. <<ToAll(n, sent[n] + 1)>> \in Seq(Public)
      BY <2>1, PublicCommands
    <2>3. \A s \in Peer, k \in 1..MaxSent : k > sent'[s] => k > sent[s]
      <3>1. \A s \in Peer : sent[s] \in Nat /\ sent'[s] \in {sent[s], sent[s] + 1}
        BY <1>0, <2>1 DEF DataType
      <3> QED
        BY <3>1
    <2> QED
      BY <2>1, <2>2, <2>3, SayingTame, TameKeeps
  <1>4. ASSUME NEW p \in Peer, Timeout(n, p)
        PROVE  \A s \in Peer, k \in 1..MaxSent : Unique(s, k)'
    <2>1. n # p
      BY <1>0, <1>4 DEF Timeout, Threads, Thread, Held
    <2>2. UNCHANGED <<inbox, sent>>
      BY <1>4 DEF Timeout, data
    <2>3. Tame
      BY <1>0, <1>4, <2>1, <2>2, TimeoutThin, SameInbox DEF Tame
    <2> QED
      BY <2>3, TameKeeps
  <1> QED
    BY <1>1, <1>2, <1>3, <1>4, SendToUnique DEF External

LEMMA InitUnique == Init => UniqueInv
  <1> SUFFICES ASSUME Init PROVE \A s \in Peer, k \in 1..MaxSent : Unique(s, k)
    BY InitConn DEF UniqueInv
  <1>1. \A x, y \in Peer : chan[x][y] = <<>> /\ inbox[x] = <<>>
    BY DEF Init
  <1> QED
    BY <1>1 DEF Unique, Alone, Nowhere, NotGiven, Single, Holds

LEMMA NextUnique == UniqueInv /\ [Next]_vars => UniqueInv'
  <1> SUFFICES ASSUME UniqueInv, [Next]_vars PROVE \A s \in Peer, k \in 1..MaxSent : Unique(s, k)'
    BY NextConn DEF UniqueInv
  <1>1. CASE UNCHANGED vars
    BY <1>1, ThreadStepsTame, TameKeeps DEF vars, net, data
  <1> QED
    BY <1>1, ProgressUnique, ExternalUnique DEF Next

\* send_to: whatever becomes of the instances on its way, a private message reaches the
\* listeners of one instance, once (send_to_handler, forward).
THEOREM PrivateDeliveredOnce == Spec => []PrivateOnce
  <1>1. UniqueInv => PrivateOnce
    <2> SUFFICES ASSUME UniqueInv, NEW n \in Peer, NEW o \in Peer,
                        NEW i \in DOMAIN inbox[n], NEW j \in DOMAIN inbox[o],
                        ~inbox[n][i].toAll, ~inbox[o][j].toAll,
                        inbox[n][i].origin = inbox[o][j].origin, inbox[n][i].no = inbox[o][j].no
                 PROVE  n = o /\ i = j
      BY DEF PrivateOnce
    <2>1. inbox[n] \in Seq(Delivery)
      BY ConnParts DEF UniqueInv, DataType
    <2>2. inbox[n][i] \in Delivery
      BY <2>1
    <2>3. inbox[n][i].origin \in Peer /\ inbox[n][i].no \in 1..MaxSent
      BY <2>2 DEF Delivery
    <2>4. Unique(inbox[n][i].origin, inbox[n][i].no)
      BY <2>3 DEF UniqueInv
    <2> QED
      BY <2>4 DEF Unique, Given
  <1> QED
    BY <1>1, InitUnique, NextUnique, PTL DEF Spec

------------------------------------------------------------------------------
(***************************************************************************)
(* A full mesh.                                                            *)
(***************************************************************************)
\* Every instance reaches and accepts every other, and nobody leaves, falls silent
\* or is killed.
Mesh ==
    /\ \A x, y \in Peer : x # y => <<x, y>> \in Reach
    /\ Rejects = {}
    /\ MaxLeaves = 0 /\ MaxTimeouts = 0 /\ MaxCrashes = 0

\* What one instance sends another: of itself, and for the other.
Own(m, x, y) ==
    \/ m.cmd \in {"retrieve_peers", "peers_list"}
    \/ m.cmd = "send_to_all" /\ m.origin = x
    \/ m.cmd = "send_to" /\ m.sender = x /\ m.target = y
Numbered(m) == m.cmd \in {"send_to_all", "send_to"}

\* What is on the line q from x to y, and what y has in its box, when x has sent up
\* to top.
Ascends(q, box, x, y, top) ==
    /\ \A i \in DOMAIN q : Own(q[i], x, y)
    /\ \A i \in DOMAIN q : Numbered(q[i]) =>
         q[i].no <= top /\ \A j \in DOMAIN box : box[j].origin = x => box[j].no < q[i].no
    /\ \A i, j \in DOMAIN q : j < i /\ Numbered(q[j]) /\ Numbered(q[i]) => q[j].no < q[i].no
    /\ \A j \in DOMAIN box : box[j].origin = x => box[j].no <= top

Orderly(x, y) == Ascends(chan[x][y], inbox[y], x, y, sent[x])

\* No dial has failed, and nothing is bridged.
Plain(n) ==
    /\ phase[n] # "crashed" /\ answer[n] \notin {"refused", "reset"} /\ failed[n] = <<>>
    /\ phase[n] = "joining" => dial[n] \in Peer
    /\ \A p \in Known(n) : path[n][p] = Live(p) /\ bridging[n][p] = <<>>
    /\ \A p \in Peer : p \in Held(n) => n \in Held(p)

MeshInv ==
    /\ ConnInv
    /\ spent = [leaves |-> 0, timeouts |-> 0, crashes |-> 0]
    /\ \A n \in Peer : Plain(n)
    /\ \A x, y \in Peer : Orderly(x, y)
    /\ DeliveredInOrder

LEMMA MeshParts ==
    ASSUME MeshInv
    PROVE  /\ ConnInv /\ Inv /\ Threads /\ NodeType /\ MapsType /\ KeysAgree /\ NetType /\ DataType
           /\ chan \in Chans /\ \A x \in Peer : Plain(x) /\ Thread(x)
  BY ConnParts DEF MeshInv, Threads

------------------------------------------------------------------------------
(* Lines. *)

LEMMA AscendsTail ==
    ASSUME NEW q \in Seq(Command), q # <<>>, NEW box, NEW x, NEW y, NEW top, Ascends(q, box, x, y, top)
    PROVE  Ascends(Tail(q), box, x, y, top)
  <1> DEFINE r == Tail(q)
  <1>1. /\ Len(q) \in Nat /\ DOMAIN r = 1..(Len(q) - 1)
        /\ \A i \in DOMAIN r : i + 1 \in DOMAIN q /\ r[i] = q[i + 1]
    BY TailFacts
  <1> HIDE DEF r
  <1>2. \A i, j \in DOMAIN r : j < i => j + 1 < i + 1
    BY <1>1
  <1>3. \A i, j \in DOMAIN r : j < i /\ Numbered(r[j]) /\ Numbered(r[i]) => r[j].no < r[i].no
    BY <1>1, <1>2 DEF Ascends
  <1>4. Ascends(r, box, x, y, top)
    BY <1>1, <1>3 DEF Ascends
  <1> QED
    BY <1>4 DEF r

\* A command without a number goes behind.
LEMMA AscendsAsk ==
    ASSUME NEW q \in Seq(Command), NEW m \in Command, NEW box, NEW x, NEW y, NEW top,
           Ascends(q, box, x, y, top), Own(m, x, y), ~Numbered(m)
    PROVE  Ascends(q \o <<m>>, box, x, y, top)
  <1> DEFINE r == q \o <<m>>
  <1>1. \A i \in DOMAIN r : (i \in DOMAIN q /\ r[i] = q[i]) \/ r[i] = m
    OBVIOUS
  <1> HIDE DEF r
  <1>2. Ascends(r, box, x, y, top)
    BY <1>1 DEF Ascends
  <1> QED
    BY <1>2 DEF r

\* The next number is sent to others.
LEMMA AscendsMore ==
    ASSUME NEW q \in Seq(Command), NEW box \in Seq(Delivery), NEW x, NEW y, NEW top \in Nat,
           Ascends(q, box, x, y, top)
    PROVE  Ascends(q, box, x, y, top + 1)
  <1>1. \A i \in DOMAIN q : Numbered(q[i]) => q[i].no \in Nat
    <2>1. \A i \in DOMAIN q : q[i] \in Command
      OBVIOUS
    <2> QED
      BY <2>1, Fields DEF Numbered
  <1>2. \A j \in DOMAIN box : box[j].no \in Nat
    <2>1. \A j \in DOMAIN box : box[j] \in Delivery
      OBVIOUS
    <2> QED
      BY <2>1 DEF Delivery
  <1>3. \A a \in Nat : a <= top => a <= top + 1
    OBVIOUS
  <1> QED
    BY <1>1, <1>2, <1>3 DEF Ascends

\* It is sent to y.
LEMMA AscendsSend ==
    ASSUME NEW q \in Seq(Command), NEW m \in Command, NEW box \in Seq(Delivery), NEW x, NEW y, NEW top \in Nat,
           Ascends(q, box, x, y, top), Own(m, x, y), Numbered(m), m.no = top + 1
    PROVE  Ascends(q \o <<m>>, box, x, y, top + 1)
  <1> DEFINE r == q \o <<m>>
  <1>1. /\ \A i \in DOMAIN r : (i \in DOMAIN q /\ r[i] = q[i]) \/ (i = Len(q) + 1 /\ r[i] = m)
        /\ Len(q) \in Nat /\ DOMAIN q = 1..Len(q)
    <2> DEFINE o == <<m>>
    <2>1. o \in Seq(Command) /\ DOMAIN o = 1..1 /\ o[1] = m
      OBVIOUS
    <2>2. r = q \o o
      OBVIOUS
    <2>3. Len(q) \in Nat /\ DOMAIN q = 1..Len(q) /\ r \in Seq(Command)
      BY <2>1
    <2> HIDE DEF r, o
    <2>4. \A i \in DOMAIN r : i \in Nat
      BY <2>3
    <2>5. \A i, k \in Nat : i - k \in 1..1 => i = k + 1 /\ i - k = 1
      OBVIOUS
    <2>6. \A i \in DOMAIN r : \/ i \in DOMAIN q /\ r[i] = q[i]
                              \/ i - Len(q) \in DOMAIN o /\ r[i] = o[i - Len(q)]
      BY <2>1, <2>2, ConcatFacts
    <2>7. \A i \in DOMAIN r : i - Len(q) \in DOMAIN o => i = Len(q) + 1 /\ o[i - Len(q)] = m
      BY <2>1, <2>3, <2>4, <2>5
    <2>8. ASSUME NEW i \in DOMAIN r
          PROVE  (i \in DOMAIN q /\ r[i] = q[i]) \/ (i = Len(q) + 1 /\ r[i] = m)
      <3>1. CASE i - Len(q) \in DOMAIN o /\ r[i] = o[i - Len(q)]
        BY <2>7, <3>1
      <3> QED
        BY <2>6, <3>1
    <2> QED
      BY <2>3, <2>8
  <1> HIDE DEF r
  <1>2. \A i \in DOMAIN q : i \in Nat /\ ~(Len(q) + 1 < i)
    BY <1>1
  <1>3. \A i \in DOMAIN q : Numbered(q[i]) => q[i].no \in Nat
    <2>1. \A i \in DOMAIN q : q[i] \in Command
      OBVIOUS
    <2> QED
      BY <2>1, Fields DEF Numbered
  <1>4. \A j \in DOMAIN box : box[j].no \in Nat
    <2>1. \A j \in DOMAIN box : box[j] \in Delivery
      OBVIOUS
    <2> QED
      BY <2>1 DEF Delivery
  <1>5. \A a \in Nat : (a <= top => a < top + 1 /\ a <= top + 1) /\ top + 1 <= top + 1 /\ ~(a < a)
    OBVIOUS
  <1>6. Ascends(q, box, x, y, top + 1)
    BY AscendsMore
  <1>7. \A i \in DOMAIN r : Own(r[i], x, y)
    BY <1>1 DEF Ascends
  <1>8. \A i \in DOMAIN r : Numbered(r[i]) =>
          r[i].no <= top + 1 /\ \A j \in DOMAIN box : box[j].origin = x => box[j].no < r[i].no
    BY <1>1, <1>3, <1>4, <1>5 DEF Ascends
  <1>9. ASSUME NEW i \in DOMAIN r, NEW j \in DOMAIN r, j < i, Numbered(r[j]), Numbered(r[i])
        PROVE  r[j].no < r[i].no
    <2>1. CASE i \in DOMAIN q /\ r[i] = q[i]
      <3>1. j \in DOMAIN q /\ r[j] = q[j]
        BY <1>1, <1>2, <1>9, <2>1
      <3> QED
        BY <1>9, <2>1, <3>1 DEF Ascends
    <2>2. CASE i = Len(q) + 1 /\ r[i] = m
      <3>1. j \in DOMAIN q /\ r[j] = q[j]
        <4>1. j # Len(q) + 1
          BY <1>1, <1>9, <2>2
        <4> QED
          BY <1>1, <4>1
      <3> QED
        BY <1>3, <1>5, <1>9, <2>2, <3>1 DEF Ascends
    <2> QED
      BY <1>1, <2>1, <2>2
  <1>10. Ascends(r, box, x, y, top + 1)
    BY <1>6, <1>7, <1>8, <1>9 DEF Ascends
  <1> QED
    BY <1>10 DEF r

\* What arrives goes into the box.
LEMMA AscendsGiven ==
    ASSUME NEW q \in Seq(Command), q # <<>>, NEW box \in Seq(Delivery), NEW x, NEW y, NEW top,
           Ascends(q, box, x, y, top), Numbered(Head(q)), NEW d \in Delivery, d.origin = x, d.no = Head(q).no
    PROVE  Ascends(Tail(q), Append(box, d), x, y, top)
  <1> DEFINE r == Tail(q)
             more == Append(box, d)
  <1>1. /\ Len(q) \in Nat /\ DOMAIN r = 1..(Len(q) - 1)
        /\ \A i \in DOMAIN r : i + 1 \in DOMAIN q /\ r[i] = q[i + 1]
    BY TailFacts
  <1>2. Head(q) = q[1] /\ 1 \in DOMAIN q
    OBVIOUS
  <1>3. \A j \in DOMAIN more : (j \in DOMAIN box /\ more[j] = box[j]) \/ more[j] = d
    OBVIOUS
  <1>4. Ascends(r, box, x, y, top)
    BY AscendsTail
  <1> HIDE DEF r, more
  <1>5. \A i \in DOMAIN r : 1 < i + 1
    BY <1>1
  <1>6. \A i \in DOMAIN r : Numbered(r[i]) => d.no < r[i].no
    BY <1>1, <1>2, <1>5 DEF Ascends
  <1>7. d.no <= top
    BY <1>2 DEF Ascends
  <1>8. Ascends(r, more, x, y, top)
    BY <1>3, <1>4, <1>6, <1>7 DEF Ascends
  <1> QED
    BY <1>8 DEF r, more

\* What arrives from others does not count.
LEMMA AscendsOthers ==
    ASSUME NEW q, NEW box \in Seq(Delivery), NEW x, NEW y, NEW top, Ascends(q, box, x, y, top),
           NEW d \in Delivery, d.origin # x
    PROVE  Ascends(q, Append(box, d), x, y, top)
  <1> DEFINE more == Append(box, d)
  <1>1. \A j \in DOMAIN more : (j \in DOMAIN box /\ more[j] = box[j]) \/ more[j] = d
    OBVIOUS
  <1> HIDE DEF more
  <1>2. Ascends(q, more, x, y, top)
    BY <1>1 DEF Ascends
  <1> QED
    BY <1>2 DEF more

------------------------------------------------------------------------------
(* All lines. *)

Lines(ch) == \A x, y \in Peer : Ascends(ch[x][y], inbox[y], x, y, sent[x])

LEMMA MeshLines == ASSUME MeshInv PROVE Lines(chan)
  BY DEF MeshInv, Orderly, Lines

LEMMA TakenLines ==
    ASSUME MeshInv, NEW n \in Peer, NEW s \in Peer, chan[s][n] # <<>>
    PROVE  Lines(Taken(s, n))
  <1>1. chan \in Chans /\ Lines(chan)
    BY MeshParts, MeshLines
  <1>2. chan[s][n] \in Seq(Command)
    BY <1>1 DEF Chans
  <1>3. Ascends(Tail(chan[s][n]), inbox[n], s, n, sent[s])
    <2> DEFINE q == chan[s][n]
    <2>1. Ascends(q, inbox[n], s, n, sent[s]) /\ q \in Seq(Command) /\ q # <<>>
      BY <1>1, <1>2 DEF Lines
    <2> HIDE DEF q
    <2>2. Ascends(Tail(q), inbox[n], s, n, sent[s])
      BY <2>1, AscendsTail
    <2> QED
      BY <2>2 DEF q
  <1>4. \A x, y \in Peer : Taken(s, n)[x][y] = IF x = s /\ y = n THEN Tail(chan[s][n]) ELSE chan[x][y]
    BY <1>1 DEF Taken, Chans
  <1> QED
    BY <1>1, <1>3, <1>4 DEF Lines

\* Nothing is sent.
LEMMA SilentPost ==
    ASSUME NEW ch \in Chans, NEW n \in Peer, NEW out, \A p \in Peer : out[p] = <<>>
    PROVE  \A x, y \in Peer : Post(ch, n, out)[x][y] = ch[x][y]
  <1>1. \A x, y \in Peer : ch[x][y] \in Seq(Command) /\ ch[x][y] \o <<>> = ch[x][y]
    BY DEF Chans
  <1> QED
    BY <1>1 DEF Post, Chans

\* One command is sent to each in S.
LEMMA PostOne ==
    ASSUME NEW ch \in Chans, NEW n \in Peer, NEW S, NEW m
    PROVE  \A x, y \in Peer : Post(ch, n, To(S, <<m>>))[x][y] =
              IF x = n /\ Linked(n, y) /\ y \in S THEN ch[x][y] \o <<m>> ELSE ch[x][y]
  <1>1. \A x, y \in Peer : ch[x][y] \in Seq(Command) /\ ch[x][y] \o <<>> = ch[x][y]
    BY DEF Chans
  <1> QED
    BY <1>1 DEF Post, To, Chans

LEMMA AskLines ==
    ASSUME NEW ch \in Chans, Lines(ch), NEW n \in Peer, NEW S, NEW m \in Command,
           ~Numbered(m), \A p \in Peer : Own(m, n, p)
    PROVE  Lines(Post(ch, n, To(S, <<m>>)))
  <1> DEFINE new == Post(ch, n, To(S, <<m>>))
  <1>1. \A x, y \in Peer : new[x][y] =
          IF x = n /\ Linked(n, y) /\ y \in S THEN ch[x][y] \o <<m>> ELSE ch[x][y]
    BY PostOne
  <1>2. ASSUME NEW y \in Peer PROVE Ascends(ch[n][y] \o <<m>>, inbox[y], n, y, sent[n])
    <2> DEFINE q == ch[n][y]
    <2>1. Ascends(q, inbox[y], n, y, sent[n]) /\ q \in Seq(Command) /\ Own(m, n, y)
      BY DEF Lines, Chans
    <2> HIDE DEF q
    <2>2. Ascends(q \o <<m>>, inbox[y], n, y, sent[n])
      BY <2>1, AscendsAsk
    <2> QED
      BY <2>2 DEF q
  <1> HIDE DEF new
  <1>3. Lines(new)
    BY <1>1, <1>2 DEF Lines
  <1> QED
    BY <1>3 DEF new

\* The next number is sent to those of S that are linked.
LEMMA SendLines ==
    ASSUME NEW ch \in Chans, Lines(ch), DataType, NEW n \in Peer, NEW S, NEW m \in Command,
           Numbered(m), m.no = sent[n] + 1, \A p \in S : Own(m, n, p),
           sent' = [sent EXCEPT ![n] = @ + 1], inbox' = inbox
    PROVE  \A x, y \in Peer :
             Ascends(Post(ch, n, To(S, <<m>>))[x][y], inbox'[y], x, y, sent'[x])
  <1> DEFINE new == Post(ch, n, To(S, <<m>>))
  <1>1. \A x, y \in Peer : new[x][y] =
          IF x = n /\ Linked(n, y) /\ y \in S THEN ch[x][y] \o <<m>> ELSE ch[x][y]
    BY PostOne
  <1>2. \A x \in Peer : sent'[x] = IF x = n THEN sent[n] + 1 ELSE sent[x]
    BY DEF DataType
  <1>3. ASSUME NEW y \in Peer, y \in S PROVE Ascends(ch[n][y] \o <<m>>, inbox[y], n, y, sent[n] + 1)
    <2> DEFINE q == ch[n][y]
               box == inbox[y]
               top == sent[n]
    <2>1. /\ Ascends(q, box, n, y, top) /\ q \in Seq(Command) /\ Own(m, n, y)
          /\ box \in Seq(Delivery) /\ top \in Nat /\ m.no = top + 1
      BY <1>3, BoundAssumption DEF Lines, Chans, DataType
    <2> HIDE DEF q, box, top
    <2>2. Ascends(q \o <<m>>, box, n, y, top + 1)
      BY <2>1, AscendsSend
    <2> QED
      BY <2>2 DEF q, box, top
  <1>4. ASSUME NEW y \in Peer PROVE Ascends(ch[n][y], inbox[y], n, y, sent[n] + 1)
    <2> DEFINE q == ch[n][y]
               box == inbox[y]
               top == sent[n]
    <2>1. /\ Ascends(q, box, n, y, top) /\ q \in Seq(Command)
          /\ box \in Seq(Delivery) /\ top \in Nat
      BY BoundAssumption DEF Lines, Chans, DataType
    <2> HIDE DEF q, box, top
    <2>2. Ascends(q, box, n, y, top + 1)
      BY <2>1, AscendsMore
    <2> QED
      BY <2>2 DEF q, box, top
  <1> HIDE DEF new
  <1>5. \A x, y \in Peer : Ascends(new[x][y], inbox'[y], x, y, sent'[x])
    BY <1>1, <1>2, <1>3, <1>4 DEF Lines
  <1> QED
    BY <1>5 DEF new

------------------------------------------------------------------------------
(* Boxes. *)

Sorted(box) ==
    \A j \in DOMAIN box :
        /\ box[j].from = box[j].origin
        /\ \A i \in 1..(j - 1) : box[i].origin = box[j].origin => box[i].no < box[j].no

LEMMA SortedGiven ==
    ASSUME NEW box \in Seq(Delivery), Sorted(box), NEW d \in Delivery, d.from = d.origin,
           \A j \in DOMAIN box : box[j].origin = d.origin => box[j].no < d.no
    PROVE  Sorted(Append(box, d))
  <1> DEFINE more == Append(box, d)
  <1>1. /\ Len(box) \in Nat /\ DOMAIN box = 1..Len(box) /\ DOMAIN more = 1..(Len(box) + 1)
        /\ \A i \in 1..Len(box) : more[i] = box[i]
        /\ more[Len(box) + 1] = d
    BY AppendProperties, LenProperties
  <1> HIDE DEF more
  <1>2. \A k \in Nat : \A j \in 1..(k + 1) :
          /\ j \in 1..k \/ j = k + 1
          /\ j \in 1..k => \A i \in 1..(j - 1) : i \in 1..k
          /\ j = k + 1 => \A i \in 1..(j - 1) : i \in 1..k
    OBVIOUS
  <1>3. ASSUME NEW j \in DOMAIN more
        PROVE  /\ more[j].from = more[j].origin
               /\ \A i \in 1..(j - 1) : more[i].origin = more[j].origin => more[i].no < more[j].no
    <2>1. CASE j \in 1..Len(box)
      <3>1. more[j] = box[j] /\ \A i \in 1..(j - 1) : more[i] = box[i]
        BY <1>1, <1>2, <2>1
      <3> QED
        BY <1>1, <2>1, <3>1 DEF Sorted
    <2>2. CASE j = Len(box) + 1
      <3>1. more[j] = d /\ \A i \in 1..(j - 1) : i \in DOMAIN box /\ more[i] = box[i]
        BY <1>1, <1>2, <1>3, <2>2
      <3> QED
        BY <3>1
    <2> QED
      BY <1>1, <1>2, <2>1, <2>2
  <1>4. Sorted(more)
    BY <1>3 DEF Sorted
  <1> QED
    BY <1>4 DEF more

\* s's next message is given to n's listeners.
LEMMA GivenLines ==
    ASSUME MeshInv, NEW n \in Peer, NEW s \in Peer, chan[s][n] # <<>>, Numbered(Head(chan[s][n])),
           NEW d \in Delivery, d.from = s, d.origin = s, d.no = Head(chan[s][n]).no,
           inbox' = [inbox EXCEPT ![n] = Append(@, d)], sent' = sent,
           \A x, y \in Peer : chan'[x][y] = Taken(s, n)[x][y]
    PROVE  (\A x, y \in Peer : Orderly(x, y)') /\ DeliveredInOrder'
  <1>1. chan \in Chans /\ Lines(chan) /\ Lines(Taken(s, n)) /\ DataType
    BY MeshParts, MeshLines, TakenLines
  <1>2. \A x, y \in Peer : chan'[x][y] = IF x = s /\ y = n THEN Tail(chan[s][n]) ELSE chan[x][y]
    BY <1>1 DEF Taken, Chans
  <1>3. \A y \in Peer : inbox'[y] = IF y = n THEN Append(inbox[n], d) ELSE inbox[y]
    BY <1>1 DEF DataType
  <1> DEFINE q == chan[s][n]
             box == inbox[n]
  <1>4. q \in Seq(Command) /\ q # <<>> /\ box \in Seq(Delivery) /\ Numbered(Head(q)) /\ d.no = Head(q).no
    BY <1>1 DEF Chans, DataType
  <1>5. \A x \in Peer : Ascends(chan[x][n], box, x, n, sent[x])
    BY <1>1 DEF Lines
  <1>6. Ascends(q, box, s, n, sent[s])
    BY <1>1 DEF Lines
  <1>7. /\ \A y \in Peer : y # n => inbox'[y] = inbox[y]
        /\ inbox'[n] = Append(box, d) /\ chan'[s][n] = Tail(q)
        /\ \A x \in Peer : x # s => chan'[x][n] = chan[x][n]
        /\ \A x, y \in Peer : y # n => chan'[x][y] = chan[x][y]
    BY <1>2, <1>3
  <1>8. Sorted(box)
    BY DEF MeshInv, DeliveredInOrder, Sorted
  <1> HIDE DEF q, box
  <1>9. Ascends(Tail(q), Append(box, d), s, n, sent[s])
    BY <1>4, <1>6, AscendsGiven
  <1>10. \A x \in Peer : x # s => Ascends(chan[x][n], Append(box, d), x, n, sent[x])
    BY <1>4, <1>5, AscendsOthers
  <1>11. \A x, y \in Peer : Orderly(x, y)'
    <2>1. ASSUME NEW x \in Peer, NEW y \in Peer PROVE Orderly(x, y)'
      <3>1. CASE y # n
        BY <1>1, <1>7, <3>1 DEF Lines, Orderly
      <3>2. CASE y = n /\ x = s
        BY <1>7, <1>9, <3>2 DEF Orderly
      <3>3. CASE y = n /\ x # s
        <4>1. Ascends(chan[x][n], Append(box, d), x, n, sent[x])
          BY <1>10, <3>3
        <4>2. chan'[x][y] = chan[x][n] /\ inbox'[y] = Append(box, d) /\ sent'[x] = sent[x]
          BY <1>7, <3>3
        <4> QED
          BY <3>3, <4>1, <4>2 DEF Orderly
      <3> QED
        BY <3>1, <3>2, <3>3
    <2> QED
      BY <2>1
  <1>12. Sorted(Append(box, d))
    <2>1. \A j \in DOMAIN box : box[j].origin = d.origin => box[j].no < d.no
      <3>1. Head(q) = q[1] /\ 1 \in DOMAIN q
        BY <1>4
      <3> QED
        BY <1>4, <1>6, <3>1 DEF Ascends
    <2> QED
      BY <1>4, <1>8, <2>1, SortedGiven
  <1>13. DeliveredInOrder'
    <2>1. \A y \in Peer : Sorted(inbox'[y])
      <3>1. \A y \in Peer : Sorted(inbox[y])
        BY DEF MeshInv, DeliveredInOrder, Sorted
      <3> QED
        BY <1>7, <1>12, <3>1
    <2> QED
      BY <2>1 DEF DeliveredInOrder, Sorted
  <1> QED
    BY <1>11, <1>13

------------------------------------------------------------------------------
(* Steps. *)

Easy == UNCHANGED spent /\ \A n \in Peer : Plain(n)'
Calm == (\A x, y \in Peer : Orderly(x, y)') /\ DeliveredInOrder'

LEMMA CalmSent ==
    ASSUME MeshInv, inbox' = inbox, \A x, y \in Peer : Ascends(chan'[x][y], inbox'[y], x, y, sent'[x])
    PROVE  Calm
  BY DEF Calm, Orderly, MeshInv, DeliveredInOrder

LEMMA CalmLines ==
    ASSUME MeshInv, UNCHANGED <<inbox, sent>>, NEW ch, Lines(ch),
           \A x, y \in Peer : chan'[x][y] = ch[x][y]
    PROVE  Calm
  BY CalmSent DEF Lines

LEMMA CalmStill == ASSUME MeshInv, UNCHANGED <<chan, inbox, sent>> PROVE Calm
  BY MeshLines, CalmLines

\* Where the thread goes on, and holds whom it held.
Moves(m) ==
    /\ phase'[m] # "crashed" /\ answer'[m] \notin {"refused", "reset"}
    /\ phase'[m] = "joining" => dial'[m] \in Peer
    /\ Held(m)' = Held(m)

LEMMA EasyMoves ==
    ASSUME MeshInv, UNCHANGED <<maps, spent>>, \A m \in Peer : Moves(m)
    PROVE  Easy
  <1>1. \A m \in Peer : Plain(m)
    BY DEF MeshInv
  <1> QED
    BY <1>1 DEF Easy, Plain, Moves, maps, Known

LEMMA EasyStill ==
    ASSUME MeshInv, UNCHANGED <<node, maps, spent>>
    PROVE  Easy
  <1>1. \A m \in Peer : Plain(m)
    BY DEF MeshInv
  <1>2. \A m \in Peer : Moves(m)
    BY <1>1 DEF Plain, Moves, maps, node, Held, Known
  <1> QED
    BY <1>2, EasyMoves

\* New peers are reached directly, and nothing is bridged.
LEMMA EasyConnected ==
    ASSUME MeshInv, NEW n \in Peer, NEW S \in SUBSET Peer, PeersConnected(n, S), UNCHANGED <<failed, spent>>,
           \A m \in Peer : /\ phase'[m] # "crashed" /\ answer'[m] \notin {"refused", "reset"}
                           /\ phase'[m] = "joining" => dial'[m] \in Peer,
           \A m, p \in Peer : p \in Held(m)' => m \in Held(p)'
    PROVE  Easy
  <1>1. \A m \in Peer : Plain(m)
    BY DEF MeshInv
  <1>2. MapsType /\ KeysAgree
    BY MeshParts
  <1>3. /\ dist'[n] = Emplace(dist[n], [p \in S |-> 0])
        /\ path'[n] = Emplace(path[n], [p \in S |-> Live(p)])
        /\ bridging'[n] = Emplace(bridging[n], [p \in S |-> <<>>])
    BY <1>2 DEF PeersConnected, MapsType, IsTotal
  <1>4. \A m \in Peer : m # n => dist'[m] = dist[m] /\ path'[m] = path[m] /\ bridging'[m] = bridging[m]
    BY <1>2 DEF PeersConnected, MapsType, IsTotal
  <1>5. DOMAIN path[n] = DOMAIN dist[n] /\ DOMAIN bridging[n] = DOMAIN dist[n]
    BY <1>2 DEF KeysAgree, Known
  <1>6. \A p \in DOMAIN dist[n] : path[n][p] = Live(p) /\ bridging[n][p] = <<>>
    BY <1>1 DEF Plain, Known
  <1>7. \A p \in DOMAIN dist'[n] : path'[n][p] = Live(p) /\ bridging'[n][p] = <<>>
    BY <1>3, <1>5, <1>6 DEF Emplace
  <1>8. ASSUME NEW m \in Peer, NEW p \in DOMAIN dist'[m]
        PROVE  path'[m][p] = Live(p) /\ bridging'[m][p] = <<>>
    BY <1>1, <1>4, <1>7, <1>8 DEF Plain, Known
  <1> QED
    BY <1>1, <1>8 DEF Easy, Plain, Known

\* Whom an instance dials it can reach, and it is there.
LEMMA NoDialFails ==
    ASSUME MeshInv, Mesh, NEW n \in Peer, dial[n] # NoPeer
    PROVE  ~DialFails(n)
  <1>1. NodeType /\ Plain(n) /\ Thread(n)
    BY MeshParts
  <1>2. dial[n] \in Peer /\ dial[n] # n
    BY <1>1 DEF NodeType, Thread
  <1>3. <<n, dial[n]>> \in Reach /\ Plain(dial[n])
    BY <1>2, MeshParts DEF Mesh
  <1> QED
    BY <1>1, <1>3 DEF DialFails, Plain

LEMMA NoAnswer ==
    ASSUME ConnInv, NEW n \in Peer, phase[n] \notin {"joining", "scanning"} \/ dial[n] = NoPeer
    PROVE  dial[n] = NoPeer /\ answer[n] = "none"
  <1>1. NodeType /\ Thread(n)
    BY ConnParts DEF Threads
  <1>2. dial[n] = NoPeer
    BY <1>1 DEF Thread
  <1>3. answer[n] \in {"none", "accepted", "refused", "reset"} /\ (answer[n] # "none" => dial[n] \in Peer)
    BY <1>1 DEF NodeType
  <1> QED
    BY <1>2, <1>3, PeerAssumption

LEMMA ThreadStepMesh ==
    ASSUME MeshInv, Mesh, NEW n \in Peer, NEW p \in Peer,
           Awake(n) \/ Connect(n, p) \/ ScanDial(n, p) \/ ScanConnects(n) \/ HandlePeersList(n, p)
    PROVE  Easy
  <1>0. ConnInv /\ NodeType /\ \A m \in Peer : Plain(m)
    BY MeshParts
  <1>1. UNCHANGED <<maps, spent>>
    BY DEF Awake, Connect, ScanDial, ScanConnects, HandlePeersList, data
  <1>2. \A m \in Peer : Known(m)' = Known(m)
    BY <1>1 DEF maps, Known
  <1>3. \A m \in Peer : m # n => /\ phase'[m] = phase[m] /\ dial'[m] = dial[m]
                                 /\ answer'[m] = answer[m] /\ got'[m] = got[m]
    BY <1>0 DEF Awake, Connect, ScanDial, ScanConnects, HandlePeersList, HangUp, NodeType
  <1>4. \A m \in Peer : m # n => Moves(m)
    BY <1>0, <1>2, <1>3 DEF Moves, Held, Plain
  <1>5. Moves(n)
    <2>1. CASE Awake(n)
      BY <1>0, <1>2, <2>1 DEF Awake, Moves, Held, Plain, NodeType
    <2>2. CASE Connect(n, p)
      <3>1. answer[n] = "none"
        BY <1>0, <2>2, NoAnswer DEF Connect
      <3>2. phase'[n] = "joining" /\ dial'[n] = p /\ answer'[n] = "none" /\ got'[n] = got[n]
        BY <1>0, <2>2 DEF Connect, NodeType
      <3> QED
        BY <1>2, <3>1, <3>2 DEF Moves, Held
    <2>3. CASE ScanDial(n, p)
      <3>1. answer[n] = "none"
        BY <1>0, <2>3, NoAnswer DEF ScanDial
      <3>2. phase'[n] = "scanning" /\ answer'[n] = "none" /\ got'[n] = got[n]
        BY <1>0, <2>3, <3>1 DEF ScanDial, NodeType
      <3> QED
        BY <1>2, <3>1, <3>2 DEF Moves, Held
    <2>4. CASE ScanConnects(n)
      <3>1. /\ phase'[n] = "scanning" /\ answer'[n] = "none" /\ got'[n] = got[n] \cup {dial[n]}
            /\ answer[n] = "accepted"
        BY <1>0, <2>4 DEF ScanConnects, HangUp, NodeType
      <3> QED
        BY <1>2, <3>1 DEF Moves, Held
    <2>5. CASE HandlePeersList(n, p)
      <3>1. phase'[n] = "scanning" /\ answer'[n] = answer[n] /\ got'[n] = got[n] /\ dial'[n] = dial[n]
        BY <1>0, <2>5 DEF HandlePeersList, NodeType
      <3> QED
        BY <1>0, <1>2, <3>1 DEF Moves, Held, Plain
    <2> QED
      BY <2>1, <2>2, <2>3, <2>4, <2>5
  <1> QED
    BY <1>1, <1>4, <1>5, EasyMoves

\* try_connect is done: the peer that was dialled is known.
LEMMA JoinSucceedsMesh ==
    ASSUME MeshInv, NEW n \in Peer, JoinSucceeds(n) PROVE Easy /\ Calm
  <1>0. /\ NodeType /\ MapsType /\ chan \in Chans /\ Lines(chan)
        /\ \A m \in Peer : Plain(m) /\ Thread(m)
    BY MeshParts, MeshLines
  <1>1. /\ answer[n] = "accepted" /\ dial[n] \in Peer /\ PeersConnected(n, {dial[n]})
        /\ phase' = [phase EXCEPT ![n] = "running"] /\ dial' = [dial EXCEPT ![n] = NoPeer]
        /\ answer' = [answer EXCEPT ![n] = "none"] /\ UNCHANGED <<got, failed, spent, data>>
        /\ chan' = Post(chan, n, To({dial[n]}, <<RetrievePeers>>))
    BY <1>0 DEF JoinSucceeds, HangUp, NodeType
  <1>2. \A m \in Peer : Known(m)' = IF m = n THEN Known(n) \cup {dial[n]} ELSE Known(m)
    BY <1>0, <1>1, ConnectedKeys
  <1>3. \A m \in Peer : Held(m)' = Held(m)
    BY <1>0, <1>1, <1>2 DEF Held, NodeType
  <1>4. \A m \in Peer : /\ phase'[m] # "crashed" /\ answer'[m] \notin {"refused", "reset"}
                        /\ phase'[m] = "joining" => dial'[m] \in Peer
    BY <1>0, <1>1 DEF Plain, NodeType
  <1>5. \A m, p \in Peer : p \in Held(m)' => m \in Held(p)'
    BY <1>0, <1>3 DEF Plain
  <1>6. Easy
    BY <1>1, <1>4, <1>5, EasyConnected
  <1>7. RetrievePeers \in Command /\ ~Numbered(RetrievePeers) /\ \A p \in Peer : Own(RetrievePeers, n, p)
    BY Commands DEF Sendable, RetrievePeers, Numbered, Own
  <1>8. Lines(Post(chan, n, To({dial[n]}, <<RetrievePeers>>)))
    BY <1>0, <1>7, AskLines
  <1>9. Calm
    BY <1>1, <1>8, CalmLines DEF data
  <1> QED
    BY <1>6, <1>9

\* peers_list_handler is done: no dial has failed, so nobody is asked for a distance.
LEMMA ScanEndsMesh ==
    ASSUME MeshInv, NEW n \in Peer, ScanEnds(n) PROVE Easy /\ Calm
  <1>0. /\ NodeType /\ MapsType /\ chan \in Chans /\ Lines(chan)
        /\ \A m \in Peer : Plain(m) /\ Thread(m)
    BY MeshParts, MeshLines
  <1> DEFINE asked == [i \in DOMAIN failed[n] |-> RetrieveDistance(failed[n][i])]
             out == To(Direct(n) \cup got[n], asked)
  <1>1. /\ PeersConnected(n, got[n]) /\ got[n] \in SUBSET Peer
        /\ phase' = [phase EXCEPT ![n] = "running"] /\ got' = [got EXCEPT ![n] = {}]
        /\ UNCHANGED <<dial, answer, failed, spent, data>> /\ chan' = Post(chan, n, out)
    BY <1>0 DEF ScanEnds, NodeType
  <1>2. \A m \in Peer : Known(m)' = IF m = n THEN Known(n) \cup got[n] ELSE Known(m)
    BY <1>0, <1>1, ConnectedKeys
  <1>3. \A m \in Peer : Held(m)' = Held(m)
    BY <1>0, <1>1, <1>2 DEF Held, NodeType
  <1>4. \A m \in Peer : /\ phase'[m] # "crashed" /\ answer'[m] \notin {"refused", "reset"}
                        /\ phase'[m] = "joining" => dial'[m] \in Peer
    BY <1>0, <1>1 DEF Plain, NodeType
  <1>5. \A m, p \in Peer : p \in Held(m)' => m \in Held(p)'
    BY <1>0, <1>3 DEF Plain
  <1>6. Easy
    BY <1>1, <1>4, <1>5, EasyConnected
  <1>7. asked = <<>>
    BY <1>0 DEF Plain
  <1> HIDE DEF asked
  <1>8. \A p \in Peer : out[p] = <<>>
    BY <1>7 DEF To
  <1> HIDE DEF out
  <1>9. \A x, y \in Peer : chan'[x][y] = chan[x][y]
    BY <1>0, <1>1, <1>8, SilentPost
  <1>10. Calm
    BY <1>0, <1>1, <1>9, CalmLines DEF data
  <1> QED
    BY <1>6, <1>10

\* accept: the two hold each other from now on, and neither knew the other.
LEMMA AcceptMesh ==
    ASSUME MeshInv, Mesh, NEW n \in Peer, NEW d \in Peer, Accept(n, d) PROVE Easy /\ Calm
  <1>0. ConnInv /\ NodeType /\ MapsType /\ \A m \in Peer : Plain(m) /\ Thread(m)
    BY MeshParts
  <1>1. /\ phase[n] = "running" /\ dial[d] = n /\ answer[d] = "none"
        /\ UNCHANGED <<phase, dial, todo, got, data, spent>>
    BY DEF Accept, IdleThread
  <1>2. n # d
    BY <1>0, <1>1 DEF Thread
  <1>3. n \notin Held(d)
    BY <1>0, <1>1 DEF Thread, Held
  <1>4. d \notin Known(n)
    BY <1>0, <1>3 DEF Plain, Held
  <1>5. /\ answer' = [answer EXCEPT ![d] = "accepted"] /\ PeersConnected(n, {d})
        /\ UNCHANGED <<failed, chan>>
    BY <1>4 DEF Accept, Mesh
  <1>6. dial[n] = NoPeer /\ answer[n] = "none"
    BY <1>0, <1>1, NoAnswer
  <1>7. \A m \in Peer : Known(m)' = IF m = n THEN Known(n) \cup {d} ELSE Known(m)
    BY <1>0, <1>5, ConnectedKeys
  <1>8. \A m \in Peer : Held(m)' = CASE m = n -> Held(n) \cup {d}
                                     [] m = d -> Held(d) \cup {n}
                                     [] OTHER -> Held(m)
    BY <1>0, <1>1, <1>2, <1>5, <1>6, <1>7 DEF Held, NodeType
  <1>9. \A m, p \in Peer : p \in Held(m)' => m \in Held(p)'
    <2>1. ASSUME NEW m \in Peer, NEW p \in Peer, p \in Held(m)' PROVE m \in Held(p)'
      <3>1. p \in Held(m) \/ (m = n /\ p = d) \/ (m = d /\ p = n)
        BY <1>8, <2>1
      <3>2. p \in Held(m) => m \in Held(p)
        BY <1>0 DEF Plain
      <3>3. m \in Held(p) => m \in Held(p)'
        BY <1>8
      <3> QED
        BY <1>2, <1>8, <3>1, <3>2, <3>3
    <2> QED
      BY <2>1
  <1>10. \A m \in Peer : /\ phase'[m] # "crashed" /\ answer'[m] \notin {"refused", "reset"}
                         /\ phase'[m] = "joining" => dial'[m] \in Peer
    BY <1>0, <1>1, <1>5 DEF Plain, NodeType
  <1>11. Easy
    BY <1>1, <1>5, <1>9, <1>10, EasyConnected
  <1>12. Calm
    BY <1>1, <1>5, CalmStill DEF data
  <1> QED
    BY <1>11, <1>12

\* send_to_all: the number goes to the direct peers.
LEMMA SendToAllMesh ==
    ASSUME MeshInv, NEW n \in Peer, SendToAll(n) PROVE Easy /\ Calm
  <1>0. chan \in Chans /\ Lines(chan) /\ DataType
    BY MeshParts, MeshLines
  <1> DEFINE m == ToAll(n, sent[n] + 1)
             S == Direct(n)
  <1>1. /\ sent[n] + 1 \in 1..MaxSent /\ sent' = [sent EXCEPT ![n] = @ + 1] /\ inbox' = inbox
        /\ chan' = Post(chan, n, To(S, <<m>>)) /\ UNCHANGED <<node, maps, spent>>
    BY <1>0, BoundAssumption DEF SendToAll, DataType
  <1>2. m \in Command /\ Numbered(m) /\ m.no = sent[n] + 1 /\ \A p \in S : Own(m, n, p)
    BY <1>1 DEF ToAll, Command, Numbered, Own
  <1> HIDE DEF m, S
  <1>3. \A x, y \in Peer : Ascends(chan'[x][y], inbox'[y], x, y, sent'[x])
    BY <1>0, <1>1, <1>2, SendLines
  <1> QED
    BY <1>1, <1>3, CalmSent, EasyStill

\* send_to: the pointer is live and leads to the target itself.
LEMMA SendToMesh ==
    ASSUME MeshInv, NEW n \in Peer, NEW p \in Peer, SendTo(n, p) PROVE Easy /\ Calm
  <1>0. chan \in Chans /\ Lines(chan) /\ DataType /\ Plain(n)
    BY MeshParts, MeshLines
  <1> DEFINE m == ToOne(n, p, sent[n] + 1)
             S == {p}
  <1>1. path[n][p] = Live(p)
    BY <1>0 DEF SendTo, Plain
  <1>2. Fate({path[n][p]}) = {"intact"} /\ path[n][p].to = p
    BY <1>1 DEF Fate, Live
  <1>3. /\ sent[n] + 1 \in 1..MaxSent /\ sent' = [sent EXCEPT ![n] = @ + 1] /\ inbox' = inbox
        /\ chan' = Post(chan, n, To(S, <<m>>)) /\ UNCHANGED <<node, maps, spent>>
    <2>1. sent[n] + 1 \in 1..MaxSent
      BY <1>0, BoundAssumption DEF SendTo, DataType
    <2>2. sent' = [sent EXCEPT ![n] = @ + 1] /\ inbox' = inbox /\ UNCHANGED spent
      BY DEF SendTo
    <2>3. chan' = Post(chan, n, To(S, <<m>>)) /\ UNCHANGED <<node, maps>>
      BY <1>2 DEF SendTo
    <2> QED
      BY <2>1, <2>2, <2>3
  <1>4. m \in Command /\ Numbered(m) /\ m.no = sent[n] + 1 /\ \A q \in S : Own(m, n, q)
    BY <1>3 DEF ToOne, Command, Numbered, Own
  <1> HIDE DEF m, S
  <1>5. \A x, y \in Peer : Ascends(chan'[x][y], inbox'[y], x, y, sent'[x])
    BY <1>0, <1>3, <1>4, SendLines
  <1> QED
    BY <1>3, <1>5, CalmSent, EasyStill

\* What is next to be handled is s's own.
LEMMA HeadOwn ==
    ASSUME MeshInv, NEW n \in Peer, NEW s \in Peer, NEW c, Receives(n, s, c)
    PROVE  /\ c \in {"retrieve_peers", "peers_list", "send_to_all", "send_to"}
           /\ Own(Head(chan[s][n]), s, n) /\ Head(chan[s][n]).cmd = c /\ Head(chan[s][n]) \in Command
           /\ chan[s][n] # <<>> /\ s \in Known(n) /\ s # n
  <1>1. Ascends(chan[s][n], inbox[n], s, n, sent[s]) /\ NetType /\ Thread(n)
    BY MeshParts DEF MeshInv, Orderly
  <1>2. /\ Head(chan[s][n]) \in Command /\ Head(chan[s][n]).cmd = c
        /\ chan[s][n] # <<>> /\ s \in Known(n)
    BY <1>1, HeadType
  <1>3. Head(chan[s][n]) = chan[s][n][1] /\ 1 \in DOMAIN chan[s][n]
    <2>1. chan[s][n] \in Seq(Command)
      BY <1>1 DEF NetType
    <2> QED
      BY <1>2, <2>1
  <1>4. Own(Head(chan[s][n]), s, n)
    BY <1>1, <1>3 DEF Ascends
  <1> QED
    BY <1>1, <1>2, <1>4 DEF Own, Thread, Held

LEMMA HandleRetrievePeersMesh ==
    ASSUME MeshInv, NEW n \in Peer, NEW s \in Peer, HandleRetrievePeers(n, s) PROVE Easy /\ Calm
  <1>0. chan \in Chans /\ MapsType
    BY MeshParts
  <1>1. chan[s][n] # <<>>
    BY HeadOwn DEF HandleRetrievePeers
  <1> DEFINE ch == Taken(s, n)
             m == PeersList(Known(n))
  <1>2. chan' = Post(ch, n, To({s}, <<m>>)) /\ UNCHANGED <<node, maps, inbox, sent, spent>>
    BY DEF HandleRetrievePeers, Reply, data
  <1>3. ch \in Chans /\ Lines(ch)
    BY <1>0, <1>1, TakenChans, TakenLines
  <1>4. Known(n) \in SUBSET Peer
    BY <1>0 DEF MapsType, IsMap, Known
  <1>5. m \in Command /\ ~Numbered(m) /\ \A p \in Peer : Own(m, n, p)
    BY <1>4, Commands DEF Sendable, PeersList, Numbered, Own
  <1> HIDE DEF ch, m
  <1>6. Lines(Post(ch, n, To({s}, <<m>>)))
    BY <1>3, <1>5, AskLines
  <1> QED
    BY <1>2, <1>6, CalmLines, EasyStill

LEMMA HandlePeersListMesh ==
    ASSUME MeshInv, Mesh, NEW n \in Peer, NEW s \in Peer, HandlePeersList(n, s) PROVE Easy /\ Calm
  <1>1. chan[s][n] # <<>>
    BY HeadOwn DEF HandlePeersList
  <1>2. chan' = Taken(s, n) /\ UNCHANGED <<inbox, sent>>
    BY DEF HandlePeersList, data
  <1>3. Calm
    BY <1>1, <1>2, TakenLines, CalmLines
  <1> QED
    BY <1>3, ThreadStepMesh

\* s's broadcast is given to n's listeners, and bridged to nobody.
LEMMA HandleSendToAllMesh ==
    ASSUME MeshInv, NEW n \in Peer, NEW s \in Peer, HandleSendToAll(n, s) PROVE Easy /\ Calm
  <1>0. chan \in Chans /\ Plain(n)
    BY MeshParts
  <1> DEFINE m == Head(chan[s][n])
             d == [from |-> s, origin |-> s, no |-> m.no, toAll |-> TRUE]
  <1>1. m.cmd = "send_to_all" /\ m.origin = s /\ m.no \in 1..MaxSent /\ chan[s][n] # <<>> /\ s \in Known(n)
    BY HeadOwn, Fields DEF HandleSendToAll, Own
  <1>2. bridging[n][s] = <<>>
    BY <1>0, <1>1 DEF Plain
  <1>3. Fate(ToSet(bridging[n][s])) = {"intact"}
    BY <1>2 DEF Fate, ToSet
  <1>4. \A p \in Peer : Copies(n, s, p, "intact") = 0
    <2>1. \A p \in Peer : {i \in DOMAIN bridging[n][s] :
                             /\ bridging[n][s][i].to = p
                             /\ bridging[n][s][i].live \/ "intact" = "intact"} = {}
      BY <1>2
    <2> QED
      BY <2>1, FS_EmptySet DEF Copies
  <1> DEFINE out == [p \in Peer |-> [i \in 1..Copies(n, s, p, "intact") |-> m]]
  <1>5. /\ Reply(n, s, out) /\ UNCHANGED <<maps, sent, spent>>
        /\ inbox' = [inbox EXCEPT ![n] = Append(@, d)]
    BY <1>1, <1>3 DEF HandleSendToAll, Deliver
  <1>6. \A p \in Peer : out[p] = <<>>
    BY <1>4
  <1>7. d \in Delivery /\ d.from = s /\ d.origin = s /\ d.no = m.no /\ Numbered(m)
    BY <1>1 DEF Delivery, Numbered
  <1> HIDE DEF out, d
  <1>8. \A x, y \in Peer : chan'[x][y] = Taken(s, n)[x][y]
    BY <1>0, <1>1, <1>5, <1>6, TakenChans, SilentPost DEF Reply
  <1>9. Calm
    BY <1>1, <1>5, <1>7, <1>8, GivenLines DEF Calm
  <1> QED
    BY <1>5, <1>9, EasyStill DEF Reply

\* s's private message is for n, which knows s.
LEMMA HandleSendToMesh ==
    ASSUME MeshInv, NEW n \in Peer, NEW s \in Peer, HandleSendTo(n, s) PROVE Easy /\ Calm
  <1>0. chan \in Chans
    BY MeshParts
  <1> DEFINE m == Head(chan[s][n])
             d == [from |-> s, origin |-> s, no |-> m.no, toAll |-> FALSE]
             out == To({}, <<>>)
  <1>1. /\ m.cmd = "send_to" /\ m.sender = s /\ m.target = n /\ m.no \in 1..MaxSent
        /\ chan[s][n] # <<>> /\ s \in Known(n)
    BY HeadOwn, Fields DEF HandleSendTo, Own
  <1>2. /\ Reply(n, s, out) /\ UNCHANGED <<maps, sent, spent>>
        /\ inbox' = [inbox EXCEPT ![n] = Append(@, d)]
    BY <1>1 DEF HandleSendTo, Deliver
  <1>3. \A p \in Peer : out[p] = <<>>
    BY DEF To
  <1>4. d \in Delivery /\ d.from = s /\ d.origin = s /\ d.no = m.no /\ Numbered(m)
    BY <1>1 DEF Delivery, Numbered
  <1> HIDE DEF out, d
  <1>5. \A x, y \in Peer : chan'[x][y] = Taken(s, n)[x][y]
    BY <1>0, <1>1, <1>2, <1>3, TakenChans, SilentPost DEF Reply
  <1>6. Calm
    BY <1>1, <1>2, <1>4, <1>5, GivenLines DEF Calm
  <1> QED
    BY <1>2, <1>6, EasyStill DEF Reply

LEMMA ProgressMesh == ASSUME MeshInv, Mesh, NEW n \in Peer, Progress(n) PROVE Easy /\ Calm
  <1>1. ASSUME NEW s \in Peer, Receive(n, s) PROVE Easy /\ Calm
    <2>1. /\ ~HandleEof(n, s) /\ ~HandleRetrieveDistance(n, s) /\ ~HandleUpdateDistance(n, s)
          /\ ~HandleForwardTo(n, s) /\ ~HandleForwardingTo(n, s)
      BY HeadOwn DEF HandleEof, HandleRetrieveDistance, HandleUpdateDistance, HandleForwardTo,
                     HandleForwardingTo
    <2> QED
      BY <1>1, <2>1, HandleRetrievePeersMesh, HandlePeersListMesh, HandleSendToAllMesh,
         HandleSendToMesh DEF Receive
  <1>2. ASSUME NEW p \in Peer, ScanDial(n, p) \/ ScanConnects(n) PROVE Easy /\ Calm
    <2>1. UNCHANGED <<chan, inbox, sent>>
      BY <1>2 DEF ScanDial, ScanConnects, net, data
    <2> QED
      BY <1>2, <2>1, ThreadStepMesh, CalmStill
  <1>3. ~JoinFails(n) /\ ~ScanFails(n) /\ ~ScanThrows(n)
    <2>1. phase[n] = "joining" => dial[n] # NoPeer
      BY MeshParts, PeerAssumption DEF Plain
    <2>2. answer[n] # "reset"
      BY MeshParts DEF Plain
    <2> QED
      BY <2>1, <2>2, NoDialFails DEF JoinFails, ScanFails, ScanThrows
  <1> QED
    BY <1>1, <1>2, <1>3, JoinSucceedsMesh, ScanEndsMesh, AcceptMesh DEF Progress

LEMMA ExternalMesh == ASSUME MeshInv, Mesh, NEW n \in Peer, External(n) PROVE Easy /\ Calm
  <1>1. ASSUME NEW p \in Peer, Awake(n) \/ Connect(n, p) PROVE Easy /\ Calm
    <2>1. UNCHANGED <<chan, inbox, sent>>
      BY <1>1 DEF Awake, Connect, net, data
    <2> QED
      BY <1>1, <2>1, ThreadStepMesh, CalmStill
  <1>2. spent.leaves = 0 /\ spent.timeouts = 0 /\ spent.crashes = 0
    BY DEF MeshInv
  <1>3. ~Leave(n) /\ ~Crash(n) /\ \A p \in Peer : ~Timeout(n, p)
    BY <1>2 DEF Mesh, Leave, Crash, Timeout
  <1> QED
    BY <1>1, <1>3, SendToAllMesh, SendToMesh DEF External

LEMMA InitMesh == Init => MeshInv
  <1> SUFFICES ASSUME Init PROVE MeshInv
    OBVIOUS
  <1>1. ConnInv
    BY InitConn
  <1>2. \A n \in Peer : Plain(n)
    BY DEF Init, Plain, Known, Held, Empty
  <1>3. \A x, y \in Peer : chan[x][y] = <<>> /\ inbox[x] = <<>>
    BY DEF Init
  <1>4. (\A x, y \in Peer : Orderly(x, y)) /\ DeliveredInOrder
    BY <1>3 DEF Orderly, Ascends, DeliveredInOrder
  <1> QED
    BY <1>1, <1>2, <1>4 DEF MeshInv, Init

LEMMA NextMesh == MeshInv /\ Mesh /\ [Next]_vars => MeshInv'
  <1> SUFFICES ASSUME MeshInv, Mesh, [Next]_vars PROVE MeshInv'
    OBVIOUS
  <1>1. ConnInv'
    BY NextConn DEF MeshInv
  <1>2. Easy /\ Calm
    <2>1. CASE UNCHANGED vars
      BY <2>1, EasyStill, CalmStill DEF vars, net, data
    <2> QED
      BY <2>1, ProgressMesh, ExternalMesh DEF Next
  <1> QED
    BY <1>1, <1>2 DEF Easy, Calm, MeshInv

LEMMA MeshInvariance == ASSUME Mesh PROVE Spec => []MeshInv
  <1>1. MeshInv /\ [Next]_vars => MeshInv'
    BY NextMesh
  <1> QED
    BY <1>1, InitMesh, PTL DEF Spec

\* In a network without obstacles or departures no handler throws or follows a dead
\* pointer: whatever is joined, sent and received, no process ends by itself.
THEOREM MeshNeverCrashes == ASSUME Mesh PROVE Spec => []NoSelfCrash
  <1>1. MeshInv => NoSelfCrash
    <2> SUFFICES ASSUME MeshInv PROVE NoSelfCrash
      OBVIOUS
    <2>1. {n \in Peer : phase[n] = "crashed"} = {} /\ spent.crashes = 0
      BY DEF MeshInv, Plain
    <2> QED
      BY <2>1, FS_EmptySet DEF NoSelfCrash
  <1> QED
    BY <1>1, MeshInvariance, PTL

\* There, what one instance sends another, broadcast or private, is handed over under
\* its own name, in the order it was sent, and never twice.
THEOREM MeshDeliversInOrder == ASSUME Mesh PROVE Spec => []DeliveredInOrder
  <1>1. MeshInv => DeliveredInOrder
    BY DEF MeshInv
  <1> QED
    BY <1>1, MeshInvariance, PTL

\* No message, broadcast or private, is handed over twice at an instance: they come in
\* the order they were sent (send_to_all_handler, send_to_handler).
THEOREM MeshDeliversOnce == ASSUME Mesh PROVE Spec => []DeliveredOnce
  <1>1. MeshInv => DeliveredOnce
    <2> SUFFICES ASSUME MeshInv, NEW n \in Peer, NEW i \in DOMAIN inbox[n], NEW j \in DOMAIN inbox[n],
                        inbox[n][i].origin = inbox[n][j].origin, inbox[n][i].no = inbox[n][j].no
                 PROVE  i = j
      BY DEF DeliveredOnce
    <2>1. inbox[n] \in Seq(Delivery)
      BY MeshParts DEF DataType
    <2>2. inbox[n][i] \in Delivery /\ DOMAIN inbox[n] = 1..Len(inbox[n]) /\ Len(inbox[n]) \in Nat
      BY <2>1, LenProperties
    <2>3. inbox[n][i].no \in Nat
      BY <2>2 DEF Delivery
    <2>4. ~(i \in 1..(j - 1)) /\ ~(j \in 1..(i - 1))
      BY <2>3 DEF MeshInv, DeliveredInOrder
    <2> QED
      BY <2>2, <2>4
  <1> QED
    BY <1>1, MeshInvariance, PTL

------------------------------------------------------------------------------
(***************************************************************************)
(* Bridges.                                                                *)
(***************************************************************************)
\* Instances join and die, but none leaves to come back, and none falls silent.
NoReturn == MaxLeaves = 0 /\ MaxTimeouts = 0

\* y is dead, and its connection with n is forgotten.
Lost(n, y) == phase[y] = "crashed" /\ y \notin Held(n)

\* Where a list of pointers leads to y.
Tos(q, y) == {i \in DOMAIN q : q[i].to = y}

Points(n) ==
    \A x \in Known(n) : \A i \in DOMAIN bridging[n][x] :
        bridging[n][x][i].to \in Known(n) \/ Lost(n, bridging[n][x][i].to)
Paired(n) ==
    \A x, y \in Known(n) : Cardinality(Tos(bridging[n][x], y)) = Cardinality(Tos(bridging[n][y], x))

\* An end that closes is that of a dead process.
Lasting == \A e \in open : <<e[2], e[1]>> \in open \/ phase[e[2]] = "crashed"

BridgeInv ==
    /\ ConnInv
    /\ \E k \in Nat : spent = [leaves |-> 0, timeouts |-> 0, crashes |-> k]
    /\ Lasting
    /\ \A n \in Peer : Points(n) /\ Paired(n)

LEMMA PairedIsPaired == (\A n \in Peer : Paired(n)) <=> BridgesArePaired
  BY DEF Paired, BridgesArePaired, Copies, Tos

LEMMA BridgeParts ==
    ASSUME BridgeInv
    PROVE  /\ ConnInv /\ Inv /\ Threads /\ NodeType /\ MapsType /\ KeysAgree /\ NetType /\ DataType
           /\ PipesOf(open, chan) /\ Lasting /\ \A x \in Peer : Points(x) /\ Paired(x) /\ Thread(x)
  BY ConnParts DEF BridgeInv, Threads

------------------------------------------------------------------------------
(* Lists of pointers. *)

LEMMA TosFinite ==
    ASSUME NEW q \in Seq(Ref), NEW y PROVE IsFiniteSet(Tos(q, y)) /\ Cardinality(Tos(q, y)) \in Nat
  <1>1. Len(q) \in Nat /\ Tos(q, y) \subseteq 1..Len(q)
    BY DEF Tos
  <1>2. IsFiniteSet(1..Len(q))
    BY <1>1, FS_Interval
  <1> QED
    BY <1>1, <1>2, FS_Subset, FS_CardinalityType

LEMMA TosAppend ==
    ASSUME NEW q \in Seq(Ref), NEW r \in Ref, NEW y
    PROVE  Cardinality(Tos(q \o <<r>>, y)) = Cardinality(Tos(q, y)) + IF r.to = y THEN 1 ELSE 0
  <1> DEFINE more == q \o <<r>>
             l == Len(q) + 1
  <1>1. /\ Len(q) \in Nat /\ DOMAIN q = 1..Len(q) /\ DOMAIN more = 1..(Len(q) + 1)
        /\ \A i \in 1..Len(q) : more[i] = q[i]
        /\ more[l] = r
    OBVIOUS
  <1> HIDE DEF more
  <1>2. \A k \in Nat : 1..(k + 1) = (1..k) \cup {k + 1} /\ k + 1 \notin 1..k
    OBVIOUS
  <1>3. DOMAIN more = DOMAIN q \cup {l} /\ l \notin DOMAIN q /\ \A i \in DOMAIN q : more[i] = q[i]
    BY <1>1, <1>2
  <1>4. Cardinality(Tos(q, y)) \in Nat /\ IsFiniteSet(Tos(q, y))
    BY TosFinite
  <1> HIDE DEF l
  <1>5. CASE r.to = y
    <2>1. Tos(more, y) = Tos(q, y) \cup {l} /\ l \notin Tos(q, y)
      BY <1>1, <1>3, <1>5 DEF Tos
    <2>2. Cardinality(Tos(more, y)) = Cardinality(Tos(q, y)) + 1
      BY <1>4, <2>1, FS_AddElement
    <2> QED
      BY <1>5, <2>2 DEF more
  <1>6. CASE r.to # y
    <2>1. Tos(more, y) = Tos(q, y)
      BY <1>1, <1>3, <1>6 DEF Tos
    <2> QED
      BY <1>4, <1>6, <2>1 DEF more
  <1> QED
    BY <1>5, <1>6

LEMMA TosBury ==
    ASSUME NEW q, NEW p, NEW y
    PROVE  Tos([i \in DOMAIN q |-> Bury(q[i], p)], y) = Tos(q, y)
  <1>1. \A r : Bury(r, p).to = r.to
    BY DEF Bury, Dead
  <1> QED
    BY <1>1 DEF Tos

------------------------------------------------------------------------------
(* Steps. *)

\* The dead stay dead, and nobody comes to hold them.
Onward ==
    /\ UNCHANGED spent \/ spent' = [spent EXCEPT !.crashes = @ + 1]
    /\ \A y \in Peer : phase[y] = "crashed" => phase'[y] = "crashed"
    /\ \A n, y \in Peer : y \in Held(n)' => y \in Held(n) \/ phase[y] # "crashed"
    /\ Lasting'

LostNext(n, y) == phase'[y] = "crashed" /\ y \notin Held(n)'

LEMMA LostStays == ASSUME Onward, NEW n \in Peer, NEW y \in Peer, Lost(n, y) PROVE LostNext(n, y)
  BY DEF Onward, Lost, LostNext

\* An instance whose bridges stay.
LEMMA SameBridges ==
    ASSUME BridgeInv, Onward, NEW n \in Peer, Known(n)' = Known(n), bridging'[n] = bridging[n]
    PROVE  Points(n)' /\ Paired(n)'
  <1>1. Points(n) /\ Paired(n) /\ MapsType /\ KeysAgree
    BY BridgeParts
  <1>2. \A x \in Known(n) : bridging[n][x] \in Seq(Ref)
    BY <1>1 DEF MapsType, IsMap, KeysAgree
  <1>3. ASSUME NEW x \in Known(n), NEW i \in DOMAIN bridging[n][x]
        PROVE  bridging[n][x][i].to \in Known(n) \/ LostNext(n, bridging[n][x][i].to)
    <2>1. bridging[n][x][i] \in Ref
      BY <1>2
    <2>2. bridging[n][x][i].to \in Peer
      BY <2>1 DEF Ref
    <2> QED
      BY <1>1, <2>2, LostStays DEF Points
  <1>4. Points(n)'
    BY <1>3 DEF Points, Lost, LostNext
  <1> QED
    BY <1>1, <1>4 DEF Paired

\* peer_connected: what is bridged leads to nobody that connects.
LEMMA ConnectedBridges ==
    ASSUME BridgeInv, Onward, NEW n \in Peer, NEW S \in SUBSET Peer, PeersConnected(n, S),
           \A y \in S : ~Lost(n, y)
    PROVE  \A m \in Peer : Points(m)' /\ Paired(m)'
  <1>1. Points(n) /\ Paired(n) /\ MapsType /\ KeysAgree
    BY BridgeParts
  <1>2. \A m \in Peer : Known(m)' = IF m = n THEN Known(n) \cup S ELSE Known(m)
    BY <1>1, ConnectedKeys
  <1>3. /\ bridging'[n] = Emplace(bridging[n], [p \in S |-> <<>>])
        /\ \A m \in Peer : m # n => bridging'[m] = bridging[m]
    BY <1>1 DEF PeersConnected, MapsType, IsTotal
  <1>4. DOMAIN bridging[n] = Known(n) /\ \A x \in Known(n) : bridging[n][x] \in Seq(Ref)
    BY <1>1 DEF MapsType, IsMap, KeysAgree
  <1>5. \A x \in Known(n)' : bridging'[n][x] = IF x \in Known(n) THEN bridging[n][x] ELSE <<>>
    BY <1>2, <1>3, <1>4 DEF Emplace
  <1>6. ASSUME NEW x \in Known(n), NEW i \in DOMAIN bridging[n][x]
        PROVE  \/ bridging[n][x][i].to \in Known(n)
               \/ LostNext(n, bridging[n][x][i].to) /\ bridging[n][x][i].to \notin S
    <2>1. bridging[n][x][i] \in Ref
      BY <1>4
    <2>2. bridging[n][x][i].to \in Peer
      BY <2>1 DEF Ref
    <2>3. Lost(n, bridging[n][x][i].to) => LostNext(n, bridging[n][x][i].to)
      BY <2>2, LostStays
    <2>4. Lost(n, bridging[n][x][i].to) => bridging[n][x][i].to \notin S
      OBVIOUS
    <2> QED
      BY <1>1, <2>3, <2>4 DEF Points
  <1>7. Points(n)'
    BY <1>2, <1>5, <1>6 DEF Points, Lost, LostNext
  <1>8. \A x \in Known(n)', y \in Known(n)' : y \notin Known(n) => Tos(bridging'[n][x], y) = {}
    BY <1>2, <1>5, <1>6 DEF Tos
  <1>9. \A x \in Known(n)', y \in Known(n)' : x \notin Known(n) => Tos(bridging'[n][x], y) = {}
    BY <1>5 DEF Tos
  <1>10. Paired(n)'
    <2>1. ASSUME NEW x \in Known(n)', NEW y \in Known(n)'
          PROVE  Cardinality(Tos(bridging'[n][x], y)) = Cardinality(Tos(bridging'[n][y], x))
      <3>1. CASE x \in Known(n) /\ y \in Known(n)
        BY <1>1, <1>5, <3>1 DEF Paired
      <3>2. CASE x \notin Known(n) \/ y \notin Known(n)
        <4>1. Tos(bridging'[n][x], y) = {} /\ Tos(bridging'[n][y], x) = {}
          BY <1>8, <1>9, <3>2
        <4> QED
          BY <4>1
      <3> QED
        BY <3>1, <3>2
    <2> QED
      BY <2>1 DEF Paired
  <1>11. \A m \in Peer : m # n => Points(m)' /\ Paired(m)'
    BY <1>2, <1>3, SameBridges
  <1> QED
    BY <1>7, <1>10, <1>11

\* An instance that knows nobody bridges nobody.
LEMMA DieBridges ==
    ASSUME BridgeInv, Onward, NEW n \in Peer, Die(n)
    PROVE  \A m \in Peer : Points(m)' /\ Paired(m)'
  <1>1. MapsType
    BY BridgeParts
  <1>2. \A m \in Peer : Known(m)' = IF m = n THEN {} ELSE Known(m)
    BY <1>1, ClearedKeys DEF Die
  <1>3. Points(n)' /\ Paired(n)'
    BY <1>2 DEF Points, Paired
  <1>4. \A m \in Peer : m # n => bridging'[m] = bridging[m]
    BY <1>1 DEF Die, ClearMaps, MapsType, IsTotal
  <1> QED
    BY <1>2, <1>3, <1>4, SameBridges

------------------------------------------------------------------------------
Fine == Onward /\ \A m \in Peer : Points(m)' /\ Paired(m)'

\* Nothing is bridged, and nobody new held.
LEMMA QuietFine ==
    ASSUME BridgeInv, UNCHANGED <<open, bridging, spent>>,
           \A m \in Peer : /\ Known(m)' = Known(m)
                           /\ phase[m] = "crashed" => phase'[m] = "crashed",
           \A m, y \in Peer : y \in Held(m)' => y \in Held(m)
    PROVE  Fine
  <1>1. Lasting /\ NetType
    BY BridgeParts
  <1>2. Lasting'
    BY <1>1 DEF Lasting, NetType
  <1>3. Onward
    BY <1>2 DEF Onward
  <1> QED
    BY <1>3, SameBridges DEF Fine

LEMMA StillFine ==
    ASSUME BridgeInv, UNCHANGED <<node, open, bridging, spent>>, \A m \in Peer : Known(m)' = Known(m)
    PROVE  Fine
  <1>1. \A m \in Peer : Held(m)' = Held(m)
    BY DEF Held, node
  <1> QED
    BY <1>1, QuietFine DEF node

LEMMA ThreadStepFine ==
    ASSUME BridgeInv, NEW n \in Peer, NEW p \in Peer,
           \/ Awake(n) \/ Connect(n, p) \/ JoinFails(n) \/ ScanDial(n, p) \/ ScanConnects(n)
           \/ ScanFails(n) \/ HandlePeersList(n, p)
    PROVE  Fine
  <1>0. ConnInv /\ NodeType
    BY BridgeParts
  <1>1. UNCHANGED <<dist, bridging, open, spent>>
    BY DEF Awake, Connect, JoinFails, ScanDial, ScanConnects, ScanFails, HandlePeersList, maps, net
  <1>2. \A m \in Peer : Known(m)' = Known(m)
    BY <1>1 DEF Known
  <1>3. \A m \in Peer : m # n => /\ phase'[m] = phase[m] /\ dial'[m] = dial[m]
                                 /\ answer'[m] = answer[m] /\ got'[m] = got[m]
    BY <1>0 DEF Awake, Connect, JoinFails, ScanDial, ScanConnects, ScanFails, HandlePeersList, HangUp, NodeType
  <1>4. phase[n] # "crashed"
    BY DEF Awake, Connect, JoinFails, ScanDial, ScanConnects, ScanFails, HandlePeersList, Receives, IdleThread
  <1>5. \A y \in Peer : y \in Held(n)' => y \in Held(n)
    <2>1. CASE Awake(n) \/ HandlePeersList(n, p)
      BY <1>0, <1>2, <2>1 DEF Awake, HandlePeersList, Held
    <2>2. CASE Connect(n, p) \/ JoinFails(n) \/ ScanFails(n)
      <3>1. answer'[n] = "none" /\ got'[n] = got[n]
        BY <1>0, <2>2 DEF Connect, JoinFails, ScanFails, HangUp, NodeType
      <3> QED
        BY <1>2, <3>1 DEF Held
    <2>3. CASE ScanDial(n, p)
      <3>1. answer[n] = "none"
        BY <1>0, <2>3, NoAnswer DEF ScanDial
      <3>2. answer'[n] = "none" /\ got'[n] = got[n]
        BY <1>0, <2>3, <3>1 DEF ScanDial
      <3> QED
        BY <1>2, <3>2 DEF Held
    <2>4. CASE ScanConnects(n)
      <3>1. answer'[n] = "none" /\ got'[n] = got[n] \cup {dial[n]} /\ answer[n] = "accepted"
        BY <1>0, <2>4 DEF ScanConnects, HangUp, NodeType
      <3> QED
        BY <1>2, <3>1 DEF Held
    <2> QED
      BY <2>1, <2>2, <2>3, <2>4
  <1>6. \A m, y \in Peer : y \in Held(m)' => y \in Held(m)
    BY <1>2, <1>3, <1>5 DEF Held
  <1> QED
    BY <1>1, <1>2, <1>3, <1>4, <1>6, QuietFine

\* peer_connected for the peers that were dialled.
LEMMA JoinedFine ==
    ASSUME BridgeInv, NEW n \in Peer, JoinSucceeds(n) \/ ScanEnds(n) PROVE Fine
  <1>0. NodeType /\ MapsType /\ NetType /\ Lasting
    BY BridgeParts
  <1> DEFINE S == IF phase[n] = "joining" THEN {dial[n]} ELSE got[n]
  <1>1. /\ PeersConnected(n, S) /\ phase' = [phase EXCEPT ![n] = "running"]
        /\ UNCHANGED <<open, spent>> /\ phase[n] # "crashed"
    BY DEF JoinSucceeds, ScanEnds
  <1>2. S \in SUBSET Peer /\ S \subseteq Held(n)
    BY <1>0 DEF JoinSucceeds, ScanEnds, NodeType, Held
  <1>3. \A m \in Peer : Known(m)' = IF m = n THEN Known(n) \cup S ELSE Known(m)
    BY <1>0, <1>1, <1>2, ConnectedKeys
  <1>4. \A m \in Peer : /\ m # n => got'[m] = got[m] /\ dial'[m] = dial[m] /\ answer'[m] = answer[m]
                        /\ got'[n] \subseteq got[n]
    BY <1>0 DEF JoinSucceeds, ScanEnds, HangUp, NodeType
  <1>5. answer'[n] = "none" \/ (answer'[n] = answer[n] /\ dial'[n] = dial[n])
    BY <1>0 DEF JoinSucceeds, ScanEnds, HangUp, NodeType
  <1> HIDE DEF S
  <1>6. \A m, y \in Peer : y \in Held(m)' => y \in Held(m)
    <2>1. \A y \in Peer : y \in Held(n)' => y \in Held(n)
      BY <1>2, <1>3, <1>4, <1>5 DEF Held
    <2>2. \A m \in Peer : m # n => Held(m)' = Held(m)
      BY <1>3, <1>4 DEF Held
    <2> QED
      BY <2>1, <2>2
  <1>7. \A m \in Peer : phase[m] = "crashed" => phase'[m] = "crashed"
    BY <1>0, <1>1 DEF NodeType
  <1>8. Lasting'
    BY <1>0, <1>1, <1>7 DEF Lasting, NetType
  <1>9. Onward
    BY <1>1, <1>6, <1>7, <1>8 DEF Onward
  <1>10. \A y \in S : ~Lost(n, y)
    BY <1>2 DEF Lost
  <1> QED
    BY <1>1, <1>2, <1>9, <1>10, ConnectedBridges DEF Fine

\* accept: neither side is dead.
LEMMA AcceptFine ==
    ASSUME BridgeInv, NEW n \in Peer, NEW d \in Peer, Accept(n, d) PROVE Fine
  <1>0. ConnInv /\ NodeType /\ MapsType /\ NetType /\ Lasting /\ \A m \in Peer : Thread(m)
    BY BridgeParts
  <1>1. /\ phase[n] = "running" /\ dial[d] = n /\ answer[d] = "none"
        /\ UNCHANGED <<phase, dial, todo, got, data, spent>>
    BY DEF Accept, IdleThread
  <1>2. phase[d] # "crashed"
    BY <1>0, <1>1, PeerAssumption DEF Thread
  <1>3. CASE answer' = [answer EXCEPT ![d] = "refused"] /\ UNCHANGED maps /\ UNCHANGED net
    <2>1. \A m \in Peer : Known(m)' = Known(m)
      BY <1>3 DEF maps, Known
    <2>2. \A m, y \in Peer : y \in Held(m)' => y \in Held(m)
      BY <1>0, <1>1, <1>3, <2>1 DEF Held, NodeType
    <2>3. UNCHANGED <<open, bridging, spent, phase>>
      BY <1>1, <1>3 DEF maps, net
    <2> QED
      BY <2>1, <2>2, <2>3, QuietFine
  <1>4. CASE /\ answer' = [answer EXCEPT ![d] = "accepted"]
             /\ PeersConnected(n, {d}) /\ open' = open \cup {<<n, d>>, <<d, n>>}
    <2>1. \A m \in Peer : Known(m)' = IF m = n THEN Known(n) \cup {d} ELSE Known(m)
      BY <1>0, <1>4, ConnectedKeys
    <2>2. \A m, y \in Peer : y \in Held(m)' => y \in Held(m) \/ y = d \/ y = n
      BY <1>0, <1>1, <1>4, <2>1 DEF Held, NodeType
    <2>3. Lasting'
      <3>1. \A e \in open' : e \in open \/ <<e[2], e[1]>> \in {<<n, d>>, <<d, n>>}
        BY <1>4
      <3> QED
        BY <1>0, <1>1, <1>4, <3>1 DEF Lasting
    <2>4. Onward
      BY <1>1, <1>2, <2>2, <2>3 DEF Onward
    <2>5. ~Lost(n, d)
      BY <1>2 DEF Lost
    <2> QED
      BY <1>4, <2>4, <2>5, ConnectedBridges DEF Fine
  <1> QED
    BY <1>3, <1>4 DEF Accept

\* A process ends, by itself or from outside.
LEMMA DieFine ==
    ASSUME BridgeInv, NEW n \in Peer, Die(n),
           UNCHANGED spent \/ spent' = [spent EXCEPT !.crashes = @ + 1]
    PROVE  Fine
  <1>0. NodeType /\ MapsType /\ NetType /\ Lasting
    BY BridgeParts
  <1>1. /\ phase' = [phase EXCEPT ![n] = "crashed"] /\ got' = [got EXCEPT ![n] = {}]
        /\ \A m \in Peer : answer'[m] = "accepted" => m # n /\ answer[m] = "accepted"
        /\ dial' = [dial EXCEPT ![n] = NoPeer]
        /\ open' = {e \in open : e[1] # n} /\ ClearMaps(n)
    BY ClosedLines DEF Die
  <1>2. \A m \in Peer : Known(m)' = IF m = n THEN {} ELSE Known(m)
    BY <1>0, <1>1, ClearedKeys
  <1>3. \A m, y \in Peer : y \in Held(m)' => y \in Held(m)
    BY <1>0, <1>1, <1>2 DEF Held, NodeType
  <1>4. phase'[n] = "crashed" /\ \A m \in Peer : m # n => phase'[m] = phase[m]
    BY <1>0, <1>1 DEF NodeType
  <1>5. Lasting'
    <2>1. ASSUME NEW e \in open' PROVE <<e[2], e[1]>> \in open' \/ phase'[e[2]] = "crashed"
      <3>1. e \in open /\ e[1] # n /\ e[2] \in Peer
        BY <1>0, <1>1 DEF NetType
      <3>2. CASE e[2] = n
        BY <1>4, <3>2
      <3>3. CASE e[2] # n
        <4>1. <<e[2], e[1]>> \in open => <<e[2], e[1]>> \in open'
          BY <1>1, <3>3
        <4> QED
          BY <1>0, <1>4, <3>1, <3>3, <4>1 DEF Lasting
      <3> QED
        BY <3>2, <3>3
    <2> QED
      BY <2>1 DEF Lasting
  <1>6. Onward
    BY <1>3, <1>4, <1>5 DEF Onward
  <1> QED
    BY <1>6, DieBridges DEF Fine

\* The end of a stream is read: the process that wrote it is dead.
LEMMA HandleEofFine ==
    ASSUME BridgeInv, NEW n \in Peer, NEW s \in Peer, HandleEof(n, s) PROVE Fine
  <1>0. /\ ConnInv /\ NodeType /\ MapsType /\ KeysAgree /\ NetType /\ Lasting /\ PipesOf(open, chan)
        /\ Thread(n) /\ Points(n) /\ Paired(n)
    BY BridgeParts
  <1>1. /\ s \in Known(n) /\ <<n, s>> \in open /\ phase[n] = "running" /\ chan[s][n] # <<>>
        /\ Head(chan[s][n]).cmd = "eof" /\ open' = open \ {<<n, s>>} /\ PeerDisconnected(n, s)
        /\ UNCHANGED <<node, spent>>
    BY DEF HandleEof, Receives, IdleThread
  <1>2. <<s, n>> \notin open
    <2>1. chan[s][n] \in Seq(Command)
      BY <1>0 DEF NetType
    <2>2. 1 \in DOMAIN chan[s][n] /\ Head(chan[s][n]) = chan[s][n][1]
      BY <1>1, <2>1
    <2> QED
      BY <1>0, <1>1, <2>2 DEF PipesOf
  <1>3. phase[s] = "crashed"
    BY <1>0, <1>1, <1>2 DEF Lasting
  <1>4. /\ dist'[n] = [q \in DOMAIN dist[n] \ {s} |-> dist[n][q]]
        /\ bridging'[n] = [q \in DOMAIN bridging[n] \ {s} |->
                             [i \in DOMAIN bridging[n][q] |-> Bury(bridging[n][q][i], s)]]
        /\ \A m \in Peer : m # n => dist'[m] = dist[m] /\ bridging'[m] = bridging[m]
    BY <1>0, <1>1 DEF PeerDisconnected, MapsType, IsTotal
  <1>5. Known(n)' = Known(n) \ {s} /\ \A m \in Peer : m # n => Known(m)' = Known(m)
    BY <1>4 DEF Known
  <1>6. got[n] \cap Known(n) = {} /\ answer[n] = "none"
    BY <1>0, <1>1, NoAnswer DEF Thread
  <1>7. Held(n)' = Held(n) \ {s} /\ \A m \in Peer : m # n => Held(m)' = Held(m)
    BY <1>1, <1>5, <1>6 DEF Held, node
  <1>8. Lasting'
    <2>1. \A e \in open' : e \in open /\ <<e[2], e[1]>> # <<n, s>>
      <3>1. ASSUME NEW e \in open', <<e[2], e[1]>> = <<n, s>> PROVE FALSE
        <4>1. e \in open /\ e = <<e[1], e[2]>>
          BY <1>0, <1>1 DEF NetType
        <4>2. e[1] = s /\ e[2] = n
          BY <3>1
        <4> QED
          BY <1>2, <4>1, <4>2
      <3> QED
        BY <1>1, <3>1
    <2> QED
      BY <1>0, <1>1, <2>1 DEF Lasting, node
  <1>9. Onward
    BY <1>1, <1>7, <1>8 DEF Onward, node
  <1>10. LostNext(n, s)
    BY <1>1, <1>3, <1>7 DEF LostNext, node
  <1>11. \A x \in Known(n)' : /\ DOMAIN bridging'[n][x] = DOMAIN bridging[n][x]
                              /\ \A i \in DOMAIN bridging[n][x] : bridging'[n][x][i].to = bridging[n][x][i].to
                              /\ \A y : Tos(bridging'[n][x], y) = Tos(bridging[n][x], y)
    <2>1. \A x \in Known(n)' : bridging'[n][x] = [i \in DOMAIN bridging[n][x] |-> Bury(bridging[n][x][i], s)]
      BY <1>0, <1>4, <1>5 DEF KeysAgree
    <2>2. \A r : Bury(r, s).to = r.to
      BY DEF Bury, Dead
    <2>3. ASSUME NEW x \in Known(n)', NEW y PROVE Tos(bridging'[n][x], y) = Tos(bridging[n][x], y)
      <3> DEFINE q == bridging[n][x]
      <3>1. bridging'[n][x] = [i \in DOMAIN q |-> Bury(q[i], s)]
        BY <2>1
      <3> HIDE DEF q
      <3>2. Tos([i \in DOMAIN q |-> Bury(q[i], s)], y) = Tos(q, y)
        BY TosBury, Zenon
      <3> QED
        BY <3>1, <3>2 DEF q
    <2> QED
      BY <2>1, <2>2, <2>3
  <1>12. Points(n)'
    <2>1. ASSUME NEW x \in Known(n), NEW i \in DOMAIN bridging[n][x]
          PROVE  bridging[n][x][i].to \in Known(n)' \/ LostNext(n, bridging[n][x][i].to)
      <3>1. bridging[n][x][i] \in Ref
        BY <1>0 DEF MapsType, IsMap, KeysAgree
      <3>2. bridging[n][x][i].to \in Peer
        BY <3>1 DEF Ref
      <3>3. Lost(n, bridging[n][x][i].to) => LostNext(n, bridging[n][x][i].to)
        BY <1>9, <3>2, LostStays
      <3> QED
        BY <1>0, <1>5, <1>10, <3>3 DEF Points
    <2> QED
      BY <1>5, <1>11, <2>1 DEF Points, Lost, LostNext
  <1>13. Paired(n)'
    BY <1>0, <1>5, <1>11 DEF Paired
  <1>14. \A m \in Peer : m # n => Points(m)' /\ Paired(m)'
    BY <1>4, <1>5, <1>9, SameBridges
  <1> QED
    BY <1>9, <1>12, <1>13, <1>14 DEF Fine

\* forward_to_handler: the asking peer and the one asked for, each way.
LEMMA HandleForwardToFine ==
    ASSUME BridgeInv, NEW n \in Peer, NEW s \in Peer, HandleForwardTo(n, s) PROVE Fine
  <1>0. MapsType /\ KeysAgree /\ NetType /\ Lasting /\ Points(n) /\ Paired(n)
    BY BridgeParts
  <1> DEFINE id == Head(chan[s][n]).id
             new == [p \in DOMAIN bridging[n] |->
                       bridging[n][p] \o (IF p = id THEN <<Dead(s)>> ELSE <<>>)
                                      \o (IF p = s THEN <<Live(id)>> ELSE <<>>)]
  <1>1. s \in Known(n) /\ UNCHANGED spent
    BY DEF HandleForwardTo, Receives, data
  <1>2. CASE Die(n)
    BY <1>1, <1>2, DieFine
  <1>3. CASE /\ id \in Known(n) /\ bridging' = [bridging EXCEPT ![n] = new]
             /\ UNCHANGED <<node, open, dist>>
    <2>1. bridging'[n] = new /\ \A m \in Peer : m # n => bridging'[m] = bridging[m]
      BY <1>0, <1>3 DEF MapsType, IsTotal
    <2>2. /\ DOMAIN bridging[n] = Known(n) /\ \A x \in Known(n) : bridging[n][x] \in Seq(Ref)
          /\ Known(n) \subseteq Peer
      BY <1>0 DEF MapsType, IsMap, KeysAgree, Known
    <2>3. Dead(s) \in Ref /\ Live(id) \in Ref /\ Dead(s).to = s /\ Live(id).to = id
      BY <1>3, <2>2 DEF Dead, Live, Ref
    <2>4. \A m \in Peer : Known(m)' = Known(m) /\ Held(m)' = Held(m)
      BY <1>3 DEF Known, Held, node
    <2>5. Lasting'
      BY <1>0, <1>3 DEF Lasting, NetType, node
    <2>6. Onward
      BY <1>1, <1>3, <2>4, <2>5 DEF Onward, node
    <2> HIDE DEF id
    \* One end of one bridge.
    <2>7. ASSUME NEW x \in Known(n)
          PROVE  /\ \A i \in DOMAIN new[x] : new[x][i].to \in {s, id} \/
                       (i \in DOMAIN bridging[n][x] /\ new[x][i] = bridging[n][x][i])
                 /\ \A y : Cardinality(Tos(new[x], y)) = Cardinality(Tos(bridging[n][x], y))
                       + (IF x = id /\ y = s THEN 1 ELSE 0) + (IF x = s /\ y = id THEN 1 ELSE 0)
      <3> DEFINE q == bridging[n][x]
                 r == IF x = id THEN q \o <<Dead(s)>> ELSE q
                 t == IF x = s THEN r \o <<Live(id)>> ELSE r
      <3>1. q \in Seq(Ref)
        BY <2>2
      <3>2. r \in Seq(Ref)
        BY <2>3, <3>1
      <3>3. new[x] = t
        <4>1. new[x] = q \o (IF x = id THEN <<Dead(s)>> ELSE <<>>) \o (IF x = s THEN <<Live(id)>> ELSE <<>>)
          BY <2>2
        <4>2. q \o <<>> = q /\ r \o <<>> = r
          BY <3>1, <3>2
        <4> QED
          BY <4>1, <4>2
      <3>4. \A y : Cardinality(Tos(q, y)) \in Nat
        BY <3>1, TosFinite
      <3>5. ASSUME NEW l \in Seq(Ref), NEW e \in Ref, NEW i \in DOMAIN (l \o <<e>>)
            PROVE  (i \in DOMAIN l /\ (l \o <<e>>)[i] = l[i]) \/ (l \o <<e>>)[i] = e
        OBVIOUS
      <3> HIDE DEF q
      <3>6. \A y : Cardinality(Tos(r, y)) = Cardinality(Tos(q, y)) + (IF x = id /\ y = s THEN 1 ELSE 0)
        <4>1. \A y : Cardinality(Tos(q \o <<Dead(s)>>, y)) = Cardinality(Tos(q, y)) + IF s = y THEN 1 ELSE 0
          BY <2>3, <3>1, TosAppend
        <4>2. CASE x = id
          BY <4>1, <4>2
        <4>3. CASE x # id
          BY <3>4, <4>3
        <4> QED
          BY <4>2, <4>3
      <3>7. \A i \in DOMAIN r : r[i].to = s \/ (i \in DOMAIN q /\ r[i] = q[i])
        <4>1. \A i \in DOMAIN (q \o <<Dead(s)>>) :
                 (i \in DOMAIN q /\ (q \o <<Dead(s)>>)[i] = q[i]) \/ (q \o <<Dead(s)>>)[i] = Dead(s)
          BY <2>3, <3>1, <3>5
        <4> QED
          BY <2>3, <4>1
      <3> HIDE DEF r
      <3>8. \A y : Cardinality(Tos(r, y)) \in Nat
        BY <3>2, TosFinite
      <3>9. \A y : Cardinality(Tos(t, y)) = Cardinality(Tos(r, y)) + (IF x = s /\ y = id THEN 1 ELSE 0)
        <4>1. \A y : Cardinality(Tos(r \o <<Live(id)>>, y)) = Cardinality(Tos(r, y)) + IF id = y THEN 1 ELSE 0
          BY <2>3, <3>2, TosAppend
        <4>2. CASE x = s
          BY <4>1, <4>2
        <4>3. CASE x # s
          BY <3>8, <4>3
        <4> QED
          BY <4>2, <4>3
      <3>10. \A i \in DOMAIN t : t[i].to = id \/ (i \in DOMAIN r /\ t[i] = r[i])
        <4>1. \A i \in DOMAIN (r \o <<Live(id)>>) :
                 (i \in DOMAIN r /\ (r \o <<Live(id)>>)[i] = r[i]) \/ (r \o <<Live(id)>>)[i] = Live(id)
          BY <2>3, <3>2, <3>5
        <4> QED
          BY <2>3, <4>1
      <3> HIDE DEF t, new
      <3>11. \A i \in DOMAIN t : t[i].to \in {s, id} \/ (i \in DOMAIN q /\ t[i] = q[i])
        BY <3>7, <3>10
      <3> QED
        BY <3>3, <3>6, <3>9, <3>11 DEF q
    <2> HIDE DEF new
    <2>8. ASSUME NEW x \in Known(n), NEW i \in DOMAIN bridging[n][x]
          PROVE  bridging[n][x][i].to \in Known(n) \/ LostNext(n, bridging[n][x][i].to)
      <3>1. bridging[n][x][i] \in Ref
        BY <2>2
      <3>2. bridging[n][x][i].to \in Peer
        BY <3>1 DEF Ref
      <3> QED
        BY <1>0, <2>6, <3>2, LostStays DEF Points
    <2>9. Points(n)'
      <3>1. ASSUME NEW x \in Known(n), NEW i \in DOMAIN new[x]
            PROVE  new[x][i].to \in Known(n) \/ LostNext(n, new[x][i].to)
        BY <1>1, <1>3, <2>7, <2>8
      <3> QED
        BY <2>1, <2>4, <3>1 DEF Points, Lost, LostNext
    <2>10. Paired(n)'
      <3>1. \A x, y \in Known(n) : Cardinality(Tos(bridging[n][x], y)) \in Nat
        BY <2>2, TosFinite
      <3>2. ASSUME NEW x \in Known(n), NEW y \in Known(n)
            PROVE  Cardinality(Tos(new[x], y)) = Cardinality(Tos(new[y], x))
        <4> DEFINE a == IF x = id /\ y = s THEN 1 ELSE 0
                   b == IF x = s /\ y = id THEN 1 ELSE 0
                   k == Cardinality(Tos(bridging[n][x], y))
        <4>1. Cardinality(Tos(new[x], y)) = k + a + b
          BY <2>7
        <4>2. Cardinality(Tos(new[y], x)) = Cardinality(Tos(bridging[n][y], x))
                + (IF y = id /\ x = s THEN 1 ELSE 0) + (IF y = s /\ x = id THEN 1 ELSE 0)
          BY <2>7
        <4>3. Cardinality(Tos(bridging[n][y], x)) = k
          BY <1>0 DEF Paired
        <4>4. Cardinality(Tos(new[y], x)) = k + b + a
          BY <4>2, <4>3
        <4>5. k \in Nat /\ a \in Nat /\ b \in Nat
          BY <3>1
        <4> HIDE DEF a, b, k
        <4> QED
          BY <4>1, <4>4, <4>5
      <3> QED
        BY <2>1, <2>4, <3>2 DEF Paired
    <2>11. \A m \in Peer : m # n => Points(m)' /\ Paired(m)'
      BY <2>1, <2>4, <2>6, SameBridges
    <2> QED
      BY <2>6, <2>9, <2>10, <2>11 DEF Fine
  <1> QED
    BY <1>2, <1>3 DEF HandleForwardTo, Reply

\* forwarding_to_handler: the path and the distance change, not who is known.
LEMMA HandleForwardingToFine ==
    ASSUME BridgeInv, NEW n \in Peer, NEW s \in Peer, HandleForwardingTo(n, s) PROVE Fine
  <1>0. MapsType
    BY BridgeParts
  <1>1. UNCHANGED spent
    BY DEF HandleForwardingTo
  <1>2. CASE Die(n)
    BY <1>1, <1>2, DieFine
  <1>3. CASE /\ UNCHANGED <<node, open, bridging>>
             /\ (UNCHANGED maps \/ \E id \in Known(n), d \in Byte : dist' = [dist EXCEPT ![n][id] = d])
    <2>1. \A m \in Peer : Known(m)' = Known(m)
      BY <1>0, <1>3 DEF maps, Known, MapsType, IsTotal
    <2> QED
      BY <1>1, <1>3, <2>1, StillFine
  <1>4. (Head(chan[s][n]).d + 1) % 256 \in Byte
    <2>1. Head(chan[s][n]) \in Command /\ Head(chan[s][n]).cmd = "forwarding_to"
      BY BridgeParts, HeadType DEF HandleForwardingTo
    <2> QED
      BY <2>1, Fields, NextDistance
  <1> DEFINE far == (Head(chan[s][n]).d + 1) % 256
  <1> HIDE DEF far
  <1>5. \/ Die(n)
        \/ /\ UNCHANGED <<node, open, bridging>>
           /\ \/ UNCHANGED maps
              \/ \E id \in Known(n) : dist' = [dist EXCEPT ![n][id] = far]
    BY DEF HandleForwardingTo, Reply, maps, far
  <1> QED
    BY <1>2, <1>3, <1>4, <1>5 DEF far

LEMMA ReceiveFine ==
    ASSUME BridgeInv, NEW n \in Peer, NEW s \in Peer, Receive(n, s) PROVE Fine
  <1>1. CASE UNCHANGED <<node, open, maps, spent>>
    BY <1>1, StillFine DEF maps, Known
  <1>2. CASE Die(n) /\ UNCHANGED spent
    BY <1>2, DieFine
  <1>3. CASE HandleRetrievePeers(n, s) \/ HandleUpdateDistance(n, s)
    BY <1>1, <1>3 DEF HandleRetrievePeers, HandleUpdateDistance, Reply
  <1>4. CASE HandleRetrieveDistance(n, s)
    BY <1>1, <1>2, <1>4 DEF HandleRetrieveDistance, Reply
  <1>5. CASE HandleSendToAll(n, s)
    BY <1>1, <1>2, <1>5 DEF HandleSendToAll, Reply
  <1>6. CASE HandleSendTo(n, s)
    BY <1>1, <1>2, <1>6 DEF HandleSendTo, Reply
  <1> QED
    BY <1>3, <1>4, <1>5, <1>6, HandleEofFine, ThreadStepFine, HandleForwardToFine,
       HandleForwardingToFine DEF Receive

LEMMA NextBridges == BridgeInv /\ NoReturn /\ [Next]_vars => BridgeInv'
  <1> SUFFICES ASSUME BridgeInv, NoReturn, [Next]_vars PROVE BridgeInv'
    OBVIOUS
  <1>1. ConnInv'
    BY NextConn DEF BridgeInv
  <1>2. PICK k \in Nat : spent = [leaves |-> 0, timeouts |-> 0, crashes |-> k]
    BY DEF BridgeInv
  <1>3. CASE UNCHANGED vars
    <2>1. UNCHANGED <<node, open, bridging, spent, dist>>
      BY <1>3 DEF vars, net, maps
    <2>2. Fine
      BY <2>1, StillFine DEF Known
    <2> QED
      BY <1>1, <1>2, <2>1, <2>2 DEF Fine, Onward, BridgeInv
  <1>4. ASSUME NEW n \in Peer, Progress(n) PROVE Fine
    <2>1. CASE ScanThrows(n)
      BY <2>1, DieFine DEF ScanThrows
    <2> QED
      BY <1>4, <2>1, JoinedFine, ThreadStepFine, AcceptFine, ReceiveFine DEF Progress
  <1>5. ASSUME NEW n \in Peer, External(n) PROVE Fine
    <2>1. ~Leave(n) /\ \A p \in Peer : ~Timeout(n, p)
      BY <1>2 DEF NoReturn, Leave, Timeout
    <2>2. CASE Crash(n)
      BY <2>2, DieFine DEF Crash
    <2>3. CASE SendToAll(n)
      BY <2>3, StillFine DEF SendToAll, maps, Known
    <2>4. ASSUME NEW p \in Peer, SendTo(n, p) PROVE Fine
      <3>1. UNCHANGED spent /\ (Die(n) \/ UNCHANGED <<node, maps, open>>)
        BY <2>4 DEF SendTo, net
      <3> QED
        BY <3>1, StillFine, DieFine DEF maps, Known
    <2> QED
      BY <1>5, <2>1, <2>2, <2>3, <2>4, ThreadStepFine DEF External
  <1>6. Fine => BridgeInv'
    <2> SUFFICES ASSUME Fine PROVE BridgeInv'
      OBVIOUS
    <2>1. \E j \in Nat : spent' = [leaves |-> 0, timeouts |-> 0, crashes |-> j]
      <3>1. CASE UNCHANGED spent
        BY <1>2, <3>1
      <3>2. CASE spent' = [spent EXCEPT !.crashes = @ + 1]
        <4>1. spent' = [leaves |-> 0, timeouts |-> 0, crashes |-> k + 1] /\ k + 1 \in Nat
          BY <1>2, <3>2
        <4> QED
          BY <4>1
      <3> QED
        BY <3>1, <3>2 DEF Fine, Onward
    <2> QED
      BY <1>1, <2>1 DEF Fine, Onward, BridgeInv
  <1> QED
    BY <1>3, <1>4, <1>5, <1>6 DEF Next

LEMMA InitBridges == Init => BridgeInv
  <1> SUFFICES ASSUME Init PROVE BridgeInv
    OBVIOUS
  <1>1. ConnInv
    BY InitConn
  <1>2. \A n \in Peer : Known(n) = {}
    BY DEF Init, Known, Empty
  <1>3. spent = [leaves |-> 0, timeouts |-> 0, crashes |-> 0] /\ 0 \in Nat
    BY DEF Init
  <1>4. Lasting /\ \A n \in Peer : Points(n) /\ Paired(n)
    BY <1>2 DEF Init, Lasting, Points, Paired
  <1> QED
    BY <1>1, <1>3, <1>4 DEF BridgeInv

\* While nobody that left comes back, an instance that forwards for a peer forwards to
\* it as well, as often each way, whoever dies meanwhile (forward_to_handler,
\* peer_disconnected).
THEOREM BridgesBothWays == ASSUME NoReturn PROVE Spec => []BridgesArePaired
  <1>1. BridgeInv /\ [Next]_vars => BridgeInv'
    BY NextBridges
  <1>2. BridgeInv => BridgesArePaired
    BY PairedIsPaired DEF BridgeInv
  <1> QED
    BY <1>1, <1>2, InitBridges, PTL DEF Spec
=============================================================================
