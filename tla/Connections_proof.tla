-------------------------- MODULE Connections_proof --------------------------
(***************************************************************************)
(* The connections of PeerManager are sound: the two ends of each, the     *)
(* bytes under way on it and the peer it stands for agree, in every        *)
(* reachable state and for every value of the constants.                   *)
(*                                                                         *)
(* None of OneConnectionPerPair, NoStrayConnection and HalfOpenEnds is     *)
(* inductive alone.  Accept may only open a connection if nothing of an    *)
(* earlier one is left, which needs that the dialler never dials a peer it *)
(* knows (ThreadState), and that bytes and open ends belong to peers that  *)
(* are held; a half open connection stays readable to its end because      *)
(* nothing is sent after an Eof (EofIsLast).                               *)
(***************************************************************************)
EXTENDS PeerManager_proof

\* The part that is about the channels and the open ends only.
PipesOf(o, ch) ==
    /\ \A x, y \in Peer : \A i \in DOMAIN ch[x][y] :
          ch[x][y][i].cmd = "eof" => i = Len(ch[x][y]) /\ <<x, y>> \notin o
    /\ \A e \in o : \/ <<e[2], e[1]>> \in o
                    \/ ch[e[2]][e[1]] # <<>> /\ Last(ch[e[2]][e[1]]).cmd = "eof"
    /\ \A x, y \in Peer : ch[x][y] # <<>> => <<y, x>> \in o

\* The part that is about one instance: what its thread is doing, whom it
\* holds, and that it holds the peers of its open ends.
Owned == \A e \in open : e[2] \in Held(e[1])

Thread(n) ==
    /\ dial[n] # NoPeer => phase[n] \in {"joining", "scanning"}
    /\ got[n] \cup todo[n] # {} => phase[n] = "scanning"
    /\ Known(n) # {} => phase[n] \in {"running", "scanning"}
    /\ todo[n] \cap (Known(n) \cup got[n] \cup {n}) = {}
    /\ dial[n] \notin Known(n) \cup got[n] \cup todo[n] \cup {n}
    /\ got[n] \cap Known(n) = {}
    /\ answer[n] = "accepted" => dial[n] \notin Known(n) \cup got[n]
    /\ n \notin Held(n)
    /\ \A p \in Peer : <<n, p>> \in open => p \in Held(n)
Threads == \A n \in Peer : Thread(n)

ConnInv == Inv /\ Threads /\ PipesOf(open, chan)

\* PipesOf and Owned are the properties of the runs, conjunct by conjunct.
LEMMA PipesParts ==
    PipesOf(open, chan) /\ Owned <=> EofIsLast /\ HalfOpenEnds /\ NoStrayConnection
  BY DEF PipesOf, Owned, EofIsLast, HalfOpenEnds, NoStrayConnection

------------------------------------------------------------------------------
(***************************************************************************)
(* Channels.                                                               *)
(***************************************************************************)
\* Sending keeps them sound: nothing goes to a closed end.
LEMMA PostPipes ==
    ASSUME NEW ch \in Chans, PipesOf(open, ch), open \subseteq Peer \X Peer,
           NEW n \in Peer, NEW out \in Outs
    PROVE  PipesOf(open, Post(ch, n, out))
  <1> DEFINE new == Post(ch, n, out)
  <1>1. \A x, y \in Peer :
          new[x][y] = IF x = n /\ Linked(n, y) THEN ch[x][y] \o out[y] ELSE ch[x][y]
    BY DEF Post, Chans
  <1>2. \A x, y \in Peer : ch[x][y] \in Seq(Command) /\ out[y] \in Seq(Sendable)
    BY DEF Chans, Outs
  <1> HIDE DEF new
  <1>3. ASSUME NEW x \in Peer, NEW y \in Peer, NEW i \in DOMAIN new[x][y],
               new[x][y][i].cmd = "eof"
        PROVE  i = Len(new[x][y]) /\ <<x, y>> \notin open
    <2>1. CASE x = n /\ Linked(n, y)
      <3>1. new[x][y] = ch[x][y] \o out[y]
        BY <1>1, <2>1
      <3>2. \A j \in DOMAIN ch[x][y] : ch[x][y][j].cmd # "eof"
        BY <2>1 DEF PipesOf, Linked
      <3>3. \A j \in DOMAIN out[y] : out[y][j].cmd # "eof"
        <4>1. \A q \in Seq(Sendable) : \A j \in DOMAIN q : q[j] \in Sendable
          OBVIOUS
        <4>2. \A j \in DOMAIN out[y] : out[y][j] \in Sendable
          BY <1>2, <4>1
        <4> QED
          BY <4>2 DEF Sendable
      <3>4. /\ Len(ch[x][y]) \in Nat /\ DOMAIN ch[x][y] = 1..Len(ch[x][y])
            /\ Len(out[y]) \in Nat /\ DOMAIN out[y] = 1..Len(out[y])
        BY <1>2
      <3>5. /\ DOMAIN new[x][y] = 1..(Len(ch[x][y]) + Len(out[y]))
            /\ new[x][y][i] = IF i <= Len(ch[x][y]) THEN ch[x][y][i] ELSE out[y][i - Len(ch[x][y])]
        <4>1. ch[x][y] \in Seq(Command) /\ out[y] \in Seq(Command)
          BY <1>2, SendableSeq
        <4>2. Len(new[x][y]) = Len(ch[x][y]) + Len(out[y]) /\ new[x][y] \in Seq(Command)
          BY <3>1, <4>1, ConcatProperties
        <4>3. DOMAIN new[x][y] = 1..(Len(ch[x][y]) + Len(out[y]))
          BY <4>2, LenProperties
        <4>4. i \in 1..(Len(ch[x][y]) + Len(out[y]))
          BY <4>3
        <4>5. new[x][y][i] = IF i <= Len(ch[x][y]) THEN ch[x][y][i] ELSE out[y][i - Len(ch[x][y])]
          BY <3>1, <4>1, <4>4, ConcatProperties
        <4> QED
          BY <4>3, <4>5
      <3>6. i \in DOMAIN ch[x][y] \/ i - Len(ch[x][y]) \in DOMAIN out[y]
        <4>1. i \in 1..(Len(ch[x][y]) + Len(out[y]))
          BY <3>5
        <4>2. \A k, m \in Nat : \A j \in 1..(k + m) : j \in 1..k \/ j - k \in 1..m
          OBVIOUS
        <4> QED
          BY <3>4, <4>1, <4>2
      <3> QED
        BY <1>3, <3>2, <3>3, <3>4, <3>5, <3>6
    <2>2. CASE ~(x = n /\ Linked(n, y))
      BY <1>1, <1>3, <2>2 DEF PipesOf
    <2> QED
      BY <2>1, <2>2
  <1>4. ASSUME NEW e \in open, <<e[2], e[1]>> \notin open
        PROVE  new[e[2]][e[1]] # <<>> /\ Last(new[e[2]][e[1]]).cmd = "eof"
    <2>1. e[1] \in Peer /\ e[2] \in Peer /\ e = <<e[1], e[2]>>
      OBVIOUS
    <2>2. ~Linked(e[2], e[1])
      BY <1>4 DEF Linked
    <2>3. new[e[2]][e[1]] = ch[e[2]][e[1]]
      BY <1>1, <2>1, <2>2
    <2> QED
      BY <1>4, <2>3 DEF PipesOf
  <1>5. ASSUME NEW x \in Peer, NEW y \in Peer, new[x][y] # <<>>
        PROVE  <<y, x>> \in open
    BY <1>1, <1>5 DEF PipesOf, Linked
  <1> QED
    BY <1>3, <1>4, <1>5 DEF PipesOf, new

\* The rest of a non-empty sequence.
LEMMA TailFacts ==
    ASSUME NEW S, NEW q \in Seq(S), q # <<>>
    PROVE  /\ Len(q) \in Nat /\ Len(Tail(q)) = Len(q) - 1 /\ DOMAIN Tail(q) = 1..(Len(q) - 1)
           /\ \A i \in DOMAIN Tail(q) : i + 1 \in DOMAIN q /\ Tail(q)[i] = q[i + 1]
           /\ Tail(q) = <<>> => Last(q) = Head(q)
           /\ Tail(q) # <<>> => Last(Tail(q)) = Last(q)
  <1>1. /\ Len(q) \in Nat /\ Len(q) # 0 /\ DOMAIN q = 1..Len(q)
        /\ Tail(q) \in Seq(S) /\ Len(Tail(q)) = Len(q) - 1
        /\ DOMAIN Tail(q) = 1..(Len(q) - 1)
    OBVIOUS
  <1>2. \A i \in 1..(Len(q) - 1) : Tail(q)[i] = q[i + 1]
    OBVIOUS
  <1>3. Tail(q) = <<>> => Len(q) = 1
    <2>1. Tail(q) = <<>> => Len(Tail(q)) = 0
      BY EmptySeq, Zenon
    <2> QED
      BY <1>1, <2>1
  <1>4. Tail(q) # <<>> => Len(q) - 1 \in 1..(Len(q) - 1)
    BY <1>1
  <1>5. Tail(q) = <<>> => Last(q) = Head(q)
    BY <1>3 DEF Last
  <1>6. Tail(q) # <<>> => Last(Tail(q)) = Last(q)
    BY <1>1, <1>2, <1>4 DEF Last
  <1> QED
    BY <1>1, <1>2, <1>5, <1>6

\* Taking a command that is not the end of the stream.
LEMMA TakenPipes ==
    ASSUME NetType, PipesOf(open, chan), NEW n \in Peer, NEW s \in Peer,
           chan[s][n] # <<>>, Head(chan[s][n]).cmd # "eof"
    PROVE  PipesOf(open, Taken(s, n))
  <1> DEFINE new == Taken(s, n)
  <1>1. \A x, y \in Peer : new[x][y] = IF x = s /\ y = n THEN Tail(chan[x][y]) ELSE chan[x][y]
    BY DEF Taken, NetType
  <1>2. chan[s][n] \in Seq(Command)
    BY DEF NetType
  <1> HIDE DEF new
  <1>3. ASSUME NEW x \in Peer, NEW y \in Peer, NEW i \in DOMAIN new[x][y],
               new[x][y][i].cmd = "eof"
        PROVE  i = Len(new[x][y]) /\ <<x, y>> \notin open
    <2>1. CASE x = s /\ y = n
      <3>0. new[x][y] = Tail(chan[x][y]) /\ chan[x][y] \in Seq(Command) /\ chan[x][y] # <<>>
        BY <1>1, <1>2, <2>1
      <3>1. i + 1 \in DOMAIN chan[x][y] /\ chan[x][y][i + 1].cmd = "eof"
        BY <1>3, <3>0, TailFacts
      <3>2. i + 1 = Len(chan[x][y]) /\ <<x, y>> \notin open
        BY <3>1 DEF PipesOf
      <3>3. i \in Nat /\ Len(new[x][y]) = Len(chan[x][y]) - 1 /\ Len(chan[x][y]) \in Nat
        BY <3>0, TailFacts
      <3> QED
        BY <3>2, <3>3
    <2>2. CASE ~(x = s /\ y = n)
      BY <1>1, <1>3, <2>2 DEF PipesOf
    <2> QED
      BY <2>1, <2>2
  <1>4. ASSUME NEW e \in open, <<e[2], e[1]>> \notin open
        PROVE  new[e[2]][e[1]] # <<>> /\ Last(new[e[2]][e[1]]).cmd = "eof"
    <2>1. e[1] \in Peer /\ e[2] \in Peer
      BY DEF NetType
    <2>2. chan[e[2]][e[1]] # <<>> /\ Last(chan[e[2]][e[1]]).cmd = "eof"
      BY <1>4 DEF PipesOf
    <2>3. CASE e[2] = s /\ e[1] = n
      <3>1. Tail(chan[s][n]) # <<>> /\ Last(Tail(chan[s][n])).cmd = "eof"
        BY <1>2, <2>2, <2>3, TailFacts
      <3>2. new[e[2]][e[1]] = Tail(chan[s][n])
        BY <1>1, <2>3
      <3> QED
        BY <3>1, <3>2
    <2>4. CASE ~(e[2] = s /\ e[1] = n)
      <3>1. new[e[2]][e[1]] = chan[e[2]][e[1]]
        BY <1>1, <2>1, <2>4
      <3> QED
        BY <2>2, <3>1
    <2> QED
      BY <2>3, <2>4
  <1>5. ASSUME NEW x \in Peer, NEW y \in Peer, new[x][y] # <<>>
        PROVE  <<y, x>> \in open
    BY <1>1, <1>5 DEF PipesOf
  <1> QED
    BY <1>3, <1>4, <1>5 DEF PipesOf, new

\* Appending an Eof to a stream without one.
LEMMA WithEof ==
    ASSUME NEW q \in Seq(Command), \A i \in DOMAIN q : q[i].cmd # "eof"
    PROVE  /\ Append(q, Eof) # <<>> /\ Last(Append(q, Eof)).cmd = "eof"
           /\ \A i \in DOMAIN Append(q, Eof) :
                 Append(q, Eof)[i].cmd = "eof" => i = Len(Append(q, Eof))
  <1> DEFINE r == Append(q, Eof)
  <1>1. /\ r \in Seq(Command) /\ r # <<>> /\ Len(r) = Len(q) + 1 /\ Len(q) \in Nat
        /\ DOMAIN q = 1..Len(q) /\ DOMAIN r = 1..(Len(q) + 1)
        /\ \A i \in 1..Len(q) : r[i] = q[i]
        /\ r[Len(q) + 1] = Eof
    BY Commands, AppendProperties, LenProperties
  <1> HIDE DEF r
  <1>2. Last(r) = Eof
    BY <1>1 DEF Last
  <1>3. ASSUME NEW i \in DOMAIN r, r[i].cmd = "eof" PROVE i = Len(r)
    <2>1. i \in 1..Len(q) => q[i].cmd = "eof"
      BY <1>1, <1>3
    <2>2. i \notin 1..Len(q)
      BY <1>1, <2>1
    <2> QED
      BY <1>1, <2>2
  <1> QED
    BY <1>1, <1>2, <1>3 DEF r, Eof

\* So does one that was cut first.
LEMMA EndingIsLast ==
    ASSUME NEW q \in Seq(Command), \A i \in DOMAIN q : q[i].cmd # "eof", NEW last \in Endings(q)
    PROVE  /\ last # <<>> /\ Last(last).cmd = "eof"
           /\ \A i \in DOMAIN last : last[i].cmd = "eof" => i = Len(last)
  <1>1. PICK told \in Seq(Command) :
          /\ last = Append(told, Eof) /\ Len(told) <= Len(q)
          /\ \A i \in 1..Len(told) : told[i] = q[i]
    BY EndingsTold
  <1>2. DOMAIN told = 1..Len(told) /\ DOMAIN q = 1..Len(q) /\ Len(told) \in Nat /\ Len(q) \in Nat
    BY LenProperties
  <1>3. \A i \in DOMAIN told : told[i].cmd # "eof"
    BY <1>1, <1>2
  <1> QED
    BY <1>1, <1>3, WithEof

\* Closing every socket of one instance.
LEMMA ClosePipes ==
    ASSUME NetType, PipesOf(open, chan), NEW n \in Peer, CloseAll(n)
    PROVE  PipesOf(open', chan')
  <1>1. open' = {e \in open : e[1] # n}
    BY ClosedLines
  <1>2. ASSUME NEW x \in Peer, NEW y \in Peer
        PROVE  /\ y = n => chan'[x][y] = <<>>
               /\ y # n /\ x = n /\ Linked(n, y) => chan'[x][y] \in Endings(chan[n][y])
               /\ y # n /\ ~(x = n /\ Linked(n, y)) => chan'[x][y] = chan[x][y]
    BY ClosedLines, Zenon
  <1>3. ASSUME NEW y \in Peer, Linked(n, y), NEW last \in Endings(chan[n][y])
        PROVE  /\ last # <<>> /\ Last(last).cmd = "eof"
               /\ \A i \in DOMAIN last : last[i].cmd = "eof" => i = Len(last)
    <2>1. chan[n][y] \in Seq(Command)
      BY DEF NetType
    <2>2. \A i \in DOMAIN chan[n][y] : chan[n][y][i].cmd # "eof"
      BY <1>3 DEF PipesOf, Linked
    <2> QED
      BY <2>1, <2>2, EndingIsLast
  <1>4. ASSUME NEW x \in Peer, NEW y \in Peer, NEW i \in DOMAIN chan'[x][y],
               chan'[x][y][i].cmd = "eof"
        PROVE  i = Len(chan'[x][y]) /\ <<x, y>> \notin open'
    <2>1. CASE y = n
      <3>1. DOMAIN chan'[x][y] = {}
        BY <1>2, <2>1
      <3> QED
        BY <3>1
    <2>2. CASE y # n /\ x = n /\ Linked(n, y)
      BY <1>1, <1>2, <1>3, <1>4, <2>2
    <2>3. CASE y # n /\ ~(x = n /\ Linked(n, y))
      BY <1>1, <1>2, <1>4, <2>3 DEF PipesOf
    <2> QED
      BY <2>1, <2>2, <2>3
  <1>5. ASSUME NEW e \in open', <<e[2], e[1]>> \notin open'
        PROVE  chan'[e[2]][e[1]] # <<>> /\ Last(chan'[e[2]][e[1]]).cmd = "eof"
    <2>1. e \in open /\ e[1] # n /\ e[1] \in Peer /\ e[2] \in Peer /\ e = <<e[1], e[2]>>
      BY <1>1 DEF NetType
    <2>2. CASE e[2] = n /\ Linked(n, e[1])
      <3>1. chan'[n][e[1]] \in Endings(chan[n][e[1]])
        BY <1>2, <2>1, <2>2
      <3> QED
        BY <1>3, <2>1, <2>2, <3>1, Zenon
    <2>3. CASE ~(e[2] = n /\ Linked(n, e[1]))
      <3>1. <<e[2], e[1]>> \notin open
        BY <1>1, <1>5, <2>1, <2>3 DEF Linked
      <3>2. chan'[e[2]][e[1]] = chan[e[2]][e[1]]
        BY <1>2, <2>1, <2>3
      <3> QED
        BY <2>1, <3>1, <3>2 DEF PipesOf
    <2> QED
      BY <2>2, <2>3
  <1>6. ASSUME NEW x \in Peer, NEW y \in Peer, chan'[x][y] # <<>>
        PROVE  <<y, x>> \in open'
    <2>1. y # n
      BY <1>2, <1>6
    <2>2. CASE x = n /\ Linked(n, y)
      BY <1>1, <2>1, <2>2 DEF Linked
    <2>3. CASE ~(x = n /\ Linked(n, y))
      <3>1. chan[x][y] # <<>>
        BY <1>2, <1>6, <2>1, <2>3
      <3> QED
        BY <1>1, <2>1, <3>1 DEF PipesOf
    <2> QED
      BY <2>2, <2>3
  <1> QED
    BY <1>4, <1>5, <1>6 DEF PipesOf

\* A connection opened where nothing of an earlier one is left.
LEMMA OpenPipes ==
    ASSUME NetType, PipesOf(open, chan), NEW n \in Peer, NEW d \in Peer,
           chan[n][d] = <<>>, chan[d][n] = <<>>
    PROVE  PipesOf(open \cup {<<n, d>>, <<d, n>>}, chan)
  <1> DEFINE new == open \cup {<<n, d>>, <<d, n>>}
  <1>1. ASSUME NEW x \in Peer, NEW y \in Peer, NEW i \in DOMAIN chan[x][y],
               chan[x][y][i].cmd = "eof"
        PROVE  i = Len(chan[x][y]) /\ <<x, y>> \notin new
    <2>1. chan[x][y] # <<>>
      OBVIOUS
    <2> QED
      BY <1>1, <2>1 DEF PipesOf
  <1>2. ASSUME NEW e \in new, <<e[2], e[1]>> \notin new
        PROVE  chan[e[2]][e[1]] # <<>> /\ Last(chan[e[2]][e[1]]).cmd = "eof"
    BY <1>2 DEF PipesOf
  <1> QED
    BY <1>1, <1>2 DEF PipesOf

\* Reading the end of a stream: nothing of the connection is left behind.
LEMMA EofPipes ==
    ASSUME NetType, PipesOf(open, chan), NEW n \in Peer, NEW s \in Peer,
           chan[s][n] # <<>>, Head(chan[s][n]).cmd = "eof"
    PROVE  PipesOf(open \ {<<n, s>>}, Taken(s, n))
  <1> DEFINE new == Taken(s, n)
             left == open \ {<<n, s>>}
  <1>1. chan[s][n] \in Seq(Command)
    BY DEF NetType
  <1>2. 1 \in DOMAIN chan[s][n] /\ Head(chan[s][n]) = chan[s][n][1]
    BY <1>1
  <1>3. Len(chan[s][n]) = 1 /\ <<s, n>> \notin open
    BY <1>2 DEF PipesOf
  <1>4. Tail(chan[s][n]) = <<>>
    <2>1. Tail(chan[s][n]) \in Seq(Command) /\ Len(Tail(chan[s][n])) = 1 - 1
      BY <1>1, <1>3, HeadTailProperties
    <2>2. Len(Tail(chan[s][n])) \notin Nat \ {0}
      BY <2>1
    <2> QED
      BY <2>1, <2>2, EmptySeq, Zenon
  <1>5. \A x, y \in Peer : new[x][y] = IF x = s /\ y = n THEN <<>> ELSE chan[x][y]
    BY <1>4 DEF Taken, NetType
  <1> HIDE DEF new
  <1>6. ASSUME NEW x \in Peer, NEW y \in Peer, NEW i \in DOMAIN new[x][y],
               new[x][y][i].cmd = "eof"
        PROVE  i = Len(new[x][y]) /\ <<x, y>> \notin left
    BY <1>5, <1>6 DEF PipesOf
  <1>7. ASSUME NEW e \in left, <<e[2], e[1]>> \notin left
        PROVE  new[e[2]][e[1]] # <<>> /\ Last(new[e[2]][e[1]]).cmd = "eof"
    <2>1. e[1] \in Peer /\ e[2] \in Peer /\ e = <<e[1], e[2]>>
      BY DEF NetType
    <2>2. <<e[2], e[1]>> \notin open
      BY <1>3, <1>7, <2>1
    <2> QED
      BY <1>5, <2>1, <2>2 DEF PipesOf
  <1>8. ASSUME NEW x \in Peer, NEW y \in Peer, new[x][y] # <<>>
        PROVE  <<y, x>> \in left
    BY <1>5, <1>8 DEF PipesOf
  <1> QED
    BY <1>6, <1>7, <1>8 DEF PipesOf, new

\* A socket closed by the timeout.
LEMMA TimeoutPipes ==
    ASSUME NetType, PipesOf(open, chan), NEW n \in Peer, NEW p \in Peer, n # p, Timeout(n, p)
    PROVE  PipesOf(open', chan')
  <1>1. open' = open \ {<<n, p>>} /\ <<n, p>> \in open
    BY DEF Timeout
  <1>0. PICK last \in IF <<p, n>> \in open THEN Endings(chan[n][p]) ELSE {chan[n][p]} :
          chan' = [chan EXCEPT ![p][n] = <<>>, ![n][p] = last]
    BY DEF Timeout
  <1>2. ASSUME NEW x \in Peer, NEW y \in Peer
        PROVE  /\ x = p /\ y = n => chan'[x][y] = <<>>
               /\ x = n /\ y = p => chan'[x][y] = last
               /\ <<x, y>> \notin {<<p, n>>, <<n, p>>} => chan'[x][y] = chan[x][y]
    BY <1>0 DEF NetType
  <1>3. \A i \in DOMAIN chan[n][p] : chan[n][p][i].cmd # "eof"
    BY <1>1 DEF PipesOf
  <1>4. /\ <<p, n>> \in open => last # <<>> /\ Last(last).cmd = "eof"
        /\ \A i \in DOMAIN last : last[i].cmd = "eof" => i = Len(last)
    <2>1. chan[n][p] \in Seq(Command)
      BY DEF NetType
    <2>2. CASE <<p, n>> \in open
      BY <1>0, <1>3, <2>1, <2>2, EndingIsLast
    <2>3. CASE <<p, n>> \notin open
      BY <1>0, <1>3, <2>3
    <2> QED
      BY <2>2, <2>3
  <1>5. ASSUME NEW x \in Peer, NEW y \in Peer, NEW i \in DOMAIN chan'[x][y],
               chan'[x][y][i].cmd = "eof"
        PROVE  i = Len(chan'[x][y]) /\ <<x, y>> \notin open'
    <2>1. CASE x = p /\ y = n
      <3>1. DOMAIN chan'[x][y] = {}
        BY <1>2, <2>1
      <3> QED
        BY <3>1
    <2>2. CASE x = n /\ y = p
      BY <1>1, <1>2, <1>3, <1>4, <1>5, <2>2
    <2>3. CASE <<x, y>> \notin {<<p, n>>, <<n, p>>}
      BY <1>1, <1>2, <1>5, <2>3 DEF PipesOf
    <2> QED
      BY <2>1, <2>2, <2>3
  <1>6. ASSUME NEW e \in open', <<e[2], e[1]>> \notin open'
        PROVE  chan'[e[2]][e[1]] # <<>> /\ Last(chan'[e[2]][e[1]]).cmd = "eof"
    <2>1. e \in open /\ e[1] \in Peer /\ e[2] \in Peer /\ e = <<e[1], e[2]>> /\ e # <<n, p>>
      BY <1>1 DEF NetType
    <2>2. CASE e = <<p, n>>
      BY <1>2, <1>4, <2>1, <2>2
    <2>3. CASE e # <<p, n>>
      <3>1. <<e[2], e[1]>> \notin open
        BY <1>1, <1>6, <2>1, <2>3
      <3>2. <<e[2], e[1]>> \notin {<<p, n>>, <<n, p>>}
        BY <2>1, <2>3
      <3> QED
        BY <1>2, <2>1, <3>1, <3>2 DEF PipesOf
    <2> QED
      BY <2>2, <2>3
  <1>7. ASSUME NEW x \in Peer, NEW y \in Peer, chan'[x][y] # <<>>
        PROVE  <<y, x>> \in open'
    <2>1. ~(x = p /\ y = n)
      BY <1>2, <1>7
    <2>2. <<y, x>> \in open
      <3>1. CASE x = n /\ y = p
        <4>1. <<p, n>> \notin open => chan[n][p] # <<>>
          BY <1>0, <1>2, <1>7, <3>1
        <4> QED
          BY <3>1, <4>1 DEF PipesOf
      <3>2. CASE <<x, y>> \notin {<<p, n>>, <<n, p>>}
        BY <1>2, <1>7, <3>2 DEF PipesOf
      <3> QED
        BY <2>1, <3>1, <3>2
    <2> QED
      BY <1>1, <2>1, <2>2
  <1> QED
    BY <1>5, <1>6, <1>7 DEF PipesOf

------------------------------------------------------------------------------
(***************************************************************************)
(* Whose the connections are.                                              *)
(***************************************************************************)
LEMMA ThreadParts ==
    ASSUME NetType PROVE Threads <=> ThreadState /\ OneConnectionPerPair /\ Owned
  <1>1. Threads => ThreadState /\ OneConnectionPerPair
    BY DEF Threads, Thread, ThreadState, OneConnectionPerPair
  <1>2. Owned <=> \A n, p \in Peer : <<n, p>> \in open => p \in Held(n)
    BY DEF Owned, NetType
  <1>3. ThreadState /\ OneConnectionPerPair /\ Owned => Threads
    BY <1>2 DEF Threads, Thread, ThreadState, OneConnectionPerPair
  <1>4. Threads => Owned
    BY <1>2 DEF Threads, Thread
  <1> QED
    BY <1>1, <1>3, <1>4

\* The instances other than n do not move; connections of theirs may close, one
\* they are opening may be reset.
Still(m) ==
    /\ phase'[m] = phase[m] /\ dial'[m] = dial[m]
    /\ answer'[m] = answer[m] \/ (answer[m] = "none" /\ answer'[m] = "reset")
    /\ todo'[m] = todo[m] /\ got'[m] = got[m]
    /\ DOMAIN dist'[m] = DOMAIN dist[m]
    /\ \A p \in Peer : <<m, p>> \in open' => <<m, p>> \in open

\* What is true of an instance stays so while it stands still.
LEMMA StillThread == ASSUME NEW m, Thread(m), Still(m) PROVE Thread(m)'
  BY DEF Thread, Still, Known, Held

\* A step in which nobody moves.
LEMMA StillThreads == ASSUME Threads, \A m \in Peer : Still(m) PROVE Threads'
  BY StillThread DEF Threads

\* A step in which only n moves: the rest is about n.
LEMMA OneMoves ==
    ASSUME Threads, NEW n \in Peer, \A m \in Peer \ {n} : Still(m), Thread(n)'
    PROVE  Threads'
  BY StillThread DEF Threads

\* peer_connected makes the peers of S known to n, and to nobody else.
LEMMA ConnectedKeys ==
    ASSUME MapsType, NEW n \in Peer, NEW S \in SUBSET Peer, PeersConnected(n, S)
    PROVE  \A m \in Peer : Known(m)' = IF m = n THEN Known(n) \cup S ELSE Known(m)
  <1>1. dist' = [dist EXCEPT ![n] = Emplace(dist[n], [p \in S |-> 0])]
    BY DEF PeersConnected
  <1>2. DOMAIN Emplace(dist[n], [p \in S |-> 0]) = DOMAIN dist[n] \cup S
    BY DEF Emplace
  <1> QED
    BY <1>1, <1>2 DEF MapsType, IsTotal, Known

\* disconnect() makes n forget every peer.
LEMMA ClearedKeys ==
    ASSUME MapsType, NEW n \in Peer, ClearMaps(n)
    PROVE  \A m \in Peer : Known(m)' = IF m = n THEN {} ELSE Known(m)
  <1>1. dist' = [dist EXCEPT ![n] = Empty] /\ DOMAIN Empty = {}
    BY DEF ClearMaps, Empty
  <1> QED
    BY <1>1 DEF MapsType, IsTotal, Known

\* At first nobody knows, dials or holds anybody.
LEMMA InitThreads == Init => Threads
  <1>1. Empty = [p \in {} |-> 0] /\ DOMAIN Empty = {}
    BY DEF Empty
  <1> QED
    BY <1>1, PeerAssumption DEF Init, Threads, Thread, Known, Held

\* A process that is gone has no thread, no peers and no sockets.
LEMMA DieThreads ==
    ASSUME Inv, Threads, NEW n \in Peer, Die(n) PROVE Threads'
  <1>1. \A m \in Peer : Known(m)' = IF m = n THEN {} ELSE Known(m)
    BY ClearedKeys DEF Die, Inv, TypeOK
  <1>2. open' = {e \in open : e[1] # n}
    BY ClosedLines DEF Die
  <1>3. \A m \in Peer \ {n} : Still(m)
    BY <1>1, <1>2 DEF Still, Known, Die, Inv, TypeOK, NodeType
  <1>4. Thread(n)'
    BY <1>1, <1>2, PeerAssumption DEF Thread, Held, Die, Inv, TypeOK, NodeType
  <1> QED
    BY <1>3, <1>4, OneMoves

\* disconnect(): the network stops and every peer goes.
LEMMA LeaveThreads ==
    ASSUME Inv, Threads, NEW n \in Peer, Leave(n) PROVE Threads'
  <1>1. \A m \in Peer : Known(m)' = IF m = n THEN {} ELSE Known(m)
    BY ClearedKeys DEF Leave, Inv, TypeOK
  <1>2. open' = {e \in open : e[1] # n}
    BY ClosedLines DEF Leave
  <1>3. \A m \in Peer \ {n} : Still(m)
    BY <1>1, <1>2 DEF Still, Known, Leave, Inv, TypeOK, NodeType
  <1>4. Thread(n)'
    <2>1. phase[n] = "running" /\ phase'[n] = "off" /\ Thread(n)
      BY DEF Leave, IdleThread, Inv, TypeOK, NodeType, Threads
    <2>2. dial[n] = NoPeer /\ answer[n] = "none" /\ got[n] \cup todo[n] = {}
      BY <2>1, PeerAssumption DEF Thread, Inv, TypeOK, NodeType
    <2>3. dial'[n] = NoPeer /\ answer'[n] = "none" /\ got'[n] = {} /\ todo'[n] = {}
      BY <2>2 DEF Leave
    <2> QED
      BY <1>1, <1>2, <2>1, <2>3, PeerAssumption DEF Thread, Held
  <1> QED
    BY <1>3, <1>4, OneMoves

\* A step of the thread of n that touches neither its peers nor its sockets.
LEMMA ThreadStepThreads ==
    ASSUME Inv, Threads, NEW n \in Peer, NEW t \in Peer,
           \/ Awake(n) \/ Connect(n, t) \/ JoinFails(n)
           \/ ScanDial(n, t) \/ ScanConnects(n) \/ ScanFails(n)
    PROVE  Threads'
  <1>0. NodeType /\ Thread(n) /\ NoPeer \notin Peer
    BY PeerAssumption DEF Inv, TypeOK, Threads
  <1>1. open' = open /\ dist' = dist
    BY DEF Awake, Connect, JoinFails, ScanDial, ScanConnects, ScanFails, maps, net
  <1>2. \A m \in Peer \ {n} : Still(m)
    BY <1>0, <1>1 DEF Still, HangUp, NodeType,
       Awake, Connect, JoinFails, ScanDial, ScanConnects, ScanFails
  <1>3. Known(n)' = Known(n) /\ Known(n) \subseteq Peer
    BY <1>1 DEF Known, Inv, TypeOK, MapsType, IsMap
  <1>4. Thread(n)'
    <2>1. CASE Awake(n)
      BY <1>0, <1>1, <1>3, <2>1 DEF Awake, Thread, Held, NodeType
    <2>2. CASE Connect(n, t)
      <3>1. Known(n) = {} /\ got[n] = {} /\ todo[n] = {} /\ answer[n] = "none"
        BY <1>0, <2>2 DEF Connect, Thread, NodeType
      <3> QED
        BY <1>0, <1>1, <1>3, <2>2, <3>1 DEF Connect, Thread, Held, NodeType
    <2>3. CASE JoinFails(n)
      <3>1. answer[n] # "accepted" /\ got[n] = {} /\ todo[n] = {} /\ Known(n) = {}
        BY <1>0, <2>3 DEF JoinFails, DialFails, Thread
      <3> QED
        BY <1>0, <1>1, <1>3, <2>3, <3>1 DEF JoinFails, HangUp, Thread, Held, NodeType
    <2>4. CASE ScanDial(n, t)
      <3>1. answer[n] = "none"
        BY <1>0, <2>4 DEF ScanDial, NodeType
      <3> QED
        BY <1>0, <1>1, <1>3, <2>4, <3>1 DEF ScanDial, Thread, Held, NodeType
    <2>5. CASE ScanConnects(n)
      <3>1. /\ phase'[n] = "scanning" /\ dial'[n] = NoPeer /\ answer'[n] = "none"
            /\ todo'[n] = todo[n] /\ got'[n] = got[n] \cup {dial[n]}
            /\ phase[n] = "scanning" /\ answer[n] = "accepted" /\ dial[n] \in Peer
        BY <1>0, <2>5 DEF ScanConnects, HangUp, NodeType
      <3> QED
        BY <1>0, <1>1, <1>3, <3>1 DEF Thread, Held, NodeType
    <2>6. CASE ScanFails(n)
      <3>1. answer[n] # "accepted"
        BY <2>6 DEF ScanFails, DialFails
      <3> QED
        BY <1>0, <1>1, <1>3, <2>6, <3>1 DEF ScanFails, HangUp, Thread, Held, NodeType
    <2> QED
      BY <2>1, <2>2, <2>3, <2>4, <2>5, <2>6
  <1> QED
    BY <1>2, <1>4, OneMoves

\* try_connect: the peer that was being dialled is now known.
LEMMA JoinSucceedsThreads ==
    ASSUME Inv, Threads, NEW n \in Peer, JoinSucceeds(n) PROVE Threads'
  <1>0. NodeType /\ Thread(n) /\ NoPeer \notin Peer /\ dial[n] \in Peer
    BY PeerAssumption DEF Inv, TypeOK, NodeType, Threads, JoinSucceeds
  <1>1. \A m \in Peer : Known(m)' = IF m = n THEN Known(n) \cup {dial[n]} ELSE Known(m)
    BY <1>0, ConnectedKeys DEF JoinSucceeds, Inv, TypeOK
  <1>2. \A m \in Peer \ {n} : Still(m)
    BY <1>0, <1>1 DEF Still, Known, JoinSucceeds, HangUp, NodeType
  <1>3. Thread(n)'
    <2>1. got[n] = {} /\ todo[n] = {}
      BY <1>0 DEF JoinSucceeds, Thread
    <2> QED
      BY <1>0, <1>1, <2>1 DEF JoinSucceeds, HangUp, Thread, Held, NodeType
  <1> QED
    BY <1>2, <1>3, OneMoves

\* The peers connected to during peers_list_handler are now known.
LEMMA ScanEndsThreads ==
    ASSUME Inv, Threads, NEW n \in Peer, ScanEnds(n) PROVE Threads'
  <1>0. NodeType /\ Thread(n) /\ NoPeer \notin Peer /\ got[n] \in SUBSET Peer
    BY PeerAssumption DEF Inv, TypeOK, NodeType, Threads
  <1>1. \A m \in Peer : Known(m)' = IF m = n THEN Known(n) \cup got[n] ELSE Known(m)
    BY <1>0, ConnectedKeys DEF ScanEnds, Inv, TypeOK
  <1>2. \A m \in Peer \ {n} : Still(m)
    BY <1>0, <1>1 DEF Still, Known, ScanEnds, NodeType
  <1>3. Thread(n)'
    <2>1. answer[n] = "none" /\ dial[n] = NoPeer
      BY <1>0 DEF ScanEnds, NodeType
    <2> QED
      BY <1>0, <1>1, <2>1 DEF ScanEnds, Thread, Held, NodeType
  <1> QED
    BY <1>2, <1>3, OneMoves

\* peers_list_handler: the list it starts on has no peer known and not n itself.
LEMMA HandlePeersListThreads ==
    ASSUME Inv, Threads, NEW n \in Peer, NEW s \in Peer, HandlePeersList(n, s) PROVE Threads'
  <1>0. NodeType /\ Thread(n) /\ NoPeer \notin Peer
    BY PeerAssumption DEF Inv, TypeOK, Threads
  <1>1. open' = open /\ dist' = dist
    BY DEF HandlePeersList, maps
  <1>2. \A m \in Peer \ {n} : Still(m)
    BY <1>0, <1>1 DEF Still, HandlePeersList, NodeType
  <1>3. Thread(n)'
    <2>1. phase[n] = "running"
      BY DEF HandlePeersList, Receives, IdleThread
    <2>2. got[n] = {} /\ dial[n] = NoPeer /\ answer[n] = "none"
      BY <1>0, <2>1 DEF Thread, NodeType
    <2>3. Head(chan[s][n]).ids \in SUBSET Peer /\ Known(n) \subseteq Peer
      BY HeadType, Fields DEF HandlePeersList, Inv, TypeOK, MapsType, IsMap, Known
    <2>4. Known(n)' = Known(n)
      BY <1>1 DEF Known
    <2> QED
      BY <1>0, <1>1, <2>1, <2>2, <2>3, <2>4 DEF HandlePeersList, Thread, Held, NodeType
  <1> QED
    BY <1>2, <1>3, OneMoves

\* process_read at the end of a stream: the peer goes with its socket.
LEMMA HandleEofThreads ==
    ASSUME Inv, Threads, NEW n \in Peer, NEW s \in Peer, HandleEof(n, s) PROVE Threads'
  <1>0. NodeType /\ Thread(n)
    BY DEF Inv, TypeOK, Threads
  <1>1. \A m \in Peer : Known(m)' = IF m = n THEN Known(n) \ {s} ELSE Known(m)
    <2> DEFINE kept == [q \in DOMAIN dist[n] \ {s} |-> dist[n][q]]
    <2>1. dist' = [dist EXCEPT ![n] = kept]
      BY DEF HandleEof, PeerDisconnected
    <2>2. DOMAIN kept = DOMAIN dist[n] \ {s}
      OBVIOUS
    <2> HIDE DEF kept
    <2> QED
      BY <2>1, <2>2 DEF Inv, TypeOK, MapsType, IsTotal, Known
  <1>2. open' = open \ {<<n, s>>} /\ UNCHANGED node
    BY DEF HandleEof
  <1>3. \A m \in Peer \ {n} : Still(m)
    BY <1>1, <1>2 DEF Still, Known, node
  <1>4. Thread(n)'
    BY <1>0, <1>1, <1>2 DEF Thread, Held, node
  <1> QED
    BY <1>3, <1>4, OneMoves

\* Nothing is left of an earlier connection between n and the d it accepts.
LEMMA AcceptedAreNew ==
    ASSUME Inv, Threads, PipesOf(open, chan), NEW n \in Peer, NEW d \in Peer,
           Accept(n, d), d \notin Known(n)
    PROVE  chan[n][d] = <<>> /\ chan[d][n] = <<>>
  <1>0. NodeType /\ Thread(n) /\ Thread(d) /\ NoPeer \notin Peer
    BY PeerAssumption DEF Inv, TypeOK, Threads
  <1>1. phase[n] = "running" /\ dial[d] = n /\ answer[d] = "none"
    BY DEF Accept, IdleThread
  <1>2. got[n] = {} /\ answer[n] = "none"
    BY <1>0, <1>1 DEF Thread, NodeType
  <1>3. d \notin Held(n) /\ n \notin Held(d)
    BY <1>0, <1>1, <1>2 DEF Thread, Held
  <1> QED
    BY <1>0, <1>3 DEF PipesOf, Thread

\* accept: the peer is new to the accepting side, the answer new to the dialling one.
LEMMA AcceptThreads ==
    ASSUME Inv, Threads, NEW n \in Peer, NEW d \in Peer, Accept(n, d) PROVE Threads'
  <1>0. NodeType /\ Thread(n) /\ Thread(d) /\ NoPeer \notin Peer
    BY PeerAssumption DEF Inv, TypeOK, Threads
  <1>1. /\ phase[n] = "running" /\ dial[d] = n /\ answer[d] = "none"
        /\ UNCHANGED <<phase, dial, todo, got>>
    BY DEF Accept, IdleThread
  <1>2. n # d
    BY <1>0, <1>1 DEF Thread
  <1>3. CASE answer' = [answer EXCEPT ![d] = "refused"] /\ UNCHANGED maps /\ UNCHANGED net
    <2>1. \A m \in Peer \ {d} : Still(m)
      BY <1>0, <1>1, <1>3 DEF Still, NodeType, maps, net
    <2>2. Known(d)' = Known(d) /\ open' = open /\ answer'[d] = "refused"
      BY <1>0, <1>3 DEF Known, maps, net, NodeType
    <2>3. Thread(d)'
      BY <1>0, <1>1, <2>2 DEF Thread, Held
    <2> QED
      BY <2>1, <2>3, OneMoves
  <1>4. CASE /\ d \notin Known(n) /\ answer' = [answer EXCEPT ![d] = "accepted"]
             /\ PeersConnected(n, {d}) /\ open' = open \cup {<<n, d>>, <<d, n>>}
    <2>1. \A m \in Peer : Known(m)' = IF m = n THEN Known(n) \cup {d} ELSE Known(m)
      BY <1>4, ConnectedKeys DEF Inv, TypeOK
    <2>2. \A m \in Peer \ {n, d} : Still(m)
      BY <1>0, <1>1, <1>4, <2>1 DEF Still, Known, NodeType
    <2>3. got[n] = {} /\ todo[n] = {} /\ dial[n] = NoPeer /\ answer[n] = "none"
      BY <1>0, <1>1 DEF Thread, NodeType
    <2>4. answer'[n] = "none" /\ answer'[d] = "accepted"
      BY <1>0, <1>2, <1>4, <2>3 DEF NodeType
    <2>5. Thread(n)'
      BY <1>0, <1>1, <1>2, <1>4, <2>1, <2>3, <2>4 DEF Thread, Held
    <2>6. Thread(d)'
      BY <1>0, <1>1, <1>2, <1>4, <2>1, <2>4 DEF Thread, Held
    <2> QED
      BY <2>2, <2>5, <2>6, StillThread DEF Threads
  <1> QED
    BY <1>3, <1>4 DEF Accept

------------------------------------------------------------------------------
(***************************************************************************)
(* The steps.                                                              *)
(***************************************************************************)
LEMMA ConnParts ==
    ASSUME ConnInv
    PROVE  /\ Inv /\ Threads /\ PipesOf(open, chan) /\ NetType /\ NodeType /\ MapsType
           /\ KeysAgree /\ DataType /\ chan \in Chans /\ open \subseteq Peer \X Peer
  BY DEF ConnInv, Inv, TypeOK, NetType, Chans

\* n sends something of its own accord.
LEMMA Sends ==
    ASSUME ConnInv, NEW n \in Peer, NEW out \in Outs, open' = open, chan' = Post(chan, n, out)
    PROVE  PipesOf(open', chan')
  BY ConnParts, PostPipes

\* Steps that touch neither sockets nor bytes.
LEMMA QuietSteps ==
    ASSUME ConnInv, NEW n \in Peer, NEW t \in Peer,
           \/ Awake(n) \/ Connect(n, t) \/ JoinFails(n)
           \/ ScanDial(n, t) \/ ScanConnects(n) \/ ScanFails(n)
    PROVE  Threads' /\ PipesOf(open', chan')
  <1>1. open' = open /\ chan' = chan
    BY DEF Awake, Connect, JoinFails, ScanDial, ScanConnects, ScanFails, net
  <1> QED
    BY <1>1, ConnParts, ThreadStepThreads

\* accept opens a connection of which nothing earlier is left.
LEMMA AcceptSteps ==
    ASSUME ConnInv, NEW n \in Peer, NEW d \in Peer, Accept(n, d)
    PROVE  Threads' /\ PipesOf(open', chan')
  <1>1. CASE UNCHANGED net
    BY <1>1, ConnParts, AcceptThreads DEF net
  <1>2. CASE d \notin Known(n) /\ open' = open \cup {<<n, d>>, <<d, n>>} /\ UNCHANGED chan
    <2>1. chan[n][d] = <<>> /\ chan[d][n] = <<>>
      BY <1>2, ConnParts, AcceptedAreNew
    <2> QED
      BY <1>2, <2>1, ConnParts, OpenPipes, AcceptThreads
  <1> QED
    BY <1>1, <1>2 DEF Accept

\* try_connect sends retrieve_peers on the connection it has just made.
LEMMA JoinSucceedsSteps ==
    ASSUME ConnInv, NEW n \in Peer, JoinSucceeds(n)
    PROVE  Threads' /\ PipesOf(open', chan')
  <1>1. To({dial[n]}, <<RetrievePeers>>) \in Outs
    BY Commands, ToOuts
  <1> QED
    BY <1>1, ConnParts, Sends, JoinSucceedsThreads DEF JoinSucceeds

\* The end of peers_list_handler sends to peers that are held.
LEMMA ScanEndsSteps ==
    ASSUME ConnInv, NEW n \in Peer, ScanEnds(n)
    PROVE  Threads' /\ PipesOf(open', chan')
  <1> DEFINE asked == [i \in DOMAIN failed[n] |-> RetrieveDistance(failed[n][i])]
             all == Direct(n) \cup got[n]
  <1>1. asked \in Seq(Sendable)
    BY ConnParts, AskedSeq
  <1>2. chan' = Post(chan, n, To(all, asked)) /\ open' = open
    BY DEF ScanEnds
  <1> HIDE DEF asked, all
  <1> QED
    BY <1>1, <1>2, ToOuts, ConnParts, Sends, ScanEndsThreads

\* send_to_all and send_to add to open connections only, or end the process.
LEMMA SendSteps ==
    ASSUME ConnInv, NEW n \in Peer, NEW p \in Peer, SendToAll(n) \/ SendTo(n, p)
    PROVE  Threads' /\ PipesOf(open', chan')
  <1>1. sent[n] < MaxSent => sent[n] + 1 \in 1..MaxSent
    BY ConnParts, BoundAssumption DEF DataType
  <1>2. sent[n] < MaxSent => /\ <<ToAll(n, sent[n] + 1)>> \in Seq(Sendable)
                             /\ <<ToOne(n, p, sent[n] + 1)>> \in Seq(Sendable)
    BY <1>1, Commands
  <1>3. CASE Die(n)
    BY <1>3, ConnParts, DieThreads, ClosePipes DEF Die
  <1>4. ASSUME NEW S, NEW cmds \in Seq(Sendable), chan' = Post(chan, n, To(S, cmds)),
               UNCHANGED <<node, dist, open>>
        PROVE  Threads' /\ PipesOf(open', chan')
    <2>1. \A m \in Peer : Still(m)
      BY <1>4 DEF Still, node
    <2> QED
      BY <1>4, <2>1, ToOuts, ConnParts, Sends, StillThreads
  <1>5. CASE UNCHANGED <<node, maps, net>>
    <2>1. \A m \in Peer : Still(m)
      BY <1>5 DEF Still, node, maps, net
    <2> QED
      BY <1>5, <2>1, ConnParts, StillThreads DEF net
  <1>6. CASE SendToAll(n)
    BY <1>2, <1>4, <1>6 DEF SendToAll, maps
  <1>7. CASE SendTo(n, p)
    <2>1. CASE /\ chan' = Post(chan, n, To({path[n][p].to}, <<ToOne(n, p, sent[n] + 1)>>))
               /\ UNCHANGED <<node, maps, open>>
      BY <1>2, <1>4, <1>7, <2>1 DEF SendTo, maps
    <2> QED
      BY <1>3, <1>5, <1>7, <2>1 DEF SendTo
  <1> QED
    BY <1>6, <1>7

\* timeout_impl closes one end and empties what would be read there.
LEMMA TimeoutSteps ==
    ASSUME ConnInv, NEW n \in Peer, NEW p \in Peer, Timeout(n, p)
    PROVE  Threads' /\ PipesOf(open', chan')
  <1>1. \A m \in Peer : Still(m)
    BY DEF Still, Timeout, node, maps
  <1>2. n # p
    BY ConnParts DEF Threads, Thread, Held, Timeout
  <1> QED
    BY <1>1, <1>2, ConnParts, StillThreads, TimeoutPipes

\* A handler that only sends, or dies.
LEMMA AnswerSteps ==
    ASSUME ConnInv, NEW n \in Peer, NEW s \in Peer, NEW c, Receives(n, s, c), c # "eof",
           Answers(n, s)
    PROVE  Threads' /\ PipesOf(open', chan')
  <1>1. CASE Die(n)
    BY <1>1, ConnParts, DieThreads, ClosePipes DEF Die
  <1>2. ASSUME KeysKept, NEW out \in Outs, Reply(n, s, out)
        PROVE  Threads' /\ PipesOf(open', chan')
    <2>1. \A m \in Peer : Still(m)
      BY <1>2 DEF Still, KeysKept, Reply, node
    <2>2. chan[s][n] # <<>> /\ Head(chan[s][n]).cmd # "eof"
      BY DEF Receives
    <2>3. Taken(s, n) \in Chans /\ PipesOf(open, Taken(s, n))
      BY <2>2, ConnParts, TakenChans, TakenPipes
    <2>4. chan' = Post(Taken(s, n), n, out) /\ open' = open
      BY <1>2 DEF Reply
    <2>5. PipesOf(open, Post(Taken(s, n), n, out))
      BY <2>3, ConnParts, PostPipes
    <2> QED
      BY <2>1, <2>4, <2>5, ConnParts, StillThreads
  <1> QED
    BY <1>1, <1>2 DEF Answers

\* Every handler of data_received.
LEMMA ReceiveSteps ==
    ASSUME ConnInv, NEW n \in Peer, NEW s \in Peer, Receive(n, s)
    PROVE  Threads' /\ PipesOf(open', chan')
  <1>1. CASE HandleEof(n, s)
    <2>1. chan[s][n] # <<>> /\ Head(chan[s][n]).cmd = "eof"
      BY <1>1 DEF HandleEof, Receives
    <2> QED
      BY <1>1, <2>1, ConnParts, EofPipes, HandleEofThreads DEF HandleEof
  <1>2. CASE HandlePeersList(n, s)
    <2>1. chan[s][n] # <<>> /\ Head(chan[s][n]).cmd # "eof"
      BY <1>2 DEF HandlePeersList, Receives
    <2>2. chan' = Taken(s, n) /\ open' = open
      BY <1>2 DEF HandlePeersList
    <2> QED
      BY <1>2, <2>1, <2>2, ConnParts, TakenPipes, HandlePeersListThreads
  <1>3. CASE HandleRetrievePeers(n, s)
    BY <1>3, ConnParts, HandleRetrievePeersInv, AnswerSteps DEF HandleRetrievePeers
  <1>4. CASE HandleRetrieveDistance(n, s)
    BY <1>4, ConnParts, HandleRetrieveDistanceInv, AnswerSteps, Zenon DEF HandleRetrieveDistance
  <1>5. CASE HandleUpdateDistance(n, s)
    BY <1>5, ConnParts, HandleUpdateDistanceInv, AnswerSteps, Zenon DEF HandleUpdateDistance
  <1>6. CASE HandleForwardTo(n, s)
    BY <1>6, ConnParts, HandleForwardToInv, AnswerSteps, Zenon DEF HandleForwardTo
  <1>7. CASE HandleForwardingTo(n, s)
    BY <1>7, ConnParts, HandleForwardingToInv, AnswerSteps DEF HandleForwardingTo
  <1>8. CASE HandleSendToAll(n, s)
    BY <1>8, ConnParts, HandleSendToAllInv, AnswerSteps, Zenon DEF HandleSendToAll
  <1>9. CASE HandleSendTo(n, s)
    BY <1>9, ConnParts, HandleSendToInv, AnswerSteps, Zenon DEF HandleSendTo
  <1> QED
    BY <1>1, <1>2, <1>3, <1>4, <1>5, <1>6, <1>7, <1>8, <1>9 DEF Receive

\* No connection at first.
LEMMA InitConn == Init => ConnInv
  <1>1. Init => PipesOf(open, chan)
    BY DEF Init, PipesOf
  <1> QED
    BY <1>1, InitInv, InitThreads DEF ConnInv

\* Every step keeps the invariant.
LEMMA NextConn == ConnInv /\ [Next]_vars => ConnInv'
  <1> SUFFICES ASSUME ConnInv, [Next]_vars PROVE Threads' /\ PipesOf(open', chan')
    BY NextInv DEF ConnInv
  <1>1. CASE UNCHANGED vars
    <2>1. \A m \in Peer : Still(m)
      BY <1>1 DEF Still, vars, node, maps, net
    <2> QED
      BY <1>1, <2>1, ConnParts, StillThreads DEF vars, net
  <1>2. ASSUME NEW n \in Peer, Progress(n) PROVE Threads' /\ PipesOf(open', chan')
    <2>1. CASE ScanThrows(n)
      BY <2>1, ConnParts, DieThreads, ClosePipes DEF ScanThrows, Die
    <2> QED
      BY <1>2, <2>1, QuietSteps, JoinSucceedsSteps, ScanEndsSteps, AcceptSteps, ReceiveSteps
         DEF Progress
  <1>3. ASSUME NEW n \in Peer, External(n) PROVE Threads' /\ PipesOf(open', chan')
    <2>1. CASE Leave(n)
      BY <2>1, ConnParts, LeaveThreads, ClosePipes DEF Leave
    <2>2. CASE Crash(n)
      BY <2>2, ConnParts, DieThreads, ClosePipes DEF Crash, Die
    <2> QED
      BY <1>3, <2>1, <2>2, QuietSteps, SendSteps, TimeoutSteps DEF External
  <1> QED
    BY <1>1, <1>2, <1>3 DEF Next

\* The invariant has the properties of the runs as parts.
LEMMA ConnImplies ==
    ConnInv => EofIsLast /\ HalfOpenEnds /\ NoStrayConnection /\ ThreadState /\ OneConnectionPerPair
  <1> SUFFICES ASSUME ConnInv
               PROVE  EofIsLast /\ HalfOpenEnds /\ NoStrayConnection /\ ThreadState /\ OneConnectionPerPair
    OBVIOUS
  <1>1. ThreadState /\ OneConnectionPerPair /\ Owned
    BY ConnParts, ThreadParts
  <1> QED
    BY <1>1, ConnParts, PipesParts

\* The inductive invariant about the connections that process_connected_peer
\* opens and process_read, disconnect and timeout_impl close.
THEOREM ConnInvariance == Spec => []ConnInv
  BY InitConn, NextConn, PTL DEF Spec

\* However the handshakes of two instances interleave, try_connect, accept and
\* peers_list_handler never give them a second connection.
THEOREM OneConnection == Spec => []OneConnectionPerPair
  BY ConnInvariance, ConnImplies, PTL

\* No socket and no byte of a connection outlives the peer it belongs to, in
\* either direction: what process_read hands on always has a peer it is from.
THEOREM NothingStray == Spec => []NoStrayConnection
  BY ConnInvariance, ConnImplies, PTL

\* An end that disconnect, a fault or timeout_impl left open can always read
\* up to the end of the stream, where process_read reports the disconnection.
THEOREM EndsAreReported == Spec => []HalfOpenEnds
  BY ConnInvariance, ConnImplies, PTL

\* No command follows an end of stream, so a new connection with the same peer
\* starts with an empty stream.
THEOREM EofComesLast == Spec => []EofIsLast
  BY ConnInvariance, ConnImplies, PTL

\* peers_list_handler never lists or dials a peer it knows, has connected to
\* or is itself; peers are known only while the network thread runs.
THEOREM ThreadsAreSound == Spec => []ThreadState
  BY ConnInvariance, ConnImplies, PTL

=============================================================================
