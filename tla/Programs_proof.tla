--------------------------- MODULE Programs_proof ---------------------------
(***************************************************************************)
(* Proofs about Programs, for any number of games and chats that come,     *)
(* meet, play and end, given that the classes they send differ by hash.    *)
(*                                                                         *)
(* Names are counted because of what is on the lines between two programs: *)
(* each carries the name of its sender once, and nothing behind the end of *)
(* it (Line).  A choice is told to all because m_inputted is set before it *)
(* is sent, and a name that comes meanwhile is known before it is sent     *)
(* (Tells).  The counters stay in range because what one is told of plays  *)
(* was typed once and is told in two ways at most (Owes).                  *)
(***************************************************************************)
EXTENDS Programs, FiniteSetTheorems, SequenceTheorems, TLAPS

NameHash == HashOf[Name]

Stages == {"idle", "send", "check", "turn", "clear", "late"}

Typed ==
    /\ life \in [Peer -> {"loop", "over"}]
    /\ peers \in [Peer -> SUBSET Peer] /\ met \in [Peer -> SUBSET Peer]
    /\ nicknames \in [Peer -> SUBSET Peer]
    /\ wire \in [Peer -> [Peer -> Seq(Int)]]
    /\ inputted \in [Peer -> BOOLEAN]
    /\ playerNbr \in [Peer -> Nat \ {0}] /\ plays \in [Peer -> Nat]
    /\ untold \in [Peer -> SUBSET Peer]
    /\ at \in [Peer -> [Thread -> Stages]]

\* One peer is introduced after the other, and a program that is over knows nobody.
Acquainted(p) ==
    /\ p \notin peers[p] /\ met[p] \subseteq peers[p]
    /\ \A q, r \in peers[p] \ met[p] : q = r
    /\ life[p] = "over" => peers[p] = {} /\ nicknames[p] = {}
    /\ p \notin Game => nicknames[p] \subseteq peers[p]

\* What is on a line.
Carries(w, hash) == \E i \in 1..Len(w) : w[i] = hash
Once(w, hash)    == \A i, j \in 1..Len(w) : w[i] = hash /\ w[j] = hash => i = j
Closed(w, over)  == \A i \in 1..Len(w) : w[i] = Eof <=> (over /\ i = Len(w))

\* The line from p to q: it ends when p has, and tells the name of p once, when p
\* has met q and before q has noted it.
Line(p, q) ==
    /\ wire[p][q] # <<>> => p \in peers[q]
    /\ p \in peers[q] /\ life[p] = "over" => wire[p][q] # <<>>
    /\ Closed(wire[p][q], life[p] = "over")
    /\ Once(wire[p][q], NameHash)
    /\ p \in nicknames[q] => ~Carries(wire[p][q], NameHash)
    /\ life[p] = "loop" =>
         /\ q \notin met[p] => p \notin nicknames[q] /\ ~Carries(wire[p][q], NameHash)
         /\ q \in met[p] /\ life[q] = "loop" => p \in nicknames[q] \/ Carries(wire[p][q], NameHash)
         /\ p \in nicknames[q] => p \in peers[q]
         /\ p \in peers[q] => q \in peers[p]

\* Who is not told of a choice is known by name, is being told, or has left.
Tells(p) ==
    /\ untold[p] \subseteq nicknames[p]
    /\ at[p]["main"] = "clear" => ~inputted[p]
    /\ inputted[p] /\ at[p]["main"] # "send" => untold[p] \intersect peers[p] = {}

Inv ==
    /\ Typed
    /\ \A p \in Peer : Acquainted(p)
    /\ \A p, q \in Peer : Line(p, q)
    /\ NamesCounted
    /\ \A p \in Game : life[p] = "loop" => Tells(p)

------------------------------------------------------------------------------
(* Lines. *)

\* The five hashes differ, and none is the end of a line.
LEMMA HashFacts ==
    /\ \A type \in Class : HashOf[type] \in Int /\ HashOf[type] # Eof
    /\ Name \in Class /\ Rpc \in Class /\ NameHash \in Int /\ NameHash # Eof
    /\ \A type \in {String, Rpc, Message, Square} : type \in Class /\ HashOf[type] # NameHash
    /\ HashOf[String] # HashOf[Rpc] /\ HashOf[Message] # HashOf[Rpc] /\ HashOf[Square] # HashOf[Rpc]
  <1>1. /\ Len(Classes) = 5
        /\ Classes[1] = Name /\ Classes[2] = String /\ Classes[3] = Rpc
        /\ Classes[4] = Message /\ Classes[5] = Square
    BY DEF Classes
  <1>2. Class = {Name, String, Rpc, Message, Square}
    BY DEF Class, Classes, Range
  <1>3. \A h, k, l, m, n : ({h, k, l, m, n} \subseteq Nat) => {h, k, l, m, n} \subseteq Int
    OBVIOUS
  <1>4. /\ HashOf[Name] \in Nat /\ HashOf[String] \in Nat /\ HashOf[Rpc] \in Nat
        /\ HashOf[Message] \in Nat /\ HashOf[Square] \in Nat
    <2>1. \A i \in 1..5 : HashOf[Classes[i]] \in Nat
      BY HashAssumption
    <2> QED
      BY <1>1, <2>1
  <1>5. /\ HashOf[String] # HashOf[Name] /\ HashOf[Rpc] # HashOf[Name]
        /\ HashOf[Message] # HashOf[Name] /\ HashOf[Square] # HashOf[Name]
        /\ HashOf[String] # HashOf[Rpc] /\ HashOf[Message] # HashOf[Rpc] /\ HashOf[Square] # HashOf[Rpc]
    <2>1. \A i, j \in 1..5 : HashOf[Classes[i]] = HashOf[Classes[j]] => i = j
      BY HashAssumption
    <2> HIDE DEF HashOf
    <2> QED
      BY <1>1, <2>1
  <1>6. \A n \in Nat : n # Eof
    BY DEF Eof
  <1> QED
    BY <1>2, <1>4, <1>5, <1>6 DEF NameHash

LEMMA EmptyFacts ==
    /\ <<>> \in Seq(Int) /\ Once(<<>>, NameHash) /\ ~Carries(<<>>, NameHash)
    /\ \A over \in BOOLEAN : Closed(<<>>, over)
  BY DEF Once, Carries, Closed

LEMMA SentFacts ==
    ASSUME NEW w \in Seq(Int), NEW hash \in Int, hash # Eof, Closed(w, FALSE)
    PROVE  LET r == Append(w, hash)
           IN  /\ r \in Seq(Int) /\ r # <<>> /\ Closed(r, FALSE)
               /\ hash # NameHash => (Carries(r, NameHash) <=> Carries(w, NameHash)) /\ (Once(w, NameHash) => Once(r, NameHash))
               /\ hash = NameHash => Carries(r, NameHash) /\ (~Carries(w, NameHash) => Once(r, NameHash))
  <1> DEFINE r == Append(w, hash)
  <1>1. /\ r \in Seq(Int) /\ r # <<>> /\ Len(w) \in Nat /\ Len(r) = Len(w) + 1
        /\ r[Len(w) + 1] = hash /\ \A i \in 1..Len(w) : r[i] = w[i]
    OBVIOUS
  <1> HIDE DEF r
  <1>2. /\ Len(w) + 1 \in 1..Len(r) /\ \A i \in 1..Len(w) : i \in 1..Len(r)
        /\ \A i \in 1..Len(r) : i \in 1..Len(w) \/ i = Len(w) + 1
    BY <1>1
  <1>3. Closed(r, FALSE)
    BY <1>1, <1>2 DEF Closed
  <1>4. ASSUME hash # NameHash
        PROVE  (Carries(r, NameHash) <=> Carries(w, NameHash)) /\ (Once(w, NameHash) => Once(r, NameHash))
    BY <1>1, <1>2, <1>4 DEF Carries, Once
  <1>5. ASSUME hash = NameHash
        PROVE  Carries(r, NameHash) /\ (~Carries(w, NameHash) => Once(r, NameHash))
    BY <1>1, <1>2, <1>5 DEF Carries, Once
  <1> QED
    BY <1>1, <1>3, <1>4, <1>5 DEF r

LEMMA TakenFacts ==
    ASSUME NEW w \in Seq(Int), w # <<>>, NEW over \in BOOLEAN, Closed(w, over), Once(w, NameHash)
    PROVE  LET r == Tail(w)
           IN  /\ r \in Seq(Int) /\ Closed(r, over) /\ Once(r, NameHash)
               /\ Carries(r, NameHash) => Carries(w, NameHash)
               /\ Head(w) = NameHash => Carries(w, NameHash) /\ ~Carries(r, NameHash)
               /\ Head(w) # NameHash => (Carries(w, NameHash) => Carries(r, NameHash))
               /\ Head(w) = Eof => over /\ r = <<>>
               /\ Head(w) # Eof => (over => r # <<>>)
  <1> DEFINE r == Tail(w)
             n == Len(w)
  <1>1. /\ r \in Seq(Int) /\ n \in Nat /\ n >= 1 /\ Len(r) = n - 1
        /\ Head(w) = w[1] /\ \A i \in 1..Len(r) : r[i] = w[i + 1]
    OBVIOUS
  <1> HIDE DEF r
  <1>2. /\ 1 \in 1..n /\ \A i \in 1..Len(r) : i + 1 \in 1..n
        /\ \A i \in 1..n : i # 1 => i - 1 \in 1..Len(r) /\ (i - 1) + 1 = i
        /\ \A i \in 1..Len(r) : i = Len(r) <=> i + 1 = n
    BY <1>1
  <1>3. Closed(r, over)
    BY <1>1, <1>2 DEF Closed
  <1>4. Carries(r, NameHash) => Carries(w, NameHash)
    BY <1>1, <1>2 DEF Carries
  <1>5. Once(r, NameHash)
    <2> SUFFICES ASSUME NEW i \in 1..Len(r), NEW j \in 1..Len(r), r[i] = NameHash, r[j] = NameHash PROVE i = j
      BY DEF Once
    <2>1. i + 1 = j + 1
      BY <1>1, <1>2 DEF Once
    <2> QED
      BY <1>1, <2>1
  <1>6. ASSUME Head(w) = NameHash PROVE Carries(w, NameHash) /\ ~Carries(r, NameHash)
    <2>1. Carries(w, NameHash)
      BY <1>1, <1>2, <1>6 DEF Carries
    <2>2. ASSUME NEW i \in 1..Len(r), r[i] = NameHash PROVE FALSE
      <3>1. w[i + 1] = NameHash /\ i + 1 \in 1..n /\ w[1] = NameHash
        BY <1>1, <1>2, <1>6, <2>2
      <3>2. i + 1 = 1
        BY <1>2, <3>1 DEF Once
      <3> QED
        BY <1>1, <3>2
    <2> QED
      BY <2>1, <2>2 DEF Carries
  <1>7. ASSUME Head(w) # NameHash, Carries(w, NameHash) PROVE Carries(r, NameHash)
    <2>1. PICK i \in 1..n : w[i] = NameHash
      BY <1>7 DEF Carries
    <2>2. i # 1
      BY <1>1, <1>7, <2>1
    <2>3. i - 1 \in 1..Len(r) /\ r[i - 1] = NameHash
      BY <1>1, <1>2, <2>1, <2>2
    <2> QED
      BY <2>3 DEF Carries
  <1>8. Head(w) = Eof <=> over /\ 1 = n
    BY <1>1, <1>2 DEF Closed
  <1>9. r = <<>> <=> n = 1
    <2>1. r = <<>> <=> Len(r) = 0
      BY <1>1
    <2> QED
      BY <1>1, <2>1
  <1> QED
    BY <1>1, <1>3, <1>4, <1>5, <1>6, <1>7, <1>8, <1>9 DEF r

\* A line when its sender ends.
LEMMA EndedFacts ==
    ASSUME NEW w \in Seq(Int), Closed(w, FALSE), Once(w, NameHash)
    PROVE  LET r == Append(w, Eof)
           IN  /\ r \in Seq(Int) /\ r # <<>> /\ Closed(r, TRUE) /\ Once(r, NameHash)
               /\ Carries(r, NameHash) => Carries(w, NameHash)
  <1> DEFINE r == Append(w, Eof)
  <1>1. Eof \in Int /\ NameHash # Eof
    BY HashFacts DEF Eof
  <1>2. /\ r \in Seq(Int) /\ r # <<>> /\ Len(w) \in Nat /\ Len(r) = Len(w) + 1
        /\ r[Len(w) + 1] = Eof /\ \A i \in 1..Len(w) : r[i] = w[i]
    BY <1>1
  <1> HIDE DEF r
  <1>3. \A i \in 1..Len(r) : i \in 1..Len(w) \/ i = Len(w) + 1
    BY <1>2
  <1>4. \A i \in 1..Len(w) : r[i] # Eof
    BY <1>2 DEF Closed
  <1>5. Closed(r, TRUE)
    BY <1>2, <1>3, <1>4 DEF Closed
  <1>6. \A i \in 1..Len(r) : r[i] = NameHash => i \in 1..Len(w) /\ w[i] = NameHash
    BY <1>1, <1>2, <1>3
  <1>7. Once(r, NameHash) /\ (Carries(r, NameHash) => Carries(w, NameHash))
    BY <1>6 DEF Once, Carries
  <1> QED
    BY <1>2, <1>5, <1>7 DEF r

------------------------------------------------------------------------------
(* What is said. *)

\* W are the lines w with one more message to those receivers that are not over.
Sent(W, w, p, receivers, type) ==
    /\ W \in [Peer -> [Peer -> Seq(Int)]]
    /\ \A x, y \in Peer :
         W[x][y] = IF x = p /\ y \in receivers /\ life[y] = "loop" THEN Append(w[x][y], HashOf[type]) ELSE w[x][y]

LEMMA SentToFacts ==
    ASSUME NEW w \in [Peer -> [Peer -> Seq(Int)]], NEW p \in Peer, NEW receivers, NEW type \in Class
    PROVE  Sent(SentTo(w, p, receivers, type), w, p, receivers, type)
  <1>1. HashOf[type] \in Int
    BY HashFacts
  <1> DEFINE h == HashOf[type]
  <1> HIDE DEF h
  <1>2. \A y \in Peer : w[p][y] \in Seq(Int) /\ Append(w[p][y], h) \in Seq(Int)
    BY <1>1 DEF h
  <1> DEFINE line == [q \in Peer |-> IF q \in receivers /\ life[q] = "loop" THEN Append(w[p][q], h) ELSE w[p][q]]
  <1>3. line \in [Peer -> Seq(Int)]
    BY <1>2
  <1>4. \A y \in Peer : line[y] = IF y \in receivers /\ life[y] = "loop" THEN Append(w[p][y], h) ELSE w[p][y]
    OBVIOUS
  <1>5. SentTo(w, p, receivers, type) = [w EXCEPT ![p] = line]
    BY Zenon DEF SentTo, h
  <1> HIDE DEF line
  <1>6. /\ [w EXCEPT ![p] = line] \in [Peer -> [Peer -> Seq(Int)]]
        /\ \A x \in Peer : [w EXCEPT ![p] = line][x] = IF x = p THEN line ELSE w[x]
    BY <1>3
  <1>7. ASSUME NEW x \in Peer, NEW y \in Peer
        PROVE  [w EXCEPT ![p] = line][x][y] = IF x = p /\ y \in receivers /\ life[y] = "loop"
                                             THEN Append(w[x][y], h) ELSE w[x][y]
    BY <1>4, <1>6
  <1> QED
    BY <1>5, <1>6, <1>7 DEF Sent, h

\* What a program says to those it knows keeps all lines.
LEMMA SaidKeepsLines ==
    ASSUME Inv, NEW p \in Peer, NEW type \in Class, HashOf[type] # NameHash,
           wire' = SentTo(wire, p, peers[p], type), UNCHANGED <<life, peers, met, nicknames>>,
           NEW x \in Peer, NEW y \in Peer
    PROVE  Line(x, y)'
  <1>1. Line(x, y) /\ Line(y, x) /\ Acquainted(x) /\ life[x] \in {"loop", "over"} /\ wire[x][y] \in Seq(Int)
    BY DEF Inv, Typed
  <1>2. wire'[x][y] = IF x = p /\ y \in peers[p] /\ life[y] = "loop"
                      THEN Append(wire[x][y], HashOf[type]) ELSE wire[x][y]
    <2>1. wire \in [Peer -> [Peer -> Seq(Int)]]
      BY DEF Inv, Typed
    <2>2. Sent(wire', wire, p, peers[p], type)
      BY <2>1, SentToFacts, Zenon
    <2> QED
      BY <2>2 DEF Sent
  <1>3. CASE x = p /\ y \in peers[p] /\ life[y] = "loop"
    <2>1. life[x] = "loop" /\ x \in peers[y]
      BY <1>1, <1>3 DEF Line, Acquainted
    <2>2. Closed(wire[x][y], FALSE) /\ Once(wire[x][y], NameHash)
      BY <1>1, <2>1 DEF Line
    <2>3. HashOf[type] \in Int /\ HashOf[type] # Eof
      BY HashFacts
    <2> DEFINE r == Append(wire[x][y], HashOf[type])
    <2>4. /\ r # <<>> /\ Closed(r, FALSE) /\ Once(r, NameHash)
          /\ Carries(r, NameHash) <=> Carries(wire[x][y], NameHash)
      BY <1>1, <2>2, <2>3, SentFacts
    <2>5. wire'[x][y] = r
      BY <1>2, <1>3
    <2> HIDE DEF r
    <2> QED
      BY <1>1, <2>1, <2>4, <2>5 DEF Line
  <1>4. CASE ~(x = p /\ y \in peers[p] /\ life[y] = "loop")
    BY <1>1, <1>2, <1>4 DEF Line
  <1> QED
    BY <1>3, <1>4

\* Nobody comes or goes, and names stay.
LEMMA MeetingKept ==
    ASSUME Inv, UNCHANGED <<life, peers, met, nicknames, playerNbr>>
    PROVE  (\A p \in Peer : Acquainted(p)') /\ NamesCounted'
  BY DEF Inv, Acquainted, NamesCounted

LEMMA LinesKept ==
    ASSUME Inv, UNCHANGED <<life, peers, met, nicknames, wire>>
    PROVE  \A p, q \in Peer : Line(p, q)'
  BY DEF Inv, Line

LEMMA TellsKept ==
    ASSUME NEW p, Tells(p), at'[p] = at[p], inputted'[p] = inputted[p], untold'[p] = untold[p],
           nicknames[p] \subseteq nicknames'[p], peers'[p] \subseteq peers[p]
    PROVE  Tells(p)'
  BY DEF Tells

LEMMA SaysKeeps ==
    ASSUME Inv, NEW p \in Peer, Says(p)
    PROVE  Inv'
  <1>1. PICK type \in Said(p) : wire' = SentTo(wire, p, peers[p], type)
    BY DEF Says
  <1>2. UNCHANGED <<life, peers, met, nicknames, inputted, playerNbr, plays, untold, at>>
    BY DEF Says, game
  <1>3. type \in Class /\ HashOf[type] # NameHash
    BY <1>1, HashFacts DEF Said
  <1>4. Typed'
    <2>1. wire \in [Peer -> [Peer -> Seq(Int)]]
      BY DEF Inv, Typed
    <2>2. Sent(wire', wire, p, peers[p], type)
      BY <1>1, <1>3, <2>1, SentToFacts, Zenon
    <2> QED
      BY <1>1, <1>2, <2>2 DEF Inv, Typed, Sent
  <1>5. \A x, y \in Peer : Line(x, y)'
    BY <1>1, <1>2, <1>3, SaidKeepsLines
  <1>6. \A g \in Game : life'[g] = "loop" => Tells(g)'
    BY <1>2, TellsKept DEF Inv
  <1> QED
    BY <1>2, <1>4, <1>5, <1>6, MeetingKept DEF Inv

\* A step of a program that is in its game.
LEMMA StageSet ==
    ASSUME Inv, NEW p \in Peer, NEW t \in Thread, NEW stage \in Stages, Goes(p, t, stage)
    PROVE  /\ at' \in [Peer -> [Thread -> Stages]]
           /\ at'[p][t] = stage
           /\ \A u \in Thread : u # t => at'[p][u] = at[p][u]
           /\ \A q \in Peer : q # p => at'[q] = at[q]
  BY DEF Inv, Typed, Goes

LEMMA InputKeeps ==
    ASSUME Inv, NEW p \in Peer, Input(p)
    PROVE  Inv'
  <1>1. /\ UNCHANGED <<life, peers, met, wire, nicknames, playerNbr, plays>>
        /\ inputted' = [inputted EXCEPT ![p] = TRUE]
        /\ untold' = [untold EXCEPT ![p] = nicknames[p] \intersect peers[p]]
        /\ Goes(p, "main", "send") /\ at[p]["main"] = "idle" /\ "main" \in Thread /\ "send" \in Stages
    BY DEF Input, Types, network, Thread, Stages
  <1>2. /\ at' \in [Peer -> [Thread -> Stages]] /\ at'[p]["main"] = "send"
        /\ \A q \in Peer : q # p => at'[q] = at[q]
    BY <1>1, StageSet
  <1>3. /\ inputted' \in [Peer -> BOOLEAN] /\ untold' \in [Peer -> SUBSET Peer]
        /\ untold'[p] = nicknames[p] \intersect peers[p]
        /\ \A q \in Peer : q # p => inputted'[q] = inputted[q] /\ untold'[q] = untold[q]
    BY <1>1 DEF Inv, Typed
  <1>4. Typed'
    BY <1>1, <1>2, <1>3 DEF Inv, Typed
  <1>5. ASSUME NEW g \in Game, life'[g] = "loop" PROVE Tells(g)'
    <2>1. CASE g = p
      BY <1>1, <1>2, <1>3, <2>1 DEF Tells
    <2>2. CASE g # p
      <3>1. g \in Peer /\ Tells(g)
        BY <1>1, <1>5, GameAssumption DEF Inv
      <3> QED
        BY <1>1, <1>2, <1>3, <2>2, <3>1, TellsKept
    <2> QED
      BY <2>1, <2>2
  <1> QED
    BY <1>1, <1>4, <1>5, MeetingKept, LinesKept DEF Inv

LEMMA PlaysKeeps ==
    ASSUME Inv, NEW p \in Peer, Plays(p)
    PROVE  Inv'
  <1>1. /\ UNCHANGED <<life, peers, met, nicknames, inputted, playerNbr, plays>>
        /\ wire' = SentTo(wire, p, peers[p], Rpc)
        /\ untold' = [untold EXCEPT ![p] = @ \ peers[p]]
        /\ at[p]["main"] = "send" /\ Goes(p, "main", "check") /\ "main" \in Thread /\ "check" \in Stages
    BY DEF Plays, Thread, Stages
  <1>2. /\ at' \in [Peer -> [Thread -> Stages]] /\ at'[p]["main"] = "check"
        /\ \A q \in Peer : q # p => at'[q] = at[q]
    BY <1>1, StageSet
  <1>3. Rpc \in Class /\ HashOf[Rpc] # NameHash
    BY HashFacts
  <1>4. /\ untold' \in [Peer -> SUBSET Peer] /\ untold'[p] = untold[p] \ peers[p]
        /\ \A q \in Peer : q # p => untold'[q] = untold[q]
    BY <1>1 DEF Inv, Typed
  <1>5. Typed'
    <2>1. wire \in [Peer -> [Peer -> Seq(Int)]]
      BY DEF Inv, Typed
    <2>2. Sent(wire', wire, p, peers[p], Rpc)
      BY <1>1, <1>3, <2>1, SentToFacts, Zenon
    <2> QED
      BY <1>1, <1>2, <1>4, <2>2 DEF Inv, Typed, Sent
  <1>6. \A x, y \in Peer : Line(x, y)'
    BY <1>1, <1>3, SaidKeepsLines
  <1>7. ASSUME NEW g \in Game, life'[g] = "loop" PROVE Tells(g)'
    <2>1. g \in Peer /\ Tells(g)
      BY <1>1, <1>7, GameAssumption DEF Inv
    <2>2. CASE g = p
      BY <1>1, <1>2, <1>4, <2>1, <2>2 DEF Tells
    <2>3. CASE g # p
      BY <1>1, <1>2, <1>4, <2>1, <2>3, TellsKept
    <2> QED
      BY <2>2, <2>3
  <1> QED
    BY <1>1, <1>5, <1>6, <1>7, MeetingKept DEF Inv

LEMMA ChecksKeeps ==
    ASSUME Inv, NEW p \in Peer, NEW t \in Thread, Checks(p, t)
    PROVE  Inv'
  <1>1. UNCHANGED <<life, peers, met, wire, nicknames, inputted, playerNbr, plays, untold>>
    BY DEF Checks, network
  <1>2. PICK stage \in {"turn", "late", "idle"} : Goes(p, t, stage)
    BY DEF Checks
  <1>3. /\ at' \in [Peer -> [Thread -> Stages]] /\ at'[p][t] = stage
        /\ \A u \in Thread : u # t => at'[p][u] = at[p][u]
        /\ \A q \in Peer : q # p => at'[q] = at[q]
    BY <1>2, StageSet DEF Stages
  <1>4. Typed'
    BY <1>1, <1>3 DEF Inv, Typed
  <1>5. at[p][t] = "check"
    BY DEF Checks
  <1>6. ASSUME NEW g \in Game, life'[g] = "loop" PROVE Tells(g)'
    <2>1. g \in Peer /\ Tells(g)
      BY <1>1, <1>6, GameAssumption DEF Inv
    <2>2. CASE g = p
      <3>1. /\ at'[p]["main"] = "clear" => at[p]["main"] = "clear"
            /\ at[p]["main"] = "send" => at'[p]["main"] = "send"
        <4>1. CASE t = "main"
          BY <1>2, <1>3, <1>5, <4>1
        <4>2. CASE t = "net"
          BY <1>3, <4>2 DEF Thread
        <4> QED
          BY <4>1, <4>2 DEF Thread
      <3> QED
        BY <1>1, <2>1, <2>2, <3>1 DEF Tells
    <2>3. CASE g # p
      BY <1>1, <1>3, <2>1, <2>3, TellsKept
    <2> QED
      BY <2>2, <2>3
  <1> QED
    BY <1>1, <1>4, <1>6, MeetingKept, LinesKept DEF Inv

LEMMA NextTurnKeeps ==
    ASSUME Inv, NEW p \in Peer, NEW t \in Thread, NextTurn(p, t)
    PROVE  Inv'
  <1>1. UNCHANGED <<life, peers, met, wire, nicknames, playerNbr>>
    BY DEF NextTurn, network
  <1>2. CASE /\ at[p][t] = "turn" /\ inputted' = [inputted EXCEPT ![p] = FALSE]
             /\ untold' = [untold EXCEPT ![p] = {}] /\ Goes(p, t, "clear") /\ UNCHANGED plays
    <2>1. /\ at' \in [Peer -> [Thread -> Stages]]
          /\ \A q \in Peer : q # p => at'[q] = at[q]
      BY <1>2, StageSet DEF Stages
    <2>2. /\ inputted' \in [Peer -> BOOLEAN] /\ ~inputted'[p]
          /\ untold' \in [Peer -> SUBSET Peer] /\ untold'[p] = {}
          /\ \A q \in Peer : q # p => inputted'[q] = inputted[q] /\ untold'[q] = untold[q]
      BY <1>2 DEF Inv, Typed
    <2>3. Typed'
      BY <1>1, <1>2, <2>1, <2>2 DEF Inv, Typed
    <2>4. ASSUME NEW g \in Game, life'[g] = "loop" PROVE Tells(g)'
      <3>1. g \in Peer /\ Tells(g)
        BY <1>1, <2>4, GameAssumption DEF Inv
      <3>2. CASE g = p
        BY <2>2, <3>2 DEF Tells
      <3>3. CASE g # p
        BY <1>1, <2>1, <2>2, <3>1, <3>3, TellsKept
      <3> QED
        BY <3>2, <3>3
    <2> QED
      BY <1>1, <2>3, <2>4, MeetingKept, LinesKept DEF Inv
  <1>3. CASE /\ at[p][t] = "clear" /\ plays' = [plays EXCEPT ![p] = 0] /\ Goes(p, t, "idle")
             /\ UNCHANGED <<inputted, untold>>
    <2>1. /\ at' \in [Peer -> [Thread -> Stages]] /\ at'[p][t] = "idle"
          /\ \A u \in Thread : u # t => at'[p][u] = at[p][u]
          /\ \A q \in Peer : q # p => at'[q] = at[q]
      BY <1>3, StageSet DEF Stages
    <2>2. plays' \in [Peer -> Nat]
      BY <1>3 DEF Inv, Typed
    <2>3. Typed'
      BY <1>1, <1>3, <2>1, <2>2 DEF Inv, Typed
    <2>4. ASSUME NEW g \in Game, life'[g] = "loop" PROVE Tells(g)'
      <3>1. g \in Peer /\ Tells(g)
        BY <1>1, <2>4, GameAssumption DEF Inv
      <3>2. CASE g = p
        <4>1. at'[p]["main"] = at[p]["main"] \/ (at[p]["main"] = "clear" /\ at'[p]["main"] = "idle")
          BY <1>3, <2>1 DEF Thread
        <4> QED
          BY <1>1, <1>3, <3>1, <3>2, <4>1 DEF Tells
      <3>3. CASE g # p
        BY <1>1, <1>3, <2>1, <3>1, <3>3, TellsKept
      <3> QED
        BY <3>2, <3>3
    <2> QED
      BY <1>1, <2>3, <2>4, MeetingKept, LinesKept DEF Inv
  <1> QED
    BY <1>2, <1>3 DEF NextTurn

LEMMA ReturnsKeeps ==
    ASSUME Inv, NEW p \in Peer, Returns(p)
    PROVE  Inv'
  <1>1. /\ UNCHANGED <<life, peers, met, wire, nicknames, inputted, playerNbr, plays, untold>>
        /\ Goes(p, "net", "idle") /\ "net" \in Thread /\ "main" \in Thread /\ "idle" \in Stages
    BY DEF Returns, network, Thread, Stages
  <1>2. /\ at' \in [Peer -> [Thread -> Stages]] /\ at'[p]["main"] = at[p]["main"]
        /\ \A q \in Peer : q # p => at'[q] = at[q]
    BY <1>1, StageSet
  <1>3. Typed'
    BY <1>1, <1>2 DEF Inv, Typed
  <1>4. ASSUME NEW g \in Game, life'[g] = "loop" PROVE Tells(g)'
    BY <1>1, <1>2, <1>4, GameAssumption DEF Inv, Tells
  <1> QED
    BY <1>1, <1>3, <1>4, MeetingKept, LinesKept DEF Inv

------------------------------------------------------------------------------
(* Who meets. *)

LEMMA NamesFinite ==
    ASSUME Inv, NEW p \in Peer
    PROVE  /\ IsFiniteSet(nicknames[p] \intersect peers[p])
           /\ Cardinality(nicknames[p] \intersect peers[p]) \in Nat
  <1>1. nicknames[p] \intersect peers[p] \subseteq Peer
    BY DEF Inv, Typed
  <1> QED
    BY <1>1, GameAssumption, FS_Subset, FS_CardinalityType

LEMMA ConnectedKeeps ==
    ASSUME Inv, NEW p \in Peer, NEW q \in Peer, Connected(p, q)
    PROVE  Inv'
  <1>1. /\ life[p] = "loop" /\ life[q] = "loop" /\ met[p] = peers[p] /\ met[q] = peers[q]
        /\ q \notin peers[p] /\ q # p
        /\ UNCHANGED <<life, met, wire, nicknames, inputted, playerNbr, plays, untold, at>>
    BY DEF Connected, Waits, game
  <1>2. Line(p, q) /\ Line(q, p)
    BY DEF Inv
  <1>3. p \notin peers[q] /\ q \notin nicknames[p] /\ p \notin nicknames[q]
    BY <1>1, <1>2 DEF Line
  <1>4. /\ peers' \in [Peer -> SUBSET Peer]
        /\ peers'[p] = peers[p] \union {q} /\ peers'[q] = peers[q] \union {p}
        /\ \A r \in Peer : r \notin {p, q} => peers'[r] = peers[r]
    BY <1>1 DEF Connected, Inv, Typed
  <1>5. Typed'
    BY <1>1, <1>4 DEF Inv, Typed
  <1>6. ASSUME NEW r \in Peer PROVE Acquainted(r)'
    BY <1>1, <1>4 DEF Inv, Acquainted
  <1>7. ASSUME NEW x \in Peer, NEW y \in Peer PROVE Line(x, y)'
    <2>1. Line(x, y)
      BY DEF Inv
    <2>2. /\ peers[y] \subseteq peers'[y]
          /\ x \in peers'[y] => x \in peers[y] \/ (x = p /\ y = q) \/ (x = q /\ y = p)
      BY <1>4
    <2>3. (x \in peers'[y] /\ life[x] = "loop") => y \in peers'[x]
      <3>1. x \in peers[y] /\ life[x] = "loop" => y \in peers[x]
        BY <2>1 DEF Line
      <3>2. peers[x] \subseteq peers'[x]
        BY <1>4
      <3> QED
        BY <1>4, <2>2, <3>1, <3>2
    <2> QED
      BY <1>1, <2>1, <2>2, <2>3 DEF Line
  <1>8. ASSUME NEW r \in Peer
        PROVE  nicknames[r] \intersect peers'[r] = nicknames[r] \intersect peers[r]
    BY <1>3, <1>4
  <1>9. NamesCounted'
    <2>1. \A r \in Peer : peers[r] \subseteq peers'[r]
      BY <1>4
    <2> QED
      BY <1>1, <1>8, <2>1 DEF Inv, NamesCounted
  <1>10. ASSUME NEW g \in Game, life'[g] = "loop" PROVE Tells(g)'
    <2>1. g \in Peer /\ Tells(g)
      BY <1>1, <1>10, GameAssumption DEF Inv
    <2>2. nicknames[g] \intersect peers'[g] = nicknames[g] \intersect peers[g]
      BY <1>8, <2>1
    <2> QED
      BY <1>1, <2>1, <2>2 DEF Tells
  <1> QED
    BY <1>5, <1>6, <1>7, <1>9, <1>10 DEF Inv

LEMMA GreetsKeeps ==
    ASSUME Inv, NEW p \in Peer, Greets(p)
    PROVE  Inv'
  <1>1. PICK q \in peers[p] \ met[p] : met' = [met EXCEPT ![p] = @ \union {q}]
    BY DEF Greets
  <1>2. /\ life[p] = "loop" /\ wire' = SentTo(wire, p, peers[p] \ met[p], Name)
        /\ UNCHANGED <<life, peers, nicknames, inputted, playerNbr, plays, untold, at>>
    BY DEF Greets, game
  <1>3. Acquainted(p) /\ q \in Peer
    BY DEF Inv, Typed
  <1>4. peers[p] \ met[p] = {q}
    BY <1>3 DEF Acquainted
  <1>5. Sent(wire', wire, p, {q}, Name)
    <2>1. wire \in [Peer -> [Peer -> Seq(Int)]] /\ Name \in Class
      BY HashFacts DEF Inv, Typed
    <2>2. wire' = SentTo(wire, p, {q}, Name)
      BY <1>2, <1>4
    <2> QED
      BY <2>1, <2>2, SentToFacts, Zenon
  <1>6. /\ met' \in [Peer -> SUBSET Peer] /\ met'[p] = met[p] \union {q}
        /\ \A r \in Peer : r # p => met'[r] = met[r]
    BY <1>1, <1>3 DEF Inv, Typed
  <1>7. Typed'
    BY <1>2, <1>5, <1>6 DEF Inv, Typed, Sent
  <1>8. ASSUME NEW r \in Peer PROVE Acquainted(r)'
    <2>1. Acquainted(r)
      BY DEF Inv
    <2>2. met'[r] \subseteq peers[r] /\ met[r] \subseteq met'[r]
      BY <1>1, <1>6, <2>1 DEF Acquainted
    <2> QED
      BY <1>2, <2>1, <2>2 DEF Acquainted
  <1>9. ASSUME NEW x \in Peer, NEW y \in Peer PROVE Line(x, y)'
    <2>1. Line(x, y) /\ life[y] \in {"loop", "over"} /\ wire[x][y] \in Seq(Int)
      BY DEF Inv, Typed
    <2>2. wire'[x][y] = IF x = p /\ y \in {q} /\ life[y] = "loop" THEN Append(wire[x][y], NameHash) ELSE wire[x][y]
      BY <1>5 DEF Sent, NameHash
    <2>3. CASE x = p /\ y = q /\ life[y] = "loop"
      <3>1. Line(q, p)
        BY <1>3 DEF Inv
      <3>2. p \in peers[q]
        BY <1>1, <2>3, <3>1 DEF Line
      <3>3. /\ Closed(wire[x][y], FALSE) /\ Once(wire[x][y], NameHash)
            /\ x \notin nicknames[y] /\ ~Carries(wire[x][y], NameHash)
        BY <1>1, <1>2, <2>1, <2>3 DEF Line
      <3> DEFINE r == Append(wire[x][y], NameHash)
      <3>4. r # <<>> /\ Closed(r, FALSE) /\ Once(r, NameHash) /\ Carries(r, NameHash)
        BY <2>1, <3>3, HashFacts, SentFacts
      <3>5. wire'[x][y] = r
        BY <2>2, <2>3
      <3> HIDE DEF r
      <3>6. x \in peers[y] /\ y \in peers[x] /\ y \in met'[x] /\ life[x] = "loop"
        BY <1>1, <1>2, <1>6, <2>3, <3>2
      <3> QED
        BY <1>2, <3>3, <3>4, <3>5, <3>6 DEF Line
    <2>4. CASE ~(x = p /\ y = q /\ life[y] = "loop")
      <3>1. wire'[x][y] = wire[x][y]
        BY <2>2, <2>4
      <3>2. (y \in met'[x] /\ life[y] = "loop" => y \in met[x]) /\ (y \notin met'[x] => y \notin met[x])
        BY <1>6, <2>4
      <3> QED
        BY <1>2, <2>1, <3>1, <3>2 DEF Line
    <2> QED
      BY <2>3, <2>4
  <1>10. NamesCounted'
    BY <1>2 DEF Inv, NamesCounted
  <1>11. \A g \in Game : life'[g] = "loop" => Tells(g)'
    BY <1>2, TellsKept DEF Inv
  <1> QED
    BY <1>7, <1>8, <1>9, <1>10, <1>11 DEF Inv

------------------------------------------------------------------------------
(* What is heard. *)

LEMMA TakenLines ==
    ASSUME Inv, NEW p \in Peer, NEW q \in Peer, wire[q][p] # <<>>
    PROVE  /\ Taken(p, q) \in [Peer -> [Peer -> Seq(Int)]]
           /\ \A x, y \in Peer : Taken(p, q)[x][y] = IF x = q /\ y = p THEN Tail(wire[x][y]) ELSE wire[x][y]
  <1>1. wire \in [Peer -> [Peer -> Seq(Int)]]
    BY DEF Inv, Typed
  <1>2. Tail(wire[q][p]) \in Seq(Int)
    BY <1>1
  <1> DEFINE r == Tail(wire[q][p])
  <1>3. Taken(p, q) = [wire EXCEPT ![q] = [@ EXCEPT ![p] = r]]
    BY <1>1 DEF Taken
  <1> HIDE DEF r
  <1> DEFINE line == [wire[q] EXCEPT ![p] = r]
  <1>4. line \in [Peer -> Seq(Int)] /\ \A y \in Peer : line[y] = IF y = p THEN r ELSE wire[q][y]
    BY <1>1, <1>2 DEF r
  <1>5. Taken(p, q) = [wire EXCEPT ![q] = line]
    BY <1>3
  <1> HIDE DEF line
  <1>6. /\ [wire EXCEPT ![q] = line] \in [Peer -> [Peer -> Seq(Int)]]
        /\ \A x \in Peer : [wire EXCEPT ![q] = line][x] = IF x = q THEN line ELSE wire[x]
    BY <1>1, <1>4
  <1> QED
    BY <1>4, <1>5, <1>6 DEF r

\* What is on the line from q when p takes a message from it.
LEMMA ClearedLines ==
    ASSUME Inv, NEW p \in Peer, NEW q \in Peer, wire' = [wire EXCEPT ![q][p] = <<>>]
    PROVE  /\ wire' \in [Peer -> [Peer -> Seq(Int)]]
           /\ \A x, y \in Peer : wire'[x][y] = IF x = q /\ y = p THEN <<>> ELSE wire[x][y]
  <1>1. wire \in [Peer -> [Peer -> Seq(Int)]]
    BY DEF Inv, Typed
  <1> DEFINE line == [wire[q] EXCEPT ![p] = <<>>]
  <1>2. line \in [Peer -> Seq(Int)] /\ \A y \in Peer : line[y] = IF y = p THEN <<>> ELSE wire[q][y]
    BY <1>1, EmptyFacts
  <1>3. wire' = [wire EXCEPT ![q] = line]
    BY <1>1
  <1> HIDE DEF line
  <1>4. wire' \in [Peer -> [Peer -> Seq(Int)]] /\ \A x \in Peer : wire'[x] = IF x = q THEN line ELSE wire[x]
    BY <1>1, <1>2, <1>3
  <1> QED
    BY <1>2, <1>4

LEMMA HeadFacts ==
    ASSUME Inv, NEW p \in Peer, NEW q \in Peer, wire[q][p] # <<>>
    PROVE  LET r == Tail(wire[q][p])
           IN  /\ Closed(r, life[q] = "over") /\ Once(r, NameHash)
               /\ Carries(r, NameHash) => Carries(wire[q][p], NameHash)
               /\ Head(wire[q][p]) = NameHash => Carries(wire[q][p], NameHash) /\ ~Carries(r, NameHash)
               /\ Head(wire[q][p]) # NameHash => (Carries(wire[q][p], NameHash) => Carries(r, NameHash))
               /\ Head(wire[q][p]) = Eof => life[q] = "over" /\ r = <<>>
               /\ Head(wire[q][p]) # Eof => (life[q] = "over" => r # <<>>)
  <1>1. /\ wire[q][p] \in Seq(Int) /\ (life[q] = "over") \in BOOLEAN
        /\ Closed(wire[q][p], life[q] = "over") /\ Once(wire[q][p], NameHash)
    BY DEF Inv, Typed, Line
  <1> QED
    BY <1>1, TakenFacts

\* A message that is not a name and not the end keeps all lines.
LEMMA HeardKeepsLines ==
    ASSUME Inv, NEW p \in Peer, NEW q \in peers[p], wire[q][p] # <<>>,
           Head(wire[q][p]) \notin {Eof, NameHash}, wire' = Taken(p, q),
           UNCHANGED <<life, peers, met, nicknames>>
    PROVE  /\ wire' \in [Peer -> [Peer -> Seq(Int)]]
           /\ \A x, y \in Peer : Line(x, y)'
  <1>1. q \in Peer
    BY DEF Inv, Typed
  <1>2. /\ wire' \in [Peer -> [Peer -> Seq(Int)]]
        /\ \A x, y \in Peer : wire'[x][y] = IF x = q /\ y = p THEN Tail(wire[x][y]) ELSE wire[x][y]
    BY <1>1, TakenLines
  <1>3. ASSUME NEW x \in Peer, NEW y \in Peer PROVE Line(x, y)'
    <2>1. Line(x, y)
      BY DEF Inv
    <2>2. CASE x = q /\ y = p
      <3> DEFINE r == Tail(wire[q][p])
      <3>1. /\ Closed(r, life[q] = "over") /\ Once(r, NameHash)
            /\ Carries(r, NameHash) <=> Carries(wire[q][p], NameHash)
            /\ life[q] = "over" => r # <<>>
        BY <1>1, HeadFacts
      <3>2. wire'[x][y] = r
        BY <1>2, <2>2
      <3> HIDE DEF r
      <3> QED
        BY <2>1, <2>2, <3>1, <3>2 DEF Line
    <2>3. CASE ~(x = q /\ y = p)
      BY <1>2, <2>1, <2>3 DEF Line
    <2> QED
      BY <2>2, <2>3
  <1> QED
    BY <1>2, <1>3

LEMMA DisconnectedKeeps ==
    ASSUME Inv, NEW p \in Peer, NEW q \in peers[p], Waits(p), wire[q][p] # <<>>,
           Disconnected(p, q), UNCHANGED life
    PROVE  Inv'
  <1>1. /\ q \in Peer /\ Line(q, p) /\ Line(p, q) /\ Acquainted(p) /\ Acquainted(q)
        /\ life[q] \in {"loop", "over"}
    BY DEF Inv, Typed
  <1>2. /\ life[q] = "over" /\ wire' = [wire EXCEPT ![q][p] = <<>>]
        /\ peers' = [peers EXCEPT ![p] = @ \ {q}] /\ met' = [met EXCEPT ![p] = @ \ {q}]
        /\ UNCHANGED <<inputted, plays, untold, at>> /\ life[p] = "loop"
    BY DEF Disconnected, Waits
  <1>3. /\ wire' \in [Peer -> [Peer -> Seq(Int)]]
        /\ \A x, y \in Peer : wire'[x][y] = IF x = q /\ y = p THEN <<>> ELSE wire[x][y]
    BY <1>1, <1>2, ClearedLines
  <1>4. life[q] = "over" /\ q # p
    BY <1>2
  <1>5. /\ peers' \in [Peer -> SUBSET Peer] /\ met' \in [Peer -> SUBSET Peer]
        /\ peers'[p] = peers[p] \ {q} /\ met'[p] = met[p] \ {q}
        /\ \A r \in Peer : r # p => peers'[r] = peers[r] /\ met'[r] = met[r]
    BY <1>2 DEF Inv, Typed
  <1>6. /\ nicknames' \in [Peer -> SUBSET Peer]
        /\ nicknames'[p] = IF p \in Game THEN nicknames[p] ELSE nicknames[p] \ {q}
        /\ \A r \in Peer : r # p => nicknames'[r] = nicknames[r]
    BY DEF Disconnected, Inv, Typed
  <1>7. p \in Game /\ q \in nicknames[p] =>
          /\ playerNbr[p] = 1 + Cardinality(nicknames[p] \intersect peers[p])
          /\ Cardinality(nicknames'[p] \intersect peers'[p]) = Cardinality(nicknames[p] \intersect peers[p]) - 1
          /\ Cardinality(nicknames'[p] \intersect peers'[p]) \in Nat
    <2> SUFFICES ASSUME p \in Game, q \in nicknames[p]
                 PROVE  /\ playerNbr[p] = 1 + Cardinality(nicknames[p] \intersect peers[p])
                        /\ Cardinality(nicknames'[p] \intersect peers'[p])
                             = Cardinality(nicknames[p] \intersect peers[p]) - 1
                        /\ Cardinality(nicknames'[p] \intersect peers'[p]) \in Nat
      OBVIOUS
    <2> DEFINE S == nicknames[p] \intersect peers[p]
    <2>1. nicknames'[p] \intersect peers'[p] = S \ {q} /\ q \in S
      BY <1>5, <1>6
    <2>2. IsFiniteSet(S)
      BY NamesFinite
    <2>3. Cardinality(S \ {q}) = Cardinality(S) - 1 /\ IsFiniteSet(S \ {q})
      BY <2>1, <2>2, FS_RemoveElement
    <2>4. Cardinality(S \ {q}) \in Nat
      BY <2>3, FS_CardinalityType
    <2> QED
      BY <1>2, <2>1, <2>3, <2>4 DEF Inv, NamesCounted
  <1>8. p \in Game /\ q \notin nicknames[p] => nicknames'[p] \intersect peers'[p] = nicknames[p] \intersect peers[p]
    BY <1>5, <1>6
  <1>9. /\ playerNbr' \in [Peer -> Nat \ {0}]
        /\ playerNbr'[p] = IF p \in Game /\ q \in nicknames[p] THEN playerNbr[p] - 1 ELSE playerNbr[p]
        /\ \A r \in Peer : r # p => playerNbr'[r] = playerNbr[r]
    <2>1. /\ playerNbr' = [playerNbr EXCEPT ![p] = IF p \in Game /\ q \in nicknames[p] THEN @ - 1 ELSE @]
          /\ playerNbr \in [Peer -> Nat \ {0}]
      BY DEF Disconnected, Inv, Typed
    <2>2. p \in Game /\ q \in nicknames[p] => playerNbr[p] - 1 \in Nat \ {0}
      <3>1. \A a, b \in Nat : a = b - 1 => 1 + b - 1 \in Nat \ {0}
        OBVIOUS
      <3>2. Cardinality(nicknames[p] \intersect peers[p]) \in Nat
        BY NamesFinite
      <3> HIDE DEF Inv
      <3> QED
        BY <1>7, <3>1, <3>2
    <2> QED
      BY <2>1, <2>2
  <1>10. Typed'
    BY <1>2, <1>3, <1>5, <1>6, <1>9 DEF Inv, Typed
  <1>11. ASSUME NEW r \in Peer PROVE Acquainted(r)'
    <2>1. Acquainted(r)
      BY DEF Inv
    <2>2. CASE r = p
      BY <1>2, <1>4, <1>5, <1>6, <2>1, <2>2 DEF Acquainted
    <2>3. CASE r # p
      BY <1>5, <1>6, <2>1, <2>3 DEF Acquainted
    <2> QED
      BY <2>2, <2>3
  <1>12. ASSUME NEW x \in Peer, NEW y \in Peer PROVE Line(x, y)'
    <2>1. Line(x, y)
      BY DEF Inv
    <2>2. CASE x = q /\ y = p
      <3>1. wire'[x][y] = <<>>
        BY <1>3, <1>4, <2>2
      <3> QED
        BY <1>4, <1>5, <2>2, <3>1, EmptyFacts DEF Line
    <2>3. CASE x = p /\ y = q
      <3>1. wire'[x][y] = wire[x][y] /\ peers[q] = {} /\ nicknames'[q] = {} /\ nicknames[q] = {} /\ peers'[q] = {}
        BY <1>1, <1>3, <1>4, <1>5, <1>6, <2>3 DEF Acquainted
      <3>2. wire[x][y] = <<>>
        BY <2>1, <2>3, <3>1 DEF Line
      <3> QED
        BY <1>4, <2>3, <3>1, <3>2, EmptyFacts, <2>1 DEF Line
    <2>4. CASE x # q /\ y = p
      <3>1. wire'[x][y] = wire[x][y] /\ (x \in peers'[y] <=> x \in peers[y])
            /\ (x \in nicknames'[y] <=> x \in nicknames[y])
        BY <1>3, <1>5, <1>6, <2>4
      <3>2. y \in peers'[x] <=> y \in peers[x]
        BY <1>4, <1>5, <2>4
      <3>3. y \in met'[x] <=> y \in met[x]
        BY <1>4, <1>5, <2>4
      <3> QED
        BY <2>1, <3>1, <3>2, <3>3 DEF Line
    <2>5. CASE y # p /\ ~(x = p /\ y = q)
      <3>1. wire'[x][y] = wire[x][y] /\ peers'[y] = peers[y] /\ nicknames'[y] = nicknames[y]
        BY <1>3, <1>5, <1>6, <2>5
      <3>2. (y \in peers'[x] <=> y \in peers[x]) /\ (y \in met'[x] <=> y \in met[x])
        BY <1>5, <2>5
      <3> QED
        BY <2>1, <3>1, <3>2 DEF Line
    <2> QED
      BY <2>2, <2>3, <2>4, <2>5
  <1>13. NamesCounted'
    <2> SUFFICES ASSUME NEW r \in Peer, life'[r] = "loop"
                 PROVE  IF r \in Game THEN playerNbr'[r] = 1 + Cardinality(nicknames'[r] \intersect peers'[r])
                                      ELSE nicknames'[r] \subseteq peers'[r]
      BY DEF NamesCounted
    <2>1. IF r \in Game THEN playerNbr[r] = 1 + Cardinality(nicknames[r] \intersect peers[r])
                        ELSE nicknames[r] \subseteq peers[r]
      BY DEF Inv, NamesCounted
    <2>2. CASE r # p
      BY <1>5, <1>6, <1>9, <2>1, <2>2
    <2>3. CASE r = p /\ p \notin Game
      BY <1>5, <1>6, <2>1, <2>3
    <2>4. CASE r = p /\ p \in Game /\ q \notin nicknames[p]
      BY <1>8, <1>9, <2>1, <2>4
    <2>5. CASE r = p /\ p \in Game /\ q \in nicknames[p]
      <3>1. \A a, b, n \in Nat : n = 1 + b /\ a = b - 1 => n - 1 = 1 + a
        OBVIOUS
      <3>2. /\ Cardinality(nicknames[p] \intersect peers[p]) \in Nat /\ playerNbr[p] \in Nat
            /\ playerNbr'[p] = playerNbr[p] - 1
        BY <1>9, <2>5, NamesFinite DEF Inv, Typed
      <3> QED
        BY <1>7, <2>5, <3>1, <3>2
    <2> QED
      BY <2>2, <2>3, <2>4, <2>5
  <1>14. ASSUME NEW g \in Game, life'[g] = "loop" PROVE Tells(g)'
    <2>1. g \in Peer /\ Tells(g)
      BY <1>14, GameAssumption DEF Inv
    <2>2. nicknames'[g] = nicknames[g] /\ peers'[g] \subseteq peers[g]
      BY <1>5, <1>6, <2>1
    <2> QED
      BY <1>2, <2>1, <2>2, TellsKept
  <1> QED
    BY <1>10, <1>11, <1>12, <1>13, <1>14 DEF Inv

LEMMA NameReceivedKeeps ==
    ASSUME Inv, NEW p \in Peer, NEW q \in peers[p], Waits(p), wire[q][p] # <<>>,
           NameReceived(p, q), UNCHANGED life
    PROVE  Inv'
  <1>1. /\ q \in Peer /\ Line(q, p) /\ Line(p, q) /\ Acquainted(p)
        /\ wire[p][q] \in Seq(Int) /\ wire \in [Peer -> [Peer -> Seq(Int)]]
    BY DEF Inv, Typed
  <1>2. /\ Head(wire[q][p]) = NameHash /\ life[p] = "loop"
        /\ UNCHANGED <<inputted, plays, at, peers, met>>
    BY DEF NameReceived, Notes, Heard, Waits, NameHash
  <1>0. PICK played \in Finds(p, "net", inputted[p]) :
        /\ wire' = IF played THEN SentTo(Taken(p, q), p, {q}, Rpc) ELSE Taken(p, q)
        /\ untold' = IF inputted[p] /\ ~played THEN [untold EXCEPT ![p] = @ \union {q}] ELSE untold
    BY DEF NameReceived
  <1>3. q # p
    BY <1>1 DEF Acquainted
  <1>4. /\ Taken(p, q) \in [Peer -> [Peer -> Seq(Int)]]
        /\ \A x, y \in Peer : Taken(p, q)[x][y] = IF x = q /\ y = p THEN Tail(wire[x][y]) ELSE wire[x][y]
    BY <1>1, TakenLines
  <1>5. Rpc \in Class /\ HashOf[Rpc] \in Int /\ HashOf[Rpc] # Eof /\ HashOf[Rpc] # NameHash
    BY HashFacts
  <1>6. played => Sent(wire', Taken(p, q), p, {q}, Rpc)
    <2> DEFINE w == Taken(p, q)
    <2>1. w \in [Peer -> [Peer -> Seq(Int)]] /\ (played => wire' = SentTo(w, p, {q}, Rpc))
      BY <1>0, <1>4
    <2> HIDE DEF w
    <2>2. Sent(SentTo(w, p, {q}, Rpc), w, p, {q}, Rpc)
      BY <1>5, <2>1, SentToFacts, Zenon
    <2> QED
      BY <2>1, <2>2 DEF w
  <1>7. /\ wire' \in [Peer -> [Peer -> Seq(Int)]]
        /\ wire'[q][p] = Tail(wire[q][p])
        /\ wire'[p][q] = wire[p][q] \/ (life[q] = "loop" /\ wire'[p][q] = Append(wire[p][q], HashOf[Rpc]))
        /\ \A x, y \in Peer : (x # q \/ y # p) /\ (x # p \/ y # q) => wire'[x][y] = wire[x][y]
    <2>1. CASE played
      <3> DEFINE w == Taken(p, q)
      <3>1. /\ wire' \in [Peer -> [Peer -> Seq(Int)]]
            /\ \A x, y \in Peer :
                 wire'[x][y] = IF x = p /\ y \in {q} /\ life[y] = "loop" THEN Append(w[x][y], HashOf[Rpc]) ELSE w[x][y]
        BY <1>6, <2>1 DEF Sent
      <3>2. \A x, y \in Peer : w[x][y] = IF x = q /\ y = p THEN Tail(wire[x][y]) ELSE wire[x][y]
        BY <1>4
      <3> HIDE DEF w
      <3>3. w[q][p] = Tail(wire[q][p]) /\ w[p][q] = wire[p][q]
        BY <1>1, <1>3, <3>2
      <3>4. wire'[q][p] = w[q][p] /\ (wire'[p][q] = w[p][q] \/ (life[q] = "loop" /\ wire'[p][q] = Append(w[p][q], HashOf[Rpc])))
        BY <1>1, <1>3, <3>1
      <3>5. ASSUME NEW x \in Peer, NEW y \in Peer, x # q \/ y # p, x # p \/ y # q
            PROVE  wire'[x][y] = wire[x][y]
        BY <3>1, <3>2, <3>5
      <3> QED
        BY <3>1, <3>3, <3>4, <3>5
    <2>2. CASE ~played
      BY <1>0, <1>1, <1>3, <1>4, <2>2
    <2> QED
      BY <2>1, <2>2
  <1>8. q \notin nicknames[p] /\ ~Carries(Tail(wire[q][p]), NameHash)
    BY <1>1, <1>2, HeadFacts DEF Line
  <1>9. /\ nicknames' \in [Peer -> SUBSET Peer]
        /\ nicknames'[p] = nicknames[p] \union {q}
        /\ \A r \in Peer : r # p => nicknames'[r] = nicknames[r]
    BY <1>1 DEF NameReceived, Notes, Inv, Typed
  <1>10. /\ playerNbr' \in [Peer -> Nat \ {0}]
         /\ playerNbr'[p] = IF p \in Game THEN playerNbr[p] + 1 ELSE playerNbr[p]
         /\ \A r \in Peer : r # p => playerNbr'[r] = playerNbr[r]
    BY DEF NameReceived, Notes, Inv, Typed
  <1>11. Typed'
    <2>1. untold' \in [Peer -> SUBSET Peer]
      BY <1>0, <1>1 DEF Inv, Typed
    <2> QED
      BY <1>2, <1>7, <1>9, <1>10, <2>1 DEF Inv, Typed
  <1>12. ASSUME NEW r \in Peer PROVE Acquainted(r)'
    <2>1. Acquainted(r)
      BY DEF Inv
    <2> QED
      BY <1>2, <1>9, <2>1 DEF Acquainted
  <1>13. ASSUME NEW x \in Peer, NEW y \in Peer PROVE Line(x, y)'
    <2>1. Line(x, y) /\ life[x] \in {"loop", "over"}
      BY DEF Inv, Typed
    <2>2. CASE x = q /\ y = p
      <3> DEFINE r == Tail(wire[q][p])
      <3>1. /\ Closed(r, life[q] = "over") /\ Once(r, NameHash)
            /\ Carries(wire[q][p], NameHash) /\ ~Carries(r, NameHash)
            /\ life[q] = "over" => r # <<>>
        <4>1. Head(wire[q][p]) # Eof
          BY <1>2, HashFacts
        <4> QED
          BY <1>1, <1>2, <4>1, HeadFacts
      <3>2. wire'[x][y] = r
        BY <1>7, <2>2
      <3> HIDE DEF r
      <3>3. life[x] = "loop" => y \in met[x]
        BY <2>1, <2>2, <3>1 DEF Line
      <3> QED
        BY <1>2, <1>9, <2>1, <2>2, <3>1, <3>2, <3>3 DEF Line
    <2>3. CASE x = p /\ y = q
      <3>1. nicknames'[y] = nicknames[y]
        BY <1>3, <1>9, <2>3
      <3>2. CASE wire'[x][y] = wire[x][y]
        BY <1>2, <2>1, <3>1, <3>2 DEF Line
      <3>3. CASE life[y] = "loop" /\ wire'[x][y] = Append(wire[x][y], HashOf[Rpc])
        <4>1. x \in peers[y] /\ life[x] = "loop"
          BY <1>1, <1>2, <2>3, <3>3 DEF Line
        <4>2. Closed(wire[x][y], FALSE) /\ Once(wire[x][y], NameHash)
          BY <2>1, <4>1 DEF Line
        <4> DEFINE r == Append(wire[x][y], HashOf[Rpc])
        <4>3. /\ r # <<>> /\ Closed(r, FALSE) /\ Once(r, NameHash)
              /\ Carries(r, NameHash) <=> Carries(wire[x][y], NameHash)
          BY <1>1, <1>5, <2>3, <4>2, SentFacts
        <4>4. wire'[x][y] = r
          BY <3>3
        <4> HIDE DEF r
        <4> QED
          BY <1>2, <2>1, <3>1, <4>1, <4>3, <4>4 DEF Line
      <3> QED
        BY <1>7, <2>3, <3>2, <3>3
    <2>4. CASE ~(x = q /\ y = p) /\ ~(x = p /\ y = q)
      <3>1. wire'[x][y] = wire[x][y]
        BY <1>7, <2>4
      <3>2. x \in nicknames'[y] <=> x \in nicknames[y]
        BY <1>9, <2>4
      <3> QED
        BY <1>2, <2>1, <3>1, <3>2 DEF Line
    <2> QED
      BY <2>2, <2>3, <2>4
  <1>14. NamesCounted'
    <2> SUFFICES ASSUME NEW r \in Peer, life'[r] = "loop"
                 PROVE  IF r \in Game THEN playerNbr'[r] = 1 + Cardinality(nicknames'[r] \intersect peers'[r])
                                      ELSE nicknames'[r] \subseteq peers'[r]
      BY DEF NamesCounted
    <2>1. IF r \in Game THEN playerNbr[r] = 1 + Cardinality(nicknames[r] \intersect peers[r])
                        ELSE nicknames[r] \subseteq peers[r]
      BY DEF Inv, NamesCounted
    <2>2. CASE r # p
      BY <1>2, <1>9, <1>10, <2>1, <2>2
    <2>3. CASE r = p /\ p \notin Game
      BY <1>2, <1>9, <1>10, <2>1, <2>3
    <2>4. CASE r = p /\ p \in Game
      <3> DEFINE S == nicknames[p] \intersect peers[p]
      <3>1. nicknames'[p] \intersect peers'[p] = S \union {q} /\ q \notin S
        BY <1>2, <1>8, <1>9
      <3>2. IsFiniteSet(S) /\ Cardinality(S) \in Nat
        BY NamesFinite
      <3> HIDE DEF S
      <3>3. Cardinality(S \union {q}) = Cardinality(S) + 1
        BY <3>1, <3>2, FS_AddElement
      <3>4. playerNbr'[p] = playerNbr[p] + 1 /\ playerNbr[p] = 1 + Cardinality(S)
        BY <1>10, <2>1, <2>4 DEF S
      <3>5. \A a, b, n \in Nat : n = 1 + a /\ b = a + 1 => n + 1 = 1 + b
        OBVIOUS
      <3>6. Cardinality(S \union {q}) \in Nat /\ playerNbr[p] \in Nat
        <4>1. playerNbr[p] \in Nat
          BY DEF Inv, Typed
        <4>2. \A n \in Nat : n + 1 \in Nat
          OBVIOUS
        <4> QED
          BY ONLY <3>2, <3>3, <4>1, <4>2
      <3>7. playerNbr[p] + 1 = 1 + Cardinality(S \union {q})
        BY ONLY <3>2, <3>3, <3>4, <3>5, <3>6
      <3>8. playerNbr'[p] = 1 + Cardinality(nicknames'[p] \intersect peers'[p])
        BY <3>1, <3>4, <3>7
      <3> QED
        BY <2>4, <3>8
    <2> QED
      BY <2>2, <2>3, <2>4
  <1>15. ASSUME NEW g \in Game, life'[g] = "loop" PROVE Tells(g)'
    <2>1. g \in Peer /\ Tells(g) /\ nicknames[g] \subseteq nicknames'[g]
      BY <1>9, <1>15, GameAssumption DEF Inv, Typed
    <2>2. CASE untold'[g] = untold[g]
      BY <1>2, <2>1, <2>2, TellsKept
    <2>3. CASE untold'[g] # untold[g]
      <3>1. g = p /\ inputted[p] /\ ~played /\ untold'[p] = untold[p] \union {q}
        <4>1. untold \in [Peer -> SUBSET Peer]
          BY DEF Inv, Typed
        <4>2. inputted[p] /\ ~played /\ untold' = [untold EXCEPT ![p] = @ \union {q}]
          BY <1>0, <2>3
        <4> QED
          BY <2>1, <2>3, <4>1, <4>2
      <3>2. \E u \in Thread \ {"net"} : at[p][u] \in Written[u]
        BY <1>0, <3>1 DEF Finds
      <3>3. at[p]["main"] \in {"send", "clear"}
        BY <3>2 DEF Written, Thread
      <3>4. at[p]["main"] = "send"
        BY <2>1, <3>1, <3>3 DEF Tells
      <3> QED
        BY <1>2, <1>9, <2>1, <3>1, <3>4 DEF Tells
    <2> QED
      BY <2>2, <2>3
  <1> QED
    BY <1>11, <1>12, <1>13, <1>14, <1>15 DEF Inv

LEMMA RpcReceivedKeeps ==
    ASSUME Inv, NEW p \in Peer, NEW q \in peers[p], Waits(p), wire[q][p] # <<>>,
           RpcReceived(p, q), UNCHANGED life
    PROVE  Inv'
  <1>1. /\ Head(wire[q][p]) = HashOf[Rpc] /\ wire' = Taken(p, q)
        /\ UNCHANGED <<inputted, playerNbr, untold, nicknames, peers, met>>
        /\ plays' = [plays EXCEPT ![p] = @ + 1]
        /\ Goes(p, "net", "check") /\ "net" \in Thread /\ "check" \in Stages
    BY DEF RpcReceived, Heard, Thread, Stages
  <1>2. Head(wire[q][p]) \notin {Eof, NameHash}
    BY <1>1, HashFacts
  <1>3. wire' \in [Peer -> [Peer -> Seq(Int)]] /\ \A x, y \in Peer : Line(x, y)'
    BY <1>1, <1>2, HeardKeepsLines
  <1>4. /\ at' \in [Peer -> [Thread -> Stages]] /\ at'[p]["net"] = "check"
        /\ \A u \in Thread : u # "net" => at'[p][u] = at[p][u]
        /\ \A r \in Peer : r # p => at'[r] = at[r]
    BY <1>1, StageSet
  <1>5. plays' \in [Peer -> Nat] /\ \A r \in Peer : r # p => plays'[r] = plays[r]
    BY <1>1 DEF Inv, Typed
  <1>6. Typed'
    BY <1>1, <1>3, <1>4, <1>5 DEF Inv, Typed
  <1>7. ASSUME NEW g \in Game, life'[g] = "loop" PROVE Tells(g)'
    <2>1. g \in Peer /\ Tells(g)
      BY <1>7, GameAssumption DEF Inv
    <2>2. CASE g = p
      BY <1>1, <1>4, <2>1, <2>2 DEF Tells, Thread
    <2>3. CASE g # p
      BY <1>1, <1>4, <1>5, <2>1, <2>3, TellsKept
    <2> QED
      BY <2>2, <2>3
  <1> QED
    BY <1>1, <1>3, <1>6, <1>7, MeetingKept DEF Inv

LEMMA TextReceivedKeeps ==
    ASSUME Inv, NEW p \in Peer, NEW q \in peers[p], Waits(p), wire[q][p] # <<>>,
           TextReceived(p, q), UNCHANGED life
    PROVE  Inv'
  <1>1. /\ wire' = Taken(p, q)
        /\ UNCHANGED <<inputted, plays, playerNbr, untold, at, nicknames, peers, met>>
        /\ Head(wire[q][p]) # Eof /\ Name \notin Heard(p, q)
    BY DEF TextReceived
  <1>2. Head(wire[q][p]) # NameHash
    <2>1. Name \in Listened(p)
      BY DEF Listened, GameListens, ChatListens
    <2> QED
      BY <1>1, <2>1 DEF Heard, NameHash
  <1>3. wire' \in [Peer -> [Peer -> Seq(Int)]] /\ \A x, y \in Peer : Line(x, y)'
    BY <1>1, <1>2, HeardKeepsLines
  <1>4. Typed'
    BY <1>1, <1>3 DEF Inv, Typed
  <1>5. \A g \in Game : life'[g] = "loop" => Tells(g)'
    BY <1>1, TellsKept DEF Inv
  <1> QED
    BY <1>1, <1>3, <1>4, <1>5, MeetingKept DEF Inv

LEMMA ReceiveKeeps ==
    ASSUME Inv, NEW p \in Peer, Receive(p)
    PROVE  Inv'
  <1>1. Waits(p) /\ UNCHANGED life
    BY DEF Receive
  <1>2. PICK q \in peers[p] :
          /\ wire[q][p] # <<>>
          /\ Disconnected(p, q) \/ NameReceived(p, q) \/ RpcReceived(p, q) \/ TextReceived(p, q)
    BY DEF Receive
  <1> QED
    BY <1>1, <1>2, DisconnectedKeeps, NameReceivedKeeps, RpcReceivedKeeps, TextReceivedKeeps

------------------------------------------------------------------------------
(* The end of a program. *)

LEMMA EndsKeeps ==
    ASSUME Inv, NEW p \in Peer, Ends(p)
    PROVE  Inv'
  <1> DEFINE Told == {q \in Peer : p \in peers[q]}
  <1>1. wire' = [x \in Peer |-> [y \in Peer |->
                   IF x = p /\ p \in peers[y] THEN Append(wire[p][y], Eof)
                   ELSE IF y = p THEN <<>> ELSE wire[x][y]]]
    BY DEF Ends
  <1>2. /\ life[p] = "loop" /\ life' = [life EXCEPT ![p] = "over"]
        /\ peers' = [peers EXCEPT ![p] = {}] /\ met' = [met EXCEPT ![p] = {}]
        /\ nicknames' = [nicknames EXCEPT ![p] = {}]
        /\ inputted' = [inputted EXCEPT ![p] = FALSE]
        /\ playerNbr' = [playerNbr EXCEPT ![p] = 1] /\ plays' = [plays EXCEPT ![p] = 0]
        /\ untold' = [untold EXCEPT ![p] = {}]
        /\ at' = [at EXCEPT ![p] = [t \in Thread |-> "idle"]]
    BY DEF Ends
  <1>3. /\ life' \in [Peer -> {"loop", "over"}] /\ peers' \in [Peer -> SUBSET Peer]
        /\ met' \in [Peer -> SUBSET Peer] /\ nicknames' \in [Peer -> SUBSET Peer]
        /\ life'[p] = "over" /\ peers'[p] = {} /\ met'[p] = {} /\ nicknames'[p] = {}
        /\ \A r \in Peer : r # p => /\ life'[r] = life[r] /\ peers'[r] = peers[r]
                                    /\ met'[r] = met[r] /\ nicknames'[r] = nicknames[r]
    BY <1>2 DEF Inv, Typed
  <1>4. /\ inputted' \in [Peer -> BOOLEAN] /\ playerNbr' \in [Peer -> Nat \ {0}] /\ plays' \in [Peer -> Nat]
        /\ untold' \in [Peer -> SUBSET Peer] /\ at' \in [Peer -> [Thread -> Stages]]
        /\ \A r \in Peer : r # p => /\ inputted'[r] = inputted[r] /\ playerNbr'[r] = playerNbr[r]
                                    /\ plays'[r] = plays[r] /\ untold'[r] = untold[r] /\ at'[r] = at[r]
    BY <1>2 DEF Inv, Typed, Stages
  <1>5. p \notin peers[p] /\ wire \in [Peer -> [Peer -> Seq(Int)]]
    BY DEF Inv, Typed, Acquainted
  <1>6. ASSUME NEW y \in Told
        PROVE  LET r == Append(wire[p][y], Eof)
               IN  /\ r \in Seq(Int) /\ r # <<>> /\ Closed(r, TRUE) /\ Once(r, NameHash)
                   /\ Carries(r, NameHash) => Carries(wire[p][y], NameHash)
    <2>1. wire[p][y] \in Seq(Int) /\ Line(p, y)
      BY DEF Inv, Typed
    <2>2. Closed(wire[p][y], FALSE) /\ Once(wire[p][y], NameHash)
      BY <1>2, <2>1 DEF Line
    <2> QED
      BY <2>1, <2>2, EndedFacts
  <1>7. \A x, y \in Peer :
          wire'[x][y] = IF x = p /\ y \in Told THEN Append(wire[p][y], Eof)
                        ELSE IF y = p THEN <<>> ELSE wire[x][y]
    BY <1>1, Zenon
  <1>8. Typed'
    <2> DEFINE ended == [x \in Peer |-> [y \in Peer |->
                          IF x = p /\ p \in peers[y] THEN Append(wire[p][y], Eof)
                          ELSE IF y = p THEN <<>> ELSE wire[x][y]]]
    <2>1. ASSUME NEW x \in Peer, NEW y \in Peer PROVE wire'[x][y] \in Seq(Int)
      <3>1. wire[x][y] \in Seq(Int) /\ <<>> \in Seq(Int)
        BY <1>5
      <3>2. CASE x = p /\ y \in Told
        BY <1>6, <1>7, <3>2, Zenon
      <3>3. CASE ~(x = p /\ y \in Told)
        BY <1>7, <3>1, <3>3, Zenon
      <3> QED
        BY <3>2, <3>3
    <2>2. wire' = [x \in Peer |-> [y \in Peer |-> wire'[x][y]]]
      <3>1. wire' = ended
        BY <1>1
      <3> QED
        BY <3>1, Zenon
    <2>3. wire' \in [Peer -> [Peer -> Seq(Int)]]
      <3> DEFINE lines == [x \in Peer |-> [y \in Peer |-> wire'[x][y]]]
      <3>1. lines \in [Peer -> [Peer -> Seq(Int)]]
        BY <2>1, Zenon
      <3> QED
        BY <2>2, <3>1, Zenon
    <2> QED
      BY <1>3, <1>4, <2>3 DEF Typed
  <1>9. ASSUME NEW r \in Peer PROVE Acquainted(r)'
    <2>1. Acquainted(r)
      BY DEF Inv
    <2>2. CASE r = p
      BY <1>3, <2>2 DEF Acquainted
    <2>3. CASE r # p
      BY <1>3, <2>1, <2>3 DEF Acquainted
    <2> QED
      BY <2>2, <2>3
  <1>10. ASSUME NEW x \in Peer, NEW y \in Peer PROVE Line(x, y)'
    <2>1. Line(x, y)
      BY DEF Inv
    <2>2. CASE y = p
      <3>1. wire'[x][y] = <<>>
        BY <1>5, <1>7, <2>2, Zenon
      <3>2. (life'[x] = "over") \in BOOLEAN
        OBVIOUS
      <3> QED
        BY <1>3, <2>2, <3>1, <3>2, EmptyFacts DEF Line
    <2>3. CASE x = p /\ y # p /\ y \in Told
      <3> DEFINE r == Append(wire[p][y], Eof)
      <3>1. /\ r # <<>> /\ Closed(r, TRUE) /\ Once(r, NameHash)
            /\ Carries(r, NameHash) => Carries(wire[p][y], NameHash)
        BY <1>6, <2>3
      <3>2. wire'[x][y] = r
        BY <1>7, <2>3, Zenon
      <3> HIDE DEF r
      <3>3. x \in peers'[y] /\ life'[x] = "over" /\ nicknames'[y] = nicknames[y]
        BY <1>3, <2>3
      <3>4. p \in nicknames[y] => ~Carries(wire[p][y], NameHash)
        BY <2>1, <2>3 DEF Line
      <3> QED
        BY <2>3, <3>1, <3>2, <3>3, <3>4 DEF Line
    <2>4. CASE x = p /\ y # p /\ y \notin Told
      <3>1. wire'[x][y] = wire[x][y] /\ x \notin peers'[y] /\ life'[x] = "over"
        BY <1>3, <1>7, <2>4
      <3>2. wire[x][y] = <<>>
        BY <2>1, <2>4 DEF Line
      <3> QED
        BY <3>1, <3>2, EmptyFacts DEF Line
    <2>5. CASE x # p /\ y # p
      <3>1. wire'[x][y] = wire[x][y]
        BY <1>7, <2>5, Zenon
      <3> QED
        BY <1>3, <2>1, <2>5, <3>1 DEF Line
    <2> QED
      BY <2>2, <2>3, <2>4, <2>5
  <1>11. NamesCounted'
    <2> SUFFICES ASSUME NEW r \in Peer, life'[r] = "loop"
                 PROVE  IF r \in Game THEN playerNbr'[r] = 1 + Cardinality(nicknames'[r] \intersect peers'[r])
                                      ELSE nicknames'[r] \subseteq peers'[r]
      BY DEF NamesCounted
    <2>1. r # p
      BY <1>3
    <2>2. life[r] = "loop"
      BY <1>3, <2>1
    <2>3. IF r \in Game THEN playerNbr[r] = 1 + Cardinality(nicknames[r] \intersect peers[r])
                        ELSE nicknames[r] \subseteq peers[r]
      BY <2>2 DEF Inv, NamesCounted
    <2> QED
      BY <1>3, <1>4, <2>1, <2>3
  <1>12. ASSUME NEW g \in Game, life'[g] = "loop" PROVE Tells(g)'
    <2>1. g \in Peer /\ g # p
      BY <1>3, <1>12, GameAssumption
    <2>2. life[g] = "loop"
      BY <1>3, <1>12, <2>1
    <2>3. Tells(g)
      BY <2>2 DEF Inv
    <2> QED
      BY <1>3, <1>4, <2>1, <2>3 DEF Tells
  <1> QED
    BY <1>8, <1>9, <1>10, <1>11, <1>12 DEF Inv

------------------------------------------------------------------------------
(* The invariant. *)

LEMMA InitInv ==
    ASSUME Init
    PROVE  Inv
  <1>1. /\ life = [p \in Peer |-> "loop"] /\ peers = [p \in Peer |-> {}] /\ met = [p \in Peer |-> {}]
        /\ nicknames = [p \in Peer |-> {}] /\ wire = [p \in Peer |-> [q \in Peer |-> <<>>]]
        /\ inputted = [p \in Peer |-> FALSE] /\ playerNbr = [p \in Peer |-> 1] /\ plays = [p \in Peer |-> 0]
        /\ untold = [p \in Peer |-> {}] /\ at = [p \in Peer |-> [t \in Thread |-> "idle"]]
    BY DEF Init, GameInit
  <1>2. Typed
    BY <1>1 DEF Typed, Stages
  <1>3. \A p \in Peer : Acquainted(p)
    BY <1>1 DEF Acquainted
  <1>4. ASSUME NEW p \in Peer, NEW q \in Peer PROVE Line(p, q)
    <2>1. wire[p][q] = <<>> /\ peers[q] = {} /\ nicknames[q] = {} /\ met[p] = {} /\ life[p] = "loop"
      BY <1>1
    <2>2. Once(<<>>, NameHash) /\ ~Carries(<<>>, NameHash) /\ Closed(<<>>, life[p] = "over")
      BY EmptyFacts
    <2> QED
      BY <2>1, <2>2 DEF Line
  <1>5. ASSUME NEW p \in Peer PROVE playerNbr[p] = 1 + Cardinality(nicknames[p] \intersect peers[p])
    <2>1. nicknames[p] \intersect peers[p] = {} /\ playerNbr[p] = 1
      BY <1>1
    <2>2. Cardinality({}) = 0
      BY FS_EmptySet
    <2> QED
      BY <2>1, <2>2
  <1>6. NamesCounted
    BY <1>1, <1>5 DEF NamesCounted
  <1>7. \A p \in Game : Tells(p)
    BY <1>1, GameAssumption DEF Tells
  <1> QED
    BY <1>2, <1>3, <1>4, <1>6, <1>7 DEF Inv

LEMMA NextInv ==
    ASSUME Inv, [Next]_vars
    PROVE  Inv'
  <1>1. CASE Next
    <2>1. PICK p \in Peer :
            \/ \E q \in Peer : Connected(p, q)
            \/ Greets(p) \/ Receive(p)
            \/ Says(p) \/ Input(p) \/ Plays(p)
            \/ \E t \in Thread : Checks(p, t) \/ NextTurn(p, t)
            \/ Returns(p) \/ Ends(p)
      BY <1>1 DEF Next
    <2>2. CASE \E q \in Peer : Connected(p, q)
      BY <2>2, ConnectedKeeps
    <2>3. CASE Greets(p) \/ Receive(p)
      BY <2>3, GreetsKeeps, ReceiveKeeps
    <2>4. CASE Says(p) \/ Input(p) \/ Plays(p)
      BY <2>4, SaysKeeps, InputKeeps, PlaysKeeps
    <2>5. CASE \E t \in Thread : Checks(p, t) \/ NextTurn(p, t)
      BY <2>5, ChecksKeeps, NextTurnKeeps
    <2>6. CASE Returns(p) \/ Ends(p)
      BY <2>6, ReturnsKeeps, EndsKeeps
    <2> QED
      BY <2>1, <2>2, <2>3, <2>4, <2>5, <2>6
  <1>2. CASE UNCHANGED vars
    <2>1. /\ UNCHANGED <<life, peers, met, wire, nicknames>>
          /\ UNCHANGED <<inputted, playerNbr, plays, untold, at>>
      BY <1>2 DEF vars, network, game
    <2>2. \A p \in Game : life'[p] = "loop" => Tells(p)'
      BY <2>1, TellsKept DEF Inv
    <2>3. Typed'
      BY <2>1 DEF Inv, Typed
    <2> QED
      BY <2>1, <2>2, <2>3, MeetingKept, LinesKept DEF Inv
  <1> QED
    BY <1>1, <1>2

------------------------------------------------------------------------------
(***************************************************************************)
(* The counters.  A line that is typed brings a game two plays of the same *)
(* peer at most: the one that is sent, and the one told to who comes late. *)
(***************************************************************************)
Rpcs(w) == {i \in 1..Len(w) : w[i] = HashOf[Rpc]}

\* Whoever may find that it has played: it has, or has not been through the turn.
Playing(p) == inputted[p] \/ at[p]["main"] # "idle"

\* The plays p may still hear of: those on their way, those about to be sent, and
\* those it is told of when its name is heard.
Owed(p) == {x \in Peer \X {"wire", "send", "late"} \X Nat :
    \/ x[2] = "wire" /\ x[3] \in Rpcs(wire[x[1]][p])
    \/ x[2] = "send" /\ x[3] = 0 /\ at[x[1]]["main"] = "send"
    \/ x[2] = "late" /\ x[3] = 0 /\ Playing(x[1]) /\ p \notin nicknames[x[1]]}

Owes(p) == IsFiniteSet(Owed(p)) /\ plays[p] + Cardinality(Owed(p)) <= 2 * typed

\* A chat does not play, nor does who is over.
Rests(p) == p \notin Game \/ life[p] = "over" => playerNbr[p] = 1 /\ ~Playing(p)

Bounded == typed \in 0..MaxTyped /\ \A p \in Peer : Rests(p) /\ Owes(p)

\* The plays on a line that gets one command more or less, or is ended.
LEMMA RpcsFacts ==
    ASSUME NEW w \in Seq(Int)
    PROVE  /\ Rpcs(w) \subseteq Nat /\ Rpcs(<<>>) = {}
           /\ \A h \in Int : Rpcs(Append(w, h)) \subseteq Rpcs(w) \union (IF h = HashOf[Rpc] THEN {Len(w) + 1} ELSE {})
           /\ w # <<>> => /\ \A i \in Rpcs(Tail(w)) : i \in Nat \ {0} /\ i + 1 \in Rpcs(w)
                          /\ Head(w) = HashOf[Rpc] => 1 \in Rpcs(w)
           /\ Rpcs(Append(w, Eof)) \subseteq Rpcs(w)
  <1> DEFINE n == Len(w)
  <1>1. n \in Nat
    OBVIOUS
  <1>2. Rpcs(w) \subseteq Nat /\ Rpcs(<<>>) = {}
    BY <1>1 DEF Rpcs
  <1>3. ASSUME NEW h \in Int
        PROVE  Rpcs(Append(w, h)) \subseteq Rpcs(w) \union (IF h = HashOf[Rpc] THEN {n + 1} ELSE {})
    <2> DEFINE r == Append(w, h)
    <2>1. Len(r) = n + 1 /\ r[n + 1] = h /\ \A i \in 1..n : r[i] = w[i]
      OBVIOUS
    <2> HIDE DEF r
    <2>2. \A i \in 1..Len(r) : i \in 1..n \/ i = n + 1
      BY <1>1, <2>1
    <2>3. Rpcs(r) \subseteq Rpcs(w) \union (IF h = HashOf[Rpc] THEN {n + 1} ELSE {})
      BY <2>1, <2>2 DEF Rpcs
    <2> QED
      BY <2>3 DEF r
  <1>4. ASSUME w # <<>>
        PROVE  /\ \A i \in Rpcs(Tail(w)) : i \in Nat \ {0} /\ i + 1 \in Rpcs(w)
               /\ Head(w) = HashOf[Rpc] => 1 \in Rpcs(w)
    <2> DEFINE r == Tail(w)
    <2>1. Len(r) = n - 1 /\ n >= 1 /\ Head(w) = w[1] /\ \A i \in 1..Len(r) : r[i] = w[i + 1]
      BY <1>4
    <2> HIDE DEF r
    <2>2. 1 \in 1..n /\ \A i \in 1..Len(r) : i + 1 \in 1..n /\ i \in Nat \ {0}
      BY <1>1, <2>1
    <2>3. \A i \in Rpcs(r) : i \in Nat \ {0} /\ i + 1 \in Rpcs(w)
      BY <2>1, <2>2 DEF Rpcs
    <2> QED
      BY <2>1, <2>2, <2>3 DEF Rpcs, r
  <1>5. Rpcs(Append(w, Eof)) \subseteq Rpcs(w)
    <2>1. Eof \in Int /\ HashOf[Rpc] # Eof
      BY HashFacts DEF Eof
    <2> QED
      BY <1>3, <2>1
  <1> QED
    BY <1>2, <1>3, <1>4, <1>5

\* Less is owed than before, and no more has been heard.
OwedLess(p) == \A q \in Peer :
    /\ Rpcs(wire'[q][p]) \subseteq Rpcs(wire[q][p])
    /\ at'[q]["main"] = "send" => at[q]["main"] = "send"
    /\ Playing(q)' /\ p \notin nicknames'[q] => Playing(q) /\ p \notin nicknames[q]

LEMMA OwesKept ==
    ASSUME NEW p \in Peer, Owes(p), OwedLess(p),
           typed \in Nat, typed' \in Nat, typed <= typed',
           plays[p] \in Nat, plays'[p] \in Nat, plays'[p] <= plays[p]
    PROVE  Owes(p)'
  <1>1. Owed(p)' \subseteq Owed(p)
    BY DEF Owed, OwedLess
  <1>2. /\ IsFiniteSet(Owed(p)') /\ Cardinality(Owed(p)') <= Cardinality(Owed(p))
        /\ Cardinality(Owed(p)') \in Nat /\ Cardinality(Owed(p)) \in Nat
    BY <1>1, FS_Subset, FS_CardinalityType DEF Owes
  <1> QED
    BY <1>2 DEF Owes

\* One play is owed in another way.
LEMMA Swapped ==
    ASSUME NEW S, IsFiniteSet(S), NEW x \in S, NEW y, NEW T, T \subseteq (S \ {x}) \union {y}
    PROVE  IsFiniteSet(T) /\ Cardinality(T) <= Cardinality(S) /\ Cardinality(T) \in Nat
  <1>1. /\ IsFiniteSet(S \ {x}) /\ Cardinality(S \ {x}) = Cardinality(S) - 1
        /\ Cardinality(S) \in Nat
    BY FS_RemoveElement, FS_CardinalityType
  <1>2. /\ IsFiniteSet((S \ {x}) \union {y}) /\ Cardinality((S \ {x}) \union {y}) \in Nat
        /\ Cardinality((S \ {x}) \union {y}) <= Cardinality(S)
    <2>1. IsFiniteSet((S \ {x}) \union {y})
          /\ Cardinality((S \ {x}) \union {y}) = IF y \in S \ {x} THEN Cardinality(S \ {x}) ELSE Cardinality(S \ {x}) + 1
      BY <1>1, FS_AddElement
    <2>2. Cardinality((S \ {x}) \union {y}) \in Nat
      BY <2>1, FS_CardinalityType
    <2> QED
      BY <1>1, <2>1, <2>2
  <1>3. IsFiniteSet(T) /\ Cardinality(T) <= Cardinality((S \ {x}) \union {y})
    BY <1>2, FS_Subset
  <1>4. Cardinality(T) \in Nat
    BY <1>3, FS_CardinalityType
  <1> QED
    BY <1>1, <1>2, <1>3, <1>4

LEMMA OneMore ==
    ASSUME NEW S, IsFiniteSet(S), NEW x
    PROVE  IsFiniteSet(S \union {x}) /\ Cardinality(S \union {x}) <= Cardinality(S) + 1
  <1>1. /\ IsFiniteSet(S \union {x})
        /\ Cardinality(S \union {x}) = IF x \in S THEN Cardinality(S) ELSE Cardinality(S) + 1
    BY FS_AddElement
  <1>2. Cardinality(S) \in Nat
    BY FS_CardinalityType
  <1> QED
    BY <1>1, <1>2

\* What is at the head of a line is taken, and owed no longer.
LEMMA TakenOwed ==
    ASSUME NEW p \in Peer, NEW q \in Peer, Owes(p), wire[q][p] \in Seq(Int), wire[q][p] # <<>>,
           \A x \in Peer : wire'[x][p] = IF x = q THEN Tail(wire[x][p]) ELSE wire[x][p],
           \A x \in Peer : at'[x]["main"] = "send" => at[x]["main"] = "send",
           \A x \in Peer : Playing(x)' /\ p \notin nicknames'[x] => Playing(x) /\ p \notin nicknames[x]
    PROVE  /\ IsFiniteSet(Owed(p)') /\ Cardinality(Owed(p)') \in Nat /\ Cardinality(Owed(p)) \in Nat
           /\ Cardinality(Owed(p)') <= Cardinality(Owed(p))
           /\ Head(wire[q][p]) = HashOf[Rpc] => Cardinality(Owed(p)') + 1 <= Cardinality(Owed(p))
  <1> DEFINE heard == Head(wire[q][p]) = HashOf[Rpc]
             first == <<q, "wire", 1>>
             S == IF heard THEN Owed(p) \ {first} ELSE Owed(p)
             T == Owed(p)'
             f == [x \in T |-> IF x[1] = q /\ x[2] = "wire" THEN <<q, "wire", x[3] + 1>> ELSE x]
             Triple == Peer \X {"wire", "send", "late"} \X Nat
  <1>1. /\ \A i \in Rpcs(wire'[q][p]) : i \in Nat \ {0} /\ i + 1 \in Rpcs(wire[q][p])
        /\ heard => 1 \in Rpcs(wire[q][p])
    BY RpcsFacts
  <1>2. \A x \in T : x \in Triple
    BY DEF Owed
  <1>3. ASSUME NEW x \in T PROVE f[x] \in S
    <2>1. CASE x[1] = q /\ x[2] = "wire"
      <3>1. x[3] \in Rpcs(wire'[q][p])
        BY <2>1 DEF Owed
      <3>2. x[3] \in Nat \ {0} /\ x[3] + 1 \in Rpcs(wire[q][p]) /\ x[3] + 1 \in Nat /\ x[3] + 1 # 1
        BY <1>1, <3>1
      <3>3. <<q, "wire", x[3] + 1>> \in Owed(p) /\ <<q, "wire", x[3] + 1>> # first
        BY <3>2 DEF Owed
      <3> QED
        BY <2>1, <3>3
    <2>2. CASE ~(x[1] = q /\ x[2] = "wire")
      <3>1. x \in Owed(p)
        <4>1. x \in Triple /\ x[1] \in Peer
          BY <1>2
        <4>2. CASE x[2] = "wire"
          <5>1. x[3] \in Rpcs(wire'[x[1]][p]) /\ x[1] # q
            BY <2>2, <4>2 DEF Owed
          <5>2. x[3] \in Rpcs(wire[x[1]][p])
            BY <4>1, <5>1
          <5> QED
            BY <4>1, <4>2, <5>2 DEF Owed
        <4>3. CASE x[2] = "send"
          BY <4>1, <4>3 DEF Owed
        <4>4. CASE x[2] = "late"
          BY <4>1, <4>4 DEF Owed
        <4> QED
          BY <4>1, <4>2, <4>3, <4>4
      <3> QED
        BY <2>2, <3>1
    <2> QED
      BY <2>1, <2>2
  <1>4. ASSUME NEW x \in T, NEW y \in T, f[x] = f[y] PROVE x = y
    <2>1. x \in Triple /\ y \in Triple
      BY <1>2
    <2> HIDE DEF T
    <2>2. /\ f[x] = IF x[1] = q /\ x[2] = "wire" THEN <<q, "wire", x[3] + 1>> ELSE x
          /\ f[y] = IF y[1] = q /\ y[2] = "wire" THEN <<q, "wire", y[3] + 1>> ELSE y
      OBVIOUS
    <2> HIDE DEF f
    <2>3. CASE x[1] = q /\ x[2] = "wire" /\ y[1] = q /\ y[2] = "wire"
      <3>1. <<q, "wire", x[3] + 1>> = <<q, "wire", y[3] + 1>>
        BY <1>4, <2>2, <2>3, Zenon
      <3>2. x[3] \in Nat /\ y[3] \in Nat /\ x = <<x[1], x[2], x[3]>> /\ y = <<y[1], y[2], y[3]>>
        BY <2>1
      <3>3. x[3] = y[3]
        BY <3>1, <3>2
      <3> QED
        BY <2>3, <3>2, <3>3, Zenon
    <2>4. CASE ~(x[1] = q /\ x[2] = "wire") /\ y[1] = q /\ y[2] = "wire"
      <3>1. x = <<q, "wire", y[3] + 1>>
        BY <1>4, <2>2, <2>4, Zenon
      <3> QED
        BY <2>4, <3>1
    <2>5. CASE x[1] = q /\ x[2] = "wire" /\ ~(y[1] = q /\ y[2] = "wire")
      <3>1. y = <<q, "wire", x[3] + 1>>
        BY <1>4, <2>2, <2>5, Zenon
      <3> QED
        BY <2>5, <3>1
    <2>6. CASE ~(x[1] = q /\ x[2] = "wire") /\ ~(y[1] = q /\ y[2] = "wire")
      BY <1>4, <2>2, <2>6
    <2> QED
      BY <2>3, <2>4, <2>5, <2>6
  <1>5. f \in Injection(T, S)
    <2>1. f \in [T -> S]
      BY <1>3
    <2> HIDE DEF f, T, S
    <2> QED
      BY <1>4, <2>1 DEF Injection, IsInjective
  <1>6. IsFiniteSet(Owed(p)) /\ Cardinality(Owed(p)) \in Nat
    BY FS_CardinalityType DEF Owes
  <1>7. heard => first \in Owed(p)
    BY <1>1 DEF Owed
  <1>8. /\ IsFiniteSet(S) /\ Cardinality(S) \in Nat /\ Cardinality(S) <= Cardinality(Owed(p))
        /\ heard => Cardinality(S) + 1 <= Cardinality(Owed(p))
    <2>1. CASE heard
      <3>1. IsFiniteSet(Owed(p) \ {first}) /\ Cardinality(Owed(p) \ {first}) = Cardinality(Owed(p)) - 1
        <4>1. first \in Owed(p)
          BY <1>7, <2>1
        <4> HIDE DEF first, heard
        <4> QED
          BY <1>6, <4>1, FS_RemoveElement
      <3>2. Cardinality(Owed(p) \ {first}) \in Nat
        BY <3>1, FS_CardinalityType
      <3> QED
        BY <1>6, <2>1, <3>1, <3>2
    <2>2. CASE ~heard
      BY <1>6, <2>2
    <2> QED
      BY <2>1, <2>2
  <1>9. IsFiniteSet(T) /\ Cardinality(T) <= Cardinality(S) /\ Cardinality(T) \in Nat
    <2> HIDE DEF S, T, f
    <2> QED
      BY <1>5, <1>8, FS_Injection, FS_CardinalityType
  <1> QED
    BY <1>6, <1>8, <1>9

LEMMA BoundedKept ==
    ASSUME Inv, Inv', Bounded, typed' \in typed..MaxTyped,
           \A p \in Peer : Rests(p)', \A p \in Peer : OwedLess(p) /\ plays'[p] <= plays[p]
    PROVE  Bounded'
  <1>1. typed \in Nat /\ typed' \in Nat /\ typed <= typed' /\ typed' \in 0..MaxTyped
    BY GameAssumption DEF Bounded
  <1>2. \A p \in Peer : plays[p] \in Nat /\ plays'[p] \in Nat
    BY DEF Inv, Typed
  <1>3. \A p \in Peer : Owes(p)'
    BY <1>1, <1>2, OwesKept DEF Bounded
  <1> QED
    BY <1>1, <1>3 DEF Bounded

LEMMA RestsKept ==
    ASSUME Bounded, UNCHANGED <<life, playerNbr>>, \A p \in Peer : Playing(p)' => Playing(p)
    PROVE  \A p \in Peer : Rests(p)'
  BY DEF Bounded, Rests

LEMMA PlayingKept ==
    ASSUME UNCHANGED <<inputted, at>>
    PROVE  \A p \in Peer : Playing(p)' <=> Playing(p)
  BY DEF Playing

\* What is no play.
LEMMA SaidOwesNothing ==
    ASSUME Inv, NEW p \in Peer, NEW receivers, NEW type \in Class, HashOf[type] # HashOf[Rpc],
           wire' = SentTo(wire, p, receivers, type), NEW x \in Peer, NEW y \in Peer
    PROVE  Rpcs(wire'[x][y]) \subseteq Rpcs(wire[x][y])
  <1>1. wire \in [Peer -> [Peer -> Seq(Int)]]
    BY DEF Inv, Typed
  <1>2. Sent(wire', wire, p, receivers, type)
    BY <1>1, SentToFacts, Zenon
  <1>3. wire'[x][y] = wire[x][y] \/ wire'[x][y] = Append(wire[x][y], HashOf[type])
    BY <1>2 DEF Sent
  <1>4. wire[x][y] \in Seq(Int) /\ HashOf[type] \in Int
    BY <1>1, HashFacts
  <1>5. Rpcs(Append(wire[x][y], HashOf[type])) \subseteq Rpcs(wire[x][y])
    BY <1>4, RpcsFacts
  <1> QED
    BY <1>3, <1>5

LEMMA StillBounded ==
    ASSUME Inv, Inv', Bounded, UNCHANGED <<life, wire, nicknames, inputted, playerNbr, plays, at, typed>>
    PROVE  Bounded'
  <1>1. typed' \in typed..MaxTyped
    BY GameAssumption DEF Bounded
  <1>2. \A p \in Peer : OwedLess(p) /\ plays'[p] <= plays[p]
    BY PlayingKept DEF OwedLess, Inv, Typed
  <1> QED
    BY <1>1, <1>2, BoundedKept, RestsKept, PlayingKept

LEMMA GreetsBounded ==
    ASSUME Inv, Inv', Bounded, NEW p \in Peer, Greets(p)
    PROVE  Bounded'
  <1>1. /\ wire' = SentTo(wire, p, peers[p] \ met[p], Name)
        /\ UNCHANGED <<life, nicknames, inputted, playerNbr, plays, at, typed>>
    BY DEF Greets, game
  <1>2. Name \in Class /\ HashOf[Name] # HashOf[Rpc]
    BY HashFacts DEF NameHash
  <1>3. \A x, y \in Peer : Rpcs(wire'[x][y]) \subseteq Rpcs(wire[x][y])
    BY <1>1, <1>2, SaidOwesNothing
  <1>4. typed' \in typed..MaxTyped
    BY <1>1, GameAssumption DEF Bounded
  <1>5. \A y \in Peer : OwedLess(y)
    BY <1>1, <1>3, PlayingKept DEF OwedLess
  <1>6. \A y \in Peer : plays'[y] <= plays[y]
    BY <1>1 DEF Inv, Typed
  <1> QED
    BY <1>1, <1>4, <1>5, <1>6, BoundedKept, RestsKept, PlayingKept

LEMMA SaysBounded ==
    ASSUME Inv, Inv', Bounded, NEW p \in Peer, Says(p)
    PROVE  Bounded'
  <1>1. PICK type \in Said(p) : wire' = SentTo(wire, p, peers[p], type)
    BY DEF Says
  <1>2. UNCHANGED <<life, nicknames, inputted, playerNbr, plays, at>> /\ typed < MaxTyped /\ typed' = typed + 1
    BY DEF Says, Types, game
  <1>3. type \in Class /\ HashOf[type] # HashOf[Rpc]
    BY <1>1, HashFacts DEF Said
  <1>4. \A x, y \in Peer : Rpcs(wire'[x][y]) \subseteq Rpcs(wire[x][y])
    BY <1>1, <1>3, SaidOwesNothing
  <1>5. typed' \in typed..MaxTyped
    BY <1>2, GameAssumption DEF Bounded
  <1>6. \A y \in Peer : OwedLess(y)
    BY <1>2, <1>4, PlayingKept DEF OwedLess
  <1>7. \A y \in Peer : plays'[y] <= plays[y]
    BY <1>2 DEF Inv, Typed
  <1> QED
    BY <1>2, <1>5, <1>6, <1>7, BoundedKept, RestsKept, PlayingKept

LEMMA ChecksBounded ==
    ASSUME Inv, Inv', Bounded, NEW p \in Peer, NEW t \in Thread, Checks(p, t) \/ NextTurn(p, t)
    PROVE  Bounded'
  <1>1. UNCHANGED <<life, wire, nicknames, playerNbr, typed>>
    BY DEF Checks, NextTurn, network
  <1>2. PICK stage \in Stages : Goes(p, t, stage) /\ stage # "send"
    BY DEF Checks, NextTurn, Stages
  <1>3. \A q \in Peer : /\ at'[q]["main"] = "send" => at[q]["main"] = "send"
                        /\ at'[q]["main"] # "idle" => at[q]["main"] # "idle"
    <2>1. /\ at'[p][t] = stage /\ \A u \in Thread : u # t => at'[p][u] = at[p][u]
          /\ \A q \in Peer : q # p => at'[q] = at[q]
      BY <1>2, StageSet
    <2>2. "main" \in Thread
      BY DEF Thread
    <2>3. at[p][t] # "idle"
      BY DEF Checks, NextTurn
    <2> QED
      BY <1>2, <2>1, <2>2, <2>3
  <1>4. \A q \in Peer : plays'[q] <= plays[q] /\ (inputted'[q] => inputted[q])
    <2>1. plays \in [Peer -> Nat] /\ inputted \in [Peer -> BOOLEAN]
      BY DEF Inv, Typed
    <2>2. /\ plays' = plays \/ plays' = [plays EXCEPT ![p] = 0]
          /\ inputted' = inputted \/ inputted' = [inputted EXCEPT ![p] = FALSE]
      BY DEF Checks, NextTurn
    <2>3. \A q \in Peer : plays'[q] <= plays[q]
      BY <2>1, <2>2
    <2>4. \A q \in Peer : inputted'[q] => inputted[q]
      BY <2>1, <2>2
    <2> QED
      BY <2>3, <2>4
  <1>5. typed' \in typed..MaxTyped
    BY <1>1, GameAssumption DEF Bounded
  <1>6. \A q \in Peer : Playing(q)' => Playing(q)
    BY <1>3, <1>4 DEF Playing
  <1>7. \A y \in Peer : OwedLess(y)
    BY <1>1, <1>3, <1>6 DEF OwedLess
  <1> QED
    BY <1>1, <1>4, <1>5, <1>6, <1>7, BoundedKept, RestsKept

LEMMA ReturnsBounded ==
    ASSUME Inv, Inv', Bounded, NEW p \in Peer, Returns(p)
    PROVE  Bounded'
  <1>1. /\ UNCHANGED <<life, wire, nicknames, inputted, playerNbr, plays, typed>>
        /\ Goes(p, "net", "idle") /\ "net" \in Thread /\ "main" \in Thread /\ "idle" \in Stages
    BY DEF Returns, network, Thread, Stages
  <1>2. \A q \in Peer : at'[q]["main"] = at[q]["main"]
    BY <1>1, StageSet
  <1>3. typed' \in typed..MaxTyped
    BY <1>1, GameAssumption DEF Bounded
  <1>4. \A q \in Peer : Playing(q)' => Playing(q)
    BY <1>1, <1>2 DEF Playing
  <1>5. \A y \in Peer : OwedLess(y)
    BY <1>1, <1>2, <1>4 DEF OwedLess
  <1>6. \A y \in Peer : plays'[y] <= plays[y]
    BY <1>1 DEF Inv, Typed
  <1> QED
    BY <1>1, <1>3, <1>4, <1>5, <1>6, BoundedKept, RestsKept

\* A play is typed, and two are owed.
LEMMA InputBounded ==
    ASSUME Inv, Inv', Bounded, NEW p \in Peer, Input(p)
    PROVE  Bounded'
  <1>1. /\ UNCHANGED <<life, wire, nicknames, playerNbr, plays>> /\ p \in Game /\ life[p] = "loop"
        /\ typed < MaxTyped /\ typed' = typed + 1
        /\ inputted' = [inputted EXCEPT ![p] = TRUE] /\ Goes(p, "main", "send")
    BY DEF Input, Types, network
  <1>2. /\ \A q \in Peer : q # p => at'[q] = at[q] /\ inputted'[q] = inputted[q]
        /\ typed \in Nat /\ typed' \in 0..MaxTyped
    <2>1. "main" \in Thread /\ "send" \in Stages
      BY DEF Thread, Stages
    <2>2. \A q \in Peer : q # p => at'[q] = at[q]
      BY <1>1, <2>1, StageSet
    <2>3. \A q \in Peer : q # p => inputted'[q] = inputted[q]
      BY <1>1 DEF Inv, Typed
    <2>4. typed \in Nat /\ typed' \in 0..MaxTyped
      BY <1>1, GameAssumption DEF Bounded
    <2> QED
      BY <2>2, <2>3, <2>4
  <1>3. ASSUME NEW y \in Peer PROVE Owes(y)'
    <2> DEFINE S == Owed(y)
               T == Owed(y)'
               send == <<p, "send", 0>>
               late == <<p, "late", 0>>
    <2>1. T \subseteq (S \union {send}) \union {late}
      BY <1>1, <1>2 DEF Owed, Playing
    <2>2. IsFiniteSet(S) /\ plays[y] + Cardinality(S) <= 2 * typed /\ plays[y] \in Nat
      BY DEF Bounded, Owes, Inv, Typed
    <2> HIDE DEF S, T, send, late
    <2>3. Cardinality(S) \in Nat
      BY <2>2, FS_CardinalityType
    <2>4. IsFiniteSet(S \union {send}) /\ Cardinality(S \union {send}) <= Cardinality(S) + 1
      BY <2>2, OneMore
    <2>5. Cardinality(S \union {send}) \in Nat
      BY <2>4, FS_CardinalityType
    <2>6. /\ IsFiniteSet((S \union {send}) \union {late})
          /\ Cardinality((S \union {send}) \union {late}) <= Cardinality(S \union {send}) + 1
      BY <2>4, OneMore
    <2>7. Cardinality((S \union {send}) \union {late}) \in Nat
      BY <2>6, FS_CardinalityType
    <2>8. IsFiniteSet(T) /\ Cardinality(T) <= Cardinality((S \union {send}) \union {late})
      BY <2>1, <2>6, FS_Subset
    <2>9. Cardinality(T) \in Nat
      BY <2>8, FS_CardinalityType
    <2>10. plays'[y] = plays[y] /\ plays[y] + Cardinality(T) <= 2 * (typed + 1)
      BY <1>1, <1>2, <2>2, <2>3, <2>4, <2>5, <2>6, <2>7, <2>8, <2>9
    <2> QED
      BY <1>1, <2>8, <2>10 DEF Owes, T
  <1>4. ASSUME NEW y \in Peer PROVE Rests(y)'
    BY <1>1, <1>2 DEF Bounded, Rests, Playing
  <1> QED
    BY <1>2, <1>3, <1>4 DEF Bounded

\* What is about to be sent is sent.
LEMMA PlaysBounded ==
    ASSUME Inv, Inv', Bounded, NEW p \in Peer, Plays(p)
    PROVE  Bounded'
  <1>1. /\ UNCHANGED <<life, nicknames, inputted, playerNbr, plays, typed>>
        /\ wire' = SentTo(wire, p, peers[p], Rpc)
        /\ at[p]["main"] = "send" /\ Goes(p, "main", "check")
    BY DEF Plays
  <1>2. at'[p]["main"] = "check" /\ \A q \in Peer : q # p => at'[q] = at[q]
    <2>1. "main" \in Thread /\ "check" \in Stages
      BY DEF Thread, Stages
    <2> QED
      BY <1>1, <2>1, StageSet
  <1>3. Sent(wire', wire, p, peers[p], Rpc)
    <2>1. wire \in [Peer -> [Peer -> Seq(Int)]] /\ Rpc \in Class
      BY HashFacts DEF Inv, Typed
    <2> QED
      BY <1>1, <2>1, SentToFacts, Zenon
  <1>4. \A q \in Peer : Playing(q)' => Playing(q)
    BY <1>1, <1>2 DEF Playing
  <1>5. ASSUME NEW y \in Peer PROVE Owes(y)'
    <2> DEFINE w == wire[p][y]
               S == Owed(y)
               T == Owed(y)'
               send == <<p, "send", 0>>
               wired == <<p, "wire", Len(w) + 1>>
    <2>1. w \in Seq(Int) /\ HashOf[Rpc] \in Int
      BY HashFacts DEF Inv, Typed
    <2>2. Rpcs(wire'[p][y]) \subseteq Rpcs(w) \union {Len(w) + 1}
      <3>1. wire'[p][y] = w \/ wire'[p][y] = Append(w, HashOf[Rpc])
        BY <1>3 DEF Sent
      <3> QED
        BY <2>1, <3>1, RpcsFacts
    <2>3. \A q \in Peer : q # p => wire'[q][y] = wire[q][y]
      BY <1>3 DEF Sent
    <2> HIDE DEF w
    <2>4. T \subseteq (S \ {send}) \union {wired}
      <3> SUFFICES ASSUME NEW x \in T PROVE x \in (S \ {send}) \union {wired}
        OBVIOUS
      <3>1. x \in Peer \X {"wire", "send", "late"} \X Nat /\ x = <<x[1], x[2], x[3]>>
        BY DEF Owed
      <3>2. CASE x[2] = "wire"
        <4>1. x[3] \in Rpcs(wire'[x[1]][y])
          BY <3>2 DEF Owed
        <4>2. CASE x[1] = p
          BY <2>2, <3>1, <3>2, <4>1, <4>2 DEF Owed, w
        <4>3. CASE x[1] # p
          BY <2>3, <3>1, <3>2, <4>1, <4>3 DEF Owed
        <4> QED
          BY <4>2, <4>3
      <3>3. CASE x[2] = "send"
        BY <1>2, <3>1, <3>3 DEF Owed
      <3>4. CASE x[2] = "late"
        BY <1>1, <1>4, <3>1, <3>4 DEF Owed
      <3> QED
        BY <3>1, <3>2, <3>3, <3>4
    <2>5. send \in S
      BY <1>1 DEF Owed
    <2>6. IsFiniteSet(S) /\ plays[y] + Cardinality(S) <= 2 * typed /\ plays[y] \in Nat /\ typed \in Nat
      BY DEF Bounded, Owes, Inv, Typed
    <2> HIDE DEF S, T, send, wired
    <2>7. IsFiniteSet(T) /\ Cardinality(T) <= Cardinality(S) /\ Cardinality(T) \in Nat
      BY <2>4, <2>5, <2>6, Swapped
    <2>8. Cardinality(S) \in Nat
      BY <2>6, FS_CardinalityType
    <2>9. plays[y] + Cardinality(T) <= 2 * typed
      BY <2>6, <2>7, <2>8
    <2> QED
      BY <1>1, <2>7, <2>9 DEF Owes, T
  <1> QED
    BY <1>1, <1>4, <1>5, RestsKept DEF Bounded

\* A message is heard: it was owed if it is a play, and then there is one play more.
LEMMA HeardBounded ==
    ASSUME Inv, Inv', Bounded, NEW p \in Peer, NEW q \in Peer, wire[q][p] # <<>>, wire' = Taken(p, q),
           UNCHANGED <<inputted, typed>>, \A y \in Peer : Rests(y)',
           \A x \in Peer : at'[x]["main"] = at[x]["main"],
           \A x, y \in Peer : Playing(x) /\ y \notin nicknames'[x] => y \notin nicknames[x],
           \A y \in Peer : y # p => plays'[y] = plays[y],
           plays'[p] = plays[p] \/ (plays'[p] = plays[p] + 1 /\ Head(wire[q][p]) = HashOf[Rpc])
    PROVE  Bounded'
  <1>1. \A x, y \in Peer : wire'[x][y] = IF x = q /\ y = p THEN Tail(wire[x][y]) ELSE wire[x][y]
    BY TakenLines
  <1>2. /\ typed \in Nat /\ typed \in 0..MaxTyped /\ wire[q][p] \in Seq(Int)
        /\ \A y \in Peer : plays[y] \in Nat /\ plays'[y] \in Nat
    BY GameAssumption DEF Bounded, Inv, Typed
  <1>3. \A x \in Peer : Playing(x)' => Playing(x)
    BY DEF Playing
  <1>4. ASSUME NEW y \in Peer, y # p PROVE Owes(y)'
    <2>1. OwedLess(y)
      BY <1>1, <1>3, <1>4 DEF OwedLess
    <2>2. Owes(y) /\ plays'[y] <= plays[y] /\ typed' = typed
      BY <1>2, <1>4 DEF Bounded
    <2> QED
      BY <1>2, <2>1, <2>2, OwesKept
  <1>5. Owes(p)'
    <2> DEFINE m == Cardinality(Owed(p))
               n == Cardinality(Owed(p)')
    <2>1. Owes(p)
      BY DEF Bounded
    <2>2. \A x \in Peer : wire'[x][p] = IF x = q THEN Tail(wire[x][p]) ELSE wire[x][p]
      BY <1>1
    <2>3. \A x \in Peer : Playing(x)' /\ p \notin nicknames'[x] => Playing(x) /\ p \notin nicknames[x]
      BY <1>3
    <2>4. IsFiniteSet(Owed(p)') /\ n \in Nat /\ m \in Nat /\ n <= m
          /\ (Head(wire[q][p]) = HashOf[Rpc] => n + 1 <= m)
      BY <1>2, <2>1, <2>2, <2>3, TakenOwed
    <2>5. plays[p] + m <= 2 * typed /\ typed' = typed
      BY <2>1 DEF Owes
    <2> HIDE DEF m, n
    <2>6. plays'[p] + n <= 2 * typed
      BY <1>2, <2>4, <2>5
    <2> QED
      BY <2>4, <2>5, <2>6 DEF Owes, n
  <1> QED
    BY <1>2, <1>4, <1>5 DEF Bounded

LEMMA DisconnectedBounded ==
    ASSUME Inv, Inv', Bounded, NEW p \in Peer, NEW q \in peers[p], wire[q][p] # <<>>,
           Disconnected(p, q), UNCHANGED <<life, typed>>
    PROVE  Bounded'
  <1>1. q \in Peer /\ wire' = [wire EXCEPT ![q][p] = <<>>] /\ UNCHANGED <<inputted, plays, at>>
    BY DEF Disconnected, Inv, Typed
  <1>2. \A x \in Peer : /\ x # p \/ p \in Game => nicknames'[x] = nicknames[x]
                        /\ x # p \/ p \notin Game => playerNbr'[x] = playerNbr[x]
    BY DEF Disconnected, Inv, Typed
  <1>3. life[p] = "loop"
    BY DEF Inv, Typed, Acquainted
  <1>4. \A y \in Peer : Rests(y)'
    BY <1>1, <1>2, <1>3, PlayingKept DEF Bounded, Rests
  <1>5. \A x, y \in Peer : Playing(x) /\ y \notin nicknames'[x] => y \notin nicknames[x]
    BY <1>2 DEF Bounded, Rests
  <1>6. ASSUME NEW x \in Peer, NEW y \in Peer PROVE Rpcs(wire'[x][y]) \subseteq Rpcs(wire[x][y])
    <2>1. wire[x][y] \in Seq(Int)
      BY DEF Inv, Typed
    <2>2. wire'[x][y] = <<>> \/ wire'[x][y] = wire[x][y]
      BY <1>1, ClearedLines
    <2>3. Rpcs(<<>>) = {}
      BY <2>1, RpcsFacts
    <2> QED
      BY <2>2, <2>3
  <1>7. ASSUME NEW y \in Peer PROVE OwedLess(y) /\ plays'[y] <= plays[y]
    <2>1. plays[y] \in Nat /\ plays'[y] = plays[y]
      BY <1>1 DEF Inv, Typed
    <2>2. OwedLess(y)
      BY <1>1, <1>5, <1>6, PlayingKept DEF OwedLess
    <2> QED
      BY <2>1, <2>2
  <1>8. typed' \in typed..MaxTyped
    BY GameAssumption DEF Bounded
  <1> QED
    BY <1>4, <1>7, <1>8, BoundedKept

LEMMA RpcReceivedBounded ==
    ASSUME Inv, Inv', Bounded, NEW p \in Peer, NEW q \in peers[p], wire[q][p] # <<>>,
           RpcReceived(p, q), UNCHANGED <<life, typed>>
    PROVE  Bounded'
  <1>1. /\ q \in Peer /\ wire' = Taken(p, q) /\ Head(wire[q][p]) = HashOf[Rpc]
        /\ UNCHANGED <<inputted, playerNbr, nicknames>> /\ Goes(p, "net", "check")
    BY DEF RpcReceived, Heard, Inv, Typed
  <1>2. plays'[p] = plays[p] + 1 /\ \A y \in Peer : y # p => plays'[y] = plays[y]
    BY DEF RpcReceived, Inv, Typed
  <1>3. \A x \in Peer : at'[x]["main"] = at[x]["main"]
    <2>1. "net" \in Thread /\ "main" \in Thread /\ "main" # "net" /\ "check" \in Stages
      BY DEF Thread, Stages
    <2> QED
      BY <1>1, <2>1, StageSet
  <1>4. \A y \in Peer : Rests(y)'
    <2>1. \A y \in Peer : Playing(y)' => Playing(y)
      BY <1>1, <1>3 DEF Playing
    <2> QED
      BY <1>1, <2>1, RestsKept
  <1> QED
    BY <1>1, <1>2, <1>3, <1>4, HeardBounded

LEMMA TextReceivedBounded ==
    ASSUME Inv, Inv', Bounded, NEW p \in Peer, NEW q \in peers[p], wire[q][p] # <<>>,
           TextReceived(p, q), UNCHANGED <<life, typed>>
    PROVE  Bounded'
  <1>1. /\ q \in Peer /\ wire' = Taken(p, q)
        /\ UNCHANGED <<inputted, plays, playerNbr, at, nicknames>>
    BY DEF TextReceived, Inv, Typed
  <1>2. \A y \in Peer : Rests(y)'
    BY <1>1, RestsKept, PlayingKept
  <1> QED
    BY <1>1, <1>2, HeardBounded

\* Whoever is told late what has been played is owed it no more.
LEMMA NameReceivedBounded ==
    ASSUME Inv, Inv', Bounded, NEW p \in Peer, NEW q \in peers[p], wire[q][p] # <<>>,
           NameReceived(p, q), UNCHANGED <<life, typed>>
    PROVE  Bounded'
  <1>1. /\ q \in Peer /\ Line(q, p) /\ Acquainted(p) /\ life[p] = "loop"
    BY DEF Inv, Typed, Acquainted
  <1>2. /\ Head(wire[q][p]) = NameHash /\ UNCHANGED <<inputted, plays, at>>
    BY DEF NameReceived, Notes, Heard, NameHash
  <1>0. PICK played \in Finds(p, "net", inputted[p]) :
        wire' = IF played THEN SentTo(Taken(p, q), p, {q}, Rpc) ELSE Taken(p, q)
    BY DEF NameReceived
  <1>3. /\ nicknames'[p] = nicknames[p] \union {q} /\ \A x \in Peer : x # p => nicknames'[x] = nicknames[x]
        /\ \A x \in Peer : x # p \/ p \notin Game => playerNbr'[x] = playerNbr[x]
    BY DEF NameReceived, Notes, Inv, Typed
  <1>4. q # p /\ q \notin nicknames[p]
    BY <1>1, <1>2, HeadFacts DEF Line, Acquainted
  <1>5. \A y \in Peer : Rests(y)'
    BY <1>1, <1>2, <1>3, PlayingKept DEF Bounded, Rests
  <1>6. \A x, y \in Peer : y \notin nicknames'[x] => y \notin nicknames[x]
    BY <1>3
  <1>7. CASE ~played
    BY <1>0, <1>1, <1>2, <1>5, <1>6, <1>7, HeardBounded
  <1>8. CASE played
    <2> DEFINE w == Taken(p, q)
    <2>1. /\ w \in [Peer -> [Peer -> Seq(Int)]]
          /\ \A x, y \in Peer : w[x][y] = IF x = q /\ y = p THEN Tail(wire[x][y]) ELSE wire[x][y]
      BY <1>1, TakenLines
    <2>2. Sent(wire', w, p, {q}, Rpc)
      <3>1. wire' = SentTo(w, p, {q}, Rpc) /\ Rpc \in Class
        BY <1>0, <1>8, HashFacts
      <3> HIDE DEF w
      <3> QED
        BY <2>1, <3>1, SentToFacts, Zenon
    <2> HIDE DEF w
    <2>3. \A x, y \in Peer : x # p \/ y # q => wire'[x][y] = IF x = q /\ y = p THEN Tail(wire[x][y]) ELSE wire[x][y]
      BY <2>1, <2>2 DEF Sent
    <2>4. wire'[p][q] = wire[p][q] \/ wire'[p][q] = Append(wire[p][q], HashOf[Rpc])
      BY <1>1, <1>4, <2>1, <2>2 DEF Sent
    <2>5. /\ typed \in Nat /\ typed \in 0..MaxTyped
          /\ wire \in [Peer -> [Peer -> Seq(Int)]] /\ \A y \in Peer : plays[y] \in Nat
      BY GameAssumption DEF Bounded, Inv, Typed
    <2>6. ASSUME NEW y \in Peer, y \notin {p, q} PROVE Owes(y)'
      <3>1. OwedLess(y)
        <4>1. \A x \in Peer : wire'[x][y] = wire[x][y]
          BY <2>3, <2>6
        <4>2. at' = at /\ inputted' = inputted
          BY <1>2
        <4> QED
          BY <1>6, <4>1, <4>2, PlayingKept DEF OwedLess
      <3>2. Owes(y) /\ plays'[y] = plays[y] /\ typed' = typed /\ plays[y] <= plays[y] /\ typed <= typed
        BY <1>2, <2>5 DEF Bounded
      <3> QED
        BY <2>5, <3>1, <3>2, OwesKept
    <2>7. Owes(p)'
      <3>1. Owes(p) /\ plays'[p] = plays[p] /\ typed' = typed
        BY <1>2 DEF Bounded
      <3>2. \A x \in Peer : wire'[x][p] = IF x = q THEN Tail(wire[x][p]) ELSE wire[x][p]
        BY <1>1, <1>4, <2>3
      <3>3. /\ \A x \in Peer : at'[x]["main"] = "send" => at[x]["main"] = "send"
            /\ \A x \in Peer : Playing(x)' /\ p \notin nicknames'[x] => Playing(x) /\ p \notin nicknames[x]
        BY <1>2, <1>6, PlayingKept
      <3>4. wire[q][p] \in Seq(Int)
        BY <1>1, <2>5
      <3>5. /\ IsFiniteSet(Owed(p)') /\ Cardinality(Owed(p)') \in Nat /\ Cardinality(Owed(p)) \in Nat
            /\ Cardinality(Owed(p)') <= Cardinality(Owed(p))
        BY <1>1, <3>1, <3>2, <3>3, <3>4, TakenOwed
      <3> QED
        BY <2>5, <3>1, <3>5 DEF Owes
    <2>8. Owes(q)'
      <3> DEFINE line == wire[p][q]
                 S == Owed(q)
                 T == Owed(q)'
                 late == <<p, "late", 0>>
                 wired == <<p, "wire", Len(line) + 1>>
      <3>1. Rpcs(wire'[p][q]) \subseteq Rpcs(line) \union {Len(line) + 1}
        <4>1. line \in Seq(Int) /\ HashOf[Rpc] \in Int
          BY <1>1, <2>5, HashFacts
        <4> QED
          BY <2>4, <4>1, RpcsFacts
      <3> HIDE DEF line
      <3>2. T \subseteq (S \ {late}) \union {wired}
        <4> SUFFICES ASSUME NEW x \in T PROVE x \in (S \ {late}) \union {wired}
          OBVIOUS
        <4>1. x \in Peer \X {"wire", "send", "late"} \X Nat /\ x = <<x[1], x[2], x[3]>>
          BY DEF Owed
        <4>2. CASE x[2] = "wire"
          <5>1. x[3] \in Rpcs(wire'[x[1]][q])
            BY <4>2 DEF Owed
          <5>2. CASE x[1] = p
            BY <3>1, <4>1, <4>2, <5>1, <5>2 DEF Owed, line
          <5>3. CASE x[1] # p
            <6>1. wire'[x[1]][q] = wire[x[1]][q]
              BY <1>1, <1>4, <2>3, <4>1, <5>3
            <6> QED
              BY <4>1, <4>2, <5>1, <5>3, <6>1 DEF Owed
          <5> QED
            BY <5>2, <5>3
        <4>3. CASE x[2] = "send"
          BY <1>2, <4>1, <4>3 DEF Owed
        <4>4. CASE x[2] = "late"
          BY <1>1, <1>2, <1>3, <1>6, <4>1, <4>4, PlayingKept DEF Owed
        <4> QED
          BY <4>1, <4>2, <4>3, <4>4
      <3>3. late \in S
        <4>1. inputted[p] \/ \E u \in Thread \ {"net"} : at[p][u] \in Written[u]
          BY <1>0, <1>8 DEF Finds
        <4>2. (\E u \in Thread \ {"net"} : at[p][u] \in Written[u]) => at[p]["main"] \in {"send", "clear"}
          BY DEF Written, Thread
        <4>3. Playing(p)
          BY <4>1, <4>2 DEF Playing
        <4> QED
          BY <1>4, <4>3 DEF Owed
      <3>4. IsFiniteSet(S) /\ plays[q] + Cardinality(S) <= 2 * typed /\ plays[q] \in Nat
        BY <1>1, <2>5 DEF Bounded, Owes
      <3> HIDE DEF S, T, late, wired
      <3>5. IsFiniteSet(T) /\ Cardinality(T) <= Cardinality(S) /\ Cardinality(T) \in Nat
        BY <3>2, <3>3, <3>4, Swapped
      <3>6. Cardinality(S) \in Nat
        BY <3>4, FS_CardinalityType
      <3>7. plays[q] + Cardinality(T) <= 2 * typed
        BY <2>5, <3>4, <3>5, <3>6
      <3> QED
        BY <1>2, <3>5, <3>7 DEF Owes, T
    <2>9. \A y \in Peer : Owes(y)'
      BY <2>6, <2>7, <2>8
    <2> QED
      BY <1>5, <2>5, <2>9 DEF Bounded
  <1> QED
    BY <1>7, <1>8

LEMMA ReceiveBounded ==
    ASSUME Inv, Inv', Bounded, NEW p \in Peer, Receive(p)
    PROVE  Bounded'
  <1>1. UNCHANGED <<life, typed>>
    BY DEF Receive
  <1>2. PICK q \in peers[p] :
          /\ wire[q][p] # <<>>
          /\ Disconnected(p, q) \/ NameReceived(p, q) \/ RpcReceived(p, q) \/ TextReceived(p, q)
    BY DEF Receive
  <1> QED
    BY <1>1, <1>2, DisconnectedBounded, NameReceivedBounded, RpcReceivedBounded, TextReceivedBounded

LEMMA EndsBounded ==
    ASSUME Inv, Inv', Bounded, NEW p \in Peer, Ends(p)
    PROVE  Bounded'
  <1> DEFINE Told == {q \in Peer : p \in peers[q]}
  <1>1. wire' = [x \in Peer |-> [y \in Peer |->
                   IF x = p /\ p \in peers[y] THEN Append(wire[p][y], Eof)
                   ELSE IF y = p THEN <<>> ELSE wire[x][y]]]
    BY DEF Ends
  <1>2. \A x, y \in Peer :
          wire'[x][y] = IF x = p /\ y \in Told THEN Append(wire[p][y], Eof)
                        ELSE IF y = p THEN <<>> ELSE wire[x][y]
    BY <1>1, Zenon
  <1>3. ASSUME NEW x \in Peer, NEW y \in Peer PROVE Rpcs(wire'[x][y]) \subseteq Rpcs(wire[x][y])
    <2>1. wire[x][y] \in Seq(Int)
      BY DEF Inv, Typed
    <2>2. CASE x = p /\ y \in Told
      <3>1. Rpcs(Append(wire[x][y], Eof)) \subseteq Rpcs(wire[x][y])
        BY <2>1, RpcsFacts
      <3>2. wire'[x][y] = Append(wire[x][y], Eof)
        BY <1>2, <2>2, Zenon
      <3> QED
        BY <3>1, <3>2, Zenon
    <2>3. CASE ~(x = p /\ y \in Told)
      <3>1. wire'[x][y] = <<>> \/ wire'[x][y] = wire[x][y]
        BY <1>2, <2>3, Zenon
      <3>2. Rpcs(<<>>) = {}
        BY <2>1, RpcsFacts
      <3> QED
        BY <3>1, <3>2
    <2> QED
      BY <2>2, <2>3
  <1>4. /\ life' = [life EXCEPT ![p] = "over"] /\ nicknames' = [nicknames EXCEPT ![p] = {}]
        /\ inputted' = [inputted EXCEPT ![p] = FALSE]
        /\ playerNbr' = [playerNbr EXCEPT ![p] = 1] /\ plays' = [plays EXCEPT ![p] = 0]
        /\ at' = [at EXCEPT ![p] = [t \in Thread |-> "idle"]] /\ UNCHANGED typed
    BY DEF Ends
  <1>5. /\ ~inputted'[p] /\ playerNbr'[p] = 1 /\ at'[p]["main"] = "idle"
        /\ \A r \in Peer : r # p => /\ life'[r] = life[r] /\ nicknames'[r] = nicknames[r] /\ at'[r] = at[r]
                                    /\ inputted'[r] = inputted[r] /\ playerNbr'[r] = playerNbr[r]
    BY <1>4 DEF Inv, Typed, Thread
  <1>6. \A r \in Peer : plays'[r] <= plays[r]
    <2>1. plays \in [Peer -> Nat]
      BY DEF Inv, Typed
    <2> QED
      BY <1>4, <2>1
  <1>7. ASSUME NEW y \in Peer PROVE OwedLess(y)
    BY <1>3, <1>5 DEF OwedLess, Playing
  <1>8. ASSUME NEW r \in Peer PROVE Rests(r)'
    BY <1>5 DEF Bounded, Rests, Playing
  <1>9. typed' \in typed..MaxTyped
    BY <1>4, GameAssumption DEF Bounded
  <1> QED
    BY <1>6, <1>7, <1>8, <1>9, BoundedKept

LEMMA InitBounded ==
    ASSUME Init
    PROVE  Bounded
  <1>1. /\ wire = [p \in Peer |-> [q \in Peer |-> <<>>]] /\ typed = 0
        /\ inputted = [p \in Peer |-> FALSE] /\ playerNbr = [p \in Peer |-> 1] /\ plays = [p \in Peer |-> 0]
        /\ at = [p \in Peer |-> [t \in Thread |-> "idle"]]
    BY DEF Init, GameInit
  <1>2. ASSUME NEW p \in Peer PROVE Rests(p) /\ Owes(p)
    <2>1. Rests(p)
      BY <1>1 DEF Rests, Playing, Thread
    <2>2. \A q \in Peer : Rpcs(wire[q][p]) = {} /\ at[q]["main"] # "send" /\ ~Playing(q)
      BY <1>1 DEF Rpcs, Thread, Playing
    <2>3. Owed(p) = {}
      BY <2>2 DEF Owed
    <2>4. IsFiniteSet(Owed(p)) /\ Cardinality(Owed(p)) = 0
      BY <2>3, FS_EmptySet
    <2> QED
      BY <1>1, <2>1, <2>4 DEF Owes
  <1> QED
    BY <1>1, <1>2, GameAssumption DEF Bounded

LEMMA NextBounded ==
    ASSUME Inv, Bounded, [Next]_vars
    PROVE  Bounded'
  <1>1. Inv'
    BY NextInv
  <1>2. CASE Next
    <2>1. PICK p \in Peer :
            \/ \E q \in Peer : Connected(p, q)
            \/ Greets(p) \/ Receive(p)
            \/ Says(p) \/ Input(p) \/ Plays(p)
            \/ \E t \in Thread : Checks(p, t) \/ NextTurn(p, t)
            \/ Returns(p) \/ Ends(p)
      BY <1>2 DEF Next
    <2>2. CASE \E q \in Peer : Connected(p, q)
      <3>1. UNCHANGED <<life, wire, nicknames, inputted, playerNbr, plays, at, typed>>
        BY <2>2 DEF Connected, game
      <3> QED
        BY <1>1, <3>1, StillBounded
    <2>3. CASE Greets(p) \/ Receive(p)
      BY <1>1, <2>3, GreetsBounded, ReceiveBounded
    <2>4. CASE Says(p) \/ Input(p) \/ Plays(p)
      BY <1>1, <2>4, SaysBounded, InputBounded, PlaysBounded
    <2>5. CASE \E t \in Thread : Checks(p, t) \/ NextTurn(p, t)
      BY <1>1, <2>5, ChecksBounded
    <2>6. CASE Returns(p) \/ Ends(p)
      BY <1>1, <2>6, ReturnsBounded, EndsBounded
    <2> QED
      BY <2>1, <2>2, <2>3, <2>4, <2>5, <2>6
  <1>3. CASE UNCHANGED vars
    <2>1. UNCHANGED <<life, wire, nicknames, inputted, playerNbr, plays, at, typed>>
      BY <1>3 DEF vars, network, game
    <2> QED
      BY <1>1, <2>1, StillBounded
  <1> QED
    BY <1>2, <1>3

\* The players p counts are programs of the network, and p is one more.
LEMMA PlayersBounded ==
    ASSUME Inv, Bounded, NEW p \in Peer
    PROVE  playerNbr[p] \in 1..Cardinality(Peer)
  <1>1. IsFiniteSet(Peer) /\ Cardinality(Peer) \in Nat
    BY GameAssumption, FS_CardinalityType
  <1>2. IsFiniteSet(Peer \ {p}) /\ Cardinality(Peer \ {p}) = Cardinality(Peer) - 1
    BY <1>1, FS_RemoveElement
  <1>3. Cardinality(Peer \ {p}) \in Nat
    BY <1>2, FS_CardinalityType
  <1>4. playerNbr[p] \in Nat /\ playerNbr[p] >= 1 /\ life[p] \in {"loop", "over"}
    BY DEF Inv, Typed
  <1>5. CASE p \in Game /\ life[p] = "loop"
    <2> DEFINE S == nicknames[p] \intersect peers[p]
    <2>1. S \subseteq Peer \ {p}
      BY DEF Inv, Typed, Acquainted
    <2>2. Cardinality(S) \in Nat
      BY NamesFinite
    <2>3. playerNbr[p] = 1 + Cardinality(S)
      BY <1>5 DEF Inv, NamesCounted
    <2> HIDE DEF S
    <2>4. Cardinality(S) <= Cardinality(Peer \ {p})
      BY <1>2, <2>1, FS_Subset
    <2> QED
      BY <1>1, <1>2, <1>3, <1>4, <2>2, <2>3, <2>4
  <1>6. CASE ~(p \in Game /\ life[p] = "loop")
    <2>1. playerNbr[p] = 1
      BY <1>4, <1>6 DEF Bounded, Rests
    <2> QED
      BY <1>1, <1>2, <1>3, <2>1
  <1> QED
    BY <1>5, <1>6

LEMMA TypesHold ==
    ASSUME Inv, Bounded
    PROVE  TypeOK
  <1>1. /\ life \in [Peer -> {"loop", "over"}] /\ nicknames \in [Peer -> SUBSET Peer]
        /\ inputted \in [Peer -> BOOLEAN] /\ untold \in [Peer -> SUBSET Peer]
        /\ at \in [Peer -> [Thread -> {"idle", "send", "check", "turn", "clear", "late"}]]
    BY DEF Inv, Typed, Stages
  <1>2. \A p \in Peer : met[p] \subseteq peers[p] /\ peers[p] \subseteq Peer \ {p}
    BY DEF Inv, Typed, Acquainted
  <1>3. playerNbr \in [Peer -> 1..Cardinality(Peer)]
    <2>1. playerNbr = [p \in Peer |-> playerNbr[p]]
      BY DEF Inv, Typed
    <2> QED
      BY <2>1, PlayersBounded
  <1>4. typed \in 0..MaxTyped
    BY DEF Bounded
  <1>5. ASSUME NEW p \in Peer PROVE plays[p] \in 0..(2 * MaxTyped)
    <2>1. Cardinality(Owed(p)) \in Nat /\ plays[p] + Cardinality(Owed(p)) <= 2 * typed /\ plays[p] \in Nat
      BY FS_CardinalityType DEF Bounded, Owes, Inv, Typed
    <2> QED
      BY <1>4, <2>1, GameAssumption
  <1>6. plays \in [Peer -> 0..(2 * MaxTyped)]
    <2>1. plays = [p \in Peer |-> plays[p]]
      BY DEF Inv, Typed
    <2> QED
      BY <1>5, <2>1
  <1> QED
    BY <1>1, <1>2, <1>3, <1>4, <1>6 DEF TypeOK

------------------------------------------------------------------------------
(* The theorems. *)

\* The invariant of all programs on the network.
THEOREM Invariance == Spec => []Inv
  <1>1. Init => Inv
    BY InitInv
  <1>2. Inv /\ [Next]_vars => Inv'
    BY NextInv
  <1> QED
    BY <1>1, <1>2, PTL DEF Spec

\* No counter of a program leaves its range: a game counts no more players than there
\* are programs, and has two plays at most for each command that was typed, however
\* often it is told of a play (input, name_received, rpc_received).
THEOREM TypeCorrect == Spec => []TypeOK
  <1>1. Init => Inv /\ Bounded
    BY InitInv, InitBounded
  <1>2. Inv /\ Bounded /\ [Next]_vars => (Inv /\ Bounded)'
    BY NextInv, NextBounded
  <1>3. Inv /\ Bounded => TypeOK
    BY TypesHold
  <1> QED
    BY <1>1, <1>2, <1>3, PTL DEF Spec

\* The game counts its named peers, the chat remembers no other (connection_event,
\* name_received), whatever is on the lines, in any order of coming and going.
THEOREM NamesAreCounted == Spec => []NamesCounted
  <1>1. Inv => NamesCounted
    BY DEF Inv
  <1> QED
    BY <1>1, Invariance, PTL

\* When the lines are empty and nobody is between two listeners, each knows the name
\* of every program it is connected to (connection_event, name_received).
THEOREM NamesAreSpread == Spec => []NamesSpread
  <1>1. ASSUME Inv PROVE NamesSpread
    <2> SUFFICES ASSUME \A p \in Peer : life[p] = "loop" => Waits(p) /\ \A q \in Peer : wire[q][p] = <<>>,
                        NEW p \in Peer, NEW q \in peers[p]
                 PROVE  q \in nicknames[p]
      BY DEF NamesSpread
    <2>1. q \in Peer /\ life[p] \in {"loop", "over"} /\ life[q] \in {"loop", "over"} /\ Acquainted(p) /\ Line(q, p)
      BY <1>1 DEF Inv, Typed
    <2>2. life[p] = "loop" /\ wire[q][p] = <<>>
      BY <2>1 DEF Acquainted
    <2>3. life[q] = "loop"
      BY <2>1, <2>2 DEF Line
    <2>4. p \in met[q]
      BY <2>1, <2>3 DEF Line, Waits
    <2> QED
      BY <2>1, <2>2, <2>3, <2>4, EmptyFacts DEF Line
  <1> QED
    BY <1>1, Invariance, PTL

\* Whoever plays has told everybody it knows and is connected to, also one whose name
\* came while it was telling, and whatever its threads find of what the other has
\* written (input, name_received).
THEOREM ChoicesAreTold == Spec => []ChoiceTold
  <1>1. Inv => ChoiceTold
    BY DEF Inv, Tells, ChoiceTold
  <1> QED
    BY <1>1, Invariance, PTL
=============================================================================
