------------------------------ MODULE Programs ------------------------------
(***************************************************************************)
(* The programs of the repository on one network: the tutorial's game      *)
(* (RPS-final.cpp) and the chat of the examples (chatv2/main.cpp).  Both   *)
(* tell whoever connects their name, so that they meet; what one of them   *)
(* has no listener for passes it by.                                       *)
(*                                                                         *)
(* Each has the network thread, which runs listeners one at a time, and    *)
(* main(), which reads commands.  The game's object has no mutex: both     *)
(* threads are in it, statement by statement, and what one has written the *)
(* other finds or not before it has been through a mutex of the network's  *)
(* (a send, or io_service's queue; see Finds).  The network is what        *)
(* PeerManager and Dispatch promise: two peers that connect are told of    *)
(* each other, what one sends arrives in order and its end comes last, but *)
(* what is still queued when a program ends may be lost.  No peer comes    *)
(* back under its id: programs connect once.                               *)
(*                                                                         *)
(* What is printed is left out, and what is played: m_plays is its length. *)
(***************************************************************************)
EXTENDS TypeTraits

CONSTANTS
    Peer,       \* programs
    Game,       \* those that are the game, the others being the chat
    MaxTyped, MaxEnds   \* bounds: lines that are typed, programs that end

ASSUME GameAssumption == IsFiniteSet(Peer) /\ Game \subseteq Peer /\ MaxTyped \in Nat /\ MaxEnds \in Nat

Thread == {"main", "net"}

\* The classes the programs declare, each identifier by its first letter.
Name    == Declared(<<110>>)
String  == Declared(<<115, Colon, Colon, 115>>)
Rpc     == Declared(<<114>>)
Message == Template(<<99>>, <<String>>)
Square  == Template(<<99>>, <<Declared(<<113>>)>>)

Classes == <<Name, String, Rpc, Message, Square>>
Class   == Range(Classes)

\* What type_traits keeps of each.
HashOf == [type \in Class |-> Hash(type)]

\* What type_traits does not guarantee: that they differ.
ASSUME HashAssumption == \A i \in 1..5 :
    HashOf[Classes[i]] \in Nat /\ \A j \in 1..5 : HashOf[Classes[i]] = HashOf[Classes[j]] => i = j

\* What each has listeners for, and what it sends by command.
GameListens == {Name, String, Rpc}
ChatListens == {Name, Message, Square}
Listened(p) == IF p \in Game THEN GameListens ELSE ChatListens
Said(p)     == IF p \in Game THEN {String} ELSE {Message, Square}

VARIABLES
    life,       \* where main() is: in its "loop", or "over"
    peers,      \* m_peers of the peer manager
    met,        \* those of them the connection listener has been called for
    nicknames,  \* the keys of m_nicknames, or of peer_map
    inputted,   \* m_inputted
    playerNbr,  \* m_player_nbr
    plays,      \* Len(m_plays)
    untold,     \* not in the code: players the choice of this turn has not been sent
    at,         \* where a thread is in the game_manager
    wire,       \* hashes of the classes sent to a peer, and the end of it
    typed       \* counter of the bound

network == <<peers, met, wire>>
game    == <<inputted, playerNbr, plays, untold, at>>
vars    == <<life, network, nicknames, game, typed>>

\* No hash.
Eof == -1

\* game_manager's constructor
GameInit ==
    /\ inputted = [p \in Peer |-> FALSE]
    /\ playerNbr = [p \in Peer |-> 1]
    /\ plays = [p \in Peer |-> 0]
    /\ untold = [p \in Peer |-> {}]
    /\ at = [p \in Peer |-> [t \in Thread |-> "idle"]]

\* main() up to its loop: the object, its listeners, awake() or connect()
Init ==
    /\ life = [p \in Peer |-> "loop"]
    /\ peers = [p \in Peer |-> {}] /\ met = peers
    /\ nicknames = [p \in Peer |-> {}]
    /\ GameInit
    /\ wire = [p \in Peer |-> [q \in Peer |-> <<>>]]
    /\ typed = 0

Goes(p, t, stage) == at' = [at EXCEPT ![p][t] = stage]

\* send_object and send_object_to.  Nobody reads what is sent to a program that is
\* over.
SentTo(w, p, receivers, type) ==
    [w EXCEPT ![p] = [q \in Peer |-> IF q \in receivers /\ life[q] = "loop" THEN Append(@[q], HashOf[type]) ELSE @[q]]]

------------------------------------------------------------------------------
(* The network. *)

\* The network thread of p waits for a handler.
Waits(p) == life[p] = "loop" /\ at[p]["net"] = "idle" /\ met[p] = peers[p]

\* peer_connected, up to the listeners, at both ends
Connected(p, q) ==
    /\ Waits(p) /\ Waits(q)
    /\ q \notin peers[p] /\ q # p
    /\ peers' = [peers EXCEPT ![p] = @ \union {q}, ![q] = @ \union {p}]
    /\ UNCHANGED <<life, met, wire, nicknames, game, typed>>

\* BadX is X with a plausible slip, which some property is to catch: see the
\* list of mutants in the README.  The name is told once.
BadGreets(p) ==
    /\ life[p] = "loop"
    /\ \E q \in peers[p] \ met[p] : met' = [met EXCEPT ![p] = @ \union {q}]
    /\ wire' = IF met[p] = {} THEN SentTo(wire, p, peers[p] \ met[p], Name) ELSE wire
    /\ UNCHANGED <<life, peers, nicknames, game, typed>>

\* connection_event, or operator(), of a peer that is connected
Greets(p) ==
    /\ life[p] = "loop"
    /\ \E q \in peers[p] \ met[p] : met' = [met EXCEPT ![p] = @ \union {q}]
    /\ wire' = SentTo(wire, p, peers[p] \ met[p], Name)
    /\ UNCHANGED <<life, peers, nicknames, game, typed>>

------------------------------------------------------------------------------
(* Listeners, on the network thread. *)

\* Where what a thread has written last may not be seen by the other yet.  main() has
\* sent its choice when it checks, and both have printed when next_turn is over.
Written == [main |-> {"send", "clear"}, net |-> {"check", "turn", "clear", "late"}]

\* What t finds of a condition on fields the other thread writes.
Finds(p, t, condition) ==
    IF \E u \in Thread \ {t} : at[p][u] \in Written[u] THEN BOOLEAN ELSE {condition}

Taken(p, q) == [wire EXCEPT ![q][p] = Tail(@)]

\* A player is counted out whose name is not known.
BadDisconnected(p, q) ==
    /\ life[q] = "over"
    /\ playerNbr' = [playerNbr EXCEPT ![p] = IF p \in Game THEN @ - 1 ELSE @]
    /\ nicknames' = [nicknames EXCEPT ![p] = IF p \in Game THEN @ ELSE @ \ {q}]
    /\ peers' = [peers EXCEPT ![p] = @ \ {q}] /\ met' = [met EXCEPT ![p] = @ \ {q}]
    /\ wire' = [wire EXCEPT ![q][p] = <<>>]
    /\ UNCHANGED <<inputted, plays, untold, at>>

\* connection_event, or operator(), of one that is not.  What was still queued when q
\* ended is lost: its end may come before any part of what is on the wire.  Without a
\* nickname at() throws, and peer_disconnected goes on.
Disconnected(p, q) ==
    /\ life[q] = "over"
    /\ playerNbr' = [playerNbr EXCEPT ![p] = IF p \in Game /\ q \in nicknames[p] THEN @ - 1 ELSE @]
    /\ nicknames' = [nicknames EXCEPT ![p] = IF p \in Game THEN @ ELSE @ \ {q}]
    /\ peers' = [peers EXCEPT ![p] = @ \ {q}] /\ met' = [met EXCEPT ![p] = @ \ {q}]
    /\ wire' = [wire EXCEPT ![q][p] = <<>>]
    /\ UNCHANGED <<inputted, plays, untold, at>>

\* The classes p listens for that the message may be of.
Heard(p, q) == {type \in Listened(p) : HashOf[type] = Head(wire[q][p])}

\* name_received, or operator(), up to what it sends
Notes(p, q) ==
    /\ Name \in Heard(p, q)
    /\ nicknames' = [nicknames EXCEPT ![p] = @ \union {q}]
    /\ playerNbr' = [playerNbr EXCEPT ![p] = IF p \in Game THEN @ + 1 ELSE @]
    /\ UNCHANGED <<inputted, plays, at, peers, met>>

\* Whoever comes late is told nothing.
BadNameReceived(p, q) ==
    /\ Notes(p, q)
    /\ wire' = Taken(p, q)
    /\ untold' = IF inputted[p] THEN [untold EXCEPT ![p] = @ \union {q}] ELSE untold

\* Whoever comes late is told what has been played.
NameReceived(p, q) ==
    /\ Notes(p, q)
    /\ \E played \in Finds(p, "net", inputted[p]) :
         /\ wire' = IF played THEN SentTo(Taken(p, q), p, {q}, Rpc) ELSE Taken(p, q)
         /\ untold' = IF inputted[p] /\ ~played THEN [untold EXCEPT ![p] = @ \union {q}] ELSE untold

\* rpc_received
RpcReceived(p, q) ==
    /\ Rpc \in Heard(p, q)
    /\ plays' = [plays EXCEPT ![p] = @ + 1]
    /\ Goes(p, "net", "check")
    /\ wire' = Taken(p, q)
    /\ UNCHANGED <<inputted, playerNbr, untold, nicknames, peers, met>>

\* message_received, string_received, square_received, which only print, and what
\* nobody listens for
TextReceived(p, q) ==
    /\ Head(wire[q][p]) # Eof
    /\ Heard(p, q) \intersect {Name, Rpc} = {}
    /\ wire' = Taken(p, q)
    /\ UNCHANGED <<inputted, plays, playerNbr, untold, at, nicknames, peers, met>>

Receive(p) ==
    /\ Waits(p)
    /\ \E q \in peers[p] :
         /\ wire[q][p] # <<>>
         /\ Disconnected(p, q) \/ NameReceived(p, q) \/ RpcReceived(p, q) \/ TextReceived(p, q)
    /\ UNCHANGED <<life, typed>>

------------------------------------------------------------------------------
(* Commands, on the main thread, and the end of a turn, on either. *)

Types(p) ==
    /\ life[p] = "loop" /\ at[p]["main"] = "idle"
    /\ typed < MaxTyped /\ typed' = typed + 1

\* send_object.  Of /packet, which sends two of these and a double in one message,
\* one is left, as nobody is told more by the others: the chat prints each, and the
\* game, which has no listener for any, passes the message by (see Dispatch, Astray).
Says(p) ==
    /\ Types(p)
    /\ \E type \in Said(p) : wire' = SentTo(wire, p, peers[p], type)
    /\ UNCHANGED <<life, peers, met, nicknames, game>>

\* input, up to its send_object
Input(p) ==
    /\ p \in Game /\ Types(p)
    /\ ~inputted[p] /\ inputted' = [inputted EXCEPT ![p] = TRUE]
    /\ untold' = [untold EXCEPT ![p] = nicknames[p] \intersect peers[p]]
    /\ Goes(p, "main", "send")
    /\ UNCHANGED <<life, network, nicknames, playerNbr, plays>>

Plays(p) ==
    /\ at[p]["main"] = "send"
    /\ wire' = SentTo(wire, p, peers[p], Rpc)
    /\ untold' = [untold EXCEPT ![p] = @ \ peers[p]]
    /\ Goes(p, "main", "check")
    /\ UNCHANGED <<life, peers, met, nicknames, inputted, playerNbr, plays, typed>>

\* m_plays.size() >= m_player_nbr - 1, unsigned: below 0 there is no end.
Enough(p) == playerNbr[p] >= 1 /\ plays[p] >= playerNbr[p] - 1

\* What input and rpc_received end with.  main() has set m_inputted itself.
Checks(p, t) ==
    /\ at[p][t] = "check"
    /\ \E enough \in Finds(p, t, Enough(p)), played \in IF t = "net" THEN Finds(p, t, inputted[p]) ELSE {TRUE} :
         Goes(p, t, IF enough /\ played THEN "turn" ELSE IF t = "net" THEN "late" ELSE "idle")
    /\ UNCHANGED <<life, network, nicknames, inputted, playerNbr, plays, untold, typed>>

\* next_turn, from the end of its loop
NextTurn(p, t) ==
    /\ \/ /\ at[p][t] = "turn"
          /\ inputted' = [inputted EXCEPT ![p] = FALSE]
          /\ untold' = [untold EXCEPT ![p] = {}]
          /\ Goes(p, t, "clear")
          /\ UNCHANGED plays
       \/ /\ at[p][t] = "clear"
          /\ plays' = [plays EXCEPT ![p] = 0]
          /\ Goes(p, t, "idle")
          /\ UNCHANGED <<inputted, untold>>
    /\ UNCHANGED <<life, network, nicknames, playerNbr, typed>>

\* rpc_received returns, and main() finds all it has written.
Returns(p) ==
    /\ at[p]["net"] = "late"
    /\ Goes(p, "net", "idle")
    /\ UNCHANGED <<life, network, nicknames, inputted, playerNbr, plays, untold, typed>>

\* /q, or a program that is killed while it reads a line, whatever its network
\* thread does: nothing is left of it but what it has sent.
Ends(p) ==
    /\ life[p] = "loop" /\ at[p]["main"] = "idle"
    /\ Cardinality({q \in Peer : life[q] = "over"}) < MaxEnds
    /\ life' = [life EXCEPT ![p] = "over"]
    /\ wire' = [x \in Peer |-> [y \in Peer |->
                  IF x = p /\ p \in peers[y] THEN Append(wire[p][y], Eof)
                  ELSE IF y = p THEN <<>> ELSE wire[x][y]]]
    /\ peers' = [peers EXCEPT ![p] = {}] /\ met' = [met EXCEPT ![p] = {}]
    /\ nicknames' = [nicknames EXCEPT ![p] = {}]
    /\ inputted' = [inputted EXCEPT ![p] = FALSE]
    /\ playerNbr' = [playerNbr EXCEPT ![p] = 1] /\ plays' = [plays EXCEPT ![p] = 0]
    /\ untold' = [untold EXCEPT ![p] = {}]
    /\ at' = [at EXCEPT ![p] = [t \in Thread |-> "idle"]]
    /\ UNCHANGED typed

Next == \E p \in Peer :
    \/ \E q \in Peer : Connected(p, q)
    \/ Greets(p) \/ Receive(p)
    \/ Says(p) \/ Input(p) \/ Plays(p)
    \/ \E t \in Thread : Checks(p, t) \/ NextTurn(p, t)
    \/ Returns(p) \/ Ends(p)

Spec == Init /\ [][Next]_vars

------------------------------------------------------------------------------
TypeOK ==
    /\ life \in [Peer -> {"loop", "over"}]
    /\ \A p \in Peer : met[p] \subseteq peers[p] /\ peers[p] \subseteq Peer \ {p}
    /\ nicknames \in [Peer -> SUBSET Peer]
    /\ inputted \in [Peer -> BOOLEAN]
    /\ playerNbr \in [Peer -> 1..Cardinality(Peer)]
    /\ plays \in [Peer -> 0..(2 * MaxTyped)]
    /\ untold \in [Peer -> SUBSET Peer]
    /\ at \in [Peer -> [Thread -> {"idle", "send", "check", "turn", "clear", "late"}]]
    /\ typed \in 0..MaxTyped

\* The game counts itself and those of its peers it has heard the name of, whoever
\* comes and goes, named or not; the chat remembers no other (connection_event,
\* name_received).
NamesCounted == \A p \in Peer : life[p] = "loop" =>
    IF p \in Game THEN playerNbr[p] = 1 + Cardinality(nicknames[p] \intersect peers[p])
                  ELSE nicknames[p] \subseteq peers[p]

\* When nothing is on its way, whoever is connected has told its name (the connection
\* listeners of both sides, name_received).
NamesSpread ==
    (\A p \in Peer : life[p] = "loop" => Waits(p) /\ \A q \in Peer : wire[q][p] = <<>>)
    => \A p \in Peer : peers[p] \subseteq nicknames[p]

\* Whoever plays tells all players it knows, also one whose name comes while the
\* choice is being sent: m_inputted is set before (input, on the main thread,
\* and name_received, on the network thread).
ChoiceTold == \A p \in Game :
    life[p] = "loop" /\ inputted[p] /\ at[p]["main"] # "send" => untold[p] \intersect peers[p] = {}

------------------------------------------------------------------------------
(* What the code does not live up to: see the README. *)

\* Once everybody has played, the turn ends, whichever of the two threads noticed
\* last, unless somebody has left (input and rpc_received, each of which looks).
NoStuckTurn == \A p \in Game :
    /\ life[p] = "loop" /\ \A t \in Thread : at[p][t] = "idle"
    /\ inputted[p] /\ Enough(p)
    => nicknames[p] \ peers[p] # {}
=============================================================================
