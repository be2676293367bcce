-------------------------- MODULE PeerManager_proof --------------------------
(***************************************************************************)
(* Proofs about PeerManager, for any number of instances, any reachability *)
(* and any bounds.                                                         *)
(*                                                                         *)
(* TypeOK /\ KeysAgree is inductive: a handler looks a peer up in m_peers  *)
(* and then uses the other two maps, which is only defined because their   *)
(* keys agreed before.  The two are therefore proved together.             *)
(***************************************************************************)
EXTENDS PeerManager, FiniteSetTheorems, SequenceTheorems, TLAPS

Inv == TypeOK /\ KeysAgree

------------------------------------------------------------------------------
(***************************************************************************)
(* The maps of one instance.                                               *)
(***************************************************************************)
LEMMA EmplaceMap ==
    ASSUME NEW S, NEW f, NEW g, IsMap(f, S), IsMap(g, S)
    PROVE  /\ IsMap(Emplace(f, g), S)
           /\ DOMAIN Emplace(f, g) = DOMAIN f \cup DOMAIN g
  BY DEF IsMap, Emplace

\* Replacing one instance's maps by maps that agree keeps all maps well typed
\* and in agreement.
LEMMA ReplaceMaps ==
    ASSUME MapsType, KeysAgree, NEW n \in Peer, NEW d, NEW p, NEW b,
           IsMap(d, Byte), IsMap(p, Ref), IsMap(b, Seq(Ref)),
           DOMAIN p = DOMAIN d, DOMAIN b = DOMAIN d,
           dist' = [dist EXCEPT ![n] = d],
           path' = [path EXCEPT ![n] = p],
           bridging' = [bridging EXCEPT ![n] = b],
           failed' \in [Peer -> Seq(Peer)]
    PROVE  MapsType' /\ KeysAgree'
  <1>1. /\ IsTotal(dist)' /\ IsTotal(path)' /\ IsTotal(bridging)'
    BY DEF MapsType, IsTotal
  <1>2. \A m \in Peer : /\ dist'[m] = IF m = n THEN d ELSE dist[m]
                        /\ path'[m] = IF m = n THEN p ELSE path[m]
                        /\ bridging'[m] = IF m = n THEN b ELSE bridging[m]
    BY DEF MapsType, IsTotal
  <1>3. \A m \in Peer : IsMap(dist'[m], Byte) /\ IsMap(path'[m], Ref) /\ IsMap(bridging'[m], Seq(Ref))
    BY <1>2 DEF MapsType
  <1>4. KeysAgree'
    BY <1>2 DEF KeysAgree, Known
  <1> QED
    BY <1>1, <1>3, <1>4 DEF MapsType

\* peer_connected keeps the three maps well typed and their keys the same.
LEMMA ConnectedMaps ==
    ASSUME MapsType, KeysAgree, NEW n \in Peer, NEW S \in SUBSET Peer,
           PeersConnected(n, S), failed' \in [Peer -> Seq(Peer)]
    PROVE  MapsType' /\ KeysAgree'
  <1> DEFINE newd == [q \in S |-> 0]
             newp == [q \in S |-> Live(q)]
             newb == [q \in S |-> <<>>]
             d == Emplace(dist[n], newd)
             p == Emplace(path[n], newp)
             b == Emplace(bridging[n], newb)
  <1>1. IsMap(dist[n], Byte) /\ IsMap(path[n], Ref) /\ IsMap(bridging[n], Seq(Ref))
    BY DEF MapsType
  <1>2. \A q \in S : Live(q) \in Ref
    BY DEF Live, Ref
  <1>3. IsMap(newd, Byte) /\ DOMAIN newd = S
    BY DEF IsMap, Byte
  <1>4. IsMap(newp, Ref) /\ DOMAIN newp = S
    BY <1>2 DEF IsMap
  <1>5. IsMap(newb, Seq(Ref)) /\ DOMAIN newb = S
    BY DEF IsMap
  <1>6. /\ dist' = [dist EXCEPT ![n] = d]
        /\ path' = [path EXCEPT ![n] = p]
        /\ bridging' = [bridging EXCEPT ![n] = b]
    BY DEF PeersConnected
  <1> HIDE DEF newd, newp, newb
  <1>7. /\ IsMap(d, Byte) /\ DOMAIN d = DOMAIN dist[n] \cup S
        /\ IsMap(p, Ref) /\ DOMAIN p = DOMAIN path[n] \cup S
        /\ IsMap(b, Seq(Ref)) /\ DOMAIN b = DOMAIN bridging[n] \cup S
    <2>1. IsMap(d, Byte) /\ DOMAIN d = DOMAIN dist[n] \cup S
      BY <1>1, <1>3, EmplaceMap, ZenonT(30)
    <2>2. IsMap(p, Ref) /\ DOMAIN p = DOMAIN path[n] \cup S
      BY <1>1, <1>4, EmplaceMap, ZenonT(30)
    <2>3. IsMap(b, Seq(Ref)) /\ DOMAIN b = DOMAIN bridging[n] \cup S
      BY <1>1, <1>5, EmplaceMap, ZenonT(30)
    <2> QED
      BY <2>1, <2>2, <2>3
  <1>8. DOMAIN p = DOMAIN d /\ DOMAIN b = DOMAIN d
    BY <1>7 DEF KeysAgree, Known
  <1> HIDE DEF d, p, b
  <1> QED
    BY <1>7, <1>8, <1>6, ReplaceMaps

\* peer_disconnected, which buries pointers, does too.
LEMMA DisconnectedMaps ==
    ASSUME MapsType, KeysAgree, NEW n \in Peer, NEW q \in Peer,
           PeerDisconnected(n, q), failed' \in [Peer -> Seq(Peer)]
    PROVE  MapsType' /\ KeysAgree'
  <1> DEFINE d == [r \in DOMAIN dist[n] \ {q} |-> dist[n][r]]
             p == [r \in DOMAIN path[n] \ {q} |-> Bury(path[n][r], q)]
             b == [r \in DOMAIN bridging[n] \ {q} |->
                      [i \in DOMAIN bridging[n][r] |-> Bury(bridging[n][r][i], q)]]
  <1>1. IsMap(dist[n], Byte) /\ IsMap(path[n], Ref) /\ IsMap(bridging[n], Seq(Ref))
    BY DEF MapsType
  <1>2. \A r \in Ref : Bury(r, q) \in Ref
    BY DEF Bury, Ref, Dead
  <1>3. \A s \in Seq(Ref) : [i \in DOMAIN s |-> Bury(s[i], q)] \in Seq(Ref)
    <2> SUFFICES ASSUME NEW s \in Seq(Ref)
                 PROVE  [i \in DOMAIN s |-> Bury(s[i], q)] \in Seq(Ref)
      OBVIOUS
    <2>1. Len(s) \in Nat /\ DOMAIN s = 1..Len(s) /\ \A i \in 1..Len(s) : s[i] \in Ref
      OBVIOUS
    <2>2. [i \in 1..Len(s) |-> Bury(s[i], q)] \in [1..Len(s) -> Ref]
      BY <1>2, <2>1
    <2> QED
      BY <2>1, <2>2
  <1>4. IsMap(d, Byte) /\ DOMAIN d = DOMAIN dist[n] \ {q}
    BY <1>1 DEF IsMap
  <1>5. IsMap(p, Ref) /\ DOMAIN p = DOMAIN path[n] \ {q}
    BY <1>1, <1>2 DEF IsMap
  <1>6. IsMap(b, Seq(Ref)) /\ DOMAIN b = DOMAIN bridging[n] \ {q}
    BY <1>1, <1>3 DEF IsMap
  <1>7. DOMAIN p = DOMAIN d /\ DOMAIN b = DOMAIN d
    BY <1>4, <1>5, <1>6 DEF KeysAgree, Known
  <1>8. /\ dist' = [dist EXCEPT ![n] = d]
        /\ path' = [path EXCEPT ![n] = p]
        /\ bridging' = [bridging EXCEPT ![n] = b]
    BY DEF PeerDisconnected
  <1> HIDE DEF d, p, b
  <1> QED
    BY <1>4, <1>5, <1>6, <1>7, <1>8, ReplaceMaps

\* A map without keys has any type.
LEMMA EmptyMap ==
    ASSUME NEW S PROVE IsMap(Empty, S) /\ DOMAIN Empty = {}
  BY DEF IsMap, Empty

\* The end of disconnect() keeps the maps well typed and their keys the same.
LEMMA ClearedMaps ==
    ASSUME MapsType, KeysAgree, NEW n \in Peer, ClearMaps(n)
    PROVE  MapsType' /\ KeysAgree'
  <1>1. failed' \in [Peer -> Seq(Peer)]
    BY DEF ClearMaps, MapsType
  <1> QED
    BY <1>1, EmptyMap, ReplaceMaps DEF ClearMaps

------------------------------------------------------------------------------
(***************************************************************************)
(* Commands and channels.                                                  *)
(***************************************************************************)
\* What handlers and calls send: anything but the end of a stream.
Sendable == {m \in Command : m.cmd # "eof"}

\* What each constructor of a command makes.
LEMMA Commands ==
    /\ Eof \in Command
    /\ RetrievePeers \in Sendable
    /\ \A S \in SUBSET Peer : PeersList(S) \in Sendable
    /\ \A p \in Peer : RetrieveDistance(p) \in Sendable /\ ForwardTo(p) \in Sendable
    /\ \A d \in Byte, p \in Peer :
          UpdateDistance(d, p) \in Sendable /\ ForwardingTo(d, p) \in Sendable
    /\ \A p \in Peer, i \in 1..MaxSent : ToAll(p, i) \in Sendable
    /\ \A p, q \in Peer, i \in 1..MaxSent : ToOne(p, q, i) \in Sendable
  <1>1. RetrievePeers \in Sendable /\ Eof \in Command
    BY DEF RetrievePeers, Eof, Command, Sendable
  <1>2. \A S \in SUBSET Peer : PeersList(S) \in Sendable
    BY DEF PeersList, Command, Sendable
  <1>3. \A p \in Peer : RetrieveDistance(p) \in Sendable /\ ForwardTo(p) \in Sendable
    BY DEF RetrieveDistance, ForwardTo, Command, Sendable
  <1>4. \A d \in Byte, p \in Peer :
          UpdateDistance(d, p) \in Sendable /\ ForwardingTo(d, p) \in Sendable
    BY DEF UpdateDistance, ForwardingTo, Command, Sendable
  <1>5. \A p \in Peer, i \in 1..MaxSent : ToAll(p, i) \in Sendable
    BY DEF ToAll, Command, Sendable
  <1>6. \A p, q \in Peer, i \in 1..MaxSent : ToOne(p, q, i) \in Sendable
    BY DEF ToOne, Command, Sendable
  <1> QED
    BY <1>1, <1>2, <1>3, <1>4, <1>5, <1>6

\* What a received command carries.
LEMMA Fields ==
    ASSUME NEW m \in Command
    PROVE  /\ m.cmd = "peers_list" => m.ids \in SUBSET Peer
           /\ m.cmd \in {"retrieve_distance", "forward_to"} => m.id \in Peer
           /\ m.cmd \in {"update_distance", "forwarding_to"} => m.id \in Peer /\ m.d \in Byte
           /\ m.cmd = "send_to_all" => m.origin \in Peer /\ m.no \in 1..MaxSent
           /\ m.cmd = "send_to" => m.sender \in Peer /\ m.target \in Peer /\ m.no \in 1..MaxSent
  BY DEF Command

Chans == [Peer -> [Peer -> Seq(Command)]]
Outs  == [Peer -> Seq(Sendable)]

\* A sequence of commands to send is one of commands.
LEMMA SendableSeq == Seq(Sendable) \subseteq Seq(Command)
  <1> SUFFICES ASSUME NEW q \in Seq(Sendable) PROVE q \in Seq(Command)
    OBVIOUS
  <1>1. Len(q) \in Nat /\ q \in [1..Len(q) -> Sendable]
    OBVIOUS
  <1>2. q \in [1..Len(q) -> Command]
    BY <1>1 DEF Sendable
  <1> QED
    BY <1>1, <1>2

\* The same commands to some peers and none to the others.
LEMMA ToOuts ==
    ASSUME NEW S, NEW cmds \in Seq(Sendable) PROVE To(S, cmds) \in Outs
  BY DEF To, Outs

\* Sending keeps the channels well typed.
LEMMA PostChans ==
    ASSUME NEW ch \in Chans, NEW n \in Peer, NEW out \in Outs
    PROVE  Post(ch, n, out) \in Chans
  <1>1. \A p \in Peer : ch[n][p] \in Seq(Command) /\ out[p] \in Seq(Command)
    BY SendableSeq DEF Chans, Outs
  <1>2. \A p \in Peer : ch[n][p] \o out[p] \in Seq(Command)
    BY <1>1
  <1>3. [p \in Peer |-> IF Linked(n, p) THEN ch[n][p] \o out[p] ELSE ch[n][p]]
          \in [Peer -> Seq(Command)]
    BY <1>1, <1>2
  <1> QED
    BY <1>3 DEF Post, Chans

\* Taking a command from its channel does too.
LEMMA TakenChans ==
    ASSUME chan \in Chans, NEW s \in Peer, NEW n \in Peer, chan[s][n] # <<>>
    PROVE  Taken(s, n) \in Chans
  <1>1. chan[s][n] \in Seq(Command)
    BY DEF Chans
  <1>2. Tail(chan[s][n]) \in Seq(Command)
    BY <1>1
  <1> QED
    BY <1>2 DEF Taken, Chans

\* And so does a handler, which takes one and sends some.
LEMMA ReplyNet ==
    ASSUME NetType, NEW n \in Peer, NEW s \in Peer, chan[s][n] # <<>>,
           NEW out \in Outs, Reply(n, s, out)
    PROVE  NetType'
  <1>1. Taken(s, n) \in Chans
    BY TakenChans DEF NetType, Chans
  <1>2. chan' \in Chans
    BY <1>1, PostChans DEF Reply
  <1> QED
    BY <1>2 DEF Reply, NetType, Chans

\* The command at the head of a channel has the type of a command.
LEMMA HeadType ==
    ASSUME NetType, NEW n \in Peer, NEW s \in Peer, NEW c, Receives(n, s, c)
    PROVE  /\ Head(chan[s][n]) \in Command /\ Head(chan[s][n]).cmd = c
           /\ chan[s][n] # <<>> /\ s \in Known(n)
  <1>1. chan[s][n] \in Seq(Command) /\ chan[s][n] # <<>>
    BY DEF NetType, Receives
  <1> QED
    BY <1>1 DEF Receives

\* What is read of a closed queue: its beginning, then the end of the stream.
LEMMA EndingsTold ==
    ASSUME NEW queue \in Seq(Command), NEW last \in Endings(queue)
    PROVE  \E told \in Seq(Command) :
              /\ last = Append(told, Eof) /\ Len(told) <= Len(queue)
              /\ \A i \in 1..Len(told) : told[i] = queue[i]
  <1>1. PICK k \in 0..Len(queue) : last = Append(SubSeq(queue, 1, k), Eof)
    BY DEF Endings, Prefixes
  <1>2. /\ SubSeq(queue, 1, k) \in Seq(Command) /\ Len(SubSeq(queue, 1, k)) = k
        /\ \A i \in 1..k : SubSeq(queue, 1, k)[i] = queue[i]
    <2>1. k \in Nat /\ Len(queue) \in Nat /\ k <= Len(queue)
      BY <1>1, LenProperties
    <2> QED
      BY <2>1
  <1> DEFINE told == SubSeq(queue, 1, k)
  <1>3. k \in Nat /\ k <= Len(queue)
    BY <1>1, LenProperties
  <1>4. /\ told \in Seq(Command) /\ last = Append(told, Eof) /\ Len(told) = k
        /\ \A i \in 1..k : told[i] = queue[i]
    BY <1>1, <1>2
  <1> HIDE DEF told
  <1> QED
    BY <1>3, <1>4

\* The end of a stream is a command like the others.
LEMMA EndingsType ==
    ASSUME NEW queue \in Seq(Command), NEW last \in Endings(queue)
    PROVE  last \in Seq(Command)
  <1>1. PICK told \in Seq(Command) : last = Append(told, Eof)
    BY EndingsTold
  <1> QED
    BY <1>1, Commands

\* Every queue of n that somebody listens to ends, the others are untouched.
LEMMA ClosedLines ==
    ASSUME NEW n \in Peer, CloseAll(n)
    PROVE  /\ open' = {e \in open : e[1] # n}
           /\ \A x, y \in Peer :
                /\ y = n => chan'[x][y] = <<>>
                /\ y # n /\ x = n /\ Linked(n, y) => chan'[x][y] \in Endings(chan[n][y])
                /\ y # n /\ ~(x = n /\ Linked(n, y)) => chan'[x][y] = chan[x][y]
           /\ chan' = [x \in Peer |-> [y \in Peer |-> chan'[x][y]]]
  <1>1. PICK last \in [Peer -> UNION {Endings(chan[n][b]) : b \in Peer}] :
          /\ \A b \in Peer : last[b] \in Endings(chan[n][b])
          /\ chan' = [x \in Peer |-> [y \in Peer |->
                CASE y = n -> <<>>
                  [] x = n /\ y # n /\ Linked(n, y) -> last[y]
                  [] OTHER -> chan[x][y]]]
    BY DEF CloseAll
  <1>2. \A x, y \in Peer :
          chan'[x][y] = CASE y = n -> <<>>
                          [] x = n /\ y # n /\ Linked(n, y) -> last[y]
                          [] OTHER -> chan[x][y]
    BY <1>1
  <1>3. chan' = [x \in Peer |-> [y \in Peer |-> chan'[x][y]]]
    BY <1>1, <1>2
  <1> QED
    BY <1>1, <1>2, <1>3 DEF CloseAll

\* Closing every socket of an instance does too.
LEMMA ClosedNet ==
    ASSUME NetType, NEW n \in Peer, CloseAll(n)
    PROVE  NetType'
  <1>1. open' \subseteq Peer \X Peer
    BY ClosedLines DEF NetType
  <1>2. ASSUME NEW x \in Peer, NEW y \in Peer PROVE chan'[x][y] \in Seq(Command)
    <2>1. chan[n][y] \in Seq(Command) /\ chan[x][y] \in Seq(Command)
      BY DEF NetType
    <2>2. <<>> \in Seq(Command)
      OBVIOUS
    <2>3. \A last \in Endings(chan[n][y]) : last \in Seq(Command)
      BY <2>1, EndingsType
    <2>4. \/ chan'[x][y] = <<>>
          \/ chan'[x][y] \in Endings(chan[n][y])
          \/ chan'[x][y] = chan[x][y]
      BY ClosedLines, Zenon
    <2> QED
      BY <2>1, <2>2, <2>3, <2>4
  <1>3. chan' \in Chans
    BY <1>2, ClosedLines DEF Chans
  <1> QED
    BY <1>1, <1>3 DEF NetType, Chans

\* A process that dies leaves well-typed state behind.
LEMMA DeathType ==
    ASSUME TypeOK, KeysAgree, NEW n \in Peer, Die(n)
    PROVE  NodeType' /\ MapsType' /\ NetType' /\ KeysAgree'
  <1>1. NodeType'
    BY DEF Die, TypeOK, NodeType, Phase
  <1>2. MapsType' /\ KeysAgree'
    BY ClearedMaps DEF Die, TypeOK
  <1>3. NetType'
    BY ClosedNet DEF Die, TypeOK
  <1> QED
    BY <1>1, <1>2, <1>3

\* Steps that leave a part of the state alone keep its type.
LEMMA SameMaps ==
    ASSUME MapsType, KeysAgree, UNCHANGED maps PROVE MapsType' /\ KeysAgree'
  BY DEF maps, MapsType, IsTotal, IsMap, KeysAgree, Known

\* See SameMaps.
LEMMA SameNode == ASSUME NodeType, UNCHANGED node PROVE NodeType'
  BY DEF node, NodeType
\* See SameMaps.
LEMMA SameNet == ASSUME NetType, UNCHANGED net PROVE NetType'
  BY DEF net, NetType
\* See SameMaps.
LEMMA SameData == ASSUME DataType, UNCHANGED data PROVE DataType'
  BY DEF data, DataType

------------------------------------------------------------------------------
(***************************************************************************)
(* One lemma per action, or per group of actions that change the same.     *)
(***************************************************************************)
LEMMA InitInv == Init => Inv
  <1> SUFFICES ASSUME Init PROVE Inv
    OBVIOUS
  <1>1. NodeType
    BY DEF Init, NodeType, Phase
  <1>2. MapsType /\ KeysAgree
    BY EmptyMap DEF Init, MapsType, IsTotal, KeysAgree, Known
  <1>3. NetType
    BY DEF Init, NetType
  <1>4. DataType
    BY BoundAssumption DEF Init, DataType
  <1> QED
    BY <1>1, <1>2, <1>3, <1>4 DEF Inv, TypeOK

\* Steps of connect(), try_connect and peers_list_handler that only move the
\* thread along.
LEMMA ThreadSteps ==
    ASSUME Inv, NEW n \in Peer, NEW t \in Peer,
           Awake(n) \/ Connect(n, t) \/ JoinFails(n) \/ ScanDial(n, t) \/ ScanConnects(n)
    PROVE  Inv'
  <1>1. UNCHANGED <<maps, net, data>>
    BY DEF Awake, Connect, JoinFails, ScanDial, ScanConnects
  <1>2. MapsType' /\ KeysAgree' /\ NetType' /\ DataType'
    BY <1>1, SameMaps, SameNet, SameData DEF Inv, TypeOK
  <1>3. NodeType'
    <2>0. NodeType
      BY DEF Inv, TypeOK
    <2>1. CASE Awake(n)
      BY <2>0, <2>1 DEF Awake, NodeType, Phase
    <2>2. CASE Connect(n, t)
      BY <2>0, <2>2 DEF Connect, NodeType, Phase
    <2>3. CASE JoinFails(n)
      BY <2>0, <2>3 DEF JoinFails, HangUp, NodeType, Phase
    <2>4. CASE ScanDial(n, t)
      BY <2>0, <2>4 DEF ScanDial, NodeType, Phase
    <2>5. CASE ScanConnects(n)
      <3>1. dial[n] \in Peer
        BY <2>0, <2>5 DEF ScanConnects, NodeType
      <3> QED
        BY <2>0, <2>5, <3>1 DEF ScanConnects, HangUp, NodeType, Phase
    <2> QED
      BY <2>1, <2>2, <2>3, <2>4, <2>5
  <1> QED
    BY <1>2, <1>3 DEF Inv, TypeOK

\* try_connect adds the peer it connected to and asks for its list.
LEMMA JoinSucceedsInv ==
    ASSUME Inv, NEW n \in Peer, JoinSucceeds(n) PROVE Inv'
  <1>0. NodeType /\ MapsType /\ KeysAgree /\ NetType /\ DataType
    BY DEF Inv, TypeOK
  <1>1. dial[n] \in Peer
    BY <1>0 DEF JoinSucceeds, NodeType
  <1>2. NodeType'
    BY <1>0 DEF JoinSucceeds, HangUp, NodeType, Phase
  <1>3. MapsType' /\ KeysAgree'
    <2>1. failed' \in [Peer -> Seq(Peer)]
      BY <1>0 DEF JoinSucceeds, MapsType
    <2>2. PeersConnected(n, {dial[n]}) /\ {dial[n]} \in SUBSET Peer
      BY <1>1 DEF JoinSucceeds
    <2> QED
      BY <1>0, <2>1, <2>2, ConnectedMaps
  <1>4. NetType'
    <2>1. <<RetrievePeers>> \in Seq(Sendable)
      BY Commands
    <2>2. chan' \in Chans
      BY <1>0, <2>1, ToOuts, PostChans DEF JoinSucceeds, NetType, Chans
    <2> QED
      BY <1>0, <2>2 DEF JoinSucceeds, NetType, Chans
  <1>5. DataType'
    BY <1>0, SameData DEF JoinSucceeds
  <1> QED
    BY <1>2, <1>3, <1>4, <1>5 DEF Inv, TypeOK

\* accept, answering connection_accepted or connection_refused.
LEMMA AcceptInv ==
    ASSUME Inv, NEW n \in Peer, NEW d \in Peer, Accept(n, d) PROVE Inv'
  <1>0. NodeType /\ MapsType /\ KeysAgree /\ NetType /\ DataType
    BY DEF Inv, TypeOK
  <1>1. NodeType'
    BY <1>0 DEF Accept, NodeType
  <1>2. MapsType' /\ KeysAgree'
    <2>1. CASE UNCHANGED maps
      BY <1>0, <2>1, SameMaps
    <2>2. CASE PeersConnected(n, {d}) /\ UNCHANGED failed
      <3>1. failed' \in [Peer -> Seq(Peer)]
        BY <1>0, <2>2 DEF MapsType
      <3> QED
        BY <1>0, <2>2, <3>1, ConnectedMaps
    <2> QED
      BY <2>1, <2>2 DEF Accept
  <1>3. NetType'
    BY <1>0 DEF Accept, net, NetType
  <1>4. DataType'
    BY <1>0, SameData DEF Accept
  <1> QED
    BY <1>1, <1>2, <1>3, <1>4 DEF Inv, TypeOK

\* disconnect().
LEMMA LeaveInv ==
    ASSUME Inv, NEW n \in Peer, Leave(n) PROVE Inv'
  <1>1. NodeType'
    BY DEF Inv, TypeOK, Leave, NodeType, Phase
  <1>2. MapsType' /\ KeysAgree'
    BY ClearedMaps DEF Inv, TypeOK, Leave
  <1>3. NetType'
    BY ClosedNet DEF Inv, TypeOK, Leave
  <1>4. DataType'
    BY SameData DEF Inv, TypeOK, Leave
  <1> QED
    BY <1>1, <1>2, <1>3, <1>4 DEF Inv, TypeOK

\* A process that is killed.
LEMMA CrashInv ==
    ASSUME Inv, NEW n \in Peer, Crash(n) PROVE Inv'
  BY DeathType, SameData DEF Inv, TypeOK, Crash

\* timeout_impl.
LEMMA TimeoutInv ==
    ASSUME Inv, NEW n \in Peer, NEW p \in Peer, Timeout(n, p) PROVE Inv'
  <1>1. NodeType' /\ MapsType' /\ KeysAgree' /\ DataType'
    BY SameNode, SameMaps, SameData DEF Inv, TypeOK, Timeout
  <1>2. chan[n][p] \in Seq(Command)
    BY DEF Inv, TypeOK, NetType
  <1>3. NetType'
    <2> DEFINE emptied == [chan EXCEPT ![p][n] = <<>>]
    <2>1. PICK last \in IF <<p, n>> \in open THEN Endings(chan[n][p]) ELSE {chan[n][p]} :
            chan' = [emptied EXCEPT ![n][p] = last]
      BY DEF Timeout
    <2>2. last \in Seq(Command)
      BY <1>2, <2>1, EndingsType
    <2>3. emptied \in Chans
      BY DEF Inv, TypeOK, NetType, Chans
    <2> HIDE DEF emptied
    <2>4. chan' \in Chans
      BY <2>1, <2>2, <2>3 DEF Chans
    <2>5. open' \subseteq Peer \X Peer
      BY DEF Inv, TypeOK, NetType, Timeout
    <2> QED
      BY <2>4, <2>5 DEF NetType, Chans
  <1> QED
    BY <1>1, <1>3 DEF Inv, TypeOK

\* send_to_all.
LEMMA SendToAllInv ==
    ASSUME Inv, NEW n \in Peer, SendToAll(n) PROVE Inv'
  <1>1. NodeType' /\ MapsType' /\ KeysAgree'
    BY SameNode, SameMaps DEF Inv, TypeOK, SendToAll
  <1>2. sent[n] + 1 \in 1..MaxSent
    BY BoundAssumption DEF Inv, TypeOK, DataType, SendToAll
  <1>3. DataType'
    BY <1>2, BoundAssumption DEF Inv, TypeOK, DataType, SendToAll
  <1>4. <<ToAll(n, sent[n] + 1)>> \in Seq(Sendable)
    BY <1>2, Commands
  <1>5. chan' \in Chans
    BY <1>4, ToOuts, PostChans DEF Inv, TypeOK, NetType, SendToAll, Chans
  <1>6. NetType'
    BY <1>5 DEF Inv, TypeOK, NetType, SendToAll, Chans
  <1> QED
    BY <1>1, <1>3, <1>6 DEF Inv, TypeOK

\* send_to, along a path that may be dead.
LEMMA SendToInv ==
    ASSUME Inv, NEW n \in Peer, NEW p \in Peer, SendTo(n, p) PROVE Inv'
  <1>0. NodeType /\ MapsType /\ KeysAgree /\ NetType /\ DataType
    BY DEF Inv, TypeOK
  <1>1. sent[n] + 1 \in 1..MaxSent
    BY <1>0, BoundAssumption DEF DataType, SendTo
  <1>2. DataType'
    BY <1>0, <1>1, BoundAssumption DEF DataType, SendTo
  <1>3. <<ToOne(n, p, sent[n] + 1)>> \in Seq(Sendable)
    BY <1>1, Commands
  <1>4. CASE UNCHANGED <<node, maps, net>>
    BY <1>0, <1>2, <1>4, SameNode, SameMaps, SameNet DEF Inv, TypeOK
  <1>5. CASE /\ chan' = Post(chan, n, To({path[n][p].to}, <<ToOne(n, p, sent[n] + 1)>>))
             /\ UNCHANGED <<node, maps, open>>
    <2>1. chan' \in Chans
      BY <1>0, <1>3, <1>5, ToOuts, PostChans DEF NetType, Chans
    <2>2. NetType'
      BY <1>0, <1>5, <2>1 DEF NetType, Chans
    <2> QED
      BY <1>0, <1>2, <1>5, <2>2, SameNode, SameMaps DEF Inv, TypeOK
  <1>6. CASE Die(n)
    BY <1>2, <1>6, DeathType DEF Inv, TypeOK
  <1> QED
    BY <1>4, <1>5, <1>6 DEF SendTo

\* peers_list_handler keeps a failed connection.
LEMMA ScanFailsInv ==
    ASSUME Inv, NEW n \in Peer, ScanFails(n) PROVE Inv'
  <1>0. NodeType /\ MapsType /\ KeysAgree /\ NetType /\ DataType
    BY DEF Inv, TypeOK
  <1>1. dial[n] \in Peer
    BY <1>0 DEF ScanFails, NodeType
  <1>2. NodeType'
    BY <1>0 DEF ScanFails, HangUp, NodeType
  <1>3. NetType' /\ DataType'
    BY <1>0, SameNet, SameData DEF ScanFails
  <1>4. failed' \in [Peer -> Seq(Peer)]
    BY <1>0, <1>1 DEF ScanFails, MapsType
  <1>5. MapsType' /\ KeysAgree'
    BY <1>0, <1>4 DEF ScanFails, MapsType, IsTotal, IsMap, KeysAgree, Known
  <1> QED
    BY <1>2, <1>3, <1>5 DEF Inv, TypeOK

\* What is asked for the failed connections.
LEMMA AskedSeq ==
    ASSUME MapsType, NEW n \in Peer
    PROVE  [i \in DOMAIN failed[n] |-> RetrieveDistance(failed[n][i])] \in Seq(Sendable)
  <1>1. failed[n] \in Seq(Peer)
    BY DEF MapsType
  <1>2. Len(failed[n]) \in Nat /\ DOMAIN failed[n] = 1..Len(failed[n])
    BY <1>1
  <1>3. \A i \in 1..Len(failed[n]) : RetrieveDistance(failed[n][i]) \in Sendable
    BY <1>1, Commands
  <1> QED
    BY <1>2, <1>3

\* peers_list_handler adds what it connected to and asks for the rest.
LEMMA ScanEndsInv ==
    ASSUME Inv, NEW n \in Peer, ScanEnds(n) PROVE Inv'
  <1>0. NodeType /\ MapsType /\ KeysAgree /\ NetType /\ DataType
    BY DEF Inv, TypeOK
  <1>1. NodeType'
    BY <1>0 DEF ScanEnds, NodeType, Phase
  <1>2. MapsType' /\ KeysAgree'
    <2>1. failed' \in [Peer -> Seq(Peer)] /\ got[n] \in SUBSET Peer
      BY <1>0 DEF ScanEnds, MapsType, NodeType
    <2> QED
      BY <1>0, <2>1, ConnectedMaps DEF ScanEnds
  <1>3. [i \in DOMAIN failed[n] |-> RetrieveDistance(failed[n][i])] \in Seq(Sendable)
    BY <1>0, AskedSeq
  <1>4. NetType'
    <2> DEFINE asked == [i \in DOMAIN failed[n] |-> RetrieveDistance(failed[n][i])]
               all == Direct(n) \cup got[n]
    <2>1. chan' = Post(chan, n, To(all, asked))
      BY DEF ScanEnds
    <2>2. asked \in Seq(Sendable)
      BY <1>3
    <2> HIDE DEF asked, all
    <2>3. chan' \in Chans
      BY <1>0, <2>1, <2>2, ToOuts, PostChans DEF NetType, Chans
    <2> QED
      BY <1>0, <2>3 DEF ScanEnds, NetType, Chans
  <1>5. DataType'
    BY <1>0, SameData DEF ScanEnds
  <1> QED
    BY <1>1, <1>2, <1>4, <1>5 DEF Inv, TypeOK

------------------------------------------------------------------------------
(***************************************************************************)
(* The handlers.                                                           *)
(***************************************************************************)
\* What most handlers come down to: commands are sent and no peer comes or
\* goes, or the process dies.
KeysKept == \A m \in Peer : DOMAIN dist'[m] = DOMAIN dist[m]
Answers(n, s) == Die(n) \/ (KeysKept /\ \E out \in Outs : Reply(n, s, out))

\* An instance that dies answers nothing.
LEMMA DyingAnswers == ASSUME NEW n, NEW s, Die(n) PROVE Answers(n, s)
  BY DEF Answers

\* process_read at the end of a stream.
LEMMA HandleEofInv ==
    ASSUME Inv, NEW n \in Peer, NEW s \in Peer, HandleEof(n, s) PROVE Inv'
  <1>0. NodeType /\ MapsType /\ KeysAgree /\ NetType /\ DataType
    BY DEF Inv, TypeOK
  <1>1. NodeType' /\ DataType'
    BY <1>0, SameNode, SameData DEF HandleEof
  <1>2. MapsType' /\ KeysAgree'
    <2>1. failed' \in [Peer -> Seq(Peer)]
      BY <1>0 DEF HandleEof, MapsType
    <2> QED
      BY <1>0, <2>1, DisconnectedMaps DEF HandleEof
  <1>3. chan' \in Chans
    BY <1>0, HeadType, TakenChans DEF HandleEof, NetType, Chans
  <1>4. NetType'
    BY <1>0, <1>3 DEF HandleEof, NetType, Chans
  <1> QED
    BY <1>1, <1>2, <1>4 DEF Inv, TypeOK

\* retrieve_peers_handler.
LEMMA HandleRetrievePeersInv ==
    ASSUME Inv, NEW n \in Peer, NEW s \in Peer, HandleRetrievePeers(n, s) PROVE Inv' /\ Answers(n, s)
  <1>0. NodeType /\ MapsType /\ KeysAgree /\ NetType /\ DataType
    BY DEF Inv, TypeOK
  <1>1. NodeType' /\ MapsType' /\ KeysAgree' /\ DataType'
    BY <1>0, SameNode, SameMaps, SameData DEF HandleRetrievePeers, Reply
  <1>2. <<PeersList(Known(n))>> \in Seq(Sendable)
    BY <1>0, Commands DEF MapsType, IsMap, Known
  <1>3. NetType'
    BY <1>0, <1>2, HeadType, ToOuts, ReplyNet DEF HandleRetrievePeers
  <1>4. Answers(n, s)
    BY <1>2, ToOuts DEF HandleRetrievePeers, maps, Answers, KeysKept
  <1> QED
    BY <1>1, <1>3, <1>4 DEF Inv, TypeOK

\* peers_list_handler, up to its loop.
LEMMA HandlePeersListInv ==
    ASSUME Inv, NEW n \in Peer, NEW s \in Peer, HandlePeersList(n, s) PROVE Inv'
  <1>0. NodeType /\ MapsType /\ KeysAgree /\ NetType /\ DataType
    BY DEF Inv, TypeOK
  <1>1. Head(chan[s][n]).ids \in SUBSET Peer /\ chan[s][n] # <<>>
    BY <1>0, HeadType, Fields DEF HandlePeersList
  <1>2. NodeType'
    BY <1>0, <1>1 DEF HandlePeersList, NodeType, Phase
  <1>3. MapsType' /\ KeysAgree' /\ DataType'
    BY <1>0, SameMaps, SameData DEF HandlePeersList
  <1>4. chan' \in Chans
    BY <1>0, <1>1, TakenChans DEF HandlePeersList, NetType, Chans
  <1>5. NetType'
    BY <1>0, <1>4 DEF HandlePeersList, NetType, Chans
  <1> QED
    BY <1>2, <1>3, <1>5 DEF Inv, TypeOK

\* retrieve_distance_handler.
LEMMA HandleRetrieveDistanceInv ==
    ASSUME Inv, NEW n \in Peer, NEW s \in Peer, HandleRetrieveDistance(n, s) PROVE Inv' /\ Answers(n, s)
  <1>0. NodeType /\ MapsType /\ KeysAgree /\ NetType /\ DataType
    BY DEF Inv, TypeOK
  <1> DEFINE id == Head(chan[s][n]).id
  <1>1. id \in Peer /\ chan[s][n] # <<>>
    BY <1>0, HeadType, Fields DEF HandleRetrieveDistance
  <1>2. DataType'
    BY <1>0, SameData DEF HandleRetrieveDistance
  <1>3. CASE id \in Known(n) /\ UNCHANGED maps /\ Reply(n, s, To({s}, <<UpdateDistance(dist[n][id], id)>>))
    <2>1. dist[n][id] \in Byte
      BY <1>0, <1>3 DEF MapsType, IsMap, Known
    <2>2. <<UpdateDistance(dist[n][id], id)>> \in Seq(Sendable)
      BY <1>1, <2>1, Commands
    <2>3. NetType'
      BY <1>0, <1>1, <1>3, <2>2, ToOuts, ReplyNet
    <2>4. NodeType'
      BY <1>0, <1>3, SameNode DEF Reply
    <2>5. Answers(n, s)
      BY <1>3, <2>2, ToOuts DEF maps, Answers, KeysKept
    <2> QED
      BY <1>0, <1>2, <1>3, <2>3, <2>4, <2>5, SameMaps DEF Inv, TypeOK
  <1>4. CASE Die(n)
    BY <1>2, <1>4, DeathType, DyingAnswers DEF Inv, TypeOK
  <1> QED
    BY <1>3, <1>4 DEF HandleRetrieveDistance

\* A distance received and incremented still fits in a byte.
LEMMA NextDistance ==
    ASSUME NEW e \in Byte PROVE (e + 1) % 256 \in Byte
  BY DEF Byte

\* update_distance_handler: forward_to and the distances passed on.
LEMMA HandleUpdateDistanceInv ==
    ASSUME Inv, NEW n \in Peer, NEW s \in Peer, HandleUpdateDistance(n, s) PROVE Inv' /\ Answers(n, s)
  <1>0. NodeType /\ MapsType /\ KeysAgree /\ NetType /\ DataType
    BY DEF Inv, TypeOK
  <1> DEFINE m == Head(chan[s][n])
             d == (m.d + 1) % 256
  <1>1. m.id \in Peer /\ d \in Byte /\ chan[s][n] # <<>>
    <2>1. m.id \in Peer /\ m.d \in Byte /\ chan[s][n] # <<>>
      BY <1>0, HeadType, Fields, Zenon DEF HandleUpdateDistance
    <2> QED
      BY <2>1, NextDistance
  <1>2. MapsType' /\ KeysAgree' /\ DataType'
    BY <1>0, SameMaps, SameData, Zenon DEF HandleUpdateDistance
  <1>3. PICK whole \in BOOLEAN :
          LET better == whole /\ \/ m.id \in Known(n) /\ dist[n][m.id] > d
                                 \/ m.id \notin Known(n) /\ Contains(failed[n], m.id)
          IN  Reply(n, s, [p \in Peer |->
                (IF better /\ p = s THEN <<ForwardTo(m.id)>> ELSE <<>>) \o
                (IF better /\ p \in Direct(n) THEN <<UpdateDistance(d, m.id)>> ELSE <<>>)])
    BY Zenon DEF HandleUpdateDistance
  <1> DEFINE better == whole /\ \/ m.id \in Known(n) /\ dist[n][m.id] > d
                                \/ m.id \notin Known(n) /\ Contains(failed[n], m.id)
             first(p) == IF better /\ p = s THEN <<ForwardTo(m.id)>> ELSE <<>>
             second(p) == IF better /\ p \in Direct(n) THEN <<UpdateDistance(d, m.id)>> ELSE <<>>
             out == [p \in Peer |-> first(p) \o second(p)]
  <1>4. Reply(n, s, out)
    BY <1>3, Zenon
  <1>5. \A p \in Peer : first(p) \in Seq(Sendable) /\ second(p) \in Seq(Sendable)
    BY <1>1, Commands
  <1> HIDE DEF first, second
  <1>6. out \in Outs
    BY <1>5 DEF Outs
  <1> HIDE DEF out
  <1>7. NetType'
    BY <1>0, <1>1, <1>4, <1>6, ReplyNet
  <1>8. NodeType'
    BY <1>0, <1>4, SameNode DEF Reply
  <1>9. Answers(n, s)
    BY <1>4, <1>6, Zenon DEF HandleUpdateDistance, maps, Answers, KeysKept
  <1> QED
    BY <1>2, <1>7, <1>8, <1>9 DEF Inv, TypeOK

\* forward_to pushes a pointer into the bridging lists of both ends.
LEMMA HandleForwardToInv ==
    ASSUME Inv, NEW n \in Peer, NEW s \in Peer, HandleForwardTo(n, s) PROVE Inv' /\ Answers(n, s)
  <1>0. NodeType /\ MapsType /\ KeysAgree /\ NetType /\ DataType
    BY DEF Inv, TypeOK
  <1> DEFINE id == Head(chan[s][n]).id
             out == [p \in Peer |->
                CASE p = id -> <<ForwardingTo(0, s)>>
                  [] p = s -> <<ForwardingTo(dist[n][id], id)>>
                  [] OTHER -> <<>>]
             b == [p \in DOMAIN bridging[n] |->
                bridging[n][p] \o (IF p = id THEN <<Dead(s)>> ELSE <<>>)
                               \o (IF p = s THEN <<Live(id)>> ELSE <<>>)]
  <1>1. id \in Peer /\ chan[s][n] # <<>> /\ s \in Known(n)
    BY <1>0, HeadType, Fields, Zenon DEF HandleForwardTo
  <1>2. DataType'
    BY <1>0, SameData, Zenon DEF HandleForwardTo
  <1>3. CASE /\ id \in Known(n)
             /\ bridging' = [bridging EXCEPT ![n] = b]
             /\ Reply(n, s, out)
             /\ UNCHANGED <<dist, path, failed>>
    <2>1. bridging' = [bridging EXCEPT ![n] = b]
      BY <1>3
    <2>2. IsMap(bridging[n], Seq(Ref)) /\ IsMap(dist[n], Byte) /\ IsMap(path[n], Ref)
      BY <1>0 DEF MapsType
    <2>3. /\ DOMAIN bridging[n] = DOMAIN dist[n] /\ DOMAIN path[n] = DOMAIN dist[n]
          /\ id \in DOMAIN dist[n]
      BY <1>0, <1>3 DEF KeysAgree, Known
    <2>4. Dead(s) \in Ref /\ Live(id) \in Ref
      BY <1>1 DEF Dead, Live, Ref
    <2>5. \A q \in Seq(Ref), x, y \in Seq(Ref) : q \o x \o y \in Seq(Ref)
      OBVIOUS
    <2>6. IsMap(b, Seq(Ref)) /\ DOMAIN b = DOMAIN bridging[n]
      BY <2>2, <2>4, <2>5 DEF IsMap
    <2>7. /\ dist' = [dist EXCEPT ![n] = dist[n]]
          /\ path' = [path EXCEPT ![n] = path[n]]
      BY <1>0, <1>3 DEF MapsType, IsTotal
    <2>8. failed' \in [Peer -> Seq(Peer)]
      BY <1>0, <1>3 DEF MapsType
    <2> HIDE DEF b
    <2>9. MapsType' /\ KeysAgree'
      BY <1>0, <2>1, <2>2, <2>3, <2>6, <2>7, <2>8, ReplaceMaps
    <2>10. dist[n][id] \in Byte /\ 0 \in Byte
      <3>1. dist[n][id] \in Byte
        BY <2>2, <2>3 DEF IsMap
      <3>2. 0 \in Byte
        BY DEF Byte
      <3> QED
        BY <3>1, <3>2
    <2>11. out \in Outs
      <3>1. <<ForwardingTo(0, s)>> \in Seq(Sendable) /\ <<ForwardingTo(dist[n][id], id)>> \in Seq(Sendable)
        BY <1>1, <2>10, Commands
      <3> QED
        BY <3>1 DEF Outs
    <2> HIDE DEF out
    <2>12. NetType' /\ NodeType'
      BY <1>0, <1>1, <1>3, <2>11, ReplyNet, SameNode DEF Reply
    <2>13. Answers(n, s)
      BY <1>3, <2>11 DEF Answers, KeysKept
    <2> QED
      BY <1>2, <2>9, <2>12, <2>13 DEF Inv, TypeOK
  <1>4. CASE Die(n)
    BY <1>2, <1>4, DeathType, DyingAnswers DEF Inv, TypeOK
  <1> QED
    BY <1>3, <1>4, Zenon DEF HandleForwardTo

\* forwarding_to_handler: the path and the distance of a bridged peer.
LEMMA HandleForwardingToInv ==
    ASSUME Inv, NEW n \in Peer, NEW s \in Peer, HandleForwardingTo(n, s) PROVE Inv' /\ Answers(n, s)
  <1>0. NodeType /\ MapsType /\ KeysAgree /\ NetType /\ DataType
    BY DEF Inv, TypeOK
  <1> DEFINE m == Head(chan[s][n])
             e == (m.d + 1) % 256
             p == [path[n] EXCEPT ![m.id] = Dead(s), ![s] = Live(m.id)]
             d == [dist[n] EXCEPT ![m.id] = e]
  <1>1. m.id \in Peer /\ e \in Byte /\ chan[s][n] # <<>> /\ s \in Known(n)
    <2>1. m.id \in Peer /\ m.d \in Byte /\ chan[s][n] # <<>> /\ s \in Known(n)
      BY <1>0, HeadType, Fields DEF HandleForwardingTo
    <2> QED
      BY <2>1, NextDistance
  <1>2. DataType'
    BY <1>0, SameData DEF HandleForwardingTo
  <1>3. ASSUME Reply(n, s, To({}, <<>>)) PROVE NetType' /\ NodeType' /\ (KeysKept => Answers(n, s))
    <2>1. <<>> \in Seq(Sendable)
      OBVIOUS
    <2> QED
      BY <1>0, <1>1, <1>3, <2>1, ToOuts, ReplyNet, SameNode DEF Reply, Answers
  <1>4. CASE /\ m.id \in Known(n)
             /\ path' = [path EXCEPT ![n] = p]
             /\ dist' = [dist EXCEPT ![n][m.id] = e]
             /\ Reply(n, s, To({}, <<>>))
             /\ UNCHANGED <<bridging, failed>>
    <2>1. dist' = [dist EXCEPT ![n] = d] /\ bridging' = [bridging EXCEPT ![n] = bridging[n]]
      BY <1>0, <1>4 DEF MapsType, IsTotal
    <2>2. IsMap(bridging[n], Seq(Ref)) /\ IsMap(dist[n], Byte) /\ IsMap(path[n], Ref)
      BY <1>0 DEF MapsType
    <2>3. /\ DOMAIN bridging[n] = DOMAIN dist[n] /\ DOMAIN path[n] = DOMAIN dist[n]
          /\ m.id \in DOMAIN dist[n]
      BY <1>0, <1>4 DEF KeysAgree, Known
    <2>4. IsMap(d, Byte) /\ DOMAIN d = DOMAIN dist[n]
      BY <1>1, <2>2, <2>3 DEF IsMap
    <2>5. Dead(s) \in Ref /\ Live(m.id) \in Ref
      BY <1>1 DEF Dead, Live, Ref
    <2>6. IsMap(p, Ref) /\ DOMAIN p = DOMAIN path[n]
      BY <2>2, <2>5 DEF IsMap
    <2>7. failed' \in [Peer -> Seq(Peer)]
      BY <1>0, <1>4 DEF MapsType
    <2>8. path' = [path EXCEPT ![n] = p]
      BY <1>4
    <2> HIDE DEF d, p
    <2>9. MapsType' /\ KeysAgree'
      BY <1>0, <2>1, <2>2, <2>3, <2>4, <2>6, <2>7, <2>8, ReplaceMaps
    <2>10. KeysKept
      BY <2>1, <2>4 DEF KeysKept
    <2> QED
      BY <1>2, <1>3, <1>4, <2>9, <2>10 DEF Inv, TypeOK
  <1>5. CASE Reply(n, s, To({}, <<>>)) /\ UNCHANGED maps
    <2>1. KeysKept
      BY <1>5 DEF maps, KeysKept
    <2> QED
      BY <1>0, <1>2, <1>3, <1>5, <2>1, SameMaps DEF Inv, TypeOK
  <1>6. CASE Die(n)
    BY <1>2, <1>6, DeathType, DyingAnswers DEF Inv, TypeOK
  <1> QED
    BY <1>4, <1>5, <1>6 DEF HandleForwardingTo

\* How often a broadcast is repeated is a number, so that the copies are a
\* sequence.
LEMMA CopiesNat ==
    ASSUME MapsType, KeysAgree, NEW n \in Peer, NEW s \in Known(n), NEW p, NEW fate
    PROVE  Copies(n, s, p, fate) \in Nat
  <1> DEFINE hits == {i \in DOMAIN bridging[n][s] :
                        /\ bridging[n][s][i].to = p
                        /\ bridging[n][s][i].live \/ fate = "intact"}
  <1>1. bridging[n][s] \in Seq(Ref)
    BY DEF MapsType, IsMap, KeysAgree
  <1>2. Len(bridging[n][s]) \in Nat /\ DOMAIN bridging[n][s] = 1..Len(bridging[n][s])
    BY <1>1
  <1>3. IsFiniteSet(1..Len(bridging[n][s]))
    BY <1>2, FS_Interval
  <1>4. hits \subseteq 1..Len(bridging[n][s])
    BY <1>2
  <1> HIDE DEF hits
  <1>5. IsFiniteSet(hits)
    BY <1>3, <1>4, FS_Subset
  <1>6. Cardinality(hits) \in Nat
    BY <1>5, FS_CardinalityType
  <1> QED
    BY <1>6 DEF Copies, hits

\* A delivery leaves the inboxes well typed.
LEMMA DeliveredData ==
    ASSUME DataType, NEW n \in Peer, NEW from \in Peer, NEW origin \in Peer,
           NEW no \in 1..MaxSent, NEW toAll \in BOOLEAN,
           Deliver(n, from, origin, no, toAll), UNCHANGED sent
    PROVE  DataType'
  <1> DEFINE x == [from |-> from, origin |-> origin, no |-> no, toAll |-> toAll]
  <1>1. x \in Delivery
    BY DEF Delivery
  <1>2. inbox' = [inbox EXCEPT ![n] = Append(@, x)]
    BY DEF Deliver
  <1> HIDE DEF x
  <1>3. inbox' \in [Peer -> Seq(Delivery)]
    BY <1>1, <1>2 DEF DataType
  <1> QED
    BY <1>3 DEF DataType

\* send_to_all_handler: the copies forwarded and the delivery.
LEMMA HandleSendToAllInv ==
    ASSUME Inv, NEW n \in Peer, NEW s \in Peer, HandleSendToAll(n, s) PROVE Inv' /\ Answers(n, s)
  <1>0. NodeType /\ MapsType /\ KeysAgree /\ NetType /\ DataType
    BY DEF Inv, TypeOK
  <1> DEFINE m == Head(chan[s][n])
  <1>1. /\ m \in Sendable /\ m.origin \in Peer /\ m.no \in 1..MaxSent
        /\ chan[s][n] # <<>> /\ s \in Known(n)
    BY <1>0, HeadType, Fields DEF HandleSendToAll, Sendable
  <1>2. CASE \E fate \in Fate(ToSet(bridging[n][s])) :
                /\ Reply(n, s, [p \in Peer |-> [i \in 1..Copies(n, s, p, fate) |-> m]])
                /\ Deliver(n, s, m.origin, m.no, TRUE)
                /\ UNCHANGED maps
    <2>1. PICK fate \in Fate(ToSet(bridging[n][s])) :
                /\ Reply(n, s, [p \in Peer |-> [i \in 1..Copies(n, s, p, fate) |-> m]])
                /\ Deliver(n, s, m.origin, m.no, TRUE)
                /\ UNCHANGED maps
      BY <1>2
    <2> DEFINE out == [p \in Peer |-> [i \in 1..Copies(n, s, p, fate) |-> m]]
    <2>2. \A p \in Peer : Copies(n, s, p, fate) \in Nat
      BY <1>0, <1>1, CopiesNat
    <2>3. \A p \in Peer : [i \in 1..Copies(n, s, p, fate) |-> m] \in Seq(Sendable)
      BY <1>1, <2>2
    <2>4. out \in Outs
      BY <2>3 DEF Outs
    <2>5. Reply(n, s, out)
      BY <2>1
    <2> HIDE DEF out
    <2>6. NetType' /\ NodeType'
      BY <1>0, <1>1, <2>4, <2>5, ReplyNet, SameNode DEF Reply
    <2>7. DataType'
      BY <1>0, <1>1, <2>1, DeliveredData, Zenon DEF HandleSendToAll
    <2>8. Answers(n, s)
      BY <2>1, <2>4, <2>5 DEF maps, Answers, KeysKept
    <2> QED
      BY <1>0, <2>1, <2>6, <2>7, <2>8, SameMaps DEF Inv, TypeOK
  <1>3. CASE Die(n) /\ UNCHANGED inbox
    <2>1. DataType'
      BY <1>0, <1>3, SameData DEF HandleSendToAll, data
    <2> QED
      BY <1>3, <2>1, DeathType, DyingAnswers DEF Inv, TypeOK
  <1> QED
    BY <1>2, <1>3 DEF HandleSendToAll

\* send_to_handler: handed over, sent on or dropped.
LEMMA HandleSendToInv ==
    ASSUME Inv, NEW n \in Peer, NEW s \in Peer, HandleSendTo(n, s) PROVE Inv' /\ Answers(n, s)
  <1>0. NodeType /\ MapsType /\ KeysAgree /\ NetType /\ DataType
    BY DEF Inv, TypeOK
  <1> DEFINE m == Head(chan[s][n])
             hop == path[n][m.sender]
  <1>1. /\ m \in Sendable /\ m.sender \in Peer /\ m.no \in 1..MaxSent
        /\ chan[s][n] # <<>> /\ s \in Known(n)
    <2>1. Receives(n, s, "send_to")
      BY DEF HandleSendTo
    <2>2. m \in Command /\ m.cmd = "send_to" /\ chan[s][n] # <<>> /\ s \in Known(n)
      BY <1>0, <2>1, HeadType DEF Receives
    <2> HIDE DEF m
    <2>3. m.sender \in Peer /\ m.no \in 1..MaxSent
      BY <2>2, Fields
    <2>4. m \in Sendable
      BY <2>2 DEF Sendable
    <2> QED
      BY <2>2, <2>3, <2>4
  <1>2. ASSUME NEW S, NEW cmds \in Seq(Sendable), Reply(n, s, To(S, cmds)), UNCHANGED maps, DataType'
        PROVE  Inv' /\ Answers(n, s)
    <2>1. Inv'
      BY <1>0, <1>1, <1>2, ToOuts, ReplyNet, SameNode, SameMaps DEF Inv, TypeOK, Reply
    <2>2. Answers(n, s)
      BY <1>2, ToOuts DEF maps, Answers, KeysKept
    <2> QED
      BY <2>1, <2>2
  <1>3. CASE Reply(n, s, To({}, <<>>)) /\ UNCHANGED <<maps, inbox>>
    <2>1. DataType'
      BY <1>0, <1>3, SameData DEF HandleSendTo, data
    <2>2. <<>> \in Seq(Sendable)
      OBVIOUS
    <2> QED
      BY <1>2, <1>3, <2>1, <2>2
  <1>4. CASE /\ Reply(n, s, To({}, <<>>))
             /\ Deliver(n, m.sender, m.sender, m.no, FALSE)
             /\ UNCHANGED maps
    <2>1. DataType'
      BY <1>0, <1>1, <1>4, DeliveredData DEF HandleSendTo
    <2>2. <<>> \in Seq(Sendable)
      OBVIOUS
    <2> QED
      BY <1>2, <1>4, <2>1, <2>2
  <1>5. CASE \E fate \in Fate({hop}) :
                /\ Reply(n, s, To(IF fate = "intact" THEN {hop.to} ELSE {}, <<m>>))
                /\ UNCHANGED <<maps, inbox>>
    <2>1. DataType'
      BY <1>0, <1>5, SameData, Zenon DEF HandleSendTo, data
    <2>2. <<m>> \in Seq(Sendable)
      BY <1>1
    <2> QED
      BY <1>2, <1>5, <2>1, <2>2, Zenon
  <1>6. CASE Die(n) /\ UNCHANGED inbox
    <2>1. DataType'
      BY <1>0, <1>6, SameData DEF HandleSendTo, data
    <2> QED
      BY <1>6, <2>1, DeathType, DyingAnswers DEF Inv, TypeOK
  <1> QED
    BY <1>3, <1>4, <1>5, <1>6, ZenonT(30) DEF HandleSendTo

------------------------------------------------------------------------------
(***************************************************************************)
(* The invariant.                                                          *)
(***************************************************************************)
LEMMA NextInv == Inv /\ [Next]_vars => Inv'
  <1> SUFFICES ASSUME Inv, [Next]_vars PROVE Inv'
    OBVIOUS
  <1>1. CASE UNCHANGED vars
    BY <1>1, SameNode, SameMaps, SameNet, SameData DEF Inv, TypeOK, vars
  <1>2. ASSUME NEW n \in Peer, Progress(n) PROVE Inv'
    <2>1. ASSUME NEW s \in Peer, Receive(n, s) PROVE Inv'
      BY <2>1, HandleEofInv, HandleRetrievePeersInv, HandlePeersListInv,
         HandleRetrieveDistanceInv, HandleUpdateDistanceInv, HandleForwardToInv,
         HandleForwardingToInv, HandleSendToAllInv, HandleSendToInv DEF Receive
    <2>2. CASE JoinFails(n) \/ ScanConnects(n)
      BY <2>2, ThreadSteps
    <2>3. ASSUME NEW p \in Peer, ScanDial(n, p) PROVE Inv'
      BY <2>3, ThreadSteps
    <2>4. CASE ScanThrows(n)
      BY <2>4, DeathType, SameData DEF ScanThrows, Inv, TypeOK
    <2> QED
      BY <1>2, <2>1, <2>2, <2>3, <2>4, JoinSucceedsInv, ScanFailsInv, ScanEndsInv, AcceptInv
         DEF Progress
  <1>3. ASSUME NEW n \in Peer, External(n) PROVE Inv'
    <2>1. CASE Awake(n)
      BY <2>1, ThreadSteps
    <2>2. ASSUME NEW p \in Peer, Connect(n, p) PROVE Inv'
      BY <2>2, ThreadSteps
    <2> QED
      BY <1>3, <2>1, <2>2, LeaveInv, CrashInv, TimeoutInv, SendToAllInv, SendToInv DEF External
  <1> QED
    BY <1>1, <1>2, <1>3 DEF Next

\* The inductive invariant about the state peer_manager and local_peer keep.
THEOREM Invariance == Spec => []Inv
  BY InitInv, NextInv, PTL DEF Spec

\* The state of every instance stays well typed: distances fit in a byte, every
\* queued command is one the protocol defines, an answer has somebody it is
\* from.
THEOREM TypeCorrect == Spec => []TypeOK
  <1>1. Inv => TypeOK
    BY DEF Inv
  <1> QED
    BY <1>1, Invariance, PTL

\* m_peers, path_to_passing_by and bridging_from_to of an instance always have
\* the same keys, so the at() calls of the handlers that follow a lookup in
\* m_peers never throw.
THEOREM MapsAgree == Spec => []KeysAgree
  <1>1. Inv => KeysAgree
    BY DEF Inv
  <1> QED
    BY <1>1, Invariance, PTL

=============================================================================
