---------------------------- MODULE PeerManager ----------------------------
(***************************************************************************)
(* The overlay that basic_peer_manager (with basic_io_manager's connect,   *)
(* accept, read-error and timeout paths) builds: which peers each instance *)
(* knows, through whom it reaches them, for whom it forwards, and the      *)
(* commands that travel on the direct connections.                         *)
(*                                                                         *)
(* One instance has one network thread.  It runs one handler at a time;    *)
(* the only place where a handler lets others advance is the blocking      *)
(* io_manager::connect inside try_connect and peers_list_handler, which    *)
(* the steps Connect/Dial.../Scan... split at exactly those calls.  A      *)
(* connection is a pair of reliable FIFO byte streams; chan[a][b] holds    *)
(* the commands a has sent to b, and an Eof once a's end is closed.        *)
(*                                                                         *)
(* uuids are the elements of Peer and stand for the address and port too.  *)
(***************************************************************************)
EXTENDS Naturals, FiniteSets, SequencesExt

CONSTANTS
    Peer,          \* the peer_manager instances (their uuids)
    Reach,         \* <<a, b>>: a can open a TCP connection to b
    Rejects,       \* <<a, b>>: a's connection predicate refuses b
    Senders,       \* bound: the instances whose users send data
    MaxSent,       \* bound: data messages each of them sends
    MaxLeaves,     \* bound: calls of disconnect()
    MaxTimeouts,   \* bound: connections that fall silent for timeout_millis
    MaxCrashes,    \* bound: processes killed from outside
    NoPeer

ASSUME PeerAssumption == NoPeer \notin Peer /\ IsFiniteSet(Peer)
ASSUME LinkAssumption == Reach \subseteq Peer \X Peer /\ Rejects \subseteq Peer \X Peer
ASSUME BoundAssumption == Senders \subseteq Peer /\ {MaxSent, MaxLeaves, MaxTimeouts, MaxCrashes} \subseteq Nat

VARIABLES
    phase,     \* what the instance's thread does: see Phase
    dial,      \* the peer a blocking connect is waiting for
    answer,    \* what the other end of that connect has said so far
    todo,      \* peers_list_handler: entries not tried yet
    got,       \* peers_list_handler: entries connected to, not yet added
    dist,      \* m_peers: known id -> distance
    path,      \* m_me.path_to_passing_by: known id -> pointer to a peer
    bridging,  \* m_me.bridging_from_to: known id -> pointers to peers
    failed,    \* m_failed_connections
    open,      \* <<a, b>>: a's end of its connection with b is open
    chan,      \* chan[a][b]: sent by a, not yet handled by b
    sent,      \* data messages sent so far by each instance
    inbox,     \* what the data listeners of each instance were called with
    spent      \* faults and departures so far (bounds)

node == <<phase, dial, answer, todo, got>>
maps == <<dist, path, bridging, failed>>
net  == <<open, chan>>
data == <<sent, inbox>>
vars == <<node, maps, net, data, spent>>

\* off: the io_service is stopped.  joining: inside try_connect, before the
\* network thread exists.  running: the network thread waits for an event.
\* scanning: it is inside the loop of peers_list_handler.
Phase == {"off", "joining", "running", "scanning", "crashed"}

Byte == 0..255

(***************************************************************************)
(* Pointers to peers.  A pointer into m_peers is live until the peer is    *)
(* erased; the address of a handler's `source` argument, a copy inside the *)
(* read handler, is dead as soon as the handler returns.                   *)
(***************************************************************************)
Ref == [to : Peer, live : BOOLEAN]
Live(p) == [to |-> p, live |-> TRUE]
Dead(p) == [to |-> p, live |-> FALSE]
Bury(r, p) == IF r.to = p THEN Dead(p) ELSE r

\* What using a dead pointer can do: find the old bytes, find bytes that name
\* no open connection, or fault.
Fate(refs) == IF \E r \in refs : ~r.live THEN {"intact", "lost", "fault"} ELSE {"intact"}

------------------------------------------------------------------------------
(***************************************************************************)
(* Commands.                                                               *)
(***************************************************************************)
RetrievePeers       == [cmd |-> "retrieve_peers"]
PeersList(ids)      == [cmd |-> "peers_list", ids |-> ids]
RetrieveDistance(p) == [cmd |-> "retrieve_distance", id |-> p]
UpdateDistance(d, p) == [cmd |-> "update_distance", d |-> d, id |-> p]
ForwardTo(p)        == [cmd |-> "forward_to", id |-> p]
ForwardingTo(d, p)  == [cmd |-> "forwarding_to", d |-> d, id |-> p]
ToAll(origin, no)   == [cmd |-> "send_to_all", origin |-> origin, no |-> no]
ToOne(sender, target, no) ==
    [cmd |-> "send_to", sender |-> sender, target |-> target, no |-> no]
Eof                 == [cmd |-> "eof"]

Command ==
    [cmd : {"retrieve_peers", "eof"}]
    \cup [cmd : {"peers_list"}, ids : SUBSET Peer]
    \cup [cmd : {"retrieve_distance", "forward_to"}, id : Peer]
    \cup [cmd : {"update_distance", "forwarding_to"}, d : Byte, id : Peer]
    \cup [cmd : {"send_to_all"}, origin : Peer, no : 1..MaxSent]
    \cup [cmd : {"send_to"}, sender : Peer, target : Peer, no : 1..MaxSent]

Delivery == [from : Peer, origin : Peer, no : 1..MaxSent, toAll : BOOLEAN]

------------------------------------------------------------------------------
Known(n)  == DOMAIN dist[n]
Direct(n) == {p \in Known(n) : dist[n][p] = 0}
Linked(a, b) == <<a, b>> \in open /\ <<b, a>> \in open
IdleThread(n) == phase[n] = "running"

\* BadX is X with a plausible slip, which some property is to catch: see the
\* list of mutants in the README.
\* Buffers are queued at the wrong end.
BadPost(ch, n, out) ==
    [ch EXCEPT ![n] = [p \in Peer |-> IF Linked(n, p) THEN out[p] \o @[p] ELSE @[p]]]

\* n sends the commands out[p] to each p; on a connection with a closed end
\* they are lost, as write_done ignores the error.
Post(ch, n, out) ==
    [ch EXCEPT ![n] = [p \in Peer |-> IF Linked(n, p) THEN @[p] \o out[p] ELSE @[p]]]
To(S, cmds) == [p \in Peer |-> IF p \in S THEN cmds ELSE <<>>]

Empty == [p \in {} |-> 0]

Init ==
    /\ phase = [n \in Peer |-> "off"]
    /\ dial = [n \in Peer |-> NoPeer]
    /\ answer = [n \in Peer |-> "none"]
    /\ todo = [n \in Peer |-> {}]
    /\ got = [n \in Peer |-> {}]
    /\ dist = [n \in Peer |-> Empty]
    /\ path = [n \in Peer |-> Empty]
    /\ bridging = [n \in Peer |-> Empty]
    /\ failed = [n \in Peer |-> <<>>]
    /\ open = {}
    /\ chan = [a \in Peer |-> [b \in Peer |-> <<>>]]
    /\ sent = [n \in Peer |-> 0]
    /\ inbox = [n \in Peer |-> <<>>]
    /\ spent = [leaves |-> 0, timeouts |-> 0, crashes |-> 0]

(***************************************************************************)
(* peer_connected(peer&&) for the peers in S: the three maps get the key.  *)
(* insert and emplace keep an entry that is already there.                 *)
(***************************************************************************)
Emplace(f, g) ==
    [p \in DOMAIN f \cup DOMAIN g |-> IF p \in DOMAIN f THEN f[p] ELSE g[p]]

PeersConnected(n, S) ==
    /\ dist' = [dist EXCEPT ![n] = Emplace(@, [p \in S |-> 0])]
    /\ path' = [path EXCEPT ![n] = Emplace(@, [p \in S |-> Live(p)])]
    /\ bridging' = [bridging EXCEPT ![n] = Emplace(@, [p \in S |-> <<>>])]

\* The entry in bridging_from_to is forgotten.
BadPeerDisconnected(n, p) ==
    /\ dist' = [dist EXCEPT ![n] = [q \in DOMAIN @ \ {p} |-> @[q]]]
    /\ path' = [path EXCEPT ![n] = [q \in DOMAIN @ \ {p} |-> Bury(@[q], p)]]
    /\ UNCHANGED bridging

\* peer_disconnected: only the entries keyed by p go; pointers to p elsewhere
\* in path and bridging stay, and are dead from now on.
PeerDisconnected(n, p) ==
    /\ dist' = [dist EXCEPT ![n] = [q \in DOMAIN @ \ {p} |-> @[q]]]
    /\ path' = [path EXCEPT ![n] = [q \in DOMAIN @ \ {p} |-> Bury(@[q], p)]]
    /\ bridging' = [bridging EXCEPT ![n] =
            [q \in DOMAIN @ \ {p} |-> [i \in DOMAIN @[q] |-> Bury(@[q][i], p)]]]

\* The sockets are dropped without a shutdown the other end would read.
BadCloseAll(n) ==
    /\ open' = {e \in open : e[1] # n}
    /\ chan' = [a \in Peer |-> [b \in Peer |-> IF b = n THEN <<>> ELSE chan[a][b]]]

\* What is still read of a queue when its owner closes the socket: the writes
\* that were under way, or not yet begun, are lost.
Endings(queue) == {Append(told, Eof) : told \in Prefixes(queue)}

\* Every socket of n closes.
CloseAll(n) ==
    /\ open' = {e \in open : e[1] # n}
    /\ \E last \in [Peer -> UNION {Endings(chan[n][b]) : b \in Peer}] :
          /\ \A b \in Peer : last[b] \in Endings(chan[n][b])
          /\ chan' = [a \in Peer |-> [b \in Peer |->
                CASE b = n -> <<>>
                  [] a = n /\ b # n /\ Linked(n, b) -> last[b]
                  [] OTHER -> chan[a][b]]]

ClearMaps(n) ==
    /\ dist' = [dist EXCEPT ![n] = Empty]
    /\ path' = [path EXCEPT ![n] = Empty]
    /\ bridging' = [bridging EXCEPT ![n] = Empty]
    /\ failed' = [failed EXCEPT ![n] = <<>>]

\* An exception no handler catches, or a fault, on the network thread: the
\* process is gone, and with it everything it held.  The connections others
\* were opening to it are reset.
Die(n) ==
    /\ phase' = [phase EXCEPT ![n] = "crashed"]
    /\ dial' = [dial EXCEPT ![n] = NoPeer]
    /\ answer' = [d \in Peer |->
            CASE d = n -> "none"
              [] d # n /\ dial[d] = n /\ answer[d] = "none" /\ <<d, n>> \in Reach -> "reset"
              [] OTHER -> answer[d]]
    /\ todo' = [todo EXCEPT ![n] = {}]
    /\ got' = [got EXCEPT ![n] = {}]
    /\ ClearMaps(n)
    /\ CloseAll(n)

------------------------------------------------------------------------------
(***************************************************************************)
(* Starting, joining, leaving.                                             *)
(***************************************************************************)
\* run() and sync_run() with nobody to connect to.
Awake(n) ==
    /\ phase[n] = "off"
    /\ phase' = [phase EXCEPT ![n] = "running"]
    /\ UNCHANGED <<dial, answer, todo, got, maps, net, data, spent>>

\* connect() and sync_connect(): try_connect begins its blocking connect.
Connect(n, t) ==
    /\ phase[n] = "off" /\ t # n
    /\ phase' = [phase EXCEPT ![n] = "joining"]
    /\ dial' = [dial EXCEPT ![n] = t]
    /\ answer' = [answer EXCEPT ![n] = "none"]
    /\ UNCHANGED <<todo, got, maps, net, data, spent>>

\* The blocking connect gives up: no route, the process behind the address is
\* gone, or it said connection_refused.  If the process goes while it is
\* written to, connect throws: try_connect passes that on to the caller of
\* connect(), who finds the manager as after a failed connect; see ScanThrows.
DialFails(n) ==
    \/ answer[n] \in {"refused", "reset"}
    \/ answer[n] = "none" /\ (<<n, dial[n]>> \notin Reach \/ phase[dial[n]] = "crashed")

\* What the other end said is kept for the next connect.
BadHangUp(n) ==
    /\ dial' = [dial EXCEPT ![n] = NoPeer]
    /\ UNCHANGED answer

HangUp(n) ==
    /\ dial' = [dial EXCEPT ![n] = NoPeer]
    /\ answer' = [answer EXCEPT ![n] = "none"]

JoinFails(n) ==
    /\ phase[n] = "joining" /\ DialFails(n)
    /\ phase' = [phase EXCEPT ![n] = "off"]
    /\ HangUp(n)
    /\ UNCHANGED <<todo, got, maps, net, data, spent>>

\* try_connect: peer_connected, then retrieve_peers; connect() then runs.
JoinSucceeds(n) ==
    /\ phase[n] = "joining" /\ answer[n] = "accepted"
    /\ phase' = [phase EXCEPT ![n] = "running"]
    /\ PeersConnected(n, {dial[n]})
    /\ chan' = Post(chan, n, To({dial[n]}, <<RetrievePeers>>))
    /\ HangUp(n)
    /\ UNCHANGED <<todo, got, failed, open, data, spent>>

\* accept on n of the connection d is dialling, then peer_connected(peer&&):
\* a known id or a refusing predicate answers connection_refused.
Accept(n, d) ==
    /\ IdleThread(n) /\ dial[d] = n /\ answer[d] = "none" /\ <<d, n>> \in Reach
    /\ \/ /\ d \in Known(n) \/ <<n, d>> \in Rejects
          /\ answer' = [answer EXCEPT ![d] = "refused"]
          /\ UNCHANGED <<maps, net>>
       \/ /\ d \notin Known(n) /\ <<n, d>> \notin Rejects
          /\ answer' = [answer EXCEPT ![d] = "accepted"]
          /\ PeersConnected(n, {d})
          /\ open' = open \cup {<<n, d>>, <<d, n>>}
          /\ UNCHANGED <<failed, chan>>
    /\ UNCHANGED <<phase, dial, todo, got, data, spent>>

\* disconnect(), called between two handlers.
Leave(n) ==
    /\ IdleThread(n) /\ spent.leaves < MaxLeaves
    /\ phase' = [phase EXCEPT ![n] = "off"]
    /\ ClearMaps(n)
    /\ CloseAll(n)
    /\ spent' = [spent EXCEPT !.leaves = @ + 1]
    /\ UNCHANGED <<dial, answer, todo, got, data>>

\* The process is killed.
Crash(n) ==
    /\ phase[n] # "crashed" /\ spent.crashes < MaxCrashes
    /\ Die(n)
    /\ spent' = [spent EXCEPT !.crashes = @ + 1]
    /\ UNCHANGED data

\* The peer is told, but the socket stays open.
BadTimeout(n, p) ==
    /\ IdleThread(n) /\ p \in Known(n) /\ <<n, p>> \in open
    /\ spent.timeouts < MaxTimeouts
    /\ chan' = [chan EXCEPT ![n][p] = Append(@, Eof)]
    /\ spent' = [spent EXCEPT !.timeouts = @ + 1]
    /\ UNCHANGED <<node, maps, data, open>>

\* timeout_impl: a peer silent for timeout_millis has its socket closed.  The
\* pending read then fails on a socket that is not open, and process_read
\* does not report the disconnection.
Timeout(n, p) ==
    /\ IdleThread(n) /\ p \in Known(n) /\ <<n, p>> \in open
    /\ spent.timeouts < MaxTimeouts
    /\ open' = open \ {<<n, p>>}
    /\ \E last \in IF <<p, n>> \in open THEN Endings(chan[n][p]) ELSE {chan[n][p]} :
          chan' = [chan EXCEPT ![p][n] = <<>>, ![n][p] = last]
    /\ spent' = [spent EXCEPT !.timeouts = @ + 1]
    /\ UNCHANGED <<node, maps, data>>

------------------------------------------------------------------------------
(***************************************************************************)
(* Sending data.  Both calls are made on the network thread (a listener)   *)
(* or while it waits.                                                      *)
(***************************************************************************)
SendToAll(n) ==
    /\ IdleThread(n) /\ n \in Senders /\ sent[n] < MaxSent
    /\ sent' = [sent EXCEPT ![n] = @ + 1]
    /\ chan' = Post(chan, n, To(Direct(n), <<ToAll(n, sent[n] + 1)>>))
    /\ UNCHANGED <<node, maps, open, inbox, spent>>

SendTo(n, p) ==
    /\ IdleThread(n) /\ n \in Senders /\ sent[n] < MaxSent /\ p \in Known(n)
    /\ sent' = [sent EXCEPT ![n] = @ + 1]
    /\ \E fate \in Fate({path[n][p]}) :
          \/ /\ fate = "intact"
             /\ chan' = Post(chan, n, To({path[n][p].to}, <<ToOne(n, p, sent[n] + 1)>>))
             /\ UNCHANGED <<node, maps, open>>
          \/ fate = "lost" /\ UNCHANGED <<node, maps, net>>
          \/ fate = "fault" /\ Die(n)
    /\ UNCHANGED <<inbox, spent>>

------------------------------------------------------------------------------
(***************************************************************************)
(* Receiving: process_read on n hands a command of s to data_received.     *)
(***************************************************************************)
Receives(n, s, cmd) ==
    /\ IdleThread(n) /\ s \in Known(n) /\ <<n, s>> \in open
    /\ chan[s][n] # <<>> /\ Head(chan[s][n]).cmd = cmd

\* The bytes of a command stay in the buffer.
BadTaken(s, n) == chan

Taken(s, n) == [chan EXCEPT ![s][n] = Tail(@)]

\* n handles a command of s by sending out[p] to each p, and nothing else.
Reply(n, s, out) ==
    /\ chan' = Post(Taken(s, n), n, out)
    /\ UNCHANGED <<node, open>>

Deliver(n, from, origin, no, toAll) ==
    inbox' = [inbox EXCEPT ![n] = Append(@,
                [from |-> from, origin |-> origin, no |-> no, toAll |-> toAll])]

\* The socket of the failed read stays open.
BadHandleEof(n, s) ==
    /\ Receives(n, s, "eof")
    /\ PeerDisconnected(n, s)
    /\ chan' = Taken(s, n)
    /\ UNCHANGED <<node, open, failed, data, spent>>

\* The list sent is the one of the failed connections.
BadHandleRetrievePeers(n, s) ==
    /\ Receives(n, s, "retrieve_peers")
    /\ Reply(n, s, To({s}, <<PeersList(ToSet(failed[n]))>>))
    /\ UNCHANGED <<maps, data, spent>>

\* Known peers are not skipped.
BadHandlePeersList(n, s) ==
    /\ Receives(n, s, "peers_list")
    /\ phase' = [phase EXCEPT ![n] = "scanning"]
    /\ todo' = [todo EXCEPT ![n] = Head(chan[s][n]).ids \ {n}]
    /\ chan' = Taken(s, n)
    /\ UNCHANGED <<dial, answer, got, maps, open, data, spent>>

\* The read fails at the end of the stream: peer_disconnected.
HandleEof(n, s) ==
    /\ Receives(n, s, "eof")
    /\ PeerDisconnected(n, s)
    /\ open' = open \ {<<n, s>>}
    /\ chan' = Taken(s, n)
    /\ UNCHANGED <<node, failed, data, spent>>

HandleRetrievePeers(n, s) ==
    /\ Receives(n, s, "retrieve_peers")
    /\ Reply(n, s, To({s}, <<PeersList(Known(n))>>))
    /\ UNCHANGED <<maps, data, spent>>

\* peers_list_handler starts its loop over the entries it does not know.
HandlePeersList(n, s) ==
    /\ Receives(n, s, "peers_list")
    /\ phase' = [phase EXCEPT ![n] = "scanning"]
    /\ todo' = [todo EXCEPT ![n] = Head(chan[s][n]).ids \ (Known(n) \cup {n})]
    /\ chan' = Taken(s, n)
    /\ UNCHANGED <<dial, answer, got, maps, open, data, spent>>

ScanDial(n, t) ==
    /\ phase[n] = "scanning" /\ dial[n] = NoPeer /\ t \in todo[n]
    /\ dial' = [dial EXCEPT ![n] = t]
    /\ todo' = [todo EXCEPT ![n] = @ \ {t}]
    /\ UNCHANGED <<phase, answer, got, maps, net, data, spent>>

ScanConnects(n) ==
    /\ phase[n] = "scanning" /\ answer[n] = "accepted"
    /\ got' = [got EXCEPT ![n] = @ \cup {dial[n]}]
    /\ HangUp(n)
    /\ UNCHANGED <<phase, todo, maps, net, data, spent>>

ScanFails(n) ==
    /\ phase[n] = "scanning" /\ dial[n] # NoPeer /\ DialFails(n)
    /\ failed' = [failed EXCEPT ![n] = Append(@, dial[n])]
    /\ HangUp(n)
    /\ UNCHANGED <<phase, todo, got, dist, path, bridging, net, data, spent>>

\* The write to a process that is gone throws.  peers_list_handler does not
\* catch it, and neither does the network thread.
ScanThrows(n) ==
    /\ phase[n] = "scanning" /\ answer[n] = "reset"
    /\ Die(n)
    /\ UNCHANGED <<data, spent>>

\* After the loop: peer_connected for each new peer, then one
\* retrieve_distance per failed connection to every direct peer.
ScanEnds(n) ==
    /\ phase[n] = "scanning" /\ dial[n] = NoPeer /\ todo[n] = {}
    /\ phase' = [phase EXCEPT ![n] = "running"]
    /\ PeersConnected(n, got[n])
    /\ got' = [got EXCEPT ![n] = {}]
    /\ chan' = Post(chan, n, To(Direct(n) \cup got[n],
                                [i \in DOMAIN failed[n] |-> RetrieveDistance(failed[n][i])]))
    /\ UNCHANGED <<dial, answer, todo, failed, open, data, spent>>

------------------------------------------------------------------------------
(***************************************************************************)
(* Bridging.  update_distance and forwarding_to copy 15 of the 16 bytes of *)
(* the id into an uninitialised uuid: `whole` says whether the last byte   *)
(* happened to be the right one.  If not, no map has that id.              *)
(***************************************************************************)
HandleRetrieveDistance(n, s) ==
    /\ Receives(n, s, "retrieve_distance")
    /\ LET id == Head(chan[s][n]).id IN
       \/ /\ id \in Known(n)
          /\ Reply(n, s, To({s}, <<UpdateDistance(dist[n][id], id)>>))
          /\ UNCHANGED maps
       \/ id \notin Known(n) /\ Die(n)    \* m_peers.at throws
    /\ UNCHANGED <<data, spent>>

HandleUpdateDistance(n, s) ==
    /\ Receives(n, s, "update_distance")
    /\ \E whole \in BOOLEAN :
       LET m == Head(chan[s][n])
           d == (m.d + 1) % 256
           better == whole /\ \/ m.id \in Known(n) /\ dist[n][m.id] > d
                              \/ m.id \notin Known(n) /\ Contains(failed[n], m.id)
       IN  Reply(n, s, [p \in Peer |->
              (IF better /\ p = s THEN <<ForwardTo(m.id)>> ELSE <<>>) \o
              (IF better /\ p \in Direct(n) THEN <<UpdateDistance(d, m.id)>> ELSE <<>>)])
    /\ UNCHANGED <<maps, data, spent>>

\* Only one direction is bridged.
BadHandleForwardTo(n, s) ==
    /\ Receives(n, s, "forward_to")
    /\ LET id == Head(chan[s][n]).id IN
       \/ /\ id \in Known(n)
          /\ bridging' = [bridging EXCEPT ![n][id] = Append(@, Dead(s))]
          /\ Reply(n, s, [p \in Peer |->
                CASE p = id -> <<ForwardingTo(0, s)>>
                  [] p = s -> <<ForwardingTo(dist[n][id], id)>>
                  [] OTHER -> <<>>])
          /\ UNCHANGED <<dist, path, failed>>
       \/ id \notin Known(n) /\ Die(n)
    /\ UNCHANGED <<data, spent>>

\* source.distance() is that of the copy taken when the peer connected: 0.
HandleForwardTo(n, s) ==
    /\ Receives(n, s, "forward_to")
    /\ LET id == Head(chan[s][n]).id IN
       \/ /\ id \in Known(n)
          /\ bridging' = [bridging EXCEPT ![n] = [p \in DOMAIN @ |->
                @[p] \o (IF p = id THEN <<Dead(s)>> ELSE <<>>)
                     \o (IF p = s THEN <<Live(id)>> ELSE <<>>)]]
          /\ Reply(n, s, [p \in Peer |->
                CASE p = id -> <<ForwardingTo(0, s)>>
                  [] p = s -> <<ForwardingTo(dist[n][id], id)>>
                  [] OTHER -> <<>>])
          /\ UNCHANGED <<dist, path, failed>>
       \/ id \notin Known(n) /\ Die(n)    \* m_peers.at throws
    /\ UNCHANGED <<data, spent>>

\* A failed connection has no io_data: adding it as a bridged peer makes
\* process_connected_peer dereference a null pointer.
HandleForwardingTo(n, s) ==
    /\ Receives(n, s, "forwarding_to")
    /\ \E whole \in BOOLEAN :
       LET m == Head(chan[s][n]) IN
       \/ /\ whole /\ m.id \in Known(n)
          /\ path' = [path EXCEPT ![n] = [@ EXCEPT ![m.id] = Dead(s), ![s] = Live(m.id)]]
          /\ dist' = [dist EXCEPT ![n][m.id] = (m.d + 1) % 256]
          /\ Reply(n, s, To({}, <<>>))
          /\ UNCHANGED <<bridging, failed>>
       \/ /\ whole /\ m.id \notin Known(n) /\ Contains(failed[n], m.id)
          /\ Die(n)
       \/ /\ ~(whole /\ (m.id \in Known(n) \/ Contains(failed[n], m.id)))
          /\ Reply(n, s, To({}, <<>>))
          /\ UNCHANGED maps
    /\ UNCHANGED <<data, spent>>

\* send_to_all_handler: forward_if_needed, then the listeners, told that the
\* peer the command came from sent the data.
Copies(n, s, p, fate) ==
    Cardinality({i \in DOMAIN bridging[n][s] :
                    /\ bridging[n][s][i].to = p
                    /\ bridging[n][s][i].live \/ fate = "intact"})

HandleSendToAll(n, s) ==
    /\ Receives(n, s, "send_to_all")
    /\ LET m == Head(chan[s][n]) IN
       \E fate \in Fate(ToSet(bridging[n][s])) :
          \/ /\ fate # "fault"
             /\ Reply(n, s, [p \in Peer |-> [i \in 1..Copies(n, s, p, fate) |-> m]])
             /\ Deliver(n, s, m.origin, m.no, TRUE)
             /\ UNCHANGED maps
          \/ fate = "fault" /\ Die(n) /\ UNCHANGED inbox
    /\ UNCHANGED <<sent, spent>>

\* send_to_handler: a message that is not for n goes on along the path to its
\* sender.
HandleSendTo(n, s) ==
    /\ Receives(n, s, "send_to")
    /\ LET m == Head(chan[s][n]) IN
       \/ /\ m.sender \notin Known(n)
          /\ Reply(n, s, To({}, <<>>))
          /\ UNCHANGED <<maps, inbox>>
       \/ /\ m.sender \in Known(n) /\ m.target = n
          /\ Reply(n, s, To({}, <<>>))
          /\ Deliver(n, m.sender, m.sender, m.no, FALSE)
          /\ UNCHANGED maps
       \/ /\ m.sender \in Known(n) /\ m.target # n
          /\ LET hop == path[n][m.sender] IN
             \E fate \in Fate({hop}) :
                \/ /\ fate # "fault"
                   /\ Reply(n, s, To(IF fate = "intact" THEN {hop.to} ELSE {}, <<m>>))
                   /\ UNCHANGED maps
                \/ fate = "fault" /\ Die(n)
          /\ UNCHANGED inbox
    /\ UNCHANGED <<sent, spent>>

------------------------------------------------------------------------------
Receive(n, s) ==
    \/ HandleEof(n, s)
    \/ HandleRetrievePeers(n, s)
    \/ HandlePeersList(n, s)
    \/ HandleRetrieveDistance(n, s)
    \/ HandleUpdateDistance(n, s)
    \/ HandleForwardTo(n, s)
    \/ HandleForwardingTo(n, s)
    \/ HandleSendToAll(n, s)
    \/ HandleSendTo(n, s)

\* What an instance does by itself, once called or connected to.
Progress(n) ==
    \/ JoinFails(n)
    \/ JoinSucceeds(n)
    \/ ScanConnects(n)
    \/ ScanFails(n)
    \/ ScanThrows(n)
    \/ ScanEnds(n)
    \/ \E p \in Peer : ScanDial(n, p) \/ Accept(n, p) \/ Receive(n, p)

\* What its user or its environment does.
External(n) ==
    \/ Awake(n)
    \/ Leave(n)
    \/ Crash(n)
    \/ SendToAll(n)
    \/ \E p \in Peer : Connect(n, p) \/ SendTo(n, p) \/ Timeout(n, p)

Next == \E n \in Peer : Progress(n) \/ External(n)

Spec == Init /\ [][Next]_vars

\* The thread of an instance goes on as long as it has something to do.  The
\* work is finite, so which ready socket io_service::run serves first does not
\* matter.
Fairness == \A n \in Peer : WF_vars(Progress(n))

FairSpec == Spec /\ Fairness

------------------------------------------------------------------------------
(***************************************************************************)
(* Properties.                                                             *)
(***************************************************************************)
\* f maps every instance; f maps some peers, to elements of S.
IsTotal(f)  == f = [n \in Peer |-> f[n]]
IsMap(f, S) == DOMAIN f \subseteq Peer /\ f \in [DOMAIN f -> S]

NodeType ==
    /\ phase \in [Peer -> Phase]
    /\ dial \in [Peer -> Peer \cup {NoPeer}]
    /\ answer \in [Peer -> {"none", "accepted", "refused", "reset"}]
    /\ \A n \in Peer : answer[n] # "none" => dial[n] \in Peer
    /\ todo \in [Peer -> SUBSET Peer]
    /\ got \in [Peer -> SUBSET Peer]

MapsType ==
    /\ IsTotal(dist) /\ IsTotal(path) /\ IsTotal(bridging)
    /\ \A n \in Peer :
          IsMap(dist[n], Byte) /\ IsMap(path[n], Ref) /\ IsMap(bridging[n], Seq(Ref))
    /\ failed \in [Peer -> Seq(Peer)]

NetType ==
    /\ open \subseteq Peer \X Peer
    /\ chan \in [Peer -> [Peer -> Seq(Command)]]

DataType ==
    /\ sent \in [Peer -> 0..MaxSent]
    /\ inbox \in [Peer -> Seq(Delivery)]

\* The types of the members of peer_manager and local_peer, of what is under
\* way on the connections, and of what the data listeners were given.
TypeOK == NodeType /\ MapsType /\ NetType /\ DataType

\* The three maps of an instance have the same keys, so that a peer found in
\* one can be looked up in the others with at(), and the insert of a new
\* peer never keeps an old entry.
KeysAgree ==
    \A n \in Peer : DOMAIN path[n] = Known(n) /\ DOMAIN bridging[n] = Known(n)

\* The peers whose connection n holds: added, or on their way to being so.
Held(n) == Known(n) \cup got[n] \cup (IF answer[n] = "accepted" THEN {dial[n]} ELSE {})

\* The thread's own state belongs to what it is doing: peers are known only
\* while the network runs, peers_list_handler never lists or dials a peer that
\* is known, already connected to, or itself.
ThreadState ==
    \A n \in Peer :
        /\ dial[n] # NoPeer => phase[n] \in {"joining", "scanning"}
        /\ got[n] \cup todo[n] # {} => phase[n] = "scanning"
        /\ Known(n) # {} => phase[n] \in {"running", "scanning"}
        /\ todo[n] \cap (Known(n) \cup got[n] \cup {n}) = {}
        /\ dial[n] \notin Known(n) \cup got[n] \cup todo[n] \cup {n}

\* Nothing is sent after the end of a stream, and an end of stream of an
\* earlier connection never reaches a later one.
EofIsLast ==
    \A x, y \in Peer : \A i \in DOMAIN chan[x][y] :
        chan[x][y][i].cmd = "eof" => i = Len(chan[x][y]) /\ <<x, y>> \notin open

\* A connection that is open at one end is open at the other, or the last
\* thing to be read at the open end is the end of the stream.
HalfOpenEnds ==
    \A e \in open :
        \/ <<e[2], e[1]>> \in open
        \/ chan[e[2]][e[1]] # <<>> /\ Last(chan[e[2]][e[1]]).cmd = "eof"

\* Every open connection belongs to a peer its owner holds, and bytes wait
\* only on open connections: none is left over from an earlier one.
NoStrayConnection ==
    /\ \A e \in open : e[2] \in Held(e[1])
    /\ \A x, y \in Peer : chan[x][y] # <<>> => <<y, x>> \in open

\* A connection being established is with a peer that is not known yet: a
\* handshake, whichever side began it, never yields a second connection.
OneConnectionPerPair ==
    \A n \in Peer :
        /\ got[n] \cap Known(n) = {}
        /\ answer[n] = "accepted" => dial[n] \notin Known(n) \cup got[n]
        /\ n \notin Held(n)

\* No private message is handed to the listeners twice, at one instance or at two,
\* whatever path it took.
PrivateOnce ==
    \A n, o \in Peer : \A i \in DOMAIN inbox[n] : \A j \in DOMAIN inbox[o] :
        LET x == inbox[n][i]
            y == inbox[o][j]
        IN  ~x.toAll /\ ~y.toAll /\ x.origin = y.origin /\ x.no = y.no => n = o /\ i = j

\* Everything one instance sends to another, broadcast or private, is handed
\* over under its own name and in the order it was sent.
DeliveredInOrder ==
    \A n \in Peer : \A j \in DOMAIN inbox[n] :
        /\ inbox[n][j].from = inbox[n][j].origin
        /\ \A i \in 1..(j - 1) :
             inbox[n][i].origin = inbox[n][j].origin => inbox[n][i].no < inbox[n][j].no

\* Only a fault from outside ends a process.
NoSelfCrash ==
    Cardinality({n \in Peer : phase[n] = "crashed"}) <= spent.crashes

\* An instance bridges both ways or not at all, and as many times each way.
BridgesArePaired ==
    \A n \in Peer : \A x, y \in Known(n) : Copies(n, x, y, "intact") = Copies(n, y, x, "intact")

------------------------------------------------------------------------------
(* What the code does not live up to: the README tells what is seen. *)

\* A distance never exceeds the longest simple path, and so never climbs to
\* the 255 that means disconnected.  Three instances keep it, seven need not:
\* late forward_to requests make two of them bridge each other to a third.
DistanceBounded ==
    \A n \in Peer : \A p \in Known(n) : dist[n][p] < Cardinality(Peer)

\* Nothing is handed over twice at one instance, broadcast or private.
DeliveredOnce ==
    \A n \in Peer : \A i, j \in DOMAIN inbox[n] :
        LET x == inbox[n][i]
            y == inbox[n][j]
        IN  x.toAll = y.toAll /\ x.origin = y.origin /\ x.no = y.no => i = j

\* A private message travels away from its sender.
PrivateNotReturned ==
    \A x, y \in Peer : \A i \in DOMAIN chan[x][y] :
        chan[x][y][i].cmd = "send_to" => chan[x][y][i].sender # y

\* A call of connect() returns.
ConnectReturns == \A n \in Peer : phase[n] = "joining" ~> phase[n] # "joining"

\* A peer whose socket the timeout closed stops being a peer.
TimedOutIsForgotten ==
    \A n, p \in Peer :
        p \in Known(n) /\ <<n, p>> \notin open ~> p \notin Known(n)
==============================================================================
