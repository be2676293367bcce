# Breep: specifications

TLA+ specifications of Breep, a C++ library for bridged peer to peer networks,
with the TLC configurations that check them and TLAPS proofs. Paths are relative
to `src/include/breep/network/` unless they begin with `src/`;
`PM` stands for `impl/basic_peer_manager.tcc`, `IO` for `tcp/impl/basic_io_manager.tcc`,
`BN` for `basic_network.hpp`, `OB` for `detail/object_builder.hpp` and `RPS` for
`src/tutorials/listings/RPS-final.cpp`. `PROJECT.json` says, definition by definition,
which lines of the source each one stands for.

## 1. The system

### Components

| Component | State | Operations | Talks to |
| --- | --- | --- | --- |
| **peer manager** (`basic_peer_manager`, `local_peer`) | `m_peers` (with distances), `m_me.path_to_passing_by`, `m_me.bridging_from_to`, `m_failed_connections`, `m_predicate` | `run`, `connect`, `disconnect`, `send_to_all`, `send_to`, and one handler per command: `retrieve_peers`, `peers_list`, `retrieve_distance`, `update_distance`, `forward_to`, `forwarding_to`, `send_to_all`, `send_to` | calls the io manager to connect and send; is called by it when a peer connects or disconnects and for every packet; calls listeners |
| **io manager: connections** (`tcp::basic_io_manager`) | the sockets, the acceptor, a timestamp per peer | `connect` (blocking), `accept`, `process_connected_peer`, `process_connection_denial`, `disconnect`, the error branch of `process_read`, `timeout_impl`, `keep_alive_impl` | boost::asio; the peer manager |
| **io manager: send queues** | `m_data_queues`, one queue of buffers per peer id | `send` and the lambda it posts, `write`, `write_done` | `boost::asio::async_write` |
| **io manager: framing** | per peer `fixed_buffer`, `dynamic_buffer`, `last_read`, `last_command` | the encoder in `send`, `process_read` | hands packets to the peer manager |
| **listeners** | four maps with ids, a mutex each | add, remove, call | user code, which may call back |
| **thread lifecycle** | `m_thread`, `m_running`, `m_waitfor_run` | `run`, `sync_run`, `join`, `disconnect`, the destructor | user threads and the network thread |
| **typed dispatch** (`basic_network`, `object_builder`) | listeners and object builders per type hash, two levels of mutex | add, remove, clear, send an object or a packet, dispatch one | peer manager, serialization |
| **serialization** (`src/include/breep/util/`) | none beyond a stream | write and read numbers, strings, containers, tuples | typed dispatch |
| **type traits** (`src/include/breep/util/type_traits.hpp`) | none | the name of a class and its hash | typed dispatch |
| **programs** (`src/examples/`, `src/tutorials/`) | a table of names; a game's turn | commands on the main thread, listeners on the network thread | `basic_network` |
| byte helpers, logger, exceptions | none, or output only | | |

### How they interact

An instance has one network thread, which runs `io_service::run`; handlers
never overlap. What makes the system concurrent is that there are many
instances, that user threads call `send`, `disconnect` and listener
registration, and that **one call blocks inside a handler**: `io_manager::connect`
waits in `read_some` for `connection_accepted` or `connection_refused`, from
`try_connect` (before the network thread exists) and from the loop of
`peers_list_handler` (on the network thread, which meanwhile accepts nothing).

A joining instance connects to one peer, asks it for its `peers_list`, and
dials everyone on it. Who could not be reached goes into
`m_failed_connections`, and each direct peer is asked for its distance; the
answers (`update_distance`) lead to `forward_to` and `forwarding_to`, which set
up a bridge: messages of a bridged pair are repeated by a peer in the middle.

### What is hard, and what correctness means

* **Membership.** Two instances may dial each other at once; lists are snapshots
  of a network that changes; a peer may leave and return before everyone noticed.
  There must never be two connections between two instances, nor a socket or a
  byte left over from an earlier one, and joins must end with everyone connected.
* **Stale pointers.** `path_to_passing_by` and `bridging_from_to` hold raw pointers
  to peers, and `peer_disconnected` clears only the entries keyed by the peer.
* **Failure.** A peer leaves, is killed, or falls silent at any moment: its end of
  stream must be read and the peer forgotten.
* **Routing.** Distances should stay short and never climb to 255 ("disconnected");
  bridges must be two-way; nobody should get a message twice. The code keeps the second, and of the third what is
  said of private messages (section 5).
* **Delivery.** Packets are cut arbitrarily by TCP and pass through a fixed buffer;
  sends are queued behind a chain of asynchronous writes that outlives the
  connection it was started for.
* **Threads and callbacks.** Locks held while calling user code, two deep where
  `basic_network` listens to a peer manager; start and stop from several threads; a
  program whose main thread and listeners share an object that has no mutex.
* **Lists that change while they are walked.** A listener may add and remove listeners of
  its own class: three lists per class and two mutexes keep that apart.
* **Objects on a stream.** Nothing on it says where an object ends: the reader must take
  what the writer put, for every type and every size, or the rest of a packet is lost.

`PROJECT.json` lists these as hazards, each at its line, with the properties that
cover it.

## 2. Modules

| Module | What it is |
| --- | --- |
| `PeerManager` | any number of instances, their tables, their connections and the commands on them |
| `MCPeerManager` | its instances for TLC: who reaches whom, one join at a time, the two liveness properties |
| `MCClimb` | seven instances that follow a script, to the counterexample of `DistanceBounded` in section 5 (907 states) |
| `PeerManager_proof` | type correctness and agreement of the maps |
| `Connections_proof` | soundness of the connections |
| `Routing_proof` | private messages are delivered once; a full mesh without departures; bridges go both ways |
| `Stream` | the abstract connection: what is sent arrives whole, once, in order |
| `SendQueue` | one entry of `m_data_queues`, from `send` to the socket |
| `SendQueue_proof` | type correctness, one chain, the order on each socket, and that the first connection is a `Stream` |
| `Framing`, `MCFraming` | one direction of a connection, from the bytes of a packet back to the packet |
| `Framing_proof` | every byte counts, and so a connection is a `Stream` of packets |
| `Threads`, `MCThreads` | the threads of one instance, its listener mutexes, and run() to join() |
| `Threads_proof` | type correctness, lock order, lists at rest, the handshake of run(), and the destructor |
| `Delivery` | what `basic_network` promises listeners: each object once to each, in order, unless one before it in its packet was read by nobody |
| `Dispatch`, `MCDispatch` | `basic_network` and its object builders, which implement `Delivery` |
| `Dispatch_proof` | type correctness, what becomes of the lists of listeners, and that `Delivery` is implemented |
| `Serializer` | what is written and read for each type, as operators |
| `Serialized`, `MCSerialized` | a writer and a reader of two objects |
| `TypeTraits` | what a class is called on the stream |
| `Programs`, `MCPrograms` | the tutorial's game and a chat, meeting on one network |
| `Programs_proof` | type correctness, names are counted and spread, and choices are told |

`Stream` is what `PeerManager` takes a connection for: its `chan[a][b]`, from which
`Taken` removes the first command and to which `Post` appends. `SendQueue` shows
what `send` makes of it up to the socket, `Framing` from the socket to
`data_received`; both have `Stream` as a PROPERTY, through
`INSTANCE Stream WITH ...`. The limits of the first are in section 5. `MCDispatch` puts objects
on its stream with the operators of `Serializer`, `Programs` takes hashes from
`TypeTraits`, and `Dispatch` has `Delivery` as a PROPERTY. `Dispatch` begins where `PeerManager` ends, at a
data listener of the peer manager; `Programs` begins at the listeners `Dispatch` calls.

### PeerManager

* *State.* `dist`, `path` and `bridging` are `m_peers` (id to distance),
  `m_me.path_to_passing_by` and `m_me.bridging_from_to`; `failed` is
  `m_failed_connections`. `phase`, `dial`, `answer`, `todo` and `got` are where the
  thread is: in `try_connect`, idle in `io_service::run`, or in the loop of
  `peers_list_handler`. `open` holds the socket ends that are open; `chan[a][b]` the
  commands a has sent and b has not handled, with an `Eof` at the end if a closed.
* *Steps.* A handler is one step. `peers_list_handler` and `try_connect` are split at
  the blocking `connect` and nowhere else: `HandlePeersList`, then `ScanDial` with
  `ScanConnects` or `ScanFails` for each entry, then `ScanEnds`. The dialled side's
  `accept`, `peer_connected` and answer are the step `Accept`. Several
  packets in one read, which `process_read` handles without going back to asio, are
  separate steps; other instances may move in between, which is more than the code does.
* *Dead pointers.* A pointer is `[to, live]`. Erasing a peer buries the pointers to it;
  `forward_to_handler` and `forwarding_to_handler` store the address of `source`, an
  argument of the read handler, which is dead when the handler returns. Using a dead
  pointer is undefined behaviour, taken as a choice (`Fate`) between finding the old bytes,
  losing the message, and a fault.
* *Uninitialised byte.* `update_distance` and `forwarding_to` copy one byte too few of the
  id into an uninitialised uuid; `whole` chooses whether it happens to be right.
* *Exceptions.* Nothing catches what a handler throws on the network thread: where
  `at()` finds no key the process ends (`Die`). The writes of `connect` (IO:166, 187) throw when the process they write to
  is gone: an instance that is killed resets the dials others have under way with it (`answer` is `"reset"`), which then either
  fail like any other, when it is a read that notices, or throw. `peers_list_handler` does not catch that (`ScanThrows`); from `try_connect`
  it reaches the caller of `connect()`, who finds the manager as after a failed one (`JoinFails`).
* *Endings.* `m_io_service.stop()` leaves in `m_data_queues` what has not been written. Who leaves or times a
  peer out has sent any part of what it had queued for it, from the first command on, and then the end (`Endings`).
* *Left out.* `connect_to`, `cant_connect`, `stop_forwarding` and `peer_disconnection`
  (no instance sends them); an id that answers at an address other than the one it is
  listed at; a handshake of another protocol; keep-alives (`Timeout` may hit any connection, silent or not); the synchronous writes of
  `accept` and of `connection_accepted` (IO:233, 249, 506) throwing; `disconnect()` during a handler of another thread.

### SendQueue

For one peer id: `buffers` is the queue in `m_data_queues`, which `process_connected_peer`
creates with `insert` (and so keeps if it is there) and nothing removes. `ready` is
the queue of handlers of `io_service`, `writes` the `async_write` under way. `Push` and `Done`
carry the connection whose copy of the peer they are bound to. `Lose` is a closed
socket: a pending write completes with an error, which `write_done` does not look at, and
a later one on that socket too. `Send` is possible once there has been a connection, open or not: a peer whose socket the timeout has closed
is still in `m_peers` and is sent to.

### Framing

`SubMax` is 255. `Encode` cuts a packet into sub-packets of at most `SubMax` bytes, each with
its length, 0 for a full one that is not the last. `Arrive` is the completion of `async_read_some`
with any number of bytes that fit; `Enter`, `ParseSub`, `ParseLast` and `ParsePartial` are the
head, the loop and the two exits of `process_read`, including the call of itself on what
follows a packet and the byte-wide count in `process_partial_read`. `Peek` is the read of
a length at `current_index`: past what has arrived it finds an old byte, past the end of
the array any byte.

### Threads

A thread is a stack of calls. A call takes the mutexes of `Locks` one by one (`Lock`), does its
work (`Works`), in which it may call further (`CallsBack`, `TellsLoss`), and gives them
back. `Tell` is the peer manager calling its listeners: `basic_network`'s own listener is one
of them and locks a second mutex. `Clear` is `clear_all`, or what `clear_any` does last: it changes the data listeners and takes none of these mutexes for it. `Starts`, `Started`, `Up`, `Reset`, `PollEnds`, `Down` are `run()`,
`sync_run` and `io_manager::run` statement by statement, `stopped` the flag of `io_service`.
`MayAssumption` is what a listener may do: data listeners may change the lists of connection and
disconnection listeners, and disconnect; connection listeners those of disconnection listeners. What it
leaves out waits for itself: `add_data_listener` of a new class or `send_object_to_self` in a data listener,
a list that changes in one of its own listeners, `disconnect()` in a disconnection listener. Threads other
than `Main` use neither `m_thread` nor the destructor, which have no mutex. `Destroys` is that of the whole object: `basic_network` declares
`m_manager` first (BN:718), so that its own lists and mutexes are gone (`Dead`) before `~basic_peer_manager` stops and joins the thread that
uses them. What comes of using them (`UsedDead`), or of clearing a list that is walked (`ClearedWalked`), is undefined (`Spoilt`); the model lets the process go on as if the
memory were there, and the properties that depend on it say so. Left out: `m_peers`,
`sync_run` and `sync_connect` called by users.

### Dispatch

`listeners`, `toAdd` and `toRemove` are the lists of an object builder, `d` the octets left in the deserializer.
`NetworkDataListener`, `Unwrap`, `ClassReceived`, `ClassMisread`, `ClassThrows`, `ClassPassedOver`, `ClassUnknown`, `DefaultListener`, `DefaultThrows`
are `network_data_listener` and `class_received` with its ways out: an object is built, or one is made of octets that are none, or that throws and
the default listener is called (OB:78-87); and the default listener reads, does nothing, or throws, which under `m_object_builder_mutex` leaves it locked (BN:693). `CallListener` and `Fired` the loop of `fire`, one
listener a step, so that other threads and the listeners themselves change the lists in between. `listening` is
what users have added and not removed: history, to compare with. One thread registers, because `m_id_count`
and `m_data_listeners` have no mutex that `add_data_listener` holds throughout; a `clear_any` in the very middle of `m_data_listeners.find` is left out.
Otherwise `ClearAll` and `ClearAny` come whenever the code lets them, also while the list they clear is walked: `freed` notes that, and `fire` then calls on, stops,
or ends the process.

`Delivery` is seen in it through the octets that are left: `OctetsBehind` has, for each k, the octets of a packet from its object
k + 1 on, and `Left` are the objects that begin before the octets not yet read (`Missed`). An object nobody listens for is
passed over with its hash alone, unless the default listener reads it; then the next hash is looked for in its octets, which is
`Astray`. What is done with such octets, `Delivery` leaves open (`Misread`) until an object begins where the reader is.

### Serializer and Serialized

Each type's branch of `left_shift_op_impl` and `right_shift_op_impl` is an operator over octets of `Bits`
bits. IEEE numbers are (class, sign, exponent, fraction) with the formats in `Exponent` and `Mantissa`; `toIEEE`'s loops
over powers of two are kept, with the factors they lack (`Raised`). `Put`, `Open` and `Take` make the
round trip. A plain enum is written as its integer: the overload of serializer.tcc:258 is for `T&&`, and `is_enum` of the reference it is given is false, so that
`int32_t`'s is chosen; it is read as `int64_t` (deserializer.tcc:306). `Reversible` are the types for which both sides agree; once an object of another has been
taken, the reader is where nothing is said of it (`InStep`). A type that is written and cannot be read, or the other way round, is not an object here.

### Programs

`Connected` is `peer_connected` at both ends; `Greets` the connection listener; `Receive` the network
thread taking one message, which it gives to the listeners whose class has its hash; `Input`, `Plays`, `Checks`, `Returns`
and `NextTurn` are the game's statements on either thread. `m_inputted` and `m_plays` are not atomic: what one thread has written the other finds or not (`Finds`) until it
has been through a mutex of the network's (`Written`). `untold` is history: the players this turn's choice has not been sent. `wire` is what `PeerManager` and `Dispatch` promise:
ordered messages and then an end, what was queued last possibly lost (`Disconnected`).
Two connections of one pair, and a peer that returns, are `PeerManager`'s.

## 3. What is checked

Every property of a passing run has a mutant: a definition changed as a slip in the code
might (`BadX` for `X`), under which TLC finds the property violated.

| Run | Question | Answer |
| --- | --- | --- |
| `mesh` | Do tables, sockets and bytes stay consistent through joins, leaves, rejoins, a timeout, a kill, a refusal and data? | yes |
| `joins` | As long as nobody leaves and everyone can reach everyone, does any interleaving of joins end a process or upset the order of data? | no |
| `bridge` | With one pair that can connect in one direction only and one process killed at any moment, are bridges two-way and private messages handed over once? | yes |
| `converge` | Do joins one after the other end with everyone connected, and are those who leave or die forgotten? | yes |
| `framing` | Is `process_read` the inverse of `send`, however the bytes are cut? | yes |
| `send_queue` | Is there one write at a time, no reordering, nothing of one connection on another and no stalled queue, through losses and reconnections? | yes |
| `serialized` | Is every object read back as written, and from exactly its octets? | yes, except numbers near zero, narrow plain enums and `forward_list<bool>` |
| `dispatch` | Is every object given once to each listener of its class, whatever listeners do to the lists, and is every message got through? | yes, for one registering thread, up to an object of a packet that nobody reads, a list cleared under its loop, and a default listener that throws with the mutex locked |
| `threads` | Can threads wait for each other in a ring, a list change under a loop, `run()` return too early, or a call never return? | no, within `MayAssumption`, but for `clear_all`, `clear_any` and the end of `basic_network`'s own members |
| `programs` | Do the programs count their players, learn all names, and tell everybody what has been played? | yes |
| `bridge_fault`, `lost_stop` | The findings of section 5. | violated |

Properties, by what they guard:

* connections: `OneConnectionPerPair`, `NoStrayConnection`, `HalfOpenEnds`, `EofIsLast`,
  `ThreadState`, `KeysAgree`, `DepartedIsForgotten`, `Converges`;
* routing: `BridgesArePaired`, `NoSelfCrash`;
* delivery: `DeliveredInOrder`, `PrivateOnce`, `PacketStream`, `EveryByteCounts`,
  `OneChain`, `OwnInOrder`, `FirstIsStream`, `QueueEmpties`;
* threads: `LocksAscend`, `WalkedListsRest`, `RunReturnsRunning`, `NothingOutlivesIt`, `CallsReturn`;
* listeners: `ListsAgree`, `RemovalIsConfirmed`, `WalksOwnList`, `ObjectsAreDelivered`, `AllHandled`;
* objects: `Exact`, `SelfDelimiting`;
* programs: `NamesCounted`, `NamesSpread`, `ChoiceTold`.

### Bounds

* `PeerManager`: three instances, the least with a peer that is neither end of a connection,
  a list with more than one entry, and a bridge. `mesh` (1.2 million states) allows one departure,
  one timeout, one kill and one message: each can hit any step of the others, also a scan, a
  handshake or a rejoin. Two departures, or a fourth instance, are beyond a run of a few
  minutes; for the invariants that are proved the theorems cover them. No symmetry is used: reachability, senders and refusals name instances.
  `bridge` has the reachability `OneWay`: c can be
  reached by a, a not by c, so that c's scan fails in one order and not in the other; its kill leaves dead pointers to follow.
* `Framing`: `SubMax` = 2 and `BufferLength` = 6, three packets of 1 to 5 bytes: one byte less,
  as many and one more than one and two sub-packets; the buffer holds a packet and part of
  the next, so that reads end within a command, at a length, within data and at the end
  of the array. Lengths, counts and the index follow `SubMax`, so nothing depends on 255
  itself; the byte-wide count wraps at `SubMax + 1`.
* `SendQueue`: three connections and three commands on each, so that a queue may hold
  buffers of all of them and the chain may be started by any.
* `Threads`: two user threads and seven calls by users, listeners and `io_service`: enough for a user's change, another's
  `disconnect()`, a `run()`, a handler, and a listener that calls `disconnect()` whose listeners call
  further. The theorems have no bound.
* `Dispatch`: one user thread and the network thread, two classes (one of them two lengths), two messages, two ids, and one
  object sent to self: an id may be in each list, be removed while it waits or while it is called, and a packet may
  follow a message. An object of the longer class has octets that equal a hash, so that a reader astray in it may find
  an object, lose the next one, or make another of it. Such a reader leaves at most two octets (`MaxRest`); the theorems have no bound.
* `Serialized`: octets of two bits, so that all integers of one and two octets and all floats of eight bits are
  gone through, with plain enums of eight octets and of fewer; sequences of 3, 4 and 16 elements and up to 5 flags are around the sizes at which a length and a mask
  grow. Nothing in the code depends on 8 but through `numeric_limits`.
* `Programs`: two games and a chat, two lines typed, one end (3.1 million states). A turn needs two plays; the chat is counted as a player
  and never plays, so that turns end when it is gone, or before its name has come; a second turn has one line typed in it, which is as far as `ChoiceTold` looks. One game is like another (symmetry); no liveness is checked with it.
  Hashes have 8 bits, enough to tell the five classes apart.
* Deadlock is not checked: an instance with nothing to read waits, a user need not call
  anything, and the bounds run out.

### Fairness

`WF(Progress(n))`: the thread of an instance goes on as long as it has something to do; it
is what `io_service::run` does, and the work between two calls from outside is finite, so
the order in which sockets are served does not matter. What users and the environment do
(`External`) is never forced. `Framing` assumes that the network thread reads while there is
something to read; `SendQueue` that `io_service::run` runs what is ready, and that a
peer whose socket stays open reads on. The last is the peer's own `Progress`; without
it the queue grows until the timeout.
In `Threads` and `Dispatch`, `WF(Step(t))` says that a thread that can go on does, and that listeners return; calls from outside are bounded,
so no mutex is kept from a thread by others that take it in turn. `Programs` needs no fairness: its properties are about
states at rest.
`SerialSpec` restricts the environment, never the instances: one instance starts
alone, the others join when nothing is under way, and at most one leaves or dies. When two
first instances start alone, or two dial each other, nothing in the code would join the parts.

## 4. What is proved

Eight modules hold 36 theorems and the lemmas they rest on, checked by TLAPS. The theorems on one component share
an inductive invariant, and TLC checked it on a run before it was proved. Nothing below bounds the number of
instances, threads, listeners, connections, packets or calls.

**Peer manager**, for any set of instances, any reachability and refusals and any bounds. All assume `PeerAssumption`,
`LinkAssumption` and `BoundAssumption` (`Peer` finite and without `NoPeer`; pairs of instances; natural bounds).

* `PeerManager_proof`: `TypeCorrect` (`TypeOK`) and `MapsAgree` (`KeysAgree`). The
  inductive invariant `Inv` is their conjunction: types alone are not inductive, because
  `dist[n][p]` and `bridging[n][p]` are looked up with keys of another map.
* `Connections_proof`: `OneConnection`, `NothingStray`, `EndsAreReported`, `EofComesLast`
  and `ThreadsAreSound`. None is inductive alone. The invariant `ConnInv` has three parts: `Inv`;
  `Threads`, about one instance at a time (where its thread is, whom it holds, and that it holds the
  peers of its open ends); and `PipesOf(open, chan)`, about channels only. The argument meets
  in `Accept`: the accepting side does not know the dialler (its code checks) and the
  dialler does not know the accepting side (its scan skips known peers), so by `Threads` neither has an
  open end, so by `PipesOf` neither channel has bytes, and the new connection starts clean.
  A half-open end can be read to its end because nothing follows an `Eof`.
* `Routing_proof`, on top of `ConnInv`:
  * `PrivateDeliveredOnce` (`PrivateOnce`), without a hypothesis. A private message is in one
    place, on one channel or with the listeners of one instance, and nowhere before it is sent (`Unique`).
    `send_to_handler` takes it off a channel and either hands it over or sends it on along one path, so a
    dead pointer, a wrong path or a crash can lose it and never double it. Broadcasts have no
    such invariant: bridges copy them, and `DeliveredOnce` is false of them (section 5).
  * `MeshNeverCrashes` (`NoSelfCrash`), `MeshDeliversInOrder` (`DeliveredInOrder`) and `MeshDeliversOnce` (`DeliveredOnce`), under `Mesh`: everybody reaches and accepts everybody, and nobody leaves,
    falls silent or is killed. `joins` is such a network; the theorems have any number of instances and messages, and any interleaving of joins. No dial fails,
    so that `m_failed_connections` and all bridges are empty and each path is the peer itself (`Plain`); hence each
    channel carries its sender's own messages only, in order, ahead of all the receiver has from it (`Orderly`).
    Without `Mesh` `NoSelfCrash` and `DeliveredOnce` are false (section 5).
  * `BridgesBothWays` (`BridgesArePaired`), under `NoReturn`: nobody leaves to come back or falls silent, while any
    process may be killed, any peer unreachable and any refused. `bridge` is such a network. `forward_to_handler` adds two entries, one each way
    (`Paired`); `peer_disconnected` removes the entries keyed by who has gone and
    leaves pointers to it, which lead to a peer that is known or one that is dead (`Points`). An end
    of stream is that of a dead process (`Lasting`), so a buried pointer is never one to a peer that is known again. Who leaves
    and returns under its old id is what this does not cover.

**Threads**, for any user threads, any listeners within `MayAssumption`, both layers and any number of calls.

* `Threads_proof`: `TypeCorrect` (`TypeOK`), `Ascending` (`LocksAscend`), `ListsRest` (`WalkedListsRest`) and
  `RunHandshake` (`RunReturnsRunning`). The inductive invariant `Inv` adds to types that each stack climbs
  (`Climb`: the mutexes of a call are above all those of the calls below it), that a mutex is owned by
  exactly the thread whose stack has it (`Owners`), where the network thread's stack may be (`NetSound`), and `Handshake`,
  which ties `m_running`, `m_waitfor_run` and the stage of `sync_run`. A thread that waits is at the top of a climbing stack,
  so what it wants is above what it has; two calls on one list both own that list's mutex, so they are the same thread's, and
  one stack does not climb to the same mutex twice. `clear_all` and `clear_any` have no such mutex for data listeners: of them, and of no other call,
  `WalkedListsRest` allows the data listeners to change under a loop.
* `InstanceOutlives` (`NothingOutlivesIt`), which is about `~basic_peer_manager` and not the members `basic_network` has destroyed before, needs `Ending` as well: only `Main` destroys, below nothing else, and other user
  threads are out of their calls by then; once the destructor waits, nothing but its own `join()` is above it, which
  it leaves only with a thread that has ended, and whom `join()` has taken nobody starts again.

They assume `LayerAssumption`, `ThreadAssumption` and `MayAssumption`. The lemmas on stacks come first, then one per action.

**Send queue**, for any number of connections with a peer (at least one), and of commands sent on each: `BoundAssumption` of `SendQueue`.

* `SendQueue_proof`: `TypeCorrect` (`TypeOK`), `ChainCorrect` (`OneChain`) and `OrderCorrect` (`OwnInOrder`). The inductive
  invariant `Inv` says one by one what `OneChain` counts (`Single`), orders everything sent, on the way to the queue,
  in it and behind it (`Sorted`, `Past`), and says that the chain was started for no later connection than any buffer's (`Chained`).
  The last is what keeps a buffer off a later connection's socket: the chain that writes has the current connection, no
  buffer is older than the chain and none is younger than the current connection. `WriteLinks` and `WriteEnds` say what the two calls of
  `write` and the three ways for one to end do to the parts of `Inv`; then there is one lemma per action.
* `FirstConnectionIsStream` (`FirstIsStream`), a refinement: `Gapless` adds that what the first connection has carried is
  numbered 1, 2, 3, and that what was sent and not carried is in the queue or on its way there while the connection
  is open. What `Drain` carries next is then what `Stream` takes next.

**Framing**, for any `SubMax`, any `BufferLength` the static_assert admits, any packets and any cuts: `SizeAssumption`, `BufferAssumption`, `PacketAssumption` and
`BoundAssumption` of `Framing`.

* `Framing_proof`: `TypeCorrect` (`TypeOK`), `BytesCorrect` (`EveryByteCounts`) and `PacketsAreStream` (`Spec => Packets!Spec`, the
  safety part of `PacketStream`). `EveryByteCounts` is nearly inductive; `Places` adds what the locals of `process_read` mean at each
  place, such as that `dynamic_buffer` is empty or full sub-packets, and that one byte alone is never a remainder put in front of
  what was read. A packet handed over is the first of those due since no encoding is
  the beginning of another's with more behind it (`EncodeUnique`): the lengths of two such encodings agree one by one
  up to the first that differs, which would be a full sub-packet's in one and the last one's in the other. What
  needs induction takes the least of a set of numbers (`LeastNumber`). That `process_read` always has room to read into is a
  different matter: it has none when `BufferLength` is `SubMax + 1` (section 5), where all that was read is right all the same.

**Typed dispatch**, for any user threads, classes, listeners and messages.

* `Dispatch_proof`: `TypeCorrect` (`TypeOK`), `ListsAlwaysAgree` (`ListsAgree`), `RemovalConfirmed` (`RemovalIsConfirmed`) and
  `FireWalksOwnList` (`WalksOwnList`). `ListsAgree` is about classes that are registered and not inductive: a class is
  registered again with the lists it has. `Lists` says it of every class, with nothing listed for one that has no builder. `Firing` says
  who fires, and that it has the mutex that `flush_listeners` is called under; what is
  added or removed meanwhile goes to `m_to_add` and `m_to_remove`. `ClearAll` and `ClearAny` take the list from under it without that mutex: then `freed` is set, and
  what the theorem says is that none of those still to be called listens any more. These four
  assume `ThreadAssumption`, `BoundAssumption` and `NoObjectAssumption` of `Dispatch`; nothing of octets or hashes, as a message may be
  read wrongly and the lists are right all the same.
* `ObjectsDelivered` (`ObjectsAreDelivered`), a refinement, for any messages: each step is one of `Delivery` or none. `Reading` says where the
  network thread is: at a message it has not begun, between two objects of one, or astray in a packet behind an object nobody
  has read. The mapping counts what is left by its length: fewer octets than follow an object lie behind it (`MissedGrows`),
  and no object is without a hash, so two ends of a packet of one length are one end. Where an object begins, its hash says its class (`HashRead`,
  from `HashAssumption`: hashes are of one length and differ) and its octets where it ends (`ObjectRead`, from
  `ObjectAssumption` and `OctetAssumption`: the octets of one object of a class are no beginning of another's, which `serialized` checks for
  `Serializer` as `SelfDelimiting`). `FireWalksOwnList` and `ListsAlwaysAgree` say that whom `fire` calls is who listens. It assumes
  `MessageAssumption` as well: what is no packet is one object.

**Programs**, for any finite set of games and chats.

* `Programs_proof`: `TypeCorrect` (`TypeOK`), `NamesAreCounted` (`NamesCounted`), `NamesAreSpread` (`NamesSpread`) and `ChoicesAreTold` (`ChoiceTold`). The names are right because of
  what is between two programs (`Line`): the line from p to q tells p's name once, after p has met q and before q
  has noted it, and nothing follows its end. `Acquainted` says that peers are introduced one by one. A choice is told because
  `m_inputted` is written before it is sent: a player whose name has been noted by then is sent it with the others, and one whose name comes later is told by
  `name_received`, for which the write is visible once `main()` has been through the send.
  The count of plays keeps its bound because of what may still be added to it (`Owed`): a play that is on the line, one that its
  player is about to send, or one it tells again to whom it hears the name of. A line that is typed adds one of the second and one of the third
  kind for each peer (two per line, `Owes`), and what is heard moves from the debt to the count, one for one.

They assume `GameAssumption` and `HashAssumption`: the five hashes differ. The latter is a computation on given names; `programs` evaluates it.

### Only model-checked

* Liveness, which is out of the prover's reach: `Converges`, `DepartedIsForgotten`, `QueueEmpties`, `CallsReturn`, `AllHandled`, the fairness part of
  `PacketStream`.
* `NoSelfCrash`, `DeliveredInOrder` and `BridgesArePaired` with departures, as far as they hold (section 5).
* `Exact` and `SelfDelimiting`: `Serializer` is recursive over types and lists.

## 5. Findings

Two are runs that TLC ends with a counterexample.

* `bridge_fault` violates `NoSelfCrash`. `forwarding_to_handler` (PM:554) makes a peer out of a failed
  connection, which has no `io_data`, and `process_connected_peer` dereferences it: two peers
  that cannot connect to each other but share a third, the case bridging is for, end a process.
* `lost_stop` violates `DisconnectStops`. `run()` returns when `sync_run` has unlocked `m_waitfor_run` (PM:129); a
  `disconnect()` that comes before the network thread reaches `m_io_service.reset()` (IO:270) is forgotten, and `join()` waits until somebody
  calls `disconnect()` again. The destructor does, so that it ends unless its own call is lost in the same way.

Others are properties stated in a module and refuted by TLC, without being among the runs of `PROJECT.json`:

* `DistanceBounded` (`MCClimb` with `climb.cfg`, seven instances). A better `update_distance` is answered with `forward_to` and passed on, so that peers that
  have failed to connect to a seventh ask each other for a way to it. It then connects to all of them, and their requests are handled
  after that: `forward_to_handler` (PM:496) answers with its distance of the moment, and `forwarding_to_handler` (PM:541) takes that plus one,
  though both have a connection of their own. Two peers that bridge each other count up from there, one more with each answer,
  and both have given up the path they had. Nobody leaves or is killed in this. The fifty connections and commands of the script
  lead to a distance of 7, which is no number of links (`detail/commands.hpp:92`) of any path; a longer script (2301 steps, replayed with TLC, not kept here) leads to 254, the last before "disconnected".
  It takes peers that can be connected to from one side only, and the uninitialised byte must be right each time.
* `DeliveredOnce` (`PeerManager`; as `bridge`, nobody killed). `forward_to` for one pair may be sent twice, and a bridge goes on when its ends have
  found each other: c gets a's broadcast from a and once more from b, which repeats it (PM:394).
* `PrivateNotReturned` (`PeerManager`; as `bridge`, one message). `send_to_handler` (PM:442) forwards along the path to the
  sender, not to the target.
* `ConnectReturns` (`PeerManager` with its `Fairness`; two instances). Two that call `connect()` on each other wait for
  ever in `read_some` (IO:204), since only a running network thread answers; a comment
  at PM:237 asks what happens then.
* `TimedOutIsForgotten` (`PeerManager`, `Fairness`, one timeout). `timeout_impl` closes the socket, the pending read fails, and
  its error branch (IO:415) takes a socket that is not open for a disconnection
  that was already reported: the peer stays in `m_peers` and no listener is told.
* `ReadHasRoom` (`Framing`, `BufferLength` = `SubMax` + 1). The static_assert of the constructor (IO:52) admits a
  `BUFFER_LENGTH` of 256; a command, a length and 254 bytes of a full sub-packet fill it, and
  the read that follows has no room. 257 works (the default is 1024; `framing`
  passes with `BufferLength` = `SubMax` + 2 too).
* `NothingSkipped` (`SendQueue`). A queue that is still being emptied into the closed socket of an earlier
  connection swallows what is sent first on the new one (IO:227). `PeerManager` takes every connection for
  a `Stream`, so it does not show what follows when, say, the `retrieve_peers` of a rejoining
  peer is swallowed; `FirstIsStream` says when `Stream` is right.
* `ReadsBack` (`Serialized`, as `serialized`). `ReturnType(2) << i` (`src/include/breep/util/impl/serializer.tcc:81`) wraps for the largest i: floats below
  2^-30 and doubles below 2^-62 in magnitude come back changed. A plain enum is written with the 4 octets of an `int32_t`, as the overload that would
  write an `int64_t` (serializer.tcc:258) is never chosen, and read with 8 (deserializer.tcc:306). And `forward_list<bool>` is written flag by flag
  (serializer.tcc:227) and read as packed flags (deserializer.tcc:329). `src/tutorials/1 - RPS.md:314` calls
  deserialization the reverse process.
* `NoListIsFreed` (`Dispatch`, as `dispatch`) and `WalkedListsStay` (`Threads`, as `threads`). `clear_all` (BN:598) clears `m_listeners` under the builder's own `m_mutex`, and
  `clear_any` (BN:615) destroys the builders under no mutex at all, while `fire` goes through the list under `m_object_builder_mutex`. A listener that
  clears its own class does that too. Their documentation (BN:593, 608) says nothing of when they may be called.
* `AlwaysUnlocks` (`Dispatch`, as `dispatch`). A default listener that throws for a registered class (BN:693) leaves `class_received` with
  `m_object_builder_mutex` locked; the next message waits for it for ever.
* `MembersOutliveTheirUse` (`Threads`, as `threads`). `basic_network` destroys its lists and mutexes (BN:720-730) before
  `m_manager` (BN:718), whose destructor stops and joins the thread that uses them (BN:161-176).
* `NoStuckTurn` (`Programs`, as `programs`). A turn that everybody has played may stay open: `m_plays.clear()` (RPS:126) on the main thread drops a play that
  `rpc_received` adds meanwhile; both threads may be in `next_turn` at once; the main thread and the network thread may each look at `m_plays` and `m_inputted` before
  they see the other's write, as neither is atomic (RPS:96-109); and nobody looks again when the last player who has not played leaves.

Seen while modelling, where a model would only restate the code, or where the behaviour is undefined:

* `disconnect()` on a user thread clears `m_peers` under a running handler; `basic_network`'s documentation (BN:438) warns of
  reading that map elsewhere, not of this. After a data listener calls it, the source it was given dangles.
* A second `remove_data_listener` of a listener that waited in `m_to_add` returns true again: `flush_listeners` leaves
  its lists as they are (OB:158), so an id that was flushed and erased is still found there. Nothing comes back for it (`ListsAgree`).
* An object of a packet that nobody
  reads leaves the reader out of step: its octets are taken for the next hash, until an object happens to begin where one is looked for; by then
  others may be lost, and listeners called with what nobody sent. A listener removed while it is still to be called is called for that message.
* Two threads that add data listeners of a new class race on `m_id_count` and `m_data_listeners`, and so do `add_data_listener` or `clear_any` and the network thread's
  `m_data_listeners.find`.
* The documentation of `remove_disconnection_listener` (BN:426) warns of a dead lock when a connection listener calls it. It locks `m_disconnection_mutex`, which a
  disconnection listener is called with: from one of these it waits for itself, and from a connection listener it does not (`LocksAscend`).
* A peer that is killed may take those with it that are dialling it: the writes of `connect` (IO:166, 187) throw, and `peers_list_handler` does not catch it (`ScanThrows`).
  The writes of `accept` (IO:233, 249, 506) are of the same kind.
* `run()` says it throws invalid_state while running; `require_non_running` makes the exception and does not throw it, so `run()` joins the running thread.
* "Exception thrown ... listener " + l.first (PM:172 and its like) moves a pointer instead of printing the id.
* `hash` ignores '>' , ' ' and one ':' of two, while its comment says '>' and ','; `A<B<C>,D>` and `A<B<C,D>>` have one hash.
* The game: a fast player's next play counts for a slow one's; `m_choice` goes twice to whoever joins in a turn. Text from a peer without a name is dropped, as `at()`
  throws and the caller catches. `main()`'s locals are destroyed while the network thread may still call listeners
  that refer to them, as `disconnect()` does not wait for it.

What `joins` and `MeshNeverCrashes` say of `NoSelfCrash` holds while nobody leaves: a
peer that leaves during another's scan leads to a failed connection, and from there to the lookups
at PM:678 and PM:485 that throw, or to `bridge_fault`.

## 6. Mutants

| Run | Property | Mutant | The slip |
| --- | --- | --- | --- |
| mesh | TypeOK | BadHangUp | the answer of a finished connect is kept |
| mesh | KeysAgree | BadPeerDisconnected | one map keeps the key |
| mesh | ThreadState, OneConnectionPerPair | BadHandlePeersList | known peers are dialled again |
| mesh | EofIsLast | BadTimeout | the socket stays open after the end is announced |
| mesh | HalfOpenEnds | BadCloseAll | sockets close without a word |
| mesh | NoStrayConnection | BadHandleEof | the socket of the failed read stays open |
| joins | DeliveredInOrder | BadPost | buffers are queued at the wrong end |
| joins | NoSelfCrash | BadHandlePeersList | known peers are dialled again |
| bridge | BridgesArePaired | BadHandleForwardTo | one direction is bridged |
| bridge | PrivateOnce | BadTaken | a command stays in the buffer |
| converge | Converges | BadHandleRetrievePeers | the wrong list is sent |
| converge | DepartedIsForgotten | BadCloseAll | sockets close without a word |
| framing | TypeOK | BadArrive | the room is taken to be the whole buffer |
| framing | EveryByteCounts | BadParseLast | what follows a packet is dropped |
| framing | PacketStream | BadFullSubs | a full last sub-packet gets the length 0 |
| send_queue | TypeOK | BadLose | the write under way is left on the closed socket |
| send_queue | OneChain | BadRunPush | every push starts a write |
| send_queue | OwnInOrder | BadWrite | a write takes the socket of the peer now known by the id |
| send_queue | FirstIsStream | BadDrain | the last buffer is written instead of the first |
| send_queue | QueueEmpties | BadRunDone | `write_done` does not go on |
| serialized | Exact | BadReadFlags | the last octet of flags is read whole |
| serialized | SelfDelimiting | BadOctetsOf | a size loses the octet it fills in part |
| dispatch | TypeOK | BadAddListener | the id is taken after the increment |
| dispatch | ListsAgree | BadClearAll | what waits in `m_to_add` stays |
| dispatch | RemovalIsConfirmed | BadRemoveListener | an id that waits in `m_to_add` is noted in `m_to_remove` |
| dispatch | WalksOwnList | BadSendToSelf | the mutex is not locked |
| dispatch | ObjectsAreDelivered | BadFlushed | what is to be removed is removed before the rest is added |
| dispatch | AllHandled | BadUnlock | the mutex is only unlocked on the way through `fire` |
| threads | TypeOK | BadDown | `m_thread` is given up before the thread has ended |
| threads | LocksAscend | BadLocks | the upper mutex is locked first |
| threads | WalkedListsRest | WorseLocks | a list is changed under another list's mutex |
| threads | RunReturnsRunning | BadUp | the user is let go before `m_running` is set |
| threads | NothingOutlivesIt | BadDestroys | the thread is not waited for |
| threads | CallsReturn | BadUnlock | only the outer mutex is unlocked |
| programs | TypeOK, NamesCounted | BadDisconnected | a player is counted out whose name is not known |
| programs | NamesSpread | BadGreets | the name is told once |
| programs | ChoiceTold | BadNameReceived | whoever comes late is not told what has been played |

## 7. Plan, and what is not modelled

Done: `PeerManager`, `SendQueue`, `Framing`, `Threads`, `Dispatch`, `Serializer`, `Programs`, the abstract `Stream` and
`Delivery`, and the proofs of section 4.

Next theorems: the order of broadcasts where nobody is bridged, whoever leaves; `NoSelfCrash` and a bound on distances under
hypotheses weaker than `Mesh`, which are still to be found.

Next modules: `Handshake`, `connect` and `accept` item by item (protocol id, id packet, answer), with either
end closing between two of them and the synchronous write that throws; `SendQueue` with `Framing` behind it, and a
`PeerManager` whose `Post` loses the first commands after a reconnection.

Not modelled:

* `connect_to`, `cant_connect`, `stop_forwarding`, `peer_disconnection`: handlers of commands that no instance sends.
* Byte order, logger, exceptions: without state, or output only.
* `io_manager_base.hpp`, `src/include/breep/network/tcp.hpp`: an interface and aliases.
* The first chat example and the tutorial's earlier listings: less of what `Programs` has.
* `stack`, `queue`, `priority_queue`, `duration` and pointers in the serializer: there is nothing to compare with when a type
  can be only written or only read.
