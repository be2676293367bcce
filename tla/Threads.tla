------------------------------- MODULE Threads -------------------------------
(***************************************************************************)
(* The threads of one instance: who may call what from where, the mutexes  *)
(* that guard the lists of listeners, and the network thread's life from   *)
(* run() to join().                                                        *)
(*                                                                         *)
(* A thread is a stack of calls.  A call locks its mutexes one by one,     *)
(* does its work, which may be further calls, unlocks them and returns.    *)
(* basic_network listens to a peer manager, so that its listeners are      *)
(* called with two mutexes locked; a program may also use a peer manager   *)
(* alone.  The io_service is its stopped flag, and handlers one at a time. *)
(*                                                                         *)
(* One user thread starts, stops and destroys: m_thread has no mutex.      *)
(*                                                                         *)
(* What becomes of a list that is cleared while it is walked, or of a list *)
(* or a mutex that is used after its destruction, is undefined (Spoilt):   *)
(* the process ends, or goes on as long as the memory is there.            *)
(***************************************************************************)
EXTENDS Naturals, SequencesExt

CONSTANTS
    User,       \* user threads
    Main,       \* the one that calls run, connect, join and the destructor
    Net,        \* the network thread
    Free,       \* owner of a mutex nobody has locked
    Layer,      \* "network", or "peer_manager" for one that is used alone
    May,        \* what listeners of each kind may call
    MaxCalls    \* bound: calls by users, listeners and io_service

Thread == User \union {Net}

ASSUME LayerAssumption == Layer \in {"network", "peer_manager"}
ASSUME ThreadAssumption == Main \in User /\ Net \notin User /\ Free \notin Thread /\ MaxCalls \in Nat

Kind == {"connection", "disconnection", "data"}

\* m_co_mutex, m_dc_mutex and m_data_mutex of the peer manager, and
\* m_connection_mutex, m_disconnection_mutex and m_object_builder_mutex of
\* basic_network, each with the list it guards.
Lower == [connection |-> "co", disconnection |-> "dc", data |-> "data"]
Upper == [connection |-> "connection", disconnection |-> "disconnection", data |-> "object_builder"]
Mutex == {"co", "dc", "data", "connection", "disconnection", "object_builder"}

\* A call: what it does, and to which listeners.  "tell" is what calls them
\* for a peer or a message, "change" what adds, removes or clears some of them
\* under their mutex: of basic_network's data listeners, what registers a new
\* class.  What is added to or removed from a registered one waits in lists that
\* nobody walks (see Dispatch).  "clear" is clear_all, or the end of clear_any, which
\* is a change of connection listeners and one of disconnection listeners before.
Op(does, kind) == [does |-> does, of |-> kind]

Tell(kind)   == Op("tell", kind)
Change(kind) == Op("change", kind)
SendToSelf   == Op("send_to_self", "data")
Clear        == Op("clear", "none")
Disconnect   == Op("disconnect", "disconnection")
Run          == Op("run", "none")
SyncRun      == Op("sync_run", "none")
Connect      == Op("connect", "none")
Join         == Op("join", "none")
Destroy      == Op("destroy", "none")

\* What any thread may call, and what is for Main.
Anywhere  == {Change(kind) : kind \in Kind} \union {SendToSelf, Clear, Disconnect}
Lifecycle == {Run, Connect, Join, Destroy}
Ops       == Anywhere \union Lifecycle \union {Tell(kind) : kind \in Kind} \union {SyncRun}

\* Data listeners may use the lists of connection listeners, both those of
\* disconnection listeners, and all may clear.  What the other way round waits for
\* itself, or for a thread that waits for it.
Height == [data |-> 1, connection |-> 2, disconnection |-> 3]

ASSUME MayAssumption ==
    \A kind \in Kind : \A op \in May[kind] : op \in Anywhere /\ (op = Clear \/ Height[kind] < Height[op.of])

VARIABLES
    stack,      \* the calls a thread is in
    owner,      \* who has locked a mutex
    running,    \* m_running
    ready,      \* m_waitfor_run can be locked
    stopped,    \* the io_service has been told to stop
    thread,     \* m_thread: "none", "alive", or "ended" and not joined
    gone,       \* the destructor has returned
    calls       \* counter of the bound

service == <<running, ready, stopped, thread, gone>>
vars    == <<stack, owner, service, calls>>

------------------------------------------------------------------------------
\* BadX is X with a plausible slip, which some property is to catch: see the
\* list of mutants in the README.  The upper mutex is locked first.
BadLocks(op) ==
    CASE op.does = "tell" ->
           IF Layer = "network" THEN <<Upper[op.of], Lower[op.of]>> ELSE <<Lower[op.of]>>
      [] op.does = "change" -> <<IF Layer = "network" THEN Upper[op.of] ELSE Lower[op.of]>>
      [] op.does = "send_to_self" -> <<Upper["data"]>>
      [] OTHER -> <<>>

\* basic_network's lists are changed under the peer manager's mutexes.
WorseLocks(op) ==
    CASE op.does = "tell" ->
           IF Layer = "network" THEN <<Lower[op.of], Upper[op.of]>> ELSE <<Lower[op.of]>>
      [] op.does = "change" -> <<Lower[op.of]>>
      [] op.does = "send_to_self" -> <<Upper["data"]>>
      [] OTHER -> <<>>

\* The mutexes of a call, in order.  clear_all and clear_any lock none of these for
\* what data listeners there are.
Locks(op) ==
    CASE op.does = "tell" ->
           IF Layer = "network" THEN <<Lower[op.of], Upper[op.of]>> ELSE <<Lower[op.of]>>
      [] op.does = "change" -> <<IF Layer = "network" THEN Upper[op.of] ELSE Lower[op.of]>>
      [] op.does = "send_to_self" -> <<Upper["data"]>>
      [] OTHER -> <<>>

\* A call: how many mutexes it has, and where it is.  "enter" until it leaves,
\* or until the stages of its own begin.
Frame(op) == [op |-> op, got |-> 0, at |-> "enter"]

Top(t) == Last(stack[t])

\* Where t is, with its mutexes locked.
Is(t, does, at) ==
    /\ stack[t] # <<>>
    /\ Top(t).op.does = does /\ Top(t).at = at /\ Top(t).got = Len(Locks(Top(t).op))

At(s, at)  == Append(Front(s), [Last(s) EXCEPT !.at = at])
Got(s, n)  == Append(Front(s), [Last(s) EXCEPT !.got = n])
Goes(t, at) == stack' = [stack EXCEPT ![t] = At(@, at)]
Calls(t, op) == stack' = [stack EXCEPT ![t] = Append(@, Frame(op))]

Init ==
    /\ stack = [t \in Thread |-> <<>>]
    /\ owner = [m \in Mutex |-> Free]
    /\ running = FALSE /\ ready = FALSE /\ stopped = FALSE
    /\ thread = "none" /\ gone = FALSE
    /\ calls = 0

------------------------------------------------------------------------------
(* Calls that come from outside: of users, of listeners and of io_service. *)

\* send_object_to_self and classes of data listeners are basic_network's.
Offers(op) == op \notin {SendToSelf, Clear} \/ Layer = "network"

Bounded == calls < MaxCalls /\ calls' = calls + 1

\* Nobody calls an object that is being destroyed.
Destroyed == gone \/ \E i \in DOMAIN stack[Main] : stack[Main][i].op = Destroy

\* connect() while the network runs is an error of the caller.
UserCalls(u) ==
    /\ u \in User /\ stack[u] = <<>> /\ ~Destroyed
    /\ Bounded
    /\ \E op \in Anywhere \union (IF u = Main THEN Lifecycle ELSE {}) :
         /\ Offers(op)
         /\ op = Connect => ~running
         /\ op = Destroy => \A v \in User : stack[v] = <<>>
         /\ Calls(u, op)
    /\ UNCHANGED <<owner, service>>

\* A listener calls back.
CallsBack(t) ==
    /\ Is(t, "tell", "enter") \/ Is(t, "send_to_self", "enter")
    /\ Bounded
    /\ \E op \in May[Top(t).op.of] : Offers(op) /\ Calls(t, op)
    /\ UNCHANGED <<owner, service>>

\* io_service::run calls a handler that calls listeners.
Handles ==
    /\ Is(Net, "sync_run", "polling") /\ ~stopped
    /\ Bounded
    /\ \E kind \in Kind : Calls(Net, Tell(kind))
    /\ UNCHANGED <<owner, service>>

------------------------------------------------------------------------------
(* Mutexes. *)

Lock(t) ==
    /\ stack[t] # <<>> /\ Top(t).at = "enter" /\ Top(t).got < Len(Locks(Top(t).op))
    /\ LET m == Locks(Top(t).op)[Top(t).got + 1]
       IN  owner[m] = Free /\ owner' = [owner EXCEPT ![m] = t]
    /\ stack' = [stack EXCEPT ![t] = Got(@, Top(t).got + 1)]
    /\ UNCHANGED <<service, calls>>

\* The work under the mutexes is done: listeners have been called, or a list changed.
Works(t) ==
    /\ \E does \in {"tell", "change", "send_to_self", "clear"} : Is(t, does, "enter")
    /\ Goes(t, "leave")
    /\ UNCHANGED <<owner, service, calls>>

\* Only the outer mutex is unlocked.
BadUnlock(t) ==
    /\ stack[t] # <<>> /\ Top(t).at = "leave" /\ Top(t).got > 0
    /\ owner' = [owner EXCEPT ![Locks(Top(t).op)[1]] = Free]
    /\ stack' = [stack EXCEPT ![t] = Got(@, 0)]
    /\ UNCHANGED <<service, calls>>

Unlock(t) ==
    /\ stack[t] # <<>> /\ Top(t).at = "leave" /\ Top(t).got > 0
    /\ owner' = [owner EXCEPT ![Locks(Top(t).op)[Top(t).got]] = Free]
    /\ stack' = [stack EXCEPT ![t] = Got(@, Top(t).got - 1)]
    /\ UNCHANGED <<service, calls>>

Return(t) ==
    /\ stack[t] # <<>> /\ Top(t).at = "leave" /\ Top(t).got = 0
    /\ stack' = [stack EXCEPT ![t] = Front(@)]
    /\ UNCHANGED <<owner, service, calls>>

------------------------------------------------------------------------------
(* disconnect(), join() and the destructor. *)

\* m_io_service.stop()
Stop(t) ==
    /\ Is(t, "disconnect", "enter")
    /\ stopped' = TRUE
    /\ Goes(t, "telling")
    /\ UNCHANGED <<owner, running, ready, thread, gone, calls>>

\* One turn of the loop over m_peers.
TellsLoss(t) ==
    /\ Is(t, "disconnect", "telling")
    /\ Bounded
    /\ Calls(t, Tell("disconnection"))
    /\ UNCHANGED <<owner, service>>

Disconnected(t) ==
    /\ Is(t, "disconnect", "telling")
    /\ Goes(t, "leave")
    /\ UNCHANGED <<owner, service, calls>>

\* A thread that is not there is not waited for.
Joins(t) ==
    /\ Is(t, "join", "enter")
    /\ thread # "alive"
    /\ thread' = "none"
    /\ Goes(t, "leave")
    /\ UNCHANGED <<owner, running, ready, stopped, gone, calls>>

\* The thread is not waited for.
BadDestroys(t) ==
    /\ \/ /\ Is(t, "destroy", "enter")
          /\ stack' = [stack EXCEPT ![t] = Append(At(@, "joining"), Frame(Disconnect))]
          /\ UNCHANGED gone
       \/ Is(t, "destroy", "joining") /\ gone' = TRUE /\ Goes(t, "leave")
    /\ UNCHANGED <<owner, running, ready, stopped, thread, calls>>

\* basic_network's own members are destroyed, and then its first member, the peer
\* manager, whose destructor disconnects and joins.
Destroys(t) ==
    /\ \/ /\ Is(t, "destroy", "enter")
          /\ stack' = [stack EXCEPT ![t] = Append(At(@, "joining"), Frame(Disconnect))]
          /\ UNCHANGED gone
       \/ /\ Is(t, "destroy", "joining")
          /\ stack' = [stack EXCEPT ![t] = Append(At(@, "joined"), Frame(Join))]
          /\ UNCHANGED gone
       \/ Is(t, "destroy", "joined") /\ gone' = TRUE /\ Goes(t, "leave")
    /\ UNCHANGED <<owner, running, ready, stopped, thread, calls>>

------------------------------------------------------------------------------
(* run() and connect(), and what they start. *)

\* require_non_running() does nothing; run() joins the thread there was.
Starts(t) ==
    /\ Is(t, "run", "enter")
    /\ thread # "alive"
    /\ thread' = "alive"
    /\ stack' = [stack EXCEPT ![t] = At(@, "waiting"), ![Net] = <<Frame(SyncRun)>>]
    /\ UNCHANGED <<owner, running, ready, stopped, gone, calls>>

\* m_waitfor_run.lock()
Started(t) ==
    /\ Is(t, "run", "waiting")
    /\ ready /\ ready' = FALSE
    /\ Goes(t, "leave")
    /\ UNCHANGED <<owner, running, stopped, thread, gone, calls>>

\* try_connect: with a connection, connection listeners are called, on this thread
\* and with no network thread, and then run(); without, the io_service is stopped.
Connects(t) ==
    \/ /\ Is(t, "connect", "enter")
       /\ stack' = [stack EXCEPT ![t] = Append(At(@, "connected"), Frame(Tell("connection")))]
       /\ UNCHANGED <<owner, service, calls>>
    \/ /\ Is(t, "connect", "enter")
       /\ stopped' = TRUE
       /\ Goes(t, "leave")
       /\ UNCHANGED <<owner, running, ready, thread, gone, calls>>
    \/ /\ Is(t, "connect", "connected")
       /\ stack' = [stack EXCEPT ![t] = Append(Front(@), Frame(Run))]
       /\ UNCHANGED <<owner, service, calls>>

\* The user is let go before m_running is set.
BadUp ==
    \/ /\ Is(Net, "sync_run", "enter")
       /\ ready' = TRUE
       /\ Goes(Net, "up")
       /\ UNCHANGED <<owner, running, stopped, thread, gone, calls>>
    \/ /\ Is(Net, "sync_run", "up")
       /\ running' = TRUE
       /\ Goes(Net, "posted")
       /\ UNCHANGED <<owner, ready, stopped, thread, gone, calls>>

\* m_running = true; m_waitfor_run.unlock()
Up ==
    \/ /\ Is(Net, "sync_run", "enter")
       /\ running' = TRUE
       /\ Goes(Net, "up")
       /\ UNCHANGED <<owner, ready, stopped, thread, gone, calls>>
    \/ /\ Is(Net, "sync_run", "up")
       /\ ready' = TRUE
       /\ Goes(Net, "posted")
       /\ UNCHANGED <<owner, running, stopped, thread, gone, calls>>

\* m_io_service.reset(), which forgets that it was stopped
Reset ==
    /\ Is(Net, "sync_run", "posted")
    /\ stopped' = FALSE
    /\ Goes(Net, "polling")
    /\ UNCHANGED <<owner, running, ready, thread, gone, calls>>

\* io_service::run returns, m_running = false, and the thread ends.
PollEnds ==
    /\ Is(Net, "sync_run", "polling") /\ stopped
    /\ Goes(Net, "down")
    /\ UNCHANGED <<owner, service, calls>>

\* m_thread is given up before the thread has ended.
BadDown ==
    /\ Is(Net, "sync_run", "down")
    /\ running' = FALSE /\ thread' = "none"
    /\ UNCHANGED <<stack, owner, ready, stopped, gone, calls>>

Down ==
    /\ Is(Net, "sync_run", "down")
    /\ running' = FALSE /\ thread' = "ended"
    /\ stack' = [stack EXCEPT ![Net] = <<>>]
    /\ UNCHANGED <<owner, ready, stopped, gone, calls>>

NetStep == Up \/ Reset \/ PollEnds \/ Down

MainStep(t) == Joins(t) \/ Destroys(t) \/ Starts(t) \/ Started(t) \/ Connects(t)

\* What a thread does that is in a call.
Step(t) ==
    \/ Lock(t) \/ Works(t) \/ Unlock(t) \/ Return(t)
    \/ Stop(t) \/ Disconnected(t)
    \/ MainStep(t)
    \/ t = Net /\ NetStep

Next ==
    \/ Handles
    \/ \E t \in Thread : UserCalls(t) \/ CallsBack(t) \/ TellsLoss(t) \/ Step(t)

Spec == Init /\ [][Next]_vars

\* Threads run, and listeners return.  Nobody keeps getting a mutex before another,
\* as calls are finite in number.
FairSpec == Spec /\ \A t \in Thread : WF_vars(Step(t))

------------------------------------------------------------------------------
Stages == {"enter", "leave", "telling", "joining", "joined", "waiting", "connected", "up", "posted", "polling", "down"}

Frames == {f \in [op : Ops, got : 0..2, at : Stages] : f.got <= Len(Locks(f.op))}

\* Calls have no more mutexes than they lock, and there is a network thread as long
\* as m_thread has not ended (members of both classes).
TypeOK ==
    /\ stack \in [Thread -> Seq(Frames)]
    /\ owner \in [Mutex -> Thread \union {Free}]
    /\ running \in BOOLEAN /\ ready \in BOOLEAN /\ stopped \in BOOLEAN /\ gone \in BOOLEAN
    /\ thread \in {"none", "alive", "ended"}
    /\ thread = "alive" <=> stack[Net] # <<>>
    /\ calls \in 0..MaxCalls

\* What t waits for.
Wants(t, m) ==
    /\ stack[t] # <<>> /\ Top(t).at = "enter" /\ Top(t).got < Len(Locks(Top(t).op))
    /\ m = Locks(Top(t).op)[Top(t).got + 1]

Rank == [data |-> 1, object_builder |-> 2, co |-> 3, connection |-> 4, dc |-> 5, disconnection |-> 6]

\* Threads wait upwards, so that no ring of threads waits for itself, and no thread
\* for a mutex it has: not even a data listener that calls disconnect(), which
\* calls disconnection listeners (all lock_guards of basic_peer_manager and basic_network).
LocksAscend == \A t \in Thread, m, n \in Mutex :
    Wants(t, m) /\ owner[n] = t => Rank[n] < Rank[m]

\* The lists a call goes through, and those it changes.
Walked(op) ==
    CASE op.does = "tell" -> {Lower[op.of]} \union (IF Layer = "network" THEN {Upper[op.of]} ELSE {})
      [] op.does = "send_to_self" -> {Upper["data"]}
      [] OTHER -> {}

Changed(op) ==
    CASE op.does = "change" -> {IF Layer = "network" THEN Upper[op.of] ELSE Lower[op.of]}
      [] op.does = "clear"  -> {Upper["data"]}
      [] OTHER -> {}

\* The calls t is in that have their mutexes.
Inside(t) == {stack[t][i].op : i \in {i \in DOMAIN stack[t] :
                 stack[t][i].at = "enter" /\ stack[t][i].got = Len(Locks(stack[t][i].op))}}

\* No listener is added to or removed from a list that some thread is calling
\* the listeners of, that thread included, and nobody clears one but clear_all and
\* clear_any the data listeners (the range-based loops over m_co_listener,
\* m_dc_listener and their like).
WalkedListsRest == \A t, u \in Thread : \A p \in Inside(t), q \in Inside(u) :
    Walked(p) \intersect Changed(q) \subseteq (IF q = Clear THEN {Upper["data"]} ELSE {})

\* run() returns with is_running() true, unless somebody has stopped the network
\* already (m_waitfor_run).
RunReturnsRunning == ready => running \/ stopped

\* When the destructor has returned, the network thread is over and no call is under
\* any mutex (~basic_peer_manager; what basic_network itself has is gone before, see
\* MembersOutliveTheirUse).
NothingOutlivesIt == gone => stack[Net] = <<>> /\ \A m \in Mutex : owner[m] = Free

\* The mutexes, with their lists, that ~basic_network has destroyed already.
Dead == IF Layer = "network" /\ \E i \in DOMAIN stack[Main] :
               stack[Main][i].op = Destroy /\ stack[Main][i].at # "enter"
        THEN Range(Upper) ELSE {}

UsedDead == \E t \in Thread : \E m \in Dead : Wants(t, m) \/ owner[m] = t

ClearedWalked == \E t, u \in Thread : \E p \in Inside(t) : Clear \in Inside(u) /\ Walked(p) \intersect Changed(Clear) # {}

Spoilt == UsedDead \/ ClearedWalked

\* Main waits for a network thread that is told to stop no more: nobody has stopped
\* it, or run() has forgotten it (see DisconnectStops).
AwaitsNetwork ==
    /\ Is(Main, "run", "enter") \/ Is(Main, "join", "enter")
    /\ thread = "alive" /\ ~stopped

Idle(t) == Len(stack[t]) <= IF t = Net THEN 1 ELSE 0

\* Every call returns, whatever the others do, except that run() and join() wait
\* for a network thread that goes on because nobody stops it or the stop has been
\* lost, and as long as nothing undefined is done.  Nobody waits for ever for a
\* mutex: what a connection listener calls is not in a dead lock in
\* remove_disconnection_listener, as basic_network.hpp:426 says.
CallsReturn == \A t \in Thread :
    []<>Idle(t) \/ (t = Main /\ <>[]AwaitsNetwork) \/ <>Spoilt

\* disconnect() stops the network (tutorials/1 - RPS.md:53).
DisconnectStops == \A t \in Thread : Is(t, "disconnect", "telling") ~> ~running

------------------------------------------------------------------------------
(* What the code does not live up to: see the README. *)

\* No list is cleared while it is walked (clear_all and clear_any, basic_network.hpp:593
\* and :608, which say nothing of when they may be called).
WalkedListsStay == ~ClearedWalked

\* What basic_network has is destroyed when nobody uses it any more.
MembersOutliveTheirUse == ~UsedDead
==============================================================================
