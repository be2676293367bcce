------------------------------ MODULE Dispatch ------------------------------
(***************************************************************************)
(* basic_network: objects of several classes on one stream.  A message is  *)
(* the hash of a class and an object, or the hash of `packet` and any      *)
(* number of these.  The network thread takes it apart and calls the       *)
(* listeners of each class; user threads register and remove listeners and *)
(* send to self meanwhile.                                                 *)
(*                                                                         *)
(* Listeners are called one after the other in any order, under            *)
(* m_object_builder_mutex, with the lists of all other threads at work in  *)
(* between; a step under m_mutex, which nothing is called under, is one    *)
(* action.  clear_all and clear_any do not ask who is walking the list they*)
(* clear.  m_data_listeners and m_id_count have no mutex of their own: one *)
(* thread registers and clears, nobody looks for a class at that very      *)
(* moment, and the default listener is set beforehand.                     *)
(***************************************************************************)
EXTENDS Naturals, SequencesExt

CONSTANTS
    User,           \* user threads
    Net,            \* the network thread
    Free,           \* owner of a mutex nobody has locked
    Class,          \* type_traits of the classes: their names
    HashOf,         \* hash_code() of a class, as it is on the stream
    PacketHash,     \* and of breep::packet
    Object,         \* objects: records with a class
    ObjectOctets,   \* what serializer makes of them
    Message,        \* what peers send: records [packet, objects]
    Registrar,      \* threads that may be the one that registers
    MaxSent, MaxIds, MaxSelf,   \* bounds: messages, listeners, objects sent to self,
    MaxRest         \* octets that are left behind an object that was none

Thread == User \union {Net}
Id     == 0..(MaxIds - 1)

ASSUME ThreadAssumption == Net \notin User /\ Free \notin Thread /\ Registrar \subseteq Thread
ASSUME HashAssumption ==
    \A c \in Class : /\ HashOf[c] # PacketHash /\ Len(HashOf[c]) = Len(PacketHash)
                   /\ \A e \in Class : HashOf[c] = HashOf[e] => c = e
ASSUME ObjectAssumption ==
    \A o, p \in Object : o.class = p.class /\ IsPrefix(ObjectOctets[o], ObjectOctets[p]) => o = p
ASSUME OctetAssumption ==
    /\ PacketHash \in Seq(Nat) /\ \A c \in Class : HashOf[c] \in Seq(Nat)
    /\ \A o \in Object : o.class \in Class /\ ObjectOctets[o] \in Seq(Nat)
ASSUME MessageAssumption ==
    \A m \in Message : m.objects \in Seq(Object) /\ (m.packet \/ Len(m.objects) = 1)
ASSUME BoundAssumption == MaxSent \in Nat /\ MaxIds \in Nat /\ MaxSelf \in Nat /\ MaxRest \in Nat

VARIABLES
    registered, \* the keys of m_data_listeners
    listeners,  \* of each object builder m_listeners,
    toAdd,      \* m_to_add,
    toRemove,   \* and m_to_remove
    count,      \* m_id_count
    default,    \* m_unlistened_listener: "none", or what it may do with the object
    mutex,      \* who owns m_object_builder_mutex
    inbox,      \* messages that have arrived
    d,          \* the octets left in the deserializer
    hash,       \* the hash last read
    message,    \* the message being taken apart
    at,         \* where a thread is
    todo,       \* the listeners it has still to call
    object,     \* and with what
    freed,      \* whether the list that is walked has been cleared
    registrar,  \* the thread that registers
    listening,  \* the listeners users have added and not removed since
    refused,    \* those of them remove_data_listener has answered with false
    sent, selfSent  \* counters of the bounds

lists    == <<registered, listeners, toAdd, toRemove, count, listening>>
reading  == <<inbox, d, hash, message>>
firing   == <<mutex, at, todo, object, freed>>
constant == <<default, registrar>>
vars     == <<lists, reading, firing, constant, refused, sent, selfSent>>

------------------------------------------------------------------------------
(***************************************************************************)
(* What is on the stream: octets, of which a hash takes HashSize.  The     *)
(* octets of an object say where it ends (see SelfDelimiting).             *)
(***************************************************************************)
HashSize == Len(PacketHash)

ClassOctets(o) == HashOf[o.class] \o ObjectOctets[o]

\* What is left of a packet's octets from its object k + 1 on.
OctetsBehind(objects) ==
    LET behind[k \in 0..Len(objects)] ==
            IF k = Len(objects) THEN <<>> ELSE ClassOctets(objects[k + 1]) \o behind[k + 1]
    IN  behind

PacketOctets(objects) == OctetsBehind(objects)[0]

Octets(m) == IF m.packet THEN PacketHash \o PacketOctets(m.objects) ELSE ClassOctets(m.objects[1])

\* A hash that is cut short by the end of the stream is none of a class.
HashAt(octets) == IF Len(octets) < HashSize THEN octets ELSE SubSeq(octets, 1, HashSize)
After(octets, n) == SubSeq(octets, n + 1, Len(octets))

ObjectsAt(classes, octets) == {o \in Object : o.class \in classes /\ IsPrefix(ObjectOctets[o], octets)}

Hashed(classes, val) == {c \in classes : HashOf[c] = val}

NoMessage == [packet |-> FALSE, objects |-> <<>>]
NoObject  == [class |-> "none", val |-> <<>>]

ASSUME NoObjectAssumption == NoObject \notin Object

Init ==
    /\ registered = {} /\ count = 0
    /\ listeners = [c \in Class |-> {}]
    /\ toAdd = listeners /\ toRemove = listeners /\ listening = listeners
    /\ default \in {"none", "reads", "throws"} /\ registrar \in Registrar
    /\ mutex = Free
    /\ inbox = <<>> /\ d = <<>> /\ hash = <<>> /\ message = NoMessage
    /\ at = [t \in Thread |-> "idle"]
    /\ todo = [t \in Thread |-> {}]
    /\ object = [t \in Thread |-> NoObject]
    /\ freed = FALSE
    /\ refused = {}
    /\ sent = 0 /\ selfSent = 0

\* A peer's send_object or send_packet, as it comes out of the peer manager.
Arrive ==
    /\ sent < MaxSent
    /\ \E m \in Message : inbox' = Append(inbox, m)
    /\ sent' = sent + 1
    /\ UNCHANGED <<lists, d, hash, message, firing, constant, refused, selfSent>>

------------------------------------------------------------------------------
(* object_builder, under m_mutex. *)

\* BadX is X with a plausible slip, which some property is to catch: see the
\* list of mutants in the README.  Those to remove are removed before those to
\* add are added.
BadFlushed(c) == (listeners[c] \ toRemove[c]) \union toAdd[c]

\* Neither m_to_add nor m_to_remove is emptied.
Flushed(c) == (listeners[c] \union toAdd[c]) \ toRemove[c]

FlushListeners(c) ==
    /\ listeners' = [listeners EXCEPT ![c] = Flushed(c)]
    /\ UNCHANGED <<registered, toAdd, toRemove, count, listening>>

\* The id is taken after the increment.
BadAddListener(c) ==
    /\ toAdd' = [toAdd EXCEPT ![c] = @ \union {count + 1}]
    /\ count' = count + 1
    /\ listening' = [listening EXCEPT ![c] = @ \union {count + 1}]

\* add_listener, with the id add_data_listener gives it
AddListener(c) ==
    /\ toAdd' = [toAdd EXCEPT ![c] = @ \union {count}]
    /\ count' = count + 1
    /\ listening' = [listening EXCEPT ![c] = @ \union {count}]

Answered(c, id, true) ==
    refused' = IF true \/ id \notin listening[c] THEN refused ELSE refused \union {<<c, id>>}

\* Those to remove are noted whether they are in m_listeners or not.
BadRemoveListener(c, id) ==
    /\ toRemove' = [toRemove EXCEPT ![c] = @ \union {id}]
    /\ Answered(c, id, id \in listeners[c])
    /\ UNCHANGED toAdd

RemoveListener(c, id) ==
    /\ Answered(c, id, IF id \in listeners[c] THEN id \notin toRemove[c] ELSE id \in toAdd[c])
    /\ IF id \in listeners[c]
       THEN toRemove' = [toRemove EXCEPT ![c] = @ \union {id}] /\ UNCHANGED toAdd
       ELSE toAdd' = [toAdd EXCEPT ![c] = @ \ {id}] /\ UNCHANGED toRemove

------------------------------------------------------------------------------
(* The network thread. *)

\* Where the network thread goes on after class_received.
Onward == IF message.packet THEN "packet" ELSE "idle"

\* The locals of a message that has been handled are gone.
GoesOn(stage, rest) ==
    /\ at' = [at EXCEPT ![Net] = stage]
    /\ d' = IF stage = "idle" THEN <<>> ELSE rest
    /\ hash' = IF stage = "idle" THEN <<>> ELSE hash
    /\ message' = IF stage = "idle" THEN NoMessage ELSE message

\* network_data_listener; what is not a packet is one class.
NetworkDataListener ==
    /\ at[Net] = "idle" /\ inbox # <<>>
    /\ LET octets == Octets(Head(inbox))
       IN  /\ hash' = HashAt(octets) /\ d' = After(octets, HashSize)
           /\ at' = [at EXCEPT ![Net] = IF HashAt(octets) = PacketHash THEN "packet" ELSE "lookup"]
    /\ message' = Head(inbox) /\ inbox' = Tail(inbox)
    /\ UNCHANGED <<lists, mutex, todo, object, freed, constant, refused, sent, selfSent>>

\* while (!d.empty())
Unwrap ==
    /\ at[Net] = "packet"
    /\ IF d = <<>>
       THEN GoesOn("idle", <<>>)
       ELSE /\ at' = [at EXCEPT ![Net] = "lookup"]
            /\ hash' = HashAt(d) /\ d' = After(d, HashSize) /\ UNCHANGED message
    /\ UNCHANGED <<lists, inbox, mutex, todo, object, freed, constant, refused, sent, selfSent>>

\* fire, up to its first call; the mutex stays locked.
Fires(t, o, ids) ==
    /\ mutex' = t
    /\ at' = [at EXCEPT ![t] = "fire"]
    /\ todo' = [todo EXCEPT ![t] = ids]
    /\ object' = [object EXCEPT ![t] = o]
    /\ UNCHANGED freed

\* m_data_listeners.find
Found == Hashed(registered, hash)

\* class_received and build_and_call for a class with listeners
ClassReceived ==
    /\ at[Net] = "lookup" /\ mutex = Free
    /\ \E c \in Found : \E o \in ObjectsAt({c}, d) :
         /\ Flushed(c) # {}
         /\ FlushListeners(c)
         /\ Fires(Net, o, listeners'[c])
         /\ d' = After(d, Len(ObjectOctets[o]))
    /\ UNCHANGED <<inbox, hash, message, constant, refused, sent, selfSent>>

\* What a reader may leave that finds no object.
Rests == {rest \in Suffixes(d) : Len(rest) <= MaxRest}

\* ... where there is no object of the class: octets are missing, or there are too
\* many of them, and what is built is any object
ClassMisread ==
    /\ at[Net] = "lookup" /\ mutex = Free
    /\ \E c \in Found : \E o \in Object :
         /\ o.class = c /\ ObjectsAt({c}, d) = {}
         /\ Flushed(c) # {}
         /\ FlushListeners(c)
         /\ Fires(Net, o, listeners'[c])
    /\ d' \in Rests
    /\ UNCHANGED <<inbox, hash, message, constant, refused, sent, selfSent>>

\* What calls the default listener calls it under the mutex.
Unlistened(rest) ==
    /\ GoesOn(IF default = "none" THEN Onward ELSE "default", rest)
    /\ mutex' = IF default = "none" THEN Free ELSE Net

\* ... or an exception, such as that of a reserve() of a size that is none
ClassThrows ==
    /\ at[Net] = "lookup" /\ mutex = Free
    /\ \E c \in Found : ObjectsAt({c}, d) = {} /\ Flushed(c) # {} /\ FlushListeners(c)
    /\ \E rest \in Rests : Unlistened(rest)
    /\ UNCHANGED <<inbox, todo, object, freed, constant, refused, sent, selfSent>>

\* ... for a class without listeners
ClassPassedOver ==
    /\ at[Net] = "lookup" /\ mutex = Free
    /\ \E c \in Found : Flushed(c) = {} /\ FlushListeners(c)
    /\ Unlistened(d)
    /\ UNCHANGED <<inbox, todo, object, freed, constant, refused, sent, selfSent>>

\* ... for a class that is not registered.  It is called without the mutex.
ClassUnknown ==
    /\ at[Net] = "lookup" /\ mutex = Free
    /\ Found = {}
    /\ GoesOn(IF default = "none" THEN Onward ELSE "default", d)
    /\ UNCHANGED <<lists, inbox, mutex, todo, object, freed, constant, refused, sent, selfSent>>

\* The mutex is only unlocked on the way through fire.
BadUnlock == UNCHANGED mutex

Unlock == mutex' = IF mutex = Net THEN Free ELSE mutex

\* m_unlistened_listener, which may know the class and read the object.
DefaultListener ==
    /\ at[Net] = "default"
    /\ LET objects == IF default = "reads" THEN ObjectsAt(Hashed(Class, hash), d) ELSE {}
       IN  IF objects = {}
           THEN GoesOn(Onward, d)
           ELSE \E o \in objects : GoesOn(Onward, After(d, Len(ObjectOctets[o])))
    /\ Unlock
    /\ UNCHANGED <<lists, inbox, todo, object, freed, constant, refused, sent, selfSent>>

\* An exception is caught where the mutex has been unlocked; where it has not, it
\* leaves class_received and what is left of the message, and nobody unlocks it.
DefaultThrows ==
    /\ at[Net] = "default" /\ default = "throws"
    /\ GoesOn(IF mutex = Net THEN "idle" ELSE Onward, d)
    /\ UNCHANGED <<lists, inbox, mutex, todo, object, freed, constant, refused, sent, selfSent>>

------------------------------------------------------------------------------
(* Any thread. *)

\* One turn of the loop of fire.  Over a list that has been freed it ends the process,
\* ends early, or goes on as long as the old nodes are there.
CallListener(t) ==
    /\ at[t] = "fire"
    /\ \E id \in todo[t] : todo' = [todo EXCEPT ![t] = @ \ {id}]
    /\ UNCHANGED <<lists, reading, mutex, at, object, freed, constant, refused, sent, selfSent>>

Fired(t) ==
    /\ at[t] = "fire" /\ (todo[t] = {} \/ freed)
    /\ mutex' = Free
    /\ IF t = Net THEN GoesOn(Onward, d)
                  ELSE at' = [at EXCEPT ![t] = "idle"] /\ UNCHANGED <<d, hash, message>>
    /\ todo' = [todo EXCEPT ![t] = {}]
    /\ object' = [object EXCEPT ![t] = NoObject]
    /\ freed' = FALSE
    /\ UNCHANGED <<lists, inbox, constant, refused, sent, selfSent>>

\* A user thread, a listener or the default listener may call back.
RunsUserCode(t) ==
    CASE at[t] = "fire"    -> todo[t] # listeners[object[t].class] \/ freed
      [] at[t] = "default" -> TRUE
      [] OTHER             -> t \in User

\* add_data_listener for a class that is registered
AddToRegistered(t) ==
    /\ t = registrar /\ RunsUserCode(t) /\ count < MaxIds
    /\ \E c \in registered : AddListener(c)
    /\ UNCHANGED <<registered, listeners, toRemove, reading, firing, constant, refused, sent, selfSent>>

\* and for a new one.  A listener would wait for itself.
AddNew(t) ==
    /\ t = registrar /\ RunsUserCode(t) /\ count < MaxIds
    /\ mutex = Free
    /\ \E c \in Class \ registered : registered' = registered \union {c} /\ AddListener(c)
    /\ UNCHANGED <<listeners, toRemove, reading, firing, constant, refused, sent, selfSent>>

\* remove_data_listener, for a class that is registered
RemoveDataListener(t) ==
    /\ RunsUserCode(t)
    /\ \E c \in registered, id \in 0..(count - 1) :
         /\ RemoveListener(c, id)
         /\ listening' = [listening EXCEPT ![c] = @ \ {id}]
    /\ UNCHANGED <<registered, listeners, count, reading, firing, constant, sent, selfSent>>

\* m_listeners is cleared, whoever walks it.
Frees(c) == freed' = (freed \/ \E t \in Thread : at[t] = "fire" /\ object[t].class = c)

\* What waits in m_to_add stays.
BadClearAll(t) ==
    /\ t = registrar /\ RunsUserCode(t)
    /\ \E c \in registered :
         /\ listeners' = [listeners EXCEPT ![c] = {}]
         /\ toRemove' = [toRemove EXCEPT ![c] = {}]
         /\ listening' = [listening EXCEPT ![c] = {}]
         /\ Frees(c)
    /\ UNCHANGED <<registered, toAdd, count, reading, mutex, at, todo, object, constant, refused, sent, selfSent>>

\* clear_all, under m_mutex only
ClearAll(t) ==
    /\ t = registrar /\ RunsUserCode(t)
    /\ \E c \in registered :
         /\ listeners' = [listeners EXCEPT ![c] = {}]
         /\ toAdd' = [toAdd EXCEPT ![c] = {}]
         /\ toRemove' = [toRemove EXCEPT ![c] = {}]
         /\ listening' = [listening EXCEPT ![c] = {}]
         /\ Frees(c)
    /\ UNCHANGED <<registered, count, reading, mutex, at, todo, object, constant, refused, sent, selfSent>>

\* clear_any; the object builders go, in use or not
ClearAny(t) ==
    /\ t = registrar /\ RunsUserCode(t)
    /\ registered' = {}
    /\ listeners' = [c \in Class |-> {}]
    /\ toAdd' = listeners' /\ toRemove' = listeners' /\ listening' = listeners'
    /\ freed' = \E u \in Thread : at[u] = "fire"
    /\ UNCHANGED <<count, reading, mutex, at, todo, object, constant, refused, sent, selfSent>>

\* The mutex is not locked first.
BadSendToSelf(t) ==
    /\ t \in User /\ at[t] = "idle" /\ selfSent < MaxSelf
    /\ \E o \in Object :
         /\ o.class \in registered
         /\ FlushListeners(o.class)
         /\ Fires(t, o, listeners'[o.class])
    /\ selfSent' = selfSent + 1
    /\ UNCHANGED <<reading, constant, refused, sent>>

\* send_object_to_self by a user thread
SendToSelf(t) ==
    /\ t \in User /\ at[t] = "idle" /\ selfSent < MaxSelf
    /\ mutex = Free
    /\ \E o \in Object :
         /\ o.class \in registered
         /\ FlushListeners(o.class)
         /\ Fires(t, o, listeners'[o.class])
    /\ selfSent' = selfSent + 1
    /\ UNCHANGED <<reading, constant, refused, sent>>

\* What a thread does once it is in basic_network.
Step(t) ==
    \/ CallListener(t) \/ Fired(t)
    \/ t = Net /\ (\/ NetworkDataListener \/ Unwrap \/ DefaultListener \/ DefaultThrows
                   \/ ClassReceived \/ ClassMisread \/ ClassThrows
                   \/ ClassPassedOver \/ ClassUnknown)

Register(t) ==
    \/ AddToRegistered(t) \/ AddNew(t) \/ RemoveDataListener(t)
    \/ ClearAll(t) \/ ClearAny(t) \/ SendToSelf(t)

Next == Arrive \/ \E t \in Thread : Step(t) \/ Register(t)

Spec == Init /\ [][Next]_vars

\* Threads run.  Nobody keeps getting the mutex, as users send finitely often.
FairSpec == Spec /\ \A t \in Thread : WF_vars(Step(t))

------------------------------------------------------------------------------
\* Everything a builder lists has got an id (object_builder's members and those
\* of basic_network).
TypeOK ==
    /\ registered \subseteq Class /\ count \in 0..MaxIds
    /\ \A c \in Class : listeners[c] \union toAdd[c] \union toRemove[c] \subseteq 0..(count - 1)
    /\ \A c \in Class \ registered : listeners[c] \union toAdd[c] \union toRemove[c] = {}
    /\ mutex \in Thread \union {Free}
    /\ \A t \in Thread : at[t] \in {"idle", "fire"} \union (IF t = Net THEN {"packet", "lookup", "default"} ELSE {})
    /\ \A t \in Thread : at[t] = "fire" <=> object[t] # NoObject

\* Who is called next is who was added and not removed, whatever came of the
\* lists before (flush_listeners keeps what it has flushed).
ListsAgree == \A c \in registered : Flushed(c) = listening[c]

\* A listener is removed for good: the answer to the first removal is true
\* (remove_listener looks in one list of the three at a time).  Later ones may
\* be answered with true as well.
RemovalIsConfirmed == refused = {}

\* The thread that calls listeners owns m_object_builder_mutex, and who is still to be
\* called is in the m_listeners it walks, whoever is added or removed meanwhile.  Only
\* clear_all and clear_any, which ask nobody, take it away, and then none of them
\* listens any more (fire, flush_listeners, clear_all, clear_any).
WalksOwnList == \A t \in Thread : at[t] = "fire" =>
    /\ mutex = t
    /\ LET c == object[t].class
       IN  IF freed THEN todo[t] \intersect listening[c] = {} ELSE todo[t] \subseteq listeners[c]

\* The octets of a message from its object k + 1 on.
Tails == [m \in Message \union {NoMessage} |-> OctetsBehind(m.objects)]

\* The octets the network thread has not taken apart yet, the hash of an object
\* until it has been looked up included.
Ahead == IF at[Net] = "lookup" THEN hash \o d ELSE d

\* How many objects of a message begin before these last octets of it,
Missed(m, octets) == Min({k \in 0..Len(m.objects) : Len(Tails[m][k]) <= Len(octets)})

\* the ones that are left,
Left == SubSeq(message.objects, Missed(message, Ahead) + 1, Len(message.objects))

\* and whether the octets do not begin with them.  A default listener that reads is
\* on its way to them; one that does not may leave them.
Astray ==
    /\ default # "reads"
    /\ at[Net] = "default" \/ Ahead # Tails[message][Missed(message, Ahead)]

Due == [i \in DOMAIN inbox |-> inbox[i].objects]

\* Whom a thread has still to call, and with what.
Giving == [t \in Thread |-> {<<id, object[t]>> : id \in todo[t]}]

\* Each object is given to the listeners of its class, once each and in order, to
\* all of them that have not been removed meanwhile, and none of a packet is missed
\* unless one before it was read by nobody (network_data_listener, class_received,
\* fire).
Delivered == INSTANCE Delivery WITH
    Message <- {m.objects : m \in Message},
    due     <- Due,
    left    <- Left,
    astray  <- Astray,
    calls   <- Giving,
    reads   <- default = "reads"

ObjectsAreDelivered == Delivered!Spec

\* A default listener has thrown under m_object_builder_mutex.
LeftLocked == default = "throws" /\ mutex = Net /\ at[Net] \notin {"fire", "default"}

\* The network thread gets through every message, with whatever user threads and
\* listeners do, unless a default listener throws for a registered class or a list is
\* cleared that is walked: class_received unlocks on every other way out.
AllHandled == []<>((inbox = <<>> /\ at[Net] = "idle") \/ LeftLocked \/ freed)

------------------------------------------------------------------------------
(* What the code does not live up to: see the README. *)

\* No list is cleared while it is walked (clear_all and clear_any say nothing of
\* when they may be called, basic_network.hpp:593 and :608).
NoListIsFreed == ~freed

\* The mutex is unlocked on every way out of class_received.
AlwaysUnlocks == ~LeftLocked
==============================================================================
