---------------------------- MODULE Dispatch_proof ----------------------------
(***************************************************************************)
(* Proofs about Dispatch, for any number of user threads, classes and      *)
(* listeners and whatever is on the stream.                                *)
(*                                                                         *)
(* What the object builders keep is agreed upon for every class, the ones  *)
(* that are not registered included (Agreed): a class that is registered   *)
(* again begins with nothing.  Who fires owns m_object_builder_mutex, and  *)
(* every change of an m_listeners that could be under somebody's feet      *)
(* needs that mutex, except clear_all and clear_any: whom they clear       *)
(* nobody listens any more (Walking).                                      *)
(*                                                                         *)
(* That every step is one of Delivery's or none needs where the network    *)
(* thread is in its message (Reading): between two objects only in a       *)
(* packet, behind an object nobody has read.  The octets left of the       *)
(* message tell how many of its objects are left: fewer octets than behind *)
(* an object are behind it (MissedGrows), and where an object begins its   *)
(* hash and its octets say which it is and where it ends (HashRead,        *)
(* ObjectRead).                                                            *)
(***************************************************************************)
EXTENDS Dispatch, SequenceTheorems, WellFoundedInduction, NaturalsInduction, TLAPS

Stages == {"idle", "fire", "packet", "lookup", "default"}

\* The functions TypeOK says nothing of.
Shapes ==
    /\ listeners \in [Class -> SUBSET Nat] /\ toAdd \in [Class -> SUBSET Nat]
    /\ toRemove \in [Class -> SUBSET Nat] /\ listening \in [Class -> SUBSET Nat]

\* Nothing is listed for a class without a builder.
Agreed == \A c \in Class : Flushed(c) = listening[c]

\* What the builders keep.
Lists ==
    /\ Shapes /\ Agreed /\ refused = {}
    /\ registered \subseteq Class /\ count \in 0..MaxIds
    /\ \A c \in Class : listeners[c] \union toAdd[c] \union toRemove[c] \subseteq 0..(count - 1)
    /\ \A c \in Class \ registered : listeners[c] \union toAdd[c] \union toRemove[c] = {}

\* Who fires does so for a class there is a list for.  Who is still to be called is
\* in that list, or, once it has been cleared, is nobody who listens.
Walking(t) ==
    LET c == object[t].class
    IN  /\ mutex = t /\ c \in Class /\ todo[t] \subseteq 0..(count - 1)
        /\ IF freed THEN todo[t] \intersect listening[c] = {} ELSE todo[t] \subseteq listeners[c]

\* Where the threads are.
Firing ==
    /\ at \in [Thread -> Stages] /\ DOMAIN todo = Thread /\ DOMAIN object = Thread
    /\ mutex \in Thread \union {Free}
    /\ \A t \in User : at[t] \in {"idle", "fire"}
    /\ \A t \in Thread : at[t] = "fire" <=> object[t] # NoObject
    /\ \A t \in Thread : at[t] = "fire" => Walking(t)
    /\ freed \in BOOLEAN /\ (freed => \E t \in Thread : at[t] = "fire")

Inv == Lists /\ Firing

LEMMA Threads == Net \in Thread /\ User \subseteq Thread /\ Free \notin Thread /\ Net \notin User
  BY ThreadAssumption DEF Thread

LEMMA InitInv == Init => Inv
  <1> SUFFICES ASSUME Init PROVE Inv
    OBVIOUS
  <1>1. Lists
    BY BoundAssumption DEF Init, Lists, Shapes, Agreed, Flushed
  <1>2. Firing
    <2>1. \A t \in Thread : at[t] = "idle" /\ object[t] = NoObject
      BY DEF Init
    <2>2. at \in [Thread -> Stages] /\ DOMAIN todo = Thread /\ DOMAIN object = Thread
          /\ mutex \in Thread \union {Free} /\ freed = FALSE
      BY DEF Init, Stages
    <2> QED
      BY <2>1, <2>2, Threads DEF Firing
  <1> QED
    BY <1>1, <1>2 DEF Inv

LEMMA InvImplies == Inv => TypeOK /\ ListsAgree /\ RemovalIsConfirmed /\ WalksOwnList
  <1> SUFFICES ASSUME Inv PROVE TypeOK /\ ListsAgree /\ RemovalIsConfirmed /\ WalksOwnList
    OBVIOUS
  <1>1. ASSUME NEW t \in Thread
        PROVE  at[t] \in {"idle", "fire"} \union (IF t = Net THEN {"packet", "lookup", "default"} ELSE {})
    BY DEF Inv, Firing, Stages, Thread
  <1>2. TypeOK
    BY <1>1 DEF Inv, Lists, Firing, TypeOK
  <1> QED
    BY <1>2 DEF Inv, Lists, Firing, Walking, Agreed, ListsAgree, RemovalIsConfirmed, WalksOwnList

------------------------------------------------------------------------------
(***************************************************************************)
(* The lists.                                                              *)
(***************************************************************************)
\* What has been flushed stays in the lists it came from: nothing changes for
\* who is called next.
LEMMA FlushKeeps ==
    ASSUME Lists, NEW c \in registered, FlushListeners(c), UNCHANGED refused
    PROVE  Lists'
  <1>1. c \in Class
    BY DEF Lists
  <1>2. UNCHANGED <<registered, toAdd, toRemove, count, listening, refused>>
        /\ listeners' = [listeners EXCEPT ![c] = (listeners[c] \union toAdd[c]) \ toRemove[c]]
    BY DEF FlushListeners, Flushed
  <1>3. listeners' \in [Class -> SUBSET Nat]
    BY <1>1, <1>2 DEF Lists, Shapes
  <1> QED
    BY <1>1, <1>2, <1>3 DEF Lists, Shapes, Agreed, Flushed

\* The id of a new listener has never been one to remove.
LEMMA AddKeeps ==
    ASSUME Lists, NEW c \in Class, AddListener(c), count < MaxIds,
           registered' = registered \union {c},
           UNCHANGED <<listeners, toRemove, refused>>
    PROVE  Lists'
  <1>1. count \in Nat /\ count + 1 \in 0..MaxIds /\ count \notin toRemove[c] /\ MaxIds \in Nat
    BY BoundAssumption DEF Lists
  <1>2. /\ toAdd' = [toAdd EXCEPT ![c] = toAdd[c] \union {count}]
        /\ listening' = [listening EXCEPT ![c] = listening[c] \union {count}]
        /\ count' = count + 1
    BY DEF AddListener
  <1>3. Shapes'
    BY <1>1, <1>2 DEF Lists, Shapes
  <1>4. Agreed'
    BY <1>1, <1>2 DEF Lists, Shapes, Agreed, Flushed
  <1>5. registered' \subseteq Class /\ count' \in 0..MaxIds
    BY <1>1, <1>2 DEF Lists
  <1>6. ASSUME NEW e \in Class
        PROVE  (listeners[e] \union toAdd[e] \union toRemove[e])' \subseteq 0..(count' - 1)
    <2>1. listeners[e] \union toAdd[e] \union toRemove[e] \subseteq 0..(count - 1)
      BY DEF Lists
    <2>2. 0..(count - 1) \subseteq 0..(count' - 1) /\ count \in 0..(count' - 1)
      BY <1>1, <1>2
    <2>3. toAdd'[e] \subseteq toAdd[e] \union {count}
      BY <1>2 DEF Lists, Shapes
    <2> QED
      BY <2>1, <2>2, <2>3
  <1>7. ASSUME NEW e \in Class \ registered'
        PROVE  (listeners[e] \union toAdd[e] \union toRemove[e])' = {}
    BY <1>2, <1>7 DEF Lists, Shapes
  <1> QED
    BY <1>3, <1>4, <1>5, <1>6, <1>7 DEF Lists

\* remove_listener looks in one list only, and answers true to whoever asks for
\* the first time.
LEMMA RemoveKeeps ==
    ASSUME Lists, NEW c \in registered, NEW id \in 0..(count - 1), RemoveListener(c, id),
           listening' = [listening EXCEPT ![c] = @ \ {id}],
           UNCHANGED <<registered, listeners, count>>
    PROVE  Lists'
  <1>1. c \in Class /\ id \in Nat /\ Flushed(c) = listening[c] /\ count \in Nat
    BY BoundAssumption DEF Lists, Agreed
  <1>2. refused' = {}
    <2>1. id \in listening[c] =>
              IF id \in listeners[c] THEN id \notin toRemove[c] ELSE id \in toAdd[c]
      BY <1>1 DEF Flushed
    <2> QED
      BY <2>1 DEF RemoveListener, Answered, Lists, Shapes
  <1>3. CASE id \in listeners[c]
    <2>1. toRemove' = [toRemove EXCEPT ![c] = toRemove[c] \union {id}] /\ toAdd' = toAdd
      BY <1>3 DEF RemoveListener
    <2>2. Shapes'
      BY <1>1, <1>2, <2>1 DEF Lists, Shapes
    <2>3. Agreed'
      BY <1>1, <1>3, <2>1 DEF Lists, Shapes, Agreed, Flushed
    <2>4. \A e \in Class : (listeners[e] \union toAdd[e] \union toRemove[e])'
                              \subseteq (listeners[e] \union toAdd[e] \union toRemove[e] \union IF e = c THEN {id} ELSE {})
      BY <1>1, <2>1 DEF Lists, Shapes
    <2>5. \A e \in Class : (listeners[e] \union toAdd[e] \union toRemove[e])' \subseteq 0..(count' - 1)
      BY <1>1, <2>4 DEF Lists
    <2>6. \A e \in Class \ registered' : (listeners[e] \union toAdd[e] \union toRemove[e])' = {}
      BY <1>1, <2>4 DEF Lists
    <2> QED
      BY <1>2, <2>2, <2>3, <2>5, <2>6 DEF Lists
  <1>4. CASE id \notin listeners[c]
    <2>1. toAdd' = [toAdd EXCEPT ![c] = toAdd[c] \ {id}] /\ toRemove' = toRemove
      BY <1>4 DEF RemoveListener
    <2>2. Shapes'
      BY <1>1, <1>2, <2>1 DEF Lists, Shapes
    <2>3. Agreed'
      BY <1>1, <1>4, <2>1 DEF Lists, Shapes, Agreed, Flushed
    <2>4. \A e \in Class : (listeners[e] \union toAdd[e] \union toRemove[e])'
                              \subseteq (listeners[e] \union toAdd[e] \union toRemove[e] \union IF e = c THEN {id} ELSE {})
      BY <1>1, <2>1 DEF Lists, Shapes
    <2>5. \A e \in Class : (listeners[e] \union toAdd[e] \union toRemove[e])' \subseteq 0..(count' - 1)
      BY <1>1, <2>4 DEF Lists
    <2>6. \A e \in Class \ registered' : (listeners[e] \union toAdd[e] \union toRemove[e])' = {}
      BY <1>1, <2>4 DEF Lists
    <2> QED
      BY <1>2, <2>2, <2>3, <2>5, <2>6 DEF Lists
  <1> QED
    BY <1>3, <1>4

LEMMA ClearKeeps ==
    ASSUME Lists, NEW c \in registered,
           listeners' = [listeners EXCEPT ![c] = {}], toAdd' = [toAdd EXCEPT ![c] = {}],
           toRemove' = [toRemove EXCEPT ![c] = {}], listening' = [listening EXCEPT ![c] = {}],
           UNCHANGED <<registered, count, refused>>
    PROVE  Lists'
  <1>1. c \in Class
    BY DEF Lists
  <1>2. Shapes'
    BY <1>1 DEF Lists, Shapes
  <1>3. Agreed'
    BY <1>1 DEF Lists, Shapes, Agreed, Flushed
  <1> QED
    BY <1>1, <1>2, <1>3 DEF Lists, Shapes

LEMMA ClearAnyKeeps ==
    ASSUME Lists, registered' = {}, listeners' = [c \in Class |-> {}],
           toAdd' = listeners' /\ toRemove' = listeners' /\ listening' = listeners',
           UNCHANGED <<count, refused>>
    PROVE  Lists'
  <1>1. Shapes'
    BY DEF Lists, Shapes
  <1>2. Agreed'
    BY DEF Agreed, Flushed
  <1> QED
    BY <1>1, <1>2 DEF Lists

LEMMA ListsKept ==
    ASSUME Lists, UNCHANGED <<lists, refused>>
    PROVE  Lists'
  BY DEF Lists, lists, Shapes, Agreed, Flushed

------------------------------------------------------------------------------
(***************************************************************************)
(* The steps.                                                              *)
(***************************************************************************)
\* A thread starts to fire when nobody does.
LEMMA StartsFiring ==
    ASSUME Inv, mutex = Free, NEW t \in Thread, at[t] # "fire", NEW o, NEW c \in registered,
           o.class = c, o # NoObject, FlushListeners(c), Fires(t, o, listeners'[c]),
           UNCHANGED refused
    PROVE  Inv'
  <1>1. Lists'
    BY FlushKeeps DEF Inv
  <1>2. c \in Class
    BY DEF Inv, Lists
  <1>3. \A u \in Thread : at[u] # "fire"
    BY Threads DEF Inv, Firing, Walking
  <1>4. Firing'
    <2>1. /\ at' = [at EXCEPT ![t] = "fire"] /\ object' = [object EXCEPT ![t] = o]
          /\ todo' = [todo EXCEPT ![t] = listeners'[c]] /\ mutex' = t /\ freed' = FALSE
      BY <1>3 DEF Fires, Inv, Firing
    <2>2. at' \in [Thread -> Stages] /\ DOMAIN todo' = Thread /\ DOMAIN object' = Thread
      BY <2>1 DEF Inv, Firing, Stages
    <2>3. \A u \in User : at'[u] \in {"idle", "fire"}
      BY <2>1, Threads DEF Inv, Firing
    <2>4. \A u \in Thread : at'[u] = "fire" <=> object'[u] # NoObject
      BY <2>1 DEF Inv, Firing
    <2>5. \A u \in Thread : at'[u] = "fire" => Walking(u)'
      BY <1>1, <1>2, <1>3, <2>1 DEF Inv, Firing, Lists, Walking
    <2> QED
      BY <2>1, <2>2, <2>3, <2>4, <2>5 DEF Firing
  <1> QED
    BY <1>1, <1>4 DEF Inv

\* The network thread goes from one place to another without firing.
LEMMA NetMoves ==
    ASSUME Inv, Lists', at[Net] # "fire", NEW stage \in Stages \ {"fire"},
           at' = [at EXCEPT ![Net] = stage], UNCHANGED <<todo, object, freed, listening, count>>,
           mutex' \in Thread \union {Free},
           \/ UNCHANGED <<listeners, mutex>>
           \/ mutex \notin User /\ (mutex = Free \/ UNCHANGED listeners)
    PROVE  Inv'
  <1>1. at' \in [Thread -> Stages] /\ DOMAIN todo' = Thread /\ DOMAIN object' = Thread
    BY DEF Inv, Firing, Stages
  <1>2. \A u \in User : at'[u] \in {"idle", "fire"}
    BY Threads DEF Inv, Firing
  <1>3. \A u \in Thread : at'[u] = "fire" <=> object'[u] # NoObject
    BY DEF Inv, Firing
  <1>4. ASSUME NEW u \in Thread, at'[u] = "fire"
        PROVE  Walking(u)'
    <2>1. at[u] = "fire" /\ u # Net
      BY <1>4 DEF Inv, Firing
    <2>2. mutex = u /\ u \in User /\ Walking(u)
      BY <2>1 DEF Inv, Firing, Walking, Thread
    <2>3. UNCHANGED <<listeners, mutex>>
      BY <2>2, ThreadAssumption DEF Thread
    <2> QED
      BY <2>1, <2>2, <2>3 DEF Walking
  <1>5. freed' => \E u \in Thread : at'[u] = "fire"
    BY DEF Inv, Firing
  <1> QED
    BY <1>1, <1>2, <1>3, <1>4, <1>5 DEF Inv, Firing

\* The lists change and the threads stay where they are.
LEMMA ThreadsStay ==
    ASSUME Inv, Lists', UNCHANGED <<mutex, at, todo, object>>,
           freed' \in BOOLEAN /\ (freed' => \E t \in Thread : at[t] = "fire"),
           \A t \in Thread : at[t] = "fire" => Walking(t)'
    PROVE  Inv'
  BY DEF Inv, Firing

\* Listeners are added, or removed, and no list is flushed or cleared.
LEMMA WalksOn ==
    ASSUME Inv, NEW t \in Thread, at[t] = "fire", UNCHANGED <<firing, listeners>>,
           count' \in Nat, count <= count',
           \A c \in Class : listening'[c] \subseteq listening[c] \union {count}
    PROVE  Walking(t)'
  <1>1. UNCHANGED <<mutex, at, todo, object, freed, listeners>>
    BY DEF firing
  <1>2. Walking(t) /\ count \in Nat
    BY BoundAssumption DEF Inv, Firing, Lists
  <1> QED
    BY <1>1, <1>2 DEF Walking

LEMMA OnwardStage == Onward \in Stages \ {"fire"}
  BY DEF Onward, Stages

LEMMA NetworkInv ==
    ASSUME Inv, NetworkDataListener \/ Unwrap \/ DefaultListener \/ DefaultThrows \/ ClassUnknown
    PROVE  Inv'
  <1>1. CASE NetworkDataListener
    <2> DEFINE stage == IF HashAt(Octets(Head(inbox))) = PacketHash THEN "packet" ELSE "lookup"
    <2>1. stage \in Stages \ {"fire"} /\ at[Net] # "fire" /\ at' = [at EXCEPT ![Net] = stage]
          /\ UNCHANGED <<lists, mutex, todo, object, freed, refused>>
      BY <1>1 DEF NetworkDataListener, Stages
    <2> HIDE DEF stage
    <2>2. Lists'
      BY <2>1, ListsKept DEF Inv
    <2>3. UNCHANGED <<listeners, listening, count>> /\ mutex' \in Thread \union {Free}
      BY <2>1 DEF lists, Inv, Firing
    <2> QED
      BY <2>1, <2>2, <2>3, NetMoves
  <1>2. CASE Unwrap
    <2> DEFINE stage == IF d = <<>> THEN "idle" ELSE "lookup"
    <2>1. stage \in Stages \ {"fire"} /\ at[Net] # "fire" /\ at' = [at EXCEPT ![Net] = stage]
          /\ UNCHANGED <<lists, mutex, todo, object, freed, refused>>
      BY <1>2 DEF Unwrap, GoesOn, Stages
    <2> HIDE DEF stage
    <2>2. Lists'
      BY <2>1, ListsKept DEF Inv
    <2>3. UNCHANGED <<listeners, listening, count>> /\ mutex' \in Thread \union {Free}
      BY <2>1 DEF lists, Inv, Firing
    <2> QED
      BY <2>1, <2>2, <2>3, NetMoves
  <1>3. CASE DefaultListener
    <2>1. at[Net] # "fire" /\ at' = [at EXCEPT ![Net] = Onward]
          /\ UNCHANGED <<lists, todo, object, freed, refused>> /\ Unlock
      BY <1>3 DEF DefaultListener, GoesOn
    <2>2. Lists'
      BY <2>1, ListsKept DEF Inv
    <2>3. CASE mutex = Net
      <3>1. mutex' \in Thread \union {Free} /\ mutex \notin User /\ UNCHANGED <<listeners, listening, count>>
        BY <2>1, <2>3, Threads DEF Unlock, lists
      <3> QED
        BY <2>1, <2>2, <3>1, OnwardStage, NetMoves
    <2>4. CASE mutex # Net
      <3>1. mutex' \in Thread \union {Free} /\ UNCHANGED <<listeners, listening, count, mutex>>
        BY <2>1, <2>4 DEF Unlock, lists, Inv, Firing
      <3> QED
        BY <2>1, <2>2, <3>1, OnwardStage, NetMoves
    <2> QED
      BY <2>3, <2>4
  <1>4. CASE ClassUnknown
    <2> DEFINE stage == IF default = "none" THEN Onward ELSE "default"
    <2>1. stage \in Stages \ {"fire"}
      BY OnwardStage DEF Stages
    <2>2. at[Net] # "fire" /\ at' = [at EXCEPT ![Net] = stage]
          /\ UNCHANGED <<lists, mutex, todo, object, freed, refused>>
      BY <1>4 DEF ClassUnknown, GoesOn
    <2> HIDE DEF stage
    <2>3. Lists'
      BY <2>2, ListsKept DEF Inv
    <2>4. UNCHANGED <<listeners, listening, count>> /\ mutex' \in Thread \union {Free}
      BY <2>2 DEF lists, Inv, Firing
    <2> QED
      BY <2>1, <2>2, <2>3, <2>4, NetMoves
  <1>5. CASE DefaultThrows
    <2> DEFINE stage == IF mutex = Net THEN "idle" ELSE Onward
    <2>1. stage \in Stages \ {"fire"}
      BY OnwardStage DEF Stages
    <2>2. at[Net] # "fire" /\ at' = [at EXCEPT ![Net] = stage]
          /\ UNCHANGED <<lists, mutex, todo, object, freed, refused>>
      BY <1>5 DEF DefaultThrows, GoesOn
    <2> HIDE DEF stage
    <2>3. Lists'
      BY <2>2, ListsKept DEF Inv
    <2>4. UNCHANGED <<listeners, listening, count>> /\ mutex' \in Thread \union {Free}
      BY <2>2 DEF lists, Inv, Firing
    <2> QED
      BY <2>1, <2>2, <2>3, <2>4, NetMoves
  <1> QED
    BY <1>1, <1>2, <1>3, <1>4, <1>5

LEMMA ClassReceivedInv ==
    ASSUME Inv, ClassReceived \/ ClassMisread
    PROVE  Inv'
  <1>1. PICK c \in Found : \E o \in Object :
            o.class = c /\ FlushListeners(c) /\ Fires(Net, o, listeners'[c])
    BY DEF ClassReceived, ClassMisread, ObjectsAt
  <1>2. PICK o \in Object : o.class = c /\ FlushListeners(c) /\ Fires(Net, o, listeners'[c])
    BY <1>1
  <1>3. c \in registered /\ o # NoObject
    BY NoObjectAssumption DEF Found, Hashed
  <1>4. mutex = Free /\ at[Net] # "fire" /\ UNCHANGED refused
    BY DEF ClassReceived, ClassMisread
  <1> QED
    BY <1>2, <1>3, <1>4, Threads, StartsFiring

LEMMA UnlistenedInv ==
    ASSUME Inv, ClassThrows \/ ClassPassedOver
    PROVE  Inv'
  <1> DEFINE stage == IF default = "none" THEN Onward ELSE "default"
  <1>1. PICK c \in registered : FlushListeners(c)
    BY DEF ClassThrows, ClassPassedOver, Found, Hashed
  <1>2. stage \in Stages \ {"fire"}
    BY OnwardStage DEF Stages
  <1>3. mutex = Free /\ at[Net] # "fire" /\ at' = [at EXCEPT ![Net] = stage]
        /\ UNCHANGED <<todo, object, freed, refused>> /\ mutex' \in {Free, Net}
    BY DEF ClassThrows, ClassPassedOver, Unlistened, GoesOn
  <1> HIDE DEF stage
  <1>4. Lists' /\ UNCHANGED <<listening, count>>
    BY <1>1, <1>3, FlushKeeps DEF Inv, FlushListeners
  <1>5. mutex' \in Thread \union {Free} /\ mutex \notin User
    BY <1>3, Threads
  <1> QED
    BY <1>2, <1>3, <1>4, <1>5, NetMoves

LEMMA CallInv ==
    ASSUME Inv, NEW t \in Thread, CallListener(t) \/ Fired(t)
    PROVE  Inv'
  <1>1. at[t] = "fire" /\ mutex = t
    BY DEF Inv, Firing, Walking, CallListener, Fired
  <1>2. CASE CallListener(t)
    <2>1. PICK id \in todo[t] : todo' = [todo EXCEPT ![t] = todo[t] \ {id}]
      BY <1>2 DEF CallListener
    <2>2. UNCHANGED <<lists, refused, mutex, at, object, freed>>
      BY <1>2 DEF CallListener
    <2>3. Lists'
      BY <2>2, ListsKept DEF Inv
    <2>4. UNCHANGED <<listeners, listening, count>>
      BY <2>2 DEF lists
    <2>5. DOMAIN todo' = Thread /\ \A u \in Thread : todo'[u] \subseteq todo[u]
      BY <2>1 DEF Inv, Firing
    <2>6. \A u \in Thread : at'[u] = "fire" => Walking(u)'
      BY <2>2, <2>4, <2>5 DEF Inv, Firing, Walking
    <2> QED
      BY <2>2, <2>3, <2>5, <2>6 DEF Inv, Firing
  <1>3. CASE Fired(t)
    <2>1. PICK stage \in {"idle", "packet"} : at' = [at EXCEPT ![t] = stage] /\ (t \in User => stage = "idle")
      <3>1. CASE t = Net
        BY <1>3, <3>1, Threads DEF Fired, GoesOn, Onward
      <3>2. CASE t # Net
        BY <1>3, <3>2 DEF Fired
      <3> QED
        BY <3>1, <3>2
    <2>2. object' = [object EXCEPT ![t] = NoObject] /\ todo' = [todo EXCEPT ![t] = {}]
          /\ mutex' = Free /\ freed' = FALSE /\ UNCHANGED <<lists, refused>>
      BY <1>3 DEF Fired
    <2>3. Lists'
      BY <2>2, ListsKept DEF Inv
    <2>4. at' \in [Thread -> Stages] /\ DOMAIN todo' = Thread /\ DOMAIN object' = Thread
      BY <2>1, <2>2 DEF Inv, Firing, Stages
    <2>5. \A u \in User : at'[u] \in {"idle", "fire"}
      BY <2>1, Threads DEF Inv, Firing
    <2>6. \A u \in Thread : at'[u] # "fire" /\ object'[u] = NoObject
      BY <1>1, <2>1, <2>2, Threads DEF Inv, Firing, Walking
    <2> QED
      BY <2>2, <2>3, <2>4, <2>5, <2>6 DEF Inv, Firing
  <1> QED
    BY <1>2, <1>3

LEMMA RegisterInv ==
    ASSUME Inv, NEW t \in Thread, Register(t)
    PROVE  Inv'
  <1>0. Lists /\ registered \subseteq Class /\ count \in Nat
    BY BoundAssumption DEF Inv, Lists
  <1>a. ASSUME Lists', UNCHANGED <<firing, listeners>>, count' \in Nat, count <= count',
               \A c \in Class : listening'[c] \subseteq listening[c] \union {count}
        PROVE  Inv'
    <2>1. UNCHANGED <<mutex, at, todo, object, freed>>
      BY <1>a DEF firing
    <2>2. \A u \in Thread : at[u] = "fire" => Walking(u)'
      BY <1>a, WalksOn
    <2> QED
      BY <1>a, <2>1, <2>2, ThreadsStay DEF Inv, Firing
  <1>1. CASE AddToRegistered(t)
    <2>1. PICK c \in registered : AddListener(c)
      BY <1>1 DEF AddToRegistered
    <2>2. registered' = registered \union {c} /\ count < MaxIds
          /\ UNCHANGED <<listeners, toRemove, firing, refused>>
      BY <1>1 DEF AddToRegistered
    <2>3. Lists'
      BY <1>0, <2>1, <2>2, AddKeeps
    <2>4. count' = count + 1 /\ \A e \in Class : listening'[e] \subseteq listening[e] \union {count}
      BY <1>0, <2>1 DEF AddListener, Lists, Shapes
    <2> QED
      BY <1>0, <1>a, <2>2, <2>3, <2>4
  <1>2. CASE AddNew(t)
    <2>1. PICK c \in Class : registered' = registered \union {c} /\ AddListener(c)
      BY <1>2 DEF AddNew
    <2>2. count < MaxIds /\ UNCHANGED <<listeners, toRemove, firing, refused>>
      BY <1>2 DEF AddNew
    <2>3. Lists'
      BY <1>0, <2>1, <2>2, AddKeeps
    <2>4. count' = count + 1 /\ \A e \in Class : listening'[e] \subseteq listening[e] \union {count}
      BY <1>0, <2>1 DEF AddListener, Lists, Shapes
    <2> QED
      BY <1>0, <1>a, <2>2, <2>3, <2>4
  <1>3. CASE RemoveDataListener(t)
    <2>1. PICK c \in registered, id \in 0..(count - 1) :
              RemoveListener(c, id) /\ listening' = [listening EXCEPT ![c] = @ \ {id}]
      BY <1>3 DEF RemoveDataListener
    <2>2. UNCHANGED <<registered, listeners, count, firing>>
      BY <1>3 DEF RemoveDataListener
    <2>3. Lists'
      BY <1>0, <2>1, <2>2, RemoveKeeps
    <2>4. \A e \in Class : listening'[e] \subseteq listening[e] \union {count}
      BY <1>0, <2>1 DEF Lists, Shapes
    <2> QED
      BY <1>0, <1>a, <2>2, <2>3, <2>4
  <1>4. CASE ClearAll(t)
    <2>1. PICK c \in registered :
              /\ listeners' = [listeners EXCEPT ![c] = {}] /\ toAdd' = [toAdd EXCEPT ![c] = {}]
              /\ toRemove' = [toRemove EXCEPT ![c] = {}] /\ listening' = [listening EXCEPT ![c] = {}]
              /\ Frees(c)
      BY <1>4 DEF ClearAll
    <2>2. UNCHANGED <<registered, count, mutex, at, todo, object, refused>>
      BY <1>4 DEF ClearAll
    <2>3. Lists'
      BY <1>0, <2>1, <2>2, ClearKeeps
    <2>4. ASSUME NEW u \in Thread, at[u] = "fire" PROVE Walking(u)'
      <3>1. Walking(u) /\ \A v \in Thread : at[v] = "fire" => v = u
        BY <2>4 DEF Inv, Firing, Walking
      <3>2. freed' = (freed \/ object[u].class = c)
        BY <2>1, <2>4, <3>1 DEF Frees
      <3>3. \A e \in Class : /\ listening'[e] = IF e = c THEN {} ELSE listening[e]
                             /\ listeners'[e] = IF e = c THEN {} ELSE listeners[e]
        BY <1>0, <2>1 DEF Lists, Shapes
      <3> QED
        BY <2>2, <3>1, <3>2, <3>3 DEF Walking
    <2>5. freed' \in BOOLEAN /\ (freed' => \E u \in Thread : at[u] = "fire")
      BY <2>1 DEF Frees, Inv, Firing
    <2> QED
      BY <2>2, <2>3, <2>4, <2>5, ThreadsStay
  <1>5. CASE ClearAny(t)
    <2>1. /\ registered' = {} /\ listeners' = [c \in Class |-> {}]
          /\ toAdd' = listeners' /\ toRemove' = listeners' /\ listening' = listeners'
          /\ UNCHANGED <<count, mutex, at, todo, object, refused>>
          /\ freed' = \E u \in Thread : at[u] = "fire"
      BY <1>5 DEF ClearAny
    <2>2. Lists'
      BY <1>0, <2>1, ClearAnyKeeps
    <2>3. ASSUME NEW u \in Thread, at[u] = "fire" PROVE Walking(u)'
      <3>1. Walking(u) /\ freed' = TRUE
        BY <2>1, <2>3 DEF Inv, Firing
      <3> QED
        BY <2>1, <3>1 DEF Walking
    <2> QED
      BY <2>1, <2>2, <2>3, ThreadsStay
  <1>6. CASE SendToSelf(t)
    <2>1. PICK o \in Object : o.class \in registered /\ FlushListeners(o.class)
                              /\ Fires(t, o, listeners'[o.class])
      BY <1>6 DEF SendToSelf
    <2>2. mutex = Free /\ at[t] # "fire" /\ UNCHANGED refused /\ o # NoObject
      BY <1>6, NoObjectAssumption DEF SendToSelf
    <2> QED
      BY <2>1, <2>2, StartsFiring
  <1> QED
    BY <1>1, <1>2, <1>3, <1>4, <1>5, <1>6 DEF Register

LEMMA NextInv == Inv /\ [Next]_vars => Inv'
  <1> SUFFICES ASSUME Inv, [Next]_vars PROVE Inv'
    OBVIOUS
  <1>1. ASSUME UNCHANGED <<lists, refused, firing>> PROVE Inv'
    <2>1. Lists' /\ UNCHANGED <<listeners, listening, count, mutex, at, todo, object, freed>>
      BY <1>1, ListsKept DEF Inv, lists, firing
    <2>2. \A t \in Thread : at[t] = "fire" => Walking(t)'
      BY <2>1 DEF Inv, Firing, Walking
    <2> QED
      BY <2>1, <2>2, ThreadsStay DEF Inv, Firing
  <1>2. CASE Arrive
    BY <1>1, <1>2 DEF Arrive
  <1>3. CASE UNCHANGED vars
    BY <1>1, <1>3 DEF vars
  <1>4. ASSUME NEW t \in Thread, Step(t) PROVE Inv'
    BY <1>4, CallInv, NetworkInv, ClassReceivedInv, UnlistenedInv DEF Step
  <1>5. ASSUME NEW t \in Thread, Register(t) PROVE Inv'
    BY <1>5, RegisterInv
  <1> QED
    BY <1>2, <1>3, <1>4, <1>5 DEF Next

------------------------------------------------------------------------------
(***************************************************************************)
(* What is on the stream.                                                  *)
(***************************************************************************)
\* Induction: a set of numbers that is not empty has a least one.
LEMMA LeastNumber ==
    ASSUME NEW T \in SUBSET Nat, T # {}
    PROVE  \E n \in T : \A m \in T : ~(m < n)
  <1>1. \E n \in T : \A m \in T : <<m, n>> \notin OpToRel(<, Nat)
    BY WFMin, NatLessThanWellFounded, Zenon
  <1> QED
    BY <1>1, Zenon DEF OpToRel

\* A sequence is cut where it was put together.
LEMMA CutConcat ==
    ASSUME NEW S, NEW a \in Seq(S), NEW b \in Seq(S)
    PROVE  SubSeq(a \o b, 1, Len(a)) = a /\ SubSeq(a \o b, Len(a) + 1, Len(a \o b)) = b
  <1>1. /\ a \o b \in Seq(S) /\ Len(a \o b) = Len(a) + Len(b) /\ Len(a) \in Nat /\ Len(b) \in Nat
        /\ \A i \in 1..(Len(a) + Len(b)) : (a \o b)[i] = IF i <= Len(a) THEN a[i] ELSE b[i - Len(a)]
    BY ConcatProperties, LenProperties
  <1>2. SubSeq(a \o b, 1, Len(a)) = a
    <2>1. \A i \in 1..Len(a) : i \in 1..(Len(a) + Len(b)) /\ (a \o b)[i] = a[i] /\ a[i] \in S
      BY <1>1, ElementOfSeq
    <2>2. \A i \in 1..Len(a) : (a \o b)[i] \in S
      BY <2>1
    <2> DEFINE t == SubSeq(a \o b, 1, Len(a))
    <2>3. t \in Seq(S) /\ Len(t) = Len(a) /\ \A i \in 1..Len(a) : t[i] = (a \o b)[i]
      BY <1>1, <2>2, SubSeqProperties
    <2>4. \A i \in 1..Len(t) : t[i] = a[i]
      BY <2>1, <2>3
    <2> QED
      BY <2>3, <2>4, SeqEqual
  <1>3. SubSeq(a \o b, Len(a) + 1, Len(a \o b)) = b
    <2>1. \A i \in 1..Len(b) : Len(a) + i \in 1..(Len(a) + Len(b)) /\ (a \o b)[Len(a) + i] = b[i]
      BY <1>1
    <2>2. \A i \in (Len(a) + 1)..(Len(a) + Len(b)) : (a \o b)[i] \in S
      BY <1>1, ElementOfSeq
    <2> DEFINE t == SubSeq(a \o b, Len(a) + 1, Len(a) + Len(b))
    <2>3. /\ t \in Seq(S) /\ Len(t) = Len(b)
          /\ \A i \in 1..((Len(a) + Len(b)) - (Len(a) + 1) + 1) : t[i] = (a \o b)[(Len(a) + 1) + i - 1]
      BY <1>1, <2>2, SubSeqProperties
    <2>4. \A i \in 1..Len(t) : t[i] = b[i]
      <3> SUFFICES ASSUME NEW i \in 1..Len(b) PROVE t[i] = b[i]
        BY <2>3
      <3>1. i \in 1..((Len(a) + Len(b)) - (Len(a) + 1) + 1) /\ (Len(a) + 1) + i - 1 = Len(a) + i
        BY <1>1
      <3> QED
        BY <3>1, <2>1, <2>3
    <2> QED
      BY <1>1, <2>3, <2>4, SeqEqual
  <1> QED
    BY <1>2, <1>3

LEMMA Lengths ==
    \A a, b \in Seq(Nat) : /\ a \o b \in Seq(Nat) /\ Len(a \o b) = Len(a) + Len(b)
                           /\ Len(a) \in Nat /\ Len(b) \in Nat
  BY ConcatProperties, LenProperties

\* Named, for a fact the provers are not to rewrite with.
Together(a, b, c) == (a \o b) \o c = a \o (b \o c)

LEMMA ConcatTogether == \A S : \A a, b, c \in Seq(S) : Together(a, b, c)
  BY ConcatAssociative DEF Together

LEMMA ClassOctetsTyped ==
    ASSUME NEW o \in Object
    PROVE  /\ o.class \in Class /\ ObjectOctets[o] \in Seq(Nat) /\ ClassOctets(o) \in Seq(Nat)
           /\ HashOf[o.class] \in Seq(Nat) /\ Len(HashOf[o.class]) = HashSize
           /\ HashSize \in Nat \ {0} /\ Len(ClassOctets(o)) = HashSize + Len(ObjectOctets[o])
  <1>1. o.class \in Class /\ ObjectOctets[o] \in Seq(Nat) /\ HashOf[o.class] \in Seq(Nat) /\ PacketHash \in Seq(Nat)
    BY OctetAssumption
  <1>2. Len(HashOf[o.class]) = HashSize /\ HashOf[o.class] # PacketHash
    BY <1>1, HashAssumption DEF HashSize
  <1>3. HashSize \in Nat
    BY <1>1 DEF HashSize
  <1>4. HashSize # 0
    <2> SUFFICES ASSUME HashSize = 0 PROVE FALSE
      OBVIOUS
    <2>1. Len(PacketHash) = 0
      BY DEF HashSize
    <2>2. PacketHash = <<>> /\ HashOf[o.class] = <<>>
      BY <1>1, <1>2, <2>1, EmptySeq
    <2> QED
      BY <1>2, <2>2
  <1>5. ClassOctets(o) \in Seq(Nat) /\ Len(ClassOctets(o)) = HashSize + Len(ObjectOctets[o])
    BY <1>1, <1>2, ConcatProperties DEF ClassOctets
  <1> QED
    BY <1>1, <1>2, <1>3, <1>4, <1>5

\* f[k] is what is left of the octets from object k + 1 on, for k from n on.
Behind(f, objects, n) ==
    f = [k \in n..Len(objects) |-> IF k = Len(objects) THEN <<>> ELSE ClassOctets(objects[k + 1]) \o f[k + 1]]

LEMMA BehindExists ==
    ASSUME NEW objects \in Seq(Object)
    PROVE  \E f : Behind(f, objects, 0)
  <1> DEFINE n == Len(objects)
             T == {j \in Nat : j <= n /\ ~ \E f : Behind(f, objects, n - j)}
  <1>0. n \in Nat
    OBVIOUS
  <1>1. T = {}
    <2> SUFFICES ASSUME T # {} PROVE FALSE
      OBVIOUS
    <2>1. PICK j \in T : \A i \in T : ~(i < j)
      BY LeastNumber, T \subseteq Nat
    <2>2. j \in Nat /\ j <= n /\ ~ \E f : Behind(f, objects, n - j)
      BY <2>1
    <2>3. CASE j = 0
      <3> DEFINE f == [k \in n..n |-> <<>>]
                 h == [k \in n..n |-> IF k = n THEN <<>> ELSE ClassOctets(objects[k + 1]) \o f[k + 1]]
      <3>1. \A k \in n..n : k = n
        BY <1>0
      <3>2. f = h
        BY <3>1
      <3>3. Behind(f, objects, n - j)
        <4>1. n - j = n
          BY <1>0, <2>3
        <4>2. Behind(f, objects, n)
          BY <3>2 DEF Behind
        <4> QED
          BY <4>1, <4>2
      <3> QED
        BY <2>2, <3>3
    <2>4. CASE j # 0
      <3>1. j - 1 \in Nat /\ j - 1 < j /\ j - 1 <= n /\ n - (j - 1) = (n - j) + 1 /\ n - j \in Nat /\ n - j < n
        BY <1>0, <2>2, <2>4
      <3>2. PICK f : Behind(f, objects, n - (j - 1))
        BY <3>1, <2>1
      <3> DEFINE m == n - j
      <3>3. m \in Nat /\ m < n /\ f = [k \in (m + 1)..n |-> IF k = n THEN <<>> ELSE ClassOctets(objects[k + 1]) \o f[k + 1]]
        BY <3>1, <3>2 DEF Behind
      <3> HIDE DEF m, n
      <3> DEFINE g == [k \in m..n |-> IF k = m THEN ClassOctets(objects[k + 1]) \o f[k + 1] ELSE f[k]]
                 h == [k \in m..n |-> IF k = n THEN <<>> ELSE ClassOctets(objects[k + 1]) \o g[k + 1]]
      <3>4. ASSUME NEW k \in m..n PROVE g[k] = h[k]
        <4>1. k # n => k + 1 \in m..n /\ k + 1 # m /\ k + 1 \in (m + 1)..n
          BY <1>0, <3>3
        <4>2. k # n => g[k + 1] = f[k + 1]
          BY <4>1
        <4>3. k # m => f[k] = IF k = n THEN <<>> ELSE ClassOctets(objects[k + 1]) \o f[k + 1]
          <5>1. k # m => k \in (m + 1)..n
            BY <1>0, <3>3
          <5>2. \A i \in (m + 1)..n : f[i] = IF i = n THEN <<>> ELSE ClassOctets(objects[i + 1]) \o f[i + 1]
            BY <3>3
          <5> QED
            BY <5>1, <5>2
        <4>4. m # n
          BY <1>0, <3>3
        <4> QED
          BY <4>2, <4>3, <4>4
      <3>5. g = h
        BY <3>4
      <3>6. Behind(g, objects, m)
        BY <3>5 DEF Behind, n
      <3> QED
        BY <2>2, <3>6 DEF m
    <2> QED
      BY <2>3, <2>4
  <1>2. n \notin T
    BY <1>1
  <1> QED
    BY <1>0, <1>2

\* OctetsBehind is what its definition says.
LEMMA OctetsBehindIs ==
    ASSUME NEW objects \in Seq(Object)
    PROVE  /\ DOMAIN OctetsBehind(objects) = 0..Len(objects)
           /\ OctetsBehind(objects)[Len(objects)] = <<>>
           /\ \A k \in 0..(Len(objects) - 1) :
                 OctetsBehind(objects)[k] = ClassOctets(objects[k + 1]) \o OctetsBehind(objects)[k + 1]
  <1> DEFINE f == OctetsBehind(objects)
             n == Len(objects)
  <1>0. n \in Nat
    OBVIOUS
  <1>1. Behind(f, objects, 0)
    BY BehindExists, Zenon DEF Behind, OctetsBehind
  <1>2. f = [k \in 0..n |-> IF k = n THEN <<>> ELSE ClassOctets(objects[k + 1]) \o f[k + 1]]
    BY <1>1 DEF Behind
  <1> HIDE DEF f, n
  <1>3. DOMAIN f = 0..n
    BY <1>2
  <1>4. \A k \in 0..n : f[k] = IF k = n THEN <<>> ELSE ClassOctets(objects[k + 1]) \o f[k + 1]
    BY <1>2
  <1>5. n \in 0..n /\ \A k \in 0..(n - 1) : k \in 0..n /\ k # n
    BY <1>0
  <1> QED
    BY <1>3, <1>4, <1>5 DEF f, n

LEMMA TailsAre ==
    ASSUME NEW m \in Message \union {NoMessage}
    PROVE  /\ m.objects \in Seq(Object) /\ Len(m.objects) \in Nat
           /\ Tails[m][Len(m.objects)] = <<>>
           /\ \A k \in 0..(Len(m.objects) - 1) :
                 m.objects[k + 1] \in Object /\ Tails[m][k] = ClassOctets(m.objects[k + 1]) \o Tails[m][k + 1]
           /\ \A k \in 0..Len(m.objects) : Tails[m][k] \in Seq(Nat)
  <1> DEFINE n == Len(m.objects)
             T == {j \in Nat : j <= n /\ Tails[m][n - j] \notin Seq(Nat)}
  <1>1. m.objects \in Seq(Object)
    <2>1. CASE m \in Message
      BY <2>1, MessageAssumption
    <2>2. CASE m = NoMessage
      BY <2>2, EmptySeq DEF NoMessage
    <2> QED
      BY <2>1, <2>2
  <1>2. n \in Nat
    BY <1>1
  <1>3. Tails[m] = OctetsBehind(m.objects)
    BY DEF Tails
  <1>4. /\ Tails[m][n] = <<>>
        /\ \A k \in 0..(n - 1) : Tails[m][k] = ClassOctets(m.objects[k + 1]) \o Tails[m][k + 1]
    BY <1>1, <1>3, OctetsBehindIs
  <1>5. \A k \in 0..(n - 1) : m.objects[k + 1] \in Object
    BY <1>1, ElementOfSeq
  <1> HIDE DEF n
  <1>6. T = {}
    <2> SUFFICES ASSUME T # {} PROVE FALSE
      OBVIOUS
    <2>1. PICK j \in T : \A i \in T : ~(i < j)
      BY LeastNumber, T \subseteq Nat
    <2>2. j \in Nat /\ j <= n /\ Tails[m][n - j] \notin Seq(Nat)
      BY <2>1
    <2>3. j # 0
      <3> SUFFICES ASSUME j = 0 PROVE FALSE
        OBVIOUS
      <3>1. n - j = n
        BY <1>2
      <3> QED
        BY <3>1, <1>4, <2>2, EmptySeq
    <2>4. j - 1 \in Nat /\ j - 1 < j /\ j - 1 <= n /\ n - (j - 1) = (n - j) + 1 /\ n - j \in 0..(n - 1)
      BY <1>2, <2>2, <2>3
    <2>5. Tails[m][(n - j) + 1] \in Seq(Nat)
      BY <2>1, <2>4
    <2>6. ClassOctets(m.objects[(n - j) + 1]) \in Seq(Nat)
      BY <1>5, <2>4, ClassOctetsTyped
    <2> QED
      BY <1>4, <2>2, <2>4, <2>5, <2>6, ConcatProperties
  <1>7. ASSUME NEW k \in 0..n PROVE Tails[m][k] \in Seq(Nat)
    <2>1. n - k \in Nat /\ n - k <= n /\ n - (n - k) = k
      BY <1>2
    <2> QED
      BY <1>6, <2>1
  <1> QED
    BY <1>1, <1>2, <1>4, <1>5, <1>7 DEF n

\* An object and what is behind it.
LEMMA TailsStep ==
    ASSUME NEW m \in Message \union {NoMessage}, NEW k \in 0..(Len(m.objects) - 1)
    PROVE  \E o \in Object, rest \in Seq(Nat) :
              /\ o = m.objects[k + 1] /\ rest = Tails[m][k + 1]
              /\ Tails[m][k] = ClassOctets(o) \o rest
              /\ Len(rest) <= Len(ObjectOctets[o] \o rest) /\ Len(ObjectOctets[o] \o rest) < Len(Tails[m][k])
              /\ Len(rest) < Len(Tails[m][k]) /\ HashSize <= Len(Tails[m][k])
              /\ Len(Tails[m][k]) \in Nat /\ Len(rest) \in Nat /\ Len(ObjectOctets[o] \o rest) \in Nat
  <1>1. Len(m.objects) \in Nat /\ k + 1 \in 0..Len(m.objects)
    BY TailsAre
  <1>2. PICK o \in Object : o = m.objects[k + 1] /\ Tails[m][k] = ClassOctets(o) \o Tails[m][k + 1]
    BY TailsAre
  <1>3. PICK rest \in Seq(Nat) : rest = Tails[m][k + 1]
    BY <1>1, TailsAre
  <1>4. /\ ClassOctets(o) \in Seq(Nat) /\ ObjectOctets[o] \in Seq(Nat) /\ HashSize \in Nat \ {0}
        /\ Len(ClassOctets(o)) = HashSize + Len(ObjectOctets[o])
    BY ClassOctetsTyped
  <1>5. /\ Len(ClassOctets(o) \o rest) = Len(ClassOctets(o)) + Len(rest) /\ Len(rest) \in Nat
        /\ Len(ObjectOctets[o] \o rest) = Len(ObjectOctets[o]) + Len(rest) /\ Len(ObjectOctets[o]) \in Nat
    BY <1>4, Lengths
  <1>6. /\ Len(rest) <= Len(ObjectOctets[o] \o rest) /\ Len(ObjectOctets[o] \o rest) < Len(ClassOctets(o) \o rest)
        /\ Len(rest) < Len(ClassOctets(o) \o rest) /\ HashSize <= Len(ClassOctets(o) \o rest)
        /\ Len(ClassOctets(o) \o rest) \in Nat /\ Len(ObjectOctets[o] \o rest) \in Nat
    <2> DEFINE x == Len(ObjectOctets[o])
               y == Len(rest)
               a == Len(ObjectOctets[o] \o rest)
               b == Len(ClassOctets(o) \o rest)
    <2>1. x \in Nat /\ y \in Nat /\ HashSize \in Nat \ {0} /\ a = x + y /\ b = (HashSize + x) + y
      BY <1>4, <1>5
    <2> HIDE DEF x, y, a, b
    <2>2. y <= a /\ a < b /\ y < b /\ HashSize <= b /\ a \in Nat /\ b \in Nat
      BY <2>1
    <2> QED
      BY <2>2 DEF x, y, a, b
  <1> QED
    BY <1>2, <1>3, <1>5, <1>6

\* The further an object is behind, the fewer octets are left from it on.
LEMMA TailsShrink ==
    ASSUME NEW m \in Message \union {NoMessage},
           NEW k \in 0..Len(m.objects), NEW j \in 0..Len(m.objects), k < j
    PROVE  Len(Tails[m][j]) < Len(Tails[m][k])
  <1> DEFINE n == Len(m.objects)
             size(i) == Len(Tails[m][i])
             T == {i \in Nat : i \in 0..n /\ k < i /\ ~(size(i) < size(k))}
  <1>1. n \in Nat /\ \A i \in 0..n : size(i) \in Nat
    BY TailsAre, LenProperties
  <1>2. ASSUME NEW i \in 0..(n - 1) PROVE size(i + 1) < size(i)
    <2>1. i + 1 \in 0..n /\ i \in 0..n
      BY <1>1
    <2>2. size(i) \in Nat /\ size(i + 1) \in Nat
      BY <1>1, <2>1
    <2>3. PICK o \in Object, rest \in Seq(Nat) :
              rest = Tails[m][i + 1] /\ Len(rest) < Len(Tails[m][i])
      BY TailsStep
    <2> QED
      BY <2>3
  <1> SUFFICES ASSUME T # {} PROVE FALSE
    <2>1. j \in T \/ size(j) < size(k)
      BY <1>1
    <2> QED
      BY <2>1
  <1> HIDE DEF n, size
  <1>3. PICK i \in T : \A l \in T : ~(l < i)
    BY LeastNumber, T \subseteq Nat
  <1>4. i \in 0..n /\ k < i /\ ~(size(i) < size(k)) /\ i - 1 \in 0..(n - 1) /\ i - 1 \in 0..n /\ i - 1 < i /\ (i - 1) + 1 = i
        /\ k \in Nat
    BY <1>1, <1>3
  <1>5. size(i) < size(i - 1)
    BY <1>2, <1>4
  <1>6. i - 1 = k \/ (k < i - 1 /\ size(i - 1) < size(k))
    BY <1>3, <1>4
  <1>7. k \in 0..n
    BY DEF n
  <1> QED
    BY <1>1, <1>4, <1>5, <1>6, <1>7

\* Where some octets begin among the objects.
LEMMA MissedIs ==
    ASSUME NEW m \in Message \union {NoMessage}, NEW octets \in Seq(Nat)
    PROVE  /\ Missed(m, octets) \in 0..Len(m.objects)
           /\ Len(Tails[m][Missed(m, octets)]) <= Len(octets)
           /\ \A k \in 0..Len(m.objects) : Len(Tails[m][k]) <= Len(octets) => Missed(m, octets) <= k
  <1> DEFINE T == {k \in 0..Len(m.objects) : Len(Tails[m][k]) <= Len(octets)}
  <1>1. Len(m.objects) \in Nat /\ Len(octets) \in Nat /\ T \subseteq Nat
    BY TailsAre, LenProperties
  <1>2. Len(m.objects) \in T
    <2>1. Len(Tails[m][Len(m.objects)]) = 0
      BY TailsAre, EmptySeq
    <2> QED
      BY <1>1, <2>1
  <1>3. \E k \in T : \A j \in T : k <= j
    <2>1. PICK k \in T : \A j \in T : ~(j < k)
      BY <1>1, <1>2, LeastNumber
    <2> QED
      BY <1>1, <2>1
  <1>4. Min(T) \in T /\ \A j \in T : Min(T) <= j
    BY <1>3 DEF Min
  <1>5. Missed(m, octets) = Min(T)
    BY DEF Missed
  <1> HIDE DEF T
  <1>6. Missed(m, octets) \in T /\ \A j \in T : Missed(m, octets) <= j
    BY <1>4, <1>5
  <1> QED
    BY <1>6 DEF T

\* Who goes on reading does not come back.
LEMMA MissedGrows ==
    ASSUME NEW m \in Message \union {NoMessage}, NEW a \in Seq(Nat), NEW b \in Seq(Nat), Len(b) <= Len(a)
    PROVE  Missed(m, a) <= Missed(m, b)
  <1>1. Missed(m, b) \in 0..Len(m.objects) /\ Len(Tails[m][Missed(m, b)]) <= Len(b)
    BY MissedIs
  <1>2. Len(Tails[m][Missed(m, b)]) \in Nat /\ Len(a) \in Nat /\ Len(b) \in Nat
    BY <1>1, TailsAre, LenProperties
  <1>3. Len(Tails[m][Missed(m, b)]) <= Len(a)
    BY <1>1, <1>2
  <1> QED
    BY <1>1, <1>3, MissedIs

LEMMA MissedTail ==
    ASSUME NEW m \in Message \union {NoMessage}, NEW k \in 0..Len(m.objects)
    PROVE  Missed(m, Tails[m][k]) = k
  <1>1. PICK t \in Seq(Nat) : t = Tails[m][k]
    BY TailsAre
  <1> DEFINE i == Missed(m, t)
  <1>2. i \in 0..Len(m.objects) /\ Len(Tails[m][i]) <= Len(t) /\ i <= k /\ Len(t) \in Nat /\ Len(m.objects) \in Nat
    <2>1. Len(t) \in Nat /\ Len(m.objects) \in Nat
      BY TailsAre, LenProperties
    <2>2. Len(Tails[m][k]) <= Len(t)
      BY <1>1, <2>1
    <2> QED
      BY <2>1, <2>2, MissedIs
  <1> HIDE DEF i
  <1>3. ~(i < k)
    <2> SUFFICES ASSUME i < k PROVE FALSE
      OBVIOUS
    <2>1. Len(Tails[m][k]) < Len(Tails[m][i])
      BY <1>2, TailsShrink
    <2>2. Len(Tails[m][i]) \in Nat
      BY <1>2, TailsAre, LenProperties
    <2> QED
      BY <1>1, <1>2, <2>1, <2>2
  <1>4. i = k
    BY <1>2, <1>3
  <1> QED
    BY <1>1, <1>4 DEF i

\* The octets of an object without its hash are behind where it began.
LEMMA MissedObject ==
    ASSUME NEW m \in Message \union {NoMessage}, NEW k \in 0..(Len(m.objects) - 1)
    PROVE  Missed(m, ObjectOctets[m.objects[k + 1]] \o Tails[m][k + 1]) = k + 1
  <1>1. PICK o \in Object, rest \in Seq(Nat) :
            /\ o = m.objects[k + 1] /\ rest = Tails[m][k + 1]
            /\ Tails[m][k] = ClassOctets(o) \o rest
            /\ Len(rest) <= Len(ObjectOctets[o] \o rest) /\ Len(ObjectOctets[o] \o rest) < Len(Tails[m][k])
            /\ Len(rest) < Len(Tails[m][k]) /\ HashSize <= Len(Tails[m][k])
            /\ Len(Tails[m][k]) \in Nat /\ Len(rest) \in Nat /\ Len(ObjectOctets[o] \o rest) \in Nat
    BY TailsStep
  <1>2. Len(m.objects) \in Nat /\ k \in 0..Len(m.objects) /\ k + 1 \in 0..Len(m.objects)
    BY TailsAre
  <1>3. PICK octets \in Seq(Nat) : octets = ObjectOctets[o] \o rest
    BY ClassOctetsTyped, Lengths
  <1>4. Len(Tails[m][k + 1]) <= Len(octets)
    BY <1>1, <1>3
  <1>5. Len(octets) < Len(Tails[m][k]) /\ Len(octets) \in Nat /\ Len(Tails[m][k]) \in Nat
    BY <1>1, <1>3
  <1> DEFINE i == Missed(m, octets)
  <1>6. i \in 0..Len(m.objects) /\ Len(Tails[m][i]) <= Len(octets) /\ i <= k + 1
    BY <1>2, <1>4, MissedIs
  <1>7. Len(Tails[m][i]) \in Nat
    BY <1>6, TailsAre, LenProperties
  <1> HIDE DEF i
  <1>8. i # k
    BY <1>5, <1>6
  <1>9. ~(i < k)
    <2> SUFFICES ASSUME i < k PROVE FALSE
      OBVIOUS
    <2>1. Len(Tails[m][k]) < Len(Tails[m][i])
      BY <1>2, <1>6, TailsShrink
    <2> QED
      BY <1>5, <1>6, <1>7, <2>1
  <1>10. i = k + 1
    BY <1>2, <1>6, <1>8, <1>9
  <1> QED
    BY <1>1, <1>3, <1>10 DEF i

\* The octets of a message, cut into a hash and what follows.
LEMMA CutHash ==
    ASSUME NEW octets \in Seq(Nat)
    PROVE  /\ HashAt(octets) \in Seq(Nat) /\ After(octets, HashSize) \in Seq(Nat)
           /\ HashAt(octets) \o After(octets, HashSize) = octets
           /\ \/ Len(HashAt(octets)) = HashSize
              \/ Len(HashAt(octets)) < HashSize /\ After(octets, HashSize) = <<>>
  <1>1. HashSize \in Nat /\ Len(octets) \in Nat
    BY OctetAssumption, LenProperties DEF HashSize
  <1>2. CASE Len(octets) < HashSize
    <2>1. After(octets, HashSize) = <<>>
      BY <1>1, <1>2, SubSeqEmpty DEF After
    <2>2. HashAt(octets) = octets
      BY <1>2 DEF HashAt
    <2> QED
      BY <1>2, <2>1, <2>2, EmptySeq, ConcatEmptySeq
  <1>3. CASE ~(Len(octets) < HashSize)
    <2>1. \A i \in 1..Len(octets) : octets[i] \in Nat
      BY ElementOfSeq
    <2> DEFINE h == SubSeq(octets, 1, HashSize)
               r == SubSeq(octets, HashSize + 1, Len(octets))
    <2>2. h \in Seq(Nat) /\ Len(h) = HashSize
      <3>1. \A i \in 1..HashSize : octets[i] \in Nat
        BY <1>1, <1>3, <2>1
      <3>2. h \in Seq(Nat) /\ Len(h) = IF 1 <= HashSize THEN HashSize - 1 + 1 ELSE 0
        BY <1>1, <3>1, SubSeqProperties
      <3> QED
        BY <1>1, <3>2
    <2>3. r \in Seq(Nat)
      <3>1. \A i \in (HashSize + 1)..Len(octets) : octets[i] \in Nat
        BY <1>1, <2>1
      <3> QED
        BY <1>1, <3>1, SubSeqProperties
    <2>4. h \o r = octets
      <3>1. 1 \in 1..(Len(octets) + 1) /\ HashSize \in (1 - 1)..Len(octets) /\ Len(octets) \in HashSize..Len(octets)
        BY <1>1, <1>3
      <3>2. h \o r = SubSeq(octets, 1, Len(octets))
        BY <3>1, ConcatAdjacentSubSeq
      <3> QED
        BY <3>2, SubSeqFull
    <2> QED
      BY <1>3, <2>2, <2>3, <2>4 DEF HashAt, After
  <1> QED
    BY <1>2, <1>3

LEMMA OctetsRead ==
    ASSUME NEW m \in Message
    PROVE  /\ Octets(m) \in Seq(Nat)
           /\ m.packet => HashAt(Octets(m)) = PacketHash /\ After(Octets(m), HashSize) = Tails[m][0]
           /\ ~m.packet => /\ HashAt(Octets(m)) # PacketHash
                           /\ Octets(m) = Tails[m][0] /\ Octets(m) # <<>>
  <1>1. HashSize \in Nat /\ PacketHash \in Seq(Nat) /\ Len(PacketHash) = HashSize
    BY OctetAssumption, LenProperties DEF HashSize
  <1>2. Len(m.objects) \in Nat /\ Tails[m][0] = OctetsBehind(m.objects)[0] /\ 0 \in 0..Len(m.objects)
    <2>1. Len(m.objects) \in Nat
      BY TailsAre
    <2> QED
      BY <2>1 DEF Tails
  <1>3. PICK t \in Seq(Nat) : t = Tails[m][0]
    BY <1>2, TailsAre
  <1>4. CASE m.packet
    <2>1. Octets(m) = PacketHash \o t
      BY <1>2, <1>3, <1>4 DEF Octets, PacketOctets
    <2>2. PICK octets \in Seq(Nat) : octets = PacketHash \o t /\ ~(Len(octets) < HashSize)
      <3>1. Len(t) \in Nat /\ PacketHash \o t \in Seq(Nat) /\ Len(PacketHash \o t) = HashSize + Len(t)
        BY <1>1, Lengths
      <3>2. ~(Len(PacketHash \o t) < HashSize)
        BY <1>1, <3>1
      <3> QED
        BY <3>1, <3>2
    <2>3. SubSeq(octets, 1, HashSize) = PacketHash /\ SubSeq(octets, HashSize + 1, Len(octets)) = t
      BY <1>1, <2>2, CutConcat
    <2> QED
      BY <1>3, <1>4, <2>1, <2>2, <2>3 DEF HashAt, After
  <1>5. CASE ~m.packet
    <2>1. Len(m.objects) = 1
      BY <1>5, MessageAssumption
    <2>2. PICK o \in Object, rest \in Seq(Nat) :
              /\ o = m.objects[1] /\ rest = Tails[m][1] /\ Tails[m][0] = ClassOctets(o) \o rest
      <3>1. PICK k \in 0..(Len(m.objects) - 1) : k = 0
        BY <2>1
      <3>2. m.objects[k + 1] \in Object /\ Tails[m][k] = ClassOctets(m.objects[k + 1]) \o Tails[m][k + 1]
        BY TailsAre
      <3>3. k + 1 = 1 /\ 1 \in 0..Len(m.objects)
        BY <2>1, <3>1
      <3>4. Tails[m][1] \in Seq(Nat)
        BY <3>3, TailsAre
      <3> QED
        BY <3>1, <3>2, <3>3, <3>4
    <2>3. rest = <<>>
      BY <2>1, <2>2, TailsAre
    <2>4. ClassOctets(o) \in Seq(Nat) /\ ClassOctets(o) \o <<>> = ClassOctets(o)
      BY ClassOctetsTyped, ConcatEmptySeq
    <2>5. Octets(m) = ClassOctets(o) /\ Octets(m) = Tails[m][0] /\ Octets(m) \in Seq(Nat)
      BY <1>5, <2>2, <2>3, <2>4 DEF Octets
    <2>6. PICK octets \in Seq(Nat) : octets = ClassOctets(o)
      BY <2>4
    <2>7. /\ o.class \in Class /\ ObjectOctets[o] \in Seq(Nat) /\ HashOf[o.class] \in Seq(Nat)
          /\ Len(HashOf[o.class]) = HashSize /\ HashSize \in Nat \ {0}
          /\ octets = HashOf[o.class] \o ObjectOctets[o]
      BY <2>6, ClassOctetsTyped DEF ClassOctets
    <2>8. SubSeq(octets, 1, HashSize) = HashOf[o.class]
      BY <2>7, CutConcat
    <2>9. Len(octets) \in Nat /\ ~(Len(octets) < HashSize) /\ octets # <<>>
      <3>1. Len(ObjectOctets[o]) \in Nat /\ Len(octets) = HashSize + Len(ObjectOctets[o])
        BY <2>7, Lengths
      <3>2. Len(octets) # 0
        BY <2>7, <3>1
      <3> QED
        BY <2>7, <3>1, <3>2, EmptySeq
    <2>10. HashAt(octets) # PacketHash
      BY <2>7, <2>8, <2>9, HashAssumption DEF HashAt
    <2> QED
      BY <1>5, <2>5, <2>6, <2>9, <2>10
  <1> QED
    BY <1>4, <1>5

\* The hash h has been read where object k + 1 of a message or its end is, and r
\* follows.
HashBegins(m, k, h, r) ==
    /\ m \in Message \union {NoMessage} /\ k \in 0..Len(m.objects)
    /\ h \in Seq(Nat) /\ r \in Seq(Nat) /\ h \o r = Tails[m][k] /\ h \o r # <<>>
    /\ Len(h) = HashSize \/ (Len(h) < HashSize /\ r = <<>>)

\* That object is o, and rest follows it.
ObjectFollows(m, k, h, r, o, rest) ==
    /\ k \in 0..(Len(m.objects) - 1) /\ o = m.objects[k + 1] /\ rest = Tails[m][k + 1]
    /\ h \o r = Tails[m][k] /\ h = HashOf[o.class] /\ r = ObjectOctets[o] \o rest

\* Who reads a hash where an object begins reads the hash of its class.
LEMMA HashRead ==
    ASSUME NEW m, NEW k, NEW h, NEW r, HashBegins(m, k, h, r)
    PROVE  \E o \in Object, rest \in Seq(Nat) : ObjectFollows(m, k, h, r, o, rest)
  <1>0. /\ m \in Message \union {NoMessage} /\ k \in 0..Len(m.objects)
        /\ h \in Seq(Nat) /\ r \in Seq(Nat) /\ h \o r = Tails[m][k] /\ h \o r # <<>>
        /\ Len(h) = HashSize \/ (Len(h) < HashSize /\ r = <<>>)
    BY DEF HashBegins
  <1>1. k # Len(m.objects) /\ Len(m.objects) \in Nat
    BY <1>0, TailsAre
  <1>2. k \in 0..(Len(m.objects) - 1)
    BY <1>0, <1>1
  <1>3. PICK o \in Object, rest \in Seq(Nat) :
            /\ o = m.objects[k + 1] /\ rest = Tails[m][k + 1]
            /\ Tails[m][k] = ClassOctets(o) \o rest /\ HashSize <= Len(Tails[m][k])
    BY <1>0, <1>2, TailsStep
  <1>4. PICK x \in Seq(Nat), y \in Seq(Nat) :
            x = HashOf[o.class] /\ y = ObjectOctets[o] /\ Len(x) = HashSize /\ ClassOctets(o) = x \o y
    BY ClassOctetsTyped DEF ClassOctets
  <1>5. HashSize \in Nat
    BY <1>4, LenProperties
  <1>6. Tails[m][k] = x \o (y \o rest) /\ y \o rest \in Seq(Nat)
    <2>1. (x \o y) \o rest = x \o (y \o rest)
      <3>1. Together(x, y, rest)
        BY ConcatTogether, Zenon
      <3> QED
        BY <3>1 DEF Together
    <2>2. y \o rest \in Seq(Nat)
      BY Lengths
    <2> QED
      BY <1>3, <1>4, <2>1, <2>2, Zenon
  <1>7. Len(h) = HashSize
    <2> SUFFICES ASSUME Len(h) < HashSize, r = <<>> PROVE FALSE
      BY <1>0
    <2>1. h \o r = h
      BY <1>0, ConcatEmptySeq
    <2>2. HashSize <= Len(h) /\ Len(h) \in Nat
      BY <1>0, <1>3, <2>1, LenProperties
    <2> QED
      BY <1>5, <2>2
  <1>8. PICK z \in Seq(Nat) : z = y \o rest
    BY <1>6
  <1>9. h \o r = x \o z
    BY <1>0, <1>6, <1>8, Zenon
  <1>10. h = SubSeq(x \o z, 1, HashSize) /\ r = SubSeq(x \o z, HashSize + 1, Len(x \o z))
    <2>1. h = SubSeq(h \o r, 1, Len(h)) /\ r = SubSeq(h \o r, Len(h) + 1, Len(h \o r))
      <3>1. \A a, b \in Seq(Nat) : a = SubSeq(a \o b, 1, Len(a)) /\ b = SubSeq(a \o b, Len(a) + 1, Len(a \o b))
        BY CutConcat
      <3> QED
        BY <1>0, <3>1, Zenon
    <2> QED
      BY <1>7, <1>9, <2>1, Zenon
  <1>11. x = SubSeq(x \o z, 1, HashSize) /\ z = SubSeq(x \o z, HashSize + 1, Len(x \o z))
    <2>1. x = SubSeq(x \o z, 1, Len(x)) /\ z = SubSeq(x \o z, Len(x) + 1, Len(x \o z))
      BY CutConcat
    <2> QED
      BY <1>4, <2>1
  <1> QED
    BY <1>0, <1>2, <1>3, <1>4, <1>8, <1>10, <1>11, Zenon DEF ObjectFollows

LEMMA PrefixIs ==
    ASSUME NEW a \in Seq(Nat), NEW b \in Seq(Nat)
    PROVE  IsPrefix(a, b) <=> Len(a) <= Len(b) /\ \A i \in 1..Len(a) : a[i] = b[i]
  <1>1. Len(a) \in Nat /\ Len(b) \in Nat
    BY LenProperties
  <1>2. ASSUME Len(a) <= Len(b)
        PROVE  SubSeq(a, 1, Len(a)) = SubSeq(b, 1, Len(a)) <=> \A i \in 1..Len(a) : a[i] = b[i]
    <2>1. SubSeq(a, 1, Len(a)) = a
      BY SubSeqFull
    <2> DEFINE c == SubSeq(b, 1, Len(a))
    <2>2. \A i \in 1..Len(a) : b[i] \in Nat
      BY <1>1, <1>2, ElementOfSeq
    <2>3. /\ c \in Seq(Nat) /\ Len(c) = IF 1 <= Len(a) THEN Len(a) - 1 + 1 ELSE 0
          /\ \A i \in 1..(Len(a) - 1 + 1) : c[i] = b[1 + i - 1]
      BY <1>1, <2>2, SubSeqProperties
    <2>4. Len(c) = Len(a) /\ \A i \in 1..Len(a) : c[i] = b[i]
      BY <1>1, <2>3
    <2> HIDE DEF c
    <2>5. (\A i \in 1..Len(a) : a[i] = b[i]) => a = c
      <3> SUFFICES ASSUME \A i \in 1..Len(a) : a[i] = b[i] PROVE a = c
        OBVIOUS
      <3>1. \A i \in 1..Len(a) : a[i] = c[i]
        BY <2>4
      <3> QED
        BY <2>3, <2>4, <3>1, SeqEqual
    <2>6. a = c => \A i \in 1..Len(a) : a[i] = b[i]
      BY <2>4
    <2> QED
      BY <2>1, <2>5, <2>6 DEF c
  <1> QED
    BY <1>2 DEF IsPrefix

\* The octets of an object say which one it is and where it ends.
LEMMA ObjectRead ==
    ASSUME NEW o \in Object, NEW rest \in Seq(Nat)
    PROVE  /\ ObjectsAt({o.class}, ObjectOctets[o] \o rest) = {o}
           /\ After(ObjectOctets[o] \o rest, Len(ObjectOctets[o])) = rest
  <1>1. PICK x \in Seq(Nat) : x = ObjectOctets[o]
    BY ClassOctetsTyped
  <1>2. /\ x \o rest \in Seq(Nat) /\ Len(x \o rest) = Len(x) + Len(rest) /\ Len(x) \in Nat /\ Len(rest) \in Nat
        /\ \A i \in 1..(Len(x) + Len(rest)) : (x \o rest)[i] = IF i <= Len(x) THEN x[i] ELSE rest[i - Len(x)]
    BY ConcatProperties, LenProperties
  <1>3. Len(x) <= Len(x \o rest) /\ \A i \in 1..Len(x) : (x \o rest)[i] = x[i]
    BY <1>2
  <1>4. IsPrefix(x, x \o rest)
    BY <1>2, <1>3, PrefixIs
  <1>5. ASSUME NEW p \in Object, p.class = o.class, IsPrefix(ObjectOctets[p], x \o rest)
        PROVE  p = o
    <2>1. PICK y \in Seq(Nat) : y = ObjectOctets[p]
      BY ClassOctetsTyped
    <2>2. Len(y) \in Nat /\ \A i \in 1..Len(y) : y[i] = (x \o rest)[i]
      BY <1>2, <1>5, <2>1, PrefixIs, LenProperties
    <2>3. CASE Len(y) <= Len(x)
      <3>1. \A i \in 1..Len(y) : i \in 1..Len(x) /\ y[i] = x[i]
        BY <1>2, <1>3, <2>2, <2>3
      <3>2. IsPrefix(y, x)
        BY <2>3, <3>1, PrefixIs
      <3> QED
        BY <1>1, <1>5, <2>1, <3>2, ObjectAssumption
    <2>4. CASE Len(x) <= Len(y)
      <3>1. \A i \in 1..Len(x) : i \in 1..Len(y) /\ y[i] = x[i]
        BY <1>2, <1>3, <2>2, <2>4
      <3>2. IsPrefix(x, y)
        BY <2>4, <3>1, PrefixIs
      <3> QED
        BY <1>1, <1>5, <2>1, <3>2, ObjectAssumption
    <2> QED
      BY <1>2, <2>2, <2>3, <2>4
  <1>6. SubSeq(x \o rest, Len(x) + 1, Len(x \o rest)) = rest
    BY CutConcat
  <1> QED
    BY <1>1, <1>4, <1>5, <1>6 DEF ObjectsAt, After

LEMMA ClassFound ==
    ASSUME NEW c \in Class, NEW classes \in SUBSET Class
    PROVE  Hashed(classes, HashOf[c]) = classes \intersect {c}
  BY HashAssumption DEF Hashed

LEMMA AfterTyped ==
    ASSUME NEW octets \in Seq(Nat), NEW n \in Nat
    PROVE  After(octets, n) \in Seq(Nat) /\ Len(After(octets, n)) <= Len(octets)
  <1>1. Len(octets) \in Nat /\ \A i \in 1..Len(octets) : octets[i] \in Nat
    BY LenProperties, ElementOfSeq
  <1>2. \A i \in (n + 1)..Len(octets) : octets[i] \in Nat
    BY <1>1
  <1>3. /\ SubSeq(octets, n + 1, Len(octets)) \in Seq(Nat)
        /\ Len(SubSeq(octets, n + 1, Len(octets))) = IF n + 1 <= Len(octets) THEN Len(octets) - (n + 1) + 1 ELSE 0
    BY <1>1, <1>2, SubSeqProperties
  <1> QED
    BY <1>1, <1>3 DEF After

------------------------------------------------------------------------------
(***************************************************************************)
(* Where the network thread is in its message.                             *)
(***************************************************************************)
\* An object begins here, whose hash may have been read.
InStep ==
    \E k \in 0..Len(message.objects) :
        CASE at[Net] = "lookup"  -> hash \o d = Tails[message][k]
          [] at[Net] = "default" ->
                /\ k # 0 /\ hash = HashOf[message.objects[k].class]
                /\ d = ObjectOctets[message.objects[k]] \o Tails[message][k]
          [] OTHER -> d = Tails[message][k]

\* Only in a packet, and behind an object nobody has read, the thread may not be
\* in step.
Reading ==
    /\ inbox \in Seq(Message) /\ message \in Message \union {NoMessage}
    /\ d \in Seq(Nat) /\ hash \in Seq(Nat)
    /\ \A t \in Thread : at[t] # "fire" => todo[t] = {}
    /\ at[Net] = "idle" => message = NoMessage /\ d = <<>>
    /\ at[Net] = "packet" => message.packet
    /\ at[Net] = "lookup" =>
          hash \o d # <<>> /\ (Len(hash) = HashSize \/ (Len(hash) < HashSize /\ d = <<>>))
    /\ at[Net] = "fire" /\ ~message.packet => d = <<>>
    /\ ~message.packet \/ default = "reads" => InStep

LEMMA InitReading == Init => Reading
  <1> SUFFICES ASSUME Init PROVE Reading
    OBVIOUS
  <1>1. /\ inbox = <<>> /\ message = NoMessage /\ d = <<>> /\ hash = <<>>
        /\ at[Net] = "idle" /\ \A t \in Thread : todo[t] = {}
    BY Threads DEF Init
  <1>2. 0 \in 0..Len(message.objects) /\ Tails[message][0] = <<>>
    <2>1. Len(NoMessage.objects) = 0 /\ Tails[NoMessage][Len(NoMessage.objects)] = <<>>
      BY TailsAre DEF NoMessage
    <2> QED
      BY <1>1, <2>1
  <1>3. InStep
    BY <1>1, <1>2 DEF InStep
  <1> QED
    BY <1>1, <1>3, EmptySeq DEF Reading

\* In step, the hash that has been read and the octets that follow are those of an
\* object of the message.
LEMMA InStepHash ==
    ASSUME Reading, InStep, at[Net] = "lookup"
    PROVE  \E k : \E o \in Object, rest \in Seq(Nat) : ObjectFollows(message, k, hash, d, o, rest)
  <1>1. PICK k \in 0..Len(message.objects) : hash \o d = Tails[message][k]
    BY DEF InStep
  <1>2. HashBegins(message, k, hash, d)
    BY <1>1 DEF Reading, HashBegins
  <1> QED
    BY <1>2, HashRead, Zenon

\* The objects of a message from k + 1 on.
RestOf(m, k) == SubSeq(m.objects, k + 1, Len(m.objects))

LEMMA RestIs ==
    ASSUME NEW m \in Message \union {NoMessage}, NEW k \in 0..Len(m.objects)
    PROVE  /\ k = 0 => RestOf(m, k) = m.objects
           /\ k = Len(m.objects) => RestOf(m, k) = <<>>
           /\ k # Len(m.objects) => /\ RestOf(m, k) # <<>> /\ Head(RestOf(m, k)) = m.objects[k + 1]
                                    /\ Tail(RestOf(m, k)) = RestOf(m, k + 1)
           /\ \A j \in k..Len(m.objects) : RestOf(m, j) \in Suffixes(RestOf(m, k))
  <1> DEFINE s == m.objects
             n == Len(m.objects)
  <1>1. s \in Seq(Object) /\ n \in Nat /\ n = Len(s)
    BY TailsAre
  <1>2. k = 0 => RestOf(m, k) = s
    BY <1>1, SubSeqFull DEF RestOf
  <1> HIDE DEF s, n
  <1>3. RestOf(m, k) = SubSeq(s, k + 1, n) /\ RestOf(m, k + 1) = SubSeq(s, k + 2, n) /\ k \in 0..n
        /\ \A j \in k..n : RestOf(m, j) = SubSeq(s, j + 1, n)
    BY <1>1 DEF RestOf, s, n
  <1>4. k = n => RestOf(m, k) = <<>>
    BY <1>1, <1>3, SubSeqEmpty
  <1>5. ASSUME k # n
        PROVE  /\ RestOf(m, k) # <<>> /\ Head(RestOf(m, k)) = s[k + 1] /\ Tail(RestOf(m, k)) = RestOf(m, k + 1)
               /\ Len(RestOf(m, k)) = n - k
    <2>1. k + 1 \in 1..Len(s) /\ n \in (k + 1)..Len(s)
      BY <1>1, <1>3, <1>5
    <2>2. Head(SubSeq(s, k + 1, n)) = s[k + 1] /\ Tail(SubSeq(s, k + 1, n)) = SubSeq(s, (k + 1) + 1, n)
      BY <1>1, <2>1, HeadTailOfSubSeq
    <2>3. Len(SubSeq(s, k + 1, n)) = n - k
      <3>1. \A i \in (k + 1)..n : s[i] \in Object
        BY <1>1, <1>3, ElementOfSeq
      <3>2. Len(SubSeq(s, k + 1, n)) = IF k + 1 <= n THEN n - (k + 1) + 1 ELSE 0
        BY <1>1, <1>3, <3>1, SubSeqProperties
      <3> QED
        BY <1>1, <1>3, <2>1, <3>2
    <2>4. n - k # 0 /\ (k + 1) + 1 = k + 2
      BY <1>1, <1>3, <1>5
    <2>5. SubSeq(s, k + 1, n) # <<>>
      <3> SUFFICES ASSUME SubSeq(s, k + 1, n) = <<>> PROVE FALSE
        OBVIOUS
      <3>1. Len(<<>>) = n - k
        BY <2>3, Zenon
      <3> QED
        BY <2>4, <3>1
    <2> QED
      BY <1>3, <2>2, <2>3, <2>4, <2>5
  <1>6. ASSUME NEW j \in k..n PROVE RestOf(m, j) \in Suffixes(RestOf(m, k))
    <2>1. RestOf(m, j) = SubSeq(s, j + 1, n) /\ RestOf(m, k) = SubSeq(s, k + 1, n) /\ j \in Nat /\ k \in Nat
      BY <1>1, <1>3
    <2>2. CASE j = n
      <3>1. RestOf(m, j) = <<>>
        BY <1>1, <2>1, <2>2, SubSeqEmpty
      <3> QED
        BY <3>1 DEF Suffixes
    <2>3. CASE j # n
      <3>1. /\ k + 1 \in 1..Len(s) /\ n \in 1..Len(s) /\ k # n
            /\ (j - k) + 1 \in 1..(n - (k + 1) + 1) /\ n - k \in 1..(n - (k + 1) + 1)
            /\ (k + 1) + ((j - k) + 1) - 1 = j + 1 /\ (k + 1) + (n - k) - 1 = n
        BY <1>1, <1>3, <2>1, <2>3
      <3>2. SubSeq(SubSeq(s, k + 1, n), (j - k) + 1, n - k)
              = SubSeq(s, (k + 1) + ((j - k) + 1) - 1, (k + 1) + (n - k) - 1)
        BY <1>1, <3>1, SubSeqOfSubSeq
      <3>3. SubSeq(RestOf(m, k), (j - k) + 1, n - k) = RestOf(m, j)
        BY <2>1, <3>1, <3>2
      <3>4. Len(RestOf(m, k)) = n - k /\ (j - k) + 1 \in 1..(n - k)
        BY <1>1, <1>3, <1>5, <2>1, <3>1
      <3> QED
        BY <3>3, <3>4 DEF Suffixes
    <2> QED
      BY <2>2, <2>3
  <1> QED
    BY <1>2, <1>4, <1>5, <1>6 DEF s, n

------------------------------------------------------------------------------
(***************************************************************************)
(* Every step is one of Delivery's or none.                                *)
(***************************************************************************)
Implements == [Delivered!Next]_(Delivered!vars)

LEMMA AstrayIs ==
    /\ Astray \in BOOLEAN /\ Astray' \in BOOLEAN
    /\ default = "reads" => ~Astray
    /\ default' = "reads" => ~Astray'
  BY DEF Astray

LEMMA AheadIs ==
    /\ Ahead = IF at[Net] = "lookup" THEN hash \o d ELSE d
    /\ Ahead' = IF at'[Net] = "lookup" THEN hash' \o d' ELSE d'
  BY DEF Ahead

\* Where an object begins, or begins next.
LEMMA LeftNow ==
    ASSUME message \in Message \union {NoMessage}, NEW k \in 0..Len(message.objects)
    PROVE  /\ Missed(message, Ahead) = k => Left = RestOf(message, k)
           /\ Ahead = Tails[message][k] => Left = RestOf(message, k) /\ (at[Net] # "default" => ~Astray)
  <1>1. Missed(message, Tails[message][k]) = k
    BY MissedTail
  <1> QED
    BY <1>1 DEF Left, RestOf, Astray

LEMMA LeftThen ==
    ASSUME message' \in Message \union {NoMessage}, NEW k \in 0..Len(message'.objects)
    PROVE  /\ Missed(message', Ahead') = k => Left' = RestOf(message', k)
           /\ Ahead' = Tails[message'][k] => Left' = RestOf(message', k) /\ (at'[Net] # "default" => ~Astray')
  <1>1. Missed(message', Tails[message'][k]) = k
    BY MissedTail
  <1> QED
    BY <1>1 DEF Left, RestOf, Astray

\* The end of a message.
LEMMA EndsNow ==
    ASSUME message \in Message \union {NoMessage}, Ahead = <<>>, at[Net] # "default"
    PROVE  Left = <<>> /\ ~Astray
  <1> DEFINE n == Len(message.objects)
  <1>1. n \in 0..n /\ Tails[message][n] = <<>> /\ RestOf(message, n) = <<>>
    <2>1. n \in Nat /\ Tails[message][n] = <<>>
      BY TailsAre
    <2>2. n \in 0..n
      BY <2>1
    <2> QED
      BY <2>1, <2>2, RestIs
  <1> HIDE DEF n
  <1>2. n \in 0..Len(message.objects)
    BY <1>1 DEF n
  <1> QED
    BY <1>1, <1>2, LeftNow

LEMMA IdleThen ==
    ASSUME message' = NoMessage, Ahead' = <<>>, at'[Net] # "default"
    PROVE  Left' = <<>> /\ ~Astray'
  <1>1. NoMessage.objects = <<>> /\ Len(NoMessage.objects) = 0
    BY DEF NoMessage
  <1>2. 0 \in 0..Len(message'.objects) /\ message' \in Message \union {NoMessage}
    BY <1>1
  <1>3. Tails[message'][0] = <<>> /\ RestOf(message', 0) = <<>>
    BY <1>1, TailsAre, RestIs, <1>2
  <1> QED
    BY <1>2, <1>3, LeftThen

\* What is to be given, and to whom.
LEMMA GivingKept ==
    ASSUME \A t \in Thread : todo'[t] = todo[t] /\ (todo[t] # {} => object'[t] = object[t])
    PROVE  Giving' = Giving
  <1>1. \A t \in Thread : {<<id, object'[t]>> : id \in todo'[t]} = {<<id, object[t]>> : id \in todo[t]}
    OBVIOUS
  <1> QED
    BY <1>1 DEF Giving

LEMMA GivingNothing ==
    ASSUME NEW t \in Thread, todo[t] = {}
    PROVE  Giving[t] = {}
  BY DEF Giving

LEMMA GivingStarts ==
    ASSUME Inv, NEW t \in Thread, NEW o, NEW ids,
           todo' = [todo EXCEPT ![t] = ids], object' = [object EXCEPT ![t] = o]
    PROVE  Giving' = [Giving EXCEPT ![t] = {<<id, o>> : id \in ids}]
  <1>1. DOMAIN todo = Thread /\ DOMAIN object = Thread
    BY DEF Inv, Firing
  <1>2. \A u \in Thread : {<<id, object'[u]>> : id \in todo'[u]}
                           = IF u = t THEN {<<id, o>> : id \in ids} ELSE {<<id, object[u]>> : id \in todo[u]}
    BY <1>1
  <1> QED
    BY <1>2 DEF Giving

LEMMA GivingGives ==
    ASSUME Inv, NEW t \in Thread, NEW id \in todo[t],
           todo' = [todo EXCEPT ![t] = todo[t] \ {id}], UNCHANGED object
    PROVE  /\ <<id, object[t]>> \in Giving[t]
           /\ Giving' = [Giving EXCEPT ![t] = Giving[t] \ {<<id, object[t]>>}]
  <1>1. DOMAIN todo = Thread
    BY DEF Inv, Firing
  <1>2. \A u \in Thread : {<<i, object'[u]>> : i \in todo'[u]}
                           = IF u = t THEN {<<i, object[u]>> : i \in todo[u]} \ {<<id, object[t]>>}
                             ELSE {<<i, object[u]>> : i \in todo[u]}
    <2> TAKE u \in Thread
    <2>1. CASE u = t
      <3>1. todo'[u] = todo[t] \ {id} /\ object' = object
        BY <1>1, <2>1
      <3>2. {<<i, object[t]>> : i \in todo[t] \ {id}} = {<<i, object[t]>> : i \in todo[t]} \ {<<id, object[t]>>}
        OBVIOUS
      <3> QED
        BY <2>1, <3>1, <3>2
    <2>2. CASE u # t
      BY <1>1, <2>2
    <2> QED
      BY <2>1, <2>2
  <1>3. Giving' = [Giving EXCEPT ![t] = Giving[t] \ {<<id, object[t]>>}]
    <2>1. Giving[t] = {<<i, object[t]>> : i \in todo[t]} /\ DOMAIN Giving = Thread
      BY DEF Giving
    <2>2. Giving' = [u \in Thread |-> IF u = t THEN {<<i, object[u]>> : i \in todo[u]} \ {<<id, object[t]>>}
                                      ELSE {<<i, object[u]>> : i \in todo[u]}]
      BY <1>2 DEF Giving
    <2>3. \A u \in Thread : Giving[u] = {<<i, object[u]>> : i \in todo[u]}
      BY DEF Giving
    <2> QED
      BY <2>1, <2>2, <2>3
  <1>4. <<id, object[t]>> \in Giving[t]
    BY DEF Giving
  <1> QED
    BY <1>3, <1>4

LEMMA DueIs ==
    ASSUME inbox \in Seq(Message)
    PROVE  /\ inbox # <<>> => Due # <<>> /\ Head(Due) = Head(inbox).objects
           /\ inbox # <<>> /\ inbox' = Tail(inbox) => Due' = Tail(Due)
           /\ \A m \in Message : inbox' = Append(inbox, m) => Due' = Append(Due, m.objects)
           /\ UNCHANGED inbox => UNCHANGED Due
  <1> DEFINE S == {m.objects : m \in Message}
             n == Len(inbox)
  <1>1. n \in Nat /\ DOMAIN inbox = 1..n /\ \A i \in 1..n : inbox[i] \in Message
    BY LenProperties, ElementOfSeq
  <1>2. Due = [i \in 1..n |-> inbox[i].objects]
    BY <1>1 DEF Due
  <1>3. Due \in Seq(S) /\ Len(Due) = n
    <2>1. \A i \in 1..n : inbox[i].objects \in S
      BY <1>1
    <2>2. [i \in 1..n |-> inbox[i].objects] \in Seq(S)
      BY <1>1, <2>1, IsASeq
    <2> QED
      BY <1>1, <1>2, <2>2, LenProperties
  <1>4. ASSUME inbox # <<>> PROVE Due # <<>> /\ Head(Due) = Head(inbox).objects
    <2>1. n # 0 /\ 1 \in 1..n
      BY <1>1, <1>4
    <2>2. Due # <<>> /\ Due[1] = inbox[1].objects
      BY <1>2, <1>3, <2>1
    <2> QED
      BY <2>2
  <1>5. ASSUME inbox # <<>>, inbox' = Tail(inbox) PROVE Due' = Tail(Due)
    <2> DEFINE b == Tail(inbox)
    <2>1. b \in Seq(Message) /\ Len(b) = n - 1 /\ \A i \in 1..(n - 1) : b[i] = inbox[i + 1]
      BY <1>5, HeadTailProperties
    <2>2. DOMAIN b = 1..(n - 1)
      BY <2>1, LenProperties
    <2>3. Due' = [i \in 1..(n - 1) |-> b[i].objects]
      BY <1>5, <2>2 DEF Due
    <2>4. Tail(Due) \in Seq(S) /\ Len(Tail(Due)) = n - 1 /\ \A i \in 1..(n - 1) : Tail(Due)[i] = Due[i + 1]
      BY <1>3, <1>4, <1>5, HeadTailProperties
    <2>5. Tail(Due) = [i \in 1..(n - 1) |-> Tail(Due)[i]]
      <3>1. PICK u \in Seq(S) : u = Tail(Due) /\ Len(u) = n - 1
        BY <2>4
      <3>2. u \in [1..(n - 1) -> S]
        BY <3>1, LenProperties
      <3>3. u = [i \in 1..(n - 1) |-> u[i]]
        BY <3>2
      <3> QED
        BY <3>1, <3>3
    <2>6. \A i \in 1..(n - 1) : Tail(Due)[i] = b[i].objects
      <3> TAKE i \in 1..(n - 1)
      <3>1. i + 1 \in 1..n
        BY <1>1
      <3> QED
        BY <1>2, <2>1, <2>4, <3>1
    <2> QED
      BY <2>3, <2>5, <2>6
  <1>6. ASSUME NEW m \in Message, inbox' = Append(inbox, m) PROVE Due' = Append(Due, m.objects)
    <2> DEFINE b == Append(inbox, m)
    <2>1. b \in Seq(Message) /\ Len(b) = n + 1 /\ (\A i \in 1..n : b[i] = inbox[i]) /\ b[n + 1] = m
      BY AppendProperties
    <2>2. DOMAIN b = 1..(n + 1)
      BY <2>1, LenProperties
    <2>3. Due' = [i \in 1..(n + 1) |-> b[i].objects]
      BY <1>6, <2>2 DEF Due
    <2> DEFINE c == Append(Due, m.objects)
    <2>4. c \in Seq(S) /\ Len(c) = n + 1 /\ (\A i \in 1..n : c[i] = Due[i]) /\ c[n + 1] = m.objects
      BY <1>3, AppendProperties
    <2>5. c = [i \in 1..(n + 1) |-> c[i]]
      BY <2>4
    <2>6. \A i \in 1..(n + 1) : c[i] = b[i].objects
      <3> TAKE i \in 1..(n + 1)
      <3>1. CASE i \in 1..n
        BY <1>2, <2>1, <2>4, <3>1
      <3>2. CASE i = n + 1
        BY <2>1, <2>4, <3>2
      <3>3. i \in 1..n \/ i = n + 1
        BY <1>1
      <3> QED
        BY <3>1, <3>2, <3>3
    <2> QED
      BY <2>3, <2>5, <2>6
  <1>7. UNCHANGED inbox => UNCHANGED Due
    BY DEF Due
  <1> QED
    BY <1>4, <1>5, <1>6, <1>7

LEMMA Unseen ==
    ASSUME UNCHANGED <<Due, Left, Astray, Giving, listening, default>>
    PROVE  Implements
  BY DEF Implements, Delivered!vars

LEMMA NetAt ==
    ASSUME Inv, NEW stage, at' = [at EXCEPT ![Net] = stage]
    PROVE  at'[Net] = stage /\ \A t \in Thread : t # Net => at'[t] = at[t]
  BY Threads DEF Inv, Firing

\* The network thread is elsewhere and what it reads is as it was.
LEMMA Stays ==
    ASSUME UNCHANGED <<d, hash, message, default>>, at'[Net] = at[Net]
    PROVE  /\ UNCHANGED <<Left, Astray>>
           /\ Reading /\ inbox' \in Seq(Message) /\ (\A t \in Thread : at'[t] # "fire" => todo'[t] = {}) => Reading'
  <1>1. UNCHANGED Ahead
    BY DEF Ahead
  <1>2. UNCHANGED <<Left, Astray>>
    BY <1>1 DEF Left, Astray
  <1>3. InStep => InStep'
    BY DEF InStep
  <1> QED
    BY <1>2, <1>3 DEF Reading

\* A message has been handled, or none has come yet.
LEMMA IdleReading ==
    ASSUME inbox' \in Seq(Message), at'[Net] = "idle", message' = NoMessage, d' = <<>>, hash' = <<>>,
           \A t \in Thread : at'[t] # "fire" => todo'[t] = {}
    PROVE  Reading'
  <1>1. NoMessage.objects = <<>> /\ Len(NoMessage.objects) = 0
    BY DEF NoMessage
  <1>2. Tails[NoMessage][0] = <<>>
    BY <1>1, TailsAre
  <1>3. InStep'
    <2>1. 0 \in 0..Len(message'.objects) /\ d' = Tails[message'][0]
      BY <1>1, <1>2
    <2> QED
      BY <2>1 DEF InStep
  <1> QED
    BY <1>3, EmptySeq DEF Reading

LEMMA ArriveImplements ==
    ASSUME Inv, Reading, Arrive
    PROVE  Reading' /\ Implements
  <1>1. /\ UNCHANGED <<d, hash, message, default, at, todo, object, listening>>
        /\ \E m \in Message : inbox' = Append(inbox, m)
    BY DEF Arrive, lists, firing, constant
  <1>2. PICK m \in Message : inbox' = Append(inbox, m)
    BY <1>1
  <1>3. inbox \in Seq(Message) /\ inbox' \in Seq(Message) /\ \A t \in Thread : at'[t] # "fire" => todo'[t] = {}
    BY <1>1, <1>2, AppendProperties DEF Reading
  <1>4. Reading' /\ UNCHANGED <<Left, Astray>>
    BY <1>1, <1>3, Stays
  <1>5. Due' = Append(Due, m.objects) /\ UNCHANGED Giving
    BY <1>1, <1>2, <1>3, DueIs, GivingKept
  <1>6. Delivered!Send(m.objects)
    BY <1>1, <1>4, <1>5 DEF Delivered!Send
  <1> QED
    BY <1>4, <1>6 DEF Implements, Delivered!Next

\* Listeners come and go.
LEMMA RegisterImplements ==
    ASSUME Inv, Reading, NEW t \in Thread, Register(t), ~SendToSelf(t)
    PROVE  Reading' /\ Implements
  <1>1. UNCHANGED <<inbox, d, hash, message, default, at, todo, object>>
    BY DEF Register, AddToRegistered, AddNew, RemoveDataListener, ClearAll, ClearAny, reading, firing, constant
  <1>2. inbox' \in Seq(Message) /\ inbox \in Seq(Message) /\ \A u \in Thread : at'[u] # "fire" => todo'[u] = {}
    BY <1>1 DEF Reading
  <1>3. Reading' /\ UNCHANGED <<Left, Astray>>
    BY <1>1, <1>2, Stays
  <1>4. UNCHANGED <<Due, Left, Astray, Giving, default>>
    BY <1>1, <1>2, <1>3, DueIs, GivingKept
  <1>5. listening' \in [Class -> SUBSET Id]
    <2>0. /\ registered \subseteq Class /\ count \in 0..MaxIds /\ MaxIds \in Nat
          /\ \A c \in Class : listening[c] \subseteq 0..(count - 1) /\ listening \in [Class -> SUBSET Nat]
      BY BoundAssumption DEF Inv, Lists, Agreed, Flushed, Shapes
    <2>1. count < MaxIds => count \in Id
      BY <2>0 DEF Id
    <2>2. 0..(count - 1) \subseteq Id
      BY <2>0 DEF Id
    <2>3. listening \in [Class -> SUBSET Id]
      <3>1. \A c \in Class : listening[c] \in SUBSET Id
        BY <2>0, <2>2, Zenon
      <3>2. listening \in [Class -> SUBSET Nat]
        BY DEF Inv, Lists, Shapes
      <3> QED
        BY <3>1, <3>2
    <2>4. CASE AddToRegistered(t) \/ AddNew(t)
      <3>1. PICK c \in Class : AddListener(c)
        BY <2>0, <2>4 DEF AddToRegistered, AddNew
      <3>2. count \in Id
        BY <2>1, <2>4 DEF AddToRegistered, AddNew
      <3> QED
        BY <2>3, <3>1, <3>2 DEF AddListener
    <2>5. CASE RemoveDataListener(t)
      BY <2>0, <2>3, <2>5 DEF RemoveDataListener
    <2>6. CASE ClearAll(t)
      BY <2>0, <2>3, <2>6 DEF ClearAll
    <2>7. CASE ClearAny(t)
      BY <2>7 DEF ClearAny
    <2> QED
      BY <2>4, <2>5, <2>6, <2>7 DEF Register
  <1>6. Delivered!Change
    BY <1>4, <1>5 DEF Delivered!Change
  <1> QED
    BY <1>3, <1>6 DEF Implements, Delivered!Next

\* Who is flushed are those who listen.
LEMMA FlushedListen ==
    ASSUME Inv, NEW c \in registered, FlushListeners(c)
    PROVE  listeners'[c] = listening[c] /\ UNCHANGED listening
  BY DEF Inv, Lists, Shapes, Agreed, FlushListeners

LEMMA SendToSelfImplements ==
    ASSUME Inv, Reading, NEW t \in Thread, SendToSelf(t)
    PROVE  Reading' /\ Implements
  <1>1. t # Net /\ at[t] = "idle" /\ UNCHANGED <<inbox, d, hash, message, default>>
    BY Threads DEF SendToSelf, reading, constant
  <1>2. PICK o \in Object : o.class \in registered /\ FlushListeners(o.class) /\ Fires(t, o, listeners'[o.class])
    BY DEF SendToSelf
  <1>3. listeners'[o.class] = listening[o.class] /\ UNCHANGED listening
    BY <1>2, FlushedListen
  <1>4. /\ at' = [at EXCEPT ![t] = "fire"] /\ todo' = [todo EXCEPT ![t] = listening[o.class]]
        /\ object' = [object EXCEPT ![t] = o]
    BY <1>2, <1>3 DEF Fires
  <1>5. at'[Net] = at[Net] /\ at'[t] = "fire" /\ \A u \in Thread : u # t => at'[u] = at[u] /\ todo'[u] = todo[u]
    BY <1>1, <1>4, Threads DEF Inv, Firing
  <1>6. inbox' \in Seq(Message) /\ inbox \in Seq(Message) /\ \A u \in Thread : at'[u] # "fire" => todo'[u] = {}
    BY <1>1, <1>5 DEF Reading
  <1>7. Reading' /\ UNCHANGED <<Left, Astray>>
    BY <1>1, <1>5, <1>6, Stays
  <1>8. Giving' = [Giving EXCEPT ![t] = {<<id, o>> : id \in listening[o.class]}]
    BY <1>4, GivingStarts
  <1>9. Giving[t] = {}
    BY <1>1, GivingNothing DEF Reading
  <1>10. UNCHANGED Due
    BY <1>1, <1>6, DueIs
  <1>11. Delivered!SendToSelf(t, o)
    BY <1>1, <1>3, <1>7, <1>8, <1>9, <1>10 DEF Delivered!SendToSelf, Delivered!Calls
  <1> QED
    BY <1>7, <1>11 DEF Implements, Delivered!Next

LEMMA CallImplements ==
    ASSUME Inv, Reading, NEW t \in Thread, CallListener(t)
    PROVE  Reading' /\ Implements
  <1>1. UNCHANGED <<inbox, d, hash, message, default, at, object, listening>> /\ at[t] = "fire"
    BY DEF CallListener, lists, reading, constant
  <1>2. PICK id \in todo[t] : todo' = [todo EXCEPT ![t] = todo[t] \ {id}]
    BY DEF CallListener
  <1>3. \A u \in Thread : u # t => todo'[u] = todo[u]
    BY <1>2 DEF Inv, Firing
  <1>4. inbox' \in Seq(Message) /\ inbox \in Seq(Message) /\ \A u \in Thread : at'[u] # "fire" => todo'[u] = {}
    BY <1>1, <1>3 DEF Reading
  <1>5. Reading' /\ UNCHANGED <<Left, Astray>>
    BY <1>1, <1>4, Stays
  <1>6. /\ <<id, object[t]>> \in Giving[t]
        /\ Giving' = [Giving EXCEPT ![t] = Giving[t] \ {<<id, object[t]>>}]
    BY <1>1, <1>2, GivingGives
  <1>7. UNCHANGED Due
    BY <1>1, <1>4, DueIs
  <1>8. Delivered!Call(t)
    BY <1>1, <1>5, <1>6, <1>7 DEF Delivered!Call
  <1> QED
    BY <1>5, <1>8 DEF Implements, Delivered!Next

\* Who has not been called of a list that has been cleared is nobody who listens.
LEMMA FiredForgets ==
    ASSUME Inv, Reading, NEW t \in Thread, Fired(t), UNCHANGED <<Due, Left, Astray, default>>
    PROVE  Implements
  <1> DEFINE Left_(u) == {call \in Giving[u] : call[1] \in listening[call[2].class]}
  <1>1. /\ at[t] = "fire" /\ (todo[t] = {} \/ freed) /\ UNCHANGED listening
        /\ todo' = [todo EXCEPT ![t] = {}] /\ object' = [object EXCEPT ![t] = NoObject]
    BY DEF Fired, lists
  <1>2. Giving' = [Giving EXCEPT ![t] = {}]
    <2>1. DOMAIN todo = Thread /\ DOMAIN object = Thread
      BY DEF Inv, Firing
    <2>2. \A u \in Thread : {<<id, object'[u]>> : id \in todo'[u]}
                             = IF u = t THEN {} ELSE {<<id, object[u]>> : id \in todo[u]}
      BY <1>1, <2>1
    <2> QED
      BY <2>2 DEF Giving
  <1>3. Left_(t) = {}
    <2>1. todo[t] \intersect listening[object[t].class] = {}
      BY <1>1 DEF Inv, Firing, Walking
    <2>2. \A call \in Giving[t] : \E id \in todo[t] : call = <<id, object[t]>>
      BY DEF Giving
    <2> QED
      BY <2>1, <2>2
  <1>4. Giving' = [Giving EXCEPT ![t] = Left_(t)]
    BY <1>2, <1>3, Zenon
  <1>5. Delivered!Forget(t)
    BY <1>1, <1>4 DEF Delivered!Forget
  <1> QED
    BY <1>5 DEF Implements, Delivered!Next

\* A thread that has called all listeners goes on: the network thread with what is
\* left of its packet.
LEMMA FiredImplements ==
    ASSUME Inv, Reading, NEW t \in Thread, Fired(t)
    PROVE  Reading' /\ Implements
  <1>1. at[t] = "fire" /\ todo' = [todo EXCEPT ![t] = {}] /\ UNCHANGED <<inbox, default, listening>>
    BY DEF Fired, lists, constant
  <1>3. inbox' \in Seq(Message) /\ UNCHANGED Due
    BY <1>1, DueIs DEF Reading
  <1>4. \A u \in Thread : todo'[u] = {} \/ (u # t /\ at[u] = "fire")
    BY <1>1 DEF Reading, Inv, Firing
  <1>5. CASE t # Net
    <2>1. UNCHANGED <<d, hash, message>> /\ at' = [at EXCEPT ![t] = "idle"]
      BY <1>5 DEF Fired
    <2>2. at'[Net] = at[Net] /\ \A u \in Thread : at'[u] # "fire" => todo'[u] = {}
      BY <1>4, <1>5, <2>1, Threads DEF Inv, Firing
    <2>3. Reading' /\ UNCHANGED <<Left, Astray>>
      BY <1>1, <1>3, <2>1, <2>2, Stays
    <2> QED
      BY <1>1, <1>3, <2>3, FiredForgets
  <1>6. CASE t = Net
    <2>1. GoesOn(Onward, d)
      BY <1>6 DEF Fired
    <2>2. at' = [at EXCEPT ![Net] = Onward] /\ Onward \in {"packet", "idle"}
      BY <2>1 DEF GoesOn, Onward
    <2>3. at'[Net] = Onward /\ \A u \in Thread : at'[u] # "fire" => todo'[u] = {}
      <3>1. at'[Net] = Onward /\ \A u \in Thread : u # Net => at'[u] = at[u]
        BY <2>2, NetAt
      <3> QED
        BY <1>4, <1>6, <3>1
    <2>4. CASE message.packet
      <3>1. at'[Net] = "packet" /\ UNCHANGED <<d, hash, message>>
        BY <2>1, <2>3, <2>4 DEF GoesOn, Onward
      <3>2. UNCHANGED Ahead
        BY <1>1, <1>6, <3>1 DEF Ahead
      <3>3. UNCHANGED <<Left, Astray>>
        BY <1>1, <1>6, <3>1, <3>2 DEF Left, Astray
      <3>4. InStep => InStep'
        BY <1>1, <1>6, <3>1 DEF InStep
      <3>5. Reading'
        BY <1>1, <1>3, <2>3, <2>4, <3>1, <3>4 DEF Reading
      <3> QED
        BY <1>1, <1>3, <3>3, <3>5, FiredForgets
    <2>5. CASE ~message.packet
      <3>1. at'[Net] = "idle" /\ d' = <<>> /\ hash' = <<>> /\ message' = NoMessage
        BY <2>1, <2>3, <2>5 DEF GoesOn, Onward
      <3>2. Ahead = <<>> /\ Ahead' = <<>>
        BY <1>1, <1>6, <2>5, <3>1 DEF Ahead, Reading
      <3>3. Left = <<>> /\ Left' = <<>> /\ ~Astray /\ ~Astray'
        BY <1>1, <1>6, <3>1, <3>2, EndsNow, IdleThen DEF Reading
      <3>4. Reading'
        BY <1>1, <1>3, <2>3, <3>1, IdleReading
      <3> QED
        BY <1>1, <1>3, <3>3, <3>4, AstrayIs, FiredForgets
    <2> QED
      BY <2>4, <2>5
  <1> QED
    BY <1>5, <1>6

\* The next message is taken from its beginning.
LEMMA TakeImplements ==
    ASSUME Inv, Reading, NetworkDataListener
    PROVE  Reading' /\ Implements
  <1>1. /\ at[Net] = "idle" /\ message = NoMessage /\ d = <<>> /\ inbox # <<>> /\ inbox \in Seq(Message)
        /\ inbox' = Tail(inbox) /\ todo[Net] = {} /\ UNCHANGED <<listening, todo, object, default>>
    BY Threads DEF NetworkDataListener, Reading, lists, constant
  <1>2. PICK m \in Message : m = Head(inbox)
    BY <1>1, HeadTailProperties
  <1>3. inbox' \in Seq(Message) /\ Due # <<>> /\ Head(Due) = m.objects /\ Due' = Tail(Due)
    BY <1>1, <1>2, DueIs, HeadTailProperties
  <1>4. PICK octets \in Seq(Nat) : octets = Octets(m)
    BY OctetsRead
  <1>5. /\ hash' = HashAt(octets) /\ d' = After(octets, HashSize) /\ message' = m
        /\ at' = [at EXCEPT ![Net] = IF HashAt(octets) = PacketHash THEN "packet" ELSE "lookup"]
    BY <1>2, <1>4 DEF NetworkDataListener
  <1>6. /\ at'[Net] = IF HashAt(octets) = PacketHash THEN "packet" ELSE "lookup"
        /\ \A t \in Thread : t # Net => at'[t] = at[t]
    BY <1>5, NetAt
  <1>7. hash' \in Seq(Nat) /\ d' \in Seq(Nat) /\ hash' \o d' = octets
        /\ (Len(hash') = HashSize \/ (Len(hash') < HashSize /\ d' = <<>>))
    BY <1>5, CutHash
  <1>8. /\ m.packet => at'[Net] = "packet" /\ d' = Tails[m][0]
        /\ ~m.packet => at'[Net] = "lookup" /\ hash' \o d' = Tails[m][0] /\ hash' \o d' # <<>>
    BY <1>4, <1>5, <1>6, <1>7, OctetsRead
  <1>9. Ahead' = Tails[m][0] /\ 0 \in 0..Len(m.objects) /\ at'[Net] \in {"packet", "lookup"}
    <2>1. Len(m.objects) \in Nat
      BY TailsAre
    <2>2. 0 \in 0..Len(m.objects)
      BY <2>1
    <2>3. CASE m.packet
      BY <1>8, <2>2, <2>3, AheadIs, Zenon
    <2>4. CASE ~m.packet
      BY <1>8, <2>2, <2>4, AheadIs, Zenon
    <2> QED
      BY <2>3, <2>4
  <1>10. Left' = m.objects /\ ~Astray'
    <2>1. RestOf(m, 0) = m.objects
      BY <1>9, RestIs
    <2> QED
      BY <1>5, <1>9, <2>1, LeftThen
  <1>11. Left = <<>> /\ ~Astray
    <2>1. Ahead = <<>>
      BY <1>1 DEF Ahead
    <2>2. at[Net] # "default"
      BY <1>1
    <2> QED
      BY <1>1, <2>1, <2>2, EndsNow
  <1>12. Reading'
    <2>1. InStep'
      BY <1>5, <1>8, <1>9 DEF InStep
    <2>2. \A t \in Thread : at'[t] # "fire" => todo'[t] = {}
      BY <1>1, <1>6 DEF Reading
    <2> QED
      BY <1>3, <1>5, <1>7, <1>8, <1>9, <2>1, <2>2 DEF Reading
  <1>13. UNCHANGED <<Giving, Astray>> /\ Giving[Net] = {}
    BY <1>1, <1>10, <1>11, AstrayIs, GivingKept, GivingNothing, Threads
  <1>14. Delivered!Take
    BY <1>1, <1>3, <1>10, <1>11, <1>13 DEF Delivered!Take
  <1> QED
    BY <1>12, <1>14 DEF Implements, Delivered!Next

\* A hash is read, or the packet is at its end.
LEMMA UnwrapImplements ==
    ASSUME Inv, Reading, Unwrap
    PROVE  Reading' /\ Implements
  <1>1. /\ at[Net] = "packet" /\ message.packet /\ message \in Message \union {NoMessage}
        /\ d \in Seq(Nat) /\ UNCHANGED <<inbox, listening, todo, object, default>>
    BY DEF Unwrap, Reading, lists, constant
  <1>2. inbox' \in Seq(Message) /\ UNCHANGED <<Due, Giving>>
    BY <1>1, DueIs, GivingKept DEF Reading
  <1>3. Ahead = d
    BY <1>1 DEF Ahead
  <1>4. \A t \in Thread : todo'[t] = {} \/ (t # Net /\ at[t] = "fire")
    BY <1>1 DEF Reading
  <1>5. CASE d = <<>>
    <2>1. at' = [at EXCEPT ![Net] = "idle"] /\ d' = <<>> /\ hash' = <<>> /\ message' = NoMessage
      BY <1>5 DEF Unwrap, GoesOn
    <2>2. at'[Net] = "idle" /\ \A t \in Thread : at'[t] # "fire" => todo'[t] = {}
      BY <1>4, <2>1, NetAt
    <2>3. Ahead' = <<>>
      BY <2>1, <2>2 DEF Ahead
    <2>4. Left = <<>> /\ ~Astray /\ Left' = <<>> /\ ~Astray'
      BY <1>1, <1>3, <1>5, <2>1, <2>2, <2>3, EndsNow, IdleThen
    <2>5. Reading'
      BY <1>2, <2>1, <2>2, IdleReading
    <2> QED
      BY <1>1, <1>2, <2>4, <2>5, AstrayIs, Unseen
  <1>6. CASE d # <<>>
    <2>1. /\ at' = [at EXCEPT ![Net] = "lookup"] /\ UNCHANGED message
          /\ hash' = HashAt(d) /\ d' = After(d, HashSize)
      BY <1>6 DEF Unwrap
    <2>2. at'[Net] = "lookup" /\ \A t \in Thread : at'[t] # "fire" => todo'[t] = {}
      BY <1>4, <2>1, NetAt
    <2>3. hash' \in Seq(Nat) /\ d' \in Seq(Nat) /\ hash' \o d' = d
          /\ (Len(hash') = HashSize \/ (Len(hash') < HashSize /\ d' = <<>>))
      BY <1>1, <2>1, CutHash
    <2>4. UNCHANGED Ahead
      BY <1>3, <2>2, <2>3, AheadIs
    <2>5. UNCHANGED <<Left, Astray>>
      BY <1>1, <2>1, <2>2, <2>4 DEF Left, Astray
    <2>6. InStep => InStep'
      BY <1>1, <2>1, <2>2, <2>3 DEF InStep
    <2>7. Reading'
      BY <1>1, <1>2, <1>6, <2>1, <2>2, <2>3, <2>6 DEF Reading
    <2> QED
      BY <1>1, <1>2, <2>5, <2>7, Unseen
  <1> QED
    BY <1>5, <1>6

\* In step, the object that begins is found, and who reads it is at the next.
LEMMA FollowsIs ==
    ASSUME Reading, NEW k, NEW o \in Object, NEW rest \in Seq(Nat),
           ObjectFollows(message, k, hash, d, o, rest)
    PROVE  /\ message \in Message \union {NoMessage} /\ o.class \in Class
           /\ k \in 0..(Len(message.objects) - 1) /\ k \in 0..Len(message.objects)
           /\ k + 1 \in 0..Len(message.objects) /\ k + 1 # 0
           /\ at[Net] = "lookup" =>
                 ~Astray /\ Left # <<>> /\ Head(Left) = o /\ Tail(Left) = RestOf(message, k + 1)
           /\ at[Net] = "default" => Left = RestOf(message, k + 1)
           /\ rest = Tails[message][k + 1] /\ Missed(message, d) = k + 1
           /\ \A classes \in SUBSET Class : Hashed(classes, hash) = classes \intersect {o.class}
           /\ ObjectsAt({o.class}, d) = {o} /\ After(d, Len(ObjectOctets[o])) = rest
           /\ ~message.packet => k = 0 /\ Len(message.objects) = 1 /\ rest = <<>>
  <1>1. k \in 0..(Len(message.objects) - 1)
    BY DEF ObjectFollows
  <1>2. message \in Message \union {NoMessage}
    BY DEF Reading
  <1>3. Len(message.objects) \in Nat
    BY <1>2, TailsAre
  <1>4. k \in 0..Len(message.objects) /\ k + 1 \in 0..Len(message.objects) /\ k # Len(message.objects) /\ k + 1 # 0
    BY <1>1, <1>3
  <1>5. o = message.objects[k + 1] /\ rest = Tails[message][k + 1] /\ d = ObjectOctets[o] \o rest
    BY DEF ObjectFollows
  <1>6. at[Net] = "lookup" => Left = RestOf(message, k) /\ ~Astray
    <2> SUFFICES ASSUME at[Net] = "lookup" PROVE Left = RestOf(message, k) /\ ~Astray
      OBVIOUS
    <2>1. hash \o d = Tails[message][k]
      BY DEF ObjectFollows
    <2>2. Ahead = Tails[message][k]
      BY <2>1, AheadIs, Zenon
    <2> QED
      BY <1>2, <1>4, <2>2, LeftNow
  <1>7. at[Net] = "lookup" => Left # <<>> /\ Head(Left) = o /\ Tail(Left) = RestOf(message, k + 1)
    <2>1. /\ RestOf(message, k) # <<>> /\ Head(RestOf(message, k)) = message.objects[k + 1]
          /\ Tail(RestOf(message, k)) = RestOf(message, k + 1)
      BY <1>2, <1>4, RestIs
    <2> QED
      BY <1>5, <1>6, <2>1, Zenon
  <1>8. Missed(message, d) = k + 1
    <2>1. Missed(message, ObjectOctets[message.objects[k + 1]] \o Tails[message][k + 1]) = k + 1
      BY <1>1, <1>2, MissedObject
    <2> QED
      BY <1>5, <2>1, Zenon
  <1>13. at[Net] = "default" => Left = RestOf(message, k + 1)
    <2> SUFFICES ASSUME at[Net] = "default" PROVE Left = RestOf(message, k + 1)
      OBVIOUS
    <2>1. Missed(message, Ahead) = k + 1
      BY <1>8, AheadIs
    <2> QED
      BY <1>2, <1>4, <2>1, LeftNow
  <1>9. o.class \in Class
    BY ClassOctetsTyped
  <1>10. \A classes \in SUBSET Class : Hashed(classes, hash) = classes \intersect {o.class}
    <2>1. hash = HashOf[o.class]
      BY DEF ObjectFollows
    <2> QED
      BY <1>9, <2>1, ClassFound
  <1>11. ObjectsAt({o.class}, d) = {o} /\ After(d, Len(ObjectOctets[o])) = rest
    BY <1>5, ObjectRead, Zenon
  <1>12. ~message.packet => k = 0 /\ Len(message.objects) = 1 /\ rest = <<>>
    <2> SUFFICES ASSUME ~message.packet PROVE k = 0 /\ Len(message.objects) = 1 /\ rest = <<>>
      OBVIOUS
    <2>1. message # NoMessage
      <3> SUFFICES ASSUME message = NoMessage PROVE FALSE
        OBVIOUS
      <3>1. Len(message.objects) = 0
        BY DEF NoMessage
      <3> QED
        BY <1>1, <3>1
    <2>2. Len(message.objects) = 1
      BY <1>2, <2>1, MessageAssumption
    <2>3. k = 0 /\ k + 1 = Len(message.objects)
      BY <1>1, <2>2
    <2>4. Tails[message][Len(message.objects)] = <<>>
      BY <1>2, TailsAre
    <2>5. rest = <<>>
      BY <1>5, <2>3, <2>4, Zenon
    <2> QED
      BY <2>2, <2>3, <2>5
  <1> QED
    BY <1>1, <1>2, <1>4, <1>5, <1>6, <1>7, <1>8, <1>9, <1>10, <1>11, <1>12, <1>13, Zenon

\* Behind the hash of an object that is not its listeners' to read.
LEMMA InStepBehind ==
    ASSUME Reading, InStep, at[Net] = "default"
    PROVE  \E k : \E o \in Object, rest \in Seq(Nat) : ObjectFollows(message, k, hash, d, o, rest)
  <1>1. PICK j \in 0..Len(message.objects) :
            /\ j # 0 /\ hash = HashOf[message.objects[j].class]
            /\ d = ObjectOctets[message.objects[j]] \o Tails[message][j]
    BY DEF InStep
  <1>2. message \in Message \union {NoMessage} /\ Len(message.objects) \in Nat
    BY TailsAre DEF Reading
  <1>3. PICK k \in 0..(Len(message.objects) - 1) : k + 1 = j
    <2>1. j - 1 \in 0..(Len(message.objects) - 1) /\ (j - 1) + 1 = j
      BY <1>1, <1>2
    <2> QED
      BY <2>1
  <1>4. PICK o \in Object, rest \in Seq(Nat) :
            o = message.objects[k + 1] /\ rest = Tails[message][k + 1] /\ Tails[message][k] = ClassOctets(o) \o rest
    <2>1. message.objects[k + 1] \in Object /\ Tails[message][k] = ClassOctets(message.objects[k + 1]) \o Tails[message][k + 1]
      BY <1>2, TailsAre
    <2>2. k + 1 \in 0..Len(message.objects)
      BY <1>2
    <2>3. Tails[message][k + 1] \in Seq(Nat)
      BY <1>2, <2>2, TailsAre
    <2> QED
      BY <2>1, <2>3, Zenon
  <1>5. hash = HashOf[o.class] /\ d = ObjectOctets[o] \o rest
    BY <1>1, <1>3, <1>4, Zenon
  <1>6. Together(HashOf[o.class], ObjectOctets[o], rest)
    BY ClassOctetsTyped, ConcatTogether
  <1>7. hash \o d = Tails[message][k]
    <2>1. (HashOf[o.class] \o ObjectOctets[o]) \o rest = HashOf[o.class] \o (ObjectOctets[o] \o rest)
      BY <1>6, Zenon DEF Together
    <2>2. Tails[message][k] = (HashOf[o.class] \o ObjectOctets[o]) \o rest
      BY <1>4, Zenon DEF ClassOctets
    <2> QED
      BY <1>5, <2>1, <2>2, Zenon
  <1>8. ObjectFollows(message, k, hash, d, o, rest)
    BY <1>4, <1>5, <1>7, Zenon DEF ObjectFollows
  <1> QED
    BY <1>8

\* Who is not between two objects is at one.
LEMMA AtObject ==
    ASSUME Reading, at[Net] = "lookup", ~Astray
    PROVE  InStep
  <1>1. message \in Message \union {NoMessage} /\ hash \o d \in Seq(Nat)
    BY Lengths DEF Reading
  <1>2. CASE default = "reads"
    BY <1>2 DEF Reading
  <1>3. CASE default # "reads"
    <2>1. hash \o d = Tails[message][Missed(message, hash \o d)]
      BY <1>3 DEF Astray, Ahead
    <2>2. Missed(message, hash \o d) \in 0..Len(message.objects)
      BY <1>1, MissedIs
    <2> QED
      BY <2>1, <2>2 DEF InStep
  <1> QED
    BY <1>2, <1>3

\* Who goes on reading leaves objects behind.
LEMMA LeavesBehind ==
    ASSUME message \in Message \union {NoMessage}, UNCHANGED message,
           Ahead \in Seq(Nat), Ahead' \in Seq(Nat), Len(Ahead') <= Len(Ahead)
    PROVE  Left' \in Suffixes(Left)
  <1>1. PICK k \in 0..Len(message.objects) : k = Missed(message, Ahead)
    BY MissedIs
  <1>2. PICK j \in 0..Len(message.objects) : j = Missed(message', Ahead')
    BY MissedIs
  <1>3. Len(message.objects) \in Nat
    BY TailsAre
  <1>4. k <= j
    BY <1>1, <1>2, MissedGrows
  <1>5. j \in k..Len(message.objects)
    BY <1>3, <1>4
  <1>6. RestOf(message, j) \in Suffixes(RestOf(message, k))
    BY <1>5, RestIs
  <1>7. Left = RestOf(message, k)
    BY <1>1, LeftNow
  <1>8. Left' = RestOf(message, j)
    BY <1>2, LeftThen
  <1> QED
    BY <1>6, <1>7, <1>8

\* The octets of an object, if they begin with it, and those behind.
LEMMA ClassReceivedImplements ==
    ASSUME Inv, Reading, ClassReceived
    PROVE  Reading' /\ Implements
  <1>1. at[Net] = "lookup" /\ UNCHANGED <<inbox, hash, message, default>>
    BY DEF ClassReceived, constant
  <1>0. PICK c \in Found : \E o \in ObjectsAt({c}, d) :
            /\ Flushed(c) # {} /\ FlushListeners(c) /\ Fires(Net, o, listeners'[c])
            /\ d' = After(d, Len(ObjectOctets[o]))
    BY DEF ClassReceived
  <1>2. PICK o \in ObjectsAt({c}, d) :
            /\ Flushed(c) # {} /\ FlushListeners(c) /\ Fires(Net, o, listeners'[c])
            /\ d' = After(d, Len(ObjectOctets[o]))
    BY <1>0
  <1>3. /\ c \in registered /\ registered \subseteq Class /\ c \in Hashed(registered, hash)
        /\ o \in Object /\ o.class = c /\ Len(ObjectOctets[o]) \in Nat
    BY ClassOctetsTyped, LenProperties DEF Found, Hashed, ObjectsAt, Inv, Lists
  <1>4. listeners'[c] = listening[c] /\ UNCHANGED listening /\ listening[c] # {}
    BY <1>2, <1>3, FlushedListen DEF Inv, Lists, Agreed
  <1>5. /\ at' = [at EXCEPT ![Net] = "fire"] /\ todo' = [todo EXCEPT ![Net] = listening[c]]
        /\ object' = [object EXCEPT ![Net] = o]
    BY <1>2, <1>4 DEF Fires
  <1>6. at'[Net] = "fire" /\ \A t \in Thread : t # Net => at'[t] = at[t] /\ todo'[t] = todo[t]
    BY <1>5, Threads DEF Inv, Firing
  <1>7. /\ inbox' \in Seq(Message) /\ UNCHANGED Due /\ \A t \in Thread : at'[t] # "fire" => todo'[t] = {}
        /\ message \in Message \union {NoMessage} /\ d \in Seq(Nat) /\ hash \in Seq(Nat)
    BY <1>1, <1>6, DueIs DEF Reading
  <1>8. d' \in Seq(Nat) /\ Len(d') <= Len(d) /\ Len(d) \in Nat /\ Len(d') \in Nat
    BY <1>2, <1>3, <1>7, AfterTyped, LenProperties
  <1>9. Giving[Net] = {} /\ Giving' = [Giving EXCEPT ![Net] = Delivered!Calls(o)]
    <2>1. Giving' = [Giving EXCEPT ![Net] = {<<id, o>> : id \in listening[c]}]
      BY <1>5, GivingStarts, Threads
    <2>2. todo[Net] = {}
      BY <1>1, Threads DEF Reading
    <2> QED
      BY <1>3, <2>1, <2>2, GivingNothing, Threads DEF Delivered!Calls
  <1>10. Delivered!Calls(o) # {}
    BY <1>3, <1>4 DEF Delivered!Calls
  <1>11. CASE InStep
    <2>1. PICK k : \E p \in Object, rest \in Seq(Nat) : ObjectFollows(message, k, hash, d, p, rest)
      BY <1>1, <1>11, InStepHash
    <2>2. PICK p \in Object, rest \in Seq(Nat) : ObjectFollows(message, k, hash, d, p, rest)
      BY <2>1
    <2>3. Hashed(registered, hash) = registered \intersect {p.class}
      BY <1>3, <2>2, FollowsIs
    <2>4. c = p.class
      BY <1>3, <2>3
    <2>5. ObjectsAt({p.class}, d) = {p} /\ After(d, Len(ObjectOctets[p])) = rest
      BY <2>2, FollowsIs
    <2>6. o = p /\ d' = rest
      BY <1>2, <2>4, <2>5
    <2>7. /\ k + 1 \in 0..Len(message.objects) /\ rest = Tails[message][k + 1]
          /\ (~message.packet => rest = <<>>)
          /\ ~Astray /\ Left # <<>> /\ Head(Left) = p /\ Tail(Left) = RestOf(message, k + 1)
      BY <1>1, <2>2, FollowsIs
    <2>8. Ahead' = Tails[message'][k + 1]
      BY <1>1, <1>6, <2>6, <2>7, AheadIs, Zenon
    <2>9. Left' = RestOf(message', k + 1) /\ ~Astray'
      BY <1>1, <1>6, <1>7, <2>7, <2>8, LeftThen
    <2>10. Left' = Tail(Left)
      BY <1>1, <2>7, <2>9, Zenon
    <2>11. Delivered!Notify
      BY <1>1, <1>4, <1>7, <1>9, <1>10, <2>6, <2>7, <2>9, <2>10, AstrayIs DEF Delivered!Notify
    <2>12. InStep'
      BY <1>1, <1>6, <2>6, <2>7, Zenon DEF InStep
    <2>13. ~message'.packet => d' = <<>>
      BY <1>1, <2>6, <2>7
    <2>14. Reading'
      BY <1>1, <1>6, <1>7, <1>8, <2>12, <2>13 DEF Reading
    <2> QED
      BY <2>11, <2>14 DEF Implements, Delivered!Next
  <1>12. CASE ~InStep
    <2>1. Astray /\ default # "reads" /\ message.packet
      BY <1>1, <1>12, AtObject DEF Reading
    <2>2. Ahead = hash \o d /\ Ahead' = d'
      BY <1>1, <1>6, AheadIs
    <2>3. hash \o d \in Seq(Nat) /\ Len(d') <= Len(hash \o d)
      <3>1. hash \o d \in Seq(Nat) /\ Len(hash \o d) = Len(hash) + Len(d) /\ Len(hash) \in Nat
        BY <1>7, Lengths
      <3> QED
        BY <1>8, <3>1
    <2>4. Left' \in Suffixes(Left)
      BY <1>1, <1>7, <1>8, <2>2, <2>3, LeavesBehind
    <2>5. Delivered!Misread
      <3>1. Astray' \in BOOLEAN
        BY AstrayIs
      <3>2. UNCHANGED <<Due, listening, default = "reads">>
        BY <1>1, <1>4, <1>7
      <3>3. Left' \in Delivered!Suffixes(Left)
        BY <2>4 DEF Suffixes, Delivered!Suffixes
      <3> QED
        BY <1>3, <1>9, <2>1, <3>1, <3>2, <3>3, Zenon DEF Delivered!Misread
    <2>6. Reading'
      BY <1>1, <1>6, <1>7, <1>8, <2>1 DEF Reading
    <2> QED
      BY <2>5, <2>6 DEF Implements, Delivered!Next
  <1> QED
    BY <1>11, <1>12

\* An object nobody has read is behind, and the thread goes on somewhere.
LEMMA GoesOnAstray ==
    ASSUME Inv, Reading, Astray, at[Net] # "fire", NEW stage \in {"idle", "packet", "default"},
           NEW rest \in Seq(Nat), Len(rest) <= Len(Ahead), GoesOn(stage, rest),
           stage # "idle" => message.packet,
           UNCHANGED <<inbox, todo, object, default, listening>>
    PROVE  Reading' /\ Implements
  <1>1. UNCHANGED Giving
    BY GivingKept
  <1>2. /\ inbox' \in Seq(Message) /\ UNCHANGED Due /\ Giving[Net] = {} /\ default # "reads"
        /\ message \in Message \union {NoMessage} /\ d \in Seq(Nat) /\ hash \in Seq(Nat)
        /\ \A t \in Thread : todo'[t] = {} \/ (t # Net /\ at[t] = "fire")
    BY AstrayIs, DueIs, GivingNothing, Threads DEF Reading
  <1>3. at' = [at EXCEPT ![Net] = stage]
    BY DEF GoesOn
  <1>4. at'[Net] = stage /\ \A t \in Thread : at'[t] # "fire" => todo'[t] = {}
    <2>1. at'[Net] = stage /\ \A t \in Thread : t # Net => at'[t] = at[t]
      BY <1>3, NetAt
    <2> QED
      BY <1>2, <2>1
  <1>5. CASE stage = "idle"
    <2>1. d' = <<>> /\ hash' = <<>> /\ message' = NoMessage
      BY <1>5 DEF GoesOn
    <2>2. Ahead' = <<>>
      BY <1>4, <1>5, <2>1, AheadIs
    <2>3. Left' = <<>>
      BY <1>4, <1>5, <2>1, <2>2, IdleThen
    <2>4. Reading'
      BY <1>2, <1>4, <1>5, <2>1, IdleReading
    <2>5. Delivered!Misread
      <3>1. Left' \in Delivered!Suffixes(Left)
        BY <2>3 DEF Delivered!Suffixes
      <3> QED
        BY <1>1, <1>2, <3>1, AstrayIs DEF Delivered!Misread
    <2> QED
      BY <2>4, <2>5 DEF Implements, Delivered!Next
  <1>6. CASE stage # "idle"
    <2>1. d' = rest /\ UNCHANGED <<hash, message>> /\ message.packet
      BY <1>6 DEF GoesOn
    <2>2. Ahead' = rest
      BY <1>4, <2>1, AheadIs
    <2>3. Ahead \in Seq(Nat)
      <3>1. hash \o d \in Seq(Nat)
        BY <1>2, Lengths
      <3> QED
        BY <1>2, <3>1, AheadIs
    <2>4. Left' \in Suffixes(Left)
      BY <1>2, <2>1, <2>2, <2>3, LeavesBehind
    <2>5. Delivered!Misread
      <3>1. Left' \in Delivered!Suffixes(Left)
        BY <2>4 DEF Suffixes, Delivered!Suffixes
      <3> QED
        BY <1>1, <1>2, <3>1, AstrayIs DEF Delivered!Misread
    <2>6. Reading'
      BY <1>2, <1>4, <1>6, <2>1 DEF Reading
    <2> QED
      BY <2>5, <2>6 DEF Implements, Delivered!Next
  <1> QED
    BY <1>5, <1>6

\* Where no object of a class begins that is found, none does.
LEMMA NoneBegins ==
    ASSUME Inv, Reading, at[Net] = "lookup", NEW c \in Found, ObjectsAt({c}, d) = {}
    PROVE  /\ Astray /\ message.packet /\ default # "reads"
           /\ \A rest \in Rests : rest \in Seq(Nat) /\ Len(rest) <= Len(d) /\ Len(rest) <= Len(Ahead)
  <1>1. ~InStep
    <2> SUFFICES ASSUME InStep PROVE FALSE
      OBVIOUS
    <2>1. PICK k : \E o \in Object, rest \in Seq(Nat) : ObjectFollows(message, k, hash, d, o, rest)
      BY InStepHash
    <2>2. PICK o \in Object, rest \in Seq(Nat) : ObjectFollows(message, k, hash, d, o, rest)
      BY <2>1
    <2>3. Hashed(registered, hash) = registered \intersect {o.class} /\ ObjectsAt({o.class}, d) = {o}
      BY <2>2, FollowsIs DEF Inv, Lists
    <2>4. c = o.class
      BY <2>3 DEF Found
    <2> QED
      BY <2>3, <2>4
  <1>2. Astray /\ message.packet /\ default # "reads"
    BY <1>1, AtObject DEF Reading
  <1>3. ASSUME NEW rest \in Rests
        PROVE  rest \in Seq(Nat) /\ Len(rest) <= Len(d) /\ Len(rest) <= Len(Ahead)
    <2>1. d \in Seq(Nat) /\ hash \in Seq(Nat) /\ Ahead = hash \o d
      BY AheadIs DEF Reading
    <2>2. Len(Ahead) = Len(hash) + Len(d) /\ Len(hash) \in Nat /\ Len(d) \in Nat
      BY <2>1, Lengths
    <2>3. rest \in Seq(Nat) /\ Len(rest) <= Len(d) /\ Len(rest) \in Nat
      <3>1. CASE rest = <<>>
        BY <2>2, <3>1
      <3>2. CASE rest # <<>>
        <4>1. PICK l \in 1..Len(d) : rest = SubSeq(d, l, Len(d))
          BY <3>2 DEF Rests, Suffixes
        <4>2. l - 1 \in Nat /\ (l - 1) + 1 = l
          BY <2>2
        <4>3. rest = After(d, l - 1)
          BY <4>1, <4>2 DEF After
        <4>4. rest \in Seq(Nat) /\ Len(rest) <= Len(d)
          BY <2>1, <4>2, <4>3, AfterTyped
        <4> QED
          BY <4>4, LenProperties
      <3> QED
        BY <3>1, <3>2
    <2> QED
      BY <2>1, <2>2, <2>3
  <1> QED
    BY <1>2, <1>3

\* What is built of octets that are no object is given all the same.
LEMMA ClassMisreadImplements ==
    ASSUME Inv, Reading, ClassMisread
    PROVE  Reading' /\ Implements
  <1>1. at[Net] = "lookup" /\ UNCHANGED <<inbox, hash, message, default>> /\ d' \in Rests
    BY DEF ClassMisread, constant
  <1>0. PICK c \in Found : \E o \in Object :
            /\ o.class = c /\ ObjectsAt({c}, d) = {}
            /\ FlushListeners(c) /\ Fires(Net, o, listeners'[c])
    BY DEF ClassMisread
  <1>2. PICK o \in Object :
            /\ o.class = c /\ ObjectsAt({c}, d) = {}
            /\ FlushListeners(c) /\ Fires(Net, o, listeners'[c])
    BY <1>0
  <1>3. Astray /\ message.packet /\ default # "reads" /\ d' \in Seq(Nat) /\ Len(d') <= Len(Ahead)
    BY <1>1, <1>2, NoneBegins
  <1>4. listeners'[c] = listening[c] /\ UNCHANGED listening
    BY <1>2, FlushedListen DEF Found, Hashed
  <1>5. /\ at' = [at EXCEPT ![Net] = "fire"] /\ todo' = [todo EXCEPT ![Net] = listening[c]]
        /\ object' = [object EXCEPT ![Net] = o]
    BY <1>2, <1>4 DEF Fires
  <1>6. at'[Net] = "fire" /\ \A t \in Thread : t # Net => at'[t] = at[t] /\ todo'[t] = todo[t]
    BY <1>5, Threads DEF Inv, Firing
  <1>7. /\ inbox' \in Seq(Message) /\ UNCHANGED Due /\ \A t \in Thread : at'[t] # "fire" => todo'[t] = {}
        /\ message \in Message \union {NoMessage} /\ d \in Seq(Nat) /\ hash \in Seq(Nat)
    BY <1>1, <1>6, DueIs DEF Reading
  <1>8. Giving[Net] = {} /\ Giving' = [Giving EXCEPT ![Net] = Delivered!Calls(o)]
    <2>1. Giving' = [Giving EXCEPT ![Net] = {<<id, o>> : id \in listening[c]}]
      BY <1>5, GivingStarts, Threads
    <2>2. todo[Net] = {}
      BY <1>1, Threads DEF Reading
    <2> QED
      BY <1>2, <2>1, <2>2, GivingNothing, Threads DEF Delivered!Calls
  <1>9. Left' \in Suffixes(Left)
    <2>1. Ahead' = d' /\ Ahead = hash \o d
      BY <1>1, <1>6, AheadIs
    <2>2. hash \o d \in Seq(Nat)
      BY <1>7, Lengths
    <2> QED
      BY <1>1, <1>3, <1>7, <2>1, <2>2, LeavesBehind
  <1>10. Delivered!Misread
    <2>1. Left' \in Delivered!Suffixes(Left)
      BY <1>9 DEF Suffixes, Delivered!Suffixes
    <2>2. UNCHANGED <<Due, listening, default = "reads">> /\ Astray' \in BOOLEAN
      BY <1>1, <1>4, <1>7, AstrayIs
    <2> QED
      BY <1>3, <1>8, <2>1, <2>2, Zenon DEF Delivered!Misread
  <1>11. Reading'
    BY <1>1, <1>3, <1>6, <1>7 DEF Reading
  <1> QED
    BY <1>10, <1>11 DEF Implements, Delivered!Next

LEMMA ClassThrowsImplements ==
    ASSUME Inv, Reading, ClassThrows
    PROVE  Reading' /\ Implements
  <1>1. PICK c \in Found : ObjectsAt({c}, d) = {} /\ FlushListeners(c)
    BY DEF ClassThrows
  <1>2. PICK rest \in Rests : GoesOn(IF default = "none" THEN Onward ELSE "default", rest)
    BY DEF ClassThrows, Unlistened
  <1>3. at[Net] = "lookup" /\ UNCHANGED <<inbox, todo, object, default, listening>>
    BY <1>1 DEF ClassThrows, constant, FlushListeners
  <1>4. Astray /\ message.packet /\ rest \in Seq(Nat) /\ Len(rest) <= Len(Ahead)
    BY <1>1, <1>3, NoneBegins
  <1>5. (IF default = "none" THEN Onward ELSE "default") \in {"idle", "packet", "default"}
    BY DEF Onward
  <1> QED
    BY <1>2, <1>3, <1>4, <1>5, GoesOnAstray

\* Nobody listens for a class.
Unheard == \A c \in Hashed(Class, hash) : listening[c] = {}

\* What nobody listens for is passed over.
LEMMA PassedOverImplements ==
    ASSUME Inv, Reading, at[Net] = "lookup", Unheard,
           GoesOn(IF default = "none" THEN Onward ELSE "default", d),
           UNCHANGED <<inbox, todo, object, default, listening>>
    PROVE  Reading' /\ Implements
  <1>1. UNCHANGED Giving
    BY GivingKept
  <1>2. /\ inbox' \in Seq(Message) /\ UNCHANGED Due /\ Giving[Net] = {}
        /\ \A t \in Thread : todo'[t] = {} \/ (t # Net /\ at[t] = "fire")
        /\ message \in Message \union {NoMessage} /\ d \in Seq(Nat) /\ hash \in Seq(Nat)
    BY DueIs, GivingNothing, Threads DEF Reading
  <1> DEFINE stage == IF default = "none" THEN Onward ELSE "default"
  <1>3. stage \in {"idle", "packet", "default"} /\ at' = [at EXCEPT ![Net] = stage]
    BY DEF GoesOn, Onward
  <1>4. at'[Net] = stage /\ \A t \in Thread : at'[t] # "fire" => todo'[t] = {}
    <2>1. at'[Net] = stage /\ \A t \in Thread : t # Net => at'[t] = at[t]
      BY <1>3, NetAt
    <2> QED
      BY <1>2, <2>1
  <1>5. /\ stage = "idle" <=> default = "none" /\ ~message.packet
        /\ stage = "packet" <=> default = "none" /\ message.packet
    BY DEF Onward
  <1> HIDE DEF stage
  <1>6. /\ stage # "idle" => UNCHANGED <<d, hash, message>>
        /\ stage = "idle" => d' = <<>> /\ hash' = <<>> /\ message' = NoMessage
    BY DEF GoesOn, stage
  <1>7. stage # "idle" => Ahead' = d
    BY <1>3, <1>4, <1>6, AheadIs
  <1>8. CASE InStep
    <2>1. PICK k : \E o \in Object, rest \in Seq(Nat) : ObjectFollows(message, k, hash, d, o, rest)
      BY <1>8, InStepHash
    <2>2. PICK o \in Object, rest \in Seq(Nat) : ObjectFollows(message, k, hash, d, o, rest)
      BY <2>1
    <2>3. /\ o.class \in Class /\ Hashed(Class, hash) = Class \intersect {o.class}
          /\ k + 1 \in 0..Len(message.objects) /\ k + 1 # 0 /\ Missed(message, d) = k + 1
          /\ ~Astray /\ Left # <<>> /\ Head(Left) = o /\ Tail(Left) = RestOf(message, k + 1)
          /\ ~message.packet => k = 0 /\ Len(message.objects) = 1
      BY <2>2, FollowsIs
    <2>4. listening[o.class] = {}
      BY <2>3 DEF Unheard
    <2>5. Left' = Tail(Left)
      <3>1. CASE stage = "idle"
        <4>1. Left' = <<>>
          <5>1. at'[Net] = "idle" /\ Ahead' = <<>> /\ message' = NoMessage
            BY <1>3, <1>4, <1>6, <3>1, AheadIs
          <5> QED
            BY <5>1, IdleThen
        <4>2. RestOf(message, k + 1) = <<>>
          <5>1. k + 1 = Len(message.objects)
            <6>1. k = 0 /\ Len(message.objects) = 1
              BY <1>5, <2>3, <3>1, Zenon
            <6> QED
              BY <6>1
          <5> QED
            BY <1>2, <2>3, <5>1, RestIs
        <4> QED
          BY <2>3, <4>1, <4>2
      <3>2. CASE stage # "idle"
        <4>1. Missed(message', Ahead') = k + 1
          BY <1>6, <1>7, <2>3, <3>2
        <4>2. Left' = RestOf(message', k + 1)
          BY <1>2, <1>6, <2>3, <3>2, <4>1, LeftThen
        <4> QED
          BY <1>6, <2>3, <3>2, <4>2
      <3> QED
        BY <3>1, <3>2
    <2>6. Delivered!PassOver
      BY <1>1, <1>2, <2>3, <2>4, <2>5, AstrayIs DEF Delivered!PassOver
    <2>7. Reading'
      <3>1. CASE stage = "idle"
        BY <1>2, <1>4, <1>6, <3>1, IdleReading
      <3>2. CASE stage = "packet"
        BY <1>2, <1>4, <1>5, <1>6, <3>2 DEF Reading
      <3>3. CASE stage = "default"
        <4>1. hash = HashOf[message.objects[k + 1].class] /\ d = ObjectOctets[message.objects[k + 1]] \o Tails[message][k + 1]
          BY <2>2, Zenon DEF ObjectFollows
        <4>2. InStep'
          BY <1>4, <1>6, <2>3, <3>3, <4>1, Zenon DEF InStep
        <4> QED
          BY <1>2, <1>4, <1>6, <3>3, <4>2 DEF Reading
      <3> QED
        BY <1>3, <3>1, <3>2, <3>3
    <2> QED
      BY <2>6, <2>7 DEF Implements, Delivered!Next
  <1>9. CASE ~InStep
    <2>1. Astray /\ message.packet
      BY <1>9, AtObject DEF Reading
    <2>2. Len(d) <= Len(Ahead)
      <3>1. Ahead = hash \o d /\ Len(hash \o d) = Len(hash) + Len(d) /\ Len(hash) \in Nat /\ Len(d) \in Nat
        BY <1>2, Lengths, AheadIs
      <3> QED
        BY <3>1
    <2>3. GoesOn(stage, d)
      BY DEF stage
    <2> QED
      BY <1>2, <1>3, <2>1, <2>2, <2>3, GoesOnAstray
  <1> QED
    BY <1>8, <1>9

\* A class that is not registered has no listeners either.
LEMMA UnheardIs ==
    ASSUME Inv, \A c \in Found : Flushed(c) = {}
    PROVE  Unheard
  <1> SUFFICES ASSUME NEW c \in Class, HashOf[c] = hash PROVE listening[c] = {}
    BY DEF Unheard, Hashed
  <1>1. Flushed(c) = listening[c]
    BY DEF Inv, Lists, Agreed
  <1>2. CASE c \in registered
    BY <1>1, <1>2 DEF Found, Hashed
  <1>3. CASE c \notin registered
    BY <1>1, <1>3 DEF Inv, Lists, Flushed
  <1> QED
    BY <1>2, <1>3

LEMMA ClassPassedOverImplements ==
    ASSUME Inv, Reading, ClassPassedOver
    PROVE  Reading' /\ Implements
  <1>1. PICK c \in Found : Flushed(c) = {} /\ FlushListeners(c)
    BY DEF ClassPassedOver
  <1>2. c \in registered /\ c \in Class /\ HashOf[c] = hash
    BY DEF Found, Hashed, Inv, Lists
  <1>3. \A e \in Found : e = c
    BY <1>2, HashAssumption DEF Found, Hashed, Inv, Lists
  <1>4. Unheard
    BY <1>1, <1>3, UnheardIs
  <1>5. UNCHANGED listening
    BY <1>1, <1>2, FlushedListen
  <1>6. /\ at[Net] = "lookup" /\ GoesOn(IF default = "none" THEN Onward ELSE "default", d)
        /\ UNCHANGED <<inbox, todo, object, default>>
    BY DEF ClassPassedOver, Unlistened, constant
  <1> QED
    BY <1>4, <1>5, <1>6, PassedOverImplements

LEMMA ClassUnknownImplements ==
    ASSUME Inv, Reading, ClassUnknown
    PROVE  Reading' /\ Implements
  <1>1. Unheard
    BY UnheardIs DEF ClassUnknown
  <1>2. /\ at[Net] = "lookup" /\ GoesOn(IF default = "none" THEN Onward ELSE "default", d)
        /\ UNCHANGED <<inbox, todo, object, default, listening>>
    BY DEF ClassUnknown, constant, lists
  <1> QED
    BY <1>1, <1>2, PassedOverImplements

\* The default listener, which takes the object if it reads, and nothing else.
LEMMA DefaultImplements ==
    ASSUME Inv, Reading, DefaultListener
    PROVE  Reading' /\ Implements
  <1>1. at[Net] = "default" /\ UNCHANGED <<inbox, todo, object, default, listening>>
    BY DEF DefaultListener, constant, lists
  <1>2. /\ inbox' \in Seq(Message) /\ UNCHANGED <<Due, Giving>> /\ Giving[Net] = {}
        /\ \A t \in Thread : todo'[t] = {} \/ (t # Net /\ at[t] = "fire")
        /\ message \in Message \union {NoMessage} /\ d \in Seq(Nat) /\ hash \in Seq(Nat)
    BY <1>1, DueIs, GivingKept, GivingNothing, Threads DEF Reading
  <1>3. PICK rest : /\ GoesOn(Onward, rest)
                    /\ default # "reads" => rest = d
                    /\ default = "reads" =>
                          \/ ObjectsAt(Hashed(Class, hash), d) = {}
                          \/ \E o \in ObjectsAt(Hashed(Class, hash), d) : rest = After(d, Len(ObjectOctets[o]))
    BY DEF DefaultListener
  <1>4. Onward \in {"idle", "packet"} /\ (Onward = "packet" <=> message.packet)
        /\ at' = [at EXCEPT ![Net] = Onward]
    BY <1>3 DEF GoesOn, Onward
  <1>5. at'[Net] = Onward /\ \A t \in Thread : at'[t] # "fire" => todo'[t] = {}
    <2>1. at'[Net] = Onward /\ \A t \in Thread : t # Net => at'[t] = at[t]
      BY <1>4, NetAt
    <2> QED
      BY <1>2, <2>1
  <1>6. /\ message.packet => d' = rest /\ UNCHANGED <<hash, message>>
        /\ ~message.packet => d' = <<>> /\ hash' = <<>> /\ message' = NoMessage
    BY <1>3, <1>4 DEF GoesOn
  <1>7. Ahead = d /\ Ahead' = d'
    BY <1>1, <1>4, <1>5, AheadIs
  <1>8. CASE ~message.packet /\ default = "reads"
    <2>1. InStep
      BY <1>8 DEF Reading
    <2>2. PICK k : \E o \in Object, r \in Seq(Nat) : ObjectFollows(message, k, hash, d, o, r)
      BY <1>1, <2>1, InStepBehind
    <2>3. PICK o \in Object, r \in Seq(Nat) : ObjectFollows(message, k, hash, d, o, r)
      BY <2>2
    <2>4. Left = RestOf(message, k + 1) /\ k = 0 /\ Len(message.objects) = 1
      BY <1>1, <1>8, <2>3, FollowsIs
    <2>5. Left = <<>>
      <3>1. k + 1 \in 0..Len(message.objects) /\ k + 1 = Len(message.objects)
        BY <2>4
      <3>2. RestOf(message, k + 1) = <<>>
        BY <1>2, <3>1, RestIs
      <3> QED
        BY <2>4, <3>2
    <2>6. Left' = <<>>
      <3>1. at'[Net] = "idle" /\ Ahead' = <<>> /\ message' = NoMessage
        BY <1>4, <1>5, <1>6, <1>7, <1>8
      <3> QED
        BY <3>1, IdleThen
    <2>7. Reading'
      BY <1>2, <1>4, <1>5, <1>6, <1>8, IdleReading
    <2> QED
      BY <1>1, <1>2, <1>8, <2>5, <2>6, <2>7, AstrayIs, Unseen
  <1>9. CASE default # "reads"
    <2>1. Astray /\ GoesOn(Onward, d) /\ Len(d) <= Len(Ahead)
      <3>1. Len(d) \in Nat
        BY <1>2, LenProperties
      <3> QED
        BY <1>1, <1>3, <1>7, <1>9, <3>1 DEF Astray
    <2> QED
      BY <1>1, <1>2, <1>4, <2>1, GoesOnAstray
  <1>10. CASE message.packet /\ default = "reads"
    <2>1. InStep
      BY <1>10 DEF Reading
    <2>2. PICK k : \E o \in Object, r \in Seq(Nat) : ObjectFollows(message, k, hash, d, o, r)
      BY <1>1, <2>1, InStepBehind
    <2>3. PICK o \in Object, r \in Seq(Nat) : ObjectFollows(message, k, hash, d, o, r)
      BY <2>2
    <2>4. /\ o.class \in Class /\ Hashed(Class, hash) = Class \intersect {o.class}
          /\ ObjectsAt({o.class}, d) = {o} /\ After(d, Len(ObjectOctets[o])) = r
          /\ k + 1 \in 0..Len(message.objects) /\ r = Tails[message][k + 1] /\ Left = RestOf(message, k + 1)
      BY <1>1, <2>3, FollowsIs
    <2>5. ObjectsAt(Hashed(Class, hash), d) = {o}
      <3>1. Class \intersect {o.class} = {o.class}
        BY <2>4
      <3> QED
        BY <2>4, <3>1, Zenon
    <2>6. rest = r
      BY <1>3, <1>10, <2>4, <2>5
    <2>7. d' = Tails[message][k + 1] /\ UNCHANGED <<hash, message>>
      BY <1>6, <1>10, <2>4, <2>6, Zenon
    <2>8. Ahead' = Tails[message'][k + 1]
      BY <1>7, <2>7
    <2>9. Left' = RestOf(message, k + 1)
      BY <1>2, <2>4, <2>7, <2>8, LeftThen
    <2>10. UNCHANGED <<Left, Astray>>
      BY <1>1, <1>10, <2>4, <2>9, AstrayIs
    <2>11. InStep'
      BY <1>4, <1>5, <1>10, <2>4, <2>7, Zenon DEF InStep
    <2>12. d' \in Seq(Nat)
      BY <1>6, <1>10, <2>6
    <2>13. Reading'
      BY <1>2, <1>4, <1>5, <1>10, <2>7, <2>11, <2>12 DEF Reading
    <2> QED
      BY <1>1, <1>2, <2>10, <2>13, Unseen
  <1> QED
    BY <1>8, <1>9, <1>10

\* ... or throws, and what is left of the message may be lost.
LEMMA DefaultThrowsImplements ==
    ASSUME Inv, Reading, DefaultThrows
    PROVE  Reading' /\ Implements
  <1> DEFINE stage == IF mutex = Net THEN "idle" ELSE Onward
  <1>1. /\ at[Net] = "default" /\ GoesOn(stage, d)
        /\ UNCHANGED <<inbox, todo, object, default, listening>> /\ default = "throws"
    BY DEF DefaultThrows, constant, lists
  <1>2. stage \in {"idle", "packet", "default"} /\ (stage # "idle" => message.packet)
    BY DEF Onward
  <1>3. d \in Seq(Nat) /\ Ahead = d /\ Len(d) \in Nat
    BY <1>1, AheadIs, LenProperties DEF Reading
  <1>4. Astray /\ Len(d) <= Len(Ahead)
    BY <1>1, <1>3 DEF Astray
  <1> HIDE DEF stage
  <1> QED
    BY <1>1, <1>2, <1>3, <1>4, GoesOnAstray

LEMMA InitImplements == Init => Delivered!Init
  <1> SUFFICES ASSUME Init PROVE Delivered!Init
    OBVIOUS
  <1>1. /\ inbox = <<>> /\ message = NoMessage /\ d = <<>> /\ at[Net] = "idle"
        /\ listening = [c \in Class |-> {}] /\ \A t \in Thread : todo[t] = {}
    BY Threads DEF Init
  <1>2. Ahead = <<>>
    BY <1>1 DEF Ahead
  <1>3. Left = <<>> /\ ~Astray
    <2>1. at[Net] # "default"
      BY <1>1
    <2> QED
      BY <1>1, <1>2, <2>1, EndsNow
  <1>4. Due = <<>>
    BY <1>1 DEF Due
  <1>5. Giving = [t \in Thread |-> {}]
    BY <1>1 DEF Giving
  <1>6. Astray = FALSE /\ (default = "reads") \in BOOLEAN
    BY <1>3, AstrayIs
  <1> QED
    BY <1>1, <1>3, <1>4, <1>5, <1>6 DEF Delivered!Init

LEMMA NextImplements == Inv /\ Reading /\ [Next]_vars => Reading' /\ Implements
  <1> SUFFICES ASSUME Inv, Reading, [Next]_vars PROVE Reading' /\ Implements
    OBVIOUS
  <1>1. CASE UNCHANGED vars
    <2>1. UNCHANGED <<inbox, d, hash, message, default, at, todo, object, listening>>
      BY <1>1 DEF vars, lists, reading, firing, constant
    <2>2. inbox' \in Seq(Message) /\ inbox \in Seq(Message) /\ \A t \in Thread : at'[t] # "fire" => todo'[t] = {}
      BY <2>1 DEF Reading
    <2>3. Reading' /\ UNCHANGED <<Left, Astray>>
      BY <2>1, <2>2, Stays
    <2> QED
      BY <2>1, <2>2, <2>3, DueIs, GivingKept, Unseen
  <1>2. CASE Arrive
    BY <1>2, ArriveImplements
  <1>3. ASSUME NEW t \in Thread, Register(t) PROVE Reading' /\ Implements
    BY <1>3, RegisterImplements, SendToSelfImplements
  <1>4. ASSUME NEW t \in Thread, Step(t) PROVE Reading' /\ Implements
    BY <1>4, CallImplements, FiredImplements, TakeImplements, UnwrapImplements, DefaultImplements,
       DefaultThrowsImplements, ClassReceivedImplements, ClassMisreadImplements, ClassThrowsImplements,
       ClassPassedOverImplements, ClassUnknownImplements DEF Step
  <1> QED
    BY <1>1, <1>2, <1>3, <1>4 DEF Next

------------------------------------------------------------------------------
(***************************************************************************)
(* The theorems.                                                           *)
(***************************************************************************)
\* Every id in a list of an object builder has been given out, a class without a
\* builder has nothing listed, and only the network thread takes messages apart.
THEOREM TypeCorrect == Spec => []TypeOK
  BY InitInv, NextInv, InvImplies, PTL DEF Spec

\* Who flush_listeners leaves to be called is who was added and not removed since,
\* with any number of threads that remove, send and clear at any time.
THEOREM ListsAlwaysAgree == Spec => []ListsAgree
  BY InitInv, NextInv, InvImplies, PTL DEF Spec

\* The first remove_data_listener of a listener is answered with true, whichever
\* list it is in at the time.
THEOREM RemovalConfirmed == Spec => []RemovalIsConfirmed
  BY InitInv, NextInv, InvImplies, PTL DEF Spec

\* Only one thread fires, and the list it walks keeps whom it has still to call,
\* whoever adds and removes meanwhile.  Only clear_all and clear_any free it under the
\* loop, and then nobody it has still to call listens any more.
THEOREM FireWalksOwnList == Spec => []WalksOwnList
  BY InitInv, NextInv, InvImplies, PTL DEF Spec

\* Each object is given once and in order to those who listen for its class, and
\* who may be missed is said in Delivery, whatever objects, packets and classes
\* there are and however their hashes and octets look.
THEOREM ObjectsDelivered == Spec => ObjectsAreDelivered
  BY InitInv, NextInv, InitReading, InitImplements, NextImplements, PTL
  DEF Spec, ObjectsAreDelivered, Implements, Delivered!Spec
=============================================================================
