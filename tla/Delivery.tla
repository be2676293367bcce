------------------------------ MODULE Delivery ------------------------------
(***************************************************************************)
(* What basic_network promises those who listen for a class: each object   *)
(* that arrives, and each one sent to self, is given once to each of the   *)
(* listeners its class has at the time, in the order of sending; to one    *)
(* that is removed before its turn, possibly not.                          *)
(*                                                                         *)
(* An object nobody reads may leave the reader of its packet astray: what  *)
(* it takes for the next object may begin anywhere.  It may skip objects   *)
(* and give others that were never sent until an object happens to begin   *)
(* where it reads, or give up; the next message is read from its beginning *)
(* again.                                                                  *)
(***************************************************************************)
EXTENDS SequencesExt

CONSTANTS
    Thread,     \* the threads that give objects to listeners
    Net,        \* the one among them that takes messages
    Class, Id,  \* classes and listeners
    Object, Message     \* records with a class, and sequences of them

VARIABLES
    due,        \* messages (sequences of objects) that are still to be taken
    left,       \* objects that are left of the one that has been taken
    astray,     \* whether its reader is between two objects
    listening,  \* the listeners of a class
    calls,      \* what a thread has still to give, and to whom
    reads       \* whether the default listener takes what nobody listens for

vars == <<due, left, astray, listening, calls, reads>>

Init ==
    /\ due = <<>> /\ left = <<>> /\ astray = FALSE
    /\ listening = [c \in Class |-> {}]
    /\ calls = [t \in Thread |-> {}]
    /\ reads \in BOOLEAN

Send(message) ==
    /\ due' = Append(due, message)
    /\ UNCHANGED <<left, astray, listening, calls, reads>>

Take ==
    /\ left = <<>> /\ ~astray /\ calls[Net] = {}
    /\ due # <<>> /\ left' = Head(due) /\ due' = Tail(due)
    /\ UNCHANGED <<astray, listening, calls, reads>>

Calls(object) == {<<id, object>> : id \in listening[object.class]}

Notify ==
    /\ left # <<>> /\ ~astray /\ calls[Net] = {}
    /\ Calls(Head(left)) # {} /\ calls' = [calls EXCEPT ![Net] = Calls(Head(left))]
    /\ left' = Tail(left)
    /\ UNCHANGED <<due, astray, listening, reads>>

\* An object nobody listens for, and its octets too unless somebody reads them.
PassOver ==
    /\ left # <<>> /\ ~astray /\ calls[Net] = {}
    /\ listening[Head(left).class] = {}
    /\ left' = Tail(left)
    /\ astray' \in (IF reads THEN {FALSE} ELSE BOOLEAN)
    /\ UNCHANGED <<due, listening, calls, reads>>

Misread ==
    /\ astray /\ calls[Net] = {}
    /\ left' \in Suffixes(left) /\ astray' \in BOOLEAN
    /\ \/ UNCHANGED calls
       \/ \E object \in Object : calls' = [calls EXCEPT ![Net] = Calls(object)]
    /\ UNCHANGED <<due, listening, reads>>

SendToSelf(t, object) ==
    /\ t # Net /\ calls[t] = {}
    /\ calls' = [calls EXCEPT ![t] = Calls(object)]
    /\ UNCHANGED <<due, left, astray, listening, reads>>

Call(t) ==
    /\ \E call \in calls[t] : calls' = [calls EXCEPT ![t] = @ \ {call}]
    /\ UNCHANGED <<due, left, astray, listening, reads>>

\* A listener that has been removed meanwhile need not be called any more.
Forget(t) ==
    /\ calls' = [calls EXCEPT ![t] = {call \in @ : call[1] \in listening[call[2].class]}]
    /\ UNCHANGED <<due, left, astray, listening, reads>>

\* Listeners come and go, also while others are called.
Change ==
    /\ listening' \in [Class -> SUBSET Id]
    /\ UNCHANGED <<calls, due, left, astray, reads>>

Next ==
    \/ Change
    \/ \E message \in Message : Send(message)
    \/ \E t \in Thread : Call(t) \/ Forget(t) \/ \E object \in Object : SendToSelf(t, object)
    \/ Take \/ Notify \/ PassOver \/ Misread

Spec == Init /\ [][Next]_vars
==============================================================================
