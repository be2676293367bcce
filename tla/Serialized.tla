----------------------------- MODULE Serialized -----------------------------
(***************************************************************************)
(* A program that puts objects into a serializer, and another that makes a *)
(* deserializer of what str() returned and takes them out again.           *)
(***************************************************************************)
EXTENDS Serializer

CONSTANTS
    Object,     \* what may be written first: records [type, val]
    Following   \* and what after it

VARIABLES
    written,    \* the objects put into the serializer
    s,          \* its octets
    reading,    \* whether there is a deserializer
    d,          \* the octets left in it
    taken       \* the values taken out

vars == <<written, s, reading, d, taken>>

Init == written = <<>> /\ s = <<>> /\ reading = FALSE /\ d = <<>> /\ taken = <<>>

\* s << object
Put ==
    /\ ~reading /\ Len(written) < 2
    /\ \E object \in IF written = <<>> THEN Object ELSE Following :
         /\ written' = Append(written, object)
         /\ s' = s \o Write(object.type, object.val)
    /\ UNCHANGED <<reading, d, taken>>

\* deserializer d(s.str())
Open ==
    /\ ~reading
    /\ reading' = TRUE /\ d' = s
    /\ UNCHANGED <<written, s, taken>>

\* Types whose octets operator>> reads the way operator<< has written them: not a
\* plain enum that is narrower than what it is read as, nor a list of bools that is
\* read as a packed vector of them, nor anything made of these.
RECURSIVE Reversible(_)
Reversible(type) ==
    /\ type.kind = "enum" => type.n = 8
    /\ type.kind = "forward_list" => type.of[1].kind # "bool"
    /\ \A i \in DOMAIN type.of : Reversible(type.of[i])

InStep == \A i \in DOMAIN taken : Reversible(written[i].type)

\* d >> value, which the reader makes of the type that was written.  Where the others
\* have left the reader nothing is followed any further.
Take ==
    /\ reading /\ Len(taken) < Len(written) /\ InStep
    /\ LET object == Read(written[Len(taken) + 1].type, d)
       IN  taken' = Append(taken, object.val) /\ d' = object.rest
    /\ UNCHANGED <<written, s, reading>>

Next == Put \/ Open \/ Take

Spec == Init /\ [][Next]_vars

------------------------------------------------------------------------------
\* A number that toIEEE brings to [1, 2): not one whose exponent is below all
\* factors of its loop.
Normal(type, val) ==
    type.kind \in {"float", "double"} /\ val.class = "finite" => val.exp > - Digits(type.kind)

\* An object is read back by operator>> as it was written by operator<<, whatever
\* follows it on the stream (left_shift_op_impl and right_shift_op_impl), except for
\* numbers near zero, plain enums and forward lists of bools.
Exact == \A i \in DOMAIN taken :
    Reversible(written[i].type) /\ Normal(written[i].type, written[i].val)
        => taken[i] = written[i].val

\* An object takes from the deserializer the octets it put into the serializer and
\* no other, so that the next one begins where it should, numbers near zero
\* included, plain enums and forward lists of bools not (operator>>, and empty(),
\* which ends the loop over a packet).
SelfDelimiting ==
    LET left == SubSeq(written, Len(taken) + 1, Len(written))
    IN  reading /\ InStep =>
            d = WriteAll([i \in DOMAIN left |-> left[i].type], [i \in DOMAIN left |-> left[i].val])

\* Deserialization is the reverse process of serialization, for any object
\* (tutorials/1 - RPS.md:314).  It is not for the three exceptions above.
ReadsBack == \A i \in DOMAIN taken : taken[i] = written[i].val
==============================================================================
