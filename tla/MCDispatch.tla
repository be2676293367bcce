----------------------------- MODULE MCDispatch -----------------------------
(* Two classes and octets of two bits for TLC; objects as Serializer puts    *)
(* them on the stream.                                                       *)
EXTENDS Dispatch, Serializer

Exponent_ == [float |-> 5, double |-> 8]
Mantissa_ == [float |-> 2, double |-> 7]

Name(val)  == [class |-> "name", val |-> val]
Score(n)   == [class |-> "score", val |-> <<n>>]

TypeOf(o) == IF o.class = "name" THEN Made("sequence", <<UInt(1)>>) ELSE Made("tuple", <<SInt(2)>>)

\* As many octets as a hash, and those of one: who reads Long for a hash is back in
\* step, or takes what follows for a score.
Long == Name(<<1, 2, 3, 1, 2>>)

Object_       == {Name(<<2>>), Long, Score(-1)}
ObjectOctets_ == [o \in Object_ |-> Write(TypeOf(o), o.val)]

Class_      == {"name", "score"}
HashOf_     == [name |-> WriteUInt(8, 43690), score |-> ObjectOctets_[Long]]
PacketHash_ == WriteUInt(8, 54321)

\* Behind Long, octets nobody reads end where a class begins; behind a score they do
\* not.
Message_ == { [packet |-> FALSE, objects |-> <<Long>>],
              [packet |-> TRUE,  objects |-> <<Long, Score(-1)>>] }
==============================================================================
