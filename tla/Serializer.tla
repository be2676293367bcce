----------------------------- MODULE Serializer -----------------------------
(***************************************************************************)
(* What breep::serializer writes for a value of each type it knows, and    *)
(* what breep::deserializer makes of it.                                   *)
(*                                                                         *)
(* A type is a record [kind, n, of]: its kind, a number where the kind     *)
(* needs one (the octets of an integer, or of what a plain enum is         *)
(* promoted to, the length of an array) and the types it is made of.  A    *)
(* stream is a sequence of octets; a reader returns the value and the rest *)
(* of the stream.                                                          *)
(*                                                                         *)
(* The code's octets have 8 bits.  Everything here follows from Bits, so   *)
(* that TLC can go through all values of an integer or a float.            *)
(***************************************************************************)
EXTENDS Integers, SequencesExt
LOCAL INSTANCE Bitwise

CONSTANTS
    Bits,       \* numeric_limits<uint8_t>::digits
    CharOne,    \* '1'
    CharZero,   \* '0'
    Exponent,   \* exponent bits of "float" and "double"
    Mantissa    \* and their mantissa bits

Base == 2 ^ Bits

ASSUME BitsAssumption == Bits \in Nat /\ Bits > 1
ASSUME CharAssumption == CharOne \in 0..(Base - 1) /\ CharZero \in 0..(Base - 1) \ {CharOne}
\* float is as wide as int32_t and double as int64_t.
ASSUME FloatAssumption ==
    \A k \in {"float", "double"} :
        1 + Exponent[k] + Mantissa[k] = (IF k = "float" THEN 4 ELSE 8) * Bits

Basic(kind)         == [kind |-> kind, n |-> 0, of |-> <<>>]
UInt(n)             == [kind |-> "uint", n |-> n, of |-> <<>>]
SInt(n)             == [kind |-> "int", n |-> n, of |-> <<>>]
Enum(n)             == [kind |-> "enum", n |-> n, of |-> <<>>]
Made(kind, types)   == [kind |-> kind, n |-> 0, of |-> types]
ArrayOf(type, n)    == [kind |-> "array", n |-> n, of |-> <<type>>]

------------------------------------------------------------------------------
(***************************************************************************)
(* Integers: an octet is put as it is, a wider integer as its upper half   *)
(* and then its lower half, and so highest octet first.                    *)
(***************************************************************************)
\* BadX is X with a plausible slip, which some property is to catch: see the
\* list of mutants in the README.
WriteUInt(n, val) == [i \in 1..n |-> (val \div Base ^ (n - i)) % Base]

\* At the end of the stream istream::get leaves the octet as it was: 0, or for the
\* lower of two octets the upper one.
ReadUInt(n, d) ==
    LET octet(i) == IF i <= Len(d) THEN d[i]
                    ELSE IF i % 2 = 0 /\ i = Len(d) + 1 THEN d[i - 1] ELSE 0
    IN  [val  |-> FoldLeft(LAMBDA val, i : val * Base + octet(i), 0, [i \in 1..n |-> i]),
         rest |-> SubSeq(d, n + 1, Len(d))]

\* static_cast between an integer and the unsigned integer as wide.
Unsigned(val, width) == val % (2 ^ width)
Signed(val, width)   == IF val < 2 ^ (width - 1) THEN val ELSE val - 2 ^ width

------------------------------------------------------------------------------
(***************************************************************************)
(* Sizes: the number of octets, then the octets without leading zeros.     *)
(***************************************************************************)
BitsOf(size) == CHOOSE b \in 0..(8 * Bits) : size \div 2 ^ b = 0 /\ (b = 0 \/ size \div 2 ^ (b - 1) # 0)

\* A size that fills its last octet only in part loses that octet.
BadOctetsOf(size) == BitsOf(size) \div Bits

OctetsOf(size) == BitsOf(size) \div Bits + (IF BitsOf(size) % Bits = 0 THEN 0 ELSE 1)

WriteSize(size) ==
    <<OctetsOf(size)>> \o WriteUInt(OctetsOf(size), size)

\* Past the end of the stream the number is 0, and an octet the one before it.
ReadSize(d) ==
    LET n        == IF d = <<>> THEN 0 ELSE Head(d)
        octet(i) == IF i < Len(d) THEN d[i + 1] ELSE IF Len(d) > 1 THEN Last(d) ELSE 0
    IN  [val  |-> FoldLeft(LAMBDA size, i : size * Base + octet(i), 0, [i \in 1..n |-> i]),
         rest |-> SubSeq(d, n + 2, Len(d))]

------------------------------------------------------------------------------
(***************************************************************************)
(* Floating point numbers.  One is [class, neg, exp, frac]; a finite one   *)
(* that is not zero is 1.frac times 2 to the exp, whatever its exponent,   *)
(* subnormal numbers included.  ReturnType is signed and has               *)
(* ExponentBits + MantissaBits digits.                                     *)
(***************************************************************************)
Float(class, neg, exp, frac) == [class |-> class, neg |-> neg, exp |-> exp, frac |-> frac]

Digits(k) == Exponent[k] + Mantissa[k]
Bias(k)   == 2 ^ (Exponent[k] - 1) - 1
AllOnes(k) == (2 ^ Exponent[k] - 1) * 2 ^ Mantissa[k]

\* The loops that bring fnorm, +-1.frac times 2 to the u, to [1, 2).  The factor
\* ReturnType(2) << i is the least ReturnType when i is Digits - 1: it changes the
\* sign, and the next turn of the loop changes it back.
RECURSIVE Raised(_, _, _, _, _)
Raised(k, i, neg, u, shift) ==
    IF i < 0 THEN [u |-> u, shift |-> shift]
    ELSE IF neg \/ u < -i
         THEN Raised(k, i, IF i = Digits(k) - 1 THEN ~neg ELSE neg, u + i + 1, shift - (i + 1))
         ELSE Raised(k, i - 1, neg, u, shift)

Normalised(k, u) ==
    IF u >= 1 THEN [u |-> 0, shift |-> u]
    ELSE Raised(k, Digits(k) - 1, FALSE, u, 0)

\* A number that is not in [1, 2) after the loops has a mantissa that falls on the
\* fields above it; if it does not fit in ReturnType, the conversion is undefined
\* and the processor's answer is the least integer.
ToIEEE(k, f) ==
    LET sign == IF f.neg THEN 2 ^ Digits(k) ELSE 0
    IN  CASE f.class = "infinite" -> sign + AllOnes(k)
          [] f.class = "nan" -> AllOnes(k) | 1
          [] f.class = "zero" -> sign
          [] f.class = "finite" ->
               LET norm     == Normalised(k, f.exp)
                   mantissa == (2 ^ Mantissa[k] + f.frac) * 2 ^ norm.u - 2 ^ Mantissa[k]
                   exp      == norm.shift + Bias(k)
               IN  (sign | Unsigned(exp * 2 ^ Mantissa[k], Digits(k) + 1))
                        | (IF mantissa < 2 ^ Digits(k) THEN mantissa ELSE 2 ^ Digits(k))

\* The loops that apply the exponent are exact.
FromIEEE(k, val) ==
    LET neg  == val \div 2 ^ Digits(k) = 1
        exp  == (val \div 2 ^ Mantissa[k]) % 2 ^ Exponent[k]
        frac == val % 2 ^ Mantissa[k]
    IN  IF exp = 2 ^ Exponent[k] - 1
        THEN IF frac # 0 THEN Float("nan", FALSE, 0, 0) ELSE Float("infinite", neg, 0, 0)
        ELSE IF val % 2 ^ Digits(k) = 0 THEN Float("zero", neg, 0, 0)
        ELSE Float("finite", neg, exp - Bias(k), frac)

------------------------------------------------------------------------------
(***************************************************************************)
(* Containers: the size and then the elements.  Sets and maps are TLA+     *)
(* sets of elements and of pairs, multisets and multimaps bags of them;    *)
(* any order of iteration will do.                                         *)
(***************************************************************************)
Maps    == {"map", "multimap"}
Sorted  == Maps \union {"set", "multiset"}
Dynamic == Sorted \union {"sequence", "forward_list"}

\* The order in which a container gives its elements.
Elements(type, val) ==
    CASE type.kind \in {"set", "map"} -> SetToSeq(val)
      [] type.kind \in {"multiset", "multimap"} ->
             FoldLeft(LAMBDA all, elt : all \o [i \in 1..val[elt] |-> elt], <<>>, SetToSeq(DOMAIN val))
      [] OTHER -> val

\* The same elements gathered in an empty container.
Gathered(type, elts) ==
    CASE type.kind \in {"set", "map"} -> Range(elts)
      [] type.kind \in {"multiset", "multimap"} ->
             [elt \in Range(elts) |-> Cardinality({i \in DOMAIN elts : elts[i] = elt})]
      [] OTHER -> elts

\* The element type; a map is a container of pairs.
ElementType(type) == IF type.kind \in Maps THEN Made("pair", type.of) ELSE type.of[1]

\* The flags of an octet, the first one lowest.
Mask(flags) == FoldLeftDomain(LAMBDA mask, j : mask + (IF flags[j] THEN 2 ^ (j - 1) ELSE 0), 0, flags)

\* std::vector<bool> is packed.
WriteFlags(flags) ==
    WriteSize(Len(flags)) \o
    [i \in 1..((Len(flags) + Bits - 1) \div Bits) |->
        Mask(SubSeq(flags, (i - 1) * Bits + 1, IF i * Bits < Len(flags) THEN i * Bits ELSE Len(flags)))]

\* The last octet is read whole.
BadReadFlags(d) ==
    LET size   == ReadSize(d)
        octets == (size.val + Bits - 1) \div Bits
    IN  [val  |-> [i \in 1..(octets * Bits) |->
                    (size.rest[(i - 1) \div Bits + 1] \div 2 ^ ((i - 1) % Bits)) % 2 = 1],
         rest |-> SubSeq(size.rest, octets + 1, Len(size.rest))]

ReadFlags(d) ==
    LET size   == ReadSize(d)
        octets == (size.val + Bits - 1) \div Bits
    IN  [val  |-> [i \in 1..size.val |->
                    (size.rest[(i - 1) \div Bits + 1] \div 2 ^ ((i - 1) % Bits)) % 2 = 1],
         rest |-> SubSeq(size.rest, octets + 1, Len(size.rest))]

------------------------------------------------------------------------------
(***************************************************************************)
(* operator<< and operator>>.  The overload for plain enums, of a          *)
(* forwarding reference, is never chosen for the lvalue that operator<<    *)
(* passes on: an enum is written as the integer it is promoted to, mostly  *)
(* int32_t, and read as int64_t.                                           *)
(***************************************************************************)
RECURSIVE Write(_, _)

WriteAll(types, vals) == FlattenSeq([i \in 1..Len(vals) |-> Write(types[i], vals[i])])

WriteContainer(type, vals) ==
    WriteSize(Len(vals)) \o WriteAll([i \in 1..Len(vals) |-> ElementType(type)], vals)

Write(type, val) ==
    CASE type.kind = "uint"       -> WriteUInt(type.n, val)
      [] type.kind \in {"int", "enum"} -> WriteUInt(type.n, Unsigned(val, type.n * Bits))
      [] type.kind = "char"       -> WriteUInt(1, Unsigned(val, Bits))
      [] type.kind = "bool"       -> WriteUInt(1, IF val THEN CharOne ELSE CharZero)
      [] type.kind = "float"      -> WriteUInt(4, ToIEEE("float", val))
      [] type.kind = "double"     -> WriteUInt(8, ToIEEE("double", val))
      [] type.kind = "enum class" -> Write(type.of[1], val)
      [] type.kind = "flags"      -> WriteFlags(val)
      [] type.kind \in Dynamic \union {"array"} -> WriteContainer(type, Elements(type, val))
      [] type.kind \in {"pair", "tuple"} -> WriteAll(type.of, val)

ReadInt(n, d) == LET r == ReadUInt(n, d) IN [r EXCEPT !.val = Signed(r.val, n * Bits)]

ReadFloat(kind, n, d) == LET r == ReadUInt(n, d) IN [r EXCEPT !.val = FromIEEE(kind, r.val)]

RECURSIVE Read(_, _), ReadAll(_, _)

\* A value of each of the types, one after the other.
ReadAll(types, d) ==
    IF types = <<>> THEN [val |-> <<>>, rest |-> d]
    ELSE LET first == Read(Head(types), d)
             more  == ReadAll(Tail(types), first.rest)
         IN  [val |-> <<first.val>> \o more.val, rest |-> more.rest]

ReadContainer(type, d) ==
    LET size == ReadSize(d)
        all  == ReadAll([i \in 1..size.val |-> ElementType(type)], size.rest)
    IN  [all EXCEPT !.val = Gathered(type, all.val)]

\* By way of a vector, which for bools is the packed one.
ReadForwardList(type, d) ==
    LET tmp == IF type.of[1].kind = "bool" THEN ReadFlags(d) ELSE ReadContainer(type, d)
    IN  [tmp EXCEPT !.val = FoldRight(LAMBDA elt, list : <<elt>> \o list, tmp.val, <<>>)]

\* The size on the stream is read and trusted; it is the array's own.
ReadArray(type, d) ==
    LET size == ReadSize(d) IN ReadAll([i \in 1..size.val |-> type.of[1]], size.rest)

Read(type, d) ==
    CASE type.kind = "uint"       -> ReadUInt(type.n, d)
      [] type.kind = "int"        -> ReadInt(type.n, d)
      [] type.kind = "char"       -> ReadInt(1, d)
      [] type.kind = "bool"       -> LET r == ReadUInt(1, d) IN [r EXCEPT !.val = (r.val = CharOne)]
      [] type.kind = "float"      -> ReadFloat("float", 4, d)
      [] type.kind = "double"     -> ReadFloat("double", 8, d)
      [] type.kind = "enum"       -> ReadInt(8, d)
      [] type.kind = "enum class" -> Read(type.of[1], d)
      [] type.kind = "flags"      -> ReadFlags(d)
      [] type.kind = "array"      -> ReadArray(type, d)
      [] type.kind = "forward_list" -> ReadForwardList(type, d)
      [] type.kind \in Sorted \union {"sequence"} -> ReadContainer(type, d)
      [] type.kind \in {"pair", "tuple"} -> ReadAll(type.of, d)
==============================================================================
