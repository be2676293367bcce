---------------------------- MODULE MCSerialized ----------------------------
(* Values of every type for TLC: octets of two bits, floats of one of eight. *)
EXTENDS Serialized

Exponent_ == [float |-> 5, double |-> 8]
Mantissa_ == [float |-> 2, double |-> 7]

Of(type, vals) == {[type |-> type, val |-> v] : v \in vals}

Octet == UInt(1)
Bool  == Basic("bool")

\* All lists of at most n.
Lists(vals, n) == UNION {[1..k -> vals] : k \in 0..n}

Integers_ ==
    UNION { Of(UInt(1), 0..3), Of(UInt(2), 0..15), Of(UInt(4), {0, 1, 27, 228, 255}),
            Of(UInt(8), {0, 1, 6939, 65535}),
            Of(SInt(1), -2..1), Of(SInt(2), -8..7), Of(SInt(4), {-128, -1, 0, 27, 127}),
            Of(SInt(8), {-32768, -1, 0, 6939, 32767}),
            Of(Basic("char"), -2..1), Of(Bool, BOOLEAN), Of(Enum(8), {-1, 0, 3}),
            Of(Made("enum class", <<UInt(2)>>), {0, 7, 15}) }

\* All floats, those with exponents below -14 subnormal, and some doubles.
Special == {Float("nan", FALSE, 0, 0)} \union
           {Float(class, neg, 0, 0) : class \in {"zero", "infinite"}, neg \in BOOLEAN}
Floats ==
    UNION { Of(Basic("float"), Special \union {Float("finite", neg, exp, frac) :
                                    neg \in BOOLEAN, exp \in -14..15, frac \in 0..3}),
            Of(Basic("float"), {Float("finite", FALSE, -15, 2), Float("finite", TRUE, -16, 0)}),
            Of(Basic("double"), Special \union {Float("finite", neg, exp, frac) :
                                    neg \in BOOLEAN, exp \in {-126, -15, -14, -1, 0, 1, 127}, frac \in {0, 1, 127}}) }

Containers ==
    UNION { Of(Made("sequence", <<Octet>>), Lists(0..3, 2) \union {[i \in 1..n |-> i % 4] : n \in {3, 4, 16}}),
            Of(Made("flags", <<>>), Lists(BOOLEAN, 5)),
            Of(Made("forward_list", <<UInt(2)>>), Lists({1, 6}, 3)),
            Of(ArrayOf(Octet, 3), [1..3 -> {1, 2}]),
            Of(Made("set", <<Octet>>), SUBSET (0..3)),
            Of(Made("multiset", <<Octet>>), UNION {[D -> 1..2] : D \in SUBSET {1, 3}}),
            Of(Made("map", <<Octet, Bool>>), {{}, {<<1, TRUE>>}, {<<1, TRUE>>, <<2, FALSE>>}}),
            Of(Made("multimap", <<Octet, Bool>>), {[p \in {<<1, TRUE>>, <<1, FALSE>>} |-> 1], [p \in {<<3, TRUE>>} |-> 2]}),
            Of(Made("sequence", <<Made("sequence", <<Octet>>)>>), Lists({<<>>, <<2>>, <<1, 3>>}, 2)) }

Products ==
    UNION { Of(Made("pair", <<UInt(2), Bool>>), (0..15) \X BOOLEAN),
            Of(Made("tuple", <<Made("sequence", <<Octet>>), SInt(1), Basic("float")>>),
                {<<v, n, Float("finite", TRUE, 2, 1)>> : v \in {<<>>, <<3, 0>>}, n \in -2..1}) }

\* What does not come back, and what of it leaves the reader astray.
Lossy ==
    UNION { Of(Basic("float"), {Float("finite", FALSE, exp, 1) : exp \in {-7, -6}}),
            Of(Enum(4), {-1, 0, 3}), Of(Enum(1), {1}),
            Of(Made("sequence", <<Enum(4)>>), Lists({0, 3}, 2)),
            Of(Made("forward_list", <<Bool>>), Lists(BOOLEAN, 2)) }

Object_ == UNION {Integers_, Floats, Containers, Products, Lossy}

\* What may come after the first object.
Following_ == Of(UInt(2), {6, 11}) \union Of(Made("flags", <<>>), {<<>>, <<TRUE, FALSE, TRUE>>})
==============================================================================
