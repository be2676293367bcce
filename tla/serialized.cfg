SPECIFICATION Spec
CONSTANTS
    Bits = 2
    CharOne = 3
    CharZero = 2
    Exponent <- Exponent_
    Mantissa <- Mantissa_
    Object <- Object_
    Following <- Following_
INVARIANTS
    Exact
    SelfDelimiting
CHECK_DEADLOCK FALSE
