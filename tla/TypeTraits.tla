----------------------------- MODULE TypeTraits -----------------------------
(***************************************************************************)
(* What classes are called on the stream: the name a class is declared     *)
(* with, and its hash.  Names are sequences of character codes, in which   *)
(* one letter stands for an identifier; the hash has HashBits bits (64).   *)
(***************************************************************************)
EXTENDS Integers, SequencesExt

CONSTANT HashBits   \* up to 12 for TLC, whose integers have 32

ASSUME HashBitsAssumption == HashBits \in Nat \ {0}

Less    == 60
Greater == 62
Comma   == 44
Colon   == 58
Space   == 32

\* The universal_name of a class of BREEP_DECLARE_TYPE(name), and the one of
\* name<args> of BREEP_DECLARE_TEMPLATE(name): args are universal names.
Declared(name)       == name
TemplateParam(args)  == FoldLeft(LAMBDA str, arg : str \o <<Comma>> \o arg, Head(args), Tail(args))
Template(name, args) == name \o <<Less>> \o TemplateParam(args) \o <<Greater>>

\* What hash looks at, i being an index of str: neither '>' nor ' ', and one ':'
\* of two.
Counts(str, i) ==
    /\ str[i] \notin {Greater, Space}
    /\ str[i] # Colon \/ i = Len(str) \/ str[i + 1] # Colon

\* hash_code: sdbm, from the end to the beginning, modulo 2^HashBits
Hash(str) ==
    LET Width == 2^HashBits
        Next(i, code) == IF Counts(str, i)
                         THEN (str[i] + code * 64 + code * (65536 % Width) - code) % Width
                         ELSE code
        From[i \in 1..(Len(str) + 1)] == IF i > Len(str) THEN 0 ELSE Next(i, From[i + 1])
    IN  From[1]
=============================================================================
