----------------------------- MODULE MCStrings -----------------------------
(* Twelve bytes: all different for memmove; strings of up to four of two   *)
(* characters, one above 127, for most functions, and none that ends;      *)
(* numerals for strtol.                                                    *)
EXTENDS StringOps

MCSize == 12

Filled(w) == [a \in 0 .. MCSize - 1 |->
                IF a < Len(w) THEN w[a + 1] ELSE IF a = Len(w) THEN 0 ELSE 99]

Different == [a \in 0 .. MCSize - 1 |-> a + 1]

Texts == {Different} \cup {Filled(w) : w \in [1 .. 4 -> {0, 97, 200}]}
Numerals == {Filled(w) : w \in [1 .. 4 -> {0, 32, 45, 48, 55, 97, 120}]}

MCMemories == [f \in StringFunctions |->
  CASE f \in {"memmove", "memset"} -> {Different}
    [] f = "strtol"                -> Numerals
    [] OTHER                       -> Texts]

MCPointers == 0 .. 4
MCCounts == 0 .. 4
MCChars == {200, 200 - 256, 0}
MCBases == {0, 8, 10, 16}
=============================================================================
