----------------------------- MODULE StringOps -----------------------------
(***************************************************************************)
(* The other functions of lib/string.c.  They have one loop each, over one *)
(* or two pointers p and q and a count n, of which a step is a turn.  The  *)
(* call's dst and src are the first and the second pointer, or the only    *)
(* one.                                                                    *)
(***************************************************************************)
EXTENDS MemOps, FiniteSets, SequencesExt

CONSTANTS
  LongHalf,   \* a long is at least -LongHalf and less than LongHalf
  Pointers,   \* bound: pointers that are passed to the functions here
  Counts,     \* bound: counts that are passed to them
  Chars,      \* characters that are looked for or stored, as ints
  Bases,      \* bases for strtol
  Memories    \* bound: for each function, the memories it is called with

Scans == {"strlen", "strnlen", "strchr", "strfind", "memfind"}
Comparisons == {"strcmp", "strncmp", "memcmp"}
Copies == {"strcpy", "strncpy", "strlcpy"}
StringFunctions == Scans \cup Comparisons \cup Copies
                   \cup {"strcat", "strtol", "memmove", "memset"}

ASSUME StringsAssumption ==
  /\ LongHalf \in Nat \ {0}
  /\ Pointers \subseteq Addresses
  /\ Counts \subseteq Nat /\ Chars \subseteq Int /\ Bases \subseteq 0 .. 36
  /\ Memories \in [StringFunctions -> SUBSET [Addresses -> Bytes]]

VARIABLES p, q, n, base, neg, val, result

loopVars == <<p, q, n, base, neg, val, result>>
stringVars == <<memVars, loopVars>>

Null == -1

Char(c) == c % 256

StringInit ==
  /\ mem \in UNION {Memories[f] : f \in StringFunctions}
  /\ before = mem /\ call = NoCall /\ RegsInit /\ pc = "idle"
  /\ p = 0 /\ q = 0 /\ n = 0
  /\ base = 0 /\ neg = FALSE /\ val = 0 /\ result = 0

-----------------------------------------------------------------------------
(* What callers may pass: strings that end, and room for what is written.  *)

IsString(m, a) == \E e \in Addresses : e >= a /\ m[e] = 0
Length(m, a) ==
  (CHOOSE e \in Addresses : e >= a /\ m[e] = 0 /\ \A k \in a .. e - 1 : m[k] # 0) - a

Disjoint(a, i, b, j) == a + i <= b \/ b + j <= a

MayCall(m, f, d, s, k) ==
  LET len == Length(m, s) IN
  CASE f \in {"strlen", "strchr", "strfind"} -> IsString(m, d)
    [] f = "strnlen"              -> IsString(m, d) \/ d + k <= Size
    [] f = "memfind"              -> d + k <= Size
    [] f \in {"strcmp", "strncmp"} -> IsString(m, d) /\ IsString(m, s)
    [] f = "memcmp"               -> d + k <= Size /\ s + k <= Size
    [] f = "strcpy"               -> /\ IsString(m, s) /\ d + len + 1 <= Size
                                     /\ Disjoint(d, len + 1, s, len + 1)
    [] f \in {"strncpy", "strlcpy"} -> /\ IsString(m, s) /\ d + k <= Size
                                       /\ Disjoint(d, k, s, len + 1)
    [] f = "strcat"               -> /\ IsString(m, s) /\ IsString(m, d)
                                     /\ d + Length(m, d) + len + 1 <= Size
                                     /\ Disjoint(d, Length(m, d) + len + 1, s, len + 1)
    [] f = "strtol"               -> IsString(m, d)

(* One call in a behaviour.                                                *)
CallString(f, d, s, c, k) ==
  /\ call = NoCall
  /\ mem \in Memories[f]
  /\ MayCall(mem, f, d, s, k)
  /\ call' = [fn |-> f, dst |-> d, src |-> s, c |-> c, n |-> k]
  /\ before' = mem
  /\ p' = d /\ q' = s /\ n' = k
  /\ base' = c
  /\ pc' = IF f = "strtol" THEN "blanks"
           ELSE IF f \in Copies THEN "copy" ELSE "scan"
  /\ UNCHANGED <<mem, regs, neg, val, result>>

-----------------------------------------------------------------------------
(* Scanning and comparing.                                                 *)

(* A slip: the count is not looked at before the byte.                     *)
Goes_Uncounted ==
  CASE call.fn \in {"strlen", "strcat", "strnlen"} -> mem[p] # 0
    [] call.fn \in {"strchr", "strfind"} -> mem[p] \notin {0, Char(call.c)}
    [] call.fn = "memfind"  -> n > 0 /\ mem[p] # Char(call.c)
    [] call.fn \in {"strcmp", "strncmp"} -> mem[p] # 0 /\ mem[p] = mem[q]
    [] call.fn = "memcmp"   -> n > 0 /\ mem[p] = mem[q]

(* The loop goes on.                                                       *)
Goes ==
  CASE call.fn \in {"strlen", "strcat"} -> mem[p] # 0
    [] call.fn = "strnlen"  -> n > 0 /\ mem[p] # 0
    [] call.fn \in {"strchr", "strfind"} -> mem[p] \notin {0, Char(call.c)}
    [] call.fn = "memfind"  -> n > 0 /\ mem[p] # Char(call.c)
    [] call.fn = "strcmp"   -> mem[p] # 0 /\ mem[p] = mem[q]
    [] call.fn = "strncmp"  -> n > 0 /\ mem[p] # 0 /\ mem[p] = mem[q]
    [] call.fn = "memcmp"   -> n > 0 /\ mem[p] = mem[q]

Returned ==
  CASE call.fn \in {"strlen", "strnlen"}  -> p - call.dst
    [] call.fn = "strchr"                 -> IF mem[p] = 0 THEN Null ELSE p
    [] call.fn \in {"strfind", "memfind"} -> p
    [] call.fn = "strcmp"                 -> mem[p] - mem[q]
    [] call.fn \in {"strncmp", "memcmp"}  -> IF n = 0 THEN 0 ELSE mem[p] - mem[q]

ScanTurn ==
  /\ pc = "scan" /\ Goes
  /\ p' = p + 1 /\ n' = n - 1
  /\ q' = IF call.fn \in Comparisons THEN q + 1 ELSE q
  /\ UNCHANGED <<memVars, base, neg, val, result>>

(* strcat goes on with strcpy, from the end of the first string.           *)
ScanEnds ==
  /\ pc = "scan" /\ ~Goes
  /\ IF call.fn = "strcat"
     THEN pc' = "copy" /\ UNCHANGED result
     ELSE pc' = "idle" /\ result' = Returned
  /\ UNCHANGED <<mem, before, call, regs, p, q, n, base, neg, val>>

-----------------------------------------------------------------------------
(* Copying.  strncpy goes on writing the 0 that it has reached.            *)

CopyGoes ==
  CASE call.fn \in {"strcpy", "strcat"} -> mem[q] # 0
    [] call.fn = "strncpy" -> n > 0
    [] call.fn = "strlcpy" -> n > 1 /\ mem[q] # 0

CopyTurn ==
  /\ pc = "copy" /\ CopyGoes
  /\ mem' = [mem EXCEPT ![p] = mem[q]]
  /\ p' = p + 1 /\ n' = n - 1
  /\ q' = IF mem[q] = 0 THEN q ELSE q + 1
  /\ UNCHANGED <<before, call, regs, pc, base, neg, val, result>>

Terminates == call.fn # "strncpy" /\ (call.fn = "strlcpy" => call.n > 0)

CopyEnds ==
  /\ pc = "copy" /\ ~CopyGoes
  /\ mem' = IF Terminates THEN [mem EXCEPT ![p] = 0] ELSE mem
  /\ result' = IF call.fn = "strlcpy" THEN p - call.dst ELSE call.dst
  /\ pc' = "idle"
  /\ UNCHANGED <<before, call, regs, p, q, n, base, neg, val>>

-----------------------------------------------------------------------------
(* strtol.                                                                 *)

Blanks == {32, 9}
Plus == 43
Minus == 45
Zero == 48
Ex == 120

Wrap(v) == ((v + LongHalf) % (2 * LongHalf)) - LongHalf

(* The value of a digit, 36 for what is none.                              *)
Digit(ch) ==
  CASE ch \in 48 .. 57  -> ch - 48
    [] ch \in 97 .. 122 -> ch - 97 + 10
    [] ch \in 65 .. 90  -> ch - 65 + 10
    [] OTHER            -> 36

SkipBlank ==
  /\ pc = "blanks" /\ mem[p] \in Blanks
  /\ p' = p + 1
  /\ UNCHANGED <<memVars, q, n, base, neg, val, result>>

(* The sign, and the prefix of base 8 or 16.                               *)
Sign ==
  /\ pc = "blanks" /\ mem[p] \notin Blanks
  /\ neg' = (mem[p] = Minus)
  /\ p' = IF mem[p] \in {Plus, Minus} THEN p + 1 ELSE p
  /\ pc' = "prefix"
  /\ UNCHANGED <<mem, before, call, regs, q, n, base, val, result>>

Prefix ==
  /\ pc = "prefix"
  /\ IF base \in {0, 16} /\ mem[p] = Zero /\ mem[p + 1] = Ex
     THEN p' = p + 2 /\ base' = 16
     ELSE IF base = 0 /\ mem[p] = Zero
     THEN p' = p + 1 /\ base' = 8
     ELSE p' = p /\ base' = IF base = 0 THEN 10 ELSE base
  /\ pc' = "digits"
  /\ UNCHANGED <<mem, before, call, regs, q, n, neg, val, result>>

IsDigit == Digit(mem[p]) < base

DigitTurn ==
  /\ pc = "digits" /\ IsDigit
  /\ p' = p + 1
  /\ val' = Wrap(val * base + Digit(mem[p]))
  /\ UNCHANGED <<memVars, q, n, base, neg, result>>

DigitsEnd ==
  /\ pc = "digits" /\ ~IsDigit
  /\ result' = IF neg THEN Wrap(-val) ELSE val
  /\ pc' = "idle"
  /\ UNCHANGED <<mem, before, call, regs, p, q, n, base, neg, val>>
-----------------------------------------------------------------------------
(* One function is called, of this module or of MemOps.                    *)
Searches == {"strchr", "strfind", "memfind"}
Counted == {"strnlen", "memfind", "strncmp", "memcmp", "strncpy", "strlcpy"}

Call ==
  \/ \E f \in Scans \cup Comparisons \cup Copies \cup {"strcat"}, d \in Pointers :
       \E s \in IF f \in Scans THEN {d} ELSE Pointers,
          c \in IF f \in Searches THEN Chars ELSE {0},
          k \in IF f \in Counted THEN Counts ELSE {0} : CallString(f, d, s, c, k)
  \/ \E d \in Pointers, b \in Bases : CallString("strtol", d, d, b, 0)
  \/ /\ call = NoCall
     /\ \/ mem \in Memories["memmove"] /\ \E k \in 0 .. Size :
             \E d, s \in 0 .. Size - k : CallMemmove(d, s, k)
        \/ mem \in Memories["memset"] /\ \E k \in 0 .. Size, c \in Chars :
             \E d \in 0 .. Size - k : CallMemset(d, c, k)
     /\ UNCHANGED loopVars

StringNext ==
  \/ Call
  \/ MemStep /\ UNCHANGED loopVars
  \/ ScanTurn \/ ScanEnds \/ CopyTurn \/ CopyEnds
  \/ SkipBlank \/ Sign \/ Prefix \/ DigitTurn \/ DigitsEnd

StringSpec == StringInit /\ [][StringNext]_stringVars

-----------------------------------------------------------------------------
(* What the functions are for, on strings as sequences.                    *)

Str(m, a) == [i \in 1 .. Length(m, a) |-> m[a + i - 1]]
Str0(m, a) == Append(Str(m, a), 0)
Block(m, a, k) == [i \in 1 .. k |-> m[a + i - 1]]
Cut(s, k) == SubSeq(s, 1, Min({k, Len(s)}))

Compare(s, t) ==
  LET D == {i \in DOMAIN s \cap DOMAIN t : s[i] # t[i]}
  IN  IF D = {} THEN 0 ELSE s[Min(D)] - t[Min(D)]

Find(s, c, none) ==
  IF c \in ToSet(s) THEN Min({i \in DOMAIN s : s[i] = c}) - 1 ELSE none

Overwritten(m, d, W) ==
  [a \in Addresses |-> IF a - d + 1 \in DOMAIN W THEN W[a - d + 1] ELSE m[a]]

(* [blanks] [sign] [0x or 0] digits.                                       *)
SignAt(s) == Min({j \in DOMAIN s : s[j] \notin Blanks})
Unsigned(s) == IF s[SignAt(s)] \in {Plus, Minus} THEN SignAt(s) + 1 ELSE SignAt(s)

Hex(s, b) ==
  b \in {0, 16} /\ s[Unsigned(s)] = Zero /\ s[Unsigned(s) + 1] = Ex

Radix(s, b) ==
  IF b # 0 THEN b
  ELSE IF Hex(s, b) THEN 16 ELSE IF s[Unsigned(s)] = Zero THEN 8 ELSE 10

DigitsAt(s, b) == IF Hex(s, b) THEN Unsigned(s) + 2 ELSE Unsigned(s)

(* Of the digits from k to m.                                              *)
DigitsValue(s, k, m, radix) ==
  LET v[i \in k - 1 .. m] == IF i < k THEN 0 ELSE v[i - 1] * radix + Digit(s[i])
  IN  v[m]

(* The value and where it ends.                                            *)
Numeral(s, b) ==
  LET k == DigitsAt(s, b)
      e == Min({i \in k .. Len(s) : Digit(s[i]) >= Radix(s, b)})
      v == DigitsValue(s, k, e - 1, Radix(s, b))
  IN  [value |-> IF s[SignAt(s)] = Minus THEN Wrap(-v) ELSE Wrap(v), end |-> e - 1]

(* What each function returns and leaves in memory is what its name says,  *)
(* also for a count of 0, a string that just fills its room, one that is a *)
(* prefix of the other, and bytes above 127 (string.c:11-118, 214-284).    *)
(* A number too long for a long is its value modulo the size of a long.    *)
StringsAgree ==
  pc = "idle" /\ call # NoCall /\ call.fn \notin {"memmove", "memset"} =>
    LET d == call.dst  k == call.n
        ds == Str(before, d)  ss == Str(before, call.src)
        same == mem = before
        f == call.fn
    IN
    CASE f = "strlen"  -> result = Len(ds) /\ same
      [] f = "strnlen" -> result = (IF IsString(before, d) THEN Len(Cut(ds, k)) ELSE k) /\ same
      [] f = "strchr"  -> result = Find(ds, Char(call.c), Null - d) + d /\ same
      [] f = "strfind" -> result = Find(ds, Char(call.c), Len(ds)) + d /\ same
      [] f = "memfind" -> result = Find(Block(mem, d, k), Char(call.c), k) + d /\ same
      [] f = "strcmp"  -> result = Compare(Str0(mem, d), Str0(mem, call.src)) /\ same
      [] f = "strncmp" -> same /\
           result = Compare(Cut(Str0(mem, d), k), Cut(Str0(mem, call.src), k))
      [] f = "memcmp"  -> same /\
           result = Compare(Block(mem, d, k), Block(mem, call.src, k))
      [] f = "strcpy"  -> result = d /\ mem = Overwritten(before, d, Append(ss, 0))
      [] f = "strcat"  -> result = d /\ mem = Overwritten(before, d, ds \o Append(ss, 0))
      [] f = "strncpy" -> result = d /\ mem = Overwritten(before, d,
                            [i \in 1 .. k |-> IF i <= Len(ss) THEN ss[i] ELSE 0])
      [] f = "strlcpy" ->
           IF k = 0 THEN result = 0 /\ same
           ELSE /\ result = Len(Cut(ss, k - 1))
                /\ mem = Overwritten(before, d, Append(Cut(ss, k - 1), 0))
      [] f = "strtol"  -> same /\ LET num == Numeral(Str0(mem, d), call.c)
                                IN  result = num.value /\ p = d + num.end
=============================================================================
