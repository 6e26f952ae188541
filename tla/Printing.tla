------------------------------ MODULE Printing ------------------------------
(***************************************************************************)
(* cprintf (kern/printf.c), which prints to the console a character at a   *)
(* time, and snprintf (lib/printfmt.c), which prints into a buffer of n    *)
(* bytes: vprintfmt composed with what its putch argument does.            *)
(*                                                                         *)
(* A call is described by a directive, from which the format and the       *)
(* arguments are made, and which says what is to be printed.               *)
(***************************************************************************)
EXTENDS PrintFmt, ConsoleOutput

CONSTANTS
  CprintfCalls,   \* directives that are printed to the console
  SnprintfCalls,  \* directives that are printed into a buffer
  Sizes,          \* the n of snprintf
  Behind          \* bound: how much of the memory from its buf on is modelled

E_INVAL == 3

VARIABLES
  directive, \* the directive
  sink,      \* "cprintf" or "snprintf"
  size,      \* the arguments of snprintf: n, and
  buf,       \*   the bytes from buf on, or Null
  next, cnt, \* b.buf - buf and b.cnt
  returned   \* what the call has returned: <<>> or <<v>>

bufVars == <<buf, next, cnt>>
printVars == <<fmtVars, outVars, directive, sink, size, bufVars, returned>>

-----------------------------------------------------------------------------
(* Directives: [pad, alt, width, prec, long, conv, arg, after].  A width   *)
(* or precision is [how, v]: in the format ("digits"), an argument         *)
(* ("star"), or absent ("none"); "dot" is a precision without a number.    *)
(* conv is a character, or empty where the format breaks off.              *)

Byte8 == 1 .. 255
Ints == -(IntSize \div 2) .. IntSize \div 2 - 1
LongLongs == -((IntSize * IntSize) \div 2) .. (IntSize * IntSize) \div 2 - 1

(* A 0 would be a flag; near the least int, width - 1 would overflow.      *)
IsAmount(x) ==
  /\ x.v \in Ints /\ x.v >= -(IntSize \div 4)
  /\ x.how \in {"none", "digits", "star"}
  /\ x.how = "digits" => x.v > 0

IsArgument(c) ==
  LET conv == c.conv[1] IN
  CASE conv = 115 -> c.arg = Null \/ c.arg \in Seq(Byte8)
    [] conv = 101 -> c.arg \in Ints /\ -c.arg \in Ints
    [] conv = 99  -> c.arg \in Int   \* the byte, and its colours
    [] OTHER      -> c.arg \in IF c.long >= 2 THEN LongLongs ELSE Ints

IsDirective(c) ==
  /\ c.pad \in {Space, Digit0, Dash} /\ c.alt \in BOOLEAN /\ c.long \in Nat
  /\ IsAmount(c.width) /\ (IsAmount(c.prec) \/ c.prec.how = "dot")
  /\ c.after \in Seq(Byte8 \ {Percent})
  /\ \/ c.conv = <<>> /\ c.after = <<>>
     \/ \E ch \in Byte8 \ Modifiers :
          c.conv = <<ch>> /\ (ch \in Conversions => IsArgument(c))

ASSUME PrintingAssumption ==
  /\ \A c \in CprintfCalls \cup SnprintfCalls : IsDirective(c)
  /\ Behind \in Nat /\ \A s \in Sizes : s \in Int /\ s <= Behind

Power(base, m) ==
  LET power[k \in 0 .. m] == IF k = 0 THEN 1 ELSE base * power[k - 1]
  IN  power[m]

(* v in a base: its k-th digit is the one base^(L-k) stands for.           *)
NumeralOf(v, base) ==
  LET L == CHOOSE l \in 1 .. v + 1 :
             Power(base, l) > v /\ (l > 1 => Power(base, l - 1) <= v)
  IN  [k \in 1 .. L |-> DigitChar((v \div Power(base, L - k)) % base)]

NumberText(x) ==
  CASE x.how = "digits" -> NumeralOf(x.v, 10)
    [] x.how = "star"   -> <<Star>>
    [] OTHER            -> <<>>

Directive(c) ==
  <<Percent>>
  \o (IF c.pad = Space THEN <<>> ELSE <<c.pad>>)
  \o (IF c.alt THEN <<Hash>> ELSE <<>>)
  \o NumberText(c.width)
  \o (IF c.prec.how = "none" THEN <<>> ELSE <<Dot>> \o NumberText(c.prec))
  \o Times(c.long, LongFlag)
  \o c.conv

FormatOf(c) == Directive(c) \o c.after

ArgsOf(c) ==
  (IF c.width.how = "star" THEN <<c.width.v>> ELSE <<>>)
  \o (IF c.prec.how = "star" THEN <<c.prec.v>> ELSE <<>>)
  \o (IF c.conv # <<>> /\ c.conv[1] \in Conversions THEN <<c.arg>> ELSE <<>>)

-----------------------------------------------------------------------------
PrintInit ==
  /\ \/ sink = "cprintf" /\ directive \in CprintfCalls /\ size = 0 /\ buf = Null
     \/ /\ sink = "snprintf" /\ directive \in SnprintfCalls
        /\ size \in Sizes
        /\ buf \in {Null, [k \in 0 .. Behind |-> -1]}
  /\ fmt = FormatOf(directive) /\ args = ArgsOf(directive)
  /\ FmtInit /\ OutInit
  /\ next = 0 /\ cnt = 0
  /\ returned = <<>>

InCall == returned = <<>> /\ at = "idle"

Refused == sink = "snprintf" /\ (buf = Null \/ size < 1)

(* A step of vprintfmt that prints nothing yet.                            *)
Format ==
  /\ InCall /\ ~Refused
  /\ vprintfmt
  /\ UNCHANGED <<outVars, directive, sink, size, bufVars, returned>>

(* kern/printf.c: putch.  Its `*cnt++' counts nothing.                     *)
putch ==
  /\ InCall /\ sink = "cprintf" /\ pending # <<>>
  /\ cputchar(Head(pending))
  /\ pending' = Tail(pending)
  /\ UNCHANGED <<fmt, f, args, inEscape, flagVars, directive, sink, size, bufVars, returned>>

(* A slip: the last byte of the buffer is taken for a character too.       *)
HasRoom_All == next < size

HasRoom == next < size - 1

sprintputch ==
  /\ InCall /\ ~Refused /\ sink = "snprintf" /\ pending # <<>>
  /\ pending' = Tail(pending)
  /\ cnt' = cnt + 1
  /\ IF HasRoom
     THEN buf' = [buf EXCEPT ![next] = Head(pending) % 256] /\ next' = next + 1
     ELSE UNCHANGED <<buf, next>>
  /\ UNCHANGED <<fmt, f, args, inEscape, flagVars, outVars, directive, sink, size, returned>>

cputchar_Goes ==
  /\ cons_putc
  /\ UNCHANGED <<fmtVars, directive, sink, size, bufVars, returned>>

(* vcprintf returns the counter that putch was to increment.               *)
Returns ==
  /\ InCall
  /\ \/ Refused /\ returned' = <<-E_INVAL>> /\ UNCHANGED buf
     \/ ~Refused /\ FormatEnds /\ sink = "snprintf"
        /\ returned' = <<cnt>>
        /\ buf' = [buf EXCEPT ![next] = NUL]
     \/ FormatEnds /\ sink = "cprintf" /\ returned' = <<0>> /\ UNCHANGED buf
  /\ UNCHANGED <<fmtVars, outVars, directive, sink, size, next, cnt>>

Kernel == Format \/ putch \/ sprintputch \/ cputchar_Goes \/ Returns

PrintNext ==
  \/ Kernel
  \/ Devices /\ UNCHANGED <<fmtVars, directive, sink, size, bufVars, returned>>

(* The processor goes on; nothing is assumed of the devices.               *)
PrintSpec == PrintInit /\ [][PrintNext]_printVars /\ WF_printVars(Kernel)

-----------------------------------------------------------------------------
(* What a directive asks for.                                              *)

Width(c) == IF c.width.how = "none" THEN 0 ELSE c.width.v
Limited(c) == c.prec.how \in {"digits", "star"} /\ c.prec.v >= 0

PadLeft(c, text) == Times(Width(c) - Len(text), c.pad) \o text
PadRight(c, text) == text \o Times(Width(c) - Len(text), Space)
Padded(c, text, right) ==
  IF c.pad \in right THEN PadRight(c, text) ELSE PadLeft(c, text)

Magnitude(v) == IF v < 0 THEN -v ELSE v
Modulus(c) == IF c.long >= 2 THEN IntSize * IntSize ELSE IntSize

(* The characters of a string argument, as putch gets them.                *)
Text(c) ==
  LET str == IF c.arg = Null THEN NullText ELSE c.arg
      cut == IF Limited(c) THEN SubSeq(str, 1, Min({c.prec.v, Len(str)})) ELSE str
  IN  [k \in DOMAIN cut |-> IF c.alt /\ cut[k] \notin 32 .. 126 THEN 63
                            ELSE SignedChar(cut[k])]

(* What conv stands for; `right' has the flags that have a number padded   *)
(* on the right.                                                           *)
Stands(conv, c, right) ==
  CASE conv = 100 ->
         (IF c.arg < 0 THEN <<Dash>> ELSE <<>>)
         \o Padded(c, NumeralOf(Magnitude(c.arg), 10), right)
    [] conv \in {117, 111, 120} ->
         Padded(c, NumeralOf(c.arg % Modulus(c), BaseOf(conv)), right)
    [] conv = 112 -> <<Digit0, 120>> \o Padded(c, NumeralOf(c.arg % IntSize, 16), right)
    [] conv = 99 -> <<c.arg>>
    [] conv = 115 -> Padded(c, Text(c), {Dash})
    [] conv = 101 ->
         IF Magnitude(c.arg) < MAXERROR /\ Magnitude(c.arg) \in DOMAIN ErrorText
         THEN ErrorText[Magnitude(c.arg)]
         ELSE ErrorWord \o NumeralOf(Magnitude(c.arg), 10)
    [] conv = Percent -> <<Percent>>
    [] OTHER -> Directive(c)

ConvOf(c) == IF c.conv = <<>> THEN NUL ELSE c.conv[1]

(* What the comments ask for: the flag `-' is to pad on the right, and the *)
(* flag 0 to pad with 0's (printfmt.c:106-113).                            *)
Asked(c) == Stands(ConvOf(c), c, {Dash}) \o c.after

(* What is printed: numbers have all their padding on the left, that of    *)
(* the flag `-' being dashes (printfmt.c:41-43).                           *)
Printed(c) == Stands(ConvOf(c), c, {}) \o c.after

(* The directives for which the two may differ.                            *)
DashedNumber(c) ==
  c.pad = Dash /\ c.width.how # "none" /\ ConvOf(c) \in {100, 111, 112, 117, 120}

(* A directive prints what it stands for by the comments beside its parts, *)
(* with one padding flag or none, with or without #, with a width and a    *)
(* precision that are absent, written out or taken from the arguments, any *)
(* number of l's and any argument; one that is not known, or that the      *)
(* format breaks off, is printed as it stands, and what follows it is      *)
(* printed too (printfmt.c:82-243).  Not said of numbers with the flag `-' *)
(* and a width: see DashPadsRight.                                         *)
PrintsWhatIsAsked ==
  sink = "cprintf" /\ returned # <<>> /\ ~DashedNumber(directive) =>
    asked = Asked(directive)

(* `flag to pad on the right' (printfmt.c:106), for numbers.  It does not  *)
(* hold: printnum has no other side to pad on.                             *)
DashPadsRight ==
  sink = "cprintf" /\ returned # <<>> /\ DashedNumber(directive) =>
    asked = Asked(directive)

(* snprintf stays within its n bytes at every moment, and leaves there the *)
(* text that cprintf prints for the same directive, cut to n-1 characters  *)
(* and terminated, and returns the length of the whole; it touches nothing *)
(* when it refuses (printfmt.c:261-284).  Numbers with the flag `-' are    *)
(* taken as they are printed: see DashPadsRight.                           *)
BufferHoldsPrefix ==
  sink = "snprintf" /\ buf # Null =>
    /\ \A k \in DOMAIN buf : k >= size => buf[k] = -1
    /\ returned = <<-E_INVAL>> => size < 1
    /\ returned \notin {<<>>, <<-E_INVAL>>} =>
         LET text == Printed(directive)
             m == Min({size - 1, Len(text)})
         IN  /\ returned = <<Len(text)>>
             /\ \A k \in 1 .. m : buf[k - 1] = text[k] % 256
             /\ buf[m] = NUL

(* cprintf returns, whether the devices take what it sends or never do     *)
(* (console.c:70-73, 116): its waits are bounded.                          *)
PrintReturns == <>(returned # <<>>)
=============================================================================
