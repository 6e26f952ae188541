------------------------------ MODULE PrintFmt ------------------------------
(***************************************************************************)
(* vprintfmt of lib/printfmt.c with printnum.  A step is a character of    *)
(* the format, or a character handed to putch.  What a conversion prints   *)
(* is computed at once and handed over one by one: nothing it depends on   *)
(* can change meanwhile.                                                   *)
(***************************************************************************)
EXTENDS Integers, SequencesExt

CONSTANTS
  IntSize,     \* 2^32
  MAXERROR,
  ErrorText,   \* error_string, for the codes that have one
  ErrorWord,   \* what `error %d' starts with
  NullText,    \* "(null)"
  Null

(* Characters, as far as the code tells them apart.                        *)
Percent == 37
Hash == 35
Star == 42
Dash == 45
Dot == 46
Digit0 == 48
Space == 32
LongFlag == 108
NUL == 0

NonZero == 49 .. 57
DigitChars == 48 .. 57

(* What may stand between the `%' and a conversion.                        *)
Modifiers == NonZero \cup {Dash, Digit0, Dot, Hash, LongFlag, Star}

BaseOf(c) == CASE c \in {100, 117} -> 10 [] c = 111 -> 8 [] c \in {112, 120} -> 16

ASSUME PrintFmtAssumption ==
  /\ IntSize \in Nat \ {0} /\ MAXERROR \in Nat
  /\ DOMAIN ErrorText \subseteq Nat
  /\ \A e \in DOMAIN ErrorText : ErrorText[e] \in Seq(1 .. 127)
  /\ ErrorWord \in Seq(1 .. 127) /\ NullText \in Seq(1 .. 127)

VARIABLES
  fmt,       \* the format, without its 0
  f,         \* how much of it has been read
  args,      \* the arguments not yet taken
  inEscape,  \* whether an escape sequence is being read
  padc, width, precision, lflag, altflag,
  pending    \* what is yet to be handed to putch

flagVars == <<padc, width, precision, lflag, altflag>>
fmtVars == <<fmt, f, args, inEscape, flagVars, pending>>

FlagsReset ==
  /\ padc' = Space /\ width' = -1 /\ precision' = -1
  /\ lflag' = 0 /\ altflag' = FALSE

FmtInit ==
  /\ f = 0 /\ inEscape = FALSE /\ pending = <<>>
  /\ padc = Space /\ width = -1 /\ precision = -1
  /\ lflag = 0 /\ altflag = FALSE

(* The character fmt points at, the 0 at the end included.                 *)
Ch == IF f < Len(fmt) THEN fmt[f + 1] ELSE NUL

Times(n, c) == [k \in 1 .. n |-> c]

-----------------------------------------------------------------------------
(* What the conversions print.                                             *)

DigitChar(d) == IF d < 10 THEN Digit0 + d ELSE 97 + d - 10

(* A slip: the padding is the same however many digits there are.          *)
printnum_FixedPad(num, base, wid, pad) ==
  LET print[v \in 0 .. num] ==
        (IF v >= base THEN print[v \div base] ELSE Times(wid - 1, pad))
        \o <<DigitChar(v % base)>>
  IN  print[num]

(* One call a digit; the innermost one prints the padding, --width times.  *)
printnum(num, base, wid, pad) ==
  LET print[v \in 0 .. num] ==
        [w \in Int |->
           (IF v >= base THEN print[v \div base][w - 1] ELSE Times(w - 1, pad))
           \o <<DigitChar(v % base)>>]
  IN  print[num][wid]

(* getuint and getint: int and long have 32 bits, long long has 64.        *)
getuint(v) == v % (IF lflag >= 2 THEN IntSize * IntSize ELSE IntSize)

Number(c, v) ==
  CASE c = 100 ->    \* d
         (IF v < 0 THEN <<Dash>> ELSE <<>>)
         \o printnum(IF v < 0 THEN -v ELSE v, 10, width, padc)
    [] c = 112 ->    \* p
         <<Digit0, 120>> \o printnum(v % IntSize, 16, width, padc)
    [] OTHER   -> printnum(getuint(v), BaseOf(c), width, padc)

SignedChar(ch) == IF ch < 128 THEN ch ELSE ch - 256

(* %s: padding before, at most `precision' characters, padding after.      *)
String(str) ==
  LET len == IF precision < 0 THEN Len(str) ELSE Min({precision, Len(str)})
      pads == IF width > 0 THEN width - len ELSE 0
      Shown(c) == IF altflag /\ c \notin 32 .. 126 THEN 63 ELSE c
  IN  (IF padc = Dash THEN <<>> ELSE Times(pads, padc))
      \o [k \in 1 .. len |-> Shown(SignedChar(str[k]))]
      \o (IF padc = Dash THEN Times(pads, Space) ELSE <<>>)

(* %e, by a call of printfmt with a format of its own.                     *)
Error(v) ==
  LET err == IF v < 0 THEN -v ELSE v
  IN  IF err < MAXERROR /\ err \in DOMAIN ErrorText
      THEN ErrorText[err]
      ELSE ErrorWord \o printnum(err, 10, -1, Space)

Converted(c, v) ==
  CASE c = 99  -> <<v>>                                   \* c
    [] c = 101 -> Error(v)                                \* e
    [] c = 115 -> String(IF v = Null THEN NullText ELSE v)  \* s
    [] OTHER   -> Number(c, v)

Conversions == {99, 101, 115, 100, 117, 111, 112, 120}

-----------------------------------------------------------------------------
(* The steps of vprintfmt.  None is taken while something is pending.      *)

Literal ==
  /\ ~inEscape /\ Ch \notin {NUL, Percent}
  /\ pending' = <<Ch>>
  /\ f' = f + 1
  /\ UNCHANGED <<fmt, args, inEscape, flagVars>>

StartEscape ==
  /\ ~inEscape /\ Ch = Percent
  /\ inEscape' = TRUE
  /\ f' = f + 1
  /\ FlagsReset
  /\ UNCHANGED <<fmt, args, pending>>

(* process_precision: the first number is the width, a later one the       *)
(* precision.                                                              *)
TakeNumber(v) ==
  IF width < 0 THEN width' = v /\ precision' = -1
               ELSE precision' = v /\ UNCHANGED width

Flag ==
  /\ inEscape
  /\ \/ Ch \in {Dash, Digit0} /\ padc' = Ch
        /\ UNCHANGED <<width, precision, lflag, altflag>>
     \/ Ch = Dot /\ width' = (IF width < 0 THEN 0 ELSE width)
        /\ UNCHANGED <<padc, precision, lflag, altflag>>
     \/ Ch = Hash /\ altflag' = TRUE
        /\ UNCHANGED <<padc, width, precision, lflag>>
     \/ Ch = LongFlag /\ lflag' = lflag + 1
        /\ UNCHANGED <<padc, width, precision, altflag>>
  /\ f' = f + 1
  /\ UNCHANGED <<fmt, args, inEscape, pending>>

(* The digits from the one fmt points at to the last one in a row.         *)
DigitRun ==
  CHOOSE r \in 1 .. Len(fmt) - f :
    /\ \A k \in 1 .. r : fmt[f + k] \in DigitChars
    /\ f + r < Len(fmt) => fmt[f + r + 1] \notin DigitChars

NumberRead(digits) ==
  LET value[k \in 0 .. Len(digits)] ==
        IF k = 0 THEN 0 ELSE value[k - 1] * 10 + digits[k] - Digit0
  IN  value[Len(digits)]

Digits ==
  /\ inEscape /\ Ch \in NonZero
  /\ TakeNumber(NumberRead(SubSeq(fmt, f + 1, f + DigitRun)))
  /\ f' = f + DigitRun
  /\ UNCHANGED <<fmt, args, inEscape, padc, lflag, altflag, pending>>

NumberArgument ==
  /\ inEscape /\ Ch = Star
  /\ TakeNumber(Head(args))
  /\ args' = Tail(args)
  /\ f' = f + 1
  /\ UNCHANGED <<fmt, inEscape, padc, lflag, altflag, pending>>

Convert ==
  /\ inEscape /\ Ch \in Conversions
  /\ pending' = Converted(Ch, Head(args))
  /\ args' = Tail(args)
  /\ f' = f + 1
  /\ inEscape' = FALSE
  /\ UNCHANGED <<fmt, flagVars>>

EscapedPercent ==
  /\ inEscape /\ Ch = Percent
  /\ pending' = <<Percent>>
  /\ f' = f + 1
  /\ inEscape' = FALSE
  /\ UNCHANGED <<fmt, args, flagVars>>

(* Anything else, the end of the format included: the `%' is printed, and  *)
(* what came after it is read again as text.                               *)
Unrecognized ==
  /\ inEscape
  /\ Ch \notin Conversions \cup Modifiers \cup {Percent}
  /\ pending' = <<Percent>>
  /\ f' = Max({k \in 1 .. f : fmt[k] = Percent})
  /\ inEscape' = FALSE
  /\ UNCHANGED <<fmt, args, flagVars>>

vprintfmt ==
  /\ pending = <<>>
  /\ \/ Literal \/ StartEscape
     \/ Flag \/ Digits \/ NumberArgument
     \/ Convert \/ EscapedPercent \/ Unrecognized

FormatEnds == pending = <<>> /\ ~inEscape /\ Ch = NUL
=============================================================================
