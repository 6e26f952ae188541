------------------------------- MODULE Screen -------------------------------
(***************************************************************************)
(* The text screen of kern/console.c: cga_putc on the buffer crt_buf with  *)
(* the cursor crt_pos.                                                     *)
(*                                                                         *)
(* A step is one call of cons_putc, except that a tab calls cons_putc five *)
(* times from within cga_putc: `spaces' counts those still to come, and    *)
(* until there are none nothing else is printed.  What cga_putc does after *)
(* the tab's last space does nothing, because that space has left crt_pos  *)
(* on the screen.                                                          *)
(*                                                                         *)
(* A character is an int: the low byte is what is shown, the bits above it *)
(* are the colour.                                                         *)
(***************************************************************************)
EXTENDS Integers

CONSTANTS
  CRT_ROWS, CRT_COLS,
  Glyphs,      \* printable characters
  Colours,     \* colours a caller may ask for, 0 for none
  BootGlyphs   \* characters the BIOS may have left on the screen

ASSUME SizeAssumption == CRT_ROWS \in Nat \ {0} /\ CRT_COLS \in Nat \ {0}

ASSUME ColoursAssumption == Colours \subseteq Nat /\ 0 \in Colours

(* Characters cga_putc acts on.                                            *)
BS == 8
TAB == 9
NL == 10
CR == 13
SP == 32

ASSUME GlyphsAssumption ==
  SP \in Glyphs /\ BootGlyphs \subseteq Glyphs /\ {BS, TAB, NL, CR} \cap Glyphs = {}

VARIABLES
  crt_buf,   \* crt_buf[0 .. CRT_SIZE-1], cells of a character and a colour
  crt_pos,   \* the cursor
  spaces     \* calls of cons_putc(' ') that a tab has still to make

screenVars == <<crt_buf, crt_pos, spaces>>

CRT_SIZE == CRT_ROWS * CRT_COLS
Cells == [ch : Glyphs, attr : Nat]
Blank == [ch |-> SP, attr |-> 7]

(* cga_init takes over the screen and the cursor the BIOS leaves.          *)
ScreenInit ==
  /\ crt_buf \in [0 .. CRT_SIZE - 1 -> [ch : BootGlyphs, attr : {7}]]
  /\ crt_pos \in 0 .. CRT_SIZE - 1
  /\ spaces = 0

(* Slips the properties must notice.                                       *)

(* The last line keeps its text.                                           *)
ScrollTo_NotCleared(text, pos) ==
  IF pos < CRT_SIZE
  THEN crt_buf' = text /\ crt_pos' = pos
  ELSE /\ crt_buf' = [k \in 0 .. CRT_SIZE - 1 |->
                       IF k < CRT_SIZE - CRT_COLS THEN text[k + CRT_COLS]
                                                  ELSE text[k]]
       /\ crt_pos' = pos - CRT_COLS

(* The screen shows text and the cursor is at pos; if that has run off the *)
(* end everything moves up one line.                                       *)
ScrollTo(text, pos) ==
  IF pos < CRT_SIZE
  THEN crt_buf' = text /\ crt_pos' = pos
  ELSE /\ crt_buf' = [k \in 0 .. CRT_SIZE - 1 |->
                       IF k < CRT_SIZE - CRT_COLS THEN text[k + CRT_COLS]
                                                  ELSE Blank]
       /\ crt_pos' = pos - CRT_COLS

LineStart(pos) == pos - (pos % CRT_COLS)

Attr(colour) == IF colour = 0 THEN 7 ELSE colour

(* cga_putc(colour << 8 | ch).                                             *)
cga_putc(ch, colour) ==
  \/ /\ ch = BS
     /\ crt_pos > 0
     /\ ScrollTo([crt_buf EXCEPT ![crt_pos - 1] =
                   [ch |-> SP, attr |-> Attr(colour)]], crt_pos - 1)
  \/ /\ ch = NL
     /\ ScrollTo(crt_buf, LineStart(crt_pos + CRT_COLS))
  \/ /\ ch = CR
     /\ ScrollTo(crt_buf, LineStart(crt_pos))
  \/ /\ ch \in Glyphs
     /\ ScrollTo([crt_buf EXCEPT ![crt_pos] =
                   [ch |-> ch, attr |-> Attr(colour)]], crt_pos + 1)
  \/ /\ ch = TAB \/ (ch = BS /\ crt_pos = 0)
     /\ ScrollTo(crt_buf, crt_pos)

(* cons_putc(colour << 8 | ch).                                            *)
cons_putc(ch, colour) ==
  /\ spaces = 0
  /\ cga_putc(ch, colour)
  /\ spaces' = IF ch = TAB THEN 5 ELSE 0

(* cons_putc(' '), called for a tab.                                       *)
TabSpace ==
  /\ spaces > 0
  /\ cga_putc(SP, 0)
  /\ spaces' = spaces - 1

Printable == Glyphs \cup {BS, TAB, NL, CR}

ScreenNext ==
  TabSpace \/ \E ch \in Printable, colour \in Colours : cons_putc(ch, colour)

ScreenSpec == ScreenInit /\ [][ScreenNext]_screenVars

-----------------------------------------------------------------------------
(* Every call leaves the cursor on the screen, so that no character is     *)
(* ever written outside crt_buf and one line of scrolling is enough        *)
(* (console.c:195); what is on the screen is text in some colour.          *)
ScreenTypeOK ==
  /\ crt_pos \in 0 .. CRT_SIZE - 1
  /\ crt_buf \in [0 .. CRT_SIZE - 1 -> Cells]
  /\ spaces \in 0 .. 5

Term == INSTANCE Terminal WITH
  ROWS <- CRT_ROWS, COLS <- CRT_COLS,
  lines <- [r \in 0 .. CRT_ROWS - 1 |->
             [c \in 0 .. CRT_COLS - 1 |-> crt_buf[r * CRT_COLS + c]]],
  row <- crt_pos \div CRT_COLS,
  col <- crt_pos % CRT_COLS

(* The flat buffer with its one index is a terminal: characters appear at  *)
(* the cursor, lines break and scroll, a backspace undoes the last         *)
(* character even across a line break (console.c:162-209).                 *)
ImplementsTerminal == Term!Spec
=============================================================================
