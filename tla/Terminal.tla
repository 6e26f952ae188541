------------------------------ MODULE Terminal ------------------------------
(***************************************************************************)
(* What cga_putc of kern/console.c promises: a terminal of ROWS lines with *)
(* a cursor.  Characters fill lines, lines fill the screen, and when the   *)
(* last one is full the first one goes.                                    *)
(***************************************************************************)
EXTENDS Integers

CONSTANTS
  ROWS, COLS,
  Glyphs,    \* characters that are shown as they are, the blank among them
  Colours,   \* colours that can be asked for; 0 is none, and means 7
  BootGlyphs \* characters that may be on the screen at the start

VARIABLES
  lines,     \* lines[r][c] = [ch |-> character, attr |-> colour]
  row, col   \* the cursor

vars == <<lines, row, col>>

BlankCell == [ch |-> 32, attr |-> 7]
BlankLine == [c \in 0 .. COLS - 1 |-> BlankCell]

(* The cursor goes to the start of the next line of text, given the lines. *)
LineFeed(text) ==
  /\ col' = 0
  /\ IF row < ROWS - 1
     THEN lines' = text /\ row' = row + 1
     ELSE /\ lines' = [r \in 0 .. ROWS - 1 |->
                        IF r < ROWS - 1 THEN text[r + 1] ELSE BlankLine]
          /\ row' = row

Write(cell) ==
  LET text == [lines EXCEPT ![row][col] = cell]
  IN  IF col = COLS - 1
      THEN LineFeed(text)
      ELSE lines' = text /\ col' = col + 1 /\ row' = row

NewLine == LineFeed(lines)

CarriageReturn == col' = 0 /\ UNCHANGED <<lines, row>>

(* The character before the cursor goes, also if it ends the line above.   *)
Backspace(attr) ==
  LET blank == [ch |-> 32, attr |-> attr] IN
  \/ /\ col > 0
     /\ lines' = [lines EXCEPT ![row][col - 1] = blank]
     /\ col' = col - 1
     /\ row' = row
  \/ /\ col = 0 /\ row > 0
     /\ lines' = [lines EXCEPT ![row - 1][COLS - 1] = blank]
     /\ col' = COLS - 1
     /\ row' = row - 1
  \/ col = 0 /\ row = 0 /\ UNCHANGED vars

Attr(colour) == IF colour = 0 THEN 7 ELSE colour

Init ==
  /\ lines \in [0 .. ROWS - 1 -> [0 .. COLS - 1 -> [ch : BootGlyphs, attr : {7}]]]
  /\ row \in 0 .. ROWS - 1
  /\ col \in 0 .. COLS - 1

Next ==
  \/ NewLine \/ CarriageReturn
  \/ \E colour \in Colours :
       \/ Backspace(Attr(colour))
       \/ \E ch \in Glyphs : Write([ch |-> ch, attr |-> Attr(colour)])

Spec == Init /\ [][Next]_vars
=============================================================================
