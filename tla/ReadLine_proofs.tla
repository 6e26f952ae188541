-------------------------- MODULE ReadLine_proofs --------------------------
(***************************************************************************)
(* Proofs that what is in front of the cursor while a line is edited is    *)
(* that line, for a screen and a line buffer of any size that a full line  *)
(* fits on with a line of the screen to spare.                             *)
(*                                                                         *)
(* The three lemmas about Show carry the argument: printing a glyph moves  *)
(* what is shown k places before the cursor to k + 1, scrolling or not, as *)
(* long as that is on the screen; a backspace moves it to k - 1.           *)
(*                                                                         *)
(* The last part is about the screen alone: the buffer with its one index  *)
(* is a terminal of lines, which is arithmetic of rows and columns.        *)
(***************************************************************************)
EXTENDS ReadLine, TLAPS

(* While the prompt is printed, what is printed of it is on the screen.    *)
PromptShown ==
  pc = "prompt" => \A k \in 1 .. n : Shown(k, Prompt[n + 1 - k])

(* Where the program can be; only the monitor prints tabs.                 *)
ControlOK ==
  /\ pc \in {"output", "prompt", "edit"}
  /\ n \in 0 .. Len(Prompt)
  /\ spaces > 0 => pc = "output"

IInv ==
  /\ ScreenTypeOK
  /\ LineIsString
  /\ ControlOK
  /\ PromptShown
  /\ ScreenShowsLine

-----------------------------------------------------------------------------
(* The screen has at least one line.                                       *)
LEMMA SizeFacts ==
  /\ CRT_SIZE \in Nat
  /\ CRT_COLS \in Nat \ {0}
  /\ CRT_COLS <= CRT_SIZE
PROOF
<1>1. PICK r \in Nat : CRT_ROWS = r + 1
  <2>1. CRT_ROWS - 1 \in Nat /\ CRT_ROWS = (CRT_ROWS - 1) + 1
    BY SizeAssumption
  <2> QED BY <2>1
<1>2. (r + 1) * CRT_COLS = r * CRT_COLS + CRT_COLS /\ r * CRT_COLS \in Nat
  BY SizeAssumption
<1> QED BY <1>1, <1>2, SizeAssumption DEF CRT_SIZE

(* The column of a position is less than a line and not beyond the         *)
(* position.                                                               *)
LEMMA ModFacts ==
  ASSUME NEW p \in Nat, NEW d \in Nat \ {0}
  PROVE  p % d \in 0 .. d - 1 /\ p % d <= p
PROOF
<1>1. p % d \in 0 .. d - 1
  OBVIOUS
<1>2. CASE p < d
  BY <1>1, <1>2
<1>3. CASE p >= d
  BY <1>1, <1>3
<1> QED BY <1>1, <1>2, <1>3

(* The part of the screen's type that Show depends on.                     *)
ScreenOK ==
  /\ crt_pos \in 0 .. CRT_SIZE - 1
  /\ crt_buf \in [0 .. CRT_SIZE - 1 -> Cells]

(* Scrolling brings a cursor that is less than a line beyond the end back. *)
LEMMA ScrollType ==
  ASSUME NEW text \in [0 .. CRT_SIZE - 1 -> Cells],
         NEW pos \in 0 .. CRT_SIZE + CRT_COLS - 1,
         ScrollTo(text, pos)
  PROVE  ScreenOK'
PROOF
<1>1. Blank \in Cells
  BY GlyphsAssumption DEF Blank, Cells
<1> QED BY <1>1, SizeFacts DEF ScrollTo, ScreenOK

(* cga_putc keeps the cursor on the screen.                                *)
LEMMA PutcType ==
  ASSUME ScreenOK, NEW ch, NEW colour \in Nat, cga_putc(ch, colour)
  PROVE  ScreenOK'
PROOF
<1>1. Attr(colour) \in Nat
  BY DEF Attr
<1>2. CASE ch = BS /\ crt_pos > 0 /\
           ScrollTo([crt_buf EXCEPT ![crt_pos - 1] =
                      [ch |-> SP, attr |-> Attr(colour)]], crt_pos - 1)
  <2>1. [ch |-> SP, attr |-> Attr(colour)] \in Cells
    BY <1>1, GlyphsAssumption DEF Cells
  <2>2. [crt_buf EXCEPT ![crt_pos - 1] = [ch |-> SP, attr |-> Attr(colour)]]
          \in [0 .. CRT_SIZE - 1 -> Cells]
    BY <2>1 DEF ScreenOK
  <2>3. crt_pos - 1 \in 0 .. CRT_SIZE + CRT_COLS - 1
    BY <1>2, SizeFacts DEF ScreenOK
  <2> QED BY <1>2, <2>2, <2>3, ScrollType
<1>3. CASE ch = NL /\ ScrollTo(crt_buf, LineStart(crt_pos + CRT_COLS))
  <2>1. LineStart(crt_pos + CRT_COLS) \in 0 .. CRT_SIZE + CRT_COLS - 1
    <3>1. /\ crt_pos + CRT_COLS \in Nat
          /\ (crt_pos + CRT_COLS) % CRT_COLS \in 0 .. CRT_COLS - 1
      BY SizeFacts, ModFacts DEF ScreenOK
    <3> QED BY <3>1, SizeFacts DEF LineStart, ScreenOK
  <2> QED BY <1>3, <2>1, ScrollType DEF ScreenOK
<1>4. CASE ch = CR /\ ScrollTo(crt_buf, LineStart(crt_pos))
  <2>1. LineStart(crt_pos) \in 0 .. CRT_SIZE + CRT_COLS - 1
    <3>1. crt_pos \in Nat
      BY SizeFacts DEF ScreenOK
    <3>2. /\ crt_pos % CRT_COLS \in 0 .. CRT_COLS - 1
          /\ crt_pos % CRT_COLS <= crt_pos
      BY <3>1, SizeFacts, ModFacts
    <3> QED BY <3>1, <3>2, SizeFacts DEF LineStart, ScreenOK
  <2> QED BY <1>4, <2>1, ScrollType DEF ScreenOK
<1>5. CASE ch \in Glyphs /\
           ScrollTo([crt_buf EXCEPT ![crt_pos] =
                      [ch |-> ch, attr |-> Attr(colour)]], crt_pos + 1)
  <2>1. [crt_buf EXCEPT ![crt_pos] = [ch |-> ch, attr |-> Attr(colour)]]
          \in [0 .. CRT_SIZE - 1 -> Cells]
    BY <1>1, <1>5 DEF ScreenOK, Cells
  <2>2. crt_pos + 1 \in 0 .. CRT_SIZE + CRT_COLS - 1
    BY SizeFacts DEF ScreenOK
  <2> QED BY <1>5, <2>1, <2>2, ScrollType
<1>6. CASE ScrollTo(crt_buf, crt_pos)
  BY <1>6, SizeFacts, ScrollType DEF ScreenOK
<1> QED BY <1>2, <1>3, <1>4, <1>5, <1>6 DEF cga_putc

(* A glyph appears in front of the cursor, and what is before it one place *)
(* further, as long as that is within the screen less a line.              *)
LEMMA PutcGlyph ==
  ASSUME ScreenOK, NEW ch \in Glyphs, NEW colour \in Nat, cga_putc(ch, colour)
  PROVE  /\ 1 <= CRT_SIZE - CRT_COLS => Shown(1, ch)'
         /\ \A k \in Nat \ {0}, x \in Glyphs :
              k + 1 <= CRT_SIZE - CRT_COLS /\ Shown(k, x) => Shown(k + 1, x)'
PROOF
<1> DEFINE cell == [ch |-> ch, attr |-> Attr(colour)]
           text == [crt_buf EXCEPT ![crt_pos] = cell]
<1>1. ScrollTo(text, crt_pos + 1)
  BY GlyphsAssumption DEF cga_putc
<1>2. text[crt_pos].ch = ch
  BY DEF ScreenOK
<1>3. \A k \in 0 .. CRT_SIZE - 1 : k # crt_pos => text[k] = crt_buf[k]
  BY DEF ScreenOK
<1> HIDE DEF text
<1>4. CASE crt_pos + 1 < CRT_SIZE
  <2>1. crt_pos' = crt_pos + 1 /\ crt_buf' = text
    BY <1>1, <1>4 DEF ScrollTo
  <2> QED BY <2>1, <1>2, <1>3, SizeFacts DEF Shown, ScreenOK
<1>5. CASE crt_pos + 1 = CRT_SIZE
  <2>1. /\ crt_pos' = CRT_SIZE - CRT_COLS
        /\ \A k \in 0 .. CRT_SIZE - CRT_COLS - 1 : crt_buf'[k] = text[k + CRT_COLS]
    BY <1>1, <1>5, SizeFacts DEF ScrollTo, ScreenOK
  <2>2. ASSUME 1 <= CRT_SIZE - CRT_COLS PROVE Shown(1, ch)'
    <3>1. crt_buf'[CRT_SIZE - CRT_COLS - 1] = text[crt_pos]
      BY <2>1, <2>2, <1>5, SizeFacts DEF ScreenOK
    <3> QED BY <1>2, <2>1, <2>2, <3>1, SizeFacts DEF Shown
  <2>3. ASSUME NEW k \in Nat \ {0}, NEW x \in Glyphs,
               k + 1 <= CRT_SIZE - CRT_COLS, Shown(k, x)
        PROVE  Shown(k + 1, x)'
    <3>1. crt_buf'[CRT_SIZE - CRT_COLS - (k + 1)] = crt_buf[crt_pos - k]
      <4> DEFINE m == CRT_SIZE - CRT_COLS - (k + 1)
      <4>1. /\ m \in 0 .. CRT_SIZE - CRT_COLS - 1
            /\ m + CRT_COLS = crt_pos - k
            /\ crt_pos - k \in 0 .. CRT_SIZE - 1 /\ crt_pos - k # crt_pos
        BY <2>3, <1>5, SizeFacts DEF ScreenOK
      <4> QED BY <4>1, <2>1, <1>3
    <3> QED BY <2>1, <2>3, <3>1, SizeFacts DEF Shown
  <2> QED BY <2>2, <2>3
<1> QED BY <1>4, <1>5, SizeFacts DEF ScreenOK

(* A backspace takes away the last character only.                         *)
LEMMA PutcBackspace ==
  ASSUME ScreenOK, NEW colour \in Nat, cga_putc(BS, colour), crt_pos > 0
  PROVE  \A k \in Nat \ {0}, x \in Glyphs : Shown(k + 1, x) => Shown(k, x)'
PROOF
<1> DEFINE cell == [ch |-> SP, attr |-> Attr(colour)]
<1>1. BS # NL /\ BS # CR /\ BS # TAB /\ BS \notin Glyphs
  BY GlyphsAssumption DEF BS, NL, CR, TAB
<1>2. ScrollTo([crt_buf EXCEPT ![crt_pos - 1] = cell], crt_pos - 1)
  BY <1>1 DEF cga_putc, ScreenOK
<1>3. /\ crt_pos' = crt_pos - 1
      /\ crt_buf' = [crt_buf EXCEPT ![crt_pos - 1] = cell]
  BY <1>2, SizeFacts DEF ScrollTo, ScreenOK
<1> QED BY <1>3, SizeFacts DEF Shown, ScreenOK

-----------------------------------------------------------------------------
(* IInv holds at the start: nothing is printed or typed yet.               *)
LEMMA InitIInv == Init => IInv
PROOF
<1> SUFFICES ASSUME Init PROVE IInv
  OBVIOUS
<1>1. ScreenTypeOK
  BY GlyphsAssumption, SizeFacts DEF Init, ScreenInit, ScreenTypeOK, Cells
<1> QED BY <1>1, LineAssumption
        DEF Init, ScreenInit, IInv, LineIsString, ControlOK, PromptShown, ScreenShowsLine

(* Printing keeps the screen's type.                                       *)
LEMMA PrintType ==
  ASSUME ScreenTypeOK, NEW ch, NEW colour \in Nat, cons_putc(ch, colour)
  PROVE  ScreenOK /\ ScreenTypeOK' /\ cga_putc(ch, colour)
  BY PutcType DEF ScreenTypeOK, ScreenOK, cons_putc

(* The monitor's printing disturbs nothing: no line is being edited.       *)
LEMMA OutputIInv == IInv /\ (Output \/ Tab) => IInv'
PROOF
<1>1. ASSUME IInv, Output PROVE IInv'
  <2>1. PICK ch \in OutputChars, colour \in Colours : cons_putc(ch, colour)
    BY <1>1 DEF Output
  <2>2. ScreenTypeOK'
    BY <1>1, <2>1, ColoursAssumption, PrintType DEF IInv
  <2>3. UNCHANGED <<buf, i, pc, n>> /\ pc = "output"
    BY <1>1 DEF Output
  <2> QED BY <1>1, <2>2, <2>3
          DEF IInv, LineIsString, ControlOK, PromptShown, ScreenShowsLine
<1>2. ASSUME IInv, Tab PROVE IInv'
  <2>1. ScreenTypeOK'
    BY <1>2, PutcType DEF IInv, ScreenTypeOK, ScreenOK, Tab, TabSpace
  <2>2. UNCHANGED <<buf, i, pc, n>> /\ pc = "output"
    BY <1>2 DEF IInv, ControlOK, ScreenTypeOK, Tab, TabSpace
  <2> QED BY <1>2, <2>1, <2>2
          DEF IInv, LineIsString, ControlOK, PromptShown, ScreenShowsLine
<1> QED BY <1>1, <1>2

(* Calling readline and printing the prompt.                               *)
LEMMA PromptIInv == IInv /\ (CallReadline \/ PrintPrompt) => IInv'
PROOF
<1> USE DEF IInv
<1>1. ASSUME IInv, CallReadline PROVE IInv'
  BY <1>1, LineAssumption
  DEF CallReadline, screenVars, ScreenTypeOK, LineIsString, ControlOK,
      PromptShown, ScreenShowsLine
<1>2. ASSUME IInv, pc = "prompt", n < Len(Prompt), cons_putc(Prompt[n + 1], 0),
             n' = n + 1, UNCHANGED <<i, pc, buf>>
      PROVE  IInv'
  <2> DEFINE ch == Prompt[n + 1]
  <2>1. ch \in Glyphs /\ ch # TAB /\ n \in Nat /\ Len(Prompt) \in Nat
    BY <1>2, LineAssumption, GlyphsAssumption DEF ControlOK
  <2>2. ScreenOK /\ ScreenTypeOK' /\ cga_putc(ch, 0)
    BY <1>2, PrintType
  <2>3. spaces' = 0
    BY <1>2, <2>1 DEF cons_putc
  <2>4. ControlOK' /\ LineIsString' /\ ScreenShowsLine'
    BY <1>2, <2>1, <2>3 DEF ControlOK, LineIsString, ScreenShowsLine
  <2>5. ASSUME NEW k \in 1 .. n + 1 PROVE Shown(k, Prompt[n + 1 - k])'
    <3>1. k <= CRT_SIZE - CRT_COLS
      BY <1>2, <2>1, FitsAssumption, LineAssumption, SizeFacts
    <3>2. PICK x \in Glyphs : x = Prompt[n + 2 - k]
      BY <1>2, <2>1, LineAssumption
    <3>3. Shown(k, x)'
      <4>1. CASE k = 1
        <5>1. x = ch
          BY <2>1, <3>2, <4>1
        <5>2. Shown(1, x)'
          BY <2>1, <2>2, <3>1, <4>1, <5>1, PutcGlyph
        <5> QED BY <4>1, <5>2
      <4>2. CASE k > 1
        <5>1. /\ k - 1 \in Nat \ {0} /\ k - 1 \in 1 .. n
              /\ (k - 1) + 1 = k /\ n + 1 - (k - 1) = n + 2 - k
          BY <1>2, <2>1, <4>2
        <5>2. Shown(k - 1, x)
          BY <1>2, <3>2, <5>1 DEF PromptShown
        <5>3. Shown((k - 1) + 1, x)'
          BY <2>1, <2>2, <3>1, <5>1, <5>2, PutcGlyph
        <5> QED BY <5>1, <5>3
      <4> QED BY <4>1, <4>2
    <3>4. n' + 1 - k = n + 2 - k
      BY <1>2, <2>1
    <3> QED BY <3>2, <3>3, <3>4 DEF Shown
  <2>6. PromptShown'
    BY <1>2, <2>5 DEF PromptShown
  <2> QED BY <2>2, <2>4, <2>6
<1>3. ASSUME IInv, pc = "prompt", n = Len(Prompt), i' = 0, pc' = "edit",
             UNCHANGED <<screenVars, n, buf>>
      PROVE  IInv'
  <2>1. ScreenTypeOK' /\ ControlOK' /\ LineIsString' /\ PromptShown'
    BY <1>3, LineAssumption
    DEF screenVars, ScreenTypeOK, ControlOK, LineIsString, PromptShown
  <2>2. ScreenShowsLine'
    <3>1. \A k \in 1 .. Len(Prompt) : Shown(k, Prompt[Len(Prompt) + 1 - k])
      BY <1>3 DEF PromptShown
    <3>2. \A k \in 1 .. Len(Prompt) : 0 + k = k
      OBVIOUS
    <3> QED BY <1>3, <3>1, <3>2 DEF ScreenShowsLine, screenVars, Shown
  <2> QED BY <2>1, <2>2
<1> QED BY <1>1, <1>2, <1>3 DEF PrintPrompt

-----------------------------------------------------------------------------
(* Rubbing out shortens the line and what is shown of it alike.            *)
LEMMA RuboutIInv ==
  ASSUME IInv, pc = "edit", NEW c \in InputChars, Rubout(c), UNCHANGED n
  PROVE  IInv'
PROOF
<1>1. /\ i \in 1 .. BUFLEN - 1 /\ i' = i - 1 /\ cons_putc(BS, 0)
      /\ UNCHANGED <<buf, pc, n>>
  BY DEF IInv, LineIsString, Rubout, Rubs
<1>2. ScreenOK /\ ScreenTypeOK' /\ cga_putc(BS, 0) /\ spaces' = 0
  BY <1>1, PrintType DEF IInv, cons_putc, BS, TAB
<1>3. \A k \in 1 .. i : Shown(k, buf[i - k]) /\ buf[i - k] \in Glyphs
  BY <1>1 DEF IInv, ScreenShowsLine, LineIsString
<1>4. crt_pos > 0
  BY <1>1, <1>2, <1>3 DEF Shown, ScreenOK
<1>5. \A k \in Nat \ {0}, x \in Glyphs : Shown(k + 1, x) => Shown(k, x)'
  BY <1>2, <1>4, PutcBackspace
<1>6. ASSUME NEW k \in 1 .. i - 1 PROVE Shown(k, buf[i - k])'
  <2>1. PICK x \in Glyphs : x = buf[i - (k + 1)] /\ Shown(k + 1, x)
    BY <1>1, <1>3
  <2>2. Shown(k, x)'
    BY <1>5, <2>1
  <2>3. buf'[i' - k] = x
    BY <1>1, <2>1
  <2> QED BY <2>2, <2>3 DEF Shown
<1>7. ASSUME NEW k \in 1 .. Len(Prompt)
      PROVE  Shown(i + k, Prompt[Len(Prompt) + 1 - k])'
  <2>1. PICK x \in Glyphs : x = Prompt[Len(Prompt) + 1 - k]
    BY LineAssumption
  <2>2. Shown(i + k, x)
    BY <2>1 DEF IInv, ScreenShowsLine
  <2>3. PICK m \in Nat \ {0} : m = i - 1 + k
    BY <1>1, LineAssumption
  <2>4. Shown(m, x)'
    <3>1. m + 1 = i + k
      BY <1>1, <2>3, LineAssumption
    <3> QED BY <1>5, <2>2, <3>1
  <2>5. i' + k = m
    BY <1>1, <2>3
  <2> QED BY <2>1, <2>4, <2>5 DEF Shown
<1>8. LineIsString'
  <2>1. i' \in 0 .. BUFLEN - 1 /\ \A k \in 0 .. i' - 1 : k \in 0 .. i - 1
    BY <1>1, LineAssumption
  <2> QED BY <1>1, <2>1 DEF IInv, LineIsString
<1>9. ControlOK' /\ PromptShown'
  BY <1>1, <1>2 DEF IInv, ControlOK, PromptShown
<1>10. ScreenShowsLine'
  BY <1>1, <1>6, <1>7 DEF ScreenShowsLine
<1> QED BY <1>2, <1>8, <1>9, <1>10 DEF IInv

(* A character typed is the last of the line and in front of the cursor.   *)
LEMMA InsertIInv ==
  ASSUME IInv, pc = "edit", NEW c \in InputChars, Insert(c), UNCHANGED n
  PROVE  IInv'
PROOF
<1>1. /\ i \in 0 .. BUFLEN - 2 /\ i' = i + 1 /\ cons_putc(c, 0)
      /\ buf' = [buf EXCEPT ![i] = c] /\ c \in Glyphs
      /\ UNCHANGED <<pc, n>>
  BY LineAssumption DEF IInv, LineIsString, Insert, HasRoom
<1>2. ScreenOK /\ ScreenTypeOK' /\ cga_putc(c, 0) /\ spaces' = 0
  BY <1>1, PrintType, GlyphsAssumption DEF IInv, cons_putc
<1>3. i + Len(Prompt) + 1 <= CRT_SIZE - CRT_COLS /\ Len(Prompt) \in Nat
  BY <1>1, FitsAssumption, LineAssumption, SizeFacts
<1>4. Shown(1, c)'
  BY <1>1, <1>2, <1>3, SizeFacts, PutcGlyph
<1>5. ASSUME NEW k \in Nat \ {0}, NEW x \in Glyphs, k <= i + Len(Prompt), Shown(k, x)
      PROVE  Shown(k + 1, x)'
  <2>1. k + 1 <= CRT_SIZE - CRT_COLS
    BY <1>1, <1>3, <1>5, SizeFacts
  <2> QED BY <1>1, <1>2, <1>5, <2>1, PutcGlyph
<1>6. ASSUME NEW k \in 1 .. i + 1 PROVE Shown(k, buf[i - k])'
  <2>1. CASE k = 1
    <3>1. buf'[i' - k] = c
      BY <1>1, <2>1 DEF IInv, LineIsString
    <3> QED BY <1>4, <2>1, <3>1 DEF Shown
  <2>2. CASE k > 1
    <3>1. k - 1 \in 1 .. i /\ k - 1 \in Nat \ {0} /\ (k - 1) + 1 = k
          /\ k - 1 <= i + Len(Prompt)
      BY <1>1, <1>3, <2>2
    <3>2. PICK x \in Glyphs : x = buf[i - (k - 1)] /\ Shown(k - 1, x)
      BY <1>1, <3>1 DEF IInv, ScreenShowsLine, LineIsString
    <3>3. Shown(k, x)'
      BY <1>5, <3>1, <3>2
    <3>4. buf'[i' - k] = x
      BY <1>1, <3>1, <3>2 DEF IInv, LineIsString
    <3> QED BY <3>3, <3>4 DEF Shown
  <2> QED BY <1>1, <2>1, <2>2
<1>7. ASSUME NEW k \in 1 .. Len(Prompt)
      PROVE  Shown(i + k, Prompt[Len(Prompt) + 1 - k])'
  <2>1. PICK x \in Glyphs : x = Prompt[Len(Prompt) + 1 - k]
    BY LineAssumption
  <2>2. Shown(i + k, x)
    BY <2>1 DEF IInv, ScreenShowsLine
  <2>3. i + k \in Nat \ {0} /\ i + k <= i + Len(Prompt) /\ (i + k) + 1 = i' + k
    BY <1>1, <1>3
  <2>4. PICK m \in Nat \ {0} : m = i + k
    BY <2>3
  <2>5. Shown(m + 1, x)'
    BY <1>5, <2>2, <2>3, <2>4
  <2> QED BY <2>1, <2>3, <2>4, <2>5 DEF Shown
<1>8. LineIsString'
  <2>1. buf' \in [0 .. BUFLEN - 1 -> Glyphs \cup {0}] /\ i' \in 0 .. BUFLEN - 1
    BY <1>1, LineAssumption DEF IInv, LineIsString
  <2>2. ASSUME NEW k \in 0 .. i' - 1 PROVE buf'[k] \in Glyphs
    BY <1>1, <2>2, LineAssumption DEF IInv, LineIsString
  <2> QED BY <1>1, <2>1, <2>2 DEF LineIsString
<1>9. ControlOK' /\ PromptShown'
  BY <1>1, <1>2 DEF IInv, ControlOK, PromptShown
<1>10. ScreenShowsLine'
  BY <1>1, <1>6, <1>7 DEF ScreenShowsLine
<1> QED BY <1>2, <1>8, <1>9, <1>10 DEF IInv

(* Return ends the line, and the editing.                                  *)
LEMMA EnterIInv ==
  ASSUME IInv, pc = "edit", NEW c \in InputChars, Enter(c), UNCHANGED n
  PROVE  IInv'
PROOF
<1>1. ScreenTypeOK' /\ spaces' = 0
  BY PrintType DEF IInv, Enter, cons_putc, NL, TAB
<1> QED BY <1>1 DEF IInv, Enter, LineIsString, ControlOK, PromptShown, ScreenShowsLine

(* IInv is inductive.                                                      *)
LEMMA NextIInv == IInv /\ [Next]_vars => IInv'
PROOF
<1>1. ASSUME IInv, Edit PROVE IInv'
  BY <1>1, RuboutIInv, InsertIInv, EnterIInv DEF Edit
<1>2. ASSUME IInv, UNCHANGED vars PROVE IInv'
  BY <1>2
  DEF vars, screenVars, IInv, ScreenTypeOK, LineIsString, ControlOK, PromptShown,
      ScreenShowsLine, Shown
<1> QED BY <1>1, <1>2, OutputIInv, PromptIInv DEF Next

(* What the user sees in front of the cursor is the prompt and the line    *)
(* readline will return, whatever was typed (readline.c, cga_putc).        *)
THEOREM WhatYouSee == Spec => []ScreenShowsLine
  BY InitIInv, NextIInv, PTL DEF Spec, IInv

(* readline stays within its buffer and returns a string in it.            *)
THEOREM LineCorrect == Spec => []LineIsString
  BY InitIInv, NextIInv, PTL DEF Spec, IInv

(* The cursor stays on the screen, and cga_putc within crt_buf.            *)
THEOREM CursorOnScreen == Spec => []ScreenTypeOK
  BY InitIInv, NextIInv, PTL DEF Spec, IInv

-----------------------------------------------------------------------------
(* The flat buffer as lines.                                               *)

(* Row and column of the cursor, and the lines a buffer makes.             *)
Row == crt_pos \div CRT_COLS
Col == crt_pos % CRT_COLS
Lines(text) == [r \in 0 .. CRT_ROWS - 1 |-> [c \in 0 .. CRT_COLS - 1 |-> text[r * CRT_COLS + c]]]

(* Quotient and remainder.                                                 *)
LEMMA Division ==
  ASSUME NEW a \in Int, NEW d \in Nat \ {0}
  PROVE  /\ a \div d \in Int /\ a % d \in 0 .. d - 1
         /\ a = (a \div d) * d + (a % d)
PROOF
<1>1. a \div d \in Int
  OBVIOUS
<1>2. a % d \in 0 .. d - 1
  OBVIOUS
<1>3. a = (a \div d) * d + (a % d)
  OBVIOUS
<1> QED BY <1>1, <1>2, <1>3

(* The multiples of d are ordered as their factors are.                    *)
LEMMA Multiples ==
  ASSUME NEW a \in Int, NEW b \in Int, NEW d \in Nat \ {0}
  PROVE  /\ a * d \in Int
         /\ a <= b <=> a * d <= b * d
         /\ a < b <=> a * d + d <= b * d
         /\ (a + 1) * d = a * d + d
         /\ (a - 1) * d = a * d - d
  OBVIOUS

(* Position p is in row r and column c.                                    *)
At(p, r, c) ==
  /\ p \in 0 .. CRT_SIZE - 1 /\ r \in Int /\ c \in 0 .. CRT_COLS - 1
  /\ p = r * CRT_COLS + c

(* A position is the place its row and its column say, and no other.       *)
LEMMA PlaceOf ==
  ASSUME NEW p \in 0 .. CRT_SIZE - 1
  PROVE  /\ p \div CRT_COLS \in 0 .. CRT_ROWS - 1 /\ p % CRT_COLS \in 0 .. CRT_COLS - 1
         /\ p = (p \div CRT_COLS) * CRT_COLS + (p % CRT_COLS)
PROOF
<1> DEFINE r == p \div CRT_COLS
           c == p % CRT_COLS
<1>1. r \in Int /\ c \in 0 .. CRT_COLS - 1 /\ p = r * CRT_COLS + c
  BY SizeFacts, Division
<1>2. CRT_SIZE \in Nat /\ CRT_COLS \in Nat \ {0} /\ CRT_ROWS \in Nat \ {0}
  BY SizeFacts, SizeAssumption
<1> HIDE DEF r, c
<1> DEFINE m == r * CRT_COLS
           s == CRT_ROWS * CRT_COLS
<1>3. m \in Int /\ p = m + c /\ s = CRT_SIZE
  BY <1>1, <1>2, Multiples DEF CRT_SIZE
<1>4. r < 0 => m + CRT_COLS <= 0
  <2>1. r < 0 => r * CRT_COLS + CRT_COLS <= 0 * CRT_COLS
    BY <1>1, <1>2, Multiples
  <2> QED BY <2>1, <1>2
<1>5. CRT_ROWS <= r => s <= m
  BY <1>1, <1>2, Multiples
<1> HIDE DEF m, s
<1>6. r >= 0 /\ r < CRT_ROWS
  BY <1>1, <1>2, <1>3, <1>4, <1>5
<1>7. r \in 0 .. CRT_ROWS - 1
  BY <1>1, <1>2, <1>6
<1> QED BY <1>1, <1>7 DEF r, c

(* And every place has its position.                                       *)
LEMMA PlaceAt ==
  ASSUME NEW r \in Int, NEW c \in 0 .. CRT_COLS - 1
  PROVE  /\ r * CRT_COLS + c \in Int
         /\ (r * CRT_COLS + c) \div CRT_COLS = r /\ (r * CRT_COLS + c) % CRT_COLS = c
         /\ r \in 0 .. CRT_ROWS - 1 <=> r * CRT_COLS + c \in 0 .. CRT_SIZE - 1
PROOF
<1>1. CRT_SIZE \in Nat /\ CRT_COLS \in Nat \ {0} /\ CRT_ROWS \in Nat \ {0}
  BY SizeFacts, SizeAssumption
<1>2. r * CRT_COLS + c \in Int
  BY <1>1
<1>3. (r * CRT_COLS + c) \div CRT_COLS = r /\ (r * CRT_COLS + c) % CRT_COLS = c
  BY <1>1
<1>4. ASSUME r \in 0 .. CRT_ROWS - 1
      PROVE  r * CRT_COLS + c \in 0 .. CRT_SIZE - 1
  <2>1. 0 * CRT_COLS <= r * CRT_COLS /\ r * CRT_COLS + CRT_COLS <= CRT_ROWS * CRT_COLS
    BY <1>1, <1>4, Multiples
  <2> DEFINE m == r * CRT_COLS
  <2>2. m \in Int /\ 0 <= m /\ m + CRT_COLS <= CRT_SIZE
    BY <2>1, <1>1, Multiples DEF CRT_SIZE
  <2> HIDE DEF m
  <2>3. m + c \in 0 .. CRT_SIZE - 1
    BY <2>2, <1>1
  <2> QED BY <2>3 DEF m
<1>5. ASSUME r * CRT_COLS + c \in 0 .. CRT_SIZE - 1
      PROVE  r \in 0 .. CRT_ROWS - 1
  BY <1>3, <1>5, PlaceOf
<1> QED BY <1>2, <1>3, <1>4, <1>5

(* new is text with one cell changed.                                      *)
Changed(text, new, p, r, c, cell) ==
  /\ text \in [0 .. CRT_SIZE - 1 -> Cells]
  /\ new = [text EXCEPT ![p] = cell]
  /\ At(p, r, c)

(* Writing one cell writes it in its line.                                 *)
LEMMA LinesExcept ==
  ASSUME NEW text, NEW new, NEW p, NEW r, NEW c, NEW cell, Changed(text, new, p, r, c, cell)
  PROVE  Lines(new) = [Lines(text) EXCEPT ![r][c] = cell]
PROOF
<1> USE DEF Changed
<1>0. p \in 0 .. CRT_SIZE - 1 /\ r \in Int /\ c \in 0 .. CRT_COLS - 1 /\ p = r * CRT_COLS + c
  BY DEF At
<1>1. r \in 0 .. CRT_ROWS - 1
  BY <1>0, PlaceAt
<1>2. ASSUME NEW q \in 0 .. CRT_ROWS - 1, NEW d \in 0 .. CRT_COLS - 1
      PROVE  new[q * CRT_COLS + d] =
               IF q = r /\ d = c THEN cell ELSE text[q * CRT_COLS + d]
  <2>1. q * CRT_COLS + d \in 0 .. CRT_SIZE - 1
    BY PlaceAt
  <2>2. q * CRT_COLS + d = p => q = r /\ d = c
    BY <1>0, PlaceAt
  <2> QED BY <2>1, <2>2, <1>0
<1> HIDE DEF Changed
<1>3. ASSUME NEW q \in 0 .. CRT_ROWS - 1
      PROVE  Lines(new)[q] = [Lines(text) EXCEPT ![r][c] = cell][q]
  <2>1. /\ Lines(new)[q] = [d \in 0 .. CRT_COLS - 1 |-> new[q * CRT_COLS + d]]
        /\ Lines(text)[q] = [d \in 0 .. CRT_COLS - 1 |-> text[q * CRT_COLS + d]]
    BY DEF Lines
  <2>2. [Lines(text) EXCEPT ![r][c] = cell][q]
          = IF q = r THEN [Lines(text)[q] EXCEPT ![c] = cell] ELSE Lines(text)[q]
    BY <1>1 DEF Lines
  <2>3. CASE q = r
    <3>1. Lines(new)[q] = [[d \in 0 .. CRT_COLS - 1 |-> text[q * CRT_COLS + d]] EXCEPT ![c] = cell]
      BY <2>1, <2>3, <1>2
    <3> QED BY <3>1, <2>1, <2>2, <2>3
  <2>4. CASE q # r
    <3>1. Lines(new)[q] = [d \in 0 .. CRT_COLS - 1 |-> text[q * CRT_COLS + d]]
      BY <2>1, <2>4, <1>2
    <3> QED BY <3>1, <2>1, <2>2, <2>4
  <2> QED BY <2>3, <2>4
<1>4. /\ Lines(new) = [q \in 0 .. CRT_ROWS - 1 |-> Lines(new)[q]]
      /\ [Lines(text) EXCEPT ![r][c] = cell]
           = [q \in 0 .. CRT_ROWS - 1 |-> [Lines(text) EXCEPT ![r][c] = cell][q]]
  BY <1>1 DEF Lines
<1> QED BY <1>3, <1>4

(* Scrolling moves every line up one.                                      *)
LEMMA LinesScrolled ==
  ASSUME NEW text \in [0 .. CRT_SIZE - 1 -> Cells]
  PROVE  Lines([k \in 0 .. CRT_SIZE - 1 |->
                  IF k < CRT_SIZE - CRT_COLS THEN text[k + CRT_COLS] ELSE Blank])
           = [r \in 0 .. CRT_ROWS - 1 |->
                IF r < CRT_ROWS - 1 THEN Lines(text)[r + 1]
                ELSE [c \in 0 .. CRT_COLS - 1 |-> Blank]]
PROOF
<1> DEFINE new == [k \in 0 .. CRT_SIZE - 1 |->
                     IF k < CRT_SIZE - CRT_COLS THEN text[k + CRT_COLS] ELSE Blank]
<1>1. CRT_SIZE \in Nat /\ CRT_COLS \in Nat \ {0} /\ CRT_ROWS \in Nat \ {0}
  BY SizeFacts, SizeAssumption
<1>2. ASSUME NEW r \in 0 .. CRT_ROWS - 1, NEW c \in 0 .. CRT_COLS - 1
      PROVE  new[r * CRT_COLS + c] =
               IF r < CRT_ROWS - 1 THEN text[(r + 1) * CRT_COLS + c] ELSE Blank
  <2> DEFINE m == r * CRT_COLS
             k == r * CRT_COLS + c
  <2>1. /\ m \in Int /\ k = m + c /\ k \in 0 .. CRT_SIZE - 1
        /\ (r + 1) * CRT_COLS = m + CRT_COLS
    <3>1. k \in 0 .. CRT_SIZE - 1
      BY PlaceAt
    <3>2. m \in Int /\ (r + 1) * CRT_COLS = m + CRT_COLS
      BY <1>1, Multiples
    <3> QED BY <3>1, <3>2
  <2>2. r < CRT_ROWS - 1 <=> (r + 1) * CRT_COLS + c \in 0 .. CRT_SIZE - 1
    <3> DEFINE below == r + 1
    <3>1. below \in Int /\ (below \in 0 .. CRT_ROWS - 1 <=> r < CRT_ROWS - 1)
      BY <1>1
    <3> HIDE DEF below
    <3>2. below \in 0 .. CRT_ROWS - 1 <=> below * CRT_COLS + c \in 0 .. CRT_SIZE - 1
      BY <3>1, PlaceAt, Zenon
    <3> QED BY <3>1, <3>2 DEF below
  <2> HIDE DEF m, k
  <2>3. (r + 1) * CRT_COLS + c = k + CRT_COLS
    BY <2>1, <1>1
  <2>4. r < CRT_ROWS - 1 <=> k < CRT_SIZE - CRT_COLS
    BY <2>1, <2>2, <2>3, <1>1
  <2>5. new[k] = IF r < CRT_ROWS - 1 THEN text[(r + 1) * CRT_COLS + c] ELSE Blank
    BY <2>1, <2>3, <2>4
  <2> QED BY <2>5 DEF k
<1> HIDE DEF new
<1>3. ASSUME NEW r \in 0 .. CRT_ROWS - 1
      PROVE  Lines(new)[r] = IF r < CRT_ROWS - 1 THEN Lines(text)[r + 1]
                             ELSE [c \in 0 .. CRT_COLS - 1 |-> Blank]
  <2>1. CASE r < CRT_ROWS - 1
    <3>1. r + 1 \in 0 .. CRT_ROWS - 1
      BY <2>1, <1>1
    <3>2. Lines(text)[r + 1] = [c \in 0 .. CRT_COLS - 1 |-> text[(r + 1) * CRT_COLS + c]]
      BY <3>1 DEF Lines
    <3>3. Lines(new)[r] = [c \in 0 .. CRT_COLS - 1 |-> new[r * CRT_COLS + c]]
      BY DEF Lines
    <3> QED BY <2>1, <3>2, <3>3, <1>2
  <2>2. CASE ~(r < CRT_ROWS - 1)
    BY <2>2, <1>2 DEF Lines
  <2> QED BY <2>1, <2>2
<1>4. Lines(new) = [r \in 0 .. CRT_ROWS - 1 |-> Lines(new)[r]]
  BY DEF Lines
<1> QED BY <1>3, <1>4 DEF new

-----------------------------------------------------------------------------
(* Every call of cga_putc is a step of the terminal.                       *)

(* The cursor runs into the next line, and scrolls if there is none.       *)
LEMMA NextLine ==
  ASSUME ScreenOK, NEW text \in [0 .. CRT_SIZE - 1 -> Cells],
         NEW e, e = (Row + 1) * CRT_COLS, ScrollTo(text, e)
  PROVE  /\ crt_pos' % CRT_COLS = 0
         /\ IF Row < CRT_ROWS - 1
            THEN Lines(crt_buf') = Lines(text) /\ crt_pos' \div CRT_COLS = Row + 1
            ELSE /\ Lines(crt_buf') = [r \in 0 .. CRT_ROWS - 1 |->
                                        IF r < CRT_ROWS - 1 THEN Lines(text)[r + 1]
                                        ELSE [c \in 0 .. CRT_COLS - 1 |-> Blank]]
                 /\ crt_pos' \div CRT_COLS = Row
PROOF
<1> DEFINE m == Row * CRT_COLS
<1>1. CRT_SIZE \in Nat /\ CRT_COLS \in Nat \ {0} /\ CRT_ROWS \in Nat \ {0} /\ 0 \in 0 .. CRT_COLS - 1
  BY SizeFacts, SizeAssumption
<1>2. Row \in 0 .. CRT_ROWS - 1
  BY PlaceOf DEF ScreenOK, Row
<1>3. m \in Int /\ (Row + 1) * CRT_COLS = m + CRT_COLS /\ Row + 1 \in Int
  BY <1>1, <1>2, Multiples
<1>4. m + 0 = m /\ Row * CRT_COLS + 0 = m /\ m \div CRT_COLS = Row /\ m % CRT_COLS = 0
  <2>1. /\ (Row * CRT_COLS + 0) \div CRT_COLS = Row /\ (Row * CRT_COLS + 0) % CRT_COLS = 0
    BY <1>1, <1>2, PlaceAt, SMTT(30)
  <2>2. Row * CRT_COLS + 0 = m /\ m + 0 = m
    BY <1>3
  <2> QED BY <2>1, <2>2
<1>5. /\ ((Row + 1) * CRT_COLS) \div CRT_COLS = Row + 1 /\ ((Row + 1) * CRT_COLS) % CRT_COLS = 0
      /\ Row + 1 \in 0 .. CRT_ROWS - 1 <=> (Row + 1) * CRT_COLS \in 0 .. CRT_SIZE - 1
  <2>1. /\ ((Row + 1) * CRT_COLS + 0) \div CRT_COLS = Row + 1
        /\ ((Row + 1) * CRT_COLS + 0) % CRT_COLS = 0
        /\ Row + 1 \in 0 .. CRT_ROWS - 1 <=> (Row + 1) * CRT_COLS + 0 \in 0 .. CRT_SIZE - 1
    BY <1>1, <1>3, PlaceAt
  <2>2. (Row + 1) * CRT_COLS + 0 = (Row + 1) * CRT_COLS
    BY <1>1, <1>3
  <2> QED BY <2>1, <2>2
<1>6. e = m + CRT_COLS /\ e \in Int /\ e \div CRT_COLS = Row + 1 /\ e % CRT_COLS = 0 /\ ScrollTo(text, e)
      /\ (Row + 1 \in 0 .. CRT_ROWS - 1 <=> e \in 0 .. CRT_SIZE - 1)
  BY <1>1, <1>3, <1>5
<1>7. m >= 0
  <2>1. 0 * CRT_COLS <= Row * CRT_COLS
    BY <1>1, <1>2, Multiples
  <2> QED BY <2>1, <1>1
<1> HIDE DEF m
<1>8. Row < CRT_ROWS - 1 <=> e < CRT_SIZE
  BY <1>1, <1>2, <1>3, <1>6, <1>7
<1>9. CASE e < CRT_SIZE
  <2>1. crt_buf' = text /\ crt_pos' = e
    BY <1>6, <1>9 DEF ScrollTo
  <2> QED BY <2>1, <1>6, <1>8, <1>9
<1>10. CASE ~(e < CRT_SIZE)
  <2>1. /\ crt_buf' = [k \in 0 .. CRT_SIZE - 1 |->
                        IF k < CRT_SIZE - CRT_COLS THEN text[k + CRT_COLS] ELSE Blank]
        /\ crt_pos' = e - CRT_COLS
    BY <1>6, <1>10 DEF ScrollTo
  <2>2. crt_pos' = m
    BY <2>1, <1>1, <1>3, <1>6
  <2>3. Lines(crt_buf') = [r \in 0 .. CRT_ROWS - 1 |->
                            IF r < CRT_ROWS - 1 THEN Lines(text)[r + 1]
                            ELSE [c \in 0 .. CRT_COLS - 1 |-> Blank]]
    BY <2>1, LinesScrolled
  <2> QED BY <2>2, <2>3, <1>4, <1>8, <1>10
<1> QED BY <1>9, <1>10

(* So it does in the model of the terminal.                                *)
LEMMA TerminalFeeds ==
  Term!BlankLine = [c \in 0 .. CRT_COLS - 1 |-> Blank]
  BY DEF Term!BlankLine, Term!BlankCell, Blank, SP

(* Within a line only the cursor moves, and the text may change.           *)
LEMMA SameLine ==
  ASSUME NEW text, NEW r \in 0 .. CRT_ROWS - 1, NEW c \in 0 .. CRT_COLS - 1,
         NEW p, p = r * CRT_COLS + c, ScrollTo(text, p)
  PROVE  /\ Lines(crt_buf') = Lines(text)
         /\ crt_pos' \div CRT_COLS = r /\ crt_pos' % CRT_COLS = c
PROOF
<1>1. p \in 0 .. CRT_SIZE - 1 /\ p \div CRT_COLS = r /\ p % CRT_COLS = c
  <2>1. r \in Int
    BY SizeAssumption
  <2>2. /\ (r * CRT_COLS + c) \div CRT_COLS = r /\ (r * CRT_COLS + c) % CRT_COLS = c
        /\ r \in 0 .. CRT_ROWS - 1 <=> r * CRT_COLS + c \in 0 .. CRT_SIZE - 1
    BY <2>1, PlaceAt
  <2> QED BY <2>2
<1>2. CRT_SIZE \in Nat
  BY SizeFacts
<1>3. p < CRT_SIZE
  BY <1>1, <1>2
<1> QED BY <1>1, <1>3 DEF ScrollTo

(* cga_putc, case by case.                                                 *)
LEMMA PutcTerminal ==
  ASSUME ScreenOK, NEW ch, NEW colour \in Colours, cga_putc(ch, colour)
  PROVE  Term!Next \/ UNCHANGED Term!vars
PROOF
<1> DEFINE m == Row * CRT_COLS
           C == CRT_COLS
<1>1. CRT_SIZE \in Nat /\ C \in Nat \ {0} /\ CRT_ROWS \in Nat \ {0}
  BY SizeFacts, SizeAssumption
<1>2. /\ Row \in 0 .. CRT_ROWS - 1 /\ Col \in 0 .. C - 1
      /\ crt_pos = m + Col /\ m \in Int /\ crt_pos \in 0 .. CRT_SIZE - 1
      /\ (Row + 1) * C = m + C /\ (Row - 1) * C = m - C
      /\ Row \in Int /\ crt_pos \in Int /\ crt_pos < CRT_SIZE
  <2>1. /\ Row \in 0 .. CRT_ROWS - 1 /\ Col \in 0 .. C - 1 /\ crt_pos = m + Col
        /\ crt_pos \in 0 .. CRT_SIZE - 1
    BY PlaceOf DEF ScreenOK, Row, Col
  <2>2. m \in Int /\ (Row + 1) * C = m + C /\ (Row - 1) * C = m - C
    BY <2>1, <1>1, Multiples
  <2> QED BY <2>1, <2>2, <1>1
<1> HIDE DEF m, C
<1>3. Term!Attr(colour) = Attr(colour) /\ Attr(colour) \in Nat
  BY ColoursAssumption DEF Term!Attr, Attr
<1>4. crt_buf \in [0 .. CRT_SIZE - 1 -> Cells]
  BY DEF ScreenOK
<1>5. CASE ch = NL /\ ScrollTo(crt_buf, LineStart(crt_pos + CRT_COLS))
  <2> DEFINE e == (Row + 1) * CRT_COLS
  <2>1. LineStart(crt_pos + CRT_COLS) = e
    <3>1. e \in Int /\ Col \in Int /\ (e + Col) % CRT_COLS = Col
      <4>1. Row + 1 \in Int /\ Col \in 0 .. CRT_COLS - 1 /\ Col \in Int
        BY <1>1, <1>2 DEF C
      <4>2. ((Row + 1) * CRT_COLS + Col) % CRT_COLS = Col
        BY <4>1, PlaceAt
      <4>3. (Row + 1) * CRT_COLS \in Int
        BY <4>1, <1>1, Multiples DEF C
      <4> QED BY <4>1, <4>2, <4>3
    <3>2. e = m + C
      BY <1>2 DEF C
    <3> HIDE DEF e
    <3>3. crt_pos + CRT_COLS = e + Col
      BY <3>1, <3>2, <1>1, <1>2 DEF C
    <3> QED BY <3>1, <3>3 DEF LineStart
  <2>2. ScrollTo(crt_buf, e)
    BY <2>1, <1>5
  <2> HIDE DEF e
  <2>3. e = (Row + 1) * CRT_COLS
    BY DEF e
  <2>4. Term!NewLine
    BY <2>2, <2>3, <1>4, NextLine, TerminalFeeds DEF Term!NewLine, Term!LineFeed, Lines, Row
  <2> QED BY <2>4 DEF Term!Next
<1>6. CASE ch = CR /\ ScrollTo(crt_buf, LineStart(crt_pos))
  <2>1. LineStart(crt_pos) = Row * CRT_COLS + 0
    <3>1. LineStart(crt_pos) = crt_pos - Col /\ Col \in Int
      BY <1>1, <1>2 DEF LineStart, Col
    <3>2. LineStart(crt_pos) = m + 0
      BY <3>1, <1>2
    <3> QED BY <3>2 DEF m
  <2>3. 0 \in 0 .. CRT_COLS - 1
    BY <1>1 DEF C
  <2>2. /\ Lines(crt_buf') = Lines(crt_buf)
        /\ crt_pos' \div CRT_COLS = Row /\ crt_pos' % CRT_COLS = 0
    BY <2>1, <2>3, <1>2, <1>6, SameLine, Zenon
  <2> QED BY <2>2 DEF Term!Next, Term!CarriageReturn, Lines, Row
<1>7. CASE ch \in Glyphs /\
           ScrollTo([crt_buf EXCEPT ![crt_pos] =
                      [ch |-> ch, attr |-> Attr(colour)]], crt_pos + 1)
  <2> DEFINE cell == [ch |-> ch, attr |-> Attr(colour)]
             text == [crt_buf EXCEPT ![crt_pos] = cell]
  <2>1. Lines(text) = [Lines(crt_buf) EXCEPT ![Row][Col] = cell]
    <3>1. At(crt_pos, Row, Col)
      BY <1>2 DEF m, C, At
    <3>2. Changed(crt_buf, text, crt_pos, Row, Col, cell)
      BY <3>1, <1>4 DEF Changed
    <3> HIDE DEF cell, text
    <3> QED BY <3>2, LinesExcept
  <2>2. text \in [0 .. CRT_SIZE - 1 -> Cells]
    BY <1>3, <1>4, <1>7 DEF Cells
  <2>3. ScrollTo(text, crt_pos + 1)
    BY <1>7
  <2> HIDE DEF text
  <2>4. Term!Write(cell)
    <3>1. CASE Col = C - 1
      <4>1. crt_pos + 1 = (Row + 1) * CRT_COLS
        <5>1. crt_pos + 1 = m + C
          BY <1>1, <1>2, <3>1
        <5> QED BY <5>1, <1>2 DEF C
      <4>2. Term!LineFeed(Lines(text))
        BY <4>1, <2>2, <2>3, NextLine, TerminalFeeds DEF Term!LineFeed, Lines, Row
      <4> DEFINE L == Lines(text)
      <4>3. L = [Lines(crt_buf) EXCEPT ![Row][Col] = cell]
        BY <2>1
      <4>4. Term!LineFeed(L)
        BY <4>2
      <4> HIDE DEF L, cell
      <4> QED BY <4>3, <4>4, <3>1 DEF Term!Write, Term!LineFeed, Lines, Row, Col, C
    <3>2. CASE Col # C - 1
      <4>1. crt_pos + 1 = Row * CRT_COLS + (Col + 1) /\ Col + 1 \in 0 .. CRT_COLS - 1
        <5>1. crt_pos + 1 = m + (Col + 1) /\ Col + 1 \in 0 .. CRT_COLS - 1
          BY <1>1, <1>2, <3>2 DEF C
        <5> QED BY <5>1 DEF m
      <4>2. /\ Lines(crt_buf') = Lines(text)
            /\ crt_pos' \div CRT_COLS = Row /\ crt_pos' % CRT_COLS = Col + 1
        BY <4>1, <1>2, <2>3, SameLine, Zenon
      <4> QED BY <4>2, <3>2, <2>1 DEF Term!Write, Lines, Row, Col, C
    <3> QED BY <3>1, <3>2
  <2> QED BY <2>4, <1>3, <1>7 DEF Term!Next
<1>8. CASE /\ ch = BS /\ crt_pos > 0
           /\ ScrollTo([crt_buf EXCEPT ![crt_pos - 1] =
                         [ch |-> SP, attr |-> Attr(colour)]], crt_pos - 1)
  <2> DEFINE cell == [ch |-> 32, attr |-> Attr(colour)]
             text == [crt_buf EXCEPT ![crt_pos - 1] = cell]
  <2>1. ScrollTo(text, crt_pos - 1)
    BY <1>8 DEF SP
  <2>2. crt_pos - 1 \in 0 .. CRT_SIZE - 1
    BY <1>1, <1>2, <1>8
  <2>3. Term!Backspace(Attr(colour))
    <3>1. CASE Col > 0
      <4>1. crt_pos - 1 = Row * CRT_COLS + (Col - 1) /\ Col - 1 \in 0 .. CRT_COLS - 1
        <5>1. crt_pos - 1 = m + (Col - 1) /\ Col - 1 \in 0 .. CRT_COLS - 1
          BY <1>1, <1>2, <3>1 DEF C
        <5> QED BY <5>1 DEF m
      <4>2. Lines(text) = [Lines(crt_buf) EXCEPT ![Row][Col - 1] = cell]
        <5>1. At(crt_pos - 1, Row, Col - 1)
          BY <4>1, <2>2, <1>2 DEF At
        <5>2. Changed(crt_buf, text, crt_pos - 1, Row, Col - 1, cell)
          BY <5>1, <1>4 DEF Changed
        <5> HIDE DEF cell, text
        <5> QED BY <5>2, LinesExcept
      <4> HIDE DEF text
      <4>3. /\ Lines(crt_buf') = Lines(text)
            /\ crt_pos' \div CRT_COLS = Row /\ crt_pos' % CRT_COLS = Col - 1
        BY <4>1, <1>2, <2>1, SameLine, Zenon
      <4> QED BY <4>2, <4>3, <3>1 DEF Term!Backspace, Lines, Row, Col
    <3>2. CASE Col = 0
      <4>1. /\ Row > 0 /\ Row - 1 \in 0 .. CRT_ROWS - 1
            /\ crt_pos - 1 = (Row - 1) * CRT_COLS + (CRT_COLS - 1)
            /\ CRT_COLS - 1 \in 0 .. CRT_COLS - 1
        <5>1. Row # 0
          <6>1. Row = 0 => m = 0
            BY <1>1 DEF m, C
          <6> QED BY <6>1, <1>2, <1>8, <3>2
        <5>2. crt_pos - 1 = (m - C) + (C - 1)
          BY <1>1, <1>2, <3>2
        <5>3. C - 1 \in 0 .. C - 1 /\ Row > 0 /\ Row - 1 \in 0 .. CRT_ROWS - 1
          BY <1>1, <1>2, <5>1
        <5> QED BY <5>2, <5>3, <1>2 DEF C
      <4>2. Lines(text) = [Lines(crt_buf) EXCEPT ![Row - 1][CRT_COLS - 1] = cell]
        <5>1. At(crt_pos - 1, Row - 1, CRT_COLS - 1)
          BY <4>1, <2>2, <1>2 DEF At
        <5>2. Changed(crt_buf, text, crt_pos - 1, Row - 1, CRT_COLS - 1, cell)
          BY <5>1, <1>4 DEF Changed
        <5> HIDE DEF cell, text
        <5> QED BY <5>2, LinesExcept
      <4> HIDE DEF text
      <4>3. /\ Lines(crt_buf') = Lines(text)
            /\ crt_pos' \div CRT_COLS = Row - 1 /\ crt_pos' % CRT_COLS = CRT_COLS - 1
        BY <4>1, <1>2, <2>1, SameLine, Zenon
      <4> QED BY <4>1, <4>2, <4>3, <3>2 DEF Term!Backspace, Lines, Row, Col
    <3> QED BY <3>1, <3>2, <1>2
  <2> QED BY <2>3, <1>3 DEF Term!Next
<1>9. CASE ScrollTo(crt_buf, crt_pos)
  <2>1. crt_buf' = crt_buf /\ crt_pos' = crt_pos
    BY <1>9, <1>1, <1>2 DEF ScrollTo
  <2> QED BY <2>1 DEF Term!vars
<1> QED BY <1>5, <1>6, <1>7, <1>8, <1>9 DEF cga_putc

(* The screen the BIOS leaves is a terminal's.                             *)
LEMMA TerminalStarts == ScreenInit => Term!Init
PROOF
<1> SUFFICES ASSUME ScreenInit PROVE Term!Init
  OBVIOUS
<1>1. /\ crt_buf \in [0 .. CRT_SIZE - 1 -> [ch : BootGlyphs, attr : {7}]]
      /\ crt_pos \in 0 .. CRT_SIZE - 1
  BY DEF ScreenInit
<1>2. Row \in 0 .. CRT_ROWS - 1 /\ Col \in 0 .. CRT_COLS - 1
  BY <1>1, PlaceOf DEF Row, Col
<1>3. \A r \in 0 .. CRT_ROWS - 1, c \in 0 .. CRT_COLS - 1 :
        crt_buf[r * CRT_COLS + c] \in [ch : BootGlyphs, attr : {7}]
  <2> SUFFICES ASSUME NEW r \in 0 .. CRT_ROWS - 1, NEW c \in 0 .. CRT_COLS - 1
               PROVE  crt_buf[r * CRT_COLS + c] \in [ch : BootGlyphs, attr : {7}]
    OBVIOUS
  <2>1. r * CRT_COLS + c \in 0 .. CRT_SIZE - 1
    BY PlaceAt
  <2> QED BY <2>1, <1>1
<1>4. Lines(crt_buf) \in [0 .. CRT_ROWS - 1 -> [0 .. CRT_COLS - 1 -> [ch : BootGlyphs, attr : {7}]]]
  BY <1>3 DEF Lines
<1> QED BY <1>2, <1>4 DEF Term!Init, Lines, Row, Col

(* A step that does not print leaves the terminal as it is.                *)
LEMMA TerminalWaits == UNCHANGED screenVars => UNCHANGED Term!vars
  BY DEF screenVars, Term!vars

(* Every step of the monitor and of readline is one of the terminal.       *)
LEMMA TerminalStep == IInv /\ [Next]_vars => [Term!Next]_(Term!vars)
PROOF
<1>1. 0 \in Colours /\ Colours \subseteq Nat
  BY ColoursAssumption
<1>2. ASSUME IInv, NEW ch, NEW colour \in Colours, cons_putc(ch, colour)
      PROVE  Term!Next \/ UNCHANGED Term!vars
  <2>1. ScreenOK /\ cga_putc(ch, colour)
    BY <1>2 DEF IInv, ScreenTypeOK, ScreenOK, cons_putc
  <2> QED BY <2>1, PutcTerminal
<1>3. ASSUME IInv, TabSpace
      PROVE  Term!Next \/ UNCHANGED Term!vars
  <2>1. ScreenOK /\ cga_putc(SP, 0)
    BY <1>3 DEF IInv, ScreenTypeOK, ScreenOK, TabSpace
  <2> QED BY <2>1, <1>1, PutcTerminal
<1>4. ASSUME IInv, Output
      PROVE  Term!Next \/ UNCHANGED Term!vars
  BY <1>2, <1>4 DEF Output
<1>5. ASSUME IInv, PrintPrompt
      PROVE  Term!Next \/ UNCHANGED Term!vars
  <2>1. CASE cons_putc(Prompt[n + 1], 0)
    BY <2>1, <1>1, <1>2, <1>5
  <2>2. CASE UNCHANGED screenVars
    BY <2>2, TerminalWaits
  <2> QED BY <2>1, <2>2, <1>5 DEF PrintPrompt
<1>6. ASSUME IInv, Edit
      PROVE  Term!Next \/ UNCHANGED Term!vars
  <2>1. PICK c : Rubout(c) \/ Insert(c) \/ Enter(c)
    BY <1>6 DEF Edit
  <2>2. cons_putc(BS, 0) \/ cons_putc(c, 0) \/ cons_putc(NL, 0)
    BY <2>1 DEF Rubout, Insert, Enter
  <2> QED BY <2>2, <1>1, <1>2, <1>6
<1>7. ASSUME CallReadline \/ UNCHANGED vars
      PROVE  UNCHANGED Term!vars
  BY <1>7, TerminalWaits DEF CallReadline, vars
<1> QED BY <1>3, <1>4, <1>5, <1>6, <1>7 DEF Next, Tab

(* For a screen of any size, cga_putc on the flat buffer with its one      *)
(* index is a terminal of lines: characters appear at the cursor, lines    *)
(* break and scroll, and a backspace takes back the character before it,   *)
(* also across a line break (console.c:162-209).                           *)
THEOREM Implementation == Spec => ImplementsTerminal
PROOF
<1>1. Init => Term!Init
  BY TerminalStarts DEF Init
<1> QED BY <1>1, InitIInv, NextIInv, TerminalStep, PTL DEF Spec, ImplementsTerminal, Term!Spec
=============================================================================
