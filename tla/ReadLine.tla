------------------------------ MODULE ReadLine ------------------------------
(***************************************************************************)
(* readline of lib/readline.c on the screen of module Screen: the monitor  *)
(* prints whatever it prints, calls readline, which prints the prompt and  *)
(* then edits a line, one character of getchar at a time.                  *)
(*                                                                         *)
(* getchar returns any byte but 0 and never a negative number, so that the *)
(* read error of readline does not happen; iscons is always 1.             *)
(***************************************************************************)
EXTENDS Screen, Sequences

CONSTANTS
  BUFLEN,       \* size of the line buffer
  Prompt,       \* what readline is called with, "K> "
  InputChars,   \* characters getchar returns
  OutputChars   \* characters the monitor prints between two lines

DEL == 127

ASSUME LineAssumption ==
  /\ BUFLEN \in Nat \ {0}
  /\ Prompt \in Seq(Glyphs)
  /\ InputChars \subseteq Nat \ {0}
  /\ \A c \in InputChars : c >= SP => c \in Glyphs
  /\ OutputChars \subseteq Printable

(* A prompt and a full line leave a line of the screen free.               *)
ASSUME FitsAssumption == Len(Prompt) + BUFLEN - 1 <= CRT_SIZE - CRT_COLS

VARIABLES
  buf,   \* the line buffer
  i,     \* how many characters are in it; where the 0 is after it returned
  pc,    \* "output", "prompt" or "edit"
  n      \* how many characters of the prompt are printed

vars == <<screenVars, buf, i, pc, n>>

Init ==
  /\ ScreenInit
  /\ buf = [k \in 0 .. BUFLEN - 1 |-> 0]
  /\ i = 0 /\ n = 0
  /\ pc = "output"

(* The monitor prints; cprintf's %c lets a caller ask for a colour.         *)
Output ==
  /\ pc = "output"
  /\ \E ch \in OutputChars, colour \in Colours : cons_putc(ch, colour)
  /\ UNCHANGED <<buf, i, pc, n>>

Tab == TabSpace /\ UNCHANGED <<buf, i, pc, n>>

(* readline is called and prints its prompt.                               *)
CallReadline ==
  /\ pc = "output" /\ spaces = 0
  /\ pc' = "prompt"
  /\ n' = 0
  /\ UNCHANGED <<screenVars, buf, i>>

PrintPrompt ==
  /\ pc = "prompt"
  /\ \/ /\ n < Len(Prompt)
        /\ cons_putc(Prompt[n + 1], 0)
        /\ n' = n + 1
        /\ UNCHANGED <<i, pc>>
     \/ /\ n = Len(Prompt)
        /\ i' = 0
        /\ pc' = "edit"
        /\ UNCHANGED <<screenVars, n>>
  /\ UNCHANGED buf

-----------------------------------------------------------------------------
(* The cases of the loop, for the character c that getchar returned.       *)

Rubs(c) == c \in {BS, DEL} /\ i > 0

Rubout(c) ==
  /\ Rubs(c)
  /\ cons_putc(BS, 0)
  /\ i' = i - 1
  /\ UNCHANGED <<buf, pc>>

(* Slips the properties must notice.                                       *)

(* The character is echoed before it is known whether there is room.       *)
Insert_EchoesAlways(c) ==
  /\ ~Rubs(c) /\ c >= SP
  /\ cons_putc(c, 0)
  /\ IF i < BUFLEN - 1
     THEN buf' = [buf EXCEPT ![i] = c] /\ i' = i + 1
     ELSE UNCHANGED <<buf, i>>
  /\ UNCHANGED pc

(* There is no room left for the terminator.                               *)
HasRoom_All == i < BUFLEN

HasRoom == i < BUFLEN - 1

Insert(c) ==
  /\ ~Rubs(c) /\ c >= SP /\ HasRoom
  /\ cons_putc(c, 0)
  /\ buf' = [buf EXCEPT ![i] = c]
  /\ i' = i + 1
  /\ UNCHANGED pc

Enter(c) ==
  /\ c \in {NL, CR}
  /\ cons_putc(NL, 0)
  /\ buf' = [buf EXCEPT ![i] = 0]
  /\ pc' = "output"
  /\ UNCHANGED i

(* Anything else, and anything that no longer fits, is ignored.            *)
Edit ==
  /\ pc = "edit"
  /\ \E c \in InputChars :
       \/ Rubout(c)
       \/ Insert(c)
       \/ Enter(c)
  /\ UNCHANGED n

Next == Output \/ Tab \/ CallReadline \/ PrintPrompt \/ Edit

Spec == Init /\ [][Next]_vars

-----------------------------------------------------------------------------
(* The cell k places before the cursor shows character ch.                 *)
Shown(k, ch) == crt_pos - k >= 0 /\ crt_buf[crt_pos - k].ch = ch

(* The line being edited is within its buffer, with room for the 0, and    *)
(* made of printable characters; once readline has returned there is a 0   *)
(* behind it, so that runcmd finds the end (readline.c:26, 33).            *)
LineIsString ==
  /\ i \in 0 .. BUFLEN - 1
  /\ buf \in [0 .. BUFLEN - 1 -> Glyphs \cup {0}]
  /\ \A k \in 0 .. i - 1 : buf[k] \in Glyphs
  /\ pc # "edit" => buf[i] = 0

(* What the user sees is what readline will return: in front of the cursor *)
(* is the line, and in front of the line the prompt, however often text    *)
(* was typed, rubbed out, wrapped around the edge and scrolled.            *)
ScreenShowsLine ==
  pc = "edit" =>
    /\ \A k \in 1 .. i : Shown(k, buf[i - k])
    /\ \A k \in 1 .. Len(Prompt) : Shown(i + k, Prompt[Len(Prompt) + 1 - k])
=============================================================================
