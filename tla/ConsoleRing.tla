----------------------------- MODULE ConsoleRing -----------------------------
(***************************************************************************)
(* The circular buffer `cons' of kern/console.c: cons_intr stores a        *)
(* character at wpos, cons_getc takes the one at rpos.  Each is one step;  *)
(* the loop around the store and the devices it reads are in module        *)
(* ConsoleInput, of which this is the part that only touches `cons'.       *)
(*                                                                         *)
(* The code never asks whether the buffer is full.  When wpos comes round  *)
(* to rpos the buffer looks empty, and everything in it is lost.           *)
(***************************************************************************)
EXTENDS Integers, Sequences

CONSTANTS
  CONSBUFSIZE,  \* size of the buffer
  Chars         \* the characters devices deliver; 0 stands for none

ASSUME BufSizeAssumption == CONSBUFSIZE \in Nat \ {0}
ASSUME CharsAssumption == 0 \notin Chars

VARIABLES
  buf,     \* cons.buf
  rpos,    \* cons.rpos
  wpos,    \* cons.wpos
  answer   \* what cons_getc returned last

ringVars == <<buf, rpos, wpos, answer>>

Positions == 0 .. CONSBUFSIZE - 1

(* The buffer is zeroed memory.                                            *)
RingInit ==
  /\ buf = [i \in Positions |-> 0]
  /\ rpos = 0
  /\ wpos = 0
  /\ answer = 0

(* A slip: the index wraps one position early.                             *)
NextPos_Early(i) == IF i + 1 >= CONSBUFSIZE - 1 THEN 0 ELSE i + 1

(* An index is incremented and, at the end of the buffer, reset.           *)
NextPos(i) == IF i + 1 = CONSBUFSIZE THEN 0 ELSE i + 1

(* cons_intr stores a character.                                           *)
Store(c) ==
  /\ buf' = [buf EXCEPT ![wpos] = c]
  /\ wpos' = NextPos(wpos)
  /\ UNCHANGED <<rpos, answer>>

(* cons_getc returns the next character, or 0.                             *)
Take ==
  \/ /\ rpos # wpos
     /\ answer' = buf[rpos]
     /\ rpos' = NextPos(rpos)
     /\ UNCHANGED <<buf, wpos>>
  \/ /\ rpos = wpos
     /\ answer' = 0
     /\ UNCHANGED <<buf, rpos, wpos>>

RingNext == (\E c \in Chars : Store(c)) \/ Take

RingSpec == RingInit /\ [][RingNext]_ringVars

-----------------------------------------------------------------------------
(* The buffer as a queue.                                                  *)

(* How many characters lie between rpos and wpos.                          *)
Count == IF rpos <= wpos THEN wpos - rpos ELSE CONSBUFSIZE - rpos + wpos

(* Position of the k-th of them.                                           *)
At(k) == IF rpos + k - 1 < CONSBUFSIZE THEN rpos + k - 1
                                       ELSE rpos + k - 1 - CONSBUFSIZE

Waiting == [k \in 1 .. Count |-> buf[At(k)]]

Queue == INSTANCE InputQueue WITH
           waiting <- Waiting, Capacity <- CONSBUFSIZE - 1

(* Both positions stay inside the buffer, and what lies between them was   *)
(* stored there: cons_getc never returns a byte that cons_intr did not     *)
(* put, and 0 only when it looks empty.                                    *)
RingTypeOK ==
  /\ rpos \in Positions
  /\ wpos \in Positions
  /\ buf \in [Positions -> Chars \cup {0}]
  /\ \A k \in 1 .. Count : buf[At(k)] \in Chars
  /\ answer \in Chars \cup {0}

(* Characters come out of cons_getc in the order they went in, each once;  *)
(* they are lost only when the buffer is full, and then all of them.       *)
ImplementsInputQueue == Queue!Spec
=============================================================================
