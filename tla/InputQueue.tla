----------------------------- MODULE InputQueue -----------------------------
(***************************************************************************)
(* What the console input buffer of kern/console.c promises: a queue of    *)
(* characters.  cons_intr puts characters in, cons_getc takes the oldest   *)
(* one, or returns 0 if there is none.                                     *)
(*                                                                         *)
(* The buffer has no test for being full: when it is, one more character   *)
(* empties it.  Nothing else is ever lost, repeated or reordered.          *)
(***************************************************************************)
EXTENDS Naturals, Sequences

CONSTANTS
  Chars,     \* the characters that can be put in; 0 is not one
  Capacity   \* how many can wait

VARIABLES
  waiting,   \* the characters that wait, oldest first
  answer     \* what cons_getc returned last

vars == <<waiting, answer>>

Init == waiting = <<>> /\ answer = 0

Put(c) ==
  /\ Len(waiting) < Capacity
  /\ waiting' = Append(waiting, c)
  /\ UNCHANGED answer

Overrun ==
  /\ Len(waiting) = Capacity
  /\ waiting' = <<>>
  /\ UNCHANGED answer

Get ==
  \/ /\ waiting # <<>>
     /\ answer' = Head(waiting)
     /\ waiting' = Tail(waiting)
  \/ /\ waiting = <<>>
     /\ answer' = 0
     /\ UNCHANGED waiting

Spec == Init /\ [][(\E c \in Chars : Put(c)) \/ Overrun \/ Get]_vars
=============================================================================
