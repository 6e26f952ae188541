----------------------------- MODULE MCReadLine -----------------------------
(* A screen of three lines of two, and a line that fills two of them.      *)
EXTENDS ReadLine

MCPrompt == <<62>>
=============================================================================
