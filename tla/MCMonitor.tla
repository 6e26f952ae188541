----------------------------- MODULE MCMonitor -----------------------------
(* Lines of up to five characters; commands of which one is the beginning  *)
(* of another; a program of an assembly file and of C files with and       *)
(* without parameters, code of a header and a file without code.           *)
EXTENDS Monitor

MCCommands == <<<<120>>, <<120, 121>>, <<121, 120>>>>

L(a, n, f) == [at |-> a, line |-> n, file |-> f]

Asm == [name |-> "entry.S", asm |-> TRUE, start |-> 1, functions |-> <<>>,
        lines |-> <<L(2, 44, "entry.S"), L(4, 80, "entry.S"), L(5, 83, "entry.S")>>]

NoCode == [name |-> "entrypgdir.c", asm |-> FALSE, start |-> 7,
           functions |-> <<>>, lines |-> <<>>]

(* gap is the length of the code from the header.                          *)
C(file, start, params, gap) ==
  [name |-> file, asm |-> FALSE, start |-> start, lines |-> <<>>,
   functions |->
     <<[name |-> file \o ":f", start |-> start, params |-> params,
        lines |-> <<L(start, 1, file), L(start, 2, file), L(start + 2, 3, file)>>],
       [name |-> file \o ":g", start |-> start + 4, params |-> 0,
        lines |-> <<L(start + 4, 5, file), L(start + 6, 8, "x86.h"),
                    L(start + 6 + gap, 6, file)>>],
       [name |-> file \o ":h", start |-> start + 9, params |-> params,
        lines |-> <<L(start + 9, 8, "x86.h")>>]>>]

MCPrograms ==
  {<<Asm>> \o none \o <<C("init.c", 7, p, g), C("monitor.c", 18, 1, 2)>> :
     none \in {<<>>, <<NoCode>>}, p \in {0, 2}, g \in {1, 2}}

MCEnd == 29

MCTables == {StabsOf(p, MCEnd) : p \in MCPrograms}
MCTypes == {"UNDF", "SO", "OPT", "FUN", "PSYM", "SLINE", "SOL"}

(* A frame is a saved frame pointer, a return address and a word of        *)
(* locals or arguments; the last return address is the one in entry.S.     *)
StackOf(eips) ==
  LET all == Append(eips, 5)
  IN  [a \in 1 .. 3 * Len(all) |->
         CASE a % 3 = 1 -> IF a + 2 = 3 * Len(all) THEN 0 ELSE a + 3
           [] a % 3 = 2 -> all[(a + 1) \div 3]
           [] a % 3 = 0 -> 99]

(* monitor is called by i386_init or _panic, and that by any function.     *)
MCStacks ==
  {StackOf(e) : e \in {<<x>> : x \in 8 .. 29 \ {18}} \cup
                      {<<20, x>> : x \in {8, 11, 16}}}
=============================================================================
