------------------------------- MODULE MCBoot -------------------------------
(* Sectors of two bytes, pages of two sectors, a megabyte of four pages.   *)
(* The kernel files are what a linker makes of kern/kernel.ld: segments    *)
(* apart in memory and in the file, at addresses congruent to their        *)
(* offsets modulo a page, text at the first megabyte, data in a page after *)
(* it, with a bss; some linkers add an empty segment for the stack flags.  *)
EXTENDS Entry

Segment(p, o, f, m) == [pa |-> p, offset |-> o, filesz |-> f, memsz |-> m]

Layouts ==
  {l \in [text : 3 .. 6, pa : 20 .. 27, offset : 7 .. 13, filesz : 1 .. 3, bss : 0 .. 3] :
     /\ l.pa % 4 = l.offset % 4
     /\ l.pa \div 4 > (16 + l.text - 1) \div 4
     /\ l.offset >= 4 + l.text}

MCImages ==
  {[magic |-> m, length |-> 18,
    segments |-> <<Segment(16, 4, l.text, l.text),
                   Segment(l.pa, l.offset, l.filesz, l.filesz + l.bss)>>
                 \o (IF g THEN <<Segment(0, 0, 0, 0)>> ELSE <<>>)] :
      m \in BOOLEAN, g \in BOOLEAN, l \in Layouts}
=============================================================================
