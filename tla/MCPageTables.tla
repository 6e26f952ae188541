---------------------------- MODULE MCPageTables ----------------------------
(* Three pages to hand out, two page tables of two entries: with both      *)
(* tables there is one page left to map, with one there are two.           *)
EXTENDS PageTables, TLC

CONSTANTS zero, p1, p2, p3, R, RW

MCPages == {zero, p1, p2, p3}
MCInitialFree == {p1, p2, p3}
MCPDXs == 0 .. 1
MCPTXs == 0 .. 1
MCPerms == {R, RW}
MCWritable == {RW}

(* Programs store zeros and words that look like an entry.                 *)
MCDataWords == {NULL, Entry(zero, RW)}

MCSymmetry == Permutations(MCInitialFree)
=============================================================================
