----------------------------- MODULE MCMemInit ------------------------------
(* Pages of 16 bytes, 2KB each.  The layout keeps the order of the real    *)
(* one: 5 pages of base memory, a hole of one page, the kernel's image up  *)
(* to the middle of page 8, a window of 16 pages below "4MB", "16MB" at    *)
(* page 20 and room for "256MB" = 32 pages above KERNBASE.  Directories    *)
(* and tables have 16 entries: KERNBASE takes the last two of the          *)
(* directory, the stack is two pages.                                      *)
(*                                                                         *)
(* Machines: base memory of 10KB and of 9KB (the BIOS keeps the rest);     *)
(* extended memory from what the kernel's image needs to just above the    *)
(* window; the ext16 register from one unit to more than fits above        *)
(* KERNBASE and more than boot_alloc can describe.                         *)
EXTENDS MemInit

MCMachines ==
  [base : {9, 10}, ext : {10, 11, 14, 15, 16, 18, 19, 20, 23, 24, 27, 30}, ext16 : {0}]
    \cup [base : {9, 10}, ext : {0, 24}, ext16 : {1, 7, 12, 13, 16, 30}]
=============================================================================
