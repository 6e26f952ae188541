--------------------------- MODULE MCPageFreeList ---------------------------
(* A machine with six pages, two of them withheld at boot; the list is in  *)
(* the descending order in which page_init links pages.                    *)
EXTENDS PageFreeList

MCPages == 0 .. 5
MCInitialFreeList == <<5, 3, 2, 1>>
=============================================================================
