---------------------------- MODULE AddressSpace ----------------------------
(***************************************************************************)
(* What the virtual memory functions of kern/pmap.c promise: an address    *)
(* space that maps virtual pages to physical pages, and physical pages     *)
(* that exist from the moment they are allocated until they are freed, by  *)
(* hand when nothing maps them or with their last mapping.                 *)
(*                                                                         *)
(* There are no page tables, counters, steps or translation caches here:   *)
(* replacing a mapping is one step.  Module PageTables, the code, is shown *)
(* to implement this specification.                                        *)
(***************************************************************************)
CONSTANTS
  Pages,     \* physical pages
  VAs,       \* virtual pages
  Offsets,   \* words of a page
  Words,     \* what a word may hold
  Perms,     \* access rights of a mapping
  NULL       \* "not mapped", "no page"

VARIABLES
  alloced,   \* the pages callers hold or have mapped
  map,       \* the page and the rights mapped at each virtual page
  data       \* the contents of the allocated pages

vars == <<alloced, map, data>>

Init ==
  /\ alloced = {}
  /\ map = [va \in VAs |-> NULL]
  /\ data = [p \in Pages |-> NULL]

MappedElsewhere(q, va) == \E v \in VAs \ {va} : map[v] # NULL /\ map[v].page = q

(* A new page has whatever contents.                                       *)
Alloc ==
  \E p \in Pages \ alloced, contents \in [Offsets -> Words] :
    /\ alloced' = alloced \cup {p}
    /\ data' = [data EXCEPT ![p] = contents]
    /\ UNCHANGED map

(* A page that nothing maps may be freed by hand.                          *)
Free(p) ==
  /\ p \in alloced
  /\ \A va \in VAs : map[va] # NULL => map[va].page # p
  /\ alloced' = alloced \ {p}
  /\ data' = [data EXCEPT ![p] = NULL]
  /\ UNCHANGED map

(* `new' replaces what is mapped at va; a page that was mapped there and   *)
(* nowhere else, and is not mapped there again, ceases to exist.           *)
Remap(va, new) ==
  LET old == map[va]
      dies == /\ old # NULL
              /\ new = NULL \/ new.page # old.page
              /\ ~MappedElsewhere(old.page, va)
  IN
  /\ map' = [map EXCEPT ![va] = new]
  /\ alloced' = IF dies THEN alloced \ {old.page} ELSE alloced
  /\ data' = IF dies THEN [data EXCEPT ![old.page] = NULL] ELSE data

Map(va, p, perm) ==
  /\ p \in alloced
  /\ Remap(va, [page |-> p, perm |-> perm])

Unmap(va) ==
  /\ map[va] # NULL
  /\ Remap(va, NULL)

(* A store, by the holder of a page or through a mapping, reaches nothing  *)
(* but allocated pages.                                                    *)
Store(p, x, w) ==
  /\ p \in alloced
  /\ data' = [data EXCEPT ![p][x] = w]
  /\ UNCHANGED <<alloced, map>>

Next ==
  \/ Alloc
  \/ \E p \in Pages : Free(p)
  \/ \E va \in VAs, p \in Pages, perm \in Perms : Map(va, p, perm)
  \/ \E va \in VAs : Unmap(va)
  \/ \E p \in Pages, x \in Offsets, w \in Words : Store(p, x, w)

Spec == Init /\ [][Next]_vars
=============================================================================
