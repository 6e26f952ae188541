------------------------------ MODULE PageInit ------------------------------
(***************************************************************************)
(* How the kernel finds its memory: i386_detect_memory, boot_alloc,        *)
(* page_init and check_page_free_list(1) of kern/pmap.c, which mem_init    *)
(* calls in this order while entry_pgdir maps only the first PTSIZE bytes  *)
(* of physical memory.                                                     *)
(*                                                                         *)
(* The steps are the iterations of the loops over the free list.  The      *)
(* kernel runs alone; what varies is the machine, which Init chooses.      *)
(* Physical memory is measured in bytes, as in the code, pages are         *)
(* numbered from 0, and a struct PageInfo is known by its page's number.   *)
(***************************************************************************)
EXTENDS Integers, FiniteSets

CONSTANTS
  Machines,    \* what CMOS may say: base, ext, ext16, as in i386_detect_memory
  NULL,        \* the null pointer
  HEAD,        \* the address of page_free_list (or of pp1, pp2), see Deref
  KB,          \* bytes in a kilobyte
  PGSIZE,      \* bytes in a page
  SIZEOF,      \* sizeof(struct PageInfo)
  IOPHYSMEM, EXTPHYSMEM,
  PTSIZE,      \* bytes mapped by a page table: 4MB
  MB16,        \* 16MB
  UNIT16,      \* kilobytes counted by one unit of ext16: 64
  KERNBASE,
  ASPACE,      \* bytes in the virtual address space: 2^32
  END          \* PADDR(end), the end of the kernel's image

RoundUp(n) == ((n + PGSIZE - 1) \div PGSIZE) * PGSIZE

ASSUME MachinesAssumption == Machines \subseteq [base : Nat, ext : Nat, ext16 : Nat]
ASSUME PointerAssumption == NULL \notin Nat /\ HEAD \notin Nat /\ NULL # HEAD
ASSUME SizeAssumption == {KB, PGSIZE, SIZEOF} \subseteq Nat \ {0} /\ KB <= PGSIZE
ASSUME LayoutAssumption ==
  /\ {IOPHYSMEM, EXTPHYSMEM, PTSIZE, MB16, UNIT16, KERNBASE, ASPACE, END} \subseteq Nat
  /\ \A n \in {IOPHYSMEM, EXTPHYSMEM, PTSIZE, KERNBASE, ASPACE} : n % PGSIZE = 0
  /\ PGSIZE < IOPHYSMEM /\ IOPHYSMEM < EXTPHYSMEM /\ EXTPHYSMEM < END
  /\ RoundUp(END) <= PTSIZE
  /\ PTSIZE < ASPACE - KERNBASE

VARIABLES
  machine,         \* the machine the kernel boots on
  npages, npages_basemem,
  nextfree,        \* boot_alloc's nextfree, as a physical address
  kern_pgdir,      \* the page of the page directory
  pages,           \* the physical address of the pages array
  pp_ref, pp_link, \* its fields
  page_free_list,
  pc,              \* where mem_init is
  at,              \* the loop's i, smernik or pp
  seg, tp,         \* check_page_free_list's pp1 and pp2, and its tp
  written          \* history: the pages written through KERNBASE addresses

sizes == <<machine, npages, npages_basemem>>
areas == <<nextfree, kern_pgdir, pages>>
list == <<pp_ref, pp_link, page_free_list>>
locals == <<at, seg, tp>>
vars == <<sizes, areas, list, locals, pc, written>>

AllPages == 0 .. npages - 1

PagesIn(from, to) == {p \in 0 .. to \div PGSIZE : from <= p * PGSIZE /\ p * PGSIZE < to}

page2pa(p) == p * PGSIZE

(* The kernel address of a physical one.  There are 32 bits.               *)
KADDR(pa) == (KERNBASE + pa) % ASPACE

Low(p) == page2pa(p) < PTSIZE

(* The pages one meets following the links from page h, in order; one that *)
(* is followed by more than npages others is met again.                    *)
Link == [p \in AllPages \cup {NULL} |-> IF p = NULL THEN NULL ELSE pp_link[p]]

ListFrom(h) ==
  LET nth[n \in 0 .. npages] == IF n = 0 THEN h ELSE Link[nth[n - 1]] IN nth

PagesFrom(h) == {ListFrom(h)[n] : n \in 0 .. npages} \ {NULL}

Ends(h) == ListFrom(h)[npages] = NULL

-----------------------------------------------------------------------------
Init ==
  /\ machine \in Machines
  /\ npages = 0 /\ npages_basemem = 0
  /\ nextfree = RoundUp(END)
  /\ kern_pgdir = NULL /\ pages = NULL
  /\ pp_ref = <<>> /\ pp_link = <<>>
  /\ page_free_list = NULL
  /\ pc = "detect"
  /\ at = NULL
  /\ seg = [t \in {0, 1} |-> NULL]
  /\ tp = [t \in {0, 1} |-> HEAD]
  /\ written = {}

Panic == pc' = "panic"

(* i386_detect_memory.                                                     *)
DetectMemory ==
  LET totalmem ==
        IF machine.ext16 # 0 THEN MB16 \div KB + machine.ext16 * UNIT16
        ELSE IF machine.ext # 0 THEN EXTPHYSMEM \div KB + machine.ext
        ELSE machine.base
  IN
  /\ pc = "detect"
  /\ npages' = totalmem \div (PGSIZE \div KB)
  /\ npages_basemem' = machine.base \div (PGSIZE \div KB)
  /\ pc' = "pgdir"
  /\ UNCHANGED <<machine, areas, list, locals, written>>

(* boot_alloc(n), n > 0, when there is room below PTSIZE (rather than in    *)
(* all of memory); it panics otherwise.                                    *)
HasRoom_AllRAM(n) == n <= npages * PGSIZE - nextfree

HasRoom(n) == n <= PTSIZE - nextfree

boot_alloc(n) == nextfree' = RoundUp(nextfree + n)

(* mem_init allocates and clears the page directory ...                    *)
AllocPgdir ==
  /\ pc = "pgdir"
  /\ \/ /\ HasRoom(PGSIZE)
        /\ kern_pgdir' = nextfree \div PGSIZE
        /\ boot_alloc(PGSIZE)
        /\ written' = written \cup {kern_pgdir'}
        /\ pc' = "pages"
     \/ /\ ~HasRoom(PGSIZE)
        /\ Panic
        /\ UNCHANGED <<nextfree, kern_pgdir, written>>
  /\ UNCHANGED <<sizes, pages, list, locals>>

(* ... and the pages array.                                                *)
AllocPages ==
  /\ pc = "pages"
  /\ \/ /\ HasRoom(npages * SIZEOF)
        /\ pages' = nextfree
        /\ boot_alloc(npages * SIZEOF)
        /\ written' = written \cup PagesIn(nextfree, nextfree')
        /\ pp_ref' = [p \in AllPages |-> 0]
        /\ pp_link' = [p \in AllPages |-> NULL]
        /\ at' = 0
        /\ pc' = "push"
     \/ /\ ~HasRoom(npages * SIZEOF)
        /\ Panic
        /\ UNCHANGED <<nextfree, pages, pp_ref, pp_link, written, at>>
  /\ UNCHANGED <<sizes, kern_pgdir, page_free_list, seg, tp>>

(* page_init's first loop puts every page on the list.                     *)
PushPage ==
  /\ pc = "push"
  /\ \/ /\ at < npages
        /\ pp_ref' = [pp_ref EXCEPT ![at] = 0]
        /\ pp_link' = [pp_link EXCEPT ![at] = page_free_list]
        /\ page_free_list' = at
        /\ at' = at + 1
        /\ UNCHANGED pc
     \/ /\ at = npages
        /\ at' = HEAD
        /\ pc' = "filter"
        /\ UNCHANGED list
  /\ UNCHANGED <<sizes, areas, seg, tp, written>>

(* A struct PageInfo ** is the address of page_free_list or of a page's    *)
(* pp_link.                                                                *)
Deref(ptr) == IF ptr = HEAD THEN page_free_list ELSE pp_link[ptr]

(* The pages page_init must not leave on the list.                         *)
Reserved_AboveHole(p) == page2pa(p) = 0 \/ page2pa(p) \in IOPHYSMEM + 1 .. nextfree - 1

Reserved(p) == page2pa(p) = 0 \/ page2pa(p) \in IOPHYSMEM .. nextfree - 1

(* A second loop that moves on after it has removed a page.                *)
FilterPage_Skips ==
  /\ pc = "filter"
  /\ LET p == Deref(at) IN
     \/ /\ p = NULL
        /\ pc' = "check"
        /\ UNCHANGED <<list, at>>
     \/ /\ p # NULL /\ Reserved(p)
        /\ pp_ref' = [pp_ref EXCEPT ![p] = 1]
        /\ page_free_list' = IF at = HEAD THEN pp_link[p] ELSE page_free_list
        /\ pp_link' = IF at = HEAD THEN [pp_link EXCEPT ![p] = NULL]
                      ELSE [pp_link EXCEPT ![p] = NULL, ![at] = pp_link[p]]
        /\ at' = IF pp_link[p] = NULL THEN at ELSE pp_link[p]
        /\ UNCHANGED pc
     \/ /\ p # NULL /\ ~Reserved(p)
        /\ at' = p
        /\ UNCHANGED <<list, pc>>
  /\ UNCHANGED <<sizes, areas, seg, tp, written>>

(* Its second loop takes the reserved pages off again and marks them as in *)
(* use; smernik moves on when it leaves a page on the list.                *)
FilterPage ==
  /\ pc = "filter"
  /\ LET p == Deref(at) IN
     \/ /\ p = NULL
        /\ pc' = "check"
        /\ UNCHANGED <<list, at>>
     \/ /\ p # NULL /\ Reserved(p)
        /\ pp_ref' = [pp_ref EXCEPT ![p] = 1]
        /\ page_free_list' = IF at = HEAD THEN pp_link[p] ELSE page_free_list
        /\ pp_link' = IF at = HEAD THEN [pp_link EXCEPT ![p] = NULL]
                      ELSE [pp_link EXCEPT ![p] = NULL, ![at] = pp_link[p]]
        /\ UNCHANGED <<at, pc>>
     \/ /\ p # NULL /\ ~Reserved(p)
        /\ at' = p
        /\ UNCHANGED <<list, pc>>
  /\ UNCHANGED <<sizes, areas, seg, tp, written>>

(* check_page_free_list(1) begins.                                         *)
CheckFreeList ==
  /\ pc = "check"
  /\ IF page_free_list = NULL THEN Panic /\ UNCHANGED at
     ELSE pc' = "reorder" /\ at' = page_free_list
  /\ UNCHANGED <<sizes, areas, list, seg, tp, written>>

(* The list it builds for pages below PTSIZE (0), and for others (1).      *)
Pagetype_Swapped(p) == IF Low(p) THEN 1 ELSE 0

Pagetype(p) == IF Low(p) THEN 0 ELSE 1

(* *tp[t] = p                                                              *)
StoreThrough(t, p) ==
  IF tp[t] = HEAD THEN seg' = [seg EXCEPT ![t] = p] /\ UNCHANGED pp_link
  ELSE pp_link' = [pp_link EXCEPT ![tp[t]] = p] /\ UNCHANGED seg

(* An iteration of the loop that moves low pages to the front.             *)
ReorderPage ==
  /\ pc = "reorder" /\ at # NULL
  /\ StoreThrough(Pagetype(at), at)
  /\ tp' = [tp EXCEPT ![Pagetype(at)] = at]
  /\ at' = pp_link'[at]
  /\ UNCHANGED <<sizes, areas, pp_ref, page_free_list, pc, written>>

(* *tp[1] = 0; *tp[0] = pp2; page_free_list = pp1;                         *)
JoinLists ==
  /\ pc = "reorder" /\ at = NULL
  /\ LET pp2 == IF tp[1] = HEAD THEN NULL ELSE seg[1]
         ended == IF tp[1] = HEAD THEN pp_link ELSE [pp_link EXCEPT ![tp[1]] = NULL]
         pp1 == IF tp[0] = HEAD THEN pp2 ELSE seg[0]
     IN
     /\ seg' = [t \in {0, 1} |-> IF t = 0 THEN pp1 ELSE pp2]
     /\ pp_link' = IF tp[0] = HEAD THEN ended ELSE [ended EXCEPT ![tp[0]] = pp2]
     /\ page_free_list' = pp1
  /\ pc' = "assert"
  /\ UNCHANGED <<sizes, areas, pp_ref, at, tp, written>>

(* The assertions of check_page_free_list.                                 *)
ListLooksRight ==
  LET onlist == PagesFrom(page_free_list) IN
  /\ \A p \in onlist :
       /\ page2pa(p) \notin {0, IOPHYSMEM, EXTPHYSMEM - PGSIZE, EXTPHYSMEM}
       /\ page2pa(p) < EXTPHYSMEM \/ KADDR(page2pa(p)) >= KADDR(nextfree)
  /\ \E p \in onlist : page2pa(p) < EXTPHYSMEM
  /\ \E p \in onlist : page2pa(p) >= EXTPHYSMEM

(* It writes to the low pages and goes through the list, which takes for   *)
(* ever when the list does not end.                                        *)
AssertFreeList ==
  /\ pc = "assert"
  /\ Ends(page_free_list)
  /\ written' = written \cup {p \in PagesFrom(page_free_list) : Low(p)}
  /\ IF ListLooksRight THEN pc' = "checked" ELSE Panic
  /\ UNCHANGED <<sizes, areas, list, locals>>

Next ==
  \/ DetectMemory \/ AllocPgdir \/ AllocPages
  \/ PushPage \/ FilterPage
  \/ CheckFreeList \/ ReorderPage \/ JoinLists \/ AssertFreeList

(* The processor goes on executing the kernel.                             *)
Spec == Init /\ [][Next]_vars /\ WF_vars(Next)

-----------------------------------------------------------------------------
(* Properties.                                                             *)

(* What lives in memory when page_init runs: the real-mode structures in   *)
(* page 0, devices, the kernel, its page directory and the pages array.    *)
InUse(p) ==
  \/ p = 0
  \/ page2pa(p) \in IOPHYSMEM .. EXTPHYSMEM - 1
  \/ page2pa(p) \in EXTPHYSMEM .. END - 1
  \/ p = kern_pgdir
  \/ p \in PagesIn(pages, pages + npages * SIZEOF)

FreeMemory == {p \in AllPages : ~InUse(p)}

(* The part of the list check_page_free_list has built for type t.         *)
Segment(t) ==
  IF tp[t] = HEAD THEN {}
  ELSE LET nth == ListFrom(seg[t])
           last == CHOOSE n \in 0 .. npages : nth[n] = tp[t]
       IN {nth[n] : n \in 0 .. last}

(* No loop loses a page or visits one twice while it rewrites the links it *)
(* walks along: page_init's lists have what is done and what is not, and   *)
(* check_page_free_list has read a page's link before it stores into it.   *)
NothingLost ==
  /\ pc = "push" => PagesFrom(page_free_list) = 0 .. at - 1
  /\ pc = "filter" =>
       LET next == IF Deref(at) = NULL THEN -1 ELSE Deref(at) IN
       PagesFrom(page_free_list) =
         0 .. next \cup {p \in FreeMemory : p > next}
  /\ pc = "reorder" =>
       LET next == IF at = NULL THEN -1 ELSE at
           done == {p \in FreeMemory : p > next}
       IN
       /\ PagesFrom(at) = FreeMemory \ done
       /\ Segment(0) = {p \in done : Low(p)}
       /\ Segment(1) = {p \in done : ~Low(p)}

(* Until lcr3 the kernel writes only memory that entry_pgdir maps, and     *)
(* none of its own image.                                                  *)
EarlyWritesMapped ==
  \A p \in written : Low(p) /\ page2pa(p) \notin EXTPHYSMEM .. END - 1

(* The machines JOS is for: at most the 256MB that fit above KERNBASE      *)
(* (pmap.h:21), and enough for the kernel, its structures and a page.      *)
Bootable ==
  LET structures == RoundUp(END) + PGSIZE + RoundUp(npages * SIZEOF) IN
  /\ npages * PGSIZE <= ASPACE - KERNBASE
  /\ structures <= PTSIZE
  /\ structures < npages * PGSIZE

(* The panic of boot_alloc and the assertions of check_page_free_list stop *)
(* the machines that are not, and no others; nor do those of MemInit up to *)
(* check_kern_pgdir.  (After the switch check_page_free_list may find the  *)
(* last page above the hole gone: it became a page table.)                 *)
StopsOnlyUnbootable ==
  [][/\ pc \notin {"lcr3", "check_installed", "panic"} /\ pc' = "panic" => ~Bootable
     /\ pc' = "checked" => Bootable]_vars

(* "The rest of base memory, [PGSIZE, npages_basemem * PGSIZE) is free"    *)
(* (pmap.c:283): page_init frees no other page below the I/O hole.         *)
BaseMemoryOnly ==
  pc = "checked" =>
    \A p \in PagesFrom(page_free_list) :
      page2pa(p) < IOPHYSMEM => p < npages_basemem
=============================================================================
