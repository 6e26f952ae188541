------------------------------ MODULE MemInit -------------------------------
(***************************************************************************)
(* mem_init of kern/pmap.c: after the steps of PageInit, the checks of the *)
(* allocator, the kernel's mappings above UTOP, built with                 *)
(* boot_map_region and pgdir_walk, the switch from entry_pgdir to          *)
(* kern_pgdir, and the checks after it.                                    *)
(*                                                                         *)
(* Until the switch only the first PTSIZE bytes of physical memory are     *)
(* mapped: a page table elsewhere could not be written, and the kernel     *)
(* would fault without a handler.  An iteration of boot_map_region is a    *)
(* step.  The checks (check_page_alloc, ...) put back what they take, but  *)
(* in another order; each is one step with its effect on the free list.    *)
(***************************************************************************)
EXTENDS PageInit, Sequences

CONSTANTS
  BOOTSTACK,   \* PADDR(bootstack)
  KSTKSIZE     \* bytes of the kernel stack

NPTENTRIES == PTSIZE \div PGSIZE
NPDENTRIES == ASPACE \div PTSIZE

KSTACKTOP == KERNBASE
ULIM == KERNBASE - 2 * PTSIZE
UVPT == ULIM - PTSIZE
UPAGES == UVPT - PTSIZE
UTOP == UPAGES - PTSIZE

PDX(va) == va \div PTSIZE
PTX(va) == (va \div PGSIZE) % NPTENTRIES

(* The page tables of the kernel: those above KERNBASE, the stack's and    *)
(* the one for the pages array.                                            *)
KernelTables == (ASPACE - KERNBASE) \div PTSIZE + 2

ASSUME AddressAssumption ==
  /\ PTSIZE = NPTENTRIES * PGSIZE /\ ASPACE = NPDENTRIES * PTSIZE
  /\ NPDENTRIES = NPTENTRIES
  /\ KERNBASE % PTSIZE = 0 /\ UTOP > 0 /\ PGSIZE > 1
  /\ {BOOTSTACK, KSTKSIZE} \subseteq Nat \ {0}
  /\ BOOTSTACK % PGSIZE = 0 /\ KSTKSIZE % PGSIZE = 0 /\ KSTKSIZE < PTSIZE
  /\ EXTPHYSMEM <= BOOTSTACK /\ BOOTSTACK + KSTKSIZE <= END
  /\ KSTKSIZE * PGSIZE <= ASPACE - KERNBASE
  /\ NULL \notin [page : Nat, perm : SUBSET {"U", "W"}]

(* Base memory has room for the kernel's page tables.                      *)
ASSUME BaseAssumption == KernelTables * PGSIZE < IOPHYSMEM

VARIABLES
  pgdir,    \* the entries of kern_pgdir
  ptes,     \* the entries of the page tables, by the table's page
  region,   \* which of mem_init's boot_map_region calls is running
  i         \* its loop variable

mapping == <<pgdir, ptes, region, i>>
memvars == <<vars, mapping>>

(* An entry has a page and a set of rights: "W" for PTE_W, "U" for PTE_U.  *)
Entry(page, perm) == [page |-> page, perm |-> perm]

EmptyTable == [x \in 0 .. NPTENTRIES - 1 |-> NULL]

-----------------------------------------------------------------------------
MemInitStart ==
  /\ Init
  /\ pgdir = [d \in 0 .. NPDENTRIES - 1 |-> NULL]
  /\ ptes = <<>>
  /\ region = 1 /\ i = 0

(* The entry that makes the page directory a page table for UVPT.          *)
SelfMap_Writable(page) == Entry(page, {"U", "W"})

SelfMap(page) == Entry(page, {"U"})

(* The steps of PageInit; the new page directory is cleared and maps       *)
(* itself.                                                                 *)
Prepare ==
  \/ /\ AllocPgdir
     /\ pgdir' = IF pc' = "panic" THEN pgdir
                 ELSE [pgdir EXCEPT ![PDX(UVPT)] = SelfMap(kern_pgdir')]
     /\ UNCHANGED <<ptes, region, i>>
  \/ /\ DetectMemory \/ AllocPages \/ PushPage \/ FilterPage
          \/ CheckFreeList \/ ReorderPage \/ JoinLists \/ AssertFreeList
     /\ UNCHANGED mapping

(* The first three pages of the list, and what follows them.               *)
First == page_free_list
Second == Link[First]
Third == Link[Second]
Rest == Link[Third]

(* check_page_alloc takes three pages, writes to the third and puts all    *)
(* back where they were.                                                   *)
check_page_alloc ==
  /\ pc = "checked"
  /\ pc' = IF Third = NULL THEN "panic" ELSE IF Low(Third) THEN "check_page" ELSE "fault"
  /\ written' = IF Third = NULL THEN written ELSE written \cup {Third}
  /\ UNCHANGED <<sizes, areas, list, locals, mapping>>

(* check_page uses the first page as a page table for addresses near 0 and *)
(* reverses the three.                                                     *)
check_page ==
  /\ pc = "check_page"
  /\ pc' = IF Low(First) THEN "map" ELSE "fault"
  /\ written' = written \cup {First}
  /\ pp_link' = [pp_link EXCEPT ![Third] = Second, ![Second] = First, ![First] = Rest]
  /\ page_free_list' = Third
  /\ UNCHANGED <<sizes, areas, pp_ref, locals, mapping>>

(* The calls of boot_map_region.  Its size argument counts pages; the call *)
(* for the stack passes bytes, and the one after it overwrites what is too *)
(* much.                                                                   *)
Regions_RAMOnly ==
  <<[va |-> UPAGES, size |-> RoundUp(npages * SIZEOF) \div PGSIZE, pa |-> pages, perm |-> {"U"}],
    [va |-> KSTACKTOP - KSTKSIZE, size |-> KSTKSIZE, pa |-> BOOTSTACK, perm |-> {"W"}],
    [va |-> KERNBASE, size |-> npages, pa |-> 0, perm |-> {"W"}]>>

Regions ==
  <<[va |-> UPAGES, size |-> RoundUp(npages * SIZEOF) \div PGSIZE, pa |-> pages, perm |-> {"U"}],
    [va |-> KSTACKTOP - KSTKSIZE, size |-> KSTKSIZE, pa |-> BOOTSTACK, perm |-> {"W"}],
    [va |-> KERNBASE, size |-> (ASPACE - KERNBASE) \div PGSIZE, pa |-> 0, perm |-> {"W"}]>>

(* The loop condition va+i < va+size, in 32 bits.                          *)
MoreToMap(r) == (r.va + i) % ASPACE < (r.va + r.size) % ASPACE

(* page_alloc(ALLOC_ZERO) and pp_ref++ in pgdir_walk.                      *)
NewTable(p) ==
  /\ page_free_list' = pp_link[p]
  /\ pp_link' = [pp_link EXCEPT ![p] = NULL]
  /\ pp_ref' = [pp_ref EXCEPT ![p] = @ + 1]

(* An iteration of boot_map_region.  pgdir_walk's NULL is not checked, and *)
(* a new table that is not mapped cannot be cleared.                       *)
MapPage ==
  LET r == Regions[region]
      va == (r.va + i * PGSIZE) % ASPACE
      entry == Entry((r.pa + i * PGSIZE) \div PGSIZE, r.perm)
      pde == pgdir[PDX(va)]
  IN
  /\ pc = "map" /\ MoreToMap(r)
  /\ i' = i + 1
  /\ \/ /\ pde # NULL
        /\ ptes' = [ptes EXCEPT ![pde.page][PTX(va)] = entry]
        /\ UNCHANGED <<list, pgdir, written, pc>>
     \/ /\ pde = NULL
        /\ IF First = NULL \/ ~Low(First)
           THEN pc' = "fault" /\ UNCHANGED <<list, pgdir, ptes, written>>
           ELSE /\ NewTable(First)
                /\ written' = written \cup {First}
                /\ pgdir' = [pgdir EXCEPT ![PDX(va)] = Entry(First, {"W", "U"})]
                /\ ptes' = [p \in DOMAIN ptes \cup {First} |->
                             IF p = First THEN [EmptyTable EXCEPT ![PTX(va)] = entry]
                             ELSE ptes[p]]
                /\ UNCHANGED pc
  /\ UNCHANGED <<sizes, areas, locals, region>>

(* It returns, and mem_init makes the next call.                           *)
RegionDone ==
  /\ pc = "map" /\ ~MoreToMap(Regions[region])
  /\ i' = 0
  /\ IF region = Len(Regions) THEN pc' = "check_kern_pgdir" /\ UNCHANGED region
     ELSE region' = region + 1 /\ UNCHANGED pc
  /\ UNCHANGED <<sizes, areas, list, locals, written, pgdir, ptes>>

(* The directory may be read as a page table.                              *)
Table(page) == IF page = kern_pgdir THEN pgdir ELSE ptes[page]

(* The entry for va, NULL if there is none, and what the hardware makes of *)
(* the two levels: rights are those both have.                             *)
PTE(va) ==
  IF pgdir[PDX(va)] = NULL THEN NULL ELSE Table(pgdir[PDX(va)].page)[PTX(va)]

Translate(va) ==
  IF PTE(va) = NULL THEN NULL
  ELSE Entry(PTE(va).page, PTE(va).perm \cap pgdir[PDX(va)].perm)

(* check_va2pa, for page addresses.                                        *)
check_va2pa(va) == IF PTE(va) = NULL THEN NULL ELSE PTE(va).page

PageOffsets(n) == {k * PGSIZE : k \in 0 .. (n - 1) \div PGSIZE}

KernPgdirLooksRight ==
  /\ \A k \in PageOffsets(RoundUp(npages * SIZEOF)) :
       check_va2pa(UPAGES + k) = (pages + k) \div PGSIZE
  /\ \A k \in PageOffsets(npages * PGSIZE) : check_va2pa(KERNBASE + k) = k \div PGSIZE
  /\ \A k \in PageOffsets(KSTKSIZE) :
       check_va2pa(KSTACKTOP - KSTKSIZE + k) = (BOOTSTACK + k) \div PGSIZE
  /\ check_va2pa(KSTACKTOP - PTSIZE) = NULL
  /\ \A d \in 0 .. NPDENTRIES - 1 :
       IF d >= PDX(KERNBASE) THEN pgdir[d] # NULL /\ "W" \in pgdir[d].perm
       ELSE pgdir[d] # NULL <=> d \in {PDX(UVPT), PDX(KSTACKTOP - 1), PDX(UPAGES)}

check_kern_pgdir ==
  /\ pc = "check_kern_pgdir"
  /\ pc' = IF KernPgdirLooksRight THEN "lcr3" ELSE "panic"
  /\ UNCHANGED <<sizes, areas, list, locals, written, mapping>>

(* lcr3, and check_page_free_list(0), which now writes to all free pages.  *)
InstallPgdir ==
  /\ pc = "lcr3"
  /\ Ends(page_free_list)
  /\ pc' = IF page_free_list # NULL /\ ListLooksRight THEN "check_installed" ELSE "panic"
  /\ UNCHANGED <<sizes, areas, list, locals, written, mapping>>

(* check_page_installed_pgdir keeps a page it took as a page table.        *)
check_page_installed_pgdir_Leaks ==
  /\ pc = "check_installed"
  /\ IF Third = NULL THEN pc' = "panic" /\ UNCHANGED list
     ELSE /\ pc' = "done"
          /\ pp_link' = [pp_link EXCEPT ![Third] = Second, ![Second] = Rest, ![First] = NULL]
          /\ page_free_list' = Third
          /\ UNCHANGED pp_ref
  /\ UNCHANGED <<sizes, areas, locals, written, mapping>>

(* It maps the second page and then the third at PGSIZE, with the first as *)
(* the page table, and gives all back.                                     *)
check_page_installed_pgdir ==
  /\ pc = "check_installed"
  /\ IF Third = NULL THEN pc' = "panic" /\ UNCHANGED list
     ELSE /\ pc' = "done"
          /\ pp_link' = [pp_link EXCEPT ![First] = Third, ![Third] = Second, ![Second] = Rest]
          /\ UNCHANGED <<page_free_list, pp_ref>>
  /\ UNCHANGED <<sizes, areas, locals, written, mapping>>

MemInitNext ==
  \/ Prepare
  \/ check_page_alloc \/ check_page
  \/ MapPage \/ RegionDone
  \/ check_kern_pgdir \/ InstallPgdir \/ check_page_installed_pgdir

(* The processor goes on executing the kernel.                             *)
MemInitSpec ==
  MemInitStart /\ [][MemInitNext]_memvars /\ WF_memvars(MemInitNext)

-----------------------------------------------------------------------------
(* Properties.                                                             *)

(* What mem_init says it maps above UTOP (pmap.c:190-231); the page tables *)
(* appear at UVPT in the order of the directory.                           *)
Wanted(va) ==
  CASE va >= KERNBASE -> Entry((va - KERNBASE) \div PGSIZE, {"W"})
    [] va \in KSTACKTOP - KSTKSIZE .. KSTACKTOP - 1 ->
         Entry((BOOTSTACK + va - (KSTACKTOP - KSTKSIZE)) \div PGSIZE, {"W"})
    [] va \in UVPT .. UVPT + PTSIZE - 1 ->
         IF pgdir[PTX(va)] = NULL THEN NULL ELSE Entry(pgdir[PTX(va)].page, {"U"})
    [] va \in UPAGES .. UPAGES + RoundUp(npages * SIZEOF) - 1 ->
         Entry((pages + va - UPAGES) \div PGSIZE, {"U"})
    [] OTHER -> NULL

VirtualPages == {k * PGSIZE : k \in 0 .. ASPACE \div PGSIZE - 1}

(* When the kernel switches to kern_pgdir, it maps all of [KERNBASE, 2^32) *)
(* to physical memory, the stack above an unmapped guard, the pages array  *)
(* and the page tables themselves, each with its rights, and nothing else: *)
(* the mapping in use goes on, and boot_map_region's surplus is gone.      *)
KernelSpace ==
  pc \in {"lcr3", "check_installed", "done"} =>
    \A va \in VirtualPages : Translate(va) = Wanted(va)

(* "From UTOP to ULIM, the user is allowed to read but not write. Above    *)
(* ULIM the user cannot read or write" (pmap.c:136), at every moment of    *)
(* the construction and although the directory allows everything.          *)
UserRights ==
  \A va \in {v \in VirtualPages : v >= UTOP} :
    Translate(va) # NULL /\ "U" \in Translate(va).perm =>
      va < ULIM /\ "W" \notin Translate(va).perm

(* mem_init returns with the free list in the state from which the page    *)
(* allocator starts (PageFreeList's Init): the pages on it, once each,     *)
(* have no references, the others have one and no link, and no user page   *)
(* is mapped.                                                              *)
HandsOver ==
  pc = "done" =>
    /\ Ends(page_free_list)
    /\ PagesFrom(page_free_list) = FreeMemory \ DOMAIN ptes
    /\ \A p \in AllPages :
         IF p \in PagesFrom(page_free_list) THEN pp_ref[p] = 0
         ELSE pp_ref[p] = 1 /\ pp_link[p] = NULL
    /\ \A d \in 0 .. PDX(UTOP) - 1 : pgdir[d] = NULL

(* mem_init returns or panics: its loops end, and no page it takes before  *)
(* the switch lies where entry_pgdir does not reach, or is missing.        *)
MemInitEnds == <>(pc \in {"done", "panic"})

(* "Map [va, va+size) of virtual address space" (pmap.c:470): the region   *)
(* of the stack ends at KSTACKTOP.                                         *)
StackRegionOnly ==
  pc = "map" /\ region = 2 => \A va \in VirtualPages : va >= KSTACKTOP => PTE(va) = NULL
=============================================================================
