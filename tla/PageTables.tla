----------------------------- MODULE PageTables -----------------------------
(***************************************************************************)
(* Page directory, page tables and the processor's TLB: pgdir_walk,        *)
(* page_insert, page_lookup, page_remove and tlb_invalidate of             *)
(* kern/pmap.c, called for one page directory and addresses below UTOP.    *)
(*                                                                         *)
(* A call is a sequence of steps, in the order of the statements, split    *)
(* wherever the MMU can tell the difference: at every store to a directory *)
(* or page table entry and at invlpg.  The MMU runs at the same time: it   *)
(* may load into the TLB, or drop from it, any translation at any moment   *)
(* (it walks speculatively).  Code that uses the mappings runs only        *)
(* between calls, for there is one processor and no interrupts.            *)
(*                                                                         *)
(* Memory is one array of words.  A word read as a page table entry is     *)
(* NULL (PTE_P clear) or names a page; any word of a data page may look    *)
(* like an entry.  The allocator is taken at the level of its promise,     *)
(* PageStore: the free pages are a set and any of them is handed out.      *)
(***************************************************************************)
EXTENDS Integers, FiniteSets

CONSTANTS
  Pages,        \* physical pages, pages[0 .. npages-1]
  InitialFree,  \* those page_init puts on the free list
  PAGE0,        \* the page at physical address 0, which page_init withholds
  NULL,         \* the null pointer, and a word whose PTE_P bit is clear
  PDXs, PTXs,   \* indices into a page directory and into a page table
  Perms,        \* the permission bits of an entry
  Writable,     \* those that include PTE_W
  DataWords,    \* what programs store in their pages
  RefMod        \* pp_ref counts modulo RefMod (2^16)

VAs == PDXs \X PTXs

Entries == [page : Pages, perm : Perms]

Words == Entries \cup {NULL}

ASSUME NullAssumption == NULL \notin Pages /\ NULL \notin Entries
ASSUME PagesAssumption == InitialFree \subseteq Pages \ {PAGE0} /\ PAGE0 \in Pages
ASSUME DataAssumption == DataWords \subseteq Words /\ Writable \subseteq Perms
ASSUME FiniteAssumption == IsFiniteSet(PDXs) /\ IsFiniteSet(PTXs)
ASSUME RefModAssumption == RefMod \in Nat /\ RefMod > 1

VARIABLES
  free,    \* the pages on page_free_list
  pp_ref,  \* pages[p].pp_ref
  table,   \* the page pgdir_walk has just allocated, or NULL
  pgdir,   \* the page table each directory entry refers to, or NULL
  mem,     \* the words of every physical page
  tlb,     \* the translations the processor has cached
  pc,      \* where the kernel is in page_insert or page_remove
  call     \* the call it is in, or NULL: operation, arguments, and the
           \*   page tables that `pte' of page_insert and `pte' of
           \*   page_remove (old) point into

vars == <<free, pp_ref, table, pgdir, mem, tlb, pc, call>>

Zeroed == [x \in PTXs |-> NULL]

(* ALLOC_ZERO, and a pgdir_walk that does without it.                      *)
NotCleared(p) == mem[p]

Cleared(p) == Zeroed

(* The entry for va, NULL as well when its page table does not exist.      *)
PTE(va) == IF pgdir[va[1]] = NULL THEN NULL ELSE mem[pgdir[va[1]]][va[2]]

(* A `pte_t *' that pgdir_walk has returned for va: it points into the     *)
(* page table t, and is good for as long as that is the one va has.        *)
EntryAt(t, va) == mem[t][va[2]]

StoreAt(t, va, entry) == mem' = [mem EXCEPT ![t][va[2]] = entry]

Entry(p, perm) == [page |-> p, perm |-> perm]

(* The page tables, with the one that pgdir_walk has just allocated.       *)
Tables ==
  {pgdir[d] : d \in {e \in PDXs : pgdir[e] # NULL}}
    \cup ({table} \ {NULL})

(* The pages callers hold or have mapped.                                  *)
Owned == (InitialFree \ free) \ Tables

-----------------------------------------------------------------------------
Init ==
  /\ free = InitialFree
  /\ pp_ref = [p \in Pages |-> IF p \in InitialFree THEN 0 ELSE 1]
  /\ table = NULL
  /\ pgdir = [d \in PDXs |-> NULL]
  /\ mem = [p \in Pages |-> Zeroed]
  /\ tlb = [va \in VAs |-> NULL]
  /\ pc = "idle"
  /\ call = NULL

(* Allocator calls, as PageStore promises them.                            *)

page_alloc(p, contents) ==
  /\ p \in free
  /\ free' = free \ {p}
  /\ mem' = [mem EXCEPT ![p] = contents]

incref(p) == pp_ref' = [pp_ref EXCEPT ![p] = (@ + 1) % RefMod]

(* page_decref forgets to free the page.                                   *)
page_decref_Leaks(p) ==
  /\ pp_ref' = [pp_ref EXCEPT ![p] = (@ - 1) % RefMod]
  /\ UNCHANGED free

page_decref(p) ==
  LET left == (pp_ref[p] - 1) % RefMod IN
  /\ pp_ref' = [pp_ref EXCEPT ![p] = left]
  /\ free' = IF left = 0 THEN free \cup {p} ELSE free

Return == pc' = "idle" /\ call' = NULL

(* page_remove returns to the caller or to page_insert.                    *)
RemoveReturns ==
  IF call.op = "insert" THEN pc' = "store" /\ UNCHANGED call ELSE Return

(* tlb_invalidate, and one that does nothing.                              *)
tlb_invalidate_Nothing(va) == UNCHANGED tlb

tlb_invalidate(va) == tlb' = [tlb EXCEPT ![va] = NULL]

(* page_insert(pgdir, pp, va, perm) begins.  The caller has the page and   *)
(* does not map it more often than pp_ref can count.                       *)
CallInsert(pp, va, perm) ==
  /\ pc = "idle"
  /\ pc' = "walk"
  /\ call' = [op |-> "insert", pp |-> pp, va |-> va, perm |-> perm,
              pte |-> NULL, old |-> NULL]
  /\ UNCHANGED <<free, pp_ref, table, pgdir, mem, tlb>>

(* pgdir_walk(create): use the page table there is, allocate and clear a   *)
(* new one, or make page_insert return -E_NO_MEM.                          *)
Walk ==
  /\ pc = "walk"
  /\ \/ /\ pgdir[call.va[1]] # NULL
        /\ call' = [call EXCEPT !.pte = pgdir[call.va[1]]]
        /\ pc' = "incref"
        /\ UNCHANGED <<free, mem, table>>
     \/ /\ pgdir[call.va[1]] = NULL
        /\ \E p \in free : page_alloc(p, Cleared(p)) /\ table' = p
        /\ pc' = "install"
        /\ UNCHANGED call
     \/ /\ pgdir[call.va[1]] = NULL /\ free = {}
        /\ Return
        /\ UNCHANGED <<free, mem, table>>
  /\ UNCHANGED <<pp_ref, pgdir, tlb>>

(* pgdir_walk, continued: count the reference and store the entry.         *)
InstallTable ==
  /\ pc = "install"
  /\ incref(table)
  /\ pgdir' = [pgdir EXCEPT ![call.va[1]] = table]
  /\ table' = NULL
  /\ call' = [call EXCEPT !.pte = table]
  /\ pc' = "incref"
  /\ UNCHANGED <<free, mem, tlb>>

(* What is mapped there is page_remove()d, which walks for itself.         *)
RemovesOld ==
  IF EntryAt(call.pte, call.va) # NULL
  THEN pc' = "decref" /\ call' = [call EXCEPT !.old = pgdir[call.va[1]]]
  ELSE pc' = "store" /\ UNCHANGED call

(* A page_insert that does not count a page it finds already mapped there. *)
InsertIncref_SamePage ==
  /\ pc = "incref"
  /\ IF PTE(call.va) # NULL /\ PTE(call.va).page = call.pp
     THEN UNCHANGED pp_ref
     ELSE incref(call.pp)
  /\ RemovesOld
  /\ UNCHANGED <<free, table, pgdir, mem, tlb>>

(* page_insert counts the new mapping before it removes the old one.       *)
InsertIncref ==
  /\ pc = "incref"
  /\ incref(call.pp)
  /\ RemovesOld
  /\ UNCHANGED <<free, table, pgdir, mem, tlb>>

(* It stores through the pointer it got before page_remove was called.     *)
InsertStore ==
  /\ pc = "store"
  /\ StoreAt(call.pte, call.va, Entry(call.pp, call.perm))
  /\ Return
  /\ UNCHANGED <<free, pp_ref, table, pgdir, tlb>>

(* page_remove(pgdir, va): returns at once when nothing is mapped (a step  *)
(* that changes nothing), and goes on otherwise.                           *)
CallRemove(va) ==
  /\ pc = "idle"
  /\ PTE(va) # NULL
  /\ pc' = "decref"
  /\ call' = [op |-> "remove", va |-> va, old |-> pgdir[va[1]]]
  /\ UNCHANGED <<free, pp_ref, table, pgdir, mem, tlb>>

RemoveDecref ==
  /\ pc = "decref"
  /\ page_decref(EntryAt(call.old, call.va).page)
  /\ pc' = "clear"
  /\ UNCHANGED <<table, pgdir, mem, tlb, call>>

(* A page_remove that leaves the entry as it is.                           *)
RemoveClear_Forgotten ==
  /\ pc = "clear"
  /\ pc' = "invlpg"
  /\ UNCHANGED <<free, pp_ref, table, pgdir, mem, tlb, call>>

(* A page_remove that invalidates the TLB before it clears the entry: the  *)
(* processor may load the translation again in between.                    *)
RemoveClear_AfterInvlpg ==
  /\ pc = "clear"
  /\ StoreAt(call.old, call.va, NULL)
  /\ RemoveReturns
  /\ UNCHANGED <<free, pp_ref, table, pgdir, tlb>>

RemoveClear ==
  /\ pc = "clear"
  /\ StoreAt(call.old, call.va, NULL)
  /\ pc' = "invlpg"
  /\ UNCHANGED <<free, pp_ref, table, pgdir, tlb, call>>

RemoveInvalidate ==
  /\ pc = "invlpg"
  /\ tlb_invalidate(call.va)
  /\ RemoveReturns
  /\ UNCHANGED <<free, pp_ref, table, pgdir, mem>>

(* What page_lookup returns: NULL without a page table, else pa2page of    *)
(* the entry, which for an entry of 0 is the page at physical address 0.   *)
page_lookup(va) ==
  IF pgdir[va[1]] = NULL THEN NULL
  ELSE IF PTE(va) = NULL THEN PAGE0 ELSE PTE(va).page

-----------------------------------------------------------------------------
(* Callers, and programs that use the mappings.                            *)

(* A caller allocates a page, with ALLOC_ZERO or without.                  *)
ClientAlloc ==
  /\ pc = "idle"
  /\ \E p \in free : \E contents \in {Cleared(p), mem[p]} : page_alloc(p, contents)
  /\ UNCHANGED <<pp_ref, table, pgdir, tlb, pc, call>>

(* It gives back a page it never mapped.                                   *)
ClientFree ==
  /\ pc = "idle"
  /\ \E p \in Owned : pp_ref[p] = 0 /\ free' = free \cup {p}
  /\ UNCHANGED <<pp_ref, table, pgdir, mem, tlb, pc, call>>

(* The holder writes a page through its kernel address.                    *)
HolderStore ==
  /\ pc = "idle"
  /\ \E p \in Owned, x \in PTXs, w \in DataWords : mem' = [mem EXCEPT ![p][x] = w]
  /\ UNCHANGED <<free, pp_ref, table, pgdir, tlb, pc, call>>

(* A store through a mapping goes where the TLB says.                      *)
MappedStore ==
  /\ pc = "idle"
  /\ \E va \in VAs, x \in PTXs, w \in DataWords :
       /\ tlb[va] # NULL /\ tlb[va].perm \in Writable
       /\ mem' = [mem EXCEPT ![tlb[va].page][x] = w]
  /\ UNCHANGED <<free, pp_ref, table, pgdir, tlb, pc, call>>

(* The MMU.                                                                *)

TLBFill ==
  /\ \E va \in VAs : PTE(va) # NULL /\ tlb' = [tlb EXCEPT ![va] = PTE(va)]
  /\ UNCHANGED <<free, pp_ref, table, pgdir, mem, pc, call>>

TLBEvict ==
  /\ \E va \in VAs : tlb[va] # NULL /\ tlb' = [tlb EXCEPT ![va] = NULL]
  /\ UNCHANGED <<free, pp_ref, table, pgdir, mem, pc, call>>

Kernel == Walk \/ InstallTable \/ InsertIncref \/ InsertStore
            \/ RemoveDecref \/ RemoveClear \/ RemoveInvalidate

Environment == ClientAlloc \/ ClientFree \/ HolderStore \/ MappedStore
                 \/ TLBFill \/ TLBEvict

(* Bound: callers leave room for one more mapping in pp_ref.  The code     *)
(* does not check: one too many and the counter of a mapped page is 0.     *)
Inserts(limit) ==
  \E pp \in Owned, va \in VAs, perm \in Perms :
    pp_ref[pp] < limit /\ CallInsert(pp, va, perm)

Next ==
  \/ Inserts(RefMod - 1)
  \/ \E va \in VAs : CallRemove(va)
  \/ Kernel
  \/ Environment

Spec == Init /\ [][Next]_vars

-----------------------------------------------------------------------------
(* Properties.                                                             *)

Calls ==
  [op : {"insert"}, pp : Pages, va : VAs, perm : Perms,
   pte : Pages \cup {NULL}, old : Pages \cup {NULL}]
    \cup [op : {"remove"}, va : VAs, old : Pages]

(* Every variable stays in its type, and the kernel is where its call can  *)
(* be: page_remove has only three steps, before page_insert's last.        *)
TypeOK ==
  /\ free \subseteq InitialFree
  /\ pp_ref \in [Pages -> 0 .. RefMod - 1]
  /\ pgdir \in [PDXs -> Pages \cup {NULL}]
  /\ mem \in [Pages -> [PTXs -> Words]]
  /\ tlb \in [VAs -> Words]
  /\ \/ pc = "idle" /\ call = NULL
     \/ /\ pc \in {"decref", "clear", "invlpg"}
        /\ call \in Calls
     \/ /\ pc \in {"walk", "install", "incref", "store"}
        /\ call \in Calls /\ call.op = "insert"
  /\ IF pc = "install" THEN table \in Pages ELSE table = NULL

(* What the calls so far have made of the address space.  The mapping of a *)
(* call in progress takes effect when its counters have been settled.      *)
Settled(va) == pc \in {"clear", "invlpg", "store"} /\ va = call.va

MapNow == [va \in VAs |->
             IF ~Settled(va) THEN PTE(va)
             ELSE IF call.op = "insert" THEN Entry(call.pp, call.perm) ELSE NULL]

(* The mappings of a page.                                                 *)
Mappings(p) == {va \in VAs : MapNow[va] # NULL /\ MapNow[va].page = p}

(* A page is free, a page table of one directory entry, or in the hands of *)
(* callers; only pages of the last kind are mapped.  Hence nothing a       *)
(* program stores can reach a page table or a page that page_alloc is      *)
(* about to hand out again.                                                *)
PagesSeparate ==
  /\ Tables \cap free = {} /\ Tables \subseteq InitialFree
  /\ \A d, e \in PDXs : pgdir[d] = pgdir[e] /\ pgdir[d] # NULL => d = e
  /\ table # NULL => \A d \in PDXs : pgdir[d] # table
  /\ \A va \in VAs : MapNow[va] # NULL => MapNow[va].page \in Owned
  /\ pc # "idle" /\ call.op = "insert" => call.pp \in Owned

(* The TLB holds nothing that the page tables do not say, except the entry *)
(* that page_remove has just cleared and is about to invalidate.           *)
TLBCoherent ==
  \A va \in VAs : tlb[va] # NULL =>
    tlb[va] = PTE(va) \/ (pc = "invlpg" /\ va = call.va)

(* What each step relies on and an earlier one established: pp_ref has     *)
(* room for the count, the page table exists and was cleared, the pointers *)
(* page_insert and page_remove keep are still into the page table of va,   *)
(* page_remove has an entry to remove, and page_insert stores into an      *)
(* empty entry, as its comment at pmap.c:548 has it.                       *)
CallState ==
  /\ pc \in {"walk", "install", "incref"} => pp_ref[call.pp] < RefMod - 1
  /\ pc \in {"incref", "decref", "clear", "invlpg", "store"} =>
       pgdir[call.va[1]] # NULL
  /\ pc \in {"incref", "decref", "clear", "invlpg", "store"}
       /\ call.op = "insert" => call.pte = pgdir[call.va[1]]
  /\ pc \in {"decref", "clear", "invlpg"} => call.old = pgdir[call.va[1]]
  /\ table # NULL => mem[table] = Zeroed /\ pgdir[call.va[1]] = NULL
  /\ pc = "decref" => PTE(call.va) # NULL
  /\ pc \in {"invlpg", "store"} => PTE(call.va) = NULL

(* The other references to a page: the directory's, and page_insert's own. *)
AsTable(p) == IF \E d \in PDXs : pgdir[d] = p THEN 1 ELSE 0

InAdvance(p) ==
  IF pc = "decref" /\ call.op = "insert" /\ call.pp = p THEN 1 ELSE 0

(* pp_ref counts a page's mappings and its use as a page table ("the count *)
(* of pointers (usually in page table entries) to this page",              *)
(* inc/memlayout.h:179), and the mapping that page_insert has counted in   *)
(* advance.                                                                *)
PpRefCountsMappings ==
  \A p \in InitialFree :
    pp_ref[p] = Cardinality(Mappings(p)) + AsTable(p) + InAdvance(p)

(* "Return NULL if there is no page mapped at va" (pmap.c:561).            *)
LookupNullIfUnmapped ==
  pc = "idle" => \A va \in VAs : PTE(va) = NULL => page_lookup(va) = NULL

(* The contents of the pages that exist for callers.                       *)
Contents == [p \in Pages |-> IF p \in Owned THEN mem[p] ELSE NULL]

(* page_insert, page_remove and the page tables are an address space.      *)
Space == INSTANCE AddressSpace
           WITH Offsets <- PTXs, alloced <- Owned, map <- MapNow,
                data <- Contents
ImplementsAddressSpace == Space!Spec

(* They use the allocator within its contract: they count references only  *)
(* to pages that are not free and drop none they did not count.            *)
Store == INSTANCE PageStore WITH refs <- pp_ref
UsesPageStore == Store!Spec
=============================================================================
