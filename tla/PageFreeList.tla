---------------------------- MODULE PageFreeList ----------------------------
(***************************************************************************)
(* The physical page allocator of kern/pmap.c: one struct PageInfo per     *)
(* page (pp_ref, pp_link) and the list of free pages that page_free_list   *)
(* heads and the pp_link fields thread.  The operations are page_alloc,    *)
(* page_free, page_decref and the pp_ref++ that pgdir_walk and page_insert *)
(* write out by hand.                                                      *)
(*                                                                         *)
(* The kernel is single threaded and runs with interrupts off, so each     *)
(* operation is one step.  Two variables are not in the code: `chain', the *)
(* free list as its history implies it, and `users', how many references   *)
(* callers really took.  No guard and no code variable depends on them     *)
(* except the guards that say what a disciplined caller does.              *)
(***************************************************************************)
EXTENDS Integers, Sequences, FiniteSets

CONSTANTS
  Pages,            \* the PageInfo entries, pages[0 .. npages-1]
  NULL,             \* the null pointer
  RefMod,           \* pp_ref is a uint16_t: it counts modulo RefMod (2^16)
  InitialFreeList   \* the list page_init leaves, first page first

ASSUME NullAssumption == NULL \notin Pages
ASSUME RefModAssumption == RefMod \in Nat /\ RefMod > 1
ASSUME InitialAssumption ==
  /\ InitialFreeList \in Seq(Pages)
  /\ \A i, j \in 1 .. Len(InitialFreeList) :
       InitialFreeList[i] = InitialFreeList[j] => i = j

VARIABLES
  pp_ref,          \* pages[p].pp_ref
  pp_link,         \* pages[p].pp_link
  page_free_list,  \* head of the free list
  panicked,        \* the kernel has called panic() and is in the monitor
  chain,           \* history: the free list, as a sequence
  users            \* history: references taken and not yet dropped

vars == <<pp_ref, pp_link, page_free_list, panicked, chain, users>>

-----------------------------------------------------------------------------
(* Sequences read as lists of pages.                                       *)

Elems(s) == {s[i] : i \in 1 .. Len(s)}

NoRepeats(s) == \A i, j \in 1 .. Len(s) : s[i] = s[j] => i = j

Push(p, s) == <<p>> \o s

(* The pages page_init put on the list; the others it marked as in use.    *)
Managed == Elems(InitialFreeList)

-----------------------------------------------------------------------------
(* The state page_init leaves: the list is linked through pp_link, pages   *)
(* that must never be handed out have pp_ref = 1 and no link.              *)

Init ==
  /\ chain = InitialFreeList
  /\ page_free_list = IF chain = <<>> THEN NULL ELSE chain[1]
  /\ pp_link = [p \in Pages |->
                 IF \E i \in 1 .. Len(chain) - 1 : chain[i] = p
                 THEN chain[1 + CHOOSE i \in 1 .. Len(chain) - 1 : chain[i] = p]
                 ELSE NULL]
  /\ pp_ref = [p \in Pages |-> IF p \in Managed THEN 0 ELSE 1]
  /\ users = pp_ref
  /\ panicked = FALSE

(* Slips in the operations below that the properties must notice.          *)

(* page_alloc forgets `pp_link = NULL'.                                    *)
page_alloc_KeepsLink ==
  /\ page_free_list # NULL
  /\ page_free_list' = pp_link[page_free_list]
  /\ chain' = Tail(chain)
  /\ UNCHANGED <<pp_ref, pp_link, panicked, users>>

(* page_free pushes whatever it is given.                                  *)
FreeOrPanic_Unchecked(p, ref) ==
  /\ pp_link' = [pp_link EXCEPT ![p] = page_free_list]
  /\ page_free_list' = p
  /\ chain' = Push(p, chain)
  /\ UNCHANGED panicked

(* page_decref forgets to free the page.                                   *)
page_decref_Leaks(p) ==
  /\ pp_ref' = [pp_ref EXCEPT ![p] = (@ - 1) % RefMod]
  /\ users' = [users EXCEPT ![p] = @ - 1]
  /\ UNCHANGED <<pp_link, page_free_list, panicked, chain>>

(* page_decref frees the page before it decrements the count.              *)
page_decref_FreesFirst(p) ==
  /\ users' = [users EXCEPT ![p] = @ - 1]
  /\ IF pp_ref[p] = 1
     THEN /\ panicked' = TRUE
          /\ UNCHANGED <<pp_ref, pp_link, page_free_list, chain>>
     ELSE /\ pp_ref' = [pp_ref EXCEPT ![p] = @ - 1]
          /\ UNCHANGED <<pp_link, page_free_list, panicked, chain>>

(* page_alloc: pop the head and clear its link.  On an empty list it       *)
(* returns NULL and changes nothing.                                       *)
page_alloc ==
  /\ page_free_list # NULL
  /\ page_free_list' = pp_link[page_free_list]
  /\ pp_link' = [pp_link EXCEPT ![page_free_list] = NULL]
  /\ chain' = Tail(chain)
  /\ UNCHANGED <<pp_ref, panicked, users>>

(* page_free, given the value `ref' of pp->pp_ref: panic when the page is  *)
(* referenced or linked, push it otherwise.                                *)
FreeOrPanic(p, ref) ==
  \/ /\ ref # 0 \/ pp_link[p] # NULL
     /\ panicked' = TRUE
     /\ UNCHANGED <<pp_link, page_free_list, chain>>
  \/ /\ ref = 0 /\ pp_link[p] = NULL
     /\ pp_link' = [pp_link EXCEPT ![p] = page_free_list]
     /\ page_free_list' = p
     /\ chain' = Push(p, chain)
     /\ UNCHANGED panicked

page_free(p) ==
  /\ FreeOrPanic(p, pp_ref[p])
  /\ UNCHANGED <<pp_ref, users>>

(* page_decref: the decrement wraps around like the uint16_t it is.        *)
page_decref(p) ==
  LET left == (pp_ref[p] - 1) % RefMod IN
  /\ pp_ref' = [pp_ref EXCEPT ![p] = left]
  /\ users' = [users EXCEPT ![p] = @ - 1]
  /\ IF left = 0
     THEN FreeOrPanic(p, left)
     ELSE UNCHANGED <<pp_link, page_free_list, panicked, chain>>

(* pp->pp_ref++, in pgdir_walk and page_insert.                            *)
page_incref(p) ==
  /\ pp_ref' = [pp_ref EXCEPT ![p] = (@ + 1) % RefMod]
  /\ users' = [users EXCEPT ![p] = @ + 1]
  /\ UNCHANGED <<pp_link, page_free_list, panicked, chain>>

-----------------------------------------------------------------------------
(* Callers.  A disciplined caller passes page_free, page_decref and the    *)
(* increment only pages that were handed out and not given back, drops     *)
(* only references that were taken, and takes fewer references than pp_ref *)
(* can count.  It may call page_free too early, on a page that still has   *)
(* references: page_free checks for that.                                  *)

HandedOut(p) == p \in Managed /\ p \notin Elems(chain)

CallFree == \E p \in Pages : HandedOut(p) /\ page_free(p)

CallDecref == \E p \in Pages : HandedOut(p) /\ users[p] > 0 /\ page_decref(p)

CallIncref ==
  \E p \in Pages : HandedOut(p) /\ users[p] < RefMod - 1 /\ page_incref(p)

Next ==
  /\ ~panicked
  /\ page_alloc \/ CallFree \/ CallDecref \/ CallIncref

Spec == Init /\ [][Next]_vars

(* A caller that may also free a page it has already freed.                *)
CallFreeAgain ==
  /\ ~panicked
  /\ \E p \in Elems(chain) : page_free(p)

SpecDoubleFree == Init /\ [][Next \/ CallFreeAgain]_vars

-----------------------------------------------------------------------------
(* Properties.                                                             *)

(* Every variable stays in its type; pp_ref stays a RefMod-valued counter. *)
TypeOK ==
  /\ pp_ref \in [Pages -> 0 .. RefMod - 1]
  /\ pp_link \in [Pages -> Pages \cup {NULL}]
  /\ page_free_list \in Pages \cup {NULL}
  /\ panicked \in BOOLEAN
  /\ chain \in Seq(Pages)
  /\ users \in [Pages -> Nat]

(* The pointers in page_free_list and the pp_link fields thread exactly    *)
(* the pages that were freed and not handed out again, once each, most     *)
(* recently freed first; every other pp_link is NULL, which is what the    *)
(* check in page_free (pmap.c:388) relies on.                              *)
ListThreadsFreePages ==
  /\ NoRepeats(chain)
  /\ page_free_list = IF chain = <<>> THEN NULL ELSE chain[1]
  /\ \A i \in 1 .. Len(chain) :
       pp_link[chain[i]] = IF i = Len(chain) THEN NULL ELSE chain[i + 1]
  /\ \A p \in Pages : p \notin Elems(chain) => pp_link[p] = NULL

(* No page on the free list is referenced, and no page page_init withheld  *)
(* (page 0, the I/O hole, the kernel image) ever gets there: a caller that *)
(* frees a page too early is stopped by the panic in page_free.            *)
FreePagesUnreferenced ==
  \A p \in Elems(chain) : p \in Managed /\ pp_ref[p] = 0 /\ users[p] = 0

(* pp_ref is the number of references, as inc/memlayout.h:179 says.        *)
PpRefCountsReferences == \A p \in Pages : pp_ref[p] = users[p]

(* page_alloc "sets the pp_link field of the allocated page to NULL so     *)
(* page_free can check for double-free bugs" (pmap.c:348): a page that is  *)
(* freed twice makes the kernel panic rather than enter the list twice.    *)
DoubleFreeIsCaught == panicked \/ NoRepeats(chain)

(* The list implements the allocator's promise.                            *)
Store == INSTANCE PageStore
           WITH free <- Elems(chain), refs <- users, InitialFree <- Managed
ImplementsPageStore == Store!Spec
=============================================================================
