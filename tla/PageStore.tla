----------------------------- MODULE PageStore -----------------------------
(***************************************************************************)
(* What the physical page allocator of kern/pmap.c promises its callers.   *)
(*                                                                         *)
(* There is a set of free pages and a reference count for every page.  A   *)
(* page handed out is one nobody else has; a page goes back to the free    *)
(* set when its last reference is dropped, or when its holder gives back a *)
(* page that never had one.  Which free page is handed out is not part of  *)
(* the promise.  Module PageFreeList, the linked list of the code, is      *)
(* shown to implement this specification.                                  *)
(***************************************************************************)
EXTENDS Naturals

CONSTANTS
  Pages,       \* the physical pages the kernel keeps a PageInfo for
  InitialFree  \* those that are free once the kernel has booted

VARIABLES
  free,  \* the pages nobody holds
  refs   \* references to each page: page-table entries and explicit ones

vars == <<free, refs>>

Init ==
  /\ free = InitialFree
  /\ refs = [p \in Pages |-> IF p \in InitialFree THEN 0 ELSE 1]

(* Some page leaves the free set and is the caller's.                      *)
Alloc ==
  \E p \in free : free' = free \ {p} /\ UNCHANGED refs

Ref(p) ==
  /\ p \notin free
  /\ refs' = [refs EXCEPT ![p] = @ + 1]
  /\ UNCHANGED free

(* Dropping the last reference frees the page.                             *)
Unref(p) ==
  /\ p \notin free
  /\ refs[p] > 0
  /\ refs' = [refs EXCEPT ![p] = @ - 1]
  /\ free' = IF refs[p] = 1 THEN free \cup {p} ELSE free

(* The holder of an unreferenced page gives it back.                       *)
Free(p) ==
  /\ p \notin free
  /\ refs[p] = 0
  /\ free' = free \cup {p}
  /\ UNCHANGED refs

Next ==
  \/ Alloc
  \/ \E p \in Pages : Ref(p) \/ Unref(p) \/ Free(p)

Spec == Init /\ [][Next]_vars
=============================================================================
