---------------------------- MODULE MemInit_proofs ---------------------------
(***************************************************************************)
(* Proofs about mem_init of kern/pmap.c, from i386_detect_memory to        *)
(* check_page_installed_pgdir, for every machine and every layout that the *)
(* assumptions of PageInit and MemInit allow.                              *)
(*                                                                         *)
(* First detect_memory, boot_alloc, page_init and check_page_free_list.    *)
(* Their loops are lists of pages being rewritten while they are walked    *)
(* along. What makes their invariant provable is an order: a list is a     *)
(* chain through a set along which a rank falls. The rank is the page's    *)
(* number while page_init builds the list; after check_page_free_list has  *)
(* put the low pages in front, theirs are raised above the others'.        *)
(* ChainList shows that what the model computes by following pp_link is    *)
(* the set the chain goes through.                                         *)
(*                                                                         *)
(* Then the address space. The invariant needs its parts together. That    *)
(* pgdir_walk always finds a page for a table, and one that entry_pgdir    *)
(* maps, needs the free list with its low pages in front, a count of the   *)
(* tables that are in use (TableAvailable) and that these are distinct     *)
(* (TablesOK). That mapping one page changes no other entry needs the      *)
(* tables to be distinct and off the free list. The address space is then  *)
(* read off the entries that the loops have written (MappingOK), where the *)
(* second region is written KSTKSIZE pages long and its excess is          *)
(* overwritten by the third.                                               *)
(***************************************************************************)
EXTENDS MemInit, FiniteSetTheorems, WellFoundedInduction, TLAPS

(* From h the links lead through all pages of L and end, in the order of   *)
(* falling ranks.                                                          *)
Chain(h, link, L, rk) ==
  /\ IF L = {} THEN h = NULL ELSE h \in L /\ \A q \in L : rk[q] <= rk[h]
  /\ \A p, q \in L : rk[p] = rk[q] => p = q
  /\ \A p \in L :
       \/ link[p] = NULL /\ \A q \in L : rk[p] <= rk[q]
       \/ /\ link[p] \in L /\ rk[link[p]] < rk[p]
          /\ \A q \in L : rk[q] < rk[p] => rk[q] <= rk[link[p]]

(* The machine is one that i386_detect_memory may find.                    *)
SizesOK ==
  /\ machine \in Machines
  /\ npages \in Nat

(* The hole, the image and boot_alloc's areas, by page number.             *)
IoPage == IOPHYSMEM \div PGSIZE
ExtPage == EXTPHYSMEM \div PGSIZE
KernPage == RoundUp(END) \div PGSIZE
FreePage == nextfree \div PGSIZE
Window == PTSIZE \div PGSIZE
PagesStart == RoundUp(END) + PGSIZE

(* Where page_init has not started, and where the kernel has stopped.      *)
BeforeList == {"detect", "pgdir", "pages"}
Stopped == {"panic", "fault"}
Running == pc \notin BeforeList \cup Stopped

(* What boot_alloc has given out: kern_pgdir right behind the image, pages *)
(* behind it, and all of it below PTSIZE.                                  *)
AreasOK ==
  /\ pc \in {"detect", "pgdir"} => nextfree = RoundUp(END)
  /\ pc \notin {"detect", "pgdir", "panic"} => kern_pgdir = KernPage /\ PagesStart <= PTSIZE
  /\ pc = "pages" => nextfree = PagesStart
  /\ Running =>
       /\ pages = PagesStart
       /\ nextfree = RoundUp(PagesStart + npages * SIZEOF)
       /\ nextfree <= PTSIZE

(* The pages page_init leaves on the list.                                 *)
Kept == {p \in AllPages : ~Reserved(p)}

(* The types of pp_ref, pp_link and page_free_list.                        *)
Fields ==
  /\ pp_ref \in [AllPages -> Nat]
  /\ pp_link \in [AllPages -> AllPages \cup {NULL}]
  /\ page_free_list \in AllPages \cup {NULL}

(* The pages of L are free, all others are in use and linked to nothing.   *)
Only(L) == \A p \in AllPages :
  IF p \in L THEN pp_ref[p] = 0 ELSE pp_ref[p] = 1 /\ pp_link[p] = NULL

(* page_init pushes the pages in the order of their numbers;               *)
(* check_page_free_list then puts those below PTSIZE in front.             *)
Number == [p \in AllPages |-> p]
LowFirst == [p \in AllPages |-> IF Low(p) THEN npages + p ELSE p]

(* The first loop of page_init has pushed the pages below at.              *)
Pushed ==
  /\ at \in 0 .. npages
  /\ Chain(page_free_list, pp_link, 0 .. at - 1, Number)
  /\ \A p \in AllPages : pp_ref[p] = 0

(* The page the second loop looks at next, and what it has left on the     *)
(* list.                                                                   *)
NextPage == IF Deref(at) = NULL THEN -1 ELSE Deref(at)
Left == 0 .. NextPage \cup {p \in Kept : p > NextPage}

(* The second loop holds the address of a link to the next page: that of   *)
(* the page above it that was kept last, or the head.                      *)
Filtered ==
  /\ at \in Kept \cup {HEAD}
  /\ Chain(page_free_list, pp_link, Left, Number)
  /\ at # HEAD => at > NextPage
  /\ \A p \in Kept : p > NextPage => at # HEAD /\ p >= at
  /\ Only(Left)

(* The loop of check_page_free_list that sorts the pages into two          *)
(* segments: those from the top of memory down to at have been moved.      *)
NextToMove == IF at = NULL THEN -1 ELSE at
Moved(t) == {p \in Kept : p > NextToMove /\ Pagetype(p) = t}

(* A segment is in falling order from its head to the page whose link tp   *)
(* is about to write.                                                      *)
SegmentOK(t) ==
  IF Moved(t) = {} THEN tp[t] = HEAD
  ELSE /\ tp[t] \in Moved(t) /\ seg[t] \in Moved(t)
       /\ \A p \in Moved(t) : tp[t] <= p /\ p <= seg[t]
       /\ \A p \in Moved(t) \ {tp[t]} :
            /\ pp_link[p] \in Moved(t) /\ pp_link[p] < p
            /\ \A q \in Moved(t) : q < p => q <= pp_link[p]

(* What has not been moved is a list as before; a link left over from that *)
(* list leads downwards, like all others.                                  *)
Reordered ==
  /\ at \in Kept \cup {NULL}
  /\ seg \in [{0, 1} -> AllPages \cup {NULL}]
  /\ tp \in [{0, 1} -> AllPages \cup {HEAD}]
  /\ Chain(at, pp_link, {p \in Kept : p <= NextToMove}, Number)
  /\ \A p \in AllPages : pp_link[p] # NULL => pp_link[p] < p
  /\ \A t \in {0, 1} : SegmentOK(t)

(* The free list at every step of page_init and check_page_free_list.      *)
ListOK ==
  /\ Running => Fields
  /\ pc = "push" => Pushed
  /\ pc = "filter" => Filtered
  /\ pc = "check" => Chain(page_free_list, pp_link, Kept, Number)
  /\ pc = "reorder" => Reordered
  /\ pc \in {"assert", "checked"} => Chain(page_free_list, pp_link, Kept, LowFirst)
  /\ pc \in {"check", "reorder", "assert", "checked"} => Only(Kept)
  /\ pc = "checked" => Bootable

(* What the checks start from: they see these three as set by Init.        *)
LocalsOK ==
  pc \in BeforeList \cup {"push", "filter", "check"} =>
    /\ seg = [t \in {0, 1} |-> NULL] /\ tp = [t \in {0, 1} |-> HEAD]
    /\ pc # "push" /\ pc # "filter" /\ pc # "check" => page_free_list = NULL

(* The pages boot_alloc's callers and memset have written.                 *)
WrittenOK == written \subseteq Nat /\ EarlyWritesMapped

(* The inductive invariant of page_init.                                   *)
PageInitInv == SizesOK /\ AreasOK /\ ListOK /\ LocalsOK /\ WrittenOK

-----------------------------------------------------------------------------
(* Arithmetic.                                                             *)

(* Quotient and remainder.                                                 *)
LEMMA Division ==
  ASSUME NEW n \in Int, NEW d \in Nat \ {0}
  PROVE  /\ n \div d \in Int /\ n % d \in 0 .. d - 1
         /\ n = (n \div d) * d + (n % d)
  OBVIOUS

(* The multiples of d are ordered as their factors are.                    *)
LEMMA Multiples ==
  ASSUME NEW a \in Int, NEW b \in Int, NEW d \in Nat \ {0}
  PROVE  /\ a * d \in Int
         /\ a <= b <=> a * d <= b * d
         /\ a < b <=> a * d < b * d
         /\ a < b <=> a * d + d <= b * d
         /\ a * d = b * d => a = b
         /\ (a + b) * d = a * d + b * d
         /\ (a - b) * d = a * d - b * d
  OBVIOUS

(* Dividing a multiple of d and what is added to it.                       *)
LEMMA Quotient ==
  ASSUME NEW q \in Int, NEW d \in Nat \ {0}, NEW r \in 0 .. d - 1
  PROVE  /\ (q * d + r) \div d = q
         /\ (q * d + r) % d = r
         /\ (q * d) \div d = q
         /\ (q * d) % d = 0
  OBVIOUS

(* The sizes are numbers.                                                  *)
LEMMA Constants ==
  /\ PGSIZE \in Nat \ {0} /\ SIZEOF \in Nat \ {0} /\ KB \in Nat \ {0}
  /\ IOPHYSMEM \in Nat /\ EXTPHYSMEM \in Nat /\ PTSIZE \in Nat
  /\ KERNBASE \in Nat /\ ASPACE \in Nat /\ END \in Nat
  BY SizeAssumption, LayoutAssumption

(* ROUNDUP: a whole number of pages, not below n, by less than a page.     *)
LEMMA RoundUpFacts ==
  ASSUME NEW n \in Nat
  PROVE  /\ RoundUp(n) \div PGSIZE \in Nat
         /\ RoundUp(n) = (RoundUp(n) \div PGSIZE) * PGSIZE
         /\ n <= RoundUp(n) /\ RoundUp(n) < n + PGSIZE
PROOF
<1> DEFINE m == n + PGSIZE - 1
           q == m \div PGSIZE
<1>1. m \in Nat /\ PGSIZE \in Nat \ {0}
  BY Constants
<1>2. q \in Int /\ m % PGSIZE \in 0 .. PGSIZE - 1 /\ m = q * PGSIZE + (m % PGSIZE)
  BY <1>1, Division
<1>3. RoundUp(n) = q * PGSIZE
  BY DEF RoundUp
<1> HIDE DEF q
<1>4. q * PGSIZE \in Int /\ n <= q * PGSIZE /\ q * PGSIZE < n + PGSIZE
  BY <1>1, <1>2, Multiples
<1>5. q >= 0
  <2>1. 0 * PGSIZE = 0
    BY <1>1
  <2>2. 0 <= q <=> 0 * PGSIZE <= q * PGSIZE
    BY <1>1, <1>2, Multiples
  <2> QED BY <2>1, <2>2, <1>2, <1>4
<1>6. (q * PGSIZE) \div PGSIZE = q
  BY <1>1, <1>2, Quotient
<1> QED BY <1>2, <1>3, <1>4, <1>5, <1>6

(* ROUNDUP is the first such number of pages.                              *)
LEMMA RoundUpLeast ==
  ASSUME NEW n \in Nat, NEW k \in Int, n <= k * PGSIZE
  PROVE  RoundUp(n) <= k * PGSIZE
PROOF
<1> DEFINE q == RoundUp(n) \div PGSIZE
<1>1. q \in Nat /\ RoundUp(n) = q * PGSIZE /\ RoundUp(n) < n + PGSIZE
  BY RoundUpFacts
<1> HIDE DEF q
<1>2. PGSIZE \in Nat \ {0}
  BY Constants
<1>3. k * PGSIZE \in Int /\ q * PGSIZE \in Int
  BY <1>1, <1>2, Multiples
<1>4. k < q => k * PGSIZE + PGSIZE <= q * PGSIZE
  BY <1>1, <1>2, Multiples
<1>5. q <= k => q * PGSIZE <= k * PGSIZE
  BY <1>1, <1>2, Multiples
<1> QED BY <1>1, <1>2, <1>3, <1>4, <1>5

(* ROUNDUP of an address so many pages up.                                 *)
LEMMA RoundUpShift ==
  ASSUME NEW n \in Nat, NEW k \in Nat
  PROVE  RoundUp(k * PGSIZE + n) = k * PGSIZE + RoundUp(n)
PROOF
<1> DEFINE m == n + PGSIZE - 1
           q == m \div PGSIZE
<1>1. m \in Nat /\ PGSIZE \in Nat \ {0} /\ k * PGSIZE \in Nat
  <2>1. PGSIZE \in Nat \ {0}
    BY Constants
  <2>2. k * PGSIZE \in Nat
    BY <2>1
  <2> QED BY <2>1, <2>2
<1>2. q \in Int /\ m % PGSIZE \in 0 .. PGSIZE - 1 /\ m = q * PGSIZE + (m % PGSIZE)
  BY <1>1, Division
<1>3. RoundUp(n) = q * PGSIZE
  BY DEF RoundUp
<1> DEFINE r == m % PGSIZE
<1>4. (k + q) * PGSIZE = k * PGSIZE + q * PGSIZE
  BY <1>1, <1>2, Multiples
<1>5. k * PGSIZE + n + PGSIZE - 1 = (k + q) * PGSIZE + r
  <2> HIDE DEF q, r
  <2>1. q * PGSIZE \in Int
    BY <1>1, <1>2, Multiples
  <2> QED BY <2>1, <1>1, <1>2, <1>4 DEF r
<1>6. (k * PGSIZE + n + PGSIZE - 1) \div PGSIZE = k + q
  <2> HIDE DEF q, r, m
  <2>1. k + q \in Int /\ r \in 0 .. PGSIZE - 1
    BY <1>2 DEF r
  <2>2. ((k + q) * PGSIZE + r) \div PGSIZE = k + q
    BY <1>1, <2>1, Quotient
  <2> QED BY <1>5, <2>2
<1>7. RoundUp(k * PGSIZE + n) = (k + q) * PGSIZE
  BY <1>6 DEF RoundUp
<1> QED BY <1>3, <1>4, <1>7


-----------------------------------------------------------------------------
(* Lists.                                                                  *)

(* A set of numbers that is not empty has a least one.                     *)
LEMMA LeastNat ==
  ASSUME NEW S \in SUBSET Nat, S # {}
  PROVE  \E m \in S : \A k \in S : m <= k
PROOF
<1> DEFINE R == OpToRel(<, Nat)
<1>1. IsWellFoundedOn(R, Nat)
  BY NatLessThanWellFounded
<1>2. \A x, y \in Nat : x < y => <<x, y>> \in R
  BY DEF OpToRel
<1> HIDE DEF R
<1>3. PICK m \in S : \A k \in S : ~ (<<k, m>> \in R)
  BY <1>1, WFMin
<1>4. ASSUME NEW k \in S PROVE m <= k
  <2>1. m \in Nat /\ k \in Nat /\ ~ (<<k, m>> \in R)
    BY <1>3
  <2>2. ~(k < m)
    BY <2>1, <1>2
  <2> QED BY <2>1, <2>2
<1> QED BY <1>4

(* Following a function from h, n times. *)
Follow(N, F, h) ==
  LET nth[n \in 0 .. N] == IF n = 0 THEN h ELSE F[nth[n - 1]] IN nth

(* There is such a function for every N: were there none, there would be a *)
(* least N without one, and one for N - 1 extends to N.                    *)
LEMMA FollowDef ==
  ASSUME NEW N \in Nat, NEW F, NEW h
  PROVE  Follow(N, F, h) =
           [n \in 0 .. N |-> IF n = 0 THEN h ELSE F[Follow(N, F, h)[n - 1]]]
PROOF
<1> DEFINE Def(g, m) == g = [n \in 0 .. m |-> IF n = 0 THEN h ELSE F[g[n - 1]]]
           Bad == {m \in Nat : ~ \E g : Def(g, m)}
<1>1. \A m \in Nat : m \in Bad <=> ~ \E g : Def(g, m)
  OBVIOUS
<1>2. Bad \subseteq Nat
  OBVIOUS
<1> HIDE DEF Bad
<1>3. Bad = {}
  <2> SUFFICES ASSUME Bad # {} PROVE FALSE
    OBVIOUS
  <2>1. PICK m \in Bad : \A k \in Bad : m <= k
    BY <1>2, LeastNat
  <2>2. m # 0
    <3> DEFINE g == [n \in 0 .. 0 |-> h]
    <3>1. Def(g, 0)
      OBVIOUS
    <3> QED BY <3>1, <1>1
  <2>3. m - 1 \in Nat /\ m - 1 \notin Bad
    BY <2>1, <2>2, <1>2
  <2>4. PICK g : Def(g, m - 1)
    BY <2>3, <1>1
  <2> DEFINE e == [n \in 0 .. m |-> IF n = 0 THEN h ELSE F[g[n - 1]]]
  <2>6. m \in Nat
    BY <1>2
  <2>5. \A n \in 0 .. m - 1 : e[n] = g[n]
    <3>1. g = [n \in 0 .. m - 1 |-> IF n = 0 THEN h ELSE F[g[n - 1]]]
      BY <2>4
    <3>2. \A n \in 0 .. m - 1 : g[n] = IF n = 0 THEN h ELSE F[g[n - 1]]
      BY <3>1
    <3>3. \A n \in 0 .. m - 1 : n \in 0 .. m
      BY <2>6
    <3> QED BY <3>2, <3>3
  <2>7. \A n \in 1 .. m : n - 1 \in 0 .. m - 1 /\ e[n] = F[g[n - 1]]
    BY <2>6
  <2> HIDE DEF e
  <2>8. \A n \in 1 .. m : e[n] = F[e[n - 1]]
    BY <2>5, <2>7
  <2>9. e[0] = h /\ e = [n \in 0 .. m |-> e[n]]
    BY <2>6 DEF e
  <2>10. \A n \in 0 .. m : n # 0 => n \in 1 .. m
    BY <2>6
  <2>11. Def(e, m)
    BY <2>8, <2>9, <2>10
  <2> QED BY <2>11, <2>6, <1>1
<1>4. \E g : Def(g, N)
  BY <1>1, <1>3
<1>5. Follow(N, F, h) = CHOOSE g : Def(g, N)
  BY DEF Follow
<1>6. Def(CHOOSE g : Def(g, N), N)
  BY <1>4
<1> QED BY <1>5, <1>6

(* ListFrom is the function its recursion describes.                       *)
LEMMA ListDef ==
  ASSUME npages \in Nat, NEW h
  PROVE  /\ DOMAIN ListFrom(h) = 0 .. npages
         /\ ListFrom(h)[0] = h
         /\ \A n \in 1 .. npages : ListFrom(h)[n] = Link[ListFrom(h)[n - 1]]
PROOF
<1>1. ListFrom(h) = Follow(npages, Link, h)
  BY DEF ListFrom, Follow
<1> DEFINE f == Follow(npages, Link, h)
<1>2. f = [n \in 0 .. npages |-> IF n = 0 THEN h ELSE Link[f[n - 1]]]
  BY FollowDef
<1> HIDE DEF f
<1> QED BY <1>1, <1>2 DEF f

(* A chain is a list in the sense of the model: following pp_link from h   *)
(* visits the pages of L and then meets NULL.                              *)
LEMMA ChainList ==
  ASSUME npages \in Nat, NEW L \in SUBSET AllPages, NEW rk \in [AllPages -> Int],
         NEW h, Chain(h, pp_link, L, rk)
  PROVE  PagesFrom(h) = L /\ Ends(h)
PROOF
<1> DEFINE f == ListFrom(h)
<1>1. f[0] = h /\ \A n \in 1 .. npages : f[n] = Link[f[n - 1]]
  BY ListDef
<1>2. PagesFrom(h) = {f[n] : n \in 0 .. npages} \ {NULL} /\ Ends(h) = (f[npages] = NULL)
  BY DEF PagesFrom, Ends
<1> HIDE DEF f
<1>3. \A p \in L : p \in AllPages /\ p # NULL /\ rk[p] \in Int
  BY PointerAssumption DEF AllPages
<1>4. /\ Link[NULL] = NULL
      /\ \A p \in L : Link[p] = pp_link[p]
  BY <1>3 DEF Link
<1>5. \A n \in 0 .. npages : f[n] \in L \cup {NULL}
  <2> DEFINE Bad == {n \in 0 .. npages : f[n] \notin L \cup {NULL}}
  <2> SUFFICES ASSUME Bad # {} PROVE FALSE
    OBVIOUS
  <2>0. Bad \in SUBSET Nat
    OBVIOUS
  <2> HIDE DEF Bad
  <2>1. PICK m \in Bad : \A k \in Bad : m <= k
    BY <2>0, LeastNat
  <2> USE DEF Bad
  <2>2. m # 0
    BY <1>1 DEF Chain
  <2>3. m - 1 \in 0 .. npages /\ m - 1 \notin Bad /\ m \in 1 .. npages
    BY <2>1, <2>2
  <2>4. f[m - 1] \in L \cup {NULL} /\ f[m] = Link[f[m - 1]]
    BY <2>3, <1>1
  <2>5. f[m] \in L \cup {NULL}
    BY <2>4, <1>4 DEF Chain
  <2> QED BY <2>5
(* The ranks fall along the list, and only NULL follows NULL.              *)
<1>6. \A n \in 1 .. npages : f[n] # NULL =>
        /\ f[n - 1] \in L /\ f[n] \in L
        /\ rk[f[n]] < rk[f[n - 1]]
        /\ \A q \in L : rk[q] < rk[f[n - 1]] => rk[q] <= rk[f[n]]
  <2> SUFFICES ASSUME NEW n \in 1 .. npages, f[n] # NULL
               PROVE  /\ f[n - 1] \in L /\ f[n] \in L
                      /\ rk[f[n]] < rk[f[n - 1]]
                      /\ \A q \in L : rk[q] < rk[f[n - 1]] => rk[q] <= rk[f[n]]
    OBVIOUS
  <2>1. f[n - 1] \in L \cup {NULL} /\ f[n] = Link[f[n - 1]]
    BY <1>1, <1>5
  <2>2. f[n - 1] \in L /\ f[n] = pp_link[f[n - 1]]
    BY <2>1, <1>4
  <2> QED BY <2>2 DEF Chain
(* The list ends: it is too long otherwise for pages that differ.          *)
<1>7. f[npages] = NULL
  <2> SUFFICES ASSUME f[npages] # NULL PROVE FALSE
    OBVIOUS
  <2>1. \A n \in 0 .. npages : f[n] # NULL
    <3> DEFINE Bad == {k \in 0 .. npages : f[npages - k] = NULL}
    <3> SUFFICES ASSUME Bad # {} PROVE FALSE
      OBVIOUS
    <3>0. Bad \in SUBSET Nat
      OBVIOUS
    <3> HIDE DEF Bad
    <3>1. PICK m \in Bad : \A k \in Bad : m <= k
      BY <3>0, LeastNat
    <3> USE DEF Bad
    <3>2. m # 0 /\ m - 1 \in 0 .. npages
      OBVIOUS
    <3>3. f[npages - m + 1] # NULL /\ npages - m + 1 \in 1 .. npages
      BY <3>1, <3>2
    <3>4. f[npages - m] \in L
      BY <3>3, <1>6
    <3> QED BY <3>4, <1>3
  <2>2. \A n \in 0 .. npages : f[n] \in L
    BY <2>1, <1>5
  <2>3. \A k \in 1 .. npages : \A n \in 0 .. npages - k : rk[f[n + k]] < rk[f[n]]
    <3> DEFINE Bad == {k \in 1 .. npages : \E n \in 0 .. npages - k : ~(rk[f[n + k]] < rk[f[n]])}
    <3> SUFFICES ASSUME Bad # {} PROVE FALSE
      OBVIOUS
    <3>0. Bad \in SUBSET Nat
      OBVIOUS
    <3> HIDE DEF Bad
    <3>1. PICK m \in Bad : \A k \in Bad : m <= k
      BY <3>0, LeastNat
    <3> USE DEF Bad
    <3>2. PICK n \in 0 .. npages - m : ~(rk[f[n + m]] < rk[f[n]])
      OBVIOUS
    <3>3. n + m \in 1 .. npages /\ rk[f[n + m]] < rk[f[n + m - 1]]
      BY <2>1, <1>6
    <3>4. m # 1
      BY <3>2, <3>3
    <3>5. m - 1 \in 1 .. npages /\ n \in 0 .. npages - (m - 1)
      BY <3>4
    <3>9. m - 1 \notin Bad
      <4> HIDE DEF Bad
      <4> QED BY <3>1, <3>0
    <3>6. rk[f[n + (m - 1)]] < rk[f[n]]
      BY <3>5, <3>9
    <3>7. /\ n + (m - 1) = n + m - 1 
          /\ n \in 0 .. npages /\ n + m \in 0 .. npages /\ n + m - 1 \in 0 .. npages
      BY <3>3
    <3>8. rk[f[n]] \in Int /\ rk[f[n + m]] \in Int /\ rk[f[n + m - 1]] \in Int
      BY <3>7, <2>2, <1>3
    <3> QED BY <3>2, <3>3, <3>6, <3>7, <3>8
  <2> DEFINE g == [n \in 0 .. npages |-> f[n]]
  <2>4. g \in [0 .. npages -> AllPages]
    BY <2>2, <1>3
  <2>5. /\ IsFiniteSet(0 .. npages) /\ Cardinality(0 .. npages) = npages + 1
        /\ IsFiniteSet(AllPages) /\ Cardinality(AllPages) = npages
    BY FS_Interval DEF AllPages
  <2> HIDE DEF g
  <2>6. PICK x, y \in 0 .. npages : x # y /\ g[x] = g[y]
    BY <2>4, <2>5, FS_PigeonHole
  <2>7. PICK a \in 0 .. npages, b \in 0 .. npages : a < b /\ g[a] = g[b]
    BY <2>6
  <2>8. rk[f[a + (b - a)]] < rk[f[a]] /\ a + (b - a) = b
    BY <2>3, <2>7
  <2> QED BY <2>7, <2>8, <2>2, <1>3 DEF g
(* No page is passed over.                                                 *)
<1>8. ASSUME NEW p \in L PROVE \E n \in 0 .. npages : f[n] = p
  <2> DEFINE Past == {n \in 0 .. npages : f[n] = NULL \/ rk[f[n]] <= rk[p]}
  <2>1. npages \in Past
    BY <1>7
  <2>0. Past \in SUBSET Nat
    OBVIOUS
  <2> HIDE DEF Past
  <2>2. PICK m \in Past : \A k \in Past : m <= k
    BY <2>0, <2>1, LeastNat
  <2> USE DEF Past
  <2>3. CASE m = 0
    <3>1. f[0] \in L /\ rk[p] <= rk[f[0]]
      BY <1>1 DEF Chain
    <3>2. rk[f[0]] = rk[p]
      BY <2>3, <3>1, <1>3
    <3> QED BY <3>1, <3>2 DEF Chain
  <2>4. CASE m # 0
    <3>1. m \in 1 .. npages /\ m - 1 \in 0 .. npages /\ m - 1 \notin Past
      BY <2>2, <2>4
    <3>2. f[m - 1] \in L /\ rk[p] < rk[f[m - 1]]
      BY <3>1, <1>5, <1>3
    <3>3. f[m] \in L /\ rk[p] <= rk[f[m]]
      BY <3>1, <3>2, <1>1, <1>3, <1>4 DEF Chain
    <3>4. rk[f[m]] = rk[p]
      BY <3>3, <1>3
    <3> QED BY <3>1, <3>3, <3>4 DEF Chain
  <2> QED BY <2>3, <2>4
<1>9. ASSUME NEW p PROVE p \in {f[n] : n \in 0 .. npages} \ {NULL} <=> p \in L
  BY <1>3, <1>5, <1>8
<1>10. {f[n] : n \in 0 .. npages} \ {NULL} = L
  BY <1>9
<1> QED BY <1>2, <1>7, <1>10
-----------------------------------------------------------------------------
(* The layout, in pages.                                                   *)

(* An address on a page boundary, by its page.                             *)
LEMMA MultipleOf ==
  ASSUME NEW n \in Nat, n % PGSIZE = 0
  PROVE  n \div PGSIZE \in Nat /\ n = (n \div PGSIZE) * PGSIZE
PROOF
<1>1. PGSIZE \in Nat \ {0}
  BY Constants
<1>2. n \div PGSIZE \in Nat
  BY <1>1
<1>3. n = (n \div PGSIZE) * PGSIZE + (n % PGSIZE)
  BY <1>1, Division
<1>4. (n \div PGSIZE) * PGSIZE \in Int
  BY <1>1, <1>2, Multiples
<1> QED BY <1>2, <1>3, <1>4

(* The boundaries of the hole, the image and the window of entry_pgdir are *)
(* page boundaries, in this order.                                         *)
LEMMA Layout ==
  /\ IoPage \in Nat /\ IOPHYSMEM = IoPage * PGSIZE
  /\ ExtPage \in Nat /\ EXTPHYSMEM = ExtPage * PGSIZE
  /\ KernPage \in Nat /\ RoundUp(END) = KernPage * PGSIZE
  /\ Window \in Nat /\ PTSIZE = Window * PGSIZE
  /\ PagesStart = (KernPage + 1) * PGSIZE
  /\ 1 < IoPage /\ IoPage < ExtPage /\ ExtPage < KernPage /\ KernPage <= Window
PROOF
<1>1. PGSIZE \in Nat \ {0}
  BY Constants
<1>2. /\ IoPage \in Nat /\ IOPHYSMEM = IoPage * PGSIZE
      /\ ExtPage \in Nat /\ EXTPHYSMEM = ExtPage * PGSIZE
      /\ Window \in Nat /\ PTSIZE = Window * PGSIZE
  BY MultipleOf, Constants, LayoutAssumption DEF IoPage, ExtPage, Window
<1>3. KernPage \in Nat /\ RoundUp(END) = KernPage * PGSIZE /\ END <= RoundUp(END)
  BY RoundUpFacts, Constants DEF KernPage
<1>4. (KernPage + 1) * PGSIZE = KernPage * PGSIZE + PGSIZE
  BY <1>1, <1>3
<1>5. 1 * PGSIZE = PGSIZE
  BY <1>1
<1>6. /\ 1 * PGSIZE < IoPage * PGSIZE
      /\ IoPage * PGSIZE < ExtPage * PGSIZE
      /\ ExtPage * PGSIZE < KernPage * PGSIZE
      /\ KernPage * PGSIZE <= Window * PGSIZE
  <2>1. PGSIZE < IOPHYSMEM /\ IOPHYSMEM < EXTPHYSMEM /\ EXTPHYSMEM < END /\ RoundUp(END) <= PTSIZE
    BY LayoutAssumption
  <2>2. RoundUp(END) \in Int /\ END \in Int /\ EXTPHYSMEM \in Int
    BY Constants, <1>1, <1>3, Multiples
  <2>3. EXTPHYSMEM < RoundUp(END)
    BY <2>1, <2>2, <1>3
  <2> QED BY <2>1, <2>3, <1>2, <1>3, <1>5
<1>7. 1 < IoPage /\ IoPage < ExtPage /\ ExtPage < KernPage /\ KernPage <= Window
  BY <1>1, <1>2, <1>3, <1>6, Multiples
<1>8. PagesStart = (KernPage + 1) * PGSIZE
  BY <1>3, <1>4 DEF PagesStart
<1> QED BY <1>2, <1>3, <1>7, <1>8

(* A page below the end of n bytes.                                        *)
LEMMA PagesBelow ==
  ASSUME NEW p \in Int, NEW n \in Nat
  PROVE  p * PGSIZE < n <=> p < RoundUp(n) \div PGSIZE
PROOF
<1> DEFINE q == RoundUp(n) \div PGSIZE
<1>1. PGSIZE \in Nat \ {0}
  BY Constants
<1>2. q \in Nat /\ RoundUp(n) = q * PGSIZE /\ n <= RoundUp(n) /\ RoundUp(n) < n + PGSIZE
  BY RoundUpFacts
<1> HIDE DEF q
<1>3. /\ p < q <=> p * PGSIZE < q * PGSIZE
      /\ p < q <=> p * PGSIZE + PGSIZE <= q * PGSIZE
      /\ p * PGSIZE \in Int /\ q * PGSIZE \in Int
  BY <1>1, <1>2, Multiples
<1>4. p * PGSIZE < n <=> p < q
  BY <1>1, <1>2, <1>3
<1> QED BY <1>4 DEF q

(* A page that starts below n is among those n divides into.               *)
LEMMA QuotientBound ==
  ASSUME NEW p \in Nat, NEW n \in Nat, p * PGSIZE < n
  PROVE  p \in 0 .. n \div PGSIZE
PROOF
<1> DEFINE d == n \div PGSIZE
           r == n % PGSIZE
<1>1. PGSIZE \in Nat \ {0}
  BY Constants
<1>2. d \in Int /\ r \in 0 .. PGSIZE - 1 /\ n = d * PGSIZE + r
  BY <1>1, Division
<1> HIDE DEF d, r
<1>3. d < p => d * PGSIZE + PGSIZE <= p * PGSIZE
  BY <1>1, <1>2, Multiples
<1>4. d * PGSIZE \in Int /\ p * PGSIZE \in Int
  BY <1>1, <1>2, Multiples
<1>5. p \in 0 .. d
  BY <1>1, <1>2, <1>3, <1>4
<1> QED BY <1>5 DEF d

(* pdx_limit of check_page_free_list, by page number.                      *)
LEMMA LowPages ==
  ASSUME NEW p \in Nat
  PROVE  Low(p) <=> p < Window
PROOF
<1>1. PGSIZE \in Nat \ {0}
  BY Constants
<1>2. p < Window <=> p * PGSIZE < Window * PGSIZE
  BY <1>1, Layout, Multiples
<1> QED BY <1>2, Layout DEF Low, page2pa

(* What boot_alloc has given out by the time page_init runs.               *)
LEMMA Areas ==
  ASSUME SizesOK, AreasOK, Running
  PROVE  /\ FreePage \in Nat /\ nextfree = FreePage * PGSIZE
         /\ KernPage < FreePage /\ FreePage <= Window
         /\ kern_pgdir = KernPage /\ pages = (KernPage + 1) * PGSIZE
         /\ npages * SIZEOF \in Nat /\ pages + npages * SIZEOF \in Nat
         /\ nextfree = RoundUp(pages + npages * SIZEOF)
PROOF
<1>1. PGSIZE \in Nat \ {0} /\ SIZEOF \in Nat /\ npages \in Nat
  BY Constants DEF SizesOK
<1>2. npages * SIZEOF \in Nat /\ PagesStart \in Nat
  <2>1. npages * SIZEOF \in Nat
    BY <1>1
  <2>2. (KernPage + 1) * PGSIZE \in Nat
    BY <1>1, Layout
  <2> QED BY <2>1, <2>2, Layout
<1>3. pages = PagesStart /\ nextfree = RoundUp(PagesStart + npages * SIZEOF) /\ nextfree <= PTSIZE
  BY DEF AreasOK
<1>4. kern_pgdir = KernPage
  BY DEF AreasOK, Running, BeforeList, Stopped
<1>5. PagesStart + npages * SIZEOF \in Nat
  BY <1>2
<1>6. FreePage \in Nat /\ nextfree = FreePage * PGSIZE /\ PagesStart <= nextfree
  <2>1. RoundUp(PagesStart + npages * SIZEOF) \div PGSIZE \in Nat
    BY <1>5, RoundUpFacts
  <2>2. RoundUp(PagesStart + npages * SIZEOF)
          = (RoundUp(PagesStart + npages * SIZEOF) \div PGSIZE) * PGSIZE
    BY <1>5, RoundUpFacts
  <2>3. FreePage \in Nat /\ nextfree = FreePage * PGSIZE
    BY <1>3, <2>1, <2>2 DEF FreePage
  <2>4. PagesStart + npages * SIZEOF <= nextfree
    BY <1>3, <1>5, RoundUpFacts
  <2>5. nextfree \in Int
    BY <2>3, <1>1, Multiples
  <2> QED BY <2>3, <2>4, <2>5, <1>2
<1>7. KernPage + 1 <= FreePage
  <2>1. (KernPage + 1) * PGSIZE <= FreePage * PGSIZE
    BY <1>6, Layout
  <2>2. KernPage + 1 \in Int
    BY Layout
  <2> QED BY <2>1, <2>2, <1>1, <1>6, Multiples
<1>8. FreePage <= Window
  <2>1. FreePage * PGSIZE <= Window * PGSIZE
    BY <1>6, <1>3, Layout
  <2> QED BY <2>1, <1>1, <1>6, Layout, Multiples
<1>9. KernPage < FreePage
  BY <1>7, <1>6, Layout
<1> QED BY <1>2, <1>3, <1>4, <1>5, <1>6, <1>8, <1>9, Layout

(* The pages page_init takes off the list.                                 *)
LEMMA ReservedPages ==
  ASSUME SizesOK, AreasOK, Running, NEW p \in Nat
  PROVE  Reserved(p) <=> p = 0 \/ (IoPage <= p /\ p < FreePage)
PROOF
<1>1. PGSIZE \in Nat \ {0}
  BY Constants
<1>2. /\ FreePage \in Nat /\ nextfree = FreePage * PGSIZE
      /\ IoPage \in Nat /\ IOPHYSMEM = IoPage * PGSIZE
  BY Areas, Layout
<1>3. /\ IoPage <= p <=> IoPage * PGSIZE <= p * PGSIZE
      /\ p < FreePage <=> p * PGSIZE < FreePage * PGSIZE
      /\ p * PGSIZE \in Int /\ IoPage * PGSIZE \in Int /\ FreePage * PGSIZE \in Int
  BY <1>1, <1>2, Multiples
<1>4. p * PGSIZE = 0 <=> p = 0
  BY <1>1
<1>5. p * PGSIZE \in IOPHYSMEM .. nextfree - 1 <=> (IoPage <= p /\ p < FreePage)
  BY <1>2, <1>3
<1> QED BY <1>4, <1>5 DEF Reserved, page2pa

(* The pages page_init keeps are those below the hole, but 0, and those    *)
(* behind what boot_alloc gave out.                                        *)
LEMMA KeptFacts ==
  ASSUME SizesOK, AreasOK, Running
  PROVE  /\ Kept \subseteq AllPages
         /\ \A p \in AllPages :
              p \in Kept <=> p # 0 /\ (p < IoPage \/ FreePage <= p)
PROOF
<1>1. \A p \in AllPages : p \in Nat
  BY DEF AllPages, SizesOK
<1>2. IoPage \in Nat /\ FreePage \in Nat
  BY Areas, Layout
<1> QED BY <1>1, <1>2, ReservedPages DEF Kept

(* The kernel's structures lie in the reserved pages and fill them.        *)
LEMMA FreeIsKept ==
  ASSUME SizesOK, AreasOK, Running
  PROVE  FreeMemory = Kept
PROOF
<1>1. PGSIZE \in Nat \ {0}
  BY Constants
<1>2. ASSUME NEW p \in AllPages PROVE InUse(p) <=> Reserved(p)
  <2>0. p \in Nat
    BY DEF AllPages, SizesOK
  <2>1. Reserved(p) <=> p = 0 \/ (IoPage <= p /\ p < FreePage)
    BY <2>0, ReservedPages
  <2>2. p * PGSIZE \in Int
    BY <2>0, <1>1, Multiples
  <2>3. p * PGSIZE \in IOPHYSMEM .. EXTPHYSMEM - 1 <=> IoPage <= p /\ p < ExtPage
    <3>1. IoPage <= p <=> IoPage * PGSIZE <= p * PGSIZE
      BY <1>1, <2>0, Layout, Multiples
    <3>2. p < ExtPage <=> p * PGSIZE < ExtPage * PGSIZE
      BY <1>1, <2>0, Layout, Multiples
    <3>3. IOPHYSMEM \in Int /\ EXTPHYSMEM \in Int
      BY Constants
    <3> QED BY <2>2, <3>1, <3>2, <3>3, Layout
  <2>4. p * PGSIZE \in EXTPHYSMEM .. END - 1 <=> ExtPage <= p /\ p < KernPage
    <3>1. ExtPage <= p <=> ExtPage * PGSIZE <= p * PGSIZE
      BY <1>1, <2>0, Layout, Multiples
    <3>2. p < KernPage <=> p * PGSIZE < END
      BY <2>0, PagesBelow, Constants DEF KernPage
    <3>3. END \in Int /\ EXTPHYSMEM \in Int
      BY Constants
    <3> QED BY <2>2, <3>1, <3>2, <3>3, Layout
  <2>5. p \in PagesIn(pages, pages + npages * SIZEOF) <=> KernPage + 1 <= p /\ p < FreePage
    <3> DEFINE to == pages + npages * SIZEOF
    <3>1. pages = (KernPage + 1) * PGSIZE /\ to \in Nat /\ nextfree = RoundUp(to)
      BY Areas
    <3> HIDE DEF to
    <3>2. p * PGSIZE < to <=> p < FreePage
      BY <2>0, <3>1, PagesBelow DEF FreePage
    <3>3. KernPage + 1 <= p <=> pages <= p * PGSIZE
      BY <1>1, <2>0, <3>1, Layout, Multiples
    <3>4. p * PGSIZE < to => p \in 0 .. to \div PGSIZE
      BY <2>0, <3>1, QuotientBound
    <3>5. p \in PagesIn(pages, to) <=>
            p \in 0 .. to \div PGSIZE /\ pages <= p * PGSIZE /\ p * PGSIZE < to
      BY DEF PagesIn
    <3> QED BY <3>2, <3>3, <3>4, <3>5 DEF to
  <2>6. p = kern_pgdir <=> p = KernPage
    BY Areas
  <2>7. /\ IoPage \in Nat /\ ExtPage \in Nat /\ KernPage \in Nat /\ FreePage \in Nat
        /\ IoPage < ExtPage /\ ExtPage < KernPage /\ KernPage < FreePage
    BY Layout, Areas
  <2>8. InUse(p) <=> \/ p = 0
                     \/ IoPage <= p /\ p < ExtPage
                     \/ ExtPage <= p /\ p < KernPage
                     \/ p = KernPage
                     \/ KernPage + 1 <= p /\ p < FreePage
    BY <2>3, <2>4, <2>5, <2>6 DEF InUse, page2pa
  <2> QED BY <2>0, <2>1, <2>7, <2>8
<1> QED BY <1>2 DEF FreeMemory, Kept

-----------------------------------------------------------------------------
(* What the invariant says about the properties.                           *)

(* Following the links of a segment, up to the one not written yet, visits *)
(* the pages that were moved into it.                                      *)
LEMMA SegmentPages ==
  ASSUME SizesOK, AreasOK, Running, Reordered, Fields, NEW t \in {0, 1}
  PROVE  Segment(t) = Moved(t)
PROOF
<1>1. CASE Moved(t) = {}
  BY <1>1 DEF Reordered, SegmentOK, Segment
<1>2. CASE Moved(t) # {}
  <2> DEFINE f == ListFrom(seg[t])
             e == tp[t]
             L == Moved(t)
  <2>1. /\ f[0] = seg[t]
        /\ \A n \in 1 .. npages : f[n] = Link[f[n - 1]]
    BY ListDef DEF SizesOK
  <2>2. /\ e \in L /\ seg[t] \in L
        /\ \A p \in L : e <= p /\ p <= seg[t]
        /\ \A p \in L \ {e} :
            /\ pp_link[p] \in L /\ pp_link[p] < p
            /\ \A q \in L : q < p => q <= pp_link[p]
    BY <1>2 DEF Reordered, SegmentOK
  <2>3. L \in SUBSET AllPages /\ npages \in Nat
    BY KeptFacts DEF Moved, SizesOK
  <2>4. \A p \in AllPages : p \in 0 .. npages - 1 /\ p # NULL /\ p # HEAD
    BY PointerAssumption DEF AllPages
  <2>5. /\ Link[NULL] = NULL
        /\ \A p \in AllPages : Link[p] = pp_link[p]
    BY <2>4 DEF Link
  <2>6. \A p \in AllPages : pp_link[p] # NULL => pp_link[p] < p /\ pp_link[p] \in AllPages
    BY DEF Reordered, Fields
  <2>7. Segment(t) = LET last == CHOOSE n \in 0 .. npages : f[n] = e
                     IN {f[n] : n \in 0 .. last}
    BY <2>2, <2>3, <2>4 DEF Segment
  <2> HIDE DEF f, L, e
  <2> DEFINE Past == {n \in 0 .. npages : f[n] \notin L \/ f[n] = e}
  <2>8. Past \in SUBSET Nat
    OBVIOUS
  <2>9. Past # {}
    <3> SUFFICES ASSUME Past = {} PROVE FALSE
      OBVIOUS
    <3>1. \A n \in 0 .. npages : f[n] \in L /\ f[n] # e
      OBVIOUS
    <3> HIDE DEF Past
    <3> DEFINE Bad == {n \in 0 .. npages : ~(f[n] + n <= npages - 1)}
    <3>2. Bad \in SUBSET Nat
      OBVIOUS
    <3>3. Bad = {}
      <4> SUFFICES ASSUME Bad # {} PROVE FALSE
        OBVIOUS
      <4> HIDE DEF Bad
      <4>1. PICK m \in Bad : \A k \in Bad : m <= k
        BY <3>2, LeastNat
      <4>2. m \in 0 .. npages /\ ~(f[m] + m <= npages - 1)
        BY DEF Bad
      <4>3. m # 0
        BY <4>2, <3>1, <2>3, <2>4
      <4>4. m \in 1 .. npages /\ m - 1 \in 0 .. npages /\ ~(m <= m - 1)
        BY <4>2, <4>3, <2>3
      <4>5. m - 1 \notin Bad
        BY <4>1, <4>4
      <4>6. f[m - 1] + (m - 1) <= npages - 1
        BY <4>4, <4>5 DEF Bad
      <4>7. f[m] = pp_link[f[m - 1]] /\ f[m - 1] \in L \ {e}
        BY <4>4, <3>1, <2>1, <2>3, <2>5
      <4>8. f[m] < f[m - 1] /\ f[m] \in L /\ f[m - 1] \in L
        BY <4>7, <2>2
      <4> QED BY <4>2, <4>6, <4>8, <2>3, <2>4
    <3>4. f[npages] + npages <= npages - 1 /\ f[npages] \in L
      BY <3>1, <3>3, <2>3
    <3> QED BY <3>4, <2>3, <2>4
  <2> HIDE DEF Past
  <2>10. PICK m \in Past : \A k \in Past : m <= k
    BY <2>8, <2>9, LeastNat
  <2>11. m \in 0 .. npages
    BY <2>10 DEF Past
  <2>12. \A k \in 0 .. m - 1 : f[k] \in L /\ f[k] # e
    <3> SUFFICES ASSUME NEW k \in 0 .. m - 1 PROVE f[k] \in L /\ f[k] # e
      OBVIOUS
    <3>1. k \in 0 .. npages /\ ~(m <= k)
      BY <2>11, <2>3
    <3>2. k \notin Past
      BY <2>10, <3>1
    <3> QED BY <3>1, <3>2 DEF Past
  <2>13. f[m] = e
    <3>1. f[m] \notin L \/ f[m] = e
      BY <2>10 DEF Past
    <3>2. CASE m = 0
      BY <3>1, <3>2, <2>1, <2>2
    <3>3. CASE m # 0
      <4>1. m \in 1 .. npages /\ m - 1 \in 0 .. m - 1
        BY <3>3, <2>11
      <4>2. f[m - 1] \in L /\ f[m - 1] # e /\ f[m] = Link[f[m - 1]]
        BY <4>1, <2>1, <2>12
      <4>3. f[m] \in L
        BY <4>2, <2>2, <2>3, <2>5
      <4> QED BY <3>1, <4>3
    <3> QED BY <3>2, <3>3
(* The end is met once: all links point downwards.                         *)
  <2>14. \A n \in m + 1 .. npages : f[n] = NULL \/ (f[n] \in AllPages /\ f[n] < e)
    <3> DEFINE Bad == {n \in m + 1 .. npages : ~(f[n] = NULL \/ (f[n] \in AllPages /\ f[n] < e))}
    <3> SUFFICES ASSUME Bad # {} PROVE FALSE
      OBVIOUS
    <3>0. Bad \in SUBSET Nat
      BY <2>11
    <3> HIDE DEF Bad
    <3>1. PICK b \in Bad : \A k \in Bad : b <= k
      BY <3>0, LeastNat
    <3>2. b \in m + 1 .. npages /\ ~(f[b] = NULL \/ (f[b] \in AllPages /\ f[b] < e))
      BY DEF Bad
    <3>3. b \in 1 .. npages /\ f[b] = Link[f[b - 1]]
      BY <3>2, <2>11, <2>1
    <3>4. e \in AllPages
      BY <2>2, <2>3
    <3>5. CASE b = m + 1
      <4>1. b - 1 = m
        BY <3>5, <2>11
      <4>2. f[b] = pp_link[e]
        BY <3>3, <4>1, <2>13, <2>5, <3>4
      <4> QED BY <4>2, <3>2, <3>4, <2>6
    <3>6. CASE b # m + 1
      <4>1. b - 1 \in m + 1 .. npages /\ ~(b <= b - 1)
        BY <3>6, <3>2, <2>11, <2>3
      <4>2. b - 1 \notin Bad
        BY <4>1, <3>1
      <4>3. f[b - 1] = NULL \/ (f[b - 1] \in AllPages /\ f[b - 1] < e)
        BY <4>1, <4>2 DEF Bad
      <4>4. f[b - 1] # NULL
        BY <4>3, <3>3, <3>2, <2>5
      <4>5. f[b] = pp_link[f[b - 1]] /\ f[b - 1] \in AllPages /\ f[b - 1] < e
        BY <4>3, <4>4, <3>3, <2>5
      <4>6. f[b] # NULL => f[b] \in AllPages /\ f[b] < f[b - 1]
        BY <4>5, <2>6
      <4>7. f[b] # NULL => f[b] \in AllPages /\ f[b] < e
        BY <4>5, <4>6, <3>4, <2>4
      <4> QED BY <4>7, <3>2
    <3> QED BY <3>5, <3>6
  <2>15. \A n \in 0 .. npages : f[n] = e => n = m
    <3> SUFFICES ASSUME NEW n \in 0 .. npages, f[n] = e, n # m PROVE FALSE
      OBVIOUS
    <3>1. n \in 0 .. m - 1 \/ n \in m + 1 .. npages
      BY <2>11
    <3>2. n \in m + 1 .. npages
      BY <3>1, <2>12
    <3>3. e \in AllPages
      BY <2>2, <2>3
    <3> QED BY <3>2, <3>3, <2>14, <2>4
  <2>16. (CHOOSE n \in 0 .. npages : f[n] = e) = m
    BY <2>11, <2>13, <2>15
  <2>17. ASSUME NEW p \in L PROVE \E n \in 0 .. m : f[n] = p
    <3> DEFINE Under == {n \in 0 .. m : f[n] <= p}
    <3>0. Under \in SUBSET Nat
      OBVIOUS
    <3>1. m \in Under
      BY <2>13, <2>2, <2>11
    <3> HIDE DEF Under
    <3>2. PICK u \in Under : \A k \in Under : u <= k
      BY <3>0, <3>1, LeastNat
    <3>3. u \in 0 .. m /\ f[u] <= p
      BY DEF Under
    <3>4. CASE u = 0
      <4>1. p <= f[0] /\ f[0] \in L
        BY <2>1, <2>2
      <4> QED BY <4>1, <3>3, <3>4, <2>3, <2>4
    <3>5. CASE u # 0
      <4>1. u - 1 \in 0 .. m - 1 /\ u - 1 \in 0 .. m /\ u \in 1 .. npages /\ ~(u <= u - 1)
        BY <3>3, <3>5, <2>11, <2>3
      <4>2. u - 1 \notin Under
        BY <3>2, <4>1
      <4>3. f[u - 1] \in L \ {e} /\ f[u] = Link[f[u - 1]]
        BY <4>1, <2>12, <2>1
      <4>4. p < f[u - 1]
        BY <4>1, <4>2, <4>3, <2>3, <2>4 DEF Under
      <4>5. f[u] \in L /\ p <= f[u]
        BY <4>3, <4>4, <2>2, <2>3, <2>5
      <4> QED BY <4>5, <3>3, <2>3, <2>4
    <3> QED BY <3>4, <3>5
  <2>18. ASSUME NEW n \in 0 .. m PROVE f[n] \in L
    <3>1. n = m \/ n \in 0 .. m - 1
      BY <2>11
    <3> QED BY <3>1, <2>12, <2>13, <2>2
  <2>19. {f[n] : n \in 0 .. m} = L
    BY <2>17, <2>18
  <2>20. Segment(t) = L
    BY <2>7, <2>16, <2>19
  <2> QED BY <2>20 DEF L
<1> QED BY <1>1, <1>2

(* The invariant gives NothingLost.                                        *)
LEMMA InvNothingLost ==
  ASSUME PageInitInv
  PROVE  NothingLost
PROOF
<1> USE DEF PageInitInv
<1>1. /\ npages \in Nat
      /\ Number \in [AllPages -> Int] /\ \A p \in AllPages : Number[p] = p
      /\ \A p \in AllPages : p \in 0 .. npages - 1
  BY DEF SizesOK, Number, AllPages
<1>2. ASSUME pc = "push"
      PROVE  PagesFrom(page_free_list) = 0 .. at - 1
  <2>1. Pushed
    BY <1>2 DEF ListOK
  <2>2. 0 .. at - 1 \in SUBSET AllPages
    BY <2>1, <1>1 DEF Pushed, AllPages
  <2> QED BY <2>1, <2>2, <1>1, ChainList DEF Pushed
<1>3. ASSUME pc = "filter"
      PROVE  LET next == IF Deref(at) = NULL THEN -1 ELSE Deref(at) IN
             PagesFrom(page_free_list) = 0 .. next \cup {p \in FreeMemory : p > next}
  <2>1. Filtered /\ Running /\ Fields
    BY <1>3 DEF ListOK, Running, BeforeList, Stopped
  <2>2. Kept \in SUBSET AllPages /\ FreeMemory = Kept
    BY <2>1, KeptFacts, FreeIsKept
  <2>3. NextPage \in AllPages \cup {-1}
    BY <2>1, <2>2 DEF NextPage, Deref, Filtered, Fields
  <2>4. Left \in SUBSET AllPages
    <3>1. npages \in Nat /\ NextPage \in 0 .. npages - 1 \cup {-1}
      BY <1>1, <2>3 DEF AllPages
    <3>2. 0 .. NextPage \subseteq 0 .. npages - 1
      BY <3>1
    <3> QED BY <2>2, <3>2 DEF Left, AllPages
  <2>5. PagesFrom(page_free_list) = Left
    BY <2>1, <2>4, <1>1, ChainList DEF Filtered
  <2> QED BY <2>2, <2>5 DEF Left, NextPage
<1>4. ASSUME pc = "reorder"
      PROVE  LET next == IF at = NULL THEN -1 ELSE at
                 done == {p \in FreeMemory : p > next}
             IN
             /\ PagesFrom(at) = FreeMemory \ done
             /\ Segment(0) = {p \in done : Low(p)}
             /\ Segment(1) = {p \in done : ~Low(p)}
  <2>1. Reordered /\ Running /\ Fields
    BY <1>4 DEF ListOK, Running, BeforeList, Stopped
  <2>2. Kept \in SUBSET AllPages /\ FreeMemory = Kept
    BY <2>1, KeptFacts, FreeIsKept
  <2>3. NextToMove \in AllPages \cup {-1}
    BY <2>1, <2>2 DEF NextToMove, Reordered
  <2>4. PagesFrom(at) = {p \in Kept : p <= NextToMove}
    <3>1. {p \in Kept : p <= NextToMove} \in SUBSET AllPages
      BY <2>2
    <3> QED BY <3>1, <2>1, <1>1, ChainList DEF Reordered
  <2>5. Segment(0) = Moved(0) /\ Segment(1) = Moved(1)
    BY <2>1, SegmentPages
  <2>6. Moved(0) = {p \in {q \in FreeMemory : q > NextToMove} : Low(p)}
    BY <2>2 DEF Moved, Pagetype
  <2>7. Moved(1) = {p \in {q \in FreeMemory : q > NextToMove} : ~Low(p)}
    BY <2>2 DEF Moved, Pagetype
  <2>8. {p \in Kept : p <= NextToMove} = FreeMemory \ {p \in FreeMemory : p > NextToMove}
    BY <2>2, <2>3, <1>1
  <2> QED BY <2>4, <2>5, <2>6, <2>7, <2>8 DEF NextToMove
<1> QED BY <1>2, <1>3, <1>4 DEF NothingLost

-----------------------------------------------------------------------------
(* Operations on lists.                                                    *)

(* What follows the first page.                                            *)
LEMMA ChainNext ==
  ASSUME NEW L \in SUBSET AllPages, NEW rk \in [AllPages -> Int], NEW link, NEW h,
         Chain(h, link, L, rk), h \in L
  PROVE  /\ link[h] = NULL <=> L \ {h} = {}
         /\ link[h] # NULL => link[h] \in L \ {h}
         /\ \A q \in L \ {h} : link[h] # NULL /\ rk[q] < rk[h] /\ rk[q] <= rk[link[h]]
PROOF
<1>1. \A p \in L : rk[p] \in Int /\ p # NULL
  BY PointerAssumption DEF AllPages
<1>2. /\ \A q \in L : rk[q] <= rk[h]
      /\ \A p, q \in L : rk[p] = rk[q] => p = q
      /\ \/ link[h] = NULL /\ \A q \in L : rk[h] <= rk[q]
         \/ /\ link[h] \in L /\ rk[link[h]] < rk[h]
            /\ \A q \in L : rk[q] < rk[h] => rk[q] <= rk[link[h]]
  BY DEF Chain
<1>3. \A q \in L \ {h} : rk[q] < rk[h]
  BY <1>1, <1>2
<1>4. CASE link[h] = NULL
  <2>1. L \ {h} = {}
    BY <1>1, <1>2, <1>3, <1>4
  <2> QED BY <2>1, <1>4
<1>5. CASE link[h] # NULL
  <2>1. link[h] \in L /\ rk[link[h]] < rk[h] /\ \A q \in L \ {h} : rk[q] <= rk[link[h]]
    BY <1>2, <1>3, <1>5
  <2>2. link[h] # h
    BY <2>1, <1>1
  <2> QED BY <2>1, <2>2, <1>3, <1>5
<1> QED BY <1>4, <1>5

(* Taking the first page.                                                  *)
LEMMA ChainPop ==
  ASSUME NEW L \in SUBSET AllPages, NEW rk \in [AllPages -> Int], NEW link, NEW h,
         Chain(h, link, L, rk), h \in L,
         NEW link2, \A p \in L \ {h} : link2[p] = link[p]
  PROVE  Chain(link[h], link2, L \ {h}, rk)
PROOF
<1> DEFINE M == L \ {h}
<1>1. \A p \in L : rk[p] \in Int /\ p # NULL
  BY PointerAssumption DEF AllPages
<1>2. /\ \A p, q \in L : rk[p] = rk[q] => p = q
      /\ \A p \in L :
           \/ link[p] = NULL /\ \A q \in L : rk[p] <= rk[q]
           \/ /\ link[p] \in L /\ rk[link[p]] < rk[p]
              /\ \A q \in L : rk[q] < rk[p] => rk[q] <= rk[link[p]]
  BY DEF Chain
<1>3. /\ IF M = {} THEN link[h] = NULL ELSE link[h] \in M
      /\ \A q \in M : rk[q] < rk[h] /\ rk[q] <= rk[link[h]]
  BY ChainNext
<1>4. ASSUME NEW p \in M
      PROVE  \/ link2[p] = NULL /\ \A q \in M : rk[p] <= rk[q]
             \/ /\ link2[p] \in M /\ rk[link2[p]] < rk[p]
                /\ \A q \in M : rk[q] < rk[p] => rk[q] <= rk[link2[p]]
  <2>1. link2[p] = link[p] /\ p \in L /\ rk[p] < rk[h]
    BY <1>3
  <2>2. CASE link[p] = NULL
    BY <2>1, <2>2, <1>1, <1>2
  <2>3. CASE link[p] # NULL
    <3>1. link[p] \in L /\ rk[link[p]] < rk[p]
      BY <2>1, <2>3, <1>2
    <3>2. link[p] # h
      BY <3>1, <2>1, <1>1
    <3> QED BY <2>1, <2>3, <3>1, <3>2, <1>2
  <2> QED BY <2>2, <2>3
<1>5. \A p, q \in M : rk[p] = rk[q] => p = q
  BY <1>2
<1>6. Chain(link[h], link2, M, rk)
  <2> HIDE DEF M
  <2> QED BY <1>3, <1>4, <1>5 DEF Chain
<1> QED BY <1>6

(* Taking the page p that follows a.                                       *)
LEMMA ChainRemove ==
  ASSUME NEW L \in SUBSET AllPages, NEW rk \in [AllPages -> Int],
         NEW link \in [AllPages -> AllPages \cup {NULL}], NEW h,
         Chain(h, link, L, rk), NEW a \in L, NEW p \in L, link[a] = p
  PROVE  Chain(h, [link EXCEPT ![p] = NULL, ![a] = link[p]], L \ {p}, rk)
PROOF
<1> DEFINE M == L \ {p}
           link2 == [link EXCEPT ![p] = NULL, ![a] = link[p]]
<1>1. \A q \in L : rk[q] \in Int /\ q # NULL /\ q \in AllPages
  BY PointerAssumption DEF AllPages
<1>2. /\ h \in L
      /\ \A q \in L : rk[q] <= rk[h]
      /\ \A x, q \in L : rk[x] = rk[q] => x = q
      /\ \A x \in L :
           \/ link[x] = NULL /\ \A q \in L : rk[x] <= rk[q]
           \/ /\ link[x] \in L /\ rk[link[x]] < rk[x]
              /\ \A q \in L : rk[q] < rk[x] => rk[q] <= rk[link[x]]
  BY DEF Chain
<1>3. rk[p] < rk[a] /\ p # a /\ \A q \in L : rk[q] < rk[a] => rk[q] <= rk[p]
  BY <1>1, <1>2
<1>4. p # h
  BY <1>1, <1>2, <1>3
<1>5. link2[a] = link[p] /\ \A x \in M \ {a} : link2[x] = link[x]
  BY <1>1, <1>3
<1> HIDE DEF link2
<1>6. ASSUME NEW x \in M
      PROVE  \/ link2[x] = NULL /\ \A q \in M : rk[x] <= rk[q]
             \/ /\ link2[x] \in M /\ rk[link2[x]] < rk[x]
                /\ \A q \in M : rk[q] < rk[x] => rk[q] <= rk[link2[x]]
  <2>1. CASE x = a /\ link[p] = NULL
    <3>1. \A q \in L : rk[p] <= rk[q]
      BY <2>1, <1>1, <1>2
    <3>2. \A q \in M : rk[a] <= rk[q]
      BY <3>1, <1>1, <1>2, <1>3
    <3> QED BY <2>1, <3>2, <1>5
  <2>2. CASE x = a /\ link[p] # NULL
    <3>1. link[p] \in L /\ rk[link[p]] < rk[p] /\ \A q \in L : rk[q] < rk[p] => rk[q] <= rk[link[p]]
      BY <2>2, <1>2
    <3>2. link[p] \in M /\ rk[link[p]] < rk[a]
      BY <3>1, <1>1, <1>3
    <3>3. \A q \in M : rk[q] < rk[a] => rk[q] < rk[p]
      BY <1>1, <1>2, <1>3
    <3> QED BY <2>2, <3>1, <3>2, <3>3, <1>5
  <2>3. CASE x # a
    <3>1. link2[x] = link[x] /\ x \in L
      BY <2>3, <1>5
    <3>2. link[x] # p
      <4> SUFFICES ASSUME link[x] = p PROVE FALSE
        OBVIOUS
      <4>1. rk[p] < rk[x] /\ \A q \in L : rk[q] < rk[x] => rk[q] <= rk[p]
        BY <3>1, <1>1, <1>2
      <4>2. ~(rk[a] < rk[x]) /\ ~(rk[x] < rk[a])
        BY <4>1, <1>3, <3>1, <1>1
      <4>3. rk[a] = rk[x]
        BY <4>2, <3>1, <1>1
      <4> QED BY <4>3, <2>3, <3>1, <1>2
    <3> QED BY <3>1, <3>2, <1>2
  <2> QED BY <2>1, <2>2, <2>3
<1>7. \A x, q \in M : rk[x] = rk[q] => x = q
  BY <1>2
<1>8. Chain(h, link2, M, rk)
  BY <1>2, <1>4, <1>6, <1>7 DEF Chain
<1> QED BY <1>8 DEF link2

(* Putting a page in front.                                                *)
LEMMA ChainPush ==
  ASSUME NEW L \in SUBSET AllPages, NEW rk \in [AllPages -> Int],
         NEW link \in [AllPages -> AllPages \cup {NULL}], NEW h,
         Chain(h, link, L, rk), NEW p \in AllPages, \A q \in L : rk[q] < rk[p]
  PROVE  Chain(p, [link EXCEPT ![p] = h], L \cup {p}, rk)
PROOF
<1> DEFINE M == L \cup {p}
           link2 == [link EXCEPT ![p] = h]
<1>1. \A q \in M : rk[q] \in Int /\ q # NULL /\ q \in AllPages
  BY PointerAssumption DEF AllPages
<1>2. p \notin L
  BY <1>1
<1>3. link2[p] = h /\ \A q \in L : link2[q] = link[q]
  BY <1>1, <1>2
<1> HIDE DEF link2
<1>4. ASSUME NEW x \in M
      PROVE  \/ link2[x] = NULL /\ \A q \in M : rk[x] <= rk[q]
             \/ /\ link2[x] \in M /\ rk[link2[x]] < rk[x]
                /\ \A q \in M : rk[q] < rk[x] => rk[q] <= rk[link2[x]]
  <2>1. CASE x = p
    BY <2>1, <1>1, <1>3 DEF Chain
  <2>2. CASE x # p
    <3>1. x \in L /\ link2[x] = link[x] /\ rk[x] < rk[p]
      BY <2>2, <1>3
    <3> QED BY <3>1, <1>1 DEF Chain
  <2> QED BY <2>1, <2>2
<1>5. \A x, q \in M : rk[x] = rk[q] => x = q
  BY <1>1, <1>2 DEF Chain
<1>6. \A q \in M : rk[q] <= rk[p]
  BY <1>1
<1>7. Chain(p, link2, M, rk)
  BY <1>4, <1>5, <1>6 DEF Chain
<1> QED BY <1>7 DEF link2

-----------------------------------------------------------------------------
(* The steps keep the invariant.                                           *)

(* Once pages is allocated the areas stay as they are.                     *)
LEMMA SameAreas ==
  ASSUME UNCHANGED <<sizes, areas>>
  PROVE  /\ npages' = npages /\ machine' = machine /\ nextfree' = nextfree
         /\ kern_pgdir' = kern_pgdir /\ pages' = pages
         /\ AllPages' = AllPages /\ Kept' = Kept /\ FreePage' = FreePage
         /\ Number' = Number /\ LowFirst' = LowFirst
         /\ SizesOK' = SizesOK /\ Bootable' = Bootable
PROOF
<1>1. /\ npages' = npages /\ machine' = machine /\ nextfree' = nextfree
      /\ kern_pgdir' = kern_pgdir /\ pages' = pages
  BY DEF sizes, areas
<1>2. AllPages' = AllPages /\ FreePage' = FreePage
  BY <1>1 DEF AllPages, FreePage
<1>3. Kept' = Kept
  BY <1>1, <1>2 DEF Kept, Reserved
<1>4. Number' = Number /\ LowFirst' = LowFirst
  BY <1>1, <1>2 DEF Number, LowFirst
<1> QED BY <1>1, <1>2, <1>3, <1>4 DEF SizesOK, Bootable

(* A step that writes nothing.                                             *)
LEMMA SameWritten ==
  ASSUME WrittenOK, UNCHANGED written
  PROVE  WrittenOK'
  BY DEF WrittenOK, EarlyWritesMapped

(* Initially nothing is detected or given out.                             *)
LEMMA InitInv ==
  ASSUME Init
  PROVE  PageInitInv
PROOF
<1>1. SizesOK
  BY DEF Init, SizesOK
<1>2. AreasOK
  BY DEF Init, AreasOK, Running, BeforeList, Stopped
<1>3. ListOK
  BY DEF Init, ListOK, Running, BeforeList, Stopped
<1>4. LocalsOK
  BY DEF Init, LocalsOK, BeforeList
<1>5. WrittenOK
  BY DEF Init, WrittenOK, EarlyWritesMapped
<1> QED BY <1>1, <1>2, <1>3, <1>4, <1>5 DEF PageInitInv

(* i386_detect_memory.                                                     *)
LEMMA StepDetectMemory ==
  ASSUME PageInitInv, DetectMemory
  PROVE  PageInitInv'
PROOF
<1> USE DEF PageInitInv
<1>1. pc = "detect" /\ pc' = "pgdir" /\ machine' = machine /\ UNCHANGED <<areas, list, locals, written>>
  BY DEF DetectMemory
<1>2. SizesOK'
  <2>1. machine \in [base : Nat, ext : Nat, ext16 : Nat]
    BY MachinesAssumption DEF SizesOK
  <2>2. machine.base \in Nat /\ machine.ext \in Nat /\ machine.ext16 \in Nat
    BY <2>1
  <2>3. PGSIZE \in Nat \ {0} /\ KB \in Nat \ {0} /\ KB <= PGSIZE /\ MB16 \in Nat /\ UNIT16 \in Nat
        /\ EXTPHYSMEM \in Nat
    BY SizeAssumption, LayoutAssumption
  <2>4. PGSIZE \div KB \in Nat \ {0}
    <3> DEFINE q == PGSIZE \div KB
    <3>1. q \in Int /\ PGSIZE % KB \in 0 .. KB - 1 /\ PGSIZE = q * KB + (PGSIZE % KB)
      BY <2>3, Division
    <3>4. q \in Nat
      BY <2>3
    <3> HIDE DEF q
    <3>2. q # 0
      <4> SUFFICES ASSUME q = 0 PROVE FALSE
        OBVIOUS
      <4>1. q * KB = 0
        BY <2>3
      <4> QED BY <4>1, <3>1, <2>3
    <3>3. q \in Nat \ {0}
      BY <3>2, <3>4
    <3> QED BY <3>3 DEF q
  <2>5. MB16 \div KB \in Nat /\ EXTPHYSMEM \div KB \in Nat /\ machine.ext16 * UNIT16 \in Nat
    BY <2>2, <2>3
  <2> DEFINE total == IF machine.ext16 # 0 THEN MB16 \div KB + machine.ext16 * UNIT16
                      ELSE IF machine.ext # 0 THEN EXTPHYSMEM \div KB + machine.ext
                      ELSE machine.base
             unit == PGSIZE \div KB
  <2>6. total \in Nat
    BY <2>2, <2>5
  <2>7. npages' = total \div unit
    BY DEF DetectMemory
  <2> HIDE DEF total
  <2>8. unit \in Nat \ {0}
    BY <2>4
  <2> HIDE DEF unit
  <2>9. total \div unit \in Nat
    BY <2>6, <2>8
  <2> QED BY <2>7, <2>9, <1>1 DEF SizesOK
<1>3. AreasOK'
  BY <1>1 DEF AreasOK, areas, Running, BeforeList, Stopped
<1>4. ListOK'
  BY <1>1 DEF ListOK, Running, BeforeList, Stopped
<1>5. LocalsOK'
  BY <1>1 DEF LocalsOK, BeforeList, list, locals
<1>6. WrittenOK'
  BY <1>1, SameWritten
<1> QED BY <1>2, <1>3, <1>4, <1>5, <1>6

(* boot_alloc of kern_pgdir, and the memset.                               *)
LEMMA StepAllocPgdir ==
  ASSUME PageInitInv, AllocPgdir
  PROVE  PageInitInv'
PROOF
<1> USE DEF PageInitInv
<1>1. pc = "pgdir" /\ UNCHANGED <<sizes, pages, list, locals>>
  BY DEF AllocPgdir
<1>2. SizesOK'
  BY <1>1 DEF SizesOK, sizes
<1>3. PGSIZE \in Nat \ {0} /\ PTSIZE \in Nat
  BY Constants
<1>4. nextfree = KernPage * PGSIZE /\ KernPage * PGSIZE \in Nat
  BY <1>1, <1>3, Layout DEF AreasOK
<1>5. CASE pc' = "pages" /\ HasRoom(PGSIZE) /\ kern_pgdir' = nextfree \div PGSIZE
           /\ boot_alloc(PGSIZE) /\ written' = written \cup {kern_pgdir'}
  <2>1. nextfree' = PagesStart /\ PagesStart \in Nat
    <3>1. RoundUp(KernPage * PGSIZE + PGSIZE) = KernPage * PGSIZE + RoundUp(PGSIZE)
      BY <1>3, Layout, RoundUpShift
    <3>2. RoundUp(PGSIZE) = PGSIZE
      <4>1. 1 * PGSIZE = PGSIZE /\ PGSIZE <= 1 * PGSIZE
        BY <1>3
      <4>2. RoundUp(PGSIZE) <= PGSIZE
        BY <4>1, <1>3, RoundUpLeast
      <4>3. PGSIZE <= RoundUp(PGSIZE) /\ RoundUp(PGSIZE) \in Int
        <5>1. RoundUp(PGSIZE) = (RoundUp(PGSIZE) \div PGSIZE) * PGSIZE
              /\ RoundUp(PGSIZE) \div PGSIZE \in Nat /\ PGSIZE <= RoundUp(PGSIZE)
          BY <1>3, RoundUpFacts
        <5>2. (RoundUp(PGSIZE) \div PGSIZE) * PGSIZE \in Int
          BY <5>1, <1>3, Multiples
        <5> QED BY <5>1, <5>2
      <4> QED BY <4>2, <4>3, <1>3
    <3> QED BY <3>1, <3>2, <1>3, <1>4, <1>5, Layout DEF boot_alloc, PagesStart
  <2>2. PagesStart <= PTSIZE
    BY <1>3, <1>4, <1>5, Layout DEF HasRoom, PagesStart
  <2>3. kern_pgdir' = KernPage
    BY <1>3, <1>4, <1>5, Layout, Quotient
  <2>4. AreasOK'
    BY <2>1, <2>2, <2>3, <1>5 DEF AreasOK, Running, BeforeList, Stopped
  <2>5. ListOK'
    BY <1>5 DEF ListOK, Running, BeforeList, Stopped
  <2>6. LocalsOK'
    BY <1>1, <1>5 DEF LocalsOK, BeforeList, list, locals
  <2>7. Low(KernPage) /\ KernPage \in Nat
    <3>1. KernPage < Window
      <4>1. (KernPage + 1) * PGSIZE <= Window * PGSIZE
        BY <2>2, Layout
      <4>2. KernPage + 1 <= Window
        BY <4>1, <1>3, Layout, Multiples
      <4> QED BY <4>2, Layout
    <3> QED BY <3>1, Layout, LowPages
  <2>8. page2pa(KernPage) \notin EXTPHYSMEM .. END - 1
    <3>1. END <= RoundUp(END)
      BY Constants, RoundUpFacts
    <3>2. page2pa(KernPage) = RoundUp(END)
      BY Layout DEF page2pa
    <3> QED BY <3>1, <3>2, <1>4, Layout, Constants
  <2>9. WrittenOK'
    BY <2>3, <2>7, <2>8, <1>5 DEF WrittenOK, EarlyWritesMapped
  <2> QED BY <1>2, <2>4, <2>5, <2>6, <2>9
<1>6. CASE pc' = "panic" /\ UNCHANGED <<nextfree, kern_pgdir, written>>
  <2>1. AreasOK'
    BY <1>1, <1>6 DEF AreasOK, Running, BeforeList, Stopped
  <2>2. ListOK'
    BY <1>6 DEF ListOK, Running, BeforeList, Stopped
  <2>3. LocalsOK'
    BY <1>6 DEF LocalsOK, BeforeList
  <2>4. WrittenOK'
    BY <1>6, SameWritten
  <2> QED BY <1>2, <2>1, <2>2, <2>3, <2>4
<1> QED BY <1>5, <1>6 DEF AllocPgdir, Panic

(* boot_alloc of pages, and the memset.                                    *)
LEMMA StepAllocPages ==
  ASSUME PageInitInv, AllocPages
  PROVE  PageInitInv'
PROOF
<1> USE DEF PageInitInv
<1>1. pc = "pages" /\ UNCHANGED <<sizes, kern_pgdir, page_free_list, seg, tp>>
  BY DEF AllocPages
<1>2. SizesOK' /\ npages' = npages /\ AllPages' = AllPages
  BY <1>1 DEF SizesOK, sizes, AllPages
<1>3. /\ PGSIZE \in Nat \ {0} /\ PTSIZE \in Nat /\ npages \in Nat
      /\ npages * SIZEOF \in Nat /\ PagesStart \in Nat /\ KernPage \in Nat
  <2>1. npages \in Nat /\ SIZEOF \in Nat /\ PGSIZE \in Nat \ {0} /\ PTSIZE \in Nat
    BY Constants DEF SizesOK
  <2>2. npages * SIZEOF \in Nat
    BY <2>1
  <2>3. (KernPage + 1) * PGSIZE \in Nat
    BY <2>1, Layout
  <2> QED BY <2>1, <2>2, <2>3, Layout
<1>4. nextfree = PagesStart /\ kern_pgdir = KernPage /\ PagesStart <= PTSIZE
  BY <1>1 DEF AreasOK
<1>5. CASE /\ HasRoom(npages * SIZEOF) /\ pages' = nextfree /\ boot_alloc(npages * SIZEOF)
           /\ written' = written \cup PagesIn(nextfree, nextfree')
           /\ pp_ref' = [p \in AllPages |-> 0]
           /\ pp_link' = [p \in AllPages |-> NULL]
           /\ at' = 0 /\ pc' = "push"
  <2>1. nextfree' = RoundUp(PagesStart + npages * SIZEOF) /\ nextfree' <= PTSIZE
    <3>1. PagesStart + npages * SIZEOF \in Nat /\ PagesStart + npages * SIZEOF <= Window * PGSIZE
      BY <1>3, <1>4, <1>5, Layout DEF HasRoom
    <3>2. RoundUp(PagesStart + npages * SIZEOF) <= Window * PGSIZE
      BY <3>1, Layout, RoundUpLeast
    <3> QED BY <3>2, <1>4, <1>5, Layout DEF boot_alloc
  <2>2. AreasOK'
    BY <2>1, <1>1, <1>2, <1>4, <1>5 DEF AreasOK, Running, BeforeList, Stopped
  <2>3. page_free_list = NULL
    BY <1>1 DEF LocalsOK, BeforeList
  <2>4. ListOK'
    <3>1. Fields'
      BY <2>3, <1>1, <1>2, <1>5 DEF Fields
    <3>2. Pushed'
      <4>1. 0 .. at' - 1 = {}
        BY <1>5
      <4>2. Chain(page_free_list', pp_link', 0 .. at' - 1, Number')
        BY <4>1, <2>3, <1>1 DEF Chain
      <4>3. at' \in 0 .. npages'
        BY <1>2, <1>3, <1>5
      <4> QED BY <4>2, <4>3, <1>2, <1>5 DEF Pushed
    <3> QED BY <3>1, <3>2, <1>5 DEF ListOK, Running, BeforeList, Stopped
  <2>5. LocalsOK'
    BY <1>1, <1>5 DEF LocalsOK, BeforeList
  <2>6. WrittenOK'
    <3>1. ASSUME NEW p \in PagesIn(nextfree, nextfree')
          PROVE  p \in Nat /\ Low(p) /\ page2pa(p) \notin EXTPHYSMEM .. END - 1
      <4>1. nextfree' \in Int
        <5>1. PagesStart + npages * SIZEOF \in Nat
          BY <1>3
        <5>2. RoundUp(PagesStart + npages * SIZEOF) \div PGSIZE \in Nat
          BY <5>1, RoundUpFacts
        <5>3. nextfree' = (RoundUp(PagesStart + npages * SIZEOF) \div PGSIZE) * PGSIZE
          BY <5>1, <2>1, RoundUpFacts
        <5> QED BY <5>2, <5>3, <1>3, Multiples
      <4>2. p \in Nat /\ PagesStart <= p * PGSIZE /\ p * PGSIZE < nextfree'
        BY <1>4 DEF PagesIn
      <4>3. p * PGSIZE \in Int
        BY <4>2, <1>3, Multiples
      <4>4. Low(p)
        BY <4>1, <4>2, <4>3, <2>1, <1>3 DEF Low, page2pa
      <4>5. END <= RoundUp(END) /\ RoundUp(END) < PagesStart
        <5>1. KernPage * PGSIZE \in Int
          BY <1>3, Multiples
        <5> QED BY <5>1, <1>3, Layout, Constants, RoundUpFacts DEF PagesStart
      <4>6. KernPage * PGSIZE \in Int
        BY <1>3, Multiples
      <4>7. page2pa(p) \notin EXTPHYSMEM .. END - 1
        BY <4>2, <4>3, <4>5, <4>6, <1>3, Layout, Constants DEF page2pa
      <4> QED BY <4>2, <4>4, <4>7
    <3> QED BY <3>1, <1>5 DEF WrittenOK, EarlyWritesMapped
  <2> QED BY <1>2, <2>2, <2>4, <2>5, <2>6
<1>6. CASE pc' = "panic" /\ UNCHANGED <<nextfree, pages, pp_ref, pp_link, written, at>>
  <2>1. AreasOK'
    BY <1>1, <1>6 DEF AreasOK, Running, BeforeList, Stopped
  <2>2. ListOK'
    BY <1>6 DEF ListOK, Running, BeforeList, Stopped
  <2>3. LocalsOK'
    BY <1>6 DEF LocalsOK, BeforeList
  <2>4. WrittenOK'
    BY <1>6, SameWritten
  <2> QED BY <1>2, <2>1, <2>2, <2>3, <2>4
<1> QED BY <1>5, <1>6 DEF AllocPages, Panic

(* The steps on the list leave the areas alone.                            *)
LEMMA LaterAreas ==
  ASSUME AreasOK, Running, UNCHANGED <<sizes, areas>>, pc' \notin BeforeList
  PROVE  AreasOK'
  BY SameAreas DEF AreasOK, Running, BeforeList, Stopped

(* An iteration of the first loop of page_init.                            *)
LEMMA StepPushPage ==
  ASSUME PageInitInv, PushPage
  PROVE  PageInitInv'
PROOF
<1> USE DEF PageInitInv
<1>1. pc = "push" /\ UNCHANGED <<sizes, areas, seg, tp, written>>
  BY DEF PushPage
<1>2. Running /\ Fields /\ Pushed /\ npages \in Nat
  BY <1>1 DEF ListOK, Running, BeforeList, Stopped, SizesOK
<1>3. WrittenOK' /\ SizesOK'
  BY <1>1, SameWritten, SameAreas
<1>4. AllPages' = AllPages /\ Kept' = Kept /\ Number' = Number /\ npages' = npages
  BY <1>1, SameAreas
<1>5. /\ Number \in [AllPages -> Int] /\ \A p \in AllPages : Number[p] = p /\ p \in 0 .. npages - 1
      /\ NULL \notin AllPages /\ HEAD \notin AllPages
  BY PointerAssumption DEF Number, AllPages
<1>6. CASE /\ at < npages
           /\ pp_ref' = [pp_ref EXCEPT ![at] = 0]
           /\ pp_link' = [pp_link EXCEPT ![at] = page_free_list]
           /\ page_free_list' = at
           /\ at' = at + 1
           /\ UNCHANGED pc
  <2>1. at \in AllPages /\ 0 .. at - 1 \in SUBSET AllPages /\ 0 .. at = 0 .. at - 1 \cup {at}
        /\ at' - 1 = at /\ at' \in 0 .. npages
    BY <1>2, <1>6 DEF Pushed, AllPages
  <2>2. Chain(at, pp_link', 0 .. at - 1 \cup {at}, Number)
    <3>1. \A q \in 0 .. at - 1 : Number[q] < Number[at]
      BY <2>1, <1>5
    <3>2. Chain(at, [pp_link EXCEPT ![at] = page_free_list], 0 .. at - 1 \cup {at}, Number)
      BY <3>1, <2>1, <1>2, <1>5, ChainPush DEF Pushed, Fields
    <3> QED BY <3>2, <1>6
  <2>3. Chain(page_free_list', pp_link', 0 .. at' - 1, Number')
    BY <2>1, <2>2, <1>4, <1>6
  <2>4. Fields'
    BY <2>1, <1>2, <1>4, <1>6 DEF Fields
  <2>5. Pushed'
    BY <2>1, <2>3, <1>2, <1>4, <1>6 DEF Pushed, Fields
  <2>6. ListOK'
    BY <2>4, <2>5, <1>1, <1>6 DEF ListOK
  <2>7. AreasOK' /\ LocalsOK'
    BY <1>1, <1>2, <1>6, LaterAreas DEF LocalsOK, BeforeList
  <2> QED BY <2>6, <2>7, <1>3
<1>7. CASE at = npages /\ at' = HEAD /\ pc' = "filter" /\ UNCHANGED list
  <2>0. Fields' /\ page_free_list' = page_free_list /\ pp_link' = pp_link /\ pp_ref' = pp_ref
    BY <1>2, <1>4, <1>7 DEF Fields, list
  <2>1. 0 .. at - 1 = AllPages
    BY <1>7 DEF AllPages
  <2>2. Chain(page_free_list, pp_link, AllPages, Number)
    BY <2>1, <1>2 DEF Pushed
  <2>3. NextPage' = IF page_free_list = NULL THEN -1 ELSE page_free_list
    BY <2>0, <1>7 DEF NextPage, Deref
  <2>4. NextPage' = npages - 1
    <3>1. CASE AllPages = {}
      <4>1. npages = 0
        BY <3>1, <1>2 DEF AllPages
      <4> QED BY <4>1, <3>1, <2>2, <2>3 DEF Chain
    <3>2. CASE AllPages # {}
      <4>1. npages - 1 \in AllPages
        BY <3>2, <1>2 DEF AllPages
      <4>2. page_free_list \in AllPages /\ Number[npages - 1] <= Number[page_free_list]
        BY <3>2, <4>1, <2>2 DEF Chain
      <4>3. npages - 1 <= page_free_list /\ page_free_list \in 0 .. npages - 1
        BY <4>1, <4>2, <1>5
      <4>4. NextPage' = page_free_list
        BY <4>2, <2>3, <1>5
      <4> QED BY <4>3, <4>4, <1>2
    <3> QED BY <3>1, <3>2
  <2>5. Kept \in SUBSET AllPages
    BY DEF Kept
  <2>6. \A p \in Kept : ~(p > NextPage')
    BY <2>4, <2>5, <1>2, <1>5
  <2>7. Left' = AllPages
    BY <2>4, <2>6, <1>4 DEF Left, AllPages
  <2>8. Filtered'
    <3>1. Only(Left)'
      BY <2>0, <2>7, <1>2, <1>4 DEF Only, Pushed
    <3>2. Chain(page_free_list, pp_link, Left, Number)'
      BY <2>0, <2>2, <2>7, <1>4
    <3> QED BY <3>1, <3>2, <2>6, <1>4, <1>7 DEF Filtered
  <2>9. ListOK'
    BY <2>0, <2>8, <1>7 DEF ListOK
  <2>10. AreasOK' /\ LocalsOK'
    <3>1. AreasOK'
      BY <1>1, <1>2, <1>7, LaterAreas DEF BeforeList
    <3>2. LocalsOK'
      BY <1>1, <1>7 DEF LocalsOK, BeforeList
    <3> QED BY <3>1, <3>2
  <2> QED BY <2>9, <2>10, <1>3
<1> QED BY <1>6, <1>7 DEF PushPage

(* An iteration of the second loop of page_init.                           *)
LEMMA StepFilterPage ==
  ASSUME PageInitInv, FilterPage
  PROVE  PageInitInv'
PROOF
<1> USE DEF PageInitInv
<1>1. pc = "filter" /\ UNCHANGED <<sizes, areas, seg, tp, written>>
  BY DEF FilterPage
<1>2. Running /\ Fields /\ Filtered /\ npages \in Nat
  BY <1>1 DEF ListOK, Running, BeforeList, Stopped, SizesOK
<1>3. WrittenOK' /\ SizesOK'
  BY <1>1, SameWritten, SameAreas
<1>4. AllPages' = AllPages /\ Kept' = Kept /\ Number' = Number /\ npages' = npages
  BY <1>1, SameAreas
<1>5. /\ Number \in [AllPages -> Int] /\ \A p \in AllPages : Number[p] = p /\ p \in 0 .. npages - 1
      /\ NULL \notin AllPages /\ HEAD \notin AllPages
  BY PointerAssumption DEF Number, AllPages
<1>6. Kept \in SUBSET AllPages /\ \A p \in AllPages : p \in Kept <=> ~Reserved(p)
  BY DEF Kept
<1> DEFINE p == Deref(at)
<1>7. p \in AllPages \cup {NULL} /\ (p = NULL => NextPage = -1) /\ (p # NULL => NextPage = p)
  BY <1>2, <1>6 DEF Deref, Filtered, Fields, NextPage
<1>8. Left \in SUBSET AllPages
  <2>1. NextPage \in 0 .. npages - 1 \cup {-1}
    BY <1>5, <1>7
  <2>2. 0 .. NextPage \subseteq 0 .. npages - 1
    BY <2>1, <1>2
  <2> QED BY <2>2, <1>6 DEF Left, AllPages
<1>9. CASE p = NULL /\ pc' = "check" /\ UNCHANGED <<list, at>>
  <2>1. Left = Kept
    <3>1. NextPage = -1
      BY <1>7, <1>9
    <3>2. 0 .. NextPage = {} /\ \A q \in Kept : q > NextPage
      BY <3>1, <1>5, <1>6
    <3> QED BY <3>2 DEF Left
  <2>2. UNCHANGED <<page_free_list, pp_link, pp_ref>>
    BY <1>9 DEF list
  <2>3. Fields'
    BY <2>2, <1>2, <1>4 DEF Fields
  <2>4. Chain(page_free_list, pp_link, Kept, Number)'
    BY <2>1, <2>2, <1>2, <1>4 DEF Filtered
  <2>5. Only(Kept)'
    BY <2>1, <2>2, <1>2, <1>4 DEF Filtered, Only
  <2>6. ListOK'
    BY <2>3, <2>4, <2>5, <1>9 DEF ListOK
  <2>7. AreasOK'
    BY <1>1, <1>2, <1>9, LaterAreas DEF BeforeList
  <2>8. LocalsOK'
    BY <1>1, <1>9 DEF LocalsOK, BeforeList
  <2> QED BY <2>6, <2>7, <2>8, <1>3
(* The link of p leads to the page below it: all of those are still there. *)
<1>10. ASSUME p # NULL
       PROVE  /\ p \in Left /\ p \in AllPages
              /\ IF p = 0 THEN pp_link[p] = NULL ELSE pp_link[p] = p - 1
              /\ at # HEAD => at \in Left /\ at \in AllPages /\ pp_link[at] = p /\ at # p
              /\ at = HEAD => page_free_list = p
  <2>1. p \in AllPages /\ NextPage = p
    BY <1>7, <1>10
  <2>2. p \in Left /\ \A q \in Nat : q <= p => q \in Left
    BY <2>1, <1>5 DEF Left
  <2>3. \/ pp_link[p] = NULL /\ \A q \in Left : Number[p] <= Number[q]
        \/ /\ pp_link[p] \in Left /\ Number[pp_link[p]] < Number[p]
           /\ \A q \in Left : Number[q] < Number[p] => Number[q] <= Number[pp_link[p]]
    BY <2>2, <1>2 DEF Filtered, Chain
  <2>4. \/ pp_link[p] = NULL /\ \A q \in Left : p <= q
        \/ /\ pp_link[p] \in Left /\ pp_link[p] < p
           /\ \A q \in Left : q < p => q <= pp_link[p]
    BY <2>1, <2>3, <1>5, <1>8
  <2>5. ASSUME p = 0 PROVE pp_link[p] = NULL
    <3>1. ~(pp_link[p] \in Left /\ pp_link[p] < p)
      BY <2>5, <1>5, <1>8
    <3> QED BY <3>1, <2>4
  <2>6. ASSUME p # 0 PROVE pp_link[p] = p - 1
    <3>1. p - 1 \in Left /\ p - 1 < p
      BY <2>1, <2>2, <2>6, <1>5
    <3>2. pp_link[p] \in Left /\ pp_link[p] < p /\ p - 1 <= pp_link[p]
      BY <3>1, <2>4, <2>1, <1>5
    <3>3. pp_link[p] = p - 1
      BY <3>2, <2>1, <1>5, <1>8
    <3> QED BY <3>3
  <2>7. IF p = 0 THEN pp_link[p] = NULL ELSE pp_link[p] = p - 1
    BY <2>5, <2>6
  <2>8. at # HEAD => at \in Left /\ at \in AllPages /\ pp_link[at] = p /\ at # p
    BY <2>1, <1>2, <1>5, <1>6 DEF Filtered, Left, Deref
  <2>9. at = HEAD => page_free_list = p
    BY DEF Deref
  <2> QED BY <2>1, <2>2, <2>7, <2>8, <2>9
<1>11. CASE /\ p # NULL /\ Reserved(p)
            /\ pp_ref' = [pp_ref EXCEPT ![p] = 1]
            /\ page_free_list' = IF at = HEAD THEN pp_link[p] ELSE page_free_list
            /\ pp_link' = IF at = HEAD THEN [pp_link EXCEPT ![p] = NULL]
                          ELSE [pp_link EXCEPT ![p] = NULL, ![at] = pp_link[p]]
            /\ UNCHANGED <<at, pc>>
  <2>1. /\ p \in Left /\ p \in AllPages /\ p \notin Kept
        /\ IF p = 0 THEN pp_link[p] = NULL ELSE pp_link[p] = p - 1
        /\ at # HEAD => at \in Left /\ at \in AllPages /\ pp_link[at] = p /\ at # p
        /\ at = HEAD => page_free_list = p
    BY <1>6, <1>10, <1>11
  <2>2. Fields'
    BY <2>1, <1>2, <1>4, <1>11 DEF Fields
  <2>3. NextPage' = p - 1
    <3>1. Deref(at)' = pp_link[p]
      <4>1. CASE at = HEAD
        BY <4>1, <1>11 DEF Deref
      <4>2. CASE at # HEAD
        <5>1. pp_link'[at] = pp_link[p]
          BY <4>2, <2>1, <1>2, <1>11 DEF Fields
        <5> QED BY <5>1, <4>2, <1>11 DEF Deref
      <4> QED BY <4>1, <4>2
    <3>2. p = 0 \/ p - 1 # NULL
      BY <2>1, <1>5, PointerAssumption
    <3> QED BY <3>1, <3>2, <2>1 DEF NextPage
  <2>4. Left' = Left \ {p}
    <3>1. NextPage = p /\ p \in 0 .. npages - 1
      BY <2>1, <1>5, <1>7, <1>11
    <3>2. 0 .. (p - 1) = 0 .. p \ {p}
      BY <3>1
    <3>3. {q \in Kept : q > p - 1} = {q \in Kept : q > p}
      BY <3>1, <2>1, <1>5, <1>6
    <3>4. p \notin {q \in Kept : q > p}
      BY <2>1
    <3> HIDE DEF p
    <3> QED BY <3>1, <3>2, <3>3, <3>4, <2>3, <1>4 DEF Left
  <2>5. Chain(page_free_list, pp_link, Left, Number)'
    <3>1. CASE at = HEAD
      <4>1. pp_link' = [pp_link EXCEPT ![p] = NULL] /\ page_free_list' = pp_link[p] /\ page_free_list = p
        BY <3>1, <2>1, <1>11
      <4>2. \A q \in Left \ {p} : pp_link'[q] = pp_link[q]
        BY <4>1, <1>2, <1>8 DEF Fields
      <4>3. Chain(pp_link[p], pp_link', Left \ {p}, Number)
        <5>1. Chain(p, pp_link, Left, Number) /\ p \in Left
          BY <4>1, <2>1, <1>2 DEF Filtered
        <5> HIDE DEF p
        <5> QED BY <5>1, <4>2, <1>5, <1>8, ChainPop
      <4> QED BY <4>1, <4>3, <2>4, <1>4
    <3>2. CASE at # HEAD
      <4>1. pp_link' = [pp_link EXCEPT ![p] = NULL, ![at] = pp_link[p]]
            /\ page_free_list' = page_free_list
        BY <3>2, <1>11
      <4>2. Chain(page_free_list, [pp_link EXCEPT ![p] = NULL, ![at] = pp_link[p]], Left \ {p}, Number)
        <5> HIDE DEF p
        <5> QED BY <3>2, <2>1, <1>2, <1>5, <1>8, ChainRemove DEF Filtered, Fields
      <4> QED BY <4>1, <4>2, <2>4, <1>4
    <3> QED BY <3>1, <3>2
  <2>6. Only(Left)'
    <3> SUFFICES ASSUME NEW q \in AllPages
                 PROVE  IF q \in Left \ {p} THEN pp_ref'[q] = 0
                        ELSE pp_ref'[q] = 1 /\ pp_link'[q] = NULL
      BY <2>4, <1>4 DEF Only
    <3>1. IF q \in Left THEN pp_ref[q] = 0 ELSE pp_ref[q] = 1 /\ pp_link[q] = NULL
      BY <1>2 DEF Filtered, Only
    <3>2. CASE q = p
      <4>1. pp_ref'[p] = 1
        BY <2>1, <1>2, <1>11 DEF Fields
      <4>2. pp_link'[p] = NULL
        BY <2>1, <1>2, <1>11 DEF Fields
      <4> QED BY <4>1, <4>2, <3>2
    <3>3. CASE q # p
      <4>1. pp_ref'[q] = pp_ref[q]
        BY <3>3, <1>2, <1>11 DEF Fields
      <4>2. q # at => pp_link'[q] = pp_link[q]
        BY <3>3, <1>2, <1>11 DEF Fields
      <4>3. q = at => q \in Left
        BY <2>1, <1>5
      <4> QED BY <3>1, <3>3, <4>1, <4>2, <4>3
    <3> QED BY <3>2, <3>3
  <2>7. /\ at' \in Kept' \cup {HEAD}
        /\ at' # HEAD => at' > NextPage'
        /\ \A q \in Kept' : q > NextPage' => at' # HEAD /\ q >= at'
    <3>1. NextPage = p /\ p \in 0 .. npages - 1 /\ at' = at /\ NextPage' = p - 1
      BY <2>1, <2>3, <1>5, <1>7, <1>11
    <3>2. /\ at \in Kept \cup {HEAD}
          /\ at # HEAD => at > p
          /\ \A q \in Kept : q > p => at # HEAD /\ q >= at
      BY <3>1, <1>2 DEF Filtered
    <3>3. \A q \in Kept : q > p - 1 => q > p
      BY <3>1, <2>1, <1>5, <1>6
    <3>4. at # HEAD => at > p - 1
      BY <3>1, <3>2, <1>5, <1>6
    <3> HIDE DEF p
    <3> QED BY <3>1, <3>2, <3>3, <3>4, <1>4
  <2>8. Filtered'
    BY <2>5, <2>6, <2>7 DEF Filtered
  <2>9. ListOK'
    BY <2>2, <2>8, <1>1, <1>11 DEF ListOK
  <2>10. AreasOK'
    BY <1>1, <1>2, <1>11, LaterAreas DEF BeforeList
  <2>11. LocalsOK'
    BY <1>1, <1>11 DEF LocalsOK, BeforeList
  <2> QED BY <2>9, <2>10, <2>11, <1>3
<1>12. CASE p # NULL /\ ~Reserved(p) /\ at' = p /\ UNCHANGED <<list, pc>>
  <2>1. /\ p \in Left /\ p \in AllPages /\ p \in Kept
        /\ IF p = 0 THEN pp_link[p] = NULL ELSE pp_link[p] = p - 1
    BY <1>6, <1>10, <1>12
  <2>2. UNCHANGED <<page_free_list, pp_link, pp_ref>>
    BY <1>12 DEF list
  <2>3. NextPage' = p - 1
    <3>1. Deref(at)' = pp_link[p]
      BY <2>1, <2>2, <1>5, <1>12 DEF Deref
    <3>2. p = 0 \/ p - 1 # NULL
      BY <2>1, <1>5, PointerAssumption
    <3> QED BY <3>1, <3>2, <2>1 DEF NextPage
  <2>4. Left' = Left
    <3>1. NextPage = p /\ p \in 0 .. npages - 1
      BY <2>1, <1>5, <1>7, <1>12
    <3>2. 0 .. (p - 1) = 0 .. p \ {p}
      BY <3>1
    <3>3. {q \in Kept : q > p - 1} = {q \in Kept : q > p} \cup {p}
      BY <3>1, <2>1, <1>5, <1>6
    <3>4. p \in 0 .. p
      BY <3>1
    <3> HIDE DEF p
    <3> QED BY <3>1, <3>2, <3>3, <3>4, <2>3, <1>4 DEF Left
  <2>5. Only(Left)' /\ Fields'
    BY <2>2, <2>4, <1>2, <1>4 DEF Filtered, Only, Fields
  <2>6. Chain(page_free_list, pp_link, Left, Number)'
    BY <2>2, <2>4, <1>2, <1>4 DEF Filtered
  <2>7. /\ at' \in Kept' \cup {HEAD}
        /\ at' # HEAD => at' > NextPage'
        /\ \A q \in Kept' : q > NextPage' => at' # HEAD /\ q >= at'
    <3>1. p \in 0 .. npages - 1 /\ at' = p /\ NextPage' = p - 1 /\ p # HEAD
      BY <2>1, <2>3, <1>5, <1>12
    <3> HIDE DEF p
    <3>2. p > p - 1 /\ \A q \in Kept : q > p - 1 => q >= p
      BY <3>1, <1>5, <1>6
    <3> QED BY <3>1, <3>2, <2>1, <1>4
  <2>8. Filtered'
    BY <2>5, <2>6, <2>7 DEF Filtered
  <2>9. ListOK'
    BY <2>5, <2>8, <1>1, <1>12 DEF ListOK
  <2>10. AreasOK'
    BY <1>1, <1>2, <1>12, LaterAreas DEF BeforeList
  <2>11. LocalsOK'
    BY <1>1, <1>12 DEF LocalsOK, BeforeList
  <2> QED BY <2>9, <2>10, <2>11, <1>3
<1> QED BY <1>9, <1>11, <1>12 DEF FilterPage

(* check_page_free_list(1) is entered: the panic if the list is empty.     *)
LEMMA StepCheckFreeList ==
  ASSUME PageInitInv, CheckFreeList
  PROVE  PageInitInv'
PROOF
<1> USE DEF PageInitInv
<1>1. pc = "check" /\ UNCHANGED <<sizes, areas, list, seg, tp, written>>
  BY DEF CheckFreeList
<1>2. Running /\ Fields /\ npages \in Nat /\ Chain(page_free_list, pp_link, Kept, Number) /\ Only(Kept)
  BY <1>1 DEF ListOK, Running, BeforeList, Stopped, SizesOK
<1>3. WrittenOK' /\ SizesOK'
  BY <1>1, SameWritten, SameAreas
<1>4. AllPages' = AllPages /\ Kept' = Kept /\ Number' = Number /\ npages' = npages
  BY <1>1, SameAreas
<1>5. /\ Number \in [AllPages -> Int] /\ \A p \in AllPages : Number[p] = p /\ p \in 0 .. npages - 1
      /\ NULL \notin AllPages /\ HEAD \notin AllPages
  BY PointerAssumption DEF Number, AllPages
<1>6. Kept \in SUBSET AllPages
  BY DEF Kept
<1>7. UNCHANGED <<page_free_list, pp_link, pp_ref, seg, tp>>
  BY <1>1 DEF list
<1>8. CASE page_free_list = NULL /\ pc' = "panic"
  <2>1. AreasOK'
    BY <1>1, <1>2, <1>8, LaterAreas DEF BeforeList
  <2>2. ListOK' /\ LocalsOK'
    BY <1>8 DEF ListOK, LocalsOK, BeforeList, Running, Stopped
  <2> QED BY <2>1, <2>2, <1>3
<1>9. CASE page_free_list # NULL /\ pc' = "reorder" /\ at' = page_free_list
  <2>1. AreasOK'
    BY <1>1, <1>2, <1>9, LaterAreas DEF BeforeList
  <2>2. LocalsOK'
    BY <1>9 DEF LocalsOK, BeforeList
  <2>3. page_free_list \in Kept /\ \A q \in Kept : q <= page_free_list
    BY <1>2, <1>5, <1>6, <1>9 DEF Chain
  <2>4. NextToMove' = page_free_list
    BY <1>9 DEF NextToMove
  <2>5. {p \in Kept : p <= NextToMove'} = Kept /\ \A t : Moved(t)' = {}
    <3>1. \A q \in Kept : q <= NextToMove' /\ ~(q > NextToMove')
      BY <2>3, <2>4, <1>5, <1>6
    <3>2. {p \in Kept : p <= NextToMove'} = Kept
      BY <3>1
    <3>3. ASSUME NEW t PROVE Moved(t)' = {}
      BY <3>1, <1>4 DEF Moved
    <3> QED BY <3>2, <3>3
  <2>6. Chain(at, pp_link, {p \in Kept : p <= NextToMove}, Number)'
    BY <2>5, <1>2, <1>4, <1>7, <1>9
  <2>7. \A p \in AllPages : pp_link[p] # NULL => pp_link[p] < p
    <3> SUFFICES ASSUME NEW p \in AllPages, pp_link[p] # NULL PROVE pp_link[p] < p
      OBVIOUS
    <3>1. p \in Kept
      BY <1>2 DEF Only
    <3>2. pp_link[p] \in Kept /\ Number[pp_link[p]] < Number[p]
      BY <3>1, <1>2 DEF Chain
    <3> QED BY <3>2, <1>5, <1>6
  <2>8. seg = [t \in {0, 1} |-> NULL] /\ tp = [t \in {0, 1} |-> HEAD]
    BY <1>1 DEF LocalsOK
  <2>9. Reordered'
    <3>1. \A t \in {0, 1} : SegmentOK(t)'
      BY <2>5, <2>8, <1>7 DEF SegmentOK
    <3>2. seg' \in [{0, 1} -> AllPages' \cup {NULL}] /\ tp' \in [{0, 1} -> AllPages' \cup {HEAD}]
      BY <2>8, <1>7
    <3>3. at' \in Kept' \cup {NULL}
      BY <2>3, <1>4, <1>9
    <3> QED BY <2>6, <2>7, <3>1, <3>2, <3>3, <1>4, <1>7 DEF Reordered
  <2>10. Fields' /\ Only(Kept)'
    BY <1>2, <1>4, <1>7 DEF Fields, Only
  <2>11. ListOK'
    BY <2>9, <2>10, <1>9 DEF ListOK
  <2> QED BY <2>1, <2>2, <2>11, <1>3
<1> QED BY <1>8, <1>9 DEF CheckFreeList, Panic

(* An iteration of the loop that splits the list at PTSIZE.                *)
LEMMA StepReorderPage ==
  ASSUME PageInitInv, ReorderPage
  PROVE  PageInitInv'
PROOF
<1> USE DEF PageInitInv
<1>1. pc = "reorder" /\ at # NULL /\ UNCHANGED <<sizes, areas, pp_ref, page_free_list, pc, written>>
  BY DEF ReorderPage
<1>2. Running /\ Fields /\ npages \in Nat /\ Reordered /\ Only(Kept)
  BY <1>1 DEF ListOK, Running, BeforeList, Stopped, SizesOK
<1>3. WrittenOK' /\ SizesOK'
  BY <1>1, SameWritten, SameAreas
<1>4. AllPages' = AllPages /\ Kept' = Kept /\ Number' = Number /\ npages' = npages
  BY <1>1, SameAreas
<1>5. /\ Number \in [AllPages -> Int] /\ \A q \in AllPages : Number[q] = q /\ q \in 0 .. npages - 1
      /\ NULL \notin AllPages /\ HEAD \notin AllPages
  BY PointerAssumption DEF Number, AllPages
<1>6. Kept \in SUBSET AllPages
  BY DEF Kept
<1>0. PICK p : p = at
  OBVIOUS
<1>100. PICK t : t = Pagetype(p)
  OBVIOUS
<1> DEFINE K == {q \in Kept : q <= p}
<1>7. p \in Kept /\ p \in AllPages /\ NextToMove = p /\ t \in {0, 1} /\ p \in K
  <2>1. p \in Kept /\ NextToMove = p
    BY <1>0, <1>1, <1>2 DEF Reordered, NextToMove
  <2>2. p <= p
    BY <2>1, <1>5, <1>6
  <2> QED BY <2>1, <2>2, <1>6, <1>100 DEF Pagetype
<1>8. /\ tp' = [tp EXCEPT ![t] = p] /\ at' = pp_link'[p]
      /\ IF tp[t] = HEAD THEN seg' = [seg EXCEPT ![t] = p] /\ UNCHANGED pp_link
         ELSE pp_link' = [pp_link EXCEPT ![tp[t]] = p] /\ UNCHANGED seg
  BY <1>0, <1>100 DEF ReorderPage, StoreThrough
<1>9. /\ seg \in [{0, 1} -> AllPages \cup {NULL}]
      /\ tp \in [{0, 1} -> AllPages \cup {HEAD}]
      /\ Chain(p, pp_link, K, Number)
      /\ \A q \in AllPages : pp_link[q] # NULL => pp_link[q] < q
      /\ \A u \in {0, 1} : SegmentOK(u)
      /\ pp_link \in [AllPages -> AllPages \cup {NULL}]
  BY <1>0, <1>2, <1>7 DEF Reordered, Fields
<1>10. \A u \in {0, 1} : Moved(u) = {q \in Kept : q > p /\ Pagetype(q) = u}
  BY <1>7 DEF Moved
<1>11. /\ tp[t] = HEAD <=> Moved(t) = {}
       /\ tp[t] # HEAD => /\ tp[t] \in Moved(t) /\ tp[t] \in AllPages
                          /\ tp[t] > p /\ Pagetype(tp[t]) = t
  <2>1. SegmentOK(t) /\ Moved(t) \in SUBSET AllPages
    BY <1>6, <1>7, <1>9 DEF Moved
  <2>2. tp[t] # HEAD => tp[t] \in Moved(t)
    BY <2>1 DEF SegmentOK
  <2> QED BY <2>1, <2>2, <1>5, <1>7, <1>10 DEF SegmentOK
<1>12. /\ pp_link' \in [AllPages -> AllPages \cup {NULL}]
       /\ tp[t] # HEAD => pp_link'[tp[t]] = p
       /\ \A q \in AllPages : q # tp[t] => pp_link'[q] = pp_link[q]
  BY <1>7, <1>8, <1>9, <1>11
<1>13. \A q \in K : pp_link'[q] = pp_link[q]
  <2>1. \A q \in K : q \in AllPages /\ q # tp[t]
    BY <1>5, <1>6, <1>7, <1>11
  <2> QED BY <2>1, <1>12
<1>14. /\ Chain(at', pp_link', K \ {p}, Number)
       /\ at' = NULL <=> K \ {p} = {}
       /\ at' # NULL => at' \in K \ {p}
  <2>1. K \in SUBSET AllPages
    BY <1>6
  <2>2. at' = pp_link[p]
    BY <1>7, <1>8, <1>13
  <2> HIDE DEF K
  <2>3. p \in K /\ \A q \in K \ {p} : pp_link'[q] = pp_link[q]
    BY <1>7, <1>13
  <2>4. /\ Chain(pp_link[p], pp_link', K \ {p}, Number)
        /\ pp_link[p] = NULL <=> K \ {p} = {}
        /\ pp_link[p] # NULL => pp_link[p] \in K \ {p}
    <3>1. Chain(p, pp_link, K, Number) /\ Number \in [AllPages -> Int]
      BY <1>5, <1>9
    <3>2. Chain(pp_link[p], pp_link', K \ {p}, Number)
      BY <2>1, <2>3, <3>1, ChainPop
    <3>3. /\ pp_link[p] = NULL <=> K \ {p} = {}
          /\ pp_link[p] # NULL => pp_link[p] \in K \ {p}
      BY <2>1, <2>3, <3>1, ChainNext
    <3> QED BY <3>2, <3>3
  <2> QED BY <2>2, <2>4
<1>15. \A q \in Kept : /\ q <= NextToMove' <=> q \in K \ {p}
                       /\ q > NextToMove' <=> q > p \/ q = p
  <2>1. ASSUME NEW q \in Kept
        PROVE  q <= NextToMove' <=> q \in K \ {p}
    <3>1. CASE at' = NULL
      <4>1. NextToMove' = -1
        BY <3>1 DEF NextToMove
      <4>2. ~(q <= NextToMove')
        BY <4>1, <1>5, <1>6
      <4> QED BY <3>1, <4>2, <1>14
    <3>2. CASE at' # NULL
      <4>1. NextToMove' = at' /\ at' \in K \ {p} /\ at' \in AllPages
        BY <3>2, <1>6, <1>14 DEF NextToMove
      <4>2. \A x \in K \ {p} : Number[x] <= Number[at']
        BY <4>1, <1>14 DEF Chain
      <4>3. \A x \in K \ {p} : x <= at'
        BY <4>1, <4>2, <1>5, <1>6
      <4>4. at' < p
        BY <4>1, <1>5, <1>7
      <4>5. q <= at' => q \in K \ {p}
        BY <4>1, <4>4, <1>5, <1>6, <1>7
      <4> QED BY <4>1, <4>3, <4>5
    <3> QED BY <3>1, <3>2
  <2>2. NextToMove' \in Int
    BY <1>5, <1>6, <1>14 DEF NextToMove
  <2>3. ASSUME NEW q \in Kept
        PROVE  q > NextToMove' <=> q > p \/ q = p
    <3>1. q \in Int /\ p \in Int
      BY <1>5, <1>6, <1>7
    <3>2. q > NextToMove' <=> ~(q <= NextToMove')
      BY <3>1, <2>2
    <3>3. q \in K \ {p} <=> q <= p /\ q # p
      OBVIOUS
    <3> QED BY <3>1, <3>2, <3>3, <2>1
  <2> QED BY <2>1, <2>3
<1>16. /\ Moved(t)' = Moved(t) \cup {p}
       /\ \A u \in {0, 1} \ {t} : Moved(u)' = Moved(u)
  <2>1. \A u \in {0, 1} : Moved(u)' = {q \in Kept : (q > p \/ q = p) /\ Pagetype(q) = u}
    BY <1>4, <1>15 DEF Moved
  <2>2. Pagetype(p) = t
    BY <1>100
  <2>3. Moved(t)' = Moved(t) \cup {p}
    BY <2>1, <2>2, <1>7, <1>10
  <2>4. ASSUME NEW u \in {0, 1} \ {t} PROVE Moved(u)' = Moved(u)
    BY <2>1, <2>2, <2>4, <1>7, <1>10
  <2> QED BY <2>3, <2>4
<1> HIDE DEF K
<1>17. SegmentOK(t)'
  <2>1. tp'[t] = p /\ seg'[t] = IF tp[t] = HEAD THEN p ELSE seg[t]
    BY <1>7, <1>8, <1>9
  <2>2. \A q \in Moved(t) : q \in AllPages /\ q > p /\ q \in 0 .. npages - 1
    BY <1>5, <1>6, <1>7, <1>10
  <2>3. p \in 0 .. npages - 1
    BY <1>5, <1>7
  <2>4. CASE Moved(t) = {}
    <3>1. Moved(t)' = {p} /\ seg'[t] = p
      BY <2>1, <2>4, <1>11, <1>16
    <3>2. p <= p
      BY <2>3
    <3> QED BY <3>1, <3>2, <2>1 DEF SegmentOK
  <2>5. CASE Moved(t) # {}
    <3>1. /\ tp[t] # HEAD /\ tp[t] \in Moved(t) /\ seg[t] \in Moved(t) /\ seg'[t] = seg[t]
          /\ \A q \in Moved(t) : tp[t] <= q /\ q <= seg[t]
          /\ \A q \in Moved(t) \ {tp[t]} :
               /\ pp_link[q] \in Moved(t) /\ pp_link[q] < q
               /\ \A x \in Moved(t) : x < q => x <= pp_link[q]
      BY <2>1, <2>5, <1>7, <1>9, <1>11 DEF SegmentOK
    <3>2. \A q \in Moved(t)' : p <= q /\ q <= seg[t]
      BY <3>1, <2>2, <2>3, <1>16
    <3>3. ASSUME NEW q \in Moved(t)' \ {p}
          PROVE  /\ pp_link'[q] \in Moved(t)' /\ pp_link'[q] < q
                 /\ \A x \in Moved(t)' : x < q => x <= pp_link'[q]
      <4>1. q \in Moved(t)
        BY <1>16
      <4>2. CASE q = tp[t]
        <5>1. pp_link'[q] = p /\ p < q
          BY <3>1, <4>1, <4>2, <2>2, <2>3, <1>12
        <5>2. \A x \in Moved(t)' : x < q => x <= p
          BY <3>1, <4>2, <2>2, <2>3, <1>16
        <5> QED BY <5>1, <5>2, <1>16
      <4>3. CASE q # tp[t]
        <5>1. pp_link'[q] = pp_link[q]
          BY <4>1, <4>3, <2>2, <1>12
        <5>2. /\ pp_link[q] \in Moved(t) /\ pp_link[q] < q
              /\ \A x \in Moved(t) : x < q => x <= pp_link[q]
          BY <3>1, <4>1, <4>3
        <5>3. p <= pp_link[q]
          BY <5>2, <2>2, <2>3
        <5> QED BY <5>1, <5>2, <5>3, <1>16
      <4> QED BY <4>2, <4>3
    <3> QED BY <3>1, <3>2, <3>3, <2>1, <1>16 DEF SegmentOK
  <2> QED BY <2>4, <2>5
<1>18. ASSUME NEW u \in {0, 1} \ {t} PROVE SegmentOK(u)'
  <2>1. tp'[u] = tp[u] /\ seg'[u] = seg[u] /\ Moved(u)' = Moved(u) /\ SegmentOK(u)
    BY <1>8, <1>9, <1>16
  <2>2. \A q \in Moved(u) : q \in AllPages /\ q # tp[t]
    BY <1>5, <1>6, <1>10, <1>11
  <2>3. \A q \in Moved(u) : pp_link'[q] = pp_link[q]
    BY <2>2, <1>12
  <2> QED BY <2>1, <2>3 DEF SegmentOK
<1>19. Reordered'
  <2>1. \A u \in {0, 1} : SegmentOK(u)'
    BY <1>17, <1>18
  <2>2. \A q \in AllPages : pp_link'[q] # NULL => pp_link'[q] < q
    <3>1. tp[t] # HEAD => p < tp[t]
      BY <1>5, <1>7, <1>11
    <3> QED BY <3>1, <1>5, <1>9, <1>12
  <2>3. {q \in Kept' : q <= NextToMove'} = K \ {p}
    BY <1>4, <1>15 DEF K
  <2>4. Chain(at, pp_link, {q \in Kept : q <= NextToMove}, Number)'
    BY <2>3, <1>4, <1>14
  <2>5. tp' \in [{0, 1} -> AllPages \cup {HEAD}] /\ seg' \in [{0, 1} -> AllPages \cup {NULL}]
    BY <1>7, <1>8, <1>9
  <2>6. at' \in Kept \cup {NULL}
    BY <1>14 DEF K
  <2> QED BY <2>1, <2>2, <2>4, <2>5, <2>6, <1>4 DEF Reordered
<1>20. Only(Kept)'
  <2>1. ASSUME NEW q \in AllPages, q \notin Kept PROVE pp_link'[q] = NULL
    <3>1. q # tp[t]
      BY <2>1, <1>5, <1>10, <1>11, <1>7
    <3> QED BY <3>1, <2>1, <1>2, <1>12 DEF Only
  <2> QED BY <2>1, <1>1, <1>2, <1>4 DEF Only
<1>21. Fields'
  BY <1>1, <1>2, <1>4, <1>12 DEF Fields
<1>22. ListOK'
  BY <1>1, <1>19, <1>20, <1>21 DEF ListOK
<1>23. AreasOK'
  BY <1>1, <1>2, LaterAreas DEF BeforeList
<1>24. LocalsOK'
  BY <1>1 DEF LocalsOK, BeforeList
<1> QED BY <1>3, <1>22, <1>23, <1>24

(* The segment of the low pages is joined to the other one.                *)
LEMMA StepJoinLists ==
  ASSUME PageInitInv, JoinLists
  PROVE  PageInitInv'
PROOF
<1> USE DEF PageInitInv
<1>1. pc = "reorder" /\ pc' = "assert" /\ at = NULL /\ UNCHANGED <<sizes, areas, pp_ref, at, tp, written>>
  BY DEF JoinLists
<1>2. Running /\ Fields /\ npages \in Nat /\ Reordered /\ Only(Kept)
  BY <1>1 DEF ListOK, Running, BeforeList, Stopped, SizesOK
<1>3. WrittenOK' /\ SizesOK'
  BY <1>1, SameWritten, SameAreas
<1>4. AllPages' = AllPages /\ Kept' = Kept /\ LowFirst' = LowFirst /\ npages' = npages
  BY <1>1, SameAreas
<1>5. /\ \A q \in AllPages : q \in 0 .. npages - 1
      /\ NULL \notin AllPages /\ HEAD \notin AllPages
  BY PointerAssumption DEF AllPages
<1>6. Kept \in SUBSET AllPages
  BY DEF Kept
<1> DEFINE A == Moved(0)
           B == Moved(1)
           pp2 == IF tp[1] = HEAD THEN NULL ELSE seg[1]
           ended == IF tp[1] = HEAD THEN pp_link ELSE [pp_link EXCEPT ![tp[1]] = NULL]
           pp1 == IF tp[0] = HEAD THEN pp2 ELSE seg[0]
<1>7. /\ pp_link' = IF tp[0] = HEAD THEN ended ELSE [ended EXCEPT ![tp[0]] = pp2]
      /\ page_free_list' = pp1
  BY DEF JoinLists
<1>8. /\ \A q \in A : q \in Kept /\ q \in AllPages /\ q \in 0 .. npages - 1 /\ Low(q)
      /\ \A q \in B : q \in Kept /\ q \in AllPages /\ q \in 0 .. npages - 1 /\ ~Low(q)
      /\ \A q \in Kept : q \in A \/ q \in B
  <2>1. NextToMove = -1
    BY <1>1 DEF NextToMove
  <2>2. \A q \in Kept : q \in AllPages /\ q \in 0 .. npages - 1 /\ q > NextToMove
    BY <2>1, <1>5, <1>6
  <2> QED BY <2>2 DEF Moved, Pagetype
<1>9. SegmentOK(0) /\ SegmentOK(1)
  BY <1>2 DEF Reordered
<1>10. /\ tp[0] = HEAD <=> A = {}
       /\ tp[1] = HEAD <=> B = {}
       /\ A # {} => /\ tp[0] \in A /\ seg[0] \in A
                    /\ \A q \in A : tp[0] <= q /\ q <= seg[0]
       /\ B # {} => /\ tp[1] \in B /\ seg[1] \in B
                    /\ \A q \in B : tp[1] <= q /\ q <= seg[1]
  BY <1>5, <1>8, <1>9 DEF SegmentOK
<1>11. /\ \A q \in A \ {tp[0]} : /\ pp_link[q] \in A /\ pp_link[q] < q
                                 /\ \A x \in A : x < q => x <= pp_link[q]
       /\ \A q \in B \ {tp[1]} : /\ pp_link[q] \in B /\ pp_link[q] < q
                                 /\ \A x \in B : x < q => x <= pp_link[q]
  BY <1>9 DEF SegmentOK
<1>12. \A q \in A : q \notin B
  BY <1>8
<1> HIDE DEF A, B
<1>13. pp_link \in [AllPages -> AllPages \cup {NULL}]
  BY <1>2 DEF Fields
<1>14. /\ pp_link' \in [AllPages -> AllPages \cup {NULL}]
       /\ page_free_list' \in AllPages \cup {NULL}
       /\ \A q \in AllPages : q # tp[0] /\ q # tp[1] => pp_link'[q] = pp_link[q]
       /\ B # {} => pp_link'[tp[1]] = NULL
       /\ A # {} => pp_link'[tp[0]] = pp2
  <2>1. pp2 \in AllPages \cup {NULL} /\ pp1 \in AllPages \cup {NULL}
    BY <1>8, <1>10
  <2> HIDE DEF pp2, pp1
  <2>2. /\ ended \in [AllPages -> AllPages \cup {NULL}]
        /\ \A q \in AllPages : q # tp[1] => ended[q] = pp_link[q]
        /\ B # {} => ended[tp[1]] = NULL
    BY <1>8, <1>10, <1>13
  <2> HIDE DEF ended
  <2>3. B # {} /\ A # {} => tp[0] # tp[1]
    BY <1>10, <1>12
  <2> QED BY <2>1, <2>2, <2>3, <1>7, <1>8, <1>10
<1>15. pp2 = IF B = {} THEN NULL ELSE seg[1]
  BY <1>10
<1>16. page_free_list' = IF A = {} THEN pp2 ELSE seg[0]
  BY <1>7, <1>10
<1> HIDE DEF pp2, pp1, ended
<1> DEFINE rk == LowFirst
<1>17. /\ \A q \in A : rk[q] = npages + q
       /\ \A q \in B : rk[q] = q
  BY <1>8 DEF LowFirst
<1> HIDE DEF rk
<1>18. \A p \in Kept, q \in Kept : rk[p] = rk[q] => p = q
  BY <1>2, <1>8, <1>17
<1>19. ASSUME NEW p \in B
       PROVE  \/ pp_link'[p] = NULL /\ \A q \in Kept : rk[p] <= rk[q]
              \/ /\ pp_link'[p] \in Kept /\ rk[pp_link'[p]] < rk[p]
                 /\ \A q \in Kept : rk[q] < rk[p] => rk[q] <= rk[pp_link'[p]]
  <2>1. CASE p = tp[1]
    <3>1. pp_link'[p] = NULL /\ \A q \in B : p <= q
      BY <2>1, <1>10, <1>14
    <3>2. \A q \in Kept : rk[p] <= rk[q]
      BY <3>1, <1>2, <1>8, <1>17
    <3> QED BY <3>1, <3>2
  <2>2. CASE p # tp[1]
    <3>1. pp_link'[p] = pp_link[p]
      BY <2>2, <1>5, <1>8, <1>10, <1>12, <1>14
    <3>2. pp_link[p] \in B /\ pp_link[p] < p /\ \A x \in B : x < p => x <= pp_link[p]
      BY <2>2, <1>11
    <3>3. \A q \in Kept : rk[q] < rk[p] => q \in B /\ q < p
      BY <1>2, <1>8, <1>17
    <3> QED BY <3>1, <3>2, <3>3, <1>8, <1>17
  <2> QED BY <2>1, <2>2
<1>20. ASSUME NEW p \in A
       PROVE  \/ pp_link'[p] = NULL /\ \A q \in Kept : rk[p] <= rk[q]
              \/ /\ pp_link'[p] \in Kept /\ rk[pp_link'[p]] < rk[p]
                 /\ \A q \in Kept : rk[q] < rk[p] => rk[q] <= rk[pp_link'[p]]
  <2>1. CASE p = tp[0]
    <3>1. pp_link'[p] = pp2 /\ \A q \in A : p <= q
      BY <2>1, <1>10, <1>14
    <3>2. CASE B = {}
      <4>1. pp_link'[p] = NULL
        BY <3>1, <3>2, <1>15
      <4>2. \A q \in Kept : q \in A
        BY <3>2, <1>8
      <4> QED BY <3>1, <4>1, <4>2, <1>2, <1>8, <1>17
    <3>3. CASE B # {}
      <4>1. pp_link'[p] = seg[1] /\ seg[1] \in B /\ \A q \in B : q <= seg[1]
        BY <3>1, <3>3, <1>10, <1>15
      <4>2. \A q \in Kept : rk[q] < rk[p] => q \in B
        BY <3>1, <1>2, <1>8, <1>17
      <4>3. rk[seg[1]] < rk[p] /\ seg[1] \in Kept
        BY <4>1, <1>2, <1>8, <1>17
      <4> QED BY <4>1, <4>2, <4>3, <1>17
    <3> QED BY <3>2, <3>3
  <2>2. CASE p # tp[0]
    <3>1. pp_link'[p] = pp_link[p]
      BY <2>2, <1>5, <1>8, <1>10, <1>12, <1>14
    <3>2. pp_link[p] \in A /\ pp_link[p] < p /\ \A x \in A : x < p => x <= pp_link[p]
      BY <2>2, <1>11
    <3>3. \A q \in A : rk[q] < rk[p] => q < p
      BY <1>2, <1>8, <1>17
    <3>4. \A q \in A : rk[q] < rk[p] => rk[q] <= rk[pp_link[p]]
      BY <3>2, <3>3, <1>2, <1>8, <1>17
    <3>5. \A q \in B : rk[q] <= rk[pp_link[p]]
      BY <3>2, <1>2, <1>8, <1>17
    <3>6. rk[pp_link[p]] < rk[p]
      BY <3>2, <1>2, <1>8, <1>17
    <3> QED BY <3>1, <3>2, <3>4, <3>5, <3>6, <1>8
  <2> QED BY <2>1, <2>2
<1>21. IF Kept = {} THEN page_free_list' = NULL
       ELSE page_free_list' \in Kept /\ \A q \in Kept : rk[q] <= rk[page_free_list']
  <2>1. CASE A # {}
    <3>1. page_free_list' = seg[0] /\ seg[0] \in A /\ \A q \in A : q <= seg[0]
      BY <2>1, <1>10, <1>16
    <3>2. \A q \in Kept : rk[q] <= rk[seg[0]]
      BY <3>1, <1>2, <1>8, <1>17
    <3> QED BY <3>1, <3>2, <1>8
  <2>2. CASE A = {} /\ B # {}
    <3>1. page_free_list' = seg[1] /\ seg[1] \in B /\ \A q \in B : q <= seg[1]
      BY <2>2, <1>10, <1>15, <1>16
    <3>2. \A q \in Kept : q \in B
      BY <2>2, <1>8
    <3> QED BY <3>1, <3>2, <1>8, <1>17
  <2>3. CASE A = {} /\ B = {}
    BY <2>3, <1>8, <1>15, <1>16
  <2> QED BY <2>1, <2>2, <2>3
<1>22. Chain(page_free_list', pp_link', Kept, rk)
  <2>1. \A p \in Kept :
          \/ pp_link'[p] = NULL /\ \A q \in Kept : rk[p] <= rk[q]
          \/ /\ pp_link'[p] \in Kept /\ rk[pp_link'[p]] < rk[p]
             /\ \A q \in Kept : rk[q] < rk[p] => rk[q] <= rk[pp_link'[p]]
    BY <1>8, <1>19, <1>20
  <2> QED BY <2>1, <1>18, <1>21 DEF Chain
<1>23. Chain(page_free_list, pp_link, Kept, LowFirst)'
  BY <1>4, <1>22 DEF rk
<1>24. Only(Kept)'
  <2>1. ASSUME NEW q \in AllPages, q \notin Kept PROVE pp_link'[q] = NULL
    <3>1. q # tp[0] /\ q # tp[1]
      BY <2>1, <1>5, <1>8, <1>10
    <3> QED BY <3>1, <2>1, <1>2, <1>14 DEF Only
  <2> QED BY <2>1, <1>1, <1>2, <1>4 DEF Only
<1>25. Fields'
  BY <1>1, <1>2, <1>4, <1>14 DEF Fields
<1>26. ListOK'
  BY <1>1, <1>23, <1>24, <1>25 DEF ListOK
<1>27. AreasOK'
  BY <1>1, <1>2, LaterAreas DEF BeforeList
<1>28. LocalsOK'
  BY <1>1 DEF LocalsOK, BeforeList
<1> QED BY <1>3, <1>26, <1>27, <1>28

-----------------------------------------------------------------------------
(* The machines that are let through.                                      *)

(* The pages KADDR can map above KERNBASE.                                 *)
TopPages == (ASPACE - KERNBASE) \div PGSIZE

(* There are more of them than entry_pgdir maps.                           *)
LEMMA Top ==
  /\ TopPages \in Nat /\ ASPACE - KERNBASE = TopPages * PGSIZE
  /\ Window < TopPages
PROOF
<1>1. PGSIZE \in Nat \ {0} /\ ASPACE \in Nat /\ KERNBASE \in Nat
  BY Constants
<1>2. PTSIZE < ASPACE - KERNBASE /\ ASPACE % PGSIZE = 0 /\ KERNBASE % PGSIZE = 0
  BY LayoutAssumption
<1> DEFINE a == ASPACE \div PGSIZE
           k == KERNBASE \div PGSIZE
<1>3. a \in Nat /\ ASPACE = a * PGSIZE /\ k \in Nat /\ KERNBASE = k * PGSIZE
  BY <1>1, <1>2, MultipleOf
<1> HIDE DEF a, k
<1>4. ASPACE - KERNBASE = (a - k) * PGSIZE /\ a - k \in Int
  BY <1>1, <1>3, Multiples
<1>5. TopPages = a - k
  BY <1>1, <1>4, Quotient DEF TopPages
<1>6. Window < a - k
  <2>1. Window * PGSIZE < (a - k) * PGSIZE
    BY <1>2, <1>4, Layout
  <2> QED BY <2>1, <1>1, <1>4, Layout, Multiples
<1> QED BY <1>4, <1>5, <1>6, Layout

(* nextfree is the end of what the kernel has put into memory.             *)
LEMMA BootablePages ==
  ASSUME SizesOK, AreasOK, Running
  PROVE  Bootable <=> FreePage < npages /\ npages <= TopPages
PROOF
<1>1. PGSIZE \in Nat \ {0} /\ npages \in Nat
  BY Constants DEF SizesOK
<1>2. /\ FreePage \in Nat /\ nextfree = FreePage * PGSIZE /\ nextfree <= PTSIZE
      /\ npages * SIZEOF \in Nat /\ pages = (KernPage + 1) * PGSIZE
      /\ nextfree = RoundUp(pages + npages * SIZEOF)
  BY Areas DEF AreasOK
<1>3. KernPage + 1 \in Nat
  BY Layout
<1>4. RoundUp((KernPage + 1) * PGSIZE + npages * SIZEOF)
        = (KernPage + 1) * PGSIZE + RoundUp(npages * SIZEOF)
  BY <1>2, <1>3, RoundUpShift
<1>5. nextfree = RoundUp(END) + PGSIZE + RoundUp(npages * SIZEOF)
  BY <1>2, <1>4, Layout DEF PagesStart
<1>6. npages <= TopPages <=> npages * PGSIZE <= ASPACE - KERNBASE
  BY <1>1, Top, Multiples
<1>7. FreePage < npages <=> nextfree < npages * PGSIZE
  BY <1>1, <1>2, Multiples
<1> QED BY <1>2, <1>5, <1>6, <1>7 DEF Bootable

(* KADDR wraps around exactly for the pages that do not fit.               *)
LEMMA AssertionsHold ==
  ASSUME SizesOK, AreasOK, Running, PagesFrom(page_free_list) = Kept
  PROVE  ListLooksRight <=> Bootable
PROOF
<1>1. PGSIZE \in Nat \ {0} /\ npages \in Nat /\ ASPACE \in Nat /\ KERNBASE \in Nat
  BY Constants DEF SizesOK
<1>2. /\ FreePage \in Nat /\ nextfree = FreePage * PGSIZE
      /\ KernPage < FreePage /\ FreePage <= Window
  BY Areas
<1>3. /\ IoPage \in Nat /\ IOPHYSMEM = IoPage * PGSIZE
      /\ ExtPage \in Nat /\ EXTPHYSMEM = ExtPage * PGSIZE
      /\ 1 < IoPage /\ IoPage < ExtPage /\ ExtPage < KernPage
      /\ KernPage \in Nat /\ Window \in Nat
  BY Layout
<1>4. TopPages \in Nat /\ ASPACE - KERNBASE = TopPages * PGSIZE /\ Window < TopPages
  BY Top
<1>5. \A p \in Kept : /\ p \in Nat /\ p < npages
                      /\ p # 0 /\ (p < IoPage \/ FreePage <= p)
  BY KeptFacts, <1>1 DEF AllPages
<1>6. ASSUME NEW p \in Nat, NEW q \in Nat
      PROVE  /\ p * PGSIZE \in Nat
             /\ p * PGSIZE < q * PGSIZE <=> p < q
             /\ p * PGSIZE = q * PGSIZE <=> p = q
             /\ p * PGSIZE <= q * PGSIZE <=> p <= q
  <2>1. p * PGSIZE \in Nat
    BY <1>1
  <2> QED BY <2>1, <1>1, Multiples
<1>7. \A p \in Kept : page2pa(p) \notin {0, IOPHYSMEM, EXTPHYSMEM - PGSIZE, EXTPHYSMEM}
  <2> SUFFICES ASSUME NEW p \in Kept
               PROVE  p * PGSIZE \notin {0, IOPHYSMEM, EXTPHYSMEM - PGSIZE, EXTPHYSMEM}
    BY DEF page2pa
  <2>1. p \in Nat /\ p # 0 /\ (p < IoPage \/ FreePage <= p)
    BY <1>5
  <2>2. p # IoPage /\ p # ExtPage - 1 /\ p # ExtPage /\ ExtPage - 1 \in Nat
    BY <2>1, <1>2, <1>3
  <2>3. 0 * PGSIZE = 0 /\ (ExtPage - 1) * PGSIZE = ExtPage * PGSIZE - PGSIZE
    BY <1>1, <1>3
  <2>4. p * PGSIZE # 0 * PGSIZE
    BY <2>1, <1>6
  <2>5. p * PGSIZE # IoPage * PGSIZE
    BY <2>1, <2>2, <1>3, <1>6
  <2>6. p * PGSIZE # (ExtPage - 1) * PGSIZE
    BY <2>1, <2>2, <1>6
  <2>7. p * PGSIZE # ExtPage * PGSIZE
    BY <2>1, <2>2, <1>3, <1>6
  <2> QED BY <2>3, <2>4, <2>5, <2>6, <2>7, <1>3
<1>8. \A p \in Kept : page2pa(p) < EXTPHYSMEM <=> p < IoPage
  <2> SUFFICES ASSUME NEW p \in Kept PROVE p * PGSIZE < EXTPHYSMEM <=> p < IoPage
    BY DEF page2pa
  <2>1. p * PGSIZE < ExtPage * PGSIZE <=> p < ExtPage
    BY <1>3, <1>5, <1>6
  <2> QED BY <2>1, <1>2, <1>3, <1>5
<1>9. \A p \in Kept : page2pa(p) >= EXTPHYSMEM <=> FreePage <= p
  <2> SUFFICES ASSUME NEW p \in Kept PROVE p * PGSIZE >= EXTPHYSMEM <=> FreePage <= p
    BY DEF page2pa
  <2>1. p * PGSIZE >= ExtPage * PGSIZE <=> p >= ExtPage
    <3>1. ExtPage * PGSIZE <= p * PGSIZE <=> ExtPage <= p
      BY <1>3, <1>5, <1>6
    <3>2. p * PGSIZE \in Nat /\ ExtPage * PGSIZE \in Nat /\ p \in Nat
      BY <1>3, <1>5, <1>6
    <3> QED BY <3>1, <3>2, <1>3
  <2> QED BY <2>1, <1>2, <1>3, <1>5
<1>10. KADDR(nextfree) = KERNBASE + nextfree /\ nextfree > 0
  <2>1. FreePage < TopPages
    BY <1>2, <1>3, <1>4
  <2>2. nextfree < ASPACE - KERNBASE /\ nextfree \in Nat
    BY <2>1, <1>2, <1>4, <1>6
  <2>3. 0 * PGSIZE < FreePage * PGSIZE
    BY <1>2, <1>3, <1>6
  <2>4. nextfree > 0
    BY <2>2, <2>3, <1>1, <1>2
  <2>5. KERNBASE + nextfree \in 0 .. ASPACE - 1
    BY <2>2, <1>1
  <2>6. ASPACE \in Nat \ {0}
    BY <2>5, <1>1
  <2>7. (KERNBASE + nextfree) % ASPACE = KERNBASE + nextfree
    BY <2>5, <2>6
  <2> QED BY <2>4, <2>7 DEF KADDR
<1>11. ASSUME npages <= TopPages
       PROVE  \A p \in Kept : FreePage <= p => KADDR(page2pa(p)) >= KADDR(nextfree)
  <2> SUFFICES ASSUME NEW p \in Kept, FreePage <= p PROVE KADDR(p * PGSIZE) >= KADDR(nextfree)
    BY DEF page2pa
  <2>1. p < TopPages /\ p \in Nat
    BY <1>1, <1>4, <1>5, <1>11
  <2>2. p * PGSIZE < ASPACE - KERNBASE /\ p * PGSIZE \in Nat /\ nextfree <= p * PGSIZE
        /\ nextfree \in Nat
    BY <2>1, <1>2, <1>4, <1>6
  <2> DEFINE b == p * PGSIZE
  <2> HIDE DEF b
  <2>3. KERNBASE + b \in 0 .. ASPACE - 1 /\ ASPACE \in Nat \ {0}
    BY <2>2, <1>1 DEF b
  <2>4. (KERNBASE + b) % ASPACE = KERNBASE + b
    BY <2>3
  <2>5. KADDR(b) >= KADDR(nextfree)
    BY <2>2, <2>4, <1>1, <1>10 DEF KADDR, b
  <2> QED BY <2>5 DEF b
<1>12. ASSUME npages > TopPages
       PROVE  TopPages \in Kept /\ FreePage <= TopPages
              /\ ~(KADDR(page2pa(TopPages)) >= KADDR(nextfree))
  <2>1. TopPages \in AllPages /\ TopPages # 0 /\ FreePage <= TopPages
    BY <1>1, <1>2, <1>3, <1>4, <1>12 DEF AllPages
  <2>2. KADDR(page2pa(TopPages)) = 0
    <3>1. KERNBASE + TopPages * PGSIZE = ASPACE
      <4>1. TopPages * PGSIZE \in Nat
        BY <1>1, <1>4
      <4> QED BY <4>1, <1>1, <1>4
    <3>2. ASPACE # 0 
      BY LayoutAssumption, <1>1, <1>4, <3>1
    <3>3. ASPACE % ASPACE = 0
      <4>1. 1 * ASPACE = ASPACE /\ (1 * ASPACE) % ASPACE = 0
        BY <3>2, <1>1, Quotient
      <4> QED BY <4>1
    <3> QED BY <3>1, <3>3 DEF KADDR, page2pa
  <2>3. nextfree \in Nat
    BY <1>2, <1>6
  <2> QED BY <2>1, <2>2, <2>3, <1>1, <1>10, KeptFacts
<1>13. FreePage < npages => 1 \in Kept /\ FreePage \in Kept
  <2>1. FreePage < npages => 1 \in AllPages /\ FreePage \in AllPages
    BY <1>1, <1>2, <1>3 DEF AllPages
  <2>2. 1 # 0 /\ 1 < IoPage /\ FreePage # 0 /\ FreePage <= FreePage
    BY <1>2, <1>3
  <2> QED BY <2>1, <2>2, KeptFacts
<1>14. (\E p \in Kept : FreePage <= p) => FreePage < npages
  BY <1>1, <1>2, <1>5
<1>15. Bootable <=> FreePage < npages /\ npages <= TopPages
  BY BootablePages
<1>16. ListLooksRight <=>
         /\ \A p \in Kept : p < IoPage \/ KADDR(page2pa(p)) >= KADDR(nextfree)
         /\ \E p \in Kept : p < IoPage
         /\ \E p \in Kept : FreePage <= p
  BY <1>7, <1>8, <1>9 DEF ListLooksRight
<1>17. ASSUME Bootable PROVE ListLooksRight
  <2>1. FreePage < npages /\ npages <= TopPages
    BY <1>15, <1>17
  <2>2. 1 \in Kept /\ 1 < IoPage /\ FreePage \in Kept /\ FreePage <= FreePage
    BY <2>1, <1>2, <1>3, <1>13
  <2>3. \A p \in Kept : p < IoPage \/ KADDR(page2pa(p)) >= KADDR(nextfree)
    BY <2>1, <1>5, <1>11
  <2> QED BY <2>2, <2>3, <1>16
<1>18. ASSUME ListLooksRight PROVE Bootable
  <2>1. FreePage < npages
    BY <1>14, <1>16, <1>18
  <2>2. npages <= TopPages
    <3> SUFFICES ASSUME npages > TopPages PROVE FALSE
      BY <1>1, <1>4
    <3>1. TopPages < IoPage
      BY <1>12, <1>16, <1>18
    <3> QED BY <3>1, <1>2, <1>3, <1>4
  <2> QED BY <2>1, <2>2, <1>15
<1> QED BY <1>17, <1>18

(* A free page holds nothing of the kernel's image.                        *)
LEMMA FreePagesNotInImage ==
  ASSUME SizesOK, AreasOK, Running, NEW p \in Kept
  PROVE  p \in Nat /\ page2pa(p) \notin EXTPHYSMEM .. END - 1
PROOF
<1>1. PGSIZE \in Nat \ {0}
  BY Constants
<1>2. p \in Nat /\ (p < IoPage \/ FreePage <= p)
  BY KeptFacts DEF AllPages, SizesOK
<1>3. p < ExtPage \/ KernPage <= p
  BY <1>2, Layout, Areas
<1>4. p < ExtPage <=> p * PGSIZE < EXTPHYSMEM
  BY <1>1, <1>2, Layout, Multiples
<1>5. p < KernPage <=> p * PGSIZE < END
  BY <1>2, PagesBelow, Constants DEF KernPage
<1>6. p * PGSIZE \in Int /\ END \in Int /\ EXTPHYSMEM \in Int
  BY <1>1, <1>2, Multiples, Constants
<1>7. p * PGSIZE < EXTPHYSMEM \/ ~(p * PGSIZE < END)
  BY <1>2, <1>3, <1>4, <1>5, Layout
<1> QED BY <1>2, <1>6, <1>7 DEF page2pa

(* The assertions of check_page_free_list.                                 *)
LEMMA StepAssertFreeList ==
  ASSUME PageInitInv, AssertFreeList
  PROVE  PageInitInv' /\ (pc' = "checked" <=> Bootable)
PROOF
<1> USE DEF PageInitInv
<1>1. pc = "assert" /\ UNCHANGED <<sizes, areas, list, locals>>
  BY DEF AssertFreeList
<1>2. Running /\ Fields /\ npages \in Nat /\ Only(Kept) /\ Chain(page_free_list, pp_link, Kept, LowFirst)
  BY <1>1 DEF ListOK, Running, BeforeList, Stopped, SizesOK
<1>3. SizesOK' /\ AllPages' = AllPages /\ Kept' = Kept /\ LowFirst' = LowFirst /\ Bootable' = Bootable
  BY <1>1, SameAreas
<1>4. PagesFrom(page_free_list) = Kept
  <2>1. Kept \in SUBSET AllPages
    BY DEF Kept
  <2>2. LowFirst \in [AllPages -> Int]
    BY <1>2 DEF LowFirst, AllPages
  <2> QED BY <2>1, <2>2, <1>2, ChainList
<1>5. ListLooksRight <=> Bootable
  BY <1>2, <1>4, AssertionsHold
<1>6. pc' = (IF Bootable THEN "checked" ELSE "panic")
      /\ written' = written \cup {p \in Kept : Low(p)}
  BY <1>4, <1>5 DEF AssertFreeList, Panic
<1>7. WrittenOK'
  <2>1. \A p \in Kept : p \in Nat /\ page2pa(p) \notin EXTPHYSMEM .. END - 1
    BY <1>2, FreePagesNotInImage
  <2> QED BY <2>1, <1>6 DEF WrittenOK, EarlyWritesMapped
<1>8. AreasOK'
  BY <1>1, <1>2, <1>6, LaterAreas DEF BeforeList
<1>9. LocalsOK'
  BY <1>6 DEF LocalsOK, BeforeList
<1>10. Fields' /\ Only(Kept)' /\ Chain(page_free_list, pp_link, Kept, LowFirst)'
  BY <1>1, <1>2, <1>3 DEF Fields, Only, list
<1>11. ListOK'
  BY <1>3, <1>6, <1>10 DEF ListOK, Running, BeforeList, Stopped
<1> QED BY <1>3, <1>6, <1>7, <1>8, <1>9, <1>11

(* Every step keeps the invariant.                                         *)
LEMMA PageInitStep ==
  ASSUME PageInitInv, Next
  PROVE  PageInitInv'
  BY StepDetectMemory, StepAllocPgdir, StepAllocPages, StepPushPage, StepFilterPage,
     StepCheckFreeList, StepReorderPage, StepJoinLists, StepAssertFreeList DEF Next

(* So does a step of something else.                                       *)
LEMMA PageInitStutter ==
  ASSUME PageInitInv, UNCHANGED vars
  PROVE  PageInitInv'
PROOF
<1> USE DEF PageInitInv
<1>1. UNCHANGED <<sizes, areas, list, locals, pc, written>>
  BY DEF vars
<1>2. /\ UNCHANGED <<npages, nextfree, kern_pgdir, pages, pp_ref, pp_link, page_free_list>>
      /\ UNCHANGED <<at, seg, tp, pc, written>>
  BY <1>1 DEF sizes, areas, list, locals
<1>3. /\ AllPages' = AllPages /\ Kept' = Kept
      /\ Number' = Number /\ LowFirst' = LowFirst
      /\ SizesOK' = SizesOK /\ Bootable' = Bootable
  BY <1>1, SameAreas
<1>4. AreasOK' = AreasOK
  BY <1>2 DEF AreasOK, Running
<1>5. LocalsOK' = LocalsOK /\ WrittenOK' = WrittenOK
  BY <1>2 DEF LocalsOK, WrittenOK, EarlyWritesMapped
<1>6. ListOK'
  <2>1. NextPage' = NextPage /\ NextToMove' = NextToMove
    BY <1>2 DEF NextPage, Deref, NextToMove
  <2>2. Left' = Left /\ \A t : Moved(t)' = Moved(t)
    BY <2>1, <1>3 DEF Left, Moved
  <2>3. Running' = Running /\ Fields' = Fields /\ \A L : Only(L)' = Only(L)
    BY <1>2, <1>3 DEF Running, Fields, Only
  <2>4. Pushed' = Pushed
    BY <1>2, <1>3 DEF Pushed
  <2>5. Filtered' = Filtered
    BY <1>2, <1>3, <2>1, <2>2, <2>3 DEF Filtered
  <2>6. Reordered' = Reordered
    <3>1. \A t : SegmentOK(t)' = SegmentOK(t)
      BY <1>2, <2>2 DEF SegmentOK
    <3> QED BY <1>2, <1>3, <2>1, <3>1 DEF Reordered
  <2> QED BY <1>2, <1>3, <2>3, <2>4, <2>5, <2>6 DEF ListOK
<1> QED BY <1>3, <1>4, <1>5, <1>6

(* The structures of a bootable machine fit below PTSIZE, and it has a     *)
(* page beyond them.                                                       *)
LEMMA EnoughMemory ==
  ASSUME PageInitInv, Next, pc # "assert", pc' = "panic"
  PROVE  ~Bootable
PROOF
<1> USE DEF PageInitInv
<1>1. npages \in Nat /\ PGSIZE \in Nat \ {0} /\ PTSIZE \in Nat /\ npages * SIZEOF \in Nat
  <2>1. npages \in Nat /\ PGSIZE \in Nat \ {0} /\ PTSIZE \in Nat /\ SIZEOF \in Nat
    BY Constants DEF SizesOK
  <2> QED BY <2>1
<1>2. RoundUp(END) \in Nat
  <2>1. KernPage * PGSIZE \in Nat
    BY <1>1, Layout
  <2> QED BY <2>1, Layout
<1>3. npages * SIZEOF <= RoundUp(npages * SIZEOF) /\ RoundUp(npages * SIZEOF) \in Nat
  <2> DEFINE q == RoundUp(npages * SIZEOF) \div PGSIZE
  <2>1. q \in Nat /\ RoundUp(npages * SIZEOF) = q * PGSIZE
        /\ npages * SIZEOF <= RoundUp(npages * SIZEOF)
    BY <1>1, RoundUpFacts
  <2> HIDE DEF q
  <2>2. q * PGSIZE \in Nat
    BY <2>1, <1>1
  <2> QED BY <2>1, <2>2
<1>4. Bootable => RoundUp(END) + PGSIZE + RoundUp(npages * SIZEOF) <= PTSIZE
  BY DEF Bootable
<1>5. CASE AllocPgdir
  <2>1. nextfree = RoundUp(END) /\ ~(PGSIZE <= PTSIZE - nextfree)
    BY <1>5 DEF AllocPgdir, HasRoom, AreasOK
  <2> QED BY <2>1, <1>1, <1>2, <1>3, <1>4
<1>6. CASE AllocPages
  <2>1. nextfree = RoundUp(END) + PGSIZE /\ ~(npages * SIZEOF <= PTSIZE - nextfree)
    BY <1>6 DEF AllocPages, HasRoom, AreasOK, PagesStart
  <2> QED BY <2>1, <1>1, <1>2, <1>3, <1>4
<1>7. CASE CheckFreeList
  <2>1. pc = "check" /\ page_free_list = NULL
    BY <1>7 DEF CheckFreeList
  <2>2. Running /\ Chain(page_free_list, pp_link, Kept, Number)
    BY <2>1 DEF ListOK, Running, BeforeList, Stopped
  <2>3. Kept = {}
    <3>1. NULL \notin Kept
      BY PointerAssumption DEF Kept, AllPages
    <3> QED BY <2>1, <2>2, <3>1 DEF Chain
  <2>4. FreePage < npages => FreePage \in Kept
    <3>1. FreePage \in Nat /\ KernPage < FreePage /\ KernPage \in Nat
      BY <2>2, Areas, Layout
    <3>2. FreePage < npages => FreePage \in AllPages /\ FreePage # 0 /\ FreePage <= FreePage
      BY <3>1, <1>1 DEF AllPages
    <3> QED BY <3>2, <2>2, KeptFacts
  <2> QED BY <2>2, <2>3, <2>4, BootablePages
<1> QED BY <1>5, <1>6, <1>7 DEF Next, DetectMemory, PushPage, FilterPage,
                               ReorderPage, JoinLists, AssertFreeList

(* The panics of boot_alloc and of check_page_free_list stop the machines  *)
(* that are not Bootable; the others get past them.                        *)
LEMMA StepStopsOnlyUnbootable ==
  ASSUME PageInitInv, Next
  PROVE  /\ pc' = "panic" => ~Bootable
         /\ pc' = "checked" => Bootable
PROOF
<1>1. CASE AssertFreeList
  BY <1>1, StepAssertFreeList
<1>2. CASE ~AssertFreeList
  <2>1. pc' # "checked" /\ (pc' = "panic" => pc # "assert")
    BY <1>2 DEF Next, DetectMemory, AllocPgdir, AllocPages, PushPage, FilterPage,
                CheckFreeList, ReorderPage, JoinLists, Panic
  <2> QED BY <2>1, EnoughMemory
<1> QED BY <1>1, <1>2

-----------------------------------------------------------------------------
(* The layout of inc/memlayout.h by directory entry and by page number.    *)
BaseDir == PDX(KERNBASE)
BasePage == KERNBASE \div PGSIZE
UvptDir == BaseDir - 3
StackPages == KSTKSIZE \div PGSIZE
BootStackPage == BOOTSTACK \div PGSIZE
InfoPages == FreePage - (KernPage + 1)

(* The entries of the directory and of a table, and those of the directory *)
(* that the three regions need.                                            *)
Dirs == 0 .. NPDENTRIES - 1
Slots == 0 .. NPTENTRIES - 1
Entries == [page : Nat, perm : SUBSET {"U", "W"}]
MappedDirs == {BaseDir - 4, BaseDir - 1} \cup BaseDir .. NPDENTRIES - 1

-----------------------------------------------------------------------------
(* The address space, in pages.                                            *)

(* The block of n pages that k lies in.                                    *)
LEMMA DirOfPage ==
  ASSUME NEW n \in Nat \ {0}, NEW k \in Int, NEW d \in Int
  PROVE  k \div n = d <=> d * n <= k /\ k < d * n + n
PROOF
<1> DEFINE q == k \div n
           r == k % n
<1>1. q \in Int /\ r \in 0 .. n - 1 /\ k = q * n + r
  BY Division
<1> HIDE DEF q, r
<1>2. q * n \in Int /\ d * n \in Int
  BY <1>1, Multiples
<1>3. q < d => q * n + n <= d * n
  BY <1>1, Multiples
<1>4. d < q => d * n + n <= q * n
  BY <1>1, Multiples
<1>5. q = d => q * n = d * n
  OBVIOUS
<1>6. q = d <=> d * n <= k /\ k < d * n + n
  BY <1>1, <1>2, <1>3, <1>4, <1>5
<1> QED BY <1>6 DEF q

(* KERNBASE and the address space are whole numbers of tables.             *)
LEMMA Directory ==
  /\ NPTENTRIES \in Nat \ {0} /\ NPTENTRIES = Window
  /\ PTSIZE = NPTENTRIES * PGSIZE /\ PTSIZE \in Nat \ {0}
  /\ NPDENTRIES \in Nat /\ NPDENTRIES = NPTENTRIES
  /\ BaseDir \in Nat /\ 5 < BaseDir /\ BaseDir < NPDENTRIES
  /\ KERNBASE = BaseDir * PTSIZE
  /\ BasePage \in Nat /\ KERNBASE = BasePage * PGSIZE
  /\ BasePage = BaseDir * NPTENTRIES
  /\ ASPACE = (BasePage + TopPages) * PGSIZE
  /\ ASPACE \div PGSIZE = BasePage + TopPages
  /\ TopPages = (NPDENTRIES - BaseDir) * NPTENTRIES
PROOF
<1>1. PGSIZE \in Nat \ {0} /\ KERNBASE \in Nat /\ ASPACE \in Nat
  BY Constants
<1>2. /\ PTSIZE = NPTENTRIES * PGSIZE /\ ASPACE = NPDENTRIES * PTSIZE
      /\ NPDENTRIES = NPTENTRIES /\ KERNBASE % PTSIZE = 0 /\ UTOP > 0
  BY AddressAssumption
<1>3. NPTENTRIES = Window /\ Window \in Nat /\ 1 < Window
  BY Layout DEF NPTENTRIES, Window
<1>4. NPTENTRIES \in Nat \ {0} /\ NPDENTRIES \in Nat
  BY <1>2, <1>3
<1>5. PTSIZE \in Nat \ {0}
  <2>1. PTSIZE \in Nat /\ PTSIZE # 0
    BY Constants, Layout, <1>1, <1>3, LayoutAssumption
  <2> QED BY <2>1
<1>6. BaseDir \in Nat /\ KERNBASE = BaseDir * PTSIZE
  <2>1. BaseDir \in Int /\ KERNBASE % PTSIZE \in 0 .. PTSIZE - 1
        /\ KERNBASE = BaseDir * PTSIZE + (KERNBASE % PTSIZE)
    BY <1>1, <1>5, Division DEF BaseDir, PDX
  <2>2. BaseDir \in Nat
    BY <1>1, <1>5 DEF BaseDir, PDX
  <2>3. BaseDir * PTSIZE \in Int
    BY <1>5, <2>2, Multiples
  <2> QED BY <1>2, <2>1, <2>2, <2>3
<1>7. 5 < BaseDir
  <2>1. UTOP = KERNBASE - 5 * PTSIZE
    BY <1>1, <1>5 DEF UTOP, UPAGES, UVPT, ULIM
  <2>2. 5 * PTSIZE < BaseDir * PTSIZE
    BY <2>1, <1>1, <1>2, <1>5, <1>6
  <2> QED BY <2>2, <1>5, <1>6, Multiples
<1>8. BaseDir < NPDENTRIES
  <2>1. KERNBASE < ASPACE
    BY <1>1, <1>5, LayoutAssumption
  <2>2. BaseDir * PTSIZE < NPDENTRIES * PTSIZE
    BY <2>1, <1>2, <1>6
  <2> QED BY <2>2, <1>4, <1>5, <1>6, Multiples
<1>9. KERNBASE = (BaseDir * NPTENTRIES) * PGSIZE
  BY <1>1, <1>2, <1>4, <1>6
<1>10. ASPACE = (NPDENTRIES * NPTENTRIES) * PGSIZE
  BY <1>1, <1>2, <1>4
<1>11. BaseDir * NPTENTRIES \in Nat /\ NPDENTRIES * NPTENTRIES \in Nat
  BY <1>4, <1>6
<1>12. BasePage = BaseDir * NPTENTRIES /\ ASPACE \div PGSIZE = NPDENTRIES * NPTENTRIES
  <2> DEFINE u == NPDENTRIES * NPTENTRIES
             v == BaseDir * NPTENTRIES
  <2>1. u \in Nat /\ v \in Nat /\ ASPACE = u * PGSIZE /\ KERNBASE = v * PGSIZE
    BY <1>9, <1>10, <1>11
  <2> HIDE DEF u, v
  <2>2. (u * PGSIZE) \div PGSIZE = u /\ (v * PGSIZE) \div PGSIZE = v
    BY <2>1, <1>1, Quotient
  <2>3. BasePage = v /\ ASPACE \div PGSIZE = u
    BY <2>1, <2>2 DEF BasePage
  <2> QED BY <2>3 DEF u, v
<1>13. (NPDENTRIES - BaseDir) * NPTENTRIES = NPDENTRIES * NPTENTRIES - BaseDir * NPTENTRIES
  BY <1>4, <1>6, Multiples
<1> DEFINE a == NPDENTRIES * NPTENTRIES
           b == BaseDir * NPTENTRIES
<1>14. a \in Nat /\ b \in Nat /\ ASPACE = a * PGSIZE /\ KERNBASE = b * PGSIZE
       /\ (NPDENTRIES - BaseDir) * NPTENTRIES = a - b
       /\ BasePage = b /\ ASPACE \div PGSIZE = a
  BY <1>9, <1>10, <1>11, <1>12, <1>13
<1> HIDE DEF a, b
<1>15. ASPACE - KERNBASE = (a - b) * PGSIZE
  BY <1>1, <1>14, Multiples
<1>16. TopPages = a - b
  <2>1. TopPages * PGSIZE = (a - b) * PGSIZE
    BY <1>15, Top
  <2> QED BY <2>1, <1>1, <1>14, Top, Multiples
<1>17. BasePage + TopPages = a /\ TopPages = (NPDENTRIES - BaseDir) * NPTENTRIES
  BY <1>14, <1>16
<1> QED BY <1>2, <1>3, <1>4, <1>5, <1>6, <1>7, <1>8, <1>12, <1>14, <1>17

(* The areas between UTOP and KERNBASE have one directory entry each, and  *)
(* UVPT's is not one that boot_map_region fills.                           *)
LEMMA SpecialDirs ==
  /\ PDX(UVPT) = UvptDir /\ PDX(UPAGES) = BaseDir - 4 /\ PDX(UTOP) = BaseDir - 5
  /\ PDX(KSTACKTOP - 1) = BaseDir - 1 /\ PDX(KERNBASE) = BaseDir
  /\ UvptDir \in Dirs /\ UvptDir \notin MappedDirs /\ MappedDirs \subseteq Dirs
  /\ ULIM = (BasePage - 2 * NPTENTRIES) * PGSIZE
  /\ UVPT = (BasePage - 3 * NPTENTRIES) * PGSIZE
  /\ UPAGES = (BasePage - 4 * NPTENTRIES) * PGSIZE
  /\ UTOP = (BasePage - 5 * NPTENTRIES) * PGSIZE
  /\ BasePage > 5 * NPTENTRIES
PROOF
<1>1. /\ PTSIZE \in Nat \ {0} /\ BaseDir \in Nat /\ 5 < BaseDir /\ BaseDir < NPDENTRIES
      /\ KERNBASE = BaseDir * PTSIZE /\ NPDENTRIES \in Nat
      /\ PGSIZE \in Nat \ {0} /\ KERNBASE \in Nat
  BY Directory, Constants
<1>2. ASSUME NEW j \in Int
      PROVE  (KERNBASE - j * PTSIZE) \div PTSIZE = BaseDir - j
  <2>1. KERNBASE - j * PTSIZE = (BaseDir - j) * PTSIZE
    BY <1>1, Multiples
  <2> QED BY <2>1, <1>1, Quotient
<1>3. UVPT = KERNBASE - 3 * PTSIZE /\ UPAGES = KERNBASE - 4 * PTSIZE
      /\ UTOP = KERNBASE - 5 * PTSIZE /\ ULIM = KERNBASE - 2 * PTSIZE
  BY <1>1 DEF UTOP, UPAGES, UVPT, ULIM
<1>4. PDX(UVPT) = BaseDir - 3 /\ PDX(UPAGES) = BaseDir - 4 /\ PDX(UTOP) = BaseDir - 5
  <2>1. (KERNBASE - 3 * PTSIZE) \div PTSIZE = BaseDir - 3
    BY <1>2
  <2>2. (KERNBASE - 4 * PTSIZE) \div PTSIZE = BaseDir - 4
    BY <1>2
  <2>3. (KERNBASE - 5 * PTSIZE) \div PTSIZE = BaseDir - 5
    BY <1>2
  <2> QED BY <2>1, <2>2, <2>3, <1>3 DEF PDX
<1>5. PDX(KSTACKTOP - 1) = BaseDir - 1
  <2>1. (BaseDir - 1) * PTSIZE = KERNBASE - PTSIZE
    BY <1>1
  <2>2. (BaseDir - 1) * PTSIZE <= KERNBASE - 1 /\ KERNBASE - 1 < (BaseDir - 1) * PTSIZE + PTSIZE
    BY <1>1, <2>1
  <2>3. (KERNBASE - 1) \div PTSIZE = BaseDir - 1
    BY <2>2, <1>1, DirOfPage
  <2> QED BY <2>3 DEF PDX, KSTACKTOP
<1>6. ASSUME NEW j \in Nat
      PROVE  KERNBASE - j * PTSIZE = (BasePage - j * NPTENTRIES) * PGSIZE
  <2>1. NPTENTRIES \in Nat /\ PTSIZE = NPTENTRIES * PGSIZE
        /\ KERNBASE = BasePage * PGSIZE /\ BasePage \in Nat
    BY Directory
  <2>2. j * NPTENTRIES \in Int /\ j * PTSIZE = (j * NPTENTRIES) * PGSIZE
    BY <2>1, <1>1
  <2> DEFINE m == j * NPTENTRIES
  <2>3. m \in Int /\ j * PTSIZE = m * PGSIZE
    BY <2>2
  <2> HIDE DEF m
  <2>4. (BasePage - m) * PGSIZE = BasePage * PGSIZE - m * PGSIZE
    BY <2>1, <2>3, <1>1, Multiples
  <2>5. KERNBASE - j * PTSIZE = (BasePage - m) * PGSIZE
    BY <2>1, <2>3, <2>4
  <2> QED BY <2>5 DEF m
<1>7. BasePage > 5 * NPTENTRIES
  <2>1. NPTENTRIES \in Nat \ {0} /\ BasePage = BaseDir * NPTENTRIES
    BY Directory
  <2>2. 5 * NPTENTRIES < BaseDir * NPTENTRIES
    BY <2>1, <1>1, Multiples
  <2>3. BaseDir * NPTENTRIES \in Int /\ 5 * NPTENTRIES \in Int
    BY <2>1, <1>1
  <2> QED BY <2>1, <2>2, <2>3
<1>8. UvptDir \in Dirs /\ UvptDir \notin MappedDirs /\ MappedDirs \subseteq Dirs
  BY <1>1 DEF UvptDir, Dirs, MappedDirs
<1>9. KERNBASE - 2 * PTSIZE = (BasePage - 2 * NPTENTRIES) * PGSIZE
      /\ KERNBASE - 3 * PTSIZE = (BasePage - 3 * NPTENTRIES) * PGSIZE
  BY <1>6
<1>10. KERNBASE - 4 * PTSIZE = (BasePage - 4 * NPTENTRIES) * PGSIZE
       /\ KERNBASE - 5 * PTSIZE = (BasePage - 5 * NPTENTRIES) * PGSIZE
  BY <1>6
<1> QED BY <1>3, <1>4, <1>5, <1>7, <1>8, <1>9, <1>10 DEF UvptDir, BaseDir

(* A page's place in directory and table.                                  *)
LEMMA PlaceOfPage ==
  ASSUME NEW k \in Nat
  PROVE  /\ PDX(k * PGSIZE) = k \div NPTENTRIES
         /\ PTX(k * PGSIZE) = k % NPTENTRIES
         /\ PTX(k * PGSIZE) \in Slots
         /\ k * PGSIZE \in Nat /\ (k * PGSIZE) \div PGSIZE = k
PROOF
<1>1. PGSIZE \in Nat \ {0} /\ NPTENTRIES \in Nat \ {0} /\ PTSIZE = NPTENTRIES * PGSIZE
      /\ PTSIZE \in Nat \ {0}
  BY Directory, Constants
<1>2. (k * PGSIZE) \div PGSIZE = k
  BY <1>1, Quotient
<1> DEFINE d == k \div NPTENTRIES
           x == k % NPTENTRIES
<1>3. d \in Int /\ x \in 0 .. NPTENTRIES - 1 /\ k = d * NPTENTRIES + x
  BY <1>1, Division
<1> HIDE DEF d, x
<1>4. k * PGSIZE = d * PTSIZE + x * PGSIZE
  BY <1>1, <1>3
<1>5. x * PGSIZE \in 0 .. PTSIZE - 1
  <2>1. x * PGSIZE < NPTENTRIES * PGSIZE
    BY <1>1, <1>3, Multiples
  <2>2. x * PGSIZE \in Nat
    BY <1>1, <1>3
  <2> QED BY <2>1, <2>2, <1>1
<1>6. (k * PGSIZE) \div PTSIZE = d
  <2>1. (d * PTSIZE + x * PGSIZE) \div PTSIZE = d
    BY <1>1, <1>3, <1>5, Quotient
  <2> QED BY <2>1, <1>4
<1>7. k * PGSIZE \in Nat
  BY <1>1
<1> QED BY <1>2, <1>3, <1>6, <1>7 DEF PDX, PTX, Slots, d, x

(* Two pages with the same place in the directory and the same place in    *)
(* the table are one.                                                      *)
LEMMA SamePlace ==
  ASSUME NEW j \in Int, NEW k \in Int,
         j \div NPTENTRIES = k \div NPTENTRIES, j % NPTENTRIES = k % NPTENTRIES
  PROVE  j = k
PROOF
<1>1. NPTENTRIES \in Nat \ {0}
  BY Directory
<1>2. j = (j \div NPTENTRIES) * NPTENTRIES + (j % NPTENTRIES)
  BY <1>1, Division
<1>3. k = (k \div NPTENTRIES) * NPTENTRIES + (k % NPTENTRIES)
  BY <1>1, Division
<1> QED BY <1>2, <1>3

-----------------------------------------------------------------------------
(* The regions mem_init maps.                                              *)

(* A region by virtual page, physical page and number of pages.            *)
VPage(r) == Regions[r].va \div PGSIZE
PPage(r) == Regions[r].pa \div PGSIZE
Pages(r) == Regions[r].size

(* The calls of boot_map_region in mem_init: UPAGES, the stack, all of     *)
(* physical memory. The size of the second is in bytes where the loop      *)
(* counts pages.                                                           *)
LEMMA RegionFacts ==
  ASSUME SizesOK, AreasOK, Running
  PROVE  /\ Len(Regions) = 3
         /\ VPage(1) = BasePage - 4 * NPTENTRIES /\ Pages(1) = InfoPages
         /\ PPage(1) = KernPage + 1 /\ Regions[1].perm = {"U"}
         /\ VPage(2) = BasePage - StackPages /\ Pages(2) = KSTKSIZE
         /\ PPage(2) = BootStackPage /\ Regions[2].perm = {"W"}
         /\ VPage(3) = BasePage /\ Pages(3) = TopPages
         /\ PPage(3) = 0 /\ Regions[3].perm = {"W"}
         /\ \A r \in 1 .. 3 : Regions[r].va = VPage(r) * PGSIZE /\ Regions[r].pa = PPage(r) * PGSIZE
PROOF
<1>1. PGSIZE \in Nat \ {0}
  BY Constants
<1>2. /\ KernPage \in Nat /\ FreePage \in Nat /\ nextfree = FreePage * PGSIZE
      /\ pages = (KernPage + 1) * PGSIZE /\ npages * SIZEOF \in Nat
      /\ nextfree = RoundUp(pages + npages * SIZEOF)
  BY Areas, Layout
<1>3. RoundUp(npages * SIZEOF) \div PGSIZE = InfoPages
  <2> DEFINE q == RoundUp(npages * SIZEOF) \div PGSIZE
  <2>1. q \in Nat /\ RoundUp(npages * SIZEOF) = q * PGSIZE
    BY <1>2, RoundUpFacts
  <2>2. RoundUp((KernPage + 1) * PGSIZE + npages * SIZEOF)
          = (KernPage + 1) * PGSIZE + RoundUp(npages * SIZEOF)
    BY <1>2, RoundUpShift
  <2> HIDE DEF q
  <2>3. KernPage + 1 \in Int
    BY <1>2
  <2>4. (KernPage + 1 + q) * PGSIZE = (KernPage + 1) * PGSIZE + q * PGSIZE
    BY <2>1, <2>3, <1>1, Multiples
  <2>5. FreePage * PGSIZE = (KernPage + 1 + q) * PGSIZE
    BY <2>1, <2>2, <2>4, <1>2
  <2>6. FreePage = KernPage + 1 + q
    BY <2>1, <2>3, <2>5, <1>1, <1>2, Multiples
  <2>7. q = InfoPages
    BY <2>1, <2>6, <1>2 DEF InfoPages
  <2> QED BY <2>7 DEF q
<1>4. /\ BasePage \in Nat /\ KERNBASE = BasePage * PGSIZE /\ NPTENTRIES \in Nat
      /\ UPAGES = (BasePage - 4 * NPTENTRIES) * PGSIZE
  BY Directory, SpecialDirs
<1>5. /\ StackPages \in Nat /\ KSTKSIZE = StackPages * PGSIZE
      /\ BootStackPage \in Nat /\ BOOTSTACK = BootStackPage * PGSIZE
  BY MultipleOf, Constants, AddressAssumption DEF StackPages, BootStackPage
<1>6. KSTACKTOP - KSTKSIZE = (BasePage - StackPages) * PGSIZE
  BY <1>1, <1>4, <1>5, Multiples DEF KSTACKTOP
<1>7. (ASPACE - KERNBASE) \div PGSIZE = TopPages
  BY DEF TopPages
<1>8. \A q \in Int : (q * PGSIZE) \div PGSIZE = q
  BY <1>1, Quotient
<1>9. /\ Len(Regions) = 3
      /\ Regions[1].va = (BasePage - 4 * NPTENTRIES) * PGSIZE /\ Regions[1].size = InfoPages
      /\ Regions[1].pa = (KernPage + 1) * PGSIZE /\ Regions[1].perm = {"U"}
      /\ Regions[2].va = (BasePage - StackPages) * PGSIZE /\ Regions[2].size = KSTKSIZE
      /\ Regions[2].pa = BootStackPage * PGSIZE /\ Regions[2].perm = {"W"}
      /\ Regions[3].va = BasePage * PGSIZE /\ Regions[3].size = TopPages
      /\ Regions[3].pa = 0 /\ Regions[3].perm = {"W"}
  BY <1>2, <1>3, <1>4, <1>5, <1>6, <1>7 DEF Regions
<1>10. 0 * PGSIZE = 0 /\ KernPage + 1 \in Int /\ BasePage - 4 * NPTENTRIES \in Int
       /\ BasePage - StackPages \in Int /\ BootStackPage \in Int /\ BasePage \in Int /\ 0 \in Int
  BY <1>1, <1>2, <1>4, <1>5
<1>11. /\ VPage(1) = BasePage - 4 * NPTENTRIES /\ PPage(1) = KernPage + 1
       /\ VPage(2) = BasePage - StackPages /\ PPage(2) = BootStackPage
       /\ VPage(3) = BasePage /\ PPage(3) = 0
  BY <1>8, <1>9, <1>10 DEF VPage, PPage
<1>12. ASSUME NEW r \in 1 .. 3
       PROVE  Regions[r].va = VPage(r) * PGSIZE /\ Regions[r].pa = PPage(r) * PGSIZE
  <2>1. r = 1 \/ r = 2 \/ r = 3
    OBVIOUS
  <2> QED BY <2>1, <1>9, <1>10, <1>11
<1> QED BY <1>9, <1>11, <1>12 DEF Pages

(* None of them leaves the directory entry it starts in, except where that *)
(* is meant.                                                               *)
LEMMA RegionBounds ==
  ASSUME SizesOK, AreasOK, Running
  PROVE  /\ KernPage \in Nat /\ InfoPages \in Nat /\ InfoPages < NPTENTRIES
         /\ NPTENTRIES \in Nat \ {0} /\ BasePage \in Nat /\ TopPages \in Nat \ {0}
         /\ StackPages \in Nat \ {0} /\ StackPages < NPTENTRIES
         /\ KSTKSIZE = StackPages * PGSIZE /\ KSTKSIZE \in Nat \ {0} /\ KSTKSIZE <= TopPages
         /\ BootStackPage \in Nat /\ BasePage > 5 * NPTENTRIES
PROOF
<1>1. PGSIZE \in Nat \ {0}
  BY Constants
<1>2. InfoPages \in Nat /\ InfoPages < NPTENTRIES /\ KernPage \in Nat
  BY Areas, Layout, Directory DEF InfoPages
<1>3. /\ NPTENTRIES \in Nat \ {0} /\ PTSIZE = NPTENTRIES * PGSIZE
      /\ BasePage \in Nat /\ BasePage > 5 * NPTENTRIES
  BY Directory, SpecialDirs
<1>4. TopPages \in Nat \ {0}
  BY Top, Layout
<1>5. /\ StackPages \in Nat /\ KSTKSIZE = StackPages * PGSIZE
      /\ BootStackPage \in Nat /\ KSTKSIZE \in Nat \ {0}
  BY MultipleOf, Constants, AddressAssumption DEF StackPages, BootStackPage
<1>6. StackPages # 0 /\ StackPages < NPTENTRIES
  <2>1. StackPages # 0
    BY <1>1, <1>5
  <2>2. StackPages * PGSIZE < NPTENTRIES * PGSIZE
    BY <1>3, <1>5, AddressAssumption
  <2> QED BY <2>1, <2>2, <1>1, <1>3, <1>5, Multiples
<1>7. KSTKSIZE <= TopPages
  <2>1. KSTKSIZE * PGSIZE <= TopPages * PGSIZE
    BY AddressAssumption, Top
  <2> QED BY <2>1, <1>1, <1>4, <1>5, Multiples
<1> QED BY <1>2, <1>3, <1>4, <1>5, <1>6, <1>7

(* The condition of boot_map_region's loop compares addresses in bytes     *)
(* that it has advanced in pages; it counts to size nonetheless.           *)
LEMMA LoopCondition ==
  ASSUME SizesOK, AreasOK, Running, region \in 1 .. 3, i \in 0 .. Pages(region)
  PROVE  MoreToMap(Regions[region]) <=> i < Pages(region)
PROOF
<1>1. PGSIZE \in Nat \ {0} /\ PGSIZE > 1 /\ KERNBASE \in Nat /\ ASPACE \in Nat
  BY Constants, AddressAssumption
<1>2. /\ ASPACE - KERNBASE = TopPages * PGSIZE /\ KERNBASE = BasePage * PGSIZE
      /\ KERNBASE - 4 * (NPTENTRIES * PGSIZE) = (BasePage - 4 * NPTENTRIES) * PGSIZE
  <2>1. UPAGES = KERNBASE - 4 * (NPTENTRIES * PGSIZE)
    BY <1>1, Directory DEF UPAGES, UVPT, ULIM
  <2> QED BY <2>1, Top, Directory, SpecialDirs
<1>3. /\ NPTENTRIES \in Nat \ {0} /\ BasePage \in Nat /\ TopPages \in Nat \ {0}
      /\ KSTKSIZE \in Nat \ {0} /\ StackPages \in Nat /\ KSTKSIZE = StackPages * PGSIZE
      /\ InfoPages \in Nat /\ InfoPages < NPTENTRIES /\ BasePage > 5 * NPTENTRIES
  BY RegionBounds
<1> DEFINE r == Regions[region]
<1>4. r.va \in Nat /\ r.size \in Nat /\ r.va + r.size < ASPACE
  <2>1. region = 1 \/ region = 2 \/ region = 3
    OBVIOUS
  <2>2. CASE region = 1
    <3>1. r.va = (BasePage - 4 * NPTENTRIES) * PGSIZE /\ r.size = InfoPages
      BY <2>2, RegionFacts DEF Pages
    <3>2. BasePage - 4 * NPTENTRIES \in Nat
      BY <1>3
    <3>3. (BasePage - 4 * NPTENTRIES) * PGSIZE \in Nat
      BY <3>2, <1>1
    <3>4. NPTENTRIES * PGSIZE \in Nat /\ NPTENTRIES <= NPTENTRIES * PGSIZE
      BY <1>1, <1>3
    <3>5. TopPages * PGSIZE \in Nat /\ 0 < TopPages * PGSIZE
      BY <1>1, <1>3
    <3> QED BY <3>1, <3>3, <3>4, <3>5, <1>1, <1>2, <1>3
  <2>3. CASE region = 2
    <3>1. r.va = (BasePage - StackPages) * PGSIZE /\ r.size = KSTKSIZE
      BY <2>3, RegionFacts DEF Pages
    <3>2. (BasePage - StackPages) * PGSIZE = KERNBASE - KSTKSIZE
      BY <1>1, <1>2, <1>3, Multiples
    <3>3. TopPages * PGSIZE \in Nat /\ 0 < TopPages * PGSIZE
      BY <1>1, <1>3
    <3>4. StackPages < BasePage
      BY RegionBounds
    <3>5. StackPages * PGSIZE <= BasePage * PGSIZE
      BY <3>4, <1>1, <1>3, Multiples
    <3> QED BY <3>1, <3>2, <3>3, <3>5, <1>1, <1>2, <1>3
  <2>4. CASE region = 3
    <3>1. r.va = BasePage * PGSIZE /\ r.size = TopPages
      BY <2>4, RegionFacts DEF Pages
    <3>2. TopPages < TopPages * PGSIZE /\ TopPages * PGSIZE \in Nat
      BY <1>1, <1>3
    <3> QED BY <3>1, <3>2, <1>1, <1>2, <1>3
  <2> QED BY <2>1, <2>2, <2>3, <2>4
<1>5. i \in 0 .. r.size
  BY DEF Pages
<1> HIDE DEF r
<1>6. r.va + i \in 0 .. ASPACE - 1 /\ r.va + r.size \in 0 .. ASPACE - 1 /\ ASPACE \in Nat \ {0}
  BY <1>1, <1>4, <1>5
<1>7. (r.va + i) % ASPACE = r.va + i /\ (r.va + r.size) % ASPACE = r.va + r.size
  BY <1>6
<1>8. MoreToMap(r) <=> i < r.size
  BY <1>4, <1>5, <1>7 DEF MoreToMap
<1> QED BY <1>8 DEF r, Pages

(* The page an iteration maps.                                             *)
Target == VPage(region) + i

(* It is in the address space, also where the second region, KSTKSIZE      *)
(* pages long, runs past KERNBASE; and it is not in the window at UVPT.    *)
LEMMA TargetFacts ==
  ASSUME SizesOK, AreasOK, Running, region \in 1 .. 3, i \in 0 .. Pages(region) - 1
  PROVE  /\ Target \in 0 .. BasePage + TopPages - 1
         /\ (Regions[region].va + i * PGSIZE) % ASPACE = Target * PGSIZE
         /\ (Regions[region].pa + i * PGSIZE) \div PGSIZE = PPage(region) + i
         /\ PPage(region) + i \in Nat
         /\ Target \div NPTENTRIES \in MappedDirs
         /\ Target \div NPTENTRIES # UvptDir
PROOF
<1>1. PGSIZE \in Nat \ {0}
  BY Constants
<1>2. /\ NPTENTRIES \in Nat \ {0} /\ BasePage \in Nat /\ TopPages \in Nat \ {0}
      /\ KSTKSIZE \in Nat \ {0} /\ KSTKSIZE <= TopPages
      /\ StackPages \in Nat \ {0} /\ StackPages < NPTENTRIES /\ BootStackPage \in Nat
      /\ InfoPages \in Nat /\ InfoPages < NPTENTRIES /\ BasePage > 5 * NPTENTRIES
      /\ KernPage \in Nat
  BY RegionBounds
<1>3. region = 1 \/ region = 2 \/ region = 3
  OBVIOUS
<1>4. /\ VPage(1) = BasePage - 4 * NPTENTRIES /\ Pages(1) = InfoPages /\ PPage(1) = KernPage + 1
      /\ VPage(2) = BasePage - StackPages /\ Pages(2) = KSTKSIZE /\ PPage(2) = BootStackPage
      /\ VPage(3) = BasePage /\ Pages(3) = TopPages /\ PPage(3) = 0
  BY RegionFacts
<1>5. /\ BaseDir \in Nat /\ 5 < BaseDir /\ BaseDir < NPDENTRIES /\ NPDENTRIES \in Nat
      /\ BasePage = BaseDir * NPTENTRIES
      /\ TopPages = (NPDENTRIES - BaseDir) * NPTENTRIES
  BY Directory
<1>6. VPage(region) \in Nat /\ PPage(region) \in Nat /\ i \in Nat
      /\ Pages(region) \in Nat /\ i < Pages(region)
  BY <1>2, <1>3, <1>4
<1>7. Target \in 0 .. BasePage + TopPages - 1
  <2>1. CASE region = 1
    BY <2>1, <1>2, <1>4, <1>6 DEF Target
  <2>2. CASE region = 2
    BY <2>2, <1>2, <1>4, <1>6 DEF Target
  <2>3. CASE region = 3
    BY <2>3, <1>2, <1>4, <1>6 DEF Target
  <2> QED BY <2>1, <2>2, <2>3, <1>3
<1>8. Regions[region].va = VPage(region) * PGSIZE /\ Regions[region].pa = PPage(region) * PGSIZE
  BY RegionFacts
<1>9. (Regions[region].va + i * PGSIZE) % ASPACE = Target * PGSIZE
  <2>1. Regions[region].va + i * PGSIZE = Target * PGSIZE
    BY <1>1, <1>6, <1>8, Multiples DEF Target
  <2>2. Target * PGSIZE < (BasePage + TopPages) * PGSIZE /\ Target * PGSIZE \in Nat
    BY <1>1, <1>2, <1>7, Multiples
  <2>3. ASPACE = (BasePage + TopPages) * PGSIZE /\ ASPACE \in Nat
    BY Directory, Constants
  <2> DEFINE t == Target * PGSIZE
  <2>4. t \in 0 .. ASPACE - 1 /\ ASPACE \in Nat \ {0}
    BY <2>2, <2>3
  <2> HIDE DEF t
  <2>5. t % ASPACE = t
    BY <2>4
  <2> QED BY <2>1, <2>5 DEF t
<1>10. (Regions[region].pa + i * PGSIZE) \div PGSIZE = PPage(region) + i
  <2>1. Regions[region].pa + i * PGSIZE = (PPage(region) + i) * PGSIZE
    BY <1>1, <1>6, <1>8, Multiples
  <2>2. PPage(region) + i \in Int
    BY <1>6
  <2> QED BY <2>1, <2>2, <1>1, Quotient
<1>11. PPage(region) + i \in Nat
  BY <1>6
<1>12. Target \div NPTENTRIES \in MappedDirs
  <2>1. ASSUME Target < BasePage, Target >= BasePage - NPTENTRIES
        PROVE  Target \div NPTENTRIES = BaseDir - 1
    <3>1. (BaseDir - 1) * NPTENTRIES = BasePage - NPTENTRIES
      BY <1>2, <1>5
    <3>2. (BaseDir - 1) * NPTENTRIES <= Target /\ Target < (BaseDir - 1) * NPTENTRIES + NPTENTRIES
      BY <2>1, <3>1, <1>2, <1>7
    <3> QED BY <3>2, <1>2, <1>5, <1>7, DirOfPage
  <2>2. ASSUME Target >= BasePage
        PROVE  Target \div NPTENTRIES \in BaseDir .. NPDENTRIES - 1
    <3> DEFINE d == Target \div NPTENTRIES
    <3>1. d \in Int /\ Target \in Int
      BY <1>2, <1>7
    <3>2. d * NPTENTRIES <= Target /\ Target < d * NPTENTRIES + NPTENTRIES
      BY <3>1, <1>2, DirOfPage
    <3> HIDE DEF d
    <3>3. d < BaseDir => d * NPTENTRIES + NPTENTRIES <= BaseDir * NPTENTRIES
      BY <3>1, <1>2, <1>5, Multiples
    <3>4. NPDENTRIES <= d => NPDENTRIES * NPTENTRIES <= d * NPTENTRIES
      BY <3>1, <1>2, <1>5, Multiples
    <3>5. NPDENTRIES * NPTENTRIES = BasePage + TopPages
      <4>1. (NPDENTRIES - BaseDir) * NPTENTRIES
              = NPDENTRIES * NPTENTRIES - BaseDir * NPTENTRIES
        BY <1>2, <1>5, Multiples
      <4>2. NPDENTRIES * NPTENTRIES \in Int
        BY <1>2, <1>5, Multiples
      <4> QED BY <4>1, <4>2, <1>2, <1>5
    <3>6. d * NPTENTRIES \in Int
      BY <3>1, <1>2, Multiples
    <3>7. ~(d < BaseDir) /\ ~(NPDENTRIES <= d)
      BY <2>2, <3>2, <3>3, <3>4, <3>5, <3>6, <1>2, <1>5, <1>7
    <3>8. d \in BaseDir .. NPDENTRIES - 1
      BY <3>1, <3>7, <1>5
    <3> QED BY <3>8 DEF d
  <2>3. CASE region = 1
    <3>1. (BaseDir - 4) * NPTENTRIES = BasePage - 4 * NPTENTRIES
      BY <1>2, <1>5
    <3>2. (BaseDir - 4) * NPTENTRIES <= Target /\ Target < (BaseDir - 4) * NPTENTRIES + NPTENTRIES
      BY <2>3, <3>1, <1>2, <1>4, <1>6 DEF Target
    <3>3. Target \div NPTENTRIES = BaseDir - 4
      BY <3>2, <1>2, <1>5, <1>7, DirOfPage
    <3> QED BY <3>3 DEF MappedDirs
  <2>4. CASE region = 2
    <3>1. Target >= BasePage - NPTENTRIES
      BY <2>4, <1>2, <1>4, <1>6 DEF Target
    <3>2. Target \in Int /\ BasePage \in Int
      BY <1>2, <1>7
    <3> QED BY <3>1, <3>2, <2>1, <2>2 DEF MappedDirs
  <2>5. CASE region = 3
    <3>1. Target >= BasePage
      BY <2>5, <1>2, <1>4, <1>6 DEF Target
    <3> QED BY <3>1, <2>2 DEF MappedDirs
  <2> QED BY <2>3, <2>4, <2>5, <1>3
<1>13. Target \div NPTENTRIES # UvptDir
  BY <1>12, SpecialDirs
<1> QED BY <1>7, <1>9, <1>10, <1>11, <1>12, <1>13

-----------------------------------------------------------------------------
(* The invariant.                                                          *)

(* Where boot_map_region and what follows it run, and with check_page      *)
(* before them.                                                            *)
MappingSteps == {"map", "check_kern_pgdir", "lcr3", "check_installed", "done"}
OnceChecked == {"check_page"} \cup MappingSteps

(* The page tables are taken from the list and stay off it.                *)
Free == Kept \ DOMAIN ptes

(* The list has its low pages in front.                                    *)
LowAbove(L, rk) == \A p, q \in L : Low(p) /\ ~Low(q) => rk[q] < rk[p]

(* The list holds L; until lcr3 its low pages come first.                  *)
Linked(L) ==
  \E rk \in [AllPages -> Int] :
    /\ Chain(page_free_list, pp_link, L, rk)
    /\ pc # "done" => LowAbove(L, rk)

(* check_page_alloc and check_page leave the list with the pages it had,   *)
(* boot_map_region takes its tables off it, and always finds one.          *)
FreeListOK ==
  /\ pc \in OnceChecked => Bootable /\ Only(Free) /\ Linked(Free)
  /\ pc # "fault"

(* The directory maps itself at UVPT; its other entries name one page      *)
(* table each, a page taken from the free list.                            *)
TablesOK ==
  /\ pgdir \in [Dirs -> Entries \cup {NULL}]
  /\ \A p \in DOMAIN ptes : ptes[p] \in [Slots -> Entries \cup {NULL}]
  /\ kern_pgdir \notin DOMAIN ptes
  /\ pgdir[UvptDir] \in {NULL, SelfMap(kern_pgdir)}
  /\ pc \notin {"detect", "pgdir", "panic"} => pgdir[UvptDir] # NULL
  /\ \A d \in Dirs \ {UvptDir} : pgdir[d] # NULL =>
       /\ d \in MappedDirs /\ pgdir[d].perm = {"W", "U"}
       /\ pgdir[d].page \in DOMAIN ptes
  /\ \A d, e \in Dirs \ {UvptDir} :
       pgdir[d] # NULL /\ pgdir[e] # NULL /\ pgdir[d].page = pgdir[e].page => d = e
  /\ \A p \in DOMAIN ptes : \E d \in Dirs \ {UvptDir} : pgdir[d] # NULL /\ pgdir[d].page = p
  /\ pc \notin MappingSteps \cup Stopped => ptes = <<>> /\ region = 1 /\ i = 0
  /\ Running => DOMAIN ptes \subseteq Kept

(* What the calls of boot_map_region have mapped, the last one on top.     *)
Built(r) ==
  IF pc # "map" \/ region > r THEN Pages(r) ELSE IF region = r THEN i ELSE 0
Covers(r, k) == VPage(r) <= k /\ k < VPage(r) + Built(r)

(* The entry region r gives to page k, and the one that k has: a later     *)
(* call overwrites the entries of an earlier one.                          *)
EntryOf(r, k) == Entry(PPage(r) + k - VPage(r), Regions[r].perm)
Expected(k) ==
  IF Covers(3, k) THEN EntryOf(3, k)
  ELSE IF Covers(2, k) THEN EntryOf(2, k)
  ELSE IF Covers(1, k) THEN EntryOf(1, k)
  ELSE NULL

(* The pages of the address space, the window on the page tables aside.    *)
Virtual == {k \in 0 .. BasePage + TopPages - 1 : k \div NPTENTRIES # UvptDir}

(* Every entry is the one the loops have written so far.                   *)
MappingOK ==
  pc \in MappingSteps =>
    /\ region \in 1 .. 3 /\ i \in 0 .. Pages(region)
    /\ \A k \in Virtual : PTE(k * PGSIZE) = Expected(k)

(* A page the user may use is below ULIM and not writable.                 *)
RightsOK ==
  \A k \in Virtual :
    PTE(k * PGSIZE) # NULL /\ "U" \in PTE(k * PGSIZE).perm =>
      k < BasePage - 2 * NPTENTRIES /\ "W" \notin PTE(k * PGSIZE).perm

(* The inductive invariant of mem_init.                                    *)
MemInitInv == PageInitInv /\ FreeListOK /\ TablesOK /\ MappingOK /\ RightsOK

-----------------------------------------------------------------------------
(* Lists of which the first pages are taken and put back.                  *)

(* Only the ranks of the pages on the list count.                          *)
LEMMA ChainSameRanks ==
  ASSUME NEW L \in SUBSET AllPages, NEW rk \in [AllPages -> Int],
         NEW rk2 \in [AllPages -> Int], NEW link, NEW h,
         Chain(h, link, L, rk), \A p \in L : rk2[p] = rk[p]
  PROVE  Chain(h, link, L, rk2)
  BY DEF Chain

(* Putting a page in front of a list, when other links change too.         *)
LEMMA ChainPushed ==
  ASSUME NEW L \in SUBSET AllPages, NEW rk \in [AllPages -> Int],
         NEW link, NEW h, Chain(h, link, L, rk), NULL \notin AllPages,
         NEW p \in AllPages, \A q \in L : rk[q] < rk[p],
         NEW link2, link2[p] = h, \A q \in L : link2[q] = link[q]
  PROVE  Chain(p, link2, L \cup {p}, rk)
PROOF
<1>1. p \notin L /\ \A q \in L : rk[q] \in Int /\ rk[p] \in Int
  <2>1. \A q \in L : rk[q] \in Int
    OBVIOUS
  <2> QED BY <2>1
<1>2. \A q \in L \cup {p} : rk[q] <= rk[p]
  BY <1>1
<1>3. \A q, s \in L \cup {p} : rk[q] = rk[s] => q = s
  BY <1>1 DEF Chain
<1>4. ASSUME NEW s \in L
      PROVE  \/ link2[s] = NULL /\ \A q \in L \cup {p} : rk[s] <= rk[q]
             \/ /\ link2[s] \in L \cup {p} /\ rk[link2[s]] < rk[s]
                /\ \A q \in L \cup {p} : rk[q] < rk[s] => rk[q] <= rk[link2[s]]
  BY <1>1 DEF Chain
<1>5. \/ link2[p] = NULL /\ \A q \in L \cup {p} : rk[p] <= rk[q]
      \/ /\ link2[p] \in L \cup {p} /\ rk[link2[p]] < rk[p]
         /\ \A q \in L \cup {p} : rk[q] < rk[p] => rk[q] <= rk[link2[p]]
  <2>1. CASE L = {}
    BY <2>1, <1>1 DEF Chain
  <2>2. CASE L # {}
    <3>1. h \in L /\ \A q \in L : rk[q] <= rk[h]
      BY <2>2 DEF Chain
    <3> QED BY <3>1, <1>1
  <2> QED BY <2>1, <2>2
<1>6. L \cup {p} # {}
  OBVIOUS
<1> QED BY <1>2, <1>3, <1>4, <1>5, <1>6 DEF Chain

(* The first three pages put back in the order a, b, c.                    *)
PutBack(L, h, link, a, b, c, link2) ==
  /\ h \in L /\ link[h] \in L /\ link[link[h]] \in L
  /\ a # b /\ b # c /\ a # c /\ {a, b, c} = {h, link[h], link[link[h]]}
  /\ link2[a] = b /\ link2[b] = c /\ link2[c] = link[link[link[h]]]
  /\ \A p \in L \ {a, b, c} : link2[p] = link[p]

(* The list stays a list of the same pages: the ranks of the three pages   *)
(* are exchanged. Low pages stay in front if the three are low.            *)
LEMMA ChainThree ==
  ASSUME NULL \notin AllPages,
         NEW L \in SUBSET AllPages, NEW rk \in [AllPages -> Int],
         NEW link, NEW h, Chain(h, link, L, rk),
         NEW a, NEW b, NEW c, NEW link2, PutBack(L, h, link, a, b, c, link2)
  PROVE  \E rk2 \in [AllPages -> Int] :
           /\ Chain(a, link2, L, rk2)
           /\ LowAbove(L, rk) /\ Low(a) /\ Low(b) /\ Low(c) => LowAbove(L, rk2)
PROOF
<1> DEFINE s == link[h]
           t == link[s]
           M == L \ {h, s, t}
           rk2 == [p \in AllPages |-> IF p = a THEN rk[h] ELSE IF p = b THEN rk[s]
                                      ELSE IF p = c THEN rk[t] ELSE rk[p]]
<1>0. /\ h \in L /\ s \in L /\ t \in L
      /\ a # b /\ b # c /\ a # c /\ {a, b, c} = {h, s, t}
      /\ link2[a] = b /\ link2[b] = c /\ link2[c] = link[t]
      /\ \A p \in L \ {a, b, c} : link2[p] = link[p]
  BY DEF PutBack
<1> USE <1>0
<1>1. h \in AllPages /\ s \in AllPages /\ t \in AllPages /\ h # NULL /\ s # NULL /\ t # NULL
  OBVIOUS
<1>2. s \in L \ {h} /\ \A q \in L \ {h} : rk[q] < rk[h]
  BY <1>1, ChainNext
<1>3. Chain(s, link, L \ {h}, rk)
  BY ChainPop
<1>4. t \in (L \ {h}) \ {s} /\ \A q \in (L \ {h}) \ {s} : rk[q] < rk[s]
  <2> HIDE DEF s, t
  <2>1. L \ {h} \in SUBSET AllPages /\ link[s] = t
    BY DEF t
  <2>2. s \in L \ {h} /\ link[s] # NULL
    BY <1>1, <1>2, <2>1
  <2>3. link[s] \in (L \ {h}) \ {s} /\ \A q \in (L \ {h}) \ {s} : rk[q] < rk[s]
    BY <1>3, <2>1, <2>2, ChainNext
  <2> QED BY <2>1, <2>3
<1>5. Chain(t, link, (L \ {h}) \ {s}, rk)
  <2> HIDE DEF s, t
  <2>1. L \ {h} \in SUBSET AllPages /\ link[s] = t
    BY DEF t
  <2> QED BY <1>2, <1>3, <2>1, ChainPop
<1>6. \A q \in M : rk[q] < rk[t]
  <2> HIDE DEF s, t
  <2>1. (L \ {h}) \ {s} \in SUBSET AllPages
    OBVIOUS
  <2>2. \A q \in ((L \ {h}) \ {s}) \ {t} : rk[q] < rk[t]
    BY <1>4, <1>5, <2>1, ChainNext
  <2> QED BY <2>2
<1>7. Chain(link[t], link2, M, rk)
  <2>1. ((L \ {h}) \ {s}) \ {t} = M
    OBVIOUS
  <2>2. \A p \in M : link2[p] = link[p]
    OBVIOUS
  <2> HIDE DEF s, t, M
  <2>3. (L \ {h}) \ {s} \in SUBSET AllPages
    OBVIOUS
  <2> QED BY <1>4, <1>5, <2>1, <2>2, <2>3, ChainPop
<1>8. /\ M \in SUBSET AllPages /\ L = ((M \cup {c}) \cup {b}) \cup {a}
      /\ \A p \in M : p # a /\ p # b /\ p # c
      /\ a \in AllPages /\ b \in AllPages /\ c \in AllPages
  OBVIOUS
<1>9. link2[c] = link[t]
  OBVIOUS
<1>10. rk[t] < rk[s] /\ rk[s] < rk[h] /\ rk[t] \in Int /\ rk[s] \in Int /\ rk[h] \in Int
  BY <1>1, <1>2, <1>4
<1>11. /\ rk2 \in [AllPages -> Int] /\ \A p \in M : rk2[p] = rk[p]
       /\ rk2[a] = rk[h] /\ rk2[b] = rk[s] /\ rk2[c] = rk[t]
  <2> HIDE DEF s, t, M
  <2>1. rk2 \in [AllPages -> Int]
    BY <1>10
  <2>2. \A p \in AllPages : rk2[p] = IF p = a THEN rk[h] ELSE IF p = b THEN rk[s]
                                      ELSE IF p = c THEN rk[t] ELSE rk[p]
    OBVIOUS
  <2> HIDE DEF rk2
  <2> QED BY <2>1, <2>2, <1>8
<1>12. /\ \A q \in M : link2[q] = link2[q] /\ rk2[q] < rk2[c] /\ rk2[q] < rk2[b] /\ rk2[q] < rk2[a]
       /\ \A q \in M : rk2[q] \in Int
       /\ rk2[c] < rk2[b] /\ rk2[b] < rk2[a] /\ rk2[c] < rk2[a]
  <2> HIDE DEF s, t, M, rk2
  <2>1. \A q \in M : rk2[q] \in Int /\ rk2[q] < rk2[c]
    BY <1>6, <1>8, <1>11
  <2> QED BY <2>1, <1>10, <1>11
<1> HIDE DEF s, t, M, rk2
<1>13. Chain(link2[c], link2, M, rk2)
  BY <1>7, <1>8, <1>9, <1>11, ChainSameRanks
<1>14. Chain(c, link2, M \cup {c}, rk2)
  BY <1>8, <1>11, <1>12, <1>13, ChainPushed
<1>15. Chain(b, link2, (M \cup {c}) \cup {b}, rk2)
  <2>1. M \cup {c} \in SUBSET AllPages /\ \A q \in M \cup {c} : rk2[q] < rk2[b]
    BY <1>8, <1>12
  <2> QED BY <1>8, <1>11, <1>14, <2>1, ChainPushed
<1>16. Chain(a, link2, ((M \cup {c}) \cup {b}) \cup {a}, rk2)
  <2>1. (M \cup {c}) \cup {b} \in SUBSET AllPages
        /\ \A q \in (M \cup {c}) \cup {b} : rk2[q] < rk2[a]
    BY <1>8, <1>12
  <2> QED BY <1>8, <1>11, <1>15, <2>1, ChainPushed
<1>17. ASSUME LowAbove(L, rk), Low(a), Low(b), Low(c)
       PROVE  LowAbove(L, rk2)
  <2>1. ASSUME NEW p \in L, NEW q \in L, Low(p), ~Low(q)
        PROVE  rk2[q] < rk2[p]
    <3>1. q \in M /\ rk2[q] = rk[q] /\ rk[q] < rk[p]
      BY <2>1, <1>8, <1>11, <1>17 DEF LowAbove
    <3>2. p \in M => rk2[p] = rk[p]
      BY <1>11
    <3>3. p \notin M => p = a \/ p = b \/ p = c
      BY <1>8
    <3> QED BY <3>1, <3>2, <3>3, <1>12
  <2> QED BY <2>1 DEF LowAbove
<1> QED BY <1>8, <1>11, <1>16, <1>17

(* A page of base memory among those the list has puts a low page first.   *)
LEMMA ChainLow ==
  ASSUME NEW L \in SUBSET AllPages, NEW rk \in [AllPages -> Int],
         NEW link, NEW h, Chain(h, link, L, rk), LowAbove(L, rk),
         NEW u \in L, Low(u)
  PROVE  h \in L /\ Low(h)
PROOF
<1>1. h \in L /\ rk[u] <= rk[h] /\ rk[u] \in Int /\ rk[h] \in Int
  BY DEF Chain
<1>2. ~Low(h) => rk[h] < rk[u]
  BY <1>1 DEF LowAbove
<1> QED BY <1>1, <1>2

(* A list with pages 1, 2 and 3, low pages in front, starts with three low *)
(* ones.                                                                   *)
LEMMA ChainThreeLow ==
  ASSUME NULL \notin AllPages,
         NEW L \in SUBSET AllPages, NEW rk \in [AllPages -> Int],
         NEW link, NEW h, Chain(h, link, L, rk), LowAbove(L, rk),
         {1, 2, 3} \subseteq L, Low(1), Low(2), Low(3)
  PROVE  /\ h \in L /\ link[h] \in L \ {h} /\ link[link[h]] \in (L \ {h}) \ {link[h]}
         /\ Low(h) /\ Low(link[h]) /\ Low(link[link[h]])
PROOF
<1>1. h \in L /\ Low(h)
  BY ChainLow
<1> DEFINE s == link[h]
           t == link[s]
           L1 == L \ {h}
           L2 == L1 \ {s}
<1>2. Chain(s, link, L1, rk) /\ L1 \in SUBSET AllPages /\ LowAbove(L1, rk)
  BY <1>1, ChainPop DEF LowAbove
<1>3. s \in L1 /\ Low(s)
  <2>1. PICK u \in {1, 2, 3} : u # h
    OBVIOUS
  <2>2. u \in L1 /\ Low(u)
    BY <2>1
  <2> HIDE DEF s, L1
  <2> QED BY <1>2, <2>2, ChainLow
<1>4. Chain(t, link, L2, rk) /\ L2 \in SUBSET AllPages /\ LowAbove(L2, rk)
  <2>1. t = link[s] /\ L2 = L1 \ {s}
    OBVIOUS
  <2> HIDE DEF s, t, L1, L2
  <2>2. Chain(t, link, L2, rk)
    BY <1>2, <1>3, <2>1, ChainPop
  <2> QED BY <1>2, <2>1, <2>2 DEF LowAbove
<1>5. t \in L2 /\ Low(t)
  <2>1. PICK u \in {1, 2, 3} : u # h /\ u # s
    OBVIOUS
  <2>2. u \in L2 /\ Low(u)
    BY <2>1
  <2> HIDE DEF s, t, L1, L2
  <2> QED BY <1>4, <2>2, ChainLow
<1> QED BY <1>1, <1>3, <1>5

(* The free pages of base memory are more than the tables the kernel       *)
(* needs, and all are mapped by entry_pgdir.                               *)
LEMMA BasePagesKept ==
  ASSUME SizesOK, AreasOK, Running, Bootable
  PROVE  /\ KernelTables = NPDENTRIES - BaseDir + 2
         /\ KernelTables < IoPage /\ IoPage \in Nat
         /\ \A p \in 1 .. IoPage - 1 : p \in Kept /\ Low(p)
         /\ {1, 2, 3} \subseteq 1 .. IoPage - 1
PROOF
<1>1. PGSIZE \in Nat \ {0}
  BY Constants
<1>2. /\ IoPage \in Nat /\ IOPHYSMEM = IoPage * PGSIZE
      /\ IoPage < ExtPage /\ ExtPage < KernPage /\ KernPage <= Window
      /\ ExtPage \in Nat /\ KernPage \in Nat /\ Window \in Nat
  BY Layout
<1>3. /\ PTSIZE \in Nat \ {0} /\ BaseDir \in Nat /\ NPDENTRIES \in Nat
      /\ BaseDir < NPDENTRIES /\ KERNBASE = BaseDir * PTSIZE
      /\ ASPACE = NPDENTRIES * PTSIZE
  BY Directory, AddressAssumption
<1>4. KernelTables = NPDENTRIES - BaseDir + 2
  <2>1. ASPACE - KERNBASE = (NPDENTRIES - BaseDir) * PTSIZE
    BY <1>3, Multiples
  <2>2. (ASPACE - KERNBASE) \div PTSIZE = NPDENTRIES - BaseDir
    BY <2>1, <1>3, Quotient
  <2> QED BY <2>2 DEF KernelTables
<1>5. KernelTables < IoPage
  <2>1. KernelTables * PGSIZE < IoPage * PGSIZE
    BY <1>2, BaseAssumption
  <2> QED BY <2>1, <1>1, <1>2, <1>3, <1>4, Multiples
<1>6. FreePage < npages /\ FreePage \in Nat /\ KernPage < FreePage /\ npages \in Nat
  BY BootablePages, Areas DEF SizesOK
<1>7. ASSUME NEW p \in 1 .. IoPage - 1
      PROVE  p \in Kept /\ Low(p)
  <2>1. p \in AllPages /\ p # 0 /\ p < IoPage /\ p \in Nat /\ p < Window
    BY <1>2, <1>6 DEF AllPages
  <2> QED BY <2>1, KeptFacts, LowPages
<1> QED BY <1>2, <1>3, <1>4, <1>5, <1>7

(* Link on a page is its pp_link.                                          *)
LEMMA LinkFacts ==
  ASSUME NULL \notin AllPages
  PROVE  Link[NULL] = NULL /\ \A p \in AllPages : Link[p] = pp_link[p]
  BY DEF Link

(* NULL is not the number of a page.                                       *)
LEMMA NullNotPage == NULL \notin AllPages
  BY PointerAssumption DEF AllPages

(* The first three pages on the list are in base memory ...                *)
LEMMA FirstThree ==
  ASSUME SizesOK, AreasOK, Running, Bootable, Free = Kept,
         NEW rk \in [AllPages -> Int],
         Chain(page_free_list, pp_link, Free, rk), LowAbove(Free, rk)
  PROVE  /\ First \in Free /\ Second \in Free /\ Third \in Free
         /\ First # Second /\ Second # Third /\ First # Third
         /\ Low(First) /\ Low(Second) /\ Low(Third)
         /\ Second = pp_link[First] /\ Third = pp_link[Second] /\ Rest = pp_link[Third]
         /\ First # NULL /\ Second # NULL /\ Third # NULL
PROOF
<1>1. Free \in SUBSET AllPages
  BY DEF Free, Kept
<1>2. {1, 2, 3} \subseteq Free /\ Low(1) /\ Low(2) /\ Low(3)
  <2>1. 1 \in 1 .. IoPage - 1 /\ 2 \in 1 .. IoPage - 1 /\ 3 \in 1 .. IoPage - 1
    BY BasePagesKept
  <2> QED BY <2>1, BasePagesKept
<1> DEFINE h == page_free_list
<1>3. /\ h \in Free /\ pp_link[h] \in Free \ {h}
      /\ pp_link[pp_link[h]] \in (Free \ {h}) \ {pp_link[h]}
      /\ Low(h) /\ Low(pp_link[h]) /\ Low(pp_link[pp_link[h]])
  BY <1>1, <1>2, NullNotPage, ChainThreeLow
<1>4. First = h /\ Second = pp_link[h] /\ Third = pp_link[pp_link[h]] /\ Rest = pp_link[Third]
  <2> HIDE DEF h
  <2>1. First = h
    BY DEF First, h
  <2>2. Second = pp_link[h]
    BY <2>1, <1>1, <1>3, LinkFacts, NullNotPage DEF Second
  <2>3. Third = pp_link[pp_link[h]]
    BY <2>2, <1>1, <1>3, LinkFacts, NullNotPage DEF Third
  <2>4. Rest = pp_link[Third]
    BY <2>3, <1>1, <1>3, LinkFacts, NullNotPage DEF Rest
  <2> QED BY <2>1, <2>2, <2>3, <2>4
<1>5. NULL \notin Free
  BY <1>1, NullNotPage
<1> QED BY <1>3, <1>4, <1>5

-----------------------------------------------------------------------------
(* The entries of the tables.                                              *)

(* Outside the window pgdir_walk leads to the entry of the table that the  *)
(* directory names.                                                        *)
LEMMA PageEntry ==
  ASSUME TablesOK, NEW k \in Virtual
  PROVE  /\ k \in Nat /\ k \div NPTENTRIES \in Dirs \ {UvptDir} /\ k % NPTENTRIES \in Slots
         /\ PTE(k * PGSIZE) =
              IF pgdir[k \div NPTENTRIES] = NULL THEN NULL
              ELSE ptes[pgdir[k \div NPTENTRIES].page][k % NPTENTRIES]
         /\ PTE(k * PGSIZE) \in Entries \cup {NULL}
PROOF
<1>1. /\ NPTENTRIES \in Nat \ {0} /\ NPDENTRIES \in Nat /\ BasePage \in Nat /\ BaseDir \in Nat
      /\ BasePage = BaseDir * NPTENTRIES
      /\ TopPages = (NPDENTRIES - BaseDir) * NPTENTRIES /\ TopPages \in Nat
  BY Directory, Top
<1>2. BasePage + TopPages = NPDENTRIES * NPTENTRIES
  <2>1. NPDENTRIES * NPTENTRIES = (BaseDir + (NPDENTRIES - BaseDir)) * NPTENTRIES
    BY <1>1
  <2>2. (BaseDir + (NPDENTRIES - BaseDir)) * NPTENTRIES
          = BaseDir * NPTENTRIES + (NPDENTRIES - BaseDir) * NPTENTRIES
    BY <1>1, Multiples
  <2> QED BY <2>1, <2>2, <1>1
<1> DEFINE d == k \div NPTENTRIES
           x == k % NPTENTRIES
<1>3. k \in 0 .. BasePage + TopPages - 1 /\ d # UvptDir
  BY DEF Virtual
<1>4. k \in Nat
  BY <1>1, <1>3
<1>5. d \in Int /\ d * NPTENTRIES <= k /\ k < d * NPTENTRIES + NPTENTRIES
  <2>1. d \in Int
    BY <1>1, <1>4
  <2> QED BY <2>1, <1>1, <1>4, DirOfPage
<1>6. PDX(k * PGSIZE) = d /\ PTX(k * PGSIZE) = x /\ x \in Slots
  BY <1>4, PlaceOfPage
<1> HIDE DEF d, x
<1>7. d \in Dirs
  <2>1. d < NPDENTRIES
    <3>1. NPDENTRIES <= d => NPDENTRIES * NPTENTRIES <= d * NPTENTRIES
      BY <1>1, <1>5, Multiples
    <3>2. d * NPTENTRIES \in Int /\ k < NPDENTRIES * NPTENTRIES
      BY <1>1, <1>2, <1>3, <1>5, Multiples
    <3> QED BY <3>1, <3>2, <1>1, <1>2, <1>4, <1>5
  <2>2. 0 <= d
    <3>1. d < 0 => d * NPTENTRIES + NPTENTRIES <= 0 * NPTENTRIES
      BY <1>1, <1>5, Multiples
    <3>2. d * NPTENTRIES \in Int /\ 0 * NPTENTRIES = 0
      BY <1>1, <1>5, Multiples
    <3> QED BY <3>1, <3>2, <1>1, <1>4, <1>5
  <2> QED BY <2>1, <2>2, <1>1, <1>5 DEF Dirs
<1>8. PTE(k * PGSIZE) = IF pgdir[d] = NULL THEN NULL ELSE Table(pgdir[d].page)[x]
  BY <1>6 DEF PTE
<1>9. pgdir[d] # NULL => pgdir[d].page \in DOMAIN ptes
  BY <1>3, <1>7 DEF TablesOK, d
<1>10. pgdir[d] # NULL => Table(pgdir[d].page) = ptes[pgdir[d].page]
  BY <1>9 DEF Table, TablesOK
<1>11. PTE(k * PGSIZE) = IF pgdir[d] = NULL THEN NULL ELSE ptes[pgdir[d].page][x]
  BY <1>8, <1>10
<1>12. PTE(k * PGSIZE) \in Entries \cup {NULL}
  <2>1. pgdir[d] # NULL => ptes[pgdir[d].page] \in [Slots -> Entries \cup {NULL}]
    BY <1>9 DEF TablesOK
  <2> QED BY <2>1, <1>6, <1>11
<1> QED BY <1>3, <1>4, <1>6, <1>7, <1>11, <1>12 DEF d, x

(* The same for all pages, to be used after a step.                        *)
PageEntries ==
  \A k \in Virtual :
    /\ PTE(k * PGSIZE) =
         IF pgdir[k \div NPTENTRIES] = NULL THEN NULL
         ELSE ptes[pgdir[k \div NPTENTRIES].page][k % NPTENTRIES]
    /\ PTE(k * PGSIZE) \in Entries \cup {NULL}

(* PageEntry in the next state.                                            *)
LEMMA PageEntriesNext == TablesOK' => PageEntries'
PROOF
<1>1. TablesOK => PageEntries
  BY PageEntry DEF PageEntries
<1> QED BY <1>1, PTL

(* Steps that leave the tables alone.                                      *)
LEMMA SameTables ==
  ASSUME TablesOK, UNCHANGED <<pgdir, ptes, kern_pgdir>>
  PROVE  /\ \A k \in Virtual : PTE(k * PGSIZE)' = PTE(k * PGSIZE)
         /\ RightsOK => RightsOK'
PROOF
<1>1. \A k \in Virtual : PTE(k * PGSIZE)' = PTE(k * PGSIZE)
  BY DEF PTE, Table
<1>2. RightsOK => RightsOK'
  BY <1>1 DEF RightsOK
<1> QED BY <1>1, <1>2

(* Steps that change neither the directory nor a table.                    *)
LEMMA SameTablesOK ==
  ASSUME TablesOK, Running, UNCHANGED <<sizes, areas, pgdir, ptes>>,
         pc' \in OnceChecked, pc' = "check_page" => UNCHANGED <<region, i>> /\ pc \notin MappingSteps
  PROVE  TablesOK'
PROOF
<1>1. UNCHANGED <<kern_pgdir, npages>> /\ Kept' = Kept
  BY SameAreas
<1>2. pgdir[UvptDir] # NULL /\ DOMAIN ptes \subseteq Kept
  BY DEF TablesOK, Running, BeforeList, Stopped
<1>3. pc' = "check_page" => ptes' = <<>> /\ region' = 1 /\ i' = 0
  BY DEF TablesOK, Running
<1> QED BY <1>1, <1>2, <1>3 DEF TablesOK, Running, BeforeList, Stopped, MappingSteps, OnceChecked, SelfMap, Entry

(* What remains of PageInit's invariant once its steps are done.           *)
LEMMA LaterInv ==
  ASSUME PageInitInv, Running, UNCHANGED <<sizes, areas>>, Fields',
         pc' \in OnceChecked \cup {"panic"}, WrittenOK'
  PROVE  PageInitInv'
PROOF
<1> USE DEF PageInitInv
<1>1. pc' \notin BeforeList
  BY DEF BeforeList, OnceChecked, MappingSteps
<1>2. AreasOK' /\ SizesOK'
  BY <1>1, LaterAreas, SameAreas
<1>3. ListOK' /\ LocalsOK'
  BY DEF ListOK, LocalsOK, BeforeList, OnceChecked, MappingSteps
<1> QED BY <1>2, <1>3

(* memset of a low page that was free writes where entry_pgdir maps,       *)
(* outside the image.                                                      *)
LEMMA WriteFree ==
  ASSUME SizesOK, AreasOK, Running, WrittenOK, UNCHANGED <<sizes, areas>>,
         NEW p \in Kept, Low(p), written' = written \cup {p}
  PROVE  WrittenOK'
PROOF
<1>1. p \in Nat /\ page2pa(p) \notin EXTPHYSMEM .. END - 1
  BY FreePagesNotInImage
<1> QED BY <1>1 DEF WrittenOK, EarlyWritesMapped

-----------------------------------------------------------------------------
(* The steps.                                                              *)

(* check_page_alloc puts its three pages back where they were; the one it  *)
(* clears is low, and the list is not empty before the third.              *)
LEMMA StepCheckPageAlloc ==
  ASSUME MemInitInv, check_page_alloc
  PROVE  MemInitInv' /\ pc' = "check_page"
PROOF
<1> USE DEF MemInitInv, PageInitInv
<1>1. /\ pc = "checked" /\ UNCHANGED <<sizes, areas, list, locals, mapping>>
      /\ pc' = IF Third = NULL THEN "panic" ELSE IF Low(Third) THEN "check_page" ELSE "fault"
      /\ written' = IF Third = NULL THEN written ELSE written \cup {Third}
  BY DEF check_page_alloc
<1>2. Running /\ Fields /\ Chain(page_free_list, pp_link, Kept, LowFirst)
      /\ Only(Kept) /\ Bootable
  BY <1>1 DEF ListOK, Running, BeforeList, Stopped
<1>3. ptes = <<>> /\ region = 1 /\ i = 0 /\ Free = Kept
  BY <1>1 DEF TablesOK, Free, MappingSteps, Stopped
<1>4. LowFirst \in [AllPages -> Int] /\ LowAbove(Free, LowFirst)
  <2>1. npages \in Nat
    BY DEF SizesOK
  <2> QED BY <2>1, <1>3 DEF LowFirst, LowAbove, AllPages, Kept
<1>5. Third \in Kept /\ Low(Third) /\ Third # NULL
  BY <1>2, <1>3, <1>4, FirstThree
<1>6. pc' = "check_page" /\ written' = written \cup {Third}
  BY <1>1, <1>5
<1>7. UNCHANGED <<pp_ref, pp_link, page_free_list, pgdir, ptes, region, i>>
  BY <1>1 DEF list, mapping
<1>8. /\ Kept' = Kept /\ AllPages' = AllPages /\ LowFirst' = LowFirst /\ Bootable' = Bootable
      /\ npages' = npages /\ kern_pgdir' = kern_pgdir
  BY <1>1, SameAreas
<1>9. WrittenOK'
  BY <1>1, <1>2, <1>5, <1>6, WriteFree
<1>10. PageInitInv'
  <2>1. Fields'
    BY <1>2, <1>7, <1>8 DEF Fields
  <2> QED BY <2>1, <1>1, <1>2, <1>6, <1>9, LaterInv DEF OnceChecked
<1>11. TablesOK'
  BY <1>1, <1>2, <1>6, <1>7, SameTablesOK DEF OnceChecked, MappingSteps
<1>12. FreeListOK'
  <2>1. Free' = Kept
    BY <1>3, <1>7, <1>8 DEF Free
  <2>2. Only(Kept)'
    BY <1>2, <1>7, <1>8 DEF Only
  <2>3. Linked(Kept)'
    BY <1>2, <1>3, <1>4, <1>7, <1>8 DEF Linked, LowAbove
  <2> QED BY <2>1, <2>2, <2>3, <1>2, <1>6, <1>8 DEF FreeListOK
<1>13. MappingOK' /\ RightsOK'
  BY <1>6, <1>7, <1>8, SameTables DEF MappingOK, MappingSteps
<1> QED BY <1>6, <1>10, <1>11, <1>12, <1>13

(* check_page reverses the three pages it takes, the first one cleared:    *)
(* the list has the same pages, low ones in front.                         *)
LEMMA StepCheckPage ==
  ASSUME MemInitInv, check_page
  PROVE  MemInitInv' /\ pc' = "map"
PROOF
<1> USE DEF MemInitInv, PageInitInv
<1>1. /\ pc = "check_page" /\ UNCHANGED <<sizes, areas, pp_ref, locals, mapping>>
      /\ pc' = IF Low(First) THEN "map" ELSE "fault"
      /\ written' = written \cup {First}
      /\ pp_link' = [pp_link EXCEPT ![Third] = Second, ![Second] = First, ![First] = Rest]
      /\ page_free_list' = Third
  BY DEF check_page
<1>2. Running /\ Fields /\ Bootable /\ Only(Free) /\ Linked(Free)
  BY <1>1 DEF ListOK, FreeListOK, OnceChecked, Running, BeforeList, Stopped
<1>3. ptes = <<>> /\ region = 1 /\ i = 0 /\ Free = Kept
  BY <1>1 DEF TablesOK, Free, MappingSteps, Stopped
<1>4. PICK rk \in [AllPages -> Int] :
        Chain(page_free_list, pp_link, Free, rk) /\ LowAbove(Free, rk)
  BY <1>1, <1>2 DEF Linked
<1>5. /\ First \in Free /\ Second \in Free /\ Third \in Free
      /\ First # Second /\ Second # Third /\ First # Third
      /\ Low(First) /\ Low(Second) /\ Low(Third)
      /\ Second = pp_link[First] /\ Third = pp_link[Second] /\ Rest = pp_link[Third]
  BY <1>2, <1>3, <1>4, FirstThree
<1>6. pc' = "map" /\ First = page_free_list /\ Free \in SUBSET AllPages
  BY <1>1, <1>5 DEF First, Free, Kept
<1>7. /\ pp_link'[Third] = Second /\ pp_link'[Second] = First /\ pp_link'[First] = Rest
      /\ \A p \in AllPages \ {First, Second, Third} : pp_link'[p] = pp_link[p]
      /\ pp_link' \in [AllPages -> AllPages \cup {NULL}]
  BY <1>1, <1>2, <1>5, <1>6 DEF Fields
<1>8. UNCHANGED <<pp_ref, pgdir, ptes, region, i>>
  BY <1>1 DEF mapping
<1>9. /\ Kept' = Kept /\ AllPages' = AllPages /\ Bootable' = Bootable
      /\ npages' = npages /\ kern_pgdir' = kern_pgdir
  BY <1>1, SameAreas
<1>10. PageInitInv'
  <2>1. WrittenOK'
    BY <1>1, <1>2, <1>3, <1>5, WriteFree
  <2>2. Fields'
    BY <1>1, <1>2, <1>5, <1>6, <1>7, <1>8, <1>9 DEF Fields
  <2> QED BY <2>1, <2>2, <1>1, <1>2, <1>6, LaterInv DEF OnceChecked, MappingSteps
<1>11. TablesOK'
  BY <1>1, <1>2, <1>6, <1>8, SameTablesOK DEF OnceChecked, MappingSteps
<1>12. PICK rk2 \in [AllPages -> Int] :
         Chain(Third, pp_link', Free, rk2) /\ LowAbove(Free, rk2)
  <2> DEFINE link2 == pp_link'
  <2>1. /\ link2[Third] = Second /\ link2[Second] = First
        /\ link2[First] = pp_link[pp_link[pp_link[First]]]
        /\ \A p \in Free \ {Third, Second, First} : link2[p] = pp_link[p]
    BY <1>5, <1>6, <1>7
  <2>2. /\ First \in Free /\ pp_link[First] \in Free /\ pp_link[pp_link[First]] \in Free
        /\ {Third, Second, First} = {First, pp_link[First], pp_link[pp_link[First]]}
    BY <1>5
  <2>3. Chain(First, pp_link, Free, rk)
    BY <1>4, <1>6
  <2>4. PICK f, s, t, link, L : f = First /\ s = Second /\ t = Third /\ link = pp_link /\ L = Free
    OBVIOUS
  <2> HIDE DEF link2
  <2>5. L \in SUBSET AllPages /\ Chain(f, link, L, rk)
    BY <1>6, <2>3, <2>4
  <2>6. PutBack(L, f, link, t, s, f, link2)
    <3>1. /\ f \in L /\ link[f] \in L /\ link[link[f]] \in L
          /\ t # s /\ s # f /\ t # f /\ {t, s, f} = {f, link[f], link[link[f]]}
          /\ link2[t] = s /\ link2[s] = f /\ link2[f] = link[link[link[f]]]
          /\ \A p \in L \ {t, s, f} : link2[p] = link[p]
      BY <1>5, <1>6, <2>1, <2>2, <2>3, <2>4
    <3> QED BY <3>1 DEF PutBack
  <2>7. \E rk2 \in [AllPages -> Int] :
          /\ Chain(t, link2, L, rk2)
          /\ LowAbove(L, rk) /\ Low(t) /\ Low(s) /\ Low(f) => LowAbove(L, rk2)
    BY <2>5, <2>6, NullNotPage, ChainThree
  <2> QED BY <2>4, <2>7, <1>4, <1>5 DEF link2
<1>13. FreeListOK'
  <2>1. Free' = Free
    BY <1>8, <1>9 DEF Free
  <2>2. Only(Free)'
    BY <1>2, <1>5, <1>7, <1>8, <1>9, <2>1 DEF Only
  <2>3. Linked(Free)'
    <3>1. LowAbove(Free, rk2)'
      BY <1>12, <2>1 DEF LowAbove
    <3> QED BY <3>1, <1>1, <1>9, <1>12, <2>1 DEF Linked
  <2> QED BY <2>2, <2>3, <1>2, <1>6, <1>9 DEF FreeListOK
<1>14. RightsOK'
  BY <1>8, <1>9, SameTables
<1>15. MappingOK'
  <2>1. region' \in 1 .. 3 /\ i' \in 0 .. Pages(region)'
    <3>1. UNCHANGED npages
      BY <1>9
    <3>2. Pages(1) \in Nat /\ Pages(1)' = Pages(1)
      <4>1. UNCHANGED pages
        BY <1>1, SameAreas
      <4> QED BY <4>1, <3>1, <1>2, RegionFacts, RegionBounds DEF Pages, Regions
    <3> QED BY <3>2, <1>3, <1>8
  <2>2. ASSUME NEW k \in Virtual
        PROVE  PTE(k * PGSIZE)' = Expected(k)'
    <3>1. PTE(k * PGSIZE) = NULL
      <4>1. pgdir[k \div NPTENTRIES] = NULL
        BY <1>3, PageEntry DEF TablesOK
      <4> QED BY <4>1, PageEntry
    <3>2. PTE(k * PGSIZE)' = NULL
      BY <3>1, <1>8, <1>9, SameTables
    <3>3. Expected(k)' = NULL
      <4>1. Built(1)' = 0 /\ Built(2)' = 0 /\ Built(3)' = 0
        BY <1>3, <1>6, <1>8 DEF Built
      <4>2. VPage(1)' \in Int /\ VPage(2)' \in Int /\ VPage(3)' \in Int
        <5>1. UNCHANGED <<npages, pages>>
          BY <1>1, SameAreas
        <5>2. VPage(1) \in Int /\ VPage(2) \in Int /\ VPage(3) \in Int
          BY <1>2, RegionFacts, RegionBounds
        <5> QED BY <5>1, <5>2 DEF VPage, Regions
      <4>3. k \in Int
        BY PageEntry
      <4> QED BY <4>1, <4>2, <4>3 DEF Expected, Covers
    <3> QED BY <3>2, <3>3
  <2> QED BY <2>1, <2>2 DEF MappingOK
<1> QED BY <1>6, <1>10, <1>11, <1>13, <1>14, <1>15

(* lcr3: from here on the order of the list does not matter.               *)
LEMMA StepInstallPgdir ==
  ASSUME MemInitInv, InstallPgdir
  PROVE  MemInitInv'
PROOF
<1> USE DEF MemInitInv, PageInitInv
<1>1. /\ pc = "lcr3" /\ UNCHANGED <<sizes, areas, list, locals, written, mapping>>
      /\ pc' \in {"check_installed", "panic"}
  BY DEF InstallPgdir
<1>2. Running /\ Fields /\ Bootable /\ Only(Free) /\ Linked(Free)
  BY <1>1 DEF ListOK, FreeListOK, OnceChecked, MappingSteps, Running, BeforeList, Stopped
<1>3. UNCHANGED <<pp_ref, pp_link, page_free_list, pgdir, ptes, region, i>>
  BY <1>1 DEF list, mapping
<1>4. /\ Kept' = Kept /\ AllPages' = AllPages /\ Bootable' = Bootable
      /\ npages' = npages /\ kern_pgdir' = kern_pgdir /\ pages' = pages
  BY <1>1, SameAreas
<1>5. PageInitInv'
  <2>1. WrittenOK'
    BY <1>1, SameWritten
  <2>2. Fields'
    BY <1>2, <1>3, <1>4 DEF Fields
  <2> QED BY <2>1, <2>2, <1>1, <1>2, LaterInv DEF OnceChecked, MappingSteps
<1>6. TablesOK'
  <2>1. CASE pc' = "check_installed"
    BY <2>1, <1>1, <1>2, <1>3, SameTablesOK DEF OnceChecked, MappingSteps
  <2>2. CASE pc' = "panic"
    BY <2>2, <1>3, <1>4 DEF TablesOK, Running, Stopped, MappingSteps, SelfMap, Entry
  <2> QED BY <2>1, <2>2, <1>1
<1>7. FreeListOK'
  <2>1. Free' = Free
    BY <1>3, <1>4 DEF Free
  <2>2. Only(Free)' /\ Linked(Free)'
    BY <2>1, <1>1, <1>2, <1>3, <1>4 DEF Only, Linked, LowAbove
  <2> QED BY <2>2, <1>1, <1>2, <1>4 DEF FreeListOK
<1>8. RightsOK' /\ MappingOK'
  <2>1. \A k : Expected(k)' = Expected(k)
    <3>1. Regions' = Regions
      BY <1>4 DEF Regions
    <3>2. pc # "map" /\ pc' # "map"
      BY <1>1
    <3> QED BY <1>3, <3>1, <3>2 DEF Expected, Covers, Built, EntryOf, VPage, PPage, Pages
  <2>2. Pages(region)' = Pages(region)
    BY <1>3, <1>4 DEF Pages, Regions
  <2> QED BY <2>1, <2>2, <1>1, <1>3, <1>4, SameTables DEF MappingOK, MappingSteps
<1> QED BY <1>5, <1>6, <1>7, <1>8

(* check_page_installed_pgdir gives its three pages back in another order. *)
LEMMA StepCheckInstalled ==
  ASSUME MemInitInv, check_page_installed_pgdir
  PROVE  MemInitInv'
PROOF
<1> USE DEF MemInitInv, PageInitInv
<1>1. /\ pc = "check_installed" /\ UNCHANGED <<sizes, areas, locals, written, mapping>>
      /\ IF Third = NULL THEN pc' = "panic" /\ UNCHANGED list
         ELSE /\ pc' = "done"
              /\ pp_link' = [pp_link EXCEPT ![First] = Third, ![Third] = Second, ![Second] = Rest]
              /\ UNCHANGED <<page_free_list, pp_ref>>
  BY DEF check_page_installed_pgdir
<1>2. Running /\ Fields /\ Bootable /\ Only(Free) /\ Linked(Free)
  BY <1>1 DEF ListOK, FreeListOK, OnceChecked, MappingSteps, Running, BeforeList, Stopped
<1>3. UNCHANGED <<pp_ref, page_free_list, pgdir, ptes, region, i>>
  BY <1>1 DEF list, mapping
<1>4. /\ Kept' = Kept /\ AllPages' = AllPages /\ Bootable' = Bootable
      /\ npages' = npages /\ kern_pgdir' = kern_pgdir /\ pages' = pages
  BY <1>1, SameAreas
<1>5. WrittenOK'
  BY <1>1, SameWritten
<1>6. RightsOK' /\ MappingOK'
  <2>1. \A k : Expected(k)' = Expected(k)
    <3>1. Regions' = Regions
      BY <1>4 DEF Regions
    <3>2. pc # "map" /\ pc' # "map"
      BY <1>1
    <3> QED BY <1>3, <3>1, <3>2 DEF Expected, Covers, Built, EntryOf, VPage, PPage, Pages
  <2>2. Pages(region)' = Pages(region)
    BY <1>3, <1>4 DEF Pages, Regions
  <2> QED BY <2>1, <2>2, <1>1, <1>3, <1>4, SameTables DEF MappingOK, MappingSteps
<1>7. TablesOK'
  <2>1. CASE pc' = "done"
    BY <2>1, <1>1, <1>2, <1>3, SameTablesOK DEF OnceChecked, MappingSteps
  <2>2. CASE pc' = "panic"
    BY <2>2, <1>3, <1>4 DEF TablesOK, Running, Stopped, MappingSteps, SelfMap, Entry
  <2> QED BY <2>1, <2>2, <1>1
<1>8. Free' = Free /\ Free \in SUBSET AllPages
  BY <1>3, <1>4 DEF Free, Kept
<1>9. CASE Third = NULL
  <2>1. Fields'
    BY <1>9, <1>1, <1>2, <1>4 DEF Fields, list
  <2>2. PageInitInv' /\ FreeListOK'
    BY <2>1, <1>9, <1>1, <1>2, <1>5, LaterInv DEF FreeListOK, OnceChecked, MappingSteps
  <2> QED BY <2>2, <1>6, <1>7
<1>10. CASE Third # NULL
  <2>1. pc' = "done" /\ pp_link' = [pp_link EXCEPT ![First] = Third, ![Third] = Second, ![Second] = Rest]
    BY <1>1, <1>10
  <2>2. PICK rk \in [AllPages -> Int] : Chain(page_free_list, pp_link, Free, rk)
    BY <1>2 DEF Linked
  <2>3. /\ First = page_free_list /\ First \in Free
        /\ Second = pp_link[First] /\ Second \in Free
        /\ Third = pp_link[Second] /\ Third \in Free /\ Rest = pp_link[Third]
        /\ First # Second /\ Second # Third /\ First # Third
    <3> DEFINE f == page_free_list
    <3>1. Link[NULL] = NULL /\ \A p \in Free : Link[p] = pp_link[p] /\ p # NULL
      BY <1>8, LinkFacts, NullNotPage
    <3>2. First = f /\ First # NULL /\ Second # NULL
      BY <3>1, <1>10 DEF First, Second, Third
    <3>3. f \in Free
      BY <2>2, <3>2 DEF Chain
    <3>4. Second = pp_link[f]
      BY <3>1, <3>2, <3>3 DEF Second
    <3> HIDE DEF f
    <3>5. Second \in Free \ {f} /\ Chain(Second, pp_link, Free \ {f}, rk)
      <4>1. Chain(f, pp_link, Free, rk)
        BY <2>2 DEF f
      <4>2. pp_link[f] \in Free \ {f}
        BY <4>1, <3>2, <3>3, <3>4, <1>8, ChainNext
      <4>3. Chain(pp_link[f], pp_link, Free \ {f}, rk)
        BY <4>1, <3>3, <1>8, ChainPop
      <4> QED BY <4>2, <4>3, <3>4
    <3>6. Third = pp_link[Second]
      BY <3>1, <3>5 DEF Third
    <3>7. Third \in (Free \ {f}) \ {Second}
      <4>1. PICK L, s : L = Free \ {f} /\ s = Second
        OBVIOUS
      <4>2. L \in SUBSET AllPages /\ s \in L /\ Chain(s, pp_link, L, rk) /\ pp_link[s] # NULL
        BY <4>1, <3>5, <3>6, <1>8, <1>10
      <4>3. pp_link[s] \in L \ {s}
        BY <4>2, ChainNext
      <4> QED BY <4>1, <4>3, <3>6
    <3>8. Rest = pp_link[Third]
      BY <3>1, <3>7 DEF Rest
    <3> QED BY <3>2, <3>3, <3>4, <3>5, <3>6, <3>7, <3>8 DEF f
  <2>4. /\ pp_link'[First] = Third /\ pp_link'[Third] = Second /\ pp_link'[Second] = Rest
        /\ \A p \in AllPages \ {First, Second, Third} : pp_link'[p] = pp_link[p]
        /\ pp_link' \in [AllPages -> AllPages \cup {NULL}]
    BY <2>1, <2>3, <1>2, <1>8 DEF Fields
  <2>5. Fields'
    BY <2>4, <1>2, <1>3, <1>4 DEF Fields
  <2>6. PageInitInv'
    BY <2>1, <2>5, <1>1, <1>2, <1>5, LaterInv DEF OnceChecked, MappingSteps
  <2>7. PICK rk2 \in [AllPages -> Int] : Chain(First, pp_link', Free, rk2)
    <3> DEFINE link2 == pp_link'
    <3>1. PICK f, s, t, link, L :
            f = First /\ s = Second /\ t = Third /\ link = pp_link /\ L = Free
      OBVIOUS
    <3>2. /\ f \in L /\ link[f] \in L /\ link[link[f]] \in L
          /\ f # t /\ t # s /\ f # s /\ {f, t, s} = {f, link[f], link[link[f]]}
          /\ link2[f] = t /\ link2[t] = s /\ link2[s] = link[link[link[f]]]
          /\ \A p \in L \ {f, t, s} : link2[p] = link[p]
      BY <2>3, <2>4, <3>1, <1>8
    <3> HIDE DEF link2
    <3>3. PutBack(L, f, link, f, t, s, link2)
      BY <3>2 DEF PutBack
    <3>4. L \in SUBSET AllPages /\ Chain(f, link, L, rk)
      BY <2>2, <2>3, <3>1, <1>8
    <3>5. \E rk2 \in [AllPages -> Int] : Chain(f, link2, L, rk2)
      BY <3>3, <3>4, NullNotPage, ChainThree
    <3> QED BY <3>1, <3>5 DEF link2
  <2>8. FreeListOK'
    <3>1. Only(Free)'
      BY <2>3, <2>4, <1>2, <1>3, <1>4, <1>8 DEF Only
    <3>2. Linked(Free)'
      BY <2>1, <2>3, <2>7, <1>3, <1>4, <1>8 DEF Linked
    <3> QED BY <3>1, <3>2, <2>1, <1>2, <1>4 DEF FreeListOK
  <2> QED BY <2>6, <2>8, <1>6, <1>7
<1> QED BY <1>9, <1>10

(* The regions do not change while they are mapped.                        *)
LEMMA SameRegions ==
  ASSUME UNCHANGED <<sizes, areas>>
  PROVE  /\ Regions' = Regions
         /\ \A r : VPage(r)' = VPage(r) /\ PPage(r)' = PPage(r) /\ Pages(r)' = Pages(r)
         /\ \A r, k : EntryOf(r, k)' = EntryOf(r, k)
PROOF
<1>1. UNCHANGED <<npages, pages>>
  BY SameAreas
<1>2. Regions' = Regions
  BY <1>1 DEF Regions
<1> QED BY <1>2 DEF VPage, PPage, Pages, EntryOf

(* A call of boot_map_region returns and the next one starts.              *)
LEMMA StepRegionDone ==
  ASSUME MemInitInv, RegionDone
  PROVE  MemInitInv'
PROOF
<1> USE DEF MemInitInv, PageInitInv
<1>1. /\ pc = "map" /\ ~MoreToMap(Regions[region]) /\ i' = 0
      /\ IF region = Len(Regions) THEN pc' = "check_kern_pgdir" /\ UNCHANGED region
         ELSE region' = region + 1 /\ UNCHANGED pc
      /\ UNCHANGED <<sizes, areas, list, locals, written, pgdir, ptes>>
  BY DEF RegionDone
<1>2. Running /\ Fields /\ Bootable /\ Only(Free) /\ Linked(Free)
      /\ region \in 1 .. 3 /\ i \in 0 .. Pages(region)
  BY <1>1 DEF ListOK, FreeListOK, MappingOK, OnceChecked, MappingSteps, Running, BeforeList, Stopped
<1>3. UNCHANGED <<pp_ref, pp_link, page_free_list, pgdir, ptes>>
  BY <1>1 DEF list
<1>4. /\ Kept' = Kept /\ AllPages' = AllPages /\ Bootable' = Bootable
      /\ npages' = npages /\ kern_pgdir' = kern_pgdir /\ pages' = pages
  BY <1>1, SameAreas
<1>5. /\ Len(Regions) = 3 /\ Pages(1) \in Nat /\ Pages(2) \in Nat /\ Pages(3) \in Nat
  BY <1>2, RegionFacts, RegionBounds
<1>6. i = Pages(region)
  BY <1>1, <1>2, <1>5, LoopCondition
<1>7. /\ pc' \in {"map", "check_kern_pgdir"} /\ region' \in 1 .. 3
      /\ pc' = "map" => region' = region + 1
      /\ pc' # "map" => region = 3
  BY <1>1, <1>2, <1>5
<1>8. PageInitInv'
  <2>1. WrittenOK'
    BY <1>1, SameWritten
  <2>2. Fields'
    BY <1>2, <1>3, <1>4 DEF Fields
  <2> QED BY <2>1, <2>2, <1>1, <1>2, <1>7, LaterInv DEF OnceChecked, MappingSteps
<1>9. TablesOK'
  BY <1>1, <1>2, <1>3, <1>7, SameTablesOK DEF OnceChecked, MappingSteps
<1>10. FreeListOK'
  <2>1. Free' = Free
    BY <1>3, <1>4 DEF Free
  <2>2. Only(Free)' /\ Linked(Free)'
    BY <2>1, <1>1, <1>2, <1>3, <1>4, <1>7 DEF Only, Linked, LowAbove
  <2> QED BY <2>2, <1>1, <1>2, <1>4, <1>7 DEF FreeListOK
<1>11. RightsOK'
  BY <1>3, <1>4, SameTables
<1>12. \A r \in 1 .. 3 : Pages(r)' = Pages(r) /\ Built(r)' = Built(r)
  <2>1. \A r \in 1 .. 3 : Pages(r)' = Pages(r)
    BY <1>1, SameRegions
  <2> QED BY <2>1, <1>1, <1>2, <1>6, <1>7 DEF Built
<1>13. MappingOK'
  <2>1. i' \in 0 .. Pages(region)'
    BY <1>1, <1>5, <1>7, <1>12
  <2>2. \A k : Expected(k)' = Expected(k)
    <3>1. 1 \in 1 .. 3 /\ 2 \in 1 .. 3 /\ 3 \in 1 .. 3
      OBVIOUS
    <3> QED BY <3>1, <1>1, <1>12, SameRegions DEF Expected, Covers
  <2> QED BY <2>1, <2>2, <1>1, <1>3, <1>4, <1>7, SameTables DEF MappingOK, MappingSteps
<1> QED BY <1>8, <1>9, <1>10, <1>11, <1>13

(* A page for a table is there when one is needed: base memory has more    *)
(* pages than the kernel has tables.                                       *)
LEMMA TableAvailable ==
  ASSUME SizesOK, AreasOK, Running, Bootable, TablesOK,
         NEW d \in MappedDirs, pgdir[d] = NULL
  PROVE  \E p \in Free : Low(p)
PROOF
<1> DEFINE S == 1 .. IoPage - 1
           T == MappedDirs \ {d}
<1>1. /\ KernelTables = NPDENTRIES - BaseDir + 2 /\ KernelTables < IoPage /\ IoPage \in Nat
      /\ \A p \in S : p \in Kept /\ Low(p)
  BY BasePagesKept
<1>2. BaseDir \in Nat /\ NPDENTRIES \in Nat /\ BaseDir < NPDENTRIES /\ 5 < BaseDir
  BY Directory
<1>3. IsFiniteSet(S) /\ Cardinality(S) = IoPage - 1
  <2>1. IoPage - 1 >= 1 /\ 1 \in Int /\ IoPage - 1 \in Int
    BY <1>1, <1>2
  <2> QED BY <2>1, FS_Interval
<1>4. IsFiniteSet(T) /\ Cardinality(T) = KernelTables - 1
  <2> DEFINE R == BaseDir .. NPDENTRIES - 1
             Q == R \cup {BaseDir - 1}
  <2>1. IsFiniteSet(R) /\ Cardinality(R) = NPDENTRIES - BaseDir
    <3>1. BaseDir \in Int /\ NPDENTRIES - 1 \in Int /\ ~(BaseDir > NPDENTRIES - 1)
          /\ NPDENTRIES - 1 - BaseDir + 1 = NPDENTRIES - BaseDir
      BY <1>2
    <3> QED BY <3>1, FS_Interval
  <2>2. IsFiniteSet(Q) /\ Cardinality(Q) = NPDENTRIES - BaseDir + 1
    <3>1. BaseDir - 1 \notin R
      BY <1>2
    <3> HIDE DEF R
    <3> QED BY <2>1, <3>1, FS_AddElement
  <2>3. MappedDirs = Q \cup {BaseDir - 4} /\ BaseDir - 4 \notin Q
    BY <1>2 DEF MappedDirs
  <2> HIDE DEF Q
  <2>4. IsFiniteSet(MappedDirs) /\ Cardinality(MappedDirs) = NPDENTRIES - BaseDir + 2
    <3>1. Cardinality(MappedDirs) = NPDENTRIES - BaseDir + 1 + 1
      BY <2>2, <2>3, FS_AddElement
    <3>2. IsFiniteSet(MappedDirs)
      BY <2>2, <2>3, FS_AddElement
    <3> QED BY <3>1, <3>2, <1>2
  <2>5. IsFiniteSet(T) /\ Cardinality(T) = Cardinality(MappedDirs) - 1
    BY <2>4, FS_RemoveElement
  <2> QED BY <2>4, <2>5, <1>1
<1> SUFFICES ASSUME \A p \in Free : ~Low(p) PROVE FALSE
  OBVIOUS
<1>5. \A p \in S : p \in DOMAIN ptes
  BY <1>1 DEF Free
<1> DEFINE f == [p \in S |-> CHOOSE e \in Dirs \ {UvptDir} : pgdir[e] # NULL /\ pgdir[e].page = p]
<1>6. ASSUME NEW p \in S
      PROVE  f[p] \in T /\ pgdir[f[p]].page = p
  <2> DEFINE C(e) == pgdir[e] # NULL /\ pgdir[e].page = p
  <2>1. \E e \in Dirs \ {UvptDir} : C(e)
    BY <1>5 DEF TablesOK
  <2>2. f[p] = CHOOSE e \in Dirs \ {UvptDir} : C(e)
    OBVIOUS
  <2> HIDE DEF C
  <2>3. f[p] \in Dirs \ {UvptDir} /\ C(f[p])
    <3> HIDE DEF f
    <3> QED BY <2>1, <2>2
  <2>4. f[p] \in MappedDirs /\ f[p] # d
    <3> HIDE DEF f
    <3> QED BY <2>3 DEF TablesOK, C
  <2> QED BY <2>3, <2>4 DEF C
<1>7. f \in [S -> T]
  <2>1. \A p \in S : f[p] \in T
    BY <1>6
  <2> QED BY <2>1
<1> HIDE DEF f, S, T
<1>8. Cardinality(T) < Cardinality(S)
  BY <1>1, <1>2, <1>3, <1>4
<1>9. \E x, y \in S : x # y /\ f[x] = f[y]
  BY <1>3, <1>4, <1>7, <1>8, FS_PigeonHole
<1> QED BY <1>6, <1>9

(* Only the pages array is mapped for the user, and to be read.            *)
LEMMA MappingRights ==
  ASSUME SizesOK, AreasOK, Running, MappingOK, pc \in MappingSteps
  PROVE  RightsOK
PROOF
<1>1. /\ \A k \in Virtual : PTE(k * PGSIZE) = Expected(k)
      /\ region \in 1 .. 3 /\ i \in 0 .. Pages(region)
  BY DEF MappingOK
<1>2. /\ VPage(1) = BasePage - 4 * NPTENTRIES /\ Pages(1) = InfoPages
      /\ Regions[1].perm = {"U"} /\ Regions[2].perm = {"W"} /\ Regions[3].perm = {"W"}
  BY RegionFacts
<1>3. /\ InfoPages \in Nat /\ InfoPages < NPTENTRIES /\ NPTENTRIES \in Nat \ {0}
      /\ BasePage \in Nat /\ BasePage > 5 * NPTENTRIES /\ TopPages \in Nat
  BY RegionBounds
<1>4. Built(1) \in Int /\ Built(1) <= InfoPages
  <2>1. region = 1 => i \in 0 .. InfoPages
    BY <1>1, <1>2
  <2> QED BY <2>1, <1>2, <1>3 DEF Built
<1>5. ASSUME NEW k \in Virtual, PTE(k * PGSIZE) # NULL, "U" \in PTE(k * PGSIZE).perm
      PROVE  k < BasePage - 2 * NPTENTRIES /\ "W" \notin PTE(k * PGSIZE).perm
  <2>1. \A r : EntryOf(r, k).perm = Regions[r].perm
    BY DEF EntryOf, Entry
  <2>2. "U" \notin EntryOf(2, k).perm /\ "U" \notin EntryOf(3, k).perm
    BY <2>1, <1>2
  <2>3. Covers(1, k) /\ PTE(k * PGSIZE) = EntryOf(1, k)
    BY <2>2, <1>1, <1>5 DEF Expected
  <2>4. "W" \notin PTE(k * PGSIZE).perm
    BY <2>1, <2>3, <1>2
  <2>5. k \in Int /\ k < VPage(1) + Built(1)
    BY <2>3, <1>3 DEF Covers, Virtual
  <2> QED BY <2>4, <2>5, <1>2, <1>3, <1>4
<1> QED BY <1>5 DEF RightsOK

(* MappingRights in the next state.                                        *)
LEMMA MappingRightsNext ==
  SizesOK' /\ AreasOK' /\ Running' /\ MappingOK' /\ (pc \in MappingSteps)' => RightsOK'
PROOF
<1>1. SizesOK /\ AreasOK /\ Running /\ MappingOK /\ pc \in MappingSteps => RightsOK
  BY MappingRights
<1> QED BY <1>1, PTL

(* An iteration maps one page more.                                        *)
LEMMA ExpectedStep ==
  ASSUME SizesOK, AreasOK, Running, pc = "map", pc' = "map", UNCHANGED <<sizes, areas, region>>,
         region \in 1 .. 3, i \in 0 .. Pages(region) - 1, i' = i + 1, NEW k \in Nat
  PROVE  Expected(k)' = IF k = Target THEN EntryOf(region, Target) ELSE Expected(k)
PROOF
<1>1. \A r \in 1 .. 3 : VPage(r) \in Int /\ Pages(r) \in Nat
  <2>1. ASSUME NEW r \in 1 .. 3
        PROVE  VPage(r) \in Int /\ Pages(r) \in Nat
    <3>1. r = 1 \/ r = 2 \/ r = 3
      OBVIOUS
    <3> QED BY <3>1, RegionFacts, RegionBounds
  <2> QED BY <2>1
<1>2. \A r \in 1 .. 3 : /\ VPage(r)' = VPage(r) /\ Pages(r)' = Pages(r)
                        /\ EntryOf(r, k)' = EntryOf(r, k)
  BY SameRegions
<1>3. i \in Nat /\ i < Pages(region)
  BY <1>1
<1>4. ASSUME NEW r \in 1 .. 3
      PROVE  /\ Built(r) = IF region > r THEN Pages(r) ELSE IF region = r THEN i ELSE 0
             /\ Built(r)' = IF region > r THEN Pages(r) ELSE IF region = r THEN i + 1 ELSE 0
  BY <1>2 DEF Built
<1>5. ASSUME NEW r \in 1 .. 3
      PROVE  /\ r # region => (Covers(r, k)' <=> Covers(r, k))
             /\ r = region => (Covers(r, k)' <=> Covers(r, k) \/ k = Target)
             /\ r > region => ~Covers(r, k)
  <2>1. VPage(r) \in Int /\ Built(r) \in Int
    BY <1>1, <1>3, <1>4
  <2>2. CASE r # region
    <3>1. Built(r)' = Built(r)
      BY <2>2, <1>4
    <3>2. r > region => Built(r) = 0
      BY <1>4
    <3> QED BY <2>1, <2>2, <3>1, <3>2, <1>2 DEF Covers
  <2>3. CASE r = region
    <3>1. Built(r) = i /\ Built(r)' = i + 1 /\ Target = VPage(r) + i
      BY <2>3, <1>4 DEF Target
    <3> QED BY <2>1, <2>3, <3>1, <1>2, <1>3 DEF Covers
  <2> QED BY <2>2, <2>3
<1>6. 1 \in 1 .. 3 /\ 2 \in 1 .. 3 /\ 3 \in 1 .. 3
  OBVIOUS
<1>7. region = 1 \/ region = 2 \/ region = 3
  OBVIOUS
<1>8. /\ EntryOf(1, k)' = EntryOf(1, k) /\ EntryOf(2, k)' = EntryOf(2, k)
      /\ EntryOf(3, k)' = EntryOf(3, k)
  BY <1>2
<1>9. /\ Covers(1, k)' <=> Covers(1, k) \/ (region = 1 /\ k = Target)
      /\ Covers(2, k)' <=> Covers(2, k) \/ (region = 2 /\ k = Target)
      /\ Covers(3, k)' <=> Covers(3, k) \/ (region = 3 /\ k = Target)
      /\ region = 1 => ~Covers(2, k) /\ ~Covers(3, k)
      /\ region = 2 => ~Covers(3, k)
  <2>1. 2 > 1 /\ 3 > 1 /\ 3 > 2
    OBVIOUS
  <2> QED BY <1>5, <1>6, <1>7, <2>1
<1> QED BY <1>7, <1>8, <1>9 DEF Expected

(* An iteration of boot_map_region: the table is there or is made, and the *)
(* entry is written. The other entries of the tables stay.                 *)
LEMMA StepMapPage ==
  ASSUME MemInitInv, MapPage
  PROVE  MemInitInv'
PROOF
<1> USE DEF MemInitInv, PageInitInv
<1>1. pc = "map" /\ MoreToMap(Regions[region]) /\ UNCHANGED <<sizes, areas, locals, region>>
      /\ i' = i + 1
  BY DEF MapPage
<1>2. /\ Running /\ Fields /\ Bootable /\ Only(Free) /\ Linked(Free)
      /\ region \in 1 .. 3 /\ i \in 0 .. Pages(region)
      /\ \A k \in Virtual : PTE(k * PGSIZE) = Expected(k)
  BY <1>1 DEF ListOK, FreeListOK, MappingOK, OnceChecked, MappingSteps, Running, BeforeList, Stopped
<1>3. i \in 0 .. Pages(region) - 1 /\ Pages(region) \in Nat
  <2>1. Pages(region) \in Nat
    <3>1. region = 1 \/ region = 2 \/ region = 3
      BY <1>2
    <3> QED BY <3>1, <1>2, RegionFacts, RegionBounds
  <2> QED BY <2>1, <1>1, <1>2, LoopCondition
<1> DEFINE e == Entry(PPage(region) + i, Regions[region].perm)
<1>4. PICK t, d, x : t = Target /\ d = t \div NPTENTRIES /\ x = t % NPTENTRIES
  OBVIOUS
<1>5. /\ t \in Virtual /\ t \in Nat /\ d \in MappedDirs /\ d \in Dirs \ {UvptDir} /\ x \in Slots
      /\ (Regions[region].va + i * PGSIZE) % ASPACE = t * PGSIZE
      /\ (Regions[region].pa + i * PGSIZE) \div PGSIZE = PPage(region) + i
      /\ PPage(region) + i \in Nat
      /\ PDX(t * PGSIZE) = d /\ PTX(t * PGSIZE) = x
  <2>1. /\ Target \in 0 .. BasePage + TopPages - 1
        /\ (Regions[region].va + i * PGSIZE) % ASPACE = Target * PGSIZE
        /\ (Regions[region].pa + i * PGSIZE) \div PGSIZE = PPage(region) + i
        /\ PPage(region) + i \in Nat
        /\ Target \div NPTENTRIES \in MappedDirs /\ Target \div NPTENTRIES # UvptDir
    BY <1>2, <1>3, TargetFacts
  <2>2. t \in Virtual /\ t \in Nat
    BY <1>4, <2>1 DEF Virtual
  <2>3. PDX(t * PGSIZE) = d /\ PTX(t * PGSIZE) = x /\ x \in Slots
    BY <1>4, <2>2, PlaceOfPage
  <2>4. d \in Dirs \ {UvptDir}
    BY <1>4, <2>1, SpecialDirs
  <2> QED BY <1>4, <2>1, <2>2, <2>3, <2>4
<1>6. e \in Entries /\ e = EntryOf(region, Target) /\ e # NULL
  <2>1. Regions[region].perm \in SUBSET {"U", "W"}
    <3>1. region = 1 \/ region = 2 \/ region = 3
      BY <1>2
    <3> QED BY <3>1, <1>2, RegionFacts
  <2>2. VPage(region) \in Int /\ PPage(region) \in Int
    <3>1. region = 1 \/ region = 2 \/ region = 3
      BY <1>2
    <3> QED BY <3>1, <1>2, RegionFacts, RegionBounds
  <2>3. PPage(region) + Target - VPage(region) = PPage(region) + i
    BY <2>2, <1>3 DEF Target
  <2>4. e \in Entries
    BY <2>1, <1>5 DEF Entry, Entries
  <2>5. NULL \notin Entries
    BY AddressAssumption DEF Entries
  <2> QED BY <2>3, <2>4, <2>5 DEF EntryOf
<1>7. \/ /\ pgdir[d] # NULL
         /\ ptes' = [ptes EXCEPT ![pgdir[d].page][x] = e]
         /\ UNCHANGED <<list, pgdir, written, pc>>
      \/ /\ pgdir[d] = NULL
         /\ IF First = NULL \/ ~Low(First)
            THEN pc' = "fault" /\ UNCHANGED <<list, pgdir, ptes, written>>
            ELSE /\ NewTable(First)
                 /\ written' = written \cup {First}
                 /\ pgdir' = [pgdir EXCEPT ![d] = Entry(First, {"W", "U"})]
                 /\ ptes' = [p \in DOMAIN ptes \cup {First} |->
                              IF p = First THEN [EmptyTable EXCEPT ![x] = e]
                              ELSE ptes[p]]
                 /\ UNCHANGED pc
  BY <1>5 DEF MapPage
<1> HIDE DEF e
<1>8. /\ Kept' = Kept /\ AllPages' = AllPages /\ Bootable' = Bootable
      /\ npages' = npages /\ kern_pgdir' = kern_pgdir /\ pages' = pages
  BY <1>1, SameAreas
<1>9. Free \in SUBSET AllPages
  BY DEF Free, Kept
<1>10. ASSUME pc' = "map", TablesOK',
              \A k \in Virtual : PTE(k * PGSIZE)' = IF k = t THEN e ELSE PTE(k * PGSIZE)
       PROVE  MappingOK'
  <2>1. region' \in 1 .. 3 /\ i' \in 0 .. Pages(region)'
    <3>1. Pages(region)' = Pages(region)
      BY <1>1, SameRegions DEF Pages
    <3> QED BY <3>1, <1>1, <1>2, <1>3
  <2>2. ASSUME NEW k \in Virtual
        PROVE  PTE(k * PGSIZE)' = Expected(k)'
    <3>1. k \in Nat
      BY PageEntry
    <3>2. Expected(k)' = IF k = Target THEN EntryOf(region, Target) ELSE Expected(k)
      BY <3>1, <1>1, <1>2, <1>3, <1>10, ExpectedStep
    <3> QED BY <3>2, <1>2, <1>4, <1>6, <1>10
  <2> QED BY <2>1, <2>2 DEF MappingOK
<1>11. ASSUME NEW k \in Virtual, k # t
       PROVE  k \div NPTENTRIES # d \/ k % NPTENTRIES # x
  <2>1. k \in Int /\ t \in Int
    BY <1>5, PageEntry
  <2> QED BY <2>1, <1>4, <1>11, SamePlace
<1>12. CASE pgdir[d] # NULL
  <2>1. /\ ptes' = [ptes EXCEPT ![pgdir[d].page][x] = e]
        /\ UNCHANGED <<list, pgdir, written, pc>>
    BY <1>7, <1>12
  <2> DEFINE q == pgdir[d].page
  <2>2. q \in DOMAIN ptes /\ ptes[q] \in [Slots -> Entries \cup {NULL}]
    BY <1>5, <1>12 DEF TablesOK
  <2>3. UNCHANGED <<pp_ref, pp_link, page_free_list>>
    BY <2>1 DEF list
  <2>4. /\ DOMAIN ptes' = DOMAIN ptes
        /\ \A p \in DOMAIN ptes \ {q} : ptes'[p] = ptes[p]
        /\ ptes'[q] = [ptes[q] EXCEPT ![x] = e]
    BY <2>1, <2>2
  <2>5. ptes'[q] \in [Slots -> Entries \cup {NULL}] /\ ptes'[q][x] = e
        /\ \A y \in Slots \ {x} : ptes'[q][y] = ptes[q][y]
    BY <2>2, <2>4, <1>5, <1>6
  <2> HIDE DEF q
  <2>6. TablesOK'
    <3>1. \A p \in DOMAIN ptes' : ptes'[p] \in [Slots -> Entries \cup {NULL}]
      BY <2>4, <2>5 DEF TablesOK
    <3>2. UNCHANGED <<pgdir, pc, kern_pgdir>> /\ DOMAIN ptes' = DOMAIN ptes
      BY <2>1, <2>4, <1>8
    <3> QED BY <3>1, <3>2, <1>1, <1>8 DEF TablesOK, Running, SelfMap, Entry, MappingSteps
  <2>7. ASSUME NEW k \in Virtual
        PROVE  PTE(k * PGSIZE)' = IF k = t THEN e ELSE PTE(k * PGSIZE)
    <3> DEFINE f == k \div NPTENTRIES
               y == k % NPTENTRIES
    <3>1. f \in Dirs \ {UvptDir} /\ y \in Slots
          /\ PTE(k * PGSIZE) = IF pgdir[f] = NULL THEN NULL ELSE ptes[pgdir[f].page][y]
      BY PageEntry
    <3>2. PTE(k * PGSIZE)' = IF pgdir'[f] = NULL THEN NULL ELSE ptes'[pgdir'[f].page][y]
      BY <2>6, PageEntriesNext DEF PageEntries
    <3>3. k = t => f = d /\ y = x
      BY <1>4
    <3>4. k # t => f # d \/ y # x
      BY <1>11
    <3> HIDE DEF f, y
    <3>5. pgdir' = pgdir
      BY <2>1
    <3>6. CASE k = t
      BY <3>2, <3>3, <3>5, <3>6, <2>5, <1>12 DEF q
    <3>7. CASE k # t
      <4>1. CASE f = d
        BY <4>1, <3>1, <3>2, <3>4, <3>5, <3>7, <2>5 DEF q
      <4>2. CASE f # d /\ pgdir[f] # NULL
        <5>1. pgdir[f].page \in DOMAIN ptes /\ pgdir[f].page # q
          BY <4>2, <3>1, <1>5, <1>12 DEF TablesOK, q
        <5> QED BY <5>1, <4>2, <3>1, <3>2, <3>5, <3>7, <2>4
      <4>3. CASE pgdir[f] = NULL
        BY <4>3, <3>1, <3>2, <3>5, <3>7
      <4> QED BY <4>1, <4>2, <4>3
    <3> QED BY <3>6, <3>7
  <2>8. MappingOK'
    BY <2>1, <2>6, <2>7, <1>1, <1>10
  <2>9. PageInitInv'
    <3>1. WrittenOK' /\ Fields'
      BY <2>1, <2>3, <1>2, <1>8, SameWritten DEF Fields
    <3> QED BY <3>1, <2>1, <1>1, <1>2, LaterInv DEF OnceChecked, MappingSteps
  <2>10. FreeListOK'
    <3>1. Free' = Free
      BY <2>4, <1>8 DEF Free
    <3>2. Only(Free)' /\ Linked(Free)'
      BY <3>1, <2>1, <2>3, <1>1, <1>2, <1>8 DEF Only, Linked, LowAbove
    <3> QED BY <3>1, <3>2, <2>1, <1>1, <1>2, <1>8 DEF FreeListOK
  <2>11. RightsOK'
    BY <2>1, <2>8, <2>9, <1>1, MappingRightsNext DEF Running, BeforeList, Stopped, MappingSteps
  <2> QED BY <2>6, <2>8, <2>9, <2>10, <2>11
<1>13. CASE pgdir[d] = NULL
  <2>1. PICK rk \in [AllPages -> Int] :
          Chain(page_free_list, pp_link, Free, rk) /\ LowAbove(Free, rk)
    BY <1>1, <1>2 DEF Linked
  <2>2. PICK u \in Free : Low(u)
    BY <1>2, <1>5, <1>13, TableAvailable
  <2>3. PICK h : h = First
    OBVIOUS
  <2>4. h \in Free /\ Low(h) /\ h # NULL /\ h = page_free_list /\ h \in AllPages /\ h \in Nat
    <3>1. First = page_free_list
      BY DEF First
    <3>2. First \in Free /\ Low(First)
      BY <2>1, <2>2, <3>1, <1>9, ChainLow
    <3> QED BY <2>3, <3>1, <3>2, <1>9, NullNotPage DEF AllPages
  <2>5. /\ page_free_list' = pp_link[h]
        /\ pp_link' = [pp_link EXCEPT ![h] = NULL]
        /\ pp_ref' = [pp_ref EXCEPT ![h] = @ + 1]
        /\ written' = written \cup {h}
        /\ pgdir' = [pgdir EXCEPT ![d] = Entry(h, {"W", "U"})]
        /\ ptes' = [p \in DOMAIN ptes \cup {h} |->
                     IF p = h THEN [EmptyTable EXCEPT ![x] = e] ELSE ptes[p]]
        /\ UNCHANGED pc
    BY <2>3, <2>4, <1>7, <1>13 DEF NewTable
  <2>6. h \notin DOMAIN ptes /\ h \in Kept /\ h # kern_pgdir
    <3>1. h \notin DOMAIN ptes /\ h \in Kept
      BY <2>4 DEF Free
    <3>2. KernPage \notin Kept /\ kern_pgdir = KernPage
      <4>1. /\ KernPage \in Nat /\ FreePage \in Nat /\ KernPage < FreePage /\ kern_pgdir = KernPage
            /\ IoPage \in Nat /\ ExtPage \in Nat /\ IoPage < ExtPage /\ ExtPage < KernPage
        BY <1>2, Areas, Layout
      <4> QED BY <4>1, <1>2, KeptFacts
    <3> QED BY <3>1, <3>2
  <2>7. /\ DOMAIN ptes' = DOMAIN ptes \cup {h}
        /\ \A p \in DOMAIN ptes : ptes'[p] = ptes[p]
        /\ ptes'[h] \in [Slots -> Entries \cup {NULL}] /\ ptes'[h][x] = e
        /\ \A y \in Slots \ {x} : ptes'[h][y] = NULL
    <3>1. EmptyTable = [y \in Slots |-> NULL]
      BY DEF EmptyTable, Slots
    <3>2. ptes'[h] = [EmptyTable EXCEPT ![x] = e]
      BY <2>5
    <3>3. ptes'[h] = [y \in Slots |-> IF y = x THEN e ELSE NULL]
      BY <3>1, <3>2
    <3>4. /\ ptes'[h] \in [Slots -> Entries \cup {NULL}] /\ ptes'[h][x] = e
          /\ \A y \in Slots \ {x} : ptes'[h][y] = NULL
      BY <3>3, <1>5, <1>6
    <3>5. DOMAIN ptes' = DOMAIN ptes \cup {h} /\ \A p \in DOMAIN ptes : ptes'[p] = ptes[p]
      BY <2>5, <2>6
    <3> QED BY <3>4, <3>5
  <2>8. /\ pgdir' \in [Dirs -> Entries \cup {NULL}]
        /\ pgdir'[d] = Entry(h, {"W", "U"}) /\ pgdir'[d] # NULL
        /\ \A f \in Dirs \ {d} : pgdir'[f] = pgdir[f]
    <3>1. Entry(h, {"W", "U"}) \in Entries
      BY <2>4 DEF Entry, Entries
    <3>2. pgdir \in [Dirs -> Entries \cup {NULL}]
      BY DEF TablesOK
    <3>3. NULL \notin Entries
      BY AddressAssumption DEF Entries
    <3> QED BY <3>1, <3>2, <3>3, <2>5, <1>5
  <2>9. pgdir'[d].page = h /\ pgdir'[d].perm = {"W", "U"}
    BY <2>8 DEF Entry
  <2>10. TablesOK'
    <3>1. \A p \in DOMAIN ptes' : ptes'[p] \in [Slots -> Entries \cup {NULL}]
      BY <2>7 DEF TablesOK
    <3>2. kern_pgdir' \notin DOMAIN ptes' /\ DOMAIN ptes' \subseteq Kept'
      BY <2>6, <2>7, <1>2, <1>8 DEF TablesOK
    <3>3. pgdir'[UvptDir] = pgdir[UvptDir] /\ SelfMap(kern_pgdir)' = SelfMap(kern_pgdir)
      BY <2>8, <1>5, <1>8, SpecialDirs DEF SelfMap, Entry
    <3>4. \A f \in Dirs \ {UvptDir} : pgdir'[f] # NULL =>
            /\ f \in MappedDirs /\ pgdir'[f].perm = {"W", "U"} /\ pgdir'[f].page \in DOMAIN ptes'
            /\ f # d => pgdir'[f].page \in DOMAIN ptes
      BY <2>7, <2>8, <2>9, <1>5 DEF TablesOK
    <3>5. ASSUME NEW f \in Dirs \ {UvptDir}, NEW g \in Dirs \ {UvptDir},
                 pgdir'[f] # NULL, pgdir'[g] # NULL, pgdir'[f].page = pgdir'[g].page
          PROVE  f = g
      <4>1. CASE f # d /\ g # d
        BY <4>1, <3>5, <2>8 DEF TablesOK
      <4>2. CASE f = d \/ g = d
        BY <4>2, <3>4, <3>5, <2>6, <2>9
      <4> QED BY <4>1, <4>2
    <3>6. ASSUME NEW p \in DOMAIN ptes'
          PROVE  \E f \in Dirs \ {UvptDir} : pgdir'[f] # NULL /\ pgdir'[f].page = p
      <4>1. CASE p = h
        BY <4>1, <2>8, <2>9, <1>5
      <4>2. CASE p # h
        <5>1. PICK f \in Dirs \ {UvptDir} : pgdir[f] # NULL /\ pgdir[f].page = p
          BY <4>2, <3>6, <2>7 DEF TablesOK
        <5> QED BY <5>1, <2>8, <1>13
      <4> QED BY <4>1, <4>2
    <3>7. pc = "map" /\ pc' = "map" /\ pgdir[UvptDir] \in {NULL, SelfMap(kern_pgdir)}
          /\ pgdir[UvptDir] # NULL
      BY <2>5, <1>1 DEF TablesOK
    <3> QED BY <3>1, <3>2, <3>3, <3>4, <3>5, <3>6, <3>7, <2>8 DEF TablesOK, MappingSteps
  <2>11. ASSUME NEW k \in Virtual
         PROVE  PTE(k * PGSIZE)' = IF k = t THEN e ELSE PTE(k * PGSIZE)
    <3> DEFINE f == k \div NPTENTRIES
               y == k % NPTENTRIES
    <3>1. f \in Dirs \ {UvptDir} /\ y \in Slots
          /\ PTE(k * PGSIZE) = IF pgdir[f] = NULL THEN NULL ELSE ptes[pgdir[f].page][y]
      BY PageEntry
    <3>2. PTE(k * PGSIZE)' = IF pgdir'[f] = NULL THEN NULL ELSE ptes'[pgdir'[f].page][y]
      BY <2>10, PageEntriesNext DEF PageEntries
    <3>3. k = t => f = d /\ y = x
      BY <1>4
    <3>4. k # t => f # d \/ y # x
      BY <1>11
    <3> HIDE DEF f, y
    <3>5. CASE k = t
      BY <3>2, <3>3, <3>5, <2>7, <2>8, <2>9
    <3>6. CASE k # t /\ f = d
      BY <3>1, <3>2, <3>4, <3>6, <2>7, <2>8, <2>9, <1>13
    <3>7. CASE k # t /\ f # d
      <4>1. pgdir'[f] = pgdir[f] /\ (pgdir[f] # NULL => pgdir[f].page \in DOMAIN ptes)
        BY <3>1, <3>7, <2>8 DEF TablesOK
      <4> QED BY <4>1, <3>1, <3>2, <3>7, <2>7
    <3> QED BY <3>5, <3>6, <3>7
  <2>12. MappingOK'
    BY <2>5, <2>10, <2>11, <1>1, <1>10
  <2>13. Fields'
    <3>1. pp_ref[h] = 0
      BY <2>4, <1>2 DEF Only
    <3>2. pp_ref' \in [AllPages -> Nat]
      BY <3>1, <2>4, <2>5, <1>2 DEF Fields
    <3>3. pp_link' \in [AllPages -> AllPages \cup {NULL}]
          /\ page_free_list' \in AllPages \cup {NULL}
      BY <2>4, <2>5, <1>2 DEF Fields
    <3> QED BY <3>2, <3>3, <1>8 DEF Fields
  <2>14. PageInitInv'
    <3>1. WrittenOK'
      BY <2>4, <2>5, <2>6, <1>1, <1>2, WriteFree
    <3> QED BY <3>1, <2>5, <2>13, <1>1, <1>2, LaterInv DEF OnceChecked, MappingSteps
  <2>15. FreeListOK'
    <3>1. Free' = Free \ {h}
      BY <2>7, <1>8 DEF Free
    <3>2. Only(Free \ {h})'
      BY <3>1, <2>4, <2>5, <1>2, <1>8 DEF Only, Fields
    <3>3. Linked(Free \ {h})'
      <4>1. Chain(pp_link[h], pp_link', Free \ {h}, rk)
        <5>1. \A p \in Free \ {h} : pp_link'[p] = pp_link[p]
          BY <2>5, <1>2, <1>9 DEF Fields
        <5>2. PICK link, link2 : link = pp_link /\ link2 = pp_link'
          OBVIOUS
        <5>3. PICK L : L = Free
          OBVIOUS
        <5>4. Chain(link[h], link2, L \ {h}, rk)
          BY <5>1, <5>2, <5>3, <2>1, <2>4, <1>9, ChainPop
        <5> QED BY <5>2, <5>3, <5>4
      <4>2. LowAbove(Free \ {h}, rk)'
        BY <3>1, <2>1 DEF LowAbove, Low, page2pa
      <4> QED BY <3>1, <4>1, <4>2, <2>5, <1>8 DEF Linked
    <3> QED BY <3>1, <3>2, <3>3, <2>5, <1>1, <1>2, <1>8 DEF FreeListOK
  <2>16. RightsOK'
    BY <2>5, <2>12, <2>14, <1>1, MappingRightsNext DEF Running, BeforeList, Stopped, MappingSteps
  <2> QED BY <2>10, <2>12, <2>14, <2>15, <2>16
<1> QED BY <1>12, <1>13

-----------------------------------------------------------------------------
(* The space that has been built.                                          *)

(* The window at UVPT, by page number.                                     *)
LEMMA VirtualFacts ==
  ASSUME NEW k \in 0 .. BasePage + TopPages - 1
  PROVE  k \in Virtual <=> ~(BasePage - 3 * NPTENTRIES <= k /\ k < BasePage - 2 * NPTENTRIES)
PROOF
<1>1. /\ NPTENTRIES \in Nat \ {0} /\ BaseDir \in Nat /\ BasePage = BaseDir * NPTENTRIES
      /\ BasePage \in Nat /\ TopPages \in Nat /\ UvptDir \in Int /\ UvptDir = BaseDir - 3
  BY Directory, Top DEF UvptDir
<1>2. k \in Int
  BY <1>1
<1>3. UvptDir * NPTENTRIES = BasePage - 3 * NPTENTRIES
  BY <1>1, Multiples
<1>4. k \div NPTENTRIES = UvptDir
        <=> UvptDir * NPTENTRIES <= k /\ k < UvptDir * NPTENTRIES + NPTENTRIES
  BY <1>1, <1>2, DirOfPage
<1>5. BasePage - 3 * NPTENTRIES + NPTENTRIES = BasePage - 2 * NPTENTRIES
  BY <1>1
<1> QED BY <1>3, <1>4, <1>5 DEF Virtual

(* The pages array fills the pages between kern_pgdir and the end of what  *)
(* boot_alloc gave out.                                                    *)
LEMMA InfoSize ==
  ASSUME SizesOK, AreasOK, Running, Bootable
  PROVE  RoundUp(npages * SIZEOF) = InfoPages * PGSIZE /\ InfoPages \in Nat \ {0}
         /\ npages \in Nat \ {0}
PROOF
<1>1. npages \in Nat \ {0}
  BY BootablePages, Areas DEF SizesOK
<1>2. npages * SIZEOF \in Nat /\ npages * SIZEOF > 0
  BY <1>1, Constants
<1>3. /\ RoundUp(npages * SIZEOF) = (RoundUp(npages * SIZEOF) \div PGSIZE) * PGSIZE
      /\ npages * SIZEOF <= RoundUp(npages * SIZEOF)
  BY <1>2, RoundUpFacts
<1>4. RoundUp(npages * SIZEOF) \div PGSIZE = InfoPages
  BY RegionFacts DEF Pages, Regions
<1>5. InfoPages # 0
  <2>1. 0 * PGSIZE = 0
    BY Constants
  <2> QED BY <2>1, <1>2, <1>3, <1>4
<1> QED BY <1>1, <1>3, <1>4, <1>5, RegionBounds

(* What the three calls have built: the second region's excess above       *)
(* KERNBASE is overwritten by the third.                                   *)
LEMMA BuiltEntries ==
  ASSUME SizesOK, AreasOK, Running, MappingOK, pc \in MappingSteps \ {"map"}, NEW k \in Virtual
  PROVE  /\ k >= BasePage => PTE(k * PGSIZE) = Entry(k - BasePage, {"W"})
         /\ BasePage - StackPages <= k /\ k < BasePage =>
              PTE(k * PGSIZE) = Entry(BootStackPage + k - (BasePage - StackPages), {"W"})
         /\ BasePage - 4 * NPTENTRIES <= k /\ k < BasePage - 4 * NPTENTRIES + InfoPages =>
              PTE(k * PGSIZE) = Entry(KernPage + 1 + k - (BasePage - 4 * NPTENTRIES), {"U"})
         /\ /\ k < BasePage - StackPages
            /\ k < BasePage - 4 * NPTENTRIES \/ BasePage - 4 * NPTENTRIES + InfoPages <= k
            => PTE(k * PGSIZE) = NULL
PROOF
<1>1. PTE(k * PGSIZE) = Expected(k)
  BY DEF MappingOK
<1>2. /\ VPage(1) = BasePage - 4 * NPTENTRIES /\ Pages(1) = InfoPages
      /\ PPage(1) = KernPage + 1 /\ Regions[1].perm = {"U"}
      /\ VPage(2) = BasePage - StackPages /\ Pages(2) = KSTKSIZE
      /\ PPage(2) = BootStackPage /\ Regions[2].perm = {"W"}
      /\ VPage(3) = BasePage /\ Pages(3) = TopPages
      /\ PPage(3) = 0 /\ Regions[3].perm = {"W"}
  BY RegionFacts
<1>3. /\ KernPage \in Nat /\ InfoPages \in Nat /\ InfoPages < NPTENTRIES
      /\ NPTENTRIES \in Nat \ {0} /\ BasePage \in Nat /\ TopPages \in Nat \ {0}
      /\ StackPages \in Nat \ {0} /\ StackPages < NPTENTRIES
      /\ KSTKSIZE \in Nat \ {0} /\ BootStackPage \in Nat /\ BasePage > 5 * NPTENTRIES
      /\ StackPages <= KSTKSIZE
  <2>1. StackPages <= StackPages * PGSIZE
    BY Constants, RegionBounds
  <2> QED BY <2>1, RegionBounds
<1>4. Built(1) = InfoPages /\ Built(2) = KSTKSIZE /\ Built(3) = TopPages
  BY <1>2 DEF Built
<1>5. k \in Nat /\ k < BasePage + TopPages
  BY <1>3 DEF Virtual
<1>6. /\ Covers(3, k) <=> BasePage <= k
      /\ k < BasePage => (Covers(2, k) <=> BasePage - StackPages <= k)
      /\ Covers(1, k) <=> BasePage - 4 * NPTENTRIES <= k /\ k < BasePage - 4 * NPTENTRIES + InfoPages
  BY <1>2, <1>3, <1>4, <1>5 DEF Covers
<1>7. Covers(1, k) => k < BasePage - StackPages
  BY <1>3, <1>5, <1>6
<1>8. /\ EntryOf(3, k) = Entry(k - BasePage, {"W"})
      /\ EntryOf(2, k) = Entry(BootStackPage + k - (BasePage - StackPages), {"W"})
      /\ EntryOf(1, k) = Entry(KernPage + 1 + k - (BasePage - 4 * NPTENTRIES), {"U"})
  <2>1. 0 + k - BasePage = k - BasePage
    BY <1>3, <1>5
  <2> QED BY <2>1, <1>2 DEF EntryOf
<1>9. CASE k >= BasePage
  <2>1. Covers(3, k)
    BY <1>3, <1>5, <1>6, <1>9
  <2>2. PTE(k * PGSIZE) = Entry(k - BasePage, {"W"})
    BY <2>1, <1>1, <1>8 DEF Expected
  <2> QED BY <2>2, <1>3, <1>5, <1>9
<1>10. CASE k < BasePage /\ BasePage - StackPages <= k
  <2>1. ~Covers(3, k) /\ Covers(2, k)
    BY <1>3, <1>5, <1>6, <1>10
  <2>2. PTE(k * PGSIZE) = Entry(BootStackPage + k - (BasePage - StackPages), {"W"})
    BY <2>1, <1>1, <1>8 DEF Expected
  <2> QED BY <2>2, <1>3, <1>5, <1>10
<1>11. CASE k < BasePage - StackPages
  <2>1. ~Covers(3, k) /\ ~Covers(2, k)
    BY <1>3, <1>5, <1>6, <1>11
  <2>2. PTE(k * PGSIZE) =
          IF Covers(1, k) THEN Entry(KernPage + 1 + k - (BasePage - 4 * NPTENTRIES), {"U"}) ELSE NULL
    BY <2>1, <1>1, <1>8 DEF Expected
  <2> QED BY <2>2, <1>3, <1>5, <1>6, <1>11
<1> QED BY <1>3, <1>5, <1>9, <1>10, <1>11

(* The assertions of check_kern_pgdir.                                     *)
LEMMA LooksRight ==
  ASSUME SizesOK, AreasOK, Running, Bootable, TablesOK, MappingOK, pc = "check_kern_pgdir"
  PROVE  KernPgdirLooksRight
PROOF
<1>1. /\ KernPage \in Nat /\ InfoPages \in Nat \ {0} /\ InfoPages < NPTENTRIES
      /\ NPTENTRIES \in Nat \ {0} /\ BasePage \in Nat /\ TopPages \in Nat \ {0}
      /\ StackPages \in Nat \ {0} /\ StackPages < NPTENTRIES
      /\ KSTKSIZE = StackPages * PGSIZE
      /\ BootStackPage \in Nat /\ BasePage > 5 * NPTENTRIES
      /\ npages \in Nat \ {0} /\ npages <= TopPages
      /\ PGSIZE \in Nat \ {0}
      /\ RoundUp(npages * SIZEOF) = InfoPages * PGSIZE
  BY RegionBounds, InfoSize, BootablePages, Constants
<1>2. /\ UPAGES = (BasePage - 4 * NPTENTRIES) * PGSIZE /\ KERNBASE = BasePage * PGSIZE
      /\ KSTACKTOP - KSTKSIZE = (BasePage - StackPages) * PGSIZE
      /\ KSTACKTOP - PTSIZE = (BasePage - NPTENTRIES) * PGSIZE
      /\ pages = (KernPage + 1) * PGSIZE /\ BOOTSTACK = BootStackPage * PGSIZE
  <2>1. KERNBASE = BasePage * PGSIZE /\ PTSIZE = NPTENTRIES * PGSIZE
    BY Directory
  <2>2. (BasePage - StackPages) * PGSIZE = BasePage * PGSIZE - StackPages * PGSIZE
        /\ (BasePage - NPTENTRIES) * PGSIZE = BasePage * PGSIZE - NPTENTRIES * PGSIZE
    BY <1>1, Multiples
  <2>3. BOOTSTACK = BootStackPage * PGSIZE
    BY MultipleOf, Constants, AddressAssumption DEF BootStackPage
  <2> QED BY <2>1, <2>2, <2>3, <1>1, SpecialDirs, Areas DEF KSTACKTOP
<1>3. ASSUME NEW n \in Nat \ {0}
      PROVE  PageOffsets(n * PGSIZE) = {j * PGSIZE : j \in 0 .. n - 1}
  <2>1. n * PGSIZE - 1 = (n - 1) * PGSIZE + (PGSIZE - 1)
    BY <1>1
  <2>2. n - 1 \in Int /\ PGSIZE - 1 \in 0 .. PGSIZE - 1
    BY <1>1
  <2>3. ((n - 1) * PGSIZE + (PGSIZE - 1)) \div PGSIZE = n - 1
    BY <2>2, <1>1, Quotient
  <2>4. (n * PGSIZE - 1) \div PGSIZE = n - 1
    BY <2>1, <2>3
  <2> QED BY <2>4 DEF PageOffsets
<1>4. ASSUME NEW a \in Int, NEW j \in Int
      PROVE  /\ a * PGSIZE + j * PGSIZE = (a + j) * PGSIZE
             /\ ((a + j) * PGSIZE) \div PGSIZE = a + j
  <2>1. a + j \in Int
    OBVIOUS
  <2> QED BY <2>1, <1>1, Multiples, Quotient
<1>5. NULL \notin Entries /\ \A p \in Nat, s \in SUBSET {"U", "W"} : Entry(p, s) \in Entries
  BY AddressAssumption DEF Entries, Entry
<1>6. ASSUME NEW va, NEW p \in Nat, NEW s \in SUBSET {"U", "W"}, PTE(va) = Entry(p, s)
      PROVE  check_va2pa(va) = p /\ PTE(va) # NULL
  BY <1>5, <1>6 DEF check_va2pa, Entry
<1>7. {"U"} \in SUBSET {"U", "W"} /\ {"W"} \in SUBSET {"U", "W"}
  OBVIOUS
<1>8. pc \in MappingSteps \ {"map"}
  BY DEF MappingSteps
<1>9. ASSUME NEW j \in 0 .. InfoPages - 1
      PROVE  /\ check_va2pa(UPAGES + j * PGSIZE) = (pages + j * PGSIZE) \div PGSIZE
             /\ PTE((BasePage - 4 * NPTENTRIES + j) * PGSIZE) # NULL
  <2> DEFINE k == BasePage - 4 * NPTENTRIES + j
  <2>1. k \in 0 .. BasePage + TopPages - 1 /\ k \in Virtual
    <3>1. k \in 0 .. BasePage + TopPages - 1 /\ k < BasePage - 3 * NPTENTRIES
      BY <1>1
    <3> HIDE DEF k
    <3> QED BY <3>1, <1>1, VirtualFacts
  <2>2. PTE(k * PGSIZE) = Entry(KernPage + 1 + j, {"U"}) /\ KernPage + 1 + j \in Nat
    <3>1. BasePage - 4 * NPTENTRIES <= k /\ k < BasePage - 4 * NPTENTRIES + InfoPages
          /\ KernPage + 1 + k - (BasePage - 4 * NPTENTRIES) = KernPage + 1 + j
          /\ KernPage + 1 + j \in Nat
      BY <1>1
    <3> HIDE DEF k
    <3> QED BY <3>1, <2>1, <1>8, BuiltEntries
  <2>3. UPAGES + j * PGSIZE = k * PGSIZE /\ (pages + j * PGSIZE) \div PGSIZE = KernPage + 1 + j
    <3>1. BasePage - 4 * NPTENTRIES \in Int /\ KernPage + 1 \in Int /\ j \in Int
      BY <1>1
    <3> QED BY <3>1, <1>2, <1>4
  <2> HIDE DEF k
  <2>4. check_va2pa(k * PGSIZE) = KernPage + 1 + j /\ PTE(k * PGSIZE) # NULL
    BY <2>2, <1>6, <1>7
  <2> QED BY <2>3, <2>4 DEF k
<1>10. ASSUME NEW j \in 0 .. TopPages - 1
       PROVE  /\ check_va2pa(KERNBASE + j * PGSIZE) = (j * PGSIZE) \div PGSIZE
              /\ PTE((BasePage + j) * PGSIZE) # NULL
  <2> DEFINE k == BasePage + j
  <2>1. k \in 0 .. BasePage + TopPages - 1 /\ k \in Virtual
    <3>1. k \in 0 .. BasePage + TopPages - 1 /\ ~(k < BasePage - 2 * NPTENTRIES)
      BY <1>1
    <3> HIDE DEF k
    <3> QED BY <3>1, <1>1, VirtualFacts
  <2>2. PTE(k * PGSIZE) = Entry(j, {"W"}) /\ j \in Nat
    <3>1. k >= BasePage /\ k - BasePage = j /\ j \in Nat
      BY <1>1
    <3> HIDE DEF k
    <3> QED BY <3>1, <2>1, <1>8, BuiltEntries
  <2>3. KERNBASE + j * PGSIZE = k * PGSIZE /\ (j * PGSIZE) \div PGSIZE = j
    BY <2>2, <1>1, <1>2, <1>4, Quotient
  <2> HIDE DEF k
  <2>4. check_va2pa(k * PGSIZE) = j /\ PTE(k * PGSIZE) # NULL
    BY <2>2, <1>6, <1>7
  <2> QED BY <2>3, <2>4 DEF k
<1>11. ASSUME NEW j \in 0 .. StackPages - 1
       PROVE  /\ check_va2pa(KSTACKTOP - KSTKSIZE + j * PGSIZE) = (BOOTSTACK + j * PGSIZE) \div PGSIZE
              /\ PTE((BasePage - StackPages + j) * PGSIZE) # NULL
  <2> DEFINE k == BasePage - StackPages + j
  <2>1. k \in 0 .. BasePage + TopPages - 1 /\ k \in Virtual
    <3>1. k \in 0 .. BasePage + TopPages - 1 /\ ~(k < BasePage - 2 * NPTENTRIES)
      BY <1>1
    <3> HIDE DEF k
    <3> QED BY <3>1, <1>1, VirtualFacts
  <2>2. PTE(k * PGSIZE) = Entry(BootStackPage + j, {"W"}) /\ BootStackPage + j \in Nat
    <3>1. BasePage - StackPages <= k /\ k < BasePage
          /\ BootStackPage + k - (BasePage - StackPages) = BootStackPage + j
          /\ BootStackPage + j \in Nat
      BY <1>1
    <3> HIDE DEF k
    <3> QED BY <3>1, <2>1, <1>8, BuiltEntries
  <2>3. KSTACKTOP - KSTKSIZE + j * PGSIZE = k * PGSIZE
        /\ (BOOTSTACK + j * PGSIZE) \div PGSIZE = BootStackPage + j
    <3>1. BasePage - StackPages \in Int /\ BootStackPage \in Int /\ j \in Int
      BY <1>1
    <3> QED BY <3>1, <1>2, <1>4
  <2> HIDE DEF k
  <2>4. check_va2pa(k * PGSIZE) = BootStackPage + j /\ PTE(k * PGSIZE) # NULL
    BY <2>2, <1>6, <1>7
  <2> QED BY <2>3, <2>4 DEF k
<1>12. check_va2pa(KSTACKTOP - PTSIZE) = NULL
  <2> DEFINE k == BasePage - NPTENTRIES
  <2>1. k \in 0 .. BasePage + TopPages - 1 /\ k \in Virtual
    <3>1. k \in 0 .. BasePage + TopPages - 1 /\ ~(k < BasePage - 2 * NPTENTRIES)
      BY <1>1
    <3> HIDE DEF k
    <3> QED BY <3>1, <1>1, VirtualFacts
  <2>2. PTE(k * PGSIZE) = NULL
    <3>1. k < BasePage - StackPages /\ BasePage - 4 * NPTENTRIES + InfoPages <= k
      BY <1>1
    <3> HIDE DEF k
    <3> QED BY <3>1, <2>1, <1>8, BuiltEntries
  <2> QED BY <2>2, <1>2 DEF check_va2pa
<1>13. ASSUME NEW k \in Nat, PTE(k * PGSIZE) # NULL
       PROVE  pgdir[k \div NPTENTRIES] # NULL
  <2>1. PDX(k * PGSIZE) = k \div NPTENTRIES
    BY PlaceOfPage
  <2> QED BY <2>1, <1>13 DEF PTE
<1>14. /\ BaseDir \in Nat /\ 5 < BaseDir /\ BaseDir < NPDENTRIES /\ NPDENTRIES \in Nat
       /\ BasePage = BaseDir * NPTENTRIES /\ TopPages = (NPDENTRIES - BaseDir) * NPTENTRIES
  BY Directory
<1>15. ASSUME NEW d \in Dirs
       PROVE  IF d >= PDX(KERNBASE) THEN pgdir[d] # NULL /\ "W" \in pgdir[d].perm
              ELSE pgdir[d] # NULL <=> d \in {PDX(UVPT), PDX(KSTACKTOP - 1), PDX(UPAGES)}
  <2>1. /\ PDX(KERNBASE) = BaseDir /\ PDX(UVPT) = UvptDir /\ PDX(KSTACKTOP - 1) = BaseDir - 1
        /\ PDX(UPAGES) = BaseDir - 4 /\ UvptDir = BaseDir - 3 /\ d \in Int
    BY SpecialDirs, <1>14 DEF UvptDir, Dirs
  <2>2. CASE d >= BaseDir
    <3>1. d * NPTENTRIES - BasePage \in 0 .. TopPages - 1
      <4>1. BaseDir * NPTENTRIES <= d * NPTENTRIES
        BY <2>1, <2>2, <1>1, <1>14, Multiples
      <4>2. d * NPTENTRIES < NPDENTRIES * NPTENTRIES
        <5>1. d < NPDENTRIES
          BY <1>14 DEF Dirs
        <5> QED BY <5>1, <2>1, <1>1, <1>14, Multiples
      <4>3. (NPDENTRIES - BaseDir) * NPTENTRIES = NPDENTRIES * NPTENTRIES - BaseDir * NPTENTRIES
        BY <1>1, <1>14, Multiples
      <4>4. d * NPTENTRIES \in Int /\ NPDENTRIES * NPTENTRIES \in Int
        BY <2>1, <1>1, <1>14, Multiples
      <4> QED BY <4>1, <4>2, <4>3, <4>4, <1>1, <1>14
    <3> DEFINE k == d * NPTENTRIES
    <3>2. k \in Nat /\ k \div NPTENTRIES = d
      <4>1. k \div NPTENTRIES = d
        BY <2>1, <1>1, Quotient
      <4> QED BY <4>1, <2>1, <2>2, <1>1, <1>14
    <3> HIDE DEF k
    <3>3. PTE(k * PGSIZE) # NULL
      <4>1. BasePage + (k - BasePage) = k
        BY <3>2, <1>1
      <4>2. k - BasePage \in 0 .. TopPages - 1
        BY <3>1 DEF k
      <4>3. PTE((BasePage + (k - BasePage)) * PGSIZE) # NULL
        BY <4>2, <1>10
      <4> QED BY <4>1, <4>3
    <3>4. pgdir[d] # NULL
      BY <3>2, <3>3, <1>13
    <3>5. d \in Dirs \ {UvptDir}
      BY <2>1, <2>2, <1>14
    <3>6. pgdir[d].perm = {"W", "U"}
      BY <3>4, <3>5 DEF TablesOK
    <3> QED BY <3>4, <3>6, <2>1, <2>2
  <2>3. CASE ~(d >= BaseDir)
    <3>1. pgdir[d] # NULL => d \in {UvptDir, BaseDir - 1, BaseDir - 4}
      <4>1. d # UvptDir /\ pgdir[d] # NULL => d \in MappedDirs
        BY DEF TablesOK
      <4> QED BY <4>1, <2>1, <2>3, <1>14 DEF MappedDirs
    <3>2. pgdir[UvptDir] # NULL
      BY DEF TablesOK
    <3>3. pgdir[BaseDir - 1] # NULL
      <4> DEFINE k == BasePage - 1
      <4>1. k \in Nat /\ k \div NPTENTRIES = BaseDir - 1
        <5>1. k = (BaseDir - 1) * NPTENTRIES + (NPTENTRIES - 1)
              /\ BaseDir - 1 \in Int /\ NPTENTRIES - 1 \in 0 .. NPTENTRIES - 1
          BY <1>1, <1>14
        <5>2. ((BaseDir - 1) * NPTENTRIES + (NPTENTRIES - 1)) \div NPTENTRIES = BaseDir - 1
          BY <5>1, <1>1, Quotient
        <5> QED BY <5>1, <5>2, <1>1
      <4>2. PTE(k * PGSIZE) # NULL
        <5>1. BasePage - StackPages + (StackPages - 1) = k /\ StackPages - 1 \in 0 .. StackPages - 1
          BY <1>1
        <5>2. PTE((BasePage - StackPages + (StackPages - 1)) * PGSIZE) # NULL
          BY <5>1, <1>11
        <5> QED BY <5>1, <5>2
      <4> HIDE DEF k
      <4> QED BY <4>1, <4>2, <1>13
    <3>4. pgdir[BaseDir - 4] # NULL
      <4> DEFINE k == BasePage - 4 * NPTENTRIES
      <4>1. k \in Nat /\ k \div NPTENTRIES = BaseDir - 4
        <5>1. k = (BaseDir - 4) * NPTENTRIES /\ BaseDir - 4 \in Int
          BY <1>1, <1>14
        <5>2. ((BaseDir - 4) * NPTENTRIES) \div NPTENTRIES = BaseDir - 4
          BY <5>1, <1>1, Quotient
        <5> QED BY <5>1, <5>2, <1>1
      <4>2. PTE(k * PGSIZE) # NULL
        <5>1. k + 0 = k /\ 0 \in 0 .. InfoPages - 1
          BY <1>1
        <5>2. PTE((k + 0) * PGSIZE) # NULL
          BY <5>1, <1>9
        <5> QED BY <5>1, <5>2
      <4> HIDE DEF k
      <4> QED BY <4>1, <4>2, <1>13
    <3> QED BY <3>1, <3>2, <3>3, <3>4, <2>1, <2>3
  <2> QED BY <2>2, <2>3
<1>16. \A k \in PageOffsets(RoundUp(npages * SIZEOF)) :
         check_va2pa(UPAGES + k) = (pages + k) \div PGSIZE
  <2>1. PageOffsets(RoundUp(npages * SIZEOF)) = {j * PGSIZE : j \in 0 .. InfoPages - 1}
    BY <1>1, <1>3
  <2> QED BY <2>1, <1>9
<1>17. \A k \in PageOffsets(npages * PGSIZE) : check_va2pa(KERNBASE + k) = k \div PGSIZE
  <2>1. PageOffsets(npages * PGSIZE) = {j * PGSIZE : j \in 0 .. npages - 1}
    BY <1>1, <1>3
  <2>2. ASSUME NEW j \in 0 .. npages - 1
        PROVE  check_va2pa(KERNBASE + j * PGSIZE) = (j * PGSIZE) \div PGSIZE
    <3>1. j \in 0 .. TopPages - 1
      BY <1>1
    <3> QED BY <3>1, <1>10
  <2> QED BY <2>1, <2>2, Zenon
<1>18. \A k \in PageOffsets(KSTKSIZE) :
         check_va2pa(KSTACKTOP - KSTKSIZE + k) = (BOOTSTACK + k) \div PGSIZE
  <2>1. PageOffsets(KSTKSIZE) = {j * PGSIZE : j \in 0 .. StackPages - 1}
    BY <1>1, <1>3
  <2> QED BY <2>1, <1>11
<1> QED BY <1>12, <1>15, <1>16, <1>17, <1>18 DEF KernPgdirLooksRight, Dirs

(* check_kern_pgdir does not panic on a machine that got so far.           *)
LEMMA StepCheckKernPgdir ==
  ASSUME MemInitInv, check_kern_pgdir
  PROVE  MemInitInv' /\ pc' = "lcr3"
PROOF
<1> USE DEF MemInitInv, PageInitInv
<1>1. /\ pc = "check_kern_pgdir" /\ UNCHANGED <<sizes, areas, list, locals, written, mapping>>
      /\ pc' = IF KernPgdirLooksRight THEN "lcr3" ELSE "panic"
  BY DEF check_kern_pgdir
<1>2. Running /\ Fields /\ Bootable /\ Only(Free) /\ Linked(Free)
  BY <1>1 DEF ListOK, FreeListOK, OnceChecked, MappingSteps, Running, BeforeList, Stopped
<1>3. pc' = "lcr3"
  BY <1>1, <1>2, LooksRight
<1>4. UNCHANGED <<pp_ref, pp_link, page_free_list, pgdir, ptes, region, i>>
  BY <1>1 DEF list, mapping
<1>5. /\ Kept' = Kept /\ AllPages' = AllPages /\ Bootable' = Bootable
      /\ npages' = npages /\ kern_pgdir' = kern_pgdir /\ pages' = pages
  BY <1>1, SameAreas
<1>6. PageInitInv'
  <2>1. WrittenOK' /\ Fields'
    BY <1>1, <1>2, <1>4, <1>5, SameWritten DEF Fields
  <2> QED BY <2>1, <1>1, <1>2, <1>3, LaterInv DEF OnceChecked, MappingSteps
<1>7. TablesOK'
  BY <1>1, <1>2, <1>3, <1>4, SameTablesOK DEF OnceChecked, MappingSteps
<1>8. FreeListOK'
  <2>1. Free' = Free
    BY <1>4, <1>5 DEF Free
  <2>2. Only(Free)' /\ Linked(Free)'
    BY <2>1, <1>1, <1>2, <1>3, <1>4, <1>5 DEF Only, Linked, LowAbove
  <2> QED BY <2>2, <1>2, <1>3, <1>5 DEF FreeListOK
<1>9. RightsOK' /\ MappingOK'
  <2>1. \A k : Expected(k)' = Expected(k)
    <3>1. Regions' = Regions
      BY <1>1, SameRegions
    <3>2. pc # "map" /\ pc' # "map"
      BY <1>1, <1>3
    <3> QED BY <1>4, <3>1, <3>2 DEF Expected, Covers, Built, EntryOf, VPage, PPage, Pages
  <2>2. Pages(region)' = Pages(region)
    BY <1>1, <1>4, SameRegions DEF Pages
  <2> QED BY <2>1, <2>2, <1>1, <1>3, <1>4, <1>5, SameTables DEF MappingOK, MappingSteps
<1> QED BY <1>3, <1>6, <1>7, <1>8, <1>9

(* The steps of PageInit, as mem_init makes them.                          *)
LEMMA StepPrepare ==
  ASSUME MemInitInv, Prepare
  PROVE  MemInitInv' /\ Next
PROOF
<1>1. Next
  BY DEF Prepare, Next
<1>2. PageInitInv'
  BY <1>1, PageInitStep DEF MemInitInv
<1>3. /\ pc \in BeforeList \cup {"push", "filter", "check", "reorder", "assert"}
      /\ pc' \in BeforeList \cup {"push", "filter", "check", "reorder", "assert", "checked", "panic"}
  BY <1>1 DEF Next, DetectMemory, AllocPgdir, AllocPages, PushPage, FilterPage, CheckFreeList,
              ReorderPage, JoinLists, AssertFreeList, Panic, BeforeList
<1>4. ptes = <<>> /\ region = 1 /\ i = 0 /\ UNCHANGED <<ptes, region, i>>
  BY <1>3 DEF Prepare, MemInitInv, TablesOK, MappingSteps, Stopped, BeforeList, mapping
<1>5. DOMAIN ptes = {}
  BY <1>4
<1>6. /\ pgdir' \in [Dirs -> Entries \cup {NULL}]
      /\ pgdir'[UvptDir] \in {NULL, SelfMap(kern_pgdir')}
      /\ pc' \notin {"detect", "pgdir", "panic"} => pgdir'[UvptDir] # NULL
      /\ \A d \in Dirs \ {UvptDir} : pgdir'[d] = pgdir[d]
  <2>1. /\ pgdir \in [Dirs -> Entries \cup {NULL}] /\ pgdir[UvptDir] \in {NULL, SelfMap(kern_pgdir)}
        /\ pc \notin {"detect", "pgdir", "panic"} => pgdir[UvptDir] # NULL
    BY DEF MemInitInv, TablesOK
  <2>2. CASE AllocPgdir
    <3>1. pgdir' = IF pc' = "panic" THEN pgdir
                   ELSE [pgdir EXCEPT ![UvptDir] = SelfMap(kern_pgdir')]
      <4>1. PDX(UVPT) = UvptDir
        BY SpecialDirs
      <4>2. ~ (DetectMemory \/ AllocPages \/ PushPage \/ FilterPage
                 \/ CheckFreeList \/ ReorderPage \/ JoinLists \/ AssertFreeList)
        BY <2>2 DEF AllocPgdir, DetectMemory, AllocPages, PushPage, FilterPage, CheckFreeList,
                    ReorderPage, JoinLists, AssertFreeList
      <4> QED BY <4>1, <4>2 DEF Prepare
    <3>2. CASE pc' = "panic"
      <4>1. UNCHANGED <<pgdir, kern_pgdir>>
        BY <3>1, <3>2, <2>2 DEF AllocPgdir, Panic
      <4> QED BY <4>1, <3>2, <2>1 DEF SelfMap
    <3>3. CASE pc' # "panic"
      <4>1. kern_pgdir' \in Nat
        <5>1. kern_pgdir' = nextfree \div PGSIZE /\ nextfree = RoundUp(END)
          BY <3>3, <2>2 DEF AllocPgdir, Panic, MemInitInv, PageInitInv, AreasOK
        <5>2. kern_pgdir' = KernPage
          BY <5>1 DEF KernPage
        <5> QED BY <5>2, Layout
      <4>2. SelfMap(kern_pgdir') \in Entries /\ NULL \notin Entries
        BY <4>1, AddressAssumption DEF SelfMap, Entry, Entries
      <4>3. UvptDir \in Dirs
        BY SpecialDirs
      <4> QED BY <4>2, <4>3, <3>1, <3>3, <2>1
    <3> QED BY <3>2, <3>3
  <2>3. CASE ~AllocPgdir
    <3>1. UNCHANGED <<pgdir, kern_pgdir>>
      BY <2>3 DEF Prepare, mapping, DetectMemory, AllocPages, PushPage, FilterPage, CheckFreeList,
                  ReorderPage, JoinLists, AssertFreeList, areas
    <3>2. pc' \notin {"detect", "pgdir", "panic"} => pc \notin {"detect", "pgdir", "panic"}
                                                 \/ (pc = "detect" /\ pc' = "pgdir")
      BY <2>3, <1>1 DEF Next, DetectMemory, AllocPages, PushPage, FilterPage, CheckFreeList,
                  ReorderPage, JoinLists, AssertFreeList, Panic
    <3> QED BY <3>1, <3>2, <2>1 DEF SelfMap
  <2> QED BY <2>2, <2>3
<1>7. TablesOK'
  <2>1. \A d \in Dirs \ {UvptDir} : pgdir'[d] = NULL
    <3>1. \A d \in Dirs \ {UvptDir} : pgdir[d] = NULL
      BY <1>5 DEF MemInitInv, TablesOK
    <3> QED BY <3>1, <1>6
  <2>2. DOMAIN ptes' = {}
    BY <1>4, <1>5
  <2>3. SelfMap(kern_pgdir)' = SelfMap(kern_pgdir')
    BY DEF SelfMap, Entry
  <2> QED BY <2>1, <2>2, <2>3, <1>4, <1>6 DEF TablesOK
<1>8. FreeListOK' /\ MappingOK'
  BY <1>3 DEF FreeListOK, MappingOK, OnceChecked, MappingSteps, BeforeList
<1>9. RightsOK'
  <2>1. \A k \in Virtual : PTE(k * PGSIZE)' = NULL
    <3>1. ASSUME NEW k \in Virtual
          PROVE  PTE(k * PGSIZE)' = NULL
      <4>1. k \div NPTENTRIES \in Dirs \ {UvptDir}
        BY PageEntry DEF MemInitInv
      <4>2. pgdir'[k \div NPTENTRIES] = NULL
        <5>1. pgdir[k \div NPTENTRIES] = NULL
          BY <4>1, <1>5 DEF MemInitInv, TablesOK
        <5> QED BY <4>1, <5>1, <1>6
      <4> QED BY <4>2, <1>7, PageEntriesNext DEF PageEntries
    <3> QED BY <3>1
  <2> QED BY <2>1 DEF RightsOK
<1> QED BY <1>1, <1>2, <1>7, <1>8, <1>9 DEF MemInitInv

(* mem_init starts with an empty directory.                                *)
LEMMA MemInitStarts ==
  ASSUME MemInitStart
  PROVE  MemInitInv
PROOF
<1>1. Init /\ pgdir = [d \in Dirs |-> NULL] /\ ptes = <<>> /\ region = 1 /\ i = 0 /\ pc = "detect"
  BY DEF MemInitStart, Dirs, Init
<1>2. DOMAIN ptes = {}
  BY <1>1
<1>3. TablesOK
  BY <1>1, <1>2, SpecialDirs DEF TablesOK, Running, BeforeList, MappingSteps
<1>4. RightsOK
  <2>1. \A k \in Virtual : PTE(k * PGSIZE) = NULL
    <3>1. ASSUME NEW k \in Virtual
          PROVE  PTE(k * PGSIZE) = NULL
      <4>1. k \div NPTENTRIES \in Dirs \ {UvptDir}
        BY <1>3, PageEntry
      <4>2. pgdir[k \div NPTENTRIES] = NULL
        BY <4>1, <1>1
      <4> QED BY <4>2, <1>3, PageEntry
    <3> QED BY <3>1
  <2> QED BY <2>1 DEF RightsOK
<1>5. FreeListOK /\ MappingOK
  BY <1>1 DEF FreeListOK, MappingOK, OnceChecked, MappingSteps
<1> QED BY <1>1, <1>3, <1>4, <1>5, InitInv DEF MemInitInv

(* A step of something else.                                               *)
LEMMA MemInitStutter ==
  ASSUME MemInitInv, UNCHANGED memvars
  PROVE  MemInitInv'
PROOF
<1>1. UNCHANGED vars /\ UNCHANGED <<pgdir, ptes, region, i>>
  BY DEF memvars, mapping
<1>2. UNCHANGED <<sizes, areas, list, pc>>
  BY <1>1 DEF vars
<1>3. UNCHANGED <<pp_ref, pp_link, page_free_list>>
  BY <1>2 DEF list
<1>4. /\ Kept' = Kept /\ AllPages' = AllPages /\ Bootable' = Bootable
      /\ npages' = npages /\ kern_pgdir' = kern_pgdir /\ pages' = pages
  BY <1>2, SameAreas
<1>5. PageInitInv'
  BY <1>1, PageInitStutter DEF MemInitInv
<1>6. Running' = Running /\ Free' = Free /\ SelfMap(kern_pgdir)' = SelfMap(kern_pgdir)
  BY <1>1, <1>2, <1>4 DEF Running, Free, SelfMap, Entry
<1>7. TablesOK'
  BY <1>1, <1>2, <1>4, <1>6 DEF MemInitInv, TablesOK
<1>8. FreeListOK'
  <2>1. Only(Free)' = Only(Free) /\ Linked(Free)' = Linked(Free)
    BY <1>2, <1>3, <1>4, <1>6 DEF Only, Linked, LowAbove
  <2> QED BY <2>1, <1>2, <1>4 DEF MemInitInv, FreeListOK
<1>9. RightsOK' /\ MappingOK'
  <2>1. \A k : Expected(k)' = Expected(k)
    <3>1. Regions' = Regions
      BY <1>2, SameRegions
    <3> QED BY <1>1, <1>2, <3>1 DEF Expected, Covers, Built, EntryOf, VPage, PPage, Pages
  <2>2. Pages(region)' = Pages(region)
    BY <1>1, <1>2, SameRegions DEF Pages
  <2> QED BY <2>1, <2>2, <1>1, <1>2, <1>4, SameTables DEF MemInitInv, MappingOK
<1> QED BY <1>5, <1>7, <1>8, <1>9 DEF MemInitInv

(* mem_init keeps its invariant on every machine: through page_init, the   *)
(* checks of the allocator, the calls of boot_map_region, lcr3 and the     *)
(* check that follows it.                                                  *)
THEOREM MemInitInvariant == MemInitSpec => []MemInitInv
PROOF
<1>1. MemInitInv /\ [MemInitNext]_memvars => MemInitInv'
  BY StepPrepare, StepCheckPageAlloc, StepCheckPage, StepMapPage, StepRegionDone,
     StepCheckKernPgdir, StepInstallPgdir, StepCheckInstalled, MemInitStutter DEF MemInitNext
<1> QED BY <1>1, MemInitStarts, PTL DEF MemInitSpec

-----------------------------------------------------------------------------
(* What mem_init promises.                                                 *)

(* The virtual pages are the multiples of PGSIZE.                          *)
LEMMA VirtualPage ==
  ASSUME NEW va \in VirtualPages
  PROVE  \E k \in 0 .. BasePage + TopPages - 1 : va = k * PGSIZE
  BY Directory DEF VirtualPages

(* The address space as mem_init's comments draw it, by page numbers.      *)
LEMMA WantedPage ==
  ASSUME SizesOK, AreasOK, Running, Bootable, NEW k \in Nat
  PROVE  Wanted(k * PGSIZE) =
           IF k >= BasePage THEN Entry(k - BasePage, {"W"})
           ELSE IF BasePage - StackPages <= k
                THEN Entry(BootStackPage + k - (BasePage - StackPages), {"W"})
           ELSE IF BasePage - 3 * NPTENTRIES <= k /\ k < BasePage - 2 * NPTENTRIES
                THEN IF pgdir[k % NPTENTRIES] = NULL THEN NULL
                     ELSE Entry(pgdir[k % NPTENTRIES].page, {"U"})
           ELSE IF BasePage - 4 * NPTENTRIES <= k /\ k < BasePage - 4 * NPTENTRIES + InfoPages
                THEN Entry(KernPage + 1 + k - (BasePage - 4 * NPTENTRIES), {"U"})
           ELSE NULL
PROOF
<1> DEFINE va == k * PGSIZE
<1>1. /\ KernPage \in Nat /\ InfoPages \in Nat \ {0} /\ InfoPages < NPTENTRIES
      /\ NPTENTRIES \in Nat \ {0} /\ BasePage \in Nat /\ StackPages \in Nat \ {0}
      /\ StackPages < NPTENTRIES /\ BootStackPage \in Nat /\ BasePage > 5 * NPTENTRIES
      /\ PGSIZE \in Nat \ {0} /\ KSTKSIZE = StackPages * PGSIZE
      /\ RoundUp(npages * SIZEOF) = InfoPages * PGSIZE
  BY RegionBounds, InfoSize, Constants
<1>2. /\ KERNBASE = BasePage * PGSIZE /\ KSTACKTOP = BasePage * PGSIZE
      /\ KSTACKTOP - KSTKSIZE = (BasePage - StackPages) * PGSIZE
      /\ UVPT = (BasePage - 3 * NPTENTRIES) * PGSIZE
      /\ UVPT + PTSIZE = (BasePage - 2 * NPTENTRIES) * PGSIZE
      /\ UPAGES = (BasePage - 4 * NPTENTRIES) * PGSIZE
      /\ UPAGES + RoundUp(npages * SIZEOF) = (BasePage - 4 * NPTENTRIES + InfoPages) * PGSIZE
      /\ BOOTSTACK = BootStackPage * PGSIZE /\ pages = (KernPage + 1) * PGSIZE
  <2>1. KERNBASE = BasePage * PGSIZE /\ PTSIZE = NPTENTRIES * PGSIZE
    BY Directory
  <2>2. BOOTSTACK = BootStackPage * PGSIZE
    BY MultipleOf, Constants, AddressAssumption DEF BootStackPage
  <2>3. (BasePage - StackPages) * PGSIZE = BasePage * PGSIZE - StackPages * PGSIZE
    BY <1>1, Multiples
  <2>4. /\ UVPT = (BasePage - 3 * NPTENTRIES) * PGSIZE
        /\ UPAGES = (BasePage - 4 * NPTENTRIES) * PGSIZE
    BY SpecialDirs
  <2> DEFINE a == BasePage - 3 * NPTENTRIES
             b == BasePage - 4 * NPTENTRIES
  <2>5. a \in Int /\ b \in Int /\ a + NPTENTRIES = BasePage - 2 * NPTENTRIES
    BY <1>1
  <2> HIDE DEF a, b
  <2>6. (a + NPTENTRIES) * PGSIZE = a * PGSIZE + NPTENTRIES * PGSIZE
        /\ (b + InfoPages) * PGSIZE = b * PGSIZE + InfoPages * PGSIZE
    BY <2>5, <1>1, Multiples
  <2>7. UVPT + PTSIZE = (BasePage - 2 * NPTENTRIES) * PGSIZE
        /\ UPAGES + RoundUp(npages * SIZEOF) = (BasePage - 4 * NPTENTRIES + InfoPages) * PGSIZE
    BY <2>1, <2>4, <2>5, <2>6, <1>1 DEF a, b
  <2> QED BY <2>1, <2>2, <2>3, <2>4, <2>7, <1>1, Areas DEF KSTACKTOP
<1>3. ASSUME NEW a \in Int
      PROVE  /\ a * PGSIZE <= va <=> a <= k
             /\ va < a * PGSIZE <=> k < a
             /\ a * PGSIZE \in Int /\ va \in Int
  BY <1>1, Multiples
<1>4. ASSUME NEW a \in Int, NEW b \in Int
      PROVE  (b * PGSIZE + va - a * PGSIZE) \div PGSIZE = b + k - a
  <2>1. b * PGSIZE + va - a * PGSIZE = (b + k - a) * PGSIZE
    <3>1. b + k \in Int /\ k \in Int
      OBVIOUS
    <3>2. (b + k) * PGSIZE = b * PGSIZE + k * PGSIZE
      BY <1>1, Multiples
    <3>3. ((b + k) - a) * PGSIZE = (b + k) * PGSIZE - a * PGSIZE
      BY <3>1, <1>1, Multiples
    <3>4. b * PGSIZE \in Int /\ k * PGSIZE \in Int /\ a * PGSIZE \in Int
      BY <1>1, Multiples
    <3> DEFINE bd == b * PGSIZE
               kd == k * PGSIZE
               ad == a * PGSIZE
               m == (b + k) * PGSIZE
    <3>5. /\ m = bd + kd /\ (b + k - a) * PGSIZE = m - ad
          /\ bd \in Int /\ kd \in Int /\ ad \in Int
      BY <3>2, <3>3, <3>4
    <3> HIDE DEF bd, kd, ad, m
    <3>6. bd + kd - ad = (b + k - a) * PGSIZE
      BY <3>5
    <3> QED BY <3>6 DEF bd, kd, ad
  <2>2. b + k - a \in Int
    OBVIOUS
  <2> QED BY <2>1, <2>2, <1>1, Quotient
<1>5. PTX(va) = k % NPTENTRIES
  BY PlaceOfPage
<1> HIDE DEF va
<1>6. /\ va >= KERNBASE <=> BasePage <= k
      /\ va \in KSTACKTOP - KSTKSIZE .. KSTACKTOP - 1 <=> BasePage - StackPages <= k /\ k < BasePage
      /\ va \in UVPT .. UVPT + PTSIZE - 1
           <=> BasePage - 3 * NPTENTRIES <= k /\ k < BasePage - 2 * NPTENTRIES
      /\ va \in UPAGES .. UPAGES + RoundUp(npages * SIZEOF) - 1
           <=> BasePage - 4 * NPTENTRIES <= k /\ k < BasePage - 4 * NPTENTRIES + InfoPages
  <2>1. /\ BasePage \in Int /\ BasePage - StackPages \in Int /\ BasePage - 3 * NPTENTRIES \in Int
        /\ BasePage - 2 * NPTENTRIES \in Int /\ BasePage - 4 * NPTENTRIES \in Int
        /\ BasePage - 4 * NPTENTRIES + InfoPages \in Int
    BY <1>1
  <2>2. ASSUME NEW lo \in Int, NEW hi \in Int
        PROVE  va \in lo * PGSIZE .. hi * PGSIZE - 1 <=> lo <= k /\ k < hi
    <3> DEFINE u == lo * PGSIZE
               v == hi * PGSIZE
    <3>1. u \in Int /\ v \in Int /\ va \in Int /\ (u <= va <=> lo <= k) /\ (va < v <=> k < hi)
      BY <1>3
    <3> HIDE DEF u, v
    <3>2. va \in u .. v - 1 <=> lo <= k /\ k < hi
      BY <3>1
    <3> QED BY <3>2 DEF u, v
  <2>3. va >= KERNBASE <=> BasePage <= k
    BY <2>1, <1>2, <1>3
  <2>4. va \in KSTACKTOP - KSTKSIZE .. KSTACKTOP - 1 <=> BasePage - StackPages <= k /\ k < BasePage
    BY <2>1, <2>2, <1>2
  <2>5. va \in UVPT .. UVPT + PTSIZE - 1
           <=> BasePage - 3 * NPTENTRIES <= k /\ k < BasePage - 2 * NPTENTRIES
    <3> DEFINE lo == BasePage - 3 * NPTENTRIES
               hi == BasePage - 2 * NPTENTRIES
    <3>1. lo \in Int /\ hi \in Int
      BY <2>1
    <3> HIDE DEF lo, hi
    <3>2. va \in lo * PGSIZE .. hi * PGSIZE - 1 <=> lo <= k /\ k < hi
      BY <3>1, <2>2
    <3> DEFINE end == UVPT + PTSIZE
    <3>3. UVPT = lo * PGSIZE /\ end = hi * PGSIZE
      BY <1>2 DEF lo, hi
    <3> HIDE DEF end
    <3>4. va \in UVPT .. end - 1 <=> lo <= k /\ k < hi
      BY <3>2, <3>3, Zenon
    <3>5. end - 1 = UVPT + PTSIZE - 1
      <4>1. lo * PGSIZE \in Int /\ hi * PGSIZE \in Int
        BY <3>1, <1>3
      <4>2. end = UVPT + PTSIZE
        BY DEF end
      <4>3. UVPT \in Int /\ end \in Int /\ PTSIZE \in Int
        BY <4>1, <3>3, <1>1, Constants, Multiples
      <4> QED BY <4>2, <4>3
    <3>6. va \in UVPT .. UVPT + PTSIZE - 1 <=> lo <= k /\ k < hi
      BY <3>4, <3>5, Zenon
    <3> QED BY <3>6 DEF lo, hi
  <2>6. va \in UPAGES .. UPAGES + RoundUp(npages * SIZEOF) - 1
           <=> BasePage - 4 * NPTENTRIES <= k /\ k < BasePage - 4 * NPTENTRIES + InfoPages
    <3> DEFINE lo == BasePage - 4 * NPTENTRIES
               hi == BasePage - 4 * NPTENTRIES + InfoPages
    <3>1. lo \in Int /\ hi \in Int
      BY <2>1
    <3> HIDE DEF lo, hi
    <3>2. va \in lo * PGSIZE .. hi * PGSIZE - 1 <=> lo <= k /\ k < hi
      BY <3>1, <2>2
    <3> DEFINE end == UPAGES + RoundUp(npages * SIZEOF)
    <3>3. UPAGES = lo * PGSIZE /\ end = hi * PGSIZE
      BY <1>2 DEF lo, hi
    <3> HIDE DEF end
    <3>4. va \in UPAGES .. end - 1 <=> lo <= k /\ k < hi
      BY <3>2, <3>3, Zenon
    <3>5. end - 1 = UPAGES + RoundUp(npages * SIZEOF) - 1
      <4>1. lo * PGSIZE \in Int /\ hi * PGSIZE \in Int
        BY <3>1, <1>3
      <4>2. end = UPAGES + RoundUp(npages * SIZEOF)
        BY DEF end
      <4>3. UPAGES \in Int /\ end \in Int /\ RoundUp(npages * SIZEOF) \in Int
        BY <4>1, <3>3, <1>1, Constants, Multiples
      <4> QED BY <4>2, <4>3
    <3>6. va \in UPAGES .. UPAGES + RoundUp(npages * SIZEOF) - 1 <=> lo <= k /\ k < hi
      BY <3>4, <3>5, Zenon
    <3> QED BY <3>6 DEF lo, hi
  <2> QED BY <2>3, <2>4, <2>5, <2>6
<1>7. /\ (va - KERNBASE) \div PGSIZE = k - BasePage
      /\ (BOOTSTACK + va - (KSTACKTOP - KSTKSIZE)) \div PGSIZE
           = BootStackPage + k - (BasePage - StackPages)
      /\ (pages + va - UPAGES) \div PGSIZE = KernPage + 1 + k - (BasePage - 4 * NPTENTRIES)
  <2>1. /\ BasePage \in Int /\ BasePage - StackPages \in Int /\ BootStackPage \in Int
        /\ BasePage - 4 * NPTENTRIES \in Int /\ KernPage + 1 \in Int
    BY <1>1
  <2>2. (0 * PGSIZE + va - BasePage * PGSIZE) \div PGSIZE = 0 + k - BasePage
    BY <2>1, <1>4
  <2>3. 0 * PGSIZE + va - BasePage * PGSIZE = va - KERNBASE
    BY <2>1, <1>1, <1>2, <1>3
  <2>4. 0 + k - BasePage = k - BasePage
    BY <2>1
  <2>5. (va - KERNBASE) \div PGSIZE = k - BasePage
    BY <2>2, <2>3, <2>4
  <2>6. (BOOTSTACK + va - (KSTACKTOP - KSTKSIZE)) \div PGSIZE
           = BootStackPage + k - (BasePage - StackPages)
    BY <2>1, <1>2, <1>4
  <2>7. (pages + va - UPAGES) \div PGSIZE = KernPage + 1 + k - (BasePage - 4 * NPTENTRIES)
    BY <2>1, <1>2, <1>4
  <2> QED BY <2>5, <2>6, <2>7
<1>8. \/ k >= BasePage
      \/ BasePage - StackPages <= k /\ k < BasePage
      \/ BasePage - 3 * NPTENTRIES <= k /\ k < BasePage - 2 * NPTENTRIES /\ k < BasePage - StackPages
      \/ /\ BasePage - 4 * NPTENTRIES <= k /\ k < BasePage - 4 * NPTENTRIES + InfoPages
         /\ k < BasePage - 3 * NPTENTRIES
      \/ /\ k < BasePage - StackPages
         /\ ~(BasePage - 3 * NPTENTRIES <= k /\ k < BasePage - 2 * NPTENTRIES)
         /\ ~(BasePage - 4 * NPTENTRIES <= k /\ k < BasePage - 4 * NPTENTRIES + InfoPages)
  BY <1>1
<1>9. CASE k >= BasePage
  BY <1>1, <1>6, <1>7, <1>9 DEF Wanted, va
<1>10. CASE BasePage - StackPages <= k /\ k < BasePage
  BY <1>1, <1>6, <1>7, <1>10 DEF Wanted, va
<1>11. CASE BasePage - 3 * NPTENTRIES <= k /\ k < BasePage - 2 * NPTENTRIES /\ k < BasePage - StackPages
  BY <1>1, <1>5, <1>6, <1>11 DEF Wanted, va
<1>12. CASE /\ BasePage - 4 * NPTENTRIES <= k /\ k < BasePage - 4 * NPTENTRIES + InfoPages
            /\ k < BasePage - 3 * NPTENTRIES
  BY <1>1, <1>6, <1>7, <1>12 DEF Wanted, va
<1>13. CASE /\ k < BasePage - StackPages
            /\ ~(BasePage - 3 * NPTENTRIES <= k /\ k < BasePage - 2 * NPTENTRIES)
            /\ ~(BasePage - 4 * NPTENTRIES <= k /\ k < BasePage - 4 * NPTENTRIES + InfoPages)
  BY <1>1, <1>6, <1>13 DEF Wanted, va
<1> QED BY <1>8, <1>9, <1>10, <1>11, <1>12, <1>13

(* The window: a page table read through UVPT is the directory's.          *)
LEMMA WindowEntry ==
  ASSUME TablesOK, NEW k \in 0 .. BasePage + TopPages - 1, k \notin Virtual
  PROVE  /\ k % NPTENTRIES \in Dirs
         /\ k < BasePage - 2 * NPTENTRIES /\ BasePage - 3 * NPTENTRIES <= k
         /\ Translate(k * PGSIZE) =
              IF pgdir[UvptDir] = NULL \/ pgdir[k % NPTENTRIES] = NULL THEN NULL
              ELSE Entry(pgdir[k % NPTENTRIES].page, {"U"})
PROOF
<1>1. /\ NPTENTRIES \in Nat \ {0} /\ NPDENTRIES = NPTENTRIES
      /\ BasePage \in Nat /\ TopPages \in Nat
  BY Directory, Top
<1>2. k \in Nat /\ k \div NPTENTRIES = UvptDir
      /\ k < BasePage - 2 * NPTENTRIES /\ BasePage - 3 * NPTENTRIES <= k
  <2>1. k \in Nat
    BY <1>1
  <2>2. k \div NPTENTRIES = UvptDir
    BY DEF Virtual
  <2>3. k < BasePage - 2 * NPTENTRIES /\ BasePage - 3 * NPTENTRIES <= k
    BY VirtualFacts
  <2> QED BY <2>1, <2>2, <2>3
<1>3. PDX(k * PGSIZE) = UvptDir /\ PTX(k * PGSIZE) = k % NPTENTRIES /\ k % NPTENTRIES \in Dirs
  BY <1>1, <1>2, PlaceOfPage DEF Slots, Dirs
<1> DEFINE x == k % NPTENTRIES
<1> HIDE DEF x
<1>4. PTE(k * PGSIZE) = IF pgdir[UvptDir] = NULL THEN NULL ELSE Table(pgdir[UvptDir].page)[x]
  BY <1>3 DEF PTE, x
<1>5. pgdir[UvptDir] # NULL => pgdir[UvptDir] = Entry(kern_pgdir, {"U"})
  BY DEF TablesOK, SelfMap
<1>6. pgdir[UvptDir] # NULL => PTE(k * PGSIZE) = pgdir[x] /\ pgdir[UvptDir].perm = {"U"}
  BY <1>4, <1>5 DEF Table, Entry
<1>7. x \in Dirs /\ (pgdir[x] # NULL => "U" \in pgdir[x].perm)
  <2>1. x \in Dirs
    BY <1>3 DEF x
  <2>2. CASE x = UvptDir
    BY <2>1, <2>2, <1>6
  <2>3. CASE x # UvptDir
    BY <2>1, <2>3 DEF TablesOK
  <2> QED BY <2>1, <2>2, <2>3
<1>8. pgdir[x] # NULL => pgdir[x].perm \cap {"U"} = {"U"}
  BY <1>7
<1>9. Translate(k * PGSIZE) =
        IF pgdir[UvptDir] = NULL \/ pgdir[x] = NULL THEN NULL
        ELSE Entry(pgdir[x].page, {"U"})
  <2>1. CASE pgdir[UvptDir] = NULL
    BY <2>1, <1>4 DEF Translate
  <2>2. CASE pgdir[UvptDir] # NULL
    BY <2>2, <1>3, <1>6, <1>8 DEF Translate
  <2> QED BY <2>1, <2>2
<1> QED BY <1>2, <1>3, <1>9 DEF x

(* Below or above the window the MMU finds the entry pgdir_walk finds.     *)
LEMMA TableEntry ==
  ASSUME TablesOK, NEW k \in Virtual
  PROVE  Translate(k * PGSIZE) = PTE(k * PGSIZE)
PROOF
<1>1. /\ k \in Nat /\ k \div NPTENTRIES \in Dirs \ {UvptDir}
      /\ PTE(k * PGSIZE) =
           IF pgdir[k \div NPTENTRIES] = NULL THEN NULL
           ELSE ptes[pgdir[k \div NPTENTRIES].page][k % NPTENTRIES]
      /\ PTE(k * PGSIZE) \in Entries \cup {NULL}
  BY PageEntry
<1>2. PDX(k * PGSIZE) = k \div NPTENTRIES
  BY <1>1, PlaceOfPage
<1>3. CASE PTE(k * PGSIZE) = NULL
  BY <1>3 DEF Translate
<1>4. CASE PTE(k * PGSIZE) # NULL
  <2>1. pgdir[k \div NPTENTRIES].perm = {"W", "U"}
    BY <1>1, <1>4 DEF TablesOK
  <2> DEFINE e == PTE(k * PGSIZE)
  <2>2. e \in Entries /\ Translate(k * PGSIZE) = Entry(e.page, e.perm \cap {"W", "U"})
    BY <2>1, <1>1, <1>2, <1>4 DEF Translate
  <2> HIDE DEF e
  <2>3. e.perm \cap {"W", "U"} = e.perm
    BY <2>2 DEF Entries
  <2>4. Entry(e.page, e.perm) = e
    BY <2>2 DEF Entries, Entry
  <2> QED BY <2>2, <2>3, <2>4 DEF e
<1> QED BY <1>3, <1>4

(* The invariant gives KernelSpace.                                        *)
LEMMA InvKernelSpace ==
  ASSUME MemInitInv
  PROVE  KernelSpace
PROOF
<1> USE DEF MemInitInv, PageInitInv
<1> SUFFICES ASSUME pc \in {"lcr3", "check_installed", "done"}, NEW va \in VirtualPages
             PROVE  Translate(va) = Wanted(va)
  BY DEF KernelSpace
<1>1. Running /\ Bootable /\ pc \in MappingSteps \ {"map"}
  BY DEF FreeListOK, OnceChecked, MappingSteps, Running, BeforeList, Stopped
<1>2. PICK k \in 0 .. BasePage + TopPages - 1 : va = k * PGSIZE
  BY VirtualPage
<1>3. /\ InfoPages \in Nat \ {0} /\ InfoPages < NPTENTRIES
      /\ NPTENTRIES \in Nat \ {0} /\ BasePage \in Nat /\ StackPages \in Nat \ {0}
      /\ StackPages < NPTENTRIES /\ TopPages \in Nat
  BY <1>1, RegionBounds, InfoSize
<1>4. k \in Nat
  BY <1>3
<1>5. CASE k \in Virtual
  <2>1. Translate(k * PGSIZE) = PTE(k * PGSIZE)
    BY <1>5, TableEntry
  <2>2. ~(BasePage - 3 * NPTENTRIES <= k /\ k < BasePage - 2 * NPTENTRIES)
    BY <1>5, VirtualFacts
  <2>3. /\ k >= BasePage => PTE(k * PGSIZE) = Entry(k - BasePage, {"W"})
        /\ BasePage - StackPages <= k /\ k < BasePage =>
             PTE(k * PGSIZE) = Entry(BootStackPage + k - (BasePage - StackPages), {"W"})
        /\ BasePage - 4 * NPTENTRIES <= k /\ k < BasePage - 4 * NPTENTRIES + InfoPages =>
             PTE(k * PGSIZE) = Entry(KernPage + 1 + k - (BasePage - 4 * NPTENTRIES), {"U"})
        /\ /\ k < BasePage - StackPages
           /\ k < BasePage - 4 * NPTENTRIES \/ BasePage - 4 * NPTENTRIES + InfoPages <= k
           => PTE(k * PGSIZE) = NULL
    BY <1>1, <1>5, BuiltEntries
  <2>4. PTE(k * PGSIZE) = Wanted(k * PGSIZE)
    <3> DEFINE w == Wanted(k * PGSIZE)
               e == PTE(k * PGSIZE)
    <3>1. w = IF k >= BasePage THEN Entry(k - BasePage, {"W"})
              ELSE IF BasePage - StackPages <= k
                   THEN Entry(BootStackPage + k - (BasePage - StackPages), {"W"})
              ELSE IF BasePage - 4 * NPTENTRIES <= k /\ k < BasePage - 4 * NPTENTRIES + InfoPages
                   THEN Entry(KernPage + 1 + k - (BasePage - 4 * NPTENTRIES), {"U"})
              ELSE NULL
      BY <2>2, <1>1, <1>4, WantedPage
    <3> HIDE DEF w, e
    <3> QED BY <3>1, <2>3, <1>3, <1>4 DEF w, e
  <2> QED BY <2>1, <2>4, <1>2
<1>6. CASE k \notin Virtual
  <2>1. /\ k < BasePage - 2 * NPTENTRIES /\ BasePage - 3 * NPTENTRIES <= k
        /\ Translate(k * PGSIZE) =
             IF pgdir[UvptDir] = NULL \/ pgdir[k % NPTENTRIES] = NULL THEN NULL
             ELSE Entry(pgdir[k % NPTENTRIES].page, {"U"})
    BY <1>6, WindowEntry
  <2>2. pgdir[UvptDir] # NULL
    BY <1>1 DEF TablesOK, MappingSteps
  <2>3. ~(k >= BasePage) /\ ~(BasePage - StackPages <= k)
    BY <2>1, <1>3, <1>4
  <2>4. Wanted(k * PGSIZE) = IF pgdir[k % NPTENTRIES] = NULL THEN NULL
                             ELSE Entry(pgdir[k % NPTENTRIES].page, {"U"})
    BY <2>1, <2>3, <1>1, <1>4, WantedPage
  <2> QED BY <2>1, <2>2, <2>4, <1>2
<1> QED BY <1>5, <1>6

(* The invariant gives UserRights.                                         *)
LEMMA InvUserRights ==
  ASSUME MemInitInv
  PROVE  UserRights
PROOF
<1> USE DEF MemInitInv
<1> SUFFICES ASSUME NEW va \in VirtualPages,
                    Translate(va) # NULL, "U" \in Translate(va).perm
             PROVE  va < ULIM /\ "W" \notin Translate(va).perm
  BY DEF UserRights
<1>1. PICK k \in 0 .. BasePage + TopPages - 1 : va = k * PGSIZE
  BY VirtualPage
<1>2. /\ NPTENTRIES \in Nat \ {0} /\ BasePage \in Nat /\ TopPages \in Nat /\ PGSIZE \in Nat \ {0}
      /\ ULIM = (BasePage - 2 * NPTENTRIES) * PGSIZE
  BY Directory, Top, SpecialDirs, Constants
<1>3. k < BasePage - 2 * NPTENTRIES => va < ULIM
  <2>1. k \in Int /\ BasePage - 2 * NPTENTRIES \in Int
    BY <1>2
  <2> QED BY <2>1, <1>1, <1>2, Multiples
<1>4. CASE k \in Virtual
  <2>1. Translate(va) = PTE(k * PGSIZE)
    BY <1>1, <1>4, TableEntry
  <2> QED BY <2>1, <1>3, <1>4 DEF RightsOK
<1>5. CASE k \notin Virtual
  <2>1. k < BasePage - 2 * NPTENTRIES
        /\ Translate(k * PGSIZE) = Entry(pgdir[k % NPTENTRIES].page, {"U"})
    BY <1>1, <1>5, WindowEntry
  <2>2. Translate(va).perm = {"U"}
    BY <2>1, <1>1 DEF Entry
  <2> QED BY <2>1, <2>2, <1>3
<1> QED BY <1>4, <1>5

(* The invariant gives HandsOver.                                          *)
LEMMA InvHandsOver ==
  ASSUME MemInitInv
  PROVE  HandsOver
PROOF
<1> USE DEF MemInitInv, PageInitInv
<1> SUFFICES ASSUME pc = "done"
             PROVE  /\ Ends(page_free_list)
                    /\ PagesFrom(page_free_list) = FreeMemory \ DOMAIN ptes
                    /\ \A p \in AllPages :
                         IF p \in PagesFrom(page_free_list) THEN pp_ref[p] = 0
                         ELSE pp_ref[p] = 1 /\ pp_link[p] = NULL
                    /\ \A d \in 0 .. PDX(UTOP) - 1 : pgdir[d] = NULL
  BY DEF HandsOver
<1>1. Running /\ Only(Free) /\ Linked(Free) /\ npages \in Nat
  BY DEF FreeListOK, OnceChecked, MappingSteps, Running, BeforeList, Stopped, SizesOK
<1>2. PICK rk \in [AllPages -> Int] : Chain(page_free_list, pp_link, Free, rk)
  BY <1>1 DEF Linked
<1>3. Ends(page_free_list) /\ PagesFrom(page_free_list) = Free
  <2>1. Free \in SUBSET AllPages
    BY DEF Free, Kept
  <2> QED BY <2>1, <1>1, <1>2, ChainList
<1>4. Free = FreeMemory \ DOMAIN ptes
  BY <1>1, FreeIsKept DEF Free
<1>5. ASSUME NEW d \in 0 .. PDX(UTOP) - 1
      PROVE  pgdir[d] = NULL
  <2>1. /\ PDX(UTOP) = BaseDir - 5 /\ BaseDir \in Nat /\ 5 < BaseDir
        /\ BaseDir < NPDENTRIES /\ NPDENTRIES \in Nat
    BY SpecialDirs, Directory
  <2>2. d \in Dirs \ {UvptDir} /\ d \notin MappedDirs
    BY <2>1 DEF Dirs, UvptDir, MappedDirs
  <2> QED BY <2>2 DEF TablesOK
<1> QED BY <1>1, <1>3, <1>4, <1>5 DEF Only

-----------------------------------------------------------------------------
(* While page_init and check_page_free_list rewrite the links they walk    *)
(* along, no page is lost or visited twice: at every iteration the list    *)
(* and the part not done make up the pages they should.                    *)
THEOREM NoPageLost == MemInitSpec => []NothingLost
PROOF
<1>1. MemInitInv => NothingLost
  BY InvNothingLost DEF MemInitInv
<1> QED BY <1>1, MemInitInvariant, PTL

(* Until lcr3 every page that boot_alloc, memset and pgdir_walk write is   *)
(* one that entry_pgdir maps, and none is in the kernel's image.           *)
THEOREM WritesMapped == MemInitSpec => []EarlyWritesMapped
PROOF
<1>1. MemInitInv => EarlyWritesMapped
  BY DEF MemInitInv, PageInitInv, WrittenOK
<1> QED BY <1>1, MemInitInvariant, PTL

(* When the kernel loads cr3, the four loops of boot_map_region have built *)
(* exactly the address space that mem_init's comments describe.            *)
THEOREM SpaceAsDescribed == MemInitSpec => []KernelSpace
PROOF
<1>1. MemInitInv => KernelSpace
  BY InvKernelSpace
<1> QED BY <1>1, MemInitInvariant, PTL

(* At no moment of the construction is the user let write above UTOP, or   *)
(* read above ULIM.                                                        *)
THEOREM UserKeptOut == MemInitSpec => []UserRights
PROOF
<1>1. MemInitInv => UserRights
  BY InvUserRights
<1> QED BY <1>1, MemInitInvariant, PTL

(* mem_init returns with the list and the reference counts that page_alloc *)
(* and page_free start from.                                               *)
THEOREM ListHandedOver == MemInitSpec => []HandsOver
PROOF
<1>1. MemInitInv => HandsOver
  BY InvHandsOver
<1> QED BY <1>1, MemInitInvariant, PTL

(* No page table is needed that is missing or out of reach: pgdir_walk's   *)
(* NULL, which boot_map_region does not check, is never returned.          *)
THEOREM NoFault == MemInitSpec => [](pc # "fault")
PROOF
<1>1. MemInitInv => pc # "fault"
  BY DEF MemInitInv, FreeListOK
<1> QED BY <1>1, MemInitInvariant, PTL

(* The panics of boot_alloc and of the checks up to check_kern_pgdir stop  *)
(* the machines that are not Bootable, and only those.                     *)
THEOREM OnlyUnbootableStopped == MemInitSpec => StopsOnlyUnbootable
PROOF
<1>1. MemInitInv /\ [MemInitNext]_memvars =>
        [/\ pc \notin {"lcr3", "check_installed", "panic"} /\ pc' = "panic" => ~Bootable
         /\ pc' = "checked" => Bootable]_vars
  <2> SUFFICES ASSUME MemInitInv, MemInitNext, ~UNCHANGED vars
               PROVE  /\ pc \notin {"lcr3", "check_installed", "panic"} /\ pc' = "panic" => ~Bootable
                      /\ pc' = "checked" => Bootable
    BY DEF memvars
  <2>1. CASE Prepare
    BY <2>1, StepPrepare, StepStopsOnlyUnbootable DEF MemInitInv
  <2>2. CASE check_page_alloc
    BY <2>2, StepCheckPageAlloc
  <2>3. CASE check_page
    BY <2>3, StepCheckPage
  <2>4. CASE MapPage \/ RegionDone
    BY <2>4 DEF MapPage, RegionDone
  <2>5. CASE check_kern_pgdir
    BY <2>5, StepCheckKernPgdir
  <2>6. CASE InstallPgdir \/ check_page_installed_pgdir
    BY <2>6 DEF InstallPgdir, check_page_installed_pgdir
  <2> QED BY <2>1, <2>2, <2>3, <2>4, <2>5, <2>6 DEF MemInitNext
<1> QED BY <1>1, MemInitInvariant, PTL DEF MemInitSpec, StopsOnlyUnbootable

====
