------------------------- MODULE PageTables_proofs -------------------------
(***************************************************************************)
(* Proofs about page_insert and page_remove of kern/pmap.c, step by step   *)
(* and with the MMU at work, for any physical memory, any size of          *)
(* directory and tables, any programs and any width of pp_ref.             *)
(*                                                                         *)
(* The invariants need each other.  That page_decref frees a page only     *)
(* with its last mapping needs PpRefCountsMappings; that a program's store *)
(* cannot reach a page table needs TLBCoherent and PagesSeparate; that     *)
(* clearing one entry leaves every other translation alone needs the page  *)
(* tables to be distinct.                                                  *)
(***************************************************************************)
EXTENDS PageTables, FiniteSetTheorems, TLAPS

(* The inductive invariant.                                                *)
IInv ==
  /\ TypeOK
  /\ PagesSeparate
  /\ TLBCoherent
  /\ CallState
  /\ PpRefCountsMappings

-----------------------------------------------------------------------------
(* Arithmetic and finite sets.                                             *)

(* A pp_ref in range is its own residue.                                   *)
LEMMA ModSmall ==
  ASSUME NEW m \in Nat, m > 1, NEW x \in 0 .. m - 1
  PROVE  x % m = x
  OBVIOUS

(* There are finitely many virtual pages, so mappings can be counted.      *)
LEMMA VAsFinite == IsFiniteSet(VAs)
  BY FiniteAssumption, FS_Product DEF VAs

(* Any set of virtual pages has a number of elements.                      *)
LEMMA CountOfVAs ==
  ASSUME NEW S \in SUBSET VAs
  PROVE  IsFiniteSet(S) /\ Cardinality(S) \in Nat
  BY VAsFinite, FS_Subset, FS_CardinalityType

(* A mapping more is a count more.                                         *)
LEMMA CountAdd ==
  ASSUME NEW S \in SUBSET VAs, NEW v \in VAs, v \notin S
  PROVE  Cardinality(S \cup {v}) = Cardinality(S) + 1
  BY CountOfVAs, FS_AddElement

(* A mapping less is a count less.                                         *)
LEMMA CountRemove ==
  ASSUME NEW S \in SUBSET VAs, NEW v \in S
  PROVE  Cardinality(S \ {v}) = Cardinality(S) - 1
  BY CountOfVAs, FS_RemoveElement

(* A page with a mapping has a positive count.                             *)
LEMMA CountPositive ==
  ASSUME NEW S \in SUBSET VAs, NEW v \in S
  PROVE  Cardinality(S) > 0
PROOF
<1>1. Cardinality(S \ {v}) \in Nat /\ Cardinality(S) \in Nat
  BY CountOfVAs
<1>2. Cardinality(S \ {v}) = Cardinality(S) - 1
  BY CountRemove
<1> QED BY <1>1, <1>2

-----------------------------------------------------------------------------
(* Reading page tables.                                                    *)

(* A store to the entry that the MMU finds for va.                         *)
SetPTE(va, entry) == mem' = [mem EXCEPT ![pgdir[va[1]]][va[2]] = entry]

(* What PTE returns is a word.                                             *)
LEMMA PTEType ==
  ASSUME TypeOK, NEW va \in VAs
  PROVE  PTE(va) \in Words
  BY DEF TypeOK, PTE, VAs, Words

(* The entries stay what they are as long as the page tables do.           *)
LEMMA PTEFrame ==
  ASSUME TypeOK, UNCHANGED pgdir,
         \A d \in PDXs : pgdir[d] # NULL => mem'[pgdir[d]] = mem[pgdir[d]]
  PROVE  \A va \in VAs : PTE(va)' = PTE(va)
  BY DEF PTE, VAs

(* Storing an entry changes that entry: no two tables are the same page.   *)
LEMMA PTEStore ==
  ASSUME TypeOK, PagesSeparate, NEW v \in VAs, NEW e \in Words,
         pgdir[v[1]] # NULL, SetPTE(v, e), UNCHANGED pgdir
  PROVE  /\ \A va \in VAs : PTE(va)' = IF va = v THEN e ELSE PTE(va)
         /\ mem' \in [Pages -> [PTXs -> Words]]
         /\ \A p \in Pages : p # pgdir[v[1]] => mem'[p] = mem[p]
PROOF
<1> DEFINE t == pgdir[v[1]]
<1>1. v[1] \in PDXs /\ v[2] \in PTXs /\ v = <<v[1], v[2]>>
  BY DEF VAs
<1>2. t \in Pages
  BY <1>1 DEF TypeOK
<1>3. mem' = [mem EXCEPT ![t] = [mem[t] EXCEPT ![v[2]] = e]]
  BY DEF SetPTE
<1>4. mem \in [Pages -> [PTXs -> Words]]
  BY DEF TypeOK
<1>5. mem' \in [Pages -> [PTXs -> Words]]
  BY <1>1, <1>2, <1>3, <1>4
<1>6. \A p \in Pages : p # t => mem'[p] = mem[p]
  BY <1>3, <1>4
<1>7. \A x \in PTXs : mem'[t][x] = IF x = v[2] THEN e ELSE mem[t][x]
  BY <1>2, <1>3, <1>4
<1>8. ASSUME NEW va \in VAs PROVE PTE(va)' = IF va = v THEN e ELSE PTE(va)
  <2>1. va[1] \in PDXs /\ va[2] \in PTXs /\ va = <<va[1], va[2]>>
    BY DEF VAs
  <2>2. PTE(va)' = IF pgdir[va[1]] = NULL THEN NULL ELSE mem'[pgdir[va[1]]][va[2]]
    BY DEF PTE
  <2>3. CASE pgdir[va[1]] = t
    <3>1. va[1] = v[1]
      BY <1>1, <2>1, <2>3 DEF PagesSeparate
    <3>2. PTE(va)' = mem'[t][va[2]] /\ PTE(va) = mem[t][va[2]]
      BY <2>2, <2>3 DEF PTE
    <3>3. (va = v) <=> (va[2] = v[2])
      BY <1>1, <2>1, <3>1
    <3> QED BY <1>7, <2>1, <3>2, <3>3
  <2>4. CASE pgdir[va[1]] # t
    <3>1. va # v
      BY <2>4
    <3>2. PTE(va)' = PTE(va)
      BY <1>6, <2>1, <2>2, <2>4 DEF PTE, TypeOK
    <3> QED BY <3>1, <3>2
  <2> QED BY <2>3, <2>4
<1> QED BY <1>5, <1>6, <1>8

-----------------------------------------------------------------------------
(* What a step that leaves some things alone preserves.                    *)

(* Page tables move only with the directory and pgdir_walk's local.        *)
LEMMA TablesFrame ==
  ASSUME UNCHANGED <<pgdir, table>>
  PROVE  Tables' = Tables
  BY DEF Tables

(* Outside the last three steps of a call the mappings are the entries.    *)
LEMMA MapNowUnsettled ==
  ASSUME pc \notin {"clear", "invlpg", "store"}
  PROVE  MapNow = [va \in VAs |-> PTE(va)]
  BY DEF MapNow, Settled

(* In those steps they are the entries but for the address of the call.    *)
LEMMA MapNowSettled ==
  ASSUME TypeOK, pc \in {"clear", "invlpg", "store"}
  PROVE  /\ call.va \in VAs
         /\ MapNow = [va \in VAs |->
                        IF va # call.va THEN PTE(va)
                        ELSE IF call.op = "insert"
                             THEN Entry(call.pp, call.perm) ELSE NULL]
  BY DEF MapNow, Settled, TypeOK, Calls

(* A mapping is NULL or an entry.                                          *)
LEMMA MapNowType ==
  ASSUME TypeOK
  PROVE  MapNow \in [VAs -> Words]
PROOF
<1>1. \A va \in VAs : PTE(va) \in Words
  BY PTEType
<1>2. CASE pc \in {"clear", "invlpg", "store"}
  <2>1. call.op = "insert" => Entry(call.pp, call.perm) \in Words
    BY <1>2 DEF TypeOK, Calls, Entry, Words, Entries
  <2>2. NULL \in Words
    BY DEF Words
  <2> QED BY <1>1, <1>2, <2>1, <2>2, MapNowSettled
<1>3. CASE pc \notin {"clear", "invlpg", "store"}
  BY <1>1, <1>3, MapNowUnsettled
<1> QED BY <1>2, <1>3

(* The mappings of a page are among the virtual pages.                     *)
LEMMA MappingsType == \A p : Mappings(p) \in SUBSET VAs
  BY DEF Mappings

(* The counts depend on the mappings, the directory and the step.          *)
LEMMA CountsFrame ==
  ASSUME PpRefCountsMappings, UNCHANGED <<pp_ref, pgdir, MapNow>>,
         \A p \in InitialFree : InAdvance(p)' = InAdvance(p)
  PROVE  PpRefCountsMappings'
PROOF
<1>1. \A p : Mappings(p)' = Mappings(p) /\ AsTable(p)' = AsTable(p)
  BY DEF Mappings, AsTable
<1> QED BY <1>1 DEF PpRefCountsMappings

(* Nothing is counted in advance outside the step that removes a mapping.  *)
LEMMA InAdvanceZero ==
  ASSUME pc # "decref"
  PROVE  \A p : InAdvance(p) = 0
  BY DEF InAdvance

(* Separation depends on the mappings, the tables and the free pages.      *)
LEMMA SeparateFrame ==
  ASSUME PagesSeparate, UNCHANGED <<free, pgdir, table, MapNow>>,
         pc' # "idle" /\ call'.op = "insert" => call'.pp \in Owned
  PROVE  PagesSeparate'
PROOF
<1>1. Tables' = Tables /\ Owned' = Owned
  BY TablesFrame DEF Owned
<1> QED BY <1>1 DEF PagesSeparate

(* A page that is free or a page table has no mappings and is not the      *)
(* page of a call.                                                         *)
LEMMA OthersUnmapped ==
  ASSUME TypeOK, PagesSeparate, NEW p \in Pages, p \notin Owned
  PROVE  Mappings(p) = {} /\ Cardinality(Mappings(p)) = 0 /\ InAdvance(p) = 0
PROOF
<1>1. Mappings(p) = {}
  BY DEF Mappings, PagesSeparate
<1>2. InAdvance(p) = 0
  BY DEF InAdvance, PagesSeparate
<1> QED BY <1>1, <1>2, FS_EmptySet

-----------------------------------------------------------------------------
(* The initial state.                                                      *)

(* The kernel starts with an empty address space and an empty TLB.         *)
LEMMA InitIInv == Init => IInv
PROOF
<1> SUFFICES ASSUME Init PROVE IInv
  OBVIOUS
<1> USE NullAssumption, PagesAssumption, RefModAssumption DEF Init
<1>1. TypeOK
  BY DEF TypeOK, Zeroed, Words
<1>2. \A va \in VAs : PTE(va) = NULL
  BY DEF PTE, VAs
<1>3. MapNow = [va \in VAs |-> NULL]
  BY <1>2, MapNowUnsettled
<1>4. Tables = {}
  BY DEF Tables
<1>5. PagesSeparate
  BY <1>3, <1>4 DEF PagesSeparate
<1>6. TLBCoherent
  BY DEF TLBCoherent
<1>7. CallState
  BY DEF CallState
<1>8. PpRefCountsMappings
  <2> SUFFICES ASSUME NEW p \in InitialFree
               PROVE  pp_ref[p] = Cardinality(Mappings(p)) + AsTable(p) + InAdvance(p)
    BY DEF PpRefCountsMappings
  <2>1. Cardinality(Mappings(p)) = 0
    BY <1>3, FS_EmptySet DEF Mappings
  <2>2. AsTable(p) = 0 /\ InAdvance(p) = 0
    BY DEF AsTable, InAdvance
  <2>3. pp_ref[p] = 0
    OBVIOUS
  <2> QED BY <2>1, <2>2, <2>3
<1> QED BY <1>1, <1>5, <1>6, <1>7, <1>8 DEF IInv

-----------------------------------------------------------------------------
(* The pointers that page_insert and page_remove keep are good: what they  *)
(* read and write through them is the entry that the MMU finds.            *)

(* Setting a pointer leaves the rest of the call as it is.                 *)
LEMMA PointerSet ==
  ASSUME call \in Calls, call.op = "insert", NEW t \in Pages \cup {NULL},
         \/ call' = [call EXCEPT !.pte = t] \/ call' = [call EXCEPT !.old = t]
         \/ call' = call
  PROVE  /\ call' \in Calls /\ call'.op = "insert" /\ call'.pp = call.pp
         /\ call'.va = call.va /\ call'.perm = call.perm
         /\ call' = [call EXCEPT !.pte = t] => call'.pte = t
         /\ call' = [call EXCEPT !.old = t] => call'.old = t /\ call'.pte = call.pte
PROOF
<1>1. call \in [op : {"insert"}, pp : Pages, va : VAs, perm : Perms,
                pte : Pages \cup {NULL}, old : Pages \cup {NULL}]
  BY DEF Calls
<1> QED BY <1>1 DEF Calls

LEMMA InsertIncrefIs ==
  ASSUME IInv, InsertIncref
  PROVE  /\ pc = "incref" /\ incref(call.pp)
         /\ pc' = IF PTE(call.va) # NULL THEN "decref" ELSE "store"
         /\ call \in Calls /\ call.op = "insert"
         /\ call' \in Calls /\ call'.op = "insert" /\ call'.pp = call.pp
         /\ call'.va = call.va /\ call'.perm = call.perm
         /\ call'.pte = pgdir[call.va[1]]
         /\ pc' = "decref" => call'.old = pgdir[call.va[1]]
         /\ UNCHANGED <<free, table, pgdir, mem, tlb>>
PROOF
<1> USE DEF IInv
<1>1. /\ pc = "incref" /\ incref(call.pp) /\ RemovesOld
      /\ UNCHANGED <<free, table, pgdir, mem, tlb>>
  BY DEF InsertIncref
<1>2. /\ call \in Calls /\ call.op = "insert" /\ call.va[1] \in PDXs
      /\ pgdir[call.va[1]] # NULL /\ call.pte = pgdir[call.va[1]]
  BY <1>1 DEF TypeOK, Calls, CallState, VAs
<1>3. pgdir[call.va[1]] \in Pages \cup {NULL}
  BY <1>2 DEF TypeOK
<1>4. EntryAt(call.pte, call.va) = PTE(call.va)
  BY <1>2 DEF EntryAt, PTE
<1>5. CASE PTE(call.va) # NULL
  <2>1. pc' = "decref" /\ call' = [call EXCEPT !.old = pgdir[call.va[1]]]
    BY <1>1, <1>4, <1>5 DEF RemovesOld
  <2> QED BY <1>1, <1>2, <1>3, <1>5, <2>1, PointerSet
<1>6. CASE PTE(call.va) = NULL
  <2>1. pc' = "store" /\ call' = call
    BY <1>1, <1>4, <1>6 DEF RemovesOld
  <2> QED BY <1>1, <1>2, <1>6, <2>1
<1> QED BY <1>5, <1>6

LEMMA InsertStoreIs ==
  ASSUME IInv, InsertStore
  PROVE  SetPTE(call.va, Entry(call.pp, call.perm))
PROOF
<1>1. call.pte = pgdir[call.va[1]]
  BY DEF IInv, InsertStore, TypeOK, CallState
<1> QED BY <1>1 DEF InsertStore, StoreAt, SetPTE

LEMMA RemoveDecrefIs ==
  ASSUME IInv, RemoveDecref
  PROVE  page_decref(PTE(call.va).page)
PROOF
<1>1. call.old = pgdir[call.va[1]] /\ pgdir[call.va[1]] # NULL
  BY DEF IInv, RemoveDecref, CallState
<1>2. EntryAt(call.old, call.va) = PTE(call.va)
  BY <1>1 DEF EntryAt, PTE
<1> QED BY <1>2 DEF RemoveDecref

LEMMA RemoveClearIs ==
  ASSUME IInv, RemoveClear
  PROVE  SetPTE(call.va, NULL)
PROOF
<1>1. call.old = pgdir[call.va[1]]
  BY DEF IInv, RemoveClear, CallState
<1> QED BY <1>1 DEF RemoveClear, StoreAt, SetPTE

-----------------------------------------------------------------------------
(* One lemma for each step of the kernel.                                  *)

(* page_insert is called.                                                  *)
LEMMA CallInsertIInv == IInv /\ Inserts(RefMod - 1) => IInv'
PROOF
<1> SUFFICES ASSUME IInv, NEW pp \in Owned, NEW va \in VAs, NEW perm \in Perms,
                    pp_ref[pp] < RefMod - 1, CallInsert(pp, va, perm)
             PROVE  IInv'
  BY DEF Inserts
<1> USE DEF IInv
<1>1. /\ pc = "idle" /\ pc' = "walk"
      /\ call' = [op |-> "insert", pp |-> pp, va |-> va, perm |-> perm,
                  pte |-> NULL, old |-> NULL]
      /\ UNCHANGED <<free, pp_ref, table, pgdir, mem, tlb>>
  BY DEF CallInsert
<1>2. pp \in Pages
  BY PagesAssumption DEF Owned
<1>3. \A v \in VAs : PTE(v)' = PTE(v)
  BY <1>1, PTEFrame
<1>4. UNCHANGED MapNow
  BY <1>1, <1>3 DEF MapNow, Settled
<1>5. TypeOK'
  BY <1>1, <1>2 DEF TypeOK, Calls
<1>6. PagesSeparate'
  BY <1>1, <1>4, SeparateFrame
<1>7. TLBCoherent'
  BY <1>1, <1>3 DEF TLBCoherent
<1>8. CallState'
  BY <1>1 DEF CallState, TypeOK
<1>9. PpRefCountsMappings'
  <2>1. \A p \in InitialFree : InAdvance(p)' = InAdvance(p)
    BY <1>1 DEF InAdvance
  <2> QED BY <1>1, <1>4, <2>1, CountsFrame
<1> QED BY <1>5, <1>6, <1>7, <1>8, <1>9

(* page_remove is called on an address that is mapped.                     *)
LEMMA CallRemoveIInv == ASSUME NEW va \in VAs PROVE IInv /\ CallRemove(va) => IInv'
PROOF
<1> SUFFICES ASSUME IInv, CallRemove(va) PROVE IInv'
  OBVIOUS
<1> USE DEF IInv
<1>1. /\ pc = "idle" /\ pc' = "decref" /\ PTE(va) # NULL
      /\ call' = [op |-> "remove", va |-> va, old |-> pgdir[va[1]]]
      /\ UNCHANGED <<free, pp_ref, table, pgdir, mem, tlb>>
  BY DEF CallRemove
<1>2. \A v \in VAs : PTE(v)' = PTE(v)
  BY <1>1, PTEFrame
<1>3. UNCHANGED MapNow
  BY <1>1, <1>2 DEF MapNow, Settled
<1>4. TypeOK'
  <2>1. pgdir[va[1]] \in Pages
    BY <1>1 DEF PTE, TypeOK, VAs
  <2> QED BY <1>1, <2>1 DEF TypeOK, Calls
<1>5. PagesSeparate'
  BY <1>1, <1>3, SeparateFrame
<1>6. TLBCoherent'
  BY <1>1, <1>2 DEF TLBCoherent
<1>7. CallState'
  <2>1. pgdir[va[1]] # NULL
    BY <1>1 DEF PTE
  <2>2. call'.va = va /\ PTE(va)' # NULL
    BY <1>1, <1>2
  <2>3. PTE(call.va)' # NULL
    BY <2>2 DEF PTE
  <2> QED BY <1>1, <2>1, <2>2, <2>3 DEF CallState, TypeOK
<1>8. PpRefCountsMappings'
  <2>1. \A p \in InitialFree : InAdvance(p)' = InAdvance(p)
    BY <1>1 DEF InAdvance
  <2> QED BY <1>1, <1>3, <2>1, CountsFrame
<1> QED BY <1>4, <1>5, <1>6, <1>7, <1>8

(* pgdir_walk finds a page table, allocates one or fails.                  *)
LEMMA WalkIInv == IInv /\ Walk => IInv'
PROOF
<1> SUFFICES ASSUME IInv, Walk PROVE IInv'
  OBVIOUS
<1> USE DEF IInv
<1>1. /\ pc = "walk" /\ UNCHANGED <<pp_ref, pgdir, tlb>>
      /\ call \in Calls /\ call.op = "insert" /\ table = NULL
  BY DEF Walk, TypeOK
<1>2. ASSUME pgdir[call.va[1]] # NULL, pc' = "incref",
             UNCHANGED <<free, mem, table>>,
             call' = [call EXCEPT !.pte = pgdir[call.va[1]]]
      PROVE  IInv'
  <2>0. /\ call' \in Calls /\ call'.op = "insert" /\ call'.pp = call.pp
        /\ call'.va = call.va /\ call'.pte = pgdir[call.va[1]]
    <3>1. pgdir[call.va[1]] \in Pages \cup {NULL}
      BY <1>1 DEF TypeOK, Calls, VAs
    <3> QED BY <1>1, <1>2, <3>1, PointerSet
  <2>1. \A v \in VAs : PTE(v)' = PTE(v)
    BY <1>1, <1>2, PTEFrame
  <2>2. UNCHANGED MapNow
    BY <1>1, <1>2, <2>1 DEF MapNow, Settled
  <2>3. TypeOK' /\ CallState'
    BY <1>1, <1>2, <2>0 DEF TypeOK, CallState
  <2>4. PagesSeparate'
    BY <1>1, <1>2, <2>0, <2>2, SeparateFrame DEF PagesSeparate
  <2>5. TLBCoherent'
    BY <1>1, <1>2, <2>1 DEF TLBCoherent
  <2>6. PpRefCountsMappings'
    <3>1. \A p \in InitialFree : InAdvance(p)' = InAdvance(p)
      BY <1>1, <1>2 DEF InAdvance
    <3> QED BY <1>1, <1>2, <2>2, <3>1, CountsFrame
  <2> QED BY <2>3, <2>4, <2>5, <2>6
<1>3. ASSUME NEW p \in free, page_alloc(p, Cleared(p)), table' = p,
             pgdir[call.va[1]] = NULL, pc' = "install", UNCHANGED call
      PROVE  IInv'
  <2>1. /\ free' = free \ {p}
        /\ mem' = [mem EXCEPT ![p] = Zeroed]
        /\ p \in InitialFree /\ p \in Pages /\ p # NULL
    BY <1>3, PagesAssumption, NullAssumption DEF page_alloc, Cleared, TypeOK
  <2>2. p \notin Tables /\ p \notin Owned /\ Owned \subseteq Pages
    BY <1>3, PagesAssumption DEF PagesSeparate, Owned
  <2>3. \A d \in PDXs : pgdir[d] # p
    BY <2>1, <2>2 DEF Tables
  <2>4. \A v \in VAs : PTE(v)' = PTE(v)
    <3>1. \A d \in PDXs : pgdir[d] # NULL => mem'[pgdir[d]] = mem[pgdir[d]]
      BY <2>1, <2>3 DEF TypeOK
    <3> QED BY <1>1, <3>1, PTEFrame
  <2>5. UNCHANGED MapNow
    BY <1>1, <1>3, <2>4 DEF MapNow, Settled
  <2>6. Tables' = Tables \cup {p}
    BY <1>1, <1>3, <2>1 DEF Tables
  <2>7. Owned' = Owned
    BY <2>1, <2>2, <2>6 DEF Owned
  <2>8. TypeOK'
    <3>1. Zeroed \in [PTXs -> Words]
      BY DEF Zeroed, Words
    <3>2. mem' \in [Pages -> [PTXs -> Words]]
      BY <2>1, <3>1 DEF TypeOK
    <3> QED BY <1>1, <1>3, <2>1, <3>2 DEF TypeOK
  <2>9. PagesSeparate'
    <3>1. Tables' \cap free' = {} /\ Tables' \subseteq InitialFree
      BY <2>1, <2>6 DEF PagesSeparate
    <3>2. table' # NULL => \A d \in PDXs : pgdir'[d] # table'
      BY <1>1, <1>3, <2>3
    <3>3. \A va \in VAs : MapNow'[va] # NULL => MapNow'[va].page \in Owned'
      BY <2>5, <2>7 DEF PagesSeparate
    <3>4. call'.pp \in Owned'
      BY <1>1, <1>3, <2>7 DEF PagesSeparate
    <3> QED BY <1>1, <3>1, <3>2, <3>3, <3>4 DEF PagesSeparate
  <2>10. TLBCoherent'
    BY <1>1, <1>3, <2>4 DEF TLBCoherent
  <2>11. CallState'
    <3>1. mem'[p] = Zeroed
      BY <2>1 DEF TypeOK
    <3> QED BY <1>1, <1>3, <3>1 DEF CallState
  <2>12. PpRefCountsMappings'
    <3>1. \A q \in InitialFree : InAdvance(q)' = InAdvance(q)
      BY <1>1, <1>3 DEF InAdvance
    <3> QED BY <1>1, <2>5, <3>1, CountsFrame
  <2> QED BY <2>8, <2>9, <2>10, <2>11, <2>12
<1>4. ASSUME Return, UNCHANGED <<free, mem, table>> PROVE IInv'
  <2>1. \A v \in VAs : PTE(v)' = PTE(v)
    BY <1>1, <1>4, PTEFrame
  <2>2. pc' = "idle" /\ call' = NULL
    BY <1>4 DEF Return
  <2>3. UNCHANGED MapNow
    BY <1>1, <2>1, <2>2 DEF MapNow, Settled
  <2>4. TypeOK' /\ CallState'
    BY <1>1, <1>4, <2>2 DEF TypeOK, CallState
  <2>5. PagesSeparate'
    BY <1>1, <1>4, <2>2, <2>3, SeparateFrame
  <2>6. TLBCoherent'
    BY <1>1, <2>1, <2>2 DEF TLBCoherent
  <2>7. PpRefCountsMappings'
    <3>1. \A p \in InitialFree : InAdvance(p)' = InAdvance(p)
      BY <1>1, <2>2 DEF InAdvance
    <3> QED BY <1>1, <2>3, <3>1, CountsFrame
  <2> QED BY <2>4, <2>5, <2>6, <2>7
<1> QED BY <1>2, <1>3, <1>4 DEF Walk

(* pgdir_walk puts the new page table into the directory.                  *)
LEMMA InstallTableIInv == IInv /\ InstallTable => IInv'
PROOF
<1> SUFFICES ASSUME IInv, InstallTable PROVE IInv'
  OBVIOUS
<1> USE RefModAssumption, NullAssumption DEF IInv
<1> DEFINE d0 == call.va[1]
<1>1. /\ pc = "install" /\ pc' = "incref"
      /\ pp_ref' = [pp_ref EXCEPT ![table] = (pp_ref[table] + 1) % RefMod]
      /\ pgdir' = [pgdir EXCEPT ![d0] = table]
      /\ table' = NULL
      /\ call' = [call EXCEPT !.pte = table]
      /\ UNCHANGED <<free, mem, tlb>>
  BY DEF InstallTable, incref
<1>2. /\ call \in Calls /\ call.op = "insert" /\ call.va \in VAs
      /\ d0 \in PDXs /\ table \in Pages /\ table # NULL
      /\ pgdir[d0] = NULL /\ mem[table] = Zeroed
      /\ \A d \in PDXs : pgdir[d] # table
  BY <1>1 DEF TypeOK, Calls, VAs, CallState, PagesSeparate
<1>c. /\ call' \in Calls /\ call'.op = "insert" /\ call'.pp = call.pp
      /\ call'.va = call.va /\ call'.pte = table
  BY <1>1, <1>2, PointerSet
<1>3. table \in Tables /\ table \in InitialFree /\ table \notin Owned
  BY <1>2 DEF Tables, PagesSeparate, Owned
<1>4. \A d \in PDXs : pgdir'[d] = IF d = d0 THEN table ELSE pgdir[d]
  BY <1>1, <1>2 DEF TypeOK
<1>5. Tables' = Tables
  <2>1. \A t : t \in Tables <=> t = table \/ \E d \in PDXs : pgdir[d] # NULL /\ t = pgdir[d]
    BY <1>2 DEF Tables
  <2>2. \A t : t \in Tables' <=> \E d \in PDXs : pgdir'[d] # NULL /\ t = pgdir'[d]
    BY <1>1 DEF Tables
  <2> QED BY <1>2, <1>4, <2>1, <2>2
<1>6. Owned' = Owned
  BY <1>1, <1>5 DEF Owned
<1>7. \A v \in VAs : PTE(v)' = PTE(v)
  <2> SUFFICES ASSUME NEW v \in VAs PROVE PTE(v)' = PTE(v)
    OBVIOUS
  <2>1. v[1] \in PDXs /\ v[2] \in PTXs
    BY DEF VAs
  <2>2. PTE(v)' = IF pgdir'[v[1]] = NULL THEN NULL ELSE mem[pgdir'[v[1]]][v[2]]
    BY <1>1 DEF PTE
  <2>3. CASE v[1] = d0
    BY <1>2, <1>4, <2>1, <2>2, <2>3 DEF PTE, Zeroed
  <2>4. CASE v[1] # d0
    BY <1>4, <2>1, <2>2, <2>4 DEF PTE
  <2> QED BY <2>3, <2>4
<1>8. UNCHANGED MapNow
  BY <1>1, <1>7 DEF MapNow, Settled
<1>9. pp_ref[table] = 0
  <2>1. AsTable(table) = 0
    BY <1>2 DEF AsTable
  <2> QED BY <1>2, <1>3, <2>1, OthersUnmapped DEF PpRefCountsMappings
<1>10. pp_ref' = [pp_ref EXCEPT ![table] = 1]
  <2>1. (pp_ref[table] + 1) % RefMod = 1
    BY <1>9, ModSmall
  <2> QED BY <1>1, <2>1
<1>11. TypeOK'
  BY <1>1, <1>2, <1>10, <1>c DEF TypeOK
<1>12. PagesSeparate'
  <2>1. ASSUME NEW d \in PDXs, NEW e \in PDXs, pgdir'[d] = pgdir'[e], pgdir'[d] # NULL
        PROVE  d = e
    BY <1>2, <1>4, <2>1 DEF PagesSeparate
  <2>2. call'.pp \in Owned'
    BY <1>1, <1>2, <1>6, <1>c DEF PagesSeparate
  <2> QED BY <1>1, <1>5, <1>6, <1>8, <2>1, <2>2 DEF PagesSeparate
<1>13. TLBCoherent'
  BY <1>1, <1>7 DEF TLBCoherent
<1>14. CallState'
  <2>1. pgdir'[call'.va[1]] # NULL /\ call'.pte = pgdir'[call'.va[1]]
    BY <1>1, <1>2, <1>4, <1>c
  <2>2. pp_ref'[call'.pp] < RefMod - 1
    <3>1. call.pp \in Owned /\ call.pp # table /\ call.pp \in Pages
      BY <1>1, <1>2, <1>3 DEF PagesSeparate, Calls
    <3> QED BY <1>1, <1>10, <1>c, <3>1 DEF CallState, TypeOK
  <2> QED BY <1>1, <1>c, <2>1, <2>2 DEF CallState
<1>15. PpRefCountsMappings'
  <2> SUFFICES ASSUME NEW p \in InitialFree
               PROVE  pp_ref'[p] = Cardinality(Mappings(p)') + AsTable(p)' + InAdvance(p)'
    BY DEF PpRefCountsMappings
  <2>1. Mappings(p)' = Mappings(p)
    BY <1>8 DEF Mappings
  <2>2. InAdvance(p)' = 0 /\ InAdvance(p) = 0 /\ p \in Pages
    BY <1>1, PagesAssumption DEF InAdvance
  <2>3. CASE p = table
    <3>1. AsTable(p)' = 1
      BY <1>2, <1>4, <2>3 DEF AsTable
    <3>2. Cardinality(Mappings(p)) = 0
      BY <1>2, <1>3, <2>3, OthersUnmapped
    <3>3. pp_ref'[p] = 1
      BY <1>2, <1>10, <2>3 DEF TypeOK
    <3> QED BY <2>1, <2>2, <3>1, <3>2, <3>3
  <2>4. CASE p # table
    <3>1. AsTable(p)' = AsTable(p)
      <4>1. (\E d \in PDXs : pgdir'[d] = p) <=> (\E d \in PDXs : pgdir[d] = p)
        BY <1>2, <1>4, <2>2, <2>4
      <4> QED BY <4>1 DEF AsTable
    <3>2. pp_ref'[p] = pp_ref[p]
      BY <1>10, <2>2, <2>4 DEF TypeOK
    <3> QED BY <2>1, <2>2, <3>1, <3>2 DEF PpRefCountsMappings
  <2> QED BY <2>3, <2>4
<1> QED BY <1>11, <1>12, <1>13, <1>14, <1>15

(* page_insert counts its page; with nothing to remove the new mapping     *)
(* takes effect here.                                                      *)
LEMMA InsertIncrefIInv == IInv /\ InsertIncref => IInv'
PROOF
<1> SUFFICES ASSUME IInv, InsertIncref PROVE IInv'
  OBVIOUS
<1> USE RefModAssumption, NullAssumption DEF IInv
<1> DEFINE v == call.va
           pp == call.pp
<1>1. /\ pc = "incref"
      /\ pp_ref' = [pp_ref EXCEPT ![pp] = (pp_ref[pp] + 1) % RefMod]
      /\ pc' = IF PTE(v) # NULL THEN "decref" ELSE "store"
      /\ call' \in Calls /\ call'.op = "insert" /\ call'.pp = pp
      /\ call'.va = v /\ call'.perm = call.perm /\ call'.pte = pgdir[v[1]]
      /\ pc' = "decref" => call'.old = pgdir[v[1]]
      /\ UNCHANGED <<free, table, pgdir, mem, tlb>>
  BY InsertIncrefIs DEF incref
<1>2. /\ call \in Calls /\ call.op = "insert" /\ v \in VAs /\ pp \in Pages
      /\ call.perm \in Perms /\ pp \in Owned /\ pgdir[v[1]] # NULL
      /\ pp_ref[pp] \in 0 .. RefMod - 1 /\ pp_ref[pp] < RefMod - 1
  BY <1>1 DEF TypeOK, Calls, CallState, PagesSeparate
<1>3. pp_ref' = [pp_ref EXCEPT ![pp] = pp_ref[pp] + 1]
  <2>1. pp_ref[pp] + 1 \in 0 .. RefMod - 1
    BY <1>2
  <2>2. (pp_ref[pp] + 1) % RefMod = pp_ref[pp] + 1
    BY <2>1, ModSmall
  <2> QED BY <1>1, <2>2
<1>4. \A w \in VAs : PTE(w)' = PTE(w)
  BY <1>1, PTEFrame
<1>5. Tables' = Tables /\ Owned' = Owned
  BY <1>1, TablesFrame DEF Owned
<1>6. TypeOK'
  BY <1>1, <1>2, <1>3 DEF TypeOK
<1>7. TLBCoherent'
  BY <1>1, <1>4 DEF TLBCoherent
<1>8. PTE(call.va)' = PTE(call.va)
  <2>1. PICK w \in VAs : w = v
    BY <1>2
  <2>2. PTE(w)' = PTE(w)
    BY <1>4
  <2>3. call'.va = w
    BY <1>1, <2>1
  <2>4. PTE(call.va)' = PTE(w)'
    BY <2>3 DEF PTE
  <2>5. PTE(call.va) = PTE(w)
    BY <2>1
  <2> QED BY <2>2, <2>4, <2>5
<1>9. CallState'
  BY <1>1, <1>2, <1>8 DEF CallState
<1>10. MapNow = [w \in VAs |-> PTE(w)]
  BY <1>1, MapNowUnsettled
<1>11. \A p \in InitialFree : p \in Pages /\ AsTable(p)' = AsTable(p) /\ InAdvance(p) = 0
  BY <1>1, PagesAssumption DEF AsTable, InAdvance
<1>12. \A p \in InitialFree : pp_ref'[p] = IF p = pp THEN pp_ref[p] + 1 ELSE pp_ref[p]
  BY <1>2, <1>3, <1>11 DEF TypeOK
<1>13. CASE PTE(v) # NULL
  <2>1. UNCHANGED MapNow
    BY <1>1, <1>4, <1>13 DEF MapNow, Settled
  <2>2. PagesSeparate'
    BY <1>1, <1>2, <2>1, SeparateFrame
  <2>3. PpRefCountsMappings'
    <3>1. \A p \in InitialFree : InAdvance(p)' = IF p = pp THEN 1 ELSE 0
      BY <1>1, <1>2, <1>13 DEF InAdvance
    <3>2. \A p \in InitialFree : Mappings(p)' = Mappings(p)
      BY <2>1 DEF Mappings
    <3>3. \A p \in InitialFree : Cardinality(Mappings(p)) \in Nat /\ AsTable(p) \in Nat
      BY MappingsType, CountOfVAs DEF AsTable
    <3> QED BY <1>11, <1>12, <3>1, <3>2, <3>3 DEF PpRefCountsMappings
  <2> QED BY <1>6, <1>7, <1>9, <2>2, <2>3
<1>14. CASE PTE(v) = NULL
  <2>1. pc' = "store"
    BY <1>1, <1>14
  <2>2. \A w \in VAs : MapNow'[w] = IF w = v THEN Entry(pp, call.perm) ELSE MapNow[w]
    BY <1>1, <1>2, <1>4, <1>10, <2>1 DEF MapNow, Settled
  <2>3. PagesSeparate'
    <3>1. \A w \in VAs : MapNow'[w] # NULL => MapNow'[w].page \in Owned'
      BY <1>2, <1>5, <2>2 DEF PagesSeparate, Entry
    <3> QED BY <1>1, <1>2, <1>5, <3>1 DEF PagesSeparate
  <2>4. ASSUME NEW p \in InitialFree
        PROVE  pp_ref'[p] = Cardinality(Mappings(p)') + AsTable(p)' + InAdvance(p)'
    <3>1. InAdvance(p)' = 0
      BY <2>1 DEF InAdvance
    <3>2. Mappings(p) \in SUBSET VAs /\ Cardinality(Mappings(p)) \in Nat /\ AsTable(p) \in Nat
      BY MappingsType, CountOfVAs DEF AsTable
    <3>3. CASE p = pp
      <4>1. v \notin Mappings(p)
        BY <1>2, <1>10, <1>14 DEF Mappings
      <4>2. Mappings(p)' = Mappings(p) \cup {v}
        <5>1. Entry(pp, call.perm) # NULL /\ Entry(pp, call.perm).page = p
          BY <1>2, <3>3 DEF Entry, Entries
        <5>2. \A w \in VAs : w \in Mappings(p)' <=> MapNow'[w] # NULL /\ MapNow'[w].page = p
          BY DEF Mappings
        <5>3. \A w \in VAs : w \in Mappings(p) <=> MapNow[w] # NULL /\ MapNow[w].page = p
          BY DEF Mappings
        <5>4. Mappings(p)' \subseteq VAs
          BY DEF Mappings
        <5> QED BY <1>2, <2>2, <3>2, <5>1, <5>2, <5>3, <5>4
      <4>3. Cardinality(Mappings(p)') = Cardinality(Mappings(p)) + 1
        BY <1>2, <3>2, <4>1, <4>2, CountAdd
      <4> QED BY <1>11, <1>12, <3>1, <3>2, <3>3, <4>3 DEF PpRefCountsMappings
    <3>4. CASE p # pp
      <4>1. Entry(pp, call.perm).page # p
        BY <3>4 DEF Entry
      <4>2. Mappings(p)' = Mappings(p)
        BY <1>10, <1>14, <2>2, <4>1 DEF Mappings
      <4> QED BY <1>11, <1>12, <3>1, <3>2, <3>4, <4>2 DEF PpRefCountsMappings
    <3> QED BY <3>3, <3>4
  <2>5. PpRefCountsMappings'
    BY <2>4 DEF PpRefCountsMappings
  <2> QED BY <1>6, <1>7, <1>9, <2>3, <2>5
<1> QED BY <1>13, <1>14

(* page_insert stores the entry of a mapping that already counts.          *)
LEMMA InsertStoreIInv == IInv /\ InsertStore => IInv'
PROOF
<1> SUFFICES ASSUME IInv, InsertStore PROVE IInv'
  OBVIOUS
<1> USE NullAssumption DEF IInv
<1> DEFINE v == call.va
           e == Entry(call.pp, call.perm)
<1>1. /\ pc = "store" /\ SetPTE(v, e) /\ pc' = "idle" /\ call' = NULL
      /\ UNCHANGED <<free, pp_ref, table, pgdir, tlb>>
  BY InsertStoreIs DEF InsertStore, Return
<1>2. /\ call.op = "insert" /\ v \in VAs /\ e \in Words /\ table = NULL
      /\ pgdir[v[1]] # NULL /\ PTE(v) = NULL
  BY <1>1 DEF TypeOK, Calls, CallState, Entry, Entries, Words
<1> HIDE DEF e
<1>3. /\ \A w \in VAs : PTE(w)' = IF w = v THEN e ELSE PTE(w)
      /\ mem' \in [Pages -> [PTXs -> Words]]
  BY <1>1, <1>2, PTEStore
<1>4. UNCHANGED MapNow
  <2>1. MapNow = [w \in VAs |-> IF w # v THEN PTE(w) ELSE e]
    BY <1>1, <1>2, MapNowSettled DEF e
  <2>2. MapNow' = [w \in VAs |-> PTE(w)']
    BY <1>1 DEF MapNow, Settled
  <2> QED BY <1>3, <2>1, <2>2
<1>5. TypeOK'
  BY <1>1, <1>2, <1>3 DEF TypeOK
<1>6. PagesSeparate'
  BY <1>1, <1>4, SeparateFrame
<1>7. TLBCoherent'
  BY <1>1, <1>2, <1>3 DEF TLBCoherent
<1>8. CallState'
  BY <1>1, <1>2 DEF CallState
<1>9. PpRefCountsMappings'
  <2>1. \A p \in InitialFree : InAdvance(p)' = InAdvance(p)
    BY <1>1 DEF InAdvance
  <2> QED BY <1>1, <1>4, <2>1, CountsFrame
<1> QED BY <1>5, <1>6, <1>7, <1>8, <1>9

(* page_decref in page_remove: the old mapping goes, the new one takes     *)
(* effect, and the page is freed when that was its last mapping.           *)
LEMMA RemoveDecrefIInv == IInv /\ RemoveDecref => IInv'
PROOF
<1> SUFFICES ASSUME IInv, RemoveDecref PROVE IInv'
  OBVIOUS
<1> USE RefModAssumption, NullAssumption DEF IInv
<1> DEFINE v == call.va
           new == IF call.op = "insert" THEN Entry(call.pp, call.perm) ELSE NULL
           Becomes(p) == call.op = "insert" /\ call.pp = p
<1>1. /\ pc = "decref" /\ pc' = "clear" /\ page_decref(PTE(v).page)
      /\ UNCHANGED <<table, pgdir, mem, tlb, call>>
  BY RemoveDecrefIs DEF RemoveDecref
<1>2. /\ call \in Calls /\ v \in VAs /\ table = NULL
      /\ pgdir[v[1]] # NULL /\ PTE(v) # NULL
      /\ call.op = "insert" => call.pp \in Owned /\ call.pp \in Pages /\ call.perm \in Perms
  BY <1>1 DEF TypeOK, Calls, CallState, PagesSeparate
<1>3. MapNow = [w \in VAs |-> PTE(w)]
  BY <1>1, MapNowUnsettled
<1>4. PICK q \in InitialFree : q = PTE(v).page /\ q \in Owned /\ q \in Pages /\ q \notin Tables
  BY <1>2, <1>3, PagesAssumption DEF PagesSeparate, Owned
<1>5. \A w \in VAs : PTE(w)' = PTE(w)
  BY <1>1, PTEFrame
<1>6. \A w \in VAs : MapNow'[w] = IF w = v THEN new ELSE MapNow[w]
  BY <1>1, <1>2, <1>3, <1>5 DEF MapNow, Settled
<1>7. new # NULL => call.op = "insert" /\ new.page = call.pp
  BY DEF Entry
<1>8. call.op = "insert" => new # NULL
  BY <1>2 DEF Entry, Entries
<1> HIDE DEF new
<1>9. \A p : Mappings(p) \in SUBSET VAs /\ Cardinality(Mappings(p)) \in Nat
             /\ IsFiniteSet(Mappings(p))
  BY MappingsType, CountOfVAs
<1>10. v \in Mappings(q) /\ Cardinality(Mappings(q)) > 0
  <2>1. v \in Mappings(q)
    BY <1>2, <1>3, <1>4 DEF Mappings
  <2> QED BY <1>9, <2>1, CountPositive
<1>11. AsTable(q) = 0
  BY <1>2, <1>4 DEF AsTable, Tables
<1>12. \A p : AsTable(p) \in Nat /\ AsTable(p)' = AsTable(p) /\ InAdvance(p)' = 0
              /\ InAdvance(p) = IF Becomes(p) THEN 1 ELSE 0
  BY <1>1 DEF AsTable, InAdvance
<1> HIDE DEF Becomes
<1>13. /\ pp_ref[q] \in 1 .. RefMod - 1
       /\ pp_ref' = [pp_ref EXCEPT ![q] = pp_ref[q] - 1]
       /\ free' = IF pp_ref[q] - 1 = 0 THEN free \cup {q} ELSE free
  <2>1. pp_ref[q] = Cardinality(Mappings(q)) + AsTable(q) + InAdvance(q)
    BY <1>4 DEF PpRefCountsMappings
  <2>2. pp_ref[q] > 0
    BY <1>9, <1>10, <1>11, <1>12, <2>1
  <2>3. pp_ref[q] - 1 \in 0 .. RefMod - 1 /\ pp_ref[q] \in 1 .. RefMod - 1
    BY <1>4, <2>2 DEF TypeOK
  <2>4. (pp_ref[q] - 1) % RefMod = pp_ref[q] - 1
    BY <2>3, ModSmall
  <2> QED BY <1>1, <1>4, <2>3, <2>4 DEF page_decref
<1>14. /\ \A p \in Pages : p # q => pp_ref'[p] = pp_ref[p]
       /\ pp_ref'[q] = pp_ref[q] - 1
  BY <1>4, <1>13 DEF TypeOK
<1>15. \A p : /\ Mappings(p)' \subseteq VAs
              /\ \A w \in VAs : w \in Mappings(p) <=> MapNow[w] # NULL /\ MapNow[w].page = p
              /\ \A w \in VAs : w \in Mappings(p)' <=> MapNow'[w] # NULL /\ MapNow'[w].page = p
  BY DEF Mappings
<1>16. \A p : v \in Mappings(p)' <=> Becomes(p)
  BY <1>2, <1>6, <1>7, <1>8, <1>15 DEF Becomes
<1>17. \A p : \A w \in VAs : w # v => (w \in Mappings(p)' <=> w \in Mappings(p))
  BY <1>6, <1>15
<1>18. \A p : v \in Mappings(p) <=> p = q
  BY <1>2, <1>3, <1>4, <1>15
<1>19. ASSUME NEW p \in InitialFree
       PROVE  pp_ref'[p] = Cardinality(Mappings(p)') + AsTable(p)' + InAdvance(p)'
  <2>1. pp_ref[p] = Cardinality(Mappings(p)) + AsTable(p) + InAdvance(p) /\ p \in Pages
    BY PagesAssumption DEF PpRefCountsMappings
  <2>2. CASE p # q /\ ~Becomes(p)
    <3>1. Mappings(p)' = Mappings(p)
      <4>1. \A w \in VAs : w \in Mappings(p)' <=> w \in Mappings(p)
        BY <1>16, <1>17, <1>18, <2>2
      <4>2. Mappings(p)' \subseteq VAs /\ Mappings(p) \subseteq VAs
        BY DEF Mappings
      <4> QED BY <4>1, <4>2
    <3> QED BY <1>12, <1>14, <2>1, <2>2, <3>1
  <2>3. CASE p # q /\ Becomes(p)
    <3>1. Mappings(p)' = Mappings(p) \cup {v} /\ v \notin Mappings(p)
      BY <1>2, <1>9, <1>15, <1>16, <1>17, <1>18, <2>3
    <3>2. Cardinality(Mappings(p)') = Cardinality(Mappings(p)) + 1
      BY <1>2, <1>9, <3>1, CountAdd
    <3> QED BY <1>9, <1>12, <1>14, <2>1, <2>3, <3>2
  <2>4. CASE p = q /\ ~Becomes(p)
    <3>1. Mappings(p)' = Mappings(p) \ {v} /\ v \in Mappings(p)
      BY <1>9, <1>15, <1>16, <1>17, <1>18, <2>4
    <3>2. Cardinality(Mappings(p)') = Cardinality(Mappings(p)) - 1
      BY <1>9, <3>1, CountRemove
    <3> QED BY <1>9, <1>12, <1>14, <2>1, <2>4, <3>2
  <2>5. CASE p = q /\ Becomes(p)
    <3>1. Mappings(p)' = Mappings(p)
      <4>1. \A w \in VAs : w \in Mappings(p)' <=> w \in Mappings(p)
        BY <1>16, <1>17, <1>18, <2>5
      <4>2. Mappings(p)' \subseteq VAs /\ Mappings(p) \subseteq VAs
        BY DEF Mappings
      <4> QED BY <4>1, <4>2
    <3> QED BY <1>9, <1>12, <1>14, <2>1, <2>5, <3>1
  <2> QED BY <2>2, <2>3, <2>4, <2>5
<1>20. PpRefCountsMappings'
  BY <1>19 DEF PpRefCountsMappings
<1>21. TypeOK'
  <2>1. pp_ref' \in [Pages -> 0 .. RefMod - 1]
    BY <1>4, <1>13 DEF TypeOK
  <2>2. free' \subseteq InitialFree
    BY <1>4, <1>13 DEF TypeOK
  <2> QED BY <1>1, <1>2, <2>1, <2>2 DEF TypeOK
<1>22. TLBCoherent'
  BY <1>1, <1>5 DEF TLBCoherent
<1>23. CallState'
  BY <1>1, <1>2 DEF CallState
<1>24. PagesSeparate'
  <2>1. Tables' = Tables
    BY <1>1, TablesFrame
  <2>2. Tables' \cap free' = {} /\ Tables' \subseteq InitialFree
    BY <1>4, <1>13, <2>1 DEF PagesSeparate
  <2>3. \A w \in VAs : MapNow'[w] # NULL => MapNow'[w].page \in Owned
    BY <1>2, <1>6, <1>7 DEF PagesSeparate
  <2>4. ASSUME NEW p \in Owned, Mappings(p)' # {} PROVE p \in Owned'
    <3>1. CASE pp_ref[q] - 1 # 0
      BY <1>13, <2>1, <3>1 DEF Owned
    <3>2. CASE pp_ref[q] - 1 = 0
      <4>1. pp_ref'[q] = 0
        BY <1>14, <3>2
      <4>2. Cardinality(Mappings(q)') = 0
        <5>1. Cardinality(Mappings(q)') \in Nat
          BY <1>15, CountOfVAs
        <5>2. pp_ref'[q] = Cardinality(Mappings(q)') + AsTable(q)' + InAdvance(q)'
          BY <1>4, <1>19
        <5>3. AsTable(q)' \in Nat /\ InAdvance(q)' = 0
          BY <1>12
        <5> QED BY <4>1, <5>1, <5>2, <5>3
      <4>3. Mappings(q)' = {}
        <5>1. ASSUME NEW w \in Mappings(q)' PROVE FALSE
          <6>1. Cardinality(Mappings(q)') > 0
            BY <1>15, CountPositive
          <6> QED BY <4>2, <6>1
        <5> QED BY <5>1
      <4>4. p # q
        BY <2>4, <4>3
      <4> QED BY <1>13, <2>1, <3>2, <4>4 DEF Owned
    <3> QED BY <3>1, <3>2
  <2>5. ASSUME NEW w \in VAs, MapNow'[w] # NULL PROVE MapNow'[w].page \in Owned'
    <3>1. PICK p \in Owned : p = MapNow'[w].page
      BY <2>3, <2>5
    <3>2. w \in Mappings(p)'
      BY <2>5, <3>1 DEF Mappings
    <3> QED BY <2>4, <3>1, <3>2
  <2>6. ASSUME call'.op = "insert" PROVE call'.pp \in Owned'
    <3>1. Becomes(call.pp)
      BY <1>1, <2>6 DEF Becomes
    <3> QED BY <1>1, <1>2, <1>16, <2>4, <2>6, <3>1
  <2> QED BY <1>1, <2>2, <2>5, <2>6 DEF PagesSeparate
<1> QED BY <1>20, <1>21, <1>22, <1>23, <1>24

(* page_remove clears an entry that no longer counts.                      *)
LEMMA RemoveClearIInv == IInv /\ RemoveClear => IInv'
PROOF
<1> SUFFICES ASSUME IInv, RemoveClear PROVE IInv'
  OBVIOUS
<1> USE DEF IInv
<1> DEFINE v == call.va
<1>1. /\ pc = "clear" /\ SetPTE(v, NULL) /\ pc' = "invlpg"
      /\ UNCHANGED <<free, pp_ref, table, pgdir, tlb, call>>
  BY RemoveClearIs DEF RemoveClear
<1>2. /\ call \in Calls /\ v \in VAs /\ table = NULL /\ pgdir[v[1]] # NULL
      /\ NULL \in Words
  BY <1>1 DEF TypeOK, Calls, CallState, Words
<1>3. /\ \A w \in VAs : PTE(w)' = IF w = v THEN NULL ELSE PTE(w)
      /\ mem' \in [Pages -> [PTXs -> Words]]
  BY <1>1, <1>2, PTEStore
<1>4. UNCHANGED MapNow
  BY <1>1, <1>2, <1>3 DEF MapNow, Settled
<1>5. TypeOK'
  BY <1>1, <1>2, <1>3 DEF TypeOK
<1>6. PagesSeparate'
  BY <1>1, <1>4, SeparateFrame DEF PagesSeparate
<1>7. TLBCoherent'
  BY <1>1, <1>3 DEF TLBCoherent
<1>8. CallState'
  <2>1. PTE(call.va)' = NULL
    BY <1>1, <1>2, <1>3
  <2> QED BY <1>1, <1>2, <2>1 DEF CallState
<1>9. PpRefCountsMappings'
  <2>1. \A p \in InitialFree : InAdvance(p)' = InAdvance(p)
    BY <1>1 DEF InAdvance
  <2> QED BY <1>1, <1>4, <2>1, CountsFrame
<1> QED BY <1>5, <1>6, <1>7, <1>8, <1>9

(* tlb_invalidate, and the return to page_insert or to the caller.         *)
LEMMA RemoveInvalidateIInv == IInv /\ RemoveInvalidate => IInv'
PROOF
<1> SUFFICES ASSUME IInv, RemoveInvalidate PROVE IInv'
  OBVIOUS
<1> USE NullAssumption DEF IInv
<1> DEFINE v == call.va
<1>1. /\ pc = "invlpg" /\ tlb' = [tlb EXCEPT ![v] = NULL]
      /\ UNCHANGED <<free, pp_ref, table, pgdir, mem>>
      /\ \/ call.op = "insert" /\ pc' = "store" /\ call' = call
         \/ call.op # "insert" /\ pc' = "idle" /\ call' = NULL
  BY DEF RemoveInvalidate, tlb_invalidate, RemoveReturns, Return
<1>2. /\ call \in Calls /\ v \in VAs /\ table = NULL /\ pgdir[v[1]] # NULL
      /\ PTE(v) = NULL /\ NULL \in Words
  BY <1>1 DEF TypeOK, Calls, CallState, Words
<1>3. \A w \in VAs : PTE(w)' = PTE(w)
  BY <1>1, PTEFrame
<1>4. UNCHANGED MapNow
  BY <1>1, <1>2, <1>3 DEF MapNow, Settled
<1>5. TypeOK'
  BY <1>1, <1>2 DEF TypeOK
<1>6. PagesSeparate'
  BY <1>1, <1>4, SeparateFrame DEF PagesSeparate
<1>7. TLBCoherent'
  BY <1>1, <1>2, <1>3 DEF TLBCoherent, TypeOK
<1>8. CallState'
  <2>1. call' = call => PTE(call.va)' = NULL
    BY <1>2, <1>3
  <2> QED BY <1>1, <1>2, <2>1 DEF CallState
<1>9. PpRefCountsMappings'
  <2>1. \A p \in InitialFree : InAdvance(p)' = InAdvance(p)
    BY <1>1 DEF InAdvance
  <2> QED BY <1>1, <1>4, <2>1, CountsFrame
<1> QED BY <1>5, <1>6, <1>7, <1>8, <1>9

-----------------------------------------------------------------------------
(* Callers, programs and the MMU.                                          *)

(* What only memory outside the page tables, the free pages or the TLB     *)
(* may change, between calls, leaves the call alone.                       *)
LEMMA IdleCallState ==
  ASSUME pc' = "idle", UNCHANGED table, table = NULL
  PROVE  CallState'
  BY DEF CallState

(* A caller gets a page: it was free, and is neither mapped nor a table.   *)
LEMMA ClientAllocIInv == IInv /\ ClientAlloc => IInv'
PROOF
<1> SUFFICES ASSUME IInv, NEW p \in free,
                    NEW contents \in {Cleared(p), mem[p]},
                    pc = "idle", page_alloc(p, contents),
                    UNCHANGED <<pp_ref, table, pgdir, tlb, pc, call>>
             PROVE  IInv'
  BY DEF ClientAlloc
<1> USE NullAssumption, PagesAssumption DEF IInv
<1>1. /\ free' = free \ {p} /\ mem' = [mem EXCEPT ![p] = contents]
      /\ p \in Pages /\ p \notin Tables /\ table = NULL
  BY DEF page_alloc, TypeOK, PagesSeparate
<1>2. \A v \in VAs : PTE(v)' = PTE(v)
  <2>1. \A d \in PDXs : pgdir[d] # NULL => mem'[pgdir[d]] = mem[pgdir[d]]
    BY <1>1 DEF TypeOK, Tables
  <2> QED BY <2>1, PTEFrame
<1>3. UNCHANGED MapNow
  BY <1>2 DEF MapNow, Settled
<1>4. TypeOK'
  <2>1. contents \in [PTXs -> Words]
    BY <1>1 DEF TypeOK, Cleared, Zeroed, Words
  <2> QED BY <1>1, <2>1 DEF TypeOK
<1>5. Tables' = Tables /\ Owned \subseteq Owned'
  BY <1>1, TablesFrame DEF Owned
<1>6. PagesSeparate'
  BY <1>1, <1>3, <1>5 DEF PagesSeparate
<1>7. TLBCoherent'
  BY <1>2 DEF TLBCoherent
<1>8. PpRefCountsMappings'
  <2>1. \A q \in InitialFree : InAdvance(q)' = InAdvance(q)
    BY DEF InAdvance
  <2> QED BY <1>3, <2>1, CountsFrame
<1> QED BY <1>1, <1>4, <1>6, <1>7, <1>8, IdleCallState

(* A page that is given back by hand has a count of 0 and no mappings.     *)
LEMMA ClientFreeIInv == IInv /\ ClientFree => IInv'
PROOF
<1> SUFFICES ASSUME IInv, NEW p \in Owned, pp_ref[p] = 0, free' = free \cup {p},
                    pc = "idle", UNCHANGED <<pp_ref, table, pgdir, mem, tlb, pc, call>>
             PROVE  IInv'
  BY DEF ClientFree
<1> USE DEF IInv
<1>1. p \in InitialFree /\ p \notin Tables /\ table = NULL
  BY DEF Owned, TypeOK
<1>2. \A v \in VAs : PTE(v)' = PTE(v)
  BY PTEFrame
<1>3. UNCHANGED MapNow
  BY <1>2 DEF MapNow, Settled
<1>4. TypeOK'
  BY <1>1 DEF TypeOK
<1>5. Mappings(p) = {}
  <2>1. Cardinality(Mappings(p)) \in Nat /\ AsTable(p) \in Nat /\ InAdvance(p) = 0
    BY MappingsType, CountOfVAs DEF AsTable, InAdvance
  <2>2. Cardinality(Mappings(p)) = 0
    <3>1. pp_ref[p] = Cardinality(Mappings(p)) + AsTable(p) + InAdvance(p)
      BY <1>1 DEF PpRefCountsMappings
    <3> QED BY <2>1, <3>1
  <2>3. ASSUME NEW w \in Mappings(p) PROVE FALSE
    <3>1. Cardinality(Mappings(p)) > 0
      BY MappingsType, CountPositive
    <3> QED BY <2>2, <3>1
  <2> QED BY <2>3
<1>6. Tables' = Tables /\ Owned' = Owned \ {p}
  BY <1>1, TablesFrame DEF Owned
<1>7. PagesSeparate'
  <2>1. \A v \in VAs : MapNow[v] # NULL => MapNow[v].page # p
    BY <1>5 DEF Mappings
  <2>2. \A v \in VAs : MapNow'[v] # NULL => MapNow'[v].page \in Owned'
    BY <1>3, <1>6, <2>1 DEF PagesSeparate
  <2>3. Tables' \cap free' = {}
    BY <1>1, <1>6 DEF PagesSeparate
  <2> QED BY <1>1, <1>6, <2>2, <2>3 DEF PagesSeparate
<1>8. TLBCoherent'
  BY <1>2 DEF TLBCoherent
<1>9. PpRefCountsMappings'
  <2>1. \A q \in InitialFree : InAdvance(q)' = InAdvance(q)
    BY DEF InAdvance
  <2> QED BY <1>3, <2>1, CountsFrame
<1> QED BY <1>1, <1>4, <1>7, <1>8, <1>9, IdleCallState

(* A store to a page that callers own changes no translation.              *)
LEMMA OwnedStoreIInv ==
  ASSUME IInv, NEW p \in Owned, NEW x \in PTXs, NEW w \in DataWords,
         mem' = [mem EXCEPT ![p][x] = w], pc = "idle",
         UNCHANGED <<free, pp_ref, table, pgdir, tlb, pc, call>>
  PROVE  IInv'
PROOF
<1> USE DEF IInv
<1>1. p \in Pages /\ p \notin Tables /\ table = NULL /\ w \in Words
  BY PagesAssumption, DataAssumption DEF Owned, TypeOK
<1>2. \A v \in VAs : PTE(v)' = PTE(v)
  <2>1. \A d \in PDXs : pgdir[d] # NULL => mem'[pgdir[d]] = mem[pgdir[d]]
    BY <1>1 DEF TypeOK, Tables
  <2> QED BY <2>1, PTEFrame
<1>3. UNCHANGED MapNow
  BY <1>2 DEF MapNow, Settled
<1>4. TypeOK'
  <2>1. mem' = [mem EXCEPT ![p] = [mem[p] EXCEPT ![x] = w]]
    OBVIOUS
  <2>2. mem' \in [Pages -> [PTXs -> Words]]
    BY <1>1, <2>1 DEF TypeOK
  <2> QED BY <1>1, <2>2 DEF TypeOK
<1>5. PagesSeparate'
  BY <1>1, <1>3, SeparateFrame
<1>6. TLBCoherent'
  BY <1>2 DEF TLBCoherent
<1>7. PpRefCountsMappings'
  <2>1. \A q \in InitialFree : InAdvance(q)' = InAdvance(q)
    BY DEF InAdvance
  <2> QED BY <1>3, <2>1, CountsFrame
<1> QED BY <1>1, <1>4, <1>5, <1>6, <1>7, IdleCallState

(* Between calls the TLB translates only to pages that callers own.        *)
LEMMA TLBReachesOwned ==
  ASSUME IInv, pc = "idle", NEW va \in VAs, tlb[va] # NULL
  PROVE  tlb[va] = MapNow[va] /\ tlb[va].page \in Owned
PROOF
<1>1. tlb[va] = PTE(va)
  BY DEF IInv, TLBCoherent
<1>2. MapNow[va] = PTE(va)
  BY MapNowUnsettled
<1> QED BY <1>1, <1>2 DEF IInv, PagesSeparate

(* The MMU loads what the tables say, or forgets.                          *)
LEMMA TLBIInv == IInv /\ (TLBFill \/ TLBEvict) => IInv'
PROOF
<1> SUFFICES ASSUME IInv, NEW va \in VAs, NEW e \in Words, e = NULL \/ e = PTE(va),
                    tlb' = [tlb EXCEPT ![va] = e],
                    UNCHANGED <<free, pp_ref, table, pgdir, mem, pc, call>>
             PROVE  IInv'
  <2>1. ASSUME IInv PROVE NULL \in Words /\ \A va \in VAs : PTE(va) \in Words
    BY <2>1, PTEType DEF IInv, Words
  <2> QED BY <2>1 DEF TLBFill, TLBEvict
<1> USE DEF IInv
<1>1. \A v \in VAs : PTE(v)' = PTE(v)
  BY PTEFrame
<1>2. UNCHANGED MapNow
  BY <1>1 DEF MapNow, Settled
<1>3. TypeOK'
  BY DEF TypeOK
<1>4. PagesSeparate'
  BY <1>2, SeparateFrame DEF PagesSeparate
<1>5. TLBCoherent'
  BY <1>1 DEF TLBCoherent, TypeOK
<1>6. CallState'
  BY DEF CallState, PTE
<1>7. PpRefCountsMappings'
  <2>1. \A q \in InitialFree : InAdvance(q)' = InAdvance(q)
    BY DEF InAdvance
  <2> QED BY <1>2, <2>1, CountsFrame
<1> QED BY <1>3, <1>4, <1>5, <1>6, <1>7

(* Every step keeps the invariant.                                         *)
LEMMA StepIInv == IInv /\ [Next]_vars => IInv'
PROOF
<1> SUFFICES ASSUME IInv, [Next]_vars PROVE IInv'
  OBVIOUS
<1>1. CASE Inserts(RefMod - 1)
  BY <1>1, CallInsertIInv
<1>2. CASE \E va \in VAs : CallRemove(va)
  BY <1>2, CallRemoveIInv
<1>3. CASE Kernel
  BY <1>3, WalkIInv, InstallTableIInv, InsertIncrefIInv, InsertStoreIInv,
     RemoveDecrefIInv, RemoveClearIInv, RemoveInvalidateIInv DEF Kernel
<1>4. CASE ClientAlloc
  BY <1>4, ClientAllocIInv
<1>5. CASE ClientFree
  BY <1>5, ClientFreeIInv
<1>6. CASE HolderStore
  BY <1>6, OwnedStoreIInv DEF HolderStore
<1>7. CASE MappedStore
  BY <1>7, TLBReachesOwned, OwnedStoreIInv DEF MappedStore
<1>8. CASE TLBFill \/ TLBEvict
  BY <1>8, TLBIInv
<1>9. CASE UNCHANGED vars
  <2>1. \A v \in VAs : PTE(v)' = PTE(v)
    BY <1>9 DEF vars, PTE
  <2>2. UNCHANGED MapNow /\ \A p : InAdvance(p)' = InAdvance(p)
    BY <1>9, <2>1 DEF vars, MapNow, Settled, InAdvance
  <2>3. PpRefCountsMappings'
    BY <1>9, <2>2, CountsFrame DEF vars, IInv
  <2>4. PagesSeparate'
    BY <1>9, <2>2, SeparateFrame DEF vars, IInv, PagesSeparate
  <2>5. TypeOK' /\ TLBCoherent' /\ CallState'
    BY <1>9 DEF vars, IInv, TypeOK, TLBCoherent, CallState, PTE
  <2> QED BY <2>3, <2>4, <2>5 DEF IInv
<1> QED BY <1>1, <1>2, <1>3, <1>4, <1>5, <1>6, <1>7, <1>8, <1>9 DEF Next, Environment

-----------------------------------------------------------------------------
(* The theorems.                                                           *)

(* The invariants hold in every state.                                     *)
THEOREM Invariance == Spec => []IInv
  BY InitIInv, StepIInv, PTL DEF Spec

(* Every variable keeps its type; a call never reaches a step that is not  *)
(* its own, and pp_ref never leaves the range of its counter.              *)
THEOREM TypeCorrect == Spec => []TypeOK
PROOF
<1>1. IInv => TypeOK
  BY DEF IInv
<1> QED BY Invariance, <1>1, PTL

(* Free pages, page tables and callers' pages never overlap, and only the  *)
(* last are mapped: no program's store reaches a page table.               *)
THEOREM Separation == Spec => []PagesSeparate
PROOF
<1>1. IInv => PagesSeparate
  BY DEF IInv
<1> QED BY Invariance, <1>1, PTL

(* The order in which page_remove clears the entry and invalidates the TLB *)
(* is enough against an MMU that walks at any moment.                      *)
THEOREM Coherence == Spec => []TLBCoherent
PROOF
<1>1. IInv => TLBCoherent
  BY DEF IInv
<1> QED BY Invariance, <1>1, PTL

(* Each step finds what it relies on; page_insert stores into an empty     *)
(* entry.                                                                  *)
THEOREM Calls_Correct == Spec => []CallState
PROOF
<1>1. IInv => CallState
  BY DEF IInv
<1> QED BY Invariance, <1>1, PTL

(* pp_ref counts the mappings of a page, for callers who map no page more  *)
(* often than it can count.                                                *)
THEOREM Counting == Spec => []PpRefCountsMappings
PROOF
<1>1. IInv => PpRefCountsMappings
  BY DEF IInv
<1> QED BY Invariance, <1>1, PTL

-----------------------------------------------------------------------------
(* The page tables use the allocator as PageStore promises it.             *)

(* Of the steps that PageStore does not see.                               *)
LEMMA StoreStutters ==
  ASSUME UNCHANGED <<free, pp_ref>>
  PROVE  UNCHANGED Store!vars
  BY DEF Store!vars

(* The reference to a page table is a Ref of an allocated page.            *)
LEMMA InstallTableRefs == IInv /\ InstallTable => Store!Next
PROOF
<1> SUFFICES ASSUME IInv, InstallTable PROVE Store!Next
  OBVIOUS
<1> USE RefModAssumption DEF IInv
<1>1. /\ pp_ref' = [pp_ref EXCEPT ![table] = (pp_ref[table] + 1) % RefMod]
      /\ table \in Pages /\ table # NULL /\ UNCHANGED free
      /\ \A d \in PDXs : pgdir[d] # table
  BY NullAssumption DEF InstallTable, incref, TypeOK, PagesSeparate
<1>2. table \in Tables /\ table \in InitialFree /\ table \notin Owned /\ table \notin free
  BY <1>1 DEF Tables, PagesSeparate, Owned
<1>3. pp_ref[table] = 0
  <2>1. AsTable(table) = 0
    BY <1>1 DEF AsTable
  <2> QED BY <1>1, <1>2, <2>1, OthersUnmapped DEF PpRefCountsMappings
<1>4. (pp_ref[table] + 1) % RefMod = pp_ref[table] + 1
  BY <1>3, ModSmall
<1>5. Store!Ref(table)
  BY <1>1, <1>2, <1>4 DEF Store!Ref
<1> QED BY <1>1, <1>5 DEF Store!Next

(* So is the reference that page_insert takes.                             *)
LEMMA InsertIncrefRefs == IInv /\ InsertIncref => Store!Next
PROOF
<1> SUFFICES ASSUME IInv, InsertIncref PROVE Store!Next
  OBVIOUS
<1> USE RefModAssumption DEF IInv
<1> DEFINE pp == call.pp
<1>1. /\ pp_ref' = [pp_ref EXCEPT ![pp] = (pp_ref[pp] + 1) % RefMod]
      /\ pp \in Owned /\ pp \in Pages /\ UNCHANGED free
      /\ pp_ref[pp] \in 0 .. RefMod - 1 /\ pp_ref[pp] < RefMod - 1
  BY DEF InsertIncref, incref, TypeOK, Calls, CallState, PagesSeparate
<1>2. pp_ref[pp] + 1 \in 0 .. RefMod - 1
  BY <1>1
<1>3. (pp_ref[pp] + 1) % RefMod = pp_ref[pp] + 1
  BY <1>2, ModSmall
<1>4. Store!Ref(pp)
  BY <1>1, <1>3 DEF Store!Ref, Owned
<1> QED BY <1>1, <1>4 DEF Store!Next

(* The page that page_remove finds has a reference to drop.                *)
LEMMA RemovedIsCounted ==
  ASSUME IInv, pc = "decref"
  PROVE  /\ call.va \in VAs /\ PTE(call.va) # NULL
         /\ PTE(call.va).page \in Owned /\ PTE(call.va).page \in Pages
         /\ pp_ref[PTE(call.va).page] \in 1 .. RefMod - 1
PROOF
<1> USE RefModAssumption DEF IInv
<1> DEFINE v == call.va
<1>1. v \in VAs /\ PTE(v) # NULL /\ table = NULL
  BY DEF TypeOK, Calls, CallState
<1>2. MapNow[v] = PTE(v)
  BY <1>1, MapNowUnsettled
<1>3. PICK q \in Owned : q = PTE(v).page
  BY <1>1, <1>2 DEF PagesSeparate
<1>4. q \in InitialFree /\ q \in Pages
  BY PagesAssumption DEF Owned
<1>5. v \in Mappings(q)
  BY <1>1, <1>2, <1>3 DEF Mappings
<1>6. Cardinality(Mappings(q)) > 0 /\ Cardinality(Mappings(q)) \in Nat
  BY <1>5, MappingsType, CountPositive, CountOfVAs
<1>7. AsTable(q) \in Nat /\ InAdvance(q) \in Nat
  BY DEF AsTable, InAdvance
<1>8. pp_ref[q] = Cardinality(Mappings(q)) + AsTable(q) + InAdvance(q)
  BY <1>4 DEF PpRefCountsMappings
<1>9. pp_ref[q] > 0
  BY <1>6, <1>7, <1>8
<1>10. pp_ref[q] \in 1 .. RefMod - 1
  BY <1>4, <1>9 DEF TypeOK
<1> QED BY <1>1, <1>3, <1>4, <1>10

(* What page_decref does to it does not wrap around.                       *)
LEMMA DecrefExact ==
  ASSUME IInv, RemoveDecref
  PROVE  LET q == PTE(call.va).page IN
         /\ pp_ref' = [pp_ref EXCEPT ![q] = pp_ref[q] - 1]
         /\ free' = IF pp_ref[q] = 1 THEN free \cup {q} ELSE free
PROOF
<1> DEFINE q == PTE(call.va).page
<1>1. pp_ref[q] \in 1 .. RefMod - 1 /\ page_decref(q)
  BY RemovedIsCounted, RemoveDecrefIs DEF RemoveDecref
<1> HIDE DEF q
<1>2. pp_ref[q] - 1 \in 0 .. RefMod - 1
  BY <1>1, RefModAssumption
<1>3. (pp_ref[q] - 1) % RefMod = pp_ref[q] - 1
  BY <1>2, ModSmall, RefModAssumption
<1>4. (pp_ref[q] - 1 = 0) <=> (pp_ref[q] = 1)
  BY <1>1, RefModAssumption
<1> QED BY <1>1, <1>3, <1>4 DEF page_decref, q

(* page_decref is an Unref.                                                *)
LEMMA RemoveDecrefUnrefs == IInv /\ RemoveDecref => Store!Next
PROOF
<1> SUFFICES ASSUME IInv, RemoveDecref PROVE Store!Next
  OBVIOUS
<1> DEFINE q == PTE(call.va).page
<1>1. q \in Pages /\ q \notin free /\ pp_ref[q] \in 1 .. RefMod - 1
  BY RemovedIsCounted DEF RemoveDecref, Owned
<1>2. /\ pp_ref' = [pp_ref EXCEPT ![q] = pp_ref[q] - 1]
      /\ free' = IF pp_ref[q] = 1 THEN free \cup {q} ELSE free
  BY DecrefExact
<1> HIDE DEF q
<1>3. pp_ref[q] > 0
  BY <1>1, RefModAssumption
<1>4. Store!Unref(q)
  BY <1>1, <1>2, <1>3 DEF Store!Unref
<1> QED BY <1>1, <1>4 DEF Store!Next

(* page_insert and page_remove keep the allocator's contract: they count   *)
(* references to pages that are not free and drop none they did not take.  *)
THEOREM AllocatorUse == Spec => UsesPageStore
PROOF
<1>1. Init => Store!Init
  BY DEF Init, Store!Init
<1>2. IInv /\ [Next]_vars => [Store!Next]_(Store!vars)
  <2> SUFFICES ASSUME IInv, [Next]_vars PROVE Store!Next \/ UNCHANGED Store!vars
    OBVIOUS
  <2>1. CASE Walk
    BY <2>1, StoreStutters DEF Walk, page_alloc, Store!Next, Store!Alloc
  <2>2. CASE InstallTable
    BY <2>2, InstallTableRefs
  <2>3. CASE InsertIncref
    BY <2>3, InsertIncrefRefs
  <2>4. CASE RemoveDecref
    BY <2>4, RemoveDecrefUnrefs
  <2>5. CASE ClientAlloc
    BY <2>5 DEF ClientAlloc, page_alloc, Store!Next, Store!Alloc
  <2>6. CASE ClientFree
    BY <2>6, PagesAssumption DEF ClientFree, Owned, Store!Next, Store!Free
  <2>7. CASE \/ InsertStore \/ RemoveClear \/ RemoveInvalidate
             \/ HolderStore \/ MappedStore \/ TLBFill \/ TLBEvict
    BY <2>7, StoreStutters DEF InsertStore, RemoveClear, RemoveInvalidate,
       HolderStore, MappedStore, TLBFill, TLBEvict
  <2>8. CASE Inserts(RefMod - 1) \/ \E va \in VAs : CallRemove(va)
    BY <2>8, StoreStutters DEF Inserts, CallInsert, CallRemove
  <2>9. CASE UNCHANGED vars
    BY <2>9, StoreStutters DEF vars
  <2> QED BY <2>1, <2>2, <2>3, <2>4, <2>5, <2>6, <2>7, <2>8, <2>9
          DEF Next, Kernel, Environment
<1> QED BY Invariance, <1>1, <1>2, PTL DEF Spec, UsesPageStore, Store!Spec

-----------------------------------------------------------------------------
(* The page tables implement AddressSpace.                                 *)

(* AddressSpace does not see what leaves ownership, mappings and the       *)
(* contents of owned pages alone.                                          *)
LEMMA SpaceStutters ==
  ASSUME UNCHANGED <<Owned, MapNow>>, \A p \in Owned : mem'[p] = mem[p]
  PROVE  UNCHANGED Space!vars
  BY DEF Space!vars, Contents

(* In particular steps that only move the call or the TLB.                 *)
LEMMA QuietStutters ==
  ASSUME IInv, UNCHANGED <<free, table, pgdir, mem>>,
         \/ UNCHANGED <<pc, call>>
         \/ /\ pc \notin {"clear", "invlpg", "store"}
            /\ pc' \notin {"clear", "invlpg", "store"}
  PROVE  UNCHANGED Space!vars
PROOF
<1>1. \A v \in VAs : PTE(v)' = PTE(v)
  BY PTEFrame DEF IInv
<1>2. UNCHANGED MapNow
  BY <1>1 DEF MapNow, Settled
<1>3. UNCHANGED Owned
  BY TablesFrame DEF Owned
<1> QED BY <1>2, <1>3, SpaceStutters

(* A page that becomes a page table was not owned and is not after.        *)
LEMMA WalkStutters == IInv /\ Walk => UNCHANGED Space!vars
PROOF
<1> SUFFICES ASSUME IInv, Walk PROVE UNCHANGED Space!vars
  OBVIOUS
<1>1. pc = "walk" /\ table = NULL /\ UNCHANGED pgdir
  BY DEF Walk, IInv, TypeOK
<1>2. CASE UNCHANGED <<free, mem, table>> /\ pc' \in {"incref", "idle"}
  BY <1>1, <1>2, QuietStutters
<1>3. ASSUME NEW p \in free, page_alloc(p, Cleared(p)), table' = p, pc' = "install",
             UNCHANGED call
      PROVE  UNCHANGED Space!vars
  <2>1. /\ free' = free \ {p} /\ mem' = [mem EXCEPT ![p] = Zeroed]
        /\ p \in InitialFree /\ p # NULL /\ p \notin Owned
    BY <1>3, PagesAssumption, NullAssumption DEF page_alloc, Cleared, IInv, TypeOK, Owned
  <2>2. p \notin Tables
    BY DEF IInv, PagesSeparate
  <2>3. Tables' = Tables \cup {p}
    BY <1>1, <1>3, <2>1 DEF Tables
  <2>4. Owned' = Owned
    BY <2>1, <2>2, <2>3 DEF Owned
  <2>5. \A v \in VAs : PTE(v)' = PTE(v)
    <3>1. \A d \in PDXs : pgdir[d] # NULL => mem'[pgdir[d]] = mem[pgdir[d]]
      BY <2>1, <2>2 DEF IInv, TypeOK, Tables
    <3> QED BY <1>1, <3>1, PTEFrame DEF IInv
  <2>6. UNCHANGED MapNow
    BY <1>1, <1>3, <2>5 DEF MapNow, Settled
  <2>7. \A q \in Owned : mem'[q] = mem[q]
    BY <2>1, PagesAssumption DEF Owned, IInv, TypeOK
  <2> QED BY <2>4, <2>6, <2>7, SpaceStutters
<1> QED BY <1>2, <1>3 DEF Walk, Return

(* A new page table in the directory maps nothing.                         *)
LEMMA InstallTableStutters == IInv /\ InstallTable => UNCHANGED Space!vars
PROOF
<1> SUFFICES ASSUME IInv, InstallTable PROVE UNCHANGED Space!vars
  OBVIOUS
<1> USE NullAssumption DEF IInv
<1> DEFINE d0 == call.va[1]
<1>1. /\ pc = "install" /\ pc' = "incref" /\ table' = NULL
      /\ pgdir' = [pgdir EXCEPT ![d0] = table]
      /\ UNCHANGED <<free, mem>>
  BY DEF InstallTable
<1>2. /\ d0 \in PDXs /\ table \in Pages /\ table # NULL
      /\ pgdir[d0] = NULL /\ mem[table] = Zeroed
  BY <1>1 DEF TypeOK, Calls, VAs, CallState
<1>3. \A d \in PDXs : pgdir'[d] = IF d = d0 THEN table ELSE pgdir[d]
  BY <1>1, <1>2 DEF TypeOK
<1>4. Tables' = Tables
  <2>1. \A t : t \in Tables <=> t = table \/ \E d \in PDXs : pgdir[d] # NULL /\ t = pgdir[d]
    BY <1>2 DEF Tables
  <2>2. \A t : t \in Tables' <=> \E d \in PDXs : pgdir'[d] # NULL /\ t = pgdir'[d]
    BY <1>1 DEF Tables
  <2> QED BY <1>2, <1>3, <2>1, <2>2
<1>5. \A v \in VAs : PTE(v)' = PTE(v)
  <2> SUFFICES ASSUME NEW v \in VAs PROVE PTE(v)' = PTE(v)
    OBVIOUS
  <2>1. v[1] \in PDXs /\ v[2] \in PTXs
    BY DEF VAs
  <2>2. PTE(v)' = IF pgdir'[v[1]] = NULL THEN NULL ELSE mem[pgdir'[v[1]]][v[2]]
    BY <1>1 DEF PTE
  <2>3. CASE v[1] = d0
    BY <1>2, <1>3, <2>1, <2>2, <2>3 DEF PTE, Zeroed
  <2>4. CASE v[1] # d0
    BY <1>3, <2>1, <2>2, <2>4 DEF PTE
  <2> QED BY <2>3, <2>4
<1>6. UNCHANGED MapNow
  BY <1>1, <1>5 DEF MapNow, Settled
<1>7. UNCHANGED Owned
  BY <1>1, <1>4 DEF Owned
<1> QED BY <1>1, <1>6, <1>7, SpaceStutters

(* Entries are stored and cleared in page tables, and say what MapNow has  *)
(* said since the counts were settled.                                     *)
LEMMA SetPTEStutters ==
  IInv /\ (InsertStore \/ RemoveClear \/ RemoveInvalidate) => UNCHANGED Space!vars
PROOF
<1> SUFFICES ASSUME IInv, InsertStore \/ RemoveClear \/ RemoveInvalidate
             PROVE  UNCHANGED Space!vars
  OBVIOUS
<1> USE NullAssumption DEF IInv
<1> DEFINE v == call.va
<1>1. /\ UNCHANGED <<free, table, pgdir>>
      /\ pc \in {"clear", "invlpg", "store"} /\ table = NULL
  BY DEF InsertStore, RemoveClear, RemoveInvalidate, TypeOK
<1>2. /\ call \in Calls /\ v \in VAs /\ pgdir[v[1]] # NULL /\ pgdir[v[1]] \in Tables
      /\ pc \in {"invlpg", "store"} => PTE(v) = NULL
  BY <1>1 DEF TypeOK, Calls, CallState, Tables, VAs
<1>3. UNCHANGED Owned
  BY <1>1, TablesFrame DEF Owned
<1>4. MapNow = [w \in VAs |-> IF w # v THEN PTE(w)
                              ELSE IF call.op = "insert"
                                   THEN Entry(call.pp, call.perm) ELSE NULL]
  BY <1>1, MapNowSettled
<1>5. ASSUME NEW e \in Words, SetPTE(v, e)
      PROVE  /\ \A w \in VAs : PTE(w)' = IF w = v THEN e ELSE PTE(w)
             /\ \A p \in Owned : mem'[p] = mem[p]
  BY <1>1, <1>2, <1>5, PTEStore, PagesAssumption DEF Owned
<1>6. CASE InsertStore
  <2>1. /\ pc = "store" /\ pc' = "idle" /\ call.op = "insert"
        /\ SetPTE(v, Entry(call.pp, call.perm))
    BY <1>6, InsertStoreIs DEF InsertStore, Return, TypeOK
  <2>2. Entry(call.pp, call.perm) \in Words
    BY <1>2, <2>1 DEF Calls, Entry, Words, Entries
  <2>3. MapNow' = [w \in VAs |-> PTE(w)']
    BY <2>1 DEF MapNow, Settled
  <2> QED BY <1>3, <1>4, <1>5, <2>1, <2>2, <2>3, SpaceStutters
<1>7. CASE RemoveClear
  <2>1. pc' = "invlpg" /\ UNCHANGED call /\ SetPTE(v, NULL) /\ NULL \in Words
    BY <1>7, RemoveClearIs DEF RemoveClear, Words
  <2>2. \A w \in VAs : w # v => PTE(w)' = PTE(w)
    BY <1>5, <2>1
  <2>3. UNCHANGED MapNow
    BY <1>1, <2>1, <2>2 DEF MapNow, Settled
  <2> QED BY <1>3, <1>5, <2>1, <2>3, SpaceStutters
<1>8. CASE RemoveInvalidate
  <2>1. /\ pc = "invlpg" /\ UNCHANGED mem
        /\ \/ call.op = "insert" /\ pc' = "store" /\ call' = call
           \/ call.op # "insert" /\ pc' = "idle"
    BY <1>8 DEF RemoveInvalidate, RemoveReturns, Return
  <2>2. \A w \in VAs : PTE(w)' = PTE(w)
    BY <1>1, <2>1, PTEFrame
  <2>3. UNCHANGED MapNow
    BY <1>1, <1>2, <2>1, <2>2 DEF MapNow, Settled
  <2> QED BY <1>3, <2>1, <2>3, SpaceStutters
<1> QED BY <1>6, <1>7, <1>8

(* Without an old mapping, the increment is the moment of the new one.     *)
LEMMA InsertIncrefMaps == IInv /\ InsertIncref => Space!Next \/ UNCHANGED Space!vars
PROOF
<1> SUFFICES ASSUME IInv, InsertIncref PROVE Space!Next \/ UNCHANGED Space!vars
  OBVIOUS
<1> USE NullAssumption DEF IInv
<1>1. /\ pc = "incref" /\ pc' = IF PTE(call.va) # NULL THEN "decref" ELSE "store"
      /\ call'.va = call.va /\ call'.pp = call.pp /\ call'.perm = call.perm
      /\ call'.op = "insert" /\ UNCHANGED <<free, table, pgdir, mem>>
  BY InsertIncrefIs
<1>2. PICK v \in VAs, pp \in Owned, perm \in Perms :
        call.va = v /\ call.pp = pp /\ call.perm = perm /\ call.op = "insert"
  BY <1>1 DEF TypeOK, Calls, PagesSeparate
<1>3. CASE PTE(v) # NULL
  BY <1>1, <1>2, <1>3, QuietStutters
<1>4. CASE PTE(v) = NULL
  <2>1. \A w \in VAs : PTE(w)' = PTE(w)
    BY <1>1, PTEFrame
  <2>2. MapNow = [w \in VAs |-> PTE(w)]
    BY <1>1, MapNowUnsettled
  <2>3. MapNow' = [MapNow EXCEPT ![v] = [page |-> pp, perm |-> perm]]
    BY <1>1, <1>2, <1>4, <2>1, <2>2 DEF MapNow, Settled, Entry
  <2>4. UNCHANGED Owned
    BY <1>1, TablesFrame DEF Owned
  <2>5. MapNow[v] = NULL
    BY <1>4, <2>2
  <2>6. Space!Remap(v, [page |-> pp, perm |-> perm])
    <3>1. UNCHANGED Contents
      BY <1>1, <2>4 DEF Contents
    <3> QED BY <2>3, <2>4, <2>5, <3>1 DEF Space!Remap
  <2>7. Space!Map(v, pp, perm)
    BY <2>6 DEF Space!Map
  <2>8. pp \in Pages
    BY PagesAssumption DEF Owned
  <2> QED BY <2>7, <2>8 DEF Space!Next
<1> QED BY <1>3, <1>4

(* page_decref is the moment of the replacement, and the page ceases to    *)
(* exist exactly when AddressSpace says so: nothing maps it any more.      *)
LEMMA RemoveDecrefRemaps == IInv /\ RemoveDecref => Space!Next
PROOF
<1> SUFFICES ASSUME IInv, RemoveDecref PROVE Space!Next
  OBVIOUS
<1> USE NullAssumption
<1>1. /\ pc = "decref" /\ pc' = "clear" /\ UNCHANGED <<table, pgdir, mem, call>>
      /\ IInv' /\ TypeOK /\ PagesSeparate
  BY RemoveDecrefIInv DEF RemoveDecref, IInv
<1>2. PICK v \in VAs, q \in Owned :
        /\ v = call.va /\ q = PTE(v).page /\ PTE(v) # NULL /\ q \in Pages
        /\ pp_ref[q] \in 1 .. RefMod - 1
  BY <1>1, RemovedIsCounted
<1>3. PICK new \in Words :
        /\ new = IF call.op = "insert" THEN Entry(call.pp, call.perm) ELSE NULL
        /\ new # NULL => /\ call.op = "insert" /\ call.pp \in Owned
                         /\ call.pp \in Pages /\ call.perm \in Perms
                         /\ new = [page |-> call.pp, perm |-> call.perm]
        /\ new = NULL => call.op = "remove"
  <2>1. CASE call.op = "insert"
    <3>1. call.pp \in Owned /\ call.pp \in Pages /\ call.perm \in Perms
      BY <1>1, <2>1 DEF TypeOK, Calls, PagesSeparate
    <3>2. Entry(call.pp, call.perm) \in Words /\ Entry(call.pp, call.perm) # NULL
      BY <3>1 DEF Entry, Entries, Words
    <3> QED BY <2>1, <3>1, <3>2 DEF Entry
  <2>2. CASE call.op # "insert"
    <3>1. call.op = "remove" /\ NULL \in Words
      BY <1>1, <2>2 DEF TypeOK, Calls, Words
    <3> QED BY <2>2, <3>1
  <2> QED BY <2>1, <2>2
<1>4. MapNow = [w \in VAs |-> PTE(w)]
  BY <1>1, MapNowUnsettled
<1>5. \A w \in VAs : PTE(w)' = PTE(w)
  BY <1>1, PTEFrame
<1>6. MapNow' = [MapNow EXCEPT ![v] = new]
  BY <1>1, <1>2, <1>3, <1>4, <1>5 DEF MapNow, Settled
<1>7. MapNow[v] = PTE(v) /\ MapNow[v].page = q /\ MapNow[v] # NULL
  BY <1>2, <1>4
<1>8. /\ pp_ref' = [pp_ref EXCEPT ![q] = pp_ref[q] - 1]
      /\ free' = IF pp_ref[q] = 1 THEN free \cup {q} ELSE free
  BY <1>2, DecrefExact
<1>9. pp_ref'[q] = Cardinality(Mappings(q)')
  <2>1. q \in InitialFree /\ q \notin Tables
    BY DEF Owned
  <2>2. AsTable(q)' = 0
    BY <1>1, <1>2, <2>1 DEF AsTable, Tables
  <2>3. InAdvance(q)' = 0
    BY <1>1 DEF InAdvance
  <2>4. Cardinality(Mappings(q)') \in Nat
    <3>1. Mappings(q)' \subseteq VAs
      BY DEF Mappings
    <3> QED BY <3>1, CountOfVAs
  <2>5. pp_ref'[q] = Cardinality(Mappings(q)') + AsTable(q)' + InAdvance(q)'
    BY <1>1, <2>1 DEF IInv, PpRefCountsMappings
  <2> QED BY <2>2, <2>3, <2>4, <2>5
<1> DEFINE dies == /\ new = NULL \/ new.page # q
                   /\ ~ \E w \in VAs \ {v} : MapNow[w] # NULL /\ MapNow[w].page = q
<1>10. dies <=> Mappings(q)' = {}
  <2>1. \A w : w \in Mappings(q)' <=> w \in VAs /\ MapNow'[w] # NULL /\ MapNow'[w].page = q
    BY DEF Mappings
  <2>2. \A w \in VAs : MapNow'[w] = IF w = v THEN new ELSE MapNow[w]
    BY <1>4, <1>6
  <2> QED BY <2>1, <2>2
<1>11. Mappings(q)' = {} <=> pp_ref[q] = 1
  <2>1. pp_ref'[q] = pp_ref[q] - 1
    BY <1>1, <1>2, <1>8 DEF TypeOK
  <2>2. Mappings(q)' \subseteq VAs
    BY DEF Mappings
  <2>3. CASE Mappings(q)' = {}
    <3>1. pp_ref[q] - 1 = 0
      BY <1>9, <2>1, <2>3, FS_EmptySet
    <3> QED BY <1>2, <2>3, <3>1, RefModAssumption
  <2>4. CASE Mappings(q)' # {}
    <3>1. PICK w : w \in Mappings(q)'
      BY <2>4
    <3>2. Cardinality(Mappings(q)') > 0
      BY <2>2, <3>1, CountPositive
    <3>3. pp_ref[q] # 1
      BY <1>9, <2>1, <3>2
    <3> QED BY <2>4, <3>3
  <2> QED BY <2>3, <2>4
<1>12. Owned' = IF dies THEN Owned \ {q} ELSE Owned
  <2>1. Tables' = Tables
    BY <1>1, TablesFrame
  <2>2. free' = IF dies THEN free \cup {q} ELSE free
    BY <1>8, <1>10, <1>11
  <2> QED BY <2>1, <2>2 DEF Owned
<1>13. Contents' = IF dies THEN [Contents EXCEPT ![q] = NULL] ELSE Contents
  <2>1. CASE dies
    BY <1>1, <1>2, <1>12, <2>1 DEF Contents
  <2>2. CASE ~dies
    BY <1>1, <1>12, <2>2 DEF Contents
  <2> QED BY <2>1, <2>2
<1>14. Space!Remap(v, new)
  BY <1>6, <1>7, <1>12, <1>13 DEF Space!Remap, Space!MappedElsewhere
<1>15. CASE new # NULL
  <2>1. Space!Map(v, call.pp, call.perm)
    BY <1>3, <1>14, <1>15 DEF Space!Map
  <2> QED BY <1>3, <1>15, <2>1 DEF Space!Next
<1>16. CASE new = NULL
  <2>1. Space!Unmap(v)
    BY <1>7, <1>14, <1>16 DEF Space!Unmap
  <2> QED BY <2>1 DEF Space!Next
<1> QED BY <1>15, <1>16

(* Callers' allocations and frees are AddressSpace's.                      *)
LEMMA ClientSteps == IInv /\ (ClientAlloc \/ ClientFree) => Space!Next
PROOF
<1> SUFFICES ASSUME IInv, ClientAlloc \/ ClientFree PROVE Space!Next
  OBVIOUS
<1> USE PagesAssumption
<1>1. /\ UNCHANGED <<pp_ref, table, pgdir, tlb, pc, call>> /\ pc = "idle"
      /\ TypeOK /\ PagesSeparate
  BY DEF ClientAlloc, ClientFree, IInv
<1>2. Tables' = Tables
  BY <1>1, TablesFrame
<1>3. CASE ClientAlloc
  <2>1. PICK p \in free : \E contents \in {Cleared(p), mem[p]} : page_alloc(p, contents)
    BY <1>3 DEF ClientAlloc
  <2> PICK contents \in {Cleared(p), mem[p]} : page_alloc(p, contents)
    BY <2>1
  <2>2. /\ free' = free \ {p} /\ mem' = [mem EXCEPT ![p] = contents]
        /\ p \in Pages /\ p \in InitialFree /\ p \notin Tables /\ p \notin Owned
    BY <1>1 DEF page_alloc, TypeOK, PagesSeparate, Owned
  <2>3. Owned' = Owned \cup {p}
    BY <1>1, <1>2, <2>2 DEF Owned
  <2>4. contents \in [PTXs -> Words]
    BY <1>1, <2>2 DEF TypeOK, Cleared, Zeroed, Words
  <2>5. Contents' = [Contents EXCEPT ![p] = contents]
    BY <1>1, <2>2, <2>3 DEF TypeOK, Contents
  <2>6. UNCHANGED MapNow
    <3>1. \A d \in PDXs : pgdir[d] # NULL => mem'[pgdir[d]] = mem[pgdir[d]]
      BY <1>1, <2>2 DEF TypeOK, Tables
    <3>2. \A v \in VAs : PTE(v)' = PTE(v)
      BY <1>1, <3>1, PTEFrame
    <3> QED BY <1>1, <3>2 DEF MapNow, Settled
  <2>7. Space!Alloc
    BY <2>2, <2>3, <2>4, <2>5, <2>6 DEF Space!Alloc
  <2> QED BY <2>7 DEF Space!Next
<1>4. CASE ClientFree
  <2>1. PICK p \in Owned : pp_ref[p] = 0 /\ free' = free \cup {p} /\ mem' = mem
    BY <1>4 DEF ClientFree
  <2>2. p \in InitialFree /\ p \in Pages /\ p \notin Tables
    BY DEF Owned
  <2>3. Owned' = Owned \ {p}
    BY <1>2, <2>1, <2>2 DEF Owned
  <2>4. UNCHANGED MapNow
    <3>1. \A v \in VAs : PTE(v)' = PTE(v)
      BY <1>1, <2>1, PTEFrame
    <3> QED BY <1>1, <3>1 DEF MapNow, Settled
  <2>5. \A va \in VAs : MapNow[va] # NULL => MapNow[va].page # p
    <3>1. IInv'
      BY <1>4, ClientFreeIInv
    <3>2. \A va \in VAs : MapNow'[va] # NULL => MapNow'[va].page \in Owned'
      BY <3>1 DEF IInv, PagesSeparate
    <3> QED BY <2>3, <2>4, <3>2
  <2>6. Contents' = [Contents EXCEPT ![p] = NULL]
    BY <2>1, <2>2, <2>3 DEF Contents
  <2>7. Space!Free(p)
    BY <2>1, <2>3, <2>4, <2>5, <2>6 DEF Space!Free
  <2> QED BY <2>2, <2>7 DEF Space!Next
<1> QED BY <1>3, <1>4

(* A store, by the holder of a page or through the TLB, is AddressSpace's. *)
LEMMA StoreSteps == IInv /\ (HolderStore \/ MappedStore) => Space!Next
PROOF
<1> SUFFICES ASSUME IInv, HolderStore \/ MappedStore PROVE Space!Next
  OBVIOUS
<1> USE PagesAssumption
<1>1. /\ UNCHANGED <<free, pp_ref, table, pgdir, tlb, pc, call>> /\ pc = "idle"
      /\ TypeOK /\ PagesSeparate
  BY DEF HolderStore, MappedStore, IInv
<1>2. PICK p \in Owned, x \in PTXs, w \in DataWords : mem' = [mem EXCEPT ![p][x] = w]
  BY <1>1, TLBReachesOwned DEF HolderStore, MappedStore
<1>3. p \in InitialFree /\ p \in Pages /\ p \notin Tables /\ w \in Words
  BY DataAssumption DEF Owned
<1>4. Owned' = Owned
  BY <1>1, TablesFrame DEF Owned
<1>5. UNCHANGED MapNow
  <2>1. \A d \in PDXs : pgdir[d] # NULL => mem'[pgdir[d]] = mem[pgdir[d]]
    BY <1>1, <1>2, <1>3 DEF TypeOK, Tables
  <2>2. \A v \in VAs : PTE(v)' = PTE(v)
    BY <1>1, <2>1, PTEFrame
  <2> QED BY <1>1, <2>2 DEF MapNow, Settled
<1>6. Contents' = [Contents EXCEPT ![p][x] = w]
  <2>1. mem' = [mem EXCEPT ![p] = [mem[p] EXCEPT ![x] = w]]
    BY <1>2
  <2>2. Contents' = [Contents EXCEPT ![p] = [mem[p] EXCEPT ![x] = w]]
    BY <1>1, <1>3, <1>4, <2>1 DEF TypeOK, Contents
  <2>3. Contents[p] = mem[p]
    BY <1>3 DEF Contents
  <2> QED BY <2>2, <2>3
<1>7. Space!Store(p, x, w)
  BY <1>4, <1>5, <1>6 DEF Space!Store
<1> QED BY <1>3, <1>7 DEF Space!Next

(* page_insert, page_remove, their page tables, counters and TLB flushes   *)
(* implement an address space in which replacing a mapping is one step.    *)
THEOREM Implementation == Spec => ImplementsAddressSpace
PROOF
<1>1. Init => Space!Init
  <2> SUFFICES ASSUME Init PROVE Space!Init
    OBVIOUS
  <2>1. Owned = {}
    BY DEF Init, Owned
  <2>2. \A va \in VAs : PTE(va) = NULL
    BY DEF Init, PTE, VAs
  <2>3. MapNow = [va \in VAs |-> NULL]
    BY <2>2, MapNowUnsettled DEF Init
  <2>4. Contents = [p \in Pages |-> NULL]
    BY <2>1 DEF Contents
  <2> QED BY <2>1, <2>3, <2>4 DEF Space!Init
<1>2. IInv /\ [Next]_vars => [Space!Next]_(Space!vars)
  <2> SUFFICES ASSUME IInv, [Next]_vars PROVE Space!Next \/ UNCHANGED Space!vars
    OBVIOUS
  <2>1. CASE Inserts(RefMod - 1) \/ \E va \in VAs : CallRemove(va)
    BY <2>1, QuietStutters DEF Inserts, CallInsert, CallRemove
  <2>2. CASE Walk \/ InstallTable
    BY <2>2, WalkStutters, InstallTableStutters
  <2>3. CASE InsertIncref
    BY <2>3, InsertIncrefMaps
  <2>4. CASE InsertStore \/ RemoveClear \/ RemoveInvalidate
    BY <2>4, SetPTEStutters
  <2>5. CASE RemoveDecref
    BY <2>5, RemoveDecrefRemaps
  <2>6. CASE ClientAlloc \/ ClientFree
    BY <2>6, ClientSteps
  <2>7. CASE HolderStore \/ MappedStore
    BY <2>7, StoreSteps
  <2>8. CASE TLBFill \/ TLBEvict
    BY <2>8, QuietStutters DEF TLBFill, TLBEvict
  <2>9. CASE UNCHANGED vars
    BY <2>9, QuietStutters DEF vars
  <2> QED BY <2>1, <2>2, <2>3, <2>4, <2>5, <2>6, <2>7, <2>8, <2>9
          DEF Next, Kernel, Environment
<1> QED BY Invariance, <1>1, <1>2, PTL DEF Spec, ImplementsAddressSpace, Space!Spec
=============================================================================
