--------------------------- MODULE Monitor_proofs ---------------------------
(***************************************************************************)
(* Proofs about the monitor.  stab_binsearch returns what SearchResult     *)
(* says, for every table whose entries of the type are sorted in the       *)
(* region, and every address.  runcmd takes lines of any length apart into *)
(* their words and runs the command that was typed.  mon_backtrace, for    *)
(* every program and every stack of calls in it, reports each frame as it  *)
(* is: where the entries of a line, a function and a file are in the table *)
(* that the linker lays out (LinesLaid, CodeLaid, FileLaid, ProgramLaid),  *)
(* what the searches of debuginfo_eip can find there, and the invariant of *)
(* the walk along the frames, BacktraceInv.                                *)
(***************************************************************************)
EXTENDS Monitor, FiniteSetTheorems, WellFoundedInduction, TLAPS

AskedOK ==
  /\ stabs \in Tables /\ type \in Types
  /\ asked \in [left : Nat, right : Int, addr : Nat]
  /\ asked.left .. asked.right \subseteq DOMAIN stabs

(* The entry region_left refers to is below the address looked for now,    *)
(* and none between it and l is of the type.                               *)
LeftFound ==
  /\ region_left \in Candidates
  /\ region_left <= l /\ region_left <= r
  /\ stabs[region_left].value < addr
  /\ \A k \in Candidates : k > region_left => k >= l

(* No entry before l is of the type; those looked at were too high.        *)
NothingLeft ==
  /\ region_left = asked.left
  /\ addr = asked.addr
  /\ \A k \in Candidates : k >= l
  /\ IF any_matches THEN r + 1 \in Candidates ELSE r = asked.right

(* The region ends with the one that is searched, or before an entry of    *)
(* the type.                                                               *)
RegionClosed == region_right = asked.right \/ region_right + 1 \in Candidates

(* The loop: an entry behind r is too high, and where addr has moved along *)
(* there was an entry for each of its values.                              *)
LoopInv ==
  /\ Sorted(type, asked.left, asked.right)
  /\ region_left \in Int /\ addr \in Nat /\ l \in Nat /\ r \in Int
  /\ any_matches \in BOOLEAN
  /\ region_right = r
  /\ asked.left <= l /\ r <= asked.right
  /\ asked.addr <= addr
  /\ \A k \in Candidates : k > r => stabs[k].value > asked.addr
  /\ \A v \in asked.addr .. addr - 1 : \E k \in Candidates : stabs[k].value = v
  /\ NothingLeft \/ (any_matches /\ LeftFound)
  /\ RegionClosed

SearchInv ==
  /\ AskedOK
  /\ searching \in BOOLEAN
  /\ searching => LoopInv
  /\ SearchResult
  /\ ~searching /\ AtOrBelow # {} => RegionClosed

-----------------------------------------------------------------------------
(* What is known of the entries of the region.                             *)
LEMMA Entries ==
  ASSUME AskedOK
  PROVE  /\ Candidates \subseteq Int
         /\ \A k : k \in Candidates <=>
                 /\ k \in asked.left .. asked.right
                 /\ stabs[k].type = type
         /\ \A k \in Candidates : stabs[k].value \in Nat
  BY StabAssumption DEF AskedOK, Candidates, Of

LEMMA InitInv == SearchInit => SearchInv
<1> SUFFICES ASSUME SearchInit PROVE SearchInv
  OBVIOUS
<1>1. Candidates = {}
  BY DEF SearchInit, Candidates, Of
<1>2. SearchResult
  BY <1>1 DEF SearchInit, SearchResult
<1>3. AskedOK
  BY StabAssumption DEF SearchInit, AskedOK
<1> QED  BY <1>1, <1>2, <1>3 DEF SearchInit, SearchInv, AtOrBelow

(* A call starts with the whole region.                                    *)
LEMMA CallInv ==
  ASSUME SearchInv, Call
  PROVE  SearchInv'
<1> PICK a \in DOMAIN stabs, b \in DOMAIN stabs, t \in Types, x \in Nat :
      Sorted(t, a, b) /\ StartSearch(a, b, t, x)
  BY DEF Call
<1> USE DEF StartSearch
<1>1. stabs \in Tables /\ stabs' = stabs
  BY DEF SearchInv, AskedOK
<1>2. a \in Nat /\ b \in Nat /\ a .. b \subseteq DOMAIN stabs
  BY <1>1, StabAssumption
<1>3. AskedOK'
  BY <1>1, <1>2 DEF AskedOK
<1>4. Sorted(type, asked.left, asked.right)'
  BY <1>1 DEF Sorted, Of
<1>5. \A k \in Candidates' : k >= a /\ k <= b
  BY <1>2 DEF Candidates, Of
<1>6. NothingLeft'
  BY <1>5 DEF NothingLeft
<1>7. \A k \in Candidates' : k > r' => stabs[k].value > x
  BY <1>2, <1>5, SMT DEF Candidates, Of
<1>8. \A v \in x .. x - 1 : \E k \in Candidates' : stabs[k].value = v
  OBVIOUS
<1>9. LoopInv'
  <2>1. /\ region_left' \in Int /\ addr' \in Nat /\ l' \in Nat /\ r' \in Int
        /\ region_right' = r'
        /\ asked'.left <= l' /\ r' <= asked'.right /\ asked'.addr <= addr'
    BY <1>2
  <2>3. any_matches' \in BOOLEAN
    OBVIOUS
  <2>2. asked'.addr = x /\ addr' = x
    OBVIOUS
  <2>4. RegionClosed'
    BY DEF RegionClosed
  <2> QED  BY <1>1, <1>4, <1>6, <1>7, <1>8, <2>1, <2>2, <2>3, <2>4, Zenon DEF LoopInv
<1> QED  BY <1>3, <1>9, Zenon DEF SearchInv, SearchResult

-----------------------------------------------------------------------------
(* A turn of the loop.                                                     *)
LEMMA MiddleBetween ==
  ASSUME l \in Nat, r \in Int, l <= r
  PROVE  Middle \in Nat /\ l <= Middle /\ Middle <= r
  BY DEF Middle

(* No entry of the type is left of the middle.                             *)
LEMMA NoMatchInv ==
  ASSUME AskedOK, LoopInv, l <= r, NoMatch,
         UNCHANGED <<stabs, type, asked, searching>>
  PROVE  LoopInv'
<1> USE Entries, MiddleBetween DEF NoMatch
<1>1. \A k \in Candidates : k >= l => k >= l'
  BY DEF LoopInv
<1>2. Candidates' = Candidates
  BY DEF Candidates, Of
<1>3. NothingLeft => NothingLeft'
  BY <1>1, <1>2 DEF NothingLeft
<1>4. LeftFound => LeftFound'
  BY <1>1, <1>2 DEF LeftFound, LoopInv, AskedOK
<1>5. Sorted(type, asked.left, asked.right)'
  BY DEF LoopInv, Sorted, Of
<1>6. RegionClosed'
  BY <1>2 DEF RegionClosed, LoopInv
<1> QED  BY <1>2, <1>3, <1>4, <1>5, <1>6 DEF LoopInv, AskedOK

(* The nearest entry m of the type is a candidate, and the last one up to  *)
(* the middle.                                                             *)
LEMMA NearestEntry ==
  ASSUME AskedOK, LoopInv, l <= r, NEW m \in l .. Middle, Nearest(m)
  PROVE  /\ m \in Candidates /\ m \in Nat
         /\ stabs[m].value \in Nat
         /\ \A k \in Candidates : k > m => k >= Middle + 1
<1> USE Entries, MiddleBetween
<1>1. m \in Nat /\ m \in asked.left .. asked.right
  BY DEF LoopInv, AskedOK
<1>2. m \in Candidates
  BY <1>1 DEF Nearest
<1>3. \A k \in Candidates : k > m => k >= Middle + 1
  BY <1>1 DEF Nearest, LoopInv
<1> QED  BY <1>1, <1>2, <1>3

LEMMA BelowInv ==
  ASSUME AskedOK, LoopInv, l <= r, NEW m \in l .. Middle, Nearest(m), Below(m),
         any_matches' = TRUE, UNCHANGED <<stabs, type, asked, searching>>
  PROVE  LoopInv'
<1> USE DEF Below
<1>1. Candidates' = Candidates
  BY DEF Candidates, Of
<1>2. LeftFound'
  BY <1>1, NearestEntry, MiddleBetween DEF LoopInv, LeftFound
<1>3. Sorted(type, asked.left, asked.right)'
  BY DEF LoopInv, Sorted, Of
<1>4. l' \in Nat /\ asked.left <= l'
  BY MiddleBetween DEF LoopInv, AskedOK
<1>5. RegionClosed'
  BY <1>1 DEF RegionClosed, LoopInv
<1> QED  BY <1>1, <1>2, <1>3, <1>4, <1>5, NearestEntry DEF LoopInv

LEMMA ExactInv ==
  ASSUME AskedOK, LoopInv, l <= r, NEW m \in l .. Middle, Nearest(m), Exact(m),
         any_matches' = TRUE, UNCHANGED <<stabs, type, asked, searching>>
  PROVE  LoopInv'
<1> USE DEF Exact
<1>1. Candidates' = Candidates
  BY DEF Candidates, Of
<1>0. Candidates \subseteq Int
  BY Entries
<1>2. LeftFound'
  BY <1>0, <1>1, NearestEntry, MiddleBetween DEF LoopInv, LeftFound
<1>3. Sorted(type, asked.left, asked.right)'
  BY DEF LoopInv, Sorted, Of
<1>4. l' \in Nat /\ asked.left <= l'
  BY NearestEntry, MiddleBetween DEF LoopInv, AskedOK
<1>5. \A v \in asked.addr .. addr : \E k \in Candidates : stabs[k].value = v
  <2>1. addr \in Nat /\ asked.addr \in Nat
    BY DEF LoopInv, AskedOK
  <2> TAKE v \in asked.addr .. addr
  <2>2. CASE v = addr
    BY <2>2, NearestEntry
  <2>3. CASE v # addr
    BY <2>1, <2>3 DEF LoopInv
  <2> QED  BY <2>2, <2>3
<1>6. addr' \in Nat /\ asked.addr <= addr' /\ addr' - 1 = addr
  BY DEF LoopInv, AskedOK
<1>7. RegionClosed'
  BY <1>1 DEF RegionClosed, LoopInv
<1> QED  BY <1>1, <1>2, <1>3, <1>4, <1>5, <1>6, <1>7, NearestEntry DEF LoopInv

(* Entries behind one that is too high are too high as well.               *)
LEMMA AboveInv ==
  ASSUME AskedOK, LoopInv, l <= r, NEW m \in l .. Middle, Nearest(m), Above(m),
         any_matches' = TRUE, UNCHANGED <<stabs, type, asked, searching>>
  PROVE  LoopInv'
<1> USE DEF Above
<1>1. Candidates' = Candidates
  BY DEF Candidates, Of
<1>2. Sorted(type, asked.left, asked.right)'
  BY DEF LoopInv, Sorted, Of
<1>3. m \in Candidates /\ m \in Nat /\ stabs[m].value \in Nat
  BY NearestEntry
<1>4. asked.addr \in Nat /\ addr \in Nat /\ asked.addr <= addr /\ l \in Nat /\ r \in Int
  BY DEF LoopInv, AskedOK
<1>5. \A k \in Candidates : k > r' => stabs[k].value > asked.addr
  <2> TAKE k \in Candidates
  <2> HAVE k > r'
  <2>1. k \in Int /\ stabs[k].value \in Nat
    BY Entries
  <2>2. k = m \/ m < k
    BY <1>3, <2>1
  <2>3. stabs[m].value <= stabs[k].value
    BY <1>3, <2>1, <2>2 DEF LoopInv, Sorted, Candidates
  <2> QED  BY <1>3, <1>4, <2>1, <2>3
<1>6. r' \in Int /\ r' <= asked.right /\ r' + 1 = m
  BY <1>3, <1>4, MiddleBetween DEF LoopInv, AskedOK
<1>7. NothingLeft => NothingLeft'
  BY <1>1, <1>3, <1>6 DEF NothingLeft
<1>8. LeftFound => LeftFound'
  <2> HAVE LeftFound
  <2>1. region_left \in Int /\ stabs[region_left].value \in Nat
    BY Entries DEF LeftFound
  <2>2. region_left # m /\ region_left <= m
    BY <1>3, <1>4, <2>1 DEF LeftFound
  <2>3. region_left <= r'
    BY <1>3, <2>1, <2>2
  <2>4. /\ region_left' = region_left /\ l' = l /\ addr' = addr
        /\ stabs' = stabs
    OBVIOUS
  <2> QED  BY <1>1, <2>3, <2>4, Zenon DEF LeftFound
<1>9. (NothingLeft \/ (any_matches /\ LeftFound))'
  BY <1>7, <1>8 DEF LoopInv
<1>10. \A v \in asked.addr .. addr - 1 : \E k \in Candidates : stabs[k].value = v
  BY DEF LoopInv
<1>11. asked.left <= l /\ region_left \in Int
  BY DEF LoopInv
<1>12. RegionClosed' /\ region_right' = r'
  BY <1>1, <1>3, <1>6 DEF RegionClosed
<1> QED  BY <1>1, <1>2, <1>4, <1>5, <1>6, <1>9, <1>10, <1>11, <1>12 DEF LoopInv

LEMMA TurnInv ==
  ASSUME SearchInv, SearchTurn
  PROVE  SearchInv'
<1>1. AskedOK /\ LoopInv /\ l <= r /\ searching
  BY DEF SearchInv, SearchTurn
<1>2. AskedOK'
  BY <1>1 DEF AskedOK, SearchTurn
<1>3. LoopInv'
  <2>1. CASE NoMatch
    BY <1>1, <2>1, NoMatchInv DEF SearchTurn
  <2>2. ASSUME NEW m \in l .. Middle, Nearest(m),
               Below(m) \/ Above(m) \/ Exact(m), any_matches' = TRUE
        PROVE  LoopInv'
    BY <1>1, <2>2, BelowInv, AboveInv, ExactInv DEF SearchTurn
  <2> QED  BY <2>1, <2>2 DEF SearchTurn
<1>4. searching' = searching
  BY DEF SearchTurn
<1> QED  BY <1>1, <1>2, <1>3, <1>4, Zenon DEF SearchInv, SearchResult

-----------------------------------------------------------------------------
(* The end of the loop.                                                    *)

(* No entry of the type was found: there is none.                          *)
LEMMA EndUnmatched ==
  ASSUME AskedOK, LoopInv, l > r, ~any_matches
  PROVE  Candidates = {} /\ region_left = asked.left
<1>1. NothingLeft /\ r = asked.right
  BY DEF LoopInv, NothingLeft
<1>2. \A k \in Candidates : k >= l /\ k <= r /\ k \in Int /\ l \in Nat /\ r \in Int
  BY <1>1, Entries DEF NothingLeft, LoopInv, AskedOK
<1> QED  BY <1>1, <1>2 DEF NothingLeft

(* All that were found are too high.                                       *)
LEMMA EndTooHigh ==
  ASSUME AskedOK, LoopInv, l > r, any_matches, NothingLeft
  PROVE  /\ region_right + 1 \in Candidates
         /\ \A k \in Candidates : k > region_right
         /\ AtOrBelow = {}
         /\ region_left = asked.left
         /\ region_right >= asked.left - 1
         /\ asked.left \in Candidates <=> region_right < region_left
<1>1. /\ region_right = r /\ r \in Int /\ l \in Nat
      /\ r + 1 \in Candidates /\ region_left = asked.left
      /\ asked.left \in Nat /\ asked.addr \in Nat
  BY DEF LoopInv, AskedOK, NothingLeft
<1>2. \A k \in Candidates : k \in Int /\ k > r /\ k >= asked.left
  BY <1>1, Entries DEF NothingLeft, AskedOK
<1>3. AtOrBelow = {}
  BY <1>1, <1>2, Entries DEF AtOrBelow, LoopInv
<1> QED  BY <1>1, <1>2, <1>3

(* The left end of the region is the last entry that is not too high, but  *)
(* for those that addr has passed on its way.                              *)
LEMMA EndFound ==
  ASSUME AskedOK, LoopInv, l > r, LeftFound
  PROVE  /\ AtOrBelow # {}
         /\ region_left \in Candidates
         /\ region_right \in region_left .. asked.right
         /\ \A k \in Candidates : k > region_left => k > region_right
         /\ \A k \in Candidates : k > region_right => stabs[k].value > asked.addr
         /\ \A v \in asked.addr .. stabs[region_left].value :
              \E k \in Candidates : stabs[k].value = v
<1>1. /\ region_right = r /\ r \in Int /\ l \in Nat /\ r <= asked.right
      /\ asked.addr \in Nat /\ addr \in Nat /\ asked.addr <= addr
      /\ asked.right \in Int
  BY DEF LoopInv, AskedOK
<1>2. \A k \in Candidates : k \in Int /\ stabs[k].value \in Nat
  BY Entries
<1>3. region_left \in Candidates /\ stabs[region_left].value < addr
  BY DEF LeftFound
<1>4. AtOrBelow # {}
  <2>1. CASE asked.addr = addr
    BY <1>1, <1>2, <1>3, <2>1 DEF AtOrBelow
  <2>2. CASE asked.addr < addr
    <3>1. asked.addr \in asked.addr .. addr - 1
      BY <1>1, <2>2
    <3>2. PICK k \in Candidates : stabs[k].value = asked.addr
      BY <3>1 DEF LoopInv
    <3> QED  BY <1>1, <3>2 DEF AtOrBelow
  <2> QED  BY <1>1, <2>1, <2>2
<1>5. region_right \in region_left .. asked.right
  BY <1>1, <1>2, <1>3 DEF LeftFound
<1>6. \A k \in Candidates : k > region_left => k > region_right
  BY <1>1, <1>2 DEF LeftFound
<1>7. \A v \in asked.addr .. stabs[region_left].value : v \in asked.addr .. addr - 1
  BY <1>1, <1>2, <1>3
<1> QED  BY <1>1, <1>3, <1>4, <1>5, <1>6, <1>7 DEF LoopInv

LEMMA EndsInv ==
  ASSUME SearchInv, SearchEnds
  PROVE  SearchInv'
<1>1. AskedOK /\ LoopInv /\ l > r /\ ~searching'
  BY DEF SearchInv, SearchEnds
<1>2. AskedOK' /\ searching' \in BOOLEAN
  BY <1>1 DEF AskedOK, SearchEnds
<1>3. /\ Candidates' = Candidates /\ AtOrBelow' = AtOrBelow
      /\ asked' = asked /\ stabs' = stabs
  BY DEF SearchEnds, Candidates, AtOrBelow, Of
<1>4. asked.left \in Nat /\ region_left \in Int /\ region_right \in Int
  BY <1>1 DEF AskedOK, LoopInv
<1>5. SearchResult'
  <2>1. CASE ~any_matches
    BY <1>1, <1>3, <2>1, EndUnmatched DEF SearchEnds, SearchResult
  <2>2. CASE any_matches /\ NothingLeft
    <3>1. CASE region_right < region_left
      BY <1>1, <1>3, <1>4, <2>2, <3>1, EndTooHigh DEF SearchEnds, SearchResult
    <3>2. CASE region_right >= region_left
      <4>1. PICK k \in region_left .. region_right :
              Rightmost(k) /\ region_left' = k /\ region_right' = region_right
        BY <1>4, <2>2, <3>2 DEF SearchEnds
      <4>2. k = region_left
        BY <1>1, <1>4, <2>2, <4>1, EndTooHigh, Entries DEF Rightmost, Of, LoopInv, AskedOK
      <4> QED  BY <1>1, <1>3, <1>4, <2>2, <3>2, <4>1, <4>2, EndTooHigh DEF SearchResult
    <3> QED  BY <1>4, <3>1, <3>2
  <2>3. CASE any_matches /\ LeftFound
    <3>1. region_right >= region_left
      BY <1>1, <1>4, <2>3, EndFound
    <3>2. PICK k \in region_left .. region_right :
            Rightmost(k) /\ region_left' = k /\ region_right' = region_right
      BY <1>4, <2>3, <3>1 DEF SearchEnds
    <3>3. k = region_left
      BY <1>1, <1>4, <2>3, <3>2, EndFound, Entries DEF Rightmost, Of, LoopInv, AskedOK
    <3> QED  BY <1>1, <1>3, <2>3, <3>2, <3>3, EndFound DEF SearchResult
  <2> QED  BY <1>1, <2>1, <2>2, <2>3 DEF LoopInv
<1>6. AtOrBelow' # {} => RegionClosed'
  <2> HAVE AtOrBelow' # {}
  <2>1. Candidates # {} /\ ~NothingLeft
    BY <1>1, <1>3, EndTooHigh, EndUnmatched DEF AtOrBelow, LoopInv
  <2>2. any_matches /\ LeftFound
    BY <1>1, <2>1 DEF LoopInv
  <2>3. region_right' = region_right
    BY <1>1, <1>4, <2>2, EndFound DEF SearchEnds
  <2> QED  BY <1>1, <1>3, <2>3 DEF RegionClosed, LoopInv
<1> QED  BY <1>1, <1>2, <1>5, <1>6 DEF SearchInv

-----------------------------------------------------------------------------
LEMMA StutterInv ==
  ASSUME SearchInv, UNCHANGED searchVars
  PROVE  SearchInv'
<1> USE DEF searchVars
<1>1. /\ AskedOK' = AskedOK /\ Candidates' = Candidates
      /\ SearchResult' = SearchResult
  BY DEF AskedOK, Candidates, AtOrBelow, Of, SearchResult
<1>2. /\ AtOrBelow' = AtOrBelow /\ RegionClosed' = RegionClosed
      /\ searching' = searching
  BY <1>1 DEF AtOrBelow, RegionClosed
<1>3. LoopInv' = LoopInv
  BY <1>1, <1>2 DEF LoopInv, NothingLeft, LeftFound, Sorted, Of
<1> QED  BY <1>1, <1>2, <1>3 DEF SearchInv

(* Whatever is searched, however the types are mixed, and wherever the     *)
(* address lies: the entry and the region that stab_binsearch returns      *)
(* (kdebug.c:50-94).                                                       *)
THEOREM SearchCorrect == SearchSpec => []SearchResult
<1>1. SearchInit => SearchInv
  BY InitInv
<1>2. SearchInv /\ [Call \/ SearchTurn \/ SearchEnds]_searchVars => SearchInv'
  BY CallInv, TurnInv, EndsInv, StutterInv
<1>3. SearchInv => SearchResult
  BY DEF SearchInv
<1> QED  BY <1>1, <1>2, <1>3, PTL DEF SearchSpec

-----------------------------------------------------------------------------
(* runcmd.  Wherever it is in the line, argv has the words that begin      *)
(* before, and the spaces before it are 0.                                 *)

(* Position k of the buffer is not in a word.                              *)
Blank(k) == k = Len(typed) \/ typed[k + 1] = SPACE

(* The buffer, when runcmd has come to position p: every space before it   *)
(* has become a 0.                                                         *)
Split(p) ==
  [k \in 0 .. Len(typed) |->
     IF k = Len(typed) \/ (k < p /\ typed[k + 1] = SPACE) THEN 0
     ELSE typed[k + 1]]

LineOK ==
  /\ typed \in Seq(Characters \cup {SPACE})
  /\ ptr \in 0 .. Len(typed)
  /\ line = Split(ptr)

(* argv has the words that begin before position p, in their order.        *)
WordsBefore(p) ==
  /\ argc \in 0 .. MAXARGS - 1
  /\ DOMAIN argv = 0 .. MAXARGS - 1
  /\ \A k \in 0 .. argc - 1 :
       argv[k] \in Nat /\ argv[k] < p /\ argv[k] + 1 \in Starts
  /\ \A j, k \in 0 .. argc - 1 : j < k => argv[j] < argv[k]
  /\ \A s \in Starts : s <= p => \E k \in 0 .. argc - 1 : argv[k] + 1 = s

(* Not inside of a word.                                                   *)
BetweenWords == ptr = 0 \/ typed[ptr] = SPACE \/ Blank(ptr)

Prompted ==
  /\ typed = <<>> /\ ptr = 0 /\ argc = 0 /\ argv = NoArguments
  /\ does = Nothing

AllWords ==
  /\ ptr = Len(typed)
  /\ WordsBefore(Len(typed))
  /\ argv[argc] = NULL

(* What runcmd has done, or is about to do.                                *)
Outcome ==
  \/ does = TooMany /\ Cardinality(Starts) >= MAXARGS
  \/ does = Nothing /\ AllWords /\ argc = 0
  \/ does = Unknown /\ AllWords /\ argc > 0 /\ Found = {}
  \/ does \in Found /\ AllWords /\ argc > 0

RunInv ==
  /\ LineOK
  /\ \/ pc = "prompt" /\ Prompted
     \/ pc = "gobble" /\ does = Nothing /\ WordsBefore(ptr) /\ BetweenWords
     \/ pc = "scan" /\ does = Nothing /\ WordsBefore(ptr + 1)
     \/ pc = "lookup" /\ does = Nothing /\ AllWords
     \/ pc \in {"command", "backtrace", "done"} /\ Outcome

(* A set of numbers that is not empty has a least one.                     *)
LEMMA LeastNat ==
  ASSUME NEW S \in SUBSET Nat, S # {}
  PROVE  \E m \in S : \A k \in S : m <= k
PROOF
<1> DEFINE R == OpToRel(<, Nat)
<1>1. IsWellFoundedOn(R, Nat)
  BY NatLessThanWellFounded
<1>2. \A x, y \in Nat : x < y => <<x, y>> \in R
  BY DEF OpToRel
<1> HIDE DEF R
<1>3. PICK m \in S : \A k \in S : ~ (<<k, m>> \in R)
  BY <1>1, WFMin
<1>4. ASSUME NEW k \in S PROVE m <= k
  <2>1. m \in Nat /\ k \in Nat /\ ~ (<<k, m>> \in R)
    BY <1>3
  <2>2. ~(k < m)
    BY <2>1, <1>2
  <2> QED BY <2>1, <2>2
<1> QED BY <1>4

(* What has become of the character at position k.                         *)
LEMMA InLine ==
  ASSUME LineOK, NEW k \in 0 .. Len(typed)
  PROVE  /\ Len(typed) \in Nat
         /\ k < Len(typed) => typed[k + 1] \in Characters \cup {SPACE}
         /\ k = Len(typed) => line[k] = 0
         /\ k < ptr /\ k < Len(typed) =>
              line[k] = IF typed[k + 1] = SPACE THEN 0 ELSE typed[k + 1]
         /\ k >= ptr /\ k < Len(typed) => line[k] = typed[k + 1]
         /\ k >= ptr => (line[k] \in {SPACE, 0} <=> Blank(k))
         /\ k >= ptr => (line[k] = 0 <=> k = Len(typed))
PROOF
<1>1. Len(typed) \in Nat
  BY DEF LineOK
<1>2. k < Len(typed) => typed[k + 1] \in Characters \cup {SPACE}
  BY <1>1 DEF LineOK
<1>3. line[k] = IF k = Len(typed) \/ (k < ptr /\ typed[k + 1] = SPACE) THEN 0
                ELSE typed[k + 1]
  BY DEF LineOK, Split
<1> QED BY <1>1, <1>2, <1>3, RunCmdAssumption DEF LineOK, Blank

LEMMA StartsInt ==
  typed \in Seq(Characters \cup {SPACE}) => Starts \subseteq Nat
  BY DEF Starts

(* No word begins between p and q.                                         *)
LEMMA NoMoreWords ==
  ASSUME NEW p \in Nat, NEW q \in Nat, p <= q, WordsBefore(p),
         \A s \in Starts : s <= q => s <= p
  PROVE  WordsBefore(q)
PROOF
<1>1. \A k \in 0 .. argc - 1 :
        argv[k] \in Nat /\ argv[k] < q /\ argv[k] + 1 \in Starts
  BY DEF WordsBefore
<1>2. \A s \in Starts : s <= q => \E k \in 0 .. argc - 1 : argv[k] + 1 = s
  BY DEF WordsBefore
<1> QED BY <1>1, <1>2 DEF WordsBefore

LEMMA RunInit == RunCmdInit => RunInv
PROOF
<1> SUFFICES ASSUME RunCmdInit PROVE RunInv
  OBVIOUS
<1>1. Len(typed) = 0 /\ typed \in Seq(Characters \cup {SPACE})
  BY DEF RunCmdInit
<1>2. line = Split(ptr)
  BY <1>1 DEF RunCmdInit, Buffer, Split
<1> QED BY <1>1, <1>2 DEF RunCmdInit, RunInv, LineOK, Prompted

(* One step of runcmd after another.                                      *)
LEMMA CallRun == RunInv /\ CallRuncmd => RunInv'
PROOF
<1> SUFFICES ASSUME RunInv, CallRuncmd PROVE RunInv'
  OBVIOUS
<1>1. Prompted
  BY DEF RunInv, CallRuncmd
<1>2. PICK n \in 0 .. MaxLength : typed' \in [1 .. n -> Characters \cup {SPACE}]
  BY DEF CallRuncmd, Lines
<1>3. typed' \in Seq(Characters \cup {SPACE}) /\ Len(typed') = n
  BY <1>2
<1>4. ptr' = 0 /\ ptr' \in 0 .. Len(typed')
  BY <1>1, <1>3 DEF CallRuncmd, Prompted
<1>5. line' = Split(ptr)'
  BY <1>3, <1>4 DEF CallRuncmd, Buffer, Split
<1>6. argc' = 0 /\ DOMAIN argv' = 0 .. MAXARGS - 1
  BY <1>1 DEF CallRuncmd, Prompted, NoArguments
<1>7. \A s \in Starts' : ~(s <= 0)
  BY <1>3 DEF Starts
<1>8. WordsBefore(ptr)'
  BY <1>4, <1>6, <1>7, RunCmdAssumption DEF WordsBefore
<1> QED BY <1>1, <1>3, <1>4, <1>5, <1>8
  DEF RunInv, LineOK, CallRuncmd, BetweenWords, Prompted

LEMMA GobbleRun == RunInv /\ Gobble => RunInv'
PROOF
<1> SUFFICES ASSUME RunInv, Gobble PROVE RunInv'
  OBVIOUS
<1>1. LineOK /\ WordsBefore(ptr) /\ does = Nothing
  BY DEF RunInv, Gobble
<1>a. ptr \in 0 .. Len(typed) /\ line[ptr] = SPACE /\ SPACE # 0
  BY <1>1, RunCmdAssumption DEF LineOK, Gobble
<1>2. ptr < Len(typed) /\ typed[ptr + 1] = SPACE /\ Len(typed) \in Nat /\ ptr \in Nat
  BY <1>1, <1>a, InLine
<1>3. line' = Split(ptr)'
  <2>1. line = Split(ptr) /\ line' = [line EXCEPT ![ptr] = 0]
    BY <1>1 DEF Gobble, LineOK
  <2>2. typed' = typed /\ ptr' = ptr + 1
    BY DEF Gobble
  <2>3. DOMAIN line' = 0 .. Len(typed) /\ DOMAIN Split(ptr)' = 0 .. Len(typed)
    BY <2>1, <2>2 DEF Split
  <2>4. ASSUME NEW k \in 0 .. Len(typed) PROVE line'[k] = Split(ptr)'[k]
    BY <1>2, <2>1, <2>2 DEF Split
  <2>5. line' = [k \in 0 .. Len(typed) |-> line'[k]]
    BY <2>1 DEF Split
  <2>6. Split(ptr)' = [k \in 0 .. Len(typed) |-> Split(ptr)'[k]]
    BY <2>2 DEF Split
  <2> QED BY <2>4, <2>5, <2>6
<1>4. \A s \in Starts : s <= ptr + 1 => s <= ptr
  BY <1>2 DEF Starts
<1>b. Starts' = Starts /\ Starts \subseteq Nat
  BY <1>1, StartsInt DEF Gobble, Starts, LineOK
<1>c. WordsBefore(ptr + 1)
  BY <1>1, <1>2, <1>4, NoMoreWords
<1>5. WordsBefore(ptr)'
  BY <1>b, <1>c DEF WordsBefore, Gobble
<1>6. LineOK' /\ BetweenWords'
  <2>1. UNCHANGED typed /\ ptr' = ptr + 1
    BY DEF Gobble
  <2> QED BY <1>1, <1>2, <1>3, <2>1 DEF LineOK, BetweenWords
<1> QED BY <1>1, <1>5, <1>6 DEF RunInv, Gobble

LEMMA ScanRun == RunInv /\ Scan => RunInv'
PROOF
<1> SUFFICES ASSUME RunInv, Scan PROVE RunInv'
  OBVIOUS
<1>1. LineOK /\ WordsBefore(ptr + 1) /\ does = Nothing
  BY DEF RunInv, Scan
<1>2. Len(typed) \in Nat /\ ptr \in 0 .. Len(typed)
  BY <1>1 DEF LineOK
<1>a. Starts' = Starts /\ Starts \subseteq Nat
  BY <1>1, StartsInt DEF Scan, Starts, LineOK
<1>3. CASE line[ptr] \notin {SPACE, 0}
  <2>1. ptr < Len(typed) /\ typed[ptr + 1] # SPACE
    BY <1>1, <1>2, <1>3, InLine DEF Blank
  <2>2. ptr' = ptr + 1 /\ UNCHANGED <<typed, line, argc, argv, does, pc>>
    BY <1>3 DEF Scan
  <2>3. line' = Split(ptr)'
    BY <1>1, <1>2, <2>1, <2>2 DEF LineOK, Split
  <2>4. \A s \in Starts : s <= ptr + 2 => s <= ptr + 1
    BY <1>2, <2>1 DEF Starts
  <2>5. WordsBefore(ptr + 1)'
    <3>1. WordsBefore(ptr + 2)
      BY <1>1, <1>2, <2>4, NoMoreWords
    <3>2. ptr' + 1 = ptr + 2
      BY <1>2, <2>2
    <3> QED BY <1>a, <2>2, <3>1, <3>2 DEF WordsBefore
  <2>6. LineOK'
    BY <1>1, <1>2, <2>1, <2>2, <2>3 DEF LineOK
  <2> QED BY <1>1, <2>2, <2>5, <2>6 DEF RunInv, Scan
<1>4. CASE line[ptr] \in {SPACE, 0}
  <2>1. Blank(ptr)
    BY <1>1, <1>2, <1>4, InLine
  <2>2. pc' = "gobble" /\ UNCHANGED <<typed, line, ptr, argc, argv, does>>
    BY <1>4 DEF Scan
  <2>3. \A s \in Starts : s # ptr + 1
    BY <1>2, <2>1 DEF Starts, Blank
  <2>4. WordsBefore(ptr)
    <3>1. ASSUME NEW k \in 0 .. argc - 1
          PROVE  argv[k] \in Nat /\ argv[k] < ptr /\ argv[k] + 1 \in Starts
      <4>1. argv[k] \in Nat /\ argv[k] < ptr + 1 /\ argv[k] + 1 \in Starts
        BY <1>1 DEF WordsBefore
      <4>2. argv[k] + 1 # ptr + 1
        BY <2>3, <4>1
      <4> QED BY <1>2, <4>1, <4>2
    <3>2. \A s \in Starts : s <= ptr => s <= ptr + 1
      BY <1>2, <1>a
    <3> QED BY <1>1, <3>1, <3>2 DEF WordsBefore
  <2>5. WordsBefore(ptr)' /\ LineOK' /\ BetweenWords'
    BY <1>1, <2>1, <2>2, <2>4
    DEF WordsBefore, LineOK, BetweenWords, Blank, Starts, Split
  <2> QED BY <1>1, <2>2, <2>5 DEF RunInv
<1> QED BY <1>3, <1>4

LEMMA EndsRun == RunInv /\ LineEnds => RunInv'
PROOF
<1> SUFFICES ASSUME RunInv, LineEnds PROVE RunInv'
  OBVIOUS
<1>1. LineOK /\ WordsBefore(ptr) /\ does = Nothing
  BY DEF RunInv, LineEnds
<1>2. ptr = Len(typed)
  BY <1>1, InLine DEF LineOK, LineEnds
<1>3. argc \in DOMAIN argv
  BY <1>1, RunCmdAssumption DEF WordsBefore
<1>4. argv'[argc] = NULL /\ \A k \in 0 .. argc - 1 : argv'[k] = argv[k]
  BY <1>1, <1>3 DEF LineEnds, WordsBefore
<1>a. Starts' = Starts /\ UNCHANGED <<typed, ptr, argc>>
  BY DEF LineEnds, Starts
<1>b. DOMAIN argv' = DOMAIN argv
  BY DEF LineEnds
<1>5. AllWords'
  BY <1>1, <1>2, <1>4, <1>a, <1>b DEF AllWords, WordsBefore
<1>6. LineOK'
  BY <1>1 DEF LineOK, LineEnds, Split
<1> QED BY <1>1, <1>5, <1>6 DEF RunInv, LineEnds

(* A word begins at ptr, and argv has room for it.                         *)
LEMMA WordRun == RunInv /\ NextWord /\ ~Full => RunInv'
PROOF
<1> SUFFICES ASSUME RunInv, NextWord, ~Full PROVE RunInv'
  OBVIOUS
<1>1. LineOK /\ WordsBefore(ptr) /\ BetweenWords /\ does = Nothing
  BY DEF RunInv, NextWord
<1>2. Len(typed) \in Nat /\ ptr \in 0 .. Len(typed)
  BY <1>1 DEF LineOK
<1>3. argv' = [argv EXCEPT ![argc] = ptr] /\ argc' = argc + 1 /\ pc' = "scan"
      /\ UNCHANGED <<typed, line, ptr, does>>
  BY DEF NextWord
<1>4. Starts' = Starts /\ Starts \subseteq Nat
  BY <1>1, <1>3, StartsInt DEF Starts, LineOK
<1>5. ~Blank(ptr)
  BY <1>1, <1>2, InLine DEF NextWord
<1>6. ptr + 1 \in Starts
  BY <1>1, <1>2, <1>5 DEF Blank, BetweenWords, Starts
<1>7. argc \in 0 .. MAXARGS - 2 /\ DOMAIN argv = 0 .. MAXARGS - 1
  BY <1>1, RunCmdAssumption DEF WordsBefore, Full
<1>8. argc' \in 0 .. MAXARGS - 1 /\ DOMAIN argv' = 0 .. MAXARGS - 1
  BY <1>3, <1>7, RunCmdAssumption
<1>9. argv'[argc] = ptr /\ \A k \in 0 .. argc - 1 : argv'[k] = argv[k]
  BY <1>3, <1>7, RunCmdAssumption
<1>10. \A k \in 0 .. argc' - 1 : k = argc \/ k \in 0 .. argc - 1
  BY <1>3, <1>7
<1>11. \A k \in 0 .. argc - 1 :
         argv[k] \in Nat /\ argv[k] < ptr /\ argv[k] + 1 \in Starts
  BY <1>1 DEF WordsBefore
<1>12. ASSUME NEW k \in 0 .. argc' - 1
       PROVE  argv'[k] \in Nat /\ argv'[k] < ptr' + 1 /\ argv'[k] + 1 \in Starts'
  BY <1>2, <1>3, <1>4, <1>6, <1>9, <1>10, <1>11
<1>13. ASSUME NEW j \in 0 .. argc' - 1, NEW k \in 0 .. argc' - 1, j < k
       PROVE  argv'[j] < argv'[k]
  <2>1. j \in 0 .. argc - 1
    BY <1>3, <1>7, <1>13
  <2>2. CASE k = argc
    BY <1>2, <1>9, <1>11, <2>1, <2>2
  <2>3. CASE k \in 0 .. argc - 1
    BY <1>1, <1>9, <1>13, <2>1, <2>3 DEF WordsBefore
  <2> QED BY <1>10, <2>2, <2>3
<1>14. ASSUME NEW s \in Starts, s <= ptr + 1
       PROVE  \E k \in 0 .. argc' - 1 : argv'[k] + 1 = s
  <2>1. CASE s = ptr + 1
    <3>1. argc \in 0 .. argc' - 1
      BY <1>3, <1>7
    <3> QED BY <1>9, <2>1, <3>1
  <2>2. CASE s <= ptr
    <3>1. PICK k \in 0 .. argc - 1 : argv[k] + 1 = s
      BY <1>1, <2>2 DEF WordsBefore
    <3>2. k \in 0 .. argc' - 1
      BY <1>3, <1>7
    <3> QED BY <1>9, <3>1, <3>2
  <2> QED BY <1>2, <1>4, <1>14, <2>1, <2>2
<1>15. WordsBefore(ptr + 1)'
  BY <1>3, <1>4, <1>8, <1>12, <1>13, <1>14 DEF WordsBefore
<1>16. LineOK'
  BY <1>1, <1>3 DEF LineOK, Split
<1> QED BY <1>1, <1>3, <1>15, <1>16 DEF RunInv

(* The positions of the first n words, one for one.                        *)
LEMMA WordsCounted ==
  ASSUME NEW p, WordsBefore(p)
  PROVE  LET T == {argv[k] + 1 : k \in 0 .. argc - 1}
         IN  IsFiniteSet(T) /\ Cardinality(T) = argc
PROOF
<1> DEFINE T == {argv[k] + 1 : k \in 0 .. argc - 1}
           f == [k \in 0 .. argc - 1 |-> argv[k] + 1]
<1>1. argc \in Nat
  BY RunCmdAssumption DEF WordsBefore
<1>2. \A k \in 0 .. argc - 1 : argv[k] \in Nat
  BY DEF WordsBefore
<1>3. \A j, k \in 0 .. argc - 1 : j # k => argv[j] # argv[k]
  <2>1. ASSUME NEW j \in 0 .. argc - 1, NEW k \in 0 .. argc - 1, j # k
        PROVE  argv[j] # argv[k]
    <3>1. j < k \/ k < j
      BY <1>1, <2>1
    <3>2. argv[j] < argv[k] \/ argv[k] < argv[j]
      BY <3>1 DEF WordsBefore
    <3> QED BY <1>2, <3>2
  <2> QED BY <2>1
<1>4. f \in Bijection(0 .. argc - 1, T)
  <2>1. f \in [0 .. argc - 1 -> T]
    OBVIOUS
  <2>2. \A j, k \in 0 .. argc - 1 : f[j] = f[k] => j = k
    BY <1>2, <1>3
  <2>3. \A t \in T : \E k \in 0 .. argc - 1 : f[k] = t
    OBVIOUS
  <2> QED BY <2>1, <2>2, <2>3 DEF Bijection, Injection, Surjection, IsInjective
<1>5. ExistsBijection(0 .. argc - 1, T)
  BY <1>4 DEF ExistsBijection
<1>6. IsFiniteSet(0 .. argc - 1) /\ Cardinality(0 .. argc - 1) = argc
  BY <1>1, FS_Interval
<1> HIDE DEF T
<1>7. IsFiniteSet(T) /\ Cardinality(T) = argc
  BY <1>5, <1>6, FS_Bijection
<1> QED BY <1>7 DEF T

LEMMA StartsFinite ==
  ASSUME LineOK
  PROVE  IsFiniteSet(Starts)
PROOF
<1>1. Len(typed) \in Nat
  BY DEF LineOK
<1>2. IsFiniteSet(1 .. Len(typed)) /\ Starts \in SUBSET (1 .. Len(typed))
  BY <1>1, FS_Interval DEF Starts
<1> QED BY <1>2, FS_Subset

(* When all of them are in argv, argc is how many words there are.         *)
LEMMA AllCounted ==
  ASSUME LineOK, AllWords
  PROVE  Cardinality(Starts) = argc
PROOF
<1> DEFINE T == {argv[k] + 1 : k \in 0 .. argc - 1}
<1>1. WordsBefore(Len(typed))
  BY DEF AllWords
<1>2. \A s \in Starts : s <= Len(typed)
  BY DEF Starts
<1>3. T = Starts
  BY <1>1, <1>2 DEF WordsBefore
<1> QED BY <1>1, <1>3, WordsCounted

(* A word begins at ptr, and argv is full: there are too many.             *)
LEMMA FullRun == RunInv /\ NextWord /\ Full => RunInv'
PROOF
<1> SUFFICES ASSUME RunInv, NextWord, Full PROVE RunInv'
  OBVIOUS
<1>1. LineOK /\ WordsBefore(ptr) /\ BetweenWords
  BY DEF RunInv, NextWord
<1>2. Len(typed) \in Nat /\ ptr \in 0 .. Len(typed)
  BY <1>1 DEF LineOK
<1>3. does' = TooMany /\ pc' = "done" /\ UNCHANGED <<typed, line, ptr>>
  BY DEF NextWord
<1>4. ~Blank(ptr)
  BY <1>1, <1>2, InLine DEF NextWord
<1>5. ptr + 1 \in Starts
  BY <1>1, <1>2, <1>4 DEF Blank, BetweenWords, Starts
<1> DEFINE T == {argv[k] + 1 : k \in 0 .. argc - 1}
<1>6. T \subseteq Starts /\ ptr + 1 \notin T
  BY <1>1, <1>2 DEF WordsBefore
<1>7. IsFiniteSet(T) /\ Cardinality(T) = MAXARGS - 1
  BY <1>1, WordsCounted DEF Full
<1> HIDE DEF T
<1>8. IsFiniteSet(T \cup {ptr + 1}) /\ Cardinality(T \cup {ptr + 1}) = MAXARGS
  <2>1. IsFiniteSet(T \cup {ptr + 1})
    BY <1>7, FS_AddElement
  <2>2. Cardinality(T \cup {ptr + 1}) = Cardinality(T) + 1
    BY <1>6, <1>7, FS_AddElement
  <2> QED BY <1>7, <2>1, <2>2, RunCmdAssumption
<1>9. MAXARGS <= Cardinality(Starts)
  <2>1. T \cup {ptr + 1} \in SUBSET Starts /\ IsFiniteSet(Starts)
    BY <1>1, <1>5, <1>6, StartsFinite
  <2>2. Cardinality(T \cup {ptr + 1}) <= Cardinality(Starts)
    BY <2>1, FS_Subset
  <2> QED BY <1>8, <2>2
<1>a. Cardinality(Starts) \in Nat
  BY <1>1, StartsFinite, FS_CardinalityType
<1>10. Cardinality(Starts)' >= MAXARGS
  BY <1>3, <1>9, <1>a, RunCmdAssumption DEF Starts
<1>11. LineOK'
  BY <1>1, <1>3 DEF LineOK, Split
<1> QED BY <1>3, <1>10, <1>11 DEF RunInv, Outcome

LEMMA LookupRun == RunInv /\ Lookup => RunInv'
PROOF
<1> SUFFICES ASSUME RunInv, Lookup PROVE RunInv'
  OBVIOUS
<1>1. LineOK /\ AllWords /\ does = Nothing
  BY DEF RunInv, Lookup
<1>2. UNCHANGED <<typed, line, ptr, argc, argv>>
  BY DEF Lookup
<1>3. LineOK' /\ AllWords' /\ Found' = Found
  BY <1>1, <1>2
  DEF LineOK, Split, AllWords, WordsBefore, Starts, Found, Matches
<1>4. argc \in Nat
  BY <1>1, RunCmdAssumption DEF AllWords, WordsBefore
<1>5. pc' \in {"command", "done"}
  BY DEF Lookup
<1>a. SUFFICES Outcome'
  BY <1>3, <1>5 DEF RunInv
<1>6. CASE argc = 0
  BY <1>2, <1>3, <1>6 DEF Lookup, Outcome
<1>7. CASE argc # 0 /\ Found = {}
  BY <1>2, <1>3, <1>4, <1>7 DEF Lookup, Outcome
<1>8. CASE argc # 0 /\ Found # {}
  <2>1. Found \in SUBSET Nat
    BY RunCmdAssumption DEF Found
  <2>2. \E k \in Found : \A j \in Found : k <= j
    BY <1>8, <2>1, LeastNat
  <2>3. does' \in Found
    BY <1>8, <2>2 DEF Lookup
  <2> QED BY <1>2, <1>3, <1>4, <1>8, <2>3 DEF Outcome
<1> QED BY <1>6, <1>7, <1>8

(* What does not touch the variables of runcmd, while a command runs.      *)
LEMMA CommandRun ==
  ASSUME RunInv, pc \in {"command", "backtrace"}, pc' \in {"backtrace", "done"},
         UNCHANGED <<typed, line, ptr, argc, argv, does>>
  PROVE  RunInv'
PROOF
<1>1. LineOK /\ Outcome
  BY DEF RunInv
<1>2. LineOK' /\ Outcome'
  BY <1>1
  DEF LineOK, Split, Outcome, AllWords, WordsBefore, Starts, Found, Matches
<1> QED BY <1>2 DEF RunInv

LEMMA PromptRun == RunInv /\ Prompt => RunInv'
PROOF
<1> SUFFICES ASSUME RunInv, Prompt PROVE RunInv'
  OBVIOUS
<1>1. Len(typed') = 0 /\ typed' \in Seq(Characters \cup {SPACE})
  BY DEF Prompt
<1>2. line' = Split(ptr)'
  BY <1>1 DEF Prompt, Buffer, Split
<1> QED BY <1>1, <1>2 DEF Prompt, RunInv, LineOK, Prompted

(* Which of them a step of Monitor is for runcmd.                          *)
LEMMA RunInvNext == RunInv /\ [Next]_vars => RunInv'
PROOF
<1> SUFFICES ASSUME RunInv, [Next]_vars PROVE RunInv'
  OBVIOUS
<1>1. CASE ReadLine
  BY <1>1, CallRun DEF ReadLine
<1>2. CASE Runcmd
  BY <1>2, GobbleRun, WordRun, FullRun, ScanRun, EndsRun, LookupRun DEF Runcmd
<1>3. CASE CallCommand
  <2>1. pc = "command" /\ pc' \in {"backtrace", "done"}
        /\ UNCHANGED <<typed, line, ptr, argc, argv, does>>
    BY <1>3 DEF CallCommand
  <2> QED BY <2>1, CommandRun
<1>4. CASE mon_backtrace
  <2>1. pc = "backtrace" /\ pc' \in {"backtrace", "done"}
        /\ UNCHANGED <<typed, line, ptr, argc, argv, does>>
    BY <1>4 DEF mon_backtrace
  <2> QED BY <2>1, CommandRun
<1>5. CASE NextPrompt
  BY <1>5, PromptRun DEF NextPrompt
<1>6. CASE UNCHANGED vars
  BY <1>6 DEF vars, runcmdVars, RunInv, LineOK, Split, Prompted, WordsBefore,
     BetweenWords, Blank, Starts, AllWords, Outcome, Found, Matches
<1> QED BY <1>1, <1>2, <1>3, <1>4, <1>5, <1>6 DEF Next, Kernel

(* A word ends, and in one place.                                          *)
LEMMA WordEnds ==
  ASSUME LineOK, NEW p \in Starts
  PROVE  \E e \in p .. Len(typed) :
           /\ SPACE \notin {typed[k] : k \in p .. e}
           /\ e = Len(typed) \/ typed[e + 1] = SPACE
PROOF
<1>1. Len(typed) \in Nat /\ p \in 1 .. Len(typed) /\ typed[p] # SPACE
  BY DEF LineOK, Starts
<1> DEFINE E == {e \in p .. Len(typed) : e = Len(typed) \/ typed[e + 1] = SPACE}
<1>2. E \in SUBSET Nat /\ E # {}
  BY <1>1
<1>3. PICK e \in E : \A f \in E : e <= f
  BY <1>2, LeastNat
<1>4. ASSUME NEW k \in p .. e, typed[k] = SPACE PROVE FALSE
  <2>1. k # p
    BY <1>1, <1>4
  <2>2. k - 1 \in p .. Len(typed) /\ typed[k - 1 + 1] = SPACE
    BY <1>1, <1>3, <1>4, <2>1
  <2>3. k - 1 \in E
    BY <2>2
  <2>4. e <= k - 1
    BY <1>3, <2>3
  <2> QED BY <1>1, <1>3, <2>2, <2>4
<1> QED BY <1>3, <1>4

LEMMA WordIs ==
  ASSUME LineOK, NEW p \in Starts, NEW e \in p .. Len(typed),
         SPACE \notin {typed[k] : k \in p .. e},
         e = Len(typed) \/ typed[e + 1] = SPACE
  PROVE  Word(p) = SubSeq(typed, p, e)
PROOF
<1>1. Len(typed) \in Nat /\ p \in 1 .. Len(typed)
  BY DEF LineOK, Starts
<1> DEFINE Ends(f) == /\ SPACE \notin {typed[k] : k \in p .. f}
                      /\ f = Len(typed) \/ typed[f + 1] = SPACE
<1>2. ASSUME NEW f \in p .. Len(typed), Ends(f), f # e PROVE FALSE
  <2>1. CASE f < e
    <3>1. f + 1 \in p .. e /\ typed[f + 1] = SPACE
      BY <1>1, <1>2, <2>1
    <3> QED BY <3>1
  <2>2. CASE e < f
    <3>1. e + 1 \in p .. f /\ typed[e + 1] = SPACE
      BY <1>1, <1>2, <2>2
    <3> QED BY <1>2, <3>1
  <2> QED BY <1>1, <1>2, <2>1, <2>2
<1>3. Ends(e)
  OBVIOUS
<1> HIDE DEF Ends
<1>4. e = CHOOSE f \in p .. Len(typed) : Ends(f)
  BY <1>2, <1>3
<1> QED BY <1>4 DEF Word, Ends

(* Where the buffer has been split, from the word's beginning to its end.  *)
LEMMA WordInBuffer ==
  ASSUME LineOK, ptr = Len(typed), NEW p \in Starts, NEW e \in p .. Len(typed),
         SPACE \notin {typed[k] : k \in p .. e},
         e = Len(typed) \/ typed[e + 1] = SPACE
  PROVE  /\ line[e] = 0
         /\ \A k \in p - 1 .. e - 1 : line[k] = typed[k + 1] /\ line[k] # 0
PROOF
<1>1. Len(typed) \in Nat /\ p \in 1 .. Len(typed)
  BY DEF LineOK, Starts
<1>2. line[e] = 0
  BY <1>1, InLine
<1>3. ASSUME NEW k \in p - 1 .. e - 1
      PROVE  line[k] = typed[k + 1] /\ line[k] # 0
  <2>1. k \in 0 .. Len(typed) /\ k < Len(typed) /\ k + 1 \in p .. e
    BY <1>1
  <2>2. typed[k + 1] # SPACE
    BY <2>1
  <2>3. line[k] = typed[k + 1] /\ typed[k + 1] \in Characters
    BY <2>1, <2>2, InLine
  <2> QED BY <2>3, RunCmdAssumption
<1> QED BY <1>2, <1>3

(* The string at the beginning of a word is the word.                      *)
LEMMA StringIsWord ==
  ASSUME LineOK, ptr = Len(typed), NEW p \in Starts
  PROVE  StringAt(p - 1) = Word(p)
PROOF
<1>1. Len(typed) \in Nat /\ p \in 1 .. Len(typed)
  BY DEF LineOK, Starts
<1>2. PICK e \in p .. Len(typed) : /\ SPACE \notin {typed[k] : k \in p .. e}
                                   /\ e = Len(typed) \/ typed[e + 1] = SPACE
  BY WordEnds
<1>3. Word(p) = SubSeq(typed, p, e)
  BY <1>2, WordIs
<1>4. line[e] = 0 /\ \A k \in p - 1 .. e - 1 : line[k] = typed[k + 1] /\ line[k] # 0
  BY <1>2, WordInBuffer
<1> DEFINE Ends(f) == line[f] = 0 /\ \A k \in p - 1 .. f - 1 : line[k] # 0
<1>5. ASSUME NEW f \in p - 1 .. Len(typed), Ends(f) PROVE f = e
  <2>1. ~(f < e)
    BY <1>1, <1>4, <1>5
  <2>2. ~(e < f)
    BY <1>1, <1>4, <1>5
  <2> QED BY <1>1, <2>1, <2>2
<1>6. Ends(e) /\ e \in p - 1 .. Len(typed)
  BY <1>1, <1>4
<1> HIDE DEF Ends
<1>7. e = CHOOSE f \in p - 1 .. Len(typed) : Ends(f)
  BY <1>5, <1>6
<1>8. StringAt(p - 1) = [k \in 1 .. e - (p - 1) |-> line[p - 1 + k - 1]]
  BY <1>7 DEF StringAt, Ends
<1>9. \A k \in 1 .. e - (p - 1) : line[p - 1 + k - 1] = typed[p + k - 1]
  <2>1. ASSUME NEW k \in 1 .. e - (p - 1)
        PROVE  line[p - 1 + k - 1] = typed[p + k - 1]
    <3>1. p + k - 2 \in p - 1 .. e - 1 /\ p - 1 + k - 1 = p + k - 2
          /\ p + k - 2 + 1 = p + k - 1
      BY <1>1
    <3> QED BY <1>4, <3>1
  <2> QED BY <2>1
<1>10. SubSeq(typed, p, e) = [k \in 1 .. e - p + 1 |-> typed[p + k - 1]]
  BY <1>1 DEF LineOK
<1>11. e - (p - 1) = e - p + 1
  BY <1>1
<1> QED BY <1>3, <1>8, <1>9, <1>10, <1>11

(* strcmp finds a name equal to the word, if it is.                        *)
LEMMA MatchesWord ==
  ASSUME LineOK, ptr = Len(typed), NEW p \in Starts, NEW c \in DOMAIN Commands
  PROVE  Matches(c, p - 1) <=> Commands[c] = Word(p)
PROOF
<1>1. Len(typed) \in Nat /\ p \in 1 .. Len(typed)
  BY DEF LineOK, Starts
<1>2. PICK e \in p .. Len(typed) : /\ SPACE \notin {typed[k] : k \in p .. e}
                                   /\ e = Len(typed) \/ typed[e + 1] = SPACE
  BY WordEnds
<1>3. Word(p) = SubSeq(typed, p, e)
  BY <1>2, WordIs
<1>4. line[e] = 0 /\ \A k \in p - 1 .. e - 1 : line[k] = typed[k + 1] /\ line[k] # 0
  BY <1>2, WordInBuffer
<1> DEFINE name == Commands[c]
           m == e - p + 1
<1>5. name \in Seq(Characters) /\ Len(name) \in Nat
      /\ \A j \in 1 .. Len(name) : name[j] # 0
  BY RunCmdAssumption
<1>6. Word(p) \in Seq(Characters \cup {SPACE}) /\ Len(Word(p)) = m
      /\ \A j \in 1 .. m : Word(p)[j] = typed[p + j - 1]
  BY <1>1, <1>3 DEF LineOK
<1>7. \A j \in 1 .. m : line[p - 1 + j - 1] = Word(p)[j] /\ line[p - 1 + j - 1] # 0
  <2>1. ASSUME NEW j \in 1 .. m
        PROVE  line[p - 1 + j - 1] = Word(p)[j] /\ line[p - 1 + j - 1] # 0
    <3>1. p - 1 + j - 1 \in p - 1 .. e - 1 /\ p - 1 + j - 1 + 1 = p + j - 1
      BY <1>1
    <3> QED BY <1>4, <1>6, <3>1
  <2> QED BY <2>1
<1> HIDE DEF name
<1>8. ASSUME Matches(c, p - 1) PROVE name = Word(p)
  <2>1. /\ \A j \in 1 .. Len(name) :
             p - 1 + j - 1 < Len(typed) /\ line[p - 1 + j - 1] = name[j]
        /\ line[p - 1 + Len(name)] = 0
    BY <1>8 DEF Matches, name
  <2>2. ~(Len(name) < m)
    <3>1. SUFFICES ASSUME Len(name) < m PROVE FALSE
      OBVIOUS
    <3>2. p - 1 + Len(name) \in p - 1 .. e - 1
      BY <1>1, <1>5, <3>1
    <3> QED BY <1>4, <2>1, <3>2
  <2>3. ~(m < Len(name))
    <3>1. SUFFICES ASSUME m < Len(name) PROVE FALSE
      OBVIOUS
    <3>2. m + 1 \in 1 .. Len(name) /\ p - 1 + (m + 1) - 1 = e
      BY <1>1, <1>5, <3>1
    <3>3. line[p - 1 + (m + 1) - 1] = name[m + 1]
      BY <2>1, <3>2
    <3> QED BY <1>4, <1>5, <3>2, <3>3
  <2>4. Len(name) = m
    BY <1>1, <1>5, <2>2, <2>3
  <2>5. \A j \in 1 .. m : name[j] = Word(p)[j]
    BY <1>7, <2>1, <2>4
  <2> QED BY <1>5, <1>6, <2>4, <2>5
<1>9. ASSUME name = Word(p) PROVE Matches(c, p - 1)
  <2>1. Len(name) = m /\ \A j \in 1 .. m : line[p - 1 + j - 1] = name[j]
    BY <1>6, <1>7, <1>9
  <2>2. \A j \in 1 .. m : p - 1 + j - 1 < Len(typed)
    BY <1>1
  <2>3. line[p - 1 + m] = 0
    <3>1. p - 1 + m = e
      BY <1>1
    <3> QED BY <1>4, <3>1
  <2> QED BY <2>1, <2>2, <2>3 DEF Matches, name
<1> QED BY <1>8, <1>9 DEF name

(* What is in argv when all words are.                                     *)
LEMMA AllWordsInArgv ==
  ASSUME LineOK, AllWords
  PROVE  /\ argc = Cardinality(Starts)
         /\ argv[argc] = NULL
         /\ \A k \in 0 .. argc - 1 :
              /\ argv[k] + 1 \in Starts
              /\ k > 0 => argv[k - 1] < argv[k]
              /\ StringAt(argv[k]) = Word(argv[k] + 1)
PROOF
<1>1. WordsBefore(Len(typed)) /\ ptr = Len(typed) /\ argv[argc] = NULL
  BY DEF AllWords
<1>2. ASSUME NEW k \in 0 .. argc - 1
      PROVE  /\ argv[k] + 1 \in Starts
             /\ k > 0 => argv[k - 1] < argv[k]
             /\ StringAt(argv[k]) = Word(argv[k] + 1)
  <2>1. argv[k] \in Nat /\ argv[k] + 1 \in Starts
    BY <1>1 DEF WordsBefore
  <2>2. (argv[k] + 1) - 1 = argv[k]
    BY <2>1
  <2>3. StringAt(argv[k]) = Word(argv[k] + 1)
    BY <1>1, <2>1, <2>2, StringIsWord
  <2>4. ASSUME k > 0 PROVE argv[k - 1] < argv[k]
    <3>1. k - 1 \in 0 .. argc - 1 /\ k - 1 < k
      BY <1>1, <2>4 DEF WordsBefore
    <3> QED BY <1>1, <3>1 DEF WordsBefore
  <2> QED BY <2>1, <2>3, <2>4
<1> QED BY <1>1, <1>2, AllCounted

LEMMA RunInvArgv == RunInv => ArgvIsWords
PROOF
<1> SUFFICES ASSUME RunInv, pc \in {"command", "done"}, does # TooMany
             PROVE  /\ argc = Cardinality(Starts)
                    /\ argv[argc] = NULL
                    /\ \A k \in 0 .. argc - 1 :
                         /\ argv[k] + 1 \in Starts
                         /\ k > 0 => argv[k - 1] < argv[k]
                         /\ StringAt(argv[k]) = Word(argv[k] + 1)
  BY DEF ArgvIsWords
<1>1. LineOK /\ Outcome
  BY DEF RunInv
<1>2. AllWords
  BY <1>1 DEF Outcome
<1> QED BY <1>1, <1>2, AllWordsInArgv

(* The first of the words, as RunsWhatWasTyped names it.                   *)
LEMMA FirstWord ==
  ASSUME LineOK, AllWords, argc > 0
  PROVE  /\ argv[0] + 1 \in Starts
         /\ argv[0] + 1 = CHOOSE p \in Starts : \A q \in Starts : p <= q
PROOF
<1>1. WordsBefore(Len(typed))
  BY DEF AllWords
<1>2. argc \in Nat /\ 0 \in 0 .. argc - 1
  BY <1>1, RunCmdAssumption DEF WordsBefore
<1>3. Starts \subseteq Nat /\ argv[0] + 1 \in Starts
  BY <1>1, <1>2, StartsInt DEF LineOK, WordsBefore
<1>4. ASSUME NEW q \in Starts PROVE argv[0] + 1 <= q
  <2>1. q <= Len(typed)
    BY DEF Starts
  <2>2. PICK k \in 0 .. argc - 1 : argv[k] + 1 = q
    BY <1>1, <2>1 DEF WordsBefore
  <2>3. argv[0] \in Nat /\ argv[k] \in Nat
    BY <1>1, <1>2 DEF WordsBefore
  <2>4. k = 0 \/ argv[0] < argv[k]
    BY <1>1, <1>2 DEF WordsBefore
  <2> QED BY <2>2, <2>3, <2>4
<1>5. ASSUME NEW p \in Starts, \A q \in Starts : p <= q
      PROVE  p = argv[0] + 1
  <2> DEFINE s == argv[0] + 1
  <2>1. s \in Nat /\ p \in Nat
    BY <1>3
  <2>2. p <= s
    BY <1>3, <1>5
  <2>3. s <= p
    BY <1>4
  <2> HIDE DEF s
  <2>4. p = s
    BY <2>1, <2>2, <2>3
  <2> QED BY <2>4 DEF s
<1> QED BY <1>3, <1>4, <1>5

LEMMA RunInvRuns == RunInv => RunsWhatWasTyped
PROOF
<1> DEFINE name == Word(CHOOSE p \in Starts : \A q \in Starts : p <= q)
<1> SUFFICES ASSUME RunInv, pc \in {"command", "done"}
             PROVE  IF Cardinality(Starts) >= MAXARGS THEN does = TooMany
                    ELSE IF Starts = {} THEN does = Nothing
                    ELSE IF does = Unknown
                         THEN \A k \in DOMAIN Commands : Commands[k] # name
                         ELSE does \in DOMAIN Commands /\ Commands[does] = name
  BY DEF RunsWhatWasTyped
<1>1. LineOK /\ Outcome
  BY DEF RunInv
<1>2. DOMAIN Commands \subseteq Nat
  BY RunCmdAssumption
<1>3. CASE does = TooMany /\ Cardinality(Starts) >= MAXARGS
  BY <1>3
<1>4. CASE AllWords /\ does # TooMany /\ Outcome
  <2>1. argc = Cardinality(Starts) /\ argc \in 0 .. MAXARGS - 1
    BY <1>1, <1>4, AllCounted DEF AllWords, WordsBefore
  <2>2. ~(Cardinality(Starts) >= MAXARGS)
    BY <2>1, RunCmdAssumption
  <2>3. CASE argc = 0 /\ does = Nothing
    <3>1. Starts = {}
      BY <1>1, <2>1, <2>3, StartsFinite, FS_EmptySet
    <3> QED BY <2>2, <2>3, <3>1
  <2>4. CASE argc > 0 /\ ((does = Unknown /\ Found = {}) \/ does \in Found)
    <3>1. argv[0] + 1 \in Starts /\ name = Word(argv[0] + 1)
      BY <1>1, <1>4, <2>4, FirstWord
    <3>2. argv[0] \in Nat
      BY <1>4, <2>1, <2>4, RunCmdAssumption DEF AllWords, WordsBefore
    <3>3. (argv[0] + 1) - 1 = argv[0] /\ ptr = Len(typed)
      BY <1>4, <3>2 DEF AllWords
    <3> HIDE DEF name
    <3>4. ASSUME NEW k \in DOMAIN Commands
          PROVE  Matches(k, argv[0]) <=> Commands[k] = name
      <4>1. Matches(k, (argv[0] + 1) - 1) <=> Commands[k] = Word(argv[0] + 1)
        <5> DEFINE s == argv[0] + 1
        <5>1. s \in Starts /\ ptr = Len(typed)
          BY <3>1, <3>3
        <5> HIDE DEF s
        <5>2. Matches(k, s - 1) <=> Commands[k] = Word(s)
          BY <1>1, <5>1, MatchesWord
        <5> QED BY <5>2 DEF s
      <4> QED BY <3>1, <3>3, <4>1
    <3>5. Starts # {}
      BY <3>1
    <3>6. CASE does = Unknown /\ Found = {}
      BY <2>2, <3>4, <3>5, <3>6 DEF Found
    <3>7. CASE does \in Found
      <4>1. does # Unknown
        BY <1>2, <3>7 DEF Found, Unknown
      <4> QED BY <2>2, <3>4, <3>5, <3>7, <4>1 DEF Found
    <3> QED BY <2>4, <3>6, <3>7
  <2> QED BY <1>4, <2>3, <2>4 DEF Outcome
<1>5. does \in Found => does # TooMany
  BY <1>2 DEF Found, TooMany
<1>6. (AllWords /\ does # TooMany) \/ (does = TooMany /\ Cardinality(Starts) >= MAXARGS)
  BY <1>1, <1>5 DEF Outcome, Nothing, Unknown, TooMany
<1> QED BY <1>1, <1>3, <1>4, <1>6

LEMMA RunInvAlways == Spec => []RunInv
PROOF
<1>1. Init => RunInv
  BY RunInit DEF Init
<1> QED BY <1>1, RunInvNext, PTL DEF Spec

(* runcmd gives a command the words of the line, for lines of any length,  *)
(* as long as argv has room for them (monitor.c:106-129).                  *)
THEOREM Words == Spec => []ArgvIsWords
PROOF
<1> QED BY RunInvAlways, RunInvArgv, PTL

(* The command that runs is the one the first word names; too many         *)
(* arguments are refused, and only then (monitor.c:120, 131-139).          *)
THEOREM CommandRuns == Spec => []RunsWhatWasTyped
PROOF
<1> QED BY RunInvAlways, RunInvRuns, PTL

-----------------------------------------------------------------------------
(* The tables.  What FlattenSeq makes of listings of stabs: each of them,  *)
(* one behind the other.                                                   *)
StabTypes == {"UNDF", "SO", "OPT", "FUN", "PSYM", "SLINE", "SOL"}
AName == STRING \cup {Nameless, StandardInput, "parameter"}
AnEntry == [type : StabTypes, value : Int, desc : Int, name : AName]
Listing == Seq(AnEntry)

(* The concatenations of the first so many of the listings ss.             *)
FirstFlat(flat, ss, count) ==
  flat = [j \in 1 .. count |-> IF j = 1 THEN ss[j] ELSE flat[j - 1] \o ss[j]]

LEMMA PrefixesExist ==
  ASSUME NEW ss, NEW count \in Nat
  PROVE  \E flat : FirstFlat(flat, ss, count)
PROOF
<1> DEFINE Without == {m \in Nat : ~ \E flat : FirstFlat(flat, ss, m)}
<1> SUFFICES ASSUME Without # {} PROVE FALSE
  OBVIOUS
<1>1. PICK m \in Without : \A k \in Without : m <= k
  BY LeastNat
<1>2. m \in Nat /\ ~ \E flat : FirstFlat(flat, ss, m)
  OBVIOUS
<1>3. CASE m = 0
  <2> DEFINE flat == [j \in 1 .. 0 |-> <<>>]
  <2>1. FirstFlat(flat, ss, 0)
    BY DEF FirstFlat
  <2> QED BY <1>2, <1>3, <2>1
<1>4. CASE m # 0
  <2>1. m - 1 \in Nat /\ ~(m <= m - 1)
    BY <1>2, <1>4
  <2>2. PICK g : FirstFlat(g, ss, m - 1)
    BY <1>1, <2>1
  <2> DEFINE flat == [j \in 1 .. m |-> IF j < m THEN g[j]
                                    ELSE IF j = 1 THEN ss[j] ELSE g[j - 1] \o ss[j]]
  <2>3. ASSUME NEW j \in 1 .. m
        PROVE  flat[j] = IF j = 1 THEN ss[j] ELSE flat[j - 1] \o ss[j]
    <3>1. j # 1 => j - 1 \in 1 .. m /\ j - 1 < m /\ flat[j - 1] = g[j - 1]
      BY <1>2
    <3>2. CASE j < m
      <4>1. j \in 1 .. m - 1
        BY <1>2, <3>2
      <4>2. g[j] = IF j = 1 THEN ss[j] ELSE g[j - 1] \o ss[j]
        BY <2>2, <4>1 DEF FirstFlat
      <4> QED BY <3>1, <3>2, <4>2
    <3>3. CASE ~(j < m)
      BY <3>1, <3>3
    <3> QED BY <3>2, <3>3
  <2>4. FirstFlat(flat, ss, m)
    <3>1. flat = [j \in 1 .. m |-> flat[j]]
      OBVIOUS
    <3> HIDE DEF flat
    <3> QED BY <2>3, <3>1 DEF FirstFlat
  <2> QED BY <1>2, <2>4
<1> QED BY <1>3, <1>4

(* Each of the concatenations begins with the ones before it.              *)
LEMMA PrefixesGrow ==
  ASSUME NEW ss \in Seq(Listing), NEW flat, FirstFlat(flat, ss, Len(ss)),
         NEW k \in 1 .. Len(ss)
  PROVE  /\ flat[k] \in Listing
         /\ \A j \in 1 .. k :
              /\ flat[j] \in Listing /\ Len(flat[j]) <= Len(flat[k])
              /\ \A q \in 1 .. Len(flat[j]) : flat[k][q] = flat[j][q]
PROOF
<1> DEFINE Good(m) == /\ flat[m] \in Listing
                      /\ \A j \in 1 .. m :
                           /\ flat[j] \in Listing /\ Len(flat[j]) <= Len(flat[m])
                           /\ \A q \in 1 .. Len(flat[j]) : flat[m][q] = flat[j][q]
           Bad == {m \in 1 .. Len(ss) : ~Good(m)}
<1> SUFFICES ASSUME Bad # {} PROVE FALSE
  BY Zenon
<1>1. Len(ss) \in Nat /\ Bad \in SUBSET Nat
  OBVIOUS
<1>2. PICK m \in Bad : \A i \in Bad : m <= i
  BY <1>1, LeastNat
<1>3. m \in 1 .. Len(ss) /\ ~Good(m)
  OBVIOUS
<1>4. flat[m] = IF m = 1 THEN ss[m] ELSE flat[m - 1] \o ss[m]
  BY <1>3 DEF FirstFlat
<1>5. ss[m] \in Listing
  BY <1>3
<1>6. CASE m = 1
  <2>1. flat[m] \in Listing /\ \A j \in 1 .. m : j = m
    BY <1>4, <1>5, <1>6
  <2>2. Len(flat[m]) <= Len(flat[m])
    BY <2>1 DEF Listing
  <2>3. Good(m)
    BY <2>1, <2>2
  <2> QED BY <1>3, <2>3
<1>7. CASE m # 1
  <2>1. m - 1 \in 1 .. Len(ss) /\ ~(m <= m - 1)
    BY <1>1, <1>3, <1>7
  <2>2. Good(m - 1)
    BY <1>2, <2>1
  <2> DEFINE g == flat[m - 1]
             s == ss[m]
  <2>3. g \in Listing
    BY <2>2
  <2> HIDE DEF g
  <2>4. flat[m] = g \o s /\ s \in Listing
    BY <1>4, <1>5, <1>7 DEF g
  <2> HIDE DEF s
  <2>5. /\ flat[m] \in Listing /\ Len(g) <= Len(flat[m])
        /\ Len(g) \in Nat /\ Len(flat[m]) \in Nat
        /\ \A q \in 1 .. Len(g) : flat[m][q] = g[q]
    BY <2>3, <2>4 DEF Listing
  <2>6. ASSUME NEW j \in 1 .. m
        PROVE  /\ flat[j] \in Listing /\ Len(flat[j]) <= Len(flat[m])
               /\ \A q \in 1 .. Len(flat[j]) : flat[m][q] = flat[j][q]
    <3>1. CASE j = m
      BY <2>5, <3>1
    <3>2. CASE j # m
      <4>1. j \in 1 .. m - 1
        BY <1>3, <3>2
      <4>2. /\ flat[j] \in Listing /\ Len(flat[j]) <= Len(g)
            /\ \A q \in 1 .. Len(flat[j]) : g[q] = flat[j][q]
        BY <2>2, <4>1 DEF g
      <4>3. Len(flat[j]) \in Nat
        BY <4>2 DEF Listing
      <4> QED BY <2>5, <4>2, <4>3
    <3> QED BY <3>1, <3>2
  <2>7. Good(m)
    BY <2>5, <2>6
  <2> QED BY <1>3, <2>7
<1> QED BY <1>6, <1>7

(* off[k] is where the k-th of the listings ss begins in t.                *)
Laid(off, ss, t) ==
  /\ off \in [1 .. Len(ss) + 1 -> Nat]
  /\ off[1] = 0 /\ off[Len(ss) + 1] = Len(t)
  /\ \A k \in 1 .. Len(ss) :
       /\ off[k + 1] = off[k] + Len(ss[k])
       /\ \A i \in 1 .. Len(ss[k]) : t[off[k] + i] = ss[k][i]
  /\ \A j, k \in 1 .. Len(ss) + 1 : j <= k => off[j] <= off[k]
  /\ \A q \in 1 .. Len(t) : \E k \in 1 .. Len(ss) : off[k] < q /\ q <= off[k + 1]

LEMMA Blocks ==
  ASSUME NEW ss \in Seq(Listing)
  PROVE  /\ FlattenSeq(ss) \in Listing
         /\ \E off : Laid(off, ss, FlattenSeq(ss))
PROOF
<1> DEFINE n == Len(ss)
           t == FlattenSeq(ss)
<1>1. n \in Nat
  OBVIOUS
<1>2. CASE n = 0
  <2>1. t = <<>> /\ ss = <<>>
    BY <1>2 DEF FlattenSeq
  <2> DEFINE off == [k \in 1 .. 1 |-> 0]
  <2>2. Laid(off, <<>>, <<>>)
    BY DEF Laid
  <2>3. <<>> \in Listing
    BY DEF Listing
  <2> HIDE DEF off
  <2> QED BY <2>1, <2>2, <2>3
<1>3. CASE n # 0
  <2> DEFINE flat == CHOOSE h : FirstFlat(h, ss, n)
  <2>1. FirstFlat(flat, ss, n)
    BY <1>1, PrefixesExist
  <2>2. t = flat[n]
    BY <1>3 DEF FlattenSeq, FirstFlat
  <2> HIDE DEF flat, t
  <2>3. ASSUME NEW k \in 1 .. n
        PROVE  /\ flat[k] \in Listing
               /\ \A j \in 1 .. k :
                    /\ flat[j] \in Listing /\ Len(flat[j]) <= Len(flat[k])
                    /\ \A q \in 1 .. Len(flat[j]) : flat[k][q] = flat[j][q]
    BY <2>1, PrefixesGrow
  <2>4. t \in Listing
    BY <1>1, <1>3, <2>2, <2>3
  <2> DEFINE off == [k \in 1 .. n + 1 |-> IF k = 1 THEN 0 ELSE Len(flat[k - 1])]
  <2>5. \A k \in 1 .. n : Len(flat[k]) \in Nat
    BY <2>3 DEF Listing
  <2>6. \A k \in 2 .. n + 1 : k - 1 \in 1 .. n /\ off[k] = Len(flat[k - 1])
    BY <1>1
  <2>7. off \in [1 .. n + 1 -> Nat] /\ off[1] = 0
    <3>1. \A k \in 1 .. n + 1 : k # 1 => k - 1 \in 1 .. n
      BY <1>1
    <3> QED BY <1>1, <2>5, <3>1
  <2>8. off[n + 1] = Len(t)
    BY <1>1, <1>3, <2>2, <2>6
  <2>9. \A k \in 1 .. n : off[k + 1] = Len(flat[k]) /\ k + 1 \in 1 .. n + 1
    BY <1>1
  <2> HIDE DEF off
  <2>10. ASSUME NEW k \in 1 .. n
         PROVE  /\ off[k + 1] = off[k] + Len(ss[k])
                /\ \A i \in 1 .. Len(ss[k]) : t[off[k] + i] = ss[k][i]
    <3> DEFINE s == ss[k]
               now == flat[k]
    <3>1. s \in Listing /\ now \in Listing /\ off[k] \in Nat
      BY <1>1, <2>3, <2>7
    <3>2. now = IF k = 1 THEN s ELSE flat[k - 1] \o s
      BY <2>1 DEF FirstFlat
    <3>3. off[k + 1] = Len(now)
      BY <2>9
    <3> HIDE DEF s, now
    <3>4. /\ Len(now) = off[k] + Len(s)
          /\ \A i \in 1 .. Len(s) : now[off[k] + i] = s[i]
      <4>1. CASE k = 1
        BY <2>7, <3>1, <3>2, <4>1 DEF Listing
      <4>2. CASE k # 1
        <5>1. k - 1 \in 1 .. n /\ k \in 2 .. n + 1
          BY <1>1, <4>2
        <5> DEFINE g == flat[k - 1]
        <5>2. g \in Listing /\ off[k] = Len(g) /\ now = g \o s
          BY <2>3, <2>6, <3>2, <4>2, <5>1
        <5> HIDE DEF g
        <5> QED BY <3>1, <5>2 DEF Listing
      <4> QED BY <4>1, <4>2
    <3>5. \A q \in 1 .. Len(now) : t[q] = now[q]
      <4>1. n \in 1 .. n /\ k \in 1 .. n
        BY <1>1
      <4> QED BY <2>2, <2>3, <4>1 DEF now
    <3>6. \A i \in 1 .. Len(s) : off[k] + i \in 1 .. Len(now)
      BY <3>1, <3>4 DEF Listing
    <3> QED BY <3>3, <3>4, <3>5, <3>6 DEF s
  <2>11. ASSUME NEW j \in 1 .. n + 1, NEW k \in 1 .. n + 1, j <= k
         PROVE  off[j] <= off[k]
    <3>1. CASE j = 1
      BY <2>7, <3>1
    <3>2. CASE j # 1
      <4>1. j \in 2 .. n + 1 /\ k \in 2 .. n + 1
        BY <2>11, <3>2
      <4>2. j - 1 \in 1 .. k - 1 /\ k - 1 \in 1 .. n
        BY <1>1, <2>11, <4>1
      <4>3. off[j] = Len(flat[j - 1]) /\ off[k] = Len(flat[k - 1])
        BY <2>6, <4>1
      <4> QED BY <2>3, <4>2, <4>3
    <3> QED BY <3>1, <3>2
  <2>12. ASSUME NEW q \in 1 .. Len(t)
         PROVE  \E k \in 1 .. n : off[k] < q /\ q <= off[k + 1]
    <3> DEFINE Reached == {m \in 1 .. n + 1 : q <= off[m]}
    <3>1. n + 1 \in Reached /\ Reached \in SUBSET Nat
      BY <1>1, <2>8
    <3>2. PICK m \in Reached : \A i \in Reached : m <= i
      BY <3>1, LeastNat
    <3>3. m \in 1 .. n + 1 /\ q <= off[m] /\ q \in Nat \ {0}
      BY <2>4 DEF Listing
    <3>4. m # 1
      BY <2>7, <3>3
    <3>5. m - 1 \in 1 .. n /\ ~(m <= m - 1) /\ (m - 1) + 1 = m /\ m - 1 \in 1 .. n + 1
      BY <1>1, <3>3, <3>4
    <3>6. ~(q <= off[m - 1])
      BY <3>2, <3>5
    <3>7. off[m - 1] \in Nat
      BY <2>7, <3>5
    <3>8. off[m - 1] < q
      BY <3>3, <3>6, <3>7
    <3> QED BY <3>3, <3>5, <3>8
  <2>13. Laid(off, ss, t)
    BY <2>7, <2>8, <2>10, <2>11, <2>12 DEF Laid
  <2> QED BY <2>4, <2>13 DEF t
<1> QED BY <1>2, <1>3

(* t has the listing s behind entry o.                                     *)
Has(t, o, s) == \A i \in 1 .. Len(s) : t[o + i] = s[i]

LEMMA StabIsEntry ==
  \A t \in StabTypes, v, d \in Int, n \in AName : Stab(t, v, d, n) \in AnEntry
  BY DEF Stab, AnEntry

LEMMA Joined ==
  \A s, u \in Listing :
    /\ s \o u \in Listing /\ Len(s \o u) = Len(s) + Len(u)
    /\ Len(s) \in Nat /\ Len(u) \in Nat
  BY DEF Listing

LEMMA Concatenated ==
  ASSUME NEW s \in Listing, NEW u \in Listing, NEW t, NEW o \in Int, Has(t, o, s \o u)
  PROVE  /\ s \o u \in Listing /\ Len(s \o u) = Len(s) + Len(u)
         /\ Len(s) \in Nat /\ Len(u) \in Nat
         /\ Has(t, o, s) /\ Has(t, o + Len(s), u)
PROOF
<1>1. /\ s \o u \in Listing /\ Len(s \o u) = Len(s) + Len(u)
      /\ Len(s) \in Nat /\ Len(u) \in Nat
      /\ \A i \in 1 .. Len(s) : (s \o u)[i] = s[i]
      /\ \A i \in 1 .. Len(u) : (s \o u)[Len(s) + i] = u[i]
  BY DEF Listing
<1> DEFINE both == s \o u
<1> HIDE DEF both
<1>2. Has(t, o, s)
  <2>1. \A i \in 1 .. Len(s) : i \in 1 .. Len(both)
    BY <1>1 DEF both
  <2> QED BY <1>1, <2>1 DEF Has, both
<1>3. Has(t, o + Len(s), u)
  <2> SUFFICES ASSUME NEW i \in 1 .. Len(u) PROVE t[o + Len(s) + i] = u[i]
    BY DEF Has
  <2>1. Len(s) + i \in 1 .. Len(both) /\ o + (Len(s) + i) = o + Len(s) + i
    BY <1>1 DEF both
  <2>2. t[o + (Len(s) + i)] = both[Len(s) + i]
    BY <2>1 DEF Has, both
  <2> QED BY <1>1, <2>1, <2>2 DEF both
<1> QED BY <1>1, <1>2, <1>3

(* The entries that NamesFile looks for, and what the last of them says at *)
(* entry q: the name of the file of the code there.                        *)
Names(entry) == entry.type = "SOL" \/ (entry.type = "SO" /\ entry.value # 0)

Unnamed(t, from, q) == \A i \in from .. q : ~Names(t[i])

Named(t, from, q, name) ==
  \E n \in from .. q :
    Names(t[n]) /\ t[n].name = name /\ Unnamed(t, n + 1, q)

(* If it was in a file before entry from.                                  *)
FileIs(t, from, q, file, name) ==
  Named(t, from, q, name) \/ (name = file /\ Unnamed(t, from, q))

LEMMA FileGoesOn ==
  ASSUME NEW t, NEW from \in Int, NEW q \in Int, NEW b \in Int, NEW e \in Int,
         NEW file, NEW name, NEW new,
         from <= q + 1, q + 1 <= b, b <= e + 1,
         FileIs(t, from, q, file, name), Unnamed(t, q + 1, b - 1),
         FileIs(t, b, e, name, new)
  PROVE  FileIs(t, from, e, file, new)
PROOF
<1>1. CASE Named(t, b, e, new)
  <2>1. \A n \in b .. e : n \in from .. e
    OBVIOUS
  <2> QED BY <1>1, <2>1 DEF Named, FileIs
<1>2. CASE new = name /\ Unnamed(t, b, e)
  <2>1. Unnamed(t, q + 1, e)
    BY <1>2 DEF Unnamed
  <2>2. CASE Named(t, from, q, name)
    <3>1. PICK n \in from .. q :
            Names(t[n]) /\ t[n].name = name /\ Unnamed(t, n + 1, q)
      BY <2>2 DEF Named
    <3>2. Unnamed(t, n + 1, e) /\ n \in from .. e
      BY <2>1, <3>1 DEF Unnamed
    <3> QED BY <1>2, <3>1, <3>2 DEF Named, FileIs
  <2>3. CASE name = file /\ Unnamed(t, from, q)
    <3>1. Unnamed(t, from, e)
      BY <2>1, <2>3 DEF Unnamed
    <3> QED BY <1>2, <2>3, <3>1 DEF FileIs
  <2> QED BY <2>2, <2>3 DEF FileIs
<1> QED BY <1>1, <1>2 DEF FileIs

(* Entries o + 1 .. e of t are those of n lines, at at[1], at[2], ...      *)
LinesAre(at, n, lines, base, file, t, o, e) ==
  /\ at \in [1 .. n -> o + 1 .. e]
  /\ \A k \in 1 .. n :
       /\ t[at[k]] = Stab("SLINE", lines[k].at - base, lines[k].line, Nameless)
       /\ FileIs(t, o + 1, at[k], file, lines[k].file)
  /\ \A j, k \in 1 .. n : j < k => at[j] < at[k]
  /\ \A i \in o + 1 .. e :
       /\ t[i].type \in {"SOL", "SLINE"}
       /\ t[i].type = "SLINE" => \E k \in 1 .. n : i = at[k]
  /\ n # 0 => at[n] = e

FileOfLine(lines, file, k) == IF k = 1 THEN file ELSE lines[k - 1].file

LEMMA OneLineIs ==
  ASSUME NEW lines \in Seq(ALine), NEW base \in Int, NEW file \in AName,
         NEW k \in 1 .. Len(lines)
  PROVE  LET s == OneLine(lines, base, file, k)
             line_ == Stab("SLINE", lines[k].at - base, lines[k].line, Nameless)
         IN  /\ s \in Listing
             /\ \/ /\ lines[k].file = FileOfLine(lines, file, k)
                   /\ Len(s) = 1 /\ s[1] = line_
                \/ /\ Len(s) = 2 /\ s[2] = line_
                   /\ s[1] = Stab("SOL", lines[k].at, 0, lines[k].file)
PROOF
<1> DEFINE sol == Stab("SOL", lines[k].at, 0, lines[k].file)
           own == Stab("SLINE", lines[k].at - base, lines[k].line, Nameless)
<1>1. /\ lines[k].at \in Int /\ lines[k].at - base \in Int /\ lines[k].line \in Int
      /\ lines[k].file \in STRING
  <2>1. lines[k] \in ALine
    OBVIOUS
  <2> QED BY <2>1 DEF ALine
<1>2. sol \in AnEntry /\ own \in AnEntry
  <2>1. lines[k].file \in AName /\ Nameless \in AName
    BY <1>1 DEF AName
  <2>2. Stab("SOL", lines[k].at, 0, lines[k].file) \in AnEntry
    BY <1>1, <2>1 DEF Stab, AnEntry, StabTypes
  <2>3. Stab("SLINE", lines[k].at - base, lines[k].line, Nameless) \in AnEntry
    BY <1>1, <2>1 DEF Stab, AnEntry, StabTypes
  <2> QED BY <2>2, <2>3
<1>3. OneLine(lines, base, file, k)
        = (IF lines[k].file # FileOfLine(lines, file, k) THEN <<sol>> ELSE <<>>) \o <<own>>
  BY DEF OneLine, FileOfLine
<1> HIDE DEF sol, own
<1>4. CASE lines[k].file # FileOfLine(lines, file, k)
  <2>1. OneLine(lines, base, file, k) = <<sol>> \o <<own>>
    BY <1>3, <1>4
  <2>2. LET both == <<sol>> \o <<own>>
        IN  /\ both \in Listing /\ Len(both) = 2
            /\ both[1] = sol /\ both[2] = own
    BY <1>2 DEF Listing
  <2>3. OneLine(lines, base, file, k) \in Listing
    BY <2>1, <2>2
  <2> QED BY <2>1, <2>2, <2>3 DEF sol, own
<1>5. CASE lines[k].file = FileOfLine(lines, file, k)
  <2>1. OneLine(lines, base, file, k) = <<>> \o <<own>>
    BY <1>3, <1>5
  <2>2. <<>> \o <<own>> = <<own>> /\ <<own>> \in Listing
    BY <1>2 DEF Listing
  <2>3. OneLine(lines, base, file, k) = <<own>>
    BY <2>1, <2>2
  <2> QED BY <1>5, <2>2, <2>3 DEF own
<1> QED BY <1>4, <1>5

(* Blocks that begin at off[1], off[2], ... make up 1 .. size.             *)
Offsets(off, n, size) ==
  /\ off \in [1 .. n + 1 -> Nat]
  /\ off[1] = 0 /\ off[n + 1] = size
  /\ \A j, k \in 1 .. n + 1 : j <= k => off[j] <= off[k]
  /\ \A q \in 1 .. size : \E k \in 1 .. n : off[k] < q /\ q <= off[k + 1]

LineAt(k, lines, base, file, t, o, off) ==
  LET own == Stab("SLINE", lines[k].at - base, lines[k].line, Nameless)
  IN  \/ /\ lines[k].file = FileOfLine(lines, file, k)
         /\ off[k + 1] = off[k] + 1 /\ t[o + (off[k] + 1)] = own
      \/ /\ off[k + 1] = off[k] + 2 /\ t[o + (off[k] + 2)] = own
         /\ t[o + (off[k] + 1)] = Stab("SOL", lines[k].at, 0, lines[k].file)

LEMMA LinesAtOffsets ==
  ASSUME NEW n \in Nat, NEW lines, NEW base, NEW file, NEW t, NEW o \in Int,
         NEW size \in Nat, NEW off, Offsets(off, n, size),
         \A k \in 1 .. n : LineAt(k, lines, base, file, t, o, off)
  PROVE  LinesAre([k \in 1 .. n |-> o + off[k + 1]], n, lines, base, file, t, o, o + size)
PROOF
<1> DEFINE at == [k \in 1 .. n |-> o + off[k + 1]]
           e == o + size
<1>1. \A k \in 1 .. n :
        /\ k \in 1 .. n + 1 /\ k + 1 \in 1 .. n + 1
        /\ off[k] \in Nat /\ off[k + 1] \in Nat
        /\ off[k] < off[k + 1] /\ off[k + 1] <= size
        /\ at[k] = o + off[k + 1] /\ at[k] \in o + 1 .. e
  <2> TAKE k \in 1 .. n
  <2>1. k \in 1 .. n + 1 /\ k + 1 \in 1 .. n + 1 /\ n + 1 \in 1 .. n + 1 /\ k + 1 <= n + 1
    OBVIOUS
  <2>2. off[k] \in Nat /\ off[k + 1] \in Nat /\ off[k + 1] <= size
    BY <2>1 DEF Offsets
  <2>3. off[k] < off[k + 1]
    BY <2>2 DEF LineAt
  <2> QED BY <2>1, <2>2, <2>3
<1>2. \A k \in 1 .. n :
        /\ t[at[k]] = Stab("SLINE", lines[k].at - base, lines[k].line, Nameless)
        /\ \/ /\ lines[k].file = FileOfLine(lines, file, k)
              /\ at[k] = o + off[k] + 1
           \/ /\ t[o + off[k] + 1] = Stab("SOL", lines[k].at, 0, lines[k].file)
              /\ at[k] = o + off[k] + 2
  <2> TAKE k \in 1 .. n
  <2>1. /\ o + (off[k] + 1) = o + off[k] + 1
        /\ o + (off[k] + 2) = o + off[k] + 2
        /\ at[k] = o + off[k + 1]
    BY <1>1
  <2> HIDE DEF at
  <2> QED BY <1>1, <2>1 DEF LineAt
<1> HIDE DEF at
<1>3. at \in [1 .. n -> o + 1 .. e]
  <2>1. at = [k \in 1 .. n |-> o + off[k + 1]]
    BY DEF at
  <2> QED BY <1>1, <2>1
<1>4. ASSUME NEW j \in 1 .. n, NEW k \in 1 .. n, j < k PROVE at[j] < at[k]
  <2>1. j + 1 <= k /\ off[j + 1] <= off[k]
    BY <1>1, <1>4 DEF Offsets
  <2> QED BY <1>1, <2>1
<1>5. ASSUME NEW i \in o + 1 .. e
      PROVE  /\ t[i].type \in {"SOL", "SLINE"}
             /\ t[i].type = "SLINE" => \E k \in 1 .. n : i = at[k]
  <2>1. i - o \in 1 .. size /\ i - o \in Int
    OBVIOUS
  <2>2. PICK k \in 1 .. n : off[k] < i - o /\ i - o <= off[k + 1]
    BY <2>1 DEF Offsets
  <2>3. CASE i = at[k]
    <3> DEFINE entry == t[at[k]]
    <3>1. entry = Stab("SLINE", lines[k].at - base, lines[k].line, Nameless)
      BY <1>2
    <3> HIDE DEF entry
    <3>2. entry.type = "SLINE"
      BY <3>1 DEF Stab
    <3> QED BY <2>3, <3>2 DEF entry
  <2>4. CASE i # at[k]
    <3>1. PICK u, w \in Nat : u = off[k] /\ w = off[k + 1]
      BY <1>1
    <3>2. /\ u < i - o /\ i - o <= w /\ i \in Int
          /\ at[k] = o + w /\ i # o + w
          /\ at[k] = o + u + 1 \/ at[k] = o + u + 2
      BY <1>1, <1>2, <2>2, <2>4, <3>1
    <3>3. i = o + u + 1 /\ at[k] # o + u + 1
      BY <3>2
    <3>4. i = o + off[k] + 1 /\ at[k] # o + off[k] + 1
      BY <3>1, <3>3
    <3> DEFINE entry == t[i]
    <3>5. entry = Stab("SOL", lines[k].at, 0, lines[k].file)
      BY <1>2, <3>4
    <3> HIDE DEF entry
    <3>6. entry.type = "SOL"
      BY <3>5 DEF Stab
    <3> QED BY <3>6 DEF entry
  <2> QED BY <2>3, <2>4
<1>6. ASSUME NEW k \in 1 .. n
      PROVE  FileIs(t, o + 1, at[k], file, lines[k].file)
  <2> DEFINE Wrong == {m \in 1 .. n : ~FileIs(t, o + 1, at[m], file, lines[m].file)}
  <2> SUFFICES ASSUME Wrong # {} PROVE FALSE
    OBVIOUS
  <2>1. Wrong \in SUBSET Nat
    OBVIOUS
  <2>2. PICK m \in Wrong : \A i \in Wrong : m <= i
    BY <2>1, LeastNat
  <2>3. m \in 1 .. n /\ ~FileIs(t, o + 1, at[m], file, lines[m].file)
    OBVIOUS
  <2> HIDE DEF Wrong
  <2>4. /\ off[m] \in Nat /\ at[m] \in Int /\ at[m] \in o + 1 .. e
        /\ ~Names(t[at[m]])
    <3> DEFINE entry == t[at[m]]
    <3>1. entry = Stab("SLINE", lines[m].at - base, lines[m].line, Nameless)
      BY <1>2, <2>3
    <3> HIDE DEF entry
    <3>2. ~Names(entry)
      BY <3>1 DEF Names, Stab
    <3> QED BY <1>1, <2>3, <3>2 DEF entry
  <2>5. CASE t[o + off[m] + 1] = Stab("SOL", lines[m].at, 0, lines[m].file)
             /\ at[m] = o + off[m] + 2
    <3> DEFINE f == o + off[m] + 1
    <3>1. /\ Names(t[f]) /\ t[f].name = lines[m].file
          /\ f \in o + 1 .. at[m] /\ \A i \in f + 1 .. at[m] : i = at[m]
      BY <2>4, <2>5 DEF Names, Stab
    <3> HIDE DEF f
    <3>2. Unnamed(t, f + 1, at[m])
      BY <2>4, <3>1 DEF Unnamed
    <3> QED BY <2>3, <3>1, <3>2 DEF Named, FileIs
  <2>6. CASE lines[m].file = FileOfLine(lines, file, m) /\ at[m] = o + off[m] + 1
    <3>1. FileIs(t, at[m], at[m], lines[m].file, lines[m].file)
      BY <2>4 DEF FileIs, Unnamed
    <3>2. CASE m = 1
      <4>1. at[m] = o + 1 /\ lines[m].file = file
        BY <2>6, <3>2 DEF FileOfLine, Offsets
      <4> QED BY <2>3, <3>1, <4>1
    <3>3. CASE m # 1
      <4>1. m - 1 \in 1 .. n /\ ~(m <= m - 1) /\ (m - 1) + 1 = m
        BY <2>3, <3>3
      <4>2. FileIs(t, o + 1, at[m - 1], file, lines[m - 1].file)
        BY <2>2, <4>1 DEF Wrong
      <4>3. at[m] = at[m - 1] + 1 /\ at[m - 1] \in o + 1 .. e
        BY <1>1, <2>6, <4>1
      <4>4. lines[m].file = lines[m - 1].file
        BY <2>6, <3>3 DEF FileOfLine
      <4>5. Unnamed(t, at[m - 1] + 1, at[m] - 1)
        BY <4>3 DEF Unnamed
      <4> QED BY <2>3, <2>4, <3>1, <4>2, <4>3, <4>4, <4>5, FileGoesOn
    <3> QED BY <3>2, <3>3
  <2> QED BY <1>2, <2>3, <2>5, <2>6
<1>7. n # 0 => at[n] = e
  BY <1>1 DEF Offsets
<1> HIDE DEF e
<1>8. LinesAre(at, n, lines, base, file, t, o, e)
  BY <1>2, <1>3, <1>4, <1>5, <1>6, <1>7 DEF LinesAre
<1> QED BY <1>8 DEF at, e

LEMMA LinesLaid ==
  ASSUME NEW lines \in Seq(ALine), NEW base \in Int, NEW file \in AName
  PROVE  /\ LineStabs(lines, base, file) \in Listing
         /\ \A t : \A o \in Int :
              Has(t, o, LineStabs(lines, base, file)) =>
                \E at : LinesAre(at, Len(lines), lines, base, file, t, o,
                                 o + Len(LineStabs(lines, base, file)))
PROOF
<1>0. PICK n \in Nat : n = Len(lines)
  OBVIOUS
<1> DEFINE ss == [k \in DOMAIN lines |-> OneLine(lines, base, file, k)]
           s == LineStabs(lines, base, file)
<1>1. n \in Nat /\ DOMAIN lines = 1 .. n
  BY <1>0
<1>2. ss \in Seq(Listing) /\ Len(ss) = n
  <2>1. \A k \in 1 .. n : OneLine(lines, base, file, k) \in Listing
    BY <1>0, OneLineIs
  <2>2. DOMAIN ss = 1 .. n /\ \A k \in 1 .. n : ss[k] \in Listing
    BY <1>1, <2>1
  <2>3. ss = [k \in 1 .. n |-> ss[k]]
    BY <1>1
  <2> HIDE DEF ss
  <2> QED BY <1>1, <2>2, <2>3
<1>3. s = FlattenSeq(ss)
  BY DEF LineStabs
<1>4. s \in Listing
  BY <1>2, <1>3, Blocks
<1>5. PICK off : Laid(off, ss, s)
  BY <1>2, <1>3, Blocks
<1> HIDE DEF s
<1>6. ASSUME NEW k \in 1 .. n
      PROVE  LET line_ == Stab("SLINE", lines[k].at - base, lines[k].line, Nameless)
             IN  \/ /\ lines[k].file = FileOfLine(lines, file, k)
                    /\ off[k + 1] = off[k] + 1 /\ s[off[k] + 1] = line_
                 \/ /\ off[k + 1] = off[k] + 2 /\ s[off[k] + 2] = line_
                    /\ s[off[k] + 1] = Stab("SOL", lines[k].at, 0, lines[k].file)
  <2> DEFINE own == OneLine(lines, base, file, k)
  <2>1. ss[k] = own
    BY <1>1
  <2>2. /\ off[k + 1] = off[k] + Len(own)
        /\ \A i \in 1 .. Len(own) : s[off[k] + i] = own[i]
    BY <1>2, <1>5, <2>1 DEF Laid
  <2> HIDE DEF own
  <2>3. CASE Len(own) = 1
    <3>1. 1 \in 1 .. Len(own)
      BY <2>3
    <3> QED BY <2>2, <2>3, <3>1, <1>0, OneLineIs DEF own
  <2>4. CASE Len(own) = 2
    <3>1. 1 \in 1 .. Len(own) /\ 2 \in 1 .. Len(own)
      BY <2>4
    <3> QED BY <2>2, <2>4, <3>1, <1>0, OneLineIs DEF own
  <2> QED BY <2>3, <2>4, <1>0, OneLineIs DEF own
<1> HIDE DEF ss
<1>7. PICK size \in Nat : size = Len(s)
  BY <1>4 DEF Listing
<1>8. Offsets(off, n, size)
  BY <1>2, <1>5, <1>7 DEF Laid, Offsets
<1>9. ASSUME NEW t, NEW o \in Int, Has(t, o, s)
      PROVE  \E at : LinesAre(at, n, lines, base, file, t, o, o + size)
  <2>1. \A q \in 1 .. size : t[o + q] = s[q]
    BY <1>7, <1>9 DEF Has
  <2>2. ASSUME NEW k \in 1 .. n
        PROVE  LineAt(k, lines, base, file, t, o, off)
    <3>1. /\ k \in 1 .. n + 1 /\ k + 1 \in 1 .. n + 1 /\ n + 1 \in 1 .. n + 1
          /\ k + 1 <= n + 1
      OBVIOUS
    <3>2. off[k] \in Nat /\ off[k + 1] \in Nat /\ off[k + 1] <= size
      BY <1>8, <3>1 DEF Offsets
    <3>3. CASE off[k + 1] = off[k] + 1
      <4>1. off[k] + 1 \in 1 .. size
        BY <3>2, <3>3
      <4> QED BY <1>6, <2>1, <3>2, <3>3, <4>1 DEF LineAt
    <3>4. CASE off[k + 1] = off[k] + 2
      <4>1. off[k] + 1 \in 1 .. size /\ off[k] + 2 \in 1 .. size
        BY <3>2, <3>4
      <4> QED BY <1>6, <2>1, <3>2, <3>4, <4>1 DEF LineAt
    <3> QED BY <1>6, <3>3, <3>4
  <2> QED BY <1>8, <2>2, LinesAtOffsets
<1> QED BY <1>0, <1>4, <1>7, <1>9 DEF s

(* A listing that is made of blocks: where they are in t.                  *)
LEMMA BlocksIn ==
  ASSUME NEW ss \in Seq(Listing), NEW t, NEW o \in Int, Has(t, o, FlattenSeq(ss))
  PROVE  \E off :
           /\ Offsets(off, Len(ss), Len(FlattenSeq(ss)))
           /\ \A k \in 1 .. Len(ss) :
                off[k + 1] = off[k] + Len(ss[k]) /\ Has(t, o + off[k], ss[k])
PROOF
<1> DEFINE s == FlattenSeq(ss)
<1>1. s \in Listing /\ Len(s) \in Nat
  BY Blocks DEF Listing
<1>2. PICK off : Laid(off, ss, s)
  BY Blocks
<1> HIDE DEF s
<1>3. Offsets(off, Len(ss), Len(s))
  BY <1>2 DEF Laid, Offsets
<1>4. ASSUME NEW k \in 1 .. Len(ss)
      PROVE  off[k + 1] = off[k] + Len(ss[k]) /\ Has(t, o + off[k], ss[k])
  <2>1. ss[k] \in Listing
    OBVIOUS
  <2> DEFINE u == ss[k]
             before == off[k]
  <2>2. Len(u) \in Nat
    BY <2>1 DEF Listing
  <2>3. k \in 1 .. Len(ss) + 1 /\ k + 1 \in 1 .. Len(ss) + 1 /\ Len(ss) + 1 \in 1 .. Len(ss) + 1
    OBVIOUS
  <2>4. /\ before \in Nat /\ off[k + 1] \in Nat /\ off[k + 1] <= Len(s)
        /\ off[k + 1] = before + Len(u)
        /\ \A i \in 1 .. Len(u) : s[before + i] = u[i]
    <3>1. before \in Nat /\ off[k + 1] \in Nat
      BY <1>2, <2>3 DEF Laid
    <3>2. off[k + 1] <= off[Len(ss) + 1] /\ off[Len(ss) + 1] = Len(s)
      <4>1. k + 1 <= Len(ss) + 1
        OBVIOUS
      <4>2. /\ \A i, j \in 1 .. Len(ss) + 1 : i <= j => off[i] <= off[j]
            /\ off[Len(ss) + 1] = Len(s)
        BY <1>3, Zenon DEF Offsets
      <4> QED BY <2>3, <4>1, <4>2, Zenon
    <3>3. /\ off[k + 1] = before + Len(u)
          /\ \A i \in 1 .. Len(u) : s[before + i] = u[i]
      BY <1>2 DEF Laid
    <3> QED BY <3>1, <3>2, <3>3
  <2> HIDE DEF u, before
  <2>5. ASSUME NEW i \in 1 .. Len(u) PROVE t[o + before + i] = u[i]
    <3>1. before + i \in 1 .. Len(s) /\ o + (before + i) = o + before + i
      BY <1>1, <2>2, <2>4
    <3>2. t[o + (before + i)] = s[before + i]
      BY <3>1 DEF Has, s
    <3> QED BY <2>4, <3>1, <3>2
  <2>6. Has(t, o + before, u)
    BY <2>5 DEF Has
  <2> QED BY <2>4, <2>6 DEF u, before
<1> QED BY <1>3, <1>4 DEF s

(* Entries o + 1 .. e of t are those of function f.                        *)
FunctionIs(t, f, file, o, e) ==
  /\ t[o + 1] = Stab("FUN", f.start, 0, f.name)
  /\ \A i \in 1 .. f.params : t[o + 1 + i].type = "PSYM"
  /\ \E at : LinesAre(at, Len(f.lines), f.lines, f.start, file, t, o + 1 + f.params, e)

LEMMA FunctionLaid ==
  ASSUME NEW f \in AFunction, NEW file \in AName
  PROVE  /\ FunctionStabs(f, file) \in Listing
         /\ \A t : \A o \in Int :
              Has(t, o, FunctionStabs(f, file)) =>
                FunctionIs(t, f, file, o, o + Len(FunctionStabs(f, file)))
PROOF
<1> DEFINE head == <<Stab("FUN", f.start, 0, f.name)>>
           params == [k \in 1 .. f.params |-> Stab("PSYM", 4 + 4 * k, 0, "parameter")]
           code == LineStabs(f.lines, f.start, file)
<1>1. f.start \in Int /\ f.params \in Nat /\ f.name \in AName /\ f.lines \in Seq(ALine)
  BY DEF AFunction, AName
<1>2. Stab("FUN", f.start, 0, f.name) \in AnEntry
  BY <1>1 DEF Stab, AnEntry, StabTypes
<1>3. head \in Listing /\ Len(head) = 1 /\ head[1] = Stab("FUN", f.start, 0, f.name)
  BY <1>2 DEF Listing
<1>4. params \in Listing /\ Len(params) = f.params
  <2>1. \A k \in 1 .. f.params : Stab("PSYM", 4 + 4 * k, 0, "parameter") \in AnEntry
    BY <1>1 DEF Stab, AnEntry, StabTypes, AName
  <2> HIDE DEF Stab
  <2> QED BY <1>1, <2>1 DEF Listing
<1>5. \A k \in 1 .. f.params : params[k].type = "PSYM"
  BY DEF Stab
<1>6. code \in Listing
  BY <1>1, LinesLaid
<1>7. FunctionStabs(f, file) = (head \o params) \o code
  BY DEF FunctionStabs
<1> HIDE DEF head, params, code
<1>8. head \o params \in Listing /\ Len(head \o params) = 1 + f.params
  <2>1. /\ head \o params \in Listing
        /\ Len(head \o params) = Len(head) + Len(params)
    BY <1>3, <1>4, Joined
  <2> QED BY <1>3, <1>4, <2>1
<1>9. FunctionStabs(f, file) \in Listing
  BY <1>6, <1>7, <1>8 DEF Listing
<1>10. ASSUME NEW t, NEW o \in Int, Has(t, o, FunctionStabs(f, file))
       PROVE  FunctionIs(t, f, file, o, o + Len(FunctionStabs(f, file)))
  <2> DEFINE first == head \o params
  <2>1. /\ Has(t, o, first) /\ Has(t, o + (1 + f.params), code) /\ Len(code) \in Nat
        /\ Len(FunctionStabs(f, file)) = 1 + f.params + Len(code)
    <3> HIDE DEF first
    <3>1. first \in Listing /\ Len(first) = 1 + f.params
      BY <1>8 DEF first
    <3>2. Has(t, o, first \o code)
      BY <1>7, <1>10 DEF first
    <3> QED BY <1>6, <1>7, <3>1, <3>2, Concatenated DEF first
  <2>2. Has(t, o, head) /\ Has(t, o + 1, params)
    BY <1>3, <1>4, <2>1, Concatenated
  <2>3. t[o + 1] = Stab("FUN", f.start, 0, f.name)
    BY <1>3, <2>2 DEF Has
  <2>4. \A i \in 1 .. f.params : t[o + 1 + i].type = "PSYM"
    BY <1>4, <1>5, <2>2 DEF Has
  <2>5. /\ o + (1 + f.params) = o + 1 + f.params
        /\ o + (1 + f.params + Len(code)) = o + 1 + f.params + Len(code)
        /\ o + 1 + f.params \in Int
    BY <1>1, <2>1
  <2>6. \E at : LinesAre(at, Len(f.lines), f.lines, f.start, file, t, o + 1 + f.params,
                         o + 1 + f.params + Len(code))
    BY <1>1, <2>1, <2>5, LinesLaid DEF code
  <2> QED BY <2>1, <2>3, <2>4, <2>5, <2>6 DEF FunctionIs
<1> QED BY <1>9, <1>10

(* Entries behind entry o of t are those of the functions of file f.       *)
CodeIs(off, t, f, o, size) ==
  /\ Offsets(off, Len(f.functions), size)
  /\ \A k \in 1 .. Len(f.functions) :
       FunctionIs(t, f.functions[k], FileBefore(f, k), o + off[k], o + off[k + 1])

LEMMA CodeLaid ==
  ASSUME NEW f \in AFile, IsFile(f), ~f.asm
  PROVE  /\ Code(f) \in Listing
         /\ \A t : \A o \in Int :
              Has(t, o, Code(f)) => \E off : CodeIs(off, t, f, o, Len(Code(f)))
PROOF
<1>0. PICK n \in Nat : n = Len(f.functions)
  BY DEF AFile
<1> DEFINE own(k) == FunctionStabs(f.functions[k], FileBefore(f, k))
           ss == [k \in DOMAIN f.functions |-> own(k)]
<1>1. /\ f.functions \in Seq(AFunction) /\ DOMAIN f.functions = 1 .. n
      /\ f.name \in AName
  BY <1>0 DEF AFile, AName
<1>2. \A k \in 1 .. n : f.functions[k] \in AFunction
  BY <1>0, <1>1
<1>3. ASSUME NEW k \in 1 .. n PROVE FileBefore(f, k) \in AName
  <2>1. CASE k = 1
    BY <1>1, <2>1 DEF FileBefore
  <2>2. CASE k # 1
    <3> DEFINE lines == f.functions[k - 1].lines
    <3>1. k - 1 \in 1 .. n
      BY <2>2
    <3>2. lines \in Seq(ALine) /\ lines # <<>>
      BY <1>1, <1>2, <3>1 DEF AFunction, IsFile, IsFunction
    <3> HIDE DEF lines
    <3>3. Last(lines) \in ALine
      BY <3>2 DEF Last
    <3>4. Last(lines).file \in AName
      BY <3>3 DEF ALine, AName
    <3> QED BY <2>2, <3>4 DEF FileBefore, lines
  <2> QED BY <2>1, <2>2
<1>4. \A k \in 1 .. n :
        /\ own(k) \in Listing
        /\ \A t : \A o \in Int :
             Has(t, o, own(k)) =>
               FunctionIs(t, f.functions[k], FileBefore(f, k), o, o + Len(own(k)))
  BY <1>2, <1>3, FunctionLaid
<1>5. Code(f) = FlattenSeq(ss)
  BY DEF Code
<1>6. ss \in Seq(Listing) /\ Len(ss) = n /\ \A k \in 1 .. n : ss[k] = own(k)
  <2> HIDE DEF own
  <2>1. DOMAIN ss = 1 .. n /\ \A k \in 1 .. n : ss[k] \in Listing /\ ss[k] = own(k)
    BY <1>1, <1>4
  <2>2. ss = [k \in 1 .. n |-> ss[k]]
    BY <1>1
  <2> HIDE DEF ss
  <2> QED BY <2>1, <2>2
<1> HIDE DEF ss, own
<1>7. Code(f) \in Listing
  BY <1>5, <1>6, Blocks
<1>8. ASSUME NEW t, NEW o \in Int, Has(t, o, Code(f))
      PROVE  \E off : CodeIs(off, t, f, o, Len(Code(f)))
  <2>1. PICK off : /\ Offsets(off, n, Len(Code(f)))
                   /\ \A k \in 1 .. n :
                        off[k + 1] = off[k] + Len(ss[k]) /\ Has(t, o + off[k], ss[k])
    BY <1>5, <1>6, <1>8, BlocksIn
  <2>2. ASSUME NEW k \in 1 .. n
        PROVE  FunctionIs(t, f.functions[k], FileBefore(f, k), o + off[k], o + off[k + 1])
    <3>1. off[k] \in Nat /\ off[k + 1] = off[k] + Len(own(k)) /\ Has(t, o + off[k], own(k))
      <4>1. k \in 1 .. n + 1
        OBVIOUS
      <4> QED BY <1>6, <2>1, <4>1 DEF Offsets
    <3>2. own(k) \in Listing
      BY <1>4
    <3>3. Len(own(k)) \in Nat
      BY <3>2 DEF Listing
    <3>4. o + off[k] \in Int /\ o + off[k + 1] = o + off[k] + Len(own(k))
      BY <3>1, <3>3
    <3> QED BY <1>4, <3>1, <3>4
  <2> QED BY <1>0, <2>1, <2>2 DEF CodeIs
<1> QED BY <1>7, <1>8

(* Entries o + 1 .. e of t are those of file f.                            *)
AsmIs(t, f, o, e) ==
  /\ o + 1 <= e
  /\ t[o + 1] = Stab("SO", f.start, 0, StandardInput)
  /\ \E at : LinesAre(at, Len(f.lines), f.lines, 0, StandardInput, t, o + 1, e)

CFileIs(t, f, end, o, e) ==
  /\ t[o + 1] = Stab("SO", f.start, 0, f.name)
  /\ t[o + 2] = Stab("OPT", 0, 0, Nameless)
  /\ \E size \in Nat : /\ e = o + 2 + size + 1
                       /\ \E off : CodeIs(off, t, f, o + 2, size)
  /\ t[e] = Stab("SO", end, 0, Nameless)

InFile(t, f, end, o, e) ==
  IF f.asm THEN AsmIs(t, f, o, e) ELSE CFileIs(t, f, end, o, e)

LEMMA FileLaid ==
  ASSUME NEW f \in AFile, IsFile(f), NEW end \in Int
  PROVE  /\ FileStabs(f, end) \in Listing
         /\ \A t : \A o \in Int :
              Has(t, o, FileStabs(f, end)) =>
                InFile(t, f, end, o, o + Len(FileStabs(f, end)))
PROOF
<1>1. /\ f.start \in Int /\ f.name \in AName /\ f.lines \in Seq(ALine)
      /\ StandardInput \in AName /\ Nameless \in AName /\ f.asm \in BOOLEAN
  BY DEF AFile, AName
<1> DEFINE s == FileStabs(f, end)
<1>2. CASE f.asm
  <2> DEFINE head == <<Stab("SO", f.start, 0, StandardInput)>>
             code == LineStabs(f.lines, 0, StandardInput)
  <2>1. Stab("SO", f.start, 0, StandardInput) \in AnEntry
    BY <1>1 DEF Stab, AnEntry, StabTypes
  <2>2. /\ head \in Listing /\ Len(head) = 1
        /\ head[1] = Stab("SO", f.start, 0, StandardInput)
    BY <2>1 DEF Listing
  <2>3. code \in Listing
    BY <1>1, LinesLaid
  <2>4. s = head \o code
    BY <1>2 DEF FileStabs
  <2> HIDE DEF s, head, code
  <2>5. ASSUME NEW t, NEW o \in Int, Has(t, o, s)
        PROVE  AsmIs(t, f, o, o + Len(s))
    <3>1. /\ Has(t, o, head) /\ Has(t, o + 1, code)
          /\ Len(s) = 1 + Len(code) /\ Len(code) \in Nat
      BY <2>2, <2>3, <2>4, <2>5, Concatenated
    <3>2. t[o + 1] = Stab("SO", f.start, 0, StandardInput)
      BY <2>2, <3>1 DEF Has
    <3>3. o + Len(s) = o + 1 + Len(code) /\ o + 1 \in Int /\ o + 1 <= o + Len(s)
      <4>1. PICK c, m \in Nat : c = Len(code) /\ m = Len(s) /\ m = 1 + c
        BY <3>1
      <4>2. o + m = o + 1 + c /\ o + 1 \in Int /\ o + 1 <= o + m
        BY <4>1
      <4> QED BY <4>1, <4>2
    <3>4. \E at : LinesAre(at, Len(f.lines), f.lines, 0, StandardInput, t, o + 1,
                           o + 1 + Len(code))
      <4>1. f.lines \in Seq(ALine) /\ 0 \in Int /\ StandardInput \in AName
        BY <1>1
      <4>2. \A u : \A p \in Int :
              Has(u, p, code) =>
                \E at : LinesAre(at, Len(f.lines), f.lines, 0, StandardInput, u, p,
                                 p + Len(code))
        BY <4>1, LinesLaid, Zenon DEF code
      <4> QED BY <3>1, <3>3, <4>2, Zenon
    <3> QED BY <3>2, <3>3, <3>4 DEF AsmIs
  <2> QED BY <1>2, <2>2, <2>3, <2>4, <2>5, Joined DEF InFile, s
<1>3. CASE ~f.asm
  <2> DEFINE head == <<Stab("SO", f.start, 0, f.name), Stab("OPT", 0, 0, Nameless)>>
             code == Code(f)
             tail == <<Stab("SO", end, 0, Nameless)>>
  <2>1. /\ Stab("SO", f.start, 0, f.name) \in AnEntry
        /\ Stab("OPT", 0, 0, Nameless) \in AnEntry
        /\ Stab("SO", end, 0, Nameless) \in AnEntry
    BY <1>1 DEF Stab, AnEntry, StabTypes
  <2>2. /\ head \in Listing /\ Len(head) = 2
        /\ head[1] = Stab("SO", f.start, 0, f.name)
        /\ head[2] = Stab("OPT", 0, 0, Nameless)
    BY <2>1 DEF Listing
  <2>3. tail \in Listing /\ Len(tail) = 1 /\ tail[1] = Stab("SO", end, 0, Nameless)
    BY <2>1 DEF Listing
  <2>4. code \in Listing
    BY <1>3, CodeLaid
  <2>5. s = (head \o code) \o tail
    BY <1>3 DEF FileStabs
  <2> DEFINE first == head \o code
  <2>6. first \in Listing /\ Len(first) = 2 + Len(code) /\ Len(code) \in Nat
    <3> HIDE DEF head, code
    <3> QED BY <2>2, <2>4, Joined
  <2>7. s \in Listing
    <3> HIDE DEF first, tail, s
    <3>1. s = first \o tail
      BY <2>5 DEF first
    <3> QED BY <2>3, <2>6, <3>1, Joined
  <2>8. ASSUME NEW t, NEW o \in Int, Has(t, o, s)
        PROVE  CFileIs(t, f, end, o, o + Len(s))
    <3> HIDE DEF s, head, code, tail
    <3>1. /\ Has(t, o, first) /\ Has(t, o + Len(first), tail)
          /\ Len(s) = Len(first) + 1
      <4> HIDE DEF first
      <4>1. Has(t, o, first \o tail) /\ s = first \o tail
        BY <2>5, <2>8 DEF first
      <4> QED BY <2>3, <2>6, <4>1, Concatenated
    <3>2. Has(t, o, head) /\ Has(t, o + 2, code)
      BY <2>2, <2>4, <3>1, Concatenated
    <3>3. /\ t[o + 1] = Stab("SO", f.start, 0, f.name)
          /\ t[o + 2] = Stab("OPT", 0, 0, Nameless)
      BY <2>2, <3>2 DEF Has
    <3>4. /\ o + Len(s) = o + 2 + Len(code) + 1
          /\ o + Len(first) + 1 = o + Len(s) /\ o + 2 \in Int
      <4> HIDE DEF first
      <4> QED BY <2>6, <3>1
    <3>5. t[o + Len(first) + 1] = Stab("SO", end, 0, Nameless)
      BY <2>3, <3>1 DEF Has
    <3>6. \E off : CodeIs(off, t, f, o + 2, Len(code))
      BY <1>3, <3>2, <3>4, CodeLaid DEF code
    <3> QED BY <2>6, <3>3, <3>4, <3>5, <3>6 DEF CFileIs
  <2> QED BY <1>3, <2>7, <2>8 DEF InFile
<1> QED BY <1>1, <1>2, <1>3

(* The table of a program, from entry 1 on.                                *)
TableIs(off, t, program, end, top) ==
  /\ DOMAIN t = 0 .. top /\ t[0].type = "UNDF"
  /\ Offsets(off, Len(program), top)
  /\ \A k \in 1 .. Len(program) :
       InFile(t, program[k], EndOf(program, k, end), off[k], off[k + 1])

LEMMA TableLaid ==
  ASSUME NEW program, NEW end, IsProgram(program, end)
  PROVE  \E top \in Nat : \E off : TableIs(off, StabsOf(program, end), program, end, top)
PROOF
<1>0. PICK n \in Nat : n = Len(program)
  BY DEF IsProgram
<1> DEFINE own(k) == FileStabs(program[k], EndOf(program, k, end))
           ss == [k \in DOMAIN program |-> own(k)]
           t == StabsOf(program, end)
           files == FlattenSeq(ss)
           head == <<Stab("UNDF", 0, 0, Nameless)>>
<1>1. /\ program \in Seq(AFile) /\ DOMAIN program = 1 .. n /\ end \in Int
      /\ \A k \in 1 .. n : program[k] \in AFile /\ IsFile(program[k])
  BY <1>0 DEF IsProgram
<1>2. ASSUME NEW k \in 1 .. n PROVE EndOf(program, k, end) \in Int
  <2>1. CASE k = n
    BY <1>0, <1>1, <2>1 DEF EndOf
  <2>2. CASE k # n
    <3>1. k + 1 \in 1 .. n
      BY <2>2
    <3>2. program[k + 1] \in AFile
      BY <1>1, <3>1
    <3> QED BY <1>0, <2>2, <3>2 DEF EndOf, AFile
  <2> QED BY <2>1, <2>2
<1>3. \A k \in 1 .. n :
        /\ own(k) \in Listing
        /\ \A u : \A o \in Int :
             Has(u, o, own(k)) =>
               InFile(u, program[k], EndOf(program, k, end), o, o + Len(own(k)))
  BY <1>1, <1>2, FileLaid
<1>4. ss \in Seq(Listing) /\ Len(ss) = n /\ \A k \in 1 .. n : ss[k] = own(k)
  <2> HIDE DEF own
  <2>1. DOMAIN ss = 1 .. n /\ \A k \in 1 .. n : ss[k] \in Listing /\ ss[k] = own(k)
    BY <1>1, <1>3
  <2>2. ss = [k \in 1 .. n |-> ss[k]]
    BY <1>1
  <2> HIDE DEF ss
  <2> QED BY <2>1, <2>2
<1>5. files \in Listing
  BY <1>4, Blocks
<1>6. head \in Listing /\ Len(head) = 1 /\ head[1] = Stab("UNDF", 0, 0, Nameless)
  <2>1. Nameless \in AName
    BY DEF AName
  <2>2. Stab("UNDF", 0, 0, Nameless) \in AnEntry
    BY <2>1 DEF Stab, AnEntry, StabTypes
  <2> QED BY <2>2 DEF Listing, head
<1>7. t = [k \in 0 .. Len(head \o files) - 1 |-> (head \o files)[k + 1]]
  BY DEF StabsOf
<1> HIDE DEF ss, own, files, head, t
<1>8. PICK top \in Nat : top = Len(files)
  BY <1>5 DEF Listing
<1>9. head \o files \in Listing /\ Len(head \o files) = top + 1
  <2>1. head \o files \in Listing /\ Len(head \o files) = Len(head) + Len(files)
    BY <1>5, <1>6, Joined, Zenon
  <2> QED BY <1>6, <1>8, <2>1
<1>10. Has(t, -1, head \o files) /\ DOMAIN t = 0 .. top
  <2> DEFINE all == head \o files
  <2> HIDE DEF all
  <2>1. t = [k \in 0 .. top |-> all[k + 1]]
    BY <1>7, <1>9 DEF all
  <2>2. ASSUME NEW i \in 1 .. top + 1 PROVE t[-1 + i] = all[i]
    <3> DEFINE p == -1 + i
    <3>1. p \in 0 .. top /\ p + 1 = i
      OBVIOUS
    <3> HIDE DEF p
    <3>2. t[p] = all[p + 1]
      BY <2>1, <3>1
    <3> QED BY <3>1, <3>2 DEF p
  <2> QED BY <1>9, <2>1, <2>2 DEF Has, all
<1>11. Has(t, -1, head) /\ Has(t, 0, files)
  <2>1. -1 + Len(head) = 0 /\ -1 \in Int
    BY <1>6
  <2>2. Has(t, -1, head) /\ Has(t, -1 + Len(head), files)
    BY <1>5, <1>6, <1>10, <2>1, Concatenated, Zenon
  <2> QED BY <2>1, <2>2
<1>12. t[0].type = "UNDF"
  <2>1. t[-1 + 1] = head[1] /\ -1 + 1 = 0
    BY <1>6, <1>11 DEF Has
  <2> QED BY <1>6, <2>1 DEF Stab
<1>13. PICK off : /\ Offsets(off, n, top)
                  /\ \A k \in 1 .. n :
                       off[k + 1] = off[k] + Len(ss[k]) /\ Has(t, 0 + off[k], ss[k])
  BY <1>4, <1>8, <1>11, BlocksIn DEF files
<1>14. ASSUME NEW k \in 1 .. n
       PROVE  InFile(t, program[k], EndOf(program, k, end), off[k], off[k + 1])
  <2>1. off[k] \in Nat
    <3>1. k \in 1 .. n + 1
      OBVIOUS
    <3> QED BY <1>13, <3>1 DEF Offsets
  <2>2. 0 + off[k] = off[k] /\ off[k] \in Int
    BY <2>1
  <2>3. off[k + 1] = off[k] + Len(own(k)) /\ Has(t, off[k], own(k))
    BY <1>4, <1>13, <2>2
  <2> QED BY <1>3, <2>2, <2>3
<1>15. TableIs(off, t, program, end, top)
  BY <1>0, <1>10, <1>12, <1>13, <1>14 DEF TableIs
<1> QED BY <1>15 DEF t

LEMMA OnlySources ==
  \A entry : entry.type \in {"FUN", "PSYM", "SLINE", "OPT"} => ~Names(entry)
  BY DEF Names

(* The entries of a function before those of its lines name no file.       *)
LEMMA FunctionNames ==
  ASSUME NEW f \in AFunction, NEW t, NEW o \in Int, NEW e \in Int, NEW file, NEW at,
         t[o + 1] = Stab("FUN", f.start, 0, f.name),
         \A i \in 1 .. f.params : t[o + 1 + i].type = "PSYM",
         LinesAre(at, Len(f.lines), f.lines, f.start, file, t, o + 1 + f.params, e),
         NEW from \in Int, from <= o + 1, NEW name, FileIs(t, from, o, name, file),
         NEW m \in 1 .. Len(f.lines)
  PROVE  FileIs(t, from, at[m], name, f.lines[m].file)
PROOF
<1>1. PICK p \in Nat : p = f.params
  BY DEF AFunction
<1> DEFINE b == o + 1 + p
<1>2. at[m] \in b + 1 .. e /\ FileIs(t, b + 1, at[m], file, f.lines[m].file)
  BY <1>1 DEF LinesAre
<1>3. Unnamed(t, o + 1, b)
  <2> SUFFICES ASSUME NEW i \in o + 1 .. b PROVE ~Names(t[i])
    BY DEF Unnamed
  <2>1. CASE i = o + 1
    <3>1. t[i].type = "FUN"
      BY <2>1 DEF Stab
    <3> QED BY <3>1, OnlySources
  <2>2. CASE i # o + 1
    <3> DEFINE q == i - (o + 1)
    <3>1. q \in 1 .. p /\ o + 1 + q = i
      BY <2>2
    <3> HIDE DEF q
    <3>2. q \in 1 .. f.params
      BY <1>1, <3>1
    <3>3. t[o + 1 + q].type = "PSYM"
      BY <3>2, Zenon
    <3>4. t[i].type = "PSYM"
      BY <3>1, <3>3, Zenon
    <3> QED BY <3>4, OnlySources
  <2> QED BY <2>1, <2>2
<1>4. (b + 1) - 1 = b /\ b + 1 \in Int /\ o + 1 <= b + 1 /\ at[m] \in Int /\ b + 1 <= at[m] + 1
  BY <1>2
<1> HIDE DEF b
<1>5. Unnamed(t, o + 1, (b + 1) - 1)
  BY <1>3, <1>4
<1> DEFINE c == b + 1
           last == at[m]
           new == f.lines[m].file
<1>6. /\ c \in Int /\ last \in Int /\ o + 1 <= c /\ c <= last + 1
      /\ Unnamed(t, o + 1, c - 1) /\ FileIs(t, c, last, file, new)
  BY <1>2, <1>4, <1>5, Zenon
<1> HIDE DEF c, last, new
<1>7. FileIs(t, from, last, name, new)
  <2>1. \A q, u, w \in Int : \A fi, na, ne :
          /\ from <= q + 1 /\ q + 1 <= u /\ u <= w + 1
          /\ FileIs(t, from, q, fi, na) /\ Unnamed(t, q + 1, u - 1)
          /\ FileIs(t, u, w, na, ne)
          => FileIs(t, from, w, fi, ne)
    BY FileGoesOn
  <2>2. o \in Int /\ from <= o + 1 /\ FileIs(t, from, o, name, file)
    OBVIOUS
  <2> QED BY <1>6, <2>1, <2>2, Zenon
<1> QED BY <1>7 DEF last, new

LEMMA CodeNames ==
  ASSUME NEW f \in AFile, IsFile(f), ~f.asm, NEW t, NEW o \in Int, NEW size \in Nat,
         NEW off, CodeIs(off, t, f, o, size), NEW k \in 1 .. Len(f.functions)
  PROVE  FileIs(t, o + 1, o + off[k], f.name, FileBefore(f, k))
PROOF
<1>0. PICK n \in Nat : n = Len(f.functions)
  BY DEF AFile
<1> DEFINE Right(m) == FileIs(t, o + 1, o + off[m], f.name, FileBefore(f, m))
           Wrong == {m \in 1 .. n : ~Right(m)}
<1> SUFFICES ASSUME Wrong # {} PROVE FALSE
  BY <1>0
<1>1. PICK m \in Wrong : \A i \in Wrong : m <= i
  <2>1. Wrong \in SUBSET Nat
    OBVIOUS
  <2> HIDE DEF Wrong
  <2> QED BY <2>1, LeastNat
<1>2. m \in 1 .. n /\ ~Right(m)
  BY <1>1
<1> HIDE DEF Wrong, Right
<1>3. Offsets(off, n, size)
  BY <1>0 DEF CodeIs
<1>4. CASE m = 1
  <2>1. o + off[m] = o
    BY <1>3, <1>4 DEF Offsets
  <2>2. FileBefore(f, m) = f.name
    BY <1>4 DEF FileBefore
  <2>3. Unnamed(t, o + 1, o)
    BY DEF Unnamed
  <2> QED BY <1>2, <2>1, <2>2, <2>3 DEF FileIs, Right
<1>5. CASE m # 1
  <2>1. PICK j \in 1 .. n : m = j + 1 /\ ~(m <= j)
    <3>1. m - 1 \in 1 .. n /\ m = (m - 1) + 1 /\ ~(m <= m - 1)
      BY <1>2, <1>5
    <3> QED BY <3>1
  <2>2. Right(j)
    BY <1>1, <2>1 DEF Wrong
  <2> DEFINE g == f.functions[j]
             b == o + off[j]
             e == o + off[j + 1]
             n_ == Len(g.lines)
  <2>3. /\ f.functions \in Seq(AFunction) /\ g \in AFunction /\ g.lines # <<>>
        /\ g.lines \in Seq(ALine)
    <3>1. f.functions \in Seq(AFunction)
      BY DEF AFile
    <3>2. g \in AFunction /\ IsFunction(g)
      BY <1>0, <3>1 DEF IsFile
    <3> HIDE DEF g
    <3> QED BY <3>1, <3>2 DEF AFunction, IsFunction
  <2>4. off[j] \in Nat /\ off[j + 1] \in Nat /\ b \in Int /\ e \in Int /\ o + 1 <= b + 1
    <3>1. j \in 1 .. n + 1 /\ j + 1 \in 1 .. n + 1
      OBVIOUS
    <3>2. off[j] \in Nat /\ off[j + 1] \in Nat
      BY <1>3, <3>1 DEF Offsets
    <3> QED BY <3>2
  <2>5. FunctionIs(t, g, FileBefore(f, j), b, e)
    BY <1>0 DEF CodeIs
  <2> HIDE DEF g, b, e
  <2>6. PICK at : LinesAre(at, n_, g.lines, g.start, FileBefore(f, j), t,
                           b + 1 + g.params, e)
    BY <2>5 DEF FunctionIs
  <2>7. n_ \in Nat /\ n_ # 0 /\ n_ \in 1 .. n_
    BY <2>3
  <2>8. at[n_] = e
    BY <2>6, <2>7 DEF LinesAre
  <2>9. FileIs(t, o + 1, at[n_], f.name, g.lines[n_].file)
    <3>1. /\ t[b + 1] = Stab("FUN", g.start, 0, g.name)
          /\ \A i \in 1 .. g.params : t[b + 1 + i].type = "PSYM"
      BY <2>5 DEF FunctionIs
    <3>2. FileIs(t, o + 1, b, f.name, FileBefore(f, j)) /\ o + 1 \in Int
      BY <2>2 DEF b, Right
    <3> QED BY <2>3, <2>4, <2>6, <2>7, <3>1, <3>2, FunctionNames
  <2>10. FileBefore(f, m) = g.lines[n_].file
    <3>1. m - 1 = j
      BY <2>1
    <3> QED BY <1>5, <3>1 DEF FileBefore, Last, g
  <2>11. o + off[m] = e
    BY <2>1 DEF e
  <2> QED BY <1>2, <2>8, <2>9, <2>10, <2>11 DEF Right
<1> QED BY <1>4, <1>5

-----------------------------------------------------------------------------
(* What stab_binsearch looks for: the last entry of type T up to an        *)
(* address, and the region from it to before the next one.                 *)
LastOf(t, T, lo, hi, x, a) ==
  /\ a \in lo .. hi /\ t[a].type = T /\ t[a].value <= x
  /\ \A i \in a + 1 .. hi : t[i].type = T => t[i].value > x

Ends(t, T, hi, a, b) ==
  /\ b \in a .. hi
  /\ \A i \in a + 1 .. b : t[i].type # T
  /\ b = hi \/ t[b + 1].type = T

InRegion(t, T, lo, hi, x, a, b) == LastOf(t, T, lo, hi, x, a) /\ Ends(t, T, hi, a, b)

Ordered(t, T, lo, hi) ==
  \A i, j \in lo .. hi :
    t[i].type = T /\ t[j].type = T /\ i < j => t[i].value <= t[j].value

(* Not both at the address and right behind it.                            *)
Clear(t, T, lo, hi, x) ==
  \A i, j \in lo .. hi :
    t[i].type = T /\ t[j].type = T => ~(t[i].value = x /\ t[j].value = x + 1)

LEMMA OneRegion ==
  ASSUME NEW t, NEW T, NEW lo \in Int, NEW hi \in Int, NEW x \in Int,
         NEW a, NEW b, NEW c, NEW d,
         InRegion(t, T, lo, hi, x, a, b), InRegion(t, T, lo, hi, x, c, d),
         \A i \in lo .. hi : t[i].value \in Int
  PROVE  a = c /\ b = d
PROOF
<1>1. a = c
  BY DEF InRegion, LastOf
<1>2. /\ b \in a .. hi /\ d \in a .. hi /\ a \in Int
      /\ \A i \in a + 1 .. b : t[i].type # T
      /\ \A i \in a + 1 .. d : t[i].type # T
      /\ b = hi \/ t[b + 1].type = T
      /\ d = hi \/ t[d + 1].type = T
  BY <1>1 DEF InRegion, Ends, LastOf
<1> QED BY <1>1, <1>2

(* Of values in order, the last up to x.                                   *)
LEMMA LastUpTo ==
  ASSUME NEW n \in Nat, NEW v \in [1 .. n -> Int], NEW x \in Int,
         n # 0, v[1] <= x
  PROVE  \E k \in 1 .. n : v[k] <= x /\ (k = n \/ v[k + 1] > x)
PROOF
<1> DEFINE Ending == {k \in 1 .. n : k = n \/ v[k + 1] > x}
<1>1. n \in Ending /\ Ending \in SUBSET Nat
  OBVIOUS
<1>2. PICK k \in Ending : \A i \in Ending : k <= i
  <2> HIDE DEF Ending
  <2> QED BY <1>1, LeastNat
<1>3. k \in 1 .. n /\ (k = n \/ v[k + 1] > x)
  BY <1>2
<1>4. v[k] <= x
  <2>1. CASE k = 1
    BY <2>1
  <2>2. CASE k # 1
    <3>1. k - 1 \in 1 .. n /\ k - 1 \notin Ending /\ (k - 1) + 1 = k
      BY <1>2, <1>3, <2>2
    <3>2. ~(v[(k - 1) + 1] > x)
      BY <3>1
    <3> QED BY <1>3, <3>1, <3>2
  <2> QED BY <2>1, <2>2
<1> QED BY <1>3, <1>4

LEMMA OnlyLast ==
  ASSUME NEW n \in Nat, NEW v \in [1 .. n -> Int], NEW x \in Int,
         \A i, j \in 1 .. n : i < j => v[i] <= v[j],
         NEW k \in 1 .. n, v[k] <= x, k = n \/ v[k + 1] > x,
         NEW m \in 1 .. n, v[m] <= x, m = n \/ v[m + 1] > x
  PROVE  m = k
PROOF
<1>1. CASE k < m
  BY <1>1
<1>2. CASE m < k
  BY <1>2
<1> QED BY <1>1, <1>2

LEMMA LastAtIs ==
  ASSUME NEW s, NEW n \in Nat, n = Len(s), DOMAIN s = 1 .. n, NEW x \in Int,
         \A i \in 1 .. n : s[i].start \in Int,
         \A i, j \in 1 .. n : i < j => s[i].start <= s[j].start,
         NEW k \in 1 .. n, s[k].start <= x, k = n \/ s[k + 1].start > x
  PROVE  LastAt(s, x) = k
PROOF
<1> DEFINE v == [i \in 1 .. n |-> s[i].start]
           Here(m) == s[m].start <= x /\ (m = Len(s) \/ s[m + 1].start > x)
<1>1. /\ v \in [1 .. n -> Int]
      /\ \A i, j \in 1 .. n : i < j => v[i] <= v[j]
  OBVIOUS
<1>2. \A m \in 1 .. n : Here(m) => v[m] <= x /\ (m = n \/ v[m + 1] > x)
  OBVIOUS
<1>3. Here(k)
  OBVIOUS
<1> HIDE DEF v, Here
<1>4. \A m \in 1 .. n : Here(m) => m = k
  BY <1>1, <1>2, <1>3, OnlyLast
<1>5. LastAt(s, x) = CHOOSE m \in 1 .. n : Here(m)
  BY DEF LastAt, Here
<1> QED BY <1>3, <1>4, <1>5

LEMMA LastLineIs ==
  ASSUME NEW lines \in Seq(ALine), InOrder(lines), NEW n \in Nat, n = Len(lines),
         NEW x \in Int, n # 0, lines[1].at <= x
  PROVE  \E k \in 1 .. n :
           /\ LastLine(lines, x) = lines[k]
           /\ lines[k].at <= x
           /\ \A j \in 1 .. n : j > k => lines[j].at > x
PROOF
<1>1. DOMAIN lines = 1 .. n /\ \A i \in 1 .. n : lines[i] \in ALine
  OBVIOUS
<1> DEFINE v == [i \in 1 .. n |-> lines[i].at]
           Here(m) == lines[m].at <= x /\ (m = Len(lines) \/ lines[m + 1].at > x)
<1>2. /\ v \in [1 .. n -> Int]
      /\ \A i, j \in 1 .. n : i < j => v[i] <= v[j]
      /\ v[1] <= x
  <2>1. \A i \in 1 .. n : lines[i].at \in Int
    BY <1>1 DEF ALine
  <2>2. \A i, j \in 1 .. n : i < j => lines[i].at <= lines[j].at
    BY <1>1 DEF InOrder
  <2>3. 1 \in 1 .. n
    OBVIOUS
  <2> QED BY <2>1, <2>2, <2>3
<1>3. \A m \in 1 .. n : Here(m) <=> v[m] <= x /\ (m = n \/ v[m + 1] > x)
  OBVIOUS
<1> HIDE DEF Here
<1>4. PICK k \in 1 .. n : v[k] <= x /\ (k = n \/ v[k + 1] > x)
  <2> HIDE DEF v
  <2> QED BY <1>2, LastUpTo
<1>5. \A m \in 1 .. n : Here(m) => m = k
  <2> HIDE DEF v
  <2> QED BY <1>2, <1>3, <1>4, OnlyLast
<1>6. LastLine(lines, x) = lines[CHOOSE m \in 1 .. n : Here(m)]
  BY <1>1 DEF LastLine, Here
<1>7. LastLine(lines, x) = lines[k]
  BY <1>3, <1>4, <1>5, <1>6
<1>8. ASSUME NEW j \in 1 .. n, j > k PROVE v[j] > x
  <2>1. k # n /\ k + 1 \in 1 .. n
    BY <1>8
  <2> HIDE DEF v
  <2> QED BY <1>2, <1>4, <1>8, <2>1
<1> QED BY <1>4, <1>7, <1>8

(* The addresses of lines, as Crowded reads them.                          *)
Ats(lines) == {lines[k].at : k \in DOMAIN lines}

(* Entry e is that of the line of address x.                               *)
LineFound(t, lo, hi, base, x, lines, from, file, e) ==
  LET at == LastLine(lines, x)
  IN  /\ LastOf(t, "SLINE", lo, hi, x - base, e)
      /\ t[e].desc = at.line
      /\ FileIs(t, from, e, file, at.file)

LEMMA LinesFound ==
  ASSUME NEW lines \in Seq(ALine), InOrder(lines), lines # <<>>, NEW base \in Int,
         NEW file, NEW t, NEW o \in Int, NEW e \in Int, NEW at,
         LinesAre(at, Len(lines), lines, base, file, t, o, e),
         NEW lo \in Int, lo <= o + 1, \A i \in lo .. o : t[i].type # "SLINE",
         NEW x \in Int, lines[1].at <= x
  PROVE  /\ Ordered(t, "SLINE", lo, e)
         /\ ~({x, x + 1} \subseteq Ats(lines)) => Clear(t, "SLINE", lo, e, x - base)
         /\ \E k \in 1 .. Len(lines) :
              LineFound(t, lo, e, base, x, lines, o + 1, file, at[k])
PROOF
<1>0. PICK n \in Nat : n = Len(lines)
  OBVIOUS
<1>1. /\ n # 0 /\ DOMAIN lines = 1 .. n
      /\ \A k \in 1 .. n : lines[k] \in ALine /\ lines[k].at \in Int
  <2>1. DOMAIN lines = 1 .. n /\ \A k \in 1 .. n : lines[k] \in ALine
    BY <1>0
  <2>2. n # 0
    BY <1>0
  <2>3. \A k \in 1 .. n : lines[k].at \in Int
    BY <2>1 DEF ALine
  <2> QED BY <2>1, <2>2, <2>3
<1>2. /\ at \in [1 .. n -> o + 1 .. e]
      /\ \A j, k \in 1 .. n : j < k => at[j] < at[k]
      /\ \A i \in o + 1 .. e : t[i].type = "SLINE" => \E k \in 1 .. n : i = at[k]
      /\ \A k \in 1 .. n : FileIs(t, o + 1, at[k], file, lines[k].file)
  BY <1>0 DEF LinesAre
<1>3. ASSUME NEW k \in 1 .. n
      PROVE  /\ t[at[k]].type = "SLINE" /\ t[at[k]].value = lines[k].at - base
             /\ t[at[k]].desc = lines[k].line
  <2> DEFINE entry == t[at[k]]
             where == lines[k].at - base
             number == lines[k].line
  <2>1. entry = Stab("SLINE", where, number, Nameless)
    BY <1>0 DEF LinesAre
  <2> HIDE DEF entry, where, number
  <2>2. entry.type = "SLINE" /\ entry.value = where /\ entry.desc = number
    BY <2>1 DEF Stab
  <2> QED BY <2>2 DEF entry, where, number
<1>4. \A j, k \in 1 .. n : j < k => lines[j].at <= lines[k].at
  BY <1>1 DEF InOrder
<1>5. ASSUME NEW i \in lo .. e, t[i].type = "SLINE" PROVE \E k \in 1 .. n : i = at[k]
  <2>1. i \in o + 1 .. e
    BY <1>5
  <2> QED BY <1>2, <1>5, <2>1
<1>6. \A k \in 1 .. n : at[k] \in Int /\ at[k] \in lo .. e /\ at[k] \in o + 1 .. e
  BY <1>2
<1>7. Ordered(t, "SLINE", lo, e)
  <2> SUFFICES ASSUME NEW i \in lo .. e, NEW m \in lo .. e,
                      t[i].type = "SLINE", t[m].type = "SLINE", i < m
               PROVE  t[i].value <= t[m].value
    BY DEF Ordered
  <2>1. PICK j \in 1 .. n : i = at[j]
    BY <1>5
  <2>2. PICK k \in 1 .. n : m = at[k]
    BY <1>5
  <2>3. j < k
    <3>1. at[j] \in Int /\ at[k] \in Int
      BY <1>6
    <3>2. at[j] < at[k]
      BY <2>1, <2>2, Zenon
    <3>3. ~(at[k] < at[j]) /\ at[k] # at[j]
      BY <3>1, <3>2
    <3>4. ~(k < j) /\ k # j
      BY <1>2, <3>3, Zenon
    <3> QED BY <3>4
  <2>4. lines[j].at <= lines[k].at
    BY <1>4, <2>3
  <2>5. t[i].value = lines[j].at - base /\ t[m].value = lines[k].at - base
    BY <1>3, <2>1, <2>2
  <2> QED BY <1>1, <2>4, <2>5
<1>8. ASSUME ~({x, x + 1} \subseteq Ats(lines)) PROVE Clear(t, "SLINE", lo, e, x - base)
  <2> SUFFICES ASSUME NEW i \in lo .. e, NEW m \in lo .. e,
                      t[i].type = "SLINE", t[m].type = "SLINE",
                      t[i].value = x - base, t[m].value = x - base + 1
               PROVE  FALSE
    BY DEF Clear
  <2>1. PICK j \in 1 .. n : i = at[j]
    BY <1>5
  <2>2. PICK k \in 1 .. n : m = at[k]
    BY <1>5
  <2>3. t[i].value = lines[j].at - base /\ t[m].value = lines[k].at - base
    BY <1>3, <2>1, <2>2
  <2>4. PICK u, v \in Int : u = lines[j].at /\ v = lines[k].at
    BY <1>1
  <2>5. u - base = x - base /\ v - base = x - base + 1
    BY <2>3, <2>4
  <2>6. u = x /\ v = x + 1
    BY <1>1, <2>5
  <2> QED BY <1>1, <1>8, <2>4, <2>6 DEF Ats
<1>9. PICK k \in 1 .. n :
        /\ LastLine(lines, x) = lines[k]
        /\ lines[k].at <= x
        /\ \A j \in 1 .. n : j > k => lines[j].at > x
  BY <1>0, <1>1, LastLineIs
<1>10. LastOf(t, "SLINE", lo, e, x - base, at[k])
  <2>1. at[k] \in lo .. e /\ t[at[k]].type = "SLINE" /\ t[at[k]].value <= x - base
    BY <1>1, <1>3, <1>6, <1>9
  <2>2. ASSUME NEW i \in at[k] + 1 .. e, t[i].type = "SLINE" PROVE t[i].value > x - base
    <3>1. i \in lo .. e /\ i > at[k]
      BY <1>6
    <3>2. PICK j \in 1 .. n : i = at[j]
      BY <1>5, <2>2, <3>1
    <3>3. j > k
      <4>1. at[k] < at[j] /\ at[j] \in Int /\ at[k] \in Int
        BY <1>6, <3>1, <3>2
      <4>2. ~(j < k) /\ j # k
        BY <1>2, <4>1
      <4> QED BY <4>2
    <3>4. lines[j].at > x /\ t[i].value = lines[j].at - base /\ lines[j].at \in Int
      BY <1>1, <1>3, <1>9, <3>2, <3>3
    <3> QED BY <3>4
  <2> QED BY <2>1, <2>2 DEF LastOf
<1>11. LineFound(t, lo, e, base, x, lines, o + 1, file, at[k])
  BY <1>2, <1>3, <1>9, <1>10 DEF LineFound
<1> QED BY <1>0, <1>7, <1>8, <1>11

(* The entries of a function.                                              *)
FunctionEntries(t, f, o, e) ==
  /\ o + 1 + f.params + 1 <= e
  /\ t[o + 1].type = "FUN" /\ t[o + 1].value = f.start /\ t[o + 1].name = f.name
  /\ \A i \in o + 2 .. o + 1 + f.params : t[i].type = "PSYM"
  /\ \A i \in o + 1 + f.params + 1 .. e : t[i].type \in {"SOL", "SLINE"}

LEMMA FunctionEntriesAre ==
  ASSUME NEW f \in AFunction, IsFunction(f), NEW t, NEW file,
         NEW o \in Int, NEW e \in Int, FunctionIs(t, f, file, o, e)
  PROVE  FunctionEntries(t, f, o, e)
PROOF
<1>1. f.params \in Nat /\ f.lines \in Seq(ALine) /\ f.lines # <<>>
  BY DEF AFunction, IsFunction
<1>2. PICK n \in Nat : n = Len(f.lines)
  BY <1>1
<1>3. n # 0
  BY <1>1, <1>2
<1>4. PICK at : LinesAre(at, n, f.lines, f.start, file, t, o + 1 + f.params, e)
  BY <1>2 DEF FunctionIs
<1>5. /\ at[1] \in o + 1 + f.params + 1 .. e
      /\ \A i \in o + 1 + f.params + 1 .. e : t[i].type \in {"SOL", "SLINE"}
  <2>1. 1 \in 1 .. n
    BY <1>3
  <2> QED BY <1>4, <2>1 DEF LinesAre
<1>6. o + 1 + f.params + 1 <= e
  BY <1>1, <1>5
<1>7. t[o + 1].type = "FUN" /\ t[o + 1].value = f.start /\ t[o + 1].name = f.name
  <2> DEFINE entry == t[o + 1]
             v == f.start
             w == f.name
  <2>1. entry = Stab("FUN", v, 0, w)
    BY DEF FunctionIs
  <2> HIDE DEF entry, v, w
  <2>2. entry.type = "FUN" /\ entry.value = v /\ entry.name = w
    BY <2>1 DEF Stab
  <2> QED BY <2>2 DEF entry, v, w
<1>8. ASSUME NEW i \in o + 2 .. o + 1 + f.params PROVE t[i].type = "PSYM"
  <2>1. i - (o + 1) \in 1 .. f.params /\ o + 1 + (i - (o + 1)) = i
    BY <1>1
  <2>2. t[o + 1 + (i - (o + 1))].type = "PSYM"
    BY <2>1 DEF FunctionIs
  <2> QED BY <2>1, <2>2
<1> QED BY <1>5, <1>6, <1>7, <1>8 DEF FunctionEntries

(* Entries c .. d are those of the function of file f at address x.        *)
FunctionFound(t, f, o, off, x, c, d) ==
  \E m \in 1 .. Len(f.functions) :
    /\ LastAt(f.functions, x) = m
    /\ f.functions[m].start <= x
    /\ c = o + off[m] + 1 /\ d = o + off[m + 1]

LEMMA FunctionsOf ==
  ASSUME NEW f \in AFile, IsFile(f), ~f.asm
  PROVE  \E n \in Nat :
           /\ n = Len(f.functions) /\ DOMAIN f.functions = 1 .. n
           /\ \A k \in 1 .. n :
                /\ f.functions[k] \in AFunction /\ IsFunction(f.functions[k])
                /\ f.functions[k].start \in Nat
           /\ \A j, k \in 1 .. n : j < k => f.functions[j].start < f.functions[k].start
           /\ n # 0 => f.functions[1].start = f.start
           /\ \A j, k \in 1 .. n : f.functions[k].start # f.functions[j].start + 1
           /\ n = 0 => f.functions = <<>>
PROOF
<1>1. f.functions \in Seq(AFunction)
  BY DEF AFile
<1>2. PICK n \in Nat : n = Len(f.functions) /\ DOMAIN f.functions = 1 .. n
  BY <1>1
<1>3. \A k \in 1 .. n : f.functions[k] \in AFunction
  BY <1>1, <1>2
<1>4. \A k \in 1 .. n : f.functions[k].start \in Nat
  BY <1>3 DEF AFunction
<1>5. /\ \A k \in 1 .. n : IsFunction(f.functions[k])
      /\ \A j, k \in 1 .. n : j < k => f.functions[j].start < f.functions[k].start
      /\ f.functions # <<>> => f.functions[1].start = f.start
      /\ Apart({f.functions[k].start : k \in 1 .. n})
  BY <1>2, Zenon DEF IsFile
<1>6. n = 0 <=> f.functions = <<>>
  BY <1>1, <1>2
<1>7. \A j, k \in 1 .. n : f.functions[k].start # f.functions[j].start + 1
  BY <1>5 DEF Apart
<1> QED BY <1>2, <1>3, <1>4, <1>5, <1>6, <1>7

LEMMA FunctionLocated ==
  ASSUME NEW f \in AFile, IsFile(f), ~f.asm, f.functions # <<>>,
         NEW t, NEW o \in Int, NEW size \in Nat, NEW off, CodeIs(off, t, f, o, size),
         NEW a \in Int, a <= o + 1, \A i \in a .. o : t[i].type # "FUN",
         NEW x \in Int, f.start <= x
  PROVE  /\ Ordered(t, "FUN", a, o + size)
         /\ Clear(t, "FUN", a, o + size, x)
         /\ \E c, d \in Int :
              /\ InRegion(t, "FUN", a, o + size, x, c, d)
              /\ FunctionFound(t, f, o, off, x, c, d)
PROOF
<1>1. PICK n \in Nat :
        /\ n = Len(f.functions) /\ DOMAIN f.functions = 1 .. n
        /\ \A k \in 1 .. n :
             /\ f.functions[k] \in AFunction /\ IsFunction(f.functions[k])
             /\ f.functions[k].start \in Nat
        /\ \A j, k \in 1 .. n : j < k => f.functions[j].start < f.functions[k].start
        /\ n # 0 => f.functions[1].start = f.start
        /\ \A j, k \in 1 .. n : f.functions[k].start # f.functions[j].start + 1
        /\ n = 0 => f.functions = <<>>
  BY FunctionsOf
<1> DEFINE at(k) == o + off[k] + 1
           v == [k \in 1 .. n |-> f.functions[k].start]
           b == o + size
<1>2. \A k \in 1 .. n : v[k] \in Nat /\ v[k] = f.functions[k].start
  BY <1>1
<1>3. /\ \A j, k \in 1 .. n : j < k => v[j] < v[k]
      /\ \A j, k \in 1 .. n : v[k] # v[j] + 1
      /\ v \in [1 .. n -> Int]
  BY <1>1
<1>4. n # 0 /\ v[1] <= x
  BY <1>1
<1>5. Offsets(off, n, size)
  BY <1>1 DEF CodeIs
<1>6. ASSUME NEW k \in 1 .. n
      PROVE  /\ FunctionEntries(t, f.functions[k], o + off[k], o + off[k + 1])
             /\ f.functions[k].params \in Nat
             /\ off[k] \in Nat /\ off[k + 1] \in Nat /\ off[k + 1] <= size
  <2>1. FunctionIs(t, f.functions[k], FileBefore(f, k), o + off[k], o + off[k + 1])
    BY <1>1 DEF CodeIs
  <2>2. k \in 1 .. n + 1 /\ k + 1 \in 1 .. n + 1 /\ n + 1 \in 1 .. n + 1 /\ k + 1 <= n + 1
    OBVIOUS
  <2>3. off[k] \in Nat /\ off[k + 1] \in Nat /\ off[k + 1] <= size
    BY <1>5, <2>2 DEF Offsets
  <2>4. o + off[k] \in Int /\ o + off[k + 1] \in Int
    BY <2>3
  <2>5. f.functions[k].params \in Nat
    BY <1>1 DEF AFunction
  <2> QED BY <1>1, <2>1, <2>3, <2>4, <2>5, FunctionEntriesAre
<1> HIDE DEF v
<1>7. ASSUME NEW k \in 1 .. n
      PROVE  /\ at(k) \in a .. b /\ at(k) < o + off[k + 1] /\ o + off[k + 1] <= b
             /\ t[at(k)].type = "FUN" /\ t[at(k)].value = v[k]
             /\ \A i \in at(k) + 1 .. o + off[k + 1] : t[i].type # "FUN"
  <2> DEFINE p == f.functions[k].params
             s == o + off[k]
             e == o + off[k + 1]
  <2>1. /\ s + 1 + p + 1 <= e /\ t[s + 1].type = "FUN"
        /\ t[s + 1].value = f.functions[k].start
        /\ \A i \in s + 2 .. s + 1 + p : t[i].type = "PSYM"
        /\ \A i \in s + 1 + p + 1 .. e : t[i].type \in {"SOL", "SLINE"}
    BY <1>6 DEF FunctionEntries
  <2>2. p \in Nat /\ s \in Int /\ e \in Int /\ o <= s /\ e <= b
    <3>1. PICK u \in Nat : u = off[k]
      BY <1>6
    <3>2. PICK w \in Nat : w = off[k + 1] /\ w <= size
      BY <1>6
    <3>3. p \in Nat
      BY <1>6
    <3>4. o + u \in Int /\ o + w \in Int /\ o <= o + u /\ o + w <= o + size
      BY <3>2
    <3> QED BY <3>1, <3>2, <3>3, <3>4
  <2> HIDE DEF p, s, e
  <2>3. \A i \in s + 1 + 1 .. e : t[i].type # "FUN"
    BY <2>1, <2>2
  <2>4. at(k) = s + 1
    BY DEF s
  <2>5. s + 1 \in a .. b /\ s + 1 < e /\ e <= b
    BY <2>1, <2>2
  <2> QED BY <1>2, <2>1, <2>3, <2>4, <2>5 DEF e
<1>8. ASSUME NEW j \in 1 .. n, NEW k \in 1 .. n, j < k PROVE at(j) < at(k)
  <2>1. off[j + 1] <= off[k] /\ off[k] \in Nat /\ off[j] \in Nat /\ off[j + 1] \in Nat
    <3>1. j + 1 \in 1 .. n + 1 /\ k \in 1 .. n + 1 /\ j + 1 <= k
      BY <1>8
    <3> QED BY <1>5, <1>6, <3>1 DEF Offsets
  <2>2. at(j) < o + off[j + 1]
    BY <1>7
  <2>3. PICK u, w, q \in Nat : u = off[j] /\ w = off[j + 1] /\ q = off[k]
    BY <2>1
  <2>4. w <= q /\ o + u + 1 < o + w
    BY <2>1, <2>2, <2>3
  <2>5. o + u + 1 < o + q + 1
    BY <2>4
  <2> QED BY <2>3, <2>5
<1>9. ASSUME NEW i \in a .. b, t[i].type = "FUN" PROVE \E k \in 1 .. n : i = at(k)
  <2>1. i \in o + 1 .. b
    BY <1>9
  <2>2. i - o \in 1 .. size
    BY <2>1
  <2>3. PICK k \in 1 .. n : off[k] < i - o /\ i - o <= off[k + 1]
    BY <1>5, <2>2 DEF Offsets
  <2>4. off[k] \in Nat /\ off[k + 1] \in Nat
    BY <1>6
  <2>5. ~(i \in at(k) + 1 .. o + off[k + 1])
    BY <1>7, <1>9
  <2>6. i = at(k)
    <3>1. PICK u, w \in Nat : u = off[k] /\ w = off[k + 1]
      BY <2>4
    <3>2. /\ u < i - o /\ i - o <= w /\ i \in Int
          /\ ~(i \in o + u + 1 + 1 .. o + w)
      BY <2>1, <2>3, <2>5, <3>1
    <3>3. i = o + u + 1
      BY <3>2
    <3> QED BY <3>1, <3>3
  <2> QED BY <2>6
<1>10. \A k \in 1 .. n : at(k) \in Int /\ o + off[k + 1] \in Int
  <2>1. \A u, w \in Nat : o + u + 1 \in Int /\ o + w \in Int
    OBVIOUS
  <2> QED BY <1>6, <2>1
<1>11. \A k \in 1 .. n :
         /\ at(k) \in a .. b /\ at(k) < o + off[k + 1] /\ o + off[k + 1] <= b
         /\ t[at(k)].type = "FUN" /\ t[at(k)].value = v[k]
         /\ \A i \in at(k) + 1 .. o + off[k + 1] : t[i].type # "FUN"
  BY <1>7
<1> HIDE DEF at, b
<1>12. Ordered(t, "FUN", a, b)
  <2> SUFFICES ASSUME NEW i \in a .. b, NEW m \in a .. b,
                      t[i].type = "FUN", t[m].type = "FUN", i < m
               PROVE  t[i].value <= t[m].value
    BY DEF Ordered
  <2>1. PICK j \in 1 .. n : i = at(j)
    BY <1>9
  <2>2. PICK k \in 1 .. n : m = at(k)
    BY <1>9
  <2>3. j < k
    <3>1. ~(k < j) /\ k # j
      BY <1>8, <1>10, <2>1, <2>2
    <3> QED BY <3>1
  <2>4. t[i].value = v[j] /\ t[m].value = v[k] /\ v[j] < v[k]
    BY <1>3, <1>11, <2>1, <2>2, <2>3
  <2>5. v[j] \in Nat /\ v[k] \in Nat
    BY <1>2
  <2> QED BY <2>4, <2>5
<1>13. Clear(t, "FUN", a, b, x)
  <2> SUFFICES ASSUME NEW i \in a .. b, NEW m \in a .. b,
                      t[i].type = "FUN", t[m].type = "FUN",
                      t[i].value = x, t[m].value = x + 1
               PROVE  FALSE
    BY DEF Clear
  <2>1. PICK j \in 1 .. n : i = at(j)
    BY <1>9
  <2>2. PICK k \in 1 .. n : m = at(k)
    BY <1>9
  <2> QED BY <1>3, <1>7, <2>1, <2>2
<1>14. PICK m \in 1 .. n : v[m] <= x /\ (m = n \/ v[m + 1] > x)
  BY <1>3, <1>4, LastUpTo
<1> DEFINE d == o + off[m + 1]
<1>15. LastAt(f.functions, x) = m
  <2>1. f.functions[m].start <= x /\ (m = n \/ f.functions[m + 1].start > x)
    <3>1. m # n => m + 1 \in 1 .. n
      OBVIOUS
    <3> QED BY <1>2, <1>14, <3>1
  <2>2. /\ \A i \in 1 .. n : f.functions[i].start \in Int
        /\ \A i, j \in 1 .. n : i < j => f.functions[i].start <= f.functions[j].start
    <3>1. /\ \A i \in 1 .. n : v[i] \in Int /\ v[i] = f.functions[i].start
          /\ \A i, j \in 1 .. n : i < j => v[i] <= v[j]
      BY <1>2, <1>3
    <3> QED BY <3>1
  <2> QED BY <1>1, <2>1, <2>2, LastAtIs
<1>16. LastOf(t, "FUN", a, b, x, at(m))
  <2> SUFFICES ASSUME NEW i \in at(m) + 1 .. b, t[i].type = "FUN" PROVE t[i].value > x
    BY <1>7, <1>14 DEF LastOf
  <2>1. i \in a .. b /\ at(m) < i
    BY <1>7, <1>10
  <2>2. PICK k \in 1 .. n : i = at(k)
    BY <1>9, <2>1
  <2>3. m < k
    <3>1. ~(k < m) /\ k # m
      BY <1>8, <1>10, <2>1, <2>2
    <3> QED BY <3>1
  <2>4. v[m + 1] > x /\ m + 1 \in 1 .. n /\ v[m + 1] <= v[k]
    <3>1. m # n /\ m + 1 \in 1 .. n /\ (m + 1 = k \/ m + 1 < k)
      BY <2>3
    <3>2. v[m + 1] > x
      BY <1>14, <3>1
    <3>3. v[m + 1] \in Nat
      BY <1>2, <3>1
    <3>4. v[m + 1] = v[k] \/ v[m + 1] < v[k]
      BY <1>3, <3>1
    <3> QED BY <1>2, <3>1, <3>2, <3>3, <3>4
  <2>5. PICK u, w \in Nat : u = v[m + 1] /\ w = v[k]
    BY <1>2, <2>4
  <2>6. w > x
    BY <2>4, <2>5
  <2>7. t[i].value = v[k]
    BY <1>7, <2>2, Zenon
  <2> QED BY <2>5, <2>6, <2>7
<1>17. Ends(t, "FUN", b, at(m), d)
  <2>1. d \in at(m) .. b /\ \A i \in at(m) + 1 .. d : t[i].type # "FUN"
    <3>1. /\ at(m) \in Int /\ d \in Int /\ b \in Int /\ at(m) < d /\ d <= b
          /\ \A i \in at(m) + 1 .. d : t[i].type # "FUN"
      BY <1>10, <1>11 DEF b
    <3> HIDE DEF d
    <3> QED BY <3>1
  <2>2. d = b \/ t[d + 1].type = "FUN"
    <3>1. CASE m = n
      BY <1>5, <3>1 DEF Offsets, b
    <3>2. CASE m # n
      <4>1. m + 1 \in 1 .. n /\ at(m + 1) = d + 1
        BY <3>2 DEF at
      <4> QED BY <1>7, <4>1
    <3> QED BY <3>1, <3>2
  <2> QED BY <2>1, <2>2 DEF Ends
<1>18. at(m) \in Int /\ d \in Int
  BY <1>6, <1>10
<1>19. InRegion(t, "FUN", a, b, x, at(m), d)
  BY <1>16, <1>17 DEF InRegion
<1>20. FunctionFound(t, f, o, off, x, at(m), d)
  <2>1. f.functions[m].start <= x
    BY <1>2, <1>14
  <2> QED BY <1>1, <1>15, <2>1 DEF FunctionFound, at
<1> QED BY <1>12, <1>13, <1>18, <1>19, <1>20 DEF b

(* The entries of a file: one for its start; in C, one for its end.        *)
BodyEnd(f, e) == IF f.asm THEN e ELSE e - 1

FileEntries(t, f, end, o, e) ==
  /\ t[o + 1].type = "SO" /\ t[o + 1].value = f.start
  /\ o + 1 <= BodyEnd(f, e)
  /\ \A i \in o + 2 .. BodyEnd(f, e) : t[i].type # "SO"
  /\ ~f.asm => t[e].type = "SO" /\ t[e].value = end

LEMMA CodeTypes ==
  ASSUME NEW f \in AFile, IsFile(f), ~f.asm, NEW t, NEW o \in Int, NEW size \in Nat,
         NEW off, CodeIs(off, t, f, o, size), NEW i \in o + 1 .. o + size
  PROVE  t[i].type \in {"FUN", "PSYM", "SOL", "SLINE"}
PROOF
<1>1. PICK n \in Nat :
        /\ n = Len(f.functions)
        /\ \A k \in 1 .. n : f.functions[k] \in AFunction /\ IsFunction(f.functions[k])
  BY FunctionsOf
<1>2. Offsets(off, n, size)
  BY <1>1 DEF CodeIs
<1>3. i - o \in 1 .. size
  OBVIOUS
<1>4. PICK k \in 1 .. n : off[k] < i - o /\ i - o <= off[k + 1]
  BY <1>2, <1>3 DEF Offsets
<1>5. k \in 1 .. n + 1 /\ k + 1 \in 1 .. n + 1
  OBVIOUS
<1>6. off[k] \in Nat /\ off[k + 1] \in Nat
  BY <1>2, <1>5 DEF Offsets
<1>7. PICK u, w \in Nat : u = off[k] /\ w = off[k + 1]
  BY <1>6
<1>8. FunctionIs(t, f.functions[k], FileBefore(f, k), o + u, o + w)
  BY <1>1, <1>7 DEF CodeIs
<1>9. o + u \in Int /\ o + w \in Int
  OBVIOUS
<1>10. FunctionEntries(t, f.functions[k], o + u, o + w)
  BY <1>1, <1>8, <1>9, FunctionEntriesAre
<1>11. PICK p \in Nat : p = f.functions[k].params
  BY <1>1 DEF AFunction
<1>12. /\ t[o + u + 1].type = "FUN"
       /\ \A j \in o + u + 2 .. o + u + 1 + p : t[j].type = "PSYM"
       /\ \A j \in o + u + 1 + p + 1 .. o + w : t[j].type \in {"SOL", "SLINE"}
  BY <1>10, <1>11 DEF FunctionEntries
<1>13. \/ i = o + u + 1 \/ i \in o + u + 2 .. o + u + 1 + p
       \/ i \in o + u + 1 + p + 1 .. o + w
  <2>1. u < i - o /\ i - o <= w
    BY <1>4, <1>7
  <2> QED BY <2>1
<1> QED BY <1>12, <1>13

LEMMA StartEntry ==
  \A T, v, d, name :
    /\ Stab(T, v, d, name).type = T /\ Stab(T, v, d, name).value = v
    /\ Stab(T, v, d, name).desc = d /\ Stab(T, v, d, name).name = name
  BY DEF Stab

LEMMA FileEntriesAre ==
  ASSUME NEW f \in AFile, IsFile(f), NEW t, NEW end, NEW o \in Int, NEW e \in Int,
         InFile(t, f, end, o, e)
  PROVE  FileEntries(t, f, end, o, e)
PROOF
<1>1. CASE f.asm
  <2>0. AsmIs(t, f, o, e)
    BY <1>1 DEF InFile
  <2>1. PICK at : LinesAre(at, Len(f.lines), f.lines, 0, StandardInput, t, o + 1, e)
    BY <2>0 DEF AsmIs
  <2>2. \A i \in o + 1 + 1 .. e : t[i].type \in {"SOL", "SLINE"}
    BY <2>1 DEF LinesAre
  <2>3. t[o + 1].type = "SO" /\ t[o + 1].value = f.start
    BY <2>0, StartEntry DEF AsmIs
  <2>4. o + 1 <= e /\ \A i \in o + 2 .. e : t[i].type # "SO"
    BY <2>0, <2>2 DEF AsmIs
  <2> QED BY <1>1, <2>3, <2>4 DEF FileEntries, BodyEnd
<1>2. CASE ~f.asm
  <2>1. CFileIs(t, f, end, o, e)
    BY <1>2 DEF InFile
  <2>2. PICK size \in Nat : e = o + 2 + size + 1 /\ \E off : CodeIs(off, t, f, o + 2, size)
    BY <2>1 DEF CFileIs
  <2>3. t[o + 1].type = "SO" /\ t[o + 1].value = f.start
    BY <2>1, StartEntry DEF CFileIs
  <2>4. t[e].type = "SO" /\ t[e].value = end
    BY <2>1, StartEntry DEF CFileIs
  <2>5. t[o + 2].type = "OPT"
    BY <2>1, StartEntry DEF CFileIs
  <2>6. \A i \in o + 2 + 1 .. o + 2 + size : t[i].type # "SO"
    <3>1. PICK off : CodeIs(off, t, f, o + 2, size)
      BY <2>2
    <3>2. \A i \in o + 2 + 1 .. o + 2 + size : t[i].type \in {"FUN", "PSYM", "SOL", "SLINE"}
      BY <1>2, <3>1, CodeTypes
    <3> QED BY <3>2
  <2>7. \A i \in o + 2 .. e - 1 : t[i].type # "SO"
    BY <2>2, <2>5, <2>6
  <2>8. o + 1 <= e - 1
    BY <2>2
  <2> QED BY <1>2, <2>3, <2>4, <2>7, <2>8 DEF FileEntries, BodyEnd
<1> QED BY <1>1, <1>2

-----------------------------------------------------------------------------
(* The files of a program and their addresses.                             *)
FilesAre(program, end, n) ==
  /\ n = Len(program) /\ n # 0 /\ DOMAIN program = 1 .. n /\ end \in Nat
  /\ \A k \in 1 .. n :
       /\ program[k] \in AFile /\ IsFile(program[k])
       /\ program[k].start \in Nat
       /\ EndOf(program, k, end) \in Nat
       /\ program[k].start <= EndOf(program, k, end)
       /\ EndOf(program, k, end) <= end
  /\ \A j, k \in 1 .. n :
       j < k => EndOf(program, j, end) <= program[k].start
  /\ ~program[n].asm /\ EndOf(program, n, end) = end
  /\ \A k \in 1 .. n : k # n => EndOf(program, k, end) = program[k + 1].start
  /\ \A k \in 1 .. n :
       ~program[k].asm /\ program[k].functions = <<>> =>
         program[k].start = EndOf(program, k, end)

LEMMA FilesOf ==
  ASSUME NEW program, NEW end, IsProgram(program, end)
  PROVE  \E n \in Nat : FilesAre(program, end, n)
PROOF
<1>1. PICK n \in Nat : n = Len(program)
  BY DEF IsProgram
<1>2. /\ n # 0 /\ DOMAIN program = 1 .. n /\ end \in Nat
      /\ \A k \in 1 .. n : program[k] \in AFile
  BY <1>1 DEF IsProgram
<1>3. \A k \in 1 .. n : program[k].start \in Nat
  BY <1>2 DEF AFile
<1>4. /\ \A k \in 1 .. n : IsFile(program[k]) /\ program[k].start <= end
      /\ \A k \in 1 .. n :
           ~program[k].asm /\ program[k].functions = <<>> =>
             program[k].start = EndOf(program, k, end)
      /\ \A j, k \in 1 .. n : j < k => program[j].start <= program[k].start
  BY <1>2, Zenon DEF IsProgram
<1>5. ~program[n].asm
  BY <1>1 DEF IsProgram, Last
<1>6. EndOf(program, n, end) = end
  BY <1>1 DEF EndOf
<1>7. ASSUME NEW k \in 1 .. n, k # n
      PROVE  EndOf(program, k, end) = program[k + 1].start /\ k + 1 \in 1 .. n
  BY <1>1, <1>7 DEF EndOf
<1> DEFINE begins == [k \in 1 .. n |-> program[k].start]
           ends == [k \in 1 .. n |-> EndOf(program, k, end)]
<1>8. \A k \in 1 .. n : /\ begins[k] = program[k].start
                        /\ ends[k] = EndOf(program, k, end)
  OBVIOUS
<1>9. /\ \A k \in 1 .. n : begins[k] \in Nat /\ begins[k] <= end
      /\ \A j, k \in 1 .. n : j < k => begins[j] <= begins[k]
  BY <1>3, <1>4
<1>10. /\ ends[n] = end
       /\ \A k \in 1 .. n : k # n => k + 1 \in 1 .. n /\ ends[k] = begins[k + 1]
  <2>1. n \in 1 .. n
    BY <1>2
  <2> QED BY <1>6, <1>7, <1>8, <2>1
<1> HIDE DEF begins, ends
<1>11. ASSUME NEW k \in 1 .. n
       PROVE  ends[k] \in Nat /\ begins[k] <= ends[k] /\ ends[k] <= end
  <2>1. CASE k = n
    BY <1>2, <1>9, <1>10, <2>1
  <2>2. CASE k # n
    <3>1. k + 1 \in 1 .. n /\ k < k + 1 /\ ends[k] = begins[k + 1]
      BY <1>10, <2>2
    <3> QED BY <1>9, <3>1
  <2> QED BY <2>1, <2>2
<1>12. ASSUME NEW j \in 1 .. n, NEW k \in 1 .. n, j < k PROVE ends[j] <= begins[k]
  <2>1. j + 1 \in 1 .. n /\ ends[j] = begins[j + 1] /\ (j + 1 = k \/ j + 1 < k)
    BY <1>10, <1>12
  <2> QED BY <1>9, <2>1
<1>13. \A k \in 1 .. n : /\ ends[k] \in Nat /\ begins[k] <= ends[k]
                           /\ ends[k] <= end
  BY <1>11
<1>14. \A j, k \in 1 .. n : j < k => ends[j] <= begins[k]
  BY <1>12
<1>15. \A k \in 1 .. n : /\ EndOf(program, k, end) \in Nat
                           /\ program[k].start <= EndOf(program, k, end)
                           /\ EndOf(program, k, end) <= end
  BY <1>8, <1>13, Zenon
<1>16. \A j, k \in 1 .. n : j < k => EndOf(program, j, end) <= program[k].start
  BY <1>8, <1>14, Zenon
<1>17. \A k \in 1 .. n : k # n => EndOf(program, k, end) = program[k + 1].start
  BY <1>7
<1> QED BY <1>1, <1>2, <1>3, <1>4, <1>5, <1>6, <1>15, <1>16, <1>17, Zenon DEF FilesAre

(* An entry SO is at the start of its file, or, in C, at its end.          *)
SourceOf(off, t, program, end, i, k) ==
  /\ off[k] < i /\ i <= off[k + 1]
  /\ \/ i = off[k] + 1 /\ t[i].value = program[k].start
     \/ i = off[k + 1] /\ ~program[k].asm /\ t[i].value = EndOf(program, k, end)

OffsetsAre(off, t, program, end, top, n) ==
  /\ \A k \in 1 .. n :
       /\ off[k] \in Nat /\ off[k + 1] \in Nat /\ off[k + 1] <= top
       /\ off[k] + 1 <= BodyEnd(program[k], off[k + 1])
       /\ FileEntries(t, program[k], EndOf(program, k, end), off[k], off[k + 1])
  /\ off[n + 1] = top /\ off[1] = 0
  /\ \A j, k \in 1 .. n : j < k => off[j + 1] <= off[k]
  /\ \A i \in 1 .. top : \E k \in 1 .. n : off[k] < i /\ i <= off[k + 1]

LEMMA FileOffsets ==
  ASSUME NEW program, NEW end, IsProgram(program, end), NEW off, NEW t, NEW top \in Nat,
         TableIs(off, t, program, end, top), NEW n \in Nat, n = Len(program)
  PROVE  OffsetsAre(off, t, program, end, top, n)
PROOF
<1>1. Offsets(off, n, top)
  BY DEF TableIs
<1>2. \A k \in 1 .. n : program[k] \in AFile /\ IsFile(program[k])
  BY FilesOf DEF FilesAre
<1>3. ASSUME NEW k \in 1 .. n
      PROVE  /\ off[k] \in Nat /\ off[k + 1] \in Nat /\ off[k + 1] <= top
             /\ off[k] + 1 <= BodyEnd(program[k], off[k + 1])
             /\ FileEntries(t, program[k], EndOf(program, k, end), off[k], off[k + 1])
  <2>1. k \in 1 .. n + 1 /\ k + 1 \in 1 .. n + 1 /\ n + 1 \in 1 .. n + 1 /\ k + 1 <= n + 1
    OBVIOUS
  <2>2. off[k] \in Nat /\ off[k + 1] \in Nat /\ off[k + 1] <= top
    BY <1>1, <2>1 DEF Offsets
  <2>3. InFile(t, program[k], EndOf(program, k, end), off[k], off[k + 1])
    BY DEF TableIs
  <2>4. FileEntries(t, program[k], EndOf(program, k, end), off[k], off[k + 1])
    BY <1>2, <2>2, <2>3, FileEntriesAre
  <2> QED BY <2>2, <2>4 DEF FileEntries
<1>4. ASSUME NEW j \in 1 .. n, NEW k \in 1 .. n, j < k PROVE off[j + 1] <= off[k]
  <2>1. j + 1 \in 1 .. n + 1 /\ k \in 1 .. n + 1 /\ j + 1 <= k
    BY <1>4
  <2> QED BY <1>1, <2>1 DEF Offsets
<1>5. /\ off[n + 1] = top /\ off[1] = 0
      /\ \A i \in 1 .. top : \E k \in 1 .. n : off[k] < i /\ i <= off[k + 1]
  BY <1>1 DEF Offsets
<1> QED BY <1>3, <1>4, <1>5 DEF OffsetsAre

LEMMA Sources ==
  ASSUME NEW program, NEW end, IsProgram(program, end), NEW off, NEW t, NEW top \in Nat,
         TableIs(off, t, program, end, top), NEW n \in Nat, n = Len(program),
         NEW i \in 0 .. top, t[i].type = "SO"
  PROVE  \E k \in 1 .. n : SourceOf(off, t, program, end, i, k)
PROOF
<1>1. i # 0
  BY DEF TableIs
<1>2. PICK k \in 1 .. n : off[k] < i /\ i <= off[k + 1]
  <2>1. i \in 1 .. top
    BY <1>1
  <2> QED BY <2>1, FileOffsets DEF OffsetsAre
<1> DEFINE o == off[k]
           e == off[k + 1]
           f == program[k]
           end_ == EndOf(program, k, end)
<1>3. o \in Nat /\ e \in Nat /\ FileEntries(t, f, end_, o, e)
  BY FileOffsets DEF OffsetsAre
<1>4. o < i /\ i <= e
  BY <1>2
<1> HIDE DEF o, e, f, end_
<1>5. CASE i = o + 1
  <2>1. t[i].value = f.start
    BY <1>3, <1>5 DEF FileEntries
  <2> QED BY <1>2, <1>5, <2>1 DEF SourceOf, o, f
<1>6. CASE i # o + 1
  <2>1. ~(i \in o + 2 .. BodyEnd(f, e))
    BY <1>3 DEF FileEntries
  <2>2. ~f.asm /\ i = e
    BY <1>3, <1>4, <1>6, <2>1 DEF BodyEnd
  <2>3. t[i].value = end_
    BY <1>3, <2>2 DEF FileEntries
  <2> QED BY <1>2, <2>2, <2>3 DEF SourceOf, e, f, end_
<1> QED BY <1>5, <1>6

LEMMA SourcesOrdered ==
  ASSUME NEW program, NEW end, IsProgram(program, end), NEW off, NEW t, NEW top \in Nat,
         TableIs(off, t, program, end, top), NEW x \in Int
  PROVE  Ordered(t, "SO", 0, top) /\ Clear(t, "SO", 0, top, x)
PROOF
<1>0. PICK n \in Nat : FilesAre(program, end, n)
  BY FilesOf
<1>1. /\ n = Len(program) /\ DOMAIN program = 1 .. n
      /\ \A k \in 1 .. n :
           /\ program[k].start \in Nat /\ EndOf(program, k, end) \in Nat
           /\ program[k].start <= EndOf(program, k, end)
      /\ \A j, k \in 1 .. n : j < k => EndOf(program, j, end) <= program[k].start
      /\ EndOf(program, n, end) = end
      /\ \A k \in 1 .. n : k # n => EndOf(program, k, end) = program[k + 1].start
  BY <1>0 DEF FilesAre
<1> DEFINE begins == [k \in 1 .. n |-> program[k].start]
           ends == [k \in 1 .. n |-> EndOf(program, k, end)]
           At(i, k) == /\ off[k] < i /\ i <= off[k + 1]
                       /\ \/ i = off[k] + 1 /\ t[i].value = begins[k]
                          \/ i = off[k + 1] /\ t[i].value = ends[k]
<1>2. /\ \A k \in 1 .. n : begins[k] \in Nat /\ ends[k] \in Nat /\ begins[k] <= ends[k]
      /\ \A j, k \in 1 .. n : j < k => ends[j] <= begins[k]
  BY <1>1
<1>3. ASSUME NEW i \in 0 .. top, t[i].type = "SO" PROVE \E k \in 1 .. n : At(i, k)
  <2>1. PICK k \in 1 .. n : SourceOf(off, t, program, end, i, k)
    BY <1>1, <1>3, Sources
  <2> QED BY <2>1 DEF SourceOf
<1>4. OffsetsAre(off, t, program, end, top, n)
  BY <1>1, FileOffsets
<1>5. /\ \A k \in 1 .. n : off[k] \in Nat /\ off[k + 1] \in Nat
      /\ \A j, k \in 1 .. n : j < k => off[j + 1] <= off[k]
  BY <1>4 DEF OffsetsAre
<1> DEFINE addresses == {program[k].start : k \in 1 .. n} \cup {end}
<1>6. \A k \in 1 .. n : begins[k] \in addresses /\ ends[k] \in addresses
  <2>1. \A k \in 1 .. n : begins[k] \in addresses
    OBVIOUS
  <2>2. ASSUME NEW k \in 1 .. n PROVE EndOf(program, k, end) \in addresses
    <3>1. CASE k = n
      BY <1>1, <3>1
    <3>2. CASE k # n
      BY <1>1, <3>2
    <3> QED BY <3>1, <3>2
  <2> HIDE DEF addresses
  <2> QED BY <2>1, <2>2
<1>7. \A v \in addresses : v + 1 \notin addresses
  <2>1. Apart(addresses)
    BY <1>1, Zenon DEF IsProgram
  <2> HIDE DEF addresses
  <2> QED BY <2>1 DEF Apart
<1> HIDE DEF begins, ends, addresses
<1>8. Ordered(t, "SO", 0, top)
  <2> SUFFICES ASSUME NEW i \in 0 .. top, NEW m \in 0 .. top,
                      t[i].type = "SO", t[m].type = "SO", i < m
               PROVE  t[i].value <= t[m].value
    BY DEF Ordered
  <2>1. PICK j \in 1 .. n : At(i, j)
    BY <1>3
  <2>2. PICK k \in 1 .. n : At(m, k)
    BY <1>3
  <2>3. CASE j = k
    <3>1. off[j] \in Nat /\ off[j + 1] \in Nat
      BY <1>5
    <3>2. t[i].value = begins[j]
      BY <2>1, <2>2, <2>3, <3>1
    <3>3. t[m].value \in {begins[j], ends[j]}
      BY <2>2, <2>3
    <3> QED BY <1>2, <3>2, <3>3
  <2>4. CASE j # k
    <3>1. j < k
      <4>1. off[j + 1] \in Nat /\ off[k] \in Nat /\ off[j] \in Nat /\ off[k + 1] \in Nat
        BY <1>5
      <4>2. i <= off[j + 1] /\ off[k] < m /\ off[j] < i /\ m <= off[k + 1]
        BY <2>1, <2>2
      <4>3. ~(k < j)
        BY <1>5, <4>1, <4>2
      <4> QED BY <2>4, <4>3
    <3>2. t[i].value \in {begins[j], ends[j]} /\ t[m].value \in {begins[k], ends[k]}
      BY <2>1, <2>2
    <3>3. ends[j] <= begins[k]
      BY <1>2, <3>1
    <3> QED BY <1>2, <3>2, <3>3
  <2> QED BY <2>3, <2>4
<1>9. Clear(t, "SO", 0, top, x)
  <2> SUFFICES ASSUME NEW i \in 0 .. top, NEW m \in 0 .. top,
                      t[i].type = "SO", t[m].type = "SO",
                      t[i].value = x, t[m].value = x + 1
               PROVE  FALSE
    BY DEF Clear
  <2>1. t[i].value \in addresses /\ t[m].value \in addresses
    BY <1>3, <1>6
  <2> QED BY <1>7, <2>1
<1> QED BY <1>8, <1>9

(* The region of a file is from its entry to before the next one.          *)
LEMMA FileLocated ==
  ASSUME NEW program, NEW end, IsProgram(program, end), NEW off, NEW t, NEW top \in Nat,
         TableIs(off, t, program, end, top), NEW x \in Nat, NEW k \in 1 .. Len(program),
         program[k].start <= x, x < EndOf(program, k, end)
  PROVE  /\ InRegion(t, "SO", 0, top, x, off[k] + 1, BodyEnd(program[k], off[k + 1]))
         /\ LastAt(program, x) = k
PROOF
<1>0. PICK n \in Nat : FilesAre(program, end, n)
  BY FilesOf
<1>1. /\ n = Len(program) /\ DOMAIN program = 1 .. n
      /\ \A j \in 1 .. n :
           /\ program[j].start \in Nat /\ EndOf(program, j, end) \in Nat
           /\ program[j].start <= EndOf(program, j, end)
      /\ \A i, j \in 1 .. n : i < j => EndOf(program, i, end) <= program[j].start
      /\ ~program[n].asm
      /\ \A j \in 1 .. n : j # n => EndOf(program, j, end) = program[j + 1].start
  BY <1>0 DEF FilesAre
<1>2. k \in 1 .. n
  BY <1>1
<1>3. LastAt(program, x) = k
  <2>1. /\ \A i \in 1 .. n : program[i].start \in Int
        /\ \A i, j \in 1 .. n : i < j => program[i].start <= program[j].start
    <3>1. ASSUME NEW i \in 1 .. n, NEW j \in 1 .. n, i < j
          PROVE  program[i].start <= program[j].start
      <4>1. PICK u, v, w \in Nat : /\ u = program[i].start /\ v = EndOf(program, i, end)
                                   /\ w = program[j].start
        BY <1>1
      <4>2. u <= v /\ v <= w
        BY <1>1, <3>1, <4>1
      <4> QED BY <4>1, <4>2
    <3> QED BY <1>1, <3>1
  <2>2. k = n \/ program[k + 1].start > x
    <3>1. CASE k # n
      <4>1. EndOf(program, k, end) = program[k + 1].start /\ EndOf(program, k, end) \in Nat
        BY <1>1, <1>2, <3>1
      <4> QED BY <4>1
    <3> QED BY <3>1
  <2>3. x \in Int /\ n = Len(program) /\ DOMAIN program = 1 .. n
    BY <1>1
  <2> QED BY <1>2, <2>1, <2>2, <2>3, LastAtIs, Zenon
<1> DEFINE f == program[k]
           o == off[k]
           e == off[k + 1]
           end_ == EndOf(program, k, end)
           a == o + 1
           b == BodyEnd(f, e)
<1>4. OffsetsAre(off, t, program, end, top, n)
  BY <1>1, FileOffsets
<1>5. /\ o \in Nat /\ e \in Nat /\ e <= top /\ a <= b
      /\ FileEntries(t, f, end_, o, e)
  BY <1>2, <1>4 DEF OffsetsAre
<1>6. end_ \in Nat /\ end_ > x /\ f.start <= x
  BY <1>1, <1>2
<1>7. /\ \A j \in 1 .. n : off[j] \in Nat /\ off[j + 1] \in Nat
      /\ \A i, j \in 1 .. n : i < j => off[i + 1] <= off[j]
      /\ off[n + 1] = top
      /\ \A j \in 1 .. n : off[j] + 1 <= BodyEnd(program[j], off[j + 1])
  BY <1>4 DEF OffsetsAre
<1>8. ASSUME NEW i \in a + 1 .. top, t[i].type = "SO" PROVE t[i].value > x
  <2>1. i \in 0 .. top /\ i \in Nat
    BY <1>5, <1>8
  <2>2. PICK q \in 1 .. n : SourceOf(off, t, program, end, i, q)
    BY <1>1, <1>8, <2>1, Sources
  <2>3. off[q] < i /\ i <= off[q + 1] /\ off[q] \in Nat /\ off[q + 1] \in Nat
    BY <1>7, <2>2 DEF SourceOf
  <2>4. ~(q < k)
    <3> SUFFICES ASSUME q < k PROVE FALSE
      OBVIOUS
    <3>1. off[q + 1] <= o
      BY <1>2, <1>7
    <3> QED BY <1>5, <1>8, <2>3, <3>1
  <2>5. CASE q = k
    <3>1. i # o + 1
      BY <1>5, <1>8
    <3>2. t[i].value = end_
      BY <2>2, <2>5, <3>1 DEF SourceOf
    <3> QED BY <1>6, <3>2
  <2>6. CASE q # k
    <3>1. k < q
      BY <1>2, <2>4, <2>6
    <3>2. PICK u, v \in Nat : u = program[q].start /\ v = EndOf(program, q, end)
      BY <1>1
    <3>3. end_ <= u /\ u <= v
      BY <1>1, <1>2, <3>1, <3>2
    <3>4. t[i].value \in {u, v}
      BY <2>2, <3>2 DEF SourceOf
    <3> HIDE DEF end_
    <3> QED BY <1>6, <3>3, <3>4
  <2> QED BY <2>5, <2>6
<1>9. b \in Int /\ b <= e
  BY <1>5 DEF BodyEnd
<1>10. LastOf(t, "SO", 0, top, x, a)
  <2>1. t[a].type = "SO" /\ t[a].value <= x
    BY <1>5, <1>6 DEF FileEntries
  <2>2. a \in 0 .. top
    BY <1>5, <1>9
  <2> QED BY <1>8, <2>1, <2>2 DEF LastOf
<1>11. Ends(t, "SO", top, a, b)
  <2>1. b \in a .. top /\ a + 1 = o + 2
    BY <1>5, <1>9
  <2>2. \A i \in a + 1 .. b : t[i].type # "SO"
    BY <1>5, <2>1 DEF FileEntries
  <2>3. b = top \/ t[b + 1].type = "SO"
    <3>1. CASE ~f.asm
      <4>1. b = e - 1 /\ t[e].type = "SO"
        BY <1>5, <3>1 DEF FileEntries, BodyEnd
      <4>2. b + 1 = e
        BY <1>5, <4>1
      <4> QED BY <4>1, <4>2
    <3>2. CASE f.asm
      <4>1. b = e
        BY <3>2 DEF BodyEnd
      <4>2. CASE k = n
        BY <1>7, <4>1, <4>2
      <4>3. CASE k # n
        <5>1. k + 1 \in 1 .. n
          BY <1>2, <4>3
        <5>2. FileEntries(t, program[k + 1], EndOf(program, k + 1, end), e, off[(k + 1) + 1])
          BY <1>4, <5>1 DEF OffsetsAre
        <5> QED BY <4>1, <5>2 DEF FileEntries
      <4> QED BY <4>2, <4>3
    <3> QED BY <3>1, <3>2
  <2> QED BY <2>1, <2>2, <2>3 DEF Ends
<1> QED BY <1>3, <1>10, <1>11 DEF InRegion

(* Behind all code is the end of the last file.                            *)
LEMMA EndLocated ==
  ASSUME NEW program, NEW end, IsProgram(program, end), NEW off, NEW t, NEW top \in Nat,
         TableIs(off, t, program, end, top)
  PROVE  top # 0 /\ t[top].type = "SO" /\ InRegion(t, "SO", 0, top, end, top, top)
PROOF
<1>0. PICK n \in Nat : FilesAre(program, end, n)
  BY FilesOf
<1>1. /\ n = Len(program) /\ n # 0 /\ end \in Nat
      /\ ~program[n].asm /\ EndOf(program, n, end) = end
  BY <1>0 DEF FilesAre
<1>2. n \in 1 .. n
  BY <1>1
<1>3. /\ off[n] \in Nat /\ off[n + 1] = top
      /\ off[n] + 1 <= BodyEnd(program[n], off[n + 1])
      /\ FileEntries(t, program[n], EndOf(program, n, end), off[n], off[n + 1])
  <2>1. OffsetsAre(off, t, program, end, top, n)
    BY <1>1, FileOffsets
  <2> QED BY <1>2, <2>1 DEF OffsetsAre
<1>4. t[top].type = "SO" /\ t[top].value = end
  BY <1>1, <1>3 DEF FileEntries
<1>5. top # 0
  BY <1>1, <1>3 DEF BodyEnd
<1> QED BY <1>1, <1>4, <1>5 DEF InRegion, LastOf, Ends

-----------------------------------------------------------------------------
(* What the table says of address x.  Entry a is that of its file, and     *)
(* lo .. hi are the entries of the code it is in, whose lines are lines.   *)
LinesIn(t, lo, hi, base, x, lines, a) ==
  /\ Ordered(t, "SLINE", lo, hi)
  /\ \/ {x, x + 1} \subseteq Ats(lines)
     \/ /\ Clear(t, "SLINE", lo, hi, x - base)
        /\ \E e \in Int :
             /\ LastOf(t, "SLINE", lo, hi, x - base, e)
             /\ t[e].desc = LastLine(lines, x).line
             /\ Named(t, a, e, LastLine(lines, x).file)

AsmFound(t, f, x, a, b) ==
  /\ f.asm
  /\ \A i \in a .. b : t[i].type # "FUN"
  /\ LinesIn(t, a, b, 0, x, f.lines, a)

InFunction(t, g, x, a, c, d) ==
  /\ t[c].name = g.name /\ t[c].value = g.start /\ g.start <= x
  /\ g.params \in Nat /\ c + g.params + 1 <= d
  /\ \A i \in c + 1 .. c + g.params : t[i].type = "PSYM"
  /\ t[c + g.params + 1].type # "PSYM"
  /\ LinesIn(t, c, d, g.start, x, g.lines, a)

CFound(t, f, x, a, b) ==
  /\ ~f.asm
  /\ Ordered(t, "FUN", a, b) /\ Clear(t, "FUN", a, b, x)
  /\ \E c, d \in Int :
       /\ InRegion(t, "FUN", a, b, x, c, d)
       /\ InFunction(t, f.functions[LastAt(f.functions, x)], x, a, c, d)

(* The entry of the file counts if nothing behind it names another.        *)
LEMMA SourceNames ==
  ASSUME NEW t, NEW a \in Int, NEW e \in Int, a <= e, Names(t[a]), NEW name,
         FileIs(t, a + 1, e, t[a].name, name)
  PROVE  Named(t, a, e, name)
PROOF
<1>1. CASE Named(t, a + 1, e, name)
  <2>1. PICK n \in a + 1 .. e :
          Names(t[n]) /\ t[n].name = name /\ Unnamed(t, n + 1, e)
    BY <1>1 DEF Named
  <2>2. n \in a .. e
    OBVIOUS
  <2> QED BY <2>1, <2>2 DEF Named
<1>2. CASE name = t[a].name /\ Unnamed(t, a + 1, e)
  <2>1. a \in a .. e
    OBVIOUS
  <2> QED BY <1>2, <2>1 DEF Named
<1> QED BY <1>1, <1>2 DEF FileIs

LEMMA AsmLocated ==
  ASSUME NEW f \in AFile, IsFile(f), f.asm, NEW t, NEW o \in Int, NEW e \in Int,
         AsmIs(t, f, o, e), NEW x \in Int, f.lines # <<>>, f.lines[1].at <= x
  PROVE  AsmFound(t, f, x, o + 1, e)
PROOF
<1> DEFINE a == o + 1
           lines == f.lines
<1>1. t[o + 1].type = "SO" /\ t[o + 1].value = f.start /\ t[o + 1].name = StandardInput
  BY StartEntry DEF AsmIs
<1>2. PICK at : LinesAre(at, Len(lines), lines, 0, StandardInput, t, a, e)
  BY DEF AsmIs
<1>3. lines \in Seq(ALine) /\ f.start # 0 /\ InOrder(lines)
  <2>1. lines \in Seq(ALine) /\ f.start # 0
    BY DEF AFile
  <2>2. InOrder(lines)
    BY Zenon DEF IsFile
  <2> QED BY <2>1, <2>2
<1>4. /\ a \in Int /\ 0 \in Int /\ a <= a + 1 /\ \A i \in a .. a : t[i].type # "SLINE"
      /\ Names(t[a]) /\ t[a].name = StandardInput
      /\ lines # <<>> /\ lines[1].at <= x
  <2>1. Names(t[a])
    BY <1>1, <1>3 DEF Names
  <2> QED BY <1>1, <2>1
<1>5. \A i \in a .. e : t[i].type # "FUN"
  <2>1. \A i \in a + 1 .. e : t[i].type \in {"SOL", "SLINE"}
    BY <1>2 DEF LinesAre
  <2>2. t[a].type # "FUN"
    BY <1>1
  <2> HIDE DEF a
  <2> QED BY <1>4, <2>1, <2>2
<1> HIDE DEF a, lines
<1>6. /\ Ordered(t, "SLINE", a, e)
      /\ ~({x, x + 1} \subseteq Ats(lines)) => Clear(t, "SLINE", a, e, x - 0)
      /\ \E k \in 1 .. Len(lines) :
           LineFound(t, a, e, 0, x, lines, a + 1, StandardInput, at[k])
  BY <1>2, <1>3, <1>4, LinesFound
<1>7. PICK k \in 1 .. Len(lines) :
        LineFound(t, a, e, 0, x, lines, a + 1, StandardInput, at[k])
  BY <1>6
<1>8. /\ LastOf(t, "SLINE", a, e, x - 0, at[k])
      /\ t[at[k]].desc = LastLine(lines, x).line
      /\ FileIs(t, a + 1, at[k], StandardInput, LastLine(lines, x).file)
  BY <1>7 DEF LineFound
<1>9. at[k] \in Int /\ a <= at[k]
  BY <1>4, <1>8 DEF LastOf
<1>10. Named(t, a, at[k], LastLine(lines, x).file)
  BY <1>4, <1>8, <1>9, SourceNames
<1>11. LinesIn(t, a, e, 0, x, lines, a)
  BY <1>6, <1>8, <1>9, <1>10 DEF LinesIn
<1> QED BY <1>5, <1>11 DEF AsmFound, a, lines

(* A function's lines, in file f whose entry is a.                         *)
LEMMA FunctionHolds ==
  ASSUME NEW g \in AFunction, IsFunction(g), NEW t, NEW file,
         NEW c \in Int, NEW d \in Int, FunctionIs(t, g, file, c - 1, d),
         NEW a \in Int, a + 2 <= c, NEW name, Names(t[a]), t[a].name = name,
         ~Names(t[a + 1]), FileIs(t, a + 2, c - 1, name, file),
         NEW x \in Int, g.start <= x
  PROVE  InFunction(t, g, x, a, c, d)
PROOF
<1>1. PICK p \in Nat : p = g.params
  BY DEF AFunction
<1>2. FunctionEntries(t, g, c - 1, d)
  BY FunctionEntriesAre
<1>3. /\ c + p + 1 <= d
      /\ t[c].type = "FUN" /\ t[c].value = g.start /\ t[c].name = g.name
      /\ \A i \in c + 1 .. c + p : t[i].type = "PSYM"
      /\ \A i \in c + p + 1 .. d : t[i].type \in {"SOL", "SLINE"}
  <2>1. (c - 1) + 1 = c /\ (c - 1) + 2 = c + 1
    OBVIOUS
  <2> QED BY <1>1, <1>2, <2>1 DEF FunctionEntries
<1> DEFINE lines == g.lines
           base == g.start
           o == c + p
<1>4. PICK at : LinesAre(at, Len(lines), lines, base, file, t, o, d)
  <2>1. (c - 1) + 1 + p = c + p
    OBVIOUS
  <2> QED BY <1>1, <2>1 DEF FunctionIs
<1>5. /\ lines \in Seq(ALine) /\ InOrder(lines) /\ lines # <<>>
      /\ base \in Int /\ lines[1].at <= x
  BY DEF AFunction, IsFunction
<1>6. /\ o \in Int /\ c <= o + 1 /\ \A i \in c .. o : t[i].type # "SLINE"
  BY <1>3
<1>7. /\ \A i \in 1 .. p : t[c + i].type = "PSYM"
      /\ t[(c - 1) + 1] = Stab("FUN", g.start, 0, g.name)
  BY <1>3 DEF FunctionIs
<1> HIDE DEF lines, base, o
<1>8. /\ Ordered(t, "SLINE", c, d)
      /\ ~({x, x + 1} \subseteq Ats(lines)) => Clear(t, "SLINE", c, d, x - base)
      /\ \E k \in 1 .. Len(lines) :
           LineFound(t, c, d, base, x, lines, o + 1, file, at[k])
  BY <1>4, <1>5, <1>6, LinesFound
<1>9. PICK k \in 1 .. Len(lines) :
        LineFound(t, c, d, base, x, lines, o + 1, file, at[k])
  BY <1>8
<1>10. /\ LastOf(t, "SLINE", c, d, x - base, at[k])
       /\ t[at[k]].desc = LastLine(lines, x).line
       /\ FileIs(t, o + 1, at[k], file, LastLine(lines, x).file)
  BY <1>9 DEF LineFound
<1> DEFINE e == at[k]
           new == LastLine(lines, x).file
<1>11. e \in Int /\ c <= e /\ o + 1 <= e
  <2>1. e \in o + 1 .. d
    BY <1>4 DEF LinesAre
  <2> QED BY <1>6, <2>1
<1>12. FileIs(t, o + 1, e, file, new)
  BY <1>10
<1> HIDE DEF e, new
<1>13. FileIs(t, a + 1, e, name, new)
  <2>1. \A q, b, z \in Int : \A from \in Int : \A fi, na, ne :
          /\ from <= q + 1 /\ q + 1 <= b /\ b <= z + 1
          /\ FileIs(t, from, q, fi, na) /\ Unnamed(t, q + 1, b - 1)
          /\ FileIs(t, b, z, na, ne)
          => FileIs(t, from, z, fi, ne)
    BY FileGoesOn
  <2>2. FileIs(t, a + 2, e, name, new)
    <3>1. /\ c - 1 \in Int /\ o + 1 \in Int /\ a + 2 \in Int /\ a + 2 <= (c - 1) + 1
          /\ (c - 1) + 1 <= o + 1 /\ o + 1 <= e + 1
      BY <1>6, <1>11
    <3>2. Unnamed(t, (c - 1) + 1, (o + 1) - 1)
      <4> SUFFICES ASSUME NEW i \in (c - 1) + 1 .. (o + 1) - 1 PROVE ~Names(t[i])
        BY DEF Unnamed
      <4>1. t[i].type \in {"FUN", "PSYM"}
        BY <1>3 DEF o
      <4> QED BY <4>1, OnlySources
    <3> DEFINE q == c - 1
               b == o + 1
               from == a + 2
    <3>3. /\ q \in Int /\ b \in Int /\ e \in Int /\ from \in Int
          /\ from <= q + 1 /\ q + 1 <= b /\ b <= e + 1
      BY <1>11, <3>1
    <3>4. /\ FileIs(t, from, q, name, file) /\ Unnamed(t, q + 1, b - 1)
          /\ FileIs(t, b, e, file, new)
      BY <1>12, <3>2, Zenon
    <3> HIDE DEF q, b, from
    <3>5. FileIs(t, from, e, name, new)
      BY <2>1, <3>3, <3>4
    <3> QED BY <3>5 DEF from
  <2>3. FileIs(t, a + 1, a, name, name)
    BY DEF FileIs, Unnamed
  <2>4. Unnamed(t, a + 1, (a + 2) - 1)
    BY DEF Unnamed
  <2>5. a + 1 \in Int /\ a + 2 \in Int /\ a + 1 <= a + 1 /\ a + 1 <= a + 2 /\ a + 2 <= e + 1
    BY <1>11
  <2> DEFINE b == a + 2
             from == a + 1
  <2>6. /\ FileIs(t, from, a, name, name) /\ Unnamed(t, a + 1, b - 1)
        /\ FileIs(t, b, e, name, new)
    BY <2>2, <2>3, <2>4, Zenon
  <2>7. /\ b \in Int /\ e \in Int /\ from \in Int
        /\ from <= a + 1 /\ a + 1 <= b /\ b <= e + 1
    BY <1>11, <2>5
  <2> HIDE DEF b, from
  <2>8. FileIs(t, from, e, name, new)
    BY <2>1, <2>6, <2>7
  <2> QED BY <2>8 DEF from
<1>14. Named(t, a, e, new)
  <2>1. a <= e
    BY <1>11
  <2> QED BY <1>11, <1>13, <2>1, SourceNames
<1>15. LinesIn(t, c, d, base, x, lines, a)
  BY <1>8, <1>10, <1>11, <1>14 DEF LinesIn, e, new
<1>16. t[c + p + 1].type # "PSYM"
  BY <1>3
<1> QED BY <1>1, <1>3, <1>15, <1>16 DEF InFunction, lines, base

LEMMA CLocated ==
  ASSUME NEW f \in AFile, IsFile(f), ~f.asm, f.functions # <<>>, NEW t, NEW end,
         NEW o \in Int, NEW e \in Int, CFileIs(t, f, end, o, e),
         NEW x \in Int, f.start <= x
  PROVE  CFound(t, f, x, o + 1, e - 1)
PROOF
<1>1. PICK size \in Nat : e = o + 2 + size + 1 /\ \E off : CodeIs(off, t, f, o + 2, size)
  BY DEF CFileIs
<1>2. PICK off : CodeIs(off, t, f, o + 2, size)
  BY <1>1
<1>3. t[o + 1].type = "SO" /\ t[o + 1].value = f.start /\ t[o + 1].name = f.name
  <2>1. t[o + 1] = Stab("SO", f.start, 0, f.name)
    BY Zenon DEF CFileIs
  <2> QED BY <2>1, StartEntry
<1>4. t[o + 2].type = "OPT"
  <2>1. t[o + 2] = Stab("OPT", 0, 0, Nameless)
    BY Zenon DEF CFileIs
  <2> QED BY <2>1, StartEntry
<1> DEFINE a == o + 1
           q == o + 2
           b == e - 1
<1>5. /\ a \in Int /\ q \in Int /\ q = a + 1 /\ b = q + size
      /\ a <= q + 1 /\ \A i \in a .. q : t[i].type # "FUN"
  <2>1. a \in Int /\ q \in Int /\ q = a + 1 /\ b = q + size /\ a <= q + 1
    BY <1>1
  <2>2. t[a].type # "FUN" /\ t[q].type # "FUN"
    BY <1>3, <1>4
  <2> HIDE DEF a, q, b
  <2>3. \A i \in a .. q : i = a \/ i = q
    BY <2>1
  <2> QED BY <2>1, <2>2, <2>3
<1>6. Names(t[a]) /\ t[a].name = f.name /\ ~Names(t[a + 1])
  <2>1. f.start # 0
    BY DEF AFile
  <2>2. ~Names(t[q])
    BY <1>4, OnlySources
  <2> QED BY <1>3, <1>5, <2>1, <2>2 DEF Names
<1>7. CodeIs(off, t, f, q, size)
  BY <1>2
<1> HIDE DEF a, q, b
<1>8. /\ Ordered(t, "FUN", a, q + size)
      /\ Clear(t, "FUN", a, q + size, x)
      /\ \E c, d \in Int :
           /\ InRegion(t, "FUN", a, q + size, x, c, d)
           /\ FunctionFound(t, f, q, off, x, c, d)
  BY <1>5, <1>7, FunctionLocated
<1>9. PICK c, d \in Int :
        /\ InRegion(t, "FUN", a, q + size, x, c, d)
        /\ FunctionFound(t, f, q, off, x, c, d)
  BY <1>8
<1>10. PICK m \in 1 .. Len(f.functions) :
         /\ LastAt(f.functions, x) = m
         /\ f.functions[m].start <= x
         /\ c = q + off[m] + 1 /\ d = q + off[m + 1]
  BY <1>9 DEF FunctionFound
<1> DEFINE g == f.functions[m]
           file == FileBefore(f, m)
<1>11. g \in AFunction /\ IsFunction(g)
  BY FunctionsOf
<1>12. off[m] \in Nat
  <2>1. PICK n \in Nat : n = Len(f.functions)
    BY FunctionsOf
  <2>2. Offsets(off, n, size)
    BY <1>7, <2>1 DEF CodeIs
  <2>3. m \in 1 .. n + 1
    BY <2>1
  <2> QED BY <2>2, <2>3 DEF Offsets
<1>13. c - 1 = q + off[m] /\ a + 2 <= c /\ q + 1 = a + 2
  <2>1. PICK u \in Nat : u = off[m]
    BY <1>12
  <2>2. c = q + u + 1
    BY <1>10, <2>1
  <2>3. c - 1 = q + u /\ a + 2 <= c
    BY <1>5, <2>2
  <2> QED BY <1>5, <2>1, <2>3
<1>14. FunctionIs(t, g, file, c - 1, d)
  BY <1>7, <1>10, <1>13 DEF CodeIs
<1>15. FileIs(t, a + 2, c - 1, f.name, file)
  <2>1. FileIs(t, q + 1, q + off[m], f.name, file)
    BY <1>5, <1>7, CodeNames
  <2> QED BY <1>13, <2>1
<1>16. g.start <= x
  BY <1>10
<1> HIDE DEF g, file
<1>17. InFunction(t, g, x, a, c, d)
  BY <1>5, <1>6, <1>11, <1>13, <1>14, <1>15, <1>16, FunctionHolds
<1>18. /\ Ordered(t, "FUN", a, b) /\ Clear(t, "FUN", a, b, x)
       /\ InRegion(t, "FUN", a, b, x, c, d)
  BY <1>5, <1>8, <1>9
<1>19. InFunction(t, f.functions[LastAt(f.functions, x)], x, a, c, d)
  BY <1>10, <1>17 DEF g
<1> QED BY <1>18, <1>19 DEF CFound, a, b

(* What is at address x, when entries a .. b are those of its file.        *)
FileFound(t, program, x, top, a, b) ==
  IF x = End
  THEN a = top /\ b = top /\ t[top].type = "SO"
  ELSE LET f == program[LastAt(program, x)]
       IN  AsmFound(t, f, x, a, b) \/ CFound(t, f, x, a, b)

Located(t, program, x, top) ==
  /\ DOMAIN t = 0 .. top
  /\ Ordered(t, "SO", 0, top) /\ Clear(t, "SO", 0, top, x)
  /\ \E a, b \in Int :
       /\ a # 0 /\ InRegion(t, "SO", 0, top, x, a, b)
       /\ FileFound(t, program, x, top, a, b)

LEMMA AddressLocated ==
  ASSUME NEW program, IsProgram(program, End), NEW x \in Nat,
         IsReturnAddress(x, program, End)
  PROVE  \E top \in Nat : Located(StabsOf(program, End), program, x, top)
PROOF
<1> DEFINE t == StabsOf(program, End)
<1>1. PICK top \in Nat : \E off : TableIs(off, t, program, End, top)
  BY TableLaid
<1>2. PICK off : TableIs(off, t, program, End, top)
  BY <1>1
<1> HIDE DEF t
<1>3. /\ DOMAIN t = 0 .. top
      /\ Ordered(t, "SO", 0, top) /\ Clear(t, "SO", 0, top, x)
  <2>1. x \in Int
    OBVIOUS
  <2>2. Ordered(t, "SO", 0, top) /\ Clear(t, "SO", 0, top, x)
    BY <1>2, <2>1, SourcesOrdered
  <2> QED BY <1>2, <2>2 DEF TableIs
<1>4. PICK n \in Nat : FilesAre(program, End, n)
  BY FilesOf
<1>5. n = Len(program) /\ DOMAIN program = 1 .. n
  BY <1>4 DEF FilesAre
<1>6. CASE x = End
  <2>1. top # 0 /\ t[top].type = "SO" /\ InRegion(t, "SO", 0, top, x, top, top)
    BY <1>2, <1>6, EndLocated
  <2>2. FileFound(t, program, x, top, top, top)
    BY <1>6, <2>1 DEF FileFound
  <2> QED BY <1>3, <2>1, <2>2 DEF Located, t
<1>7. CASE x # End
  <2>1. PICK k \in 1 .. n :
          /\ program[k].start <= x /\ x < EndOf(program, k, End)
          /\ program[k].asm => program[k].lines # <<>> /\ program[k].lines[1].at <= x
    BY <1>5, <1>7 DEF IsReturnAddress
  <2> DEFINE f == program[k]
             end_ == EndOf(program, k, End)
             o == off[k]
             e == off[k + 1]
             a == o + 1
             b == BodyEnd(f, e)
  <2>2. InRegion(t, "SO", 0, top, x, a, b) /\ LastAt(program, x) = k
    BY <1>2, <1>5, <2>1, FileLocated
  <2>3. OffsetsAre(off, t, program, End, top, n)
    BY <1>2, <1>5, FileOffsets
  <2>4. o \in Nat /\ e \in Nat /\ o + 1 <= b
    BY <2>3 DEF OffsetsAre
  <2>5. /\ f \in AFile /\ IsFile(f) /\ f.start \in Nat /\ end_ \in Nat
        /\ ~f.asm /\ f.functions = <<>> => f.start = end_
    BY <1>4 DEF FilesAre
  <2>6. InFile(t, f, end_, o, e)
    BY <1>2, <1>5 DEF TableIs
  <2>7. f.start <= x /\ x < end_ /\ (f.asm => f.lines # <<>> /\ f.lines[1].at <= x)
    BY <2>1
  <2> HIDE DEF f, end_, o, e
  <2>8. AsmFound(t, f, x, a, b) \/ CFound(t, f, x, a, b)
    <3>1. CASE f.asm
      <4>1. AsmIs(t, f, o, e) /\ b = e
        BY <2>6, <3>1 DEF InFile, BodyEnd
      <4>2. o \in Int /\ e \in Int /\ x \in Int
        BY <2>4
      <4>3. AsmFound(t, f, x, o + 1, e)
        BY <2>5, <2>7, <3>1, <4>1, <4>2, AsmLocated
      <4> QED BY <4>1, <4>3
    <3>2. CASE ~f.asm
      <4>1. CFileIs(t, f, end_, o, e) /\ b = e - 1
        BY <2>6, <3>2 DEF InFile, BodyEnd
      <4>2. f.functions # <<>>
        BY <2>5, <2>7, <3>2
      <4>3. o \in Int /\ e \in Int /\ x \in Int
        BY <2>4
      <4>4. CFound(t, f, x, o + 1, e - 1)
        BY <2>5, <2>7, <3>2, <4>1, <4>2, <4>3, CLocated
      <4> QED BY <4>1, <4>4
    <3> QED BY <3>1, <3>2
  <2>9. a \in Int /\ b \in Int /\ a # 0
    BY <2>4, <2>5 DEF BodyEnd
  <2>10. FileFound(t, program, x, top, a, b)
    BY <1>7, <2>2, <2>8 DEF FileFound, f
  <2> HIDE DEF a, b
  <2>11. \E a_, b_ \in Int :
           /\ a_ # 0 /\ InRegion(t, "SO", 0, top, x, a_, b_)
           /\ FileFound(t, program, x, top, a_, b_)
    BY <2>2, <2>9, <2>10
  <2> QED BY <1>3, <2>11 DEF Located, t
<1> QED BY <1>6, <1>7

-----------------------------------------------------------------------------
(* What stab_binsearch returns, where there is but one answer.             *)
LEMMA FindsLast ==
  ASSUME SearchInv, ~searching, NEW a,
         LastOf(stabs, type, asked.left, asked.right, asked.addr, a),
         Clear(stabs, type, asked.left, asked.right, asked.addr)
  PROVE  region_left = a /\ region_right \in a .. asked.right
PROOF
<1> DEFINE lo == asked.left
           hi == asked.right
           x == asked.addr
<1>1. /\ Candidates \subseteq Int
      /\ \A k : k \in Candidates <=> k \in lo .. hi /\ stabs[k].type = type
      /\ \A k \in Candidates : stabs[k].value \in Nat
      /\ lo \in Nat /\ hi \in Int /\ x \in Nat
  BY Entries DEF SearchInv, AskedOK
<1>2. /\ a \in lo .. hi /\ stabs[a].type = type /\ stabs[a].value <= x
      /\ \A i \in a + 1 .. hi : stabs[i].type = type => stabs[i].value > x
  BY DEF LastOf
<1>3. a \in AtOrBelow /\ a \in Candidates /\ AtOrBelow # {} /\ Candidates # {}
  BY <1>1, <1>2 DEF AtOrBelow
<1>4. /\ region_left \in Candidates
      /\ region_right \in region_left .. hi
      /\ \A k \in Candidates :
           /\ k > region_left => k > region_right
           /\ k > region_right => stabs[k].value > x
      /\ \A v \in x .. stabs[region_left].value :
           \E k \in Candidates : stabs[k].value = v
  BY <1>3 DEF SearchInv, SearchResult
<1>5. stabs[region_left].value <= x
  <2> SUFFICES ASSUME stabs[region_left].value > x PROVE FALSE
    BY <1>1, <1>4
  <2>1. x \in x .. stabs[region_left].value /\ x + 1 \in x .. stabs[region_left].value
    BY <1>1, <1>4
  <2>2. PICK i \in Candidates : stabs[i].value = x
    BY <1>4, <2>1
  <2>3. PICK j \in Candidates : stabs[j].value = x + 1
    BY <1>4, <2>1
  <2>4. /\ i \in lo .. hi /\ j \in lo .. hi
        /\ stabs[i].type = type /\ stabs[j].type = type
    BY <1>1
  <2> QED BY <2>2, <2>3, <2>4 DEF Clear
<1>6. region_left \in lo .. hi /\ stabs[region_left].type = type
  BY <1>1, <1>4
<1>7. region_left <= a
  BY <1>1, <1>2, <1>5, <1>6
<1>8. ~(region_left < a)
  <2> SUFFICES ASSUME region_left < a PROVE FALSE
    OBVIOUS
  <2>1. a > region_left /\ a \in Candidates
    BY <1>1, <1>3, <1>4
  <2>2. stabs[a].value > x
    BY <1>4, <2>1
  <2> QED BY <1>1, <1>2, <1>3, <2>2
<1>9. region_left = a
  BY <1>1, <1>2, <1>6, <1>7, <1>8
<1> QED BY <1>4, <1>9

LEMMA FindsRegion ==
  ASSUME SearchInv, ~searching, NEW a, NEW b,
         InRegion(stabs, type, asked.left, asked.right, asked.addr, a, b),
         Clear(stabs, type, asked.left, asked.right, asked.addr)
  PROVE  region_left = a /\ region_right = b
PROOF
<1> DEFINE lo == asked.left
           hi == asked.right
           x == asked.addr
<1>1. /\ Candidates \subseteq Int
      /\ \A k : k \in Candidates <=> k \in lo .. hi /\ stabs[k].type = type
      /\ \A k \in Candidates : stabs[k].value \in Nat
      /\ lo \in Nat /\ hi \in Int /\ x \in Nat
  BY Entries DEF SearchInv, AskedOK
<1>2. LastOf(stabs, type, lo, hi, x, a) /\ Ends(stabs, type, hi, a, b)
  BY DEF InRegion
<1>3. region_left = a /\ region_right \in a .. hi
  BY <1>2, FindsLast
<1>4. /\ b \in a .. hi
      /\ \A i \in a + 1 .. b : stabs[i].type # type
      /\ b = hi \/ stabs[b + 1].type = type
  BY <1>2 DEF Ends
<1>5. a \in lo .. hi /\ a \in Candidates /\ a \in AtOrBelow
  BY <1>1, <1>2 DEF LastOf, AtOrBelow
<1>6. region_right = hi \/ region_right + 1 \in Candidates
  BY <1>5 DEF SearchInv, RegionClosed
<1>7. \A k \in Candidates : k > region_left => k > region_right
  BY <1>5 DEF SearchInv, SearchResult
<1>8. ~(region_right < b)
  <2> SUFFICES ASSUME region_right < b PROVE FALSE
    OBVIOUS
  <2>1. region_right + 1 \in a + 1 .. b /\ region_right # hi
    BY <1>1, <1>3, <1>4, <1>5
  <2> QED BY <1>1, <1>4, <1>6, <2>1
<1>9. ~(region_right > b)
  <2> SUFFICES ASSUME region_right > b PROVE FALSE
    OBVIOUS
  <2>1. b + 1 \in lo .. hi /\ b # hi /\ b + 1 > region_left
    BY <1>1, <1>3, <1>4, <1>5
  <2>2. b + 1 \in Candidates
    BY <1>1, <1>4, <2>1
  <2>3. b + 1 > region_right
    BY <1>7, <2>1, <2>2
  <2> QED BY <1>1, <1>3, <1>4, <1>5, <2>3
<1> QED BY <1>1, <1>3, <1>4, <1>5, <1>8, <1>9

LEMMA FindsNothing ==
  ASSUME SearchInv, ~searching,
         \A i \in asked.left .. asked.right : stabs[i].type # type
  PROVE  region_left = asked.left /\ region_right = asked.left - 1
PROOF
<1>1. Candidates = {}
  BY DEF Candidates, Of
<1> QED BY <1>1 DEF SearchInv, SearchResult

(* Where the prompt, or the return from a call, finds the search.          *)
LEMMA MayCall ==
  ASSUME SearchInv, NEW a \in DOMAIN stabs, NEW b \in DOMAIN stabs,
         NEW T \in Types, NEW x \in Nat, Ordered(stabs, T, a, b),
         StartSearch(a, b, T, x)
  PROVE  SearchInv'
PROOF
<1>1. Sorted(T, a, b)
  BY DEF Sorted, Of, Ordered
<1>2. Call
  BY <1>1 DEF Call
<1> QED BY <1>2, CallInv

-----------------------------------------------------------------------------
(* mon_backtrace.  Entries a .. b are those of the file of eip.            *)
Top == Cardinality(DOMAIN stabs) - 1

FileRegion(a, b) == InRegion(stabs, "SO", 0, Top, eip, a, b)

Asks(a, b, T, x) ==
  type = T /\ asked.left = a /\ asked.right = b /\ asked.addr = x

NoFunction == eip_fn_name = NoName /\ eip_fn_addr = eip

(* The lines are searched for in a function, or in a whole file.           *)
FunctionKnown ==
  /\ InRegion(stabs, "FUN", lfile, rfile, eip, lfun, rfun)
  /\ eip_fn_name = stabs[lfun].name /\ eip_fn_addr = stabs[lfun].value
  /\ Asks(lfun, rfun, "SLINE", eip - stabs[lfun].value)

FunctionUnknown ==
  /\ \A i \in lfile .. rfile : stabs[i].type # "FUN"
  /\ NoFunction /\ lfun = lfile /\ rfun = lfile - 1
  /\ Asks(lfile, rfile, "SLINE", eip)

(* What debuginfo_eip has found, and what it is looking for.               *)
SearchStep ==
  \/ step = "frame"
  \/ step = "file" /\ Asks(0, Top, "SO", eip) /\ NoFunction
  \/ /\ step = "function" /\ Asks(lfile, rfile, "FUN", eip) /\ NoFunction
     /\ FileRegion(lfile, rfile)
  \/ /\ step = "line" /\ FileRegion(lfile, rfile)
     /\ FunctionKnown \/ FunctionUnknown

(* The frames, from the innermost one, whose pointers are in frame.        *)
Chain(frame) ==
  frame = [k \in 0 .. Len(report) |-> IF k = 0 THEN Ebp ELSE stack[frame[k - 1]]]

(* What was printed of return address x is true.                           *)
True(info, x) ==
  IF x = End THEN info = [eip |-> x, found |-> FALSE]
  ELSE info = Where(x) \/ Crowded(x)

(* The frames so far have been reported as they are.                       *)
Told(frames, frame) ==
  /\ stack \in Stacks /\ IsStack(stack, frames)
  /\ Chain(frame)
  /\ frame[Len(report)] = stack_smernik
  /\ stack_smernik \in frames \cup {NoFrame}
  /\ \E S : report \in Seq(S)
  /\ \A k \in DOMAIN report :
       /\ frame[k - 1] # NoFrame
       /\ True(report[k], stack[frame[k - 1] + 1])

Telling == \E frames, frame : Told(frames, frame)

BacktraceInv ==
  /\ SearchInv
  /\ pc = "backtrace" => stack_smernik # NoFrame /\ SearchStep /\ Telling
  /\ pc # "backtrace" => step = "idle"
  /\ pc \notin {"backtrace", "done"} => report = <<>>
  /\ pc = "done" /\ does = BACKTRACE => stack_smernik = NoFrame /\ Telling

(* The table is that of Program, and says where eip is.                    *)
LEMMA ProgramHere ==
  ASSUME stabs \in Tables
  PROVE  /\ Program \in Programs /\ IsProgram(Program, End)
         /\ stabs = StabsOf(Program, End)
PROOF
<1>1. PICK p \in Programs : stabs = StabsOf(p, End)
  BY MonitorAssumption
<1>2. TableOf[p] = stabs
  BY <1>1 DEF TableOf
<1>3. Program \in Programs /\ TableOf[Program] = stabs
  BY <1>2 DEF Program
<1>4. TableOf[Program] = StabsOf(Program, End)
  BY <1>3 DEF TableOf
<1> QED BY <1>3, <1>4, MonitorAssumption

Addressed ==
  /\ eip \in Nat /\ Top \in Nat
  /\ Located(stabs, Program, eip, Top)

LEMMA Interval ==
  ASSUME NEW n \in Nat
  PROVE  Cardinality(0 .. n) = n + 1
PROOF
<1>1. Cardinality(0 .. n) = IF 0 > n THEN 0 ELSE n - 0 + 1
  BY FS_Interval
<1> QED BY <1>1

LEMMA HereLocated ==
  ASSUME stabs \in Tables, NEW frames, NEW frame, Told(frames, frame),
         stack_smernik # NoFrame
  PROVE  Addressed
PROOF
<1>1. /\ stack_smernik \in frames
      /\ eip \in Nat
      /\ \A program \in Programs : IsReturnAddress(eip, program, End)
  BY DEF Told, IsStack, eip
<1>2. /\ Program \in Programs /\ IsProgram(Program, End)
      /\ stabs = StabsOf(Program, End)
  BY ProgramHere
<1>3. PICK top \in Nat : Located(stabs, Program, eip, top)
  BY <1>1, <1>2, AddressLocated
<1>4. DOMAIN stabs = 0 .. top
  BY <1>3 DEF Located
<1>5. Top = top
  BY <1>4, Interval DEF Top
<1> QED BY <1>1, <1>3, <1>5 DEF Addressed

LEMMA AddressedHere ==
  ASSUME BacktraceInv, pc = "backtrace"
  PROVE  Addressed
PROOF
<1>1. stabs \in Tables
  BY DEF BacktraceInv, SearchInv, AskedOK
<1>2. PICK frames, frame : Told(frames, frame)
  BY DEF BacktraceInv, Telling
<1>3. stack_smernik # NoFrame
  BY DEF BacktraceInv
<1> QED BY <1>1, <1>2, <1>3, HereLocated

(* The entries between any two of the table.                               *)
LEMMA TableEntries ==
  ASSUME stabs \in Tables, Addressed
  PROVE  /\ DOMAIN stabs = 0 .. Top
         /\ \A i \in 0 .. Top : stabs[i].value \in Nat
         /\ "SO" \in Types /\ "FUN" \in Types /\ "SLINE" \in Types
PROOF
<1>1. DOMAIN stabs = 0 .. Top
  BY DEF Addressed, Located
<1> QED BY <1>1, StabAssumption, MonitorAssumption

LEMMA InTable ==
  ASSUME NEW t, NEW T, NEW lo \in Int, NEW hi \in Int, NEW x, NEW a, NEW b,
         InRegion(t, T, lo, hi, x, a, b)
  PROVE  /\ a \in Int /\ b \in Int /\ lo <= a /\ a <= b /\ b <= hi
         /\ t[a].type = T /\ t[a].value <= x
  BY DEF InRegion, LastOf, Ends

(* What is true of an address stays true while the table does.             *)
LEMMA TrueKept ==
  ASSUME stabs' = stabs
  PROVE  \A info, x : True(info, x) => True(info, x)'
PROOF
<1>1. Program' = Program
  BY DEF Program
<1>2. \A x : FileAt(x)' = FileAt(x)
  BY <1>1 DEF FileAt
<1>3. \A x : FunctionAt(x)' = FunctionAt(x)
  BY <1>2 DEF FunctionAt
<1>4. \A x : LinesAt(x)' = LinesAt(x)
  BY <1>2, <1>3 DEF LinesAt
<1>5. \A x : Where(x)' = Where(x) /\ Crowded(x)' = Crowded(x)
  BY <1>2, <1>3, <1>4 DEF Where, Crowded
<1> QED BY <1>5 DEF True

(* What the steps before a frame is reported leave alone.                  *)
LEMMA TellingKept ==
  ASSUME Telling, UNCHANGED <<stabs, stack, stack_smernik, report>>
  PROVE  Telling'
PROOF
<1>1. PICK frames, frame : Told(frames, frame)
  BY DEF Telling
<1>2. \A info, x : True(info, x) => True(info, x)'
  BY TrueKept
<1>3. Told(frames, frame)'
  BY <1>1, <1>2 DEF Told, Chain
<1> QED BY <1>3 DEF Telling

(* A step that calls stab_binsearch, or a turn of it.                      *)
Goes ==
  /\ SearchInv' /\ SearchStep'
  /\ UNCHANGED <<stabs, stack, stack_smernik, report>>

LEMMA FileStep ==
  ASSUME BacktraceInv, pc = "backtrace", SearchFile
  PROVE  Goes /\ step' = "file"
PROOF
<1>1. Addressed
  BY AddressedHere
<1>2. SearchInv /\ stabs \in Tables
  BY DEF BacktraceInv, SearchInv, AskedOK
<1>3. /\ DOMAIN stabs = 0 .. Top
      /\ "SO" \in Types
  BY <1>1, <1>2, TableEntries
<1>4. Ordered(stabs, "SO", 0, Top) /\ eip \in Nat /\ Top \in Nat
  BY <1>1 DEF Addressed, Located
<1>5. StartSearch(0, Top, "SO", eip)
  BY DEF SearchFile, Top
<1>6. SearchInv'
  <2>1. 0 \in DOMAIN stabs /\ Top \in DOMAIN stabs
    BY <1>3, <1>4
  <2> QED BY <1>2, <1>3, <1>4, <1>5, <2>1, MayCall
<1>7. UNCHANGED <<stabs, stack, stack_smernik, report>> /\ step' = "file"
  BY <1>5 DEF StartSearch, SearchFile
<1>8. Top' = Top /\ eip' = eip
  BY <1>7 DEF Top, eip
<1>9. Asks(0, Top, "SO", eip)'
  BY <1>5, <1>8 DEF StartSearch, Asks
<1>10. NoFunction'
  BY <1>8 DEF NoFunction, SearchFile
<1> QED BY <1>6, <1>7, <1>9, <1>10 DEF Goes, SearchStep

(* A frame's file is in the table, and found.                              *)
LEMMA FileReturned ==
  ASSUME BacktraceInv, pc = "backtrace", step = "file", ~searching
  PROVE  /\ FileRegion(region_left, region_right)
         /\ FileFound(stabs, Program, eip, Top, region_left, region_right)
         /\ region_left # 0
PROOF
<1>1. Addressed
  BY AddressedHere
<1>2. PICK a, b \in Int :
        /\ a # 0 /\ InRegion(stabs, "SO", 0, Top, eip, a, b)
        /\ FileFound(stabs, Program, eip, Top, a, b)
  BY <1>1 DEF Addressed, Located
<1>3. Clear(stabs, "SO", 0, Top, eip)
  BY <1>1 DEF Addressed, Located
<1>4. SearchInv /\ Asks(0, Top, "SO", eip)
  BY DEF BacktraceInv, SearchStep
<1>5. region_left = a /\ region_right = b
  BY <1>2, <1>3, <1>4, FindsRegion DEF Asks
<1> QED BY <1>2, <1>5 DEF FileRegion

LEMMA FunctionStep ==
  ASSUME BacktraceInv, pc = "backtrace", SearchFunction
  PROVE  Goes /\ step' = "function"
PROOF
<1> DEFINE a == region_left
           b == region_right
<1>1. Addressed /\ eip \in Nat /\ Top \in Nat
  BY AddressedHere DEF Addressed
<1>2. /\ FileRegion(a, b) /\ FileFound(stabs, Program, eip, Top, a, b) /\ a # 0
  BY FileReturned DEF SearchFunction
<1>3. /\ StartSearch(a, b, "FUN", eip)
      /\ lfile' = a /\ rfile' = b /\ step' = "function"
      /\ UNCHANGED <<stack, stack_smernik, report, eip_fn_addr, eip_fn_name>>
  BY <1>2 DEF SearchFunction
<1>4. SearchInv /\ stabs \in Tables
  BY DEF BacktraceInv, SearchInv, AskedOK
<1>5. DOMAIN stabs = 0 .. Top /\ "FUN" \in Types
  BY <1>1, <1>4, TableEntries
<1>6. /\ a \in Int /\ b \in Int /\ 0 <= a /\ a <= b /\ b <= Top
      /\ stabs[a].type = "SO"
  <2>1. 0 \in Int /\ Top \in Int
    BY <1>1
  <2> QED BY <1>2, <2>1, InTable DEF FileRegion
<1>7. Ordered(stabs, "FUN", a, b)
  <2>1. CASE eip = End
    <3>1. a = b /\ \A i \in a .. b : i = a
      BY <1>2, <1>6, <2>1 DEF FileFound
    <3> QED BY <1>6, <3>1 DEF Ordered
  <2>2. CASE eip # End
    <3>1. PICK f : AsmFound(stabs, f, eip, a, b) \/ CFound(stabs, f, eip, a, b)
      BY <1>2, <2>2 DEF FileFound
    <3> QED BY <3>1 DEF AsmFound, CFound, Ordered
  <2> QED BY <2>1, <2>2
<1>8. SearchInv'
  <2>1. a \in DOMAIN stabs /\ b \in DOMAIN stabs
    BY <1>1, <1>5, <1>6
  <2> QED BY <1>1, <1>3, <1>4, <1>5, <1>7, <2>1, MayCall
<1>9. UNCHANGED <<stabs, stack, stack_smernik, report>>
  BY <1>3 DEF StartSearch
<1>10. Top' = Top /\ eip' = eip
  BY <1>9 DEF Top, eip
<1>11. Asks(lfile, rfile, "FUN", eip)'
  BY <1>3, <1>10 DEF StartSearch, Asks
<1>12. FileRegion(lfile, rfile)'
  BY <1>2, <1>3, <1>9, <1>10 DEF FileRegion
<1>13. NoFunction'
  <2>1. NoFunction
    BY DEF BacktraceInv, SearchStep, SearchFunction
  <2> QED BY <1>3, <1>10, <2>1 DEF NoFunction
<1> QED BY <1>3, <1>8, <1>9, <1>11, <1>12, <1>13 DEF Goes, SearchStep

(* There is but one region that is the file's.                             *)
LEMMA FileKnown ==
  ASSUME BacktraceInv, pc = "backtrace", FileRegion(lfile, rfile)
  PROVE  /\ FileFound(stabs, Program, eip, Top, lfile, rfile)
         /\ lfile \in Int /\ rfile \in Int /\ 0 <= lfile /\ lfile <= rfile /\ rfile <= Top
         /\ stabs[lfile].type = "SO"
         /\ eip \in Nat /\ Top \in Nat
         /\ SearchInv /\ stabs \in Tables
         /\ DOMAIN stabs = 0 .. Top /\ \A i \in 0 .. Top : stabs[i].value \in Int
         /\ "FUN" \in Types /\ "SLINE" \in Types
PROOF
<1>1. Addressed /\ eip \in Nat /\ Top \in Nat
  BY AddressedHere DEF Addressed
<1>2. PICK a, b \in Int :
        /\ InRegion(stabs, "SO", 0, Top, eip, a, b)
        /\ FileFound(stabs, Program, eip, Top, a, b)
  BY <1>1 DEF Addressed, Located
<1>3. SearchInv /\ stabs \in Tables
  BY DEF BacktraceInv, SearchInv, AskedOK
<1>4. /\ DOMAIN stabs = 0 .. Top /\ \A i \in 0 .. Top : stabs[i].value \in Int
      /\ "FUN" \in Types /\ "SLINE" \in Types
  BY <1>1, <1>3, TableEntries
<1>5. InRegion(stabs, "SO", 0, Top, eip, lfile, rfile)
  BY DEF FileRegion
<1>6. 0 \in Int /\ Top \in Int /\ eip \in Int
  BY <1>1
<1>7. lfile = a /\ rfile = b
  BY <1>2, <1>4, <1>5, <1>6, OneRegion
<1>8. /\ lfile \in Int /\ rfile \in Int /\ 0 <= lfile /\ lfile <= rfile /\ rfile <= Top
      /\ stabs[lfile].type = "SO"
  BY <1>5, <1>6, InTable
<1> QED BY <1>1, <1>2, <1>3, <1>4, <1>7, <1>8

(* Of what kind the code at eip is.                                        *)
NoFunctions == \A i \in lfile .. rfile : stabs[i].type # "FUN"

LEMMA Kinds ==
  ASSUME BacktraceInv, pc = "backtrace", FileRegion(lfile, rfile)
  PROVE  \/ /\ eip = End /\ NoFunctions
            /\ \A i \in lfile .. rfile : stabs[i].type # "SLINE"
         \/ /\ eip # End /\ NoFunctions
            /\ AsmFound(stabs, FileAt(eip), eip, lfile, rfile)
         \/ /\ eip # End
            /\ CFound(stabs, FileAt(eip), eip, lfile, rfile)
PROOF
<1>1. /\ FileFound(stabs, Program, eip, Top, lfile, rfile)
      /\ stabs[lfile].type = "SO" /\ lfile \in Int
  BY FileKnown
<1>2. CASE eip = End
  <2>1. lfile = rfile
    BY <1>1, <1>2 DEF FileFound
  <2>2. \A i \in lfile .. rfile : stabs[i].type = "SO"
    BY <1>1, <2>1
  <2> QED BY <1>2, <2>2 DEF NoFunctions
<1>3. CASE eip # End
  <2>1. \/ AsmFound(stabs, FileAt(eip), eip, lfile, rfile)
        \/ CFound(stabs, FileAt(eip), eip, lfile, rfile)
    BY <1>1, <1>3 DEF FileFound, FileAt
  <2> QED BY <1>3, <2>1 DEF AsmFound, NoFunctions
<1> QED BY <1>2, <1>3

LEMMA UnknownStep ==
  ASSUME BacktraceInv, pc = "backtrace", step = "function", SearchLine,
         FileRegion(lfile, rfile), NoFunctions
  PROVE  Goes /\ step' = "line"
PROOF
<1>1. /\ lfile \in Int /\ rfile \in Int /\ 0 <= lfile /\ lfile <= rfile /\ rfile <= Top
      /\ eip \in Nat /\ Top \in Nat /\ SearchInv /\ stabs \in Tables
      /\ DOMAIN stabs = 0 .. Top /\ "SLINE" \in Types
  BY FileKnown
<1>2. Asks(lfile, rfile, "FUN", eip) /\ NoFunction
  BY DEF BacktraceInv, SearchStep
<1>3. ~searching
  BY DEF SearchLine, StartSearch
<1>4. region_left = lfile /\ region_right = lfile - 1
  BY <1>1, <1>2, <1>3, FindsNothing DEF Asks, NoFunctions
<1>5. ~(region_left <= region_right)
  BY <1>1, <1>4
<1>6. /\ StartSearch(lfile, rfile, "SLINE", eip)
      /\ lfun' = lfile /\ rfun' = lfile - 1 /\ step' = "line"
      /\ UNCHANGED <<stack, stack_smernik, lfile, rfile, report, eip_fn_addr, eip_fn_name>>
  BY <1>4, <1>5 DEF SearchLine
<1>7. Ordered(stabs, "SLINE", lfile, rfile)
  <2>1. CASE \A i \in lfile .. rfile : stabs[i].type # "SLINE"
    BY <2>1 DEF Ordered
  <2>2. CASE AsmFound(stabs, FileAt(eip), eip, lfile, rfile)
    BY <2>2 DEF AsmFound, LinesIn
  <2>3. ~CFound(stabs, FileAt(eip), eip, lfile, rfile)
    <3> SUFFICES ASSUME CFound(stabs, FileAt(eip), eip, lfile, rfile) PROVE FALSE
      OBVIOUS
    <3>1. PICK c, d \in Int : InRegion(stabs, "FUN", lfile, rfile, eip, c, d)
      BY DEF CFound
    <3>2. c \in lfile .. rfile /\ stabs[c].type = "FUN"
      BY <3>1 DEF InRegion, LastOf
    <3> QED BY <3>2 DEF NoFunctions
  <2> QED BY <2>1, <2>2, <2>3, Kinds
<1>8. SearchInv'
  <2>1. lfile \in DOMAIN stabs /\ rfile \in DOMAIN stabs
    BY <1>1
  <2> QED BY <1>1, <1>6, <1>7, <2>1, MayCall
<1>9. UNCHANGED <<stabs, stack, stack_smernik, report>>
  BY <1>6 DEF StartSearch
<1>10. Top' = Top /\ eip' = eip
  BY <1>9 DEF Top, eip
<1>11. FileRegion(lfile, rfile)'
  BY <1>6, <1>9, <1>10 DEF FileRegion
<1>12. FunctionUnknown'
  <2>1. Asks(lfile, rfile, "SLINE", eip)'
    BY <1>6, <1>10 DEF StartSearch, Asks
  <2>2. NoFunction'
    BY <1>2, <1>6, <1>10 DEF NoFunction
  <2>3. NoFunctions'
    BY <1>6, <1>9 DEF NoFunctions
  <2> QED BY <1>6, <2>1, <2>2, <2>3 DEF FunctionUnknown, NoFunctions
<1> QED BY <1>6, <1>8, <1>9, <1>11, <1>12 DEF Goes, SearchStep

LEMMA KnownStep ==
  ASSUME BacktraceInv, pc = "backtrace", step = "function", SearchLine,
         FileRegion(lfile, rfile), NEW f, CFound(stabs, f, eip, lfile, rfile)
  PROVE  Goes /\ step' = "line"
PROOF
<1>1. /\ lfile \in Int /\ rfile \in Int /\ 0 <= lfile /\ lfile <= rfile /\ rfile <= Top
      /\ eip \in Nat /\ Top \in Nat /\ SearchInv /\ stabs \in Tables
      /\ DOMAIN stabs = 0 .. Top /\ "SLINE" \in Types
  BY FileKnown
<1>2. Asks(lfile, rfile, "FUN", eip)
  BY DEF BacktraceInv, SearchStep
<1>3. ~searching
  BY DEF SearchLine, StartSearch
<1> DEFINE g == f.functions[LastAt(f.functions, eip)]
<1>4. PICK c, d \in Int :
        /\ InRegion(stabs, "FUN", lfile, rfile, eip, c, d)
        /\ InFunction(stabs, g, eip, lfile, c, d)
  BY DEF CFound
<1>5. Clear(stabs, "FUN", lfile, rfile, eip)
  BY DEF CFound
<1>6. region_left = c /\ region_right = d
  BY <1>1, <1>2, <1>3, <1>4, <1>5, FindsRegion DEF Asks
<1>7. lfile <= c /\ c <= d /\ d <= rfile
  BY <1>1, <1>4, InTable
<1> HIDE DEF g
<1>8. /\ stabs[c].value = g.start /\ g.start <= eip
      /\ Ordered(stabs, "SLINE", c, d)
  BY <1>4 DEF InFunction, LinesIn
<1>9. stabs[c].value \in Nat
  BY <1>1, <1>7, StabAssumption
<1>10. LineAddress \in Nat /\ LineAddress = eip - stabs[c].value
  BY <1>1, <1>6, <1>8, <1>9 DEF LineAddress
<1>11. /\ StartSearch(c, d, "SLINE", LineAddress)
       /\ lfun' = c /\ rfun' = d /\ step' = "line"
       /\ eip_fn_name' = stabs[c].name /\ eip_fn_addr' = stabs[c].value
       /\ UNCHANGED <<stack, stack_smernik, lfile, rfile, report>>
  BY <1>6, <1>7 DEF SearchLine
<1>12. SearchInv'
  <2>1. c \in DOMAIN stabs /\ d \in DOMAIN stabs
    BY <1>1, <1>7
  <2> QED BY <1>1, <1>8, <1>10, <1>11, <2>1, MayCall
<1>13. UNCHANGED <<stabs, stack, stack_smernik, report>>
  BY <1>11 DEF StartSearch
<1>14. Top' = Top /\ eip' = eip
  BY <1>13 DEF Top, eip
<1>15. FileRegion(lfile, rfile)'
  BY <1>11, <1>13, <1>14 DEF FileRegion
<1>16. FunctionKnown'
  <2>1. Asks(lfun, rfun, "SLINE", eip - stabs[lfun].value)'
    BY <1>10, <1>11, <1>13, <1>14 DEF StartSearch, Asks
  <2>2. InRegion(stabs, "FUN", lfile, rfile, eip, lfun, rfun)'
    BY <1>4, <1>11, <1>13, <1>14
  <2> QED BY <1>11, <1>13, <2>1, <2>2 DEF FunctionKnown
<1> QED BY <1>11, <1>12, <1>13, <1>15, <1>16 DEF Goes, SearchStep

LEMMA LineStep ==
  ASSUME BacktraceInv, pc = "backtrace", SearchLine
  PROVE  Goes /\ step' = "line"
PROOF
<1>1. step = "function" /\ FileRegion(lfile, rfile)
  BY DEF SearchLine, BacktraceInv, SearchStep
<1>2. NoFunctions \/ CFound(stabs, FileAt(eip), eip, lfile, rfile)
  BY <1>1, Kinds
<1> QED BY <1>1, <1>2, UnknownStep, KnownStep

LEMMA OneName ==
  ASSUME NEW a \in Int, NEW e \in Int, NEW j \in a .. e, NamesFile(j, e), NEW name,
         Named(stabs, a, e, name)
  PROVE  stabs[j].name = name
PROOF
<1>1. PICK n \in a .. e :
        Names(stabs[n]) /\ stabs[n].name = name /\ Unnamed(stabs, n + 1, e)
  BY DEF Named
<1>2. Names(stabs[j]) /\ \A i \in j + 1 .. e : ~Names(stabs[i])
  BY DEF NamesFile, Names
<1>3. \A i \in n + 1 .. e : ~Names(stabs[i])
  BY <1>1 DEF Unnamed
<1>4. ~(n < j)
  BY <1>2, <1>3
<1>5. ~(j < n)
  BY <1>1, <1>2
<1>6. n = j
  BY <1>4, <1>5
<1> QED BY <1>1, <1>6

LEMMA Counted ==
  ASSUME NEW c \in Int, NEW d \in Int, NEW p \in Nat, lfun = c, rfun = d,
         c + p + 1 <= d,
         \A i \in c + 1 .. c + p : stabs[i].type = "PSYM",
         stabs[c + p + 1].type # "PSYM"
  PROVE  Arguments = p
PROOF
<1> DEFINE S == {k \in lfun + 1 .. rfun - 1 :
                   \A j \in lfun + 1 .. k : stabs[j].type = "PSYM"}
<1>1. S = c + 1 .. c + p
  <2>1. ASSUME NEW k \in c + 1 .. c + p PROVE k \in S
    OBVIOUS
  <2>2. ASSUME NEW k \in S PROVE k \in c + 1 .. c + p
    <3>1. k \in c + 1 .. d - 1 /\ \A j \in c + 1 .. k : stabs[j].type = "PSYM"
      OBVIOUS
    <3>2. ~(c + p + 1 \in c + 1 .. k)
      BY <3>1
    <3> QED BY <3>1, <3>2
  <2> QED BY <2>1, <2>2
<1>2. Cardinality(c + 1 .. c + p) = p
  <2>1. /\ c + 1 \in Int /\ c + p \in Int
    OBVIOUS
  <2>2. Cardinality(c + 1 .. c + p)
          = IF c + 1 > c + p THEN 0 ELSE c + p - (c + 1) + 1
    BY <2>1, FS_Interval
  <2>3. CASE p = 0
    BY <2>2, <2>3
  <2>4. CASE p # 0
    BY <2>2, <2>4
  <2> QED BY <2>3, <2>4
<1>3. Arguments = Cardinality(S)
  BY DEF Arguments
<1> QED BY <1>1, <1>2, <1>3

(* What Report prints.                                                     *)
Printed(info) ==
  IF region_left > region_right
  THEN info = NoInfo
  ELSE \E j \in lfile .. region_left : NamesFile(j, region_left) /\ info = Info(j)

LEMMA EndReported ==
  ASSUME BacktraceInv, pc = "backtrace", step = "line", ~searching,
         FileRegion(lfile, rfile), FunctionUnknown, eip = End,
         \A i \in lfile .. rfile : stabs[i].type # "SLINE",
         NEW info, Printed(info)
  PROVE  True(info, eip)
PROOF
<1>1. SearchInv /\ lfile \in Int
  BY FileKnown
<1>2. region_left = lfile /\ region_right = lfile - 1
  BY <1>1, FindsNothing DEF FunctionUnknown, Asks
<1>3. info = NoInfo
  BY <1>1, <1>2 DEF Printed
<1> QED BY <1>3 DEF True, NoInfo

(* The line that was found, in the code whose lines are lines.             *)
LEMMA LineReported ==
  ASSUME BacktraceInv, pc = "backtrace", ~searching, FileRegion(lfile, rfile),
         NEW lo \in Int, NEW hi \in Int, NEW base \in Int, NEW lines,
         Asks(lo, hi, "SLINE", eip - base),
         LinesIn(stabs, lo, hi, base, eip, lines, lfile),
         ~({eip, eip + 1} \subseteq Ats(lines)),
         NEW info, Printed(info)
  PROVE  \E j : /\ info = Info(j)
                /\ stabs[region_left].desc = LastLine(lines, eip).line
                /\ stabs[j].name = LastLine(lines, eip).file
PROOF
<1>1. SearchInv /\ lfile \in Int
  BY FileKnown
<1>2. PICK e \in Int :
        /\ LastOf(stabs, "SLINE", lo, hi, eip - base, e)
        /\ stabs[e].desc = LastLine(lines, eip).line
        /\ Named(stabs, lfile, e, LastLine(lines, eip).file)
  BY DEF LinesIn
<1>3. Clear(stabs, "SLINE", lo, hi, eip - base)
  BY DEF LinesIn
<1>4. region_left = e /\ region_right \in e .. hi
  BY <1>1, <1>2, <1>3, FindsLast DEF Asks
<1>5. ~(region_left > region_right)
  BY <1>2, <1>4
<1>6. PICK j \in lfile .. e : NamesFile(j, e) /\ info = Info(j)
  BY <1>4, <1>5 DEF Printed
<1>7. stabs[j].name = LastLine(lines, eip).file
  BY <1>1, <1>2, <1>6, OneName
<1> QED BY <1>2, <1>4, <1>6, <1>7

LEMMA AsmReported ==
  ASSUME BacktraceInv, pc = "backtrace", step = "line", ~searching,
         FileRegion(lfile, rfile), FunctionUnknown, eip # End,
         AsmFound(stabs, FileAt(eip), eip, lfile, rfile),
         NEW info, Printed(info)
  PROVE  True(info, eip)
PROOF
<1> DEFINE lines == FileAt(eip).lines
<1>1. /\ lfile \in Int /\ rfile \in Int /\ eip \in Nat
  BY FileKnown
<1>2. FileAt(eip).asm /\ LinesAt(eip) = lines
  BY DEF AsmFound, LinesAt
<1>3. LinesIn(stabs, lfile, rfile, 0, eip, lines, lfile)
  BY DEF AsmFound
<1>4. CASE {eip, eip + 1} \subseteq Ats(lines)
  <2>1. Crowded(eip)
    BY <1>2, <1>4 DEF Crowded, Ats
  <2> QED BY <2>1 DEF True
<1>5. CASE ~({eip, eip + 1} \subseteq Ats(lines))
  <2>1. Asks(lfile, rfile, "SLINE", eip - 0) /\ 0 \in Int
    BY <1>1 DEF FunctionUnknown, Asks
  <2>2. PICK j :
          /\ info = Info(j)
          /\ stabs[region_left].desc = LastLine(lines, eip).line
          /\ stabs[j].name = LastLine(lines, eip).file
    BY <1>1, <1>3, <1>5, <2>1, LineReported
  <2>3. Arguments = 0
    <3>1. {k \in lfun + 1 .. rfun - 1 :
             \A j_ \in lfun + 1 .. k : stabs[j_].type = "PSYM"} = {}
      BY <1>1 DEF FunctionUnknown
    <3> QED BY <3>1, FS_EmptySet DEF Arguments
  <2>4. eip_fn_name = NoName /\ eip - eip_fn_addr = 0
    BY <1>1 DEF FunctionUnknown, NoFunction
  <2> HIDE DEF lines
  <2>5. info = [eip |-> eip, found |-> TRUE, file |-> LastLine(lines, eip).file,
                line |-> LastLine(lines, eip).line, fn |-> NoName,
                offset |-> 0, narg |-> 0]
    BY <2>2, <2>3, <2>4 DEF Info
  <2>6. info = Where(eip)
    BY <1>2, <2>5 DEF Where
  <2> QED BY <2>6 DEF True
<1> QED BY <1>4, <1>5

LEMMA CReported ==
  ASSUME BacktraceInv, pc = "backtrace", step = "line", ~searching,
         FileRegion(lfile, rfile), FunctionKnown, eip # End,
         CFound(stabs, FileAt(eip), eip, lfile, rfile),
         NEW info, Printed(info)
  PROVE  True(info, eip)
PROOF
<1> DEFINE g == FunctionAt(eip)
           lines == g.lines
<1>1. /\ lfile \in Int /\ rfile \in Int /\ eip \in Nat /\ 0 <= lfile /\ rfile <= Top
      /\ Top \in Nat /\ \A i \in 0 .. Top : stabs[i].value \in Int
  BY FileKnown
<1>2. ~FileAt(eip).asm /\ LinesAt(eip) = lines
  BY DEF CFound, LinesAt
<1>3. PICK c, d \in Int :
        /\ InRegion(stabs, "FUN", lfile, rfile, eip, c, d)
        /\ InFunction(stabs, g, eip, lfile, c, d)
  BY DEF CFound, FunctionAt
<1>4. lfun = c /\ rfun = d
  <2>1. InRegion(stabs, "FUN", lfile, rfile, eip, lfun, rfun)
    BY DEF FunctionKnown
  <2>2. eip \in Int /\ \A i \in lfile .. rfile : stabs[i].value \in Int
    BY <1>1
  <2> QED BY <1>1, <1>3, <2>1, <2>2, OneRegion
<1>5. c \in 0 .. Top
  BY <1>1, <1>3, InTable
<1> HIDE DEF g, lines
<1>6. /\ stabs[c].name = g.name /\ stabs[c].value = g.start /\ g.start \in Int
      /\ g.params \in Nat /\ c + g.params + 1 <= d
      /\ \A i \in c + 1 .. c + g.params : stabs[i].type = "PSYM"
      /\ stabs[c + g.params + 1].type # "PSYM"
      /\ LinesIn(stabs, c, d, g.start, eip, lines, lfile)
  BY <1>1, <1>3, <1>5 DEF InFunction, lines
<1>7. CASE {eip, eip + 1} \subseteq Ats(lines)
  <2>1. Crowded(eip)
    BY <1>2, <1>7 DEF Crowded, Ats
  <2> QED BY <2>1 DEF True
<1>8. CASE ~({eip, eip + 1} \subseteq Ats(lines))
  <2>1. Asks(c, d, "SLINE", eip - g.start)
    BY <1>4, <1>6 DEF FunctionKnown
  <2>2. PICK j :
          /\ info = Info(j)
          /\ stabs[region_left].desc = LastLine(lines, eip).line
          /\ stabs[j].name = LastLine(lines, eip).file
    BY <1>6, <1>8, <2>1, LineReported
  <2>3. Arguments = g.params
    BY <1>4, <1>6, Counted
  <2>4. eip_fn_name = g.name /\ eip_fn_addr = g.start
    BY <1>4, <1>6 DEF FunctionKnown
  <2>5. info = [eip |-> eip, found |-> TRUE, file |-> LastLine(lines, eip).file,
                line |-> LastLine(lines, eip).line, fn |-> g.name,
                offset |-> eip - g.start, narg |-> g.params]
    BY <2>2, <2>3, <2>4 DEF Info
  <2>6. info = Where(eip)
    BY <1>2, <2>5 DEF Where, g
  <2> QED BY <2>6 DEF True
<1> QED BY <1>7, <1>8

LEMMA ReportedTruly ==
  ASSUME BacktraceInv, pc = "backtrace", step = "line", ~searching,
         NEW info, Printed(info)
  PROVE  True(info, eip)
PROOF
<1>1. FileRegion(lfile, rfile) /\ (FunctionKnown \/ FunctionUnknown)
  BY DEF BacktraceInv, SearchStep
<1>2. FunctionKnown => ~NoFunctions
  BY DEF FunctionKnown, NoFunctions, InRegion, LastOf
<1>3. FunctionUnknown => NoFunctions
  BY DEF FunctionUnknown, NoFunctions
<1>4. CFound(stabs, FileAt(eip), eip, lfile, rfile) => ~NoFunctions
  BY DEF CFound, NoFunctions, InRegion, LastOf
<1> QED BY <1>1, <1>2, <1>3, <1>4, Kinds, EndReported, AsmReported, CReported

(* A frame more has been reported.                                         *)
LEMMA FrameTold ==
  ASSUME NEW frames, NEW frame, Told(frames, frame), stack_smernik # NoFrame,
         NEW info, NextFrame(info), True(info, eip), stabs' = stabs
  PROVE  Telling'
PROOF
<1>1. PICK S : report \in Seq(S)
  BY DEF Told
<1>2. PICK n \in Nat : n = Len(report)
  BY <1>1
<1>3. /\ DOMAIN report' = 1 .. n + 1 /\ DOMAIN report = 1 .. n
      /\ Len(report') = n + 1
      /\ \A k \in 1 .. n : report'[k] = report[k]
      /\ report'[n + 1] = info
      /\ report' \in Seq(S \cup {info})
  <2> DEFINE all == S \cup {info}
  <2>1. report \in Seq(all) /\ info \in all
    BY <1>1
  <2>2. report' = Append(report, info)
    BY DEF NextFrame
  <2> HIDE DEF all
  <2>3. report' \in Seq(all)
    BY <2>1, <2>2
  <2> QED BY <1>2, <2>1, <2>2, <2>3 DEF all
<1>4. /\ stack' = stack /\ stack_smernik' = stack[stack_smernik]
  BY DEF NextFrame
<1>5. frame = [k \in 0 .. n |-> IF k = 0 THEN Ebp ELSE stack[frame[k - 1]]]
  BY <1>2 DEF Told, Chain
<1>6. frame[n] = stack_smernik
  BY <1>2 DEF Told
<1>7. PICK next :
         next = [k \in 0 .. n + 1 |-> IF k = 0 THEN Ebp ELSE stack[frame[k - 1]]]
  OBVIOUS
<1>8. \A k \in 0 .. n : next[k] = frame[k]
  <2> SUFFICES ASSUME NEW k \in 0 .. n PROVE next[k] = frame[k]
    OBVIOUS
  <2>1. frame[k] = IF k = 0 THEN Ebp ELSE stack[frame[k - 1]]
    BY <1>5
  <2>2. k \in 0 .. n + 1
    OBVIOUS
  <2> QED BY <1>7, <2>1, <2>2
<1>9. next[n + 1] = stack_smernik'
  <2>1. n + 1 \in 0 .. n + 1 /\ n + 1 # 0 /\ (n + 1) - 1 = n
    OBVIOUS
  <2> QED BY <1>4, <1>6, <1>7, <2>1
<1>10. next = [k \in 0 .. n + 1 |-> IF k = 0 THEN Ebp ELSE stack[next[k - 1]]]
  <2>1. \A k \in 0 .. n + 1 : k # 0 => k - 1 \in 0 .. n
    OBVIOUS
  <2>2. \A k \in 0 .. n + 1 : k # 0 => next[k - 1] = frame[k - 1]
    BY <1>8, <2>1
  <2> QED BY <1>7, <2>2
<1>11. Chain(next)'
  BY <1>3, <1>4, <1>10 DEF Chain
<1>12. \A i, x : True(i, x) => True(i, x)'
  BY TrueKept
<1>13. ASSUME NEW k \in 1 .. n + 1
       PROVE  next[k - 1] # NoFrame /\ True(report'[k], stack[next[k - 1] + 1])
  <2>1. CASE k = n + 1
    <3>1. next[k - 1] = stack_smernik
      BY <1>6, <1>8, <2>1
    <3> QED BY <1>3, <2>1, <3>1 DEF eip
  <2>2. CASE k # n + 1
    <3>1. k \in 1 .. n /\ k - 1 \in 0 .. n
      BY <2>2
    <3>2. frame[k - 1] # NoFrame /\ True(report[k], stack[frame[k - 1] + 1])
      BY <1>3, <3>1 DEF Told
    <3> QED BY <1>3, <1>8, <3>1, <3>2
  <2> QED BY <2>1, <2>2
<1>14. \A k \in DOMAIN report' :
         /\ next[k - 1] # NoFrame
         /\ True(report[k], stack[next[k - 1] + 1])'
  BY <1>3, <1>4, <1>12, <1>13
<1>15. stack_smernik' \in frames \cup {NoFrame}
  BY <1>4 DEF Told, IsStack
<1>16. stack' \in Stacks /\ IsStack(stack', frames)
  BY <1>4 DEF Told
<1>17. (\E S_ : report \in Seq(S_))'
  BY <1>3
<1>18. Told(frames, next)'
  BY <1>3, <1>9, <1>11, <1>14, <1>15, <1>16, <1>17 DEF Told
<1> QED BY <1>18 DEF Telling

LEMMA ReportStep ==
  ASSUME BacktraceInv, pc = "backtrace", Report
  PROVE  /\ SearchInv' /\ Telling'
         /\ \/ step' = "frame" /\ stack_smernik' # NoFrame
            \/ step' = "idle" /\ stack_smernik' = NoFrame
PROOF
<1>1. step = "line" /\ ~searching /\ UNCHANGED searchVars
  BY DEF Report
<1>2. PICK info : Printed(info) /\ NextFrame(info)
  BY DEF Report, Printed
<1>3. True(info, eip)
  BY <1>1, <1>2, ReportedTruly
<1>4. PICK frames, frame : Told(frames, frame)
  BY DEF BacktraceInv, Telling
<1>5. stack_smernik # NoFrame
  BY DEF BacktraceInv
<1>6. Telling'
  BY <1>1, <1>2, <1>3, <1>4, <1>5, FrameTold DEF searchVars
<1>7. SearchInv'
  BY <1>1, StutterInv DEF BacktraceInv
<1> QED BY <1>2, <1>6, <1>7 DEF NextFrame

LEMMA SearchGoes ==
  ASSUME BacktraceInv, pc = "backtrace", Search
  PROVE  Goes /\ step' # "idle"
PROOF
<1>1. SearchInv'
  BY TurnInv, EndsInv DEF BacktraceInv, Search
<1>2. UNCHANGED <<stabs, type, asked, stack, stack_smernik, step, infoVars, report>>
  BY DEF Search, SearchTurn, SearchEnds
<1>3. Top' = Top /\ eip' = eip
  BY <1>2 DEF Top, eip
<1>4. SearchStep /\ step # "idle"
  BY DEF BacktraceInv, SearchStep
<1>5. SearchStep'
  BY <1>2, <1>3, <1>4 DEF SearchStep, Asks, NoFunction, FileRegion, FunctionKnown,
     FunctionUnknown, infoVars
<1> QED BY <1>1, <1>2, <1>4, <1>5 DEF Goes

LEMMA BacktraceInit == Init => BacktraceInv
PROOF
<1> SUFFICES ASSUME Init PROVE BacktraceInv
  OBVIOUS
<1>1. pc = "prompt" /\ step = "idle" /\ report = <<>>
  BY DEF Init, RunCmdInit, DebugInit
<1>2. SearchInv
  BY InitInv DEF Init, DebugInit
<1> QED BY <1>1, <1>2 DEF BacktraceInv

(* The steps of runcmd leave the debug information alone.                  *)
LEMMA RunBacktrace ==
  ASSUME BacktraceInv, CallRuncmd \/ Runcmd, UNCHANGED debugVars
  PROVE  BacktraceInv'
PROOF
<1>1. /\ pc \notin {"backtrace", "done"} /\ pc' # "backtrace"
      /\ pc' = "done" => does' # BACKTRACE
  <2>1. BACKTRACE \notin {Nothing, Unknown, TooMany}
    BY RunCmdAssumption, MonitorAssumption DEF Nothing, Unknown, TooMany
  <2> QED BY <2>1 DEF CallRuncmd, Runcmd, Gobble, NextWord, Scan, LineEnds, Lookup
<1>2. step = "idle" /\ report = <<>> /\ SearchInv
  BY <1>1 DEF BacktraceInv
<1>3. step' = "idle" /\ report' = <<>> /\ UNCHANGED searchVars
  BY <1>2 DEF debugVars
<1>4. SearchInv'
  BY <1>2, <1>3, StutterInv
<1> QED BY <1>1, <1>3, <1>4 DEF BacktraceInv

LEMMA CallBacktraceInv ==
  ASSUME BacktraceInv, CallCommand
  PROVE  BacktraceInv'
PROOF
<1>1. pc = "command" /\ step = "idle" /\ report = <<>> /\ SearchInv /\ does' = does
  BY DEF BacktraceInv, CallCommand
<1>2. CASE does = BACKTRACE
  <2>1. pc' = "backtrace" /\ CallBacktrace
    BY <1>2 DEF CallCommand
  <2>2. /\ stack' \in Stacks /\ stack_smernik' = Ebp /\ step' = "frame"
        /\ UNCHANGED searchVars /\ report' = <<>>
    BY <1>1, <2>1 DEF CallBacktrace
  <2>3. SearchInv'
    BY <1>1, <2>2, StutterInv
  <2>4. PICK frames : IsStack(stack', frames)
    BY <2>2, MonitorAssumption
  <2>5. Ebp \in frames /\ Ebp # NoFrame
    BY <2>4 DEF IsStack
  <2>6. PICK frame : frame = [k \in 0 .. 0 |-> Ebp]
    OBVIOUS
  <2>7. Len(report') = 0 /\ report' \in Seq({}) /\ DOMAIN report' = {}
    BY <2>2
  <2>8. frame[0] = Ebp /\ Chain(frame)'
    <3>1. \A k \in 0 .. 0 : k = 0
      OBVIOUS
    <3>2. frame = [k \in 0 .. 0 |-> IF k = 0 THEN Ebp ELSE stack'[frame[k - 1]]]
      BY <2>6, <3>1
    <3> QED BY <2>6, <2>7, <3>2 DEF Chain
  <2>9. Told(frames, frame)'
    BY <2>2, <2>4, <2>5, <2>7, <2>8 DEF Told
  <2> QED BY <2>1, <2>2, <2>3, <2>5, <2>9 DEF BacktraceInv, SearchStep, Telling
<1>3. CASE does # BACKTRACE
  <2>1. pc' = "done" /\ UNCHANGED debugVars
    BY <1>3 DEF CallCommand
  <2>2. step' = "idle" /\ UNCHANGED searchVars
    BY <1>1, <2>1 DEF debugVars
  <2>3. SearchInv'
    BY <1>1, <2>2, StutterInv
  <2> QED BY <1>1, <1>3, <2>1, <2>2, <2>3 DEF BacktraceInv
<1> QED BY <1>2, <1>3

LEMMA BacktraceSteps ==
  ASSUME BacktraceInv, mon_backtrace
  PROVE  BacktraceInv'
PROOF
<1>1. /\ pc = "backtrace" /\ Backtrace
      /\ pc' = IF step' = "idle" THEN "done" ELSE "backtrace"
  BY DEF mon_backtrace
<1>2. Telling /\ stack_smernik # NoFrame
  BY <1>1 DEF BacktraceInv
<1>3. CASE Goes /\ step' # "idle"
  <2>1. UNCHANGED <<stabs, stack, stack_smernik, report>> /\ SearchInv' /\ SearchStep'
    BY <1>3 DEF Goes
  <2>2. Telling'
    BY <1>2, <2>1, TellingKept
  <2> QED BY <1>1, <1>2, <1>3, <2>1, <2>2 DEF BacktraceInv
<1>4. CASE Report
  <2>1. /\ SearchInv' /\ Telling'
        /\ \/ step' = "frame" /\ stack_smernik' # NoFrame
           \/ step' = "idle" /\ stack_smernik' = NoFrame
    BY <1>1, <1>4, ReportStep
  <2>2. CASE step' = "frame"
    BY <1>1, <2>1, <2>2 DEF BacktraceInv, SearchStep
  <2>3. CASE step' = "idle"
    BY <1>1, <2>1, <2>3 DEF BacktraceInv
  <2> QED BY <2>1, <2>2, <2>3
<1> QED BY <1>1, <1>3, <1>4, FileStep, FunctionStep, LineStep, SearchGoes DEF Backtrace

LEMMA PromptBacktrace ==
  ASSUME BacktraceInv, NextPrompt
  PROVE  BacktraceInv'
PROOF
<1>1. /\ pc = "done" /\ pc' = "prompt" /\ report' = <<>>
      /\ UNCHANGED <<searchVars, step>>
  BY DEF NextPrompt, Prompt
<1>2. SearchInv /\ step = "idle"
  BY <1>1 DEF BacktraceInv
<1>3. SearchInv'
  BY <1>1, <1>2, StutterInv
<1> QED BY <1>1, <1>2, <1>3 DEF BacktraceInv

LEMMA StutterBacktrace ==
  ASSUME BacktraceInv, UNCHANGED vars
  PROVE  BacktraceInv'
PROOF
<1>1. /\ UNCHANGED <<pc, does, step, stack, stack_smernik, report, infoVars>>
      /\ UNCHANGED searchVars
  BY DEF vars, runcmdVars, debugVars
<1>2. SearchInv'
  BY <1>1, StutterInv DEF BacktraceInv
<1>3. Telling => Telling'
  BY <1>1, TellingKept DEF searchVars
<1>4. SearchStep => SearchStep'
  <2>1. Top' = Top /\ eip' = eip
    BY <1>1 DEF Top, eip, searchVars
  <2> QED BY <1>1, <2>1 DEF SearchStep, Asks, NoFunction, FileRegion, FunctionKnown,
          FunctionUnknown, infoVars, searchVars
<1> QED BY <1>1, <1>2, <1>3, <1>4 DEF BacktraceInv

LEMMA BacktraceNext == BacktraceInv /\ [Next]_vars => BacktraceInv'
PROOF
<1> SUFFICES ASSUME BacktraceInv, [Next]_vars PROVE BacktraceInv'
  OBVIOUS
<1> QED BY RunBacktrace, CallBacktraceInv, BacktraceSteps, PromptBacktrace,
        StutterBacktrace DEF Next, ReadLine, Kernel

(* The frames are those that follow from the first one.                    *)
Follows(f, s, n) == f = [k \in 0 .. n |-> IF k = 0 THEN Ebp ELSE s[f[k - 1]]]

LEMMA OneChain ==
  ASSUME NEW n \in Nat, NEW s, NEW f, NEW g, Follows(f, s, n), Follows(g, s, n)
  PROVE  f = g
PROOF
<1> USE DEF Follows
<1> DEFINE Differ == {k \in 0 .. n : f[k] # g[k]}
<1> SUFFICES ASSUME Differ # {} PROVE FALSE
  OBVIOUS
<1>1. PICK k \in Differ : \A i \in Differ : k <= i
  <2>1. Differ \in SUBSET Nat
    OBVIOUS
  <2> HIDE DEF Differ
  <2> QED BY <2>1, LeastNat
<1>2. k \in 0 .. n /\ f[k] # g[k]
  BY <1>1
<1>3. CASE k = 0
  <2>1. f[k] = Ebp /\ g[k] = Ebp
    BY <1>2, <1>3
  <2> QED BY <1>2, <2>1
<1>4. CASE k # 0
  <2>1. k - 1 \in 0 .. n /\ k - 1 \notin Differ
    <3>1. PICK j \in Int : j = k
      BY <1>2
    <3>2. j - 1 \in 0 .. n /\ ~(j <= j - 1)
      BY <3>1, <1>2, <1>4
    <3>3. k - 1 \in 0 .. n /\ ~(k <= k - 1)
      BY <3>1, <3>2
    <3> HIDE DEF Differ
    <3> QED BY <3>3, <1>1
  <2>2. f[k - 1] = g[k - 1]
    BY <2>1
  <2>3. f[k] = s[f[k - 1]] /\ g[k] = s[g[k - 1]]
    BY <1>2, <1>4
  <2> QED BY <1>2, <2>2, <2>3
<1> QED BY <1>3, <1>4

LEMMA BacktraceInvTrue == BacktraceInv => BacktraceIsTrue
PROOF
<1> SUFFICES ASSUME BacktraceInv, pc = "done", does = BACKTRACE
             PROVE  BacktraceIsTrue
  BY DEF BacktraceIsTrue
<1>1. Telling /\ stack_smernik = NoFrame
  BY DEF BacktraceInv
<1>2. PICK frames, frame : Told(frames, frame)
  BY <1>1 DEF Telling
<1>3. PICK n \in Nat : n = Len(report)
  BY <1>2 DEF Told
<1>4. Follows(frame, stack, n)
  BY <1>2, <1>3 DEF Told, Chain, Follows
<1>5. \A f : Follows(f, stack, n) => f = frame
  BY <1>4, OneChain
<1>6. (CHOOSE f : Follows(f, stack, n)) = frame
  BY <1>4, <1>5
<1>7. /\ frame[Len(report)] = NoFrame
      /\ \A k \in DOMAIN report :
           /\ frame[k - 1] # NoFrame
           /\ True(report[k], stack[frame[k - 1] + 1])
  BY <1>1, <1>2 DEF Told
<1> QED BY <1>3, <1>6, <1>7 DEF BacktraceIsTrue, True, Follows

(* For every program and every stack of calls in it, a backtrace has a     *)
(* line for each frame, from the innermost to entry.S, with the file, the  *)
(* line and the function of its return address (monitor.c:57-83,           *)
(* kdebug.c:105-212).                                                      *)
THEOREM BacktraceCorrect == Spec => []BacktraceIsTrue
PROOF
<1>1. Init => BacktraceInv
  BY BacktraceInit
<1> QED BY <1>1, BacktraceNext, BacktraceInvTrue, PTL DEF Spec
=============================================================================
