----------------------------- MODULE StabSearch -----------------------------
(***************************************************************************)
(* stab_binsearch of kern/kdebug.c, on a table of stabs in which entries   *)
(* of different types are mixed and those of one type are in increasing    *)
(* order within the region that is searched.  A step is a turn of the      *)
(* loop; the step back to an entry of the right type is part of it.        *)
(***************************************************************************)
EXTENDS Integers

CONSTANTS
  Tables,   \* the tables: functions from 0 .. N-1 to [type, value, ...]
  Types     \* values of n_type: "SO" and others

ASSUME StabAssumption ==
  /\ "SO" \in Types
  /\ \A t \in Tables :
       /\ DOMAIN t \subseteq Nat
       /\ \A k, m \in DOMAIN t : k .. m \subseteq DOMAIN t
       /\ \A k \in DOMAIN t : t[k].type \in Types /\ t[k].value \in Nat

VARIABLES
  stabs,         \* the table in the kernel's image
  region_left,   \* the caller's variables
  region_right,
  type,
  addr,
  l, r, any_matches,
  asked,         \* history: the region and the address of the call
  searching      \* whether a call is in progress

searchVars == <<stabs, region_left, region_right, type, addr,
                l, r, any_matches, asked, searching>>

(* Entries of type t among those from a to b.                              *)
Of(t, a, b) == {k \in a .. b : stabs[k].type = t}

Sorted(t, a, b) ==
  \A j, k \in Of(t, a, b) : j < k => stabs[j].value <= stabs[k].value

SearchInit ==
  /\ stabs \in Tables
  /\ region_left = 0 /\ region_right = -1
  /\ type = "SO" /\ addr = 0
  /\ l = 0 /\ r = 0 /\ any_matches = FALSE
  /\ asked = [left |-> 0, right |-> -1, addr |-> 0]
  /\ searching = FALSE

StartSearch(a, b, t, x) ==
  /\ ~searching
  /\ region_left' = a /\ region_right' = b
  /\ type' = t /\ addr' = x
  /\ l' = a /\ r' = b /\ any_matches' = FALSE
  /\ asked' = [left |-> a, right |-> b, addr |-> x]
  /\ searching' = TRUE
  /\ UNCHANGED stabs

-----------------------------------------------------------------------------
Middle == (l + r) \div 2

(* m is the last entry of the type at or before the middle.                *)
Nearest(m) ==
  /\ m \in l .. Middle
  /\ stabs[m].type = type
  /\ \A k \in m + 1 .. Middle : stabs[k].type # type

NoMatch ==
  /\ \A k \in l .. Middle : stabs[k].type # type
  /\ l' = Middle + 1
  /\ UNCHANGED <<region_left, region_right, addr, r, any_matches>>

(* Slips the properties must notice.                                       *)

(* The entry itself stays in the right half.                               *)
Below_Keeps(m) ==
  /\ stabs[m].value < addr
  /\ region_left' = m
  /\ l' = m
  /\ UNCHANGED <<region_right, addr, r>>

(* The right end of the region is forgotten.                               *)
Above_Forgets(m) ==
  /\ stabs[m].value > addr
  /\ r' = m - 1
  /\ UNCHANGED <<region_left, region_right, addr, l>>

Below(m) ==
  /\ stabs[m].value < addr
  /\ region_left' = m
  /\ l' = Middle + 1
  /\ UNCHANGED <<region_right, addr, r>>

Above(m) ==
  /\ stabs[m].value > addr
  /\ region_right' = m - 1
  /\ r' = m - 1
  /\ UNCHANGED <<region_left, addr, l>>

(* Found; but the search goes on for the right end of the region.          *)
Exact(m) ==
  /\ stabs[m].value = addr
  /\ region_left' = m
  /\ l' = m
  /\ addr' = addr + 1
  /\ UNCHANGED <<region_right, r>>

SearchTurn ==
  /\ searching /\ l <= r
  /\ \/ NoMatch
     \/ \E m \in l .. Middle :
          /\ Nearest(m)
          /\ Below(m) \/ Above(m) \/ Exact(m)
          /\ any_matches' = TRUE
  /\ UNCHANGED <<stabs, type, asked, searching>>

(* From the right end back to an entry of the type, or to the left end.    *)
Rightmost(k) ==
  /\ k = region_left \/ k \in Of(type, region_left, region_right)
  /\ Of(type, k + 1, region_right) = {}

(* The loop that ends at once if region_right is before region_left.       *)
SearchEnds ==
  /\ searching /\ l > r
  /\ \/ /\ ~any_matches
        /\ region_right' = region_left - 1
        /\ UNCHANGED region_left
     \/ /\ any_matches /\ region_right < region_left
        /\ region_left' = region_right
        /\ UNCHANGED region_right
     \/ /\ any_matches /\ region_right >= region_left
        /\ \E k \in region_left .. region_right :
             /\ Rightmost(k)
             /\ region_left' = k
        /\ UNCHANGED region_right
  /\ searching' = FALSE
  /\ UNCHANGED <<stabs, type, addr, l, r, any_matches, asked>>

-----------------------------------------------------------------------------
(* The function by itself, called for any part of the table.               *)
Call ==
  \E a, b \in DOMAIN stabs, t \in Types, x \in Nat :
    /\ Sorted(t, a, b)
    /\ StartSearch(a, b, t, x)

SearchSpec ==
  SearchInit /\ [][Call \/ SearchTurn \/ SearchEnds]_searchVars

-----------------------------------------------------------------------------
Candidates == Of(type, asked.left, asked.right)
AtOrBelow == {k \in Candidates : stabs[k].value <= asked.addr}

(* What the search returned is the entry that contains the address, and    *)
(* the region up to the next one; or, if an entry lies exactly at the      *)
(* address and others at each address after it, possibly one of those,     *)
(* since addr moves along (kdebug.c:80).  With entries, but none that is   *)
(* low enough, the result is the whole region before the first of them:    *)
(* not an empty one, unless it is the first entry.                         *)
SearchResult ==
  ~searching =>
    IF Candidates = {}
    THEN region_left = asked.left /\ region_right = asked.left - 1
    ELSE IF AtOrBelow = {}
    THEN /\ region_right + 1 \in Candidates
         /\ \A k \in Candidates : k > region_right
         /\ region_left = IF asked.left \in Candidates THEN asked.left - 1
                                                       ELSE asked.left
    ELSE /\ region_left \in Candidates
         /\ region_right \in region_left .. asked.right
         /\ \A k \in Candidates :
              /\ k > region_left => k > region_right
              /\ k > region_right => stabs[k].value > asked.addr
         /\ \A v \in asked.addr .. stabs[region_left].value :
              \E k \in Candidates : stabs[k].value = v
=============================================================================
