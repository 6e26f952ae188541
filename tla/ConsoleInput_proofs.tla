------------------------ MODULE ConsoleInput_proofs -------------------------
(***************************************************************************)
(* Proofs about console input, for every size of the buffer, every set of  *)
(* characters, any keys and any number of them held.                       *)
(*                                                                         *)
(* The ring: the circular buffer of kern/console.c is the queue InputQueue *)
(* says it is.  RingTypeOK is inductive: it says where the buffer holds    *)
(* characters.  The lemmas say how storing and taking one changes Count    *)
(* and the positions At(k) in between.                                     *)
(*                                                                         *)
(* The keyboard: kbd_proc_data makes of the bytes what the keys mean.      *)
(* KbdInv says of the bytes on their way that reading them takes the flags *)
(* from what they are now to the modifiers in force.                       *)
(*                                                                         *)
(* Last, that both hold of cons_getc, which uses both.                     *)
(***************************************************************************)
EXTENDS ConsoleInput, SequenceTheorems, TLAPS

(* What must hold of the two positions for the lemmas.                     *)
PositionsOK == rpos \in Positions /\ wpos \in Positions

(* The characters that wait are at distinct positions of the buffer, none  *)
(* of them wpos, where the next one goes.                                  *)
LEMMA WaitingPositions ==
  ASSUME PositionsOK
  PROVE  /\ Count \in 0 .. CONSBUFSIZE - 1
         /\ \A k \in 1 .. Count : At(k) \in Positions /\ At(k) # wpos
         /\ At(Count + 1) = wpos
         /\ Count > 0 => At(1) = rpos
         /\ Count = 0 <=> rpos = wpos
  BY BufSizeAssumption DEF PositionsOK, Positions, Count, At

(* A position stays in the buffer.                                         *)
LEMMA NextPosition ==
  ASSUME NEW p \in Positions
  PROVE  NextPos(p) \in Positions
  BY BufSizeAssumption DEF NextPos, Positions

(* What is waiting, as a sequence.                                         *)
LEMMA WaitingSequence ==
  ASSUME RingTypeOK
  PROVE  /\ Waiting \in Seq(Chars)
         /\ Len(Waiting) = Count
         /\ \A k \in 1 .. Count : Waiting[k] = buf[At(k)]
  BY WaitingPositions DEF RingTypeOK, PositionsOK, Waiting

(* Sequences with the same elements are the same.                          *)
LEMMA SameSequence ==
  ASSUME NEW S, NEW n \in Nat, NEW s \in Seq(S), NEW t \in [1 .. n -> S],
         Len(s) = n, \A k \in 1 .. n : s[k] = t[k]
  PROVE  t = s
  OBVIOUS

(* Storing a character into a buffer with room makes it the last.          *)
LEMMA StorePuts ==
  ASSUME RingTypeOK, NEW c \in Chars, Store(c), NextPos(wpos) # rpos
  PROVE  /\ RingTypeOK'
         /\ Len(Waiting) < CONSBUFSIZE - 1
         /\ Waiting' = Append(Waiting, c)
PROOF
<1>1. PositionsOK /\ PositionsOK'
  BY NextPosition DEF RingTypeOK, PositionsOK, Store, Positions
<1>2. Count' = Count + 1 /\ Count + 1 <= CONSBUFSIZE - 1
  BY <1>1, BufSizeAssumption
  DEF PositionsOK, Positions, Count, Store, NextPos
<1>3. \A k : At(k)' = At(k)
  BY DEF At, Store
<1>4. \A k \in 1 .. Count : buf'[At(k)] = buf[At(k)]
  BY <1>1, WaitingPositions DEF RingTypeOK, Store
<1>5. buf'[At(Count + 1)] = c
  BY <1>1, WaitingPositions DEF RingTypeOK, Store, PositionsOK
<1>6. RingTypeOK'
  <2>1. ASSUME NEW k \in 1 .. Count' PROVE buf'[At(k)'] \in Chars
    <3>1. CASE k \in 1 .. Count
      BY <3>1, <1>3, <1>4 DEF RingTypeOK
    <3>2. CASE k = Count + 1
      BY <3>2, <1>3, <1>5
    <3> QED BY <3>1, <3>2, <1>1, <1>2, WaitingPositions
  <2> QED BY <2>1, <1>1 DEF RingTypeOK, Store, PositionsOK
<1>7. Waiting' = Append(Waiting, c)
  <2>1. Waiting' = [k \in 1 .. Count + 1 |-> buf'[At(k)]]
    BY <1>2, <1>3 DEF Waiting
  <2>2. Count \in Nat
    BY <1>1, WaitingPositions
  <2>3. \A k \in 1 .. Count + 1 :
          buf'[At(k)] = IF k <= Count THEN Waiting[k] ELSE c
    BY <1>4, <1>5, <2>2, WaitingSequence
  <2> DEFINE w == [k \in 1 .. Count + 1 |-> buf'[At(k)]]
             s == Append(Waiting, c)
  <2>4. /\ s \in Seq(Chars)
        /\ Len(s) = Count + 1
        /\ \A k \in 1 .. Count : s[k] = Waiting[k]
        /\ s[Count + 1] = c
    BY <2>2, WaitingSequence
  <2>5. w \in [1 .. Count + 1 -> Chars] /\ \A k \in 1 .. Count + 1 : w[k] = s[k]
    <3>1. ASSUME NEW k \in 1 .. Count + 1 PROVE w[k] \in Chars /\ w[k] = s[k]
      <4>1. CASE k <= Count
        BY <4>1, <2>2, <2>3, <2>4, WaitingSequence
      <4>2. CASE k = Count + 1
        BY <4>2, <2>2, <2>3, <2>4
      <4> HIDE DEF w, s
      <4>3. k <= Count \/ k = Count + 1
        BY <2>2
      <4> QED BY <4>1, <4>2, <4>3
    <3> QED BY <3>1
  <2> HIDE DEF w, s
  <2>6. w = s
    BY <2>2, <2>4, <2>5, SameSequence
  <2> QED BY <2>1, <2>6 DEF w, s
<1> QED BY <1>1, <1>2, <1>6, <1>7, WaitingPositions, WaitingSequence, BufSizeAssumption

(* Storing one more makes the buffer look empty.                           *)
LEMMA StoreOverruns ==
  ASSUME RingTypeOK, NEW c \in Chars, Store(c), NextPos(wpos) = rpos
  PROVE  /\ RingTypeOK'
         /\ Len(Waiting) = CONSBUFSIZE - 1
         /\ Waiting' = <<>>
PROOF
<1>1. PositionsOK /\ PositionsOK'
  BY NextPosition DEF RingTypeOK, PositionsOK, Store, Positions
<1>2. Count' = 0 /\ Count = CONSBUFSIZE - 1
  BY <1>1, BufSizeAssumption
  DEF PositionsOK, Positions, Count, Store, NextPos
<1>3. Waiting' = <<>>
  BY <1>2 DEF Waiting
<1>4. RingTypeOK'
  BY <1>1, <1>2 DEF RingTypeOK, Store, PositionsOK
<1> QED BY <1>2, <1>3, <1>4, WaitingSequence

(* Taking a character takes the first.                                     *)
LEMMA TakeGets ==
  ASSUME RingTypeOK, Take
  PROVE  RingTypeOK' /\ Queue!Get
PROOF
<1>1. CASE rpos # wpos
  <2>1. /\ answer' = buf[rpos] /\ rpos' = NextPos(rpos)
        /\ UNCHANGED <<buf, wpos>>
    BY <1>1 DEF Take
  <2>2. PositionsOK /\ PositionsOK'
    BY <2>1, NextPosition DEF RingTypeOK, PositionsOK, Positions
  <2>3. Count > 0 /\ Count' = Count - 1 /\ Count \in Nat
    BY <1>1, <2>1, <2>2, BufSizeAssumption
    DEF PositionsOK, Positions, Count, NextPos
  <2>4. \A k \in 1 .. Count - 1 : At(k)' = At(k + 1)
    BY <2>1, <2>2, <2>3, BufSizeAssumption
    DEF PositionsOK, Positions, At, Count, NextPos
  <2>5. At(1) = rpos
    BY <2>2, <2>3, WaitingPositions
  <2>6. RingTypeOK'
    <3>1. answer' \in Chars
      BY <2>1, <2>3, <2>5 DEF RingTypeOK
    <3>2. \A k \in 1 .. Count' : buf'[At(k)'] \in Chars
      BY <2>1, <2>3, <2>4 DEF RingTypeOK
    <3> QED BY <3>1, <3>2, <2>1, <2>2 DEF RingTypeOK, PositionsOK
  <2>7. Waiting # <<>> /\ answer' = Head(Waiting)
    BY <2>1, <2>3, <2>5, WaitingSequence
  <2>8. Waiting' = Tail(Waiting)
    <3>1. Waiting' = [k \in 1 .. Count - 1 |-> buf[At(k + 1)]]
      BY <2>1, <2>3, <2>4 DEF Waiting
    <3> DEFINE w == [k \in 1 .. Count - 1 |-> buf[At(k + 1)]]
               s == Tail(Waiting)
    <3>2. /\ s \in Seq(Chars)
          /\ Len(s) = Count - 1
          /\ \A k \in 1 .. Count - 1 : s[k] = Waiting[k + 1]
      BY <2>3, <2>7, WaitingSequence, HeadTailProperties
    <3>3. w \in [1 .. Count - 1 -> Chars] /\ \A k \in 1 .. Count - 1 : w[k] = s[k]
      BY <2>3, <3>2, WaitingSequence DEF RingTypeOK
    <3> HIDE DEF w, s
    <3>4. w = s
      BY <2>3, <3>2, <3>3, SameSequence
    <3> QED BY <3>1, <3>4 DEF w, s
  <2> QED BY <2>6, <2>7, <2>8 DEF Queue!Get
<1>2. CASE rpos = wpos
  <2>1. answer' = 0 /\ UNCHANGED <<buf, rpos, wpos>>
    BY <1>2 DEF Take
  <2>2. Count = 0
    BY <1>2, WaitingPositions DEF RingTypeOK, PositionsOK
  <2>3. Waiting = <<>>
    BY <2>2 DEF Waiting
  <2>4. UNCHANGED <<Count, Waiting>> /\ \A k : At(k)' = At(k)
    BY <2>1 DEF Count, Waiting, At
  <2> QED BY <2>1, <2>3, <2>4 DEF RingTypeOK, Queue!Get
<1> QED BY <1>1, <1>2

(* A stutter changes nothing the properties look at.                       *)
LEMMA RingStutters ==
  ASSUME RingTypeOK, UNCHANGED ringVars
  PROVE  RingTypeOK' /\ UNCHANGED <<Waiting, answer>>
  BY DEF ringVars, RingTypeOK, Waiting, Count, At

(* The buffer is zeroed, and empty.                                        *)
LEMMA RingStarts == RingInit => RingTypeOK /\ Queue!Init
PROOF
<1> SUFFICES ASSUME RingInit PROVE RingTypeOK /\ Queue!Init
  OBVIOUS
<1>1. Count = 0
  BY DEF RingInit, Count
<1>2. Waiting = <<>>
  BY <1>1 DEF Waiting
<1> QED BY <1>1, <1>2, BufSizeAssumption DEF RingInit, RingTypeOK, Positions, Queue!Init

-----------------------------------------------------------------------------
(* Positions stay in the buffer and cons_getc returns only what cons_intr  *)
(* stored, whatever the size of the buffer.                                *)
THEOREM TypeCorrect == RingSpec => []RingTypeOK
PROOF
<1>1. RingTypeOK /\ [RingNext]_ringVars => RingTypeOK'
  BY StorePuts, StoreOverruns, TakeGets, RingStutters DEF RingNext
<1> QED BY RingStarts, <1>1, PTL DEF RingSpec

(* The buffer is a first-in, first-out queue that loses what it holds when *)
(* it overflows, and nothing else, whatever its size.                      *)
THEOREM Implementation == RingSpec => ImplementsInputQueue
PROOF
<1>1. ASSUME RingTypeOK, [RingNext]_ringVars
      PROVE  [(\E c \in Chars : Queue!Put(c)) \/ Queue!Overrun \/ Queue!Get]_Queue!vars
  <2>1. ASSUME NEW c \in Chars, Store(c)
        PROVE  Queue!Put(c) \/ Queue!Overrun
    <3>1. UNCHANGED answer
      BY <2>1 DEF Store
    <3> QED BY <2>1, <3>1, StorePuts, StoreOverruns, <1>1 DEF Queue!Put, Queue!Overrun
  <2>2. ASSUME Take PROVE Queue!Get
    BY <2>2, <1>1, TakeGets
  <2>3. ASSUME UNCHANGED ringVars PROVE UNCHANGED Queue!vars
    BY <2>3, <1>1, RingStutters DEF Queue!vars
  <2> QED BY <1>1, <2>1, <2>2, <2>3 DEF RingNext
<1> QED BY RingStarts, TypeCorrect, <1>1, PTL
        DEF RingSpec, ImplementsInputQueue, Queue!Spec

-----------------------------------------------------------------------------
(* The keyboard.  kbd_proc_data as a function of its modifiers and escape  *)
(* G, the code and the locks; and the bytes on their way, each with the    *)
(* state of kbd_proc_data in which it will be read.                        *)

Locks == {"CAPSLOCK", "NUMLOCK", "SCROLLLOCK"}
Modifiers == {"SHIFT", "CTL", "ALT"}
Flags == Modifiers \cup {"E0ESC"}

Now == shift \ Locks

(* The index into the tables.                                              *)
Index(G, c) ==
  IF c < \h80 THEN (IF "E0ESC" \in G THEN c + \h80 ELSE c)
  ELSE (IF "E0ESC" \in G THEN c ELSE c % \h80)

After(G, c) ==
  IF c = \hE0 THEN G \cup {"E0ESC"}
  ELSE IF c < \h80 THEN (G \ {"E0ESC"}) \cup shiftcode(Index(G, c))
  ELSE G \ (shiftcode(Index(G, c)) \cup {"E0ESC"})

Char(G, c, locks) ==
  IF c < \h80
  THEN capslock(locks, charcode(After(G, c), Index(G, c)))
  ELSE 0

(* What Meaning says when the locks are these.                             *)
MeaningIn(k, m, locks) ==
  CASE k = "a" ->
         IF "CTL" \in m THEN 1
         ELSE IF ("SHIFT" \in m) # ("CAPSLOCK" \in locks) THEN 65 ELSE 97
    [] k = "enter" -> IF "CTL" \in m THEN 13 ELSE 10
    [] k = "kpenter" /\ "CTL" \notin m -> 10
    [] k = "dot" /\ "CTL" \notin m -> 46
    [] k = "del" -> KEY_DEL
    [] OTHER -> 0

Gives(G, c, k, m) ==
  \A locks \in SUBSET Locks : Char(G, c, locks) = MeaningIn(k, m, locks)

Quiet(G, c) == \A locks \in SUBSET Locks : Char(G, c, locks) = 0

(* A byte that comes when the state is G is what it should be.             *)
Reads(G, b) ==
  /\ b.from = "kbd"
  /\ b.code \in Nat
  /\ IF b.whole
     THEN After(G, b.code) = b.mods /\ Gives(G, b.code, b.pressed, b.mods)
     ELSE b.pressed = NoKey /\ Quiet(G, b.code)

(* Reading all of q takes kbd_proc_data through the states of g to m.      *)
Trace(g, q, m) ==
  /\ Len(q) \in Nat /\ q = [i \in 1 .. Len(q) |-> q[i]]
  /\ g \in [0 .. Len(q) -> SUBSET Flags]
  /\ g[Len(q)] = m
  /\ \A i \in 1 .. Len(q) :
       Reads(g[i - 1], q[i]) /\ g[i] = After(g[i - 1], q[i].code)

Follows(G, q, m) == \E g : Trace(g, q, m) /\ g[0] = G

Pending == IF obf.from = "kbd" THEN After(Now, obf.code) ELSE Now

RebootInForce ==
  rebooted <=> seen.pressed = "del" /\ {"CTL", "ALT"} \subseteq seen.mods

KbdInv ==
  /\ held \subseteq AllKeys
  /\ mods \subseteq Modifiers
  /\ "CTL" \in mods => held \cap {"lctl", "rctl"} # {}
  /\ shift \subseteq Flags \cup Locks
  /\ rebooted \in BOOLEAN
  /\ obf \in {NoByte, MouseByte} \/ Reads(Now, obf)
  /\ Follows(Pending, kbdOut, mods)
  /\ ModifiersFollowKeys
  /\ OneCharacterPerPress
  /\ RebootInForce

(* The states are sets of flags.                                           *)
LEMMA AfterType ==
  ASSUME NEW G \in SUBSET Flags, NEW c \in Nat
  PROVE  After(G, c) \in SUBSET Flags
PROOF
<1>1. shiftcode(Index(G, c)) \subseteq Modifiers
  BY DEF shiftcode, Modifiers
<1> QED BY <1>1 DEF After, Flags

(* The four ways to read a code that is not an escape.                     *)
LEMMA PressAfter ==
  ASSUME NEW m \in SUBSET Modifiers, NEW c \in Nat, c < \h80
  PROVE  After(m, c) = m \cup shiftcode(c)
PROOF
<1>1. "E0ESC" \notin m
  BY DEF Modifiers
<1> QED BY <1>1 DEF After, Index

LEMMA EscapedPressAfter ==
  ASSUME NEW m \in SUBSET Modifiers, NEW c \in Nat, c < \h80
  PROVE  After(m \cup {"E0ESC"}, c) = m \cup shiftcode(c + \h80)
PROOF
<1>1. "E0ESC" \notin m
  BY DEF Modifiers
<1> QED BY <1>1 DEF After, Index

LEMMA ReleaseAfter ==
  ASSUME NEW m \in SUBSET Modifiers, NEW c \in Nat, c >= \h80, c # \hE0
  PROVE  After(m, c) = m \ shiftcode(c % \h80)
PROOF
<1>1. "E0ESC" \notin m
  BY DEF Modifiers
<1> QED BY <1>1 DEF After, Index

LEMMA EscapedReleaseAfter ==
  ASSUME NEW m \in SUBSET Modifiers, NEW c \in Nat, c >= \h80, c # \hE0
  PROVE  After(m \cup {"E0ESC"}, c) = m \ shiftcode(c)
PROOF
<1>1. "E0ESC" \notin m
  BY DEF Modifiers
<1>2. "E0ESC" \notin shiftcode(c)
  BY DEF shiftcode
<1> QED BY <1>1, <1>2 DEF After, Index

(* Releases and escapes give nothing.                                      *)
LEMMA ReleaseQuiet ==
  ASSUME NEW G, NEW c \in Nat, c >= \h80, NEW m
  PROVE  Quiet(G, c) /\ Gives(G, c, NoKey, m)
  BY DEF Quiet, Gives, Char, MeaningIn, NoKey

(* A sequence of codes, from the states it leads through.                  *)
LEMMA EventTrace ==
  ASSUME NEW codes \in Seq(Nat), NEW n \in Nat, n > 0, Len(codes) = n,
         NEW k, NEW m, NEW h, NEW g \in [0 .. n -> SUBSET Flags],
         \A i \in 1 .. n : g[i] = After(g[i - 1], codes[i]),
         \A i \in 1 .. n - 1 : Quiet(g[i - 1], codes[i]),
         g[n] = m,
         Gives(g[n - 1], codes[n], k, m)
  PROVE  Follows(g[0], Bytes(codes, k, m, h), m)
PROOF
<1> DEFINE q == Bytes(codes, k, m, h)
<1>1. Len(q) = n /\ q = [i \in 1 .. n |-> q[i]]
  BY DEF Bytes
<1>2. ASSUME NEW i \in 1 .. n
      PROVE  /\ q[i].from = "kbd" /\ q[i].code = codes[i] /\ q[i].mods = m
             /\ q[i].whole = (i = n)
             /\ i = n => q[i].pressed = k
             /\ i # n => q[i].pressed = NoKey
  BY DEF Bytes
<1> HIDE DEF q
<1>3. ASSUME NEW i \in 1 .. n
      PROVE  Reads(g[i - 1], q[i]) /\ g[i] = After(g[i - 1], q[i].code)
  <2>1. codes[i] \in Nat /\ g[i] = After(g[i - 1], codes[i])
    BY SMTT(30)
  <2>2. CASE i = n
    <3>1. q[i].whole /\ q[i].pressed = k
      BY <1>2, <2>2
    <3>2. Gives(g[i - 1], codes[i], k, m) /\ After(g[i - 1], codes[i]) = m
      BY <2>1, <2>2
    <3> QED BY <1>2, <2>1, <3>1, <3>2 DEF Reads
  <2>3. CASE i # n
    <3>1. ~q[i].whole /\ q[i].pressed = NoKey
      BY <1>2, <2>3
    <3>2. i \in 1 .. n - 1
      BY <2>3
    <3>3. Quiet(g[i - 1], codes[i])
      BY <3>2
    <3> QED BY <1>2, <2>1, <3>1, <3>3 DEF Reads
  <2> QED BY <2>2, <2>3
<1>4. Trace(g, q, m)
  BY <1>1, <1>3 DEF Trace
<1> QED BY <1>4 DEF Follows, q

(* Events of one byte, of two and of four, where every other is an escape. *)
LEMMA OneByte ==
  ASSUME NEW m \in SUBSET Modifiers, NEW h, NEW c \in Nat, NEW k, NEW m2,
         After(m, c) = m2, Gives(m, c, k, m2)
  PROVE  Follows(m, Bytes(<<c>>, k, m2, h), m2)
PROOF
<1> DEFINE g == [i \in 0 .. 1 |-> IF i = 0 THEN m ELSE m2]
           codes == <<c>>
<1>1. codes \in Seq(Nat) /\ Len(codes) = 1 /\ codes[1] = c
  OBVIOUS
<1>2. m \in SUBSET Flags /\ m2 \in SUBSET Flags
  BY AfterType DEF Flags
<1>3. g \in [0 .. 1 -> SUBSET Flags] /\ g[0] = m /\ g[1] = m2
  BY <1>2
<1> HIDE DEF g, codes
<1>4. \A i \in 1 .. 1 : g[i] = After(g[i - 1], codes[i])
  BY <1>1, <1>3
<1>5. \A i \in 1 .. 1 - 1 : Quiet(g[i - 1], codes[i])
  OBVIOUS
<1>6. Gives(g[1 - 1], codes[1], k, m2)
  BY <1>1, <1>3
<1> DEFINE n == 1
<1>a. n \in Nat /\ n > 0
  OBVIOUS
<1>b. /\ codes \in Seq(Nat) /\ Len(codes) = n
      /\ g \in [0 .. n -> SUBSET Flags] /\ g[n] = m2
      /\ \A i \in 1 .. n : g[i] = After(g[i - 1], codes[i])
      /\ \A i \in 1 .. n - 1 : Quiet(g[i - 1], codes[i])
      /\ Gives(g[n - 1], codes[n], k, m2)
  BY <1>1, <1>3, <1>4, <1>5, <1>6
<1> HIDE DEF n
<1>7. Follows(g[0], Bytes(codes, k, m2, h), m2)
  BY <1>a, <1>b, EventTrace, Zenon
<1> QED BY <1>3, <1>7 DEF codes

LEMMA TwoBytes ==
  ASSUME NEW m \in SUBSET Modifiers, NEW h, NEW c \in Nat, NEW k, NEW m2,
         After(m \cup {"E0ESC"}, c) = m2, Gives(m \cup {"E0ESC"}, c, k, m2)
  PROVE  Follows(m, Bytes(<<\hE0, c>>, k, m2, h), m2)
PROOF
<1> DEFINE e == m \cup {"E0ESC"}
           g == [i \in 0 .. 2 |-> IF i = 0 THEN m ELSE IF i = 1 THEN e ELSE m2]
           codes == <<\hE0, c>>
<1>1. /\ codes \in Seq(Nat) /\ Len(codes) = 2
      /\ codes[1] = \hE0 /\ codes[2] = c
  OBVIOUS
<1>2. m \in SUBSET Flags /\ e \in SUBSET Flags /\ m2 \in SUBSET Flags
  <2>1. m \in SUBSET Flags /\ e \in SUBSET Flags
    BY DEF Flags
  <2> QED BY <2>1, AfterType
<1>3. /\ g \in [0 .. 2 -> SUBSET Flags]
      /\ g[0] = m /\ g[1] = e /\ g[2] = m2
  BY <1>2
<1>4. After(m, \hE0) = e /\ Quiet(m, \hE0)
  BY ReleaseQuiet DEF After
<1>5. After(e, c) = m2 /\ Gives(e, c, k, m2)
  OBVIOUS
<1> HIDE DEF g, codes, e
<1>6. \A i \in 1 .. 2 : g[i] = After(g[i - 1], codes[i])
  <2>1. ASSUME NEW i \in 1 .. 2 PROVE g[i] = After(g[i - 1], codes[i])
    <3>1. i = 1 \/ i = 2
      OBVIOUS
    <3> QED BY <1>1, <1>3, <1>4, <1>5, <3>1
  <2> QED BY <2>1
<1>7. \A i \in 1 .. 2 - 1 : Quiet(g[i - 1], codes[i])
  BY <1>1, <1>3, <1>4
<1>8. Gives(g[2 - 1], codes[2], k, m2)
  BY <1>1, <1>3, <1>5
<1> DEFINE n == 2
<1>a. n \in Nat /\ n > 0
  OBVIOUS
<1>b. /\ codes \in Seq(Nat) /\ Len(codes) = n
      /\ g \in [0 .. n -> SUBSET Flags] /\ g[n] = m2
      /\ \A i \in 1 .. n : g[i] = After(g[i - 1], codes[i])
      /\ \A i \in 1 .. n - 1 : Quiet(g[i - 1], codes[i])
      /\ Gives(g[n - 1], codes[n], k, m2)
  BY <1>1, <1>3, <1>6, <1>7, <1>8
<1> HIDE DEF n
<1>9. Follows(g[0], Bytes(codes, k, m2, h), m2)
  BY <1>a, <1>b, EventTrace, Zenon
<1> QED BY <1>3, <1>9 DEF codes

LEMMA FourBytes ==
  ASSUME NEW m \in SUBSET Modifiers, NEW h, NEW f \in Nat, NEW c \in Nat, NEW k, NEW m2,
         After(m \cup {"E0ESC"}, f) = m, Quiet(m \cup {"E0ESC"}, f),
         After(m \cup {"E0ESC"}, c) = m2, Gives(m \cup {"E0ESC"}, c, k, m2)
  PROVE  Follows(m, Bytes(<<\hE0, f, \hE0, c>>, k, m2, h), m2)
PROOF
<1> DEFINE e == m \cup {"E0ESC"}
           g == [i \in 0 .. 4 |->
                   IF i \in {0, 2} THEN m ELSE IF i \in {1, 3} THEN e ELSE m2]
           codes == <<\hE0, f, \hE0, c>>
<1>1. /\ codes \in Seq(Nat) /\ Len(codes) = 4
      /\ codes[1] = \hE0 /\ codes[2] = f /\ codes[3] = \hE0 /\ codes[4] = c
  OBVIOUS
<1>2. m \in SUBSET Flags /\ e \in SUBSET Flags /\ m2 \in SUBSET Flags
  <2>1. m \in SUBSET Flags /\ e \in SUBSET Flags
    BY DEF Flags
  <2> QED BY <2>1, AfterType
<1>3. /\ g \in [0 .. 4 -> SUBSET Flags]
      /\ g[0] = m /\ g[1] = e /\ g[2] = m /\ g[3] = e /\ g[4] = m2
  BY <1>2
<1>4. After(m, \hE0) = e /\ Quiet(m, \hE0)
  BY ReleaseQuiet DEF After
<1>5. /\ After(e, f) = m /\ Quiet(e, f)
      /\ After(e, c) = m2 /\ Gives(e, c, k, m2)
  OBVIOUS
<1> HIDE DEF g, codes, e
<1>6. \A i \in 1 .. 4 : g[i] = After(g[i - 1], codes[i])
  <2>1. ASSUME NEW i \in 1 .. 4 PROVE g[i] = After(g[i - 1], codes[i])
    <3>1. i = 1 \/ i = 2 \/ i = 3 \/ i = 4
      OBVIOUS
    <3> QED BY <1>1, <1>3, <1>4, <1>5, <3>1
  <2> QED BY <2>1
<1>7. \A i \in 1 .. 4 - 1 : Quiet(g[i - 1], codes[i])
  <2>1. ASSUME NEW i \in 1 .. 4 - 1 PROVE Quiet(g[i - 1], codes[i])
    <3>1. i = 1 \/ i = 2 \/ i = 3
      OBVIOUS
    <3> QED BY <1>1, <1>3, <1>4, <1>5, <3>1
  <2> QED BY <2>1
<1>8. Gives(g[4 - 1], codes[4], k, m2)
  BY <1>1, <1>3, <1>5
<1> DEFINE n == 4
<1>a. n \in Nat /\ n > 0
  OBVIOUS
<1>b. /\ codes \in Seq(Nat) /\ Len(codes) = n
      /\ g \in [0 .. n -> SUBSET Flags] /\ g[n] = m2
      /\ \A i \in 1 .. n : g[i] = After(g[i - 1], codes[i])
      /\ \A i \in 1 .. n - 1 : Quiet(g[i - 1], codes[i])
      /\ Gives(g[n - 1], codes[n], k, m2)
  BY <1>1, <1>3, <1>6, <1>7, <1>8
<1> HIDE DEF n
<1>9. Follows(g[0], Bytes(codes, k, m2, h), m2)
  BY <1>a, <1>b, EventTrace, Zenon
<1> QED BY <1>3, <1>9 DEF codes

(* Pause: what looks like Ctrl in it is undone.                            *)
LEMMA PauseBytes ==
  ASSUME NEW m \in SUBSET Modifiers, NEW h, "CTL" \notin m
  PROVE  Follows(m, Bytes(<<\hE1, \h1D, \h45, \hE1, \h9D, \hC5>>, "pause", m, h), m)
PROOF
<1> DEFINE e1 == \hE1
           ctl == \h1D
           num == \h45
           ctlup == \h9D
           numup == \hC5
           c == m \cup {"CTL"}
           n == 6
           g == [i \in 0 .. n |-> IF i \in {2, 3, 4} THEN c ELSE m]
           codes == <<e1, ctl, num, e1, ctlup, numup>>
<1>1. /\ codes \in Seq(Nat) /\ Len(codes) = 6 /\ n \in Nat /\ n > 0
      /\ codes[1] = e1 /\ codes[2] = ctl /\ codes[3] = num
      /\ codes[4] = e1 /\ codes[5] = ctlup /\ codes[6] = numup
  OBVIOUS
<1>2. m \in SUBSET Modifiers /\ c \in SUBSET Modifiers
  BY DEF Modifiers
<1>3. /\ g \in [0 .. 6 -> SUBSET Flags]
      /\ g[0] = m /\ g[1] = m /\ g[2] = c /\ g[3] = c /\ g[4] = c
      /\ g[5] = m /\ g[6] = m
  <2>1. m \in SUBSET Flags /\ c \in SUBSET Flags
    BY <1>2 DEF Flags
  <2> QED BY <2>1
<1>a. /\ e1 \in Nat /\ e1 >= \h80 /\ e1 # \hE0
      /\ ctl \in Nat /\ ctl < \h80 /\ num \in Nat /\ num < \h80
      /\ ctlup \in Nat /\ ctlup >= \h80 /\ ctlup # \hE0
      /\ numup \in Nat /\ numup >= \h80 /\ numup # \hE0
  OBVIOUS
<1>b. /\ shiftcode(e1 % \h80) = {} /\ shiftcode(ctl) = {"CTL"}
      /\ shiftcode(num) = {} /\ shiftcode(ctlup % \h80) = {"CTL"}
      /\ shiftcode(numup % \h80) = {}
  BY DEF shiftcode
<1>10. Quiet(m, ctl) /\ Quiet(c, num)
  <2>1. Index(m, ctl) = ctl /\ Index(c, num) = num
    BY <1>2 DEF Index, Modifiers
  <2>2. charcode(After(m, ctl), ctl) = 0 /\ charcode(After(c, num), num) = 0
    BY DEF charcode
  <2> QED BY <2>1, <2>2 DEF Quiet, Char, capslock
<1>c. Gives(m, numup, "pause", m)
  BY DEF Gives, Char, MeaningIn
<1> HIDE DEF e1, ctl, num, ctlup, numup
<1>d. /\ After(m, e1) = m \ shiftcode(e1 % \h80)
      /\ After(c, e1) = c \ shiftcode(e1 % \h80)
  BY <1>2, <1>a, ReleaseAfter
<1>e. After(m, ctl) = m \cup {"CTL"} /\ After(c, num) = c \cup {}
  BY <1>2, <1>a, <1>b, PressAfter
<1>f. /\ After(c, ctlup) = c \ shiftcode(ctlup % \h80)
      /\ After(m, numup) = m \ shiftcode(numup % \h80)
  BY <1>2, <1>a, ReleaseAfter
<1>5. /\ After(m, e1) = m /\ After(c, e1) = c
      /\ After(m, ctl) = c /\ After(c, num) = c
      /\ After(c, ctlup) = m /\ After(m, numup) = m
  <2>1. /\ After(m, e1) = m \ {} /\ After(c, e1) = c \ {}
        /\ After(c, ctlup) = c \ {"CTL"} /\ After(m, numup) = m \ {}
    BY <1>b, <1>d, <1>f, Zenon
  <2>2. c \ {"CTL"} = m /\ c \cup {} = c /\ c \ {} = c /\ m \ {} = m
    OBVIOUS
  <2> QED BY <1>e, <2>1, <2>2, Zenon
<1>9. /\ Quiet(m, e1) /\ Quiet(c, e1) /\ Quiet(c, ctlup)
      /\ Gives(m, numup, "pause", m)
  <2>1. Quiet(m, e1) /\ Quiet(c, e1) /\ Quiet(c, ctlup)
    BY <1>a, ReleaseQuiet
  <2> QED BY <1>c, <2>1
<1> HIDE DEF g, codes, c
<1>11. \A i \in 1 .. 6 : g[i] = After(g[i - 1], codes[i])
  <2>1. ASSUME NEW i \in 1 .. 6 PROVE g[i] = After(g[i - 1], codes[i])
    <3>1. i = 1 \/ i = 2 \/ i = 3 \/ i = 4 \/ i = 5 \/ i = 6
      OBVIOUS
    <3> QED BY <1>1, <1>3, <1>5, <3>1
  <2> QED BY <2>1
<1>12. \A i \in 1 .. 6 - 1 : Quiet(g[i - 1], codes[i])
  <2>1. ASSUME NEW i \in 1 .. 6 - 1 PROVE Quiet(g[i - 1], codes[i])
    <3>1. i = 1 \/ i = 2 \/ i = 3 \/ i = 4 \/ i = 5
      OBVIOUS
    <3>2. i - 1 = 0 \/ i - 1 = 1 \/ i - 1 = 2 \/ i - 1 = 3 \/ i - 1 = 4
      BY <3>1
    <3> QED BY <1>1, <1>3, <1>9, <1>10, <3>1
  <2> QED BY <2>1
<1>13. /\ codes \in Seq(Nat) /\ Len(codes) = n
       /\ g \in [0 .. n -> SUBSET Flags] /\ g[n] = m
       /\ \A i \in 1 .. n : g[i] = After(g[i - 1], codes[i])
       /\ \A i \in 1 .. n - 1 : Quiet(g[i - 1], codes[i])
       /\ Gives(g[n - 1], codes[n], "pause", m)
  BY <1>1, <1>3, <1>9, <1>11, <1>12
<1>14. n \in Nat /\ n > 0
  OBVIOUS
<1> HIDE DEF n
<1>15. Follows(g[0], Bytes(codes, "pause", m, h), m)
  BY <1>13, <1>14, EventTrace, Zenon
<1> QED BY <1>3, <1>15 DEF codes, e1, ctl, num, ctlup, numup

(* What a code means for the modifiers, pressed and released.              *)
LEMMA PlainKey ==
  ASSUME NEW m \in SUBSET Modifiers, NEW k \in AllKeys \ (Escaped \cup {"pause"})
  PROVE  /\ Code[k] \in Nat
         /\ After(m, Code[k]) = m \cup ModifierOf(k)
         /\ Gives(m, Code[k], k, m \cup ModifierOf(k))
         /\ After(m, Code[k] + \h80) = m \ ModifierOf(k)
         /\ Gives(m, Code[k] + \h80, NoKey, m \ ModifierOf(k))
PROOF
<1> DEFINE c == Code[k]
<1>1. /\ c \in Nat /\ c < \h80 /\ (c + \h80) % \h80 = c /\ c + \h80 # \hE0
      /\ shiftcode(c) = ModifierOf(k)
  BY DEF Code, AllKeys, Escaped, shiftcode, ModifierOf
<1>2. Gives(m, c, k, m \cup ModifierOf(k))
  <2>1. Index(m, c) = c
    BY <1>1 DEF Index, Modifiers
  <2>2. After(m, c) = m \cup ModifierOf(k)
    BY <1>1, PressAfter
  <2> DEFINE f == m \cup ModifierOf(k)
  <2>3. ASSUME NEW locks \in SUBSET Locks
        PROVE  capslock(locks, charcode(f, c)) = MeaningIn(k, f, locks)
    <3>1. CASE k = "a"
      BY <3>1 DEF Code, charcode, capslock, MeaningIn
    <3>2. CASE k = "enter"
      BY <3>2 DEF Code, charcode, capslock, MeaningIn
    <3>3. CASE k = "dot"
      BY <3>3 DEF Code, charcode, capslock, MeaningIn
    <3>4. CASE k \notin {"a", "enter", "dot"}
      <4>1. charcode(f, c) = 0
        BY <3>4 DEF Code, AllKeys, Escaped, charcode
      <4>2. MeaningIn(k, f, locks) = 0
        BY <3>4 DEF AllKeys, Code, Escaped, MeaningIn
      <4> QED BY <4>1, <4>2 DEF capslock
    <3> QED BY <3>1, <3>2, <3>3, <3>4
  <2> QED BY <1>1, <2>1, <2>2, <2>3 DEF Gives, Char
<1> HIDE DEF c
<1> DEFINE d == c + \h80
<1>a. d \in Nat /\ d >= \h80 /\ d # \hE0 /\ d % \h80 = c
  BY <1>1
<1> HIDE DEF d
<1>3. After(m, c) = m \cup ModifierOf(k) /\ After(m, d) = m \ ModifierOf(k)
  BY <1>1, <1>a, PressAfter, ReleaseAfter
<1>4. Gives(m, d, NoKey, m \ ModifierOf(k))
  BY <1>a, ReleaseQuiet
<1> QED BY <1>1, <1>2, <1>3, <1>4 DEF c, d

LEMMA EscapedKey ==
  ASSUME NEW m \in SUBSET Modifiers, NEW k \in Escaped
  PROVE  LET e == m \cup {"E0ESC"}
         IN  /\ Code[k] \in Nat
             /\ After(e, Code[k]) = m \cup ModifierOf(k)
             /\ Gives(e, Code[k], k, m \cup ModifierOf(k))
             /\ After(e, Code[k] + \h80) = m \ ModifierOf(k)
             /\ Gives(e, Code[k] + \h80, NoKey, m \ ModifierOf(k))
PROOF
<1> DEFINE c == Code[k]
           e == m \cup {"E0ESC"}
<1>1. /\ c \in Nat /\ c < \h80 /\ c + \h80 # \hE0
      /\ shiftcode(c + \h80) = ModifierOf(k)
  BY DEF Code, Escaped, shiftcode, ModifierOf
<1>2. Gives(e, c, k, m \cup ModifierOf(k))
  <2>1. Index(e, c) = c + \h80
    BY <1>1 DEF Index
  <2>2. After(e, c) = m \cup ModifierOf(k)
    BY <1>1, EscapedPressAfter
  <2> DEFINE f == m \cup ModifierOf(k)
  <2>3. ASSUME NEW locks \in SUBSET Locks
        PROVE  capslock(locks, charcode(f, c + \h80)) = MeaningIn(k, f, locks)
    <3>1. CASE k = "kpenter"
      BY <3>1 DEF Code, charcode, capslock, MeaningIn
    <3>2. CASE k = "del"
      BY <3>2 DEF Code, charcode, capslock, MeaningIn, KEY_DEL
    <3>3. CASE k \in {"rctl", "ralt"}
      <4>1. charcode(f, c + \h80) = 0
        BY <3>3 DEF Code, charcode
      <4>2. MeaningIn(k, f, locks) = 0
        BY <3>3 DEF MeaningIn
      <4> QED BY <4>1, <4>2 DEF capslock
    <3> QED BY <3>1, <3>2, <3>3 DEF Escaped
  <2> QED BY <1>1, <2>1, <2>2, <2>3 DEF Gives, Char
<1> HIDE DEF c
<1> DEFINE d == c + \h80
<1>a. d \in Nat /\ d >= \h80 /\ d # \hE0 /\ shiftcode(d) = ModifierOf(k)
  BY <1>1
<1>3. After(e, c) = m \cup ModifierOf(k)
  BY <1>1, EscapedPressAfter
<1> HIDE DEF d
<1>b. After(e, d) = m \ ModifierOf(k)
  BY <1>a, EscapedReleaseAfter
<1>4. Gives(e, d, NoKey, m \ ModifierOf(k))
  BY <1>a, ReleaseQuiet
<1> QED BY <1>1, <1>2, <1>3, <1>4, <1>b DEF c, d

(* A fake shift code changes nothing and yields nothing.                   *)
LEMMA FakeShift ==
  ASSUME NEW m \in SUBSET Modifiers, NEW s \in {"lshift", "rshift"}
  PROVE  LET e == m \cup {"E0ESC"}
         IN  /\ Code[s] \in Nat
             /\ After(e, Code[s]) = m
             /\ Gives(e, Code[s], NoKey, m)
             /\ After(e, Code[s] + \h80) = m
             /\ Quiet(e, Code[s] + \h80)
PROOF
<1> DEFINE c == Code[s]
           e == m \cup {"E0ESC"}
<1>1. /\ c \in Nat /\ c < \h80 /\ c + \h80 # \hE0
      /\ shiftcode(c + \h80) = {}
  BY DEF Code, shiftcode
<1>2. Gives(e, c, NoKey, m)
  <2>1. Index(e, c) = c + \h80
    BY <1>1 DEF Index
  <2>2. charcode(After(e, c), c + \h80) = 0
    BY DEF Code, charcode
  <2>3. \A locks \in SUBSET Locks : MeaningIn(NoKey, m, locks) = 0
    BY DEF MeaningIn, NoKey
  <2> QED BY <1>1, <2>1, <2>2, <2>3 DEF Gives, Char, capslock
<1> HIDE DEF c
<1> DEFINE d == c + \h80
<1>a. d \in Nat /\ d >= \h80 /\ d # \hE0 /\ shiftcode(d) = {}
  BY <1>1
<1>3. After(e, c) = m
  BY <1>1, EscapedPressAfter
<1> HIDE DEF d
<1>b. After(e, d) = m
  BY <1>a, EscapedReleaseAfter
<1>4. Quiet(e, d)
  BY <1>a, ReleaseQuiet
<1> QED BY <1>1, <1>2, <1>3, <1>4, <1>b DEF c, d

(* What is sent on a press, or on a release, is read as that.              *)
LEMMA PressFollows ==
  ASSUME KbdInv, NEW k \in AllKeys, NEW codes \in MakeCodes(k), NEW h
  PROVE  LET m == mods \cup ModifierOf(k)
         IN  Follows(mods, Bytes(codes, k, m, h), m)
PROOF
<1> DEFINE m == mods \cup ModifierOf(k)
<1>1. mods \in SUBSET Modifiers
  BY DEF KbdInv
<1>2. CASE k = "pause"
  <2>1. m = mods
    BY <1>2 DEF ModifierOf
  <2>2. CASE held \cap {"lctl", "rctl"} = {}
    <3>1. codes = <<\hE1, \h1D, \h45, \hE1, \h9D, \hC5>>
      BY <1>2, <2>2 DEF MakeCodes
    <3>2. "CTL" \notin mods
      BY <2>2 DEF KbdInv
    <3> QED BY <1>1, <1>2, <2>1, <3>1, <3>2, PauseBytes
  <2>3. CASE held \cap {"lctl", "rctl"} # {}
    <3>1. codes = <<\hE0, \h46, \hE0, \hC6>>
      BY <1>2, <2>3 DEF MakeCodes
    <3> DEFINE e == mods \cup {"E0ESC"}
               d == \h46
               u == \hC6
    <3>2. /\ d \in Nat /\ d < \h80 /\ shiftcode(d + \h80) = {}
          /\ u \in Nat /\ u >= \h80 /\ u # \hE0 /\ shiftcode(u) = {}
      BY DEF shiftcode
    <3>3. Quiet(e, d)
      <4>1. Index(e, d) = \hC6
        BY DEF Index
      <4>2. charcode(After(e, d), \hC6) = 0
        BY DEF charcode
      <4> QED BY <4>1, <4>2 DEF Quiet, Char, capslock
    <3>4. Gives(e, u, "pause", mods)
      BY DEF Gives, Char, MeaningIn
    <3> HIDE DEF d, u
    <3>5. After(e, d) = mods /\ After(e, u) = mods
      <4>1. After(e, d) = mods \cup shiftcode(d + \h80)
        BY <1>1, <3>2, EscapedPressAfter
      <4>2. After(e, u) = mods \ shiftcode(u)
        BY <1>1, <3>2, EscapedReleaseAfter
      <4> QED BY <3>2, <4>1, <4>2
    <3>6. Follows(mods, Bytes(<<\hE0, d, \hE0, u>>, "pause", mods, h), mods)
      BY <1>1, <3>2, <3>3, <3>4, <3>5, FourBytes
    <3> QED BY <1>2, <2>1, <3>1, <3>6 DEF d, u
  <2> QED BY <2>2, <2>3
<1>3. CASE k \in Escaped
  <2>1. /\ Code[k] \in Nat
        /\ After(mods \cup {"E0ESC"}, Code[k]) = m
        /\ Gives(mods \cup {"E0ESC"}, Code[k], k, m)
    BY <1>1, <1>3, EscapedKey
  <2>2. CASE codes = <<\hE0, Code[k]>>
    BY <1>1, <2>1, <2>2, TwoBytes
  <2>3. CASE codes # <<\hE0, Code[k]>>
    <3>1. PICK s \in FakeShifts(k) :
            codes = <<\hE0, Code[s] + \h80, \hE0, Code[k]>>
      BY <1>3, <2>3 DEF MakeCodes, Escaped
    <3>2. s \in {"lshift", "rshift"}
      BY <3>1 DEF FakeShifts
    <3>3. /\ Code[s] + \h80 \in Nat
          /\ After(mods \cup {"E0ESC"}, Code[s] + \h80) = mods
          /\ Quiet(mods \cup {"E0ESC"}, Code[s] + \h80)
      <4>1. Code[s] \in Nat
        BY <1>1, <3>2, FakeShift
      <4> QED BY <1>1, <3>2, <4>1, FakeShift
    <3> DEFINE f == Code[s] + \h80  c == Code[k]  before == mods
    <3>4. before \in SUBSET Modifiers /\ f \in Nat /\ c \in Nat
      BY <1>1, <2>1, <3>3
    <3>5. After(before \cup {"E0ESC"}, f) = before /\ Quiet(before \cup {"E0ESC"}, f)
      BY <3>3
    <3>6. After(before \cup {"E0ESC"}, c) = m /\ Gives(before \cup {"E0ESC"}, c, k, m)
      BY <2>1
    <3> HIDE DEF f, c, before, m
    <3>7. Follows(before, Bytes(<<\hE0, f, \hE0, c>>, k, m, h), m)
      BY <3>4, <3>5, <3>6, FourBytes
    <3> USE DEF f, c, before, m
    <3> QED BY <3>1, <3>7, Zenon
  <2> QED BY <2>2, <2>3
<1>4. CASE k \notin Escaped /\ k # "pause"
  <2>1. codes = <<Code[k]>>
    BY <1>4 DEF MakeCodes
  <2>2. Code[k] \in Nat /\ After(mods, Code[k]) = m /\ Gives(mods, Code[k], k, m)
    BY <1>1, <1>4, PlainKey
  <2> QED BY <1>1, <2>1, <2>2, OneByte
<1> QED BY <1>2, <1>3, <1>4

LEMMA ReleaseFollows ==
  ASSUME KbdInv, NEW k \in AllKeys, NEW codes \in BreakCodes(k), NEW h
  PROVE  LET m == mods \ ModifierOf(k)
         IN  Follows(mods, Bytes(codes, NoKey, m, h), m)
PROOF
<1> DEFINE m == mods \ ModifierOf(k)
           up == Code[k] + \h80
<1>1. mods \in SUBSET Modifiers /\ k # "pause"
  BY DEF KbdInv, BreakCodes
<1>2. CASE k \in Escaped
  <2>1. /\ Code[k] \in Nat
        /\ After(mods \cup {"E0ESC"}, up) = m
        /\ Gives(mods \cup {"E0ESC"}, up, NoKey, m)
    BY <1>1, <1>2, EscapedKey
  <2>2. up \in Nat
    BY <2>1
  <2>3. CASE codes = <<\hE0, up>>
    <3> HIDE DEF up
    <3> QED BY <1>1, <2>1, <2>2, <2>3, TwoBytes
  <2>4. CASE codes # <<\hE0, up>>
    <3>1. PICK s \in FakeShifts(k) : codes = <<\hE0, up, \hE0, Code[s]>>
      BY <1>1, <1>2, <2>4 DEF BreakCodes
    <3>2. s \in {"lshift", "rshift"} /\ k = "del"
      BY <3>1 DEF FakeShifts
    <3>3. m = mods
      BY <3>2 DEF ModifierOf
    <3>4. /\ Code[s] \in Nat
          /\ After(mods \cup {"E0ESC"}, Code[s]) = mods
          /\ Gives(mods \cup {"E0ESC"}, Code[s], NoKey, mods)
      BY <1>1, <3>2, FakeShift
    <3>5. Quiet(mods \cup {"E0ESC"}, up)
      <4>1. up >= \h80
        BY <2>1
      <4> HIDE DEF up
      <4> QED BY <2>2, <4>1, ReleaseQuiet
    <3> HIDE DEF up, m
    <3>6. Follows(mods, Bytes(<<\hE0, up, \hE0, Code[s]>>, NoKey, mods, h), mods)
      BY <1>1, <2>1, <2>2, <3>3, <3>4, <3>5, FourBytes
    <3> QED BY <3>1, <3>3, <3>6 DEF m
  <2> QED BY <2>3, <2>4
<1>3. CASE k \notin Escaped
  <2>1. codes = <<up>>
    BY <1>1, <1>3 DEF BreakCodes
  <2>2. Code[k] \in Nat /\ After(mods, up) = m /\ Gives(mods, up, NoKey, m)
    BY <1>1, <1>3, PlainKey
  <2>3. up \in Nat
    BY <2>2
  <2> HIDE DEF up
  <2> QED BY <1>1, <2>1, <2>2, <2>3, OneByte
<1> QED BY <1>2, <1>3

-----------------------------------------------------------------------------
LEMMA KbdInitInv == KbdInit => KbdInv
PROOF
<1> SUFFICES ASSUME KbdInit PROVE KbdInv
  OBVIOUS
<1>1. Now = {} /\ Pending = {}
  BY DEF KbdInit, Now, Pending, NoByte
<1> DEFINE g == [i \in 0 .. 0 |-> {}]
<1>2. Trace(g, <<>>, {}) /\ g[0] = {}
  BY DEF Trace
<1>3. Follows(Pending, kbdOut, mods)
  BY <1>1, <1>2 DEF Follows, KbdInit
<1>4. ModifiersFollowKeys /\ OneCharacterPerPress /\ RebootInForce
  BY DEF KbdInit, ModifiersFollowKeys, OneCharacterPerPress,
         RebootInForce, NoByte, NoKey
<1> QED BY <1>3, <1>4 DEF KbdInv, KbdInit

(* When the keyboard has sent all it had, kbd_proc_data will be in step.   *)
LEMMA NothingMore ==
  ASSUME NEW G, NEW m, Follows(G, <<>>, m)
  PROVE  G = m
  BY DEF Follows, Trace

(* What the devices leave alone.                                           *)
LEMMA DevicesKeep ==
  ASSUME KbdInv, UNCHANGED <<shift, result, seen, rebooted>>
  PROVE  /\ ModifiersFollowKeys' /\ OneCharacterPerPress' /\ RebootInForce'
         /\ Now' = Now /\ shift' \subseteq Flags \cup Locks /\ rebooted' \in BOOLEAN
  BY DEF KbdInv, ModifiersFollowKeys, OneCharacterPerPress, RebootInForce,
         Meaning, Now

LEMMA PressInv ==
  ASSUME KbdInv, NEW k \in Keys, Press(k)
  PROVE  KbdInv'
PROOF
<1>1. k \in AllKeys
  BY KeysAssumption
<1>2. /\ kbdOut = <<>> /\ mods' = mods \cup ModifierOf(k)
      /\ held' = held \cup {k} /\ obf' = obf
      /\ UNCHANGED <<shift, result, seen, rebooted>>
  BY DEF Press
<1>3. PICK codes \in MakeCodes(k) :
        kbdOut' = Bytes(codes, k, mods \cup ModifierOf(k),
                        HeldModifiers(held \cup {k}))
  BY DEF Press
<1>4. Follows(mods, kbdOut', mods')
  BY <1>1, <1>2, <1>3, PressFollows
<1>5. Pending' = Pending /\ Pending = mods
  BY <1>2, NothingMore DEF KbdInv, Pending, Now
<1>6. Follows(Pending, kbdOut, mods)'
  BY <1>4, <1>5 DEF Follows
<1>7. held' \subseteq AllKeys /\ mods' \subseteq Modifiers
  BY <1>1, <1>2 DEF KbdInv, ModifierOf, Modifiers
<1>8. "CTL" \in mods' => held' \cap {"lctl", "rctl"} # {}
  BY <1>2 DEF KbdInv, ModifierOf
<1>9. obf' \in {NoByte, MouseByte} \/ Reads(Now, obf)'
  BY <1>2 DEF KbdInv, Reads, Now
<1> QED BY <1>2, <1>6, <1>7, <1>8, <1>9, DevicesKeep DEF KbdInv

LEMMA ReleaseInv ==
  ASSUME KbdInv, NEW k \in Keys, Release(k)
  PROVE  KbdInv'
PROOF
<1>1. k \in AllKeys
  BY KeysAssumption
<1>2. /\ kbdOut = <<>> /\ mods' = mods \ ModifierOf(k)
      /\ held' = held \ {k} /\ obf' = obf
      /\ UNCHANGED <<shift, result, seen, rebooted>>
  BY DEF Release
<1>3. Pending' = Pending /\ Pending = mods
  BY <1>2, NothingMore DEF KbdInv, Pending, Now
<1>4. Follows(mods, kbdOut', mods')
  <2>1. CASE BreakCodes(k) = {} /\ kbdOut' = kbdOut
    <3>1. k = "pause"
      BY <2>1 DEF BreakCodes
    <3>2. mods' = mods
      BY <1>2, <3>1 DEF ModifierOf
    <3> QED BY <1>3, <2>1, <3>2 DEF KbdInv
  <2>2. CASE \E codes \in BreakCodes(k) :
               kbdOut' = Bytes(codes, NoKey, mods \ ModifierOf(k),
                               HeldModifiers(held \ {k}))
    BY <1>1, <1>2, <2>2, ReleaseFollows
  <2> QED BY <2>1, <2>2 DEF Release
<1>5. Follows(Pending, kbdOut, mods)'
  BY <1>3, <1>4 DEF Follows
<1>6. held' \subseteq AllKeys /\ mods' \subseteq Modifiers
  BY <1>2 DEF KbdInv
<1>7. "CTL" \in mods' => held' \cap {"lctl", "rctl"} # {}
  BY <1>2 DEF KbdInv, ModifierOf
<1>8. obf' \in {NoByte, MouseByte} \/ Reads(Now, obf)'
  BY <1>2 DEF KbdInv, Reads, Now
<1> QED BY <1>2, <1>5, <1>6, <1>7, <1>8, DevicesKeep DEF KbdInv

LEMMA SequenceIs ==
  ASSUME NEW S, NEW s \in Seq(S)
  PROVE  Len(s) \in Nat /\ s = [i \in 1 .. Len(s) |-> s[i]]
  OBVIOUS

(* The controller takes the first byte; what follows follows it.           *)
LEMMA LoadKeyInv == KbdInv /\ LoadKey => KbdInv'
PROOF
<1> SUFFICES ASSUME KbdInv, LoadKey PROVE KbdInv'
  OBVIOUS
<1>1. /\ obf = NoByte /\ kbdOut # <<>>
      /\ obf' = Head(kbdOut) /\ kbdOut' = Tail(kbdOut)
      /\ UNCHANGED <<held, mods, shift, result, seen, rebooted>>
  BY DEF LoadKey
<1>2. Pending = Now
  BY <1>1 DEF Pending, NoByte
<1>3. PICK g : Trace(g, kbdOut, mods) /\ g[0] = Now
  BY <1>2 DEF KbdInv, Follows
<1> DEFINE q == kbdOut
           n == Len(kbdOut)
           S == {kbdOut[i] : i \in 1 .. Len(kbdOut)}
<1>4. n \in Nat /\ q = [i \in 1 .. n |-> q[i]]
  BY <1>3 DEF Trace
<1>5. q \in Seq(S)
  BY <1>4
<1> HIDE DEF S
<1>6. n > 0 /\ Head(q) = q[1]
  BY <1>1, <1>4, <1>5
<1>7. /\ Len(Tail(q)) = n - 1 /\ Tail(q) \in Seq(S)
      /\ \A i \in 1 .. n - 1 : Tail(q)[i] = q[i + 1]
  BY <1>5, <1>6
<1>8. Reads(Now, q[1]) /\ g[1] = After(Now, q[1].code)
  <2>1. 1 \in 1 .. n /\ 1 - 1 = 0
    BY <1>4, <1>6
  <2> QED BY <1>3, <2>1 DEF Trace
<1>9. Pending' = g[1]
  <2>1. q[1].from = "kbd"
    BY <1>8 DEF Reads
  <2>2. Now' = Now /\ obf' = q[1]
    BY <1>1, <1>6 DEF Now
  <2> QED BY <1>8, <2>1, <2>2 DEF Pending
<1> DEFINE h == [i \in 0 .. n - 1 |-> g[i + 1]]
<1>10. h[0] = g[1] /\ h[n - 1] = mods /\ h \in [0 .. n - 1 -> SUBSET Flags]
  <2>1. g \in [0 .. n -> SUBSET Flags] /\ g[n] = mods
    BY <1>3 DEF Trace
  <2> QED BY <1>4, <1>6, <2>1
<1>11. ASSUME NEW i \in 1 .. n - 1
       PROVE  Reads(h[i - 1], Tail(q)[i]) /\ h[i] = After(h[i - 1], Tail(q)[i].code)
  <2>1. i + 1 \in 1 .. n /\ (i + 1) - 1 = i
    BY <1>4
  <2>2. Reads(g[i], q[i + 1]) /\ g[i + 1] = After(g[i], q[i + 1].code)
    BY <1>3, <2>1 DEF Trace
  <2>3. h[i - 1] = g[i] /\ h[i] = g[i + 1]
    BY <1>4
  <2>4. Tail(q)[i] = q[i + 1]
    BY <1>7
  <2> HIDE DEF h
  <2> QED BY <2>2, <2>3, <2>4
<1> HIDE DEF h
<1>12. Trace(h, Tail(q), mods)
  <2>1. Len(Tail(q)) \in Nat /\ Tail(q) = [i \in 1 .. Len(Tail(q)) |-> Tail(q)[i]]
    BY <1>7, SequenceIs
  <2> QED BY <1>7, <1>10, <1>11, <2>1 DEF Trace
<1>13. Follows(Pending, kbdOut, mods)'
  BY <1>1, <1>9, <1>10, <1>12 DEF Follows
<1>14. Reads(Now, obf)'
  BY <1>1, <1>6, <1>8 DEF Reads, Now
<1> QED BY <1>1, <1>13, <1>14, DevicesKeep DEF KbdInv

LEMMA LoadMouseInv == KbdInv /\ LoadMouse => KbdInv'
PROOF
<1> SUFFICES ASSUME KbdInv, LoadMouse PROVE KbdInv'
  OBVIOUS
<1>1. /\ obf = NoByte /\ obf' = MouseByte
      /\ UNCHANGED <<held, mods, kbdOut, shift, result, seen, rebooted>>
  BY DEF LoadMouse
<1>2. Pending' = Pending
  BY <1>1 DEF Pending, Now, NoByte, MouseByte
<1>3. Follows(Pending, kbdOut, mods)'
  BY <1>1, <1>2 DEF KbdInv, Follows
<1> QED BY <1>1, <1>3, DevicesKeep DEF KbdInv

(* kbd_proc_data is the function of After and Char.                        *)
LEMMA CodeRead ==
  ASSUME KbdInv, kbd_proc_data, obf.from = "kbd"
  PROVE  /\ Now' = After(Now, obf.code)
         /\ shift' \subseteq Flags \cup Locks
         /\ result' = Char(Now, obf.code, shift' \cap Locks)
         /\ rebooted' = ({"CTL", "ALT"} \subseteq Now' /\ result' = KEY_DEL)
PROOF
<1> DEFINE c == obf.code
           G == Now
<1>1. c \in Nat /\ shift \subseteq Flags \cup Locks /\ rebooted = FALSE
  <2>1. obf \notin {NoByte, MouseByte}
    BY DEF NoByte, MouseByte
  <2>2. Reads(Now, obf)
    BY <2>1 DEF KbdInv
  <2> QED BY <2>2 DEF KbdInv, Reads, kbd_proc_data
<1>2. "E0ESC" \in G <=> "E0ESC" \in shift
  BY DEF Now, Locks
<1>3. \A d : shiftcode(d) \subseteq Modifiers /\ togglecode(d) \subseteq Locks
  BY DEF shiftcode, togglecode, Modifiers, Locks
<1>4. Escape(c) \/ KeyReleased(c) \/ KeyPressed(c)
  BY DEF kbd_proc_data
<1> HIDE DEF c
<1>5. CASE Escape(c)
  <2>1. c = \hE0 /\ shift' = shift \cup {"E0ESC"} /\ result' = 0 /\ rebooted' = FALSE
    BY <1>1, <1>5 DEF Escape
  <2>2. Now' = After(Now, c)
    BY <2>1 DEF Now, After, Locks
  <2>3. shift' \subseteq Flags \cup Locks
    BY <1>1, <2>1 DEF Flags
  <2>4. Char(Now, c, shift' \cap Locks) = 0
    BY <2>1 DEF Char
  <2>5. rebooted' = ({"CTL", "ALT"} \subseteq Now' /\ result' = KEY_DEL)
    <3>1. result' # KEY_DEL
      BY <2>1 DEF KEY_DEL
    <3> QED BY <2>1, <3>1
  <2>6. result' = Char(Now, c, shift' \cap Locks)
    BY <2>1, <2>4
  <2> QED BY <2>2, <2>3, <2>5, <2>6 DEF c
<1>6. CASE KeyReleased(c)
  <2> DEFINE d == Index(G, c)
  <2>1. /\ c >= \h80 /\ c # \hE0 /\ result' = 0 /\ rebooted' = FALSE
        /\ shift' = shift \ (shiftcode(d) \cup {"E0ESC"})
    BY <1>1, <1>2, <1>6 DEF KeyReleased, Index
  <2>2. Now' = After(Now, c)
    <3>1. After(Now, c) = Now \ (shiftcode(d) \cup {"E0ESC"})
      BY <1>1, <2>1 DEF After
    <3> HIDE DEF d
    <3> QED BY <2>1, <3>1 DEF Now
  <2>3. shift' \subseteq Flags \cup Locks
    BY <1>1, <2>1
  <2>4. Char(Now, c, shift' \cap Locks) = 0
    BY <1>1, <2>1 DEF Char
  <2>5. rebooted' = ({"CTL", "ALT"} \subseteq Now' /\ result' = KEY_DEL)
    <3>1. result' # KEY_DEL
      BY <2>1 DEF KEY_DEL
    <3> QED BY <2>1, <3>1
  <2>6. result' = Char(Now, c, shift' \cap Locks)
    BY <2>1, <2>4
  <2> QED BY <2>2, <2>3, <2>5, <2>6 DEF c
<1>7. CASE KeyPressed(c)
  <2> DEFINE d == Index(G, c)
             f == SymDiff((shift \ {"E0ESC"}) \cup shiftcode(d), togglecode(d))
             ch == capslock(f, charcode(f, d))
  <2>1. /\ c < \h80 /\ shift' = f /\ result' = ch
        /\ rebooted' = (CtrlAlt(f) /\ ch = KEY_DEL)
    BY <1>1, <1>2, <1>7 DEF KeyPressed, Index
  <2>2. After(Now, c) = (Now \ {"E0ESC"}) \cup shiftcode(d)
    BY <1>1, <2>1 DEF After
  <2> HIDE DEF d
  <2>3. f \ Locks = (Now \ {"E0ESC"}) \cup shiftcode(d)
    BY <1>3 DEF SymDiff, Now, Locks, Modifiers
  <2>4. f \subseteq Flags \cup Locks
    BY <1>1, <1>3 DEF SymDiff, Flags
  <2> HIDE DEF f
  <2>5. Now' = f \ Locks /\ Now' = After(Now, c)
    BY <2>1, <2>2, <2>3 DEF Now
  <2>6. charcode(f, d) = charcode(f \ Locks, d)
    BY DEF charcode, Locks
  <2>7. \A x : capslock(f, x) = capslock(f \cap Locks, x)
    BY DEF capslock, Locks
  <2>8. Char(Now, c, shift' \cap Locks) = ch
    <3>1. Char(Now, c, shift' \cap Locks)
            = capslock(f \cap Locks, charcode(f \ Locks, d))
      BY <1>1, <2>1, <2>5 DEF Char, d
    <3> QED BY <2>6, <2>7, <3>1
  <2>9. CtrlAlt(f) = ({"CTL", "ALT"} \subseteq f \ Locks)
    BY DEF CtrlAlt, Locks
  <2> HIDE DEF ch
  <2> QED BY <2>1, <2>4, <2>5, <2>8, <2>9 DEF c
<1> QED BY <1>4, <1>5, <1>6, <1>7

(* Only Delete gives KEY_DEL, and nothing but a key gives a character.     *)
LEMMA MeaningDel ==
  ASSUME NEW k, NEW m, NEW locks
  PROVE  /\ MeaningIn(k, m, locks) = KEY_DEL <=> k = "del"
         /\ KEY_DEL # 0
  BY DEF MeaningIn, KEY_DEL

LEMMA ReadInv == KbdInv /\ kbd_proc_data => KbdInv'
PROOF
<1> SUFFICES ASSUME KbdInv, kbd_proc_data PROVE KbdInv'
  OBVIOUS
<1>1. UNCHANGED <<held, mods, kbdOut>> /\ rebooted = FALSE
  BY DEF kbd_proc_data, KbdInv
<1>2. CASE obf.from # "kbd"
  <2>1. result' = -1 /\ UNCHANGED <<obf, shift, seen, rebooted>>
    BY <1>2 DEF kbd_proc_data
  <2>2. Now' = Now /\ Pending' = Pending
    BY <2>1 DEF Now, Pending
  <2>3. ModifiersFollowKeys' /\ OneCharacterPerPress' /\ RebootInForce'
    BY <2>1 DEF KbdInv, ModifiersFollowKeys, OneCharacterPerPress,
                RebootInForce
  <2>4. Follows(Pending, kbdOut, mods)'
    BY <1>1, <2>2 DEF KbdInv, Follows
  <2>5. (obf \in {NoByte, MouseByte} \/ Reads(Now, obf))'
    BY <2>1, <2>2 DEF KbdInv, Reads
  <2> QED BY <1>1, <2>1, <2>3, <2>4, <2>5 DEF KbdInv
<1>3. CASE obf.from = "kbd"
  <2>1. obf' = NoByte /\ seen' = obf
    BY <1>3 DEF kbd_proc_data
  <2> DEFINE locks == shift' \cap Locks
  <2>2. /\ Now' = After(Now, obf.code)
        /\ shift' \subseteq Flags \cup Locks
        /\ result' = Char(Now, obf.code, locks)
        /\ rebooted' = ({"CTL", "ALT"} \subseteq Now' /\ result' = KEY_DEL)
    BY <1>3, CodeRead
  <2>3. Reads(Now, obf)
    <3>1. obf \notin {NoByte, MouseByte}
      BY <1>3 DEF NoByte, MouseByte
    <3> QED BY <3>1 DEF KbdInv
  <2>4. Pending' = Pending
    BY <1>3, <2>1, <2>2 DEF Pending, NoByte
  <2>5. Follows(Pending, kbdOut, mods)'
    BY <1>1, <2>4 DEF KbdInv, Follows
  <2>6. locks \in SUBSET Locks
    OBVIOUS
  <2>7. Meaning(seen.pressed, seen.mods)' = MeaningIn(obf.pressed, obf.mods, locks)
    <3>1. "CAPSLOCK" \in shift' <=> "CAPSLOCK" \in locks
      BY DEF Locks
    <3> HIDE DEF locks
    <3> QED BY <2>1, <3>1 DEF Meaning, MeaningIn
  <2> HIDE DEF locks
  <2>8. CASE obf.whole
    <3>1. After(Now, obf.code) = obf.mods
          /\ Gives(Now, obf.code, obf.pressed, obf.mods)
      BY <2>3, <2>8 DEF Reads
    <3>2. result' = MeaningIn(obf.pressed, obf.mods, locks) /\ Now' = obf.mods
      BY <2>2, <2>6, <3>1 DEF Gives
    <3>3. ModifiersFollowKeys' /\ OneCharacterPerPress'
      BY <2>1, <2>7, <2>8, <3>2
      DEF ModifiersFollowKeys, OneCharacterPerPress, Now, Locks
    <3>4. RebootInForce'
      BY <2>1, <2>2, <3>2, MeaningDel DEF RebootInForce
    <3> QED BY <1>1, <2>1, <2>2, <2>5, <3>3, <3>4 DEF KbdInv
  <2>9. CASE ~obf.whole
    <3>1. obf.pressed = NoKey /\ Quiet(Now, obf.code)
      BY <2>3, <2>9 DEF Reads
    <3>2. result' = 0
      BY <2>2, <2>6, <3>1 DEF Quiet
    <3>3. ModifiersFollowKeys' /\ OneCharacterPerPress'
      BY <2>1, <2>9, <3>2 DEF ModifiersFollowKeys, OneCharacterPerPress
    <3>4. RebootInForce'
      BY <2>1, <2>2, <3>1, <3>2, MeaningDel DEF RebootInForce, NoKey
    <3> QED BY <1>1, <2>1, <2>2, <2>5, <3>3, <3>4 DEF KbdInv
  <2> QED BY <2>8, <2>9
<1> QED BY <1>2, <1>3

LEMMA KbdInvNext == KbdInv /\ [KbdNext]_kbdVars => KbdInv'
PROOF
<1> SUFFICES ASSUME KbdInv, [KbdNext]_kbdVars PROVE KbdInv'
  OBVIOUS
<1>1. CASE KbdDevices
  BY <1>1, PressInv, ReleaseInv, LoadKeyInv, LoadMouseInv DEF KbdDevices
<1>2. CASE kbd_proc_data
  BY <1>2, ReadInv
<1>3. CASE UNCHANGED kbdVars
  <2>1. UNCHANGED <<held, mods, kbdOut, obf, shift, result, seen, rebooted>>
    BY <1>3 DEF kbdVars
  <2>2. Pending' = Pending /\ Now' = Now
    BY <2>1 DEF Pending, Now
  <2>3. Follows(Pending, kbdOut, mods)'
    BY <2>1, <2>2 DEF KbdInv, Follows
  <2>4. (obf \in {NoByte, MouseByte} \/ Reads(Now, obf))'
    BY <2>1, <2>2 DEF KbdInv, Reads
  <2> QED BY <2>1, <2>3, <2>4, DevicesKeep DEF KbdInv
<1> QED BY <1>1, <1>2, <1>3 DEF KbdNext

LEMMA KbdInvAlways == KbdSpec => []KbdInv
  BY KbdInitInv, KbdInvNext, PTL DEF KbdSpec

(* The flags of kbd_proc_data follow the modifier keys, in whatever order  *)
(* they are pressed and released and however many are held                 *)
(* (console.c:331-347).                                                    *)
THEOREM FlagsFollow == KbdSpec => []ModifiersFollowKeys
PROOF
<1>1. KbdInv => ModifiersFollowKeys
  BY DEF KbdInv
<1> QED BY <1>1, KbdInvAlways, PTL

(* Each press yields one character, when its last byte is read, and        *)
(* nothing else yields any (console.c:331-364).                            *)
THEOREM OneCharacter == KbdSpec => []OneCharacterPerPress
PROOF
<1>1. KbdInv => OneCharacterPerPress
  BY DEF KbdInv
<1> QED BY <1>1, KbdInvAlways, PTL

(* A modifier is in force only while a key of it is held, and so it was    *)
(* when a byte was sent.                                                   *)
InForceHeld ==
  /\ mods \subseteq HeldModifiers(held)
  /\ \A i \in DOMAIN kbdOut : kbdOut[i].mods \subseteq kbdOut[i].down
  /\ obf.mods \subseteq obf.down /\ seen.mods \subseteq seen.down

LEMMA BytesHeld ==
  ASSUME NEW codes, NEW k, NEW m, NEW h, m \subseteq h,
         kbdOut' = Bytes(codes, k, m, h)
  PROVE  \A i \in DOMAIN kbdOut' : kbdOut'[i].mods \subseteq kbdOut'[i].down
  BY DEF Bytes

LEMMA InForceHeldNext ==
  ASSUME KbdInv, InForceHeld, [KbdNext]_kbdVars
  PROVE  InForceHeld'
PROOF
<1>1. ASSUME NEW k \in Keys, Press(k) PROVE InForceHeld'
  <2>1. mods \cup ModifierOf(k) \subseteq HeldModifiers(held \cup {k})
    BY DEF InForceHeld, HeldModifiers
  <2>2. /\ held' = held \cup {k} /\ mods' = mods \cup ModifierOf(k)
        /\ obf' = obf /\ seen' = seen
    BY <1>1 DEF Press
  <2>3. PICK codes \in MakeCodes(k) :
          kbdOut' = Bytes(codes, k, mods \cup ModifierOf(k),
                          HeldModifiers(held \cup {k}))
    BY <1>1 DEF Press
  <2>4. \A i \in DOMAIN kbdOut' : kbdOut'[i].mods \subseteq kbdOut'[i].down
    BY <2>1, <2>3, BytesHeld
  <2> QED BY <2>1, <2>2, <2>4 DEF InForceHeld
<1>2. ASSUME NEW k \in Keys, Release(k) PROVE InForceHeld'
  <2>1. mods \ ModifierOf(k) \subseteq HeldModifiers(held \ {k})
    BY DEF InForceHeld, HeldModifiers
  <2>2. /\ held' = held \ {k} /\ mods' = mods \ ModifierOf(k)
        /\ obf' = obf /\ seen' = seen
    BY <1>2 DEF Release
  <2>3. \A i \in DOMAIN kbdOut' : kbdOut'[i].mods \subseteq kbdOut'[i].down
    <3>1. CASE kbdOut' = kbdOut
      BY <3>1 DEF InForceHeld
    <3>2. CASE \E codes \in BreakCodes(k) :
                 kbdOut' = Bytes(codes, NoKey, mods \ ModifierOf(k),
                                 HeldModifiers(held \ {k}))
      BY <2>1, <3>2, BytesHeld
    <3> QED BY <1>2, <3>1, <3>2 DEF Release
  <2> QED BY <2>1, <2>2, <2>3 DEF InForceHeld
<1>3. CASE LoadKey
  <2>1. /\ kbdOut # <<>> /\ obf' = Head(kbdOut) /\ kbdOut' = Tail(kbdOut)
        /\ UNCHANGED <<held, mods, seen>>
    BY <1>3 DEF LoadKey
  <2>2. Len(kbdOut) \in Nat /\ kbdOut = [i \in 1 .. Len(kbdOut) |-> kbdOut[i]]
    BY DEF KbdInv, Follows, Trace
  <2> DEFINE S == {kbdOut[i] : i \in 1 .. Len(kbdOut)}
  <2>3. kbdOut \in Seq(S)
    BY <2>2
  <2> HIDE DEF S
  <2>4. /\ 1 \in DOMAIN kbdOut /\ Head(kbdOut) = kbdOut[1]
        /\ \A i \in DOMAIN Tail(kbdOut) :
             i + 1 \in DOMAIN kbdOut /\ Tail(kbdOut)[i] = kbdOut[i + 1]
    BY <2>1, <2>3
  <2> QED BY <2>1, <2>4 DEF InForceHeld
<1>4. CASE LoadMouse
  BY <1>4 DEF LoadMouse, InForceHeld, MouseByte, NoByte
<1>5. CASE kbd_proc_data
  <2>1. UNCHANGED <<held, mods, kbdOut>>
    BY <1>5 DEF kbd_proc_data
  <2>2. (obf' = obf /\ seen' = seen) \/ (obf' = NoByte /\ seen' = obf)
    BY <1>5 DEF kbd_proc_data
  <2> QED BY <2>1, <2>2 DEF InForceHeld, NoByte
<1>6. CASE UNCHANGED kbdVars
  BY <1>6 DEF kbdVars, InForceHeld
<1> QED BY <1>1, <1>2, <1>3, <1>4, <1>5, <1>6 DEF KbdNext, KbdDevices

(* The machine is reset when Delete is pressed with Ctrl and Alt in force, *)
(* and only then, which is with a Ctrl and an Alt held                     *)
(* (console.c:357-361).                                                    *)
THEOREM RebootOnlyThen == KbdSpec => []RebootOnCtrlAltDel
PROOF
<1>1. KbdInit => InForceHeld
  BY DEF KbdInit, InForceHeld, NoByte
<1>2. KbdInv /\ InForceHeld => RebootOnCtrlAltDel
  BY DEF KbdInv, RebootInForce, InForceHeld, RebootOnCtrlAltDel
<1> QED BY <1>1, <1>2, InForceHeldNext, KbdInvAlways, PTL DEF KbdSpec

-----------------------------------------------------------------------------
(* cons_getc, which uses both.                                             *)

(* Every step of the console is one of the ring, or leaves it alone, and   *)
(* one of the keyboard, or leaves that alone.                              *)
LEMMA StepOfEach ==
  ASSUME serialRx \in SerialBytes \cup {NoData}, [Next]_vars
  PROVE  /\ serialRx' \in SerialBytes \cup {NoData}
         /\ [RingNext]_ringVars
         /\ [KbdNext]_kbdVars
PROOF
<1>1. ASSUME NEW c \in Results \cup SerialBytes \cup {NoData},
             NEW h, NEW n, ConsIntr(c, h, n)
      PROVE  [RingNext]_ringVars
  <2>1. c \notin {-1, 0} => c \in Chars
    BY SerialAssumption DEF Results, NoData
  <2> QED BY <1>1, <2>1 DEF ConsIntr, RingNext
<1>2. CASE Devices
  BY <1>2 DEF Devices, SerialReceive, KbdNext
<1>3. CASE Call
  BY <1>3 DEF Call
<1>4. CASE serial_intr
  <2>1. [RingNext]_ringVars
    BY <1>1, <1>4 DEF serial_intr
  <2>2. serialRx' \in SerialBytes \cup {NoData} /\ UNCHANGED kbdVars
    BY <1>4 DEF serial_intr
  <2> QED BY <2>1, <2>2
<1>5. CASE kbd_intr
  <2>1. [RingNext]_ringVars
    BY <1>1, <1>5 DEF kbd_intr
  <2>2. kbd_proc_data /\ UNCHANGED serialRx
    BY <1>5 DEF kbd_intr
  <2> QED BY <2>1, <2>2 DEF KbdNext
<1>6. CASE cons_getc
  BY <1>6 DEF cons_getc, RingNext
<1>7. CASE UNCHANGED vars
  BY <1>7 DEF vars
<1> QED BY <1>2, <1>3, <1>4, <1>5, <1>6, <1>7 DEF Next, Kernel

(* What is proved of the ring and of the keyboard holds when cons_getc     *)
(* polls the serial port and the keyboard and stores what they give        *)
(* (console.c:395-429).                                                    *)
THEOREM ConsoleHasParts == Spec => RingSpec /\ KbdSpec
PROOF
<1>1. Init => serialRx \in SerialBytes \cup {NoData} /\ RingInit /\ KbdInit
  BY DEF Init
<1>2. serialRx \in SerialBytes \cup {NoData} /\ [Next]_vars =>
        /\ (serialRx \in SerialBytes \cup {NoData})'
        /\ [RingNext]_ringVars /\ [KbdNext]_kbdVars
  BY StepOfEach
<1> QED BY <1>1, <1>2, PTL DEF Spec, RingSpec, KbdSpec

(* So the input queue is what the whole of console input implements.       *)
THEOREM InputImplementsQueue == Spec => ImplementsInputQueue
PROOF
<1> QED BY ConsoleHasParts, Implementation, PTL
=============================================================================
