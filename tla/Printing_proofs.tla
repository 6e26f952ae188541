---------------------------- MODULE Printing_proofs ----------------------------
(***************************************************************************)
(* Proofs about what the kernel prints: that cputchar does what            *)
(* OutputDelivered says for every int, however long the waits for the      *)
(* ports are; that cprintf prints what every directive asks for and        *)
(* snprintf leaves the beginning of it in its buffer, for any directives,  *)
(* any size of int and any sizes of buffer; and that cprintf uses the      *)
(* console only as ConsoleOutput describes.                                *)
(*                                                                         *)
(* Console first, then numerals, padding, the reading of a directive, the  *)
(* conversions, and the invariant of a call (PrintInv) at the end.         *)
(***************************************************************************)
EXTENDS Printing, WellFoundedInduction, TLAPS

(* A set of numbers has a least one.                                       *)
LEMMA LeastNat ==
  ASSUME NEW S \in SUBSET Nat, S # {}
  PROVE  \E m \in S : \A k \in S : m <= k
PROOF
<1> DEFINE R == OpToRel(<, Nat)
<1>1. IsWellFoundedOn(R, Nat)
  BY NatLessThanWellFounded
<1>2. \A x, y \in Nat : x < y => <<x, y>> \in R
  BY DEF OpToRel
<1> HIDE DEF R
<1>3. PICK m \in S : \A k \in S : ~ (<<k, m>> \in R)
  BY <1>1, WFMin
<1>4. ASSUME NEW k \in S PROVE m <= k
  <2>1. m \in Nat /\ k \in Nat /\ ~ (<<k, m>> \in R)
    BY <1>3
  <2>2. ~(k < m)
    BY <2>1, <1>2
  <2> QED BY <2>1, <2>2
<1> QED BY <1>4

-----------------------------------------------------------------------------
(* cputchar.  The histories are of any length, so what FlattenSeq makes of *)
(* them comes first.                                                       *)

Lines == Seq(Int)

(* The concatenations of the first so many of the sequences ss.            *)
FirstFlat(flat, ss, count) ==
  flat = [j \in 1 .. count |-> IF j = 1 THEN ss[j] ELSE flat[j - 1] \o ss[j]]

(* The function that FlattenSeq defines by recursion exists.               *)
LEMMA PrefixesExist ==
  ASSUME NEW ss, NEW count \in Nat
  PROVE  \E flat : FirstFlat(flat, ss, count)
PROOF
<1> DEFINE Without == {m \in Nat : ~ \E flat : FirstFlat(flat, ss, m)}
<1> SUFFICES ASSUME Without # {} PROVE FALSE
  OBVIOUS
<1>1. PICK m \in Without : \A k \in Without : m <= k
  BY LeastNat
<1>2. m \in Nat /\ ~ \E flat : FirstFlat(flat, ss, m)
  OBVIOUS
<1>3. CASE m = 0
  <2> DEFINE flat == [j \in 1 .. 0 |-> <<>>]
  <2>1. FirstFlat(flat, ss, 0)
    BY DEF FirstFlat
  <2> QED BY <1>2, <1>3, <2>1
<1>4. CASE m # 0
  <2>1. m - 1 \in Nat /\ ~(m <= m - 1)
    BY <1>2, <1>4
  <2>2. PICK g : FirstFlat(g, ss, m - 1)
    BY <1>1, <2>1
  <2> DEFINE flat == [j \in 1 .. m |-> IF j < m THEN g[j]
                                    ELSE IF j = 1 THEN ss[j] ELSE g[j - 1] \o ss[j]]
  <2>3. ASSUME NEW j \in 1 .. m
        PROVE  flat[j] = IF j = 1 THEN ss[j] ELSE flat[j - 1] \o ss[j]
    <3>1. j # 1 => j - 1 \in 1 .. m /\ j - 1 < m /\ flat[j - 1] = g[j - 1]
      BY <1>2
    <3>2. CASE j < m
      <4>1. j \in 1 .. m - 1
        BY <1>2, <3>2
      <4>2. g[j] = IF j = 1 THEN ss[j] ELSE g[j - 1] \o ss[j]
        BY <2>2, <4>1 DEF FirstFlat
      <4> QED BY <3>1, <3>2, <4>2
    <3>3. CASE ~(j < m)
      BY <3>1, <3>3
    <3> QED BY <3>2, <3>3
  <2>4. FirstFlat(flat, ss, m)
    <3>1. flat = [j \in 1 .. m |-> flat[j]]
      OBVIOUS
    <3> HIDE DEF flat
    <3> QED BY <2>3, <3>1 DEF FirstFlat
  <2> QED BY <1>2, <2>4
<1> QED BY <1>3, <1>4

(* It depends only on the sequences so far.                                *)
LEMMA PrefixesAgree ==
  ASSUME NEW ss, NEW tt, NEW flat, NEW g, NEW count \in Nat, NEW m \in Nat, count <= m,
         FirstFlat(flat, ss, count), FirstFlat(g, tt, m),
         \A j \in 1 .. count : ss[j] = tt[j] /\ ss[j] \in Lines
  PROVE  \A j \in 1 .. count : flat[j] = g[j] /\ flat[j] \in Lines
PROOF
<1> DEFINE Bad == {j \in 1 .. count : ~(flat[j] = g[j] /\ flat[j] \in Lines)}
<1> SUFFICES ASSUME Bad # {} PROVE FALSE
  OBVIOUS
<1>1. Bad \in SUBSET Nat
  OBVIOUS
<1>2. PICK j \in Bad : \A k \in Bad : j <= k
  BY <1>1, LeastNat
<1>3. j \in 1 .. count /\ j \in 1 .. m /\ ~(flat[j] = g[j] /\ flat[j] \in Lines)
  OBVIOUS
<1>4. /\ flat[j] = IF j = 1 THEN ss[j] ELSE flat[j - 1] \o ss[j]
      /\ g[j] = IF j = 1 THEN tt[j] ELSE g[j - 1] \o tt[j]
  BY <1>3 DEF FirstFlat
<1>5. CASE j = 1
  BY <1>3, <1>4, <1>5
<1>6. CASE j # 1
  <2>1. j - 1 \in 1 .. count /\ ~(j <= j - 1)
    BY <1>3, <1>6
  <2>2. flat[j - 1] = g[j - 1] /\ flat[j - 1] \in Lines
    BY <1>2, <2>1
  <2>3. flat[j] = g[j]
    BY <1>3, <1>4, <1>6, <2>2
  <2>4. flat[j - 1] \o ss[j] \in Lines
    BY <1>3, <2>2 DEF Lines
  <2> QED BY <1>3, <1>4, <1>6, <2>3, <2>4
<1> QED BY <1>5, <1>6

(* FlattenSeq is the last of them.                                         *)
LEMMA FlattenDef ==
  ASSUME NEW ss \in Seq(Lines), Len(ss) # 0
  PROVE  \E flat : FirstFlat(flat, ss, Len(ss)) /\ FlattenSeq(ss) = flat[Len(ss)]
PROOF
<1> DEFINE flat == CHOOSE h : FirstFlat(h, ss, Len(ss))
<1>1. Len(ss) \in Nat
  OBVIOUS
<1>2. FirstFlat(flat, ss, Len(ss))
  BY <1>1, PrefixesExist
<1>3. FlattenSeq(ss) = flat[Len(ss)]
  BY DEF FlattenSeq, FirstFlat
<1> QED BY <1>2, <1>3

(* One more sequence is appended to what the others make.                  *)
LEMMA FlattenAppend ==
  ASSUME NEW ss \in Seq(Lines), NEW s \in Lines
  PROVE  /\ FlattenSeq(ss) \in Lines
         /\ FlattenSeq(Append(ss, s)) = FlattenSeq(ss) \o s
PROOF
<1> DEFINE tt == Append(ss, s)  count == Len(ss)
<1>1. /\ count \in Nat /\ tt \in Seq(Lines) /\ Len(tt) = count + 1
      /\ \A j \in 1 .. count : tt[j] = ss[j] /\ ss[j] \in Lines
      /\ tt[count + 1] = s
  OBVIOUS
<1> HIDE DEF tt, count
<1>2. PICK g : FirstFlat(g, tt, count + 1) /\ FlattenSeq(tt) = g[count + 1]
  <2>1. Len(tt) # 0
    BY <1>1
  <2> QED BY <1>1, <2>1, FlattenDef
<1>3. g[count + 1] = IF count + 1 = 1 THEN tt[count + 1] ELSE g[count + 1 - 1] \o tt[count + 1]
  <2>1. \A m \in Nat : FirstFlat(g, tt, m) =>
          \A j \in 1 .. m : g[j] = IF j = 1 THEN tt[j] ELSE g[j - 1] \o tt[j]
    BY DEF FirstFlat
  <2>2. count + 1 \in Nat /\ count + 1 \in 1 .. count + 1
    BY <1>1
  <2>3. \A j \in 1 .. count + 1 : g[j] = IF j = 1 THEN tt[j] ELSE g[j - 1] \o tt[j]
    BY <1>2, <2>1, <2>2
  <2> QED BY <1>1, <2>2, <2>3
<1>4. CASE count = 0
  <2>1. ss = <<>> /\ FlattenSeq(ss) = ss
    BY <1>4 DEF FlattenSeq, count
  <2>2. FlattenSeq(tt) = s
    BY <1>1, <1>2, <1>3, <1>4
  <2>3. <<>> \o s = s /\ <<>> \in Lines
    BY DEF Lines
  <2> QED BY <2>1, <2>2, <2>3 DEF tt
<1>5. CASE count # 0
  <2>1. PICK flat : FirstFlat(flat, ss, count) /\ FlattenSeq(ss) = flat[count]
    BY <1>5, FlattenDef DEF count
  <2>2. \A j \in 1 .. count : flat[j] = g[j] /\ flat[j] \in Lines
    <3>1. count + 1 \in Nat /\ count <= count + 1
      BY <1>1
    <3>2. \A j \in 1 .. count : ss[j] = tt[j] /\ ss[j] \in Lines
      BY <1>1
    <3> QED BY <1>1, <1>2, <2>1, <3>1, <3>2, PrefixesAgree
  <2>3. count \in 1 .. count /\ count + 1 # 1 /\ count + 1 - 1 = count
    BY <1>1, <1>5
  <2>4. flat[count] \in Lines /\ g[count + 1] = flat[count] \o s
    BY <1>1, <1>3, <2>2, <2>3
  <2> QED BY <1>2, <2>1, <2>4 DEF tt
<1> QED BY <1>4, <1>5

-----------------------------------------------------------------------------
(* What histories of characters stand for.                                 *)

BytesOf(s, count) == [k \in 1 .. count |-> Byte(s[k])]
DisplayOf(s, count) == [k \in 1 .. count |-> Displayed(s[k])]
ExpansionOf(s) == [k \in DOMAIN s |-> Expanded(s[k])]
SpacesOf(count) == [k \in 1 .. count |-> Blank]

(* A character's byte is a number, and what it expands to and is shown as  *)
(* are lines.                                                              *)
LEMMA Characters ==
  ASSUME NEW c \in Int
  PROVE  /\ Byte(c) \in Int /\ Displayed(c) \in Lines /\ Expanded(c) \in Lines
         /\ Expanded(c) = <<c>> \o SpacesOf(IF Byte(c) = Tab THEN 5 ELSE 0)
PROOF
<1>1. Byte(c) \in Int
  BY DEF Byte
<1>2. <<>> \in Lines /\ <<c>> \in Lines
  BY DEF Lines
<1>3. \A m \in Nat : SpacesOf(m) \in Lines
  BY DEF SpacesOf, Lines, Blank
<1>4. <<c>> \o SpacesOf(5) \in Lines
  <2>1. SpacesOf(5) \in Lines
    BY <1>3
  <2> QED BY <1>2, <2>1 DEF Lines
<1>5. <<c>> \o SpacesOf(0) = <<c>>
  BY DEF SpacesOf
<1> QED BY <1>1, <1>2, <1>4, <1>5 DEF Displayed, Expanded, SpacesOf

(* A character more does not change what those before it stand for.        *)
LEMMA SameBefore ==
  ASSUME NEW s \in Lines, NEW c \in Int, NEW count \in 0 .. Len(s)
  PROVE  /\ BytesOf(Append(s, c), count) = BytesOf(s, count)
         /\ DisplayOf(Append(s, c), count) = DisplayOf(s, count)
PROOF
<1>1. \A k \in 1 .. count : Append(s, c)[k] = s[k]
  BY DEF Lines
<1> QED BY <1>1 DEF BytesOf, DisplayOf

(* The character itself adds what it stands for.                           *)
LEMMA OneMore ==
  ASSUME NEW s \in Lines, NEW count \in 0 .. Len(s) - 1
  PROVE  /\ BytesOf(s, count) \in Lines
         /\ BytesOf(s, count + 1) = BytesOf(s, count) \o <<Byte(s[count + 1])>>
         /\ FlattenSeq(DisplayOf(s, count)) \in Lines
         /\ FlattenSeq(DisplayOf(s, count + 1))
              = FlattenSeq(DisplayOf(s, count)) \o Displayed(s[count + 1])
PROOF
<1>1. count \in Nat /\ count + 1 \in 1 .. Len(s) /\ \A k \in 1 .. count + 1 : s[k] \in Int
  BY DEF Lines
<1>2. \A k \in 1 .. count + 1 : Byte(s[k]) \in Int /\ Displayed(s[k]) \in Lines
  BY <1>1, Characters
<1>3. BytesOf(s, count) \in Lines
  BY <1>1, <1>2 DEF BytesOf, Lines
<1>4. BytesOf(s, count + 1) = BytesOf(s, count) \o <<Byte(s[count + 1])>>
  BY <1>1, <1>2, <1>3 DEF BytesOf, Lines
<1>5. DisplayOf(s, count) \in Seq(Lines)
  BY <1>1, <1>2 DEF DisplayOf
<1>6. DisplayOf(s, count + 1) = Append(DisplayOf(s, count), Displayed(s[count + 1]))
  BY <1>1, <1>2, <1>5 DEF DisplayOf
<1>7. Displayed(s[count + 1]) \in Lines
  BY <1>1, <1>2
<1> QED BY <1>3, <1>4, <1>5, <1>6, <1>7, FlattenAppend

(* A character more adds what it is expanded to.                            *)
LEMMA OneMoreAsked ==
  ASSUME NEW s \in Lines, NEW c \in Int
  PROVE  /\ FlattenSeq(ExpansionOf(s)) \in Lines
         /\ FlattenSeq(ExpansionOf(Append(s, c)))
              = FlattenSeq(ExpansionOf(s)) \o Expanded(c)
PROOF
<1>1. \A k \in 1 .. Len(s) : s[k] \in Int /\ Append(s, c)[k] = s[k]
  BY DEF Lines
<1>2. /\ DOMAIN s = 1 .. Len(s) /\ Len(s) \in Nat
      /\ DOMAIN Append(s, c) = 1 .. Len(s) + 1 /\ Append(s, c)[Len(s) + 1] = c
  BY DEF Lines
<1>3. \A k \in 1 .. Len(s) : Expanded(s[k]) \in Lines
  BY <1>1, Characters
<1>4. ExpansionOf(s) \in Seq(Lines) /\ Len(ExpansionOf(s)) = Len(s)
  BY <1>2, <1>3 DEF ExpansionOf
<1>5. Expanded(c) \in Lines
  BY Characters
<1>6. ExpansionOf(Append(s, c)) = Append(ExpansionOf(s), Expanded(c))
  BY <1>1, <1>2, <1>3, <1>4, <1>5 DEF ExpansionOf
<1> QED BY <1>4, <1>5, <1>6, FlattenAppend

-----------------------------------------------------------------------------
(* The invariant.                                                          *)

OutTypeOK ==
  /\ at \in {"idle", "serial", "lpt", "cga"}
  /\ char \in Int /\ i \in Nat /\ tab \in 0 .. 5
  /\ held \in [Ports -> Lines] /\ sent \in [Ports -> Lines]
  /\ put \in Lines /\ asked \in Lines /\ shown \in Lines

(* cons_putc works on the last character it was called with; a tab is done *)
(* when cputchar is.                                                       *)
CharOK ==
  /\ at # "idle" => Len(put) > 0 /\ char = put[Len(put)]
  /\ at = "idle" => tab = 0

PortsOK ==
  \A d \in Ports : d \notin gaveUp => sent[d] \o held[d] = BytesOf(put, Written(d))

ScreenOK == shown = FlattenSeq(DisplayOf(put, Done))

(* The spaces that are still to come complete what was asked for.          *)
ToCome == IF at # "idle" /\ Byte(char) = Tab THEN 5 ELSE tab

TabsOK == put \o SpacesOf(ToCome) = FlattenSeq(ExpansionOf(asked))

OutInv == OutTypeOK /\ CharOK /\ PortsOK /\ ScreenOK /\ TabsOK

(* How many characters have been put, shown and written.                   *)
LEMMA Numbers ==
  ASSUME OutTypeOK, CharOK
  PROVE  /\ Len(put) \in Nat /\ Done \in 0 .. Len(put)
         /\ at # "idle" => Len(put) = Done + 1 /\ Done \in 0 .. Len(put) - 1
         /\ \A d \in Ports : Written(d) \in 0 .. Len(put)
PROOF
<1>1. Len(put) \in Nat
  BY DEF OutTypeOK, Lines
<1> QED BY <1>1 DEF CharOK, Done, Written, OutTypeOK

(* Appending a character to put, at cputchar or for a tab.                 *)
LEMMA PutOne ==
  ASSUME OutTypeOK, CharOK, PortsOK, NEW c \in Int, at \in {"idle", "cga"},
         CallConsPutc(c), UNCHANGED <<held, sent, gaveUp>>
  PROVE  /\ put' \in Lines /\ Len(put') = Len(put) + 1 /\ put'[Len(put')] = c
         /\ char' = put'[Len(put')] /\ at' = "serial"
         /\ PortsOK'
         /\ Done' = Len(put)
         /\ DisplayOf(put', Done') = DisplayOf(put, Len(put))
PROOF
<1>1. put' = Append(put, c) /\ at' = "serial" /\ char' = c
  BY DEF CallConsPutc
<1>2. put \in Lines /\ Len(put) \in Nat
  BY DEF OutTypeOK, Lines
<1>3. put' \in Lines /\ Len(put') = Len(put) + 1 /\ put'[Len(put')] = c
  BY <1>1, <1>2 DEF Lines
<1>4. Done' = Len(put)
  BY <1>1, <1>2, <1>3 DEF Done
<1>5. Len(put) \in 0 .. Len(put)
  BY <1>2
<1>6. /\ BytesOf(put', Len(put)) = BytesOf(put, Len(put))
      /\ DisplayOf(put', Len(put)) = DisplayOf(put, Len(put))
  BY <1>1, <1>2, <1>5, SameBefore
<1>7. PortsOK'
  <2> SUFFICES ASSUME NEW d \in Ports, d \notin gaveUp
               PROVE  sent[d] \o held[d] = BytesOf(put', Written(d)')
    BY DEF PortsOK
  <2>1. Written(d)' = Len(put) /\ Written(d) = Len(put)
    BY <1>1, <1>2, <1>3 DEF Written, Ports
  <2> QED BY <1>6, <2>1 DEF PortsOK
<1> QED BY <1>1, <1>3, <1>4, <1>6, <1>7

(* Concatenating lines.                                                    *)
LEMMA LineFacts ==
  ASSUME NEW r \in Lines, NEW s \in Lines
  PROVE  r \o s \in Lines /\ r \o <<>> = r /\ <<>> \in Lines
  BY DEF Lines

(* Where the parentheses are does not matter.                              *)
LEMMA Associative ==
  ASSUME NEW r \in Lines, NEW s \in Lines, NEW t \in Lines
  PROVE  (r \o s) \o t = r \o (s \o t)
  BY DEF Lines

(* Spaces one by one.                                                      *)
LEMMA BlankFacts ==
  ASSUME NEW count \in Nat
  PROVE  /\ SpacesOf(count) \in Lines /\ SpacesOf(0) = <<>>
         /\ count > 0 => SpacesOf(count) = <<Blank>> \o SpacesOf(count - 1)
  BY DEF SpacesOf, Lines, Blank

(* A line with a character more.                                           *)
LEMMA AppendFacts ==
  ASSUME NEW s \in Lines, NEW c \in Int
  PROVE  Append(s, c) = s \o <<c>> /\ Append(s, c) \in Lines /\ <<c>> \in Lines
  BY DEF Lines

(* A call of cputchar: a tab promises five spaces.                         *)
LEMMA StepCputchar ==
  ASSUME OutInv, NEW c \in Int, cputchar(c)
  PROVE  OutInv'
PROOF
<1> USE DEF OutInv
<1>1. /\ at = "idle" /\ CallConsPutc(c) /\ asked' = Append(asked, c)
      /\ UNCHANGED <<i, held, sent, gaveUp, tab, shown>>
  BY DEF cputchar
<1>2. /\ put' \in Lines /\ Len(put') = Len(put) + 1 /\ put'[Len(put')] = c
      /\ char' = put'[Len(put')] /\ at' = "serial"
      /\ PortsOK'
      /\ Done' = Len(put)
      /\ DisplayOf(put', Done') = DisplayOf(put, Len(put))
  BY <1>1, PutOne
<1>3. /\ put \in Lines /\ asked \in Lines /\ Len(put) \in Nat /\ tab = 0
      /\ put' = Append(put, c) /\ char' = c
  BY <1>1 DEF OutTypeOK, CharOK, Lines, CallConsPutc
<1>4. OutTypeOK' /\ CharOK'
  <2>1. asked' \in Lines
    BY <1>1, <1>3, AppendFacts
  <2>2. OutTypeOK'
    BY <1>1, <1>2, <1>3, <2>1 DEF OutTypeOK
  <2>3. Len(put') > 0
    BY <1>2, <1>3
  <2>4. CharOK'
    BY <1>1, <1>2, <1>3, <2>3 DEF CharOK
  <2> QED BY <2>2, <2>4
<1>5. ScreenOK'
  <2>1. Done = Len(put)
    BY <1>1, <1>3 DEF Done
  <2> QED BY <1>1, <1>2, <2>1 DEF ScreenOK
<1>6. TabsOK'
  <2> DEFINE m == IF Byte(c) = Tab THEN 5 ELSE 0
  <2>1. ToCome' = m /\ ToCome = 0
    BY <1>1, <1>2, <1>3 DEF ToCome, Byte, Tab
  <2>2. m \in Nat /\ Expanded(c) = <<c>> \o SpacesOf(m)
    BY Characters
  <2> HIDE DEF m
  <2>3. put = FlattenSeq(ExpansionOf(asked))
    <3>1. put \o SpacesOf(0) = put
      BY <1>3, BlankFacts, LineFacts
    <3> QED BY <2>1, <3>1 DEF TabsOK
  <2>4. FlattenSeq(ExpansionOf(asked')) = put \o (<<c>> \o SpacesOf(m))
    BY <1>1, <1>3, <2>2, <2>3, OneMoreAsked
  <2>5. put' \o SpacesOf(m) = (put \o <<c>>) \o SpacesOf(m)
    BY <1>3, AppendFacts
  <2>6. (put \o <<c>>) \o SpacesOf(m) = put \o (<<c>> \o SpacesOf(m))
    <3>1. <<c>> \in Lines /\ SpacesOf(m) \in Lines
      BY <2>2, AppendFacts, BlankFacts
    <3> QED BY <1>3, <3>1, Associative
  <2> QED BY <2>1, <2>4, <2>5, <2>6 DEF TabsOK
<1> QED BY <1>2, <1>4, <1>5, <1>6

(* The screen: the character is shown, and a promised space is put.        *)
LEMMA StepCga ==
  ASSUME OutInv, cga_putc
  PROVE  OutInv'
PROOF
<1> USE DEF OutInv
<1> DEFINE spaces == IF Byte(char) = Tab THEN 5 ELSE tab
<1>1. /\ at = "cga" /\ UNCHANGED <<i, held, sent, gaveUp, asked>>
      /\ shown' = IF Byte(char) = Tab THEN shown ELSE Append(shown, char)
  BY DEF cga_putc
<1>2. /\ put \in Lines /\ asked \in Lines /\ shown \in Lines /\ char \in Int
      /\ spaces \in 0 .. 5
  BY DEF OutTypeOK
<1>3. /\ Len(put) = Done + 1 /\ Done \in 0 .. Len(put) - 1 /\ char = put[Done + 1]
      /\ Len(put) \in Nat
  BY <1>1, Numbers DEF CharOK
<1>4. /\ shown' = shown \o Displayed(char) /\ shown' \in Lines
  <2>1. Displayed(char) = IF Byte(char) = Tab THEN <<>> ELSE <<char>>
    BY DEF Displayed
  <2>2. CASE Byte(char) = Tab
    BY <1>1, <1>2, <2>1, <2>2, LineFacts
  <2>3. CASE Byte(char) # Tab
    BY <1>1, <1>2, <2>1, <2>3, AppendFacts
  <2> QED BY <2>2, <2>3
<1>5. shown' = FlattenSeq(DisplayOf(put, Len(put)))
  <2> DEFINE count == Done
  <2>1. count \in 0 .. Len(put) - 1 /\ Len(put) = count + 1 /\ char = put[count + 1]
    BY <1>3
  <2>2. shown = FlattenSeq(DisplayOf(put, count))
    BY DEF ScreenOK
  <2> HIDE DEF count
  <2>3. FlattenSeq(DisplayOf(put, count + 1))
          = FlattenSeq(DisplayOf(put, count)) \o Displayed(put[count + 1])
    BY <1>2, <2>1, OneMore
  <2> QED BY <1>4, <2>1, <2>2, <2>3
<1>6. ToCome = spaces
  BY <1>1 DEF ToCome
<1>7. put \o SpacesOf(spaces) = FlattenSeq(ExpansionOf(asked))
  BY <1>6 DEF TabsOK
<1>8. CASE spaces > 0
  <2>1. CallConsPutc(Blank) /\ tab' = spaces - 1
    BY <1>8 DEF cga_putc
  <2>2. Blank \in Int /\ Byte(Blank) # Tab
    BY DEF Blank, Byte, Tab
  <2>3. /\ put' \in Lines /\ Len(put') = Len(put) + 1 /\ put'[Len(put')] = Blank
        /\ char' = put'[Len(put')] /\ at' = "serial"
        /\ PortsOK'
        /\ Done' = Len(put)
        /\ DisplayOf(put', Done') = DisplayOf(put, Len(put))
    BY <1>1, <2>1, <2>2, PutOne
  <2>4. OutTypeOK' /\ CharOK'
    <3>1. spaces - 1 \in 0 .. 5
      BY <1>2, <1>8
    <3> QED BY <1>1, <1>2, <1>3, <1>4, <2>1, <2>2, <2>3, <3>1 DEF OutTypeOK, CharOK
  <2>5. ScreenOK'
    BY <1>5, <2>3 DEF ScreenOK
  <2>6. TabsOK'
    <3> DEFINE count == spaces
    <3>1. count \in Nat /\ count > 0 /\ count - 1 \in Nat
      BY <1>2, <1>8
    <3>2. ToCome' = count - 1
      BY <2>1, <2>2, <2>3 DEF ToCome, Byte, Tab
    <3>3. put' = put \o <<Blank>>
      BY <1>2, <2>1, <2>2, AppendFacts DEF CallConsPutc
    <3> HIDE DEF count
    <3>4. /\ SpacesOf(count) = <<Blank>> \o SpacesOf(count - 1)
          /\ SpacesOf(count - 1) \in Lines /\ <<Blank>> \in Lines
      BY <1>2, <2>2, <3>1, BlankFacts, AppendFacts
    <3>5. put' \o SpacesOf(count - 1) = put \o SpacesOf(count)
      <4>1. (put \o <<Blank>>) \o SpacesOf(count - 1) = put \o (<<Blank>> \o SpacesOf(count - 1))
        BY <1>2, <3>4, Associative
      <4> QED BY <3>3, <3>4, <4>1
    <3>6. put \o SpacesOf(count) = FlattenSeq(ExpansionOf(asked))
      BY <1>7 DEF count
    <3> QED BY <1>1, <3>2, <3>5, <3>6 DEF TabsOK
  <2> QED BY <2>3, <2>4, <2>5, <2>6
<1>9. CASE ~(spaces > 0)
  <2>1. at' = "idle" /\ UNCHANGED <<char, put, tab>>
    BY <1>9 DEF cga_putc
  <2>2. spaces = 0 /\ tab = 0
    BY <1>2, <1>9
  <2>3. OutTypeOK' /\ CharOK'
    BY <1>1, <1>4, <2>1, <2>2 DEF OutTypeOK, CharOK
  <2>4. Done' = Len(put)
    BY <1>3, <2>1 DEF Done
  <2>5. ScreenOK'
    BY <1>5, <2>1, <2>4 DEF ScreenOK
  <2>6. PortsOK'
    <3>1. \A d \in Ports : Written(d)' = Written(d)
      BY <1>1, <2>1 DEF Written
    <3> QED BY <1>1, <2>1, <3>1 DEF PortsOK
  <2>7. TabsOK'
    <3>1. ToCome' = 0
      BY <2>1, <2>2 DEF ToCome
    <3> QED BY <1>1, <1>7, <2>1, <2>2, <3>1 DEF TabsOK
  <2> QED BY <2>3, <2>5, <2>6, <2>7
<1> QED BY <1>8, <1>9

(* A port that is ready gets the byte; one that is not has given up.       *)
LEMMA StepWrite ==
  ASSUME OutInv, NEW d \in Ports, NEW goesTo,
         \/ d = "serial" /\ goesTo = "lpt"
         \/ d = "lpt" /\ goesTo = "cga",
         Write(d, goesTo)
  PROVE  OutInv'
PROOF
<1> USE DEF OutInv
<1>1. /\ at = d /\ at' = goesTo /\ i' = 0
      /\ held' = [held EXCEPT ![d] = <<Byte(char)>>]
      /\ gaveUp' = IF Ready(d) THEN gaveUp ELSE gaveUp \cup {d}
      /\ UNCHANGED <<char, sent, tab, history>>
  BY DEF Write
<1>2. /\ put' = put /\ asked' = asked /\ shown' = shown
      /\ char' = char /\ sent' = sent /\ tab' = tab
  BY <1>1 DEF history
<1>3. /\ Len(put) = Done + 1 /\ Done \in 0 .. Len(put) - 1 /\ char = put[Done + 1]
      /\ Len(put) \in Nat /\ put \in Lines /\ Byte(char) \in Int
  BY <1>1, Numbers, Characters DEF CharOK, OutTypeOK
<1>4. OutTypeOK' /\ CharOK'
  <2>1. <<Byte(char)>> \in Lines
    BY <1>3 DEF Lines
  <2> QED BY <1>1, <1>2, <2>1 DEF OutTypeOK, CharOK
<1>5. ScreenOK' /\ TabsOK'
  <2>1. Done' = Done /\ ToCome' = ToCome
    BY <1>1, <1>2 DEF Done, ToCome
  <2> QED BY <1>2, <2>1 DEF ScreenOK, TabsOK
<1>6. PortsOK'
  <2> SUFFICES ASSUME NEW e \in Ports, e \notin gaveUp'
               PROVE  sent[e] \o held'[e] = BytesOf(put, Written(e)')
    BY <1>2 DEF PortsOK
  <2>1. e \notin gaveUp /\ sent[e] \o held[e] = BytesOf(put, Written(e))
    BY <1>1 DEF PortsOK
  <2>2. CASE e = d
    <3>1. held[d] = <<>>
      BY <1>1, <2>2 DEF Ready
    <3>2. Written(d) = Done /\ Written(d)' = Done + 1
      BY <1>1, <1>2, <1>3 DEF Written, Done, Ports
    <3>3. sent[d] \in Lines /\ held'[d] = <<Byte(char)>>
      BY <1>1 DEF OutTypeOK
    <3>4. sent[d] = BytesOf(put, Done)
      <4>1. sent[d] \o <<>> = sent[d]
        BY <3>3, LineFacts
      <4> QED BY <2>1, <2>2, <3>1, <3>2, <4>1
    <3>5. BytesOf(put, Done + 1) = BytesOf(put, Done) \o <<Byte(char)>>
      BY <1>3, OneMore
    <3> QED BY <2>2, <3>2, <3>3, <3>4, <3>5
  <2>3. CASE e # d
    <3>1. Written(e)' = Written(e)
      BY <1>1, <1>2, <2>3 DEF Written, Ports
    <3>2. held'[e] = held[e]
      BY <1>1, <2>3 DEF OutTypeOK
    <3> QED BY <2>1, <3>1, <3>2
  <2> QED BY <2>2, <2>3
<1> QED BY <1>4, <1>5, <1>6

(* A device sends what it holds.                                           *)
LEMMA StepTransmit ==
  ASSUME OutInv, NEW d \in Ports, Transmit(d)
  PROVE  OutInv'
PROOF
<1> USE DEF OutInv
<1>1. /\ sent' = [sent EXCEPT ![d] = sent[d] \o held[d]]
      /\ held' = [held EXCEPT ![d] = <<>>]
      /\ UNCHANGED <<at, char, i, gaveUp, tab, history>>
  BY DEF Transmit
<1>2. put' = put /\ asked' = asked /\ shown' = shown
  BY <1>1 DEF history
<1>3. held \in [Ports -> Lines] /\ sent \in [Ports -> Lines]
  BY DEF OutTypeOK
<1>4. /\ <<>> \in Lines /\ sent[d] \o held[d] \in Lines
      /\ (sent[d] \o held[d]) \o <<>> = sent[d] \o held[d]
  <2>1. sent[d] \in Lines /\ held[d] \in Lines
    BY <1>3
  <2>2. sent[d] \o held[d] \in Lines /\ <<>> \in Lines
    BY <2>1, LineFacts
  <2> QED BY <2>2, LineFacts
<1>5. OutTypeOK' /\ CharOK' /\ ScreenOK' /\ TabsOK'
  <2>1. Done' = Done /\ ToCome' = ToCome
    BY <1>1, <1>2 DEF Done, ToCome
  <2> QED BY <1>1, <1>2, <1>3, <1>4, <2>1 DEF OutTypeOK, CharOK, ScreenOK, TabsOK
<1>6. PortsOK'
  <2> SUFFICES ASSUME NEW e \in Ports, e \notin gaveUp
               PROVE  sent'[e] \o held'[e] = BytesOf(put, Written(e)')
    BY <1>1, <1>2 DEF PortsOK
  <2>1. Written(e)' = Written(e)
    BY <1>1, <1>2 DEF Written
  <2>2. sent'[e] \o held'[e] = sent[e] \o held[e]
    BY <1>1, <1>3, <1>4
  <2> QED BY <2>1, <2>2 DEF PortsOK
<1> QED BY <1>5, <1>6

(* A turn of a wait, and a step that changes nothing.                      *)
LEMMA StepOther ==
  ASSUME OutInv, UNCHANGED <<at, char, held, sent, gaveUp, tab, history>>,
         i' \in Nat
  PROVE  OutInv'
PROOF
<1>1. put' = put /\ asked' = asked /\ shown' = shown
  BY DEF history
<1>2. Done' = Done /\ ToCome' = ToCome /\ \A d \in Ports : Written(d)' = Written(d)
  BY <1>1 DEF Done, ToCome, Written
<1> QED BY <1>1, <1>2 DEF OutInv, OutTypeOK, CharOK, PortsOK, ScreenOK, TabsOK

(* Every character reaches the ports and the screen as OutputDelivered     *)
(* says, whatever cputchar is called with, however long the waits are and  *)
(* however slowly the devices answer (console.c:65-76, 111-121, 431-438).  *)
THEOREM OutputCorrect == OutSpec => []OutputDelivered
PROOF
<1>1. OutInit => OutInv
  <2> SUFFICES ASSUME OutInit PROVE OutInv
    OBVIOUS
  <2> USE DEF OutInit
  <2>1. <<>> \in Lines /\ Len(<<>>) = 0 /\ DOMAIN <<>> = 1 .. 0
    BY DEF Lines
  <2>2. OutTypeOK /\ CharOK
    BY <2>1 DEF OutTypeOK, CharOK
  <2>3. PortsOK
    BY <2>1 DEF PortsOK, BytesOf, Written
  <2>4. FlattenSeq(<<>>) = <<>>
    BY DEF FlattenSeq
  <2>5. ScreenOK
    <3>1. DisplayOf(put, Done) = <<>>
      BY <2>1 DEF DisplayOf, Done
    <3> QED BY <2>4, <3>1 DEF ScreenOK
  <2>6. TabsOK
    <3>1. ExpansionOf(asked) = <<>> /\ ToCome = 0
      BY <2>1 DEF ExpansionOf, ToCome
    <3>2. put \o SpacesOf(0) = <<>>
      BY <2>1, BlankFacts, LineFacts
    <3> QED BY <2>4, <3>1, <3>2 DEF TabsOK
  <2> QED BY <2>2, <2>3, <2>5, <2>6 DEF OutInv
<1>2. OutInv /\ [OutNext]_outVars => OutInv'
  <2> SUFFICES ASSUME OutInv, [OutNext]_outVars PROVE OutInv'
    OBVIOUS
  <2>1. i \in Nat
    BY DEF OutInv, OutTypeOK
  <2>2. CASE \E c \in Int : cputchar(c)
    BY <2>2, StepCputchar
  <2>3. CASE \E d \in Ports : Wait(d)
    <3>1. UNCHANGED <<at, char, held, sent, gaveUp, tab, history>> /\ i' = i + 1
      BY <2>3 DEF Wait
    <3>2. i' \in Nat
      BY <2>1, <3>1
    <3> QED BY <3>1, <3>2, StepOther
  <2>4. CASE Write("serial", "lpt")
    BY <2>4, StepWrite DEF Ports
  <2>5. CASE Write("lpt", "cga")
    BY <2>5, StepWrite DEF Ports
  <2>6. CASE cga_putc
    BY <2>6, StepCga
  <2>7. CASE Devices
    BY <2>7, StepTransmit DEF Devices
  <2>8. CASE UNCHANGED outVars
    BY <2>1, <2>8, StepOther DEF outVars
  <2> QED BY <2>2, <2>3, <2>4, <2>5, <2>6, <2>7, <2>8
             DEF OutNext, cons_putc, serial_putc, lpt_putc, Ports
<1>3. OutInv => OutputDelivered
  <2> SUFFICES ASSUME OutInv PROVE OutputDelivered
    OBVIOUS
  <2>1. \A d \in Ports \ gaveUp :
          sent[d] \o held[d] = [k \in 1 .. Written(d) |-> Byte(put[k])]
    BY DEF OutInv, PortsOK, BytesOf
  <2>2. shown = FlattenSeq([k \in 1 .. Done |-> Displayed(put[k])])
    BY DEF OutInv, ScreenOK, DisplayOf
  <2>3. ASSUME at = "idle"
        PROVE  put = FlattenSeq([k \in DOMAIN asked |-> Expanded(asked[k])])
    <3>1. ToCome = 0 /\ put \in Lines
      BY <2>3 DEF OutInv, CharOK, ToCome, OutTypeOK
    <3>2. put \o SpacesOf(0) = put
      BY <3>1, BlankFacts, LineFacts
    <3> QED BY <3>1, <3>2 DEF OutInv, TabsOK, ExpansionOf
  <2> QED BY <2>1, <2>2, <2>3 DEF OutputDelivered
<1> QED BY <1>1, <1>2, <1>3, PTL DEF OutSpec
-----------------------------------------------------------------------------
(* Printing.  First numerals: that printnum's recursion on quotients gives *)
(* the digits that the powers of the base stand for, and that reading the  *)
(* digits of a width gives the width.                                      *)

(* The recursive function that powers are defined by.                      *)
Powers(g, base, m) ==
  g = [k \in 0 .. m |-> IF k = 0 THEN 1 ELSE base * g[k - 1]]

(* It exists.                                                              *)
LEMMA PowersExist ==
  ASSUME NEW base, NEW m \in Nat
  PROVE  \E g : Powers(g, base, m)
PROOF
<1> DEFINE Without == {l \in Nat : ~ \E g : Powers(g, base, l)}
<1> SUFFICES ASSUME Without # {} PROVE FALSE
  OBVIOUS
<1>1. PICK l \in Without : \A x \in Without : l <= x
  BY LeastNat
<1>2. l \in Nat /\ ~ \E g : Powers(g, base, l)
  OBVIOUS
<1>3. CASE l = 0
  <2> DEFINE g == [k \in 0 .. l |-> 1]
  <2>1. \A k \in 0 .. l : k = 0
    BY <1>3
  <2>2. Powers(g, base, l)
    BY <2>1 DEF Powers
  <2> HIDE DEF g
  <2> QED BY <1>2, <2>2
<1>4. CASE l # 0
  <2>1. l - 1 \in Nat /\ ~(l <= l - 1)
    BY <1>2, <1>4
  <2>2. PICK h : Powers(h, base, l - 1)
    BY <1>1, <2>1
  <2> DEFINE g == [k \in 0 .. l |-> IF k < l THEN h[k] ELSE base * h[k - 1]]
  <2>3. ASSUME NEW k \in 0 .. l
        PROVE  g[k] = IF k = 0 THEN 1 ELSE base * g[k - 1]
    <3>1. k # 0 => k - 1 \in 0 .. l /\ k - 1 < l /\ g[k - 1] = h[k - 1]
      BY <1>2
    <3>2. CASE k < l
      <4>1. k \in 0 .. l - 1
        BY <1>2, <3>2
      <4>2. h[k] = IF k = 0 THEN 1 ELSE base * h[k - 1]
        BY <2>2, <4>1 DEF Powers
      <4> QED BY <3>1, <3>2, <4>2
    <3>3. CASE ~(k < l)
      <4>1. k # 0
        BY <1>2, <1>4, <3>3
      <4>2. g[k] = base * h[k - 1]
        BY <3>3
      <4> QED BY <3>1, <4>1, <4>2
    <3> QED BY <3>2, <3>3
  <2>4. Powers(g, base, l)
    <3>1. g = [k \in 0 .. l |-> g[k]]
      OBVIOUS
    <3> HIDE DEF g
    <3> QED BY <2>3, <3>1 DEF Powers
  <2> HIDE DEF g
  <2> QED BY <1>2, <2>4
<1> QED BY <1>3, <1>4

(* It is the only one, and its values are positive.                        *)
LEMMA PowersAgree ==
  ASSUME NEW base \in Nat \ {0}, NEW l \in Nat, NEW m \in Nat, l <= m,
         NEW g, NEW h, Powers(g, base, l), Powers(h, base, m)
  PROVE  \A k \in 0 .. l : g[k] = h[k] /\ g[k] \in Nat \ {0}
PROOF
<1> DEFINE Bad == {k \in 0 .. l : ~(g[k] = h[k] /\ g[k] \in Nat \ {0})}
<1> SUFFICES ASSUME Bad # {} PROVE FALSE
  OBVIOUS
<1>1. Bad \in SUBSET Nat
  OBVIOUS
<1>2. PICK k \in Bad : \A x \in Bad : k <= x
  BY <1>1, LeastNat
<1>3. k \in 0 .. l /\ k \in 0 .. m /\ ~(g[k] = h[k] /\ g[k] \in Nat \ {0})
  OBVIOUS
<1>4. /\ g[k] = IF k = 0 THEN 1 ELSE base * g[k - 1]
      /\ h[k] = IF k = 0 THEN 1 ELSE base * h[k - 1]
  BY <1>3 DEF Powers
<1>5. CASE k = 0
  BY <1>3, <1>4, <1>5
<1>6. CASE k # 0
  <2>1. k - 1 \in 0 .. l /\ ~(k <= k - 1)
    BY <1>3, <1>6
  <2>2. g[k - 1] = h[k - 1] /\ g[k - 1] \in Nat \ {0}
    BY <1>2, <2>1
  <2>3. base * g[k - 1] \in Nat \ {0}
    <3> DEFINE w == g[k - 1]
    <3>1. w \in Nat \ {0}
      BY <2>2
    <3> HIDE DEF w
    <3>2. base * w \in Nat /\ base * w > 0
      BY <3>1
    <3> QED BY <3>2 DEF w
  <2> QED BY <1>3, <1>4, <1>6, <2>2, <2>3
<1> QED BY <1>5, <1>6

(* Powers.                                                                 *)
LEMMA PowerFacts ==
  ASSUME NEW base \in Nat \ {0}, NEW m \in Nat
  PROVE  /\ Power(base, 0) = 1
         /\ Power(base, m) \in Nat \ {0}
         /\ Power(base, m + 1) = base * Power(base, m)
PROOF
<1>1. \A l \in Nat : \E g : Powers(g, base, l) /\ Power(base, l) = g[l]
  <2> TAKE l \in Nat
  <2> DEFINE g == CHOOSE h : Powers(h, base, l)
  <2>1. Powers(g, base, l)
    BY PowersExist
  <2>2. Power(base, l) = g[l]
    BY DEF Power, Powers
  <2> QED BY <2>1, <2>2
<1>2. PICK g : Powers(g, base, m) /\ Power(base, m) = g[m]
  BY <1>1
<1>3. PICK h : Powers(h, base, m + 1) /\ Power(base, m + 1) = h[m + 1]
  BY <1>1
<1>4. Power(base, 0) = 1
  <2>1. PICK z : Powers(z, base, 0) /\ Power(base, 0) = z[0]
    BY <1>1
  <2> QED BY <2>1 DEF Powers
<1>5. g[m] = h[m] /\ g[m] \in Nat \ {0}
  BY <1>2, <1>3, PowersAgree
<1>6. h[m + 1] = base * h[m]
  BY <1>3 DEF Powers
<1> QED BY <1>2, <1>3, <1>4, <1>5, <1>6

(* They grow.                                                              *)
LEMMA PowersGrow ==
  ASSUME NEW base \in Nat, base > 1
  PROVE  /\ \A m \in Nat : Power(base, m) > m
         /\ \A l \in Nat, m \in Nat : l <= m => Power(base, l) <= Power(base, m)
PROOF
<1>1. ASSUME NEW m \in Nat
      PROVE  /\ Power(base, m) \in Nat \ {0} /\ Power(base, 0) = 1
             /\ Power(base, m + 1) >= Power(base, m) + 1
  <2> DEFINE w == Power(base, m)  z == Power(base, m + 1)
  <2>1. w \in Nat \ {0} /\ z = base * w /\ Power(base, 0) = 1
    <3>1. base \in Nat \ {0}
      OBVIOUS
    <3> QED BY <3>1, PowerFacts
  <2> HIDE DEF w, z
  <2>2. base * w >= 2 * w
    BY <2>1
  <2> QED BY <2>1, <2>2 DEF w, z
<1>2. ASSUME NEW l \in Nat, NEW m \in Nat
      PROVE  l <= m => Power(base, l) <= Power(base, m)
  <2> DEFINE Bad == {x \in Nat : l <= x /\ ~(Power(base, l) <= Power(base, x))}
  <2> SUFFICES ASSUME Bad # {} PROVE FALSE
    OBVIOUS
  <2>1. PICK x \in Bad : \A y \in Bad : x <= y
    BY LeastNat
  <2>2. x \in Nat /\ l <= x /\ ~(Power(base, l) <= Power(base, x))
    OBVIOUS
  <2>3. Power(base, l) \in Nat
    BY <1>1
  <2>4. x # l /\ x - 1 \in Nat /\ l <= x - 1 /\ ~(x <= x - 1)
    BY <2>2, <2>3
  <2>5. Power(base, l) <= Power(base, x - 1)
    BY <2>1, <2>4
  <2> DEFINE y == x - 1
  <2>6. y \in Nat /\ x = y + 1
    BY <2>2, <2>4
  <2>7. Power(base, y) \in Nat /\ Power(base, y + 1) >= Power(base, y) + 1
        /\ Power(base, y + 1) \in Nat
    BY <2>6, <1>1
  <2> QED BY <2>2, <2>3, <2>5, <2>6, <2>7
<1>3. ASSUME NEW m \in Nat
      PROVE  Power(base, m) > m
  <2> DEFINE Bad == {x \in Nat : ~(Power(base, x) > x)}
  <2> SUFFICES ASSUME Bad # {} PROVE FALSE
    OBVIOUS
  <2>1. PICK x \in Bad : \A y \in Bad : x <= y
    BY LeastNat
  <2>2. x \in Nat /\ ~(Power(base, x) > x)
    OBVIOUS
  <2>3. x # 0
    BY <2>2, <1>1
  <2> DEFINE y == x - 1
  <2>4. y \in Nat /\ x = y + 1 /\ ~(x <= y)
    BY <2>2, <2>3
  <2>5. Power(base, y) > y
    BY <2>1, <2>4
  <2>6. Power(base, y) \in Nat /\ Power(base, y + 1) >= Power(base, y) + 1
        /\ Power(base, y + 1) \in Nat
    BY <2>4, <1>1
  <2> QED BY <2>2, <2>4, <2>5, <2>6
<1> QED BY <1>2, <1>3

(* How many digits a number has.                                           *)
IsLength(l, v, base) ==
  /\ l \in Nat \ {0}
  /\ Power(base, l) > v
  /\ l > 1 => Power(base, l - 1) <= v

LengthOf(v, base) ==
  CHOOSE l \in 1 .. v + 1 :
    Power(base, l) > v /\ (l > 1 => Power(base, l - 1) <= v)

(* There is such a length, and only one.                                   *)
LEMMA LengthFacts ==
  ASSUME NEW v \in Nat, NEW base \in Nat, base > 1
  PROVE  /\ IsLength(LengthOf(v, base), v, base)
         /\ \A l : IsLength(l, v, base) => l = LengthOf(v, base)
PROOF
<1>1. \A m \in Nat : Power(base, m) \in Nat /\ Power(base, m) > m
  <2>1. base \in Nat \ {0}
    OBVIOUS
  <2> QED BY <2>1, PowerFacts, PowersGrow
<1>2. LengthOf(v, base) \in 1 .. v + 1 /\ IsLength(LengthOf(v, base), v, base)
  <2> DEFINE Long == {l \in Nat : l > 0 /\ Power(base, l) > v}
  <2>1. v + 1 \in Long
    BY <1>1
  <2>2. PICK l \in Long : \A x \in Long : l <= x
    BY <2>1, LeastNat
  <2>3. l \in Nat /\ l > 0 /\ Power(base, l) > v /\ l <= v + 1
    BY <2>1, <2>2
  <2>4. ASSUME l > 1
        PROVE  Power(base, l - 1) <= v
    <3>1. l - 1 \in Nat /\ l - 1 > 0 /\ ~(l <= l - 1)
      BY <2>3, <2>4
    <3>2. ~(Power(base, l - 1) > v)
      BY <2>2, <3>1
    <3> QED BY <1>1, <3>1, <3>2
  <2>5. \E x \in 1 .. v + 1 :
          Power(base, x) > v /\ (x > 1 => Power(base, x - 1) <= v)
    BY <2>3, <2>4
  <2> QED BY <2>5 DEF LengthOf, IsLength
<1>3. ASSUME NEW l, NEW m, IsLength(l, v, base), IsLength(m, v, base)
      PROVE  ~(l < m)
  <2> SUFFICES ASSUME l < m PROVE FALSE
    OBVIOUS
  <2>1. l \in Nat /\ m \in Nat /\ m - 1 \in Nat /\ l <= m - 1 /\ m > 1
    BY <1>3 DEF IsLength
  <2>2. Power(base, l) <= Power(base, m - 1)
    BY <2>1, PowersGrow
  <2>3. Power(base, l) > v /\ Power(base, m - 1) <= v
    BY <1>3, <2>1 DEF IsLength
  <2> QED BY <1>1, <2>1, <2>2, <2>3
<1>4. ASSUME NEW l, IsLength(l, v, base)
      PROVE  l = LengthOf(v, base)
  <2>1. ~(l < LengthOf(v, base)) /\ ~(LengthOf(v, base) < l)
    BY <1>2, <1>3, <1>4
  <2>2. l \in Nat /\ LengthOf(v, base) \in Nat
    BY <1>2, <1>4 DEF IsLength
  <2> QED BY <2>1, <2>2
<1> QED BY <1>2, <1>4

(* Dividing by a and by b is dividing by their product.                    *)
LEMMA DivideTwice ==
  ASSUME NEW v \in Nat, NEW a \in Nat \ {0}, NEW b \in Nat \ {0}
  PROVE  /\ a * b \in Nat \ {0}
         /\ (v \div a) \div b = v \div (a * b)
PROOF
<1> DEFINE q == v \div a  r == v % a  s == (v \div a) \div b  t == (v \div a) % b
<1>1. q \in Nat /\ r \in 0 .. a - 1 /\ v = q * a + r
  OBVIOUS
<1>2. s \in Nat /\ t \in 0 .. b - 1 /\ q = s * b + t
  <2>1. \A w \in Nat : w \div b \in Nat /\ w % b \in 0 .. b - 1 /\ w = (w \div b) * b + (w % b)
    OBVIOUS
  <2> QED BY <1>1, <2>1
<1> HIDE DEF q, r, s, t
<1>3. a * b \in Nat \ {0}
  <2>1. a * b \in Nat /\ a * b > 0
    OBVIOUS
  <2> QED BY <2>1
<1> DEFINE P == a * b  z == t * a + r
<1>4. v = s * P + z
  BY <1>1, <1>2
<1>5. z \in Nat /\ z < P
  <2>1. t * a \in Nat
    BY <1>1, <1>2
  <2>2. t * a <= (b - 1) * a
    BY <1>2
  <2>3. (b - 1) * a = a * b - a
    OBVIOUS
  <2> QED BY <1>1, <2>1, <2>2, <2>3
<1> HIDE DEF P, z
<1>6. P \in Nat \ {0}
  BY <1>3 DEF P
<1>7. v \div P = s
  <2> DEFINE d == v \div P  e == v % P
  <2>1. d \in Nat /\ e \in 0 .. P - 1 /\ v = d * P + e
    BY <1>6
  <2> HIDE DEF d, e
  <2>2. (d - s) * P = z - e
    BY <1>2, <1>4, <1>5, <1>6, <2>1
  <2>3. z - e < P /\ z - e > -P
    BY <1>5, <1>6, <2>1
  <2> DEFINE g == d - s
  <2>4. g \in Int /\ g * P < P /\ g * P > -P
    BY <1>2, <1>5, <2>1, <2>2, <2>3
  <2> HIDE DEF g
  <2>5. g < 1
    <3> SUFFICES ASSUME g >= 1 PROVE FALSE
      BY <2>4
    <3>1. g * P >= P
      BY <2>4, <1>6
    <3> QED BY <2>4, <3>1, <1>6
  <2>6. g > -1
    <3> SUFFICES ASSUME g <= -1 PROVE FALSE
      BY <2>4
    <3>1. g * P <= -P
      BY <2>4, <1>6
    <3> QED BY <2>4, <3>1, <1>6
  <2>7. g = 0
    BY <2>4, <2>5, <2>6
  <2> QED BY <1>2, <2>1, <2>7 DEF g, d
<1> QED BY <1>3, <1>7 DEF s, P, q

(* A quotient has a digit less.                                            *)
LEMMA LengthStep ==
  ASSUME NEW v \in Nat, NEW base \in Nat, base > 1
  PROVE  /\ v < base => LengthOf(v, base) = 1
         /\ v >= base => LengthOf(v, base) = LengthOf(v \div base, base) + 1
PROOF
<1>1. base \in Nat \ {0}
  OBVIOUS
<1>2. Power(base, 0) = 1 /\ Power(base, 1) = base
  <2>1. Power(base, 0) = 1 /\ Power(base, 0 + 1) = base * Power(base, 0)
    BY <1>1, PowerFacts
  <2> QED BY <2>1
<1>3. ASSUME v < base PROVE LengthOf(v, base) = 1
  <2>1. IsLength(1, v, base)
    BY <1>2, <1>3 DEF IsLength
  <2> QED BY <2>1, LengthFacts
<1>4. ASSUME v >= base PROVE LengthOf(v, base) = LengthOf(v \div base, base) + 1
  <2> DEFINE q == v \div base  r == v % base  l == LengthOf(q, base)
  <2>1. q \in Nat /\ r \in 0 .. base - 1 /\ v = q * base + r
    BY <1>1
  <2> HIDE DEF q, r
  <2>2. IsLength(l, q, base)
    BY <2>1, LengthFacts
  <2> HIDE DEF l
  <2>3. \A p \in Nat : p > q => base * p > v
    <3> TAKE p \in Nat
    <3> HAVE p > q
    <3>1. base * p >= base * (q + 1)
      BY <2>1
    <3>2. base * (q + 1) = q * base + base
      BY <2>1
    <3> QED BY <2>1, <3>1, <3>2
  <2>4. \A p \in Nat : p <= q => base * p <= v
    <3> TAKE p \in Nat
    <3> HAVE p <= q
    <3>1. base * p <= base * q
      BY <2>1
    <3> QED BY <2>1, <3>1
  <2>5. l \in Nat \ {0} /\ Power(base, l) > q /\ (l > 1 => Power(base, l - 1) <= q)
    BY <2>2 DEF IsLength
  <2>6. Power(base, l + 1) > v
    <3>1. Power(base, l) \in Nat /\ Power(base, l + 1) = base * Power(base, l)
      BY <2>5, <1>1, PowerFacts
    <3> QED BY <2>3, <2>5, <3>1
  <2>7. Power(base, l) <= v
    <3>1. CASE l = 1
      BY <1>2, <1>4, <3>1
    <3>2. CASE l # 1
      <4> DEFINE m == l - 1
      <4>1. m \in Nat /\ l = m + 1 /\ l > 1
        BY <2>5, <3>2
      <4>2. Power(base, m) <= q
        BY <2>5, <4>1
      <4> HIDE DEF m
      <4>3. Power(base, m) \in Nat /\ Power(base, m + 1) = base * Power(base, m)
        BY <4>1, <1>1, PowerFacts
      <4> QED BY <2>4, <4>1, <4>2, <4>3
    <3> QED BY <3>1, <3>2
  <2>8. IsLength(l + 1, v, base)
    <3>1. l + 1 \in Nat \ {0} /\ (l + 1) - 1 = l
      BY <2>5
    <3> QED BY <2>6, <2>7, <3>1 DEF IsLength
  <2>9. l + 1 = LengthOf(v, base)
    BY <2>8, LengthFacts
  <2> QED BY <2>9 DEF l, q
<1> QED BY <1>3, <1>4

(* The quotient of a number that is not a digit is a smaller number.       *)
LEMMA Quotient ==
  ASSUME NEW v \in Nat, NEW base \in Nat, base > 1
  PROVE  /\ v \div base \in Nat /\ v % base \in 0 .. base - 1
         /\ v = (v \div base) * base + (v % base)
         /\ v >= base => v \div base < v
         /\ v < base => v \div base = 0 /\ v % base = v
PROOF
<1> DEFINE q == v \div base  r == v % base
<1>1. q \in Nat /\ r \in 0 .. base - 1 /\ v = q * base + r
  OBVIOUS
<1>2. v < base => q = 0 /\ r = v
  OBVIOUS
<1> HIDE DEF q, r
<1>3. ASSUME v >= base PROVE q < v
  <2>1. q * base >= q * 2
    BY <1>1
  <2>2. CASE q = 0
    BY <1>1, <1>3, <2>2
  <2>3. CASE q # 0
    BY <1>1, <2>1, <2>3
  <2> QED BY <2>2, <2>3
<1> QED BY <1>1, <1>2, <1>3 DEF q, r

(* A numeral is that of the quotient and one more digit.                   *)
LEMMA NumeralStep ==
  ASSUME NEW v \in Nat, NEW base \in Nat, base > 1
  PROVE  /\ NumeralOf(v, base) \in Lines
         /\ Len(NumeralOf(v, base)) = LengthOf(v, base)
         /\ v < base => NumeralOf(v, base) = <<DigitChar(v % base)>>
         /\ v >= base => NumeralOf(v, base) =
              NumeralOf(v \div base, base) \o <<DigitChar(v % base)>>
PROOF
<1>1. base \in Nat \ {0}
  OBVIOUS
<1> DEFINE Figure(x, k) == DigitChar((x \div Power(base, LengthOf(x, base) - k)) % base)
<1>2. ASSUME NEW x \in Nat
      PROVE  /\ NumeralOf(x, base) = [k \in 1 .. LengthOf(x, base) |-> Figure(x, k)]
             /\ LengthOf(x, base) \in Nat \ {0}
             /\ \A k \in 1 .. LengthOf(x, base) : Figure(x, k) \in Int
  <2>1. LengthOf(x, base) \in Nat \ {0}
    BY LengthFacts DEF IsLength
  <2>2. NumeralOf(x, base) = [k \in 1 .. LengthOf(x, base) |-> Figure(x, k)]
    BY DEF NumeralOf, LengthOf
  <2>3. ASSUME NEW k \in 1 .. LengthOf(x, base)
        PROVE  Figure(x, k) \in Int
    <3>1. LengthOf(x, base) - k \in Nat
      BY <2>1
    <3> DEFINE P == Power(base, LengthOf(x, base) - k)
    <3>2. P \in Nat \ {0}
      BY <1>1, <3>1, PowerFacts
    <3> HIDE DEF P
    <3>3. x \div P \in Nat
      BY <3>2
    <3>4. (x \div P) % base \in Int
      BY <3>3
    <3>5. DigitChar((x \div P) % base) \in Int
      BY <3>4 DEF DigitChar, Digit0
    <3> QED BY <3>5 DEF P
  <2> QED BY <2>1, <2>2, <2>3
<1>3. ASSUME NEW x \in Nat
      PROVE  NumeralOf(x, base) \in Lines /\ Len(NumeralOf(x, base)) = LengthOf(x, base)
  <2> DEFINE l == LengthOf(x, base)
  <2>1. /\ NumeralOf(x, base) = [k \in 1 .. l |-> Figure(x, k)]
        /\ l \in Nat
        /\ \A k \in 1 .. l : Figure(x, k) \in Int
    BY <1>2
  <2> HIDE DEF l, Figure
  <2> QED BY <2>1 DEF Lines, l
<1>4. Power(base, 0) = 1
  BY <1>1, PowerFacts
<1>5. ASSUME v < base
      PROVE  NumeralOf(v, base) = <<DigitChar(v % base)>>
  <2>1. LengthOf(v, base) = 1
    BY <1>5, LengthStep
  <2>2. v \div Power(base, 1 - 1) = v
    BY <1>4
  <2>3. Figure(v, 1) = DigitChar(v % base)
    BY <2>1, <2>2
  <2>4. NumeralOf(v, base) = [k \in 1 .. 1 |-> Figure(v, k)]
    BY <1>2, <2>1
  <2>5. NumeralOf(v, base) = [k \in 1 .. 1 |-> DigitChar(v % base)]
    BY <2>3, <2>4
  <2> QED BY <2>5
<1>6. ASSUME v >= base
      PROVE  NumeralOf(v, base) = NumeralOf(v \div base, base) \o <<DigitChar(v % base)>>
  <2> DEFINE q == v \div base  l == LengthOf(q, base)
             s == NumeralOf(q, base)  c == DigitChar(v % base)
  <2>1. q \in Nat
    BY Quotient
  <2>2. LengthOf(v, base) = l + 1
    BY <1>6, LengthStep
  <2>3. l \in Nat \ {0} /\ s = [k \in 1 .. l |-> Figure(q, k)] /\ s \in Lines /\ Len(s) = l
    BY <2>1, <1>2, <1>3
  <2>4. NumeralOf(v, base) = [k \in 1 .. l + 1 |-> Figure(v, k)]
    BY <1>2, <2>2
  <2>5. Figure(v, l + 1) = c
    <3>1. (l + 1) - (l + 1) = 0
      BY <2>3
    <3>2. v \div Power(base, LengthOf(v, base) - (l + 1)) = v
      BY <1>4, <2>2, <3>1
    <3> QED BY <3>2
  <2>6. ASSUME NEW k \in 1 .. l
        PROVE  Figure(v, k) = Figure(q, k)
    <3> DEFINE m == l - k
    <3>1. m \in Nat /\ (l + 1) - k = m + 1
      BY <2>3
    <3>2. Power(base, m + 1) = base * Power(base, m) /\ Power(base, m) \in Nat \ {0}
      BY <1>1, <3>1, PowerFacts
    <3>3. q \div Power(base, m) = v \div Power(base, m + 1)
      BY <1>1, <3>2, DivideTwice
    <3> QED BY <2>2, <3>1, <3>3
  <2> HIDE DEF q, l, s, Figure
  <2>7. c \in Int
    <3>1. v % base \in Int
      BY Quotient
    <3> QED BY <3>1 DEF DigitChar, Digit0
  <2> HIDE DEF c
  <2>8. s \o <<c>> = [k \in 1 .. l + 1 |-> IF k <= l THEN s[k] ELSE c]
    BY <2>3, <2>7 DEF Lines
  <2>9. \A k \in 1 .. l + 1 : Figure(v, k) = IF k <= l THEN s[k] ELSE c
    <3> TAKE k \in 1 .. l + 1
    <3>1. CASE k <= l
      <4>1. k \in 1 .. l
        BY <2>3, <3>1
      <4> QED BY <2>3, <2>6, <3>1, <4>1
    <3>2. CASE ~(k <= l)
      <4>1. k = l + 1
        BY <2>3, <3>2
      <4> QED BY <2>5, <3>2, <4>1
    <3> QED BY <3>1, <3>2
  <2>10. NumeralOf(v, base) = s \o <<c>>
    BY <2>4, <2>8, <2>9
  <2> QED BY <2>10 DEF s, q, c
<1> QED BY <1>3, <1>5, <1>6

(* Lines put together (two of these lemmas are about concatenation only).  *)
LEMMA JoinFacts ==
  ASSUME NEW r \in Lines, NEW s \in Lines
  PROVE  /\ r \o s \in Lines /\ r \o <<>> = r /\ <<>> \o r = r /\ <<>> \in Lines
         /\ Len(r \o s) = Len(r) + Len(s) /\ Len(r) \in Nat
  BY DEF Lines

(* Padding.                                                                *)
LEMMA TimesFacts ==
  ASSUME NEW m \in Int, NEW c \in Int
  PROVE  /\ Times(m, c) \in Lines
         /\ m <= 0 => Times(m, c) = <<>>
         /\ m >= 0 => Len(Times(m, c)) = m
PROOF
<1>1. CASE m >= 0
  <2>1. m \in Nat /\ (m = 0 => 1 .. m = {})
    BY <1>1
  <2> QED BY <1>1, <2>1 DEF Times, Lines
<1>2. CASE ~(m >= 0)
  <2>1. 1 .. m = 1 .. 0
    BY <1>2
  <2>2. Times(m, c) = [k \in 1 .. 0 |-> c]
    BY <2>1 DEF Times
  <2> QED BY <1>2, <2>2 DEF Lines
<1> QED BY <1>1, <1>2

(* What printnum prints: padding that is computed at once, and the digits. *)
PaddedNumeral(v, base, w, pad) ==
  Times(w - LengthOf(v, base), pad) \o NumeralOf(v, base)

(* printnum on a number of several digits prints all but the last one,     *)
(* padded to one less, and then that one.                                  *)
LEMMA PaddedStep ==
  ASSUME NEW v \in Nat, NEW base \in Nat, base > 1, NEW w \in Int, NEW pad \in Int
  PROVE  PaddedNumeral(v, base, w, pad) =
           (IF v >= base THEN PaddedNumeral(v \div base, base, w - 1, pad)
                         ELSE Times(w - 1, pad))
           \o <<DigitChar(v % base)>>
PROOF
<1>1. CASE v >= base
  <2> DEFINE q == v \div base  l == LengthOf(q, base)
             s == NumeralOf(q, base)  c == <<DigitChar(v % base)>>
             t == Times((w - 1) - l, pad)
  <2>1. q \in Nat /\ l \in Nat
    BY Quotient, LengthFacts DEF IsLength
  <2>2. s \in Lines /\ NumeralOf(v, base) = s \o c
    BY <1>1, <2>1, NumeralStep
  <2>3. LengthOf(v, base) = l + 1
    BY <1>1, LengthStep
  <2>4. w - LengthOf(v, base) = (w - 1) - l /\ (w - 1) - l \in Int
    BY <2>1, <2>3
  <2>5. c \in Lines
    <3>1. v % base \in Int
      BY Quotient
    <3>2. DigitChar(v % base) \in Int
      BY <3>1 DEF DigitChar, Digit0
    <3> QED BY <3>2 DEF Lines
  <2>6. t \in Lines
    BY <2>4, TimesFacts
  <2>7. PaddedNumeral(v, base, w, pad) = t \o (s \o c)
    BY <2>2, <2>4 DEF PaddedNumeral
  <2>8. PaddedNumeral(q, base, w - 1, pad) = t \o s
    BY DEF PaddedNumeral
  <2> HIDE DEF q, l, s, c, t
  <2>9. (t \o s) \o c = t \o (s \o c)
    BY <2>2, <2>5, <2>6, Associative
  <2> QED BY <1>1, <2>7, <2>8, <2>9 DEF q, c
<1>2. CASE ~(v >= base)
  <2>1. LengthOf(v, base) = 1 /\ NumeralOf(v, base) = <<DigitChar(v % base)>>
    <3>1. v < base
      BY <1>2
    <3> QED BY <3>1, LengthStep, NumeralStep
  <2> QED BY <1>2, <2>1 DEF PaddedNumeral
<1> QED BY <1>1, <1>2

(* The recursive function that printnum is.                                *)
Prints(g, num, base, pad) ==
  g = [v \in 0 .. num |->
         [w \in Int |->
            (IF v >= base THEN g[v \div base][w - 1] ELSE Times(w - 1, pad))
            \o <<DigitChar(v % base)>>]]

(* printnum prints its padding in the innermost call, by what is left of   *)
(* the width there (printfmt.c:31-50): that is as many as the numeral is   *)
(* short of it.                                                            *)
LEMMA PrintnumFacts ==
  ASSUME NEW num \in Nat, NEW base \in Nat, base > 1, NEW wid \in Int, NEW pad \in Int
  PROVE  printnum(num, base, wid, pad) = PaddedNumeral(num, base, wid, pad)
PROOF
<1> DEFINE G == [v \in 0 .. num |-> [w \in Int |-> PaddedNumeral(v, base, w, pad)]]
<1>1. \A v \in 0 .. num : v >= base => v \div base \in 0 .. num
  BY Quotient
<1>2. Prints(G, num, base, pad)
  <2>1. ASSUME NEW v \in 0 .. num, NEW w \in Int
        PROVE  PaddedNumeral(v, base, w, pad) =
                 (IF v >= base THEN G[v \div base][w - 1] ELSE Times(w - 1, pad))
                 \o <<DigitChar(v % base)>>
    <3>1. ASSUME v >= base
          PROVE  G[v \div base][w - 1] = PaddedNumeral(v \div base, base, w - 1, pad)
      <4>1. v \div base \in 0 .. num /\ w - 1 \in Int
        BY <1>1, <3>1
      <4> QED BY <4>1, Zenon
    <3>2. v \in Nat
      OBVIOUS
    <3>3. PaddedNumeral(v, base, w, pad) =
            (IF v >= base THEN PaddedNumeral(v \div base, base, w - 1, pad)
                          ELSE Times(w - 1, pad))
            \o <<DigitChar(v % base)>>
      BY <3>2, PaddedStep
    <3> QED BY <3>1, <3>3, Zenon
  <2>2. G = [v \in 0 .. num |-> [w \in Int |-> PaddedNumeral(v, base, w, pad)]]
    OBVIOUS
  <2> HIDE DEF G
  <2> QED BY <2>1, <2>2, Zenon DEF Prints
<1> DEFINE g == CHOOSE h : Prints(h, num, base, pad)
<1>3. Prints(g, num, base, pad)
  BY <1>2
<1>4. printnum(num, base, wid, pad) = g[num][wid]
  BY DEF printnum, Prints
<1> HIDE DEF G, g
<1>5. ASSUME NEW v \in 0 .. num
      PROVE  \A w \in Int : g[v][w] = PaddedNumeral(v, base, w, pad)
  <2> DEFINE Good(x) == \A w \in Int : g[x][w] = PaddedNumeral(x, base, w, pad)
             Bad == {x \in 0 .. num : ~Good(x)}
  <2> SUFFICES ASSUME Bad # {} PROVE FALSE
    OBVIOUS
  <2> HIDE DEF Good
  <2>1. Bad \in SUBSET Nat
    OBVIOUS
  <2>2. PICK x \in Bad : \A y \in Bad : x <= y
    BY <2>1, LeastNat
  <2>3. x \in 0 .. num /\ ~Good(x) /\ x \in Nat
    BY <2>2
  <2>4. ASSUME NEW w \in Int
        PROVE  g[x][w] = PaddedNumeral(x, base, w, pad)
    <3>1. g[x][w] = (IF x >= base THEN g[x \div base][w - 1] ELSE Times(w - 1, pad))
                    \o <<DigitChar(x % base)>>
      <4>1. g[x] = [u \in Int |->
                      (IF x >= base THEN g[x \div base][u - 1] ELSE Times(u - 1, pad))
                      \o <<DigitChar(x % base)>>]
        BY <1>3, <2>3, Zenon DEF Prints
      <4> QED BY <4>1, Zenon
    <3>2. ASSUME x >= base
          PROVE  g[x \div base][w - 1] = PaddedNumeral(x \div base, base, w - 1, pad)
      <4>1. x \div base \in 0 .. num /\ x \div base \in Nat /\ ~(x <= x \div base)
        <5>1. x \div base \in Nat /\ x \div base < x
          BY <2>3, <3>2, Quotient
        <5> QED BY <2>3, <3>2, <5>1, <1>1
      <4>2. Good(x \div base)
        BY <2>2, <4>1
      <4>3. w - 1 \in Int
        OBVIOUS
      <4> QED BY <4>2, <4>3 DEF Good
    <3>3. PaddedNumeral(x, base, w, pad) =
            (IF x >= base THEN PaddedNumeral(x \div base, base, w - 1, pad)
                          ELSE Times(w - 1, pad))
            \o <<DigitChar(x % base)>>
      BY <2>3, PaddedStep
    <3> QED BY <3>1, <3>2, <3>3, Zenon
  <2> QED BY <2>3, <2>4 DEF Good
<1>6. num \in 0 .. num
  OBVIOUS
<1> QED BY <1>4, <1>5, <1>6

(* A decimal numeral: its characters, and the quotients that reading it    *)
(* goes through.                                                           *)
LEMMA DecimalFacts ==
  ASSUME NEW v \in Nat
  PROVE  LET s == NumeralOf(v, 10)
             l == LengthOf(v, 10)
             at10(k) == v \div Power(10, l - k)
         IN  /\ l \in Nat \ {0} /\ s \in Lines /\ Len(s) = l
             /\ at10(0) = 0 /\ at10(l) = v
             /\ \A k \in 1 .. l : /\ s[k] \in DigitChars
                                  /\ at10(k) = at10(k - 1) * 10 + s[k] - Digit0
             /\ v > 0 => s[1] \in NonZero
PROOF
<1> DEFINE s == NumeralOf(v, 10)  l == LengthOf(v, 10)
           at10(k) == v \div Power(10, l - k)
<1>1. l \in Nat \ {0} /\ Power(10, l) > v /\ (l > 1 => Power(10, l - 1) <= v)
  BY LengthFacts DEF IsLength
<1>2. s \in Lines /\ Len(s) = l
  <2>1. 10 \in Nat /\ 10 > 1
    OBVIOUS
  <2> QED BY <2>1, NumeralStep, Zenon
<1>3. \A m \in Nat : Power(10, m) \in Nat \ {0} /\ Power(10, m + 1) = 10 * Power(10, m)
  BY PowerFacts
<1>4. Power(10, 0) = 1
  BY PowerFacts
<1>5. at10(0) = 0
  <2> DEFINE P == Power(10, l)
  <2>1. P \in Nat \ {0} /\ v < P /\ l - 0 = l
    BY <1>1, <1>3
  <2> HIDE DEF P
  <2>2. v \div P = 0
    BY <2>1
  <2> QED BY <2>1, <2>2 DEF P
<1>6. at10(l) = v
  <2>1. l - l = 0
    BY <1>1
  <2> QED BY <1>4, <2>1
<1>7. ASSUME NEW k \in 1 .. l
      PROVE  /\ s[k] \in DigitChars
             /\ at10(k) = at10(k - 1) * 10 + s[k] - Digit0
             /\ at10(k) > 0 /\ at10(k - 1) = 0 => s[k] \in NonZero
  <2> DEFINE m == l - k  P == Power(10, m)  x == v \div P  d == x % 10
  <2>1. m \in Nat /\ l - (k - 1) = m + 1
    BY <1>1
  <2>2. P \in Nat \ {0} /\ Power(10, m + 1) = 10 * P
    BY <1>3, <2>1
  <2>3. s[k] = DigitChar(d)
    <3>1. s = [j \in 1 .. l |-> DigitChar((v \div Power(10, l - j)) % 10)]
      BY DEF NumeralOf, LengthOf
    <3> HIDE DEF s, l
    <3> QED BY <3>1
  <2>4. x \in Nat
    <3> HIDE DEF P
    <3> QED BY <2>2
  <2>5. x \div 10 = v \div Power(10, m + 1)
    <3>1. x \div 10 = v \div (P * 10)
      BY <2>2, DivideTwice
    <3>2. P * 10 = 10 * P
      BY <2>2
    <3> QED BY <2>2, <3>1, <3>2
  <2>6. at10(k) = x /\ at10(k - 1) = x \div 10
    BY <2>1, <2>5
  <2> HIDE DEF x
  <2>7. d \in 0 .. 9 /\ x \div 10 \in Nat /\ x = (x \div 10) * 10 + d
    BY <2>4
  <2> HIDE DEF d
  <2>8. DigitChar(d) = 48 + d
    BY <2>7 DEF DigitChar, Digit0
  <2> HIDE DEF s, at10
  <2>9. s[k] \in DigitChars /\ (d > 0 => s[k] \in NonZero)
    BY <2>3, <2>7, <2>8 DEF DigitChars, NonZero
  <2>10. s[k] - Digit0 = d
    BY <2>3, <2>7, <2>8 DEF Digit0
  <2>11. (x \div 10) * 10 + s[k] - Digit0 = x
    BY <2>3, <2>7, <2>8 DEF Digit0
  <2>12. x > 0 /\ x \div 10 = 0 => d > 0
    BY <2>7
  <2> QED BY <2>6, <2>9, <2>11, <2>12
<1>8. ASSUME v > 0
      PROVE  s[1] \in NonZero
  <2> DEFINE P == Power(10, l - 1)
  <2>1. l - 1 \in Nat /\ 1 \in 1 .. l /\ 1 - 1 = 0
    BY <1>1
  <2>2. P \in Nat \ {0}
    BY <2>1, <1>3
  <2>3. P <= v
    <3>1. CASE l = 1
      BY <1>4, <1>8, <3>1
    <3>2. CASE l # 1
      BY <1>1, <3>2
    <3> QED BY <3>1, <3>2
  <2> HIDE DEF P
  <2>4. v \div P > 0
    <3> DEFINE q == v \div P  r == v % P
    <3>1. q \in Nat /\ r \in 0 .. P - 1 /\ v = q * P + r
      BY <2>2
    <3> HIDE DEF q, r
    <3>2. q # 0
      BY <2>2, <2>3, <3>1
    <3> QED BY <3>1, <3>2 DEF q
  <2>5. at10(1) > 0 /\ at10(1 - 1) = 0
    BY <1>5, <2>1, <2>4 DEF P
  <2> HIDE DEF at10, s
  <2> QED BY <2>1, <2>5, <1>7
<1> HIDE DEF s, l, at10
<1>9. /\ l \in Nat \ {0} /\ s \in Lines /\ Len(s) = l
      /\ at10(0) = 0 /\ at10(l) = v
      /\ \A k \in 1 .. l : /\ s[k] \in DigitChars
                           /\ at10(k) = at10(k - 1) * 10 + s[k] - Digit0
      /\ v > 0 => s[1] \in NonZero
  BY <1>1, <1>2, <1>5, <1>6, <1>7, <1>8
<1> QED BY <1>9 DEF s, l, at10

(* Reading the numeral of v gives v (printfmt.c:127-132).                  *)
LEMMA ReadBack ==
  ASSUME NEW v \in Nat
  PROVE  NumberRead(NumeralOf(v, 10)) = v
PROOF
<1> DEFINE s == NumeralOf(v, 10)  l == LengthOf(v, 10)
           at10(k) == v \div Power(10, l - k)
<1>1. /\ l \in Nat \ {0} /\ Len(s) = l
      /\ at10(0) = 0 /\ at10(l) = v
      /\ \A k \in 1 .. l : at10(k) = at10(k - 1) * 10 + s[k] - Digit0
  BY DecimalFacts
<1> HIDE DEF s, l, at10
<1> DEFINE Reads10(g) ==
             g = [k \in 0 .. Len(s) |->
                    IF k = 0 THEN 0 ELSE g[k - 1] * 10 + s[k] - Digit0]
           G == [k \in 0 .. Len(s) |-> at10(k)]
           g == CHOOSE h : Reads10(h)
<1>2. Reads10(G)
  <2>1. ASSUME NEW k \in 0 .. Len(s)
        PROVE  at10(k) = IF k = 0 THEN 0 ELSE G[k - 1] * 10 + s[k] - Digit0
    <3>1. CASE k = 0
      BY <1>1, <3>1
    <3>2. CASE k # 0
      <4>1. k \in 1 .. l /\ k - 1 \in 0 .. Len(s)
        BY <1>1, <3>2
      <4>2. G[k - 1] = at10(k - 1)
        BY <4>1
      <4> QED BY <1>1, <3>2, <4>1, <4>2
    <3> QED BY <3>1, <3>2
  <2>2. G = [k \in 0 .. Len(s) |-> at10(k)]
    OBVIOUS
  <2> HIDE DEF G
  <2> QED BY <2>1, <2>2
<1>3. Reads10(g)
  BY <1>2
<1>4. NumberRead(s) = g[Len(s)]
  BY DEF NumberRead
<1> HIDE DEF G, g
<1>5. ASSUME NEW k \in 0 .. l
      PROVE  g[k] = at10(k)
  <2> DEFINE Bad == {j \in 0 .. l : g[j] # at10(j)}
  <2> SUFFICES ASSUME Bad # {} PROVE FALSE
    OBVIOUS
  <2>1. Bad \in SUBSET Nat
    BY <1>1
  <2>2. PICK j \in Bad : \A y \in Bad : j <= y
    BY <2>1, LeastNat
  <2>3. j \in 0 .. l /\ g[j] # at10(j) /\ j \in 0 .. Len(s)
    BY <2>2, <1>1
  <2>4. g[j] = IF j = 0 THEN 0 ELSE g[j - 1] * 10 + s[j] - Digit0
    BY <1>3, <2>3
  <2>5. j # 0
    BY <1>1, <2>3, <2>4
  <2>6. j - 1 \in 0 .. l /\ ~(j <= j - 1) /\ j \in 1 .. l
    BY <1>1, <2>3, <2>5
  <2>7. g[j - 1] = at10(j - 1)
    BY <2>2, <2>6
  <2> QED BY <1>1, <2>3, <2>4, <2>5, <2>6, <2>7
<1>6. g[l] = at10(l)
  BY <1>1, <1>5
<1> QED BY <1>1, <1>4, <1>6 DEF s

-----------------------------------------------------------------------------
(* Reading a format.                                                       *)

(* What is left of s after k characters; what is left of the format.       *)
RestOf(s, k) == SubSeq(s, k + 1, Len(s))
Rest == RestOf(fmt, f)

(* Text that vprintfmt copies.                                             *)
Plain == Int \ {NUL, Percent}
PlainText == Seq(Plain)

(* Plain text is text without a NUL or a percent sign.                     *)
LEMMA PlainFacts ==
  ASSUME NEW s \in PlainText, NEW t \in PlainText
  PROVE  /\ s \o t \in PlainText /\ s \in Lines /\ <<>> \in PlainText
         /\ \A k \in 1 .. Len(s) : s[k] \in Int /\ s[k] # NUL /\ s[k] # Percent
  BY DEF PlainText, Plain, Lines

(* One such character is plain text.                                       *)
LEMMA PlainOne ==
  ASSUME NEW c \in Plain
  PROVE  <<c>> \in PlainText
  BY DEF PlainText

(* Texts with the same characters are the same.                            *)
LEMMA SameText ==
  ASSUME NEW s \in Seq(Int), NEW t \in Seq(Int), Len(s) = Len(t),
         \A j \in 1 .. Len(s) : s[j] = t[j]
  PROVE  s = t
PROOF
<1>1. s = [j \in 1 .. Len(s) |-> s[j]] /\ t = [j \in 1 .. Len(t) |-> t[j]]
  OBVIOUS
<1> QED BY <1>1

(* u has s behind its first k characters, and then r to its end.           *)
Followed(u, k, s, r) ==
  /\ k + Len(s) \in 0 .. Len(u)
  /\ RestOf(u, k + Len(s)) = r
  /\ SubSeq(u, k + 1, k + Len(s)) = s
  /\ \A j \in 1 .. Len(s) : u[k + j] = s[j]
  /\ Len(u) = k + Len(s) + Len(r)
  /\ \A j \in 1 .. Len(r) : u[k + Len(s) + j] = r[j]

(* What begins with s goes on with what s is followed by.                  *)
LEMMA RestSplits ==
  ASSUME NEW u \in Lines, NEW k \in 0 .. Len(u), NEW s \in Lines, NEW r \in Lines,
         RestOf(u, k) = s \o r
  PROVE  Followed(u, k, s, r)
PROOF
<1>1. /\ Len(u) \in Nat /\ Len(s) \in Nat /\ Len(r) \in Nat
      /\ u \in Seq(Int) /\ s \in Seq(Int) /\ r \in Seq(Int)
  BY DEF Lines
<1>2. Len(RestOf(u, k)) = Len(u) - k
  BY <1>1 DEF RestOf
<1>3. Len(u) = k + Len(s) + Len(r)
  BY <1>1, <1>2
<1>4. \A j \in 1 .. Len(u) - k : RestOf(u, k)[j] = u[k + j]
  BY <1>1 DEF RestOf
<1>5. ASSUME NEW j \in 1 .. Len(s)
      PROVE  u[k + j] = s[j]
  <2>1. j \in 1 .. Len(u) - k
    BY <1>1, <1>3
  <2>2. (s \o r)[j] = s[j]
    BY <1>1
  <2> QED BY <1>4, <2>1, <2>2
<1>6. ASSUME NEW j \in 1 .. Len(r)
      PROVE  u[k + Len(s) + j] = r[j]
  <2>1. Len(s) + j \in 1 .. Len(u) - k
    BY <1>1, <1>3
  <2>2. (s \o r)[Len(s) + j] = r[j]
    BY <1>1
  <2>3. k + (Len(s) + j) = k + Len(s) + j
    BY <1>1
  <2> QED BY <1>4, <2>1, <2>2, <2>3
<1> DEFINE m == k + Len(s)
<1>7. m \in 0 .. Len(u) /\ Len(u) = m + Len(r)
  BY <1>1, <1>3
<1> HIDE DEF m
<1>8. RestOf(u, m) = r
  <2>1. Len(RestOf(u, m)) = Len(r) /\ RestOf(u, m) \in Seq(Int)
    BY <1>1, <1>7 DEF RestOf
  <2>2. \A j \in 1 .. Len(r) : RestOf(u, m)[j] = u[m + j]
    BY <1>1, <1>7 DEF RestOf
  <2>3. \A j \in 1 .. Len(r) : RestOf(u, m)[j] = r[j]
    BY <1>6, <2>2 DEF m
  <2> DEFINE x == RestOf(u, m)
  <2>4. x \in Seq(Int) /\ Len(x) = Len(r) /\ \A j \in 1 .. Len(x) : x[j] = r[j]
    BY <2>1, <2>3
  <2> HIDE DEF x
  <2>5. x = r
    BY <1>1, <2>4, SameText
  <2> QED BY <2>5 DEF x
<1>9. SubSeq(u, k + 1, m) = s
  <2>1. /\ Len(SubSeq(u, k + 1, m)) = Len(s) /\ SubSeq(u, k + 1, m) \in Seq(Int)
    BY <1>1, <1>7 DEF m
  <2>2. \A j \in 1 .. Len(s) : SubSeq(u, k + 1, m)[j] = u[k + j]
    <3>1. m = k + Len(s) /\ m \in Nat /\ k + 1 \in Nat
      BY <1>1 DEF m
    <3>2. SubSeq(u, k + 1, m) = [j \in 1 .. Len(s) |-> u[k + j]]
      BY <1>1, <1>7, <3>1
    <3> QED BY <3>2
  <2>3. \A j \in 1 .. Len(s) : SubSeq(u, k + 1, m)[j] = s[j]
    BY <1>5, <2>2
  <2> DEFINE x == SubSeq(u, k + 1, m)
  <2>4. x \in Seq(Int) /\ Len(x) = Len(s) /\ \A j \in 1 .. Len(x) : x[j] = s[j]
    BY <2>1, <2>3
  <2> HIDE DEF x
  <2>5. x = s
    BY <1>1, <2>4, SameText
  <2> QED BY <2>5 DEF x
<1> QED BY <1>3, <1>5, <1>6, <1>7, <1>8, <1>9 DEF m, Followed

(* The character that fmt points at.                                       *)
LEMMA NextCharacter ==
  ASSUME fmt \in Lines, f \in 0 .. Len(fmt), NEW c \in Int, NEW r \in Lines,
         Rest = <<c>> \o r
  PROVE  /\ Ch = c /\ f + 1 \in 0 .. Len(fmt) /\ RestOf(fmt, f + 1) = r
PROOF
<1> DEFINE s == <<c>>
<1>1. s \in Lines /\ Len(s) = 1 /\ s[1] = c /\ 1 \in 1 .. 1
  BY DEF Lines
<1> HIDE DEF s
<1>2. /\ f + Len(s) \in 0 .. Len(fmt) /\ RestOf(fmt, f + Len(s)) = r
      /\ \A j \in 1 .. Len(s) : fmt[f + j] = s[j]
  <2>1. RestOf(fmt, f) = s \o r
    BY DEF Rest, s
  <2>2. Followed(fmt, f, s, r)
    BY <1>1, <2>1, RestSplits
  <2> QED BY <2>2 DEF Followed
<1>3. Len(fmt) \in Nat
  BY DEF Lines
<1>4. fmt[f + 1] = c
  BY <1>1, <1>2
<1> QED BY <1>1, <1>2, <1>3, <1>4 DEF Ch

(* The end of the format, and text.                                        *)
LEMMA NoCharacter ==
  ASSUME fmt \in Lines, f \in 0 .. Len(fmt), Rest = <<>>
  PROVE  Ch = NUL
PROOF
<1>1. Len(fmt) \in Nat /\ Len(<<>>) = 0
  BY DEF Lines
<1>2. Len(RestOf(fmt, f)) = Len(fmt) - f
  BY <1>1 DEF RestOf, Lines
<1> QED BY <1>1, <1>2 DEF Ch, Rest

(* A text is its first character and its rest.                             *)
LEMMA Unfold ==
  ASSUME NEW s \in Lines, s # <<>>
  PROVE  s[1] \in Int /\ Tail(s) \in Lines /\ s = <<s[1]>> \o Tail(s)
  BY DEF Lines

(* The digits of a number are those up to the first other character.       *)
LEMMA DigitRunIs ==
  ASSUME fmt \in Lines, f \in 0 .. Len(fmt), NEW s \in Lines, NEW r \in Lines,
         Rest = s \o r, Len(s) > 0,
         \A k \in 1 .. Len(s) : s[k] \in DigitChars,
         r = <<>> \/ r[1] \notin DigitChars
  PROVE  DigitRun = Len(s)
PROOF
<1>1. /\ Len(fmt) = f + Len(s) + Len(r)
      /\ \A j \in 1 .. Len(s) : fmt[f + j] = s[j]
      /\ \A j \in 1 .. Len(r) : fmt[f + Len(s) + j] = r[j]
  <2>1. Followed(fmt, f, s, r)
    BY RestSplits DEF Rest
  <2> QED BY <2>1 DEF Followed
<1>2. Len(fmt) \in Nat /\ Len(s) \in Nat /\ Len(r) \in Nat /\ (r = <<>> => Len(r) = 0)
  BY DEF Lines
<1> DEFINE Run(m) == /\ \A k \in 1 .. m : fmt[f + k] \in DigitChars
                     /\ f + m < Len(fmt) => fmt[f + m + 1] \notin DigitChars
<1>3. Run(Len(s)) /\ Len(s) \in 1 .. Len(fmt) - f
  <2>1. \A k \in 1 .. Len(s) : fmt[f + k] \in DigitChars
    BY <1>1
  <2>2. ASSUME f + Len(s) < Len(fmt)
        PROVE  fmt[f + Len(s) + 1] \notin DigitChars
    <3>1. Len(r) > 0 /\ 1 \in 1 .. Len(r)
      BY <1>1, <1>2, <2>2
    <3>2. r # <<>>
      BY <1>2, <3>1
    <3> QED BY <1>1, <3>1, <3>2
  <2>3. Len(s) \in 1 .. Len(fmt) - f
    BY <1>1, <1>2
  <2> QED BY <2>1, <2>2, <2>3
<1>4. ASSUME NEW m \in 1 .. Len(fmt) - f, Run(m)
      PROVE  m = Len(s)
  <2>1. ~(m < Len(s))
    <3> SUFFICES ASSUME m < Len(s) PROVE FALSE
      OBVIOUS
    <3>1. m + 1 \in 1 .. Len(s) /\ f + m < Len(fmt) /\ f + (m + 1) = f + m + 1
      BY <1>1, <1>2
    <3>2. fmt[f + m + 1] \notin DigitChars
      BY <1>4, <3>1
    <3>3. fmt[f + (m + 1)] \in DigitChars
      BY <1>3, <3>1
    <3> QED BY <3>1, <3>2, <3>3
  <2>2. ~(Len(s) < m)
    <3> SUFFICES ASSUME Len(s) < m PROVE FALSE
      OBVIOUS
    <3>1. Len(s) + 1 \in 1 .. m /\ f + Len(s) < Len(fmt) /\ f + (Len(s) + 1) = f + Len(s) + 1
      BY <1>1, <1>2
    <3>2. fmt[f + Len(s) + 1] \notin DigitChars
      BY <1>3, <3>1
    <3>3. fmt[f + (Len(s) + 1)] \in DigitChars
      BY <1>4, <3>1
    <3> QED BY <3>1, <3>2, <3>3
  <2> QED BY <1>2, <2>1, <2>2
<1>5. DigitRun = CHOOSE m \in 1 .. Len(fmt) - f : Run(m)
  BY DEF DigitRun
<1> HIDE DEF Run
<1> QED BY <1>3, <1>4, <1>5

(* The parts of a directive's format, and what follows each of them.       *)
PadText(c) == IF c.pad = Space THEN <<>> ELSE <<c.pad>>
AltText(c) == IF c.alt THEN <<Hash>> ELSE <<>>
PrecText(c) == IF c.prec.how = "none" THEN <<>> ELSE <<Dot>> \o NumberText(c.prec)

FromConv(c) == c.conv \o c.after
FromLong(c, k) == Times(k, LongFlag) \o FromConv(c)
FromPrecNumber(c) == NumberText(c.prec) \o FromLong(c, c.long)
FromPrec(c) == PrecText(c) \o FromLong(c, c.long)
FromWidth(c) == NumberText(c.width) \o FromPrec(c)
FromAlt(c) == AltText(c) \o FromWidth(c)
FromPad(c) == PadText(c) \o FromAlt(c)

(* Amounts.                                                                *)
LEMMA AmountFacts ==
  ASSUME NEW x, IsAmount(x) \/ x.how = "dot"
  PROVE  /\ NumberText(x) \in PlainText
         /\ x.how \in {"none", "digits", "star", "dot"}
         /\ x.how # "dot" => x.v \in Int /\ (x.how = "digits" => x.v \in Nat \ {0})
PROOF
<1>1. x.how # "dot" => x.v \in Int /\ (x.how = "digits" => x.v \in Nat \ {0})
  <2>1. IsAmount(x) => x.v \in Int /\ (x.how = "digits" => x.v \in Nat \ {0})
    BY PrintFmtAssumption DEF IsAmount, Ints
  <2> QED BY <2>1
<1>2. x.how \in {"none", "digits", "star", "dot"}
  BY DEF IsAmount
<1>3. CASE x.how = "digits"
  <2> DEFINE s == NumeralOf(x.v, 10)
  <2>1. x.v \in Nat
    BY <1>1, <1>3
  <2>2. s \in Lines /\ \A k \in 1 .. Len(s) : s[k] \in DigitChars
    BY <2>1, DecimalFacts
  <2>3. \A k \in 1 .. Len(s) : s[k] \in Plain
    BY <2>2 DEF DigitChars, Plain, NUL, Percent
  <2> HIDE DEF s
  <2>4. s = [k \in 1 .. Len(s) |-> s[k]] /\ Len(s) \in Nat
    BY <2>2 DEF Lines
  <2>5. s \in PlainText
    BY <2>3, <2>4 DEF PlainText
  <2> QED BY <1>1, <1>2, <1>3, <2>5 DEF NumberText, s
<1>4. CASE x.how = "star"
  <2>1. Star \in Plain
    BY DEF Star, Plain, NUL, Percent
  <2> QED BY <1>1, <1>2, <1>4, <2>1, PlainOne DEF NumberText
<1>5. CASE x.how \in {"none", "dot"}
  <2>1. <<>> \in PlainText
    BY DEF PlainText
  <2> QED BY <1>1, <1>2, <1>5, <2>1 DEF NumberText
<1> QED BY <1>2, <1>3, <1>4, <1>5

(* The parts are lines, and what is left after each of them is too; nothing *)
(* but the conversion `%%' is read as anything but itself, when it is text.    *)
LEMMA PartsFacts ==
  ASSUME NEW c, IsDirective(c)
  PROVE  /\ PadText(c) \in PlainText /\ AltText(c) \in PlainText
         /\ NumberText(c.width) \in PlainText /\ NumberText(c.prec) \in PlainText
         /\ PrecText(c) \in PlainText
         /\ \A k \in Nat : Times(k, LongFlag) \in PlainText
         /\ c.conv \in Lines /\ c.after \in PlainText
         /\ c.conv # <<Percent>> => c.conv \in PlainText
         /\ c.conv = <<>> => c.after = <<>>
         /\ c.conv # <<>> => /\ c.conv = <<c.conv[1]>> /\ c.conv[1] \in Byte8
                             /\ c.conv[1] \notin Modifiers
         /\ c.long \in Nat
PROOF
<1>1. PadText(c) \in PlainText
  <2>1. c.pad \in {Space, Digit0, Dash}
    BY DEF IsDirective
  <2>2. c.pad \in Plain /\ <<>> \in PlainText
    BY <2>1 DEF Space, Digit0, Dash, Plain, NUL, Percent, PlainText
  <2> QED BY <2>2, PlainOne DEF PadText
<1>2. AltText(c) \in PlainText
  <2>1. Hash \in Plain /\ <<>> \in PlainText
    BY DEF Hash, Plain, NUL, Percent, PlainText
  <2> QED BY <2>1, PlainOne DEF AltText
<1>3. NumberText(c.width) \in PlainText /\ NumberText(c.prec) \in PlainText
  BY AmountFacts DEF IsDirective
<1>4. PrecText(c) \in PlainText
  <2>1. Dot \in Plain /\ <<>> \in PlainText
    BY DEF Dot, Plain, NUL, Percent, PlainText
  <2>2. <<Dot>> \in PlainText
    BY <2>1, PlainOne
  <2>3. <<Dot>> \o NumberText(c.prec) \in PlainText
    BY <1>3, <2>2, PlainFacts
  <2> QED BY <2>1, <2>3 DEF PrecText
<1>5. ASSUME NEW k \in Nat
      PROVE  Times(k, LongFlag) \in PlainText
  <2>1. LongFlag \in Plain
    BY DEF LongFlag, Plain, NUL, Percent
  <2> QED BY <2>1 DEF Times, PlainText
<1>6. c.after \in PlainText
  <2>1. c.after \in Seq(Byte8 \ {Percent})
    BY DEF IsDirective
  <2>2. Byte8 \ {Percent} \subseteq Plain
    BY DEF Byte8, Plain, NUL
  <2> QED BY <2>1, <2>2 DEF PlainText
<1>7. CASE c.conv = <<>>
  <2>1. <<>> \in PlainText /\ <<>> \in Lines
    BY DEF PlainText, Lines
  <2>2. \A ch : <<ch>> # <<>>
    OBVIOUS
  <2>3. c.after = <<>>
    BY <1>7, <2>2, Zenon DEF IsDirective
  <2> QED BY <1>1, <1>2, <1>3, <1>4, <1>5, <1>6, <1>7, <2>1, <2>3 DEF IsDirective
<1>8. CASE c.conv # <<>>
  <2>1. PICK ch \in Byte8 \ Modifiers : c.conv = <<ch>>
    BY <1>8 DEF IsDirective
  <2>2. c.conv[1] = ch /\ ch \in Int /\ ch # NUL
    BY <2>1 DEF Byte8, NUL
  <2>3. c.conv \in Lines
    BY <2>1, <2>2 DEF Lines
  <2>4. ASSUME c.conv # <<Percent>>
        PROVE  c.conv \in PlainText
    <3>1. ch # Percent
      BY <2>1, <2>4
    <3>2. ch \in Plain
      BY <2>2, <3>1 DEF Plain
    <3> QED BY <2>1, <3>2, PlainOne
  <2> QED BY <1>1, <1>2, <1>3, <1>4, <1>5, <1>6, <1>8, <2>1, <2>2, <2>3, <2>4
             DEF IsDirective
<1> QED BY <1>7, <1>8

(* What is left is lines.                                                  *)
LEMMA TailsFacts ==
  ASSUME NEW c, IsDirective(c)
  PROVE  /\ FromConv(c) \in Lines /\ FromPrecNumber(c) \in Lines /\ FromPrec(c) \in Lines
         /\ FromWidth(c) \in Lines /\ FromAlt(c) \in Lines /\ FromPad(c) \in Lines
         /\ \A k \in Nat : FromLong(c, k) \in Lines
         /\ c.conv # <<Percent>> => FromPad(c) \in PlainText
PROOF
<1> DEFINE Closed(S) == \A s \in S, t \in S : s \o t \in S
<1>1. Closed(Lines) /\ Closed(PlainText) /\ \A s \in PlainText : s \in Lines
  BY DEF Lines, PlainText, Plain
<1>2. /\ PadText(c) \in PlainText /\ AltText(c) \in PlainText
      /\ NumberText(c.width) \in PlainText /\ NumberText(c.prec) \in PlainText
      /\ PrecText(c) \in PlainText
      /\ \A k \in Nat : Times(k, LongFlag) \in PlainText
      /\ c.conv \in Lines /\ c.after \in PlainText /\ c.long \in Nat
      /\ c.conv # <<Percent>> => c.conv \in PlainText
  BY PartsFacts
<1>3. ASSUME NEW S, Closed(S), PlainText \subseteq S, c.conv \in S
      PROVE  /\ FromConv(c) \in S /\ FromPrecNumber(c) \in S /\ FromPrec(c) \in S
             /\ FromWidth(c) \in S /\ FromAlt(c) \in S /\ FromPad(c) \in S
             /\ \A k \in Nat : FromLong(c, k) \in S
  <2>1. FromConv(c) \in S
    BY <1>2, <1>3 DEF FromConv
  <2>2. \A k \in Nat : FromLong(c, k) \in S
    BY <1>2, <1>3, <2>1 DEF FromLong
  <2>3. FromPrecNumber(c) \in S /\ FromPrec(c) \in S
    BY <1>2, <1>3, <2>2 DEF FromPrecNumber, FromPrec
  <2>4. FromWidth(c) \in S
    BY <1>2, <1>3, <2>3 DEF FromWidth
  <2>5. FromAlt(c) \in S
    BY <1>2, <1>3, <2>4 DEF FromAlt
  <2>6. FromPad(c) \in S
    BY <1>2, <1>3, <2>5 DEF FromPad
  <2> QED BY <2>1, <2>2, <2>3, <2>4, <2>5, <2>6
<1> HIDE DEF Closed
<1>4. PlainText \subseteq Lines
  BY <1>1
<1>5. /\ FromConv(c) \in Lines /\ FromPrecNumber(c) \in Lines /\ FromPrec(c) \in Lines
      /\ FromWidth(c) \in Lines /\ FromAlt(c) \in Lines /\ FromPad(c) \in Lines
      /\ \A k \in Nat : FromLong(c, k) \in Lines
  BY <1>1, <1>2, <1>3, <1>4, Zenon
<1>6. c.conv # <<Percent>> => FromPad(c) \in PlainText
  BY <1>1, <1>2, <1>3
<1> QED BY <1>5, <1>6

(* The format is its parts one after another.                              *)
LEMMA FormatShape ==
  ASSUME NEW c, IsDirective(c)
  PROVE  /\ FormatOf(c) = <<Percent>> \o FromPad(c)
         /\ Directive(c) \in Lines /\ FormatOf(c) \in Lines
PROOF
<1> DEFINE a == <<Percent>>  b == PadText(c)  d == AltText(c)  e == NumberText(c.width)
           g == PrecText(c)  h == Times(c.long, LongFlag)  k == c.conv  z == c.after
<1>1. /\ a \in Lines /\ b \in Lines /\ d \in Lines /\ e \in Lines /\ g \in Lines
      /\ h \in Lines /\ k \in Lines /\ z \in Lines
  <2>1. \A s \in PlainText : s \in Lines
    BY DEF Lines, PlainText, Plain
  <2>2. a \in Lines
    BY DEF Lines, Percent
  <2> QED BY <2>1, <2>2, PartsFacts
<1>2. FromPad(c) = b \o (d \o (e \o (g \o (h \o (k \o z)))))
  BY DEF FromPad, FromAlt, FromWidth, FromPrec, FromLong, FromConv
<1>3. Directive(c) = (((((a \o b) \o d) \o e) \o g) \o h) \o k
  BY DEF Directive, PadText, AltText, PrecText
<1>4. FormatOf(c) = Directive(c) \o z
  BY DEF FormatOf
<1> HIDE DEF a, b, d, e, g, h, k, z
<1> DEFINE s1 == k \o z  s2 == h \o s1  s3 == g \o s2  s4 == e \o s3  s5 == d \o s4
           t1 == a \o b  t2 == t1 \o d  t3 == t2 \o e  t4 == t3 \o g  t5 == t4 \o h
           t6 == t5 \o k
<1>5. /\ s1 \in Lines /\ s2 \in Lines /\ s3 \in Lines /\ s4 \in Lines /\ s5 \in Lines
      /\ t1 \in Lines /\ t2 \in Lines /\ t3 \in Lines /\ t4 \in Lines /\ t5 \in Lines
      /\ t6 \in Lines /\ t6 \o z \in Lines
  <2>1. \A s \in Lines, t \in Lines : s \o t \in Lines
    BY JoinFacts
  <2>2. s1 \in Lines
    BY <1>1, <2>1
  <2>3. s2 \in Lines
    BY <1>1, <2>1, <2>2
  <2>4. s3 \in Lines
    BY <1>1, <2>1, <2>3
  <2>5. s4 \in Lines
    BY <1>1, <2>1, <2>4
  <2>6. s5 \in Lines
    BY <1>1, <2>1, <2>5
  <2>7. t1 \in Lines
    BY <1>1, <2>1
  <2>8. t2 \in Lines
    BY <1>1, <2>1, <2>7
  <2>9. t3 \in Lines
    BY <1>1, <2>1, <2>8
  <2>10. t4 \in Lines
    BY <1>1, <2>1, <2>9
  <2>11. t5 \in Lines
    BY <1>1, <2>1, <2>10
  <2>12. t6 \in Lines
    BY <1>1, <2>1, <2>11
  <2> QED BY <1>1, <2>1, <2>2, <2>3, <2>4, <2>5, <2>6, <2>7, <2>8, <2>9, <2>10, <2>11, <2>12
<1>6. /\ s1 = k \o z /\ s2 = h \o s1 /\ s3 = g \o s2 /\ s4 = e \o s3 /\ s5 = d \o s4
      /\ t1 = a \o b /\ t2 = t1 \o d /\ t3 = t2 \o e /\ t4 = t3 \o g /\ t5 = t4 \o h
      /\ t6 = t5 \o k
  OBVIOUS
<1>7. FormatOf(c) = t6 \o z /\ FromPad(c) = b \o s5 /\ Directive(c) = t6
  BY <1>2, <1>3, <1>4
<1> HIDE DEF s1, s2, s3, s4, s5, t1, t2, t3, t4, t5, t6
<1>8. a \o (b \o s5) = t6 \o z
  <2>1. t6 \o z = t5 \o s1
    <3>1. t5 \in Lines /\ k \in Lines /\ z \in Lines /\ t6 = t5 \o k /\ s1 = k \o z
      BY <1>1, <1>5, <1>6
    <3> QED BY <3>1, Associative
  <2>2. t5 \o s1 = t4 \o s2
    <3>1. t4 \in Lines /\ h \in Lines /\ s1 \in Lines /\ t5 = t4 \o h /\ s2 = h \o s1
      BY <1>1, <1>5, <1>6
    <3> QED BY <3>1, Associative
  <2>3. t4 \o s2 = t3 \o s3
    <3>1. t3 \in Lines /\ g \in Lines /\ s2 \in Lines /\ t4 = t3 \o g /\ s3 = g \o s2
      BY <1>1, <1>5, <1>6
    <3> QED BY <3>1, Associative
  <2>4. t3 \o s3 = t2 \o s4
    <3>1. t2 \in Lines /\ e \in Lines /\ s3 \in Lines /\ t3 = t2 \o e /\ s4 = e \o s3
      BY <1>1, <1>5, <1>6
    <3> QED BY <3>1, Associative
  <2>5. t2 \o s4 = t1 \o s5
    <3>1. t1 \in Lines /\ d \in Lines /\ s4 \in Lines /\ t2 = t1 \o d /\ s5 = d \o s4
      BY <1>1, <1>5, <1>6
    <3> QED BY <3>1, Associative
  <2>6. t1 \o s5 = a \o (b \o s5)
    <3>1. a \in Lines /\ b \in Lines /\ s5 \in Lines /\ t1 = a \o b
      BY <1>1, <1>5, <1>6
    <3> QED BY <3>1, Associative
  <2> QED BY <2>1, <2>2, <2>3, <2>4, <2>5, <2>6
<1> QED BY <1>5, <1>7, <1>8 DEF a

(* What the width and the precision are when the directive has been read,  *)
(* and the arguments from the precision's and the conversion's on.         *)
WidthRead(c) == IF c.width.how = "none" THEN -1 ELSE c.width.v
WidthFinal(c) == IF c.prec.how # "none" /\ WidthRead(c) < 0 THEN 0 ELSE WidthRead(c)
PrecRead(c) == IF c.prec.how \in {"digits", "star"} THEN c.prec.v ELSE -1

ConvArgs(c) == IF c.conv # <<>> /\ c.conv[1] \in Conversions THEN <<c.arg>> ELSE <<>>
PrecArgs(c) == (IF c.prec.how = "star" THEN <<c.prec.v>> ELSE <<>>) \o ConvArgs(c)

(* An argument at a time.                                                  *)
LEMMA HeadTail ==
  ASSUME NEW S, NEW v \in S, NEW t \in Seq(S)
  PROVE  Head(<<v>> \o t) = v /\ Tail(<<v>> \o t) = t /\ <<v>> \o t \in Seq(S)
         /\ <<>> \o t = t
PROOF
<1>1. <<v>> \o t \in Seq(S) /\ Len(<<v>> \o t) = Len(t) + 1 /\ Len(t) \in Nat
  OBVIOUS
<1>2. (<<v>> \o t)[1] = v /\ \A k \in 1 .. Len(t) : (<<v>> \o t)[k + 1] = t[k]
  OBVIOUS
<1>3. Head(<<v>> \o t) = v
  BY <1>1, <1>2
<1>4. Tail(<<v>> \o t) = [k \in 1 .. Len(t) |-> (<<v>> \o t)[k + 1]]
  BY <1>1
<1>5. t = [k \in 1 .. Len(t) |-> t[k]]
  OBVIOUS
<1>6. Tail(<<v>> \o t) = t
  BY <1>2, <1>4, <1>5
<1>7. <<>> \o t = t
  OBVIOUS
<1> QED BY <1>1, <1>3, <1>6, <1>7

(* va_arg takes the arguments of a directive in the order width,           *)
(* precision, value.                                                       *)
LEMMA ArgsFacts ==
  ASSUME NEW c
  PROVE  /\ c.width.how = "star" =>
              Head(ArgsOf(c)) = c.width.v /\ Tail(ArgsOf(c)) = PrecArgs(c)
         /\ c.width.how # "star" => ArgsOf(c) = PrecArgs(c)
         /\ c.prec.how = "star" =>
              Head(PrecArgs(c)) = c.prec.v /\ Tail(PrecArgs(c)) = ConvArgs(c)
         /\ c.prec.how # "star" => PrecArgs(c) = ConvArgs(c)
PROOF
<1> DEFINE S == {c.width.v, c.prec.v, c.arg}
           a == IF c.width.how = "star" THEN <<c.width.v>> ELSE <<>>
           b == IF c.prec.how = "star" THEN <<c.prec.v>> ELSE <<>>
           e == ConvArgs(c)
<1>1. c.width.v \in S /\ c.prec.v \in S /\ c.arg \in S
  OBVIOUS
<1> HIDE DEF S
<1>2. e \in Seq(S)
  BY <1>1 DEF ConvArgs
<1>3. a \in Seq(S) /\ b \in Seq(S)
  BY <1>1
<1>4. PrecArgs(c) = b \o e
  BY DEF PrecArgs
<1>5. ArgsOf(c) = (a \o b) \o e
  BY DEF ArgsOf, ConvArgs
<1>6. (c.width.how = "star" => a = <<c.width.v>>) /\ (c.width.how # "star" => a = <<>>)
      /\ (c.prec.how = "star" => b = <<c.prec.v>>) /\ (c.prec.how # "star" => b = <<>>)
  OBVIOUS
<1> HIDE DEF a, b, e
<1>7. (a \o b) \o e = a \o (b \o e) /\ b \o e \in Seq(S)
  BY <1>2, <1>3
<1>8. ASSUME c.width.how = "star"
      PROVE  Head(ArgsOf(c)) = c.width.v /\ Tail(ArgsOf(c)) = PrecArgs(c)
  <2> DEFINE t == b \o e
  <2>1. t \in Seq(S) /\ PrecArgs(c) = t /\ ArgsOf(c) = <<c.width.v>> \o t
    BY <1>4, <1>5, <1>6, <1>7, <1>8
  <2> HIDE DEF t
  <2> QED BY <1>1, <2>1, HeadTail
<1>9. c.width.how # "star" => ArgsOf(c) = PrecArgs(c)
  BY <1>1, <1>4, <1>5, <1>6, <1>7, HeadTail
<1>10. ASSUME c.prec.how = "star"
       PROVE  Head(PrecArgs(c)) = c.prec.v /\ Tail(PrecArgs(c)) = e
  <2>1. PrecArgs(c) = <<c.prec.v>> \o e
    BY <1>4, <1>6, <1>10
  <2> QED BY <1>1, <1>2, <2>1, HeadTail
<1>11. c.prec.how # "star" => PrecArgs(c) = e
  BY <1>1, <1>2, <1>4, <1>6, HeadTail
<1> QED BY <1>8, <1>9, <1>10, <1>11 DEF e

(* Where in the directive fmt points, and what has been read of it.        *)
Flags(p, a, w, x, l) ==
  padc = p /\ altflag = a /\ width = w /\ precision = x /\ lflag = l

AtPad(c) == Rest = FromPad(c) /\ args = ArgsOf(c) /\ Flags(Space, FALSE, -1, -1, 0)
AtAlt(c) == Rest = FromAlt(c) /\ args = ArgsOf(c) /\ Flags(c.pad, FALSE, -1, -1, 0)
AtWidth(c) == Rest = FromWidth(c) /\ args = ArgsOf(c) /\ Flags(c.pad, c.alt, -1, -1, 0)
AtPrec(c) ==
  Rest = FromPrec(c) /\ args = PrecArgs(c) /\ Flags(c.pad, c.alt, WidthRead(c), -1, 0)
AtPrecNumber(c) ==
  /\ Rest = FromPrecNumber(c) /\ args = PrecArgs(c) /\ c.prec.how # "none"
  /\ Flags(c.pad, c.alt, WidthFinal(c), -1, 0)
AtLong(c, k) ==
  /\ Rest = FromLong(c, k) /\ args = ConvArgs(c)
  /\ Flags(c.pad, c.alt, WidthFinal(c), PrecRead(c), c.long - k)

InDirective(c) ==
  \/ AtPad(c) \/ AtAlt(c) \/ AtWidth(c) \/ AtPrec(c) \/ AtPrecNumber(c)
  \/ \E k \in 0 .. c.long : AtLong(c, k)

Reading(c) ==
  /\ fmt = FormatOf(c) /\ f \in 1 .. Len(fmt)
  /\ inEscape = TRUE /\ pending = <<>>

(* The character decides which step is taken.                              *)
LEMMA Dispatch ==
  ASSUME inEscape = TRUE, vprintfmt
  PROVE  /\ Ch \in {Dash, Digit0} => Flag /\ padc' = Ch
                /\ UNCHANGED <<width, precision, lflag, altflag>>
         /\ Ch = Dot => Flag /\ width' = (IF width < 0 THEN 0 ELSE width)
                /\ UNCHANGED <<padc, precision, lflag, altflag>>
         /\ Ch = Hash => Flag /\ altflag' = TRUE
                /\ UNCHANGED <<padc, width, precision, lflag>>
         /\ Ch = LongFlag => Flag /\ lflag' = lflag + 1
                /\ UNCHANGED <<padc, width, precision, altflag>>
         /\ Ch \in NonZero => Digits
         /\ Ch = Star => NumberArgument
         /\ Ch \in Conversions => Convert
         /\ Ch = Percent => EscapedPercent
         /\ Ch \notin Conversions \cup Modifiers \cup {Percent} => Unrecognized
PROOF
<1> DEFINE x == Ch
<1>1. Flag \/ Digits \/ NumberArgument \/ Convert \/ EscapedPercent \/ Unrecognized
  BY DEF vprintfmt, Literal, StartEscape
<1>2. Flag => x \in {Dash, Digit0, Dot, Hash, LongFlag}
  BY DEF Flag
<1>3. /\ Digits => x \in NonZero
      /\ NumberArgument => x = Star
      /\ Convert => x \in Conversions
      /\ EscapedPercent => x = Percent
      /\ Unrecognized => x \notin Conversions \cup Modifiers \cup {Percent}
  BY DEF Digits, NumberArgument, Convert, EscapedPercent, Unrecognized
<1>4. Flag => \/ x \in {Dash, Digit0} /\ padc' = x
                 /\ UNCHANGED <<width, precision, lflag, altflag>>
              \/ x = Dot /\ width' = (IF width < 0 THEN 0 ELSE width)
                 /\ UNCHANGED <<padc, precision, lflag, altflag>>
              \/ x = Hash /\ altflag' = TRUE
                 /\ UNCHANGED <<padc, width, precision, lflag>>
              \/ x = LongFlag /\ lflag' = lflag + 1
                 /\ UNCHANGED <<padc, width, precision, altflag>>
  BY DEF Flag
<1> HIDE DEF x
<1>5. /\ x \in {Dash, Digit0, Dot, Hash, LongFlag} => Flag
      /\ x \in NonZero => Digits
      /\ x = Star => NumberArgument
      /\ x \in Conversions => Convert
      /\ x = Percent => EscapedPercent
      /\ x \notin Conversions \cup Modifiers \cup {Percent} => Unrecognized
  BY <1>1, <1>2, <1>3
     DEF NonZero, Conversions, Modifiers, Dash, Digit0, Dot, Hash, LongFlag, Star, Percent
<1>6. /\ Dot \notin {Dash, Digit0, Hash, LongFlag}
      /\ Hash \notin {Dash, Digit0, LongFlag} /\ LongFlag \notin {Dash, Digit0}
  BY DEF Dash, Digit0, Dot, Hash, LongFlag
<1>7. /\ x \in {Dash, Digit0} => padc' = x
                /\ UNCHANGED <<width, precision, lflag, altflag>>
      /\ x = Dot => width' = (IF width < 0 THEN 0 ELSE width)
                /\ UNCHANGED <<padc, precision, lflag, altflag>>
      /\ x = Hash => altflag' = TRUE
                /\ UNCHANGED <<padc, width, precision, lflag>>
      /\ x = LongFlag => lflag' = lflag + 1
                /\ UNCHANGED <<padc, width, precision, altflag>>
  BY <1>4, <1>5, <1>6
<1> QED BY <1>5, <1>7 DEF x

(* One character of the directive is read.                                 *)
LEMMA OneRead ==
  ASSUME NEW c, IsDirective(c), Reading(c), NEW x \in Int, NEW r \in Lines,
         Rest = <<x>> \o r
  PROVE  Ch = x /\ f + 1 \in 1 .. Len(fmt) /\ RestOf(fmt, f + 1) = r
PROOF
<1>1. fmt \in Lines
  BY FormatShape DEF Reading
<1>2. Len(fmt) \in Nat /\ f \in 0 .. Len(fmt)
  BY <1>1 DEF Lines, Reading
<1>3. Ch = x /\ f + 1 \in 0 .. Len(fmt) /\ RestOf(fmt, f + 1) = r
  BY <1>1, <1>2, NextCharacter
<1> QED BY <1>2, <1>3

(* A flag moves fmt and takes no argument.                                 *)
LEMMA FlagMoves ==
  ASSUME NEW c, IsDirective(c), Reading(c), NEW x \in Int, NEW r \in Lines,
         Rest = <<x>> \o r, Flag
  PROVE  Reading(c)' /\ Rest' = r /\ args' = args
PROOF
<1>1. f + 1 \in 1 .. Len(fmt) /\ RestOf(fmt, f + 1) = r
  BY OneRead
<1>2. f' = f + 1 /\ fmt' = fmt /\ args' = args /\ inEscape' = inEscape /\ pending' = pending
  BY DEF Flag
<1> QED BY <1>1, <1>2 DEF Reading, Rest

(* A - or a 0 sets the padding.                                            *)
LEMMA OnPad ==
  ASSUME NEW c, IsDirective(c), Reading(c), AtPad(c), c.pad # Space, vprintfmt
  PROVE  Reading(c)' /\ AtAlt(c)'
PROOF
<1>1. c.pad \in {Dash, Digit0} /\ c.pad \in Int
  BY DEF IsDirective, Dash, Digit0
<1>2. FromAlt(c) \in Lines
  BY TailsFacts
<1>3. Rest = <<c.pad>> \o FromAlt(c)
  BY DEF AtPad, FromPad, PadText
<1>4. Ch = c.pad
  BY <1>1, <1>2, <1>3, OneRead
<1>5. Flag /\ padc' = c.pad /\ UNCHANGED <<width, precision, lflag, altflag>>
  BY <1>1, <1>4, Dispatch DEF Reading
<1>6. Reading(c)' /\ Rest' = FromAlt(c) /\ args' = args
  BY <1>1, <1>2, <1>3, <1>5, FlagMoves
<1> QED BY <1>5, <1>6 DEF AtPad, AtAlt, Flags

(* A # sets the alternate form.                                            *)
LEMMA OnAlt ==
  ASSUME NEW c, IsDirective(c), Reading(c), AtAlt(c), c.alt, vprintfmt
  PROVE  Reading(c)' /\ AtWidth(c)'
PROOF
<1>1. Hash \in Int /\ c.alt = TRUE
  BY DEF IsDirective, Hash
<1>2. FromWidth(c) \in Lines
  BY TailsFacts
<1>3. Rest = <<Hash>> \o FromWidth(c)
  BY <1>1 DEF AtAlt, FromAlt, AltText
<1>4. Ch = Hash
  BY <1>1, <1>2, <1>3, OneRead
<1>5. Flag /\ altflag' = TRUE /\ UNCHANGED <<padc, width, precision, lflag>>
  BY <1>4, Dispatch DEF Reading
<1>6. Reading(c)' /\ Rest' = FromWidth(c) /\ args' = args
  BY <1>1, <1>2, <1>3, <1>5, FlagMoves
<1> QED BY <1>1, <1>5, <1>6 DEF AtAlt, AtWidth, Flags

(* A . ends the width: from now on a number is the precision.              *)
LEMMA OnDot ==
  ASSUME NEW c, IsDirective(c), Reading(c), AtPrec(c), c.prec.how # "none", vprintfmt
  PROVE  Reading(c)' /\ AtPrecNumber(c)'
PROOF
<1>1. Dot \in Int
  BY DEF Dot
<1>2. FromPrecNumber(c) \in Lines /\ NumberText(c.prec) \in Lines
      /\ FromLong(c, c.long) \in Lines /\ <<Dot>> \in Lines
  <2>1. NumberText(c.prec) \in PlainText /\ c.long \in Nat
    BY PartsFacts
  <2>2. \A s \in PlainText : s \in Lines
    BY DEF Lines, PlainText, Plain
  <2>3. NumberText(c.prec) \in Lines
    BY <2>1, <2>2
  <2>4. FromPrecNumber(c) \in Lines /\ \A k \in Nat : FromLong(c, k) \in Lines
    BY TailsFacts
  <2>5. <<Dot>> \in Lines
    BY <1>1 DEF Lines
  <2> QED BY <2>1, <2>3, <2>4, <2>5
<1>3. Rest = <<Dot>> \o FromPrecNumber(c)
  <2>1. Rest = (<<Dot>> \o NumberText(c.prec)) \o FromLong(c, c.long)
    BY DEF AtPrec, FromPrec, PrecText
  <2>2. FromPrecNumber(c) = NumberText(c.prec) \o FromLong(c, c.long)
    BY DEF FromPrecNumber
  <2> QED BY <1>2, <2>1, <2>2, Associative
<1>4. Ch = Dot
  BY <1>1, <1>2, <1>3, OneRead
<1>5. Flag /\ width' = (IF width < 0 THEN 0 ELSE width)
      /\ UNCHANGED <<padc, precision, lflag, altflag>>
  BY <1>4, Dispatch DEF Reading
<1>6. Reading(c)' /\ Rest' = FromPrecNumber(c) /\ args' = args
  BY <1>1, <1>2, <1>3, <1>5, FlagMoves
<1>7. width' = WidthFinal(c)
  BY <1>5 DEF AtPrec, Flags, WidthFinal
<1> QED BY <1>5, <1>6, <1>7 DEF AtPrec, AtPrecNumber, Flags

(* An l is counted.                                                        *)
LEMMA OnLongFlag ==
  ASSUME NEW c, IsDirective(c), Reading(c), NEW k \in 1 .. c.long, AtLong(c, k), vprintfmt
  PROVE  Reading(c)' /\ AtLong(c, k - 1)'
PROOF
<1>1. LongFlag \in Int /\ c.long \in Nat /\ k - 1 \in Nat /\ k \in Nat
  BY DEF LongFlag, IsDirective
<1>2. FromLong(c, k - 1) \in Lines /\ FromConv(c) \in Lines /\ <<LongFlag>> \in Lines
  BY <1>1, TailsFacts DEF Lines
<1>3. Times(k, LongFlag) = <<LongFlag>> \o Times(k - 1, LongFlag)
      /\ Times(k - 1, LongFlag) \in Lines
  <2> DEFINE s == Times(k, LongFlag)  t == <<LongFlag>> \o Times(k - 1, LongFlag)
  <2>1. Times(k - 1, LongFlag) \in Lines /\ Len(Times(k - 1, LongFlag)) = k - 1
        /\ s \in Lines /\ Len(s) = k
    BY <1>1, TimesFacts
  <2>2. t \in Lines /\ Len(t) = k
    BY <1>1, <1>2, <2>1 DEF Lines
  <2>3. \A j \in 1 .. k : s[j] = LongFlag
    BY DEF Times
  <2>4. \A j \in 1 .. k : t[j] = LongFlag
    <3> TAKE j \in 1 .. k
    <3>1. \A i0 \in 1 .. k - 1 : Times(k - 1, LongFlag)[i0] = LongFlag
      BY DEF Times
    <3>2. CASE j = 1
      BY <1>1, <2>1, <3>2 DEF Lines
    <3>3. CASE j # 1
      <4>1. j - 1 \in 1 .. k - 1
        BY <1>1, <3>3
      <4>2. t[j] = Times(k - 1, LongFlag)[j - 1]
        BY <1>1, <2>1, <3>3, <4>1 DEF Lines
      <4> QED BY <3>1, <4>1, <4>2
    <3> QED BY <3>2, <3>3
  <2> HIDE DEF s, t
  <2>5. s = t
    BY <2>1, <2>2, <2>3, <2>4, SameText DEF Lines
  <2> QED BY <2>1, <2>5 DEF s, t
<1>4. Rest = <<LongFlag>> \o FromLong(c, k - 1)
  <2> DEFINE a == <<LongFlag>>  b == Times(k - 1, LongFlag)  z == FromConv(c)
  <2>1. a \in Lines /\ b \in Lines /\ z \in Lines
    BY <1>2, <1>3
  <2>2. Rest = (a \o b) \o z /\ FromLong(c, k - 1) = b \o z
    BY <1>3 DEF AtLong, FromLong
  <2> HIDE DEF a, b, z
  <2>3. (a \o b) \o z = a \o (b \o z)
    BY <2>1, Associative
  <2>4. Rest = a \o FromLong(c, k - 1)
    BY <2>2, <2>3
  <2> QED BY <2>4 DEF a
<1>5. Ch = LongFlag
  BY <1>1, <1>2, <1>4, OneRead
<1>6. Flag /\ lflag' = lflag + 1 /\ UNCHANGED <<padc, width, precision, altflag>>
  BY <1>5, Dispatch DEF Reading
<1>7. Reading(c)' /\ Rest' = FromLong(c, k - 1) /\ args' = args
  BY <1>1, <1>2, <1>4, <1>6, FlagMoves
<1>8. lflag' = c.long - (k - 1)
  BY <1>1, <1>6 DEF AtLong, Flags
<1> QED BY <1>6, <1>7, <1>8 DEF AtLong, Flags

(* What a number may be followed by.                                       *)
EndsNumber(r) == r = <<>> \/ r[1] \notin DigitChars

(* What follows a width or a precision in the format is not a digit.       *)
LEMMA NumberEnds ==
  ASSUME NEW c, IsDirective(c)
  PROVE  /\ \A k \in Nat : EndsNumber(FromLong(c, k))
         /\ EndsNumber(FromPrec(c))
PROOF
<1> DEFINE z == FromConv(c)
<1>1. \A r \in Lines, s \in Lines : r # <<>> => (r \o s)[1] = r[1]
  BY DEF Lines
<1>2. \A s \in Lines : <<>> \o s = s
  BY JoinFacts DEF Lines
<1>3. /\ z \in Lines /\ \A k \in Nat : FromLong(c, k) \in Lines
  BY TailsFacts
<1>4. /\ c.conv \in Lines /\ (c.conv = <<>> => c.after = <<>>)
      /\ c.conv # <<>> => c.conv[1] \notin Modifiers
      /\ c.long \in Nat /\ c.after \in PlainText /\ NumberText(c.prec) \in PlainText
  BY PartsFacts
<1>5. \A s \in PlainText : s \in Lines
  BY DEF Lines, PlainText, Plain
<1>6. EndsNumber(z)
  <2>1. CASE c.conv = <<>>
    <3>1. z = <<>> \o <<>> /\ <<>> \in Lines
      BY <1>4, <2>1 DEF FromConv, Lines
    <3>2. z = <<>>
      BY <1>2, <3>1
    <3> QED BY <3>2 DEF EndsNumber
  <2>2. CASE c.conv # <<>>
    <3>1. z[1] = c.conv[1]
      <4>1. c.conv \in Lines /\ c.after \in Lines
        BY <1>4, <1>5
      <4> QED BY <1>1, <2>2, <4>1 DEF FromConv
    <3>2. c.conv[1] \notin DigitChars
      <4>1. c.conv[1] \notin Modifiers
        BY <1>4, <2>2
      <4> QED BY <4>1 DEF Modifiers, NonZero, DigitChars, Digit0
    <3> QED BY <3>1, <3>2 DEF EndsNumber
  <2> QED BY <2>1, <2>2
<1> HIDE DEF z
<1>7. ASSUME NEW k \in Nat
      PROVE  EndsNumber(FromLong(c, k))
  <2> DEFINE t == Times(k, LongFlag)
  <2>1. t \in Lines /\ (k = 0 => t = <<>>) /\ Len(t) = k
    BY TimesFacts DEF LongFlag
  <2>2. FromLong(c, k) = t \o z
    BY DEF FromLong, z
  <2>3. CASE k = 0
    <3>1. t = <<>>
      BY <2>1, <2>3
    <3> HIDE DEF t
    <3>2. FromLong(c, k) = z
      BY <1>2, <1>3, <2>2, <3>1
    <3> QED BY <1>6, <3>2
  <2>4. CASE k # 0
    <3>1. t[1] = LongFlag
      BY <2>4 DEF Times
    <3> HIDE DEF t
    <3>2. t # <<>>
      BY <2>1, <2>4
    <3>3. FromLong(c, k)[1] = LongFlag
      BY <1>1, <1>3, <2>1, <2>2, <3>1, <3>2
    <3> QED BY <3>3 DEF EndsNumber, LongFlag, DigitChars
  <2> QED BY <2>3, <2>4
<1>8. EndsNumber(FromPrec(c))
  <2> DEFINE y == FromLong(c, c.long)
  <2>1. y \in Lines /\ EndsNumber(y)
    BY <1>3, <1>4, <1>7
  <2>2. FromPrec(c) = PrecText(c) \o y
    BY DEF FromPrec
  <2> HIDE DEF y
  <2>3. CASE c.prec.how = "none"
    <3>1. PrecText(c) = <<>>
      BY <2>3 DEF PrecText
    <3>2. FromPrec(c) = y
      BY <1>2, <2>1, <2>2, <3>1
    <3> QED BY <2>1, <3>2
  <2>4. CASE c.prec.how # "none"
    <3>1. <<Dot>> \in Lines /\ NumberText(c.prec) \in Lines
      BY <1>4, <1>5 DEF Dot, Lines
    <3>2. PrecText(c) \in Lines /\ PrecText(c) # <<>> /\ PrecText(c)[1] = Dot
      BY <2>4, <3>1 DEF PrecText, Lines
    <3>3. FromPrec(c)[1] = Dot
      BY <1>1, <2>1, <2>2, <3>2
    <3> QED BY <3>3 DEF EndsNumber, Dot, DigitChars
  <2> QED BY <2>3, <2>4
<1> QED BY <1>7, <1>8

(* A number in the format is read whole.                                   *)
LEMMA OnNumber ==
  ASSUME NEW c, IsDirective(c), Reading(c), NEW v \in Nat \ {0}, NEW r \in Lines,
         Rest = NumeralOf(v, 10) \o r, EndsNumber(r), vprintfmt
  PROVE  /\ Reading(c)' /\ Rest' = r /\ args' = args
         /\ TakeNumber(v) /\ UNCHANGED <<padc, lflag, altflag>>
PROOF
<1> DEFINE s == NumeralOf(v, 10)
<1>1. /\ s \in Lines /\ Len(s) \in Nat \ {0} /\ s[1] \in NonZero
      /\ \A k \in 1 .. Len(s) : s[k] \in DigitChars
  <2> DEFINE l == LengthOf(v, 10)
  <2>1. v \in Nat /\ v > 0
    OBVIOUS
  <2>2. /\ l \in Nat \ {0} /\ s \in Lines /\ Len(s) = l
        /\ \A k \in 1 .. l : s[k] \in DigitChars
        /\ v > 0 => s[1] \in NonZero
    BY <2>1, DecimalFacts
  <2> HIDE DEF s, l
  <2> QED BY <2>1, <2>2
<1>2. fmt \in Lines /\ f \in 0 .. Len(fmt) /\ Len(fmt) \in Nat /\ f \in 1 .. Len(fmt)
  <2>1. fmt \in Lines
    BY FormatShape DEF Reading
  <2> QED BY <2>1 DEF Lines, Reading
<1>3. NumberRead(s) = v
  BY ReadBack
<1>4. RestOf(fmt, f) = s \o r
  BY DEF Rest
<1> HIDE DEF s
<1>5. Followed(fmt, f, s, r)
  BY <1>1, <1>2, <1>4, RestSplits
<1>6. DigitRun = Len(s)
  <2>1. Len(s) > 0
    <3>1. Len(s) \in Nat \ {0}
      BY <1>1
    <3> QED BY <3>1
  <2>3. Rest = s \o r
    BY <1>4 DEF Rest
  <2>2. r = <<>> \/ r[1] \notin DigitChars
    BY DEF EndsNumber
  <2>4. s \in Lines /\ \A k \in 1 .. Len(s) : s[k] \in DigitChars
    BY <1>1
  <2> QED BY <1>2, <2>1, <2>2, <2>3, <2>4, DigitRunIs
<1>7. Ch = s[1]
  <2>1. /\ f + Len(s) \in 0 .. Len(fmt) /\ \A j \in 1 .. Len(s) : fmt[f + j] = s[j]
    BY <1>5 DEF Followed
  <2>2. 1 \in 1 .. Len(s) /\ f < Len(fmt)
    BY <1>1, <1>2, <2>1
  <2>3. fmt[f + 1] = s[1]
    BY <2>1, <2>2
  <2> QED BY <2>2, <2>3 DEF Ch
<1>8. Digits
  BY <1>1, <1>7, Dispatch DEF Reading
<1>9. /\ f' = f + Len(s) /\ fmt' = fmt /\ args' = args
      /\ inEscape' = inEscape /\ pending' = pending
      /\ TakeNumber(NumberRead(SubSeq(fmt, f + 1, f + Len(s))))
      /\ UNCHANGED <<padc, lflag, altflag>>
  BY <1>6, <1>8 DEF Digits
<1>10. /\ f + Len(s) \in 0 .. Len(fmt) /\ RestOf(fmt, f + Len(s)) = r
       /\ SubSeq(fmt, f + 1, f + Len(s)) = s
  BY <1>5 DEF Followed
<1>11. f + Len(s) \in 1 .. Len(fmt)
  BY <1>1, <1>2, <1>10
<1>12. TakeNumber(v) /\ UNCHANGED <<padc, lflag, altflag>>
  BY <1>3, <1>9, <1>10
<1>13. Reading(c)' /\ Rest' = r
  BY <1>9, <1>10, <1>11 DEF Reading, Rest
<1> QED BY <1>9, <1>12, <1>13

(* A `*' takes an argument.                                                *)
LEMMA OnStar ==
  ASSUME NEW c, IsDirective(c), Reading(c), NEW r \in Lines,
         Rest = <<Star>> \o r, vprintfmt
  PROVE  /\ Reading(c)' /\ Rest' = r /\ args' = Tail(args)
         /\ TakeNumber(Head(args)) /\ UNCHANGED <<padc, lflag, altflag>>
PROOF
<1>1. Star \in Int
  BY DEF Star
<1>2. Ch = Star /\ f + 1 \in 1 .. Len(fmt) /\ RestOf(fmt, f + 1) = r
  BY <1>1, OneRead
<1>3. NumberArgument
  BY <1>2, Dispatch DEF Reading
<1>4. /\ f' = f + 1 /\ fmt' = fmt /\ args' = Tail(args)
      /\ inEscape' = inEscape /\ pending' = pending
      /\ TakeNumber(Head(args)) /\ UNCHANGED <<padc, lflag, altflag>>
  BY <1>3 DEF NumberArgument
<1>5. Reading(c)' /\ Rest' = r
  BY <1>2, <1>4 DEF Reading, Rest
<1> QED BY <1>4, <1>5

(* The width.                                                              *)
LEMMA OnWidth ==
  ASSUME NEW c, IsDirective(c), Reading(c), AtWidth(c), c.width.how # "none", vprintfmt
  PROVE  Reading(c)' /\ AtPrec(c)'
PROOF
<1>1. FromPrec(c) \in Lines /\ EndsNumber(FromPrec(c))
  BY TailsFacts, NumberEnds
<1>2. IsAmount(c.width)
  BY DEF IsDirective
<1>3. /\ c.width.how \in {"digits", "star"}
      /\ c.width.how = "digits" => c.width.v \in Nat \ {0}
  <2>1. c.width.how \in {"none", "digits", "star"}
    BY <1>2 DEF IsAmount
  <2> QED BY <1>2, <2>1, AmountFacts
<1>4. /\ Rest = NumberText(c.width) \o FromPrec(c) /\ args = ArgsOf(c)
      /\ padc = c.pad /\ altflag = c.alt /\ width = -1 /\ precision = -1 /\ lflag = 0
  BY DEF AtWidth, FromWidth, Flags
<1>5. WidthRead(c) = c.width.v
  BY DEF WidthRead
<1>6. CASE c.width.how = "digits"
  <2>1. NumberText(c.width) = NumeralOf(c.width.v, 10)
    BY <1>6 DEF NumberText
  <2>2. /\ Reading(c)' /\ Rest' = FromPrec(c) /\ args' = args
        /\ TakeNumber(c.width.v) /\ UNCHANGED <<padc, lflag, altflag>>
    BY <1>1, <1>3, <1>4, <1>6, <2>1, OnNumber
  <2>3. width' = c.width.v /\ precision' = -1
    BY <1>4, <2>2 DEF TakeNumber
  <2>4. args' = PrecArgs(c)
    BY <1>4, <1>6, <2>2, ArgsFacts
  <2> QED BY <1>4, <1>5, <2>2, <2>3, <2>4 DEF AtPrec, Flags
<1>7. CASE c.width.how = "star"
  <2>1. NumberText(c.width) = <<Star>>
    BY <1>7 DEF NumberText
  <2>2. /\ Reading(c)' /\ Rest' = FromPrec(c) /\ args' = Tail(args)
        /\ TakeNumber(Head(args)) /\ UNCHANGED <<padc, lflag, altflag>>
    BY <1>1, <1>4, <2>1, OnStar
  <2>3. Head(args) = c.width.v /\ Tail(args) = PrecArgs(c)
    BY <1>4, <1>7, ArgsFacts
  <2>4. width' = c.width.v /\ precision' = -1
    BY <1>4, <2>2, <2>3 DEF TakeNumber
  <2> QED BY <1>4, <1>5, <2>2, <2>3, <2>4 DEF AtPrec, Flags
<1> QED BY <1>3, <1>6, <1>7

(* The precision.                                                          *)
LEMMA OnPrecNumber ==
  ASSUME NEW c, IsDirective(c), Reading(c), AtPrecNumber(c), c.prec.how # "dot", vprintfmt
  PROVE  Reading(c)' /\ AtLong(c, c.long)'
PROOF
<1> DEFINE z == FromLong(c, c.long)
<1>1. c.long \in Nat
  BY DEF IsDirective
<1>2. z \in Lines /\ EndsNumber(z)
  BY <1>1, TailsFacts, NumberEnds
<1>3. IsAmount(c.prec)
  BY DEF IsDirective
<1>4. /\ Rest = NumberText(c.prec) \o z /\ args = PrecArgs(c) /\ c.prec.how # "none"
      /\ padc = c.pad /\ altflag = c.alt /\ width = WidthFinal(c)
      /\ precision = -1 /\ lflag = 0
  BY DEF AtPrecNumber, FromPrecNumber, Flags
<1> HIDE DEF z
<1>5. /\ c.prec.how \in {"digits", "star"}
      /\ c.prec.how = "digits" => c.prec.v \in Nat \ {0}
  <2>1. c.prec.how \in {"none", "digits", "star"}
    BY <1>3 DEF IsAmount
  <2> QED BY <1>3, <1>4, <2>1, AmountFacts
<1>6. WidthFinal(c) \in Int /\ ~(WidthFinal(c) < 0)
  <2>1. WidthRead(c) \in Int
    <3>1. IsAmount(c.width)
      BY DEF IsDirective
    <3>2. c.width.v \in Int
      BY <3>1 DEF IsAmount, Ints
    <3> QED BY <3>2 DEF WidthRead
  <2> QED BY <1>4, <2>1 DEF WidthFinal
<1>7. PrecRead(c) = c.prec.v /\ c.long - c.long = 0
  BY <1>1, <1>5 DEF PrecRead
<1>8. CASE c.prec.how = "digits"
  <2>1. NumberText(c.prec) = NumeralOf(c.prec.v, 10)
    BY <1>8 DEF NumberText
  <2>2. /\ Reading(c)' /\ Rest' = z /\ args' = args
        /\ TakeNumber(c.prec.v) /\ UNCHANGED <<padc, lflag, altflag>>
    BY <1>2, <1>4, <1>5, <1>8, <2>1, OnNumber
  <2>3. precision' = c.prec.v /\ width' = width
    BY <1>4, <1>6, <2>2 DEF TakeNumber
  <2>4. args' = ConvArgs(c)
    BY <1>4, <1>8, <2>2, ArgsFacts
  <2> QED BY <1>4, <1>7, <2>2, <2>3, <2>4 DEF AtLong, Flags, z
<1>9. CASE c.prec.how = "star"
  <2>1. NumberText(c.prec) = <<Star>>
    BY <1>9 DEF NumberText
  <2>2. /\ Reading(c)' /\ Rest' = z /\ args' = Tail(args)
        /\ TakeNumber(Head(args)) /\ UNCHANGED <<padc, lflag, altflag>>
    BY <1>2, <1>4, <2>1, OnStar
  <2>3. Head(args) = c.prec.v /\ Tail(args) = ConvArgs(c)
    BY <1>4, <1>9, ArgsFacts
  <2>4. precision' = c.prec.v /\ width' = width
    BY <1>4, <1>6, <2>2, <2>3 DEF TakeNumber
  <2> QED BY <1>4, <1>7, <2>2, <2>3, <2>4 DEF AtLong, Flags, z
<1> QED BY <1>5, <1>8, <1>9

(* A part that is absent takes no step.                                    *)
LEMMA Absent ==
  ASSUME NEW c, IsDirective(c)
  PROVE  /\ AtPad(c) /\ c.pad = Space => AtAlt(c)
         /\ AtAlt(c) /\ ~c.alt => AtWidth(c)
         /\ AtWidth(c) /\ c.width.how = "none" => AtPrec(c)
         /\ AtPrec(c) /\ c.prec.how = "none" => AtLong(c, c.long)
         /\ AtPrecNumber(c) /\ c.prec.how = "dot" => AtLong(c, c.long)
PROOF
<1>1. \A s \in Lines : <<>> \o s = s
  BY JoinFacts DEF Lines
<1>2. /\ FromPrec(c) \in Lines /\ FromWidth(c) \in Lines /\ FromAlt(c) \in Lines
      /\ FromLong(c, c.long) \in Lines
  <2>1. c.long \in Nat
    BY DEF IsDirective
  <2> QED BY <2>1, TailsFacts
<1>3. c.pad = Space => FromPad(c) = FromAlt(c)
  BY <1>1, <1>2 DEF FromPad, PadText
<1>4. ~c.alt => FromAlt(c) = FromWidth(c) /\ c.alt = FALSE
  BY <1>1, <1>2 DEF FromAlt, AltText, IsDirective
<1>5. c.width.how = "none" =>
        FromWidth(c) = FromPrec(c) /\ WidthRead(c) = -1 /\ ArgsOf(c) = PrecArgs(c)
  BY <1>1, <1>2, ArgsFacts DEF FromWidth, NumberText, WidthRead
<1>6. c.prec.how = "none" => /\ FromPrec(c) = FromLong(c, c.long)
                             /\ WidthFinal(c) = WidthRead(c) /\ PrecRead(c) = -1
                             /\ PrecArgs(c) = ConvArgs(c)
  BY <1>1, <1>2, ArgsFacts DEF FromPrec, PrecText, WidthFinal, PrecRead
<1>7. c.prec.how = "dot" => /\ FromPrecNumber(c) = FromLong(c, c.long)
                            /\ PrecRead(c) = -1 /\ PrecArgs(c) = ConvArgs(c)
  BY <1>1, <1>2, ArgsFacts DEF FromPrecNumber, NumberText, PrecRead
<1>8. c.long - c.long = 0
  BY DEF IsDirective
<1>9. AtPad(c) /\ c.pad = Space => AtAlt(c)
  BY <1>3 DEF AtPad, AtAlt
<1>10. AtAlt(c) /\ ~c.alt => AtWidth(c)
  BY <1>4 DEF AtAlt, AtWidth, Flags
<1>11. AtWidth(c) /\ c.width.how = "none" => AtPrec(c)
  BY <1>5 DEF AtWidth, AtPrec
<1>12. AtPrec(c) /\ c.prec.how = "none" => AtLong(c, c.long)
  BY <1>6, <1>8 DEF AtPrec, AtLong
<1>13. AtPrecNumber(c) /\ c.prec.how = "dot" => AtLong(c, c.long)
  BY <1>7, <1>8 DEF AtPrecNumber, AtLong
<1> QED BY <1>9, <1>10, <1>11, <1>12, <1>13

-----------------------------------------------------------------------------
(* What the conversions print.                                             *)

(* The lesser of two numbers.                                              *)
LEMMA MinTwo ==
  ASSUME NEW a \in Int, NEW b \in Int
  PROVE  Min({a, b}) = IF a <= b THEN a ELSE b
PROOF
<1> DEFINE v == IF a <= b THEN a ELSE b
<1>1. v \in {a, b} /\ \A y \in {a, b} : v <= y
  OBVIOUS
<1>2. \A x \in {a, b} : (\A y \in {a, b} : x <= y) => x = v
  OBVIOUS
<1> HIDE DEF v
<1>3. Min({a, b}) = v
  BY <1>1, <1>2 DEF Min
<1> QED BY <1>3 DEF v

(* What has been read of a directive when its conversion is reached.       *)
FlagsRead(c) == Flags(c.pad, c.alt, WidthFinal(c), PrecRead(c), c.long)

(* A width that is not positive, or is not there, pads nothing.            *)
LEMMA WidthPads ==
  ASSUME NEW c, IsDirective(c), NEW m \in Nat, NEW ch \in Int
  PROVE  /\ WidthFinal(c) \in Int /\ Width(c) \in Int
         /\ Times(WidthFinal(c) - m, ch) = Times(Width(c) - m, ch)
         /\ WidthFinal(c) > 0 => Width(c) = WidthFinal(c)
         /\ ~(WidthFinal(c) > 0) => Times(Width(c) - m, ch) = <<>>
PROOF
<1>1. c.width.v \in Int
  <2>1. IsAmount(c.width)
    BY DEF IsDirective
  <2> QED BY <2>1 DEF IsAmount, Ints
<1>2. WidthFinal(c) \in Int /\ Width(c) \in Int
  BY <1>1 DEF WidthFinal, WidthRead, Width
<1>3. Width(c) = WidthFinal(c) \/ (Width(c) <= 0 /\ WidthFinal(c) <= 0)
  BY <1>1 DEF WidthFinal, WidthRead, Width
<1>4. \A n0 \in Int : n0 <= 0 => Times(n0, ch) = <<>>
  BY TimesFacts
<1>5. Width(c) - m \in Int /\ WidthFinal(c) - m \in Int
  BY <1>2
<1>6. Width(c) <= 0 => Width(c) - m <= 0
  BY <1>2
<1>7. WidthFinal(c) <= 0 => WidthFinal(c) - m <= 0
  BY <1>2
<1>8. Times(WidthFinal(c) - m, ch) = Times(Width(c) - m, ch)
  BY <1>3, <1>4, <1>5, <1>6, <1>7
<1>9. WidthFinal(c) > 0 => Width(c) = WidthFinal(c)
  BY <1>2, <1>3
<1>10. ~(WidthFinal(c) > 0) => Width(c) <= 0
  BY <1>2, <1>3
<1> QED BY <1>2, <1>4, <1>5, <1>6, <1>8, <1>9, <1>10

(* printnum pads on the left.                                             *)
LEMMA PrintsNumeral ==
  ASSUME NEW c, IsDirective(c), FlagsRead(c), NEW num \in Nat,
         NEW radix \in Nat, radix > 1
  PROVE  /\ printnum(num, radix, width, padc) = PadLeft(c, NumeralOf(num, radix))
         /\ PadLeft(c, NumeralOf(num, radix)) \in Lines
PROOF
<1> DEFINE s == NumeralOf(num, radix)
<1>1. width = WidthFinal(c) /\ padc = c.pad
  BY DEF FlagsRead, Flags
<1>2. c.pad \in Int
  BY DEF IsDirective, Space, Digit0, Dash
<1>3. s \in Lines /\ Len(s) = LengthOf(num, radix) /\ Len(s) \in Nat
  <2>1. s \in Lines /\ Len(s) = LengthOf(num, radix)
    BY NumeralStep
  <2> QED BY <2>1 DEF Lines
<1>4. width \in Int /\ Times(width - Len(s), c.pad) = Times(Width(c) - Len(s), c.pad)
      /\ Width(c) \in Int
  BY <1>1, <1>2, <1>3, WidthPads
<1>5. printnum(num, radix, width, padc) = Times(width - Len(s), c.pad) \o s
  <2>1. printnum(num, radix, width, padc) = PaddedNumeral(num, radix, width, padc)
    BY <1>1, <1>2, <1>4, PrintnumFacts
  <2> QED BY <1>1, <1>3, <2>1 DEF PaddedNumeral
<1>6. Times(Width(c) - Len(s), c.pad) \in Lines
  BY <1>2, <1>3, <1>4, TimesFacts
<1>7. PadLeft(c, s) = Times(Width(c) - Len(s), c.pad) \o s
  BY DEF PadLeft
<1>8. PadLeft(c, s) \in Lines
  BY <1>3, <1>6, <1>7, JoinFacts
<1> QED BY <1>4, <1>5, <1>7, <1>8

(* A numeral without a width, as of an error that has no text.             *)
LEMMA PrintsPlainly ==
  ASSUME NEW num \in Nat
  PROVE  printnum(num, 10, -1, Space) = NumeralOf(num, 10) /\ NumeralOf(num, 10) \in Lines
PROOF
<1> DEFINE s == NumeralOf(num, 10)
<1>1. 10 \in Nat /\ 10 > 1 /\ -1 \in Int /\ Space \in Int
  BY DEF Space
<1>2. s \in Lines /\ Len(s) = LengthOf(num, 10) /\ Len(s) \in Nat
  <2>1. s \in Lines /\ Len(s) = LengthOf(num, 10)
    BY <1>1, NumeralStep, Zenon
  <2> QED BY <2>1 DEF Lines
<1>3. Times(-1 - Len(s), Space) = <<>>
  <2>1. -1 - Len(s) \in Int /\ -1 - Len(s) <= 0
    BY <1>2
  <2> QED BY <1>1, <2>1, TimesFacts
<1>4. printnum(num, 10, -1, Space) = Times(-1 - Len(s), Space) \o s
  <2>1. printnum(num, 10, -1, Space) = PaddedNumeral(num, 10, -1, Space)
    BY <1>1, PrintnumFacts, Zenon
  <2> QED BY <1>2, <2>1 DEF PaddedNumeral
<1>5. <<>> \o s = s
  BY <1>2, JoinFacts
<1> QED BY <1>2, <1>3, <1>4, <1>5

(* A string argument: so many of its characters, as putch gets them.       *)
StringOf(c) == IF c.arg = Null THEN NullText ELSE c.arg
ShownOf(c, ch) == IF c.alt /\ ch \notin 32 .. 126 THEN 63 ELSE SignedChar(ch)
LimitOf(c, str) == IF Limited(c) /\ c.prec.v < Len(str) THEN c.prec.v ELSE Len(str)

(* What a string argument is to be printed as: as many of its characters   *)
(* as the precision admits, each as it is shown.                           *)
LEMMA TextFacts ==
  ASSUME NEW c, IsDirective(c), c.conv = << 115 >>
  PROVE  /\ StringOf(c) \in Seq(Byte8)
         /\ LimitOf(c, StringOf(c)) \in 0 .. Len(StringOf(c))
         /\ Text(c) = [k \in 1 .. LimitOf(c, StringOf(c)) |-> ShownOf(c, StringOf(c)[k])]
         /\ Text(c) \in Lines /\ Len(Text(c)) = LimitOf(c, StringOf(c))
PROOF
<1> DEFINE str == StringOf(c)  m == LimitOf(c, str)
           cut == IF Limited(c) THEN SubSeq(str, 1, Min({c.prec.v, Len(str)})) ELSE str
<1>1. str \in Seq(Byte8)
  <2>1. 115 \in Conversions /\ c.conv[1] = 115
    BY DEF Conversions
  <2>2. IsArgument(c)
    <3>1. c.conv # <<>>
      OBVIOUS
    <3>2. PICK ch \in Byte8 \ Modifiers : c.conv = <<ch>> /\ (ch \in Conversions => IsArgument(c))
      BY <3>1 DEF IsDirective
    <3>3. ch = 115
      BY <3>2
    <3> QED BY <2>1, <3>2, <3>3
  <2>3. c.arg = Null \/ c.arg \in Seq(Byte8)
    BY <2>1, <2>2 DEF IsArgument
  <2>4. NullText \in Seq(Byte8)
    <3>1. NullText \in Seq(1 .. 127)
      BY PrintFmtAssumption
    <3>2. \A s \in Seq(1 .. 127) : s \in Seq(Byte8)
      BY DEF Byte8
    <3> QED BY <3>1, <3>2
  <2> QED BY <2>3, <2>4 DEF StringOf
<1>2. Len(str) \in Nat
  BY <1>1
<1>3. Limited(c) => c.prec.v \in Nat
  <2>1. c.prec.how # "dot" => IsAmount(c.prec)
    BY DEF IsDirective
  <2>2. IsAmount(c.prec) => c.prec.v \in Int
    BY DEF IsAmount, Ints
  <2> QED BY <2>1, <2>2 DEF Limited
<1>4. Text(c) = [k \in DOMAIN cut |-> ShownOf(c, cut[k])]
  BY DEF Text, ShownOf, StringOf
<1> HIDE DEF str
<1>5. m \in 0 .. Len(str)
  BY <1>2, <1>3 DEF LimitOf
<1>6. DOMAIN cut = 1 .. m /\ \A k \in 1 .. m : cut[k] = str[k]
  <2>1. CASE Limited(c)
    <3>1. Min({c.prec.v, Len(str)}) = m
      <4>1. c.prec.v \in Int /\ Len(str) \in Int
        BY <1>2, <1>3, <2>1
      <4>2. Min({c.prec.v, Len(str)}) = IF c.prec.v <= Len(str) THEN c.prec.v ELSE Len(str)
        BY <4>1, MinTwo
      <4> QED BY <2>1, <4>1, <4>2 DEF LimitOf
    <3>2. cut = SubSeq(str, 1, m)
      BY <2>1, <3>1
    <3> HIDE DEF m, cut
    <3>3. Len(SubSeq(str, 1, m)) = m /\ SubSeq(str, 1, m) \in Seq(Byte8)
          /\ \A k \in 1 .. m : SubSeq(str, 1, m)[k] = str[k]
      BY <1>1, <1>2, <1>5
    <3> QED BY <1>5, <3>2, <3>3
  <2>2. CASE ~Limited(c)
    <3>1. cut = str /\ m = Len(str)
      BY <2>2 DEF LimitOf
    <3>2. DOMAIN str = 1 .. Len(str)
      BY <1>1
    <3> HIDE DEF cut, m
    <3> QED BY <3>1, <3>2
  <2> QED BY <2>1, <2>2
<1> HIDE DEF m, cut
<1>7. Text(c) = [k \in 1 .. m |-> ShownOf(c, str[k])]
  BY <1>4, <1>6
<1>8. \A k \in 1 .. m : ShownOf(c, str[k]) \in Int
  <2>1. \A k \in 1 .. m : str[k] \in Byte8
    BY <1>1, <1>2, <1>5
  <2>2. \A ch \in Byte8 : ShownOf(c, ch) \in Int
    BY DEF Byte8, ShownOf, SignedChar
  <2> QED BY <2>1, <2>2
<1>9. Text(c) \in Lines /\ Len(Text(c)) = m
  <2>1. m \in Nat
    BY <1>2, <1>5
  <2> QED BY <1>7, <1>8, <2>1 DEF Lines
<1> QED BY <1>1, <1>5, <1>7, <1>9 DEF m, str

(* %s prints its characters, padded where it is asked to (177-189).        *)
LEMMA PrintsString ==
  ASSUME NEW c, IsDirective(c), FlagsRead(c), c.conv = << 115 >>
  PROVE  /\ String(StringOf(c)) =
              IF c.pad = Dash THEN PadRight(c, Text(c)) ELSE PadLeft(c, Text(c))
         /\ String(StringOf(c)) \in Lines
PROOF
<1> DEFINE str == StringOf(c)  t == Text(c)  m == LimitOf(c, str)
           len == IF precision < 0 THEN Len(str) ELSE Min({precision, Len(str)})
           pads == IF width > 0 THEN width - len ELSE 0
           Shows(ch) == IF altflag /\ ch \notin 32 .. 126 THEN 63 ELSE ch
<1>1. /\ str \in Seq(Byte8) /\ m \in 0 .. Len(str)
      /\ t = [k \in 1 .. m |-> ShownOf(c, str[k])]
      /\ t \in Lines /\ Len(t) = m
  BY TextFacts
<1>2. /\ width = WidthFinal(c) /\ padc = c.pad /\ altflag = c.alt
      /\ precision = PrecRead(c)
  BY DEF FlagsRead, Flags
<1>3. Len(str) \in Nat /\ m \in Nat
  BY <1>1
<1>4. len = m
  <2>1. c.prec.how \in {"digits", "star"} => c.prec.v \in Int
    <3>1. c.prec.how # "dot" => IsAmount(c.prec)
      BY DEF IsDirective
    <3>2. IsAmount(c.prec) => c.prec.v \in Int
      BY DEF IsAmount, Ints
    <3> QED BY <3>1, <3>2
  <2>2. precision \in Int
    BY <1>2, <2>1 DEF PrecRead
  <2>3. Min({precision, Len(str)}) = IF precision <= Len(str) THEN precision ELSE Len(str)
    BY <1>3, <2>2, MinTwo
  <2>4. Limited(c) <=> ~(precision < 0)
    BY <1>2, <2>1 DEF PrecRead, Limited
  <2>5. Limited(c) => precision = c.prec.v
    BY <1>2 DEF PrecRead, Limited
  <2> HIDE DEF str
  <2> QED BY <1>3, <2>2, <2>3, <2>4, <2>5 DEF LimitOf
<1>5. String(str) = ((IF padc = Dash THEN <<>> ELSE Times(pads, padc))
                    \o [k \in 1 .. len |-> Shows(SignedChar(str[k]))])
                    \o (IF padc = Dash THEN Times(pads, Space) ELSE <<>>)
  BY DEF String
<1> HIDE DEF len
<1>6. [k \in 1 .. len |-> Shows(SignedChar(str[k]))] = t
  <2>1. \A ch \in Byte8 : Shows(SignedChar(ch)) = ShownOf(c, ch)
    BY <1>2 DEF Byte8, SignedChar, ShownOf
  <2>2. \A k \in 1 .. m : str[k] \in Byte8
    BY <1>1, <1>3
  <2> HIDE DEF Shows, str, t, m
  <2>3. \A k \in 1 .. m : Shows(SignedChar(str[k])) = ShownOf(c, str[k])
    BY <2>1, <2>2
  <2> QED BY <1>1, <1>4, <2>3
<1> HIDE DEF str, t, m, Shows
<1>7. \A ch \in Int : Times(pads, ch) = Times(Width(c) - m, ch)
                      /\ Times(Width(c) - m, ch) \in Lines
  <2> TAKE ch \in Int
  <2>1. /\ WidthFinal(c) \in Int /\ Width(c) \in Int
        /\ WidthFinal(c) > 0 => Width(c) = WidthFinal(c)
        /\ ~(WidthFinal(c) > 0) => Times(Width(c) - m, ch) = <<>>
    BY <1>3, WidthPads
  <2>2. Times(0, ch) = <<>>
    BY TimesFacts
  <2>3. Width(c) - m \in Int
    BY <1>3, <2>1
  <2>4. Times(Width(c) - m, ch) \in Lines
    BY <2>3, TimesFacts
  <2> QED BY <1>2, <1>4, <2>1, <2>2, <2>4
<1>8. c.pad \in Int /\ Space \in Int
  BY DEF IsDirective, Space, Digit0, Dash
<1>9. \A s \in Lines : <<>> \o s = s /\ s \o <<>> = s /\ <<>> \in Lines
  BY JoinFacts DEF Lines
<1>10. CASE c.pad = Dash
  <2> DEFINE z == Times(Width(c) - m, Space)
  <2>1. z \in Lines /\ Times(pads, Space) = z
    BY <1>7, <1>8
  <2>2. PadRight(c, t) = t \o z
    BY <1>1 DEF PadRight
  <2> HIDE DEF z, pads
  <2>3. String(str) = (<<>> \o t) \o z
    BY <1>2, <1>5, <1>6, <1>10, <2>1
  <2>4. String(str) = t \o z
    BY <1>1, <1>9, <2>3
  <2>5. t \o z \in Lines
    BY <1>1, <2>1, JoinFacts
  <2> QED BY <1>10, <2>2, <2>4, <2>5 DEF str, t
<1>11. CASE c.pad # Dash
  <2> DEFINE z == Times(Width(c) - m, c.pad)
  <2>1. z \in Lines /\ Times(pads, c.pad) = z
    BY <1>7, <1>8
  <2>2. PadLeft(c, t) = z \o t
    BY <1>1 DEF PadLeft
  <2> HIDE DEF z, pads
  <2>3. String(str) = (z \o t) \o <<>>
    BY <1>2, <1>5, <1>6, <1>11, <2>1
  <2>4. z \o t \in Lines
    BY <1>1, <2>1, JoinFacts
  <2>5. String(str) = z \o t
    BY <1>9, <2>3, <2>4
  <2> QED BY <1>11, <2>2, <2>4, <2>5 DEF str, t
<1> QED BY <1>10, <1>11

(* A sequence over a set is one over any larger set.                       *)
LEMMA WiderSeq ==
  ASSUME NEW S, NEW T, S \subseteq T
  PROVE  \A s \in Seq(S) : s \in Seq(T)
PROOF
<1> TAKE s \in Seq(S)
<1>1. s = [k \in 1 .. Len(s) |-> s[k]] /\ Len(s) \in Nat
  OBVIOUS
<1>2. \A k \in 1 .. Len(s) : s[k] \in T
  OBVIOUS
<1> QED BY <1>1, <1>2

Output(c) == Stands(ConvOf(c), c, {})

(* A conversion prints what is expected under the flags of its directive.  *)
LEMMA ConversionPrints ==
  ASSUME NEW c, IsDirective(c), FlagsRead(c), NEW ch \in Conversions, c.conv = <<ch>>
  PROVE  Converted(ch, c.arg) = Output(c) /\ Output(c) \in Lines
PROOF
<1>1. c.conv # <<>> /\ c.conv[1] = ch /\ ch \in Int
  BY DEF Conversions
<1>2. IsArgument(c)
  <2>1. PICK x \in Byte8 \ Modifiers : c.conv = <<x>> /\ (x \in Conversions => IsArgument(c))
    BY <1>1 DEF IsDirective
  <2>2. x = ch
    BY <2>1
  <2> QED BY <2>1, <2>2
<1>3. lflag = c.long
  BY DEF FlagsRead, Flags
<1>4. IntSize \in Nat \ {0} /\ IntSize * IntSize \in Nat \ {0}
  <2>1. IntSize \in Nat \ {0}
    BY PrintFmtAssumption
  <2> QED BY <2>1, DivideTwice
<1>5. \A s \in Lines, t \in Lines : s \o t \in Lines
  BY JoinFacts
<1>6. \A s \in Lines : <<>> \o s = s /\ <<>> \in Lines
  BY JoinFacts DEF Lines
<1>11. Output(c) = Stands(ch, c, {})
  BY <1>1 DEF Output, ConvOf
<1>7. CASE ch = 99
  <2>1. c.arg \in Int
    BY <1>1, <1>2, <1>7 DEF IsArgument
  <2>2. Output(c) = <<c.arg>>
    BY <1>7, <1>11 DEF Stands, Padded, Percent
  <2>3. Converted(ch, c.arg) = <<c.arg>>
    BY <1>7 DEF Converted
  <2> QED BY <2>1, <2>2, <2>3 DEF Lines
<1>8. CASE ch = 115
  <2>1. Output(c) = IF c.pad = Dash THEN PadRight(c, Text(c)) ELSE PadLeft(c, Text(c))
    BY <1>8, <1>11 DEF Stands, Padded, Percent
  <2>2. Converted(ch, c.arg) = String(StringOf(c))
    BY <1>8 DEF Converted, StringOf
  <2> QED BY <1>8, <2>1, <2>2, PrintsString
<1>9. CASE ch = 101
  <2> DEFINE m == IF c.arg < 0 THEN -c.arg ELSE c.arg
  <2>1. c.arg \in Int
    BY <1>1, <1>2, <1>9, PrintFmtAssumption DEF IsArgument, Ints
  <2>2. m \in Nat /\ Magnitude(c.arg) = m
    BY <2>1 DEF Magnitude
  <2>3. printnum(m, 10, -1, Space) = NumeralOf(m, 10) /\ NumeralOf(m, 10) \in Lines
    BY <2>2, PrintsPlainly
  <2>4. Output(c) = IF Magnitude(c.arg) < MAXERROR /\ Magnitude(c.arg) \in DOMAIN ErrorText
                   THEN ErrorText[Magnitude(c.arg)]
                   ELSE ErrorWord \o NumeralOf(Magnitude(c.arg), 10)
    BY <1>9, <1>11 DEF Stands, Padded, Percent
  <2>5. Converted(ch, c.arg) = IF m < MAXERROR /\ m \in DOMAIN ErrorText
                               THEN ErrorText[m]
                               ELSE ErrorWord \o printnum(m, 10, -1, Space)
    BY <1>9 DEF Converted, Error
  <2> HIDE DEF m
  <2>6. ErrorWord \in Lines /\ \A e \in DOMAIN ErrorText : ErrorText[e] \in Lines
    <3>1. ErrorWord \in Seq(1 .. 127) /\ \A e \in DOMAIN ErrorText : ErrorText[e] \in Seq(1 .. 127)
      BY PrintFmtAssumption
    <3>2. \A s \in Seq(1 .. 127) : s \in Lines
      <4>1. 1 .. 127 \subseteq Int
        OBVIOUS
      <4> QED BY <4>1, WiderSeq DEF Lines
    <3> QED BY <3>1, <3>2
  <2>7. ErrorWord \o NumeralOf(m, 10) \in Lines
    BY <1>5, <2>3, <2>6
  <2>8. Converted(ch, c.arg) = Output(c)
    BY <2>2, <2>3, <2>4, <2>5
  <2>9. Output(c) \in Lines
    BY <2>2, <2>4, <2>6, <2>7
  <2> QED BY <2>8, <2>9
<1>10. CASE ch \in {100, 117, 111, 112, 120}
  <2>1. c.arg \in Int
    <3>1. c.arg \in IF c.long >= 2 THEN LongLongs ELSE Ints
      BY <1>1, <1>2, <1>10 DEF IsArgument
    <3>2. \A y \in LongLongs : y \in Int
      BY <1>4 DEF LongLongs
    <3>3. \A y \in Ints : y \in Int
      BY <1>4 DEF Ints
    <3> QED BY <3>1, <3>2, <3>3
  <2>2. Converted(ch, c.arg) = Number(ch, c.arg)
    BY <1>10 DEF Converted
  <2>3. \A radix \in {8, 10, 16}, num \in Nat :
           /\ printnum(num, radix, width, padc) = PadLeft(c, NumeralOf(num, radix))
           /\ PadLeft(c, NumeralOf(num, radix)) \in Lines
    BY PrintsNumeral
  <2>4. CASE ch = 100
    <3> DEFINE m == IF c.arg < 0 THEN -c.arg ELSE c.arg
               sign == IF c.arg < 0 THEN <<Dash>> ELSE <<>>
    <3>1. m \in Nat /\ Magnitude(c.arg) = m
      BY <2>1 DEF Magnitude
    <3>2. sign \in Lines
      BY <1>6 DEF Lines, Dash
    <3>3. Number(ch, c.arg) = sign \o printnum(m, 10, width, padc)
      BY <2>4 DEF Number
    <3>4. Output(c) = sign \o PadLeft(c, NumeralOf(Magnitude(c.arg), 10))
      BY <1>11, <2>4 DEF Stands, Padded, Percent
    <3> HIDE DEF m, sign
    <3>5. printnum(m, 10, width, padc) = PadLeft(c, NumeralOf(m, 10))
          /\ PadLeft(c, NumeralOf(m, 10)) \in Lines
      BY <2>3, <3>1
    <3>6. Output(c) \in Lines
      BY <1>5, <3>1, <3>2, <3>4, <3>5
    <3> QED BY <2>2, <3>1, <3>3, <3>4, <3>5, <3>6
  <2>5. CASE ch = 112
    <3> DEFINE m == c.arg % IntSize
    <3>1. m \in Nat
      BY <1>4, <2>1
    <3>2. <<Digit0, 120>> \in Lines
      BY DEF Lines, Digit0
    <3>3. Number(ch, c.arg) = <<Digit0, 120>> \o printnum(m, 16, width, padc)
      BY <2>5 DEF Number
    <3>4. Output(c) = <<Digit0, 120>> \o PadLeft(c, NumeralOf(m, 16))
      BY <1>11, <2>5 DEF Stands, Padded, Percent
    <3> HIDE DEF m
    <3>5. printnum(m, 16, width, padc) = PadLeft(c, NumeralOf(m, 16))
          /\ PadLeft(c, NumeralOf(m, 16)) \in Lines
      BY <2>3, <3>1
    <3>6. Output(c) \in Lines
      BY <1>5, <3>2, <3>4, <3>5
    <3> QED BY <2>2, <3>3, <3>4, <3>5, <3>6
  <2>6. CASE ch \in {117, 111, 120}
    <3> DEFINE m == c.arg % Modulus(c)  radix == BaseOf(ch)
    <3>1. Modulus(c) \in Nat \ {0}
      BY <1>4 DEF Modulus
    <3>2. m \in Nat
      BY <2>1, <3>1
    <3>3. radix \in {8, 10, 16}
      BY <2>6 DEF BaseOf
    <3>4. getuint(c.arg) = m
      BY <1>3 DEF getuint, Modulus
    <3>5. Number(ch, c.arg) = printnum(getuint(c.arg), radix, width, padc)
      BY <2>6 DEF Number
    <3>6. Output(c) = PadLeft(c, NumeralOf(m, radix))
      BY <1>11, <2>6 DEF Stands, Padded, Percent
    <3> HIDE DEF m, radix
    <3>7. printnum(m, radix, width, padc) = PadLeft(c, NumeralOf(m, radix))
          /\ PadLeft(c, NumeralOf(m, radix)) \in Lines
      BY <2>3, <3>2, <3>3
    <3> QED BY <2>2, <3>4, <3>5, <3>6, <3>7
  <2> QED BY <1>10, <2>4, <2>5, <2>6
<1> QED BY <1>7, <1>8, <1>9, <1>10 DEF Conversions

(* A directive that is not known is read again from its `%' on (237-241).  *)
LEMMA LastPercent ==
  ASSUME NEW c, IsDirective(c), c.conv # <<Percent>>, fmt = FormatOf(c),
         f \in 1 .. Len(fmt)
  PROVE  /\ Max({k \in 1 .. f : fmt[k] = Percent}) = 1
         /\ RestOf(fmt, 1) = FromPad(c) /\ 1 \in 0 .. Len(fmt)
PROOF
<1> DEFINE a == <<Percent>>  r == FromPad(c)  S == {k \in 1 .. f : fmt[k] = Percent}
<1>1. fmt \in Lines /\ fmt = a \o r /\ r \in Lines /\ r \in PlainText /\ Len(fmt) \in Nat
  <2>1. fmt \in Lines /\ fmt = a \o r
    BY FormatShape
  <2>2. r \in Lines /\ r \in PlainText
    BY TailsFacts
  <2> QED BY <2>1, <2>2 DEF Lines
<1>2. a \in Lines /\ Len(a) = 1 /\ a[1] = Percent
  BY DEF Lines, Percent
<1> HIDE DEF a, r
<1>3. RestOf(fmt, 0) = a \o r
  <2>1. SubSeq(fmt, 1, Len(fmt)) = fmt
    BY <1>1 DEF Lines
  <2> QED BY <1>1, <2>1 DEF RestOf
<1>4. Followed(fmt, 0, a, r)
  <2>1. 0 \in 0 .. Len(fmt)
    BY <1>1
  <2> QED BY <1>1, <1>2, <1>3, <2>1, RestSplits
<1>5. /\ Len(fmt) = 1 + Len(r) /\ RestOf(fmt, 1) = r /\ fmt[1] = Percent
      /\ \A j \in 1 .. Len(r) : fmt[1 + j] = r[j]
  <2>1. /\ 0 + Len(a) \in 0 .. Len(fmt) /\ RestOf(fmt, 0 + Len(a)) = r
        /\ \A j \in 1 .. Len(a) : fmt[0 + j] = a[j]
        /\ Len(fmt) = 0 + Len(a) + Len(r)
        /\ \A j \in 1 .. Len(r) : fmt[0 + Len(a) + j] = r[j]
    BY <1>4 DEF Followed
  <2>2. 0 + Len(a) = 1 /\ 1 \in 1 .. Len(a) /\ 0 + 1 = 1
    BY <1>2
  <2> QED BY <1>2, <2>1, <2>2
<1>6. Len(r) \in Nat /\ \A j \in 1 .. Len(r) : r[j] # Percent
  BY <1>1 DEF PlainText, Plain
<1>7. ASSUME NEW k \in S
      PROVE  k = 1
  <2> SUFFICES ASSUME k # 1 PROVE FALSE
    OBVIOUS
  <2>1. k - 1 \in 1 .. Len(r) /\ 1 + (k - 1) = k
    BY <1>1, <1>5, <1>6
  <2>2. fmt[k] = r[k - 1]
    BY <1>5, <2>1
  <2> QED BY <1>6, <2>1, <2>2
<1>8. 1 \in S
  BY <1>1, <1>5
<1> HIDE DEF S
<1>9. \A y \in S : 1 >= y
  BY <1>7
<1>10. Max(S) = 1
  BY <1>7, <1>8, <1>9 DEF Max
<1>11. 1 \in 0 .. Len(fmt)
  BY <1>1, <1>5, <1>6
<1> QED BY <1>5, <1>10, <1>11 DEF S, r

(* The directive has been read: what is pending and what is left of the    *)
(* format are what it prints.                                              *)
LEMMA OnConversion ==
  ASSUME NEW c, IsDirective(c), Reading(c), AtLong(c, 0), vprintfmt
  PROVE  /\ fmt' = fmt /\ inEscape' = FALSE /\ f' \in 0 .. Len(fmt)
         /\ RestOf(fmt, f') \in PlainText /\ pending' \in Lines
         /\ pending' \o RestOf(fmt, f') = Printed(c)
PROOF
<1>1. /\ Rest = FromConv(c) /\ args = ConvArgs(c) /\ FlagsRead(c)
  <2>1. Times(0, LongFlag) = <<>>
    BY TimesFacts DEF LongFlag
  <2>2. FromConv(c) \in Lines
    BY TailsFacts
  <2>3. FromLong(c, 0) = FromConv(c)
    BY <2>1, <2>2, JoinFacts DEF FromLong
  <2>4. c.long - 0 = c.long
    BY DEF IsDirective
  <2> QED BY <2>3, <2>4 DEF AtLong, FlagsRead
<1>2. fmt = FormatOf(c) /\ fmt \in Lines /\ f \in 1 .. Len(fmt) /\ Len(fmt) \in Nat
      /\ inEscape = TRUE
  <2>1. fmt = FormatOf(c) /\ fmt \in Lines
    BY FormatShape DEF Reading
  <2> QED BY <2>1 DEF Reading, Lines
<1>3. /\ c.conv \in Lines /\ c.after \in PlainText /\ c.after \in Lines
      /\ c.conv = <<>> => c.after = <<>>
  <2>1. \A s \in PlainText : s \in Lines
    BY DEF Lines, PlainText, Plain
  <2> QED BY <2>1, PartsFacts
<1>4. ASSUME c.conv # <<>>
      PROVE  /\ c.conv = <<c.conv[1]>> /\ c.conv[1] \in Int /\ c.conv[1] \notin Modifiers
             /\ Ch = c.conv[1] /\ f + 1 \in 1 .. Len(fmt)
             /\ RestOf(fmt, f + 1) = c.after
  <2> DEFINE x == c.conv[1]
  <2>1. c.conv = <<x>> /\ x \in Byte8 /\ x \notin Modifiers
    BY <1>4, PartsFacts
  <2>2. x \in Int
    BY <2>1 DEF Byte8
  <2>3. Rest = <<x>> \o c.after
    BY <1>1, <2>1 DEF FromConv
  <2> HIDE DEF x
  <2>4. Ch = x /\ f + 1 \in 1 .. Len(fmt) /\ RestOf(fmt, f + 1) = c.after
    BY <1>3, <2>2, <2>3, OneRead
  <2> QED BY <2>1, <2>2, <2>4 DEF x
<1>5. CASE c.conv # <<>> /\ c.conv[1] \in Conversions
  <2> DEFINE x == c.conv[1]
  <2>1. Convert
    BY <1>2, <1>4, <1>5, Dispatch
  <2>2. Head(args) = c.arg
    BY <1>1, <1>5 DEF ConvArgs
  <2>3. /\ pending' = Converted(x, c.arg) /\ f' = f + 1 /\ inEscape' = FALSE /\ fmt' = fmt
    BY <1>4, <1>5, <2>1, <2>2 DEF Convert
  <2>4. c.conv = <<x>> /\ x \in Conversions
    BY <1>4, <1>5
  <2> HIDE DEF x
  <2>5. Converted(x, c.arg) = Output(c) /\ Output(c) \in Lines
    BY <1>1, <2>4, ConversionPrints
  <2>6. f' \in 0 .. Len(fmt) /\ RestOf(fmt, f') = c.after
    BY <1>2, <1>4, <1>5, <2>3
  <2> QED BY <1>3, <2>3, <2>5, <2>6 DEF Printed, Output
<1>6. CASE c.conv = <<Percent>>
  <2>1. c.conv # <<>> /\ c.conv[1] = Percent
    BY <1>6
  <2>2. EscapedPercent
    BY <1>2, <1>4, <2>1, Dispatch
  <2>3. pending' = <<Percent>> /\ f' = f + 1 /\ inEscape' = FALSE /\ fmt' = fmt
    BY <2>2 DEF EscapedPercent
  <2>4. Output(c) = <<Percent>>
    BY <2>1 DEF Output, ConvOf, Stands, Percent
  <2>5. <<Percent>> \in Lines
    BY DEF Lines, Percent
  <2>6. f' \in 0 .. Len(fmt) /\ RestOf(fmt, f') = c.after
    BY <1>2, <1>4, <2>1, <2>3
  <2> QED BY <1>3, <2>3, <2>4, <2>5, <2>6 DEF Printed, Output
<1>7. CASE c.conv # <<Percent>> /\ ~(c.conv # <<>> /\ c.conv[1] \in Conversions)
  <2>1. Ch \notin Conversions \cup Modifiers \cup {Percent}
    <3>1. CASE c.conv = <<>>
      <4>1. Rest = <<>>
        <5>1. Rest = <<>> \o <<>> /\ <<>> \in Lines
          BY <1>1, <1>3, <3>1 DEF FromConv
        <5> QED BY <5>1, JoinFacts
      <4>2. Ch = NUL
        BY <1>2, <4>1, NoCharacter
      <4> QED BY <4>2 DEF NUL, Conversions, Modifiers, NonZero, Dash, Digit0, Dot, Hash,
                          LongFlag, Star, Percent
    <3>2. CASE c.conv # <<>>
      BY <1>4, <1>7, <3>2
    <3> QED BY <3>1, <3>2
  <2>2. Unrecognized
    BY <1>2, <2>1, Dispatch
  <2>3. /\ pending' = <<Percent>> /\ f' = Max({k \in 1 .. f : fmt[k] = Percent})
        /\ inEscape' = FALSE /\ fmt' = fmt
    BY <2>2 DEF Unrecognized
  <2>4. f' = 1 /\ RestOf(fmt, 1) = FromPad(c) /\ 1 \in 0 .. Len(fmt)
    BY <1>2, <1>7, <2>3, LastPercent
  <2>5. FromPad(c) \in PlainText /\ <<Percent>> \in Lines
    BY <1>7, TailsFacts DEF Lines, Percent
  <2>6. Output(c) = Directive(c)
    <3>1. CASE c.conv = <<>>
      BY <3>1 DEF Output, ConvOf, Stands, Percent, NUL
    <3>2. CASE c.conv # <<>>
      <4>1. c.conv[1] \notin Conversions /\ c.conv[1] # Percent
        BY <1>4, <1>7, <3>2
      <4>2. Output(c) = Stands(c.conv[1], c, {})
        BY <3>2 DEF Output, ConvOf
      <4> QED BY <4>1, <4>2 DEF Stands, Padded, Percent, Conversions
    <3> QED BY <3>1, <3>2
  <2>7. Printed(c) = <<Percent>> \o FromPad(c)
    BY <2>6, FormatShape DEF Printed, Output, FormatOf
  <2> QED BY <2>3, <2>4, <2>5, <2>7
<1> QED BY <1>5, <1>6, <1>7

-----------------------------------------------------------------------------
(* The whole call.                                                         *)

(* Nothing of the format has been read; the directive has been, and what   *)
(* is left of the format is text.                                          *)
Unread(c) ==
  /\ fmt = FormatOf(c) /\ args = ArgsOf(c)
  /\ f = 0 /\ inEscape = FALSE /\ pending = <<>>

ReadThrough ==
  /\ fmt \in Lines /\ f \in 0 .. Len(fmt) /\ inEscape = FALSE
  /\ Rest \in PlainText /\ pending \in Lines

(* What is still to be handed to putch.                                    *)
Left == pending \o Rest

(* A step within the directive reads its next part, or is its conversion.  *)
LEMMA DirectiveStep ==
  ASSUME NEW c, IsDirective(c), Reading(c), InDirective(c), vprintfmt
  PROVE  \/ Reading(c)' /\ InDirective(c)'
         \/ ReadThrough' /\ Left' = Printed(c)
PROOF
<1> DEFINE Goal == \/ Reading(c)' /\ InDirective(c)'
                   \/ ReadThrough' /\ Left' = Printed(c)
<1>1. c.long \in Nat
  BY DEF IsDirective
<1>2. ASSUME NEW k \in 0 .. c.long, AtLong(c, k)
      PROVE  Goal
  <2>1. CASE k = 0
    <3>1. /\ fmt' = fmt /\ inEscape' = FALSE /\ f' \in 0 .. Len(fmt)
          /\ RestOf(fmt, f') \in PlainText /\ pending' \in Lines
          /\ pending' \o RestOf(fmt, f') = Printed(c)
      BY <1>2, <2>1, OnConversion
    <3>2. fmt \in Lines
      BY FormatShape DEF Reading
    <3> QED BY <3>1, <3>2 DEF ReadThrough, Left, Rest
  <2>2. CASE k # 0
    <3>1. k \in 1 .. c.long /\ k - 1 \in 0 .. c.long
      BY <1>1, <2>2
    <3>2. Reading(c)' /\ AtLong(c, k - 1)'
      BY <1>2, <3>1, OnLongFlag
    <3> QED BY <3>1, <3>2 DEF InDirective
  <2> QED BY <2>1, <2>2
<1>3. AtPrecNumber(c) => Goal
  <2> SUFFICES ASSUME AtPrecNumber(c) PROVE Goal
    OBVIOUS
  <2>1. c.long \in 0 .. c.long
    BY <1>1
  <2>2. CASE c.prec.how = "dot"
    BY <1>2, <2>1, <2>2, Absent
  <2>3. CASE c.prec.how # "dot"
    <3>1. Reading(c)' /\ AtLong(c, c.long)'
      BY <2>3, OnPrecNumber
    <3> QED BY <2>1, <3>1 DEF InDirective
  <2> QED BY <2>2, <2>3
<1>4. AtPrec(c) => Goal
  <2> SUFFICES ASSUME AtPrec(c) PROVE Goal
    OBVIOUS
  <2>1. c.long \in 0 .. c.long
    BY <1>1
  <2>2. CASE c.prec.how = "none"
    BY <1>2, <2>1, <2>2, Absent
  <2>3. CASE c.prec.how # "none"
    <3>1. Reading(c)' /\ AtPrecNumber(c)'
      BY <2>3, OnDot
    <3> QED BY <3>1 DEF InDirective
  <2> QED BY <2>2, <2>3
<1>5. AtWidth(c) => Goal
  <2> SUFFICES ASSUME AtWidth(c) PROVE Goal
    OBVIOUS
  <2>1. CASE c.width.how = "none"
    BY <1>4, <2>1, Absent
  <2>2. CASE c.width.how # "none"
    <3>1. Reading(c)' /\ AtPrec(c)'
      BY <2>2, OnWidth
    <3> QED BY <3>1 DEF InDirective
  <2> QED BY <2>1, <2>2
<1>6. AtAlt(c) => Goal
  <2> SUFFICES ASSUME AtAlt(c) PROVE Goal
    OBVIOUS
  <2>1. CASE ~c.alt
    BY <1>5, <2>1, Absent
  <2>2. CASE c.alt
    <3>1. Reading(c)' /\ AtWidth(c)'
      BY <2>2, OnAlt
    <3> QED BY <3>1 DEF InDirective
  <2> QED BY <2>1, <2>2
<1>7. AtPad(c) => Goal
  <2> SUFFICES ASSUME AtPad(c) PROVE Goal
    OBVIOUS
  <2>1. CASE c.pad = Space
    BY <1>6, <2>1, Absent
  <2>2. CASE c.pad # Space
    <3>1. Reading(c)' /\ AtAlt(c)'
      BY <2>2, OnPad
    <3> QED BY <3>1 DEF InDirective
  <2> QED BY <2>1, <2>2
<1> HIDE DEF Goal
<1>8. Goal
  BY <1>2, <1>3, <1>4, <1>5, <1>6, <1>7 DEF InDirective
<1> QED BY <1>8 DEF Goal

(* The first character is the `%'.                                         *)
LEMMA AtStart ==
  ASSUME NEW c, IsDirective(c), Unread(c)
  PROVE  /\ Ch = Percent /\ f + 1 \in 1 .. Len(fmt) /\ RestOf(fmt, f + 1) = FromPad(c)
PROOF
<1>1. fmt = <<Percent>> \o FromPad(c) /\ fmt \in Lines /\ FromPad(c) \in Lines
  BY FormatShape, TailsFacts DEF Unread
<1>2. f = 0 /\ Len(fmt) \in Nat /\ f \in 0 .. Len(fmt) /\ Percent \in Int
  BY <1>1 DEF Unread, Lines, Percent
<1>3. Rest = <<Percent>> \o FromPad(c)
  <2>1. SubSeq(fmt, 1, Len(fmt)) = fmt
    BY <1>1 DEF Lines
  <2> QED BY <1>1, <1>2, <2>1 DEF Rest, RestOf
<1>4. Ch = Percent /\ f + 1 \in 0 .. Len(fmt) /\ RestOf(fmt, f + 1) = FromPad(c)
  BY <1>1, <1>2, <1>3, NextCharacter
<1> QED BY <1>2, <1>4

(* The percent sign starts a directive, with its defaults.                 *)
LEMMA StartStep ==
  ASSUME NEW c, IsDirective(c), Unread(c), vprintfmt
  PROVE  Reading(c)' /\ InDirective(c)'
PROOF
<1>1. Ch = Percent /\ f + 1 \in 1 .. Len(fmt) /\ RestOf(fmt, f + 1) = FromPad(c)
  BY AtStart
<1>2. inEscape = FALSE /\ pending = <<>> /\ fmt = FormatOf(c) /\ args = ArgsOf(c)
  BY DEF Unread
<1>3. StartEscape
  BY <1>1, <1>2 DEF vprintfmt, Literal, Flag, Digits, NumberArgument, Convert,
                    EscapedPercent, Unrecognized
<1>4. /\ inEscape' = TRUE /\ f' = f + 1 /\ fmt' = fmt /\ args' = args /\ pending' = pending
      /\ padc' = Space /\ width' = -1 /\ precision' = -1 /\ lflag' = 0 /\ altflag' = FALSE
  BY <1>3 DEF StartEscape, FlagsReset
<1>5. Reading(c)' /\ AtPad(c)'
  BY <1>1, <1>2, <1>4 DEF Reading, AtPad, Flags, Rest
<1> QED BY <1>5 DEF InDirective

(* The text at the end is copied, to its end.                              *)
LEMMA TextLeft ==
  ASSUME ReadThrough
  PROVE  /\ Ch = NUL => Rest = <<>>
         /\ Ch # Percent
         /\ Rest # <<>> => /\ f + 1 \in 0 .. Len(fmt)
                           /\ RestOf(fmt, f + 1) \in PlainText
                           /\ Ch \in Int /\ Rest = <<Ch>> \o RestOf(fmt, f + 1)
PROOF
<1>1. fmt \in Lines /\ f \in 0 .. Len(fmt) /\ Rest \in PlainText
  BY DEF ReadThrough
<1>2. Rest \in Lines /\ \A k \in 1 .. Len(Rest) : Rest[k] # NUL /\ Rest[k] # Percent
  BY <1>1, PlainFacts
<1>3. CASE Rest = <<>>
  <2>1. Ch = NUL
    BY <1>1, <1>3, NoCharacter
  <2> QED BY <1>3, <2>1 DEF NUL, Percent
<1>4. CASE Rest # <<>>
  <2> DEFINE x == Rest[1]  t == Tail(Rest)
  <2>1. x \in Int /\ t \in Lines /\ Rest = <<x>> \o t
    BY <1>2, <1>4, Unfold
  <2>2. t \in PlainText /\ x # NUL /\ x # Percent
    <3> DEFINE s == Rest
    <3>1. s \in PlainText /\ s # <<>>
      BY <1>1, <1>4
    <3> HIDE DEF s
    <3>2. Tail(s) \in PlainText /\ s[1] \in Plain
      BY <3>1 DEF PlainText
    <3> QED BY <3>2 DEF s, Plain
  <2> HIDE DEF x, t
  <2>3. Ch = x /\ f + 1 \in 0 .. Len(fmt) /\ RestOf(fmt, f + 1) = t
    BY <1>1, <2>1, NextCharacter
  <2> QED BY <1>4, <2>1, <2>2, <2>3
<1> QED BY <1>3, <1>4

(* After the directive the format is copied.                               *)
LEMMA CopyStep ==
  ASSUME ReadThrough, vprintfmt
  PROVE  ReadThrough' /\ Left' = Left
PROOF
<1>1. inEscape = FALSE /\ fmt \in Lines /\ f \in 0 .. Len(fmt) /\ Rest \in PlainText
  BY DEF ReadThrough
<1>2. Ch # Percent
  BY TextLeft
<1>3. pending = <<>> /\ Literal
  BY <1>1, <1>2 DEF vprintfmt, StartEscape, Flag, Digits, NumberArgument, Convert,
                    EscapedPercent, Unrecognized
<1>4. Ch # NUL /\ pending' = <<Ch>> /\ f' = f + 1 /\ fmt' = fmt /\ inEscape' = inEscape
  BY <1>3 DEF Literal
<1>5. Rest # <<>>
  BY <1>1, <1>4, NoCharacter
<1>6. /\ f + 1 \in 0 .. Len(fmt) /\ RestOf(fmt, f + 1) \in PlainText
      /\ Ch \in Int /\ Rest = <<Ch>> \o RestOf(fmt, f + 1)
  BY <1>5, TextLeft
<1>7. Left = Rest
  <2>1. Rest \in Lines
    BY <1>1, PlainFacts
  <2> QED BY <1>3, <2>1, JoinFacts DEF Left
<1>8. Left' = Rest
  BY <1>4, <1>6 DEF Left, Rest
<1>9. ReadThrough'
  <2>1. <<Ch>> \in Lines
    BY <1>6 DEF Lines
  <2> QED BY <1>1, <1>4, <1>6, <2>1 DEF ReadThrough, Rest
<1> QED BY <1>7, <1>8, <1>9

(* A character that has been handed over is one less to hand over.         *)
HandsOver(p, r, s) ==
  /\ Head(p) \in Int /\ Tail(p) \in Lines /\ Append(s, Head(p)) \in Lines
  /\ Append(s, Head(p)) \o (Tail(p) \o r) = s \o (p \o r)

(* Handing over the first pending character leaves the text to be printed  *)
(* the same.                                                               *)
LEMMA HandOver ==
  ASSUME NEW p \in Lines, p # <<>>, NEW r \in Lines, NEW s \in Lines
  PROVE  HandsOver(p, r, s)
PROOF
<1> DEFINE h == p[1]  t == Tail(p)
<1>1. h \in Int /\ t \in Lines /\ p = <<h>> \o t
  BY Unfold
<1>2. Head(p) = h
  BY DEF Lines
<1> HIDE DEF h, t
<1> DEFINE a == <<h>>
<1>3. a \in Lines
  BY <1>1 DEF Lines
<1>4. Append(s, h) = s \o a /\ Append(s, h) \in Lines
  BY <1>1 DEF Lines
<1>5. p = a \o t
  BY <1>1
<1> HIDE DEF a
<1>6. t \o r \in Lines
  BY <1>1, JoinFacts
<1>7. (s \o a) \o (t \o r) = s \o (a \o (t \o r))
  BY <1>3, <1>6, Associative
<1>8. (a \o t) \o r = a \o (t \o r)
  BY <1>1, <1>3, Associative
<1> QED BY <1>1, <1>2, <1>4, <1>5, <1>7, <1>8 DEF t, HandsOver

(* What has been handed to putch, and where it is now: on the console, or  *)
(* as much of it as there is room for in the buffer.                       *)
Kept(s) == IF Len(s) < size - 1 THEN Len(s) ELSE size - 1

Handed(s) ==
  /\ sink = "cprintf" => asked = s
  /\ sink = "snprintf" /\ ~Refused =>
       /\ cnt = Len(s) /\ next = Kept(s)
       /\ \A k \in 1 .. next : buf[k - 1] = s[k] % 256

Setting ==
  /\ IsDirective(directive) /\ sink \in {"cprintf", "snprintf"}
  /\ size \in Int /\ size <= Behind

(* What lies behind the n bytes is never written.                          *)
Buffer ==
  sink = "snprintf" /\ buf # Null =>
    /\ buf \in [0 .. Behind -> Int]
    /\ \A k \in 0 .. Behind : k >= size => buf[k] = -1

(* How far the call has come: before the directive's text, nothing has     *)
(* been handed over; after it, what has been and what is left make up what *)
(* is to be printed.                                                       *)
Underway(c) ==
  \/ Handed(<<>>) /\ (Unread(c) \/ (Reading(c) /\ InDirective(c)))
  \/ \E s \in Lines : Handed(s) /\ ReadThrough /\ s \o Left = Printed(c)

PrintInv ==
  /\ Setting /\ Buffer
  /\ returned = <<>> => Underway(directive)
  /\ returned # <<>> => PrintsWhatIsAsked /\ BufferHoldsPrefix

(* At first nothing of the format has been read.                           *)
LEMMA PrintInitially ==
  PrintInit => PrintInv
PROOF
<1> SUFFICES ASSUME PrintInit PROVE PrintInv
  OBVIOUS
<1>1. returned = <<>> /\ fmt = FormatOf(directive) /\ args = ArgsOf(directive)
      /\ next = 0 /\ cnt = 0 /\ asked = <<>>
      /\ f = 0 /\ inEscape = FALSE /\ pending = <<>>
  BY DEF PrintInit, FmtInit, OutInit
<1>2. \/ sink = "cprintf" /\ directive \in CprintfCalls /\ size = 0
      \/ /\ sink = "snprintf" /\ directive \in SnprintfCalls /\ size \in Sizes
         /\ buf \in {Null, [k \in 0 .. Behind |-> -1]}
  BY DEF PrintInit
<1>3. Behind \in Nat /\ \A n0 \in Sizes : n0 \in Int /\ n0 <= Behind
  BY PrintingAssumption
<1>4. Setting
  BY <1>2, <1>3, PrintingAssumption DEF Setting
<1>5. Buffer
  BY <1>2, <1>3 DEF Buffer
<1>6. Handed(<<>>)
  <2>1. Len(<<>>) = 0
    OBVIOUS
  <2>2. ASSUME sink = "snprintf", ~Refused
        PROVE  next = Kept(<<>>)
    <3>1. size >= 1 /\ size \in Int
      BY <1>4, <2>2 DEF Refused, Setting
    <3> QED BY <1>1, <2>1, <3>1 DEF Kept
  <2>3. 1 .. next = {}
    BY <1>1
  <2> QED BY <1>1, <2>1, <2>2, <2>3 DEF Handed
<1>7. Unread(directive)
  BY <1>1 DEF Unread
<1> QED BY <1>1, <1>4, <1>5, <1>6, <1>7 DEF PrintInv, Underway

(* What vprintfmt does, nothing being handed over.                         *)
LEMMA FormatKeeps ==
  ASSUME PrintInv, Format
  PROVE  PrintInv'
PROOF
<1>1. PICK c : c = directive
  OBVIOUS
<1>2. IsDirective(c) /\ returned = <<>> /\ vprintfmt
      /\ UNCHANGED <<outVars, directive, sink, size, bufVars, returned>>
  BY <1>1 DEF PrintInv, Setting, Format, InCall
<1>3. Underway(c)
  BY <1>1, <1>2 DEF PrintInv
<1>4. asked' = asked /\ UNCHANGED <<directive, sink, size, buf, next, cnt, returned>>
  BY <1>2 DEF outVars, history, bufVars
<1>5. \A s : Handed(s) => Handed(s)'
  BY <1>4 DEF Handed, Kept, Refused
<1>6. Setting' /\ Buffer'
  BY <1>4 DEF PrintInv, Setting, Buffer
<1>7. Underway(c)'
  <2>1. CASE Handed(<<>>) /\ (Unread(c) \/ (Reading(c) /\ InDirective(c)))
    <3>1. \/ Reading(c)' /\ InDirective(c)'
          \/ ReadThrough' /\ Left' = Printed(c)
      BY <1>2, <2>1, StartStep, DirectiveStep
    <3>2. Handed(<<>>)'
      BY <1>5, <2>1
    <3>3. CASE ReadThrough' /\ Left' = Printed(c)
      <4>1. \A s \in Lines : <<>> \o s = s /\ <<>> \in Lines
        BY JoinFacts DEF Lines
      <4>2. Left' \in Lines /\ <<>> \in Lines
        <5>1. pending' \in Lines /\ Rest' \in PlainText
          BY <3>3 DEF ReadThrough
        <5>2. Rest' \in Lines
          BY <5>1, PlainFacts
        <5>3. pending' \o Rest' \in Lines
          BY <5>1, <5>2, JoinFacts
        <5> QED BY <5>3 DEF Left, Lines
      <4>3. <<>> \o Left' = Printed(c)
        BY <3>3, <4>1, <4>2
      <4> QED BY <3>2, <3>3, <4>2, <4>3 DEF Underway
    <3> QED BY <3>1, <3>2, <3>3 DEF Underway
  <2>2. CASE \E s \in Lines : Handed(s) /\ ReadThrough /\ s \o Left = Printed(c)
    <3>1. PICK s \in Lines : Handed(s) /\ ReadThrough /\ s \o Left = Printed(c)
      BY <2>2
    <3>2. ReadThrough' /\ Left' = Left
      BY <1>2, <3>1, CopyStep
    <3>3. Handed(s)' /\ s \o Left' = Printed(c)
      BY <1>5, <3>1, <3>2
    <3> QED BY <3>2, <3>3 DEF Underway
  <2> QED BY <1>3, <2>1, <2>2 DEF Underway
<1>8. Underway(directive)'
  BY <1>1, <1>4, <1>7
<1> QED BY <1>2, <1>4, <1>6, <1>8 DEF PrintInv

(* While something is pending, the directive has been read.                *)
LEMMA WhilePending ==
  ASSUME PrintInv, returned = <<>>, pending # <<>>
  PROVE  /\ ReadThrough
         /\ \E s \in Lines : Handed(s) /\ s \o Left = Printed(directive)
  BY DEF PrintInv, Underway, Unread, Reading

(* A character goes to the console.                                        *)
LEMMA PutchKeeps ==
  ASSUME PrintInv, putch
  PROVE  PrintInv'
PROOF
<1>1. PICK c : c = directive
  OBVIOUS
<1>2. /\ returned = <<>> /\ sink = "cprintf" /\ pending # <<>>
      /\ asked' = Append(asked, Head(pending)) /\ pending' = Tail(pending)
      /\ UNCHANGED <<fmt, f, inEscape, directive, sink, size, buf, next, cnt, returned>>
  BY DEF putch, InCall, cputchar, bufVars
<1>3. ReadThrough
  BY <1>2, WhilePending
<1>4. PICK s \in Lines : Handed(s) /\ s \o Left = Printed(c)
  BY <1>1, <1>2, WhilePending
<1>5. asked = s
  BY <1>2, <1>4 DEF Handed
<1>6. pending \in Lines /\ Rest \in Lines
  <2>1. pending \in Lines /\ Rest \in PlainText
    BY <1>3 DEF ReadThrough
  <2> QED BY <2>1, PlainFacts
<1>14. PICK t : t = Append(s, Head(pending))
  OBVIOUS
<1>7. t \in Lines /\ Tail(pending) \in Lines
      /\ t \o (Tail(pending) \o Rest) = s \o (pending \o Rest)
  <2> DEFINE p == pending  r == Rest
  <2>1. p \in Lines /\ r \in Lines /\ p # <<>> /\ t = Append(s, Head(p))
    BY <1>2, <1>6, <1>14
  <2> HIDE DEF p, r
  <2>2. Tail(p) \in Lines /\ t \in Lines /\ t \o (Tail(p) \o r) = s \o (p \o r)
    <3>1. HandsOver(p, r, s)
      BY <2>1, HandOver
    <3> QED BY <2>1, <3>1 DEF HandsOver
  <2> QED BY <2>2 DEF p, r
<1>8. Rest' = Rest
  BY <1>2 DEF Rest
<1>9. ReadThrough'
  BY <1>2, <1>3, <1>7, <1>8 DEF ReadThrough
<1>10. t \o Left' = Printed(c)
  BY <1>2, <1>4, <1>7, <1>8 DEF Left
<1>11. Handed(t)'
  BY <1>2, <1>5, <1>14 DEF Handed
<1>12. Underway(c)'
  BY <1>7, <1>9, <1>10, <1>11 DEF Underway
<1>13. Setting' /\ Buffer'
  BY <1>2 DEF PrintInv, Setting, Buffer
<1> QED BY <1>1, <1>2, <1>12, <1>13 DEF PrintInv

(* A character goes to the buffer, if there is room for it and for the 0.  *)
LEMMA SprintputchKeeps ==
  ASSUME PrintInv, sprintputch
  PROVE  PrintInv'
PROOF
<1>1. PICK c : c = directive
  OBVIOUS
<1>2. /\ returned = <<>> /\ sink = "snprintf" /\ pending # <<>> /\ ~Refused
      /\ pending' = Tail(pending) /\ cnt' = cnt + 1
      /\ UNCHANGED <<fmt, f, inEscape, directive, sink, size, returned>>
  BY DEF sprintputch, InCall
<1>3. ReadThrough
  BY <1>2, WhilePending
<1>4. PICK s \in Lines : Handed(s) /\ s \o Left = Printed(c)
  BY <1>1, <1>2, WhilePending
<1>5. /\ cnt = Len(s) /\ next = Kept(s)
      /\ \A k \in 1 .. next : buf[k - 1] = s[k] % 256
  BY <1>2, <1>4 DEF Handed
<1>6. pending \in Lines /\ Rest \in Lines
  <2>1. pending \in Lines /\ Rest \in PlainText
    BY <1>3 DEF ReadThrough
  <2> QED BY <2>1, PlainFacts
<1>19. PICK h : h = Head(pending)
  OBVIOUS
<1>20. PICK t : t = Append(s, h)
  OBVIOUS
<1>7. h \in Int /\ t \in Lines /\ Tail(pending) \in Lines
      /\ t \o (Tail(pending) \o Rest) = s \o (pending \o Rest)
  <2> DEFINE p == pending  r == Rest
  <2>1. p \in Lines /\ r \in Lines /\ p # <<>> /\ h = Head(p) /\ t = Append(s, Head(p))
    BY <1>2, <1>6, <1>19, <1>20
  <2> HIDE DEF p, r
  <2>2. /\ h \in Int /\ Tail(p) \in Lines /\ t \in Lines
        /\ t \o (Tail(p) \o r) = s \o (p \o r)
    <3>1. HandsOver(p, r, s)
      BY <2>1, HandOver
    <3> QED BY <2>1, <3>1 DEF HandsOver
  <2> QED BY <2>2 DEF p, r
<1>8. Rest' = Rest
  BY <1>2 DEF Rest
<1>9. ReadThrough'
  BY <1>2, <1>3, <1>7, <1>8 DEF ReadThrough
<1>10. t \o Left' = Printed(c)
  BY <1>2, <1>4, <1>7, <1>8 DEF Left
<1>11. Len(t) = Len(s) + 1 /\ Len(s) \in Nat /\ t[Len(s) + 1] = h
       /\ \A k \in 1 .. Len(s) : t[k] = s[k]
  BY <1>7, <1>20 DEF Lines
<1>12. IF next < size - 1
       THEN buf' = [buf EXCEPT ![next] = h % 256] /\ next' = next + 1
       ELSE buf' = buf /\ next' = next
  BY <1>19 DEF sprintputch, HasRoom
<1>13. /\ size \in Int /\ size >= 1 /\ size <= Behind /\ Behind \in Nat
       /\ buf \in [0 .. Behind -> Int] /\ \A k \in 0 .. Behind : k >= size => buf[k] = -1
  BY <1>2, PrintingAssumption DEF PrintInv, Setting, Buffer, Refused
<1>14. next \in Nat /\ next <= Len(s) /\ next <= size - 1
  BY <1>5, <1>11, <1>13 DEF Kept
<1>15. /\ next' = (IF Len(t) < size - 1 THEN Len(t) ELSE size - 1)
       /\ \A k \in 1 .. next' : buf'[k - 1] = t[k] % 256
       /\ buf' \in [0 .. Behind -> Int] /\ \A k \in 0 .. Behind : k >= size => buf'[k] = -1
  <2>1. CASE next < size - 1
    <3>1. next = Len(s) /\ next \in 0 .. Behind /\ next < size
      BY <1>5, <1>11, <1>13, <1>14, <2>1 DEF Kept
    <3>2. buf' = [buf EXCEPT ![next] = h % 256] /\ next' = next + 1
      BY <1>12, <2>1
    <3>3. next' = (IF Len(t) < size - 1 THEN Len(t) ELSE size - 1)
      BY <1>11, <1>13, <2>1, <3>1, <3>2
    <3>4. h % 256 \in Int
      BY <1>7
    <3>5. buf' \in [0 .. Behind -> Int]
      BY <1>13, <3>2, <3>4
    <3>6. \A k \in 0 .. Behind : buf'[k] = IF k = next THEN h % 256 ELSE buf[k]
      BY <1>13, <3>2
    <3>7. ASSUME NEW k \in 1 .. next + 1
          PROVE  buf'[k - 1] = t[k] % 256
      <4>1. k - 1 \in 0 .. Behind
        BY <1>13, <1>14, <3>1
      <4>2. CASE k = next + 1
        BY <1>11, <1>14, <3>1, <3>6, <4>1, <4>2
      <4>3. CASE k # next + 1
        <5>1. k \in 1 .. next /\ k - 1 # next /\ k \in 1 .. Len(s)
          BY <1>14, <3>1, <4>3
        <5> QED BY <1>5, <1>11, <3>6, <4>1, <5>1
      <4> QED BY <4>2, <4>3
    <3>8. \A k \in 0 .. Behind : k >= size => buf'[k] = -1
      BY <1>13, <3>1, <3>6
    <3> QED BY <3>2, <3>3, <3>5, <3>7, <3>8
  <2>2. CASE ~(next < size - 1)
    <3>1. next = size - 1 /\ next <= Len(s)
      BY <1>13, <1>14, <2>2
    <3>2. buf' = buf /\ next' = next
      BY <1>12, <2>2
    <3>3. next' = (IF Len(t) < size - 1 THEN Len(t) ELSE size - 1)
      BY <1>11, <1>13, <3>1, <3>2
    <3>4. \A k \in 1 .. next : k \in 1 .. Len(s)
      BY <1>11, <1>14
    <3> QED BY <1>5, <1>11, <1>13, <3>2, <3>3, <3>4
  <2> QED BY <2>1, <2>2
<1>16. Handed(t)'
  BY <1>2, <1>5, <1>11, <1>15 DEF Handed, Kept
<1>17. Underway(c)'
  BY <1>7, <1>9, <1>10, <1>16 DEF Underway
<1>18. Setting' /\ Buffer'
  BY <1>2, <1>15 DEF PrintInv, Setting, Buffer
<1> QED BY <1>1, <1>2, <1>17, <1>18 DEF PrintInv

(* For a directive that DashedNumber leaves out, what is printed is what   *)
(* the comments ask for.                                                   *)
LEMMA AsCommented ==
  ASSUME NEW c, IsDirective(c), ~DashedNumber(c)
  PROVE  Asked(c) = Printed(c)
PROOF
<1>1. SUFFICES Stands(ConvOf(c), c, {Dash}) = Stands(ConvOf(c), c, {})
  BY DEF Asked, Printed
<1>2. PICK ch : ch = ConvOf(c)
  OBVIOUS
<1>3. SUFFICES Stands(ch, c, {Dash}) = Stands(ch, c, {})
  BY <1>2
<1>4. CASE ch \in {99, 101, 115}
  <2>1. CASE ch = 99
    BY <2>1 DEF Stands, Percent
  <2>2. CASE ch = 101
    BY <2>2 DEF Stands, Percent
  <2>3. CASE ch = 115
    BY <2>3 DEF Stands, Percent
  <2> QED BY <1>4, <2>1, <2>2, <2>3
<1>5. CASE ch \notin Conversions
  BY <1>5 DEF Stands, Percent, Conversions
<1>6. CASE ch \in {100, 111, 112, 117, 120}
  <2>1. \A s \in Lines : Padded(c, s, {Dash}) = Padded(c, s, {})
    <3> SUFFICES ASSUME NEW s \in Lines, c.pad = Dash
                 PROVE  PadRight(c, s) = PadLeft(c, s)
      BY DEF Padded
    <3>1. Width(c) = 0
      BY <1>2, <1>6 DEF DashedNumber, Width
    <3>2. Len(s) \in Nat /\ Width(c) - Len(s) \in Int /\ Width(c) - Len(s) <= 0
      BY <3>1 DEF Lines
    <3>3. Times(Width(c) - Len(s), Space) = <<>> /\ Times(Width(c) - Len(s), c.pad) = <<>>
      BY <3>2, TimesFacts DEF Space, Dash
    <3>4. <<>> \o s = s /\ s \o <<>> = s
      BY JoinFacts DEF Lines
    <3> QED BY <3>3, <3>4 DEF PadRight, PadLeft
  <2>2. c.arg \in Int
    <3>1. c.conv # <<>> /\ c.conv[1] = ch
      BY <1>2, <1>6 DEF ConvOf, NUL
    <3>2. PICK x \in Byte8 \ Modifiers :
            c.conv = <<x>> /\ (x \in Conversions => IsArgument(c))
      BY <3>1 DEF IsDirective
    <3>3. IsArgument(c)
      BY <1>6, <3>1, <3>2 DEF Conversions
    <3>4. c.arg \in IF c.long >= 2 THEN LongLongs ELSE Ints
      BY <1>6, <3>1, <3>3 DEF IsArgument
    <3>5. (\A y \in LongLongs : y \in Int) /\ (\A y \in Ints : y \in Int)
      <4>1. IntSize \in Nat \ {0}
        BY PrintFmtAssumption
      <4>2. IntSize * IntSize \in Nat \ {0}
        BY <4>1, DivideTwice
      <4>3. \A y \in LongLongs : y \in Int
        BY <4>2 DEF LongLongs
      <4>4. \A y \in Ints : y \in Int
        BY <4>1 DEF Ints
      <4> QED BY <4>3, <4>4
    <3> QED BY <3>4, <3>5
  <2>3. \A num \in Nat, radix \in {8, 10, 16} : NumeralOf(num, radix) \in Lines
    <3> TAKE num \in Nat, radix \in {8, 10, 16}
    <3>1. radix \in Nat /\ radix > 1
      OBVIOUS
    <3> QED BY <3>1, NumeralStep
  <2>4. IntSize \in Nat \ {0} /\ Modulus(c) \in Nat \ {0}
    <3>1. IntSize \in Nat \ {0}
      BY PrintFmtAssumption
    <3>2. IntSize * IntSize \in Nat \ {0}
      BY <3>1, DivideTwice
    <3> QED BY <3>1, <3>2 DEF Modulus
  <2>5. CASE ch = 100
    <3> DEFINE n == NumeralOf(Magnitude(c.arg), 10)
               sign == IF c.arg < 0 THEN <<Dash>> ELSE <<>>
    <3>1. /\ Stands(ch, c, {Dash}) = sign \o Padded(c, n, {Dash})
          /\ Stands(ch, c, {}) = sign \o Padded(c, n, {})
      BY <2>5 DEF Stands, Percent
    <3>2. Magnitude(c.arg) \in Nat
      BY <2>2 DEF Magnitude
    <3>3. n \in Lines
      BY <2>3, <3>2
    <3> HIDE DEF n, sign
    <3> QED BY <2>1, <3>1, <3>3
  <2>6. CASE ch = 112
    <3> DEFINE n == NumeralOf(c.arg % IntSize, 16)
    <3>1. /\ Stands(ch, c, {Dash}) = <<Digit0, 120>> \o Padded(c, n, {Dash})
          /\ Stands(ch, c, {}) = <<Digit0, 120>> \o Padded(c, n, {})
      BY <2>6 DEF Stands, Percent
    <3>2. c.arg % IntSize \in Nat
      BY <2>2, <2>4
    <3>3. n \in Lines
      BY <2>3, <3>2
    <3> HIDE DEF n
    <3> QED BY <2>1, <3>1, <3>3
  <2>7. CASE ch \in {111, 117, 120}
    <3> DEFINE n == NumeralOf(c.arg % Modulus(c), BaseOf(ch))
    <3>1. /\ Stands(ch, c, {Dash}) = Padded(c, n, {Dash})
          /\ Stands(ch, c, {}) = Padded(c, n, {})
      BY <2>7 DEF Stands, Percent
    <3>2. c.arg % Modulus(c) \in Nat
      BY <2>2, <2>4
    <3>3. BaseOf(ch) \in {8, 10, 16}
      BY <2>7 DEF BaseOf
    <3>4. n \in Lines
      BY <2>3, <3>2, <3>3
    <3> HIDE DEF n
    <3> QED BY <2>1, <3>1, <3>4
  <2> QED BY <1>6, <2>5, <2>6, <2>7
<1> QED BY <1>4, <1>5, <1>6 DEF Conversions

(* The format is at its end: everything has been handed over.              *)
LEMMA AtEnd ==
  ASSUME PrintInv, returned = <<>>, FormatEnds
  PROVE  Printed(directive) \in Lines /\ Handed(Printed(directive))
PROOF
<1>1. PICK c : c = directive
  OBVIOUS
<1>2. IsDirective(c) /\ Underway(c)
  BY <1>1 DEF PrintInv, Setting
<1>3. pending = <<>> /\ inEscape # TRUE /\ Ch = NUL
  BY DEF FormatEnds
<1>4. ~Unread(c) /\ ~Reading(c)
  <2>1. Unread(c) => Ch = Percent
    BY <1>2, AtStart
  <2>2. ~Unread(c)
    BY <1>3, <2>1 DEF Percent, NUL
  <2>3. Reading(c) => inEscape = TRUE
    BY DEF Reading
  <2> QED BY <1>3, <2>2, <2>3, Zenon
<1>5. PICK s \in Lines : Handed(s) /\ ReadThrough /\ s \o Left = Printed(c)
  BY <1>2, <1>4 DEF Underway
<1>6. Rest = <<>>
  BY <1>3, <1>5, TextLeft
<1>7. <<>> \o <<>> = <<>> /\ s \o <<>> = s
  BY JoinFacts DEF Lines
<1>8. s = Printed(c)
  BY <1>3, <1>5, <1>6, <1>7 DEF Left
<1> QED BY <1>1, <1>5, <1>8

(* When the format ends, everything has been handed over; snprintf then    *)
(* terminates what it has stored.                                          *)
LEMMA ReturnKeeps ==
  ASSUME PrintInv, Returns
  PROVE  PrintInv'
PROOF
<1> DEFINE text == Printed(directive)
<1>1. returned = <<>> /\ UNCHANGED <<asked, directive, sink, size, next, cnt>>
  BY DEF Returns, InCall, outVars, history
<1>2. /\ size \in Int /\ size <= Behind /\ Behind \in Nat
      /\ sink \in {"cprintf", "snprintf"}
  BY PrintingAssumption DEF PrintInv, Setting
<1>3. Setting'
  BY <1>1 DEF PrintInv, Setting
<1>4. CASE Refused /\ returned' = <<-E_INVAL>> /\ buf' = buf
  <2>1. sink = "snprintf" /\ (buf = Null \/ size < 1)
    BY <1>4 DEF Refused
  <2>2. Buffer'
    BY <1>1, <1>4 DEF PrintInv, Buffer
  <2>3. PrintsWhatIsAsked'
    BY <1>1, <2>1 DEF PrintsWhatIsAsked
  <2>4. BufferHoldsPrefix'
    <3>1. ASSUME buf' # Null
          PROVE  /\ \A k \in DOMAIN buf' : k >= size => buf'[k] = -1
                 /\ size < 1
      <4>1. buf \in [0 .. Behind -> Int] /\ \A k \in 0 .. Behind : k >= size => buf[k] = -1
        BY <1>4, <2>1, <3>1 DEF PrintInv, Buffer
      <4> QED BY <1>4, <2>1, <3>1, <4>1
    <3> QED BY <1>1, <1>4, <3>1 DEF BufferHoldsPrefix
  <2> QED BY <1>3, <1>4, <2>2, <2>3, <2>4 DEF PrintInv
<1>5. CASE ~Refused /\ FormatEnds /\ sink = "snprintf" /\ returned' = <<cnt>>
           /\ buf' = [buf EXCEPT ![next] = NUL]
  <2>1. text \in Lines /\ Handed(text)
    BY <1>1, <1>5, AtEnd
  <2>2. /\ size >= 1 /\ buf \in [0 .. Behind -> Int]
        /\ \A k \in 0 .. Behind : k >= size => buf[k] = -1
    BY <1>2, <1>5 DEF PrintInv, Buffer, Refused
  <2>3. /\ cnt = Len(text) /\ next = Kept(text)
        /\ \A k \in 1 .. next : buf[k - 1] = text[k] % 256
    BY <1>5, <2>1 DEF Handed
  <2>4. Len(text) \in Nat
    BY <2>1 DEF Lines
  <2> HIDE DEF text
  <2>5. next \in 0 .. Behind /\ next < size /\ next \in Nat
    BY <1>2, <2>2, <2>3, <2>4 DEF Kept
  <2>6. /\ buf' \in [0 .. Behind -> Int]
        /\ \A k \in 0 .. Behind : buf'[k] = IF k = next THEN NUL ELSE buf[k]
    BY <1>5, <2>2, <2>5 DEF NUL
  <2>7. \A k \in 0 .. Behind : k >= size => buf'[k] = -1
    BY <1>2, <2>2, <2>5, <2>6
  <2>8. Min({size - 1, Len(text)}) = next
    <3>1. size - 1 \in Int /\ Len(text) \in Int
      BY <1>2, <2>4
    <3>2. Min({size - 1, Len(text)}) = IF size - 1 <= Len(text) THEN size - 1 ELSE Len(text)
      BY <3>1, MinTwo
    <3> QED BY <2>3, <2>4, <3>1, <3>2 DEF Kept
  <2>9. \A k \in 1 .. next : buf'[k - 1] = text[k] % 256
    <3> TAKE k \in 1 .. next
    <3>1. k - 1 \in 0 .. Behind /\ k - 1 # next
      BY <1>2, <2>5
    <3> QED BY <2>3, <2>6, <3>1
  <2>10. buf'[next] = NUL
    BY <2>5, <2>6
  <2>11. Buffer'
    BY <1>1, <2>6, <2>7 DEF Buffer
  <2>12. PrintsWhatIsAsked'
    BY <1>1, <1>5 DEF PrintsWhatIsAsked
  <2>13. text' = text
    BY <1>1 DEF text
  <2>14. returned' = <<Len(text)>> /\ returned' # <<>> /\ returned' # <<-E_INVAL>>
    BY <1>5, <2>3, <2>4 DEF E_INVAL
  <2>15. DOMAIN buf' = 0 .. Behind
    BY <2>6
  <2>16. BufferHoldsPrefix'
    BY <1>1, <2>7, <2>8, <2>9, <2>10, <2>14, <2>15 DEF BufferHoldsPrefix, text
  <2> QED BY <1>3, <2>11, <2>12, <2>14, <2>16 DEF PrintInv
<1>6. CASE FormatEnds /\ sink = "cprintf" /\ returned' = << 0 >> /\ buf' = buf
  <2>1. asked = text
    BY <1>1, <1>6, AtEnd DEF Handed
  <2>2. PrintsWhatIsAsked'
    <3>1. IsDirective(directive)
      BY DEF PrintInv, Setting
    <3>2. ~DashedNumber(directive) => asked = Asked(directive)
      BY <2>1, <3>1, AsCommented
    <3> QED BY <1>1, <3>2 DEF PrintsWhatIsAsked
  <2>3. BufferHoldsPrefix' /\ Buffer'
    BY <1>1, <1>6 DEF BufferHoldsPrefix, Buffer
  <2>4. returned' # <<>>
    BY <1>6
  <2> QED BY <1>3, <2>2, <2>3, <2>4 DEF PrintInv
<1> QED BY <1>4, <1>5, <1>6 DEF Returns

(* The devices, and what cputchar leads to.                                *)
LEMMA OutputKeeps ==
  ASSUME PrintInv,
         UNCHANGED <<fmtVars, directive, sink, size, bufVars, returned, asked>>
  PROVE  PrintInv'
PROOF
<1>1. PICK c : c = directive
  OBVIOUS
<1>2. UNCHANGED <<fmt, f, args, inEscape, padc, width, precision, lflag, altflag, pending,
                  directive, sink, size, buf, next, cnt, returned, asked>>
  BY DEF fmtVars, flagVars, bufVars
<1>3. Setting' /\ Buffer'
  BY <1>2 DEF PrintInv, Setting, Buffer
<1>4. PrintsWhatIsAsked' = PrintsWhatIsAsked /\ BufferHoldsPrefix' = BufferHoldsPrefix
  BY <1>2 DEF PrintsWhatIsAsked, BufferHoldsPrefix
<1>5. ASSUME Underway(c)
      PROVE  Underway(c)'
  <2>1. \A s : Handed(s) => Handed(s)'
    BY <1>2 DEF Handed, Kept, Refused
  <2>2. Unread(c) => Unread(c)'
    BY <1>2 DEF Unread
  <2>3. Rest' = Rest
    BY <1>2 DEF Rest
  <2>4. Reading(c) => Reading(c)'
    BY <1>2 DEF Reading
  <2>5. InDirective(c) => InDirective(c)'
    BY <1>2, <2>3 DEF InDirective, AtPad, AtAlt, AtWidth, AtPrec, AtPrecNumber, AtLong, Flags
  <2>6. Left' = Left /\ (ReadThrough => ReadThrough')
    BY <1>2, <2>3 DEF Left, ReadThrough
  <2> QED BY <1>5, <2>1, <2>2, <2>4, <2>5, <2>6 DEF Underway
<1> QED BY <1>1, <1>2, <1>3, <1>4, <1>5 DEF PrintInv

(* Every step of the call and of the devices keeps the invariant.          *)
LEMMA PrintStep ==
  PrintInv /\ [PrintNext]_printVars => PrintInv'
PROOF
<1> SUFFICES ASSUME PrintInv, [PrintNext]_printVars PROVE PrintInv'
  OBVIOUS
<1>1. CASE Format
  BY <1>1, FormatKeeps
<1>2. CASE putch
  BY <1>2, PutchKeeps
<1>3. CASE sprintputch
  BY <1>3, SprintputchKeeps
<1>4. CASE cputchar_Goes
  <2>1. cons_putc /\ UNCHANGED <<fmtVars, directive, sink, size, bufVars, returned>>
    BY <1>4 DEF cputchar_Goes
  <2>2. asked' = asked
    BY <2>1 DEF cons_putc, serial_putc, lpt_putc, cga_putc, Wait, Write, history
  <2> QED BY <2>1, <2>2, OutputKeeps
<1>5. CASE Returns
  BY <1>5, ReturnKeeps
<1>6. CASE Devices /\ UNCHANGED <<fmtVars, directive, sink, size, bufVars, returned>>
  <2>1. asked' = asked
    BY <1>6 DEF Devices, Transmit, history
  <2> QED BY <1>6, <2>1, OutputKeeps
<1>7. CASE UNCHANGED printVars
  <2>1. UNCHANGED <<fmtVars, directive, sink, size, bufVars, returned, asked>>
    BY <1>7 DEF printVars, outVars, history
  <2> QED BY <2>1, OutputKeeps
<1> QED BY <1>1, <1>2, <1>3, <1>4, <1>5, <1>6, <1>7 DEF PrintNext, Kernel

(* The invariant says what the two calls promise, at every moment.         *)
LEMMA PrintPromises ==
  PrintInv => PrintsWhatIsAsked /\ BufferHoldsPrefix
PROOF
<1> SUFFICES ASSUME PrintInv, returned = <<>> PROVE PrintsWhatIsAsked /\ BufferHoldsPrefix
  BY DEF PrintInv
<1>1. PrintsWhatIsAsked
  BY DEF PrintsWhatIsAsked
<1>2. ASSUME sink = "snprintf", buf # Null
      PROVE  \A k \in DOMAIN buf : k >= size => buf[k] = -1
  <2>1. buf \in [0 .. Behind -> Int] /\ \A k \in 0 .. Behind : k >= size => buf[k] = -1
    BY <1>2 DEF PrintInv, Buffer
  <2> QED BY <2>1
<1>3. BufferHoldsPrefix
  BY <1>2 DEF BufferHoldsPrefix
<1> QED BY <1>1, <1>3

(* Every directive that cprintf is called with prints what it stands for,  *)
(* whatever its flags, width, precision and argument (printfmt.c:82-243).  *)
THEOREM PrintingCorrect ==
  PrintSpec => []PrintsWhatIsAsked
PROOF
<1>1. PrintInit => PrintInv
  BY PrintInitially
<1>2. PrintInv /\ [PrintNext]_printVars => PrintInv'
  BY PrintStep
<1>3. PrintInv => PrintsWhatIsAsked
  BY PrintPromises
<1> QED BY <1>1, <1>2, <1>3, PTL DEF PrintSpec

(* snprintf writes into its n bytes only, leaves there the beginning of    *)
(* what was to be printed, terminated, and returns the length it would     *)
(* have had (printfmt.c:261-284).                                          *)
THEOREM SnprintfCorrect ==
  PrintSpec => []BufferHoldsPrefix
PROOF
<1>1. PrintInit => PrintInv
  BY PrintInitially
<1>2. PrintInv /\ [PrintNext]_printVars => PrintInv'
  BY PrintStep
<1>3. PrintInv => BufferHoldsPrefix
  BY PrintPromises
<1> QED BY <1>1, <1>2, <1>3, PTL DEF PrintSpec

(* cprintf drives the console as ConsoleOutput says and in no other way:   *)
(* a character at a time, the next one after the last has reached the      *)
(* screen (printf.c:9-15, console.c:431-438).                              *)
THEOREM PrintingUsesConsole == PrintSpec => OutSpec
PROOF
<1>1. PrintInit => PrintInv /\ OutInit
  BY PrintInitially DEF PrintInit
<1>2. PrintInv /\ [PrintNext]_printVars => PrintInv'
  BY PrintStep
<1>3. PrintInv /\ [PrintNext]_printVars => [OutNext]_outVars
  <2> SUFFICES ASSUME PrintInv, [PrintNext]_printVars PROVE [OutNext]_outVars
    OBVIOUS
  <2>1. CASE putch
    <3>1. cputchar(Head(pending)) /\ returned = <<>> /\ pending # <<>>
      BY <2>1 DEF putch, InCall
    <3>2. pending \in Lines
      BY <3>1, WhilePending DEF ReadThrough
    <3>3. Head(pending) \in Int
      BY <3>1, <3>2 DEF Lines
    <3> QED BY <3>1, <3>3 DEF OutNext
  <2>2. CASE cputchar_Goes
    BY <2>2 DEF cputchar_Goes, OutNext
  <2>3. CASE Devices
    BY <2>3 DEF OutNext
  <2>4. CASE Format \/ sprintputch \/ Returns \/ UNCHANGED printVars
    <3>1. UNCHANGED outVars
      BY <2>4 DEF Format, sprintputch, Returns, printVars
    <3> QED BY <3>1
  <2> QED BY <2>1, <2>2, <2>3, <2>4 DEF PrintNext, Kernel
<1> QED BY <1>1, <1>2, <1>3, PTL DEF PrintSpec, OutSpec

(* So what cprintf prints reaches the ports and the screen as well         *)
(* (printf.c:9-15, console.c:431-438).                                     *)
THEOREM PrintingDelivered == PrintSpec => []OutputDelivered
PROOF
<1> QED BY PrintingUsesConsole, OutputCorrect, PTL
=============================================================================
