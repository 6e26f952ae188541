---------------------------- MODULE Entry_proofs ----------------------------
(***************************************************************************)
(* Proofs about boot/boot.S, boot/main.c, kern/entry.S and                 *)
(* kern/entrypgdir.c, for every kernel file, every size of sectors, pages  *)
(* and memory, and every place of loader and headers that the assumptions  *)
(* of BootLoader and Entry allow.                                          *)
(*                                                                         *)
(* The headers are treated as a segment of their own, number 0 (Header).   *)
(* The invariant says how far readseg has come in the segment it is        *)
(* reading: that pa is at a sector boundary, which sector of the disk      *)
(* belongs there (ReadingOK), and that all bytes of the file's below pa    *)
(* and in the segments before are in place (LoadedOK).                     *)
(***************************************************************************)
EXTENDS Entry, TLAPS

Header ==
  [pa |-> ELFHDR, offset |-> 0,
   filesz |-> HeaderSectors * SECTSIZE, memsz |-> HeaderSectors * SECTSIZE]

SegmentAt(n) == IF n = 0 THEN Header ELSE image.segments[n]
Current == SegmentAt(ph)

(* Where readseg is at work, and where it has finished with a segment.     *)
ReadingAt == {"readseg", "readsect", "insl"}
StartingAt == {"seta20_1", "seta20_2", "protcseg"}
OutAt ==
  {"entry", "paging_on", "jump", "relocated", "call", "i386_init", "cons_init"}

BootTypeOK ==
  /\ image \in Images
  /\ DOMAIN mem = 0 .. MemSize - 1
  /\ pc \in StartingAt \cup ReadingAt \cup {"bootmain", "bad"} \cup OutAt
  /\ a20 \in BOOLEAN /\ (pc \notin {"seta20_1", "seta20_2"} => a20)
  /\ pc = "seta20_2" => toPort
  /\ ph \in 0 .. Len(image.segments)
  /\ pa \in Nat /\ end_pa \in Nat /\ offset \in Nat

(* The sector of the disk that belongs to pa.                              *)
ReadingOK ==
  /\ pc \in StartingAt => ph = 0 /\ pa = 0
  /\ pc \in ReadingAt =>
       /\ end_pa = Current.pa + Current.memsz
       /\ pa % SECTSIZE = 0 /\ RoundDown(Current.pa) <= pa
       /\ offset - 1 = pa \div SECTSIZE
                       + (Current.offset \div SECTSIZE - Current.pa \div SECTSIZE)
  /\ pc \in {"readsect", "insl"} => pa < end_pa
  /\ pc = "insl" => requested = offset
  /\ pc \in {"bootmain", "bad"} \cup OutAt => pa >= Current.pa + Current.memsz
  /\ pc \in OutAt => ph = Len(image.segments)

(* What has been read is in place.                                         *)
Loaded ==
  \A n \in 0 .. ph : \A a \in FileArea(SegmentAt(n)) :
    n < ph \/ a < pa => mem[a] = a - SegmentAt(n).pa + SegmentAt(n).offset

LoadedOK == pc \notin {"i386_init", "cons_init"} => Loaded

LoaderOK == LoaderRuns => \A a \in LoaderArea : mem[a] = Loader

(* The registers as entry.S leaves them.                                   *)
RegistersOK ==
  /\ paging <=> pc \in {"jump", "relocated", "call", "i386_init", "cons_init"}
  /\ pc \in {"paging_on", "jump"} => eip = EntryPa
  /\ pc \in {"relocated", "call", "i386_init", "cons_init"} => eip = KERNBASE + EntryPa
  /\ pc = "call" => esp = bootstacktop
  /\ pc \in {"i386_init", "cons_init"} => esp = bootstacktop - 1

(* All bytes of the file's but the one under the return address are in     *)
(* place in the kernel.                                                    *)
RunningOK ==
  /\ pc \in {"i386_init", "cons_init"} =>
       \A n \in DOMAIN image.segments : \A a \in FileArea(image.segments[n]) :
         a = Data.pa \/ mem[a] = a - image.segments[n].pa + image.segments[n].offset
  /\ pc = "cons_init" =>
       \A a \in Data.pa + Data.filesz .. Data.pa + Data.memsz - 1 : mem[a] = Zero

EntryInv ==
  BootTypeOK /\ ReadingOK /\ LoadedOK /\ LoaderOK /\ RegistersOK /\ RunningOK

-----------------------------------------------------------------------------
(* Arithmetic.                                                             *)

(* Division with remainder.                                                *)
LEMMA Division ==
  ASSUME NEW n \in Int, NEW d \in Nat \ {0}
  PROVE  /\ n \div d \in Int /\ n % d \in 0 .. d - 1
         /\ n = (n \div d) * d + (n % d)
  OBVIOUS

(* The same for what is not negative.                                      *)
LEMMA NatDivision ==
  ASSUME NEW n \in Nat, NEW d \in Nat \ {0}
  PROVE  /\ n \div d \in Nat /\ n % d \in 0 .. d - 1
         /\ n = (n \div d) * d + (n % d)
         /\ (n \div d) * d \in Nat
PROOF
<1>1. n \div d \in Nat
  OBVIOUS
<1>2. n % d \in 0 .. d - 1 /\ n = (n \div d) * d + (n % d)
  BY Division
<1> QED BY <1>1, <1>2

(* The quotient and the remainder are the only ones.                       *)
LEMMA Quotient ==
  ASSUME NEW q \in Int, NEW d \in Nat \ {0}, NEW r \in 0 .. d - 1
  PROVE  (q * d + r) \div d = q /\ (q * d + r) % d = r
PROOF
<1> DEFINE n == q * d + r
<1>1. q * d \in Int /\ n \in Int
  OBVIOUS
<1>2. /\ n \div d \in Int /\ n % d \in 0 .. d - 1
      /\ n = (n \div d) * d + (n % d)
  BY <1>1, Division
<1>3. ASSUME NEW p \in Int, NEW s \in 0 .. d - 1, n = p * d + s
      PROVE  p = q /\ s = r
  <2>1. p * d + s = q * d + r
    BY <1>3
  <2>2. CASE p < q
    <3>1. p * d + d <= q * d
      BY <2>2
    <3> QED BY <2>1, <3>1, <1>1
  <2>3. CASE p > q
    <3>1. q * d + d <= p * d
      BY <2>3
    <3> QED BY <2>1, <3>1, <1>1
  <2> QED BY <2>1, <2>2, <2>3
<1> HIDE DEF n
<1>4. n \div d = q /\ n % d = r
  BY <1>2, <1>3
<1> QED BY <1>4 DEF n

(* Adding a multiple of d.                                                 *)
LEMMA MultipleAdded ==
  ASSUME NEW m \in Nat, NEW d \in Nat \ {0}, m % d = 0, NEW a \in Nat
  PROVE  (m + a) \div d = m \div d + a \div d /\ (m + a) % d = a % d
PROOF
<1> DEFINE q == m \div d  p == a \div d  r == a % d
<1>1. q \in Nat /\ m = q * d
  BY NatDivision
<1>2. p \in Nat /\ r \in 0 .. d - 1 /\ a = p * d + r
  BY NatDivision
<1> HIDE DEF q, p, r
<1>3. m + a = (q + p) * d + r
  BY <1>1, <1>2
<1>4. ((q + p) * d + r) \div d = q + p /\ ((q + p) * d + r) % d = r
  BY <1>1, <1>2, Quotient
<1>5. (m + a) \div d = q + p /\ (m + a) % d = r
  BY <1>3, <1>4
<1> QED BY <1>5 DEF q, p, r

(* The start of a sector.                                                  *)
LEMMA RoundDownFacts ==
  ASSUME NEW a \in Nat
  PROVE  /\ RoundDown(a) \in Nat /\ RoundDown(a) <= a /\ a < RoundDown(a) + SECTSIZE
         /\ RoundDown(a) % SECTSIZE = 0
         /\ RoundDown(a) \div SECTSIZE = a \div SECTSIZE
         /\ a = RoundDown(a) + (a % SECTSIZE)
PROOF
<1> DEFINE q == a \div SECTSIZE  r == a % SECTSIZE
<1>1. SECTSIZE \in Nat \ {0}
  BY BootAssumption
<1>2. q \in Nat /\ r \in 0 .. SECTSIZE - 1 /\ a = q * SECTSIZE + r
  BY <1>1, NatDivision
<1>3. RoundDown(a) = q * SECTSIZE
  BY DEF RoundDown
<1> HIDE DEF q, r
<1>4. q * SECTSIZE \in Nat /\ q * SECTSIZE = q * SECTSIZE + 0 /\ 0 \in 0 .. SECTSIZE - 1
  BY <1>1, <1>2
<1>5. (q * SECTSIZE) \div SECTSIZE = q /\ (q * SECTSIZE) % SECTSIZE = 0
  BY <1>1, <1>2, <1>4, Quotient
<1>6. /\ RoundDown(a) \in Nat /\ RoundDown(a) <= a /\ a < RoundDown(a) + SECTSIZE
      /\ RoundDown(a) % SECTSIZE = 0 /\ RoundDown(a) \div SECTSIZE = q
      /\ a = RoundDown(a) + r
  BY <1>1, <1>2, <1>3, <1>4, <1>5
<1> QED BY <1>6 DEF q, r

(* The bytes of the sector at p.                                           *)
LEMMA SectorBytes ==
  ASSUME NEW p \in Nat, p % SECTSIZE = 0, NEW a \in p .. p + SECTSIZE - 1
  PROVE  RoundDown(a) = p /\ a % SECTSIZE = a - p /\ p = (p \div SECTSIZE) * SECTSIZE
PROOF
<1> DEFINE q == p \div SECTSIZE
<1>1. SECTSIZE \in Nat \ {0}
  BY BootAssumption
<1>2. q \in Nat /\ p = q * SECTSIZE
  BY <1>1, NatDivision
<1> HIDE DEF q
<1>3. a - p \in 0 .. SECTSIZE - 1 /\ a = q * SECTSIZE + (a - p) /\ a \in Nat
  BY <1>1, <1>2
<1>4. a \div SECTSIZE = q /\ a % SECTSIZE = a - p
  <2> DEFINE r == a - p
  <2>1. r \in 0 .. SECTSIZE - 1 /\ a = q * SECTSIZE + r
    BY <1>3
  <2> HIDE DEF r
  <2>2. (q * SECTSIZE + r) \div SECTSIZE = q /\ (q * SECTSIZE + r) % SECTSIZE = r
    BY <1>1, <1>2, <2>1, Quotient
  <2>3. a \div SECTSIZE = q /\ a % SECTSIZE = r
    BY <2>1, <2>2
  <2> QED BY <2>3 DEF r
<1>5. RoundDown(a) = p
  BY <1>2, <1>4 DEF RoundDown
<1> QED BY <1>2, <1>4, <1>5 DEF q

(* The next sector.                                                        *)
LEMMA NextSector ==
  ASSUME NEW p \in Nat, p % SECTSIZE = 0
  PROVE  /\ (p + SECTSIZE) % SECTSIZE = 0
         /\ (p + SECTSIZE) \div SECTSIZE = p \div SECTSIZE + 1
PROOF
<1>1. SECTSIZE \in Nat \ {0}
  BY BootAssumption
<1>2. SECTSIZE = 1 * SECTSIZE + 0 /\ 0 \in 0 .. SECTSIZE - 1
  BY <1>1
<1>3. SECTSIZE \div SECTSIZE = 1 /\ SECTSIZE % SECTSIZE = 0
  BY <1>1, <1>2, Quotient
<1> QED BY <1>1, <1>3, MultipleAdded

-----------------------------------------------------------------------------
(* The kernel file.                                                        *)

(* The elements of a sequence.                                             *)
LEMMA ElementOf ==
  ASSUME NEW T, NEW s \in Seq(T), NEW n \in DOMAIN s
  PROVE  s[n] \in T
  OBVIOUS

(* What the assumptions say of a segment, and of the headers.              *)
LEMMA SegmentFacts ==
  ASSUME BootTypeOK, NEW n \in 0 .. Len(image.segments)
  PROVE  LET s == SegmentAt(n) IN
         /\ s.pa \in Nat /\ s.offset \in Nat /\ s.filesz \in Nat /\ s.memsz \in Nat
         /\ s.filesz <= s.memsz /\ s.offset + s.filesz <= image.length
         /\ s.pa + s.memsz <= MemSize
         /\ s.pa % SECTSIZE = s.offset % SECTSIZE
         /\ image.length \in Nat /\ Len(image.segments) \in Nat
         /\ DOMAIN image.segments = 1 .. Len(image.segments)
PROOF
<1>1. image \in Images
  BY DEF BootTypeOK
<1>2. /\ image.segments \in Seq([pa : Nat, offset : Nat, filesz : Nat, memsz : Nat])
      /\ image.length \in Nat /\ HeaderSectors * SECTSIZE <= image.length
  BY <1>1, ImagesAssumption
<1>3. Len(image.segments) \in Nat /\ DOMAIN image.segments = 1 .. Len(image.segments)
  BY <1>2
<1>4. CASE n = 0
  <2>1. SegmentAt(n) = Header
    BY <1>4 DEF SegmentAt
  <2>2. HeaderSectors * SECTSIZE \in Nat
    BY BootAssumption
  <2>3. 0 % SECTSIZE = 0
    BY BootAssumption, Quotient
  <2> QED BY <1>2, <1>3, <2>1, <2>2, <2>3, BootAssumption DEF Header
<1>5. CASE n # 0
  <2>1. n \in DOMAIN image.segments /\ SegmentAt(n) = image.segments[n]
    BY <1>3, <1>5 DEF SegmentAt
  <2>2. image.segments[n] \in [pa : Nat, offset : Nat, filesz : Nat, memsz : Nat]
    BY <1>2, <2>1, ElementOf
  <2>3. LET s == image.segments[n]
        IN  /\ s.filesz <= s.memsz /\ s.offset + s.filesz <= image.length
            /\ s.pa + s.memsz <= MemSize
            /\ s.pa % SECTSIZE = s.offset % SECTSIZE
    BY <1>1, <2>1, ImagesAssumption
  <2> QED BY <1>2, <1>3, <2>1, <2>2, <2>3
<1> QED BY <1>4, <1>5

(* A sector that is read for a segment is one of its sectors.              *)
LEMMA SectorOfCurrent ==
  ASSUME BootTypeOK, ReadingOK, pc = "insl",
         NEW a \in 0 .. MemSize - 1, pa <= a, a < pa + SECTSIZE
  PROVE  a \in SectorsOf(Current)
PROOF
<1>1. /\ pa % SECTSIZE = 0 /\ RoundDown(Current.pa) <= pa
      /\ pa < end_pa /\ end_pa = Current.pa + Current.memsz
  BY DEF ReadingOK, ReadingAt
<1>2. ph \in 0 .. Len(image.segments) /\ pa \in Nat
  BY DEF BootTypeOK
<1>3. Current.pa \in Nat
  BY <1>2, SegmentFacts DEF Current
<1>4. RoundDown(Current.pa) \in Nat
  BY <1>3, RoundDownFacts
<1>5. SECTSIZE \in Nat \ {0} /\ MemSize \in Nat
  BY BootAssumption
<1>6. a \in pa .. pa + SECTSIZE - 1
  BY <1>2, <1>5
<1>7. RoundDown(a) = pa
  BY <1>1, <1>2, <1>6, SectorBytes
<1> QED BY <1>1, <1>2, <1>4, <1>5, <1>7 DEF SectorsOf

(* The byte of the file that a sector brings to an address.                *)
LEMMA ByteOfFile ==
  ASSUME BootTypeOK, ReadingOK, pc = "insl",
         NEW a \in pa .. pa + SECTSIZE - 1,
         a - Current.pa + Current.offset < image.length
  PROVE  DiskByte(requested, a % SECTSIZE) = a - Current.pa + Current.offset
PROOF
<1> DEFINE S == SECTSIZE  c == Current.pa  o == Current.offset
           p == pa \div S  d == c \div S  e == o \div S
<1>1. S \in Nat \ {0} /\ pa \in Nat /\ a \in Nat
  BY BootAssumption DEF BootTypeOK
<1>2. /\ pa % S = 0 /\ offset - 1 = p + (e - d) /\ requested = offset
      /\ RoundDown(c) <= pa
  BY DEF ReadingOK, ReadingAt
<1>3. /\ c \in Nat /\ o \in Nat /\ c % S = o % S /\ image.length \in Nat
  BY SegmentFacts DEF Current, BootTypeOK
<1>4. /\ c = d * S + (c % S) /\ o = e * S + (o % S) /\ d \in Nat /\ e \in Nat
      /\ c % S \in 0 .. S - 1
  BY <1>1, <1>3, NatDivision
<1>5. a % S = a - pa /\ pa = p * S /\ p \in Nat
  BY <1>1, <1>2, SectorBytes, NatDivision
<1>6. RoundDown(c) = d * S
  BY DEF RoundDown
<1>7. offset \in Nat
  BY DEF BootTypeOK
<1> HIDE DEF S, c, o, p, d, e
<1>8. (offset - 1) * S + (a % S) = a - c + o
  <2>1. (offset - 1) * S = p * S + e * S - d * S
    BY <1>1, <1>2, <1>4, <1>5
  <2>2. p * S \in Int /\ e * S \in Int /\ d * S \in Int
    BY <1>1, <1>4, <1>5
  <2> QED BY <2>1, <2>2, <1>1, <1>3, <1>4, <1>5
<1>9. d <= p
  <2>1. d * S <= p * S
    BY <1>2, <1>5, <1>6
  <2>2. p < d => p * S < d * S
    BY <1>1, <1>4, <1>5
  <2>3. p * S \in Int /\ d * S \in Int
    BY <1>1, <1>4, <1>5
  <2> QED BY <2>1, <2>2, <2>3, <1>4, <1>5
<1>10. requested # 0
  BY <1>2, <1>4, <1>5, <1>7, <1>9
<1>11. DiskByte(requested, a % S) = (offset - 1) * S + (a % S)
  BY <1>2, <1>8, <1>10 DEF DiskByte, S, c, o
<1>12. DiskByte(requested, a % S) = a - c + o
  BY <1>8, <1>11
<1> QED BY <1>12 DEF S, c, o

-----------------------------------------------------------------------------
(* The steps of the loader.                                                *)

(* What insl does to memory.                                               *)
LEMMA SectorStored ==
  ASSUME BootTypeOK, TransferSector
  PROVE  /\ DOMAIN mem' = 0 .. MemSize - 1
         /\ \A a \in 0 .. MemSize - 1 :
              mem'[a] = IF a \in pa .. pa + SECTSIZE - 1
                        THEN DiskByte(requested, a % SECTSIZE) ELSE mem[a]
PROOF
<1>1. /\ DOMAIN mem = 0 .. MemSize - 1 /\ a20 /\ pa \in Nat
  BY DEF BootTypeOK, TransferSector
<1>2. SECTSIZE \in Nat \ {0}
  BY BootAssumption
<1>3. \A a \in Int : (\E k \in 0 .. SECTSIZE - 1 : a = Physical(pa + k))
                     <=> a \in pa .. pa + SECTSIZE - 1
  <2>1. \A k \in 0 .. SECTSIZE - 1 : Physical(pa + k) = pa + k
    BY <1>1 DEF Physical
  <2> TAKE a \in Int
  <2>2. ASSUME a \in pa .. pa + SECTSIZE - 1
        PROVE  \E k \in 0 .. SECTSIZE - 1 : a = Physical(pa + k)
    <3>1. a - pa \in 0 .. SECTSIZE - 1 /\ a = pa + (a - pa)
      BY <1>1, <1>2, <2>2
    <3> QED BY <2>1, <3>1
  <2>3. ASSUME NEW k \in 0 .. SECTSIZE - 1, a = Physical(pa + k)
        PROVE  a \in pa .. pa + SECTSIZE - 1
    BY <1>1, <1>2, <2>1, <2>3
  <2> QED BY <2>2, <2>3
<1>4. mem' = [a \in DOMAIN mem |->
                IF \E k \in 0 .. SECTSIZE - 1 : a = Physical(pa + k)
                THEN DiskByte(requested, a % SECTSIZE) ELSE mem[a]]
  BY DEF TransferSector, waitdisk
<1>5. \A a \in 0 .. MemSize - 1 : a \in Int
  BY BootAssumption
<1> QED BY <1>1, <1>3, <1>4, <1>5

(* A sector does not disturb what lies in its place already: nothing of    *)
(* the loader, and bytes of segments before only by themselves.            *)
LEMMA SectorHarmless ==
  ASSUME BootTypeOK, ReadingOK, pc = "insl", NEW a \in 0 .. MemSize - 1,
         a \in pa .. pa + SECTSIZE - 1
  PROVE  /\ a \notin LoaderArea
         /\ \A n \in 0 .. ph - 1 :
              a \in FileArea(SegmentAt(n)) =>
                a - SegmentAt(n).pa + SegmentAt(n).offset
                  = a - Current.pa + Current.offset
PROOF
<1>1. /\ image \in Images /\ ph \in 0 .. Len(image.segments) /\ pa \in Nat
      /\ SECTSIZE \in Nat \ {0} /\ MemSize \in Nat
  BY BootAssumption DEF BootTypeOK
<1>2. Len(image.segments) \in Nat /\ DOMAIN image.segments = 1 .. Len(image.segments)
  BY <1>1, SegmentFacts
<1>3. pa <= a /\ a < pa + SECTSIZE
  BY <1>1
<1>4. CASE ph = 0
  <2>1. Current = Header
    BY <1>4 DEF Current, SegmentAt
  <2>2. RoundDown(ELFHDR) = ELFHDR
    BY BootAssumption, RoundDownFacts
  <2>3. ELFHDR <= pa
    BY <2>1, <2>2 DEF ReadingOK, ReadingAt, Header
  <2>4. start + SECTSIZE <= ELFHDR /\ ELFHDR \in Nat /\ start \in Nat
    BY BootAssumption
  <2>5. a \notin LoaderArea
    BY <1>1, <1>3, <2>3, <2>4 DEF LoaderArea
  <2> QED BY <1>4, <2>5
<1>5. CASE ph # 0
  <2>1. ph \in DOMAIN image.segments /\ Current = image.segments[ph]
    BY <1>1, <1>2, <1>5 DEF Current, SegmentAt
  <2>2. a \in SectorsOf(Current)
    BY <1>3, SectorOfCurrent
  <2>3. SectorsOf(Current) \cap (LoaderArea \cup HeaderArea) = {}
    BY <1>1, <2>1, ImagesAssumption
  <2>4. ASSUME NEW n \in 0 .. ph - 1, a \in FileArea(SegmentAt(n))
        PROVE  a - SegmentAt(n).pa + SegmentAt(n).offset
                 = a - Current.pa + Current.offset
    <3>1. n # 0
      <4>1. FileArea(Header) = HeaderArea
        BY DEF FileArea, Header, HeaderArea
      <4> QED BY <2>2, <2>3, <2>4, <4>1 DEF SegmentAt
    <3>2. n \in 1 .. ph - 1 /\ SegmentAt(n) = image.segments[n]
      BY <1>1, <1>2, <3>1 DEF SegmentAt
    <3>3. \/ SectorsOf(Current) \cap FileArea(SegmentAt(n)) = {}
          \/ Current.pa - Current.offset = SegmentAt(n).pa - SegmentAt(n).offset
      BY <1>1, <2>1, <3>2, ImagesAssumption
    <3>4. Current.pa - Current.offset = SegmentAt(n).pa - SegmentAt(n).offset
      BY <2>2, <2>4, <3>3
    <3>5. /\ Current.pa \in Nat /\ Current.offset \in Nat
          /\ SegmentAt(n).pa \in Nat /\ SegmentAt(n).offset \in Nat
      <4>1. n \in 0 .. Len(image.segments)
        BY <1>1, <1>2
      <4> QED BY <1>1, <4>1, SegmentFacts DEF Current
    <3> DEFINE x == Current.pa  y == Current.offset
               u == SegmentAt(n).pa  v == SegmentAt(n).offset
    <3>6. a \in Int /\ x \in Int /\ y \in Int /\ u \in Int /\ v \in Int
      BY <1>1, <3>5
    <3>7. x - y = u - v
      BY <3>4
    <3> HIDE DEF x, y, u, v
    <3>8. a - u + v = a - x + y
      BY <3>6, <3>7
    <3> QED BY <3>8 DEF x, y, u, v
  <2> QED BY <2>2, <2>3, <2>4
<1> QED BY <1>4, <1>5

(* The bytes of a segment lie in memory.                                   *)
LEMMA FileInMemory ==
  ASSUME BootTypeOK, NEW n \in 0 .. Len(image.segments), NEW a \in FileArea(SegmentAt(n))
  PROVE  /\ a \in 0 .. MemSize - 1
         /\ a < SegmentAt(n).pa + SegmentAt(n).memsz
         /\ a - SegmentAt(n).pa + SegmentAt(n).offset < image.length
PROOF
<1> DEFINE s == SegmentAt(n)
<1>1. /\ s.pa \in Nat /\ s.offset \in Nat /\ s.filesz \in Nat /\ s.memsz \in Nat
      /\ s.filesz <= s.memsz /\ s.offset + s.filesz <= image.length
      /\ s.pa + s.memsz <= MemSize /\ image.length \in Nat
  BY SegmentFacts
<1>2. a \in s.pa .. s.pa + s.filesz - 1
  BY DEF FileArea
<1>3. MemSize \in Nat
  BY BootAssumption
<1> DEFINE pa_s == s.pa  off_s == s.offset  filesz_s == s.filesz  memsz_s == s.memsz
           length == image.length
<1> HIDE DEF s
<1>4. /\ pa_s \in Nat /\ off_s \in Nat /\ filesz_s \in Nat /\ memsz_s \in Nat
      /\ filesz_s <= memsz_s /\ off_s + filesz_s <= length
      /\ pa_s + memsz_s <= MemSize /\ length \in Nat
      /\ a \in pa_s .. pa_s + filesz_s - 1
  BY <1>1, <1>2
<1> HIDE DEF pa_s, off_s, filesz_s, memsz_s, length
<1>5. a \in 0 .. MemSize - 1 /\ a < pa_s + memsz_s /\ a - pa_s + off_s < length
  BY <1>3, <1>4
<1> QED BY <1>5 DEF s, pa_s, off_s, memsz_s, length

(* A sector that is transferred puts its own bytes in place and leaves the *)
(* others there.                                                           *)
LEMMA SectorLoads ==
  ASSUME BootTypeOK, ReadingOK, Loaded, TransferSector
  PROVE  Loaded'
PROOF
<1>1. /\ pc = "insl" /\ image' = image /\ ph' = ph /\ pa' = pa + SECTSIZE
  BY DEF TransferSector
<1>2. /\ ph \in 0 .. Len(image.segments) /\ pa \in Nat /\ SECTSIZE \in Nat \ {0}
  BY BootAssumption DEF BootTypeOK
<1>3. Len(image.segments) \in Nat
  BY <1>2, SegmentFacts
<1> SUFFICES ASSUME NEW n \in 0 .. ph, NEW a \in FileArea(SegmentAt(n)),
                    n < ph \/ a < pa + SECTSIZE
             PROVE  mem'[a] = a - SegmentAt(n).pa + SegmentAt(n).offset
  BY <1>1 DEF Loaded, SegmentAt, FileArea, Header
<1>4. n \in 0 .. Len(image.segments)
  BY <1>2, <1>3
<1>5. a \in 0 .. MemSize - 1 /\ a - SegmentAt(n).pa + SegmentAt(n).offset < image.length
  BY <1>4, FileInMemory
<1>6. MemSize \in Nat
  BY BootAssumption
<1>7. CASE a \in pa .. pa + SECTSIZE - 1
  <2>1. mem'[a] = DiskByte(requested, a % SECTSIZE)
    BY <1>5, <1>7, SectorStored
  <2>2. a - SegmentAt(n).pa + SegmentAt(n).offset = a - Current.pa + Current.offset
    <3>1. CASE n = ph
      BY <3>1 DEF Current
    <3>2. CASE n # ph
      <4>1. n \in 0 .. ph - 1
        BY <1>2, <1>3, <3>2
      <4> QED BY <1>1, <1>5, <1>7, <4>1, SectorHarmless
    <3> QED BY <3>1, <3>2
  <2>3. DiskByte(requested, a % SECTSIZE) = a - Current.pa + Current.offset
    BY <1>1, <1>5, <1>7, <2>2, ByteOfFile
  <2> QED BY <2>1, <2>2, <2>3
<1>8. CASE a \notin pa .. pa + SECTSIZE - 1
  <2>1. mem'[a] = mem[a]
    BY <1>5, <1>8, SectorStored
  <2>2. n < ph \/ a < pa
    BY <1>2, <1>5, <1>6, <1>8
  <2> QED BY <2>1, <2>2 DEF Loaded
<1> QED BY <1>7, <1>8

(* A call of readseg begins below the first byte of its segment, at the    *)
(* sector that belongs there.                                              *)
LEMMA SegmentStarts ==
  ASSUME BootTypeOK, NEW n \in 0 .. Len(image.segments), image' = image, ph' = n,
         n = 0 \/ (n = ph + 1 /\ Loaded /\ pa >= Current.pa + Current.memsz),
         readseg(SegmentAt(n).pa, SegmentAt(n).memsz, SegmentAt(n).offset),
         mem' = mem
  PROVE  /\ pc' = "readseg" /\ pa' \in Nat /\ end_pa' \in Nat /\ offset' \in Nat
         /\ ReadingOK' /\ Loaded'
PROOF
<1> DEFINE s == SegmentAt(n)
<1>1. /\ s.pa \in Nat /\ s.offset \in Nat /\ s.memsz \in Nat
  BY SegmentFacts
<1>2. /\ pc' = "readseg" /\ pa' = RoundDown(s.pa) /\ end_pa' = s.pa + s.memsz
      /\ offset' = s.offset \div SECTSIZE + 1
  BY DEF readseg
<1>3. Current' = s
  BY DEF Current, SegmentAt
<1>4. SECTSIZE \in Nat \ {0} /\ ph \in 0 .. Len(image.segments)
  BY BootAssumption DEF BootTypeOK
<1>5. s.offset \div SECTSIZE \in Nat /\ s.pa \div SECTSIZE \in Nat
  BY <1>1, <1>4, NatDivision
<1>6. /\ RoundDown(s.pa) \in Nat /\ RoundDown(s.pa) <= s.pa
      /\ RoundDown(s.pa) % SECTSIZE = 0
      /\ RoundDown(s.pa) \div SECTSIZE = s.pa \div SECTSIZE
  BY <1>1, RoundDownFacts
<1>7. pa' \in Nat /\ end_pa' \in Nat /\ offset' \in Nat
  BY <1>1, <1>2, <1>5, <1>6
<1>8. ReadingOK'
  <2>1. /\ pa' % SECTSIZE = 0 /\ RoundDown(s.pa) <= pa'
        /\ end_pa' = s.pa + s.memsz
    BY <1>2, <1>6
  <2>2. offset' - 1 = pa' \div SECTSIZE + (s.offset \div SECTSIZE - s.pa \div SECTSIZE)
    BY <1>2, <1>5, <1>6
  <2> HIDE DEF s
  <2> QED BY <1>2, <1>3, <2>1, <2>2
             DEF ReadingOK, ReadingAt, StartingAt, OutAt, RoundDown
<1>9. Loaded'
  <2> SUFFICES ASSUME NEW k \in 0 .. n, NEW a \in FileArea(SegmentAt(k)), k < n \/ a < pa'
               PROVE  mem[a] = a - SegmentAt(k).pa + SegmentAt(k).offset
    BY DEF Loaded, SegmentAt, FileArea, Header
  <2>1. k < n
    <3>1. CASE k = n
      <4>1. a \in s.pa .. s.pa + s.filesz - 1 /\ s.filesz \in Nat
        BY <3>1, SegmentFacts DEF FileArea
      <4> HIDE DEF s
      <4>2. s.pa <= a /\ a \in Int
        BY <1>1, <4>1
      <4>3. ~(a < pa')
        BY <1>1, <1>2, <1>6, <4>2
      <4> QED BY <3>1, <4>3, <1>4
    <3> QED BY <3>1, <1>4
  <2>2. n = ph + 1 /\ Loaded /\ pa >= Current.pa + Current.memsz
    BY <2>1
  <2>3. k \in 0 .. ph /\ k \in 0 .. Len(image.segments)
    <3>1. Len(image.segments) \in Nat
      BY SegmentFacts
    <3> QED BY <1>4, <2>1, <2>2, <3>1
  <2>4. a < SegmentAt(k).pa + SegmentAt(k).memsz /\ a \in Int
    BY <2>3, FileInMemory
  <2>5. Current.pa \in Nat /\ Current.memsz \in Nat /\ pa \in Nat
    BY <1>4, SegmentFacts DEF Current, BootTypeOK
  <2>6. k < ph \/ a < pa
    <3>1. CASE k = ph
      BY <2>2, <2>4, <2>5, <3>1 DEF Current
    <3> QED BY <1>4, <2>3, <3>1
  <2> QED BY <2>2, <2>3, <2>6 DEF Loaded
<1> QED BY <1>2, <1>7, <1>8, <1>9

(* What stays when neither memory nor readseg goes on.                     *)
LEMMA SameMemory ==
  ASSUME UNCHANGED <<image, mem, readVars>>
  PROVE  /\ Loaded' <=> Loaded
         /\ Current' = Current /\ EntryPa' = EntryPa /\ bootstacktop' = bootstacktop
         /\ Data' = Data
         /\ (\A a \in LoaderArea : mem[a] = Loader)' <=> (\A a \in LoaderArea : mem[a] = Loader)
BY DEF readVars, Loaded, Current, SegmentAt, FileArea, Header, EntryPa, First,
       bootstacktop, Data, LoaderArea

(* The steps that move neither memory nor readseg: of the machine, the     *)
(* ones of boot.S, the question whether there is more to read, and the     *)
(* command to the disk.                                                    *)
LEMMA StepWaits ==
  ASSUME EntryInv, UNCHANGED <<paging, eip, esp>>,
         \/ seta20_1 \/ seta20_2 \/ ControllerReady \/ DiskReady
         \/ ReadNextSector \/ SendCommand
  PROVE  EntryInv'
PROOF
<1> USE DEF EntryInv
<1>1. UNCHANGED <<image, mem, readVars>>
  BY DEF seta20_1, seta20_2, ControllerReady, DiskReady, ReadNextSector, SendCommand
<1>2. /\ image' = image /\ mem' = mem /\ ph' = ph /\ pa' = pa
      /\ end_pa' = end_pa /\ offset' = offset
  BY <1>1 DEF readVars
<1>3. \/ pc' = pc /\ a20' = a20 /\ toPort' = toPort /\ requested' = requested
      \/ pc = "seta20_1" /\ pc' = "seta20_2" /\ a20' = a20 /\ toPort'
      \/ pc = "seta20_2" /\ pc' = "protcseg" /\ a20'
      \/ pc = "readseg" /\ a20' = a20 /\ pa < end_pa /\ pc' = "readsect"
      \/ pc = "readseg" /\ a20' = a20 /\ ~(pa < end_pa) /\ pc' = "bootmain"
      \/ pc = "readsect" /\ a20' = a20 /\ pc' = "insl" /\ requested' = offset
  <2>1. ASSUME seta20_1 PROVE pc = "seta20_1" /\ pc' = "seta20_2" /\ a20' = a20 /\ toPort'
    BY <2>1 DEF seta20_1, kbcReady
  <2>2. ASSUME seta20_2 PROVE pc = "seta20_2" /\ pc' = "protcseg" /\ a20'
    BY <2>2 DEF seta20_2, kbcReady, BootTypeOK
  <2>3. ASSUME ControllerReady \/ DiskReady
        PROVE  pc' = pc /\ a20' = a20 /\ toPort' = toPort /\ requested' = requested
    BY <2>3 DEF ControllerReady, DiskReady
  <2>4. ASSUME ReadNextSector
        PROVE  \/ pc = "readseg" /\ a20' = a20 /\ pa < end_pa /\ pc' = "readsect"
               \/ pc = "readseg" /\ a20' = a20 /\ ~(pa < end_pa) /\ pc' = "bootmain"
    BY <2>4 DEF ReadNextSector, deviceVars
  <2>5. ASSUME SendCommand
        PROVE  pc = "readsect" /\ a20' = a20 /\ pc' = "insl" /\ requested' = offset
    BY <2>5 DEF SendCommand, waitdisk
  <2> QED BY <2>1, <2>2, <2>3, <2>4, <2>5
<1>4. a20 \in BOOLEAN /\ a20' \in BOOLEAN
  BY <1>3 DEF BootTypeOK, seta20_2
<1>5. BootTypeOK'
  BY <1>2, <1>3, <1>4 DEF BootTypeOK, StartingAt, ReadingAt, OutAt
<1>6. ReadingOK'
  <2>1. Current' = Current
    BY <1>1, SameMemory
  <2>2. pa \in Nat /\ end_pa \in Nat
    BY DEF BootTypeOK
  <2> QED BY <1>2, <1>3, <2>1, <2>2 DEF ReadingOK, StartingAt, ReadingAt, OutAt, RoundDown
<1>7. LoadedOK' /\ LoaderOK'
  BY <1>1, <1>3, SameMemory DEF LoadedOK, LoaderOK, LoaderRuns
<1>8. RegistersOK'
  BY <1>1, <1>3, SameMemory DEF RegistersOK
<1>9. RunningOK'
  BY <1>2, <1>3 DEF RunningOK, Data, FileArea
<1> QED BY <1>5, <1>6, <1>7, <1>8, <1>9

(* readseg is called for the headers, and for the next segment.            *)
LEMMA StepReads ==
  ASSUME EntryInv, UNCHANGED <<paging, eip, esp>>, protcseg \/ bootmain
  PROVE  EntryInv'
PROOF
<1> USE DEF EntryInv
<1>1. image' = image /\ mem' = mem /\ UNCHANGED deviceVars
  BY DEF protcseg, bootmain
<1>2. /\ a20' = a20 /\ requested' = requested
  BY <1>1 DEF deviceVars
<1>3. ph \in 0 .. Len(image.segments) /\ Len(image.segments) \in Nat
  BY SegmentFacts DEF BootTypeOK
<1>4. (\A a \in LoaderArea : mem[a] = Loader)' <=> (\A a \in LoaderArea : mem[a] = Loader)
  BY <1>1
<1>5. pc \in {"protcseg", "bootmain"}
  BY DEF protcseg, bootmain
<1>6. LoaderOK /\ \A a \in LoaderArea : mem'[a] = Loader
  BY <1>1, <1>5 DEF LoaderOK, LoaderRuns
<1>7. Loaded
  BY <1>5 DEF LoadedOK
<1>8. ASSUME NEW n \in 0 .. Len(image.segments), ph' = n,
             n = 0 \/ (n = ph + 1 /\ Loaded /\ pa >= Current.pa + Current.memsz),
             readseg(SegmentAt(n).pa, SegmentAt(n).memsz, SegmentAt(n).offset)
      PROVE  EntryInv'
  <2>1. /\ pc' = "readseg" /\ pa' \in Nat /\ end_pa' \in Nat /\ offset' \in Nat
        /\ ReadingOK' /\ Loaded'
    BY <1>1, <1>8, SegmentStarts
  <2>2. BootTypeOK'
    BY <1>1, <1>2, <1>5, <1>8, <2>1 DEF BootTypeOK, StartingAt, ReadingAt, OutAt
  <2>3. LoadedOK' /\ LoaderOK' /\ RunningOK'
    BY <1>6, <2>1 DEF LoadedOK, LoaderOK, RunningOK
  <2>4. RegistersOK'
    BY <1>5, <2>1 DEF RegistersOK
  <2> QED BY <2>1, <2>2, <2>3, <2>4
<1>9. CASE protcseg
  <2>1. ph' = 0
    BY <1>9 DEF protcseg, ReadingOK, StartingAt
  <2>2. readseg(SegmentAt(0).pa, SegmentAt(0).memsz, SegmentAt(0).offset)
    BY <1>9 DEF protcseg, SegmentAt, Header
  <2>3. 0 \in 0 .. Len(image.segments)
    BY <1>3
  <2> QED BY <1>8, <2>1, <2>2, <2>3
<1>10. CASE bootmain
  <2>1. pc = "bootmain" /\ pa >= Current.pa + Current.memsz
    BY <1>10 DEF bootmain, ReadingOK
  <2>2. CASE image.magic /\ ph < Len(image.segments)
    <3>1. NextSegment
      BY <1>10, <2>2 DEF bootmain
    <3>2. ph + 1 \in 0 .. Len(image.segments) /\ ph + 1 # 0
      BY <1>3, <2>2
    <3>3. /\ SegmentAt(ph + 1) = image.segments[ph + 1] /\ ph' = ph + 1
          /\ readseg(SegmentAt(ph + 1).pa, SegmentAt(ph + 1).memsz, SegmentAt(ph + 1).offset)
      BY <3>1, <3>2 DEF NextSegment, SegmentAt
    <3> QED BY <1>7, <1>8, <2>1, <3>2, <3>3
  <2>3. CASE ~(image.magic /\ ph < Len(image.segments))
    <3>1. UNCHANGED readVars
      BY <1>10, <2>3 DEF bootmain
    <3>2. \/ pc' = "bad"
          \/ pc' = "entry" /\ ~(ph < Len(image.segments))
      BY <1>10, <2>3 DEF bootmain
    <3>3. ph' = ph /\ pa' = pa /\ end_pa' = end_pa /\ offset' = offset
      BY <3>1 DEF readVars
    <3>4. Current' = Current /\ (Loaded' <=> Loaded)
      BY <1>1, <3>1, SameMemory
    <3>5. BootTypeOK'
      BY <1>1, <1>2, <1>5, <3>2, <3>3 DEF BootTypeOK, StartingAt, ReadingAt, OutAt
    <3>6. ReadingOK'
      <4>1. pc' = "entry" => ph = Len(image.segments)
        BY <1>3, <3>2
      <4> QED BY <1>1, <2>1, <3>2, <3>3, <3>4, <4>1
                 DEF ReadingOK, StartingAt, ReadingAt, OutAt, RoundDown
    <3>7. LoadedOK' /\ LoaderOK' /\ RunningOK'
      BY <1>6, <1>7, <3>2, <3>4 DEF LoadedOK, LoaderOK, RunningOK
    <3>8. RegistersOK'
      BY <1>5, <3>2 DEF RegistersOK
    <3> QED BY <3>5, <3>6, <3>7, <3>8
  <2> QED BY <2>2, <2>3
<1> QED BY <1>9, <1>10

(* A sector comes from the disk.                                           *)
LEMMA StepTransfers ==
  ASSUME EntryInv, UNCHANGED <<paging, eip, esp>>, TransferSector
  PROVE  EntryInv'
PROOF
<1> USE DEF EntryInv
<1>1. /\ pc = "insl" /\ pc' = "readseg" /\ image' = image /\ ph' = ph /\ end_pa' = end_pa
      /\ pa' = pa + SECTSIZE /\ offset' = offset + 1 /\ a20' = a20
  BY DEF TransferSector, deviceVars
<1>2. SECTSIZE \in Nat \ {0} /\ pa \in Nat /\ offset \in Nat /\ end_pa \in Nat
  BY BootAssumption DEF BootTypeOK
<1>3. Loaded'
  BY <1>1, SectorLoads DEF LoadedOK
<1>4. DOMAIN mem' = 0 .. MemSize - 1
  BY SectorStored
<1>5. BootTypeOK'
  BY <1>1, <1>2, <1>4 DEF BootTypeOK, StartingAt, ReadingAt, OutAt
<1>6. ReadingOK'
  <2> DEFINE c == Current.pa  m == Current.memsz  o == Current.offset
  <2>1. Current' = Current
    BY <1>1 DEF Current, SegmentAt, Header
  <2>2. /\ end_pa = c + m /\ pa % SECTSIZE = 0 /\ RoundDown(c) <= pa
        /\ offset - 1 = pa \div SECTSIZE + (o \div SECTSIZE - c \div SECTSIZE)
    BY <1>1 DEF ReadingOK, ReadingAt
  <2>3. c \in Nat /\ o \in Nat
    BY SegmentFacts DEF Current, BootTypeOK
  <2>4. RoundDown(c) \in Nat /\ c \div SECTSIZE \in Nat /\ o \div SECTSIZE \in Nat
        /\ pa \div SECTSIZE \in Nat
    BY <1>2, <2>3, RoundDownFacts, NatDivision
  <2>5. pa' % SECTSIZE = 0 /\ pa' \div SECTSIZE = pa \div SECTSIZE + 1
    BY <1>1, <1>2, <2>2, NextSector
  <2>6. /\ RoundDown(c) <= pa'
        /\ offset' - 1 = pa' \div SECTSIZE + (o \div SECTSIZE - c \div SECTSIZE)
    <3>1. \A p, q, d, e \in Int : q = p + 1 /\ offset - 1 = p + (e - d)
                                 => offset + 1 - 1 = q + (e - d)
      BY <1>2
    <3>2. RoundDown(c) <= pa'
      <4> HIDE DEF c
      <4> QED BY <1>1, <1>2, <2>2, <2>4
    <3>3. pa' \div SECTSIZE \in Int
      BY <2>4, <2>5
    <3>4. offset + 1 - 1 = pa' \div SECTSIZE + (o \div SECTSIZE - c \div SECTSIZE)
      <4> DEFINE p == pa \div SECTSIZE  q == pa' \div SECTSIZE
                 d == c \div SECTSIZE  e == o \div SECTSIZE
      <4>1. /\ p \in Int /\ q \in Int /\ d \in Int /\ e \in Int
            /\ q = p + 1 /\ offset - 1 = p + (e - d)
        BY <2>2, <2>4, <2>5, <3>3
      <4> HIDE DEF p, q, d, e
      <4>2. offset + 1 - 1 = q + (e - d)
        BY <3>1, <4>1
      <4> QED BY <4>2 DEF p, q, d, e
    <3>5. offset' - 1 = offset + 1 - 1
      BY <1>1, <1>2
    <3> QED BY <3>2, <3>4, <3>5
  <2>7. RoundDown(c)' = RoundDown(c) /\ c' = c /\ m' = m /\ o' = o
    BY <2>1 DEF RoundDown
  <2> HIDE DEF c, m, o
  <2>8. end_pa' = c + m
    BY <1>1, <2>2
  <2> USE DEF c, m, o
  <2> QED BY <1>1, <2>1, <2>5, <2>6, <2>7, <2>8 DEF ReadingOK, ReadingAt, StartingAt, OutAt
<1>7. LoaderOK'
  <2> SUFFICES ASSUME NEW a \in LoaderArea PROVE mem'[a] = Loader
    BY DEF LoaderOK, LoaderArea
  <2>1. a \in 0 .. MemSize - 1
    <3>1. start \in Nat /\ start + SECTSIZE <= ELFHDR /\ ELFHDR \in Nat
          /\ HeaderSectors * SECTSIZE \in Nat
          /\ ELFHDR + HeaderSectors * SECTSIZE <= MemSize /\ MemSize \in Nat
      BY BootAssumption
    <3> QED BY <1>2, <3>1 DEF LoaderArea
  <2>2. a \notin pa .. pa + SECTSIZE - 1
    BY <1>1, <2>1, SectorHarmless
  <2>3. mem'[a] = mem[a]
    BY <2>1, <2>2, SectorStored
  <2> QED BY <1>1, <2>3 DEF LoaderOK, LoaderRuns
<1>8. LoadedOK' /\ RunningOK'
  BY <1>1, <1>3 DEF LoadedOK, RunningOK
<1>9. RegistersOK'
  BY <1>1 DEF RegistersOK
<1> QED BY <1>5, <1>6, <1>7, <1>8, <1>9

-----------------------------------------------------------------------------
(* The mapping of entry_pgdir.                                             *)

(* An address below 4MB, and where the kernel is linked: the same entry of *)
(* the one page table.                                                     *)
LEMMA SameEntry ==
  ASSUME NEW a \in Nat, a < PGSIZE * NPTENTRIES
  PROVE  /\ PDX(a) = 0 /\ PDX(KERNBASE + a) = PDX(KERNBASE) /\ PDX(KERNBASE) # 0
         /\ PTX(a) = a \div PGSIZE /\ PTX(KERNBASE + a) = a \div PGSIZE
         /\ (KERNBASE + a) % PGSIZE = a % PGSIZE
         /\ a \div PGSIZE \in 0 .. NPTENTRIES - 1
         /\ a = (a \div PGSIZE) * PGSIZE + (a % PGSIZE)
PROOF
<1> DEFINE T == PGSIZE * NPTENTRIES  K == KERNBASE \div T  q == a \div PGSIZE
<1>1. /\ PGSIZE \in Nat \ {0} /\ NPTENTRIES \in Nat \ {0}
      /\ KERNBASE % T = 0 /\ KERNBASE >= T
  BY EntryAssumption
<1>2. T \in Nat \ {0} /\ KERNBASE \in Nat
  BY <1>1, EntryAssumption
<1> HIDE DEF T
<1>3. K \in Nat /\ KERNBASE = K * T
  BY <1>1, <1>2, NatDivision
<1>4. q \in Nat /\ a = q * PGSIZE + (a % PGSIZE) /\ a % PGSIZE \in 0 .. PGSIZE - 1
  BY <1>1, NatDivision
<1>5. q \in 0 .. NPTENTRIES - 1
  <2> HIDE DEF q
  <2>1. q >= NPTENTRIES => q * PGSIZE >= NPTENTRIES * PGSIZE
    BY <1>1, <1>4
  <2>2. q * PGSIZE \in Int /\ NPTENTRIES * PGSIZE \in Int
        /\ NPTENTRIES * PGSIZE = PGSIZE * NPTENTRIES
    BY <1>1, <1>4
  <2>3. q < NPTENTRIES
    BY <1>1, <1>4, <2>1, <2>2
  <2> QED BY <1>1, <1>4, <2>3
<1>6. a \div T = 0
  <2>1. a \in 0 .. T - 1 /\ a = 0 * T + a
    BY <1>2 DEF T
  <2>2. (0 * T + a) \div T = 0
    BY <1>2, <2>1, Quotient
  <2> QED BY <2>1, <2>2
<1>7. (KERNBASE + a) \div T = KERNBASE \div T
  <2> HIDE DEF K, q
  <2>1. KERNBASE \in Nat /\ T \in Nat \ {0} /\ KERNBASE % T = 0 /\ a \in Nat
    BY <1>1, <1>2
  <2>2. (KERNBASE + a) \div T = KERNBASE \div T + a \div T
    BY <2>1, MultipleAdded
  <2>3. KERNBASE \div T \in Int
    BY <1>3 DEF K
  <2> QED BY <1>6, <2>2, <2>3
<1>8. K # 0
  <2> HIDE DEF K
  <2> QED BY <1>1, <1>2, <1>3
<1>9. /\ KERNBASE % PGSIZE = 0 /\ KERNBASE \div PGSIZE = K * NPTENTRIES
  <2>1. KERNBASE = (K * NPTENTRIES) * PGSIZE
    <3> HIDE DEF K
    <3> QED BY <1>1, <1>3 DEF T
  <2>2. K * NPTENTRIES \in Nat
    <3> HIDE DEF K
    <3> QED BY <1>1, <1>3
  <2> DEFINE m == K * NPTENTRIES
  <2> HIDE DEF m
  <2>3. m \in Int /\ KERNBASE = m * PGSIZE + 0 /\ 0 \in 0 .. PGSIZE - 1
    <3>1. m \in Int /\ KERNBASE = m * PGSIZE
      BY <2>1, <2>2 DEF m
    <3> QED BY <1>1, <3>1
  <2>4. (m * PGSIZE + 0) \div PGSIZE = m /\ (m * PGSIZE + 0) % PGSIZE = 0
    BY <1>1, <2>3, Quotient
  <2>5. KERNBASE \div PGSIZE = m /\ KERNBASE % PGSIZE = 0
    BY <2>3, <2>4
  <2> QED BY <2>5 DEF m
<1>10. /\ (KERNBASE + a) \div PGSIZE = K * NPTENTRIES + q
       /\ (KERNBASE + a) % PGSIZE = a % PGSIZE
  <2> HIDE DEF K, q
  <2>1. PGSIZE \in Nat \ {0} /\ KERNBASE \in Nat
    BY <1>1, <1>2
  <2>2. (KERNBASE + a) \div PGSIZE = KERNBASE \div PGSIZE + a \div PGSIZE
        /\ (KERNBASE + a) % PGSIZE = a % PGSIZE
    BY <2>1, <1>9, MultipleAdded
  <2> QED BY <1>9, <2>2 DEF q
<1>11. (K * NPTENTRIES + q) % NPTENTRIES = q /\ q % NPTENTRIES = q
  <2> HIDE DEF K, q
  <2>1. (K * NPTENTRIES + q) % NPTENTRIES = q
    BY <1>1, <1>3, <1>5, Quotient
  <2>2. (0 * NPTENTRIES + q) % NPTENTRIES = q
    BY <1>1, <1>5, Quotient
  <2>3. 0 * NPTENTRIES + q = q
    BY <1>1, <1>5
  <2> QED BY <2>1, <2>2, <2>3
<1>12. PTX(KERNBASE + a) = q
  BY <1>10, <1>11 DEF PTX
<1>13. PTX(a) = q
  BY <1>11 DEF PTX
<1>14. KERNBASE \div T # 0
  BY <1>8
<1> QED BY <1>4, <1>5, <1>6, <1>7, <1>14, <1>10, <1>12, <1>13 DEF PDX, T

(* The first 4MB, or whatever the table maps, are at both addresses.       *)
LEMMA MappedTwice ==
  ASSUME NEW a \in Nat, a < PGSIZE * NPTENTRIES, paging
  PROVE  /\ Translate(a) = a /\ Translate(KERNBASE + a) = a
         /\ Writable(KERNBASE + a)
PROOF
<1>1. /\ PDX(a) = 0 /\ PDX(KERNBASE + a) = PDX(KERNBASE) /\ PDX(KERNBASE) # 0
      /\ PTX(a) = a \div PGSIZE /\ PTX(KERNBASE + a) = a \div PGSIZE
      /\ (KERNBASE + a) % PGSIZE = a % PGSIZE
      /\ a \div PGSIZE \in 0 .. NPTENTRIES - 1
      /\ a = (a \div PGSIZE) * PGSIZE + (a % PGSIZE)
  BY SameEntry
<1>2. DOMAIN entry_pgdir = {0, PDX(KERNBASE)} /\ entry_pgdir[PDX(KERNBASE)] = {"P", "W"}
  BY <1>1 DEF entry_pgdir
<1>3. /\ entry_pgtable[a \div PGSIZE].pa = (a \div PGSIZE) * PGSIZE
      /\ entry_pgtable[a \div PGSIZE].flags = {"P", "W"}
  BY <1>1 DEF entry_pgtable
<1>4. Mapped(a) /\ Mapped(KERNBASE + a)
  BY <1>1, <1>2 DEF Mapped
<1>5. Translate(a) = entry_pgtable[a \div PGSIZE].pa + (a % PGSIZE)
  BY <1>1, <1>4 DEF Translate
<1>6. Translate(KERNBASE + a) = entry_pgtable[a \div PGSIZE].pa + (a % PGSIZE)
  BY <1>1, <1>4 DEF Translate
<1>7. Writable(KERNBASE + a)
  BY <1>1, <1>2, <1>3, <1>4 DEF Writable
<1> QED BY <1>1, <1>3, <1>5, <1>6, <1>7

(* Where text, data, stack and bss are.                                    *)
LEMMA LayoutFacts ==
  ASSUME BootTypeOK
  PROVE  /\ First.pa \in Nat /\ First.pa < PGSIZE * NPTENTRIES
         /\ Data.pa \in Nat /\ Data.filesz \in Nat /\ Data.memsz \in Nat
         /\ 1 <= Data.memsz /\ Data.filesz <= Data.memsz
         /\ Data.pa + Data.memsz <= PGSIZE * NPTENTRIES
         /\ Data.pa + Data.memsz <= MemSize
         /\ PGSIZE * NPTENTRIES \in Nat /\ KERNBASE \in Nat
         /\ \A n \in DOMAIN image.segments :
              FileArea(image.segments[n])
                \cap (Data.pa + Data.filesz .. Data.pa + Data.memsz - 1) = {}
PROOF
<1>1. image \in Images
  BY DEF BootTypeOK
<1>2. Len(image.segments) \in Nat /\ Len(image.segments) >= 2
  <2>1. Len(image.segments) \in Nat
    BY SegmentFacts DEF BootTypeOK
  <2> QED BY <1>1, <2>1, LayoutAssumption
<1>3. 1 \in 0 .. Len(image.segments) /\ 2 \in 0 .. Len(image.segments)
  BY <1>2
<1>4. SegmentAt(1) = First /\ SegmentAt(2) = Data
  BY DEF SegmentAt, First, Data
<1>5. First.pa \in Nat
  BY <1>3, <1>4, SegmentFacts
<1>6. /\ Data.pa \in Nat /\ Data.filesz \in Nat /\ Data.memsz \in Nat
      /\ Data.filesz <= Data.memsz /\ Data.pa + Data.memsz <= MemSize
  BY <1>3, <1>4, SegmentFacts
<1>7. /\ First.pa < PGSIZE * NPTENTRIES
      /\ 1 <= Data.memsz /\ Data.pa + Data.memsz <= PGSIZE * NPTENTRIES
      /\ \A n \in DOMAIN image.segments :
           FileArea(image.segments[n])
             \cap (Data.pa + Data.filesz .. Data.pa + Data.memsz - 1) = {}
  BY <1>1, LayoutAssumption DEF First, Data
<1>8. PGSIZE * NPTENTRIES \in Nat \ {0}
  BY EntryAssumption
<1>9. KERNBASE \in Nat
  BY EntryAssumption, <1>8
<1> QED BY <1>5, <1>6, <1>7, <1>8, <1>9

(* The kernel begins with everything in place.                             *)
LEMMA AllLoaded ==
  ASSUME EntryInv, pc \in {"entry", "paging_on", "jump", "relocated", "call"},
         NEW n \in DOMAIN image.segments, NEW a \in FileArea(image.segments[n])
  PROVE  mem[a] = a - image.segments[n].pa + image.segments[n].offset
PROOF
<1>1. /\ Loaded /\ ph = Len(image.segments) /\ pa >= Current.pa + Current.memsz
      /\ BootTypeOK
  BY DEF EntryInv, LoadedOK, ReadingOK, OutAt
<1>2. /\ DOMAIN image.segments = 1 .. Len(image.segments)
      /\ Len(image.segments) \in Nat /\ ph \in 0 .. Len(image.segments)
  BY <1>1, SegmentFacts DEF BootTypeOK
<1>3. n \in 0 .. ph /\ SegmentAt(n) = image.segments[n] /\ n \in 0 .. Len(image.segments)
  BY <1>1, <1>2 DEF SegmentAt
<1>4. a < SegmentAt(n).pa + SegmentAt(n).memsz /\ a \in Int
  BY <1>1, <1>3, FileInMemory
<1>5. Current.pa \in Nat /\ Current.memsz \in Nat /\ pa \in Nat
  BY <1>1, <1>2, SegmentFacts DEF Current, BootTypeOK
<1>6. n < ph \/ a < pa
  <2>1. CASE n = ph
    BY <1>1, <1>4, <1>5, <2>1 DEF Current
  <2> QED BY <1>2, <1>3, <2>1
<1> QED BY <1>1, <1>3, <1>6 DEF Loaded

(* The instructions of entry.S that leave memory alone.                    *)
LEMMA StepEntry ==
  ASSUME EntryInv, entry \/ TurnOnPaging \/ JumpUp \/ relocated
  PROVE  EntryInv'
PROOF
<1> USE DEF EntryInv
<1>1. UNCHANGED <<image, mem, readVars>> /\ a20' = a20
  BY DEF entry, TurnOnPaging, JumpUp, relocated, deviceVars
<1>2. /\ image' = image /\ mem' = mem /\ ph' = ph /\ pa' = pa
      /\ end_pa' = end_pa /\ offset' = offset
  BY <1>1 DEF readVars
<1>3. \/ /\ pc = "entry" /\ pc' = "paging_on" /\ eip' = EntryPa
         /\ paging' = paging /\ esp' = esp
      \/ /\ pc = "paging_on" /\ pc' = "jump" /\ paging' = TRUE
         /\ eip' = eip /\ esp' = esp
      \/ /\ pc = "jump" /\ pc' = "relocated" /\ eip' = KERNBASE + EntryPa
         /\ paging' = paging /\ esp' = esp
      \/ /\ pc = "relocated" /\ pc' = "call" /\ esp' = bootstacktop
         /\ paging' = paging /\ eip' = eip
  BY DEF entry, TurnOnPaging, JumpUp, relocated
<1>4. BootTypeOK'
  BY <1>1, <1>2, <1>3 DEF BootTypeOK, StartingAt, ReadingAt, OutAt
<1>5. /\ Current' = Current /\ (Loaded' <=> Loaded)
      /\ EntryPa' = EntryPa /\ bootstacktop' = bootstacktop
  BY <1>1, SameMemory
<1>6. ReadingOK'
  BY <1>2, <1>3, <1>5 DEF ReadingOK, StartingAt, ReadingAt, OutAt
<1>7. LoadedOK' /\ LoaderOK' /\ RunningOK'
  BY <1>3, <1>5 DEF LoadedOK, LoaderOK, LoaderRuns, RunningOK
<1>8. RegistersOK'
  BY <1>3, <1>5 DEF RegistersOK
<1> QED BY <1>4, <1>6, <1>7, <1>8

(* The return address goes on the stack, where it belongs.                 *)
LEMMA StepCallInit ==
  ASSUME EntryInv, CallInit
  PROVE  EntryInv'
PROOF
<1> USE DEF EntryInv
<1>1. /\ pc = "call" /\ pc' = "i386_init" /\ esp' = esp - 1 /\ image' = image
      /\ paging' = paging /\ eip' = eip /\ a20' = a20
      /\ ph' = ph /\ pa' = pa /\ end_pa' = end_pa /\ offset' = offset
      /\ mem' = [mem EXCEPT ![Translate(esp - 1)] = Unknown]
  BY DEF CallInit, deviceVars, readVars
<1>2. paging /\ esp = bootstacktop
  BY <1>1 DEF RegistersOK
<1>3. /\ Data.pa \in Nat /\ KERNBASE \in Nat /\ Data.pa < PGSIZE * NPTENTRIES
  <2>1. /\ Data.pa \in Nat /\ KERNBASE \in Nat /\ Data.memsz \in Nat /\ 1 <= Data.memsz
        /\ Data.pa + Data.memsz <= PGSIZE * NPTENTRIES /\ PGSIZE * NPTENTRIES \in Nat
    BY LayoutFacts
  <2> DEFINE T == PGSIZE * NPTENTRIES
  <2> HIDE DEF T
  <2>2. Data.pa < T
    BY <2>1 DEF T
  <2> QED BY <2>1, <2>2 DEF T
<1>4. esp - 1 = KERNBASE + Data.pa
  BY <1>2, <1>3 DEF bootstacktop
<1>5. Translate(esp - 1) = Data.pa
  BY <1>2, <1>3, <1>4, MappedTwice
<1>6. DOMAIN mem' = DOMAIN mem /\ \A a : a # Data.pa => mem'[a] = mem[a]
  BY <1>1, <1>5
<1>7. BootTypeOK'
  BY <1>1, <1>6 DEF BootTypeOK, StartingAt, ReadingAt, OutAt
<1>8. ReadingOK'
  <2>1. Current' = Current
    BY <1>1 DEF Current, SegmentAt, Header
  <2> QED BY <1>1, <2>1 DEF ReadingOK, StartingAt, ReadingAt, OutAt
<1>9. LoadedOK' /\ LoaderOK'
  BY <1>1 DEF LoadedOK, LoaderOK, LoaderRuns
<1>10. RegistersOK'
  BY <1>1, <1>2 DEF RegistersOK, EntryPa, First, bootstacktop, Data
<1>11. RunningOK'
  <2> SUFFICES ASSUME NEW n \in DOMAIN image.segments, NEW a \in FileArea(image.segments[n]),
                      a # Data.pa
               PROVE  mem'[a] = a - image.segments[n].pa + image.segments[n].offset
    BY <1>1 DEF RunningOK, FileArea, Data
  <2> QED BY <1>1, <1>6, AllLoaded
<1> QED BY <1>7, <1>8, <1>9, <1>10, <1>11

(* The bss is cleared, and nothing else.                                   *)
LEMMA StepInit ==
  ASSUME EntryInv, i386_init
  PROVE  EntryInv'
PROOF
<1> USE DEF EntryInv
<1> DEFINE bss == Data.pa + Data.filesz .. Data.pa + Data.memsz - 1
<1>1. /\ pc = "i386_init" /\ pc' = "cons_init" /\ image' = image /\ esp' = esp
      /\ paging' = paging /\ eip' = eip /\ a20' = a20
      /\ ph' = ph /\ pa' = pa /\ end_pa' = end_pa /\ offset' = offset
  BY DEF i386_init, deviceVars, readVars
<1>2. paging
  BY <1>1 DEF RegistersOK
<1>3. /\ Data.pa \in Nat /\ Data.filesz \in Nat /\ Data.memsz \in Nat /\ KERNBASE \in Nat
      /\ Data.pa + Data.memsz <= PGSIZE * NPTENTRIES
      /\ Data.pa + Data.memsz <= MemSize /\ PGSIZE * NPTENTRIES \in Nat /\ MemSize \in Nat
  BY LayoutFacts, BootAssumption
<1>4. \A b \in bss : b \in 0 .. MemSize - 1 /\ b < PGSIZE * NPTENTRIES
  <2> DEFINE T == PGSIZE * NPTENTRIES
  <2> HIDE DEF T
  <2>1. T \in Nat /\ Data.pa + Data.memsz <= T
    BY <1>3 DEF T
  <2>2. \A b \in bss : b \in 0 .. MemSize - 1 /\ b < T
    BY <1>3, <2>1
  <2> QED BY <2>2 DEF T
<1>5. \A b \in bss : Translate(KERNBASE + b) = b
  BY <1>2, <1>4, MappedTwice
<1>6. \A a : (\E va \in edata .. end - 1 : a = Translate(va)) <=> a \in bss
  <2>1. ASSUME NEW a, a \in bss PROVE \E va \in edata .. end - 1 : a = Translate(va)
    <3>1. KERNBASE + a \in edata .. end - 1
      BY <1>3, <2>1 DEF edata, end
    <3> QED BY <1>5, <2>1, <3>1
  <2>2. ASSUME NEW va \in edata .. end - 1 PROVE Translate(va) \in bss
    <3>1. va - KERNBASE \in bss /\ va = KERNBASE + (va - KERNBASE)
      BY <1>3 DEF edata, end
    <3> QED BY <1>5, <3>1
  <2> QED BY <2>1, <2>2
<1>7. DOMAIN mem = 0 .. MemSize - 1
  BY DEF BootTypeOK
<1>8. mem' = [a \in DOMAIN mem |->
                IF \E va \in edata .. end - 1 : a = Translate(va) THEN Zero ELSE mem[a]]
  BY DEF i386_init
<1>9. /\ DOMAIN mem' = DOMAIN mem
      /\ \A a \in 0 .. MemSize - 1 : mem'[a] = IF a \in bss THEN Zero ELSE mem[a]
  BY <1>6, <1>7, <1>8
<1> HIDE DEF bss
<1>10. BootTypeOK'
  BY <1>1, <1>9 DEF BootTypeOK, StartingAt, ReadingAt, OutAt
<1>11. ReadingOK'
  <2>1. Current' = Current
    BY <1>1 DEF Current, SegmentAt, Header
  <2> QED BY <1>1, <2>1 DEF ReadingOK, StartingAt, ReadingAt, OutAt
<1>12. LoadedOK' /\ LoaderOK'
  BY <1>1 DEF LoadedOK, LoaderOK, LoaderRuns
<1>13. RegistersOK'
  BY <1>1, <1>2 DEF RegistersOK, EntryPa, First, bootstacktop, Data
<1>14. RunningOK'
  <2>1. ASSUME NEW n \in DOMAIN image.segments, NEW a \in FileArea(image.segments[n]),
               a # Data.pa
        PROVE  mem'[a] = a - image.segments[n].pa + image.segments[n].offset
    <3>1. n \in 0 .. Len(image.segments) /\ SegmentAt(n) = image.segments[n]
      BY SegmentFacts DEF SegmentAt, BootTypeOK
    <3>2. a \in 0 .. MemSize - 1
      BY <3>1, FileInMemory
    <3>3. a \notin bss
      BY LayoutFacts DEF bss
    <3>4. mem[a] = a - image.segments[n].pa + image.segments[n].offset
      BY <1>1, <2>1 DEF RunningOK
    <3> QED BY <1>9, <3>2, <3>3, <3>4
  <2>2. \A a \in bss : mem'[a] = Zero
    BY <1>4, <1>9
  <2>3. Data' = Data /\ image' = image
    BY <1>1 DEF Data
  <2> QED BY <1>1, <2>1, <2>2, <2>3 DEF RunningOK, FileArea, bss
<1> QED BY <1>10, <1>11, <1>12, <1>13, <1>14

-----------------------------------------------------------------------------
(* The theorems.                                                           *)

(* The BIOS leaves nothing but the loader in memory.                       *)
LEMMA StartsRight == Init => EntryInv
PROOF
<1> SUFFICES ASSUME Init PROVE EntryInv
  OBVIOUS
<1> USE DEF Init, BootInit
<1>1. DOMAIN image.segments = 1 .. Len(image.segments) /\ Len(image.segments) \in Nat
  <2>1. image.segments \in Seq([pa : Nat, offset : Nat, filesz : Nat, memsz : Nat])
    BY ImagesAssumption
  <2> QED BY <2>1
<1>2. BootTypeOK
  <2>1. /\ a20 \in BOOLEAN /\ (pc \notin {"seta20_1", "seta20_2"} => a20)
        /\ pc = "seta20_2" => toPort
    OBVIOUS
  <2>2. DOMAIN mem = 0 .. MemSize - 1
    OBVIOUS
  <2>3. ph \in 0 .. Len(image.segments) /\ pa \in Nat /\ end_pa \in Nat /\ offset \in Nat
    BY <1>1
  <2>4. pc \in StartingAt
    BY DEF StartingAt
  <2> QED BY <2>1, <2>2, <2>3, <2>4 DEF BootTypeOK
<1>3. ReadingOK
  BY DEF ReadingOK, StartingAt, ReadingAt, OutAt
<1>4. LoadedOK
  <2> SUFFICES ASSUME NEW a \in FileArea(Header), a < 0 PROVE FALSE
    BY DEF LoadedOK, Loaded, SegmentAt
  <2>1. ELFHDR \in Nat /\ HeaderSectors * SECTSIZE \in Nat
    BY BootAssumption
  <2> QED BY <2>1 DEF FileArea, Header
<1>5. LoaderOK
  <2>1. \A a \in LoaderArea : a \in 0 .. MemSize - 1 /\ a \in start .. start + SECTSIZE - 1
    <3>1. /\ start \in Nat /\ start + SECTSIZE <= ELFHDR /\ ELFHDR \in Nat
          /\ SECTSIZE \in Nat /\ HeaderSectors * SECTSIZE \in Nat
          /\ ELFHDR + HeaderSectors * SECTSIZE <= MemSize /\ MemSize \in Nat
      BY BootAssumption
    <3> QED BY <3>1 DEF LoaderArea
  <2> QED BY <2>1 DEF LoaderOK
<1>6. RegistersOK /\ RunningOK
  BY DEF RegistersOK, RunningOK
<1> QED BY <1>2, <1>3, <1>4, <1>5, <1>6 DEF EntryInv

(* Every step of the loader, the kernel and the devices keeps the          *)
(* invariant.                                                              *)
LEMMA EveryStep == EntryInv /\ [Next]_vars => EntryInv'
PROOF
<1> SUFFICES ASSUME EntryInv, [Next]_vars PROVE EntryInv'
  OBVIOUS
<1>1. CASE LoaderNext
  <2> USE <1>1 DEF LoaderNext
  <2>1. UNCHANGED <<paging, eip, esp>>
    OBVIOUS
  <2>2. CASE seta20_1 \/ seta20_2 \/ ReadNextSector \/ SendCommand
    BY <2>1, <2>2, StepWaits
  <2>3. CASE protcseg \/ bootmain
    BY <2>1, <2>3, StepReads
  <2>4. CASE TransferSector
    BY <2>1, <2>4, StepTransfers
  <2> QED BY <2>2, <2>3, <2>4 DEF BootNext
<1>2. CASE Devices /\ UNCHANGED <<paging, eip, esp>>
  BY <1>2, StepWaits DEF Devices
<1>3. CASE EntryNext
  <2>1. CASE entry \/ TurnOnPaging \/ JumpUp \/ relocated
    BY <2>1, StepEntry
  <2>2. CASE CallInit
    BY <2>2, StepCallInit
  <2>3. CASE i386_init
    BY <2>3, StepInit
  <2> QED BY <1>3, <2>1, <2>2, <2>3 DEF EntryNext
<1>4. CASE UNCHANGED vars
  <2>1. /\ UNCHANGED <<image, mem, readVars>> /\ pc' = pc /\ a20' = a20
        /\ toPort' = toPort /\ requested' = requested /\ UNCHANGED <<paging, eip, esp>>
    BY <1>4 DEF vars, bootVars, deviceVars
  <2>2. /\ image' = image /\ mem' = mem /\ ph' = ph /\ pa' = pa
        /\ end_pa' = end_pa /\ offset' = offset
    BY <2>1 DEF readVars
  <2>3. BootTypeOK' /\ ReadingOK' /\ RunningOK'
    BY <2>1, <2>2 DEF EntryInv, BootTypeOK, ReadingOK, RunningOK, Current, SegmentAt,
                      Header, RoundDown, FileArea, Data
  <2>4. LoadedOK' /\ LoaderOK' /\ RegistersOK'
    BY <2>1, SameMemory DEF EntryInv, LoadedOK, LoaderOK, LoaderRuns, RegistersOK
  <2> QED BY <2>3, <2>4 DEF EntryInv
<1> QED BY <1>1, <1>2, <1>3, <1>4 DEF Next

(* What the invariant says of memory, by byte of the file.                 *)
LEMMA LoadsKernel == EntryInv => KernelLoaded
PROOF
<1> SUFFICES ASSUME EntryInv PROVE KernelLoaded
  OBVIOUS
<1> USE DEF EntryInv
<1>1. /\ Len(image.segments) \in Nat /\ DOMAIN image.segments = 1 .. Len(image.segments)
      /\ ph \in 0 .. Len(image.segments)
  BY SegmentFacts DEF BootTypeOK
<1>2. LoaderUndisturbed
  <2> SUFFICES ASSUME LoaderRuns
               PROVE  /\ \A a \in LoaderArea : mem[a] = Loader
                      /\ ph > 0 => \A k \in 0 .. HeaderSectors * SECTSIZE - 1 :
                                     mem[ELFHDR + k] = k
    BY DEF LoaderUndisturbed, LoaderArea
  <2>1. \A a \in LoaderArea : mem[a] = Loader
    BY DEF LoaderOK
  <2>2. ASSUME ph > 0, NEW k \in 0 .. HeaderSectors * SECTSIZE - 1
        PROVE  mem[ELFHDR + k] = k
    <3>1. Loaded
      BY DEF LoadedOK, LoaderRuns
    <3>2. ELFHDR \in Nat /\ HeaderSectors * SECTSIZE \in Nat
      BY BootAssumption
    <3>3. ELFHDR + k \in FileArea(Header)
      BY <3>2 DEF FileArea, Header
    <3>4. 0 \in 0 .. ph /\ 0 < ph /\ SegmentAt(0) = Header
      BY <1>1, <2>2 DEF SegmentAt
    <3>5. \A a \in FileArea(SegmentAt(0)) :
            mem[a] = a - SegmentAt(0).pa + SegmentAt(0).offset
      BY <3>1, <3>4 DEF Loaded
    <3>6. mem[ELFHDR + k] = (ELFHDR + k) - Header.pa + Header.offset
      BY <3>3, <3>4, <3>5
    <3> QED BY <3>2, <3>6 DEF Header
  <2> QED BY <2>1, <2>2
<1>3. ASSUME InKernel, NEW n \in DOMAIN image.segments,
             NEW k \in 0 .. image.segments[n].filesz - 1
      PROVE  LET a == image.segments[n].pa + k
             IN  mem[a] = image.segments[n].offset + k
                 \/ (pc \in {"i386_init", "cons_init"} /\ KERNBASE + a = esp)
  <2> DEFINE s == image.segments[n]  a == s.pa + k
  <2>1. s.pa \in Nat /\ s.offset \in Nat /\ s.filesz \in Nat
    <3>1. n \in 0 .. Len(image.segments) /\ SegmentAt(n) = s
      BY <1>1 DEF SegmentAt
    <3> QED BY <3>1, SegmentFacts
  <2>2. a \in FileArea(s) /\ a - s.pa + s.offset = s.offset + k
    <3> HIDE DEF s
    <3> QED BY <2>1 DEF FileArea, s
  <2>3. CASE pc \in {"i386_init", "cons_init"}
    <3>1. a = Data.pa \/ mem[a] = a - s.pa + s.offset
      BY <2>2, <2>3 DEF RunningOK
    <3>2. esp = KERNBASE + Data.pa
      <4>1. esp = bootstacktop - 1
        BY <2>3 DEF RegistersOK
      <4>2. KERNBASE \in Nat /\ Data.pa \in Nat
        BY LayoutFacts
      <4> QED BY <4>1, <4>2 DEF bootstacktop
    <3> QED BY <2>2, <2>3, <3>1, <3>2
  <2>4. CASE pc \notin {"i386_init", "cons_init"}
    <3>1. mem[a] = a - s.pa + s.offset
      BY <1>3, <2>2, <2>4, AllLoaded DEF InKernel
    <3> QED BY <2>2, <3>1
  <2> QED BY <2>3, <2>4
<1>4. pc = "cons_init" =>
        \A a \in Data.pa + Data.filesz .. Data.pa + Data.memsz - 1 : mem[a] = Zero
  BY DEF RunningOK
<1> QED BY <1>2, <1>3, <1>4 DEF KernelLoaded

(* What the invariant and the page table say of addresses.                 *)
LEMMA MapsKernel == EntryInv => EntryMapped
PROOF
<1> SUFFICES ASSUME EntryInv PROVE EntryMapped
  OBVIOUS
<1> USE DEF EntryInv
<1>1. /\ EntryPa \in Nat /\ EntryPa < PGSIZE * NPTENTRIES /\ EntryPa = First.pa
  BY LayoutFacts DEF EntryPa
<1>2. ASSUME pc \in {"paging_on", "jump", "relocated", "call"}
      PROVE  Translate(eip) = EntryPa
  <2>1. CASE pc = "paging_on"
    BY <2>1 DEF RegistersOK, Translate
  <2>2. CASE pc = "jump"
    BY <1>1, <2>2, MappedTwice DEF RegistersOK
  <2>3. CASE pc \in {"relocated", "call"}
    BY <1>1, <2>3, MappedTwice DEF RegistersOK
  <2> QED BY <1>2, <2>1, <2>2, <2>3
<1>3. ASSUME pc \in {"relocated", "call", "i386_init", "cons_init"},
             NEW a \in First.pa .. Data.pa + Data.memsz - 1
      PROVE  Translate(KERNBASE + a) = a /\ Writable(KERNBASE + a)
  <2>1. paging
    BY <1>3 DEF RegistersOK
  <2>2. a \in Nat /\ a < PGSIZE * NPTENTRIES
    <3> DEFINE T == PGSIZE * NPTENTRIES
    <3>1. /\ First.pa \in Nat /\ Data.pa \in Nat /\ Data.memsz \in Nat
          /\ T \in Nat /\ Data.pa + Data.memsz <= T
      BY LayoutFacts
    <3> HIDE DEF T
    <3>2. a \in Nat /\ a < T
      BY <3>1
    <3> QED BY <3>2 DEF T
  <2> QED BY <2>1, <2>2, MappedTwice
<1> QED BY <1>2, <1>3 DEF EntryMapped

(* From the first instruction of the boot sector to cons_init, readseg is  *)
(* where ReadingOK says, and memory and registers hold what they should    *)
(* (boot/main.c:38-96, entry.S:42-83).                                     *)
THEOREM EntryCorrect == Spec => []EntryInv
PROOF
<1>1. Init => EntryInv
  BY StartsRight
<1>2. EntryInv /\ [Next]_vars => EntryInv'
  BY EveryStep
<1> QED BY <1>1, <1>2, PTL DEF Spec

(* For every kernel file that can be loaded, the loader and the headers    *)
(* are left alone while they are needed, and when the kernel is entered    *)
(* every byte of every segment is where the file says; at cons_init its    *)
(* bss is zero (boot/main.c:50-67, 69-96; init.c:18).                      *)
THEOREM KernelInMemory == Spec => []KernelLoaded
PROOF
<1>1. Spec => []EntryInv
  BY EntryCorrect
<1>2. EntryInv => KernelLoaded
  BY LoadsKernel
<1> QED BY <1>1, <1>2, PTL

(* At every instruction of entry.S, before and after paging is turned on   *)
(* and before and after the jump, eip leads to the entry; from the jump on *)
(* the whole kernel is mapped where it is linked, and can be written       *)
(* (entry.S:59-83; entrypgdir.c:20-29).                                    *)
THEOREM EntryReached == Spec => []EntryMapped
PROOF
<1>1. Spec => []EntryInv
  BY EntryCorrect
<1>2. EntryInv => EntryMapped
  BY MapsKernel
<1> QED BY <1>1, <1>2, PTL
=============================================================================
