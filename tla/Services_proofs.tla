-------------------------- MODULE Services_proofs --------------------------
(***************************************************************************)
(* Proofs about the services that the rest of the kernel calls: the        *)
(* functions of lib/string.c and the page allocator of kern/pmap.c.        *)
(*                                                                         *)
(* memmove and memset do what MemoryMoved says, for every size of memory,  *)
(* every overlap and every alignment.  The other functions of string.c do  *)
(* what StringsAgree says, for any memories, strings, counts and bases.    *)
(*                                                                         *)
(* The free list keeps its invariants and implements PageStore, for any    *)
(* number of pages, any list page_init may leave and any width of pp_ref.  *)
(* Its invariants are inductive together and not one by one: that          *)
(* page_alloc leaves a well-formed list needs the list's shape; that the   *)
(* page it hands out has no references needs FreePagesUnreferenced; that   *)
(* page_decref frees exactly the page whose last reference went needs      *)
(* PpRefCountsReferences.                                                  *)
(***************************************************************************)
EXTENDS PageFreeList, StringOps, WellFoundedInduction, TLAPS

(* A set of numbers has a least one.                                       *)
LEMMA LeastNat ==
  ASSUME NEW S \in SUBSET Nat, S # {}
  PROVE  \E m \in S : \A k \in S : m <= k
PROOF
<1> DEFINE R == OpToRel(<, Nat)
<1>1. IsWellFoundedOn(R, Nat)
  BY NatLessThanWellFounded
<1>2. \A x, y \in Nat : x < y => <<x, y>> \in R
  BY DEF OpToRel
<1> HIDE DEF R
<1>3. PICK m \in S : \A k \in S : ~ (<<k, m>> \in R)
  BY <1>1, WFMin
<1>4. ASSUME NEW k \in S PROVE m <= k
  <2>1. m \in Nat /\ k \in Nat /\ ~ (<<k, m>> \in R)
    BY <1>3
  <2>2. ~(k < m)
    BY <2>1, <1>2
  <2> QED BY <2>1, <2>2
<1> QED BY <1>4

-----------------------------------------------------------------------------
(* memmove and memset.  The invariant of a repeated instruction: which     *)
(* bytes have been written so far, with what, and that nothing that is     *)
(* still to be read is among them.                                         *)

(* Bytes that are still to be written.                                     *)
Left == IF width = 1 THEN ecx ELSE 4 * ecx

CallOK ==
  /\ call \in [fn : {"none", "memmove", "memset"},
               dst : Nat, src : Nat, c : Int, n : Nat]
  /\ call.dst + call.n <= Size /\ call.src + call.n <= Size

RegsOK ==
  /\ edi \in Int /\ esi \in Int /\ ecx \in Nat /\ width \in {1, 4}
  /\ df \in BOOLEAN
  /\ Left <= call.n

(* Upwards, up to edi; downwards, from behind edi.                         *)
Up == /\ ~df
      /\ edi = call.dst + (call.n - Left)
      /\ \A a \in Addresses :
           mem[a] = IF a \in call.dst .. edi - 1 THEN Result(a) ELSE before[a]

Down == /\ df
        /\ edi = call.dst + (Left - width)
        /\ \A a \in Addresses :
             mem[a] = IF a \in edi + width .. call.dst + call.n - 1
                      THEN Result(a) ELSE before[a]

MovsInv ==
  /\ call.fn = "memmove"
  /\ esi - call.src = edi - call.dst
  /\ \/ Up /\ ~Backward(call.dst, call.src, call.n)
     \/ Down /\ Backward(call.dst, call.src, call.n)

MemInv ==
  /\ pc \in {"idle", "movs", "stos"}
  /\ CallOK /\ RegsOK
  /\ pc = "idle" => MemoryMoved /\ ~df
  /\ pc = "movs" => MovsInv
  /\ pc = "stos" => call.fn = "memset" /\ Up

-----------------------------------------------------------------------------
(* Before the first call.                                                  *)
LEMMA InitInv == MemoryInit => MemInv
<1> SUFFICES ASSUME MemoryInit PROVE MemInv
  OBVIOUS
<1> USE DEF MemoryInit, RegsInit, NoCall
<1>1. CallOK
  BY SizeAssumption DEF CallOK
<1>2. RegsOK
  <2>1. df \in BOOLEAN
    OBVIOUS
  <2>2. Left = 0 /\ call.n = 0 /\ width = 1
    BY DEF Left
  <2> QED  BY <2>1, <2>2 DEF RegsOK
<1>3. \A a \in Addresses : mem[a] = Result(a)
  BY DEF Result, Addresses
<1>4. MemoryMoved /\ ~df /\ pc = "idle"
  BY <1>3 DEF MemoryMoved
<1> QED  BY <1>1, <1>2, <1>4 DEF MemInv

(* A call of memmove sets up the registers, backwards if it must.          *)
LEMMA CallMemmoveInv ==
  ASSUME MemInv, NEW len \in 0 .. Size, NEW dst \in 0 .. Size - len,
         NEW src \in 0 .. Size - len, CallMemmove(dst, src, len)
  PROVE  MemInv'
<1> USE SizeAssumption DEF CallMemmove, WORD
<1>1. CallOK'
  BY DEF CallOK
<1>2. RegsOK' /\ Left' = len
  BY DEF RegsOK, Left, Wide, Backward
<1>3. (esi - call.src = edi - call.dst)'
  BY <1>2
<1>4. CASE Backward(dst, src, len)
  <2>1. Down'
    BY <1>2, <1>4 DEF Down, Addresses
  <2> QED  BY <1>1, <1>2, <1>3, <1>4, <2>1 DEF MemInv, MovsInv
<1>5. CASE ~Backward(dst, src, len)
  <2>1. Up'
    BY <1>2, <1>5 DEF Up, Addresses
  <2> QED  BY <1>1, <1>2, <1>3, <1>5, <2>1 DEF MemInv, MovsInv
<1> QED  BY <1>4, <1>5

(* A call of memset does, in words if address and size allow.              *)
LEMMA CallMemsetInv ==
  ASSUME MemInv, NEW len \in 0 .. Size, NEW c \in Int, NEW v \in 0 .. Size - len,
         CallMemset(v, c, len)
  PROVE  MemInv'
<1> USE SizeAssumption DEF CallMemset, WORD
<1>1. CallOK'
  BY DEF CallOK
<1>2. RegsOK' /\ Left' = len
  <2>1. df' \in BOOLEAN
    OBVIOUS
  <2>2. Left' = len /\ ecx' \in Nat /\ width' \in {1, 4}
    BY DEF Left, Wide
  <2> QED  BY <2>1, <2>2 DEF RegsOK
<1>3. Up'
  BY <1>2 DEF Up, Addresses
<1>4. len = 0 => (\A a \in Addresses : mem[a] = Result(a))'
  BY DEF Result, Addresses
<1>5. ~df' /\ call'.fn = "memset" /\ pc' \in {"idle", "stos"}
  OBVIOUS
<1>6. pc' = "idle" => MemoryMoved'
  BY <1>4, <1>5 DEF MemoryMoved
<1> QED  BY <1>1, <1>2, <1>3, <1>5, <1>6 DEF MemInv

-----------------------------------------------------------------------------
(* What a repetition changes of the registers.                             *)
LEMMA RepeatRegs ==
  ASSUME RegsOK, CallOK, ecx > 0, Repeat
  PROVE  /\ CallOK' /\ ecx' \in Nat /\ edi' \in Int
         /\ width \in {1, 4} /\ edi \in Int /\ call.n \in Nat
         /\ Left' = Left - width /\ Left >= width /\ Left \in Nat
         /\ Left <= call.n /\ Left' \in Nat
  BY DEF RegsOK, CallOK, Repeat, Step, Left

(* Another repetition may follow.                                          *)
LEMMA StaysMovs ==
  ASSUME MemInv, Movs, CallOK', RegsOK', MovsInv'
  PROVE  MemInv'
<1>1. pc' = "movs"
  BY DEF Movs
<1> QED  BY <1>1 DEF MemInv

(* A repetition of movs writes what it reads, and spoils no later one.     *)
LEMMA MovsStepInv ==
  ASSUME MemInv, Movs
  PROVE  MemInv'
<1>1. RegsOK /\ CallOK /\ MovsInv /\ ecx > 0 /\ Repeat
  BY DEF MemInv, Movs
<1>2. CallOK' /\ RegsOK'
  BY <1>1, RepeatRegs DEF Movs, Repeat, RegsOK, Step
<1> DEFINE dst == call.dst  src == call.src  len == call.n
<1>3. dst \in Nat /\ src \in Nat /\ len \in Nat
  BY <1>1 DEF CallOK
<1>4. /\ call' = call /\ before' = before /\ df' = df /\ width' = width
      /\ \A a : Result(a)' = Result(a)
  BY <1>1 DEF Repeat, Result
<1>5. \A a \in Addresses :
        mem'[a] = IF a \in edi .. edi + width - 1 THEN mem[esi + (a - edi)] ELSE mem[a]
  BY DEF Movs, Here
<1>6. CASE Up /\ ~Backward(dst, src, len)
  <2>1. edi = dst + (len - Left) /\ esi = src + (len - Left)
    BY <1>1, <1>3, <1>6, RepeatRegs DEF Up, MovsInv, RegsOK
  <2>2. edi' = edi + width /\ esi' = esi + width
    BY <1>6 DEF Movs, Repeat, Step, Up
  <2>3. edi' = dst + (len - Left')
    BY <1>1, <1>3, <2>1, <2>2, RepeatRegs
  <2>4. ASSUME NEW a \in Addresses, a \in edi .. edi + width - 1
        PROVE  mem'[a] = Result(a)
    <3>1. a \in dst .. dst + len - 1 /\ esi + (a - edi) = src + (a - dst)
      <4>1. Left \in Nat /\ width \in {1, 4} /\ width <= Left /\ Left <= len
        BY <1>1, RepeatRegs
      <4>2. a \in Int /\ edi <= a /\ a <= edi + width - 1
        BY <1>3, <2>1, <2>4, <4>1
      <4>3. a \in dst .. dst + len - 1
        BY <1>3, <2>1, <4>1, <4>2
      <4>4. esi + (a - edi) = src + (a - dst)
        BY <1>3, <2>1, <4>1, <4>2
      <4> QED  BY <4>3, <4>4
    <3>2. src + (a - dst) \in Addresses
      BY <1>1, <1>3, <3>1, SizeAssumption DEF CallOK, Addresses
    <3>3. src + (a - dst) \notin dst .. edi - 1
      BY <1>1, <1>3, <1>6, <2>1, <2>4, RepeatRegs DEF Backward
    <3>4. mem[src + (a - dst)] = before[src + (a - dst)]
      BY <1>6, <3>2, <3>3 DEF Up
    <3> QED  BY <1>1, <1>5, <2>4, <3>1, <3>4 DEF MovsInv, Result
  <2>5. \A a \in Addresses : mem'[a] = IF a \in dst .. edi' - 1 THEN Result(a) ELSE before[a]
    <3> TAKE a \in Addresses
    <3>1. CASE a \in edi .. edi + width - 1
      BY <1>1, <1>3, <2>1, <2>2, <2>4, <3>1, RepeatRegs
    <3>2. CASE a \notin edi .. edi + width - 1
      <4>1. mem'[a] = IF a \in dst .. edi - 1 THEN Result(a) ELSE before[a]
        BY <1>5, <1>6, <3>2 DEF Up
      <4>2. a \in dst .. edi' - 1 <=> a \in dst .. edi - 1
        BY <1>1, <1>3, <2>1, <2>2, <3>2, RepeatRegs DEF Addresses
      <4> QED  BY <4>1, <4>2
    <3> QED  BY <3>1, <3>2
  <2>6. Up'
    BY <1>4, <1>6, <2>3, <2>5 DEF Up
  <2>7. esi' - src = edi' - dst
    BY <1>1, <1>3, <2>1, <2>2, RepeatRegs
  <2>8. MovsInv'
    BY <1>1, <1>4, <1>6, <2>6, <2>7 DEF MovsInv, Backward
  <2> QED  BY <1>2, <2>8, StaysMovs
<1>7. CASE Down /\ Backward(dst, src, len)
  <2>1. edi = dst + (Left - width) /\ esi = src + (Left - width)
    BY <1>1, <1>3, <1>7, RepeatRegs DEF Down, MovsInv, RegsOK
  <2>2. edi' = edi - width /\ esi' = esi - width
    BY <1>7 DEF Movs, Repeat, Step, Down
  <2>3. edi' = dst + (Left' - width)
    BY <1>1, <1>3, <2>1, <2>2, RepeatRegs
  <2>4. ASSUME NEW a \in Addresses, a \in edi .. edi + width - 1
        PROVE  mem'[a] = Result(a)
    <3>1. a \in dst .. dst + len - 1 /\ esi + (a - edi) = src + (a - dst)
      <4>1. Left \in Nat /\ width \in {1, 4} /\ width <= Left /\ Left <= len
        BY <1>1, RepeatRegs
      <4>2. a \in Int /\ edi <= a /\ a <= edi + width - 1
        BY <1>3, <2>1, <2>4, <4>1
      <4>3. a \in dst .. dst + len - 1
        BY <1>3, <2>1, <4>1, <4>2
      <4>4. esi + (a - edi) = src + (a - dst)
        BY <1>3, <2>1, <4>1, <4>2
      <4> QED  BY <4>3, <4>4
    <3>2. src + (a - dst) \in Addresses
      BY <1>1, <1>3, <3>1, SizeAssumption DEF CallOK, Addresses
    <3>3. src + (a - dst) \notin edi + width .. dst + len - 1
      BY <1>1, <1>3, <1>7, <2>1, <2>4, RepeatRegs DEF Backward
    <3>4. mem[src + (a - dst)] = before[src + (a - dst)]
      BY <1>7, <3>2, <3>3 DEF Down
    <3> QED  BY <1>1, <1>5, <2>4, <3>1, <3>4 DEF MovsInv, Result
  <2>5. \A a \in Addresses :
          mem'[a] = IF a \in edi' + width .. dst + len - 1 THEN Result(a) ELSE before[a]
    <3> TAKE a \in Addresses
    <3>1. CASE a \in edi .. edi + width - 1
      BY <1>1, <1>3, <2>1, <2>2, <2>4, <3>1, RepeatRegs
    <3>2. CASE a \notin edi .. edi + width - 1
      <4>1. mem'[a] = IF a \in edi + width .. dst + len - 1 THEN Result(a) ELSE before[a]
        BY <1>5, <1>7, <3>2 DEF Down
      <4>2. a \in edi' + width .. dst + len - 1 <=> a \in edi + width .. dst + len - 1
        BY <1>1, <1>3, <2>1, <2>2, <3>2, RepeatRegs DEF Addresses
      <4> QED  BY <4>1, <4>2
    <3> QED  BY <3>1, <3>2
  <2>6. Down'
    BY <1>4, <1>7, <2>3, <2>5 DEF Down
  <2>7. esi' - src = edi' - dst
    BY <1>1, <1>3, <2>1, <2>2, RepeatRegs
  <2>8. MovsInv'
    BY <1>1, <1>4, <1>7, <2>6, <2>7 DEF MovsInv, Backward
  <2> QED  BY <1>2, <2>8, StaysMovs
<1> QED  BY <1>1, <1>6, <1>7 DEF MovsInv

(* A repetition of stos writes the byte of the call, once or four times.   *)
LEMMA StosStepInv ==
  ASSUME MemInv, Stos
  PROVE  MemInv'
<1>1. RegsOK /\ CallOK /\ Up /\ call.fn = "memset" /\ ecx > 0 /\ Repeat
  BY DEF MemInv, Stos
<1>2. CallOK' /\ RegsOK'
  BY <1>1, RepeatRegs DEF Stos, Repeat, RegsOK, Step
<1> DEFINE dst == call.dst  len == call.n
<1>3. dst \in Nat /\ len \in Nat
  BY <1>1 DEF CallOK
<1>4. /\ call' = call /\ before' = before /\ df' = df
      /\ \A a : Result(a)' = Result(a)
  BY <1>1 DEF Repeat, Result
<1>5. \A a \in Addresses :
        mem'[a] = IF a \in edi .. edi + width - 1 THEN call.c % 256 ELSE mem[a]
  BY DEF Stos, Here, Value
<1>6. edi = dst + (len - Left) /\ edi' = edi + width
  BY <1>1 DEF Up, Repeat, Step
<1>7. edi' = dst + (len - Left')
  BY <1>1, <1>3, <1>6, RepeatRegs
<1>8. \A a \in Addresses : mem'[a] = IF a \in dst .. edi' - 1 THEN Result(a) ELSE before[a]
  <2> TAKE a \in Addresses
  <2>1. CASE a \in edi .. edi + width - 1
    <3>1. a \in dst .. dst + len - 1 /\ a \in dst .. edi' - 1
      BY <1>1, <1>3, <1>6, <2>1, RepeatRegs
    <3> QED  BY <1>1, <1>5, <2>1, <3>1 DEF Result
  <2>2. CASE a \notin edi .. edi + width - 1
    <3>1. mem'[a] = IF a \in dst .. edi - 1 THEN Result(a) ELSE before[a]
      BY <1>1, <1>5, <2>2 DEF Up
    <3>2. a \in dst .. edi' - 1 <=> a \in dst .. edi - 1
      BY <1>1, <1>3, <1>6, <2>2, RepeatRegs DEF Addresses
    <3> QED  BY <3>1, <3>2
  <2> QED  BY <2>1, <2>2
<1>9. Up'
  BY <1>1, <1>4, <1>7, <1>8 DEF Up
<1> QED  BY <1>1, <1>2, <1>4, <1>9 DEF MemInv, Stos

(* Nothing is left to be written: everything has been.                     *)
LEMMA ReturnInv ==
  ASSUME MemInv, Return
  PROVE  MemInv'
<1>1. RegsOK /\ CallOK /\ ecx = 0 /\ Left = 0 /\ (Up \/ Down)
  BY DEF MemInv, MovsInv, Return, RegsOK, Left
<1>2. \A a \in Addresses : mem[a] = Result(a)
  <2>1. call.dst \in Nat /\ call.n \in Nat /\ width \in Nat
    BY <1>1 DEF CallOK, RegsOK
  <2>2. CASE Up
    BY <1>1, <2>1, <2>2 DEF Up, Result
  <2>3. CASE Down
    BY <1>1, <2>1, <2>3 DEF Down, Result
  <2> QED  BY <1>1, <2>2, <2>3
<1>3. \A a : Result(a)' = Result(a)
  BY DEF Return, Result
<1>4. CallOK' /\ RegsOK'
  BY <1>1 DEF Return, CallOK, RegsOK, Left
<1> QED  BY <1>2, <1>3, <1>4 DEF MemInv, MemoryMoved, Return

(* A step that changes nothing.                                            *)
LEMMA StutterInv ==
  ASSUME MemInv, UNCHANGED memVars
  PROVE  MemInv'
<1> USE DEF memVars, regs
<1>1. CallOK' = CallOK /\ RegsOK' = RegsOK
  BY DEF CallOK, RegsOK, Left
<1>2. \A a : Result(a)' = Result(a)
  BY DEF Result
<1>3. MemoryMoved' = MemoryMoved
  BY DEF MemoryMoved, Result
<1>4. Up' = Up /\ Down' = Down /\ MovsInv' = MovsInv
  BY DEF MovsInv, Up, Down, Left, Result
<1> QED  BY <1>1, <1>3, <1>4 DEF MemInv

(* In a memory of any size, for any two ranges that lie in it: memmove     *)
(* moves what was there, memset fills, and nothing else changes            *)
(* (string.c:121-169).                                                     *)
THEOREM MemoryCorrect == MemSpec => []MemoryMoved
<1>1. MemInv /\ [MemCall \/ MemStep]_memVars => MemInv'
  BY CallMemmoveInv, CallMemsetInv, MovsStepInv, StosStepInv, ReturnInv, StutterInv
  DEF MemCall, MemStep
<1>2. MemInv => MemoryMoved
  BY DEF MemInv, MemoryMoved
<1> QED  BY InitInv, <1>1, <1>2, PTL DEF MemSpec

-----------------------------------------------------------------------------
(* The other functions of string.c.  Strings in memory.                    *)

Memory == [Addresses -> Bytes]

(* The string at a ends at e.                                              *)
EndsAt(m, a, e) ==
  e \in Addresses /\ a <= e /\ m[e] = 0 /\ \A k \in a .. e - 1 : m[k] # 0

(* It does nowhere else.                                                   *)
LEMMA LengthIs ==
  ASSUME NEW m, NEW a \in Nat, NEW e, EndsAt(m, a, e)
  PROVE  Length(m, a) = e - a /\ Length(m, a) \in Nat /\ e \in Nat
PROOF
<1> DEFINE P(x) == x >= a /\ m[x] = 0 /\ \A k \in a .. x - 1 : m[k] # 0
<1>1. /\ Addresses \subseteq Nat /\ e \in Addresses /\ P(e)
  BY SizeAssumption DEF Addresses, EndsAt
<1>2. ASSUME NEW x \in Addresses, P(x) PROVE x = e
  <2>1. x \in Nat /\ e \in Nat
    BY <1>1
  <2>2. ~(x < e)
    BY <1>1, <1>2, <2>1
  <2>3. ~(e < x)
    BY <1>1, <1>2, <2>1
  <2> QED BY <2>1, <2>2, <2>3
<1> DEFINE first == CHOOSE x \in Addresses : P(x)
<1>3. first = e
  <2> HIDE DEF P
  <2> QED BY <1>1, <1>2
<1>4. e \in Nat /\ a <= e
  BY <1>1
<1>5. Length(m, a) = first - a
  BY Zenon DEF Length
<1> HIDE DEF first
<1> QED BY <1>3, <1>4, <1>5

(* A string that ends has a first 0.                                       *)
LEMMA StringEnds ==
  ASSUME NEW m, NEW a \in Nat, IsString(m, a)
  PROVE  EndsAt(m, a, a + Length(m, a)) /\ Length(m, a) \in Nat
PROOF
<1> DEFINE Zeros == {x \in Addresses : x >= a /\ m[x] = 0}
<1>1. Addresses \subseteq Nat
  BY SizeAssumption DEF Addresses
<1>2. Zeros # {}
  BY DEF IsString
<1>3. PICK e \in Zeros : \A k \in Zeros : e <= k
  BY <1>1, <1>2, LeastNat
<1>4. ASSUME NEW k \in a .. e - 1 PROVE m[k] # 0
  <2>1. k \in Nat /\ k < e /\ e \in Nat /\ e \in Addresses
    BY <1>1
  <2>2. k \in Addresses
    BY <2>1, SizeAssumption DEF Addresses
  <2>3. k \notin Zeros
    BY <1>3, <2>1
  <2> QED BY <2>2, <2>3
<1>5. EndsAt(m, a, e)
  BY <1>1, <1>3, <1>4 DEF EndsAt
<1>6. Length(m, a) = e - a /\ Length(m, a) \in Nat /\ e \in Nat
  BY <1>5, LengthIs
<1>7. e = a + Length(m, a)
  BY <1>6
<1> QED BY <1>5, <1>6, <1>7

(* What is not 0 up to h is of the string; if there is a 0 then, it is all *)
(* of it.                                                                  *)
LEMMA SoFar ==
  ASSUME NEW m, NEW a \in Nat, IsString(m, a), NEW h \in Nat,
         \A j \in 0 .. h - 1 : m[a + j] # 0
  PROVE  /\ h <= Length(m, a) /\ a + h \in Addresses
         /\ m[a + h] = 0 <=> h = Length(m, a)
PROOF
<1> DEFINE len == Length(m, a)
<1>1. EndsAt(m, a, a + len) /\ len \in Nat
  BY StringEnds
<1> HIDE DEF len
<1>2. m[a + len] = 0 /\ a + len \in 0 .. Size - 1
  BY <1>1 DEF EndsAt, Addresses
<1>3. ~(len < h)
  <2>1. len < h => len \in 0 .. h - 1
    BY <1>1
  <2> QED BY <1>2, <2>1
<1>4. a + h \in Addresses
  BY <1>1, <1>2, <1>3, SizeAssumption DEF Addresses
<1>5. h < len => m[a + h] # 0
  <2>1. h < len => a + h \in a .. a + len - 1
    BY <1>1
  <2> QED BY <1>1, <2>1 DEF EndsAt
<1>6. h <= len
  BY <1>1, <1>3
<1>7. m[a + h] = 0 <=> h = len
  BY <1>1, <1>2, <1>5, <1>6
<1> QED BY <1>4, <1>6, <1>7 DEF len

(* Strings and blocks as sequences.                                        *)
LEMMA StrFacts ==
  ASSUME NEW m \in Memory, NEW a \in Nat, IsString(m, a)
  PROVE  /\ Str(m, a) \in Seq(Bytes) /\ Len(Str(m, a)) = Length(m, a)
         /\ DOMAIN Str(m, a) = 1 .. Length(m, a)
         /\ \A h \in 1 .. Length(m, a) : Str(m, a)[h] = m[a + h - 1] /\ Str(m, a)[h] # 0
         /\ Str0(m, a) \in Seq(Bytes) /\ Len(Str0(m, a)) = Length(m, a) + 1
         /\ DOMAIN Str0(m, a) = 1 .. Length(m, a) + 1
         /\ \A h \in 1 .. Length(m, a) + 1 : Str0(m, a)[h] = m[a + h - 1]
PROOF
<1> DEFINE len == Length(m, a)  s == Str(m, a)
<1>1. EndsAt(m, a, a + len) /\ len \in Nat
  BY StringEnds
<1>2. s = [h \in 1 .. len |-> m[a + h - 1]]
  BY DEF Str
<1> HIDE DEF len
<1>3. a + len \in 0 .. Size - 1
  BY <1>1 DEF EndsAt, Addresses
<1>4. ASSUME NEW h \in 1 .. len PROVE m[a + h - 1] \in Bytes /\ m[a + h - 1] # 0
  <2>1. a + h - 1 \in a .. a + len - 1 /\ a + h - 1 \in 0 .. Size - 1
    BY <1>1, <1>3, SizeAssumption
  <2> QED BY <1>1, <2>1 DEF EndsAt, Memory, Addresses
<1>5. s \in Seq(Bytes) /\ Len(s) = len /\ DOMAIN s = 1 .. len
  <2> HIDE DEF s
  <2>1. \A h \in 1 .. len : m[a + h - 1] \in Bytes
    BY <1>4
  <2> QED BY <1>1, <1>2, <2>1
<1>6. \A h \in 1 .. len : s[h] = m[a + h - 1] /\ s[h] # 0
  BY <1>2, <1>4
<1> HIDE DEF s
<1> DEFINE t == Append(s, 0)
<1>7. 0 \in Bytes /\ m[a + (len + 1) - 1] = 0
  BY <1>1 DEF Bytes, EndsAt
<1>8. /\ t \in Seq(Bytes) /\ Len(t) = len + 1 /\ DOMAIN t = 1 .. len + 1
      /\ \A h \in 1 .. len + 1 : t[h] = IF h = len + 1 THEN 0 ELSE s[h]
  BY <1>1, <1>5, <1>7
<1>9. \A h \in 1 .. len + 1 : t[h] = m[a + h - 1]
  BY <1>1, <1>6, <1>7, <1>8
<1>10. t = Str0(m, a)
  BY DEF Str0, s
<1> QED BY <1>5, <1>6, <1>8, <1>9, <1>10 DEF len, s

(* The same for so many bytes.                                             *)
LEMMA BlockFacts ==
  ASSUME NEW m, NEW a \in Nat, NEW k \in Nat
  PROVE  /\ DOMAIN Block(m, a, k) = 1 .. k
         /\ \A h \in 1 .. k : Block(m, a, k)[h] = m[a + h - 1]
  BY DEF Block

(* What Min, Cut, Find and Compare do.                                     *)
LEMMA MinIs ==
  ASSUME NEW S \in SUBSET Int, NEW x \in S, \A y \in S : x <= y
  PROVE  Min(S) = x
PROOF
<1>1. \A y \in S : (\A z \in S : y <= z) => y = x
  OBVIOUS
<1> QED BY <1>1 DEF Min

(* A sequence cut to k has its first k elements, or all.                   *)
LEMMA CutFacts ==
  ASSUME NEW s \in Seq(Bytes), NEW k \in Nat
  PROVE  /\ Cut(s, k) \in Seq(Bytes)
         /\ Len(Cut(s, k)) = IF k < Len(s) THEN k ELSE Len(s)
         /\ DOMAIN Cut(s, k) = 1 .. IF k < Len(s) THEN k ELSE Len(s)
         /\ \A h \in DOMAIN Cut(s, k) : Cut(s, k)[h] = s[h]
PROOF
<1> DEFINE m == IF k < Len(s) THEN k ELSE Len(s)
<1>1. Len(s) \in Nat
  OBVIOUS
<1>2. Min({k, Len(s)}) = m
  <2>1. {k, Len(s)} \in SUBSET Int /\ m \in {k, Len(s)} /\ \A y \in {k, Len(s)} : m <= y
    BY <1>1
  <2> HIDE DEF m
  <2> QED BY <2>1, MinIs
<1>3. Cut(s, k) = SubSeq(s, 1, m)
  BY <1>2 DEF Cut
<1>4. m \in 0 .. Len(s)
  BY <1>1
<1> HIDE DEF m
<1>5. /\ SubSeq(s, 1, m) \in Seq(Bytes) /\ Len(SubSeq(s, 1, m)) = m
      /\ DOMAIN SubSeq(s, 1, m) = 1 .. m
      /\ \A h \in 1 .. m : SubSeq(s, 1, m)[h] = s[h]
  BY <1>1, <1>4
<1> QED BY <1>3, <1>5 DEF m

(* The first c in s, of length len, is behind h others.                    *)
FirstIn(s, len, c, h) ==
  /\ len \in Nat /\ DOMAIN s = 1 .. len /\ h \in Nat /\ h < len
  /\ s[h + 1] = c /\ \A j \in 1 .. h : s[j] # c

(* What is found there.                                                    *)
LEMMA FindIs ==
  ASSUME NEW s, NEW len, NEW c, NEW none, NEW h, FirstIn(s, len, c, h)
  PROVE  Find(s, c, none) = h
PROOF
<1> USE DEF FirstIn
<1> DEFINE S == {j \in DOMAIN s : s[j] = c}
<1>1. S \in SUBSET Int /\ h + 1 \in S
  OBVIOUS
<1>2. \A j \in S : h + 1 <= j
  OBVIOUS
<1>3. Min(S) = h + 1
  <2> HIDE DEF S
  <2> QED BY <1>1, <1>2, MinIs
<1>4. c \in ToSet(s)
  BY DEF ToSet
<1> QED BY <1>3, <1>4 DEF Find

(* What is not there is not found.                                         *)
LEMMA FindNone ==
  ASSUME NEW s, NEW len \in Nat, DOMAIN s = 1 .. len, NEW c, NEW none,
         \A j \in 1 .. len : s[j] # c
  PROVE  Find(s, c, none) = none
PROOF
<1>1. c \notin ToSet(s)
  BY DEF ToSet
<1> QED BY <1>1 DEF Find

(* s and t are the bytes of m from d and from e on, a and b of them, and   *)
(* agree in the first h.                                                   *)
AgreeIn(m, s, t, d, e, a, b, h) ==
  /\ a \in Nat /\ b \in Nat /\ d \in Nat /\ e \in Nat
  /\ h \in Nat /\ h <= a /\ h <= b
  /\ DOMAIN s = 1 .. a /\ \A j \in 1 .. a : s[j] = m[d + j - 1]
  /\ DOMAIN t = 1 .. b /\ \A j \in 1 .. b : t[j] = m[e + j - 1]
  /\ \A j \in 0 .. h - 1 : m[d + j] = m[e + j]

(* What the comparison of the two comes to.                                *)
LEMMA CompareIs ==
  ASSUME NEW m, NEW s, NEW t, NEW d, NEW e, NEW a, NEW b, NEW h,
         AgreeIn(m, s, t, d, e, a, b, h)
  PROVE  /\ h < a /\ h < b /\ m[d + h] # m[e + h] =>
              Compare(s, t) = m[d + h] - m[e + h]
         /\ (h = a \/ h = b) => Compare(s, t) = 0
PROOF
<1> USE DEF AgreeIn
<1> DEFINE D == {j \in DOMAIN s \cap DOMAIN t : s[j] # t[j]}
<1>1. \A j \in 1 .. h : s[j] = t[j]
  <2> SUFFICES ASSUME NEW j \in 1 .. h PROVE s[j] = t[j]
    OBVIOUS
  <2>1. j - 1 \in 0 .. h - 1 /\ d + (j - 1) = d + j - 1 /\ e + (j - 1) = e + j - 1
    OBVIOUS
  <2>2. j \in 1 .. a /\ j \in 1 .. b
    OBVIOUS
  <2>3. m[d + (j - 1)] = m[e + (j - 1)]
    BY <2>1
  <2> QED BY <2>1, <2>2, <2>3
<1>2. Compare(s, t) = IF D = {} THEN 0 ELSE s[Min(D)] - t[Min(D)]
  BY DEF Compare
<1>3. CASE h = a \/ h = b
  <2>1. D = {}
    BY <1>1, <1>3
  <2> QED BY <1>2, <1>3, <2>1
<1>4. CASE h < a /\ h < b /\ m[d + h] # m[e + h]
  <2>1. h + 1 \in 1 .. a /\ h + 1 \in 1 .. b /\ d + (h + 1) - 1 = d + h /\ e + (h + 1) - 1 = e + h
    BY <1>4
  <2>2. s[h + 1] = m[d + h] /\ t[h + 1] = m[e + h]
    BY <2>1
  <2>3. D \in SUBSET Int /\ h + 1 \in D
    BY <1>4, <2>1, <2>2
  <2>4. ASSUME NEW j \in D PROVE h + 1 <= j
    <3>1. j \in 1 .. a /\ s[j] # t[j] /\ j \in Nat
      OBVIOUS
    <3>2. ~(j \in 1 .. h)
      BY <1>1, <3>1
    <3> QED BY <3>1, <3>2
  <2> HIDE DEF D
  <2>5. Min(D) = h + 1
    BY <2>3, <2>4, MinIs
  <2> QED BY <1>2, <1>4, <2>2, <2>3, <2>5
<1> QED BY <1>3, <1>4

-----------------------------------------------------------------------------
(* The invariant.                                                          *)

Single == Scans \cup Comparisons \cup Copies \cup {"strcat", "strtol"}

CallKnown ==
  /\ call.fn \in Single /\ call.dst \in Addresses /\ call.src \in Addresses
  /\ call.c \in Int /\ call.n \in Nat
  /\ call.fn = "strtol" => call.c \in 0 .. 36
  /\ before \in Memory
  /\ MayCall(before, call.fn, call.dst, call.src, call.n)

(* The condition of the loop in its turn j, counted from 0.                *)
GoesAt(j) ==
  LET f == call.fn  x == before[call.dst + j]  y == before[call.src + j]
      more == j < call.n
  IN  /\ f \in Counted => more
      /\ f \in {"strlen", "strcat", "strnlen", "strcmp", "strncmp"} => x # 0
      /\ f \in {"strchr", "strfind"} => x # 0 /\ x # Char(call.c)
      /\ f = "memfind" => x # Char(call.c)
      /\ f \in Comparisons => x = y

Turns == p - call.dst

(* All turns so far were taken because the condition held.                 *)
ScanInv ==
  /\ pc = "scan" /\ call.fn \in Scans \cup Comparisons \cup {"strcat"}
  /\ mem = before
  /\ Turns \in Nat /\ p = call.dst + Turns /\ n = call.n - Turns
  /\ q = IF call.fn \in Comparisons THEN call.src + Turns ELSE call.src
  /\ \A j \in 0 .. Turns - 1 : GoesAt(j)

(* What has been scanned, and where.                                       *)
LEMMA ScanFacts ==
  ASSUME CallKnown, ScanInv
  PROVE  /\ call.dst \in Nat /\ call.src \in Nat /\ call.n \in Nat /\ call.c \in Int
         /\ Turns \in Nat /\ p = call.dst + Turns /\ n = call.n - Turns
         /\ mem = before /\ before \in Memory
         /\ call.fn \in Comparisons => q = call.src + Turns
         /\ Goes <=> GoesAt(Turns)
         /\ call.fn \in Counted => Turns <= call.n
PROOF
<1>1. /\ call.dst \in Nat /\ call.src \in Nat /\ call.n \in Nat /\ call.c \in Int
      /\ before \in Memory
  BY SizeAssumption DEF CallKnown, Addresses
<1>2. /\ Turns \in Nat /\ p = call.dst + Turns /\ n = call.n - Turns /\ mem = before
      /\ call.fn \in Comparisons => q = call.src + Turns
      /\ call.fn \in Scans \cup Comparisons \cup {"strcat"}
  BY DEF ScanInv
<1> DEFINE h == Turns
<1>3. call.n - h > 0 <=> h < call.n
  BY <1>1, <1>2
<1>4. Goes <=> GoesAt(Turns)
  BY <1>2, <1>3 DEF Goes, GoesAt, Scans, Comparisons, Counted
<1>5. call.fn \in Counted => Turns <= call.n
  <2>1. CASE Turns = 0
    BY <1>1, <2>1
  <2>2. CASE Turns # 0
    <3>1. Turns - 1 \in 0 .. Turns - 1
      BY <1>2, <2>2
    <3>2. call.fn \in Counted => Turns - 1 < call.n
      BY <3>1 DEF ScanInv, GoesAt
    <3> QED BY <1>1, <1>2, <3>2
  <2> QED BY <2>1, <2>2
<1> QED BY <1>1, <1>2, <1>4, <1>5

(* Of a string: how far the scan has come in it.                           *)
LEMMA ScanString ==
  ASSUME CallKnown, ScanInv, IsString(before, call.dst),
         call.fn \in {"strlen", "strcat", "strnlen", "strcmp", "strncmp",
                      "strchr", "strfind"}
  PROVE  /\ Turns <= Length(before, call.dst)
         /\ before[call.dst + Turns] = 0 <=> Turns = Length(before, call.dst)
PROOF
<1>1. call.dst \in Nat /\ Turns \in Nat
  BY ScanFacts
<1>2. \A j \in 0 .. Turns - 1 : before[call.dst + j] # 0
  BY DEF ScanInv, GoesAt
<1> QED BY <1>1, <1>2, SoFar

(* strlen.                                                                 *)
LEMMA StrlenResult ==
  ASSUME CallKnown, ScanInv, ~Goes, call.fn = "strlen"
  PROVE  Returned = Len(Str(before, call.dst))
PROOF
<1>1. IsString(before, call.dst)
  BY DEF CallKnown, MayCall
<1>2. Turns = Length(before, call.dst)
  BY <1>1, ScanFacts, ScanString DEF GoesAt, Counted, Comparisons
<1>3. Len(Str(before, call.dst)) = Length(before, call.dst)
  BY <1>1, ScanFacts, StrFacts
<1>4. Returned = p - call.dst
  BY DEF Returned
<1> QED BY <1>2, <1>3, <1>4 DEF Turns

(* strnlen, also for memory in which no string ends.                       *)
LEMMA StrnlenResult ==
  ASSUME CallKnown, ScanInv, ~Goes, call.fn = "strnlen"
  PROVE  Returned = IF IsString(before, call.dst)
                    THEN Len(Cut(Str(before, call.dst), call.n)) ELSE call.n
PROOF
<1>1. Turns \in Nat /\ Turns <= call.n /\ call.n \in Nat /\ call.dst \in Nat
  BY ScanFacts DEF Counted
<1>2. Turns = call.n \/ before[call.dst + Turns] = 0
  BY <1>1, ScanFacts DEF GoesAt, Counted, Comparisons
<1>3. Returned = Turns
  BY DEF Returned, Turns
<1>4. CASE IsString(before, call.dst)
  <2> DEFINE len == Length(before, call.dst)
  <2>1. Turns <= len /\ (before[call.dst + Turns] = 0 <=> Turns = len)
    BY <1>4, ScanString
  <2>2. len \in Nat
    BY <1>1, <1>4, StringEnds
  <2>3. /\ Str(before, call.dst) \in Seq(Bytes)
        /\ Len(Str(before, call.dst)) = len
    BY <1>1, <1>4, ScanFacts, StrFacts
  <2>4. Len(Cut(Str(before, call.dst), call.n)) = IF call.n < len THEN call.n ELSE len
    BY <1>1, <2>3, CutFacts
  <2> HIDE DEF len
  <2>5. Turns = IF call.n < len THEN call.n ELSE len
    BY <1>1, <1>2, <2>1, <2>2
  <2> QED BY <1>3, <1>4, <2>4, <2>5
<1>5. CASE ~IsString(before, call.dst)
  <2>1. call.dst + call.n <= Size
    BY <1>5 DEF CallKnown, MayCall
  <2>2. Turns # call.n => call.dst + Turns \in Addresses /\ call.dst + Turns >= call.dst
    BY <1>1, <2>1, SizeAssumption DEF Addresses
  <2>3. Turns = call.n
    BY <1>2, <1>5, <2>2 DEF IsString
  <2> QED BY <1>3, <1>5, <2>3
<1> QED BY <1>4, <1>5

(* strchr and strfind.                                                     *)
LEMMA FindResult ==
  ASSUME CallKnown, ScanInv, ~Goes, call.fn \in {"strchr", "strfind"}
  PROVE  Returned = Find(Str(before, call.dst), Char(call.c),
                         IF call.fn = "strchr" THEN Null - call.dst
                         ELSE Len(Str(before, call.dst))) + call.dst
PROOF
<1> DEFINE d == call.dst  c == Char(call.c)  len == Length(before, d)  h == Turns
           s == Str(before, d)
           none == IF call.fn = "strchr" THEN Null - d ELSE Len(s)
<1>1. IsString(before, d)
  BY DEF CallKnown, MayCall
<1>2. /\ d \in Nat /\ h \in Nat /\ p = d + h /\ before \in Memory /\ mem = before
      /\ ~GoesAt(h)
  BY ScanFacts
<1>3. h <= len /\ (before[d + h] = 0 <=> h = len) /\ len \in Nat
  BY <1>1, <1>2, ScanString, StringEnds
<1>4. \A j \in 0 .. h - 1 : before[d + j] # 0 /\ before[d + j] # c
  BY DEF ScanInv, GoesAt
<1>5. before[d + h] = 0 \/ before[d + h] = c
  BY <1>2 DEF GoesAt, Counted, Comparisons
<1>6. Len(s) = len /\ DOMAIN s = 1 .. len /\ \A j \in 1 .. len : s[j] = before[d + j - 1]
  BY <1>1, <1>2, StrFacts
<1>7. Returned = IF call.fn = "strchr" THEN (IF before[p] = 0 THEN Null ELSE p) ELSE p
  BY <1>2 DEF Returned
<1> HIDE DEF len, h, s, c, d
<1>8. \A j \in 1 .. h : s[j] # c
  <2> SUFFICES ASSUME NEW j \in 1 .. h PROVE s[j] # c
    OBVIOUS
  <2>1. j - 1 \in 0 .. h - 1 /\ j \in 1 .. len /\ d + (j - 1) = d + j - 1
    BY <1>2, <1>3
  <2> QED BY <1>4, <1>6, <2>1
<1>9. CASE h = len
  <2>1. Find(s, c, none) = none
    <3>1. \A j \in 1 .. len : s[j] # c
      BY <1>8, <1>9
    <3> HIDE DEF none
    <3> QED BY <1>3, <1>6, <3>1, FindNone
  <2>2. Returned = IF call.fn = "strchr" THEN Null ELSE d + len
    BY <1>2, <1>3, <1>7, <1>9
  <2>3. Returned = none + d
    BY <1>2, <1>3, <1>6, <2>2 DEF Null
  <2> QED BY <2>1, <2>3 DEF d, s, c
<1>10. CASE h # len
  <2>1. h + 1 \in 1 .. len /\ s[h + 1] = before[d + h] /\ d + (h + 1) - 1 = d + h
    <3>1. h + 1 \in 1 .. len /\ d + (h + 1) - 1 = d + h
      BY <1>2, <1>3, <1>10
    <3> QED BY <1>6, <3>1
  <2>2. s[h + 1] = c
    BY <1>3, <1>5, <1>10, <2>1
  <2>3. h < len
    BY <1>2, <1>3, <1>10
  <2> HIDE DEF none
  <2>4. FirstIn(s, len, c, h)
    BY <1>2, <1>3, <1>6, <1>8, <2>2, <2>3 DEF FirstIn
  <2>5. Find(s, c, none) = h
    BY <2>4, FindIs
  <2>6. Returned = h + d
    BY <1>2, <1>3, <1>7, <1>10
  <2> QED BY <2>5, <2>6 DEF d, s, c, none
<1> QED BY <1>9, <1>10

(* memfind.                                                                *)
LEMMA MemfindResult ==
  ASSUME CallKnown, ScanInv, ~Goes, call.fn = "memfind"
  PROVE  Returned = Find(Block(before, call.dst, call.n), Char(call.c), call.n) + call.dst
PROOF
<1> DEFINE d == call.dst  c == Char(call.c)  k == call.n  h == Turns
           s == Block(before, d, k)
<1>1. /\ d \in Nat /\ h \in Nat /\ p = d + h /\ k \in Nat /\ h <= k /\ ~GoesAt(h)
  BY ScanFacts DEF Counted
<1>2. \A j \in 0 .. h - 1 : before[d + j] # c
  BY DEF ScanInv, GoesAt
<1>3. h = k \/ before[d + h] = c
  BY <1>1 DEF GoesAt, Counted, Comparisons
<1>4. DOMAIN s = 1 .. k /\ \A j \in 1 .. k : s[j] = before[d + j - 1]
  BY <1>1, BlockFacts
<1>5. Returned = d + h
  BY <1>1 DEF Returned
<1> HIDE DEF d, c, k, h, s
<1>6. \A j \in 1 .. h : s[j] # c
  <2> SUFFICES ASSUME NEW j \in 1 .. h PROVE s[j] # c
    OBVIOUS
  <2>1. j - 1 \in 0 .. h - 1 /\ j \in 1 .. k /\ d + (j - 1) = d + j - 1
    BY <1>1
  <2> QED BY <1>2, <1>4, <2>1
<1>7. Find(s, c, k) = h
  <2>1. CASE h = k
    BY <1>1, <1>4, <1>6, <2>1, FindNone
  <2>2. CASE h # k
    <3>1. h + 1 \in 1 .. k /\ d + (h + 1) - 1 = d + h /\ h + 1 - 1 = h
      BY <1>1, <2>2
    <3>2. s[h + 1] = c
      BY <1>3, <1>4, <2>2, <3>1
    <3>3. h < k
      BY <1>1, <2>2
    <3>4. FirstIn(s, k, c, h)
      BY <1>1, <1>4, <1>6, <3>2, <3>3 DEF FirstIn
    <3> QED BY <3>4, FindIs
  <2> QED BY <2>1, <2>2
<1>8. Returned = h + d
  BY <1>1, <1>5
<1> QED BY <1>7, <1>8 DEF d, c, k, s

(* strcmp and strncmp, the 0 being compared like any other byte.           *)
LEMMA StrcmpResult ==
  ASSUME CallKnown, ScanInv, ~Goes, call.fn \in {"strcmp", "strncmp"}
  PROVE  Returned =
           IF call.fn = "strcmp"
           THEN Compare(Str0(before, call.dst), Str0(before, call.src))
           ELSE Compare(Cut(Str0(before, call.dst), call.n),
                        Cut(Str0(before, call.src), call.n))
PROOF
<1> DEFINE d == call.dst  e == call.src  h == Turns  k == call.n
           a == Length(before, d)  b == Length(before, e)
           s == Str0(before, d)  t == Str0(before, e)
<1>1. IsString(before, d) /\ IsString(before, e)
  BY DEF CallKnown, MayCall
<1>2. /\ d \in Nat /\ e \in Nat /\ h \in Nat /\ k \in Nat
      /\ p = d + h /\ q = e + h /\ n = k - h
      /\ before \in Memory /\ mem = before
      /\ ~GoesAt(h) /\ (call.fn = "strncmp" => h <= k)
  BY ScanFacts DEF Counted, Comparisons
<1>3. \A j \in 0 .. h - 1 : before[d + j] # 0 /\ before[d + j] = before[e + j]
  BY DEF ScanInv, GoesAt, Comparisons
<1>4. /\ h <= a /\ (before[d + h] = 0 <=> h = a) /\ a \in Nat
      /\ h <= b /\ (before[e + h] = 0 <=> h = b) /\ b \in Nat
  <2>1. \A j \in 0 .. h - 1 : before[d + j] # 0
    BY <1>3
  <2>2. \A j \in 0 .. h - 1 : before[e + j] # 0
    BY <1>3
  <2>3. h <= a /\ (before[d + h] = 0 <=> h = a) /\ a \in Nat
    BY <1>1, <1>2, <2>1, SoFar, StringEnds
  <2>4. h <= b /\ (before[e + h] = 0 <=> h = b) /\ b \in Nat
    BY <1>1, <1>2, <2>2, SoFar, StringEnds
  <2> QED BY <2>3, <2>4
<1>5. \/ call.fn = "strncmp" /\ h = k
      \/ before[d + h] = 0 \/ before[d + h] # before[e + h]
  BY <1>2 DEF GoesAt, Counted, Comparisons
<1>6. Returned = IF call.fn = "strncmp" /\ n = 0 THEN 0 ELSE before[p] - before[q]
  BY <1>2 DEF Returned
<1>7. /\ s \in Seq(Bytes) /\ Len(s) = a + 1
      /\ DOMAIN s = 1 .. a + 1 /\ \A j \in 1 .. a + 1 : s[j] = before[d + j - 1]
  BY <1>1, <1>2, StrFacts
<1>8. /\ t \in Seq(Bytes) /\ Len(t) = b + 1
      /\ DOMAIN t = 1 .. b + 1 /\ \A j \in 1 .. b + 1 : t[j] = before[e + j - 1]
  BY <1>1, <1>2, StrFacts
<1>9. before[d + h] \in Int
  <2>1. d + h \in Addresses
    <3>1. \A j \in 0 .. h - 1 : before[d + j] # 0
      BY <1>3
    <3> QED BY <1>1, <1>2, <3>1, SoFar
  <2> QED BY <1>2, <2>1 DEF Memory, Bytes
<1> HIDE DEF a, b, s, t, h, d, e, k
<1>10. CASE call.fn = "strcmp"
  <2>1. CASE before[d + h] # before[e + h]
    <3>1. a + 1 \in Nat /\ b + 1 \in Nat /\ h < a + 1 /\ h < b + 1
      BY <1>2, <1>4
    <3>2. \A j \in 0 .. h - 1 : before[d + j] = before[e + j]
      BY <1>3
    <3>3. AgreeIn(before, s, t, d, e, a + 1, b + 1, h)
      BY <1>2, <1>7, <1>8, <3>1, <3>2 DEF AgreeIn
    <3>4. Compare(s, t) = before[d + h] - before[e + h]
      BY <2>1, <3>1, <3>3, CompareIs
    <3> QED BY <1>2, <1>6, <1>10, <3>4 DEF s, t, d, e
  <2>2. CASE before[d + h] = before[e + h]
    <3>1. h = a /\ h = b
      BY <1>4, <1>5, <1>10, <2>2
    <3>2. AgreeIn(before, s, t, d, e, a + 1, b + 1, h + 1)
      <4>1. \A j \in 0 .. (h + 1) - 1 : before[d + j] = before[e + j]
        BY <1>2, <1>3, <2>2
      <4>2. h + 1 \in Nat /\ h + 1 <= a + 1 /\ h + 1 <= b + 1
        BY <1>2, <3>1
      <4> QED BY <1>2, <1>4, <1>7, <1>8, <4>1, <4>2 DEF AgreeIn
    <3>3. Compare(s, t) = 0
      BY <3>1, <3>2, CompareIs
    <3>4. Returned = 0
      BY <1>2, <1>6, <1>9, <1>10, <2>2
    <3> QED BY <1>10, <3>3, <3>4 DEF s, t, d, e
  <2> QED BY <2>1, <2>2
<1>11. CASE call.fn = "strncmp"
  <2> DEFINE ka == IF k < a + 1 THEN k ELSE a + 1
             kb == IF k < b + 1 THEN k ELSE b + 1
             ks == Cut(s, k)  kt == Cut(t, k)
  <2>1. /\ DOMAIN ks = 1 .. ka /\ \A j \in 1 .. ka : ks[j] = s[j]
        /\ DOMAIN kt = 1 .. kb /\ \A j \in 1 .. kb : kt[j] = t[j]
    BY <1>2, <1>7, <1>8, CutFacts
  <2>2. /\ ka \in Nat /\ ka <= a + 1 /\ kb \in Nat /\ kb <= b + 1
        /\ h <= ka /\ h <= kb
    BY <1>2, <1>4, <1>11
  <2>3. /\ \A j \in 1 .. ka : ks[j] = before[d + j - 1]
        /\ \A j \in 1 .. kb : kt[j] = before[e + j - 1]
    BY <1>4, <1>7, <1>8, <2>1, <2>2
  <2>4. (h # k => h < ka /\ h < kb) /\ (h = k => h = ka /\ h = kb)
    BY <1>2, <1>4, <1>11
  <2> HIDE DEF ka, kb, ks, kt
  <2>5. AgreeIn(before, ks, kt, d, e, ka, kb, h)
    BY <1>2, <1>3, <2>1, <2>2, <2>3 DEF AgreeIn
  <2>6. CASE h = k
    <3>1. Compare(ks, kt) = 0
      BY <2>4, <2>5, <2>6, CompareIs
    <3>2. Returned = 0
      BY <1>2, <1>6, <1>11, <2>6
    <3> QED BY <1>11, <3>1, <3>2 DEF ks, kt, s, t, d, e, k
  <2>7. CASE h # k /\ before[d + h] # before[e + h]
    <3>1. Compare(ks, kt) = before[d + h] - before[e + h]
      BY <2>4, <2>5, <2>7, CompareIs
    <3>2. Returned = before[d + h] - before[e + h]
      BY <1>2, <1>6, <2>7
    <3> QED BY <1>11, <3>1, <3>2 DEF ks, kt, s, t, d, e, k
  <2>8. CASE h # k /\ before[d + h] = before[e + h]
    <3>1. h = a /\ h = b
      BY <1>4, <1>5, <2>8
    <3>2. h + 1 = ka /\ h + 1 = kb
      BY <1>2, <1>4, <2>2, <2>4, <2>8, <3>1
    <3>3. AgreeIn(before, ks, kt, d, e, ka, kb, h + 1)
      <4>1. \A j \in 0 .. (h + 1) - 1 : before[d + j] = before[e + j]
        BY <1>2, <1>3, <2>8
      <4>2. h + 1 \in Nat /\ h + 1 <= ka /\ h + 1 <= kb
        BY <1>2, <3>2
      <4> QED BY <1>2, <2>1, <2>2, <2>3, <4>1, <4>2 DEF AgreeIn
    <3>4. Compare(ks, kt) = 0
      BY <3>2, <3>3, CompareIs
    <3>5. Returned = 0
      BY <1>2, <1>6, <1>9, <2>8
    <3> QED BY <1>11, <3>4, <3>5 DEF ks, kt, s, t, d, e, k
  <2> QED BY <2>6, <2>7, <2>8
<1> QED BY <1>10, <1>11

(* memcmp.                                                                 *)
LEMMA MemcmpResult ==
  ASSUME CallKnown, ScanInv, ~Goes, call.fn = "memcmp"
  PROVE  Returned = Compare(Block(before, call.dst, call.n), Block(before, call.src, call.n))
PROOF
<1> DEFINE d == call.dst  e == call.src  h == Turns  k == call.n
           s == Block(before, d, k)  t == Block(before, e, k)
<1>1. /\ d \in Nat /\ e \in Nat /\ h \in Nat /\ k \in Nat /\ h <= k
      /\ p = d + h /\ q = e + h /\ n = k - h /\ mem = before /\ ~GoesAt(h)
  BY ScanFacts DEF Counted, Comparisons
<1>2. \A j \in 0 .. h - 1 : before[d + j] = before[e + j]
  BY DEF ScanInv, GoesAt, Comparisons
<1>3. h = k \/ before[d + h] # before[e + h]
  BY <1>1 DEF GoesAt, Counted, Comparisons
<1>4. Returned = IF n = 0 THEN 0 ELSE before[p] - before[q]
  BY <1>1 DEF Returned
<1> HIDE DEF h, d, e, k
<1>5. /\ DOMAIN s = 1 .. k /\ \A j \in 1 .. k : s[j] = before[d + j - 1]
      /\ DOMAIN t = 1 .. k /\ \A j \in 1 .. k : t[j] = before[e + j - 1]
  <2>1. /\ DOMAIN s = 1 .. k /\ \A j \in 1 .. k : s[j] = before[d + j - 1]
    BY <1>1, BlockFacts
  <2>2. /\ DOMAIN t = 1 .. k /\ \A j \in 1 .. k : t[j] = before[e + j - 1]
    BY <1>1, BlockFacts
  <2> QED BY <2>1, <2>2
<1> HIDE DEF s, t
<1>6. AgreeIn(before, s, t, d, e, k, k, h)
  BY <1>1, <1>2, <1>5 DEF AgreeIn
<1>7. Returned = Compare(s, t)
  <2>1. CASE h = k
    BY <1>1, <1>4, <1>6, <2>1, CompareIs
  <2>2. CASE h # k
    BY <1>1, <1>3, <1>4, <1>6, <2>2, CompareIs
  <2> QED BY <2>1, <2>2
<1> QED BY <1>7 DEF s, t, d, e, k

-----------------------------------------------------------------------------
(* Copying.                                                                *)

(* Where it begins, and the byte that the source has for the place j.      *)
From == IF call.fn = "strcat" THEN call.dst + Length(before, call.dst) ELSE call.dst
SourceLength == Length(before, call.src)
Source(j) == IF j < SourceLength THEN before[call.src + j] ELSE 0

(* How many bytes are written at most.                                     *)
Room == IF call.fn \in {"strcpy", "strcat"} THEN SourceLength + 1 ELSE call.n

Copied == p - From

CopyInv ==
  /\ pc = "copy" /\ call.fn \in Copies \cup {"strcat"}
  /\ Copied \in Nat /\ p = From + Copied
  /\ q = call.src + (IF Copied < SourceLength THEN Copied ELSE SourceLength)
  /\ call.fn # "strncpy" => Copied <= SourceLength
  /\ call.fn \in {"strncpy", "strlcpy"} => n = call.n - Copied /\ Copied <= call.n
  /\ call.fn = "strlcpy" /\ call.n > 0 => Copied < call.n
  /\ mem = [a \in Addresses |-> IF a \in From .. p - 1 THEN Source(a - From)
                                                       ELSE before[a]]

(* What callers may ask for.                                               *)
LEMMA CopyAllowed ==
  ASSUME CallKnown, call.fn \in Copies \cup {"strcat"}
  PROVE  /\ call.dst \in Nat /\ call.src \in Nat /\ call.n \in Nat
         /\ IsString(before, call.src) /\ SourceLength \in Nat
         /\ From \in Nat /\ Room \in Nat /\ From + Room <= Size
         /\ \/ From + Room <= call.src
            \/ call.src + SourceLength + 1 <= From
         /\ call.fn = "strcat" =>
              IsString(before, call.dst) /\ Length(before, call.dst) \in Nat
PROOF
<1> DEFINE len == SourceLength  d == call.dst  e == call.src  k == call.n
           L == Length(before, d)
<1>1. d \in Nat /\ e \in Nat /\ k \in Nat /\ Size \in Nat
  BY SizeAssumption DEF CallKnown, Addresses
<1>2. IsString(before, e)
  BY DEF CallKnown, MayCall, Copies, Scans, Comparisons
<1>3. len \in Nat
  BY <1>1, <1>2, StringEnds DEF SourceLength
<1>4. CASE call.fn = "strcat"
  <2>1. /\ IsString(before, d) /\ d + L + len + 1 <= Size
        /\ Disjoint(d, L + len + 1, e, len + 1)
    BY <1>4 DEF CallKnown, MayCall, Copies, Scans, Comparisons, SourceLength
  <2>2. L \in Nat
    BY <1>1, <2>1, StringEnds
  <2>3. From = d + L /\ Room = len + 1
    BY <1>4 DEF From, Room
  <2> HIDE DEF len, d, e, k, L
  <2>4. d + (L + len + 1) <= e \/ e + (len + 1) <= d
    BY <2>1 DEF Disjoint
  <2>5. /\ From \in Nat /\ Room \in Nat /\ From + Room <= Size
        /\ From + Room <= e \/ e + len + 1 <= From
    BY <1>1, <1>3, <2>1, <2>2, <2>3, <2>4
  <2> QED BY <1>1, <1>2, <1>3, <2>1, <2>2, <2>5 DEF len, d, e, k, L
<1>5. CASE call.fn = "strcpy"
  <2>1. d + len + 1 <= Size /\ Disjoint(d, len + 1, e, len + 1)
    BY <1>5 DEF CallKnown, MayCall, Copies, Scans, Comparisons, SourceLength
  <2>2. From = d /\ Room = len + 1
    BY <1>5 DEF From, Room
  <2> HIDE DEF len, d, e, k
  <2>3. d + (len + 1) <= e \/ e + (len + 1) <= d
    BY <2>1 DEF Disjoint
  <2>4. /\ From \in Nat /\ Room \in Nat /\ From + Room <= Size
        /\ From + Room <= e \/ e + len + 1 <= From
    BY <1>1, <1>3, <2>1, <2>2, <2>3
  <2> QED BY <1>1, <1>2, <1>3, <1>5, <2>4 DEF len, d, e, k
<1>6. CASE call.fn \in {"strncpy", "strlcpy"}
  <2>1. d + k <= Size /\ Disjoint(d, k, e, len + 1)
    BY <1>6 DEF CallKnown, MayCall, Copies, Scans, Comparisons, SourceLength
  <2>2. From = d /\ Room = k
    BY <1>6 DEF From, Room
  <2> HIDE DEF len, d, e, k
  <2>3. d + k <= e \/ e + (len + 1) <= d
    BY <2>1 DEF Disjoint
  <2>4. /\ From \in Nat /\ Room \in Nat /\ From + Room <= Size
        /\ From + Room <= e \/ e + len + 1 <= From
    BY <1>1, <1>3, <2>1, <2>2, <2>3
  <2> QED BY <1>1, <1>2, <1>3, <1>6, <2>4 DEF len, d, e, k
<1> QED BY <1>4, <1>5, <1>6 DEF Copies

(* The byte that comes next is the source's: it has not been overwritten.  *)
LEMMA CopyFacts ==
  ASSUME CallKnown, CopyInv
  PROVE  /\ Copied <= Room /\ mem[q] = Source(Copied)
         /\ mem[q] = 0 <=> Copied >= SourceLength
         /\ Source(Copied) \in Bytes
         /\ CopyGoes => Copied < Room
         /\ CopyGoes /\ call.fn # "strncpy" => Copied < SourceLength
         /\ CopyGoes /\ call.fn = "strlcpy" => Copied + 1 < call.n
PROOF
<1> DEFINE len == SourceLength  e == call.src  h == Copied
<1>1. /\ e \in Nat /\ call.n \in Nat /\ IsString(before, e) /\ len \in Nat
      /\ From \in Nat /\ Room \in Nat /\ From + Room <= Size
      /\ From + Room <= e \/ e + len + 1 <= From
  BY CopyAllowed DEF CopyInv
<1>2. /\ h \in Nat /\ p = From + h
      /\ q = e + (IF h < len THEN h ELSE len)
      /\ call.fn # "strncpy" => h <= len
      /\ call.fn \in {"strncpy", "strlcpy"} => n = call.n - h /\ h <= call.n
      /\ call.fn \in Copies \cup {"strcat"}
  BY DEF CopyInv
<1>3. h <= Room
  BY <1>1, <1>2 DEF Room, Copies
<1>4. EndsAt(before, e, e + len)
  BY <1>1, StringEnds DEF SourceLength
<1> HIDE DEF len, e, h
<1>5. q \in Addresses /\ q \notin From .. p - 1
  <2>1. e + len \in 0 .. Size - 1
    BY <1>4 DEF EndsAt, Addresses
  <2>2. q \in e .. e + len
    BY <1>1, <1>2
  <2>3. q \in 0 .. Size - 1
    BY <1>1, <2>1, <2>2, SizeAssumption
  <2>4. ~(From <= q /\ q <= From + h - 1)
    BY <1>1, <1>2, <1>3, <2>2
  <2> QED BY <1>1, <1>2, <2>3, <2>4 DEF Addresses
<1>6. mem[q] = before[q] /\ before[q] \in Bytes
  BY <1>5 DEF CopyInv, CallKnown, Memory
<1>7. before[q] = IF h < len THEN before[e + h] ELSE 0
  BY <1>1, <1>2, <1>4 DEF EndsAt
<1>8. h < len => before[e + h] # 0
  <2>1. h < len => e + h \in e .. (e + len) - 1
    BY <1>1, <1>2
  <2>2. \A k \in e .. (e + len) - 1 : before[k] # 0
    BY <1>4 DEF EndsAt
  <2> QED BY <2>1, <2>2
<1>9. Source(h) = IF h < len THEN before[e + h] ELSE 0
  BY DEF Source, len, e
<1>10. mem[q] = 0 <=> h >= len
  BY <1>1, <1>2, <1>6, <1>7, <1>8
<1>11. CopyGoes =>
         /\ h < Room
         /\ call.fn # "strncpy" => h < len
         /\ call.fn = "strlcpy" => h + 1 < call.n
  <2>1. CASE call.fn \in {"strcpy", "strcat"}
    <3>1. CopyGoes => mem[q] # 0
      BY <2>1 DEF CopyGoes
    <3>2. Room = len + 1
      BY <2>1 DEF Room, len
    <3> QED BY <1>1, <1>2, <1>10, <2>1, <3>1, <3>2
  <2>2. CASE call.fn = "strncpy"
    BY <1>1, <1>2, <2>2 DEF CopyGoes, Room
  <2>3. CASE call.fn = "strlcpy"
    <3>1. CopyGoes => mem[q] # 0 /\ n > 1
      BY <2>3 DEF CopyGoes
    <3>2. Room = call.n
      BY <2>3 DEF Room
    <3> QED BY <1>1, <1>2, <1>10, <2>3, <3>1, <3>2
  <2> QED BY <1>2, <2>1, <2>2, <2>3 DEF Copies
<1> QED BY <1>3, <1>6, <1>7, <1>9, <1>10, <1>11 DEF len, h

(* A turn copies the next byte.                                            *)
LEMMA CopyTurnKeeps ==
  ASSUME CallKnown, CopyInv, CopyTurn
  PROVE  CopyInv'
PROOF
<1> DEFINE len == SourceLength  h == Copied  F == From
           Old(a) == IF a \in F .. p - 1 THEN Source(a - F) ELSE before[a]
           New(a) == IF a \in F .. p THEN Source(a - F) ELSE before[a]
<1>1. /\ call.src \in Nat /\ call.n \in Nat /\ len \in Nat
      /\ F \in Nat /\ Room \in Nat /\ F + Room <= Size
  BY CopyAllowed DEF CopyInv
<1>2. /\ pc = "copy" /\ call.fn \in Copies \cup {"strcat"}
      /\ h \in Nat /\ p = F + h
      /\ q = call.src + (IF h < len THEN h ELSE len)
      /\ call.fn \in {"strncpy", "strlcpy"} => n = call.n - h
      /\ mem = [a \in Addresses |-> Old(a)]
  BY DEF CopyInv
<1>3. /\ mem[q] = Source(h) /\ (mem[q] = 0 <=> h >= len) /\ h < Room
      /\ call.fn # "strncpy" => h < len
      /\ call.fn = "strlcpy" => h + 1 < call.n
  BY CopyFacts DEF CopyTurn
<1>4. /\ mem' = [mem EXCEPT ![p] = mem[q]]
      /\ p' = p + 1 /\ n' = n - 1 /\ q' = (IF mem[q] = 0 THEN q ELSE q + 1)
      /\ before' = before /\ call' = call /\ pc' = pc
  BY DEF CopyTurn
<1>5. From' = F /\ SourceLength' = len /\ \A j : Source(j)' = Source(j)
  BY <1>4 DEF From, SourceLength, Source
<1>6. call.fn \in {"strncpy", "strlcpy"} => h < call.n
  BY <1>3 DEF Room
<1> HIDE DEF len, h, F
<1>7. p' = F + (h + 1) /\ Copied' = h + 1 /\ h + 1 \in Nat
  <2>1. p' = F + (h + 1) /\ p' - F = h + 1 /\ h + 1 \in Nat
    BY <1>1, <1>2, <1>4
  <2> QED BY <1>5, <2>1 DEF Copied
<1>8. q' = call.src + (IF h + 1 < len THEN h + 1 ELSE len)
  BY <1>1, <1>2, <1>3, <1>4
<1>9. p \in Addresses
  BY <1>1, <1>2, <1>3, SizeAssumption DEF Addresses
<1>10. mem' = [a \in Addresses |-> New(a)]
  <2>1. DOMAIN mem = Addresses /\ \A a \in Addresses : mem[a] = Old(a)
    BY <1>2
  <2>2. ASSUME NEW a \in Addresses PROVE mem'[a] = New(a)
    <3>1. CASE a = p
      <4>1. mem'[a] = Source(h)
        BY <1>3, <1>4, <2>1, <3>1
      <4>2. p \in F .. p /\ p - F = h
        BY <1>1, <1>2
      <4> QED BY <3>1, <4>1, <4>2
    <3>2. CASE a # p
      <4>1. mem'[a] = Old(a)
        BY <1>4, <2>1, <3>2
      <4>2. a \in F .. p - 1 <=> a \in F .. p
        BY <1>1, <1>2, <3>2, SizeAssumption DEF Addresses
      <4> QED BY <4>1, <4>2
    <3> QED BY <3>1, <3>2
  <2> HIDE DEF Old, New
  <2>3. mem' = [a \in Addresses |-> mem'[a]]
    BY <1>4, <2>1
  <2> QED BY <2>2, <2>3
<1>11. p' - 1 = p
  BY <1>1, <1>2, <1>4
<1>12. mem' = [a \in Addresses |-> IF a \in From' .. p' - 1 THEN Source(a - From)'
                                                            ELSE before'[a]]
  <2>1. \A a \in Addresses : Source(a - From)' = Source(a - F)
    BY <1>4, <1>5 DEF Source
  <2>2. \A a \in Addresses : New(a) = IF a \in From' .. p' - 1 THEN Source(a - From)'
                                                               ELSE before'[a]
    BY <1>4, <1>5, <1>11, <2>1
  <2> HIDE DEF New
  <2> QED BY <1>10, <2>2
<1>13. /\ pc' = "copy" /\ call'.fn \in Copies \cup {"strcat"}
       /\ Copied' \in Nat /\ p' = From' + Copied'
       /\ q' = call'.src + (IF Copied' < SourceLength' THEN Copied' ELSE SourceLength')
  BY <1>2, <1>4, <1>5, <1>7, <1>8
<1>14. call'.fn # "strncpy" => Copied' <= SourceLength'
  BY <1>1, <1>2, <1>3, <1>4, <1>5, <1>7
<1>15. call'.fn \in {"strncpy", "strlcpy"} => n' = call'.n - Copied' /\ Copied' <= call'.n
  BY <1>1, <1>2, <1>4, <1>6, <1>7
<1>16. call'.fn = "strlcpy" /\ call'.n > 0 => Copied' < call'.n
  BY <1>1, <1>2, <1>3, <1>4, <1>7
<1> QED BY <1>12, <1>13, <1>14, <1>15, <1>16 DEF CopyInv

(* All is copied: the bytes of W have been written from From on.           *)
Complete(W, len) ==
  /\ len \in Nat /\ DOMAIN W = 1 .. len
  /\ len = Copied + (IF Terminates THEN 1 ELSE 0)
  /\ \A j \in 1 .. len : W[j] = IF Terminates /\ j = len THEN 0 ELSE Source(j - 1)
  /\ From + len <= Size

(* Then memory is what it was with W written over it.                      *)
LEMMA CopyDone ==
  ASSUME CallKnown, CopyInv, CopyEnds, NEW W, NEW len, Complete(W, len)
  PROVE  mem' = Overwritten(before, From, W)
PROOF
<1> DEFINE h == Copied  F == From  M == Overwritten(before, F, W)
           Old(a) == IF a \in F .. p - 1 THEN Source(a - F) ELSE before[a]
<1>1. F \in Nat
  BY CopyAllowed DEF CopyInv
<1>2. h \in Nat /\ p = F + h /\ mem = [a \in Addresses |-> Old(a)]
  BY DEF CopyInv
<1>3. mem' = IF Terminates THEN [mem EXCEPT ![p] = 0] ELSE mem
  BY DEF CopyEnds
<1>4. /\ len \in Nat /\ DOMAIN W = 1 .. len
      /\ len = h + (IF Terminates THEN 1 ELSE 0)
      /\ \A j \in 1 .. len : W[j] = IF Terminates /\ j = len THEN 0 ELSE Source(j - 1)
      /\ F + len <= Size
  BY DEF Complete
<1>5. DOMAIN M = Addresses
  BY DEF Overwritten
<1>6. \A a \in Addresses : M[a] = IF a \in F .. F + len - 1 THEN W[a - F + 1] ELSE before[a]
  <2>1. \A a \in Addresses : a - F + 1 \in 1 .. len <=> a \in F .. F + len - 1
    BY <1>1, <1>4, SizeAssumption DEF Addresses
  <2>2. \A a \in Addresses :
          M[a] = IF a - F + 1 \in DOMAIN W THEN W[a - F + 1] ELSE before[a]
    BY DEF Overwritten
  <2> HIDE DEF M, F
  <2> QED BY <1>4, <2>1, <2>2
<1> HIDE DEF h, F, M
<1>7. DOMAIN mem = Addresses /\ \A a \in Addresses : mem[a] = Old(a)
  BY <1>2
<1>8. Terminates => p \in Addresses
  BY <1>1, <1>2, <1>4, SizeAssumption DEF Addresses
<1>9. ASSUME NEW a \in Addresses PROVE mem'[a] = M[a]
  <2>1. a \in Int
    BY SizeAssumption DEF Addresses
  <2>2. CASE Terminates /\ a = p
    <3>1. a \in F .. F + len - 1 /\ a - F + 1 = len /\ len \in 1 .. len
      BY <1>1, <1>2, <1>4, <2>2
    <3>2. M[a] = 0
      BY <1>4, <1>6, <2>2, <3>1
    <3>3. mem'[a] = 0
      BY <1>3, <1>7, <1>8, <2>2
    <3> QED BY <3>2, <3>3
  <2>3. CASE ~(Terminates /\ a = p)
    <3>1. mem'[a] = Old(a)
      BY <1>3, <1>7, <2>3
    <3>2. a \in F .. F + len - 1 <=> a \in F .. p - 1
      BY <1>1, <1>2, <1>4, <2>1, <2>3
    <3>3. CASE a \in F .. p - 1
      <4>1. a - F + 1 \in 1 .. len /\ a - F + 1 - 1 = a - F
        BY <1>1, <1>2, <1>4, <2>1, <3>3
      <4>2. ~(Terminates /\ a - F + 1 = len)
        BY <1>1, <1>2, <1>4, <2>1, <3>3
      <4>3. W[a - F + 1] = Source(a - F)
        <5> DEFINE j == a - F + 1
        <5>1. j \in 1 .. len /\ ~(Terminates /\ j = len) /\ j - 1 = a - F
          BY <1>1, <2>1, <4>1, <4>2
        <5> HIDE DEF j
        <5>2. W[j] = Source(j - 1)
          BY <1>4, <5>1
        <5> QED BY <5>1, <5>2 DEF j
      <4> QED BY <1>6, <3>1, <3>2, <3>3, <4>3
    <3>4. CASE a \notin F .. p - 1
      BY <1>6, <3>1, <3>2, <3>4
    <3> QED BY <3>3, <3>4
  <2> QED BY <2>2, <2>3
<1>10. DOMAIN mem' = Addresses
  BY <1>3, <1>7
<1> HIDE DEF Old
<1>11. mem' = [a \in Addresses |-> mem'[a]] /\ M = [a \in Addresses |-> M[a]]
  <2>1. mem' = [a \in Addresses |-> mem'[a]]
    BY <1>2, <1>3
  <2>2. M = [a \in Addresses |-> M[a]]
    BY DEF M, Overwritten
  <2> QED BY <2>1, <2>2
<1>12. mem' = M
  BY <1>9, <1>11
<1> QED BY <1>12 DEF M, F

(* Where copying starts nothing has been copied.                           *)
CopyStart ==
  /\ pc = "copy" /\ call.fn \in Copies \cup {"strcat"}
  /\ From \in Nat /\ SourceLength \in Nat /\ call.src \in Nat /\ call.n \in Nat
  /\ p = From /\ q = call.src
  /\ call.fn \in {"strncpy", "strlcpy"} => n = call.n
  /\ mem = before /\ before \in Memory

(* A copying call that is about to copy satisfies CopyInv: it has           *)
(* written nothing yet.                                                    *)
LEMMA CopyStarts == CopyStart => CopyInv
PROOF
<1> SUFFICES ASSUME CopyStart PROVE CopyInv
  OBVIOUS
<1> USE DEF CopyStart
<1>1. Copied = 0
  BY DEF Copied
<1> DEFINE New(a) == IF a \in From .. p - 1 THEN Source(a - From) ELSE before[a]
<1>2. mem = [a \in Addresses |-> New(a)]
  <2>1. \A a \in Addresses : New(a) = before[a]
    <3>1. From .. p - 1 = {}
      OBVIOUS
    <3> QED BY <3>1
  <2> HIDE DEF New
  <2>2. before = [a \in Addresses |-> before[a]]
    BY DEF Memory
  <2> QED BY <2>1, <2>2
<1> QED BY <1>1, <1>2 DEF CopyInv

(* What is appended a 0 to are the bytes of the source that were copied.   *)
LEMMA AppendComplete ==
  ASSUME CallKnown, call.fn \in Copies \cup {"strcat"}, Terminates,
         Copied \in Nat, Copied <= SourceLength, From + Copied + 1 <= Size,
         NEW X \in Seq(Bytes), Len(X) = Copied,
         \A j \in 1 .. Copied : X[j] = Str(before, call.src)[j]
  PROVE  Complete(Append(X, 0), Copied + 1)
PROOF
<1> DEFINE h == Copied  len == SourceLength  e == call.src  W == Append(X, 0)
<1>1. e \in Nat /\ IsString(before, e) /\ len \in Nat /\ From \in Nat
  BY CopyAllowed
<1>2. \A j \in 1 .. len : Str(before, e)[j] = before[e + j - 1]
  BY <1>1, StrFacts DEF CallKnown, SourceLength
<1>3. \A j \in Nat : Source(j) = IF j < len THEN before[e + j] ELSE 0
  BY DEF Source
<1>4. From + (h + 1) <= Size
  BY <1>1, SizeAssumption
<1>5. h \in Nat /\ h <= len /\ Len(X) = h /\ \A j \in 1 .. h : X[j] = Str(before, e)[j]
  OBVIOUS
<1>6. 0 \in Bytes
  BY DEF Bytes
<1> HIDE DEF h, len, e
<1>7. /\ DOMAIN W = 1 .. h + 1
      /\ \A j \in 1 .. h + 1 : W[j] = IF j = h + 1 THEN 0 ELSE X[j]
  BY <1>5, <1>6
<1> HIDE DEF W
<1>8. ASSUME NEW j \in 1 .. h + 1
      PROVE  W[j] = IF Terminates /\ j = h + 1 THEN 0 ELSE Source(j - 1)
  <2>1. CASE j = h + 1
    BY <1>7, <2>1
  <2>2. CASE j # h + 1
    <3>1. j \in 1 .. h /\ j \in 1 .. len /\ j - 1 \in Nat /\ j - 1 < len /\ e + j - 1 = e + (j - 1)
      BY <1>1, <1>5, <2>2
    <3>2. W[j] = before[e + (j - 1)]
      BY <1>2, <1>5, <1>7, <2>2, <3>1
    <3> QED BY <1>3, <2>2, <3>1, <3>2
  <2> QED BY <2>1, <2>2
<1> QED BY <1>4, <1>5, <1>7, <1>8 DEF Complete, W, h

(* strcpy, and what strcat does with it.                                   *)
LEMMA StringCopied ==
  ASSUME CallKnown, CopyInv, CopyEnds, call.fn \in {"strcpy", "strcat"}
  PROVE  mem' = Overwritten(before, From, Append(Str(before, call.src), 0))
PROOF
<1> DEFINE X == Str(before, call.src)
<1>1. /\ call.src \in Nat /\ IsString(before, call.src) /\ SourceLength \in Nat
      /\ From \in Nat /\ From + Room <= Size
  BY CopyAllowed DEF Copies
<1>2. X \in Seq(Bytes) /\ Len(X) = SourceLength
  BY <1>1, StrFacts DEF CallKnown, SourceLength
<1>3. Copied \in Nat /\ Copied <= SourceLength /\ (mem[q] = 0 <=> Copied >= SourceLength)
  BY CopyFacts DEF CopyInv
<1>4. mem[q] = 0 /\ Terminates
  BY DEF CopyEnds, CopyGoes, Terminates
<1>5. Copied = SourceLength
  BY <1>1, <1>3, <1>4
<1>6. Room = Copied + 1
  BY <1>5 DEF Room
<1>7. From + Copied + 1 <= Size
  BY <1>1, <1>3, <1>6, SizeAssumption
<1> HIDE DEF X
<1>8. Complete(Append(X, 0), Copied + 1)
  BY <1>2, <1>3, <1>4, <1>5, <1>7, AppendComplete DEF Copies, X
<1> QED BY <1>8, CopyDone DEF X

(* strcpy.                                                                 *)
LEMMA StrcpyResult ==
  ASSUME CallKnown, CopyInv, CopyEnds, call.fn = "strcpy"
  PROVE  StringsAgree'
PROOF
<1>1. mem' = Overwritten(before, From, Append(Str(before, call.src), 0))
  BY StringCopied
<1>2. From = call.dst
  BY DEF From
<1>3. result' = call.dst /\ before' = before /\ call' = call
  BY DEF CopyEnds
<1> QED BY <1>1, <1>2, <1>3 DEF StringsAgree

(* Two sequences one behind the other.                                     *)
LEMMA Concatenated ==
  ASSUME NEW s \in Seq(Bytes), NEW t \in Seq(Bytes)
  PROVE  /\ DOMAIN (s \o t) = 1 .. Len(s) + Len(t)
         /\ \A j \in 1 .. Len(s) + Len(t) :
              (s \o t)[j] = IF j <= Len(s) THEN s[j] ELSE t[j - Len(s)]
  OBVIOUS

(* strcat.                                                                 *)
LEMMA StrcatResult ==
  ASSUME CallKnown, CopyInv, CopyEnds, call.fn = "strcat"
  PROVE  StringsAgree'
PROOF
<1> DEFINE d == call.dst  D == Str(before, d)  len == Length(before, d)
           S == Append(Str(before, call.src), 0)  b == Len(S)  W == D \o S
<1>1. mem' = Overwritten(before, From, S)
  BY StringCopied
<1>2. From = d + len
  BY DEF From
<1>3. result' = d /\ before' = before /\ call' = call
  BY DEF CopyEnds
<1>4. /\ d \in Nat /\ len \in Nat /\ IsString(before, d)
      /\ call.src \in Nat /\ IsString(before, call.src) /\ before \in Memory
  BY CopyAllowed DEF CallKnown, Copies
<1>5. /\ D \in Seq(Bytes) /\ Len(D) = len /\ DOMAIN D = 1 .. len
      /\ \A j \in 1 .. len : D[j] = before[d + j - 1]
  BY <1>4, StrFacts
<1>6. S \in Seq(Bytes) /\ b \in Nat /\ DOMAIN S = 1 .. b
  <2>1. S = Str0(before, call.src)
    BY DEF Str0
  <2>2. S \in Seq(Bytes)
    BY <1>4, <2>1, StrFacts
  <2> QED BY <2>2
<1>7. DOMAIN W = 1 .. len + b /\ \A j \in 1 .. len + b : W[j] = IF j <= len THEN D[j] ELSE S[j - len]
  <2> HIDE DEF D, S, len
  <2>1. D \in Seq(Bytes) /\ Len(D) = len /\ S \in Seq(Bytes) /\ len \in Nat
    BY <1>4, <1>5, <1>6
  <2> QED BY <2>1, Concatenated
<1> HIDE DEF d, D, len, S, b, W
<1>8. ASSUME NEW a \in Addresses
      PROVE  (IF a - (d + len) + 1 \in DOMAIN S THEN S[a - (d + len) + 1] ELSE before[a])
             = IF a - d + 1 \in DOMAIN W THEN W[a - d + 1] ELSE before[a]
  <2>1. a \in Int
    BY SizeAssumption DEF Addresses
  <2>2. CASE a - (d + len) + 1 \in DOMAIN S
    <3>1. /\ a - d + 1 \in 1 .. len + b /\ ~(a - d + 1 <= len)
          /\ a - d + 1 - len = a - (d + len) + 1
      BY <1>4, <1>6, <2>1, <2>2
    <3> DEFINE j == a - d + 1
    <3>2. W[j] = S[j - len] /\ j - len = a - (d + len) + 1 /\ j \in DOMAIN W
      <4>1. j \in 1 .. len + b /\ ~(j <= len)
        BY <3>1
      <4>2. j - len = a - (d + len) + 1
        BY <1>4, <2>1
      <4> HIDE DEF j
      <4> QED BY <1>7, <4>1, <4>2
    <3> QED BY <2>2, <3>2
  <2>3. CASE a - d + 1 \in 1 .. len
    <3> DEFINE j == a - d + 1
    <3>1. j \in 1 .. len + b /\ j <= len /\ a = d + j - 1 /\ a - (d + len) + 1 \notin 1 .. b
      BY <1>4, <1>6, <2>1, <2>3
    <3>2. W[j] = before[d + j - 1]
      <4>1. j \in 1 .. len
        BY <2>3
      <4> HIDE DEF j
      <4> QED BY <1>5, <1>7, <3>1, <4>1
    <3> QED BY <1>6, <1>7, <3>1, <3>2
  <2>4. CASE a - d + 1 \notin 1 .. len /\ a - (d + len) + 1 \notin DOMAIN S
    <3>1. a - d + 1 \notin 1 .. len + b
      BY <1>4, <1>6, <2>1, <2>4
    <3> QED BY <1>7, <2>4, <3>1
  <2> QED BY <2>2, <2>3, <2>4
<1>9. Overwritten(before, d + len, S) = Overwritten(before, d, W)
  BY <1>8 DEF Overwritten
<1>10. mem' = Overwritten(before, d, W)
  BY <1>1, <1>2, <1>9
<1> QED BY <1>3, <1>10 DEF StringsAgree, d, D, S, W

(* strncpy.                                                                *)
LEMMA StrncpyResult ==
  ASSUME CallKnown, CopyInv, CopyEnds, call.fn = "strncpy"
  PROVE  StringsAgree'
PROOF
<1> DEFINE d == call.dst  e == call.src  k == call.n  S == Str(before, e)
           len == SourceLength
           W == [j \in 1 .. k |-> IF j <= Len(S) THEN S[j] ELSE 0]
<1>1. /\ d \in Nat /\ e \in Nat /\ k \in Nat /\ IsString(before, e) /\ len \in Nat
      /\ From \in Nat /\ From + Room <= Size
  BY CopyAllowed DEF Copies
<1>2. From = d /\ Room = k /\ ~Terminates
  BY DEF From, Room, Terminates
<1>3. Copied \in Nat /\ n = k - Copied /\ Copied <= k /\ ~(n > 0)
  BY DEF CopyInv, CopyEnds, CopyGoes
<1>4. Copied = k
  <2> HIDE DEF k
  <2> QED BY <1>1, <1>3
<1>5. Len(S) = len /\ \A j \in 1 .. len : S[j] = before[e + j - 1]
  BY <1>1, StrFacts DEF CallKnown, SourceLength
<1>6. \A j \in Nat : Source(j) = IF j < len THEN before[e + j] ELSE 0
  BY DEF Source
<1> HIDE DEF d, e, k, S, len
<1>7. ASSUME NEW j \in 1 .. k PROVE W[j] = Source(j - 1)
  <2>1. W[j] = IF j <= len THEN S[j] ELSE 0
    BY <1>5
  <2>2. CASE j <= len
    <3>1. j \in 1 .. len /\ j - 1 \in Nat /\ j - 1 < len /\ e + j - 1 = e + (j - 1)
      BY <1>1, <2>2
    <3> QED BY <1>5, <1>6, <2>1, <2>2, <3>1
  <2>3. CASE ~(j <= len)
    <3>1. j - 1 \in Nat /\ ~(j - 1 < len)
      BY <1>1, <2>3
    <3> QED BY <1>6, <2>1, <2>3, <3>1
  <2> QED BY <2>2, <2>3
<1>8. DOMAIN W = 1 .. k
  OBVIOUS
<1>9. mem' = Overwritten(before, From, W)
  <2> HIDE DEF W
  <2>1. Complete(W, k)
    BY <1>1, <1>2, <1>4, <1>7, <1>8 DEF Complete
  <2> QED BY <2>1, CopyDone
<1>10. result' = d /\ before' = before /\ call' = call
  BY DEF CopyEnds, d
<1>11. mem' = Overwritten(before, d, W)
  BY <1>2, <1>9
<1> HIDE DEF W
<1> QED BY <1>10, <1>11 DEF StringsAgree, d, e, k, S, W

(* strlcpy, which writes nothing if there is no room.                      *)
LEMMA StrlcpyResult ==
  ASSUME CallKnown, CopyInv, CopyEnds, call.fn = "strlcpy"
  PROVE  StringsAgree'
PROOF
<1> DEFINE d == call.dst  e == call.src  k == call.n  S == Str(before, e)
           len == SourceLength
<1>1. /\ d \in Nat /\ e \in Nat /\ k \in Nat /\ IsString(before, e) /\ len \in Nat
      /\ From \in Nat /\ From + Room <= Size
  BY CopyAllowed DEF Copies
<1>2. From = d /\ Room = k /\ (Terminates <=> k > 0)
  BY DEF From, Room, Terminates
<1>3. /\ Copied \in Nat /\ n = k - Copied /\ Copied <= k
      /\ p = From + Copied /\ (k > 0 => Copied < k) /\ Copied <= len
  BY DEF CopyInv
<1>4. /\ result' = p - d /\ before' = before /\ call' = call
      /\ mem' = IF Terminates THEN [mem EXCEPT ![p] = 0] ELSE mem
  BY DEF CopyEnds
<1>5. S \in Seq(Bytes) /\ Len(S) = len
  BY <1>1, StrFacts DEF CallKnown, SourceLength
<1>6. CASE k = 0
  <2>1. Copied = 0 /\ ~Terminates
    BY <1>1, <1>2, <1>3, <1>6
  <2>2. result' = 0
    BY <1>1, <1>2, <1>3, <1>4, <2>1
  <2>3. mem = before
    <3> DEFINE Old(a) == IF a \in From .. p - 1 THEN Source(a - From) ELSE before[a]
    <3>1. mem = [a \in Addresses |-> Old(a)]
      BY DEF CopyInv
    <3>2. From .. p - 1 = {}
      BY <1>1, <1>3, <2>1
    <3>3. \A a \in Addresses : Old(a) = before[a]
      BY <3>2
    <3> HIDE DEF Old
    <3>4. before = [a \in Addresses |-> before[a]]
      BY DEF CallKnown, Memory
    <3> QED BY <3>1, <3>3, <3>4
  <2> QED BY <1>4, <1>6, <2>1, <2>2, <2>3 DEF StringsAgree
<1>7. CASE k # 0
  <2> DEFINE X == Cut(S, k - 1)
  <2>1. ~(n > 1) \/ Copied >= len
    BY CopyFacts DEF CopyEnds, CopyGoes
  <2> HIDE DEF d, e, k, S, len
  <2>2. k - 1 \in Nat /\ Copied = (IF k - 1 < len THEN k - 1 ELSE len)
    BY <1>1, <1>3, <1>7, <2>1
  <2>3. /\ X \in Seq(Bytes) /\ Len(X) = Copied
        /\ \A j \in 1 .. Copied : X[j] = S[j]
    <3>1. /\ X \in Seq(Bytes) /\ Len(X) = (IF k - 1 < Len(S) THEN k - 1 ELSE Len(S))
          /\ \A j \in DOMAIN X : X[j] = S[j]
      BY <1>5, <2>2, CutFacts
    <3>2. DOMAIN X = 1 .. Copied
      <4> HIDE DEF X
      <4> QED BY <1>5, <2>2, <3>1
    <3> QED BY <1>5, <2>2, <3>1, <3>2
  <2>4. Terminates
    BY <1>1, <1>2, <1>7
  <2>5. From + Copied + 1 <= Size
    BY <1>1, <1>2, <1>3, <1>7, SizeAssumption
  <2> HIDE DEF X
  <2>6. Complete(Append(X, 0), Copied + 1)
    BY <1>3, <2>3, <2>4, <2>5, AppendComplete DEF Copies, S, e, len
  <2>7. mem' = Overwritten(before, d, Append(X, 0))
    BY <1>2, <2>6, CopyDone
  <2>8. result' = Len(X)
    BY <1>1, <1>2, <1>3, <1>4, <2>3
  <2> QED BY <1>4, <1>7, <2>7, <2>8 DEF StringsAgree, X, S, k, d, e
<1> QED BY <1>6, <1>7

-----------------------------------------------------------------------------
(* strtol.  A long is what it is modulo the size of a long.                *)

Modulus == 2 * LongHalf

(* Division with remainder.                                                *)
LEMMA LongDivision ==
  ASSUME NEW v \in Int, NEW d \in Nat \ {0}
  PROVE  /\ v \div d \in Int /\ v % d \in 0 .. d - 1
         /\ v = (v \div d) * d + (v % d)
  OBVIOUS

(* They differ by a multiple of d.                                        *)
Congruent(x, y, d) == \E l \in Int : y = x + l * d

(* The remainder does not see multiples.                                   *)
LEMMA LongRemainder ==
  ASSUME NEW x \in Int, NEW y \in Int, NEW d \in Nat \ {0}, Congruent(x, y, d)
  PROVE  y % d = x % d
PROOF
<1>0. PICK l \in Int : y = x + l * d
  BY DEF Congruent
<1> DEFINE a == x \div d  b == y \div d  r == x % d  s == y % d
<1>1. a \in Int /\ r \in 0 .. d - 1 /\ x = a * d + r
  BY LongDivision
<1>2. b \in Int /\ s \in 0 .. d - 1 /\ y = b * d + s
  BY LongDivision
<1> HIDE DEF a, b, r, s
<1> DEFINE z == a + l - b
<1>3. z \in Int /\ z * d = a * d + l * d - b * d
  BY <1>1, <1>2
<1>4. a * d \in Int /\ b * d \in Int /\ l * d \in Int /\ z * d \in Int
  BY <1>1, <1>2, <1>3
<1>5. z * d = s - r
  BY <1>0, <1>1, <1>2, <1>3, <1>4
<1>6. z = 0
  <2> HIDE DEF z
  <2>1. CASE z >= 1
    <3>1. z * d >= d
      BY <1>3, <2>1
    <3> QED BY <1>1, <1>2, <1>4, <1>5, <3>1
  <2>2. CASE z <= -1
    <3>1. z * d <= -d
      BY <1>3, <2>2
    <3> QED BY <1>1, <1>2, <1>4, <1>5, <3>1
  <2> QED BY <1>3, <2>1, <2>2
<1> HIDE DEF z
<1>7. s = r
  BY <1>1, <1>2, <1>5, <1>6
<1> QED BY <1>7 DEF r, s

(* Nor does what a long keeps of a number.                                 *)
LEMMA WrapMultiple ==
  ASSUME NEW x \in Int, NEW y \in Int, NEW l \in Int, y = x + l * Modulus
  PROVE  Wrap(y) = Wrap(x)
PROOF
<1>1. Modulus \in Nat \ {0} /\ LongHalf \in Int
  BY StringsAssumption DEF Modulus
<1>2. Wrap(x) = ((x + LongHalf) % Modulus) - LongHalf
  BY DEF Wrap, Modulus
<1>3. Wrap(y) = ((y + LongHalf) % Modulus) - LongHalf
  BY DEF Wrap, Modulus
<1> DEFINE a == x + LongHalf  b == y + LongHalf
<1>4. a \in Int /\ b \in Int /\ b = a + l * Modulus
  BY <1>1
<1> HIDE DEF a, b
<1>5. Congruent(a, b, Modulus)
  BY <1>4 DEF Congruent
<1>6. b % Modulus = a % Modulus
  BY <1>1, <1>4, <1>5, LongRemainder
<1> QED BY <1>2, <1>3, <1>6 DEF a, b

(* It differs from the number by a multiple.                               *)
LEMMA WrapIs ==
  ASSUME NEW x \in Int
  PROVE  Wrap(x) \in Int /\ \E l \in Int : Wrap(x) = x + l * Modulus
PROOF
<1>1. Modulus \in Nat \ {0} /\ LongHalf \in Int
  BY StringsAssumption DEF Modulus
<1> DEFINE a == x + LongHalf  l == a \div Modulus
<1>2. a \in Int
  BY <1>1
<1>3. l \in Int /\ a % Modulus \in Int /\ a = l * Modulus + (a % Modulus)
  <2> HIDE DEF a
  <2> QED BY <1>1, <1>2, LongDivision
<1>4. Wrap(x) = (a % Modulus) - LongHalf
  BY DEF Wrap, Modulus
<1> HIDE DEF l
<1>5. -l \in Int /\ (-l) * Modulus = -(l * Modulus) /\ l * Modulus \in Int
  BY <1>1, <1>3
<1>6. Wrap(x) = x + (-l) * Modulus
  <2> DEFINE M == l * Modulus  r == a % Modulus
  <2>1. M \in Int /\ r \in Int /\ x + LongHalf = M + r /\ (-l) * Modulus = -M
        /\ Wrap(x) = r - LongHalf
    BY <1>3, <1>4, <1>5
  <2> HIDE DEF M, r
  <2> QED BY <1>1, <2>1
<1>7. Wrap(x) \in Int
  BY <1>1, <1>3, <1>4
<1> QED BY <1>5, <1>6, <1>7

(* 0 fits.                                                                 *)
LEMMA WrapZero == Wrap(0) = 0
PROOF
<1>1. LongHalf \in Nat \ {0} /\ Modulus = LongHalf + LongHalf /\ Modulus \in Nat \ {0}
  BY StringsAssumption DEF Modulus
<1>2. LongHalf % Modulus = LongHalf
  <2> DEFINE a == LongHalf \div Modulus  r == LongHalf % Modulus
  <2>1. a \in Int /\ r \in 0 .. Modulus - 1 /\ LongHalf = a * Modulus + r
    BY <1>1, LongDivision
  <2> HIDE DEF a, r
  <2>2. a * Modulus \in Int /\ (a >= 1 => a * Modulus >= Modulus)
        /\ (a <= -1 => a * Modulus <= -Modulus)
    BY <1>1, <2>1
  <2>3. a = 0
    BY <1>1, <2>1, <2>2
  <2>4. LongHalf = r
    BY <1>1, <2>1, <2>3
  <2> QED BY <2>4 DEF r
<1>3. Wrap(0) = ((0 + LongHalf) % Modulus) - LongHalf
  BY DEF Wrap, Modulus
<1>4. 0 + LongHalf = LongHalf
  BY <1>1
<1> QED BY <1>1, <1>2, <1>3, <1>4

(* So it does not matter when it wraps.                                    *)
LEMMA WrapDigit ==
  ASSUME NEW v \in Int, NEW b \in Int, NEW g \in Int
  PROVE  Wrap(Wrap(v) * b + g) = Wrap(v * b + g)
PROOF
<1>1. Wrap(v) \in Int
  BY WrapIs
<1>2. PICK l \in Int : Wrap(v) = v + l * Modulus
  BY WrapIs
<1>3. Modulus \in Int
  BY StringsAssumption DEF Modulus
<1> DEFINE w == Wrap(v)  M == Modulus
<1> HIDE DEF w, M
<1>4. w \in Int /\ M \in Int /\ w = v + l * M
  BY <1>1, <1>2, <1>3 DEF w, M
<1>5. w * b + g = (v * b + g) + (l * b) * M
  BY <1>4
<1>6. w * b + g \in Int /\ v * b + g \in Int /\ l * b \in Int
  BY <1>4
<1> DEFINE x == v * b + g  y == w * b + g  h == l * b
<1> HIDE DEF x, y, h
<1>7. x \in Int /\ y \in Int /\ h \in Int /\ y = x + h * Modulus
  BY <1>5, <1>6 DEF x, y, h, M
<1>8. Wrap(y) = Wrap(x)
  BY <1>7, WrapMultiple
<1> QED BY <1>8 DEF x, y, w

(* The same for the sign.                                                  *)
LEMMA WrapMinus ==
  ASSUME NEW v \in Int
  PROVE  Wrap(-Wrap(v)) = Wrap(-v)
PROOF
<1>1. Wrap(v) \in Int
  BY WrapIs
<1>2. PICK l \in Int : Wrap(v) = v + l * Modulus
  BY WrapIs
<1>3. Modulus \in Int
  BY StringsAssumption DEF Modulus
<1> DEFINE x == -v  y == -Wrap(v)  h == -l
<1>4. x \in Int /\ y \in Int /\ h \in Int
  BY <1>1
<1>5. y = x + h * Modulus
  <2> DEFINE w == Wrap(v)  M == Modulus
  <2>1. w \in Int /\ M \in Int /\ w = v + l * M
    BY <1>1, <1>2, <1>3
  <2> HIDE DEF w, M
  <2>2. -w = -v + (-l) * M
    BY <2>1
  <2> QED BY <2>2 DEF w, M
<1> HIDE DEF x, y, h
<1>6. Wrap(y) = Wrap(x)
  BY <1>4, <1>5, WrapMultiple
<1> QED BY <1>6 DEF x, y

(* The recursive function that the value of the digits is defined by.      *)
Values(v, s, k, m, radix) ==
  v = [j \in k - 1 .. m |-> IF j < k THEN 0 ELSE v[j - 1] * radix + Digit(s[j])]

(* It exists.                                                              *)
LEMMA ValuesExist ==
  ASSUME NEW s, NEW k \in Nat \ {0}, NEW m \in Nat, NEW radix
  PROVE  \E v : Values(v, s, k, m, radix)
PROOF
<1> DEFINE Without == {h \in Nat : ~ \E v : Values(v, s, k, h, radix)}
<1> SUFFICES ASSUME Without # {} PROVE FALSE
  OBVIOUS
<1>1. PICK h \in Without : \A x \in Without : h <= x
  BY LeastNat
<1>2. h \in Nat /\ ~ \E v : Values(v, s, k, h, radix)
  OBVIOUS
<1>3. CASE h < k
  <2> DEFINE v == [j \in k - 1 .. h |-> 0]
  <2>1. \A j \in k - 1 .. h : j < k
    BY <1>2, <1>3
  <2>2. Values(v, s, k, h, radix)
    BY <2>1 DEF Values
  <2> HIDE DEF v
  <2> QED BY <1>2, <2>2
<1>4. CASE ~(h < k)
  <2>1. h - 1 \in Nat /\ ~(h <= h - 1)
    BY <1>2, <1>4
  <2>2. PICK g : Values(g, s, k, h - 1, radix)
    BY <1>1, <2>1
  <2> DEFINE v == [j \in k - 1 .. h |-> IF j < h THEN g[j]
                                        ELSE g[j - 1] * radix + Digit(s[j])]
  <2>3. ASSUME NEW j \in k - 1 .. h
        PROVE  v[j] = IF j < k THEN 0 ELSE v[j - 1] * radix + Digit(s[j])
    <3>1. ~(j < k) => j - 1 \in k - 1 .. h /\ j - 1 < h /\ v[j - 1] = g[j - 1]
      BY <1>2, <1>4
    <3>2. CASE j < h
      <4>1. j \in k - 1 .. h - 1
        BY <1>2, <3>2
      <4>2. g[j] = IF j < k THEN 0 ELSE g[j - 1] * radix + Digit(s[j])
        BY <2>2, <4>1 DEF Values
      <4> QED BY <3>1, <3>2, <4>2
    <3>3. CASE ~(j < h)
      <4>1. ~(j < k)
        BY <1>2, <1>4, <3>3
      <4>2. v[j] = g[j - 1] * radix + Digit(s[j])
        BY <3>3
      <4> QED BY <3>1, <4>1, <4>2
    <3> QED BY <3>2, <3>3
  <2>4. Values(v, s, k, h, radix)
    <3>1. v = [j \in k - 1 .. h |-> v[j]]
      OBVIOUS
    <3> HIDE DEF v
    <3> QED BY <2>3, <3>1 DEF Values
  <2> HIDE DEF v
  <2> QED BY <1>2, <2>4
<1> QED BY <1>3, <1>4

(* A digit's value is a number, 36 at most.                                *)
LEMMA DigitBound ==
  ASSUME NEW ch \in Int
  PROVE  Digit(ch) \in 0 .. 36 /\ Digit(0) = 36 /\ Digit(Zero) = 0
  BY DEF Digit, Zero

(* It is the only one, and does not depend on where it ends.               *)
LEMMA ValuesAgree ==
  ASSUME NEW s, NEW k \in Nat \ {0}, NEW l \in Nat, NEW m \in Nat, l <= m,
         NEW radix \in Int, NEW v, NEW w,
         Values(v, s, k, l, radix), Values(w, s, k, m, radix),
         \A j \in k .. l : s[j] \in Int
  PROVE  \A j \in k - 1 .. l : v[j] = w[j] /\ v[j] \in Int
PROOF
<1> DEFINE Bad == {j \in k - 1 .. l : ~(v[j] = w[j] /\ v[j] \in Int)}
<1> SUFFICES ASSUME Bad # {} PROVE FALSE
  OBVIOUS
<1>1. Bad \in SUBSET Nat
  OBVIOUS
<1>2. PICK j \in Bad : \A x \in Bad : j <= x
  BY <1>1, LeastNat
<1>3. j \in k - 1 .. l /\ j \in k - 1 .. m /\ ~(v[j] = w[j] /\ v[j] \in Int)
  OBVIOUS
<1>4. /\ v[j] = IF j < k THEN 0 ELSE v[j - 1] * radix + Digit(s[j])
      /\ w[j] = IF j < k THEN 0 ELSE w[j - 1] * radix + Digit(s[j])
  BY <1>3 DEF Values
<1>5. CASE j < k
  BY <1>3, <1>4, <1>5
<1>6. CASE ~(j < k)
  <2>1. j - 1 \in k - 1 .. l /\ ~(j <= j - 1) /\ j \in k .. l
    BY <1>3, <1>6
  <2>2. v[j - 1] = w[j - 1] /\ v[j - 1] \in Int
    BY <1>2, <2>1
  <2>3. v[j] = w[j]
    BY <1>4, <1>6, <2>2
  <2>4. Digit(s[j]) \in Int
    BY <2>1, DigitBound
  <2>5. v[j - 1] * radix + Digit(s[j]) \in Int
    BY <2>2, <2>4
  <2> QED BY <1>3, <1>4, <1>6, <2>3, <2>5
<1> QED BY <1>5, <1>6

(* The value is the last one of the function.                              *)
LEMMA DigitsValueDef ==
  ASSUME NEW s, NEW k \in Nat \ {0}, NEW m \in Nat, NEW radix
  PROVE  \E v : Values(v, s, k, m, radix) /\ DigitsValue(s, k, m, radix) = v[m]
PROOF
<1> DEFINE v == CHOOSE w : Values(w, s, k, m, radix)
<1>1. Values(v, s, k, m, radix)
  BY ValuesExist
<1>2. DigitsValue(s, k, m, radix) = v[m]
  BY DEF DigitsValue, Values
<1> QED BY <1>1, <1>2

(* The value of no digits, and of one more.                                *)
LEMMA DigitsValueFacts ==
  ASSUME NEW s, NEW k \in Nat \ {0}, NEW m \in Nat, k - 1 <= m, NEW radix \in Int,
         \A j \in k .. m + 1 : s[j] \in Int
  PROVE  /\ DigitsValue(s, k, k - 1, radix) = 0
         /\ DigitsValue(s, k, m, radix) \in Int
         /\ DigitsValue(s, k, m + 1, radix) =
              DigitsValue(s, k, m, radix) * radix + Digit(s[m + 1])
PROOF
<1>1. DigitsValue(s, k, k - 1, radix) = 0
  <2> DEFINE l == k - 1
  <2>1. l \in Nat /\ l \in k - 1 .. l /\ l < k
    OBVIOUS
  <2> HIDE DEF l
  <2>2. PICK v : Values(v, s, k, l, radix) /\ DigitsValue(s, k, l, radix) = v[l]
    BY <2>1, DigitsValueDef
  <2>3. v[l] = 0
    BY <2>1, <2>2 DEF Values
  <2> QED BY <2>2, <2>3 DEF l
<1>2. PICK v : Values(v, s, k, m, radix) /\ DigitsValue(s, k, m, radix) = v[m]
  BY DigitsValueDef
<1> DEFINE h == m + 1
<1>3. h \in Nat /\ m <= h /\ h - 1 = m /\ h \in k - 1 .. h /\ ~(h < k)
  OBVIOUS
<1>4. m \in k - 1 .. m /\ \A j \in k .. m : s[j] \in Int
  OBVIOUS
<1> HIDE DEF h
<1>5. PICK w : Values(w, s, k, h, radix) /\ DigitsValue(s, k, h, radix) = w[h]
  BY <1>3, DigitsValueDef
<1>6. v[m] = w[m] /\ v[m] \in Int
  BY <1>2, <1>3, <1>4, <1>5, ValuesAgree
<1>7. w[h] = w[h - 1] * radix + Digit(s[h])
  BY <1>3, <1>5 DEF Values
<1>8. DigitsValue(s, k, h, radix) = DigitsValue(s, k, m, radix) * radix + Digit(s[h])
  BY <1>2, <1>3, <1>5, <1>6, <1>7
<1> QED BY <1>1, <1>2, <1>6, <1>8 DEF h

-----------------------------------------------------------------------------
(* The text that strtol reads, with the 0 in its last place, and where it  *)
(* is.                                                                     *)
Text == Str0(before, call.dst)
TextEnd == Length(before, call.dst) + 1
Place == p - call.dst + 1

BlanksInv ==
  /\ pc = "blanks" /\ mem = before /\ base = call.c /\ val = 0
  /\ Place \in 1 .. TextEnd /\ p = call.dst + Place - 1
  /\ \A j \in 1 .. Place - 1 : Text[j] \in Blanks

PrefixInv ==
  /\ pc = "prefix" /\ mem = before /\ base = call.c /\ val = 0
  /\ neg = (Text[SignAt(Text)] = Minus)
  /\ Unsigned(Text) \in 1 .. TextEnd
  /\ p = call.dst + Unsigned(Text) - 1

DigitsInv ==
  LET k == DigitsAt(Text, call.c) IN
  /\ pc = "digits" /\ mem = before
  /\ neg = (Text[SignAt(Text)] = Minus)
  /\ base = Radix(Text, call.c) /\ base \in 0 .. 36
  /\ k \in 1 .. TextEnd /\ Place \in k .. TextEnd /\ p = call.dst + Place - 1
  /\ \A j \in k .. Place - 1 : Digit(Text[j]) < base
  /\ val = Wrap(DigitsValue(Text, k, Place - 1, base))

(* The text ends with its only 0.                                          *)
LEMMA TextFacts ==
  ASSUME CallKnown, call.fn = "strtol"
  PROVE  /\ call.dst \in Nat /\ call.c \in 0 .. 36
         /\ TextEnd \in Nat \ {0} /\ DOMAIN Text = 1 .. TextEnd /\ Len(Text) = TextEnd
         /\ \A j \in 1 .. TextEnd : /\ Text[j] = before[call.dst + j - 1]
                                 /\ Text[j] \in Int /\ (Text[j] = 0 <=> j = TextEnd)
PROOF
<1> DEFINE d == call.dst  len == Length(before, d)
<1>1. d \in Nat /\ call.c \in 0 .. 36 /\ IsString(before, d) /\ before \in Memory
  BY SizeAssumption DEF CallKnown, MayCall, Addresses, Scans, Comparisons, Copies
<1>2. EndsAt(before, d, d + len) /\ len \in Nat
  BY <1>1, StringEnds
<1>3. /\ Text \in Seq(Bytes) /\ Len(Text) = len + 1 /\ DOMAIN Text = 1 .. len + 1
      /\ \A j \in 1 .. len + 1 : Text[j] = before[d + j - 1]
  BY <1>1, StrFacts DEF Text
<1> HIDE DEF d, len
<1>4. ASSUME NEW j \in 1 .. len + 1 PROVE Text[j] \in Int /\ (Text[j] = 0 <=> j = len + 1)
  <2>1. Text[j] \in Bytes
    BY <1>3
  <2>2. CASE j = len + 1
    <3>1. d + j - 1 = d + len
      BY <1>1, <1>2, <2>2
    <3> QED BY <1>2, <1>3, <2>1, <2>2, <3>1 DEF EndsAt, Bytes
  <2>3. CASE j # len + 1
    <3>1. d + j - 1 \in d .. (d + len) - 1
      BY <1>1, <1>2, <2>3
    <3>2. before[d + j - 1] # 0
      BY <1>2, <3>1 DEF EndsAt
    <3>3. Text[j] = before[d + j - 1]
      BY <1>3
    <3> QED BY <2>1, <2>3, <3>2, <3>3 DEF Bytes
  <2> QED BY <2>2, <2>3
<1>5. TextEnd = len + 1
  BY DEF TextEnd, len, d
<1> QED BY <1>1, <1>2, <1>3, <1>4, <1>5 DEF d

(* One blank more.                                                         *)
LEMMA SkipBlankKeeps ==
  ASSUME CallKnown, call.fn = "strtol", BlanksInv, SkipBlank
  PROVE  BlanksInv'
PROOF
<1> DEFINE a == Place
<1>1. /\ call.dst \in Nat /\ TextEnd \in Nat
      /\ \A j \in 1 .. TextEnd : Text[j] = before[call.dst + j - 1] /\ (Text[j] = 0 <=> j = TextEnd)
  BY TextFacts
<1>2. /\ pc = "blanks" /\ mem = before /\ base = call.c /\ val = 0
      /\ a \in 1 .. TextEnd /\ p = call.dst + a - 1
      /\ \A j \in 1 .. a - 1 : Text[j] \in Blanks
  BY DEF BlanksInv
<1>3. /\ mem[p] \in Blanks /\ p' = p + 1
      /\ pc' = pc /\ mem' = mem /\ before' = before /\ call' = call
      /\ base' = base /\ val' = val
  BY DEF SkipBlank, memVars
<1>4. Text' = Text /\ TextEnd' = TextEnd
  BY <1>3 DEF Text, TextEnd
<1> HIDE DEF a
<1>5. Text[a] \in Blanks
  BY <1>1, <1>2, <1>3
<1>6. a # TextEnd
  BY <1>1, <1>2, <1>5 DEF Blanks
<1>7. p' - call.dst + 1 = a + 1 /\ a + 1 \in 1 .. TextEnd /\ p' = call.dst + (a + 1) - 1
  BY <1>1, <1>2, <1>3, <1>6
<1>8. Place' = a + 1
  BY <1>3, <1>7 DEF Place
<1>9. \A j \in 1 .. (a + 1) - 1 : Text[j] \in Blanks
  BY <1>2, <1>5
<1> QED BY <1>2, <1>3, <1>4, <1>7, <1>8, <1>9 DEF BlanksInv

(* The sign is in the first place that is not blank.                       *)
LEMMA SignKeeps ==
  ASSUME CallKnown, call.fn = "strtol", BlanksInv, Sign
  PROVE  PrefixInv'
PROOF
<1> DEFINE a == Place  T == Text
<1>1. /\ call.dst \in Nat /\ TextEnd \in Nat /\ DOMAIN T = 1 .. TextEnd
      /\ \A j \in 1 .. TextEnd : T[j] = before[call.dst + j - 1] /\ (T[j] = 0 <=> j = TextEnd)
  BY TextFacts
<1>2. /\ mem = before /\ base = call.c /\ val = 0
      /\ a \in 1 .. TextEnd /\ p = call.dst + a - 1
      /\ \A j \in 1 .. a - 1 : T[j] \in Blanks
  BY DEF BlanksInv
<1>3. /\ mem[p] \notin Blanks /\ pc' = "prefix"
      /\ p' = IF mem[p] \in {Plus, Minus} THEN p + 1 ELSE p
      /\ mem' = mem /\ before' = before /\ call' = call
      /\ base' = base /\ val' = val
  BY DEF Sign
<1>4. neg' = (mem[p] = Minus)
  BY DEF Sign
<1>5. Text' = T /\ TextEnd' = TextEnd
  BY <1>3 DEF Text, TextEnd
<1> HIDE DEF a, T
<1>6. T[a] = mem[p]
  BY <1>1, <1>2
<1>7. SignAt(T) = a
  <2> DEFINE S == {j \in DOMAIN T : T[j] \notin Blanks}
  <2>1. S \in SUBSET Int /\ a \in S
    BY <1>1, <1>2, <1>3, <1>6
  <2>2. \A j \in S : a <= j
    BY <1>1, <1>2
  <2>3. Min(S) = a
    <3> HIDE DEF S
    <3> QED BY <2>1, <2>2, MinIs
  <2> QED BY <2>3 DEF SignAt
<1>8. Unsigned(T) = IF mem[p] \in {Plus, Minus} THEN a + 1 ELSE a
  BY <1>6, <1>7 DEF Unsigned
<1>9. Unsigned(T) \in 1 .. TextEnd
  <2>1. mem[p] \in {Plus, Minus} => a # TextEnd
    BY <1>1, <1>2, <1>6 DEF Plus, Minus
  <2> QED BY <1>1, <1>2, <1>8, <2>1
<1>10. p' = call.dst + Unsigned(T) - 1
  BY <1>1, <1>2, <1>3, <1>8
<1>11. neg' = (T[SignAt(T)] = Minus)
  BY <1>4, <1>6, <1>7, Zenon
<1>12. (Unsigned(Text))' = Unsigned(T) /\ (SignAt(Text))' = SignAt(T)
  BY <1>5 DEF Unsigned, SignAt
<1>13. (neg = (Text[SignAt(Text)] = Minus))'
  BY <1>5, <1>11, <1>12, Zenon
<1> QED BY <1>2, <1>3, <1>5, <1>9, <1>10, <1>12, <1>13 DEF PrefixInv

(* The prefix settles the base.  The 0 of an octal number is its first     *)
(* digit.                                                                  *)
LEMMA PrefixKeeps ==
  ASSUME CallKnown, call.fn = "strtol", PrefixInv, Prefix
  PROVE  DigitsInv'
PROOF
<1> DEFINE T == Text  u == Unsigned(T)  b == call.c  k == DigitsAt(T, b)
           d == call.dst  r == Radix(T, b)
<1>1. /\ d \in Nat /\ b \in 0 .. 36 /\ TextEnd \in Nat /\ DOMAIN T = 1 .. TextEnd
      /\ \A j \in 1 .. TextEnd : /\ T[j] = before[d + j - 1] /\ T[j] \in Int
                              /\ (T[j] = 0 <=> j = TextEnd)
  BY TextFacts
<1>2. /\ mem = before /\ base = b /\ val = 0
      /\ u \in 1 .. TextEnd /\ p = d + u - 1
  BY DEF PrefixInv
<1>3. neg = (T[SignAt(T)] = Minus)
  BY DEF PrefixInv
<1>4. /\ pc' = "digits" /\ mem' = mem /\ before' = before /\ call' = call
      /\ neg' = neg /\ val' = val
      /\ IF base \in {0, 16} /\ mem[p] = Zero /\ mem[p + 1] = Ex
         THEN p' = p + 2 /\ base' = 16
         ELSE IF base = 0 /\ mem[p] = Zero
         THEN p' = p + 1 /\ base' = 8
         ELSE p' = p /\ base' = IF base = 0 THEN 10 ELSE base
  BY DEF Prefix
<1>5. Text' = T /\ TextEnd' = TextEnd
  BY <1>4 DEF Text, TextEnd
<1>6. /\ Hex(T, b) <=> (b \in {0, 16} /\ T[u] = Zero /\ T[u + 1] = Ex)
      /\ k = IF Hex(T, b) THEN u + 2 ELSE u
      /\ r = IF b # 0 THEN b ELSE IF Hex(T, b) THEN 16 ELSE IF T[u] = Zero THEN 8 ELSE 10
  BY DEF Hex, DigitsAt, Radix
<1>7. /\ SignAt(Text)' = SignAt(T) /\ (DigitsAt(Text, call.c))' = k
      /\ (Radix(Text, call.c))' = r
  BY <1>4, <1>5 DEF SignAt, DigitsAt, Radix, Hex, Unsigned
<1> HIDE DEF T, u, b, k, d, r
<1>8. T[u] = mem[p] /\ T[u] \in Int
  BY <1>1, <1>2
<1>9. T[u] = Zero => u + 1 \in 1 .. TextEnd /\ T[u + 1] = mem[p + 1]
  <2>1. T[u] = Zero => u # TextEnd
    BY <1>1, <1>2 DEF Zero
  <2>2. u # TextEnd => u + 1 \in 1 .. TextEnd /\ d + (u + 1) - 1 = p + 1
    BY <1>1, <1>2
  <2> QED BY <1>1, <1>2, <2>1, <2>2
<1>10. Hex(T, b) <=> (base \in {0, 16} /\ mem[p] = Zero /\ mem[p + 1] = Ex)
  BY <1>2, <1>6, <1>8, <1>9
<1>11. Hex(T, b) => u + 2 \in 1 .. TextEnd
  <2>1. Hex(T, b) => u + 1 \in 1 .. TextEnd /\ u + 1 # TextEnd
    BY <1>1, <1>6, <1>9 DEF Ex
  <2> QED BY <1>1, <1>2, <2>1
<1>12. k \in 1 .. TextEnd /\ r \in 0 .. 36 /\ base' = r
  BY <1>1, <1>2, <1>4, <1>6, <1>8, <1>10, <1>11
<1>13. p' = IF ~Hex(T, b) /\ b = 0 /\ T[u] = Zero THEN d + k ELSE d + k - 1
  BY <1>1, <1>2, <1>4, <1>6, <1>8, <1>10
<1>14. Place' = p' - d + 1
  BY <1>4 DEF Place, d
<1> DEFINE Prefixed(a) ==
             /\ a \in k .. TextEnd /\ p' = d + a - 1
             /\ \A j \in k .. a - 1 : Digit(T[j]) < r
             /\ 0 = Wrap(DigitsValue(T, k, a - 1, r))
<1>15. k \in Nat \ {0} /\ r \in Int /\ k - 1 \in Nat
  BY <1>1, <1>12
<1>16. ASSUME ~Hex(T, b) /\ b = 0 /\ T[u] = Zero
       PROVE  Prefixed(Place')
  <2>1. k = u /\ r = 8 /\ k + 1 \in k .. TextEnd /\ p' = d + (k + 1) - 1 /\ Place' = k + 1
    <3>1. k = u /\ r = 8
      BY <1>6, <1>16
    <3>2. u + 1 \in u .. TextEnd
      BY <1>1, <1>9, <1>12, <1>16, <3>1
    <3>3. p' = d + k
      BY <1>13, <1>16
    <3> HIDE DEF k, r, u
    <3> QED BY <1>1, <1>14, <1>15, <3>1, <3>2, <3>3
  <2>2. Digit(T[k]) = 0
    BY <1>16, <2>1, DigitBound
  <2>3. \A j \in k .. (k + 1) - 1 : Digit(T[j]) < r
    BY <1>12, <2>1, <2>2
  <2> DEFINE m == k - 1
  <2>4. m \in Nat /\ k - 1 <= m /\ m + 1 = k /\ \A j \in k .. m + 1 : T[j] \in Int
    BY <1>1, <1>12, <1>15
  <2> HIDE DEF m
  <2>5. /\ DigitsValue(T, k, k - 1, r) = 0
        /\ DigitsValue(T, k, m + 1, r) = DigitsValue(T, k, m, r) * r + Digit(T[m + 1])
    BY <1>15, <2>4, DigitsValueFacts
  <2>6. DigitsValue(T, k, k, r) = 0 * 8 + 0
    BY <2>1, <2>2, <2>4, <2>5 DEF m
  <2>7. (k + 1) - 1 = k /\ 0 * 8 + 0 = 0
    BY <1>15
  <2>8. 0 = Wrap(DigitsValue(T, k, (k + 1) - 1, r))
    BY <2>6, <2>7, WrapZero
  <2>9. Prefixed(k + 1)
    BY <2>1, <2>3, <2>8
  <2> QED BY <2>1, <2>9
<1>17. ASSUME ~(~Hex(T, b) /\ b = 0 /\ T[u] = Zero)
       PROVE  Prefixed(Place')
  <2>1. k \in k .. TextEnd /\ p' = d + k - 1 /\ Place' = k
    BY <1>1, <1>12, <1>13, <1>14, <1>17
  <2>2. \A j \in k .. k - 1 : Digit(T[j]) < r
    BY <1>15
  <2>3. DigitsValue(T, k, k - 1, r) = 0
    <3> DEFINE m == k - 1
    <3>1. PICK v : Values(v, T, k, m, r) /\ DigitsValue(T, k, m, r) = v[m]
      BY <1>15, DigitsValueDef
    <3>2. m \in k - 1 .. m /\ m < k
      BY <1>15
    <3>3. v[m] = 0
      <4> HIDE DEF m
      <4> QED BY <3>1, <3>2 DEF Values
    <3> QED BY <3>1, <3>3
  <2>4. 0 = Wrap(DigitsValue(T, k, k - 1, r))
    BY <2>3, WrapZero
  <2>5. Prefixed(k)
    BY <2>1, <2>2, <2>4
  <2> QED BY <2>1, <2>5
<1>18. Prefixed(Place')
  BY <1>16, <1>17
<1>19. neg' = (T[SignAt(T)] = Minus)
  BY <1>3, <1>4
<1>20. (neg = (Text[SignAt(Text)] = Minus))'
  BY <1>5, <1>7, <1>19, Zenon
<1>21. /\ Place' \in k .. TextEnd /\ p' = d + Place' - 1
       /\ \A j \in k .. Place' - 1 : Digit(T[j]) < r
       /\ val' = Wrap(DigitsValue(T, k, Place' - 1, r))
  BY <1>2, <1>4, <1>18
<1> QED BY <1>2, <1>4, <1>5, <1>7, <1>12, <1>20, <1>21 DEF DigitsInv, d

(* One digit more.                                                         *)
LEMMA DigitTurnKeeps ==
  ASSUME CallKnown, call.fn = "strtol", DigitsInv, DigitTurn
  PROVE  DigitsInv'
PROOF
<1> DEFINE T == Text  k == DigitsAt(T, call.c)  a == Place  d == call.dst
           V(m) == DigitsValue(T, k, m, base)
<1>1. /\ d \in Nat /\ TextEnd \in Nat
      /\ \A j \in 1 .. TextEnd : /\ T[j] = before[d + j - 1] /\ T[j] \in Int
                              /\ (T[j] = 0 <=> j = TextEnd)
  BY TextFacts
<1>2. /\ pc = "digits" /\ mem = before
      /\ base = Radix(T, call.c) /\ base \in 0 .. 36
      /\ k \in 1 .. TextEnd /\ a \in k .. TextEnd /\ p = d + a - 1
      /\ \A j \in k .. a - 1 : Digit(T[j]) < base
      /\ val = Wrap(V(a - 1))
  BY DEF DigitsInv
<1>3. neg = (T[SignAt(T)] = Minus)
  BY DEF DigitsInv
<1>4. /\ Digit(mem[p]) < base /\ p' = p + 1
      /\ val' = Wrap(val * base + Digit(mem[p]))
      /\ pc' = pc /\ mem' = mem /\ before' = before /\ call' = call
      /\ base' = base /\ neg' = neg
  BY DEF DigitTurn, IsDigit, memVars
<1>5. Text' = T /\ TextEnd' = TextEnd
  BY <1>4 DEF Text, TextEnd
<1>6. /\ SignAt(Text)' = SignAt(T) /\ (DigitsAt(Text, call.c))' = k
      /\ (Radix(Text, call.c))' = Radix(T, call.c)
  BY <1>4, <1>5 DEF SignAt, DigitsAt, Radix, Hex, Unsigned
<1>7. Place' = p' - d + 1
  BY <1>4 DEF Place, d
<1> HIDE DEF T, k, a, d, V
<1>8. T[a] = mem[p] /\ T[a] \in Int
  BY <1>1, <1>2
<1>9. a # TextEnd
  <2>1. T[a] # 0
    BY <1>2, <1>4, <1>8, DigitBound
  <2> QED BY <1>1, <1>2, <2>1
<1>10. Place' = a + 1 /\ a + 1 \in k .. TextEnd /\ p' = d + (a + 1) - 1 /\ a \in Int
  BY <1>1, <1>2, <1>4, <1>7, <1>9
<1>11. \A j \in k .. (a + 1) - 1 : Digit(T[j]) < base
  BY <1>2, <1>4, <1>8, <1>10
<1>12. V((a + 1) - 1) = V(a - 1) * base + Digit(T[a]) /\ V(a - 1) \in Int
  <2> DEFINE m == a - 1
  <2>1. /\ m \in Nat /\ k - 1 <= m /\ m + 1 = a /\ k \in Nat \ {0} /\ base \in Int
        /\ \A j \in k .. m + 1 : T[j] \in Int
    BY <1>1, <1>2
  <2> HIDE DEF m
  <2>2. /\ DigitsValue(T, k, m, base) \in Int
        /\ DigitsValue(T, k, m + 1, base) =
             DigitsValue(T, k, m, base) * base + Digit(T[m + 1])
    BY <2>1, DigitsValueFacts
  <2>3. (a + 1) - 1 = m + 1
    BY <1>10, <2>1
  <2> QED BY <2>1, <2>2, <2>3 DEF V, m
<1>13. val' = Wrap(V((a + 1) - 1))
  <2> DEFINE x == V(a - 1)  g == Digit(T[a])
  <2>1. x \in Int /\ g \in Int /\ base \in Int
    BY <1>2, <1>8, <1>12, DigitBound
  <2>2. val' = Wrap(Wrap(x) * base + g)
    BY <1>2, <1>4, <1>8
  <2>3. V((a + 1) - 1) = x * base + g
    BY <1>12
  <2> HIDE DEF x, g
  <2>4. Wrap(Wrap(x) * base + g) = Wrap(x * base + g)
    BY <2>1, WrapDigit
  <2> QED BY <2>2, <2>3, <2>4
<1>14. val' = Wrap(DigitsValue(T, k, (a + 1) - 1, base'))
  BY <1>4, <1>13 DEF V
<1>15. (neg = (Text[SignAt(Text)] = Minus))'
  BY <1>3, <1>4, <1>5, <1>6, Zenon
<1> QED BY <1>2, <1>4, <1>5, <1>6, <1>10, <1>11, <1>14, <1>15 DEF DigitsInv, d

(* The digits end where the numeral does.                                  *)
LEMMA StrtolResult ==
  ASSUME CallKnown, call.fn = "strtol", DigitsInv, DigitsEnd
  PROVE  StringsAgree'
PROOF
<1> DEFINE T == Text  b == call.c  k == DigitsAt(T, b)  a == Place  d == call.dst
           r == Radix(T, b)
           E == {j \in k .. Len(T) : Digit(T[j]) >= r}
           v == DigitsValue(T, k, Min(E) - 1, r)
           sign == T[SignAt(T)] = Minus
           value == IF sign THEN Wrap(-v) ELSE Wrap(v)
<1>1. /\ d \in Nat /\ TextEnd \in Nat /\ Len(T) = TextEnd
      /\ \A j \in 1 .. TextEnd : T[j] = before[d + j - 1] /\ T[j] \in Int
  BY TextFacts
<1>2. /\ mem = before /\ base = r /\ base \in 0 .. 36
      /\ k \in 1 .. TextEnd /\ a \in k .. TextEnd /\ p = d + a - 1
      /\ \A j \in k .. a - 1 : Digit(T[j]) < base
      /\ val = Wrap(DigitsValue(T, k, a - 1, r))
  BY DEF DigitsInv
<1>3. neg = sign
  BY Zenon DEF DigitsInv
<1>4. /\ ~(Digit(mem[p]) < base)
      /\ pc' = "idle" /\ mem' = mem /\ before' = before /\ call' = call /\ p' = p
      /\ result' = IF neg THEN Wrap(-val) ELSE val
  BY DEF DigitsEnd, IsDigit
<1>5. Numeral(T, b) = [value |-> value, end |-> Min(E) - 1]
  BY Zenon DEF Numeral
<1>6. Text' = T
  BY <1>4 DEF Text
<1> HIDE DEF T, k, a, b, d, r, E, sign
<1>7. T[a] = mem[p] /\ T[a] \in Int
  BY <1>1, <1>2
<1>8. Min(E) = a
  <2>1. ASSUME NEW j \in k .. TextEnd PROVE Digit(T[j]) \in Int
    <3>1. j \in 1 .. TextEnd
      BY <1>2
    <3>2. T[j] \in Int
      BY <1>1, <3>1
    <3> QED BY <3>2, DigitBound
  <2>2. E \in SUBSET Int /\ a \in E
    BY <1>1, <1>2, <1>4, <1>7, <2>1 DEF E
  <2>3. \A j \in E : a <= j
    BY <1>1, <1>2, <2>1 DEF E
  <2> QED BY <2>2, <2>3, MinIs
<1>9. v \in Int /\ val = Wrap(v)
  <2> DEFINE m == a - 1
  <2>1. /\ m \in Nat /\ k - 1 <= m /\ k \in Nat \ {0} /\ r \in Int
        /\ \A j \in k .. m + 1 : T[j] \in Int
    BY <1>1, <1>2
  <2>2. v = DigitsValue(T, k, m, r) /\ val = Wrap(DigitsValue(T, k, m, r))
    BY <1>2, <1>8
  <2> HIDE DEF m
  <2>3. DigitsValue(T, k, m, r) \in Int
    BY <2>1, DigitsValueFacts
  <2> QED BY <2>2, <2>3
<1> HIDE DEF v
<1>10. result' = value
  <2>1. CASE sign
    <3>1. result' = Wrap(-val)
      BY <1>3, <1>4, <2>1
    <3>2. Wrap(-Wrap(v)) = Wrap(-v)
      BY <1>9, WrapMinus
    <3> QED BY <1>9, <2>1, <3>1, <3>2
  <2>2. CASE ~sign
    BY <1>3, <1>4, <1>9, <2>2
  <2> QED BY <2>1, <2>2
<1> HIDE DEF value
<1>11. p' = d + (Min(E) - 1)
  BY <1>1, <1>2, <1>4, <1>8
<1>12. result' = Numeral(T, b).value /\ p' = d + Numeral(T, b).end
  BY <1>5, <1>10, <1>11
<1>13. Str0(mem', call'.dst) = T
  BY <1>2, <1>4 DEF Text, T
<1> QED BY <1>2, <1>4, <1>12, <1>13 DEF StringsAgree, d, b

-----------------------------------------------------------------------------
(* The invariant: no call yet; one of memmove or memset; one that has      *)
(* returned what it promises; or one that runs.                            *)
Fresh == call = NoCall /\ pc = "idle" /\ mem \in Memory /\ val = 0
OtherCall == call.fn \in {"memmove", "memset"} /\ pc \in {"idle", "movs", "stos"}
Finished == CallKnown /\ pc = "idle" /\ StringsAgree
Running ==
  /\ CallKnown
  /\ \/ ScanInv \/ CopyInv
     \/ call.fn = "strtol" /\ (BlanksInv \/ PrefixInv \/ DigitsInv)

StrInv == Fresh \/ OtherCall \/ Finished \/ Running

(* Any memory of a call is one.                                            *)
LEMMA MemoriesFact ==
  ASSUME NEW f \in StringFunctions, NEW m \in Memories[f]
  PROVE  m \in Memory
  BY StringsAssumption DEF Memory

(* Initially there is no call.                                             *)
LEMMA InitStr == StringInit => StrInv
PROOF
<1> SUFFICES ASSUME StringInit PROVE Fresh
  BY DEF StrInv
<1>1. PICK f \in StringFunctions : mem \in Memories[f]
  BY DEF StringInit
<1>2. mem \in Memory
  BY <1>1, MemoriesFact
<1> QED BY <1>2 DEF StringInit, Fresh

(* What has no call is fresh.                                              *)
LEMMA NotCalled ==
  ASSUME StrInv, call = NoCall
  PROVE  Fresh
PROOF
<1>1. call.fn = "none"
  BY DEF NoCall
<1> QED BY <1>1 DEF StrInv, OtherCall, Finished, Running, CallKnown, Single, Scans,
                    Comparisons, Copies

(* A call begins at its loop.                                              *)
LEMMA CallStringStr ==
  ASSUME Fresh, NEW f \in Single, NEW d \in Addresses, NEW s \in Addresses,
         NEW c \in Int, NEW k \in Nat, f = "strtol" => c \in 0 .. 36,
         CallString(f, d, s, c, k)
  PROVE  Running'
PROOF
<1>1. /\ mem \in Memory /\ val = 0
      /\ MayCall(mem, f, d, s, k)
      /\ call' = [fn |-> f, dst |-> d, src |-> s, c |-> c, n |-> k]
      /\ before' = mem /\ mem' = mem
      /\ p' = d /\ q' = s /\ n' = k /\ base' = c /\ val' = val
      /\ pc' = IF f = "strtol" THEN "blanks" ELSE IF f \in Copies THEN "copy" ELSE "scan"
  BY DEF Fresh, CallString
<1>2. call'.fn = f /\ call'.dst = d /\ call'.src = s /\ call'.c = c /\ call'.n = k
  BY <1>1
<1>3. CallKnown'
  BY <1>1, <1>2 DEF CallKnown
<1>4. d \in Nat /\ s \in Nat
  BY SizeAssumption DEF Addresses
<1>5. CASE f = "strtol"
  <2>1. IsString(mem, d)
    BY <1>1, <1>5 DEF MayCall, Scans, Comparisons, Copies
  <2>2. Length(mem, d) \in Nat
    BY <1>4, <2>1, StringEnds
  <2>3. Place' = 1 /\ TextEnd' = Length(mem, d) + 1
    BY <1>1, <1>2, <1>4 DEF Place, TextEnd
  <2>4. Place' \in 1 .. TextEnd' /\ p' = d + 1 - 1 /\ 1 .. Place' - 1 = {}
    BY <1>1, <1>4, <2>2, <2>3
  <2>5. BlanksInv'
    BY <1>1, <1>2, <1>5, <2>3, <2>4 DEF BlanksInv
  <2> QED BY <1>2, <1>3, <1>5, <2>5 DEF Running
<1>6. CASE f \in Copies
  <2>1. IsString(mem, s)
    BY <1>1, <1>6 DEF MayCall, Scans, Comparisons, Copies
  <2>2. Length(mem, s) \in Nat
    BY <1>4, <2>1, StringEnds
  <2>3. From' = d /\ SourceLength' = Length(mem, s)
    BY <1>1, <1>2, <1>6 DEF From, SourceLength, Copies
  <2>4. pc' = "copy"
    BY <1>1, <1>6 DEF Copies
  <2>5. CopyStart'
    BY <1>1, <1>2, <1>4, <1>6, <2>2, <2>3, <2>4 DEF CopyStart
  <2>6. CopyInv'
    BY <2>5, CopyStarts, PTL
  <2> QED BY <1>3, <2>6 DEF Running
<1>7. CASE f # "strtol" /\ f \notin Copies
  <2>1. Turns' = 0
    BY <1>1, <1>2, <1>4 DEF Turns
  <2>2. f \in Scans \cup Comparisons \cup {"strcat"}
    BY <1>7 DEF Single
  <2>3. p' = d + 0 /\ n' = k - 0 /\ s + 0 = s /\ 0 .. 0 - 1 = {}
    BY <1>1, <1>4
  <2>4. ScanInv'
    BY <1>1, <1>2, <1>7, <2>1, <2>2, <2>3 DEF ScanInv
  <2> QED BY <1>3, <2>4 DEF Running
<1> QED BY <1>5, <1>6, <1>7

(* One of the calls that Call allows.                                      *)
LEMMA CallStr ==
  ASSUME StrInv, Call
  PROVE  StrInv'
PROOF
<1>1. CASE \E f \in Scans \cup Comparisons \cup Copies \cup {"strcat"}, d \in Pointers :
             \E s \in IF f \in Scans THEN {d} ELSE Pointers,
                c \in IF f \in Searches THEN Chars ELSE {0},
                k \in IF f \in Counted THEN Counts ELSE {0} : CallString(f, d, s, c, k)
  <2>1. PICK f \in Scans \cup Comparisons \cup Copies \cup {"strcat"}, d \in Pointers :
             \E s \in IF f \in Scans THEN {d} ELSE Pointers,
                c \in IF f \in Searches THEN Chars ELSE {0},
                k \in IF f \in Counted THEN Counts ELSE {0} : CallString(f, d, s, c, k)
    BY <1>1
  <2>2. PICK s \in IF f \in Scans THEN {d} ELSE Pointers,
             c \in IF f \in Searches THEN Chars ELSE {0},
             k \in IF f \in Counted THEN Counts ELSE {0} : CallString(f, d, s, c, k)
    BY <2>1
  <2>3. f \in Single /\ f # "strtol"
    BY <2>1 DEF Single, Scans, Comparisons, Copies
  <2>4. d \in Addresses /\ s \in Addresses /\ c \in Int /\ k \in Nat
    BY <2>1, <2>2, StringsAssumption
  <2>5. Fresh
    BY <2>2, NotCalled DEF CallString
  <2> QED BY <2>2, <2>3, <2>4, <2>5, CallStringStr DEF StrInv
<1>2. CASE \E d \in Pointers, b \in Bases : CallString("strtol", d, d, b, 0)
  <2>1. PICK d \in Pointers, b \in Bases : CallString("strtol", d, d, b, 0)
    BY <1>2
  <2>2. "strtol" \in Single /\ d \in Addresses /\ b \in Int /\ b \in 0 .. 36 /\ 0 \in Nat
    BY <2>1, StringsAssumption DEF Single
  <2>3. Fresh
    BY <2>1, NotCalled DEF CallString
  <2> QED BY <2>1, <2>2, <2>3, CallStringStr DEF StrInv
<1>3. CASE \/ \E k \in 0 .. Size : \E d, s \in 0 .. Size - k : CallMemmove(d, s, k)
           \/ \E k \in 0 .. Size, c \in Chars : \E d \in 0 .. Size - k : CallMemset(d, c, k)
  <2>1. ASSUME NEW k \in 0 .. Size, NEW d \in 0 .. Size - k, NEW s \in 0 .. Size - k,
               CallMemmove(d, s, k)
        PROVE  OtherCall'
    <3>1. call'.fn = "memmove" /\ pc' = "movs"
      BY <2>1 DEF CallMemmove
    <3> QED BY <3>1 DEF OtherCall
  <2>2. ASSUME NEW k \in 0 .. Size, NEW c \in Chars, NEW d \in 0 .. Size - k,
               CallMemset(d, c, k)
        PROVE  OtherCall'
    <3>1. call'.fn = "memset" /\ pc' \in {"idle", "stos"}
      BY <2>2 DEF CallMemset
    <3> QED BY <3>1 DEF OtherCall
  <2>3. OtherCall'
    BY <1>3, <2>1, <2>2
  <2> QED BY <2>3 DEF StrInv
<1> QED BY <1>1, <1>2, <1>3 DEF Call

(* The condition of a turn depends on the call only.                       *)
LEMMA GoesStays ==
  ASSUME UNCHANGED <<call, before>>
  PROVE  \A j : GoesAt(j)' = GoesAt(j)
  BY DEF GoesAt

(* So does what is known of the call.                                      *)
LEMMA CallStays ==
  ASSUME CallKnown, UNCHANGED <<call, before>>
  PROVE  CallKnown'
  BY DEF CallKnown

(* A turn of a scan was taken because its condition held.                  *)
LEMMA ScanTurnStr ==
  ASSUME CallKnown, ScanInv, ScanTurn
  PROVE  ScanInv'
PROOF
<1> DEFINE h == Turns  d == call.dst
<1>1. /\ d \in Nat /\ call.src \in Nat /\ call.n \in Nat
      /\ h \in Nat /\ p = d + h /\ n = call.n - h /\ mem = before
      /\ call.fn \in Comparisons => q = call.src + h
      /\ GoesAt(h)
  BY ScanFacts DEF ScanTurn
<1>2. /\ pc = "scan" /\ call.fn \in Scans \cup Comparisons \cup {"strcat"}
      /\ call.fn \notin Comparisons => q = call.src
      /\ \A j \in 0 .. h - 1 : GoesAt(j)
  BY DEF ScanInv
<1>3. /\ p' = p + 1 /\ n' = n - 1 /\ q' = (IF call.fn \in Comparisons THEN q + 1 ELSE q)
      /\ pc' = pc /\ mem' = mem /\ before' = before /\ call' = call
  BY DEF ScanTurn, memVars
<1>4. Turns' = p' - d
  BY <1>3 DEF Turns
<1> HIDE DEF h, d
<1>5. /\ p' - d = h + 1 /\ p' = d + (h + 1) /\ n' = call.n - (h + 1) /\ h + 1 \in Nat
      /\ call.fn \in Comparisons => q' = call.src + (h + 1)
      /\ call.fn \notin Comparisons => q' = call.src
  BY <1>1, <1>2, <1>3
<1>6. \A j \in 0 .. (h + 1) - 1 : GoesAt(j)
  BY <1>1, <1>2
<1>7. \A j \in 0 .. (h + 1) - 1 : GoesAt(j)'
  BY <1>3, <1>6, GoesStays
<1>8. Turns' = h + 1
  BY <1>4, <1>5
<1> QED BY <1>1, <1>2, <1>3, <1>5, <1>7, <1>8 DEF ScanInv, d

(* A scan returns what the function promises; strcat goes on with the copy.*)
LEMMA ScanEndsStr ==
  ASSUME CallKnown, ScanInv, ScanEnds
  PROVE  StrInv'
PROOF
<1> DEFINE f == call.fn
<1>1. /\ ~Goes
      /\ IF f = "strcat" THEN pc' = "copy" ELSE pc' = "idle" /\ result' = Returned
      /\ mem' = mem /\ before' = before /\ call' = call
      /\ p' = p /\ q' = q /\ n' = n
  BY DEF ScanEnds
<1>2. mem = before /\ f \in Scans \cup Comparisons \cup {"strcat"}
  BY DEF ScanInv
<1>3. CallKnown'
  BY <1>1, CallStays
<1>4. CASE f = "strcat"
  <2>1. IsString(before, call.dst)
    BY <1>4 DEF CallKnown, MayCall, Scans, Comparisons, Copies
  <2>2. Turns = Length(before, call.dst)
    BY <1>1, <1>4, <2>1, ScanFacts, ScanString DEF GoesAt, Counted, Comparisons
  <2>3. p = From
    BY <1>4, <2>2, ScanFacts DEF From
  <2>4. q = call.src
    BY <1>4 DEF ScanInv, Comparisons
  <2>5. From \in Nat /\ SourceLength \in Nat /\ call.src \in Nat /\ call.n \in Nat
    BY <1>4, CopyAllowed
  <2>6. From' = From /\ SourceLength' = SourceLength
    BY <1>1 DEF From, SourceLength
  <2>7. before \in Memory
    BY DEF CallKnown
  <2>8. CopyStart'
    BY <1>1, <1>2, <1>4, <2>3, <2>4, <2>5, <2>6, <2>7 DEF CopyStart
  <2>9. CopyInv'
    BY <2>8, CopyStarts, PTL
  <2> QED BY <1>3, <2>9 DEF StrInv, Running
<1>5. CASE f # "strcat"
  <2>1. /\ pc' = "idle" /\ result' = Returned /\ mem' = before /\ before' = before
        /\ call' = call
    BY <1>1, <1>2, <1>5
  <2>2. StringsAgree'
    <3>1. CASE f = "strlen"
      BY <1>1, <2>1, <3>1, StrlenResult DEF StringsAgree
    <3>2. CASE f = "strnlen"
      BY <1>1, <2>1, <3>2, StrnlenResult DEF StringsAgree
    <3>3. CASE f = "strchr"
      BY <1>1, <2>1, <3>3, FindResult DEF StringsAgree
    <3>4. CASE f = "strfind"
      BY <1>1, <2>1, <3>4, FindResult DEF StringsAgree
    <3>5. CASE f = "memfind"
      BY <1>1, <2>1, <3>5, MemfindResult DEF StringsAgree
    <3>6. CASE f = "strcmp"
      BY <1>1, <2>1, <3>6, StrcmpResult DEF StringsAgree
    <3>7. CASE f = "strncmp"
      BY <1>1, <2>1, <3>7, StrcmpResult DEF StringsAgree
    <3>8. CASE f = "memcmp"
      BY <1>1, <2>1, <3>8, MemcmpResult DEF StringsAgree
    <3> QED BY <1>2, <1>5, <3>1, <3>2, <3>3, <3>4, <3>5, <3>6, <3>7, <3>8
            DEF Scans, Comparisons
  <2> QED BY <1>3, <2>1, <2>2 DEF StrInv, Finished
<1> QED BY <1>4, <1>5

(* A copy returns what the function promises.                              *)
LEMMA CopyEndsStr ==
  ASSUME CallKnown, CopyInv, CopyEnds
  PROVE  StrInv'
PROOF
<1>1. pc' = "idle" /\ before' = before /\ call' = call
  BY DEF CopyEnds
<1>2. CallKnown'
  BY <1>1, CallStays
<1>3. call.fn \in {"strcpy", "strncpy", "strlcpy", "strcat"}
  BY DEF CopyInv, Copies
<1>4. StringsAgree'
  BY <1>3, StrcpyResult, StrncpyResult, StrlcpyResult, StrcatResult
<1> QED BY <1>1, <1>2, <1>4 DEF StrInv, Finished

(* Each step of a call that runs.                                          *)
LEMMA RunningStr ==
  ASSUME Running,
         ScanTurn \/ ScanEnds \/ CopyTurn \/ CopyEnds
           \/ SkipBlank \/ Sign \/ Prefix \/ DigitTurn \/ DigitsEnd
  PROVE  StrInv'
PROOF
<1>1. CallKnown
  BY DEF Running
<1>2. \/ ScanInv \/ CopyInv
      \/ call.fn = "strtol" /\ (BlanksInv \/ PrefixInv \/ DigitsInv)
  BY DEF Running
<1>3. /\ ScanInv => pc = "scan"
      /\ CopyInv => pc = "copy"
      /\ BlanksInv => pc = "blanks"
      /\ PrefixInv => pc = "prefix"
      /\ DigitsInv => pc = "digits"
  BY DEF ScanInv, CopyInv, BlanksInv, PrefixInv, DigitsInv
<1>4. CASE ScanTurn
  <2>1. ScanInv
    BY <1>2, <1>3, <1>4 DEF ScanTurn
  <2>2. CallKnown'
    BY <1>1, <1>4, CallStays DEF ScanTurn, memVars
  <2> QED BY <1>1, <1>4, <2>1, <2>2, ScanTurnStr DEF StrInv, Running
<1>5. CASE ScanEnds
  <2>1. ScanInv
    BY <1>2, <1>3, <1>5 DEF ScanEnds
  <2> QED BY <1>1, <1>5, <2>1, ScanEndsStr
<1>6. CASE CopyTurn
  <2>1. CopyInv
    BY <1>2, <1>3, <1>6 DEF CopyTurn
  <2>2. CallKnown'
    BY <1>1, <1>6, CallStays DEF CopyTurn
  <2> QED BY <1>1, <1>6, <2>1, <2>2, CopyTurnKeeps DEF StrInv, Running
<1>7. CASE CopyEnds
  <2>1. CopyInv
    BY <1>2, <1>3, <1>7 DEF CopyEnds
  <2> QED BY <1>1, <1>7, <2>1, CopyEndsStr
<1>8. CASE SkipBlank
  <2>1. BlanksInv /\ call.fn = "strtol"
    BY <1>2, <1>3, <1>8 DEF SkipBlank
  <2>2. CallKnown' /\ call' = call
    BY <1>1, <1>8, CallStays DEF SkipBlank, memVars
  <2> QED BY <1>1, <1>8, <2>1, <2>2, SkipBlankKeeps DEF StrInv, Running
<1>9. CASE Sign
  <2>1. BlanksInv /\ call.fn = "strtol"
    BY <1>2, <1>3, <1>9 DEF Sign
  <2>2. CallKnown' /\ call' = call
    BY <1>1, <1>9, CallStays DEF Sign
  <2> QED BY <1>1, <1>9, <2>1, <2>2, SignKeeps DEF StrInv, Running
<1>10. CASE Prefix
  <2>1. PrefixInv /\ call.fn = "strtol"
    BY <1>2, <1>3, <1>10 DEF Prefix
  <2>2. CallKnown' /\ call' = call
    BY <1>1, <1>10, CallStays DEF Prefix
  <2> QED BY <1>1, <1>10, <2>1, <2>2, PrefixKeeps DEF StrInv, Running
<1>11. CASE DigitTurn
  <2>1. DigitsInv /\ call.fn = "strtol"
    BY <1>2, <1>3, <1>11 DEF DigitTurn
  <2>2. CallKnown' /\ call' = call
    BY <1>1, <1>11, CallStays DEF DigitTurn, memVars
  <2> QED BY <1>1, <1>11, <2>1, <2>2, DigitTurnKeeps DEF StrInv, Running
<1>12. CASE DigitsEnd
  <2>1. DigitsInv /\ call.fn = "strtol"
    BY <1>2, <1>3, <1>12 DEF DigitsEnd
  <2>2. CallKnown' /\ call' = call /\ pc' = "idle"
    BY <1>1, <1>12, CallStays DEF DigitsEnd
  <2> QED BY <1>1, <1>12, <2>1, <2>2, StrtolResult DEF StrInv, Finished
<1> QED BY <1>4, <1>5, <1>6, <1>7, <1>8, <1>9, <1>10, <1>11, <1>12

(* The steps of memmove and memset.                                        *)
LEMMA MemStepStr ==
  ASSUME StrInv, MemStep
  PROVE  StrInv'
PROOF
<1>1. pc \in {"movs", "stos"} /\ call' = call /\ pc' \in {"movs", "stos", "idle"}
  BY DEF MemStep, Movs, Stos, Return, Repeat
<1>2. OtherCall
  BY <1>1 DEF StrInv, Fresh, Finished, Running, ScanInv, CopyInv, BlanksInv, PrefixInv,
              DigitsInv
<1> QED BY <1>1, <1>2 DEF StrInv, OtherCall

(* Nothing happens.                                                        *)
LEMMA StutterStr ==
  ASSUME StrInv, UNCHANGED stringVars
  PROVE  StrInv'
PROOF
<1>1. UNCHANGED <<call, before, mem, pc, p, q, n, base, neg, val, result>>
  BY DEF stringVars, memVars, loopVars
<1> USE DEF StrInv
<1>2. CASE Fresh
  BY <1>1, <1>2 DEF Fresh
<1>3. CASE OtherCall
  BY <1>1, <1>3 DEF OtherCall
<1>4. CASE Finished
  BY <1>1, <1>4, CallStays DEF Finished, StringsAgree
<1>5. CASE Running
  <2>1. CallKnown'
    BY <1>1, <1>5, CallStays DEF Running
  <2>2. ScanInv => ScanInv'
    BY <1>1, GoesStays DEF ScanInv, Turns
  <2>3. CopyInv => CopyInv'
    BY <1>1 DEF CopyInv, Copied, From, Source, SourceLength
  <2>4. BlanksInv => BlanksInv'
    BY <1>1 DEF BlanksInv, Place, Text, TextEnd
  <2>5. PrefixInv => PrefixInv'
    BY <1>1 DEF PrefixInv, Text, TextEnd
  <2>6. DigitsInv => DigitsInv'
    BY <1>1 DEF DigitsInv, Place, Text, TextEnd
  <2> QED BY <1>1, <1>5, <2>1, <2>2, <2>3, <2>4, <2>5, <2>6 DEF Running
<1> QED BY <1>2, <1>3, <1>4, <1>5

(* What the functions of string.c return and leave in memory is what their *)
(* names say, for any memory, strings and counts (string.c:11-118, 214-284).*)
THEOREM StringsCorrect == StringSpec => []StringsAgree
PROOF
<1>1. StrInv /\ [StringNext]_stringVars => StrInv'
  <2> SUFFICES ASSUME StrInv, [StringNext]_stringVars PROVE StrInv'
    OBVIOUS
  <2>1. CASE Call
    BY <2>1, CallStr
  <2>2. CASE MemStep
    BY <2>2, MemStepStr
  <2>3. CASE \/ ScanTurn \/ ScanEnds \/ CopyTurn \/ CopyEnds
             \/ SkipBlank \/ Sign \/ Prefix \/ DigitTurn \/ DigitsEnd
    <3>1. pc \in {"scan", "copy", "blanks", "prefix", "digits"}
      BY <2>3 DEF ScanTurn, ScanEnds, CopyTurn, CopyEnds, SkipBlank, Sign, Prefix,
                  DigitTurn, DigitsEnd
    <3>2. Running
      BY <3>1 DEF StrInv, Fresh, OtherCall, Finished
    <3> QED BY <2>3, <3>2, RunningStr
  <2>4. CASE UNCHANGED stringVars
    BY <2>4, StutterStr
  <2> QED BY <2>1, <2>2, <2>3, <2>4 DEF StringNext
<1>2. StrInv => StringsAgree
  <2>1. ~(pc = "idle" /\ call # NoCall /\ call.fn \notin {"memmove", "memset"})
        => StringsAgree
    BY DEF StringsAgree
  <2>2. Running => pc # "idle"
    BY DEF Running, ScanInv, CopyInv, BlanksInv, PrefixInv, DigitsInv
  <2> QED BY <2>1, <2>2 DEF StrInv, Fresh, OtherCall, Finished
<1> QED BY InitStr, <1>1, <1>2, PTL DEF StringSpec

-----------------------------------------------------------------------------

(* The page allocator.  Its inductive invariant is its four invariants     *)
(* together.                                                               *)
IInv ==
  /\ TypeOK
  /\ ListThreadsFreePages
  /\ FreePagesUnreferenced
  /\ PpRefCountsReferences

-----------------------------------------------------------------------------
(* Counting modulo RefMod below the limit.                                 *)

(* A pp_ref in range is its own residue.                                   *)
LEMMA ModSmall ==
  ASSUME NEW m \in Nat, m > 1, NEW x \in 0 .. m - 1
  PROVE  x % m = x
  OBVIOUS

(* Whatever is stored in pp_ref is reduced to its range.                   *)
LEMMA ModRange ==
  ASSUME NEW m \in Nat, m > 1, NEW x \in Int
  PROVE  x % m \in 0 .. m - 1
  OBVIOUS

-----------------------------------------------------------------------------
(* Lists of pages.                                                         *)

(* What page_free's push does to a list.                                   *)
LEMMA PushProperties ==
  ASSUME NEW S, NEW s \in Seq(S), NEW pp \in S
  PROVE  /\ Push(pp, s) \in Seq(S)
         /\ Len(Push(pp, s)) = Len(s) + 1
         /\ Push(pp, s)[1] = pp
         /\ \A i \in 1 .. Len(s) : Push(pp, s)[i + 1] = s[i]
         /\ Elems(Push(pp, s)) = Elems(s) \cup {pp}
         /\ (NoRepeats(s) /\ pp \notin Elems(s)) => NoRepeats(Push(pp, s))
PROOF
<1> DEFINE t == Push(pp, s)
<1>1. /\ t \in Seq(S)
      /\ Len(t) = Len(s) + 1
      /\ t[1] = pp
      /\ \A i \in 1 .. Len(s) : t[i + 1] = s[i]
  BY DEF Push
<1> HIDE DEF t
<1>2. \A j \in 1 .. Len(t) : j = 1 \/ (j - 1 \in 1 .. Len(s) /\ t[j] = s[j - 1])
  BY <1>1
<1>3. Elems(t) = Elems(s) \cup {pp}
  <2>1. Elems(t) \subseteq Elems(s) \cup {pp}
    BY <1>1, <1>2, SMTT(30) DEF Elems
  <2>2. pp \in Elems(t)
    BY <1>1 DEF Elems
  <2>3. ASSUME NEW i \in 1 .. Len(s) PROVE s[i] \in Elems(t)
    <3>1. i + 1 \in 1 .. Len(t) /\ t[i + 1] = s[i]
      BY <1>1
    <3> QED BY <3>1 DEF Elems
  <2> QED BY <2>1, <2>2, <2>3 DEF Elems
<1>4. ASSUME NoRepeats(s), pp \notin Elems(s) PROVE NoRepeats(t)
  <2> SUFFICES ASSUME NEW i \in 1 .. Len(t), NEW j \in 1 .. Len(t), t[i] = t[j]
               PROVE  i = j
    BY DEF NoRepeats
  <2>1. CASE i = 1 \/ j = 1
    BY <2>1, <1>1, <1>2, <1>4 DEF Elems
  <2>2. CASE i # 1 /\ j # 1
    BY <2>2, <1>1, <1>2, <1>4 DEF NoRepeats
  <2> QED BY <2>1, <2>2
<1> QED BY <1>1, <1>3, <1>4 DEF t

(* What page_alloc's pop does to a list without repetitions.               *)
LEMMA PopProperties ==
  ASSUME NEW S, NEW s \in Seq(S), s # <<>>, NoRepeats(s)
  PROVE  /\ Tail(s) \in Seq(S)
         /\ Len(Tail(s)) = Len(s) - 1
         /\ \A i \in 1 .. Len(s) - 1 : Tail(s)[i] = s[i + 1]
         /\ s[1] \in Elems(s)
         /\ Elems(Tail(s)) = Elems(s) \ {s[1]}
         /\ NoRepeats(Tail(s))
PROOF
<1> DEFINE t == Tail(s)
<1>1. /\ t \in Seq(S)
      /\ Len(t) = Len(s) - 1
      /\ \A i \in 1 .. Len(s) - 1 : t[i] = s[i + 1]
      /\ Len(s) \in Nat /\ Len(s) > 0
  OBVIOUS
<1> HIDE DEF t
<1>2. s[1] \in Elems(s)
  BY <1>1 DEF Elems
<1>3. ASSUME NEW i \in 1 .. Len(t) PROVE t[i] \in Elems(s) \ {s[1]}
  <2>1. i + 1 \in 1 .. Len(s) /\ i + 1 # 1 /\ t[i] = s[i + 1] /\ 1 \in 1 .. Len(s)
    BY <1>1
  <2> QED BY <2>1 DEF Elems, NoRepeats
<1>4. ASSUME NEW i \in 1 .. Len(s), s[i] # s[1] PROVE s[i] \in Elems(t)
  <2>1. i - 1 \in 1 .. Len(t) /\ t[i - 1] = s[i]
    BY <1>1, <1>4
  <2> QED BY <2>1 DEF Elems
<1>5. Elems(t) = Elems(s) \ {s[1]}
  BY <1>3, <1>4 DEF Elems
<1>6. NoRepeats(t)
  BY <1>1 DEF NoRepeats
<1> QED BY <1>1, <1>2, <1>5, <1>6 DEF t

-----------------------------------------------------------------------------
(* The boot state.                                                         *)

(* page_init leaves the allocator in a state that satisfies the invariant. *)
LEMMA InitIInv == Init => IInv
PROOF
<1> SUFFICES ASSUME Init PROVE IInv
  OBVIOUS
<1> USE NullAssumption, RefModAssumption, InitialAssumption DEF Init
<1>1. chain \in Seq(Pages) /\ NoRepeats(chain) /\ Elems(chain) = Managed
  BY DEF NoRepeats, Managed
<1>2. ASSUME NEW i \in 1 .. Len(chain) - 1
      PROVE  pp_link[chain[i]] = chain[i + 1]
  <2>1. chain[i] \in Pages /\ i \in 1 .. Len(chain)
    BY <1>1
  <2>2. (CHOOSE j \in 1 .. Len(chain) - 1 : chain[j] = chain[i]) = i
    <3>1. \A j \in 1 .. Len(chain) - 1 : chain[j] = chain[i] => j = i
      BY <1>1 DEF NoRepeats
    <3> QED BY <3>1
  <2>3. pp_link[chain[i]] =
          chain[1 + CHOOSE j \in 1 .. Len(chain) - 1 : chain[j] = chain[i]]
    BY <2>1
  <2> QED BY <2>2, <2>3
<1>3. ASSUME NEW pp \in Pages, ~ \E i \in 1 .. Len(chain) - 1 : chain[i] = pp
      PROVE  pp_link[pp] = NULL
  BY <1>3
<1>4. ListThreadsFreePages
  <2>1. ASSUME NEW i \in 1 .. Len(chain)
        PROVE  pp_link[chain[i]] = IF i = Len(chain) THEN NULL ELSE chain[i + 1]
    <3>1. CASE i = Len(chain)
      <4>1. ~ \E j \in 1 .. Len(chain) - 1 : chain[j] = chain[i]
        BY <1>1, <3>1 DEF NoRepeats
      <4> QED BY <1>1, <1>3, <3>1, <4>1
    <3>2. CASE i # Len(chain)
      <4>1. i \in 1 .. Len(chain) - 1
        BY <1>1, <3>2
      <4> QED BY <1>2, <3>2, <4>1, SMTT(30)
    <3> QED BY <3>1, <3>2
  <2>2. ASSUME NEW pp \in Pages, pp \notin Elems(chain) PROVE pp_link[pp] = NULL
    <3>1. ~ \E i \in 1 .. Len(chain) - 1 : chain[i] = pp
      BY <1>1, <2>2 DEF Elems
    <3> QED BY <1>3, <3>1
  <2> QED BY <1>1, <2>1, <2>2 DEF ListThreadsFreePages
<1>5. TypeOK
  <2>1. ASSUME NEW pp \in Pages PROVE pp_link[pp] \in Pages \cup {NULL}
    <3>1. CASE \E i \in 1 .. Len(chain) - 1 : chain[i] = pp
      <4>1. PICK i \in 1 .. Len(chain) - 1 : chain[i] = pp
        BY <3>1
      <4>2. i + 1 \in 1 .. Len(chain) /\ pp_link[pp] = chain[i + 1]
        BY <1>1, <1>2, <4>1
      <4> QED BY <1>1, <4>2
    <3>2. CASE ~ \E i \in 1 .. Len(chain) - 1 : chain[i] = pp
      BY <1>3, <3>2
    <3> QED BY <3>1, <3>2
  <2>2. pp_link \in [Pages -> Pages \cup {NULL}]
    BY <2>1
  <2>3. page_free_list \in Pages \cup {NULL}
    BY <1>1
  <2>4. pp_ref \in [Pages -> 0 .. RefMod - 1] /\ users \in [Pages -> Nat]
    OBVIOUS
  <2> QED BY <1>1, <2>2, <2>3, <2>4 DEF TypeOK
<1>6. FreePagesUnreferenced
  <2>1. Managed \subseteq Pages
    BY DEF Managed, Elems
  <2> QED BY <1>1, <2>1 DEF FreePagesUnreferenced
<1>7. PpRefCountsReferences
  BY DEF PpRefCountsReferences
<1> QED BY <1>4, <1>5, <1>6, <1>7 DEF IInv

-----------------------------------------------------------------------------
(* One lemma for each operation.                                           *)

(* page_alloc: the head leaves the list, its link becomes NULL.            *)
LEMMA AllocIInv == IInv /\ page_alloc => IInv'
PROOF
<1> SUFFICES ASSUME IInv, page_alloc PROVE IInv'
  OBVIOUS
<1> USE NullAssumption DEF IInv
<1>0. page_free_list # NULL
  BY DEF page_alloc
<1>1. /\ page_free_list' = pp_link[page_free_list]
      /\ pp_link' = [pp_link EXCEPT ![page_free_list] = NULL]
      /\ chain' = Tail(chain)
      /\ UNCHANGED <<pp_ref, panicked, users>>
  BY DEF page_alloc
<1>2. chain # <<>> /\ page_free_list = chain[1] /\ NoRepeats(chain)
  BY <1>0 DEF ListThreadsFreePages
<1>3. chain \in Seq(Pages) /\ Len(chain) \in Nat \ {0}
  BY <1>2 DEF TypeOK
<1>4. /\ chain' \in Seq(Pages)
      /\ Len(chain') = Len(chain) - 1
      /\ \A i \in 1 .. Len(chain) - 1 : chain'[i] = chain[i + 1]
      /\ Elems(chain') = Elems(chain) \ {page_free_list}
      /\ NoRepeats(chain')
  BY <1>1, <1>2, <1>3, PopProperties
<1>5. page_free_list \in Pages
  BY <1>0 DEF TypeOK
<1>6. TypeOK'
  BY <1>1, <1>4, <1>5 DEF TypeOK
<1>7. FreePagesUnreferenced' /\ PpRefCountsReferences'
  BY <1>1, <1>4 DEF FreePagesUnreferenced, PpRefCountsReferences
<1>8. ListThreadsFreePages'
  <2>1. page_free_list' = IF chain' = <<>> THEN NULL ELSE chain'[1]
    <3>1. pp_link[chain[1]] = IF 1 = Len(chain) THEN NULL ELSE chain[1 + 1]
      <4>1. 1 \in 1 .. Len(chain)
        BY <1>3
      <4> QED BY <4>1 DEF ListThreadsFreePages
    <3>2. (chain' = <<>>) <=> (Len(chain) = 1)
      BY <1>3, <1>4
    <3>3. CASE Len(chain) # 1
      BY <1>1, <1>2, <1>3, <1>4, <3>1, <3>2, <3>3
    <3> QED BY <1>1, <1>2, <3>1, <3>2, <3>3
  <2>2. ASSUME NEW i \in 1 .. Len(chain')
        PROVE  pp_link'[chain'[i]] =
                 IF i = Len(chain') THEN NULL ELSE chain'[i + 1]
    <3>1. i + 1 \in 1 .. Len(chain) /\ i \in 1 .. Len(chain) - 1
      BY <1>3, <1>4
    <3>2. chain'[i] = chain[i + 1]
      BY <1>4, <3>1
    <3>3. chain[i + 1] # page_free_list /\ chain[i + 1] \in Pages
      BY <1>2, <1>3, <3>1 DEF NoRepeats
    <3>4. pp_link'[chain'[i]] = pp_link[chain[i + 1]]
      BY <1>1, <3>2, <3>3 DEF TypeOK
    <3>5. pp_link[chain[i + 1]] =
            IF i + 1 = Len(chain) THEN NULL ELSE chain[(i + 1) + 1]
      BY <3>1 DEF ListThreadsFreePages
    <3>6. CASE i = Len(chain')
      BY <1>3, <1>4, <3>4, <3>5, <3>6
    <3>7. CASE i # Len(chain')
      <4>1. i + 1 \in 1 .. Len(chain) - 1
        BY <1>3, <1>4, <3>7
      <4>2. chain'[i + 1] = chain[(i + 1) + 1] /\ i + 1 # Len(chain)
        BY <1>3, <1>4, <4>1
      <4> QED BY <3>4, <3>5, <3>7, <4>2
    <3> QED BY <3>6, <3>7
  <2>3. ASSUME NEW pp \in Pages, pp \notin Elems(chain')
        PROVE  pp_link'[pp] = NULL
    <3>1. CASE pp = page_free_list
      BY <1>1, <3>1 DEF TypeOK
    <3>2. CASE pp # page_free_list
      BY <1>1, <1>4, <2>3, <3>2 DEF TypeOK, ListThreadsFreePages
    <3> QED BY <3>1, <3>2
  <2> QED BY <1>4, <2>1, <2>2, <2>3 DEF ListThreadsFreePages
<1> QED BY <1>6, <1>7, <1>8

(* PushProperties for the list of the current state.                       *)
LEMMA PushOnChain ==
  ASSUME chain \in Seq(Pages), NEW pp \in Pages
  PROVE  /\ Push(pp, chain) \in Seq(Pages)
         /\ Len(Push(pp, chain)) = Len(chain) + 1
         /\ Push(pp, chain)[1] = pp
         /\ \A i \in 1 .. Len(chain) : Push(pp, chain)[i + 1] = chain[i]
         /\ Elems(Push(pp, chain)) = Elems(chain) \cup {pp}
         /\ (NoRepeats(chain) /\ pp \notin Elems(chain)) => NoRepeats(Push(pp, chain))
  BY PushProperties

(* The push of page_free keeps the list well formed.                       *)
LEMMA PushKeepsList ==
  ASSUME TypeOK, ListThreadsFreePages,
         NEW pp \in Pages, pp \notin Elems(chain),
         pp_link' = [pp_link EXCEPT ![pp] = page_free_list],
         page_free_list' = pp,
         chain' = Push(pp, chain)
  PROVE  /\ ListThreadsFreePages'
         /\ chain' \in Seq(Pages)
         /\ pp_link' \in [Pages -> Pages \cup {NULL}]
         /\ page_free_list' \in Pages
         /\ Elems(chain') = Elems(chain) \cup {pp}
PROOF
<1>1. /\ chain \in Seq(Pages) /\ NoRepeats(chain) /\ Len(chain) \in Nat
      /\ page_free_list = IF chain = <<>> THEN NULL ELSE chain[1]
  BY DEF TypeOK, ListThreadsFreePages
<1>2. /\ chain' \in Seq(Pages)
      /\ Len(chain') = Len(chain) + 1
      /\ chain'[1] = pp
      /\ \A i \in 1 .. Len(chain) : chain'[i + 1] = chain[i]
      /\ Elems(chain') = Elems(chain) \cup {pp}
      /\ NoRepeats(chain')
  <2> DEFINE t == Push(pp, chain)
  <2>1. /\ t \in Seq(Pages)
        /\ Len(t) = Len(chain) + 1
        /\ t[1] = pp
        /\ \A i \in 1 .. Len(chain) : t[i + 1] = chain[i]
        /\ Elems(t) = Elems(chain) \cup {pp}
        /\ NoRepeats(t)
    BY <1>1, PushOnChain
  <2>2. chain' = t
    OBVIOUS
  <2> HIDE DEF t
  <2> QED BY <2>1, <2>2
<1>3. pp_link' \in [Pages -> Pages \cup {NULL}]
  BY DEF TypeOK
<1>4. page_free_list' = IF chain' = <<>> THEN NULL ELSE chain'[1]
  BY <1>1, <1>2
<1>5. ASSUME NEW i \in 1 .. Len(chain')
      PROVE  pp_link'[chain'[i]] = IF i = Len(chain') THEN NULL ELSE chain'[i + 1]
  <2>1. CASE i = 1
    <3>1. pp_link'[chain'[i]] = page_free_list
      BY <1>2, <2>1 DEF TypeOK
    <3>2. CASE chain = <<>>
      BY <1>1, <1>2, <2>1, <3>1, <3>2
    <3>3. CASE chain # <<>>
      <4>1. 1 \in 1 .. Len(chain)
        BY <1>1, <3>3
      <4>2. chain'[1 + 1] = chain[1] /\ 1 # Len(chain')
        BY <1>1, <1>2, <4>1
      <4> QED BY <1>1, <2>1, <3>1, <3>3, <4>2
    <3> QED BY <3>2, <3>3
  <2>2. CASE i # 1
    <3>1. PICK j \in 1 .. Len(chain) : i = j + 1
      <4>1. i - 1 \in 1 .. Len(chain) /\ i = (i - 1) + 1
        BY <1>1, <1>2, <2>2
      <4> QED BY <4>1
    <3>2. chain'[i] = chain[j] /\ chain[j] \in Pages
      BY <1>1, <1>2, <3>1
    <3>3. chain[j] # pp
      BY DEF Elems
    <3>4. pp_link'[chain'[i]] = IF j = Len(chain) THEN NULL ELSE chain[j + 1]
      BY <3>2, <3>3 DEF TypeOK, ListThreadsFreePages
    <3>5. CASE j = Len(chain)
      BY <1>1, <1>2, <3>1, <3>4, <3>5
    <3>6. CASE j # Len(chain)
      <4>1. j + 1 \in 1 .. Len(chain) /\ i # Len(chain')
        BY <1>1, <1>2, <3>1, <3>6
      <4>2. chain'[i + 1] = chain[j + 1]
        BY <1>2, <3>1, <4>1
      <4> QED BY <3>4, <3>6, <4>1, <4>2
    <3> QED BY <3>5, <3>6
  <2> QED BY <2>1, <2>2
<1>6. ASSUME NEW qq \in Pages, qq \notin Elems(chain') PROVE pp_link'[qq] = NULL
  <2>1. qq # pp /\ qq \notin Elems(chain)
    BY <1>2, <1>6
  <2> QED BY <2>1 DEF TypeOK, ListThreadsFreePages
<1> QED BY <1>2, <1>3, <1>4, <1>5, <1>6 DEF ListThreadsFreePages

(* page_free: a page without references is pushed, one with references     *)
(* makes it panic and changes nothing.                                     *)
LEMMA FreeIInv == IInv /\ CallFree => IInv'
PROOF
<1> SUFFICES ASSUME IInv, NEW pp \in Pages, HandedOut(pp), page_free(pp)
             PROVE  IInv'
  BY DEF CallFree
<1> USE DEF IInv
<1>1. UNCHANGED <<pp_ref, users>> /\ pp \in Managed /\ pp \notin Elems(chain)
  BY DEF page_free, HandedOut
<1>2. CASE pp_ref[pp] # 0 \/ pp_link[pp] # NULL
  BY <1>1, <1>2 DEF page_free, FreeOrPanic, TypeOK, ListThreadsFreePages,
                    FreePagesUnreferenced, PpRefCountsReferences
<1>3. CASE pp_ref[pp] = 0 /\ pp_link[pp] = NULL
  <2>1. /\ pp_link' = [pp_link EXCEPT ![pp] = page_free_list]
        /\ page_free_list' = pp
        /\ chain' = Push(pp, chain)
        /\ UNCHANGED panicked
    BY <1>3 DEF page_free, FreeOrPanic
  <2>2. /\ ListThreadsFreePages'
        /\ chain' \in Seq(Pages)
        /\ pp_link' \in [Pages -> Pages \cup {NULL}]
        /\ page_free_list' \in Pages
        /\ Elems(chain') = Elems(chain) \cup {pp}
    BY <1>1, <2>1, PushKeepsList
  <2>3. TypeOK'
    BY <1>1, <2>1, <2>2 DEF TypeOK
  <2>4. FreePagesUnreferenced'
    BY <1>1, <1>3, <2>2 DEF FreePagesUnreferenced, PpRefCountsReferences
  <2>5. PpRefCountsReferences'
    BY <1>1 DEF PpRefCountsReferences
  <2> QED BY <2>2, <2>3, <2>4, <2>5
<1> QED BY <1>2, <1>3

(* page_decref of a page with a reference left over, and of one without:   *)
(* the decrement cannot wrap, and the page is freed by its last one.       *)
LEMMA DecrefIInv == IInv /\ CallDecref => IInv'
PROOF
<1> SUFFICES ASSUME IInv, NEW pp \in Pages, HandedOut(pp), users[pp] > 0,
                    page_decref(pp)
             PROVE  IInv'
  BY DEF CallDecref
<1> USE RefModAssumption DEF IInv
<1>1. pp \in Managed /\ pp \notin Elems(chain)
  BY DEF HandedOut
<1>2. /\ pp_ref[pp] \in 1 .. RefMod - 1
      /\ users[pp] = pp_ref[pp]
  BY DEF TypeOK, PpRefCountsReferences
<1>3. (pp_ref[pp] - 1) % RefMod = pp_ref[pp] - 1
  <2>1. pp_ref[pp] - 1 \in 0 .. RefMod - 1
    BY <1>2
  <2> QED BY <2>1, ModSmall
<1>4. /\ pp_ref' = [pp_ref EXCEPT ![pp] = pp_ref[pp] - 1]
      /\ users' = [users EXCEPT ![pp] = pp_ref[pp] - 1]
  BY <1>2, <1>3 DEF page_decref
<1>5. /\ pp_ref' \in [Pages -> 0 .. RefMod - 1]
      /\ users' \in [Pages -> Nat]
      /\ PpRefCountsReferences'
  <2>1. pp_ref[pp] - 1 \in 0 .. RefMod - 1 /\ pp_ref[pp] - 1 \in Nat
    BY <1>2
  <2> QED BY <1>4, <2>1 DEF TypeOK, PpRefCountsReferences
<1>6. CASE pp_ref[pp] - 1 # 0
  <2>1. UNCHANGED <<pp_link, page_free_list, panicked, chain>>
    BY <1>3, <1>6 DEF page_decref
  <2>2. TypeOK' /\ ListThreadsFreePages'
    BY <1>4, <1>5, <2>1 DEF TypeOK, ListThreadsFreePages
  <2>3. FreePagesUnreferenced'
    BY <1>1, <1>4, <2>1 DEF FreePagesUnreferenced, TypeOK
  <2> QED BY <1>5, <2>2, <2>3
<1>7. CASE pp_ref[pp] - 1 = 0
  <2>1. pp_link[pp] = NULL
    BY <1>1 DEF ListThreadsFreePages
  <2>2. /\ pp_link' = [pp_link EXCEPT ![pp] = page_free_list]
        /\ page_free_list' = pp
        /\ chain' = Push(pp, chain)
        /\ UNCHANGED panicked
    BY <1>3, <1>7, <2>1 DEF page_decref, FreeOrPanic
  <2>3. /\ ListThreadsFreePages'
        /\ chain' \in Seq(Pages)
        /\ pp_link' \in [Pages -> Pages \cup {NULL}]
        /\ page_free_list' \in Pages
        /\ Elems(chain') = Elems(chain) \cup {pp}
    BY <1>1, <2>2, PushKeepsList
  <2>4. TypeOK'
    BY <1>4, <1>5, <2>2, <2>3 DEF TypeOK
  <2>5. pp_ref'[pp] = 0 /\ users'[pp] = 0
    BY <1>4, <1>7 DEF TypeOK
  <2>6. FreePagesUnreferenced'
    BY <1>1, <1>4, <2>3, <2>5 DEF FreePagesUnreferenced, TypeOK
  <2> QED BY <1>5, <2>3, <2>4, <2>6
<1> QED BY <1>6, <1>7

(* pp->pp_ref++ below the limit does not wrap.                             *)
LEMMA IncrefIInv == IInv /\ CallIncref => IInv'
PROOF
<1> SUFFICES ASSUME IInv, NEW pp \in Pages, HandedOut(pp),
                    users[pp] < RefMod - 1, page_incref(pp)
             PROVE  IInv'
  BY DEF CallIncref
<1> USE RefModAssumption DEF IInv
<1>1. /\ pp_ref[pp] \in 0 .. RefMod - 1
      /\ pp_ref[pp] + 1 \in 0 .. RefMod - 1
      /\ users[pp] = pp_ref[pp]
      /\ pp \notin Elems(chain)
  BY DEF TypeOK, PpRefCountsReferences, HandedOut
<1>2. (pp_ref[pp] + 1) % RefMod = pp_ref[pp] + 1
  BY <1>1, ModSmall
<1>3. /\ pp_ref' = [pp_ref EXCEPT ![pp] = pp_ref[pp] + 1]
      /\ users' = [users EXCEPT ![pp] = pp_ref[pp] + 1]
      /\ UNCHANGED <<pp_link, page_free_list, panicked, chain>>
  BY <1>1, <1>2 DEF page_incref
<1>4. TypeOK'
  BY <1>1, <1>3 DEF TypeOK
<1>5. ListThreadsFreePages'
  BY <1>3 DEF ListThreadsFreePages
<1>6. FreePagesUnreferenced' /\ PpRefCountsReferences'
  BY <1>1, <1>3 DEF FreePagesUnreferenced, PpRefCountsReferences, TypeOK
<1> QED BY <1>4, <1>5, <1>6

(* Every step of the specification keeps the invariant.                    *)
LEMMA StepIInv == IInv /\ [Next]_vars => IInv'
PROOF
<1> SUFFICES ASSUME IInv, [Next]_vars PROVE IInv'
  OBVIOUS
<1>1. CASE page_alloc
  BY <1>1, AllocIInv
<1>2. CASE CallFree
  BY <1>2, FreeIInv
<1>3. CASE CallDecref
  BY <1>3, DecrefIInv
<1>4. CASE CallIncref
  BY <1>4, IncrefIInv
<1>5. CASE UNCHANGED vars
  BY <1>5 DEF vars, IInv, TypeOK, ListThreadsFreePages, FreePagesUnreferenced,
              PpRefCountsReferences
<1> QED BY <1>1, <1>2, <1>3, <1>4, <1>5 DEF Next

-----------------------------------------------------------------------------
(* The theorems.                                                           *)

(* The four invariants hold in every state.                                *)
THEOREM Invariance == Spec => []IInv
PROOF
<1>1. Init => IInv
  BY InitIInv
<1>2. IInv /\ [Next]_vars => IInv'
  BY StepIInv
<1> QED BY <1>1, <1>2, PTL DEF Spec

(* The allocator's variables keep their types; pp_ref never leaves the     *)
(* range of its counter.                                                   *)
THEOREM TypeCorrect == Spec => []TypeOK
PROOF
<1>1. IInv => TypeOK
  BY DEF IInv
<1> QED BY Invariance, <1>1, PTL

(* page_free_list and the pp_link fields always thread exactly the free    *)
(* pages, once each, and every other pp_link is NULL.                      *)
THEOREM ListCorrect == Spec => []ListThreadsFreePages
PROOF
<1>1. IInv => ListThreadsFreePages
  BY DEF IInv
<1> QED BY Invariance, <1>1, PTL

(* page_alloc never hands out a page that has references, nor one that     *)
(* page_init withheld.                                                     *)
THEOREM FreeCorrect == Spec => []FreePagesUnreferenced
PROOF
<1>1. IInv => FreePagesUnreferenced
  BY DEF IInv
<1> QED BY Invariance, <1>1, PTL

(* pp_ref is the number of references taken and not yet dropped.           *)
THEOREM RefCorrect == Spec => []PpRefCountsReferences
PROOF
<1>1. IInv => PpRefCountsReferences
  BY DEF IInv
<1> QED BY Invariance, <1>1, PTL

-----------------------------------------------------------------------------
(* The refinement: each step of the list is a step of PageStore, or none.  *)

(* The initial list is PageStore's initial free set.                       *)
LEMMA RefineInit == Init => Store!Init
  BY DEF Init, Managed, Store!Init

(* Popping the head takes one page out of the free set.                    *)
LEMMA RefineAlloc == IInv /\ page_alloc => Store!Next
PROOF
<1> SUFFICES ASSUME IInv, page_alloc PROVE Store!Next
  OBVIOUS
<1>1. chain' = Tail(chain) /\ UNCHANGED users
  BY DEF page_alloc
<1>2. /\ chain # <<>> /\ page_free_list = chain[1]
      /\ NoRepeats(chain) /\ chain \in Seq(Pages)
  BY DEF page_alloc, IInv, TypeOK, ListThreadsFreePages
<1>3. /\ chain[1] \in Elems(chain)
      /\ Elems(Tail(chain)) = Elems(chain) \ {chain[1]}
  BY <1>2, PopProperties
<1>4. Elems(chain)' = Elems(chain) \ {chain[1]}
  BY <1>1, <1>3 DEF Elems
<1>5. Store!Alloc
  BY <1>1, <1>2, <1>3, <1>4 DEF Store!Alloc
<1> QED BY <1>5 DEF Store!Next

(* The push adds one page to the free set.                                 *)
LEMMA PushAddsToElems ==
  ASSUME IInv, NEW pp \in Pages, chain' = Push(pp, chain)
  PROVE  Elems(chain)' = Elems(chain) \cup {pp}
PROOF
<1>1. chain \in Seq(Pages)
  BY DEF IInv, TypeOK
<1>2. Elems(Push(pp, chain)) = Elems(chain) \cup {pp}
  BY <1>1, PushOnChain
<1>3. Elems(chain)' = Elems(Push(pp, chain))
  BY DEF Elems
<1> QED BY <1>2, <1>3

(* page_free is a Free, or panics and changes nothing PageStore sees.      *)
LEMMA RefineFree == IInv /\ CallFree => Store!Next \/ UNCHANGED Store!vars
PROOF
<1> SUFFICES ASSUME IInv, NEW pp \in Pages, HandedOut(pp), page_free(pp)
             PROVE  Store!Next \/ UNCHANGED Store!vars
  BY DEF CallFree
<1>1. UNCHANGED users /\ pp \notin Elems(chain)
  BY DEF page_free, HandedOut
<1>2. CASE pp_ref[pp] # 0 \/ pp_link[pp] # NULL
  BY <1>1, <1>2 DEF page_free, FreeOrPanic, Store!vars
<1>3. CASE pp_ref[pp] = 0 /\ pp_link[pp] = NULL
  <2>1. chain' = Push(pp, chain)
    BY <1>3 DEF page_free, FreeOrPanic
  <2>2. Elems(chain)' = Elems(chain) \cup {pp}
    BY <2>1, PushAddsToElems
  <2>3. users[pp] = 0
    BY <1>3 DEF IInv, PpRefCountsReferences
  <2>4. Store!Free(pp)
    BY <1>1, <2>2, <2>3 DEF Store!Free
  <2> QED BY <2>4 DEF Store!Next
<1> QED BY <1>2, <1>3

(* page_decref is an Unref: it frees the page exactly when the reference   *)
(* it drops is the last.                                                   *)
LEMMA RefineDecref == IInv /\ CallDecref => Store!Next
PROOF
<1> SUFFICES ASSUME IInv, NEW pp \in Pages, HandedOut(pp), users[pp] > 0,
                    page_decref(pp)
             PROVE  Store!Next
  BY DEF CallDecref
<1>1. pp \notin Elems(chain) /\ pp_link[pp] = NULL
  BY DEF HandedOut, IInv, ListThreadsFreePages
<1>2. users[pp] = pp_ref[pp] /\ pp_ref[pp] - 1 \in 0 .. RefMod - 1
  BY RefModAssumption DEF IInv, TypeOK, PpRefCountsReferences
<1>3. (pp_ref[pp] - 1) % RefMod = pp_ref[pp] - 1
  BY <1>2, ModSmall, RefModAssumption
<1>4. users' = [users EXCEPT ![pp] = @ - 1]
  BY DEF page_decref
<1>5. Elems(chain)' = IF users[pp] = 1 THEN Elems(chain) \cup {pp} ELSE Elems(chain)
  <2>1. CASE pp_ref[pp] - 1 = 0
    <3>1. chain' = Push(pp, chain)
      BY <1>1, <1>3, <2>1 DEF page_decref, FreeOrPanic
    <3>2. Elems(chain)' = Elems(chain) \cup {pp}
      BY <3>1, PushAddsToElems
    <3> QED BY <1>2, <2>1, <3>2
  <2>2. CASE pp_ref[pp] - 1 # 0
    <3>1. UNCHANGED chain
      BY <1>3, <2>2 DEF page_decref
    <3> QED BY <1>2, <2>2, <3>1
  <2> QED BY <2>1, <2>2
<1>6. Store!Unref(pp)
  BY <1>1, <1>4, <1>5 DEF Store!Unref
<1> QED BY <1>6 DEF Store!Next

(* The increment is a Ref.                                                 *)
LEMMA RefineIncref == CallIncref => Store!Next
  BY DEF CallIncref, page_incref, HandedOut, Store!Next, Store!Ref

(* The linked list with its counters implements the abstract allocator.    *)
THEOREM Implementation == Spec => ImplementsPageStore
PROOF
<1>1. Init => Store!Init
  BY RefineInit
<1>2. IInv /\ [Next]_vars => [Store!Next]_(Store!vars)
  <2> SUFFICES ASSUME IInv, [Next]_vars
               PROVE  Store!Next \/ UNCHANGED Store!vars
    OBVIOUS
  <2>1. CASE page_alloc
    BY <2>1, RefineAlloc
  <2>2. CASE CallFree
    BY <2>2, RefineFree
  <2>3. CASE CallDecref
    BY <2>3, RefineDecref
  <2>4. CASE CallIncref
    BY <2>4, RefineIncref
  <2>5. CASE UNCHANGED vars
    BY <2>5 DEF vars, Store!vars
  <2> QED BY <2>1, <2>2, <2>3, <2>4, <2>5 DEF Next
<1> QED BY Invariance, <1>1, <1>2, PTL DEF Spec, ImplementsPageStore, Store!Spec
=============================================================================
