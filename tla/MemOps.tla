------------------------------- MODULE MemOps -------------------------------
(***************************************************************************)
(* memmove and memset of lib/string.c.  Both come down to one repeated     *)
(* string instruction, which moves or stores bytes or words of four bytes, *)
(* upwards, or downwards if the direction flag is set.  A step is one      *)
(* repetition.                                                             *)
(***************************************************************************)
EXTENDS Integers

CONSTANT Size   \* bytes of memory

ASSUME SizeAssumption == Size \in Nat

WORD == 4
Addresses == 0 .. Size - 1
Bytes == 0 .. 255

VARIABLES
  mem,
  before,   \* history: the memory when the function was called
  call,     \* the call: its function and arguments
  edi, esi, ecx,
  width,    \* of the instruction: 1 or WORD
  df,       \* the direction flag
  pc        \* "idle", "movs", "stos" or "cld"

regs == <<edi, esi, ecx, width, df>>
memVars == <<mem, before, call, regs, pc>>

NoCall == [fn |-> "none", dst |-> 0, src |-> 0, c |-> 0, n |-> 0]

RegsInit == edi = 0 /\ esi = 0 /\ ecx = 0 /\ width = 1 /\ df = FALSE

MemoryInit ==
  /\ mem \in [Addresses -> Bytes]
  /\ before = mem
  /\ call = NoCall
  /\ RegsInit
  /\ pc = "idle"

(* The code has both tests after s and d have been moved to the ends, if   *)
(* they are: for an n that WORD divides, that changes nothing.             *)
Wide(S, n) == \A x \in S \cup {n} : x % WORD = 0

(* A slip: what lies below is always moved upwards.                        *)
Backward_Never(dst, src, n) == FALSE

Backward(dst, src, n) == src < dst /\ src + n > dst

CallMemmove(dst, src, n) ==
  /\ pc = "idle"
  /\ call' = [fn |-> "memmove", dst |-> dst, src |-> src, c |-> 0, n |-> n]
  /\ before' = mem
  /\ df' = Backward(dst, src, n)
  /\ width' = IF Wide({dst, src}, n) THEN WORD ELSE 1
  /\ ecx' = IF Wide({dst, src}, n) THEN n \div WORD ELSE n
  /\ edi' = IF df' THEN dst + n - width' ELSE dst
  /\ esi' = IF df' THEN src + n - width' ELSE src
  /\ pc' = "movs"
  /\ UNCHANGED mem

CallMemset(v, c, n) ==
  /\ pc = "idle"
  /\ call' = [fn |-> "memset", dst |-> v, src |-> v, c |-> c, n |-> n]
  /\ before' = mem
  /\ width' = IF Wide({v}, n) THEN WORD ELSE 1
  /\ ecx' = IF Wide({v}, n) THEN n \div WORD ELSE n
  /\ edi' = v
  /\ esi' = v
  /\ df' = FALSE
  /\ pc' = IF n = 0 THEN "idle" ELSE "stos"
  /\ UNCHANGED mem

Here == edi .. edi + width - 1

Step(x) == IF df THEN x - width ELSE x + width

Repeat ==
  /\ edi' = Step(edi)
  /\ ecx' = ecx - 1
  /\ UNCHANGED <<before, call, width, df>>

Movs ==
  /\ pc = "movs" /\ ecx > 0
  /\ mem' = [a \in Addresses |->
               IF a \in Here THEN mem[esi + (a - edi)] ELSE mem[a]]
  /\ esi' = Step(esi)
  /\ Repeat
  /\ UNCHANGED pc

(* What is in byte k of eax, if it is used.                                *)
Value(k) == call.c % 256

Stos ==
  /\ pc = "stos" /\ ecx > 0
  /\ mem' = [a \in Addresses |->
               IF a \in Here THEN Value(a - edi) ELSE mem[a]]
  /\ Repeat
  /\ UNCHANGED <<esi, pc>>

(* memmove clears the flag, if it had set it.                              *)
Return ==
  /\ pc \in {"movs", "stos"} /\ ecx = 0
  /\ df' = FALSE
  /\ pc' = "idle"
  /\ UNCHANGED <<mem, before, call, edi, esi, ecx, width>>

MemCall ==
  \/ \E n \in 0 .. Size : \E dst, src \in 0 .. Size - n : CallMemmove(dst, src, n)
  \/ \E n \in 0 .. Size, c \in Int : \E v \in 0 .. Size - n : CallMemset(v, c, n)

MemStep == Movs \/ Stos \/ Return

MemSpec == MemoryInit /\ [][MemCall \/ MemStep]_memVars

-----------------------------------------------------------------------------
Result(a) ==
  IF a \notin call.dst .. call.dst + call.n - 1 THEN before[a]
  ELSE IF call.fn = "memmove" THEN before[call.src + (a - call.dst)]
  ELSE call.c % 256

Ours == {"none", "memmove", "memset"}

(* memmove moves what was there, however source and destination overlap,   *)
(* memset fills, nothing else changes (string.c:121-169), and gcc's code   *)
(* finds the direction flag clear.                                         *)
MemoryMoved ==
  pc = "idle" /\ call.fn \in Ours =>
    (\A a \in Addresses : mem[a] = Result(a)) /\ ~df
=============================================================================
