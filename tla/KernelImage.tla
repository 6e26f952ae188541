---------------------------- MODULE KernelImage ----------------------------
(***************************************************************************)
(* The stabs that the compiler, the assembler and the linker (external)    *)
(* write for a program, as they do with -gstabs for this kernel.           *)
(*                                                                         *)
(* A program is a sequence of files, one behind the other in memory.  A    *)
(* file has a start, a name and functions, or, in assembly, lines of its   *)
(* own; a function has a start, a name, a number of parameters and lines;  *)
(* a line has an address, a number, and the file it is from, which for     *)
(* inlined code is a header.                                               *)
(***************************************************************************)
EXTENDS Integers, SequencesExt

Nameless == ""
StandardInput == "{standard input}"

Stab(t, v, d, n) == [type |-> t, value |-> v, desc |-> d, name |-> n]

(* Where the file of the code changes, an SOL comes before the line.       *)
OneLine(lines, base, file, k) ==
  (IF lines[k].file # (IF k = 1 THEN file ELSE lines[k - 1].file)
   THEN <<Stab("SOL", lines[k].at, 0, lines[k].file)>> ELSE <<>>)
  \o <<Stab("SLINE", lines[k].at - base, lines[k].line, Nameless)>>

LineStabs(lines, base, file) ==
  FlattenSeq([k \in DOMAIN lines |-> OneLine(lines, base, file, k)])

FunctionStabs(f, file) ==
  <<Stab("FUN", f.start, 0, f.name)>>
  \o [k \in 1 .. f.params |-> Stab("PSYM", 4 + 4 * k, 0, "parameter")]
  \o LineStabs(f.lines, f.start, file)

(* The header file a function ends in is where the next one begins.        *)
FileBefore(f, k) ==
  IF k = 1 THEN f.name ELSE Last(f.functions[k - 1].lines).file

Code(f) ==
  FlattenSeq([k \in DOMAIN f.functions |->
                FunctionStabs(f.functions[k], FileBefore(f, k))])

FileStabs(f, end) ==
  IF f.asm
  THEN <<Stab("SO", f.start, 0, StandardInput)>>
       \o LineStabs(f.lines, 0, StandardInput)
  ELSE <<Stab("SO", f.start, 0, f.name), Stab("OPT", 0, 0, Nameless)>>
       \o Code(f) \o <<Stab("SO", end, 0, Nameless)>>

EndOf(program, k, end) ==
  IF k = Len(program) THEN end ELSE program[k + 1].start

(* Entry 0 is a header.                                                    *)
StabsOf(program, end) ==
  LET all == <<Stab("UNDF", 0, 0, Nameless)>> \o
             FlattenSeq([k \in DOMAIN program |->
                           FileStabs(program[k], EndOf(program, k, end))])
  IN  [k \in 0 .. Len(all) - 1 |-> all[k + 1]]

-----------------------------------------------------------------------------
(* What the compiler and the linker make of a program they link: lines,    *)
(* functions and files in the order of their addresses.  A function has a  *)
(* line where it begins, and more than one byte; a file without functions  *)
(* has no code, and what is linked last is from C.                         *)
ALine == [at : Nat, line : Nat, file : STRING]

AFunction ==
  [name : STRING, start : Nat, params : Nat, lines : Seq(ALine)]

AFile ==
  [name : STRING, asm : BOOLEAN, start : Nat \ {0},
   functions : Seq(AFunction), lines : Seq(ALine)]

InOrder(lines) ==
  \A j, k \in DOMAIN lines : j < k => lines[j].at <= lines[k].at

IsFunction(f) ==
  /\ InOrder(f.lines)
  /\ f.lines # <<>> /\ f.lines[1].at = f.start

(* Of functions, or files, that begin at different addresses none begins   *)
(* at the address right behind that where another one does.                *)
Apart(addresses) == \A x \in addresses : x + 1 \notin addresses

IsFile(f) ==
  IF f.asm
  THEN InOrder(f.lines)
  ELSE /\ \A k \in DOMAIN f.functions : IsFunction(f.functions[k])
       /\ \A j, k \in DOMAIN f.functions :
            j < k => f.functions[j].start < f.functions[k].start
       /\ f.functions # <<>> => f.functions[1].start = f.start
       /\ Apart({f.functions[k].start : k \in DOMAIN f.functions})

IsProgram(program, end) ==
  /\ program \in Seq(AFile) /\ program # <<>>
  /\ end \in Nat
  /\ \A k \in DOMAIN program :
       /\ IsFile(program[k])
       /\ program[k].start <= end
       /\ ~program[k].asm /\ program[k].functions = <<>> =>
            program[k].start = EndOf(program, k, end)
  /\ \A j, k \in DOMAIN program : j < k => program[j].start <= program[k].start
  /\ Apart({program[k].start : k \in DOMAIN program} \cup {end})
  /\ ~Last(program).asm

(* Where a call in the program may return to: into code that has a line,   *)
(* or, if it is the last instruction and never returns, behind all of it.  *)
IsReturnAddress(x, program, end) ==
  \/ x = end
  \/ \E k \in DOMAIN program :
       /\ program[k].start <= x /\ x < EndOf(program, k, end)
       /\ program[k].asm =>
            program[k].lines # <<>> /\ program[k].lines[1].at <= x
=============================================================================
