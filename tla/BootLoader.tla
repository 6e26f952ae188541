----------------------------- MODULE BootLoader -----------------------------
(***************************************************************************)
(* boot/boot.S and boot/main.c: from the first instruction of the boot     *)
(* sector to the jump to the kernel's entry.  The keyboard controller and  *)
(* the disk are busy for as long as they like after every command; a loop  *)
(* that polls one is an action that waits for it.  A device that is busy   *)
(* loses what it is told, and has nothing to give.                         *)
(*                                                                         *)
(* What matters of a byte is where it comes from: a byte of the kernel     *)
(* file is its offset there, and others have names.                        *)
(***************************************************************************)
EXTENDS Integers, Sequences

CONSTANTS
  SECTSIZE,
  HeaderSectors, \* 8 in the code: a page
  ELFHDR,        \* where the first page of the kernel file goes
  Megabyte,      \* the place value of address line 20
  MemSize,
  start,         \* where the BIOS loads the boot sector
  Images         \* kernel files: [magic, segments, length]

ASSUME BootAssumption ==
  /\ SECTSIZE \in Nat \ {0} /\ HeaderSectors \in Nat
  /\ Megabyte \in Nat \ {0} /\ MemSize \in Nat
  /\ start \in Nat /\ start + SECTSIZE <= ELFHDR
  /\ ELFHDR \in Nat /\ ELFHDR % SECTSIZE = 0
  /\ ELFHDR + HeaderSectors * SECTSIZE <= MemSize

Loader == -1     \* a byte of the boot sector
Zero == -2       \* a byte that is 0
Unknown == -3    \* any other byte

VARIABLES
  image,         \* the kernel file on the disk
  mem,           \* physical memory
  pc,
  a20, kbcBusy,  \* address line 20, and the controller it hangs on, with
  toPort,        \*   whether the next byte it gets is for that line
  diskBusy, requested, \* the disk, and the sector it was asked for
  ph,            \* segments read or being read; the header counts as none
  pa, end_pa, offset   \* of readseg

deviceVars == <<a20, kbcBusy, toPort, diskBusy, requested>>
readVars == <<ph, pa, end_pa, offset>>
bootVars == <<image, mem, pc, deviceVars, readVars>>

BootInit ==
  /\ image \in Images
  /\ mem = [a \in 0 .. MemSize - 1 |->
              IF a \in start .. start + SECTSIZE - 1 THEN Loader ELSE Unknown]
  /\ pc = "seta20_1"
  /\ a20 = FALSE /\ kbcBusy \in BOOLEAN /\ toPort = FALSE
  /\ diskBusy \in BOOLEAN /\ requested = 0
  /\ ph = 0 /\ pa = 0 /\ end_pa = 0 /\ offset = 0

-----------------------------------------------------------------------------
(* The machine.                                                            *)

(* Without line 20 an address reaches memory without that bit.             *)
Physical(a) ==
  IF a20 THEN a ELSE (a \div (2 * Megabyte)) * 2 * Megabyte + (a % Megabyte)

(* Byte k of a sector; the kernel file starts at sector 1, and the rest of *)
(* the disk is zero (kern/Makefrag).                                       *)
DiskByte(s, k) ==
  LET b == (s - 1) * SECTSIZE + k
  IN  IF s = 0 THEN Loader ELSE IF b < image.length THEN b ELSE Zero

ControllerReady ==
  /\ kbcBusy /\ kbcBusy' = FALSE
  /\ UNCHANGED <<image, mem, pc, a20, toPort, diskBusy, requested, readVars>>

DiskReady ==
  /\ diskBusy /\ diskBusy' = FALSE
  /\ UNCHANGED <<image, mem, pc, a20, kbcBusy, toPort, requested, readVars>>

Devices == ControllerReady \/ DiskReady

-----------------------------------------------------------------------------
(* boot.S.                                                                 *)

(* A slip: the controller is not waited for.                               *)
kbcReady_Never == TRUE

kbcReady == ~kbcBusy

seta20_1 ==
  /\ pc = "seta20_1" /\ kbcReady
  /\ toPort' = (toPort \/ ~kbcBusy)
  /\ kbcBusy' = TRUE
  /\ pc' = "seta20_2"
  /\ UNCHANGED <<image, mem, a20, diskBusy, requested, readVars>>

seta20_2 ==
  /\ pc = "seta20_2" /\ kbcReady
  /\ a20' = (a20 \/ (toPort /\ ~kbcBusy))
  /\ toPort' = (toPort /\ kbcBusy)
  /\ kbcBusy' = TRUE
  /\ pc' = "protcseg"
  /\ UNCHANGED <<image, mem, diskBusy, requested, readVars>>

-----------------------------------------------------------------------------
(* main.c.                                                                 *)

RoundDown(a) == (a \div SECTSIZE) * SECTSIZE

(* A slip: the end is computed from the rounded address.                   *)
readseg_RoundsFirst(p, count, off) ==
  /\ pa' = RoundDown(p)
  /\ end_pa' = RoundDown(p) + count
  /\ offset' = off \div SECTSIZE + 1
  /\ pc' = "readseg"

readseg(p, count, off) ==
  /\ pa' = RoundDown(p)
  /\ end_pa' = p + count
  /\ offset' = off \div SECTSIZE + 1
  /\ pc' = "readseg"

(* The switch to protected mode leads to bootmain, which reads a page.     *)
protcseg ==
  /\ pc = "protcseg"
  /\ readseg(ELFHDR, HeaderSectors * SECTSIZE, 0)
  /\ UNCHANGED <<image, mem, deviceVars, ph>>

ReadNextSector ==
  /\ pc = "readseg"
  /\ pc' = IF pa < end_pa THEN "readsect" ELSE "bootmain"
  /\ UNCHANGED <<image, mem, deviceVars, readVars>>

(* A slip: the disk is not waited for.                                     *)
waitdisk_Never == TRUE

waitdisk == ~diskBusy

(* readsect: waitdisk, the command, waitdisk, insl.                        *)
SendCommand ==
  /\ pc = "readsect" /\ waitdisk
  /\ requested' = IF diskBusy THEN requested ELSE offset
  /\ diskBusy' = TRUE
  /\ pc' = "insl"
  /\ UNCHANGED <<image, mem, a20, kbcBusy, toPort, readVars>>

TransferSector ==
  /\ pc = "insl" /\ waitdisk
  /\ mem' = [a \in DOMAIN mem |->
               IF \E k \in 0 .. SECTSIZE - 1 : a = Physical(pa + k)
               THEN IF diskBusy THEN Unknown ELSE DiskByte(requested, a % SECTSIZE)
               ELSE mem[a]]
  /\ pa' = pa + SECTSIZE
  /\ offset' = offset + 1
  /\ pc' = "readseg"
  /\ UNCHANGED <<image, deviceVars, ph, end_pa>>

(* A slip: ph stays where it is.                                           *)
NextSegment_Same ==
  LET s == image.segments[ph + 1]
  IN  readseg(s.pa, s.memsz, s.offset) /\ UNCHANGED ph

(* All segments are read, whatever their type, up to memsz bytes.          *)
NextSegment ==
  LET s == image.segments[ph + 1]
  IN  readseg(s.pa, s.memsz, s.offset) /\ ph' = ph + 1

(* The header is in memory: a wrong magic number is the end of it.         *)
bootmain ==
  /\ pc = "bootmain"
  /\ IF ~image.magic
     THEN pc' = "bad" /\ UNCHANGED readVars
     ELSE IF ph < Len(image.segments)
     THEN NextSegment
     ELSE pc' = "entry" /\ UNCHANGED readVars
  /\ UNCHANGED <<image, mem, deviceVars>>

BootNext ==
  \/ seta20_1 \/ seta20_2 \/ protcseg
  \/ bootmain \/ ReadNextSector \/ SendCommand \/ TransferSector

(* What readseg writes for a segment: all sectors it has bytes in.         *)
SectorsOf(s) ==
  {a \in 0 .. MemSize - 1 : RoundDown(s.pa) <= a /\ RoundDown(a) < s.pa + s.memsz}

LoaderArea == start .. start + SECTSIZE - 1
HeaderArea == ELFHDR .. ELFHDR + HeaderSectors * SECTSIZE - 1
FileArea(s) == s.pa .. s.pa + s.filesz - 1

(* The kernel files that can be loaded: segments fit into memory and lie   *)
(* as in the file, at a distance of whole sectors; no sector of one is the *)
(* loader's or the headers', or has other bytes than the file's in place   *)
(* of those of a segment before it.                                        *)
ASSUME ImagesAssumption ==
  \A im \in Images :
    /\ im.magic \in BOOLEAN
    /\ im.length \in Nat /\ HeaderSectors * SECTSIZE <= im.length
    /\ im.segments \in Seq([pa : Nat, offset : Nat, filesz : Nat, memsz : Nat])
    /\ \A n \in DOMAIN im.segments :
         LET s == im.segments[n]
         IN  /\ s.filesz <= s.memsz /\ s.offset + s.filesz <= im.length
             /\ s.pa + s.memsz <= MemSize
             /\ s.pa % SECTSIZE = s.offset % SECTSIZE
             /\ SectorsOf(s) \cap (LoaderArea \cup HeaderArea) = {}
             /\ \A m \in 1 .. n - 1 :
                  LET r == im.segments[m]
                  IN  SectorsOf(s) \cap FileArea(r) = {}
                      \/ s.pa - s.offset = r.pa - r.offset

LoaderRuns ==
  pc \in {"seta20_1", "seta20_2", "protcseg", "bootmain", "readseg", "readsect",
          "insl", "bad"}

-----------------------------------------------------------------------------
(* readseg writes whole sectors, to addresses the file names (main.c:69-   *)
(* 95); the boot loader that runs, and the program headers it is reading   *)
(* from, are never among them.                                             *)
LoaderUndisturbed ==
  LoaderRuns =>
    /\ \A a \in start .. start + SECTSIZE - 1 : mem[a] = Loader
    /\ ph > 0 =>
         \A k \in 0 .. HeaderSectors * SECTSIZE - 1 : mem[ELFHDR + k] = k
=============================================================================
