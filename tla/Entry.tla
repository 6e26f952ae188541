------------------------------- MODULE Entry -------------------------------
(***************************************************************************)
(* From the boot loader into the kernel: kern/entry.S turns on paging with *)
(* the tables of kern/entrypgdir.c, moves up to the address the kernel is  *)
(* linked at, sets up its stack and calls i386_init (kern/init.c), which   *)
(* completes the loading by clearing the bss.                              *)
(***************************************************************************)
EXTENDS BootLoader

CONSTANTS
  PGSIZE, NPTENTRIES,
  KERNBASE

ASSUME EntryAssumption ==
  /\ PGSIZE \in Nat \ {0} /\ NPTENTRIES \in Nat \ {0}
  /\ KERNBASE \in Nat
  /\ KERNBASE % (PGSIZE * NPTENTRIES) = 0 /\ KERNBASE >= PGSIZE * NPTENTRIES

PDX(va) == va \div (PGSIZE * NPTENTRIES)
PTX(va) == (va \div PGSIZE) % NPTENTRIES

(* A slip: only the addresses the kernel is linked at are mapped.          *)
entry_pgdir_HighOnly == [i \in {PDX(KERNBASE)} |-> {"P", "W"}]

(* Both entries refer to entry_pgtable; the rest of the directory is 0.    *)
entry_pgdir ==
  [i \in {0, PDX(KERNBASE)} |-> IF i = 0 THEN {"P"} ELSE {"P", "W"}]

entry_pgtable ==
  [i \in 0 .. NPTENTRIES - 1 |-> [pa |-> i * PGSIZE, flags |-> {"P", "W"}]]

(* What kern/kernel.ld makes: two segments below 4MB or whatever the table *)
(* maps, the stack in the second, and its bss behind what the file has.    *)
ASSUME LayoutAssumption ==
  \A im \in Images :
    /\ Len(im.segments) >= 2
    /\ im.segments[1].pa < PGSIZE * NPTENTRIES
    /\ LET d == im.segments[2]
       IN  /\ 1 <= d.memsz /\ d.pa + d.memsz <= PGSIZE * NPTENTRIES
           /\ \A n \in DOMAIN im.segments :
                FileArea(im.segments[n]) \cap (d.pa + d.filesz .. d.pa + d.memsz - 1) = {}

VARIABLES
  paging,        \* CR0_PG; cr3 then refers to entry_pgdir
  eip, esp       \* virtual addresses

vars == <<bootVars, paging, eip, esp>>

(* Where the linker puts things.                                           *)
First == image.segments[1]
Data == image.segments[2]
EntryPa == First.pa
bootstacktop == KERNBASE + Data.pa + 1
edata == KERNBASE + Data.pa + Data.filesz
end == KERNBASE + Data.pa + Data.memsz

NoAddress == -1
Mapped(va) == PDX(va) \in DOMAIN entry_pgdir
Translate(va) ==
  IF ~paging THEN va
  ELSE IF Mapped(va) THEN entry_pgtable[PTX(va)].pa + (va % PGSIZE)
  ELSE NoAddress
Writable(va) ==
  paging => Mapped(va) /\ "W" \in entry_pgdir[PDX(va)] \cap entry_pgtable[PTX(va)].flags

Init == BootInit /\ paging = FALSE /\ eip = start /\ esp = start

-----------------------------------------------------------------------------
(* Each step is an instruction or two of entry.S.                          *)

entry ==
  /\ pc = "entry"
  /\ pc' = "paging_on"
  /\ eip' = EntryPa
  /\ UNCHANGED <<image, mem, deviceVars, readVars, paging, esp>>

TurnOnPaging ==
  /\ pc = "paging_on"
  /\ paging' = TRUE
  /\ pc' = "jump"
  /\ UNCHANGED <<image, mem, deviceVars, readVars, eip, esp>>

JumpUp ==
  /\ pc = "jump"
  /\ eip' = KERNBASE + EntryPa
  /\ pc' = "relocated"
  /\ UNCHANGED <<image, mem, deviceVars, readVars, paging, esp>>

relocated ==
  /\ pc = "relocated"
  /\ esp' = bootstacktop
  /\ pc' = "call"
  /\ UNCHANGED <<image, mem, deviceVars, readVars, paging, eip>>

CallInit ==
  /\ pc = "call"
  /\ esp' = esp - 1
  /\ mem' = [mem EXCEPT ![Translate(esp - 1)] = Unknown]
  /\ pc' = "i386_init"
  /\ UNCHANGED <<image, deviceVars, readVars, paging, eip>>

i386_init ==
  /\ pc = "i386_init"
  /\ mem' = [a \in DOMAIN mem |->
               IF \E va \in edata .. end - 1 : a = Translate(va) THEN Zero ELSE mem[a]]
  /\ pc' = "cons_init"
  /\ UNCHANGED <<image, deviceVars, readVars, paging, eip, esp>>

EntryNext ==
  entry \/ TurnOnPaging \/ JumpUp \/ relocated \/ CallInit \/ i386_init

LoaderNext == BootNext /\ UNCHANGED <<paging, eip, esp>>

Next == LoaderNext \/ EntryNext \/ (Devices /\ UNCHANGED <<paging, eip, esp>>)

(* The processor goes on and the devices complete what they were asked.    *)
Fairness ==
  /\ WF_vars(LoaderNext \/ EntryNext)
  /\ WF_vars(ControllerReady /\ UNCHANGED <<paging, eip, esp>>)
  /\ WF_vars(DiskReady /\ UNCHANGED <<paging, eip, esp>>)

Spec == Init /\ [][Next]_vars /\ Fairness

-----------------------------------------------------------------------------
InKernel ==
  pc \in {"entry", "paging_on", "jump", "relocated", "call", "i386_init", "cons_init"}

(* The loader that runs and the headers it reads from are left alone; when *)
(* it jumps, every byte of every segment is where the file says, however   *)
(* its segments lie in sectors and whatever was read besides (main.c:69-   *)
(* 95); what follows in the bss is cleared, and nothing else (init.c:18).  *)
KernelLoaded ==
  /\ LoaderUndisturbed
  /\ InKernel =>
      /\ \A s \in DOMAIN image.segments : \A k \in 0 .. image.segments[s].filesz - 1 :
           LET a == image.segments[s].pa + k
           IN  mem[a] = image.segments[s].offset + k
               \/ (pc \in {"i386_init", "cons_init"} /\ KERNBASE + a = esp)
      /\ pc = "cons_init" =>
           \A a \in Data.pa + Data.filesz .. Data.pa + Data.memsz - 1 : mem[a] = Zero

(* At every instruction of entry.S the processor fetches the one that      *)
(* stands there, before and after the switch and before and after the      *)
(* jump (entry.S:64-68); from then on the whole kernel is at the addresses *)
(* it is linked at, and can be written (entrypgdir.c:6-13).                *)
EntryMapped ==
  /\ pc \in {"paging_on", "jump", "relocated", "call"} => Translate(eip) = EntryPa
  /\ pc \in {"relocated", "call", "i386_init", "cons_init"} =>
       \A a \in First.pa .. Data.pa + Data.memsz - 1 :
         Translate(KERNBASE + a) = a /\ Writable(KERNBASE + a)

(* A disk and a controller that answer are enough to boot, or to stop at a *)
(* file that is no kernel (main.c:46-48, 98-104).                          *)
BootEnds == <>(pc = (IF image.magic THEN "cons_init" ELSE "bad"))
=============================================================================
