# JOS, lab 2: a TLA+ development

This directory specifies and verifies the kernel in `src/`, a JOS kernel (MIT
6.828) at the state of lab 2: boot loader, console, kernel monitor, and the
memory management of `kern/pmap.c`. All of them are modelled, from the first
instruction of the boot sector to the backtrace the monitor prints. Modules are
TLA+, checked with TLC; theorems are proved with TLAPS. `PROJECT.json` lists
components, runs, mutants, the source lines behind every definition, hazards,
findings and theorems.

## The system

The kernel runs on one processor with interrupts off. There are no processes
yet: `i386_init` initialises the console, calls `mem_init` and stays in the
monitor. What still happens concurrently is hardware: the MMU walks page tables
and caches translations whenever it likes, and devices deliver and accept bytes
at their own pace.

| Component | State | Operations | What is hard | What makes it correct |
|---|---|---|---|---|
| Page allocator (`pmap.c`) | `pages[]` with `pp_ref`, `pp_link`; `page_free_list` | `page_alloc`, `page_free`, `page_decref`, `pp_ref++` | the list is threaded through the elements, the double-free check is indirect, the counter has 16 bits | the list is exactly the free pages; the counter is exactly the references; a page is handed out only when free |
| Page tables (`pmap.c`) | page directory, page tables (pages themselves), TLB | `pgdir_walk`, `page_insert`, `page_lookup`, `page_remove`, `tlb_invalidate` | several stores per call while the MMU walks; page tables come from the same pool as data; same page inserted twice | replacing a mapping looks atomic; counts equal mappings; nothing freed stays reachable |
| Memory detection, `page_init` | CMOS answers, `nextfree`, the list under construction | `i386_detect_memory`, `boot_alloc`, `page_init`, `check_page_free_list` | lists rewritten while they are walked; sizes and limits of very different machines; only 4MB mapped | the list ends as the free memory, mapped pages first; nothing unmapped is touched |
| Kernel address space, `mem_init` | `kern_pgdir`, its tables, cr3 | `boot_map_region`, the checks, `lcr3` | the running kernel moves to mappings it has just built; page tables must lie in the 4MB window | the directory maps what the comments say, with these rights, and nothing else |
| Console input (`console.c`) | ring buffer, modifier flags, device registers | `serial_intr`, `kbd_intr`, `cons_intr`, `cons_getc`, `getchar` | devices deliver at any time; ring without full check; escape sequences | characters come out in order, once |
| Console output (`console.c`) | `crt_buf`, `crt_pos`, device registers | `cons_putc`, `cga_putc`, `serial_putc`, `lpt_putc` | scrolling, tabs that recurse, bounded waits for devices that may be dead | the screen shows the last lines; ports that keep up get every byte once, in order; output always returns |
| Line editor, monitor (`readline.c`, `monitor.c`) | line buffer, argv, frames on the stack | `readline`, `monitor`, `runcmd`, the commands | limits of buffers, editing keys, splitting in place, a chain of frame pointers | the line is what the screen shows; the command named runs with the words typed; the prompt comes back |
| Debug information (`kdebug.c`) | stab tables (constant) | `stab_binsearch`, `debuginfo_eip` | binary search over an unevenly typed table, inlined code, assembly files | every frame of a backtrace is put where it is in the program |
| Formatted output (`printfmt.c`, `printf.c`) | the place in the format, flags, the buffer's end | `vprintfmt`, `printnum`, `cprintf`, `snprintf` | flags that combine, recursion, formats that break off, buffers of any size | what is printed is what was asked for; a buffer holds as much of it as it has room for, and a 0 |
| Strings (`string.c`) | pointers of a loop, registers of a string instruction | `memmove`, `memset`, `str...`, `strtol` | overlap, direction flag, counts of 0, signed characters | agree with their definitions on strings as sequences |
| Boot loader (`boot/`) | memory, disk, keyboard controller, the segment being read | seta20, `bootmain`, `readseg`, `readsect`, `waitdisk` | rounding out to sectors, devices that are busy | the kernel is in memory as its file says, the loader intact until it has finished |
| Entry (`entry.S`, `entrypgdir.c`, `init.c`) | paging, eip, esp | `entry`, `relocated`, `i386_init` | the code moves to other addresses while it runs | every instruction is fetched from where it stands; the kernel is mapped and writable, its bss zero |

Calls: `mem_init` calls everything in `pmap.c`; `page_insert` calls `pgdir_walk`
(which allocates) and `page_remove` (which drops a reference and may free).
`monitor` calls `readline`, which calls `getchar` (which polls both devices
through `cons_getc`) and `cputchar`, and passes the line to `runcmd`, which cuts
it up in place and calls a command; `mon_backtrace` calls `debuginfo_eip` once a
frame, and that `stab_binsearch` three times. `cprintf` calls `vprintfmt`, whose
callback `putch` calls `cputchar`, and that `cons_putc`, which for a tab is
called again by `cga_putc`. The input drivers are callbacks of `cons_intr`.
Shared state: the ring buffer between `cons_intr` and `cons_getc`; the keyboard
controller between keyboard and mouse; `page_free_list` and the `pages` array
between the allocator, the page tables and the checks; physical memory between
page tables and data, which is what the separation invariants are about.

## Modules

| Module | Stands for | Extends, instantiates |
|---|---|---|
| `PageStore` | what the page allocator promises: free pages, references, four operations | |
| `PageFreeList` | the allocator in `pmap.c`: links, head, counters modulo `RefMod`, panic | implements `PageStore` |
| `AddressSpace` | what the virtual memory functions promise: a map from virtual pages to pages, contents of the pages that exist | |
| `PageTables` | `pgdir_walk`, `page_insert`, `page_lookup`, `page_remove`, `tlb_invalidate`, with the MMU | implements `AddressSpace`, and uses the allocator as a `PageStore` |
| `PageTables_proofs` | theorems about it | |
| `PageInit` | `i386_detect_memory`, `boot_alloc`, `page_init`, `check_page_free_list` | |
| `MemInit` | `mem_init` with `boot_map_region` and the checks | extends `PageInit` |
| `MemInit_proofs` | theorems about both | |
| `InputQueue` | what the input buffer promises: a queue, which loses everything when one character too many comes | |
| `ConsoleRing` | the struct `cons`: a store in `cons_intr`, a fetch in `cons_getc` | implements `InputQueue` |
| `Keyboard` | `kbd_proc_data` against keyboard, mouse and controller | |
| `ConsoleInput` | `serial_intr`, `kbd_intr`, `cons_intr`, `cons_getc`, `getchar` | extends `ConsoleRing` and `Keyboard` |
| `ConsoleInput_proofs` | theorems about the three | |
| `Terminal` | what a text screen promises: lines, a cursor, scrolling | |
| `Screen` | `cga_putc` and `cons_putc` | implements `Terminal` |
| `ReadLine` | `readline`, and what the monitor prints between lines | extends `Screen` |
| `ReadLine_proofs` | theorems about it | |
| `RunCmd` | `runcmd` with `strcmp` | |
| `KernelImage` | the stabs compiler, assembler and linker write for a program (external) | |
| `StabSearch` | `stab_binsearch` | |
| `DebugInfo` | `debuginfo_eip` and `mon_backtrace` | extends `StabSearch` |
| `Monitor` | the loop of `monitor` with its commands | extends `RunCmd`, `DebugInfo`, `KernelImage` |
| `Monitor_proofs` | theorems about `StabSearch`, `RunCmd`, and the backtrace of `Monitor` | extends `Monitor` |
| `ConsoleOutput` | `cons_putc` and the output devices | |
| `PrintFmt` | `vprintfmt`, `printnum` | |
| `Printing` | `cprintf` and `snprintf` | extends `PrintFmt` and `ConsoleOutput` |
| `Printing_proofs` | theorems about the three | |
| `MemOps` | `memmove` and `memset` | |
| `StringOps` | the rest of `string.c` | extends `MemOps` |
| `Services_proofs` | theorems about `MemOps`, `StringOps` and `PageFreeList` | |
| `BootLoader` | `boot.S` and `main.c` with memory and devices | |
| `Entry` | `entry.S`, `entrypgdir.c`, the start of `i386_init` | extends `BootLoader` |
| `Entry_proofs` | theorems about both | |
| `MC*` | instances for TLC | |

### PageFreeList

An operation is a step (nothing interrupts the kernel). `pp_ref`, `pp_link` and
`page_free_list` are the code's; `panicked` is TRUE once `panic()` has been
called. `chain` and `users` are history variables: the list as it should be,
and the references callers hold. Guards of the operations use only code
variables; the guards that say which calls a caller makes (`CallFree`,
`CallDecref`, `CallIncref`) use the history. Callers are disciplined except in
one respect: they may call `page_free` on a page that is still referenced,
which the code answers with a panic. `SpecDoubleFree` also lets them free a
page twice.

### PageTables

`page_insert` and `page_remove` are split at every store to a directory or page
table entry and at `invlpg`: `CallInsert`, `Walk`, `InstallTable`,
`InsertIncref`, then `RemoveDecref`, `RemoveClear`, `RemoveInvalidate` if the
entry was in use, and `InsertStore`. As in the code, an entry is looked up once
and then reached through the pointer kept: `pte` is the one `page_insert` gets
from its `pgdir_walk` and stores through at its end, after `page_remove`, and
`old` the one `page_remove` gets from `page_lookup`. `TLBFill` and `TLBEvict`
happen at any time. `ClientAlloc`, `ClientFree`, `HolderStore` and `MappedStore` are what the
rest of the kernel and programs do between calls. Memory is words; a store may
write a word that looks like a page table entry, so that a page table confused
with a data page shows. That mapped stores reach only callers' pages follows
from `TLBCoherent` and `PagesSeparate` together: the model does not restrict
them, it sends them where the TLB says.

Directory entries carry no rights, since `pgdir_walk` always grants all of them
(`MemInit` has the rights of both levels). A create of FALSE in `pgdir_walk` is
the case without a page table in `PTE` and `page_lookup`. Left out:
`pte_store`, and the offsets within words and pages.

### PageInit and MemInit

`PageInit` takes a step per loop iteration. `at` is the loop variable of the
moment (`i`, `smernik`, `pp`); a `struct PageInfo **` is a page, for the address
of its `pp_link`, or `HEAD`. `ListFrom` follows links without assuming that they
end. `MemInit` continues from where `PageInit` stops; its steps are the
iterations of `boot_map_region` and, one step each, the check functions, whose
assertions may end in `panic` and whose net effect on the free list is kept
(`check_page` reverses the first three pages, `check_page_installed_pgdir`
permutes them). `pc = "fault"` is what becomes of a store to an address that
`entry_pgdir` does not map or through the NULL that `boot_map_region` does not
check for.

### Keyboard and ConsoleInput

A key press or release puts the codes a PS/2 keyboard sends on a line
(`kbdOut`); the controller holds one byte at a time, from either device, until
it is read. `kbd_proc_data` is one step: nothing but its own read of the data
port changes what its status read told it, since the controller does not
replace a byte that has not been read. `shift` is the function's static
variable, as a set of flags. `Code` has the keys on which the function treats
codes differently: both keys of every modifier, with and without E0; both
toggles, caps lock and scroll lock; a letter; keys that differ only in E0 (Enter, and Delete against the keypad's dot); Pause,
whose codes look like a Ctrl that is pressed and released; and Delete's fake
shift codes. `mods` is what ought to be in force: the flag of a modifier whose
last event was a press. Two keys of one modifier share a flag, in the code and
in `mods`: releasing one of them while the other is held releases the modifier.
Each byte carries both: the modifiers in force after its event (`mods`), and
those of which a key is held (`down`), which no step of the code reads.
`RebootOnCtrlAltDel` says that the machine is reset if and only if Delete is
pressed with Ctrl and Alt in force, and then never without a Ctrl and an Alt
held. The converse, `RebootWheneverHeld`, does not hold (`MCTwoCtrls.cfg`, below).

`ConsoleInput` takes a step per turn of `cons_intr`'s loop. `serial_proc_data`
reads the status and then the byte; a byte that arrives between the two
replaces one that was there, as it would have just before, or is found by the
next call, as if it had come just after, so one step shows every outcome. The
serial port keeps one byte, because `serial_init` turns its FIFO off.

### Screen, ReadLine, RunCmd and Monitor

`crt_buf` is the flat buffer of the code, with its one index. A step is a call
of `cons_putc`; for a tab, `cga_putc` calls it five times more, which `spaces`
counts. `Terminal` knows lines and a cursor in them instead, and has no tab:
the five spaces are the text it shows. `ScreenInit` takes over any screen and
any cursor on it from the BIOS.

`ReadLine` reads characters that `getchar` may return, any byte but 0; the read
error for a negative one cannot happen. A character that is ignored changes
nothing and is no step. `RunCmd` takes lines as `readline` returns them;
`argv` holds positions in the buffer. No command returns the negative value
that would end the monitor, so its loop does not end. `help` and `kerninfo`
print and return; what they print has no steps here. `Monitor` composes the
loop with `DebugInfo`, which has the steps of a backtrace.

### StabSearch, DebugInfo and KernelImage

A step of `StabSearch` is a turn of the search loop, with its inner loop back
to an entry of the right type. `asked` remembers the call, since the code moves
both ends of the region and `addr` itself. `DebugInfo` has a step for what
`debuginfo_eip` does between two searches. A table is a function from entry
numbers to entries; names are strings, so the offsets into the string table and
their bounds are left out, and so is the colon that ends a function's name when
it is printed. Entries are those `KernelImage` makes of a program: what gcc and
ld were seen to write for this kernel (an `SO` with a name and one with the end
of the file for every C file, `SOL` where code comes from a header, line
entries relative to their function, parameters behind it; line entries that
hold addresses in assembly files). `FindsContainingStab` in `Monitor` is the
comment of `stab_binsearch`, which the code does not keep (below);
`SearchResult` says what it does keep. `IsProgram` says what the programs are
of which `KernelImage` makes tables: lines, functions and files in the order of
their addresses, a line where a function begins, no code in a file without
functions, functions and files of more than one byte, and C, not assembly,
linked last. `IsReturnAddress` says where a call in a program may return to. The
assumption of `Monitor` is that its programs are such programs, its tables
those of the programs, and its stacks chains of frames with such return
addresses; TLC checks it of the run's.

A stack is built of frames that calls of the kernel's functions leave: the
return addresses are behind call instructions, also the address just behind the
last instruction, when the last instruction is a call of a function that does
not return (`_panic`); the outermost frame is the one `entry.S` starts with a
saved ebp of 0. `mon_backtrace` also prints the five words above each frame;
their values are not modelled.

### ConsoleOutput, PrintFmt and Printing

A device holds at most one byte (`held`) and sends it whenever it likes
(`Transmit`), or never: a machine without a printer is one whose printer never
does. `serial_putc` and `lpt_putc` take a step per turn of their wait, and write
at its end whether or not the device was ready; `gaveUp` remembers that.
`cga_putc` is what it does to its caller (the tab); what it does to the screen
is `Screen`.

`PrintFmt` reads the format character by character. What a conversion prints is
computed in the step that reads its letter and handed to `putch` in later steps.
`Stands` in `Printing` says from the outside, of a whole directive, what it
stands for; `NumeralOf` has the digits by the powers of the base, where
`printnum` divides and recurs. `Stands` is used twice. `Asked` is what the
comments ask for, where the flag `-` is the "flag to pad on the right"
(printfmt.c:106); `Printed` is what is printed, where `-` pads a string on the
right but a number on the left, with dashes. The two differ only for a number
with `-` that is shorter than its width (`DashedNumber`): `PrintsWhatIsAsked`
leaves those out, and `DashPadsRight`, which is about them, is violated
(`MCDash.cfg`, below). In both, a negative number padded with zeros is one
character wider than its width, a `0` after the dot is a flag and not a
precision, and bytes from 128 on are handed to `putch` as negative numbers: of
these no comment says otherwise. Integers are scaled: an `int` has 8 bits and a `long long` 16
(`IntSize`). `vcprintf` returns 0 always: `putch` increments the pointer to its
counter, not the counter.

A call is a directive (flags, width, precision, conversion, an argument, text
behind it). Several directives in a format do not interact: the flags are reset
at every `%`.

### MemOps and StringOps

`string.c` is compiled with `ASM` set, so `memmove` and `memset` are `rep movs`
and `rep stos`; the C versions behind the `#else` are not in the kernel. One
repetition of the instruction is a step. The other functions are loops over one
or two pointers and a count: `Goes` and `CopyGoes` are their conditions,
`Returned` what they return. A behaviour is one call, since the functions keep
no state. `memcpy` is `memmove`. Callers pass strings that end (`strnlen` also
what does not, up to its count) and room for the result; that strings do not
overlap for `strcpy`, `strcat`, `strncpy` and `strlcpy` is assumed as in the C
standard.

### BootLoader and Entry

A byte of memory is known by where it comes from: an offset in the kernel file,
the boot sector, zero, or anything. So a sector that lands in the wrong place,
or on the loader, shows. Disk and controller become busy with every command and
ready again whenever they like; `waitdisk` and `kbcReady` are the loops that wait
for it. The model does not rely on them: a busy disk loses a command and gives
bytes that are anything, and a busy controller loses the byte it is sent
(`toPort` says that it has got its command, so that the next byte is for its
output port). So waiting too little ends in a wrong kernel, which `KernelLoaded`
sees. Until the controller has been told to, address line 20 reads as 0. `protcseg` goes to protected mode and calls `bootmain`; the
segments map every address to itself, before and after, which is why they are
left out. In `Entry` an instruction is where eip's translation points; the
boot stack is the start of the kernel's data, whose place the linker decides.
`i386_init` is followed up to the first call of `cons_init`; from `mem_init` on
it is `PageInit`, `MemInit` and `Monitor`.

## Runs

| Run | Question | Instance |
|---|---|---|
| `free_list` | is the list sound under every order of calls, and a `PageStore`? | 6 pages, 2 withheld, counters modulo 4 |
| `double_free` (violated) | is a double free always caught? | same, with double frees |
| `page_tables` | is replacing a mapping atomic for everyone else, are counts exact? | 3 pages, 2 directory entries of 2 entries, 2 rights, 2 data words, symmetric pages |
| `lookup` (violated) | does `page_lookup` return NULL for an unmapped address? | same |
| `mem_init` | is the free list right on every machine, and who is stopped? does the new directory map what it should, does `mem_init` end? | 48 machines, 11 to 80 pages of 16 bytes, directories of 16 entries |
| `keyboard` | do modifiers, characters and the reboot, for Ctrl-Alt-Del in force, follow the keys? | 14 keys, 3 held at a time, with a mouse |
| `console_input` | is input a queue that overruns only when full, and does `cons_getc` return? | buffer of 3, one key (Delete), two serial bytes of which one is 0, with and without a serial port |
| `read_line` | is the line in the buffer the line on the screen? is the screen a terminal of lines? | 3 lines of 2, a buffer of 4, a prompt of 1, two colours, five characters to print and five to type |
| `monitor` | does the named command run with the words typed? is every frame of a backtrace put where it is? does the prompt come back? | lines of up to 5 characters, argv of 3, three commands of which one is another's beginning; 8 programs of three or four files, 24 stacks of one to three frames |
| `strings` | does every function return and leave in memory what it is for? | 12 bytes; strings of up to 4 of three byte values, one above 127; numerals of 4 of seven characters in 4 bases |
| `printing` | is what is printed what the comments ask for (but for numbers with `-`), does a buffer hold a prefix of what is printed, and does console output get through or return? | 8-bit ints; 2881 directives into buffers of 0 to 20 bytes; 1927 directives onto a console whose waits are bounded by 2 |
| `boot` | is the kernel in memory as its file says, and does execution get into it? | sectors of 2 bytes, pages of 4, 420 layouts of two or three segments, with and without a valid magic number |

`double_free` and `lookup` are violated: the code does not do what its comments
say (`findings` in `PROJECT.json`). Six more properties are
violated as well, in configurations kept to be run by hand
(`tlc -config MCMouse.cfg ConsoleInput`):

| Configuration | Module | Property | What the code does |
|---|---|---|---|
| `MCMemLayout.cfg` | `MCMemInit` | `BaseMemoryOnly` | `page_init` never uses `npages_basemem`: it frees every page but 0 below IOPHYSMEM, also those above the base memory CMOS reports. pmap.c:283: "The rest of base memory, [PGSIZE, npages_basemem * PGSIZE) is free." |
| `MCMemLayout.cfg`, with the other `INVARIANT` | `MCMemInit` | `StackRegionOnly` | `boot_map_region` counts its size in pages and is passed `KSTKSIZE`, which is in bytes: 32768 pages are mapped, up to 128MB above KSTACKTOP, until the next call overwrites them. pmap.c:470: "Map [va, va+size) of virtual address space to physical [pa, pa+size)". |
| `MCMouse.cfg` | `ConsoleInput` | `MouseIgnored` | a byte from the mouse is not read from the controller, every later call finds it there, and the keyboard is never read again. console.c:325: "Ignore data from mouse." |
| `MCStab.cfg` | `MCMonitor` | `FindsContainingStab` | after an exact match `stab_binsearch` goes on looking for `addr + 1`, so that with entries at consecutive addresses it returns one that lies behind `addr`. kdebug.c:31: "*region_left points to the matching stab that contains 'addr'". |
| `MCTwoCtrls.cfg` | `Keyboard` | `RebootWheneverHeld` | with both Ctrl keys and an Alt held, releasing one Ctrl clears the flag they share, and Delete does not reboot though Ctrl and Alt are down. console.c:358: "Ctrl-Alt-Del: reboot". |
| `MCDash.cfg` | `MCPrinting` | `DashPadsRight` | `printnum` puts `padc` in front of the digits whatever it is, so that `%-3d` of 0 prints `--0`. printfmt.c:106: "flag to pad on the right". |

None of the eight is hit by what lab 2 itself does, which is why its checks pass:
no format of the kernel has a `-` for a number, the mouse's takes a mouse that
reports, the Ctrl keys' someone who holds both, and `stab_binsearch`'s a line of
one byte of code. (In the tables gcc writes for this kernel, every one of the 14291
addresses is looked up right.) `debuginfo_eip` takes a region that is
not empty for a match; when all entries lie above the address, `stab_binsearch`
returns the part before the first of them, which is empty only if the first one
begins the region (`SearchResult`). The tables of this kernel never lead there.

Other limits of the code are built into what the passing runs state: a full
ring loses everything (`Overrun` of `InputQueue`), argv has room for
MAXARGS - 1 words though the message says MAXARGS (`RunsWhatWasTyped`), `pp_ref`
counts mappings only as long as callers leave it room (`Inserts` of
`PageTables`: the code does not check, and one mapping too many makes it 0),
and `boot_alloc` limits itself by what `entry_pgdir` maps, not by what memory
the machine has (`EarlyWritesMapped`, `HasRoom`).

**Bounds.** `RefMod` stands for 2^16; the smaller it is, the sooner a counter
wraps, and 4 and 8 leave room for every count the other bounds admit (four
virtual pages, plus a page table reference and one counted in advance). With
three pages and two page tables, allocation fails in every way it can: for the
table, for the page, after one table exists. Two virtual pages per table are
enough for the same page mapped twice, in one table and in two. In `PageInit`
the layout keeps the order of all the real limits (base memory, hole, 1MB, end
of kernel, 4MB, 16MB, 256MB above KERNBASE), and machines lie on both sides of
each. In `MemInit` the region of the stack, too long as in the code, reaches
over both page tables above KERNBASE but not to their end, as in the code.
On one of the machines, with a single free page above the hole, the page tables
of `boot_map_region` use up what `check_page_free_list(0)` expects to find there
after the switch, and the kernel stops; which is why `StopsOnlyUnbootable`
speaks of the checks before it.

A ring of three wraps and overruns within the bytes of one poll. Three held keys
give every pair of modifiers with a third key, both keys of one modifier with
another, and Ctrl, Alt and Delete, also with one of two Ctrl keys released
before Delete is pressed.

A screen of three lines has a first, a last and one in between, and the line of
`read_line` crosses two line ends and scrolls while it is edited; the
theorems hold for every size for which prompt and line leave a line free
(`FitsAssumption`: 3 + 1023 characters on a screen of 2000, of which a line is
80). Six characters and an argv of three make lines with no word, with as many
as fit, and with one more.

In `monitor` programs have what the tables of the real kernel have: assembly
without functions, files without code, functions with and without parameters,
two entries at one address, code from a header in the middle of a function, at
its end and as all of it. Addresses on the stack are behind any instruction.
In `printing` widths lie on both sides of the lengths that occur, and buffers
are empty, of one byte, too small by one, exact and large. `snprintf` is called
with every directive of `AllDirectives`: all conversions, flags, widths and
precisions, in digits and by argument, and formats that break off. On the console
the ports may fall behind at every character, so `cprintf` is called with those
of them that print at most `ConsoleLength` = 4 characters (every conversion, flag
and kind of width and precision is among these, as is breaking off), and with
`Longer`, which has longer padding, tabs, line ends and long numbers. `MaxWait` of 2 is
enough for a device to become ready before, during and after a wait, or never.
In `boot` segments begin and end at every offset in a sector and in a page, and
sectors at their ends are shared by text and data or by data and what follows.
Addresses are 4 pages to the megabyte, so that without line 20 the kernel would
land on the loader. The layouts are those a linker makes with `kern/kernel.ld`;
a file that places a segment over the loader would destroy it, and no check
prevents that.

`SYMMETRY` in `page_tables` permutes pages that no
constant distinguishes; that run has no liveness property.

**Deadlock** is checked in `page_tables`, `read_line` and `monitor`. It is not
in `free_list`, where a panic stops the kernel, in `mem_init`, `strings`,
`printing` and `boot`, where the behaviour ends with the call or the stage, and
in `keyboard` and `console_input`, where Ctrl-Alt-Del resets the machine.

**Fairness and liveness.** `PageInit` and `MemInit` assume weak fairness of
their next-state action: the processor keeps executing the only thread there is.
Under it `MemInitEnds` says that the loops over linked lists end and that
nothing faults. `ConsoleInput` assumes that the processor goes on
(`WF_vars(Kernel)`) and that the controller takes the bytes the keyboard has to
send (`WF_kbdVars(LoadKey)`); nothing is assumed of whoever types, of the serial
line or of the mouse. `GetcReturns` and `InputConsumed` are about behaviours in
which input stops at last (`FallsSilent`), because `cons_intr` really does not
return while a device keeps delivering, and `InputConsumed` about those without
a byte from the mouse, because of what `MCMouse.cfg` shows. Both conditions hold in
behaviours with any amount of input before. `Monitor` and `Printing` assume that
the processor goes on and nothing of who types or of the devices:
`PromptReturns` and `PrintReturns` say that searches and waits end by
themselves. `Entry` assumes in addition that the controller and the disk get
ready after every command (`WF` of `ControllerReady` and `DiskReady`); the
loader has no bound on its waits, so without that `BootEnds` would not hold. The
other components promise only safety: nothing in them waits.

**Mutants.** Every property of a passing run is violated when one definition is
replaced by the version with a slip that stands in front of it in the module
(`page_decref_Leaks`, `RemoveClear_AfterInvlpg`, ...).

## Proofs

The proof modules hold for every value of the constants that the named
assumptions admit: any set of pages, any `RefMod` greater than 1, finite index
sets of any size, any rights and data; any size of the ring, the screen and the
line buffer; any table of stabs, any memory.

`Services_proofs`, the page allocator: the invariant is the conjunction of the
four state properties. It is inductive as it stands because the history
variables say what the pointers mean: a push adds the page in front of `chain`,
a pop drops its first element, and `ListThreadsFreePages` ties each `pp_link` to
the next element of `chain`. The lemmas about `Push`, `Tail` and `NoRepeats`
carry the sequence reasoning. `Implementation` then maps every step to one of
`PageStore` or a stutter (a panic).

`PageTables_proofs`: the invariant `IInv` is the conjunction of `TypeOK`,
`PagesSeparate`, `TLBCoherent`, `CallState` and `PpRefCountsMappings`; none of
the last four is inductive without the others. `CallState` says of a call in
progress which entry it is about and that the pointers it has kept still lead to
that entry, which holds because no step takes a page table out of the directory;
without it `InsertStore` could store anywhere. Counts need separation (a store
to a data page must not change a mapping) and the state of the call (which
mapping has been counted in advance); separation needs the counts (a page whose
count drops to zero has no other mapping); coherence needs both. `MapNow`
defines when a call in progress takes effect, at `RemoveDecref` when there was
an old mapping and at `InsertIncref` when there was none; `Implementation`
shows that this step is an `AddressSpace` step and that all the others are
invisible there. The cardinality lemmas say how adding, replacing and removing
one mapping changes the count of each page.

`ConsoleInput_proofs`, the ring: `RingTypeOK` is inductive because it says of
the cells between `rpos` and `wpos` that they hold characters. `Implementation`
is about the sequence `Waiting` of those cells: lemmas say how a store changes
their number (one more, or none when the positions meet), which position the
k-th has before and after a fetch, and that the cell stored to is not among
them; so a store is `Put` or `Overrun` and a fetch is `Get`.

`ConsoleInput_proofs`, the keyboard: the three properties speak of the moment
after a whole event; what is inductive has to speak of the bytes in between.
`After` and `Char` are `kbd_proc_data` as a function: what it makes of its
modifiers and escape, and which character it returns. `KbdInv` says that from
the flags as they are now there is a sequence of states `g` (`Trace`) in which
the byte in the controller and those the keyboard has yet to send will be read,
which ends in the modifiers in force, and that each byte read in its state gives
what it should (`Reads`): a character, at the last byte of a press, or none. A
byte that moves to the controller drops the first state of `g`; an event adds
its own, one lemma for each form an event has (`OneByte`, `TwoBytes`,
`FourBytes`, `PauseBytes`). Pause is why "`CTL` is in force only if a Ctrl key is
down" is part of the invariant: it sends a press and a release of Ctrl when none
is, and the release would otherwise drop one. That a modifier in force is held,
at every byte (`InForceHeld`), is a second invariant: it makes of "reset with
Ctrl and Alt in force" (`RebootInForce`) "never without a Ctrl and an Alt held".
`StepOfEach` then shows that a step
of `ConsoleInput` is a step of the ring or leaves it alone, and the same of the
keyboard, so that what is proved of the parts holds of the whole
(`ConsoleHasParts`, `InputImplementsQueue`). It needs `SerialAssumption`: the
serial line delivers characters and 0.

`ReadLine_proofs`: the invariant is `ScreenTypeOK`, `LineIsString`,
`ScreenShowsLine` and the same statement about the part of the prompt printed
so far. The step that matters is one lemma: `cons_putc` of a printable
character moves what is shown k places before the cursor to k + 1, whether or
not the screen scrolls, as long as k leaves a line free. That is where
`FitsAssumption` is needed; without it scrolling would lose the prompt's first
character. A backspace moves everything the other way. `Implementation` is
about the buffer as lines (`Lines`, with `At` for the cell at a row and column):
`PlaceOf` and `PlaceAt` are the arithmetic of row and column, `NextLine` and
`SameLine` say where the cursor comes to be, and `PutcTerminal` goes through the
cases of `cga_putc`; a tab is five spaces, each a step of its own. It needs
`ScreenTypeOK`, so that the cursor is in the buffer, and `ColoursAssumption`: the
colour 0, "no colour", is one of the colours, and colours are numbers.

`Monitor_proofs`, the search: `SearchCorrect` is about every table, every region
whose entries of the type are sorted, and every address. The loop invariant
`LoopInv` has two halves. On the right, `region_right` always equals `r`, and
entries behind it are too high. On the left either nothing has been found and
the address has not moved (`NothingLeft`), or `region_left` is an entry below
the address as it is now and the last one before `l` (`LeftFound`). Since `addr`
moves, a third part says that every value it has left behind is the value of an
entry; this is why the result may only be wrong where entries are at consecutive
addresses. The proof has a lemma for each branch of the loop and one for each
way it can end.

`Monitor_proofs`, the line: `RunInv` says where `runcmd` is in its line. Up to
`ptr` the buffer is the line with its spaces overwritten (`Split`), and `argv` has
the words that begin before, in their order and none missing (`WordsBefore`); in
the loop that gobbles, `ptr` is not inside of a word (`BetweenWords`), which is
why the next character that is not a space begins one. Counting them is a
bijection (`WordsCounted`), so that `argc` is the number of words, and refusing a
line with `argv` full is refusing one with a word too many (`FullRun`). That the
0s make each word a string of its own is `StringIsWord`, and that comparing a name
with it finds equal words and no others is `MatchesWord`. `LeastNat` finds where a
word ends. Lines are of any length, `argv` of any size greater than 0.

`Monitor_proofs`, the backtrace: `BacktraceCorrect` is about every program, every
table the linker lays out for it, and every stack of calls in it. It has three
parts.

1. Where the entries are. A table is a concatenation of concatenations: lines in
   functions, functions in files, files in a table. `Laid` gives for the parts of
   one of them the offsets at which they begin, for `FlattenSeq` of any number
   of parts, and `LinesLaid`, `FunctionLaid`, `CodeLaid`, `FileLaid` and `TableLaid`
   use it level by level. What they give is a statement about places in the table
   (`LinesAre`, `FunctionIs`, `CodeIs`, `InFile`, `TableIs`), so that the rest of
   the proof does not know how it was put together.
2. What a search can find. From the order of lines, functions and files follows
   that the entries of a type are sorted in each region that is searched
   (`Ordered`) and, but for lines, that no two have consecutive addresses where
   `stab_binsearch` may take one for the other (`Clear`): this is where
   `IsProgram` asks for functions of more than one byte. Then there is exactly
   one region it can return (`InRegion`), and it is the file's and the function's
   that the address is in (`FileLocated`, `EndLocated`, `FunctionLocated`); for
   lines, what is found is a line of the address, or lines begin at it and right
   behind it (`LineFound`, the second case is `Crowded` in the property). The name
   of the line's file is that of the last `SOL`, or the file's `SO`, before it
   (`FileIs`): the loop in which `debuginfo_eip` goes back to it stops there.
   `AddressLocated` puts this together for any address in the program.
3. The walk. `BacktraceInv` is `SearchInv` of the search, with what
   `debuginfo_eip` has found so far (`SearchStep`: the file's region, then the
   function's, or that the file has no functions) and what has been reported
   (`Told`: the pointers `frame[k]` from `Ebp` on, each report true of the return
   address above its pointer, and the next pointer in `stack_smernik`). The
   invariant of `stab_binsearch` had to say more than its caller is promised:
   that the region it returns ends where its own region does or before an entry
   of the type (`RegionClosed`).

`Services_proofs`, the strings: `MemoryCorrect` is about `memmove` and `memset`
in a memory of any size, for all ranges and alignments. The invariant says which
bytes have been written, upwards from the start or downwards from the end, and
that all others are as before; that the bytes a repetition reads are among the
others follows from the direction (`Backward`), for words as for bytes.

`StringsCorrect` is about the functions with a loop over a string, for any
memories, pointers, counts, characters and bases. `StrInv` says where the loop
is: a scan has passed over characters that do not stop it (`ScanInv`), a copy
has written a prefix of its source and nothing else (`CopyInv`), which is why
what it has yet to read is as it was; `strtol` is in the spaces (`BlanksInv`),
behind its sign and prefix (`PrefixInv`), or has in `val` the value of the
digits read, wrapped (`DigitsInv`). That value is a recursive function;
`DigitsValueFacts` gets its equations from the existence of such functions on an
interval, and `LongRemainder` says that wrapping at every turn, as `long`
arithmetic does, is wrapping once at the end. `StringsAssumption` is only about
what the constants are.

`Printing_proofs`, the console: `OutputCorrect` is about `cputchar` with any
int, a wait of any bound (`MaxWait`) and devices that transmit when they like. A
port's part of the invariant (`PortsOK`) is kept by a write only because the
port was ready, so that nothing it holds is lost, and by `gaveUp` otherwise;
`ToCome`, the spaces still owed for a tab, makes of "when `cputchar` has
returned" something that holds at every step (`TabsOK`). The histories are
concatenated by `FlattenSeq`, which is recursive: `FlattenAppend` says what one
sequence more adds, from the existence (`PrefixesExist`) and the uniqueness
(`PrefixesAgree`) of the function that `FlattenSeq` chooses, both by `LeastNat`.
`SearchSpec`, `MemSpec` and `OutSpec`, which `SearchCorrect`, `MemoryCorrect`
and `OutputCorrect` are about, let callers call the function with anything; in
the runs `Monitor`, `StringOps` and `Printing` call it. That `Printing` does so
within `OutSpec` is `PrintingUsesConsole`, and `PrintingDelivered` follows.

`Printing_proofs`, the format: `PrintingCorrect` and `SnprintfCorrect` are about
any directives that `IsDirective` admits (`PrintingAssumption`), any size of
`int` and any sizes of buffers. `IsDirective` is what a call with arguments of
the right types can be: a width or precision is an `int`, from a quarter of the
negative range up, since `--width` would overflow near its end (undefined in C),
and positive if it is written in the format, where a leading 0 is a flag; the
number of an error has a negation; strings are of bytes other than 0, as is the
text behind the directive, which has no `%` in it. `PrintFmtAssumption` is about
the texts the code has of its own.

Both follow from `PrintInv`. It is needed because the two properties speak of the
end of a call, when the directive has long been read. The call has three stages
(`Underway`). Before the `%`, all of the format is there (`Unread`). In the
directive nothing has been handed over yet; which part of the format is left,
which arguments are, and what the flags are go together, one predicate for each
place between two parts of a directive (`AtPad` to `AtLong`, together
`InDirective`), and one lemma says how each part leads from its place to
the next (`OnPad` to `OnLongFlag`; `OnNumber` and `OnStar`, which serve the width
and the precision). Behind it (`ReadThrough`), what has been handed over and what
is left, pending or still in the format (`Left`), make up what is to be printed.
`Handed` says what that has done: for `cprintf` it is what `cputchar` was called
with, for `snprintf` the beginning of it is in the buffer and `cnt` is its
length. `Buffer` keeps what is behind the buffer untouched at every moment.

`OnConversion` is where the stages meet, by `ConversionPrints`: for every
conversion, what `vprintfmt` makes of value and flags is `Output`, the `Stands`
of `Printed`; `AsCommented` says that this is what `Asked` has, but for a
`DashedNumber`. For numbers
that is `PrintnumFacts`: `printnum` gives `NumeralOf`, padded. `printnum` divides
until one digit is left, while `NumeralOf` has all digits at once, from the powers
of the base; `NumeralStep` says that the numeral of v is that of v / base and one
digit more, by `DivideTwice` (dividing by a power and by the base is dividing by
the next power) and `LengthStep` (which has one digit less). A width in the format
is written as such a numeral, and `ReadBack` says that reading it
gives the width again. Powers, `printnum` and the reading of digits are recursive
functions; their equations come from the existence and the uniqueness of such
functions on an interval, as for `FlattenSeq`.

`MemInit_proofs`: `MemInitInv` is about every machine and
every layout in which the boundaries are page boundaries in the order the code
has them in, the window of `entry_pgdir` is smaller than what KERNBASE leaves,
base memory has room for the kernel's page tables (`BaseAssumption`: 66 pages of
640K), and `KSTKSIZE` pages, mapped by mistake, end before the address space
does (`AddressAssumption`: 128MB of 256). It has five parts.

- `AreasOK` and `WrittenOK` say where `boot_alloc` has put things.
- `ListOK` says what the free list is in each of the four loops that rewrite it.
  A list is a `Chain`: a rank falls from page to page, and no page of the set is
  passed over. The rank is the page number, until `check_page_free_list` puts
  the low pages in front, and then a permutation of it which only has to exist
  (`Linked`). `ChainList` says that following the links of a chain visits its
  set and ends: n + 1 pages of falling rank differ, so there are no more steps
  than pages, by `FS_Injection`. Taking the first page, removing one, pushing
  one and permuting the first three keep a chain (`ChainPop`, `ChainRemove`,
  `ChainPush`, `ChainThree`).
- `FreeListOK` says that, from the checks on, the list has the pages that were
  kept and are not page tables, the low ones in front until the switch.
- `TablesOK` says that the directory's entries name different pages off the
  list, and which entries there may be. It makes `MapPage` change one entry and
  no other; and with it `TableAvailable` counts: fewer tables are in use than the
  kernel needs, base memory has more pages than that, so one is free, low, and
  by the order of the list the first. That is why `pgdir_walk`'s NULL, which
  `boot_map_region` does not check, never comes (`NoFault`).
- `MappingOK` gives every entry's value while the three regions are built, the
  last one written on top. The loop condition compares addresses in bytes that
  it has advanced in pages; `LoopCondition` shows that it counts to `size`
  nonetheless, and `TargetFacts` that the region of the stack, too long by
  PGSIZE, stays out of the window at UVPT. `SpaceAsDescribed` follows by reading
  off the entries at the end, `UserKeptOut` from `RightsOK` at every moment.

The recursion of `ListFrom` and the loops are over numbers; that a function
defined by recursion exists, and that a set of numbers has a least element, come
from `WFMin` and `NatLessThanWellFounded` of the library, which need no operator
as a parameter. `StopsOnlyUnbootable` is an action property and is proved from
the same invariant, assertion by assertion: of `check_page_free_list`
(`AssertionsHold`) and of `check_kern_pgdir` (`LooksRight`).

`Entry_proofs`: `EntryInv` says how far `readseg` has come: `pa` is at the start
of a sector, `offset` is the sector of the disk that belongs there, and what is
below `pa` of the segment being read is in place (between the command and
`insl`, the disk is asked for that sector), as are all segments before it
(`Loaded`; the headers count as segment 0). A sector brings each address the
byte the file has for it (`ByteOfFile`), because address and offset differ by
whole sectors. What else the sector covers is harmless (`SectorHarmless`) under
the conditions of `ImagesAssumption`: that is what "we load in increasing order"
(`main.c:85-86`) comes to. It need not be true of a file that the loader is
given, only of what `ld` makes with `kern/kernel.ld`: no sector of a segment is
the loader's or the headers', and where one holds bytes of an earlier segment
too, both lie at the same distance from their place in the file. `SameEntry` and
`MappedTwice` are the arithmetic of the one page table at two places, for which
KERNBASE has to be a multiple of what a table maps. `LayoutAssumption` says that
the kernel fits into that (4MB), and has its stack in the data segment and its
bss behind it.

Only model-checked: liveness, since fairness is beyond the prover, and what the
two violated runs and the configurations run by hand refute. Every invariant and every action property of a passing run is
proved.

## Not modelled

- `_panic` and `_warn` (`kern/init.c`): a panic is a state in which the kernel
  has stopped, in the modules where one may happen. That a panic inside of a
  panic goes straight to the monitor is a test of one pointer.
- The cursor registers of the screen, the printer's strobe, the divisor and
  modem registers of the serial port: written, never read.
- The segment registers and descriptor table of `boot.S`, and the bits of cr0
  that `mem_init` sets and `entry.S` has set already.
- What `help` and `kerninfo` print, the string table's bounds in
  `debuginfo_eip`, and the words of arguments in a backtrace.
- Headers with one-instruction wrappers and constants, the build and grading
  scripts, and the programs of later labs in `user/` and `fs/`, which this tree
  cannot build.
