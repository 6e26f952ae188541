----------------------------- MODULE DebugInfo -----------------------------
(***************************************************************************)
(* debuginfo_eip of kern/kdebug.c, and mon_backtrace of kern/monitor.c,    *)
(* which calls it for every frame of the stack.  Addresses are those of    *)
(* the kernel: there is nothing below ULIM yet.                            *)
(***************************************************************************)
EXTENDS StabSearch, Sequences, FiniteSets

CONSTANTS
  Stacks,   \* what the stack may hold: functions from addresses to words
  Ebp       \* the frame pointer when mon_backtrace reads it

VARIABLES
  stack,                       \* the words of the stack
  stack_smernik,               \* the frame pointer mon_backtrace follows
  step,                        \* "idle", "frame", or the search under way
  lfile, rfile, lfun, rfun,
  eip_fn_addr, eip_fn_name,    \* of info_volania
  report                       \* history: what has been printed

infoVars == <<lfile, rfile, lfun, rfun, eip_fn_addr, eip_fn_name>>
debugVars == <<searchVars, stack, stack_smernik, step, infoVars, report>>

NoFrame == 0   \* the frame pointer that entry.S starts with
NoName == "<unknown>"

DebugInit ==
  /\ SearchInit
  /\ stack = <<>> /\ stack_smernik = NoFrame
  /\ step = "idle" /\ report = <<>>
  /\ lfile = 0 /\ rfile = 0 /\ lfun = 0 /\ rfun = 0
  /\ eip_fn_addr = 0 /\ eip_fn_name = NoName

eip == stack[stack_smernik + 1]

(* mon_backtrace is called: the stack is what the calls so far made it.    *)
CallBacktrace ==
  /\ step = "idle"
  /\ stack' \in Stacks
  /\ stack_smernik' = Ebp
  /\ step' = "frame"
  /\ UNCHANGED <<searchVars, infoVars, report>>

(* The line with the registers is printed, then debuginfo_eip is called.   *)
SearchFile ==
  /\ step = "frame"
  /\ StartSearch(0, Cardinality(DOMAIN stabs) - 1, "SO", eip)
  /\ eip_fn_name' = NoName
  /\ eip_fn_addr' = eip
  /\ step' = "file"
  /\ UNCHANGED <<stack, stack_smernik, lfile, rfile, lfun, rfun, report>>

(* debuginfo_eip returns; the frame is reported, and the next one is its   *)
(* caller's.                                                               *)
NextFrame(info) ==
  /\ report' = Append(report, info)
  /\ stack_smernik' = stack[stack_smernik]
  /\ step' = IF stack[stack_smernik] = NoFrame THEN "idle" ELSE "frame"
  /\ UNCHANGED stack

NoInfo == [eip |-> eip, found |-> FALSE]

(* Entry 0 is the header of the table: no file begins there.               *)
SearchFunction ==
  /\ step = "file" /\ ~searching
  /\ IF region_left = 0
     THEN NextFrame(NoInfo) /\ UNCHANGED <<searchVars, lfile, rfile>>
     ELSE /\ lfile' = region_left /\ rfile' = region_right
          /\ StartSearch(region_left, region_right, "FUN", eip)
          /\ step' = "function"
          /\ UNCHANGED <<stack, stack_smernik, report>>
  /\ UNCHANGED <<lfun, rfun, eip_fn_addr, eip_fn_name>>

(* The entries of a function's lines are relative to its address; those    *)
(* of an assembly file, which has no functions, are not.                   *)
LineAddress == eip - stabs[region_left].value

SearchLine ==
  /\ step = "function"
  /\ lfun' = region_left /\ rfun' = region_right
  /\ IF region_left <= region_right
     THEN /\ eip_fn_name' = stabs[region_left].name
          /\ eip_fn_addr' = stabs[region_left].value
          /\ StartSearch(region_left, region_right, "SLINE", LineAddress)
     ELSE /\ StartSearch(lfile, rfile, "SLINE", eip)
          /\ UNCHANGED <<eip_fn_addr, eip_fn_name>>
  /\ step' = "line"
  /\ UNCHANGED <<stack, stack_smernik, lfile, rfile, report>>

(* A slip: only the entry of the main file counts.                         *)
NamesFile_MainOnly(j, k) ==
  stabs[j].type = "SO" /\ \A i \in j + 1 .. k : stabs[i].type # "SO"

(* The entry that names the file, from the line's entry k backwards: code  *)
(* may come from a header.                                                 *)
NamesFile(j, k) ==
  LET Names(i) == \/ stabs[i].type = "SOL"
                  \/ stabs[i].type = "SO" /\ stabs[i].value # 0
  IN  Names(j) /\ \A i \in j + 1 .. k : ~Names(i)

Arguments ==
  Cardinality({k \in lfun + 1 .. rfun - 1 :
                 \A j \in lfun + 1 .. k : stabs[j].type = "PSYM"})

Info(j) ==
  [eip |-> eip, found |-> TRUE, file |-> stabs[j].name,
   line |-> stabs[region_left].desc, fn |-> eip_fn_name,
   offset |-> eip - eip_fn_addr, narg |-> Arguments]

Report ==
  /\ step = "line" /\ ~searching
  /\ IF region_left > region_right
     THEN NextFrame(NoInfo)
     ELSE \E j \in lfile .. region_left :
            NamesFile(j, region_left) /\ NextFrame(Info(j))
  /\ UNCHANGED <<searchVars, infoVars>>

Search ==
  /\ SearchTurn \/ SearchEnds
  /\ UNCHANGED <<stack, stack_smernik, step, infoVars, report>>

Backtrace ==
  SearchFile \/ SearchFunction \/ SearchLine \/ Report \/ Search
=============================================================================
