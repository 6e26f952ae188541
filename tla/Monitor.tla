------------------------------ MODULE Monitor ------------------------------
(***************************************************************************)
(* The loop of monitor in kern/monitor.c: a line, runcmd, a command, the   *)
(* prompt again.  mon_help and mon_kerninfo print and return; backtrace    *)
(* looks every frame of the stack up in the debug information.             *)
(***************************************************************************)
EXTENDS RunCmd, DebugInfo, KernelImage

CONSTANTS
  BACKTRACE,   \* the number of the command backtrace
  Programs,    \* the programs that the tables are of
  End          \* where their text ends

(* Each frame has the frame pointer of its caller, up to that of the code  *)
(* entry.S called, and the address to return to, in words of the stack.    *)
IsStack(s, frames) ==
  /\ Ebp \in frames /\ NoFrame \notin frames
  /\ \A p \in frames :
       /\ p \in Int /\ s[p] \in frames \cup {NoFrame}
       /\ s[p + 1] \in Nat
       /\ \A program \in Programs : IsReturnAddress(s[p + 1], program, End)

ASSUME MonitorAssumption ==
  /\ BACKTRACE \in DOMAIN Commands
  /\ {"FUN", "SLINE"} \subseteq Types
  /\ \A program \in Programs : IsProgram(program, End)
  /\ Tables = {StabsOf(program, End) : program \in Programs}
  /\ \A s \in Stacks : \E frames \in SUBSET DOMAIN s : IsStack(s, frames)

vars == <<runcmdVars, debugVars>>

Init == RunCmdInit /\ DebugInit

ReadLine == CallRuncmd /\ UNCHANGED debugVars

CallCommand ==
  /\ pc = "command"
  /\ IF does = BACKTRACE
     THEN pc' = "backtrace" /\ CallBacktrace
     ELSE pc' = "done" /\ UNCHANGED debugVars
  /\ UNCHANGED <<typed, line, ptr, argc, argv, does>>

mon_backtrace ==
  /\ pc = "backtrace"
  /\ Backtrace
  /\ pc' = IF step' = "idle" THEN "done" ELSE "backtrace"
  /\ UNCHANGED <<typed, line, ptr, argc, argv, does>>

(* The command's frame is gone, with the history of what it printed.       *)
NextPrompt ==
  /\ Prompt
  /\ stack' = <<>> /\ report' = <<>>
  /\ UNCHANGED <<searchVars, stack_smernik, step, infoVars>>

Kernel ==
  \/ Runcmd /\ UNCHANGED debugVars
  \/ CallCommand \/ mon_backtrace \/ NextPrompt

Next == ReadLine \/ Kernel

(* The processor goes on; nothing is assumed of whoever types.             *)
Fairness == WF_vars(Kernel)

Spec == Init /\ [][Next]_vars /\ Fairness

-----------------------------------------------------------------------------
(* The program whose table is in the image.                                *)
TableOf == [p \in Programs |-> StabsOf(p, End)]
Program == CHOOSE p \in Programs : TableOf[p] = stabs

(* Where eip is in the program.                                            *)
LastAt(s, x) ==
  CHOOSE k \in DOMAIN s :
    s[k].start <= x /\ (k = Len(s) \/ s[k + 1].start > x)

LastLine(s, x) ==
  s[CHOOSE k \in DOMAIN s : s[k].at <= x /\ (k = Len(s) \/ s[k + 1].at > x)]

FileAt(x) == Program[LastAt(Program, x)]
FunctionAt(x) == FileAt(x).functions[LastAt(FileAt(x).functions, x)]
LinesAt(x) == IF FileAt(x).asm THEN FileAt(x).lines ELSE FunctionAt(x).lines

Where(x) ==
  LET at == LastLine(LinesAt(x), x)
      asm == FileAt(x).asm
  IN  [eip |-> x, found |-> TRUE, file |-> at.file, line |-> at.line,
       fn |-> IF asm THEN NoName ELSE FunctionAt(x).name,
       offset |-> IF asm THEN 0 ELSE x - FunctionAt(x).start,
       narg |-> IF asm THEN 0 ELSE FunctionAt(x).params]

(* Lines begin both at x and right behind it, so that stab_binsearch may   *)
(* take the second for the first.                                          *)
Crowded(x) == {x, x + 1} \subseteq {LinesAt(x)[k].at : k \in DOMAIN LinesAt(x)}

(* A backtrace has a line for every frame, from the innermost to entry.S,  *)
(* and says of each where in the program its return address is: file,      *)
(* also if it is a header, function, and line (kdebug.c:105-212).  It has  *)
(* no more than the address for one behind all that was compiled with      *)
(* stabs, after a call that does not return.                               *)
BacktraceIsTrue ==
  pc = "done" /\ does = BACKTRACE =>
    LET frame[k \in 0 .. Len(report)] ==
          IF k = 0 THEN Ebp ELSE stack[frame[k - 1]]
    IN  /\ frame[Len(report)] = NoFrame
        /\ \A k \in DOMAIN report :
             LET x == stack[frame[k - 1] + 1]
             IN  /\ frame[k - 1] # NoFrame
                 /\ IF x = End THEN report[k] = [eip |-> x, found |-> FALSE]
                    ELSE report[k] = Where(x) \/ Crowded(x)

(* Every line is worked on to its end, and the prompt comes back.          *)
PromptReturns == pc # "prompt" ~> pc = "prompt"

(* kdebug.c:31: `If *region_left > *region_right, then addr is not         *)
(* contained in any matching stab', and `*region_left points to the        *)
(* matching stab that contains addr'.                                      *)
FindsContainingStab ==
  ~searching /\ AtOrBelow # {} =>
    stabs[region_left].value <= asked.addr
=============================================================================
