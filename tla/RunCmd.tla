------------------------------- MODULE RunCmd -------------------------------
(***************************************************************************)
(* runcmd of kern/monitor.c: split the line readline returned, in place,   *)
(* into argv, and look the first word up in the table of commands.  A step *)
(* is one turn of one of its loops.                                        *)
(***************************************************************************)
EXTENDS Integers, Sequences, FiniteSets

CONSTANTS
  MAXARGS,     \* size of argv
  MaxLength,   \* bound: characters in a line
  Characters,  \* characters of words, not 0
  SPACE,       \* the character of WHITESPACE that readline can return
  Commands     \* the names in the table of commands, in its order

ASSUME RunCmdAssumption ==
  /\ MAXARGS \in Nat \ {0}
  /\ 0 \notin Characters /\ SPACE \notin Characters \cup {0}
  /\ Commands \in Seq(Seq(Characters))

VARIABLES
  typed,   \* history: the line as it was, a sequence of characters
  line,    \* the buffer, line[0 .. Len(typed)], ending in 0
  ptr,     \* the pointer buf
  argc,
  argv,    \* argv[0 .. MAXARGS-1], positions in the buffer
  pc,      \* "prompt", "gobble", "scan", "lookup", "command" or "done"
  does     \* the number of the command it calls, or one of the below

runcmdVars == <<typed, line, ptr, argc, argv, pc, does>>

NULL == -1      \* the null pointer
Garbage == -2   \* an element of argv that was not assigned

(* What runcmd does, if it does not call a command.                        *)
Nothing == 0
Unknown == -1
TooMany == -2

Lines == UNION {[1 .. k -> Characters \cup {SPACE}] : k \in 0 .. MaxLength}

Buffer(t) == [k \in 0 .. Len(t) |-> IF k < Len(t) THEN t[k + 1] ELSE 0]

NoArguments == [k \in 0 .. MAXARGS - 1 |-> IF k = 0 THEN NULL ELSE Garbage]

RunCmdInit ==
  /\ typed = <<>>
  /\ line = Buffer(<<>>)
  /\ ptr = 0 /\ argc = 0 /\ argv = NoArguments
  /\ pc = "prompt"
  /\ does = Nothing

(* readline returns, and runcmd is called.                                 *)
CallRuncmd ==
  /\ pc = "prompt"
  /\ typed' \in Lines
  /\ line' = Buffer(typed')
  /\ pc' = "gobble"
  /\ UNCHANGED <<ptr, argc, argv, does>>

(* A slip: a space is skipped, not overwritten.                            *)
Gobble_Keeps ==
  /\ pc = "gobble"
  /\ line[ptr] = SPACE
  /\ ptr' = ptr + 1
  /\ UNCHANGED <<typed, line, argc, argv, pc, does>>

Gobble ==
  /\ pc = "gobble"
  /\ line[ptr] = SPACE
  /\ line' = [line EXCEPT ![ptr] = 0]
  /\ ptr' = ptr + 1
  /\ UNCHANGED <<typed, argc, argv, pc, does>>

(* A slip: a command is found by its beginning.                                    *)
Matches_Prefix(k, p) ==
  \A j \in 1 .. Len(Commands[k]) :
    p + j - 1 < Len(typed) /\ line[p + j - 1] = Commands[k][j]

Full == argc = MAXARGS - 1

NextWord ==
  /\ pc = "gobble"
  /\ line[ptr] \notin {SPACE, 0}
  /\ IF Full
     THEN /\ does' = TooMany
          /\ pc' = "done"
          /\ UNCHANGED <<argc, argv>>
     ELSE /\ argv' = [argv EXCEPT ![argc] = ptr]
          /\ argc' = argc + 1
          /\ pc' = "scan"
          /\ UNCHANGED does
  /\ UNCHANGED <<typed, line, ptr>>

Scan ==
  /\ pc = "scan"
  /\ IF line[ptr] \notin {SPACE, 0}
     THEN ptr' = ptr + 1 /\ UNCHANGED pc
     ELSE pc' = "gobble" /\ UNCHANGED ptr
  /\ UNCHANGED <<typed, line, argc, argv, does>>

LineEnds ==
  /\ pc = "gobble"
  /\ line[ptr] = 0
  /\ argv' = [argv EXCEPT ![argc] = NULL]
  /\ pc' = "lookup"
  /\ UNCHANGED <<typed, line, ptr, argc, does>>

(* strcmp(commands[k].name, &line[p]) == 0                                 *)
Matches(k, p) ==
  /\ \A j \in 1 .. Len(Commands[k]) :
       p + j - 1 < Len(typed) /\ line[p + j - 1] = Commands[k][j]
  /\ line[p + Len(Commands[k])] = 0

Found == {k \in DOMAIN Commands : Matches(k, argv[0])}

(* The first command with that name is called.                             *)
Lookup ==
  /\ pc = "lookup"
  /\ does' = IF argc = 0 THEN Nothing
             ELSE IF Found = {} THEN Unknown
             ELSE CHOOSE k \in Found : \A j \in Found : k <= j
  /\ pc' = IF argc = 0 \/ Found = {} THEN "done" ELSE "command"
  /\ UNCHANGED <<typed, line, ptr, argc, argv>>

Runcmd == Gobble \/ NextWord \/ Scan \/ LineEnds \/ Lookup

(* runcmd has returned 0, its variables are gone, and monitor prompts for  *)
(* the next line, which will overwrite the buffer.                         *)
Prompt ==
  /\ pc = "done"
  /\ typed' = <<>> /\ line' = Buffer(<<>>)
  /\ ptr' = 0 /\ argc' = 0 /\ argv' = NoArguments
  /\ pc' = "prompt"
  /\ does' = Nothing

-----------------------------------------------------------------------------
(* The words of the line as it was typed, by where they begin.             *)
Starts ==
  {p \in 1 .. Len(typed) :
     typed[p] # SPACE /\ (p = 1 \/ typed[p - 1] = SPACE)}

Word(p) ==
  SubSeq(typed, p,
         CHOOSE e \in p .. Len(typed) :
           /\ SPACE \notin {typed[k] : k \in p .. e}
           /\ e = Len(typed) \/ typed[e + 1] = SPACE)

(* The string that begins at position p of the buffer.                     *)
StringAt(p) ==
  LET end == CHOOSE e \in p .. Len(typed) :
               line[e] = 0 /\ \A k \in p .. e - 1 : line[k] # 0
  IN  [k \in 1 .. end - p |-> line[p + k - 1]]

(* A command gets the words of the line, all of them and in order, each a  *)
(* string of its own, and a NULL after them.                               *)
ArgvIsWords ==
  pc \in {"command", "done"} /\ does # TooMany =>
    /\ argc = Cardinality(Starts)
    /\ argv[argc] = NULL
    /\ \A k \in 0 .. argc - 1 :
         /\ argv[k] + 1 \in Starts
         /\ k > 0 => argv[k - 1] < argv[k]
         /\ StringAt(argv[k]) = Word(argv[k] + 1)

(* The command called is the one the first word names, not one whose name  *)
(* only begins like it; no line is refused that argv had room for.         *)
RunsWhatWasTyped ==
  pc \in {"command", "done"} =>
    IF Cardinality(Starts) >= MAXARGS THEN does = TooMany
    ELSE IF Starts = {} THEN does = Nothing
    ELSE LET name == Word(CHOOSE p \in Starts : \A q \in Starts : p <= q)
         IN  IF does = Unknown
             THEN \A k \in DOMAIN Commands : Commands[k] # name
             ELSE does \in DOMAIN Commands /\ Commands[does] = name
=============================================================================
