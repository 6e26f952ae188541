------------------------------ MODULE Keyboard ------------------------------
(***************************************************************************)
(* kbd_proc_data of kern/console.c against a keyboard, a mouse and the     *)
(* controller they share.                                                  *)
(*                                                                         *)
(* Pressing or releasing a key sends one or more bytes; the controller     *)
(* holds one byte at a time, from either device, until it is read.         *)
(* kbd_proc_data sees bytes only, one per call, and keeps what it makes of *)
(* them in `shift'.  Each call is one step: the status it reads can only   *)
(* change by its own reading of the byte.                                  *)
(*                                                                         *)
(* A byte carries, besides its code, what the properties compare against:  *)
(* whether it is the last one of an event, which key was pressed, and the  *)
(* modifiers then in force and those then held.  They differ when one of   *)
(* two keys of a modifier has been released: the last event of a modifier  *)
(* puts it in force or out of it.  The code looks at `code' alone.         *)
(***************************************************************************)
EXTENDS Integers, Sequences, FiniteSets

CONSTANTS
  Keys,      \* the keys that are used, some of AllKeys
  MaxHeld,   \* bound: how many keys are held at a time
  HasMouse   \* whether the mouse sends bytes

VARIABLES
  held,      \* the keys that are down
  mods,      \* modifiers whose last event was a press
  kbdOut,    \* bytes the keyboard has yet to send
  obf,       \* the byte in the controller
  shift,     \* the static variable of kbd_proc_data, as a set of flags
  result,    \* what kbd_proc_data returned last
  seen,      \* history: the byte it read last
  rebooted   \* it has reset the machine

kbdVars == <<held, mods, kbdOut, obf, shift, result, seen, rebooted>>

-----------------------------------------------------------------------------
(* The keyboard (external): the codes a key sends when it is pressed.      *)

Code ==
  [lshift |-> \h2A, rshift |-> \h36, lctl |-> \h1D, rctl |-> \h1D,
   lalt |-> \h38, ralt |-> \h38, caps |-> \h3A, a |-> \h1E,
   enter |-> \h1C, kpenter |-> \h1C, dot |-> \h53, del |-> \h53,
   pause |-> \h45, scroll |-> \h46]

AllKeys == DOMAIN Code

ASSUME KeysAssumption == Keys \subseteq AllKeys

(* Keys whose codes follow an 0xE0.                                        *)
Escaped == {"rctl", "ralt", "kpenter", "del"}

ModifierOf(k) ==
  CASE k \in {"lshift", "rshift"} -> {"SHIFT"}
    [] k \in {"lctl", "rctl"}     -> {"CTL"}
    [] k \in {"lalt", "ralt"}     -> {"ALT"}
    [] OTHER                      -> {}

HeldModifiers(keys) == UNION {ModifierOf(k) : k \in keys}

FakeShifts(k) == IF k = "del" THEN held \cap {"lshift", "rshift"} ELSE {}

(* What a key sends on a press.  The keyboard wraps Delete in fake shift   *)
(* codes while a shift key is down, depending on its own num lock; Pause   *)
(* sends its release along, or another code while Ctrl is down.            *)
MakeCodes(k) ==
  IF k = "pause"
  THEN IF held \cap {"lctl", "rctl"} = {}
       THEN {<<\hE1, \h1D, \h45, \hE1, \h9D, \hC5>>}
       ELSE {<<\hE0, \h46, \hE0, \hC6>>}
  ELSE IF k \notin Escaped
  THEN {<<Code[k]>>}
  ELSE {<<\hE0, Code[k]>>} \cup
       {<<\hE0, Code[s] + \h80, \hE0, Code[k]>> : s \in FakeShifts(k)}

BreakCodes(k) ==
  IF k = "pause" THEN {}
  ELSE IF k \notin Escaped
  THEN {<<Code[k] + \h80>>}
  ELSE {<<\hE0, Code[k] + \h80>>} \cup
       {<<\hE0, Code[k] + \h80, \hE0, Code[s]>> : s \in FakeShifts(k)}

NoKey == "none"

(* The bytes of an event that puts modifiers m in force and leaves keys of *)
(* the modifiers h held.                                                   *)
Bytes(codes, pressed, m, h) ==
  [i \in DOMAIN codes |->
    [from |-> "kbd", code |-> codes[i], whole |-> i = Len(codes),
     pressed |-> IF i = Len(codes) THEN pressed ELSE NoKey,
     mods |-> m, down |-> h]]

NoByte == [from |-> "none", code |-> 0, whole |-> TRUE,
           pressed |-> NoKey, mods |-> {}, down |-> {}]
MouseByte == [NoByte EXCEPT !.from = "mouse"]

KbdInit ==
  /\ held = {} /\ mods = {} /\ kbdOut = <<>> /\ obf = NoByte
  /\ shift = {} /\ result = -1 /\ seen = NoByte /\ rebooted = FALSE

(* A key goes down, or is held down and repeats.                           *)
Press(k) ==
  /\ kbdOut = <<>>
  /\ k \in held \/ Cardinality(held) < MaxHeld
  /\ \/ k \notin held
     \/ k # "pause"
  /\ \E codes \in MakeCodes(k) :
       kbdOut' = Bytes(codes, k, mods \cup ModifierOf(k),
                       HeldModifiers(held \cup {k}))
  /\ held' = held \cup {k}
  /\ mods' = mods \cup ModifierOf(k)
  /\ UNCHANGED <<obf, shift, result, seen, rebooted>>

Release(k) ==
  /\ kbdOut = <<>>
  /\ k \in held
  /\ \/ /\ BreakCodes(k) = {}
        /\ UNCHANGED kbdOut
     \/ \E codes \in BreakCodes(k) :
          kbdOut' = Bytes(codes, NoKey, mods \ ModifierOf(k),
                          HeldModifiers(held \ {k}))
  /\ held' = held \ {k}
  /\ mods' = mods \ ModifierOf(k)
  /\ UNCHANGED <<obf, shift, result, seen, rebooted>>

(* The controller takes the next byte of a device.                         *)
LoadKey ==
  /\ obf = NoByte
  /\ kbdOut # <<>>
  /\ obf' = Head(kbdOut)
  /\ kbdOut' = Tail(kbdOut)
  /\ UNCHANGED <<held, mods, shift, result, seen, rebooted>>

LoadMouse ==
  /\ HasMouse
  /\ obf = NoByte
  /\ obf' = MouseByte
  /\ UNCHANGED <<held, mods, kbdOut, shift, result, seen, rebooted>>

KbdDevices ==
  \/ \E k \in Keys : Press(k) \/ Release(k)
  \/ LoadKey
  \/ LoadMouse
-----------------------------------------------------------------------------
(* kbd_proc_data: the tables, for the codes above; 0 is NO.                *)

KEY_DEL == \hE9

shiftcode(d) ==
  CASE d \in {\h1D, \h9D} -> {"CTL"}
    [] d \in {\h2A, \h36} -> {"SHIFT"}
    [] d \in {\h38, \hB8} -> {"ALT"}
    [] OTHER              -> {}

togglecode(d) ==
  CASE d = \h3A -> {"CAPSLOCK"}
    [] d = \h45 -> {"NUMLOCK"}
    [] d = \h46 -> {"SCROLLLOCK"}
    [] OTHER    -> {}

(* normalmap, shiftmap and ctlmap, chosen by shift & (CTL | SHIFT).        *)
charcode(flags, d) ==
  LET ctl == "CTL" \in flags IN
  CASE d = \h1E -> IF ctl THEN 1 ELSE IF "SHIFT" \in flags THEN 65 ELSE 97
    [] d = \h1C -> IF ctl THEN 13 ELSE 10
    [] d = \h9C -> IF ctl THEN 0 ELSE 10
    [] d = \h53 -> IF ctl THEN 0 ELSE 46
    [] d = \hD3 -> KEY_DEL
    [] OTHER    -> 0

(* Caps lock exchanges the cases of a letter.                              *)
capslock(flags, c) ==
  IF "CAPSLOCK" \notin flags THEN c
  ELSE CASE c \in 97 .. 122 -> c - 32
         [] c \in 65 .. 90  -> c + 32
         [] OTHER           -> c

SymDiff(S, T) == (S \ T) \cup (T \ S)

(* Slips the properties must notice.                                       *)

(* A release is looked up as if no E0 had come before it.                  *)
KeyReleased_Unescaped(data) ==
  /\ data >= \h80 /\ data # \hE0
  /\ shift' = shift \ (shiftcode(data % \h80) \cup {"E0ESC"})
  /\ result' = 0
  /\ UNCHANGED rebooted

(* Either of Ctrl and Alt is enough.                                       *)
CtrlAlt_Either(flags) == flags \cap {"CTL", "ALT"} # {}

(* The escape stays in force after the code it belongs to.                 *)
KeyPressed_StaysEscaped(data) ==
  LET d == IF "E0ESC" \in shift THEN data + \h80 ELSE data
      flags == SymDiff(shift \cup shiftcode(d), togglecode(d))
      c == capslock(flags, charcode(flags, d))
  IN  /\ data < \h80
      /\ shift' = flags
      /\ result' = c
      /\ rebooted' = ({"CTL", "ALT"} \subseteq flags /\ c = KEY_DEL)

CtrlAlt(flags) == {"CTL", "ALT"} \subseteq flags

Escape(data) ==
  /\ data = \hE0
  /\ shift' = shift \cup {"E0ESC"}
  /\ result' = 0
  /\ UNCHANGED rebooted

KeyReleased(data) ==
  LET d == IF "E0ESC" \in shift THEN data ELSE data % \h80
  IN  /\ data >= \h80 /\ data # \hE0
      /\ shift' = shift \ (shiftcode(d) \cup {"E0ESC"})
      /\ result' = 0
      /\ UNCHANGED rebooted

KeyPressed(data) ==
  LET d == IF "E0ESC" \in shift THEN data + \h80 ELSE data
      flags == SymDiff((shift \ {"E0ESC"}) \cup shiftcode(d), togglecode(d))
      c == capslock(flags, charcode(flags, d))
  IN  /\ data < \h80
      /\ shift' = flags
      /\ result' = c
      /\ rebooted' = (CtrlAlt(flags) /\ c = KEY_DEL)

(* A byte that comes from the mouse stays where it is.                     *)
kbd_proc_data ==
  /\ ~rebooted
  /\ \/ /\ obf.from # "kbd"
        /\ result' = -1
        /\ UNCHANGED <<obf, shift, seen, rebooted>>
     \/ /\ obf.from = "kbd"
        /\ obf' = NoByte
        /\ seen' = obf
        /\ Escape(obf.code) \/ KeyReleased(obf.code) \/ KeyPressed(obf.code)
  /\ UNCHANGED <<held, mods, kbdOut>>

KbdNext == KbdDevices \/ kbd_proc_data

KbdSpec == KbdInit /\ [][KbdNext]_kbdVars

-----------------------------------------------------------------------------
(* After every whole event the flags of kbd_proc_data are the modifiers in *)
(* force: no key, released in whatever order, with fake shift codes around *)
(* it or with codes of its own, leaves one stuck or drops one; and no      *)
(* escape is left over for the next code.                                  *)
ModifiersFollowKeys ==
  seen.whole => shift \ {"CAPSLOCK", "NUMLOCK", "SCROLLLOCK"} = seen.mods

(* What a key stands for under modifiers m.                                *)
Meaning(k, m) ==
  CASE k = "a" ->
         IF "CTL" \in m THEN 1
         ELSE IF ("SHIFT" \in m) # ("CAPSLOCK" \in shift) THEN 65 ELSE 97
    [] k = "enter" -> IF "CTL" \in m THEN 13 ELSE 10
    [] k = "kpenter" /\ "CTL" \notin m -> 10
    [] k = "dot" /\ "CTL" \notin m -> 46
    [] k = "del" -> KEY_DEL
    [] OTHER -> 0

(* Each press yields one character, that of the key under the modifiers in *)
(* force, when its last byte is read; the other bytes and releases yield   *)
(* 0, which cons_intr drops.                                               *)
OneCharacterPerPress ==
  result \in {-1, IF seen.whole THEN Meaning(seen.pressed, seen.mods) ELSE 0}

(* Delete resets the machine (kern/console.c:357-361) if it is pressed     *)
(* with Ctrl and Alt in force, through whatever codes they came to be so,  *)
(* and nothing else does; and when it does, a Ctrl and an Alt are held.    *)
(* In force means that the last event of the modifier was a press, and is  *)
(* not the same as held: see RebootWheneverHeld.                           *)
RebootOnCtrlAltDel ==
  /\ rebooted <=> seen.pressed = "del" /\ {"CTL", "ALT"} \subseteq seen.mods
  /\ rebooted => {"CTL", "ALT"} \subseteq seen.down

(* What kern/console.c:358, `Ctrl-Alt-Del: reboot', promises to who holds  *)
(* the keys.  It does not hold: with both Ctrl keys and an Alt down and    *)
(* one of the Ctrl keys released, Delete does nothing, since the two have  *)
(* one flag.                                                               *)
RebootWheneverHeld ==
  seen.pressed = "del" /\ {"CTL", "ALT"} \subseteq seen.down => rebooted
=============================================================================
