--------------------------- MODULE ConsoleOutput ---------------------------
(***************************************************************************)
(* cons_putc of kern/console.c: a character goes to the serial port, then  *)
(* to the parallel port, then to the screen.  The first two are devices    *)
(* that take their time, or are not there; serial_putc and lpt_putc wait   *)
(* for them, but not for ever.  A step is a turn of a wait.                *)
(***************************************************************************)
EXTENDS Integers, SequencesExt

CONSTANT MaxWait   \* 12800 in the code

ASSUME WaitAssumption == MaxWait \in Nat

Ports == {"serial", "lpt"}

VARIABLES
  at,      \* where cons_putc is: "idle", a port, or "cga"
  char,    \* its argument
  i,       \* the counter of the wait
  held,    \* what a port has taken and not yet sent, <<>> if it is ready
  sent,    \* history: what a port has sent
  gaveUp,  \* history: ports for which a wait ended without success
  tab,     \* spaces that cga_putc has yet to put for a tab
  asked,   \* history: the characters cputchar was called with
  put,     \* history: the characters cons_putc was called with
  shown    \* history: those cga_putc wrote or moved the cursor for

history == <<asked, put, shown>>
outVars == <<at, char, i, held, sent, gaveUp, tab, history>>

Blank == 32
Tab == 9
Byte(c) == c % 256

OutInit ==
  /\ at = "idle" /\ char = 0 /\ i = 0 /\ tab = 0
  /\ held = [d \in Ports |-> <<>>] /\ sent = [d \in Ports |-> <<>>]
  /\ gaveUp = {} /\ asked = <<>> /\ put = <<>> /\ shown = <<>>

CallConsPutc(c) ==
  /\ at' = "serial"
  /\ char' = c
  /\ put' = Append(put, c)

cputchar(c) ==
  /\ at = "idle"
  /\ CallConsPutc(c)
  /\ asked' = Append(asked, c)
  /\ UNCHANGED <<i, held, sent, gaveUp, tab, shown>>

(* COM_LSR_TXRDY of the serial port, not busy of the printer.              *)
Ready(d) == held[d] = <<>>

Wait(d) ==
  /\ at = d
  /\ ~Ready(d) /\ i < MaxWait
  /\ i' = i + 1
  /\ UNCHANGED <<at, char, held, sent, gaveUp, tab, history>>

(* A slip: the device is waited for until it is ready.                     *)
Write_Unbounded(d, next) ==
  /\ at = d
  /\ Ready(d)
  /\ held' = [held EXCEPT ![d] = <<Byte(char)>>]
  /\ at' = next
  /\ i' = 0
  /\ UNCHANGED <<char, sent, gaveUp, tab, history>>

(* The byte is written whether the device is ready or not; what it held    *)
(* is then lost.                                                           *)
Write(d, next) ==
  /\ at = d
  /\ Ready(d) \/ i >= MaxWait
  /\ held' = [held EXCEPT ![d] = <<Byte(char)>>]
  /\ gaveUp' = IF Ready(d) THEN gaveUp ELSE gaveUp \cup {d}
  /\ at' = next
  /\ i' = 0
  /\ UNCHANGED <<char, sent, tab, history>>

serial_putc == Wait("serial") \/ Write("serial", "lpt")

(* A slip: the printer is written to while it is busy.                     *)
lpt_putc_AtOnce ==
  /\ at = "lpt"
  /\ held' = [held EXCEPT !["lpt"] = <<Byte(char)>>]
  /\ at' = "cga"
  /\ UNCHANGED <<char, i, sent, gaveUp, tab, history>>

lpt_putc == Wait("lpt") \/ Write("lpt", "cga")

(* What cga_putc does to the screen is module Screen; for a tab it calls   *)
(* cons_putc five times, which sends the spaces to the ports too.          *)
cga_putc ==
  LET isTab == Byte(char) = Tab
      spaces == IF isTab THEN 5 ELSE tab
  IN  /\ at = "cga"
      /\ shown' = IF isTab THEN shown ELSE Append(shown, char)
      /\ IF spaces > 0
         THEN CallConsPutc(Blank) /\ tab' = spaces - 1
         ELSE at' = "idle" /\ UNCHANGED <<char, put, tab>>
      /\ UNCHANGED <<i, held, sent, gaveUp, asked>>

cons_putc == serial_putc \/ lpt_putc \/ cga_putc

(* The device sends what it holds, sooner or later or never.               *)
Transmit(d) ==
  /\ ~Ready(d)
  /\ sent' = [sent EXCEPT ![d] = @ \o held[d]]
  /\ held' = [held EXCEPT ![d] = <<>>]
  /\ UNCHANGED <<at, char, i, gaveUp, tab, history>>

Devices == \E d \in Ports : Transmit(d)

(* cons_putc as it is called, with any int.                                *)
OutNext == (\E c \in Int : cputchar(c)) \/ cons_putc \/ Devices

OutSpec == OutInit /\ [][OutNext]_outVars

-----------------------------------------------------------------------------
(* How many characters have been written to port d.                        *)
Written(d) ==
  Len(put) - (IF at = "serial" \/ (at = "lpt" /\ d = "lpt") THEN 1 ELSE 0)

(* How many cga_putc has been called with.                                 *)
Done == Len(put) - (IF at = "idle" THEN 0 ELSE 1)

Expanded(c) == IF Byte(c) = Tab THEN <<c>> \o [k \in 1 .. 5 |-> Blank] ELSE <<c>>
Displayed(c) == IF Byte(c) = Tab THEN <<>> ELSE <<c>>

(* A port that keeps up sends every character once and in order, whatever  *)
(* the other one does; a port that does not keeps neither the other nor    *)
(* the screen from having them all, and the screen never has one that the  *)
(* ports have not been given (console.c:65-76, 111-121, 431-438).          *)
OutputDelivered ==
  /\ \A d \in Ports \ gaveUp :
       sent[d] \o held[d] = [k \in 1 .. Written(d) |-> Byte(put[k])]
  /\ shown = FlattenSeq([k \in 1 .. Done |-> Displayed(put[k])])
  /\ at = "idle" =>
       put = FlattenSeq([k \in DOMAIN asked |-> Expanded(asked[k])])
=============================================================================
