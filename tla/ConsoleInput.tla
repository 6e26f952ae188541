---------------------------- MODULE ConsoleInput ----------------------------
(***************************************************************************)
(* Console input of kern/console.c: cons_getc polls the serial port, then  *)
(* the keyboard, until each has nothing more, and takes a character from   *)
(* the buffer; getchar calls it again and again.  Bytes arrive at any      *)
(* moment.                                                                 *)
(*                                                                         *)
(* A step is one call of serial_proc_data or kbd_proc_data with what       *)
(* cons_intr does with the result.  serial_proc_data reads the status and  *)
(* then the byte; a byte that arrives in between replaces one that is      *)
(* there, as if it had come before, or is seen by the next call, as if it  *)
(* had come after.                                                         *)
(***************************************************************************)
EXTENDS ConsoleRing, Keyboard

CONSTANT SerialBytes   \* the bytes the serial line delivers

ASSUME SerialAssumption == SerialBytes \subseteq Chars \cup {0}

VARIABLES
  serial_exists,  \* set by serial_init
  serialRx,       \* the receive buffer of the serial port, or NoData
  pc              \* where cons_getc is

vars == <<ringVars, kbdVars, serial_exists, serialRx, pc>>

NoData == -1

Init ==
  /\ RingInit
  /\ KbdInit
  /\ serial_exists \in BOOLEAN
  /\ serialRx = NoData
  /\ pc = "idle"

(* The serial port has room for one byte: serial_init turns its FIFO off.  *)
SerialReceive(b) ==
  /\ serial_exists
  /\ serialRx' = b
  /\ UNCHANGED <<ringVars, kbdVars, serial_exists, pc>>

Devices ==
  \/ \E b \in SerialBytes : SerialReceive(b)
  \/ KbdDevices /\ UNCHANGED <<ringVars, serial_exists, serialRx, pc>>

-----------------------------------------------------------------------------
(* cons_getc, called by getchar as long as there is no character, and by   *)
(* the monitor's next readline when there was one.                         *)
Call ==
  /\ pc = "idle"
  /\ pc' = "serial"
  /\ UNCHANGED <<ringVars, kbdVars, serial_exists, serialRx>>

(* Slips the properties must notice.                                       *)

(* The loop does not end when the driver has nothing more.                 *)
ConsIntr_Spins(c, here, next) ==
  \/ c \in {-1, 0} /\ pc' = here /\ UNCHANGED ringVars
  \/ c \notin {-1, 0} /\ pc' = here /\ Store(c)

(* One turn of cons_intr's loop, for the result c of a driver.             *)
ConsIntr(c, here, next) ==
  \/ c = -1 /\ pc' = next /\ UNCHANGED ringVars
  \/ c = 0 /\ pc' = here /\ UNCHANGED ringVars
  \/ c \notin {-1, 0} /\ pc' = here /\ Store(c)

(* The test of serial_exists is the wrong way round.                       *)
serial_intr_Inverted ==
  /\ pc = "serial"
  /\ \/ /\ ~serial_exists
        /\ ConsIntr(serialRx, "serial", "kbd")
        /\ serialRx' = NoData
     \/ /\ serial_exists
        /\ pc' = "kbd"
        /\ UNCHANGED <<ringVars, serialRx>>
  /\ UNCHANGED <<kbdVars, serial_exists>>

serial_intr ==
  /\ pc = "serial"
  /\ \/ /\ serial_exists
        /\ ConsIntr(serialRx, "serial", "kbd")
        /\ serialRx' = NoData
     \/ /\ ~serial_exists
        /\ pc' = "kbd"
        /\ UNCHANGED <<ringVars, serialRx>>
  /\ UNCHANGED <<kbdVars, serial_exists>>

(* What kbd_proc_data may return.                                          *)
Results == Chars \cup {-1, 0}

kbd_intr ==
  /\ pc = "kbd"
  /\ kbd_proc_data
  /\ \E c \in Results : result' = c /\ ConsIntr(c, "kbd", "take")
  /\ UNCHANGED <<serial_exists, serialRx>>

cons_getc ==
  /\ pc = "take"
  /\ Take
  /\ pc' = "idle"
  /\ UNCHANGED <<kbdVars, serial_exists, serialRx>>

Kernel == ~rebooted /\ (Call \/ serial_intr \/ kbd_intr \/ cons_getc)

Next == Devices \/ Kernel

(* The processor goes on, and the controller takes the bytes the keyboard  *)
(* sends.  Nothing is assumed of whoever types.                            *)
Fairness == WF_vars(Kernel) /\ WF_kbdVars(LoadKey)

Spec == Init /\ [][Next]_vars /\ Fairness

-----------------------------------------------------------------------------
(* From some moment on no key is pressed and no byte sent.                 *)
FallsSilent ==
  <>[][~(\/ \E b \in SerialBytes : SerialReceive(b)
         \/ \E k \in Keys : Press(k))]_vars

NoMouse == [](obf.from # "mouse")

(* cons_getc polls until the devices have nothing more (console.c:400):    *)
(* it returns, and goes on returning, once they have.                      *)
GetcReturns == FallsSilent => []<>(pc = "idle" \/ rebooted)

(* Whatever was typed or sent has in the end been read from its device and *)
(* taken from the buffer, if there is no mouse.                            *)
InputConsumed ==
  FallsSilent /\ NoMouse =>
    <>[](\/ kbdOut = <<>> /\ obf = NoByte /\ serialRx = NoData /\ rpos = wpos
         \/ rebooted)

(* console.c:325, `Ignore data from mouse': mouse or no mouse, what the    *)
(* keyboard sends is read.                                                 *)
MouseIgnored ==
  FallsSilent => (kbdOut # <<>> ~> kbdOut = <<>> \/ rebooted)
=============================================================================
