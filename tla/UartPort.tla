------------------------------ MODULE UartPort ------------------------------
(***************************************************************************)
(* The three serial port libraries of the repository: HW_Uart_* (Uart      *)
(* v1.0), Serial* (Uart v2.0) and zbSoc* (the gateway's, of which Gateway  *)
(* and SerialRpc take the port as open and configured).  Each keeps the    *)
(* descriptor in one global variable.                                      *)
(*                                                                         *)
(* Callers call the operations in any order; other parts of the process    *)
(* open and close files meanwhile.  Descriptor 0 is a terminal, or free if *)
(* the process was started with it closed.  open() takes the lowest free   *)
(* descriptor; calls on the port may fail, as when it is unplugged.        *)
(***************************************************************************)
EXTENDS Integers, Sequences, FiniteSets, SequencesExt

CONSTANTS
  Libs,      \* of "v1", "v2", "soc"
  NumFds,    \* descriptors of the process
  Requests   \* what callers ask for: records [bits, parity, speed, stop]

ASSUME PortAssumption ==
  /\ Libs \subseteq {"v1", "v2", "soc"} /\ NumFds \in Nat \ {0}
  /\ \A r \in Requests : DOMAIN r = {"bits", "parity", "speed", "stop"}

Fds == 0 .. NumFds - 1
Garbage == {"ok", "failed"}   \* what callers take an undefined value for

VARIABLES
  lib,          \* the library in use
  SerialPortFd, \* its variable: SerialFd, SerialPortFd, serialPortFd
  fdTable,      \* kernel: "free", "port", or "other" for what others have open
  termios,      \* kernel: the port's settings
  told,         \* what the last configuration returned: "ok", "failed";
                \* "nothing" if there was none since an open
  asked,        \* history: what the last one that returned "ok" asked for
  acted,        \* history: what the last operation acted on: "nothing", "port", "other"
  opened,       \* history: an open was tried
  closed        \* history: the library closed a descriptor since the last open

portVars == <<lib, SerialPortFd, fdTable, termios, told, asked, acted, opened, closed>>

Factory == [bits |-> 8, parity |-> "n", strip |-> FALSE, speed |-> 9600, stop |-> 1]
SocRequest == [bits |-> 8, parity |-> "n", speed |-> 115200, stop |-> 1]

PortInit ==
  /\ lib \in Libs /\ SerialPortFd = 0
  /\ \E first \in {"free", "other"} :
       fdTable = [f \in Fds |-> IF f = 0 THEN first ELSE "free"]
  /\ termios = Factory /\ told = "nothing" /\ asked = SocRequest
  /\ acted = "nothing" /\ opened = FALSE /\ closed = FALSE

-----------------------------------------------------------------------------
(* What the configuration functions make of a request: termios settings or, *)
(* before anything was touched, a refusal.                                  *)

Refusal == [refused |-> {"failed"}]

\* Callers of v1 use the names of Uart.h: STOPBIT_2 is 1, BAUDRATE_460800 115200.
Named(r) == [bits |-> r.bits, parity |-> r.parity,
             speed |-> IF r.speed = 460800 THEN 115200 ELSE r.speed,
             stop |-> IF r.stop = 2 THEN 1 ELSE r.stop]

\* With parity the eighth bit is stripped; other sizes than 7 and 8 give CS5.
HW_Uart_Config(r) ==
  IF /\ r.parity \in {"o", "e", "n", "s"}
     /\ r.speed \in {2400, 4800, 9600, 115200, 460800}
     /\ r.stop \in {1, 2}
    THEN [bits |-> IF r.bits \in {7, 8} THEN r.bits ELSE 5, parity |-> r.parity,
          strip |-> r.parity \in {"o", "e"}, speed |-> r.speed, stop |-> r.stop]
    ELSE Refusal

zbSocUartConfig(r) ==
  IF /\ r.parity \in {"o", "e", "n", "s"}
     /\ r.speed \in {2400, 4800, 9600, 115200, 460800}
     /\ r.stop \in {1, 2}
    THEN [bits |-> IF r.bits \in {7, 8} THEN r.bits ELSE 5, parity |-> r.parity,
          strip |-> r.parity \in {"o", "e"}, speed |-> r.speed, stop |-> r.stop]
    ELSE Refusal

\* Mutant of SerialConfig: a size that is not known is passed on, as in v1.
SerialConfigAnySize(r) ==
  IF r.parity \notin {"o", "e", "n", "s"} \/ r.speed \notin {2400, 4800, 9600, 19200, 38400, 115200}
    THEN Refusal
  ELSE IF r.stop \notin {1, 2} THEN [refused |-> Garbage]
  ELSE [bits |-> IF r.bits \in 5 .. 8 THEN r.bits ELSE 5, parity |-> r.parity,
        strip |-> FALSE, speed |-> r.speed, stop |-> r.stop]

\* Wrong stop bits are refused by a return without a value.
SerialConfig(r) ==
  IF \/ r.bits \notin 5 .. 8 \/ r.parity \notin {"o", "e", "n", "s"}
     \/ r.speed \notin {2400, 4800, 9600, 19200, 38400, 115200}
    THEN Refusal
  ELSE IF r.stop \notin {1, 2} THEN [refused |-> Garbage]
  ELSE [bits |-> r.bits, parity |-> r.parity, strip |-> FALSE,
        speed |-> r.speed, stop |-> r.stop]

Settings(r) == CASE lib = "v1"  -> HW_Uart_Config(Named(r))
                 [] lib = "v2"  -> SerialConfig(r)
                 [] lib = "soc" -> zbSocUartConfig(r)

-----------------------------------------------------------------------------
(* The operations.                                                         *)

FileAt(f) == IF f \in Fds /\ fdTable[f] # "free" THEN fdTable[f] ELSE "nothing"

\* Mutant of SerialIsValid: no check.
AlwaysValid == TRUE

\* only v2 looks at its variable; 0 is the value it has before the first open
SerialIsValid == lib = "v2" => SerialPortFd # 0

\* tcgetattr(), the request, tcflush(TCIFLUSH) and tcsetattr() on the file at fd.
\* Another file may be a terminal, whose settings are changed then.
Configure(r, fd) ==
  LET s == Settings(r)
  IN /\ \/ FileAt(fd) # "nothing"
           /\ "refused" \notin DOMAIN s
           /\ acted' = FileAt(fd) /\ told' = "ok"
           /\ termios' = IF acted' = "port" THEN s ELSE termios
        \/ FileAt(fd) # "nothing"
           /\ "refused" \in DOMAIN s
           /\ told' \in s.refused
           /\ acted' = "nothing" /\ UNCHANGED termios
        \/ told' = "failed" /\ acted' = "nothing" /\ UNCHANGED termios
     /\ asked' = IF told' = "ok" THEN r ELSE asked

\* open(); a descriptor kept from before stays open, a failure overwrites it
OpenPort ==
  /\ \/ \E f \in Fds : /\ fdTable[f] = "free" /\ \A g \in 0 .. f - 1 : fdTable[g] # "free"
                       /\ fdTable' = [fdTable EXCEPT ![f] = "port"]
                       /\ SerialPortFd' = f
     \/ SerialPortFd' = -1 /\ UNCHANGED fdTable
  /\ opened' = TRUE /\ closed' = FALSE

\* HW_Uart_Open and SerialOpen only open
Open ==
  /\ lib # "soc"
  /\ OpenPort
  /\ told' = "nothing" /\ acted' = "nothing"
  /\ UNCHANGED <<lib, termios, asked>>

\* zbSocOpen also configures; it fails without closing what it opened
zbSocOpen ==
  /\ lib = "soc"
  /\ OpenPort
  /\ asked' = SocRequest
  /\ \/ SerialPortFd' >= 0 /\ acted' = "port" /\ told' = "ok"
        /\ termios' = zbSocUartConfig(SocRequest)
     \/ acted' = "nothing" /\ told' = "failed" /\ UNCHANGED termios
  /\ UNCHANGED lib

Config(r) ==
  /\ SerialIsValid
  /\ Configure(r, SerialPortFd)
  /\ UNCHANGED <<lib, SerialPortFd, fdTable, opened, closed>>

\* SerialConfig, or SerialReceive, SerialSend and SerialClose, return -1
Refused ==
  /\ ~SerialIsValid
  /\ told' \in {told, "failed"} /\ acted' = "nothing"
  /\ UNCHANGED <<lib, SerialPortFd, fdTable, termios, asked, opened, closed>>

\* SerialReceive and SerialSend, or the program itself: one read() or write()
Transfer ==
  /\ SerialIsValid
  /\ acted' = FileAt(SerialPortFd)
  /\ UNCHANGED <<lib, SerialPortFd, fdTable, termios, told, asked, opened, closed>>

\* close(); the variable keeps the descriptor.  (HW_Uart_Close of v1.0 closes the
\* descriptor it is given, which is the one the last HW_Uart_Open returned; nothing
\* in the repository calls it.)
Close ==
  /\ SerialIsValid
  /\ acted' = FileAt(SerialPortFd)
  /\ fdTable' = [f \in Fds |-> IF f = SerialPortFd THEN "free" ELSE fdTable[f]]
  /\ closed' = TRUE
  /\ UNCHANGED <<lib, SerialPortFd, termios, told, asked, opened>>

LibStep == Open \/ zbSocOpen \/ (\E r \in Requests : Config(r)) \/ Refused \/ Transfer \/ Close

-----------------------------------------------------------------------------
(* The rest of the process.                                                *)

OthersOpen ==
  /\ \E f \in Fds : /\ fdTable[f] = "free" /\ \A g \in 0 .. f - 1 : fdTable[g] # "free"
                    /\ fdTable' = [fdTable EXCEPT ![f] = "other"]
  /\ UNCHANGED <<lib, SerialPortFd, termios, told, asked, acted, opened, closed>>

OthersClose ==
  /\ \E f \in Fds : fdTable[f] = "other" /\ fdTable' = [fdTable EXCEPT ![f] = "free"]
  /\ UNCHANGED <<lib, SerialPortFd, termios, told, asked, acted, opened, closed>>

PortNext == LibStep \/ OthersOpen \/ OthersClose

PortSpec == PortInit /\ [][PortNext]_portVars

-----------------------------------------------------------------------------
(* An operation reads, writes, sets or closes a file that is not the port only *)
(* after a close, which leaves the number in the variable for others to get;   *)
(* or, where nobody checks, before the first open, when the number is 0.       *)
ActsOnOwnPort ==
  acted = "other" => closed \/ (lib # "v2" /\ ~opened)

(* A configuration that returns no error has set the port to what was asked    *)
(* for.  Not so: sizes v1 and soc do not know, the eighth bit they strip, the  *)
(* two names of Uart.h that are worth another value, and the stop bits v2      *)
(* refuses without saying so.                                                  *)
Differs(r) ==
  \/ lib # "v2" /\ (r.bits \notin {7, 8} \/ (r.bits = 8 /\ r.parity \in {"o", "e"}))
  \/ lib = "v1" /\ (r.stop = 2 \/ r.speed = 460800)
  \/ lib = "v2" /\ r.stop \notin {1, 2}
ToldIsSet ==
  told = "ok" /\ acted = "port" /\ ~Differs(asked)
    => /\ \A k \in DOMAIN asked : termios[k] = asked[k]
       /\ ~termios.strip \/ termios.bits = 7
=============================================================================
