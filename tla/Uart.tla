-------------------------------- MODULE Uart --------------------------------
(***************************************************************************)
(* The serial port and kernel/uart.c: the bytes that uartwrite() sends     *)
(* with the help of transmit interrupts, and the echo and kernel messages  *)
(* that uartputc_sync() sends without them.                                *)
(*                                                                         *)
(* A step is a critical section of tx_lock, an access to a register of the *)
(* port or a step of the port.  Bytes are counted, not told apart.         *)
(***************************************************************************)
EXTENDS Naturals, Updates

CONSTANTS
  Writers,  \* processes that write to the console
  Lengths,  \* how many bytes a write() has
  TXFIFO    \* how many bytes the port can hold

ASSUME UartAssumption == Lengths \subseteq Nat \ {0} /\ TXFIFO \in Nat

Handler == "uartintr"
Printf == "printf"

VARIABLES
  fifo,        \* bytes that the port has yet to send
  idleintr,    \* it has an interrupt pending because it became idle
  tx_busy,
  wr, towrite, \* where a writer is, and what it has yet to write
  isr,         \* where the handler is
  sync         \* where a caller of uartputc_sync() is

uartVars == <<fifo, idleintr, tx_busy, wr, towrite, isr, sync>>

UartInit ==
  /\ fifo = 0 /\ idleintr = FALSE /\ tx_busy = FALSE
  /\ wr = [p \in Writers |-> "user"] /\ towrite = [p \in Writers |-> 0]
  /\ isr = "off"
  /\ sync = [s \in {Handler, Printf} |-> "no"]

-----------------------------------------------------------------------------
(* consolewrite(): uartwrite() *)

WriteCons(p, n) ==
  /\ wr[p] = "user"
  /\ wr' = Put(wr, p, "loop")
  /\ towrite' = Put(towrite, p, n)
  /\ UNCHANGED <<fifo, idleintr, tx_busy, isr, sync>>

UartSleeps(p) ==
  /\ wr[p] = "loop" /\ tx_busy
  /\ wr' = Put(wr, p, "asleep")
  /\ UNCHANGED <<fifo, idleintr, tx_busy, towrite, isr, sync>>

UartSends(p) ==
  /\ wr[p] = "loop" /\ ~tx_busy
  /\ fifo' = fifo + 1
  /\ tx_busy' = TRUE
  /\ towrite' = Decr(towrite, p)
  /\ wr' = Put(wr, p, IF towrite[p] = 1 THEN "user" ELSE "loop")
  /\ UNCHANGED <<idleintr, isr, sync>>

(* sleep() has no test of killed: it wakes and looks at tx_busy again. *)
UartKill(p) ==
  /\ wr[p] = "asleep"
  /\ wr' = Put(wr, p, "loop")
  /\ UNCHANGED <<fifo, idleintr, tx_busy, towrite, isr, sync>>

(* uartputc_sync(), by printf() or by consoleintr() for the echo *)
SyncCall(s) ==
  /\ sync[s] = "no" /\ (s = Handler => isr = "receive")
  /\ sync' = Put(sync, s, "waits")
  /\ UNCHANGED <<fifo, idleintr, tx_busy, wr, towrite, isr>>

(* "wait for UART to set Transmit Holding Empty in LSR" *)
SyncIdle(s) ==
  /\ sync[s] = "waits" /\ fifo = 0
  /\ sync' = Put(sync, s, "writes")
  /\ UNCHANGED <<fifo, idleintr, tx_busy, wr, towrite, isr>>

SyncWrites(s) ==
  /\ sync[s] = "writes"
  /\ fifo' = fifo + 1
  /\ sync' = Put(sync, s, "no")
  /\ UNCHANGED <<idleintr, tx_busy, wr, towrite, isr>>

(* The port sends; idle, it interrupts. *)
PortSends ==
  /\ fifo > 0
  /\ fifo' = fifo - 1
  /\ idleintr' = (idleintr \/ fifo = 1)
  /\ UNCHANGED <<tx_busy, wr, towrite, isr, sync>>

-----------------------------------------------------------------------------
(* uartintr(), because the port is idle or a character has come *)

IntrStarts ==
  /\ isr = "off"
  /\ isr' = "acknowledged"
  /\ idleintr' = FALSE
  /\ UNCHANGED <<fifo, tx_busy, wr, towrite, sync>>

(* "UART finished transmitting; wake up sending thread." *)
PortIdle ==
  IF fifo = 0
    THEN /\ tx_busy' = FALSE
         /\ wr' = [p \in Writers |-> IF wr[p] = "asleep" THEN "loop" ELSE wr[p]]
    ELSE UNCHANGED <<tx_busy, wr>>

IntrTransmit ==
  /\ isr = "acknowledged"
  /\ isr' = "receive"
  /\ PortIdle
  /\ UNCHANGED <<fifo, idleintr, towrite, sync>>

(* A plausible bug: the interrupt is acknowledged at the end. *)
IntrEndsAck ==
  /\ isr = "receive" /\ sync[Handler] = "no"
  /\ isr' = "off"
  /\ idleintr' = FALSE
  /\ UNCHANGED <<fifo, tx_busy, wr, towrite, sync>>

IntrEnds ==
  /\ isr = "receive" /\ sync[Handler] = "no"
  /\ isr' = "off"
  /\ UNCHANGED <<fifo, idleintr, tx_busy, wr, towrite, sync>>

UartNext ==
  \/ \E p \in Writers :
       UartSleeps(p) \/ UartSends(p) \/ UartKill(p) \/ \E n \in Lengths : WriteCons(p, n)
  \/ \E s \in {Handler, Printf} : SyncCall(s) \/ SyncIdle(s) \/ SyncWrites(s)
  \/ PortSends \/ IntrStarts \/ IntrTransmit \/ IntrEnds

UartSpec == UartInit /\ [][UartNext]_uartVars

-----------------------------------------------------------------------------
(* Properties *)

(* A byte that is written without looking at LSR, next to one of each      *)
(* caller of uartputc_sync() that has looked, does not overrun the port.   *)
PortHasRoom == fifo <= TXFIFO

(* A writer that sleeps gets an interrupt that ends it, although echo and  *)
(* messages keep the port busy and use up interrupts.                      *)
WritersWaitForPort ==
  \A p \in Writers : wr[p] = "asleep" =>
    tx_busy /\ (fifo > 0 \/ idleintr \/ isr = "acknowledged")
=============================================================================
