-------------------------------- MODULE Scif --------------------------------
(***************************************************************************)
(* The serial port (src/sh4/scif.c): two FIFOs, of which the clock empties *)
(* one and fills the other, the flags of SCFSR2, and the lines to intc.c.  *)
(* A flag that software clears comes back if its reason is still there.    *)
(*                                                                         *)
(* Ticks of the serial clock are made up for before every access and at    *)
(* the end of the slice; as nothing looks in between they are a step here. *)
(* The trigger levels cannot be changed: SCFCR2 is masked with 0x0F before *)
(* bits 4 to 7 are looked at.  Bytes are counted, what they are is left    *)
(* out; so are the line speed and the device's parameters.                 *)
(***************************************************************************)
EXTENDS Integers

CONSTANTS
  FIFO_LENGTH,    \* bytes in a queue (16)
  SendTrigger,    \* SCIF_sendq_triggers[0] (8)
  ReceiveTrigger, \* SCIF_recvq_triggers[0] (1)
  MaxHost         \* bound on the bytes the host has ready

(* What is assumed of the constants.                                       *)
QueueAssumption == /\ FIFO_LENGTH \in Nat \ {0}
                   /\ {SendTrigger, ReceiveTrigger} \subseteq 0 .. FIFO_LENGTH
                   /\ MaxHost \in Nat

VARIABLES
  sendq,          \* bytes in SCIF_sendq
  recvq,          \* SCIF_recvq: head and tail
  fsr,            \* flags set in SCFSR2
  scr,            \* flags set in SCSCR2
  orer,           \* SCLSR2_ORER
  loop,           \* SCFCR2_LOOP
  lines,          \* SCIF interrupts pending in intc.c
  host,           \* bytes on serial_recvq, from the host
  rcvd            \* SCIF_rcvd_last_tick

vars == <<sendq, recvq, fsr, scr, orer, loop, lines, host, rcvd>>

Flags == {"TEND", "TDFE", "BRK", "ER", "RDF", "DR"}
Controls == {"TIE", "RIE", "TE", "RE", "REIE"}

RecvqSize == (recvq.tail - recvq.head) % (FIFO_LENGTH + 1)
ErrorIrqEnabled == scr \cap {"RIE", "REIE"} # {}
ReceiveEnabled == "RE" \in scr /\ ~orer

-----------------------------------------------------------------------------
(* Definitions marked "Faulty" are variants of the one that follows; the   *)
(* specification does not use them.  They show that a property can fail.   *)

(* SCIF_reset, with the register values of the reset.                      *)
Init ==
  /\ sendq = 0
  /\ recvq = [head |-> 0, tail |-> 0]
  /\ fsr = {"TEND", "TDFE"}
  /\ scr = {}
  /\ orer = FALSE
  /\ loop = FALSE
  /\ lines = {}
  /\ host = 0
  /\ rcvd = FALSE

(* The flags that SCIF_sendq_dequeue sets with n bytes left.               *)
Sent(n) == {f \in {"TDFE", "TEND"} : n <= IF f = "TDFE" THEN SendTrigger ELSE 0}

Line(line, enabled) == IF enabled THEN {line} ELSE {}

(* SCIF_recvq_enqueue stores the byte and leaves the tail where it is.     *)
EnqueuedAt == recvq.tail
QueueFull == (recvq.tail + 1) % (FIFO_LENGTH + 1) = recvq.head
QueueAtTrigger == ~QueueFull /\ RecvqSize >= ReceiveTrigger

(* The end of SCIF_clock_tick: data have waited below the trigger level.   *)
DataReady(received) ==
  ~received /\ ~rcvd /\ RecvqSize \in 1 .. ReceiveTrigger - 1 /\ "DR" \notin fsr

(* SCIF_clock_tick: one byte out, to the device or back in, and one byte   *)
(* in, from the device or from the queue itself.                           *)
Tick ==
  LET sends == "TE" \in scr /\ sendq > 0
      receives == ReceiveEnabled /\ (IF loop THEN sends ELSE host > 0)
      sent == IF sends THEN Sent(sendq - 1) ELSE {}
      rdf  == receives /\ QueueAtTrigger
      dr   == DataReady(receives)
  IN  /\ sendq' = IF sends THEN sendq - 1 ELSE sendq
      /\ host' = IF receives /\ ~loop THEN host - 1 ELSE host
      /\ recvq' = IF receives THEN [recvq EXCEPT !.tail = EnqueuedAt] ELSE recvq
      /\ orer' = (orer \/ (receives /\ QueueFull))
      /\ fsr' = fsr \cup sent \cup Line("RDF", rdf) \cup Line("DR", dr)
      /\ lines' = lines \cup Line("TXI", "TDFE" \in sent /\ "TIE" \in scr)
                        \cup Line("ERI", receives /\ QueueFull /\ ErrorIrqEnabled)
                        \cup Line("RXI", (rdf \/ dr) /\ "RIE" \in scr)
      /\ rcvd' = receives
      /\ UNCHANGED <<scr, loop>>

(* serial_transmit_data and serial_transmit_break, for the device.         *)
HostData ==
  /\ host < MaxHost
  /\ host' = host + 1
  /\ UNCHANGED <<sendq, recvq, fsr, scr, orer, loop, lines, rcvd>>

HostBreak ==
  /\ fsr' = fsr \cup {"BRK"}
  /\ lines' = lines \cup Line("BRI", ErrorIrqEnabled)
  /\ UNCHANGED <<sendq, recvq, scr, orer, loop, host, rcvd>>

-----------------------------------------------------------------------------
(* Accesses by the SH4.                                                    *)

(* A write of SCFTDR2: a full queue discards it, no flag is cleared.       *)
WriteData ==
  /\ sendq < FIFO_LENGTH
  /\ sendq' = sendq + 1
  /\ UNCHANGED <<recvq, fsr, scr, orer, loop, lines, host, rcvd>>

(* A read of SCFRDR2 finds head and tail equal and changes nothing.        *)

(* Faulty: a line stays up when its interrupt is disabled.                 *)
WriteControlKeepsLines(c) ==
  /\ scr' = c
  /\ UNCHANGED <<sendq, recvq, fsr, orer, loop, lines, host, rcvd>>

(* A write of SCSCR2 drops the lines that it disables and raises none.     *)
WriteControl(c) ==
  /\ scr' = c
  /\ lines' = {l \in lines : CASE l = "TXI" -> "TIE" \in c
                               [] l = "RXI" -> "RIE" \in c
                               [] OTHER -> c \cap {"RIE", "REIE"} # {}}
  /\ UNCHANGED <<sendq, recvq, fsr, orer, loop, host, rcvd>>

(* SCIF_update_status: what a write of mask leaves in SCFSR2.              *)
Rechecked(mask) ==
  (fsr \cap mask)
    \cup Line("TEND", sendq # 0)
    \cup Line("TDFE", sendq <= SendTrigger)
    \cup Line("RDF", RecvqSize >= ReceiveTrigger)
    \cup Line("DR", "DR" \in fsr /\ RecvqSize # 0)

WriteStatus(mask) ==
  LET result == Rechecked(mask)
      gone == Line("TXI", "TDFE" \notin result /\ "TIE" \in scr)
        \cup Line("RXI", result \cap {"DR", "RDF"} = {} /\ "RIE" \in scr)
        \cup Line("BRI", ErrorIrqEnabled /\ "BRK" \notin result)
        \cup Line("ERI", ErrorIrqEnabled /\ "ER" \notin result /\ ~orer)
  IN  /\ fsr' = result
      /\ lines' = lines \ gone
      /\ UNCHANGED <<sendq, recvq, scr, orer, loop, host, rcvd>>

(* A write of SCFCR2: SCIF_sendq_clear and SCIF_recvq_clear.               *)
WriteFifoControl(loopback, clearSend, clearReceive) ==
  LET f == fsr \cup (IF clearSend THEN {"TEND", "TDFE"} ELSE {})
      l == lines \cup Line("TXI", clearSend /\ "TIE" \in scr)
  IN  /\ loop' = loopback
      /\ sendq' = IF clearSend THEN 0 ELSE sendq
      /\ recvq' = IF clearReceive THEN [head |-> 0, tail |-> 0] ELSE recvq
      /\ fsr' = IF clearReceive THEN f \ {"DR", "RDF"} ELSE f
      /\ lines' = IF clearReceive THEN l \ Line("RXI", "RIE" \in scr) ELSE l
      /\ UNCHANGED <<scr, orer, host, rcvd>>

(* A write of 0 to SCLSR2.                                                 *)
ClearOverrun ==
  /\ orer' = FALSE
  /\ lines' = lines \ Line("ERI", "ER" \notin fsr /\ ErrorIrqEnabled)
  /\ UNCHANGED <<sendq, recvq, fsr, scr, loop, host, rcvd>>

Next == \/ Tick \/ HostData \/ HostBreak
        \/ WriteData \/ ClearOverrun
        \/ \E c \in SUBSET Controls : WriteControl(c)
        \/ \E mask \in SUBSET Flags : WriteStatus(mask)
        \/ \E l, s, r \in BOOLEAN : WriteFifoControl(l, s, r)

Spec == Init /\ [][Next]_vars

-----------------------------------------------------------------------------
(* Software that waits for room sees it: while the send queue is not above *)
(* its trigger level TDFE is set, whatever was cleared, queued and sent in *)
(* between.  (SCIF_sendq_dequeue, SCIF_update_status, SCIF_sendq_clear)    *)
RoomIsShown == sendq <= SendTrigger => "TDFE" \in fsr

(* An interrupt that is pending is enabled and its flag is still set, so   *)
(* that a handler never finds nothing to do.  (SCIF_update_status, the     *)
(* write of SCSCR2, SCIF_recvq_clear)                                      *)
InterruptsHaveReasons ==
  /\ "TXI" \in lines => "TIE" \in scr /\ "TDFE" \in fsr
  /\ "RXI" \in lines => "RIE" \in scr /\ fsr \cap {"RDF", "DR"} # {}
  /\ "BRI" \in lines => ErrorIrqEnabled /\ "BRK" \in fsr
  /\ "ERI" \in lines => ErrorIrqEnabled /\ ("ER" \in fsr \/ orer)

(* The flags and the lines tell the program the truth.  (SCIF_clock_tick,  *)
(* SCIF_update_status, the write of SCSCR2)                                *)
FlagsTrue == RoomIsShown /\ InterruptsHaveReasons

(* SCIF_clock_tick: "If input receive source is non-empty: Transfer one    *)
(* byte to the receive queue (if queue is full, byte is lost)"             *)
(* (scif.c:606).                                                           *)
ReceivedIsQueued ==
  [][host' < host /\ ~QueueFull => RecvqSize' = RecvqSize + 1]_vars
=============================================================================
