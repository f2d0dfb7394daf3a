------------------------------- MODULE MCIntc -------------------------------
(***************************************************************************)
(* The interrupt controller and four small modules that live by the slice  *)
(* or the thread, for TLC and for MCIntc_proofs: a timer and the serial    *)
(* port, which raise lines of the controller, the G2 FIFO of the system    *)
(* chip, and the ring of sound buffers.  They share no state, so one run   *)
(* takes them side by side: part is the one that moves, the others stay at *)
(* one initial state.  Their parameters are constants here, for MCIntc.cfg *)
(* to give and for the proofs to leave open.                               *)
(*                                                                         *)
(* Intc: two of the ASIC's lines, whose priorities are fixed, and two      *)
(* timers, which share IPRA; the levels include 0 (masked off), one        *)
(* between the two lines and one equal to that of IRQ9.                    *)
(* Tmu: two clocks, slices of five nanoseconds and blocks of up to three,  *)
(* so that underflows fall on, before and beyond the end of a slice.       *)
(* Scif: queues of four bytes and a host that is at most two ahead.        *)
(* G2Fifo: pulses that rise and fall within a slice, at its end and beyond.*)
(* AudioRing: the three buffers of audio.c, blocks numbered up to four.    *)
(***************************************************************************)
EXTENDS Intc

CONSTANTS
  Counts, Constants, Periods, ResetPeriod, SliceLength, MaxBlock, Width, \* Tmu
  FIFO_LENGTH, SendTrigger, ReceiveTrigger, MaxHost,                     \* Scif
  G2_BIT5_TICKS, G2_BIT4_TICKS, G2_BIT0_ON_TICKS, G2_BIT0_OFF_TICKS,
  FifoSlice, FifoBlock, MaxTimer,                                        \* G2Fifo
  NUM_BUFFERS, Blocks                                                    \* AudioRing

VARIABLES
  part,
  slice, cnt, cor, unf, unie, started, timer, due, tuni, power, exact, clobbered,
                                                                      \* Tmu
  sendq, recvq, fsr, scr, orer, loop, lines, host, rcvd,              \* Scif
  fifoSlice, off5, on, off, bits, since,                              \* G2Fifo
  status, content, write, read, output, writer, reader, result, block,
  within                                                              \* AudioRing

IRQ9 == 9
IRQ13 == 13
TUNI0 == 23
TUNI1 == 24

AllSources == {IRQ9, IRQ13, TUNI0, TUNI1}
AllDefault == [s \in AllSources |-> CASE s = IRQ9 -> 6 [] s = IRQ13 -> 2 [] OTHER -> 0]
IPRA == {{{TUNI0}, {TUNI1}}}

Timer == INSTANCE Tmu
Serial == INSTANCE Scif
Fifo == INSTANCE G2Fifo WITH
          slice <- fifoSlice, SliceLength <- FifoSlice, MaxBlock <- FifoBlock
Ring == INSTANCE AudioRing

ASSUME TimerConstants == Timer!TimerAssumption
ASSUME SerialConstants == Serial!QueueAssumption
ASSUME FifoConstants == Fifo!TickAssumption /\ Fifo!SliceAssumption
ASSUME RingConstants == Ring!RingAssumption

BenchInit ==
  /\ part \in {"intc", "tmu", "scif", "g2fifo", "audio"}
  /\ Init /\ Timer!Init /\ Serial!Init /\ Fifo!Init /\ Ring!Init
  /\ part # "tmu" => cnt = 0 /\ cor = 2

IntcStays == UNCHANGED vars
TimerStays ==
  UNCHANGED <<slice, cnt, cor, unf, unie, started, timer, due, tuni, power, exact,
              clobbered>>
SerialStays == UNCHANGED <<sendq, recvq, fsr, scr, orer, loop, lines, host, rcvd>>
FifoStays == UNCHANGED <<fifoSlice, off5, on, off, bits, since>>
RingStays ==
  UNCHANGED <<status, content, write, read, output, writer, reader, result, block,
              within>>

BenchNext ==
  \/ /\ part = "intc" /\ QuietNext /\ part' = part
     /\ TimerStays /\ SerialStays /\ FifoStays /\ RingStays
  \/ /\ part = "tmu" /\ Timer!Next /\ part' = part
     /\ IntcStays /\ SerialStays /\ FifoStays /\ RingStays
  \/ /\ part = "scif" /\ Serial!Next /\ part' = part
     /\ IntcStays /\ TimerStays /\ FifoStays /\ RingStays
  \/ /\ part = "g2fifo" /\ Fifo!Next /\ part' = part
     /\ IntcStays /\ TimerStays /\ SerialStays /\ RingStays
  \/ /\ part = "audio" /\ Ring!Next /\ part' = part
     /\ IntcStays /\ TimerStays /\ SerialStays /\ FifoStays

BenchSpec ==
  /\ BenchInit
  /\ [][BenchNext]_<<part, vars, Timer!vars, Serial!vars, Fifo!vars, Ring!vars>>

(* The core looks at PENDING_IRQ between any two blocks and never stops    *)
(* running them.  (sh4_handle_pending_events)                              *)
FairQuietSpec == BenchSpec /\ WF_vars(Accept)

(* The properties of the four, stated in their modules.                    *)
TimerTrue == part = "tmu" => Timer!TimerTrue
FlagsTrue == part = "scif" => Serial!FlagsTrue
FifoTrue == part = "g2fifo" => Fifo!FifoTrue
QueuedIsKept == part = "audio" => Ring!QueuedIsKept

(* Intc implements IntcSpec, and in the end an interrupt that may be taken *)
(* is taken.  (intc_raise_interrupt, sh4_accept_interrupt)                 *)
KeepsRequests == Requests!Spec
=============================================================================
