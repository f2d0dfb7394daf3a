--------------------------------- MODULE Aica ---------------------------------
(***************************************************************************)
(* The time of the sound chip and its interrupt (src/src/aica/aica.c and   *)
(* arm_run_slice in armcore.c).                                            *)
(*                                                                         *)
(* A slice of time is turned into samples; the ARM runs for each of them   *)
(* and a timer counts them.  The timer's event is the only one that        *)
(* anything in the program posts, so event_pending is one bit and AICA_IRQ,*)
(* its number, is left out.  Of the clock only the remainder of the second *)
(* is here.  The writes of AICA_RESET are those of the SH4: they come      *)
(* between two slices.                                                     *)
(***************************************************************************)
EXTENDS Integers

CONSTANTS
  RATE,           \* AICA_SAMPLE_RATE: samples in a second
  SECOND,         \* 1000000000
  Slices,         \* lengths of a slice
  TIMER_SIZE,     \* 256: the timer has 8 bits
  MaxBehind       \* bound on the samples the ARM is behind

AicaAssumption ==
  /\ RATE \in Nat \ {0} /\ SECOND \in Nat /\ SECOND > RATE
  /\ \A n \in Slices : n \in 1 .. SECOND
  /\ TIMER_SIZE \in Nat \ {0}

VARIABLES
  down,           \* AICA_RESET holds the ARM in reset
  ns, samples,    \* nanosecs_done and samples_done
  timer,          \* AICA_TIMER
  pending,        \* event_pending
  fiq,            \* int_pending has the bit of the fast interrupt
  clears,         \* clear_count
  span,           \* the slice that is on, or 0
  want, ran,      \* samples it is worth, and how many of them the ARM has run
  behind,         \* history: the last slice was broken off
  dropped         \* history: a reset took the interrupt but not the event

vars == <<down, ns, samples, timer, pending, fiq, clears, span, want, ran,
          behind, dropped>>

time == <<ns, samples, span, want, ran, behind>>

Target(t) == (RATE * t) \div SECOND

-----------------------------------------------------------------------------
(* Definitions marked "Faulty" are variants of the one that follows; the   *)
(* specification does not use them.  They show that a property can fail.   *)

Init ==
  /\ down = TRUE
  /\ ns = 0 /\ samples = 0
  /\ timer = 0
  /\ pending = FALSE
  /\ fiq = FALSE
  /\ clears = 0
  /\ span = 0 /\ want = 0 /\ ran = 0
  /\ behind = FALSE
  /\ dropped = FALSE

(* aica_run_slice, up to the call of arm_run_slice.  With the ARM in reset *)
(* a slice does nothing.                                                   *)
StartSlice(n) ==
  /\ span = 0
  /\ ~down
  /\ span' = n
  /\ want' = Target(ns + n) - samples
  /\ ran' = 0
  /\ UNCHANGED <<down, ns, samples, timer, pending, fiq, clears, behind, dropped>>

(* The timer counts a sample.  aica_event raises the interrupt only if no  *)
(* event was pending.  Faulty: every event raises it.                      *)
TickRaises ==
  /\ timer' = (timer + 1) % TIMER_SIZE
  /\ fiq' = (fiq \/ timer' = 0)
  /\ pending' = (pending \/ timer' = 0)
Tick ==
  /\ timer' = (timer + 1) % TIMER_SIZE
  /\ fiq' = (fiq \/ (timer' = 0 /\ ~pending))
  /\ pending' = (pending \/ timer' = 0)

(* arm_run_slice: the instructions of one sample, then the timer.          *)
Sample ==
  /\ span # 0
  /\ ran < want
  /\ Tick
  /\ ran' = ran + 1
  /\ UNCHANGED <<down, ns, samples, clears, span, want, behind, dropped>>

(* The rest of aica_run_slice.  Faulty: a new second starts from nothing.  *)
EndSliceZero ==
  /\ ns' = IF ns + span > SECOND THEN ns + span - SECOND ELSE ns + span
  /\ samples' = IF ns + span > SECOND THEN 0 ELSE samples + ran
  /\ span' = 0 /\ want' = 0 /\ ran' = 0
EndSlice ==
  /\ ns' = IF ns + span > SECOND THEN ns + span - SECOND ELSE ns + span
  /\ samples' = samples + ran - (IF ns + span > SECOND THEN RATE ELSE 0)
  /\ span' = 0 /\ want' = 0 /\ ran' = 0

FinishSlice ==
  /\ span # 0 /\ ran = want
  /\ EndSlice
  /\ behind' = FALSE
  /\ UNCHANGED <<down, timer, pending, fiq, clears, dropped>>

Behind == span # 0 /\ ran < want /\ want - ran <= MaxBehind

(* The slice is broken off: the ARM meets an instruction it cannot run, or *)
(* a breakpoint.                                                           *)
BreakOff ==
  /\ Behind
  /\ EndSlice
  /\ behind' = TRUE
  /\ UNCHANGED <<down, timer, pending, fiq, clears, dropped>>

(* Somebody has stopped the emulator: the sample that was on is finished,  *)
(* the timer with it, and not counted.                                     *)
BreakOffLate ==
  /\ Behind
  /\ Tick
  /\ EndSlice
  /\ behind' = TRUE
  /\ UNCHANGED <<down, clears, dropped>>

(* A write of AICA_IRQCLEAR, by the ARM or the SH4: every fourth one is    *)
(* taken for the end of an interrupt.  (aica_clear_event)                  *)
ClearEvent ==
  /\ clears' = (clears + 1) % 4
  /\ IF clears = 3
     THEN pending' = FALSE /\ fiq' = FALSE /\ dropped' = FALSE
     ELSE UNCHANGED <<pending, fiq, dropped>>
  /\ UNCHANGED <<down, timer, time>>

WriteTimer(v) ==
  /\ timer' = v
  /\ UNCHANGED <<down, pending, fiq, clears, time, dropped>>

(* A write of AICA_RESET.  Letting the ARM go resets it, and the count of  *)
(* samples, but not the events.                                            *)
WriteReset(v) ==
  /\ span = 0
  /\ down' = v
  /\ IF down /\ ~v
     THEN /\ fiq' = FALSE
          /\ dropped' = pending
          /\ ns' = 0 /\ samples' = 0 /\ behind' = FALSE
     ELSE UNCHANGED <<fiq, dropped, ns, samples, behind>>
  /\ UNCHANGED <<timer, pending, clears, span, want, ran>>

(* dreamcast_reset: the registers get their initial values, with AICA_RESET*)
(* set, and aica_reset does the rest.                                      *)
Reset ==
  /\ span = 0
  /\ down' = TRUE
  /\ ns' = 0 /\ samples' = 0 /\ behind' = FALSE
  /\ timer' = 0
  /\ pending' = FALSE /\ fiq' = FALSE /\ dropped' = FALSE
  /\ clears' = 0
  /\ UNCHANGED <<span, want, ran>>

Next ==
  \/ \E n \in Slices : StartSlice(n)
  \/ Sample \/ FinishSlice \/ BreakOff \/ BreakOffLate
  \/ ClearEvent \/ Reset
  \/ \E v \in 0 .. TIMER_SIZE - 1 : WriteTimer(v)
  \/ \E v \in BOOLEAN : WriteReset(v)

Spec == Init /\ [][Next]_vars

-----------------------------------------------------------------------------
(* The types of the variables.  samples goes below 0 when a second ends    *)
(* while the ARM is behind.                                                *)
TypeOK ==
  /\ down \in BOOLEAN /\ fiq \in BOOLEAN /\ pending \in BOOLEAN
  /\ behind \in BOOLEAN /\ dropped \in BOOLEAN
  /\ ns \in 0 .. SECOND
  /\ samples \in Int
  /\ timer \in 0 .. TIMER_SIZE - 1
  /\ clears \in 0 .. 3
  /\ span \in Slices \cup {0}
  /\ want \in Nat /\ ran \in 0 .. want

(* The ARM never gets ahead of the time, so that aica_run_slice never asks *)
(* for a negative number of samples, which arm_run_slice would take for    *)
(* billions; and what a slice broken off left undone the next one makes up *)
(* for, also over the end of a second.                                     *)
PaceExact ==
  IF span = 0
  THEN samples <= Target(ns) /\ (behind \/ samples = Target(ns))
  ELSE want + samples = Target(ns + span) /\ want >= 0

(* The ARM has a fast interrupt exactly while an event is pending, unless  *)
(* it was reset with one: then no further event interrupts it until the    *)
(* old one is cleared.  (aica_event, aica_clear_event, arm_reset)          *)
FiqExact == fiq = (pending /\ ~dropped)

AicaTrue == PaceExact /\ FiqExact
=============================================================================
