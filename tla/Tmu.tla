--------------------------------- MODULE Tmu ---------------------------------
(***************************************************************************)
(* One channel of the timer unit (src/sh4/timer.c); the three share only   *)
(* the start register, of which each has a bit.  The counter is not        *)
(* ticked: it is brought up to date when it is looked at, when the slice   *)
(* ends, and by an event scheduled for its next underflow.  Counter,       *)
(* remainder, position in the slice and event have to say the same.        *)
(*                                                                         *)
(* Time is that of the translating core, which runs whole blocks, may go   *)
(* beyond the slice by less than one, and calls what is due before it      *)
(* leaves.  A TCOR of 0 and the RTC clock (period 0) divide by zero in     *)
(* TMU_count and are no inputs here.                                       *)
(***************************************************************************)
EXTENDS Integers

CONSTANTS
  Counts,         \* values written to TCNT
  Constants,      \* values written to TCOR
  Periods,        \* nanoseconds per count, one for each clock divider
  ResetPeriod,    \* that of divider 0
  SliceLength,
  MaxBlock,       \* longest code run between two looks at the events
  Width           \* 2^32: nanoseconds are computed modulo this

(* What is assumed of the constants: no sum of nanoseconds wraps.          *)
TimerAssumption ==
  /\ Counts \subseteq Nat /\ Constants \subseteq Nat \ {0}
  /\ Periods \subseteq Nat \ {0} /\ ResetPeriod \in Periods
  /\ SliceLength \in Nat \ {0} /\ MaxBlock \in Nat \ {0} /\ Width \in Nat \ {0}
  /\ \A p \in Periods : SliceLength + MaxBlock + p <= Width

VARIABLES
  slice,          \* sh4r.slice_cycle
  cnt,            \* TCNT as last stored
  cor,            \* TCOR
  unf, unie,      \* TCR_UNF and TCR_UNIE
  started,        \* the bit of TSTR
  timer,          \* struct TMU_timer: period, remainder, run
  due,            \* when EVENT_TMUn is due, as a slice cycle
  tuni,           \* TUNIn is pending in the INTC
  power,          \* sh4r.sh4_state: "run", "sleep" or "standby"
  exact,          \* history: the queue has seen the same time as the timer
  clobbered       \* history: an underflow was lost in a change of divider

vars == <<slice, cnt, cor, unf, unie, started, timer, due, tuni, power, exact, clobbered>>

NONE == -1        \* no event is scheduled

-----------------------------------------------------------------------------
(* Definitions marked "Faulty" are variants of the one that follows; the   *)
(* specification does not use them.  They show that a property can fail.   *)

(* TMU_schedule_timer.                                                     *)
Underflow(c, tm) == (c + 1) * tm.period - tm.remainder

(* A remainder of a slower clock may reach beyond the next underflow, and  *)
(* the unsigned duration wraps: no input here.                             *)
Fits(c, tm) == Underflow(c, tm) >= 0

RunTime(now) == (now + timer.remainder - timer.run) % Width

(* Faulty: the remainder of the last count is dropped.                     *)
CountedNoRemainder(now) == [timer EXCEPT !.remainder = 0, !.run = now]

(* What TMU_count leaves in the timer.                                     *)
Counted(now) == [timer EXCEPT !.remainder = RunTime(now) % timer.period, !.run = now]

Ticks(now) == RunTime(now) \div timer.period

Underflows(now) == Ticks(now) > cnt

Reload(now) == cor - ((Ticks(now) - cnt) % cor) + 1

CountNow(now) == IF Underflows(now) THEN Reload(now) ELSE cnt - Ticks(now)

(* TMU_count: on underflow the flag, the interrupt and the next event.     *)
Count(now) ==
  /\ cnt' = CountNow(now)
  /\ unf' = (unf \/ Underflows(now))
  /\ tuni' = (tuni \/ (Underflows(now) /\ unie))

DueAfter(now, otherwise) ==
  IF Underflows(now) THEN slice + Underflow(CountNow(now), Counted(now)) ELSE otherwise

ExactAfter(now) == IF Underflows(now) THEN now = slice ELSE exact

-----------------------------------------------------------------------------
(* TMU_reset, with the register values of the reset.                       *)
Init ==
  /\ slice = 0
  /\ cnt \in Counts
  /\ cor \in Constants
  /\ unf = FALSE /\ unie = FALSE
  /\ started = FALSE
  /\ timer = [period |-> ResetPeriod, remainder |-> 0, run |-> 0]
  /\ due = NONE
  /\ tuni = FALSE
  /\ power = "run"
  /\ exact = TRUE
  /\ clobbered = FALSE

EventDue == due # NONE /\ due <= slice

(* An access by SH4 code: what was due has been called, and the block it   *)
(* is in has not moved slice_cycle.                                        *)
Access == power = "run" /\ slice < SliceLength /\ ~EventDue

(* TMU_start                                                               *)
Start ==
  /\ Access /\ ~started
  /\ started' = TRUE
  /\ timer' = [timer EXCEPT !.run = slice, !.remainder = 0]
  /\ due' = slice + Underflow(cnt, timer')
  /\ exact' = TRUE
  /\ UNCHANGED <<slice, cnt, cor, unf, unie, tuni, power, clobbered>>

(* TMU_stop                                                                *)
Stop ==
  /\ Access /\ started
  /\ started' = FALSE
  /\ Count(slice)
  /\ timer' = Counted(slice)
  /\ due' = NONE
  /\ UNCHANGED <<slice, cor, unie, power, exact, clobbered>>

(* A read of TCNT.                                                         *)
ReadTCNT ==
  /\ Access /\ started
  /\ Count(slice)
  /\ timer' = Counted(slice)
  /\ due' = DueAfter(slice, due)
  /\ exact' = ExactAfter(slice)
  /\ UNCHANGED <<slice, cor, unie, started, power, clobbered>>

(* A write of TCNT leaves the remainder as it is.                          *)
WriteTCNT(c) ==
  /\ Access
  /\ cnt' = c
  /\ IF started
     THEN /\ Fits(c, timer)
          /\ timer' = [timer EXCEPT !.run = slice]
          /\ due' = slice + Underflow(c, timer')
          /\ exact' = TRUE
     ELSE UNCHANGED <<timer, due, exact>>
  /\ UNCHANGED <<slice, cor, unf, unie, started, tuni, power, clobbered>>

WriteTCOR(c) ==
  /\ Access
  /\ cor' = c
  /\ UNCHANGED <<slice, cnt, unf, unie, started, timer, due, tuni, power, exact, clobbered>>

(* TMU_set_timer_control, first half: a pending flag or enable that comes  *)
(* or goes.                                                                *)
LineAfter(f, i) ==
  IF unf /\ ~unie /\ f /\ i THEN TRUE
  ELSE IF unf /\ unie /\ ~(f /\ i) THEN FALSE
  ELSE tuni

(* The second half.  The counter of a running timer is counted at the old  *)
(* period, with the old TCR still in the register; then TCR is stored.  An *)
(* underflow found here has raised the interrupt and loses its flag, unless*)
(* the one written keeps it.                                               *)
WriteTCR(f, i, p) ==
  /\ Access
  /\ unf' = (unf /\ f)
  /\ unie' = i
  /\ IF p # timer.period /\ started
     THEN LET tm == [Counted(slice) EXCEPT !.period = p]
          IN  /\ Fits(CountNow(slice), tm)
              /\ cnt' = CountNow(slice)
              /\ timer' = tm
              /\ due' = slice + Underflow(cnt', tm)
              /\ tuni' = (LineAfter(f, i) \/ (Underflows(slice) /\ unie))
              /\ exact' = TRUE
              /\ clobbered' = (clobbered \/ Underflows(slice))
     ELSE /\ timer' = [timer EXCEPT !.period = p]
          /\ tuni' = LineAfter(f, i)
          /\ UNCHANGED <<cnt, due, exact, clobbered>>
  /\ UNCHANGED <<slice, cor, started, power>>

-----------------------------------------------------------------------------
(* Time.                                                                   *)

(* A block of SH4 code.                                                    *)
Advance(d) ==
  /\ Access
  /\ slice' = slice + d
  /\ UNCHANGED <<cnt, cor, unf, unie, started, timer, due, tuni, power, exact, clobbered>>

(* event_execute, TMU_event_callback.  Beyond the end of the slice it      *)
(* leaves timer_run where the slice's own count does not expect it.        *)
TimerEvent ==
  /\ EventDue
  /\ Count(slice)
  /\ timer' = Counted(slice)
  /\ due' = DueAfter(slice, NONE)
  /\ exact' = (ExactAfter(slice) /\ slice <= SliceLength)
  /\ UNCHANGED <<slice, cor, unie, started, power, clobbered>>

(* sh4_sleep: in standby mode the timers stop, brought up to date, while   *)
(* the slice and the event queue go on.                                    *)
Sleep ==
  /\ Access
  /\ power' = "sleep"
  /\ UNCHANGED <<slice, cnt, cor, unf, unie, started, timer, due, tuni, exact, clobbered>>

Standby ==
  /\ Access
  /\ power' = "standby"
  /\ IF started
     THEN /\ Count(slice)
          /\ timer' = [Counted(slice) EXCEPT !.run = 0]
          /\ due' = DueAfter(slice, due)
     ELSE /\ timer' = [timer EXCEPT !.run = 0]
          /\ UNCHANGED <<cnt, unf, tuni, due>>
  /\ exact' = FALSE
  /\ UNCHANGED <<slice, cor, unie, started, clobbered>>

(* sh4_sleep_run_slice: on to the next event, of this module or another.   *)
SleepJump(t) ==
  /\ power # "run" /\ ~EventDue
  /\ t \in slice + 1 .. SliceLength - 1
  /\ due # NONE => t <= due
  /\ slice' = t
  /\ UNCHANGED <<cnt, cor, unf, unie, started, timer, due, tuni, power, exact, clobbered>>

(* event_run_slice, after n nanoseconds.                                   *)
Rebased(d, n) == IF d = NONE THEN NONE ELSE IF d <= n THEN 0 ELSE d - n

(* TMU_run_slice                                                           *)
RunSlice(n) ==
  /\ IF started
     THEN /\ Count(n)
          /\ timer' = [Counted(n) EXCEPT !.run = 0]
          /\ due' = Rebased(IF Underflows(n)
                            THEN n + Underflow(CountNow(n), Counted(n)) ELSE due, n)
          /\ exact' = IF Underflows(n) THEN TRUE
                      ELSE exact /\ (due = NONE \/ due >= n)
     ELSE /\ timer' = [timer EXCEPT !.run = 0]
          /\ due' = Rebased(due, n)
          /\ UNCHANGED <<cnt, unf, tuni, exact>>
  /\ slice' = 0
  /\ UNCHANGED <<cor, unie, started, clobbered>>

(* The end of the slice: it was run, or slept through, or an interrupt     *)
(* woke the core, which ends it early and counts it in full.               *)
EndSlice ==
  /\ power # "standby" /\ ~EventDue
  /\ power = "run" => slice >= SliceLength
  /\ power' \in IF power = "sleep" THEN {"run", "sleep"} ELSE {power}
  /\ RunSlice(SliceLength)

(* A woken core counts the whole slice; one still in standby does not.     *)
EndStandbySlice ==
  /\ power = "standby" /\ ~EventDue
  /\ \/ /\ power' = "run"
        /\ RunSlice(SliceLength)
     \/ /\ power' = power
        /\ slice' = 0
        /\ due' = Rebased(due, SliceLength)
        /\ exact' = FALSE
        /\ UNCHANGED <<cnt, cor, unf, unie, started, timer, tuni, clobbered>>

(* CORE_EXIT_HALT: the slice ends where it is.                             *)
Halt == Access /\ power' = power /\ RunSlice(slice)

Next == \/ Start \/ Stop \/ ReadTCNT
        \/ \E c \in Counts : WriteTCNT(c)
        \/ \E c \in Constants : WriteTCOR(c)
        \/ \E f, i \in BOOLEAN, p \in Periods : WriteTCR(f, i, p)
        \/ \E d \in 1 .. MaxBlock : Advance(d)
        \/ TimerEvent \/ Sleep \/ Standby
        \/ \E t \in 1 .. SliceLength : SleepJump(t)
        \/ EndSlice \/ EndStandbySlice \/ Halt

Spec == Init /\ [][Next]_vars

-----------------------------------------------------------------------------
(* A running timer has its event exactly where the counter underflows,     *)
(* whatever part of the count is in TCNT, in the remainder and in the      *)
(* slice; a stopped one has none.  (TMU_count, TMU_schedule_timer,         *)
(* TMU_start, TMU_stop, TMU_run_slice)                                     *)
EventAtUnderflow ==
  /\ ~started => due = NONE
  /\ started /\ exact =>
       due = timer.run + Underflow(cnt, timer)

(* The interrupt is pending exactly while the flag and its enable are set, *)
(* as long as no change of the divider found an underflow.                 *)
(* (TMU_count, TMU_set_timer_control)                                      *)
InterruptExact == ~clobbered => (tuni <=> unf /\ unie)

(* What the program reads and is told of the timer agrees with its count.  *)
(* (TMU_count, TMU_schedule_timer, TMU_set_timer_control)                  *)
TimerTrue == EventAtUnderflow /\ InterruptExact

(* TMU_event_callback: assert( MMIO_READ( TMU, TCR0 + ... ) & 0x100 ), the *)
(* event finds the counter underflowed (timer.c:137).                      *)
EventFindsUnderflow == [][TimerEvent => unf']_vars
=============================================================================
