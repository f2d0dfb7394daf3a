------------------------------- MODULE G2Fifo -------------------------------
(***************************************************************************)
(* The status bits of the G2 bus FIFO (src/src/asic.c).  A write of the    *)
(* SH4 to a device on the G2 bus sends a pulse through bits 5, 4 and 0 of  *)
(* G2STATUS.  Nothing runs when a pulse rises or falls: five timers,       *)
(* relative to the current slice, are compared with the clock when the     *)
(* status is read and when the slice ends.                                 *)
(***************************************************************************)
EXTENDS Integers

CONSTANTS
  G2_BIT5_TICKS,  \* length of bit 5, and delay of bit 4
  G2_BIT4_TICKS,  \* length of bit 4
  G2_BIT0_ON_TICKS, \* delay of bit 0
  G2_BIT0_OFF_TICKS, \* length of bit 0
  SliceLength,
  MaxBlock,       \* longest code run between two looks at the slice's end
  MaxTimer        \* bound: no write while a timer is beyond it

(* What is assumed of the constants.  A bit is up for longer than it takes *)
(* to rise (asic.c:58): otherwise a write between the two could put the    *)
(* new rise of a bit behind its fall.                                      *)
TickAssumption == /\ G2_BIT5_TICKS \in Nat \ {0}
                  /\ G2_BIT4_TICKS \in Nat /\ G2_BIT4_TICKS > G2_BIT5_TICKS
                  /\ G2_BIT0_ON_TICKS \in Nat \ {0}
                  /\ G2_BIT0_OFF_TICKS \in Nat
                  /\ G2_BIT0_OFF_TICKS > G2_BIT0_ON_TICKS
SliceAssumption == SliceLength \in Nat \ {0} /\ MaxBlock \in 1 .. SliceLength

VARIABLES
  slice,          \* sh4r.slice_cycle
  off5,           \* g2_state.bit5_off_timer
  on,             \* bit4_on_timer and bit0_on_timer
  off,            \* bit4_off_timer and bit0_off_timer
  bits,           \* bits 5, 4 and 0 of G2STATUS, as last stored there
  since           \* history: time since the last write, up to G2_BIT5_TICKS

vars == <<slice, off5, on, off, bits, since>>

-----------------------------------------------------------------------------
(* Definitions marked "Faulty" are variants of the one that follows; the   *)
(* specification does not use them.  They show that a property can fail.   *)

Pulse == {4, 0}
IDLE == -1        \* a timer that is not running

OnTicks(b) == IF b = 4 THEN G2_BIT5_TICKS ELSE G2_BIT0_ON_TICKS
OffTicks(b) == IF b = 4 THEN G2_BIT4_TICKS ELSE G2_BIT0_OFF_TICKS

(* Compared as unsigned, so an idle timer is never due.                    *)
Due(t, now) == t # IDLE /\ t <= now

Fired(t, now) == IF Due(t, now) THEN IDLE ELSE t

(* Faulty: the pulse is switched on after it was switched off.             *)
StatusOnLast(now) ==
  ((bits \ ((IF Due(off5, now) THEN {5} ELSE {})
              \cup {b \in Pulse : Due(off[b], now)}))
   \cup {b \in Pulse : Due(on[b], now)})

(* The bits g2_update_fifo_status computes: of a pulse that rose and fell  *)
(* since the last look nothing is left.                                    *)
Status(now) ==
  ((bits \ (IF Due(off5, now) THEN {5} ELSE {}))
   \cup {b \in Pulse : Due(on[b], now)})
  \ {b \in Pulse : Due(off[b], now)}

(* asic_run_slice, of a timer that g2_update_fifo_status has looked at     *)
Rebased(t, n) == IF t <= n THEN IDLE ELSE t - n

(* asic_g2_write_word: a timer that is running goes on for longer, one     *)
(* that is not, or is overdue, starts.                                     *)
Extended(t, start, ticks) == IF t < slice THEN start + ticks ELSE t + ticks

Min2(a, b) == IF a < b THEN a ELSE b

-----------------------------------------------------------------------------
Init ==
  /\ slice = 0
  /\ off5 = IDLE
  /\ on = [b \in Pulse |-> IDLE]
  /\ off = [b \in Pulse |-> IDLE]
  /\ bits = {}
  /\ since = G2_BIT5_TICKS

(* SH4 code runs for d.                                                    *)
Advance(d) ==
  /\ slice < SliceLength
  /\ slice' = slice + d
  /\ since' = Min2(since + d, G2_BIT5_TICKS)
  /\ UNCHANGED <<off5, on, off, bits>>

(* asic_g2_write_word                                                      *)
Write ==
  /\ off5 <= MaxTimer /\ \A b \in Pulse : off[b] <= MaxTimer
  /\ off5' = Extended(off5, slice, G2_BIT5_TICKS)
  /\ on' = [b \in Pulse |-> IF on[b] < slice THEN slice + OnTicks(b) ELSE on[b]]
  /\ off' = [b \in Pulse |-> Extended(off[b], on'[b], OffTicks(b))]
  /\ bits' = bits \cup {5}
  /\ since' = 0
  /\ UNCHANGED slice

(* g2_read_status                                                          *)
ReadStatus ==
  /\ bits' = Status(slice)
  /\ off5' = Fired(off5, slice)
  /\ on' = [b \in Pulse |-> Fired(on[b], slice)]
  /\ off' = [b \in Pulse |-> Fired(off[b], slice)]
  /\ UNCHANGED <<slice, since>>

(* asic_run_slice.  The SH4 ran the whole slice, or was halted in it; it   *)
(* may also have gone beyond it, by less than a block.                     *)
EndSlice(n) ==
  /\ n \in {Min2(slice, SliceLength), SliceLength}
  /\ bits' = Status(n)
  /\ off5' = Rebased(Fired(off5, n), n)
  /\ on' = [b \in Pulse |-> Rebased(Fired(on[b], n), n)]
  /\ off' = [b \in Pulse |-> Rebased(Fired(off[b], n), n)]
  /\ slice' = 0
  /\ since' = IF n > slice THEN Min2(since + n - slice, G2_BIT5_TICKS) ELSE since

Next == \/ \E d \in 1 .. MaxBlock : Advance(d)
        \/ Write
        \/ ReadStatus
        \/ \E n \in 0 .. SliceLength : EndSlice(n)

Spec == Init /\ [][Next]_vars

-----------------------------------------------------------------------------
TypeOK ==
  /\ slice \in 0 .. SliceLength + MaxBlock - 1
  /\ off5 \in Nat \cup {IDLE}
  /\ on \in [Pulse -> Nat \cup {IDLE}]
  /\ off \in [Pulse -> Nat \cup {IDLE}]
  /\ bits \subseteq {5, 4, 0}
  /\ since \in 0 .. G2_BIT5_TICKS

(* A bit that is up, or on its way up, has a timer that takes it down, and *)
(* not before it went up: software that waits for the FIFO to drain is     *)
(* never left waiting, however its writes and reads fall into the slices.  *)
(* (asic_g2_write_word, g2_update_fifo_status, asic_run_slice)             *)
NeverStuck ==
  /\ 5 \in bits => off5 # IDLE
  /\ \A b \in Pulse : /\ b \in bits => off[b] # IDLE
                      /\ on[b] # IDLE => off[b] > on[b]

(* Bit 5 is up for at least G2_BIT5_TICKS after every write.               *)
(* (asic_g2_write_word, g2_update_fifo_status)                             *)
WriteSeen == 5 \notin bits => since = G2_BIT5_TICKS

(* The bits come down, and not too early.  (asic_g2_write_word,            *)
(* g2_update_fifo_status, asic_run_slice)                                  *)
FifoTrue == NeverStuck /\ WriteSeen

(* asic.c:143, "Additional writes while the FIFO is in operation extend    *)
(* the time that the bits remain high as one might expect, without         *)
(* altering the time at which they initially go high."                     *)
RiseTimeKept ==
  [][Write => \A b \in Pulse : on[b] # IDLE /\ off[b] >= slice => on'[b] = on[b]]_vars
=============================================================================
