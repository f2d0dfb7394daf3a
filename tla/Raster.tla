-------------------------------- MODULE Raster --------------------------------
(***************************************************************************)
(* The raster of src/pvr2/pvr2.c: a line number that is brought up to date *)
(* when something looks at it, one of the events scheduled for a line (the *)
(* two scanline events, the horizontal one and that of the light gun share *)
(* the code), and the frame that is put on the display when the retrace    *)
(* ends.  Blocks of code run beyond the end of a slice, and what is due    *)
(* there is called there; the next slice starts at 0 all the same, so the  *)
(* raster keeps what it is ahead.  The length of a line is fixed.          *)
(***************************************************************************)
EXTENDS Integers

CONSTANTS
  Totals,         \* values of total_lines
  LineTime,       \* line_time_ns
  RetraceEnd,     \* retrace_end_line (0x2A)
  Positions,      \* values of irq_vpos1
  SliceLength,
  MaxBlock,       \* longest code run between two looks at the events
  Width           \* 2^32

(* A field lasts longer than what is run between two looks at the raster.  *)
RasterAssumption ==
  /\ {LineTime, RetraceEnd, SliceLength, MaxBlock, Width} \subseteq Nat \ {0}
  /\ Totals \subseteq Nat \ {0} /\ Positions \subseteq Nat
  /\ \A t \in Totals : LineTime + SliceLength + MaxBlock <= t * LineTime
  /\ LineTime + SliceLength + MaxBlock <= Width

VARIABLES
  slice,          \* sh4r.slice_cycle
  line, rem,      \* line_count, line_remainder
  run,            \* cycles_run
  odd,            \* odd_even_field
  interlaced,
  total,          \* total_lines
  vpos,           \* irq_vpos1
  due,            \* when EVENT_SCANLINE1 is due
  frames,         \* history: frames shown since the raster was last at the top
  wild            \* history: a time before the raster's own was asked for

vars == <<slice, line, rem, run, odd, interlaced, total, vpos, due, frames, wild>>

NONE == -1        \* no event is scheduled
FAR == -2         \* it is, a time that has wrapped round ahead

-----------------------------------------------------------------------------
(* Definitions marked "Faulty" are variants of the one that follows; the   *)
(* specification does not use them.  They show that a property can fail.   *)

(* pvr2_update_raster_posn, as the record of what it changes.              *)
Elapsed(now) == (rem + now - run) % Width
Lines(now) == line + Elapsed(now) \div LineTime
Wraps(now) == Lines(now) >= total
LineAt(now) == IF Wraps(now) THEN Lines(now) - total ELSE Lines(now)
OddAt(now) == IF Wraps(now) /\ interlaced THEN ~odd ELSE odd

(* The retrace has ended since the last look: the next frame is shown.     *)
Shows(now) == LineAt(now) >= RetraceEnd /\ (line < RetraceEnd \/ line > LineAt(now))

Update(now) ==
  /\ line' = LineAt(now)
  /\ rem' = Elapsed(now) % LineTime
  /\ run' = now
  /\ odd' = OddAt(now)
  /\ frames' = (IF Wraps(now) THEN 0 ELSE frames) + (IF Shows(now) THEN 1 ELSE 0)
  /\ wild' = (wild \/ rem + now - run < 0)

(* pvr2_schedule_scanline_event, with what Update left.  The line is that  *)
(* of a field: the other field's if it has gone by, which is decided       *)
(* before it is doubled.                                                   *)
Scheduled(v, tot, least) ==
  LET field  == IF v <= line' /\ interlaced' THEN ~odd' ELSE odd'
      target == 2 * v + (IF field THEN 1 ELSE 0)
      ahead  == IF target <= line' THEN tot - line' + target ELSE target - line'
      lines  == IF ahead \in 0 .. least THEN ahead + tot ELSE ahead
  IN  IF target >= tot THEN NONE
      ELSE IF lines < 0 THEN FAR
      ELSE slice + lines * LineTime - rem'

-----------------------------------------------------------------------------
(* pvr2_reset                                                              *)
Init ==
  /\ slice = 0
  /\ line = 0 /\ rem = 0 /\ run = 0
  /\ odd = FALSE /\ interlaced = FALSE
  /\ total \in Totals
  /\ vpos = 0
  /\ due = total * LineTime
  /\ frames = 0
  /\ wild = FALSE

EventDue == due >= 0 /\ due <= slice

Access == slice < SliceLength /\ ~EventDue

(* A read of DISP_SYNCSTAT, and every write that brings the raster up to   *)
(* date.                                                                   *)
Look ==
  /\ Access
  /\ Update(slice)
  /\ UNCHANGED <<slice, interlaced, total, vpos, due>>

(* Writes of DISP_VPOSIRQ, DISP_TOTAL and DISP_SYNCCFG.                    *)
WriteVposIrq(v) ==
  /\ Access
  /\ Update(slice)
  /\ interlaced' = interlaced
  /\ vpos' = v
  /\ due' = Scheduled(v, total, 0)
  /\ UNCHANGED <<slice, total>>

WriteTotal(t) ==
  /\ Access
  /\ Update(slice)
  /\ interlaced' = interlaced
  /\ total' = t
  /\ due' = Scheduled(vpos, t, 0)
  /\ UNCHANGED <<slice, vpos>>

WriteSyncCfg(i) ==
  /\ Access
  /\ interlaced' = i
  /\ UNCHANGED <<slice, line, rem, run, odd, total, vpos, due, frames, wild>>

(* pvr2_scanline_callback: the next one is a line away at least.           *)
ScanlineEvent ==
  /\ EventDue
  /\ Update(slice)
  /\ interlaced' = interlaced
  /\ due' = Scheduled(vpos, total, 1)
  /\ UNCHANGED <<slice, total, vpos>>

(* A block of SH4 code.                                                    *)
Advance(d) ==
  /\ Access
  /\ slice' = slice + d
  /\ UNCHANGED <<line, rem, run, odd, interlaced, total, vpos, due, frames, wild>>

(* Faulty: what the raster is ahead of the slice is forgotten.             *)
RunSliceForgets(n) ==
  IF n <= run THEN run' = 0 /\ UNCHANGED <<line, rem, odd, frames, wild>>
  ELSE /\ line' = LineAt(n)
       /\ rem' = Elapsed(n) % LineTime
       /\ run' = 0
       /\ odd' = OddAt(n)
       /\ frames' = (IF Wraps(n) THEN 0 ELSE frames) + (IF Shows(n) THEN 1 ELSE 0)
       /\ wild' = wild

(* pvr2_run_slice                                                          *)
RunSlice(n) ==
  IF n <= run THEN run' = run - n /\ UNCHANGED <<line, rem, odd, frames, wild>>
  ELSE /\ line' = LineAt(n)
       /\ rem' = Elapsed(n) % LineTime
       /\ run' = 0
       /\ odd' = OddAt(n)
       /\ frames' = (IF Wraps(n) THEN 0 ELSE frames) + (IF Shows(n) THEN 1 ELSE 0)
       /\ wild' = (wild \/ rem + n - run < 0)

(* The end of a slice, for the raster and the event queue.                 *)
EndSlice ==
  /\ slice >= SliceLength /\ ~EventDue
  /\ RunSlice(SliceLength)
  /\ slice' = 0
  /\ due' = IF due >= 0 THEN due - SliceLength ELSE due
  /\ UNCHANGED <<interlaced, total, vpos>>

(* What goes on once the raster is wild is not followed, up to a reset.    *)
Reset ==
  /\ slice' = 0
  /\ line' = 0 /\ rem' = 0 /\ run' = 0
  /\ interlaced' = FALSE
  /\ total' \in Totals
  /\ vpos' = 0
  /\ due' = total' * LineTime
  /\ frames' = 0
  /\ wild' = FALSE
  /\ odd' = FALSE

Next ==
  \/ Reset
  \/ /\ ~wild
     /\ \/ Look \/ ScanlineEvent \/ EndSlice
        \/ \E v \in Positions : WriteVposIrq(v)
        \/ \E t \in Totals : WriteTotal(t)
        \/ \E i \in BOOLEAN : WriteSyncCfg(i)
        \/ \E d \in 1 .. MaxBlock : Advance(d)

Spec == Init /\ [][Next]_vars

-----------------------------------------------------------------------------
(* The event is due at the very start of one of the two lines its register *)
(* names, wherever the raster stood when it was scheduled and however far  *)
(* slice, remainder and line count have gone on since.                     *)
(* (pvr2_schedule_scanline_event, pvr2_update_raster_posn, pvr2_run_slice) *)
EventOnLine ==
  due >= 0 /\ ~wild =>
    LET t == line * LineTime + rem + due - run
    IN  /\ t % LineTime = 0
        /\ (t \div LineTime) % total \in {2 * vpos, 2 * vpos + 1}

(* One frame is shown in every field, when the retrace ends, even if the   *)
(* raster is next looked at after the top.  (pvr2_update_raster_posn)      *)
OneFramePerField ==
  ~wild => frames = IF line >= RetraceEnd THEN 1 ELSE 0

(* Events and frames come where the raster is.  (pvr2_run_slice,           *)
(* pvr2_update_raster_posn, pvr2_schedule_scanline_event)                  *)
RasterTrue == EventOnLine /\ OneFramePerField

(* pvr2_update_raster_posn: "the raster will be adjusted forward by        *)
(* nanosecs - nanosecs_already_run_this_timeslice" (pvr2.c:315).           *)
RasterGoesForward == ~wild
=============================================================================
