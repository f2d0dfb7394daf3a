------------------------------- MODULE EventQ -------------------------------
(***************************************************************************)
(* The one-shot timer queue of the emulator (src/src/eventq.c), driven by  *)
(* the time slices of the SH4 core (src/src/sh4/sh4.c).                    *)
(*                                                                         *)
(* Every device that has to do something later (TMU, PVR2 raster, Maple    *)
(* DMA, the end-of-slice marker of the translator) owns one event id.  An  *)
(* event due within the second sits in the short queue, ordered by the     *)
(* nanosecond of the current slice at which it is due; one due later sits  *)
(* in the long queue, and is moved over by a scan that runs once a second. *)
(*                                                                         *)
(* Units are nanoseconds.  The C unsigned arithmetic is modelled in Nat:   *)
(* SentinelAbove says that no sum the code forms reaches NOT_SCHEDULED     *)
(* (0xFFFFFFFF), and EventQ_proofs shows that it is enough.                *)
(***************************************************************************)
EXTENDS Integers, Sequences, SequencesExt

CONSTANTS
  EventId,        \* the identifiers that index events[]
  NoEvent,        \* no event is being called
  Delays,         \* delays a client passes to event_schedule
  LongSeconds,    \* whole seconds a client passes to event_schedule_long
  LONG_SCAN_PERIOD, \* one second
  NOT_SCHEDULED,  \* the sentinel 0xFFFFFFFF
  SliceLength,    \* dreamcast.c's timeslice_length
  MaxBlock,       \* longest code run between two tests of event_pending
  RasterEvent,    \* the event that the reset of the PVR2 schedules
  RasterDelay     \* and its delay

ASSUME NoEventAssumption == NoEvent \notin EventId
ASSUME PeriodAssumption == LONG_SCAN_PERIOD \in Nat \ {0}
ASSUME DelaysAssumption == Delays \subseteq 0 .. LONG_SCAN_PERIOD - 1
ASSUME RasterAssumption == RasterEvent \in EventId /\ RasterDelay \in Delays
ASSUME SecondsAssumption == LongSeconds \subseteq Nat \ {0}
ASSUME SliceAssumption == /\ SliceLength \in Nat \ {0}
                          /\ MaxBlock \in 1 .. SliceLength
                          /\ SliceLength + MaxBlock - 1 <= LONG_SCAN_PERIOD
ASSUME SentinelAbove ==
  NOT_SCHEDULED \in Nat /\ NOT_SCHEDULED > 2 * LONG_SCAN_PERIOD + 2 * SliceLength

VARIABLES
  nanosecs,       \* events[].nanosecs
  seconds,        \* events[].seconds
  queue,          \* the list at event_head
  longQueue,      \* the list at long_event_head
  longScan,       \* long_scan_time_remaining
  slice,          \* sh4r.slice_cycle
  pending,        \* sh4r.event_pending
  types,          \* sh4r.event_types
  asleep,         \* sh4r.sh4_state # SH4_STATE_RUNNING
  phase,          \* where the single emulator thread is, see Phases
  cursor,         \* position of event_scan_long in the long queue
  calling,        \* the event whose callback event_execute is running
  left            \* history: true time left until each event is due

clock == <<longScan, slice>>
vars == <<nanosecs, seconds, queue, longQueue, longScan, slice, pending, types,
          asleep, phase, cursor, calling, left>>

(* "core": SH4 code runs or sleeps; "execute": the loop head of            *)
(* event_execute; "callback": inside event->func; "irq": about to look at  *)
(* PENDING_IRQ; "ready": the test of event_pending is over and one more    *)
(* block runs; "woken": sh4_sleep_run_slice returns because of an IRQ;     *)
(* "periph": the other modules' slices; "scan": event_scan_long; "idle":   *)
(* between event_run_slice and the next sh4_run_slice (the GUI runs here). *)
Phases == {"core", "execute", "callback", "irq", "ready", "woken", "periph",
           "scan", "idle"}

(* sh4_run_slice zeroes slice_cycle first thing, so between slices the     *)
(* stored value is stale and the position in the (next) slice is 0.        *)
Now == IF phase \in {"scan", "idle"} THEN 0 ELSE slice

Scheduled(e) == nanosecs[e] # NOT_SCHEDULED

-----------------------------------------------------------------------------
(* Lists.                                                                  *)

(* Definitions marked "Faulty" are variants of the one that follows; the   *)
(* specification does not use them.  They show that a property can fail.   *)

(* Faulty: appends without looking for the place.                          *)
InsertionPointAtEnd(q, ns, i, t) == i = Len(q) + 1

(* event_enqueue walks past every entry due no later than t, so an event   *)
(* goes behind those due at the same time.                                 *)
InsertionPoint(q, ns, i, t) ==
  /\ i \in 1 .. Len(q) + 1
  /\ \A k \in 1 .. i - 1 : ns[q[k]] <= t
  /\ i <= Len(q) => t < ns[q[i]]

IsHead(q, e) == q # <<>> /\ q[1] = e

(* Faulty: only the head can be unlinked.                                  *)
WithoutHead(q, e) == IF IsHead(q, e) THEN Tail(q) ELSE q

(* event_dequeue, event_dequeue_long                                       *)
Without(q, e) ==
  IF \E j \in 1 .. Len(q) : q[j] = e
  THEN RemoveAt(q, CHOOSE j \in 1 .. Len(q) : q[j] = e)
  ELSE q

(* event_get_next_time: the slice cycle of the head of the short queue.    *)
NextTime(q, ns) == IF q = <<>> THEN NOT_SCHEDULED ELSE ns[q[1]]

(* Faulty: PENDING_EVENT is never set.                                     *)
UpdatePendingNoFlag(q, ns) ==
  /\ pending' = IF "IRQ" \in types THEN pending ELSE NextTime(q, ns)
  /\ types' = types \ {"EVENT"}

(* event_update_pending: an IRQ in progress keeps event_pending at 0.      *)
UpdatePending(q, ns) ==
  /\ pending' = IF "IRQ" \in types THEN pending ELSE NextTime(q, ns)
  /\ types' = IF q = <<>> THEN types \ {"EVENT"} ELSE types \cup {"EVENT"}

(* Faulty: a new or removed head is not announced.                         *)
UpdatePendingNever(test, q, ns) == UNCHANGED <<pending, types>>

(* event_enqueue and event_dequeue refresh only when the head changes.     *)
UpdatePendingIf(test, q, ns) ==
  IF test THEN UpdatePending(q, ns) ELSE UNCHANGED <<pending, types>>

-----------------------------------------------------------------------------
TypeOK ==
  /\ nanosecs \in [EventId -> 0 .. NOT_SCHEDULED]
  /\ seconds \in [EventId -> Nat]
  /\ queue \in Seq(EventId)
  /\ longQueue \in Seq(EventId)
  /\ longScan \in Int
  /\ slice \in Nat
  /\ pending \in 0 .. NOT_SCHEDULED
  /\ types \subseteq {"IRQ", "EVENT"}
  /\ asleep \in BOOLEAN
  /\ phase \in Phases
  /\ cursor \in Nat
  /\ calling \in EventId \cup {NoEvent}
  /\ left \in [EventId -> Int]

(* event_init, then the reset of every module.                             *)
Init ==
  /\ nanosecs = [e \in EventId |-> NOT_SCHEDULED]
  /\ seconds = [e \in EventId |-> 0]
  /\ queue = <<>>
  /\ longQueue = <<>>
  /\ longScan = LONG_SCAN_PERIOD
  /\ slice = 0
  /\ pending = NOT_SCHEDULED
  /\ types = {}
  /\ asleep = FALSE
  /\ phase = "idle"
  /\ cursor = 0
  /\ calling = NoEvent
  /\ left = [e \in EventId |-> 0]

-----------------------------------------------------------------------------
(* The clients: register writes of SH4 code, event callbacks, and the      *)
(* slice handlers of the devices.                                          *)

ClientPhase == \/ phase = "core" /\ ~asleep
               \/ phase \in {"callback", "periph"}

(* What event_cancel leaves of the two lists, and whether the head of the  *)
(* short one went: seconds says where e is linked, if it is.               *)
ShortWithout(e) ==
  IF Scheduled(e) /\ seconds[e] = 0 THEN Without(queue, e) ELSE queue

LongWithout(e) ==
  IF Scheduled(e) /\ seconds[e] # 0 THEN Without(longQueue, e) ELSE longQueue

HeadUnlinked(e) == Scheduled(e) /\ seconds[e] = 0 /\ IsHead(queue, e)

(* event_schedule: cancel if already scheduled, then enqueue.  Cancelling  *)
(* the head and enqueueing at the head each refresh event_pending, and the *)
(* last refresh sees the final queue.                                      *)
Schedule(e, d) ==
  LET t  == d + slice
      ns == [nanosecs EXCEPT ![e] = t]
  IN  /\ ClientPhase
      /\ \E i \in 1 .. Len(ShortWithout(e)) + 1 :
           /\ InsertionPoint(ShortWithout(e), ns, i, t)
           /\ queue' = InsertAt(ShortWithout(e), i, e)
           /\ UpdatePendingIf(i = 1 \/ HeadUnlinked(e), queue', ns)
      /\ longQueue' = LongWithout(e)
      /\ nanosecs' = ns
      /\ seconds' = [seconds EXCEPT ![e] = 0]
      /\ left' = [left EXCEPT ![e] = d]
      /\ UNCHANGED <<clock, asleep, phase, cursor, calling>>

(* How long ago the running scan period began.                             *)
ScanPeriodRun == slice + (LONG_SCAN_PERIOD - longScan)

(* event_schedule_long with seconds > 0 (with 0 it is event_schedule).     *)
(* The time is kept relative to the start of the running scan period.      *)
ScheduleLong(e, s, d) ==
  /\ ClientPhase
  /\ queue' = ShortWithout(e)
  /\ UpdatePendingIf(HeadUnlinked(e), queue', nanosecs)
  /\ longQueue' = InsertAt(LongWithout(e), 1, e)
  /\ nanosecs' = [nanosecs EXCEPT ![e] = d + ScanPeriodRun]
  /\ seconds' = [seconds EXCEPT ![e] = s]
  /\ left' = [left EXCEPT ![e] = s * LONG_SCAN_PERIOD + d]
  /\ UNCHANGED <<clock, asleep, phase, cursor, calling>>

(* event_cancel; detaching a light gun calls it from the GUI as well.      *)
Cancel(e) ==
  /\ ClientPhase \/ phase = "idle"
  /\ Scheduled(e)
  /\ queue' = ShortWithout(e)
  /\ UpdatePendingIf(HeadUnlinked(e), queue', nanosecs)
  /\ longQueue' = LongWithout(e)
  /\ nanosecs' = [nanosecs EXCEPT ![e] = NOT_SCHEDULED]
  /\ left' = [left EXCEPT ![e] = 0]
  /\ UNCHANGED <<seconds, clock, asleep, phase, cursor, calling>>

(* intc_raise_interrupt or intc_mask_changed finding a deliverable IRQ.    *)
IrqDeliverable ==
  /\ ClientPhase
  /\ pending' = 0
  /\ types' = types \cup {"IRQ"}
  /\ UNCHANGED <<nanosecs, seconds, queue, longQueue, clock, asleep, phase,
                 cursor, calling, left>>

(* intc_mask_changed finding none; sh4_accept_interrupt ends in it too,    *)
(* because it sets SR.BL.                                                  *)
IrqMasked ==
  /\ ClientPhase
  /\ pending' = NextTime(queue, nanosecs)
  /\ types' = types \ {"IRQ"}
  /\ UNCHANGED <<nanosecs, seconds, queue, longQueue, clock, asleep, phase,
                 cursor, calling, left>>

-----------------------------------------------------------------------------
(* The SH4 core: time, and the test of event_pending.                      *)

Elapse(n) == left' = [e \in EventId |-> IF Scheduled(e) THEN left[e] - n ELSE left[e]]

queues == <<nanosecs, seconds, queue, longQueue, longScan>>

(* sh4_run_slice starts: slice_cycle = 0.                                  *)
BeginSlice ==
  /\ phase = "idle"
  /\ phase' = "core"
  /\ slice' = 0
  /\ UNCHANGED <<queues, pending, types, asleep, cursor, calling, left>>

(* Code runs until the next test of event_pending: an instruction of the   *)
(* interpreter, a chain of blocks of the translator.  The test either found*)
(* nothing due, or its work is done.                                       *)
RunCode(n) ==
  /\ \/ phase = "core" /\ ~asleep /\ slice < pending
     \/ phase = "ready"
  /\ slice < SliceLength
  /\ slice' = slice + n
  /\ Elapse(n)
  /\ phase' = "core"
  /\ UNCHANGED <<queues, pending, types, asleep, cursor, calling>>

(* sh4_sleep: the SLEEP instruction.                                       *)
Sleep ==
  /\ phase = "core"
  /\ ~asleep
  /\ asleep' = TRUE
  /\ UNCHANGED <<queues, slice, pending, types, phase, cursor, calling, left>>

(* sh4_handle_pending_events, first half.                                  *)
HandlePending ==
  /\ phase = "core"
  /\ ~asleep
  /\ pending <= slice
  /\ phase' = IF "EVENT" \in types THEN "execute" ELSE "irq"
  /\ UNCHANGED <<queues, slice, pending, types, asleep, cursor, calling, left>>

(* One turn of sh4_sleep_run_slice: skip to the pending event, which may   *)
(* be a step back when a block overran it or an IRQ is pending.            *)
SleepJump ==
  /\ phase = "core"
  /\ asleep
  /\ pending < SliceLength
  /\ slice' = pending
  /\ Elapse(pending - slice)
  /\ phase' = IF "EVENT" \in types THEN "execute" ELSE "irq"
  /\ UNCHANGED <<queues, pending, types, asleep, cursor, calling>>

(* Faulty: does not look at the time.                                      *)
HeadDueAlways == queue # <<>>

(* Faulty: an event due exactly now is left for later.                     *)
HeadDueStrict == queue # <<>> /\ nanosecs[queue[1]] < slice

HeadDue == queue # <<>> /\ nanosecs[queue[1]] <= slice

(* One turn of event_execute: unlink the head, then call it.               *)
ExecutePop ==
  /\ phase = "execute"
  /\ HeadDue
  /\ queue' = Tail(queue)
  /\ nanosecs' = [nanosecs EXCEPT ![queue[1]] = NOT_SCHEDULED]
  /\ left' = [left EXCEPT ![queue[1]] = 0]
  /\ calling' = queue[1]
  /\ phase' = "callback"
  /\ UNCHANGED <<seconds, longQueue, clock, pending, types, asleep, cursor>>

CallbackReturn ==
  /\ phase = "callback"
  /\ calling' = NoEvent
  /\ phase' = "execute"
  /\ UNCHANGED <<queues, slice, pending, types, asleep, cursor, left>>

ExecuteDone ==
  /\ phase = "execute"
  /\ ~HeadDue
  /\ UpdatePending(queue, nanosecs)
  /\ phase' = "irq"
  /\ UNCHANGED <<queues, slice, asleep, cursor, calling, left>>

(* The second half: an IRQ is accepted, which sets SR.BL and so ends in    *)
(* intc_mask_changed; a sleeping core is only woken, and leaves the IRQ to *)
(* its next slice.                                                         *)
AcceptIrq ==
  /\ phase = "irq"
  /\ "IRQ" \in types
  /\ asleep' = FALSE
  /\ IF asleep
     THEN phase' = "woken" /\ UNCHANGED <<pending, types>>
     ELSE /\ phase' = "ready"
          /\ pending' = NextTime(queue, nanosecs)
          /\ types' = types \ {"IRQ"}
  /\ UNCHANGED <<queues, slice, cursor, calling, left>>

NoIrq ==
  /\ phase = "irq"
  /\ "IRQ" \notin types
  /\ phase' = IF asleep THEN "core" ELSE "ready"
  /\ UNCHANGED <<queues, slice, pending, types, asleep, cursor, calling, left>>

(* The core leaves its slice.  slice_cycle becomes the nominal length even *)
(* if a block overran it or an IRQ woke the core early.                    *)
EndSlice ==
  /\ \/ phase \in {"core", "ready"} /\ ~asleep /\ slice >= SliceLength
     \/ phase = "core" /\ asleep /\ pending >= SliceLength
     \/ phase = "woken"
  /\ slice' = SliceLength
  /\ Elapse(SliceLength - slice)
  /\ phase' = "periph"
  /\ UNCHANGED <<queues, pending, types, asleep, cursor, calling>>

(* CORE_EXIT_HALT and CORE_EXIT_BREAKPOINT: the other modules get only what*)
(* the core has run.                                                       *)
Halt ==
  /\ phase = "core"
  /\ ~asleep
  /\ phase' = "periph"
  /\ UNCHANGED <<queues, slice, pending, types, asleep, cursor, calling, left>>

-----------------------------------------------------------------------------
(* event_run_slice, the last of the modules' slice handlers.               *)

(* Faulty: subtracts from what is overdue, too.                            *)
RebasedNoFloor ==
  [e \in EventId |-> IF Scheduled(e) /\ seconds[e] = 0
                     THEN nanosecs[e] - slice ELSE nanosecs[e]]

(* Faulty: takes every slice for a full one.                               *)
RebasedFullSlice ==
  [e \in EventId |->
     IF Scheduled(e) /\ seconds[e] = 0
     THEN IF nanosecs[e] <= SliceLength THEN 0 ELSE nanosecs[e] - SliceLength
     ELSE nanosecs[e]]

Rebased ==
  [e \in EventId |->
     IF Scheduled(e) /\ seconds[e] = 0
     THEN IF nanosecs[e] <= slice THEN 0 ELSE nanosecs[e] - slice
     ELSE nanosecs[e]]

(* Rebase the short queue; start a scan of the long one each second.       *)
EventRunSlice ==
  /\ phase = "periph"
  /\ nanosecs' = Rebased
  /\ IF longScan - slice <= 0
     THEN /\ longScan' = longScan - slice + LONG_SCAN_PERIOD
          /\ phase' = "scan"
          /\ cursor' = 1
          /\ UNCHANGED <<pending, types>>
     ELSE /\ longScan' = longScan - slice
          /\ phase' = "idle"
          /\ UpdatePending(queue, Rebased)
          /\ UNCHANGED cursor
  /\ UNCHANGED <<seconds, queue, longQueue, slice, asleep, calling, left>>

(* event_scan_long, one entry: a second less; below one second the event   *)
(* moves to the short queue.                                               *)
ScanStay ==
  /\ phase = "scan"
  /\ cursor <= Len(longQueue)
  /\ seconds[longQueue[cursor]] > 1
  /\ seconds' = [seconds EXCEPT ![longQueue[cursor]] = @ - 1]
  /\ cursor' = cursor + 1
  /\ UNCHANGED <<nanosecs, queue, longQueue, clock, pending, types, asleep, phase,
                 calling, left>>

ScanMove ==
  /\ phase = "scan"
  /\ cursor <= Len(longQueue)
  /\ LET e == longQueue[cursor]
     IN  /\ seconds[e] = 1
         /\ seconds' = [seconds EXCEPT ![e] = 0]
         /\ longQueue' = RemoveAt(longQueue, cursor)
         /\ \E i \in 1 .. Len(queue) + 1 :
              /\ InsertionPoint(queue, nanosecs, i, nanosecs[e])
              /\ queue' = InsertAt(queue, i, e)
              /\ UpdatePendingIf(i = 1, queue', nanosecs)
  /\ UNCHANGED <<nanosecs, clock, asleep, phase, cursor, calling, left>>

ScanDone ==
  /\ phase = "scan"
  /\ cursor > Len(longQueue)
  /\ phase' = "idle"
  /\ cursor' = 0
  /\ UpdatePending(queue, nanosecs)
  /\ UNCHANGED <<queues, slice, asleep, calling, left>>

-----------------------------------------------------------------------------
(* dreamcast_reset, from SH4 code (SYSRESET) or from the GUI, with the     *)
(* modules in order: the SH4 clears sh4r and INTC_reset reads the head of  *)
(* the old queue; the PVR2 schedules its raster event; event_reset, last,  *)
(* empties the lists and does not touch event_pending.                     *)
Reset ==
  LET old   == Without(queue, RasterEvent)
      first == old = <<>> \/ RasterDelay < nanosecs[old[1]]
  IN  /\ \/ phase = "core" /\ ~asleep
         \/ phase = "idle"
      /\ pending' = IF first THEN RasterDelay ELSE NextTime(old, nanosecs)
      /\ types' = IF first \/ IsHead(queue, RasterEvent) THEN {"EVENT"} ELSE {}
      /\ slice' = 0
      /\ asleep' = FALSE
      /\ queue' = <<>>
      /\ longQueue' = <<>>
      /\ nanosecs' = [e \in EventId |-> NOT_SCHEDULED]
      /\ seconds' = [seconds EXCEPT ![RasterEvent] = 0]
      /\ longScan' = LONG_SCAN_PERIOD
      /\ left' = [e \in EventId |-> 0]
      /\ UNCHANGED <<phase, cursor, calling>>

-----------------------------------------------------------------------------
Client ==
  \/ \E e \in EventId : \/ \E d \in Delays : Schedule(e, d)
                        \/ \E s \in LongSeconds, d \in Delays : ScheduleLong(e, s, d)
                        \/ Cancel(e)
  \/ IrqDeliverable
  \/ IrqMasked

Core ==
  \/ BeginSlice
  \/ \E n \in 1 .. MaxBlock : RunCode(n)
  \/ HandlePending
  \/ SleepJump
  \/ ExecutePop
  \/ CallbackReturn
  \/ ExecuteDone
  \/ AcceptIrq
  \/ NoIrq
  \/ EndSlice

RunSlice == EventRunSlice \/ ScanStay \/ ScanMove \/ ScanDone

Next == Client \/ Core \/ Sleep \/ Halt \/ RunSlice \/ Reset

Spec == Init /\ [][Next]_vars

-----------------------------------------------------------------------------
(* Correctness.                                                            *)

Injective(q) == \A i, j \in 1 .. Len(q) : q[i] = q[j] => i = j

Members(q) == {q[i] : i \in 1 .. Len(q)}

Sorted(q, ns) == \A i, j \in 1 .. Len(q) : i < j => ns[q[i]] <= ns[q[j]]

(* Each scheduled event is linked exactly once, in the list that           *)
(* event_cancel will look for it by its seconds field; an unscheduled one  *)
(* is in neither list.  (event_cancel, event_dequeue, event_scan_long)     *)
ListsConsistent ==
  /\ Injective(queue)
  /\ Injective(longQueue)
  /\ Members(queue) = {e \in EventId : Scheduled(e) /\ seconds[e] = 0}
  /\ Members(longQueue) = {e \in EventId : Scheduled(e) /\ seconds[e] # 0}

(* The short queue is ordered by due time, so that looking at the head is  *)
(* enough.  (event_enqueue, event_run_slice's rebasing)                    *)
QueueSorted == Sorted(queue, nanosecs)

(* Whenever SH4 code runs or may start to, the head of the queue is        *)
(* announced to the core: the flag is set and event_pending is no later    *)
(* than the head is due.  (event_update_pending, the INTC's use of         *)
(* event_get_next_time)                                                    *)
HeadAnnounced ==
  phase \in {"core", "ready", "periph", "idle"} /\ queue # <<>> =>
    /\ "EVENT" \in types
    /\ pending <= nanosecs[queue[1]]

(* The latest an event may be: the scan of the long queue may overshoot its*)
(* second by all but one of the longest slice (halted after an overrun),   *)
(* and a core woken from sleep skips the rest of its slice.                *)
MaxLate == (SliceLength + MaxBlock - 2) + (SliceLength - 1)

(* What the stored time promises against the true time left: never early,  *)
(* and late by a bounded amount.  (event_schedule_long, event_run_slice,   *)
(* event_scan_long)                                                        *)
Lateness(e) == nanosecs[e] - Now - left[e]

TimesTrue ==
  \A e \in Members(queue) : Lateness(e) \in 0 .. MaxLate

LongTimesTrue ==
  phase # "scan" =>
    \A e \in Members(longQueue) :
      left[e] = seconds[e] * LONG_SCAN_PERIOD + nanosecs[e]
                  - (LONG_SCAN_PERIOD - longScan) - Now

(* The times of both lists are those that were asked for, but for what is  *)
(* late by design.  (event_schedule, event_schedule_long, event_run_slice) *)
AllTimesTrue == TimesTrue /\ LongTimesTrue

(* eventq.h's promise, kept by the lists, the sentinel and the slices: an  *)
(* event is called only while it is scheduled, never before its time, never*)
(* more than MaxLate after it, and the latest schedule of an id wins.      *)
(* (event_schedule, event_cancel, event_execute, event_scan_long)          *)
Timers == INSTANCE TimerSpec
            WITH Timer <- EventId, NoTimer <- NoEvent,
                 armed <- {e \in EventId : Scheduled(e)},
                 MaxStep <- SliceLength + MaxBlock
KeepsPromise == Timers!Spec

-----------------------------------------------------------------------------
(* Liveness.  The emulator thread never stops of itself, so its steps are  *)
(* weakly fair.  Its clients are kept from the two things no queue survives*)
(* (rescheduling what is scheduled for ever, and delays of 0 that keep     *)
(* event_execute turning), and the user from resetting or halting.         *)
FairClient ==
  \/ \E e \in EventId : \/ ~Scheduled(e) /\ \E d \in Delays \ {0} : Schedule(e, d)
                        \/ /\ ~Scheduled(e)
                           /\ \E s \in LongSeconds, d \in Delays : ScheduleLong(e, s, d)
                        \/ Cancel(e)
  \/ IrqDeliverable
  \/ IrqMasked

Fairness == WF_vars(Core) /\ WF_vars(RunSlice)

FairSpec == Init /\ [][FairClient \/ Core \/ Sleep \/ RunSlice]_vars /\ Fairness

FairResetSpec ==
  Init /\ [][FairClient \/ Core \/ Sleep \/ RunSlice \/ Reset]_vars /\ Fairness

(* A scheduled event is called or cancelled in the end: whether it starts  *)
(* in the short or the long queue, whether the core runs, sleeps or keeps  *)
(* taking interrupts.  (event_run_slice, event_scan_long, event_execute)   *)
CalledInTheEnd == \A e \in EventId : Scheduled(e) ~> ~Scheduled(e)

(* The core gives up its slice, awake or asleep.  (sh4_sleep_run_slice,    *)
(* sh4.c:647, "Returns when either the SH4 wakes up (interrupt received) or*)
(* the end of the slice is reached.")                                      *)
SliceEnds == phase = "core" ~> phase = "periph"

(* The same of a core that sleeps, with a system reset allowed.            *)
SleepReturns == phase = "core" /\ asleep ~> phase = "periph" \/ ~asleep
=============================================================================
