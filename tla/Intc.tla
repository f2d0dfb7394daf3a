-------------------------------- MODULE Intc --------------------------------
(***************************************************************************)
(* The SH4 interrupt controller (src/src/sh4/intc.c) with the parts of the *)
(* core it works with: BL and IMASK of SR, and the PENDING_IRQ flag, which *)
(* is all the core looks at between two blocks of code.                    *)
(*                                                                         *)
(* pending[] is an array in increasing order of urgency.  The order in it  *)
(* depends on the priorities at the time of each insertion, and a write of *)
(* IPRA, IPRB or IPRC changes the priorities and nothing else.  Spec lets  *)
(* software write them at any time; QuietSpec only while none of the       *)
(* sources a register covers is pending, as a driver that sets up its      *)
(* priorities before it enables its device does.                           *)
(*                                                                         *)
(* PENDING_IRQ and event_pending = 0 are always set and cleared together   *)
(* here, so irq stands for both.                                           *)
(***************************************************************************)
EXTENDS Integers, Sequences, SequencesExt, FiniteSets

CONSTANTS
  Source,         \* the indices of intc_sources[]
  NoSource,       \* INTEVT before the first interrupt
  Default,        \* intc_default_priority[]
  Registers,      \* IPRA, IPRB, IPRC: each a set of fields, a field a set of
                  \* sources
  Levels,         \* the priorities software writes
  IMasks,         \* and the values it gives SR.IMASK
  Capacity        \* bound on the model's pending[]: no source is raised beyond
                  \* it.  The code has no such test; FitsArray says that
                  \* INT_NUM_SOURCES places are enough

ASSUME SourceAssumption == Source \subseteq Nat /\ NoSource \notin Source
ASSUME FiniteAssumption == IsFiniteSet(Source)
ASSUME DefaultAssumption == Default \in [Source -> 0 .. 16]
ASSUME LevelAssumption == Levels \subseteq 0 .. 15 /\ IMasks \subseteq 0 .. 15
ASSUME CapacityAssumption == Capacity \in Nat

VARIABLES
  pending,        \* intc_state.pending[0 .. num_pending-1]
  priority,       \* intc_state.priority[]
  bl,             \* SR.BL
  imask,          \* SR.IMASK
  irq,            \* PENDING_IRQ in sh4r.event_types, and event_pending = 0
  intevt          \* the source whose code INTEVT holds

vars == <<pending, priority, bl, imask, irq, intevt>>

-----------------------------------------------------------------------------
(* Definitions marked "Faulty" are variants of the one that follows; the   *)
(* specification does not use them.  They show that a property can fail.   *)

(* The order of pending[]: of two sources of one priority the one with the *)
(* lower index is the more urgent.                                         *)
LessUrgent(pr, a, b) == \/ pr[a] < pr[b]
                        \/ pr[a] = pr[b] /\ a > b

(* Faulty: sources of one priority in the order they were raised.          *)
StopsNoTie(s, k) == \/ pending[k] = s
                    \/ priority[s] < priority[pending[k]]

(* The two exits of the loop of intc_raise_interrupt.                      *)
Stops(s, k) == \/ pending[k] = s
               \/ LessUrgent(priority, s, pending[k])

(* i is where that loop stops.                                             *)
StopsAt(s, i) ==
  /\ i \in 1 .. Len(pending) + 1
  /\ \A k \in 1 .. i - 1 : ~Stops(s, k)
  /\ i <= Len(pending) => Stops(s, i)

(* The last place s is at, 0 if it is not pending: intc_clear_interrupt    *)
(* looks from the end.                                                     *)
PlaceOf(s) ==
  IF \E i \in 1 .. Len(pending) : pending[i] = s
  THEN CHOOSE i \in 1 .. Len(pending) :
         /\ pending[i] = s
         /\ \A k \in i + 1 .. Len(pending) : pending[k] # s
  ELSE 0

(* Faulty: BL is not looked at.                                            *)
DeliverableInBlock(q, pr, b, m) == q # <<>> /\ m < pr[q[Len(q)]]

(* The condition of intc_mask_changed: the last entry may interrupt now.   *)
Deliverable(q, pr, b, m) == q # <<>> /\ ~b /\ m < pr[q[Len(q)]]

MaskChanged(q, b, m) == irq' = Deliverable(q, priority, b, m)

(* IMASK in 0x700000F0, the value of SR after a reset                      *)
ResetMask == 15

-----------------------------------------------------------------------------
Init ==
  /\ pending = <<>>
  /\ priority = Default
  /\ bl = TRUE
  /\ imask = ResetMask
  /\ irq = FALSE
  /\ intevt = NoSource

(* Faulty: only an interrupt that is alone is announced.                   *)
AnnouncesFirst(s, i) ==
  /\ pending = <<>>
  /\ ~bl /\ imask < priority[s]

(* intc_raise_interrupt announces only what it puts at the end.            *)
Announces(s, i) ==
  /\ i = Len(pending) + 1
  /\ ~bl /\ imask < priority[s]

(* intc_raise_interrupt.  A source of priority 0 is dropped, one that is   *)
(* found pending is left alone.                                            *)
Raise(s) ==
  /\ priority[s] # 0
  /\ Len(pending) < Capacity
  /\ \E i \in 1 .. Len(pending) + 1 :
       /\ StopsAt(s, i)
       /\ i <= Len(pending) => pending[i] # s
       /\ pending' = InsertAt(pending, i, s)
       /\ irq' = (irq \/ Announces(s, i))
  /\ UNCHANGED <<priority, bl, imask, intevt>>

(* intc_clear_interrupt                                                    *)
Clear(s) ==
  /\ PlaceOf(s) # 0
  /\ pending' = RemoveAt(pending, PlaceOf(s))
  /\ MaskChanged(pending', bl, imask)
  /\ UNCHANGED <<priority, bl, imask, intevt>>

(* A write of an IPR register, v[f] being the level in field f.            *)
WritePriorities(r, v) ==
  /\ priority' = [s \in Source |-> IF \E f \in r : s \in f
                                   THEN v[CHOOSE f \in r : s \in f]
                                   ELSE priority[s]]
  /\ UNCHANGED <<pending, bl, imask, irq, intevt>>

(* sh4_write_sr: LDC SR, RTE, and the entry of an exception                *)
WriteSR(b, m) ==
  /\ bl' = b
  /\ imask' = m
  /\ MaskChanged(pending, b, m)
  /\ UNCHANGED <<pending, priority, intevt>>

(* sh4_accept_interrupt.  The source stays in pending[] until the device   *)
(* clears it; what keeps it from interrupting again is BL.                 *)
Accept ==
  /\ irq
  /\ pending # <<>>
  /\ intevt' = pending[Len(pending)]
  /\ bl' = TRUE
  /\ MaskChanged(pending, TRUE, imask)
  /\ UNCHANGED <<pending, priority, imask>>

(* sh4_poweron_reset, and sh4_raise_reset (an exception while BL is set):  *)
(* both write SR and then run INTC_reset.                                  *)
Reset ==
  /\ pending' = <<>>
  /\ priority' = Default
  /\ bl' = TRUE
  /\ imask' = ResetMask
  /\ irq' = FALSE
  /\ UNCHANGED intevt

Common ==
  \/ \E s \in Source : Raise(s) \/ Clear(s)
  \/ \E b \in BOOLEAN, m \in IMasks : WriteSR(b, m)
  \/ Accept
  \/ Reset

Next == \/ Common
        \/ \E r \in Registers : \E v \in [r -> Levels] : WritePriorities(r, v)

Idle(r) == \A k \in 1 .. Len(pending) : pending[k] \notin UNION r

QuietNext ==
  \/ Common
  \/ \E r \in Registers : \E v \in [r -> Levels] :
       Idle(r) /\ WritePriorities(r, v)

Spec == Init /\ [][Next]_vars
QuietSpec == Init /\ [][QuietNext]_vars

-----------------------------------------------------------------------------
TypeOK ==
  /\ pending \in Seq(Source)
  /\ priority \in [Source -> 0 .. 16]
  /\ bl \in BOOLEAN
  /\ imask \in 0 .. 15
  /\ irq \in BOOLEAN
  /\ intevt \in Source \cup {NoSource}

(* The assertion of intc_accept_interrupt: whenever the core sees          *)
(* PENDING_IRQ there is a pending source, whatever software did to the     *)
(* priorities.  (intc_clear_interrupt, intc_mask_changed, INTC_reset)      *)
SourceToAccept == irq => pending # <<>>

(* intc.c:145, "Don't queue more than once".  A second entry would also    *)
(* outlive the intc_clear_interrupt of its device.                         *)
QueuedOnce ==
  \A i, j \in 1 .. Len(pending) : pending[i] = pending[j] => i = j

(* pending[] is in strict order of urgency, so its end is the source to    *)
(* accept.  (the loop of intc_raise_interrupt)                             *)
Ordered ==
  \A i, j \in 1 .. Len(pending) :
    i < j => LessUrgent(priority, pending[i], pending[j])

(* PENDING_IRQ is set exactly when some pending source may interrupt, so   *)
(* no interrupt waits unseen and none is taken that is masked: every write *)
(* of SR, every insertion and every removal keeps it exact.                *)
FlagExact ==
  irq <=> \E k \in 1 .. Len(pending) : ~bl /\ imask < priority[pending[k]]

(* pending[] never outgrows the array, which has one place per source.     *)
FitsArray == Len(pending) <= Cardinality(Source)

(* intc.c:130, "a priority queue": the interrupt accepted is the most      *)
(* urgent of those pending.                                                *)
MostUrgentAccepted ==
  [][Accept => \A k \in 1 .. Len(pending) :
                 ~LessUrgent(priority, intevt', pending[k])]_vars

(* The sources in the array, wherever in it they are.                      *)
InArray == {pending[k] : k \in 1 .. Len(pending)}

(* What intc.c promises its devices: the requests are those of pending[],  *)
(* and the core is interrupted by the most urgent one, if its mask lets it *)
(* through.  (intc_raise_interrupt, intc_clear_interrupt,                  *)
(* sh4_accept_interrupt)                                                   *)
Requests == INSTANCE IntcSpec
              WITH request <- InArray, level <- priority, blocked <- bl,
                   mask <- imask, taken <- intevt, Masks <- IMasks
ServesRequests == Requests!Safe
=============================================================================
