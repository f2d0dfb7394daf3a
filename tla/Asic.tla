-------------------------------- MODULE Asic --------------------------------
(***************************************************************************)
(* The event half of the system ASIC (src/src/asic.c): devices post events *)
(* into three words PIRQ0..2, three masks select which of them drive the   *)
(* interrupt lines IRQ13, IRQ11 and IRQ9 of the SH4, and two cascade bits  *)
(* of PIRQ0 stand for the second and the third word.  The G2, IDE and PVR2 *)
(* DMA channels are here as far as their control registers go; what they   *)
(* copy is left out.                                                       *)
(*                                                                         *)
(* The lines are level-triggered in the hardware; here intc.c keeps them,  *)
(* and every write that can change a level has to recompute it.            *)
(***************************************************************************)
EXTENDS Integers, FiniteSets

CONSTANTS
  Event,          \* the events, without the two cascade bits
  CASCADE1,       \* "something in the second word is active"
  CASCADE2,       \* "something in the third word is active"
  WordOf,         \* the word an event is in, event >> 5
  EVENT_IDE,      \* the one event that the reset of its device clears
  Line,           \* the lines, IRQ13, IRQ11 and IRQ9
  MaskValues,     \* the values software writes to a mask register
  Channel,        \* the DMA channels
  KindOf,         \* "g2", "ide" or "pvr2"
  DoneEvent       \* the event a channel posts when it is done

Bits == Event \cup {CASCADE1, CASCADE2}

ASSUME CascadeAssumption == /\ CASCADE1 \notin Event
                            /\ CASCADE2 \notin Event
                            /\ CASCADE1 # CASCADE2
ASSUME WordAssumption == WordOf \in [Event -> 0 .. 2]
ASSUME IdeAssumption == EVENT_IDE \in Event
ASSUME MaskAssumption == MaskValues \subseteq SUBSET Bits
ASSUME ChannelAssumption == /\ KindOf \in [Channel -> {"g2", "ide", "pvr2"}]
                            /\ DoneEvent \in [Channel -> Event]

VARIABLES
  pirq,           \* the bits set in PIRQ0..2
  mask,           \* IRQA, IRQB, IRQC by line, the three words as one set
  raised,         \* the lines pending in intc.c
  lost,           \* history: lines that a manual reset of the SH4 dropped
  ctl1, ctl2      \* the channels with CTL1 or CTL2 set

vars == <<pirq, mask, raised, lost, ctl1, ctl2>>

-----------------------------------------------------------------------------
(* Definitions marked "Faulty" are variants of the one that follows; the   *)
(* specification does not use them.  They show that a property can fail.   *)

InWord(w) == {e \in Event : WordOf[e] = w}
                \cup (IF w = 0 THEN {CASCADE1, CASCADE2} ELSE {})

Word(b) == IF b \in Event THEN WordOf[b] ELSE 0

(* The bit asic_event also sets for an event of the other words.           *)
Cascade(e) == CASE WordOf[e] = 0 -> {}
                [] WordOf[e] = 1 -> {CASCADE1}
                [] WordOf[e] = 2 -> {CASCADE2}

(* The lines asic_event raises: those with an unmasked bit in the word of  *)
(* the event, or of its cascade bit.                                       *)
Driven(p, e) ==
  {l \in Line : \E b \in {e} \cup Cascade(e) : p \cap mask[l] \cap InWord(Word(b)) # {}}

Post(p, es) == p \cup es \cup UNION {Cascade(e) : e \in es}

(* Faulty: the cascade bits stay.                                          *)
DropKeepsCascade(p, gone, w) == p \ gone

(* Clearing bits of word w; its cascade bit goes with the last of them.    *)
Drop(p, gone, w) ==
  LET q == p \ gone
  IN  CASE w = 0 -> q
        [] w = 1 -> IF q \cap InWord(1) = {} THEN q \ {CASCADE1} ELSE q
        [] w = 2 -> IF q \cap InWord(2) = {} THEN q \ {CASCADE2} ELSE q

(* Faulty: looks at the first word only.                                   *)
QuietFirstWord(p, m) == {l \in Line : p \cap m[l] \cap InWord(0) = {}}

(* asic_check_cleared_events: the lines no unmasked bit drives.            *)
Quiet(p, m) == {l \in Line : p \cap m[l] = {}}

(* Raising a line a manual reset dropped makes up for the loss; a line     *)
(* nobody drives has nothing to lose.                                      *)
StillLost(p, m, r) == (lost \ r) \ Quiet(p, m)

-----------------------------------------------------------------------------
Init ==
  /\ pirq = {}
  /\ mask = [l \in Line |-> {}]
  /\ raised = {}
  /\ lost = {}
  /\ ctl1 = {}
  /\ ctl2 = {}

PostEffect(es) ==
  /\ pirq' = Post(pirq, es)
  /\ raised' = raised \cup UNION {Driven(pirq', e) : e \in es}
  /\ lost' = StillLost(pirq', mask, raised')
  /\ UNCHANGED mask

(* asic_event: a device posts an event.  The PVR2 and the sort DMA, which  *)
(* run to their end inside the write that starts them, are devices here.   *)
asic_event(e) == PostEffect({e}) /\ UNCHANGED <<ctl1, ctl2>>

DropEffect(gone, w) ==
  /\ pirq' = Drop(pirq, gone, w)
  /\ raised' = raised \ Quiet(pirq', mask)
  /\ lost' = StillLost(pirq', mask, raised')
  /\ UNCHANGED <<mask, ctl1, ctl2>>

(* asic_clear_event: a device takes its event back.                        *)
asic_clear_event(e) == DropEffect({e}, WordOf[e])

(* A write of PIRQ0, whose cascade bits are not clearable, or of PIRQ2.    *)
(* A write of PIRQ1 does nothing.                                          *)
ClearBits(gone, w) == DropEffect(gone, w)

(* A write of one of the nine mask registers, then asic_event_mask_changed.*)
WriteMask(l, w, m) ==
  /\ mask' = [mask EXCEPT ![l] = (@ \ InWord(w)) \cup (m \cap InWord(w))]
  /\ raised' = Line \ Quiet(pirq, mask')
  /\ lost' = {}
  /\ UNCHANGED <<pirq, ctl1, ctl2>>

(* g2_dma_transfer, asic_ide_dma_transfer, pvr_dma2_transfer: the copy is  *)
(* made at once, and the IDE drive may have an event of its own to post.   *)
Transfer(c, one, two) ==
  /\ c \in one \cap two
  /\ ctl2' = two \ {c}
  /\ \E own \in {{}, {EVENT_IDE}} :
       /\ own # {} => KindOf[c] = "ide"
       /\ PostEffect(own \cup {DoneEvent[c]})

(* The IDE channel forgets a start it is not enabled for; the others keep  *)
(* it until they are.                                                      *)
NoTransfer(c, one, two) ==
  /\ c \notin one \cap two
  /\ ctl2' = IF KindOf[c] = "ide" THEN two \ {c} ELSE two
  /\ UNCHANGED <<pirq, mask, raised, lost>>

With(s, c, v) == IF v THEN s \cup {c} ELSE s \ {c}

WriteCtl1(c, v) ==
  /\ ctl1' = With(ctl1, c, v)
  /\ Transfer(c, ctl1', ctl2) \/ NoTransfer(c, ctl1', ctl2)

WriteCtl2(c, v) ==
  /\ ctl1' = ctl1
  /\ Transfer(c, ctl1, With(ctl2, c, v)) \/ NoTransfer(c, ctl1, With(ctl2, c, v))

(* sh4_raise_reset runs INTC_reset, and the ASIC is not told.              *)
ManualReset ==
  /\ raised' = {}
  /\ lost' = lost \cup raised
  /\ UNCHANGED <<pirq, mask, ctl1, ctl2>>

(* dreamcast_reset (a write of SYSRESET among others).  mem_reset writes   *)
(* its initial value to every register that differs from it, which clears  *)
(* the masks and with them the lines; but a 0 written to PIRQ0 or PIRQ2    *)
(* clears no bit.  Then the reset of the IDE device clears EVENT_IDE.      *)
Reset ==
  /\ pirq' = Drop(pirq, {EVENT_IDE}, WordOf[EVENT_IDE])
  /\ mask' = [l \in Line |-> {}]
  /\ raised' = {}
  /\ lost' = {}
  /\ ctl1' = {}
  /\ ctl2' = {}

Next ==
  \/ \E e \in Event : asic_event(e)
  \/ \E e \in Event : asic_clear_event(e)
  \/ \E w \in {0, 2} : \E gone \in SUBSET (InWord(w) \cap Event) : ClearBits(gone, w)
  \/ \E l \in Line, w \in 0 .. 2, m \in MaskValues : WriteMask(l, w, m)
  \/ \E c \in Channel, v \in BOOLEAN : WriteCtl1(c, v) \/ WriteCtl2(c, v)
  \/ ManualReset
  \/ Reset

Spec == Init /\ [][Next]_vars

-----------------------------------------------------------------------------
TypeOK ==
  /\ pirq \subseteq Bits
  /\ mask \in [Line -> SUBSET Bits]
  /\ raised \subseteq Line
  /\ lost \subseteq Line
  /\ ctl1 \subseteq Channel
  /\ ctl2 \subseteq Channel

(* The cascade bits tell the truth about the second and the third word.    *)
(* Software polls PIRQ0 alone and trusts them.  (asic_event,               *)
(* asic_clear_event, the write of PIRQ2, asic.h's "Set if something in the *)
(* second word is active")                                                 *)
CascadesExact ==
  /\ CASCADE1 \in pirq <=> pirq \cap InWord(1) # {}
  /\ CASCADE2 \in pirq <=> pirq \cap InWord(2) # {}

(* A line is up exactly while some unmasked bit is set, cascade bits       *)
(* included, whatever the order of posting, clearing and masking; the only *)
(* exception is a line that a manual reset of the SH4 dropped and that no  *)
(* event has driven again.  (asic_event, asic_check_cleared_events,        *)
(* asic_event_mask_changed)                                                *)
LinesExact ==
  \A l \in Line : /\ l \in raised => pirq \cap mask[l] # {}
                  /\ pirq \cap mask[l] # {} => l \in raised \cup lost

(* No channel rests both enabled and started: a start is carried out by    *)
(* whichever of the two writes comes second.  (g2_dma_transfer,            *)
(* asic_ide_dma_transfer, pvr_dma2_transfer)                               *)
StartsAreServed == ctl1 \cap ctl2 = {}

(* A program that polls sees the truth in the cascade bits, and in a start  *)
(* bit that comes down again.  (asic_event, asic_clear_event,              *)
(* g2_dma_transfer)                                                        *)
PollsTrue == CascadesExact /\ StartsAreServed

(* mem.c:165, "Restore all mmio registers to their initial settings": no   *)
(* event is pending after a reset.  (mem_reset)                            *)
ResetRestores == [][Reset => pirq' = {}]_vars
=============================================================================
