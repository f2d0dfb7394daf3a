--------------------------- MODULE MCHolly_proofs ---------------------------
(***************************************************************************)
(* What TLAPS proves of the ASIC and of what is attached to the machine,   *)
(* for all values of the parameters that MCHolly leaves open: any events,  *)
(* lines and channels; any lengths and numbers of sectors of the drive;    *)
(* any ports and places of the Maple bus; any card files, devices and      *)
(* writes; any size of the debugger's buffer and of what arrives at once;  *)
(* any sizes of a picture, its blocks and the transfers that bring it.     *)
(* A part moves alone, so what its own specification promises is a         *)
(* property of the bench (the theorems at the end).                        *)
(***************************************************************************)
EXTENDS MCHolly, SequenceLemmas, TLAPS

-----------------------------------------------------------------------------
(* The ASIC: the cascade bits tell the truth, the interrupt lines are up   *)
(* exactly while an unmasked bit is set, but for those that a manual reset *)
(* dropped, and no DMA channel rests with a start it could serve.  The     *)
(* three are inductive with the type invariant alone; but the lines need   *)
(* the cascade bits to be bits of the first word, and a clear to take away *)
(* events of one word only, which the lemmas on Post and Drop say.         *)
USE DEF Bits

(* Words, cascade bits, and what Post and Drop do to a set of bits.        *)

(* Events have a word and lie in it; cascade bits lie in the first.        *)
LEMMA WordFacts ==
  /\ \A e \in Event : WordOf[e] \in {0, 1, 2} /\ e \in InWord(Word(e))
  /\ \A w \in 0 .. 2 : InWord(w) \subseteq Bits
  /\ InWord(1) = {e \in Event : WordOf[e] = 1}
  /\ InWord(2) = {e \in Event : WordOf[e] = 2}
  /\ CASCADE1 \in InWord(Word(CASCADE1)) /\ CASCADE2 \in InWord(Word(CASCADE2))
<1>1. \A e \in Event : WordOf[e] \in {0, 1, 2}
  BY WordAssumption
<1> QED BY <1>1, CascadeAssumption DEF InWord, Word

(* The cascade bit of an event is that of its word.                        *)
LEMMA CascadeFacts ==
  ASSUME NEW e \in Event
  PROVE  /\ Cascade(e) \subseteq {CASCADE1, CASCADE2}
         /\ CASCADE1 \in Cascade(e) <=> WordOf[e] = 1
         /\ CASCADE2 \in Cascade(e) <=> WordOf[e] = 2
<1>1. WordOf[e] \in {0, 1, 2}
  BY WordAssumption
<1>2. CASE WordOf[e] = 0
  BY <1>2, CascadeAssumption DEF Cascade
<1>3. CASE WordOf[e] = 1
  BY <1>3, CascadeAssumption DEF Cascade
<1>4. CASE WordOf[e] = 2
  BY <1>4, CascadeAssumption DEF Cascade
<1> QED BY <1>1, <1>2, <1>3, <1>4

(* A bit that an event sets lies in the word that is looked at for it.     *)
LEMMA SetBitIsSeen ==
  ASSUME NEW e \in Event, NEW b \in {e} \cup Cascade(e)
  PROVE  b \in Bits /\ b \in InWord(Word(b))
BY WordFacts, CascadeFacts

(* The cascade bits of a set of bits are true.                             *)
Truthful(p) ==
  /\ CASCADE1 \in p <=> p \cap InWord(1) # {}
  /\ CASCADE2 \in p <=> p \cap InWord(2) # {}

LEMMA PostFacts ==
  ASSUME NEW p \in SUBSET Bits, NEW es \in SUBSET Event
  PROVE  /\ Post(p, es) \in SUBSET Bits
         /\ p \subseteq Post(p, es)
         /\ \A b \in Post(p, es) \ p : \E e \in es : b \in {e} \cup Cascade(e)
         /\ Truthful(p) => Truthful(Post(p, es))
<1> DEFINE q == Post(p, es)
<1>1. \A b : b \in q <=> b \in p \/ b \in es \/ \E e \in es : b \in Cascade(e)
  BY DEF Post
<1>2. \A e \in es : e \in Event /\ Cascade(e) \subseteq {CASCADE1, CASCADE2}
  BY CascadeFacts
<1>3. q \in SUBSET Bits /\ p \subseteq q
  BY <1>1, <1>2
<1>4. \A b \in q \ p : \E e \in es : b \in {e} \cup Cascade(e)
  BY <1>1
<1>5. ASSUME Truthful(p) PROVE Truthful(q)
  <2>1. CASCADE1 \in q <=> CASCADE1 \in p \/ \E e \in es : WordOf[e] = 1
    BY <1>1, CascadeFacts, CascadeAssumption
  <2>2. CASCADE2 \in q <=> CASCADE2 \in p \/ \E e \in es : WordOf[e] = 2
    BY <1>1, CascadeFacts, CascadeAssumption
  <2>3. q \cap InWord(1) # {} <=> p \cap InWord(1) # {} \/ \E e \in es : WordOf[e] = 1
    BY <1>1, <1>2, WordFacts, CascadeAssumption
  <2>4. q \cap InWord(2) # {} <=> p \cap InWord(2) # {} \/ \E e \in es : WordOf[e] = 2
    BY <1>1, <1>2, WordFacts, CascadeAssumption
  <2> QED BY <1>5, <2>1, <2>2, <2>3, <2>4 DEF Truthful
<1> QED BY <1>3, <1>4, <1>5

LEMMA DropFacts ==
  ASSUME NEW p \in SUBSET Bits, NEW w \in 0 .. 2,
         NEW gone \in SUBSET (InWord(w) \cap Event)
  PROVE  /\ Drop(p, gone, w) \in SUBSET Bits
         /\ Drop(p, gone, w) \subseteq p
         /\ Truthful(p) => Truthful(Drop(p, gone, w))
<1> DEFINE q == p \ gone
<1>1. q \in SUBSET Bits /\ q \subseteq p
  OBVIOUS
<1>2. CASCADE1 \notin gone /\ CASCADE2 \notin gone
  BY CascadeAssumption
<1>3. CASE w = 0
  <2>1. Drop(p, gone, w) = q
    BY <1>3 DEF Drop
  <2>2. q \cap InWord(1) = p \cap InWord(1) /\ q \cap InWord(2) = p \cap InWord(2)
    BY <1>3, WordFacts, CascadeAssumption DEF InWord
  <2> QED BY <1>1, <1>2, <2>1, <2>2 DEF Truthful
<1>4. CASE w = 1
  <2>1. Drop(p, gone, w) = IF q \cap InWord(1) = {} THEN q \ {CASCADE1} ELSE q
    BY <1>4 DEF Drop
  <2>2. q \cap InWord(2) = p \cap InWord(2)
    BY <1>4, WordFacts
  <2>3. CASCADE1 \notin InWord(1) /\ CASCADE1 \notin InWord(2)
    BY WordFacts, CascadeAssumption
  <2> QED BY <1>1, <1>2, <2>1, <2>2, <2>3, CascadeAssumption DEF Truthful
<1>5. CASE w = 2
  <2>1. Drop(p, gone, w) = IF q \cap InWord(2) = {} THEN q \ {CASCADE2} ELSE q
    BY <1>5 DEF Drop
  <2>2. q \cap InWord(1) = p \cap InWord(1)
    BY <1>5, WordFacts
  <2>3. CASCADE2 \notin InWord(1) /\ CASCADE2 \notin InWord(2)
    BY WordFacts, CascadeAssumption
  <2> QED BY <1>1, <1>2, <2>1, <2>2, <2>3, CascadeAssumption DEF Truthful
<1> QED BY <1>3, <1>4, <1>5

-----------------------------------------------------------------------------
(* The inductive invariant.  Each conjunct is one the runs check, or the   *)
(* type invariant.                                                         *)
Inv == TypeOK /\ CascadesExact /\ LinesExact /\ StartsAreServed

LEMMA CascadesAreTruth == CascadesExact <=> Truthful(pirq)
BY DEF CascadesExact, Truthful

LEMMA CascadesAreTruthPrimed == CascadesExact' <=> Truthful(pirq')
BY DEF CascadesExact, Truthful

(* Posting events: every line with an unmasked bit that was not set before *)
(* is among those that are raised for its event.                           *)
LEMMA PostKeeps ==
  ASSUME TypeOK, CascadesExact, LinesExact, NEW es \in SUBSET Event, PostEffect(es)
  PROVE  /\ pirq' \in SUBSET Bits /\ raised' \in SUBSET Line
         /\ lost' \in SUBSET Line /\ mask' \in [Line -> SUBSET Bits]
         /\ CascadesExact' /\ LinesExact'
<1>1. /\ pirq' = Post(pirq, es)
      /\ raised' = raised \cup UNION {Driven(pirq', e) : e \in es}
      /\ lost' = StillLost(pirq', mask, raised')
      /\ mask' = mask
  BY DEF PostEffect
<1>2. /\ pirq \in SUBSET Bits /\ mask \in [Line -> SUBSET Bits]
      /\ raised \in SUBSET Line /\ lost \in SUBSET Line
  BY DEF TypeOK
<1>3. /\ pirq' \in SUBSET Bits /\ pirq \subseteq pirq'
      /\ \A b \in pirq' \ pirq : \E e \in es : b \in {e} \cup Cascade(e)
      /\ Truthful(pirq) => Truthful(pirq')
  BY <1>1, <1>2, PostFacts
<1>4. \A e \in es : Driven(pirq', e) \subseteq Line
  BY DEF Driven
<1>5. raised' \in SUBSET Line /\ raised \subseteq raised'
  BY <1>1, <1>2, <1>4
<1>6. lost' \in SUBSET Line
      /\ \A l \in lost : pirq' \cap mask[l] # {} => l \in raised' \cup lost'
  BY <1>1, <1>2 DEF StillLost, Quiet
<1>7. ASSUME NEW l \in Line, pirq' \cap mask[l] # {}
      PROVE  l \in raised' \cup lost'
  <2>1. CASE pirq \cap mask[l] # {}
    BY <2>1, <1>5, <1>6, <1>7 DEF LinesExact
  <2>2. CASE pirq \cap mask[l] = {}
    <3>1. PICK b \in pirq' \ pirq : b \in mask[l]
      BY <1>7, <2>2
    <3>2. PICK e \in es : b \in {e} \cup Cascade(e)
      BY <1>3, <3>1
    <3>3. b \in InWord(Word(b))
      BY <3>2, SetBitIsSeen
    <3>4. l \in Driven(pirq', e)
      BY <3>1, <3>2, <3>3 DEF Driven
    <3> QED BY <1>1, <3>4
  <2> QED BY <2>1, <2>2
<1>8. ASSUME NEW l \in raised'
      PROVE  pirq' \cap mask[l] # {}
  <2>1. CASE l \in raised
    BY <1>2, <1>3, <2>1 DEF LinesExact
  <2>2. ASSUME NEW e \in es, l \in Driven(pirq', e)
        PROVE  pirq' \cap mask[l] # {}
    BY <2>2 DEF Driven
  <2> QED BY <1>1, <1>8, <2>1, <2>2
<1>9. LinesExact'
  BY <1>1, <1>7, <1>8 DEF LinesExact
<1> QED
  BY <1>1, <1>2, <1>3, <1>5, <1>6, <1>9, CascadesAreTruth, CascadesAreTruthPrimed

(* Clearing events of one word.                                            *)
LEMMA DropKeeps ==
  ASSUME Inv, NEW w \in 0 .. 2, NEW gone \in SUBSET (InWord(w) \cap Event),
         DropEffect(gone, w)
  PROVE  Inv'
<1>1. /\ pirq' = Drop(pirq, gone, w)
      /\ raised' = raised \ Quiet(pirq', mask)
      /\ lost' = StillLost(pirq', mask, raised')
      /\ mask' = mask /\ ctl1' = ctl1 /\ ctl2' = ctl2
  BY DEF DropEffect
<1>2. /\ pirq \in SUBSET Bits /\ mask \in [Line -> SUBSET Bits]
      /\ raised \in SUBSET Line /\ lost \in SUBSET Line
  BY DEF Inv, TypeOK
<1>3. /\ pirq' \in SUBSET Bits /\ pirq' \subseteq pirq
      /\ Truthful(pirq) => Truthful(pirq')
  BY <1>1, <1>2, DropFacts
<1>4. TypeOK'
  BY <1>1, <1>2, <1>3 DEF Inv, TypeOK, StillLost
<1>5. CascadesExact'
  BY <1>3, CascadesAreTruth, CascadesAreTruthPrimed DEF Inv
<1>6. ASSUME NEW l \in Line
      PROVE  /\ l \in raised' => pirq' \cap mask[l] # {}
             /\ pirq' \cap mask[l] # {} => l \in raised' \cup lost'
  BY <1>1, <1>3 DEF Inv, LinesExact, StillLost, Quiet
<1>7. LinesExact'
  BY <1>1, <1>6 DEF LinesExact
<1> QED BY <1>1, <1>4, <1>5, <1>7 DEF Inv, StartsAreServed

(* asic_event                                                              *)
LEMMA EventKeeps ==
  ASSUME Inv, NEW e \in Event, asic_event(e)
  PROVE  Inv'
<1>1. PostEffect({e}) /\ ctl1' = ctl1 /\ ctl2' = ctl2
  BY DEF asic_event
<1>2. {e} \in SUBSET Event
  OBVIOUS
<1> QED BY <1>1, <1>2, PostKeeps DEF Inv, TypeOK, StartsAreServed

(* A write of a mask register: the lines are computed anew.                *)
LEMMA MaskKeeps ==
  ASSUME Inv, NEW l \in Line, NEW w \in 0 .. 2, NEW m \in MaskValues,
         WriteMask(l, w, m)
  PROVE  Inv'
<1>1. /\ mask' = [mask EXCEPT ![l] = (@ \ InWord(w)) \cup (m \cap InWord(w))]
      /\ raised' = Line \ Quiet(pirq, mask') /\ lost' = {}
      /\ pirq' = pirq /\ ctl1' = ctl1 /\ ctl2' = ctl2
  BY DEF WriteMask
<1>2. mask' \in [Line -> SUBSET Bits]
  BY <1>1, MaskAssumption DEF Inv, TypeOK
<1>3. TypeOK'
  BY <1>1, <1>2 DEF Inv, TypeOK
<1>4. LinesExact'
  BY <1>1 DEF LinesExact, Quiet
<1> QED
  BY <1>1, <1>3, <1>4, CascadesAreTruth, CascadesAreTruthPrimed
  DEF Inv, StartsAreServed

(* The two control registers of a channel, as the writes leave them before *)
(* a transfer: nobody else rests with both set.                            *)
LEMMA TransferKeeps ==
  ASSUME Inv, NEW c \in Channel, NEW one \in SUBSET Channel,
         NEW two \in SUBSET Channel, one \cap two \subseteq {c},
         ctl1' = one, Transfer(c, one, two) \/ NoTransfer(c, one, two)
  PROVE  Inv'
<1>1. CASE Transfer(c, one, two)
  <2>1. PICK own \in {{}, {EVENT_IDE}} : PostEffect(own \cup {DoneEvent[c]})
    BY <1>1 DEF Transfer
  <2>2. own \cup {DoneEvent[c]} \in SUBSET Event
    BY ChannelAssumption, IdeAssumption
  <2>3. ctl2' = two \ {c}
    BY <1>1 DEF Transfer
  <2> QED BY <2>1, <2>2, <2>3, PostKeeps DEF Inv, TypeOK, StartsAreServed
<1>2. CASE NoTransfer(c, one, two)
  <2>1. /\ c \notin one \cap two
        /\ ctl2' \subseteq two
        /\ pirq' = pirq /\ mask' = mask /\ raised' = raised /\ lost' = lost
    BY <1>2 DEF NoTransfer
  <2>2. TypeOK' /\ LinesExact'
    BY <2>1 DEF Inv, TypeOK, LinesExact
  <2> QED
    BY <2>1, <2>2, CascadesAreTruth, CascadesAreTruthPrimed DEF Inv, StartsAreServed
<1> QED BY <1>1, <1>2

LEMMA CtlKeeps ==
  ASSUME Inv, NEW c \in Channel, NEW v \in BOOLEAN, WriteCtl1(c, v) \/ WriteCtl2(c, v)
  PROVE  Inv'
<1>1. ctl1 \in SUBSET Channel /\ ctl2 \in SUBSET Channel /\ ctl1 \cap ctl2 = {}
  BY DEF Inv, TypeOK, StartsAreServed
<1>2. \A s \in SUBSET Channel :
        With(s, c, v) \in SUBSET Channel /\ With(s, c, v) \ {c} \subseteq s
  BY DEF With
<1>3. CASE WriteCtl1(c, v)
  <2> DEFINE one == With(ctl1, c, v)
  <2>1. ctl1' = one /\ (Transfer(c, one, ctl2) \/ NoTransfer(c, one, ctl2))
    BY <1>3 DEF WriteCtl1
  <2>2. one \in SUBSET Channel /\ one \cap ctl2 \subseteq {c}
    BY <1>1, <1>2
  <2> HIDE DEF one
  <2> QED BY <1>1, <2>1, <2>2, TransferKeeps
<1>4. CASE WriteCtl2(c, v)
  <2> DEFINE two == With(ctl2, c, v)
  <2>1. ctl1' = ctl1 /\ (Transfer(c, ctl1, two) \/ NoTransfer(c, ctl1, two))
    BY <1>4 DEF WriteCtl2
  <2>2. two \in SUBSET Channel /\ ctl1 \cap two \subseteq {c}
    BY <1>1, <1>2
  <2> HIDE DEF two
  <2> QED BY <1>1, <2>1, <2>2, TransferKeeps
<1> QED BY <1>3, <1>4

(* The resets.  A manual reset drops lines, but remembers that it did; the *)
(* machine's own clears all masks, so that no line has to be up.           *)
LEMMA ManualResetKeeps == ASSUME Inv, ManualReset PROVE Inv'
<1>1. /\ raised' = {} /\ lost' = lost \cup raised
      /\ pirq' = pirq /\ mask' = mask /\ ctl1' = ctl1 /\ ctl2' = ctl2
  BY DEF ManualReset
<1>2. TypeOK' /\ LinesExact'
  BY <1>1 DEF Inv, TypeOK, LinesExact
<1> QED
  BY <1>1, <1>2, CascadesAreTruth, CascadesAreTruthPrimed DEF Inv, StartsAreServed

LEMMA ResetKeeps == ASSUME Inv, Reset PROVE Inv'
<1>1. /\ pirq' = Drop(pirq, {EVENT_IDE}, WordOf[EVENT_IDE])
      /\ mask' = [l \in Line |-> {}] /\ raised' = {} /\ lost' = {}
      /\ ctl1' = {} /\ ctl2' = {}
  BY DEF Reset
<1>2. WordOf[EVENT_IDE] \in 0 .. 2
      /\ {EVENT_IDE} \in SUBSET (InWord(WordOf[EVENT_IDE]) \cap Event)
  BY WordFacts, IdeAssumption, WordAssumption DEF Word
<1>3. pirq' \in SUBSET Bits /\ (Truthful(pirq) => Truthful(pirq'))
  BY <1>1, <1>2, DropFacts DEF Inv, TypeOK
<1>4. TypeOK' /\ LinesExact' /\ StartsAreServed'
  BY <1>1, <1>3 DEF TypeOK, LinesExact, StartsAreServed
<1> QED BY <1>3, <1>4, CascadesAreTruth, CascadesAreTruthPrimed DEF Inv

-----------------------------------------------------------------------------
THEOREM AsicInvariant == Spec => []Inv
<1>1. Init => Inv
  BY DEF Init, Inv, TypeOK, CascadesExact, LinesExact, StartsAreServed
<1>2. Inv /\ [Next]_vars => Inv'
  <2> SUFFICES ASSUME Inv, [Next]_vars PROVE Inv'
    OBVIOUS
  <2>1. ASSUME NEW e \in Event, asic_event(e) PROVE Inv'
    BY <2>1, EventKeeps
  <2>2. ASSUME NEW e \in Event, asic_clear_event(e) PROVE Inv'
    <3>1. WordOf[e] \in 0 .. 2 /\ {e} \in SUBSET (InWord(WordOf[e]) \cap Event)
      BY WordFacts, WordAssumption DEF Word
    <3> QED BY <2>2, <3>1, DropKeeps DEF asic_clear_event
  <2>3. ASSUME NEW w \in {0, 2}, NEW gone \in SUBSET (InWord(w) \cap Event),
               ClearBits(gone, w)
        PROVE  Inv'
    BY <2>3, DropKeeps DEF ClearBits
  <2>4. ASSUME NEW l \in Line, NEW w \in 0 .. 2, NEW m \in MaskValues,
               WriteMask(l, w, m)
        PROVE  Inv'
    BY <2>4, MaskKeeps
  <2>5. ASSUME NEW c \in Channel, NEW v \in BOOLEAN,
               WriteCtl1(c, v) \/ WriteCtl2(c, v)
        PROVE  Inv'
    BY <2>5, CtlKeeps
  <2>6. CASE ManualReset
    BY <2>6, ManualResetKeeps
  <2>7. CASE Reset
    BY <2>7, ResetKeeps
  <2>8. CASE UNCHANGED vars
    BY <2>8 DEF vars, Inv, TypeOK, CascadesExact, LinesExact, StartsAreServed
  <2> QED BY <2>1, <2>2, <2>3, <2>4, <2>5, <2>6, <2>7, <2>8 DEF Next
<1> QED BY <1>1, <1>2, PTL DEF Spec

(* A program that polls PIRQ0 and the start bits sees the truth: a cascade *)
(* bit is set exactly while something in its word is, and no channel stays *)
(* both enabled and started.  (asic_event, asic_clear_event,               *)
(* g2_dma_transfer, asic_ide_dma_transfer, pvr_dma2_transfer)              *)
THEOREM AsicPollsTrue == Spec => []PollsTrue
<1>1. Inv => PollsTrue
  BY DEF Inv, PollsTrue
<1> QED BY <1>1, AsicInvariant, PTL

(* An interrupt line is up exactly while an unmasked bit is set, in any    *)
(* order of posting, clearing and masking, but for the lines that a manual *)
(* reset dropped.  (asic_event, asic_check_cleared_events,                 *)
(* asic_event_mask_changed)                                                *)
THEOREM AsicLinesExact == Spec => []LinesExact
<1>1. Inv => LinesExact
  BY DEF Inv
<1> QED BY <1>1, AsicInvariant, PTL

HIDE DEF Bits

-----------------------------------------------------------------------------
(* The drive.  The handlers of ide.c are functions of the drive, and so is *)
(* what is shown of them: what they keep, and what they leave behind.      *)
Kind ==
  [state : Drive!States, status : SUBSET {"BSY", "DRQ", "CHK"}, intrq : BOOLEAN,
   enabled : BOOLEAN, posted : BOOLEAN, dma : BOOLEAN, offset : Int, length : Int,
   left : 0 .. CounterSize - 1, sense : BOOLEAN, reset : BOOLEAN, owed : Int,
   sector : BOOLEAN]

Signal(e) == e.posted <=> e.intrq /\ e.enabled
StatusOf(e) ==
  /\ "DRQ" \in e.status => e.state \in {"CMD_WRITE", "PIO_READ", "PIO_WRITE"}
  /\ e.state \in {"DMA_READ", "DMA_WRITE"} => e.status = {"BSY"}
  /\ "BSY" \in e.status => e.state \in {"DMA_READ", "DMA_WRITE", "BUSY"}
Buffer(e) ==
  e.state \notin {"IDLE", "BUSY"} =>
    e.offset >= 0 /\ (e.offset < e.length \/ e.length = 0)
(* The host is owed sectors only in a read, or after one that failed.      *)
Owed(e) ==
  e.owed > 0 =>
    \/ e.state \in {"PIO_READ", "DMA_READ"} /\ e.sector /\ e.left = e.owed - 1
    \/ e.state = "IDLE" /\ e.sense
Sound(e) == e \in Kind /\ Signal(e) /\ StatusOf(e) /\ Buffer(e) /\ Owed(e)

(* What ide_raise_interrupt and ide_clear_interrupt leave alone.           *)
SameButLine(e, f) ==
  /\ e.state = f.state /\ e.status = f.status /\ e.enabled = f.enabled
  /\ e.dma = f.dma /\ e.offset = f.offset /\ e.length = f.length
  /\ e.left = f.left /\ e.sense = f.sense /\ e.owed = f.owed /\ e.sector = f.sector

SameButOwed(e, f) ==
  /\ e.state = f.state /\ e.status = f.status /\ e.enabled = f.enabled
  /\ e.dma = f.dma /\ e.offset = f.offset /\ e.length = f.length
  /\ e.left = f.left /\ e.sense = f.sense /\ e.sector = f.sector
  /\ e.intrq = f.intrq /\ e.posted = f.posted

RaisedTo(e, r) == r \in Kind /\ Signal(r) /\ r.intrq /\ SameButLine(r, e)
ResultTo(e, ok, r) ==
  /\ r \in Kind /\ Signal(r) /\ r.owed = e.owed
  /\ ok => /\ r.status = e.status \ {"BSY", "CHK"} /\ r.state = e.state
           /\ r.dma = e.dma /\ r.offset = e.offset
           /\ r.length = e.length /\ r.left = e.left
           /\ r.sector = e.sector
  /\ ~ok => r.status = {"CHK"} /\ r.state = "IDLE" /\ r.sense /\ r.intrq
StartedTo(e, n, kind, r) ==
  /\ r \in Kind /\ Signal(r)
  /\ r.state = IF e.dma THEN Drive!DmaState[kind] ELSE Drive!PioState[kind]
  /\ r.status = IF e.dma THEN {"BSY"} ELSE {"DRQ"}
  /\ r.offset = 0 /\ r.length = n
  /\ r.left = e.left /\ r.owed = e.owed /\ r.sector = e.sector
  /\ r.dma = e.dma /\ (e.dma \/ r.intrq)

LEMMA Raised ==
  ASSUME NEW e \in Kind, Signal(e), NEW r, r = Drive!Raise(e)
  PROVE  RaisedTo(e, r)
BY DEF Drive!Raise, Kind, Signal, SameButLine, RaisedTo

LEMMA Cleared ==
  ASSUME NEW e \in Kind, Signal(e), NEW r, r = Drive!Clear(e)
  PROVE  r \in Kind /\ Signal(r) /\ SameButLine(r, e)
BY DEF Drive!Clear, Kind, Signal, SameButLine

(* ide_set_packet_result: after a failure, the drive is idle.              *)
LEMMA ResultSet ==
  ASSUME NEW e \in Kind, Signal(e), NEW ok \in BOOLEAN, NEW r, r = Drive!SetResult(e, ok)
  PROVE  ResultTo(e, ok, r)
<1>1. CASE ok
  BY <1>1 DEF Drive!SetResult, Kind, Signal, ResultTo
<1>2. CASE ~ok
  <2>1. PICK f : f = [e EXCEPT !.status = {"CHK"}, !.sense = TRUE, !.state = "IDLE"]
    OBVIOUS
  <2>2. /\ f \in Kind /\ Signal(f) /\ f.status = {"CHK"} /\ f.state = "IDLE"
        /\ f.sense /\ f.owed = e.owed
    BY <2>1 DEF Kind, Signal, Drive!States
  <2>3. r = Drive!Raise(f)
    BY <1>2, <2>1 DEF Drive!SetResult
  <2> QED BY <1>2, <2>2, <2>3, Raised DEF RaisedTo, SameButLine, ResultTo
<1> QED BY <1>1, <1>2

(* ide_start_read, ide_start_write                                         *)
LEMMA Started ==
  ASSUME NEW e \in Kind, Signal(e), NEW n \in Nat, NEW kind \in {"READ", "WRITE"},
         NEW r, r = Drive!Start(e, n, kind)
  PROVE  StartedTo(e, n, kind, r)
<1>1. PICK f : f = [e EXCEPT !.offset = 0, !.length = n]
  OBVIOUS
<1>2. f \in Kind
  <2>1. n \in Int /\ 0 \in Int
    OBVIOUS
  <2>2. PICK zero \in Int, m \in Int : zero = 0 /\ m = n
    BY <2>1
  <2>3. [e EXCEPT !.offset = zero, !.length = m] \in Kind
    BY DEF Kind
  <2> QED BY <2>2, <2>3, <1>1
<1>3. /\ f.dma = e.dma /\ f.offset = 0 /\ f.length = n /\ f.left = e.left
      /\ f.owed = e.owed /\ f.sector = e.sector
      /\ f.posted = e.posted /\ f.intrq = e.intrq /\ f.enabled = e.enabled
  BY <1>1 DEF Kind
<1>4. Signal(f)
  BY <1>3 DEF Signal
<1>5. Drive!PioState[kind] \in Drive!States /\ Drive!DmaState[kind] \in Drive!States
  BY DEF Drive!PioState, Drive!DmaState, Drive!States
<1>6. PICK dmaState, pioState : dmaState = Drive!DmaState[kind] /\ pioState = Drive!PioState[kind]
  OBVIOUS
<1>7. CASE e.dma
  <2>1. r = [f EXCEPT !.status = {"BSY"}, !.state = dmaState]
    BY <1>1, <1>3, <1>6, <1>7 DEF Drive!Start
  <2>2. /\ r \in Kind /\ r.dma = e.dma /\ r.offset = 0 /\ r.length = n
        /\ r.left = e.left /\ r.owed = e.owed /\ r.sector = e.sector
        /\ r.status = {"BSY"} /\ r.state = dmaState
        /\ r.posted = f.posted /\ r.intrq = f.intrq /\ r.enabled = f.enabled
    BY <2>1, <1>2, <1>3, <1>5, <1>6, ZenonT(60) DEF Kind
  <2> QED BY <2>2, <1>4, <1>6, <1>7 DEF Signal, StartedTo
<1>8. CASE ~e.dma
  <2>1. PICK g : g = [f EXCEPT !.status = {"DRQ"}, !.state = pioState]
    OBVIOUS
  <2>2. /\ g \in Kind /\ g.dma = e.dma /\ g.offset = 0 /\ g.length = n
        /\ g.left = e.left /\ g.owed = e.owed /\ g.sector = e.sector
        /\ g.status = {"DRQ"} /\ g.state = pioState
        /\ g.posted = f.posted /\ g.intrq = f.intrq /\ g.enabled = f.enabled
    BY <2>1, <1>2, <1>3, <1>5, <1>6, ZenonT(60) DEF Kind
  <2>3. Signal(g)
    BY <2>2, <1>4 DEF Signal
  <2>4. r = Drive!Raise(g)
    BY <1>1, <1>3, <1>6, <1>8, <2>1 DEF Drive!Start
  <2> QED BY <1>6, <1>8, <2>2, <2>3, <2>4, Raised DEF RaisedTo, SameButLine, StartedTo
<1> QED BY <1>7, <1>8
(* The packet is answered: software is told, or the drive is ready to move.*)
Told(e) == e.intrq \/ (e.dma /\ e.state \in {"DMA_READ", "DMA_WRITE"})

LEMMA Replied ==
  ASSUME NEW e \in Kind, Signal(e), NEW kind \in {"READ", "WRITE"},
         NEW r \in Drive!Reply(e, kind)
  PROVE  Sound(r) /\ Told(r)
<1>1. PICK f : f = [e EXCEPT !.left = 0, !.owed = 0, !.sector = FALSE]
  OBVIOUS
<1>2. f \in Kind /\ f.owed = 0 /\ Signal(f)
  <2>1. PICK zero \in 0 .. CounterSize - 1 : zero = 0
    BY DriveConstants DEF Drive!CounterAssumption
  <2>2. PICK no \in BOOLEAN : no = FALSE
    OBVIOUS
  <2>3. f = [e EXCEPT !.left = zero, !.owed = zero, !.sector = no]
    BY <1>1, <2>1, <2>2
  <2>4. f \in Kind
    <3>1. zero \in Int
      BY <2>1
    <3> QED BY <2>3, <3>1 DEF Kind
  <2>5. f.owed = zero /\ f.posted = e.posted /\ f.intrq = e.intrq /\ f.enabled = e.enabled
    BY <2>3 DEF Kind
  <2> QED BY <2>1, <2>4, <2>5 DEF Signal
<1>3. PICK g : g = Drive!SetResult(f, TRUE)
  OBVIOUS
<1>4. g \in Kind /\ Signal(g) /\ g.owed = 0
  BY <1>2, <1>3, ResultSet DEF ResultTo
<1>5. PICK n \in Nat : r = Drive!Start(g, n, kind)
  BY <1>1, <1>3, DriveConstants DEF Drive!Reply, Drive!LengthAssumption
<1>6. /\ r \in Kind /\ Signal(r)
      /\ r.state = IF g.dma THEN Drive!DmaState[kind] ELSE Drive!PioState[kind]
      /\ r.status = IF g.dma THEN {"BSY"} ELSE {"DRQ"}
      /\ r.offset = 0 /\ r.length = n /\ r.owed = 0
      /\ r.dma = g.dma /\ (g.dma \/ r.intrq)
  <2>1. StartedTo(g, n, kind, r)
    BY <1>4, <1>5, Started
  <2> QED BY <2>1, <1>4 DEF StartedTo
<1>7. /\ Drive!DmaState[kind] \in {"DMA_READ", "DMA_WRITE"}
      /\ Drive!PioState[kind] \in {"PIO_READ", "PIO_WRITE"}
  BY DEF Drive!DmaState, Drive!PioState
<1> QED BY <1>6, <1>7 DEF Sound, StatusOf, Buffer, Owed, Told

(* ide_read_next_sector, of a read that owes what it has left.             *)
LEMMA SectorRead ==
  ASSUME NEW e \in Kind, Signal(e), e.owed > 0 => e.sector /\ e.left = e.owed,
         NEW r \in Drive!NextSector(e)
  PROVE  Sound(r) /\ Told(r)
<1>1. CASE r = Drive!SetResult(e, FALSE)
  <2>1. r \in Kind /\ Signal(r) /\ r.status = {"CHK"} /\ r.state = "IDLE" /\ r.sense /\ r.intrq
    BY <1>1, ResultSet DEF ResultTo
  <2> QED BY <2>1 DEF Sound, StatusOf, Buffer, Owed, Told
<1>2. CASE r = Drive!Start([e EXCEPT !.left = (@ - 1) % CounterSize], SectorWords, "READ")
  <2>1. PICK m : m = (e.left - 1) % CounterSize
    OBVIOUS
  <2>2. e.left \in 0 .. CounterSize - 1 /\ CounterSize \in Nat \ {0}
    BY DriveConstants DEF Kind, Drive!CounterAssumption
  <2>3. m \in 0 .. CounterSize - 1 /\ (e.left > 0 => m = e.left - 1)
    BY <2>1, <2>2
  <2>4. PICK f : f = [e EXCEPT !.left = m]
    OBVIOUS
  <2>5. /\ f \in Kind /\ Signal(f) /\ f.left = m /\ f.owed = e.owed
        /\ f.sector = e.sector /\ f.dma = e.dma
    BY <2>3, <2>4 DEF Kind, Signal
  <2>6. r = Drive!Start(f, SectorWords, "READ") /\ SectorWords \in Nat
    BY <1>2, <2>1, <2>4, DriveConstants DEF Drive!LengthAssumption
  <2>7. /\ r \in Kind /\ Signal(r)
        /\ r.state = IF e.dma THEN Drive!DmaState["READ"] ELSE Drive!PioState["READ"]
        /\ r.status = IF e.dma THEN {"BSY"} ELSE {"DRQ"}
        /\ r.offset = 0 /\ r.length = SectorWords
        /\ r.left = m /\ r.owed = e.owed /\ r.sector = e.sector
        /\ r.dma = e.dma /\ (e.dma \/ r.intrq)
    <3>1. StartedTo(f, SectorWords, "READ", r)
      BY <2>5, <2>6, Started
    <3> QED BY <3>1, <2>5 DEF StartedTo
  <2>8. Drive!DmaState["READ"] = "DMA_READ" /\ Drive!PioState["READ"] = "PIO_READ"
    BY DEF Drive!DmaState, Drive!PioState
  <2>9. Owed(r)
    <3>1. e.owed \in Int
      BY DEF Kind
    <3> QED BY <3>1, <2>2, <2>3, <2>7, <2>8 DEF Owed
  <2> QED BY <2>6, <2>7, <2>8, <2>9 DEF Sound, StatusOf, Buffer, Told
<1> QED BY <1>1, <1>2 DEF Drive!NextSector

(* ide_packet_command: what it may leave behind.                           *)
ToldOrKnown(c, r) ==
  \/ Told(r)
  \/ c \in {"DRIVE_STATUS", "MODE_SENSE", "MODE_SELECT"} /\ r.status = {"CHK"}
  \/ c = "STATUS" /\ r.state = "BUSY"

LEMMA CommandExecuted ==
  ASSUME NEW e \in Kind, Signal(e), e.state = "BUSY", "DRQ" \notin e.status, e.owed <= 0,
         NEW c \in Drive!Packets, NEW r \in Drive!Executed(e, c)
  PROVE  Sound(r) /\ ToldOrKnown(c, r)
<1>1. CASE r = Drive!SetResult(e, FALSE)
  <2>1. r \in Kind /\ Signal(r) /\ r.status = {"CHK"} /\ r.state = "IDLE" /\ r.sense /\ r.intrq
    BY <1>1, ResultSet DEF ResultTo
  <2> QED BY <2>1 DEF Sound, StatusOf, Buffer, Owed, Told, ToldOrKnown
<1>2. CASE r = [Drive!SetResult(e, FALSE) EXCEPT !.reset = FALSE]
  <2>1. PICK f : f = Drive!SetResult(e, FALSE)
    OBVIOUS
  <2>2. f \in Kind /\ Signal(f) /\ f.status = {"CHK"} /\ f.state = "IDLE" /\ f.sense /\ f.intrq
    BY <2>1, ResultSet, ZenonT(60) DEF ResultTo
  <2>3. r = [f EXCEPT !.reset = FALSE]
    BY <1>2, <2>1
  <2>4. r \in Kind /\ Signal(r) /\ r.status = {"CHK"} /\ r.state = "IDLE" /\ r.sense /\ r.intrq
    BY <2>2, <2>3 DEF Kind, Signal
  <2> QED BY <2>4 DEF Sound, StatusOf, Buffer, Owed, Told, ToldOrKnown
<1>3. CASE \E kind \in {"READ", "WRITE"} : r \in Drive!Reply(e, kind)
  BY <1>3, Replied DEF ToldOrKnown
<1>4. CASE c \in {"DRIVE_STATUS", "MODE_SENSE", "MODE_SELECT"} /\ r = Drive!BadField(e)
  <2>1. /\ r \in Kind /\ Signal(r) /\ r.status = {"CHK"} /\ r.state = "BUSY"
        /\ r.owed = e.owed
    BY <1>4 DEF Drive!BadField, Kind, Signal
  <2>2. e.owed \in Int
    BY DEF Kind
  <2> QED BY <1>4, <2>1, <2>2 DEF Sound, StatusOf, Buffer, Owed, ToldOrKnown
<1>5. CASE c = "STATUS" /\ r = e
  BY <1>5 DEF Sound, StatusOf, Buffer, Owed, ToldOrKnown, Kind
<1>6. CASE r = Drive!Raise(Drive!SetResult(e, TRUE))
  <2>1. PICK f : f = Drive!SetResult(e, TRUE)
    OBVIOUS
  <2>2. /\ f \in Kind /\ Signal(f) /\ f.status = e.status \ {"BSY", "CHK"}
        /\ f.state = "BUSY" /\ f.owed = e.owed
    BY <2>1, ResultSet, ZenonT(60) DEF ResultTo
  <2>3. /\ r \in Kind /\ Signal(r) /\ r.status = e.status \ {"BSY", "CHK"}
        /\ r.state = "BUSY" /\ r.owed = e.owed /\ r.intrq
    BY <1>6, <2>1, <2>2, Raised, ZenonT(60) DEF RaisedTo, SameButLine
  <2>4. e.owed \in Int
    BY DEF Kind
  <2> QED BY <2>3, <2>4 DEF Sound, StatusOf, Buffer, Owed, Told, ToldOrKnown
<1>7. CASE \E ok \in BOOLEAN :
             r = [Drive!Raise(Drive!SetResult(e, ok)) EXCEPT !.status = {}]
  <2>1. PICK ok \in BOOLEAN :
          r = [Drive!Raise(Drive!SetResult(e, ok)) EXCEPT !.status = {}]
    BY <1>7
  <2>2. PICK f : f = Drive!SetResult(e, ok)
    OBVIOUS
  <2>3. f \in Kind /\ Signal(f) /\ f.state \in {"BUSY", "IDLE"} /\ f.owed = e.owed
    BY <2>2, ResultSet DEF ResultTo
  <2>4. PICK g : g = Drive!Raise(f)
    OBVIOUS
  <2>5. /\ g \in Kind /\ Signal(g) /\ g.state \in {"BUSY", "IDLE"} /\ g.owed = e.owed
        /\ g.intrq
    BY <2>3, <2>4, Raised DEF RaisedTo, SameButLine
  <2>6. r = [g EXCEPT !.status = {}]
    BY <2>1, <2>2, <2>4
  <2>7. /\ r \in Kind /\ Signal(r) /\ r.state \in {"BUSY", "IDLE"} /\ r.owed = e.owed
        /\ r.intrq /\ r.status = {}
    BY <2>5, <2>6 DEF Kind, Signal
  <2>8. e.owed \in Int
    BY DEF Kind
  <2> QED BY <2>7, <2>8 DEF Sound, StatusOf, Buffer, Owed, Told, ToldOrKnown
<1>8. CASE \E n \in Blocks :
             r \in Drive!NextSector([e EXCEPT !.left = n, !.owed = n, !.sector = TRUE])
  <2>1. PICK n \in Blocks :
          r \in Drive!NextSector([e EXCEPT !.left = n, !.owed = n, !.sector = TRUE])
    BY <1>8
  <2>2. PICK yes \in BOOLEAN : yes = TRUE
    OBVIOUS
  <2>3. n \in 0 .. CounterSize - 1 /\ n \in Int
    BY <2>1, DriveConstants DEF Drive!CounterAssumption
  <2>4. PICK f : f = [e EXCEPT !.left = n, !.owed = n, !.sector = yes]
    OBVIOUS
  <2>5. f \in Kind /\ Signal(f) /\ f.left = n /\ f.owed = n /\ f.sector
    BY <2>2, <2>3, <2>4 DEF Kind, Signal
  <2>6. r \in Drive!NextSector(f)
    BY <2>1, <2>2, <2>4
  <2> QED BY <2>5, <2>6, SectorRead DEF ToldOrKnown
<1>9. \/ r = Drive!SetResult(e, FALSE)
      \/ r = [Drive!SetResult(e, FALSE) EXCEPT !.reset = FALSE]
      \/ \E kind \in {"READ", "WRITE"} : r \in Drive!Reply(e, kind)
      \/ c \in {"DRIVE_STATUS", "MODE_SENSE", "MODE_SELECT"} /\ r = Drive!BadField(e)
      \/ c = "STATUS" /\ r = e
      \/ r = Drive!Raise(Drive!SetResult(e, TRUE))
      \/ \E ok \in BOOLEAN :
           r = [Drive!Raise(Drive!SetResult(e, ok)) EXCEPT !.status = {}]
      \/ \E n \in Blocks :
           r \in Drive!NextSector([e EXCEPT !.left = n, !.owed = n, !.sector = TRUE])
  BY DEF Drive!Executed, Drive!Packets
<1> QED BY <1>1, <1>2, <1>3, <1>4, <1>5, <1>6, <1>7, <1>8, <1>9
LEMMA SectorHanded ==
  ASSUME NEW e \in Kind, NEW r, r = Drive!HandedOver(e)
  PROVE  /\ r \in Kind /\ SameButOwed(r, e)
         /\ r.owed = IF e.sector THEN e.owed - 1 ELSE e.owed
BY DEF Drive!HandedOver, Kind, SameButOwed

(* The end of a sector, by PIO or by DMA: the read goes on, or is done.    *)
LEMMA SectorDone ==
  ASSUME NEW e, Sound(e), e.state \in {"PIO_READ", "DMA_READ"},
         NEW r, r = Drive!HandedOver(e)
  PROVE  /\ r \in Kind /\ Signal(r) /\ SameButOwed(r, e)
         /\ r.owed > 0 => r.left > 0 /\ r.left = r.owed /\ r.sector
<1>1. /\ r \in Kind /\ SameButOwed(r, e)
      /\ r.owed = IF e.sector THEN e.owed - 1 ELSE e.owed
  BY SectorHanded DEF Sound
<1>2. e.owed \in Int
  BY DEF Sound, Kind
<1> QED BY <1>1, <1>2 DEF Sound, Owed, Signal, SameButOwed

LEMMA DmaTurned ==
  ASSUME NEW e, Sound(e), NEW n \in Nat, NEW p \in Drive!DmaTurn(e, n)
  PROVE  Sound(p[1]) /\ p[2] \in Nat
<1>1. e \in Kind /\ e.offset \in Int /\ e.length \in Int
  BY DEF Sound, Kind
<1>2. CASE n = 0 \/ e.state # "DMA_READ"
  BY <1>2 DEF Drive!DmaTurn
<1>3. CASE n # 0 /\ e.state = "DMA_READ"
  <2>1. PICK m \in Int : m = IF n < e.length - e.offset THEN n ELSE e.length - e.offset
    BY <1>1
  <2>2. PICK to \in Int : to = e.offset + m
    BY <1>1, <2>1
  <2>3. PICK f : f = [e EXCEPT !.offset = to]
    OBVIOUS
  <2>4. /\ f \in Kind /\ f.offset = to /\ f.length = e.length /\ f.state = e.state
        /\ f.status = e.status /\ f.left = e.left /\ f.owed = e.owed
        /\ f.sector = e.sector /\ f.sense = e.sense /\ f.posted = e.posted
        /\ f.intrq = e.intrq /\ f.enabled = e.enabled
    BY <1>1, <2>2, <2>3 DEF Kind
  <2>5. n - m \in Nat
    BY <1>1, <2>1
  <2>6. e.offset >= 0 /\ (e.offset < e.length \/ e.length = 0)
    BY <1>3 DEF Sound, Buffer
  <2>7. \/ to < f.length /\ p = <<f, n - m>>
        \/ f.left > 0 /\ \E g \in Drive!NextSector(Drive!HandedOver(f)) : p = <<g, n - m>>
        \/ p = <<Drive!Raise([Drive!HandedOver(f) EXCEPT
                                !.offset = -1, !.state = "IDLE", !.status = {}]), 0>>
           /\ ~(f.left > 0)
    BY <1>3, <2>1, <2>2, <2>3, <2>4 DEF Drive!DmaTurn
  <2>8. CASE to < f.length /\ p = <<f, n - m>>
    <3>1. to >= 0
      BY <1>1, <2>1, <2>2, <2>6
    <3>2. Sound(f)
      BY <1>3, <2>4, <2>8, <3>1 DEF Sound, Signal, StatusOf, Buffer, Owed
    <3> QED BY <2>5, <2>8, <3>2
  <2>9. PICK h : h = Drive!HandedOver(f)
    OBVIOUS
  <2>10. /\ h \in Kind /\ Signal(h) /\ SameButOwed(h, f)
         /\ h.owed > 0 => h.left > 0 /\ h.left = h.owed /\ h.sector
    <3>1. /\ h \in Kind /\ SameButOwed(h, f)
          /\ h.owed = IF f.sector THEN f.owed - 1 ELSE f.owed
      BY <2>4, <2>9, SectorHanded
    <3>2. e.owed \in Int
      BY <1>1 DEF Kind
    <3> QED BY <3>1, <3>2, <1>3, <2>4 DEF Sound, Owed, Signal, SameButOwed
  <2>11. CASE \E g \in Drive!NextSector(Drive!HandedOver(f)) : p = <<g, n - m>>
    <3>1. PICK g \in Drive!NextSector(h) : p = <<g, n - m>>
      BY <2>9, <2>11
    <3>2. Sound(g)
      BY <2>10, <3>1, SectorRead
    <3> QED BY <2>5, <3>1, <3>2
  <2>12. CASE /\ p = <<Drive!Raise([Drive!HandedOver(f) EXCEPT
                                !.offset = -1, !.state = "IDLE", !.status = {}]), 0>>
              /\ ~(f.left > 0)
    <3>1. PICK below \in Int : below = -1
      OBVIOUS
    <3>2. PICK k : k = [h EXCEPT !.offset = below, !.state = "IDLE", !.status = {}]
      OBVIOUS
    <3>3. k \in Kind
      BY <2>10, <3>2 DEF Kind, Drive!States
    <3>4. /\ k.state = "IDLE" /\ k.status = {} /\ k.owed = h.owed /\ k.posted = h.posted
          /\ k.intrq = h.intrq /\ k.enabled = h.enabled
      BY <2>10, <3>2 DEF Kind
    <3>5. ~(h.owed > 0)
      BY <2>10, <2>12 DEF SameButOwed
    <3>6. PICK r : r = Drive!Raise(k)
      OBVIOUS
    <3>7. Signal(k)
      BY <2>10, <3>4 DEF Signal
    <3>8. RaisedTo(k, r)
      BY <3>3, <3>6, <3>7, Raised
    <3>9. Sound(r)
      BY <3>4, <3>5, <3>8 DEF RaisedTo, SameButLine, Sound, StatusOf, Buffer, Owed
    <3>10. p = <<r, 0>>
      BY <2>9, <2>12, <3>1, <3>2, <3>6
    <3> QED BY <3>9, <3>10
  <2> QED BY <2>7, <2>8, <2>11, <2>12
<1> QED BY <1>2, <1>3

(* The turns of ide_read_data_dma, as many as words are asked for, of the  *)
(* loop that looks for frames in a debugger's buffer, of the reference     *)
(* that reads its bytes, and of the loops of the YUV converter and the     *)
(* PVR2 DMA.  The functions that count them exist, which takes an          *)
(* induction, and so does what is claimed of each of them.                 *)
Turn(kind, a, x, i) ==
  IF kind = "dma" THEN UNION {Drive!DmaTurn(p[1], p[2]) : p \in x}
  ELSE IF kind = "search" THEN IF x.i > Len(a) THEN x ELSE Debugger!Turn(a, x)
  ELSE IF kind = "read" THEN Debugger!Step(x, a[i])
  ELSE IF kind = "process" THEN Movie!Processed(x, a[i])
  ELSE Movie!Chunk(x, a[i])

Turns(g, kind, a, e, n) ==
  g = [i \in 0 .. n |-> IF i = 0 THEN e ELSE Turn(kind, a, g[i - 1], i)]

LEMMA TurnsExist ==
  ASSUME NEW kind, NEW a, NEW e, NEW n \in Nat
  PROVE  \E g : Turns(g, kind, a, e, n)
<1> DEFINE Exists(k) == \E g : Turns(g, kind, a, e, k)
           T == {k \in Nat : Exists(k)}
<1>1. 0 \in T
  <2>1. PICK g : g = [i \in 0 .. 0 |-> e]
    OBVIOUS
  <2>2. g = [i \in 0 .. 0 |-> IF i = 0 THEN e ELSE Turn(kind, a, g[i - 1], i)]
    BY <2>1
  <2> QED BY <2>2 DEF Turns
<1>2. ASSUME NEW k \in Nat, k \in T
      PROVE  k + 1 \in T
  <2>1. PICK g : g = [i \in 0 .. k |-> IF i = 0 THEN e ELSE Turn(kind, a, g[i - 1], i)]
    BY <1>2 DEF Turns
  <2>2. PICK h : h = [i \in 0 .. k + 1 |-> IF i <= k THEN g[i] ELSE Turn(kind, a, g[k], i)]
    OBVIOUS
  <2>3. \A i \in 0 .. k + 1 : h[i] = IF i = 0 THEN e ELSE Turn(kind, a, h[i - 1], i)
    <3> SUFFICES ASSUME NEW i \in 0 .. k + 1
                 PROVE  h[i] = IF i = 0 THEN e ELSE Turn(kind, a, h[i - 1], i)
      OBVIOUS
    <3>1. CASE i = 0
      BY <2>1, <2>2, <3>1
    <3>2. CASE i # 0 /\ i <= k
      <4>1. h[i] = g[i] /\ h[i - 1] = g[i - 1] /\ i \in 0 .. k
        BY <2>2, <3>2
      <4> QED BY <2>1, <3>2, <4>1
    <3>3. CASE i = k + 1
      <4>1. h[i] = Turn(kind, a, g[k], i) /\ h[i - 1] = g[k] /\ i # 0
        BY <2>2, <3>3
      <4> QED BY <4>1
    <3> QED BY <3>1, <3>2, <3>3
  <2>4. h = [i \in 0 .. k + 1 |-> IF i = 0 THEN e ELSE Turn(kind, a, h[i - 1], i)]
    BY <2>2, <2>3
  <2> QED BY <2>4 DEF Turns
<1>3. T \subseteq Nat
  OBVIOUS
<1> HIDE DEF T
<1>4. n \in T
  BY <1>1, <1>2, <1>3, AllNaturals
<1> QED BY <1>4 DEF T

LEMMA TurnFacts ==
  ASSUME NEW a, NEW x, NEW i
  PROVE  /\ Turn("dma", a, x, i) = UNION {Drive!DmaTurn(p[1], p[2]) : p \in x}
         /\ Turn("search", a, x, i) = IF x.i > Len(a) THEN x ELSE Debugger!Turn(a, x)
         /\ Turn("read", a, x, i) = Debugger!Step(x, a[i])
         /\ Turn("process", a, x, i) = Movie!Processed(x, a[i])
         /\ Turn("chunk", a, x, i) = Movie!Chunk(x, a[i])
BY DEF Turn

LEMMA AllMoved ==
  ASSUME NEW e, Sound(e), NEW n \in Nat, NEW r \in Drive!Moved(e, n)
  PROVE  Sound(r)
<1> DEFINE after == CHOOSE g : g = [i \in 0 .. n |-> IF i = 0 THEN {<<e, n>>}
                        ELSE UNION {Drive!DmaTurn(p[1], p[2]) : p \in g[i - 1]}]
<1>0. PICK g : g = [i \in 0 .. n |-> IF i = 0 THEN {<<e, n>>}
                        ELSE UNION {Drive!DmaTurn(p[1], p[2]) : p \in g[i - 1]}]
  <2>1. PICK g : Turns(g, "dma", 0, {<<e, n>>}, n)
    BY TurnsExist
  <2> QED BY <2>1, TurnFacts DEF Turns
<1>1. after = [i \in 0 .. n |-> IF i = 0 THEN {<<e, n>>}
                        ELSE UNION {Drive!DmaTurn(p[1], p[2]) : p \in after[i - 1]}]
  BY <1>0
<1>2. r \in {p[1] : p \in after[n]}
  BY Zenon DEF Drive!Moved
<1> HIDE DEF after
<1> DEFINE T == {k \in Nat : k <= n => \A p \in after[k] : Sound(p[1]) /\ p[2] \in Nat}
<1>3. 0 \in T
  BY <1>1
<1>4. ASSUME NEW k \in Nat, k \in T
      PROVE  k + 1 \in T
  <2> SUFFICES ASSUME k + 1 <= n, NEW p \in after[k + 1]
               PROVE  Sound(p[1]) /\ p[2] \in Nat
    OBVIOUS
  <2>1. after[k + 1] = UNION {Drive!DmaTurn(z[1], z[2]) : z \in after[k]}
    <3>1. PICK j \in 0 .. n : j = k + 1 /\ j # 0 /\ j - 1 = k
      OBVIOUS
    <3>2. after[j] = UNION {Drive!DmaTurn(z[1], z[2]) : z \in after[j - 1]}
      BY <1>1, <3>1
    <3> QED BY <3>1, <3>2
  <2>2. PICK z \in after[k] : p \in Drive!DmaTurn(z[1], z[2])
    BY <2>1
  <2>3. Sound(z[1]) /\ z[2] \in Nat
    BY <1>4, <2>2
  <2> QED BY <2>2, <2>3, DmaTurned
<1>5. T \subseteq Nat
  OBVIOUS
<1>6. n \in T
  <2> HIDE DEF T
  <2> QED BY <1>3, <1>4, <1>5, AllNaturals
<1> QED BY <1>2, <1>6
LEMMA PacketWritten ==
  ASSUME Sound(d), NEW c \in Drive!Packets, Drive!Execute(c)
  PROVE  Sound(d)' /\ ToldOrKnown(c, d')
<1>1. d.state = "CMD_WRITE" /\ d \in Kind /\ Signal(d) /\ d.owed \in Int
  BY DEF Drive!Execute, Sound, Kind
<1>2. PICK below \in Int : below = -1
  OBVIOUS
<1>3. PICK s \in SUBSET {"BSY", "DRQ", "CHK"} : s = (d.status \ {"DRQ"}) \cup {"BSY"}
  BY <1>1 DEF Kind
<1>4. PICK e : e = [d EXCEPT !.state = "BUSY", !.status = s, !.offset = below]
  OBVIOUS
<1>5. d' \in Drive!Executed(e, c)
  BY <1>2, <1>3, <1>4 DEF Drive!Execute
<1>6. e \in Kind
  BY <1>1, <1>4 DEF Kind, Drive!States
<1>7. /\ e.state = "BUSY" /\ e.status = s /\ e.owed = d.owed
      /\ e.posted = d.posted /\ e.intrq = d.intrq /\ e.enabled = d.enabled
  BY <1>1, <1>4 DEF Kind
<1>8. Signal(e) /\ "DRQ" \notin e.status /\ e.owed <= 0
  BY <1>1, <1>3, <1>7 DEF Signal, Sound, Owed
<1> QED BY <1>5, <1>6, <1>7, <1>8, CommandExecuted

(* What the registers do, but for the command register.                    *)
LEMMA RegistersKeep ==
  ASSUME Sound(d), \/ \E v \in BOOLEAN : Drive!WriteFeature(v) \/ Drive!WriteControl(v)
                   \/ Drive!ReadStatus
  PROVE  Sound(d)'
<1>1. d \in Kind /\ Signal(d)
  BY DEF Sound
<1>2. CASE \E v \in BOOLEAN : Drive!WriteFeature(v)
  <2>1. PICK v \in BOOLEAN : d' = [d EXCEPT !.dma = v]
    BY <1>2 DEF Drive!WriteFeature
  <2>2. d' \in Kind
    BY <1>1, <2>1 DEF Kind
  <2>3. /\ d'.state = d.state /\ d'.status = d.status /\ d'.enabled = d.enabled
        /\ d'.offset = d.offset /\ d'.length = d.length /\ d'.left = d.left
        /\ d'.sense = d.sense /\ d'.owed = d.owed /\ d'.sector = d.sector
        /\ d'.intrq = d.intrq /\ d'.posted = d.posted
    BY <1>1, <2>1 DEF Kind
  <2> QED BY <2>2, <2>3 DEF Sound, Signal, StatusOf, Buffer, Owed
<1>3. CASE \E v \in BOOLEAN : Drive!WriteControl(v)
  <2>1. PICK v \in BOOLEAN : Drive!WriteControl(v)
    BY <1>3
  <2>2. PICK w : w = IF d.intrq /\ v # d.enabled THEN v ELSE d.posted
    OBVIOUS
  <2>3. d' = [d EXCEPT !.enabled = v, !.posted = w]
    BY <2>1, <2>2 DEF Drive!WriteControl
  <2>4. w \in BOOLEAN /\ (w <=> d.intrq /\ v)
    BY <1>1, <2>2 DEF Kind, Signal
  <2>5. d' \in Kind
    BY <1>1, <2>3, <2>4 DEF Kind
  <2>6. /\ d'.state = d.state /\ d'.status = d.status /\ d'.enabled = v
        /\ d'.offset = d.offset /\ d'.length = d.length /\ d'.left = d.left
        /\ d'.sense = d.sense /\ d'.owed = d.owed /\ d'.sector = d.sector
        /\ d'.intrq = d.intrq /\ d'.posted = w
    BY <1>1, <2>3 DEF Kind
  <2> QED BY <2>4, <2>5, <2>6 DEF Sound, Signal, StatusOf, Buffer, Owed
<1>4. CASE Drive!ReadStatus
  <2>1. d' = d \/ d' = Drive!Clear(d)
    BY <1>4 DEF Drive!ReadStatus
  <2>2. CASE d' = Drive!Clear(d)
    <3>1. d' \in Kind /\ Signal(d') /\ SameButLine(d', d)
      BY <1>1, <2>2, Cleared
    <3> QED BY <3>1 DEF Sound, SameButLine, Signal, StatusOf, Buffer, Owed
  <2>3. CASE d' = d
    BY <2>3 DEF Sound, Signal, StatusOf, Buffer, Owed
  <2> QED BY <2>1, <2>2, <2>3
<1> QED BY <1>2, <1>3, <1>4

LEMMA WasReset ==
  ASSUME NEW e, Sound(e), NEW r, r = Drive!ResetDrive(e)
  PROVE  Sound(r)
<1>1. PICK f : f = Drive!Clear(e)
  OBVIOUS
<1>2. f \in Kind /\ Signal(f)
  BY <1>1, Cleared DEF Sound
<1>3. PICK below \in Int, zero \in 0 .. CounterSize - 1 : below = -1 /\ zero = 0
  BY DriveConstants DEF Drive!CounterAssumption
<1>4. PICK no \in BOOLEAN, yes \in BOOLEAN : no = FALSE /\ yes = TRUE
  OBVIOUS
<1>5. PICK g : g = [f EXCEPT !.status = {}, !.state = "IDLE", !.offset = below,
                             !.length = below, !.left = zero]
  OBVIOUS
<1>6. PICK h : h = [g EXCEPT !.sense = no, !.reset = yes, !.owed = zero, !.sector = no]
  OBVIOUS
<1>7. g \in Kind
  BY <1>2, <1>5 DEF Kind, Drive!States
<1>8. /\ g.status = {} /\ g.state = "IDLE" /\ g.posted = f.posted
      /\ g.intrq = f.intrq /\ g.enabled = f.enabled
  BY <1>2, <1>5 DEF Kind
<1>9. h \in Kind
  <2>1. zero \in Int
    BY <1>3
  <2> QED BY <1>6, <1>7, <2>1 DEF Kind
<1>10. /\ h.status = {} /\ h.state = "IDLE" /\ h.posted = f.posted /\ h.owed = zero
       /\ h.intrq = f.intrq /\ h.enabled = f.enabled
  BY <1>6, <1>7, <1>8 DEF Kind
<1>11. r = h
  BY <1>1, <1>3, <1>4, <1>5, <1>6 DEF Drive!ResetDrive
<1> QED BY <1>2, <1>3, <1>9, <1>10, <1>11 DEF Sound, Signal, StatusOf, Buffer, Owed
LEMMA CommandWritten ==
  ASSUME Sound(d),
         NEW c \in {"NOP", "RESET_DEVICE", "PACKET", "SET_FEATURE", "unknown"},
         Drive!WriteCommand(c)
  PROVE  Sound(d)'
<1>1. d \in Kind /\ Signal(d)
  BY DEF Sound
<1>2. PICK e : e = Drive!Clear(d)
  OBVIOUS
<1>3. e \in Kind /\ Signal(e) /\ SameButLine(e, d)
  BY <1>1, <1>2, Cleared
<1>4. Sound(e)
  BY <1>3 DEF Sound, SameButLine, StatusOf, Buffer, Owed
<1>5. PICK below \in Int, zero \in Int : below = -1 /\ zero = 0
  OBVIOUS
<1>6. PICK no \in BOOLEAN : no = FALSE
  OBVIOUS
<1>7. CASE c = "NOP"
  <2>1. PICK f : f = [e EXCEPT !.state = "IDLE", !.status = {"CHK"}, !.offset = below,
                               !.owed = zero, !.sector = no]
    OBVIOUS
  <2>2. f \in Kind
    BY <1>3, <2>1 DEF Kind, Drive!States
  <2>3. /\ f.state = "IDLE" /\ f.status = {"CHK"} /\ f.owed = zero
        /\ f.posted = e.posted /\ f.intrq = e.intrq /\ f.enabled = e.enabled
    BY <1>3, <2>1 DEF Kind
  <2>4. Signal(f)
    BY <1>3, <2>3 DEF Signal
  <2>5. d' = Drive!Raise(f)
    BY <1>2, <1>5, <1>6, <1>7, <2>1 DEF Drive!WriteCommand
  <2>6. RaisedTo(f, d')
    BY <2>2, <2>4, <2>5, Raised
  <2> QED BY <1>5, <2>3, <2>6 DEF RaisedTo, SameButLine, Sound, StatusOf, Buffer, Owed, Signal
<1>8. CASE c = "RESET_DEVICE"
  <2>1. d' = Drive!ResetDrive(e)
    BY <1>2, <1>8 DEF Drive!WriteCommand
  <2>2. PICK r : r = d'
    OBVIOUS
  <2>3. Sound(r)
    BY <1>4, <2>1, <2>2, WasReset
  <2> QED BY <2>2, <2>3 DEF Sound, Signal, StatusOf, Buffer, Owed
<1>9. CASE c = "PACKET"
  <2>1. PICK n \in Int : n = PacketWords /\ n > 0
    BY DriveConstants DEF Drive!PacketAssumption
  <2>2. d' = [e EXCEPT !.state = "CMD_WRITE", !.status = {"DRQ"}, !.offset = zero,
                       !.length = n, !.owed = zero, !.sector = no]
    BY <1>2, <1>5, <1>6, <1>9, <2>1 DEF Drive!WriteCommand
  <2>3. d' \in Kind
    BY <1>3, <2>2 DEF Kind, Drive!States
  <2>4. /\ d'.state = "CMD_WRITE" /\ d'.status = {"DRQ"} /\ d'.owed = zero
        /\ d'.offset = zero /\ d'.length = n
        /\ d'.posted = e.posted /\ d'.intrq = e.intrq /\ d'.enabled = e.enabled
    BY <1>3, <2>2 DEF Kind
  <2> QED BY <1>3, <1>5, <2>1, <2>3, <2>4 DEF Sound, Signal, StatusOf, Buffer, Owed
<1>10. CASE c = "SET_FEATURE"
  <2>1. PICK f : f = [e EXCEPT !.status = {}]
    OBVIOUS
  <2>2. f \in Kind
    BY <1>3, <2>1 DEF Kind
  <2>3. /\ f.state = e.state /\ f.status = {} /\ f.owed = e.owed /\ f.offset = e.offset
        /\ f.length = e.length /\ f.left = e.left /\ f.sense = e.sense
        /\ f.sector = e.sector
        /\ f.posted = e.posted /\ f.intrq = e.intrq /\ f.enabled = e.enabled
    BY <1>3, <2>1 DEF Kind
  <2>4. d.state \notin {"DMA_READ", "DMA_WRITE"}
    BY <1>10 DEF Drive!WriteCommand, Drive!Writable, Sound, StatusOf
  <2>5. Sound(f)
    BY <1>3, <1>4, <2>2, <2>3, <2>4
    DEF Sound, Signal, StatusOf, Buffer, Owed, SameButLine
  <2>6. d' = Drive!Raise(f)
    BY <1>2, <1>10, <2>1 DEF Drive!WriteCommand
  <2>7. RaisedTo(f, d')
    BY <2>5, <2>6, Raised DEF Sound
  <2> QED BY <2>5, <2>7 DEF RaisedTo, SameButLine, Sound, StatusOf, Buffer, Owed, Signal
<1>11. CASE c = "unknown"
  <2>1. d' = e
    BY <1>2, <1>11 DEF Drive!WriteCommand
  <2> QED BY <1>4, <2>1 DEF Sound, StatusOf, Buffer, Owed, Signal
<1> QED BY <1>7, <1>8, <1>9, <1>10, <1>11

(* A word of a packet or of mode data, from the host.                      *)
LEMMA WordWritten ==
  ASSUME Sound(d), Drive!WritePacketWord \/ Drive!WriteDataWord
  PROVE  Sound(d)'
<1>1. d \in Kind /\ Signal(d) /\ d.offset \in Int /\ d.length \in Int
  BY DEF Sound, Kind
<1>2. d.state \in {"CMD_WRITE", "PIO_WRITE"}
  BY DEF Drive!WritePacketWord, Drive!WriteDataWord
<1>3. ~(d.owed > 0)
  BY <1>2 DEF Sound, Owed
<1>4. CASE d.offset + 1 < d.length /\ d' = [d EXCEPT !.offset = @ + 1]
  <2>1. PICK to \in Int : to = d.offset + 1
    BY <1>1
  <2>2. d' = [d EXCEPT !.offset = to]
    BY <1>4, <2>1
  <2>3. d' \in Kind
    BY <1>1, <2>2 DEF Kind
  <2>4. /\ d'.state = d.state /\ d'.status = d.status /\ d'.owed = d.owed
        /\ d'.offset = to /\ d'.length = d.length /\ d'.posted = d.posted
        /\ d'.intrq = d.intrq /\ d'.enabled = d.enabled
    BY <1>1, <2>2 DEF Kind
  <2>5. d.offset >= 0 /\ to < d.length
    BY <1>2, <1>4, <2>1 DEF Sound, Buffer
  <2> QED BY <1>1, <1>2, <1>3, <2>1, <2>3, <2>4, <2>5
          DEF Sound, Signal, StatusOf, Buffer, Owed
<1>5. CASE d' = Drive!Raise([d EXCEPT !.state = "IDLE", !.status = @ \ {"DRQ"},
                                      !.offset = -1])
  <2>1. PICK below \in Int : below = -1
    OBVIOUS
  <2>2. PICK s \in SUBSET {"BSY", "DRQ", "CHK"} : s = d.status \ {"DRQ"}
    BY <1>1 DEF Kind
  <2>3. PICK f : f = [d EXCEPT !.state = "IDLE", !.status = s, !.offset = below]
    OBVIOUS
  <2>4. f \in Kind
    BY <1>1, <2>3 DEF Kind, Drive!States
  <2>5. /\ f.state = "IDLE" /\ f.status = s /\ f.owed = d.owed
        /\ f.posted = d.posted /\ f.intrq = d.intrq /\ f.enabled = d.enabled
    BY <1>1, <2>3 DEF Kind
  <2>6. Signal(f)
    BY <1>1, <2>5 DEF Signal
  <2>7. d' = Drive!Raise(f)
    BY <1>5, <2>1, <2>2, <2>3
  <2>8. RaisedTo(f, d')
    BY <2>4, <2>6, <2>7, Raised
  <2>9. "BSY" \notin s
    BY <1>2, <2>2 DEF Sound, StatusOf
  <2>10. "DRQ" \notin s
    BY <2>2
  <2> QED BY <1>3, <2>5, <2>8, <2>9, <2>10
          DEF RaisedTo, SameButLine, Sound, StatusOf, Buffer, Owed, Signal
<1> QED BY <1>4, <1>5 DEF Drive!WritePacketWord, Drive!WriteDataWord

LEMMA WordRead ==
  ASSUME Sound(d), Drive!ReadDataWord
  PROVE  Sound(d)'
<1>1. /\ d \in Kind /\ Signal(d) /\ d.offset \in Int /\ d.length \in Int
      /\ d.state = "PIO_READ"
  BY DEF Sound, Kind, Drive!ReadDataWord
<1>2. CASE d.offset + 1 < d.length
  <2>1. PICK to \in Int : to = d.offset + 1
    BY <1>1
  <2>2. d' = [d EXCEPT !.offset = to]
    BY <1>2, <2>1 DEF Drive!ReadDataWord
  <2>3. d' \in Kind
    BY <1>1, <2>2 DEF Kind
  <2>4. /\ d'.state = d.state /\ d'.status = d.status /\ d'.owed = d.owed
        /\ d'.offset = to /\ d'.length = d.length /\ d'.posted = d.posted
        /\ d'.intrq = d.intrq /\ d'.enabled = d.enabled
        /\ d'.left = d.left /\ d'.sector = d.sector
    BY <1>1, <2>2 DEF Kind
  <2>5. d.offset >= 0 /\ to < d.length
    BY <1>1, <1>2, <2>1 DEF Sound, Buffer
  <2> QED BY <1>1, <2>1, <2>3, <2>4, <2>5 DEF Sound, Signal, StatusOf, Buffer, Owed
<1>3. CASE ~(d.offset + 1 < d.length)
  <2>1. PICK below \in Int : below = -1
    OBVIOUS
  <2>2. PICK h : h = Drive!HandedOver(d)
    OBVIOUS
  <2>3. /\ h \in Kind /\ Signal(h) /\ SameButOwed(h, d)
        /\ h.owed > 0 => h.left > 0 /\ h.left = h.owed /\ h.sector
    BY <1>1, <2>2, SectorDone
  <2>4. PICK s \in SUBSET {"BSY", "DRQ", "CHK"} : s = h.status \ {"DRQ"}
    BY <2>3 DEF Kind
  <2>5. PICK f : f = [h EXCEPT !.state = "IDLE", !.status = s, !.offset = below]
    OBVIOUS
  <2>6. f \in Kind
    BY <2>3, <2>5 DEF Kind, Drive!States
  <2>7. /\ f.state = "IDLE" /\ f.status = s /\ f.owed = h.owed
        /\ f.left = h.left /\ f.sector = h.sector
        /\ f.posted = h.posted /\ f.intrq = h.intrq /\ f.enabled = h.enabled
    BY <2>3, <2>5 DEF Kind
  <2>8. Signal(f)
    BY <2>3, <2>7 DEF Signal
  <2>9. PICK e : e = Drive!Raise(f)
    OBVIOUS
  <2>10. RaisedTo(f, e)
    BY <2>6, <2>8, <2>9, Raised
  <2>11. /\ e \in Kind /\ Signal(e) /\ e.state = "IDLE" /\ e.status = s
         /\ e.owed = h.owed /\ e.left = h.left /\ e.sector = h.sector
    BY <2>7, <2>10 DEF RaisedTo, SameButLine
  <2>12. IF e.left > 0 THEN d' \in Drive!NextSector(e) ELSE d' = e
    BY <1>3, <2>1, <2>2, <2>4, <2>5, <2>9 DEF Drive!ReadDataWord
  <2>13. CASE e.left > 0
    <3>1. PICK r \in Drive!NextSector(e) : r = d'
      BY <2>12, <2>13
    <3>2. Sound(r)
      BY <2>3, <2>11, SectorRead
    <3> QED BY <3>1, <3>2 DEF Sound, Signal, StatusOf, Buffer, Owed
  <2>14. CASE ~(e.left > 0)
    <3>1. d' = e /\ ~(e.owed > 0)
      BY <2>3, <2>11, <2>12, <2>14
    <3>2. "BSY" \notin s /\ "DRQ" \notin s
      BY <1>1, <2>3, <2>4 DEF Sound, StatusOf, SameButOwed
    <3> QED BY <2>11, <3>1, <3>2 DEF Sound, Signal, StatusOf, Buffer, Owed
  <2> QED BY <2>13, <2>14
<1> QED BY <1>2, <1>3

LEMMA DriveStarts == Drive!Init => Sound(d)
<1> SUFFICES ASSUME Drive!Init
             PROVE  Sound(d)
  OBVIOUS
<1>1. PICK below \in Int, zero \in 0 .. CounterSize - 1 : below = -1 /\ zero = 0
  BY DriveConstants DEF Drive!CounterAssumption
<1>2. zero \in Int
  BY <1>1
<1>3. d = [state |-> "IDLE", status |-> {}, intrq |-> FALSE, enabled |-> TRUE,
           posted |-> FALSE, dma |-> FALSE, offset |-> below, length |-> below,
           left |-> zero, sense |-> FALSE, reset |-> TRUE, owed |-> zero,
           sector |-> FALSE]
  BY <1>1 DEF Drive!Init
<1>4. d \in Kind
  BY <1>2, <1>3 DEF Kind, Drive!States
<1>5. d.state = "IDLE" /\ d.status = {} /\ ~d.intrq /\ ~d.posted /\ d.owed = 0
  BY <1>1, <1>3
<1> QED BY <1>4, <1>5 DEF Sound, Signal, StatusOf, Buffer, Owed

(* Whatever software, the ASIC and the user do, interrupt, status register *)
(* and counts tell the same; and every packet is answered.                 *)
LEMMA DriveKeeps ==
  Drive!Spec => []Drive!DriveTrue /\ Drive!Answered
<1>1. Sound(d) /\ [Drive!Next]_(Drive!vars) => Sound(d)'
  <2> SUFFICES ASSUME Sound(d), [Drive!Next]_(Drive!vars)
               PROVE  Sound(d)'
    OBVIOUS
  <2>1. CASE d' = d
    BY <2>1 DEF Sound, Signal, StatusOf, Buffer, Owed
  <2>2. CASE \E c \in Drive!Packets : Drive!Execute(c)
    BY <2>2, PacketWritten
  <2>3. CASE \E n \in Requests : Drive!StartDma(n)
    <3>1. PICK n \in Nat : d' \in Drive!Moved(d, n)
      BY <2>3, DriveConstants DEF Drive!StartDma, Drive!LengthAssumption
    <3>2. PICK r : r = d'
      OBVIOUS
    <3>3. Sound(r)
      BY <3>1, <3>2, AllMoved
    <3> QED BY <3>2, <3>3 DEF Sound, Signal, StatusOf, Buffer, Owed
  <2>4. CASE Drive!Reset
    <3>1. PICK r : r = d'
      OBVIOUS
    <3>2. r = Drive!ResetDrive(d)
      BY <2>4, <3>1 DEF Drive!Reset
    <3>3. Sound(r)
      BY <3>2, WasReset
    <3> QED BY <3>1, <3>3 DEF Sound, Signal, StatusOf, Buffer, Owed
  <2>5. CASE \E c \in {"NOP", "RESET_DEVICE", "PACKET", "SET_FEATURE", "unknown"} :
               Drive!WriteCommand(c)
    BY <2>5, CommandWritten
  <2> QED BY <2>1, <2>2, <2>3, <2>4, <2>5, RegistersKeep, WordWritten, WordRead
          DEF Drive!Next, Drive!vars, Drive!ChangeDisc
<1>2. Sound(d) => Drive!DriveTrue
  BY DEF Sound, Signal, StatusOf, Buffer, Owed, Drive!DriveTrue, Drive!LineExact,
         Drive!StatusAgrees, Drive!WordsInBuffer, Drive!SectorsExact
<1>3. Sound(d) /\ [Drive!Next]_(Drive!vars)
        => [\A c \in Drive!Packets : Drive!Execute(c) =>
              \/ d'.intrq
              \/ d'.dma /\ d'.state \in {"DMA_READ", "DMA_WRITE"}
              \/ c \in {"DRIVE_STATUS", "MODE_SENSE", "MODE_SELECT"} /\ d'.status = {"CHK"}
              \/ c = "STATUS" /\ d'.state = "BUSY"]_(Drive!vars)
  BY PacketWritten DEF ToldOrKnown, Told
<1> QED BY DriveStarts, <1>1, <1>2, <1>3, PTL DEF Drive!Spec, Drive!Answered

-----------------------------------------------------------------------------
(* The Maple bus.  That the masks tell what is attached needs the types    *)
(* only, and is said here place by place; that a completion is on its way  *)
(* only during a transfer is inductive as it stands.                       *)
BusTypes ==
  /\ devices \in [Bus!Place -> Bus!Device]
  /\ periphs \in [Port -> SUBSET ({0} \cup Slot)]

MasksTell ==
  \A q \in Port, x \in {0} \cup Slot :
    x \in periphs[q] <=> devices[<<q, x>>] # "none"

BusInv == BusTypes /\ MasksTell /\ Bus!CompletionIsMine

(* What is left at each place when a device is taken away.                 *)
Without(w, p, s) ==
  /\ w.devs \in [Bus!Place -> Bus!Device]
  /\ w.bits = IF s = 0 THEN {} ELSE periphs[p] \ {s}
  /\ \A q \in Port, x \in {0} \cup Slot :
       w.devs[<<q, x>>] =
         IF q = p /\ (s = 0 \/ x = s) THEN "none" ELSE devices[<<q, x>>]

LEMMA DetachedFacts ==
  ASSUME BusTypes, NEW p \in Port, NEW s \in {0} \cup Slot
  PROVE  Without(Bus!Detached(p, s), p, s)
<1>1. CASE s = 0
  <2>1. Bus!Detached(p, s) =
          [devs |-> [e \in Bus!Place |-> IF e[1] = p THEN "none" ELSE devices[e]],
           bits |-> {}]
    BY <1>1 DEF Bus!Detached
  <2> QED BY <1>1, <2>1 DEF BusTypes, Bus!Place, Bus!Device, Without
<1>2. CASE s # 0
  <2>1. Bus!Detached(p, s) =
          [devs |-> [devices EXCEPT ![<<p, s>>] = "none"], bits |-> periphs[p] \ {s}]
    BY <1>2 DEF Bus!Detached
  <2> QED BY <1>2, <2>1 DEF BusTypes, Bus!Place, Bus!Device, Without
<1> QED BY <1>1, <1>2

LEMMA DetachKeeps ==
  ASSUME BusInv, NEW p \in Port, NEW s \in {0} \cup Slot, Bus!Detach(p, s)
  PROVE  BusInv'
<1>1. BusTypes /\ MasksTell /\ Bus!CompletionIsMine
  BY DEF BusInv
<1>2. PICK w : /\ w = Bus!Detached(p, s)
               /\ devices' = w.devs
               /\ periphs' = [periphs EXCEPT ![p] = w.bits]
               /\ dma' = dma /\ busy' = busy
  BY DEF Bus!Detach
<1>3. Without(w, p, s)
  BY <1>1, <1>2, DetachedFacts
<1>4. /\ devices' \in [Bus!Place -> Bus!Device]
      /\ \A q \in Port, x \in {0} \cup Slot :
           devices'[<<q, x>>] =
             IF q = p /\ (s = 0 \/ x = s) THEN "none" ELSE devices[<<q, x>>]
  BY <1>2, <1>3 DEF Without
<1>5. /\ periphs' \in [Port -> SUBSET ({0} \cup Slot)]
      /\ \A q \in Port :
           periphs'[q] = IF q # p THEN periphs[q]
                         ELSE IF s = 0 THEN {} ELSE periphs[p] \ {s}
  BY <1>1, <1>2, <1>3 DEF BusTypes, Without
<1>6. MasksTell'
  BY <1>1, <1>4, <1>5, ZenonT(60) DEF MasksTell
<1> QED BY <1>1, <1>2, <1>4, <1>5, <1>6 DEF BusInv, BusTypes, Bus!CompletionIsMine

LEMMA AttachKeeps ==
  ASSUME BusInv, NEW p \in Port, NEW s \in {0} \cup Slot,
         NEW dev \in Bus!Device \ {"none"}, Bus!Attach(p, s, dev)
  PROVE  BusInv'
<1>1. BusTypes /\ MasksTell /\ Bus!CompletionIsMine
  BY DEF BusInv
<1>2. dma' = dma /\ busy' = busy
  BY DEF Bus!Attach
<1>3. PICK was :
        /\ was = IF devices[<<p, s>>] = "none"
                 THEN [devs |-> devices, bits |-> periphs[p]] ELSE Bus!Detached(p, s)
        /\ devices' = [was.devs EXCEPT ![<<p, s>>] = dev]
        /\ periphs' = [periphs EXCEPT ![p] = was.bits \cup {s}]
  BY DEF Bus!Attach
<1>4. /\ was.devs \in [Bus!Place -> Bus!Device]
      /\ was.bits \in SUBSET ({0} \cup Slot)
      /\ \A q \in Port, x \in {0} \cup Slot :
           /\ q # p => was.devs[<<q, x>>] = devices[<<q, x>>]
           /\ q = p /\ x # s => (x \in was.bits <=> was.devs[<<q, x>>] # "none")
  <2>1. CASE devices[<<p, s>>] = "none"
    BY <2>1, <1>1, <1>3 DEF BusTypes, MasksTell
  <2>2. CASE devices[<<p, s>>] # "none"
    <3>1. Without(was, p, s)
      BY <2>2, <1>1, <1>3, DetachedFacts
    <3> QED BY <3>1, <1>1 DEF BusTypes, MasksTell, Without
  <2> QED BY <2>1, <2>2
<1>5. /\ devices' \in [Bus!Place -> Bus!Device]
      /\ \A q \in Port, x \in {0} \cup Slot :
           devices'[<<q, x>>] = IF q = p /\ x = s THEN dev ELSE was.devs[<<q, x>>]
  BY <1>3, <1>4 DEF Bus!Place
<1>6. /\ periphs' \in [Port -> SUBSET ({0} \cup Slot)]
      /\ \A q \in Port :
           periphs'[q] = IF q = p THEN was.bits \cup {s} ELSE periphs[q]
  BY <1>1, <1>3, <1>4 DEF BusTypes
<1>7. MasksTell'
  <2> SUFFICES ASSUME NEW q \in Port, NEW x \in {0} \cup Slot
               PROVE  x \in periphs'[q] <=> devices'[<<q, x>>] # "none"
    BY DEF MasksTell
  <2>1. x \in periphs[q] <=> devices[<<q, x>>] # "none"
    BY <1>1 DEF MasksTell
  <2>2. CASE q # p
    BY <2>1, <2>2, <1>4, <1>5, <1>6
  <2>3. CASE q = p /\ x # s
    <3>1. x \in periphs'[q] <=> x \in was.bits
      BY <2>3, <1>6
    <3>2. devices'[<<q, x>>] = was.devs[<<q, x>>]
      BY <2>3, <1>5
    <3>3. x \in was.bits <=> was.devs[<<q, x>>] # "none"
      BY <2>3, <1>4
    <3> QED BY <3>1, <3>2, <3>3
  <2>4. CASE q = p /\ x = s
    BY <2>4, <1>5, <1>6
  <2> QED BY <2>2, <2>3, <2>4
<1> QED BY <1>1, <1>2, <1>5, <1>6, <1>7 DEF BusInv, BusTypes, Bus!CompletionIsMine

(* The transfers and the guns leave devices and masks alone.               *)
LEMMA TransferIsMine ==
  ASSUME BusInv,
         \/ Bus!StartDevices \/ Bus!StartUnmapped \/ Bus!StartAgain \/ Bus!Cancel
         \/ Bus!Complete \/ Bus!GunSeen \/ Bus!ResetMachine
         \/ \E p \in Port, b \in BOOLEAN : Bus!StartGun(p, b) \/ Bus!Mouse(p, b)
         \/ UNCHANGED Bus!vars
  PROVE  BusInv'
<1>1. devices' = devices /\ periphs' = periphs
  BY DEF Bus!StartDevices, Bus!StartUnmapped, Bus!StartAgain, Bus!Cancel, Bus!Complete,
         Bus!GunSeen, Bus!ResetMachine, Bus!StartGun, Bus!Mouse, Bus!Start, Bus!vars
<1>2. Bus!CompletionIsMine'
  BY DEF BusInv, Bus!CompletionIsMine,
         Bus!StartDevices, Bus!StartUnmapped, Bus!StartAgain, Bus!Cancel, Bus!Complete,
         Bus!GunSeen, Bus!ResetMachine, Bus!StartGun, Bus!Mouse, Bus!Start, Bus!vars
<1> QED BY <1>1, <1>2 DEF BusInv, BusTypes, MasksTell

LEMMA BusKeeps == Bus!Spec => []Bus!BusTrue
<1>1. Bus!Init => BusInv
  BY DEF Bus!Init, BusInv, BusTypes, MasksTell, Bus!CompletionIsMine, Bus!Place, Bus!Device
<1>2. BusInv /\ [Bus!Next]_(Bus!vars) => BusInv'
  BY DetachKeeps, AttachKeeps, TransferIsMine DEF Bus!Next
<1>3. BusInv => Bus!BusTrue
  <2> SUFFICES ASSUME BusInv, NEW q \in Port PROVE periphs[q] = Bus!Attached(q)
    BY DEF BusInv, Bus!BusTrue, Bus!MaskIsAttached
  <2> QED BY DEF BusInv, BusTypes, MasksTell, Bus!Attached
<1> QED BY <1>1, <1>2, <1>3, PTL DEF Bus!Spec

-----------------------------------------------------------------------------
(* Memory cards.  That no write is lost rests on who owns the volumes: an  *)
(* entry has a live volume of its own name, a device one of the name that  *)
(* is configured for it, and a save comes to names with a volume only.     *)
CardTypes ==
  /\ entry \in [File -> Cards!Volume \cup {Cards!NoVolume}]
  /\ vols \in [Cards!Volume -> [alive : BOOLEAN, data : Int, dirty : BOOLEAN]]
  /\ device \in [Dev -> [file : File \cup {"none"},
                         vol : Cards!Volume \cup {Cards!NoVolume},
                         plugged : BOOLEAN]]
  /\ config \in [Dev -> File \cup {"none"}]
  /\ file \in [File -> Int] /\ latest \in [File -> Int]
  /\ saving \in SUBSET File /\ writes \in Nat

VolumesOwned ==
  /\ \A f \in File : entry[f] # Cards!NoVolume =>
       entry[f] \in Cards!Copies(f) /\ vols[entry[f]].alive
  /\ \A e \in Dev : device[e].vol # Cards!NoVolume =>
       device[e].file \in File /\ device[e].vol \in Cards!Copies(device[e].file)
  /\ \A f \in saving : entry[f] # Cards!NoVolume

CardsInv ==
  CardTypes /\ VolumesOwned /\ Cards!UsedIsListed /\ Cards!WritesAreKept

(* A volume has one name.                                                  *)
LEMMA VolumeNames ==
  /\ Cards!NoVolume \notin Cards!Volume
  /\ \A f \in File : \A v \in Cards!Copies(f) :
       /\ v \in Cards!Volume /\ v # Cards!NoVolume /\ v[1] = f
       /\ v[2] \in Nat
<1>1. \A f \in File : MaxCopies[f] \in Nat /\ f # "none"
  BY CardConstants DEF Cards!CopiesAssumption, Cards!NameAssumption
<1> QED BY <1>1 DEF Cards!Volume, Cards!Copies, Cards!NoVolume, Cards!NONE

LEMMA FreeVolume ==
  ASSUME NEW f \in File, Cards!Unused(f) # {}
  PROVE  Cards!FirstFree(f) \in Cards!Unused(f)
<1> DEFINE T == {v[2] : v \in Cards!Unused(f)}
<1>1. \A v \in Cards!Unused(f) : v[2] \in Nat
  BY VolumeNames DEF Cards!Unused
<1>2. PICK n \in T : \A m \in T : n <= m
  <2>1. T \in SUBSET Nat /\ T # {}
    BY <1>1
  <2> HIDE DEF T
  <2> QED BY <2>1, LeastNatural
<1>3. PICK v \in Cards!Unused(f) : \A u \in Cards!Unused(f) : v[2] <= u[2]
  BY <1>2
<1> QED BY <1>3 DEF Cards!FirstFree

(* What a name's volume is found to be: the one there is, or a fresh one   *)
(* with what the file holds.                                               *)
Found(f, v) ==
  /\ v \in Cards!Copies(f) \cup {Cards!NoVolume}
  /\ entry' = [entry EXCEPT ![f] = v]
  /\ vols' \in [Cards!Volume -> [alive : BOOLEAN, data : Int, dirty : BOOLEAN]]
  /\ \A u \in Cards!Volume : vols[u].alive => vols'[u] = vols[u]
  /\ v # Cards!NoVolume => vols'[v].alive
  /\ entry[f] # Cards!NoVolume => v = entry[f]
  /\ entry[f] = Cards!NoVolume /\ v # Cards!NoVolume =>
       vols'[v].data = file[f] /\ ~vols'[v].dirty

LEMMA LoadedIsFile ==
  ASSUME NEW f \in File, NEW data \in Cards!Loads(f), data # Cards!UNREADABLE
  PROVE  data = file[f]
BY DEF Cards!Loads

LEMMA OpenedFinds ==
  ASSUME CardsInv, NEW f \in File, NEW v, Cards!Opened(f, v)
  PROVE  Found(f, v)
<1>1. CardTypes /\ VolumesOwned
  BY DEF CardsInv
<1>2. CASE entry[f] # Cards!NoVolume /\ v = entry[f] /\ UNCHANGED <<entry, vols>>
  BY <1>1, <1>2 DEF CardTypes, VolumesOwned, Found
<1>3. CASE /\ entry[f] = Cards!NoVolume
           /\ Cards!Unused(f) # {}
           /\ entry' = [entry EXCEPT ![f] = v]
           /\ \E data \in Cards!Loads(f) :
                /\ v = IF data = Cards!UNREADABLE THEN Cards!NoVolume
                       ELSE Cards!FirstFree(f)
                /\ vols' = IF data = Cards!UNREADABLE THEN vols
                           ELSE [vols EXCEPT ![v] = Cards!Fresh(data)]
  <2>1. PICK data \in Cards!Loads(f) :
          /\ v = IF data = Cards!UNREADABLE THEN Cards!NoVolume
                 ELSE Cards!FirstFree(f)
          /\ vols' = IF data = Cards!UNREADABLE THEN vols
                     ELSE [vols EXCEPT ![v] = Cards!Fresh(data)]
    BY <1>3
  <2>2. CASE data = Cards!UNREADABLE
    BY <2>1, <2>2, <1>1, <1>3 DEF CardTypes, Found
  <2>3. CASE data # Cards!UNREADABLE
    <3>1. v \in Cards!Copies(f) /\ v \in Cards!Volume /\ ~vols[v].alive
      BY <2>1, <2>3, <1>3, FreeVolume, VolumeNames DEF Cards!Unused
    <3>2. data = file[f] /\ data \in Int
      BY <2>3, <1>1, LoadedIsFile DEF CardTypes
    <3>3. /\ vols' \in [Cards!Volume -> [alive : BOOLEAN, data : Int, dirty : BOOLEAN]]
          /\ vols'[v] = Cards!Fresh(data)
          /\ \A u \in Cards!Volume : u # v => vols'[u] = vols[u]
      BY <2>1, <2>3, <1>1, <3>1, <3>2 DEF CardTypes, Cards!Fresh
    <3> QED BY <3>1, <3>2, <3>3, <1>3 DEF Found, Cards!Fresh
  <2> QED BY <2>2, <2>3
<1> QED BY <1>2, <1>3 DEF Cards!Opened

(* Two fields of a record that is an element of a function.                *)
LEMMA Configured ==
  ASSUME NEW I, NEW A, NEW B, NEW C,
         NEW q \in [I -> [file : A, vol : B, plugged : C]], NEW i \in I, NEW x, NEW y
  PROVE  [q EXCEPT ![i].file = x, ![i].vol = y] =
           [q EXCEPT ![i] = [file |-> x, vol |-> y, plugged |-> q[i].plugged]]
<1>1. PICK r \in [file : A, vol : B, plugged : C] : r = q[i]
  OBVIOUS
<1>2. PICK p : p = [q EXCEPT ![i].file = x]
  OBVIOUS
<1>3. p = [q EXCEPT ![i] = [file |-> x, vol |-> r.vol, plugged |-> r.plugged]]
  <2>1. [r EXCEPT !.file = x] = [file |-> x, vol |-> r.vol, plugged |-> r.plugged]
    OBVIOUS
  <2> QED BY <2>1, <1>1, <1>2
<1>4. [p EXCEPT ![i].vol = y] =
        [p EXCEPT ![i] = [file |-> x, vol |-> y, plugged |-> r.plugged]]
  <2>1. p[i] = [file |-> x, vol |-> r.vol, plugged |-> r.plugged]
    BY <1>3
  <2>2. [p[i] EXCEPT !.vol = y] = [file |-> x, vol |-> y, plugged |-> r.plugged]
    BY <2>1
  <2> QED BY <2>2
<1>5. [p EXCEPT ![i] = [file |-> x, vol |-> y, plugged |-> r.plugged]] =
        [q EXCEPT ![i] = [file |-> x, vol |-> y, plugged |-> r.plugged]]
  BY <1>3
<1> QED BY <1>1, <1>2, <1>4, <1>5

LEMMA PluggedIn ==
  ASSUME NEW I, NEW A, NEW B, NEW C,
         NEW q \in [I -> [file : A, vol : B, plugged : C]], NEW i \in I, NEW x, NEW y
  PROVE  [q EXCEPT ![i].vol = x, ![i].plugged = y] =
           [q EXCEPT ![i] = [file |-> q[i].file, vol |-> x, plugged |-> y]]
<1>1. PICK r \in [file : A, vol : B, plugged : C] : r = q[i]
  OBVIOUS
<1>2. PICK p : p = [q EXCEPT ![i].vol = x]
  OBVIOUS
<1>3. p = [q EXCEPT ![i] = [file |-> r.file, vol |-> x, plugged |-> r.plugged]]
  <2>1. [r EXCEPT !.vol = x] = [file |-> r.file, vol |-> x, plugged |-> r.plugged]
    OBVIOUS
  <2> QED BY <2>1, <1>1, <1>2
<1>4. [p EXCEPT ![i].plugged = y] =
        [p EXCEPT ![i] = [file |-> r.file, vol |-> x, plugged |-> y]]
  <2>1. p[i] = [file |-> r.file, vol |-> x, plugged |-> r.plugged]
    BY <1>3
  <2>2. [p[i] EXCEPT !.plugged = y] = [file |-> r.file, vol |-> x, plugged |-> y]
    BY <2>1
  <2> QED BY <2>2
<1>5. [p EXCEPT ![i] = [file |-> r.file, vol |-> x, plugged |-> y]] =
        [q EXCEPT ![i] = [file |-> r.file, vol |-> x, plugged |-> y]]
  BY <1>3
<1> QED BY <1>1, <1>2, <1>4, <1>5

(* Whoever opens a card: the device that wanted it has its volume.         *)
LEMMA OpenerKeeps ==
  ASSUME CardsInv, NEW f \in File, NEW v, Found(f, v), NEW e \in Dev,
         NEW here \in BOOLEAN,
         device' = [device EXCEPT ![e] = [file |-> f, vol |-> v, plugged |-> here]],
         UNCHANGED <<file, config, saving, writes, latest, excused>>
  PROVE  CardsInv'
<1>1. CardTypes /\ VolumesOwned /\ Cards!UsedIsListed /\ Cards!WritesAreKept
  BY DEF CardsInv
<1>2. v \in Cards!Volume \cup {Cards!NoVolume}
  BY VolumeNames DEF Found
<1>3. CardTypes'
  BY <1>1, <1>2 DEF CardTypes, Found
<1>4. /\ \A g \in File : entry'[g] = IF g = f THEN v ELSE entry[g]
      /\ \A b \in Dev : device'[b] = IF b = e THEN [file |-> f, vol |-> v, plugged |-> here]
                                              ELSE device[b]
  BY <1>1 DEF CardTypes, Found
<1>5. \A g \in File : entry[g] # Cards!NoVolume =>
        /\ entry'[g] = entry[g]
        /\ vols'[entry[g]] = vols[entry[g]] /\ vols[entry[g]].alive
  BY <1>1, <1>4, VolumeNames DEF Found, VolumesOwned
<1>6. VolumesOwned'
  BY <1>1, <1>4, <1>5 DEF VolumesOwned, Found
<1>7. Cards!UsedIsListed'
  <2> SUFFICES ASSUME NEW b \in Dev, device'[b].vol # Cards!NoVolume,
                      device'[b].vol[1] \notin excused
               PROVE  /\ device'[b].vol = entry'[device'[b].file]
                      /\ vols'[device'[b].vol].alive
    BY DEF Cards!UsedIsListed
  <2>1. CASE b = e
    BY <2>1, <1>4 DEF Found
  <2>2. CASE b # e
    <3>1. /\ device[b].vol = entry[device[b].file] /\ vols[device[b].vol].alive
          /\ device[b].file \in File
      BY <2>2, <1>1, <1>4 DEF Cards!UsedIsListed, VolumesOwned
    <3> QED BY <2>2, <3>1, <1>4, <1>5
  <2> QED BY <2>1, <2>2
<1>8. Cards!WritesAreKept'
  <2> SUFFICES ASSUME NEW g \in File \ excused
               PROVE  IF entry'[g] = Cards!NoVolume THEN latest[g] = file[g]
                      ELSE /\ vols'[entry'[g]].data = latest[g]
                           /\ \/ vols'[entry'[g]].dirty
                              \/ file[g] = vols'[entry'[g]].data
    BY DEF Cards!WritesAreKept
  <2>1. IF entry[g] = Cards!NoVolume THEN latest[g] = file[g]
        ELSE /\ vols[entry[g]].data = latest[g]
             /\ vols[entry[g]].dirty \/ file[g] = vols[entry[g]].data
    BY <1>1 DEF Cards!WritesAreKept
  <2>2. CASE entry[g] # Cards!NoVolume
    BY <2>1, <2>2, <1>5
  <2>3. CASE entry[g] = Cards!NoVolume /\ g # f
    BY <2>1, <2>3, <1>4
  <2>4. CASE entry[g] = Cards!NoVolume /\ g = f
    BY <2>1, <2>4, <1>4 DEF Found
  <2> QED BY <2>2, <2>3, <2>4
<1> QED BY <1>3, <1>6, <1>7, <1>8 DEF CardsInv

LEMMA ConfigureKeeps ==
  ASSUME CardsInv, NEW e \in Dev, NEW f \in File, Cards!Configure(e, f)
  PROVE  CardsInv'
<1>1. PICK v : /\ Cards!Opened(f, v)
               /\ device' = [device EXCEPT ![e].file = f, ![e].vol = v]
               /\ UNCHANGED <<file, config, saving, writes, latest, excused>>
  BY DEF Cards!Configure, Cards!OnlyDevices
<1>2. /\ device[e].plugged \in BOOLEAN
      /\ device' = [device EXCEPT ![e] = [file |-> f, vol |-> v,
                                          plugged |-> device[e].plugged]]
  <2>1. device[e] \in [file : File \cup {"none"}, vol : Cards!Volume \cup {Cards!NoVolume},
                       plugged : BOOLEAN]
    BY DEF CardsInv, CardTypes
  <2> QED BY <1>1, <2>1, Configured, ZenonT(60) DEF CardsInv, CardTypes
<1>3. Found(f, v)
  BY <1>1, OpenedFinds
<1> QED BY <1>1, <1>2, <1>3, OpenerKeeps

(* A device that gets no volume, or loses it.                              *)
LEMMA OwnerGoes ==
  ASSUME CardsInv, NEW e \in Dev, NEW r \in [file : File \cup {"none"},
                                             vol : {Cards!NoVolume}, plugged : BOOLEAN],
         device' = [device EXCEPT ![e] = r],
         UNCHANGED <<entry, vols, file, config, saving, writes, latest, excused>>
  PROVE  CardsInv'
<1>1. CardTypes /\ VolumesOwned /\ Cards!UsedIsListed /\ Cards!WritesAreKept
  BY DEF CardsInv
<1>2. /\ CardTypes'
      /\ \A b \in Dev : device'[b] = IF b = e THEN r ELSE device[b]
  BY <1>1 DEF CardTypes
<1>3. VolumesOwned'
  BY <1>1, <1>2 DEF VolumesOwned
<1>4. Cards!UsedIsListed'
  BY <1>1, <1>2 DEF Cards!UsedIsListed
<1>5. Cards!WritesAreKept'
  BY <1>1 DEF Cards!WritesAreKept
<1> QED BY <1>2, <1>3, <1>4, <1>5 DEF CardsInv

LEMMA OnePlug ==
  ASSUME NEW A, NEW B, NEW C, NEW q \in [file : A, vol : B, plugged : C], NEW x
  PROVE  [q EXCEPT !.plugged = x] = [file |-> q.file, vol |-> q.vol, plugged |-> x]
OBVIOUS

LEMMA PlugKeeps ==
  ASSUME CardsInv, NEW e \in Dev, Cards!Plug(e) \/ Cards!Unplug(e)
  PROVE  CardsInv'
<1>1. CardTypes /\ VolumesOwned
  BY DEF CardsInv
<1>2. CASE Cards!Plug(e) /\ device[e].file = "none"
  <2>1. /\ device' = [device EXCEPT ![e].plugged = TRUE]
        /\ UNCHANGED <<entry, vols, file, config, saving, writes, latest, excused>>
    BY <1>2 DEF Cards!Plug, Cards!OnlyDevices, Cards!NONE
  <2>2. device[e].vol = Cards!NoVolume
    BY <1>1, <1>2, CardConstants DEF VolumesOwned, Cards!NameAssumption
  <2> DEFINE r == [file |-> "none", vol |-> Cards!NoVolume, plugged |-> TRUE]
  <2>3. device' = [device EXCEPT ![e] = r]
    <3>1. device[e] \in [file : File \cup {"none"},
                         vol : Cards!Volume \cup {Cards!NoVolume}, plugged : BOOLEAN]
      BY <1>1 DEF CardTypes
    <3>2. PICK q \in [file : File \cup {"none"},
                     vol : Cards!Volume \cup {Cards!NoVolume}, plugged : BOOLEAN] :
            q = device[e]
      BY <3>1
    <3>3. PICK yes : yes = TRUE
      OBVIOUS
    <3>4. [q EXCEPT !.plugged = yes] = [file |-> q.file, vol |-> q.vol, plugged |-> yes]
      BY OnePlug
    <3>5. q.file = "none" /\ q.vol = Cards!NoVolume
      BY <3>2, <2>2, <1>2
    <3>6. device' = [device EXCEPT ![e] = [q EXCEPT !.plugged = yes]]
      BY <2>1, <3>3, <3>2
    <3> QED BY <3>3, <3>4, <3>5, <3>6
  <2> QED BY <2>1, <2>3, OwnerGoes
<1>3. CASE Cards!Plug(e) /\ device[e].file # "none"
  <2>1. PICK v : /\ Cards!Opened(device[e].file, v)
                 /\ device' = [device EXCEPT ![e].vol = v, ![e].plugged = TRUE]
                 /\ UNCHANGED <<file, config, saving, writes, latest, excused>>
    BY <1>3 DEF Cards!Plug, Cards!OnlyDevices, Cards!NONE
  <2>2. device[e].file \in File
    BY <1>1, <1>3 DEF CardTypes
  <2>3. device' = [device EXCEPT ![e] = [file |-> device[e].file, vol |-> v,
                                         plugged |-> TRUE]]
    BY <1>1, <2>1, PluggedIn, ZenonT(60) DEF CardTypes
  <2>4. Found(device[e].file, v)
    BY <2>1, <2>2, OpenedFinds
  <2> QED BY <2>1, <2>2, <2>3, <2>4, OpenerKeeps
<1>4. CASE Cards!Unplug(e)
  <2>1. /\ device' = [device EXCEPT ![e] = Cards!Blank]
        /\ UNCHANGED <<entry, vols, file, config, saving, writes, latest, excused>>
    BY <1>4 DEF Cards!Unplug, Cards!OnlyDevices
  <2>2. Cards!Blank \in [file : File \cup {"none"}, vol : {Cards!NoVolume},
                         plugged : BOOLEAN]
    BY DEF Cards!Blank, Cards!NONE
  <2> QED BY <2>1, <2>2, OwnerGoes
<1> QED BY <1>2, <1>3, <1>4

LEMMA WriteKeeps ==
  ASSUME CardsInv, NEW e \in Dev, Cards!Write(e)
  PROVE  CardsInv'
<1>1. CardTypes /\ VolumesOwned /\ Cards!UsedIsListed /\ Cards!WritesAreKept
  BY DEF CardsInv
<1>2. PICK v : v = device[e].vol
  OBVIOUS
<1>3. /\ v # Cards!NoVolume /\ vols[v].alive
      /\ writes' = writes + 1
      /\ vols' = [vols EXCEPT ![v].data = writes', ![v].dirty = TRUE]
      /\ latest' = [latest EXCEPT ![v[1]] = writes']
      /\ UNCHANGED <<entry, device, file, config, saving, excused>>
  BY <1>2 DEF Cards!Write
<1>4. PICK f \in File : f = device[e].file
  BY <1>1, <1>2, <1>3 DEF VolumesOwned
<1>5. v \in Cards!Copies(f) /\ v \in Cards!Volume /\ v[1] = f
  BY <1>1, <1>2, <1>3, <1>4, VolumeNames DEF VolumesOwned
<1>6. writes' \in Nat
  BY <1>1, <1>3 DEF CardTypes
<1>7. /\ vols' \in [Cards!Volume -> [alive : BOOLEAN, data : Int, dirty : BOOLEAN]]
      /\ vols'[v] = [alive |-> TRUE, data |-> writes', dirty |-> TRUE]
      /\ \A u \in Cards!Volume : /\ u # v => vols'[u] = vols[u]
                                 /\ vols'[u].alive = vols[u].alive
  <2>1. PICK n : n = writes'
    OBVIOUS
  <2>2. vols' = [vols EXCEPT ![v].data = n, ![v].dirty = TRUE]
    BY <1>3, <2>1
  <2>3. vols' = [vols EXCEPT ![v] = [alive |-> vols[v].alive, data |-> n,
                                     dirty |-> TRUE]]
    <3>1. PICK r \in [alive : BOOLEAN, data : Int, dirty : BOOLEAN] : r = vols[v]
      BY <1>1, <1>5 DEF CardTypes
    <3>2. PICK yes : yes = TRUE
      OBVIOUS
    <3>3. PICK p : p = [vols EXCEPT ![v].data = n]
      OBVIOUS
    <3>4. p = [vols EXCEPT ![v] = [alive |-> r.alive, data |-> n, dirty |-> r.dirty]]
      <4>1. [r EXCEPT !.data = n] = [alive |-> r.alive, data |-> n, dirty |-> r.dirty]
        OBVIOUS
      <4> QED BY <4>1, <3>1, <3>3
    <3>5. [p EXCEPT ![v].dirty = yes] =
            [p EXCEPT ![v] = [alive |-> r.alive, data |-> n, dirty |-> yes]]
      <4>1. p[v] = [alive |-> r.alive, data |-> n, dirty |-> r.dirty]
        BY <3>4, <1>1, <1>5 DEF CardTypes
      <4>2. [p[v] EXCEPT !.dirty = yes] =
              [alive |-> r.alive, data |-> n, dirty |-> yes]
        BY <4>1
      <4> QED BY <4>2
    <3>6. [p EXCEPT ![v] = [alive |-> r.alive, data |-> n, dirty |-> yes]] =
            [vols EXCEPT ![v] = [alive |-> r.alive, data |-> n, dirty |-> yes]]
      BY <3>4, <1>1, <1>5 DEF CardTypes
    <3>7. vols' = [p EXCEPT ![v].dirty = yes]
      BY <2>2, <3>2, <3>3
    <3> QED BY <3>1, <3>2, <3>5, <3>6, <3>7
  <2>4. vols[v].alive = TRUE
    BY <1>1, <1>3, <1>5 DEF CardTypes
  <2>5. vols' = [vols EXCEPT ![v] = [alive |-> TRUE, data |-> n, dirty |-> TRUE]]
    BY <2>3, <2>4
  <2>6. vols \in [Cards!Volume -> [alive : BOOLEAN, data : Int, dirty : BOOLEAN]]
    BY <1>1 DEF CardTypes
  <2>7. n \in Int
    BY <2>1, <1>6
  <2>8. /\ vols' \in [Cards!Volume -> [alive : BOOLEAN, data : Int, dirty : BOOLEAN]]
        /\ vols'[v] = [alive |-> TRUE, data |-> n, dirty |-> TRUE]
        /\ \A u \in Cards!Volume : u # v => vols'[u] = vols[u]
    BY <2>5, <2>6, <2>7, <1>5
  <2>9. vols'[v].alive = TRUE
    BY <2>8
  <2> QED BY <2>1, <2>4, <2>8, <2>9
<1>8. /\ latest' \in [File -> Int]
      /\ \A g \in File : latest'[g] = IF g = f THEN writes' ELSE latest[g]
  BY <1>1, <1>3, <1>5, <1>6 DEF CardTypes
<1>9. CardTypes'
  BY <1>1, <1>3, <1>6, <1>7, <1>8 DEF CardTypes
<1>10. VolumesOwned'
  BY <1>1, <1>3, <1>7, VolumeNames DEF VolumesOwned
<1>11. Cards!UsedIsListed'
  BY <1>1, <1>3, <1>7, VolumeNames DEF Cards!UsedIsListed, CardTypes
<1>12. Cards!WritesAreKept'
  <2> SUFFICES ASSUME NEW g \in File \ excused
               PROVE  IF entry[g] = Cards!NoVolume THEN latest'[g] = file[g]
                      ELSE /\ vols'[entry[g]].data = latest'[g]
                           /\ vols'[entry[g]].dirty \/ file[g] = vols'[entry[g]].data
    BY <1>3 DEF Cards!WritesAreKept
  <2>1. IF entry[g] = Cards!NoVolume THEN latest[g] = file[g]
        ELSE /\ vols[entry[g]].data = latest[g]
             /\ vols[entry[g]].dirty \/ file[g] = vols[entry[g]].data
    BY <1>1 DEF Cards!WritesAreKept
  <2>2. CASE g = f
    <3>1. v = entry[g]
      BY <2>2, <1>1, <1>2, <1>3, <1>4, <1>5 DEF Cards!UsedIsListed
    <3> QED BY <2>2, <3>1, <1>3, <1>7, <1>8
  <2>3. CASE g # f
    <3>1. entry[g] # Cards!NoVolume => entry[g] # v /\ entry[g] \in Cards!Volume
      BY <2>3, <1>1, <1>5, VolumeNames DEF VolumesOwned
    <3> QED BY <2>1, <2>3, <3>1, <1>7, <1>8
  <2> QED BY <2>2, <2>3
<1> QED BY <1>9, <1>10, <1>11, <1>12 DEF CardsInv

(* A name that gets a volume with what its file holds: the one it had is   *)
(* gone, and a device that had it is excused.                              *)
LEMMA ReplacedKeeps ==
  ASSUME CardsInv, saving = {}, NEW f \in File, NEW data \in Int,
         Cards!Replaced(f, data), UNCHANGED <<device, config, saving, writes>>,
         file' \in [File -> Int], file'[f] = data,
         \A g \in File : g # f => file'[g] = file[g]
  PROVE  CardsInv'
<1>1. CardTypes /\ VolumesOwned /\ Cards!UsedIsListed /\ Cards!WritesAreKept
  BY DEF CardsInv
<1>2. PICK v : v = Cards!FirstFree(f)
  OBVIOUS
<1>3. PICK old : old = entry[f]
  OBVIOUS
<1>4. v \in Cards!Copies(f) /\ ~vols[v].alive /\ v \in Cards!Volume
  BY <1>2, FreeVolume, VolumeNames DEF Cards!Replaced, Cards!Unused
<1>5. old # v /\ (old # Cards!NoVolume => old \in Cards!Copies(f))
  BY <1>1, <1>3, <1>4, VolumeNames DEF VolumesOwned
<1>6. /\ vols' = [u \in Cards!Volume |-> CASE u = v   -> Cards!Fresh(data)
                                           [] u = old -> Cards!Gone
                                           [] OTHER   -> vols[u]]
      /\ entry' = [entry EXCEPT ![f] = v]
      /\ latest' = [latest EXCEPT ![f] = data]
      /\ excused' = IF old # Cards!NoVolume /\ Cards!InUse(old)
                    THEN excused \cup {f} ELSE excused
  BY <1>2, <1>3 DEF Cards!Replaced
<1>7. /\ vols'[v] = Cards!Fresh(data)
      /\ \A u \in Cards!Volume : u # v /\ u # old => vols'[u] = vols[u]
  <2>1. PICK fresh, gone : fresh = Cards!Fresh(data) /\ gone = Cards!Gone
    OBVIOUS
  <2>2. vols' = [u \in Cards!Volume |-> CASE u = v   -> fresh
                                         [] u = old -> gone
                                         [] OTHER   -> vols[u]]
    BY <1>6, <2>1
  <2>3. vols'[v] = fresh
    BY <2>2, <1>4, <1>5
  <2>4. ASSUME NEW u \in Cards!Volume, u # v, u # old
        PROVE  vols'[u] = vols[u]
    BY <2>2, <2>4
  <2> QED BY <2>1, <2>3, <2>4
<1>8. vols' \in [Cards!Volume -> [alive : BOOLEAN, data : Int, dirty : BOOLEAN]]
  BY <1>1, <1>6 DEF CardTypes, Cards!Fresh, Cards!Gone
<1>9. /\ \A g \in File : entry'[g] = IF g = f THEN v ELSE entry[g]
      /\ \A g \in File : latest'[g] = IF g = f THEN data ELSE latest[g]
      /\ excused \subseteq excused'
  BY <1>1, <1>6 DEF CardTypes
<1>10. CardTypes'
  BY <1>1, <1>4, <1>6, <1>8 DEF CardTypes
<1>11. \A g \in File : g # f => \A u \in Cards!Copies(g) : vols'[u] = vols[u]
  <2> SUFFICES ASSUME NEW g \in File, g # f, NEW u \in Cards!Copies(g)
               PROVE  vols'[u] = vols[u]
    OBVIOUS
  <2>1. u \in Cards!Volume /\ u # Cards!NoVolume /\ u[1] = g
    BY VolumeNames
  <2>2. v[1] = f /\ (old # Cards!NoVolume => old[1] = f)
    BY <1>4, <1>5, VolumeNames
  <2> QED BY <2>1, <2>2, <1>7
<1>12. VolumesOwned'
  <2>1. ASSUME NEW g \in File, entry'[g] # Cards!NoVolume
        PROVE  entry'[g] \in Cards!Copies(g) /\ vols'[entry'[g]].alive
    <3>1. CASE g = f
      BY <3>1, <1>4, <1>7, <1>9 DEF Cards!Fresh
    <3>2. CASE g # f
      BY <3>2, <2>1, <1>1, <1>9, <1>11 DEF VolumesOwned
    <3> QED BY <3>1, <3>2
  <2> QED BY <2>1, <1>1 DEF VolumesOwned
<1>13. Cards!UsedIsListed'
  <2> SUFFICES ASSUME NEW b \in Dev, device[b].vol # Cards!NoVolume,
                      device[b].vol[1] \notin excused'
               PROVE  /\ device[b].vol = entry'[device[b].file]
                      /\ vols'[device[b].vol].alive
    BY DEF Cards!UsedIsListed
  <2>1. PICK w : w = device[b].vol
    OBVIOUS
  <2>2. PICK g \in File : g = device[b].file
    BY <1>1 DEF VolumesOwned
  <2>3. w \in Cards!Copies(g) /\ w[1] = g
    BY <2>1, <2>2, <1>1, VolumeNames DEF VolumesOwned
  <2>4. w = entry[g] /\ vols[w].alive
    BY <2>1, <2>2, <2>3, <1>1, <1>9 DEF Cards!UsedIsListed
  <2>5. g # f
    <3> SUFFICES ASSUME g = f
                 PROVE  FALSE
      OBVIOUS
    <3>1. old = w /\ old # Cards!NoVolume /\ Cards!InUse(old)
      BY <2>1, <2>4, <1>3 DEF Cards!InUse
    <3> QED BY <3>1, <2>1, <2>3, <1>6
  <2> QED BY <2>1, <2>2, <2>3, <2>4, <2>5, <1>9, <1>11
<1>14. Cards!WritesAreKept'
  <2> SUFFICES ASSUME NEW g \in File \ excused'
               PROVE  IF entry'[g] = Cards!NoVolume THEN latest'[g] = file'[g]
                      ELSE /\ vols'[entry'[g]].data = latest'[g]
                           /\ \/ vols'[entry'[g]].dirty
                              \/ file'[g] = vols'[entry'[g]].data
    BY DEF Cards!WritesAreKept
  <2>1. CASE g = f
    <3>1. entry'[g] = v /\ latest'[g] = data /\ file'[g] = data
      BY <2>1, <1>9
    <3>2. vols'[v].data = data
      BY <1>7 DEF Cards!Fresh
    <3>3. v # Cards!NoVolume
      BY <1>4, VolumeNames
    <3> QED BY <3>1, <3>2, <3>3
  <2>2. CASE g # f
    <3>1. entry'[g] = entry[g] /\ latest'[g] = latest[g] /\ file'[g] = file[g]
      BY <2>2, <1>9
    <3>2. entry[g] # Cards!NoVolume => vols'[entry[g]] = vols[entry[g]]
      BY <2>2, <1>1, <1>11 DEF VolumesOwned
    <3>3. IF entry[g] = Cards!NoVolume THEN latest[g] = file[g]
          ELSE /\ vols[entry[g]].data = latest[g]
               /\ vols[entry[g]].dirty \/ file[g] = vols[entry[g]].data
      BY <1>1, <1>9 DEF Cards!WritesAreKept
    <3> QED BY <3>1, <3>2, <3>3
  <2> QED BY <2>1, <2>2
<1> QED BY <1>10, <1>12, <1>13, <1>14 DEF CardsInv

LEMMA LoadKeeps ==
  ASSUME CardsInv, NEW f \in File, Cards!LoadCard(f) \/ Cards!CreateCard(f)
  PROVE  CardsInv'
<1>1. CardTypes /\ saving = {}
  BY DEF CardsInv, Cards!LoadCard, Cards!CreateCard, Cards!Idle
<1>2. CASE Cards!LoadCard(f)
  <2>1. PICK data \in Cards!Loads(f) \ {Cards!UNREADABLE} : Cards!Replaced(f, data)
    BY <1>2 DEF Cards!LoadCard
  <2>2. data = file[f] /\ data \in Int
    BY <2>1, <1>1, LoadedIsFile DEF CardTypes
  <2>3. UNCHANGED <<device, file, config, saving, writes>>
    BY <1>2 DEF Cards!LoadCard
  <2> QED BY <2>1, <2>2, <2>3, <1>1, ReplacedKeeps DEF CardTypes
<1>3. CASE Cards!CreateCard(f)
  <2>1. /\ Cards!Replaced(f, 0)
        /\ file' = [file EXCEPT ![f] = 0]
        /\ UNCHANGED <<device, config, saving, writes>>
    BY <1>3 DEF Cards!CreateCard
  <2>2. /\ file' \in [File -> Int] /\ file'[f] = 0
        /\ \A g \in File : g # f => file'[g] = file[g]
    BY <2>1, <1>1 DEF CardTypes
  <2> QED BY <2>1, <2>2, <1>1, ReplacedKeeps
<1> QED BY <1>2, <1>3
LEMMA SaveKeeps ==
  ASSUME CardsInv, NEW f \in File, Cards!Save(f)
  PROVE  CardsInv'
<1>1. CardTypes /\ VolumesOwned /\ Cards!UsedIsListed /\ Cards!WritesAreKept
  BY DEF CardsInv
<1>2. /\ f \in saving /\ saving' = saving \ {f}
      /\ UNCHANGED <<entry, device, config, writes, latest>>
  BY DEF Cards!Save
<1>3. PICK v : v = entry[f]
  OBVIOUS
<1>4. v \in Cards!Copies(f) /\ v \in Cards!Volume /\ v # Cards!NoVolume
  BY <1>1, <1>2, <1>3, VolumeNames DEF VolumesOwned
<1>5. CASE UNCHANGED <<vols, file, excused>>
  <2>1. CardTypes' /\ VolumesOwned'
    BY <1>1, <1>2, <1>5 DEF CardTypes, VolumesOwned
  <2>2. Cards!UsedIsListed' /\ Cards!WritesAreKept'
    BY <1>1, <1>2, <1>5 DEF Cards!UsedIsListed, Cards!WritesAreKept
  <2> QED BY <2>1, <2>2 DEF CardsInv
<1>6. CASE /\ vols' = [vols EXCEPT ![v].dirty = FALSE]
           /\ \/ file' = [file EXCEPT ![f] = vols[v].data] /\ UNCHANGED excused
              \/ file' = [file EXCEPT ![f] = Cards!BAD] /\ excused' = excused \cup {f}
  <2>1. /\ vols' \in [Cards!Volume -> [alive : BOOLEAN, data : Int, dirty : BOOLEAN]]
        /\ \A u \in Cards!Volume : /\ vols'[u].alive = vols[u].alive
                                   /\ vols'[u].data = vols[u].data
        /\ \A u \in Cards!Volume : u # v => vols'[u] = vols[u]
    <3>1. PICK no : no = FALSE
      OBVIOUS
    <3>2. vols' = [vols EXCEPT ![v].dirty = no]
      BY <1>6, <3>1
    <3>3. PICK r \in [alive : BOOLEAN, data : Int, dirty : BOOLEAN] : r = vols[v]
      BY <1>1, <1>4 DEF CardTypes
    <3>4. [r EXCEPT !.dirty = no] = [alive |-> r.alive, data |-> r.data, dirty |-> no]
      OBVIOUS
    <3>5. vols' = [vols EXCEPT ![v] = [alive |-> r.alive, data |-> r.data, dirty |-> no]]
      BY <3>2, <3>3, <3>4
    <3>6. vols \in [Cards!Volume -> [alive : BOOLEAN, data : Int, dirty : BOOLEAN]]
      BY <1>1 DEF CardTypes
    <3>7. PICK s \in [alive : BOOLEAN, data : Int, dirty : BOOLEAN] :
            s = [alive |-> r.alive, data |-> r.data, dirty |-> no]
      BY <3>1
    <3>8. vols' = [vols EXCEPT ![v] = s] /\ s.alive = r.alive /\ s.data = r.data
      BY <3>5, <3>7
    <3> QED BY <3>3, <3>6, <3>8, <1>4
  <2>2. /\ file' \in [File -> Int] /\ excused \subseteq excused'
        /\ \A g \in File : g # f => file'[g] = file[g]
    BY <1>1, <1>4, <1>6 DEF CardTypes, Cards!BAD
  <2>3. f \in excused' \/ file'[f] = vols[v].data
    BY <1>1, <1>6 DEF CardTypes
  <2>4. CardTypes'
    BY <2>1, <2>2, <1>1, <1>2 DEF CardTypes
  <2>5. VolumesOwned'
    BY <2>1, <1>1, <1>2, VolumeNames DEF VolumesOwned
  <2>6. Cards!UsedIsListed'
    <3> SUFFICES ASSUME NEW b \in Dev, device[b].vol # Cards!NoVolume,
                        device[b].vol[1] \notin excused'
                 PROVE  /\ device[b].vol = entry[device[b].file]
                        /\ vols'[device[b].vol].alive
      BY <1>2 DEF Cards!UsedIsListed
    <3>1. device[b].vol \in Cards!Volume
      BY <1>1 DEF CardTypes
    <3> QED BY <3>1, <2>1, <2>2, <1>1 DEF Cards!UsedIsListed
  <2>7. Cards!WritesAreKept'
    <3> SUFFICES ASSUME NEW g \in File \ excused'
                 PROVE  IF entry[g] = Cards!NoVolume THEN latest[g] = file'[g]
                        ELSE /\ vols'[entry[g]].data = latest[g]
                             /\ vols'[entry[g]].dirty \/ file'[g] = vols'[entry[g]].data
      BY <1>2 DEF Cards!WritesAreKept
    <3>1. IF entry[g] = Cards!NoVolume THEN latest[g] = file[g]
          ELSE /\ vols[entry[g]].data = latest[g]
               /\ vols[entry[g]].dirty \/ file[g] = vols[entry[g]].data
      BY <2>2, <1>1 DEF Cards!WritesAreKept
    <3>2. CASE g = f
      BY <3>1, <3>2, <2>1, <2>3, <1>3, <1>4
    <3>3. CASE g # f
      <4>1. entry[g] # Cards!NoVolume => entry[g] # v /\ entry[g] \in Cards!Volume
        BY <3>3, <1>1, <1>4, VolumeNames DEF VolumesOwned
      <4> QED BY <3>1, <3>3, <4>1, <2>1, <2>2
    <3> QED BY <3>2, <3>3
  <2> QED BY <2>4, <2>5, <2>6, <2>7 DEF CardsInv
<1> QED BY <1>3, <1>5, <1>6 DEF Cards!Save

LEMMA RestartKeeps ==
  ASSUME CardsInv, Cards!Restart
  PROVE  CardsInv'
<1>1. CardTypes
  BY DEF CardsInv
<1>2. PICK data \in [File -> Cards!Contents \cup {Cards!BAD, Cards!UNREADABLE}] :
        /\ \A f \in File : data[f] \in Cards!Loads(f)
        /\ Cards!Restarted(data)
  BY DEF Cards!Restart
<1>3. saving' = {} /\ excused' = {} /\ UNCHANGED <<file, config, writes>>
  BY DEF Cards!Restart
<1>4. data \in [File -> Int]
  BY <1>2, CardConstants
  DEF Cards!Contents, Cards!BAD, Cards!UNREADABLE, Cards!WritesAssumption
<1> DEFINE Has(f) == f \in Cards!Wanted /\ data[f] # Cards!UNREADABLE
           First(f) == IF Has(f) THEN <<f, 1>> ELSE Cards!NoVolume
<1>5. /\ vols' = [v \in Cards!Volume |-> IF Has(v[1]) /\ v[2] = 1
                                         THEN Cards!Fresh(data[v[1]])
                                         ELSE Cards!Gone]
      /\ entry' = [f \in File |-> First(f)]
      /\ device' = [b \in Dev |-> [file |-> config[b],
                                   vol |-> IF config[b] \in File THEN First(config[b])
                                           ELSE Cards!NoVolume,
                                   plugged |-> config[b] # "none"]]
      /\ latest' = [f \in File |-> IF Has(f) THEN data[f] ELSE file[f]]
  BY <1>2 DEF Cards!Restarted, Cards!NONE
<1>6. \A f \in File : <<f, 1>> \in Cards!Copies(f) /\ <<f, 1>> \in Cards!Volume
  BY CardConstants DEF Cards!CopiesAssumption, Cards!Copies, Cards!Volume
<1>7. \A v \in Cards!Volume : v[1] \in File
  BY VolumeNames DEF Cards!Volume
<1> HIDE DEF Has
<1>8. /\ \A f \in File : First(f) \in Cards!Volume \cup {Cards!NoVolume}
      /\ \A f \in File : First(f) # Cards!NoVolume => First(f) = <<f, 1>> /\ Has(f)
      /\ \A f \in File : Has(f) => First(f) = <<f, 1>> /\ First(f) # Cards!NoVolume
  BY <1>6, VolumeNames
<1>9. \A f \in File : Has(f) => /\ vols'[First(f)].alive
                                /\ vols'[First(f)].data = data[f]
                                /\ data[f] = file[f]
  <2> SUFFICES ASSUME NEW f \in File, Has(f)
               PROVE  /\ vols'[First(f)].alive
                      /\ vols'[First(f)].data = data[f]
                      /\ data[f] = file[f]
    OBVIOUS
  <2>1. PICK v \in Cards!Volume : v = <<f, 1>>
    BY <1>6
  <2>2. First(f) = v /\ v[1] = f /\ v[2] = 1
    BY <2>1
  <2>3. vols'[v] = [alive |-> TRUE, data |-> data[f], dirty |-> FALSE]
    BY <2>2, <1>5 DEF Cards!Fresh
  <2>5. vols'[v].alive /\ vols'[v].data = data[f]
    BY <2>3
  <2>4. data[f] = file[f]
    BY <1>2, LoadedIsFile DEF Has
  <2> QED BY <2>2, <2>4, <2>5
<1> HIDE DEF First
<1>10. CardTypes'
  <2>1. vols' \in [Cards!Volume -> [alive : BOOLEAN, data : Int, dirty : BOOLEAN]]
    BY <1>4, <1>5, <1>7 DEF Cards!Fresh, Cards!Gone
  <2>2. entry' \in [File -> Cards!Volume \cup {Cards!NoVolume}]
    BY <1>5, <1>8
  <2>3. device' \in [Dev -> [file : File \cup {"none"},
                             vol : Cards!Volume \cup {Cards!NoVolume},
                             plugged : BOOLEAN]]
    BY <1>1, <1>5, <1>8 DEF CardTypes
  <2>4. latest' \in [File -> Int]
    BY <1>1, <1>4, <1>5 DEF CardTypes
  <2> QED BY <2>1, <2>2, <2>3, <2>4, <1>1, <1>3 DEF CardTypes
<1>11. VolumesOwned'
  <2>1. ASSUME NEW f \in File, entry'[f] # Cards!NoVolume
        PROVE  entry'[f] \in Cards!Copies(f) /\ vols'[entry'[f]].alive
    <3>1. entry'[f] = First(f) /\ First(f) = <<f, 1>> /\ Has(f)
      BY <2>1, <1>5, <1>8
    <3> QED BY <3>1, <1>6, <1>9
  <2>2. ASSUME NEW b \in Dev, device'[b].vol # Cards!NoVolume
        PROVE  /\ device'[b].file \in File
               /\ device'[b].vol \in Cards!Copies(device'[b].file)
    BY <2>2, <1>5, <1>6, <1>8
  <2> QED BY <2>1, <2>2, <1>3 DEF VolumesOwned
<1>12. Cards!UsedIsListed'
  <2> SUFFICES ASSUME NEW b \in Dev, device'[b].vol # Cards!NoVolume
               PROVE  /\ device'[b].vol = entry'[device'[b].file]
                      /\ vols'[device'[b].vol].alive
    BY DEF Cards!UsedIsListed
  <2>1. PICK f \in File : f = device'[b].file /\ device'[b].vol = First(f)
    BY <1>5
  <2>2. First(f) = <<f, 1>> /\ Has(f) /\ entry'[f] = First(f)
    BY <2>1, <1>5, <1>8
  <2> QED BY <2>1, <2>2, <1>9
<1>13. Cards!WritesAreKept'
  <2> SUFFICES ASSUME NEW g \in File
               PROVE  IF entry'[g] = Cards!NoVolume THEN latest'[g] = file[g]
                      ELSE /\ vols'[entry'[g]].data = latest'[g]
                           /\ vols'[entry'[g]].dirty \/ file[g] = vols'[entry'[g]].data
    BY <1>3 DEF Cards!WritesAreKept
  <2>1. CASE Has(g)
    <3>1. /\ entry'[g] = First(g) /\ First(g) # Cards!NoVolume
          /\ latest'[g] = data[g]
      BY <2>1, <1>5, <1>8
    <3>2. vols'[First(g)].data = data[g] /\ data[g] = file[g]
      BY <2>1, <1>9
    <3> QED BY <3>1, <3>2
  <2>2. CASE ~Has(g)
    BY <2>2, <1>5, <1>8
  <2> QED BY <2>1, <2>2
<1> QED BY <1>10, <1>11, <1>12, <1>13 DEF CardsInv

LEMMA CardsStart == Cards!Init => CardsInv
<1> SUFFICES ASSUME Cards!Init
             PROVE  CardsInv
  OBVIOUS
<1>1. /\ entry = [f \in File |-> Cards!NoVolume]
      /\ vols = [v \in Cards!Volume |-> Cards!Gone]
      /\ device = [b \in Dev |-> Cards!Blank]
      /\ file \in [File -> {Cards!ABSENT, 0}]
      /\ config = [b \in Dev |-> "none"]
      /\ saving = {} /\ writes = 0 /\ latest = file /\ excused = {}
  BY DEF Cards!Init, Cards!NONE
<1>2. file \in [File -> Int]
  BY <1>1 DEF Cards!ABSENT
<1>3. CardTypes
  BY <1>1, <1>2 DEF CardTypes, Cards!Gone, Cards!Blank, Cards!NONE
<1>4. VolumesOwned /\ Cards!UsedIsListed /\ Cards!WritesAreKept
  BY <1>1 DEF VolumesOwned, Cards!UsedIsListed, Cards!WritesAreKept, Cards!Blank
<1> QED BY <1>3, <1>4 DEF CardsInv

(* Whatever the dialogs, the program and the disk do, a write to a card    *)
(* can be found: in its volume, or in its file.                            *)
LEMMA CardsKeep == Cards!Spec => []Cards!CardsKept
<1>1. CardsInv /\ [Cards!Next]_(Cards!vars) => CardsInv'
  <2> SUFFICES ASSUME CardsInv, [Cards!Next]_(Cards!vars)
               PROVE  CardsInv'
    OBVIOUS
  <2>1. CardTypes /\ VolumesOwned /\ Cards!UsedIsListed /\ Cards!WritesAreKept
    BY DEF CardsInv
  <2>2. CASE UNCHANGED Cards!vars \/ Cards!SaveConfig \/ Cards!Stop
    <3>1. /\ UNCHANGED <<entry, vols, device, file, writes, latest, excused>>
          /\ \/ UNCHANGED <<config, saving>>
             \/ /\ config' = [b \in Dev |-> IF device[b].plugged THEN device[b].file
                                            ELSE "none"]
                /\ UNCHANGED saving
             \/ /\ saving' = {f \in File : entry[f] # Cards!NoVolume}
                /\ UNCHANGED config
      BY <2>2 DEF Cards!vars, Cards!SaveConfig, Cards!Stop, Cards!NONE
    <3>2. CardTypes'
      BY <2>1, <3>1 DEF CardTypes
    <3>3. VolumesOwned'
      BY <2>1, <3>1 DEF VolumesOwned
    <3>4. Cards!UsedIsListed' /\ Cards!WritesAreKept'
      BY <2>1, <3>1 DEF Cards!UsedIsListed, Cards!WritesAreKept
    <3> QED BY <3>2, <3>3, <3>4 DEF CardsInv
  <2>3. CASE \E e \in Dev : Cards!Plug(e) \/ Cards!Unplug(e) \/ Cards!Write(e)
    BY <2>3, PlugKeeps, WriteKeeps
  <2>4. CASE \E e \in Dev, f \in File : Cards!Configure(e, f)
    BY <2>4, ConfigureKeeps
  <2>5. CASE \E f \in File : Cards!LoadCard(f) \/ Cards!CreateCard(f) \/ Cards!Save(f)
    BY <2>5, LoadKeeps, SaveKeeps
  <2>6. CASE Cards!Restart
    BY <2>6, RestartKeeps
  <2> QED BY <2>2, <2>3, <2>4, <2>5, <2>6 DEF Cards!Next
<1>2. CardsInv => Cards!CardsKept
  BY DEF CardsInv, Cards!CardsKept
<1> QED BY CardsStart, <1>1, <1>2, PTL DEF Cards!Spec

-----------------------------------------------------------------------------
(* The debugger.  What has been read of the stream agrees with the buffer: *)
(* Kept says that the bytes in the buffer are those of the frame that is   *)
(* not complete, read from outside of a frame, with nothing answered yet.  *)
Answer == {"+", "-", "run", "reply", "stop"}

Read(g, w, b) ==
  /\ g[0] = [wire |-> w, out |-> <<>>]
  /\ \A k \in 1 .. Len(b) : g[k] = Debugger!Step(g[k - 1], b[k])

Kept(b, w) ==
  \E g : Read(g, Debugger!Outside, b) /\ g[Len(b)] = [wire |-> w, out |-> <<>>]

(* The buffer grows by doubling, to the limit.                             *)
Room ==
  /\ size \in Nat /\ Len(buf) <= size /\ Debugger!RoomForFrame
  /\ \E k \in Debugger!Doublings : size = k * BUFFER_SIZE
  /\ size <= MAX_SIZE

GdbInv ==
  /\ buf \in Seq(Debugger!Byte)
  /\ Room
  /\ Debugger!StreamExact
  /\ Kept(buf, wire)

LEMMA PieceIsRead ==
  ASSUME NEW S, NEW b \in Seq(S), NEW w
  PROVE  \E g : Read(g, w, b) /\ Debugger!Read(w, b) = g[Len(b)]
<1> DEFINE of == CHOOSE g : g = [n \in 0 .. Len(b) |->
                     IF n = 0 THEN [wire |-> w, out |-> <<>>]
                     ELSE Debugger!Step(g[n - 1], b[n])]
<1>1. PICK n \in Nat : n = Len(b)
  OBVIOUS
<1>2. PICK g : g = [k \in 0 .. Len(b) |-> IF k = 0 THEN [wire |-> w, out |-> <<>>]
                                         ELSE Debugger!Step(g[k - 1], b[k])]
  <2>1. PICK g : Turns(g, "read", b, [wire |-> w, out |-> <<>>], n)
    BY TurnsExist
  <2> QED BY <1>1, <2>1, TurnFacts DEF Turns
<1>3. of = [k \in 0 .. Len(b) |-> IF k = 0 THEN [wire |-> w, out |-> <<>>]
                                 ELSE Debugger!Step(of[k - 1], b[k])]
  BY <1>2
<1>4. Debugger!Read(w, b) = of[Len(b)]
  BY Zenon DEF Debugger!Read
<1> HIDE DEF of
<1>5. of[0] = [wire |-> w, out |-> <<>>]
  BY <1>1, <1>3
<1>6. ASSUME NEW k \in 1 .. Len(b) PROVE of[k] = Debugger!Step(of[k - 1], b[k])
  <2>1. k \in 0 .. Len(b) /\ k # 0
    BY <1>1
  <2> QED BY <1>3, <2>1
<1> QED BY <1>4, <1>5, <1>6 DEF Read

(* The search for frames, turn by turn.                                    *)
Begin == [i |-> 1, start |-> 0, out |-> <<>>]

Searched(g, b) ==
  /\ g[0] = Begin
  /\ \A k \in 1 .. Len(b) : g[k] = IF g[k - 1].i > Len(b) THEN g[k - 1]
                                   ELSE Debugger!Turn(b, g[k - 1])

LEMMA BufferIsSearched ==
  ASSUME NEW S, NEW b \in Seq(S)
  PROVE  \E g : Searched(g, b) /\ Debugger!Processed(b) = g[Len(b)]
<1> DEFINE of == CHOOSE g : g = [n \in 0 .. Len(b) |->
                     IF n = 0 THEN [i |-> 1, start |-> 0, out |-> <<>>]
                     ELSE IF g[n - 1].i > Len(b) THEN g[n - 1]
                     ELSE Debugger!Turn(b, g[n - 1])]
<1>1. PICK n \in Nat : n = Len(b)
  OBVIOUS
<1>2. PICK g : g = [k \in 0 .. Len(b) |->
                     IF k = 0 THEN [i |-> 1, start |-> 0, out |-> <<>>]
                     ELSE IF g[k - 1].i > Len(b) THEN g[k - 1]
                     ELSE Debugger!Turn(b, g[k - 1])]
  <2>1. PICK g : Turns(g, "search", b, [i |-> 1, start |-> 0, out |-> <<>>], n)
    BY TurnsExist
  <2> QED BY <1>1, <2>1, TurnFacts DEF Turns
<1>3. of = [k \in 0 .. Len(b) |->
                     IF k = 0 THEN [i |-> 1, start |-> 0, out |-> <<>>]
                     ELSE IF of[k - 1].i > Len(b) THEN of[k - 1]
                     ELSE Debugger!Turn(b, of[k - 1])]
  BY <1>2
<1>4. Debugger!Processed(b) = of[Len(b)]
  BY Zenon DEF Debugger!Processed
<1> HIDE DEF of
<1>5. of[0] = Begin
  BY <1>1, <1>3 DEF Begin
<1>6. ASSUME NEW k \in 1 .. Len(b)
      PROVE  of[k] = IF of[k - 1].i > Len(b) THEN of[k - 1]
                     ELSE Debugger!Turn(b, of[k - 1])
  <2>1. k \in 0 .. Len(b) /\ k # 0
    BY <1>1
  <2> QED BY <1>3, <2>1
<1> QED BY <1>4, <1>5, <1>6 DEF Searched

(* Reading goes on where it stopped: the bytes in the buffer and those of  *)
(* the piece are read as one.                                              *)
LEMMA ReadsGoOn ==
  ASSUME NEW p \in Seq(Debugger!Byte), NEW q \in Seq(Debugger!Byte), NEW w, Kept(p, w),
         NEW r, r = Debugger!Read(w, q)
  PROVE  \E g : /\ Read(g, Debugger!Outside, p \o q)
                /\ g[Len(p \o q)] = r
<1> DEFINE n == Len(p)
           m == Len(q)
<1>1. PICK e : Read(e, Debugger!Outside, p) /\ e[Len(p)] = [wire |-> w, out |-> <<>>]
  BY DEF Kept
<1>2. PICK f : Read(f, w, q) /\ r = f[Len(q)]
  BY PieceIsRead
<1>3. PICK g : g = [k \in 0 .. n + m |-> IF k <= n THEN e[k] ELSE f[k - n]]
  OBVIOUS
<1>4. /\ n \in Nat /\ m \in Nat /\ Len(p \o q) = n + m
      /\ \A k \in 1 .. n : (p \o q)[k] = p[k]
      /\ \A k \in n + 1 .. n + m : (p \o q)[k] = q[k - n]
  OBVIOUS
<1> HIDE DEF n, m
<1>5. e[n] = f[0] /\ e[0] = [wire |-> Debugger!Outside, out |-> <<>>] /\ f[m] = r
  BY <1>1, <1>2 DEF Read, n, m
<1>6. ASSUME NEW k \in 1 .. n PROVE e[k] = Debugger!Step(e[k - 1], p[k])
  BY <1>1 DEF Read, n
<1>7. ASSUME NEW k \in 1 .. m PROVE f[k] = Debugger!Step(f[k - 1], q[k])
  BY <1>2 DEF Read, m
<1>8. ASSUME NEW k \in 1 .. n + m
      PROVE  g[k] = Debugger!Step(g[k - 1], (p \o q)[k])
  <2>1. CASE k <= n
    <3>1. g[k] = e[k] /\ g[k - 1] = e[k - 1] /\ k \in 1 .. n
      BY <1>3, <1>4, <2>1
    <3> QED BY <1>4, <1>6, <3>1
  <2>2. CASE k = n + 1
    <3>1. g[k] = f[1] /\ g[k - 1] = e[n] /\ k - n = 1 /\ k \in n + 1 .. n + m
      BY <1>3, <1>4, <2>2
    <3>2. 1 \in 1 .. m
      BY <1>4, <2>2
    <3>3. f[1] = Debugger!Step(f[0], q[1])
      BY <1>7, <3>2
    <3>4. (p \o q)[k] = q[1]
      BY <1>4, <3>1
    <3> QED BY <1>5, <3>1, <3>3, <3>4
  <2>3. CASE k > n + 1
    <3>1. PICK j \in 1 .. m : j = k - n
      BY <1>4, <2>3
    <3>2. g[k] = f[j] /\ g[k - 1] = f[j - 1] /\ k \in n + 1 .. n + m
      <4>1. k - 1 \in 0 .. n + m /\ k \in 0 .. n + m /\ ~(k - 1 <= n) /\ ~(k <= n)
        BY <1>4, <2>3
      <4>2. (k - 1) - n = j - 1
        BY <1>4, <3>1
      <4> QED BY <1>3, <1>4, <3>1, <4>1, <4>2
    <3>3. (p \o q)[k] = q[j]
      BY <1>4, <3>1, <3>2
    <3> QED BY <1>7, <3>2, <3>3
  <2> QED BY <1>4, <2>1, <2>2, <2>3
<1>9. g[0] = e[0]
  BY <1>3, <1>4
<1>10. g[n + m] = r
  BY <1>3, <1>4, <1>5
<1> QED BY <1>4, <1>5, <1>8, <1>9, <1>10 DEF Read
(* A record with fields replaced, written out.                             *)
LEMMA FirstField ==
  ASSUME NEW x, NEW k, NEW m, NEW y, NEW w, w = [at |-> x, command |-> k, sum |-> m]
  PROVE  [w EXCEPT !.at = y] = [at |-> y, command |-> k, sum |-> m]
<1>1. PICK p : p = [at |-> y, command |-> k, sum |-> m]
  OBVIOUS
<1> QED BY <1>1

LEMMA SecondField ==
  ASSUME NEW x, NEW k, NEW m, NEW y, NEW w, w = [at |-> x, command |-> k, sum |-> m]
  PROVE  [w EXCEPT !.command = y] = [at |-> x, command |-> y, sum |-> m]
<1>1. PICK p : p = [at |-> x, command |-> y, sum |-> m]
  OBVIOUS
<1> QED BY <1>1

LEMMA PlaceField ==
  ASSUME NEW j, NEW h, NEW o, NEW s, s = [i |-> j, start |-> h, out |-> o]
  PROVE  [s EXCEPT !.i = @ + 1] = [i |-> j + 1, start |-> h, out |-> o]
<1>1. PICK p : p = [i |-> j + 1, start |-> h, out |-> o]
  OBVIOUS
<1> QED BY <1>1

LEMMA PlaceAndStart ==
  ASSUME NEW j, NEW h, NEW o, NEW g, NEW s, s = [i |-> j, start |-> h, out |-> o]
  PROVE  [s EXCEPT !.i = @ + 1, !.start = g] = [i |-> j + 1, start |-> g, out |-> o]
<1>1. PICK p : p = [i |-> j + 1, start |-> g, out |-> o]
  OBVIOUS
<1>2. PICK q : q = [s EXCEPT !.i = @ + 1, !.start = g]
  OBVIOUS
<1>3. q.i = j + 1 /\ q.start = g /\ q.out = o
  BY <1>2
<1>4. q = [z \in {"i", "start", "out"} |-> q[z]]
  BY <1>2
<1> QED BY <1>1, <1>2, <1>3, <1>4

LEMMA PlaceAndOut ==
  ASSUME NEW j, NEW h, NEW o, NEW e, NEW s, s = [i |-> j, start |-> h, out |-> o]
  PROVE  [s EXCEPT !.i = @ + 1, !.out = @ \o e] =
           [i |-> j + 1, start |-> h, out |-> o \o e]
<1>1. PICK p : p = [i |-> j + 1, start |-> h, out |-> o \o e]
  OBVIOUS
<1>2. PICK q : q = [s EXCEPT !.i = @ + 1, !.out = @ \o e]
  OBVIOUS
<1>3. q.i = j + 1 /\ q.start = h /\ q.out = o \o e
  BY <1>2
<1>4. q = [z \in {"i", "start", "out"} |-> q[z]]
  BY <1>2
<1> QED BY <1>1, <1>2, <1>3, <1>4

(* What the reference makes of a byte, by the place of the wire.           *)
InData(command) == [at |-> "data", command |-> command, sum |-> TRUE]
InSum(command) == [at |-> "first", command |-> command, sum |-> TRUE]
InSecond(command, m) == [at |-> "second", command |-> command, sum |-> m]

LEMMA OutsideRead ==
  ASSUME NEW c \in Debugger!Byte
  PROVE  /\ Debugger!Wire(Debugger!Outside, c) =
              IF c = "$" THEN InData("none") ELSE Debugger!Outside
         /\ Debugger!Meaning(Debugger!Outside, c) =
              IF c = "!" THEN Debugger!Interrupted ELSE <<>>
<1>1. Debugger!Outside.at = "outside"
  BY DEF Debugger!Outside
<1>2. [Debugger!Outside EXCEPT !.at = "data"] = InData("none")
  <2>1. PICK x, y, k, m : x = "outside" /\ y = "data" /\ k = "none" /\ m = TRUE
    OBVIOUS
  <2>2. PICK w : w = [at |-> x, command |-> k, sum |-> m]
    OBVIOUS
  <2>3. w = Debugger!Outside
    BY <2>1, <2>2 DEF Debugger!Outside
  <2>4. [w EXCEPT !.at = y] = [at |-> y, command |-> k, sum |-> m]
    BY <2>2, FirstField
  <2> QED BY <2>1, <2>3, <2>4 DEF InData
<1>3. Debugger!Wire(Debugger!Outside, c) =
        IF c = "$" THEN [Debugger!Outside EXCEPT !.at = "data"] ELSE Debugger!Outside
  BY <1>1 DEF Debugger!Wire
<1>4. Debugger!Meaning(Debugger!Outside, c) =
        IF c = "!" THEN Debugger!Interrupted ELSE <<>>
  BY <1>1 DEF Debugger!Meaning
<1> QED BY <1>2, <1>3, <1>4

LEMMA DataRead ==
  ASSUME NEW c \in Debugger!Byte, NEW command
  PROVE  /\ Debugger!Wire(InData(command), c) =
              IF c = "#" THEN InSum(command)
              ELSE IF command = "none" THEN InData(c) ELSE InData(command)
         /\ Debugger!Meaning(InData(command), c) = <<>>
<1>1. PICK w : w = InData(command)
  OBVIOUS
<1>2. w.at = "data" /\ w.command = command
  BY <1>1 DEF InData
<1>3. /\ [w EXCEPT !.at = "first"] = InSum(command)
      /\ [w EXCEPT !.command = c] = InData(c)
  <2>1. [w EXCEPT !.at = "first"] = InSum(command)
    <3>1. PICK x, y, m : x = "data" /\ y = "first" /\ m = TRUE
      OBVIOUS
    <3>2. w = [at |-> x, command |-> command, sum |-> m]
      BY <1>1, <3>1 DEF InData
    <3>3. [w EXCEPT !.at = y] = [at |-> y, command |-> command, sum |-> m]
      BY <3>2, FirstField
    <3> QED BY <3>1, <3>3 DEF InSum
  <2>2. [w EXCEPT !.command = c] = InData(c)
    BY <1>1, SecondField DEF InData
  <2> QED BY <2>1, <2>2
<1>4. Debugger!Wire(w, c) = IF c = "#" THEN [w EXCEPT !.at = "first"]
                            ELSE IF command = "none" THEN [w EXCEPT !.command = c] ELSE w
  BY <1>2 DEF Debugger!Wire
<1>5. Debugger!Meaning(w, c) = <<>>
  BY <1>2 DEF Debugger!Meaning
<1> QED BY <1>1, <1>3, <1>4, <1>5

LEMMA SumRead ==
  ASSUME NEW c \in Debugger!Byte, NEW command
  PROVE  /\ Debugger!Wire(InSum(command), c) = InSecond(command, c = "a")
         /\ Debugger!Meaning(InSum(command), c) = <<>>
<1>1. PICK w : w = InSum(command)
  OBVIOUS
<1>2. w.at = "first"
  BY <1>1 DEF InSum
<1>3. [w EXCEPT !.at = "second", !.sum = (c = "a")] = InSecond(command, c = "a")
  <2>1. PICK x, y, m, v : x = "first" /\ y = "second" /\ m = TRUE /\ v = (c = "a")
    OBVIOUS
  <2>2. w = [at |-> x, command |-> command, sum |-> m]
    BY <1>1, <2>1 DEF InSum
  <2>3. [w EXCEPT !.at = y, !.sum = v] = [at |-> y, command |-> command, sum |-> v]
    <3>1. PICK q : q = [w EXCEPT !.at = y, !.sum = v]
      OBVIOUS
    <3>2. q.at = y /\ q.command = command /\ q.sum = v
      BY <2>2, <3>1
    <3>3. q = [z \in {"at", "command", "sum"} |-> q[z]]
      BY <2>2, <3>1
    <3>4. PICK p : p = [at |-> y, command |-> command, sum |-> v]
      OBVIOUS
    <3> QED BY <3>1, <3>2, <3>3, <3>4
  <2> QED BY <2>1, <2>3 DEF InSecond
<1>4. Debugger!Wire(w, c) = [w EXCEPT !.at = "second", !.sum = (c = "a")]
  BY <1>2 DEF Debugger!Wire
<1>5. Debugger!Meaning(w, c) = <<>>
  BY <1>2 DEF Debugger!Meaning
<1> QED BY <1>1, <1>3, <1>4, <1>5

LEMMA SecondRead ==
  ASSUME NEW c \in Debugger!Byte, NEW command, NEW m \in BOOLEAN
  PROVE  /\ Debugger!Wire(InSecond(command, m), c) = Debugger!Outside
         /\ Debugger!Meaning(InSecond(command, m), c) =
              IF m /\ c = "a" /\ command # "none" THEN Debugger!Handled(command)
                                                  ELSE Debugger!Refused
<1>1. PICK w : w = InSecond(command, m)
  OBVIOUS
<1>2. w.at = "second" /\ w.command = command /\ w.sum = m
  BY <1>1 DEF InSecond
<1>3. Debugger!Wire(w, c) = Debugger!Outside
  BY <1>2 DEF Debugger!Wire
<1>4. Debugger!Meaning(w, c) =
        IF m /\ c = "a" /\ command # "none" THEN Debugger!Handled(command)
                                            ELSE Debugger!Refused
  BY <1>2 DEF Debugger!Meaning
<1> QED BY <1>1, <1>3, <1>4

LEMMA AnswersAre ==
  /\ Debugger!Interrupted \in Seq(Answer)
  /\ Debugger!Refused \in Seq(Answer)
  /\ \A c : Debugger!Handled(c) \in Seq(Answer)
<1>1. <<"stop">> \in Seq(Answer) /\ <<"-">> \in Seq(Answer)
  BY DEF Answer
<1>2. <<"+", "run">> \in Seq(Answer) /\ <<"+", "reply">> \in Seq(Answer)
  BY DEF Answer
<1> QED
  BY <1>1, <1>2 DEF Debugger!Interrupted, Debugger!Refused, Debugger!Handled

LEMMA ByteIsRead ==
  ASSUME NEW b, NEW r, Read(r, Debugger!Outside, b), NEW k \in 1 .. Len(b)
  PROVE  /\ r[k] = [wire |-> Debugger!Wire(r[k - 1].wire, b[k]),
                    out |-> r[k - 1].out \o Debugger!Meaning(r[k - 1].wire, b[k])]
BY DEF Read, Debugger!Step

(* The search and the reading go along: outside of a frame they have done  *)
(* the same; since the start of a frame nothing was done, and the wire is  *)
(* in its data, or in a checksum that the buffer ends before.              *)
Search == [i : Nat, start : Nat, out : Seq(Answer)]

Waiting(b, s, w) ==
  \/ w = InData(IF s.i - 1 = s.start THEN "none" ELSE b[s.start + 1])
  \/ s.i + 1 > Len(b) /\ \E c \in Debugger!Byte \cup {"none"} : w = InSum(c)
  \/ s.i > Len(b) /\ \E c \in Debugger!Byte \cup {"none"} :
                       \E m \in BOOLEAN : w = InSecond(c, m)

Inside(b, r, s) ==
  /\ s.start < s.i /\ b[s.start] = "$" /\ r[s.start - 1].wire = Debugger!Outside
  /\ \A k \in s.start .. s.i - 1 : Debugger!Meaning(r[k - 1].wire, b[k]) = <<>>
  /\ \E w : r[s.i - 1] = [wire |-> w, out |-> s.out] /\ Waiting(b, s, w)

Along(b, r, s) ==
  /\ s \in Search /\ s.i \in 1 .. Len(b) + 1
  /\ s.start = 0 => r[s.i - 1] = [wire |-> Debugger!Outside, out |-> s.out]
  /\ s.start # 0 => Inside(b, r, s)

LEMMA BeginsAlong ==
  ASSUME NEW b \in Seq(Debugger!Byte), NEW r, Read(r, Debugger!Outside, b)
  PROVE  Along(b, r, Begin)
<1>1. Begin \in Search /\ Begin.i = 1 /\ Begin.start = 0 /\ Begin.out = <<>>
  BY DEF Begin, Search
<1>2. r[0] = [wire |-> Debugger!Outside, out |-> <<>>]
  BY DEF Read
<1>3. Begin.i - 1 = 0 /\ Begin.i \in 1 .. Len(b) + 1
  BY <1>1
<1> QED BY <1>1, <1>2, <1>3 DEF Along

LEMMA OutsideTurns ==
  ASSUME NEW b \in Seq(Debugger!Byte), NEW r, Read(r, Debugger!Outside, b),
         NEW s, Along(b, r, s), s.start = 0, s.i <= Len(b),
         NEW t, t = Debugger!Turn(b, s)
  PROVE  Along(b, r, t) /\ t.i > s.i
<1>1. /\ s \in Search /\ s.i \in 1 .. Len(b)
      /\ r[s.i - 1] = [wire |-> Debugger!Outside, out |-> s.out]
  BY DEF Along
<1>2. PICK i \in 1 .. Len(b) : i = s.i
  BY <1>1
<1>3. PICK c \in Debugger!Byte : c = b[i]
  OBVIOUS
<1>4. PICK o \in Seq(Answer) : o = s.out
  BY <1>1 DEF Search
<1>5. s = [i |-> i, start |-> 0, out |-> o]
  BY <1>1, <1>2, <1>4 DEF Search
<1>6. r[i] = [wire |-> Debugger!Wire(Debugger!Outside, c),
              out |-> o \o Debugger!Meaning(Debugger!Outside, c)]
  <2>1. r[i - 1].wire = Debugger!Outside /\ r[i - 1].out = o
    BY <1>1, <1>2, <1>4
  <2> QED BY <1>3, <2>1, ByteIsRead
<1>7. CASE c = "$"
  <2>1. t = [i |-> i + 1, start |-> i, out |-> o]
    <3>1. s.start = 0 /\ b[s.i] = "$"
      BY <1>2, <1>3, <1>7
    <3>2. t = [s EXCEPT !.i = @ + 1, !.start = s.i]
      BY <3>1 DEF Debugger!Turn
    <3>3. t = [s EXCEPT !.i = @ + 1, !.start = i]
      BY <1>2, <3>2
    <3>4. PICK h : h = 0
      OBVIOUS
    <3>5. s = [i |-> i, start |-> h, out |-> o]
      BY <1>5, <3>4
    <3> QED BY <3>3, <3>5, PlaceAndStart
  <2>2. t \in Search /\ t.i = i + 1 /\ t.start = i /\ t.out = o
    BY <2>1 DEF Search
  <2>3. Debugger!Meaning(Debugger!Outside, c) = <<>>
    BY <1>7, OutsideRead
  <2>4. r[i] = [wire |-> InData("none"), out |-> o]
    BY <1>6, <1>7, <2>3, OutsideRead
  <2>5. r[i - 1].wire = Debugger!Outside
    BY <1>1, <1>2
  <2>6. Waiting(b, t, InData("none"))
    BY <2>2 DEF Waiting
  <2>7. \A k \in t.start .. t.i - 1 : Debugger!Meaning(r[k - 1].wire, b[k]) = <<>>
    <3>1. ASSUME NEW k \in t.start .. t.i - 1 PROVE k = i
      BY <2>2
    <3> QED BY <3>1, <2>3, <2>5, <1>3
  <2>8. t.i - 1 = i /\ t.start < t.i /\ t.start # 0 /\ t.i \in 1 .. Len(b) + 1
    BY <2>2
  <2>9. Inside(b, r, t)
    BY <1>3, <1>7, <2>2, <2>4, <2>5, <2>6, <2>7, <2>8 DEF Inside
  <2> QED BY <1>2, <2>2, <2>8, <2>9 DEF Along
<1>8. CASE c # "$"
  <2>1. Debugger!Wire(Debugger!Outside, c) = Debugger!Outside
    BY <1>8, OutsideRead
  <2>2. PICK e : e = Debugger!Meaning(Debugger!Outside, c)
    OBVIOUS
  <2>3. e = IF c = "!" THEN Debugger!Interrupted ELSE <<>>
    BY <2>2, OutsideRead
  <2>4. o \o e \in Seq(Answer) /\ (e = <<>> => o \o e = o)
    BY <2>3, AnswersAre
  <2>5. t = [i |-> i + 1, start |-> 0, out |-> o \o e]
    <3>1. CASE c = "!"
      <4>1. s.start = 0 /\ b[s.i] = "!"
        BY <1>2, <1>3, <3>1
      <4>2. t = [s EXCEPT !.i = @ + 1, !.out = @ \o Debugger!Interrupted]
        BY <4>1 DEF Debugger!Turn
      <4>3. e = Debugger!Interrupted
        BY <2>3, <3>1
      <4>4. t = [s EXCEPT !.i = @ + 1, !.out = @ \o e]
        BY <4>2, <4>3
      <4>5. PICK h : h = 0
        OBVIOUS
      <4>6. s = [i |-> i, start |-> h, out |-> o]
        BY <1>5, <4>5
      <4>7. t = [i |-> i + 1, start |-> h, out |-> o \o e]
        BY <4>4, <4>6, PlaceAndOut
      <4> QED BY <4>5, <4>7
    <3>2. CASE c # "!"
      <4>1. t = [i |-> i + 1, start |-> 0, out |-> o]
        <5>1. s.start = 0 /\ b[s.i] # "$" /\ b[s.i] # "!"
          BY <1>2, <1>3, <1>8, <3>2
        <5>2. t = [s EXCEPT !.i = @ + 1]
          BY <5>1 DEF Debugger!Turn
        <5> QED BY <1>5, <5>2, PlaceField
      <4> QED BY <2>3, <2>4, <3>2, <4>1
    <3> QED BY <3>1, <3>2
  <2>6. t \in Search /\ t.i = i + 1 /\ t.start = 0 /\ t.out = o \o e
    BY <2>4, <2>5 DEF Search
  <2>7. t.i - 1 = i /\ t.i \in 1 .. Len(b) + 1
    BY <2>6
  <2>8. r[i] = [wire |-> Debugger!Outside, out |-> o \o e]
    BY <1>6, <2>1, <2>2
  <2> QED BY <1>2, <2>6, <2>7, <2>8 DEF Along
<1> QED BY <1>7, <1>8
(* A turn inside a frame: the frame ends, or the search goes past a byte.  *)
Command(b, h, i) == IF i - 1 = h THEN "none" ELSE b[h + 1]

LEMMA CommandsAre ==
  ASSUME NEW b \in Seq(Debugger!Byte), NEW i \in 1 .. Len(b), NEW h \in 1 .. i - 1
  PROVE  /\ Command(b, h, i) \in Debugger!Byte \cup {"none"}
         /\ (Command(b, h, i) = "none") <=> (i - 1 = h)
         /\ i - 1 # h => Command(b, h, i) = b[h + 1]
<1>1. h + 1 \in 1 .. Len(b)
  OBVIOUS
<1>2. b[h + 1] \in Debugger!Byte
  BY <1>1
<1>3. b[h + 1] # "none"
  BY <1>2 DEF Debugger!Byte
<1> QED BY <1>2, <1>3 DEF Command

LEMMA FrameEnds ==
  ASSUME NEW b \in Seq(Debugger!Byte), NEW r, Read(r, Debugger!Outside, b),
         NEW i \in 1 .. Len(b), NEW h \in 1 .. i - 1, NEW o \in Seq(Answer),
         b[i] = "#", i + 2 <= Len(b),
         r[i - 1] = [wire |-> InData(Command(b, h, i)), out |-> o]
  PROVE  /\ r[i + 2] = [wire |-> Debugger!Outside, out |-> o \o Debugger!Frame(b, h, i)]
         /\ o \o Debugger!Frame(b, h, i) \in Seq(Answer)
<1>1. PICK k \in Debugger!Byte \cup {"none"} : k = Command(b, h, i)
  BY CommandsAre
<1>2. /\ i + 1 \in 1 .. Len(b) /\ i + 2 \in 1 .. Len(b)
      /\ (i + 1) - 1 = i /\ (i + 2) - 1 = i + 1
  OBVIOUS
<1>3. PICK c \in Debugger!Byte : c = b[i + 1]
  BY <1>2
<1>4. PICK e \in Debugger!Byte : e = b[i + 2]
  BY <1>2
<1>5. r[i] = [wire |-> InSum(k), out |-> o]
  <2>1. r[i - 1].wire = InData(k) /\ r[i - 1].out = o
    BY <1>1
  <2>2. r[i] = [wire |-> Debugger!Wire(InData(k), b[i]),
                out |-> o \o Debugger!Meaning(InData(k), b[i])]
    BY <2>1, ByteIsRead
  <2>3. b[i] \in Debugger!Byte
    OBVIOUS
  <2>4. Debugger!Wire(InData(k), b[i]) = InSum(k) /\ Debugger!Meaning(InData(k), b[i]) = <<>>
    BY <2>3, DataRead
  <2> QED BY <2>2, <2>4
<1>6. PICK m \in BOOLEAN : m = (c = "a")
  OBVIOUS
<1>7. r[i + 1] = [wire |-> InSecond(k, m), out |-> o]
  <2>1. r[i].wire = InSum(k) /\ r[i].out = o
    BY <1>5
  <2>2. r[i + 1] = [wire |-> Debugger!Wire(InSum(k), c),
                    out |-> o \o Debugger!Meaning(InSum(k), c)]
    <3>1. PICK j \in 1 .. Len(b) : j = i + 1 /\ j - 1 = i
      BY <1>2
    <3>2. r[j] = [wire |-> Debugger!Wire(r[j - 1].wire, b[j]),
                  out |-> r[j - 1].out \o Debugger!Meaning(r[j - 1].wire, b[j])]
      BY ByteIsRead
    <3> QED BY <1>3, <2>1, <3>1, <3>2
  <2>3. Debugger!Wire(InSum(k), c) = InSecond(k, m) /\ Debugger!Meaning(InSum(k), c) = <<>>
    <3>1. InSecond(k, m) = InSecond(k, c = "a")
      BY <1>6, Zenon
    <3> QED BY <3>1, SumRead
  <2> QED BY <2>2, <2>3
<1>8. PICK a : a = IF m /\ e = "a" /\ k # "none" THEN Debugger!Handled(k)
                                                 ELSE Debugger!Refused
  OBVIOUS
<1>9. r[i + 2] = [wire |-> Debugger!Outside, out |-> o \o a]
  <2>1. r[i + 1].wire = InSecond(k, m) /\ r[i + 1].out = o
    BY <1>7
  <2>2. r[i + 2] = [wire |-> Debugger!Wire(InSecond(k, m), e),
                    out |-> o \o Debugger!Meaning(InSecond(k, m), e)]
    <3>1. PICK j \in 1 .. Len(b) : j = i + 2 /\ j - 1 = i + 1
      BY <1>2
    <3>2. r[j] = [wire |-> Debugger!Wire(r[j - 1].wire, b[j]),
                  out |-> r[j - 1].out \o Debugger!Meaning(r[j - 1].wire, b[j])]
      BY ByteIsRead
    <3> QED BY <1>4, <2>1, <3>1, <3>2
  <2>3. /\ Debugger!Wire(InSecond(k, m), e) = Debugger!Outside
        /\ Debugger!Meaning(InSecond(k, m), e) = a
    BY <1>8, SecondRead
  <2> QED BY <2>2, <2>3
<1>10. a = Debugger!Frame(b, h, i)
  <2>1. (k = "none") <=> (i = h + 1)
    BY <1>1, CommandsAre
  <2>2. i # h + 1 => k = b[h + 1]
    BY <1>1, CommandsAre
  <2>3. m <=> b[i + 1] = "a"
    BY <1>3, <1>6
  <2>4. CASE i = h + 1 \/ b[i + 1] # "a" \/ b[i + 2] # "a"
    <3>1. a = Debugger!Refused
      BY <1>4, <1>8, <2>1, <2>3, <2>4
    <3> QED BY <2>4, <3>1 DEF Debugger!Frame
  <2>5. CASE ~(i = h + 1 \/ b[i + 1] # "a" \/ b[i + 2] # "a")
    <3>1. a = Debugger!Handled(k)
      BY <1>4, <1>8, <2>1, <2>3, <2>5
    <3> QED BY <2>2, <2>5, <3>1 DEF Debugger!Frame
  <2> QED BY <2>4, <2>5
<1>11. a \in Seq(Answer)
  BY <1>8, AnswersAre
<1> QED BY <1>9, <1>10, <1>11

LEMMA FrameWaits ==
  ASSUME NEW b \in Seq(Debugger!Byte), NEW r, Read(r, Debugger!Outside, b),
         NEW s, Along(b, r, s), s.start # 0, s.i <= Len(b),
         NEW t \in Search, t.i = s.i + 1, t.start = s.start, t.out = s.out,
         b[s.i] # "#" \/ s.i + 2 > Len(b)
  PROVE  Along(b, r, t)
<1>1. s \in Search /\ s.i \in 1 .. Len(b) /\ Inside(b, r, s)
  BY DEF Along
<1>2. PICK i \in 1 .. Len(b) : i = s.i
  BY <1>1
<1>3. PICK h \in 1 .. i - 1 : h = s.start
  BY <1>1, <1>2 DEF Inside, Search
<1>4. PICK o \in Seq(Answer) : o = s.out
  BY <1>1 DEF Search
<1>5. PICK w : r[i - 1] = [wire |-> w, out |-> o] /\ Waiting(b, s, w)
  BY <1>1, <1>2, <1>4 DEF Inside
<1>6. PICK c \in Debugger!Byte : c = b[i]
  OBVIOUS
<1>7. r[i] = [wire |-> Debugger!Wire(w, c), out |-> o \o Debugger!Meaning(w, c)]
  <2>1. r[i - 1].wire = w /\ r[i - 1].out = o
    BY <1>5
  <2> QED BY <1>6, <2>1, ByteIsRead
<1>8. PICK k \in Debugger!Byte \cup {"none"} : k = Command(b, h, i)
  BY CommandsAre
<1>9. Debugger!Meaning(w, c) = <<>> /\ Waiting(b, t, Debugger!Wire(w, c))
  <2>1. CASE w = InData(k)
    <3>1. Debugger!Meaning(w, c) = <<>>
      BY <2>1, DataRead
    <3>2. CASE c = "#"
      <4>1. Debugger!Wire(w, c) = InSum(k)
        BY <2>1, <3>2, DataRead
      <4>2. t.i + 1 > Len(b)
        BY <1>2, <1>6, <3>2
      <4> QED BY <3>1, <4>1, <4>2 DEF Waiting
    <3>3. CASE c # "#"
      <4>1. Debugger!Wire(w, c) = IF k = "none" THEN InData(c) ELSE InData(k)
        BY <2>1, <3>3, DataRead
      <4>2. t.i - 1 = i /\ t.start = h
        BY <1>2, <1>3
      <4>3. CASE k = "none"
        <5>1. i = h + 1
          <6>1. i - 1 = h
            BY <1>8, <4>3, CommandsAre
          <6> QED BY <6>1
        <5>2. Debugger!Wire(w, c) = InData(b[t.start + 1])
          BY <1>6, <4>1, <4>2, <4>3, <5>1
        <5> QED BY <3>1, <4>2, <5>2 DEF Waiting
      <4>4. CASE k # "none"
        <5>1. k = b[h + 1]
          BY <1>8, <4>4, CommandsAre
        <5>2. Debugger!Wire(w, c) = InData(b[t.start + 1])
          BY <4>1, <4>2, <4>4, <5>1
        <5> QED BY <3>1, <4>2, <5>2 DEF Waiting
      <4> QED BY <4>3, <4>4
    <3> QED BY <3>2, <3>3
  <2>2. CASE s.i + 1 > Len(b) /\ \E e \in Debugger!Byte \cup {"none"} : w = InSum(e)
    <3>1. PICK e \in Debugger!Byte \cup {"none"} : w = InSum(e)
      BY <2>2
    <3>2. PICK m \in BOOLEAN : m = (c = "a")
      OBVIOUS
    <3>3. Debugger!Meaning(w, c) = <<>> /\ Debugger!Wire(w, c) = InSecond(e, m)
      <4>1. InSecond(e, m) = InSecond(e, c = "a")
        BY <3>2, Zenon
      <4> QED BY <3>1, <4>1, SumRead
    <3>4. t.i > Len(b)
      BY <1>2, <2>2
    <3> QED BY <3>3, <3>4 DEF Waiting
  <2>3. s.i <= Len(b) /\ Command(b, h, i) = IF s.i - 1 = s.start THEN "none" ELSE b[s.start + 1]
    BY <1>1, <1>2, <1>3 DEF Command
  <2> QED BY <1>1, <1>5, <1>8, <2>1, <2>2, <2>3 DEF Waiting
<1>10. r[i] = [wire |-> Debugger!Wire(w, c), out |-> o]
  BY <1>7, <1>9
<1>11. \A n \in t.start .. t.i - 1 : Debugger!Meaning(r[n - 1].wire, b[n]) = <<>>
  <2> SUFFICES ASSUME NEW n \in t.start .. t.i - 1
               PROVE  Debugger!Meaning(r[n - 1].wire, b[n]) = <<>>
    OBVIOUS
  <2>1. CASE n = i
    <3>1. r[n - 1].wire = w
      BY <1>5, <2>1
    <3> QED BY <1>6, <1>9, <2>1, <3>1
  <2>2. CASE n # i
    <3>1. n \in s.start .. s.i - 1
      BY <1>2, <1>3, <2>2
    <3> QED BY <1>1, <3>1 DEF Inside
  <2> QED BY <2>1, <2>2
<1>12. /\ t.start < t.i /\ b[t.start] = "$" /\ r[t.start - 1].wire = Debugger!Outside
       /\ t.i - 1 = i /\ t.out = o /\ t.i \in 1 .. Len(b) + 1
  BY <1>1, <1>2, <1>3, <1>4 DEF Inside
<1>13. Inside(b, r, t)
  BY <1>9, <1>10, <1>11, <1>12 DEF Inside
<1> QED BY <1>12, <1>13 DEF Along

LEMMA InsideTurns ==
  ASSUME NEW b \in Seq(Debugger!Byte), NEW r, Read(r, Debugger!Outside, b),
         NEW s, Along(b, r, s), s.start # 0, s.i <= Len(b),
         NEW t, t = Debugger!Turn(b, s)
  PROVE  Along(b, r, t) /\ t.i > s.i
<1>1. s \in Search /\ s.i \in 1 .. Len(b) /\ Inside(b, r, s)
  BY DEF Along
<1>2. PICK i \in 1 .. Len(b) : i = s.i
  BY <1>1
<1>3. PICK h \in 1 .. i - 1 : h = s.start
  BY <1>1, <1>2 DEF Inside, Search
<1>4. PICK o \in Seq(Answer) : o = s.out
  BY <1>1 DEF Search
<1>5. CASE b[i] = "#" /\ i + 2 <= Len(b)
  <2>1. PICK w : r[i - 1] = [wire |-> w, out |-> o] /\ Waiting(b, s, w)
    BY <1>1, <1>2, <1>4 DEF Inside
  <2>2. w = InData(Command(b, h, i))
    BY <1>2, <1>3, <1>5, <2>1 DEF Waiting, Command
  <2>3. PICK a : a = o \o Debugger!Frame(b, h, i)
    OBVIOUS
  <2>4. r[i + 2] = [wire |-> Debugger!Outside, out |-> a] /\ a \in Seq(Answer)
    BY <1>5, <2>1, <2>2, <2>3, FrameEnds
  <2>5. t = [i |-> i + 3, start |-> 0, out |-> a]
    <3>1. s.start # 0 /\ b[s.i] = "#" /\ s.i + 2 <= Len(b)
      BY <1>2, <1>5
    <3>2. t = [i |-> s.i + 3, start |-> 0,
               out |-> s.out \o Debugger!Frame(b, s.start, s.i)]
      BY <3>1 DEF Debugger!Turn
    <3> QED BY <1>2, <1>3, <1>4, <2>3, <3>2
  <2>6. t \in Search /\ t.i = i + 3 /\ t.start = 0 /\ t.out = a
    BY <2>4, <2>5 DEF Search
  <2>7. t.i - 1 = i + 2 /\ t.i \in 1 .. Len(b) + 1
    BY <1>5, <2>6
  <2> QED BY <1>2, <2>4, <2>6, <2>7 DEF Along
<1>6. CASE ~(b[i] = "#" /\ i + 2 <= Len(b))
  <2>1. t = [s EXCEPT !.i = @ + 1]
    BY <1>2, <1>6 DEF Debugger!Turn
  <2>2. s = [i |-> i, start |-> h, out |-> o]
    BY <1>1, <1>2, <1>3, <1>4 DEF Search
  <2>3. t = [i |-> i + 1, start |-> h, out |-> o]
    BY <2>1, <2>2, PlaceField
  <2>4. t \in Search /\ t.i = i + 1 /\ t.start = h /\ t.out = o
    BY <2>3 DEF Search
  <2>5. b[s.i] # "#" \/ s.i + 2 > Len(b)
    BY <1>2, <1>6
  <2> QED BY <1>2, <1>3, <1>4, <2>4, <2>5, FrameWaits
<1> QED BY <1>5, <1>6
(* The whole search goes along with the reading, and gets to the end.      *)
LEMMA SearchIsTrue ==
  ASSUME NEW b \in Seq(Debugger!Byte), NEW r, Read(r, Debugger!Outside, b),
         NEW p, p = Debugger!Processed(b)
  PROVE  Along(b, r, p) /\ p.i = Len(b) + 1
<1>1. PICK n \in Nat : n = Len(b)
  OBVIOUS
<1>2. PICK g : Searched(g, b) /\ p = g[n]
  BY <1>1, BufferIsSearched
<1> DEFINE T == {k \in Nat : k <= n => Along(b, r, g[k]) /\ (g[k].i > k \/ g[k].i > n)}
<1>3. 0 \in T
  <2>1. g[0] = Begin
    BY <1>2 DEF Searched
  <2>2. Begin.i > 0
    BY DEF Begin
  <2> QED BY <2>1, <2>2, BeginsAlong
<1>4. ASSUME NEW k \in Nat, k \in T
      PROVE  k + 1 \in T
  <2> SUFFICES ASSUME k + 1 <= n
               PROVE  Along(b, r, g[k + 1]) /\ (g[k + 1].i > k + 1 \/ g[k + 1].i > n)
    OBVIOUS
  <2>1. PICK s : s = g[k]
    OBVIOUS
  <2>2. PICK t : t = g[k + 1]
    OBVIOUS
  <2>3. Along(b, r, s) /\ (s.i > k \/ s.i > n)
    BY <1>4, <2>1
  <2>4. t = IF s.i > n THEN s ELSE Debugger!Turn(b, s)
    <3>1. PICK j \in 1 .. n : j = k + 1 /\ j - 1 = k
      OBVIOUS
    <3>2. g[j] = IF g[j - 1].i > Len(b) THEN g[j - 1] ELSE Debugger!Turn(b, g[j - 1])
      BY <1>1, <1>2 DEF Searched
    <3> QED BY <1>1, <2>1, <2>2, <3>1, <3>2
  <2>5. s.i \in Nat
    BY <2>3 DEF Along, Search
  <2>6. CASE s.i > n
    BY <2>2, <2>3, <2>4, <2>6
  <2>7. CASE s.i <= n
    <3>1. Along(b, r, t) /\ t.i > s.i
      BY <1>1, <2>3, <2>4, <2>5, <2>7, OutsideTurns, InsideTurns
    <3>2. t.i \in Nat
      BY <3>1 DEF Along, Search
    <3>3. t.i > k + 1
      BY <2>3, <2>5, <2>7, <3>1, <3>2
    <3> QED BY <2>2, <3>1, <3>3
  <2> QED BY <2>5, <2>6, <2>7
<1>5. n \in T
  <2>1. T \subseteq Nat
    OBVIOUS
  <2> HIDE DEF T
  <2> QED BY <1>3, <1>4, <2>1, AllNaturals
<1>6. Along(b, r, p) /\ p.i > n
  BY <1>2, <1>5
<1> QED BY <1>1, <1>6 DEF Along

(* An empty buffer, outside of a frame.                                   *)
LEMMA DebuggerBegins ==
  ASSUME NEW e \in Seq(Debugger!Byte), e = <<>>, NEW w, w = Debugger!Outside
  PROVE  Kept(e, w) /\ w.at = "outside" /\ Len(e) = 0
<1>1. PICK g : g = [k \in 0 .. 0 |-> [wire |-> w, out |-> <<>>]]
  OBVIOUS
<1>2. g[0] = [wire |-> w, out |-> <<>>] /\ Len(e) = 0
  BY <1>1
<1>3. Read(g, Debugger!Outside, e)
  BY <1>2 DEF Read
<1>4. w.at = "outside"
  BY DEF Debugger!Outside
<1> QED BY <1>2, <1>3, <1>4 DEF Kept

(* What is left in the buffer is the frame that is not complete.           *)
LEMMA RestIsKept ==
  ASSUME NEW b \in Seq(Debugger!Byte), NEW r, Read(r, Debugger!Outside, b),
         NEW p, Along(b, r, p), p.i = Len(b) + 1,
         NEW rest, rest = Debugger!Left(b, p.start)
  PROVE  /\ r[Len(b)].out = p.out
         /\ rest \in Seq(Debugger!Byte) /\ Len(rest) <= Len(b)
         /\ (rest = <<>>) <=> (r[Len(b)].wire.at = "outside")
         /\ rest # <<>> => Head(rest) = "$"
         /\ Kept(rest, r[Len(b)].wire)
<1>1. PICK n \in Nat : n = Len(b)
  OBVIOUS
<1>2. p.i - 1 = n /\ p \in Search
  BY <1>1 DEF Along
<1>3. CASE p.start = 0
  <2>1. r[n] = [wire |-> Debugger!Outside, out |-> p.out]
    BY <1>2, <1>3 DEF Along
  <2>2. rest = <<>>
    BY <1>3 DEF Debugger!Left
  <2>3. Debugger!Outside.at = "outside"
    BY DEF Debugger!Outside
  <2>4. Kept(<<>>, Debugger!Outside)
    <3>1. <<>> \in Seq(Debugger!Byte)
      OBVIOUS
    <3> QED BY <3>1, DebuggerBegins
  <2>5. rest \in Seq(Debugger!Byte) /\ Len(rest) <= Len(b)
    BY <1>1, <2>2
  <2> QED BY <1>1, <2>1, <2>2, <2>3, <2>4, <2>5
<1>4. CASE p.start # 0
  <2>1. PICK h \in 1 .. n : h = p.start
    BY <1>1, <1>2, <1>4 DEF Along, Inside, Search
  <2>2. /\ b[h] = "$" /\ r[h - 1].wire = Debugger!Outside
        /\ \A k \in h .. n : Debugger!Meaning(r[k - 1].wire, b[k]) = <<>>
    BY <1>2, <1>4, <2>1 DEF Along, Inside
  <2>3. PICK w : r[n] = [wire |-> w, out |-> p.out] /\ Waiting(b, p, w)
    BY <1>2, <1>4 DEF Along, Inside
  <2>4. w.at # "outside"
    BY <2>3 DEF Waiting, InData, InSum, InSecond
  <2>5. rest = SubSeq(b, h, n)
    BY <1>1, <1>4, <2>1 DEF Debugger!Left
  <2>6. /\ rest \in Seq(Debugger!Byte) /\ Len(rest) = n - h + 1
        /\ \A k \in 1 .. Len(rest) : rest[k] = b[h + k - 1]
    BY <1>1, <2>1, <2>5, SMTT(30)
  <2>7. rest # <<>> /\ Head(rest) = "$"
    <3>1. 1 \in 1 .. Len(rest) /\ h + 1 - 1 = h
      BY <2>1, <2>6
    <3>2. rest[1] = "$"
      BY <2>2, <2>6, <3>1
    <3> QED BY <2>6, <3>1, <3>2
  <2>8. PICK m \in Nat : m = Len(rest) /\ h - 1 + m = n
    BY <2>1, <2>6
  <2>9. PICK g : g = [k \in 0 .. m |-> [wire |-> r[h - 1 + k].wire, out |-> <<>>]]
    OBVIOUS
  <2>10. g[0] = [wire |-> Debugger!Outside, out |-> <<>>]
    <3>1. 0 \in 0 .. m /\ h - 1 + 0 = h - 1
      BY <2>1
    <3> QED BY <2>2, <2>9, <3>1
  <2>11. g[m] = [wire |-> w, out |-> <<>>]
    <3>1. r[n].wire = w
      BY <2>3
    <3>2. m \in 0 .. m /\ h - 1 + m = n
      BY <2>8
    <3>3. r[h - 1 + m].wire = w
      BY <3>1, <3>2
    <3> QED BY <2>9, <3>2, <3>3
  <2>12. ASSUME NEW k \in 1 .. m PROVE g[k] = Debugger!Step(g[k - 1], rest[k])
    <3>1. PICK j \in 1 .. n : j = h - 1 + k /\ j - 1 = h - 1 + (k - 1) /\ j = h + k - 1
      BY <2>1, <2>8, SMTT(30)
    <3>2. j \in h .. n /\ k \in 0 .. m /\ k - 1 \in 0 .. m
      BY <2>1, <3>1
    <3>3. rest[k] = b[j]
      BY <2>6, <2>8, <3>1
    <3>4. g[k] = [wire |-> r[j].wire, out |-> <<>>]
      BY <2>9, <3>1, <3>2
    <3>5. g[k - 1] = [wire |-> r[j - 1].wire, out |-> <<>>]
      BY <2>9, <3>1, <3>2
    <3>6. r[j].wire = Debugger!Wire(r[j - 1].wire, b[j])
      <4>1. j \in 1 .. Len(b)
        BY <1>1
      <4>2. r[j] = [wire |-> Debugger!Wire(r[j - 1].wire, b[j]),
                    out |-> r[j - 1].out \o Debugger!Meaning(r[j - 1].wire, b[j])]
        BY <4>1, ByteIsRead
      <4> QED BY <4>2
    <3>7. Debugger!Meaning(r[j - 1].wire, b[j]) = <<>>
      BY <2>2, <3>2
    <3>8. <<>> \o <<>> = <<>>
      OBVIOUS
    <3>9. Debugger!Step(g[k - 1], b[j]) =
            [wire |-> Debugger!Wire(g[k - 1].wire, b[j]),
             out |-> g[k - 1].out \o Debugger!Meaning(g[k - 1].wire, b[j])]
      BY DEF Debugger!Step
    <3>10. g[k - 1].wire = r[j - 1].wire /\ g[k - 1].out = <<>>
      BY <3>5
    <3> QED BY <3>3, <3>4, <3>6, <3>7, <3>8, <3>9, <3>10
  <2>13. Kept(rest, w)
    <3>1. Read(g, Debugger!Outside, rest)
      BY <2>8, <2>10, <2>12 DEF Read
    <3> QED BY <2>8, <2>11, <3>1 DEF Kept
  <2>14. r[n].wire = w /\ r[n].out = p.out
    BY <2>3
  <2> QED BY <1>1, <2>1, <2>4, <2>6, <2>7, <2>13, <2>14
<1> QED BY <1>3, <1>4

LEMMA PiecesAreBytes ==
  ASSUME NEW q \in Debugger!Piece
  PROVE  q \in Seq(Debugger!Byte)
BY DEF Debugger!Piece

(* A piece arrives.                                                        *)
LEMMA PieceReceived ==
  ASSUME GdbInv, NEW q \in Debugger!Piece, Debugger!Receive(q)
  PROVE  GdbInv'
<1>1. PICK b \in Seq(Debugger!Byte) : b = buf \o q
  <2>1. buf \in Seq(Debugger!Byte) /\ q \in Seq(Debugger!Byte)
    BY PiecesAreBytes DEF GdbInv
  <2>2. PICK x, y : x = buf /\ y = q
    OBVIOUS
  <2>3. x \o y \in Seq(Debugger!Byte)
    BY <2>1, <2>2
  <2> QED BY <2>2, <2>3
<1>2. PICK p : p = Debugger!Processed(b)
  OBVIOUS
<1>3. PICK s : s = Debugger!Read(wire, q)
  OBVIOUS
<1>4. /\ Len(b) <= size
      /\ buf' = Debugger!Left(b, p.start)
      /\ done' = p.out
      /\ size' = IF Len(buf') > size - MARGIN /\ size < MAX_SIZE THEN 2 * size ELSE size
      /\ wire' = s.wire /\ due' = s.out
  BY <1>1, <1>2, <1>3 DEF Debugger!Receive
<1>5. PICK r : Read(r, Debugger!Outside, b) /\ r[Len(b)] = s
  BY <1>1, <1>3, PiecesAreBytes, ReadsGoOn DEF GdbInv
<1>6. Along(b, r, p) /\ p.i = Len(b) + 1
  BY <1>2, <1>5, SearchIsTrue
<1>7. PICK rest : rest = buf'
  OBVIOUS
<1>8. /\ s.out = p.out
      /\ rest \in Seq(Debugger!Byte) /\ Len(rest) <= Len(b)
      /\ (rest = <<>>) <=> (s.wire.at = "outside")
      /\ rest # <<>> => Head(rest) = "$"
      /\ Kept(rest, s.wire)
  BY <1>4, <1>5, <1>6, <1>7, RestIsKept
<1>9. Debugger!StreamExact'
  BY <1>4, <1>7, <1>8 DEF Debugger!StreamExact
<1>10. Kept(buf', wire')
  BY <1>4, <1>7, <1>8
<1>11. Room'
  <2>1. PICK l \in Nat : l = Len(buf')
    BY <1>7, <1>8
  <2>2. size \in Nat /\ l <= size
    BY <1>1, <1>4, <1>7, <1>8, <2>1 DEF GdbInv, Room
  <2>3. PICK k \in Debugger!Doublings : size = k * BUFFER_SIZE
    BY DEF GdbInv, Room
  <2>4. PICK z \in Debugger!Doublings : MAX_SIZE = z * BUFFER_SIZE
    BY OtherConstants DEF Debugger!SizeAssumption
  <2>5. BUFFER_SIZE \in Nat \ {0} /\ MARGIN \in 1 .. BUFFER_SIZE - 1 /\ size <= MAX_SIZE
    BY OtherConstants DEF GdbInv, Room, Debugger!SizeAssumption
  <2>6. CASE l > size - MARGIN /\ size < MAX_SIZE
    <3>1. size' = 2 * size /\ size \in Nat \ {0}
      <4>1. size # 0
        BY <2>3, <2>5 DEF Debugger!Doublings
      <4>2. size' = 2 * size
        BY <1>4, <2>1, <2>6
      <4> QED BY <2>2, <4>1, <4>2
    <3>2. 2 * k \in Debugger!Doublings /\ 2 * k <= z /\ size' = (2 * k) * BUFFER_SIZE
      <4>1. k < z
        BY <2>3, <2>4, <2>5, <2>6 DEF Debugger!Doublings
      <4>2. 2 * k \in Debugger!Doublings /\ 2 * k <= z
        BY <4>1 DEF Debugger!Doublings
      <4> QED BY <2>3, <2>5, <3>1, <4>2 DEF Debugger!Doublings
    <3>3. size' <= MAX_SIZE
      BY <2>4, <2>5, <3>2 DEF Debugger!Doublings
    <3>4. l < size' /\ size' \in Nat
      BY <2>2, <3>1
    <3>5. Debugger!RoomForFrame'
      BY <2>1, <3>4 DEF Debugger!RoomForFrame
    <3> QED BY <2>1, <3>2, <3>3, <3>4, <3>5 DEF Room
  <2>7. CASE ~(l > size - MARGIN /\ size < MAX_SIZE)
    <3>1. size' = size
      BY <1>4, <2>1, <2>7
    <3>2. MAX_SIZE \in Nat
      BY <2>4, <2>5 DEF Debugger!Doublings
    <3>3. l < size \/ size = MAX_SIZE
      BY <2>2, <2>5, <2>7, <3>2
    <3>4. Debugger!RoomForFrame'
      BY <2>1, <3>1, <3>3 DEF Debugger!RoomForFrame
    <3> QED BY <2>1, <2>2, <2>3, <2>5, <3>1, <3>4 DEF Room
  <2> QED BY <2>6, <2>7
<1> QED BY <1>7, <1>8, <1>9, <1>10, <1>11 DEF GdbInv

LEMMA SizeBegins ==
  /\ BUFFER_SIZE \in Nat \ {0} /\ BUFFER_SIZE <= MAX_SIZE
  /\ \E k \in Debugger!Doublings : BUFFER_SIZE = k * BUFFER_SIZE
<1>1. BUFFER_SIZE \in Nat \ {0}
  BY OtherConstants DEF Debugger!SizeAssumption
<1>2. PICK z \in Debugger!Doublings : MAX_SIZE = z * BUFFER_SIZE
  BY OtherConstants DEF Debugger!SizeAssumption
<1>3. BUFFER_SIZE <= MAX_SIZE
  BY <1>1, <1>2 DEF Debugger!Doublings
<1>4. 1 \in Debugger!Doublings /\ BUFFER_SIZE = 1 * BUFFER_SIZE
  BY <1>1 DEF Debugger!Doublings
<1> QED BY <1>1, <1>3, <1>4

(* The debugger keeps its promises on any stream of bytes.                 *)
LEMMA GdbKeeps == Debugger!Spec => []Debugger!GdbTrue
<1>1. Debugger!Init => GdbInv
  <2> SUFFICES ASSUME Debugger!Init PROVE GdbInv
    OBVIOUS
  <2>1. buf \in Seq(Debugger!Byte) /\ buf = <<>> /\ wire = Debugger!Outside
    BY DEF Debugger!Init
  <2>2. Kept(buf, wire) /\ wire.at = "outside" /\ Len(buf) = 0
    BY <2>1, DebuggerBegins
  <2>3. Debugger!StreamExact
    BY <2>1, <2>2 DEF Debugger!Init, Debugger!StreamExact
  <2>4. Room
    BY <2>2, SizeBegins DEF Debugger!Init, Room, Debugger!RoomForFrame
  <2> QED BY <2>1, <2>2, <2>3, <2>4 DEF GdbInv
<1>2. GdbInv /\ [Debugger!Next]_(Debugger!vars) => GdbInv'
  <2> SUFFICES ASSUME GdbInv, [Debugger!Next]_(Debugger!vars)
               PROVE  GdbInv'
    OBVIOUS
  <2>1. CASE \E q \in Debugger!Piece : Debugger!Receive(q)
    BY <2>1, PieceReceived
  <2>2. CASE Debugger!Disconnect \/ UNCHANGED Debugger!vars
    <3>1. /\ buf' = buf /\ size' = size /\ done' = done
          /\ wire' = wire /\ due' = due
      BY <2>2 DEF Debugger!Disconnect, Debugger!vars
    <3> QED BY <3>1 DEF GdbInv, Room, Debugger!RoomForFrame, Debugger!StreamExact
  <2>3. CASE Debugger!Connect
    <3>1. /\ buf' \in Seq(Debugger!Byte) /\ buf' = <<>> /\ wire' = Debugger!Outside
          /\ done' = due' /\ size' = BUFFER_SIZE
      BY <2>3 DEF Debugger!Connect
    <3>2. Kept(buf', wire') /\ wire'.at = "outside" /\ Len(buf') = 0
      BY <3>1, DebuggerBegins
    <3>3. Debugger!StreamExact'
      BY <3>1, <3>2 DEF Debugger!StreamExact
    <3>4. Room'
      BY <3>1, <3>2, SizeBegins DEF Room, Debugger!RoomForFrame
    <3> QED BY <3>1, <3>2, <3>3, <3>4 DEF GdbInv
  <2> QED BY <2>1, <2>2, <2>3 DEF Debugger!Next
<1>3. GdbInv => Debugger!GdbTrue
  BY DEF GdbInv, Room, Debugger!GdbTrue
<1> QED BY <1>1, <1>2, <1>3, PTL DEF Debugger!Spec
-----------------------------------------------------------------------------
(* The YUV converter.  Data are numbers in a row, and so are the blocks    *)
(* they are cut into.                                                      *)
LEMMA NumbersAre ==
  ASSUME NEW a \in Nat, NEW m \in Nat
  PROVE  /\ Movie!Numbers(a, m) \in Seq(Nat) /\ Len(Movie!Numbers(a, m)) = m
         /\ \A i \in 1 .. m : Movie!Numbers(a, m)[i] = a + i - 1
BY DEF Movie!Numbers

LEMMA NumbersJoined ==
  ASSUME NEW a \in Nat, NEW m \in Nat, NEW k \in Nat
  PROVE  Movie!Numbers(a, m) \o Movie!Numbers(a + m, k) = Movie!Numbers(a, m + k)
<1>1. PICK b \in Nat : b = a + m
  OBVIOUS
<1>2. PICK n \in Nat : n = m + k
  OBVIOUS
<1>3. PICK p : p = Movie!Numbers(a, m)
  OBVIOUS
<1>4. PICK q : q = Movie!Numbers(b, k)
  OBVIOUS
<1>5. PICK r : r = Movie!Numbers(a, n)
  OBVIOUS
<1>6. p \in Seq(Nat) /\ Len(p) = m /\ \A i \in 1 .. m : p[i] = a + i - 1
  BY <1>3, NumbersAre
<1>7. q \in Seq(Nat) /\ Len(q) = k /\ \A i \in 1 .. k : q[i] = b + i - 1
  BY <1>4, NumbersAre
<1>8. r \in Seq(Nat) /\ Len(r) = n /\ \A i \in 1 .. n : r[i] = a + i - 1
  BY <1>5, NumbersAre
<1>9. PICK s : s = p \o q
  OBVIOUS
<1>10. s \in Seq(Nat) /\ Len(s) = n
  <2>1. p \in Seq(Nat) /\ q \in Seq(Nat)
    BY <1>6, <1>7
  <2>2. p \o q \in Seq(Nat) /\ Len(p \o q) = Len(p) + Len(q)
    BY <2>1
  <2> QED BY <1>2, <1>6, <1>7, <1>9, <2>2
<1>11. ASSUME NEW i \in 1 .. n PROVE s[i] = r[i]
  <2>1. CASE i <= m
    BY <1>6, <1>7, <1>8, <1>9, <2>1
  <2>2. CASE ~(i <= m)
    <3>1. PICK j \in 1 .. k : j = i - m
      BY <1>2, <2>2
    <3>2. s[i] = q[j]
      BY <1>2, <1>6, <1>7, <1>9, <2>2, <3>1
    <3> QED BY <1>1, <1>7, <1>8, <3>1, <3>2
  <2> QED BY <2>1, <2>2
<1>12. s = r
  BY <1>8, <1>10, <1>11
<1> QED BY <1>1, <1>2, <1>3, <1>4, <1>5, <1>9, <1>12

LEMMA NumbersCut ==
  ASSUME NEW a \in Nat, NEW m \in Nat, NEW i \in 1 .. m + 1, NEW j \in i - 1 .. m
  PROVE  SubSeq(Movie!Numbers(a, m), i, j) = Movie!Numbers(a + (i - 1), j - (i - 1))
<1>1. PICK p : p = Movie!Numbers(a, m)
  OBVIOUS
<1>2. PICK n \in Nat, b \in Nat : n = j - (i - 1) /\ b = a + (i - 1)
  OBVIOUS
<1>3. PICK r : r = Movie!Numbers(b, n)
  OBVIOUS
<1>4. p \in Seq(Nat) /\ Len(p) = m /\ \A k \in 1 .. m : p[k] = a + k - 1
  BY <1>1, NumbersAre
<1>5. r \in Seq(Nat) /\ Len(r) = n /\ \A k \in 1 .. n : r[k] = b + k - 1
  BY <1>3, NumbersAre
<1>6. PICK q : q = SubSeq(p, i, j)
  OBVIOUS
<1>7. q \in Seq(Nat) /\ Len(q) = n
  BY <1>2, <1>4, <1>6
<1>8. ASSUME NEW k \in 1 .. n PROVE q[k] = r[k]
  <2>1. i + k - 1 \in 1 .. m
    BY <1>2
  <2>2. q[k] = p[i + k - 1]
    BY <1>2, <1>4, <1>6
  <2>3. p[i + k - 1] = a + (i + k - 1) - 1
    BY <1>4, <2>1
  <2> QED BY <1>2, <1>5, <2>2, <2>3
<1>9. q = r
  BY <1>5, <1>7, <1>8
<1> QED BY <1>1, <1>2, <1>3, <1>6, <1>9

(* Products.                                                               *)
LEMMA Products ==
  ASSUME NEW a \in Nat, NEW b \in Nat, NEW z \in Nat, a <= b
  PROVE  a * z \in Nat /\ b * z \in Nat /\ a * z <= b * z
<1>1. PICK e \in Nat : b = a + e
  <2>1. b - a \in Nat /\ b = a + (b - a)
    OBVIOUS
  <2> QED BY <2>1
<1>2. e * z \in Nat /\ a * z \in Nat
  OBVIOUS
<1>3. b * z = a * z + e * z
  BY <1>1
<1> QED BY <1>2, <1>3

LEMMA NextProduct ==
  ASSUME NEW a \in Nat, NEW z \in Nat
  PROVE  (a + 1) * z = a * z + z /\ a * z \in Nat
OBVIOUS

LEMMA Quotients ==
  ASSUME NEW n \in Nat, NEW z \in Nat \ {0}
  PROVE  /\ n \div z \in Nat /\ (n \div z) * z \in Nat
         /\ (n \div z) * z <= n /\ n < (n \div z) * z + z
OBVIOUS

(* The kinds of things.                                                    *)
Picture == [data : Seq(Nat), x : Nat, y : Nat, width : Nat \ {0}, height : Nat \ {0},
            format : Format]
Conversion == [yuv : Picture, out : Seq(Seq(Nat)), placed : Nat]
SizeOf(c) == BlockSize[c.yuv.format]
SameShape(c, p) ==
  /\ p.yuv.format = c.yuv.format
  /\ p.yuv.width = c.yuv.width /\ p.yuv.height = c.yuv.height

LEMMA SizesAre ==
  ASSUME NEW c \in Conversion
  PROVE  SizeOf(c) \in Nat \ {0}
<1>1. c.yuv.format \in Format
  BY DEF Conversion, Picture
<1> QED BY <1>1, OtherConstants DEF SizeOf, Movie!SizeAssumption

(* The blocks of a picture up to t.                                        *)
Blocked(o, unit, t) ==
  /\ o \in Seq(Seq(Nat)) /\ t \in Nat /\ Len(o) * unit = t
  /\ \A i \in 1 .. Len(o) : o[i] = Movie!Numbers((i - 1) * unit, unit)

LEMMA NextBlock ==
  ASSUME NEW unit \in Nat \ {0}, NEW o, NEW t, Blocked(o, unit, t),
         NEW b, b = Movie!Numbers(t, unit)
  PROVE  /\ \A i \in DOMAIN o : o[i] # b
         /\ Blocked(Append(o, b), unit, t + unit)
<1>1. PICK l \in Nat : l = Len(o) /\ l * unit = t
  BY DEF Blocked
<1>2. o \in Seq(Seq(Nat)) /\ t \in Nat /\ DOMAIN o = 1 .. l
  BY <1>1 DEF Blocked
<1>3. \A i \in 1 .. l : o[i] = Movie!Numbers((i - 1) * unit, unit)
  BY <1>1 DEF Blocked
<1>4. b \in Seq(Nat) /\ b[1] = t
  <2>1. PICK n \in Nat : n = unit
    OBVIOUS
  <2>2. b \in Seq(Nat) /\ \A i \in 1 .. n : b[i] = t + i - 1
    BY <1>2, <2>1, NumbersAre
  <2>3. 1 \in 1 .. n /\ t + 1 - 1 = t
    BY <1>2, <2>1
  <2> QED BY <2>2, <2>3
<1>5. ASSUME NEW i \in 1 .. l PROVE o[i] # b
  <2>1. PICK k \in Nat : k = i - 1 /\ k + 1 <= l
    OBVIOUS
  <2>2. k * unit \in Nat /\ (k + 1) * unit = k * unit + unit
    BY NextProduct
  <2>3. (k + 1) * unit <= l * unit
    BY <2>1, Products
  <2>4. Movie!Numbers(k * unit, unit)[1] = k * unit
    <3>1. PICK n \in Nat, u \in Nat : n = unit /\ u = k * unit
      BY <2>2
    <3>2. \A j \in 1 .. n : Movie!Numbers(u, n)[j] = u + j - 1
      BY NumbersAre
    <3>3. 1 \in 1 .. n /\ u + 1 - 1 = u
      BY <3>1
    <3> QED BY <3>1, <3>2, <3>3
  <2>5. k * unit # t
    BY <1>1, <2>2, <2>3
  <2> QED BY <1>3, <1>4, <2>1, <2>4, <2>5
<1>6. PICK e : e = Append(o, b)
  OBVIOUS
<1>7. /\ e \in Seq(Seq(Nat)) /\ Len(e) = l + 1
      /\ \A i \in 1 .. l : e[i] = o[i]
      /\ e[l + 1] = b
  BY <1>1, <1>2, <1>4, <1>6
<1>8. Len(e) * unit = t + unit
  BY <1>1, <1>7, NextProduct
<1>9. ASSUME NEW i \in 1 .. l + 1 PROVE e[i] = Movie!Numbers((i - 1) * unit, unit)
  <2>1. CASE i \in 1 .. l
    BY <1>3, <1>7, <2>1
  <2>2. CASE i = l + 1
    <3>1. i - 1 = l
      BY <2>2
    <3> QED BY <1>1, <1>7, <2>2, <3>1
  <2> QED BY <2>1, <2>2
<1>10. Blocked(e, unit, t + unit)
  BY <1>2, <1>7, <1>8, <1>9 DEF Blocked
<1> QED BY <1>2, <1>5, <1>6, <1>10
(* A converter's place in the picture is that of the count, which starts   *)
(* with the first block.                                                   *)
Ended(c) ==
  /\ c.yuv.x < c.yuv.width /\ c.yuv.y < c.yuv.height
  /\ c.placed = c.yuv.y * c.yuv.width + c.yuv.x
  /\ c.out = <<>> => c.placed = 0

LEMMA BlockIsProcessed ==
  ASSUME NEW c \in Conversion, Ended(c), NEW b \in Seq(Nat),
         NEW p, p = Movie!Processed(c, b)
  PROVE  /\ p \in Conversion /\ Ended(p) /\ SameShape(c, p)
         /\ p.yuv.data = c.yuv.data
         /\ p.out = IF \E i \in DOMAIN c.out : c.out[i] = b THEN c.out ELSE Append(c.out, b)
<1>1. PICK y \in Picture : y = c.yuv
  BY DEF Conversion
<1>2. /\ y.data \in Seq(Nat) /\ y.x \in Nat /\ y.y \in Nat /\ y.width \in Nat \ {0}
      /\ y.height \in Nat \ {0} /\ y.format \in Format
  BY DEF Picture
<1> DEFINE endOfRow == y.x + 1 >= y.width
           last == endOfRow /\ y.y + 1 >= y.height
<1>5. PICK x \in Nat : x = IF endOfRow THEN 0 ELSE y.x + 1
  BY <1>2
<1>6. PICK h \in Nat : h = IF last THEN 0 ELSE IF endOfRow THEN y.y + 1 ELSE y.y
  BY <1>2
<1>7. PICK o : o = IF \E i \in DOMAIN c.out : c.out[i] = b THEN c.out ELSE Append(c.out, b)
  OBVIOUS
<1>8. PICK z \in Nat : z = IF last THEN 0 ELSE c.placed + 1
  BY DEF Conversion
<1>9. PICK v : v = [y EXCEPT !.x = x, !.y = h]
  OBVIOUS
<1>10. p = [yuv |-> v, out |-> o, placed |-> z]
  <2>1. v = [y EXCEPT !.x = IF endOfRow THEN 0 ELSE @ + 1,
                      !.y = IF last THEN 0 ELSE IF endOfRow THEN @ + 1 ELSE @]
    BY <1>5, <1>6, <1>9
  <2> QED BY <1>1, <1>7, <1>8, <2>1, Zenon DEF Movie!Processed
<1>11. v \in Picture
  BY <1>9 DEF Picture
<1>12. /\ v.x = x /\ v.y = h /\ v.data = y.data /\ v.width = y.width
       /\ v.height = y.height /\ v.format = y.format
  BY <1>9 DEF Picture
<1>13. o \in Seq(Seq(Nat))
  BY <1>7 DEF Conversion
<1>14. p.yuv = v /\ p.out = o /\ p.placed = z
  BY <1>10
<1>15. p \in Conversion
  BY <1>10, <1>11, <1>13 DEF Conversion
<1>16. SameShape(c, p)
  BY <1>1, <1>12, <1>14 DEF SameShape
<1>17. o # <<>>
  <2>1. CASE \E i \in DOMAIN c.out : c.out[i] = b
    <3>1. DOMAIN c.out # {} /\ o = c.out
      BY <1>7, <2>1
    <3>2. DOMAIN <<>> = {}
      OBVIOUS
    <3> QED BY <3>1, <3>2
  <2>2. CASE ~\E i \in DOMAIN c.out : c.out[i] = b
    <3>1. PICK r \in Seq(Seq(Nat)) : r = c.out
      BY DEF Conversion
    <3>2. o = Append(r, b)
      BY <1>7, <2>2, <3>1
    <3>3. Len(o) = Len(r) + 1 /\ Len(r) \in Nat
      BY <3>1, <3>2
    <3> QED BY <3>3
  <2> QED BY <2>1, <2>2
<1>18. Ended(p)
  <2>1. y.x < y.width /\ y.y < y.height /\ c.placed = y.y * y.width + y.x
    BY <1>1 DEF Ended
  <2>2. CASE ~endOfRow
    <3>1. x = y.x + 1 /\ h = y.y /\ z = c.placed + 1 /\ x < y.width
      BY <1>2, <1>5, <1>6, <1>8, <2>2
    <3>2. y.y * y.width \in Nat
      BY <1>2
    <3>3. z = h * y.width + x
      BY <1>2, <2>1, <3>1, <3>2
    <3> QED BY <1>12, <1>14, <1>17, <2>1, <3>1, <3>3 DEF Ended
  <2>3. CASE endOfRow /\ ~last
    <3>1. x = 0 /\ h = y.y + 1 /\ z = c.placed + 1 /\ y.x + 1 = y.width /\ h < y.height
      BY <1>2, <1>5, <1>6, <1>8, <2>1, <2>3
    <3>2. h * y.width = y.y * y.width + y.width /\ y.y * y.width \in Nat
      BY <1>2, <3>1, NextProduct
    <3>3. z = h * y.width + x
      BY <1>2, <2>1, <3>1, <3>2
    <3> QED BY <1>2, <1>12, <1>14, <1>17, <2>1, <3>1, <3>3 DEF Ended
  <2>4. CASE last
    <3>1. x = 0 /\ h = 0 /\ z = 0
      BY <1>5, <1>6, <1>8, <2>4
    <3>2. z = h * y.width + x
      BY <1>2, <3>1
    <3> QED BY <1>2, <1>12, <1>14, <1>17, <3>1, <3>2 DEF Ended
  <2> QED BY <2>2, <2>3, <2>4
<1> QED BY <1>1, <1>7, <1>12, <1>14, <1>15, <1>16, <1>18

(* A converter between two writes: the data up to n are in blocks, and     *)
(* what waits is nothing or the block that was processed last; or what     *)
(* waits is the beginning of the next.                                     *)
Repeat(c) == Len(c.yuv.data) = SizeOf(c) /\ \E i \in DOMAIN c.out : c.out[i] = c.yuv.data

Whole(c, n) ==
  /\ c \in Conversion /\ Ended(c) /\ Blocked(c.out, SizeOf(c), n)
  /\ c.yuv.data = <<>> \/ Repeat(c)

Begun(c, n) ==
  /\ c \in Conversion /\ Ended(c)
  /\ \E t \in Nat : /\ Blocked(c.out, SizeOf(c), t)
                    /\ Len(c.yuv.data) > 0 /\ Len(c.yuv.data) < SizeOf(c)
                    /\ t + Len(c.yuv.data) = n
                    /\ c.yuv.data = Movie!Numbers(t, Len(c.yuv.data))

InOrder(c, n) == Whole(c, n) \/ Begun(c, n)

(* The next block, or one that is repeated.                                *)
LEMMA NextIsProcessed ==
  ASSUME NEW c, NEW n, Whole(c, n), NEW b, b = Movie!Numbers(n, SizeOf(c)),
         NEW p, p = Movie!Processed(c, b)
  PROVE  /\ Whole(p, n + SizeOf(c)) /\ SameShape(c, p)
         /\ p.yuv.data = c.yuv.data
<1>1. c \in Conversion /\ Ended(c) /\ Blocked(c.out, SizeOf(c), n)
  BY DEF Whole
<1>2. PICK unit \in Nat \ {0} : unit = SizeOf(c)
  BY <1>1, SizesAre
<1>3. b \in Seq(Nat)
  BY <1>1, <1>2, NumbersAre DEF Blocked
<1>4. /\ p \in Conversion /\ Ended(p) /\ SameShape(c, p)
      /\ p.yuv.data = c.yuv.data
      /\ p.out = IF \E i \in DOMAIN c.out : c.out[i] = b THEN c.out ELSE Append(c.out, b)
  BY <1>1, <1>3, BlockIsProcessed
<1>5. (\A i \in DOMAIN c.out : c.out[i] # b) /\ Blocked(Append(c.out, b), unit, n + unit)
  BY <1>1, <1>2, NextBlock
<1>6. p.out = Append(c.out, b)
  BY <1>4, <1>5
<1>7. SizeOf(p) = unit
  BY <1>2, <1>4 DEF SizeOf, SameShape
<1>8. c.yuv.data = <<>> \/ Repeat(c)
  BY DEF Whole
<1>9. CASE c.yuv.data = <<>>
  BY <1>2, <1>4, <1>5, <1>6, <1>7, <1>9 DEF Whole
<1>10. CASE Repeat(c)
  <2>1. PICK i \in DOMAIN c.out : c.out[i] = c.yuv.data
    BY <1>10 DEF Repeat
  <2>2. c.out \in Seq(Seq(Nat))
    BY <1>1 DEF Conversion
  <2>3. i \in DOMAIN p.out /\ p.out[i] = c.out[i]
    BY <1>3, <1>6, <2>2
  <2>4. Repeat(p)
    BY <1>2, <1>4, <1>7, <1>10, <2>1, <2>3 DEF Repeat
  <2> QED BY <1>2, <1>4, <1>5, <1>6, <1>7, <2>4 DEF Whole
<1> QED BY <1>8, <1>9, <1>10

LEMMA LastIsRepeated ==
  ASSUME NEW c, NEW n, Whole(c, n), Repeat(c), NEW p, p = Movie!Processed(c, c.yuv.data)
  PROVE  Whole(p, n) /\ SameShape(c, p)
<1>1. c \in Conversion /\ Ended(c) /\ Blocked(c.out, SizeOf(c), n)
  BY DEF Whole
<1>2. PICK b \in Seq(Nat) : b = c.yuv.data
  BY <1>1 DEF Conversion, Picture
<1>3. /\ p \in Conversion /\ Ended(p) /\ SameShape(c, p)
      /\ p.yuv.data = c.yuv.data
      /\ p.out = IF \E i \in DOMAIN c.out : c.out[i] = b THEN c.out ELSE Append(c.out, b)
  BY <1>1, <1>2, BlockIsProcessed
<1>4. p.out = c.out
  BY <1>2, <1>3 DEF Repeat
<1>5. SizeOf(p) = SizeOf(c)
  BY <1>3 DEF SizeOf, SameShape
<1> QED BY <1>1, <1>3, <1>4, <1>5 DEF Whole, Repeat
LEMMA RowUnfolded ==
  ASSUME NEW c, NEW bs, Len(bs) \in Nat
  PROVE  \E g : /\ g[0] = c
                /\ \A k \in 1 .. Len(bs) : g[k] = Movie!Processed(g[k - 1], bs[k])
                /\ Movie!AllProcessed(c, bs) = g[Len(bs)]
<1> DEFINE of == CHOOSE g : g = [n \in 0 .. Len(bs) |->
                     IF n = 0 THEN c ELSE Movie!Processed(g[n - 1], bs[n])]
<1>1. PICK g : g = [k \in 0 .. Len(bs) |->
                     IF k = 0 THEN c ELSE Movie!Processed(g[k - 1], bs[k])]
  <2>1. PICK n \in Nat : n = Len(bs)
    OBVIOUS
  <2>2. PICK g : Turns(g, "process", bs, c, n)
    BY TurnsExist
  <2> QED BY <2>1, <2>2, TurnFacts DEF Turns
<1>2. of = [k \in 0 .. Len(bs) |->
              IF k = 0 THEN c ELSE Movie!Processed(of[k - 1], bs[k])]
  BY <1>1
<1>3. Movie!AllProcessed(c, bs) = of[Len(bs)]
  BY Zenon DEF Movie!AllProcessed
<1> HIDE DEF of
<1>4. of[0] = c
  BY <1>2
<1>5. ASSUME NEW k \in 1 .. Len(bs) PROVE of[k] = Movie!Processed(of[k - 1], bs[k])
  <2>1. k \in 0 .. Len(bs) /\ k # 0
    OBVIOUS
  <2> QED BY <1>2, <2>1
<1> QED BY <1>3, <1>4, <1>5

(* What a write brings is cut into blocks; block i + 1 of them.            *)
LEMMA RowIsCut ==
  ASSUME NEW n \in Nat, NEW l \in Nat, NEW unit \in Nat \ {0},
         NEW j \in 1 .. l \div unit
  PROVE  SubSeq(Movie!Numbers(n, l), (j - 1) * unit + 1, j * unit) =
           Movie!Numbers(n + (j - 1) * unit, unit)
<1>1. PICK m \in Nat : m = l \div unit
  BY Quotients
<1>2. PICK i \in Nat : i = j - 1 /\ i + 1 = j /\ i + 1 <= m
  BY <1>1
<1>3. PICK a \in Nat : a = i * unit /\ (i + 1) * unit = a + unit
  BY NextProduct
<1>4. m * unit <= l
  BY <1>1, Quotients
<1>5. (i + 1) * unit <= m * unit
  BY <1>2, Products
<1>6. PICK b \in Nat : b = a + unit /\ b <= l
  BY <1>3, <1>4, <1>5
<1>7. PICK f \in 1 .. l + 1 : f = a + 1
  BY <1>6
<1>8. b \in f - 1 .. l /\ f - 1 = a /\ b - (f - 1) = unit
  BY <1>6, <1>7
<1>9. SubSeq(Movie!Numbers(n, l), f, b) = Movie!Numbers(n + (f - 1), b - (f - 1))
  BY <1>8, NumbersCut
<1>10. SubSeq(Movie!Numbers(n, l), f, b) = Movie!Numbers(n + a, unit)
  BY <1>8, <1>9
<1> QED BY <1>2, <1>3, <1>6, <1>7, <1>10

LEMMA RowIsProcessed ==
  ASSUME NEW c, NEW n \in Nat, Whole(c, n), NEW m \in Nat,
         NEW unit \in Nat \ {0}, SizeOf(c) = unit,
         NEW bs, Len(bs) = m,
         \A i \in 1 .. m : bs[i] = Movie!Numbers(n + (i - 1) * unit, unit),
         NEW p, p = Movie!AllProcessed(c, bs)
  PROVE  Whole(p, n + m * unit) /\ SameShape(c, p) /\ p.yuv.data = c.yuv.data
<1>1. PICK g : /\ g[0] = c
               /\ \A k \in 1 .. m : g[k] = Movie!Processed(g[k - 1], bs[k])
               /\ p = g[m]
  <2>1. PICK x : x = bs
    OBVIOUS
  <2>2. Len(x) \in Nat
    BY <2>1
  <2>3. \E g : /\ g[0] = c
               /\ \A k \in 1 .. Len(x) : g[k] = Movie!Processed(g[k - 1], x[k])
               /\ Movie!AllProcessed(c, x) = g[Len(x)]
    BY <2>2, RowUnfolded
  <2>4. p = Movie!AllProcessed(c, x) /\ Len(x) = m
    BY <2>1
  <2> QED BY <2>1, <2>3, <2>4
<1> DEFINE Good(k) == /\ Whole(g[k], n + k * unit) /\ SameShape(c, g[k])
                      /\ g[k].yuv.data = c.yuv.data
           T == {k \in Nat : k <= m => Good(k)}
<1>2. 0 \in T
  <2>1. n + 0 * unit = n
    OBVIOUS
  <2> QED BY <1>1, <2>1 DEF SameShape
<1>3. ASSUME NEW k \in Nat, k \in T
      PROVE  k + 1 \in T
  <2> SUFFICES ASSUME k + 1 <= m PROVE Good(k + 1)
    OBVIOUS
  <2>1. PICK b \in Nat : b = k * unit /\ (k + 1) * unit = b + unit
    BY NextProduct
  <2>2. PICK a \in Nat : a = n + b
    BY <2>1
  <2>3. PICK e : e = g[k]
    OBVIOUS
  <2>4. Whole(e, a) /\ SameShape(c, e) /\ e.yuv.data = c.yuv.data
    BY <1>3, <2>1, <2>2, <2>3
  <2>5. SizeOf(e) = unit
    BY <2>4 DEF SizeOf, SameShape
  <2>6. PICK j \in 1 .. m : j = k + 1 /\ j - 1 = k
    OBVIOUS
  <2>7. bs[j] = Movie!Numbers(a, unit)
    BY <2>1, <2>2, <2>6
  <2>8. PICK q : q = g[k + 1]
    OBVIOUS
  <2>9. q = Movie!Processed(e, bs[j])
    BY <1>1, <2>3, <2>6, <2>8
  <2>10. /\ Whole(q, a + unit) /\ SameShape(e, q)
         /\ q.yuv.data = e.yuv.data
    BY <2>4, <2>5, <2>7, <2>9, NextIsProcessed
  <2>11. a + unit = n + (k + 1) * unit
    BY <2>1, <2>2
  <2> QED BY <2>4, <2>8, <2>10, <2>11 DEF SameShape
<1>4. m \in T
  <2>1. T \subseteq Nat
    OBVIOUS
  <2> HIDE DEF T
  <2> QED BY <1>2, <1>3, <2>1, AllNaturals
<1>5. Good(m)
  BY <1>4
<1> QED BY <1>1, <1>5

(* The data that wait are replaced.                                        *)
Replaced(c, j, a) == a = [c EXCEPT !.yuv.data = j]

LEMMA DataReplaced ==
  ASSUME NEW c \in Conversion, NEW j \in Seq(Nat), NEW a, Replaced(c, j, a)
  PROVE  /\ a \in Conversion /\ a.yuv.data = j /\ a.out = c.out
         /\ SameShape(c, a) /\ SizeOf(a) = SizeOf(c)
         /\ Ended(c) => Ended(a)
<1>1. PICK y \in Picture : y = c.yuv
  BY DEF Conversion
<1>2. PICK v : v = [y EXCEPT !.data = j]
  OBVIOUS
<1>3. /\ v \in Picture /\ v.data = j /\ v.x = y.x /\ v.y = y.y /\ v.width = y.width
      /\ v.height = y.height /\ v.format = y.format
  BY <1>2 DEF Picture
<1>4. a = [c EXCEPT !.yuv = v]
  BY <1>1, <1>2 DEF Conversion, Replaced
<1>5. a \in Conversion /\ a.yuv = v /\ a.out = c.out /\ a.placed = c.placed
  BY <1>3, <1>4 DEF Conversion
<1>6. SameShape(c, a) /\ SizeOf(a) = SizeOf(c)
  BY <1>1, <1>3, <1>5 DEF SameShape, SizeOf
<1>7. Ended(c) => Ended(a)
  BY <1>1, <1>3, <1>5 DEF Ended
<1> QED BY <1>3, <1>5, <1>6, <1>7
(* What waits is completed, as far as the data go.                         *)
Joined(c, n, l, x, k, j, a, f) ==
  /\ x = c.yuv.data
  /\ k = IF x = <<>> THEN 0 ELSE Movie!Least(l, SizeOf(c) - Len(x))
  /\ j = x \o SubSeq(Movie!Numbers(n, l), 1, k)
  /\ Replaced(c, j, a)
  /\ f = IF Len(j) = SizeOf(c) THEN Movie!Processed(a, j) ELSE a

LEMMA WaitingIsJoined ==
  ASSUME NEW c, NEW n \in Nat, InOrder(c, n), NEW l \in Nat,
         NEW x, NEW k, NEW j, NEW a, NEW f, Joined(c, n, l, x, k, j, a, f)
  PROVE  /\ k \in 0 .. l /\ InOrder(f, n + k) /\ SameShape(c, f)
         /\ k = l \/ Whole(f, n + k)
<1> DEFINE Data == x = c.yuv.data
           Taken == k = IF x = <<>> THEN 0 ELSE Movie!Least(l, SizeOf(c) - Len(x))
           Put == j = x \o SubSeq(Movie!Numbers(n, l), 1, k)
           First == f = IF Len(j) = SizeOf(c) THEN Movie!Processed(a, j) ELSE a
<1>1. Data /\ Taken /\ Put /\ Replaced(c, j, a) /\ First
  BY DEF Joined
<1> HIDE DEF Data, Taken, Put, First
<1>2. c \in Conversion /\ Ended(c) /\ x \in Seq(Nat)
  BY <1>1 DEF InOrder, Whole, Begun, Conversion, Picture, Data
<1>3. PICK unit \in Nat \ {0} : unit = SizeOf(c)
  BY <1>2, SizesAre
<1>4. ASSUME j \in Seq(Nat)
       PROVE  /\ a \in Conversion /\ a.yuv.data = j /\ a.out = c.out
              /\ SameShape(c, a) /\ SizeOf(a) = SizeOf(c) /\ Ended(a)
  BY <1>1, <1>2, <1>4, DataReplaced
<1>5. ASSUME k \in 0 .. l
      PROVE  SubSeq(Movie!Numbers(n, l), 1, k) = Movie!Numbers(n, k)
  <2>1. PICK i \in 1 .. l + 1 : i = 1
    OBVIOUS
  <2>2. k \in i - 1 .. l /\ n + (i - 1) = n /\ k - (i - 1) = k
    BY <1>5, <2>1
  <2>3. SubSeq(Movie!Numbers(n, l), i, k) = Movie!Numbers(n + (i - 1), k - (i - 1))
    BY <2>2, NumbersCut
  <2> QED BY <2>1, <2>2, <2>3
<1>6. ASSUME k = 0 PROVE j = x
  <2>1. PICK q : q = SubSeq(Movie!Numbers(n, l), 1, k)
    OBVIOUS
  <2>2. q = Movie!Numbers(n, 0)
    BY <1>5, <1>6, <2>1
  <2>3. q \in Seq(Nat) /\ Len(q) = 0
    BY <2>2, NumbersAre
  <2>4. j = x \o q
    BY <1>1, <2>1 DEF Put
  <2>5. q = <<>>
    BY <2>3
  <2>6. x \o <<>> = x
    BY <1>2
  <2> QED BY <2>4, <2>5, <2>6
<1>7. CASE Whole(c, n) /\ x = <<>>
  <2>1. k = 0
    BY <1>1, <1>7 DEF Taken
  <2>2. j = x /\ j \in Seq(Nat) /\ Len(j) = 0
    BY <1>2, <1>6, <1>7, <2>1
  <2>3. f = a
    BY <1>1, <1>3, <2>2 DEF First
  <2>4. Whole(a, n)
    BY <1>4, <1>7, <2>2 DEF Whole
  <2>5. SameShape(c, a) /\ n + k = n /\ k \in 0 .. l
    BY <1>4, <2>1, <2>2
  <2> QED BY <2>5, <2>3, <2>4 DEF InOrder
<1>8. CASE Whole(c, n) /\ x # <<>>
  <2>1. Repeat(c)
    <3>1. c.yuv.data # <<>>
      BY <1>1, <1>8 DEF Data
    <3> QED BY <1>8, <3>1 DEF Whole
  <2>2. Len(x) = unit
    BY <1>1, <1>3, <2>1 DEF Repeat, Data
  <2>3. k = 0 /\ j = x /\ j \in Seq(Nat)
    <3>1. k = Movie!Least(l, unit - unit)
      BY <1>1, <1>3, <1>8, <2>2 DEF Taken
    <3>2. k = 0
      BY <3>1 DEF Movie!Least
    <3> QED BY <1>2, <1>6, <3>2
  <2>4. /\ a \in Conversion /\ a.yuv.data = j /\ a.out = c.out
        /\ SameShape(c, a) /\ SizeOf(a) = SizeOf(c) /\ Ended(a)
    BY <1>4, <2>3
  <2>5. Whole(a, n) /\ Repeat(a)
    BY <1>1, <1>8, <2>1, <2>3, <2>4 DEF Whole, Repeat, Data
  <2>6. f = Movie!Processed(a, a.yuv.data)
    BY <1>1, <1>3, <2>2, <2>3, <2>4 DEF First
  <2>7. Whole(f, n) /\ SameShape(a, f)
    BY <2>5, <2>6, LastIsRepeated
  <2>8. n + k = n /\ k \in 0 .. l
    BY <2>3
  <2>9. SameShape(c, f)
    BY <2>4, <2>7 DEF SameShape
  <2> QED BY <2>7, <2>8, <2>9 DEF InOrder
<1>9. CASE Begun(c, n)
  <2>1. PICK t \in Nat : /\ Blocked(c.out, unit, t)
                         /\ Len(x) > 0 /\ Len(x) < unit
                         /\ t + Len(x) = n /\ x = Movie!Numbers(t, Len(x))
    BY <1>1, <1>3, <1>9 DEF Begun, Data
  <2>2. PICK h \in Nat : h = Len(x)
    <3>1. Len(x) \in Nat
      BY <1>2
    <3> QED BY <3>1
  <2>3. x # <<>> /\ h > 0 /\ h < unit /\ t + h = n
    BY <2>1, <2>2
  <2>4. k \in 0 .. l /\ h + k <= unit /\ (h + k < unit => k = l)
    <3>1. k = Movie!Least(l, unit - h)
      BY <1>1, <1>3, <2>2, <2>3 DEF Taken
    <3> QED BY <2>3, <3>1 DEF Movie!Least
  <2>5. PICK z \in Nat : z = h + k
    BY <2>4
  <2>6. j = Movie!Numbers(t, z) /\ Len(j) = z /\ j \in Seq(Nat)
    <3>1. PICK i \in Nat : i = k
      BY <2>4
    <3>2. SubSeq(Movie!Numbers(n, l), 1, k) = Movie!Numbers(n, i)
      BY <1>5, <2>4, <3>1
    <3>3. x = Movie!Numbers(t, h) /\ n = t + h
      BY <2>1, <2>2, <2>3
    <3>4. j = Movie!Numbers(t, h) \o Movie!Numbers(t + h, i)
      BY <1>1, <3>2, <3>3 DEF Put
    <3>5. j = Movie!Numbers(t, h + i)
      BY <3>4, NumbersJoined
    <3>6. h + i = z
      BY <2>5, <3>1
    <3>7. j = Movie!Numbers(t, z)
      BY <3>5, <3>6
    <3>8. Movie!Numbers(t, z) \in Seq(Nat) /\ Len(Movie!Numbers(t, z)) = z
      BY NumbersAre
    <3> QED BY <3>7, <3>8
  <2>7. /\ a \in Conversion /\ a.yuv.data = j /\ a.out = c.out
        /\ SameShape(c, a) /\ SizeOf(a) = SizeOf(c) /\ Ended(a)
    BY <1>4, <2>6
  <2>8. n + k = t + z
    BY <2>3, <2>4, <2>5
  <2>9. CASE z < unit
    <3>1. f = a /\ k = l
      BY <1>1, <1>3, <2>4, <2>5, <2>6, <2>9 DEF First
    <3>2. Len(a.yuv.data) = z /\ a.yuv.data = Movie!Numbers(t, z) /\ SizeOf(a) = unit
      BY <1>3, <2>6, <2>7
    <3>3. z > 0 /\ t + z = n + k
      BY <2>3, <2>4, <2>5, <2>8
    <3>4. Blocked(a.out, unit, t)
      BY <2>1, <2>7
    <3>5. Begun(a, n + k)
      BY <2>7, <2>9, <3>2, <3>3, <3>4 DEF Begun
    <3> QED BY <2>4, <2>7, <3>1, <3>5 DEF InOrder
  <2>10. CASE z = unit
    <3>1. f = Movie!Processed(a, j)
      BY <1>1, <1>3, <2>6, <2>10 DEF First
    <3>2. /\ f \in Conversion /\ Ended(f) /\ SameShape(a, f)
          /\ f.yuv.data = j
          /\ f.out = IF \E i \in DOMAIN a.out : a.out[i] = j THEN a.out ELSE Append(a.out, j)
      BY <2>6, <2>7, <3>1, BlockIsProcessed
    <3>3. j = Movie!Numbers(t, unit)
      BY <2>6, <2>10
    <3>4. /\ \A i \in DOMAIN c.out : c.out[i] # j
          /\ Blocked(Append(c.out, j), unit, t + unit)
      BY <2>1, <3>3, NextBlock
    <3>5. f.out = Append(c.out, j)
      BY <2>7, <3>2, <3>4
    <3>6. SizeOf(f) = unit
      BY <1>3, <2>7, <3>2 DEF SizeOf, SameShape
    <3>7. Repeat(f)
      <4>1. PICK o \in Seq(Seq(Nat)) : o = c.out
        BY <1>2 DEF Conversion
      <4>2. f.out = Append(o, j)
        BY <3>5, <4>1
      <4>3. Len(o) + 1 \in DOMAIN f.out /\ f.out[Len(o) + 1] = j
        BY <2>6, <4>2
      <4> QED BY <2>6, <2>10, <3>2, <3>6, <4>3 DEF Repeat
    <3>8. Whole(f, n + k)
      BY <2>8, <2>10, <3>2, <3>4, <3>5, <3>6, <3>7 DEF Whole
    <3>9. SameShape(c, f)
      BY <2>7, <3>2 DEF SameShape
    <3> QED BY <2>4, <3>8, <3>9 DEF InOrder
  <2> QED BY <2>4, <2>5, <2>9, <2>10
<1> QED BY <1>7, <1>8, <1>9 DEF InOrder
(* A write carries the picture on.                                         *)
Rest(n, l, k, r) == r = SubSeq(Movie!Numbers(n, l), k + 1, Len(Movie!Numbers(n, l)))
Row(r, unit, bs) ==
  bs = [i \in 1 .. Len(r) \div unit |-> SubSeq(r, (i - 1) * unit + 1, i * unit)]
Left(r, bs, unit, left) == left = SubSeq(r, Len(bs) * unit + 1, Len(r))

CutUp(n, l, unit, bs, left, m, h) ==
  /\ m = l \div unit /\ h < unit /\ m * unit \in Nat /\ m * unit + h = l
  /\ Len(bs) = m
  /\ \A i \in 1 .. m : bs[i] = Movie!Numbers(n + (i - 1) * unit, unit)
  /\ left = Movie!Numbers(n + m * unit, h)

LEMMA RestIs ==
  ASSUME NEW n \in Nat, NEW l \in Nat, NEW k \in 0 .. l, NEW r, Rest(n, l, k, r)
  PROVE  r = Movie!Numbers(n + k, l - k)
<1>1. PICK p : p = Movie!Numbers(n, l)
  OBVIOUS
<1>2. Len(p) = l
  BY <1>1, NumbersAre
<1>3. PICK i \in 1 .. l + 1 : i = k + 1
  OBVIOUS
<1>4. l \in i - 1 .. l /\ i - 1 = k
  BY <1>3
<1>5. SubSeq(Movie!Numbers(n, l), i, l) = Movie!Numbers(n + (i - 1), l - (i - 1))
  BY <1>4, NumbersCut
<1>6. r = SubSeq(p, k + 1, l)
  BY <1>1, <1>2 DEF Rest
<1> QED BY <1>1, <1>3, <1>4, <1>5, <1>6

LEMMA RowAndLeft ==
  ASSUME NEW n \in Nat, NEW l \in Nat, NEW unit \in Nat \ {0},
         NEW r, r = Movie!Numbers(n, l), NEW bs, Row(r, unit, bs),
         NEW left, Left(r, bs, unit, left)
  PROVE  \E m \in Nat, h \in Nat : CutUp(n, l, unit, bs, left, m, h)
<1>1. PICK m \in Nat : m = l \div unit
  BY Quotients
<1>2. PICK b \in Nat : b = m * unit /\ b <= l /\ l < b + unit
  BY <1>1, Quotients
<1>3. PICK h \in Nat : h = l - b /\ h < unit
  BY <1>2
<1>4. PICK q : q = r
  OBVIOUS
<1>5. Len(q) = l
  BY <1>4, NumbersAre
<1>6. bs = [i \in 1 .. m |-> SubSeq(q, (i - 1) * unit + 1, i * unit)]
  BY <1>1, <1>4, <1>5 DEF Row
<1>7. Len(bs) = m
  BY <1>6
<1>8. ASSUME NEW i \in 1 .. m PROVE bs[i] = Movie!Numbers(n + (i - 1) * unit, unit)
  <2>1. bs[i] = SubSeq(q, (i - 1) * unit + 1, i * unit)
    BY <1>6
  <2>2. i \in 1 .. l \div unit
    BY <1>1
  <2>3. SubSeq(Movie!Numbers(n, l), (i - 1) * unit + 1, i * unit) =
          Movie!Numbers(n + (i - 1) * unit, unit)
    BY <2>2, RowIsCut
  <2> QED BY <1>4, <2>1, <2>3
<1>9. left = Movie!Numbers(n + b, h)
  <2>1. left = SubSeq(q, b + 1, l)
    BY <1>2, <1>4, <1>5, <1>7 DEF Left
  <2>2. PICK i \in 1 .. l + 1 : i = b + 1
    BY <1>2
  <2>3. l \in i - 1 .. l /\ i - 1 = b /\ l - (i - 1) = h
    BY <1>2, <1>3, <2>2
  <2>4. SubSeq(Movie!Numbers(n, l), i, l) = Movie!Numbers(n + (i - 1), l - (i - 1))
    BY <2>3, NumbersCut
  <2> QED BY <1>4, <2>1, <2>2, <2>3, <2>4
<1>10. left = Movie!Numbers(n + m * unit, h)
  BY <1>2, <1>9
<1>11. m * unit \in Nat /\ m * unit + h = l
  BY <1>2, <1>3
<1>12. CutUp(n, l, unit, bs, left, m, h)
  BY <1>1, <1>3, <1>7, <1>8, <1>10, <1>11 DEF CutUp
<1> QED BY <1>12

LEMMA WriteIsInOrder ==
  ASSUME NEW c, NEW n \in Nat, InOrder(c, n), NEW l \in Nat,
         NEW w, w = Movie!Written(c, Movie!Numbers(n, l))
  PROVE  InOrder(w, n + l) /\ SameShape(c, w)
<1> DEFINE s == Movie!Numbers(n, l)
           big == BlockSize[c.yuv.format]
           k == IF c.yuv.data = <<>> THEN 0
                ELSE Movie!Least(Len(s), big - Len(c.yuv.data))
           j == c.yuv.data \o SubSeq(s, 1, k)
           a == [c EXCEPT !.yuv.data = j]
           f == IF Len(j) = big THEN Movie!Processed(a, j) ELSE a
           r == SubSeq(s, k + 1, Len(s))
           bs == [i \in 1 .. Len(r) \div big |-> SubSeq(r, (i - 1) * big + 1, i * big)]
           e == Movie!AllProcessed(f, bs)
           left == SubSeq(r, Len(bs) * big + 1, Len(r))
<1>1. w = IF left = <<>> THEN e ELSE [e EXCEPT !.yuv.data = left]
  BY Zenon DEF Movie!Written
<1>2. Joined(c, n, l, c.yuv.data, k, j, a, f)
  <2>1. Len(s) = l
    BY NumbersAre
  <2>2. k = IF c.yuv.data = <<>> THEN 0 ELSE Movie!Least(l, big - Len(c.yuv.data))
    BY <2>1
  <2> HIDE DEF k
  <2> QED BY <2>2 DEF Joined, SizeOf, Replaced
<1>3. Rest(n, l, k, r) /\ Row(r, big, bs) /\ Left(r, bs, big, left)
  <2>1. Rest(n, l, k, r)
    BY Zenon DEF Rest
  <2>2. Row(r, big, bs)
    BY Zenon DEF Row
  <2>3. Left(r, bs, big, left)
    BY Zenon DEF Left
  <2> QED BY <2>1, <2>2, <2>3
<1>4. big = SizeOf(c)
  BY DEF SizeOf
<1> HIDE DEF s, big, k, j, a, f, r, bs, left
<1>5. PICK x : x = c.yuv.data
  OBVIOUS
<1>6. /\ k \in 0 .. l /\ InOrder(f, n + k) /\ SameShape(c, f)
      /\ k = l \/ Whole(f, n + k)
  <2>1. Joined(c, n, l, x, k, j, a, f)
    BY <1>2, <1>5
  <2> QED BY <2>1, WaitingIsJoined
<1>7. c \in Conversion
  BY DEF InOrder, Whole, Begun
<1>8. PICK unit \in Nat \ {0} : unit = big
  BY <1>4, <1>7, SizesAre
<1>9. SizeOf(f) = unit
  BY <1>4, <1>6, <1>8 DEF SizeOf, SameShape
<1>10. PICK o \in Nat, z \in Nat : o = n + k /\ z = l - k /\ o + z = n + l
  BY <1>6
<1>11. r = Movie!Numbers(o, z)
  BY <1>3, <1>6, <1>10, RestIs
<1>12. PICK m \in Nat, h \in Nat : CutUp(o, z, unit, bs, left, m, h)
  <2>1. Row(r, unit, bs) /\ Left(r, bs, unit, left)
    BY <1>3, <1>8
  <2>2. PICK q : q = r
    OBVIOUS
  <2>3. q = Movie!Numbers(o, z) /\ Row(q, unit, bs) /\ Left(q, bs, unit, left)
    BY <1>11, <2>1, <2>2
  <2> QED BY <2>3, RowAndLeft
<1>13. PICK v \in Nat : v = m * unit /\ v + h = z /\ h < unit
  BY <1>12 DEF CutUp
<1>14. Len(bs) = m /\ left = Movie!Numbers(o + v, h)
  BY <1>12, <1>13 DEF CutUp
<1>15. \A i \in 1 .. m : bs[i] = Movie!Numbers(o + (i - 1) * unit, unit)
  BY <1>12 DEF CutUp
<1>16. PICK b \in Nat : b = o + v /\ b + h = n + l
  BY <1>10, <1>13
<1>17. left \in Seq(Nat) /\ Len(left) = h /\ left = Movie!Numbers(b, h)
  <2>1. left = Movie!Numbers(b, h)
    BY <1>16, <1>14
  <2>2. Movie!Numbers(b, h) \in Seq(Nat) /\ Len(Movie!Numbers(b, h)) = h
    BY NumbersAre
  <2> QED BY <2>1, <2>2
<1>18. CASE Whole(f, o)
  <2>1. Whole(e, b) /\ SameShape(f, e)
    <3>1. Whole(e, o + m * unit) /\ SameShape(f, e)
      BY <1>9, <1>18, <1>14, <1>15, RowIsProcessed
    <3> HIDE DEF e
    <3> QED BY <1>16, <1>13, <3>1
  <2>2. SameShape(c, e) /\ SizeOf(e) = unit
    BY <1>6, <1>9, <2>1 DEF SameShape, SizeOf
  <2> HIDE DEF e
  <2>3. CASE left = <<>>
    <3>1. w = e
      BY <1>1, <2>3
    <3>2. b = n + l
      BY <1>16, <1>17, <2>3
    <3> QED BY <2>1, <2>2, <3>1, <3>2 DEF InOrder
  <2>4. CASE left # <<>>
    <3>1. Replaced(e, left, w)
      BY <1>1, <2>4 DEF Replaced
    <3>2. e \in Conversion /\ Ended(e) /\ Blocked(e.out, unit, b)
      BY <2>1, <2>2 DEF Whole
    <3>3. /\ w \in Conversion /\ w.yuv.data = left /\ w.out = e.out
          /\ SameShape(e, w) /\ SizeOf(w) = SizeOf(e) /\ Ended(w)
      BY <1>17, <3>1, <3>2, DataReplaced
    <3>4. h > 0
      BY <1>17, <2>4
    <3>5. Begun(w, n + l)
      BY <1>16, <1>17, <1>13, <2>2, <3>2, <3>3, <3>4 DEF Begun
    <3>6. SameShape(c, w)
      BY <2>2, <3>3 DEF SameShape
    <3> QED BY <3>5, <3>6 DEF InOrder
  <2> QED BY <2>3, <2>4
<1>19. CASE k = l
  <2>1. z = 0 /\ o = n + l
    BY <1>6, <1>10, <1>19
  <2>2. m = 0 /\ h = 0
    <3>1. m = 0 \div unit
      BY <1>12, <2>1 DEF CutUp
    <3> QED BY <1>13, <2>1, <3>1
  <2>3. left = <<>> /\ Len(bs) = 0
    BY <1>17, <1>14, <2>2
  <2>4. e = f
    <3>1. \E g : /\ g[0] = f
                 /\ \A i \in 1 .. Len(bs) : g[i] = Movie!Processed(g[i - 1], bs[i])
                 /\ Movie!AllProcessed(f, bs) = g[Len(bs)]
      <4>1. Len(bs) \in Nat
        BY <2>3
      <4> QED BY <4>1, RowUnfolded, ZenonT(60)
    <3> QED BY <2>3, <3>1
  <2> HIDE DEF e
  <2>5. w = f
    BY <1>1, <2>3, <2>4
  <2> QED BY <1>6, <1>10, <2>1, <2>5
<1> QED BY <1>6, <1>10, <1>18, <1>19
-----------------------------------------------------------------------------
(* The channel of the SH4's DMA controller.                                *)
ChannelOf == [from : Nat, count : Nat, size : Sizes, de : BOOLEAN, te : BOOLEAN,
              ie : BOOLEAN]

LEMMA ChannelFields ==
  ASSUME NEW ch \in ChannelOf
  PROVE  /\ ch.from \in Nat /\ ch.count \in Nat /\ ch.size \in Nat \ {0}
         /\ ch.te \in BOOLEAN /\ ch.ie \in BOOLEAN /\ ch.de \in BOOLEAN
         /\ Movie!Remaining(ch) \in Nat \ {0}
<1>1. /\ ch.from \in Nat /\ ch.count \in Nat /\ ch.size \in Sizes
      /\ ch.te \in BOOLEAN /\ ch.ie \in BOOLEAN /\ ch.de \in BOOLEAN
  BY DEF ChannelOf
<1>2. \A z \in Sizes : z \in Nat \ {0}
  BY OtherConstants DEF Movie!SizeAssumption
<1>3. BIG \in Nat \ {0}
  BY OtherConstants DEF Movie!SizeAssumption
<1> QED BY <1>1, <1>2, <1>3 DEF Movie!Remaining

LEMMA Factor ==
  ASSUME NEW m \in Nat, NEW z \in Nat \ {0}, NEW k, k = z * m
  PROVE  k \in Nat /\ k \div z = m
<1>1. PICK h \in Nat : h = z * m /\ h = m * z
  OBVIOUS
<1>2. PICK q \in Nat : q = h \div z /\ q * z <= h /\ h < q * z + z
  BY Quotients
<1>3. q * z \in Nat /\ (q + 1) * z = q * z + z /\ m * z \in Nat /\ (m + 1) * z = m * z + z
  BY NextProduct
<1>4. ~(q + 1 <= m)
  <2>1. q + 1 <= m => (q + 1) * z <= m * z
    BY Products
  <2> QED BY <1>1, <1>2, <1>3, <2>1
<1>5. ~(m + 1 <= q)
  <2>1. m + 1 <= q => (m + 1) * z <= q * z
    BY Products
  <2> QED BY <1>1, <1>2, <1>3, <2>1
<1>6. q = m
  BY <1>4, <1>5
<1> QED BY <1>1, <1>2, <1>6

(* The channel gives whole transfers, no more than it has.                 *)
LEMMA GivenIs ==
  ASSUME NEW ch \in ChannelOf, NEW n \in Nat, NEW k, k = Movie!Given(ch, n)
  PROVE  \/ k = 0
         \/ /\ ~ch.te
            /\ \E m \in Nat : 0 < m /\ m <= Movie!Remaining(ch) /\ k = ch.size * m
<1>1. PICK z \in Nat \ {0}, r \in Nat \ {0} : z = ch.size /\ r = Movie!Remaining(ch)
  BY ChannelFields
<1>2. PICK q \in Nat : q = n \div z
  BY Quotients
<1>3. PICK m \in Nat : m = (IF q > r \/ q = 0 THEN r ELSE q) /\ 0 < m /\ m <= r
  OBVIOUS
<1>4. k = IF ~able \/ ~ch.de \/ ch.te THEN 0 ELSE z * m
  <2>1. m = IF q > r \/ q = 0 THEN r ELSE q
    BY <1>3
  <2> QED BY <1>1, <1>2, <2>1 DEF Movie!Given
<1> QED BY <1>1, <1>3, <1>4

LEMMA ChannelAdvances ==
  ASSUME NEW ch \in ChannelOf, NEW n \in Nat, NEW k, k = Movie!Given(ch, n),
         NEW p, p = Movie!Advanced(ch, k)
  PROVE  /\ k \in Nat /\ p \in ChannelOf /\ p.from = ch.from + k
         /\ Movie!End(p) = Movie!End(ch)
         /\ p.ie = ch.ie /\ (ch.te => p.te)
<1>1. /\ ch.from \in Nat /\ ch.count \in Nat /\ ch.size \in Nat \ {0}
      /\ ch.te \in BOOLEAN /\ ch.ie \in BOOLEAN
  BY ChannelFields
<1>2. CASE k = 0
  <2>1. p = ch
    BY <1>2 DEF Movie!Advanced
  <2> QED BY <1>1, <1>2, <2>1
<1>3. CASE k # 0
  <2>1. PICK z \in Nat \ {0}, r \in Nat \ {0} : z = ch.size /\ r = Movie!Remaining(ch)
    BY ChannelFields
  <2>2. PICK m \in Nat : 0 < m /\ m <= r /\ k = z * m /\ ~ch.te
    BY <1>3, <2>1, GivenIs
  <2>3. k \in Nat /\ k \div z = m
    BY <2>2, Factor
  <2>4. PICK t \in Nat : t = r - m
    BY <2>1, <2>2
  <2>5. PICK f \in Nat : f = ch.from + k
    BY <1>1, <2>3
  <2>6. PICK e \in BOOLEAN : e = (t = 0)
    OBVIOUS
  <2>7. p = [ch EXCEPT !.from = f, !.count = t, !.te = e]
    <3>1. t = Movie!Remaining(ch) - k \div ch.size
      BY <2>1, <2>3, <2>4
    <3>2. f = ch.from + k /\ e = (t = 0)
      BY <2>5, <2>6
    <3> QED BY <1>3, <3>1, <3>2, Zenon DEF Movie!Advanced
  <2>8. p \in ChannelOf
    BY <2>7 DEF ChannelOf
  <2>9. p.from = f /\ p.count = t /\ p.te = e /\ p.ie = ch.ie /\ p.size = z
    BY <2>1, <2>7 DEF ChannelOf
  <2>10. PICK g \in Nat : g = z * t
    OBVIOUS
  <2>11. Movie!End(ch) = f + g
    <3>1. Movie!End(ch) = ch.from + z * r
      BY <2>1, <2>2 DEF Movie!End
    <3>2. z * r = z * m + z * t
      BY <2>4
    <3>3. z * r = k + g
      BY <2>2, <2>10, <3>2
    <3> QED BY <1>1, <2>3, <2>5, <3>1, <3>3
  <2>12. Movie!End(p) = f + g
    <3>1. CASE t = 0
      <4>1. g = 0
        BY <2>10, <3>1
      <4>2. e
        BY <2>6, <3>1
      <4>3. p.te
        BY <2>9, <4>2
      <4> QED BY <2>9, <4>1, <4>3 DEF Movie!End
    <3>2. CASE t # 0
      <4>1. ~p.te /\ Movie!Remaining(p) = t
        BY <2>6, <2>9, <3>2 DEF Movie!Remaining
      <4> QED BY <2>9, <2>10, <4>1 DEF Movie!End
    <3> QED BY <3>1, <3>2
  <2> QED BY <2>2, <2>3, <2>5, <2>8, <2>9, <2>11, <2>12
<1> QED BY <1>2, <1>3

(* The loop of pvr_dma_transfer, from a channel set to where the picture   *)
(* goes on.                                                                *)
Loop(s, ch) ==
  /\ s.chan \in ChannelOf /\ s.sent \in Nat /\ s.chan.from = s.sent
  /\ InOrder(s.conv, s.sent)
  /\ Movie!End(s.chan) = Movie!End(ch)
  /\ s.chan.ie = ch.ie /\ (ch.te => s.chan.te)

LEMMA ChunkIsTaken ==
  ASSUME NEW s, NEW ch, Loop(s, ch), NEW n \in Nat, NEW p, p = Movie!Chunk(s, n)
  PROVE  Loop(p, ch)
<1>1. CASE s.short
  BY <1>1 DEF Movie!Chunk
<1>2. CASE ~s.short
  <2>1. PICK k : k = Movie!Given(s.chan, n)
    OBVIOUS
  <2>2. PICK a : a = Movie!Advanced(s.chan, k)
    OBVIOUS
  <2>3. PICK e : e = s.chan
    OBVIOUS
  <2>4. /\ e \in ChannelOf /\ s.sent \in Nat /\ e.from = s.sent /\ InOrder(s.conv, s.sent)
        /\ Movie!End(e) = Movie!End(ch) /\ e.ie = ch.ie /\ (ch.te => e.te)
    BY <2>3 DEF Loop
  <2>5. /\ k \in Nat /\ a \in ChannelOf /\ a.from = e.from + k
        /\ Movie!End(a) = Movie!End(e)
        /\ a.ie = e.ie /\ (e.te => a.te)
    <3>1. k = Movie!Given(e, n) /\ a = Movie!Advanced(e, k) /\ e \in ChannelOf
      BY <2>1, <2>2, <2>3, <2>4
    <3> QED BY <3>1, ChannelAdvances
  <2>6. PICK v \in Nat : v = s.sent
    BY <2>4
  <2>7. PICK w : w = Movie!Written(s.conv, Movie!Numbers(v, k))
    OBVIOUS
  <2>8. InOrder(w, v + k)
    BY <2>4, <2>5, <2>6, <2>7, WriteIsInOrder
  <2>9. PICK o : o = v + k
    OBVIOUS
  <2>10. PICK h : h = (k # n)
    OBVIOUS
  <2>11. p = [chan |-> a, conv |-> w, sent |-> o, short |-> h]
    <3>1. s.chan.from = v
      BY <2>3, <2>4, <2>6
    <3>2. w = Movie!Written(s.conv, Movie!Numbers(s.chan.from, k))
      BY <2>7, <3>1
    <3>3. o = s.sent + k
      BY <2>6, <2>9
    <3> QED BY <1>2, <2>1, <2>2, <2>10, <3>2, <3>3, Zenon DEF Movie!Chunk
  <2>12. o \in Nat /\ a.from = o
    BY <2>4, <2>5, <2>6, <2>9
  <2> QED BY <2>4, <2>5, <2>8, <2>9, <2>11, <2>12 DEF Loop
<1> QED BY <1>1, <1>2

LEMMA ChunksAre ==
  ASSUME NEW n \in Nat
  PROVE  /\ Len(Movie!Chunks(n)) \in Nat
         /\ \A i \in 1 .. Len(Movie!Chunks(n)) : Movie!Chunks(n)[i] \in Nat
<1>1. PICK z \in Nat \ {0} : z = CHUNK
  BY OtherConstants DEF Movie!SizeAssumption
<1>2. PICK q \in Nat : q = (n + z - 1) \div z /\ q * z <= n + z - 1
  <2>1. PICK l \in Nat : l = n + z - 1
    OBVIOUS
  <2> QED BY <2>1, Quotients
<1>3. PICK cs : cs = Movie!Chunks(n)
  OBVIOUS
<1>4. cs = [i \in 1 .. q |-> Movie!Least(z, n - (i - 1) * z)]
  BY <1>1, <1>2, <1>3 DEF Movie!Chunks
<1>5. Len(cs) = q
  BY <1>4
<1>6. ASSUME NEW i \in 1 .. q PROVE cs[i] \in Nat
  <2>1. PICK j \in Nat : j = i - 1 /\ j + 1 <= q
    OBVIOUS
  <2>2. PICK a \in Nat : a = j * z /\ (j + 1) * z = a + z
    BY NextProduct
  <2>3. (j + 1) * z <= q * z /\ q * z \in Nat
    BY <2>1, Products
  <2>4. n - a \in Nat
    BY <1>2, <2>2, <2>3
  <2>5. cs[i] = Movie!Least(z, n - a)
    BY <1>4, <2>1, <2>2
  <2> QED BY <2>4, <2>5 DEF Movie!Least
<1> QED BY <1>3, <1>5, <1>6

LEMMA LoopUnfolded ==
  ASSUME NEW s, NEW cs, Len(cs) \in Nat
  PROVE  \E g : /\ g[0] = s
                /\ \A k \in 1 .. Len(cs) : g[k] = Movie!Chunk(g[k - 1], cs[k])
                /\ Movie!Transferred(s, cs) = g[Len(cs)]
<1> DEFINE of == CHOOSE g : g = [i \in 0 .. Len(cs) |->
                     IF i = 0 THEN s ELSE Movie!Chunk(g[i - 1], cs[i])]
<1>1. PICK g : g = [k \in 0 .. Len(cs) |->
                     IF k = 0 THEN s ELSE Movie!Chunk(g[k - 1], cs[k])]
  <2>1. PICK n \in Nat : n = Len(cs)
    OBVIOUS
  <2>2. PICK g : Turns(g, "chunk", cs, s, n)
    BY TurnsExist
  <2> QED BY <2>1, <2>2, TurnFacts DEF Turns
<1>2. of = [k \in 0 .. Len(cs) |->
              IF k = 0 THEN s ELSE Movie!Chunk(of[k - 1], cs[k])]
  BY <1>1
<1>3. Movie!Transferred(s, cs) = of[Len(cs)]
  BY Zenon DEF Movie!Transferred
<1> HIDE DEF of
<1>4. of[0] = s
  BY <1>2
<1>5. ASSUME NEW k \in 1 .. Len(cs) PROVE of[k] = Movie!Chunk(of[k - 1], cs[k])
  <2>1. k \in 0 .. Len(cs) /\ k # 0
    OBVIOUS
  <2> QED BY <1>2, <2>1
<1> QED BY <1>3, <1>4, <1>5

LEMMA TransferIsInOrder ==
  ASSUME NEW s, NEW ch, Loop(s, ch), NEW n \in Nat,
         NEW p, p = Movie!Transferred(s, Movie!Chunks(n))
  PROVE  Loop(p, ch)
<1>1. PICK cs : cs = Movie!Chunks(n)
  OBVIOUS
<1>2. Len(cs) \in Nat /\ \A i \in 1 .. Len(cs) : cs[i] \in Nat
  BY <1>1, ChunksAre
<1>3. PICK g : /\ g[0] = s
               /\ \A k \in 1 .. Len(cs) : g[k] = Movie!Chunk(g[k - 1], cs[k])
               /\ Movie!Transferred(s, cs) = g[Len(cs)]
  BY <1>2, LoopUnfolded, ZenonT(60)
<1>4. PICK m \in Nat : m = Len(cs)
  BY <1>2
<1> DEFINE Good(k) == Loop(g[k], ch)
           T == {k \in Nat : k <= m => Good(k)}
<1>5. 0 \in T
  BY <1>3
<1>6. ASSUME NEW k \in Nat, k \in T
      PROVE  k + 1 \in T
  <2> SUFFICES ASSUME k + 1 <= m PROVE Good(k + 1)
    OBVIOUS
  <2>1. PICK j \in 1 .. m : j = k + 1 /\ j - 1 = k
    OBVIOUS
  <2>2. PICK e : e = g[k]
    OBVIOUS
  <2>3. PICK h \in Nat : h = cs[j]
    BY <1>2, <1>4, <2>1
  <2>4. PICK q : q = g[k + 1]
    OBVIOUS
  <2>5. q = Movie!Chunk(e, h)
    BY <1>3, <1>4, <2>1, <2>2, <2>3, <2>4
  <2>6. Loop(e, ch)
    BY <1>6, <2>2
  <2>7. Loop(q, ch)
    BY <2>5, <2>6, ChunkIsTaken
  <2> QED BY <2>4, <2>7
<1>7. m \in T
  <2>1. T \subseteq Nat
    OBVIOUS
  <2> HIDE DEF T
  <2> QED BY <1>5, <1>6, <2>1, AllNaturals
<1>8. Good(m)
  BY <1>7
<1> QED BY <1>1, <1>3, <1>4, <1>8
-----------------------------------------------------------------------------
(* The picture on its way: what the converter has got and where the        *)
(* channel stands.                                                         *)
MovieInv ==
  /\ chan \in ChannelOf /\ sent \in Nat
  /\ InOrder(Movie!Converter, sent)
  /\ Movie!ChannelExact

LEMMA ConverterIs ==
  /\ Movie!Converter.yuv = yuv /\ Movie!Converter.out = out
  /\ Movie!Converter.placed = placed
BY DEF Movie!Converter

LEMMA ConverterIsSet ==
  ASSUME NEW c \in Conversion, yuv' = c.yuv, out' = c.out, placed' = c.placed
  PROVE  Movie!Converter' = c
BY DEF Movie!Converter, Conversion

(* No datum, no block.                                                     *)
LEMMA NothingSent ==
  ASSUME NEW c, InOrder(c, 0)
  PROVE  /\ c \in Conversion
         /\ c.yuv.data = <<>> /\ c.out = <<>> /\ c.placed = 0
         /\ c.yuv.x = 0 /\ c.yuv.y = 0
<1>1. c \in Conversion /\ Ended(c)
  BY DEF InOrder, Whole, Begun
<1>2. PICK unit \in Nat \ {0} : unit = SizeOf(c)
  BY <1>1, SizesAre
<1>3. PICK o \in Seq(Seq(Nat)) : o = c.out
  BY <1>1 DEF Conversion
<1>4. Whole(c, 0)
  <2>1. ~Begun(c, 0)
    <3> SUFFICES ASSUME Begun(c, 0) PROVE FALSE
      OBVIOUS
    <3>1. PICK l \in Nat : l = Len(c.yuv.data)
      BY <1>1 DEF Conversion, Picture
    <3> QED BY <3>1 DEF Begun
  <2> QED BY <2>1 DEF InOrder
<1>5. o = <<>>
  <2>1. PICK l \in Nat : l = Len(o) /\ l * unit = 0
    BY <1>2, <1>3, <1>4 DEF Whole, Blocked
  <2>2. 1 <= l => 1 * unit <= l * unit
    BY Products
  <2>3. l = 0
    BY <2>1, <2>2
  <2>4. o \in Seq(Seq(Nat)) /\ Len(o) = 0
    BY <2>1, <2>3
  <2> QED BY <2>4
<1>6. ~Repeat(c)
  BY <1>3, <1>5 DEF Repeat
<1>7. c.yuv.data = <<>>
  BY <1>4, <1>6 DEF Whole
<1>8. c.placed = 0
  BY <1>1, <1>3, <1>5 DEF Ended
<1>9. PICK x \in Nat, y \in Nat, w \in Nat \ {0} :
        x = c.yuv.x /\ y = c.yuv.y /\ w = c.yuv.width
  BY <1>1 DEF Conversion, Picture
<1>10. y * w \in Nat /\ y * w + x = 0
  BY <1>1, <1>8, <1>9 DEF Ended
<1>11. x = 0 /\ y * w = 0
  BY <1>10
<1>12. y = 0
  <2>1. 1 <= y => 1 * w <= y * w
    BY Products
  <2> QED BY <1>9, <1>11, <2>1
<1> QED BY <1>1, <1>3, <1>5, <1>7, <1>8, <1>9, <1>11, <1>12

(* A picture begins.                                                       *)
LEMMA PictureBegins ==
  ASSUME NEW c \in Conversion, c.yuv.data = <<>>, c.out = <<>>, c.placed = 0,
         c.yuv.x = 0, c.yuv.y = 0
  PROVE  InOrder(c, 0)
<1>1. PICK unit \in Nat \ {0} : unit = SizeOf(c)
  BY SizesAre
<1>2. PICK w \in Nat \ {0} : w = c.yuv.width
  BY DEF Conversion, Picture
<1>3. c.yuv.height \in Nat \ {0}
  BY DEF Conversion, Picture
<1>4. 0 * w + 0 = 0
  OBVIOUS
<1>5. Ended(c)
  BY <1>2, <1>3, <1>4 DEF Ended
<1>6. Blocked(c.out, unit, 0)
  <2>1. Len(<<>>) = 0 /\ <<>> \in Seq(Seq(Nat))
    OBVIOUS
  <2>2. 0 * unit = 0
    OBVIOUS
  <2> QED BY <2>1, <2>2 DEF Blocked
<1> QED BY <1>1, <1>5, <1>6 DEF Whole, InOrder

LEMMA NewIsInOrder ==
  ASSUME NEW c, c = [yuv |-> Movie!NewPicture, out |-> <<>>, placed |-> 0]
  PROVE  InOrder(c, 0) /\ c \in Conversion
<1>1. YUV420 \in Format
  BY OtherConstants DEF Movie!SizeAssumption
<1>2. PICK y : y = Movie!NewPicture
  OBVIOUS
<1>3. y \in Picture /\ y.data = <<>> /\ y.x = 0 /\ y.y = 0
  BY <1>1, <1>2 DEF Movie!NewPicture, Picture
<1>4. <<>> \in Seq(Seq(Nat))
  OBVIOUS
<1>5. c = [yuv |-> y, out |-> <<>>, placed |-> 0]
  BY <1>2
<1>6. c \in Conversion /\ c.yuv = y /\ c.out = <<>> /\ c.placed = 0
  BY <1>3, <1>4, <1>5 DEF Conversion
<1> QED BY <1>3, <1>6, PictureBegins

(* What is claimed of data and blocks.                                     *)
LEMMA InOrderMeans ==
  ASSUME sent \in Nat, InOrder(Movie!Converter, sent)
  PROVE  Movie!PictureInOrder
<1>1. PICK c : c = Movie!Converter
  OBVIOUS
<1>2. InOrder(c, sent) /\ c.yuv = yuv /\ c.out = out
  BY <1>1, ConverterIs
<1>3. c \in Conversion
  BY <1>2 DEF InOrder, Whole, Begun
<1>4. PICK unit \in Nat \ {0} : unit = SizeOf(c)
  BY <1>3, SizesAre
<1>5. unit = BlockSize[yuv.format]
  BY <1>2, <1>4 DEF SizeOf
<1>6. PICK l \in Nat : l = Len(yuv.data)
  BY <1>2, <1>3 DEF Conversion, Picture
<1>7. CASE Whole(c, sent)
  <2>1. Blocked(out, unit, sent)
    BY <1>2, <1>4, <1>7 DEF Whole
  <2>2. yuv.data = <<>> \/ Movie!Stale
    BY <1>2, <1>4, <1>5, <1>7 DEF Whole, Repeat, Movie!Stale
  <2>3. Movie!Waiting = 0
    BY <2>2 DEF Movie!Waiting
  <2>4. ~Movie!Stale => yuv.data = Movie!Numbers(sent - Movie!Waiting, Movie!Waiting)
    <3>1. PICK v : v = Movie!Numbers(sent, 0)
      OBVIOUS
    <3>2. v \in Seq(Nat) /\ Len(v) = 0
      BY <3>1, NumbersAre
    <3>3. v = <<>> /\ sent - 0 = sent
      BY <3>2
    <3> QED BY <2>2, <2>3, <3>1, <3>3
  <2> QED BY <1>5, <2>1, <2>3, <2>4 DEF Blocked, Movie!PictureInOrder
<1>8. CASE Begun(c, sent)
  <2>1. PICK t \in Nat : /\ Blocked(out, unit, t) /\ l < unit /\ t + l = sent
                         /\ yuv.data = Movie!Numbers(t, l)
    BY <1>2, <1>4, <1>6, <1>8 DEF Begun
  <2>2. ~Movie!Stale /\ Movie!Waiting = l
    BY <1>5, <1>6, <2>1 DEF Movie!Stale, Movie!Waiting
  <2>3. yuv.data = Movie!Numbers(sent - Movie!Waiting, Movie!Waiting)
    <3>1. sent - l = t
      BY <2>1
    <3> QED BY <2>1, <2>2, <3>1
  <2>4. Len(out) * unit + Movie!Waiting = sent
    <3>1. Len(out) * unit = t
      BY <2>1 DEF Blocked
    <3> QED BY <2>1, <2>2, <3>1
  <2>5. \A i \in 1 .. Len(out) : out[i] = Movie!Numbers((i - 1) * unit, unit)
    BY <2>1 DEF Blocked
  <2> QED BY <1>5, <2>3, <2>4, <2>5 DEF Movie!PictureInOrder
<1> QED BY <1>2, <1>7, <1>8 DEF InOrder

LEMMA EndMeans ==
  ASSUME InOrder(Movie!Converter, sent)
  PROVE  Movie!PictureEnds
<1>1. PICK c : c = Movie!Converter
  OBVIOUS
<1>2. c \in Conversion /\ Ended(c) /\ c.yuv = yuv /\ c.placed = placed
  BY <1>1, ConverterIs DEF InOrder, Whole, Begun
<1>3. PICK x \in Nat, y \in Nat, w \in Nat \ {0}, h \in Nat \ {0} :
        x = yuv.x /\ y = yuv.y /\ w = yuv.width /\ h = yuv.height
  BY <1>2 DEF Conversion, Picture
<1>4. x < w /\ y < h /\ placed = y * w + x
  BY <1>2, <1>3 DEF Ended
<1>5. (y + 1) * w = y * w + w /\ y * w \in Nat
  BY NextProduct
<1>6. (y + 1) * w <= h * w
  BY <1>4, Products
<1>7. w * h = h * w /\ h * w \in Nat
  OBVIOUS
<1>8. placed < w * h
  <2>1. PICK a \in Nat, b \in Nat : a = y * w /\ b = h * w
    BY <1>5, <1>7
  <2>2. placed = a + x /\ a + w <= b
    BY <1>4, <1>5, <1>6, <2>1
  <2>3. w * h = b
    BY <1>7, <2>1
  <2> QED BY <1>4, <2>2, <2>3
<1> QED BY <1>3, <1>4, <1>8 DEF Movie!PictureEnds
(* The actions that leave the converter alone.                             *)
LEMMA ControlWritten ==
  ASSUME MovieInv, NEW e \in BOOLEAN, NEW i \in BOOLEAN, NEW t \in BOOLEAN,
         NEW z \in Sizes, Movie!WriteControl(e, i, t, z)
  PROVE  MovieInv'
<1>1. chan \in ChannelOf
  BY DEF MovieInv
<1>2. chan' = [chan EXCEPT !.de = e, !.ie = i, !.te = t, !.size = z]
  BY DEF Movie!WriteControl
<1>3. chan' \in ChannelOf /\ chan'.ie = i /\ chan'.te = t
  BY <1>1, <1>2 DEF ChannelOf
<1>4. Movie!Converter' = Movie!Converter /\ sent' = sent
  BY DEF Movie!WriteControl, Movie!Converter
<1>5. until' = Movie!End(chan')
  BY DEF Movie!WriteControl
<1>6. irq' => chan'.ie /\ chan'.te
  <2>1. irq => chan.ie /\ chan.te
    BY DEF MovieInv, Movie!ChannelExact
  <2>2. irq' => irq /\ ~(chan.ie /\ chan.te /\ ~(i /\ t))
    BY DEF Movie!WriteControl
  <2>3. irq' => i /\ t
    BY <2>1, <2>2
  <2> QED BY <1>3, <2>3
<1> QED BY <1>3, <1>4, <1>5, <1>6 DEF MovieInv, Movie!ChannelExact

LEMMA AddressWritten ==
  ASSUME MovieInv, NEW n \in Counts, Movie!WriteAddress(n)
  PROVE  MovieInv'
<1>1. chan \in ChannelOf /\ sent \in Nat
  BY DEF MovieInv
<1>2. n \in Nat
  BY OtherConstants DEF Movie!SizeAssumption
<1>3. chan' = [chan EXCEPT !.from = sent, !.count = n]
  BY DEF Movie!WriteAddress
<1>4. chan' \in ChannelOf /\ chan'.ie = chan.ie /\ chan'.te = chan.te
  BY <1>1, <1>2, <1>3 DEF ChannelOf
<1>5. Movie!Converter' = Movie!Converter /\ sent' = sent /\ irq' = irq
  BY DEF Movie!WriteAddress, Movie!Converter
<1>6. until' = Movie!End(chan')
  BY DEF Movie!WriteAddress
<1>7. irq' => chan'.ie /\ chan'.te
  BY <1>4, <1>5 DEF MovieInv, Movie!ChannelExact
<1> QED BY <1>4, <1>5, <1>6, <1>7 DEF MovieInv, Movie!ChannelExact

LEMMA ChannelStays ==
  ASSUME MovieInv, chan' = chan, until' = until, irq' => irq,
         sent' \in Nat, InOrder(Movie!Converter', sent')
  PROVE  MovieInv'
BY DEF MovieInv, Movie!ChannelExact

(* The actions that hand data to the converter.                            *)
LEMMA DmaStarted ==
  ASSUME MovieInv, NEW n \in Asked, Movie!StartDma(n)
  PROVE  MovieInv'
<1>1. n \in Nat
  BY OtherConstants DEF Movie!SizeAssumption
<1>2. PICK b : b = [chan |-> chan, conv |-> Movie!Converter, sent |-> sent,
                    short |-> FALSE]
  OBVIOUS
<1>3. PICK s : s = Movie!Transferred(b, Movie!Chunks(n))
  OBVIOUS
<1>4. /\ chan.from = sent /\ chan' = s.chan
      /\ irq' = (irq \/ (s.chan.te /\ ~chan.te /\ chan.ie))
      /\ yuv' = s.conv.yuv /\ out' = s.conv.out /\ placed' = s.conv.placed
      /\ sent' = s.sent /\ until' = until
  BY <1>2, <1>3, Zenon DEF Movie!StartDma
<1>5. PICK ch : ch = chan
  OBVIOUS
<1>6. Loop(b, ch)
  BY <1>2, <1>4, <1>5 DEF MovieInv, Loop
<1>7. Loop(s, ch)
  BY <1>1, <1>3, <1>6, TransferIsInOrder
<1>8. Movie!Converter' = s.conv
  <2>1. s.conv \in Conversion
    BY <1>7 DEF Loop, InOrder, Whole, Begun
  <2> QED BY <1>4, <2>1, ConverterIsSet
<1>9. InOrder(Movie!Converter', sent') /\ sent' \in Nat /\ chan' \in ChannelOf
  BY <1>4, <1>7, <1>8 DEF Loop
<1>10. Movie!End(chan') = until'
  <2>1. Movie!End(chan') = Movie!End(ch)
    BY <1>4, <1>7 DEF Loop
  <2>2. Movie!End(ch) = until
    BY <1>5 DEF MovieInv, Movie!ChannelExact
  <2> QED BY <1>4, <2>1, <2>2
<1>11. irq' => chan'.ie /\ chan'.te
  <2>1. chan'.ie = chan.ie /\ (chan.te => chan'.te)
    BY <1>4, <1>5, <1>7 DEF Loop
  <2>2. irq => chan.ie /\ chan.te
    BY DEF MovieInv, Movie!ChannelExact
  <2>3. irq' => irq \/ (chan'.te /\ chan.ie)
    BY <1>4
  <2> QED BY <2>1, <2>2, <2>3
<1> QED BY <1>9, <1>10, <1>11 DEF MovieInv, Movie!ChannelExact

LEMMA DataWritten ==
  ASSUME MovieInv, NEW n \in Direct, Movie!Write(n)
  PROVE  MovieInv'
<1>1. n \in Nat /\ sent \in Nat
  BY OtherConstants DEF Movie!SizeAssumption, MovieInv
<1>2. PICK c : c = Movie!Converter
  OBVIOUS
<1>3. PICK w : w = Movie!Written(c, Movie!Numbers(sent, n))
  OBVIOUS
<1>4. /\ yuv' = w.yuv /\ out' = w.out /\ placed' = w.placed
      /\ sent' = sent + n /\ chan' = chan /\ until' = until /\ irq' = irq
  BY <1>2, <1>3, Zenon DEF Movie!Write
<1>5. InOrder(c, sent)
  BY <1>2 DEF MovieInv
<1>6. InOrder(w, sent + n)
  BY <1>1, <1>3, <1>5, WriteIsInOrder
<1>7. Movie!Converter' = w
  <2>1. w \in Conversion
    BY <1>6 DEF InOrder, Whole, Begun
  <2> QED BY <1>4, <2>1, ConverterIsSet
<1>8. InOrder(Movie!Converter', sent') /\ sent' \in Nat
  BY <1>1, <1>4, <1>6, <1>7
<1> QED BY <1>4, <1>8, ChannelStays

(* The actions that begin a picture or say what it is.                     *)
LEMMA TargetWritten ==
  ASSUME MovieInv, Movie!WriteTarget
  PROVE  MovieInv'
<1>1. PICK c : c = Movie!Converter
  OBVIOUS
<1>2. c \in Conversion /\ c.yuv = yuv
  BY <1>1, ConverterIs DEF MovieInv, InOrder, Whole, Begun
<1>3. yuv \in Picture
  BY <1>2 DEF Conversion
<1>4. PICK y : y = [yuv EXCEPT !.data = <<>>, !.x = 0, !.y = 0]
  OBVIOUS
<1>5. y \in Picture /\ y.data = <<>> /\ y.x = 0 /\ y.y = 0
  <2>1. PICK none \in Seq(Nat) : none = <<>>
    <3>1. <<>> \in Seq(Nat)
      OBVIOUS
    <3> QED BY <3>1, Zenon
  <2>2. y = [yuv EXCEPT !.data = none, !.x = 0, !.y = 0]
    BY <1>4, <2>1
  <2>3. y \in Picture /\ y.data = none /\ y.x = 0 /\ y.y = 0
    BY <1>3, <2>2 DEF Picture
  <2> QED BY <2>1, <2>3
<1>6. PICK w : w = [yuv |-> y, out |-> <<>>, placed |-> 0]
  OBVIOUS
<1>7. w \in Conversion /\ w.yuv = y /\ w.out = <<>> /\ w.placed = 0
  <2>1. <<>> \in Seq(Seq(Nat))
    OBVIOUS
  <2> QED BY <1>5, <1>6, <2>1 DEF Conversion
<1>8. InOrder(w, 0)
  BY <1>5, <1>7, PictureBegins
<1>9. yuv' = y /\ out' = <<>> /\ placed' = 0 /\ sent' = 0
  BY <1>4 DEF Movie!WriteTarget
<1>10. Movie!Converter' = w
  BY <1>7, <1>9, ConverterIsSet
<1>11. chan' = chan /\ until' = until /\ irq' = irq
  BY DEF Movie!WriteTarget
<1>12. sent' \in Nat /\ InOrder(Movie!Converter', sent')
  BY <1>8, <1>9, <1>10
<1> QED BY <1>11, <1>12, ChannelStays

LEMMA ConfigWritten ==
  ASSUME MovieInv, NEW f \in Format, NEW s \in Shape, Movie!WriteConfig(f, s)
  PROVE  MovieInv'
<1>1. PICK c : c = Movie!Converter
  OBVIOUS
<1>2. sent = 0
  BY DEF Movie!WriteConfig
<1>3. InOrder(c, 0)
  BY <1>1, <1>2 DEF MovieInv
<1>4. /\ c \in Conversion /\ c.yuv.data = <<>> /\ c.out = <<>> /\ c.placed = 0
      /\ c.yuv.x = 0 /\ c.yuv.y = 0
  BY <1>3, NothingSent
<1>5. c.yuv = yuv /\ c.out = out /\ c.placed = placed
  BY <1>1, ConverterIs
<1>6. PICK g, h : g = s[1] /\ h = s[2]
  OBVIOUS
<1>7. g \in Nat \ {0} /\ h \in Nat \ {0}
  BY <1>6, OtherConstants DEF Movie!SizeAssumption
<1>8. PICK y : y = [yuv EXCEPT !.format = f, !.width = g, !.height = h]
  OBVIOUS
<1>9. yuv \in Picture
  BY <1>4, <1>5 DEF Conversion
<1>10. y \in Picture /\ y.data = yuv.data /\ y.x = yuv.x /\ y.y = yuv.y
  BY <1>7, <1>8, <1>9 DEF Picture
<1>11. PICK w : w = [c EXCEPT !.yuv = y]
  OBVIOUS
<1>12. w \in Conversion /\ w.yuv = y /\ w.out = c.out /\ w.placed = c.placed
  BY <1>4, <1>10, <1>11 DEF Conversion
<1>13. InOrder(w, 0)
  BY <1>4, <1>5, <1>10, <1>12, PictureBegins
<1>14. yuv' = y /\ out' = out /\ placed' = placed /\ sent' = sent
  BY <1>6, <1>8 DEF Movie!WriteConfig, Movie!Configured
<1>15. Movie!Converter' = w
  BY <1>5, <1>12, <1>14, ConverterIsSet
<1>16. chan' = chan /\ until' = until /\ irq' = irq
  BY DEF Movie!WriteConfig
<1>17. sent' \in Nat /\ InOrder(Movie!Converter', sent')
  BY <1>2, <1>13, <1>14, <1>15
<1> QED BY <1>16, <1>17, ChannelStays

LEMMA AllReset ==
  ASSUME MovieInv, Movie!Reset
  PROVE  MovieInv'
<1>1. PICK c : c = [yuv |-> Movie!NewPicture, out |-> <<>>, placed |-> 0]
  OBVIOUS
<1>2. c \in Conversion /\ InOrder(c, 0)
  BY <1>1, NewIsInOrder
<1>3. c.yuv = Movie!NewPicture /\ c.out = <<>> /\ c.placed = 0
  BY <1>1
<1>4. yuv' = Movie!NewPicture /\ out' = <<>> /\ placed' = 0 /\ sent' = 0
  BY DEF Movie!Reset
<1>5. Movie!Converter' = c
  BY <1>2, <1>3, <1>4, ConverterIsSet
<1>6. chan \in ChannelOf
  BY DEF MovieInv
<1>7. QUAD \in Sizes
  BY OtherConstants DEF Movie!SizeAssumption
<1>8. chan' = [chan EXCEPT !.size = QUAD, !.de = FALSE, !.te = FALSE, !.ie = FALSE]
  BY DEF Movie!Reset, Movie!Cleared
<1>9. chan' \in ChannelOf
  BY <1>6, <1>7, <1>8 DEF ChannelOf
<1>10. until' = Movie!End(chan') /\ irq' = FALSE
  BY DEF Movie!Reset
<1>11. sent' \in Nat /\ InOrder(Movie!Converter', sent')
  BY <1>2, <1>4, <1>5
<1> QED BY <1>9, <1>10, <1>11 DEF MovieInv, Movie!ChannelExact

(* Data, blocks and registers agree.                                       *)
LEMMA MovieKeeps == Movie!Spec => []Movie!PictureTrue
<1>1. Movie!Init => MovieInv
  <2> SUFFICES ASSUME Movie!Init PROVE MovieInv
    OBVIOUS
  <2>1. PICK c : c = [yuv |-> Movie!NewPicture, out |-> <<>>, placed |-> 0]
    OBVIOUS
  <2>2. c = Movie!Converter /\ sent = 0
    BY <2>1 DEF Movie!Init, Movie!Converter
  <2>3. InOrder(Movie!Converter, sent)
    BY <2>1, <2>2, NewIsInOrder
  <2>4. QUAD \in Sizes
    BY OtherConstants DEF Movie!SizeAssumption
  <2>5. chan \in ChannelOf
    BY <2>4 DEF Movie!Init, ChannelOf
  <2>6. Movie!ChannelExact
    BY DEF Movie!Init, Movie!ChannelExact
  <2> QED BY <2>2, <2>3, <2>5, <2>6 DEF MovieInv
<1>2. MovieInv /\ [Movie!Next]_(Movie!vars) => MovieInv'
  <2> SUFFICES ASSUME MovieInv, [Movie!Next]_(Movie!vars)
               PROVE  MovieInv'
    OBVIOUS
  <2>1. CASE \E e, i, t \in BOOLEAN, z \in Sizes : Movie!WriteControl(e, i, t, z)
    BY <2>1, ControlWritten
  <2>2. CASE \E n \in Counts : Movie!WriteAddress(n)
    BY <2>2, AddressWritten
  <2>3. CASE \E n \in Asked : Movie!StartDma(n)
    BY <2>3, DmaStarted
  <2>4. CASE \E n \in Direct : Movie!Write(n)
    BY <2>4, DataWritten
  <2>5. CASE Movie!WriteTarget
    BY <2>5, TargetWritten
  <2>6. CASE \E f \in Format, s \in Shape : Movie!WriteConfig(f, s)
    BY <2>6, ConfigWritten
  <2>7. CASE Movie!WriteMode \/ Movie!ManualReset \/ UNCHANGED Movie!vars
    <3>1. /\ chan' = chan /\ until' = until /\ sent' = sent /\ (irq' => irq)
          /\ yuv' = yuv /\ out' = out /\ placed' = placed
      BY <2>7 DEF Movie!WriteMode, Movie!ManualReset, Movie!vars
    <3>2. Movie!Converter' = Movie!Converter
      BY <3>1 DEF Movie!Converter
    <3>3. sent' \in Nat /\ InOrder(Movie!Converter', sent')
      BY <3>1, <3>2 DEF MovieInv
    <3> QED BY <3>1, <3>3, ChannelStays
  <2>8. CASE Movie!Reset
    BY <2>8, AllReset
  <2> QED BY <2>1, <2>2, <2>3, <2>4, <2>5, <2>6, <2>7, <2>8 DEF Movie!Next
<1>3. MovieInv => Movie!PictureTrue
  BY InOrderMeans, EndMeans DEF MovieInv, Movie!PictureTrue
<1> QED BY <1>1, <1>2, <1>3, PTL DEF Movie!Spec
-----------------------------------------------------------------------------
(* A part moves as it says, whichever part it is: the others do not touch  *)
(* its state.                                                              *)
LEMMA PartsMove ==
  ASSUME [BenchNext]_<<part, vars, Drive!vars, Bus!vars, Cards!vars, Images!vars,
                       Debugger!vars, Keys!vars, Movie!vars>>
  PROVE  /\ [Drive!Next]_(Drive!vars)
         /\ [Bus!Next]_(Bus!vars)
         /\ [Cards!Next]_(Cards!vars)
         /\ [Debugger!Next]_(Debugger!vars)
         /\ [Movie!Next]_(Movie!vars)
<1>1. CASE UNCHANGED <<part, vars, Drive!vars, Bus!vars, Cards!vars, Images!vars,
                       Debugger!vars, Keys!vars, Movie!vars>>
  BY <1>1
<1>2. CASE BenchNext
  <2>1. \/ Drive!Next /\ BusStays /\ CardsStay /\ DebuggerStays /\ MovieStays
        \/ Bus!Next /\ DriveStays /\ CardsStay /\ DebuggerStays /\ MovieStays
        \/ Cards!Next /\ DriveStays /\ BusStays /\ DebuggerStays /\ MovieStays
        \/ Debugger!Next /\ DriveStays /\ BusStays /\ CardsStay /\ MovieStays
        \/ Movie!Next /\ DriveStays /\ BusStays /\ CardsStay /\ DebuggerStays
        \/ DriveStays /\ BusStays /\ CardsStay /\ DebuggerStays /\ MovieStays
    BY <1>2 DEF BenchNext, OutsideStays, ChipStays
  <2> QED BY <2>1 DEF DriveStays, BusStays, CardsStay, DebuggerStays, MovieStays,
                      Drive!vars, Bus!vars, Cards!vars, Debugger!vars, Movie!vars
<1> QED BY <1>1, <1>2

LEMMA PartsRun ==
  BenchSpec => Drive!Spec /\ Bus!Spec /\ Cards!Spec /\ Debugger!Spec /\ Movie!Spec
<1>1. BenchInit => Drive!Init /\ Bus!Init /\ Cards!Init /\ Debugger!Init /\ Movie!Init
  BY DEF BenchInit
<1> QED BY <1>1, PartsMove, PTL DEF BenchSpec, Drive!Spec, Bus!Spec, Cards!Spec,
                                    Debugger!Spec, Movie!Spec

(* Interrupt, status register, buffer and sector counter of the drive tell *)
(* the same as its state.  (gdrom/ide.c)                                   *)
THEOREM DriveIsTrue == BenchSpec => []DriveTrue
<1>1. Drive!DriveTrue => DriveTrue
  BY DEF DriveTrue
<1> QED BY <1>1, PartsRun, DriveKeeps, PTL

(* Every packet is answered when its last word is written, with the two    *)
(* exceptions that Ide names.  (ide_packet_command)                        *)
THEOREM EveryPacketAnswered == BenchSpec => Answered
BY PartsRun, DriveKeeps DEF Answered

(* The masks of the Maple bus and of the devices on it tell the same as    *)
(* the devices that are there.  (maple/maple.c)                            *)
THEOREM BusIsTrue == BenchSpec => []BusTrue
<1>1. Bus!BusTrue => BusTrue
  BY DEF BusTrue
<1> QED BY <1>1, PartsRun, BusKeeps, PTL

(* No write to a memory card is lost while the process lives, whatever     *)
(* devices come and go, cards are loaded and saves fail.  (vmu/vmulist.c,  *)
(* vmuvol.c, maple/vmu.c)                                                  *)
THEOREM CardsAreKept == BenchSpec => []CardsKept
<1>1. Cards!CardsKept => CardsKept
  BY DEF CardsKept
<1> QED BY <1>1, PartsRun, CardsKeep, PTL

(* However the stream is cut into pieces, every frame is answered once,    *)
(* when its last byte arrives, and the buffer has room for the next byte,  *)
(* for any size of the buffer.  (gdb_server_process_buffer,                *)
(* gdb_server_data_callback)                                               *)
THEOREM GdbIsTrue == BenchSpec => []GdbTrue
<1>1. Debugger!GdbTrue => GdbTrue
  BY DEF GdbTrue
<1> QED BY <1>1, PartsRun, GdbKeeps, PTL

(* However a picture is cut into writes, DMA transfers and their chunks,   *)
(* its data reach the blocks in order, the place of a block is that of its *)
(* number, and the channel ends where its registers said, for any sizes of *)
(* transfers, blocks, chunks and pictures.  (pvr_dma_transfer,             *)
(* DMAC_get_buffer, pvr2_yuv_write, pvr2_yuv_process_block)                *)
THEOREM PictureIsTrue == BenchSpec => []PictureTrue
<1>1. Movie!PictureTrue => PictureTrue
  BY DEF PictureTrue
<1> QED BY <1>1, PartsRun, MovieKeeps, PTL
=============================================================================
