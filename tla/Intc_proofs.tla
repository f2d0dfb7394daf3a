---------------------------- MODULE Intc_proofs -----------------------------
(***************************************************************************)
(* Proofs about Intc, for every set of sources, priorities and registers.  *)
(***************************************************************************)
EXTENDS Intc, SequenceLemmas, FiniteSetTheorems

(* The flag mirrors the last entry of pending[]: with Ordered this is what *)
(* makes it exact.                                                         *)
FlagIsLast == irq = Deliverable(pending, priority, bl, imask)

IInv == TypeOK /\ Ordered /\ FlagIsLast

LEMMA ConstantFacts ==
  /\ Source \subseteq Nat /\ NoSource \notin Source
  /\ Default \in [Source -> 0 .. 16]
  /\ Levels \subseteq 0 .. 15 /\ IMasks \subseteq 0 .. 15
BY SourceAssumption, DefaultAssumption, LevelAssumption

(* LessUrgent is a strict total order of the sources.                      *)
LEMMA UrgencyOrder ==
  ASSUME NEW pr \in [Source -> 0 .. 16], NEW a \in Source, NEW b \in Source,
         NEW c \in Source
  PROVE  /\ ~LessUrgent(pr, a, a)
         /\ a # b => LessUrgent(pr, a, b) \/ LessUrgent(pr, b, a)
         /\ LessUrgent(pr, a, b) /\ LessUrgent(pr, b, c) => LessUrgent(pr, a, c)
<1>1. /\ a \in Nat /\ b \in Nat /\ c \in Nat
      /\ pr[a] \in 0 .. 16 /\ pr[b] \in 0 .. 16 /\ pr[c] \in 0 .. 16
  BY ConstantFacts
<1> QED BY <1>1 DEF LessUrgent

LEMMA UrgencyLevels ==
  ASSUME NEW pr \in [Source -> 0 .. 16], NEW a \in Source, NEW b \in Source,
         LessUrgent(pr, a, b)
  PROVE  pr[a] <= pr[b]
<1>1. pr[a] < pr[b] \/ pr[a] = pr[b]
  BY DEF LessUrgent
<1>2. pr[a] \in 0 .. 16 /\ pr[b] \in 0 .. 16
  OBVIOUS
<1> QED BY <1>1, <1>2

LEMMA BelowHigher ==
  ASSUME NEW m \in Int, NEW a \in Int, NEW b \in Int, m < a, a <= b
  PROVE  m < b
OBVIOUS

LEMMA LastEntry ==
  ASSUME NEW q \in Seq(Source), q # <<>>
  PROVE  Len(q) \in 1 .. Len(q) /\ q[Len(q)] \in Source
BY LenProperties, ElementOfSeq, EmptySeq

(* The source at the end of an ordered array has the highest priority.     *)
LEMMA LastIsHighest ==
  ASSUME TypeOK, Ordered, NEW k \in 1 .. Len(pending)
  PROVE  /\ pending # <<>>
         /\ priority[pending[k]] <= priority[pending[Len(pending)]]
<1>1. pending # <<>> /\ Len(pending) \in Nat
  BY LenProperties, EmptySeq DEF TypeOK
<1>2. /\ pending[k] \in Source /\ pending[Len(pending)] \in Source
  BY <1>1, LastEntry, ElementOfSeq DEF TypeOK
<1>3. /\ priority[pending[k]] \in 0 .. 16
      /\ priority[pending[Len(pending)]] \in 0 .. 16
  BY <1>2 DEF TypeOK
<1>4. CASE k = Len(pending)
  BY <1>1, <1>3, <1>4
<1>5. CASE k < Len(pending)
  <2>1. LessUrgent(priority, pending[k], pending[Len(pending)])
    BY <1>1, <1>5 DEF Ordered
  <2> QED BY <1>1, <1>2, <2>1, UrgencyLevels DEF TypeOK
<1> QED BY <1>1, <1>4, <1>5

-----------------------------------------------------------------------------
LEMMA RaiseStep ==
  ASSUME IInv, NEW s \in Source, Raise(s)
  PROVE  IInv'
<1>1. TypeOK /\ Ordered /\ FlagIsLast
  BY DEF IInv
<1>2. PICK i \in 1 .. Len(pending) + 1 :
        /\ StopsAt(s, i)
        /\ i <= Len(pending) => pending[i] # s
        /\ pending' = InsertAt(pending, i, s)
        /\ irq' = (irq \/ Announces(s, i))
  BY DEF Raise
<1>3. /\ priority' = priority /\ bl' = bl /\ imask' = imask
      /\ intevt' = intevt
  BY DEF Raise
<1>4. pending \in Seq(Source) /\ priority \in [Source -> 0 .. 16]
  BY <1>1 DEF TypeOK
<1>5. Len(pending) \in Nat /\ i \in Nat
  BY <1>4, LenProperties
<1>6. /\ pending' \in Seq(Source)
      /\ Len(pending') = Len(pending) + 1
      /\ \A k \in 1 .. Len(pending) + 1 :
           pending'[k] = IF k < i THEN pending[k]
                         ELSE IF k = i THEN s ELSE pending[k - 1]
  <2>1. pending' \in Seq(Source) /\ IsInsertion(pending', pending, i, s)
    BY <1>2, <1>4, InsertionElements
  <2> QED BY <2>1 DEF IsInsertion
<1>7. \A k \in 1 .. Len(pending) : pending[k] \in Source
  BY <1>4, ElementOfSeq
<1>8. ASSUME NEW k \in 1 .. Len(pending), k < i
      PROVE  LessUrgent(priority, pending[k], s)
  <2>1. pending[k] # s /\ ~LessUrgent(priority, s, pending[k])
    BY <1>2, <1>5, <1>8 DEF StopsAt, Stops
  <2> QED BY <2>1, <1>4, <1>7, UrgencyOrder
<1>9. ASSUME NEW k \in 1 .. Len(pending), k >= i
      PROVE  LessUrgent(priority, s, pending[k])
  <2>1. i \in 1 .. Len(pending)
    BY <1>5, <1>9
  <2>2. LessUrgent(priority, s, pending[i])
    BY <1>2, <1>5, <2>1 DEF StopsAt, Stops
  <2>3. CASE k = i
    BY <2>2, <2>3
  <2>4. CASE k > i
    <3>1. LessUrgent(priority, pending[i], pending[k])
      BY <1>1, <2>1, <2>4 DEF Ordered
    <3> QED BY <2>1, <2>2, <3>1, <1>4, <1>7, UrgencyOrder
  <2> QED BY <1>5, <1>9, <2>3, <2>4
<1>10. Ordered'
  <2> SUFFICES ASSUME NEW j \in 1 .. Len(pending) + 1,
                      NEW k \in 1 .. Len(pending) + 1, j < k
               PROVE  LessUrgent(priority, pending'[j], pending'[k])
    BY <1>3, <1>6 DEF Ordered
  <2>1. CASE k < i
    <3>1. pending'[j] = pending[j] /\ pending'[k] = pending[k]
      BY <2>1, <1>5, <1>6
    <3>2. j \in 1 .. Len(pending) /\ k \in 1 .. Len(pending)
      BY <2>1, <1>5
    <3> QED BY <3>1, <3>2, <1>1 DEF Ordered
  <2>2. CASE k = i
    <3>1. pending'[j] = pending[j] /\ pending'[k] = s /\ j \in 1 .. Len(pending)
      BY <2>2, <1>5, <1>6
    <3> QED BY <2>2, <3>1, <1>8
  <2>3. CASE k > i /\ j < i
    <3>1. /\ pending'[j] = pending[j] /\ pending'[k] = pending[k - 1]
          /\ j \in 1 .. Len(pending) /\ k - 1 \in 1 .. Len(pending) /\ j < k - 1
      BY <2>3, <1>5, <1>6
    <3> QED BY <3>1, <1>1 DEF Ordered
  <2>4. CASE k > i /\ j = i
    <3>1. /\ pending'[j] = s /\ pending'[k] = pending[k - 1]
          /\ k - 1 \in 1 .. Len(pending) /\ k - 1 >= i
      BY <2>4, <1>5, <1>6
    <3> QED BY <3>1, <1>9
  <2>5. CASE k > i /\ j > i
    <3>1. /\ pending'[j] = pending[j - 1] /\ pending'[k] = pending[k - 1]
          /\ j - 1 \in 1 .. Len(pending) /\ k - 1 \in 1 .. Len(pending)
          /\ j - 1 < k - 1
      BY <2>5, <1>5, <1>6
    <3> QED BY <3>1, <1>1 DEF Ordered
  <2> QED BY <1>5, <2>1, <2>2, <2>3, <2>4, <2>5
<1>11. FlagIsLast'
  <2>1. pending' # <<>>
    BY <1>5, <1>6, EmptySeq
  <2>2. CASE i = Len(pending) + 1
    <3>1. pending'[Len(pending')] = s
      BY <2>2, <1>5, <1>6
    <3>2. irq => ~bl /\ imask < priority[s]
      <4> SUFFICES ASSUME irq PROVE ~bl /\ imask < priority[s]
        OBVIOUS
      <4>1. /\ pending # <<>> /\ ~bl
            /\ imask < priority[pending[Len(pending)]]
        BY <1>1 DEF FlagIsLast, Deliverable
      <4>2. Len(pending) \in 1 .. Len(pending) /\ pending[Len(pending)] \in Source
        BY <4>1, <1>4, LastEntry
      <4>3. LessUrgent(priority, pending[Len(pending)], s)
        BY <4>2, <2>2, <1>5, <1>8
      <4>4. /\ priority[s] \in 0 .. 16
            /\ priority[pending[Len(pending)]] \in 0 .. 16 /\ imask \in 0 .. 15
        BY <4>2, <1>1 DEF TypeOK
      <4>5. priority[pending[Len(pending)]] <= priority[s]
        BY <4>2, <4>3, <1>4, UrgencyLevels
      <4>6. imask \in Int /\ priority[s] \in Int
            /\ priority[pending[Len(pending)]] \in Int
        BY <4>4, SMTT(30)
      <4> QED BY <4>1, <4>5, <4>6, BelowHigher
    <3>3. irq' = (~bl /\ imask < priority[s])
      BY <1>1, <1>2, <2>2, <3>2 DEF Announces, TypeOK
    <3> QED BY <2>1, <3>1, <3>3, <1>3 DEF FlagIsLast, Deliverable
  <2>3. CASE i # Len(pending) + 1
    <3>1. /\ Len(pending) \in 1 .. Len(pending) /\ Len(pending) + 1 # i
          /\ ~(Len(pending) + 1 < i)
      BY <2>3, <1>5
    <3>2. pending # <<>> /\ pending'[Len(pending')] = pending[Len(pending)]
      BY <3>1, <1>4, <1>5, <1>6, EmptySeq
    <3>3. irq' = irq
      BY <1>1, <1>2, <2>3 DEF Announces, TypeOK
    <3> QED BY <2>1, <3>2, <3>3, <1>1, <1>3 DEF FlagIsLast, Deliverable
  <2> QED BY <2>2, <2>3
<1>12. TypeOK'
  BY <1>1, <1>2, <1>3, <1>6 DEF TypeOK, Announces
<1> QED BY <1>10, <1>11, <1>12 DEF IInv

LEMMA PlaceOfPending ==
  ASSUME NEW s, PlaceOf(s) # 0
  PROVE  PlaceOf(s) \in 1 .. Len(pending)
BY DEF PlaceOf

LEMMA ClearStep ==
  ASSUME IInv, NEW s \in Source, Clear(s)
  PROVE  IInv'
<1>1. TypeOK /\ Ordered /\ FlagIsLast
  BY DEF IInv
<1>2. PICK i \in 1 .. Len(pending) : pending' = RemoveAt(pending, i)
  BY PlaceOfPending DEF Clear
<1>3. /\ priority' = priority /\ bl' = bl /\ imask' = imask
      /\ intevt' = intevt /\ irq' = Deliverable(pending', priority, bl, imask)
  BY DEF Clear, MaskChanged
<1>4. pending \in Seq(Source) /\ Len(pending) \in Nat /\ i \in Nat
  BY <1>1, LenProperties DEF TypeOK
<1>5. /\ pending' \in Seq(Source)
      /\ Len(pending') = Len(pending) - 1
      /\ \A k \in 1 .. Len(pending) - 1 :
           pending'[k] = IF k < i THEN pending[k] ELSE pending[k + 1]
  <2>1. /\ RemoveAt(pending, i) \in Seq(Source)
        /\ Len(RemoveAt(pending, i)) = Len(pending) - 1
        /\ \A k \in 1 .. Len(pending) - 1 :
             RemoveAt(pending, i)[k] = IF k < i THEN pending[k] ELSE pending[k + 1]
    BY <1>4, RemoveAtElements
  <2> QED BY <2>1, <1>2
<1>6. Ordered'
  <2> SUFFICES ASSUME NEW j \in 1 .. Len(pending) - 1,
                      NEW k \in 1 .. Len(pending) - 1, j < k
               PROVE  LessUrgent(priority, pending'[j], pending'[k])
    BY <1>3, <1>5 DEF Ordered
  <2>1. PICK a \in 1 .. Len(pending), b \in 1 .. Len(pending) :
          pending'[j] = pending[a] /\ pending'[k] = pending[b] /\ a < b
    <3>1. CASE k < i
      <4>1. /\ pending'[j] = pending[j] /\ pending'[k] = pending[k]
            /\ j \in 1 .. Len(pending) /\ k \in 1 .. Len(pending)
        BY <3>1, <1>4, <1>5
      <4> QED BY <4>1
    <3>2. CASE k >= i /\ j < i
      <4>1. /\ pending'[j] = pending[j] /\ pending'[k] = pending[k + 1]
            /\ j \in 1 .. Len(pending) /\ k + 1 \in 1 .. Len(pending) /\ j < k + 1
        BY <3>2, <1>4, <1>5
      <4> QED BY <4>1
    <3>3. CASE k >= i /\ j >= i
      <4>1. /\ pending'[j] = pending[j + 1] /\ pending'[k] = pending[k + 1]
            /\ j + 1 \in 1 .. Len(pending) /\ k + 1 \in 1 .. Len(pending)
            /\ j + 1 < k + 1
        BY <3>3, <1>4, <1>5
      <4> QED BY <4>1
    <3> QED BY <3>1, <3>2, <3>3, <1>4
  <2> QED BY <2>1, <1>1 DEF Ordered
<1>7. FlagIsLast'
  BY <1>3 DEF FlagIsLast, Deliverable
<1>8. TypeOK'
  BY <1>1, <1>3, <1>5 DEF TypeOK, Deliverable
<1> QED BY <1>6, <1>7, <1>8 DEF IInv

(* Changing the level of sources that are not pending moves no entry.      *)
LEMMA WritePrioritiesStep ==
  ASSUME IInv, NEW r \in Registers, NEW v \in [r -> Levels],
         Idle(r), WritePriorities(r, v)
  PROVE  IInv'
<1>1. TypeOK /\ Ordered /\ FlagIsLast
  BY DEF IInv
<1>2. /\ pending' = pending /\ bl' = bl /\ imask' = imask
      /\ intevt' = intevt /\ irq' = irq
  BY DEF WritePriorities
<1>3. pending \in Seq(Source) /\ priority \in [Source -> 0 .. 16]
  BY <1>1 DEF TypeOK
<1>4. ASSUME NEW s \in Source
      PROVE  (IF \E f \in r : s \in f
              THEN v[CHOOSE f \in r : s \in f] ELSE priority[s]) \in 0 .. 16
  <2>1. CASE \E f \in r : s \in f
    <3>1. (CHOOSE f \in r : s \in f) \in r
      BY <2>1
    <3>2. v[CHOOSE f \in r : s \in f] \in Levels
      BY <3>1
    <3>3. Levels \subseteq 0 .. 16
      BY ConstantFacts
    <3>4. v[CHOOSE f \in r : s \in f] \in 0 .. 16
      BY <3>2, <3>3, Zenon
    <3> QED BY <2>1, <3>4
  <2>2. CASE ~\E f \in r : s \in f
    BY <2>2, <1>3
  <2> QED BY <2>1, <2>2
<1>5. priority' \in [Source -> 0 .. 16]
  BY <1>4 DEF WritePriorities
<1>6. ASSUME NEW k \in 1 .. Len(pending)
      PROVE  /\ pending[k] \in Source
             /\ priority'[pending[k]] = priority[pending[k]]
  <2>1. pending[k] \in Source
    BY <1>3, ElementOfSeq
  <2>2. ~\E f \in r : pending[k] \in f
    BY DEF Idle
  <2> QED BY <2>1, <2>2 DEF WritePriorities
<1>7. Ordered'
  BY <1>1, <1>2, <1>6 DEF Ordered, LessUrgent
<1>8. FlagIsLast'
  <2>1. CASE pending = <<>>
    BY <1>1, <1>2, <2>1 DEF FlagIsLast, Deliverable
  <2>2. CASE pending # <<>>
    <3>1. Len(pending) \in 1 .. Len(pending)
      BY <2>2, <1>3, LastEntry
    <3> QED BY <3>1, <1>1, <1>2, <1>6 DEF FlagIsLast, Deliverable
  <2> QED BY <2>1, <2>2
<1>9. TypeOK'
  BY <1>1, <1>2, <1>5 DEF TypeOK
<1> QED BY <1>7, <1>8, <1>9 DEF IInv

LEMMA WriteSRStep ==
  ASSUME IInv, NEW b \in BOOLEAN, NEW m \in IMasks, WriteSR(b, m)
  PROVE  IInv'
<1>1. /\ pending' = pending /\ priority' = priority /\ intevt' = intevt
      /\ bl' = b /\ imask' = m /\ irq' = Deliverable(pending, priority, b, m)
  BY DEF WriteSR, MaskChanged
<1>2. m \in 0 .. 15
  BY ConstantFacts
<1>3. TypeOK'
  BY <1>1, <1>2 DEF IInv, TypeOK, Deliverable
<1>4. Ordered' /\ FlagIsLast'
  BY <1>1 DEF IInv, Ordered, FlagIsLast, Deliverable
<1> QED BY <1>3, <1>4 DEF IInv

LEMMA AcceptStep ==
  ASSUME IInv, Accept
  PROVE  IInv'
<1>1. /\ pending' = pending /\ priority' = priority /\ imask' = imask
      /\ bl' = TRUE /\ irq' = Deliverable(pending, priority, TRUE, imask)
      /\ pending # <<>> /\ intevt' = pending[Len(pending)]
  BY DEF Accept, MaskChanged
<1>2. intevt' \in Source
  BY <1>1, LastEntry DEF IInv, TypeOK
<1>3. TypeOK'
  BY <1>1, <1>2 DEF IInv, TypeOK, Deliverable
<1>4. Ordered' /\ FlagIsLast'
  BY <1>1 DEF IInv, Ordered, FlagIsLast, Deliverable
<1> QED BY <1>3, <1>4 DEF IInv

LEMMA EmptyArray ==
  ASSUME pending = <<>>
  PROVE  /\ Ordered /\ pending \in Seq(Source)
         /\ Deliverable(pending, priority, bl, imask) = FALSE
BY DEF Ordered, Deliverable

LEMMA InitInv == Init => IInv
<1> SUFFICES ASSUME Init PROVE IInv
  OBVIOUS
<1>1. /\ Ordered /\ pending \in Seq(Source)
      /\ Deliverable(pending, priority, bl, imask) = FALSE
  BY EmptyArray DEF Init
<1>2. imask \in 0 .. 15
  BY DEF Init, ResetMask
<1>3. TypeOK
  BY <1>1, <1>2, ConstantFacts DEF Init, TypeOK
<1> QED BY <1>1, <1>3 DEF Init, IInv, FlagIsLast

LEMMA ResetStep ==
  ASSUME IInv, Reset
  PROVE  IInv'
<1>1. /\ pending' = <<>> /\ priority' = Default /\ bl' = TRUE
      /\ imask' = ResetMask /\ irq' = FALSE /\ intevt' = intevt
  BY DEF Reset
<1>2. pending' \in Seq(Source) /\ imask' \in 0 .. 15
  BY <1>1 DEF ResetMask
<1>3. TypeOK'
  BY <1>1, <1>2, ConstantFacts DEF IInv, TypeOK
<1>4. 1 .. Len(pending') = {}
  BY <1>1
<1>5. Ordered' /\ FlagIsLast'
  BY <1>1, <1>4 DEF Ordered, FlagIsLast, Deliverable
<1> QED BY <1>3, <1>5 DEF IInv

THEOREM Invariance == QuietSpec => []IInv
<1>1. IInv /\ [QuietNext]_vars => IInv'
  <2> SUFFICES ASSUME IInv, [QuietNext]_vars PROVE IInv'
    OBVIOUS
  <2>1. ASSUME NEW s \in Source, Raise(s) PROVE IInv'
    BY <2>1, RaiseStep
  <2>2. ASSUME NEW s \in Source, Clear(s) PROVE IInv'
    BY <2>2, ClearStep
  <2>3. ASSUME NEW b \in BOOLEAN, NEW m \in IMasks, WriteSR(b, m) PROVE IInv'
    BY <2>3, WriteSRStep
  <2>4. CASE Accept
    BY <2>4, AcceptStep
  <2>5. CASE Reset
    BY <2>5, ResetStep
  <2>6. ASSUME NEW r \in Registers, NEW v \in [r -> Levels],
               Idle(r), WritePriorities(r, v)
        PROVE  IInv'
    BY <2>6, WritePrioritiesStep
  <2>7. CASE UNCHANGED vars
    BY <2>7 DEF vars, IInv, TypeOK, Ordered, FlagIsLast
  <2> QED BY <2>1, <2>2, <2>3, <2>4, <2>5, <2>6, <2>7 DEF QuietNext, Common
<1> QED BY InitInv, <1>1, PTL DEF QuietSpec

-----------------------------------------------------------------------------
(* Every variable stays in its range; in particular every entry of         *)
(* pending[] is an index of intc_sources[].  (intc.c, sh4_write_sr)        *)
THEOREM TypeCorrect == QuietSpec => []TypeOK
<1>1. IInv => TypeOK
  BY DEF IInv
<1> QED BY Invariance, <1>1, PTL

(* pending[] stays in strict order of urgency.  (intc_raise_interrupt)     *)
THEOREM ArrayIsOrdered == QuietSpec => []Ordered
<1>1. IInv => Ordered
  BY DEF IInv
<1> QED BY Invariance, <1>1, PTL

(* No source is in pending[] twice.  (intc.c:142)                          *)
LEMMA OnceFromOrder == TypeOK /\ Ordered => QueuedOnce
<1> SUFFICES ASSUME TypeOK, Ordered,
                    NEW i \in 1 .. Len(pending), NEW j \in 1 .. Len(pending),
                    pending[i] = pending[j], i # j
             PROVE  FALSE
  BY DEF QueuedOnce
<1>1. pending[i] \in Source /\ ~LessUrgent(priority, pending[i], pending[i])
  BY ElementOfSeq, UrgencyOrder DEF TypeOK
<1>2. i < j \/ j < i
  BY LenProperties DEF TypeOK
<1> QED BY <1>1, <1>2 DEF Ordered

(* One place per source is enough for pending[].  (intc.c:52)              *)
THEOREM ArrayIsLongEnough == QuietSpec => []FitsArray
<1>1. IInv => FitsArray
  <2> SUFFICES ASSUME TypeOK, Ordered PROVE FitsArray
    BY DEF IInv
  <2>1. pending \in Seq(Source) /\ Len(pending) \in Nat
    BY LenProperties DEF TypeOK
  <2>2. pending \in [1 .. Len(pending) -> Source]
    BY <2>1, LenProperties
  <2>3. pending \in Injection(1 .. Len(pending), Source)
    BY <2>2, OnceFromOrder DEF QueuedOnce, Injection, IsInjective
  <2>4. Cardinality(1 .. Len(pending)) <= Cardinality(Source)
    BY <2>3, FiniteAssumption, FS_Injection
  <2>5. Cardinality(1 .. Len(pending)) = Len(pending)
    BY <2>1, FS_Interval, SMTT(30)
  <2> QED BY <2>4, <2>5 DEF FitsArray
<1> QED BY Invariance, <1>1, PTL

(* PENDING_IRQ is exact: it is set when and only when some pending source  *)
(* may interrupt the core.  (intc_raise_interrupt, intc_mask_changed)      *)
THEOREM FlagIsExact == QuietSpec => []FlagExact
<1>1. IInv => FlagExact
  <2> SUFFICES ASSUME TypeOK, Ordered, FlagIsLast PROVE FlagExact
    BY DEF IInv
  <2>1. ASSUME irq
        PROVE  \E k \in 1 .. Len(pending) : ~bl /\ imask < priority[pending[k]]
    <3>1. /\ pending # <<>> /\ ~bl /\ imask < priority[pending[Len(pending)]]
      BY <2>1 DEF FlagIsLast, Deliverable
    <3>2. Len(pending) \in 1 .. Len(pending)
      BY <3>1, LastEntry DEF TypeOK
    <3> QED BY <3>1, <3>2
  <2>2. ASSUME NEW k \in 1 .. Len(pending), ~bl, imask < priority[pending[k]]
        PROVE  irq
    <3>1. /\ pending # <<>>
          /\ priority[pending[k]] <= priority[pending[Len(pending)]]
      BY LastIsHighest
    <3>2. /\ pending[k] \in Source /\ pending[Len(pending)] \in Source
      BY <3>1, LastEntry, ElementOfSeq DEF TypeOK
    <3>3. /\ priority[pending[k]] \in 0 .. 16 /\ imask \in 0 .. 15
          /\ priority[pending[Len(pending)]] \in 0 .. 16
      BY <3>2 DEF TypeOK
    <3>4. imask < priority[pending[Len(pending)]]
      <4>1. /\ imask \in Int /\ priority[pending[k]] \in Int
            /\ priority[pending[Len(pending)]] \in Int
        BY <3>3
      <4> QED BY <2>2, <3>1, <4>1, BelowHigher
    <3> QED BY <2>2, <3>1, <3>4 DEF FlagIsLast, Deliverable
  <2> QED BY <2>1, <2>2 DEF FlagExact, TypeOK
<1> QED BY Invariance, <1>1, PTL

-----------------------------------------------------------------------------
(* The refinement of IntcSpec.  Where a source is in pending[] is not its  *)
(* business: of an insertion and a removal it sees one element more or     *)
(* less, of Accept that the last entry is the most urgent.                 *)

LEMMA RaiseIsRequest ==
  ASSUME IInv, NEW s \in Source, Raise(s)
  PROVE  Requests!Request(s)
<1>1. pending \in Seq(Source) /\ priority \in [Source -> 0 .. 16]
  BY DEF IInv, TypeOK
<1>2. PICK i \in 1 .. Len(pending) + 1 : pending' = InsertAt(pending, i, s)
  BY DEF Raise
<1>3. Len(pending) \in Nat /\ i \in Nat
  BY <1>1, LenProperties
<1>4. /\ Len(pending') = Len(pending) + 1
      /\ \A k \in 1 .. Len(pending) + 1 :
           pending'[k] = IF k < i THEN pending[k]
                         ELSE IF k = i THEN s ELSE pending[k - 1]
  BY <1>1, <1>2, InsertAtElements
<1>5. InArray' = InArray \cup {s}
  <2>1. ASSUME NEW k \in 1 .. Len(pending')
        PROVE  pending'[k] \in InArray \cup {s}
    <3>1. k \in 1 .. Len(pending) + 1
      BY <1>4
    <3>2. CASE k < i
      BY <3>1, <3>2, <1>3, <1>4 DEF InArray
    <3>3. CASE k = i
      BY <3>1, <3>3, <1>3, <1>4
    <3>4. CASE k > i
      <4>1. k - 1 \in 1 .. Len(pending) /\ pending'[k] = pending[k - 1]
        BY <3>1, <3>4, <1>3, <1>4
      <4> QED BY <4>1 DEF InArray
    <3> QED BY <3>1, <3>2, <3>3, <3>4, <1>3
  <2>2. s \in InArray'
    <3>1. i \in 1 .. Len(pending') /\ pending'[i] = s
      BY <1>3, <1>4
    <3> QED BY <3>1 DEF InArray
  <2>3. ASSUME NEW k \in 1 .. Len(pending)
        PROVE  pending[k] \in InArray'
    <3>1. CASE k < i
      <4>1. k \in 1 .. Len(pending') /\ pending'[k] = pending[k]
        BY <3>1, <1>3, <1>4
      <4> QED BY <4>1 DEF InArray
    <3>2. CASE k >= i
      <4>1. k + 1 \in 1 .. Len(pending') /\ pending'[k + 1] = pending[k]
        BY <3>2, <1>3, <1>4
      <4> QED BY <4>1 DEF InArray
    <3> QED BY <3>1, <3>2, <1>3
  <2> QED BY <2>1, <2>2, <2>3 DEF InArray
<1>6. priority[s] > 0
  BY <1>1 DEF Raise
<1> QED BY <1>5, <1>6 DEF Raise, Requests!Request

(* One entry is removed: were a source pending twice, its device could not *)
(* withdraw its request.                                                   *)
LEMMA ClearIsWithdraw ==
  ASSUME IInv, NEW s \in Source, Clear(s)
  PROVE  Requests!Withdraw(s)
<1>1. pending \in Seq(Source) /\ QueuedOnce
  BY OnceFromOrder DEF IInv, TypeOK
<1>2. PICK i \in 1 .. Len(pending) :
        pending[i] = s /\ pending' = RemoveAt(pending, i)
  <2>1. PlaceOf(s) \in 1 .. Len(pending) /\ pending[PlaceOf(s)] = s
    <3>1. PICK j \in 1 .. Len(pending) :
            pending[j] = s
      BY DEF Clear, PlaceOf
    <3>2. \A k \in j + 1 .. Len(pending) : pending[k] # s
      BY <1>1, <3>1, LenProperties DEF QueuedOnce
    <3> QED BY <3>1, <3>2 DEF PlaceOf
  <2> QED BY <2>1 DEF Clear
<1>3. Len(pending) \in Nat /\ i \in Nat
  BY <1>1, LenProperties
<1>4. /\ Len(pending') = Len(pending) - 1
      /\ \A k \in 1 .. Len(pending) - 1 :
           pending'[k] = IF k < i THEN pending[k] ELSE pending[k + 1]
  BY <1>1, <1>2, RemoveAtElements
<1>5. InArray' = InArray \ {s}
  <2>1. ASSUME NEW k \in 1 .. Len(pending')
        PROVE  pending'[k] \in InArray \ {s}
    <3>1. CASE k < i
      <4>1. /\ k \in 1 .. Len(pending) /\ k # i
            /\ pending'[k] = pending[k]
        BY <3>1, <1>3, <1>4
      <4> QED BY <4>1, <1>1, <1>2 DEF InArray, QueuedOnce
    <3>2. CASE k >= i
      <4>1. /\ k + 1 \in 1 .. Len(pending) /\ k + 1 # i
            /\ pending'[k] = pending[k + 1]
        BY <3>2, <1>3, <1>4
      <4> QED BY <4>1, <1>1, <1>2 DEF InArray, QueuedOnce
    <3> QED BY <3>1, <3>2, <1>3
  <2>2. ASSUME NEW k \in 1 .. Len(pending), pending[k] # s
        PROVE  pending[k] \in InArray'
    <3>1. CASE k < i
      <4>1. k \in 1 .. Len(pending') /\ pending'[k] = pending[k]
        BY <3>1, <1>3, <1>4
      <4> QED BY <4>1 DEF InArray
    <3>2. CASE k > i
      <4>1. /\ k - 1 \in 1 .. Len(pending')
            /\ pending'[k - 1] = pending[k]
        BY <3>2, <1>3, <1>4
      <4> QED BY <4>1 DEF InArray
    <3> QED BY <2>2, <3>1, <3>2, <1>2, <1>3
  <2> QED BY <2>1, <2>2 DEF InArray
<1> QED BY <1>5 DEF Clear, Requests!Withdraw

(* The last entry may interrupt the core because the flag is set, and it   *)
(* is the most urgent because the array is in order.                       *)
LEMMA AcceptIsTake ==
  ASSUME IInv, Accept
  PROVE  Requests!Take
<1>1. /\ pending \in Seq(Source) /\ priority \in [Source -> 0 .. 16]
      /\ imask \in 0 .. 15
  BY DEF IInv, TypeOK
<1>2. /\ pending # <<>> /\ intevt' = pending[Len(pending)]
      /\ pending' = pending /\ priority' = priority /\ imask' = imask /\ bl' = TRUE
  BY DEF Accept
<1>3. ~bl /\ imask < priority[pending[Len(pending)]]
  BY DEF Accept, IInv, FlagIsLast, Deliverable
<1>4. Len(pending) \in 1 .. Len(pending) /\ pending[Len(pending)] \in Source
  BY <1>1, <1>2, LastEntry
<1>5. pending[Len(pending)] \in InArray
  BY <1>4 DEF InArray
<1>6. priority[pending[Len(pending)]] > imask
  BY <1>1, <1>3, <1>4
<1>7. ASSUME NEW t \in InArray \ {pending[Len(pending)]}
      PROVE  Requests!MoreUrgent(pending[Len(pending)], t)
  <2>1. PICK k \in 1 .. Len(pending) : t = pending[k]
    BY <1>7 DEF InArray
  <2>2. k < Len(pending) /\ t \in Source
    BY <2>1, <1>1, <1>4, ElementOfSeq, LenProperties
  <2>3. LessUrgent(priority, t, pending[Len(pending)])
    BY <2>1, <2>2, <1>4 DEF IInv, Ordered
  <2>4. /\ priority[t] \in 0 .. 16
        /\ priority[pending[Len(pending)]] \in 0 .. 16
    BY <2>2, <1>1, <1>4
  <2>5. t \in Nat /\ pending[Len(pending)] \in Nat
    BY <2>2, <1>4, ConstantFacts
  <2> QED BY <2>3, <2>4, <2>5 DEF LessUrgent, Requests!MoreUrgent
<1>8. InArray' = InArray
  BY <1>2 DEF InArray
<1> QED BY <1>2, <1>3, <1>5, <1>6, <1>7, <1>8 DEF Requests!Take

(* Only idle sources change their priority.                                *)
LEMMA WritePrioritiesIsRelevel ==
  ASSUME IInv, NEW r \in Registers, NEW v \in [r -> Levels],
         Idle(r), WritePriorities(r, v)
  PROVE  Requests!Relevel
<1>1. priority' \in [Source -> 0 .. 16]
  BY WritePrioritiesStep DEF IInv, TypeOK
<1>2. /\ pending' = pending /\ bl' = bl /\ imask' = imask
      /\ intevt' = intevt
  BY DEF WritePriorities
<1>3. ASSUME NEW s \in InArray
      PROVE  priority'[s] = priority[s]
  <2>1. PICK k \in 1 .. Len(pending) : s = pending[k]
    BY <1>3 DEF InArray
  <2>2. s \in Source
    BY <2>1, ElementOfSeq DEF IInv, TypeOK
  <2>3. ~\E f \in r : s \in f
    BY <2>1 DEF Idle
  <2> QED BY <2>2, <2>3 DEF WritePriorities
<1>4. InArray' = InArray
  BY <1>2 DEF InArray
<1> QED BY <1>1, <1>2, <1>3, <1>4 DEF Requests!Relevel

(* With its priorities set while their sources are idle, the controller    *)
(* implements IntcSpec: nothing is interrupted but by a request, by the    *)
(* most urgent of those there are, and above the mask.                     *)
(* (intc_raise_interrupt, intc_clear_interrupt, sh4_accept_interrupt)      *)
THEOREM RequestsAreServed == QuietSpec => ServesRequests
<1>1. Init => Requests!Init
  <2> SUFFICES ASSUME Init PROVE Requests!Init
    OBVIOUS
  <2>1. InArray = {}
    BY DEF Init, InArray
  <2> QED BY <2>1 DEF Init, ResetMask, Requests!Init
<1>2. IInv /\ [QuietNext]_vars => [Requests!Next]_(Requests!svars)
  <2> SUFFICES ASSUME IInv, [QuietNext]_vars
               PROVE  Requests!Next \/ UNCHANGED Requests!svars
    OBVIOUS
  <2>1. ASSUME NEW s \in Source, Raise(s) PROVE Requests!Next
    BY <2>1, RaiseIsRequest DEF Requests!Next
  <2>2. ASSUME NEW s \in Source, Clear(s) PROVE Requests!Next
    BY <2>2, ClearIsWithdraw DEF Requests!Next
  <2>3. ASSUME NEW b \in BOOLEAN, NEW m \in IMasks, WriteSR(b, m)
        PROVE  Requests!Next
    BY <2>3 DEF WriteSR, InArray, Requests!Next, Requests!SetMask
  <2>4. CASE Accept
    BY <2>4, AcceptIsTake DEF Requests!Next
  <2>5. CASE Reset
    <3>1. InArray' = {}
      BY <2>5 DEF Reset, InArray
    <3> QED BY <2>5, <3>1 DEF Reset, ResetMask, Requests!Next, Requests!Restart
  <2>6. ASSUME NEW r \in Registers, NEW v \in [r -> Levels],
               Idle(r), WritePriorities(r, v)
        PROVE  Requests!Next
    BY <2>6, WritePrioritiesIsRelevel DEF Requests!Next
  <2>7. CASE UNCHANGED vars
    BY <2>7 DEF vars, InArray, Requests!svars
  <2> QED BY <2>1, <2>2, <2>3, <2>4, <2>5, <2>6, <2>7 DEF QuietNext, Common
<1> QED BY <1>1, <1>2, Invariance, PTL
        DEF QuietSpec, ServesRequests, Requests!Safe
=============================================================================
