---------------------------- MODULE EventQ_proofs ----------------------------
(***************************************************************************)
(* Proofs about EventQ, for every set of events, delays and slice lengths: *)
(* first the lists, their order and the copy of the head in the core, then *)
(* the times, and last that the queue implements TimerSpec.                *)
(***************************************************************************)
EXTENDS EventQ, SequenceLemmas

-----------------------------------------------------------------------------
(* Lists.                                                                  *)

LEMMA Inserting ==
  ASSUME NEW q \in Seq(EventId), Injective(q),
         NEW e \in EventId, e \notin Members(q), NEW i \in 1 .. Len(q) + 1
  PROVE  /\ InsertAt(q, i, e) \in Seq(EventId)
         /\ InsertAt(q, i, e) # <<>>
         /\ Injective(InsertAt(q, i, e))
         /\ Members(InsertAt(q, i, e)) = Members(q) \cup {e}
         /\ InsertAt(q, i, e)[1] = IF i = 1 THEN e ELSE q[1]
<1>1. PICK r : /\ r = InsertAt(q, i, e)
               /\ r \in Seq(EventId) /\ Len(r) = Len(q) + 1
               /\ \A k \in 1 .. Len(q) + 1 :
                    r[k] = IF k < i THEN q[k] ELSE IF k = i THEN e ELSE q[k - 1]
  <2>1. /\ InsertAt(q, i, e) \in Seq(EventId)
        /\ Len(InsertAt(q, i, e)) = Len(q) + 1
        /\ \A k \in 1 .. Len(q) + 1 :
             InsertAt(q, i, e)[k] = IF k < i THEN q[k]
                                    ELSE IF k = i THEN e ELSE q[k - 1]
    BY InsertAtElements
  <2> QED BY <2>1
<1>2. Len(q) \in Nat /\ \A k \in 1 .. Len(q) : q[k] # e
  BY LenProperties DEF Members
<1>3. r # <<>> /\ r[1] = IF i = 1 THEN e ELSE q[1]
  BY <1>1, <1>2, EmptySeq
<1>4. Injective(r)
  <2> SUFFICES ASSUME NEW j \in 1 .. Len(r), NEW k \in 1 .. Len(r), r[j] = r[k]
               PROVE  j = k
    BY DEF Injective
  <2> DEFINE at(n) == IF n < i THEN n ELSE n - 1
  <2>1. ASSUME NEW n \in 1 .. Len(r), n # i
        PROVE  at(n) \in 1 .. Len(q) /\ r[n] = q[at(n)] /\ r[n] # e
    BY <2>1, <1>1, <1>2
  <2>2. r[i] = e
    BY <1>1, <1>2
  <2>3. CASE j = i \/ k = i
    BY <2>1, <2>2, <2>3
  <2>4. CASE j # i /\ k # i
    <3>1. at(j) = at(k)
      BY <2>1, <2>4 DEF Injective
    <3> QED BY <3>1, <2>4, <1>1, <1>2
  <2> QED BY <2>3, <2>4
<1>5. Members(r) = Members(q) \cup {e}
  <2>1. ASSUME NEW x \in Members(r) PROVE x \in Members(q) \cup {e}
    <3>1. PICK k \in 1 .. Len(r) : x = r[k]
      BY DEF Members
    <3>2. CASE k = i
      BY <3>1, <3>2, <1>1, <1>2
    <3>3. CASE k # i
      <4>1. PICK n \in 1 .. Len(q) : x = q[n]
        BY <3>1, <3>3, <1>1, <1>2
      <4> QED BY <4>1 DEF Members
    <3> QED BY <3>2, <3>3
  <2>2. ASSUME NEW k \in 1 .. Len(q) PROVE q[k] \in Members(r)
    <3>1. CASE k < i
      BY <3>1, <1>1, <1>2 DEF Members
    <3>2. CASE k >= i
      <4>1. k + 1 \in 1 .. Len(r) /\ r[k + 1] = q[k]
        BY <3>2, <1>1, <1>2
      <4> QED BY <4>1 DEF Members
    <3> QED BY <3>1, <3>2, <1>2
  <2>3. e \in Members(r)
    BY <1>1, <1>2 DEF Members
  <2> QED BY <2>1, <2>2, <2>3 DEF Members
<1> QED BY <1>1, <1>3, <1>4, <1>5

LEMMA InsertingInOrder ==
  ASSUME NEW q \in Seq(EventId), NEW ns \in [EventId -> Nat], Sorted(q, ns),
         NEW e \in EventId, NEW i \in 1 .. Len(q) + 1,
         InsertionPoint(q, ns, i, ns[e])
  PROVE  Sorted(InsertAt(q, i, e), ns)
<1> DEFINE r == InsertAt(q, i, e)
<1>1. /\ r \in Seq(EventId) /\ Len(r) = Len(q) + 1
      /\ \A k \in 1 .. Len(q) + 1 :
           r[k] = IF k < i THEN q[k] ELSE IF k = i THEN e ELSE q[k - 1]
  BY InsertAtElements
<1>2. Len(q) \in Nat /\ (\A k \in 1 .. Len(q) : q[k] \in EventId /\ ns[q[k]] \in Nat)
  BY ElementOfSeq, LenProperties
<1> HIDE DEF r
<1>3. \A k \in 1 .. Len(q) : k < i => ns[q[k]] <= ns[e]
  BY DEF InsertionPoint
<1>4. ASSUME NEW k \in 1 .. Len(q), k >= i PROVE ns[e] <= ns[q[k]]
  <2>1. ns[e] < ns[q[i]] /\ i \in 1 .. Len(q)
    BY <1>4, <1>2 DEF InsertionPoint
  <2>2. CASE k = i
    BY <2>1, <2>2, <1>2
  <2>3. CASE k # i
    <3>1. ns[q[i]] <= ns[q[k]]
      BY <2>1, <2>3, <1>4, <1>2 DEF Sorted
    <3> QED BY <3>1, <2>1, <1>2
  <2> QED BY <2>2, <2>3
<1>5. ASSUME NEW j \in 1 .. Len(r), NEW k \in 1 .. Len(r), j < k
      PROVE  ns[r[j]] <= ns[r[k]]
  <2>1. CASE k < i
    <3>1. j \in 1 .. Len(q) /\ k \in 1 .. Len(q) /\ r[j] = q[j] /\ r[k] = q[k]
      BY <2>1, <1>1, <1>2, <1>5, SMTT(30)
    <3> QED BY <3>1, <1>5 DEF Sorted
  <2>2. CASE k = i
    <3>1. j \in 1 .. Len(q) /\ j < i /\ r[j] = q[j] /\ r[k] = e
      BY <2>2, <1>1, <1>2, <1>5
    <3> QED BY <3>1, <1>3
  <2>3. CASE j < i /\ k > i
    <3>1. /\ k - 1 \in 1 .. Len(q) /\ j \in 1 .. Len(q) /\ j < k - 1
          /\ r[j] = q[j] /\ r[k] = q[k - 1]
      BY <2>3, <1>1, <1>2, <1>5
    <3> QED BY <3>1 DEF Sorted
  <2>4. CASE j = i
    <3>1. k - 1 \in 1 .. Len(q) /\ k - 1 >= i /\ r[j] = e /\ r[k] = q[k - 1]
      BY <2>4, <1>1, <1>2, <1>5
    <3> QED BY <3>1, <1>4
  <2>5. CASE j > i
    <3>1. /\ k - 1 \in 1 .. Len(q) /\ j - 1 \in 1 .. Len(q) /\ j - 1 < k - 1
          /\ r[j] = q[j - 1] /\ r[k] = q[k - 1]
      BY <2>5, <1>1, <1>2, <1>5
    <3> QED BY <3>1 DEF Sorted
  <2> QED BY <2>1, <2>2, <2>3, <2>4, <2>5, <1>1, <1>2
<1>6. Sorted(r, ns)
  BY <1>5 DEF Sorted
<1> QED BY <1>6 DEF r

LEMMA Removing ==
  ASSUME NEW q \in Seq(EventId), Injective(q), NEW j \in 1 .. Len(q)
  PROVE  /\ RemoveAt(q, j) \in Seq(EventId)
         /\ Injective(RemoveAt(q, j))
         /\ Members(RemoveAt(q, j)) = Members(q) \ {q[j]}
         /\ Len(RemoveAt(q, j)) = Len(q) - 1
         /\ j # 1 => RemoveAt(q, j) # <<>> /\ RemoveAt(q, j)[1] = q[1]
         /\ \A ns \in [EventId -> Nat] :
               Sorted(q, ns) => Sorted(RemoveAt(q, j), ns)
<1> DEFINE r == RemoveAt(q, j)
<1>1. /\ r \in Seq(EventId) /\ Len(r) = Len(q) - 1
      /\ \A k \in 1 .. Len(q) - 1 : r[k] = IF k < j THEN q[k] ELSE q[k + 1]
  BY RemoveAtElements
<1>2. Len(q) \in Nat
  BY LenProperties
<1> HIDE DEF r
<1>3. j # 1 => r # <<>> /\ r[1] = q[1]
  BY <1>1, <1>2, EmptySeq
<1>4. Injective(r)
  <2> SUFFICES ASSUME NEW k \in 1 .. Len(r), NEW l \in 1 .. Len(r), r[k] = r[l]
               PROVE  k = l
    BY DEF Injective
  <2> QED BY <1>1, <1>2 DEF Injective
<1>5. Members(r) = Members(q) \ {q[j]}
  <2>1. ASSUME NEW k \in 1 .. Len(r) PROVE r[k] \in Members(q) \ {q[j]}
    BY <1>1, <1>2 DEF Members, Injective
  <2>2. ASSUME NEW k \in 1 .. Len(q), q[k] # q[j] PROVE q[k] \in Members(r)
    <3>1. CASE k < j
      BY <3>1, <1>1, <1>2 DEF Members
    <3>2. CASE k > j
      <4>1. k - 1 \in 1 .. Len(r) /\ r[k - 1] = q[k]
        BY <3>2, <1>1, <1>2
      <4> QED BY <4>1 DEF Members
    <3> QED BY <3>1, <3>2, <2>2, <1>2
  <2> QED BY <2>1, <2>2 DEF Members
<1>6. ASSUME NEW ns \in [EventId -> Nat], Sorted(q, ns) PROVE Sorted(r, ns)
  <2> DEFINE at(n) == IF n < j THEN n ELSE n + 1
  <2>1. ASSUME NEW n \in 1 .. Len(r)
        PROVE  at(n) \in 1 .. Len(q) /\ r[n] = q[at(n)]
    BY <1>1, <1>2, SMTT(30)
  <2>2. ASSUME NEW m \in 1 .. Len(r), NEW n \in 1 .. Len(r), m < n
        PROVE  ns[r[m]] <= ns[r[n]]
    <3>1. at(m) < at(n)
      BY <2>2, <1>1, <1>2
    <3> QED BY <3>1, <2>1, <1>6 DEF Sorted
  <2> QED BY <2>2 DEF Sorted
<1> QED BY <1>1, <1>3, <1>4, <1>5, <1>6 DEF r

LEMMA Unlinking ==
  ASSUME NEW q \in Seq(EventId), Injective(q), NEW e
  PROVE  /\ Without(q, e) \in Seq(EventId)
         /\ Injective(Without(q, e))
         /\ Members(Without(q, e)) = Members(q) \ {e}
         /\ ~IsHead(q, e) =>
              /\ Without(q, e) = <<>> <=> q = <<>>
              /\ Without(q, e) # <<>> => Without(q, e)[1] = q[1]
         /\ \A ns \in [EventId -> Nat] :
               Sorted(q, ns) => Sorted(Without(q, e), ns)
<1>1. CASE \E j \in 1 .. Len(q) : q[j] = e
  <2>1. PICK j \in 1 .. Len(q) : q[j] = e /\ Without(q, e) = RemoveAt(q, j)
    BY <1>1 DEF Without
  <2>2. ~IsHead(q, e) => j # 1 /\ q # <<>>
    BY <2>1, LenProperties DEF IsHead
  <2> QED BY <2>1, <2>2, Removing
<1>2. CASE ~\E j \in 1 .. Len(q) : q[j] = e
  BY <1>2 DEF Without, Members
<1> QED BY <1>1, <1>2

-----------------------------------------------------------------------------
(* The inductive invariant.                                                *)

(* No block runs past the slice by more than itself, the scan countdown    *)
(* stays within its second, and an IRQ in progress holds event_pending at 0*)
Clocks ==
  /\ slice <= SliceLength + MaxBlock - 1
  /\ longScan \in 1 .. LONG_SCAN_PERIOD
  /\ phase = "scan" => cursor >= 1
  /\ "IRQ" \in types => pending = 0

(* HeadAnnounced, extended to the steps between execution and the block.   *)
Announced ==
  /\ phase \in {"core", "irq", "ready", "woken", "periph", "idle"}
  /\ queue # <<>>
  => "EVENT" \in types /\ pending <= nanosecs[queue[1]]

IInv == TypeOK /\ Clocks /\ ListsConsistent /\ QueueSorted /\ Announced

LEMMA ConstantFacts ==
  /\ LONG_SCAN_PERIOD \in Nat \ {0} /\ SliceLength \in Nat \ {0}
  /\ MaxBlock \in 1 .. SliceLength /\ NOT_SCHEDULED \in Nat
  /\ SliceLength + MaxBlock - 1 <= LONG_SCAN_PERIOD
  /\ NOT_SCHEDULED > 2 * LONG_SCAN_PERIOD + 2 * SliceLength
  /\ Delays \subseteq 0 .. LONG_SCAN_PERIOD - 1
  /\ LongSeconds \subseteq Nat \ {0}
  /\ NoEvent \notin EventId
  /\ RasterEvent \in EventId /\ RasterDelay \in Delays
BY PeriodAssumption, DelaysAssumption, SecondsAssumption, SliceAssumption,
   SentinelAbove, NoEventAssumption, RasterAssumption

LEMMA FirstOfQueue ==
  ASSUME NEW S, NEW q \in Seq(S), q # <<>>
  PROVE  q[1] \in S /\ 1 \in 1 .. Len(q) /\ Len(q) \in Nat
BY LenProperties, ElementOfSeq, EmptySeq

(* What event_update_pending establishes.                                  *)
LEMMA Refreshing ==
  ASSUME TypeOK, Clocks, NEW q \in Seq(EventId),
         NEW ns \in [EventId -> 0 .. NOT_SCHEDULED], UpdatePending(q, ns)
  PROVE  /\ pending' \in 0 .. NOT_SCHEDULED
         /\ types' \subseteq {"IRQ", "EVENT"}
         /\ "IRQ" \in types' => pending' = 0
         /\ q # <<>> => "EVENT" \in types' /\ pending' <= ns[q[1]]
<1>1. NextTime(q, ns) \in 0 .. NOT_SCHEDULED
  BY FirstOfQueue, ConstantFacts DEF NextTime
<1>2. q # <<>> => NextTime(q, ns) = ns[q[1]] /\ ns[q[1]] \in 0 .. NOT_SCHEDULED
  BY FirstOfQueue DEF NextTime
<1> QED BY <1>1, <1>2, ConstantFacts, SMTT(30) DEF UpdatePending, TypeOK, Clocks

(* event_cancel leaves each list in order and without the event.           *)
LEMMA Cancelling ==
  ASSUME TypeOK, ListsConsistent, QueueSorted, NEW e \in EventId
  PROVE  /\ ShortWithout(e) \in Seq(EventId)
         /\ Injective(ShortWithout(e))
         /\ Members(ShortWithout(e)) = Members(queue) \ {e}
         /\ Sorted(ShortWithout(e), nanosecs)
         /\ ~HeadUnlinked(e) =>
              /\ ShortWithout(e) = <<>> <=> queue = <<>>
              /\ ShortWithout(e) # <<>> => ShortWithout(e)[1] = queue[1]
         /\ LongWithout(e) \in Seq(EventId)
         /\ Injective(LongWithout(e))
         /\ Members(LongWithout(e)) = Members(longQueue) \ {e}
<1>1. /\ queue \in Seq(EventId) /\ Injective(queue) /\ Sorted(queue, nanosecs)
      /\ longQueue \in Seq(EventId) /\ Injective(longQueue)
      /\ nanosecs \in [EventId -> Nat]
  BY ConstantFacts DEF TypeOK, ListsConsistent, QueueSorted
<1>2. /\ e \in Members(queue) <=> Scheduled(e) /\ seconds[e] = 0
      /\ e \in Members(longQueue) <=> Scheduled(e) /\ seconds[e] # 0
  BY DEF ListsConsistent
<1>3. /\ ShortWithout(e) \in Seq(EventId)
      /\ Injective(ShortWithout(e))
      /\ Members(ShortWithout(e)) = Members(queue) \ {e}
      /\ Sorted(ShortWithout(e), nanosecs)
      /\ ~HeadUnlinked(e) =>
           /\ ShortWithout(e) = <<>> <=> queue = <<>>
           /\ ShortWithout(e) # <<>> => ShortWithout(e)[1] = queue[1]
  <2>1. CASE Scheduled(e) /\ seconds[e] = 0
    <3>1. ShortWithout(e) = Without(queue, e) /\ (HeadUnlinked(e) <=> IsHead(queue, e))
      BY <2>1 DEF ShortWithout, HeadUnlinked
    <3> QED BY <3>1, <1>1, Unlinking
  <2>2. CASE ~(Scheduled(e) /\ seconds[e] = 0)
    <3>1. ShortWithout(e) = queue
      BY <2>2 DEF ShortWithout
    <3> QED BY <3>1, <2>2, <1>1, <1>2
  <2> QED BY <2>1, <2>2
<1>4. /\ LongWithout(e) \in Seq(EventId)
      /\ Injective(LongWithout(e))
      /\ Members(LongWithout(e)) = Members(longQueue) \ {e}
  <2>1. CASE Scheduled(e) /\ seconds[e] # 0
    <3>1. LongWithout(e) = Without(longQueue, e)
      BY <2>1 DEF LongWithout
    <3> QED BY <3>1, <1>1, Unlinking
  <2>2. CASE ~(Scheduled(e) /\ seconds[e] # 0)
    <3>1. LongWithout(e) = longQueue
      BY <2>2 DEF LongWithout
    <3> QED BY <3>1, <2>2, <1>1, <1>2
  <2> QED BY <2>1, <2>2
<1> QED BY <1>3, <1>4

(* The time of an event that is not in the list does not matter to it.     *)
LEMMA SortedFrame ==
  ASSUME NEW q \in Seq(EventId), NEW ns \in [EventId -> Nat], Sorted(q, ns),
         NEW e, e \notin Members(q), NEW t
  PROVE  Sorted(q, [ns EXCEPT ![e] = t])
<1>1. \A k \in 1 .. Len(q) : q[k] # e /\ q[k] \in EventId
  BY ElementOfSeq DEF Members
<1> QED BY <1>1 DEF Sorted

LEMMA ScheduleStep ==
  ASSUME IInv, NEW e \in EventId, NEW d \in Delays, Schedule(e, d)
  PROVE  IInv'
<1> DEFINE t  == d + slice
           ns == [nanosecs EXCEPT ![e] = t]
           q  == ShortWithout(e)
<1>1. TypeOK /\ Clocks /\ ListsConsistent /\ QueueSorted /\ Announced
  BY DEF IInv
<1>2. /\ q \in Seq(EventId) /\ Injective(q) /\ Members(q) = Members(queue) \ {e}
      /\ Sorted(q, nanosecs)
      /\ ~HeadUnlinked(e) => /\ q = <<>> <=> queue = <<>>
                             /\ q # <<>> => q[1] = queue[1]
      /\ LongWithout(e) \in Seq(EventId) /\ Injective(LongWithout(e))
      /\ Members(LongWithout(e)) = Members(longQueue) \ {e}
  BY <1>1, Cancelling
<1>3. t \in Nat /\ t < NOT_SCHEDULED
  BY <1>1, ConstantFacts DEF TypeOK, Clocks
<1>4. /\ ns \in [EventId -> 0 .. NOT_SCHEDULED] /\ ns \in [EventId -> Nat]
      /\ nanosecs \in [EventId -> Nat] /\ ns[e] = t
  BY <1>1, <1>3, ConstantFacts DEF TypeOK
<1>5. /\ nanosecs' = ns /\ seconds' = [seconds EXCEPT ![e] = 0]
      /\ longQueue' = LongWithout(e)
      /\ left' = [left EXCEPT ![e] = d]
      /\ UNCHANGED <<longScan, slice, asleep, phase, cursor, calling>>
  BY DEF Schedule, clock
<1>6. PICK i \in 1 .. Len(q) + 1 :
        /\ InsertionPoint(q, ns, i, t)
        /\ queue' = InsertAt(q, i, e)
        /\ UpdatePendingIf(i = 1 \/ HeadUnlinked(e), queue', ns)
  BY DEF Schedule
<1> HIDE DEF t, q, ns
<1>7. /\ queue' \in Seq(EventId) /\ queue' # <<>> /\ Injective(queue')
      /\ Members(queue') = Members(queue) \cup {e}
      /\ queue'[1] = IF i = 1 THEN e ELSE q[1]
  BY <1>2, <1>6, Inserting
<1>8. Sorted(queue', ns)
  <2>1. Sorted(q, ns)
    BY <1>2, <1>4, SortedFrame DEF ns
  <2> QED BY <2>1, <1>2, <1>4, <1>6, InsertingInOrder
<1>9. /\ pending' \in 0 .. NOT_SCHEDULED
      /\ types' \subseteq {"IRQ", "EVENT"}
      /\ "IRQ" \in types' => pending' = 0
  <2>1. CASE i = 1 \/ HeadUnlinked(e)
    BY <2>1, <1>1, <1>4, <1>6, <1>7, Refreshing DEF UpdatePendingIf
  <2>2. CASE ~(i = 1 \/ HeadUnlinked(e))
    BY <2>2, <1>1, <1>6 DEF UpdatePendingIf, TypeOK, Clocks
  <2> QED BY <2>1, <2>2
<1>10. TypeOK'
  <2>1. seconds' \in [EventId -> Nat] /\ left' \in [EventId -> Int]
    BY <1>1, <1>5, ConstantFacts DEF TypeOK
  <2> QED BY <2>1, <1>1, <1>2, <1>4, <1>5, <1>7, <1>9 DEF TypeOK
<1>11. Clocks'
  BY <1>1, <1>5, <1>9 DEF Clocks
<1>12. ListsConsistent'
  <2>1. \A x \in EventId :
          /\ Scheduled(x)' <=> x = e \/ Scheduled(x)
          /\ seconds'[x] = IF x = e THEN 0 ELSE seconds[x]
    BY <1>1, <1>3, <1>5 DEF Scheduled, ns, TypeOK
  <2> QED BY <2>1, <1>1, <1>2, <1>5, <1>7 DEF ListsConsistent
<1>13. QueueSorted'
  BY <1>5, <1>8 DEF QueueSorted
<1>14. Announced'
  <2>1. CASE i = 1 \/ HeadUnlinked(e)
    BY <2>1, <1>1, <1>4, <1>5, <1>6, <1>7, Refreshing DEF UpdatePendingIf, Announced
  <2>2. CASE ~(i = 1 \/ HeadUnlinked(e))
    <3>1. q # <<>> /\ queue # <<>> /\ queue'[1] = queue[1]
      <4>1. q # <<>>
        BY <2>2, <1>6, EmptySeq
      <4> QED BY <4>1, <2>2, <1>2, <1>7
    <3>2. queue[1] # e
      <4>1. q[1] \in Members(q)
        BY <3>1, <1>2, FirstOfQueue DEF Members
      <4> QED BY <4>1, <3>1, <2>2, <1>2
    <3>3. ns[queue[1]] = nanosecs[queue[1]]
      BY <3>2 DEF ns
    <3> QED BY <3>1, <3>3, <2>2, <1>1, <1>5, <1>6 DEF UpdatePendingIf, Announced
  <2> QED BY <2>1, <2>2
<1> QED BY <1>10, <1>11, <1>12, <1>13, <1>14 DEF IInv

LEMMA ScheduleLongStep ==
  ASSUME IInv, NEW e \in EventId, NEW s \in LongSeconds, NEW d \in Delays,
         ScheduleLong(e, s, d)
  PROVE  IInv'
<1> DEFINE t == d + ScanPeriodRun
           q == ShortWithout(e)
<1>1. TypeOK /\ Clocks /\ ListsConsistent /\ QueueSorted /\ Announced
  BY DEF IInv
<1>2. /\ q \in Seq(EventId) /\ Injective(q) /\ Members(q) = Members(queue) \ {e}
      /\ Sorted(q, nanosecs)
      /\ ~HeadUnlinked(e) => /\ q = <<>> <=> queue = <<>>
                             /\ q # <<>> => q[1] = queue[1]
      /\ LongWithout(e) \in Seq(EventId) /\ Injective(LongWithout(e))
      /\ Members(LongWithout(e)) = Members(longQueue) \ {e}
  BY <1>1, Cancelling
<1>3. t \in Nat /\ t < NOT_SCHEDULED /\ s \in Nat \ {0}
  BY <1>1, ConstantFacts DEF TypeOK, Clocks, ScanPeriodRun
<1>4. /\ nanosecs' = [nanosecs EXCEPT ![e] = t]
      /\ seconds' = [seconds EXCEPT ![e] = s]
      /\ queue' = q
      /\ longQueue' = InsertAt(LongWithout(e), 1, e)
      /\ left' = [left EXCEPT ![e] = s * LONG_SCAN_PERIOD + d]
      /\ UpdatePendingIf(HeadUnlinked(e), queue', nanosecs)
      /\ UNCHANGED <<longScan, slice, asleep, phase, cursor, calling>>
  BY DEF ScheduleLong, clock
<1>5. nanosecs \in [EventId -> 0 .. NOT_SCHEDULED] /\ nanosecs \in [EventId -> Nat]
  BY <1>1, ConstantFacts DEF TypeOK
<1> HIDE DEF t, q
<1>6. /\ longQueue' \in Seq(EventId) /\ Injective(longQueue')
      /\ Members(longQueue') = Members(longQueue) \cup {e}
  <2>1. LongWithout(e) \in Seq(EventId) /\ 1 \in 1 .. Len(LongWithout(e)) + 1
        /\ e \notin Members(LongWithout(e))
    BY <1>2, LenProperties
  <2> QED BY <2>1, <1>2, <1>4, Inserting
<1>7. /\ pending' \in 0 .. NOT_SCHEDULED
      /\ types' \subseteq {"IRQ", "EVENT"}
      /\ "IRQ" \in types' => pending' = 0
  <2>1. CASE HeadUnlinked(e)
    BY <2>1, <1>1, <1>2, <1>4, <1>5, Refreshing DEF UpdatePendingIf
  <2>2. CASE ~HeadUnlinked(e)
    BY <2>2, <1>1, <1>4 DEF UpdatePendingIf, TypeOK, Clocks
  <2> QED BY <2>1, <2>2
<1>8. TypeOK'
  <2>1. s * LONG_SCAN_PERIOD + d \in Int
    BY <1>3, ConstantFacts
  <2>2. /\ seconds' \in [EventId -> Nat] /\ left' \in [EventId -> Int]
        /\ nanosecs' \in [EventId -> 0 .. NOT_SCHEDULED]
    BY <2>1, <1>1, <1>3, <1>4, <1>5, ConstantFacts, SMTT(30) DEF TypeOK
  <2> QED BY <2>2, <1>1, <1>2, <1>4, <1>6, <1>7 DEF TypeOK
<1>9. Clocks'
  BY <1>1, <1>4, <1>7 DEF Clocks
<1>10. ListsConsistent'
  <2>1. \A x \in EventId :
          /\ Scheduled(x)' <=> x = e \/ Scheduled(x)
          /\ seconds'[x] = IF x = e THEN s ELSE seconds[x]
    BY <1>1, <1>3, <1>4 DEF Scheduled, TypeOK
  <2> QED BY <2>1, <1>1, <1>2, <1>3, <1>4, <1>6 DEF ListsConsistent
<1>11. QueueSorted'
  BY <1>2, <1>4, <1>5, SortedFrame DEF QueueSorted
<1>12. Announced'
  <2>1. ASSUME q # <<>> PROVE nanosecs'[q[1]] = nanosecs[q[1]]
    <3>1. q[1] \in Members(q)
      BY <2>1, <1>2, FirstOfQueue DEF Members
    <3> QED BY <3>1, <1>2, <1>4
  <2>2. CASE HeadUnlinked(e)
    BY <2>1, <2>2, <1>1, <1>2, <1>4, <1>5, Refreshing DEF UpdatePendingIf, Announced
  <2>3. CASE ~HeadUnlinked(e)
    BY <2>1, <2>3, <1>1, <1>2, <1>4 DEF UpdatePendingIf, Announced
  <2> QED BY <2>2, <2>3
<1> QED BY <1>8, <1>9, <1>10, <1>11, <1>12 DEF IInv

LEMMA CancelStep ==
  ASSUME IInv, NEW e \in EventId, Cancel(e)
  PROVE  IInv'
<1> DEFINE q == ShortWithout(e)
<1>1. TypeOK /\ Clocks /\ ListsConsistent /\ QueueSorted /\ Announced
  BY DEF IInv
<1>2. /\ q \in Seq(EventId) /\ Injective(q) /\ Members(q) = Members(queue) \ {e}
      /\ Sorted(q, nanosecs)
      /\ ~HeadUnlinked(e) => /\ q = <<>> <=> queue = <<>>
                             /\ q # <<>> => q[1] = queue[1]
      /\ LongWithout(e) \in Seq(EventId) /\ Injective(LongWithout(e))
      /\ Members(LongWithout(e)) = Members(longQueue) \ {e}
  BY <1>1, Cancelling
<1>3. /\ nanosecs' = [nanosecs EXCEPT ![e] = NOT_SCHEDULED]
      /\ queue' = q
      /\ longQueue' = LongWithout(e)
      /\ left' = [left EXCEPT ![e] = 0]
      /\ UpdatePendingIf(HeadUnlinked(e), queue', nanosecs)
      /\ UNCHANGED <<seconds, longScan, slice, asleep, phase, cursor, calling>>
  BY DEF Cancel, clock
<1>4. nanosecs \in [EventId -> 0 .. NOT_SCHEDULED] /\ nanosecs \in [EventId -> Nat]
  BY <1>1, ConstantFacts DEF TypeOK
<1> HIDE DEF q
<1>5. /\ pending' \in 0 .. NOT_SCHEDULED
      /\ types' \subseteq {"IRQ", "EVENT"}
      /\ "IRQ" \in types' => pending' = 0
  <2>1. CASE HeadUnlinked(e)
    BY <2>1, <1>1, <1>2, <1>3, <1>4, Refreshing DEF UpdatePendingIf
  <2>2. CASE ~HeadUnlinked(e)
    BY <2>2, <1>1, <1>3 DEF UpdatePendingIf, TypeOK, Clocks
  <2> QED BY <2>1, <2>2
<1>6. TypeOK'
  <2>1. left' \in [EventId -> Int] /\ nanosecs' \in [EventId -> 0 .. NOT_SCHEDULED]
    BY <1>1, <1>3, ConstantFacts DEF TypeOK
  <2> QED BY <2>1, <1>1, <1>2, <1>3, <1>5 DEF TypeOK
<1>7. Clocks'
  BY <1>1, <1>3, <1>5 DEF Clocks
<1>8. ListsConsistent'
  <2>1. \A x \in EventId : Scheduled(x)' <=> x # e /\ Scheduled(x)
    BY <1>1, <1>3 DEF Scheduled, TypeOK
  <2> QED BY <2>1, <1>1, <1>2, <1>3 DEF ListsConsistent
<1>9. QueueSorted'
  BY <1>2, <1>3, <1>4, SortedFrame DEF QueueSorted
<1>10. Announced'
  <2>1. ASSUME q # <<>> PROVE nanosecs'[q[1]] = nanosecs[q[1]]
    <3>1. q[1] \in Members(q)
      BY <2>1, <1>2, FirstOfQueue DEF Members
    <3> QED BY <3>1, <1>2, <1>3
  <2>2. CASE HeadUnlinked(e)
    BY <2>1, <2>2, <1>1, <1>2, <1>3, <1>4, Refreshing DEF UpdatePendingIf, Announced
  <2>3. CASE ~HeadUnlinked(e)
    BY <2>1, <2>3, <1>1, <1>2, <1>3 DEF UpdatePendingIf, Announced
  <2> QED BY <2>2, <2>3
<1> QED BY <1>6, <1>7, <1>8, <1>9, <1>10 DEF IInv

(* Steps that touch neither the lists nor the times.                       *)
LEMMA ListsFrame ==
  ASSUME IInv, UNCHANGED <<nanosecs, seconds, queue, longQueue>>
  PROVE  ListsConsistent' /\ QueueSorted'
BY DEF IInv, ListsConsistent, QueueSorted, Scheduled

LEMMA IrqStep ==
  ASSUME IInv, IrqDeliverable \/ IrqMasked
  PROVE  IInv'
<1>1. TypeOK /\ Clocks /\ Announced
  BY DEF IInv
<1>2. NextTime(queue, nanosecs) \in 0 .. NOT_SCHEDULED
  BY <1>1, FirstOfQueue, ConstantFacts DEF NextTime, TypeOK
<1>3. queue # <<>> => nanosecs[queue[1]] \in 0 .. NOT_SCHEDULED
  BY <1>1, FirstOfQueue DEF TypeOK
<1>4. ListsConsistent' /\ QueueSorted'
  BY ListsFrame DEF IrqDeliverable, IrqMasked
<1>5. CASE IrqDeliverable
  BY <1>1, <1>3, <1>4, <1>5, ConstantFacts
  DEF IrqDeliverable, IInv, TypeOK, Clocks, Announced, clock
<1>6. CASE IrqMasked
  BY <1>1, <1>2, <1>3, <1>4, <1>6, ConstantFacts, SMTT(30)
  DEF IrqMasked, IInv, TypeOK, Clocks, Announced, NextTime, clock
<1> QED BY <1>5, <1>6

LEMMA ElapseType ==
  ASSUME TypeOK, NEW n \in Int, Elapse(n)
  PROVE  left' \in [EventId -> Int]
BY DEF TypeOK, Elapse

(* The steps of the core and its sleep that leave the lists alone.         *)
LEMMA CoreStep ==
  ASSUME IInv,
         \/ BeginSlice \/ \E n \in 1 .. MaxBlock : RunCode(n)
         \/ Sleep \/ HandlePending \/ SleepJump \/ CallbackReturn
         \/ ExecuteDone \/ AcceptIrq \/ NoIrq \/ EndSlice \/ Halt
  PROVE  IInv'
<1>1. TypeOK /\ Clocks /\ Announced
  BY DEF IInv
<1>2. slice \in Nat /\ pending \in Nat /\ queue \in Seq(EventId)
      /\ nanosecs \in [EventId -> 0 .. NOT_SCHEDULED]
  BY <1>1, ConstantFacts DEF TypeOK
<1>3. queue # <<>> => nanosecs[queue[1]] \in 0 .. NOT_SCHEDULED
  BY <1>2, FirstOfQueue
<1>4. CASE BeginSlice
  <2>1. ListsConsistent' /\ QueueSorted'
    BY <1>4, ListsFrame DEF BeginSlice, queues
  <2> QED BY <2>1, <1>1, <1>4, ConstantFacts
          DEF BeginSlice, queues, IInv, TypeOK, Clocks, Announced, Phases
<1>5. ASSUME NEW n \in 1 .. MaxBlock, RunCode(n) PROVE IInv'
  <2>1. ListsConsistent' /\ QueueSorted'
    BY <1>5, ListsFrame DEF RunCode, queues
  <2>2. left' \in [EventId -> Int]
    BY <1>1, <1>5, ElapseType, ConstantFacts DEF RunCode
  <2>3. slice' \in Nat /\ slice' <= SliceLength + MaxBlock - 1
    BY <1>2, <1>5, ConstantFacts DEF RunCode
  <2> QED BY <2>1, <2>2, <2>3, <1>1, <1>5
          DEF RunCode, queues, IInv, TypeOK, Clocks, Announced, Phases
<1>6. CASE Sleep
  <2>1. ListsConsistent' /\ QueueSorted'
    BY <1>6, ListsFrame DEF Sleep, queues
  <2> QED BY <2>1, <1>1, <1>6
          DEF Sleep, queues, IInv, TypeOK, Clocks, Announced, Phases
<1>7. CASE HandlePending
  <2>1. ListsConsistent' /\ QueueSorted'
    BY <1>7, ListsFrame DEF HandlePending, queues
  <2> QED BY <2>1, <1>1, <1>7
          DEF HandlePending, queues, IInv, TypeOK, Clocks, Announced, Phases
<1>8. CASE SleepJump
  <2>1. ListsConsistent' /\ QueueSorted'
    BY <1>8, ListsFrame DEF SleepJump, queues
  <2>2. left' \in [EventId -> Int]
    BY <1>1, <1>2, <1>8, ElapseType DEF SleepJump
  <2>3. slice' \in Nat /\ slice' <= SliceLength + MaxBlock - 1
    BY <1>2, <1>8, ConstantFacts DEF SleepJump
  <2> QED BY <2>1, <2>2, <2>3, <1>1, <1>8
          DEF SleepJump, queues, IInv, TypeOK, Clocks, Announced, Phases
<1>9. CASE CallbackReturn
  <2>1. ListsConsistent' /\ QueueSorted'
    BY <1>9, ListsFrame DEF CallbackReturn, queues
  <2> QED BY <2>1, <1>1, <1>9
          DEF CallbackReturn, queues, IInv, TypeOK, Clocks, Announced, Phases
<1>10. CASE ExecuteDone
  <2>1. ListsConsistent' /\ QueueSorted'
    BY <1>10, ListsFrame DEF ExecuteDone, queues
  <2>2. /\ pending' \in 0 .. NOT_SCHEDULED
        /\ types' \subseteq {"IRQ", "EVENT"}
        /\ "IRQ" \in types' => pending' = 0
        /\ queue # <<>> => "EVENT" \in types' /\ pending' <= nanosecs[queue[1]]
    BY <1>1, <1>2, <1>10, Refreshing DEF ExecuteDone
  <2>3. TypeOK'
    BY <2>2, <1>1, <1>10 DEF ExecuteDone, queues, TypeOK, Phases
  <2>4. Clocks' /\ Announced'
    BY <2>2, <1>1, <1>10 DEF ExecuteDone, queues, Clocks, Announced
  <2> QED BY <2>1, <2>3, <2>4 DEF IInv
<1>11. CASE AcceptIrq
  <2>1. ListsConsistent' /\ QueueSorted'
    BY <1>11, ListsFrame DEF AcceptIrq, queues
  <2>2. NextTime(queue, nanosecs) \in 0 .. NOT_SCHEDULED
    BY <1>2, <1>3, ConstantFacts DEF NextTime
  <2>3. TypeOK'
    BY <2>2, <1>1, <1>11 DEF AcceptIrq, queues, TypeOK, Phases
  <2>4. Clocks'
    BY <1>1, <1>11 DEF AcceptIrq, queues, Clocks
  <2>5. Announced'
    BY <1>1, <1>2, <1>3, <1>11 DEF AcceptIrq, queues, Announced, NextTime
  <2> QED BY <2>1, <2>3, <2>4, <2>5 DEF IInv
<1>12. CASE NoIrq
  <2>1. ListsConsistent' /\ QueueSorted'
    BY <1>12, ListsFrame DEF NoIrq, queues
  <2> QED BY <2>1, <1>1, <1>12
          DEF NoIrq, queues, IInv, TypeOK, Clocks, Announced, Phases
<1>13. CASE EndSlice
  <2>1. ListsConsistent' /\ QueueSorted'
    BY <1>13, ListsFrame DEF EndSlice, queues
  <2>2. left' \in [EventId -> Int]
    BY <1>1, <1>2, <1>13, ElapseType, ConstantFacts DEF EndSlice
  <2>3. TypeOK'
    BY <2>2, <1>1, <1>13, ConstantFacts DEF EndSlice, queues, TypeOK, Phases
  <2>4. Clocks' /\ Announced'
    BY <1>1, <1>13, ConstantFacts DEF EndSlice, queues, Clocks, Announced
  <2> QED BY <2>1, <2>3, <2>4 DEF IInv
<1>14. CASE Halt
  <2>1. ListsConsistent' /\ QueueSorted'
    BY <1>14, ListsFrame DEF Halt, queues
  <2> QED BY <2>1, <1>1, <1>14
          DEF Halt, queues, IInv, TypeOK, Clocks, Announced, Phases
<1> QED BY <1>4, <1>5, <1>6, <1>7, <1>8, <1>9, <1>10, <1>11, <1>12, <1>13, <1>14

LEMMA Popping ==
  ASSUME NEW q \in Seq(EventId), Injective(q), q # <<>>
  PROVE  /\ Tail(q) \in Seq(EventId)
         /\ Injective(Tail(q))
         /\ Members(Tail(q)) = Members(q) \ {q[1]}
         /\ q[1] \in Members(q)
         /\ \A ns \in [EventId -> Nat] : Sorted(q, ns) => Sorted(Tail(q), ns)
<1> DEFINE r == Tail(q)
<1>1. /\ r \in Seq(EventId) /\ Len(r) = Len(q) - 1
      /\ \A k \in 1 .. Len(r) : r[k] = q[k + 1]
  BY HeadTailProperties
<1>2. Len(q) \in Nat /\ 1 \in 1 .. Len(q)
  BY FirstOfQueue
<1> HIDE DEF r
<1>3. Injective(r)
  <2> SUFFICES ASSUME NEW j \in 1 .. Len(r), NEW k \in 1 .. Len(r), r[j] = r[k]
               PROVE  j = k
    BY DEF Injective
  <2>1. j + 1 \in 1 .. Len(q) /\ k + 1 \in 1 .. Len(q) /\ q[j + 1] = q[k + 1]
    BY <1>1, <1>2
  <2> QED BY <2>1 DEF Injective
<1>4. Members(r) = Members(q) \ {q[1]}
  <2>1. ASSUME NEW k \in 1 .. Len(r) PROVE r[k] \in Members(q) \ {q[1]}
    <3>1. k + 1 \in 1 .. Len(q) /\ k + 1 # 1 /\ r[k] = q[k + 1]
      BY <1>1, <1>2
    <3> QED BY <3>1, <1>2 DEF Members, Injective
  <2>2. ASSUME NEW k \in 1 .. Len(q), q[k] # q[1] PROVE q[k] \in Members(r)
    <3>1. k - 1 \in 1 .. Len(r) /\ r[k - 1] = q[k]
      BY <2>2, <1>1, <1>2
    <3> QED BY <3>1 DEF Members
  <2> QED BY <2>1, <2>2 DEF Members
<1>5. ASSUME NEW ns \in [EventId -> Nat], Sorted(q, ns) PROVE Sorted(r, ns)
  <2> SUFFICES ASSUME NEW j \in 1 .. Len(r), NEW k \in 1 .. Len(r), j < k
               PROVE  ns[r[j]] <= ns[r[k]]
    BY DEF Sorted
  <2>1. /\ j + 1 \in 1 .. Len(q) /\ k + 1 \in 1 .. Len(q) /\ j + 1 < k + 1
        /\ r[j] = q[j + 1] /\ r[k] = q[k + 1]
    BY <1>1, <1>2
  <2> QED BY <2>1, <1>5 DEF Sorted
<1>6. q[1] \in Members(q)
  BY <1>2 DEF Members
<1> QED BY <1>1, <1>3, <1>4, <1>5, <1>6 DEF r

LEMMA ExecutePopStep ==
  ASSUME IInv, ExecutePop
  PROVE  IInv'
<1> DEFINE e == queue[1]
<1>1. TypeOK /\ Clocks /\ ListsConsistent /\ QueueSorted /\ Announced
  BY DEF IInv
<1>2. nanosecs \in [EventId -> Nat] /\ queue \in Seq(EventId) /\ queue # <<>>
  BY <1>1, ConstantFacts DEF TypeOK, ExecutePop, HeadDue
<1>3. /\ queue' \in Seq(EventId) /\ Injective(queue')
      /\ Members(queue') = Members(queue) \ {e}
      /\ e \in Members(queue) /\ e \in EventId
      /\ Sorted(queue', nanosecs)
  BY <1>1, <1>2, Popping, FirstOfQueue DEF ExecutePop, ListsConsistent, QueueSorted
<1>4. /\ nanosecs' = [nanosecs EXCEPT ![e] = NOT_SCHEDULED]
      /\ left' = [left EXCEPT ![e] = 0]
      /\ calling' = e /\ phase' = "callback"
      /\ UNCHANGED <<seconds, longQueue, longScan, slice, pending, types,
                     asleep, cursor>>
  BY DEF ExecutePop, clock
<1> HIDE DEF e
<1>5. TypeOK'
  <2>1. left' \in [EventId -> Int]
    BY <1>1, <1>3, <1>4 DEF TypeOK
  <2>2. nanosecs' \in [EventId -> 0 .. NOT_SCHEDULED]
    BY <1>1, <1>3, <1>4, ConstantFacts DEF TypeOK
  <2> QED BY <2>1, <2>2, <1>1, <1>3, <1>4 DEF TypeOK, Phases
<1>6. Clocks' /\ Announced'
  BY <1>1, <1>4 DEF Clocks, Announced
<1>7. ListsConsistent'
  <2>1. \A x \in EventId : Scheduled(x)' <=> x # e /\ Scheduled(x)
    BY <1>1, <1>4 DEF Scheduled, TypeOK
  <2>2. e \notin Members(longQueue)
    BY <1>1, <1>3 DEF ListsConsistent
  <2> QED BY <2>1, <2>2, <1>1, <1>3, <1>4 DEF ListsConsistent
<1>8. QueueSorted'
  BY <1>2, <1>3, <1>4, SortedFrame DEF QueueSorted
<1> QED BY <1>5, <1>6, <1>7, <1>8 DEF IInv

LEMMA EventRunSliceStep ==
  ASSUME IInv, EventRunSlice
  PROVE  IInv'
<1>1. TypeOK /\ Clocks /\ ListsConsistent /\ QueueSorted /\ Announced
  BY DEF IInv
<1>2. /\ slice \in Nat /\ longScan \in 1 .. LONG_SCAN_PERIOD
      /\ nanosecs \in [EventId -> 0 .. NOT_SCHEDULED]
      /\ queue \in Seq(EventId)
  BY <1>1 DEF TypeOK, Clocks
<1>3. /\ Rebased \in [EventId -> 0 .. NOT_SCHEDULED]
      /\ \A x \in EventId : Rebased[x] = NOT_SCHEDULED <=> nanosecs[x] = NOT_SCHEDULED
  BY <1>2, ConstantFacts DEF Rebased, Scheduled
<1>4. nanosecs' = Rebased
      /\ UNCHANGED <<seconds, queue, longQueue, slice, asleep, calling, left>>
  BY DEF EventRunSlice
<1>5. \A k \in 1 .. Len(queue) :
        /\ queue[k] \in EventId
        /\ Scheduled(queue[k]) /\ seconds[queue[k]] = 0
  BY <1>1, <1>2, ElementOfSeq DEF ListsConsistent, Members
<1>6. Sorted(queue, Rebased)
  <2> SUFFICES ASSUME NEW j \in 1 .. Len(queue), NEW k \in 1 .. Len(queue), j < k
               PROVE  Rebased[queue[j]] <= Rebased[queue[k]]
    BY DEF Sorted
  <2>1. nanosecs[queue[j]] <= nanosecs[queue[k]]
    BY <1>1 DEF QueueSorted, Sorted
  <2>2. \A x \in {queue[j], queue[k]} :
          Rebased[x] = IF nanosecs[x] <= slice THEN 0 ELSE nanosecs[x] - slice
    BY <1>5 DEF Rebased
  <2>3. nanosecs[queue[j]] \in Nat /\ nanosecs[queue[k]] \in Nat
    BY <1>2, <1>5, ConstantFacts
  <2> QED BY <2>1, <2>2, <2>3, <1>2
<1>7. QueueSorted'
  BY <1>4, <1>6 DEF QueueSorted
<1>8. ListsConsistent'
  <2>1. \A x \in EventId : Scheduled(x)' <=> Scheduled(x)
    BY <1>3, <1>4 DEF Scheduled
  <2> QED BY <2>1, <1>1, <1>4 DEF ListsConsistent
<1>9. CASE longScan - slice <= 0
  <2>1. /\ longScan' = longScan - slice + LONG_SCAN_PERIOD
        /\ phase' = "scan" /\ cursor' = 1 /\ UNCHANGED <<pending, types>>
    BY <1>9 DEF EventRunSlice
  <2>2. longScan' \in 1 .. LONG_SCAN_PERIOD
    BY <2>1, <1>1, <1>2, <1>9, ConstantFacts DEF Clocks
  <2>3. TypeOK'
    BY <2>1, <2>2, <1>1, <1>3, <1>4 DEF TypeOK, Phases
  <2>4. Clocks' /\ Announced'
    BY <2>1, <2>2, <1>1, <1>4 DEF Clocks, Announced
  <2> QED BY <2>3, <2>4, <1>7, <1>8 DEF IInv
<1>10. CASE ~(longScan - slice <= 0)
  <2>1. /\ longScan' = longScan - slice
        /\ phase' = "idle" /\ cursor' = cursor /\ UpdatePending(queue, Rebased)
    BY <1>10 DEF EventRunSlice
  <2>2. longScan' \in 1 .. LONG_SCAN_PERIOD
    BY <2>1, <1>2, <1>10, ConstantFacts
  <2>3. /\ pending' \in 0 .. NOT_SCHEDULED
        /\ types' \subseteq {"IRQ", "EVENT"}
        /\ "IRQ" \in types' => pending' = 0
        /\ queue # <<>> => "EVENT" \in types' /\ pending' <= Rebased[queue[1]]
    BY <2>1, <1>1, <1>2, <1>3, Refreshing
  <2>4. TypeOK'
    BY <2>1, <2>2, <2>3, <1>1, <1>3, <1>4 DEF TypeOK, Phases
  <2>5. Clocks' /\ Announced'
    BY <2>1, <2>2, <2>3, <1>1, <1>4 DEF Clocks, Announced
  <2> QED BY <2>4, <2>5, <1>7, <1>8 DEF IInv
<1> QED BY <1>9, <1>10

LEMMA ScanStep ==
  ASSUME IInv, ScanStay \/ ScanMove \/ ScanDone
  PROVE  IInv'
<1>1. TypeOK /\ Clocks /\ ListsConsistent /\ QueueSorted /\ Announced
  BY DEF IInv
<1>2. /\ nanosecs \in [EventId -> 0 .. NOT_SCHEDULED]
      /\ nanosecs \in [EventId -> Nat] /\ seconds \in [EventId -> Nat]
      /\ queue \in Seq(EventId) /\ longQueue \in Seq(EventId)
  BY <1>1, ConstantFacts DEF TypeOK
<1>3. phase = "scan" /\ cursor <= Len(longQueue)
        => cursor \in 1 .. Len(longQueue) /\ longQueue[cursor] \in EventId
           /\ Scheduled(longQueue[cursor]) /\ seconds[longQueue[cursor]] # 0
  <2> SUFFICES ASSUME phase = "scan", cursor <= Len(longQueue)
               PROVE  /\ cursor \in 1 .. Len(longQueue)
                      /\ longQueue[cursor] \in Members(longQueue)
    BY <1>1 DEF ListsConsistent
  <2>1. cursor \in 1 .. Len(longQueue)
    BY <1>1, <1>2, LenProperties DEF TypeOK, Clocks
  <2> QED BY <2>1 DEF Members
<1>4. CASE ScanStay
  <2> DEFINE e == longQueue[cursor]
  <2>1. /\ phase = "scan" /\ e \in EventId /\ seconds[e] > 1
        /\ seconds' = [seconds EXCEPT ![e] = seconds[e] - 1]
        /\ cursor' = cursor + 1
        /\ UNCHANGED <<nanosecs, queue, longQueue, longScan, slice, pending, types,
                       asleep, phase, calling, left>>
    BY <1>3, <1>4 DEF ScanStay, clock
  <2> HIDE DEF e
  <2>2. seconds' \in [EventId -> Nat]
        /\ \A x \in EventId : seconds'[x] = 0 <=> seconds[x] = 0
    BY <2>1, <1>2
  <2>3. TypeOK'
    BY <2>1, <2>2, <1>1 DEF TypeOK
  <2>4. Clocks' /\ Announced' /\ QueueSorted'
    BY <2>1, <1>1 DEF Clocks, Announced, QueueSorted, TypeOK
  <2>5. ListsConsistent'
    BY <2>1, <2>2, <1>1 DEF ListsConsistent, Scheduled
  <2> QED BY <2>3, <2>4, <2>5 DEF IInv
<1>5. CASE ScanMove
  <2> DEFINE e == longQueue[cursor]
  <2>1. /\ phase = "scan" /\ e \in EventId /\ cursor \in 1 .. Len(longQueue)
        /\ Scheduled(e) /\ seconds[e] # 0
        /\ seconds' = [seconds EXCEPT ![e] = 0]
        /\ longQueue' = RemoveAt(longQueue, cursor)
        /\ UNCHANGED <<nanosecs, longScan, slice, asleep, phase, cursor, calling, left>>
    BY <1>3, <1>5 DEF ScanMove, clock
  <2>2. PICK i \in 1 .. Len(queue) + 1 :
          /\ InsertionPoint(queue, nanosecs, i, nanosecs[e])
          /\ queue' = InsertAt(queue, i, e)
          /\ UpdatePendingIf(i = 1, queue', nanosecs)
    BY <1>5 DEF ScanMove
  <2>3. /\ longQueue' \in Seq(EventId) /\ Injective(longQueue')
        /\ Members(longQueue') = Members(longQueue) \ {e}
    BY <2>1, <1>1, <1>2, Removing DEF ListsConsistent
  <2> HIDE DEF e
  <2>4. e \notin Members(queue)
    BY <2>1, <1>1 DEF ListsConsistent
  <2>5. /\ queue' \in Seq(EventId) /\ queue' # <<>> /\ Injective(queue')
        /\ Members(queue') = Members(queue) \cup {e}
    <3>1. Injective(queue)
      BY <1>1 DEF ListsConsistent
    <3>2. queue \in Seq(EventId) /\ e \in EventId /\ i \in 1 .. Len(queue) + 1
      BY <2>1, <2>2, <1>2
    <3> QED BY ONLY <3>1, <3>2, <2>2, <2>4, Inserting
  <2>6. QueueSorted'
    <3>1. Sorted(InsertAt(queue, i, e), nanosecs)
      BY <2>1, <2>2, <1>1, <1>2, InsertingInOrder DEF QueueSorted
    <3> QED BY <3>1, <2>1, <2>2 DEF QueueSorted
  <2>7. /\ pending' \in 0 .. NOT_SCHEDULED
        /\ types' \subseteq {"IRQ", "EVENT"}
        /\ "IRQ" \in types' => pending' = 0
    <3>1. CASE i = 1
      BY <3>1, <2>2, <2>5, <1>1, <1>2, Refreshing DEF UpdatePendingIf
    <3>2. CASE i # 1
      BY <3>2, <2>2, <1>1 DEF UpdatePendingIf, TypeOK, Clocks
    <3> QED BY <3>1, <3>2
  <2>8. TypeOK'
    <3>1. seconds' \in [EventId -> Nat]
      BY <2>1, <1>2
    <3> QED BY <3>1, <2>1, <2>3, <2>5, <2>7, <1>1 DEF TypeOK
  <2>9. Clocks' /\ Announced'
    BY <2>1, <2>7, <1>1 DEF Clocks, Announced
  <2>10. ListsConsistent'
    <3>1. \A x \in EventId : /\ Scheduled(x)' <=> Scheduled(x)
                            /\ seconds'[x] = IF x = e THEN 0 ELSE seconds[x]
      BY <2>1, <1>2 DEF Scheduled
    <3> QED BY <3>1, <2>1, <2>3, <2>5, <1>1 DEF ListsConsistent
  <2> QED BY <2>6, <2>8, <2>9, <2>10 DEF IInv
<1>6. CASE ScanDone
  <2>1. ListsConsistent' /\ QueueSorted'
    BY <1>6, ListsFrame DEF ScanDone, queues
  <2>2. /\ pending' \in 0 .. NOT_SCHEDULED
        /\ types' \subseteq {"IRQ", "EVENT"}
        /\ "IRQ" \in types' => pending' = 0
        /\ queue # <<>> => "EVENT" \in types' /\ pending' <= nanosecs[queue[1]]
    BY <1>1, <1>2, <1>6, Refreshing DEF ScanDone
  <2>3. TypeOK'
    BY <2>2, <1>1, <1>6 DEF ScanDone, queues, TypeOK, Phases
  <2>4. Clocks' /\ Announced'
    BY <2>2, <1>1, <1>6 DEF ScanDone, queues, Clocks, Announced
  <2> QED BY <2>1, <2>3, <2>4 DEF IInv
<1> QED BY <1>4, <1>5, <1>6

LEMMA ResetStep ==
  ASSUME IInv, Reset
  PROVE  IInv'
<1> DEFINE old == Without(queue, RasterEvent)
<1>1. TypeOK /\ Clocks /\ ListsConsistent
  BY DEF IInv
<1>2. old \in Seq(EventId) /\ nanosecs \in [EventId -> 0 .. NOT_SCHEDULED]
  BY <1>1, Unlinking DEF TypeOK, ListsConsistent
<1>3. NextTime(old, nanosecs) \in 0 .. NOT_SCHEDULED /\ RasterDelay \in 0 .. NOT_SCHEDULED
  BY <1>2, FirstOfQueue, ConstantFacts DEF NextTime
<1>4. /\ pending' \in {RasterDelay, NextTime(old, nanosecs)}
      /\ types' \subseteq {"EVENT"}
      /\ queue' = <<>> /\ longQueue' = <<>> /\ slice' = 0 /\ asleep' = FALSE
      /\ nanosecs' = [e \in EventId |-> NOT_SCHEDULED]
      /\ left' = [e \in EventId |-> 0]
      /\ seconds' = [seconds EXCEPT ![RasterEvent] = 0]
      /\ longScan' = LONG_SCAN_PERIOD
      /\ UNCHANGED <<phase, cursor, calling>>
      /\ phase # "scan"
  BY DEF Reset
<1> HIDE DEF old
<1>5. seconds' \in [EventId -> Nat] /\ queue' \in Seq(EventId) /\ longQueue' \in Seq(EventId)
  BY <1>1, <1>4, EmptySeq, ConstantFacts DEF TypeOK
<1>6. TypeOK'
  <2>1. NOT_SCHEDULED \in 0 .. NOT_SCHEDULED /\ LONG_SCAN_PERIOD \in Int
    BY ConstantFacts
  <2>2. /\ nanosecs' \in [EventId -> 0 .. NOT_SCHEDULED]
        /\ left' \in [EventId -> Int] /\ longScan' \in Int
    BY <2>1, <1>4
  <2>3. pending' \in 0 .. NOT_SCHEDULED
    BY <1>3, <1>4
  <2> QED BY <2>2, <2>3, <1>1, <1>4, <1>5 DEF TypeOK
<1>7. Clocks' /\ Announced'
  BY <1>1, <1>4, ConstantFacts DEF Clocks, Announced
<1>8. Len(<<>>) = 0
  OBVIOUS
<1>9. Members(<<>>) = {} /\ Injective(<<>>)
  BY <1>8 DEF Members, Injective
<1>10. \A e \in EventId : ~Scheduled(e)'
  BY <1>4 DEF Scheduled
<1>11. ListsConsistent'
  BY <1>4, <1>9, <1>10 DEF ListsConsistent
<1>12. QueueSorted'
  BY <1>4, <1>8 DEF QueueSorted, Sorted
<1> QED BY <1>6, <1>7, <1>11, <1>12 DEF IInv

LEMMA InitIInv == Init => IInv
<1> SUFFICES ASSUME Init PROVE IInv
  OBVIOUS
<1>1. TypeOK
  <2>1. <<>> \in Seq(EventId)
    BY EmptySeq
  <2>2. NOT_SCHEDULED \in 0 .. NOT_SCHEDULED /\ LONG_SCAN_PERIOD \in Int
    BY ConstantFacts
  <2>3. /\ nanosecs \in [EventId -> 0 .. NOT_SCHEDULED]
        /\ seconds \in [EventId -> Nat] /\ left \in [EventId -> Int]
    BY <2>2 DEF Init
  <2>4. pending \in 0 .. NOT_SCHEDULED /\ longScan \in Int
    BY <2>2 DEF Init
  <2> QED BY <2>1, <2>3, <2>4 DEF Init, TypeOK, Phases
<1>2. Clocks /\ Announced
  BY ConstantFacts DEF Init, Clocks, Announced
<1>3. Len(<<>>) = 0
  OBVIOUS
<1>4. Members(<<>>) = {} /\ Injective(<<>>)
  BY <1>3 DEF Members, Injective
<1>5. ListsConsistent
  BY <1>4 DEF Init, ListsConsistent, Scheduled
<1>6. QueueSorted
  BY <1>3 DEF Init, QueueSorted, Sorted
<1> QED BY <1>1, <1>2, <1>5, <1>6 DEF IInv

LEMMA NextIInv == IInv /\ [Next]_vars => IInv'
<1> SUFFICES ASSUME IInv, [Next]_vars PROVE IInv'
  OBVIOUS
<1>1. CASE Client
  BY <1>1, ScheduleStep, ScheduleLongStep, CancelStep, IrqStep DEF Client
<1>2. CASE Core \/ Sleep \/ Halt
  BY <1>2, CoreStep, ExecutePopStep DEF Core
<1>3. CASE RunSlice
  BY <1>3, EventRunSliceStep, ScanStep DEF RunSlice
<1>4. CASE Reset
  BY <1>4, ResetStep
<1>5. CASE UNCHANGED vars
  BY <1>5 DEF vars, clock, IInv, TypeOK, Clocks, ListsConsistent, QueueSorted,
              Announced, Scheduled
<1> QED BY <1>1, <1>2, <1>3, <1>4, <1>5 DEF Next

-----------------------------------------------------------------------------
(* The state of eventq.c stays well-typed: no unsigned sum the code forms  *)
(* reaches the sentinel NOT_SCHEDULED, whatever the delays and slices.     *)
(* (event_schedule, event_schedule_long, event_run_slice)                  *)
THEOREM TypeCorrect == Spec => []TypeOK
<1>1. IInv => TypeOK
  BY DEF IInv
<1> QED BY <1>1, InitIInv, NextIInv, PTL DEF Spec

(* Every scheduled event is in exactly the list that event_cancel looks in,*)
(* once, and no other is in any.  (event_cancel, event_scan_long)          *)
THEOREM ListsAreConsistent == Spec => []ListsConsistent
<1>1. IInv => ListsConsistent
  BY DEF IInv
<1> QED BY <1>1, InitIInv, NextIInv, PTL DEF Spec

(* The short queue is ordered by due time.  (event_enqueue)                *)
THEOREM QueueIsSorted == Spec => []QueueSorted
<1>1. IInv => QueueSorted
  BY DEF IInv
<1> QED BY <1>1, InitIInv, NextIInv, PTL DEF Spec

(* The core is always told of the first event in time.                     *)
(* (event_update_pending)                                                  *)
THEOREM HeadIsAnnounced == Spec => []HeadAnnounced
<1>1. IInv => HeadAnnounced
  BY DEF IInv, Announced, HeadAnnounced
<1> QED BY <1>1, InitIInv, NextIInv, PTL DEF Spec

-----------------------------------------------------------------------------
(* Time.  TimesTrue is not inductive: why an event is no later than it is  *)
(* depends on where in the slice the thread is, and the times of the long  *)
(* queue are half updated during a scan.                                   *)

Short(e) == Scheduled(e) /\ seconds[e] = 0
Long(e) == Scheduled(e) /\ seconds[e] # 0

(* The scan of the long queue comes after its second, by less than the     *)
(* longest slice.                                                          *)
ScanLate == SliceLength + MaxBlock - 2

(* An event that comes to be late in its slice is called in the next one,  *)
(* at 0, before time goes on, and gets no later.                           *)
LateTrue(e) ==
  Short(e) => /\ Lateness(e) >= 0
              /\ \/ Lateness(e) <= ScanLate
                 \/ nanosecs[e] = 0 /\ Lateness(e) <= MaxLate

(* Events become overdue while code runs, but not those due at 0; and once *)
(* event_execute is over, none is.                                         *)
DueTrue(e) ==
  Short(e) =>
    /\ phase \in {"core", "execute", "callback", "periph"} /\ nanosecs[e] < slice
         => nanosecs[e] >= 1 /\ slice - nanosecs[e] <= SliceLength - 1
    /\ phase \in {"irq", "ready", "woken"} => nanosecs[e] > slice

(* The scan has been at e.                                                 *)
Visited(e) == \E k \in 1 .. Len(longQueue) : k < cursor /\ longQueue[k] = e

SecondsLeft(e) == IF phase = "scan" /\ ~Visited(e) THEN seconds[e] - 1 ELSE seconds[e]

LongTrue(e) ==
  Long(e) => left[e] = SecondsLeft(e) * LONG_SCAN_PERIOD + nanosecs[e]
                         - (LONG_SCAN_PERIOD - longScan) - Now

Places == /\ phase = "scan" => LONG_SCAN_PERIOD - longScan <= ScanLate
          /\ calling # NoEvent <=> phase = "callback"

TimeInv == Places /\ \A e \in EventId : LateTrue(e) /\ DueTrue(e) /\ LongTrue(e)

(* The head of the short queue is due first.                               *)
LEMMA HeadFirst ==
  ASSUME IInv, NEW e \in EventId, Short(e)
  PROVE  /\ queue # <<>> /\ queue[1] \in EventId /\ Short(queue[1])
         /\ nanosecs[queue[1]] <= nanosecs[e]
<1>1. e \in Members(queue)
  BY DEF IInv, ListsConsistent, Short
<1>2. PICK k \in 1 .. Len(queue) : queue[k] = e
  BY <1>1 DEF Members
<1>3. queue \in Seq(EventId) /\ Len(queue) \in Nat
  BY LenProperties DEF IInv, TypeOK
<1>4. queue # <<>> /\ 1 \in 1 .. Len(queue)
  BY <1>2, <1>3
<1>5. queue[1] \in Members(queue) /\ queue[1] \in EventId
  BY <1>3, <1>4, ElementOfSeq DEF Members
<1>6. Short(queue[1])
  BY <1>5 DEF IInv, ListsConsistent, Short
<1>7. CASE k = 1
  <2>1. nanosecs[e] \in Int
    BY ConstantFacts DEF IInv, TypeOK
  <2> QED BY <2>1, <1>2, <1>4, <1>5, <1>6, <1>7
<1>8. CASE k # 1
  <2>1. 1 < k
    BY <1>2, <1>3, <1>8
  <2> QED BY <2>1, <1>2, <1>4, <1>5, <1>6 DEF IInv, QueueSorted, Sorted
<1> QED BY <1>7, <1>8

LEMMA TimeTypes ==
  ASSUME IInv
  PROVE  /\ nanosecs \in [EventId -> Nat] /\ seconds \in [EventId -> Nat]
         /\ left \in [EventId -> Int]
         /\ slice \in Nat /\ slice <= SliceLength + MaxBlock - 1 /\ pending \in Nat
         /\ longScan \in 1 .. LONG_SCAN_PERIOD
         /\ Now \in Nat
         /\ ScanLate \in Nat /\ MaxLate \in Nat /\ MaxLate = ScanLate + (SliceLength - 1)
BY ConstantFacts DEF IInv, TypeOK, Clocks, Now, ScanLate, MaxLate

(* Time passes for every event by what it passes in the slice, outside of  *)
(* the scan.                                                               *)
LEMMA TimePasses ==
  ASSUME IInv, TimeInv, UNCHANGED <<nanosecs, seconds, longScan>>,
         phase # "scan", phase' # "scan", NEW e \in EventId,
         Scheduled(e) => left'[e] + Now' = left[e] + Now, left'[e] \in Int, Now' \in Nat
  PROVE  /\ LateTrue(e)' /\ LongTrue(e)'
         /\ Short(e)' <=> Short(e)
<1>1. (Short(e)' <=> Short(e)) /\ (Long(e)' <=> Long(e))
      /\ (Scheduled(e) <=> Short(e) \/ Long(e))
  BY DEF Short, Long, Scheduled
<1>2. nanosecs[e] \in Nat /\ left[e] \in Int /\ Now \in Nat /\ seconds[e] \in Nat
      /\ longScan \in Int /\ LONG_SCAN_PERIOD \in Nat
  BY TimeTypes, ConstantFacts
<1>3. Scheduled(e) => nanosecs[e] - Now' - left'[e] = nanosecs[e] - Now - left[e]
  BY <1>2
<1>4. LateTrue(e)'
  BY <1>1, <1>3 DEF TimeInv, LateTrue, Lateness
<1>5. LongTrue(e)'
  <2> SUFFICES ASSUME Long(e)
               PROVE  left'[e] = seconds[e] * LONG_SCAN_PERIOD + nanosecs[e]
                                   - (LONG_SCAN_PERIOD - longScan) - Now'
    BY <1>1 DEF LongTrue, SecondsLeft
  <2> DEFINE s == seconds[e] * LONG_SCAN_PERIOD
  <2>1. s \in Int
    BY <1>2
  <2>2. left[e] = s + nanosecs[e] - (LONG_SCAN_PERIOD - longScan) - Now
    BY DEF TimeInv, LongTrue, SecondsLeft
  <2> HIDE DEF s
  <2>3. left'[e] = s + nanosecs[e] - (LONG_SCAN_PERIOD - longScan) - Now'
    BY <2>1, <2>2, <1>1, <1>2
  <2> QED BY <2>3 DEF s
<1> QED BY <1>1, <1>4, <1>5

(* The steps of the core.                                                  *)
LEMMA TimeCoreStep ==
  ASSUME IInv, IInv', TimeInv,
         \/ BeginSlice \/ \E n \in 1 .. MaxBlock : RunCode(n)
         \/ Sleep \/ HandlePending \/ SleepJump \/ CallbackReturn
         \/ ExecuteDone \/ AcceptIrq \/ NoIrq \/ EndSlice \/ Halt
  PROVE  TimeInv'
<1>1. /\ UNCHANGED <<nanosecs, seconds, longScan>>
      /\ phase # "scan" /\ phase' # "scan"
  BY DEF BeginSlice, RunCode, Sleep, HandlePending, SleepJump, CallbackReturn,
         ExecuteDone, AcceptIrq, NoIrq, EndSlice, Halt, queues
<1>2. /\ slice \in Nat /\ pending \in Nat /\ slice' \in Nat /\ Now' \in Nat
      /\ nanosecs \in [EventId -> Nat] /\ left \in [EventId -> Int]
      /\ left' \in [EventId -> Int]
      /\ SliceLength \in Nat \ {0} /\ MaxBlock \in 1 .. SliceLength
  BY TimeTypes, ConstantFacts DEF IInv, TypeOK, Clocks, Now
<1>3. Places'
  BY <1>1, NoEventAssumption DEF TimeInv, Places, BeginSlice, RunCode, Sleep, HandlePending,
     SleepJump, CallbackReturn, ExecuteDone, AcceptIrq, NoIrq, EndSlice, Halt
<1>4. ASSUME NEW e \in EventId
      PROVE  Scheduled(e) => left'[e] + Now' = left[e] + Now
  <2>1. ASSUME NEW n \in Int, Elapse(n), slice' = slice + n,
               phase # "idle", phase' # "idle"
        PROVE  Scheduled(e) => left'[e] + Now' = left[e] + Now
    BY <2>1, <1>1, <1>2 DEF Elapse, Now
  <2>2. CASE BeginSlice
    BY <2>2, <1>2 DEF BeginSlice, Now
  <2>3. ASSUME NEW n \in 1 .. MaxBlock, RunCode(n)
        PROVE  Scheduled(e) => left'[e] + Now' = left[e] + Now
    BY <2>1, <2>3 DEF RunCode
  <2>4. CASE SleepJump
    <3>1. pending - slice \in Int /\ slice' = slice + (pending - slice)
      BY <2>4, <1>2 DEF SleepJump
    <3> QED BY <3>1, <2>1, <2>4 DEF SleepJump
  <2>5. CASE EndSlice
    <3>1. SliceLength - slice \in Int /\ slice' = slice + (SliceLength - slice)
      BY <2>5, <1>2 DEF EndSlice
    <3> QED BY <3>1, <2>1, <2>5 DEF EndSlice
  <2>6. CASE Sleep \/ HandlePending \/ CallbackReturn \/ ExecuteDone \/ AcceptIrq
             \/ NoIrq \/ Halt
    <3>1. left' = left /\ slice' = slice /\ phase # "idle" /\ phase' # "idle"
      BY <2>6 DEF Sleep, HandlePending, CallbackReturn, ExecuteDone, AcceptIrq, NoIrq, Halt
    <3> QED BY <3>1, <1>1 DEF Now
  <2> QED BY <2>2, <2>3, <2>4, <2>5, <2>6
<1>5. ASSUME NEW e \in EventId
      PROVE  LateTrue(e)' /\ LongTrue(e)' /\ (Short(e)' <=> Short(e))
  <2>1. left'[e] \in Int
    BY <1>2
  <2> QED BY <2>1, <1>1, <1>2, <1>4, TimePasses
<1>6. ASSUME NEW e \in EventId, Short(e) PROVE DueTrue(e)'
  <2> DEFINE t == nanosecs[e]
  <2>1. t \in Nat /\ nanosecs'[e] = t
    BY <1>1, <1>2
  <2>2. /\ phase \in {"core", "execute", "callback", "periph"} /\ t < slice
             => t >= 1 /\ slice - t <= SliceLength - 1
        /\ phase \in {"irq", "ready", "woken"} => t > slice
    BY <1>6 DEF TimeInv, DueTrue
  <2>3. queue # <<>> /\ nanosecs[queue[1]] \in Nat /\ nanosecs[queue[1]] <= t
    BY <1>2, <1>6, HeadFirst
  <2>4. phase \in {"core", "irq", "ready", "woken", "periph", "idle"}
          => "EVENT" \in types /\ pending <= t
    BY <2>1, <2>3, <1>2 DEF IInv, Announced
  <2> HIDE DEF t
  <2> SUFFICES
        /\ phase' \in {"core", "execute", "callback", "periph"} /\ t < slice'
             => t >= 1 /\ slice' - t <= SliceLength - 1
        /\ phase' \in {"irq", "ready", "woken"} => t > slice'
    BY <2>1 DEF DueTrue
  <2>5. CASE BeginSlice
    BY <2>5, <2>1 DEF BeginSlice
  <2>6. ASSUME NEW n \in 1 .. MaxBlock, RunCode(n)
        PROVE  /\ t < slice' => t >= 1 /\ slice' - t <= SliceLength - 1
               /\ phase' = "core"
    <3>1. slice < t
      BY <2>1, <2>2, <2>4, <2>6, <1>2 DEF RunCode
    <3> QED BY <3>1, <2>1, <2>6, <1>2 DEF RunCode
  <2>7. CASE HandlePending
    BY <2>7, <2>2, <2>4 DEF HandlePending
  <2>8. CASE SleepJump
    BY <2>8, <2>1, <2>4, <1>2 DEF SleepJump
  <2>9. CASE CallbackReturn
    BY <2>9, <2>2 DEF CallbackReturn
  <2>10. CASE ExecuteDone
    BY <2>10, <2>1, <2>3, <1>2 DEF ExecuteDone, HeadDue
  <2>11. CASE AcceptIrq
    BY <2>11, <2>2 DEF AcceptIrq
  <2>12. CASE NoIrq
    BY <2>12, <2>1, <2>2, <1>2 DEF NoIrq
  <2>13. CASE EndSlice
    <3>1. phase' = "periph" /\ slice' = SliceLength
      BY <2>13 DEF EndSlice
    <3>2. CASE phase \in {"ready", "woken"}
      BY <3>1, <3>2, <2>1, <2>2, <1>2
    <3>3. CASE phase = "core" /\ slice >= SliceLength
      BY <3>1, <3>3, <2>1, <2>2, <1>2
    <3>4. CASE phase = "core" /\ pending >= SliceLength
      BY <3>1, <3>4, <2>1, <2>4, <1>2
    <3> QED BY <3>2, <3>3, <3>4, <2>13 DEF EndSlice
  <2>14. CASE Sleep \/ Halt
    BY <2>14, <2>2 DEF Sleep, Halt
  <2> QED BY <2>5, <2>6, <2>7, <2>8, <2>9, <2>10, <2>11, <2>12, <2>13, <2>14
<1>7. ASSUME NEW e \in EventId PROVE DueTrue(e)'
  BY <1>5, <1>6 DEF DueTrue
<1> QED BY <1>3, <1>5, <1>7 DEF TimeInv

(* An event that a step leaves alone, when the thread stays where it is or *)
(* goes between places that ask the same of it.                            *)
LEMMA TimeFrame ==
  ASSUME TimeInv, NEW e \in EventId, phase # "scan",
         UNCHANGED <<slice, longScan>>,
         \/ phase' = phase \/ (phase = "execute" /\ phase' = "callback"),
         UNCHANGED <<nanosecs[e], seconds[e], left[e]>>
  PROVE  LateTrue(e)' /\ DueTrue(e)' /\ LongTrue(e)'
<1>1. (Short(e)' <=> Short(e)) /\ (Long(e)' <=> Long(e))
  BY DEF Short, Long, Scheduled
<1>2. Now' = Now /\ phase' # "scan"
  BY DEF Now
<1>3. LateTrue(e)'
  BY <1>1, <1>2 DEF TimeInv, LateTrue, Lateness
<1>4. DueTrue(e)'
  BY <1>1 DEF TimeInv, DueTrue
<1>5. LongTrue(e)'
  BY <1>1, <1>2 DEF TimeInv, LongTrue, SecondsLeft
<1> QED BY <1>3, <1>4, <1>5

(* An event that is not scheduled has no time.                             *)
LEMMA Unscheduled ==
  ASSUME NEW e \in EventId, nanosecs'[e] = NOT_SCHEDULED
  PROVE  LateTrue(e)' /\ DueTrue(e)' /\ LongTrue(e)'
BY DEF LateTrue, DueTrue, LongTrue, Short, Long, Scheduled

LEMMA TimeClientStep ==
  ASSUME IInv, TimeInv, Client \/ ExecutePop
  PROVE  TimeInv'
<1>1. /\ nanosecs \in [EventId -> Nat] /\ seconds \in [EventId -> Nat]
      /\ left \in [EventId -> Int] /\ slice \in Nat
      /\ longScan \in 1 .. LONG_SCAN_PERIOD
      /\ ScanLate \in Nat /\ LONG_SCAN_PERIOD \in Nat
      /\ Delays \subseteq Nat /\ LongSeconds \subseteq Nat \ {0}
  BY TimeTypes, ConstantFacts
<1>2. ASSUME NEW e \in EventId, NEW d \in Delays, Schedule(e, d)
      PROVE  TimeInv'
  <2>1. /\ phase \in {"core", "callback", "periph"} /\ d \in Nat
        /\ nanosecs' = [nanosecs EXCEPT ![e] = d + slice]
        /\ seconds' = [seconds EXCEPT ![e] = 0]
        /\ left' = [left EXCEPT ![e] = d]
        /\ UNCHANGED <<longScan, slice, phase, calling>>
    BY <1>1, <1>2 DEF Schedule, ClientPhase, clock
  <2>2. ASSUME NEW x \in EventId, x # e
        PROVE  LateTrue(x)' /\ DueTrue(x)' /\ LongTrue(x)'
    BY <2>1, <2>2, <1>1, TimeFrame
  <2>3. /\ nanosecs'[e] = d + slice /\ seconds'[e] = 0 /\ left'[e] = d
        /\ Now' = slice /\ slice' = slice
    BY <2>1, <1>1 DEF Now
  <2>4. LateTrue(e)' /\ DueTrue(e)' /\ LongTrue(e)'
    BY <2>1, <2>3, <1>1 DEF LateTrue, DueTrue, LongTrue, Lateness, Long
  <2>5. Places'
    BY <2>1 DEF TimeInv, Places
  <2> QED BY <2>2, <2>4, <2>5 DEF TimeInv
<1>3. ASSUME NEW e \in EventId, NEW s \in LongSeconds, NEW d \in Delays,
             ScheduleLong(e, s, d)
      PROVE  TimeInv'
  <2>1. /\ phase \in {"core", "callback", "periph"} /\ d \in Nat /\ s \in Nat \ {0}
        /\ nanosecs' = [nanosecs EXCEPT ![e] = d + ScanPeriodRun]
        /\ seconds' = [seconds EXCEPT ![e] = s]
        /\ left' = [left EXCEPT ![e] = s * LONG_SCAN_PERIOD + d]
        /\ UNCHANGED <<longScan, slice, phase, calling>>
    BY <1>1, <1>3 DEF ScheduleLong, ClientPhase, clock
  <2>2. ASSUME NEW x \in EventId, x # e
        PROVE  LateTrue(x)' /\ DueTrue(x)' /\ LongTrue(x)'
    BY <2>1, <2>2, <1>1, TimeFrame
  <2> DEFINE p == s * LONG_SCAN_PERIOD
  <2>3. p \in Int
    BY <2>1, <1>1
  <2>4. /\ nanosecs'[e] = d + (slice + (LONG_SCAN_PERIOD - longScan))
        /\ seconds'[e] = s /\ left'[e] = p + d
        /\ Now' = slice
    BY <2>1, <1>1 DEF Now, ScanPeriodRun
  <2>5. ~Short(e)' /\ SecondsLeft(e)' = s
    BY <2>1, <2>4 DEF Short, SecondsLeft
  <2> HIDE DEF p
  <2>6. left'[e] = p + nanosecs'[e] - (LONG_SCAN_PERIOD - longScan) - Now'
    BY <2>1, <2>3, <2>4, <1>1
  <2>7. LongTrue(e)'
    BY <2>1, <2>5, <2>6 DEF LongTrue, p
  <2>8. LateTrue(e)' /\ DueTrue(e)'
    BY <2>5 DEF LateTrue, DueTrue
  <2>9. Places'
    BY <2>1 DEF TimeInv, Places
  <2> QED BY <2>2, <2>7, <2>8, <2>9 DEF TimeInv
<1>4. ASSUME NEW e \in EventId, phase # "scan",
             nanosecs' = [nanosecs EXCEPT ![e] = NOT_SCHEDULED],
             seconds' = seconds, left' = [left EXCEPT ![e] = 0],
             UNCHANGED <<longScan, slice>>,
             \/ phase' = phase \/ (phase = "execute" /\ phase' = "callback")
      PROVE  \A x \in EventId : LateTrue(x)' /\ DueTrue(x)' /\ LongTrue(x)'
  <2> SUFFICES ASSUME NEW x \in EventId
               PROVE  LateTrue(x)' /\ DueTrue(x)' /\ LongTrue(x)'
    OBVIOUS
  <2>1. CASE x = e
    <3>1. nanosecs'[x] = NOT_SCHEDULED
      BY <2>1, <1>1, <1>4
    <3> QED BY <3>1, Unscheduled
  <2>2. CASE x # e
    BY <2>2, <1>1, <1>4, TimeFrame
  <2> QED BY <2>1, <2>2
<1>5. ASSUME NEW e \in EventId, Cancel(e) PROVE TimeInv'
  <2>1. /\ phase # "scan" /\ nanosecs' = [nanosecs EXCEPT ![e] = NOT_SCHEDULED]
        /\ seconds' = seconds /\ left' = [left EXCEPT ![e] = 0]
        /\ UNCHANGED <<longScan, slice, phase, calling>>
    BY <1>5 DEF Cancel, ClientPhase, clock
  <2> QED BY <2>1, <1>4 DEF TimeInv, Places
<1>6. CASE IrqDeliverable \/ IrqMasked
  <2>1. /\ phase # "scan"
        /\ UNCHANGED <<nanosecs, seconds, left, longScan, slice, phase, calling>>
    BY <1>6 DEF IrqDeliverable, IrqMasked, ClientPhase, clock
  <2>2. Places'
    BY <2>1 DEF TimeInv, Places
  <2> QED BY <2>1, <2>2, TimeFrame DEF TimeInv
<1>7. CASE ExecutePop
  <2>1. queue[1] \in EventId
    BY <1>7, FirstOfQueue DEF ExecutePop, HeadDue, IInv, TypeOK
  <2>2. /\ phase = "execute" /\ phase' = "callback" /\ calling' = queue[1]
        /\ nanosecs' = [nanosecs EXCEPT ![queue[1]] = NOT_SCHEDULED]
        /\ seconds' = seconds /\ left' = [left EXCEPT ![queue[1]] = 0]
        /\ UNCHANGED <<longScan, slice>>
    BY <1>7 DEF ExecutePop, clock
  <2>3. Places'
    BY <2>1, <2>2, NoEventAssumption DEF Places
  <2> QED BY <2>1, <2>2, <2>3, <1>4 DEF TimeInv
<1> QED BY <1>2, <1>3, <1>5, <1>6, <1>7 DEF Client

LEMMA TimeResetStep ==
  ASSUME IInv, TimeInv, Reset
  PROVE  TimeInv'
<1>1. /\ \A e \in EventId : nanosecs'[e] = NOT_SCHEDULED
      /\ phase # "scan" /\ UNCHANGED <<phase, calling>>
  BY DEF Reset
<1>2. Places'
  BY <1>1 DEF TimeInv, Places
<1> QED BY <1>1, <1>2, Unscheduled DEF TimeInv

(* The slice ends: what is due in it and was not called becomes late, by   *)
(* less than a slice, and a scan takes a second off the long queue.        *)
LEMMA TimeRunSliceStep ==
  ASSUME IInv, TimeInv, EventRunSlice
  PROVE  TimeInv'
<1>1. /\ nanosecs \in [EventId -> Nat] /\ seconds \in [EventId -> Nat]
      /\ left \in [EventId -> Int] /\ slice \in Nat
      /\ slice <= SliceLength + MaxBlock - 1
      /\ longScan \in 1 .. LONG_SCAN_PERIOD
      /\ ScanLate \in Nat /\ LONG_SCAN_PERIOD \in Nat
      /\ MaxLate = ScanLate + (SliceLength - 1)
      /\ SliceLength \in Nat \ {0} /\ MaxBlock \in Nat
      /\ NOT_SCHEDULED > 2 * LONG_SCAN_PERIOD + 2 * SliceLength
      /\ SliceLength + MaxBlock - 1 <= LONG_SCAN_PERIOD
      /\ NOT_SCHEDULED \in Nat /\ nanosecs \in [EventId -> 0 .. NOT_SCHEDULED]
  BY TimeTypes, ConstantFacts, SMTT(30) DEF IInv, TypeOK
<1>2. /\ phase = "periph" /\ nanosecs' = Rebased
      /\ \/ /\ longScan - slice <= 0
            /\ longScan' = longScan - slice + LONG_SCAN_PERIOD
            /\ phase' = "scan" /\ cursor' = 1
         \/ longScan' = longScan - slice /\ phase' = "idle"
      /\ UNCHANGED <<seconds, longQueue, slice, calling, left>>
  BY DEF EventRunSlice
<1>3. Now = slice /\ Now' = 0
  BY <1>2 DEF Now
<1>4. Places'
  BY <1>1, <1>2 DEF TimeInv, Places, ScanLate
<1>5. ASSUME NEW e \in EventId
      PROVE  /\ Scheduled(e)' <=> Scheduled(e)
             /\ Short(e) => nanosecs'[e] = IF nanosecs[e] <= slice THEN 0
                                           ELSE nanosecs[e] - slice
             /\ ~Short(e) => nanosecs'[e] = nanosecs[e]
  BY <1>1, <1>2 DEF Rebased, Scheduled, Short
<1>6. ASSUME NEW e \in EventId PROVE (Short(e)' <=> Short(e)) /\ (Long(e)' <=> Long(e))
  BY <1>2, <1>5 DEF Short, Long
<1>7. ASSUME NEW e \in EventId PROVE DueTrue(e)'
  BY <1>2 DEF DueTrue
<1>8. ASSUME NEW e \in EventId, Short(e) PROVE LateTrue(e)'
  <2> DEFINE t == nanosecs[e]
             l == left[e]
  <2>1. t \in Nat /\ l \in Int
    BY <1>1
  <2>2. /\ t - slice - l >= 0
        /\ t - slice - l <= ScanLate \/ (t = 0 /\ t - slice - l <= MaxLate)
        /\ t < slice => t >= 1 /\ slice - t <= SliceLength - 1
    BY <1>2, <1>3, <1>8 DEF TimeInv, LateTrue, DueTrue, Lateness
  <2>3. /\ nanosecs'[e] = IF t <= slice THEN 0 ELSE t - slice
        /\ Lateness(e)' = nanosecs'[e] - 0 - l
    BY <1>2, <1>3, <1>5, <1>8 DEF Lateness
  <2> HIDE DEF t, l
  <2>4. CASE t < slice
    BY <2>1, <2>2, <2>3, <2>4, <1>1 DEF LateTrue
  <2>5. CASE t = slice
    BY <2>1, <2>2, <2>3, <2>5, <1>1 DEF LateTrue
  <2>6. CASE t > slice
    BY <2>1, <2>2, <2>3, <2>6, <1>1 DEF LateTrue
  <2> QED BY <2>1, <2>4, <2>5, <2>6, <1>1
<1>9. ASSUME NEW e \in EventId, Long(e) PROVE LongTrue(e)'
  <2> DEFINE s == seconds[e] * LONG_SCAN_PERIOD
             r == (seconds[e] - 1) * LONG_SCAN_PERIOD
             t == nanosecs[e]
  <2>1. s \in Int /\ r \in Int /\ r = s - LONG_SCAN_PERIOD /\ t \in Nat
    BY <1>1
  <2>2. left[e] = s + t - (LONG_SCAN_PERIOD - longScan) - slice
    BY <1>2, <1>3, <1>9 DEF TimeInv, LongTrue, SecondsLeft
  <2>3. nanosecs'[e] = t /\ left'[e] = left[e]
    BY <1>2, <1>5, <1>9 DEF Short, Long
  <2>4. CASE phase' = "scan"
    <3>1. longScan' = longScan - slice + LONG_SCAN_PERIOD /\ cursor' = 1
      BY <1>2, <2>4
    <3>2. ~Visited(e)'
      BY <3>1 DEF Visited
    <3>3. SecondsLeft(e)' = seconds[e] - 1
      BY <1>2, <2>4, <3>2 DEF SecondsLeft
    <3> HIDE DEF s, r, t
    <3>4. left'[e] = r + nanosecs'[e] - (LONG_SCAN_PERIOD - longScan') - Now'
      BY <1>1, <1>3, <2>1, <2>2, <2>3, <3>1
    <3> QED BY <3>3, <3>4 DEF LongTrue, r
  <2>5. CASE phase' # "scan"
    <3>1. longScan' = longScan - slice /\ SecondsLeft(e)' = seconds[e]
      BY <1>2, <2>5 DEF SecondsLeft
    <3> HIDE DEF s, t
    <3>2. left'[e] = s + nanosecs'[e] - (LONG_SCAN_PERIOD - longScan') - Now'
      BY <1>1, <1>3, <2>1, <2>2, <2>3, <3>1
    <3> QED BY <3>1, <3>2 DEF LongTrue, s
  <2> QED BY <2>4, <2>5
<1>10. ASSUME NEW e \in EventId PROVE LateTrue(e)' /\ LongTrue(e)'
  BY <1>6, <1>8, <1>9 DEF LateTrue, LongTrue
<1> QED BY <1>4, <1>7, <1>10 DEF TimeInv

(* The scan visits the entries in turn.  One whose last second is taken    *)
(* goes to the short queue, late by what the scan is.                      *)
LEMMA TimeScanStep ==
  ASSUME IInv, TimeInv, ScanStay \/ ScanMove \/ ScanDone
  PROVE  TimeInv'
<1>1. /\ nanosecs \in [EventId -> Nat] /\ seconds \in [EventId -> Nat]
      /\ left \in [EventId -> Int]
      /\ longScan \in 1 .. LONG_SCAN_PERIOD /\ LONG_SCAN_PERIOD \in Nat
      /\ longQueue \in Seq(EventId) /\ Len(longQueue) \in Nat
      /\ cursor \in Nat /\ cursor >= 1 /\ phase = "scan"
      /\ Injective(longQueue)
      /\ ScanLate \in Nat
  BY TimeTypes, ConstantFacts, LenProperties
     DEF IInv, TypeOK, Clocks, ListsConsistent, ScanStay, ScanMove, ScanDone
<1>2. LONG_SCAN_PERIOD - longScan <= ScanLate /\ calling = NoEvent
  BY <1>1 DEF TimeInv, Places
<1>3. UNCHANGED <<nanosecs, longScan, slice, calling, left>> /\ phase' \in {"scan", "idle"}
  BY <1>1 DEF ScanStay, ScanMove, ScanDone, clock, queues
<1>4. Places' /\ Now = 0 /\ Now' = 0
  BY <1>1, <1>2, <1>3 DEF Places, Now
<1>5. ASSUME NEW e \in EventId PROVE DueTrue(e)'
  BY <1>3 DEF DueTrue
<1>6. ASSUME NEW e \in EventId, seconds'[e] = seconds[e]
      PROVE  /\ LateTrue(e)'
             /\ SecondsLeft(e)' = SecondsLeft(e) => LongTrue(e)'
  <2>1. (Short(e)' <=> Short(e)) /\ (Long(e)' <=> Long(e))
    BY <1>3, <1>6 DEF Short, Long, Scheduled
  <2> QED BY <2>1, <1>3, <1>4 DEF TimeInv, LateTrue, LongTrue, Lateness
<1>7. CASE ScanStay
  <2>1. PICK c \in EventId :
        /\ cursor \in 1 .. Len(longQueue) /\ c = longQueue[cursor] /\ seconds[c] > 1
        /\ seconds' = [seconds EXCEPT ![c] = seconds[c] - 1]
        /\ cursor' = cursor + 1 /\ longQueue' = longQueue /\ phase' = "scan"
    <3>1. cursor \in 1 .. Len(longQueue) /\ longQueue[cursor] \in EventId
      BY <1>1, <1>7, ElementOfSeq DEF ScanStay
    <3> QED BY <3>1, <1>1, <1>7 DEF ScanStay
  <2>2. ~Visited(c) /\ Visited(c)'
    <3>1. ASSUME NEW k \in 1 .. Len(longQueue), k < cursor PROVE longQueue[k] # c
      BY <2>1, <3>1, <1>1 DEF Injective
    <3>2. cursor < cursor'
      BY <2>1, <1>1
    <3> QED BY <3>1, <3>2, <2>1 DEF Visited
  <2>3. ASSUME NEW e \in EventId, e # c PROVE LateTrue(e)' /\ LongTrue(e)'
    <3>1. Visited(e)' <=> Visited(e)
      BY <2>1, <2>3, <1>1, SMTT(30) DEF Visited
    <3>2. seconds'[e] = seconds[e]
      BY <2>1, <2>3, <1>1
    <3>3. SecondsLeft(e)' = SecondsLeft(e)
      BY <3>1, <3>2, <2>1, <1>1 DEF SecondsLeft
    <3> QED BY <3>2, <3>3, <1>6
  <2>4. LateTrue(c)' /\ LongTrue(c)'
    <3>1. seconds'[c] = seconds[c] - 1 /\ seconds'[c] # 0
      BY <2>1, <1>1
    <3>2. SecondsLeft(c)' = SecondsLeft(c)
      BY <3>1, <2>1, <2>2, <1>1 DEF SecondsLeft
    <3>3. ~Short(c)' /\ (Long(c)' <=> Long(c))
      BY <3>1, <2>1, <1>1, <1>3 DEF Short, Long, Scheduled
    <3> QED BY <3>2, <3>3, <2>1, <1>3, <1>4 DEF TimeInv, LateTrue, LongTrue
  <2> QED BY <2>3, <2>4, <1>4, <1>5 DEF TimeInv
<1>8. CASE ScanMove
  <2>1. PICK c \in EventId :
        /\ cursor \in 1 .. Len(longQueue) /\ c = longQueue[cursor] /\ seconds[c] = 1
        /\ seconds' = [seconds EXCEPT ![c] = 0]
        /\ cursor' = cursor /\ phase' = "scan"
        /\ longQueue' = RemoveAt(longQueue, cursor)
    <3>1. cursor \in 1 .. Len(longQueue) /\ longQueue[cursor] \in EventId
      BY <1>1, <1>8, ElementOfSeq DEF ScanMove
    <3> QED BY <3>1, <1>1, <1>8 DEF ScanMove, clock
  <2>2. ~Visited(c)
    <3>1. ASSUME NEW k \in 1 .. Len(longQueue), k < cursor PROVE longQueue[k] # c
      BY <2>1, <3>1, <1>1 DEF Injective
    <3> QED BY <3>1 DEF Visited
  <2>3. /\ Len(longQueue') = Len(longQueue) - 1
        /\ \A k \in 1 .. Len(longQueue) - 1 :
             longQueue'[k] = IF k < cursor THEN longQueue[k] ELSE longQueue[k + 1]
    BY <2>1, <1>1, RemoveAtElements
  <2>4. c \in Members(longQueue)
    BY <2>1 DEF Members
  <2>5. Long(c)
    BY <2>1, <2>4 DEF IInv, ListsConsistent, Long
  <2>6. ASSUME NEW e \in EventId, e # c PROVE LateTrue(e)' /\ LongTrue(e)'
    <3>1. ASSUME NEW k \in 1 .. cursor - 1
          PROVE  /\ k \in 1 .. Len(longQueue) /\ k \in 1 .. Len(longQueue')
                 /\ longQueue'[k] = longQueue[k]
      <4>1. k \in 1 .. Len(longQueue) - 1 /\ k < cursor
        BY <2>1, <1>1
      <4> QED BY <4>1, <2>3, <1>1, SMTT(30)
    <3>2. /\ \A k \in 1 .. Len(longQueue) : k < cursor => k \in 1 .. cursor - 1
          /\ \A k \in 1 .. Len(longQueue') : k < cursor => k \in 1 .. cursor - 1
          /\ \A k \in 1 .. cursor - 1 : k < cursor
      BY <2>1, <2>3, <1>1, SMTT(30)
    <3>3. Visited(e)' <=> Visited(e)
      BY <3>1, <3>2, <2>1 DEF Visited
    <3>4. seconds'[e] = seconds[e]
      BY <2>1, <2>6, <1>1
    <3>5. SecondsLeft(e)' = SecondsLeft(e)
      BY <3>3, <3>4, <2>1, <1>1 DEF SecondsLeft
    <3> QED BY <3>4, <3>5, <1>6
  <2>7. LateTrue(c)' /\ LongTrue(c)'
    <3>1. ~Long(c)'
      BY <2>1, <1>1 DEF Long
    <3>2. SecondsLeft(c) = 0
      BY <2>1, <2>2, <1>1 DEF SecondsLeft
    <3>3. left[c] = nanosecs[c] - (LONG_SCAN_PERIOD - longScan)
      BY <3>2, <2>1, <2>5, <1>1, <1>4 DEF TimeInv, LongTrue
    <3>4. Lateness(c)' = LONG_SCAN_PERIOD - longScan
      BY <3>3, <2>1, <1>1, <1>3, <1>4 DEF Lateness
    <3> QED BY <3>1, <3>4, <1>1, <1>2 DEF LateTrue, LongTrue
  <2> QED BY <2>6, <2>7, <1>4, <1>5 DEF TimeInv
<1>9. CASE ScanDone
  <2>1. cursor > Len(longQueue) /\ phase' = "idle" /\ seconds' = seconds
    BY <1>9 DEF ScanDone, queues
  <2>2. ASSUME NEW e \in EventId, Long(e) PROVE SecondsLeft(e)' = SecondsLeft(e)
    <3>1. e \in Members(longQueue)
      BY <2>2 DEF IInv, ListsConsistent, Long
    <3>2. Visited(e)
      BY <3>1, <2>1, <1>1 DEF Members, Visited
    <3> QED BY <3>2, <2>1 DEF SecondsLeft
  <2>3. ASSUME NEW e \in EventId PROVE LateTrue(e)' /\ LongTrue(e)'
    <3>1. Long(e)' <=> Long(e)
      BY <2>1, <1>3 DEF Long, Scheduled
    <3> QED BY <3>1, <2>1, <2>2, <1>6 DEF LongTrue
  <2> QED BY <2>3, <1>4, <1>5 DEF TimeInv
<1> QED BY <1>7, <1>8, <1>9

LEMMA InitTime == Init => TimeInv
BY ConstantFacts DEF Init, TimeInv, Places, LateTrue, DueTrue, LongTrue, Short, Long, Scheduled

LEMMA NextTimeInv == IInv /\ IInv' /\ TimeInv /\ [Next]_vars => TimeInv'
<1> SUFFICES ASSUME IInv, IInv', TimeInv, [Next]_vars PROVE TimeInv'
  OBVIOUS
<1>1. CASE UNCHANGED vars
  BY <1>1 DEF vars, clock, TimeInv, Places, LateTrue, DueTrue, LongTrue, Short, Long,
     Scheduled, Lateness, Now, SecondsLeft, Visited
<1>2. CASE Core \/ Sleep \/ Halt
  BY <1>2, TimeCoreStep, TimeClientStep DEF Core
<1>3. CASE RunSlice
  BY <1>3, TimeRunSliceStep, TimeScanStep DEF RunSlice
<1> QED BY <1>1, <1>2, <1>3, TimeClientStep, TimeResetStep DEF Next

LEMMA TimesAreKept == Spec => [](IInv /\ TimeInv)
<1>1. Init => IInv /\ TimeInv
  BY InitIInv, InitTime
<1>2. IInv /\ TimeInv /\ [Next]_vars => IInv' /\ TimeInv'
  BY NextIInv, NextTimeInv
<1> QED BY <1>1, <1>2, PTL DEF Spec

(* No event is called early, none is later than a scan and a slice allow,  *)
(* and the seconds and nanoseconds of the long queue add up to the time    *)
(* that was asked for, for all delays, slices, blocks and periods.         *)
(* (event_schedule, event_schedule_long, event_run_slice, event_scan_long) *)
THEOREM AllTimesAreTrue == Spec => []AllTimesTrue
<1>1. ASSUME IInv, TimeInv PROVE AllTimesTrue
  <2>1. /\ \A e \in Members(queue) : e \in EventId /\ Short(e)
        /\ \A e \in Members(longQueue) : e \in EventId /\ Long(e)
    BY <1>1 DEF IInv, ListsConsistent, Short, Long
  <2>2. TimesTrue
    <3> SUFFICES ASSUME NEW e \in Members(queue) PROVE Lateness(e) \in 0 .. MaxLate
      BY DEF TimesTrue
    <3>1. /\ Lateness(e) \in Int /\ Lateness(e) >= 0
          /\ Lateness(e) <= ScanLate \/ Lateness(e) <= MaxLate
      BY <1>1, <2>1, TimeTypes DEF TimeInv, LateTrue, Lateness
    <3> QED BY <1>1, <3>1, TimeTypes, ConstantFacts
  <2>3. LongTimesTrue
    BY <1>1, <2>1 DEF TimeInv, LongTrue, LongTimesTrue, SecondsLeft
  <2> QED BY <2>2, <2>3 DEF AllTimesTrue
<1> QED BY <1>1, TimesAreKept, PTL

-----------------------------------------------------------------------------
(* EventQ keeps the promise of TimerSpec, step by step.                    *)

armed == {e \in EventId : Scheduled(e)}

(* No scheduled event is later than MaxLate, in either list, once a slice  *)
(* has begun.                                                              *)
LEMMA NoneTooLate ==
  IInv /\ TimeInv /\ phase \notin {"scan", "idle"}
    => \A e \in EventId : Scheduled(e) => left[e] >= -MaxLate
<1> SUFFICES ASSUME IInv, TimeInv, phase \notin {"scan", "idle"},
                    NEW e \in EventId, Scheduled(e)
             PROVE  left[e] >= -MaxLate
  OBVIOUS
<1>1. /\ nanosecs[e] \in Nat /\ left[e] \in Int /\ seconds[e] \in Nat /\ slice \in Nat
      /\ slice <= SliceLength + MaxBlock - 1 /\ longScan \in 1 .. LONG_SCAN_PERIOD
      /\ ScanLate = SliceLength + MaxBlock - 2 /\ MaxLate = ScanLate + (SliceLength - 1)
      /\ SliceLength \in Nat \ {0} /\ MaxBlock \in Nat \ {0} /\ LONG_SCAN_PERIOD \in Nat
  BY TimeTypes, ConstantFacts DEF ScanLate
<1>2. Now = slice /\ phase \in Phases
  BY DEF Now, IInv, TypeOK
<1>3. CASE Short(e)
  <2>1. /\ nanosecs[e] - slice - left[e] >= 0
        /\ \/ nanosecs[e] - slice - left[e] <= ScanLate
           \/ nanosecs[e] = 0 /\ nanosecs[e] - slice - left[e] <= MaxLate
    BY <1>2, <1>3 DEF TimeInv, LateTrue, Lateness
  <2>2. nanosecs[e] < slice => nanosecs[e] >= 1 /\ slice - nanosecs[e] <= SliceLength - 1
    BY <1>1, <1>2, <1>3 DEF TimeInv, DueTrue, Phases
  <2> QED BY <2>1, <2>2, <1>1
<1>4. CASE Long(e)
  <2> DEFINE s == seconds[e] * LONG_SCAN_PERIOD
  <2>1. s \in Int /\ s >= LONG_SCAN_PERIOD
    <3>1. seconds[e] - 1 \in Nat
      BY <1>1, <1>4 DEF Long
    <3>2. (seconds[e] - 1) * LONG_SCAN_PERIOD \in Nat
      BY <3>1, <1>1
    <3> QED BY <3>2, <1>1
  <2>2. left[e] = s + nanosecs[e] - (LONG_SCAN_PERIOD - longScan) - slice
    BY <1>2, <1>4 DEF TimeInv, LongTrue, SecondsLeft
  <2> HIDE DEF s
  <2> QED BY <2>1, <2>2, <1>1
<1> QED BY <1>3, <1>4 DEF Short, Long

LEMMA NoneTooLatePrimed ==
  IInv' /\ TimeInv' /\ phase' \notin {"scan", "idle"}
    => \A e \in EventId : Scheduled(e)' => left'[e] >= -MaxLate
<1>1. (IInv /\ TimeInv /\ phase \notin {"scan", "idle"})'
        => (\A e \in EventId : Scheduled(e) => left[e] >= -MaxLate)'
  BY NoneTooLate, PTL
<1> QED BY <1>1 DEF MaxLate

LEMMA ClientPromise ==
  ASSUME IInv, Client
  PROVE  \/ \E e \in EventId : Timers!Arm(e) \/ Timers!Disarm(e)
         \/ UNCHANGED <<armed, left, calling>>
<1>1. /\ nanosecs \in [EventId -> 0 .. NOT_SCHEDULED] /\ left \in [EventId -> Int]
      /\ slice \in Nat /\ longScan \in 1 .. LONG_SCAN_PERIOD
      /\ slice <= SliceLength + MaxBlock - 1
  BY TimeTypes DEF IInv, TypeOK
<1>2. ASSUME NEW e \in EventId, NEW t \in Nat, t < NOT_SCHEDULED,
             nanosecs' = [nanosecs EXCEPT ![e] = t],
             NEW l \in Nat, left' = [left EXCEPT ![e] = l], calling' = calling
      PROVE  Timers!Arm(e)
  <2>1. \A x \in EventId : Scheduled(x)' <=> x = e \/ Scheduled(x)
    BY <1>1, <1>2, ConstantFacts DEF Scheduled
  <2>2. left'[e] = l
    BY <1>1, <1>2
  <2> QED BY <1>2, <2>1, <2>2 DEF Timers!Arm
<1>3. ASSUME NEW e \in EventId, NEW d \in Delays, Schedule(e, d) PROVE Timers!Arm(e)
  <2>1. d \in Nat /\ d + slice \in Nat /\ d + slice < NOT_SCHEDULED
    BY <1>1, ConstantFacts
  <2> QED BY <1>2, <1>3, <2>1 DEF Schedule
<1>4. ASSUME NEW e \in EventId, NEW s \in LongSeconds, NEW d \in Delays,
             ScheduleLong(e, s, d)
      PROVE  Timers!Arm(e)
  <2>1. d + ScanPeriodRun \in Nat /\ d + ScanPeriodRun < NOT_SCHEDULED
    BY <1>1, ConstantFacts DEF ScanPeriodRun
  <2>2. s * LONG_SCAN_PERIOD \in Nat /\ d \in Nat
    BY ConstantFacts
  <2>3. s * LONG_SCAN_PERIOD + d \in Nat
    BY <2>2
  <2> QED BY <1>2, <1>4, <2>1, <2>3 DEF ScheduleLong
<1>5. ASSUME NEW e \in EventId, Cancel(e) PROVE Timers!Disarm(e)
  <2>1. \A x \in EventId : Scheduled(x)' <=> x # e /\ Scheduled(x)
    BY <1>1, <1>5 DEF Cancel, Scheduled
  <2> QED BY <1>5, <2>1 DEF Cancel, Timers!Disarm
<1>6. CASE IrqDeliverable \/ IrqMasked
  BY <1>6 DEF IrqDeliverable, IrqMasked, armed, Scheduled
<1> QED BY <1>3, <1>4, <1>5, <1>6 DEF Client

(* Time passes for all, by no more than a slice and a block.               *)
LEMMA TimePassesPromise ==
  ASSUME IInv, IInv', TimeInv', NEW n \in -(SliceLength + MaxBlock) .. SliceLength + MaxBlock,
         nanosecs' = nanosecs, Elapse(n), phase' \notin {"scan", "idle"},
         calling' = calling
  PROVE  Timers!Pass(n)
<1>1. left' = [e \in EventId |-> IF Scheduled(e) THEN left[e] - n ELSE left[e]]
  BY DEF Elapse
<1>2. \A e \in EventId : Scheduled(e)' <=> Scheduled(e)
  BY DEF Scheduled
<1>3. \A e \in EventId : Scheduled(e) => left[e] - n >= -MaxLate
  BY <1>1, <1>2, NoneTooLatePrimed
<1> QED BY <1>1, <1>2, <1>3 DEF Timers!Pass

LEMMA CorePromise ==
  ASSUME IInv, TimeInv, IInv', TimeInv', Core \/ Sleep \/ Halt
  PROVE  \/ \E e \in EventId : Timers!Fire(e)
         \/ \E n \in -(SliceLength + MaxBlock) .. SliceLength + MaxBlock : Timers!Pass(n)
         \/ Timers!Return
         \/ UNCHANGED <<armed, left, calling>>
<1>1. /\ nanosecs \in [EventId -> 0 .. NOT_SCHEDULED] /\ left \in [EventId -> Int]
      /\ slice \in Nat /\ pending \in Nat /\ slice <= SliceLength + MaxBlock - 1
      /\ SliceLength \in Nat \ {0} /\ MaxBlock \in 1 .. SliceLength
  BY TimeTypes, ConstantFacts DEF IInv, TypeOK
<1>2. CASE BeginSlice \/ Sleep \/ HandlePending \/ ExecuteDone \/ AcceptIrq \/ NoIrq \/ Halt
  <2>1. UNCHANGED <<nanosecs, left, calling>>
    BY <1>2 DEF BeginSlice, Sleep, HandlePending, ExecuteDone, AcceptIrq, NoIrq, Halt, queues
  <2> QED BY <2>1 DEF armed, Scheduled
<1>3. ASSUME NEW n \in 1 .. MaxBlock, RunCode(n)
      PROVE  \E k \in -(SliceLength + MaxBlock) .. SliceLength + MaxBlock : Timers!Pass(k)
  <2>1. n \in -(SliceLength + MaxBlock) .. SliceLength + MaxBlock
    BY <1>1
  <2> QED BY <1>3, <2>1, TimePassesPromise DEF RunCode, queues
<1>4. CASE SleepJump
  <2>1. pending - slice \in -(SliceLength + MaxBlock) .. SliceLength + MaxBlock
    BY <1>1, <1>4 DEF SleepJump
  <2>2. Timers!Pass(pending - slice)
    BY <1>4, <2>1, TimePassesPromise DEF SleepJump, queues
  <2> QED BY <2>1, <2>2
<1>5. CASE EndSlice
  <2>1. SliceLength - slice \in -(SliceLength + MaxBlock) .. SliceLength + MaxBlock
    BY <1>1
  <2>2. Timers!Pass(SliceLength - slice)
    BY <1>5, <2>1, TimePassesPromise DEF EndSlice, queues
  <2> QED BY <2>1, <2>2
<1>6. CASE ExecutePop
  <2>1. PICK e \in EventId : e = queue[1] /\ Short(e) /\ nanosecs[e] <= slice
    <3>1. queue # <<>> /\ queue \in Seq(EventId)
      BY <1>6 DEF ExecutePop, HeadDue, IInv, TypeOK
    <3>2. queue[1] \in EventId /\ queue[1] \in Members(queue)
      BY <3>1, FirstOfQueue DEF Members
    <3> QED BY <3>2, <1>6 DEF ExecutePop, HeadDue, IInv, ListsConsistent, Short
  <2>2. /\ phase = "execute" /\ calling' = e
        /\ nanosecs' = [nanosecs EXCEPT ![e] = NOT_SCHEDULED]
        /\ left' = [left EXCEPT ![e] = 0]
    BY <1>6, <2>1 DEF ExecutePop
  <2>3. calling = NoEvent
    BY <2>2 DEF TimeInv, Places
  <2>4. left[e] \in -MaxLate .. 0
    <3>1. left[e] >= -MaxLate
      BY <2>1, <2>2, NoneTooLate DEF Short
    <3>2. nanosecs[e] - slice - left[e] >= 0
      BY <2>1, <2>2 DEF TimeInv, LateTrue, Lateness, Now
    <3>3. MaxLate \in Nat /\ left[e] \in Int /\ nanosecs[e] \in Nat
      BY TimeTypes
    <3> QED BY <3>1, <3>2, <3>3, <2>1, <1>1
  <2>5. \A x \in EventId : Scheduled(x)' <=> x # e /\ Scheduled(x)
    BY <1>1, <2>2 DEF Scheduled
  <2>6. Timers!Fire(e)
    BY <2>1, <2>2, <2>3, <2>4, <2>5 DEF Timers!Fire, Short
  <2> QED BY <2>6
<1>7. CASE CallbackReturn
  <2>1. /\ calling # NoEvent /\ calling' = NoEvent
        /\ UNCHANGED <<nanosecs, left>>
    BY <1>7 DEF CallbackReturn, queues, TimeInv, Places
  <2> QED BY <2>1 DEF Timers!Return, Scheduled
<1> QED BY <1>2, <1>3, <1>4, <1>5, <1>6, <1>7 DEF Core

(* The end of the slice and the scan are not seen from outside.            *)
LEMMA RunSlicePromise ==
  ASSUME IInv, RunSlice
  PROVE  UNCHANGED <<armed, left, calling>>
<1>1. CASE EventRunSlice
  <2>1. nanosecs \in [EventId -> 0 .. NOT_SCHEDULED] /\ slice \in Nat
        /\ nanosecs' = Rebased /\ UNCHANGED <<left, calling>>
    BY <1>1 DEF IInv, TypeOK, EventRunSlice
  <2>2. \A e \in EventId : Scheduled(e)' <=> Scheduled(e)
    BY <2>1, ConstantFacts DEF Rebased, Scheduled
  <2> QED BY <2>1, <2>2 DEF armed
<1>2. CASE ScanStay \/ ScanMove \/ ScanDone
  BY <1>2 DEF ScanStay, ScanMove, ScanDone, queues, armed, Scheduled
<1> QED BY <1>1, <1>2 DEF RunSlice

(* The lists, the sentinel, the seconds and the slices implement one-shot  *)
(* timers: an event is called only while it is scheduled, never early and  *)
(* never later than MaxLate, the latest schedule of an id wins, and time   *)
(* passes for all events alike.  (event_schedule, event_schedule_long,     *)
(* event_cancel, event_execute, event_run_slice, event_scan_long)          *)
THEOREM PromiseIsKept == Spec => KeepsPromise
<1>1. Init => Timers!Init
  BY DEF Init, Timers!Init, Scheduled
<1>2. IInv /\ TimeInv /\ IInv' /\ TimeInv' /\ [Next]_vars => [Timers!Next]_(Timers!vars)
  <2> SUFFICES ASSUME IInv, TimeInv, IInv', TimeInv', [Next]_vars
               PROVE  Timers!Next \/ UNCHANGED <<armed, left, calling>>
    BY DEF Timers!vars, armed
  <2>1. CASE Client
    BY <2>1, ClientPromise DEF Timers!Next
  <2>2. CASE Core \/ Sleep \/ Halt
    BY <2>2, CorePromise DEF Timers!Next
  <2>3. CASE RunSlice
    BY <2>3, RunSlicePromise
  <2>4. CASE Reset
    <3>1. (\A e \in EventId : ~Scheduled(e)') /\ left' = [e \in EventId |-> 0]
          /\ calling' = calling
      BY <2>4 DEF Reset, Scheduled
    <3> QED BY <3>1 DEF Timers!Next, Timers!Clear
  <2>5. CASE UNCHANGED vars
    BY <2>5 DEF vars, armed, Scheduled
  <2> QED BY <2>1, <2>2, <2>3, <2>4, <2>5 DEF Next
<1> QED BY <1>1, <1>2, TimesAreKept, PTL DEF Spec, KeepsPromise, Timers!Spec
=============================================================================
