---------------------------- MODULE MCIntc_proofs ----------------------------
(***************************************************************************)
(* Proofs about the four modules beside Intc in MCIntc, for all values of  *)
(* their parameters that the assumptions there allow: the timer, the       *)
(* serial port, the G2 FIFO and the ring of sound buffers.                 *)
(***************************************************************************)
EXTENDS MCIntc, TLAPS

-----------------------------------------------------------------------------
(* The timer.  That its event is where the counter underflows is not       *)
(* inductive: a count keeps it only if the time it counts is the time that *)
(* has passed, and that has not wrapped, which needs the run of the timer  *)
(* to lie in the slice and its remainder to be that of some clock.         *)
TimerTypes ==
  /\ slice \in 0 .. SliceLength + MaxBlock - 1
  /\ cnt \in Nat /\ cor \in Nat \ {0}
  /\ timer \in [period : Periods, remainder : Nat, run : Nat]
  /\ \E p \in Periods : timer.remainder < p
  /\ due \in Nat \cup {Timer!NONE}
  /\ {unf, unie, tuni, started, exact, clobbered} \subseteq BOOLEAN

EventInSlice ==
  /\ ~started => due = Timer!NONE
  /\ started /\ exact => /\ due = timer.run + Timer!Underflow(cnt, timer)
                         /\ due # Timer!NONE
                         /\ timer.run <= slice /\ timer.run <= SliceLength

TimerInv == TimerTypes /\ EventInSlice /\ Timer!InterruptExact

LEMMA TimerFacts ==
  /\ Counts \subseteq Nat /\ Constants \subseteq Nat \ {0}
  /\ Periods \subseteq Nat \ {0} /\ ResetPeriod \in Periods
  /\ SliceLength \in Nat \ {0} /\ MaxBlock \in Nat \ {0} /\ Width \in Nat \ {0}
  /\ \A p \in Periods : SliceLength + MaxBlock + p <= Width
BY TimerConstants DEF Timer!TimerAssumption

LEMMA Remainder ==
  ASSUME NEW a \in Int, NEW p \in Nat \ {0}
  PROVE  /\ a % p \in 0 .. p - 1
         /\ a \in 0 .. p - 1 => a % p = a
OBVIOUS

LEMMA Quotient ==
  ASSUME NEW a \in Nat, NEW p \in Nat \ {0}
  PROVE  a \div p \in Nat /\ a = p * (a \div p) + (a % p)
OBVIOUS

(* The time of an underflow, c counts of p and what the remainder leaves   *)
(* from the run, in terms of a later time, q counts and r further on.      *)
LEMMA SameUnderflow ==
  ASSUME NEW c \in Nat, NEW q \in Nat, NEW p \in Nat \ {0}, NEW rem \in Nat,
         NEW run \in Nat, NEW now \in Nat, NEW r \in 0 .. p - 1,
         now + rem - run = p * q + r
  PROVE  /\ run + ((c + 1) * p - rem) = now + ((c - q + 1) * p - r)
         /\ run + ((c + 1) * p - rem) <= now => q > c
<1>1. (c - q + 1) * p = (c + 1) * p - p * q
  OBVIOUS
<1>2. run + ((c + 1) * p - rem) = now + ((c - q + 1) * p - r)
  <2>1. (c + 1) * p \in Int /\ p * q \in Int
    OBVIOUS
  <2> QED BY <1>1, <2>1
<1>3. ASSUME run + ((c + 1) * p - rem) <= now PROVE q > c
  <2>1. (c + 1) * p <= p * q + r
    <3>1. (c + 1) * p \in Int /\ p * q \in Int
      OBVIOUS
    <3> QED BY <1>3, <3>1
  <2> QED BY <2>1
<1> QED BY <1>2, <1>3

(* What a count at any time leaves: a counter, a remainder of the clock    *)
(* and an underflow that is still to come.                                 *)
LEMMA CountTypes ==
  ASSUME TimerTypes, NEW now \in Nat
  PROVE  /\ Timer!CountNow(now) \in Nat
         /\ Timer!RunTime(now) \in Nat /\ Timer!Ticks(now) \in Nat
         /\ Timer!Counted(now) \in [period : Periods, remainder : Nat, run : Nat]
         /\ Timer!Counted(now).period = timer.period
         /\ Timer!Counted(now).run = now
         /\ Timer!Counted(now).remainder = Timer!RunTime(now) % timer.period
         /\ Timer!Counted(now).remainder < timer.period
         /\ Timer!Underflow(Timer!CountNow(now), Timer!Counted(now)) \in Nat \ {0}
<1>1. timer \in [period : Periods, remainder : Nat, run : Nat]
  BY DEF TimerTypes
<1>2. /\ timer.period \in Nat \ {0} /\ timer.period \in Periods
      /\ timer.remainder \in Nat /\ timer.run \in Nat
      /\ cnt \in Nat /\ cor \in Nat \ {0} /\ Width \in Nat \ {0}
  BY <1>1, TimerFacts DEF TimerTypes
<1>3. Timer!RunTime(now) \in Nat
  <2>1. now + timer.remainder - timer.run \in Int
    BY <1>2
  <2>2. (now + timer.remainder - timer.run) % Width \in 0 .. Width - 1
    BY <1>2, <2>1, Remainder
  <2> QED BY <1>2, <2>2 DEF Timer!RunTime
<1>4. PICK rt \in Nat : rt = Timer!RunTime(now)
  BY <1>3
<1>5. PICK p \in Nat \ {0} : p = timer.period
  BY <1>2
<1>6. PICK q \in Nat : q = Timer!Ticks(now)
  <2>1. rt \div p \in Nat
    BY Quotient
  <2> QED BY <2>1, <1>4, <1>5 DEF Timer!Ticks
<1>7. PICK n \in Nat : n = Timer!CountNow(now)
  <2>1. CASE q > cnt
    <3>1. (q - cnt) % cor \in 0 .. cor - 1
      BY <1>2, Remainder
    <3>2. cor - ((q - cnt) % cor) + 1 \in Nat
      BY <3>1, <1>2
    <3> QED BY <2>1, <3>2, <1>6 DEF Timer!CountNow, Timer!Reload, Timer!Underflows
  <2>2. CASE ~(q > cnt)
    <3>1. cnt - q \in Nat
      BY <2>2, <1>2
    <3> QED BY <2>2, <3>1, <1>6 DEF Timer!CountNow, Timer!Underflows
  <2> QED BY <2>1, <2>2
<1>8. PICK r \in 0 .. p - 1 : r = rt % p
  BY Remainder
<1>9. /\ Timer!Counted(now) = [timer EXCEPT !.remainder = r, !.run = now]
      /\ r \in Nat
  BY <1>4, <1>5, <1>8 DEF Timer!Counted
<1>10. /\ Timer!Counted(now) \in [period : Periods, remainder : Nat, run : Nat]
       /\ Timer!Counted(now).period = p
       /\ Timer!Counted(now).run = now
       /\ Timer!Counted(now).remainder = r
  BY <1>1, <1>5, <1>9
<1>11. Timer!Underflow(n, Timer!Counted(now)) = (n + 1) * p - r
  BY <1>10 DEF Timer!Underflow
<1>12. (n + 1) * p - r \in Nat \ {0}
  <2>1. (n + 1) * p \in Nat /\ (n + 1) * p >= p
    OBVIOUS
  <2> QED BY <2>1
<1>13. r < p
  OBVIOUS
<1> QED BY <1>4, <1>5, <1>6, <1>7, <1>8, <1>10, <1>11, <1>12, <1>13

(* A count that finds no underflow moves the time on, and leaves the event *)
(* where it was; one that is not before the event finds the underflow.     *)
LEMMA CountKeepsEvent ==
  ASSUME TimerTypes, EventInSlice, started, exact,
         NEW now \in 0 .. SliceLength + MaxBlock - 1, timer.run <= now
  PROVE  /\ ~Timer!Underflows(now) =>
              due = now + Timer!Underflow(Timer!CountNow(now), Timer!Counted(now))
         /\ due <= now => Timer!Underflows(now)
<1>1. now \in Nat
  BY TimerFacts
<1>2. /\ timer.period \in Nat \ {0} /\ cnt \in Nat /\ Width \in Nat \ {0}
      /\ timer.remainder \in Nat /\ timer.run \in Nat
  BY TimerFacts DEF TimerTypes
<1>3. PICK s \in Periods : timer.remainder < s
  BY DEF TimerTypes
<1>4. now + timer.remainder - timer.run \in 0 .. Width - 1
  BY <1>1, <1>2, <1>3, TimerFacts
<1>5. Timer!RunTime(now) = now + timer.remainder - timer.run
  <2>1. PICK x \in 0 .. Width - 1 : x = now + timer.remainder - timer.run
    BY <1>4
  <2>2. x \in Int /\ Width \in Nat \ {0}
    BY <1>2
  <2>3. x % Width = x
    BY <2>2, Remainder
  <2> QED BY <2>1, <2>3 DEF Timer!RunTime
<1>6. PICK rt \in Nat : rt = Timer!RunTime(now)
  BY <1>1, CountTypes
<1>7. PICK p \in Nat \ {0} : p = timer.period
  BY <1>2
<1>8. PICK q \in Nat : q = Timer!Ticks(now)
  BY <1>1, CountTypes
<1>9. PICK r \in 0 .. p - 1 : r = rt % p
  BY Remainder
<1>10. rt = p * q + r
  <2>1. q = rt \div p
    BY <1>6, <1>7, <1>8 DEF Timer!Ticks
  <2> QED BY <2>1, <1>9, Quotient
<1>11. PICK c \in Nat, rem \in Nat, run \in Nat :
         c = cnt /\ rem = timer.remainder /\ run = timer.run
  BY <1>2
<1>12. now + rem - run = p * q + r
  BY <1>5, <1>6, <1>10, <1>11
<1>13. due = run + ((c + 1) * p - rem)
  BY <1>7, <1>11 DEF EventInSlice, Timer!Underflow
<1>14. /\ run + ((c + 1) * p - rem) = now + ((c - q + 1) * p - r)
       /\ run + ((c + 1) * p - rem) <= now => q > c
  BY <1>1, <1>12, SameUnderflow
<1>15. Timer!Underflows(now) <=> q > c
  BY <1>8, <1>11 DEF Timer!Underflows
<1>16. ASSUME ~Timer!Underflows(now)
       PROVE  Timer!Underflow(Timer!CountNow(now), Timer!Counted(now))
                = (c - q + 1) * p - r
  <2>1. Timer!CountNow(now) = c - q
    BY <1>8, <1>11, <1>16 DEF Timer!CountNow
  <2>2. Timer!Counted(now).period = p /\ Timer!Counted(now).remainder = r
    BY <1>1, <1>6, <1>7, <1>9, CountTypes
  <2> QED BY <2>1, <2>2 DEF Timer!Underflow
<1> QED BY <1>13, <1>14, <1>15, <1>16

(* An underflow raises the line with the flag, if it is enabled.           *)
LEMMA CountKeepsLine ==
  ASSUME TimerTypes, Timer!InterruptExact, NEW now \in Nat, Timer!Count(now),
         unie' = unie, clobbered' = clobbered
  PROVE  /\ Timer!InterruptExact'
         /\ cnt' \in Nat /\ {unf', tuni'} \subseteq BOOLEAN
<1>1. cnt' \in Nat
  BY CountTypes DEF Timer!Count
<1>2. /\ unf \in BOOLEAN /\ unie \in BOOLEAN /\ tuni \in BOOLEAN /\ clobbered \in BOOLEAN
      /\ Timer!Underflows(now) \in BOOLEAN
  BY DEF TimerTypes, Timer!Underflows
<1>3. /\ unf' = (unf \/ Timer!Underflows(now))
      /\ tuni' = (tuni \/ (Timer!Underflows(now) /\ unie))
  BY DEF Timer!Count
<1>4. ~clobbered => (tuni <=> unf /\ unie)
  BY DEF Timer!InterruptExact
<1>5. ~clobbered' => (tuni' <=> unf' /\ unie')
  BY <1>2, <1>3, <1>4
<1>6. Timer!InterruptExact'
  BY <1>5 DEF Timer!InterruptExact
<1> QED BY <1>1, <1>2, <1>3, <1>6

(* A count at the end of a slice of n, or earlier where it is left.        *)
LEMMA RunSliceKeeps ==
  ASSUME TimerInv, NEW n \in 0 .. SliceLength, n = SliceLength \/ n = slice,
         Timer!RunSlice(n)
  PROVE  TimerInv'
<1>1. TimerTypes /\ EventInSlice /\ Timer!InterruptExact
  BY DEF TimerInv
<1>2. /\ n \in Nat /\ n \in 0 .. SliceLength + MaxBlock - 1
      /\ SliceLength + MaxBlock - 1 \in Nat
  BY TimerFacts
<1>3. /\ slice' = 0 /\ cor' = cor /\ unie' = unie /\ started' = started
      /\ clobbered' = clobbered
  BY DEF Timer!RunSlice
<1>4. CASE started
  <2> DEFINE c == Timer!Counted(n)
             u == Timer!Underflow(Timer!CountNow(n), c)
  <2>1. /\ Timer!Count(n)
        /\ timer' = [c EXCEPT !.run = 0]
        /\ due' = Timer!Rebased(IF Timer!Underflows(n) THEN n + u ELSE due, n)
        /\ exact' = IF Timer!Underflows(n) THEN TRUE
                    ELSE exact /\ (due = Timer!NONE \/ due >= n)
    BY <1>4 DEF Timer!RunSlice
  <2>2. Timer!InterruptExact' /\ cnt' \in Nat /\ {unf', tuni'} \subseteq BOOLEAN
    BY <1>1, <1>2, <1>3, <2>1, CountKeepsLine
  <2>3. /\ c \in [period : Periods, remainder : Nat, run : Nat]
        /\ c.period = timer.period /\ c.remainder < timer.period
        /\ u \in Nat \ {0}
    BY <1>1, <1>2, CountTypes
  <2>4. cnt' = Timer!CountNow(n)
    BY <2>1 DEF Timer!Count
  <2> HIDE DEF c
  <2>5. /\ timer' \in [period : Periods, remainder : Nat, run : Nat]
        /\ timer'.period = c.period /\ timer'.remainder = c.remainder /\ timer'.run = 0
    BY <2>1, <2>3
  <2>6. timer.period \in Periods
    BY <1>1 DEF TimerTypes
  <2>7. Timer!Underflow(cnt', timer') = u
    BY <2>4, <2>5 DEF Timer!Underflow
  <2> HIDE DEF u
  <2>8. due \in Nat \cup {-1} /\ Timer!NONE = -1
    BY <1>1 DEF TimerTypes, Timer!NONE
  <2>9. /\ due' \in Nat \cup {-1}
        /\ Timer!Underflows(n) => due' = u
        /\ ~Timer!Underflows(n) /\ due = n + u => due' = u
    BY <1>2, <2>1, <2>3, <2>8 DEF Timer!Rebased, Timer!NONE
  <2>10. ASSUME exact', ~Timer!Underflows(n) PROVE due = n + u
    <3>1. exact
      BY <2>1, <2>10
    <3>2. timer.run <= n
      BY <1>1, <1>4, <3>1 DEF EventInSlice
    <3> QED BY <1>1, <1>2, <1>4, <2>10, <3>1, <3>2, CountKeepsEvent DEF u, c
  <2>11. EventInSlice'
    BY <1>2, <1>3, <1>4, <2>3, <2>5, <2>7, <2>8, <2>9, <2>10, TimerFacts DEF EventInSlice
  <2>12. exact' \in BOOLEAN
    BY <1>1, <2>1 DEF TimerTypes
  <2>13. TimerTypes'
    BY <1>1, <1>2, <1>3, <2>2, <2>3, <2>5, <2>6, <2>8, <2>9, <2>12 DEF TimerTypes
  <2> QED BY <2>2, <2>11, <2>13 DEF TimerInv
<1>5. CASE ~started
  <2>1. /\ timer' = [timer EXCEPT !.run = 0] /\ due' = Timer!Rebased(due, n)
        /\ UNCHANGED <<cnt, unf, tuni, exact>>
    BY <1>5 DEF Timer!RunSlice
  <2>2. due' = Timer!NONE
    BY <1>1, <1>5, <2>1 DEF EventInSlice, Timer!Rebased
  <2>3. timer \in [period : Periods, remainder : Nat, run : Nat]
    BY <1>1 DEF TimerTypes
  <2>4. /\ timer' \in [period : Periods, remainder : Nat, run : Nat]
        /\ timer'.remainder = timer.remainder
    BY <2>1, <2>3
  <2>5. TimerTypes'
    BY <1>1, <1>2, <1>3, <2>1, <2>2, <2>4 DEF TimerTypes
  <2> QED BY <1>1, <1>3, <1>5, <2>1, <2>2, <2>5
          DEF TimerInv, EventInSlice, Timer!InterruptExact
<1>6. started \in BOOLEAN
  BY <1>1 DEF TimerTypes
<1> QED BY <1>4, <1>5, <1>6

LEMMA SliceFacts ==
  ASSUME TimerTypes
  PROVE  /\ slice \in Nat /\ slice \in 0 .. SliceLength + MaxBlock - 1
         /\ timer \in [period : Periods, remainder : Nat, run : Nat]
         /\ timer.period \in Periods /\ timer.period \in Nat \ {0}
         /\ timer.remainder \in Nat /\ timer.run \in Nat
<1>1. slice \in 0 .. SliceLength + MaxBlock - 1
  BY DEF TimerTypes
<1>2. slice \in Nat
  BY <1>1, TimerFacts
<1>3. timer \in [period : Periods, remainder : Nat, run : Nat]
  BY DEF TimerTypes
<1>4. timer.period \in Periods /\ timer.remainder \in Nat /\ timer.run \in Nat
  BY <1>3
<1> QED BY <1>1, <1>2, <1>3, <1>4, TimerFacts

(* A count where the core is: a read of TCNT, or the event.                *)
LEMMA CountHereKeeps ==
  ASSUME TimerInv, started, NEW otherwise \in {due, Timer!NONE}, Timer!Count(slice),
         timer' = Timer!Counted(slice), due' = Timer!DueAfter(slice, otherwise),
         exact' \in BOOLEAN, exact' => slice <= SliceLength,
         exact' => Timer!ExactAfter(slice),
         otherwise = due \/ due <= slice,
         UNCHANGED <<slice, cor, unie, started, clobbered>>
  PROVE  TimerInv'
<1>1. TimerTypes /\ EventInSlice /\ Timer!InterruptExact
  BY DEF TimerInv
<1>2. slice \in Nat /\ slice \in 0 .. SliceLength + MaxBlock - 1
  BY <1>1, SliceFacts
<1>3. Timer!InterruptExact' /\ cnt' \in Nat /\ {unf', tuni'} \subseteq BOOLEAN
  BY <1>1, <1>2, CountKeepsLine
<1> DEFINE c == Timer!Counted(slice)
           u == Timer!Underflow(Timer!CountNow(slice), c)
<1>4. /\ c \in [period : Periods, remainder : Nat, run : Nat]
      /\ c.period = timer.period /\ c.remainder < timer.period /\ c.run = slice
      /\ u \in Nat \ {0}
  BY <1>1, <1>2, CountTypes
<1>5. Timer!Underflow(cnt', timer') = u
  BY DEF Timer!Count
<1>6. due' = IF Timer!Underflows(slice) THEN slice + u ELSE otherwise
  BY DEF Timer!DueAfter
<1>7. /\ exact' /\ ~Timer!Underflows(slice) => exact
      /\ timer' = c
  BY DEF Timer!ExactAfter
<1> HIDE DEF c
<1>8. ASSUME exact', ~Timer!Underflows(slice) PROVE due = slice + u /\ otherwise = due
  <2>1. exact
    BY <1>7, <1>8
  <2>2. timer.run <= slice
    BY <1>1, <2>1 DEF EventInSlice
  <2>3. /\ due = slice + u
        /\ ~(due <= slice)
    BY <1>1, <1>2, <1>8, <2>1, <2>2, CountKeepsEvent DEF c
  <2> QED BY <2>3
<1> HIDE DEF u
<1>9. due \in Nat \cup {-1} /\ Timer!NONE = -1
  BY <1>1 DEF TimerTypes, Timer!NONE
<1>10. EventInSlice'
  BY <1>2, <1>4, <1>5, <1>6, <1>7, <1>8, <1>9 DEF EventInSlice
<1>11. timer.period \in Periods
  BY <1>1, SliceFacts
<1>12. due' \in Nat \cup {-1}
  BY <1>2, <1>4, <1>6, <1>9
<1>13. TimerTypes'
  BY <1>1, <1>2, <1>3, <1>4, <1>7, <1>9, <1>11, <1>12 DEF TimerTypes
<1> QED BY <1>3, <1>10, <1>13 DEF TimerInv

LEMMA TimerEventKeeps ==
  ASSUME TimerInv, Timer!TimerEvent \/ Timer!ReadTCNT
  PROVE  TimerInv'
<1>1. TimerTypes /\ EventInSlice /\ started \in BOOLEAN /\ exact \in BOOLEAN
      /\ slice \in Nat /\ SliceLength \in Nat
  BY SliceFacts, TimerFacts DEF TimerInv, TimerTypes
<1>2. Timer!ExactAfter(slice) \in BOOLEAN
  BY <1>1 DEF Timer!ExactAfter
<1>3. CASE Timer!TimerEvent
  <2>1. started /\ due <= slice
    BY <1>1, <1>3 DEF Timer!TimerEvent, Timer!EventDue, EventInSlice
  <2> QED BY <1>1, <1>2, <1>3, <2>1, CountHereKeeps DEF Timer!TimerEvent
<1>4. CASE Timer!ReadTCNT
  <2>1. started /\ slice < SliceLength
    BY <1>4 DEF Timer!ReadTCNT, Timer!Access
  <2> QED BY <1>1, <1>2, <1>4, <2>1, CountHereKeeps DEF Timer!ReadTCNT
<1> QED BY <1>3, <1>4

(* The timer is stopped, by the program or by standby mode.                *)
LEMMA StopKeeps ==
  ASSUME TimerInv, Timer!Stop \/ Timer!Standby
  PROVE  TimerInv'
<1>1. TimerTypes /\ EventInSlice /\ Timer!InterruptExact /\ started \in BOOLEAN
      /\ exact \in BOOLEAN
  BY DEF TimerInv, TimerTypes
<1>2. slice \in Nat /\ slice \in 0 .. SliceLength + MaxBlock - 1
      /\ timer \in [period : Periods, remainder : Nat, run : Nat]
      /\ timer.period \in Periods
  BY <1>1, SliceFacts
<1>3. slice' = slice /\ cor' = cor /\ unie' = unie /\ clobbered' = clobbered
  BY DEF Timer!Stop, Timer!Standby
<1>4. due \in Nat \cup {-1} /\ Timer!NONE = -1
  BY <1>1 DEF TimerTypes, Timer!NONE
<1>5. CASE started
  <2> DEFINE c == Timer!Counted(slice)
             u == Timer!Underflow(Timer!CountNow(slice), c)
  <2>1. Timer!Count(slice)
    BY <1>5 DEF Timer!Stop, Timer!Standby
  <2>2. Timer!InterruptExact' /\ cnt' \in Nat /\ {unf', tuni'} \subseteq BOOLEAN
    BY <1>1, <1>2, <1>3, <2>1, CountKeepsLine
  <2>3. /\ c \in [period : Periods, remainder : Nat, run : Nat]
        /\ c.remainder < timer.period
        /\ u \in Nat \ {0}
    BY <1>1, <1>2, CountTypes
  <2>4. /\ timer' = c \/ timer' = [c EXCEPT !.run = 0]
        /\ \/ started' = FALSE /\ due' = Timer!NONE /\ exact' = exact
           \/ /\ started' = started /\ exact' = FALSE
              /\ due' = IF Timer!Underflows(slice) THEN slice + u ELSE due
    BY <1>5 DEF Timer!Stop, Timer!Standby, Timer!DueAfter
  <2> HIDE DEF c, u
  <2>5. /\ timer' \in [period : Periods, remainder : Nat, run : Nat]
        /\ timer'.remainder = c.remainder
    BY <2>3, <2>4
  <2>6. due' \in Nat \cup {-1}
    BY <1>2, <1>4, <2>3, <2>4
  <2>7. TimerTypes'
    BY <1>1, <1>2, <1>3, <1>4, <1>5, <2>2, <2>3, <2>4, <2>5, <2>6 DEF TimerTypes
  <2>8. EventInSlice'
    BY <1>5, <2>4 DEF EventInSlice
  <2> QED BY <2>2, <2>7, <2>8 DEF TimerInv
<1>6. CASE ~started
  <2>1. /\ timer' = [timer EXCEPT !.run = 0] /\ exact' = FALSE
        /\ UNCHANGED <<cnt, unf, tuni, due, started>>
    BY <1>6 DEF Timer!Stop, Timer!Standby
  <2>2. /\ timer' \in [period : Periods, remainder : Nat, run : Nat]
        /\ timer'.remainder = timer.remainder
    BY <1>2, <2>1
  <2>3. TimerTypes'
    BY <1>1, <1>3, <2>1, <2>2 DEF TimerTypes
  <2> QED BY <1>1, <1>3, <1>6, <2>1, <2>3
          DEF TimerInv, EventInSlice, Timer!InterruptExact
<1> QED BY <1>1, <1>5, <1>6

LEMMA StartKeeps ==
  ASSUME TimerInv, Timer!Start
  PROVE  TimerInv'
<1>1. TimerTypes /\ Timer!InterruptExact
  BY DEF TimerInv
<1>2. slice \in Nat /\ timer \in [period : Periods, remainder : Nat, run : Nat]
      /\ timer.period \in Periods /\ timer.period \in Nat \ {0} /\ cnt \in Nat
  BY <1>1, SliceFacts DEF TimerTypes
<1>3. /\ slice < SliceLength /\ started' = TRUE /\ exact' = TRUE
      /\ timer' = [timer EXCEPT !.run = slice, !.remainder = 0]
      /\ due' = slice + Timer!Underflow(cnt, timer')
      /\ UNCHANGED <<slice, cnt, cor, unf, unie, tuni, clobbered>>
  BY DEF Timer!Start, Timer!Access
<1>4. /\ timer' \in [period : Periods, remainder : Nat, run : Nat]
      /\ timer'.period = timer.period /\ timer'.remainder = 0 /\ timer'.run = slice
  BY <1>2, <1>3
<1>5. Timer!Underflow(cnt, timer') \in Nat
  <2>1. PICK p \in Nat \ {0} : p = timer.period
    BY <1>2
  <2>2. (cnt + 1) * p \in Nat
    BY <1>2
  <2> QED BY <1>4, <2>1, <2>2 DEF Timer!Underflow
<1>6. due' \in Nat
  BY <1>2, <1>3, <1>5
<1>7. timer'.remainder < timer.period
  BY <1>2, <1>4
<1>8. TimerTypes'
  BY <1>1, <1>2, <1>3, <1>4, <1>6, <1>7 DEF TimerTypes
<1>9. EventInSlice'
  BY <1>2, <1>3, <1>4, <1>6, TimerFacts DEF EventInSlice, Timer!NONE
<1> QED BY <1>1, <1>3, <1>8, <1>9 DEF TimerInv, Timer!InterruptExact

LEMMA WriteCountKeeps ==
  ASSUME TimerInv, NEW n \in Counts, Timer!WriteTCNT(n)
  PROVE  TimerInv'
<1>1. TimerTypes /\ EventInSlice /\ Timer!InterruptExact /\ started \in BOOLEAN
  BY DEF TimerInv, TimerTypes
<1>2. slice \in Nat /\ timer \in [period : Periods, remainder : Nat, run : Nat]
      /\ n \in Nat
  BY <1>1, SliceFacts, TimerFacts
<1>3. /\ slice < SliceLength /\ cnt' = n
      /\ UNCHANGED <<slice, cor, unf, unie, started, tuni, clobbered>>
  BY DEF Timer!WriteTCNT, Timer!Access
<1>4. CASE started
  <2>1. /\ Timer!Underflow(n, timer) >= 0
        /\ timer' = [timer EXCEPT !.run = slice]
        /\ due' = slice + Timer!Underflow(n, timer')
        /\ exact' = TRUE
    BY <1>4 DEF Timer!WriteTCNT, Timer!Fits
  <2>2. /\ timer' \in [period : Periods, remainder : Nat, run : Nat]
        /\ timer'.period = timer.period /\ timer'.remainder = timer.remainder
        /\ timer'.run = slice
    BY <1>2, <2>1
  <2>3. Timer!Underflow(n, timer') = Timer!Underflow(n, timer)
    BY <2>2 DEF Timer!Underflow
  <2>4. Timer!Underflow(n, timer) \in Int
    BY <1>1, <1>2, SliceFacts DEF Timer!Underflow
  <2>5. due' \in Nat
    BY <1>2, <2>1, <2>3, <2>4
  <2>6. TimerTypes'
    BY <1>1, <1>2, <1>3, <2>1, <2>2, <2>5 DEF TimerTypes
  <2>7. EventInSlice'
    BY <1>2, <1>3, <1>4, <2>1, <2>2, <2>5, TimerFacts DEF EventInSlice, Timer!NONE
  <2> QED BY <1>1, <1>3, <2>6, <2>7 DEF TimerInv, Timer!InterruptExact
<1>5. CASE ~started
  <2>1. UNCHANGED <<timer, due, exact>>
    BY <1>5 DEF Timer!WriteTCNT
  <2> QED BY <1>1, <1>2, <1>3, <1>5, <2>1
          DEF TimerInv, TimerTypes, EventInSlice, Timer!InterruptExact
<1> QED BY <1>1, <1>4, <1>5

(* A write of TCR: the line follows the flag and the enable that are       *)
(* written, and a running timer goes on at its new clock.                  *)
LEMMA WriteControlKeepsTimer ==
  ASSUME TimerInv, NEW f \in BOOLEAN, NEW i \in BOOLEAN, NEW p \in Periods,
         Timer!WriteTCR(f, i, p)
  PROVE  TimerInv'
<1>1. TimerTypes /\ EventInSlice /\ Timer!InterruptExact
      /\ started \in BOOLEAN /\ exact \in BOOLEAN
      /\ unf \in BOOLEAN /\ unie \in BOOLEAN /\ tuni \in BOOLEAN /\ clobbered \in BOOLEAN
  BY DEF TimerInv, TimerTypes
<1>2. slice \in Nat /\ timer \in [period : Periods, remainder : Nat, run : Nat]
      /\ timer.period \in Periods
  BY <1>1, SliceFacts
<1>3. /\ slice < SliceLength /\ unf' = (unf /\ f) /\ unie' = i
      /\ UNCHANGED <<slice, cor, started>>
  BY DEF Timer!WriteTCR, Timer!Access
<1>4. /\ Timer!LineAfter(f, i) \in BOOLEAN
      /\ ~clobbered => (Timer!LineAfter(f, i) <=> unf' /\ unie')
  BY <1>1, <1>3 DEF Timer!LineAfter, Timer!InterruptExact
<1>5. CASE p # timer.period /\ started
  <2> DEFINE c == Timer!Counted(slice)
             tm == [c EXCEPT !.period = p]
             n == Timer!CountNow(slice)
  <2>1. /\ Timer!Underflow(n, tm) >= 0
        /\ cnt' = n /\ timer' = tm
        /\ due' = slice + Timer!Underflow(n, tm)
        /\ tuni' = (Timer!LineAfter(f, i) \/ (Timer!Underflows(slice) /\ unie))
        /\ exact' = TRUE
        /\ clobbered' = (clobbered \/ Timer!Underflows(slice))
    BY <1>5 DEF Timer!WriteTCR, Timer!Fits
  <2>2. /\ n \in Nat /\ c \in [period : Periods, remainder : Nat, run : Nat]
        /\ c.run = slice /\ c.remainder < timer.period
    BY <1>1, <1>2, CountTypes
  <2>3. Timer!Underflows(slice) \in BOOLEAN
    BY DEF Timer!Underflows
  <2> HIDE DEF c, n
  <2>4. /\ tm \in [period : Periods, remainder : Nat, run : Nat]
        /\ tm.period = p /\ tm.remainder = c.remainder /\ tm.run = slice
    BY <2>2
  <2> HIDE DEF tm
  <2>5. Timer!Underflow(n, tm) \in Int
    <3>1. p \in Int /\ tm.remainder \in Int
      BY <2>2, <2>4, TimerFacts
    <3>2. (n + 1) * p \in Int
      BY <2>2, <3>1
    <3> QED BY <2>4, <3>1, <3>2 DEF Timer!Underflow
  <2>6. due' \in Nat
    BY <1>2, <2>1, <2>5
  <2>7. Timer!InterruptExact'
    BY <1>1, <1>4, <2>1, <2>3 DEF Timer!InterruptExact
  <2>8. tuni' \in BOOLEAN /\ clobbered' \in BOOLEAN
    BY <1>1, <1>4, <2>1, <2>3
  <2>9. TimerTypes'
    BY <1>1, <1>2, <1>3, <2>1, <2>2, <2>4, <2>6, <2>8 DEF TimerTypes
  <2>10. EventInSlice'
    BY <1>2, <1>3, <1>5, <2>1, <2>4, <2>6, TimerFacts DEF EventInSlice, Timer!NONE
  <2> QED BY <2>7, <2>9, <2>10 DEF TimerInv
<1>6. CASE ~(p # timer.period /\ started)
  <2>1. /\ timer' = [timer EXCEPT !.period = p] /\ tuni' = Timer!LineAfter(f, i)
        /\ UNCHANGED <<cnt, due, exact, clobbered>>
    BY <1>6 DEF Timer!WriteTCR
  <2>2. /\ timer' \in [period : Periods, remainder : Nat, run : Nat]
        /\ timer'.remainder = timer.remainder /\ timer'.run = timer.run
        /\ timer'.period = p
    BY <1>2, <2>1
  <2>3. started => Timer!Underflow(cnt', timer') = Timer!Underflow(cnt, timer)
    BY <1>6, <2>1, <2>2 DEF Timer!Underflow
  <2>4. TimerTypes'
    BY <1>1, <1>3, <1>4, <2>1, <2>2 DEF TimerTypes
  <2>5. EventInSlice'
    BY <1>1, <1>3, <2>1, <2>2, <2>3 DEF EventInSlice
  <2>6. Timer!InterruptExact'
    BY <1>4, <2>1 DEF Timer!InterruptExact
  <2> QED BY <2>4, <2>5, <2>6 DEF TimerInv
<1> QED BY <1>5, <1>6

(* Time passes: in a block, asleep, or in standby, which forgets it.       *)
LEMMA PassingKeeps ==
  ASSUME TimerInv,
         \/ \E d \in 1 .. MaxBlock : Timer!Advance(d)
         \/ \E t \in 1 .. SliceLength : Timer!SleepJump(t)
         \/ Timer!Sleep
         \/ \E n \in Constants : Timer!WriteTCOR(n)
  PROVE  TimerInv'
<1>1. TimerTypes /\ EventInSlice /\ Timer!InterruptExact /\ slice \in Nat
  BY SliceFacts DEF TimerInv
<1>2. /\ UNCHANGED <<cnt, unf, unie, started, timer, due, tuni, exact, clobbered>>
      /\ cor' \in Nat \ {0}
  BY <1>1, TimerFacts
     DEF Timer!Advance, Timer!SleepJump, Timer!Sleep, Timer!WriteTCOR, TimerTypes
<1>3. slice' \in 0 .. SliceLength + MaxBlock - 1 /\ slice' \in Nat /\ slice <= slice'
  <2>1. ASSUME NEW d \in 1 .. MaxBlock, Timer!Advance(d)
        PROVE  slice < SliceLength /\ slice' = slice + d
    BY <2>1 DEF Timer!Advance, Timer!Access
  <2>2. ASSUME NEW t \in 1 .. SliceLength, Timer!SleepJump(t)
        PROVE  slice' \in slice + 1 .. SliceLength - 1
    BY <2>2 DEF Timer!SleepJump
  <2>3. ASSUME Timer!Sleep \/ \E n \in Constants : Timer!WriteTCOR(n)
        PROVE  slice' = slice
    BY <2>3 DEF Timer!Sleep, Timer!WriteTCOR
  <2>4. slice \in 0 .. SliceLength + MaxBlock - 1
    BY <1>1, SliceFacts
  <2> QED BY <1>1, <2>1, <2>2, <2>3, <2>4, TimerFacts
<1>4. timer.run \in Nat /\ SliceLength \in Nat
  BY <1>1, SliceFacts, TimerFacts
<1>5. EventInSlice'
  BY <1>1, <1>2, <1>3, <1>4 DEF EventInSlice, Timer!Underflow
<1> QED BY <1>1, <1>2, <1>3, <1>5 DEF TimerInv, TimerTypes, Timer!InterruptExact

LEMMA EndSliceKeepsTimer ==
  ASSUME TimerInv, Timer!EndSlice \/ Timer!EndStandbySlice \/ Timer!Halt
  PROVE  TimerInv'
<1>1. TimerTypes /\ EventInSlice /\ Timer!InterruptExact /\ slice \in Nat
      /\ SliceLength \in 0 .. SliceLength /\ SliceLength \in Nat
  BY SliceFacts, TimerFacts DEF TimerInv
<1>2. CASE Timer!RunSlice(SliceLength)
  BY <1>1, <1>2, RunSliceKeeps
<1>3. CASE Timer!Halt
  <2>1. Timer!RunSlice(slice) /\ slice \in 0 .. SliceLength
    BY <1>1, <1>3 DEF Timer!Halt, Timer!Access
  <2> QED BY <2>1, RunSliceKeeps
<1>4. CASE ~Timer!RunSlice(SliceLength) /\ ~Timer!Halt
  <2>1. /\ slice' = 0 /\ due' = Timer!Rebased(due, SliceLength) /\ exact' = FALSE
        /\ UNCHANGED <<cnt, cor, unf, unie, started, timer, tuni, clobbered>>
    BY <1>4 DEF Timer!EndSlice, Timer!EndStandbySlice
  <2>2. /\ due' \in Nat \cup {Timer!NONE}
        /\ due = Timer!NONE => due' = Timer!NONE
    BY <1>1, <2>1 DEF TimerTypes, Timer!Rebased, Timer!NONE
  <2>3. 0 \in 0 .. SliceLength + MaxBlock - 1
    BY TimerFacts
  <2>4. TimerTypes'
    BY <1>1, <2>1, <2>2, <2>3 DEF TimerTypes
  <2> QED BY <1>1, <2>1, <2>2, <2>4 DEF TimerInv, EventInSlice, Timer!InterruptExact
<1> QED BY <1>2, <1>3, <1>4

LEMMA TimerInvariance == Timer!Spec => []TimerInv
<1>1. Timer!Init => TimerInv
  <2> SUFFICES ASSUME Timer!Init PROVE TimerInv
    OBVIOUS
  <2>1. /\ timer = [period |-> ResetPeriod, remainder |-> 0, run |-> 0]
        /\ slice = 0 /\ cnt \in Nat /\ cor \in Nat \ {0} /\ due = Timer!NONE
        /\ unf = FALSE /\ unie = FALSE /\ tuni = FALSE /\ started = FALSE
        /\ exact = TRUE /\ clobbered = FALSE
    BY TimerFacts DEF Timer!Init
  <2>2. /\ timer \in [period : Periods, remainder : Nat, run : Nat]
        /\ timer.remainder < ResetPeriod
    BY <2>1, TimerFacts
  <2>3. 0 \in 0 .. SliceLength + MaxBlock - 1
    BY TimerFacts
  <2>4. TimerTypes
    BY <2>1, <2>2, <2>3, TimerFacts DEF TimerTypes
  <2> QED BY <2>1, <2>4 DEF TimerInv, EventInSlice, Timer!InterruptExact
<1>2. TimerInv /\ [Timer!Next]_(Timer!vars) => TimerInv'
  <2> SUFFICES ASSUME TimerInv, [Timer!Next]_(Timer!vars) PROVE TimerInv'
    OBVIOUS
  <2>1. CASE UNCHANGED Timer!vars
    BY <2>1 DEF Timer!vars, TimerInv, TimerTypes, EventInSlice, Timer!InterruptExact,
                Timer!Underflow
  <2>2. CASE Timer!Start
    BY <2>2, StartKeeps
  <2>3. CASE Timer!Stop \/ Timer!Standby
    BY <2>3, StopKeeps
  <2>4. CASE Timer!ReadTCNT \/ Timer!TimerEvent
    BY <2>4, TimerEventKeeps
  <2>5. CASE \E n \in Counts : Timer!WriteTCNT(n)
    BY <2>5, WriteCountKeeps
  <2>6. CASE \E f, i \in BOOLEAN, p \in Periods : Timer!WriteTCR(f, i, p)
    BY <2>6, WriteControlKeepsTimer
  <2>7. CASE \/ \E d \in 1 .. MaxBlock : Timer!Advance(d)
             \/ \E t \in 1 .. SliceLength : Timer!SleepJump(t)
             \/ Timer!Sleep
             \/ \E n \in Constants : Timer!WriteTCOR(n)
    BY <2>7, PassingKeeps
  <2>8. CASE Timer!EndSlice \/ Timer!EndStandbySlice \/ Timer!Halt
    BY <2>8, EndSliceKeepsTimer
  <2> QED BY <2>1, <2>2, <2>3, <2>4, <2>5, <2>6, <2>7, <2>8 DEF Timer!Next
<1> QED BY <1>1, <1>2, PTL DEF Timer!Spec

LEMMA TimerKeeps == Timer!Spec => []Timer!TimerTrue
<1>1. TimerInv => Timer!TimerTrue
  BY DEF TimerInv, EventInSlice, Timer!TimerTrue, Timer!EventAtUnderflow
<1> QED BY <1>1, TimerInvariance, PTL

-----------------------------------------------------------------------------
(* The serial port.                                                        *)
SerialInv ==
  /\ sendq \in Nat /\ orer \in BOOLEAN
  /\ Serial!FlagsTrue

LEMMA LineElement ==
  ASSUME NEW line, NEW enabled \in BOOLEAN, NEW l
  PROVE  l \in Serial!Line(line, enabled) <=> l = line /\ enabled
BY DEF Serial!Line

LEMMA TickKeeps ==
  ASSUME Serial!QueueAssumption, SerialInv, Serial!Tick
  PROVE  SerialInv'
<1> DEFINE sends == "TE" \in scr /\ sendq > 0
           receives == Serial!ReceiveEnabled /\ (IF loop THEN sends ELSE host > 0)
           sent == IF sends THEN Serial!Sent(sendq - 1) ELSE {}
           rdf == receives /\ Serial!QueueAtTrigger
           dr == Serial!DataReady(receives)
           eri == receives /\ Serial!QueueFull /\ Serial!ErrorIrqEnabled
<1>1. /\ sendq' = IF sends THEN sendq - 1 ELSE sendq
      /\ orer' = (orer \/ (receives /\ Serial!QueueFull))
      /\ fsr' = fsr \cup sent \cup Serial!Line("RDF", rdf) \cup Serial!Line("DR", dr)
      /\ lines' = lines \cup Serial!Line("TXI", "TDFE" \in sent /\ "TIE" \in scr)
                        \cup Serial!Line("ERI", eri)
                        \cup Serial!Line("RXI", (rdf \/ dr) /\ "RIE" \in scr)
      /\ scr' = scr
  BY DEF Serial!Tick
<1>2. sendq \in Nat /\ SendTrigger \in Nat
  BY DEF SerialInv, Serial!QueueAssumption
<1>3. /\ sends \in BOOLEAN /\ receives \in BOOLEAN
      /\ rdf \in BOOLEAN /\ dr \in BOOLEAN /\ eri \in BOOLEAN
  BY DEF Serial!DataReady, Serial!ReceiveEnabled
<1>4. sends /\ sendq - 1 <= SendTrigger => "TDFE" \in sent
  BY DEF Serial!Sent
<1>5. sent \subseteq {"TDFE", "TEND"}
  BY DEF Serial!Sent
<1> HIDE DEF sent, receives, rdf, dr, eri
<1>6. /\ fsr \subseteq fsr' /\ ("TDFE" \in sent => "TDFE" \in fsr')
      /\ (rdf => "RDF" \in fsr') /\ (dr => "DR" \in fsr')
  BY <1>1, <1>3, LineElement
<1>7. \A l : l \in lines' <=> \/ l \in lines
                              \/ l = "TXI" /\ "TDFE" \in sent /\ "TIE" \in scr
                              \/ l = "ERI" /\ eri
                              \/ l = "RXI" /\ (rdf \/ dr) /\ "RIE" \in scr
  BY <1>1, <1>3, LineElement
<1>8. Serial!RoomIsShown'
  BY <1>1, <1>2, <1>4, <1>6 DEF SerialInv, Serial!FlagsTrue, Serial!RoomIsShown
<1>9. eri => Serial!ErrorIrqEnabled /\ orer'
  BY <1>1 DEF eri
<1>10. Serial!ErrorIrqEnabled' = Serial!ErrorIrqEnabled
  BY <1>1 DEF Serial!ErrorIrqEnabled
<1>11. Serial!InterruptsHaveReasons
  BY DEF SerialInv, Serial!FlagsTrue
<1>12. "TXI" \in lines' => "TIE" \in scr' /\ "TDFE" \in fsr'
  BY <1>1, <1>6, <1>7, <1>11 DEF Serial!InterruptsHaveReasons
<1>13. "RXI" \in lines' => "RIE" \in scr' /\ fsr' \cap {"RDF", "DR"} # {}
  BY <1>1, <1>6, <1>7, <1>11 DEF Serial!InterruptsHaveReasons
<1>14. "BRI" \in lines' => Serial!ErrorIrqEnabled' /\ "BRK" \in fsr'
  BY <1>6, <1>7, <1>10, <1>11 DEF Serial!InterruptsHaveReasons
<1>15. "ERI" \in lines' => Serial!ErrorIrqEnabled' /\ ("ER" \in fsr' \/ orer')
  <2>1. CASE eri
    BY <2>1, <1>9, <1>10
  <2>2. CASE ~eri
    <3>1. "ERI" \in lines' => "ERI" \in lines
      BY <2>2, <1>7
    <3>2. /\ "ER" \in fsr => "ER" \in fsr'
          /\ orer => orer'
      BY <1>1, <1>6
    <3> QED BY <3>1, <3>2, <1>10, <1>11 DEF Serial!InterruptsHaveReasons
  <2> QED BY <2>1, <2>2
<1>16. Serial!InterruptsHaveReasons'
  BY <1>12, <1>13, <1>14, <1>15 DEF Serial!InterruptsHaveReasons
<1>17. sendq' \in Nat /\ orer' \in BOOLEAN
  BY <1>1, <1>2, <1>3 DEF SerialInv
<1> QED BY <1>8, <1>16, <1>17 DEF SerialInv, Serial!FlagsTrue

LEMMA WriteStatusKeeps ==
  ASSUME SerialInv, NEW mask \in SUBSET Serial!Flags, Serial!WriteStatus(mask)
  PROVE  SerialInv'
<1>1. /\ fsr' = Serial!Rechecked(mask)
      /\ UNCHANGED <<sendq, scr, orer>>
      /\ lines' \subseteq lines
  BY DEF Serial!WriteStatus
<1>2. sendq <= SendTrigger => "TDFE" \in fsr'
  BY <1>1 DEF Serial!Rechecked, Serial!Line
<1>3. Serial!ErrorIrqEnabled' = Serial!ErrorIrqEnabled
  BY <1>1 DEF Serial!ErrorIrqEnabled
<1>4. /\ "TXI" \in lines' => "TXI" \in lines /\ ~("TDFE" \notin fsr' /\ "TIE" \in scr)
      /\ "RXI" \in lines' =>
           "RXI" \in lines /\ ~(fsr' \cap {"DR", "RDF"} = {} /\ "RIE" \in scr)
      /\ "BRI" \in lines' =>
           "BRI" \in lines /\ ~(Serial!ErrorIrqEnabled /\ "BRK" \notin fsr')
      /\ "ERI" \in lines' =>
           "ERI" \in lines /\ ~(Serial!ErrorIrqEnabled /\ "ER" \notin fsr' /\ ~orer)
  BY DEF Serial!WriteStatus, Serial!Line
<1>5. Serial!InterruptsHaveReasons'
  BY <1>1, <1>3, <1>4 DEF SerialInv, Serial!FlagsTrue, Serial!InterruptsHaveReasons
<1> QED BY <1>1, <1>2, <1>5 DEF SerialInv, Serial!FlagsTrue, Serial!RoomIsShown

LEMMA WriteFifoControlKeeps ==
  ASSUME Serial!QueueAssumption, SerialInv, NEW l \in BOOLEAN, NEW s \in BOOLEAN,
         NEW r \in BOOLEAN, Serial!WriteFifoControl(l, s, r)
  PROVE  SerialInv'
<1>1. /\ sendq' = IF s THEN 0 ELSE sendq
      /\ scr' = scr /\ orer' = orer
      /\ fsr' = LET f == fsr \cup (IF s THEN {"TEND", "TDFE"} ELSE {})
                IN  IF r THEN f \ {"DR", "RDF"} ELSE f
      /\ lines' = LET x == lines \cup Serial!Line("TXI", s /\ "TIE" \in scr)
                  IN  IF r THEN x \ Serial!Line("RXI", "RIE" \in scr) ELSE x
  BY DEF Serial!WriteFifoControl
<1>2. Serial!ErrorIrqEnabled' = Serial!ErrorIrqEnabled
  BY <1>1 DEF Serial!ErrorIrqEnabled
<1>3. Serial!RoomIsShown'
  BY <1>1 DEF SerialInv, Serial!FlagsTrue, Serial!RoomIsShown
<1>4. \A x : x \in lines' <=> /\ (x \in lines \/ (x = "TXI" /\ s /\ "TIE" \in scr))
                             /\ ~(r /\ x = "RXI" /\ "RIE" \in scr)
  <2> DEFINE added == Serial!Line("TXI", s /\ "TIE" \in scr)
             gone == Serial!Line("RXI", "RIE" \in scr)
  <2>1. lines' = IF r THEN (lines \cup added) \ gone ELSE lines \cup added
    BY <1>1
  <2>2. /\ \A x : x \in added <=> x = "TXI" /\ s /\ "TIE" \in scr
        /\ \A x : x \in gone <=> x = "RXI" /\ "RIE" \in scr
    BY DEF Serial!Line
  <2> HIDE DEF added, gone
  <2> QED BY <2>1, <2>2
<1>5. Serial!InterruptsHaveReasons
  BY DEF SerialInv, Serial!FlagsTrue
<1>6. "TXI" \in lines' => "TIE" \in scr' /\ "TDFE" \in fsr'
  BY <1>1, <1>4, <1>5 DEF Serial!InterruptsHaveReasons
<1>7. "RXI" \in lines' => "RIE" \in scr' /\ fsr' \cap {"RDF", "DR"} # {}
  <2> SUFFICES ASSUME "RXI" \in lines'
               PROVE  "RIE" \in scr' /\ fsr' \cap {"RDF", "DR"} # {}
    OBVIOUS
  <2>1. "RXI" \in lines /\ "RIE" \in scr /\ ~r
    BY <1>4, <1>5 DEF Serial!InterruptsHaveReasons
  <2> QED BY <2>1, <1>1, <1>5 DEF Serial!InterruptsHaveReasons
<1>8. "BRI" \in lines' => Serial!ErrorIrqEnabled' /\ "BRK" \in fsr'
  BY <1>1, <1>2, <1>4, <1>5 DEF Serial!InterruptsHaveReasons
<1>9. "ERI" \in lines' => Serial!ErrorIrqEnabled' /\ ("ER" \in fsr' \/ orer')
  BY <1>1, <1>2, <1>4, <1>5 DEF Serial!InterruptsHaveReasons
<1>10. Serial!InterruptsHaveReasons'
  BY <1>6, <1>7, <1>8, <1>9 DEF Serial!InterruptsHaveReasons
<1> QED BY <1>1, <1>3, <1>10 DEF SerialInv, Serial!FlagsTrue

LEMMA WriteControlKeeps ==
  ASSUME SerialInv, NEW c \in SUBSET Serial!Controls, Serial!WriteControl(c)
  PROVE  SerialInv'
<1>1. /\ scr' = c /\ UNCHANGED <<sendq, fsr, orer>>
      /\ "TXI" \in lines' => "TXI" \in lines /\ "TIE" \in c
      /\ "RXI" \in lines' => "RXI" \in lines /\ "RIE" \in c
      /\ "BRI" \in lines' => "BRI" \in lines /\ c \cap {"RIE", "REIE"} # {}
      /\ "ERI" \in lines' => "ERI" \in lines /\ c \cap {"RIE", "REIE"} # {}
  BY DEF Serial!WriteControl
<1> QED BY <1>1 DEF SerialInv, Serial!FlagsTrue, Serial!RoomIsShown,
                    Serial!InterruptsHaveReasons, Serial!ErrorIrqEnabled

LEMMA SerialKeeps == Serial!Spec => []Serial!FlagsTrue
<1> USE SerialConstants
<1>1. Serial!Init => SerialInv
  <2> SUFFICES ASSUME Serial!Init PROVE SerialInv
    OBVIOUS
  <2>1. Serial!RoomIsShown
    BY DEF Serial!Init, Serial!RoomIsShown
  <2>2. Serial!InterruptsHaveReasons
    BY DEF Serial!Init, Serial!InterruptsHaveReasons
  <2> QED BY <2>1, <2>2 DEF Serial!Init, SerialInv, Serial!FlagsTrue
<1>2. SerialInv /\ [Serial!Next]_(Serial!vars) => SerialInv'
  <2> SUFFICES ASSUME SerialInv, [Serial!Next]_(Serial!vars) PROVE SerialInv'
    OBVIOUS
  <2>1. CASE Serial!Tick
    BY <2>1, TickKeeps
  <2>2. CASE Serial!HostData \/ Serial!WriteData \/ UNCHANGED Serial!vars
    BY <2>2 DEF Serial!HostData, Serial!WriteData, Serial!vars, Serial!QueueAssumption,
         SerialInv, Serial!FlagsTrue, Serial!RoomIsShown, Serial!InterruptsHaveReasons,
         Serial!ErrorIrqEnabled
  <2>3. CASE Serial!HostBreak \/ Serial!ClearOverrun
    BY <2>3 DEF Serial!HostBreak, Serial!ClearOverrun, Serial!Line,
         SerialInv, Serial!FlagsTrue, Serial!RoomIsShown, Serial!InterruptsHaveReasons,
         Serial!ErrorIrqEnabled
  <2>4. ASSUME NEW c \in SUBSET Serial!Controls, Serial!WriteControl(c) PROVE SerialInv'
    BY <2>4, WriteControlKeeps
  <2>5. ASSUME NEW mask \in SUBSET Serial!Flags, Serial!WriteStatus(mask)
        PROVE  SerialInv'
    BY <2>5, WriteStatusKeeps
  <2>6. ASSUME NEW l \in BOOLEAN, NEW s \in BOOLEAN, NEW r \in BOOLEAN,
               Serial!WriteFifoControl(l, s, r)
        PROVE  SerialInv'
    BY <2>6, WriteFifoControlKeeps
  <2> QED BY <2>1, <2>2, <2>3, <2>4, <2>5, <2>6 DEF Serial!Next
<1>3. SerialInv => Serial!FlagsTrue
  BY DEF SerialInv
<1> QED BY <1>1, <1>2, <1>3, PTL DEF Serial!Spec

-----------------------------------------------------------------------------
(* The G2 FIFO.  That bit 5 is up long enough after a write is not         *)
(* inductive: that it is up says nothing of how long it stays.  It is once *)
(* the timer of bit 5 is known to be as far ahead as the time since the    *)
(* last write leaves.                                                      *)

StaysUp == since < G2_BIT5_TICKS =>
             5 \in bits /\ off5 >= fifoSlice + G2_BIT5_TICKS - since

FifoInv == Fifo!TypeOK /\ Fifo!NeverStuck /\ StaysUp

FifoTimers == Nat \cup {Fifo!IDLE}

LEMMA FifoTickFacts ==
  ASSUME Fifo!TickAssumption, NEW b \in Fifo!Pulse
  PROVE  /\ Fifo!OnTicks(b) \in Nat \ {0} /\ Fifo!OffTicks(b) \in Nat
         /\ Fifo!OffTicks(b) > Fifo!OnTicks(b)
BY DEF Fifo!TickAssumption, Fifo!Pulse, Fifo!OnTicks, Fifo!OffTicks

(* A timer after a look at time n, and at the end of a slice of length n.  *)
LEMMA FifoFiredFacts ==
  ASSUME NEW t \in FifoTimers, NEW n \in Nat
  PROVE  /\ Fifo!Due(t, n) <=> t # Fifo!IDLE /\ t <= n
         /\ Fifo!Fired(t, n) = IF Fifo!Due(t, n) THEN Fifo!IDLE ELSE t
         /\ Fifo!Fired(t, n) \in FifoTimers
         /\ Fifo!Rebased(Fifo!Fired(t, n), n) = IF t <= n THEN Fifo!IDLE ELSE t - n
         /\ Fifo!Rebased(Fifo!Fired(t, n), n) \in FifoTimers
BY DEF FifoTimers, Fifo!Due, Fifo!Fired, Fifo!Rebased, Fifo!IDLE

(* What a look at time n leaves of the bits.                               *)
LEMMA FifoStatusFacts ==
  ASSUME Fifo!TypeOK, NEW n \in Nat
  PROVE  /\ Fifo!Status(n) \subseteq {5, 4, 0}
         /\ 5 \in Fifo!Status(n) <=> 5 \in bits /\ ~Fifo!Due(off5, n)
         /\ \A b \in Fifo!Pulse : b \in Fifo!Status(n) <=>
              (b \in bits \/ Fifo!Due(on[b], n)) /\ ~Fifo!Due(off[b], n)
<1>1. bits \subseteq {5, 4, 0} /\ Fifo!Pulse = {4, 0}
  BY DEF Fifo!TypeOK, Fifo!Pulse
<1>2. Fifo!Status(n) = ((bits \ (IF Fifo!Due(off5, n) THEN {5} ELSE {}))
                    \cup {b \in Fifo!Pulse : Fifo!Due(on[b], n)})
                   \ {b \in Fifo!Pulse : Fifo!Due(off[b], n)}
  BY DEF Fifo!Status
<1>3. 5 \notin Fifo!Pulse
  BY <1>1
<1>4. \A x : x \in Fifo!Status(n) <=>
        /\ \/ x \in bits /\ ~(x = 5 /\ Fifo!Due(off5, n))
           \/ x \in Fifo!Pulse /\ Fifo!Due(on[x], n)
        /\ ~(x \in Fifo!Pulse /\ Fifo!Due(off[x], n))
  BY <1>2
<1> QED BY <1>1, <1>3, <1>4

LEMMA FifoTypeNames ==
  Fifo!TypeOK <=>
    /\ fifoSlice \in 0 .. FifoSlice + FifoBlock - 1
    /\ off5 \in FifoTimers
    /\ on \in [Fifo!Pulse -> FifoTimers] /\ off \in [Fifo!Pulse -> FifoTimers]
    /\ bits \subseteq {5, 4, 0}
    /\ since \in 0 .. G2_BIT5_TICKS
BY DEF Fifo!TypeOK, FifoTimers

LEMMA FifoAdvanceKeeps ==
  ASSUME Fifo!TickAssumption, Fifo!SliceAssumption, FifoInv,
         NEW d \in 1 .. FifoBlock, Fifo!Advance(d)
  PROVE  FifoInv'
<1>1. /\ fifoSlice < FifoSlice /\ fifoSlice' = fifoSlice + d
      /\ since' = IF since + d < G2_BIT5_TICKS THEN since + d ELSE G2_BIT5_TICKS
      /\ UNCHANGED <<off5, on, off, bits>>
  BY DEF Fifo!Advance, Fifo!Min2
<1>2. /\ fifoSlice \in 0 .. FifoSlice + FifoBlock - 1 /\ since \in 0 .. G2_BIT5_TICKS
      /\ FifoSlice \in Nat /\ FifoBlock \in 1 .. FifoSlice /\ G2_BIT5_TICKS \in Nat
      /\ off5 \in FifoTimers
  BY FifoTypeNames DEF FifoInv, Fifo!SliceAssumption, Fifo!TickAssumption
<1>3. fifoSlice' \in 0 .. FifoSlice + FifoBlock - 1 /\ since' \in 0 .. G2_BIT5_TICKS
  BY <1>1, <1>2
<1>4. Fifo!TypeOK'
  BY <1>1, <1>3 DEF FifoInv, Fifo!TypeOK
<1>5. Fifo!NeverStuck'
  BY <1>1 DEF FifoInv, Fifo!NeverStuck
<1>6. StaysUp'
  BY <1>1, <1>2 DEF FifoInv, StaysUp, FifoTimers, Fifo!IDLE
<1> QED BY <1>4, <1>5, <1>6 DEF FifoInv

LEMMA FifoWriteKeeps ==
  ASSUME Fifo!TickAssumption, Fifo!SliceAssumption, FifoInv, Fifo!Write
  PROVE  FifoInv'
<1>1. /\ off5' = Fifo!Extended(off5, fifoSlice, G2_BIT5_TICKS)
      /\ on' = [b \in Fifo!Pulse |->
                  IF on[b] < fifoSlice THEN fifoSlice + Fifo!OnTicks(b) ELSE on[b]]
      /\ off' = [b \in Fifo!Pulse |-> Fifo!Extended(off[b], on'[b], Fifo!OffTicks(b))]
      /\ bits' = bits \cup {5} /\ since' = 0 /\ fifoSlice' = fifoSlice
  BY DEF Fifo!Write
<1>2. /\ fifoSlice \in Nat /\ G2_BIT5_TICKS \in Nat \ {0} /\ off5 \in FifoTimers
      /\ on \in [Fifo!Pulse -> FifoTimers] /\ off \in [Fifo!Pulse -> FifoTimers]
  BY FifoTypeNames DEF FifoInv, Fifo!SliceAssumption, Fifo!TickAssumption
<1>3. off5' \in Nat /\ off5' >= fifoSlice + G2_BIT5_TICKS
  BY <1>1, <1>2 DEF Fifo!Extended, FifoTimers, Fifo!IDLE
<1>4. ASSUME NEW b \in Fifo!Pulse
      PROVE  /\ on'[b] \in Nat /\ off'[b] \in Nat /\ off'[b] > on'[b]
  <2>1. /\ Fifo!OnTicks(b) \in Nat \ {0} /\ Fifo!OffTicks(b) \in Nat
        /\ Fifo!OffTicks(b) > Fifo!OnTicks(b)
        /\ on[b] \in FifoTimers /\ off[b] \in FifoTimers
    BY <1>2, FifoTickFacts
  <2>2. /\ on'[b] = IF on[b] < fifoSlice THEN fifoSlice + Fifo!OnTicks(b) ELSE on[b]
        /\ off'[b] = IF off[b] < fifoSlice THEN on'[b] + Fifo!OffTicks(b)
                     ELSE off[b] + Fifo!OffTicks(b)
    BY <1>1 DEF Fifo!Extended
  <2>3. on[b] # Fifo!IDLE => off[b] > on[b]
    BY DEF FifoInv, Fifo!NeverStuck
  <2> QED BY <1>2, <2>1, <2>2, <2>3 DEF FifoTimers, Fifo!IDLE
<1>5. on' \in [Fifo!Pulse -> FifoTimers] /\ off' \in [Fifo!Pulse -> FifoTimers]
  <2>1. on' = [b \in Fifo!Pulse |-> on'[b]] /\ off' = [b \in Fifo!Pulse |-> off'[b]]
    BY <1>1
  <2> QED BY <1>4, <2>1 DEF FifoTimers
<1>6. Fifo!TypeOK'
  BY <1>1, <1>2, <1>3, <1>5, FifoTypeNames DEF FifoInv, Fifo!TypeOK, FifoTimers
<1>7. Fifo!NeverStuck'
  BY <1>3, <1>4 DEF Fifo!NeverStuck, Fifo!IDLE
<1>8. StaysUp'
  BY <1>1, <1>2, <1>3 DEF StaysUp
<1> QED BY <1>6, <1>7, <1>8 DEF FifoInv

LEMMA FifoReadKeeps ==
  ASSUME Fifo!TickAssumption, Fifo!SliceAssumption, FifoInv, Fifo!ReadStatus
  PROVE  FifoInv'
<1>1. /\ bits' = Fifo!Status(fifoSlice) /\ off5' = Fifo!Fired(off5, fifoSlice)
      /\ on' = [b \in Fifo!Pulse |-> Fifo!Fired(on[b], fifoSlice)]
      /\ off' = [b \in Fifo!Pulse |-> Fifo!Fired(off[b], fifoSlice)]
      /\ fifoSlice' = fifoSlice /\ since' = since
  BY DEF Fifo!ReadStatus
<1>2. /\ Fifo!TypeOK /\ fifoSlice \in Nat /\ off5 \in FifoTimers /\ since \in Nat
      /\ on \in [Fifo!Pulse -> FifoTimers] /\ off \in [Fifo!Pulse -> FifoTimers]
      /\ G2_BIT5_TICKS \in Nat
  BY FifoTypeNames DEF FifoInv, Fifo!SliceAssumption, Fifo!TickAssumption
<1>3. Fifo!TypeOK'
  BY <1>1, <1>2, FifoFiredFacts, FifoStatusFacts DEF Fifo!TypeOK, FifoTimers
<1>4. Fifo!NeverStuck'
  <2>1. 5 \in bits' => off5' # Fifo!IDLE
    BY <1>1, <1>2, FifoFiredFacts, FifoStatusFacts DEF FifoInv, Fifo!NeverStuck
  <2>2. ASSUME NEW b \in Fifo!Pulse
        PROVE  /\ b \in bits' => off'[b] # Fifo!IDLE
               /\ on'[b] # Fifo!IDLE => off'[b] > on'[b]
    <3>1. on[b] \in FifoTimers /\ off[b] \in FifoTimers
      BY <1>2
    <3>2. /\ on'[b] = Fifo!Fired(on[b], fifoSlice)
          /\ off'[b] = Fifo!Fired(off[b], fifoSlice)
          /\ b \in bits' <=>
               (b \in bits \/ Fifo!Due(on[b], fifoSlice)) /\ ~Fifo!Due(off[b], fifoSlice)
      BY <1>1, <1>2, FifoStatusFacts
    <3>3. /\ b \in bits => off[b] # Fifo!IDLE
          /\ on[b] # Fifo!IDLE => off[b] > on[b]
      BY DEF FifoInv, Fifo!NeverStuck
    <3> QED BY <1>2, <3>1, <3>2, <3>3, FifoFiredFacts DEF FifoTimers, Fifo!IDLE
  <2> QED BY <2>1, <2>2 DEF Fifo!NeverStuck
<1>5. StaysUp'
  <2>1. /\ off5' = IF off5 # Fifo!IDLE /\ off5 <= fifoSlice THEN Fifo!IDLE ELSE off5
        /\ 5 \in bits' <=> 5 \in bits /\ ~(off5 # Fifo!IDLE /\ off5 <= fifoSlice)
    BY <1>1, <1>2, FifoFiredFacts, FifoStatusFacts
  <2> QED BY <1>1, <1>2, <2>1 DEF FifoInv, StaysUp, FifoTimers, Fifo!IDLE
<1> QED BY <1>3, <1>4, <1>5 DEF FifoInv

LEMMA FifoEndSliceKeeps ==
  ASSUME Fifo!TickAssumption, Fifo!SliceAssumption, FifoInv,
         NEW n \in 0 .. FifoSlice, Fifo!EndSlice(n)
  PROVE  FifoInv'
<1>1. /\ n = FifoSlice \/ n = fifoSlice
      /\ bits' = Fifo!Status(n) /\ off5' = Fifo!Rebased(Fifo!Fired(off5, n), n)
      /\ on' = [b \in Fifo!Pulse |-> Fifo!Rebased(Fifo!Fired(on[b], n), n)]
      /\ off' = [b \in Fifo!Pulse |-> Fifo!Rebased(Fifo!Fired(off[b], n), n)]
      /\ fifoSlice' = 0
      /\ since' = IF n > fifoSlice
                  THEN IF since + n - fifoSlice < G2_BIT5_TICKS
                       THEN since + n - fifoSlice ELSE G2_BIT5_TICKS
                  ELSE since
  BY DEF Fifo!EndSlice, Fifo!Min2
<1>2. /\ Fifo!TypeOK /\ fifoSlice \in Nat
      /\ off5 \in FifoTimers /\ since \in 0 .. G2_BIT5_TICKS
      /\ on \in [Fifo!Pulse -> FifoTimers] /\ off \in [Fifo!Pulse -> FifoTimers]
      /\ G2_BIT5_TICKS \in Nat /\ n \in Nat
      /\ FifoSlice \in Nat \ {0} /\ FifoBlock \in 1 .. FifoSlice
  BY FifoTypeNames DEF FifoInv, Fifo!SliceAssumption, Fifo!TickAssumption
<1>3. since' \in 0 .. G2_BIT5_TICKS /\ fifoSlice' \in 0 .. FifoSlice + FifoBlock - 1
  BY <1>1, <1>2
<1>4. Fifo!TypeOK'
  BY <1>1, <1>2, <1>3, FifoFiredFacts, FifoStatusFacts DEF Fifo!TypeOK, FifoTimers
<1>5. Fifo!NeverStuck'
  <2>1. 5 \in bits' => off5' # Fifo!IDLE
    <3>1. /\ off5' = IF off5 <= n THEN Fifo!IDLE ELSE off5 - n
          /\ 5 \in bits' <=> 5 \in bits /\ ~(off5 # Fifo!IDLE /\ off5 <= n)
      BY <1>1, <1>2, FifoFiredFacts, FifoStatusFacts
    <3> QED BY <1>2, <3>1 DEF FifoInv, Fifo!NeverStuck, FifoTimers, Fifo!IDLE
  <2>2. ASSUME NEW b \in Fifo!Pulse
        PROVE  /\ b \in bits' => off'[b] # Fifo!IDLE
               /\ on'[b] # Fifo!IDLE => off'[b] > on'[b]
    <3>1. on[b] \in FifoTimers /\ off[b] \in FifoTimers
      BY <1>2
    <3>2. /\ on'[b] = IF on[b] <= n THEN Fifo!IDLE ELSE on[b] - n
          /\ off'[b] = IF off[b] <= n THEN Fifo!IDLE ELSE off[b] - n
          /\ b \in bits' <=> (b \in bits \/ Fifo!Due(on[b], n)) /\ ~Fifo!Due(off[b], n)
      BY <1>1, <1>2, <3>1, FifoFiredFacts, FifoStatusFacts
    <3>3. /\ b \in bits => off[b] # Fifo!IDLE
          /\ on[b] # Fifo!IDLE => off[b] > on[b]
      BY DEF FifoInv, Fifo!NeverStuck
    <3> QED BY <1>2, <3>1, <3>2, <3>3, FifoFiredFacts DEF FifoTimers, Fifo!IDLE
  <2> QED BY <2>1, <2>2 DEF Fifo!NeverStuck
<1>6. StaysUp'
  <2>1. /\ off5' = IF off5 <= n THEN Fifo!IDLE ELSE off5 - n
        /\ 5 \in bits' <=> 5 \in bits /\ ~(off5 # Fifo!IDLE /\ off5 <= n)
    BY <1>1, <1>2, FifoFiredFacts, FifoStatusFacts
  <2> QED BY <1>1, <1>2, <2>1 DEF FifoInv, StaysUp, FifoTimers, Fifo!IDLE
<1> QED BY <1>4, <1>5, <1>6 DEF FifoInv

LEMMA FifoKeeps == Fifo!Spec => []Fifo!FifoTrue
<1> USE FifoConstants
<1>1. Fifo!Init => FifoInv
  BY DEF Fifo!Init, FifoInv, Fifo!TypeOK, Fifo!NeverStuck, StaysUp, Fifo!IDLE,
         Fifo!Pulse, Fifo!TickAssumption, Fifo!SliceAssumption
<1>2. FifoInv /\ [Fifo!Next]_(Fifo!vars) => FifoInv'
  <2> SUFFICES ASSUME FifoInv, [Fifo!Next]_(Fifo!vars) PROVE FifoInv'
    OBVIOUS
  <2>1. CASE UNCHANGED Fifo!vars
    BY <2>1 DEF Fifo!vars, FifoInv, Fifo!TypeOK, Fifo!NeverStuck, StaysUp
  <2> QED
    BY <2>1, FifoAdvanceKeeps, FifoWriteKeeps, FifoReadKeeps, FifoEndSliceKeeps
    DEF Fifo!Next
<1>3. FifoInv => Fifo!FifoTrue
  BY FifoTypeNames DEF FifoInv, Fifo!FifoTrue, StaysUp, Fifo!WriteSeen, Fifo!TickAssumption
<1> QED BY <1>1, <1>2, <1>3, PTL DEF Fifo!Spec

-----------------------------------------------------------------------------
(* The ring of sound buffers: the indices stay within the ring, and what   *)
(* the mixer is about to take has been given back.                         *)
RingInv ==
  /\ DOMAIN status = Ring!Buffer
  /\ write \in Ring!Buffer /\ read \in Ring!Buffer
  /\ Ring!QueuedIsKept

LEMMA RingNext ==
  ASSUME Ring!RingAssumption, NEW b \in Ring!Buffer
  PROVE  Ring!After(b) \in Ring!Buffer
BY DEF Ring!RingAssumption, Ring!After, Ring!Buffer

LEMMA RingKeeps == Ring!Spec => []Ring!QueuedIsKept
<1> USE RingConstants
<1>1. Ring!Init => RingInv
  BY DEF Ring!Init, RingInv, Ring!QueuedIsKept, Ring!RingAssumption, Ring!Buffer
<1>2. RingInv /\ [Ring!Next]_(Ring!vars) => RingInv'
  <2> SUFFICES ASSUME RingInv, [Ring!Next]_(Ring!vars) PROVE RingInv'
    OBVIOUS
  <2>1. CASE Ring!Mix \/ Ring!Mark \/ Ring!Offer
    BY <2>1 DEF RingInv, Ring!QueuedIsKept, Ring!Mix, Ring!Mark, Ring!Offer
  <2>2. CASE Ring!NextBuffer \/ Ring!Take
    BY <2>2, RingNext DEF RingInv, Ring!QueuedIsKept, Ring!NextBuffer, Ring!Take
  <2>3. CASE Ring!StartPlaying \/ Ring!Played \/ Ring!Advance \/ Ring!Peek \/ Ring!Store
    BY <2>3, RingNext
       DEF RingInv, Ring!QueuedIsKept, Ring!StartPlaying, Ring!Played, Ring!Advance,
           Ring!Peek, Ring!Store
  <2>4. CASE Ring!Release
    BY <2>4, RingNext DEF RingInv, Ring!QueuedIsKept, Ring!Release
  <2>5. CASE UNCHANGED Ring!vars
    BY <2>5 DEF RingInv, Ring!QueuedIsKept, Ring!vars
  <2> QED BY <2>1, <2>2, <2>3, <2>4, <2>5 DEF Ring!Next
<1>3. RingInv => Ring!QueuedIsKept
  BY DEF RingInv
<1> QED BY <1>1, <1>2, <1>3, PTL DEF Ring!Spec

-----------------------------------------------------------------------------
(* Each of the four only moves as its own specification says, whichever    *)
(* part it is that moves.                                                  *)
LEMMA PartsMove ==
  /\ BenchSpec => Timer!Spec
  /\ BenchSpec => Serial!Spec
  /\ BenchSpec => Fifo!Spec
  /\ BenchSpec => Ring!Spec
<1>1. BenchInit => Timer!Init /\ Serial!Init /\ Fifo!Init /\ Ring!Init
  BY DEF BenchInit
<1>2. [BenchNext]_<<part, vars, Timer!vars, Serial!vars, Fifo!vars, Ring!vars>> =>
        /\ [Timer!Next]_(Timer!vars) /\ [Serial!Next]_(Serial!vars)
        /\ [Fifo!Next]_(Fifo!vars) /\ [Ring!Next]_(Ring!vars)
  BY DEF BenchNext, TimerStays, SerialStays, FifoStays, RingStays,
         Timer!vars, Serial!vars, Fifo!vars, Ring!vars
<1> QED
  BY <1>1, <1>2, PTL DEF BenchSpec, Timer!Spec, Serial!Spec, Fifo!Spec, Ring!Spec

(* The event of a running timer is where its counter underflows, and its   *)
(* line is up exactly while flag and enable are, for all clocks, counts    *)
(* and slices that 32 bits can sum.  (TMU_count, TMU_schedule_timer,       *)
(* TMU_set_timer_control, TMU_run_slice)                                   *)
THEOREM TimerIsTrue == BenchSpec => []TimerTrue
<1>1. Timer!TimerTrue => TimerTrue
  BY DEF TimerTrue
<1> QED BY <1>1, PartsMove, TimerKeeps, PTL

(* Room in the send queue is shown, and an interrupt that is pending is    *)
(* enabled and has a reason, for all lengths of the queues and all trigger *)
(* levels in them.  (SCIF_clock_tick, SCIF_update_status, the write of     *)
(* SCSCR2)                                                                 *)
THEOREM FlagsAreTrue == BenchSpec => []FlagsTrue
<1>1. Serial!FlagsTrue => FlagsTrue
  BY DEF FlagsTrue
<1> QED BY <1>1, PartsMove, SerialKeeps, PTL

(* The status bits come down, and not too early, for every length of the   *)
(* pulses and of the slices.  (asic_g2_write_word, g2_update_fifo_status,  *)
(* asic_run_slice)                                                         *)
THEOREM FifoIsTrue == BenchSpec => []FifoTrue
<1>1. Fifo!FifoTrue => FifoTrue
  BY DEF FifoTrue
<1> QED BY <1>1, PartsMove, FifoKeeps, PTL

(* The mixer only goes on to a buffer that has been given back, for any    *)
(* number of buffers: of the two threads only its own fills them, so what  *)
(* it saw stays so.  (audio_next_write_buffer, audio_next_read_buffer)     *)
THEOREM QueueIsKept == BenchSpec => []QueuedIsKept
<1>1. Ring!QueuedIsKept => QueuedIsKept
  BY DEF QueuedIsKept
<1> QED BY <1>1, PartsMove, RingKeeps, PTL
=============================================================================
