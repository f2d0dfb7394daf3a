--------------------------- MODULE MCMedia_proofs ---------------------------
(***************************************************************************)
(* What TLAPS proves of picture and sound, for all values of the           *)
(* parameters that MCMedia leaves open.  A part moves alone, so what its   *)
(* own specification promises is a property of the bench (the theorems at  *)
(* the end).                                                               *)
(***************************************************************************)
EXTENDS MCMedia, SequenceLemmas, FiniteSetTheorems, TLAPS

-----------------------------------------------------------------------------
(* The raster.  Where the event is due, counted in lines from the top of   *)
(* the field, does not change as the raster is brought up to date: what it *)
(* gains in lines and remainder it has run.  For that a look must not be   *)
(* taken back in time, nor a whole field late.                             *)
BeamTypes ==
  /\ slice \in 0 .. SliceLength + MaxBlock - 1
  /\ run \in 0 .. SliceLength + MaxBlock - 1
  /\ line \in Nat /\ rem \in 0 .. LineTime - 1
  /\ odd \in BOOLEAN /\ interlaced \in BOOLEAN /\ wild \in BOOLEAN
  /\ total \in Totals /\ vpos \in Nat
  /\ due \in Int /\ frames \in Nat

BeamInv == BeamTypes /\ Beam!EventOnLine /\ Beam!OneFramePerField

LEMMA BeamFacts ==
  /\ LineTime \in Nat \ {0} /\ RetraceEnd \in Nat \ {0}
  /\ SliceLength \in Nat \ {0} /\ MaxBlock \in Nat \ {0} /\ WrapTime \in Nat \ {0}
  /\ Totals \subseteq Nat \ {0} /\ Positions \subseteq Nat
  /\ LineTime + SliceLength + MaxBlock <= WrapTime
BY BeamAssumption DEF Beam!RasterAssumption

LEMMA FieldLasts ==
  ASSUME NEW t \in Totals
  PROVE  LineTime + SliceLength + MaxBlock <= t * LineTime
BY BeamAssumption DEF Beam!RasterAssumption

LEMMA Divided ==
  ASSUME NEW a \in Int, NEW p \in Nat \ {0}
  PROVE  /\ a % p \in 0 .. p - 1
         /\ a \div p \in Int
         /\ a = p * (a \div p) + (a % p)
         /\ a >= 0 => a \div p >= 0
         /\ a \in 0 .. p - 1 => a % p = a
OBVIOUS

LEMMA DividedUnique ==
  ASSUME NEW p \in Nat \ {0}, NEW q \in Int, NEW rest \in 0 .. p - 1
  PROVE  (p * q + rest) % p = rest /\ (p * q + rest) \div p = q
OBVIOUS

(* A number of whole lines has the remainder it has by fields.             *)
LEMMA SameByFields ==
  ASSUME NEW a \in Int, NEW p \in Nat \ {0}
  PROVE  (a + p) % p = a % p /\ (a - p) % p = a % p
<1>1. PICK rest \in 0 .. p - 1, q \in Int : rest = a % p /\ a = p * q + rest
  <2>1. a % p \in 0 .. p - 1 /\ a \div p \in Int /\ a = p * (a \div p) + (a % p)
    BY Divided
  <2> QED BY <2>1
<1>2. ASSUME NEW j \in Int PROVE (p * j + rest) % p = rest
  BY DividedUnique
<1>3. PICK up \in Int, dn \in Int : up = q + 1 /\ dn = q - 1
  OBVIOUS
<1>4. a + p = p * up + rest /\ a - p = p * dn + rest
  BY <1>1, <1>3
<1>5. (p * up + rest) % p = rest /\ (p * dn + rest) % p = rest
  BY <1>2
<1> QED BY <1>1, <1>4, <1>5

(* The place of the event that the property looks at, of a raster at line  *)
(* l with remainder rest, run up to now; it is on a line of register v.    *)
OnLine(l, rest, now, d, v, tot) ==
  \E k \in Int : /\ l * LineTime + rest + d - now = k * LineTime
                 /\ k % tot \in {2 * v, 2 * v + 1}

LEMMA OnLineMeans ==
  ASSUME NEW l \in Int, NEW rest \in Int, NEW now \in Int, NEW d \in Int, NEW v \in Int,
         NEW tot \in Nat \ {0}
  PROVE  OnLine(l, rest, now, d, v, tot) <=>
           LET t == l * LineTime + rest + d - now
           IN  t % LineTime = 0 /\ (t \div LineTime) % tot \in {2 * v, 2 * v + 1}
<1>1. LineTime \in Nat \ {0}
  BY BeamFacts
<1>2. PICK t \in Int : t = l * LineTime + rest + d - now
  BY <1>1
<1>3. ASSUME NEW k \in Int, t = k * LineTime
      PROVE  t % LineTime = 0 /\ t \div LineTime = k
  <2>1. t = LineTime * k + 0 /\ 0 \in 0 .. LineTime - 1
    BY <1>1, <1>3
  <2> QED BY <1>1, <2>1, DividedUnique
<1>4. ASSUME t % LineTime = 0
      PROVE  t \div LineTime \in Int /\ t = (t \div LineTime) * LineTime
  BY <1>1, <1>4, Divided
<1> QED BY <1>2, <1>3, <1>4 DEF OnLine

LEMMA EventMeans ==
  ASSUME BeamTypes
  PROVE  Beam!EventOnLine <=> (due >= 0 /\ ~wild => OnLine(line, rem, run, due, vpos, total))
BY OnLineMeans, BeamFacts, SMTT(30) DEF BeamTypes, Beam!EventOnLine

LEMMA EventMeansNext ==
  ASSUME BeamTypes'
  PROVE  Beam!EventOnLine' <=>
           (due' >= 0 /\ ~wild' => OnLine(line', rem', run', due', vpos', total'))
<1>1. PICK l \in Int, rest \in Int, now \in Int, d \in Int, v \in Int, tot \in Nat \ {0} :
        l = line' /\ rest = rem' /\ now = run' /\ d = due' /\ v = vpos' /\ tot = total'
  BY BeamFacts DEF BeamTypes
<1>2. OnLine(l, rest, now, d, v, tot) <=>
           LET t == l * LineTime + rest + d - now
           IN  t % LineTime = 0 /\ (t \div LineTime) % tot \in {2 * v, 2 * v + 1}
  BY OnLineMeans
<1> QED BY <1>1, <1>2 DEF Beam!EventOnLine

(* What bringing the raster up to date leaves, if it does not go back.     *)
Forward(now, l, rest, f) ==
  /\ l \in Nat /\ rest \in 0 .. LineTime - 1 /\ f \in Nat
  /\ f = IF l >= RetraceEnd THEN 1 ELSE 0
  /\ \E k \in {0, total} : (l + k) * LineTime + rest - now = line * LineTime + rem - run

LEMMA Updated ==
  ASSUME BeamTypes, ~wild, Beam!OneFramePerField,
         NEW now \in 0 .. SliceLength + MaxBlock - 1, rem + now - run >= 0
  PROVE  Forward(now, Beam!LineAt(now), Beam!Elapsed(now) % LineTime,
                 (IF Beam!Wraps(now) THEN 0 ELSE frames) + (IF Beam!Shows(now) THEN 1 ELSE 0))
<1>1. PICK e \in Nat : e = rem + now - run
  BY BeamFacts DEF BeamTypes
<1>2. Beam!Elapsed(now) = e
  <2>1. e \in 0 .. WrapTime - 1
    BY <1>1, BeamFacts DEF BeamTypes
  <2>2. e % WrapTime = e
    <3>1. PICK p \in Nat \ {0} : p = WrapTime
      BY BeamFacts
    <3>2. e \in 0 .. p - 1
      BY <1>1, <2>1, <3>1
    <3> QED BY <3>1, <3>2, Divided
  <2> QED BY <1>1, <2>2 DEF Beam!Elapsed
<1>3. PICK q \in Nat : q = e \div LineTime
  BY <1>1, Divided, BeamFacts
<1>4. PICK rest \in 0 .. LineTime - 1 : rest = e % LineTime
  BY <1>1, Divided, BeamFacts
<1>5. e = LineTime * q + rest
  BY <1>3, <1>4, Divided, BeamFacts
<1>6. q < total
  <2>1. e < total * LineTime
    <3>1. LineTime + SliceLength + MaxBlock <= total * LineTime
      BY FieldLasts DEF BeamTypes
    <3>2. e < LineTime + SliceLength + MaxBlock /\ total * LineTime \in Int
      BY <1>1, BeamFacts DEF BeamTypes
    <3> QED BY <3>1, <3>2, BeamFacts
  <2>2. total \in Nat \ {0} /\ LineTime \in Nat \ {0}
    BY BeamFacts DEF BeamTypes
  <2>3. ASSUME q >= total PROVE FALSE
    <3>1. q * LineTime >= total * LineTime
      BY <2>2, <2>3
    <3>2. LineTime * q + rest >= q * LineTime
      BY <2>2
    <3> QED BY <1>5, <2>1, <2>2, <3>1, <3>2
  <2> QED BY <2>2, <2>3
<1>7. Beam!Lines(now) = line + q
  BY <1>2, <1>3 DEF Beam!Lines
<1>8. PICK n \in Nat, tot \in Nat : n = line + q /\ tot = total /\ n = Beam!Lines(now)
  BY <1>7, BeamFacts DEF BeamTypes
<1>9. PICK l \in Nat : /\ l = IF n >= tot THEN n - tot ELSE n
                       /\ l = Beam!LineAt(now)
  BY <1>8 DEF Beam!LineAt, Beam!Wraps
<1>10. PICK f \in Nat : f = (IF Beam!Wraps(now) THEN 0 ELSE frames)
                              + (IF Beam!Shows(now) THEN 1 ELSE 0)
  BY DEF BeamTypes
<1>11. f = IF l >= RetraceEnd THEN 1 ELSE 0
  <2>1. frames = IF line >= RetraceEnd THEN 1 ELSE 0
    BY DEF Beam!OneFramePerField
  <2>2. Beam!Shows(now) <=> l >= RetraceEnd /\ (line < RetraceEnd \/ line > l)
    BY <1>9 DEF Beam!Shows
  <2>3. Beam!Wraps(now) <=> n >= tot
    BY <1>8 DEF Beam!Wraps
  <2> QED BY <1>6, <1>8, <1>9, <1>10, <2>1, <2>2, <2>3, BeamFacts DEF BeamTypes
<1>12. \E k \in {0, total} : (l + k) * LineTime + rest - now = line * LineTime + rem - run
  <2>1. PICK k \in {0, total} : l + k = line + q
    BY <1>8, <1>9, BeamFacts DEF BeamTypes
  <2>2. (line + q) * LineTime + rest = line * LineTime + e
    <3>1. (line + q) * LineTime = line * LineTime + LineTime * q
      BY BeamFacts DEF BeamTypes
    <3>2. line * LineTime \in Int /\ LineTime * q \in Int
      BY BeamFacts DEF BeamTypes
    <3> QED BY <1>5, <3>1, <3>2
  <2>3. line * LineTime \in Int
    BY BeamFacts DEF BeamTypes
  <2>4. (l + k) * LineTime + rest - now = line * LineTime + rem - run
    BY <1>1, <2>1, <2>2, <2>3, BeamFacts DEF BeamTypes
  <2> QED BY <2>4
<1> QED BY <1>2, <1>4, <1>9, <1>10, <1>11, <1>12 DEF Forward

(* So an event that is kept stays on its line.                             *)
LEMMA EventKept ==
  ASSUME BeamTypes, NEW now \in Int, NEW l \in Int, NEW rest \in Int, NEW f, Forward(now, l, rest, f),
         NEW run2 \in Int, NEW d \in Int, d - run2 = due - now,
         OnLine(line, rem, run, due, vpos, total)
  PROVE  OnLine(l, rest, run2, d, vpos, total)
<1>1. PICK k \in Int : /\ line * LineTime + rem + due - run = k * LineTime
                       /\ k % total \in {2 * vpos, 2 * vpos + 1}
  BY DEF OnLine
<1>2. PICK j \in {0, total} : (l + j) * LineTime + rest - now = line * LineTime + rem - run
  BY DEF Forward
<1>3. j \in Nat /\ total \in Nat \ {0} /\ LineTime \in Nat /\ line * LineTime \in Int
      /\ l * LineTime \in Int /\ j * LineTime \in Int /\ k * LineTime \in Int
  BY BeamFacts DEF BeamTypes
<1>4. l * LineTime + rest + d - run2 = (k - j) * LineTime
  <2>1. (l + j) * LineTime = l * LineTime + j * LineTime
        /\ (k - j) * LineTime = k * LineTime - j * LineTime
    BY <1>3
  <2> QED BY <1>1, <1>2, <1>3, <2>1, BeamFacts DEF BeamTypes
<1>5. (k - j) % total = k % total
  <2>1. (k - total) % total = k % total /\ k - 0 = k
    <3>1. PICK tot \in Nat \ {0} : tot = total
      BY <1>3
    <3>2. (k - tot) % tot = k % tot
      BY SameByFields
    <3> QED BY <3>1, <3>2
  <2> QED BY <2>1
<1>6. PICK i \in Int : i = k - j
  BY <1>3
<1>7. l * LineTime + rest + d - run2 = i * LineTime /\ i % total \in {2 * vpos, 2 * vpos + 1}
  BY <1>1, <1>4, <1>5, <1>6
<1> QED BY <1>7 DEF OnLine

(* And one that is scheduled is on one.                                    *)
LEMMA ScheduledOnLine ==
  ASSUME BeamTypes, NEW v \in Nat, NEW tot \in Totals, NEW least \in {0, 1},
         line' \in Nat, rem' \in 0 .. LineTime - 1,
         Beam!Scheduled(v, tot, least) >= 0
  PROVE  OnLine(line', rem', slice, Beam!Scheduled(v, tot, least), v, tot)
<1>1. tot \in Nat \ {0} /\ LineTime \in Nat \ {0}
  BY BeamFacts
<1>2. PICK l \in Nat : l = line'
  OBVIOUS
<1>3. PICK t \in {2 * v, 2 * v + 1} :
        t = 2 * v + (IF IF v <= line' /\ interlaced' THEN ~odd' ELSE odd' THEN 1 ELSE 0)
  OBVIOUS
<1>4. t \in Nat
  BY <1>3
<1>5. PICK a \in Int : a = IF t <= l THEN tot - l + t ELSE t - l
  <2>1. tot - l + t \in Int /\ t - l \in Int
    BY <1>1, <1>4
  <2> QED BY <2>1
<1>6. PICK n \in Int : n = IF a \in 0 .. least THEN a + tot ELSE a
  <2>1. a + tot \in Int
    BY <1>1
  <2> QED BY <2>1
<1>7. Beam!Scheduled(v, tot, least) =
        IF t >= tot THEN -1 ELSE IF n < 0 THEN -2 ELSE slice + n * LineTime - rem'
  BY <1>2, <1>3, <1>5, <1>6 DEF Beam!Scheduled, Beam!NONE, Beam!FAR
<1>8. t < tot /\ n >= 0 /\ Beam!Scheduled(v, tot, least) = slice + n * LineTime - rem'
  BY <1>1, <1>4, <1>6, <1>7
<1>9. l + n \in {t, t + tot, t + tot + tot}
  <2>1. l + a = t \/ l + a = t + tot
    BY <1>1, <1>4, <1>5
  <2>2. n = a \/ n = a + tot
    BY <1>6
  <2> QED BY <1>1, <1>4, <2>1, <2>2
<1>10. l * LineTime + rem' + (slice + n * LineTime - rem') - slice = (l + n) * LineTime
  <2>1. l * LineTime \in Int /\ n * LineTime \in Int
        /\ (l + n) * LineTime = l * LineTime + n * LineTime
    BY <1>1
  <2>2. PICK x \in Int, y \in Int : x = l * LineTime /\ y = n * LineTime
    BY <2>1
  <2>3. PICK z \in Int, rest \in Int : z = slice /\ rest = rem'
    BY DEF BeamTypes
  <2>4. x + rest + (z + y - rest) - z = x + y
    OBVIOUS
  <2> QED BY <2>1, <2>2, <2>3, <2>4
<1>11. (l + n) % tot = t
  <2>1. t \in 0 .. tot - 1 /\ t \in Int
    BY <1>1, <1>4, <1>8
  <2>2. t % tot = t
    BY <1>1, <2>1, Divided
  <2>3. PICK u \in Int : u = t + tot
    BY <1>1, <2>1
  <2>4. (t + tot) % tot = t % tot /\ (u + tot) % tot = u % tot
    BY <1>1, <2>1, SameByFields
  <2> QED BY <1>9, <2>2, <2>3, <2>4
<1>12. PICK k \in Int : k = l + n
  OBVIOUS
<1> QED BY <1>2, <1>3, <1>8, <1>10, <1>11, <1>12 DEF OnLine

LEMMA ScheduledType ==
  ASSUME BeamTypes, NEW v \in Nat, NEW tot \in Totals, NEW least \in {0, 1},
         line' \in Nat, rem' \in 0 .. LineTime - 1
  PROVE  Beam!Scheduled(v, tot, least) \in Int
<1>1. PICK l \in Nat, t \in Nat :
        /\ l = line'
        /\ t = 2 * v + (IF IF v <= line' /\ interlaced' THEN ~odd' ELSE odd' THEN 1 ELSE 0)
  OBVIOUS
<1>2. tot \in Nat \ {0} /\ LineTime \in Nat \ {0}
  BY BeamFacts
<1>3. PICK a \in Int : a = IF t <= l THEN tot - l + t ELSE t - l
  BY <1>2
<1>4. PICK n \in Int : n = IF a \in 0 .. least THEN a + tot ELSE a
  BY <1>2, <1>3
<1>5. slice + n * LineTime - rem' \in Int
  BY <1>2 DEF BeamTypes
<1>6. Beam!Scheduled(v, tot, least) =
        IF t >= tot THEN -1 ELSE IF n < 0 THEN -2 ELSE slice + n * LineTime - rem'
  BY <1>1, <1>3, <1>4 DEF Beam!Scheduled, Beam!NONE, Beam!FAR
<1> QED BY <1>5, <1>6

(* The types that bringing the raster up to date keeps in any case.        *)
LEMMA UpdatedTypes ==
  ASSUME BeamTypes, NEW now \in 0 .. SliceLength + MaxBlock - 1
  PROVE  /\ Beam!LineAt(now) \in Nat
         /\ Beam!Elapsed(now) % LineTime \in 0 .. LineTime - 1
         /\ Beam!OddAt(now) \in BOOLEAN
         /\ (IF Beam!Wraps(now) THEN 0 ELSE frames)
              + (IF Beam!Shows(now) THEN 1 ELSE 0) \in Nat
<1>1. Beam!Elapsed(now) \in Nat
  <2>1. rem + now - run \in Int /\ WrapTime \in Nat \ {0}
    BY BeamFacts DEF BeamTypes
  <2> QED BY <2>1, Divided DEF Beam!Elapsed
<1>2. /\ Beam!Elapsed(now) \div LineTime \in Nat
      /\ Beam!Elapsed(now) % LineTime \in 0 .. LineTime - 1
  <2>1. PICK e \in Nat : e = Beam!Elapsed(now)
    BY <1>1
  <2>2. e \div LineTime \in Int /\ e \div LineTime >= 0 /\ e % LineTime \in 0 .. LineTime - 1
    <3>1. PICK p \in Nat \ {0} : p = LineTime
      BY BeamFacts
    <3>2. e \div p \in Int /\ e \div p >= 0 /\ e % p \in 0 .. p - 1
      BY Divided
    <3> QED BY <3>1, <3>2
  <2> QED BY <2>1, <2>2
<1>3. Beam!Lines(now) \in Nat
  BY <1>2 DEF Beam!Lines, BeamTypes
<1>4. Beam!LineAt(now) \in Nat
  BY <1>3, BeamFacts DEF Beam!LineAt, Beam!Wraps, BeamTypes
<1>5. Beam!OddAt(now) \in BOOLEAN
  BY DEF Beam!OddAt, BeamTypes
<1> QED BY <1>2, <1>4, <1>5 DEF BeamTypes

(* A step that brings the raster up to date, with an event kept or         *)
(* scheduled.                                                              *)
LEMMA LookKeeps ==
  ASSUME BeamInv, ~wild, Beam!Update(slice), slice' = slice, interlaced' \in BOOLEAN,
         vpos' \in Nat, total' \in Totals,
         \/ UNCHANGED <<due, vpos, total>>
         \/ \E least \in {0, 1} : due' = Beam!Scheduled(vpos', total', least)
  PROVE  BeamInv'
<1>1. BeamTypes /\ Beam!EventOnLine /\ Beam!OneFramePerField
  BY DEF BeamInv
<1>2. slice \in 0 .. SliceLength + MaxBlock - 1
  BY <1>1 DEF BeamTypes
<1>3. /\ line' \in Nat /\ rem' \in 0 .. LineTime - 1 /\ odd' \in BOOLEAN /\ frames' \in Nat
      /\ run' = slice /\ wild' = (wild \/ rem + slice - run < 0)
  BY <1>1, <1>2, UpdatedTypes DEF Beam!Update
<1>4. due' \in Int
  BY <1>1, <1>3, ScheduledType DEF BeamTypes
<1>5. BeamTypes'
  BY <1>1, <1>2, <1>3, <1>4 DEF BeamTypes
<1>6. ASSUME ~wild' PROVE Forward(slice, line', rem', frames')
  <2>1. rem + slice - run >= 0
    <3>1. ~(rem + slice - run < 0) /\ rem + slice - run \in Int
      <4>1. ~(rem + slice - run < 0)
        BY <1>3, <1>6
      <4>2. rem + slice - run \in Int
        BY <1>1 DEF BeamTypes
      <4> QED BY <4>1, <4>2
    <3> QED BY <3>1
  <2> QED BY <1>1, <1>2, <2>1, Updated DEF Beam!Update
<1>7. Beam!OneFramePerField'
  BY <1>6 DEF Forward, Beam!OneFramePerField
<1>8. ASSUME due' >= 0, ~wild'
      PROVE  OnLine(line', rem', run', due', vpos', total')
  <2>1. CASE UNCHANGED <<due, vpos, total>>
    <3>1. OnLine(line, rem, run, due, vpos, total)
      BY <1>1, <1>8, <2>1, EventMeans
    <3>2. PICK dd \in Int : dd = due'
      BY <1>4
    <3>3. OnLine(line', rem', slice, dd, vpos, total)
      BY <1>1, <1>2, <1>3, <1>6, <1>8, <2>1, <3>1, <3>2, EventKept DEF BeamTypes
    <3> QED BY <1>3, <2>1, <3>2, <3>3
  <2>2. CASE \E least \in {0, 1} : due' = Beam!Scheduled(vpos', total', least)
    <3>1. PICK least \in {0, 1}, v \in Nat, tot \in Totals :
            v = vpos' /\ tot = total' /\ due' = Beam!Scheduled(v, tot, least)
      BY <2>2
    <3>2. OnLine(line', rem', slice, Beam!Scheduled(v, tot, least), v, tot)
      BY <1>1, <1>3, <1>8, <3>1, ScheduledOnLine
    <3> QED BY <1>3, <3>1, <3>2
  <2> QED BY <2>1, <2>2
<1>9. Beam!EventOnLine'
  BY <1>5, <1>8, EventMeansNext
<1> QED BY <1>5, <1>7, <1>9 DEF BeamInv

LEMMA EndSliceKeeps ==
  ASSUME BeamInv, ~wild, Beam!EndSlice
  PROVE  BeamInv'
<1>1. BeamTypes /\ Beam!EventOnLine /\ Beam!OneFramePerField
  BY DEF BeamInv
<1>2. /\ slice >= SliceLength /\ ~(due >= 0 /\ due <= slice)
      /\ slice' = 0 /\ due' = (IF due >= 0 THEN due - SliceLength ELSE due)
      /\ UNCHANGED <<interlaced, total, vpos>>
      /\ Beam!RunSlice(SliceLength)
  BY DEF Beam!EndSlice, Beam!EventDue
<1>3. PICK now \in 0 .. SliceLength + MaxBlock - 1 : now = SliceLength
  BY BeamFacts
<1>4. due' \in Int /\ (due' >= 0 <=> due >= 0)
  BY <1>1, <1>2, BeamFacts DEF BeamTypes
<1>5. CASE SliceLength <= run
  <2>1. run' = run - SliceLength /\ UNCHANGED <<line, rem, odd, frames, wild>>
    BY <1>2, <1>5 DEF Beam!RunSlice
  <2>2. BeamTypes'
    BY <1>1, <1>2, <1>4, <1>5, <2>1, BeamFacts DEF BeamTypes
  <2>3. Beam!OneFramePerField'
    BY <1>1, <2>1 DEF Beam!OneFramePerField
  <2>4. ASSUME due' >= 0, ~wild' PROVE OnLine(line', rem', run', due', vpos', total')
    <3>1. PICK k \in Int : /\ line * LineTime + rem + due - run = k * LineTime
                           /\ k % total \in {2 * vpos, 2 * vpos + 1}
      BY <1>1, <1>4, <2>1, <2>4, EventMeans DEF OnLine
    <3>2. line' * LineTime + rem' + due' - run' = line * LineTime + rem + due - run
      <4>1. line * LineTime \in Int
        BY <1>1, BeamFacts DEF BeamTypes
      <4>2. due' - run' = due - run
        BY <1>1, <1>2, <1>4, <2>1, <2>4, BeamFacts DEF BeamTypes
      <4> QED BY <1>1, <1>4, <2>1, <2>2, <4>1, <4>2, BeamFacts DEF BeamTypes
    <3> QED BY <1>2, <3>1, <3>2 DEF OnLine
  <2>5. Beam!EventOnLine'
    BY <2>2, <2>4, EventMeansNext
  <2> QED BY <2>2, <2>3, <2>5 DEF BeamInv
<1>6. CASE ~(SliceLength <= run)
  <2>1. /\ line' = Beam!LineAt(now) /\ rem' = Beam!Elapsed(now) % LineTime
        /\ run' = 0 /\ odd' = Beam!OddAt(now)
        /\ frames' = (IF Beam!Wraps(now) THEN 0 ELSE frames)
                       + (IF Beam!Shows(now) THEN 1 ELSE 0)
        /\ wild' = (wild \/ rem + now - run < 0)
    BY <1>2, <1>3, <1>6 DEF Beam!RunSlice
  <2>2. line' \in Nat /\ rem' \in 0 .. LineTime - 1 /\ odd' \in BOOLEAN /\ frames' \in Nat
    BY <1>1, <2>1, UpdatedTypes
  <2>3. BeamTypes'
    BY <1>1, <1>2, <1>4, <2>1, <2>2, BeamFacts DEF BeamTypes
  <2>4. ASSUME ~wild' PROVE Forward(now, line', rem', frames')
    <3>1. rem + now - run >= 0
      <4>1. ~(rem + now - run < 0) /\ rem + now - run \in Int
        <5>1. ~(rem + now - run < 0)
          BY <2>1, <2>4
        <5>2. rem + now - run \in Int
          BY <1>1 DEF BeamTypes
        <5> QED BY <5>1, <5>2
      <4> QED BY <4>1
    <3> QED BY <1>1, <2>1, <3>1, Updated
  <2>5. Beam!OneFramePerField'
    BY <2>4 DEF Forward, Beam!OneFramePerField
  <2>6. ASSUME due' >= 0, ~wild' PROVE OnLine(line', rem', run', due', vpos', total')
    <3>1. OnLine(line, rem, run, due, vpos, total)
      BY <1>1, <1>4, <2>6, EventMeans
    <3>2. PICK dd \in Int, zero \in Int : dd = due' /\ zero = 0 /\ dd - zero = due - now
      BY <1>1, <1>2, <1>3, <1>4, <2>6, BeamFacts DEF BeamTypes
    <3>3. OnLine(line', rem', zero, dd, vpos, total)
      BY <1>1, <2>2, <2>4, <2>6, <3>1, <3>2, EventKept
    <3> QED BY <1>2, <2>1, <3>2, <3>3
  <2>7. Beam!EventOnLine'
    BY <2>3, <2>6, EventMeansNext
  <2> QED BY <2>3, <2>5, <2>7 DEF BeamInv
<1> QED BY <1>5, <1>6

(* The raster at the top, and its event there too, a whole field on.       *)
LEMMA TopOfField ==
  ASSUME NEW tot \in Totals
  PROVE  /\ tot * LineTime \in Nat
         /\ OnLine(0, 0, 0, tot * LineTime, 0, tot)
<1>1. tot \in Nat \ {0} /\ LineTime \in Nat \ {0}
  BY BeamFacts
<1>2. tot % tot = 0
  <2>1. tot = tot * 1 + 0 /\ 0 \in 0 .. tot - 1
    BY <1>1
  <2> QED BY <1>1, <2>1, DividedUnique
<1> QED BY <1>1, <1>2 DEF OnLine

LEMMA BeamKeeps == Beam!Spec => []Beam!RasterTrue
<1>1. Beam!Init => BeamInv
  <2> SUFFICES ASSUME Beam!Init PROVE BeamInv
    OBVIOUS
  <2>1. BeamTypes
    <3>1. total * LineTime \in Nat /\ total \in Totals
      BY TopOfField DEF Beam!Init
    <3>2. 0 \in 0 .. SliceLength + MaxBlock - 1 /\ 0 \in 0 .. LineTime - 1
      BY BeamFacts
    <3>3. /\ slice = 0 /\ run = 0 /\ line = 0 /\ rem = 0 /\ odd = FALSE
          /\ interlaced = FALSE /\ wild = FALSE /\ vpos = 0 /\ frames = 0
          /\ due = total * LineTime
      BY DEF Beam!Init
    <3>4. due \in Int
      BY <3>1, <3>3
    <3> QED BY <3>1, <3>2, <3>3, <3>4 DEF BeamTypes
  <2>2. Beam!EventOnLine
    BY <2>1, TopOfField, EventMeans DEF Beam!Init
  <2> QED BY <2>1, <2>2, BeamFacts DEF Beam!Init, BeamInv, Beam!OneFramePerField
<1>2. BeamInv /\ [Beam!Next]_(Beam!vars) => BeamInv'
  <2> SUFFICES ASSUME BeamInv, [Beam!Next]_(Beam!vars) PROVE BeamInv'
    OBVIOUS
  <2>1. BeamTypes
    BY DEF BeamInv
  <2>2. CASE UNCHANGED Beam!vars
    BY <2>2 DEF Beam!vars, BeamInv, BeamTypes, Beam!EventOnLine, Beam!OneFramePerField
  <2>3. CASE Beam!Reset
    <3>1. /\ line' = 0 /\ rem' = 0 /\ run' = 0 /\ vpos' = 0 /\ total' \in Totals
          /\ due' = total' * LineTime /\ frames' = 0
      BY <2>3 DEF Beam!Reset
    <3>2. BeamTypes'
      <4>1. due' \in Nat
        BY <3>1, TopOfField
      <4>2. 0 \in 0 .. SliceLength + MaxBlock - 1 /\ 0 \in 0 .. LineTime - 1
        BY BeamFacts
      <4>3. slice' = 0 /\ odd' = FALSE /\ interlaced' = FALSE /\ wild' = FALSE
        BY <2>3 DEF Beam!Reset
      <4>4. due' \in Int
        BY <4>1
      <4> QED BY <3>1, <4>2, <4>3, <4>4 DEF BeamTypes
    <3>3. PICK tot \in Totals : tot = total'
      BY <3>1
    <3>4. OnLine(0, 0, 0, tot * LineTime, 0, tot)
      BY TopOfField
    <3>5. Beam!EventOnLine'
      BY <3>1, <3>2, <3>3, <3>4, EventMeansNext
    <3> QED BY <3>1, <3>2, <3>5, BeamFacts DEF BeamInv, Beam!OneFramePerField
  <2>4. CASE ~wild /\ Beam!Look
    BY <2>1, <2>4, LookKeeps DEF Beam!Look, BeamTypes
  <2>5. CASE ~wild /\ Beam!ScanlineEvent
    BY <2>1, <2>5, LookKeeps DEF Beam!ScanlineEvent, BeamTypes
  <2>6. CASE ~wild /\ Beam!EndSlice
    BY <2>6, EndSliceKeeps
  <2>7. ASSUME ~wild, NEW v \in Positions, Beam!WriteVposIrq(v) PROVE BeamInv'
    BY <2>1, <2>7, LookKeeps, BeamFacts DEF Beam!WriteVposIrq, BeamTypes
  <2>8. ASSUME ~wild, NEW t \in Totals, Beam!WriteTotal(t) PROVE BeamInv'
    BY <2>1, <2>8, LookKeeps DEF Beam!WriteTotal, BeamTypes
  <2>9. ASSUME NEW i \in BOOLEAN, Beam!WriteSyncCfg(i) PROVE BeamInv'
    BY <2>9 DEF Beam!WriteSyncCfg, BeamInv, BeamTypes, Beam!EventOnLine,
                Beam!OneFramePerField
  <2>10. ASSUME NEW n \in 1 .. MaxBlock, Beam!Advance(n) PROVE BeamInv'
    BY <2>10, BeamFacts DEF Beam!Advance, Beam!Access, BeamInv, BeamTypes,
                Beam!EventOnLine, Beam!OneFramePerField
  <2> QED
    BY <2>2, <2>3, <2>4, <2>5, <2>6, <2>7, <2>8, <2>9, <2>10 DEF Beam!Next
<1>3. BeamInv => Beam!RasterTrue
  BY DEF BeamInv, Beam!RasterTrue
<1> QED BY <1>1, <1>2, <1>3, PTL DEF Beam!Spec


-----------------------------------------------------------------------------
(* A strip.  Its vertices are numbered as they come; of the first k its    *)
(* triangles have been committed, and the next one starts with vertex k.   *)
(* Nth is the triangle that starts with vertex i - 1, as it winds.         *)
Wound(i) == IF i % 2 = 1 THEN <<i - 1, i, i + 1>> ELSE <<i - 1, i + 1, i>>

Even(k) == \E j \in Int : k = 2 * j

(* The vertices vs of a strip that are waiting, of which k came before, as *)
(* they are kept: in order, or, one after the split of a triangle, with    *)
(* the first two exchanged.                                                *)
InOrder(vs, k) == Even(k) /\ \A i \in 1 .. Len(vs) : vs[i] = k + i - 1

Exchanged(vs, k) ==
  /\ ~Even(k) /\ Len(vs) \in {2, 3} /\ vs[1] = k + 1 /\ vs[2] = k
  /\ Len(vs) = 3 => vs[3] = k + 2

Kept(vs, p, k, m) ==
  /\ vs \in Seq(Int) /\ k \in Nat /\ (k > 0 => Len(vs) >= 2)
  /\ \/ p = 0 /\ InOrder(vs, k)
     \/ p = 1 /\ m = 3 /\ Exchanged(vs, k)

Committed(k) == {Wound(i) : i \in 1 .. k}

LEMMA EvenOrOdd ==
  ASSUME NEW k \in Int
  PROVE  (Even(k) <=> k % 2 = 0) /\ (~Even(k) <=> k % 2 = 1)
<1>1. k % 2 \in 0 .. 1
  OBVIOUS
<1>2. ASSUME Even(k) PROVE k % 2 = 0
  BY <1>2 DEF Even
<1>3. ASSUME k % 2 = 0 PROVE Even(k)
  <2>1. k = 2 * (k \div 2) /\ k \div 2 \in Int
    BY <1>3
  <2> QED BY <2>1 DEF Even
<1> QED BY <1>1, <1>2, <1>3

LEMMA EvenSums ==
  ASSUME NEW k \in Int, NEW i \in Int
  PROVE  /\ Even(k) /\ Even(i) => Even(k + i)
         /\ Even(k) => (Even(k + i) <=> Even(i))
         /\ Even(k + 2) <=> Even(k)
         /\ Even(k + 1) <=> ~Even(k)
<1>1. k % 2 \in 0 .. 1 /\ i % 2 \in 0 .. 1 /\ (k + i) % 2 = ((k % 2) + (i % 2)) % 2
  OBVIOUS
<1>2. (k + 2) % 2 = k % 2 /\ (k % 2 = 0 <=> (k + 1) % 2 = 1)
  OBVIOUS
<1>3. k + i \in Int /\ k + 1 \in Int /\ k + 2 \in Int
  OBVIOUS
<1> QED BY <1>1, <1>2, <1>3, EvenOrOdd

(* A triangle starts with its least vertex.                                *)
LEMMA WindingOf ==
  ASSUME NEW a \in Int, NEW b \in Int, NEW c \in Int, a < b, a < c
  PROVE  /\ Strips!Winding(<<a, b, c>>) = <<a, b, c>>
         /\ Strips!Winding(<<b, a, c>>) = <<a, c, b>>
<1>1. Strips!Rotations(<<a, b, c>>) = {<<a, b, c>>, <<b, c, a>>, <<c, a, b>>}
  BY DEF Strips!Rotations
<1>2. Strips!Rotations(<<b, a, c>>) = {<<b, a, c>>, <<a, c, b>>, <<c, b, a>>}
  BY DEF Strips!Rotations
<1>3. /\ <<a, b, c>>[1] = a /\ <<a, b, c>>[2] = b /\ <<a, b, c>>[3] = c
      /\ <<b, c, a>>[1] = b /\ <<b, c, a>>[2] = c /\ <<b, c, a>>[3] = a
      /\ <<c, a, b>>[1] = c /\ <<c, a, b>>[2] = a /\ <<c, a, b>>[3] = b
      /\ <<b, a, c>>[1] = b /\ <<b, a, c>>[2] = a /\ <<b, a, c>>[3] = c
      /\ <<a, c, b>>[1] = a /\ <<a, c, b>>[2] = c /\ <<a, c, b>>[3] = b
      /\ <<c, b, a>>[1] = c /\ <<c, b, a>>[2] = b /\ <<c, b, a>>[3] = a
  OBVIOUS
<1>4. ~(b < a) /\ ~(c < a)
  OBVIOUS
<1>5. Strips!Winding(<<a, b, c>>) = <<a, b, c>>
  <2>1. ASSUME NEW t \in Strips!Rotations(<<a, b, c>>), t[1] < t[2], t[1] < t[3]
        PROVE  t = <<a, b, c>>
    BY <1>1, <1>3, <1>4, <2>1
  <2>2. <<a, b, c>> \in Strips!Rotations(<<a, b, c>>)
    BY <1>1
  <2> QED BY <1>3, <2>1, <2>2 DEF Strips!Winding
<1>6. Strips!Winding(<<b, a, c>>) = <<a, c, b>>
  <2>1. ASSUME NEW t \in Strips!Rotations(<<b, a, c>>), t[1] < t[2], t[1] < t[3]
        PROVE  t = <<a, c, b>>
    BY <1>2, <1>3, <1>4, <2>1
  <2>2. <<a, c, b>> \in Strips!Rotations(<<b, a, c>>)
    BY <1>2
  <2> QED BY <1>3, <2>1, <2>2 DEF Strips!Winding
<1> QED BY <1>5, <1>6

(* What a polygon of vertices that are kept draws.                         *)
LEMMA TrianglesKept ==
  ASSUME NEW vs, NEW p, NEW k, NEW m, Kept(vs, p, k, m)
  PROVE  Strips!Triangles(vs) = {Wound(k + i) : i \in 1 .. Len(vs) - 2}
<1>1. vs \in Seq(Int) /\ k \in Nat /\ Len(vs) \in Nat
  BY DEF Kept
<1>2. ASSUME NEW i \in 1 .. Len(vs) - 2
      PROVE  Strips!Winding(LET t == <<vs[i], vs[i + 1], vs[i + 2]>>
                            IN  IF i % 2 = 1 THEN t ELSE Strips!Turned(t)) = Wound(k + i)
  <2>1. PICK a \in Int, b \in Int, c \in Int :
          /\ a = k + i - 1 /\ b = k + i /\ c = k + i + 1 /\ a < b /\ a < c
          /\ a = b - 1 /\ c = b + 1
    BY <1>1
  <2>2. Wound(b) = IF b % 2 = 1 THEN <<a, b, c>> ELSE <<a, c, b>>
    BY <2>1 DEF Wound
  <2>3. /\ Strips!Winding(<<a, b, c>>) = <<a, b, c>>
        /\ Strips!Winding(<<b, a, c>>) = <<a, c, b>>
    <3>1. a < b /\ a < c
      BY <2>1
    <3> QED BY <3>1, WindingOf
  <2>4. CASE InOrder(vs, k)
    <3>1. vs[i] = a /\ vs[i + 1] = b /\ vs[i + 2] = c
      BY <1>1, <2>1, <2>4 DEF InOrder
    <3>2. b % 2 = 1 <=> i % 2 = 1
      <4>1. i \in Int /\ k \in Int /\ b \in Int
        BY <1>1
      <4>2. Even(b) <=> Even(i)
        BY <2>1, <2>4, <4>1, EvenSums DEF InOrder
      <4> QED BY <4>1, <4>2, EvenOrOdd
    <3>3. Strips!Turned(<<a, b, c>>) = <<b, a, c>>
      BY DEF Strips!Turned
    <3> QED BY <2>1, <2>2, <2>3, <3>1, <3>2, <3>3
  <2>5. CASE Exchanged(vs, k)
    <3>1. i = 1 /\ Len(vs) = 3
      <4>1. Len(vs) = 2 \/ Len(vs) = 3
        BY <2>5 DEF Exchanged
      <4>2. PICK n \in Nat : n = Len(vs) /\ i \in 1 .. n - 2
        BY <1>1
      <4> QED BY <4>1, <4>2
    <3>2. vs[i] = b /\ vs[i + 1] = a /\ vs[i + 2] = c /\ i % 2 = 1
      BY <1>1, <2>1, <2>5, <3>1 DEF Exchanged
    <3>3. b % 2 # 1
      <4>1. b = k + 1 /\ k \in Int
        BY <1>1, <2>1, <3>1
      <4>2. Even(b)
        BY <2>5, <4>1, EvenSums DEF Exchanged
      <4> QED BY <4>2, EvenOrOdd
    <3> QED BY <2>1, <2>2, <2>3, <3>2, <3>3
  <2> QED BY <2>4, <2>5 DEF Kept
<1> QED BY <1>2 DEF Strips!Triangles

(* Together with those committed before it they are the next ones, and     *)
(* none is drawn twice.                                                    *)
LEMMA CommittedMore ==
  ASSUME NEW vs, NEW p, NEW k, NEW m, Kept(vs, p, k, m)
  PROVE  /\ Committed(k) \cup Strips!Triangles(vs) = Committed(k + Len(vs) - 2)
         /\ Committed(k) \cap Strips!Triangles(vs) = {}
<1>1. vs \in Seq(Int) /\ k \in Nat /\ Len(vs) \in Nat /\ (k > 0 => Len(vs) >= 2)
  BY DEF Kept
<1>2. PICK n \in Int : n = Len(vs)
  BY <1>1
<1>3. Strips!Triangles(vs) = {Wound(k + i) : i \in 1 .. n - 2}
  BY <1>2, TrianglesKept
<1>4. ASSUME NEW i \in Int, NEW j \in Int, Wound(i) = Wound(j) PROVE i = j
  <2>1. Wound(i)[1] = i - 1 /\ Wound(j)[1] = j - 1
    BY DEF Wound
  <2> QED BY <1>4, <2>1
<1>5. ASSUME NEW i \in 1 .. k + n - 2
      PROVE  Wound(i) \in Committed(k) \cup Strips!Triangles(vs)
  <2>1. CASE i <= k
    BY <1>1, <1>2, <2>1 DEF Committed
  <2>2. CASE i > k
    <3>1. PICK j \in 1 .. n - 2 : i = k + j
      <4>1. i - k \in 1 .. n - 2 /\ i = k + (i - k)
        BY <1>1, <1>2, <2>2
      <4> QED BY <4>1
    <3> QED BY <1>3, <3>1
  <2> QED BY <1>1, <1>2, <2>1, <2>2
<1>6. ASSUME NEW i \in 1 .. k PROVE Wound(i) \in Committed(k + n - 2)
  BY <1>1, <1>2 DEF Committed
<1>7. ASSUME NEW i \in 1 .. n - 2 PROVE Wound(k + i) \in Committed(k + n - 2)
  BY <1>1, <1>2 DEF Committed
<1>8. ASSUME NEW i \in 1 .. k, NEW j \in 1 .. n - 2 PROVE Wound(i) # Wound(k + j)
  BY <1>1, <1>2, <1>4
<1> QED BY <1>2, <1>3, <1>5, <1>6, <1>7, <1>8 DEF Committed

LEMMA AppendKept ==
  ASSUME NEW vs, NEW p, NEW k, NEW m, Kept(vs, p, k, m), Len(vs) < m
  PROVE  Kept(Append(vs, k + Len(vs)), p, k, m)
<1>1. vs \in Seq(Int) /\ k \in Nat /\ Len(vs) \in Nat /\ (k > 0 => Len(vs) >= 2)
  BY DEF Kept
<1>2. PICK us \in Seq(Int), n \in Nat : us = Append(vs, k + Len(vs)) /\ n = Len(vs)
  <2>1. Append(vs, k + Len(vs)) \in Seq(Int)
    BY <1>1
  <2> QED BY <1>1, <2>1
<1>3. /\ us \in Seq(Int) /\ Len(us) = n + 1 /\ us[n + 1] = k + n
      /\ \A i \in 1 .. n : us[i] = vs[i]
  BY <1>1, <1>2
<1>4. CASE p = 0 /\ InOrder(vs, k)
  <2>1. InOrder(us, k)
    <3>1. ASSUME NEW i \in 1 .. n + 1 PROVE us[i] = k + i - 1
      <4>1. CASE i \in 1 .. n
        <5>1. us[i] = vs[i] /\ i \in 1 .. Len(vs)
          BY <1>2, <1>3, <4>1
        <5> QED BY <1>4, <5>1 DEF InOrder
      <4>2. CASE i = n + 1
        BY <1>1, <1>2, <1>3, <4>2
      <4> QED BY <4>1, <4>2
    <3> QED BY <1>3, <1>4, <3>1 DEF InOrder
  <2> QED BY <1>1, <1>2, <1>3, <1>4, <2>1 DEF Kept
<1>5. CASE p = 1 /\ m = 3 /\ Exchanged(vs, k)
  <2>1. n = 2 /\ vs[1] = k + 1 /\ vs[2] = k /\ ~Even(k)
    BY <1>2, <1>5 DEF Exchanged
  <2>2. us[1] = k + 1 /\ us[2] = k /\ us[3] = k + 2 /\ Len(us) = 3
    BY <1>1, <1>3, <2>1
  <2> QED BY <1>1, <1>2, <1>3, <1>5, <2>1, <2>2 DEF Kept, Exchanged
<1> QED BY <1>4, <1>5 DEF Kept

Full(m) == m = 3 \/ (m \in Nat /\ m >= 4 /\ Even(m))

(* The split keeps the two vertices that the next triangle shares, in the  *)
(* order that winds it as the parity says.  (ta_split_polygon)             *)
LEMMA SplitKept ==
  ASSUME NEW vs, NEW k, NEW m, Kept(vs, parity, k, m), Len(vs) = m, Full(m)
  PROVE  /\ Kept(Strips!Rest(vs), Strips!RestParity(vs), k + m - 2, m)
         /\ Len(Strips!Rest(vs)) = 2
<1>1. vs \in Seq(Int) /\ k \in Nat /\ m \in Nat /\ m >= 3
  BY DEF Kept, Full
<1>2. CASE m = 3 /\ parity = 0
  <2>1. InOrder(vs, k)
    BY <1>2 DEF Kept
  <2>2. vs[1] = k /\ vs[2] = k + 1 /\ vs[3] = k + 2 /\ Even(k)
    BY <1>1, <1>2, <2>1 DEF InOrder
  <2>3. Strips!Rest(vs) = <<k + 2, k + 1>> /\ Strips!RestParity(vs) = 1
    BY <1>2, <2>2 DEF Strips!Rest, Strips!RestParity
  <2>4. ~Even(k + 1)
    BY <1>1, <2>2, EvenSums
  <2>5. Exchanged(<<k + 2, k + 1>>, k + 1) /\ Len(<<k + 2, k + 1>>) = 2
    BY <1>1, <2>4 DEF Exchanged
  <2>6. <<k + 2, k + 1>> \in Seq(Int) /\ k + m - 2 = k + 1
    BY <1>1, <1>2
  <2> QED BY <1>1, <1>2, <2>3, <2>5, <2>6 DEF Kept
<1>3. CASE m = 3 /\ parity # 0
  <2>1. Exchanged(vs, k)
    BY <1>3 DEF Kept
  <2>2. vs[1] = k + 1 /\ vs[3] = k + 2 /\ ~Even(k)
    BY <1>1, <1>3, <2>1 DEF Exchanged
  <2>3. Strips!Rest(vs) = <<k + 1, k + 2>> /\ Strips!RestParity(vs) = 0
    BY <1>3, <2>2 DEF Strips!Rest, Strips!RestParity
  <2>4. Even(k + 1)
    BY <1>1, <2>2, EvenSums
  <2>5. InOrder(<<k + 1, k + 2>>, k + 1) /\ Len(<<k + 1, k + 2>>) = 2
    BY <1>1, <2>4 DEF InOrder
  <2>6. <<k + 1, k + 2>> \in Seq(Int) /\ k + m - 2 = k + 1
    BY <1>1, <1>3
  <2> QED BY <1>1, <1>3, <2>3, <2>5, <2>6 DEF Kept
<1>4. CASE m # 3
  <2>1. parity = 0 /\ InOrder(vs, k) /\ m >= 4 /\ Even(m)
    BY <1>4 DEF Kept, Full
  <2>2. PICK us : us = SubSeq(vs, m - 1, m)
    OBVIOUS
  <2>3. us \in Seq(Int) /\ Len(us) = 2 /\ us[1] = vs[m - 1] /\ us[2] = vs[m]
    BY <1>1, <2>1, <2>2
  <2>4. PICK q \in Nat : q = k + m - 2
    BY <1>1
  <2>5. us[1] = q /\ us[2] = q + 1
    BY <1>1, <2>1, <2>3, <2>4 DEF InOrder
  <2>6. Even(q)
    <3>1. Even(k + m) /\ q \in Int /\ k + m = q + 2
      BY <1>1, <2>1, <2>4, EvenSums DEF InOrder
    <3> QED BY <3>1, EvenSums
  <2>7. InOrder(us, q)
    BY <2>3, <2>4, <2>5, <2>6 DEF InOrder
  <2>8. Strips!Rest(vs) = us /\ Strips!RestParity(vs) = 0
    BY <1>4, <2>2 DEF Strips!Rest, Strips!RestParity
  <2>9. Kept(us, 0, q, m)
    BY <2>3, <2>7 DEF Kept
  <2> QED BY <2>3, <2>4, <2>8, <2>9
<1> QED BY <1>2, <1>3, <1>4

-----------------------------------------------------------------------------
(* The parser.  A polygon is full only between the blocks of a vertex.     *)
Halves == {"VERTEX_BLOCK2", "END_VERTEX_BLOCK2"}

StripKept ==
  /\ Kept(verts, parity, sent - Len(verts), max)
  /\ drawn = Committed(sent - Len(verts))
  /\ IF taState \in Halves THEN Len(verts) <= max ELSE Len(verts) < max

StripInv ==
  /\ sent \in Nat /\ Full(max)
  /\ Strips!IsNormalPoly(type) => IF verts = << >> THEN parity = 0 ELSE StripKept

LEMMA NoneKept == ASSUME NEW m PROVE Kept(<< >>, 0, 0, m) /\ Committed(0) = {}
BY EvenOrOdd DEF Kept, InOrder, Committed

LEMMA KeptLength ==
  ASSUME NEW vs, NEW p, NEW k, NEW m, Kept(vs, p, k, m)
  PROVE  vs \in Seq(Int) /\ Len(vs) \in Nat /\ k \in Nat
BY DEF Kept

LEMMA StripIsWhole ==
  ASSUME StripKept, sent \in Nat, verts # << >>
  PROVE  /\ drawn \cup Strips!Triangles(verts) = Strips!Triangles([i \in 1 .. sent |-> i - 1])
         /\ drawn \cap Strips!Triangles(verts) = {}
<1>1. PICK k : k = sent - Len(verts)
  OBVIOUS
<1>2. Kept(verts, parity, k, max) /\ drawn = Committed(k)
  BY <1>1 DEF StripKept
<1>3. k \in Nat /\ Len(verts) \in Nat /\ k + Len(verts) - 2 = sent - 2
  BY <1>1, <1>2, KeptLength
<1>4. PICK all : all = [i \in 1 .. sent |-> i - 1]
  OBVIOUS
<1>5. all \in Seq(Int) /\ Len(all) = sent
  BY <1>4
<1>6. Kept(all, 0, 0, max)
  <2>1. InOrder(all, 0)
    <3>1. Even(0)
      BY EvenOrOdd
    <3> QED BY <1>4, <1>5, <3>1 DEF InOrder
  <2> QED BY <1>5, <2>1 DEF Kept
<1>7. Strips!Triangles(all) = Committed(sent - 2)
  <2>1. Strips!Triangles(all) = {Wound(0 + i) : i \in 1 .. sent - 2}
    BY <1>5, <1>6, TrianglesKept
  <2>2. \A i \in 1 .. sent - 2 : 0 + i = i
    OBVIOUS
  <2> QED BY <2>1, <2>2 DEF Committed
<1> QED BY <1>2, <1>3, <1>4, <1>7, CommittedMore

(* What Continue does with a polygon that is not too long.                 *)
LEMMA ContinueKeeps ==
  ASSUME NEW vs, NEW ts, NEW k, Strips!Continue(vs, ts), Full(max),
         Kept(vs, parity, k, max), vs # << >>, Len(vs) <= max, ts = Committed(k),
         Strips!IsNormalPoly(type), type' = type, max' = max,
         sent' = k + Len(vs)
  PROVE  verts' # << >> /\ StripKept'
<1>1. vs \in Seq(Int) /\ Len(vs) \in Nat /\ k \in Nat /\ max \in Nat /\ max >= 3
  BY KeptLength DEF Full
<1>2. taState' \notin Halves
  BY DEF Strips!Continue, Halves
<1>3. CASE Len(vs) # max
  <2>1. verts' = vs /\ drawn' = ts /\ parity' = parity
    BY <1>3 DEF Strips!Continue
  <2>2. sent' - Len(verts') = k
    BY <1>1, <2>1
  <2> QED BY <1>1, <1>2, <1>3, <2>1, <2>2 DEF StripKept
<1>4. CASE Len(vs) = max
  <2>1. /\ drawn' = ts \cup Strips!Triangles(vs)
        /\ verts' = Strips!Rest(vs) /\ parity' = Strips!RestParity(vs)
    BY <1>4 DEF Strips!Continue
  <2>2. PICK q \in Int : q = k + max - 2
    BY <1>1
  <2>3. Kept(verts', parity', q, max) /\ Len(verts') = 2
    BY <1>4, <2>1, <2>2, SplitKept
  <2>4. drawn' = Committed(q)
    <3>1. Committed(k) \cup Strips!Triangles(vs) = Committed(k + Len(vs) - 2)
      BY CommittedMore
    <3> QED BY <1>4, <2>1, <2>2, <3>1
  <2>5. sent' - Len(verts') = q
    BY <1>1, <1>4, <2>2, <2>3
  <2>6. verts' # << >>
    BY <2>3
  <2> QED BY <1>1, <1>2, <2>3, <2>4, <2>5, <2>6 DEF StripKept
<1> QED BY <1>3, <1>4

(* The polygon with the vertex that comes next.                            *)
LEMMA NextVertex ==
  ASSUME StripInv, Strips!IsNormalPoly(type), taState \notin Halves,
         NEW us, us = Append(verts, Strips!Nth)
  PROVE  \E k \in Nat : /\ Kept(us, parity, k, max) /\ us # << >> /\ Len(us) <= max
                        /\ Strips!Before = Committed(k)
                        /\ Strips!Nth + 1 = k + Len(us)
<1>1. sent \in Nat /\ Full(max) /\ max \in Nat /\ max >= 3
  BY DEF StripInv, Full
<1>2. CASE verts = << >>
  <2>1. parity = 0 /\ Strips!Nth = 0 /\ Strips!Before = {}
    BY <1>2 DEF StripInv, Strips!Nth, Strips!Before
  <2>2. us = <<0>> /\ <<0>> \in Seq(Int) /\ Len(<<0>>) = 1 /\ <<0>>[1] = 0
    BY <1>2, <2>1
  <2>3. Kept(<<0>>, 0, 0, max)
    <3>1. Even(0)
      BY EvenOrOdd
    <3>2. InOrder(<<0>>, 0)
      BY <2>2, <3>1 DEF InOrder
    <3> QED BY <2>2, <3>2 DEF Kept
  <2>4. Committed(0) = {} /\ us # << >>
    BY <2>2, NoneKept
  <2>5. Kept(us, parity, 0, max)
    BY <2>1, <2>2, <2>3
  <2>6. Len(us) <= max /\ Strips!Before = Committed(0) /\ Strips!Nth + 1 = 0 + Len(us)
    <3>1. Len(us) = 1
      BY <2>2
    <3>2. Strips!Nth = 0 /\ 1 <= max /\ Strips!Before = Committed(0)
      BY <1>1, <2>1, <2>4
    <3> QED BY <3>1, <3>2
  <2> QED BY <2>4, <2>5, <2>6
<1>3. CASE verts # << >>
  <2>1. StripKept /\ Strips!Nth = sent /\ Strips!Before = drawn
    BY <1>3 DEF StripInv, Strips!Nth, Strips!Before
  <2>2. PICK k : k = sent - Len(verts)
    OBVIOUS
  <2>3. Kept(verts, parity, k, max) /\ drawn = Committed(k) /\ Len(verts) < max
    BY <2>1, <2>2 DEF StripKept
  <2>4. verts \in Seq(Int) /\ Len(verts) \in Nat /\ k \in Nat /\ sent = k + Len(verts)
    BY <1>1, <2>2, <2>3, KeptLength
  <2>5. Kept(us, parity, k, max)
    BY <2>1, <2>3, <2>4, AppendKept
  <2>6. Len(us) = Len(verts) + 1 /\ us # << >>
    BY <2>4
  <2> QED BY <1>1, <2>1, <2>3, <2>4, <2>5, <2>6
<1> QED BY <1>2, <1>3

LEMMA StripKeeps == Strips!Spec => []Strips!StripIsDrawn
<1>1. Strips!Init => StripInv
  BY DEF Strips!Init, StripInv, Full, Strips!IsNormalPoly
<1>2. StripInv /\ [Strips!Next]_(Strips!vars) => StripInv'
  <2> SUFFICES ASSUME StripInv, [Strips!Next]_(Strips!vars) PROVE StripInv'
    OBVIOUS
  <2>1. sent \in Nat /\ Full(max)
    BY DEF StripInv
  <2>2. CASE UNCHANGED Strips!vars
    BY <2>2 DEF Strips!vars, StripInv, StripKept, Strips!IsNormalPoly
  <2>3. CASE Strips!TaInit
    BY <2>3 DEF Strips!TaInit, StripInv, Full, Strips!IsNormalPoly
  <2>4. CASE Strips!EndList
    BY <2>1, <2>4 DEF Strips!EndList, StripInv, Strips!IsNormalPoly
  <2>5. ASSUME taState \notin Halves, taState' \notin Halves,
               UNCHANGED <<type, max, verts, parity, sent, drawn>>
        PROVE  StripInv'
    BY <2>5 DEF StripInv, StripKept, Strips!IsNormalPoly
  <2>6. CASE Strips!PolygonBlock2
    BY <2>5, <2>6 DEF Strips!PolygonBlock2, Halves
  <2>7. ASSUME NEW l, Strips!SpriteContext(l) PROVE StripInv'
    <3>1. type' = "sprite" /\ sent' = 0 /\ max' = 4
      BY <2>7 DEF Strips!SpriteContext
    <3>2. Full(4)
      BY EvenOrOdd DEF Full
    <3> QED BY <3>1, <3>2 DEF StripInv, Strips!IsNormalPoly
  <2>8. ASSUME NEW l, NEW t, NEW n \in Lengths \cup {0}, NEW two,
               Strips!PolygonContext(l, t, n, two)
        PROVE  StripInv'
    <3>1. CASE verts # << >>
      <4>1. taState \notin Halves /\ taState' \notin Halves
        BY <2>8, <3>1 DEF Strips!PolygonContext, Strips!Commands, Strips!Opened, Halves
      <4> QED BY <2>5, <2>8, <3>1, <4>1 DEF Strips!PolygonContext
    <3>2. CASE verts = << >> /\ list' = "modifier"
      <4>1. type' = "volume" /\ sent' = 0 /\ max' = 3
        BY <2>8, <3>2 DEF Strips!PolygonContext, Strips!MODIFIER
      <4> QED BY <4>1 DEF StripInv, Full, Strips!IsNormalPoly
    <3>3. CASE verts = << >> /\ list' # "modifier"
      <4>1. verts' = << >> /\ parity' = 0 /\ sent' = 0
            /\ max' = IF n = 0 THEN max ELSE n
        BY <2>8, <3>3 DEF Strips!PolygonContext, Strips!MODIFIER
      <4>2. n # 0 => Full(n)
        BY LengthsAssumption, EvenOrOdd DEF Strips!StripAssumption, Full
      <4> QED BY <2>1, <4>1, <4>2 DEF StripInv
    <3> QED BY <3>1, <3>2, <3>3
  <2>9. ASSUME NEW vs, NEW ts, Strips!End(vs, ts), max' = max, sent' \in Nat
        PROVE  StripInv'
    BY <2>1, <2>9 DEF Strips!End, StripInv
  <2>10. ASSUME NEW vs, NEW ts, NEW k \in Nat, Strips!Continue(vs, ts),
                Kept(vs, parity, k, max), vs # << >>, Len(vs) <= max, ts = Committed(k),
                Strips!IsNormalPoly(type), type' = type, max' = max,
                sent' = k + Len(vs)
         PROVE  StripInv'
    <3>1. verts' # << >> /\ StripKept'
      BY <2>1, <2>10, ContinueKeeps
    <3>2. sent' \in Nat
      BY <2>10, KeptLength
    <3> QED BY <2>1, <2>10, <3>1, <3>2 DEF StripInv
  <2>11. ASSUME NEW end \in BOOLEAN, Strips!Vertex(end) PROVE StripInv'
    <3>1. /\ taState \notin Halves /\ Strips!IsNormalPoly(type)
          /\ type' = type /\ max' = max /\ sent' = Strips!Nth + 1
      BY <2>11 DEF Strips!Vertex, Strips!Commands, Halves, Strips!IsNormalPoly
    <3>2. Strips!Nth \in Nat
      BY <2>1 DEF Strips!Nth
    <3>3. PICK us : us = Append(verts, Strips!Nth)
      OBVIOUS
    <3>4. CASE end
      BY <2>9, <2>11, <3>1, <3>2, <3>4 DEF Strips!Vertex
    <3>5. CASE ~end
      <4>1. Strips!Continue(us, Strips!Before)
        BY <2>11, <3>3, <3>5 DEF Strips!Vertex
      <4>2. PICK k \in Nat : /\ Kept(us, parity, k, max) /\ us # << >> /\ Len(us) <= max
                             /\ Strips!Before = Committed(k)
                             /\ Strips!Nth + 1 = k + Len(us)
        BY <3>1, <3>3, NextVertex
      <4> QED BY <2>10, <3>1, <4>1, <4>2
    <3> QED BY <3>4, <3>5
  <2>12. ASSUME NEW end \in BOOLEAN, Strips!VertexBlock1(end) PROVE StripInv'
    <3>1. /\ taState \notin Halves /\ taState' \in Halves
          /\ type' = type /\ max' = max /\ sent' = Strips!Nth + 1 /\ parity' = parity
          /\ drawn' = Strips!Before
      BY <2>12 DEF Strips!VertexBlock1, Strips!Commands, Halves
    <3>2. Strips!Nth \in Nat /\ sent' \in Nat
      BY <2>1, <3>1 DEF Strips!Nth
    <3>3. CASE ~Strips!IsNormalPoly(type)
      BY <2>1, <3>1, <3>2, <3>3 DEF StripInv, Strips!IsNormalPoly
    <3>4. CASE Strips!IsNormalPoly(type)
      <4>1. verts' = Append(verts, Strips!Nth)
        BY <2>12, <3>4 DEF Strips!VertexBlock1, Strips!IsNormalPoly
      <4>2. PICK k \in Nat : /\ Kept(verts', parity, k, max) /\ verts' # << >>
                             /\ Len(verts') <= max /\ Strips!Before = Committed(k)
                             /\ Strips!Nth + 1 = k + Len(verts')
        BY <3>1, <3>4, <4>1, NextVertex
      <4>3. Len(verts') \in Nat
        BY <4>2, KeptLength
      <4>4. sent' - Len(verts') = k
        BY <3>1, <4>2, <4>3
      <4>5. StripKept'
        BY <3>1, <4>2, <4>4 DEF StripKept
      <4> QED BY <2>1, <3>1, <3>2, <4>2, <4>5 DEF StripInv
    <3> QED BY <3>3, <3>4
  <2>13. CASE Strips!VertexBlock2
    <3>1. type' = type /\ max' = max /\ sent' = sent /\ taState \in Halves
      BY <2>13 DEF Strips!VertexBlock2, Halves
    <3>2. PICK vs : /\ vs = IF type = "sprite" THEN Append(verts, 3) ELSE verts
                    /\ Strips!Continue(vs, drawn) \/ Strips!End(vs, drawn)
      BY <2>13 DEF Strips!VertexBlock2
    <3>3. CASE Strips!End(vs, drawn)
      BY <2>1, <2>9, <3>1, <3>3
    <3>4. CASE Strips!Continue(vs, drawn) /\ ~Strips!IsNormalPoly(type)
      BY <2>1, <3>1, <3>4 DEF StripInv, Strips!IsNormalPoly
    <3>5. CASE Strips!Continue(vs, drawn) /\ Strips!IsNormalPoly(type) /\ verts = << >>
      <4>1. vs = << >> /\ parity = 0 /\ max # 0
        BY <2>1, <3>2, <3>5 DEF StripInv, Strips!IsNormalPoly, Full
      <4>2. verts' = << >> /\ parity' = 0
        BY <3>5, <4>1 DEF Strips!Continue
      <4> QED BY <2>1, <3>1, <4>2 DEF StripInv
    <3>6. CASE Strips!Continue(vs, drawn) /\ Strips!IsNormalPoly(type) /\ verts # << >>
      <4>1. StripKept /\ vs = verts
        BY <3>2, <3>6 DEF StripInv, Strips!IsNormalPoly
      <4>2. PICK k : k = sent - Len(verts)
        OBVIOUS
      <4>3. Kept(vs, parity, k, max) /\ drawn = Committed(k) /\ Len(vs) <= max
        BY <3>1, <4>1, <4>2 DEF StripKept
      <4>4. k \in Nat /\ sent' = k + Len(vs)
        BY <2>1, <3>1, <4>1, <4>2, <4>3, KeptLength
      <4> QED BY <2>10, <3>1, <3>6, <4>1, <4>3, <4>4
    <3> QED BY <3>2, <3>3, <3>4, <3>5, <3>6
  <2> QED BY <2>2, <2>3, <2>4, <2>6, <2>7, <2>8, <2>11, <2>12, <2>13 DEF Strips!Next
<1>3. StripInv => Strips!StripIsDrawn
  BY StripIsWhole DEF StripInv, Strips!StripIsDrawn
<1> QED BY <1>1, <1>2, <1>3, PTL DEF Strips!Spec

-----------------------------------------------------------------------------
(* The lists of slots.  A list holds the slots S, each once.               *)
Named(q) == {q[i] : i \in 1 .. Len(q)}

Lists(q, S) ==
  /\ q \in Seq(Textures!Slots)
  /\ Named(q) = S
  /\ \A i, j \in 1 .. Len(q) : q[i] = q[j] => i = j

Before(q, a, b) == \E i, j \in 1 .. Len(q) : i < j /\ q[i] = a /\ q[j] = b

LEMMA ListFacts ==
  ASSUME NEW q, NEW S, Lists(q, S)
  PROVE  /\ q \in Seq(Textures!Slots) /\ Len(q) \in Nat
         /\ S \subseteq Textures!Slots
         /\ \A i \in 1 .. Len(q) : q[i] \in S
         /\ \A s \in S : \E i \in 1 .. Len(q) : q[i] = s
BY DEF Lists, Named

LEMMA ListAppend ==
  ASSUME NEW q, NEW S, Lists(q, S), NEW s \in Textures!Slots \ S
  PROVE  /\ Lists(Append(q, s), S \cup {s})
         /\ \A a, b : Before(Append(q, s), a, b) => Before(q, a, b) \/ (a \in S /\ b = s)
<1>1. PICK n \in Nat : n = Len(q) /\ q \in Seq(Textures!Slots)
  BY ListFacts
<1>2. PICK u : u = Append(q, s)
  OBVIOUS
<1>3. /\ u \in Seq(Textures!Slots) /\ Len(u) = n + 1 /\ u[n + 1] = s
      /\ \A i \in 1 .. n : u[i] = q[i]
  BY <1>1, <1>2
<1>4. \A i \in 1 .. n : u[i] \in S /\ u[i] # s
  BY <1>1, <1>3, ListFacts
<1>5. Named(u) = S \cup {s}
  <2>1. ASSUME NEW x \in S PROVE x \in Named(u)
    <3>1. PICK i \in 1 .. n : q[i] = x
      BY <1>1, <2>1, ListFacts
    <3> QED BY <1>3, <3>1 DEF Named
  <2>2. ASSUME NEW i \in 1 .. n + 1 PROVE u[i] \in S \cup {s}
    BY <1>3, <1>4
  <2>3. s \in Named(u)
    BY <1>3 DEF Named
  <2> QED BY <1>3, <2>1, <2>2, <2>3 DEF Named
<1>6. ASSUME NEW i \in 1 .. n + 1, NEW j \in 1 .. n + 1, u[i] = u[j] PROVE i = j
  <2>1. i \in 1 .. n /\ j \in 1 .. n => i = j
    BY <1>1, <1>3, <1>6 DEF Lists
  <2> QED BY <1>3, <1>4, <1>6, <2>1
<1>7. ASSUME NEW a, NEW b, Before(u, a, b) PROVE Before(q, a, b) \/ (a \in S /\ b = s)
  <2>1. PICK i \in 1 .. n + 1, j \in 1 .. n + 1 : i < j /\ u[i] = a /\ u[j] = b
    BY <1>3, <1>7 DEF Before
  <2>2. i \in 1 .. n
    BY <2>1
  <2>3. CASE j \in 1 .. n
    BY <1>1, <1>3, <2>1, <2>2, <2>3 DEF Before
  <2>4. CASE j = n + 1
    BY <1>3, <1>4, <2>1, <2>2, <2>4
  <2> QED BY <2>3, <2>4
<1> QED BY <1>2, <1>3, <1>5, <1>6, <1>7 DEF Lists

LEMMA ListConcat ==
  ASSUME NEW q, NEW S, Lists(q, S), NEW p, NEW R, Lists(p, R), S \cap R = {}
  PROVE  Lists(q \o p, S \cup R)
<1>1. PICK n \in Nat, m \in Nat : /\ n = Len(q) /\ q \in Seq(Textures!Slots)
                                  /\ m = Len(p) /\ p \in Seq(Textures!Slots)
  BY ListFacts
<1>2. PICK u : u = q \o p
  OBVIOUS
<1>3. /\ u \in Seq(Textures!Slots) /\ Len(u) = n + m
      /\ \A i \in 1 .. n + m : u[i] = IF i <= n THEN q[i] ELSE p[i - n]
  BY <1>1, <1>2
<1>4. ASSUME NEW i \in 1 .. n + m
      PROVE  IF i <= n THEN i \in 1 .. n /\ u[i] = q[i] /\ u[i] \in S
             ELSE i - n \in 1 .. m /\ u[i] = p[i - n] /\ u[i] \in R
  <2>1. CASE i <= n
    BY <1>1, <1>3, <2>1, ListFacts
  <2>2. CASE ~(i <= n)
    <3>1. PICK j \in 1 .. m : j = i - n
      BY <2>2
    <3>2. u[i] = p[j] /\ p[j] \in R
      BY <1>1, <1>3, <2>2, <3>1, ListFacts
    <3> QED BY <2>2, <3>1, <3>2
  <2> QED BY <2>1, <2>2
<1>5. Named(u) = S \cup R
  <2>1. ASSUME NEW x \in S PROVE x \in Named(u)
    <3>1. PICK i \in 1 .. n : q[i] = x
      BY <1>1, ListFacts
    <3>2. i \in 1 .. n + m /\ i <= n /\ u[i] = q[i]
      BY <1>3
    <3> QED BY <1>3, <3>1, <3>2 DEF Named
  <2>2. ASSUME NEW x \in R PROVE x \in Named(u)
    <3>1. PICK i \in 1 .. m : p[i] = x
      BY <1>1, ListFacts
    <3>2. PICK j \in 1 .. n + m : j = n + i /\ ~(j <= n) /\ j - n = i
      OBVIOUS
    <3>3. u[j] = x
      BY <1>3, <3>1, <3>2
    <3> QED BY <1>3, <3>3 DEF Named
  <2>3. \A i \in 1 .. n + m : u[i] \in S \cup R
    BY <1>4
  <2> QED BY <1>3, <2>1, <2>2, <2>3 DEF Named
<1>6. ASSUME NEW i \in 1 .. n + m, NEW j \in 1 .. n + m, u[i] = u[j] PROVE i = j
  <2>1. CASE i <= n /\ j <= n
    BY <1>1, <1>4, <1>6, <2>1 DEF Lists
  <2>2. CASE ~(i <= n) /\ ~(j <= n)
    <3>1. PICK a \in 1 .. m, b \in 1 .. m : a = i - n /\ b = j - n
      BY <1>4, <2>2
    <3>2. p[a] = p[b]
      BY <1>4, <1>6, <2>2, <3>1
    <3>3. a = b
      BY <1>1, <3>2 DEF Lists
    <3> QED BY <3>1, <3>3
  <2> QED BY <1>4, <1>6, <2>1, <2>2
<1> QED BY <1>2, <1>3, <1>5, <1>6 DEF Lists

LEMMA ListReverse ==
  ASSUME NEW q, NEW S, Lists(q, S)
  PROVE  Lists(Textures!Reverse(q), S)
<1>1. PICK n \in Nat : n = Len(q) /\ q \in Seq(Textures!Slots)
  BY ListFacts
<1>2. PICK u : u = Textures!Reverse(q)
  OBVIOUS
<1>3. /\ u = [i \in 1 .. n |-> q[(n - i) + 1]]
  BY <1>1, <1>2 DEF Textures!Reverse
<1>4. ASSUME NEW i \in 1 .. n
      PROVE  (n - i) + 1 \in 1 .. n /\ u[i] = q[(n - i) + 1] /\ q[(n - i) + 1] \in S
  <2>1. PICK j \in 1 .. n : j = (n - i) + 1
    OBVIOUS
  <2>2. q[j] \in S /\ u[i] = q[j]
    BY <1>1, <1>3, <2>1, ListFacts
  <2> QED BY <2>1, <2>2
<1>5. u \in Seq(Textures!Slots) /\ Len(u) = n
  <2>1. \A i \in 1 .. n : u[i] \in Textures!Slots
    BY <1>4, ListFacts
  <2> QED BY <1>3, <2>1
<1>6. Named(u) = S
  <2>1. ASSUME NEW x \in S PROVE x \in Named(u)
    <3>1. PICK i \in 1 .. n : q[i] = x
      BY <1>1, ListFacts
    <3>2. PICK j \in 1 .. n : j = (n - i) + 1 /\ (n - j) + 1 = i
      OBVIOUS
    <3>3. u[j] = x
      BY <1>3, <3>1, <3>2
    <3> QED BY <1>5, <3>3 DEF Named
  <2> QED BY <1>4, <1>5, <2>1 DEF Named
<1>7. ASSUME NEW i \in 1 .. n, NEW j \in 1 .. n, u[i] = u[j] PROVE i = j
  <2>1. PICK a \in 1 .. n, b \in 1 .. n : a = (n - i) + 1 /\ b = (n - j) + 1
    BY <1>4
  <2>2. q[a] = q[b]
    BY <1>4, <1>7, <2>1
  <2>3. a = b
    BY <1>1, <2>2 DEF Lists
  <2> QED BY <2>1, <2>3
<1> QED BY <1>2, <1>5, <1>6, <1>7 DEF Lists

LEMMA ListTail ==
  ASSUME NEW q, NEW S, Lists(q, S), q # << >>
  PROVE  Head(q) \in S /\ Lists(Tail(q), S \ {Head(q)})
<1>1. PICK n \in Nat : n = Len(q) /\ q \in Seq(Textures!Slots) /\ n >= 1
  BY ListFacts
<1>2. PICK u, h : u = Tail(q) /\ h = Head(q)
  OBVIOUS
<1>3. /\ u \in Seq(Textures!Slots) /\ Len(u) = n - 1 /\ h = q[1]
      /\ \A i \in 1 .. n - 1 : u[i] = q[i + 1]
  BY <1>1, <1>2
<1>4. h \in S
  BY <1>1, <1>3, ListFacts
<1>5. ASSUME NEW i \in 1 .. n - 1 PROVE i + 1 \in 1 .. n /\ u[i] = q[i + 1] /\ u[i] \in S \ {h}
  <2>1. PICK j \in 1 .. n : j = i + 1 /\ j # 1
    OBVIOUS
  <2>2. u[i] = q[j] /\ q[j] \in S
    BY <1>1, <1>3, <2>1, ListFacts
  <2>3. q[j] # q[1]
    BY <1>1, <2>1 DEF Lists
  <2> QED BY <1>3, <2>1, <2>2, <2>3
<1>6. Named(u) = S \ {h}
  <2>1. ASSUME NEW x \in S \ {h} PROVE x \in Named(u)
    <3>1. PICK i \in 1 .. n : q[i] = x
      BY <1>1, ListFacts
    <3>2. PICK j \in 1 .. n - 1 : j + 1 = i
      <4>1. i # 1
        BY <1>3, <3>1
      <4>2. i - 1 \in 1 .. n - 1 /\ (i - 1) + 1 = i
        BY <4>1
      <4> QED BY <4>2
    <3>3. u[j] = x
      BY <1>3, <3>1, <3>2
    <3> QED BY <1>3, <3>3 DEF Named
  <2> QED BY <1>3, <1>5, <2>1 DEF Named
<1>7. ASSUME NEW i \in 1 .. n - 1, NEW j \in 1 .. n - 1, u[i] = u[j] PROVE i = j
  <2>1. PICK a \in 1 .. n, b \in 1 .. n : a = i + 1 /\ b = j + 1
    BY <1>5
  <2>2. q[a] = q[b]
    BY <1>5, <1>7, <2>1
  <2>3. a = b
    BY <1>1, <2>2 DEF Lists
  <2> QED BY <2>1, <2>3
<1> QED BY <1>2, <1>3, <1>4, <1>6, <1>7 DEF Lists

LEMMA ListNone == Lists(<< >>, {})
BY DEF Lists, Named

LEMMA ListOne ==
  ASSUME NEW s \in Textures!Slots PROVE Lists(<<s>>, {s})
BY DEF Lists, Named

LEMMA ListAll == Lists(Textures!Ascending, Textures!Slots)
<1>1. MAX_TEXTURES \in Nat \ {0}
  BY CacheAssumption DEF Textures!TexCacheAssumption
<1>2. PICK n, q : n \in Nat \ {0} /\ n = MAX_TEXTURES /\ q = Textures!Ascending
  BY <1>1
<1>3. q = [i \in 1 .. n |-> i - 1] /\ Textures!Slots = 0 .. n - 1
  BY <1>2 DEF Textures!Ascending, Textures!Slots
<1>4. q \in Seq(0 .. n - 1) /\ Len(q) = n /\ \A i \in 1 .. n : q[i] = i - 1
  BY <1>2, <1>3
<1>5. Named(q) = 0 .. n - 1
  <2>1. ASSUME NEW x \in 0 .. n - 1 PROVE x \in Named(q)
    <3>1. PICK i \in 1 .. n : i = x + 1 /\ i - 1 = x
      BY <1>2
    <3> QED BY <1>4, <3>1 DEF Named
  <2>2. \A i \in 1 .. n : q[i] \in 0 .. n - 1
    BY <1>4
  <2> QED BY <1>4, <2>1, <2>2 DEF Named
<1>6. ASSUME NEW i \in 1 .. n, NEW j \in 1 .. n, q[i] = q[j] PROVE i = j
  BY <1>4, <1>6
<1> QED BY <1>2, <1>3, <1>4, <1>5, <1>6 DEF Lists

(* The recursive function of Removed is one.                               *)
Sift(q, s, R) == IF s \in R THEN q ELSE Append(q, s)

LEMMA RemovalExists ==
  ASSUME NEW e, NEW q, NEW R, NEW n \in Nat
  PROVE  LET f == CHOOSE g : g = [i \in 0 .. n |-> IF i = 0 THEN e ELSE Sift(g[i - 1], q[i], R)]
         IN  f = [i \in 0 .. n |-> IF i = 0 THEN e ELSE Sift(f[i - 1], q[i], R)]
<1> DEFINE T == {k \in Nat : \E g : g = [i \in 0 .. k |->
                                          IF i = 0 THEN e ELSE Sift(g[i - 1], q[i], R)]}
<1>1. 0 \in T
  <2> DEFINE g == [i \in 0 .. 0 |-> e]
  <2>1. g = [i \in 0 .. 0 |-> IF i = 0 THEN e ELSE Sift(g[i - 1], q[i], R)]
    OBVIOUS
  <2> QED BY <2>1
<1>2. ASSUME NEW k \in Nat, k \in T
      PROVE  k + 1 \in T
  <2>1. PICK g : g = [i \in 0 .. k |-> IF i = 0 THEN e ELSE Sift(g[i - 1], q[i], R)]
    BY <1>2
  <2>2. PICK h : h = [i \in 0 .. k + 1 |-> IF i = k + 1 THEN Sift(g[k], q[i], R) ELSE g[i]]
    OBVIOUS
  <2>3. ASSUME NEW i \in 0 .. k + 1
        PROVE  h[i] = IF i = 0 THEN e ELSE Sift(h[i - 1], q[i], R)
    <3>1. CASE i = 0
      <4>1. h[i] = g[i] /\ g[i] = e
        BY <2>1, <2>2, <3>1
      <4> QED BY <3>1, <4>1
    <3>2. CASE i # 0 /\ i # k + 1
      <4>1. PICK j \in 0 .. k : j = i - 1
        BY <3>2
      <4>2. i \in 0 .. k /\ h[i] = g[i] /\ h[j] = g[j]
        BY <2>2, <3>2, <4>1
      <4>3. g[i] = Sift(g[i - 1], q[i], R)
        BY <2>1, <3>2, <4>2
      <4> QED BY <3>2, <4>1, <4>2, <4>3
    <3>3. CASE i = k + 1
      <4>1. PICK j \in 0 .. k : j = i - 1 /\ j = k
        BY <3>3
      <4>2. h[i] = Sift(g[k], q[i], R) /\ h[j] = g[k]
        BY <2>2, <3>3, <4>1
      <4> QED BY <3>3, <4>1, <4>2
    <3> QED BY <3>1, <3>2, <3>3
  <2>4. h = [i \in 0 .. k + 1 |-> IF i = 0 THEN e ELSE Sift(h[i - 1], q[i], R)]
    BY <2>2, <2>3
  <2> QED BY <2>4
<1>3. T \subseteq Nat
  OBVIOUS
<1> HIDE DEF T
<1>4. n \in T
  BY <1>1, <1>2, <1>3, AllNaturals
<1> QED BY <1>4 DEF T

(* What is left of a list has its order.                                   *)
LEMMA ListRemoved ==
  ASSUME NEW q, NEW S, Lists(q, S), NEW R
  PROVE  /\ Lists(Textures!Removed(q, R), S \ R)
         /\ \A a, b : Before(Textures!Removed(q, R), a, b) => Before(q, a, b)
<1>1. PICK n \in Nat : n = Len(q) /\ q \in Seq(Textures!Slots)
  BY ListFacts
<1> DEFINE of == CHOOSE g : g = [i \in 0 .. n |->
                                   IF i = 0 THEN << >> ELSE Sift(g[i - 1], q[i], R)]
<1>2. of = [i \in 0 .. n |-> IF i = 0 THEN << >> ELSE Sift(of[i - 1], q[i], R)]
  BY RemovalExists
<1>3. Textures!Removed(q, R) = of[n]
  BY <1>1 DEF Textures!Removed, Sift
<1> HIDE DEF of
<1> DEFINE First(k) == {q[i] : i \in 1 .. k}
           Precedes(k, a, b) == \E i, j \in 1 .. k : i < j /\ q[i] = a /\ q[j] = b
           T == {k \in Nat : k <= n => /\ Lists(of[k], First(k) \ R)
                                       /\ \A a, b : Before(of[k], a, b) => Precedes(k, a, b)}
<1>4. 0 \in T
  <2>1. of[0] = << >> /\ First(0) \ R = {}
    BY <1>2
  <2>2. \A a, b : ~Before(<< >>, a, b)
    BY DEF Before
  <2> QED BY <2>1, <2>2, ListNone
<1>5. ASSUME NEW k \in Nat, k \in T
      PROVE  k + 1 \in T
  <2> SUFFICES ASSUME k + 1 <= n
               PROVE  /\ Lists(of[k + 1], First(k + 1) \ R)
                      /\ \A a, b : Before(of[k + 1], a, b) => Precedes(k + 1, a, b)
    OBVIOUS
  <2>1. /\ Lists(of[k], First(k) \ R)
        /\ \A a, b : Before(of[k], a, b) => Precedes(k, a, b)
    BY <1>5
  <2>2. PICK m \in 1 .. n : m = k + 1 /\ m - 1 = k
    OBVIOUS
  <2>3. of[m] = IF q[m] \in R THEN of[k] ELSE Append(of[k], q[m])
    <3>1. m \in 0 .. n /\ m # 0
      BY <2>2
    <3>2. of[m] = IF q[m] \in R THEN of[m - 1] ELSE Append(of[m - 1], q[m])
      BY <1>2, <3>1 DEF Sift
    <3> QED BY <2>2, <3>2
  <2>4. First(m) = First(k) \cup {q[m]}
    <3>1. 1 .. m = (1 .. k) \cup {m}
      BY <2>2
    <3> QED BY <3>1
  <2>5. q[m] \in Textures!Slots /\ q[m] \notin First(k)
    BY <1>1, <2>2 DEF Lists
  <2>6. \A a, b : Precedes(k, a, b) => Precedes(m, a, b)
    BY <2>2
  <2>7. ASSUME NEW a \in First(k) PROVE Precedes(m, a, q[m])
    BY <2>2, <2>7
  <2>8. CASE q[m] \in R
    <3>1. First(m) \ R = First(k) \ R
      BY <2>4, <2>8
    <3> HIDE DEF First, Precedes
    <3> QED BY <2>1, <2>2, <2>3, <2>6, <2>8, <3>1
  <2>9. CASE q[m] \notin R
    <3>1. First(m) \ R = (First(k) \ R) \cup {q[m]} /\ q[m] \notin First(k) \ R
      BY <2>4, <2>5, <2>9
    <3> HIDE DEF First, Precedes
    <3>2. /\ Lists(Append(of[k], q[m]), (First(k) \ R) \cup {q[m]})
          /\ \A a, b : Before(Append(of[k], q[m]), a, b)
                         => Before(of[k], a, b) \/ (a \in First(k) \ R /\ b = q[m])
      BY <2>1, <2>5, <3>1, ListAppend
    <3> QED BY <2>1, <2>2, <2>3, <2>6, <2>7, <2>9, <3>1, <3>2
  <2> QED BY <2>8, <2>9
<1>6. T \subseteq Nat
  OBVIOUS
<1>7. n \in T
  <2> HIDE DEF T
  <2> QED BY <1>4, <1>5, <1>6, AllNaturals
<1>8. First(n) = S
  BY <1>1 DEF Lists, Named
<1>9. \A a, b : Precedes(n, a, b) => Before(q, a, b)
  BY <1>1 DEF Before
<1> HIDE DEF First, Precedes
<1> QED BY <1>3, <1>7, <1>8, <1>9

LEMMA ListTimes ==
  ASSUME NEW q, NEW S, Lists(q, S), NEW s
  PROVE  Cardinality({i \in DOMAIN q : q[i] = s}) = IF s \in S THEN 1 ELSE 0
<1>1. PICK n \in Nat : n = Len(q) /\ q \in Seq(Textures!Slots)
  BY ListFacts
<1>2. DOMAIN q = 1 .. n
  BY <1>1
<1>3. CASE s \in S
  <2>1. PICK i \in 1 .. n : q[i] = s
    BY <1>1, <1>3, ListFacts
  <2>2. {j \in DOMAIN q : q[j] = s} = {i}
    BY <1>1, <1>2, <2>1 DEF Lists
  <2> QED BY <1>3, <2>2, FS_Singleton
<1>4. CASE s \notin S
  <2>1. {j \in DOMAIN q : q[j] = s} = {}
    BY <1>1, <1>2, <1>4, ListFacts
  <2> QED BY <1>4, <2>1, FS_EmptySet
<1> QED BY <1>3, <1>4

(* The first of a list comes before the others.                            *)
LEMMA ListHead ==
  ASSUME NEW q, NEW S, Lists(q, S), NEW s \in S
  PROVE  q # << >> /\ Head(q) \in S /\ (s = Head(q) \/ Before(q, Head(q), s))
<1>1. PICK n \in Nat : n = Len(q) /\ q \in Seq(Textures!Slots)
  BY ListFacts
<1>2. PICK i \in 1 .. n : q[i] = s
  BY <1>1, ListFacts
<1>3. q # << >> /\ Head(q) = q[1] /\ 1 \in 1 .. n
  BY <1>1, <1>2
<1>4. q[1] \in S
  BY <1>1, <1>3, ListFacts
<1>5. CASE i = 1
  BY <1>2, <1>3, <1>4, <1>5
<1>6. CASE 1 < i
  BY <1>1, <1>2, <1>3, <1>4, <1>6 DEF Before
<1> QED BY <1>2, <1>5, <1>6

-----------------------------------------------------------------------------
(* The texture cache.  The slots of a scene are those used last, so that   *)
(* the slot used longest ago is none of them while there are others.       *)
Given == {x.slot : x \in scene}
Empty == Textures!NONE

TexTypes ==
  /\ tex \in [Textures!Slots -> Images \cup {Empty}]
  /\ page = [p \in Pages |-> page[p]]

SlotsListed ==
  /\ Lists(free, {s \in Textures!Slots : tex[s] = Empty})
  /\ \A p \in Pages : Lists(page[p], {s \in Textures!Slots : tex[s].page = p})
  /\ Lists(order, Textures!Slots)

TexturesOnce == \A a, b \in Textures!Slots : tex[a] = tex[b] /\ tex[a] # Empty => a = b

SceneKept ==
  drawing =>
    /\ \A x \in scene : x.slot \in Textures!Slots /\ x.texture \in Images /\ tex[x.slot] = x.texture
    /\ \A a, b : Before(order, a, b) /\ a \in Given => b \in Given

PaletteKept ==
  /\ shader \in BOOLEAN /\ valid \in BOOLEAN /\ storage \in BOOLEAN
  /\ changed \in BOOLEAN /\ replaced \in BOOLEAN /\ loaded \in BOOLEAN
  /\ drawing \in BOOLEAN
  /\ Textures!PaletteIsCurrent
  /\ shader /\ valid /\ storage /\ ~changed /\ ~replaced => loaded

SlotsInv == TexTypes /\ SlotsListed /\ TexturesOnce
TexInv == SlotsInv /\ SceneKept /\ PaletteKept

LEMMA ImageFacts ==
  /\ \A t \in Images : t.page \in Pages /\ t # Empty
  /\ \A p \in Pages : Empty.page # p
  /\ Empty.palette = FALSE /\ Empty.stride = FALSE
<1>1. \A t \in Images : t.page \in Pages
  BY CacheAssumption DEF Textures!TexCacheAssumption
<1>2. Pages \subseteq Nat
  BY CacheAssumption DEF Textures!TexCacheAssumption
<1>3. Empty.page = -1 /\ Empty.palette = FALSE /\ Empty.stride = FALSE
  BY DEF Empty, Textures!NONE
<1> QED BY <1>1, <1>2, <1>3

(* A flush.  (texcache_init, texcache_flush)                               *)
LEMMA AllFree ==
  ASSUME NEW te, te = [s \in Textures!Slots |-> Empty],
         NEW pa, pa = [p \in Pages |-> << >>]
  PROVE  /\ te \in [Textures!Slots -> Images \cup {Empty}]
         /\ pa = [p \in Pages |-> pa[p]]
         /\ Lists(Textures!Ascending, {s \in Textures!Slots : te[s] = Empty})
         /\ \A p \in Pages : Lists(pa[p], {s \in Textures!Slots : te[s].page = p})
         /\ \A a, b \in Textures!Slots : te[a] = te[b] /\ te[a] # Empty => a = b
<1>1. {s \in Textures!Slots : te[s] = Empty} = Textures!Slots
  OBVIOUS
<1>2. ASSUME NEW p \in Pages PROVE Lists(pa[p], {s \in Textures!Slots : te[s].page = p})
  <2>1. {s \in Textures!Slots : te[s].page = p} = {} /\ pa[p] = << >>
    BY ImageFacts
  <2> QED BY <2>1, ListNone
<1> QED BY <1>1, <1>2, ListAll

LEMMA FlushKeeps ==
  ASSUME Textures!Flush
  PROVE  SlotsInv'
<1>1. /\ tex' = [s \in Textures!Slots |-> Empty] /\ page' = [p \in Pages |-> << >>]
      /\ free' = Textures!Ascending /\ order' = Textures!Ascending
  BY DEF Textures!Flush, Empty
<1>2. /\ tex' \in [Textures!Slots -> Images \cup {Empty}]
      /\ page' = [p \in Pages |-> page'[p]]
      /\ Lists(Textures!Ascending, {s \in Textures!Slots : tex'[s] = Empty})
      /\ \A p \in Pages : Lists(page'[p], {s \in Textures!Slots : tex'[s].page = p})
      /\ \A a, b \in Textures!Slots : tex'[a] = tex'[b] /\ tex'[a] # Empty => a = b
  BY <1>1, AllFree, ZenonT(60)
<1>3. Lists(order', Textures!Slots)
  BY <1>1, ListAll
<1> QED BY <1>1, <1>2, <1>3 DEF SlotsInv, TexTypes, SlotsListed, TexturesOnce

(* Slots are given back.  (texcache_evict)                                 *)
LEMMA ReleaseKeeps ==
  ASSUME SlotsInv, NEW S \in SUBSET Textures!Slots, \A s \in S : tex[s] # Empty,
         Textures!Release(S)
  PROVE  SlotsInv'
<1>1. /\ tex' = [s \in Textures!Slots |-> IF s \in S THEN Empty ELSE tex[s]]
      /\ page' = [p \in Pages |-> Textures!Removed(page[p], S)]
      /\ free' = Textures!Reverse(Textures!Removed(Textures!Ascending, Textures!Slots \ S)) \o free
      /\ order' = order
  BY DEF Textures!Release, Textures!Without, Textures!Freed, Empty
<1>2. TexTypes /\ SlotsListed /\ TexturesOnce
  BY DEF SlotsInv
<1>3. TexTypes'
  BY <1>1, <1>2 DEF TexTypes
<1>4. TexturesOnce'
  BY <1>1, <1>2 DEF TexturesOnce
<1>5. Lists(free', {s \in Textures!Slots : tex'[s] = Empty})
  <2>1. Lists(Textures!Removed(Textures!Ascending, Textures!Slots \ S),
              Textures!Slots \ (Textures!Slots \ S))
    BY ListAll, ListRemoved
  <2>2. Textures!Slots \ (Textures!Slots \ S) = S
    OBVIOUS
  <2>3. Lists(Textures!Reverse(Textures!Removed(Textures!Ascending, Textures!Slots \ S)), S)
    BY <2>1, <2>2, ListReverse
  <2>4. Lists(free, {s \in Textures!Slots : tex[s] = Empty})
    BY <1>2 DEF SlotsListed
  <2>5. S \cap {s \in Textures!Slots : tex[s] = Empty} = {}
    OBVIOUS
  <2>6. S \cup {s \in Textures!Slots : tex[s] = Empty}
          = {s \in Textures!Slots : tex'[s] = Empty}
    BY <1>1
  <2>7. Lists(Textures!Reverse(Textures!Removed(Textures!Ascending, Textures!Slots \ S)) \o free,
              S \cup {s \in Textures!Slots : tex[s] = Empty})
    BY <2>3, <2>4, <2>5, ListConcat
  <2> QED BY <1>1, <2>6, <2>7
<1>6. ASSUME NEW p \in Pages
      PROVE  Lists(page'[p], {s \in Textures!Slots : tex'[s].page = p})
  <2>1. Lists(page[p], {s \in Textures!Slots : tex[s].page = p})
    BY <1>2 DEF SlotsListed
  <2>2. Lists(Textures!Removed(page[p], S), {s \in Textures!Slots : tex[s].page = p} \ S)
    BY <2>1, ListRemoved
  <2>3. {s \in Textures!Slots : tex[s].page = p} \ S
          = {s \in Textures!Slots : tex'[s].page = p}
    BY <1>1, ImageFacts
  <2> QED BY <1>1, <2>2, <2>3
<1>7. Lists(order', Textures!Slots)
  BY <1>1, <1>2 DEF SlotsListed
<1> QED BY <1>3, <1>4, <1>5, <1>6, <1>7 DEF SlotsInv, SlotsListed

(* The slots of a page are.  (texcache_invalidate_page)                    *)
LEMMA InvalidateKeeps ==
  ASSUME SlotsInv, NEW p \in Pages, Textures!InvalidatePage(p)
  PROVE  SlotsInv'
<1>1. /\ tex' = [s \in Textures!Slots |-> IF tex[s].page = p THEN Empty ELSE tex[s]]
      /\ page' = [page EXCEPT ![p] = << >>]
      /\ free' = Textures!Reverse(page[p]) \o free
      /\ order' = order
  BY DEF Textures!InvalidatePage, Textures!Freed, Empty
<1>2. TexTypes /\ SlotsListed /\ TexturesOnce
  BY DEF SlotsInv
<1>3. TexTypes'
  BY <1>1, <1>2 DEF TexTypes
<1>4. TexturesOnce'
  BY <1>1, <1>2 DEF TexturesOnce
<1>5. Lists(free', {s \in Textures!Slots : tex'[s] = Empty})
  <2>1. Lists(page[p], {s \in Textures!Slots : tex[s].page = p})
    BY <1>2 DEF SlotsListed
  <2>2. Lists(Textures!Reverse(page[p]), {s \in Textures!Slots : tex[s].page = p})
    BY <2>1, ListReverse
  <2>3. Lists(free, {s \in Textures!Slots : tex[s] = Empty})
    BY <1>2 DEF SlotsListed
  <2>4. {s \in Textures!Slots : tex[s].page = p} \cap {s \in Textures!Slots : tex[s] = Empty} = {}
    BY ImageFacts
  <2>5. {s \in Textures!Slots : tex[s].page = p} \cup {s \in Textures!Slots : tex[s] = Empty}
          = {s \in Textures!Slots : tex'[s] = Empty}
    BY <1>1
  <2>6. Lists(Textures!Reverse(page[p]) \o free,
              {s \in Textures!Slots : tex[s].page = p}
                \cup {s \in Textures!Slots : tex[s] = Empty})
    BY <2>2, <2>3, <2>4, ListConcat
  <2> QED BY <1>1, <2>5, <2>6
<1>6. ASSUME NEW o \in Pages
      PROVE  Lists(page'[o], {s \in Textures!Slots : tex'[s].page = o})
  <2>1. CASE o = p
    <3>1. {s \in Textures!Slots : tex'[s].page = o} = {}
      BY <1>1, <2>1, ImageFacts
    <3>2. page'[o] = << >>
      BY <1>1, <1>2, <2>1 DEF TexTypes
    <3> QED BY <3>1, <3>2, ListNone
  <2>2. CASE o # p
    <3>1. {s \in Textures!Slots : tex'[s].page = o} = {s \in Textures!Slots : tex[s].page = o}
      BY <1>1, <2>2, ImageFacts
    <3>2. page'[o] = page[o]
      BY <1>1, <1>2, <2>2 DEF TexTypes
    <3> QED BY <1>2, <3>1, <3>2 DEF SlotsListed
  <2> QED BY <2>1, <2>2
<1>7. Lists(order', Textures!Slots)
  BY <1>1, <1>2 DEF SlotsListed
<1> QED BY <1>3, <1>4, <1>5, <1>6, <1>7 DEF SlotsInv, SlotsListed

(* A slot that is used goes behind the others, which keep their order.     *)
LEMMA UsedFacts ==
  ASSUME Lists(order, Textures!Slots), NEW s \in Textures!Slots
  PROVE  /\ Lists(Textures!Used(s), Textures!Slots)
         /\ \A a, b : Before(Textures!Used(s), a, b) => b = s \/ (a # s /\ Before(order, a, b))
<1>1. PICK q : q = Textures!Removed(order, {s})
  OBVIOUS
<1>2. Lists(q, Textures!Slots \ {s}) /\ \A a, b : Before(q, a, b) => Before(order, a, b)
  BY <1>1, ListRemoved
<1>3. Textures!Used(s) = Append(q, s)
  BY <1>1 DEF Textures!Used
<1>4. /\ Lists(Append(q, s), (Textures!Slots \ {s}) \cup {s})
      /\ \A a, b : Before(Append(q, s), a, b)
                     => Before(q, a, b) \/ (a \in Textures!Slots \ {s} /\ b = s)
  <2>1. s \in Textures!Slots \ (Textures!Slots \ {s})
    OBVIOUS
  <2> QED BY <1>2, <2>1, ListAppend
<1>5. (Textures!Slots \ {s}) \cup {s} = Textures!Slots
  OBVIOUS
<1>6. ASSUME NEW a, NEW b, Before(q, a, b) PROVE a # s
  <2>1. PICK i \in 1 .. Len(q) : q[i] = a
    BY <1>6 DEF Before
  <2>2. q[i] \in Textures!Slots \ {s}
    BY <1>2, ListFacts
  <2> QED BY <2>1, <2>2
<1> QED BY <1>2, <1>3, <1>4, <1>5, <1>6

(* The slot used longest ago has not been given to the scene, unless the   *)
(* scene has them all.  (texcache_evict_lru)                               *)
LEMMA OldestIsNotGiven ==
  ASSUME SlotsInv, SceneKept, drawing, NEW t,
         Cardinality({x.texture : x \in scene} \cup {t}) <= Cardinality(Textures!Slots),
         \A s \in Textures!Slots : tex[s] # t /\ tex[s] # Empty
  PROVE  Head(order) \in Textures!Slots /\ Head(order) \notin Given
<1>1. Lists(order, Textures!Slots) /\ TexturesOnce
  BY DEF SlotsInv, SlotsListed
<1>2. /\ \A x \in scene : x.slot \in Textures!Slots /\ tex[x.slot] = x.texture
      /\ \A a, b : Before(order, a, b) /\ a \in Given => b \in Given
  BY DEF SceneKept
<1>3. MAX_TEXTURES \in Nat \ {0}
  BY CacheAssumption DEF Textures!TexCacheAssumption
<1>4. 0 \in Textures!Slots
  BY <1>3 DEF Textures!Slots
<1>5. Head(order) \in Textures!Slots
  BY <1>1, <1>4, ListHead
<1> SUFFICES ASSUME Head(order) \in Given PROVE FALSE
  BY <1>5
<1>6. \A s \in Textures!Slots : s \in Given
  <2>1. ASSUME NEW s \in Textures!Slots PROVE s \in Given
    <3>1. s = Head(order) \/ Before(order, Head(order), s)
      BY <1>1, ListHead
    <3> QED BY <1>2, <3>1
  <2> QED BY <2>1
<1> DEFINE f == [s \in Textures!Slots |-> tex[s]]
           W == {x.texture : x \in scene}
<1>7. f \in [Textures!Slots -> W] /\ \A w \in W : \E s \in Textures!Slots : f[s] = w
  <2>1. ASSUME NEW s \in Textures!Slots PROVE tex[s] \in W
    <3>1. PICK x \in scene : x.slot = s
      BY <1>6 DEF Given
    <3> QED BY <1>2, <3>1
  <2>2. ASSUME NEW x \in scene PROVE \E s \in Textures!Slots : f[s] = x.texture
    BY <1>2
  <2> QED BY <2>1, <2>2
<1>8. \A a, b \in Textures!Slots : f[a] = f[b] => a = b
  BY <1>1 DEF TexturesOnce
<1>9. ExistsBijection(Textures!Slots, W)
  <2> HIDE DEF f, W
  <2> QED BY <1>7, <1>8 DEF ExistsBijection, Bijection, Injection, Surjection, IsInjective
<1>10. IsFiniteSet(Textures!Slots) /\ Cardinality(Textures!Slots) \in Nat
  BY <1>3, FS_Interval DEF Textures!Slots
<1>11. t \notin W
  BY <1>7
<1> HIDE DEF f, W
<1>12. IsFiniteSet(W) /\ Cardinality(W) = Cardinality(Textures!Slots)
  BY <1>9, <1>10, FS_Bijection
<1>13. Cardinality(W \cup {t}) = Cardinality(W) + 1
  BY <1>11, <1>12, FS_AddElement
<1>14. Cardinality(W \cup {t}) <= Cardinality(Textures!Slots)
  BY DEF W
<1> QED BY <1>10, <1>12, <1>13, <1>14

(* A texture goes into a slot.  (texcache_load_texture, of a texture that  *)
(* no slot holds)                                                          *)
LEMMA LoadKeeps ==
  ASSUME SlotsInv, NEW t \in Images, \A s \in Textures!Slots : tex[s] # t,
         NEW slot \in Textures!Slots,
         free # << >> => slot = Head(free),
         order' = Textures!Used(slot),
         tex' = [tex EXCEPT ![slot] = t],
         page' = [Textures!Without({slot}) EXCEPT ![t.page] = <<slot>> \o @],
         free' = IF free # << >> THEN Tail(free) ELSE free
  PROVE  SlotsInv'
<1>1. TexTypes /\ SlotsListed /\ TexturesOnce
  BY DEF SlotsInv
<1>2. /\ tex' \in [Textures!Slots -> Images \cup {Empty}] /\ tex'[slot] = t
      /\ \A s \in Textures!Slots : s # slot => tex'[s] = tex[s]
  BY <1>1 DEF TexTypes
<1>3. t # Empty /\ t.page \in Pages
  BY ImageFacts
<1> DEFINE Frees == {s \in Textures!Slots : tex[s] = Empty}
           Of(p) == {s \in Textures!Slots : tex[s].page = p}
<1>4. Lists(free', {s \in Textures!Slots : tex'[s] = Empty})
  <2>1. Lists(free, Frees)
    BY <1>1 DEF SlotsListed
  <2>2. {s \in Textures!Slots : tex'[s] = Empty} = Frees \ {slot}
    BY <1>2, <1>3
  <2>3. CASE free # << >>
    <3>1. Lists(Tail(free), Frees \ {Head(free)})
      BY <2>1, <2>3, ListTail
    <3> QED BY <2>2, <2>3, <3>1
  <2>4. CASE free = << >>
    <3>1. \A s \in Frees : FALSE
      BY <2>1, <2>4, ListHead
    <3>2. Frees \ {slot} = Frees
      BY <3>1
    <3> QED BY <2>1, <2>2, <2>4, <3>2
  <2> QED BY <2>3, <2>4
<1>5. ASSUME NEW p \in Pages
      PROVE  Lists(page'[p], {s \in Textures!Slots : tex'[s].page = p})
  <2>1. Lists(page[p], Of(p))
    BY <1>1 DEF SlotsListed
  <2>2. PICK q : q = Textures!Removed(page[p], {slot})
    OBVIOUS
  <2>3. Lists(q, Of(p) \ {slot})
    BY <2>1, <2>2, ListRemoved
  <2>4. page'[p] = IF p = t.page THEN <<slot>> \o q ELSE q
    BY <2>2 DEF Textures!Without
  <2>5. CASE p = t.page
    <3>1. Lists(<<slot>> \o q, {slot} \cup (Of(p) \ {slot}))
      BY <2>3, ListOne, ListConcat
    <3>2. {s \in Textures!Slots : tex'[s].page = p} = {slot} \cup (Of(p) \ {slot})
      BY <1>2, <2>5
    <3> QED BY <2>4, <2>5, <3>1, <3>2
  <2>6. CASE p # t.page
    <3>1. {s \in Textures!Slots : tex'[s].page = p} = Of(p) \ {slot}
      BY <1>2, <2>6
    <3> QED BY <2>3, <2>4, <2>6, <3>1
  <2> QED BY <2>5, <2>6
<1>6. TexturesOnce'
  BY <1>1, <1>2 DEF TexturesOnce
<1>7. Lists(order', Textures!Slots)
  BY <1>1, UsedFacts DEF SlotsListed
<1>8. page' = [p \in Pages |-> page'[p]]
  BY DEF Textures!Without
<1> QED BY <1>2, <1>4, <1>5, <1>6, <1>7, <1>8 DEF SlotsInv, TexTypes, SlotsListed

LEMMA Counts == \A S : Textures!Cardinality(S) = Cardinality(S)
BY Zenon DEF Textures!Cardinality, Cardinality

(* What a scene was given stays in its slot.  (texcache_get_texture)       *)
LEMMA GetKeeps ==
  ASSUME SlotsInv, SceneKept, NEW t \in Images, Textures!GetTexture(t)
  PROVE  SlotsInv' /\ SceneKept'
<1> DEFINE found == {s \in Textures!Slots : tex[s] = t}
<1>1. PICK slot :
        /\ slot = IF found # {} THEN CHOOSE s \in found : TRUE
                  ELSE IF free # << >> THEN Head(free) ELSE Head(order)
        /\ order' = Textures!OrderAfter(slot, found # {})
        /\ scene' = scene \cup {[texture |-> t, slot |-> slot]}
        /\ IF found # {} THEN UNCHANGED <<tex, page, free>>
           ELSE /\ tex' = [tex EXCEPT ![slot] = t]
                /\ page' = [Textures!Without({slot}) EXCEPT ![t.page] = <<slot>> \o @]
                /\ free' = IF free # << >> THEN Tail(free) ELSE free
  BY Zenon DEF Textures!GetTexture
<1>2. /\ drawing
      /\ Cardinality({x.texture : x \in scene} \cup {t}) <= Cardinality(Textures!Slots)
      /\ order' = Textures!Used(slot)
      /\ scene' = scene \cup {[texture |-> t, slot |-> slot]}
      /\ found # {} => tex' = tex /\ page' = page /\ free' = free
      /\ found = {} => /\ tex' = [tex EXCEPT ![slot] = t]
                       /\ page' = [Textures!Without({slot}) EXCEPT ![t.page] = <<slot>> \o @]
                       /\ free' = IF free # << >> THEN Tail(free) ELSE free
  <2>1. drawing /\ Cardinality({x.texture : x \in scene} \cup {t}) <= Cardinality(Textures!Slots)
    BY Counts DEF Textures!GetTexture
  <2>2. order' = Textures!Used(slot)
    BY <1>1 DEF Textures!OrderAfter
  <2> HIDE DEF found
  <2> QED BY <1>1, <2>1, <2>2
<1>3. TexTypes /\ SlotsListed /\ TexturesOnce
  BY DEF SlotsInv
<1>4. /\ \A x \in scene : x.slot \in Textures!Slots /\ x.texture \in Images
                            /\ tex[x.slot] = x.texture
      /\ \A a, b : Before(order, a, b) /\ a \in Given => b \in Given
  BY <1>2 DEF SceneKept
<1>5. /\ slot \in Textures!Slots
      /\ tex[slot] = t \/ slot \notin Given
      /\ found = {} /\ free # << >> => slot = Head(free)
  <2>1. CASE found # {}
    BY <1>1, <2>1
  <2>2. CASE found = {} /\ free # << >>
    <3>1. slot = Head(free)
      BY <1>1, <2>2
    <3>2. slot \in {s \in Textures!Slots : tex[s] = Empty}
      BY <1>3, <2>2, <3>1, ListTail DEF SlotsListed
    <3>3. slot \notin Given
      BY <1>4, <3>2, ImageFacts DEF Given
    <3> QED BY <3>1, <3>2, <3>3
  <2>3. CASE found = {} /\ free = << >>
    <3>1. \A s \in {s \in Textures!Slots : tex[s] = Empty} : FALSE
      BY <1>3, <2>3, ListHead DEF SlotsListed
    <3>2. \A s \in Textures!Slots : tex[s] # t /\ tex[s] # Empty
      BY <2>3, <3>1
    <3>3. Head(order) \in Textures!Slots /\ Head(order) \notin Given
      BY <1>2, <3>2, OldestIsNotGiven
    <3> QED BY <1>1, <2>3, <3>3
  <2> QED BY <2>1, <2>2, <2>3
<1>6. Lists(order, Textures!Slots)
  BY <1>3 DEF SlotsListed
<1>7. /\ Lists(Textures!Used(slot), Textures!Slots)
      /\ \A a, b : Before(Textures!Used(slot), a, b)
                     => b = slot \/ (a # slot /\ Before(order, a, b))
  BY <1>5, <1>6, UsedFacts
<1>8. SlotsInv'
  <2>1. CASE found # {}
    BY <1>2, <1>3, <1>7, <2>1 DEF SlotsInv, TexTypes, SlotsListed, TexturesOnce
  <2>2. CASE found = {}
    <3>1. \A s \in Textures!Slots : tex[s] # t
      BY <2>2
    <3> QED BY <1>2, <1>5, <2>2, <3>1, LoadKeeps
  <2> QED BY <2>1, <2>2
<1>9. tex'[slot] = t /\ \A s \in Textures!Slots : s # slot => tex'[s] = tex[s]
  <2>1. CASE found # {}
    BY <1>1, <1>2, <2>1
  <2>2. CASE found = {}
    BY <1>2, <1>3, <1>5, <2>2 DEF TexTypes
  <2> QED BY <2>1, <2>2
<1>10. ASSUME NEW x \in scene'
       PROVE  x.slot \in Textures!Slots /\ x.texture \in Images /\ tex'[x.slot] = x.texture
  <2>1. CASE x \in scene
    <3>1. x.slot \in Given
      BY <2>1 DEF Given
    <3>2. CASE x.slot = slot
      BY <1>4, <1>5, <1>9, <2>1, <3>1, <3>2
    <3>3. CASE x.slot # slot
      BY <1>4, <1>9, <2>1, <3>3
    <3> QED BY <3>2, <3>3
  <2>2. CASE x = [texture |-> t, slot |-> slot]
    BY <1>5, <1>9, <2>2
  <2> QED BY <1>2, <2>1, <2>2
<1>11. Given' = Given \cup {slot}
  <2>1. ASSUME NEW s \in Given' PROVE s \in Given \cup {slot}
    <3>1. PICK x \in scene' : s = x.slot
      BY <2>1 DEF Given
    <3>2. CASE x \in scene
      BY <3>1, <3>2 DEF Given
    <3>3. CASE x = [texture |-> t, slot |-> slot]
      BY <3>1, <3>3
    <3> QED BY <1>2, <3>2, <3>3
  <2>2. ASSUME NEW x \in scene PROVE x.slot \in Given'
    <3>1. x \in scene'
      BY <1>2
    <3> QED BY <3>1 DEF Given
  <2>3. slot \in Given'
    <3>1. PICK x : x = [texture |-> t, slot |-> slot]
      OBVIOUS
    <3>2. x \in scene' /\ x.slot = slot
      BY <1>2, <3>1
    <3> QED BY <3>2 DEF Given
  <2>4. Given \subseteq Given'
    BY <2>2 DEF Given
  <2> QED BY <2>1, <2>3, <2>4
<1>12. ASSUME NEW a, NEW b, Before(order', a, b), a \in Given' PROVE b \in Given'
  BY <1>2, <1>4, <1>7, <1>11, <1>12
<1> QED BY <1>8, <1>10, <1>12 DEF SceneKept

(* A scene begins with what is not stale.  (texcache_begin_scene)          *)
LEMMA BeginKeeps ==
  ASSUME TexInv, NEW m, NEW w, Textures!BeginScene(m, w)
  PROVE  TexInv'
<1>1. SlotsInv /\ PaletteKept
  BY DEF TexInv
<1>2. Textures!SceneSetup(m, w) /\ drawing' = TRUE /\ scene' = {} /\ shader' = shader
  BY DEF Textures!BeginScene
<1>3. SlotsInv'
  <2>1. PICK S : /\ S = {s \in Textures!Slots :
                           \/ Textures!Stale(m) /\ ~shader /\ tex[s].palette
                           \/ w /= stride /\ tex[s].stride}
                 /\ Textures!Release(S)
    BY <1>2 DEF Textures!SceneSetup
  <2>2. S \in SUBSET Textures!Slots
    BY <2>1
  <2>3. ASSUME NEW s \in S PROVE tex[s] # Empty
    BY <2>1, ImageFacts
  <2> QED BY <1>1, <2>1, <2>2, <2>3, ReleaseKeeps
<1>4. SceneKept'
  <2>1. Given' = {}
    BY <1>2 DEF Given
  <2> QED BY <1>2, <2>1 DEF SceneKept
<1>5. PaletteKept'
  <2>1. PICK load : /\ load = (shader /\ (changed \/ m /= mode \/ ~valid))
                    /\ storage' = (storage \/ (load /\ m /= mode))
                    /\ loaded' = IF load THEN storage' ELSE loaded
                    /\ valid' = (valid \/ load)
                    /\ replaced' = (replaced /\ ~load)
                    /\ mode' = m /\ changed' = FALSE
    BY <1>2 DEF Textures!SceneSetup, Textures!Stale
  <2> QED BY <1>1, <1>2, <2>1 DEF PaletteKept, Textures!PaletteIsCurrent
<1> QED BY <1>3, <1>4, <1>5 DEF TexInv

LEMMA CacheSteps ==
  ASSUME TexInv, [Textures!Next]_(Textures!vars)
  PROVE  TexInv'
<1>1. SlotsInv /\ SceneKept /\ PaletteKept
  BY DEF TexInv
<1>2. ASSUME UNCHANGED <<tex, page, free, order>> PROVE SlotsInv'
  BY <1>1, <1>2 DEF SlotsInv, TexTypes, SlotsListed, TexturesOnce
<1>3. CASE UNCHANGED Textures!vars
  <2>1. /\ UNCHANGED <<tex, page, free, order>> /\ drawing' = drawing /\ scene' = scene
        /\ UNCHANGED <<shader, mode, valid, changed, storage, loaded, replaced>>
    BY <1>3 DEF Textures!vars, Textures!slots, Textures!palette
  <2>2. Given' = Given
    BY <2>1 DEF Given
  <2>3. SceneKept'
    BY <1>1, <2>1, <2>2 DEF SceneKept
  <2>4. PaletteKept'
    BY <1>1, <2>1 DEF PaletteKept, Textures!PaletteIsCurrent
  <2> QED BY <1>2, <2>1, <2>3, <2>4 DEF TexInv
<1>4. CASE Textures!WritePalette
  <2>1. SlotsInv'
    BY <1>2, <1>4 DEF Textures!WritePalette, Textures!slots
  <2>2. SceneKept' /\ PaletteKept'
    BY <1>1, <1>4 DEF Textures!WritePalette, SceneKept, PaletteKept, Textures!PaletteIsCurrent
  <2> QED BY <2>1, <2>2 DEF TexInv
<1>5. CASE Textures!EndScene
  <2>1. SlotsInv'
    BY <1>2, <1>5 DEF Textures!EndScene, Textures!slots
  <2>2. SceneKept' /\ PaletteKept'
    BY <1>1, <1>5 DEF Textures!EndScene, Textures!palette, SceneKept, PaletteKept,
                      Textures!PaletteIsCurrent
  <2> QED BY <2>1, <2>2 DEF TexInv
<1>6. CASE Textures!Reset
  <2>1. SlotsInv'
    BY <1>6, FlushKeeps DEF Textures!Reset
  <2>2. SceneKept' /\ PaletteKept'
    BY <1>1, <1>6 DEF Textures!Reset, SceneKept, PaletteKept, Textures!PaletteIsCurrent
  <2> QED BY <2>1, <2>2 DEF TexInv
<1>7. CASE Textures!RestartGl
  <2>1. SlotsInv'
    BY <1>7, FlushKeeps DEF Textures!RestartGl
  <2>2. SceneKept' /\ PaletteKept'
    BY <1>1, <1>7 DEF Textures!RestartGl, SceneKept, PaletteKept, Textures!PaletteIsCurrent
  <2> QED BY <2>1, <2>2 DEF TexInv
<1>8. ASSUME NEW p \in Pages, Textures!WriteVram(p) PROVE TexInv'
  <2>1. SlotsInv'
    BY <1>1, <1>8, InvalidateKeeps DEF Textures!WriteVram
  <2>2. SceneKept' /\ PaletteKept'
    BY <1>1, <1>8 DEF Textures!WriteVram, Textures!palette, SceneKept, PaletteKept,
                      Textures!PaletteIsCurrent
  <2> QED BY <2>1, <2>2 DEF TexInv
<1>9. ASSUME NEW t \in Images, Textures!GetTexture(t) PROVE TexInv'
  <2>1. SlotsInv' /\ SceneKept'
    BY <1>1, <1>9, GetKeeps
  <2>2. PaletteKept'
    BY <1>1, <1>9 DEF Textures!GetTexture, Textures!palette, PaletteKept,
                      Textures!PaletteIsCurrent
  <2> QED BY <2>1, <2>2 DEF TexInv
<1>10. ASSUME NEW flag \in BOOLEAN, Textures!LoadState(flag) PROVE TexInv'
  <2>1. SlotsInv'
    BY <1>2, <1>10 DEF Textures!LoadState, Textures!slots
  <2>2. SceneKept' /\ PaletteKept'
    BY <1>1, <1>10 DEF Textures!LoadState, SceneKept, PaletteKept, Textures!PaletteIsCurrent
  <2> QED BY <2>1, <2>2 DEF TexInv
<1> QED
  BY <1>3, <1>4, <1>5, <1>6, <1>7, <1>8, <1>9, <1>10, BeginKeeps DEF Textures!Next

LEMMA CacheStarts == Textures!Init => TexInv
<1> SUFFICES ASSUME Textures!Init PROVE TexInv
  OBVIOUS
<1>1. /\ tex = [s \in Textures!Slots |-> Empty] /\ page = [p \in Pages |-> << >>]
      /\ free = Textures!Ascending /\ order = Textures!Ascending
  BY DEF Textures!Init, Empty
<1>2. SlotsInv
  <2>1. /\ tex \in [Textures!Slots -> Images \cup {Empty}]
        /\ page = [p \in Pages |-> page[p]]
        /\ Lists(Textures!Ascending, {s \in Textures!Slots : tex[s] = Empty})
        /\ \A p \in Pages : Lists(page[p], {s \in Textures!Slots : tex[s].page = p})
        /\ \A a, b \in Textures!Slots : tex[a] = tex[b] /\ tex[a] # Empty => a = b
    BY <1>1, AllFree, ZenonT(60)
  <2>2. Lists(order, Textures!Slots)
    BY <1>1, ListAll
  <2> QED BY <1>1, <2>1, <2>2 DEF SlotsInv, TexTypes, SlotsListed, TexturesOnce
<1>3. SceneKept /\ PaletteKept
  BY DEF Textures!Init, SceneKept, PaletteKept, Textures!PaletteIsCurrent
<1> QED BY <1>2, <1>3 DEF TexInv

LEMMA CacheHolds == TexInv => Textures!CacheTrue
<1> SUFFICES ASSUME SlotsInv, SceneKept, PaletteKept PROVE Textures!CacheTrue
  BY DEF TexInv
<1>1. SlotsListed /\ TexTypes
  BY DEF SlotsInv
<1>2. ASSUME NEW s \in Textures!Slots
      PROVE  /\ Textures!Cardinality({i \in DOMAIN free : free[i] = s})
                  = IF tex[s] = Empty THEN 1 ELSE 0
             /\ \A p \in Pages : Textures!Cardinality({i \in DOMAIN page[p] : page[p][i] = s})
                                   = IF tex[s].page = p THEN 1 ELSE 0
             /\ tex[s] # Empty => tex[s].page \in Pages
             /\ \A p \in Pages : tex[s] = Empty => tex[s].page # p
  <2>1. Cardinality({i \in DOMAIN free : free[i] = s}) = IF tex[s] = Empty THEN 1 ELSE 0
    BY <1>1, ListTimes, SMTT(30) DEF SlotsListed
  <2>2. ASSUME NEW p \in Pages
        PROVE  Cardinality({i \in DOMAIN page[p] : page[p][i] = s})
                 = IF tex[s].page = p THEN 1 ELSE 0
    <3>1. PICK S : S = {u \in Textures!Slots : tex[u].page = p}
      OBVIOUS
    <3>2. Lists(page[p], S)
      BY <1>1, <3>1 DEF SlotsListed
    <3>3. Cardinality({i \in DOMAIN page[p] : page[p][i] = s}) = IF s \in S THEN 1 ELSE 0
      BY <3>2, ListTimes
    <3>4. s \in S <=> tex[s].page = p
      BY <3>1
    <3> QED BY <3>3, <3>4
  <2>3. tex[s] # Empty => tex[s].page \in Pages
    BY <1>1, ImageFacts DEF TexTypes
  <2>4. \A p \in Pages : tex[s] = Empty => tex[s].page # p
    BY ImageFacts
  <2> QED BY <2>1, <2>2, <2>3, <2>4, Counts
<1>3. Textures!SlotsAccountedFor
  <2> DEFINE Times(q, s) == Textures!Cardinality({i \in DOMAIN q : q[i] = s})
             On(s) == {p \in Pages : Times(page[p], s) > 0}
  <2> SUFFICES ASSUME NEW s \in Textures!Slots
               PROVE  IF tex[s] = Empty THEN Times(free, s) = 1 /\ On(s) = {}
                      ELSE /\ Times(free, s) = 0 /\ On(s) = {tex[s].page}
                           /\ Times(page[tex[s].page], s) = 1
    BY Zenon DEF Textures!SlotsAccountedFor, Empty
  <2>1. /\ Times(free, s) = IF tex[s] = Empty THEN 1 ELSE 0
        /\ \A p \in Pages : Times(page[p], s) = IF tex[s].page = p THEN 1 ELSE 0
        /\ tex[s] # Empty => tex[s].page \in Pages
        /\ \A p \in Pages : tex[s] = Empty => tex[s].page # p
    BY <1>2
  <2> HIDE DEF Times
  <2>2. CASE tex[s] = Empty
    BY <2>1, <2>2
  <2>3. CASE tex[s] # Empty
    <3>1. On(s) = {tex[s].page}
      BY <2>1, <2>3
    <3> QED BY <2>1, <2>3, <3>1
  <2> QED BY <2>2, <2>3
<1>4. Textures!SceneKeepsTextures
  BY DEF SceneKept, Textures!SceneKeepsTextures
<1>5. Textures!PaletteIsCurrent
  BY DEF PaletteKept
<1> QED BY <1>3, <1>4, <1>5 DEF Textures!CacheTrue, Textures!CacheSound

LEMMA CacheKeeps == Textures!Spec => []Textures!CacheTrue
BY CacheStarts, CacheSteps, CacheHolds, PTL DEF Textures!Spec
-----------------------------------------------------------------------------
(* The sound chip.  A slice asks for as many samples as bring the count to *)
(* that of the time, which is the same count when a second is taken off    *)
(* both.                                                                   *)
ChipTypes ==
  /\ ns \in Nat /\ samples \in Int
  /\ span \in Slices \cup {0}
  /\ want \in Int /\ ran \in Nat /\ ran <= (IF span = 0 THEN 0 ELSE want)
  /\ pending \in BOOLEAN /\ fiq \in BOOLEAN /\ dropped \in BOOLEAN
  /\ behind \in BOOLEAN

ChipInv == ChipTypes /\ Chip!PaceExact /\ Chip!FiqExact /\ (dropped => pending)

LEMMA ChipFacts ==
  /\ RATE \in Nat \ {0} /\ SECOND \in Nat \ {0}
  /\ Slices \subseteq Nat \ {0}
BY ChipAssumption DEF Chip!AicaAssumption

(* Samples that are due by a time.                                         *)
LEMMA TargetFacts ==
  ASSUME NEW a \in Nat, NEW b \in Nat
  PROVE  /\ Chip!Target(a) \in Int /\ Chip!Target(0) = 0
         /\ a <= b => Chip!Target(a) <= Chip!Target(b)
         /\ Chip!Target(a + SECOND) = Chip!Target(a) + RATE
<1>1. PICK R \in Nat, S \in Nat \ {0} : R = RATE /\ S = SECOND
  BY ChipFacts
<1>2. PICK x \in Nat, y \in Nat : x = R * a /\ y = R * b
  <2>1. R * a \in Nat /\ R * b \in Nat
    OBVIOUS
  <2> QED BY <2>1
<1>3. PICK q \in Int, rest \in 0 .. S - 1 : q = x \div S /\ x = S * q + rest
  <2>1. x \div S \in Int /\ x % S \in 0 .. S - 1 /\ x = S * (x \div S) + (x % S)
    BY Divided
  <2> QED BY <2>1
<1>4. PICK p \in Int, t \in 0 .. S - 1 : p = y \div S /\ y = S * p + t
  <2>1. y \div S \in Int /\ y % S \in 0 .. S - 1 /\ y = S * (y \div S) + (y % S)
    BY Divided
  <2> QED BY <2>1
<1>5. Chip!Target(a) = q /\ Chip!Target(b) = p
  BY <1>1, <1>2, <1>3, <1>4 DEF Chip!Target
<1>6. Chip!Target(0) = 0
  <2>1. R * 0 = S * 0 + 0 /\ 0 \in 0 .. S - 1
    OBVIOUS
  <2> QED BY <1>1, <2>1, DividedUnique DEF Chip!Target
<1>7. ASSUME a <= b PROVE q <= p
  <2>1. x <= y
    BY <1>2, <1>7
  <2> SUFFICES ASSUME q >= p + 1 PROVE FALSE
    OBVIOUS
  <2>2. S * q >= S * (p + 1)
    OBVIOUS
  <2>3. S * (p + 1) = S * p + S /\ S * p \in Int /\ S * q \in Int
    OBVIOUS
  <2> QED BY <1>3, <1>4, <2>1, <2>2, <2>3
<1>8. Chip!Target(a + SECOND) = q + RATE
  <2>1. PICK u \in Int : u = q + R
    OBVIOUS
  <2>2. R * (a + S) = S * u + rest
    <3>1. R * (a + S) = R * a + R * S /\ S * u = S * q + S * R /\ R * S = S * R
      BY <2>1
    <3>2. R * S \in Int /\ S * q \in Int /\ R * a \in Int
      OBVIOUS
    <3> QED BY <1>2, <1>3, <3>1, <3>2
  <2>3. (S * u + rest) \div S = u
    BY DividedUnique
  <2> QED BY <1>1, <2>1, <2>2, <2>3 DEF Chip!Target
<1> QED BY <1>1, <1>3, <1>5, <1>6, <1>7, <1>8

(* What a slice leaves, whether or not it came to its end.                 *)
LEMMA SliceEnded ==
  ASSUME ChipInv, span # 0, Chip!EndSlice
  PROVE  /\ ns' \in Nat /\ samples' \in Int /\ span' = 0 /\ want' = 0 /\ ran' = 0
         /\ samples' <= Chip!Target(ns')
         /\ ran = want => samples' = Chip!Target(ns')
<1>1. /\ ns \in Nat /\ samples \in Int /\ span \in Nat \ {0} /\ want \in Int /\ ran \in Nat
      /\ ran <= want /\ want + samples = Chip!Target(ns + span)
  BY ChipFacts DEF ChipInv, ChipTypes, Chip!PaceExact
<1>2. PICK t \in Nat : t = ns + span
  BY <1>1
<1>3. Chip!Target(t) \in Int
  BY TargetFacts
<1>4. span' = 0 /\ want' = 0 /\ ran' = 0
  BY DEF Chip!EndSlice
<1>5. CASE t > SECOND
  <2>1. ns' = t - SECOND /\ samples' = samples + ran - RATE
    BY <1>1, <1>2, <1>5, ChipFacts DEF Chip!EndSlice
  <2>2. PICK u \in Nat : u = t - SECOND /\ u + SECOND = t
    BY <1>5, ChipFacts
  <2>3. Chip!Target(u) \in Int /\ Chip!Target(t) = Chip!Target(u) + RATE
    BY <2>2, TargetFacts
  <2> QED BY <1>1, <1>2, <1>3, <1>4, <2>1, <2>2, <2>3, ChipFacts
<1>6. CASE ~(t > SECOND)
  <2>1. ns' = t /\ samples' = samples + ran - 0
    BY <1>2, <1>6 DEF Chip!EndSlice
  <2> QED BY <1>1, <1>2, <1>3, <1>4, <2>1
<1> QED BY <1>5, <1>6

LEMMA TickKeepsFiq ==
  ASSUME ChipInv, Chip!Tick, dropped' = dropped
  PROVE  /\ pending' \in BOOLEAN /\ fiq' \in BOOLEAN /\ dropped' \in BOOLEAN
         /\ Chip!FiqExact' /\ (dropped' => pending')
BY DEF ChipInv, ChipTypes, Chip!Tick, Chip!FiqExact

LEMMA ChipKeeps == Chip!Spec => []Chip!AicaTrue
<1>1. Chip!Init => ChipInv
  <2> SUFFICES ASSUME Chip!Init PROVE ChipInv
    OBVIOUS
  <2>1. Chip!Target(0) = 0
    BY TargetFacts
  <2>2. PICK no \in BOOLEAN, zero \in {0} : no = FALSE /\ zero = 0
    OBVIOUS
  <2>3. /\ ns = zero /\ samples = zero /\ span = zero /\ want = zero /\ ran = zero
        /\ pending = no /\ fiq = no /\ dropped = no /\ behind = no
    BY <2>2 DEF Chip!Init
  <2>4. ChipTypes /\ (dropped => pending)
    BY <2>2, <2>3 DEF ChipTypes
  <2>5. Chip!PaceExact
    BY <2>1, <2>2, <2>3 DEF Chip!PaceExact
  <2>6. Chip!FiqExact
    BY <2>2, <2>3 DEF Chip!FiqExact
  <2> QED BY <2>4, <2>5, <2>6 DEF ChipInv
<1>2. ChipInv /\ [Chip!Next]_(Chip!vars) => ChipInv'
  <2> SUFFICES ASSUME ChipInv, [Chip!Next]_(Chip!vars) PROVE ChipInv'
    OBVIOUS
  <2>1. ChipTypes /\ Chip!PaceExact /\ Chip!FiqExact /\ (dropped => pending)
    BY DEF ChipInv
  <2>2. CASE UNCHANGED Chip!vars
    BY <2>1, <2>2 DEF Chip!vars, ChipInv, ChipTypes, Chip!PaceExact, Chip!FiqExact
  <2>3. ASSUME NEW n \in Slices, Chip!StartSlice(n) PROVE ChipInv'
    <3>1. n \in Nat \ {0} /\ ns \in Nat /\ samples \in Int
      BY <2>1, ChipFacts DEF ChipTypes
    <3>2. PICK t \in Nat : t = ns + n
      BY <3>1
    <3>3. /\ Chip!Target(t) \in Int /\ Chip!Target(ns) \in Int
          /\ Chip!Target(ns) <= Chip!Target(t)
      BY <3>1, <3>2, TargetFacts
    <3>4. samples <= Chip!Target(ns)
      BY <2>1, <2>3 DEF Chip!StartSlice, Chip!PaceExact
    <3>5. span' = n /\ want' = Chip!Target(t) - samples /\ ran' = 0
      BY <2>3, <3>2 DEF Chip!StartSlice
    <3>6. want' >= 0 /\ want' \in Int /\ want' + samples = Chip!Target(t)
      BY <3>1, <3>3, <3>4, <3>5
    <3> QED BY <2>1, <2>3, <3>1, <3>2, <3>5, <3>6
            DEF Chip!StartSlice, ChipInv, ChipTypes, Chip!PaceExact, Chip!FiqExact
  <2>4. CASE Chip!Sample
    <3>1. /\ pending' \in BOOLEAN /\ fiq' \in BOOLEAN /\ dropped' \in BOOLEAN
          /\ Chip!FiqExact' /\ (dropped' => pending')
      BY <2>4, TickKeepsFiq DEF Chip!Sample
    <3>2. ChipTypes' /\ Chip!PaceExact'
      BY <2>1, <2>4, <3>1 DEF Chip!Sample, ChipTypes, Chip!PaceExact
    <3> QED BY <3>1, <3>2 DEF ChipInv
  <2>5. ASSUME span # 0, Chip!EndSlice, behind' \in BOOLEAN, ran = want \/ behind',
               pending' \in BOOLEAN, fiq' \in BOOLEAN, dropped' \in BOOLEAN,
               Chip!FiqExact', dropped' => pending'
        PROVE  ChipInv'
    <3>1. /\ ns' \in Nat /\ samples' \in Int /\ span' = 0 /\ want' = 0 /\ ran' = 0
          /\ samples' <= Chip!Target(ns')
          /\ ran = want => samples' = Chip!Target(ns')
      BY <2>5, SliceEnded
    <3> QED BY <2>5, <3>1 DEF ChipInv, ChipTypes, Chip!PaceExact
  <2>6. CASE Chip!FinishSlice
    BY <2>1, <2>5, <2>6 DEF Chip!FinishSlice, ChipTypes, Chip!FiqExact
  <2>7. CASE Chip!BreakOff
    BY <2>1, <2>5, <2>7 DEF Chip!BreakOff, Chip!Behind, ChipTypes, Chip!FiqExact
  <2>8. CASE Chip!BreakOffLate
    BY <2>5, <2>8, TickKeepsFiq DEF Chip!BreakOffLate, Chip!Behind
  <2>9. CASE Chip!ClearEvent
    <3>1. ChipTypes' /\ Chip!PaceExact'
      BY <2>1, <2>9 DEF Chip!ClearEvent, Chip!time, ChipTypes, Chip!PaceExact
    <3>2. CASE clears = 3
      <4>1. pending' = FALSE /\ fiq' = FALSE /\ dropped' = FALSE
        BY <2>9, <3>2 DEF Chip!ClearEvent
      <4> QED BY <3>1, <4>1, Zenon DEF ChipInv, Chip!FiqExact
    <3>3. CASE clears # 3
      <4>1. pending' = pending /\ fiq' = fiq /\ dropped' = dropped
        BY <2>9, <3>3 DEF Chip!ClearEvent
      <4> QED BY <2>1, <3>1, <4>1, Zenon DEF ChipInv, Chip!FiqExact
    <3> QED BY <3>2, <3>3
  <2>10. CASE Chip!Reset
    <3>1. Chip!Target(0) = 0
      BY TargetFacts
    <3>2. /\ ns' = 0 /\ samples' = 0 /\ span = 0 /\ span' = 0 /\ want' = want /\ ran' = ran
          /\ pending' = FALSE /\ fiq' = FALSE /\ dropped' = FALSE /\ behind' = FALSE
      BY <2>10 DEF Chip!Reset
    <3>3. PICK no \in BOOLEAN, zero \in {0} : no = FALSE /\ zero = 0
      OBVIOUS
    <3>4. ChipTypes'
      <4>1. /\ ns' = zero /\ samples' = zero /\ span' = zero /\ want' = want /\ ran' = ran
            /\ pending' = no /\ fiq' = no /\ dropped' = no /\ behind' = no
        BY <3>2, <3>3
      <4>2. want \in Int /\ ran \in Nat /\ ran <= 0
        BY <2>1, <3>2 DEF ChipTypes
      <4> QED BY <3>3, <4>1, <4>2 DEF ChipTypes
    <3>5. Chip!PaceExact'
      BY <3>1, <3>2, <3>3 DEF Chip!PaceExact
    <3> QED BY <3>2, <3>4, <3>5, Zenon DEF ChipInv, Chip!FiqExact
  <2>11. ASSUME NEW v, Chip!WriteTimer(v) PROVE ChipInv'
    BY <2>1, <2>11 DEF Chip!WriteTimer, Chip!time, ChipInv, ChipTypes, Chip!PaceExact,
                       Chip!FiqExact
  <2>12. ASSUME NEW v \in BOOLEAN, Chip!WriteReset(v) PROVE ChipInv'
    <3>1. Chip!Target(0) = 0
      BY TargetFacts
    <3>2. CASE down /\ ~v
      <4>1. /\ ns' = 0 /\ samples' = 0 /\ span = 0 /\ span' = 0
            /\ want' = want /\ ran' = ran /\ behind' = FALSE
            /\ pending' = pending /\ fiq' = FALSE /\ dropped' = pending
        BY <2>12, <3>2 DEF Chip!WriteReset
      <4>2. PICK no \in BOOLEAN, zero \in {0} : no = FALSE /\ zero = 0
        OBVIOUS
      <4>3. ChipTypes'
        <5>1. /\ ns' = zero /\ samples' = zero /\ span' = zero /\ want' = want /\ ran' = ran
              /\ pending' = pending /\ fiq' = no /\ dropped' = pending /\ behind' = no
          BY <4>1, <4>2
        <5>2. want \in Int /\ ran \in Nat /\ ran <= 0 /\ pending \in BOOLEAN
          BY <2>1, <4>1 DEF ChipTypes
        <5> QED BY <4>2, <5>1, <5>2 DEF ChipTypes
      <4>4. Chip!PaceExact'
        BY <3>1, <4>1, <4>2 DEF Chip!PaceExact
      <4> QED BY <4>1, <4>3, <4>4, Zenon DEF ChipInv, Chip!FiqExact
    <3>3. CASE ~(down /\ ~v)
      BY <2>1, <2>12, <3>3 DEF Chip!WriteReset, ChipInv, ChipTypes, Chip!PaceExact,
                               Chip!FiqExact
    <3> QED BY <3>2, <3>3
  <2> QED
    BY <2>2, <2>3, <2>4, <2>6, <2>7, <2>8, <2>9, <2>10, <2>11, <2>12 DEF Chip!Next
<1>3. ChipInv => Chip!AicaTrue
  BY DEF ChipInv, Chip!AicaTrue
<1> QED BY <1>1, <1>2, <1>3, PTL DEF Chip!Spec

-----------------------------------------------------------------------------
(* A channel.  It may be outside its ends, or bound to miss them, only     *)
(* since its registers were moved as it played.  A mix is a recursive      *)
(* function of the positions: what one position keeps, any number keeps.   *)
Playing == [start : Ends \cup {0}, end : Ends \cup {0}, posn : Nat,
            loop : {"off", "on", "looped"}, key : BOOLEAN, active : BOOLEAN]

ChannelInv ==
  /\ chn \in Playing /\ strayed \in BOOLEAN
  /\ Voice!Misses(chn) => strayed

Moved(c) == IF c.active THEN Voice!Step(c) ELSE c

LEMMA EndsAreNaturals == Ends \cup {0} \subseteq Nat
BY VoiceAssumption DEF Voice!ChannelAssumption

LEMMA StepKeeps ==
  ASSUME NEW c \in Playing
  PROVE  /\ Moved(c) \in Playing
         /\ Voice!Misses(Moved(c)) => Voice!Misses(c)
<1>1. CASE ~c.active
  BY <1>1 DEF Moved
<1>2. CASE c.active
  <2>1. /\ c.start \in Ends \cup {0} /\ c.end \in Ends \cup {0} /\ c.posn \in Nat
        /\ c.loop \in {"off", "on", "looped"} /\ c.key \in BOOLEAN
        /\ c.start \in Nat /\ c.end \in Nat
    BY EndsAreNaturals DEF Playing
  <2>2. PICK p \in Nat : p = c.posn + 1
    BY <2>1
  <2>3. CASE p # c.end
    <3>1. Moved(c) = [c EXCEPT !.posn = p]
      BY <1>2, <2>2, <2>3 DEF Moved, Voice!Step
    <3>2. Moved(c) \in Playing
      BY <2>1, <3>1 DEF Playing
    <3>3. /\ Moved(c).posn = p /\ Moved(c).end = c.end /\ Moved(c).start = c.start
          /\ Moved(c).loop = c.loop /\ Moved(c).active = c.active
      BY <3>1 DEF Playing
    <3> QED BY <2>1, <2>2, <2>3, <3>2, <3>3 DEF Voice!Misses, Voice!Outside
  <2>4. CASE p = c.end /\ c.loop = "off"
    <3>1. PICK stopped \in BOOLEAN : stopped = FALSE
      OBVIOUS
    <3>2. Moved(c) = [c EXCEPT !.posn = p, !.active = stopped]
      BY <1>2, <2>2, <2>4, <3>1 DEF Moved, Voice!Step
    <3>3. Moved(c) \in Playing /\ Moved(c).active = stopped
      BY <2>1, <3>2 DEF Playing
    <3> QED BY <3>1, <3>3 DEF Voice!Misses, Voice!Outside
  <2>5. CASE p = c.end /\ c.loop # "off"
    <3>1. Moved(c) = [c EXCEPT !.posn = c.start, !.loop = "looped"]
      BY <1>2, <2>2, <2>5 DEF Moved, Voice!Step
    <3>2. Moved(c) \in Playing
      BY <2>1, <3>1 DEF Playing
    <3>3. /\ Moved(c).posn = c.start /\ Moved(c).end = c.end /\ Moved(c).start = c.start
          /\ Moved(c).active = c.active
      BY <3>1 DEF Playing
    <3> QED BY <1>2, <2>1, <2>5, <3>2, <3>3 DEF Voice!Misses, Voice!Outside
  <2> QED BY <2>3, <2>4, <2>5
<1> QED BY <1>1, <1>2

(* The recursive function of Mixed is one.                                 *)
LEMMA MixExists ==
  ASSUME NEW c, NEW n \in Nat
  PROVE  LET f == CHOOSE g : g = [i \in 0 .. n |-> IF i = 0 THEN c ELSE Moved(g[i - 1])]
         IN  f = [i \in 0 .. n |-> IF i = 0 THEN c ELSE Moved(f[i - 1])]
<1> DEFINE T == {k \in Nat : \E g : g = [i \in 0 .. k |-> IF i = 0 THEN c ELSE Moved(g[i - 1])]}
<1>1. 0 \in T
  <2> DEFINE g == [i \in 0 .. 0 |-> c]
  <2>1. g = [i \in 0 .. 0 |-> IF i = 0 THEN c ELSE Moved(g[i - 1])]
    OBVIOUS
  <2> QED BY <2>1
<1>2. ASSUME NEW k \in Nat, k \in T
      PROVE  k + 1 \in T
  <2>1. PICK g : g = [i \in 0 .. k |-> IF i = 0 THEN c ELSE Moved(g[i - 1])]
    BY <1>2
  <2>2. PICK h : h = [i \in 0 .. k + 1 |-> IF i = k + 1 THEN Moved(g[k]) ELSE g[i]]
    OBVIOUS
  <2>3. ASSUME NEW i \in 0 .. k + 1
        PROVE  h[i] = IF i = 0 THEN c ELSE Moved(h[i - 1])
    <3>1. CASE i = 0
      <4>1. h[i] = g[i] /\ g[i] = c
        BY <2>1, <2>2, <3>1
      <4> QED BY <3>1, <4>1
    <3>2. CASE i # 0 /\ i # k + 1
      <4>1. PICK j \in 0 .. k : j = i - 1
        BY <3>2
      <4>2. i \in 0 .. k /\ h[i] = g[i] /\ h[j] = g[j]
        BY <2>2, <3>2, <4>1
      <4>3. g[i] = Moved(g[i - 1])
        BY <2>1, <3>2, <4>2
      <4> QED BY <3>2, <4>1, <4>2, <4>3
    <3>3. CASE i = k + 1
      <4>1. PICK j \in 0 .. k : j = i - 1 /\ j = k
        BY <3>3
      <4>2. h[i] = Moved(g[k]) /\ h[j] = g[k]
        BY <2>2, <3>3, <4>1
      <4> QED BY <3>3, <4>1, <4>2
    <3> QED BY <3>1, <3>2, <3>3
  <2>4. h = [i \in 0 .. k + 1 |-> IF i = 0 THEN c ELSE Moved(h[i - 1])]
    BY <2>2, <2>3
  <2> QED BY <2>4
<1>3. T \subseteq Nat
  OBVIOUS
<1> HIDE DEF T
<1>4. n \in T
  BY <1>1, <1>2, <1>3, AllNaturals
<1> QED BY <1>4 DEF T

LEMMA MixKeeps ==
  ASSUME NEW c \in Playing, NEW n \in Nat
  PROVE  /\ Voice!Mixed(c, n) \in Playing
         /\ Voice!Misses(Voice!Mixed(c, n)) => Voice!Misses(c)
<1> DEFINE after == CHOOSE g : g = [i \in 0 .. n |-> IF i = 0 THEN c ELSE Moved(g[i - 1])]
<1>1. after = [i \in 0 .. n |-> IF i = 0 THEN c ELSE Moved(after[i - 1])]
  BY MixExists
<1>2. Voice!Mixed(c, n) = after[n]
  BY DEF Voice!Mixed, Moved
<1> HIDE DEF after
<1> DEFINE T == {k \in Nat : k <= n => /\ after[k] \in Playing
                                       /\ Voice!Misses(after[k]) => Voice!Misses(c)}
<1>3. 0 \in T
  BY <1>1
<1>4. ASSUME NEW k \in Nat, k \in T
      PROVE  k + 1 \in T
  <2> SUFFICES ASSUME k + 1 <= n
               PROVE  /\ after[k + 1] \in Playing
                      /\ Voice!Misses(after[k + 1]) => Voice!Misses(c)
    OBVIOUS
  <2>1. after[k + 1] = Moved(after[k])
    <3>1. PICK j \in 0 .. n : j = k + 1 /\ j # 0 /\ j - 1 = k
      OBVIOUS
    <3>2. after[j] = Moved(after[j - 1])
      BY <1>1, <3>1
    <3> QED BY <3>1, <3>2
  <2>2. after[k] \in Playing /\ (Voice!Misses(after[k]) => Voice!Misses(c))
    BY <1>4
  <2> QED BY <2>1, <2>2, StepKeeps
<1>5. T \subseteq Nat
  OBVIOUS
<1>6. n \in T
  <2> HIDE DEF T
  <2> QED BY <1>3, <1>4, <1>5, AllNaturals
<1> QED BY <1>2, <1>6

LEMMA ChannelKeeps == Voice!Spec => []Voice!StaysInside
<1>1. Voice!Init => ChannelInv
  <2> SUFFICES ASSUME Voice!Init PROVE ChannelInv
    OBVIOUS
  <2>1. chn \in Playing
    BY DEF Voice!Init, Playing
  <2>2. ~chn.active
    BY DEF Voice!Init
  <2> QED BY <2>1, <2>2 DEF Voice!Init, ChannelInv, Voice!Misses, Voice!Outside
<1>2. ChannelInv /\ [Voice!Next]_(Voice!vars) => ChannelInv'
  <2> SUFFICES ASSUME ChannelInv, [Voice!Next]_(Voice!vars) PROVE ChannelInv'
    OBVIOUS
  <2>1. chn \in Playing /\ strayed \in BOOLEAN /\ (Voice!Misses(chn) => strayed)
    BY DEF ChannelInv
  <2>2. CASE UNCHANGED Voice!vars
    BY <2>2 DEF Voice!vars, ChannelInv, Voice!Misses, Voice!Outside
  <2>3. ASSUME NEW c \in Playing, Voice!Rewritten(c) PROVE ChannelInv'
    <3>1. chn' = c /\ strayed' = (c.active /\ (strayed \/ Voice!Misses(c)))
      BY <2>3 DEF Voice!Rewritten
    <3>2. c.active \in BOOLEAN
      BY DEF Playing
    <3>3. Voice!Misses(c) => strayed'
      BY <3>1 DEF Voice!Misses, Voice!Outside
    <3> QED BY <3>1, <3>2, <3>3 DEF ChannelInv, Voice!Misses, Voice!Outside
  <2>4. ASSUME NEW c \in Playing PROVE Voice!Keyed(c) \in Playing
    BY DEF Voice!Keyed, Playing
  <2>5. ASSUME NEW n \in 1 .. MaxSteps, Voice!Mix(n) PROVE ChannelInv'
    <3>1. PICK c \in Playing : c = Voice!Mixed(chn, n) /\ (Voice!Misses(c) => Voice!Misses(chn))
      BY <2>1, MixKeeps
    <3>2. chn' = c /\ strayed' = (strayed /\ c.active)
      BY <2>5, <3>1 DEF Voice!Mix
    <3>3. c.active \in BOOLEAN
      BY DEF Playing
    <3>4. Voice!Misses(c) => strayed'
      BY <2>1, <3>1, <3>2 DEF Voice!Misses, Voice!Outside
    <3> QED BY <3>1, <3>2, <3>3, <3>4 DEF ChannelInv, Voice!Misses, Voice!Outside
  <2>6. ASSUME NEW loop \in {"off", "on"}, NEW key \in BOOLEAN, NEW now \in BOOLEAN,
               Voice!WriteConfig(loop, key, now)
        PROVE  ChannelInv'
    <3>1. PICK c \in Playing : c = [chn EXCEPT !.loop = loop, !.key = key]
      BY <2>1 DEF Playing
    <3> QED BY <2>3, <2>4, <2>6, <3>1 DEF Voice!WriteConfig
  <2>7. ASSUME NEW s \in Ends, NEW e \in Ends, Voice!WriteEnds(s, e) PROVE ChannelInv'
    <3>1. [chn EXCEPT !.start = s, !.end = e] \in Playing
      BY <2>1 DEF Playing
    <3> QED BY <2>3, <2>7, <3>1 DEF Voice!WriteEnds
  <2>8. CASE Voice!KeyOthers
    BY <2>1, <2>3, <2>4, <2>8 DEF Voice!KeyOthers
  <2>9. CASE Voice!ReadState
    <3>1. PICK c \in Playing : /\ c = [chn EXCEPT !.loop = "on"]
                               /\ c.active = chn.active /\ c.posn = chn.posn
                               /\ c.start = chn.start /\ c.end = chn.end
      <4>1. PICK on \in {"off", "on", "looped"} : on = "on"
        OBVIOUS
      <4>2. PICK c \in Playing : c = [chn EXCEPT !.loop = on]
        BY <2>1 DEF Playing
      <4>3. /\ c.active = chn.active /\ c.posn = chn.posn
            /\ c.start = chn.start /\ c.end = chn.end
        BY <2>1, <4>2 DEF Playing
      <4> QED BY <4>1, <4>2, <4>3
    <3>2. chn' = c /\ strayed' = strayed /\ chn.loop = "looped"
      BY <2>9, <3>1 DEF Voice!ReadState
    <3>3. Voice!Misses(c) => Voice!Misses(chn)
      BY <3>1, <3>2 DEF Voice!Misses, Voice!Outside
    <3> QED BY <2>1, <3>2, <3>3 DEF ChannelInv, Voice!Misses, Voice!Outside
  <2> QED BY <2>2, <2>5, <2>6, <2>7, <2>8, <2>9 DEF Voice!Next
<1>3. ChannelInv => Voice!StaysInside
  BY DEF ChannelInv, Voice!StaysInside, Voice!Misses
<1> QED BY <1>1, <1>2, <1>3, PTL DEF Voice!Spec

-----------------------------------------------------------------------------
(* The banks of the ARM implement ArmSpec, for every set of modes, values  *)
(* and statuses.                                                           *)
Status == [mode : Modes, masked : SUBSET {"I", "F"}]
Banks == Modes \ {"sys"}
Bank == [r10 : Values, r14 : Values, spsr : Status \cup {NoStatus}]
RegFile == [Regs -> Values]

TypeOK ==
  /\ cpsr \in Status
  /\ r \in RegFile
  /\ spsr \in Status \cup {NoStatus}
  /\ saved \in [Banks -> Bank]
  /\ named \in {"own", "user"}

LEMMA ModeFacts ==
  /\ "user" \in Modes /\ "svc" \in Modes /\ "fiq" \in Modes
  /\ Statuses \subseteq Status
  /\ Exceptions \subseteq Banks
  /\ \A m \in Modes : BankOf(m) \in Banks
BY ModesAssumption, StatusesAssumption DEF Status, Exceptions, Banks, BankOf

LEMMA ZeroIsValue == Zero \in Values
BY ValuesAssumption DEF Zero

(* What a switch leaves is of the right type.                              *)
LEMMA SwitchedType ==
  ASSUME TypeOK, NEW m \in Modes
  PROVE  /\ Switched(m).bank \in [Banks -> Bank]
         /\ Switched(m).r \in RegFile
         /\ Switched(m).spsr \in Status \cup {NoStatus}
<1> DEFINE b == BankOf(cpsr.mode)
<1>1. b \in Banks /\ BankOf(m) \in Banks /\ "user" \in Banks /\ "fiq" \in Banks
  BY ModeFacts, ModesAssumption DEF TypeOK, Status, Banks
<1>2. r["r10"] \in Values /\ r["r14"] \in Values
  BY DEF TypeOK, RegFile, Regs
<1>3. /\ Left(b).bank \in [Banks -> Bank]
      /\ Left(b).r10 \in Values
  BY <1>1, <1>2, ZenonT(60) DEF Left, TypeOK, Bank
<1>4. CASE m = cpsr.mode
  BY <1>4 DEF Switched, TypeOK
<1>5. CASE m # cpsr.mode
  <2> DEFINE bank == IF m = "fiq" THEN [Left(b).bank EXCEPT !["user"].r10 = Left(b).r10]
                                  ELSE Left(b).bank
  <2>1. bank \in [Banks -> Bank]
    BY <1>1, <1>3 DEF Bank
  <2>2. bank[BankOf(m)] \in Bank
    BY <2>1, <1>1
  <2>3. Switched(m) =
          [bank |-> bank,
           r |-> [r10 |-> IF m = "fiq" THEN bank[BankOf(m)].r10 ELSE Left(b).r10,
                  r14 |-> bank[BankOf(m)].r14],
           spsr |-> IF m \in Exceptions THEN bank[BankOf(m)].spsr ELSE spsr]
    BY <1>5 DEF Switched
  <2> HIDE DEF bank
  <2>4. Switched(m).r \in RegFile
    BY <2>2, <2>3, <1>3 DEF Bank, RegFile, Regs
  <2> QED BY <2>1, <2>2, <2>3, <2>4 DEF Bank, TypeOK
<1> QED BY <1>4, <1>5

LEMMA ResetType ==
  /\ Reset \in Status
  /\ Cleared \in [Banks -> Bank]
  /\ [x \in Regs |-> Zero] \in RegFile
BY ModesAssumption, ZeroIsValue DEF Reset, Status, Cleared, Banks, Bank, RegFile

LEMMA TypeRaise ==
  ASSUME TypeOK, NEW m \in Exceptions, NEW v \in Values, Raise(m, v)
  PROVE  TypeOK'
<1>1. m \in Modes
  BY DEF Exceptions
<1>2. Entered(m) \in Status
  BY <1>1 DEF Entered, Status
<1>3. r' \in RegFile
  BY <1>1, SwitchedType DEF Raise, RegFile, Regs
<1> QED BY <1>1, <1>2, <1>3, SwitchedType DEF Raise, TypeOK

LEMMA TypeSwitchTo ==
  ASSUME TypeOK, NEW p \in Status, SwitchTo(p)
  PROVE  TypeOK'
<1>1. p.mode \in Modes
  BY DEF Status
<1> QED BY <1>1, SwitchedType DEF SwitchTo, TypeOK

LEMMA TypeLoadUser ==
  ASSUME TypeOK, NEW x \in Regs \cup {"r0"}, NEW v \in Values, LoadUser(x, v)
  PROVE  TypeOK'
<1>1. "user" \in Banks
  BY ModesAssumption DEF Banks
<1>2. CASE x = "r0"
  BY <1>2 DEF LoadUser, TypeOK, RegFile, Regs
<1>3. CASE x \in Regs /\ UserOwns(x)
  <2>1. x # "r0" /\ r' = r /\ saved' = [saved EXCEPT !["user"][x] = v]
    BY <1>3 DEF LoadUser, Regs
  <2>2. [saved["user"] EXCEPT ![x] = v] \in Bank
    BY <1>1, <1>3 DEF TypeOK, Bank, Regs
  <2>3. saved' \in [Banks -> Bank]
    BY <2>1, <2>2, <1>1 DEF TypeOK
  <2> QED BY <2>1, <2>3 DEF LoadUser, TypeOK
<1>4. CASE x \in Regs /\ ~UserOwns(x)
  BY <1>4 DEF LoadUser, TypeOK, RegFile, Regs
<1> QED BY <1>2, <1>3, <1>4

(* The current status, the registers and the banks are always of the       *)
(* right type.  (arm_set_mode, arm_raise_exception, arm_restore_cpsr)      *)
THEOREM ArmTypeCorrect == Spec => []TypeOK
<1>1. TypeOK /\ [Next]_vars => TypeOK'
  <2> SUFFICES ASSUME TypeOK, [Next]_vars PROVE TypeOK'
    OBVIOUS
  <2>1. ASSUME NEW v \in Values, FastInterrupt(v) PROVE TypeOK'
    BY <2>1, TypeRaise, ModesAssumption DEF FastInterrupt, Exceptions
  <2>2. ASSUME NEW v \in Values, NEW m \in Exceptions, Raise(m, v) PROVE TypeOK'
    BY <2>2, TypeRaise
  <2>3. ASSUME NEW v \in Values, NEW x \in Regs, WriteOwn(x, v) PROVE TypeOK'
    BY <2>3 DEF WriteOwn, TypeOK, RegFile
  <2>4. ASSUME NEW v \in Values, NEW x \in Regs \cup {"r0"}, LoadUser(x, v)
        PROVE  TypeOK'
    BY <2>4, TypeLoadUser
  <2>5. ASSUME NEW p \in Statuses, WriteStatus(p) PROVE TypeOK'
    BY <2>5, TypeSwitchTo, ModeFacts DEF WriteStatus
  <2>6. ASSUME NEW p \in Statuses, WriteSaved(p) PROVE TypeOK'
    BY <2>6, ModeFacts DEF WriteSaved, TypeOK
  <2>7. CASE Return
    BY <2>7, TypeSwitchTo DEF Return, TypeOK
  <2>8. CASE Restart
    BY <2>8, ResetType DEF Restart, TypeOK
  <2>9. CASE UNCHANGED vars
    BY <2>9 DEF vars, TypeOK
  <2> QED BY <2>1, <2>2, <2>3, <2>4, <2>5, <2>6, <2>7, <2>8, <2>9 DEF Next
<1>2. Init => TypeOK
  BY ResetType DEF Init, TypeOK
<1> QED BY <1>1, <1>2, PTL DEF Spec

-----------------------------------------------------------------------------
(* The refinement.  Cell and SavedOf say where a cell of ArmSpec is, for   *)
(* given banks: a switch moves registers and keeps every cell.             *)
Cell(m, regs, bank, c) ==
  IF Banked!Owner(m, c[2]) = c[1] THEN regs[c[2]] ELSE bank[c[1]][c[2]]

SavedOf(m, status, bank, e) == IF e = m THEN status ELSE bank[e].spsr

LEMMA CellKinds ==
  ASSUME NEW c \in Banked!Cells
  PROVE  \/ c = <<"user", "r10">>
         \/ c = <<"fiq", "r10">>
         \/ \E b \in Banks : c = <<b, "r14">>
BY ModesAssumption DEF Banked!Cells, Banked!Owner, Banks

LEMMA OwnerFacts ==
  ASSUME NEW m \in Modes
  PROVE  /\ Banked!Owner(m, "r10") = IF m = "fiq" THEN "fiq" ELSE "user"
         /\ Banked!Owner(m, "r14") = BankOf(m)
BY DEF Banked!Owner, BankOf

LEMMA SwitchKeepsCells ==
  ASSUME TypeOK, NEW m \in Modes, m # cpsr.mode, NEW c \in Banked!Cells
  PROVE  Cell(m, Switched(m).r, Switched(m).bank, c) = Cell(cpsr.mode, r, saved, c)
<1> DEFINE old == BankOf(cpsr.mode)
           bank == IF m = "fiq" THEN [Left(old).bank EXCEPT !["user"].r10 = Left(old).r10]
                                ELSE Left(old).bank
<1>1. /\ cpsr.mode \in Modes
      /\ old \in Banks /\ BankOf(m) \in Banks /\ "user" \in Banks /\ "fiq" \in Banks
  BY ModeFacts, ModesAssumption DEF TypeOK, Status, Banks
<1>2. /\ Switched(m).bank = bank
      /\ Switched(m).r["r10"] = IF m = "fiq" THEN bank[BankOf(m)].r10 ELSE Left(old).r10
      /\ Switched(m).r["r14"] = bank[BankOf(m)].r14
  BY DEF Switched
<1>3. /\ Left(old).bank \in [Banks -> Bank]
      /\ \A b \in Banks :
           /\ Left(old).bank[b].r14 = IF b = old THEN r["r14"] ELSE saved[b].r14
           /\ Left(old).bank[b].r10 =
                IF b = old /\ b = "fiq" THEN r["r10"] ELSE saved[b].r10
      /\ Left(old).r10 = IF old = "fiq" THEN saved["user"].r10 ELSE r["r10"]
  BY <1>1, ZenonT(40) DEF Left, TypeOK, Bank, RegFile, Regs
<1>4. /\ \A b \in Banks : bank[b].r14 = IF b = old THEN r["r14"] ELSE saved[b].r14
      /\ \A b \in Banks :
           bank[b].r10 = IF m = "fiq" /\ b = "user" THEN Left(old).r10
                         ELSE Left(old).bank[b].r10
  BY <1>1, <1>3 DEF Bank
<1> HIDE DEF bank
<1>5. CASE c = <<"user", "r10">>
  BY <1>1, <1>2, <1>3, <1>4, <1>5, OwnerFacts DEF Cell, BankOf
<1>6. CASE c = <<"fiq", "r10">>
  BY <1>1, <1>2, <1>3, <1>4, <1>6, OwnerFacts DEF Cell, BankOf
<1>7. ASSUME NEW b \in Banks, c = <<b, "r14">>
      PROVE  Cell(m, Switched(m).r, Switched(m).bank, c) = Cell(cpsr.mode, r, saved, c)
  BY <1>1, <1>2, <1>4, <1>7, OwnerFacts DEF Cell, BankOf
<1> QED BY <1>5, <1>6, <1>7, CellKinds

LEMMA SwitchKeepsSaved ==
  ASSUME TypeOK, NEW m \in Modes, m # cpsr.mode, NEW e \in Exceptions
  PROVE  SavedOf(m, Switched(m).spsr, Switched(m).bank, e)
           = SavedOf(cpsr.mode, spsr, saved, e)
<1> DEFINE old == BankOf(cpsr.mode)
           bank == IF m = "fiq" THEN [Left(old).bank EXCEPT !["user"].r10 = Left(old).r10]
                                ELSE Left(old).bank
<1>1. /\ cpsr.mode \in Modes
      /\ old \in Banks /\ BankOf(m) \in Banks /\ "user" \in Banks /\ "fiq" \in Banks
  BY ModeFacts, ModesAssumption DEF TypeOK, Status, Banks
<1>2. /\ e \in Banks /\ e # "user" /\ e # "sys"
  BY DEF Exceptions, Banks
<1>3. /\ Switched(m).bank = bank
      /\ Switched(m).spsr = IF m \in Exceptions THEN bank[BankOf(m)].spsr ELSE spsr
  BY DEF Switched
<1>4. Left(old).bank[e].spsr = IF e = old THEN spsr ELSE saved[e].spsr
  BY <1>1, <1>2 DEF Left, TypeOK, Bank
<1>5. bank[e].spsr = Left(old).bank[e].spsr
  <2>1. Left(old).bank \in [Banks -> Bank]
    BY <1>1, ZenonT(40) DEF Left, TypeOK, Bank, RegFile, Regs
  <2> QED BY <2>1, <1>1, <1>2 DEF Bank
<1> HIDE DEF bank
<1>6. e = old <=> e = cpsr.mode
  BY <1>2 DEF BankOf
<1>7. CASE e = m
  BY <1>2, <1>3, <1>4, <1>5, <1>6, <1>7 DEF SavedOf, BankOf
<1>8. CASE e # m
  BY <1>3, <1>4, <1>5, <1>6, <1>8 DEF SavedOf
<1> QED BY <1>7, <1>8

(* The same, also for a switch to the mode that is current.                *)
LEMMA SwitchKeepsAll ==
  ASSUME TypeOK, NEW m \in Modes
  PROVE  /\ \A c \in Banked!Cells :
              Cell(m, Switched(m).r, Switched(m).bank, c) = Cell(cpsr.mode, r, saved, c)
         /\ \A e \in Exceptions :
              SavedOf(m, Switched(m).spsr, Switched(m).bank, e)
                = SavedOf(cpsr.mode, spsr, saved, e)
<1>1. CASE m = cpsr.mode
  BY <1>1 DEF Switched
<1>2. CASE m # cpsr.mode
  BY <1>2, SwitchKeepsCells, SwitchKeepsSaved
<1> QED BY <1>1, <1>2

LEMMA Mapping ==
  /\ CellsHere = [c \in Banked!Cells |-> Cell(cpsr.mode, r, saved, c)]
  /\ SavedHere = [e \in Exceptions |-> SavedOf(cpsr.mode, spsr, saved, e)]
BY DEF CellsHere, Cell, SavedHere, SavedOf

LEMMA MappingPrimed ==
  /\ CellsHere' = [c \in Banked!Cells |-> Cell(cpsr'.mode, r', saved', c)]
  /\ SavedHere' = [e \in Exceptions |-> SavedOf(cpsr'.mode, spsr', saved', e)]
BY DEF CellsHere, Cell, SavedHere, SavedOf, Banked!Cells, Banked!Owner

LEMMA SpecNames ==
  /\ Registers!Cells = Banked!Cells
  /\ Registers!Exceptions = Exceptions
  /\ \A m, x : Registers!Owner(m, x) = Banked!Owner(m, x)
BY DEF Registers!Cells, Banked!Cells, Registers!Owner, Banked!Owner,
       Registers!Exceptions, Exceptions

LEMMA StatusNames ==
  /\ Status \cup {NoStatus} \subseteq Registers!Status
BY DEF Registers!Status, Status, NoStatus

(* What a mode sees of its own is the register it uses.                    *)
LEMMA OwnCell ==
  ASSUME TypeOK, NEW x \in Regs
  PROVE  /\ <<Banked!Owner(cpsr.mode, x), x>> \in Banked!Cells
         /\ <<"user", x>> \in Banked!Cells
         /\ CellsHere[<<Banked!Owner(cpsr.mode, x), x>>] = r[x]
BY ModesAssumption, Mapping
   DEF TypeOK, Status, Banked!Cells, Banked!Owner, Regs, Cell

LEMMA StepSwitchTo ==
  ASSUME TypeOK, NEW p \in Status, SwitchTo(p)
  PROVE  cpsr' = p /\ CellsHere' = CellsHere /\ SavedHere' = SavedHere
<1>1. p.mode \in Modes
  BY DEF Status
<1> QED BY <1>1, SwitchKeepsAll, Mapping, MappingPrimed DEF SwitchTo

LEMMA StepRaise ==
  ASSUME TypeOK, NEW m \in Exceptions, NEW v \in Values, Raise(m, v)
  PROVE  \E i \in SUBSET {"I", "F"} : Registers!Enter(m, i, v)
<1>1. m \in Modes /\ m # "sys" /\ m # "user"
  BY DEF Exceptions
<1>2. /\ cpsr' = Entered(m) /\ cpsr'.mode = m
      /\ saved' = Switched(m).bank
      /\ r' = [Switched(m).r EXCEPT !["r14"] = v]
      /\ spsr' = cpsr
  BY DEF Raise, Entered
<1>3. Switched(m).r \in RegFile
  BY <1>1, SwitchedType
<1>4. <<m, "r14">> \in Banked!Cells
  BY <1>1 DEF Banked!Cells, Banked!Owner
<1>5. ASSUME NEW c \in Banked!Cells
      PROVE  CellsHere'[c] = IF c = <<m, "r14">> THEN v ELSE CellsHere[c]
  <2>1. CellsHere'[c] = Cell(m, r', saved', c)
    BY <1>2, MappingPrimed
  <2>2. CellsHere[c] = Cell(m, Switched(m).r, Switched(m).bank, c)
    BY <1>1, SwitchKeepsAll, Mapping
  <2>3. r'["r14"] = v /\ r'["r10"] = Switched(m).r["r10"]
    BY <1>2, <1>3 DEF RegFile, Regs
  <2>4. CASE c = <<"user", "r10">> \/ c = <<"fiq", "r10">>
    BY <2>1, <2>2, <2>3, <2>4, <1>2 DEF Cell
  <2>5. ASSUME NEW b \in Banks, c = <<b, "r14">>
        PROVE  CellsHere'[c] = IF c = <<m, "r14">> THEN v ELSE CellsHere[c]
    <3>1. Banked!Owner(m, "r14") = m
      BY <1>1 DEF Banked!Owner
    <3> QED BY <2>1, <2>2, <2>3, <2>5, <3>1, <1>2 DEF Cell
  <2> QED BY <2>4, <2>5, CellKinds
<1>6. CellsHere' = [CellsHere EXCEPT ![<<m, "r14">>] = v]
  BY <1>4, <1>5, Mapping, MappingPrimed
<1>7. ASSUME NEW e \in Exceptions
      PROVE  SavedHere'[e] = IF e = m THEN cpsr ELSE SavedHere[e]
  <2>1. SavedHere'[e] = SavedOf(m, spsr', saved', e)
    BY <1>2, MappingPrimed
  <2>2. SavedHere[e] = SavedOf(m, Switched(m).spsr, Switched(m).bank, e)
    BY <1>1, SwitchKeepsAll, Mapping
  <2> QED BY <2>1, <2>2, <1>2 DEF SavedOf
<1>8. SavedHere' = [SavedHere EXCEPT ![m] = cpsr]
  BY <1>7, Mapping, MappingPrimed
<1>9. \E i \in SUBSET {"I", "F"} : cpsr' = [mode |-> m, masked |-> i]
  BY <1>2 DEF Entered
<1> QED BY <1>6, <1>8, <1>9 DEF Registers!Enter

LEMMA StepWriteOwn ==
  ASSUME TypeOK, NEW x \in Regs, NEW v \in Values,
         r' = [r EXCEPT ![x] = v], UNCHANGED <<cpsr, spsr, saved>>
  PROVE  Registers!WriteOwn(x, v)
<1> DEFINE own == <<Banked!Owner(cpsr.mode, x), x>>
<1>1. own \in Banked!Cells
  BY OwnCell
<1>2. ASSUME NEW c \in Banked!Cells
      PROVE  CellsHere'[c] = IF c = own THEN v ELSE CellsHere[c]
  <2>1. /\ CellsHere'[c] = Cell(cpsr.mode, r', saved, c)
        /\ CellsHere[c] = Cell(cpsr.mode, r, saved, c)
    BY Mapping, MappingPrimed
  <2>2. /\ r'[x] = v
        /\ \A y \in Regs : y # x => r'[y] = r[y]
    BY DEF TypeOK, RegFile
  <2>3. c = <<c[1], c[2]>> /\ c[2] \in Regs
    BY CellKinds DEF Regs
  <2> QED BY <2>1, <2>2, <2>3 DEF Cell
<1>3. CellsHere' = [CellsHere EXCEPT ![own] = v]
  BY <1>1, <1>2, Mapping, MappingPrimed
<1>4. SavedHere' = SavedHere
  BY Mapping, MappingPrimed
<1> QED BY <1>3, <1>4, SpecNames DEF Registers!WriteOwn

LEMMA StepWriteBank ==
  ASSUME TypeOK, NEW x \in Regs, NEW v \in Values, UserOwns(x),
         saved' = [saved EXCEPT !["user"][x] = v], UNCHANGED <<cpsr, r, spsr>>
  PROVE  Registers!WriteUser(x, v)
<1> DEFINE cell == <<"user", x>>
<1>1. cell \in Banked!Cells /\ "user" \in Banks
  BY OwnCell, ModesAssumption DEF Banks
<1>2. Banked!Owner(cpsr.mode, x) # "user"
  BY DEF UserOwns, Banked!Owner, Exceptions
<1>3. /\ saved'["user"][x] = v
      /\ \A y \in Regs : y # x => saved'["user"][y] = saved["user"][y]
      /\ \A b \in Banks : b # "user" => saved'[b] = saved[b]
      /\ \A b \in Banks : saved'[b].spsr = saved[b].spsr
  BY <1>1 DEF TypeOK, Bank, Regs
<1>4. ASSUME NEW c \in Banked!Cells
      PROVE  CellsHere'[c] = IF c = cell THEN v ELSE CellsHere[c]
  <2>1. /\ CellsHere'[c] = Cell(cpsr.mode, r, saved', c)
        /\ CellsHere[c] = Cell(cpsr.mode, r, saved, c)
    BY Mapping, MappingPrimed
  <2>2. c = <<c[1], c[2]>> /\ c[1] \in Banks /\ c[2] \in Regs
    BY CellKinds, ModesAssumption DEF Regs, Banks
  <2> QED BY <1>2, <1>3, <2>1, <2>2 DEF Cell
<1>5. CellsHere' = [CellsHere EXCEPT ![cell] = v]
  BY <1>1, <1>4, Mapping, MappingPrimed
<1>6. SavedHere' = SavedHere
  BY <1>3, Mapping, MappingPrimed DEF SavedOf, Exceptions, Banks
<1> QED BY <1>5, <1>6 DEF Registers!WriteUser

(* A load of the user's registers is one of them in ArmSpec, or, by the    *)
(* test that is true of every register, writes one of a fast interrupt.    *)
LEMMA StepLoadUser ==
  ASSUME TypeOK, NEW x \in Regs \cup {"r0"}, NEW v \in Values, LoadUser(x, v)
  PROVE  \/ \E y \in Regs : Registers!WriteOwn(y, v) \/ Registers!WriteUser(y, v)
         \/ UNCHANGED Registers!vars
<1>1. cpsr' = cpsr /\ spsr' = spsr
  BY DEF LoadUser
<1>2. CASE x = "r0" /\ cpsr.mode = "fiq"
  <2>1. r' = [r EXCEPT !["r10"] = v] /\ saved' = saved /\ "r10" \in Regs
    BY <1>2 DEF LoadUser, Regs
  <2> QED BY <1>1, <2>1, StepWriteOwn
<1>3. CASE x = "r0" /\ cpsr.mode # "fiq"
  <2>1. r' = r /\ saved' = saved
    BY <1>3 DEF LoadUser
  <2> QED BY <1>1, <2>1, Mapping, MappingPrimed DEF Registers!vars
<1>4. CASE x # "r0" /\ UserOwns(x)
  <2>1. x \in Regs /\ r' = r /\ saved' = [saved EXCEPT !["user"][x] = v]
    BY <1>4 DEF LoadUser
  <2> QED BY <1>1, <1>4, <2>1, StepWriteBank
<1>5. CASE x # "r0" /\ ~UserOwns(x)
  <2>1. x \in Regs /\ r' = [r EXCEPT ![x] = v] /\ saved' = saved
    BY <1>5 DEF LoadUser
  <2> QED BY <1>1, <2>1, StepWriteOwn
<1> QED BY <1>2, <1>3, <1>4, <1>5

(* The state of a reset is one in which ArmSpec may begin.                 *)
LEMMA ResetCells ==
  ASSUME cpsr = Reset, r = [x \in Regs |-> Zero], spsr = NoStatus, saved = Cleared
  PROVE  /\ cpsr = [mode |-> "svc", masked |-> {"I", "F"}]
         /\ CellsHere \in [Registers!Cells -> Values]
         /\ SavedHere \in [Registers!Exceptions -> Registers!Status]
<1>1. ASSUME NEW c \in Banked!Cells PROVE Cell(cpsr.mode, r, saved, c) \in Values
  BY <1>1, CellKinds, ZeroIsValue, ModesAssumption DEF Cell, Cleared, Regs, Banks
<1>2. ASSUME NEW e \in Exceptions PROVE SavedOf(cpsr.mode, spsr, saved, e) = NoStatus
  BY <1>2 DEF SavedOf, Cleared, Exceptions
<1> QED BY <1>1, <1>2, Mapping, SpecNames, StatusNames DEF Reset

LEMMA StepRestart ==
  ASSUME Restart
  PROVE  Registers!Restart
<1>1. /\ cpsr' = Reset /\ r' = [x \in Regs |-> Zero]
      /\ spsr' = NoStatus /\ saved' = Cleared
  BY DEF Restart
<1>2. ASSUME NEW c \in Banked!Cells PROVE Cell(cpsr'.mode, r', saved', c) \in Values
  BY <1>1, <1>2, CellKinds, ZeroIsValue, ModesAssumption DEF Cell, Cleared, Regs, Banks
<1>3. ASSUME NEW e \in Exceptions PROVE SavedOf(cpsr'.mode, spsr', saved', e) = NoStatus
  BY <1>1, <1>3 DEF SavedOf, Cleared, Exceptions
<1> QED BY <1>1, <1>2, <1>3, MappingPrimed, SpecNames, StatusNames
        DEF Registers!Restart, Reset

LEMMA StepReturn ==
  ASSUME TypeOK, Return
  PROVE  Registers!Leave
<1>1. cpsr.mode \in Exceptions /\ spsr \in Status /\ SwitchTo(spsr)
  BY DEF Return, TypeOK
<1>2. SavedHere[cpsr.mode] = spsr
  BY <1>1, Mapping DEF SavedOf
<1> QED BY <1>1, <1>2, StepSwitchTo, SpecNames DEF Registers!Leave

LEMMA StepWriteSaved ==
  ASSUME TypeOK, NEW p \in Statuses, WriteSaved(p)
  PROVE  Registers!WriteSaved(p)
<1>1. cpsr.mode \in Exceptions /\ spsr' = p /\ UNCHANGED <<cpsr, r, saved>>
  BY DEF WriteSaved
<1>2. CellsHere' = CellsHere
  BY <1>1, Mapping, MappingPrimed
<1>3. SavedHere' = [SavedHere EXCEPT ![cpsr.mode] = p]
  BY <1>1, Mapping, MappingPrimed DEF SavedOf
<1> QED BY <1>1, <1>2, <1>3, SpecNames DEF Registers!WriteSaved

(* Every step of the ARM is one of ArmSpec or leaves its cells alone.      *)
LEMMA StepRefines ==
  ASSUME TypeOK, [Next]_vars
  PROVE  [Registers!Next]_(Registers!vars)
<1>1. ASSUME NEW v \in Values, FastInterrupt(v) PROVE Registers!Next
  <2>1. "fiq" \in Exceptions
    BY ModesAssumption DEF Exceptions
  <2> QED BY <1>1, <2>1, StepRaise, SpecNames DEF FastInterrupt, Registers!Next
<1>2. ASSUME NEW v \in Values, NEW m \in Exceptions, Raise(m, v) PROVE Registers!Next
  BY <1>2, StepRaise, SpecNames DEF Registers!Next
<1>3. ASSUME NEW v \in Values, NEW x \in Regs, WriteOwn(x, v) PROVE Registers!Next
  BY <1>3, StepWriteOwn DEF WriteOwn, Registers!Next, Regs
<1>4. ASSUME NEW v \in Values, NEW x \in Regs \cup {"r0"}, LoadUser(x, v)
      PROVE  Registers!Next \/ UNCHANGED Registers!vars
  BY <1>4, StepLoadUser DEF Registers!Next, Regs
<1>5. ASSUME NEW p \in Statuses, WriteStatus(p) PROVE Registers!Next
  <2>1. p \in Status /\ p \in Registers!Status
    BY ModeFacts, StatusNames
  <2>2. Registers!WriteStatus(p)
    BY <1>5, <2>1, StepSwitchTo DEF WriteStatus, Registers!WriteStatus
  <2> QED BY <2>1, <2>2 DEF Registers!Next
<1>6. ASSUME NEW p \in Statuses, WriteSaved(p) PROVE Registers!Next
  BY <1>6, StepWriteSaved, ModeFacts, StatusNames DEF Registers!Next
<1>7. CASE Return
  BY <1>7, StepReturn DEF Registers!Next
<1>8. CASE Restart
  BY <1>8, StepRestart DEF Registers!Next
<1>9. CASE UNCHANGED vars
  BY <1>9, Mapping, MappingPrimed DEF vars, Registers!vars
<1> QED BY <1>1, <1>2, <1>3, <1>4, <1>5, <1>6, <1>7, <1>8, <1>9 DEF Next

(* Through nested exceptions, returns, changes of the status and loads of  *)
(* the user's registers, every mode finds its own registers and its own    *)
(* saved status as it left them: the banks implement ArmSpec.              *)
(* (arm_set_mode, arm_raise_exception, arm_restore_cpsr, arm_user_reg)     *)
THEOREM ArmRefinement == Spec => KeepsRegisters /\ Registers!Spec
<1>1. Init => Registers!Init
  BY ResetCells DEF Init, Registers!Init
<1>2. TypeOK /\ [Next]_vars => [Registers!Next]_(Registers!vars)
  BY StepRefines
<1>3. [Registers!Next]_(Registers!vars)
      => [UNCHANGED vars \/ Registers!Next]_(Registers!vars)
  OBVIOUS
<1> QED
  BY <1>1, <1>2, <1>3, ArmTypeCorrect, PTL DEF Spec, KeepsRegisters, Registers!Spec


-----------------------------------------------------------------------------
(* The render buffers.  The newest contents of a unit are in video RAM, or *)
(* in the one buffer that stands for the unit.                             *)
BufferOf == [ptr : Buffers!Pointer, addr : Int, size : Int, flushed : BOOLEAN]

HasFrame(b) ==
  b.addr = Buffers!NOWHERE \/ \E f \in Frames : b.addr = Buffers!Base(f.addr) /\ b.size = f.size

Buffered(q) ==
  /\ q \in Seq(BufferOf) /\ Len(q) <= MAX_RENDER_BUFFERS
  /\ \A i \in DOMAIN q : HasFrame(q[i])
  /\ \A i, j \in DOMAIN q : i # j => /\ q[i].ptr # q[j].ptr
                                     /\ q[i].addr # Buffers!NOWHERE => q[i].addr # q[j].addr

Holdings == [Unit -> SUBSET (Buffers!Pointer \cup {Buffers!VRAM})]

Saves(s, u) ==
  \/ Buffers!VRAM \in s.holders[u]
  \/ \E i \in DOMAIN s.buf : /\ u \in Buffers!Covers(s.buf[i]) /\ ~s.buf[i].flushed
                             /\ s.buf[i].ptr \in s.holders[u]

Shows(s, u) ==
  \A i \in DOMAIN s.buf : u \in Buffers!Covers(s.buf[i]) => s.buf[i].ptr \in s.holders[u]

(* All but the units of W are saved.                                       *)
Good(s, W) ==
  /\ s \in [buf : Seq(BufferOf), holders : Holdings]
  /\ Buffered(s.buf)
  /\ \A u \in Unit : Shows(s, u) /\ (u \notin W => Saves(s, u))

LEMMA FrameFacts ==
  /\ MAX_RENDER_BUFFERS \in Nat /\ MAX_RENDER_BUFFERS >= 2
  /\ PVR2_RAM_BASE \in Nat /\ Unit \subseteq Nat
  /\ \A f \in Frames : /\ f.addr \in Nat /\ f.addr < PVR2_RAM_BASE /\ f.size \in Nat
                       /\ Buffers!Base(f.addr) = PVR2_RAM_BASE + f.addr
                       /\ Buffers!Base(f.addr) \in Nat
  /\ \A f, g \in Frames : f.addr < g.addr => f.addr + f.size <= g.addr
  /\ Buffers!NOWHERE = -1 /\ Buffers!VRAM = 0 /\ Buffers!NULL = 0
  /\ Buffers!VRAM \notin Buffers!Pointer
<1>1. /\ MAX_RENDER_BUFFERS \in Nat /\ MAX_RENDER_BUFFERS >= 2
      /\ PVR2_RAM_BASE \in Nat /\ Unit \subseteq Nat
      /\ \A f \in Frames : f.addr \in 0 .. PVR2_RAM_BASE - 1 /\ f.size \in Nat
      /\ \A f, g \in Frames : f.addr < g.addr => f.addr + f.size <= g.addr
  BY FrameAssumption DEF Buffers!BufferAssumption
<1>2. ASSUME NEW f \in Frames
      PROVE  /\ f.addr \in Nat /\ f.addr < PVR2_RAM_BASE /\ f.size \in Nat
             /\ Buffers!Base(f.addr) = PVR2_RAM_BASE + f.addr
             /\ Buffers!Base(f.addr) \in Nat
  BY <1>1 DEF Buffers!Base
<1>3. Buffers!NOWHERE = -1 /\ Buffers!VRAM = 0 /\ Buffers!NULL = 0
  BY DEF Buffers!NOWHERE, Buffers!VRAM, Buffers!NULL
<1>4. Buffers!VRAM \notin Buffers!Pointer
  BY <1>1 DEF Buffers!VRAM, Buffers!Pointer
<1> QED BY <1>1, <1>2, <1>3, <1>4

LEMMA CoversAre ==
  ASSUME NEW b, b.addr \in Int, b.size \in Int, NEW u
  PROVE  u \in Buffers!Covers(b) <=>
           /\ u \in Unit /\ b.addr # Buffers!NOWHERE
           /\ b.addr <= PVR2_RAM_BASE + u /\ PVR2_RAM_BASE + u < b.addr + b.size
<1>1. ASSUME u \in Unit
      PROVE  PVR2_RAM_BASE + u \in b.addr .. b.addr + b.size - 1 <=>
               b.addr <= PVR2_RAM_BASE + u /\ PVR2_RAM_BASE + u < b.addr + b.size
  BY <1>1, FrameFacts
<1> QED BY <1>1 DEF Buffers!Covers, Buffers!Base

(* A unit has one buffer at most that stands for it.                       *)
LEMMA OneOwner ==
  ASSUME NEW q, Buffered(q), NEW i \in DOMAIN q, NEW j \in DOMAIN q, NEW u,
         u \in Buffers!Covers(q[i]), u \in Buffers!Covers(q[j])
  PROVE  i = j
<1>1. q[i] \in BufferOf /\ q[j] \in BufferOf
  BY DEF Buffered
<1>2. /\ q[i].addr \in Int /\ q[i].size \in Int
      /\ q[j].addr \in Int /\ q[j].size \in Int
  BY <1>1 DEF BufferOf
<1>3. /\ u \in Unit /\ q[i].addr # Buffers!NOWHERE /\ q[j].addr # Buffers!NOWHERE
      /\ q[i].addr <= PVR2_RAM_BASE + u /\ PVR2_RAM_BASE + u < q[i].addr + q[i].size
      /\ q[j].addr <= PVR2_RAM_BASE + u /\ PVR2_RAM_BASE + u < q[j].addr + q[j].size
  BY <1>2, CoversAre
<1>4. PICK f \in Frames : q[i].addr = Buffers!Base(f.addr) /\ q[i].size = f.size
  BY <1>3 DEF Buffered, HasFrame
<1>5. PICK g \in Frames : q[j].addr = Buffers!Base(g.addr) /\ q[j].size = g.size
  BY <1>3 DEF Buffered, HasFrame
<1>6. /\ f.addr \in Nat /\ f.size \in Nat /\ g.addr \in Nat /\ g.size \in Nat
      /\ q[i].addr = PVR2_RAM_BASE + f.addr /\ q[j].addr = PVR2_RAM_BASE + g.addr
      /\ PVR2_RAM_BASE \in Nat /\ u \in Nat
  BY <1>3, <1>4, <1>5, FrameFacts
<1>7. ~(f.addr < g.addr) /\ ~(g.addr < f.addr)
  <2>1. f.addr < g.addr => f.addr + f.size <= g.addr
    BY FrameFacts
  <2>2. g.addr < f.addr => g.addr + g.size <= f.addr
    BY FrameFacts
  <2>3. /\ f.addr <= u /\ u < f.addr + f.size
        /\ g.addr <= u /\ u < g.addr + g.size
    BY <1>3, <1>4, <1>5, <1>6
  <2> QED BY <1>6, <2>1, <2>2, <2>3
<1>8. q[i].addr = q[j].addr
  BY <1>6, <1>7
<1> QED BY <1>3, <1>8 DEF Buffered

(* One buffer is changed.                                                  *)
Changed(p, q, i, b) ==
  /\ q \in Seq(BufferOf) /\ Len(q) = Len(p) /\ DOMAIN q = DOMAIN p
  /\ q[i] = b /\ \A j \in DOMAIN p \ {i} : q[j] = p[j]

LEMMA ChangedBy ==
  ASSUME NEW p \in Seq(BufferOf), NEW i \in DOMAIN p, NEW b \in BufferOf,
         NEW q, q = [p EXCEPT ![i] = b]
  PROVE  Changed(p, q, i, b)
BY DEF Changed

LEMMA ChangedIsBuffered ==
  ASSUME NEW p, Buffered(p), NEW i \in DOMAIN p, NEW b, HasFrame(b),
         NEW q, Changed(p, q, i, b),
         \A j \in DOMAIN p \ {i} :
           p[j].ptr # b.ptr /\ (b.addr # Buffers!NOWHERE => p[j].addr # b.addr)
  PROVE  Buffered(q)
<1>1. /\ q \in Seq(BufferOf) /\ Len(q) = Len(p) /\ DOMAIN q = DOMAIN p
      /\ q[i] = b /\ \A j \in DOMAIN p \ {i} : q[j] = p[j]
  BY DEF Changed
<1>2. Len(q) <= MAX_RENDER_BUFFERS
  BY <1>1 DEF Buffered
<1>3. ASSUME NEW j \in DOMAIN q PROVE HasFrame(q[j])
  BY <1>1 DEF Buffered
<1>4. ASSUME NEW j \in DOMAIN q, NEW k \in DOMAIN q, j # k
      PROVE  /\ q[j].ptr # q[k].ptr
             /\ q[j].addr # Buffers!NOWHERE => q[j].addr # q[k].addr
  <2>1. CASE j # i /\ k # i
    BY <1>1, <1>4, <2>1 DEF Buffered
  <2>2. CASE j = i
    BY <1>1, <1>4, <2>2
  <2>3. CASE k = i
    BY <1>1, <1>4, <2>3
  <2> QED BY <2>1, <2>2, <2>3
<1> QED BY <1>1, <1>2, <1>3, <1>4 DEF Buffered

(* What is done to buffers and holders: nothing is lost of video RAM, and  *)
(* the buffers stay what they are.                                         *)
Alike(s, t) ==
  /\ DOMAIN t.buf = DOMAIN s.buf /\ Len(t.buf) = Len(s.buf)
  /\ \A i \in DOMAIN s.buf : t.buf[i].ptr = s.buf[i].ptr /\ t.buf[i].size = s.buf[i].size
  /\ \A u \in Unit : Buffers!VRAM \in s.holders[u] => Buffers!VRAM \in t.holders[u]

InVram(s, b) == \A u \in Buffers!Covers(b) : Buffers!VRAM \in s.holders[u]

SavedBuffer(b) == [ptr |-> b.ptr, addr |-> b.addr, size |-> b.size, flushed |-> TRUE]
FreeBuffer(b) == [ptr |-> b.ptr, addr |-> Buffers!NOWHERE, size |-> b.size, flushed |-> TRUE]

LEMMA SetFlushed ==
  ASSUME NEW p, NEW a, NEW z, NEW g, NEW x
  PROVE  [[ptr |-> p, addr |-> a, size |-> z, flushed |-> g] EXCEPT !.flushed = x] =
           [ptr |-> p, addr |-> a, size |-> z, flushed |-> x]
BY SMTT(60)

LEMMA SetAddr ==
  ASSUME NEW p, NEW a, NEW z, NEW g, NEW x
  PROVE  [[ptr |-> p, addr |-> a, size |-> z, flushed |-> g] EXCEPT !.addr = x] =
           [ptr |-> p, addr |-> x, size |-> z, flushed |-> g]
BY SMTT(60)

LEMMA BufferEdits ==
  ASSUME NEW b \in BufferOf, NEW x
  PROVE  /\ [b EXCEPT !.flushed = x] =
              [ptr |-> b.ptr, addr |-> b.addr, size |-> b.size, flushed |-> x]
         /\ [b EXCEPT !.addr = x] =
              [ptr |-> b.ptr, addr |-> x, size |-> b.size, flushed |-> b.flushed]
<1>1. b = [ptr |-> b.ptr, addr |-> b.addr, size |-> b.size, flushed |-> b.flushed]
  BY DEF BufferOf
<1>2. PICK p, a, z, g : p = b.ptr /\ a = b.addr /\ z = b.size /\ g = b.flushed
  BY Zenon
<1>3. b = [ptr |-> p, addr |-> a, size |-> z, flushed |-> g]
  BY <1>1, <1>2, Zenon
<1>4. [b EXCEPT !.flushed = x] = [ptr |-> p, addr |-> a, size |-> z, flushed |-> x]
  <2>1. [[ptr |-> p, addr |-> a, size |-> z, flushed |-> g] EXCEPT !.flushed = x] =
           [ptr |-> p, addr |-> a, size |-> z, flushed |-> x]
    BY SetFlushed
  <2> QED BY <1>3, <2>1, Zenon
<1>5. [b EXCEPT !.addr = x] = [ptr |-> p, addr |-> x, size |-> z, flushed |-> g]
  <2>1. [[ptr |-> p, addr |-> a, size |-> z, flushed |-> g] EXCEPT !.addr = x] =
           [ptr |-> p, addr |-> x, size |-> z, flushed |-> g]
    BY SetAddr
  <2> QED BY <1>3, <2>1, Zenon
<1> QED BY <1>2, <1>4, <1>5, Zenon

LEMMA StateEdits ==
  ASSUME NEW s, s \in [buf : Seq(BufferOf), holders : Holdings], NEW q, NEW h
  PROVE  /\ [s EXCEPT !.buf = q] = [buf |-> q, holders |-> s.holders]
         /\ [s EXCEPT !.holders = h] = [buf |-> s.buf, holders |-> h]
OBVIOUS

LEMMA FlushFields ==
  ASSUME NEW s, s \in [buf : Seq(BufferOf), holders : Holdings], NEW i \in DOMAIN s.buf
  PROVE  /\ Changed(s.buf, Buffers!Flush(s, i).buf, i, SavedBuffer(s.buf[i]))
         /\ DOMAIN Buffers!Flush(s, i) = {"buf", "holders"}
         /\ Buffers!Flush(s, i).holders =
              [u \in Unit |->
                  IF u \notin Buffers!Covers(s.buf[i]) THEN s.holders[u]
                  ELSE IF s.buf[i].ptr \in s.holders[u] THEN s.holders[u] \cup {Buffers!VRAM}
                  ELSE s.holders[u] \ {Buffers!VRAM}]
         /\ Buffers!Flush(s, i) =
              [buf |-> Buffers!Flush(s, i).buf, holders |-> Buffers!Flush(s, i).holders]
<1>1. s.buf \in Seq(BufferOf)
  OBVIOUS
<1>2. PICK p \in Seq(BufferOf) : p = s.buf
  BY <1>1, Zenon
<1>3. i \in DOMAIN p
  BY <1>2, Zenon
<1>4. p[i] \in BufferOf
  BY <1>3
<1>5. SavedBuffer(p[i]) \in BufferOf
  BY <1>4 DEF SavedBuffer, BufferOf
<1>6. [p EXCEPT ![i].flushed = TRUE] = [p EXCEPT ![i] = SavedBuffer(p[i])]
  <2>1. [p[i] EXCEPT !.flushed = TRUE] = SavedBuffer(p[i])
    BY <1>4, BufferEdits, Zenon DEF SavedBuffer
  <2> QED BY <2>1
<1>7. Changed(p, [p EXCEPT ![i].flushed = TRUE], i, SavedBuffer(p[i]))
  <2>1. PICK q : q = [p EXCEPT ![i] = SavedBuffer(p[i])]
    OBVIOUS
  <2>2. Changed(p, q, i, SavedBuffer(p[i]))
    BY <1>3, <1>5, <2>1, ChangedBy, Zenon
  <2> QED BY <1>6, <2>1, <2>2, Zenon
<1>8. Buffers!Flush(s, i).buf = [s.buf EXCEPT ![i].flushed = TRUE]
  BY DEF Buffers!Flush
<1>9. Changed(s.buf, Buffers!Flush(s, i).buf, i, SavedBuffer(s.buf[i]))
  BY <1>2, <1>7, <1>8, Zenon
<1>10. Buffers!Flush(s, i).holders =
              [u \in Unit |->
                  IF u \notin Buffers!Covers(s.buf[i]) THEN s.holders[u]
                  ELSE IF s.buf[i].ptr \in s.holders[u] THEN s.holders[u] \cup {Buffers!VRAM}
                  ELSE s.holders[u] \ {Buffers!VRAM}]
  BY DEF Buffers!Flush
<1>11. DOMAIN Buffers!Flush(s, i) = {"buf", "holders"}
  BY DEF Buffers!Flush
<1>12. Buffers!Flush(s, i) =
              [buf |-> Buffers!Flush(s, i).buf, holders |-> Buffers!Flush(s, i).holders]
  BY DEF Buffers!Flush
<1> QED BY <1>9, <1>10, <1>11, <1>12, Zenon

(* Copied to video RAM, a buffer may go.                                   *)
IsFlushed(s, t, i) ==
  /\ Alike(s, t)
  /\ \A j \in DOMAIN s.buf : t.buf[j].addr = s.buf[j].addr /\ (j # i => t.buf[j] = s.buf[j])
  /\ t.buf[i].flushed /\ InVram(t, t.buf[i])

LEMMA CoversSame ==
  ASSUME NEW b, NEW c, b.addr = c.addr, b.size = c.size
  PROVE  Buffers!Covers(b) = Buffers!Covers(c)
BY DEF Buffers!Covers

LEMMA Flushing ==
  ASSUME NEW s, NEW W, Good(s, W), NEW i \in DOMAIN s.buf
  PROVE  Good(Buffers!Flush(s, i), W) /\ IsFlushed(s, Buffers!Flush(s, i), i)
<1>0. PICK t : t = Buffers!Flush(s, i)
  OBVIOUS
<1>1. /\ s \in [buf : Seq(BufferOf), holders : Holdings] /\ Buffered(s.buf)
      /\ \A u \in Unit : Shows(s, u) /\ (u \notin W => Saves(s, u))
  BY DEF Good
<1>2. /\ Changed(s.buf, t.buf, i, SavedBuffer(s.buf[i]))
      /\ t.holders = [u \in Unit |->
                  IF u \notin Buffers!Covers(s.buf[i]) THEN s.holders[u]
                  ELSE IF s.buf[i].ptr \in s.holders[u] THEN s.holders[u] \cup {Buffers!VRAM}
                  ELSE s.holders[u] \ {Buffers!VRAM}]
      /\ t = [buf |-> t.buf, holders |-> t.holders]
  BY <1>0, <1>1, FlushFields, Zenon
<1>3. /\ t.buf \in Seq(BufferOf) /\ Len(t.buf) = Len(s.buf) /\ DOMAIN t.buf = DOMAIN s.buf
      /\ t.buf[i] = SavedBuffer(s.buf[i])
      /\ \A j \in DOMAIN s.buf \ {i} : t.buf[j] = s.buf[j]
  BY <1>2 DEF Changed
<1>4. /\ t.buf[i].ptr = s.buf[i].ptr /\ t.buf[i].addr = s.buf[i].addr
      /\ t.buf[i].size = s.buf[i].size /\ t.buf[i].flushed
  <2>1. PICK b : b = s.buf[i]
    OBVIOUS
  <2>2. /\ SavedBuffer(b).ptr = b.ptr /\ SavedBuffer(b).addr = b.addr
        /\ SavedBuffer(b).size = b.size /\ SavedBuffer(b).flushed
    BY DEF SavedBuffer
  <2> QED BY <1>3, <2>1, <2>2, Zenon
<1>5. Buffers!Covers(t.buf[i]) = Buffers!Covers(s.buf[i])
  BY <1>4, CoversSame, Zenon
<1>6. \A j \in DOMAIN s.buf :
         /\ t.buf[j].ptr = s.buf[j].ptr /\ t.buf[j].addr = s.buf[j].addr
         /\ t.buf[j].size = s.buf[j].size
         /\ Buffers!Covers(t.buf[j]) = Buffers!Covers(s.buf[j])
         /\ (j # i => t.buf[j] = s.buf[j])
  BY <1>3, <1>4, <1>5, Zenon
<1>7. ASSUME NEW u \in Unit
      PROVE  /\ u \in Buffers!Covers(s.buf[i]) =>
                  t.holders[u] = s.holders[u] \cup {Buffers!VRAM}
             /\ u \notin Buffers!Covers(s.buf[i]) => t.holders[u] = s.holders[u]
  <2>1. u \in Buffers!Covers(s.buf[i]) => s.buf[i].ptr \in s.holders[u]
    BY <1>1 DEF Shows
  <2> QED BY <1>2, <2>1
<1>8. t \in [buf : Seq(BufferOf), holders : Holdings]
  <2>1. \A u \in Unit : s.holders[u] \in SUBSET (Buffers!Pointer \cup {Buffers!VRAM})
    BY <1>1 DEF Holdings
  <2>2. \A u \in Unit : t.holders[u] \in SUBSET (Buffers!Pointer \cup {Buffers!VRAM})
    BY <2>1, <1>7
  <2>3. t.holders \in Holdings
    BY <1>2, <2>2 DEF Holdings
  <2>4. [buf |-> t.buf, holders |-> t.holders] \in [buf : Seq(BufferOf), holders : Holdings]
    BY <1>3, <2>3
  <2> QED BY <1>2, <2>4, Zenon
<1>9. Buffered(t.buf)
  <2>1. \A j \in DOMAIN t.buf : HasFrame(t.buf[j])
    BY <1>1, <1>3, <1>6 DEF Buffered, HasFrame
  <2>2. \A j, k \in DOMAIN t.buf : j # k =>
            /\ t.buf[j].ptr # t.buf[k].ptr
            /\ t.buf[j].addr # Buffers!NOWHERE => t.buf[j].addr # t.buf[k].addr
    BY <1>1, <1>3, <1>6 DEF Buffered
  <2>3. Len(t.buf) <= MAX_RENDER_BUFFERS
    BY <1>1, <1>3 DEF Buffered
  <2> QED BY <1>3, <2>1, <2>2, <2>3 DEF Buffered
<1>10. ASSUME NEW u \in Unit PROVE Shows(t, u)
  <2>1. ASSUME NEW j \in DOMAIN t.buf, u \in Buffers!Covers(t.buf[j])
        PROVE  t.buf[j].ptr \in t.holders[u]
    <3>1. s.buf[j].ptr \in s.holders[u]
      BY <1>1, <1>3, <1>6, <2>1 DEF Shows
    <3>2. s.holders[u] \subseteq t.holders[u]
      BY <1>7
    <3> QED BY <1>3, <1>6, <2>1, <3>1, <3>2
  <2> QED BY <2>1 DEF Shows
<1>11. ASSUME NEW u \in Unit, u \notin W PROVE Saves(t, u)
  <2>1. CASE u \in Buffers!Covers(s.buf[i])
    BY <1>7, <2>1 DEF Saves
  <2>2. CASE u \notin Buffers!Covers(s.buf[i])
    <3>1. Saves(s, u) /\ t.holders[u] = s.holders[u]
      BY <1>1, <1>7, <1>11, <2>2
    <3>2. CASE Buffers!VRAM \in s.holders[u]
      BY <3>1, <3>2 DEF Saves
    <3>3. CASE Buffers!VRAM \notin s.holders[u]
      <4>1. PICK j \in DOMAIN s.buf : /\ u \in Buffers!Covers(s.buf[j]) /\ ~s.buf[j].flushed
                                     /\ s.buf[j].ptr \in s.holders[u]
        BY <3>1, <3>3 DEF Saves
      <4>2. j # i
        BY <2>2, <4>1
      <4>3. t.buf[j] = s.buf[j]
        BY <1>6, <4>2
      <4> QED BY <1>3, <3>1, <4>1, <4>3 DEF Saves
    <3> QED BY <3>2, <3>3
  <2> QED BY <2>1, <2>2
<1>12. Good(t, W)
  BY <1>8, <1>9, <1>10, <1>11 DEF Good
<1>13. Alike(s, t)
  <2>1. \A u \in Unit : Buffers!VRAM \in s.holders[u] => Buffers!VRAM \in t.holders[u]
    BY <1>7
  <2> QED BY <1>3, <1>6, <2>1 DEF Alike
<1>14. InVram(t, t.buf[i])
  <2>1. ASSUME NEW u \in Buffers!Covers(s.buf[i]) PROVE Buffers!VRAM \in t.holders[u]
    <3>1. u \in Unit
      BY DEF Buffers!Covers
    <3> QED BY <1>7, <3>1
  <2> QED BY <1>5, <2>1 DEF InVram
<1>15. IsFlushed(s, t, i)
  BY <1>4, <1>6, <1>13, <1>14 DEF IsFlushed
<1> QED BY <1>0, <1>12, <1>15, Zenon

(* What is in video RAM, or is about to be written, may be forgotten.      *)
IsForgotten(s, t, i) ==
  /\ Alike(s, t) /\ t.holders = s.holders
  /\ \A j \in DOMAIN s.buf : j # i => t.buf[j] = s.buf[j]
  /\ t.buf[i].addr = Buffers!NOWHERE

LEMMA ForgetFields ==
  ASSUME NEW s, s \in [buf : Seq(BufferOf), holders : Holdings], NEW i \in DOMAIN s.buf
  PROVE  /\ Changed(s.buf, Buffers!Forget(s, i).buf, i, FreeBuffer(s.buf[i]))
         /\ Buffers!Forget(s, i).holders = s.holders
         /\ Buffers!Forget(s, i) \in [buf : Seq(BufferOf), holders : Holdings]
<1>1. PICK p \in Seq(BufferOf), h \in Holdings : s = [buf |-> p, holders |-> h]
  OBVIOUS
<1>2. s.buf = p /\ s.holders = h
  BY <1>1
<1>3. i \in DOMAIN p
  BY <1>2, Zenon
<1>4. p[i] \in BufferOf
  BY <1>3
<1>5. FreeBuffer(p[i]) \in BufferOf
  <2>1. Buffers!NOWHERE \in Int
    BY FrameFacts
  <2> QED BY <1>4, <2>1 DEF FreeBuffer, BufferOf
<1> DEFINE A == [p EXCEPT ![i] = [p[i] EXCEPT !.addr = Buffers!NOWHERE]]
           q == [p EXCEPT ![i] = FreeBuffer(p[i])]
<1>6. [A EXCEPT ![i] = [A[i] EXCEPT !.flushed = TRUE]] = q
  <2>0. PICK b \in BufferOf : b = p[i]
    BY <1>4
  <2>1. PICK c : c = [b EXCEPT !.addr = Buffers!NOWHERE]
    OBVIOUS
  <2>2. [c EXCEPT !.flushed = TRUE] = FreeBuffer(b)
    <3>1. c = [ptr |-> b.ptr, addr |-> Buffers!NOWHERE, size |-> b.size, flushed |-> b.flushed]
      BY <2>1, BufferEdits, Zenon
    <3>2. FreeBuffer(b) =
            [ptr |-> b.ptr, addr |-> Buffers!NOWHERE, size |-> b.size, flushed |-> TRUE]
      BY DEF FreeBuffer
    <3>3. c.ptr = b.ptr /\ c.size = b.size /\ c.addr = Buffers!NOWHERE
      BY <3>1
    <3>4. c \in BufferOf
      <4>1. Buffers!NOWHERE \in Int
        BY FrameFacts
      <4> QED BY <3>1, <4>1 DEF BufferOf
    <3>5. [c EXCEPT !.flushed = TRUE] =
            [ptr |-> c.ptr, addr |-> c.addr, size |-> c.size, flushed |-> TRUE]
      BY <3>4, BufferEdits, Zenon
    <3> QED BY <3>2, <3>3, <3>5, Zenon
  <2>3. A = [p EXCEPT ![i] = c]
    BY <2>0, <2>1, Zenon
  <2>4. A[i] = c /\ DOMAIN A = DOMAIN p
    BY <1>3, <2>3
  <2>5. [A EXCEPT ![i] = [A[i] EXCEPT !.flushed = TRUE]] = [A EXCEPT ![i] = FreeBuffer(b)]
    BY <2>2, <2>4, Zenon
  <2>6. [A EXCEPT ![i] = FreeBuffer(b)] = [p EXCEPT ![i] = FreeBuffer(b)]
    BY <2>3
  <2> QED BY <2>0, <2>5, <2>6, Zenon
<1>7. Buffers!Forget(s, i) =
        [buf |-> [A EXCEPT ![i] = [A[i] EXCEPT !.flushed = TRUE]], holders |-> h]
  <2>1. [s EXCEPT !.buf = [s.buf EXCEPT ![i] = [s.buf[i] EXCEPT !.addr = Buffers!NOWHERE]]] =
           [buf |-> A, holders |-> h]
    <3>1. s.holders = h /\ [s.buf EXCEPT ![i] = [s.buf[i] EXCEPT !.addr = Buffers!NOWHERE]] = A
      BY <1>2, Zenon
    <3>2. PICK g : g = [s.buf EXCEPT ![i] = [s.buf[i] EXCEPT !.addr = Buffers!NOWHERE]]
      OBVIOUS
    <3>3. [s EXCEPT !.buf = g] = [buf |-> g, holders |-> s.holders]
      BY StateEdits, Zenon
    <3> QED BY <3>1, <3>2, <3>3, Zenon
  <2>2. [s EXCEPT !.buf[i].addr = Buffers!NOWHERE] =
        [s EXCEPT !.buf = [s.buf EXCEPT ![i] = [s.buf[i] EXCEPT !.addr = Buffers!NOWHERE]]]
    BY Zenon
  <2>3. PICK c : c = [buf |-> A, holders |-> h]
    OBVIOUS
  <2>4. c.buf = A /\ c.holders = h
    BY <2>3
  <2>5. [c EXCEPT !.buf[i].flushed = TRUE] =
        [c EXCEPT !.buf = [c.buf EXCEPT ![i] = [c.buf[i] EXCEPT !.flushed = TRUE]]]
    BY Zenon
  <2> HIDE DEF A
  <2>6. \A g : [c EXCEPT !.buf = g] = [buf |-> g, holders |-> h]
    BY <2>3
  <2>7. Buffers!Forget(s, i) = [c EXCEPT !.buf[i].flushed = TRUE]
    BY <2>1, <2>2, <2>3, Zenon DEF Buffers!Forget
  <2> QED BY <2>4, <2>5, <2>6, <2>7, Zenon
<1>8. Changed(p, q, i, FreeBuffer(p[i]))
  <2>1. PICK c : c = q
    OBVIOUS
  <2>2. Changed(p, c, i, FreeBuffer(p[i]))
    BY <1>3, <1>5, <2>1, ChangedBy, Zenon
  <2> QED BY <2>1, <2>2, Zenon
<1> HIDE DEF A, q
<1>9. Buffers!Forget(s, i) = [buf |-> q, holders |-> h]
  BY <1>6, <1>7, Zenon
<1>10. Buffers!Forget(s, i).buf = q /\ Buffers!Forget(s, i).holders = h
  BY <1>9
<1>11. q \in Seq(BufferOf)
  BY <1>8 DEF Changed
<1>12. [buf |-> q, holders |-> h] \in [buf : Seq(BufferOf), holders : Holdings]
  BY <1>11
<1> QED BY <1>2, <1>8, <1>9, <1>10, <1>12, Zenon

LEMMA Forgetting ==
  ASSUME NEW s, NEW W, Good(s, W), NEW i \in DOMAIN s.buf,
         \A u \in Buffers!Covers(s.buf[i]) : u \in W \/ Buffers!VRAM \in s.holders[u]
  PROVE  Good(Buffers!Forget(s, i), W) /\ IsForgotten(s, Buffers!Forget(s, i), i)
<1>0. PICK t : t = Buffers!Forget(s, i)
  OBVIOUS
<1>1. /\ s \in [buf : Seq(BufferOf), holders : Holdings] /\ Buffered(s.buf)
      /\ \A u \in Unit : Shows(s, u) /\ (u \notin W => Saves(s, u))
  BY DEF Good
<1>2. /\ Changed(s.buf, t.buf, i, FreeBuffer(s.buf[i]))
      /\ t.holders = s.holders
      /\ t \in [buf : Seq(BufferOf), holders : Holdings]
  BY <1>0, <1>1, ForgetFields, Zenon
<1>3. /\ t.buf \in Seq(BufferOf) /\ Len(t.buf) = Len(s.buf) /\ DOMAIN t.buf = DOMAIN s.buf
      /\ t.buf[i] = FreeBuffer(s.buf[i])
      /\ \A j \in DOMAIN s.buf \ {i} : t.buf[j] = s.buf[j]
  BY <1>2 DEF Changed
<1>4. /\ t.buf[i].ptr = s.buf[i].ptr /\ t.buf[i].addr = Buffers!NOWHERE
      /\ t.buf[i].size = s.buf[i].size
  <2>1. PICK b : b = s.buf[i]
    OBVIOUS
  <2>2. /\ FreeBuffer(b).ptr = b.ptr /\ FreeBuffer(b).addr = Buffers!NOWHERE
        /\ FreeBuffer(b).size = b.size
    BY DEF FreeBuffer
  <2> QED BY <1>3, <2>1, <2>2, Zenon
<1>5. Buffers!Covers(t.buf[i]) = {}
  BY <1>4 DEF Buffers!Covers
<1>6. Buffered(t.buf)
  <2>1. HasFrame(FreeBuffer(s.buf[i]))
    BY <1>3, <1>4 DEF HasFrame
  <2>2. \A j \in DOMAIN s.buf \ {i} :
          /\ s.buf[j].ptr # FreeBuffer(s.buf[i]).ptr
          /\ (FreeBuffer(s.buf[i]).addr # Buffers!NOWHERE =>
                s.buf[j].addr # FreeBuffer(s.buf[i]).addr)
    <3>1. \A j \in DOMAIN s.buf \ {i} : s.buf[j].ptr # s.buf[i].ptr
      BY <1>1 DEF Buffered
    <3>2. FreeBuffer(s.buf[i]).ptr = s.buf[i].ptr /\ FreeBuffer(s.buf[i]).addr = Buffers!NOWHERE
      BY DEF FreeBuffer
    <3> QED BY <3>1, <3>2
  <2> QED BY <1>1, <1>2, <2>1, <2>2, ChangedIsBuffered
<1>7. ASSUME NEW u \in Unit PROVE Shows(t, u)
  <2>1. ASSUME NEW j \in DOMAIN t.buf, u \in Buffers!Covers(t.buf[j])
        PROVE  t.buf[j].ptr \in t.holders[u]
    <3>1. j # i
      BY <1>5, <2>1
    <3>2. t.buf[j] = s.buf[j]
      BY <1>3, <3>1
    <3> QED BY <1>1, <1>2, <1>3, <2>1, <3>2 DEF Shows
  <2> QED BY <2>1 DEF Shows
<1>8. ASSUME NEW u \in Unit, u \notin W PROVE Saves(t, u)
  <2>1. Saves(s, u)
    BY <1>1, <1>8
  <2>2. CASE Buffers!VRAM \in s.holders[u]
    BY <1>2, <2>2 DEF Saves
  <2>3. CASE Buffers!VRAM \notin s.holders[u]
    <3>1. PICK j \in DOMAIN s.buf : /\ u \in Buffers!Covers(s.buf[j]) /\ ~s.buf[j].flushed
                                   /\ s.buf[j].ptr \in s.holders[u]
      BY <2>1, <2>3 DEF Saves
    <3>2. j # i
      BY <1>8, <2>3, <3>1
    <3>3. t.buf[j] = s.buf[j]
      BY <1>3, <3>2
    <3> QED BY <1>2, <1>3, <3>1, <3>3 DEF Saves
  <2> QED BY <2>2, <2>3
<1>9. Good(t, W)
  BY <1>2, <1>6, <1>7, <1>8 DEF Good
<1>10. Alike(s, t)
  BY <1>2, <1>3, <1>4 DEF Alike
<1>11. IsForgotten(s, t, i)
  BY <1>2, <1>3, <1>4, <1>10 DEF IsForgotten
<1> QED BY <1>0, <1>9, <1>11, Zenon

(* The turns of the loops over the buffers: of pvr2_alloc_render_buffer,   *)
(* of the copying back of all, and of the listing of those in use.         *)
LoopTurn(kind, s, x, i, a, z) ==
  IF kind = "visit" THEN Buffers!Visited(s, x, i, a, z)
  ELSE IF kind = "save" THEN Buffers!Saved(x, i)
  ELSE IF buf[i].addr = Buffers!NOWHERE THEN x ELSE Append(x, i)

LoopTurns(g, kind, s, e, n, a, z) ==
  g = [i \in 0 .. n |-> IF i = 0 THEN e ELSE LoopTurn(kind, s, g[i - 1], i, a, z)]

LEMMA LoopTurnsExist ==
  ASSUME NEW kind, NEW s, NEW e, NEW n \in Nat, NEW a, NEW z
  PROVE  \E g : LoopTurns(g, kind, s, e, n, a, z)
<1> DEFINE T == {k \in Nat : \E g : LoopTurns(g, kind, s, e, k, a, z)}
<1>1. 0 \in T
  <2>1. PICK g : g = [i \in 0 .. 0 |-> e]
    OBVIOUS
  <2>2. g = [i \in 0 .. 0 |-> IF i = 0 THEN e ELSE LoopTurn(kind, s, g[i - 1], i, a, z)]
    BY <2>1
  <2> QED BY <2>2 DEF LoopTurns
<1>2. ASSUME NEW k \in Nat, k \in T
      PROVE  k + 1 \in T
  <2>1. PICK g : g = [i \in 0 .. k |-> IF i = 0 THEN e ELSE LoopTurn(kind, s, g[i - 1], i, a, z)]
    BY <1>2 DEF LoopTurns
  <2>2. PICK h : h = [i \in 0 .. k + 1 |->
                        IF i <= k THEN g[i] ELSE LoopTurn(kind, s, g[k], i, a, z)]
    OBVIOUS
  <2>3. \A i \in 0 .. k + 1 : h[i] = IF i = 0 THEN e ELSE LoopTurn(kind, s, h[i - 1], i, a, z)
    <3> SUFFICES ASSUME NEW i \in 0 .. k + 1
                 PROVE  h[i] = IF i = 0 THEN e ELSE LoopTurn(kind, s, h[i - 1], i, a, z)
      OBVIOUS
    <3>1. CASE i = 0
      BY <2>1, <2>2, <3>1
    <3>2. CASE i # 0 /\ i <= k
      <4>1. h[i] = g[i] /\ h[i - 1] = g[i - 1] /\ i \in 0 .. k
        BY <2>2, <3>2
      <4> QED BY <2>1, <3>2, <4>1
    <3>3. CASE i = k + 1
      <4>1. h[i] = LoopTurn(kind, s, g[k], i, a, z) /\ h[i - 1] = g[k] /\ i # 0
        BY <2>2, <3>3
      <4> QED BY <4>1
    <3> QED BY <3>1, <3>2, <3>3
  <2>4. h = [i \in 0 .. k + 1 |-> IF i = 0 THEN e ELSE LoopTurn(kind, s, h[i - 1], i, a, z)]
    BY <2>2, <2>3
  <2> QED BY <2>4 DEF LoopTurns
<1>3. T \subseteq Nat
  OBVIOUS
<1> HIDE DEF T
<1>4. n \in T
  BY <1>1, <1>2, <1>3, AllNaturals
<1> QED BY <1>4 DEF T

LEMMA LoopTurnFacts ==
  ASSUME NEW s, NEW x, NEW i, NEW a, NEW z
  PROVE  /\ LoopTurn("visit", s, x, i, a, z) = Buffers!Visited(s, x, i, a, z)
         /\ LoopTurn("save", s, x, i, a, z) = Buffers!Saved(x, i)
         /\ LoopTurn("list", s, x, i, a, z) =
              IF buf[i].addr = Buffers!NOWHERE THEN x ELSE Append(x, i)
BY DEF LoopTurn

LEMMA ScannedUnfolded ==
  ASSUME NEW s, NEW a, NEW z, Len(s.buf) \in Nat
  PROVE  \E g : /\ g[0] = s
                /\ \A k \in 1 .. Len(s.buf) : g[k] = Buffers!Visited(s, g[k - 1], k, a, z)
                /\ Buffers!Scanned(s, a, z) = g[Len(s.buf)]
<1> DEFINE of == CHOOSE g : g = [n \in 0 .. Len(s.buf) |->
                     IF n = 0 THEN s ELSE Buffers!Visited(s, g[n - 1], n, a, z)]
<1>1. PICK g : g = [k \in 0 .. Len(s.buf) |->
                     IF k = 0 THEN s ELSE Buffers!Visited(s, g[k - 1], k, a, z)]
  <2>1. PICK n \in Nat : n = Len(s.buf)
    OBVIOUS
  <2>2. PICK g : LoopTurns(g, "visit", s, s, n, a, z)
    BY LoopTurnsExist
  <2> QED BY <2>1, <2>2, LoopTurnFacts DEF LoopTurns
<1>2. of = [k \in 0 .. Len(s.buf) |->
              IF k = 0 THEN s ELSE Buffers!Visited(s, of[k - 1], k, a, z)]
  BY <1>1
<1>3. Buffers!Scanned(s, a, z) = of[Len(s.buf)]
  BY Zenon DEF Buffers!Scanned
<1> HIDE DEF of
<1>4. of[0] = s
  BY <1>2
<1>5. ASSUME NEW k \in 1 .. Len(s.buf)
      PROVE  of[k] = Buffers!Visited(s, of[k - 1], k, a, z)
  <2>1. k \in 0 .. Len(s.buf) /\ k # 0
    OBVIOUS
  <2> QED BY <1>2, <2>1
<1> QED BY <1>3, <1>4, <1>5

LEMMA SavedUnfolded ==
  ASSUME Len(buf) \in Nat
  PROVE  \E g : /\ g[0] = Buffers!Now
                /\ \A k \in 1 .. Len(buf) : g[k] = Buffers!Saved(g[k - 1], k)
                /\ Buffers!AllFlushed = g[Len(buf)]
<1> DEFINE of == CHOOSE g : g = [n \in 0 .. Len(buf) |->
                     IF n = 0 THEN Buffers!Now ELSE Buffers!Saved(g[n - 1], n)]
<1>1. PICK g : g = [k \in 0 .. Len(buf) |->
                     IF k = 0 THEN Buffers!Now ELSE Buffers!Saved(g[k - 1], k)]
  <2>1. PICK n \in Nat : n = Len(buf)
    OBVIOUS
  <2>2. PICK g : LoopTurns(g, "save", 0, Buffers!Now, n, 0, 0)
    BY LoopTurnsExist
  <2> QED BY <2>1, <2>2, LoopTurnFacts DEF LoopTurns
<1>2. of = [k \in 0 .. Len(buf) |->
              IF k = 0 THEN Buffers!Now ELSE Buffers!Saved(of[k - 1], k)]
  BY <1>1
<1>3. Buffers!AllFlushed = of[Len(buf)]
  BY Zenon DEF Buffers!AllFlushed
<1> HIDE DEF of
<1>4. of[0] = Buffers!Now
  BY <1>2
<1>5. ASSUME NEW k \in 1 .. Len(buf)
      PROVE  of[k] = Buffers!Saved(of[k - 1], k)
  <2>1. k \in 0 .. Len(buf) /\ k # 0
    OBVIOUS
  <2> QED BY <1>2, <2>1
<1> QED BY <1>3, <1>4, <1>5

ListsUsed(g, l) ==
  /\ g[0] = <<>>
  /\ \A k \in 1 .. l :
       g[k] = IF buf[k].addr = Buffers!NOWHERE THEN g[k - 1] ELSE Append(g[k - 1], k)
  /\ Buffers!InUse = g[l]

LEMMA InUseUnfolded ==
  ASSUME Len(buf) \in Nat
  PROVE  \E g : ListsUsed(g, Len(buf))
<1> DEFINE of == CHOOSE g : g = [n \in 0 .. Len(buf) |->
                     IF n = 0 THEN <<>>
                     ELSE IF buf[n].addr = Buffers!NOWHERE THEN g[n - 1]
                     ELSE Append(g[n - 1], n)]
<1>1. PICK g : g = [k \in 0 .. Len(buf) |->
                     IF k = 0 THEN <<>>
                     ELSE IF buf[k].addr = Buffers!NOWHERE THEN g[k - 1]
                     ELSE Append(g[k - 1], k)]
  <2>1. PICK n \in Nat : n = Len(buf)
    OBVIOUS
  <2>2. PICK e : e = <<>>
    OBVIOUS
  <2>3. PICK g : LoopTurns(g, "list", 0, e, n, 0, 0)
    BY LoopTurnsExist
  <2> QED BY <2>1, <2>2, <2>3, LoopTurnFacts DEF LoopTurns
<1>2. of = [k \in 0 .. Len(buf) |->
                     IF k = 0 THEN <<>>
                     ELSE IF buf[k].addr = Buffers!NOWHERE THEN of[k - 1]
                     ELSE Append(of[k - 1], k)]
  BY <1>1
<1>3. Buffers!InUse = of[Len(buf)]
  BY Zenon DEF Buffers!InUse
<1> HIDE DEF of
<1>4. of[0] = <<>>
  BY <1>2
<1>5. ASSUME NEW k \in 1 .. Len(buf)
      PROVE  of[k] = IF buf[k].addr = Buffers!NOWHERE THEN of[k - 1] ELSE Append(of[k - 1], k)
  <2>1. k \in 0 .. Len(buf) /\ k # 0
    OBVIOUS
  <2> QED BY <1>2, <2>1
<1> QED BY <1>3, <1>4, <1>5 DEF ListsUsed

(* What is looked at on the way to a buffer for a frame.                   *)
Under(f) ==
  {u \in Unit : /\ Buffers!Base(f.addr) <= PVR2_RAM_BASE + u
                /\ PVR2_RAM_BASE + u < Buffers!Base(f.addr) + f.size}

Fitting(s, a, z) == \E i \in DOMAIN s.buf : Buffers!Fits(s.buf[i], a, z)

Looked(s, t, n, a, z) ==
  /\ Alike(s, t)
  /\ \A j \in DOMAIN s.buf : j > n => t.buf[j] = s.buf[j]
  /\ Fitting(s, a, z) => t = s
  /\ \A j \in DOMAIN s.buf : j <= n /\ t.buf[j].addr = a => Fitting(s, a, z)

LEMMA AlikeTwice ==
  ASSUME NEW w, NEW s, NEW t, Alike(w, s), Alike(s, t)
  PROVE  Alike(w, t)
BY DEF Alike

LEMMA CoversUnder ==
  ASSUME NEW b \in BufferOf, NEW f \in Frames, b.addr = Buffers!Base(f.addr)
  PROVE  /\ b.size <= f.size => Buffers!Covers(b) \subseteq Under(f)
         /\ b.size = f.size => Buffers!Covers(b) = Under(f)
<1>0. PICK c \in BufferOf : c = b
  OBVIOUS
<1>1. c.addr \in Int /\ c.size \in Int /\ c.addr = Buffers!Base(f.addr)
  BY <1>0 DEF BufferOf
<1>2. \A u : u \in Buffers!Covers(c) <=>
           /\ u \in Unit /\ c.addr # Buffers!NOWHERE
           /\ c.addr <= PVR2_RAM_BASE + u /\ PVR2_RAM_BASE + u < c.addr + c.size
  BY <1>1, CoversAre
<1>3. c.addr # Buffers!NOWHERE /\ f.size \in Nat /\ PVR2_RAM_BASE \in Nat /\ Unit \subseteq Nat
  BY <1>1, FrameFacts
<1>4. ASSUME NEW u \in Buffers!Covers(c), c.size <= f.size PROVE u \in Under(f)
  <2>1. /\ u \in Unit /\ Buffers!Base(f.addr) <= PVR2_RAM_BASE + u
        /\ PVR2_RAM_BASE + u < c.addr + c.size
    BY <1>1, <1>2
  <2>2. PVR2_RAM_BASE + u < c.addr + f.size
    BY <1>1, <1>3, <1>4, <2>1
  <2> QED BY <1>1, <2>1, <2>2 DEF Under
<1>5. ASSUME NEW u \in Under(f), c.size = f.size PROVE u \in Buffers!Covers(c)
  <2>1. /\ u \in Unit /\ Buffers!Base(f.addr) <= PVR2_RAM_BASE + u
        /\ PVR2_RAM_BASE + u < Buffers!Base(f.addr) + f.size
    BY DEF Under
  <2> QED BY <1>1, <1>2, <1>3, <1>5, <2>1
<1>6. c.size = f.size => c.size <= f.size
  BY <1>1
<1> QED BY <1>0, <1>4, <1>5, <1>6

LEMMA VisitKeeps ==
  ASSUME NEW s, NEW f \in Frames, Good(s, Under(f)), NEW t, Good(t, Under(f)),
         NEW n \in Nat, NEW i \in DOMAIN s.buf, i = n + 1,
         NEW a, a = Buffers!Base(f.addr), NEW z, z = f.size, Looked(s, t, n, a, z)
  PROVE  /\ Good(Buffers!Visited(s, t, i, a, z), Under(f))
         /\ Looked(s, Buffers!Visited(s, t, i, a, z), i, a, z)
<1>0. PICK v : v = Buffers!Visited(s, t, i, a, z)
  OBVIOUS
<1>1. /\ s.buf \in Seq(BufferOf) /\ Buffered(s.buf)
      /\ t.buf \in Seq(BufferOf) /\ Buffered(t.buf)
  BY DEF Good
<1>2. /\ Alike(s, t) /\ DOMAIN t.buf = DOMAIN s.buf
      /\ \A j \in DOMAIN s.buf : j > n => t.buf[j] = s.buf[j]
      /\ Fitting(s, a, z) => t = s
      /\ \A j \in DOMAIN s.buf : j <= n /\ t.buf[j].addr = a => Fitting(s, a, z)
  BY DEF Looked, Alike
<1>3. DOMAIN s.buf = 1 .. Len(s.buf) /\ Len(s.buf) \in Nat
  BY <1>1
<1>4. i > n /\ \A j \in DOMAIN s.buf : j <= i <=> j <= n \/ j = i
  BY <1>3
<1>5. t.buf[i] = s.buf[i]
  BY <1>2, <1>4
<1>6. CASE t.buf[i].addr # a
  <2>1. v = t
    BY <1>0, <1>6 DEF Buffers!Visited
  <2>2. Looked(s, t, i, a, z)
    <3>1. \A j \in DOMAIN s.buf : j > i => t.buf[j] = s.buf[j]
      BY <1>2, <1>3
    <3>2. \A j \in DOMAIN s.buf : j <= i /\ t.buf[j].addr = a => Fitting(s, a, z)
      BY <1>2, <1>4, <1>6
    <3> QED BY <1>2, <3>1, <3>2 DEF Looked
  <2> QED BY <1>0, <2>1, <2>2
<1>7. CASE \E j \in 1 .. i : Buffers!Fits(s.buf[j], a, z)
  <2>1. v = t
    BY <1>0, <1>7 DEF Buffers!Visited
  <2>2. Looked(s, t, i, a, z)
    <3>1. \A j \in DOMAIN s.buf : j > i => t.buf[j] = s.buf[j]
      BY <1>2, <1>3
    <3>2. Fitting(s, a, z)
      BY <1>3, <1>7 DEF Fitting
    <3> QED BY <1>2, <3>1, <3>2 DEF Looked
  <2> QED BY <1>0, <2>1, <2>2
<1>8. CASE t.buf[i].addr = a /\ ~\E j \in 1 .. i : Buffers!Fits(s.buf[j], a, z)
  <2>1. ~Fitting(s, a, z)
    <3>1. SUFFICES ASSUME NEW k \in DOMAIN s.buf, Buffers!Fits(s.buf[k], a, z) PROVE FALSE
      BY DEF Fitting
    <3>2. s.buf[k].addr = a
      BY <3>1 DEF Buffers!Fits
    <3>3. s.buf[i].addr = a
      BY <1>5, <1>8
    <3>4. a # Buffers!NOWHERE
      BY FrameFacts
    <3>5. k = i
      BY <1>1, <3>2, <3>3, <3>4 DEF Buffered
    <3> QED BY <1>3, <1>8, <3>1, <3>5
  <2>2. t.buf[i] \in BufferOf /\ i \in DOMAIN t.buf
    BY <1>1, <1>2
  <2>3. t.buf[i].size \in Int /\ z \in Nat
    <3>1. PICK b \in BufferOf : b = t.buf[i]
      BY <2>2
    <3> QED BY <3>1, FrameFacts DEF BufferOf
  <2>4. ASSUME NEW x, Alike(s, x),
               \A j \in DOMAIN s.buf : j # i => x.buf[j] = t.buf[j],
               x.buf[i].addr = Buffers!NOWHERE
        PROVE  Looked(s, x, i, a, z)
    <3>1. \A j \in DOMAIN s.buf : j > i => x.buf[j] = s.buf[j]
      <4>1. \A j \in DOMAIN s.buf : j > i => j # i /\ j > n
        BY <1>3
      <4> QED BY <1>2, <2>4, <4>1
    <3>2. ASSUME NEW j \in DOMAIN s.buf, j <= i, x.buf[j].addr = a PROVE Fitting(s, a, z)
      <4>1. a # Buffers!NOWHERE
        BY FrameFacts
      <4>2. j # i
        BY <2>4, <3>2, <4>1
      <4>3. j <= n
        BY <1>4, <3>2, <4>2
      <4>4. t.buf[j].addr = a
        BY <2>4, <3>2, <4>2
      <4> QED BY <1>2, <4>3, <4>4
    <3> QED BY <2>1, <2>4, <3>1, <3>2 DEF Looked
  <2>5. CASE t.buf[i].size > z
    <3>1. PICK x : x = Buffers!Flush(t, i)
      OBVIOUS
    <3>2. Good(x, Under(f)) /\ IsFlushed(t, x, i)
      BY <2>2, <3>1, Flushing, Zenon
    <3>3. v = Buffers!Forget(x, i)
      BY <1>0, <1>8, <2>5, <3>1 DEF Buffers!Visited
    <3>4. /\ Alike(t, x) /\ i \in DOMAIN x.buf
          /\ \A u \in Buffers!Covers(x.buf[i]) : u \in Under(f) \/ Buffers!VRAM \in x.holders[u]
          /\ \A j \in DOMAIN s.buf : j # i => x.buf[j] = t.buf[j]
      BY <1>2, <2>2, <3>2 DEF IsFlushed, InVram, Alike
    <3>5. Good(v, Under(f)) /\ IsForgotten(x, v, i)
      BY <3>2, <3>3, <3>4, Forgetting, Zenon
    <3>6. /\ Alike(x, v) /\ v.buf[i].addr = Buffers!NOWHERE
          /\ \A j \in DOMAIN s.buf : j # i => v.buf[j] = t.buf[j]
      <4>1. DOMAIN x.buf = DOMAIN s.buf
        BY <1>2, <3>4 DEF Alike
      <4> QED BY <3>4, <3>5, <4>1 DEF IsForgotten
    <3>7. Alike(s, v)
      BY <1>2, <3>4, <3>6, AlikeTwice, Zenon
    <3>8. Looked(s, v, i, a, z)
      BY <2>4, <3>6, <3>7
    <3> QED BY <1>0, <3>5, <3>8
  <2>6. CASE ~(t.buf[i].size > z)
    <3>1. v = Buffers!Forget(t, i)
      BY <1>0, <1>8, <2>6 DEF Buffers!Visited
    <3>2. \A u \in Buffers!Covers(t.buf[i]) : u \in Under(f) \/ Buffers!VRAM \in t.holders[u]
      <4>1. t.buf[i].size <= f.size
        BY <2>3, <2>6
      <4>2. t.buf[i].addr = Buffers!Base(f.addr)
        BY <1>8
      <4>3. Buffers!Covers(t.buf[i]) \subseteq Under(f)
        BY <2>2, <4>1, <4>2, CoversUnder
      <4> QED BY <4>3
    <3>3. Good(v, Under(f)) /\ IsForgotten(t, v, i)
      BY <2>2, <3>1, <3>2, Forgetting, Zenon
    <3>4. /\ Alike(t, v) /\ v.buf[i].addr = Buffers!NOWHERE
          /\ \A j \in DOMAIN s.buf : j # i => v.buf[j] = t.buf[j]
      BY <1>2, <3>3 DEF IsForgotten
    <3>5. Alike(s, v)
      BY <1>2, <3>4, AlikeTwice, Zenon
    <3>6. Looked(s, v, i, a, z)
      BY <2>4, <3>4, <3>5
    <3> QED BY <1>0, <3>3, <3>6
  <2> QED BY <2>5, <2>6
<1> QED BY <1>6, <1>7, <1>8

LEMMA ScannedKeeps ==
  ASSUME NEW s, NEW f \in Frames, Good(s, Under(f)),
         NEW a, a = Buffers!Base(f.addr), NEW z, z = f.size
  PROVE  /\ Good(Buffers!Scanned(s, a, z), Under(f))
         /\ Looked(s, Buffers!Scanned(s, a, z), Len(s.buf), a, z)
<1>1. s.buf \in Seq(BufferOf) /\ Len(s.buf) \in Nat /\ DOMAIN s.buf = 1 .. Len(s.buf)
  <2>1. s.buf \in Seq(BufferOf)
    BY DEF Good
  <2> QED BY <2>1
<1>2. PICK g : /\ g[0] = s
               /\ \A k \in 1 .. Len(s.buf) : g[k] = Buffers!Visited(s, g[k - 1], k, a, z)
               /\ Buffers!Scanned(s, a, z) = g[Len(s.buf)]
  <2>1. Len(s.buf) \in Nat
    BY <1>1
  <2> QED BY <2>1, ScannedUnfolded
<1> DEFINE T == {k \in Nat : k <= Len(s.buf) => Good(g[k], Under(f)) /\ Looked(s, g[k], k, a, z)}
<1>3. 0 \in T
  <2>1. Alike(s, s)
    BY DEF Alike
  <2>2. Looked(s, s, 0, a, z)
    BY <1>1, <2>1 DEF Looked
  <2> QED BY <1>2, <2>2
<1>4. ASSUME NEW k \in Nat, k \in T PROVE k + 1 \in T
  <2> SUFFICES ASSUME k + 1 <= Len(s.buf)
               PROVE  Good(g[k + 1], Under(f)) /\ Looked(s, g[k + 1], k + 1, a, z)
    OBVIOUS
  <2>1. Good(g[k], Under(f)) /\ Looked(s, g[k], k, a, z)
    BY <1>1, <1>4
  <2>2. PICK i \in DOMAIN s.buf : i = k + 1
    BY <1>1
  <2>3. g[i] = Buffers!Visited(s, g[k], i, a, z)
    <3>1. i \in 1 .. Len(s.buf) /\ i - 1 = k
      BY <1>1, <2>2
    <3> QED BY <1>2, <3>1
  <2>4. Good(Buffers!Visited(s, g[k], i, a, z), Under(f))
        /\ Looked(s, Buffers!Visited(s, g[k], i, a, z), i, a, z)
    BY <2>1, <2>2, VisitKeeps
  <2> QED BY <2>2, <2>3, <2>4
<1>5. T \subseteq Nat
  OBVIOUS
<1> HIDE DEF T
<1>6. PICK l \in Nat : l = Len(s.buf)
  BY <1>1
<1>7. l \in T
  BY <1>3, <1>4, <1>5, AllNaturals
<1>8. Good(g[l], Under(f)) /\ Looked(s, g[l], l, a, z)
  BY <1>6, <1>7 DEF T
<1> QED BY <1>2, <1>6, <1>8

(* A buffer of a state is replaced, or a field of it.                      *)
Replaced(s, x, i, b) ==
  /\ Changed(s.buf, x.buf, i, b) /\ x.holders = s.holders
  /\ x \in [buf : Seq(BufferOf), holders : Holdings]

LEMMA Replacing ==
  ASSUME NEW s, s \in [buf : Seq(BufferOf), holders : Holdings], NEW i \in DOMAIN s.buf,
         NEW b \in BufferOf
  PROVE  Replaced(s, [s EXCEPT !.buf[i] = b], i, b)
<1>1. PICK p \in Seq(BufferOf) : p = s.buf
  OBVIOUS
<1>2. i \in DOMAIN p
  BY <1>1, Zenon
<1>3. PICK q : q = [p EXCEPT ![i] = b]
  OBVIOUS
<1>4. Changed(p, q, i, b)
  BY <1>2, <1>3, ChangedBy, Zenon
<1>5. [s EXCEPT !.buf[i] = b] = [s EXCEPT !.buf = [s.buf EXCEPT ![i] = b]]
  BY Zenon
<1>6. [s EXCEPT !.buf = q] = [buf |-> q, holders |-> s.holders]
  BY StateEdits, Zenon
<1>7. PICK x : x = [buf |-> q, holders |-> s.holders]
  OBVIOUS
<1>8. x.buf = q /\ x.holders = s.holders
  BY <1>7
<1>9. x \in [buf : Seq(BufferOf), holders : Holdings]
  <2>1. q \in Seq(BufferOf) /\ s.holders \in Holdings
    BY <1>4 DEF Changed
  <2> QED BY <1>7, <2>1
<1>10. Replaced(s, x, i, b)
  BY <1>1, <1>4, <1>8, <1>9, Zenon DEF Replaced
<1>11. [s EXCEPT !.buf[i] = b] = x
  BY <1>1, <1>3, <1>5, <1>6, <1>7, Zenon
<1> QED BY <1>10, <1>11, Zenon

At(b, a) == [ptr |-> b.ptr, addr |-> a, size |-> b.size, flushed |-> b.flushed]
As(b, g) == [ptr |-> b.ptr, addr |-> b.addr, size |-> b.size, flushed |-> g]

LEMMA ReplacingFields ==
  ASSUME NEW s, s \in [buf : Seq(BufferOf), holders : Holdings], NEW i \in DOMAIN s.buf
  PROVE  /\ \A a \in Int : Replaced(s, [s EXCEPT !.buf[i].addr = a], i, At(s.buf[i], a))
         /\ \A g \in BOOLEAN : Replaced(s, [s EXCEPT !.buf[i].flushed = g], i, As(s.buf[i], g))
<1>1. PICK b \in BufferOf : b = s.buf[i]
  OBVIOUS
<1>2. ASSUME NEW a \in Int
      PROVE  Replaced(s, [s EXCEPT !.buf[i].addr = a], i, At(s.buf[i], a))
  <2>1. [s EXCEPT !.buf[i].addr = a] = [s EXCEPT !.buf[i] = [s.buf[i] EXCEPT !.addr = a]]
    BY Zenon
  <2>2. [b EXCEPT !.addr = a] = At(b, a)
    BY BufferEdits, Zenon DEF At
  <2>3. At(b, a) \in BufferOf
    BY DEF At, BufferOf
  <2>4. Replaced(s, [s EXCEPT !.buf[i] = At(b, a)], i, At(b, a))
    BY <2>3, Replacing, Zenon
  <2> QED BY <1>1, <2>1, <2>2, <2>4, Zenon
<1>3. ASSUME NEW g \in BOOLEAN
      PROVE  Replaced(s, [s EXCEPT !.buf[i].flushed = g], i, As(s.buf[i], g))
  <2>1. [s EXCEPT !.buf[i].flushed = g] = [s EXCEPT !.buf[i] = [s.buf[i] EXCEPT !.flushed = g]]
    BY Zenon
  <2>2. [b EXCEPT !.flushed = g] = As(b, g)
    BY BufferEdits, Zenon DEF As
  <2>3. As(b, g) \in BufferOf
    BY DEF As, BufferOf
  <2>4. Replaced(s, [s EXCEPT !.buf[i] = As(b, g)], i, As(b, g))
    BY <2>3, Replacing, Zenon
  <2> QED BY <1>1, <2>1, <2>2, <2>4, Zenon
<1> QED BY <1>2, <1>3

(* A buffer for a frame, of which nothing is known yet but its place.      *)
Prepared(x, i, f) ==
  /\ x \in [buf : Seq(BufferOf), holders : Holdings]
  /\ Buffered(x.buf) /\ i \in DOMAIN x.buf
  /\ x.buf[i].addr = Buffers!Base(f.addr) /\ x.buf[i].size = f.size
  /\ \A u \in Unit \ Under(f) : Shows(x, u) /\ Saves(x, u)

LEMMA Placing ==
  ASSUME NEW t, NEW f \in Frames, Good(t, Under(f)), NEW i \in DOMAIN t.buf,
         NEW b \in BufferOf, b.addr = Buffers!Base(f.addr), b.size = f.size,
         \A j \in DOMAIN t.buf \ {i} : t.buf[j].ptr # b.ptr /\ t.buf[j].addr # b.addr,
         \A u \in Buffers!Covers(t.buf[i]) : u \in Under(f) \/ Buffers!VRAM \in t.holders[u],
         NEW x, x \in [buf : Seq(BufferOf), holders : Holdings], Changed(t.buf, x.buf, i, b),
         \A u \in Unit : t.holders[u] \ {t.buf[i].ptr} \subseteq x.holders[u]
  PROVE  Prepared(x, i, f)
<1>1. /\ t.buf \in Seq(BufferOf) /\ Buffered(t.buf)
      /\ \A u \in Unit : Shows(t, u) /\ (u \notin Under(f) => Saves(t, u))
  BY DEF Good
<1>2. /\ x.buf \in Seq(BufferOf) /\ Len(x.buf) = Len(t.buf) /\ DOMAIN x.buf = DOMAIN t.buf
      /\ x.buf[i] = b
      /\ \A j \in DOMAIN t.buf \ {i} : x.buf[j] = t.buf[j]
  BY DEF Changed
<1>3. Buffered(x.buf)
  <2>1. HasFrame(b)
    BY DEF HasFrame
  <2> QED BY <1>1, <2>1, ChangedIsBuffered
<1>4. Buffers!Covers(b) = Under(f)
  BY CoversUnder
<1>5. t.buf[i] \in BufferOf /\ t.buf[i].ptr # Buffers!VRAM
  <2>1. t.buf[i] \in BufferOf
    BY <1>1
  <2>2. PICK c \in BufferOf : c = t.buf[i]
    BY <2>1
  <2>3. c.ptr \in Buffers!Pointer
    BY DEF BufferOf
  <2> QED BY <2>1, <2>2, <2>3, FrameFacts
<1>6. ASSUME NEW u \in Unit \ Under(f) PROVE Shows(x, u)
  <2>1. ASSUME NEW j \in DOMAIN x.buf, u \in Buffers!Covers(x.buf[j])
        PROVE  x.buf[j].ptr \in x.holders[u]
    <3>1. j # i
      BY <1>2, <1>4, <1>6, <2>1
    <3>2. x.buf[j] = t.buf[j] /\ j \in DOMAIN t.buf
      BY <1>2, <3>1
    <3>3. t.buf[j].ptr \in t.holders[u]
      BY <1>1, <2>1, <3>2 DEF Shows
    <3>4. t.buf[j].ptr # t.buf[i].ptr
      BY <1>1, <3>1, <3>2 DEF Buffered
    <3> QED BY <3>2, <3>3, <3>4
  <2> QED BY <2>1 DEF Shows
<1>7. ASSUME NEW u \in Unit \ Under(f) PROVE Saves(x, u)
  <2>1. Saves(t, u)
    BY <1>1, <1>7
  <2>2. CASE Buffers!VRAM \in t.holders[u]
    <3>1. Buffers!VRAM \in x.holders[u]
      BY <1>5, <2>2
    <3> QED BY <3>1 DEF Saves
  <2>3. CASE Buffers!VRAM \notin t.holders[u]
    <3>1. PICK j \in DOMAIN t.buf : /\ u \in Buffers!Covers(t.buf[j]) /\ ~t.buf[j].flushed
                                   /\ t.buf[j].ptr \in t.holders[u]
      BY <2>1, <2>3 DEF Saves
    <3>2. j # i
      BY <1>7, <2>3, <3>1
    <3>3. x.buf[j] = t.buf[j] /\ j \in DOMAIN x.buf
      BY <1>2, <3>2
    <3>4. t.buf[j].ptr # t.buf[i].ptr
      BY <1>1, <3>2 DEF Buffered
    <3>5. x.buf[j].ptr \in x.holders[u]
      BY <3>1, <3>3, <3>4
    <3> QED BY <3>1, <3>3, <3>5 DEF Saves
  <2> QED BY <2>2, <2>3
<1> QED BY <1>2, <1>3, <1>6, <1>7 DEF Prepared

LEMMA FirstIs ==
  ASSUME NEW S, S \subseteq Nat, S # {}
  PROVE  Buffers!First(S) \in S
<1>1. \E i \in S : \A j \in S : i <= j
  <2>1. S \in SUBSET Nat
    OBVIOUS
  <2> QED BY <2>1, LeastNatural
<1> QED BY <1>1 DEF Buffers!First

(* What pvr2_alloc_render_buffer returns: one that is found, one that is   *)
(* spare, a new one, or one that is thrown away.                           *)
Preserved(t, x) ==
  /\ \A u \in Unit : Buffers!VRAM \in t.holders[u] => Buffers!VRAM \in x.holders[u]
  /\ Buffers!Live(shown, t.buf) => Buffers!Live(shown, x.buf)

LEMMA NowIs ==
  Buffers!Now.buf = buf /\ Buffers!Now.holders = holders
BY DEF Buffers!Now

LEMMA AlikeIsPreserved ==
  ASSUME NEW s, NEW t, Alike(s, t)
  PROVE  Preserved(s, t) /\ Buffers!Pointers(s.buf) = Buffers!Pointers(t.buf)
<1>1. Buffers!Pointers(s.buf) = Buffers!Pointers(t.buf)
  BY DEF Alike, Buffers!Pointers
<1> QED BY <1>1 DEF Preserved, Alike, Buffers!Live

LEMMA PreservedTwice ==
  ASSUME NEW w, NEW s, NEW t, Preserved(w, s), Preserved(s, t)
  PROVE  Preserved(w, t)
BY DEF Preserved

LEMMA ChangedIsPreserved ==
  ASSUME NEW s, NEW x, NEW i \in DOMAIN s.buf, NEW b, Changed(s.buf, x.buf, i, b),
         b.ptr = s.buf[i].ptr \/ s.buf[i].ptr # shown,
         \A u \in Unit : Buffers!VRAM \in s.holders[u] => Buffers!VRAM \in x.holders[u]
  PROVE  Preserved(s, x)
<1>1. /\ DOMAIN x.buf = DOMAIN s.buf /\ x.buf[i] = b
      /\ \A j \in DOMAIN s.buf \ {i} : x.buf[j] = s.buf[j]
  BY DEF Changed
<1>2. ASSUME shown \in Buffers!Pointers(s.buf) PROVE shown \in Buffers!Pointers(x.buf)
  <2>1. PICK j \in DOMAIN s.buf : shown = s.buf[j].ptr
    BY <1>2 DEF Buffers!Pointers
  <2>2. x.buf[j].ptr = s.buf[j].ptr
    BY <1>1, <2>1
  <2> QED BY <1>1, <2>1, <2>2 DEF Buffers!Pointers
<1> QED BY <1>2 DEF Preserved, Buffers!Live

LEMMA FoundIsReady ==
  ASSUME NEW f \in Frames, NEW s, Good(s, Under(f)), NEW i \in DOMAIN s.buf,
         Buffers!Fits(s.buf[i], Buffers!Base(f.addr), f.size)
  PROVE  Prepared(s, i, f) /\ Preserved(s, s)
<1>1. s.buf[i].addr = Buffers!Base(f.addr) /\ s.buf[i].size = f.size
  BY DEF Buffers!Fits
<1> QED BY <1>1 DEF Good, Prepared, Preserved

Nobody(s, a) == \A j \in DOMAIN s.buf : s.buf[j].addr # a

LEMMA FreeCovers ==
  ASSUME NEW b, b.addr = Buffers!NOWHERE
  PROVE  Buffers!Covers(b) = {}
BY DEF Buffers!Covers

LEMMA SpareIsReady ==
  ASSUME NEW f \in Frames, NEW s, Good(s, Under(f)), NEW i \in DOMAIN s.buf,
         Nobody(s, Buffers!Base(f.addr)), s.buf[i].size = f.size,
         \/ s.buf[i].addr = Buffers!NOWHERE
         \/ \A u \in Buffers!Covers(s.buf[i]) : u \in Under(f) \/ Buffers!VRAM \in s.holders[u]
  PROVE  /\ Prepared([s EXCEPT !.buf[i].addr = Buffers!Base(f.addr)], i, f)
         /\ Preserved(s, [s EXCEPT !.buf[i].addr = Buffers!Base(f.addr)])
<1>1. PICK a \in Int : a = Buffers!Base(f.addr)
  BY FrameFacts
<1>2. PICK x : x = [s EXCEPT !.buf[i].addr = a]
  OBVIOUS
<1>3. s \in [buf : Seq(BufferOf), holders : Holdings] /\ Buffered(s.buf)
  BY DEF Good
<1>4. Replaced(s, x, i, At(s.buf[i], a))
  BY <1>2, <1>3, ReplacingFields, Zenon
<1>5. /\ Changed(s.buf, x.buf, i, At(s.buf[i], a)) /\ x.holders = s.holders
      /\ x \in [buf : Seq(BufferOf), holders : Holdings]
  BY <1>4, Zenon DEF Replaced
<1>6. /\ At(s.buf[i], a).ptr = s.buf[i].ptr /\ At(s.buf[i], a).addr = a
      /\ At(s.buf[i], a).size = s.buf[i].size
  BY DEF At
<1>7. At(s.buf[i], a) \in BufferOf
  BY <1>5 DEF Changed
<1>8. PICK b \in BufferOf : b = At(s.buf[i], a)
  BY <1>7
<1>9. /\ b.ptr = s.buf[i].ptr /\ b.addr = Buffers!Base(f.addr) /\ b.size = f.size
  BY <1>1, <1>6, <1>8
<1>10. \A u \in Buffers!Covers(s.buf[i]) : u \in Under(f) \/ Buffers!VRAM \in s.holders[u]
  BY FreeCovers
<1>11. \A j \in DOMAIN s.buf \ {i} : s.buf[j].ptr # b.ptr /\ s.buf[j].addr # b.addr
  BY <1>3, <1>9 DEF Buffered, Nobody
<1>12. Changed(s.buf, x.buf, i, b)
  BY <1>5, <1>8, Zenon
<1>13. \A u \in Unit : s.holders[u] \ {s.buf[i].ptr} \subseteq x.holders[u]
  BY <1>5
<1>14. Prepared(x, i, f)
  BY <1>5, <1>9, <1>10, <1>11, <1>12, <1>13, Placing
<1>15. Preserved(s, x)
  <2>1. \A u \in Unit : Buffers!VRAM \in s.holders[u] => Buffers!VRAM \in x.holders[u]
    BY <1>5, Zenon
  <2> QED BY <1>9, <1>12, <2>1, ChangedIsPreserved, Zenon
<1> QED BY <1>1, <1>2, <1>14, <1>15, Zenon

(* NewBuffer at the end.                                                   *)
LEMMA NewIsBuffer ==
  ASSUME NEW f \in Frames, NEW p \in Buffers!Pointer
  PROVE  /\ Buffers!NewBuffer(p, Buffers!Base(f.addr), f.size) \in BufferOf
         /\ Buffers!NewBuffer(p, Buffers!Base(f.addr), f.size).ptr = p
         /\ Buffers!NewBuffer(p, Buffers!Base(f.addr), f.size).addr = Buffers!Base(f.addr)
         /\ Buffers!NewBuffer(p, Buffers!Base(f.addr), f.size).size = f.size
<1>1. f.size \in Int /\ Buffers!Base(f.addr) \in Int
  BY FrameFacts
<1> QED BY <1>1 DEF Buffers!NewBuffer, BufferOf

LEMMA AppendedIsReady ==
  ASSUME NEW f \in Frames, NEW s, Good(s, Under(f)), Len(s.buf) < MAX_RENDER_BUFFERS,
         Nobody(s, Buffers!Base(f.addr)),
         NEW p \in Buffers!Pointer \ Buffers!Pointers(s.buf)
  PROVE  /\ Prepared([s EXCEPT !.buf =
                          Append(@, Buffers!NewBuffer(p, Buffers!Base(f.addr), f.size))],
                     Len(s.buf) + 1, f)
         /\ Preserved(s, [s EXCEPT !.buf =
                          Append(@, Buffers!NewBuffer(p, Buffers!Base(f.addr), f.size))])
<1>1. PICK b \in BufferOf : b = Buffers!NewBuffer(p, Buffers!Base(f.addr), f.size)
  BY NewIsBuffer
<1>2. b.ptr = p /\ b.addr = Buffers!Base(f.addr) /\ b.size = f.size
  BY <1>1, NewIsBuffer, Zenon
<1>3. /\ s \in [buf : Seq(BufferOf), holders : Holdings] /\ Buffered(s.buf)
      /\ \A u \in Unit : Shows(s, u) /\ (u \notin Under(f) => Saves(s, u))
  BY DEF Good
<1>4. PICK q : q = Append(s.buf, b)
  OBVIOUS
<1>5. PICK i \in Nat : i = Len(s.buf) + 1
  BY <1>3
<1>6. PICK x : x = [buf |-> q, holders |-> s.holders]
  OBVIOUS
<1>7. [s EXCEPT !.buf = Append(@, b)] = x
  <2>1. [s EXCEPT !.buf = Append(s.buf, b)] = x
    BY <1>3, <1>4, <1>6, StateEdits, Zenon
  <2>2. [s EXCEPT !.buf = Append(@, b)] = [s EXCEPT !.buf = Append(s.buf, b)]
    BY Zenon
  <2> QED BY <2>1, <2>2, Zenon
<1>8. x.buf = q /\ x.holders = s.holders
  BY <1>6
<1>9. /\ q \in Seq(BufferOf) /\ Len(q) = i /\ DOMAIN q = DOMAIN s.buf \cup {i}
      /\ i \notin DOMAIN s.buf /\ q[i] = b /\ \A j \in DOMAIN s.buf : q[j] = s.buf[j]
  BY <1>3, <1>4, <1>5
<1>10. x \in [buf : Seq(BufferOf), holders : Holdings]
  BY <1>3, <1>6, <1>9
<1>11. \A j \in DOMAIN s.buf : s.buf[j].ptr # b.ptr /\ s.buf[j].addr # b.addr
  BY <1>2 DEF Nobody, Buffers!Pointers
<1>12. Buffered(q)
  <2>1. HasFrame(b)
    BY <1>2 DEF HasFrame
  <2>2. \A j \in DOMAIN q : HasFrame(q[j])
    BY <1>3, <1>9, <2>1 DEF Buffered
  <2>3. ASSUME NEW j \in DOMAIN q, NEW k \in DOMAIN q, j # k
        PROVE  /\ q[j].ptr # q[k].ptr
               /\ q[j].addr # Buffers!NOWHERE => q[j].addr # q[k].addr
    <3>1. CASE j \in DOMAIN s.buf /\ k \in DOMAIN s.buf
      BY <1>3, <1>9, <2>3, <3>1 DEF Buffered
    <3>2. CASE j = i
      <4>1. k \in DOMAIN s.buf
        BY <1>9, <2>3, <3>2
      <4> QED BY <1>9, <1>11, <3>2, <4>1
    <3>3. CASE k = i
      <4>1. j \in DOMAIN s.buf
        BY <1>9, <2>3, <3>3
      <4> QED BY <1>9, <1>11, <3>3, <4>1
    <3> QED BY <1>9, <3>1, <3>2, <3>3
  <2>4. Len(q) <= MAX_RENDER_BUFFERS
    BY <1>3, <1>5, <1>9, FrameFacts
  <2> QED BY <1>9, <2>2, <2>3, <2>4 DEF Buffered
<1>13. Buffers!Covers(b) = Under(f)
  BY <1>2, CoversUnder
<1>14. ASSUME NEW u \in Unit \ Under(f) PROVE Shows(x, u) /\ Saves(x, u)
  <2>1. Shows(s, u) /\ Saves(s, u)
    BY <1>3, <1>14
  <2>2. Shows(x, u)
    BY <1>8, <1>9, <1>13, <1>14, <2>1 DEF Shows
  <2>3. Saves(x, u)
    BY <1>8, <1>9, <2>1 DEF Saves
  <2> QED BY <2>2, <2>3
<1>15. Prepared(x, i, f)
  BY <1>2, <1>8, <1>9, <1>10, <1>12, <1>14 DEF Prepared
<1>16. Preserved(s, x)
  <2>1. Buffers!Pointers(s.buf) \subseteq Buffers!Pointers(x.buf)
    BY <1>8, <1>9 DEF Buffers!Pointers
  <2> QED BY <1>8, <2>1 DEF Preserved, Buffers!Live
<1> QED BY <1>1, <1>5, <1>7, <1>15, <1>16, Zenon

LEMMA FreedIs ==
  ASSUME NEW t, t \in [buf : Seq(BufferOf), holders : Holdings], NEW p
  PROVE  /\ Buffers!Freed(t, p).buf = t.buf
         /\ \A u \in Unit : Buffers!Freed(t, p).holders[u] = t.holders[u] \ {p}
         /\ Buffers!Freed(t, p) \in [buf : Seq(BufferOf), holders : Holdings]
<1>1. PICK h : h = [u \in Unit |-> t.holders[u] \ {p}]
  OBVIOUS
<1>2. PICK x : x = [buf |-> t.buf, holders |-> h]
  OBVIOUS
<1>3. Buffers!Freed(t, p) = x
  <2>1. [t EXCEPT !.holders = h] = x
    BY <1>2, StateEdits, Zenon
  <2>2. Buffers!Freed(t, p) = [t EXCEPT !.holders = [u \in Unit |-> t.holders[u] \ {p}]]
    BY Zenon DEF Buffers!Freed
  <2> QED BY <1>1, <2>1, <2>2, Zenon
<1>4. h \in Holdings
  <2>1. t.holders \in Holdings
    OBVIOUS
  <2> QED BY <1>1, <2>1 DEF Holdings
<1>5. x.buf = t.buf /\ x.holders = h
  BY <1>2
<1>6. x \in [buf : Seq(BufferOf), holders : Holdings]
  BY <1>2, <1>4
<1>7. \A u \in Unit : h[u] = t.holders[u] \ {p}
  BY <1>1
<1> QED BY <1>3, <1>5, <1>6, <1>7, Zenon

LEMMA VictimIsSaved ==
  ASSUME NEW f \in Frames, NEW s, Good(s, Under(f)), NEW i \in DOMAIN s.buf,
         Nobody(s, Buffers!Base(f.addr)), NEW t,
         t = IF s.buf[i].flushed \/ s.buf[i].addr = Buffers!NOWHERE THEN s
             ELSE Buffers!Flush(s, i)
  PROVE  /\ Good(t, Under(f)) /\ Alike(s, t) /\ Preserved(s, t)
         /\ Nobody(t, Buffers!Base(f.addr))
         /\ \A u \in Buffers!Covers(t.buf[i]) : u \in Under(f) \/ Buffers!VRAM \in t.holders[u]
<1>1. CASE s.buf[i].flushed \/ s.buf[i].addr = Buffers!NOWHERE
  <2>1. t = s
    BY <1>1
  <2>2. Alike(s, s)
    BY DEF Alike
  <2>3. ASSUME NEW u \in Buffers!Covers(s.buf[i])
        PROVE  u \in Under(f) \/ Buffers!VRAM \in s.holders[u]
    <3>1. s.buf[i].flushed
      BY <1>1, <2>3, FreeCovers
    <3>2. SUFFICES ASSUME u \notin Under(f), Buffers!VRAM \notin s.holders[u] PROVE FALSE
      OBVIOUS
    <3>3. u \in Unit
      BY DEF Buffers!Covers
    <3>4. Buffered(s.buf) /\ Saves(s, u)
      BY <3>2, <3>3 DEF Good
    <3>5. PICK j \in DOMAIN s.buf : u \in Buffers!Covers(s.buf[j]) /\ ~s.buf[j].flushed
      BY <3>2, <3>4 DEF Saves
    <3>6. i = j
      BY <3>4, <3>5, OneOwner
    <3> QED BY <3>1, <3>5, <3>6
  <2> QED BY <2>1, <2>2, <2>3, AlikeIsPreserved
<1>2. CASE ~(s.buf[i].flushed \/ s.buf[i].addr = Buffers!NOWHERE)
  <2>1. t = Buffers!Flush(s, i)
    BY <1>2
  <2> HIDE <1>2
  <2>2. Good(t, Under(f)) /\ IsFlushed(s, t, i)
    BY <2>1, Flushing, Zenon
  <2>3. /\ Alike(s, t) /\ DOMAIN t.buf = DOMAIN s.buf
        /\ \A j \in DOMAIN s.buf : t.buf[j].addr = s.buf[j].addr
        /\ InVram(t, t.buf[i])
    BY <2>2 DEF IsFlushed, Alike
  <2>4. Preserved(s, t)
    BY <2>3, AlikeIsPreserved, Zenon
  <2>5. Nobody(t, Buffers!Base(f.addr))
    BY <2>3 DEF Nobody
  <2> QED BY <2>2, <2>3, <2>4, <2>5, Zenon DEF InVram
<1> QED BY <1>1, <1>2

LEMMA EvictedIsReady ==
  ASSUME NEW f \in Frames, NEW s, Good(s, Under(f)), NEW i \in DOMAIN s.buf,
         Nobody(s, Buffers!Base(f.addr)), s.buf[i].ptr # shown,
         NEW p \in Buffers!Pointer \ Buffers!Pointers(s.buf)
  PROVE  /\ Prepared(Buffers!Evicted(s, i, p, Buffers!Base(f.addr), f.size), i, f)
         /\ Preserved(s, Buffers!Evicted(s, i, p, Buffers!Base(f.addr), f.size))
<1>1. PICK t : t = IF s.buf[i].flushed \/ s.buf[i].addr = Buffers!NOWHERE THEN s
                   ELSE Buffers!Flush(s, i)
  OBVIOUS
<1>2. /\ Good(t, Under(f)) /\ Alike(s, t) /\ Preserved(s, t)
      /\ Nobody(t, Buffers!Base(f.addr))
      /\ \A u \in Buffers!Covers(t.buf[i]) : u \in Under(f) \/ Buffers!VRAM \in t.holders[u]
  BY <1>1, VictimIsSaved, Zenon
<1>3. /\ DOMAIN t.buf = DOMAIN s.buf
      /\ \A j \in DOMAIN s.buf : t.buf[j].ptr = s.buf[j].ptr /\ t.buf[j].size = s.buf[j].size
  BY <1>2 DEF Alike
<1>4. CASE s.buf[i].size = f.size
  <2>1. Buffers!Evicted(s, i, p, Buffers!Base(f.addr), f.size) =
          [t EXCEPT !.buf[i].addr = Buffers!Base(f.addr)]
    BY <1>1, <1>4, Zenon DEF Buffers!Evicted
  <2>2. /\ Prepared([t EXCEPT !.buf[i].addr = Buffers!Base(f.addr)], i, f)
        /\ Preserved(t, [t EXCEPT !.buf[i].addr = Buffers!Base(f.addr)])
    <3>1. t.buf[i].size = f.size /\ i \in DOMAIN t.buf
      BY <1>3, <1>4, Zenon
    <3> QED BY <1>2, <3>1, SpareIsReady, Zenon
  <2> QED BY <1>2, <2>1, <2>2, PreservedTwice, Zenon
<1>5. CASE s.buf[i].size # f.size
  <2>1. PICK b \in BufferOf : b = Buffers!NewBuffer(p, Buffers!Base(f.addr), f.size)
    BY NewIsBuffer
  <2>2. b.ptr = p /\ b.addr = Buffers!Base(f.addr) /\ b.size = f.size
    BY <2>1, NewIsBuffer, Zenon
  <2>3. PICK y : y = Buffers!Freed(t, s.buf[i].ptr)
    OBVIOUS
  <2>4. t \in [buf : Seq(BufferOf), holders : Holdings] /\ Buffered(t.buf)
    BY <1>2 DEF Good
  <2>5. /\ y.buf = t.buf
        /\ \A u \in Unit : y.holders[u] = t.holders[u] \ {s.buf[i].ptr}
        /\ y \in [buf : Seq(BufferOf), holders : Holdings]
    <3>1. PICK g : g = s.buf[i].ptr
      OBVIOUS
    <3>2. /\ Buffers!Freed(t, g).buf = t.buf
          /\ \A u \in Unit : Buffers!Freed(t, g).holders[u] = t.holders[u] \ {g}
          /\ Buffers!Freed(t, g) \in [buf : Seq(BufferOf), holders : Holdings]
      <4>1. t \in [buf : Seq(BufferOf), holders : Holdings]
        BY <2>4
      <4> QED BY <4>1, FreedIs
    <3> QED BY <2>3, <3>1, <3>2, Zenon
  <2>6. PICK x : x = [y EXCEPT !.buf[i] = b]
    OBVIOUS
  <2>7. Buffers!Evicted(s, i, p, Buffers!Base(f.addr), f.size) = x
    <3>1. Buffers!Evicted(s, i, p, Buffers!Base(f.addr), f.size) =
            [Buffers!Freed(t, s.buf[i].ptr) EXCEPT
               !.buf[i] = Buffers!NewBuffer(p, Buffers!Base(f.addr), f.size)]
      BY <1>1, <1>5, Zenon DEF Buffers!Evicted
    <3> QED BY <2>1, <2>3, <2>6, <3>1, Zenon
  <2>8. Replaced(y, x, i, b)
    <3>1. i \in DOMAIN y.buf
      BY <1>3, <2>5, Zenon
    <3> QED BY <2>5, <2>6, <3>1, Replacing, Zenon
  <2>9. /\ Changed(t.buf, x.buf, i, b) /\ x.holders = y.holders
        /\ x \in [buf : Seq(BufferOf), holders : Holdings]
    BY <2>5, <2>8, Zenon DEF Replaced
  <2>10. \A j \in DOMAIN t.buf \ {i} : t.buf[j].ptr # b.ptr /\ t.buf[j].addr # b.addr
    BY <1>2, <1>3, <2>2 DEF Nobody, Buffers!Pointers
  <2>11. \A u \in Unit : t.holders[u] \ {t.buf[i].ptr} \subseteq x.holders[u]
    BY <1>3, <2>5, <2>9
  <2>12. i \in DOMAIN t.buf
    BY <1>3
  <2>13. Prepared(x, i, f)
    BY <1>2, <2>2, <2>9, <2>10, <2>11, <2>12, Placing
  <2>14. Preserved(t, x)
    <3>1. t.buf[i].ptr # Buffers!VRAM
      <4>1. t.buf[i] \in BufferOf
        BY <2>4, <2>12
      <4>2. PICK c \in BufferOf : c = t.buf[i]
        BY <4>1
      <4>3. c.ptr \in Buffers!Pointer
        BY DEF BufferOf
      <4> QED BY <4>2, <4>3, FrameFacts
    <3>2. \A u \in Unit : Buffers!VRAM \in t.holders[u] => Buffers!VRAM \in x.holders[u]
      BY <2>11, <3>1
    <3>3. t.buf[i].ptr # shown
      BY <1>3
    <3> QED BY <2>9, <2>12, <3>2, <3>3, ChangedIsPreserved, Zenon
  <2> QED BY <1>2, <2>7, <2>13, <2>14, PreservedTwice, Zenon
<1> QED BY <1>4, <1>5

LEMMA VictimExists ==
  ASSUME NEW s, Buffered(s.buf), Len(s.buf) >= MAX_RENDER_BUFFERS,
         field \in [1 .. 2 -> {g.addr : g \in Frames}]
  PROVE  Buffers!Victims(s) # {}
<1>1. /\ 1 \in DOMAIN s.buf /\ 2 \in DOMAIN s.buf /\ s.buf[1].ptr # s.buf[2].ptr
  <2>1. s.buf \in Seq(BufferOf) /\ Len(s.buf) >= 2
    BY FrameFacts DEF Buffered
  <2>2. 1 \in DOMAIN s.buf /\ 2 \in DOMAIN s.buf
    BY <2>1
  <2> QED BY <2>2 DEF Buffered
<1>2. PICK i \in DOMAIN s.buf : s.buf[i].ptr # shown
  BY <1>1
<1>3. s.buf[i].addr \notin {field[1], field[2]}
  <2>1. PICK g \in Frames, h \in Frames : field[1] = g.addr /\ field[2] = h.addr
    <3>1. field[1] \in {g.addr : g \in Frames} /\ field[2] \in {g.addr : g \in Frames}
      OBVIOUS
    <3> QED BY <3>1
  <2>2. /\ g.addr \in Nat /\ g.addr < PVR2_RAM_BASE /\ h.addr \in Nat /\ h.addr < PVR2_RAM_BASE
    BY FrameFacts
  <2>3. CASE s.buf[i].addr = Buffers!NOWHERE
    BY <2>1, <2>2, <2>3, FrameFacts
  <2>4. CASE s.buf[i].addr # Buffers!NOWHERE
    <3>1. PICK e \in Frames : s.buf[i].addr = Buffers!Base(e.addr)
      BY <1>2, <2>4 DEF Buffered, HasFrame
    <3>2. s.buf[i].addr = PVR2_RAM_BASE + e.addr /\ e.addr \in Nat /\ PVR2_RAM_BASE \in Nat
      BY <3>1, FrameFacts
    <3> QED BY <2>1, <2>2, <3>2
  <2> QED BY <2>3, <2>4
<1> QED BY <1>2, <1>3 DEF Buffers!Victims

LEMMA AllocatedIsReady ==
  ASSUME NEW f \in Frames, Good(Buffers!Now, Under(f)),
         field \in [1 .. 2 -> {g.addr : g \in Frames}],
         NEW got \in Buffers!Allocated(Buffers!Base(f.addr), f.size)
  PROVE  got.i # 0 /\ Prepared(got.s, got.i, f) /\ Preserved(Buffers!Now, got.s)
<1>1. PICK a \in Int, z \in Int : a = Buffers!Base(f.addr) /\ z = f.size
  BY FrameFacts
<1>2. PICK s : s = Buffers!Scanned(Buffers!Now, a, z)
  OBVIOUS
<1>3. PICK w : w = Buffers!Now
  OBVIOUS
<1>4. w.buf = buf /\ Good(w, Under(f))
  BY <1>3, NowIs, Zenon
<1>5. Good(s, Under(f)) /\ Looked(w, s, Len(w.buf), a, z)
  <2>1. Good(Buffers!Scanned(w, Buffers!Base(f.addr), f.size), Under(f))
        /\ Looked(w, Buffers!Scanned(w, Buffers!Base(f.addr), f.size), Len(w.buf),
                  Buffers!Base(f.addr), f.size)
    BY <1>4, ScannedKeeps
  <2> QED BY <1>1, <1>2, <1>3, <2>1, Zenon
<1>6. /\ Alike(w, s) /\ Preserved(w, s) /\ Buffers!Pointers(buf) = Buffers!Pointers(s.buf)
      /\ DOMAIN s.buf = DOMAIN buf /\ Len(s.buf) = Len(buf)
  <2>1. Alike(w, s)
    BY <1>5 DEF Looked
  <2>2. DOMAIN s.buf = DOMAIN w.buf /\ Len(s.buf) = Len(w.buf)
    BY <2>1 DEF Alike
  <2> QED BY <1>4, <2>1, <2>2, AlikeIsPreserved, Zenon
<1>7. /\ s.buf \in Seq(BufferOf) /\ Buffered(s.buf) /\ DOMAIN s.buf \subseteq Nat
      /\ w.buf \in Seq(BufferOf) /\ DOMAIN w.buf \subseteq Nat /\ DOMAIN buf \subseteq Nat
      /\ Len(w.buf) \in Nat /\ \A j \in DOMAIN w.buf : j <= Len(w.buf)
  <2>1. s.buf \in Seq(BufferOf) /\ Buffered(s.buf) /\ w.buf \in Seq(BufferOf)
    BY <1>4, <1>5 DEF Good
  <2> QED BY <1>4, <2>1
<1>8. PICK fit : fit = {i \in DOMAIN buf : Buffers!Fits(buf[i], a, z)}
  OBVIOUS
<1>9. PICK spare : spare = Buffers!Spare(s, z)
  OBVIOUS
<1>10. PICK out : out = Buffers!Victims(s)
  OBVIOUS
<1>11. \/ fit # {} /\ got = [s |-> s, i |-> Buffers!First(fit)]
       \/ /\ fit = {} /\ spare # {}
          /\ got = [s |-> [s EXCEPT !.buf[Buffers!First(spare)].addr = a], i |-> Buffers!First(spare)]
       \/ /\ fit = {} /\ Len(buf) < MAX_RENDER_BUFFERS
          /\ \E p \in Buffers!Pointer \ Buffers!Pointers(buf) :
               got = [s |-> [s EXCEPT !.buf = Append(@, Buffers!NewBuffer(p, a, z))],
                    i |-> Len(buf) + 1]
       \/ /\ fit = {} /\ ~(Len(buf) < MAX_RENDER_BUFFERS) /\ out # {}
          /\ \E p \in Buffers!Pointer \ Buffers!Pointers(buf) :
               got = [s |-> Buffers!Evicted(s, Buffers!First(out), p, a, z),
                    i |-> Buffers!First(out)]
       \/ /\ fit = {} /\ ~(Len(buf) < MAX_RENDER_BUFFERS) /\ out = {}
  <2>1. got \in Buffers!Allocated(a, z)
    BY <1>1, Zenon
  <2>2. Buffers!Allocated(a, z) =
      IF fit # {} THEN {[s |-> s, i |-> Buffers!First(fit)]}
      ELSE IF spare # {}
      THEN {[s |-> [s EXCEPT !.buf[Buffers!First(spare)].addr = a], i |-> Buffers!First(spare)]}
      ELSE IF Len(buf) < MAX_RENDER_BUFFERS
      THEN {[s |-> [s EXCEPT !.buf = Append(@, Buffers!NewBuffer(p, a, z))], i |-> Len(buf) + 1] :
              p \in Buffers!Pointer \ Buffers!Pointers(buf)}
      ELSE IF out # {}
      THEN {[s |-> Buffers!Evicted(s, Buffers!First(out), p, a, z), i |-> Buffers!First(out)] :
              p \in Buffers!Pointer \ Buffers!Pointers(buf)}
      ELSE {[s |-> s, i |-> 0]}
    BY <1>2, <1>8, <1>9, <1>10, Zenon DEF Buffers!Allocated
  <2> QED BY <2>1, <2>2, Zenon
<1>12. CASE fit # {} /\ got = [s |-> s, i |-> Buffers!First(fit)]
  <2>1. PICK i : i = Buffers!First(fit)
    OBVIOUS
  <2>2. i \in fit
    <3>1. fit \subseteq Nat
      BY <1>7, <1>8
    <3> QED BY <1>12, <2>1, <3>1, FirstIs
  <2>3. i \in DOMAIN w.buf /\ Buffers!Fits(w.buf[i], a, z) /\ i \in Nat /\ i # 0
    <3>1. 0 \notin DOMAIN w.buf
      BY <1>7
    <3> QED BY <1>4, <1>7, <1>8, <2>2, <3>1
  <2>4. s = w
    BY <1>5, <2>3 DEF Looked, Fitting
  <2>5. Prepared(w, i, f) /\ Preserved(w, w)
    BY <1>1, <1>4, <2>3, FoundIsReady, Zenon
  <2>6. got.s = s /\ got.i = i
    BY <1>12, <2>1
  <2> QED BY <1>3, <2>3, <2>4, <2>5, <2>6, Zenon
<1>13. ASSUME fit = {} PROVE Nobody(s, Buffers!Base(f.addr))
  <2>1. ~Fitting(w, a, z)
    BY <1>4, <1>8, <1>13 DEF Fitting
  <2>2. \A j \in DOMAIN w.buf : s.buf[j].addr # a
    BY <1>5, <1>7, <2>1 DEF Looked
  <2>3. DOMAIN s.buf = DOMAIN w.buf
    BY <1>4, <1>6, Zenon
  <2> QED BY <1>1, <2>2, <2>3 DEF Nobody
<1>14. CASE /\ fit = {} /\ spare # {}
            /\ got = [s |-> [s EXCEPT !.buf[Buffers!First(spare)].addr = a],
                    i |-> Buffers!First(spare)]
  <2>1. PICK i : i = Buffers!First(spare)
    OBVIOUS
  <2>2. i \in spare
    <3>1. spare \subseteq Nat
      BY <1>7, <1>9 DEF Buffers!Spare
    <3> QED BY <1>14, <2>1, <3>1, FirstIs
  <2>3. /\ i \in DOMAIN s.buf /\ i \in Nat /\ i # 0
        /\ s.buf[i].size = z /\ s.buf[i].addr = Buffers!NOWHERE
    <3>1. 0 \notin DOMAIN s.buf
      BY <1>7
    <3> QED BY <1>7, <1>9, <2>2, <3>1 DEF Buffers!Spare
  <2>4. PICK x : x = [s EXCEPT !.buf[i].addr = a]
    OBVIOUS
  <2>5. Prepared(x, i, f) /\ Preserved(s, x)
    BY <1>1, <1>5, <1>13, <1>14, <2>3, <2>4, SpareIsReady, Zenon
  <2>6. got = [s |-> x, i |-> i]
    BY <1>14, <2>1, <2>4, Zenon
  <2>7. got.s = x /\ got.i = i
    BY <2>6
  <2> QED BY <1>3, <1>6, <2>3, <2>5, <2>7, PreservedTwice, Zenon
<1>15. CASE /\ fit = {} /\ Len(buf) < MAX_RENDER_BUFFERS
            /\ \E p \in Buffers!Pointer \ Buffers!Pointers(buf) :
               got = [s |-> [s EXCEPT !.buf = Append(@, Buffers!NewBuffer(p, a, z))],
                    i |-> Len(buf) + 1]
  <2>1. PICK p \in Buffers!Pointer \ Buffers!Pointers(s.buf) :
               got = [s |-> [s EXCEPT !.buf = Append(@, Buffers!NewBuffer(p, a, z))],
                    i |-> Len(s.buf) + 1]
    BY <1>6, <1>15, Zenon
  <2>2. PICK x : x = [s EXCEPT !.buf = Append(@, Buffers!NewBuffer(p, a, z))]
    OBVIOUS
  <2>3. Prepared(x, Len(s.buf) + 1, f) /\ Preserved(s, x)
    <3>1. Len(s.buf) < MAX_RENDER_BUFFERS
      BY <1>6, <1>15, Zenon
    <3> QED BY <1>1, <1>5, <1>13, <1>15, <2>2, <3>1, AppendedIsReady, Zenon
  <2>4. PICK i \in Nat : i = Len(s.buf) + 1 /\ i # 0
    BY <1>7
  <2>5. got = [s |-> x, i |-> i]
    BY <2>1, <2>2, <2>4, Zenon
  <2>6. got.s = x /\ got.i = i
    BY <2>5
  <2> QED BY <1>3, <1>6, <2>3, <2>4, <2>6, PreservedTwice, Zenon
<1>16. CASE /\ fit = {} /\ ~(Len(buf) < MAX_RENDER_BUFFERS) /\ out # {}
            /\ \E p \in Buffers!Pointer \ Buffers!Pointers(buf) :
               got = [s |-> Buffers!Evicted(s, Buffers!First(out), p, a, z),
                    i |-> Buffers!First(out)]
  <2>1. PICK i : i = Buffers!First(out)
    OBVIOUS
  <2>2. i \in out
    <3>1. out \subseteq Nat
      BY <1>7, <1>10 DEF Buffers!Victims
    <3> QED BY <1>16, <2>1, <3>1, FirstIs
  <2>3. i \in DOMAIN s.buf /\ i \in Nat /\ i # 0 /\ s.buf[i].ptr # shown
    <3>1. 0 \notin DOMAIN s.buf
      BY <1>7
    <3> QED BY <1>7, <1>10, <2>2, <3>1 DEF Buffers!Victims
  <2>4. PICK p \in Buffers!Pointer \ Buffers!Pointers(s.buf) :
          got = [s |-> Buffers!Evicted(s, i, p, a, z), i |-> i]
    BY <1>6, <1>16, <2>1, Zenon
  <2>5. PICK x : x = Buffers!Evicted(s, i, p, a, z)
    OBVIOUS
  <2>6. Prepared(x, i, f) /\ Preserved(s, x)
    BY <1>1, <1>5, <1>13, <1>16, <2>3, <2>5, EvictedIsReady, Zenon
  <2>7. got = [s |-> x, i |-> i]
    BY <2>4, <2>5, Zenon
  <2>8. got.s = x /\ got.i = i
    BY <2>7
  <2> QED BY <1>3, <1>6, <2>3, <2>6, <2>8, PreservedTwice, Zenon
<1>17. CASE fit = {} /\ ~(Len(buf) < MAX_RENDER_BUFFERS) /\ out = {}
  <2>1. Len(s.buf) >= MAX_RENDER_BUFFERS
    <3>1. PICK l \in Nat : l = Len(s.buf)
      BY <1>7
    <3>2. ~(l < MAX_RENDER_BUFFERS)
      BY <1>6, <1>17, <3>1
    <3> QED BY <3>1, <3>2, FrameFacts
  <2>2. Buffers!Victims(s) # {}
    BY <1>7, <2>1, VictimExists
  <2> QED BY <1>10, <1>17, <2>2
<1> QED BY <1>11, <1>12, <1>14, <1>15, <1>16, <1>17, Zenon

LEMMA PreparedAs ==
  ASSUME NEW f \in Frames, NEW x, NEW i, Prepared(x, i, f), NEW g \in BOOLEAN
  PROVE  /\ Prepared([x EXCEPT !.buf[i].flushed = g], i, f)
         /\ [x EXCEPT !.buf[i].flushed = g].buf[i].flushed = g
         /\ [x EXCEPT !.buf[i].flushed = g].buf[i].ptr = x.buf[i].ptr
         /\ [x EXCEPT !.buf[i].flushed = g].holders = x.holders
         /\ Preserved(x, [x EXCEPT !.buf[i].flushed = g])
<1>1. PICK y : y = [x EXCEPT !.buf[i].flushed = g]
  OBVIOUS
<1>2. /\ x \in [buf : Seq(BufferOf), holders : Holdings]
      /\ Buffered(x.buf) /\ i \in DOMAIN x.buf
      /\ x.buf[i].addr = Buffers!Base(f.addr) /\ x.buf[i].size = f.size
      /\ \A u \in Unit \ Under(f) : Shows(x, u) /\ Saves(x, u)
  BY DEF Prepared
<1>3. Replaced(x, y, i, As(x.buf[i], g))
  BY <1>1, <1>2, ReplacingFields, Zenon
<1>4. /\ Changed(x.buf, y.buf, i, As(x.buf[i], g)) /\ y.holders = x.holders
      /\ y \in [buf : Seq(BufferOf), holders : Holdings]
  BY <1>3, Zenon DEF Replaced
<1>5. /\ As(x.buf[i], g).ptr = x.buf[i].ptr /\ As(x.buf[i], g).addr = x.buf[i].addr
      /\ As(x.buf[i], g).size = x.buf[i].size /\ As(x.buf[i], g).flushed = g
  BY DEF As
<1>6. /\ DOMAIN y.buf = DOMAIN x.buf /\ y.buf[i] = As(x.buf[i], g)
      /\ \A j \in DOMAIN x.buf \ {i} : y.buf[j] = x.buf[j]
      /\ y.buf \in Seq(BufferOf)
  BY <1>4 DEF Changed
<1>7. /\ y.buf[i].ptr = x.buf[i].ptr /\ y.buf[i].addr = x.buf[i].addr
      /\ y.buf[i].size = x.buf[i].size /\ y.buf[i].flushed = g
  BY <1>5, <1>6, Zenon
<1>8. Buffered(y.buf)
  <2>1. HasFrame(As(x.buf[i], g))
    BY <1>2, <1>5 DEF HasFrame
  <2>2. \A j \in DOMAIN x.buf \ {i} :
           x.buf[j].ptr # As(x.buf[i], g).ptr
           /\ (As(x.buf[i], g).addr # Buffers!NOWHERE => x.buf[j].addr # As(x.buf[i], g).addr)
    BY <1>2, <1>5 DEF Buffered
  <2> QED BY <1>2, <1>4, <2>1, <2>2, ChangedIsBuffered
<1>9. Buffers!Covers(x.buf[i]) = Under(f) /\ Buffers!Covers(y.buf[i]) = Under(f)
  <2>1. x.buf[i] \in BufferOf
    BY <1>2
  <2>2. Buffers!Covers(x.buf[i]) = Under(f)
    BY <1>2, <2>1, CoversUnder
  <2> QED BY <1>7, <2>2, CoversSame, Zenon
<1>10. ASSUME NEW u \in Unit \ Under(f) PROVE Shows(y, u) /\ Saves(y, u)
  <2>1. Shows(x, u) /\ Saves(x, u)
    BY <1>2
  <2>2. Shows(y, u)
    BY <1>4, <1>6, <1>9, <1>10, <2>1 DEF Shows
  <2>3. CASE Buffers!VRAM \in x.holders[u]
    <3>1. Saves(y, u)
      BY <1>4, <2>3 DEF Saves
    <3> QED BY <2>2, <3>1
  <2>4. CASE Buffers!VRAM \notin x.holders[u]
    <3>1. PICK j \in DOMAIN x.buf : /\ u \in Buffers!Covers(x.buf[j]) /\ ~x.buf[j].flushed
                                   /\ x.buf[j].ptr \in x.holders[u]
      BY <2>1, <2>4 DEF Saves
    <3>2. j # i
      BY <1>9, <1>10, <3>1
    <3>3. y.buf[j] = x.buf[j] /\ j \in DOMAIN y.buf
      BY <1>6, <3>2
    <3>4. Saves(y, u)
      BY <1>4, <3>1, <3>3 DEF Saves
    <3> QED BY <2>2, <3>4
  <2> QED BY <2>3, <2>4
<1>11. Prepared(y, i, f)
  BY <1>2, <1>4, <1>6, <1>7, <1>8, <1>10 DEF Prepared
<1>12. Preserved(x, y)
  <2>1. \A u \in Unit : Buffers!VRAM \in x.holders[u] => Buffers!VRAM \in y.holders[u]
    BY <1>4, Zenon
  <2> QED BY <1>2, <1>4, <1>5, <2>1, ChangedIsPreserved, Zenon
<1> QED BY <1>1, <1>4, <1>7, <1>11, <1>12, Zenon

(* Rendered to, or filled from video RAM, it holds what is newest.         *)
LEMMA RenderedIs ==
  ASSUME NEW x, x \in [buf : Seq(BufferOf), holders : Holdings], NEW i \in DOMAIN x.buf, NEW U
  PROVE  /\ Buffers!Filled(x, i, U, TRUE).buf = x.buf
         /\ \A u \in Unit : Buffers!Filled(x, i, U, TRUE).holders[u] =
              IF u \notin U THEN x.holders[u] \ {x.buf[i].ptr} ELSE {x.buf[i].ptr}
         /\ Buffers!Filled(x, i, U, TRUE) \in [buf : Seq(BufferOf), holders : Holdings]
<1>1. PICK h : h = [u \in Unit |->
              IF u \notin U THEN x.holders[u] \ {x.buf[i].ptr} ELSE {x.buf[i].ptr}]
  OBVIOUS
<1>2. PICK y : y = [buf |-> x.buf, holders |-> h]
  OBVIOUS
<1>3. Buffers!Filled(x, i, U, TRUE) = y
  <2>1. [x EXCEPT !.holders = h] = y
    BY <1>2, StateEdits, Zenon
  <2>2. Buffers!Filled(x, i, U, TRUE) = [x EXCEPT !.holders = [u \in Unit |->
              IF u \notin U THEN x.holders[u] \ {x.buf[i].ptr} ELSE {x.buf[i].ptr}]]
    BY Zenon DEF Buffers!Filled
  <2> QED BY <1>1, <2>1, <2>2, Zenon
<1>4. h \in Holdings
  <2>1. x.holders \in Holdings /\ x.buf[i] \in BufferOf
    OBVIOUS
  <2>2. PICK b \in BufferOf : b = x.buf[i]
    BY <2>1
  <2>3. b.ptr \in Buffers!Pointer
    BY DEF BufferOf
  <2>4. x.buf[i].ptr \in Buffers!Pointer
    BY <2>2, <2>3
  <2>5. \A u \in Unit : x.holders[u] \in SUBSET (Buffers!Pointer \cup {Buffers!VRAM})
    BY <2>1 DEF Holdings
  <2>6. \A u \in Unit : h[u] \in SUBSET (Buffers!Pointer \cup {Buffers!VRAM})
    BY <1>1, <2>4, <2>5
  <2> QED BY <1>1, <2>6 DEF Holdings
<1>5. y.buf = x.buf /\ y.holders = h
  BY <1>2
<1>6. y \in [buf : Seq(BufferOf), holders : Holdings]
  BY <1>2, <1>4
<1>7. \A u \in Unit : h[u] =
              IF u \notin U THEN x.holders[u] \ {x.buf[i].ptr} ELSE {x.buf[i].ptr}
  BY <1>1
<1> QED BY <1>3, <1>5, <1>6, <1>7, Zenon

LEMMA LoadedIs ==
  ASSUME NEW x, x \in [buf : Seq(BufferOf), holders : Holdings], NEW i \in DOMAIN x.buf, NEW U
  PROVE  /\ Buffers!Filled(x, i, U, FALSE).buf = x.buf
         /\ \A u \in Unit : Buffers!Filled(x, i, U, FALSE).holders[u] =
              IF u \notin U THEN x.holders[u] \ {x.buf[i].ptr}
              ELSE x.holders[u] \cup {x.buf[i].ptr}
         /\ Buffers!Filled(x, i, U, FALSE) \in [buf : Seq(BufferOf), holders : Holdings]
<1>1. PICK h : h = [u \in Unit |->
              IF u \notin U THEN x.holders[u] \ {x.buf[i].ptr}
              ELSE x.holders[u] \cup {x.buf[i].ptr}]
  OBVIOUS
<1>2. PICK y : y = [buf |-> x.buf, holders |-> h]
  OBVIOUS
<1>3. Buffers!Filled(x, i, U, FALSE) = y
  <2>1. [x EXCEPT !.holders = h] = y
    BY <1>2, StateEdits, Zenon
  <2>2. Buffers!Filled(x, i, U, FALSE) = [x EXCEPT !.holders = [u \in Unit |->
              IF u \notin U THEN x.holders[u] \ {x.buf[i].ptr}
              ELSE x.holders[u] \cup {x.buf[i].ptr}]]
    BY Zenon DEF Buffers!Filled
  <2> QED BY <1>1, <2>1, <2>2, Zenon
<1>4. h \in Holdings
  <2>1. x.holders \in Holdings /\ x.buf[i] \in BufferOf
    OBVIOUS
  <2>2. PICK b \in BufferOf : b = x.buf[i]
    BY <2>1
  <2>3. b.ptr \in Buffers!Pointer
    BY DEF BufferOf
  <2>4. x.buf[i].ptr \in Buffers!Pointer
    BY <2>2, <2>3
  <2>5. \A u \in Unit : x.holders[u] \in SUBSET (Buffers!Pointer \cup {Buffers!VRAM})
    BY <2>1 DEF Holdings
  <2>6. \A u \in Unit : h[u] \in SUBSET (Buffers!Pointer \cup {Buffers!VRAM})
    BY <1>1, <2>4, <2>5
  <2> QED BY <1>1, <2>6 DEF Holdings
<1>5. y.buf = x.buf /\ y.holders = h
  BY <1>2
<1>6. y \in [buf : Seq(BufferOf), holders : Holdings]
  BY <1>2, <1>4
<1>7. \A u \in Unit : h[u] =
              IF u \notin U THEN x.holders[u] \ {x.buf[i].ptr}
              ELSE x.holders[u] \cup {x.buf[i].ptr}
  BY <1>1
<1> QED BY <1>3, <1>5, <1>6, <1>7, Zenon

LEMMA FilledKeeps ==
  ASSUME NEW f \in Frames, NEW x, NEW i, Prepared(x, i, f),
         NEW y, y \in [buf : Seq(BufferOf), holders : Holdings], y.buf = x.buf,
         \A u \in Unit \ Under(f) : y.holders[u] = x.holders[u] \ {x.buf[i].ptr},
         \A u \in Under(f) : /\ x.buf[i].ptr \in y.holders[u]
                             /\ ~x.buf[i].flushed \/ Buffers!VRAM \in y.holders[u]
  PROVE  Good(y, {})
<1>2. /\ x \in [buf : Seq(BufferOf), holders : Holdings]
      /\ Buffered(x.buf) /\ i \in DOMAIN x.buf
      /\ x.buf[i].addr = Buffers!Base(f.addr) /\ x.buf[i].size = f.size
      /\ \A u \in Unit \ Under(f) : Shows(x, u) /\ Saves(x, u)
  BY DEF Prepared
<1>3. PICK U : U = Under(f)
  OBVIOUS
<1>4. x.buf[i] \in BufferOf /\ x.buf[i].ptr # Buffers!VRAM
  <2>1. x.buf[i] \in BufferOf
    BY <1>2
  <2>2. PICK b \in BufferOf : b = x.buf[i]
    BY <2>1
  <2>3. b.ptr \in Buffers!Pointer
    BY DEF BufferOf
  <2> QED BY <2>1, <2>2, <2>3, FrameFacts
<1>5. Buffers!Covers(x.buf[i]) = U
  <2>1. Buffers!Covers(x.buf[i]) = Under(f)
    BY <1>2, <1>4, CoversUnder
  <2> QED BY <1>3, <2>1
<1>6. ASSUME NEW u \in Unit PROVE Shows(y, u)
  <2>1. ASSUME NEW j \in DOMAIN x.buf, u \in Buffers!Covers(x.buf[j])
        PROVE  x.buf[j].ptr \in y.holders[u]
    <3>1. CASE j = i
      BY <1>3, <1>5, <2>1, <3>1
    <3>2. CASE j # i
      <4>1. u \notin U
        BY <1>2, <1>5, <2>1, <3>2, OneOwner
      <4>2. Shows(x, u)
        BY <1>2, <1>3, <1>6, <4>1
      <4>3. x.buf[j].ptr \in x.holders[u]
        BY <2>1, <4>2 DEF Shows
      <4>4. x.buf[j].ptr # x.buf[i].ptr
        BY <1>2, <3>2 DEF Buffered
      <4> QED BY <1>3, <4>1, <4>3, <4>4
    <3> QED BY <3>1, <3>2
  <2> QED BY <1>3, <2>1 DEF Shows
<1>7. ASSUME NEW u \in Unit PROVE Saves(y, u)
  <2>1. CASE u \in U
    <3>1. CASE ~x.buf[i].flushed
      <4>1. /\ i \in DOMAIN y.buf /\ u \in Buffers!Covers(y.buf[i]) /\ ~y.buf[i].flushed
            /\ y.buf[i].ptr \in y.holders[u]
        BY <1>2, <1>3, <1>5, <2>1, <3>1
      <4> QED BY <4>1 DEF Saves
    <3>2. CASE x.buf[i].flushed
      <4>1. Buffers!VRAM \in y.holders[u]
        BY <1>3, <2>1, <3>2
      <4> QED BY <4>1 DEF Saves
    <3> QED BY <3>1, <3>2
  <2>2. CASE u \notin U
    <3>0. Saves(x, u) /\ y.holders[u] = x.holders[u] \ {x.buf[i].ptr}
      BY <1>2, <1>3, <1>7, <2>2
    <3>1. CASE Buffers!VRAM \in x.holders[u]
      <4>1. Buffers!VRAM \in y.holders[u]
        BY <1>4, <3>0, <3>1
      <4> QED BY <4>1 DEF Saves
    <3>2. CASE Buffers!VRAM \notin x.holders[u]
      <4>1. PICK j \in DOMAIN x.buf : /\ u \in Buffers!Covers(x.buf[j]) /\ ~x.buf[j].flushed
                                     /\ x.buf[j].ptr \in x.holders[u]
        BY <3>0, <3>2 DEF Saves
      <4>2. j # i
        BY <1>5, <2>2, <4>1
      <4>3. x.buf[j].ptr # x.buf[i].ptr
        BY <1>2, <4>2 DEF Buffered
      <4>4. x.buf[j].ptr \in y.holders[u]
        BY <3>0, <4>1, <4>3
      <4> QED BY <1>3, <4>1, <4>4 DEF Saves
    <3> QED BY <3>1, <3>2
  <2> QED BY <2>1, <2>2
<1> QED BY <1>2, <1>3, <1>6, <1>7 DEF Good

LEMMA GoodButFor ==
  ASSUME NEW s, Good(s, {}), NEW W
  PROVE  Good(s, W)
BY DEF Good

(* What a render leaves, and a load.                                       *)
Rendered(w, x) ==
  Good(x, {}) /\ (Buffers!Live(shown, w.buf) => Buffers!Live(shown, x.buf))

LEMMA RenderLeaves ==
  ASSUME NEW f \in Frames, Good(Buffers!Now, {}),
         field \in [1 .. 2 -> {g.addr : g \in Frames}], Buffers!Render(f)
  PROVE  \E x : Rendered(Buffers!Now, x) /\ Buffers!Become(x)
<1>1. PICK w : w = Buffers!Now
  OBVIOUS
<1>2. Good(w, Under(f))
  BY <1>1, GoodButFor
<1>3. PICK got \in Buffers!Allocated(Buffers!Base(f.addr), f.size) :
         IF got.i = 0 THEN Buffers!Become(got.s)
         ELSE LET s == [got.s EXCEPT !.buf[got.i].flushed = FALSE]
              IN  Buffers!Become(Buffers!Filled(s, got.i, Buffers!Covers(s.buf[got.i]), TRUE))
  BY Zenon DEF Buffers!Render
<1>4. got.i # 0 /\ Prepared(got.s, got.i, f) /\ Preserved(w, got.s)
  <2>1. Good(Buffers!Now, Under(f))
    BY <1>1, <1>2
  <2>2. got.i # 0 /\ Prepared(got.s, got.i, f) /\ Preserved(Buffers!Now, got.s)
    BY <2>1, AllocatedIsReady
  <2> QED BY <1>1, <2>2, Zenon
<1>5. PICK x, i : x = got.s /\ i = got.i
  OBVIOUS
<1>6. Prepared(x, i, f) /\ Preserved(w, x) /\ i # 0
  BY <1>4, <1>5, Zenon
<1>7. PICK y : y = [x EXCEPT !.buf[i].flushed = FALSE]
  OBVIOUS
<1>8. Prepared(y, i, f) /\ ~y.buf[i].flushed /\ Preserved(x, y)
  <2>1. PICK g \in BOOLEAN : g = FALSE
    OBVIOUS
  <2>2. PICK v : v = [x EXCEPT !.buf[i].flushed = g]
    OBVIOUS
  <2>3. Prepared(v, i, f) /\ v.buf[i].flushed = g /\ Preserved(x, v)
    <3>1. /\ Prepared([x EXCEPT !.buf[i].flushed = g], i, f)
          /\ [x EXCEPT !.buf[i].flushed = g].buf[i].flushed = g
          /\ Preserved(x, [x EXCEPT !.buf[i].flushed = g])
      <4>1. g \in BOOLEAN
        BY <2>1
      <4> QED BY <1>6, <4>1, PreparedAs
    <3> QED BY <2>2, <3>1, Zenon
  <2>4. v = y
    BY <1>7, <2>1, <2>2, Zenon
  <2> QED BY <2>1, <2>3, <2>4, Zenon
<1>9. PICK U : U = Buffers!Covers(y.buf[i])
  OBVIOUS
<1>10. U = Under(f)
  <2>1. /\ y.buf[i] \in BufferOf /\ y.buf[i].addr = Buffers!Base(f.addr)
        /\ y.buf[i].size = f.size
    BY <1>8 DEF Prepared
  <2> QED BY <1>9, <2>1, CoversUnder
<1>11. Buffers!Become(Buffers!Filled(y, i, U, TRUE))
  BY <1>3, <1>5, <1>6, <1>7, <1>9, Zenon
<1>12. PICK v : v = Buffers!Filled(y, i, U, TRUE)
  OBVIOUS
<1>13. Good(v, {}) /\ v.buf = y.buf
  <2>1. y \in [buf : Seq(BufferOf), holders : Holdings] /\ i \in DOMAIN y.buf
    BY <1>8 DEF Prepared
  <2>2. /\ v.buf = y.buf
        /\ \A u \in Unit : v.holders[u] =
              IF u \notin U THEN y.holders[u] \ {y.buf[i].ptr} ELSE {y.buf[i].ptr}
        /\ v \in [buf : Seq(BufferOf), holders : Holdings]
    <3>1. /\ Buffers!Filled(y, i, U, TRUE).buf = y.buf
          /\ \A u \in Unit : Buffers!Filled(y, i, U, TRUE).holders[u] =
                IF u \notin U THEN y.holders[u] \ {y.buf[i].ptr} ELSE {y.buf[i].ptr}
          /\ Buffers!Filled(y, i, U, TRUE) \in [buf : Seq(BufferOf), holders : Holdings]
      BY <2>1, RenderedIs
    <3> QED BY <1>12, <3>1, Zenon
  <2>3. \A u \in Unit \ Under(f) : v.holders[u] = y.holders[u] \ {y.buf[i].ptr}
    BY <1>10, <2>2
  <2>4. \A u \in Under(f) : y.buf[i].ptr \in v.holders[u]
    <3>1. Under(f) \subseteq Unit
      BY DEF Under
    <3> QED BY <1>10, <2>2, <3>1
  <2> QED BY <1>8, <2>2, <2>3, <2>4, FilledKeeps
<1>14. Rendered(w, v)
  BY <1>6, <1>8, <1>13 DEF Rendered, Preserved
<1> QED BY <1>1, <1>11, <1>12, <1>14, Zenon

(* What no buffer stands for is in video RAM.                              *)
LEMMA NotHeld ==
  ASSUME NEW s, Good(s, {}), NEW f \in Frames, Nobody(s, Buffers!Base(f.addr)),
         NEW u \in Under(f)
  PROVE  Buffers!VRAM \in s.holders[u]
<1>1. SUFFICES ASSUME Buffers!VRAM \notin s.holders[u] PROVE FALSE
  OBVIOUS
<1>2. u \in Unit /\ Buffers!Base(f.addr) <= PVR2_RAM_BASE + u
      /\ PVR2_RAM_BASE + u < Buffers!Base(f.addr) + f.size
  BY DEF Under
<1>3. Saves(s, u) /\ Buffered(s.buf) /\ s.buf \in Seq(BufferOf)
  BY <1>2 DEF Good
<1>4. PICK j \in DOMAIN s.buf : u \in Buffers!Covers(s.buf[j])
  BY <1>1, <1>3 DEF Saves
<1>5. PICK b \in BufferOf : b = s.buf[j]
  BY <1>3
<1>6. b.addr \in Int /\ b.size \in Int /\ u \in Buffers!Covers(b)
  BY <1>4, <1>5 DEF BufferOf
<1>7. /\ b.addr # Buffers!NOWHERE
      /\ b.addr <= PVR2_RAM_BASE + u /\ PVR2_RAM_BASE + u < b.addr + b.size
  BY <1>6, CoversAre
<1>8. PICK g \in Frames : b.addr = Buffers!Base(g.addr) /\ b.size = g.size
  <2>1. HasFrame(b)
    BY <1>3, <1>5 DEF Buffered
  <2> QED BY <1>7, <2>1 DEF HasFrame
<1>9. /\ f.addr \in Nat /\ f.size \in Nat /\ g.addr \in Nat /\ g.size \in Nat
      /\ PVR2_RAM_BASE \in Nat /\ u \in Nat
      /\ Buffers!Base(f.addr) = PVR2_RAM_BASE + f.addr
      /\ Buffers!Base(g.addr) = PVR2_RAM_BASE + g.addr
  BY <1>2, FrameFacts
<1>10. ~(f.addr < g.addr) /\ ~(g.addr < f.addr)
  <2>1. f.addr < g.addr => f.addr + f.size <= g.addr
    BY FrameFacts
  <2>2. g.addr < f.addr => g.addr + g.size <= f.addr
    BY FrameFacts
  <2>3. /\ f.addr <= u /\ u < f.addr + f.size
        /\ g.addr <= u /\ u < g.addr + g.size
    BY <1>2, <1>7, <1>8, <1>9
  <2> QED BY <1>9, <2>1, <2>2, <2>3
<1>11. f.addr = g.addr
  BY <1>9, <1>10
<1>12. b.addr = Buffers!Base(f.addr)
  BY <1>8, <1>11
<1> QED BY <1>5, <1>12 DEF Nobody

LEMMA LoadLeaves ==
  ASSUME NEW f \in Frames, Good(Buffers!Now, {}),
         field \in [1 .. 2 -> {g.addr : g \in Frames}],
         Nobody(Buffers!Now, Buffers!Base(f.addr)),
         NEW got \in Buffers!Allocated(Buffers!Base(f.addr), f.size)
  PROVE  /\ Good(Buffers!Load(got), {})
         /\ got.s.buf[got.i].ptr \in Buffers!Pointers(Buffers!Load(got).buf)
<1>1. PICK w : w = Buffers!Now
  OBVIOUS
<1>2. Good(w, {}) /\ Good(w, Under(f)) /\ Nobody(w, Buffers!Base(f.addr))
  BY <1>1, GoodButFor
<1>3. Prepared(got.s, got.i, f) /\ Preserved(w, got.s)
  <2>1. Good(Buffers!Now, Under(f))
    BY <1>1, <1>2
  <2>2. got.i # 0 /\ Prepared(got.s, got.i, f) /\ Preserved(Buffers!Now, got.s)
    BY <2>1, AllocatedIsReady
  <2> QED BY <1>1, <2>2, Zenon
<1>4. PICK x, i : x = got.s /\ i = got.i
  OBVIOUS
<1>5. Prepared(x, i, f) /\ Preserved(w, x)
  BY <1>3, <1>4, Zenon
<1>6. PICK y : y = [x EXCEPT !.buf[i].flushed = TRUE]
  OBVIOUS
<1>7. Prepared(y, i, f) /\ y.buf[i].ptr = x.buf[i].ptr /\ Preserved(x, y)
  <2>1. PICK g \in BOOLEAN : g = TRUE
    OBVIOUS
  <2>2. PICK v : v = [x EXCEPT !.buf[i].flushed = g]
    OBVIOUS
  <2>3. Prepared(v, i, f) /\ v.buf[i].ptr = x.buf[i].ptr /\ Preserved(x, v)
    <3>1. /\ Prepared([x EXCEPT !.buf[i].flushed = g], i, f)
          /\ [x EXCEPT !.buf[i].flushed = g].buf[i].ptr = x.buf[i].ptr
          /\ Preserved(x, [x EXCEPT !.buf[i].flushed = g])
      <4>1. g \in BOOLEAN
        BY <2>1
      <4> QED BY <1>5, <4>1, PreparedAs
    <3> QED BY <2>2, <3>1, Zenon
  <2>4. v = y
    BY <1>6, <2>1, <2>2, Zenon
  <2> QED BY <2>3, <2>4, Zenon
<1>8. PICK U : U = {u \in Buffers!Covers(y.buf[i]) : Buffers!VRAM \in y.holders[u]}
  OBVIOUS
<1>9. ASSUME NEW u \in Under(f) PROVE u \in Unit /\ Buffers!VRAM \in y.holders[u]
  <2>1. Buffers!VRAM \in w.holders[u]
    BY <1>2, NotHeld
  <2>2. u \in Unit
    BY DEF Under
  <2> QED BY <1>5, <1>7, <2>1, <2>2 DEF Preserved
<1>10. U = Under(f)
  <2>1. /\ y.buf[i] \in BufferOf /\ y.buf[i].addr = Buffers!Base(f.addr)
        /\ y.buf[i].size = f.size
    BY <1>7 DEF Prepared
  <2>2. Buffers!Covers(y.buf[i]) = Under(f)
    BY <2>1, CoversUnder
  <2> QED BY <1>8, <1>9, <2>2
<1>11. PICK v : v = Buffers!Filled(y, i, U, FALSE)
  OBVIOUS
<1>12. Buffers!Load(got) = v
  BY <1>4, <1>6, <1>8, <1>11, Zenon DEF Buffers!Load
<1>13. y \in [buf : Seq(BufferOf), holders : Holdings] /\ i \in DOMAIN y.buf
  BY <1>7 DEF Prepared
<1>14. /\ v.buf = y.buf
       /\ \A u \in Unit : v.holders[u] =
            IF u \notin U THEN y.holders[u] \ {y.buf[i].ptr} ELSE y.holders[u] \cup {y.buf[i].ptr}
       /\ v \in [buf : Seq(BufferOf), holders : Holdings]
  <2>1. /\ Buffers!Filled(y, i, U, FALSE).buf = y.buf
        /\ \A u \in Unit : Buffers!Filled(y, i, U, FALSE).holders[u] =
            IF u \notin U THEN y.holders[u] \ {y.buf[i].ptr} ELSE y.holders[u] \cup {y.buf[i].ptr}
        /\ Buffers!Filled(y, i, U, FALSE) \in [buf : Seq(BufferOf), holders : Holdings]
    BY <1>13, LoadedIs
  <2> QED BY <1>11, <2>1, Zenon
<1>15. Good(v, {})
  <2>1. \A u \in Unit \ Under(f) : v.holders[u] = y.holders[u] \ {y.buf[i].ptr}
    BY <1>10, <1>14
  <2>2. \A u \in Under(f) : y.buf[i].ptr \in v.holders[u] /\ Buffers!VRAM \in v.holders[u]
    BY <1>9, <1>10, <1>14
  <2> QED BY <1>7, <1>14, <2>1, <2>2, FilledKeeps
<1>16. got.s.buf[got.i].ptr \in Buffers!Pointers(v.buf)
  <2>1. y.buf[i].ptr \in Buffers!Pointers(y.buf)
    BY <1>13, Zenon DEF Buffers!Pointers
  <2> QED BY <1>4, <1>7, <1>14, <2>1, Zenon
<1> QED BY <1>12, <1>15, <1>16, Zenon

(* An access by the SH4: the buffer in the way is copied back, and after a *)
(* write it stands for nothing.                                            *)
LEMMA FlushedInVram ==
  ASSUME NEW s, Good(s, {}), NEW i \in DOMAIN s.buf, s.buf[i].flushed
  PROVE  InVram(s, s.buf[i])
<1> SUFFICES ASSUME NEW u \in Buffers!Covers(s.buf[i]), Buffers!VRAM \notin s.holders[u]
             PROVE  FALSE
  BY DEF InVram
<1>1. u \in Unit
  BY DEF Buffers!Covers
<1>2. Buffered(s.buf) /\ Saves(s, u)
  BY <1>1 DEF Good
<1>3. PICK j \in DOMAIN s.buf : u \in Buffers!Covers(s.buf[j]) /\ ~s.buf[j].flushed
  BY <1>2 DEF Saves
<1>4. i = j
  BY <1>2, <1>3, OneOwner
<1> QED BY <1>3, <1>4

Untouched(s, u) == \A j \in DOMAIN s.buf : u \notin Buffers!Covers(s.buf[j])

LEMMA InvalidatedLeaves ==
  ASSUME NEW w, w = Buffers!Now, Good(w, {}), NEW u \in Unit, NEW isWrite \in BOOLEAN
  PROVE  /\ Good(Buffers!Invalidated(u, isWrite), {})
         /\ Alike(w, Buffers!Invalidated(u, isWrite))
         /\ isWrite => Untouched(Buffers!Invalidated(u, isWrite), u)
<1>0. PICK x : x = Buffers!Invalidated(u, isWrite)
  OBVIOUS
<1>1. w.buf = buf /\ Alike(w, w) /\ Buffered(w.buf) /\ w.buf \in Seq(BufferOf)
  <2>1. w.buf = buf
    BY NowIs
  <2>2. Alike(w, w)
    BY DEF Alike
  <2> QED BY <2>1, <2>2 DEF Good
<1>2. PICK hit : hit = {j \in DOMAIN buf : u \in Buffers!Covers(buf[j])}
  OBVIOUS
<1>3. PICK i : i = Buffers!First(hit)
  OBVIOUS
<1>4. PICK s : s = IF buf[i].flushed THEN Buffers!Now ELSE Buffers!Flush(Buffers!Now, i)
  OBVIOUS
<1>5. x = IF hit = {} THEN Buffers!Now ELSE IF isWrite THEN Buffers!Forget(s, i) ELSE s
  BY <1>0, <1>2, <1>3, <1>4, Zenon DEF Buffers!Invalidated
<1>6. CASE hit = {}
  <2>1. x = w
    BY <1>5, <1>6
  <2>2. Untouched(w, u)
    BY <1>1, <1>2, <1>6 DEF Untouched
  <2> QED BY <1>0, <1>1, <2>1, <2>2
<1>7. CASE hit # {}
  <2>1. i \in hit
    <3>1. hit \subseteq Nat
      BY <1>1, <1>2
    <3> QED BY <1>3, <1>7, <3>1, FirstIs
  <2>2. i \in DOMAIN w.buf /\ u \in Buffers!Covers(w.buf[i])
    BY <1>1, <1>2, <2>1
  <2>3. /\ Good(s, {}) /\ Alike(w, s) /\ InVram(s, s.buf[i])
        /\ \A j \in DOMAIN w.buf : s.buf[j].addr = w.buf[j].addr
    <3>1. CASE w.buf[i].flushed
      <4>1. s = w
        BY <1>1, <1>4, <3>1
      <4>2. InVram(w, w.buf[i])
        BY <2>2, <3>1, FlushedInVram
      <4> QED BY <1>1, <4>1, <4>2
    <3>2. CASE ~w.buf[i].flushed
      <4>1. s = Buffers!Flush(w, i)
        BY <1>1, <1>4, <3>2
      <4>2. Good(s, {}) /\ IsFlushed(w, s, i)
        <5>1. Good(Buffers!Flush(w, i), {}) /\ IsFlushed(w, Buffers!Flush(w, i), i)
          BY <2>2, Flushing
        <5> QED BY <4>1, <5>1, Zenon
      <4> QED BY <4>2 DEF IsFlushed
    <3> QED BY <3>1, <3>2
  <2>4. /\ i \in DOMAIN s.buf /\ DOMAIN s.buf = DOMAIN w.buf
        /\ \A j \in DOMAIN w.buf : s.buf[j].size = w.buf[j].size
    BY <2>2, <2>3 DEF Alike
  <2>5. CASE ~isWrite
    <3>1. x = s
      BY <1>5, <1>7, <2>5
    <3> QED BY <1>0, <2>3, <2>5, <3>1
  <2>6. CASE isWrite
    <3>1. x = Buffers!Forget(s, i)
      BY <1>5, <1>7, <2>6
    <3>2. Good(x, {}) /\ IsForgotten(s, x, i)
      <4>1. \A v \in Buffers!Covers(s.buf[i]) : v \in {} \/ Buffers!VRAM \in s.holders[v]
        BY <2>3 DEF InVram
      <4>2. Good(Buffers!Forget(s, i), {}) /\ IsForgotten(s, Buffers!Forget(s, i), i)
        BY <2>3, <2>4, <4>1, Forgetting
      <4> QED BY <3>1, <4>2, Zenon
    <3>3. /\ Alike(s, x) /\ DOMAIN x.buf = DOMAIN s.buf /\ x.buf[i].addr = Buffers!NOWHERE
          /\ \A j \in DOMAIN s.buf : j # i => x.buf[j] = s.buf[j]
      BY <3>2 DEF IsForgotten, Alike
    <3>4. Alike(w, x)
      BY <2>3, <3>3, AlikeTwice, Zenon
    <3>5. ASSUME NEW j \in DOMAIN x.buf, u \in Buffers!Covers(x.buf[j]) PROVE FALSE
      <4>1. j # i
        BY <3>3, <3>5, FreeCovers
      <4>2. x.buf[j] = s.buf[j] /\ j \in DOMAIN w.buf
        BY <2>4, <3>3, <4>1
      <4>3. s.buf[j].addr = w.buf[j].addr /\ s.buf[j].size = w.buf[j].size
        BY <2>3, <2>4, <4>2
      <4>4. Buffers!Covers(s.buf[j]) = Buffers!Covers(w.buf[j])
        BY <4>3, CoversSame, Zenon
      <4>5. u \in Buffers!Covers(w.buf[j])
        BY <3>5, <4>2, <4>4
      <4>6. i = j
        BY <1>1, <2>2, <4>2, <4>5, OneOwner
      <4> QED BY <4>1, <4>6
    <3> QED BY <1>0, <3>2, <3>4, <3>5 DEF Untouched
  <2> QED BY <2>5, <2>6
<1> QED BY <1>6, <1>7

(* All of them copied back.                                                *)
Saving(w, t, n) ==
  /\ Good(t, {}) /\ Alike(w, t)
  /\ \A j \in DOMAIN w.buf : /\ t.buf[j].addr = w.buf[j].addr
                             /\ j <= n => t.buf[j].flushed

LEMMA SavedKeeps ==
  ASSUME NEW w, NEW t, NEW n \in Nat, Saving(w, t, n), w.buf \in Seq(BufferOf),
         NEW i \in DOMAIN w.buf, i = n + 1
  PROVE  Saving(w, Buffers!Saved(t, i), i)
<1>1. PICK x : x = Buffers!Saved(t, i)
  OBVIOUS
<1>2. /\ Good(t, {}) /\ Alike(w, t) /\ DOMAIN t.buf = DOMAIN w.buf
      /\ \A j \in DOMAIN w.buf : t.buf[j].addr = w.buf[j].addr /\ (j <= n => t.buf[j].flushed)
  BY DEF Saving, Alike
<1>3. \A j \in DOMAIN w.buf : j <= i <=> j <= n \/ j = i
  <2>1. DOMAIN w.buf \subseteq Nat
    OBVIOUS
  <2> QED BY <2>1
<1>4. CASE t.buf[i].flushed
  <2>1. x = t
    BY <1>1, <1>4 DEF Buffers!Saved
  <2>2. Saving(w, t, i)
    BY <1>2, <1>3, <1>4 DEF Saving
  <2> QED BY <1>1, <2>1, <2>2, Zenon
<1>5. CASE ~t.buf[i].flushed
  <2>1. x = Buffers!Flush(t, i)
    BY <1>1, <1>5 DEF Buffers!Saved
  <2>2. Good(x, {}) /\ IsFlushed(t, x, i)
    <3>1. i \in DOMAIN t.buf
      BY <1>2
    <3>2. Good(Buffers!Flush(t, i), {}) /\ IsFlushed(t, Buffers!Flush(t, i), i)
      BY <1>2, <3>1, Flushing
    <3> QED BY <2>1, <3>2, Zenon
  <2>3. /\ Alike(t, x) /\ x.buf[i].flushed
        /\ \A j \in DOMAIN w.buf : x.buf[j].addr = t.buf[j].addr /\ (j # i => x.buf[j] = t.buf[j])
    BY <1>2, <2>2 DEF IsFlushed
  <2>4. Alike(w, x)
    BY <1>2, <2>3, AlikeTwice, Zenon
  <2>5. \A j \in DOMAIN w.buf : x.buf[j].addr = w.buf[j].addr
    BY <1>2, <2>3
  <2>6. \A j \in DOMAIN w.buf : j <= i => x.buf[j].flushed
    BY <1>2, <1>3, <2>3
  <2> QED BY <1>1, <2>2, <2>4, <2>5, <2>6 DEF Saving
<1> QED BY <1>4, <1>5

LEMMA AllSaved ==
  ASSUME NEW w, w = Buffers!Now, Good(w, {})
  PROVE  /\ Saving(w, Buffers!AllFlushed, Len(buf))
         /\ \A u \in Unit : Buffers!VRAM \in Buffers!AllFlushed.holders[u]
<1>1. w.buf = buf /\ Alike(w, w) /\ w.buf \in Seq(BufferOf)
  <2>1. w.buf = buf
    BY NowIs
  <2>2. Alike(w, w)
    BY DEF Alike
  <2> QED BY <2>1, <2>2 DEF Good
<1>2. PICK l \in Nat : l = Len(buf) /\ DOMAIN w.buf = 1 .. l
  <2>1. buf \in Seq(BufferOf)
    BY <1>1, Zenon
  <2> QED BY <1>1, <2>1
<1>3. PICK g : /\ g[0] = w
               /\ \A k \in 1 .. l : g[k] = Buffers!Saved(g[k - 1], k)
               /\ Buffers!AllFlushed = g[l]
  <2>1. Len(buf) \in Nat
    BY <1>2
  <2>2. PICK g : /\ g[0] = Buffers!Now
                 /\ \A k \in 1 .. Len(buf) : g[k] = Buffers!Saved(g[k - 1], k)
                 /\ Buffers!AllFlushed = g[Len(buf)]
    BY <2>1, SavedUnfolded, Zenon
  <2> QED BY <1>2, <2>2, Zenon
<1> DEFINE T == {k \in Nat : k <= l => Saving(w, g[k], k)}
<1>4. 0 \in T
  <2>1. ~\E j \in DOMAIN w.buf : j <= 0
    BY <1>2
  <2>2. Saving(w, w, 0)
    BY <1>1, <2>1 DEF Saving
  <2> QED BY <1>3, <2>2
<1>5. ASSUME NEW k \in Nat, k \in T PROVE k + 1 \in T
  <2> SUFFICES ASSUME k + 1 <= l PROVE Saving(w, g[k + 1], k + 1)
    OBVIOUS
  <2>1. Saving(w, g[k], k)
    BY <1>2, <1>5
  <2>2. PICK i \in DOMAIN w.buf : i = k + 1
    BY <1>2
  <2>3. g[i] = Buffers!Saved(g[k], i)
    <3>1. i \in 1 .. l /\ i - 1 = k
      BY <1>2, <2>2
    <3> QED BY <1>3, <3>1
  <2>4. Saving(w, Buffers!Saved(g[k], i), i)
    BY <1>1, <2>1, <2>2, SavedKeeps
  <2> QED BY <2>2, <2>3, <2>4
<1>6. T \subseteq Nat
  OBVIOUS
<1> HIDE DEF T
<1>7. l \in T
  BY <1>4, <1>5, <1>6, AllNaturals
<1>8. Saving(w, g[l], l)
  BY <1>7 DEF T
<1>9. PICK t : t = Buffers!AllFlushed
  OBVIOUS
<1>10. Saving(w, t, l)
  BY <1>3, <1>8, <1>9, Zenon
<1>11. ASSUME NEW u \in Unit PROVE Buffers!VRAM \in t.holders[u]
  <2>1. Good(t, {}) /\ \A j \in DOMAIN t.buf : t.buf[j].flushed
    <3>1. DOMAIN t.buf = DOMAIN w.buf
      BY <1>10 DEF Saving, Alike
    <3>2. \A j \in DOMAIN w.buf : j <= l
      BY <1>2
    <3> QED BY <1>10, <3>1, <3>2 DEF Saving
  <2>2. Saves(t, u)
    BY <2>1 DEF Good
  <2> QED BY <2>1, <2>2 DEF Saves
<1> QED BY <1>2, <1>9, <1>10, <1>11, Zenon

(* Those in use, in order.                                                 *)
Listing(q, b, n) ==
  /\ q \in Seq(Nat) /\ Len(q) <= n
  /\ \A j \in DOMAIN q : q[j] \in 1 .. n /\ b[q[j]].addr # Buffers!NOWHERE
  /\ \A j, k \in DOMAIN q : j # k => q[j] # q[k]
  /\ \A i \in 1 .. n : b[i].addr # Buffers!NOWHERE => \E j \in DOMAIN q : q[j] = i

LEMMA ListingStep ==
  ASSUME NEW q, NEW b, NEW n \in Nat, Listing(q, b, n), NEW i \in Nat, i = n + 1,
         NEW t, t = IF b[i].addr = Buffers!NOWHERE THEN q ELSE Append(q, i)
  PROVE  Listing(t, b, i)
<1>1. /\ q \in Seq(Nat) /\ Len(q) \in Nat /\ Len(q) <= n /\ DOMAIN q = 1 .. Len(q)
      /\ \A j \in DOMAIN q : q[j] \in 1 .. n /\ b[q[j]].addr # Buffers!NOWHERE
      /\ \A j, k \in DOMAIN q : j # k => q[j] # q[k]
      /\ \A j \in 1 .. n : b[j].addr # Buffers!NOWHERE => \E k \in DOMAIN q : q[k] = j
  BY DEF Listing
<1>2. /\ i \notin 1 .. n /\ 1 .. n \subseteq 1 .. i /\ 1 .. i = 1 .. n \cup {i}
  OBVIOUS
<1>3. CASE b[i].addr = Buffers!NOWHERE
  <2>1. t = q
    BY <1>3
  <2>2. Len(q) <= i
    BY <1>1
  <2> HIDE <1>3
  <2>3. \A j \in 1 .. i : b[j].addr # Buffers!NOWHERE => \E k \in DOMAIN q : q[k] = j
    BY <1>1, <1>2, <1>3
  <2>4. Listing(q, b, i)
    BY <1>1, <1>2, <2>2, <2>3 DEF Listing
  <2> QED BY <2>1, <2>4, Zenon
<1>4. CASE b[i].addr # Buffers!NOWHERE
  <2>1. PICK p : p = Append(q, i)
    OBVIOUS
  <2>2. t = p
    BY <1>4, <2>1
  <2>3. PICK l \in Nat : l = Len(q) + 1
    BY <1>1
  <2>4. /\ p \in Seq(Nat) /\ Len(p) = l /\ DOMAIN p = DOMAIN q \cup {l}
        /\ l \notin DOMAIN q /\ p[l] = i /\ \A j \in DOMAIN q : p[j] = q[j]
    BY <1>1, <2>1, <2>3
  <2>5. Len(p) <= i
    BY <1>1, <2>3, <2>4
  <2>6. \A j \in DOMAIN p : p[j] \in 1 .. i /\ b[p[j]].addr # Buffers!NOWHERE
    BY <1>1, <1>2, <1>4, <2>4
  <2>7. \A j, k \in DOMAIN p : j # k => p[j] # p[k]
    BY <1>1, <1>2, <2>4
  <2>8. \A j \in 1 .. i : b[j].addr # Buffers!NOWHERE => \E k \in DOMAIN p : p[k] = j
    BY <1>1, <1>2, <2>4
  <2>9. Listing(p, b, i)
    BY <2>4, <2>5, <2>6, <2>7, <2>8 DEF Listing
  <2> QED BY <2>2, <2>9, Zenon
<1> QED BY <1>3, <1>4

LEMMA InUseIs ==
  ASSUME buf \in Seq(BufferOf)
  PROVE  Listing(Buffers!InUse, buf, Len(buf))
<1>1. PICK l \in Nat : l = Len(buf)
  OBVIOUS
<1>2. PICK g : /\ g[0] = <<>>
               /\ \A k \in 1 .. l :
                     g[k] = IF buf[k].addr = Buffers!NOWHERE THEN g[k - 1] ELSE Append(g[k - 1], k)
               /\ Buffers!InUse = g[l]
  <2>1. Len(buf) \in Nat
    OBVIOUS
  <2>2. PICK g : ListsUsed(g, Len(buf))
    BY <2>1, InUseUnfolded
  <2>3. ListsUsed(g, l)
    BY <1>1, <2>2, Zenon
  <2> QED BY <2>3 DEF ListsUsed
<1> DEFINE T == {k \in Nat : k <= l => Listing(g[k], buf, k)}
<1>4. 0 \in T
  <2>1. Listing(<<>>, buf, 0)
    BY DEF Listing
  <2> QED BY <1>2, <2>1
<1>5. ASSUME NEW k \in Nat, k \in T PROVE k + 1 \in T
  <2> SUFFICES ASSUME k + 1 <= l PROVE Listing(g[k + 1], buf, k + 1)
    OBVIOUS
  <2>1. Listing(g[k], buf, k)
    BY <1>5
  <2>2. PICK i \in Nat : i = k + 1
    OBVIOUS
  <2>3. g[i] = IF buf[i].addr = Buffers!NOWHERE THEN g[k] ELSE Append(g[k], i)
    <3>1. i \in 1 .. l /\ i - 1 = k
      BY <2>2
    <3> QED BY <1>2, <3>1
  <2>4. Listing(g[i], buf, i)
    <3>1. PICK q, t : q = g[k] /\ t = g[i]
      OBVIOUS
    <3>2. Listing(q, buf, k)
      BY <2>1, <3>1
    <3>3. t = IF buf[i].addr = Buffers!NOWHERE THEN q ELSE Append(q, i)
      BY <2>3, <3>1, Zenon
    <3>4. Listing(t, buf, i)
      BY <2>2, <3>2, <3>3, ListingStep
    <3> QED BY <3>1, <3>4, Zenon
  <2> QED BY <2>2, <2>4
<1>6. T \subseteq Nat
  OBVIOUS
<1> HIDE DEF T
<1>7. l \in T
  BY <1>4, <1>5, <1>6, AllNaturals
<1>8. Listing(g[l], buf, l)
  BY <1>7 DEF T
<1> QED BY <1>1, <1>2, <1>8, Zenon

(* The window changes: those in use are elsewhere, with what they held.    *)
MovedBuffer(b, p) == [ptr |-> p, addr |-> b.addr, size |-> b.size, flushed |-> TRUE]

LEMMA SetPtr ==
  ASSUME NEW p, NEW a, NEW z, NEW g, NEW x
  PROVE  [[ptr |-> p, addr |-> a, size |-> z, flushed |-> g] EXCEPT !.ptr = x] =
           [ptr |-> x, addr |-> a, size |-> z, flushed |-> g]
BY SMTT(60)

LEMMA MovedEdits ==
  ASSUME NEW b \in BufferOf, NEW x
  PROVE  [b EXCEPT !.ptr = x, !.flushed = TRUE] = MovedBuffer(b, x)
<1>1. b = [ptr |-> b.ptr, addr |-> b.addr, size |-> b.size, flushed |-> b.flushed]
  BY DEF BufferOf
<1>2. PICK p, a, z, g : p = b.ptr /\ a = b.addr /\ z = b.size /\ g = b.flushed
  BY Zenon
<1>3. b = [ptr |-> p, addr |-> a, size |-> z, flushed |-> g]
  BY <1>1, <1>2, Zenon
<1>4. [b EXCEPT !.ptr = x] = [ptr |-> x, addr |-> a, size |-> z, flushed |-> g]
  <2>1. [[ptr |-> p, addr |-> a, size |-> z, flushed |-> g] EXCEPT !.ptr = x] =
           [ptr |-> x, addr |-> a, size |-> z, flushed |-> g]
    BY SetPtr
  <2> QED BY <1>3, <2>1, Zenon
<1>5. [[ptr |-> x, addr |-> a, size |-> z, flushed |-> g] EXCEPT !.flushed = TRUE] =
        [ptr |-> x, addr |-> a, size |-> z, flushed |-> TRUE]
  <2>1. PICK y : y = TRUE
    OBVIOUS
  <2>2. [[ptr |-> x, addr |-> a, size |-> z, flushed |-> g] EXCEPT !.flushed = y] =
          [ptr |-> x, addr |-> a, size |-> z, flushed |-> y]
    BY SetFlushed
  <2> QED BY <2>1, <2>2, Zenon
<1>6. [b EXCEPT !.ptr = x, !.flushed = TRUE] = [[b EXCEPT !.ptr = x] EXCEPT !.flushed = TRUE]
  BY Zenon
<1>7. MovedBuffer(b, x) = [ptr |-> x, addr |-> a, size |-> z, flushed |-> TRUE]
  BY <1>2, Zenon DEF MovedBuffer
<1> QED BY <1>4, <1>5, <1>6, <1>7, Zenon

MovedTo(q, at) ==
  q = [j \in DOMAIN Buffers!InUse |->
         [buf[Buffers!InUse[j]] EXCEPT !.ptr = at[Buffers!InUse[j]], !.flushed = TRUE]]

HeldBy(h, at) ==
  h = [u \in Unit |->
         (Buffers!AllFlushed.holders[u] \cap {Buffers!VRAM})
           \cup UNION {Buffers!Moved(at, p) :
                         p \in Buffers!AllFlushed.holders[u] \ {Buffers!VRAM}}]

LEMMA WindowLeaves ==
  ASSUME Good(Buffers!Now, {}),
         NEW at \in [DOMAIN buf -> Buffers!Pointer],
         \A i, j \in DOMAIN buf : at[i] = at[j] => i = j,
         NEW q, MovedTo(q, at), NEW h, HeldBy(h, at)
  PROVE  /\ Good([buf |-> q, holders |-> h], {})
         /\ \A p : Buffers!Moved(at, p) \subseteq Buffers!Pointers(q)
<1>0. PICK w : w = Buffers!Now
  OBVIOUS
<1>1. w.buf = buf /\ Buffered(buf) /\ buf \in Seq(BufferOf)
  <2>1. w.buf = buf
    BY <1>0, NowIs, Zenon
  <2>2. Good(w, {})
    BY <1>0
  <2>3. Buffered(w.buf) /\ w.buf \in Seq(BufferOf)
    BY <2>2 DEF Good
  <2> QED BY <2>1, <2>3, Zenon
<1>2. PICK l \in Nat : l = Len(buf) /\ DOMAIN buf = 1 .. l
  <2>1. buf \in Seq(BufferOf)
    BY <1>1
  <2> QED BY <2>1
<1>3. PICK e : e = Buffers!InUse
  OBVIOUS
<1>4. /\ e \in Seq(Nat) /\ Len(e) <= l /\ DOMAIN e = 1 .. Len(e) /\ Len(e) \in Nat
      /\ \A j \in DOMAIN e : e[j] \in DOMAIN buf /\ buf[e[j]].addr # Buffers!NOWHERE
      /\ \A j, k \in DOMAIN e : j # k => e[j] # e[k]
      /\ \A i \in DOMAIN buf : buf[i].addr # Buffers!NOWHERE => \E j \in DOMAIN e : e[j] = i
  <2>1. Listing(e, buf, l)
    BY <1>1, <1>2, <1>3, InUseIs, Zenon
  <2>2. DOMAIN buf = 1 .. l
    BY <1>2
  <2> QED BY <2>1, <2>2 DEF Listing
<1>5. PICK t : t = Buffers!AllFlushed
  OBVIOUS
<1>6. /\ Good(t, {}) /\ DOMAIN t.buf = DOMAIN buf
      /\ \A i \in DOMAIN buf : /\ t.buf[i].ptr = buf[i].ptr /\ t.buf[i].size = buf[i].size
                               /\ t.buf[i].addr = buf[i].addr
      /\ \A u \in Unit : Buffers!VRAM \in t.holders[u]
  <2>1. Saving(w, t, l) /\ \A u \in Unit : Buffers!VRAM \in t.holders[u]
    <3>1. Good(w, {})
      BY <1>0
    <3> QED BY <1>0, <1>2, <1>5, <3>1, AllSaved, Zenon
  <2>2. Good(t, {}) /\ Alike(w, t) /\ \A i \in DOMAIN w.buf : t.buf[i].addr = w.buf[i].addr
    BY <2>1 DEF Saving
  <2>3. Good(t, {}) /\ Alike(w, t) /\ \A i \in DOMAIN buf : t.buf[i].addr = buf[i].addr
    BY <1>1, <2>2, Zenon
  <2>4. DOMAIN t.buf = DOMAIN w.buf
        /\ \A i \in DOMAIN w.buf : t.buf[i].ptr = w.buf[i].ptr /\ t.buf[i].size = w.buf[i].size
    BY <2>2 DEF Alike
  <2>5. DOMAIN t.buf = DOMAIN buf
        /\ \A i \in DOMAIN buf : t.buf[i].ptr = buf[i].ptr /\ t.buf[i].size = buf[i].size
    BY <1>1, <2>4, Zenon
  <2> QED BY <2>1, <2>3, <2>5, Zenon
<1>7. /\ DOMAIN q = DOMAIN e
      /\ \A j \in DOMAIN e : q[j] = MovedBuffer(buf[e[j]], at[e[j]])
  <2>1. DOMAIN q = DOMAIN e
    BY <1>3, Zenon DEF MovedTo
  <2>2. ASSUME NEW j \in DOMAIN e PROVE q[j] = MovedBuffer(buf[e[j]], at[e[j]])
    <3>1. q[j] = [buf[e[j]] EXCEPT !.ptr = at[e[j]], !.flushed = TRUE]
      BY <1>3, Zenon DEF MovedTo
    <3>2. buf[e[j]] \in BufferOf
      <4>1. buf \in Seq(BufferOf) /\ e[j] \in DOMAIN buf
        BY <1>1, <1>4
      <4> QED BY <4>1
    <3> QED BY <3>1, <3>2, MovedEdits, Zenon
  <2> QED BY <2>1, <2>2
<1>8. \A j \in DOMAIN e :
         /\ q[j].ptr = at[e[j]] /\ q[j].addr = buf[e[j]].addr /\ q[j].size = buf[e[j]].size
         /\ q[j].ptr \in Buffers!Pointer /\ q[j] \in BufferOf
  <2> SUFFICES ASSUME NEW j \in DOMAIN e
               PROVE  /\ q[j].ptr = at[e[j]] /\ q[j].addr = buf[e[j]].addr
                      /\ q[j].size = buf[e[j]].size
                      /\ q[j].ptr \in Buffers!Pointer /\ q[j] \in BufferOf
    OBVIOUS
  <2>1. PICK b \in BufferOf, p \in Buffers!Pointer : b = buf[e[j]] /\ p = at[e[j]]
    <3>1. buf[e[j]] \in BufferOf /\ at[e[j]] \in Buffers!Pointer
      <4>1. buf \in Seq(BufferOf) /\ e[j] \in DOMAIN buf
        BY <1>1, <1>4
      <4> QED BY <4>1
    <3> QED BY <3>1
  <2>2. q[j] = MovedBuffer(b, p)
    BY <1>7, <2>1, Zenon
  <2>3. /\ MovedBuffer(b, p).ptr = p /\ MovedBuffer(b, p).addr = b.addr
        /\ MovedBuffer(b, p).size = b.size /\ MovedBuffer(b, p) \in BufferOf
    BY <2>1 DEF MovedBuffer, BufferOf
  <2>4. p \in Buffers!Pointer
    BY <2>1
  <2> QED BY <2>1, <2>2, <2>3, <2>4, Zenon
<1>9. q \in Seq(BufferOf) /\ Len(q) = Len(e)
  <2>1. q = [j \in DOMAIN e |-> q[j]]
    BY <1>3 DEF MovedTo
  <2>2. q \in [1 .. Len(e) -> BufferOf]
    <3>1. \A j \in 1 .. Len(e) : q[j] \in BufferOf
      BY <1>4, <1>8
    <3>2. DOMAIN e = 1 .. Len(e)
      BY <1>4
    <3> QED BY <2>1, <3>1, <3>2
  <2> QED BY <1>4, <2>2
<1>10. Buffered(q)
  <2>1. Len(q) <= MAX_RENDER_BUFFERS
    <3>1. PICK m \in Nat : m = Len(q)
      BY <1>9
    <3>2. m <= l /\ l <= MAX_RENDER_BUFFERS
      <4>1. Len(buf) <= MAX_RENDER_BUFFERS
        BY <1>1 DEF Buffered
      <4> QED BY <1>2, <1>4, <1>9, <3>1, <4>1
    <3> QED BY <3>1, <3>2, FrameFacts
  <2>2. ASSUME NEW j \in DOMAIN q PROVE HasFrame(q[j])
    <3>1. j \in DOMAIN e
      BY <1>7
    <3>2. HasFrame(buf[e[j]])
      BY <1>1, <1>4, <3>1 DEF Buffered
    <3>3. q[j].addr = buf[e[j]].addr /\ q[j].size = buf[e[j]].size
      BY <1>8, <3>1
    <3> QED BY <3>2, <3>3 DEF HasFrame
  <2>3. ASSUME NEW j \in DOMAIN q, NEW k \in DOMAIN q, j # k
        PROVE  /\ q[j].ptr # q[k].ptr
               /\ q[j].addr # Buffers!NOWHERE => q[j].addr # q[k].addr
    <3>1. j \in DOMAIN e /\ k \in DOMAIN e
      BY <1>7
    <3>2. e[j] # e[k] /\ e[j] \in DOMAIN buf /\ e[k] \in DOMAIN buf
      BY <1>4, <2>3, <3>1
    <3>3. at[e[j]] # at[e[k]]
      BY <3>2
    <3>4. buf[e[j]].addr # Buffers!NOWHERE => buf[e[j]].addr # buf[e[k]].addr
      BY <1>1, <3>2 DEF Buffered
    <3>5. /\ q[j].ptr = at[e[j]] /\ q[j].addr = buf[e[j]].addr
          /\ q[k].ptr = at[e[k]] /\ q[k].addr = buf[e[k]].addr
      BY <1>8, <3>1
    <3> QED BY <3>3, <3>4, <3>5, Zenon
  <2> QED BY <1>9, <2>1, <2>2, <2>3 DEF Buffered
<1>11. ASSUME NEW p, NEW m \in Buffers!Moved(at, p)
       PROVE  \E j \in DOMAIN e : q[j].ptr = m
  <2>1. PICK i \in DOMAIN buf : buf[i].ptr = p /\ buf[i].addr # Buffers!NOWHERE /\ m = at[i]
    BY DEF Buffers!Moved
  <2>2. PICK j \in DOMAIN e : e[j] = i
    BY <1>4, <2>1
  <2> QED BY <1>8, <2>1, <2>2
<1>12. PICK x : x = [buf |-> q, holders |-> h]
  OBVIOUS
<1>13. x.buf = q /\ x.holders = h
  BY <1>12
<1>14. ASSUME NEW u \in Unit
       PROVE  h[u] = (t.holders[u] \cap {Buffers!VRAM})
                       \cup UNION {Buffers!Moved(at, p) : p \in t.holders[u] \ {Buffers!VRAM}}
  BY <1>5, Zenon DEF HeldBy
<1>15. h \in Holdings
  <2>1. \A p : Buffers!Moved(at, p) \subseteq Buffers!Pointer
    BY DEF Buffers!Moved
  <2>2. ASSUME NEW u \in Unit
        PROVE  h[u] \in SUBSET (Buffers!Pointer \cup {Buffers!VRAM})
    <3>1. t.holders[u] \cap {Buffers!VRAM} \subseteq Buffers!Pointer \cup {Buffers!VRAM}
      OBVIOUS
    <3>2. UNION {Buffers!Moved(at, p) : p \in t.holders[u] \ {Buffers!VRAM}}
            \subseteq Buffers!Pointer
      BY <2>1, Zenon
    <3> QED BY <1>14, <3>1, <3>2, Zenon
  <2>3. h = [u \in Unit |-> h[u]]
    BY Zenon DEF HeldBy
  <2> QED BY <2>2, <2>3 DEF Holdings
<1>16. x \in [buf : Seq(BufferOf), holders : Holdings]
  BY <1>9, <1>12, <1>15
<1>17. ASSUME NEW u \in Unit PROVE Shows(x, u) /\ Saves(x, u)
  <2>1. Buffers!VRAM \in h[u]
    BY <1>6, <1>14
  <2>2. Saves(x, u)
    BY <1>13, <2>1 DEF Saves
  <2>3. ASSUME NEW j \in DOMAIN q, u \in Buffers!Covers(q[j]) PROVE q[j].ptr \in h[u]
    <3>1. j \in DOMAIN e
      BY <1>7
    <3>2. PICK i \in DOMAIN buf : i = e[j] /\ buf[i].addr # Buffers!NOWHERE
      BY <1>4, <3>1
    <3>3. q[j].ptr = at[i] /\ q[j].addr = t.buf[i].addr /\ q[j].size = t.buf[i].size
      BY <1>6, <1>8, <3>1, <3>2
    <3>4. u \in Buffers!Covers(t.buf[i])
      <4>1. Buffers!Covers(q[j]) = Buffers!Covers(t.buf[i])
        BY <3>3, CoversSame, Zenon
      <4> QED BY <2>3, <4>1
    <3>5. PICK p : p = buf[i].ptr
      OBVIOUS
    <3>6. p \in t.holders[u]
      <4>1. Shows(t, u)
        BY <1>6 DEF Good
      <4>2. t.buf[i].ptr \in t.holders[u]
        BY <1>6, <3>4, <4>1 DEF Shows
      <4> QED BY <1>6, <3>5, <4>2
    <3>7. p # Buffers!VRAM
      <4>1. PICK b \in BufferOf : b = buf[i]
        <5>1. buf \in Seq(BufferOf)
          BY <1>1
        <5> QED BY <5>1
      <4>2. b.ptr \in Buffers!Pointer
        BY <4>1 DEF BufferOf
      <4> QED BY <3>5, <4>1, <4>2, FrameFacts
    <3>8. at[i] \in Buffers!Moved(at, p)
      BY <3>2, <3>5 DEF Buffers!Moved
    <3>9. at[i] \in h[u]
      <4>1. Buffers!Moved(at, p) \in
              {Buffers!Moved(at, o) : o \in t.holders[u] \ {Buffers!VRAM}}
        BY <3>6, <3>7, Zenon
      <4> QED BY <1>14, <3>8, <4>1, Zenon
    <3> QED BY <3>3, <3>9
  <2> QED BY <1>13, <2>2, <2>3 DEF Shows
<1>18. Good(x, {})
  BY <1>10, <1>16, <1>17, <1>13 DEF Good
<1>19. \A p : Buffers!Moved(at, p) \subseteq Buffers!Pointers(q)
  <2>1. Buffers!Pointers(q) = {q[j].ptr : j \in DOMAIN e}
    BY <1>7 DEF Buffers!Pointers
  <2> QED BY <1>11, <2>1
<1> QED BY <1>12, <1>18, <1>19, Zenon

(* The invariant of the buffers.                                           *)
Held(b, h) == Good([buf |-> b, holders |-> h], {})

BufInv ==
  /\ field \in [1 .. 2 -> {f.addr : f \in Frames}]
  /\ ~bypassed => Held(buf, holders)
  /\ ~orphaned => Buffers!Live(shown, buf)

LEMMA HeldIs ==
  ASSUME NEW x, Good(x, {})
  PROVE  Held(x.buf, x.holders)
<1>1. x \in [buf : Seq(BufferOf), holders : Holdings]
  BY DEF Good
<1>2. x = [buf |-> x.buf, holders |-> x.holders]
  BY <1>1
<1> QED BY <1>2, Zenon DEF Held

LEMMA NowIsGood ==
  ASSUME Held(buf, holders)
  PROVE  Good(Buffers!Now, {})
BY Zenon DEF Held, Buffers!Now

LEMMA EmptyIsGood ==
  ASSUME NEW b, b = <<>>, NEW h, h = [u \in Unit |-> {Buffers!VRAM}]
  PROVE  Held(b, h)
<1>1. PICK q \in Seq(BufferOf) : q = b /\ Len(q) = 0 /\ DOMAIN q = {}
  <2>1. <<>> \in Seq(BufferOf) /\ Len(<<>>) = 0 /\ DOMAIN <<>> = {}
    OBVIOUS
  <2> QED BY <2>1, Zenon
<1>2. h \in Holdings
  BY DEF Holdings
<1>3. PICK x : x = [buf |-> q, holders |-> h]
  OBVIOUS
<1>4. x \in [buf : Seq(BufferOf), holders : Holdings] /\ x.buf = q /\ x.holders = h
  BY <1>1, <1>2, <1>3
<1>5. Buffered(q)
  BY <1>1, FrameFacts DEF Buffered
<1>6. \A u \in Unit : Shows(x, u) /\ Saves(x, u)
  BY <1>1, <1>4 DEF Shows, Saves
<1>7. Good(x, {})
  BY <1>4, <1>5, <1>6 DEF Good
<1> QED BY <1>1, <1>3, <1>7, Zenon DEF Held

(* The newest of a unit that no buffer stands for is written to video RAM. *)
LEMMA WrittenKeeps ==
  ASSUME NEW x, Good(x, {}), NEW u \in Unit, Untouched(x, u),
         NEW h, h = [x.holders EXCEPT ![u] = {Buffers!VRAM}]
  PROVE  Held(x.buf, h)
<1>1. /\ x \in [buf : Seq(BufferOf), holders : Holdings] /\ Buffered(x.buf)
      /\ \A v \in Unit : Shows(x, v) /\ Saves(x, v)
  BY DEF Good
<1>2. PICK g \in Holdings : g = h
  <2>1. x.holders \in Holdings
    BY <1>1
  <2>2. h \in Holdings
    BY <2>1 DEF Holdings
  <2> QED BY <2>2
<1>3. g[u] = {Buffers!VRAM} /\ \A v \in Unit : v # u => g[v] = x.holders[v]
  <2>1. x.holders \in Holdings
    BY <1>1
  <2> QED BY <1>2, <2>1 DEF Holdings
<1>4. PICK y : y = [buf |-> x.buf, holders |-> g]
  OBVIOUS
<1>5. y \in [buf : Seq(BufferOf), holders : Holdings] /\ y.buf = x.buf /\ y.holders = g
  BY <1>1, <1>2, <1>4
<1>6. ASSUME NEW v \in Unit PROVE Shows(y, v) /\ Saves(y, v)
  <2>1. CASE v = u
    BY <1>3, <1>5, <2>1 DEF Shows, Saves, Untouched
  <2>2. CASE v # u
    <3>1. Shows(x, v) /\ Saves(x, v) /\ g[v] = x.holders[v]
      BY <1>1, <1>3, <2>2
    <3> QED BY <1>5, <3>1 DEF Shows, Saves
  <2> QED BY <2>1, <2>2
<1>7. Good(y, {})
  BY <1>1, <1>5, <1>6 DEF Good
<1> QED BY <1>2, <1>4, <1>7, Zenon DEF Held

LEMMA BufferSteps ==
  ASSUME BufInv, Buffers!Next
  PROVE  BufInv'
<1>0. /\ field \in [1 .. 2 -> {f.addr : f \in Frames}]
      /\ ~bypassed => Held(buf, holders) /\ Good(Buffers!Now, {})
      /\ ~orphaned => Buffers!Live(shown, buf)
  BY NowIsGood DEF BufInv
<1>1. CASE Buffers!Reset
  <2>1. /\ buf' = <<>> /\ holders' = [u \in Unit |-> {Buffers!VRAM}]
        /\ shown' = shown /\ field' = field
        /\ orphaned' = (shown # Buffers!NULL)
    BY <1>1, Zenon DEF Buffers!Reset
  <2>2. Held(buf', holders')
    BY <2>1, EmptyIsGood, Zenon
  <2>3. ~orphaned' => Buffers!Live(shown', buf')
    BY <2>1 DEF Buffers!Live
  <2>4. field' \in [1 .. 2 -> {f.addr : f \in Frames}]
    BY <1>0, <2>1, Zenon
  <2> QED BY <2>2, <2>3, <2>4 DEF BufInv
<1>2. CASE ~bypassed /\ \E f \in Frames : Buffers!Render(f)
  <2>1. PICK f \in Frames : Buffers!Render(f)
    BY <1>2
  <2>2. PICK x : Rendered(Buffers!Now, x) /\ Buffers!Become(x)
    BY <1>0, <1>2, <2>1, RenderLeaves
  <2>3. shown' = shown /\ field' = field /\ bypassed' = bypassed /\ orphaned' = orphaned
    BY <2>1 DEF Buffers!Render
  <2>4. buf' = x.buf /\ holders' = x.holders
    BY <2>2 DEF Buffers!Become
  <2>5. Good(x, {}) /\ (Buffers!Live(shown, buf) => Buffers!Live(shown, x.buf))
    <3>1. Good(x, {}) /\ (Buffers!Live(shown, Buffers!Now.buf) => Buffers!Live(shown, x.buf))
      BY <2>2, Zenon DEF Rendered
    <3>2. Buffers!Now.buf = buf
      BY NowIs
    <3> QED BY <3>1, <3>2, Zenon
  <2>6. Held(x.buf, x.holders)
    BY <2>5, HeldIs
  <2>7. Held(buf', holders')
    BY <2>4, <2>6, Zenon
  <2>8. ~orphaned' => Buffers!Live(shown', buf')
    BY <1>0, <2>3, <2>4, <2>5, Zenon
  <2>9. field' \in [1 .. 2 -> {g.addr : g \in Frames}]
    BY <1>0, <2>3, Zenon
  <2> QED BY <2>7, <2>8, <2>9 DEF BufInv
<1>3. CASE ~bypassed /\ \E k \in 1 .. 2, f \in Frames : Buffers!NextFrame(k, f)
  <2>1. PICK k \in 1 .. 2, f \in Frames : Buffers!NextFrame(k, f)
    BY <1>3
  <2>2. field' = field /\ bypassed' = bypassed
    BY <2>1 DEF Buffers!NextFrame
  <2>3. field' \in [1 .. 2 -> {g.addr : g \in Frames}]
    BY <1>0, <2>2, Zenon
  <2>4. PICK found : found = {i \in DOMAIN buf : buf[i].addr = Buffers!Base(f.addr)}
    OBVIOUS
  <2>5. Good(Buffers!Now, {}) /\ Held(buf, holders) /\ Buffers!Now.buf = buf
    BY <1>0, <1>3, NowIs
  <2>6. CASE found # {}
    <3>1. PICK i : i = Buffers!First(found)
      OBVIOUS
    <3>2. shown' = buf[i].ptr /\ buf' = buf /\ holders' = holders
      BY <2>1, <2>4, <2>6, <3>1, Zenon DEF Buffers!NextFrame
    <3>3. i \in DOMAIN buf
      <4>1. buf \in Seq(BufferOf)
        <5>1. Buffers!Now.buf \in Seq(BufferOf)
          BY <2>5 DEF Good
        <5> QED BY <2>5, <5>1, Zenon
      <4>2. found \subseteq Nat /\ found \subseteq DOMAIN buf
        BY <2>4, <4>1
      <4> QED BY <2>6, <3>1, <4>2, FirstIs
    <3>4. Held(buf', holders')
      BY <2>5, <3>2, Zenon
    <3>5. Buffers!Live(shown', buf')
      BY <3>2, <3>3, Zenon DEF Buffers!Live, Buffers!Pointers
    <3> QED BY <2>3, <3>4, <3>5 DEF BufInv
  <2>7. CASE found = {}
    <3>1. PICK got \in Buffers!Allocated(Buffers!Base(f.addr), f.size) :
             Buffers!Become(Buffers!Load(got)) /\ shown' = got.s.buf[got.i].ptr
      BY <2>1, <2>4, <2>7, Zenon DEF Buffers!NextFrame
    <3>2. Nobody(Buffers!Now, Buffers!Base(f.addr))
      <4>1. \A j \in DOMAIN buf : buf[j].addr # Buffers!Base(f.addr)
        BY <2>4, <2>7
      <4> QED BY <2>5, <4>1, Zenon DEF Nobody
    <3>3. /\ Good(Buffers!Load(got), {})
          /\ got.s.buf[got.i].ptr \in Buffers!Pointers(Buffers!Load(got).buf)
      BY <1>0, <2>5, <3>2, LoadLeaves
    <3>4. buf' = Buffers!Load(got).buf /\ holders' = Buffers!Load(got).holders
      BY <3>1 DEF Buffers!Become
    <3>5. Held(Buffers!Load(got).buf, Buffers!Load(got).holders)
      BY <3>3, HeldIs
    <3>6. Held(buf', holders')
      BY <3>4, <3>5, Zenon
    <3>7. Buffers!Live(shown', buf')
      BY <3>1, <3>3, <3>4, Zenon DEF Buffers!Live
    <3> QED BY <2>3, <3>6, <3>7 DEF BufInv
  <2> QED BY <2>6, <2>7
<1>4. CASE ~bypassed /\ \E k \in 1 .. 2, f \in Frames : Buffers!WriteField(k, f)
  <2>1. PICK k \in 1 .. 2, f \in Frames : Buffers!WriteField(k, f)
    BY <1>4
  <2>2. /\ field' = [field EXCEPT ![k] = f.addr]
        /\ buf' = buf /\ holders' = holders /\ bypassed' = bypassed
        /\ shown' = shown /\ orphaned' = orphaned
    BY <2>1, Zenon DEF Buffers!WriteField
  <2>3. field' \in [1 .. 2 -> {g.addr : g \in Frames}]
    <3>1. PICK a \in {g.addr : g \in Frames} : a = f.addr
      OBVIOUS
    <3>2. field' = [field EXCEPT ![k] = a]
      BY <2>2, <3>1, Zenon
    <3> QED BY <1>0, <3>2
  <2>4. ~bypassed' => Held(buf', holders')
    BY <1>0, <2>2, Zenon
  <2>5. ~orphaned' => Buffers!Live(shown', buf')
    BY <1>0, <2>2, Zenon
  <2> QED BY <2>3, <2>4, <2>5 DEF BufInv
<1>5. CASE ~bypassed /\ \E u \in Unit : Buffers!ReadVram(u)
  <2>1. PICK u \in Unit : Buffers!ReadVram(u)
    BY <1>5
  <2>2. PICK x : x = Buffers!Invalidated(u, FALSE)
    OBVIOUS
  <2>3. Good(x, {}) /\ Alike(Buffers!Now, x)
    <3>1. Good(Buffers!Now, {})
      BY <1>0, <1>5
    <3>2. PICK g \in BOOLEAN : g = FALSE
      OBVIOUS
    <3>3. Good(Buffers!Invalidated(u, g), {}) /\ Alike(Buffers!Now, Buffers!Invalidated(u, g))
      BY <3>1, <3>2, InvalidatedLeaves
    <3> QED BY <2>2, <3>2, <3>3, Zenon
  <2>4. /\ buf' = x.buf /\ holders' = x.holders /\ shown' = shown /\ field' = field
        /\ bypassed' = bypassed /\ orphaned' = orphaned
    BY <2>1, <2>2, Zenon DEF Buffers!ReadVram, Buffers!Become
  <2>5. Held(buf', holders')
    BY <2>3, <2>4, HeldIs, Zenon
  <2>6. ~orphaned' => Buffers!Live(shown', buf')
    <3>1. Buffers!Live(shown, Buffers!Now.buf) => Buffers!Live(shown, x.buf)
      BY <2>3, AlikeIsPreserved DEF Preserved
    <3> QED BY <1>0, <2>4, <3>1, NowIs, Zenon
  <2>7. field' \in [1 .. 2 -> {g.addr : g \in Frames}]
    BY <1>0, <2>4, Zenon
  <2> QED BY <2>5, <2>6, <2>7 DEF BufInv
<1>6. CASE ~bypassed /\ \E u \in Unit : Buffers!WriteVram(u)
  <2>1. PICK u \in Unit : Buffers!WriteVram(u)
    BY <1>6
  <2>2. PICK x : x = Buffers!Invalidated(u, TRUE)
    OBVIOUS
  <2>3. Good(x, {}) /\ Alike(Buffers!Now, x) /\ Untouched(x, u)
    <3>1. Good(Buffers!Now, {})
      BY <1>0, <1>6
    <3>2. PICK g \in BOOLEAN : g = TRUE
      OBVIOUS
    <3>3. /\ Good(Buffers!Invalidated(u, g), {}) /\ Alike(Buffers!Now, Buffers!Invalidated(u, g))
          /\ Untouched(Buffers!Invalidated(u, g), u)
      BY <3>1, <3>2, InvalidatedLeaves
    <3> QED BY <2>2, <3>2, <3>3, Zenon
  <2>4. PICK h : h = [x.holders EXCEPT ![u] = {Buffers!VRAM}]
    OBVIOUS
  <2>5. PICK y : y = [x EXCEPT !.holders = h]
    OBVIOUS
  <2>6. y.buf = x.buf /\ y.holders = h
    <3>1. x \in [buf : Seq(BufferOf), holders : Holdings]
      BY <2>3 DEF Good
    <3> QED BY <2>5, <3>1
  <2>7. /\ buf' = y.buf /\ holders' = y.holders /\ shown' = shown /\ field' = field
        /\ bypassed' = bypassed /\ orphaned' = orphaned
    <3>1. [x EXCEPT !.holders[u] = {Buffers!VRAM}] = y
      BY <2>4, <2>5, Zenon
    <3> QED BY <2>1, <2>2, <3>1, Zenon DEF Buffers!WriteVram, Buffers!Become
  <2>8. Held(buf', holders')
    <3>1. Held(x.buf, h)
      BY <2>3, <2>4, WrittenKeeps
    <3> QED BY <2>6, <2>7, <3>1, Zenon
  <2>9. ~orphaned' => Buffers!Live(shown', buf')
    <3>1. Buffers!Live(shown, Buffers!Now.buf) => Buffers!Live(shown, x.buf)
      BY <2>3, AlikeIsPreserved DEF Preserved
    <3> QED BY <1>0, <2>6, <2>7, <3>1, NowIs, Zenon
  <2>10. field' \in [1 .. 2 -> {g.addr : g \in Frames}]
    BY <1>0, <2>7, Zenon
  <2> QED BY <2>8, <2>9, <2>10 DEF BufInv
<1>7. CASE ~bypassed /\ \E u \in Unit : Buffers!WriteVram64(u)
  <2>1. PICK u \in Unit : Buffers!WriteVram64(u)
    BY <1>7
  <2>2. /\ holders' = [holders EXCEPT ![u] = {Buffers!VRAM}]
        /\ bypassed' = (bypassed \/ \E i \in DOMAIN buf : u \in Buffers!Covers(buf[i]))
        /\ buf' = buf /\ shown' = shown /\ field' = field /\ orphaned' = orphaned
    BY <2>1, Zenon DEF Buffers!WriteVram64
  <2>3. ASSUME ~bypassed' PROVE Held(buf', holders')
    <3>1. PICK w : w = Buffers!Now
      OBVIOUS
    <3>2. Good(w, {}) /\ w.buf = buf /\ w.holders = holders
      BY <1>0, <1>7, <3>1, NowIs
    <3>3. \A i \in DOMAIN buf : u \notin Buffers!Covers(buf[i])
      BY <2>2, <2>3
    <3>4. Untouched(w, u)
      BY <3>2, <3>3, Zenon DEF Untouched
    <3>5. PICK h : h = [w.holders EXCEPT ![u] = {Buffers!VRAM}]
      OBVIOUS
    <3>6. Held(w.buf, h)
      BY <3>2, <3>4, <3>5, WrittenKeeps
    <3> QED BY <2>2, <3>2, <3>5, <3>6, Zenon
  <2>4. ~orphaned' => Buffers!Live(shown', buf')
    BY <1>0, <2>2, Zenon
  <2>5. field' \in [1 .. 2 -> {g.addr : g \in Frames}]
    BY <1>0, <2>2, Zenon
  <2> QED BY <2>3, <2>4, <2>5 DEF BufInv
<1>8. CASE ~bypassed /\ Buffers!NextFrameBlank
  <2>1. /\ shown' = Buffers!NULL /\ buf' = buf /\ field' = field /\ holders' = holders
        /\ bypassed' = bypassed
    BY <1>8, Zenon DEF Buffers!NextFrameBlank
  <2>2. ~bypassed' => Held(buf', holders')
    BY <1>0, <2>1, Zenon
  <2>3. Buffers!Live(shown', buf')
    BY <2>1, Zenon DEF Buffers!Live
  <2>4. field' \in [1 .. 2 -> {g.addr : g \in Frames}]
    BY <1>0, <2>1, Zenon
  <2> QED BY <2>2, <2>3, <2>4 DEF BufInv
<1>9. CASE ~bypassed /\ Buffers!Shutdown
  <2>1. /\ buf' = <<>>
        /\ holders' = [u \in Unit |-> Buffers!AllFlushed.holders[u] \cap {Buffers!VRAM}]
        /\ orphaned' = (shown # Buffers!NULL) /\ shown' = shown /\ field' = field
    BY <1>9, Zenon DEF Buffers!Shutdown
  <2>2. holders' = [u \in Unit |-> {Buffers!VRAM}]
    <3>1. PICK t : t = Buffers!AllFlushed
      OBVIOUS
    <3>2. \A u \in Unit : Buffers!VRAM \in t.holders[u]
      <4>1. Good(Buffers!Now, {})
        BY <1>0, <1>9
      <4>2. PICK w : w = Buffers!Now
        OBVIOUS
      <4>3. Good(w, {})
        BY <4>1, <4>2
      <4> QED BY <3>1, <4>2, <4>3, AllSaved, Zenon
    <3>3. \A u \in Unit : t.holders[u] \cap {Buffers!VRAM} = {Buffers!VRAM}
      BY <3>2
    <3>4. holders' = [u \in Unit |-> t.holders[u] \cap {Buffers!VRAM}]
      BY <2>1, <3>1, Zenon
    <3> QED BY <3>3, <3>4
  <2>3. Held(buf', holders')
    BY <2>1, <2>2, EmptyIsGood, Zenon
  <2>4. ~orphaned' => Buffers!Live(shown', buf')
    BY <2>1 DEF Buffers!Live
  <2>5. field' \in [1 .. 2 -> {f.addr : f \in Frames}]
    BY <1>0, <2>1, Zenon
  <2> QED BY <2>3, <2>4, <2>5 DEF BufInv
<1>10. CASE ~bypassed /\ Buffers!ChangeWindow
  <2>1. PICK at \in [DOMAIN buf -> Buffers!Pointer] :
          /\ \A i, j \in DOMAIN buf : at[i] = at[j] => i = j
          /\ MovedTo(buf', at) /\ HeldBy(holders', at)
          /\ IF Buffers!Moved(at, shown) # {}
             THEN shown' \in Buffers!Moved(at, shown) /\ orphaned' = orphaned
             ELSE shown' = shown /\ orphaned' = (shown # Buffers!NULL)
          /\ field' = field /\ bypassed' = bypassed
    BY <1>10, Zenon DEF Buffers!ChangeWindow, MovedTo, HeldBy
  <2>2. /\ Good([buf |-> buf', holders |-> holders'], {})
        /\ \A p : Buffers!Moved(at, p) \subseteq Buffers!Pointers(buf')
    BY <1>0, <1>10, <2>1, WindowLeaves
  <2>3. Held(buf', holders')
    BY <2>2, Zenon DEF Held
  <2>4. ~orphaned' => Buffers!Live(shown', buf')
    BY <2>1, <2>2 DEF Buffers!Live
  <2>5. field' \in [1 .. 2 -> {f.addr : f \in Frames}]
    BY <1>0, <2>1, Zenon
  <2> QED BY <2>3, <2>4, <2>5 DEF BufInv
<1> QED BY <1>1, <1>2, <1>3, <1>4, <1>5, <1>6, <1>7, <1>8, <1>9, <1>10, Zenon DEF Buffers!Next

LEMMA BuffersStart == Buffers!Init => BufInv
<1> SUFFICES ASSUME Buffers!Init PROVE BufInv
  OBVIOUS
<1>1. /\ buf = <<>> /\ shown = Buffers!NULL /\ holders = [u \in Unit |-> {Buffers!VRAM}]
      /\ \E f \in Frames : field = <<f.addr, f.addr>>
  BY DEF Buffers!Init
<1>2. Held(buf, holders)
  BY <1>1, EmptyIsGood, Zenon
<1>3. Buffers!Live(shown, buf)
  BY <1>1 DEF Buffers!Live
<1>4. field \in [1 .. 2 -> {f.addr : f \in Frames}]
  <2>1. PICK f \in Frames : field = <<f.addr, f.addr>>
    BY <1>1
  <2>2. PICK a \in {g.addr : g \in Frames} : a = f.addr
    OBVIOUS
  <2>3. field = <<a, a>>
    BY <2>1, <2>2, Zenon
  <2> QED BY <2>3
<1> QED BY <1>2, <1>3, <1>4 DEF BufInv

LEMMA BuffersHold == BufInv => Buffers!BuffersTrue
<1> SUFFICES ASSUME BufInv PROVE Buffers!BuffersTrue
  OBVIOUS
<1>1. Buffers!NothingLost
  <2> SUFFICES ASSUME ~bypassed PROVE
        \A u \in Unit :
          /\ \/ Buffers!VRAM \in holders[u]
             \/ \E i \in DOMAIN buf : /\ u \in Buffers!Covers(buf[i]) /\ ~buf[i].flushed
                                      /\ buf[i].ptr \in holders[u]
          /\ \A i \in DOMAIN buf : u \in Buffers!Covers(buf[i]) => buf[i].ptr \in holders[u]
    BY DEF Buffers!NothingLost
  <2>1. PICK w : w = Buffers!Now
    OBVIOUS
  <2>2. Good(w, {}) /\ w.buf = buf /\ w.holders = holders
    BY <2>1, NowIsGood, NowIs DEF BufInv
  <2>3. \A u \in Unit : Shows(w, u) /\ Saves(w, u)
    BY <2>2 DEF Good
  <2> QED BY <2>2, <2>3 DEF Shows, Saves
<1>2. Buffers!DisplayedIsAlive
  BY DEF BufInv, Buffers!DisplayedIsAlive
<1> QED BY <1>1, <1>2 DEF Buffers!BuffersTrue

LEMMA BuffersKeep == Buffers!Spec => []Buffers!BuffersTrue
<1>1. BufInv /\ [Buffers!Next]_(Buffers!vars) => BufInv'
  <2> SUFFICES ASSUME BufInv, [Buffers!Next]_(Buffers!vars) PROVE BufInv'
    OBVIOUS
  <2>1. CASE Buffers!Next
    BY <2>1, BufferSteps
  <2>2. CASE UNCHANGED Buffers!vars
    BY <2>2 DEF BufInv, Buffers!vars
  <2> QED BY <2>1, <2>2
<1> QED BY <1>1, BuffersStart, BuffersHold, PTL DEF Buffers!Spec
-----------------------------------------------------------------------------
LEMMA PartsMove ==
  /\ BenchSpec => Buffers!Spec
  /\ BenchSpec => Beam!Spec
  /\ BenchSpec => Strips!Spec
  /\ BenchSpec => Textures!Spec
  /\ BenchSpec => Chip!Spec
  /\ BenchSpec => Voice!Spec
  /\ BenchSpec => Spec
<1>1. BenchInit => Buffers!Init /\ Beam!Init /\ Strips!Init /\ Textures!Init
                  /\ Chip!Init /\ Voice!Init /\ Init
  BY DEF BenchInit
<1>2. [BenchNext]_<<part, vars, Buffers!vars, Beam!vars, Strips!vars, Tiles!vars,
                    View!vars, Textures!vars, Chip!vars, Voice!vars>> =>
        /\ [Buffers!Next]_(Buffers!vars)
        /\ [Beam!Next]_(Beam!vars) /\ [Strips!Next]_(Strips!vars)
        /\ [Textures!Next]_(Textures!vars) /\ [Chip!Next]_(Chip!vars)
        /\ [Voice!Next]_(Voice!vars) /\ [Next]_vars
  BY DEF BenchNext, SoundStays, ChipsStay, PictureStays, ArmStays, BuffersStay,
         BeamStays, StripsStay, TexturesStay, ChipStays, VoiceStays, vars, Buffers!vars,
         Beam!vars, Strips!vars, Textures!vars, Textures!slots, Textures!palette, Chip!vars,
         Voice!vars
<1> QED
  BY <1>1, <1>2, PTL DEF BenchSpec, Buffers!Spec, Beam!Spec, Strips!Spec, Textures!Spec,
                              Chip!Spec, Voice!Spec, Spec

(* The newest contents of every unit of video RAM are there or in a buffer *)
(* that will be copied back to it, a buffer that stands for a unit shows   *)
(* its newest contents, and the buffer on display is there, whatever is    *)
(* rendered, displayed, read, written or thrown away, for any number of    *)
(* buffers from two and any frames that are kept apart.                    *)
(* (pvr2_alloc_render_buffer, pvr2_next_frame,                             *)
(* pvr2_render_buffer_copy_to_sh4, pvr2_render_buffer_invalidate,          *)
(* pvr2_preserve_render_buffers, pvr2_restore_render_buffers)              *)
THEOREM BuffersAreTrue == BenchSpec => []BuffersTrue
<1>1. Buffers!BuffersTrue => BuffersTrue
  BY DEF BuffersTrue
<1> QED BY <1>1, PartsMove, BuffersKeep, PTL

(* A raster event is due when the beam starts one of its lines, and every  *)
(* field shows one frame, for all lengths of lines, fields and slices with *)
(* which a field outlasts what is run between two looks at the raster.     *)
(* (pvr2_run_slice, pvr2_update_raster_posn, pvr2_schedule_scanline_event) *)
THEOREM RasterIsTrue == BenchSpec => []RasterTrue
<1>1. Beam!RasterTrue => RasterTrue
  BY DEF RasterTrue
<1> QED BY <1>1, PartsMove, BeamKeeps, PTL

(* Of a strip split by any even length, or by three, what is committed and *)
(* what waits are all its triangles as they wind, and none twice.          *)
(* (ta_split_polygon, ta_parse_vertex, ta_parse_polygon_context)           *)
THEOREM StripsAreDrawn == BenchSpec => []StripIsDrawn
<1>1. Strips!StripIsDrawn => StripIsDrawn
  BY DEF StripIsDrawn
<1> QED BY <1>1, PartsMove, StripKeeps, PTL

(* Every slot is on one list of the cache, a scene keeps the textures it   *)
(* was given in their slots for as long as it draws, whatever it evicts,   *)
(* and has its palette; for any number of slots, pages and textures.       *)
(* (texcache_get_texture, texcache_evict_lru, texcache_evict,              *)
(* texcache_invalidate_page, texcache_begin_scene)                         *)
THEOREM CacheIsTrue == BenchSpec => []CacheTrue
<1>1. Textures!CacheTrue => CacheTrue
  BY DEF CacheTrue
<1> QED BY <1>1, PartsMove, CacheKeeps, PTL

(* The ARM keeps the pace of the time and has an interrupt just while an   *)
(* event is pending, for every rate and length of a slice; and a channel   *)
(* that nobody moved plays nothing from its end on, for any number of      *)
(* positions that a mix moves it by.  (aica_run_slice, aica_event,         *)
(* aica_clear_event, audio_mix_samples)                                    *)
THEOREM SoundIsTrue == BenchSpec => []SoundTrue
<1>1. Chip!AicaTrue /\ Voice!StaysInside => SoundTrue
  BY DEF SoundTrue
<1> QED BY <1>1, PartsMove, ChipKeeps, ChannelKeeps, PTL

(* On the bench too, each mode of the ARM finds its registers as it left   *)
(* them.  (arm_set_mode, arm_raise_exception, arm_restore_cpsr)            *)
THEOREM RegistersAreKept == BenchSpec => KeepsRegisters
BY PartsMove, ArmRefinement
=============================================================================
