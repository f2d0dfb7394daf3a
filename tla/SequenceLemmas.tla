--------------------------- MODULE SequenceLemmas ---------------------------
(***************************************************************************)
(* What inserting into and removing from a sequence does to its elements:  *)
(* the lists of eventq.c, the array of intc.c and the stack of calls on    *)
(* tqueue.c rest on it.  And induction over the natural numbers, for a set *)
(* of them: what loops of unknown length do rests on that.                 *)
(***************************************************************************)
EXTENDS Integers, Sequences, SequencesExt, SequenceTheorems, WellFoundedInduction, TLAPS

(* What InsertAt does, which shifts the rest up.  It is said of any        *)
(* sequence that is the result, a form the provers need not look into      *)
(* where it is cited.                                                      *)
IsInsertion(r, q, i, e) ==
  /\ Len(r) = Len(q) + 1
  /\ \A k \in 1 .. Len(q) + 1 :
       r[k] = IF k < i THEN q[k] ELSE IF k = i THEN e ELSE q[k - 1]

LEMMA InsertionElements ==
  ASSUME NEW S, NEW q \in Seq(S), NEW i \in 1 .. Len(q) + 1, NEW e \in S,
         NEW r, r = InsertAt(q, i, e)
  PROVE  r \in Seq(S) /\ IsInsertion(r, q, i, e)
<1> DEFINE a == SubSeq(q, 1, i - 1)
           b == SubSeq(q, i, Len(q))
<1>1. /\ a \in Seq(S) /\ Len(a) = i - 1
      /\ \A k \in 1 .. i - 1 : a[k] = q[k]
  BY SubSeqProperties, LenProperties
<1>2. /\ b \in Seq(S) /\ Len(b) = Len(q) - i + 1
      /\ \A k \in 1 .. Len(q) - i + 1 : b[k] = q[i + k - 1]
  BY SubSeqProperties, LenProperties
<1> HIDE DEF a, b
<1> DEFINE c == a \o <<e>>
<1>3. <<e>> \in Seq(S) /\ Len(<<e>>) = 1 /\ <<e>>[1] = e
  OBVIOUS
<1>4. /\ c \in Seq(S) /\ Len(c) = i
      /\ \A k \in 1 .. i : c[k] = IF k < i THEN q[k] ELSE e
  BY <1>1, <1>3, ConcatProperties, LenProperties
<1> HIDE DEF c
<1>5. /\ c \o b \in Seq(S)
      /\ Len(c \o b) = Len(c) + Len(b)
      /\ \A k \in 1 .. Len(c) + Len(b) :
           (c \o b)[k] = IF k <= Len(c) THEN c[k] ELSE b[k - Len(c)]
  BY <1>2, <1>4, ConcatProperties
<1>6. i \in Nat /\ Len(q) \in Nat /\ Len(c) + Len(b) = Len(q) + 1
  BY <1>2, <1>4, LenProperties
<1>7. ASSUME NEW k \in 1 .. Len(q) + 1
      PROVE  (c \o b)[k] = IF k < i THEN q[k]
                            ELSE IF k = i THEN e ELSE q[k - 1]
  <2>1. CASE k <= i
    BY <2>1, <1>4, <1>5, <1>6
  <2>2. CASE k > i
    <3>1. k - i \in 1 .. Len(q) - i + 1 /\ b[k - i] = q[i + (k - i) - 1]
      BY <2>2, <1>2, <1>6
    <3> QED BY <2>2, <3>1, <1>4, <1>5, <1>6
  <2> QED BY <2>1, <2>2, <1>6
<1>8. r = c \o b
  BY DEF InsertAt, a, b, c
<1> QED BY <1>5, <1>6, <1>7, <1>8 DEF IsInsertion

LEMMA InsertAtElements ==
  ASSUME NEW S, NEW q \in Seq(S), NEW i \in 1 .. Len(q) + 1, NEW e \in S
  PROVE  /\ InsertAt(q, i, e) \in Seq(S)
         /\ Len(InsertAt(q, i, e)) = Len(q) + 1
         /\ \A k \in 1 .. Len(q) + 1 :
              InsertAt(q, i, e)[k] = IF k < i THEN q[k]
                                     ELSE IF k = i THEN e ELSE q[k - 1]
<1> DEFINE r == InsertAt(q, i, e)
<1>1. r \in Seq(S) /\ IsInsertion(r, q, i, e)
  BY InsertionElements
<1> HIDE DEF r
<1>2. /\ r \in Seq(S)
      /\ Len(r) = Len(q) + 1
      /\ \A k \in 1 .. Len(q) + 1 :
           r[k] = IF k < i THEN q[k] ELSE IF k = i THEN e ELSE q[k - 1]
  BY <1>1 DEF IsInsertion
<1> QED BY <1>2 DEF r

(* RemoveAt, which shifts the rest down.                                  *)
LEMMA RemoveAtElements ==
  ASSUME NEW S, NEW q \in Seq(S), NEW i \in 1 .. Len(q)
  PROVE  /\ RemoveAt(q, i) \in Seq(S)
         /\ Len(RemoveAt(q, i)) = Len(q) - 1
         /\ \A k \in 1 .. Len(q) - 1 :
              RemoveAt(q, i)[k] = IF k < i THEN q[k] ELSE q[k + 1]
<1> DEFINE a == SubSeq(q, 1, i - 1)
           b == SubSeq(q, i + 1, Len(q))
<1>1. /\ a \in Seq(S) /\ Len(a) = i - 1
      /\ \A k \in 1 .. i - 1 : a[k] = q[k]
  BY SubSeqProperties, LenProperties
<1>2. /\ b \in Seq(S) /\ Len(b) = Len(q) - i
      /\ \A k \in 1 .. Len(q) - i : b[k] = q[i + k]
  BY SubSeqProperties, LenProperties
<1> HIDE DEF a, b
<1>3. /\ a \o b \in Seq(S)
      /\ Len(a \o b) = Len(a) + Len(b)
      /\ \A k \in 1 .. Len(a) + Len(b) :
           (a \o b)[k] = IF k <= Len(a) THEN a[k] ELSE b[k - Len(a)]
  BY <1>1, <1>2, ConcatProperties
<1>4. i \in Nat /\ Len(q) \in Nat /\ Len(a) + Len(b) = Len(q) - 1
  BY <1>1, <1>2, LenProperties
<1>5. ASSUME NEW k \in 1 .. Len(q) - 1
      PROVE  (a \o b)[k] = IF k < i THEN q[k] ELSE q[k + 1]
  <2>1. CASE k < i
    BY <2>1, <1>1, <1>3, <1>4
  <2>2. CASE k >= i
    <3>1. /\ k - (i - 1) \in 1 .. Len(q) - i
          /\ b[k - (i - 1)] = q[i + (k - (i - 1))]
      BY <2>2, <1>2, <1>4
    <3> QED BY <2>2, <3>1, <1>1, <1>3, <1>4
  <2> QED BY <2>1, <2>2, <1>4
<1> QED BY <1>3, <1>4, <1>5 DEF RemoveAt, a, b

(* Without its last element.                                               *)
LEMMA FrontElements ==
  ASSUME NEW S, NEW q \in Seq(S), q # <<>>
  PROVE  /\ Front(q) \in Seq(S)
         /\ Len(Front(q)) = Len(q) - 1
         /\ Len(q) \in Nat \ {0}
         /\ \A k \in 1 .. Len(q) - 1 : Front(q)[k] = q[k]
<1> DEFINE f == SubSeq(q, 1, Len(q) - 1)
<1>1. Len(q) \in Nat \ {0}
  BY EmptySeq, LenProperties
<1>2. /\ f \in Seq(S) /\ Len(f) = Len(q) - 1
      /\ \A k \in 1 .. Len(q) - 1 : f[k] = q[k]
  <2>1. PICK n \in Nat : n = Len(q) - 1
    BY <1>1
  <2>2. \A k \in 1 .. n : q[k] \in S
    BY <2>1, <1>1, ElementOfSeq
  <2>3. /\ SubSeq(q, 1, n) \in Seq(S)
        /\ Len(SubSeq(q, 1, n)) = IF 1 <= n THEN n - 1 + 1 ELSE 0
        /\ \A k \in 1 .. n - 1 + 1 : SubSeq(q, 1, n)[k] = q[1 + k - 1]
    BY <2>2, SubSeqProperties
  <2> QED BY <2>1, <2>3
<1>3. Front(q) = f
  BY DEF Front
<1> HIDE DEF f
<1> QED BY <1>1, <1>2, <1>3

-----------------------------------------------------------------------------
(* A set of natural numbers that is not empty has a least element.         *)
LEMMA LeastNatural ==
  ASSUME NEW T \in SUBSET Nat, T # {}
  PROVE  \E n \in T : \A m \in T : n <= m
<1> DEFINE R == {ss \in Nat \X Nat : ss[1] < ss[2]}
<1>1. IsWellFoundedOn(R, Nat)
  BY NatLessThanWellFounded DEF OpToRel
<1> HIDE DEF R
<1>2. PICK n \in T : \A m \in T : ~(<<m, n>> \in R)
  BY <1>1, WFMin
<1>3. \A m \in T : n <= m
  <2> SUFFICES ASSUME NEW m \in T PROVE n <= m
    OBVIOUS
  <2>1. ~(<<m, n>> \in R) /\ m \in Nat /\ n \in Nat
    BY <1>2
  <2>2. ~(m < n)
    BY <2>1 DEF R
  <2> QED BY <2>1, <2>2
<1> QED BY <1>3

(* A set with 0 and the successors of its elements has all of them.        *)
LEMMA AllNaturals ==
  ASSUME NEW T, 0 \in T, \A n \in Nat : n \in T => n + 1 \in T
  PROVE  \A n \in Nat : n \in T
<1> SUFFICES ASSUME NEW k \in Nat, k \notin T PROVE FALSE
  OBVIOUS
<1>1. PICK n \in Nat \ T : \A m \in Nat \ T : n <= m
  <2>1. Nat \ T \in SUBSET Nat /\ Nat \ T # {}
    OBVIOUS
  <2> QED BY <2>1, LeastNatural
<1>2. n # 0
  BY <1>1
<1>3. n - 1 \in Nat
  BY <1>2
<1>4. n - 1 \in T
  BY <1>1, <1>3
<1> QED BY <1>1, <1>3, <1>4
=============================================================================
