--------------------------- MODULE XltCache_proofs ---------------------------
(***************************************************************************)
(* What TLAPS proves of the translation cache: its blocks tile it and      *)
(* patched exits lead to translations of their targets, for any modes; and *)
(* with one mode the table and the blocks agree, and code apart from other *)
(* code is not run after it was written to.                                *)
(*                                                                         *)
(* CacheInv is inductive for any modes: the memory is tiled, the blocks    *)
(* and the table are typed, links lead where they should, and nothing is   *)
(* linked to a translation under way.  Agreed and AllFresh are inductive   *)
(* on top of it for one mode.  What the deletions, flushes and writes do   *)
(* is proved of any contents c = [code, lut, wild] first, then of steps.   *)
(***************************************************************************)
EXTENDS XltCache, SequenceLemmas, TLAPS
-----------------------------------------------------------------------------
(* The memory of the cache.                                                *)
LEMMA Sizes ==
  /\ Units \in Nat \ {0} /\ MaxAsk \in Nat \ {0} /\ Words \in Nat \ {0}
  /\ PageWords \in Nat \ {0} /\ LongWords \in Nat \ {0}
  /\ Units >= 2 * MaxAsk
BY SizeAssumption

Tiles(h) ==
  /\ h \in [DOMAIN h -> Nat \ {0}]
  /\ DOMAIN h \subseteq 0 .. Units - 1
  /\ 0 \in DOMAIN h
  /\ \A p \in DOMAIN h : /\ p + h[p] \in DOMAIN h \cup {Units}
                         /\ \A q \in DOMAIN h : q > p => q >= p + h[p]

(* The block after another is taken into it.  (xlat_extend_block)          *)
LEMMA TilesJoin ==
  ASSUME NEW h, Tiles(h), NEW a \in DOMAIN h, NEW b \in DOMAIN h, a + h[a] = b
  PROVE  Tiles([p \in DOMAIN h \ {b} |-> IF p = a THEN h[p] + h[b] ELSE h[p]])
<1>1. PICK D : D = DOMAIN h
  OBVIOUS
<1>2. /\ h \in [D -> Nat \ {0}] /\ D \subseteq 0 .. Units - 1 /\ 0 \in D
      /\ \A p \in D : /\ p + h[p] \in D \cup {Units}
                      /\ \A q \in D : q > p => q >= p + h[p]
      /\ a \in D /\ b \in D /\ a + h[a] = b /\ Units \in Nat
  BY <1>1, Sizes DEF Tiles
<1>3. PICK g : g = [p \in D \ {b} |-> IF p = a THEN h[p] + h[b] ELSE h[p]]
  OBVIOUS
<1>4. a < b /\ DOMAIN g = D \ {b} /\ a \in D \ {b}
  BY <1>2, <1>3
<1>5. g \in [D \ {b} -> Nat \ {0}] /\ 0 \in D \ {b}
  BY <1>2, <1>3, <1>4
<1>6. ASSUME NEW p \in D \ {b}, NEW q \in D \ {b}
      PROVE  p + g[p] \in (D \ {b}) \cup {Units} /\ (q > p => q >= p + g[p])
  <2>1. p \in Nat /\ q \in Nat /\ a \in Nat /\ b \in Nat
    BY <1>2
  <2>2. CASE p = a
    <3>1. p + g[p] = b + h[b]
      BY <1>2, <1>3, <2>1, <2>2
    <3>2. b + h[b] \in D \cup {Units} /\ b + h[b] > b
      BY <1>2, <2>1
    <3>3. q > p => q >= b + h[b]
      <4>1. q > p => q >= b
        BY <1>2, <2>2
      <4>2. q # b
        OBVIOUS
      <4>3. q > b => q >= b + h[b]
        BY <1>2
      <4> QED BY <2>1, <4>1, <4>2, <4>3
    <3> QED BY <2>1, <3>1, <3>2, <3>3
  <2>3. CASE p # a
    <3>1. g[p] = h[p] /\ h[p] \in Nat \ {0}
      BY <1>2, <1>3, <2>3
    <3>2. p + h[p] # b
      <4>1. CASE p < a
        <5>1. a >= p + h[p]
          BY <1>2, <4>1
        <5> QED BY <1>4, <2>1, <3>1, <5>1
      <4>2. CASE a < p
        <5>1. p >= b
          BY <1>2, <4>2
        <5> QED BY <2>1, <3>1, <5>1
      <4> QED BY <2>1, <2>3, <4>1, <4>2
    <3> QED BY <1>2, <3>1, <3>2
  <2> QED BY <2>2, <2>3
<1> QED BY <1>1, <1>2, <1>3, <1>4, <1>5, <1>6 DEF Tiles

(* The blocks before one become the first.  (xlat_extend_block)            *)
LEMMA TilesFront ==
  ASSUME NEW h, Tiles(h), NEW e \in DOMAIN h \cup {Units}, e > 0
  PROVE  Tiles([p \in {0} \cup {q \in DOMAIN h : q >= e} |-> IF p = 0 THEN e ELSE h[p]])
<1>1. PICK D : D = DOMAIN h
  OBVIOUS
<1>2. /\ h \in [D -> Nat \ {0}] /\ D \subseteq 0 .. Units - 1 /\ 0 \in D
      /\ \A p \in D : /\ p + h[p] \in D \cup {Units}
                      /\ \A q \in D : q > p => q >= p + h[p]
      /\ e \in D \cup {Units} /\ Units \in Nat \ {0} /\ e \in Nat \ {0}
  BY <1>1, Sizes DEF Tiles
<1>3. PICK F : F = {0} \cup {q \in D : q >= e}
  OBVIOUS
<1>4. PICK g : g = [p \in F |-> IF p = 0 THEN e ELSE h[p]]
  OBVIOUS
<1>5. DOMAIN g = F /\ F \subseteq 0 .. Units - 1 /\ g \in [F -> Nat \ {0}]
  BY <1>2, <1>3, <1>4
<1>6. ASSUME NEW p \in F, NEW q \in F
      PROVE  p + g[p] \in F \cup {Units} /\ (q > p => q >= p + g[p])
  <2>1. p \in Nat /\ q \in Nat
    BY <1>5
  <2>2. CASE p = 0
    <3>1. g[p] = e
      BY <1>4, <2>2
    <3> QED BY <1>2, <1>3, <2>1, <2>2, <3>1
  <2>3. CASE p # 0
    <3>1. g[p] = h[p] /\ p \in D /\ p >= e /\ h[p] \in Nat \ {0}
      BY <1>2, <1>3, <1>4, <2>3
    <3>2. p + h[p] \in F \cup {Units}
      BY <1>2, <1>3, <3>1
    <3>3. q > p => q >= p + h[p]
      <4>1. q > p => q \in D
        BY <1>3, <2>1
      <4> QED BY <1>2, <3>1, <4>1
    <3> QED BY <3>1, <3>2, <3>3
  <2> QED BY <2>2, <2>3
<1> QED BY <1>1, <1>3, <1>4, <1>5, <1>6 DEF Tiles

(* A block is cut in two.  (xlat_cut_block)                                *)
LEMMA TilesCut ==
  ASSUME NEW h, Tiles(h), NEW a \in DOMAIN h, NEW n \in Nat \ {0}, n < h[a]
  PROVE  Tiles([q \in DOMAIN h \cup {a + n} |->
                  IF q = a THEN n ELSE IF q = a + n THEN h[a] - n ELSE h[q]])
<1>1. PICK D : D = DOMAIN h
  OBVIOUS
<1>2. /\ h \in [D -> Nat \ {0}] /\ D \subseteq 0 .. Units - 1 /\ 0 \in D
      /\ \A p \in D : /\ p + h[p] \in D \cup {Units}
                      /\ \A q \in D : q > p => q >= p + h[p]
      /\ a \in D /\ n < h[a] /\ Units \in Nat \ {0}
  BY <1>1, Sizes DEF Tiles
<1>3. PICK z \in Nat \ {0} : z = h[a]
  BY <1>2
<1>4. PICK b : b = a + n
  OBVIOUS
<1>5. /\ a \in Nat /\ b \in Nat /\ b # a /\ b \in 0 .. Units - 1 /\ b \notin D
      /\ z - n \in Nat \ {0} /\ n < z
  <2>1. a \in Nat /\ n < z
    BY <1>2, <1>3
  <2>2. a + z <= Units
    <3>1. a + z \in D \cup {Units}
      BY <1>2, <1>3
    <3> QED BY <1>2, <3>1
  <2>3. b \notin D
    <3>1. b \in D /\ b > a => b >= a + z
      BY <1>2, <1>3
    <3> QED BY <1>4, <2>1, <3>1
  <2> QED BY <1>2, <1>4, <2>1, <2>2, <2>3
<1>6. PICK g : g = [q \in D \cup {b} |-> IF q = a THEN n ELSE IF q = b THEN z - n ELSE h[q]]
  OBVIOUS
<1>7. DOMAIN g = D \cup {b} /\ g \in [D \cup {b} -> Nat \ {0}]
  BY <1>2, <1>5, <1>6
<1>8. ASSUME NEW p \in D \cup {b}, NEW q \in D \cup {b}
      PROVE  p + g[p] \in D \cup {b} \cup {Units} /\ (q > p => q >= p + g[p])
  <2>1. p \in Nat /\ q \in Nat
    BY <1>2, <1>5
  <2>2. ASSUME q \in D, q > a PROVE q >= a + z
    BY <1>2, <1>3, <2>2
  <2>3. CASE p = a
    <3>1. g[p] = n
      BY <1>2, <1>6, <2>3
    <3> QED BY <1>4, <1>5, <2>1, <2>2, <2>3, <3>1
  <2>4. CASE p = b
    <3>1. g[p] = z - n /\ p + g[p] = a + z
      BY <1>4, <1>5, <1>6, <2>4
    <3>2. a + z \in D \cup {Units}
      BY <1>2, <1>3
    <3> QED BY <1>4, <1>5, <2>1, <2>2, <2>4, <3>1, <3>2
  <2>5. CASE p # a /\ p # b
    <3>1. p \in D /\ g[p] = h[p] /\ h[p] \in Nat \ {0}
      BY <1>2, <1>6, <2>5
    <3>2. p + h[p] \in D \cup {Units}
      BY <1>2, <3>1
    <3>3. q \in D /\ q > p => q >= p + h[p]
      BY <1>2, <3>1
    <3>4. b > p => b >= p + h[p]
      <4>1. CASE p < a
        <5>1. a >= p + h[p]
          BY <1>2, <3>1, <4>1
        <5> QED BY <1>4, <1>5, <2>1, <3>1, <5>1
      <4>2. CASE p > a
        <5>1. p >= a + z
          BY <1>2, <1>3, <3>1, <4>2
        <5> QED BY <1>4, <1>5, <2>1, <5>1
      <4> QED BY <1>5, <2>1, <2>5, <4>1, <4>2
    <3> QED BY <3>1, <3>2, <3>3, <3>4
  <2> QED BY <2>3, <2>4, <2>5
<1>9. Tiles(g)
  BY <1>2, <1>5, <1>7, <1>8 DEF Tiles
<1> QED BY <1>1, <1>3, <1>4, <1>6, <1>9

(* What is told of the memory while a translation is under way: it is one  *)
(* block, and xlat_new_cache_ptr the next.                                 *)
Underway ==
  /\ busy \subseteq [at : Nat, ask : 1 .. MaxAsk, from : SUBSET Nat]
  /\ \A t, u \in busy : t = u
  /\ \A t \in busy : t.at \in DOMAIN heap /\ t.at + heap[t.at] = ptr

CodeInHeap == DOMAIN code \subseteq DOMAIN heap

HeapInv == Tiles(heap) /\ ptr \in DOMAIN heap \cup {Units} /\ Underway /\ CodeInHeap

LEMMA TilesFacts ==
  ASSUME Tiles(heap)
  PROVE  /\ \A p \in DOMAIN heap : /\ p \in 0 .. Units - 1 /\ heap[p] \in Nat \ {0}
                                   /\ Site(p) \in p .. p + heap[p] - 1 /\ Site(p) \in Nat
         /\ \A p, q \in DOMAIN heap : Site(p) = Site(q) => p = q
<1>1. /\ heap \in [DOMAIN heap -> Nat \ {0}] /\ DOMAIN heap \subseteq 0 .. Units - 1
      /\ \A p \in DOMAIN heap, q \in DOMAIN heap : q > p => q >= p + heap[p]
  BY DEF Tiles
<1>2. ASSUME NEW p \in DOMAIN heap
      PROVE  /\ p \in 0 .. Units - 1 /\ heap[p] \in Nat \ {0}
             /\ Site(p) \in p .. p + heap[p] - 1 /\ Site(p) \in Nat
  <2>1. p \in 0 .. Units - 1 /\ heap[p] \in Nat \ {0} /\ Units \in Nat
    BY <1>1, Sizes
  <2> QED BY <2>1 DEF Site
<1>3. ASSUME NEW p \in DOMAIN heap, NEW q \in DOMAIN heap, Site(p) = Site(q) PROVE p = q
  <2>1. /\ p \in Nat /\ q \in Nat /\ Site(p) \in p .. p + heap[p] - 1
        /\ Site(q) \in q .. q + heap[q] - 1 /\ heap[p] \in Nat /\ heap[q] \in Nat
    BY <1>2, Sizes
  <2>2. /\ q > p => q >= p + heap[p]
        /\ p > q => p >= q + heap[q]
    BY <1>1
  <2> QED BY <1>3, <2>1, <2>2
<1> QED BY <1>2, <1>3

(* A translation that is too short at the end of the cache lies behind     *)
(* what it needs at the front.                                             *)
LEMMA RoomInFront ==
  ASSUME HeapInv, NEW t \in busy, Short(t), ptr = Units,
         NEW e, e = Min({p \in DOMAIN heap \cup {Units} : p >= heap[t.at] + MinTotal})
  PROVE  e \in DOMAIN heap \cup {Units} /\ e > heap[t.at] /\ e <= t.at
<1>1. /\ Tiles(heap) /\ t \in [at : Nat, ask : 1 .. MaxAsk, from : SUBSET Nat]
      /\ t.at \in DOMAIN heap /\ t.at + heap[t.at] = Units
  BY DEF HeapInv, Underway
<1>2. PICK a, z, k : a = t.at /\ z = heap[t.at] /\ k = t.ask
  OBVIOUS
<1>3. a \in Nat /\ z \in Nat \ {0} /\ k \in 1 .. MaxAsk /\ z < k /\ a + z = Units
  BY <1>1, <1>2, TilesFacts DEF Short
<1>4. a >= z + 1
  BY <1>3, Sizes
<1> DEFINE E == {p \in DOMAIN heap \cup {Units} : p >= z + 1}
<1>5. E \in SUBSET Nat /\ a \in E
  BY <1>1, <1>2, <1>4, TilesFacts, Sizes
<1>6. e = CHOOSE x \in E : \A y \in E : x =< y
  BY <1>2 DEF Min, MinTotal
<1>7. \E x \in E : \A y \in E : x <= y
  <2> HIDE DEF E
  <2> QED BY <1>5, LeastNatural
<1>8. e \in E /\ e <= a
  <2> HIDE DEF E
  <2> QED BY <1>5, <1>6, <1>7
<1> QED BY <1>2, <1>3, <1>5, <1>8, SMTT(30)

(* The memory is what the code takes it for, at every step.                *)
LEMMA HeapStarts == Init => HeapInv
<1> SUFFICES ASSUME Init PROVE HeapInv
  OBVIOUS
<1>1. heap = [p \in {0} |-> Units] /\ ptr = 0 /\ DOMAIN code = {} /\ busy = {}
  BY DEF Init, OneFreeBlock, NoCode
<1>2. Tiles(heap)
  BY <1>1, Sizes DEF Tiles
<1> QED BY <1>1, <1>2 DEF HeapInv, Underway, CodeInHeap

-----------------------------------------------------------------------------
(* The contents of the cache, as the operations hand them on.  A block is  *)
(* a translation of a block of the program.                                *)
Block == [first : Word, last : Word, target : Word \cup {None}, mode : Modes,
          chain : Int, jump : Int, uses : SUBSET Nat, stale : BOOLEAN]
Entry == [code : Int, used : BOOLEAN]

Typed(c) ==
  /\ c = [code |-> c.code, lut |-> c.lut, wild |-> c.wild]
  /\ c.code \in [DOMAIN c.code -> Block]
  /\ c.lut \in [Word -> Entry]
  /\ \A p \in DOMAIN c.code : \E b \in Code : c.code[p].first = b.first /\ c.code[p].last = b.last

(* Every jump leads to a block of its target that knows of it.             *)
Linked(c) ==
  \A s \in DOMAIN c.code : c.code[s].jump # None =>
    /\ c.code[s].jump \in DOMAIN c.code
    /\ c.code[c.code[s].jump].first = c.code[s].target
    /\ c.code[c.code[s].jump].mode = c.code[s].mode
    /\ Site(s) \in c.code[c.code[s].jump].uses

Sound(c) == Typed(c) /\ Linked(c)

(* y is the block x, or x with its jump undone.                            *)
Same(x, y) ==
  /\ y.first = x.first /\ y.last = x.last /\ y.target = x.target /\ y.mode = x.mode
  /\ y.chain = x.chain /\ y.uses = x.uses /\ y.stale = x.stale
  /\ y.jump \in {x.jump, None}

(* d is c without some of the blocks.                                      *)
Shrunk(c, d) ==
  /\ DOMAIN d.code \subseteq DOMAIN c.code
  /\ \A q \in DOMAIN d.code : Same(c.code[q], d.code[q])

(* With one mode: the table and the blocks agree, but for the entries F.   *)
OneEach(c, F) ==
  /\ \A w \in Word \ F : c.lut[w].code # None =>
       c.lut[w].code \in DOMAIN c.code /\ c.code[c.lut[w].code].first = w
  /\ \A p \in DOMAIN c.code : /\ c.code[p].first \notin F
                             /\ c.lut[c.code[p].first].code = p /\ c.code[p].chain = None

(* The words that a block outside X runs over are marked in the table, if  *)
(* it is apart from the rest of the program.                               *)
Marked(c, X) ==
  \A p \in DOMAIN c.code : p \notin X /\ Apart(c.code[p]) =>
    \A w \in Word : c.code[p].first < w /\ w <= c.code[p].last => c.lut[w].used

Whole(c, X, F) == OneEach(c, F) /\ Marked(c, X)

LEMMA ShrunkTwice ==
  ASSUME NEW c, NEW d, NEW e, Shrunk(c, d), Shrunk(d, e)
  PROVE  Shrunk(c, e)
BY DEF Shrunk, Same

LEMMA ShrunkNone == ASSUME NEW c PROVE Shrunk(c, c)
BY DEF Shrunk, Same

LEMMA CodeFacts ==
  ASSUME NEW b \in Code
  PROVE  /\ b.first \in Word /\ b.last \in Word /\ b.first <= b.last
         /\ b.target \in Word \cup {None}
BY CodeAssumption

(* Two blocks of which one begins within the other, which is apart, begin  *)
(* at the same word.                                                       *)
LEMMA ApartFacts ==
  ASSUME NEW c, Typed(c), NEW p \in DOMAIN c.code, NEW q \in DOMAIN c.code,
         Apart(c.code[p])
  PROVE  ~(c.code[p].first < c.code[q].first /\ c.code[q].first <= c.code[p].last)
<1>1. PICK b \in Code : c.code[q].first = b.first
  BY DEF Typed
<1>2. c.code[p].first \in Word /\ c.code[p].last \in Word /\ b.first \in Word
  BY CodeFacts DEF Typed, Block
<1>3. b.first = c.code[p].first \/ b.first \notin c.code[p].first .. c.code[p].last
  BY DEF Apart
<1> QED BY <1>1, <1>2, <1>3, Sizes DEF Word

(* A block is deleted, and jumps to it undone.  (xlat_delete_block)        *)
LEMMA DeletedFacts ==
  ASSUME NEW c, Sound(c), NEW p \in DOMAIN c.code, NEW d, d = Deleted(c, p)
  PROVE  /\ DOMAIN d.code = DOMAIN c.code \ {p}
         /\ Shrunk(c, d) /\ Sound(d)
         /\ d.lut = [c.lut EXCEPT ![c.code[p].first] = [code |-> c.code[p].chain, used |-> FALSE]]
<1>1. /\ Typed(c) /\ Linked(c)
  BY DEF Sound
<1>2. /\ d = [code |-> d.code, lut |-> d.lut, wild |-> d.wild]
      /\ d.code = [q \in DOMAIN c.code \ {p} |->
                     IF q \in Sources(c, p) THEN [c.code[q] EXCEPT !.jump = None] ELSE c.code[q]]
      /\ d.lut = [c.lut EXCEPT ![c.code[p].first] = [code |-> c.code[p].chain, used |-> FALSE]]
  BY DEF Deleted
<1>3. DOMAIN d.code = DOMAIN c.code \ {p}
  BY <1>2
<1>4. ASSUME NEW q \in DOMAIN c.code \ {p}
      PROVE  /\ d.code[q] \in Block /\ Same(c.code[q], d.code[q])
             /\ q \in Sources(c, p) => d.code[q].jump = None
             /\ q \notin Sources(c, p) => d.code[q].jump = c.code[q].jump
  <2>1. c.code[q] \in Block
    BY <1>1 DEF Typed
  <2>2. CASE q \in Sources(c, p)
    <3>1. d.code[q] = [c.code[q] EXCEPT !.jump = None]
      BY <1>2, <2>2
    <3>2. PICK n \in Int : n = None
      BY DEF None
    <3>3. d.code[q] = [c.code[q] EXCEPT !.jump = n]
      BY <3>1, <3>2
    <3>4. d.code[q] \in Block /\ d.code[q].jump = n
      BY <2>1, <3>3 DEF Block
    <3>5. Same(c.code[q], d.code[q])
      BY <2>1, <3>2, <3>3 DEF Block, Same
    <3> QED BY <2>2, <3>2, <3>4, <3>5
  <2>3. CASE q \notin Sources(c, p)
    BY <1>2, <2>1, <2>3 DEF Same
  <2> QED BY <2>2, <2>3
<1>5. Shrunk(c, d)
  BY <1>3, <1>4 DEF Shrunk
<1>6. Typed(d)
  <2>1. d.code \in [DOMAIN d.code -> Block]
    BY <1>2, <1>3, <1>4
  <2>2. d.lut \in [Word -> Entry]
    <3>1. c.lut \in [Word -> Entry] /\ c.code[p].chain \in Int
      BY <1>1 DEF Typed, Block
    <3>2. PICK u \in BOOLEAN : u = FALSE
      OBVIOUS
    <3>3. [code |-> c.code[p].chain, used |-> u] \in Entry
      BY <3>1 DEF Entry
    <3> QED BY <1>2, <3>1, <3>2, <3>3
  <2>3. \A q \in DOMAIN d.code : \E b \in Code :
          d.code[q].first = b.first /\ d.code[q].last = b.last
    BY <1>1, <1>3, <1>4 DEF Typed, Same
  <2> QED BY <1>2, <2>1, <2>2, <2>3 DEF Typed
<1>7. Linked(d)
  <2> SUFFICES ASSUME NEW s \in DOMAIN d.code, d.code[s].jump # None
               PROVE  /\ d.code[s].jump \in DOMAIN d.code
                      /\ d.code[d.code[s].jump].first = d.code[s].target
                      /\ d.code[d.code[s].jump].mode = d.code[s].mode
                      /\ Site(s) \in d.code[d.code[s].jump].uses
    BY DEF Linked
  <2>1. PICK j : j = c.code[s].jump
    OBVIOUS
  <2>2. s \in DOMAIN c.code \ {p} /\ s \notin Sources(c, p) /\ d.code[s].jump = j
    BY <1>3, <1>4, <2>1
  <2>3. /\ j \in DOMAIN c.code /\ c.code[j].first = c.code[s].target
        /\ c.code[j].mode = c.code[s].mode /\ Site(s) \in c.code[j].uses
    BY <1>1, <2>1, <2>2 DEF Linked
  <2>4. j # p
    BY <2>1, <2>2, <2>3 DEF Sources
  <2>5. Same(c.code[j], d.code[j]) /\ Same(c.code[s], d.code[s])
    BY <1>4, <2>2, <2>3, <2>4
  <2> QED BY <1>3, <2>2, <2>3, <2>4, <2>5 DEF Same
<1> QED BY <1>2, <1>3, <1>5, <1>6, <1>7 DEF Sound

(* With one mode nothing else is lost.                                     *)
LEMMA DeletedWhole ==
  ASSUME NEW c, Sound(c), NEW p \in DOMAIN c.code, NEW d, d = Deleted(c, p),
         NEW X, NEW F, Whole(c, X, F)
  PROVE  Whole(d, X, F) /\ d.lut[c.code[p].first].code = None
<1>1. /\ DOMAIN d.code = DOMAIN c.code \ {p}
      /\ Shrunk(c, d) /\ Sound(d)
      /\ d.lut = [c.lut EXCEPT ![c.code[p].first] = [code |-> c.code[p].chain, used |-> FALSE]]
  BY DeletedFacts
<1>2. Typed(c) /\ Typed(d) /\ OneEach(c, F) /\ Marked(c, X)
  BY <1>1 DEF Sound, Whole
<1>3. PICK f : f = c.code[p].first
  OBVIOUS
<1>4. f \in Word /\ c.code[p].chain = None
  BY <1>2, <1>3 DEF Typed, Block, OneEach
<1>5. /\ d.lut[f].code = None
      /\ \A w \in Word : w # f => d.lut[w] = c.lut[w]
  BY <1>1, <1>2, <1>3, <1>4 DEF Typed
<1>6. \A q \in DOMAIN d.code : q \in DOMAIN c.code /\ q # p /\ Same(c.code[q], d.code[q])
  BY <1>1 DEF Shrunk
<1>7. ASSUME NEW q \in DOMAIN d.code PROVE d.code[q].first # f /\ d.code[q].first \in Word
  <2>1. c.lut[c.code[q].first].code = q /\ c.lut[f].code = p
    BY <1>2, <1>3, <1>6 DEF OneEach
  <2>2. d.code[q].first = c.code[q].first
    BY <1>6 DEF Same
  <2>3. d.code[q].first \in Word
    BY <1>2 DEF Typed, Block
  <2> QED BY <1>6, <2>1, <2>2, <2>3
<1>8. OneEach(d, F)
  <2>1. ASSUME NEW w \in Word \ F, d.lut[w].code # None
        PROVE  d.lut[w].code \in DOMAIN d.code /\ d.code[d.lut[w].code].first = w
    <3>1. w # f /\ d.lut[w] = c.lut[w]
      BY <1>5, <2>1
    <3>2. PICK q : q = c.lut[w].code
      OBVIOUS
    <3>3. q \in DOMAIN c.code /\ c.code[q].first = w
      BY <1>2, <2>1, <3>1, <3>2 DEF OneEach
    <3>4. q # p
      BY <1>3, <3>1, <3>3
    <3> QED BY <1>1, <1>6, <3>1, <3>2, <3>3, <3>4 DEF Same
  <2>2. ASSUME NEW q \in DOMAIN d.code
        PROVE  /\ d.code[q].first \notin F
               /\ d.lut[d.code[q].first].code = q /\ d.code[q].chain = None
    BY <1>2, <1>5, <1>6, <1>7 DEF OneEach, Same
  <2> QED BY <2>1, <2>2 DEF OneEach
<1>9. Marked(d, X)
  <2> SUFFICES ASSUME NEW q \in DOMAIN d.code, q \notin X, Apart(d.code[q]),
                      NEW w \in Word, d.code[q].first < w, w <= d.code[q].last
               PROVE  d.lut[w].used
    BY DEF Marked
  <2>1. q \in DOMAIN c.code /\ Same(c.code[q], d.code[q])
    BY <1>6
  <2>2. Apart(c.code[q])
    BY <2>1 DEF Apart, Same
  <2>3. w # f
    BY <1>2, <1>3, <2>1, <2>2, ApartFacts DEF Same
  <2>4. c.lut[w].used
    BY <1>2, <2>1, <2>2 DEF Marked, Same
  <2> QED BY <1>5, <2>3, <2>4
<1> QED BY <1>3, <1>5, <1>8, <1>9 DEF Whole

-----------------------------------------------------------------------------
(* The steps of the operations that go on and on, under one name, and the  *)
(* functions that count them.                                              *)
Turn(kind, a, x, i) ==
  IF kind = 1 THEN Onward(a, x)
  ELSE IF kind = 2 THEN ChainTurn(x)
  ELSE IF kind = 3 THEN EntryFlushed(x, a * PageWords + i - 1)
  ELSE IF kind = 4 THEN Evicted(x, i - 1)
  ELSE PageOfRegion(x, a + i - 1)

Turns(g, kind, a, e, n) ==
  /\ g = [i \in 0 .. n |-> g[i]]
  /\ g[0] = e
  /\ \A i \in 1 .. n : g[i] = Turn(kind, a, g[i - 1], i)

LEMMA TurnsExist ==
  ASSUME NEW kind, NEW a, NEW e, NEW n \in Nat
  PROVE  \E g : Turns(g, kind, a, e, n)
<1> DEFINE T == {k \in Nat : \E g : g = [i \in 0 .. k |->
                                          IF i = 0 THEN e ELSE Turn(kind, a, g[i - 1], i)]}
<1>1. 0 \in T
  <2> DEFINE g == [i \in 0 .. 0 |-> e]
  <2>1. g = [i \in 0 .. 0 |-> IF i = 0 THEN e ELSE Turn(kind, a, g[i - 1], i)]
    OBVIOUS
  <2> QED BY <2>1
<1>2. ASSUME NEW k \in Nat, k \in T
      PROVE  k + 1 \in T
  <2>1. PICK g : g = [i \in 0 .. k |-> IF i = 0 THEN e ELSE Turn(kind, a, g[i - 1], i)]
    BY <1>2
  <2>2. PICK h : h = [i \in 0 .. k + 1 |-> IF i = k + 1 THEN Turn(kind, a, g[k], i) ELSE g[i]]
    OBVIOUS
  <2>3. ASSUME NEW i \in 0 .. k + 1
        PROVE  h[i] = IF i = 0 THEN e ELSE Turn(kind, a, h[i - 1], i)
    <3>1. CASE i = 0
      <4>1. h[i] = g[i] /\ g[i] = e
        BY <2>1, <2>2, <3>1
      <4> QED BY <3>1, <4>1
    <3>2. CASE i # 0 /\ i # k + 1
      <4>1. PICK j \in 0 .. k : j = i - 1
        BY <3>2
      <4>2. i \in 0 .. k /\ h[i] = g[i] /\ h[j] = g[j]
        BY <2>2, <3>2, <4>1
      <4>3. g[i] = Turn(kind, a, g[i - 1], i)
        BY <2>1, <3>2, <4>2
      <4> QED BY <3>2, <4>1, <4>2, <4>3
    <3>3. CASE i = k + 1
      <4>1. PICK j \in 0 .. k : j = i - 1 /\ j = k
        BY <3>3
      <4>2. h[i] = Turn(kind, a, g[k], i) /\ h[j] = g[k]
        BY <2>2, <3>3, <4>1
      <4> QED BY <3>3, <4>1, <4>2
    <3> QED BY <3>1, <3>2, <3>3
  <2>4. h = [i \in 0 .. k + 1 |-> IF i = 0 THEN e ELSE Turn(kind, a, h[i - 1], i)]
    BY <2>2, <2>3
  <2> QED BY <2>4
<1>3. T \subseteq Nat
  OBVIOUS
<1> HIDE DEF T
<1>4. n \in T
  BY <1>1, <1>2, <1>3, AllNaturals
<1>5. PICK g : g = [i \in 0 .. n |-> IF i = 0 THEN e ELSE Turn(kind, a, g[i - 1], i)]
  BY <1>4 DEF T
<1>6. g[0] = e /\ g = [i \in 0 .. n |-> g[i]]
  BY <1>5
<1>7. ASSUME NEW i \in 1 .. n PROVE g[i] = Turn(kind, a, g[i - 1], i)
  BY <1>5
<1> QED BY <1>6, <1>7 DEF Turns

LEMMA TurnFacts ==
  ASSUME NEW a, NEW x, NEW i
  PROVE  /\ Turn(1, a, x, i) = Onward(a, x)
         /\ Turn(2, a, x, i) = ChainTurn(x)
         /\ Turn(3, a, x, i) = EntryFlushed(x, a * PageWords + i - 1)
         /\ Turn(4, a, x, i) = Evicted(x, i - 1)
         /\ Turn(5, a, x, i) = PageOfRegion(x, a + i - 1)
BY DEF Turn

LEMMA ChainIsWalked ==
  ASSUME NEW c, NEW w
  PROVE  \E g : /\ g[0] = {c.lut[w].code} \ {None}
                /\ \A k \in 1 .. Units : g[k] = Onward(c, g[k - 1])
                /\ Chain(c, w) = g[Units]
<1> DEFINE e == {c.lut[w].code} \ {None}
           of == CHOOSE g : g = [k \in 0 .. Units |->
                     IF k = 0 THEN {c.lut[w].code} \ {None}
                     ELSE Onward(c, g[k - 1])]
<1>1. PICK n \in Nat : n = Units
  BY Sizes
<1>2. PICK g : Turns(g, 1, c, e, n)
  BY TurnsExist
<1>3. g = [k \in 0 .. n |-> g[k]] /\ g[0] = e
  BY <1>2 DEF Turns
<1>4. \A i \in 1 .. n : g[i] = Turn(1, c, g[i - 1], i)
  BY <1>2 DEF Turns
<1>5. ASSUME NEW k \in 1 .. n PROVE g[k] = Onward(c, g[k - 1])
  BY <1>4, TurnFacts
<1>6. ASSUME NEW k \in 0 .. n, k # 0 PROVE k \in 1 .. n
  BY <1>6
<1>7. g = [k \in 0 .. Units |->
             IF k = 0 THEN {c.lut[w].code} \ {None}
             ELSE Onward(c, g[k - 1])]
  BY <1>1, <1>3, <1>5, <1>6
<1>8. of = [k \in 0 .. Units |->
              IF k = 0 THEN {c.lut[w].code} \ {None}
              ELSE Onward(c, of[k - 1])]
  BY <1>7
<1>9. Chain(c, w) = of[Units]
  BY Zenon DEF Chain
<1> HIDE DEF of
<1>10. of[0] = e
  <2>1. 0 \in 0 .. n
    OBVIOUS
  <2> QED BY <1>1, <1>8, <2>1
<1>11. ASSUME NEW k \in 1 .. n PROVE of[k] = Onward(c, of[k - 1])
  <2>1. k \in 0 .. n /\ k # 0
    OBVIOUS
  <2> QED BY <1>1, <1>8, <2>1
<1> QED BY <1>1, <1>9, <1>10, <1>11

LEMMA ChainIsDeleted ==
  ASSUME NEW c, NEW w
  PROVE  \E g : /\ g[0] = [c |-> c, at |-> c.lut[w].code]
                /\ \A k \in 1 .. Units : g[k] = ChainTurn(g[k - 1])
                /\ ChainDeleted(c, w) = g[Units].c
<1> DEFINE e == [c |-> c, at |-> c.lut[w].code]
           of == CHOOSE g : g = [k \in 0 .. Units |->
                     IF k = 0 THEN [c |-> c, at |-> c.lut[w].code]
                     ELSE ChainTurn(g[k - 1])]
<1>1. PICK n \in Nat : n = Units
  BY Sizes
<1>2. PICK g : Turns(g, 2, c, e, n)
  BY TurnsExist
<1>3. g = [k \in 0 .. n |-> g[k]] /\ g[0] = e
  BY <1>2 DEF Turns
<1>4. \A i \in 1 .. n : g[i] = Turn(2, c, g[i - 1], i)
  BY <1>2 DEF Turns
<1>5. ASSUME NEW k \in 1 .. n PROVE g[k] = ChainTurn(g[k - 1])
  BY <1>4, TurnFacts
<1>6. ASSUME NEW k \in 0 .. n, k # 0 PROVE k \in 1 .. n
  BY <1>6
<1>7. g = [k \in 0 .. Units |->
             IF k = 0 THEN [c |-> c, at |-> c.lut[w].code]
             ELSE ChainTurn(g[k - 1])]
  BY <1>1, <1>3, <1>5, <1>6
<1>8. of = [k \in 0 .. Units |->
              IF k = 0 THEN [c |-> c, at |-> c.lut[w].code]
              ELSE ChainTurn(of[k - 1])]
  BY <1>7
<1>9. ChainDeleted(c, w) = of[Units].c
  BY Zenon DEF ChainDeleted
<1> HIDE DEF of
<1>10. of[0] = e
  <2>1. 0 \in 0 .. n
    OBVIOUS
  <2> QED BY <1>1, <1>8, <2>1
<1>11. ASSUME NEW k \in 1 .. n PROVE of[k] = ChainTurn(of[k - 1])
  <2>1. k \in 0 .. n /\ k # 0
    OBVIOUS
  <2> QED BY <1>1, <1>8, <2>1
<1> QED BY <1>1, <1>9, <1>10, <1>11

LEMMA PageIsFlushed ==
  ASSUME NEW c, NEW page
  PROVE  \E g : /\ g[0] = c
                /\ \A i \in 1 .. PageWords : g[i] = EntryFlushed(g[i - 1], page * PageWords + i - 1)
                /\ PageFlushed(c, page) = g[PageWords]
<1> DEFINE e == c
           of == CHOOSE g : g = [i \in 0 .. PageWords |->
                     IF i = 0 THEN c
                     ELSE EntryFlushed(g[i - 1], page * PageWords + i - 1)]
<1>1. PICK n \in Nat : n = PageWords
  BY Sizes
<1>2. PICK g : Turns(g, 3, page, e, n)
  BY TurnsExist
<1>3. g = [i \in 0 .. n |-> g[i]] /\ g[0] = e
  BY <1>2 DEF Turns
<1>4. \A i \in 1 .. n : g[i] = Turn(3, page, g[i - 1], i)
  BY <1>2 DEF Turns
<1>5. ASSUME NEW i \in 1 .. n PROVE g[i] = EntryFlushed(g[i - 1], page * PageWords + i - 1)
  BY <1>4, TurnFacts
<1>6. ASSUME NEW i \in 0 .. n, i # 0 PROVE i \in 1 .. n
  BY <1>6
<1>7. g = [i \in 0 .. PageWords |->
             IF i = 0 THEN c
             ELSE EntryFlushed(g[i - 1], page * PageWords + i - 1)]
  BY <1>1, <1>3, <1>5, <1>6
<1>8. of = [i \in 0 .. PageWords |->
              IF i = 0 THEN c
              ELSE EntryFlushed(of[i - 1], page * PageWords + i - 1)]
  BY <1>7
<1>9. PageFlushed(c, page) = of[PageWords]
  BY Zenon DEF PageFlushed
<1> HIDE DEF of
<1>10. of[0] = e
  <2>1. 0 \in 0 .. n
    OBVIOUS
  <2> QED BY <1>1, <1>8, <2>1
<1>11. ASSUME NEW i \in 1 .. n PROVE of[i] = EntryFlushed(of[i - 1], page * PageWords + i - 1)
  <2>1. i \in 0 .. n /\ i # 0
    OBVIOUS
  <2> QED BY <1>1, <1>8, <2>1
<1> QED BY <1>1, <1>9, <1>10, <1>11

LEMMA FrontIsEvicted ==
  ASSUME NEW c, NEW end \in Nat
  PROVE  \E g : /\ g[0] = c
                /\ \A p \in 1 .. end : g[p] = Evicted(g[p - 1], p - 1)
                /\ FrontEvicted(c, end) = g[end]
<1> DEFINE e == c
           of == CHOOSE g : g = [p \in 0 .. end |->
                     IF p = 0 THEN c
                     ELSE Evicted(g[p - 1], p - 1)]
<1>1. PICK n \in Nat : n = end
  OBVIOUS
<1>2. PICK g : Turns(g, 4, 0, e, n)
  BY TurnsExist
<1>3. g = [p \in 0 .. n |-> g[p]] /\ g[0] = e
  BY <1>2 DEF Turns
<1>4. \A i \in 1 .. n : g[i] = Turn(4, 0, g[i - 1], i)
  BY <1>2 DEF Turns
<1>5. ASSUME NEW p \in 1 .. n PROVE g[p] = Evicted(g[p - 1], p - 1)
  BY <1>4, TurnFacts
<1>6. ASSUME NEW p \in 0 .. n, p # 0 PROVE p \in 1 .. n
  BY <1>6
<1>7. g = [p \in 0 .. end |->
             IF p = 0 THEN c
             ELSE Evicted(g[p - 1], p - 1)]
  BY <1>1, <1>3, <1>5, <1>6
<1>8. of = [p \in 0 .. end |->
              IF p = 0 THEN c
              ELSE Evicted(of[p - 1], p - 1)]
  BY <1>7
<1>9. FrontEvicted(c, end) = of[end]
  BY Zenon DEF FrontEvicted
<1> HIDE DEF of
<1>10. of[0] = e
  <2>1. 0 \in 0 .. n
    OBVIOUS
  <2> QED BY <1>1, <1>8, <2>1
<1>11. ASSUME NEW p \in 1 .. n PROVE of[p] = Evicted(of[p - 1], p - 1)
  <2>1. p \in 0 .. n /\ p # 0
    OBVIOUS
  <2> QED BY <1>1, <1>8, <2>1
<1> QED BY <1>1, <1>9, <1>10, <1>11

LEMMA RegionIsFlushed ==
  ASSUME NEW r, NumPages - Page(r.at) \in Nat
  PROVE  \E g : /\ g[0] = [c |-> SlotFlushed(r.at), count |-> r.words, entry |-> r.at % PageWords]
                /\ \A i \in 1 .. NumPages - Page(r.at) : g[i] = PageOfRegion(g[i - 1], Page(r.at) + i - 1)
                /\ RegionFlushed(r) = g[NumPages - Page(r.at)].c
<1> DEFINE e == [c |-> SlotFlushed(r.at), count |-> r.words, entry |-> r.at % PageWords]
           of == CHOOSE g : g = [i \in 0 .. NumPages - Page(r.at) |->
                     IF i = 0 THEN [c |-> SlotFlushed(r.at), count |-> r.words, entry |-> r.at % PageWords]
                     ELSE PageOfRegion(g[i - 1], Page(r.at) + i - 1)]
<1>1. PICK n \in Nat : n = NumPages - Page(r.at)
  OBVIOUS
<1>2. PICK g : Turns(g, 5, Page(r.at), e, n)
  BY TurnsExist
<1>3. g = [i \in 0 .. n |-> g[i]] /\ g[0] = e
  BY <1>2 DEF Turns
<1>4. \A i \in 1 .. n : g[i] = Turn(5, Page(r.at), g[i - 1], i)
  BY <1>2 DEF Turns
<1>5. ASSUME NEW i \in 1 .. n PROVE g[i] = PageOfRegion(g[i - 1], Page(r.at) + i - 1)
  BY <1>4, TurnFacts
<1>6. ASSUME NEW i \in 0 .. n, i # 0 PROVE i \in 1 .. n
  BY <1>6
<1>7. g = [i \in 0 .. NumPages - Page(r.at) |->
             IF i = 0 THEN [c |-> SlotFlushed(r.at), count |-> r.words, entry |-> r.at % PageWords]
             ELSE PageOfRegion(g[i - 1], Page(r.at) + i - 1)]
  BY <1>1, <1>3, <1>5, <1>6
<1>8. of = [i \in 0 .. NumPages - Page(r.at) |->
              IF i = 0 THEN [c |-> SlotFlushed(r.at), count |-> r.words, entry |-> r.at % PageWords]
              ELSE PageOfRegion(of[i - 1], Page(r.at) + i - 1)]
  BY <1>7
<1>9. RegionFlushed(r) = of[NumPages - Page(r.at)].c
  BY Zenon DEF RegionFlushed
<1> HIDE DEF of
<1>10. of[0] = e
  <2>1. 0 \in 0 .. n
    OBVIOUS
  <2> QED BY <1>1, <1>8, <2>1
<1>11. ASSUME NEW i \in 1 .. n PROVE of[i] = PageOfRegion(of[i - 1], Page(r.at) + i - 1)
  <2>1. i \in 0 .. n /\ i # 0
    OBVIOUS
  <2> QED BY <1>1, <1>8, <2>1
<1> QED BY <1>1, <1>9, <1>10, <1>11

-----------------------------------------------------------------------------
(* The words of a page.                                                    *)
LEMMA PageFacts ==
  ASSUME NEW w \in Int
  PROVE  /\ Page(w) \in Int /\ Page(w) * PageWords \in Int
         /\ Page(w) * PageWords <= w /\ w < Page(w) * PageWords + PageWords
         /\ w \in Nat => Page(w) \in Nat
<1>1. PICK n \in Nat \ {0} : n = PageWords
  BY Sizes
<1>2. /\ w \div n \in Int /\ (w \div n) * n \in Int
      /\ (w \div n) * n <= w /\ w < (w \div n) * n + n
      /\ w \in Nat => w \div n \in Nat
  OBVIOUS
<1> QED BY <1>1, <1>2 DEF Page

LEMMA Products ==
  ASSUME NEW a \in Int, NEW b \in Int, NEW n \in Nat \ {0}, a * n < b * n + n
  PROVE  a <= b
<1> SUFFICES ASSUME a > b PROVE FALSE
  OBVIOUS
<1>1. PICK k \in Nat : a = b + 1 + k
  <2>1. a - b - 1 \in Nat /\ a = b + 1 + (a - b - 1)
    OBVIOUS
  <2> QED BY <2>1
<1>2. k * n \in Nat /\ a * n = b * n + n + k * n /\ b * n \in Int
  BY <1>1
<1> QED BY <1>2

LEMMA PageIsOne ==
  ASSUME NEW v \in Nat, NEW w \in Nat, NEW page \in Int,
         page * PageWords <= v, v <= w, w < page * PageWords + PageWords
  PROVE  Page(v) = page /\ Page(w) = page
<1>1. PICK n \in Nat \ {0} : n = PageWords
  BY Sizes
<1>2. PICK a \in Int : a = Page(v)
  BY PageFacts
<1>3. PICK b \in Int : b = Page(w)
  BY PageFacts
<1>4. /\ a * n <= v /\ v < a * n + n /\ b * n <= w /\ w < b * n + n
      /\ page * n <= v /\ w < page * n + n
  BY <1>1, <1>2, <1>3, PageFacts
<1>5. a * n \in Int /\ b * n \in Int /\ page * n \in Int
  OBVIOUS
<1>6. /\ a * n < page * n + n /\ page * n < a * n + n
      /\ b * n < page * n + n /\ page * n < b * n + n
  BY <1>4, <1>5
<1>7. a <= page /\ page <= a /\ b <= page /\ page <= b
  BY <1>6, Products
<1> QED BY <1>2, <1>3, <1>7

(* A block that runs into a page and stays on one began on it.             *)
LEMMA PageOfBlock ==
  ASSUME NEW v \in Nat, NEW w \in Nat, NEW u \in Nat, v < w, w <= u, Page(v) = Page(u)
  PROVE  Page(w) = Page(u)
<1>1. PICK a \in Int : a = Page(v)
  BY PageFacts
<1>2. a * PageWords <= v /\ u < a * PageWords + PageWords
  BY <1>1, PageFacts
<1>3. a * PageWords \in Int /\ a * PageWords + PageWords \in Int
  BY Sizes
<1>4. a * PageWords <= w /\ w < a * PageWords + PageWords
  BY <1>2, <1>3
<1> QED BY <1>1, <1>4, PageIsOne

(* No block begins at the word.                                            *)
Gone(c, w) == \A p \in DOMAIN c.code : c.code[p].first # w

LEMMA GoneStays ==
  ASSUME NEW c, NEW d, Shrunk(c, d), NEW w, Gone(c, w)
  PROVE  Gone(d, w)
BY DEF Gone, Shrunk, Same

(* A block is evicted, if there is one.  (xlat_start_block,                *)
(* xlat_extend_block)                                                      *)
LEMMA EvictedFacts ==
  ASSUME NEW c, Sound(c), NEW p, NEW d, d = Evicted(c, p)
  PROVE  /\ DOMAIN d.code = DOMAIN c.code \ {p} /\ Shrunk(c, d) /\ Sound(d)
         /\ \A X, F : Whole(c, X, F) => Whole(d, X, F)
<1>1. CASE p \in DOMAIN c.code
  <2>1. d = Deleted(c, p)
    BY <1>1 DEF Evicted
  <2> QED BY <1>1, <2>1, DeletedFacts, DeletedWhole
<1>2. CASE p \notin DOMAIN c.code
  <2>1. d = c
    BY <1>2 DEF Evicted
  <2> QED BY <1>2, <2>1, ShrunkNone
<1> QED BY <1>1, <1>2

LEMMA FrontEvictedFacts ==
  ASSUME NEW c, Sound(c), NEW end \in Nat, NEW d, d = FrontEvicted(c, end)
  PROVE  /\ DOMAIN d.code = DOMAIN c.code \ 0 .. end - 1 /\ Shrunk(c, d) /\ Sound(d)
         /\ \A X, F : Whole(c, X, F) => Whole(d, X, F)
<1>1. PICK g : /\ g[0] = c
               /\ \A p \in 1 .. end : g[p] = Evicted(g[p - 1], p - 1)
               /\ FrontEvicted(c, end) = g[end]
  BY FrontIsEvicted
<1> DEFINE T == {k \in Nat : k <= end =>
                   /\ DOMAIN g[k].code = DOMAIN c.code \ 0 .. k - 1
                   /\ Shrunk(c, g[k]) /\ Sound(g[k])
                   /\ \A X, F : Whole(c, X, F) => Whole(g[k], X, F)}
<1>2. 0 \in T
  <2>1. DOMAIN c.code = DOMAIN c.code \ 0 .. 0 - 1
    OBVIOUS
  <2> QED BY <1>1, <2>1, ShrunkNone
<1>3. ASSUME NEW k \in Nat, k \in T
      PROVE  k + 1 \in T
  <2> SUFFICES ASSUME k + 1 <= end
               PROVE  /\ DOMAIN g[k + 1].code = DOMAIN c.code \ 0 .. (k + 1) - 1
                      /\ Shrunk(c, g[k + 1]) /\ Sound(g[k + 1])
                      /\ \A X, F : Whole(c, X, F) => Whole(g[k + 1], X, F)
    OBVIOUS
  <2>1. /\ DOMAIN g[k].code = DOMAIN c.code \ 0 .. k - 1
        /\ Shrunk(c, g[k]) /\ Sound(g[k])
        /\ \A X, F : Whole(c, X, F) => Whole(g[k], X, F)
    BY <1>3
  <2>2. g[k + 1] = Evicted(g[k], k)
    <3>1. PICK m \in 1 .. end : m = k + 1 /\ m - 1 = k
      OBVIOUS
    <3> QED BY <1>1, <3>1
  <2>3. /\ DOMAIN g[k + 1].code = DOMAIN g[k].code \ {k}
        /\ Shrunk(g[k], g[k + 1]) /\ Sound(g[k + 1])
        /\ \A X, F : Whole(g[k], X, F) => Whole(g[k + 1], X, F)
    BY <2>1, <2>2, EvictedFacts
  <2>4. 0 .. (k + 1) - 1 = (0 .. k - 1) \cup {k}
    OBVIOUS
  <2>5. Shrunk(c, g[k + 1])
    BY <2>1, <2>3, ShrunkTwice
  <2>6. DOMAIN g[k + 1].code = DOMAIN c.code \ 0 .. (k + 1) - 1
    BY <2>1, <2>3, <2>4
  <2> QED BY <2>1, <2>3, <2>5, <2>6
<1>4. T \subseteq Nat
  OBVIOUS
<1>5. end \in T
  <2> HIDE DEF T
  <2> QED BY <1>2, <1>3, <1>4, AllNaturals
<1> QED BY <1>1, <1>5

(* The next of a chain is deleted.  (xlat_flush_page_by_lut)               *)
LEMMA ChainTurnFacts ==
  ASSUME NEW s, Sound(s.c), NEW t, t = ChainTurn(s)
  PROVE  /\ Shrunk(s.c, t.c) /\ Sound(t.c)
         /\ \A X, F : Whole(s.c, X, F) => Whole(t.c, X, F)
         /\ \A X : \A w \in Word : Whole(s.c, X, {}) /\ s.at = s.c.lut[w].code => Gone(t.c, w)
<1>1. CASE s.at \in DOMAIN s.c.code
  <2> PICK c, p, d : c = s.c /\ p = s.at /\ d = t.c
    OBVIOUS
  <2>1. d = Deleted(c, p) /\ p \in DOMAIN c.code /\ Sound(c)
    BY <1>1 DEF ChainTurn
  <2>2. DOMAIN d.code = DOMAIN c.code \ {p} /\ Shrunk(c, d) /\ Sound(d)
    BY <2>1, DeletedFacts, ZenonT(60)
  <2>3. \A X, F : Whole(c, X, F) => Whole(d, X, F)
    BY <2>1, DeletedWhole
  <2>4. ASSUME NEW X, NEW w \in Word, Whole(s.c, X, {}), s.at = s.c.lut[w].code,
               NEW q \in DOMAIN t.c.code, t.c.code[q].first = w
        PROVE  FALSE
    <3>1. q \in DOMAIN s.c.code /\ q # s.at /\ s.c.code[q].first = w
      BY <2>2, <2>4 DEF Shrunk, Same
    <3> QED BY <2>4, <3>1 DEF Whole, OneEach
  <2> QED BY <2>2, <2>3, <2>4 DEF Gone
<1>2. CASE s.at \notin DOMAIN s.c.code
  <2>1. t = s
    BY <1>2 DEF ChainTurn
  <2>2. ASSUME NEW X, NEW w \in Word, Whole(s.c, X, {}), s.at = s.c.lut[w].code,
               NEW q \in DOMAIN s.c.code, s.c.code[q].first = w
        PROVE  FALSE
    BY <1>2, <2>2 DEF Whole, OneEach
  <2> QED BY <2>1, <2>2, ShrunkNone DEF Gone
<1> QED BY <1>1, <1>2

LEMMA ChainDeletedFacts ==
  ASSUME NEW c, Sound(c), NEW w, NEW d, d = ChainDeleted(c, w)
  PROVE  /\ Shrunk(c, d) /\ Sound(d)
         /\ \A X, F : Whole(c, X, F) => Whole(d, X, F)
         /\ \A X : w \in Word /\ Whole(c, X, {}) => Gone(d, w)
<1>1. PICK g : /\ g[0] = [c |-> c, at |-> c.lut[w].code]
               /\ \A k \in 1 .. Units : g[k] = ChainTurn(g[k - 1])
               /\ ChainDeleted(c, w) = g[Units].c
  BY ChainIsDeleted
<1>2. PICK n \in Nat \ {0} : n = Units
  BY Sizes
<1> DEFINE Good(e) == /\ Shrunk(c, e) /\ Sound(e)
                      /\ \A X, F : Whole(c, X, F) => Whole(e, X, F)
           T == {k \in Nat : k <= n => /\ Good(g[k].c)
                                       /\ \A X : k > 0 /\ w \in Word /\ Whole(c, X, {}) => Gone(g[k].c, w)}
<1>3. 0 \in T
  <2>1. g[0].c = c
    BY <1>1
  <2> QED BY <2>1, ShrunkNone
<1>4. ASSUME NEW k \in Nat, k \in T
      PROVE  k + 1 \in T
  <2> SUFFICES ASSUME k + 1 <= n
               PROVE  /\ Good(g[k + 1].c)
                      /\ \A X : w \in Word /\ Whole(c, X, {}) => Gone(g[k + 1].c, w)
    OBVIOUS
  <2>1. Good(g[k].c) /\ \A X : k > 0 /\ w \in Word /\ Whole(c, X, {}) => Gone(g[k].c, w)
    BY <1>4
  <2>2. PICK s, t : s = g[k] /\ t = g[k + 1]
    OBVIOUS
  <2>3. t = ChainTurn(s)
    <3>1. PICK m \in 1 .. n : m = k + 1 /\ m - 1 = k
      OBVIOUS
    <3> QED BY <1>1, <1>2, <2>2, <3>1
  <2>4. Shrunk(c, s.c) /\ Sound(s.c) /\ \A X, F : Whole(c, X, F) => Whole(s.c, X, F)
    BY <2>1, <2>2
  <2>5. /\ Shrunk(s.c, t.c) /\ Sound(t.c)
        /\ \A X, F : Whole(s.c, X, F) => Whole(t.c, X, F)
        /\ \A X : \A v \in Word : Whole(s.c, X, {}) /\ s.at = s.c.lut[v].code => Gone(t.c, v)
    BY <2>3, <2>4, ChainTurnFacts
  <2>6. Good(t.c)
    BY <2>4, <2>5, ShrunkTwice
  <2>7. ASSUME NEW X, w \in Word, Whole(c, X, {})
        PROVE  Gone(t.c, w)
    <3>1. CASE k > 0
      BY <2>1, <2>2, <2>5, <2>7, <3>1, GoneStays
    <3>2. CASE k = 0
      <4>1. s.at = s.c.lut[w].code
        BY <1>1, <2>2, <3>2
      <4>2. Whole(s.c, X, {})
        BY <2>4, <2>7
      <4> QED BY <2>5, <2>7, <4>1, <4>2
    <3> QED BY <3>1, <3>2
  <2> HIDE DEF Good
  <2> QED BY <2>2, <2>6, <2>7
<1>5. T \subseteq Nat
  OBVIOUS
<1>6. n \in T
  <2> HIDE DEF T
  <2> QED BY <1>3, <1>4, <1>5, AllNaturals
<1> QED BY <1>1, <1>2, <1>6

(* With one mode a chain is one block.                                     *)
LEMMA ChainIsOne ==
  ASSUME NEW c, NEW F, OneEach(c, F), NEW w \in Word \ F
  PROVE  Chain(c, w) = {c.lut[w].code} \ {None}
<1>1. PICK g : /\ g[0] = {c.lut[w].code} \ {None}
               /\ \A k \in 1 .. Units : g[k] = Onward(c, g[k - 1])
               /\ Chain(c, w) = g[Units]
  BY ChainIsWalked
<1>2. PICK n \in Nat \ {0} : n = Units
  BY Sizes
<1>3. PICK S : S = {c.lut[w].code} \ {None}
  OBVIOUS
<1>4. Onward(c, S) = S
  <2>1. \A p \in S \cap DOMAIN c.code : c.code[p].chain = None
    BY DEF OneEach
  <2> QED BY <2>1 DEF Onward
<1> DEFINE T == {k \in Nat : k <= n => g[k] = S}
<1>5. 0 \in T
  BY <1>1, <1>3
<1>6. ASSUME NEW k \in Nat, k \in T
      PROVE  k + 1 \in T
  <2> SUFFICES ASSUME k + 1 <= n PROVE g[k + 1] = S
    OBVIOUS
  <2>1. PICK m \in 1 .. n : m = k + 1 /\ m - 1 = k
    OBVIOUS
  <2>2. g[m] = Onward(c, g[k]) /\ g[k] = S
    BY <1>1, <1>2, <1>6, <2>1
  <2> QED BY <1>4, <2>1, <2>2
<1>7. T \subseteq Nat
  OBVIOUS
<1>8. n \in T
  <2> HIDE DEF T
  <2> QED BY <1>5, <1>6, <1>7, AllNaturals
<1> QED BY <1>1, <1>2, <1>3, <1>8

LEMMA ChainLeads ==
  ASSUME NEW c, NEW F, OneEach(c, F), NEW w \in Word \ F
  PROVE  Leads(c, w)
BY ChainIsOne DEF Leads, OneEach

(* An entry is flushed with all its blocks.  (xlat_flush_page_by_lut)      *)
LEMMA EntryFlushedFacts ==
  ASSUME NEW c, Sound(c), NEW w, NEW d, d = EntryFlushed(c, w)
  PROVE  Shrunk(c, d) /\ Sound(d)
<1>0. Typed(c) /\ Linked(c)
  BY DEF Sound
<1>1. CASE Leads(c, w)
  <2>1. PICK e : e = ChainDeleted(c, w)
    OBVIOUS
  <2>2. Shrunk(c, e) /\ Typed(e) /\ Linked(e)
    BY <2>1, ChainDeletedFacts DEF Sound
  <2>3. d = [e EXCEPT !.lut[w] = Empty]
    BY <1>1, <2>1 DEF EntryFlushed
  <2>4. PICK E : E = Empty /\ E \in Entry
    <3>1. PICK n \in Int : n = None
      BY DEF None
    <3>2. PICK u \in BOOLEAN : u = FALSE
      OBVIOUS
    <3>3. Empty = [code |-> n, used |-> u]
      BY <3>1, <3>2 DEF Empty
    <3> QED BY <3>3 DEF Entry
  <2>5. e = [code |-> e.code, lut |-> e.lut, wild |-> e.wild] /\ e.lut \in [Word -> Entry]
    BY <2>2 DEF Typed
  <2>6. /\ d = [code |-> d.code, lut |-> d.lut, wild |-> d.wild]
        /\ d.code = e.code /\ d.lut = [e.lut EXCEPT ![w] = E]
    BY <2>3, <2>4, <2>5
  <2>7. d.lut \in [Word -> Entry]
    BY <2>4, <2>5, <2>6
  <2>8. Typed(d) /\ Linked(d) /\ Shrunk(c, d)
    BY <2>2, <2>6, <2>7 DEF Typed, Linked, Shrunk
  <2> QED BY <2>8 DEF Sound
<1>2. CASE ~Leads(c, w)
  <2>1. d = [c EXCEPT !.wild = "entry"]
    BY <1>2 DEF EntryFlushed
  <2>2. /\ d = [code |-> d.code, lut |-> d.lut, wild |-> d.wild]
        /\ d.code = c.code /\ d.lut = c.lut
    BY <1>0, <2>1 DEF Typed
  <2>3. Typed(d) /\ Linked(d) /\ Shrunk(c, d)
    BY <1>0, <2>2, ShrunkNone DEF Typed, Linked, Shrunk
  <2> QED BY <2>3 DEF Sound
<1> QED BY <1>1, <1>2

LEMMA EntryFlushedWhole ==
  ASSUME NEW c, Sound(c), NEW w, NEW d, d = EntryFlushed(c, w),
         NEW X, Whole(c, X, {}),
         \A p \in DOMAIN c.code : Apart(c.code[p]) =>
           ~(c.code[p].first < w /\ w <= c.code[p].last)
  PROVE  Whole(d, X, {}) /\ (w \in Word => Gone(d, w))
<1>0. Typed(c) /\ OneEach(c, {}) /\ Marked(c, X)
  BY DEF Sound, Whole
<1>1. CASE Leads(c, w)
  <2>1. PICK e : e = ChainDeleted(c, w)
    OBVIOUS
  <2>2. Shrunk(c, e) /\ Typed(e) /\ OneEach(e, {}) /\ Marked(e, X)
    BY <2>1, ChainDeletedFacts DEF Sound, Whole
  <2>3. w \in Word => Gone(e, w)
    BY <2>1, ChainDeletedFacts
  <2>4. d = [e EXCEPT !.lut[w] = Empty]
    BY <1>1, <2>1 DEF EntryFlushed
  <2>5. e = [code |-> e.code, lut |-> e.lut, wild |-> e.wild] /\ e.lut \in [Word -> Entry]
    BY <2>2 DEF Typed
  <2>6. d.code = e.code /\ d.lut = [e.lut EXCEPT ![w] = Empty]
    BY <2>4, <2>5
  <2>7. /\ \A v \in Word : v # w => d.lut[v] = e.lut[v]
        /\ w \in Word => d.lut[w].code = None
    BY <2>5, <2>6 DEF Empty
  <2>8. \A p \in DOMAIN e.code : e.code[p].first \in Word
    BY <2>2 DEF Typed, Block
  <2>9. OneEach(d, {})
    <3>1. ASSUME NEW v \in Word, d.lut[v].code # None
          PROVE  d.lut[v].code \in DOMAIN d.code /\ d.code[d.lut[v].code].first = v
      BY <2>2, <2>6, <2>7, <3>1 DEF OneEach
    <3>2. ASSUME NEW p \in DOMAIN d.code
          PROVE  d.lut[d.code[p].first].code = p /\ d.code[p].chain = None
      <4>1. e.code[p].first # w
        BY <2>3, <2>6, <2>8 DEF Gone
      <4> QED BY <2>2, <2>6, <2>7, <2>8, <4>1 DEF OneEach
    <3> QED BY <3>1, <3>2 DEF OneEach
  <2>10. Marked(d, X)
    <3> SUFFICES ASSUME NEW p \in DOMAIN d.code, p \notin X, Apart(d.code[p]),
                        NEW v \in Word, d.code[p].first < v, v <= d.code[p].last
                 PROVE  d.lut[v].used
      BY DEF Marked
    <3>1. p \in DOMAIN c.code /\ Same(c.code[p], d.code[p])
      BY <2>2, <2>6 DEF Shrunk
    <3>2. Apart(c.code[p])
      BY <3>1 DEF Apart, Same
    <3>3. v # w
      BY <3>1, <3>2 DEF Same
    <3>4. e.lut[v].used
      BY <2>2, <2>6 DEF Marked
    <3> QED BY <2>7, <3>3, <3>4
  <2> QED BY <2>3, <2>6, <2>9, <2>10 DEF Whole, Gone
<1>2. CASE ~Leads(c, w)
  <2>1. d = [c EXCEPT !.wild = "entry"]
    BY <1>2 DEF EntryFlushed
  <2>2. d.code = c.code /\ d.lut = c.lut
    BY <1>0, <2>1 DEF Typed
  <2>3. w \notin Word
    BY <1>0, <1>2, ChainLeads
  <2> QED BY <1>0, <2>2, <2>3 DEF Whole, OneEach, Marked
<1> QED BY <1>1, <1>2

(* A page is flushed, one entry after the other.                           *)
LEMMA PageFlushedFacts ==
  ASSUME NEW c, Sound(c), NEW page, NEW d, d = PageFlushed(c, page)
  PROVE  Shrunk(c, d) /\ Sound(d)
<1>1. PICK g : /\ g[0] = c
               /\ \A i \in 1 .. PageWords : g[i] = EntryFlushed(g[i - 1], page * PageWords + i - 1)
               /\ PageFlushed(c, page) = g[PageWords]
  BY PageIsFlushed
<1>2. PICK n \in Nat \ {0} : n = PageWords
  BY Sizes
<1> DEFINE T == {i \in Nat : i <= n => Shrunk(c, g[i]) /\ Sound(g[i])}
<1>3. 0 \in T
  BY <1>1, ShrunkNone
<1>4. ASSUME NEW i \in Nat, i \in T
      PROVE  i + 1 \in T
  <2> SUFFICES ASSUME i + 1 <= n
               PROVE  Shrunk(c, g[i + 1]) /\ Sound(g[i + 1])
    OBVIOUS
  <2>1. PICK m \in 1 .. n : m = i + 1 /\ m - 1 = i
    OBVIOUS
  <2>2. g[m] = EntryFlushed(g[i], page * PageWords + m - 1)
    BY <1>1, <1>2, <2>1
  <2>3. Shrunk(c, g[i]) /\ Sound(g[i])
    BY <1>4
  <2>4. Shrunk(g[i], g[m]) /\ Sound(g[m])
    BY <2>2, <2>3, EntryFlushedFacts
  <2> QED BY <2>1, <2>3, <2>4, ShrunkTwice
<1>5. T \subseteq Nat
  OBVIOUS
<1>6. n \in T
  <2> HIDE DEF T
  <2> QED BY <1>3, <1>4, <1>5, AllNaturals
<1> QED BY <1>1, <1>2, <1>6

(* With one mode none of its blocks is left.                               *)
LEMMA PageFlushedWhole ==
  ASSUME NEW c, Sound(c), NEW page \in Int, NEW d, d = PageFlushed(c, page),
         NEW X, Whole(c, X, {})
  PROVE  Whole(d, X, {}) /\ \A w \in Word : Page(w) = page => Gone(d, w)
<1>1. PICK g : /\ g[0] = c
               /\ \A i \in 1 .. PageWords : g[i] = EntryFlushed(g[i - 1], page * PageWords + i - 1)
               /\ PageFlushed(c, page) = g[PageWords]
  BY PageIsFlushed
<1>2. PICK n \in Nat \ {0} : n = PageWords
  BY Sizes
<1>3. PICK base \in Int : base = page * PageWords
  BY <1>2
<1>4. Word \subseteq Nat
  BY Sizes DEF Word
<1> DEFINE Good(i) == /\ Sound(g[i]) /\ Whole(g[i], X, {})
                      /\ \A w \in Word : base <= w /\ w < base + i => Gone(g[i], w)
           T == {i \in Nat : i <= n => Good(i)}
<1>5. 0 \in T
  BY <1>1, <1>4
<1>6. ASSUME NEW i \in Nat, i \in T
      PROVE  i + 1 \in T
  <2> SUFFICES ASSUME i + 1 <= n PROVE Good(i + 1)
    OBVIOUS
  <2>1. PICK m \in 1 .. n : m = i + 1 /\ m - 1 = i
    OBVIOUS
  <2>2. PICK w \in Int : w = base + i
    OBVIOUS
  <2>3. PICK x, y : x = g[i] /\ y = g[m]
    OBVIOUS
  <2>4. y = EntryFlushed(x, w)
    <3>1. page * PageWords + m - 1 = w
      BY <1>3, <2>1, <2>2
    <3> QED BY <1>1, <1>2, <2>1, <2>3, <3>1
  <2>5. /\ Sound(x) /\ Whole(x, X, {})
        /\ \A v \in Word : base <= v /\ v < w => Gone(x, v)
    BY <1>6, <2>2, <2>3
  <2>6. ASSUME NEW p \in DOMAIN x.code, Apart(x.code[p]),
               x.code[p].first < w, w <= x.code[p].last
        PROVE  FALSE
    <3>1. PICK a \in Word, b \in Word : a = x.code[p].first /\ b = x.code[p].last
      BY <2>5 DEF Sound, Typed, Block
    <3>2. Page(a) = Page(b) /\ a < w /\ w <= b
      BY <2>6, <3>1 DEF Apart
    <3>3. w \in Nat /\ a \in Nat /\ b \in Nat
      BY <1>4, <3>1, <3>2
    <3>4. Page(w) = page
      <4>1. base <= w /\ w < base + PageWords
        BY <1>2, <2>2
      <4> QED BY <1>3, <3>3, <4>1, PageIsOne
    <3>5. Page(w) = Page(a)
      BY <3>2, <3>3, PageOfBlock
    <3>6. base <= a
      BY <1>3, <3>3, <3>4, <3>5, PageFacts
    <3> QED BY <2>5, <3>1, <3>2, <3>6 DEF Gone
  <2>7. Whole(y, X, {}) /\ (w \in Word => Gone(y, w))
    BY <2>4, <2>5, <2>6, EntryFlushedWhole
  <2>8. Sound(y) /\ Shrunk(x, y)
    BY <2>4, <2>5, EntryFlushedFacts
  <2>9. ASSUME NEW v \in Word, base <= v, v < base + m
        PROVE  Gone(y, v)
    <3>1. CASE v = w
      BY <2>7, <3>1
    <3>2. CASE v # w
      <4>1. v < w
        BY <1>4, <2>1, <2>2, <2>9, <3>2
      <4> QED BY <2>5, <2>8, <2>9, <4>1, GoneStays
    <3> QED BY <3>1, <3>2
  <2> QED BY <2>1, <2>3, <2>7, <2>8, <2>9
<1>7. T \subseteq Nat
  OBVIOUS
<1>8. n \in T
  <2> HIDE DEF T
  <2> QED BY <1>5, <1>6, <1>7, AllNaturals
<1>9. ASSUME NEW w \in Word, Page(w) = page
      PROVE  base <= w /\ w < base + n
  BY <1>2, <1>3, <1>4, <1>9, PageFacts
<1> QED BY <1>1, <1>2, <1>8, <1>9

LEMMA PageStays ==
  ASSUME NEW c, NEW d, NEW e, Shrunk(d, e), NEW page,
         \A w \in Word : Page(w) = page => Gone(d, w)
  PROVE  \A w \in Word : Page(w) = page => Gone(e, w)
BY GoneStays

(* What the writes of the program do to the cache.                         *)
Flushes(c, d) ==
  Shrunk(c, d) /\ Sound(d) /\ \A X : Whole(c, X, {}) => Whole(d, X, {})

LEMMA FlushesNone == ASSUME NEW c, Sound(c) PROVE Flushes(c, c)
BY ShrunkNone DEF Flushes

LEMMA FlushesTwice ==
  ASSUME NEW c, NEW d, NEW e, Flushes(c, d), Flushes(d, e)
  PROVE  Flushes(c, e)
BY ShrunkTwice DEF Flushes

LEMMA PageFlushes ==
  ASSUME NEW c, Sound(c), NEW page \in Int
  PROVE  Flushes(c, PageFlushed(c, page))
BY PageFlushedFacts, PageFlushedWhole DEF Flushes

LEMMA SlotFlushes ==
  ASSUME Sound(Now), NEW w \in Word
  PROVE  Flushes(Now, SlotFlushed(w))
<1>1. PICK page \in Int : page = Page(w) - 1
  BY PageFacts, Sizes DEF Word
<1> QED BY <1>1, PageFlushes, FlushesNone DEF SlotFlushed

LEMMA CheckFlushes ==
  ASSUME Sound(Now), NEW w \in Word, NEW tested
  PROVE  Flushes(Now, Checked(w, tested))
<1>1. PICK c : c = SlotFlushed(w)
  OBVIOUS
<1>2. Flushes(Now, c) /\ Sound(c)
  BY <1>1, SlotFlushes DEF Flushes
<1>3. PICK page \in Int : page = Page(w)
  BY PageFacts, Sizes DEF Word
<1>4. Flushes(c, PageFlushed(c, page)) /\ Flushes(c, c)
  BY <1>2, PageFlushes, FlushesNone
<1>5. Checked(w, tested) \in {c, PageFlushed(c, page)}
  BY <1>1, <1>3 DEF Checked
<1> QED BY <1>2, <1>4, <1>5, FlushesTwice

LEMMA RegionPageFlushes ==
  ASSUME NEW s, Sound(s.c), NEW page \in Int
  PROVE  Flushes(s.c, PageOfRegion(s, page).c)
<1>1. PageOfRegion(s, page).c \in {s.c, PageFlushed(s.c, page)}
  BY DEF PageOfRegion
<1> QED BY <1>1, PageFlushes, FlushesNone

LEMMA PagesOfRegion ==
  ASSUME NEW w \in Word
  PROVE  Page(w) \in Nat /\ NumPages - Page(w) \in Nat \ {0}
<1>1. PICK n \in Nat \ {0}, k \in Nat \ {0} : n = PageWords /\ k = Words
  BY Sizes
<1>2. PICK a \in Nat : a = Page(w) /\ a * n <= w /\ w \in Nat /\ w < k
  BY <1>1, PageFacts DEF Word
<1>3. k % n = 0
  BY <1>1, SizeAssumption
<1>4. k \div n \in Int /\ k = (k \div n) * n
  BY <1>3
<1>5. PICK b \in Int : b = k \div n /\ k = b * n
  BY <1>4
<1>6. (b - 1) * n + n = b * n /\ a * n \in Int /\ b * n \in Int
  OBVIOUS
<1>7. a * n < (b - 1) * n + n
  BY <1>2, <1>5, <1>6
<1>8. a <= b - 1
  <2>1. PICK m \in Int : m = b - 1
    OBVIOUS
  <2> QED BY <1>7, <2>1, Products
<1> QED BY <1>1, <1>2, <1>5, <1>8 DEF NumPages

LEMMA RegionFlushes ==
  ASSUME Sound(Now), NEW r \in Regions
  PROVE  \E g : /\ g[0] = [c |-> SlotFlushed(r.at), count |-> r.words, entry |-> r.at % PageWords]
                /\ g[1] = PageOfRegion(g[0], Page(r.at))
                /\ Flushes(Now, g[1].c) /\ Flushes(g[1].c, RegionFlushed(r))
<1>1. r.at \in Word
  BY RegionAssumption
<1>2. PICK from \in Nat, n \in Nat \ {0} : from = Page(r.at) /\ n = NumPages - Page(r.at)
  BY <1>1, PagesOfRegion
<1>3. PICK g : /\ g[0] = [c |-> SlotFlushed(r.at), count |-> r.words, entry |-> r.at % PageWords]
               /\ \A i \in 1 .. n : g[i] = PageOfRegion(g[i - 1], from + i - 1)
               /\ RegionFlushed(r) = g[n].c
  BY <1>2, RegionIsFlushed
<1>4. Flushes(Now, g[0].c) /\ Sound(g[0].c)
  <2>1. g[0].c = SlotFlushed(r.at)
    BY <1>3
  <2> QED BY <1>1, <2>1, SlotFlushes DEF Flushes
<1>5. g[1] = PageOfRegion(g[0], from)
  <2>1. 1 \in 1 .. n /\ from + 1 - 1 = from
    OBVIOUS
  <2> QED BY <1>3, <2>1
<1>6. Flushes(Now, g[1].c) /\ Sound(g[1].c)
  <2>1. Flushes(g[0].c, g[1].c)
    BY <1>4, <1>5, RegionPageFlushes
  <2> QED BY <1>4, <2>1, FlushesTwice DEF Flushes
<1> DEFINE T == {i \in Nat : i + 1 <= n => Flushes(g[1].c, g[i + 1].c)}
<1>7. 0 \in T
  BY <1>6, FlushesNone
<1>8. ASSUME NEW i \in Nat, i \in T
      PROVE  i + 1 \in T
  <2> SUFFICES ASSUME (i + 1) + 1 <= n PROVE Flushes(g[1].c, g[(i + 1) + 1].c)
    OBVIOUS
  <2>1. PICK x, y, z : x = g[1].c /\ y = g[i + 1] /\ z = g[(i + 1) + 1]
    OBVIOUS
  <2>2. Flushes(x, y.c) /\ Sound(y.c)
    BY <1>8, <2>1 DEF Flushes
  <2>3. PICK page \in Int : z = PageOfRegion(y, page)
    <3>1. PICK m \in 1 .. n : m = (i + 1) + 1 /\ m - 1 = i + 1 /\ from + m - 1 \in Int
      OBVIOUS
    <3> QED BY <1>3, <2>1, <3>1
  <2>4. Flushes(y.c, z.c)
    BY <2>2, <2>3, RegionPageFlushes
  <2> QED BY <2>1, <2>2, <2>4, FlushesTwice
<1>9. T \subseteq Nat
  OBVIOUS
<1>10. n - 1 \in T
  <2> HIDE DEF T
  <2> QED BY <1>7, <1>8, <1>9, AllNaturals
<1>11. Flushes(g[1].c, g[n].c)
  <2>1. PICK m \in Nat : m = n - 1 /\ m + 1 = n
    OBVIOUS
  <2> QED BY <1>10, <2>1
<1> QED BY <1>2, <1>3, <1>5, <1>6, <1>11
-----------------------------------------------------------------------------
(* Nothing jumps to the translation under way, or out of it, and the exit  *)
(* that asked for it wants its code.                                       *)
Pending ==
  \A t \in busy :
    /\ t.at \in DOMAIN code /\ code[t.at].jump = None /\ code[t.at].uses = {}
    /\ \A q \in DOMAIN code \ {t.at} : Site(q) \in t.from =>
         code[q].target = code[t.at].first /\ code[q].mode = code[t.at].mode

CacheInv == HeapInv /\ Sound(Now) /\ Pending

LEMMA NowFacts ==
  ASSUME CacheInv
  PROVE  /\ Tiles(heap) /\ ptr \in DOMAIN heap \cup {Units} /\ DOMAIN code \subseteq DOMAIN heap
         /\ code \in [DOMAIN code -> Block] /\ lut \in [Word -> Entry]
         /\ \A p \in DOMAIN code : /\ p \in Nat
                                   /\ \E b \in Code : code[p].first = b.first /\ code[p].last = b.last
         /\ Sound(Now) /\ Now.code = code /\ Now.lut = lut /\ None \notin DOMAIN code
<1>1. /\ Tiles(heap) /\ ptr \in DOMAIN heap \cup {Units} /\ DOMAIN code \subseteq DOMAIN heap
      /\ Sound(Now) /\ Now.code = code /\ Now.lut = lut
  BY DEF CacheInv, HeapInv, CodeInHeap, Now
<1>2. Typed(Now)
  BY <1>1 DEF Sound
<1>3. /\ code \in [DOMAIN code -> Block] /\ lut \in [Word -> Entry]
      /\ \A p \in DOMAIN code : \E b \in Code : code[p].first = b.first /\ code[p].last = b.last
  BY <1>1, <1>2 DEF Typed
<1>4. DOMAIN code \subseteq Nat
  <2>1. \A p \in DOMAIN heap : p \in Nat
    BY <1>1, TilesFacts, Sizes
  <2> QED BY <1>1, <2>1
<1>5. None \notin Nat
  BY DEF None
<1> QED BY <1>1, <1>3, <1>4, <1>5

(* What holds of the contents, when the new ones are known.                *)
LEMMA NewContents ==
  ASSUME NEW c, Typed(c), Linked(c)', code' = c.code, lut' = c.lut
  PROVE  Sound(Now)'
<1>1. /\ c.code \in [DOMAIN c.code -> Block] /\ c.lut \in [Word -> Entry]
      /\ \A p \in DOMAIN c.code : \E b \in Code :
           c.code[p].first = b.first /\ c.code[p].last = b.last
  BY DEF Typed
<1>2. Typed(Now)'
  BY <1>1 DEF Typed, Now
<1>3. Linked(Now)'
  BY DEF Linked, Now
<1> QED BY <1>2, <1>3 DEF Sound

(* Links are kept where the places of the exits are.                       *)
LEMMA LinksStay ==
  ASSUME NEW c, Linked(c), \A q \in DOMAIN c.code : c.code[q].jump # None => Site(q)' = Site(q)
  PROVE  Linked(c)'
BY DEF Linked

LEMMA SitesStay == heap' = heap => \A q : Site(q)' = Site(q)
BY DEF Site

(* A translation begins, on top of what was at its place.                  *)
LEMMA StartSafe ==
  ASSUME CacheInv, NEW b \in Code, NEW m \in Modes, NEW ask \in 1 .. MaxAsk,
         NEW from \in SUBSET Nat, busy = {},
         \A q \in DOMAIN code : Site(q) \in from => code[q].target = b.first /\ code[q].mode = m,
         Start(b, m, ask, from)
  PROVE  CacheInv'
<1>1. /\ Tiles(heap) /\ ptr \in DOMAIN heap \cup {Units} /\ DOMAIN code \subseteq DOMAIN heap
      /\ Sound(Now) /\ Now.code = code
  BY NowFacts
<1>2. PICK at : at = IF ptr = Units THEN 0 ELSE ptr
  OBVIOUS
<1>3. at \in DOMAIN heap /\ at \in Nat
  BY <1>1, <1>2, Sizes DEF Tiles
<1>4. PICK c : c = Evicted(Now, at)
  OBVIOUS
<1>5. /\ DOMAIN c.code = DOMAIN code \ {at} /\ Shrunk(Now, c) /\ Typed(c) /\ Linked(c)
  BY <1>1, <1>4, EvictedFacts DEF Sound
<1>6. PICK entry : entry = c.lut[b.first]
  OBVIOUS
<1>7. PICK new : new = [first |-> b.first, last |-> b.last, target |-> b.target,
                        mode |-> m, chain |-> entry.code,
                        jump |-> None, uses |-> {}, stale |-> FALSE]
  OBVIOUS
<1>8. /\ code' = [p \in DOMAIN c.code \cup {at} |-> IF p = at THEN new ELSE c.code[p]]
      /\ lut' = [c.lut EXCEPT ![b.first] = [code |-> at, used |-> entry.used]]
      /\ ptr' = at + heap[at]
      /\ busy' = {[at |-> at, ask |-> ask, from |-> from]}
      /\ heap' = heap
  BY <1>2, <1>4, <1>6, <1>7 DEF Start
<1>9. entry \in Entry /\ c.lut \in [Word -> Entry] /\ b.first \in Word
  BY <1>5, <1>6, CodeFacts DEF Typed
<1>10. new \in Block /\ new.jump = None /\ new.uses = {} /\ new.first = b.first
       /\ new.last = b.last /\ new.mode = m
  <2>1. PICK n \in Int : n = None
    BY DEF None
  <2>2. PICK u \in BOOLEAN : u = FALSE
    OBVIOUS
  <2>3. entry.code \in Int
    BY <1>9 DEF Entry
  <2>4. new = [first |-> b.first, last |-> b.last, target |-> b.target,
               mode |-> m, chain |-> entry.code,
               jump |-> n, uses |-> {}, stale |-> u]
    BY <1>7, <2>1, <2>2
  <2>5. new \in Block
    BY <2>3, <2>4, CodeFacts DEF Block
  <2>6. new.jump = n /\ new.uses = {} /\ new.first = b.first /\ new.last = b.last /\ new.mode = m
    BY <2>4
  <2> QED BY <2>1, <2>5, <2>6
<1>11. PICK d : d = [code |-> code', lut |-> lut', wild |-> wild']
  OBVIOUS
<1>12. /\ d.code = code' /\ d.lut = lut' /\ DOMAIN d.code = DOMAIN c.code \cup {at}
       /\ d.code[at] = new /\ at \notin DOMAIN c.code
       /\ \A q \in DOMAIN c.code : d.code[q] = c.code[q]
  BY <1>5, <1>8, <1>11
<1>13. Typed(d)
  <2>1. d.code \in [DOMAIN d.code -> Block]
    BY <1>5, <1>8, <1>10, <1>12 DEF Typed
  <2>2. d.lut \in [Word -> Entry]
    <3>1. [code |-> at, used |-> entry.used] \in Entry
      BY <1>3, <1>9 DEF Entry
    <3> QED BY <1>8, <1>9, <1>12, <3>1
  <2>3. \A p \in DOMAIN d.code : \E x \in Code : d.code[p].first = x.first /\ d.code[p].last = x.last
    BY <1>5, <1>10, <1>12 DEF Typed
  <2> QED BY <1>11, <1>12, <2>1, <2>2, <2>3 DEF Typed
<1>14. Linked(d)
  <2> SUFFICES ASSUME NEW s \in DOMAIN d.code, d.code[s].jump # None
               PROVE  /\ d.code[s].jump \in DOMAIN d.code
                      /\ d.code[d.code[s].jump].first = d.code[s].target
                      /\ d.code[d.code[s].jump].mode = d.code[s].mode
                      /\ Site(s) \in d.code[d.code[s].jump].uses
    BY DEF Linked
  <2>1. PICK j : j = d.code[s].jump
    OBVIOUS
  <2>2. s \in DOMAIN c.code /\ d.code[s] = c.code[s]
    BY <1>10, <1>12
  <2>3. /\ j \in DOMAIN c.code /\ c.code[j].first = c.code[s].target
        /\ c.code[j].mode = c.code[s].mode /\ Site(s) \in c.code[j].uses
    BY <1>5, <2>1, <2>2 DEF Linked
  <2> QED BY <1>12, <2>1, <2>2, <2>3
<1>15. Sound(Now)'
  <2>1. Linked(d)'
    BY <1>8, <1>14, LinksStay, SitesStay
  <2> QED BY <1>12, <1>13, <2>1, NewContents
<1>16. HeapInv'
  <2>1. Tiles(heap)' /\ (ptr \in DOMAIN heap \cup {Units})'
    BY <1>1, <1>3, <1>8 DEF Tiles
  <2>2. Underway'
    BY <1>3, <1>8 DEF Underway
  <2>3. CodeInHeap'
    BY <1>1, <1>3, <1>5, <1>8 DEF CodeInHeap
  <2> QED BY <2>1, <2>2, <2>3 DEF HeapInv
<1>17. Pending'
  <2>1. ASSUME NEW q \in DOMAIN d.code \ {at}, Site(q) \in from
        PROVE  d.code[q].target = new.first /\ d.code[q].mode = new.mode
    <3>1. q \in DOMAIN c.code /\ q \in DOMAIN code /\ d.code[q] = c.code[q] /\ Same(code[q], c.code[q])
      BY <1>1, <1>5, <1>12 DEF Shrunk
    <3> QED BY <1>10, <2>1, <3>1 DEF Same
  <2>2. \A q : Site(q)' = Site(q)
    BY <1>8, SitesStay
  <2>3. PICK t : t = [at |-> at, ask |-> ask, from |-> from]
    OBVIOUS
  <2>4. busy' = {t} /\ t.at = at /\ t.from = from
    BY <1>8, <2>3
  <2> QED BY <1>10, <1>12, <2>1, <2>2, <2>4 DEF Pending
<1> QED BY <1>15, <1>16, <1>17 DEF CacheInv

LEMMA StartBlockSafe ==
  ASSUME CacheInv, NEW b \in Code, NEW m \in Modes, NEW ask \in 1 .. MaxAsk,
         StartBlock(b, m, ask)
  PROVE  CacheInv'
BY StartSafe DEF StartBlock, Idle

LEMMA LinkTranslateSafe ==
  ASSUME CacheInv, NEW s \in DOMAIN code, NEW b \in Code, NEW ask \in 1 .. MaxAsk,
         LinkTranslate(s, b, ask)
  PROVE  CacheInv'
<1>1. /\ busy = {} /\ b.first = code[s].target
      /\ Start(b, code[s].mode, ask, {Site(s)})
  BY DEF LinkTranslate, Linking, Idle
<1>2. /\ code[s] \in Block /\ Tiles(heap) /\ DOMAIN code \subseteq DOMAIN heap
  BY NowFacts
<1>3. code[s].mode \in Modes
  BY <1>2 DEF Block
<1>4. Site(s) \in Nat
  BY <1>2, TilesFacts
<1>5. ASSUME NEW q \in DOMAIN code, Site(q) \in {Site(s)}
      PROVE  code[q].target = b.first /\ code[q].mode = code[s].mode
  <2>1. q = s
    BY <1>2, <1>5, TilesFacts
  <2> QED BY <1>1, <2>1
<1>6. {Site(s)} \in SUBSET Nat
  BY <1>4
<1> QED BY <1>1, <1>3, <1>5, <1>6, StartSafe

(* An exit is patched to jump to the translation that was found.           *)
LEMMA LinkFoundSafe ==
  ASSUME CacheInv, NEW s \in DOMAIN code, LinkFound(s)
  PROVE  CacheInv'
<1>1. PICK t \in Find(code[s].target, code[s].mode) : code' = Patched(code, s, t)
  BY DEF LinkFound
<1>2. /\ busy = {} /\ Leads(Now, code[s].target)
      /\ heap' = heap /\ lut' = lut /\ ptr' = ptr /\ busy' = busy
  BY DEF LinkFound, Linking, Idle
<1>3. /\ Tiles(heap) /\ ptr \in DOMAIN heap \cup {Units} /\ DOMAIN code \subseteq DOMAIN heap
      /\ code \in [DOMAIN code -> Block] /\ lut \in [Word -> Entry]
      /\ \A p \in DOMAIN code : /\ p \in Nat
                                /\ \E b \in Code : code[p].first = b.first /\ code[p].last = b.last
      /\ Sound(Now) /\ Now.code = code
  BY NowFacts
<1>4. t \in DOMAIN code /\ code[t].first = code[s].target /\ code[t].mode = code[s].mode
  BY <1>1, <1>2, <1>3 DEF Find, Leads
<1>5. PICK u \in Nat : u = Site(s)
  BY <1>3, TilesFacts
<1>6. PICK x : x = [code EXCEPT ![s].jump = t]
  OBVIOUS
<1>7. /\ x \in [DOMAIN code -> Block] /\ x[s].jump = t
      /\ \A q \in DOMAIN code : /\ q # s => x[q] = code[q]
                                /\ x[q].uses = code[q].uses /\ x[q].first = code[q].first
                                /\ x[q].last = code[q].last /\ x[q].target = code[q].target
                                /\ x[q].mode = code[q].mode
  <2>1. PICK y : y = [code[s] EXCEPT !.jump = t]
    OBVIOUS
  <2>2. code[s] \in Block /\ t \in Int
    BY <1>3, <1>4
  <2>3. y \in Block
    BY <2>1, <2>2 DEF Block
  <2>4. /\ y.jump = t /\ y.uses = code[s].uses /\ y.first = code[s].first
        /\ y.last = code[s].last /\ y.target = code[s].target /\ y.mode = code[s].mode
    BY <2>1, <2>2 DEF Block
  <2>5. x = [code EXCEPT ![s] = y]
    BY <1>6, <2>1
  <2> QED BY <1>3, <2>3, <2>4, <2>5
<1>8. code' = [x EXCEPT ![t].uses = @ \cup {u}]
  BY <1>1, <1>5, <1>6 DEF Patched
<1>9. /\ code' \in [DOMAIN code -> Block] /\ u \in code'[t].uses
      /\ \A q \in DOMAIN code : /\ q # t => code'[q] = x[q]
                                /\ x[q].uses \subseteq code'[q].uses /\ code'[q].first = x[q].first
                                /\ code'[q].last = x[q].last /\ code'[q].target = x[q].target
                                /\ code'[q].mode = x[q].mode /\ code'[q].jump = x[q].jump
  <2>1. PICK y : y = [x[t] EXCEPT !.uses = @ \cup {u}]
    OBVIOUS
  <2>2. x[t] \in Block
    BY <1>4, <1>7
  <2>3. y \in Block
    BY <2>1, <2>2 DEF Block
  <2>4. /\ y.jump = x[t].jump /\ y.uses = x[t].uses \cup {u} /\ y.first = x[t].first
        /\ y.last = x[t].last /\ y.target = x[t].target /\ y.mode = x[t].mode
    BY <2>1, <2>2 DEF Block
  <2>5. code' = [x EXCEPT ![t] = y]
    BY <1>8, <2>1
  <2> QED BY <1>4, <1>7, <2>3, <2>4, <2>5
<1>10. PICK d : d = [code |-> code', lut |-> lut', wild |-> wild']
  OBVIOUS
<1>11. d.code = code' /\ d.lut = lut'
  BY <1>10
<1>12. Typed(d)
  <2>1. \A p \in DOMAIN code : \E b \in Code : code'[p].first = b.first /\ code'[p].last = b.last
    BY <1>3, <1>7, <1>9
  <2> QED BY <1>2, <1>3, <1>9, <1>10, <1>11, <2>1 DEF Typed
<1>13. Linked(d)
  <2> SUFFICES ASSUME NEW q \in DOMAIN d.code, d.code[q].jump # None
               PROVE  /\ d.code[q].jump \in DOMAIN d.code
                      /\ d.code[d.code[q].jump].first = d.code[q].target
                      /\ d.code[d.code[q].jump].mode = d.code[q].mode
                      /\ Site(q) \in d.code[d.code[q].jump].uses
    BY DEF Linked
  <2>1. PICK j : j = d.code[q].jump
    OBVIOUS
  <2>2. q \in DOMAIN code /\ DOMAIN d.code = DOMAIN code
    BY <1>9, <1>11
  <2>3. CASE q = s
    <3>1. j = t
      BY <1>7, <1>9, <1>11, <2>1, <2>2, <2>3
    <3> QED BY <1>4, <1>5, <1>7, <1>9, <1>11, <2>1, <2>2, <2>3, <3>1
  <2>4. CASE q # s
    <3>1. j = code[q].jump
      BY <1>7, <1>9, <1>11, <2>1, <2>2, <2>4
    <3>2. /\ j \in DOMAIN code /\ code[j].first = code[q].target
          /\ code[j].mode = code[q].mode /\ Site(q) \in code[j].uses
      BY <1>3, <2>1, <2>2, <3>1 DEF Sound, Linked
    <3> QED BY <1>7, <1>9, <1>11, <2>1, <2>2, <3>2
  <2> QED BY <2>3, <2>4
<1>14. Sound(Now)'
  <2>1. Linked(d)'
    BY <1>2, <1>13, LinksStay, SitesStay
  <2> QED BY <1>11, <1>12, <2>1, NewContents
<1>15. HeapInv'
  BY <1>2, <1>3, <1>9 DEF HeapInv, Tiles, Underway, CodeInHeap
<1>16. Pending'
  BY <1>2 DEF Pending
<1> QED BY <1>14, <1>15, <1>16 DEF CacheInv

(* A translation takes in the block that follows.                          *)
LEMMA ExtendSafe ==
  ASSUME CacheInv, ExtendBlock
  PROVE  CacheInv'
<1>1. PICK t \in busy :
        /\ ptr # Units
        /\ Becomes(Evicted(Now, ptr))
        /\ heap' = [p \in DOMAIN heap \ {ptr} |->
                       IF p = t.at THEN heap[p] + heap[ptr] ELSE heap[p]]
        /\ ptr' = ptr + heap[ptr]
  BY DEF ExtendBlock
<1>2. busy' = busy
  BY DEF ExtendBlock
<1>3. /\ Tiles(heap) /\ ptr \in DOMAIN heap /\ DOMAIN code \subseteq DOMAIN heap
      /\ Sound(Now) /\ Now.code = code
  BY <1>1, NowFacts
<1>4. PICK a, b : a = t.at /\ b = ptr
  OBVIOUS
<1>5. /\ a \in DOMAIN heap /\ b \in DOMAIN heap /\ a + heap[a] = b /\ a # b
      /\ busy \subseteq [at : Nat, ask : 1 .. MaxAsk, from : SUBSET Nat] /\ busy = {t}
  <2>1. /\ a \in DOMAIN heap /\ a + heap[a] = b
        /\ busy \subseteq [at : Nat, ask : 1 .. MaxAsk, from : SUBSET Nat] /\ busy = {t}
    BY <1>1, <1>4 DEF CacheInv, HeapInv, Underway
  <2>2. a \in Nat /\ heap[a] \in Nat \ {0}
    BY <1>3, <2>1, TilesFacts, Sizes
  <2> QED BY <1>3, <1>4, <2>1, <2>2
<1>6. PICK c : c = Evicted(Now, b)
  OBVIOUS
<1>7. DOMAIN c.code = DOMAIN code \ {b} /\ Shrunk(Now, c) /\ Sound(c)
  BY <1>3, <1>6, EvictedFacts
<1>8. code' = c.code /\ lut' = c.lut
  BY <1>1, <1>4, <1>6 DEF Becomes
<1>9. /\ heap' = [p \in DOMAIN heap \ {b} |-> IF p = a THEN heap[p] + heap[b] ELSE heap[p]]
      /\ ptr' = b + heap[b]
  BY <1>1, <1>4
<1>10. Tiles(heap)'
  <2>1. Tiles([p \in DOMAIN heap \ {b} |-> IF p = a THEN heap[p] + heap[b] ELSE heap[p]])
    BY <1>3, <1>5, TilesJoin
  <2> QED BY <1>9, <2>1
<1>11. heap'[a] = heap[a] + heap[b] /\ \A q \in DOMAIN heap \ {a, b} : heap'[q] = heap[q]
  BY <1>5, <1>9
<1>12. a + heap'[a] = ptr'
  <2>1. heap[a] \in Nat /\ heap[b] \in Nat /\ a \in Nat
    BY <1>3, <1>5, TilesFacts, Sizes
  <2> QED BY <1>5, <1>9, <1>11, <2>1
<1>13. /\ a \in DOMAIN code /\ code[a].jump = None /\ code[a].uses = {}
       /\ \A q \in DOMAIN code \ {a} : Site(q) \in t.from =>
             code[q].target = code[a].first /\ code[q].mode = code[a].mode
  BY <1>1, <1>4 DEF CacheInv, Pending
<1>14. /\ a \in DOMAIN c.code /\ c.code[a].jump = None /\ c.code[a].uses = {}
       /\ c.code[a].first = code[a].first /\ c.code[a].mode = code[a].mode
  BY <1>3, <1>5, <1>7, <1>13 DEF Shrunk, Same
<1>15. \A q \in DOMAIN c.code \ {a} : Site(q)' = Site(q)
  BY <1>3, <1>7, <1>11 DEF Site
<1>16. Sound(Now)'
  <2>1. Linked(c)'
    BY <1>7, <1>14, <1>15, LinksStay DEF Sound
  <2> QED BY <1>7, <1>8, <2>1, NewContents DEF Sound
<1>17. HeapInv'
  <2>1. ptr' \in DOMAIN heap' \cup {Units}
    <3>1. a \in DOMAIN heap'
      BY <1>5, <1>9
    <3> QED BY <1>10, <1>12, <3>1 DEF Tiles
  <2>2. Underway'
    BY <1>2, <1>4, <1>5, <1>9, <1>12 DEF Underway
  <2>3. CodeInHeap'
    BY <1>3, <1>7, <1>8, <1>9 DEF CodeInHeap
  <2> QED BY <1>10, <2>1, <2>2, <2>3 DEF HeapInv
<1>18. Pending'
  <2>1. ASSUME NEW q \in DOMAIN c.code \ {a}, Site(q) \in t.from
        PROVE  c.code[q].target = c.code[a].first /\ c.code[q].mode = c.code[a].mode
    <3>1. q \in DOMAIN code \ {a} /\ Same(code[q], c.code[q])
      BY <1>3, <1>7 DEF Shrunk
    <3> QED BY <1>13, <1>14, <2>1, <3>1 DEF Same
  <2> QED BY <1>2, <1>4, <1>5, <1>8, <1>14, <1>15, <2>1 DEF Pending
<1> QED BY <1>16, <1>17, <1>18 DEF CacheInv

(* A translation at the end of the cache moves to the front.               *)
LEMMA MigrateSafe ==
  ASSUME CacheInv, MigrateBlock
  PROVE  CacheInv'
<1>1. PICK t \in busy : \E e, left :
        /\ e = Min({p \in DOMAIN heap \cup {Units} : p >= heap[t.at] + MinTotal})
        /\ left = [Now EXCEPT !.code = Restrict(@, DOMAIN @ \ {t.at})]
        /\ Short(t) /\ ptr = Units
        /\ Becomes(Moved(t, FrontEvicted(left, e)))
        /\ heap' = [p \in {0} \cup {q \in DOMAIN heap : q >= e} |-> IF p = 0 THEN e ELSE heap[p]]
        /\ ptr' = e
        /\ busy' = {[t EXCEPT !.at = 0]}
  BY DEF MigrateBlock
<1>0. PICK e, left :
        /\ e = Min({p \in DOMAIN heap \cup {Units} : p >= heap[t.at] + MinTotal})
        /\ left = [Now EXCEPT !.code = Restrict(@, DOMAIN @ \ {t.at})]
        /\ Short(t) /\ ptr = Units
        /\ Becomes(Moved(t, FrontEvicted(left, e)))
        /\ heap' = [p \in {0} \cup {q \in DOMAIN heap : q >= e} |-> IF p = 0 THEN e ELSE heap[p]]
        /\ ptr' = e
        /\ busy' = {[t EXCEPT !.at = 0]}
  BY <1>1
<1>2. /\ HeapInv /\ Pending /\ Tiles(heap) /\ DOMAIN code \subseteq DOMAIN heap
      /\ code \in [DOMAIN code -> Block] /\ lut \in [Word -> Entry]
      /\ \A p \in DOMAIN code : /\ p \in Nat
                                /\ \E b \in Code : code[p].first = b.first /\ code[p].last = b.last
      /\ Sound(Now) /\ Linked(Now) /\ Now.code = code
  BY NowFacts DEF CacheInv, Sound
<1>3. e \in DOMAIN heap \cup {Units} /\ e > heap[t.at] /\ e <= t.at
  BY <1>0, <1>2, RoomInFront
<1>4. PICK a : a = t.at
  OBVIOUS
<1>5. /\ a \in DOMAIN code /\ code[a].jump = None /\ code[a].uses = {}
      /\ \A q \in DOMAIN code \ {a} : Site(q) \in t.from =>
            code[q].target = code[a].first /\ code[q].mode = code[a].mode
      /\ t \in [at : Nat, ask : 1 .. MaxAsk, from : SUBSET Nat]
  BY <1>0, <1>2, <1>4 DEF Pending, HeapInv, Underway
<1>6. e \in Nat \ {0} /\ a \in Nat
  <2>1. heap[a] \in Nat \ {0} /\ a \in Nat
    BY <1>2, <1>5, TilesFacts, Sizes
  <2>2. e \in Int
    BY <1>2, <1>3, TilesFacts, Sizes
  <2> QED BY <1>3, <1>4, <2>1, <2>2
<1>7. /\ left = [code |-> left.code, lut |-> lut, wild |-> wild]
      /\ left.code = [p \in DOMAIN code \ {a} |-> code[p]]
  BY <1>0, <1>4 DEF Now, Restrict
<1>8. Sound(left)
  <2>1. DOMAIN left.code = DOMAIN code \ {a} /\ \A q \in DOMAIN code \ {a} : left.code[q] = code[q]
    BY <1>7
  <2>2. Typed(left)
    <3>1. left.code \in [DOMAIN left.code -> Block] /\ left.lut = lut
      BY <1>2, <1>7, <2>1
    <3> QED BY <1>2, <1>7, <2>1, <3>1 DEF Typed
  <2>3. Linked(left)
    <3> SUFFICES ASSUME NEW s \in DOMAIN left.code, left.code[s].jump # None
                 PROVE  /\ left.code[s].jump \in DOMAIN left.code
                        /\ left.code[left.code[s].jump].first = left.code[s].target
                        /\ left.code[left.code[s].jump].mode = left.code[s].mode
                        /\ Site(s) \in left.code[left.code[s].jump].uses
      BY DEF Linked
    <3>1. PICK j : j = code[s].jump
      OBVIOUS
    <3>2. /\ j \in DOMAIN code /\ code[j].first = code[s].target
          /\ code[j].mode = code[s].mode /\ Site(s) \in code[j].uses
      BY <1>2, <2>1, <3>1 DEF Linked
    <3>3. j # a
      BY <1>5, <3>2
    <3> QED BY <2>1, <3>1, <3>2, <3>3
  <2> QED BY <2>2, <2>3 DEF Sound
<1>9. PICK c : c = FrontEvicted(left, e)
  OBVIOUS
<1>10. /\ DOMAIN c.code = DOMAIN left.code \ 0 .. e - 1
       /\ Shrunk(left, c) /\ Typed(c) /\ Linked(c)
  BY <1>6, <1>8, <1>9, FrontEvictedFacts DEF Sound
<1>11. /\ DOMAIN c.code \subseteq DOMAIN code \ {a} /\ 0 \notin DOMAIN c.code
       /\ \A q \in DOMAIN c.code : q >= e /\ Same(code[q], c.code[q])
  BY <1>2, <1>6, <1>7, <1>10 DEF Shrunk
<1>12. PICK d : d = Moved(t, c)
  OBVIOUS
<1>13. /\ d = [code |-> d.code, lut |-> d.lut, wild |-> d.wild]
       /\ d.code = [p \in DOMAIN c.code \cup {0} |-> IF p = 0 THEN code[a] ELSE c.code[p]]
       /\ d.lut = [c.lut EXCEPT ![code[a].first] = [code |-> 0, used |-> FALSE]]
  <2>1. c = [code |-> c.code, lut |-> c.lut, wild |-> c.wild]
    BY <1>10 DEF Typed
  <2> QED BY <1>4, <1>12, <2>1 DEF Moved
<1>14. /\ DOMAIN d.code = DOMAIN c.code \cup {0} /\ d.code[0] = code[a]
       /\ \A q \in DOMAIN c.code : d.code[q] = c.code[q] /\ q # 0
  BY <1>11, <1>13
<1>15. Typed(d)
  <2>1. d.code \in [DOMAIN d.code -> Block]
    <3>1. \A q \in DOMAIN d.code : d.code[q] \in Block
      BY <1>2, <1>5, <1>10, <1>14 DEF Typed
    <3> QED BY <1>13, <1>14, <3>1
  <2>2. d.lut \in [Word -> Entry]
    <3>1. PICK u \in BOOLEAN : u = FALSE
      OBVIOUS
    <3>2. [code |-> 0, used |-> u] \in Entry
      BY DEF Entry
    <3> QED BY <1>10, <1>13, <3>1, <3>2 DEF Typed
  <2>3. \A p \in DOMAIN d.code : \E x \in Code : d.code[p].first = x.first /\ d.code[p].last = x.last
    BY <1>2, <1>5, <1>10, <1>14 DEF Typed
  <2> QED BY <1>13, <2>1, <2>2, <2>3 DEF Typed
<1>16. Linked(d)
  <2> SUFFICES ASSUME NEW s \in DOMAIN d.code, d.code[s].jump # None
               PROVE  /\ d.code[s].jump \in DOMAIN d.code
                      /\ d.code[d.code[s].jump].first = d.code[s].target
                      /\ d.code[d.code[s].jump].mode = d.code[s].mode
                      /\ Site(s) \in d.code[d.code[s].jump].uses
    BY DEF Linked
  <2>1. PICK j : j = d.code[s].jump
    OBVIOUS
  <2>2. s \in DOMAIN c.code /\ d.code[s] = c.code[s]
    BY <1>5, <1>14
  <2>3. /\ j \in DOMAIN c.code /\ c.code[j].first = c.code[s].target
        /\ c.code[j].mode = c.code[s].mode /\ Site(s) \in c.code[j].uses
    BY <1>10, <2>1, <2>2 DEF Linked
  <2> QED BY <1>14, <2>1, <2>2, <2>3
<1>17. code' = d.code /\ lut' = d.lut
  BY <1>0, <1>9, <1>12 DEF Becomes
<1>18. /\ DOMAIN heap' = {0} \cup {q \in DOMAIN heap : q >= e} /\ heap'[0] = e
       /\ \A q \in DOMAIN heap' \ {0} : heap'[q] = heap[q]
  BY <1>0
<1>19. \A q \in DOMAIN c.code : Site(q)' = Site(q)
  BY <1>2, <1>11, <1>18 DEF Site
<1>20. Sound(Now)'
  <2>1. \A q \in DOMAIN d.code : d.code[q].jump # None => Site(q)' = Site(q)
    BY <1>5, <1>14, <1>19
  <2>2. Linked(d)'
    BY <1>16, <2>1, LinksStay
  <2> QED BY <1>15, <1>17, <2>2, NewContents
<1>21. PICK u : u = [t EXCEPT !.at = 0]
  OBVIOUS
<1>22. /\ busy' = {u} /\ u \in [at : Nat, ask : 1 .. MaxAsk, from : SUBSET Nat]
       /\ u.at = 0 /\ u.from = t.from
  BY <1>0, <1>5, <1>21
<1>23. HeapInv'
  <2>1. Tiles(heap)'
    <3>1. Tiles([p \in {0} \cup {q \in DOMAIN heap : q >= e} |-> IF p = 0 THEN e ELSE heap[p]])
      BY <1>2, <1>3, <1>6, TilesFront, SMTT(30)
    <3> QED BY <1>0, <3>1
  <2>2. ptr' \in DOMAIN heap' \cup {Units}
    BY <1>0, <1>3, <1>6, <1>18
  <2>3. Underway'
    BY <1>0, <1>6, <1>18, <1>22 DEF Underway
  <2>4. CodeInHeap'
    BY <1>2, <1>11, <1>14, <1>17, <1>18 DEF CodeInHeap
  <2> QED BY <2>1, <2>2, <2>3, <2>4 DEF HeapInv
<1>24. Pending'
  <2>1. ASSUME NEW q \in DOMAIN d.code \ {0}, Site(q)' \in u.from
        PROVE  d.code[q].target = d.code[0].first /\ d.code[q].mode = d.code[0].mode
    <3>1. q \in DOMAIN c.code /\ d.code[q] = c.code[q] /\ q \in DOMAIN code \ {a}
      BY <1>11, <1>14
    <3>2. Site(q) \in t.from
      BY <1>19, <1>22, <2>1, <3>1
    <3> QED BY <1>5, <1>11, <1>14, <3>1, <3>2 DEF Same
  <2> QED BY <1>5, <1>14, <1>17, <1>22, <2>1 DEF Pending
<1> QED BY <1>20, <1>23, <1>24 DEF CacheInv

(* A translation is done: what it does not use is cut off, and the exit    *)
(* that asked for it jumps there.                                          *)
LEMMA CommitSafe ==
  ASSUME CacheInv, NEW size \in 1 .. MaxAsk, CommitBlock(size)
  PROVE  CacheInv'
<1>1. PICK t \in busy :
        /\ ~Short(t) /\ size <= t.ask
        /\ heap' = Cut(t.at, size)
        /\ ptr' = t.at + heap'[t.at]
        /\ lut' = [w \in Word |-> IF w \in Marks(code[t.at]) THEN [lut[w] EXCEPT !.used = TRUE] ELSE lut[w]]
        /\ code' = [p \in DOMAIN code |->
                       IF p = t.at THEN [code[t.at] EXCEPT !.uses = t.from]
                       ELSE IF p \in {s \in DOMAIN code \ {t.at} : Site(s) \in t.from}
                            THEN [code[p] EXCEPT !.jump = t.at]
                       ELSE code[p]]
  BY Zenon DEF CommitBlock
<1>2. busy' = {}
  BY DEF CommitBlock
<1>3. /\ HeapInv /\ Pending /\ Tiles(heap) /\ DOMAIN code \subseteq DOMAIN heap
      /\ code \in [DOMAIN code -> Block] /\ lut \in [Word -> Entry]
      /\ \A p \in DOMAIN code : /\ p \in Nat
                                /\ \E b \in Code : code[p].first = b.first /\ code[p].last = b.last
      /\ Linked(Now) /\ Now.code = code
  BY NowFacts DEF CacheInv, Sound
<1>4. PICK a, x : a = t.at /\ x = code[t.at]
  OBVIOUS
<1>5. /\ a \in DOMAIN code /\ x \in Block /\ x.jump = None /\ x.uses = {}
      /\ \A q \in DOMAIN code \ {a} : Site(q) \in t.from =>
            code[q].target = x.first /\ code[q].mode = x.mode
      /\ t \in [at : Nat, ask : 1 .. MaxAsk, from : SUBSET Nat]
      /\ a \in DOMAIN heap /\ a \in Nat /\ heap[a] \in Nat \ {0}
  <2>1. /\ a \in DOMAIN code /\ x.jump = None /\ x.uses = {}
        /\ \A q \in DOMAIN code \ {a} : Site(q) \in t.from =>
              code[q].target = x.first /\ code[q].mode = x.mode
        /\ t \in [at : Nat, ask : 1 .. MaxAsk, from : SUBSET Nat]
    BY <1>1, <1>3, <1>4 DEF Pending, HeapInv, Underway
  <2> QED BY <1>1, <1>3, <1>4, <2>1, TilesFacts, Sizes
<1>6. PICK y : y = [x EXCEPT !.uses = t.from]
  OBVIOUS
<1>7. y \in Block
  BY <1>5, <1>6 DEF Block
<1>8. /\ y.uses = t.from /\ y.jump = x.jump /\ y.first = x.first /\ y.last = x.last
      /\ y.mode = x.mode /\ y.target = x.target
  BY <1>5, <1>6 DEF Block
<1>9. PICK d : d = [code |-> code', lut |-> lut', wild |-> wild']
  OBVIOUS
<1>10. d.code = code' /\ d.lut = lut' /\ DOMAIN d.code = DOMAIN code /\ d.code[a] = y
  BY <1>1, <1>4, <1>5, <1>6, <1>9
<1>11. ASSUME NEW q \in DOMAIN code \ {a}
       PROVE  /\ d.code[q] \in Block /\ d.code[q].uses = code[q].uses
              /\ d.code[q].first = code[q].first /\ d.code[q].last = code[q].last
              /\ d.code[q].target = code[q].target /\ d.code[q].mode = code[q].mode
              /\ d.code[q].jump = IF Site(q) \in t.from THEN a ELSE code[q].jump
  <2>1. code[q] \in Block
    BY <1>3
  <2>2. CASE Site(q) \in t.from
    <3>1. PICK z : z = [code[q] EXCEPT !.jump = a]
      OBVIOUS
    <3>2. d.code[q] = z
      BY <1>1, <1>4, <1>10, <2>2, <3>1
    <3>3. a \in Int
      BY <1>5
    <3>4. z \in Block
      BY <2>1, <3>1, <3>3 DEF Block
    <3>5. /\ z.uses = code[q].uses /\ z.first = code[q].first /\ z.last = code[q].last
          /\ z.target = code[q].target /\ z.mode = code[q].mode /\ z.jump = a
      BY <2>1, <3>1 DEF Block
    <3> QED BY <2>2, <3>2, <3>4, <3>5
  <2>3. CASE Site(q) \notin t.from
    <3>1. d.code[q] = code[q]
      BY <1>1, <1>4, <1>10, <2>3
    <3> QED BY <2>1, <2>3, <3>1
  <2> QED BY <2>2, <2>3
<1>12. Typed(d)
  <2>1. d.code \in [DOMAIN d.code -> Block]
    <3>1. \A q \in DOMAIN d.code : d.code[q] \in Block
      BY <1>7, <1>10, <1>11
    <3>2. d.code = [q \in DOMAIN d.code |-> d.code[q]]
      BY <1>1, <1>10
    <3> QED BY <3>1, <3>2
  <2>2. d.lut \in [Word -> Entry]
    <3>1. ASSUME NEW w \in Word PROVE [lut[w] EXCEPT !.used = TRUE] \in Entry
      <4>1. PICK u \in BOOLEAN : u = TRUE
        OBVIOUS
      <4>2. lut[w] \in Entry
        BY <1>3
      <4>3. [lut[w] EXCEPT !.used = u] \in Entry
        BY <4>2 DEF Entry
      <4> QED BY <4>1, <4>3
    <3> QED BY <1>1, <1>3, <1>10, <3>1
  <2>3. \A p \in DOMAIN d.code : \E b \in Code : d.code[p].first = b.first /\ d.code[p].last = b.last
    BY <1>1, <1>3, <1>4, <1>5, <1>8, <1>10, <1>11
  <2> QED BY <1>9, <1>10, <2>1, <2>2, <2>3 DEF Typed
<1>13. Linked(d)
  <2> SUFFICES ASSUME NEW s \in DOMAIN d.code, d.code[s].jump # None
               PROVE  /\ d.code[s].jump \in DOMAIN d.code
                      /\ d.code[d.code[s].jump].first = d.code[s].target
                      /\ d.code[d.code[s].jump].mode = d.code[s].mode
                      /\ Site(s) \in d.code[d.code[s].jump].uses
    BY DEF Linked
  <2>1. s \in DOMAIN code \ {a}
    BY <1>5, <1>8, <1>10
  <2>2. PICK j : j = d.code[s].jump
    OBVIOUS
  <2>3. CASE Site(s) \in t.from
    <3>1. j = a
      BY <1>11, <2>1, <2>2, <2>3
    <3> QED BY <1>5, <1>8, <1>10, <1>11, <2>1, <2>2, <2>3, <3>1
  <2>4. CASE Site(s) \notin t.from
    <3>1. j = code[s].jump
      BY <1>11, <2>1, <2>2, <2>4
    <3>2. /\ j \in DOMAIN code /\ code[j].first = code[s].target
          /\ code[j].mode = code[s].mode /\ Site(s) \in code[j].uses
      BY <1>3, <2>1, <2>2, <3>1 DEF Linked
    <3>3. j # a
      BY <1>1, <1>4, <1>5, <3>2
    <3> QED BY <1>10, <1>11, <2>1, <2>2, <3>2, <3>3
  <2> QED BY <2>3, <2>4
<1>14. /\ Tiles(heap)' /\ DOMAIN heap \subseteq DOMAIN heap'
       /\ \A q \in DOMAIN heap \ {a} : heap'[q] = heap[q]
  <2>1. CASE heap[a] > size + MinTotal
    <3>1. heap' = [q \in DOMAIN heap \cup {a + size} |->
                     IF q = a THEN size ELSE IF q = a + size THEN heap[a] - size ELSE heap[q]]
      BY <1>1, <1>4, <2>1 DEF Cut
    <3>2. size \in Nat \ {0} /\ size < heap[a]
      BY <1>5, <2>1, Sizes DEF MinTotal
    <3>3. Tiles([q \in DOMAIN heap \cup {a + size} |->
                   IF q = a THEN size ELSE IF q = a + size THEN heap[a] - size ELSE heap[q]])
      BY <1>3, <1>5, <3>2, TilesCut
    <3>4. a + size \notin DOMAIN heap
      <4>1. a + size \in DOMAIN heap => a + size >= a + heap[a]
        BY <1>3, <1>5, <3>2 DEF Tiles
      <4> QED BY <1>5, <3>2, <4>1
    <3> QED BY <3>1, <3>3, <3>4
  <2>2. CASE ~(heap[a] > size + MinTotal)
    <3>1. heap' = heap
      BY <1>1, <1>4, <2>2 DEF Cut
    <3> QED BY <1>3, <3>1
  <2> QED BY <2>1, <2>2
<1>15. Sound(Now)'
  <2>1. \A q \in DOMAIN d.code : d.code[q].jump # None => Site(q)' = Site(q)
    BY <1>3, <1>5, <1>8, <1>10, <1>14 DEF Site
  <2>2. Linked(d)'
    BY <1>13, <2>1, LinksStay
  <2> QED BY <1>10, <1>12, <2>2, NewContents
<1>16. HeapInv'
  <2>1. ptr' \in DOMAIN heap' \cup {Units}
    BY <1>1, <1>4, <1>5, <1>14 DEF Tiles
  <2>2. Underway' /\ CodeInHeap'
    BY <1>2, <1>3, <1>10, <1>14 DEF Underway, CodeInHeap
  <2> QED BY <1>14, <2>1, <2>2 DEF HeapInv
<1>17. Pending'
  BY <1>2 DEF Pending
<1> QED BY <1>15, <1>16, <1>17 DEF CacheInv

(* The program writes: what it flushes is gone, what is left may be stale. *)
LEMMA WrittenFacts ==
  ASSUME NEW c, Sound(c), NEW ws, Written(c, ws)
  PROVE  /\ DOMAIN code' = DOMAIN c.code /\ lut' = c.lut
         /\ \A q \in DOMAIN c.code :
              /\ code'[q] \in Block
              /\ code'[q].first = c.code[q].first /\ code'[q].last = c.code[q].last
              /\ code'[q].target = c.code[q].target /\ code'[q].mode = c.code[q].mode
              /\ code'[q].chain = c.code[q].chain /\ code'[q].jump = c.code[q].jump
              /\ code'[q].uses = c.code[q].uses
              /\ code'[q].stale => \/ c.code[q].stale
                                   \/ (c.code[q].first .. c.code[q].last) \cap ws # {}
         /\ code' = [q \in DOMAIN c.code |-> code'[q]]
<1>1. /\ code' = [p \in DOMAIN c.code |->
                    IF (c.code[p].first .. c.code[p].last) \cap ws # {}
                    THEN [c.code[p] EXCEPT !.stale = TRUE] ELSE c.code[p]]
      /\ lut' = c.lut
  BY DEF Written
<1>2. c.code \in [DOMAIN c.code -> Block]
  BY DEF Sound, Typed
<1>3. ASSUME NEW q \in DOMAIN c.code
      PROVE  /\ code'[q] \in Block
             /\ code'[q].first = c.code[q].first /\ code'[q].last = c.code[q].last
             /\ code'[q].target = c.code[q].target /\ code'[q].mode = c.code[q].mode
             /\ code'[q].chain = c.code[q].chain /\ code'[q].jump = c.code[q].jump
             /\ code'[q].uses = c.code[q].uses
             /\ code'[q].stale => \/ c.code[q].stale
                                  \/ (c.code[q].first .. c.code[q].last) \cap ws # {}
  <2>1. PICK x \in Block : x = c.code[q]
    BY <1>2
  <2>2. CASE (c.code[q].first .. c.code[q].last) \cap ws # {}
    <3>1. PICK u \in BOOLEAN : u = TRUE
      OBVIOUS
    <3>2. PICK y : y = [x EXCEPT !.stale = u]
      OBVIOUS
    <3>3. code'[q] = y
      BY <1>1, <2>1, <2>2, <3>1, <3>2
    <3>4. y \in Block
      BY <3>2 DEF Block
    <3>5. /\ y.first = x.first /\ y.last = x.last /\ y.target = x.target /\ y.mode = x.mode
          /\ y.chain = x.chain /\ y.jump = x.jump /\ y.uses = x.uses
      BY <3>2 DEF Block
    <3> QED BY <2>1, <2>2, <3>3, <3>4, <3>5
  <2>3. CASE ~((c.code[q].first .. c.code[q].last) \cap ws # {})
    <3>1. code'[q] = x
      BY <1>1, <2>1, <2>3
    <3> QED BY <2>1, <3>1
  <2> QED BY <2>2, <2>3
<1>4. DOMAIN code' = DOMAIN c.code /\ code' = [q \in DOMAIN c.code |-> code'[q]]
  BY <1>1
<1> QED BY <1>1, <1>3, <1>4

LEMMA WrittenSafe ==
  ASSUME CacheInv, busy = {}, NEW c, Flushes(Now, c), NEW ws, Written(c, ws)
  PROVE  CacheInv'
<1>1. heap' = heap /\ ptr' = ptr /\ busy' = busy
  BY DEF Written
<1>2. /\ Tiles(heap) /\ ptr \in DOMAIN heap \cup {Units} /\ DOMAIN code \subseteq DOMAIN heap
      /\ Now.code = code
  BY NowFacts
<1>3. Sound(c) /\ Typed(c) /\ Linked(c) /\ DOMAIN c.code \subseteq DOMAIN code
  BY <1>2 DEF Flushes, Sound, Shrunk
<1>4. /\ DOMAIN code' = DOMAIN c.code /\ lut' = c.lut
      /\ \A q \in DOMAIN c.code :
           /\ code'[q] \in Block
           /\ code'[q].first = c.code[q].first /\ code'[q].last = c.code[q].last
           /\ code'[q].target = c.code[q].target /\ code'[q].mode = c.code[q].mode
           /\ code'[q].jump = c.code[q].jump /\ code'[q].uses = c.code[q].uses
      /\ code' = [q \in DOMAIN c.code |-> code'[q]]
  BY <1>3, WrittenFacts
<1>5. PICK d : d = [code |-> code', lut |-> lut', wild |-> wild']
  OBVIOUS
<1>6. d.code = code' /\ d.lut = lut'
  BY <1>5
<1>7. Typed(d)
  <2>1. d.code \in [DOMAIN d.code -> Block]
    BY <1>4, <1>6
  <2>2. d.lut \in [Word -> Entry]
    BY <1>3, <1>4, <1>6 DEF Typed
  <2>3. \A p \in DOMAIN d.code : \E b \in Code : d.code[p].first = b.first /\ d.code[p].last = b.last
    BY <1>3, <1>4, <1>6 DEF Typed
  <2> QED BY <1>5, <1>6, <2>1, <2>2, <2>3 DEF Typed
<1>8. Linked(d)
  BY <1>3, <1>4, <1>6 DEF Linked
<1>9. Sound(Now)'
  <2>1. Linked(d)'
    BY <1>1, <1>8, LinksStay, SitesStay
  <2> QED BY <1>6, <1>7, <2>1, NewContents
<1>10. HeapInv'
  BY <1>1, <1>2, <1>3, <1>4 DEF HeapInv, Tiles, Underway, CodeInHeap
<1>11. Pending'
  BY <1>1 DEF Pending
<1> QED BY <1>9, <1>10, <1>11 DEF CacheInv

(* The cache is as empty as at the start.                                  *)
LEMMA EmptySafe ==
  ASSUME heap = OneFreeBlock, ptr = 0, code = NoCode, lut = NoEntries, busy = {}
  PROVE  CacheInv
<1>1. heap = [p \in {0} |-> Units] /\ DOMAIN code = {}
  BY DEF OneFreeBlock, NoCode
<1>2. HeapInv
  BY <1>1, Sizes DEF HeapInv, Tiles, Underway, CodeInHeap
<1>3. lut \in [Word -> Entry]
  <2>1. PICK n \in Int : n = None
    BY DEF None
  <2>2. PICK u \in BOOLEAN : u = FALSE
    OBVIOUS
  <2>3. Empty = [code |-> n, used |-> u]
    BY <2>1, <2>2 DEF Empty
  <2> QED BY <2>3 DEF NoEntries, Entry
<1>4. code \in [DOMAIN code -> Block]
  BY <1>1 DEF NoCode
<1>5. Sound(Now)
  BY <1>1, <1>3, <1>4 DEF Sound, Typed, Linked, Now
<1> QED BY <1>2, <1>5 DEF CacheInv, Pending

LEMMA InitSafe == Init => CacheInv
BY EmptySafe DEF Init

LEMMA FlushCacheSafe ==
  ASSUME FlushCache
  PROVE  CacheInv'
<1>1. heap' = OneFreeBlock /\ ptr' = 0 /\ code' = NoCode /\ lut' = NoEntries /\ busy' = {}
  BY DEF FlushCache, Idle
<1>2. DOMAIN code' = {} /\ heap' = [p \in {0} |-> Units]
  BY <1>1 DEF NoCode, OneFreeBlock
<1>3. HeapInv'
  BY <1>1, <1>2, Sizes DEF HeapInv, Tiles, Underway, CodeInHeap
<1>4. lut' \in [Word -> Entry]
  <2>1. PICK n \in Int : n = None
    BY DEF None
  <2>2. PICK u \in BOOLEAN : u = FALSE
    OBVIOUS
  <2>3. Empty = [code |-> n, used |-> u]
    BY <2>1, <2>2 DEF Empty
  <2> QED BY <1>1, <2>3 DEF NoEntries, Entry
<1>5. code' \in [DOMAIN code' -> Block]
  BY <1>1, <1>2 DEF NoCode
<1>6. Sound(Now)'
  BY <1>2, <1>4, <1>5 DEF Sound, Typed, Linked, Now
<1> QED BY <1>1, <1>3, <1>6 DEF CacheInv, Pending

LEMMA StutterSafe ==
  ASSUME CacheInv, UNCHANGED vars
  PROVE  CacheInv'
BY DEF CacheInv, HeapInv, Tiles, Underway, CodeInHeap, Sound, Typed, Linked, Now, Pending, Site, vars

LEMMA WordsWritten ==
  ASSUME CacheInv, NEW w \in Word
  PROVE  (WriteWord(w) => CacheInv') /\ (WriteLong(w) => CacheInv')
<1>1. Sound(Now)
  BY DEF CacheInv
<1>2. \A tested : Flushes(Now, Checked(w, tested))
  BY <1>1, CheckFlushes
<1> QED BY <1>2, WrittenSafe DEF WriteWord, WriteLong, Idle

LEMMA RegionWritten ==
  ASSUME CacheInv, NEW r \in Regions, WriteRegion(r)
  PROVE  CacheInv'
<1>1. Sound(Now)
  BY DEF CacheInv
<1>2. Flushes(Now, RegionFlushed(r))
  BY <1>1, RegionFlushes, FlushesTwice
<1> QED BY <1>2, WrittenSafe DEF WriteRegion, Idle

LEMMA StepSafe == CacheInv /\ [Next]_vars => CacheInv'
<1> SUFFICES ASSUME CacheInv, [Next]_vars PROVE CacheInv'
  OBVIOUS
<1>1. ASSUME NEW b \in Code, NEW m \in Modes, NEW ask \in 1 .. MaxAsk, StartBlock(b, m, ask)
      PROVE  CacheInv'
  BY <1>1, StartBlockSafe
<1>2. ASSUME NEW s \in DOMAIN code, LinkFound(s)
      PROVE  CacheInv'
  BY <1>2, LinkFoundSafe
<1>3. ASSUME NEW s \in DOMAIN code, NEW b \in Code, NEW ask \in 1 .. MaxAsk, LinkTranslate(s, b, ask)
      PROVE  CacheInv'
  BY <1>3, LinkTranslateSafe
<1>4. CASE ExtendBlock
  BY <1>4, ExtendSafe
<1>5. CASE MigrateBlock
  BY <1>5, MigrateSafe
<1>6. ASSUME NEW size \in 1 .. MaxAsk, CommitBlock(size)
      PROVE  CacheInv'
  BY <1>6, CommitSafe
<1>7. ASSUME NEW w \in Word, WriteWord(w) \/ WriteLong(w)
      PROVE  CacheInv'
  BY <1>7, WordsWritten
<1>8. ASSUME NEW r \in Regions, WriteRegion(r)
      PROVE  CacheInv'
  BY <1>8, RegionWritten
<1>9. CASE FlushCache
  BY <1>9, FlushCacheSafe
<1>10. CASE UNCHANGED vars
  BY <1>10, StutterSafe
<1> QED BY <1>1, <1>2, <1>3, <1>4, <1>5, <1>6, <1>7, <1>8, <1>9, <1>10 DEF Next

LEMMA CacheIsSafe == Spec => []CacheInv
<1>1. Init => CacheInv
  BY InitSafe
<1>2. CacheInv /\ [Next]_vars => CacheInv'
  BY StepSafe
<1> QED BY <1>1, <1>2, PTL DEF Spec

(* The blocks follow each other from the start of the cache to its end,    *)
(* through all growing, moving, cutting and evicting, for any modes of the *)
(* processor.  (xlat_check_cache_integrity)                                *)
THEOREM BlocksTile == Spec => []Tiling
<1>1. CacheInv => Tiling
  BY DEF CacheInv, HeapInv, Tiles, Tiling
<1> QED BY <1>1, CacheIsSafe, PTL

(* A patched exit leads to an active translation of its target, in its own *)
(* mode, that knows of the jump.  (sh4_translate_link_block,               *)
(* xlat_delete_block)                                                      *)
THEOREM JumpsAreTrue == Spec => []JumpsLead
<1>1. CacheInv => JumpsLead
  BY DEF CacheInv, Sound, Linked, JumpsLead, Now
<1> QED BY <1>1, CacheIsSafe, PTL
-----------------------------------------------------------------------------
(* With one mode: the table and the blocks agree.  The marks of the        *)
(* translation under way are missing yet.                                  *)
Agreed ==
  /\ Whole(Now, {t.at : t \in busy}, {})
  /\ \A p \in DOMAIN code : Page(code[p].first) \in pages

AllFresh == \A p \in DOMAIN code : Apart(code[p]) => ~code[p].stale

LEMMA NewWhole ==
  ASSUME NEW c, NEW X, Whole(c, X, {}), Typed(c), DOMAIN code' = DOMAIN c.code,
         \A q \in DOMAIN c.code :
           /\ code'[q].first = c.code[q].first /\ code'[q].last = c.code[q].last
           /\ code'[q].chain = c.code[q].chain,
         \A w \in Word : lut'[w].code = c.lut[w].code /\ (c.lut[w].used => lut'[w].used)
  PROVE  Whole(Now, X, {})'
<1>1. OneEach(c, {}) /\ Marked(c, X)
  BY DEF Whole
<1>2. PICK d : d = [code |-> code', lut |-> lut', wild |-> wild']
  OBVIOUS
<1>3. d.code = code' /\ d.lut = lut' /\ d = Now'
  BY <1>2 DEF Now
<1>4. \A q \in DOMAIN c.code : c.code[q].first \in Word
  BY DEF Typed, Block
<1>5. OneEach(d, {})
  <2>1. ASSUME NEW w \in Word, d.lut[w].code # None
        PROVE  d.lut[w].code \in DOMAIN d.code /\ d.code[d.lut[w].code].first = w
    BY <1>1, <1>3, <2>1 DEF OneEach
  <2>2. ASSUME NEW p \in DOMAIN d.code
        PROVE  d.lut[d.code[p].first].code = p /\ d.code[p].chain = None
    BY <1>1, <1>3, <1>4 DEF OneEach
  <2> QED BY <2>1, <2>2 DEF OneEach
<1>6. Marked(d, X)
  <2> SUFFICES ASSUME NEW p \in DOMAIN d.code, p \notin X, Apart(d.code[p]),
                      NEW w \in Word, d.code[p].first < w, w <= d.code[p].last
               PROVE  d.lut[w].used
    BY DEF Marked
  <2>1. p \in DOMAIN c.code /\ Apart(c.code[p])
    BY <1>3 DEF Apart
  <2> QED BY <1>1, <1>3, <2>1 DEF Marked
<1> QED BY <1>3, <1>5, <1>6 DEF Whole, OneEach, Marked

LEMMA AgreedFacts ==
  ASSUME CacheInv, Agreed
  PROVE  /\ \A w \in Word : lut[w].code # None =>
              lut[w].code \in DOMAIN code /\ code[lut[w].code].first = w
         /\ \A p \in DOMAIN code : /\ code[p] \in Block /\ code[p].first \in Word
                                   /\ lut[code[p].first].code = p /\ code[p].chain = None
                                   /\ Page(code[p].first) \in pages
         /\ OneEach(Now, {}) /\ Typed(Now)
  <1>1. OneEach(Now, {}) /\ Typed(Now)
    BY DEF Agreed, Whole, CacheInv, Sound
  <1>2. \A p \in DOMAIN code : code[p] \in Block /\ code[p].first \in Word
    BY NowFacts DEF Block
  <1> QED BY <1>1, <1>2, NowFacts DEF OneEach, Agreed

(* Nothing is found of the word where a translation begins.                *)
LEMMA StartAgrees ==
  ASSUME CacheInv, Agreed, NEW b \in Code, NEW m, Modes = {m}, NEW ask, NEW from,
         busy = {}, Find(b.first, m) = {}, Start(b, m, ask, from)
  PROVE  Agreed' /\ (AllFresh => AllFresh')
<1>1. /\ Tiles(heap) /\ ptr \in DOMAIN heap \cup {Units} /\ DOMAIN code \subseteq DOMAIN heap
      /\ Sound(Now) /\ Now.code = code /\ Now.lut = lut /\ None \notin DOMAIN code
  BY NowFacts
<1>2. PICK at, f : at = (IF ptr = Units THEN 0 ELSE ptr) /\ f = b.first
  OBVIOUS
<1>3. f \in Word
  BY <1>2, CodeFacts
<1>4. PICK c : c = Evicted(Now, at)
  OBVIOUS
<1>5. /\ DOMAIN c.code = DOMAIN code \ {at} /\ Shrunk(Now, c) /\ Typed(c)
      /\ Whole(c, {}, {})
  <2>1. Whole(Now, {}, {})
    <3>1. {t.at : t \in busy} = {}
      OBVIOUS
    <3> QED BY <3>1 DEF Agreed
  <2> QED BY <1>1, <1>4, <2>1, EvictedFacts DEF Sound
<1>6. lut[f].code = None
  <2> SUFFICES ASSUME lut[f].code # None PROVE FALSE
    OBVIOUS
  <2>1. PICK x : x = lut[f].code
    OBVIOUS
  <2>2. x \in DOMAIN code /\ code[x].mode \in Modes
    BY <1>3, <2>1, AgreedFacts DEF Block
  <2>3. x \in Chain(Now, f)
    BY <1>1, <1>3, <2>1, AgreedFacts, ChainIsOne
  <2> QED BY <1>2, <2>2, <2>3 DEF Find
<1>7. \A q \in DOMAIN c.code : /\ q \in DOMAIN code /\ Same(code[q], c.code[q])
                               /\ c.code[q].first # f /\ q # None
  <2>1. ASSUME NEW q \in DOMAIN c.code
        PROVE  q \in DOMAIN code /\ Same(code[q], c.code[q])
    BY <1>1, <1>5 DEF Shrunk
  <2>2. ASSUME NEW q \in DOMAIN c.code
        PROVE  c.code[q].first # f /\ q # None
    BY <1>1, <1>6, <2>1, AgreedFacts DEF Same
  <2> QED BY <2>1, <2>2
<1>8. c.lut[f].code = None
  <2>1. c.lut[f].code # None => c.lut[f].code \in DOMAIN c.code /\ c.code[c.lut[f].code].first = f
    BY <1>3, <1>5 DEF Whole, OneEach
  <2> QED BY <1>7, <2>1
<1>9. PICK new : new = [first |-> b.first, last |-> b.last, target |-> b.target,
                        mode |-> m, chain |-> c.lut[f].code,
                        jump |-> None, uses |-> {}, stale |-> FALSE]
  OBVIOUS
<1>10. /\ code' = [p \in DOMAIN c.code \cup {at} |-> IF p = at THEN new ELSE c.code[p]]
       /\ lut' = [c.lut EXCEPT ![f] = [code |-> at, used |-> c.lut[f].used]]
       /\ pages' = pages \cup {Page(f)}
       /\ busy' = {[at |-> at, ask |-> ask, from |-> from]}
  BY <1>2, <1>4, <1>9 DEF Start
<1>11. new.first = f /\ new.chain = None /\ ~new.stale
  BY <1>2, <1>8, <1>9
<1>12. PICK d : d = [code |-> code', lut |-> lut', wild |-> wild']
  OBVIOUS
<1>13. /\ d.code = code' /\ d.lut = lut' /\ DOMAIN d.code = DOMAIN c.code \cup {at}
       /\ d.code[at] = new /\ at \notin DOMAIN c.code
       /\ \A q \in DOMAIN c.code : d.code[q] = c.code[q]
       /\ Now' = d
  BY <1>5, <1>10, <1>12 DEF Now
<1>14. /\ d.lut[f].code = at /\ d.lut[f].used = c.lut[f].used
       /\ \A w \in Word \ {f} : d.lut[w] = c.lut[w]
  BY <1>3, <1>5, <1>10, <1>13 DEF Typed
<1>15. OneEach(d, {})
  <2>0. OneEach(c, {}) /\ \A p \in DOMAIN c.code : c.code[p].first \in Word
    BY <1>5 DEF Whole, Typed, Block
  <2>1. ASSUME NEW w \in Word, d.lut[w].code # None
        PROVE  d.lut[w].code \in DOMAIN d.code /\ d.code[d.lut[w].code].first = w
    <3>1. CASE w = f
      BY <1>11, <1>13, <1>14, <3>1
    <3>2. CASE w # f
      <4>1. d.lut[w] = c.lut[w]
        BY <1>14, <3>2
      <4> QED BY <1>13, <2>0, <2>1, <4>1 DEF OneEach
    <3> QED BY <3>1, <3>2
  <2>2. ASSUME NEW p \in DOMAIN d.code
        PROVE  d.lut[d.code[p].first].code = p /\ d.code[p].chain = None
    <3>1. CASE p = at
      BY <1>11, <1>13, <1>14, <3>1
    <3>2. CASE p # at
      BY <1>7, <1>13, <1>14, <2>0, <3>2 DEF OneEach
    <3> QED BY <3>1, <3>2
  <2> QED BY <2>1, <2>2 DEF OneEach
<1>16. Marked(d, {at})
  <2> SUFFICES ASSUME NEW p \in DOMAIN d.code, p \notin {at}, Apart(d.code[p]),
                      NEW w \in Word, d.code[p].first < w, w <= d.code[p].last
               PROVE  d.lut[w].used
    BY DEF Marked
  <2>1. c.lut[w].used
    BY <1>5, <1>13 DEF Whole, Marked
  <2> QED BY <1>14, <2>1
<1>17. {t.at : t \in busy'} = {at}
  BY <1>10
<1>18. Whole(Now, {t.at : t \in busy}, {})'
  BY <1>13, <1>15, <1>16, <1>17 DEF Whole, OneEach, Marked
<1>19. \A p \in DOMAIN code' : Page(code'[p].first) \in pages'
  BY <1>7, <1>10, <1>11, <1>13, AgreedFacts DEF Same
<1>20. AllFresh => \A p \in DOMAIN code' : Apart(code'[p]) => ~code'[p].stale
  <2> SUFFICES ASSUME AllFresh, NEW p \in DOMAIN code', Apart(code'[p]) PROVE ~code'[p].stale
    OBVIOUS
  <2>1. CASE p = at
    BY <1>11, <1>13, <2>1
  <2>2. CASE p # at
    <3>1. p \in DOMAIN code /\ Same(code[p], code'[p])
      BY <1>7, <1>13, <2>2
    <3>2. Apart(code[p])
      BY <3>1 DEF Apart, Same
    <3> QED BY <3>1, <3>2 DEF AllFresh, Same
  <2> QED BY <2>1, <2>2
<1> QED BY <1>18, <1>19, <1>20 DEF Agreed, AllFresh

(* Blocks and words stay, whatever becomes of the rest.                    *)
LEMMA KeptAgrees ==
  ASSUME CacheInv, Agreed, NEW X, NEW c, Whole(c, X, {}), Typed(c), Shrunk(Now, c),
         DOMAIN code' = DOMAIN c.code,
         \A q \in DOMAIN c.code :
           /\ code'[q].first = c.code[q].first /\ code'[q].last = c.code[q].last
           /\ code'[q].chain = c.code[q].chain,
         \A w \in Word : lut'[w].code = c.lut[w].code /\ (c.lut[w].used => lut'[w].used),
         X = {t.at : t \in busy'}, pages \subseteq pages'
  PROVE  Agreed'
<1>1. Whole(Now, X, {})'
  BY NewWhole
<1>2. Whole(Now, {t.at : t \in busy}, {})'
  BY <1>1
<1>3. \A p \in DOMAIN code' : Page(code'[p].first) \in pages'
  <2>1. \A p \in DOMAIN c.code : p \in DOMAIN code /\ c.code[p].first = code[p].first
    BY NowFacts DEF Shrunk, Same
  <2> QED BY <2>1, AgreedFacts
<1> QED BY <1>2, <1>3 DEF Agreed

LEMMA KeptFresh ==
  ASSUME CacheInv, AllFresh, NEW c, Shrunk(Now, c), DOMAIN code' = DOMAIN c.code,
         \A q \in DOMAIN c.code :
           /\ code'[q].first = c.code[q].first /\ code'[q].last = c.code[q].last
           /\ code'[q].stale = c.code[q].stale
  PROVE  AllFresh'
<1> SUFFICES ASSUME NEW p \in DOMAIN code', Apart(code'[p]) PROVE ~code'[p].stale
  BY DEF AllFresh
<1>1. /\ p \in DOMAIN code /\ code'[p].first = code[p].first /\ code'[p].last = code[p].last
      /\ code'[p].stale = code[p].stale
  BY NowFacts DEF Shrunk, Same
<1>2. Apart(code[p])
  BY <1>1 DEF Apart
<1> QED BY <1>1, <1>2 DEF AllFresh

LEMMA LinkFoundAgrees ==
  ASSUME CacheInv, Agreed, NEW s \in DOMAIN code, LinkFound(s)
  PROVE  Agreed' /\ (AllFresh => AllFresh')
<1>1. PICK t : code' = Patched(code, s, t)
  BY DEF LinkFound
<1>2. lut' = lut /\ pages' = pages /\ busy' = busy
  BY DEF LinkFound
<1>3. code \in [DOMAIN code -> Block] /\ Now.code = code /\ Now.lut = lut /\ Sound(Now)
  BY NowFacts
<1>4. DOMAIN code' = DOMAIN code
  BY <1>1 DEF Patched
<1>5. ASSUME NEW q \in DOMAIN code
      PROVE  /\ code'[q].first = code[q].first /\ code'[q].last = code[q].last
             /\ code'[q].chain = code[q].chain /\ code'[q].stale = code[q].stale
  <2>1. PICK x : x = [code EXCEPT ![s].jump = t]
    OBVIOUS
  <2>2. code[q] \in Block /\ code[s] \in Block
    BY <1>3
  <2>3. /\ x[q].first = code[q].first /\ x[q].last = code[q].last
        /\ x[q].chain = code[q].chain /\ x[q].stale = code[q].stale
        /\ x[q] = [first |-> x[q].first, last |-> x[q].last, target |-> x[q].target,
                   mode |-> x[q].mode, chain |-> x[q].chain, jump |-> x[q].jump,
                   uses |-> x[q].uses, stale |-> x[q].stale]
    BY <2>1, <2>2 DEF Block
  <2>4. PICK u : code' = [x EXCEPT ![t].uses = u]
    BY <1>1, <2>1 DEF Patched
  <2>5. /\ code'[q].first = x[q].first /\ code'[q].last = x[q].last
        /\ code'[q].chain = x[q].chain /\ code'[q].stale = x[q].stale
    BY <2>1, <2>3, <2>4
  <2> QED BY <2>3, <2>5
<1>6. Shrunk(Now, Now)
  BY ShrunkNone
<1>7. Whole(Now, {u.at : u \in busy}, {}) /\ Typed(Now)
  BY <1>3 DEF Agreed, Sound
<1>8. Agreed'
  <2>1. PICK c, X : c = Now /\ X = {u.at : u \in busy}
    OBVIOUS
  <2>2. /\ Whole(c, X, {}) /\ Typed(c) /\ Shrunk(Now, c) /\ c.code = code /\ c.lut = lut
        /\ X = {u.at : u \in busy'}
    BY <1>2, <1>3, <1>6, <1>7, <2>1
  <2> QED BY <1>2, <1>4, <1>5, <2>2, KeptAgrees
<1>9. AllFresh => AllFresh'
  BY <1>3, <1>4, <1>5, <1>6, KeptFresh
<1> QED BY <1>8, <1>9

LEMMA ExtendAgrees ==
  ASSUME CacheInv, Agreed, ExtendBlock
  PROVE  Agreed' /\ (AllFresh => AllFresh')
<1>1. Becomes(Evicted(Now, ptr)) /\ pages' = pages /\ busy' = busy
  BY DEF ExtendBlock
<1>2. PICK c, X : c = Evicted(Now, ptr) /\ X = {t.at : t \in busy}
  OBVIOUS
<1>3. Sound(Now) /\ Whole(Now, X, {})
  BY <1>2 DEF CacheInv, Agreed
<1>4. Whole(c, X, {}) /\ Typed(c) /\ Shrunk(Now, c)
  BY <1>2, <1>3, EvictedFacts DEF Sound
<1>5. code' = c.code /\ lut' = c.lut
  BY <1>1, <1>2 DEF Becomes
<1>6. X = {t.at : t \in busy'}
  BY <1>1, <1>2
<1>7. Agreed'
  BY <1>1, <1>4, <1>5, <1>6, KeptAgrees
<1>8. AllFresh => AllFresh'
  BY <1>4, <1>5, KeptFresh
<1> QED BY <1>7, <1>8

LEMMA WrittenAgrees ==
  ASSUME CacheInv, Agreed, busy = {}, NEW c, Flushes(Now, c), NEW ws, Written(c, ws)
  PROVE  Agreed'
<1>1. pages' = pages /\ busy' = {}
  BY DEF Written
<1>2. PICK X : X = {}
  OBVIOUS
<1>3. Whole(Now, X, {}) /\ X = {t.at : t \in busy'}
  <2>1. {t.at : t \in busy} = X /\ {t.at : t \in busy'} = X
    BY <1>1, <1>2
  <2> QED BY <2>1 DEF Agreed
<1>4. Whole(c, X, {}) /\ Sound(c) /\ Typed(c) /\ Shrunk(Now, c)
  BY <1>3 DEF Flushes, Sound
<1>5. /\ DOMAIN code' = DOMAIN c.code /\ lut' = c.lut
      /\ \A q \in DOMAIN c.code :
           /\ code'[q].first = c.code[q].first /\ code'[q].last = c.code[q].last
           /\ code'[q].chain = c.code[q].chain
  BY <1>4, WrittenFacts
<1> QED BY <1>1, <1>3, <1>4, <1>5, KeptAgrees

(* A translation that is done has its words marked.                        *)
LEMMA CommitAgrees ==
  ASSUME CacheInv, Agreed, NEW size \in 1 .. MaxAsk, CommitBlock(size)
  PROVE  Agreed' /\ (AllFresh => AllFresh')
<1>1. PICK t \in busy :
        /\ lut' = [w \in Word |-> IF w \in Marks(code[t.at])
                                  THEN [lut[w] EXCEPT !.used = TRUE] ELSE lut[w]]
        /\ pages \subseteq pages'
        /\ code' = [p \in DOMAIN code |->
                       IF p = t.at THEN [code[t.at] EXCEPT !.uses = t.from]
                       ELSE IF p \in {s \in DOMAIN code \ {t.at} : Site(s) \in t.from}
                            THEN [code[p] EXCEPT !.jump = t.at]
                       ELSE code[p]]
  <2>1. PICK u \in busy : \E P :
        /\ lut' = [w \in Word |-> IF w \in Marks(code[u.at])
                                  THEN [lut[w] EXCEPT !.used = TRUE] ELSE lut[w]]
        /\ pages' = pages \cup P
        /\ code' = [p \in DOMAIN code |->
                       IF p = u.at THEN [code[u.at] EXCEPT !.uses = u.from]
                       ELSE IF p \in {s \in DOMAIN code \ {u.at} : Site(s) \in u.from}
                            THEN [code[p] EXCEPT !.jump = u.at]
                       ELSE code[p]]
    BY Zenon DEF CommitBlock
  <2> QED BY <2>1
<1>2. busy' = {}
  BY DEF CommitBlock
<1>3. code \in [DOMAIN code -> Block] /\ lut \in [Word -> Entry]
      /\ Now.code = code /\ Now.lut = lut /\ Sound(Now)
  BY NowFacts
<1>4. PICK a, x : a = t.at /\ x = code[a]
  OBVIOUS
<1>5. a \in DOMAIN code /\ busy = {t}
  BY <1>1, <1>4 DEF CacheInv, Pending, HeapInv, Underway
<1>6. ASSUME NEW q \in DOMAIN code
      PROVE  /\ code'[q].first = code[q].first /\ code'[q].last = code[q].last
             /\ code'[q].chain = code[q].chain /\ code'[q].stale = code[q].stale
  <2>1. code[q] \in Block
    BY <1>3
  <2>2. PICK y, z : y = [code[q] EXCEPT !.uses = t.from] /\ z = [code[q] EXCEPT !.jump = t.at]
    OBVIOUS
  <2>3. code'[q] \in {y, z, code[q]}
    BY <1>1, <2>2
  <2>4. /\ y.first = code[q].first /\ y.last = code[q].last
        /\ y.chain = code[q].chain /\ y.stale = code[q].stale
    BY <2>1, <2>2 DEF Block
  <2>5. /\ z.first = code[q].first /\ z.last = code[q].last
        /\ z.chain = code[q].chain /\ z.stale = code[q].stale
    BY <2>1, <2>2 DEF Block
  <2> QED BY <2>3, <2>4, <2>5
<1>7. ASSUME NEW w \in Word
      PROVE  /\ lut'[w].code = lut[w].code /\ (lut[w].used => lut'[w].used)
             /\ x.first < w /\ w <= x.last => lut'[w].used
  <2>1. lut[w] \in Entry
    BY <1>3
  <2>2. PICK y : y = [lut[w] EXCEPT !.used = TRUE]
    OBVIOUS
  <2>3. y.code = lut[w].code /\ y.used
    BY <2>1, <2>2 DEF Entry
  <2>4. lut'[w] = IF x.first < w /\ w <= x.last THEN y ELSE lut[w]
    BY <1>1, <1>4, <2>2 DEF Marks
  <2> QED BY <2>3, <2>4
<1>8. DOMAIN code' = DOMAIN code
  BY <1>1
<1>9. Shrunk(Now, Now) /\ Typed(Now) /\ Whole(Now, {a}, {})
  <2>1. {u.at : u \in busy} = {a}
    BY <1>4, <1>5
  <2> QED BY <1>3, <2>1, ShrunkNone DEF Agreed, Sound
<1>10. Whole(Now, {a}, {})'
  <2>1. PICK c, X : c = Now /\ X = {a}
    OBVIOUS
  <2>2. Whole(c, X, {}) /\ Typed(c) /\ c.code = code /\ c.lut = lut
    BY <1>3, <1>9, <2>1
  <2>3. Whole(Now, X, {})'
    BY <1>6, <1>7, <1>8, <2>2, NewWhole
  <2> QED BY <2>1, <2>3
<1>11. Marked(Now, {})'
  <2> SUFFICES ASSUME NEW p \in DOMAIN code', Apart(code'[p]),
                      NEW w \in Word, code'[p].first < w, w <= code'[p].last
               PROVE  lut'[w].used
    BY DEF Marked, Now
  <2>1. CASE p = a
    BY <1>4, <1>5, <1>6, <1>7, <2>1
  <2>2. CASE p # a
    BY <1>10, <2>2 DEF Whole, Marked, Now
  <2> QED BY <2>1, <2>2
<1>12. Agreed'
  <2>1. {u.at : u \in busy'} = {}
    BY <1>2
  <2>2. Whole(Now, {u.at : u \in busy}, {})'
    BY <1>10, <1>11, <2>1 DEF Whole, Marked
  <2>3. \A p \in DOMAIN code' : Page(code'[p].first) \in pages'
    BY <1>1, <1>6, <1>8, AgreedFacts
  <2> QED BY <2>2, <2>3 DEF Agreed
<1>13. AllFresh => AllFresh'
  BY <1>3, <1>6, <1>8, <1>9, KeptFresh
<1> QED BY <1>12, <1>13

(* The translation that moves keeps its entry.                             *)
LEMMA MigrateAgrees ==
  ASSUME CacheInv, Agreed, MigrateBlock
  PROVE  Agreed' /\ (AllFresh => AllFresh')
<1>1. PICK t \in busy : \E e, left :
        /\ e = Min({p \in DOMAIN heap \cup {Units} : p >= heap[t.at] + MinTotal})
        /\ left = [Now EXCEPT !.code = Restrict(@, DOMAIN @ \ {t.at})]
        /\ Short(t) /\ ptr = Units
        /\ Becomes(Moved(t, FrontEvicted(left, e)))
        /\ busy' = {[t EXCEPT !.at = 0]}
  BY DEF MigrateBlock
<1>2. PICK e, left :
        /\ e = Min({p \in DOMAIN heap \cup {Units} : p >= heap[t.at] + MinTotal})
        /\ left = [Now EXCEPT !.code = Restrict(@, DOMAIN @ \ {t.at})]
        /\ Short(t) /\ ptr = Units
        /\ Becomes(Moved(t, FrontEvicted(left, e)))
        /\ busy' = {[t EXCEPT !.at = 0]}
  BY <1>1
<1>3. /\ HeapInv /\ Pending /\ Tiles(heap)
      /\ code \in [DOMAIN code -> Block] /\ lut \in [Word -> Entry]
      /\ \A p \in DOMAIN code : /\ p \in Nat
                                /\ \E b \in Code : code[p].first = b.first /\ code[p].last = b.last
      /\ Linked(Now) /\ Typed(Now) /\ Now.code = code /\ Now.lut = lut
  BY NowFacts DEF CacheInv, Sound
<1>4. e \in DOMAIN heap \cup {Units} /\ e > heap[t.at] /\ e <= t.at
  BY <1>2, <1>3, RoomInFront
<1>5. PICK a, f : a = t.at /\ f = code[a].first
  OBVIOUS
<1>6. /\ a \in DOMAIN code /\ code[a].uses = {} /\ busy = {t} /\ f \in Word
      /\ t \in [at : Nat, ask : 1 .. MaxAsk, from : SUBSET Nat]
  BY <1>1, <1>3, <1>5, AgreedFacts DEF Pending, HeapInv, Underway
<1>7. e \in Nat \ {0}
  <2>1. heap[a] \in Nat \ {0}
    BY <1>3, <1>6, TilesFacts, NowFacts
  <2>2. e \in Int
    BY <1>3, <1>4, TilesFacts, Sizes
  <2> QED BY <1>4, <1>5, <2>1, <2>2
<1>8. /\ left = [code |-> left.code, lut |-> lut, wild |-> wild]
      /\ left.code = [p \in DOMAIN code \ {a} |-> code[p]]
      /\ DOMAIN left.code = DOMAIN code \ {a} /\ \A q \in DOMAIN code \ {a} : left.code[q] = code[q]
  BY <1>2, <1>5 DEF Now, Restrict
<1>9. Sound(left)
  <2>1. Typed(left)
    <3>1. left.code \in [DOMAIN left.code -> Block] /\ left.lut = lut
      BY <1>3, <1>8
    <3> QED BY <1>3, <1>8, <3>1 DEF Typed
  <2>2. Linked(left)
    <3> SUFFICES ASSUME NEW s \in DOMAIN left.code, left.code[s].jump # None
                 PROVE  /\ left.code[s].jump \in DOMAIN left.code
                        /\ left.code[left.code[s].jump].first = left.code[s].target
                        /\ left.code[left.code[s].jump].mode = left.code[s].mode
                        /\ Site(s) \in left.code[left.code[s].jump].uses
      BY DEF Linked
    <3>1. PICK j : j = code[s].jump
      OBVIOUS
    <3>2. /\ j \in DOMAIN code /\ code[j].first = code[s].target
          /\ code[j].mode = code[s].mode /\ Site(s) \in code[j].uses
      BY <1>3, <1>8, <3>1 DEF Linked
    <3>3. j # a
      BY <1>6, <3>2
    <3> QED BY <1>8, <3>1, <3>2, <3>3
  <2> QED BY <2>1, <2>2 DEF Sound
<1>10. Whole(left, {}, {f})
  <2>1. left.lut = lut
    BY <1>8
  <2>2. OneEach(left, {f})
    <3>1. ASSUME NEW w \in Word \ {f}, lut[w].code # None
          PROVE  lut[w].code \in DOMAIN left.code /\ left.code[lut[w].code].first = w
      <4>1. PICK q : q = lut[w].code
        OBVIOUS
      <4>2. q \in DOMAIN code /\ code[q].first = w
        BY <3>1, <4>1, AgreedFacts
      <4>3. q # a
        BY <1>5, <4>2
      <4> QED BY <1>8, <4>1, <4>2, <4>3
    <3>2. ASSUME NEW q \in DOMAIN left.code
          PROVE  /\ left.code[q].first \notin {f}
                 /\ lut[left.code[q].first].code = q /\ left.code[q].chain = None
      <4>1. q \in DOMAIN code /\ q # a /\ left.code[q] = code[q]
        BY <1>8
      <4>2. lut[code[q].first].code = q /\ lut[f].code = a /\ code[q].chain = None
        BY <1>5, <1>6, <4>1, AgreedFacts
      <4> QED BY <4>1, <4>2
    <3> QED BY <2>1, <3>1, <3>2 DEF OneEach
  <2>3. Marked(left, {})
    <3>1. Marked(Now, {a})
      <4>1. {u.at : u \in busy} = {a}
        BY <1>5, <1>6
      <4> QED BY <4>1 DEF Agreed, Whole
    <3> QED BY <1>3, <1>8, <2>1, <3>1 DEF Marked
  <2> QED BY <2>2, <2>3 DEF Whole
<1>11. PICK c : c = FrontEvicted(left, e)
  OBVIOUS
<1>12. /\ DOMAIN c.code = DOMAIN left.code \ 0 .. e - 1
       /\ Shrunk(left, c) /\ Typed(c) /\ OneEach(c, {f}) /\ Marked(c, {})
  BY <1>7, <1>9, <1>10, <1>11, FrontEvictedFacts DEF Sound, Whole
<1>13. /\ 0 \notin DOMAIN c.code
       /\ \A q \in DOMAIN c.code : q \in DOMAIN code \ {a} /\ Same(code[q], c.code[q])
  BY <1>7, <1>8, <1>12 DEF Shrunk
<1>14. PICK d : d = Moved(t, c)
  OBVIOUS
<1>15. /\ d.code = [p \in DOMAIN c.code \cup {0} |-> IF p = 0 THEN code[a] ELSE c.code[p]]
       /\ d.lut = [c.lut EXCEPT ![f] = [code |-> 0, used |-> FALSE]]
  <2>1. c = [code |-> c.code, lut |-> c.lut, wild |-> c.wild]
    BY <1>12 DEF Typed
  <2> QED BY <1>5, <1>14, <2>1 DEF Moved
<1>16. /\ DOMAIN d.code = DOMAIN c.code \cup {0} /\ d.code[0] = code[a]
       /\ \A q \in DOMAIN c.code : d.code[q] = c.code[q]
  BY <1>13, <1>15
<1>17. d.lut[f].code = 0 /\ \A w \in Word \ {f} : d.lut[w] = c.lut[w]
  BY <1>6, <1>12, <1>15 DEF Typed
<1>18. code' = d.code /\ lut' = d.lut /\ pages' = pages /\ {u.at : u \in busy'} = {0}
  <2>1. [t EXCEPT !.at = 0].at = 0
    BY <1>6
  <2>2. pages' = pages
    BY DEF MigrateBlock
  <2> QED BY <1>2, <1>11, <1>14, <2>1, <2>2 DEF Becomes
<1>19. OneEach(d, {})
  <2>1. ASSUME NEW w \in Word, d.lut[w].code # None
        PROVE  d.lut[w].code \in DOMAIN d.code /\ d.code[d.lut[w].code].first = w
    <3>1. CASE w = f
      BY <1>5, <1>16, <1>17, <3>1
    <3>2. CASE w # f
      <4>1. PICK q : q = c.lut[w].code
        OBVIOUS
      <4>2. q \in DOMAIN c.code /\ c.code[q].first = w
        BY <1>12, <1>17, <2>1, <3>2, <4>1 DEF OneEach
      <4> QED BY <1>16, <1>17, <3>2, <4>1, <4>2
    <3> QED BY <3>1, <3>2
  <2>2. ASSUME NEW p \in DOMAIN d.code
        PROVE  d.lut[d.code[p].first].code = p /\ d.code[p].chain = None
    <3>1. CASE p = 0
      BY <1>5, <1>6, <1>16, <1>17, <3>1, AgreedFacts
    <3>2. CASE p # 0
      <4>1. p \in DOMAIN c.code /\ d.code[p] = c.code[p] /\ c.code[p].first \in Word
        BY <1>12, <1>16, <3>2 DEF Typed, Block
      <4>2. c.code[p].first # f /\ c.lut[c.code[p].first].code = p /\ c.code[p].chain = None
        BY <1>12, <4>1 DEF OneEach
      <4> QED BY <1>17, <4>1, <4>2
    <3> QED BY <3>1, <3>2
  <2> QED BY <2>1, <2>2 DEF OneEach
<1>20. Marked(d, {0})
  <2> SUFFICES ASSUME NEW p \in DOMAIN d.code, p \notin {0}, Apart(d.code[p]),
                      NEW w \in Word, d.code[p].first < w, w <= d.code[p].last
               PROVE  d.lut[w].used
    BY DEF Marked
  <2>1. /\ p \in DOMAIN c.code /\ d.code[p] = c.code[p]
        /\ p \in DOMAIN code /\ Same(code[p], d.code[p])
    BY <1>13, <1>16
  <2>2. Apart(code[p])
    BY <2>1 DEF Apart, Same
  <2>3. w # f
    BY <1>3, <1>5, <1>6, <2>1, <2>2, ApartFacts DEF Same
  <2>4. c.lut[w].used
    BY <1>12, <2>1 DEF Marked
  <2> QED BY <1>17, <2>3, <2>4
<1>21. Agreed'
  <2>1. Whole(Now, {u.at : u \in busy}, {})'
    <3>1. Now'.code = d.code /\ Now'.lut = d.lut
      BY <1>18 DEF Now
    <3> QED BY <1>18, <1>19, <1>20, <3>1 DEF Whole, OneEach, Marked
  <2>2. \A p \in DOMAIN code' : Page(code'[p].first) \in pages'
    <3>1. ASSUME NEW p \in DOMAIN d.code PROVE \E q \in DOMAIN code : d.code[p].first = code[q].first
      BY <1>6, <1>13, <1>16 DEF Same
    <3> QED BY <1>18, <3>1, AgreedFacts
  <2> QED BY <2>1, <2>2 DEF Agreed
<1>22. AllFresh => AllFresh'
  <2> SUFFICES ASSUME AllFresh, NEW p \in DOMAIN code', Apart(code'[p]) PROVE ~code'[p].stale
    BY DEF AllFresh
  <2>1. PICK q \in DOMAIN code : /\ code'[p].first = code[q].first /\ code'[p].last = code[q].last
                                 /\ code'[p].stale = code[q].stale
    BY <1>6, <1>13, <1>16, <1>18 DEF Same
  <2>2. Apart(code[q])
    BY <2>1 DEF Apart
  <2> QED BY <2>1, <2>2 DEF AllFresh
<1> QED BY <1>21, <1>22

LEMMA EmptyAgrees ==
  ASSUME CacheInv, code = NoCode, lut = NoEntries, busy = {}
  PROVE  Agreed /\ AllFresh
<1>1. DOMAIN code = {} /\ \A w \in Word : lut[w].code = None
  BY DEF NoCode, NoEntries, Empty
<1> QED BY <1>1, NowFacts DEF Agreed, AllFresh, Whole, OneEach, Marked

LEMMA FlushCacheAgrees ==
  ASSUME FlushCache
  PROVE  Agreed' /\ AllFresh'
<1>1. code' = NoCode /\ lut' = NoEntries
  BY DEF FlushCache
<1>2. DOMAIN code' = {} /\ \A w \in Word : lut'[w].code = None
  BY <1>1 DEF NoCode, NoEntries, Empty
<1> QED BY <1>2 DEF Agreed, AllFresh, Whole, OneEach, Marked, Now

LEMMA StutterAgrees ==
  ASSUME CacheInv, Agreed, UNCHANGED vars
  PROVE  Agreed' /\ (AllFresh => AllFresh')
<1>1. code' = code /\ lut' = lut /\ pages' = pages /\ busy' = busy
  BY DEF vars
<1>2. Agreed'
  <2>1. Whole(Now, {t.at : t \in busy}, {})
    BY DEF Agreed
  <2>2. Whole(Now, {t.at : t \in busy}, {})'
    BY <1>1, <2>1 DEF Whole, OneEach, Marked, Now
  <2>3. \A p \in DOMAIN code' : Page(code'[p].first) \in pages'
    BY <1>1, AgreedFacts
  <2> QED BY <2>2, <2>3 DEF Agreed
<1> QED BY <1>1, <1>2 DEF AllFresh

(* All steps that translate or forget.                                     *)
LEMMA QuietStepAgrees ==
  ASSUME CacheInv, Agreed, NEW m, Modes = {m}, [Next]_vars
  PROVE  \/ Agreed' /\ (AllFresh => AllFresh')
         \/ \E w \in Word : WriteWord(w) \/ WriteLong(w)
         \/ \E r \in Regions : WriteRegion(r)
<1> DEFINE Good == Agreed' /\ (AllFresh => AllFresh')
           Quiet == \/ Good
                    \/ \E w \in Word : WriteWord(w) \/ WriteLong(w)
                    \/ \E r \in Regions : WriteRegion(r)
<1> SUFFICES Quiet
  OBVIOUS
<1>1. ASSUME NEW b \in Code, NEW k \in Modes, NEW ask \in 1 .. MaxAsk, StartBlock(b, k, ask)
      PROVE  Good
  <2>1. busy = {} /\ Find(b.first, m) = {} /\ Start(b, m, ask, {})
    BY <1>1 DEF StartBlock, Idle
  <2> QED BY <2>1, StartAgrees
<1>2. ASSUME NEW s \in DOMAIN code, LinkFound(s)
      PROVE  Good
  BY <1>2, LinkFoundAgrees
<1>3. ASSUME NEW s \in DOMAIN code, NEW b \in Code, NEW ask \in 1 .. MaxAsk, LinkTranslate(s, b, ask)
      PROVE  Good
  <2>1. code[s].mode = m
    <3>1. code[s].mode \in Modes
      BY AgreedFacts DEF Block
    <3> QED BY <3>1
  <2>2. busy = {} /\ Find(b.first, m) = {} /\ Start(b, m, ask, {Site(s)})
    BY <1>3, <2>1 DEF LinkTranslate, Linking, Idle
  <2> QED BY <2>2, StartAgrees
<1>4. CASE ExtendBlock
  BY <1>4, ExtendAgrees
<1>5. CASE MigrateBlock
  BY <1>5, MigrateAgrees
<1>6. ASSUME NEW size \in 1 .. MaxAsk, CommitBlock(size)
      PROVE  Good
  BY <1>6, CommitAgrees
<1>7. CASE FlushCache
  BY <1>7, FlushCacheAgrees
<1>8. CASE UNCHANGED vars
  BY <1>8, StutterAgrees
<1>9. CASE Next
  <2>1. \/ \E b \in Code, k \in Modes, ask \in 1 .. MaxAsk : StartBlock(b, k, ask)
        \/ \E s \in DOMAIN code : LinkFound(s)
        \/ \E s \in DOMAIN code, b \in Code, ask \in 1 .. MaxAsk : LinkTranslate(s, b, ask)
        \/ ExtendBlock \/ MigrateBlock
        \/ \E size \in 1 .. MaxAsk : CommitBlock(size)
        \/ \E w \in Word : WriteWord(w) \/ WriteLong(w)
        \/ \E r \in Regions : WriteRegion(r)
        \/ FlushCache
    BY <1>9, Zenon DEF Next
  <2> HIDE DEF Good
  <2> QED BY <1>1, <1>2, <1>3, <1>4, <1>5, <1>6, <1>7, <2>1
<1>10. CASE UNCHANGED vars
  BY <1>8, <1>10
<1> QED BY <1>9, <1>10

LEMMA WriteAgrees ==
  ASSUME CacheInv, Agreed
  PROVE  /\ \A w \in Word : WriteWord(w) \/ WriteLong(w) => Agreed'
         /\ \A r \in Regions : WriteRegion(r) => Agreed'
<1>1. Sound(Now)
  BY DEF CacheInv
<1>2. ASSUME NEW w \in Word, WriteWord(w) \/ WriteLong(w)
      PROVE  Agreed'
  <2>1. \A tested : Flushes(Now, Checked(w, tested))
    BY <1>1, CheckFlushes
  <2>2. busy = {} /\ \E tested, ws : Written(Checked(w, tested), ws)
    BY <1>2 DEF WriteWord, WriteLong, Idle
  <2> QED BY <2>1, <2>2, WrittenAgrees
<1>3. ASSUME NEW r \in Regions, WriteRegion(r)
      PROVE  Agreed'
  <2>1. Flushes(Now, RegionFlushed(r))
    BY <1>1, RegionFlushes, FlushesTwice
  <2> QED BY <1>3, <2>1, WrittenAgrees DEF WriteRegion, Idle
<1> QED BY <1>2, <1>3

LEMMA StepAgrees ==
  ASSUME NEW m, Modes = {m}, CacheInv, Agreed, [Next]_vars
  PROVE  Agreed'
<1>1. CASE \E w \in Word : WriteWord(w) \/ WriteLong(w)
  BY <1>1, WriteAgrees
<1>2. CASE \E r \in Regions : WriteRegion(r)
  BY <1>2, WriteAgrees
<1> QED BY <1>1, <1>2, QuietStepAgrees

LEMMA CacheAgrees ==
  ASSUME NEW CONSTANT m, Modes = {m}
  PROVE  Spec => []Agreed
<1>1. CacheInv /\ Init => Agreed
  BY EmptyAgrees DEF Init
<1>2. CacheInv /\ Agreed /\ [Next]_vars => Agreed'
  BY StepAgrees
<1>3. Init => CacheInv
  BY InitSafe
<1> QED BY <1>1, <1>2, <1>3, CacheIsSafe, PTL DEF Spec

(* With one mode of the processor, through all starts, growing, moving,    *)
(* evicting, linking and invalidating: the blocks tile the cache, every    *)
(* entry of the table leads to an active translation of its word, and no   *)
(* active translation is lost to the table.  (xlat_start_block,            *)
(* xlat_extend_block, xlat_commit_block, xlat_delete_block,                *)
(* xlat_flush_page_by_lut)                                                 *)
THEOREM CacheIsIntact ==
  ASSUME NEW CONSTANT m, Modes = {m}
  PROVE  Spec => []CacheIntact
<1>1. CacheInv /\ Agreed => CacheIntact
  <2> SUFFICES ASSUME CacheInv, Agreed PROVE CacheIntact
    OBVIOUS
  <2>1. Tiling
    BY DEF CacheInv, HeapInv, Tiles, Tiling
  <2>2. EntriesLead
    BY AgreedFacts DEF EntriesLead
  <2>3. AllFound
    <3> SUFFICES ASSUME NEW p \in DOMAIN code PROVE p \in Chain(Now, code[p].first)
      BY DEF AllFound
    <3>1. PICK f : f = code[p].first
      OBVIOUS
    <3>2. f \in Word /\ lut[f].code = p /\ p # None
      BY <3>1, AgreedFacts, NowFacts
    <3>3. Chain(Now, f) = {Now.lut[f].code} \ {None}
      BY <3>2, AgreedFacts, ChainIsOne
    <3> QED BY <3>1, <3>2, <3>3, NowFacts
  <2> QED BY <2>1, <2>2, <2>3 DEF CacheIntact
<1> QED BY <1>1, CacheIsSafe, CacheAgrees, PTL
-----------------------------------------------------------------------------
(* A block that runs over a word has left its trace in the table there,    *)
(* and began on the same page.                                             *)
LEMMA TraceLeft ==
  ASSUME NEW c, Whole(c, {}, {}), Typed(c), None \notin DOMAIN c.code,
         NEW p \in DOMAIN c.code, Apart(c.code[p]),
         NEW x \in Nat, c.code[p].first <= x, x <= c.code[p].last
  PROVE  x \in Word /\ c.lut[x] # Empty /\ Page(c.code[p].first) = Page(x)
<1>1. PICK a \in Word, b \in Word : a = c.code[p].first /\ b = c.code[p].last
  BY DEF Typed, Block
<1>2. Word \subseteq Nat /\ Word = 0 .. Words - 1 /\ Words \in Nat
  BY Sizes DEF Word
<1>3. x \in Word
  BY <1>1, <1>2
<1>4. Empty.code = None /\ ~Empty.used
  BY DEF Empty
<1>5. CASE x = a
  <2>1. c.lut[a].code = p
    BY <1>1 DEF Whole, OneEach
  <2> QED BY <1>1, <1>3, <1>4, <1>5, <2>1
<1>6. CASE x # a
  <2>1. a < x /\ x <= b /\ a \in Nat /\ b \in Nat
    BY <1>1, <1>2, <1>6
  <2>2. c.lut[x].used
    BY <1>1, <1>3, <2>1 DEF Whole, Marked
  <2>3. Page(a) = Page(b)
    BY <1>1 DEF Apart
  <2>4. Page(x) = Page(b)
    BY <2>1, <2>3, PageOfBlock
  <2> QED BY <1>1, <1>3, <1>4, <2>2, <2>3, <2>4
<1> QED BY <1>5, <1>6

(* The pages of the blocks that are left are allocated.                    *)
LEMMA LeftOver ==
  ASSUME CacheInv, Agreed, busy = {}, NEW c, Flushes(Now, c)
  PROVE  /\ Whole(c, {}, {}) /\ Sound(c) /\ Typed(c) /\ None \notin DOMAIN c.code
         /\ \A p \in DOMAIN c.code : /\ c.code[p].first \in Word
                                     /\ Page(c.code[p].first) \in pages
<1>1. Whole(Now, {}, {})
  <2>1. {t.at : t \in busy} = {}
    OBVIOUS
  <2> QED BY <2>1 DEF Agreed
<1>2. Whole(c, {}, {}) /\ Sound(c) /\ Typed(c) /\ Shrunk(Now, c)
  BY <1>1 DEF Flushes, Sound
<1>3. \A p \in DOMAIN c.code : p \in DOMAIN code /\ c.code[p].first = code[p].first
  BY <1>2, NowFacts DEF Shrunk, Same
<1> QED BY <1>2, <1>3, NowFacts, AgreedFacts

(* A flushed page has no block that runs over one of its words.            *)
LEMMA FlushedPageClean ==
  ASSUME CacheInv, Agreed, busy = {}, NEW c, Flushes(Now, c), NEW page \in Int,
         NEW d, Flushes(PageFlushed(c, page), d),
         NEW p \in DOMAIN d.code, Apart(d.code[p]),
         NEW x \in Nat, d.code[p].first <= x, x <= d.code[p].last, Page(x) = page
  PROVE  FALSE
<1>1. Whole(c, {}, {}) /\ Sound(c)
  BY LeftOver
<1>2. PICK e : e = PageFlushed(c, page)
  OBVIOUS
<1>3. \A w \in Word : Page(w) = page => Gone(e, w)
  BY <1>1, <1>2, PageFlushedWhole
<1>4. Shrunk(e, d)
  BY <1>2 DEF Flushes
<1>5. Flushes(Now, d)
  <2>1. Flushes(c, e)
    BY <1>1, <1>2, PageFlushes
  <2> QED BY <1>2, <2>1, FlushesTwice
<1>6. Whole(d, {}, {}) /\ Typed(d) /\ None \notin DOMAIN d.code
  BY <1>5, LeftOver
<1>7. d.code[p].first \in Word /\ Page(d.code[p].first) = page
  BY <1>5, <1>6, LeftOver, TraceLeft
<1>8. p \in DOMAIN e.code /\ e.code[p].first = d.code[p].first
  BY <1>4 DEF Shrunk, Same
<1> QED BY <1>3, <1>7, <1>8 DEF Gone

(* A write of a word or two ends what runs over them.                      *)
LEMMA CheckedClean ==
  ASSUME CacheInv, Agreed, busy = {}, NEW w \in Word, NEW tested, NEW x \in tested,
         x \in Nat, Page(x) = Page(w), NEW d, d = Checked(w, tested),
         NEW p \in DOMAIN d.code, Apart(d.code[p]), d.code[p].first <= x, x <= d.code[p].last
  PROVE  FALSE
<1>1. PICK c : c = SlotFlushed(w)
  OBVIOUS
<1>2. PICK page \in Int : page = Page(w)
  BY PageFacts, Sizes DEF Word
<1>3. Flushes(Now, c)
  BY <1>1, SlotFlushes DEF CacheInv
<1>4. CASE page \in pages /\ \E v \in tested : c.lut[v] # Empty
  <2>1. d = PageFlushed(c, page)
    BY <1>1, <1>2, <1>4 DEF Checked
  <2>2. Sound(d)
    BY <1>3, <2>1, LeftOver, PageFlushes DEF Flushes
  <2> QED BY <1>2, <1>3, <2>1, <2>2, FlushesNone, FlushedPageClean
<1>5. CASE ~(page \in pages /\ \E v \in tested : c.lut[v] # Empty)
  <2>1. d = c
    BY <1>1, <1>2, <1>5 DEF Checked
  <2>2. Whole(d, {}, {}) /\ Typed(d) /\ None \notin DOMAIN d.code /\ Page(d.code[p].first) \in pages
    BY <1>3, <2>1, LeftOver
  <2>3. d.lut[x] # Empty /\ Page(d.code[p].first) = Page(x)
    BY <2>2, TraceLeft
  <2> QED BY <1>2, <1>5, <2>1, <2>2, <2>3
<1> QED BY <1>4, <1>5

LEMMA RegionPageFlushed ==
  ASSUME NEW s, NEW page, page \in pages, ~(s.count <= 0),
         NEW n, n = Min({s.count, PageWords - s.entry}),
         \E i \in 0 .. (n - 1) : s.c.lut[page * PageWords + s.entry + i] # Empty
  PROVE  PageOfRegion(s, page).c = PageFlushed(s.c, page)
BY DEF PageOfRegion

(* A region that stays on its page is counted once: the page is looked at  *)
(* from its first word to its last.                                        *)
LEMMA RegionClean ==
  ASSUME CacheInv, Agreed, busy = {}, NEW r \in Regions,
         (r.at % PageWords) + r.words <= PageWords,
         NEW d, d = RegionFlushed(r), NEW p \in DOMAIN d.code, Apart(d.code[p]),
         NEW x \in r.at .. r.at + r.words - 1, d.code[p].first <= x, x <= d.code[p].last
  PROVE  FALSE
<1>0. r.at \in Word /\ r.at \in Nat /\ r.words \in Nat /\ PageWords \in Nat \ {0}
  BY RegionAssumption, Sizes DEF Word
<1>1. PICK at \in Nat, n \in Nat \ {0}, w \in Nat : at = r.at /\ n = PageWords /\ w = r.words
  BY <1>0
<1>2. PICK page \in Int : page = Page(at)
  BY PageFacts
<1>3. PICK e \in Nat : e = at % n /\ e < n
  BY <1>1
<1>4. at = page * n + e /\ page * n \in Int
  <2>1. page = at \div n
    BY <1>1, <1>2 DEF Page
  <2>2. at = (at \div n) * n + (at % n) /\ (at \div n) * n \in Int
    OBVIOUS
  <2> QED BY <1>3, <2>1, <2>2
<1>5. PICK i \in Nat : x = at + i /\ i < w
  <2>1. x \in Int /\ at <= x /\ x <= at + w - 1
    BY <1>1
  <2>2. x - at \in Nat /\ x = at + (x - at) /\ x - at < w
    BY <2>1
  <2> QED BY <2>2
<1>6. x \in Nat /\ Page(x) = page
  <2>1. page * PageWords <= x /\ x < page * PageWords + PageWords
    BY <1>1, <1>3, <1>4, <1>5
  <2> QED BY <1>5, <2>1, PageIsOne
<1>7. PICK g : /\ g[0] = [c |-> SlotFlushed(at), count |-> w, entry |-> e]
               /\ g[1] = PageOfRegion(g[0], page)
               /\ Flushes(Now, g[1].c) /\ Flushes(g[1].c, d)
  BY <1>1, <1>2, <1>3, RegionFlushes DEF CacheInv
<1>8. PICK c, s : c = SlotFlushed(at) /\ s = g[0]
  OBVIOUS
<1>9. s.c = c /\ s.count = w /\ s.entry = e /\ Flushes(Now, c)
  BY <1>0, <1>1, <1>7, <1>8, SlotFlushes DEF CacheInv
<1>10. Min({w, n - e}) = w
  <2>1. w <= n - e /\ w \in {w, n - e}
    BY <1>1, <1>3
  <2>2. \A v \in {w, n - e} : w <= v /\ (v <= w => v = w)
    BY <1>1, <1>3, <2>1
  <2> QED BY <2>1, <2>2 DEF Min
<1>11. CASE page \in pages /\ c.lut[x] # Empty
  <2>1. g[1].c = PageFlushed(c, page)
    <3>1. page * PageWords + s.entry + i = x /\ i \in 0 .. w - 1 /\ ~(s.count <= 0)
      BY <1>1, <1>4, <1>5, <1>9
    <3>2. Min({s.count, PageWords - s.entry}) = w
      BY <1>1, <1>9, <1>10
    <3>3. \E k \in 0 .. (w - 1) : s.c.lut[page * PageWords + s.entry + k] # Empty
      BY <1>9, <1>11, <3>1
    <3>4. PageOfRegion(s, page).c = PageFlushed(s.c, page)
      BY <1>9, <1>11, <3>1, <3>2, <3>3, RegionPageFlushed
    <3> QED BY <1>7, <1>8, <1>9, <3>4
  <2> QED BY <1>6, <1>7, <1>9, <2>1, FlushedPageClean
<1>12. CASE ~(page \in pages /\ c.lut[x] # Empty)
  <2>1. PICK y : y = g[1].c
    OBVIOUS
  <2>2. Flushes(Now, d)
    BY <1>7, FlushesTwice
  <2>3. Whole(d, {}, {}) /\ Typed(d) /\ None \notin DOMAIN d.code /\ Page(d.code[p].first) \in pages
    BY <2>2, LeftOver
  <2>4. Page(d.code[p].first) = Page(x)
    BY <1>6, <2>3, TraceLeft
  <2>5. c.lut[x] # Empty
    <3>1. Flushes(c, d)
      <4>1. Sound(s.c) /\ Flushes(s.c, y)
        BY <1>7, <1>8, <1>9, <2>1, RegionPageFlushes DEF Flushes
      <4> QED BY <1>7, <1>9, <2>1, <4>1, FlushesTwice
    <3>2. Whole(c, {}, {}) /\ Typed(c) /\ None \notin DOMAIN c.code
      BY <1>9, LeftOver
    <3>3. p \in DOMAIN c.code /\ c.code[p].first = d.code[p].first /\ c.code[p].last = d.code[p].last
      BY <3>1 DEF Flushes, Shrunk, Same
    <3>4. Apart(c.code[p])
      BY <3>3 DEF Apart
    <3> QED BY <1>6, <3>2, <3>3, <3>4, TraceLeft
  <2> QED BY <1>6, <1>12, <2>3, <2>4, <2>5
<1> QED BY <1>11, <1>12

(* What no block runs over may be written.                                 *)
LEMMA WrittenFresh ==
  ASSUME CacheInv, AllFresh, NEW c, Flushes(Now, c), NEW ws, Written(c, ws),
         \A p \in DOMAIN c.code : Apart(c.code[p]) =>
           (c.code[p].first .. c.code[p].last) \cap ws = {}
  PROVE  AllFresh'
<1>1. Sound(c) /\ Shrunk(Now, c)
  BY DEF Flushes
<1> SUFFICES ASSUME NEW p \in DOMAIN code', Apart(code'[p]), code'[p].stale PROVE FALSE
  BY DEF AllFresh
<1>2. /\ p \in DOMAIN c.code
      /\ code'[p].first = c.code[p].first /\ code'[p].last = c.code[p].last
      /\ \/ c.code[p].stale
         \/ (c.code[p].first .. c.code[p].last) \cap ws # {}
  BY <1>1, WrittenFacts
<1>3. Apart(c.code[p])
  BY <1>2 DEF Apart
<1>4. /\ p \in DOMAIN code /\ code[p].first = c.code[p].first /\ code[p].last = c.code[p].last
      /\ code[p].stale = c.code[p].stale
  BY <1>1, <1>2, NowFacts DEF Shrunk, Same
<1>5. Apart(code[p])
  BY <1>3, <1>4 DEF Apart
<1> QED BY <1>2, <1>3, <1>4, <1>5 DEF AllFresh

LEMMA EvenPages ==
  ASSUME PageWords % 2 = 0, NEW w \in Nat, w % 2 = 0
  PROVE  Page(w + 1) = Page(w)
<1>1. PICK n \in Nat \ {0} : n = PageWords /\ n % 2 = 0
  BY Sizes
<1>2. PICK h \in Int : n = 2 * h
  BY <1>1
<1>3. PICK k \in Int : w = 2 * k
  OBVIOUS
<1>4. PICK a \in Int : a = Page(w)
  BY PageFacts
<1>5. a * n <= w /\ w < a * n + n
  BY <1>1, <1>4, PageFacts
<1>6. PICK q \in Int : q = a * h /\ a * n = 2 * q
  <2>1. a * h \in Int /\ a * (2 * h) = 2 * (a * h)
    OBVIOUS
  <2> QED BY <1>2, <2>1
<1>7. w + 1 < a * n + n
  BY <1>2, <1>3, <1>5, <1>6
<1>8. PICK v \in Nat : v = w + 1 /\ w <= v
  OBVIOUS
<1>9. a * PageWords <= w /\ v < a * PageWords + PageWords
  BY <1>1, <1>5, <1>7, <1>8
<1> QED BY <1>4, <1>8, <1>9, PageIsOne

(* A long word is two words of one page, and both of them are tested.      *)
LEMMA WordsFresh ==
  ASSUME CacheInv, Agreed, AllFresh, LongWords >= 2, PageWords % 2 = 0, NEW w \in Word
  PROVE  (WriteWord(w) => AllFresh') /\ (WriteLong(w) => AllFresh')
<1>1. w \in Nat /\ Word = 0 .. Words - 1 /\ Words \in Nat /\ LongWords \in Nat
  BY Sizes DEF Word
<1>2. \A tested : Flushes(Now, Checked(w, tested))
  BY CheckFlushes DEF CacheInv
<1>3. ASSUME WriteWord(w)
      PROVE  AllFresh'
  <2>1. busy = {} /\ Written(Checked(w, {w}), {w})
    BY <1>3 DEF WriteWord, Idle
  <2>2. PICK c : c = Checked(w, {w})
    OBVIOUS
  <2>3. ASSUME NEW p \in DOMAIN c.code, Apart(c.code[p])
        PROVE  (c.code[p].first .. c.code[p].last) \cap {w} = {}
    <3> SUFFICES ASSUME c.code[p].first <= w, w <= c.code[p].last PROVE FALSE
      BY <1>1
    <3> QED BY <1>1, <2>1, <2>2, <2>3, CheckedClean
  <2> QED BY <1>2, <2>1, <2>2, <2>3, WrittenFresh
<1>4. ASSUME WriteLong(w)
      PROVE  AllFresh'
  <2>1. PICK tested : tested = Word \cap (w .. (w + LongWords - 1))
    OBVIOUS
  <2>2. busy = {} /\ w % 2 = 0 /\ Written(Checked(w, tested), {w, w + 1})
    BY <1>4, <2>1 DEF WriteLong, Idle
  <2>3. PICK c : c = Checked(w, tested)
    OBVIOUS
  <2>4. Flushes(Now, c) /\ Typed(c)
    BY <1>2, <2>3 DEF Flushes, Sound
  <2>5. ASSUME NEW p \in DOMAIN c.code, Apart(c.code[p])
        PROVE  (c.code[p].first .. c.code[p].last) \cap {w, w + 1} = {}
    <3> SUFFICES ASSUME NEW x \in {w, w + 1}, c.code[p].first <= x, x <= c.code[p].last PROVE FALSE
      BY <1>1
    <3>1. c.code[p].first \in Word /\ c.code[p].last \in Word
      BY <2>4 DEF Typed, Block
    <3>2. x \in Word /\ x \in Nat /\ x \in tested
      BY <1>1, <2>1, <3>1
    <3>3. Page(x) = Page(w)
      BY <1>1, <2>2, EvenPages
    <3> QED BY <2>2, <2>3, <2>5, <3>2, <3>3, CheckedClean
  <2> QED BY <2>2, <2>3, <2>4, <2>5, WrittenFresh
<1> QED BY <1>3, <1>4

LEMMA RegionFresh ==
  ASSUME CacheInv, Agreed, AllFresh, NEW r \in Regions,
         (r.at % PageWords) + r.words <= PageWords, WriteRegion(r)
  PROVE  AllFresh'
<1>1. PICK ws : ws = r.at .. (r.at + r.words - 1)
  OBVIOUS
<1>2. busy = {} /\ Written(RegionFlushed(r), ws)
  BY <1>1 DEF WriteRegion, Idle
<1>3. PICK c : c = RegionFlushed(r)
  OBVIOUS
<1>4. Flushes(Now, c)
  BY <1>3, RegionFlushes, FlushesTwice DEF CacheInv
<1>5. ASSUME NEW p \in DOMAIN c.code, Apart(c.code[p])
      PROVE  (c.code[p].first .. c.code[p].last) \cap ws = {}
  <2> SUFFICES ASSUME NEW x \in ws, c.code[p].first <= x, x <= c.code[p].last PROVE FALSE
    <3>1. c.code[p].first \in Int /\ c.code[p].last \in Int
      <4>1. c.code[p].first \in Word /\ c.code[p].last \in Word
        BY <1>4 DEF Flushes, Sound, Typed, Block
      <4> QED BY <4>1, Sizes DEF Word
    <3> QED BY <3>1
  <2> QED BY <1>1, <1>2, <1>3, <1>5, RegionClean
<1> QED BY <1>2, <1>3, <1>4, <1>5, WrittenFresh

LEMMA StepFresh ==
  ASSUME NEW m, Modes = {m}, LongWords >= 2, PageWords % 2 = 0,
         \A r \in Regions : (r.at % PageWords) + r.words <= PageWords,
         CacheInv, Agreed, AllFresh, [Next]_vars
  PROVE  AllFresh'
<1>1. CASE \E w \in Word : WriteWord(w) \/ WriteLong(w)
  BY <1>1, WordsFresh
<1>2. CASE \E r \in Regions : WriteRegion(r)
  BY <1>2, RegionFresh
<1> QED BY <1>1, <1>2, QuietStepAgrees

(* With one mode of the processor, entries of 32 bits, and regions that    *)
(* stay on a page: code that is apart from the rest of the program is      *)
(* never left standing by a write to it, be it a word, a long or a region. *)
(* (xlat_invalidate_word, xlat_invalidate_long, xlat_invalidate_block,     *)
(* xlat_commit_block)                                                      *)
THEOREM PrivateCodeIsFresh ==
  ASSUME NEW CONSTANT m, Modes = {m}, LongWords >= 2, PageWords % 2 = 0,
         \A r \in Regions : (r.at % PageWords) + r.words <= PageWords
  PROVE  Spec => []PrivateCodeFresh
<1>1. Init => CacheInv /\ AllFresh
  BY InitSafe, EmptyAgrees DEF Init
<1>2. CacheInv /\ Agreed /\ AllFresh /\ [Next]_vars => AllFresh'
  BY StepFresh
<1>3. AllFresh => PrivateCodeFresh
  BY DEF AllFresh, PrivateCodeFresh
<1> QED BY <1>1, <1>2, <1>3, CacheIsSafe, CacheAgrees, PTL DEF Spec
=============================================================================
