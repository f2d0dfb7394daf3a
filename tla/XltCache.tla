------------------------------ MODULE XltCache ------------------------------
(***************************************************************************)
(* The translation cache of xlat/xltcache.c as sh4/sh4trans.c,            *)
(* sh4/sh4x86.in and the memory handlers use it, built without            *)
(* XLAT_GENERATIONAL_CACHE as the sources are.                            *)
(*                                                                         *)
(* The cache is one stretch of memory, cut into blocks that follow each    *)
(* other.  A translation takes the block at xlat_new_cache_ptr, swallows   *)
(* its successors while it grows, moves to the front when it meets the     *)
(* end, and gives back what it did not use.  The lookup table has one      *)
(* entry per SH4 word: the newest translation that starts there, and a     *)
(* mark that some translation runs over the word.  Translations of one     *)
(* word for several modes of the processor hang on each other (chain).     *)
(* The exit of a translation is patched into a jump to the next one, and   *)
(* the target keeps the patched places on its use_list, to undo them when  *)
(* it is deleted.                                                          *)
(*                                                                         *)
(* Memory is counted in units, a block's header in with its code; the      *)
(* place that is patched lies in the last unit of a block.  wild says that *)
(* the program has used a pointer that leads nowhere, after which the C    *)
(* program may do anything and the model stops.                            *)
(*                                                                         *)
(* Definitions marked "Faulty" are variants of the one that follows; the   *)
(* specification does not use them.  They show that a property can fail.   *)
(***************************************************************************)
EXTENDS Integers, FiniteSets, FiniteSetsExt, Functions

CONSTANTS Units,      \* XLAT_NEW_CACHE_SIZE
          MaxAsk,     \* most a translation asks for
          Words,      \* number of SH4 words
          PageWords,  \* XLAT_LUT_PAGE_ENTRIES
          LongWords,  \* entries that the uint64_t of xlat_invalidate_long covers
          Modes,      \* values of sh4r.xlat_sh4_mode
          Code,       \* basic blocks of the SH4 program: [first, last, target]
          Regions     \* what mem_copy_to_sh4 writes: [at, words]

None == -1
MinTotal == 1         \* MIN_TOTAL_SIZE, and MIN_BLOCK_SIZE with its header

Word == 0..(Words - 1)
Page(w) == w \div PageWords
NumPages == Words \div PageWords

(* The translator stops at the end of a page; the delay slot of a branch in *)
(* the last word is the one word it takes from the next (sh4trans.c:107).   *)
ASSUME CodeAssumption ==
    \A b \in Code : /\ b.first \in Word /\ b.last \in Word
                    /\ b.first <= b.last
                    /\ Page(b.last - 1) <= Page(b.first)
                    /\ b.target \in Word \cup {None}

(* A block that moves to the front does not reach its old place. *)
ASSUME SizeAssumption == /\ {Units, MaxAsk, Words, PageWords, LongWords} \subseteq Nat \ {0}
                         /\ Units >= 2 * MaxAsk
                         /\ Words % PageWords = 0

ASSUME RegionAssumption == \A r \in Regions : r.at \in Word /\ r.words \in Nat

VARIABLES heap,    \* start of a block -> its size
          code,    \* start of an active block -> what it holds
          lut,     \* word -> [code, used]
          pages,   \* pages of the lookup table that are allocated
          ptr,     \* xlat_new_cache_ptr; Units is the sentinel
          busy,    \* the translation under way, a set of at most one
          wild

vars == <<heap, code, lut, pages, ptr, busy, wild>>

Empty == [code |-> None, used |-> FALSE]
Extent(p) == p..(p + heap[p] - 1)
Site(p) == p + heap[p] - 1

(* What the operations below change: the active blocks, the table and wild. *)
Now == [code |-> code, lut |-> lut, wild |-> wild]
Becomes(c) == code' = c.code /\ lut' = c.lut /\ wild' = c.wild

(***************************************************************************)
(* Deleting blocks                                                         *)
(***************************************************************************)
(* Sources(c, p): the blocks that jump to p.  Unlinking writes on every    *)
(* place of the use_list, whether or not a jump to p is still there.       *)
Sources(c, p) == {q \in DOMAIN c.code : c.code[q].jump = p /\ Site(q) \in c.code[p].uses}

HitsOther(c, p) ==
    \E u \in c.code[p].uses, q \in DOMAIN c.code \ {p} :
        u \in Extent(q) /\ ~(q \in Sources(c, p) /\ u = Site(q))

(* Faulty: the jumps to the block stay *)
DeletedNotUnlinked(c, p) ==
    [code |-> Restrict(c.code, DOMAIN c.code \ {p}),
     lut |-> [c.lut EXCEPT ![c.code[p].first] = [code |-> c.code[p].chain, used |-> FALSE]],
     wild |-> c.wild]

Deleted(c, p) ==
    [code |-> [q \in DOMAIN c.code \ {p} |->
                  IF q \in Sources(c, p) THEN [c.code[q] EXCEPT !.jump = None] ELSE c.code[q]],
     lut |-> [c.lut EXCEPT ![c.code[p].first] = [code |-> c.code[p].chain, used |-> FALSE]],
     wild |-> IF HitsOther(c, p) THEN "list" ELSE c.wild]

Evicted(c, p) == IF p \in DOMAIN c.code THEN Deleted(c, p) ELSE c

(* The blocks found from the entry of w along the chain.  Units steps are   *)
(* enough, as there are no more blocks.                                     *)
Onward(c, S) == S \cup ({c.code[p].chain : p \in S \cap DOMAIN c.code} \ {None})

Chain(c, w) ==
    LET Found[k \in 0..Units] == IF k = 0 THEN {c.lut[w].code} \ {None}
                                 ELSE Onward(c, Found[k - 1])
    IN  Found[Units]

Leads(c, w) == \A p \in Chain(c, w) : p \in DOMAIN c.code /\ c.code[p].first = w

(* Faulty: the blocks stay active *)
EntryFlushedKeepsBlocks(c, w) == [c EXCEPT !.lut[w] = Empty]

(* The block at s.at is deleted, and then the next of its chain. *)
ChainTurn(s) ==
    IF s.at \in DOMAIN s.c.code
    THEN [c |-> Deleted(s.c, s.at), at |-> s.c.code[s.at].chain]
    ELSE s

ChainDeleted(c, w) ==
    LET After[k \in 0..Units] == IF k = 0 THEN [c |-> c, at |-> c.lut[w].code]
                                 ELSE ChainTurn(After[k - 1])
    IN  After[Units].c

EntryFlushed(c, w) ==
    IF Leads(c, w) THEN [ChainDeleted(c, w) EXCEPT !.lut[w] = Empty]
                   ELSE [c EXCEPT !.wild = "entry"]

PageFlushed(c, page) ==
    LET After[i \in 0..PageWords] ==
            IF i = 0 THEN c ELSE EntryFlushed(After[i - 1], page * PageWords + i - 1)
    IN  After[PageWords]

(***************************************************************************)
(* Start: xlat_cache_init                                                  *)
(***************************************************************************)
OneFreeBlock == [p \in {0} |-> Units]
NoCode == [p \in {} |-> None]
NoEntries == [w \in Word |-> Empty]

Init == /\ heap = OneFreeBlock /\ ptr = 0
        /\ code = NoCode
        /\ lut = NoEntries
        /\ pages = {}
        /\ busy = {}
        /\ wild = "no"

Idle == wild = "no" /\ busy = {}

(***************************************************************************)
(* Translating                                                             *)
(***************************************************************************)
(* The run loop, and the exit of block s that is not patched yet, look for *)
(* a translation of the word in the present mode.  A search along a chain  *)
(* that leads nowhere (not Leads) is beyond the model.                     *)
Find(w, m) == {p \in Chain(Now, w) : code[p].mode = m}

(* xlat_start_block; from holds the place of the exit that asked, if any.  *)
Start(b, m, ask, from) ==
    LET at == IF ptr = Units THEN 0 ELSE ptr
        c == Evicted(Now, at)
        entry == c.lut[b.first]
        new == [first |-> b.first, last |-> b.last, target |-> b.target,
                mode |-> m, chain |-> entry.code,
                jump |-> None, uses |-> {}, stale |-> FALSE]
    IN  /\ code' = [p \in DOMAIN c.code \cup {at} |-> IF p = at THEN new ELSE c.code[p]]
        /\ lut' = [c.lut EXCEPT ![b.first] = [code |-> at, used |-> entry.used]]
        /\ wild' = IF entry.code \in DOMAIN c.code \cup {None} THEN c.wild ELSE "entry"
        /\ pages' = pages \cup {Page(b.first)}
        /\ ptr' = at + heap[at]
        /\ busy' = {[at |-> at, ask |-> ask, from |-> from]}
        /\ UNCHANGED heap

StartBlock(b, m, ask) ==
    /\ Idle
    /\ Leads(Now, b.first)
    /\ Find(b.first, m) = {}
    /\ Start(b, m, ask, {})

(* sh4_translate_link_block *)
Patched(c, s, t) ==
    [c EXCEPT ![s].jump = t, ![t].uses = @ \cup {Site(s)}]

Linking(s) == /\ Idle
              /\ code[s].target # None /\ code[s].jump = None
              /\ Leads(Now, code[s].target)

LinkFound(s) ==
    /\ Linking(s)
    /\ \E t \in Find(code[s].target, code[s].mode) :
           /\ code' = Patched(code, s, t)
           /\ wild' = IF Site(s) \in code[t].uses THEN "list" ELSE wild
    /\ UNCHANGED <<heap, lut, pages, ptr, busy>>

LinkTranslate(s, b, ask) ==
    /\ Linking(s)
    /\ b.first = code[s].target
    /\ Find(b.first, code[s].mode) = {}
    /\ Start(b, code[s].mode, ask, {Site(s)})

(* xlat_extend_block, the next block taken in *)
Short(t) == heap[t.at] < t.ask

ExtendBlock ==
    /\ wild = "no"
    /\ \E t \in busy :
           /\ Short(t) /\ ptr # Units
           /\ Becomes(Evicted(Now, ptr))
           /\ heap' = [p \in DOMAIN heap \ {ptr} |->
                          IF p = t.at THEN heap[p] + heap[ptr] ELSE heap[p]]
           /\ ptr' = ptr + heap[ptr]
    /\ UNCHANGED <<pages, busy>>

(* The blocks below end are evicted, from the front on. *)
FrontEvicted(c, end) ==
    LET After[p \in 0..end] == IF p = 0 THEN c ELSE Evicted(After[p - 1], p - 1)
    IN  After[end]

(* The translation at t.at, moved to the front. *)
Moved(t, c) ==
    [c EXCEPT !.code = [p \in DOMAIN @ \cup {0} |-> IF p = 0 THEN code[t.at] ELSE @[p]],
              !.lut[code[t.at].first] = [code |-> 0, used |-> FALSE]]

(* xlat_extend_block, "Migrate to the front of the cache" *)
MigrateBlock ==
    /\ wild = "no"
    /\ \E t \in busy :
           LET end == Min({p \in DOMAIN heap \cup {Units} : p >= heap[t.at] + MinTotal})
               left == [Now EXCEPT !.code = Restrict(@, DOMAIN @ \ {t.at})]
           IN  /\ Short(t) /\ ptr = Units
               /\ Becomes(Moved(t, FrontEvicted(left, end)))
               /\ heap' = [p \in {0} \cup {q \in DOMAIN heap : q >= end} |->
                              IF p = 0 THEN end ELSE heap[p]]
               /\ ptr' = end
               /\ busy' = {[t EXCEPT !.at = 0]}
    /\ UNCHANGED pages

(* Faulty: the rest of the block is counted from the wrong end *)
CutSwapped(p, size) ==
    IF heap[p] > size + MinTotal
    THEN [q \in DOMAIN heap \cup {p + size} |->
             IF q \in {p, p + size} THEN heap[p] - size ELSE heap[q]]
    ELSE heap

(* xlat_cut_block: the rest becomes a free block if it is worth one. *)
Cut(p, size) ==
    IF heap[p] > size + MinTotal
    THEN [q \in DOMAIN heap \cup {p + size} |->
             IF q = p THEN size ELSE IF q = p + size THEN heap[p] - size ELSE heap[q]]
    ELSE heap

(* Faulty: the last word is not marked *)
MarksShort(b) == {w \in Word : b.first < w /\ w < b.last}

Marks(b) == {w \in Word : b.first < w /\ w <= b.last}

(* xlat_commit_block, and the exit that asked for the translation patched:  *)
(* wherever the new translation has not taken its place, this is harmless.  *)
CommitBlock(size) ==
    /\ wild = "no"
    /\ \E t \in busy :
           LET b == code[t.at]
               askers == {s \in DOMAIN code \ {t.at} : Site(s) \in t.from}
           IN  /\ ~Short(t) /\ size <= t.ask
               /\ heap' = Cut(t.at, size)
               /\ ptr' = t.at + heap'[t.at]
               /\ lut' = [w \in Word |-> IF w \in Marks(b) THEN [lut[w] EXCEPT !.used = TRUE]
                                                            ELSE lut[w]]
               /\ pages' = pages \cup {Page(w) : w \in Word \cap ((b.first + 1)..Max({b.first + 1, b.last}))}
               /\ code' = [p \in DOMAIN code |->
                              IF p = t.at THEN [b EXCEPT !.uses = t.from]
                              ELSE IF p \in askers THEN [code[p] EXCEPT !.jump = t.at]
                              ELSE code[p]]
               /\ wild' = IF t.from \cap (t.at..(ptr' - 1)) # {} THEN "caller" ELSE wild
    /\ busy' = {}

(***************************************************************************)
(* Invalidating                                                            *)
(***************************************************************************)
(* A write to words ws: what still stands after invalidation is stale.     *)
Written(c, ws) ==
    /\ code' = [p \in DOMAIN c.code |->
                   IF (c.code[p].first..c.code[p].last) \cap ws # {}
                   THEN [c.code[p] EXCEPT !.stale = TRUE] ELSE c.code[p]]
    /\ lut' = c.lut
    /\ wild' = c.wild
    /\ UNCHANGED <<heap, pages, ptr, busy>>

(* "First entry may be a delay-slot for the previous page" *)
SlotFlushed(w) ==
    IF w % PageWords = 0 /\ Page(w) \in pages /\ lut[w].used
    THEN PageFlushed(Now, Page(w) - 1) ELSE Now

(* xlat_invalidate_word, xlat_invalidate_long: tested are the entries that *)
(* decide on the page.                                                     *)
Checked(w, tested) ==
    LET c == SlotFlushed(w)
    IN  IF Page(w) \in pages /\ \E x \in tested : c.lut[x] # Empty
        THEN PageFlushed(c, Page(w)) ELSE c

WriteWord(w) == Idle /\ Written(Checked(w, {w}), {w})

WriteLong(w) ==
    /\ Idle
    /\ w % 2 = 0
    /\ Written(Checked(w, Word \cap (w..(w + LongWords - 1))), {w, w + 1})

(* One page of xlat_invalidate_block; an allocated page is taken off the   *)
(* count twice.                                                            *)
PageOfRegion(s, page) ==
    LET n == Min({s.count, PageWords - s.entry})
        hit == \/ n = PageWords
               \/ \E i \in 0..(n - 1) : s.c.lut[page * PageWords + s.entry + i] # Empty
    IN  IF s.count <= 0 THEN s
        ELSE [c |-> IF page \in pages /\ hit THEN PageFlushed(s.c, page) ELSE s.c,
              count |-> s.count - n - (IF page \in pages THEN n ELSE 0),
              entry |-> 0]

(* From the page of r.at to the last. *)
RegionFlushed(r) ==
    LET from == Page(r.at)
        After[i \in 0..(NumPages - from)] ==
            IF i = 0
            THEN [c |-> SlotFlushed(r.at), count |-> r.words, entry |-> r.at % PageWords]
            ELSE PageOfRegion(After[i - 1], from + i - 1)
    IN  After[NumPages - from].c

(* mem_copy_to_sh4 *)
WriteRegion(r) == Idle /\ Written(RegionFlushed(r), r.at..(r.at + r.words - 1))

FlushCache ==
    /\ Idle
    /\ heap' = OneFreeBlock /\ ptr' = 0
    /\ code' = NoCode
    /\ lut' = NoEntries
    /\ UNCHANGED <<pages, busy, wild>>

Next ==
    \/ \E b \in Code, m \in Modes, ask \in 1..MaxAsk : StartBlock(b, m, ask)
    \/ \E s \in DOMAIN code : LinkFound(s)
    \/ \E s \in DOMAIN code, b \in Code, ask \in 1..MaxAsk : LinkTranslate(s, b, ask)
    \/ ExtendBlock
    \/ MigrateBlock
    \/ \E size \in 1..MaxAsk : CommitBlock(size)
    \/ \E w \in Word : WriteWord(w)
    \/ \E w \in Word : WriteLong(w)
    \/ \E r \in Regions : WriteRegion(r)
    \/ FlushCache

Spec == Init /\ [][Next]_vars

(***************************************************************************)
(* Properties                                                              *)
(***************************************************************************)
(* Every variable has its type (xltcache.h:40-52). *)
TypeOK ==
    /\ DOMAIN heap \subseteq 0..(Units - 1)
    /\ \A p \in DOMAIN heap : heap[p] \in 1..Units
    /\ DOMAIN code \subseteq DOMAIN heap
    /\ \A p \in DOMAIN code :
           /\ code[p].first \in Word /\ code[p].last \in Word
           /\ code[p].mode \in Modes
           /\ code[p].chain \in -1..(Units - 1) /\ code[p].jump \in -1..(Units - 1)
           /\ code[p].uses \subseteq 0..(Units - 1)
           /\ code[p].stale \in BOOLEAN
    /\ lut \in [Word -> [code : -1..(Units - 1), used : BOOLEAN]]
    /\ pages \subseteq {Page(w) : w \in Word}
    /\ ptr \in 0..Units
    /\ \A t \in busy : t.at \in DOMAIN code /\ t.ask \in 1..MaxAsk
    /\ Cardinality(busy) <= 1
    /\ wild \in {"no", "list", "entry", "caller"}

(* The blocks follow each other from the start of the cache to its end, and *)
(* xlat_new_cache_ptr is one of them or the end: what xlat_check_integrity  *)
(* walks over (xltcache.c:540-559), at every step of a translation.         *)
Tiling ==
    /\ 0 \in DOMAIN heap
    /\ ptr \in DOMAIN heap \cup {Units}
    /\ \A p \in DOMAIN heap :
           /\ p + heap[p] \in DOMAIN heap \cup {Units}
           /\ \A q \in DOMAIN heap : q > p => q >= p + heap[p]

(* The run loop starts what it finds (sh4trans.c:47-57): an entry of the   *)
(* table leads to an active translation of that very word.                 *)
EntriesLead ==
    \A w \in Word : lut[w].code # None =>
        lut[w].code \in DOMAIN code /\ code[lut[w].code].first = w

(* No active translation is lost to the table: invalidation, which walks    *)
(* the table (xltcache.c:144), would leave it standing and its exits        *)
(* patched.                                                                 *)
AllFound == \A p \in DOMAIN code : p \in Chain(Now, code[p].first)

(* A patched exit jumps without a look at anything (sh4x86.in:551): it must *)
(* lead to an active translation of its target, in its own mode, that knows *)
(* of the jump.                                                             *)
JumpsLead ==
    wild = "no" =>
        \A s \in DOMAIN code : code[s].jump # None =>
            /\ code[s].jump \in DOMAIN code
            /\ LET t == code[code[s].jump]
               IN  t.first = code[s].target /\ t.mode = code[s].mode /\ Site(s) \in t.uses

(* The memory of the cache, its table and the active translations agree:    *)
(* blocks tile it, what the table leads to may be run, and what may be run  *)
(* is found by the invalidation that must end it.  (xlat_delete_block,      *)
(* xlat_extend_block, xlat_flush_page_by_lut)                               *)
CacheIntact == Tiling /\ EntriesLead /\ AllFound

(* Code that no other block of the program begins within, and that stays    *)
(* on its page, is never run after a write to it (sdram.c:42-52,            *)
(* sh4mem.c:66).                                                            *)
Apart(b) == /\ Page(b.first) = Page(b.last)
            /\ \A x \in Code : x.first = b.first \/ x.first \notin b.first..b.last

PrivateCodeFresh ==
    wild = "no" => \A p \in DOMAIN code : Apart(code[p]) => ~code[p].stale

(* "Invalidate the code cache for a memory region" (xltcache.h:167): no     *)
(* translation of overwritten code is left.                                 *)
AllCodeFresh == \A p \in DOMAIN code : ~code[p].stale

(* assert( oldblock->active ) (xltcache.c:445) never fails. *)
OldBlockActive == wild # "entry"

(* "Given a block's use_list, remove all direct links to the block"         *)
(* (sh4trans.h:152): that, and nothing else, is written.                    *)
UnlinksOnlyLinks == wild # "list"

(* Not promised anywhere, and not so: the exit that asks for a translation  *)
(* is still there when it comes back (sh4x86.in:548-553).                   *)
CallerKept == wild # "caller"

-----------------------------------------------------------------------------
(* Programs and regions for TLC: two pages of four words. *)
B(first, last, target) == [first |-> first, last |-> last, target |-> target]

(* A loop of two blocks, and a block that starts within the first of them   *)
(* and has its branch at the end of a page, its delay slot on the next.     *)
Program == {B(0, 2, 5), B(1, 4, None), B(5, 6, 0)}

(* Two blocks, without exits to patch. *)
Plain == {B(0, 1, None), B(2, 2, None)}

(* A loop of two blocks and a third one. *)
Loop == {B(0, 0, 1), B(1, 1, 0), B(2, 2, None)}

(* Writes that stay on one page: part of the first, all of the second. *)
OnePage == {[at |-> 1, words |-> 2], [at |-> 4, words |-> 4]}
NoRegion == {}
=============================================================================
