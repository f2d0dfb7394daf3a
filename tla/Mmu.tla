--------------------------------- MODULE Mmu ---------------------------------
(***************************************************************************)
(* The UTLB and the tables derived from it (src/sh4/mmu.c).  Memory is not *)
(* accessed by searching the UTLB but through two maps with an entry per   *)
(* page, one for privileged and one for user mode.  Every change of the    *)
(* UTLB, of the ASID and of MMUCR patches the maps, so that they say what  *)
(* the search would.                                                       *)
(*                                                                         *)
(* Pages here are those of 4K and larger; the pool for 1K pages, the store *)
(* queue area and the fixed regions above 0x80000000 are left out.         *)
(***************************************************************************)
EXTENDS Integers, FiniteSets, SequencesExt

CONSTANTS
  EntryCount,     \* UTLB_ENTRY_COUNT
  Page,           \* the pages of the mapped area, 0 .. n
  Shapes,         \* page, size, share and user bits of the mappings written
  Asid

VARIABLES
  utlb,           \* mmu_utlb
  priv, user,     \* sh4_address_space, sh4_user_address_space
  asid,           \* mmu_asid
  at, sv,         \* MMUCR_AT, MMUCR_SV
  tangled         \* history: see Tangled

vars == <<utlb, priv, user, asid, at, sv, tangled>>

Entry == 0 .. EntryCount - 1
InOrder == [i \in 1 .. EntryCount |-> i - 1]

(* What a page can lead to, besides the code of an entry: the external     *)
(* address space, a TLB miss, a protection violation, a multiple hit.      *)
EXT == -1
MISS == -2
PROT == -3
MULTI == -4
NULL == -5         \* no page is to be mapped

External == [p \in Page |-> EXT]

Mapping(shape, a, v) == [vpn |-> shape.vpn, size |-> shape.size, share |-> shape.share,
                         usermode |-> shape.usermode, asid |-> a, valid |-> v]

-----------------------------------------------------------------------------
(* Definitions marked "Faulty" are variants of the one that follows; the   *)
(* specification does not use them.  They show that a property can fail.   *)

Aligned(v, size) == (v \div size) * size
Region(base, size) == base .. base + size - 1
Covered(m) == Region(Aligned(m.vpn, m.size), m.size)

(* The state of the two maps as a pair, so that patches can be chained.    *)
Maps == [priv |-> priv, user |-> user]

(* mmu_utlb_map_pages: a page in use becomes a multiple hit.               *)
MapOne(tab, fn, P) ==
  [p \in Page |-> IF p \in P /\ fn # NULL
                  THEN IF tab[p] = MISS THEN fn ELSE MULTI
                  ELSE tab[p]]

MapPages(t, pfn, ufn, P) ==
  [priv |-> MapOne(t.priv, pfn, P), user |-> MapOne(t.user, ufn, P)]

UnmapOne(tab, on, P) == [p \in Page |-> IF p \in P /\ on THEN MISS ELSE tab[p]]

(* mmu_utlb_unmap_pages, and what it returns.                              *)
UnmapPages(t, onPriv, onUser, P) ==
  [priv |-> UnmapOne(t.priv, onPriv, P), user |-> UnmapOne(t.user, onUser, P)]

CleanUnmap(t, onPriv, onUser, P) ==
  \A p \in P : ~(onPriv /\ t.priv[p] = MULTI) /\ ~(onUser /\ t.user[p] = MULTI)

UserFn(u, e) == IF u[e].usermode THEN e ELSE PROT

Visible(m, a) == m.share \/ m.asid = a

(* What mmu_utlb_insert_entry and mmu_utlb_remap_pages end in: the page is *)
(* mapped for both modes, for privileged mode alone, or not at all.        *)
MapVisible(t, m, a, s, pfn, ufn, P) ==
  IF Visible(m, a) THEN MapPages(t, pfn, ufn, P)
  ELSE IF s THEN MapPages(t, pfn, NULL, P)
  ELSE t

InsertEntry(t, u, e, a, s) == MapVisible(t, u[e], a, s, e, UserFn(u, e), Covered(u[e]))

(* mmu_utlb_remap_pages.  The user page follows the privileged one, and an *)
(* overlap is looked for by comparing page numbers, at the size of the     *)
(* entry that goes.                                                        *)
RemapPages(t, u, a, s, onPriv, gone) ==
  LET base == Aligned(u[gone].vpn, u[gone].size)
      Remap(acc, i) ==
        IF i # gone /\ u[i].valid /\ Aligned(u[i].vpn, u[gone].size) = base
        THEN MapVisible(acc, u[i], a, s,
                        IF onPriv THEN i ELSE NULL,
                        IF onPriv THEN UserFn(u, i) ELSE NULL,
                        IF u[i].size <= u[gone].size THEN Covered(u[i])
                        ELSE Covered(u[gone]))
        ELSE acc
  IN  FoldLeft(Remap, t, InOrder)

Unmap(t, u, a, s, onPriv, onUser, e) ==
  LET P == Covered(u[e])
      unmapped == UnmapPages(t, onPriv, onUser, P)
  IN  IF CleanUnmap(t, onPriv, onUser, P) THEN unmapped
      ELSE RemapPages(unmapped, u, a, s, onPriv, e)

(* mmu_utlb_remove_entry                                                   *)
RemoveEntry(t, u, e, a, s) ==
  IF Visible(u[e], a) THEN Unmap(t, u, a, s, TRUE, TRUE, e)
  ELSE IF s THEN Unmap(t, u, a, s, TRUE, FALSE, e)
  ELSE t

-----------------------------------------------------------------------------
(* The search that the maps stand for: mmu_utlb_lookup_vpn_asid and        *)
(* mmu_utlb_lookup_vpn.                                                    *)

Hits(u, a, anyAsid, p) ==
  {e \in Entry : u[e].valid /\ p \in Covered(u[e]) /\ (anyAsid \/ Visible(u[e], a))}

Found(hits, Fn(_)) ==
  IF hits = {} THEN MISS
  ELSE IF Cardinality(hits) > 1 THEN MULTI
  ELSE Fn(CHOOSE e \in hits : TRUE)

Overlaps(u, e, f) == e # f /\ u[e].valid /\ u[f].valid
                     /\ Covered(u[e]) \cap Covered(u[f]) # {}

(* Overlapping entries that the patches do not keep apart: more than two   *)
(* in one place, two of different sizes, or any where privileged mode sees *)
(* all ASIDs and user mode one.                                            *)
Tangled(u, s) ==
  \E e, f \in Entry :
    /\ Overlaps(u, e, f)
    /\ \/ s
       \/ u[e].size # u[f].size
       \/ \E g \in Entry \ {e} : Overlaps(u, f, g)

-----------------------------------------------------------------------------
(* MMU_init, MMU_reset: translation is off.                                *)
Init ==
  /\ \E s \in Shapes : utlb = [e \in Entry |-> Mapping(s, 0, FALSE)]
  /\ priv = External
  /\ user = External
  /\ asid = 0
  /\ at = FALSE /\ sv = FALSE
  /\ tangled = FALSE

(* An entry is replaced: out of the maps as it was, back in as it is.      *)
Replaced(e, m) ==
  LET u   == [utlb EXCEPT ![e] = m]
      out == IF utlb[e].valid THEN RemoveEntry(Maps, utlb, e, asid, sv) ELSE Maps
  IN  IF m.valid THEN InsertEntry(out, u, e, asid, sv) ELSE out

Store(e, m) ==
  /\ utlb' = [utlb EXCEPT ![e] = m]
  /\ LET t == IF at THEN Replaced(e, m) ELSE Maps
     IN  priv' = t.priv /\ user' = t.user
  /\ tangled' = (tangled \/ (at /\ Tangled(utlb', sv)))
  /\ UNCHANGED <<asid, at, sv>>

(* MMU_ldtlb: the entry is the one URC points to, its ASID that of PTEH.   *)
MMU_ldtlb(e, shape, valid) == Store(e, Mapping(shape, asid, valid))

(* mmu_utlb_addr_write: page number, ASID and valid bit.                   *)
WriteAddr(e, v, a, valid) ==
  Store(e, [utlb[e] EXCEPT !.vpn = v, !.asid = a, !.valid = valid])

(* mmu_utlb_data_write: everything else.                                   *)
WriteData(e, shape, valid) ==
  Store(e, [Mapping(shape, utlb[e].asid, valid) EXCEPT !.vpn = utlb[e].vpn])

(* mmu_utlb_addr_write with the associative bit: the one valid entry found *)
(* for the page may be made invalid.                                       *)
WriteAssociative(v, valid) ==
  /\ Cardinality(Hits(utlb, asid, FALSE, v)) = 1
  /\ \E e \in Hits(utlb, asid, FALSE, v) :
       IF valid THEN UNCHANGED vars ELSE Store(e, [utlb[e] EXCEPT !.valid = FALSE])

(* Faulty: the entries of the new ASID are not mapped.                     *)
SwitchAsidForgets(a) ==
  LET Own(m, b) == m.valid /\ ~m.share /\ m.asid = b
      Leave(acc, i) ==
        IF Own(utlb[i], asid) THEN Unmap(acc, utlb, asid, sv, ~sv, TRUE, i) ELSE acc
  IN  FoldLeft(Leave, Maps, InOrder)

(* mmu_set_tlb_asid: the pages of the old ASID go, those of the new come.  *)
SwitchAsid(a) ==
  LET Own(m, b) == m.valid /\ ~m.share /\ m.asid = b
      Leave(acc, i) ==
        IF Own(utlb[i], asid) THEN Unmap(acc, utlb, asid, sv, ~sv, TRUE, i) ELSE acc
      Enter(acc, i) ==
        IF Own(utlb[i], a)
        THEN MapPages(acc, IF sv THEN NULL ELSE i, UserFn(utlb, i), Covered(utlb[i]))
        ELSE acc
  IN  FoldLeft(Enter, FoldLeft(Leave, Maps, InOrder), InOrder)

WritePTEH(a) ==
  /\ a # asid
  /\ asid' = a
  /\ LET t == IF at THEN SwitchAsid(a) ELSE Maps
     IN  priv' = t.priv /\ user' = t.user
  /\ UNCHANGED <<utlb, at, sv, tangled>>

(* mmu_invalidate_tlb: the entries leave the maps one by one, and are      *)
(* marked invalid only then.                                               *)
Invalidated ==
  LET Leave(acc, i) ==
        IF utlb[i].valid THEN RemoveEntry(acc, utlb, i, asid, sv) ELSE acc
  IN  IF at THEN FoldLeft(Leave, Maps, InOrder) ELSE Maps

AllInvalid == [e \in Entry |-> [utlb[e] EXCEPT !.valid = FALSE]]

(* mmu_set_tlb_enabled, mmu_utlb_register_all; SV is still the old one.    *)
Enabled(u) ==
  LET Insert(acc, i) == IF u[i].valid THEN InsertEntry(acc, u, i, asid, sv) ELSE acc
      none == [p \in Page |-> MISS]
  IN  FoldLeft(Insert, [priv |-> none, user |-> none], InOrder)

(* A write of MMUCR: TI, then AT if it changes, then the register.  A      *)
(* change of SV patches nothing.                                           *)
WriteMMUCR(ti, a, s) ==
  LET u == IF ti THEN AllInvalid ELSE utlb
      t == CASE a = at -> IF ti THEN Invalidated ELSE Maps
             [] a /\ ~at -> Enabled(u)
             [] ~a /\ at -> [priv |-> External, user |-> External]
  IN  /\ utlb' = u
      /\ at' = a /\ sv' = s
      /\ priv' = t.priv /\ user' = t.user
      /\ tangled' = (a /\ (s # sv \/ (at /\ tangled) \/ Tangled(u, s)))
      /\ UNCHANGED asid

Next == \/ \E e \in Entry, m \in Shapes, b \in BOOLEAN : MMU_ldtlb(e, m, b) \/ WriteData(e, m, b)
        \/ \E e \in Entry, v \in Page, a \in Asid, b \in BOOLEAN : WriteAddr(e, v, a, b)
        \/ \E v \in Page, b \in BOOLEAN : WriteAssociative(v, b)
        \/ \E a \in Asid : WritePTEH(a)
        \/ \E ti, a, s \in BOOLEAN : WriteMMUCR(ti, a, s)

Spec == Init /\ [][Next]_vars

-----------------------------------------------------------------------------
(* While translation is on, both maps say of every page what a search of   *)
(* the UTLB would find there: no mapping of an entry or an ASID that is    *)
(* gone stays, none is missing, and two entries for a page are a multiple  *)
(* hit until one of them goes.  (mmu_utlb_insert_entry,                    *)
(* mmu_utlb_remove_entry, mmu_utlb_remap_pages, mmu_set_tlb_asid,          *)
(* mmu_invalidate_tlb)                                                     *)
MapsAreSearches ==
  at /\ ~tangled =>
    \A p \in Page :
      /\ priv[p] = Found(Hits(utlb, asid, sv, p), LAMBDA e : e)
      /\ user[p] = Found(Hits(utlb, asid, FALSE, p), LAMBDA e : UserFn(utlb, e))

(* mmu_utlb_remap_pages: "This is used to reestablish pages that were      *)
(* previously covered by a multi-hit exception region when one of the      *)
(* pages is removed." (mmu.c:664)                                          *)
PagesReestablished ==
  at /\ ~sv => \A p \in Page :
    Cardinality(Hits(utlb, asid, FALSE, p)) = 1 => priv[p] # MISS
=============================================================================
