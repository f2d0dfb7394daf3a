------------------------------- MODULE TexCache -------------------------------
(***************************************************************************)
(* The texture cache of src/pvr2/texcache.c: a fixed number of slots, each *)
(* a texture of the host's GL, on a free list or on the list of the page   *)
(* of video memory where its texture starts; the slot used longest ago is  *)
(* taken over when none is free.  With shaders the palette is a texture of *)
(* its own, otherwise textures are decoded with it.  The order of use is   *)
(* kept here instead of a counter, which is 32 bits wide and may roll over.*)
(***************************************************************************)
EXTENDS Integers, Sequences, FiniteSets, SequencesExt

CONSTANTS
  MAX_TEXTURES,
  Pages,          \* PVR2_RAM_PAGES
  Textures,       \* texture words: [page, palette, stride, id]
  Modes,          \* palette formats
  Strides         \* texture strides

TexCacheAssumption ==
  /\ MAX_TEXTURES \in Nat \ {0} /\ Pages \subseteq Nat
  /\ \A t \in Textures : t.page \in Pages

NONE == [page |-> -1, palette |-> FALSE, stride |-> FALSE, id |-> 0]

VARIABLES
  shader,         \* texcache_have_palette_shader
  tex,            \* texcache_active_list: the texture of each slot
  page,           \* texcache_page_lookup, as the sequences its entries start
  free,           \* texcache_free_list from texcache_free_ptr
  order,          \* the slots from the one used longest ago
  mode, stride,   \* texcache_palette_mode, texcache_stride_width
  valid,          \* texcache_palette_valid
  changed,        \* pvr2_state.palette_changed
  storage,        \* the palette texture of GL has been given a format
  loaded,         \* and holds the palette of the program
  replaced,       \* history: the palette came from a save state
  drawing,        \* a scene is being drawn
  scene           \* the textures and slots given out in it

slots == <<tex, page, free, order>>
palette == <<mode, valid, changed, storage, loaded, replaced>>
vars == <<shader, slots, stride, palette, drawing, scene>>

Slots == 0 .. MAX_TEXTURES - 1
Ascending == [i \in 1 .. MAX_TEXTURES |-> i - 1]

(* seq without the slots in S.                                             *)
Removed(seq, S) ==
  LET Of[i \in 0 .. Len(seq)] == IF i = 0 THEN << >>
                                 ELSE IF seq[i] \in S THEN Of[i - 1]
                                 ELSE Append(Of[i - 1], seq[i])
  IN  Of[Len(seq)]

-----------------------------------------------------------------------------
(* texcache_init, and texcache_gl_init for a driver with or without them   *)
Init ==
  /\ shader \in BOOLEAN
  /\ tex = [s \in Slots |-> NONE]
  /\ page = [p \in Pages |-> << >>]
  /\ free = Ascending /\ order = Ascending
  /\ mode = "unset" /\ stride = 0
  /\ valid = FALSE /\ changed = FALSE
  /\ storage = FALSE /\ loaded = FALSE /\ replaced = FALSE
  /\ drawing = FALSE /\ scene = {}

(* texcache_flush                                                          *)
Flush ==
  /\ tex' = [s \in Slots |-> NONE]
  /\ page' = [p \in Pages |-> << >>]
  /\ free' = Ascending /\ order' = Ascending

-----------------------------------------------------------------------------
(* Definitions marked "Faulty" are variants of the one that follows; the   *)
(* specification does not use them.  They show that a property can fail.   *)

(* The slots S, in order, go to the front of the free list one by one.     *)
Freed(seq) == Reverse(seq) \o free

(* texcache_invalidate_page: a write to the page.  A texture that only     *)
(* reaches into the page stays.                                            *)
InvalidatePage(p) ==
  /\ tex' = [s \in Slots |-> IF tex[s].page = p THEN NONE ELSE tex[s]]
  /\ page' = [page EXCEPT ![p] = << >>]
  /\ free' = Freed(page[p])
  /\ order' = order

(* texcache_evict and release of the slots in S.                           *)
Without(S) == [p \in Pages |-> Removed(page[p], S)]
Release(S) ==
  /\ tex' = [s \in Slots |-> IF s \in S THEN NONE ELSE tex[s]]
  /\ page' = Without(S)
  /\ free' = Freed(Removed(Ascending, Slots \ S))
  /\ order' = order

Used(s) == Append(Removed(order, {s}), s)

-----------------------------------------------------------------------------
(* A write to video memory through its 64-bit area.                        *)
WriteVram(p) ==
  /\ ~drawing
  /\ InvalidatePage(p)
  /\ UNCHANGED <<shader, stride, palette, drawing, scene>>

(* The palette is written; it is looked at when a scene is drawn.          *)
WritePalette ==
  /\ ~drawing
  /\ changed' = TRUE /\ loaded' = FALSE /\ replaced' = FALSE
  /\ UNCHANGED <<shader, slots, stride, mode, valid, storage, drawing, scene>>

(* Faulty: only a new format makes it stale.                               *)
StaleFormat(m) == m /= mode

(* The palette is no longer the one that was loaded or decoded with.       *)
Stale(m) == changed \/ m /= mode

(* pvr2_check_palette_changed and texcache_begin_scene; the palette is     *)
(* loaded into the storage the texture has, or with a new format into new. *)
SceneSetup(m, w) ==
  /\ LET S == {s \in Slots : \/ Stale(m) /\ ~shader /\ tex[s].palette
                             \/ w /= stride /\ tex[s].stride}
         load == shader /\ (Stale(m) \/ ~valid)
     IN  /\ Release(S)
         /\ storage' = (storage \/ (load /\ m /= mode))
         /\ loaded' = IF load THEN storage' ELSE loaded
         /\ valid' = (valid \/ load)
         /\ replaced' = (replaced /\ ~load)
  /\ mode' = m /\ stride' = w
  /\ changed' = FALSE

BeginScene(m, w) ==
  /\ ~drawing
  /\ SceneSetup(m, w)
  /\ drawing' = TRUE /\ scene' = {}
  /\ UNCHANGED shader

(* Faulty: a slot that is found is not marked as used.                     *)
OrderOfLoads(s, found) == IF found THEN order ELSE Used(s)
OrderAfter(s, found) == Used(s)

(* texcache_get_texture.  No more textures than slots are used in a scene; *)
(* with more, one that was given out would be taken over.                  *)
GetTexture(t) ==
  /\ drawing
  /\ Cardinality({r.texture : r \in scene} \cup {t}) <= Cardinality(Slots)
  /\ LET found == {s \in Slots : tex[s] = t}
         slot == IF found /= {} THEN CHOOSE s \in found : TRUE
                 ELSE IF free /= << >> THEN Head(free) ELSE Head(order)
     IN  /\ order' = OrderAfter(slot, found /= {})
         /\ scene' = scene \cup {[texture |-> t, slot |-> slot]}
         /\ IF found /= {} THEN UNCHANGED <<tex, page, free>>
            ELSE /\ tex' = [tex EXCEPT ![slot] = t]
                 /\ page' = [Without({slot}) EXCEPT ![t.page] = <<slot>> \o @]
                 /\ free' = IF free /= << >> THEN Tail(free) ELSE free
  /\ UNCHANGED <<shader, stride, palette, drawing>>

EndScene ==
  /\ drawing
  /\ drawing' = FALSE /\ scene' = {}
  /\ UNCHANGED <<shader, slots, stride, palette>>

(* pvr2_reset: the palette stays, its flag is cleared.                     *)
Reset ==
  /\ ~drawing
  /\ Flush
  /\ changed' = FALSE
  /\ replaced' = (replaced \/ changed)
  /\ UNCHANGED <<shader, stride, mode, valid, storage, loaded, drawing, scene>>

(* texcache_gl_shutdown, and texcache_gl_init in the next context: the     *)
(* palette format is remembered, its texture is new.                       *)
RestartGl ==
  /\ ~drawing
  /\ Flush
  /\ valid' = IF shader THEN FALSE ELSE valid
  /\ storage' = FALSE /\ loaded' = FALSE
  /\ UNCHANGED <<shader, stride, mode, changed, replaced, drawing, scene>>

(* pvr2_load_state: memory, palette and flag are those of the save state,  *)
(* the cache is not told.                                                  *)
LoadState(flag) ==
  /\ ~drawing
  /\ changed' = flag /\ loaded' = FALSE /\ replaced' = TRUE
  /\ UNCHANGED <<shader, slots, stride, mode, valid, storage, drawing, scene>>

Next ==
  \/ WritePalette \/ EndScene \/ Reset \/ RestartGl
  \/ \E p \in Pages : WriteVram(p)
  \/ \E m \in Modes, w \in Strides : BeginScene(m, w)
  \/ \E t \in Textures : GetTexture(t)
  \/ \E flag \in BOOLEAN : LoadState(flag)

Spec == Init /\ [][Next]_vars

-----------------------------------------------------------------------------
(* texcache_integrity_check: every slot appears exactly once on the free   *)
(* list or on one page list, and a slot on the list of a page holds a      *)
(* texture that starts in it.                                              *)
SlotsAccountedFor ==
  \A s \in Slots :
    LET Times(seq) == Cardinality({i \in DOMAIN seq : seq[i] = s})
        Lists == {p \in Pages : Times(page[p]) > 0}
    IN  IF tex[s] = NONE THEN Times(free) = 1 /\ Lists = {}
        ELSE Times(free) = 0 /\ Lists = {tex[s].page} /\ Times(page[tex[s].page]) = 1

(* Up to the end of the scene every texture that was given out is in its   *)
(* slot, however many the scene takes over.  (texcache_evict_lru,          *)
(* texcache_find_texture_slot, pvr2_scene_load_textures)                   *)
SceneKeepsTextures ==
  drawing => \A r \in scene : tex[r.slot] = r.texture

(* The lists are whole, and a scene keeps what it was given.               *)
(* (texcache_evict, texcache_evict_lru, texcache_get_texture)              *)
CacheSound == SlotsAccountedFor /\ SceneKeepsTextures

(* A scene is drawn with the palette the program wrote last, unless it was *)
(* put there by a save state, or GL has no storage for it.                 *)
(* (texcache_begin_scene, pvr2_check_palette_changed)                      *)
PaletteIsCurrent == drawing /\ shader /\ storage /\ ~replaced => loaded

(* A scene has its textures and its palette.                               *)
CacheTrue == CacheSound /\ PaletteIsCurrent

(* texcache.c:155 "The cache will be non-functional until the next call to *)
(* texcache_gl_init()": after it a scene has a palette.                    *)
PaletteHasStorage == drawing /\ shader => storage
=============================================================================
