-------------------------------- MODULE Scene --------------------------------
(***************************************************************************)
(* How src/pvr2/scene.c reads a scene out of video memory, and how         *)
(* glrender.c and rendsort.c walk what it read.  The tile lists name       *)
(* polygons by their address.  A first pass over all lists finds out how   *)
(* many vertices each polygon has, since a list names only the triangles   *)
(* of a strip that are in its tile; a second pass puts the vertices into   *)
(* one array of the size the first has counted.  Then triangles that face  *)
(* away are taken out, which may split a strip.                            *)
(*                                                                         *)
(* The polygon buffer holds one strip, at address 0, and behind it an      *)
(* array of triangles or of sprites.  A vertex is its place in the array.  *)
(***************************************************************************)
EXTENDS Integers, Sequences, SequencesExt, FiniteSets

CONSTANTS
  Lists,          \* tile lists: sequences of entries
  Kinds,          \* what the array has: "tri", "quad"
  Depths          \* distances that triangles may have, by their place in a list

Shadows == {"none", "cheap", "full"}
Strip == 0
Array == 1 .. 3
Address == {Strip} \cup Array
Background == 4
StripTriangles == 6

(* Entries of a list: the triangles of the strip up to the last one, -1    *)
(* for none, or n members of the array.                                    *)
StripEntry(last) == [is |-> "strip", at |-> Strip, n |-> last]
ArrayEntry(a, n) == [is |-> "array", at |-> a, n |-> n]

VARIABLES
  picture,        \* the lists of two tiles, the array's kind, the shadow mode
  todo,           \* what is left of the pass: entries of all lists in order
  pass,           \* "count", "fill", "cull", "drawn"
  polys,          \* pvr2_scene.poly_array
  map,            \* buf_to_poly_map: a place in polys, or 0
  count,          \* vertex_count
  index,          \* vertex_index
  overrun,        \* history: vertices were put behind the array
  visible         \* which triangles face the viewer

vars == <<picture, todo, pass, polys, map, count, index, overrun, visible>>

Facing == [0 .. StripTriangles - 1 -> BOOLEAN]
AllFace == [i \in 0 .. StripTriangles - 1 |-> TRUE]

(* Whether triangle i of the polygon at address a faces the viewer.        *)
Faces(a, i) == visible'[(a + i) % StripTriangles]
FacedAway(a, i) == ~visible[(a + i) % StripTriangles]

Everything == picture.tiles[1] \o picture.tiles[2]

(* pvr2_scene_reset clears the places of the map that the polygons of the  *)
(* last scene have.                                                        *)
Cleared ==
  [a \in DOMAIN map |->
     IF \E k \in DOMAIN polys : polys[k].at = a THEN 0 ELSE map[a]]

Init ==
  /\ picture \in [tiles : [1 .. 2 -> Lists], kind : Kinds, shadow : Shadows]
  /\ todo = Everything
  /\ pass = "count"
  /\ polys = << >>
  /\ map = [a \in Address \cup {Background} |-> 0]
  /\ count = 0 /\ index = 0 /\ overrun = FALSE
  /\ visible = AllFace

(* A picture of nothing but its background.                                *)
Blank == Everything = << >> /\ picture.kind = "tri" /\ picture.shadow = "none"

-----------------------------------------------------------------------------
(* Definitions marked "Faulty" are variants of the one that follows; the   *)
(* specification does not use them.  They show that a property can fail.   *)

(* The first pass.  What scene_add_polygon changes, as a record.           *)
Found(p, m, c) == [polys |-> p, map |-> m, count |-> c]

Doubled(n) == IF picture.shadow = "none" THEN n ELSE 2 * n

NewPoly(a, n) ==
  [at |-> a, vertices |-> n, first |-> -1, mod |-> -1, next |-> 0, sub |-> 0,
   base |-> -1, all |-> n]

(* Faulty: a polygon met again keeps the count of the first tile.          *)
AddFirst(s, a, n) ==
  IF s.map[a] # 0 THEN s
  ELSE Found(Append(s.polys, NewPoly(a, n)),
             [s.map EXCEPT ![a] = Len(s.polys) + 1], s.count + Doubled(n))

(* scene_add_polygon                                                       *)
Add(s, a, n) ==
  LET k == s.map[a]
  IN  IF k = 0
        THEN Found(Append(s.polys, NewPoly(a, n)),
                   [s.map EXCEPT ![a] = Len(s.polys) + 1], s.count + Doubled(n))
      ELSE IF n > s.polys[k].vertices
        THEN Found([s.polys EXCEPT ![k].vertices = n, ![k].all = n], s.map,
                   s.count + Doubled(n - s.polys[k].vertices))
      ELSE s

Corners == IF picture.kind = "tri" THEN 3 ELSE 4
Members(e) == [i \in 1 .. e.n |-> e.at + i - 1]

(* The loop over an array: each member is linked behind the one before it, *)
(* unless that one has been linked by another tile.                        *)
AddMember(s, a, before) ==
  LET t == Add(s, a, Corners)
  IN  IF before # 0 /\ t.polys[t.map[before]].next = 0
        THEN [t EXCEPT !.polys[t.map[before]].next = t.map[a]] ELSE t

(* scene_extract_polygons, one entry                                       *)
Extracted(s, e) ==
  IF e.is = "array"
    THEN FoldLeft(LAMBDA acc, a : AddMember(acc, a, IF a = e.at THEN 0 ELSE a - 1),
                  s, Members(e))
  ELSE IF e.n = -1 THEN s
  ELSE Add(s, e.at, e.n + 3)

CountEntry ==
  /\ pass = "count" /\ todo # << >>
  /\ LET s == Extracted(Found(polys, map, count), Head(todo))
     IN  polys' = s.polys /\ map' = s.map /\ count' = s.count
  /\ todo' = Tail(todo)
  /\ UNCHANGED <<picture, pass, index, overrun, visible>>

-----------------------------------------------------------------------------
(* The second pass.                                                        *)
StartFill ==
  /\ pass = "count" /\ todo = << >>
  /\ pass' = "fill" /\ todo' = Everything /\ index' = 0
  /\ UNCHANGED <<picture, polys, map, count, overrun, visible>>

Placed(p, i, o) == [polys |-> p, index |-> i, overrun |-> o]

(* scene_add_vertexes and scene_add_quad_vertexes.  A sprite with a cheap  *)
(* shadow moves the index twice for its shadow (scene.c:586 and :588).     *)
Place(s, a) ==
  LET k == map[a]
      n == s.polys[k].vertices
      extra == IF picture.kind = "quad" /\ a \in Array /\ picture.shadow = "cheap"
               THEN n ELSE 0
  IN  IF s.polys[k].first # -1 THEN s
      ELSE IF picture.shadow = "none"
        THEN Placed([s.polys EXCEPT ![k].first = s.index, ![k].base = s.index],
                    s.index + n, s.overrun \/ s.index + n > count)
      ELSE Placed([s.polys EXCEPT ![k].first = s.index, ![k].base = s.index,
                                  ![k].mod = s.index + n],
                  s.index + 2 * n + extra, s.overrun \/ s.index + 2 * n > count)

(* scene_extract_vertexes, one entry                                       *)
FillEntry ==
  /\ pass = "fill" /\ todo # << >>
  /\ LET e == Head(todo)
         s == FoldLeft(Place, Placed(polys, index, overrun),
                       IF e.is = "array" THEN Members(e)
                       ELSE IF e.n = -1 THEN << >> ELSE <<e.at>>)
     IN  polys' = s.polys /\ index' = s.index /\ overrun' = s.overrun
  /\ todo' = Tail(todo)
  /\ UNCHANGED <<picture, pass, map, count, visible>>

(* scene_extract_background: behind all others, in the room for eight that *)
(* vertex_buffer_map has added.                                            *)
AddBackground ==
  /\ pass = "fill" /\ todo = << >>
  /\ polys' = Append(polys,
                     [NewPoly(Background, 4) EXCEPT
                        !.first = count, !.base = count,
                        !.mod = IF picture.shadow = "none" THEN -1 ELSE count + 4])
  /\ count' = count + Doubled(4)
  /\ pass' = "cull"
  /\ UNCHANGED <<picture, todo, map, index, overrun, visible>>

-----------------------------------------------------------------------------
(* scene_split_subpolygon of polygon k at triangle offset                  *)
Split(p, k, offset) ==
  LET parent == p[k]
      rest == [parent EXCEPT !.vertices = @ - offset, !.first = @ + offset,
                             !.mod = IF @ = -1 THEN -1 ELSE @ + offset, !.next = 0]
  IN  Append([p EXCEPT ![k].sub = Len(p) + 1, ![k].vertices = offset + 2], rest)

Run(p, k, first, last) == [polys |-> p, k |-> k, first |-> first, last |-> last]

(* Faulty: the triangles that lead to the first visible one are left out   *)
(* of the array and not of its shadow.                                     *)
StartMain(s, i) ==
  Run([s.polys EXCEPT ![s.k].first = @ + i, ![s.k].vertices = @ - i], s.k, i, i)

(* The first visible triangle of a polygon: those before it are elided.    *)
Start(s, i) ==
  Run([s.polys EXCEPT ![s.k].first = @ + i, ![s.k].vertices = @ - i,
                      ![s.k].mod = IF @ = -1 THEN -1 ELSE @ + i], s.k, i, i)

(* The first one after a gap: the polygon is split, and keeps as many      *)
(* vertices as scene.c:449 leaves it.                                      *)
Resume(s, i) ==
  LET p == Split(s.polys, s.k, i - s.first)
  IN  Run([p EXCEPT ![s.k].vertices = @ - ((i - s.first - 1) - s.last)],
          Len(p), i, i)

Examined(s, a, i) ==
  IF ~Faces(a, i) THEN s
  ELSE IF s.first = -1 THEN Start(s, i)
  ELSE IF s.last # i - 1 THEN Resume(s, i)
  ELSE [s EXCEPT !.last = i]

(* scene_backface_cull, one polygon                                        *)
Culled(p, k) ==
  LET triangles == p[k].vertices - 2
      s == FoldLeft(LAMBDA acc, i : Examined(acc, p[k].at, i - 1),
                    Run(p, k, -1, -1), [i \in 1 .. triangles |-> i])
  IN  IF s.last = -1 THEN [p EXCEPT ![k].vertices = 0]
      ELSE [s.polys EXCEPT ![s.k].vertices = @ - (triangles - 1 - s.last)]

Cull ==
  /\ pass = "cull"
  /\ visible' \in Facing
  /\ polys' = FoldLeft(Culled, polys, [k \in 1 .. Len(polys) |-> k])
  /\ pass' = "drawn"
  /\ UNCHANGED <<picture, todo, map, count, index, overrun>>

(* The next frame with the same lists: pvr2_scene_reset, pvr2_scene_read   *)
Reread ==
  /\ pass = "drawn"
  /\ map' = Cleared
  /\ polys' = << >> /\ count' = 0 /\ index' = 0
  /\ todo' = Everything /\ pass' = "count" /\ visible' = AllFace
  /\ UNCHANGED <<picture, overrun>>

Next == CountEntry \/ StartFill \/ FillEntry \/ AddBackground \/ Cull \/ Reread

Spec == Init /\ [][Next]_vars

-----------------------------------------------------------------------------
(* The pieces of polygon k, and the triangles that they draw, counted from *)
(* its first vertex.                                                       *)
Pieces(k) ==
  LET chain[j \in DOMAIN polys] ==
        {j} \cup (IF polys[j].sub = 0 THEN {} ELSE chain[polys[j].sub])
  IN  chain[k]

DrawnBy(j) ==
  {polys[j].first - polys[j].base + i : i \in 0 .. polys[j].vertices - 3}

(* A run of visible triangles that does not begin the strip is drawn too   *)
(* long when another one follows it.                                       *)
DrawnTooLong(k) ==
  \E j \in Pieces(k) : polys[j].sub # 0 /\ polys[j].first > polys[j].base

(* The triangles of polygon k that some tile names and that are visible.   *)
Shown(k) ==
  LET a == polys[k].at
      Named(i) == CASE a = Strip -> \E e \in Range(Everything) : e.at = a /\ e.n >= i
                    [] a \in Array -> i < Corners - 2
                    [] a = Background -> i < 2
  IN  {i \in 0 .. StripTriangles - 1 : Named(i) /\ ~FacedAway(a, i)}

(* gl_render_tilelist walks n members of an array by their links.          *)
Walked(e) ==
  LET walk[i \in 1 .. e.n] ==
        IF i = 1 THEN map[e.at]
        ELSE IF walk[i - 1] = 0 THEN 0 ELSE polys[walk[i - 1]].next
  IN  [i \in 1 .. e.n |-> walk[i]]

(* sort_count_triangles and sort_extract_triangles                         *)
Pieced(k) ==
  LET from[j \in DOMAIN polys] ==
        <<j>> \o (IF polys[j].sub = 0 THEN << >> ELSE from[polys[j].sub])
  IN  from[k]

Triangles(j, most) ==
  LET n == polys[j].vertices - 2
      shown == IF n > most THEN most ELSE IF n < 0 THEN 0 ELSE n
  IN  [i \in 1 .. shown |-> <<j, i - 1>>]

SortCount(list) ==
  LET OfEntry(e) ==
        IF e.is = "array" THEN e.n * (Corners - 2)
        ELSE IF map[e.at] = 0 THEN 0
        ELSE FoldLeft(LAMBDA acc, j : acc + Len(Triangles(j, StripTriangles)), 0,
                      Pieced(map[e.at]))
  IN  FoldLeft(LAMBDA acc, e : acc + OfEntry(e), 0, list)

SortExtract(list) ==
  LET OfEntry(e) ==
        IF e.is = "array"
          THEN FlattenSeq([i \in 1 .. e.n |-> Triangles(Walked(e)[i], Corners - 2)])
        ELSE IF e.n = -1 THEN << >>
        ELSE FlattenSeq([i \in DOMAIN Pieced(map[e.at]) |->
                           Triangles(Pieced(map[e.at])[i], StripTriangles)])
  IN  FlattenSeq([i \in DOMAIN list |-> OfEntry(list[i])])

(* sort_triangle_compare of triangles that are parallel to the screen: the *)
(* one farther away is first, and of two at one depth the second.          *)
Before(d, s, t) == d[s] > d[t]

(* sort_triangles: a merge of two sorted halves; merged[i, j] is what comes*)
(* of the one from place i and of the other from j.                        *)
Merge(d, l, r) ==
  LET merged[i \in 1 .. Len(l) + 1, j \in 1 .. Len(r) + 1] ==
        IF i > Len(l) THEN SubSeq(r, j, Len(r))
        ELSE IF j > Len(r) THEN SubSeq(l, i, Len(l))
        ELSE IF Before(d, l[i], r[j]) THEN <<l[i]>> \o merged[i + 1, j]
        ELSE <<r[j]>> \o merged[i, j + 1]
  IN  merged[1, 1]

Sort(d, s) ==
  LET sorted[first \in DOMAIN s \cup {Len(s) + 1}, n \in 0 .. Len(s)] ==
        LET half == n \div 2
        IN  IF n < 2 THEN SubSeq(s, first, first + n - 1)
            ELSE Merge(d, sorted[first, half], sorted[first + half, n - half])
  IN  sorted[1, Len(s)]

-----------------------------------------------------------------------------
(* Two passes over lists that name different parts of the same polygons    *)
(* agree: the vertices of every polygon are in the array, behind those of  *)
(* the ones before, and the array is full.  (Sprites with a cheap shadow   *)
(* take more than was counted.)  (scene_add_polygon, scene_add_vertexes,   *)
(* and the assertions in scene.c:507 and :513)                             *)
PassesAgree ==
  \/ picture.kind = "quad" /\ picture.shadow = "cheap"
  \/ /\ ~overrun
     /\ pass = "fill" /\ todo = << >> =>
          /\ index = count
          /\ \A k \in DOMAIN polys : polys[k].first # -1

(* Every visible triangle of any tile is drawn, by exactly one piece of    *)
(* its polygon, and no other, however a strip is split; its shadow is      *)
(* drawn from the same vertices of the second half.  (scene_backface_cull) *)
CullExact ==
  pass = "drawn" =>
    \A k \in DOMAIN polys :
      \/ \E j \in DOMAIN polys : polys[j].sub = k
      \/ /\ Shown(k) \subseteq UNION {DrawnBy(j) : j \in Pieces(k)}
         /\ ~DrawnTooLong(k) =>
              /\ UNION {DrawnBy(j) : j \in Pieces(k)} \subseteq Shown(k)
              /\ \A i, j \in Pieces(k) : i # j => DrawnBy(i) \cap DrawnBy(j) = {}
         /\ \A j \in Pieces(k) :
              polys[j].mod # -1 => polys[j].mod = polys[j].first + polys[k].all

(* The links of an array lead to its members in whatever order tiles have  *)
(* named parts of it; triangles of a tile that must be sorted fit the      *)
(* space counted for them, and come out sorted by depth, all of them.      *)
(* (gl_render_tilelist, render_autosort_tile, sort_triangles)              *)
TilesDrawn ==
  pass = "drawn" =>
    \A t \in 1 .. 2 :
      LET list == picture.tiles[t]
          found == SortExtract(list)
      IN  /\ \A i \in DOMAIN list :
               list[i].is = "array" =>
                 Walked(list[i]) = [m \in 1 .. list[i].n |-> map[list[i].at + m - 1]]
          /\ Len(found) <= SortCount(list)
          /\ \A depth \in Depths :
               LET d == [x \in Range(found) |->
                           depth[((x[1] * 2 + x[2]) % Len(depth)) + 1]]
                   sorted == Sort(d, found)
               IN  /\ \A x \in Range(found) :
                        Cardinality({i \in DOMAIN found : found[i] = x}) =
                        Cardinality({i \in DOMAIN sorted : sorted[i] = x})
                   /\ \A i, j \in DOMAIN sorted :
                        i < j => d[sorted[i]] >= d[sorted[j]]

SceneTrue == PassesAgree /\ CullExact /\ TilesDrawn

(* rendsort.c:223 "the sort must be stable to preserve the order of        *)
(* coplanar triangles".                                                    *)
CoplanarKeepTheirOrder ==
  pass = "drawn" =>
    \A t \in 1 .. 2 :
      LET found == SortExtract(picture.tiles[t])
      IN  Sort([x \in Range(found) |-> 0], found) = found
=============================================================================
