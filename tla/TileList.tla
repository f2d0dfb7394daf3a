------------------------------- MODULE TileList -------------------------------
(***************************************************************************)
(* The tile matrix that the tile accelerator of src/pvr2/tacore.c builds   *)
(* in video memory: for every tile of the screen a list of pointers to the *)
(* polygons that may touch it, in blocks of words that grow out of a       *)
(* common space, from the last word of one to the next.  Space is counted  *)
(* in blocks left, which covers growth in both directions.  A triangle     *)
(* that follows another in a tile is stacked on its entry by a count.      *)
(* One list is modelled, with the blocks of the space as long as those of  *)
(* the matrix; the words of a polygon are one unit of the polygon buffer.  *)
(***************************************************************************)
EXTENDS Integers, Sequences, SequencesExt, FiniteSets

CONSTANTS
  Width, Height,  \* ta_status.width, height
  BlockWords,     \* current_tile_size and tilelist_size
  Rooms,          \* blocks from TA_LISTPOS to TA_LISTEND
  PolyEnd,        \* polygons the buffer holds
  MaxStack,       \* triangles one entry counts (16)
  Polygons        \* [kind, x1, x2, y1, y2, clip, cx1, cx2] in tiles

Tiles == 0 .. Width * Height - 1
Matrix == 0 .. (Height + 1) * Width - 1   \* and a row of the next list's
ListBlock(r) == -1 - r
NONE == [x1 |-> -1, x2 |-> -1, y1 |-> -1, y2 |-> -1]   \* no last triangle

(* The words of a block: an entry for polygons p, p + 1 .. p + n, the end  *)
(* of a list, a link to another block, and what was there before.          *)
Entry(kind, p) == [is |-> "poly", kind |-> kind, at |-> p, n |-> 0]
Special(is, b) == [is |-> is, kind |-> "", at |-> b, n |-> 0]
END == Special("end", 0)
JUNK == Special("junk", 0)

VARIABLES
  words,          \* the blocks of the matrix and of the space
  room,           \* TA_LISTPOS: blocks to the limit
  polypos,        \* TA_POLYPOS
  last,           \* last_triangle_bounds
  alarmed,        \* history: EVENT_PVR_MATRIX_ALLOC_FAIL has been raised
  shown           \* history: what was committed for each tile

vars == <<words, room, polypos, last, alarmed, shown>>

-----------------------------------------------------------------------------
(* pvr2_ta_init and ta_init_list                                           *)
InitList(r) ==
  [b \in Matrix \cup {ListBlock(k) : k \in 0 .. r} |->
     [i \in 0 .. BlockWords - 1 |-> IF i = 0 /\ b \in Matrix THEN END ELSE JUNK]]

Init ==
  /\ room \in Rooms
  /\ words = InitList(room)
  /\ polypos = 0
  /\ last = NONE
  /\ alarmed = FALSE
  /\ shown = [t \in Tiles |-> << >>]

TaInit ==
  \E r \in Rooms :
    /\ room' = r
    /\ words' = InitList(r)
    /\ polypos' = 0 /\ last' = NONE /\ alarmed' = FALSE
    /\ shown' = [t \in Tiles |-> << >>]

-----------------------------------------------------------------------------
(* Definitions marked "Faulty" are variants of the one that follows; the   *)
(* specification does not use them.  They show that a property can fail.   *)

(* What ta_write_tile_entry changes: words, room and alarmed, as a record. *)
Memory(w, r, a) == [words |-> w, room |-> r, alarmed |-> a]

(* The entry at word i of block b, with the end behind it.                 *)
Put(w, b, i, e) == [w EXCEPT ![b][i] = e, ![b][i + 1] = END]


(* ta_alloc_tilelist, for the list that has filled block b.  The last two  *)
(* blocks of the space are never passed: the position stops, and the block *)
(* there is handed out again.                                              *)
Alloc(m, b, e) ==
  LET block == ListBlock(m.room)
      linked == [m.words EXCEPT ![b][BlockWords - 1] = Special("link", block)]
  IN  IF m.room = 0 THEN [m EXCEPT !.words = [linked EXCEPT ![block][0] = END]]
      ELSE Memory(Put(linked, block, 0, e),
                  IF m.room = 1 THEN 1 ELSE m.room - 1,
                  m.alarmed \/ m.room = 2)

(* An entry can be stacked on the last word v of a tile.                   *)
Stacks(v, e) ==
  v.is = "poly" /\ v.kind = e.kind /\ v.n + 1 < MaxStack

(* ta_write_tile_entry within the chain of blocks that starts at b.        *)
Write(m, b, e, stack) ==
  LET w == m.words
      FirstEnd(k) == CHOOSE i \in 1 .. BlockWords - 1 :
                       w[k][i] = END /\ \A j \in 1 .. i - 1 : w[k][j] /= END
      HasEnd(k) == \E i \in 1 .. BlockWords - 1 : w[k][i] = END
      Top(k) == w[k][BlockWords - 1]
      walk[k \in DOMAIN w, fuel \in 0 .. Cardinality(DOMAIN w)] ==
        IF HasEnd(k) /\ stack /\ Stacks(w[k][FirstEnd(k) - 1], e)
          THEN [m EXCEPT !.words[k][FirstEnd(k) - 1].n = @ + 1]
        ELSE IF HasEnd(k) /\ FirstEnd(k) < BlockWords - 1
          THEN [m EXCEPT !.words = Put(w, k, FirstEnd(k), e)]
        ELSE IF HasEnd(k) THEN Alloc(m, k, e)
        ELSE IF Top(k).is = "link" /\ Top(k).at /= k /\ fuel > 0
          THEN walk[Top(k).at, fuel - 1]
        ELSE m
  IN  IF w[b][0] = END THEN [m EXCEPT !.words = Put(w, b, 0, e)]
      ELSE walk[b, Cardinality(DOMAIN w)]

Inside(b, x, y) == b.x1 <= x /\ x <= b.x2 /\ b.y1 <= y /\ y <= b.y2

(* ta_write_tile_entry, for the tile at x, y                               *)
WriteTileEntry(m, p, x, y) ==
  IF p.clip = "outside" /\ p.cx1 <= x /\ x <= p.cx2 THEN m
  ELSE Write(m, y * Width + x, Entry(p.kind, polypos),
             p.kind /= "strip" /\ last /= NONE /\ Inside(last, x, y))

-----------------------------------------------------------------------------
(* ta_commit_polygon: the bounds are clamped to the frustum (the bottom    *)
(* when it is below the width), then to the clip area, here a range of     *)
(* columns.                                                                *)
Clamped(p) ==
  [p EXCEPT !.x1 = IF @ < 0 THEN 0 ELSE @,
            !.x2 = IF @ >= Width THEN Width - 1 ELSE @,
            !.y1 = IF @ < 0 THEN 0 ELSE @,
            !.y2 = IF @ >= Width THEN Height - 1 ELSE @]

Clipped(p) ==
  CASE p.clip = "none" ->
         p.x2 < 0 \/ p.x1 >= Width \/ p.y2 < 0 \/ p.y1 >= Height
    [] p.clip = "inside" -> p.x2 < p.cx1 \/ p.x1 > p.cx2
    [] p.clip = "outside" -> p.x1 >= p.cx1 /\ p.x2 <= p.cx2

Bounds(p) ==
  [x1 |-> IF p.clip = "inside" /\ p.x1 < p.cx1 THEN p.cx1 ELSE p.x1,
   x2 |-> IF p.clip = "inside" /\ p.x2 > p.cx2 THEN p.cx2 ELSE p.x2,
   y1 |-> p.y1, y2 |-> p.y2]

(* The tiles of bounds b, row by row.                                      *)
Covered(b) ==
  LET cols == b.x2 - b.x1 + 1
      n == IF cols > 0 /\ b.y2 >= b.y1 THEN cols * (b.y2 - b.y1 + 1) ELSE 0
  IN  [i \in 1 .. n |-> <<b.x1 + ((i - 1) % cols), b.y1 + ((i - 1) \div cols)>>]

Commit(p) ==
  /\ ~Clipped(Clamped(p))
  /\ polypos < PolyEnd
  /\ polypos' = polypos + 1
  /\ LET b == Bounds(Clamped(p))
         m == FoldLeft(LAMBDA acc, t : WriteTileEntry(acc, p, t[1], t[2]),
                       Memory(words, room, alarmed), Covered(b))
     IN  /\ words' = m.words /\ room' = m.room /\ alarmed' = m.alarmed
         /\ last' = IF p.kind = "strip" THEN NONE ELSE b
  /\ shown' = [t \in Tiles |->
       LET x == t % Width
           y == t \div Width
       IN  IF /\ p.x1 <= x /\ x <= p.x2 /\ p.y1 <= y /\ y <= p.y2
              /\ p.clip = "inside" => p.cx1 <= x /\ x <= p.cx2
              /\ p.clip = "outside" => ~(p.cx1 <= x /\ x <= p.cx2)
           THEN Append(shown[t], <<p.kind, polypos>>) ELSE shown[t]]

Next == TaInit \/ \E p \in Polygons : Commit(p)

Spec == Init /\ [][Next]_vars

-----------------------------------------------------------------------------
(* The polygons that a reader of the matrix finds for a tile.              *)
Found(t) ==
  LET Stacked(e) == [i \in 1 .. e.n + 1 |-> <<e.kind, e.at + i - 1>>]
      read[b \in DOMAIN words, i \in 0 .. BlockWords - 1,
           fuel \in 0 .. PolyEnd * 2 + 2] ==
        LET w == words[b][i]
        IN  CASE fuel = 0 \/ w.is \in {"end", "junk"} -> << >>
              [] fuel > 0 /\ w.is = "poly" ->
                   Stacked(w) \o (IF i = BlockWords - 1 THEN << >>
                                  ELSE read[b, i + 1, fuel - 1])
              [] fuel > 0 /\ w.is = "link" -> read[w.at, 0, fuel - 1]
  IN  read[t, 0, PolyEnd * 2 + 2]

(* Until the program is told that the space runs out, every tile lists the *)
(* polygons that were committed for it, each once and in order, however    *)
(* its blocks interleave with those of other tiles and whatever has been   *)
(* stacked.  (ta_write_tile_entry, ta_alloc_tilelist, ta_commit_polygon)   *)
TilesHoldTheirPolygons == ~alarmed => \A t \in Tiles : Found(t) = shown[t]

(* tacore.c:543 "Clamp the polygon bounds to the frustum": nothing is      *)
(* written to the list behind the matrix.                                  *)
MatrixIsKept == \A b \in Matrix \ Tiles : words[b][0] = END
=============================================================================
