---------------------------------- MODULE Ta ----------------------------------
(***************************************************************************)
(* The input of the tile accelerator, src/pvr2/tacore.c: 32-byte blocks    *)
(* are read by a state machine that opens and closes lists, takes polygon  *)
(* contexts, and gathers vertices into polygons of at most max_vertex.  A  *)
(* longer strip is split, and its last vertices start the next polygon.    *)
(* Colours, coordinates and the bad-input event are left out.              *)
(* What becomes of a committed polygon is the subject of module TileList.  *)
(***************************************************************************)
EXTENDS Integers, Sequences, FiniteSets

CONSTANTS
  Lengths,        \* strip_lengths, the values of max_vertex a context may name
  MaxStrip        \* bound: the last vertex of a strip comes by then

(* A split keeps two vertices in order, or turns those of a triangle.      *)
StripAssumption ==
  \A n \in Lengths : n = 3 \/ (n \in Nat /\ n >= 4 /\ n % 2 = 0)

Capacity == 8                         \* poly_vertex[8]
OPAQUE == "opaque"                    \* a list of polygons
MODIFIER == "modifier"                \* a list of modifier volumes
Lists == {OPAQUE, MODIFIER}
NONE == "none"

(* Vertex types: those of polygons, whose vertex is in one block or two,   *)
(* and those of three or four vertices in two blocks.                      *)
Types == {"one", "two", "sprite", "volume", "listless"}
IsNormalPoly(type) == type \in {"one", "two"}

VARIABLES
  state,          \* ta_status.state
  list,           \* current_list_type
  type,           \* current_vertex_type
  max,            \* max_vertex
  verts,          \* poly_vertex, up to vertex_count
  parity,         \* poly_parity
  sent,           \* history: vertices of the strip so far
  drawn,          \* history: its triangles committed so far
  short           \* history: a polygon of less than three vertices committed

vars == <<state, list, type, max, verts, parity, sent, drawn, short>>

-----------------------------------------------------------------------------
(* A triangle of three vertices that follow each other in a strip, as it   *)
(* winds: every second one is turned.                                      *)
Turned(t) == <<t[2], t[1], t[3]>>
Rotations(t) == {t, <<t[2], t[3], t[1]>>, <<t[3], t[1], t[2]>>}
Winding(t) == CHOOSE r \in Rotations(t) : r[1] < r[2] /\ r[1] < r[3]
Triangles(vs) ==
  {Winding(LET t == <<vs[i], vs[i + 1], vs[i + 2]>>
           IN  IF i % 2 = 1 THEN t ELSE Turned(t)) : i \in 1 .. Len(vs) - 2}

-----------------------------------------------------------------------------
(* pvr2_ta_init                                                            *)
Init ==
  /\ state = "IDLE"
  /\ list = NONE
  /\ type = "listless"
  /\ max = 3
  /\ verts = << >>
  /\ parity = 0
  /\ sent = 0 /\ drawn = {}
  /\ short = FALSE

TaInit ==
  /\ state' = "IDLE" /\ list' = NONE /\ type' = "listless"
  /\ max' = 3 /\ verts' = << >> /\ parity' = 0
  /\ sent' = 0 /\ drawn' = {} /\ short' = FALSE

(* A block that carries a command is read in these states.  Vertices sent  *)
(* outside any list may run past the array when a longer max_vertex is     *)
(* left over; what goes on then is not followed.                           *)
Commands == state \in {"IDLE", "IN_LIST", "IN_POLYGON"} /\ Len(verts) <= Capacity

-----------------------------------------------------------------------------
(* ta_init_list, from the first context after the last list.               *)
InitList(l) ==
  list' = IF state = "IDLE" THEN l ELSE list

(* The state InitList leaves.                                              *)
Opened == IF state = "IDLE" THEN "IN_LIST" ELSE state

(* ta_end_list, and the abort of an end in the middle of a polygon.        *)
EndList ==
  /\ Commands
  /\ state' = IF state = "IN_POLYGON" THEN "ERROR" ELSE "IDLE"
  /\ list' = NONE
  /\ type' = "listless"
  /\ UNCHANGED <<max, verts, parity, sent, drawn, short>>

(* A polygon context, with its second block if two; l is the list it names *)
(* when it opens one, n the length if given.  A context that comes within  *)
(* a polygon is refused.                                                   *)
PolygonContext(l, t, n, two) ==
  /\ Commands
  /\ InitList(l)
  /\ IF verts /= << >>
     THEN state' = Opened /\ UNCHANGED <<type, max, verts, parity, sent, drawn>>
     ELSE /\ sent' = 0 /\ drawn' = {}
          /\ verts' = << >>
          /\ IF list' = MODIFIER
             THEN type' = "volume" /\ max' = 3 /\ state' = Opened /\ parity' = parity
             ELSE /\ type' = t
                  /\ max' = IF n = 0 THEN max ELSE n
                  /\ parity' = 0
                  /\ state' = IF two THEN "POLY_BLOCK2" ELSE Opened
  /\ UNCHANGED short

(* The second block of a context.                                          *)
PolygonBlock2 ==
  /\ state = "POLY_BLOCK2"
  /\ state' = "IN_LIST"
  /\ UNCHANGED <<list, type, max, verts, parity, sent, drawn, short>>

(* A sprite context commits the vertices that are waiting; ta_fill_vertexes*)
(* writes above vertex_count, which stays.                                 *)
SpriteContext(l) ==
  /\ Commands
  /\ InitList(l)
  /\ short' = (short \/ Len(verts) \in {1, 2})
  /\ state' = Opened
  /\ type' = "sprite" /\ max' = 4
  /\ verts' = << >> /\ sent' = 0 /\ drawn' = {}
  /\ UNCHANGED parity

-----------------------------------------------------------------------------
(* Definitions marked "Faulty" are variants of the one that follows; the   *)
(* specification does not use them.  They show that a property can fail.   *)

(* Faulty: the last two vertices, whatever the length.                     *)
RestInOrder(vs) == SubSeq(vs, Len(vs) - 1, Len(vs))

(* The vertices ta_split_polygon keeps.                                    *)
Rest(vs) ==
  IF Len(vs) = 3 THEN IF parity = 0 THEN <<vs[3], vs[2]>> ELSE <<vs[1], vs[3]>>
  ELSE SubSeq(vs, Len(vs) - 1, Len(vs))

RestParity(vs) == IF Len(vs) = 3 /\ parity = 0 THEN 1 ELSE 0

(* A block of vertices is complete, the polygon so far is vs and ts the    *)
(* triangles committed before it: with the last vertex it is committed, if *)
(* there are three; when it is full it is split; or it goes on.            *)
End(vs, ts) ==
  /\ drawn' = IF IsNormalPoly(type) THEN ts \cup Triangles(vs) ELSE {}
  /\ verts' = << >> /\ parity' = 0
  /\ state' = "IN_LIST"

Continue(vs, ts) ==
  /\ state' = "IN_POLYGON"
  /\ IF Len(vs) /= max THEN verts' = vs /\ drawn' = ts /\ parity' = parity
     ELSE IF IsNormalPoly(type)
     THEN /\ drawn' = ts \cup Triangles(vs)
          /\ verts' = Rest(vs)
          /\ parity' = RestParity(vs)
     ELSE verts' = << >> /\ drawn' = {} /\ parity' = parity

(* The first vertex of a strip starts its history.                         *)
Nth == IF verts = << >> THEN 0 ELSE sent
Before == IF verts = << >> THEN {} ELSE drawn
Bounded(end) == Nth < MaxStrip \/ end

(* A vertex of one block.                                                  *)
Vertex(end) ==
  /\ Commands /\ type = "one" /\ Bounded(end)
  /\ sent' = Nth + 1
  /\ LET vs == Append(verts, Nth)
     IN  IF end THEN End(vs, Before) ELSE Continue(vs, Before)
  /\ UNCHANGED <<list, type, max, short>>

(* The first block of a vertex of two, or of the three or four vertices of *)
(* a sprite or a volume.                                                   *)
VertexBlock1(end) ==
  /\ Commands /\ type /= "one" /\ Bounded(end)
  /\ sent' = Nth + 1
  /\ drawn' = Before
  /\ verts' = IF type = "two" THEN Append(verts, Nth) ELSE verts \o <<0, 1, 2>>
  /\ state' = IF end THEN "END_VERTEX_BLOCK2" ELSE "VERTEX_BLOCK2"
  /\ UNCHANGED <<list, type, max, parity, short>>

(* The second, with the fourth vertex of a sprite.                         *)
VertexBlock2 ==
  /\ Len(verts) <= Capacity
  /\ LET vs == IF type = "sprite" THEN Append(verts, 3) ELSE verts
     IN  \/ state = "VERTEX_BLOCK2" /\ Continue(vs, drawn)
         \/ state = "END_VERTEX_BLOCK2" /\ End(vs, drawn)
  /\ UNCHANGED <<list, type, max, sent, short>>

-----------------------------------------------------------------------------
Next ==
  \/ TaInit \/ EndList \/ PolygonBlock2 \/ VertexBlock2
  \/ \E l \in Lists : SpriteContext(l)
  \/ \E l \in Lists, t \in {"one", "two"}, n \in Lengths \cup {0}, two \in BOOLEAN :
       PolygonContext(l, t, n, two)
  \/ \E end \in BOOLEAN : Vertex(end) \/ VertexBlock1(end)

Spec == Init /\ [][Next]_vars

-----------------------------------------------------------------------------
(* However a strip is split, what has been committed of it and what is     *)
(* still to come are all of its triangles, each with the winding it has in *)
(* the strip, and none twice.  (ta_split_polygon, ta_parse_vertex)         *)
StripIsDrawn ==
  IsNormalPoly(type) /\ verts /= << >> =>
    /\ drawn \cup Triangles(verts) = Triangles([i \in 1 .. sent |-> i - 1])
    /\ drawn \cap Triangles(verts) = {}

(* tacore.c:806 "Copy the last read vertex into all vertexes up to         *)
(* max_vertex": what a sprite context interrupts is committed whole.       *)
InterruptedIsWhole == ~short
=============================================================================
