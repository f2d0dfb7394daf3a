------------------------------- MODULE MCMedia -------------------------------
(***************************************************************************)
(* Picture and sound, for TLC and for MCMedia_proofs: the parts of the     *)
(* PVR2, the modes of the ARM, and the chip of the AICA with one of its    *)
(* channels.  They share no state, so one run takes them side by side:     *)
(* part is the one that moves, the others stay at their initial state.     *)
(* The parameters of those that are proved about are constants here, for   *)
(* MCMedia.cfg to give.                                                    *)
(*                                                                         *)
(* RenderBuffers: two buffers for three frames, of which one lies within   *)
(* another and one is apart.                                               *)
(* Raster: two lengths of a field, an event on the first line, within a    *)
(* field and at the end of the shorter one.                                *)
(* Ta: strips split at three, four and six vertices.                       *)
(* TileList: four tiles, blocks of two entries, and six polygons that are  *)
(* small, larger than the screen, strips, sprites, and clipped either way. *)
(* Scene: two tiles that name the strip and the array in seven ways, and  *)
(* three sequences of depths, with and without ties.                       *)
(* TexCache: three slots for four textures on two pages, one with a        *)
(* palette and one with a stride.                                          *)
(* Arm: user mode, one mode of exceptions and that of fast interrupts;     *)
(* software sets the first, exceptions the others.                         *)
(* Aica: three samples in a second of seven, slices shorter than a sample, *)
(* longer than two, and of a whole second.                                 *)
(* Channel: ends of one and three positions, moved by two at a time.       *)
(***************************************************************************)
EXTENDS Arm, Sequences

CONSTANTS
  MAX_RENDER_BUFFERS, PVR2_RAM_BASE, Unit, Frames,                \* RenderBuffers
  Totals, LineTime, RetraceEnd, Positions, SliceLength, MaxBlock, WrapTime,
                                                                 \* Raster
  Lengths, MaxStrip,                                             \* Ta
  MAX_TEXTURES, Pages, Images, Formats, Strides,                 \* TexCache
  RATE, SECOND, Slices, TIMER_SIZE, MaxBehind,                   \* Aica
  Ends, MaxSteps, MaxPosn                                        \* Channel

VARIABLES
  part,
  buf, shown, field, holders, bypassed, orphaned,                \* RenderBuffers
  slice, line, rem, run, odd, interlaced, total, vpos, due, frames, wild,
  taState, list, type, max, verts, parity, sent, drawn, short,   \* Ta
  words, room, polypos, last, alarmed, listed,                   \* TileList
  picture, todo, pass, polys, map, count, index, overrun, visible, \* Scene
  shader, tex, page, free, order, mode, stride, valid, changed, storage, loaded,
  replaced, drawing, scene,                                      \* TexCache
  down, ns, samples, timer, pending, fiq, clears, span, want, ran, behind,
  dropped,                                                       \* Aica
  chn, strayed                                                   \* Channel

Masking == {[mode |-> "user", masked |-> {"I"}]}

Frame(a, n) == [addr |-> a, size |-> n]
ThreeUnits == 0 .. 2
ThreeFrames == {Frame(0, 2), Frame(0, 1), Frame(2, 1)}

Buffers == INSTANCE RenderBuffers

Beam == INSTANCE Raster WITH Width <- WrapTime

Strips == INSTANCE Ta WITH state <- taState

Polygon(kind, x1, x2, y) ==
  [kind |-> kind, x1 |-> x1, x2 |-> x2, y1 |-> y, y2 |-> y,
   clip |-> "none", cx1 |-> 0, cx2 |-> 0]

ClippedTo(p, clip) == [p EXCEPT !.y2 = @ + 1, !.clip = clip, !.cx1 = 1, !.cx2 = 1]

Tiles == INSTANCE TileList WITH
           Width <- 2, Height <- 2, BlockWords <- 3, Rooms <- {3},
           PolyEnd <- 6, MaxStack <- 3, shown <- listed,
           Polygons <- {Polygon("tri", 0, 0, 0), Polygon("tri", -1, 2, 0),
                        Polygon("strip", 0, 1, 0), Polygon("sprite", 1, 1, 0),
                        ClippedTo(Polygon("strip", 0, 1, 0), "outside"),
                        [ClippedTo(Polygon("tri", 0, 2, 0), "inside") EXCEPT !.y2 = 2]}

StripEntry(n) == [is |-> "strip", at |-> 0, n |-> n]
ArrayEntry(a, n) == [is |-> "array", at |-> a, n |-> n]

View == INSTANCE Scene WITH
          Kinds <- {"tri", "quad"},
          Lists <- {<< >>, <<StripEntry(1)>>, <<ArrayEntry(1, 2)>>, <<ArrayEntry(2, 2)>>,
                    <<StripEntry(5), ArrayEntry(1, 3)>>,
                    <<ArrayEntry(2, 1), StripEntry(3)>>,
                    <<StripEntry(-1), ArrayEntry(3, 1)>>},
          Depths <- {<<0, 1, 2>>, <<2, 0, 1, 1>>, <<1>>}

Texture(p, palette, strided, n) ==
  [page |-> p, palette |-> palette, stride |-> strided, id |-> n]

FourImages == {Texture(0, FALSE, FALSE, 1), Texture(0, TRUE, FALSE, 2),
               Texture(1, FALSE, TRUE, 3), Texture(1, FALSE, FALSE, 4)}

Textures == INSTANCE TexCache WITH Textures <- Images, Modes <- Formats

Chip == INSTANCE Aica

Voice == INSTANCE Channel

ASSUME FrameAssumption == Buffers!BufferAssumption
ASSUME BeamAssumption == Beam!RasterAssumption
ASSUME CacheAssumption == Textures!TexCacheAssumption
ASSUME LengthsAssumption == Strips!StripAssumption
ASSUME ChipAssumption == Chip!AicaAssumption
ASSUME VoiceAssumption == Voice!ChannelAssumption

ArmStays == UNCHANGED <<cpsr, r, spsr, saved, named>>
BuffersStay == UNCHANGED <<buf, shown, field, holders, bypassed, orphaned>>
BeamStays ==
  UNCHANGED <<slice, line, rem, run, odd, interlaced, total, vpos, due, frames, wild>>
StripsStay ==
  UNCHANGED <<taState, list, type, max, verts, parity, sent, drawn, short>>
TilesStay == UNCHANGED <<words, room, polypos, last, alarmed, listed>>
ViewStays ==
  UNCHANGED <<picture, todo, pass, polys, map, count, index, overrun, visible>>
TexturesStay ==
  UNCHANGED <<shader, tex, page, free, order, mode, stride, valid, changed, storage,
              loaded, replaced, drawing, scene>>

ChipStays ==
  UNCHANGED <<down, ns, samples, timer, pending, fiq, clears, span, want, ran,
              behind, dropped>>
VoiceStays == UNCHANGED <<chn, strayed>>

PictureStays ==
  BuffersStay /\ BeamStays /\ StripsStay /\ TilesStay /\ ViewStays /\ TexturesStay
ChipsStay == ChipStays /\ VoiceStays
SoundStays == ArmStays /\ ChipsStay

(* The state in which a part that does not move is.                        *)
One(S) == CHOOSE x \in S : TRUE

BenchInit ==
  /\ part \in {"buffers", "raster", "ta", "tilelist", "scene", "texcache", "arm",
             "aica", "channel"}
  /\ Buffers!Init /\ Beam!Init /\ Strips!Init /\ Tiles!Init /\ View!Init
  /\ Textures!Init /\ Init /\ Chip!Init /\ Voice!Init
  /\ part # "buffers" => field[1] = One({f.addr : f \in Frames})
  /\ part # "raster" => total = One(Totals)
  /\ part # "tilelist" => room = 3
  /\ part # "scene" => View!Blank
  /\ part # "texcache" => shader

BenchNext ==
  \/ /\ part = "buffers" /\ Buffers!Next /\ part' = part
     /\ BeamStays /\ StripsStay /\ TilesStay /\ TexturesStay /\ ViewStays
     /\ SoundStays
  \/ /\ part = "raster" /\ Beam!Next /\ part' = part
     /\ BuffersStay /\ StripsStay /\ TilesStay /\ TexturesStay /\ ViewStays
     /\ SoundStays
  \/ /\ part = "ta" /\ Strips!Next /\ part' = part
     /\ BuffersStay /\ BeamStays /\ TilesStay /\ TexturesStay /\ ViewStays
     /\ SoundStays
  \/ /\ part = "tilelist" /\ Tiles!Next /\ part' = part
     /\ BuffersStay /\ BeamStays /\ StripsStay /\ TexturesStay /\ ViewStays
     /\ SoundStays
  \/ /\ part = "scene" /\ View!Next /\ part' = part
     /\ BuffersStay /\ BeamStays /\ StripsStay /\ TilesStay /\ TexturesStay
     /\ SoundStays
  \/ /\ part = "texcache" /\ Textures!Next /\ part' = part
     /\ BuffersStay /\ BeamStays /\ StripsStay /\ TilesStay /\ ViewStays
     /\ SoundStays
  \/ /\ part = "arm" /\ Next /\ part' = part
     /\ PictureStays /\ ChipsStay
  \/ /\ part = "aica" /\ Chip!Next /\ part' = part
     /\ PictureStays /\ ArmStays /\ VoiceStays
  \/ /\ part = "channel" /\ Voice!Next /\ part' = part
     /\ PictureStays /\ ArmStays /\ ChipStays

BenchSpec ==
  BenchInit /\ [][BenchNext]_<<part, vars, Buffers!vars, Beam!vars, Strips!vars,
                               Tiles!vars, View!vars, Textures!vars,
                               Chip!vars, Voice!vars>>

(* The properties, stated in their modules.  A part that stays is in a     *)
(* state its own run starts from.                                          *)
BuffersTrue == part = "buffers" => Buffers!BuffersTrue
RasterTrue == part = "raster" => Beam!RasterTrue
StripIsDrawn == part = "ta" => Strips!StripIsDrawn
CacheTrue == part = "texcache" => Textures!CacheTrue
SoundTrue ==
  /\ part = "aica" => Chip!AicaTrue
  /\ part = "channel" => Voice!StaysInside
=============================================================================
