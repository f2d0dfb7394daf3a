------------------------------- MODULE MCHolly -------------------------------
(***************************************************************************)
(* The system chip and what is attached to the machine, for TLC: events    *)
(* and DMA channels of the ASIC, the drive, the Maple bus, the files of    *)
(* memory cards, the disc in the drive, the keys of the host and the       *)
(* connection of a debugger.  They share addresses but no state, so one    *)
(* run takes them side by side: part is the one that moves, the others     *)
(* stay at their initial state.  The parameters of the drive, of the bus,  *)
(* of the cards, of the debugger and of the PVR2 DMA are constants here,   *)
(* for MCHolly.cfg to give and for MCHolly_proofs to leave open.           *)
(*                                                                         *)
(* ASIC: two events of DMA channels in the first word, and two in each of  *)
(* the others, so that a cascade bit outlives the first of them.  The mask *)
(* lets one event of the first word through, the second word by one of its *)
(* events and the third by its cascade bit.                                *)
(* Drive: replies of no, one and two words, sectors of two words and reads *)
(* of one and two of them, DMA requests that end inside a sector, at its   *)
(* end and beyond, and a sector counter of three bits.                     *)
(* Maple: two ports with two places for sub-peripherals.                   *)
(* Memory cards: two devices and two files, one of which can be read again *)
(* while the first copy is in use and may be missing, and one write.       *)
(* Discs: three files and a list of two of them, one host drive, images of *)
(* two tracks the second of which may be missing; no GDI list that ends    *)
(* early, no boot sector without the magic and no name with a colon, see   *)
(* README.md.                                                              *)
(* GDB: a buffer of three bytes that can be doubled once, and pieces of up *)
(* to four, so that a frame is cut anywhere and two come in one piece.     *)
(* Keys: two of the window and one of a joystick, which share a button of  *)
(* a controller and one of the hotkeys and are the ends of an axis.        *)
(* PVR2 DMA: blocks of two and three grains and chunks of three, so that   *)
(* two chunks are three of the smaller blocks; a channel that runs out in  *)
(* the middle of a grain, or not at all.                                   *)
(***************************************************************************)
EXTENDS Asic, TLC

CONSTANTS
  PacketWords, Lengths, SectorWords, Blocks, CounterSize, Requests,  \* Ide
  Port, Slot,                                                        \* Maple
  File, Dev, MaxCopies, MaxWrites,                                   \* MemoryCards
  BUFFER_SIZE, MARGIN, MAX_SIZE, MaxPiece,                           \* Gdb
  CHUNK, Grain, Sizes, QUAD, BIG, Format, YUV420, BlockSize, Shape, Counts,
  Asked, Direct, MaxSent                                             \* PvrDma

VARIABLES
  part,
  d, disc, unserved,                                             \* Ide
  busy, dma, gunpos, devices, periphs, waiting, aimed, open,     \* Maple
  entry, vols, device, file, config, saving, writes, latest, excused,
                                                                 \* MemoryCards
  heap, drive, title, recent, count, settings, misused,          \* Discs
  buf, size, done, connected, wire, due,                         \* Gdb
  plugged, keymap, bindings, attached, pressed, hooked, typed, focused, held, missed,
                                                                 \* Input
  chan, able, irq, yuv, sent, out, placed, until                 \* PvrDma

IDE_DMA == 14
G2_DMA0 == 15
IDE == 32
AICA == 33
BAD_INPUT == 68
SORT_DMA_ERR == 92

Events == {IDE_DMA, G2_DMA0, IDE, AICA, BAD_INPUT, SORT_DMA_ERR}
Words == [e \in Events |-> e \div 32]
Masks == {{}, {IDE_DMA, 31, AICA}}
Channels == {"ide", "g2"}
Kinds == [c \in Channels |-> c]
Done == [c \in Channels |-> IF c = "ide" THEN IDE_DMA ELSE G2_DMA0]

Drive == INSTANCE Ide
Bus == INSTANCE Maple WITH state <- busy, mask <- periphs
Cards == INSTANCE MemoryCards

Copies == [f \in {"a", "b"} |-> IF f = "a" THEN 2 ELSE 1]

Files ==
  {[format |-> f, tracks |-> 2, bad |-> b, says |-> w] :
     f \in {"gdi", "cdi", "program", "other"}, b \in {0, 2}, w \in {"magic", "nothing"}}
Images == INSTANCE Discs WITH
            Names <- {<<"f">>, <<"g">>, <<"h">>}, Devices <- << <<"dvd">> >>,
            Contents <- Files, MAX_RECENT_ITEMS <- 2, config <- settings

Debugger == INSTANCE Gdb WITH open <- connected

Host == {"root1", "root2", "stick"}
Devices == [k \in Host |-> IF k = "stick" THEN "js0" ELSE "root"]
PadButtons == <<"a", "left", "right">>
KeyLists ==
  [o \in {"pad", "hotkeys"} |->
     IF o = "pad"
     THEN ("a" :> {<<"root1", "stick">>}) @@ ("left" :> {<<"stick">>})
            @@ ("right" :> {<<"root1">>})
     ELSE ("a" :> {<<>>, <<"root1", "stick">>}) @@ ("left" :> {}) @@ ("right" :> {})]
Keys == INSTANCE Input WITH
          Key <- Host, SourceOf <- Devices, Pads <- <<"pad">>, Buttons <- PadButtons,
          Axis <- {"left", "right"}, Bindings <- KeyLists, KeyboardKeys <- 2,
          config <- bindings

BlockSizes == [f \in {"yuv420", "yuv422"} |-> IF f = "yuv420" THEN 4 ELSE 6]
Shapes == {<<2, 1>>, <<1, 2>>}
Movie == INSTANCE PvrDma

ASSUME DriveConstants ==
  Drive!PacketAssumption /\ Drive!LengthAssumption /\ Drive!CounterAssumption
ASSUME CardConstants ==
  Cards!NameAssumption /\ Cards!CopiesAssumption /\ Cards!WritesAssumption
ASSUME OtherConstants == Debugger!SizeAssumption /\ Movie!SizeAssumption

BenchInit ==
  /\ part \in {"asic", "ide", "maple", "cards", "discs", "gdb",
                "keys", "pvrdma"}
  /\ Init /\ Drive!Init /\ Bus!Init /\ Cards!Init /\ Images!Init
  /\ Debugger!Init /\ Keys!Init /\ Movie!Init
  /\ part # "ide" => disc = "loaded"
  /\ \A f \in File : part # "cards" \/ MaxCopies[f] = 1 => file[f] = 0

(* The chip and what is outside of it: one of the two stays.               *)
AsicStays == UNCHANGED <<pirq, mask, raised, lost, ctl1, ctl2>>
DriveStays == UNCHANGED <<d, disc, unserved>>
BusStays == UNCHANGED <<busy, dma, gunpos, devices, periphs, waiting, aimed, open>>
CardsStay == UNCHANGED <<entry, vols, device, file, config, saving, writes, latest,
                         excused>>
ImagesStay == UNCHANGED <<heap, drive, title, recent, count, settings, misused>>
DebuggerStays == UNCHANGED <<buf, size, done, connected, wire, due>>
KeysStay == UNCHANGED <<plugged, keymap, bindings, attached, pressed, hooked, typed,
                        focused, held, missed>>
MovieStays == UNCHANGED <<chan, able, irq, yuv, sent, out, placed, until>>
ChipStays == AsicStays /\ DriveStays /\ BusStays
OutsideStays == CardsStay /\ ImagesStay /\ DebuggerStays /\ KeysStay /\ MovieStays

BenchNext ==
  \/ /\ part = "asic" /\ Next
     /\ DriveStays /\ BusStays /\ OutsideStays /\ part' = part
  \/ /\ part = "ide" /\ Drive!Next
     /\ AsicStays /\ BusStays /\ OutsideStays /\ part' = part
  \/ /\ part = "maple" /\ Bus!Next
     /\ AsicStays /\ DriveStays /\ OutsideStays /\ part' = part
  \/ /\ part = "cards" /\ Cards!Next
     /\ ImagesStay /\ DebuggerStays /\ KeysStay /\ MovieStays /\ ChipStays
     /\ part' = part
  \/ /\ part = "discs" /\ Images!Next
     /\ CardsStay /\ DebuggerStays /\ KeysStay /\ MovieStays /\ ChipStays
     /\ part' = part
  \/ /\ part = "gdb" /\ Debugger!Next
     /\ CardsStay /\ ImagesStay /\ KeysStay /\ MovieStays /\ ChipStays
     /\ part' = part
  \/ /\ part = "keys" /\ Keys!Next
     /\ CardsStay /\ ImagesStay /\ DebuggerStays /\ MovieStays /\ ChipStays
     /\ part' = part
  \/ /\ part = "pvrdma" /\ Movie!Next
     /\ CardsStay /\ ImagesStay /\ DebuggerStays /\ KeysStay /\ ChipStays
     /\ part' = part

BenchSpec ==
  BenchInit /\ [][BenchNext]_<<part, vars, Drive!vars, Bus!vars,
                              Cards!vars, Images!vars, Debugger!vars, Keys!vars,
                              Movie!vars>>

(* The properties, stated in their modules.  A part that stays is in a     *)
(* state its own run starts from.                                          *)
DriveTrue == part = "ide" => Drive!DriveTrue
Answered == Drive!Answered
BusTrue == part = "maple" => Bus!BusTrue
CardsKept == part = "cards" => Cards!CardsKept
DiscsTrue == part = "discs" => Images!DiscsTrue
GdbTrue == part = "gdb" => Debugger!GdbTrue
InputTrue == part = "keys" => Keys!InputTrue
HostTrue == DiscsTrue /\ InputTrue
PictureTrue == part = "pvrdma" => Movie!PictureTrue
=============================================================================
