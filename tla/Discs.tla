-------------------------------- MODULE Discs --------------------------------
(***************************************************************************)
(* The disc in the drive: how images are opened (src/drivers/cdrom/        *)
(* cdrom.c, cd_gdi.c, cd_cdi.c, sector.c, and loader.c for a program that  *)
(* is wrapped in a disc), mounted (gdrom/gdrom.c), listed and remembered   *)
(* (gdlist.c, config.c, main.c).                                           *)
(*                                                                         *)
(* Discs, tracks and files are counted references.  A new object has count *)
(* 0; giving one up destroys it when the count is 0 or becomes 0.  heap is *)
(* what is allocated: the memory of a destroyed object is used again.      *)
(*                                                                         *)
(* A name is a sequence of parts, which colons join.                       *)
(***************************************************************************)
EXTENDS Integers, Sequences, SequencesExt, FiniteSets

CONSTANTS
  Names,          \* of image files
  Devices,        \* names of host drives, in the order of the list
  Contents,       \* what an image file may hold when it is opened
  MAX_RECENT_ITEMS

VARIABLES
  heap,           \* object -> what it is, FREE if there is none
  drive,          \* gdrom_drive.disc
  title,          \* gdrom_drive.title
  recent,         \* gdrom_recent_list
  count,          \* gdrom_recent_count
  config,         \* CONFIG_GDROM and CONFIG_RECENT
  misused         \* history: an object was used that had been destroyed

vars == <<heap, drive, title, recent, count, config, misused>>

NULL == 0
Objects == 1 .. 8
NONE == << >>
FREE == [is |-> "free"]

(* Contents: format "gdi", "cut" (a GDI list that ends before track bad),  *)
(* "cdi", "program" (no disc image) or "other"; the track that cannot be   *)
(* read, 0 for none; what the boot sector says: "magic", "else", or        *)
(* "nothing" if there is none or it cannot be read.                        *)
Content(format, tracks, bad, says) ==
  [format |-> format, tracks |-> tracks, bad |-> bad, says |-> says]

Source(ref, parent) == [is |-> "source", ref |-> ref, parent |-> parent]
Disc(name, base) ==
  [is |-> "disc", ref |-> 0, name |-> name, base |-> base, tracks |-> << >>,
   track_count |-> 0]

(* The state of the heap inside an operation.                              *)
Now == [heap |-> heap, bad |-> misused, new |-> NULL]

Alloc(s, object) ==
  LET new == Min({o \in Objects : s.heap[o] = FREE})
  IN  [s EXCEPT !.heap[new] = object, !.new = new]

Ref(s, o) ==
  IF s.heap[o] = FREE THEN [s EXCEPT !.bad = TRUE]
  ELSE [s EXCEPT !.heap[o].ref = @ + 1]

Init ==
  /\ heap = [o \in Objects |-> FREE] /\ drive = NULL /\ title = NONE
  /\ recent = << >> /\ count = 0 /\ misused = FALSE
  /\ config = [disc |-> NONE, recent |-> << >>]

-----------------------------------------------------------------------------
(* Definitions marked "Faulty" are variants of the one that follows; the   *)
(* specification does not use them.  They show that a property can fail.   *)

(* sector_source_unref and the destroy functions: an object that is given  *)
(* up by its last owner gives up its parts.  A disc has tracks and a file, *)
(* a track may be part of a file, and a file is part of nothing.           *)
GiveUp(Parts(_, _), s, o) ==
  IF o = NULL THEN s
  ELSE IF s.heap[o] = FREE THEN [s EXCEPT !.bad = TRUE]
  ELSE
    LET left == IF s.heap[o].ref > 0 THEN s.heap[o].ref - 1 ELSE 0
        tracks == IF s.heap[o].track_count = 0 THEN << >> ELSE s.heap[o].tracks
        parts == IF s.heap[o].is = "source" THEN <<s.heap[o].parent>>
                 ELSE Append(tracks, s.heap[o].base)
        without == FoldLeft(Parts, s, parts)
    IN  IF left > 0 THEN [s EXCEPT !.heap[o].ref = left]
        ELSE [without EXCEPT !.heap[o] = FREE]

NoParts(s, o) == s
UnrefFile(s, o) == GiveUp(NoParts, s, o)
UnrefTrack(s, o) == GiveUp(UnrefFile, s, o)
Unref(s, o) == GiveUp(UnrefTrack, s, o)

(* cdrom_disc_clear_toc                                                    *)
Emptied(s, disc) ==
  IF s.heap[disc] = FREE THEN [s EXCEPT !.bad = TRUE]
  ELSE [s EXCEPT !.heap[disc].tracks = << >>, !.heap[disc].track_count = 0]

ClearToc(s, disc) ==
  IF s.heap[disc] = FREE THEN [s EXCEPT !.bad = TRUE]
  ELSE Emptied(FoldLeft(Unref, s, s.heap[disc].tracks), disc)

(* One track of an image: a file of its own or a part of the image.        *)
AddTrack(s, disc, parent) ==
  LET made == Alloc(IF parent = NULL THEN s ELSE Ref(s, parent), Source(0, parent))
  IN  [made EXCEPT !.heap[disc].tracks = Append(@, made.new)]

(* gdi_image_read_toc and cdi_image_read_toc, up to the track that cannot  *)
(* be read.  A GDI list sets the number of tracks first, a CDI image last, *)
(* and so does a Nero image, which "cdi" stands for as well.               *)
(* A GDI list that ends early gives up the disc, which the callers then    *)
(* clear and give up once more.                                            *)
ReadToc(s, disc, c) ==
  LET good == IF c.bad = 0 THEN c.tracks ELSE c.bad - 1
      parent == IF c.format = "cdi" THEN s.heap[disc].base ELSE NULL
      read == FoldLeft(LAMBDA acc, t : AddTrack(acc, disc, parent), s,
                       [t \in 1 .. good |-> t])
      counted == IF c.format = "cdi" /\ c.bad # 0 THEN read
                 ELSE [read EXCEPT !.heap[disc].track_count = c.tracks]
  IN  IF c.format = "cut" THEN Unref(counted, disc) ELSE counted

(* A disc that is given up where it was opened                             *)
GivenUp(s, disc) == [Unref(s, disc) EXCEPT !.new = NULL]

(* cdrom_disc_open of an image, through cdrom_disc_read_toc                *)
ImageRead(s, disc, c) ==
  IF c.format \notin {"gdi", "cdi", "cut"} THEN GivenUp(s, disc)
  ELSE IF c.bad # 0 THEN GivenUp(ClearToc(ReadToc(s, disc, c), disc), disc)
  ELSE [ReadToc(s, disc, c) EXCEPT !.new = disc]

NewDisc(s, name) == Alloc(s, Disc(name, s.new))

OpenImage(s, name, c) ==
  LET made == NewDisc(Alloc(s, Source(1, NULL)), name)
  IN  ImageRead(made, made.new, c)

(* cdrom_wrap_magic: a disc of an empty and a temporary track, if the file *)
(* system can be built                                                     *)
Wrap(s, name, c) ==
  LET filler == Alloc(s, Source(1, NULL))
      track == Alloc(filler, Source(1, NULL))
      made == Alloc(track, [Disc(name, NULL) EXCEPT
                              !.tracks = <<filler.new, track.new>>,
                              !.track_count = 2])
  IN  IF c.bad = 0 THEN made
      ELSE LET tmp == Alloc(s, Source(0, NULL)) IN GivenUp(tmp, tmp.new)

(* cdrom_disc_open of a host drive: the disc takes the drive's name, and   *)
(* its tracks have no sources.  The device may be gone.                    *)
OpenDrive(s, name, c) ==
  IF c.format = "other" THEN s ELSE NewDisc(Alloc(s, Source(1, NULL)), name)

(* cdrom_disc_open, and cdrom_wrap_magic for what it does not know         *)
Opened(s, name, c) ==
  IF name \in Range(Devices) THEN OpenDrive(s, name, c)
  ELSE LET image == OpenImage(s, name, c)
       IN  IF c.format = "program" THEN Wrap(image, name, c) ELSE image

-----------------------------------------------------------------------------
FIRST_RECENT_INDEX == Len(Devices) + 2

(* gdrom_list_find: -1 if there is none                                    *)
Find(list, name) ==
  IF name \in Range(Devices)
    THEN CHOOSE i \in DOMAIN Devices : Devices[i] = name
  ELSE IF name \in Range(list)
    THEN Len(Devices) + 1 + SelectInSeq(list, LAMBDA n : n = name)
  ELSE -1

(* Faulty: the count goes up for every new item.                           *)
AddRecentCounted(list, n, name) ==
  <<IF Len(list) < MAX_RECENT_ITEMS THEN <<name>> \o list
    ELSE <<name>> \o SubSeq(list, 1, MAX_RECENT_ITEMS - 1), n + 1>>

(* gdrom_list_add_recent_item: the list and its count                      *)
AddRecent(list, n, name) ==
  LET longer == <<name>> \o list
  IN  IF Len(longer) > MAX_RECENT_ITEMS
        THEN <<RemoveAt(longer, MAX_RECENT_ITEMS + 1), n>>
      ELSE <<longer, n + 1>>

MoveToFront(list, name) ==
  <<name>> \o RemoveAt(list, SelectInSeq(list, LAMBDA n : n = name))

(* gdrom_list_disc_changed, called by gdrom_fire_disc_changed              *)
DiscChanged(name) ==
  LET at == IF name = NONE THEN 0 ELSE Find(recent, name)
      to == IF at = -1 THEN AddRecent(recent, count, name)
            ELSE IF at > FIRST_RECENT_INDEX
              THEN <<MoveToFront(recent, name), count>>
            ELSE <<recent, count>>
  IN  /\ recent' = to[1] /\ count' = to[2]
      /\ config' = [disc |-> name,
                    recent |-> IF to[1] # recent THEN to[1] ELSE config.recent]

(* gdrom_disc_read_title: a boot sector without the magic leaves the title *)
(* of the disc before; if none can be read there is no title.              *)
Titled(name, c) ==
  CASE c.says = "magic" -> name [] c.says = "nothing" -> NONE [] OTHER -> title

(* gdrom_mount_image and gdrom_mount_disc                                  *)
Commit(s) == heap' = s.heap /\ misused' = s.bad

Mounted(opened, name, c) ==
  \/ /\ opened.new = NULL
     /\ Commit(opened) /\ UNCHANGED <<drive, title, recent, count, config>>
  \/ /\ opened.new # NULL
     /\ Commit(Ref(Unref(opened, drive), opened.new))
     /\ drive' = opened.new /\ title' = Titled(name, c)
     /\ DiscChanged(name)

Mount(name, c) == Mounted(Opened(Now, name, c), name, c)

MountImage == \E name \in Names, c \in Contents : Mount(name, c)

(* gdrom_unmount_disc: the title stays                                     *)
Unmounted ==
  IF drive = NULL THEN UNCHANGED vars
  ELSE Commit(Unref(Now, drive)) /\ drive' = NULL /\ DiscChanged(NONE) /\ UNCHANGED title

(* What the list's window shows: gdrom_list_size, gdrom_list_get_filename  *)
Size == Len(Devices) + count + 2
Filename(posn) ==
  IF posn \in DOMAIN Devices THEN Devices[posn]
  ELSE IF posn - FIRST_RECENT_INDEX + 1 \in DOMAIN recent
    THEN recent[posn - FIRST_RECENT_INDEX + 1]
  ELSE NONE

(* gdrom_list_set_selection                                                *)
Select ==
  \E posn \in 0 .. Size - 1 :
    \/ posn = 0 /\ Unmounted
    \/ /\ posn \in DOMAIN Devices \/ posn - FIRST_RECENT_INDEX \in 0 .. count - 1
       /\ \E c \in Contents : Mount(Filename(posn), c)

(* The emulator ends and starts again: gdrom_list_init takes the list from *)
(* the configuration file, where the names are joined by colons, and main  *)
(* mounts what was in the drive.                                           *)
Parted == FlattenSeq([i \in DOMAIN config.recent |->
                        [j \in DOMAIN config.recent[i] |-> <<config.recent[i][j]>>]])

Restart ==
  /\ heap' = [o \in Objects |-> FREE] /\ drive' = NULL /\ title' = NONE
  /\ recent' = Parted /\ count' = Len(Parted)
  /\ UNCHANGED <<config, misused>>

Remount ==
  /\ drive = NULL /\ config.disc # NONE
  /\ \E c \in Contents : Mount(config.disc, c)

Next == MountImage \/ Select \/ Restart \/ Remount

Spec == Init /\ [][Next]_vars

-----------------------------------------------------------------------------
(* What there is a way to from the disc in the drive.                      *)
Reachable ==
  IF drive = NULL \/ heap[drive] = FREE THEN {drive} \ {NULL}
  ELSE LET parts == {drive, heap[drive].base} \cup Range(heap[drive].tracks)
           parents == {heap[o].parent : o \in {p \in parts \ {NULL} :
                                                 heap[p].is = "source"}}
       IN  (parts \cup parents) \ {NULL}

(* Whatever fails while an image is opened, nothing that was destroyed is  *)
(* used, and what is allocated is the disc in the drive, its tracks and    *)
(* their files: nothing is lost, nothing is destroyed too early.           *)
(* (sector_source_unref, cdrom_disc_open, gdrom_mount_disc)                *)
NothingMisused == ~misused
OwnedExactly == Reachable = {o \in Objects : heap[o] # FREE}

(* The list of recent discs has no name twice, is as long as its count     *)
(* says and not too long, is what the configuration file keeps, and every  *)
(* name is found at the position that selects it; the file names the disc  *)
(* in the drive.  (gdlist.c, gdrom_fire_disc_changed)                      *)
ListTrue ==
  /\ count = Len(recent) /\ count <= MAX_RECENT_ITEMS
  /\ \A i, j \in DOMAIN recent : i # j => recent[i] # recent[j]
  /\ config.recent = recent
  /\ \A posn \in DOMAIN Devices \cup (FIRST_RECENT_INDEX .. Size - 1) :
       Find(recent, Filename(posn)) = posn
  /\ drive # NULL => /\ config.disc = heap[drive].name
                     /\ Find(recent, heap[drive].name) # -1

(* The title shown is that of the disc in the drive.                       *)
(* (gdrom_disc_read_title)                                                 *)
TitleTrue == drive # NULL => title \in {NONE, heap[drive].name}

DiscsTrue == NothingMisused /\ OwnedExactly /\ ListTrue /\ TitleTrue
=============================================================================
