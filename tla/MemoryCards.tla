----------------------------- MODULE MemoryCards -----------------------------
(***************************************************************************)
(* Memory cards: the list of volumes (src/src/vmu/vmulist.c), their files  *)
(* (vmuvol.c) and the devices that hold them (src/src/maple/vmu.c).  A     *)
(* card is read when a device first wants it, written by the program in    *)
(* memory, and saved when the emulator stops; devices come and go.         *)
(*                                                                         *)
(* What is on a card is a number: 0 for a card just formatted, and a new   *)
(* one after every write.  A save writes another file and renames it, so   *)
(* the process may end before or after, but the file does not show it; a   *)
(* disk that is full does show, where the result of fwrite is not tested.  *)
(***************************************************************************)
EXTENDS Integers

CONSTANTS
  File,           \* names of card files
  Dev,            \* devices
  MaxCopies,      \* volumes of a file that there are at a time, at most
  MaxWrites       \* bound on the number of writes

NameAssumption == "none" \notin File
CopiesAssumption == MaxCopies \in [File -> Nat \ {0}]
WritesAssumption == MaxWrites \in Nat

VARIABLES
  entry,          \* vmu_list: the volume of a name, if it has been wanted
  vols,           \* the volumes: there, what is on it, and dirty
  device,         \* the devices: configured name, vol, and plugged in
  file,           \* what the files hold
  config,         \* the devices of the configuration file, with their names
  saving,         \* names vmulist_save_all has still to come to
  writes,         \* number of writes so far
  latest,         \* history: what was last written to the card
  excused         \* history: cards replaced while in use, or saved in part

vars == <<entry, vols, device, file, config, saving, writes, latest, excused>>

NONE == "none"
BAD == -1         \* a file that ends too early
ABSENT == -2
UNREADABLE == -3  \* no volume can be made of it
Copies(f) == {<<f, k>> : k \in 1 .. MaxCopies[f]}
Volume == UNION {Copies(f) : f \in File}
NoVolume == <<NONE, 0>>
Contents == 0 .. MaxWrites
Gone == [alive |-> FALSE, data |-> 0, dirty |-> FALSE]
Fresh(data) == [alive |-> TRUE, data |-> data, dirty |-> FALSE]
Blank == [file |-> NONE, vol |-> NoVolume, plugged |-> FALSE]

InUse(v) == \E d \in Dev : device[d].vol = v
Unused(f) == {v \in Copies(f) : ~vols[v].alive /\ ~InUse(v)}
FirstFree(f) == CHOOSE v \in Unused(f) : \A u \in Unused(f) : v[2] <= u[2]

-----------------------------------------------------------------------------
(* Definitions marked "Faulty" are variants of the one that follows; the   *)
(* specification does not use them.  They show that a property can fail.   *)

(* vmu_volume_load: no volume for a bad header; data that cannot be        *)
(* uncompressed are not noticed.                                           *)
Loads(f) ==
  CASE file[f] = ABSENT -> {UNREADABLE}
    [] file[f] = BAD -> {UNREADABLE, BAD}
    [] OTHER -> {file[f]}

(* vmulist_get_vmu_by_filename: the volume of the name, which is loaded if *)
(* there is none, and a new entry even if it cannot be.  Faulty: loads it  *)
(* for every device.                                                       *)
OpenedByEach(f, v) ==
  /\ Unused(f) # {}
  /\ \E data \in Loads(f) :
       /\ v = IF data = UNREADABLE THEN NoVolume ELSE FirstFree(f)
       /\ vols' = IF data = UNREADABLE THEN vols
                                       ELSE [vols EXCEPT ![v] = Fresh(data)]
  /\ entry' = [entry EXCEPT ![f] = v]
Opened(f, v) ==
  \/ /\ entry[f] # NoVolume
     /\ v = entry[f]
     /\ UNCHANGED <<entry, vols>>
  \/ /\ entry[f] = NoVolume
     /\ Unused(f) # {}
     /\ \E data \in Loads(f) :
          /\ v = IF data = UNREADABLE THEN NoVolume ELSE FirstFree(f)
          /\ vols' = IF data = UNREADABLE THEN vols
                                          ELSE [vols EXCEPT ![v] = Fresh(data)]
     /\ entry' = [entry EXCEPT ![f] = v]

Idle == saving = {}
OnlyDevices ==
  Idle /\ UNCHANGED <<file, config, saving, writes, latest, excused>>

(* vmu_set_config_value, of a device plugged in or of one in a dialog.     *)
Configure(d, f) ==
  /\ OnlyDevices
  /\ device[d].file # f
  /\ \E v \in Volume \cup {NoVolume} :
       /\ Opened(f, v)
       /\ device' = [device EXCEPT ![d].file = f, ![d].vol = v]

(* vmu_attach                                                              *)
Plug(d) ==
  /\ OnlyDevices
  /\ ~device[d].plugged
  /\ IF device[d].file = NONE
     THEN device' = [device EXCEPT ![d].plugged = TRUE] /\ UNCHANGED <<entry, vols>>
     ELSE \E v \in Volume \cup {NoVolume} :
            /\ Opened(device[d].file, v)
            /\ device' = [device EXCEPT ![d].vol = v, ![d].plugged = TRUE]

(* vmu_detach and vmu_destroy: a device that is taken out, or that was     *)
(* made in a dialog and is not wanted.                                     *)
Unplug(d) ==
  /\ OnlyDevices
  /\ device[d] # Blank
  /\ device' = [device EXCEPT ![d] = Blank]
  /\ UNCHANGED <<entry, vols>>

(* vmu_write_block                                                         *)
Write(d) ==
  LET v == device[d].vol
  IN  /\ Idle
      /\ device[d].plugged /\ v # NoVolume
      /\ vols[v].alive
      /\ writes < MaxWrites
      /\ writes' = writes + 1
      /\ vols' = [vols EXCEPT ![v].data = writes', ![v].dirty = TRUE]
      /\ latest' = [latest EXCEPT ![v[1]] = writes']
      /\ UNCHANGED <<entry, device, file, config, saving, excused>>

(* vmulist_add_entry: the volume that the name had is destroyed.           *)
Replaced(f, data) ==
  LET old == entry[f]
      v == FirstFree(f)
  IN  /\ Unused(f) # {}
      /\ vols' = [u \in Volume |-> CASE u = v   -> Fresh(data)
                                     [] u = old -> Gone
                                     [] OTHER   -> vols[u]]
      /\ entry' = [entry EXCEPT ![f] = v]
      /\ latest' = [latest EXCEPT ![f] = data]
      /\ excused' = IF old # NoVolume /\ InUse(old) THEN excused \cup {f}
                                                    ELSE excused

(* "Load VMU..." in the controller dialog.                                 *)
LoadCard(f) ==
  /\ Idle
  /\ \E data \in Loads(f) \ {UNREADABLE} : Replaced(f, data)
  /\ UNCHANGED <<device, file, config, saving, writes>>

(* "Create VMU...": vmulist_create_vmu, whose save may fail.               *)
CreateCard(f) ==
  /\ Idle
  /\ Replaced(f, 0)
  /\ file' = [file EXCEPT ![f] = 0]
  /\ UNCHANGED <<device, config, saving, writes>>

(* lxdream_save_config, when a dialog is closed.                           *)
SaveConfig ==
  /\ Idle
  /\ config' = [d \in Dev |-> IF device[d].plugged THEN device[d].file ELSE NONE]
  /\ UNCHANGED <<entry, vols, device, file, saving, writes, latest, excused>>

(* The emulator stops: vmulist_save_all, name by name.                     *)
Stop ==
  /\ Idle
  /\ saving' = {f \in File : entry[f] # NoVolume}
  /\ saving' # {}
  /\ UNCHANGED <<entry, vols, device, file, config, writes, latest, excused>>

(* vmu_volume_save: done, given up before the rename, or, if it was the    *)
(* compressed data that did not fit, done with part of them.               *)
Save(f) ==
  LET v == entry[f]
  IN  /\ f \in saving
      /\ saving' = saving \ {f}
      /\ \/ /\ vols[v].dirty
            /\ vols' = [vols EXCEPT ![v].dirty = FALSE]
            /\ \/ file' = [file EXCEPT ![f] = vols[v].data] /\ UNCHANGED excused
               \/ file' = [file EXCEPT ![f] = BAD] /\ excused' = excused \cup {f}
         \/ UNCHANGED <<vols, file, excused>>
      /\ UNCHANGED <<entry, device, config, writes, latest>>

(* The process ends, at any time, and starts again: the configuration      *)
(* makes the devices, vmulist_init the entries, and maple_reattach_all     *)
(* opens the cards.                                                        *)
Wanted == {f \in File : \E d \in Dev : config[d] = f}
Restarted(data) ==
  LET Has(f) == f \in Wanted /\ data[f] # UNREADABLE
      First(f) == IF Has(f) THEN <<f, 1>> ELSE NoVolume
  IN  /\ vols' = [v \in Volume |-> IF Has(v[1]) /\ v[2] = 1 THEN Fresh(data[v[1]])
                                                           ELSE Gone]
      /\ entry' = [f \in File |-> First(f)]
      /\ device' = [d \in Dev |-> LET f == config[d]
                                  IN  [file |-> f,
                                       vol |-> IF f \in File THEN First(f)
                                                             ELSE NoVolume,
                                       plugged |-> f # NONE]]
      /\ latest' = [f \in File |-> IF Has(f) THEN data[f] ELSE file[f]]

Restart ==
  /\ \E data \in [File -> Contents \cup {BAD, UNREADABLE}] :
       /\ \A f \in File : data[f] \in Loads(f)
       /\ Restarted(data)
  /\ saving' = {}
  /\ excused' = {}
  /\ UNCHANGED <<file, config, writes>>

Init ==
  /\ entry = [f \in File |-> NoVolume]
  /\ vols = [v \in Volume |-> Gone]
  /\ device = [d \in Dev |-> Blank]
  /\ file \in [File -> {ABSENT, 0}]
  /\ config = [d \in Dev |-> NONE]
  /\ saving = {}
  /\ writes = 0
  /\ latest = file
  /\ excused = {}

Next ==
  \/ \E d \in Dev : Plug(d) \/ Unplug(d) \/ Write(d)
  \/ \E d \in Dev, f \in File : Configure(d, f)
  \/ \E f \in File : LoadCard(f) \/ CreateCard(f) \/ Save(f)
  \/ SaveConfig \/ Stop \/ Restart

Spec == Init /\ [][Next]_vars

-----------------------------------------------------------------------------
(* Properties                                                              *)

(* Every variable has a value of its kind.                                 *)
TypeOK ==
  /\ entry \in [File -> Volume \cup {NoVolume}]
  /\ vols \in [Volume -> [alive : BOOLEAN, data : Contents \cup {BAD},
                          dirty : BOOLEAN]]
  /\ device \in [Dev -> [file : File \cup {NONE}, vol : Volume \cup {NoVolume},
                         plugged : BOOLEAN]]
  /\ file \in [File -> Contents \cup {BAD, ABSENT}]
  /\ saving \subseteq File

(* Devices with the same card share one volume, which is the one on the    *)
(* list and so is saved: unless the card was loaded or created again while *)
(* in use.  (vmulist_get_vmu_by_filename, vmulist_add_entry)               *)
UsedIsListed ==
  \A d \in Dev : device[d].vol # NoVolume /\ device[d].vol[1] \notin excused =>
    /\ device[d].vol = entry[device[d].file]
    /\ vols[device[d].vol].alive

(* What was last written to a card is in its volume; while the file holds  *)
(* something else the volume is dirty, and the next stop saves it, also if *)
(* an earlier one failed or the device is gone.  (vmu_volume_write_block,  *)
(* vmu_volume_save, vmulist_save_all)                                      *)
WritesAreKept ==
  \A f \in File \ excused :
    IF entry[f] = NoVolume THEN latest[f] = file[f]
    ELSE LET v == vols[entry[f]]
         IN  v.data = latest[f] /\ (v.dirty \/ file[f] = v.data)

(* No write to a card is lost while the process lives.                     *)
CardsKept == UsedIsListed /\ WritesAreKept

(* vmulist.h:49, "FALSE if the VMU was already attached, otherwise TRUE":  *)
(* a card is in one device at a time.                                      *)
AttachedOnce ==
  \A d, e \in Dev : d # e /\ device[d].plugged /\ device[e].plugged =>
    device[d].vol = NoVolume \/ device[d].vol # device[e].vol
=============================================================================
