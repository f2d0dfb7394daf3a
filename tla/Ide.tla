-------------------------------- MODULE Ide --------------------------------
(***************************************************************************)
(* The GD-ROM drive as software sees it through the IDE registers          *)
(* (src/src/gdrom/ide.c): a command register, a packet of twelve bytes     *)
(* written word by word, a data phase by programmed I/O or by DMA, sector  *)
(* after sector, and an interrupt that the ASIC sees as EVENT_IDE.         *)
(*                                                                         *)
(* What the data are is left out; a reply is its length in words.  Of the  *)
(* status register BSY, DRQ and CHK are kept.  While the interface is      *)
(* disabled (idereg.interface_enabled) none of the register actions can    *)
(* happen, which adds no behaviour, so the flag is left out too.           *)
(***************************************************************************)
EXTENDS Integers

CONSTANTS
  PacketWords,    \* words in a command packet
  Lengths,        \* lengths of the replies and of the mode data
  SectorWords,    \* length of a sector
  Blocks,         \* the numbers of sectors software asks for
  CounterSize,    \* sectors_left counts modulo this, 2^32
  Requests        \* the lengths of the DMA transfers software asks for

(* What is assumed of the constants.                                       *)
PacketAssumption == PacketWords \in Nat \ {0}
LengthAssumption == /\ Lengths \subseteq Nat
                    /\ SectorWords \in Nat \ {0}
                    /\ Requests \subseteq Nat
CounterAssumption == /\ CounterSize \in Nat \ {0}
                     /\ Blocks \subseteq 0 .. CounterSize - 1

VARIABLES
  d,              \* idereg, with the ASIC's EVENT_IDE and two history fields
  disc,           \* what is in the drive
  unserved        \* history: a DMA request came when there was nothing to move

vars == <<d, disc, unserved>>

States == {"IDLE", "CMD_WRITE", "PIO_READ", "PIO_WRITE", "DMA_READ", "DMA_WRITE", "BUSY"}

(* "none": no disc image; "empty": a drive of the host without a disc,     *)
(* disc_type = CDROM_DISC_NONE; both can change at any time.               *)
Discs == {"none", "empty", "loaded"}

Packets == {"TEST_READY", "DRIVE_STATUS", "MODE_SENSE", "MODE_SELECT", "SENSE",
            "READ_TOC", "SESSION_INFO", "PLAY_AUDIO", "READ_SECTOR", "SPIN_UP",
            "STATUS", "71", "unknown"}

-----------------------------------------------------------------------------
(* The handlers of ide.c call one another, so each is a function from the  *)
(* drive to the drive, or to the set of drives it may leave behind.        *)
(*                                                                         *)
(* Definitions marked "Faulty" are variants of the one that follows; the   *)
(* specification does not use them.  They show that a property can fail.   *)

(* ide_raise_interrupt                                                     *)
Raise(e) == IF e.intrq THEN e
            ELSE [e EXCEPT !.intrq = TRUE, !.posted = @ \/ e.enabled]

(* ide_clear_interrupt                                                     *)
Clear(e) == IF ~e.intrq THEN e
            ELSE [e EXCEPT !.intrq = FALSE, !.posted = @ /\ ~e.enabled]

(* ide_set_packet_result                                                   *)
SetResult(e, ok) ==
  IF ok THEN [e EXCEPT !.status = @ \ {"BSY", "CHK"}, !.sense = FALSE]
        ELSE Raise([e EXCEPT !.status = {"CHK"}, !.sense = TRUE, !.state = "IDLE"])

(* ide_set_error: no interrupt, and the state stays what it was.           *)
BadField(e) == [e EXCEPT !.status = {"CHK"}]

DmaState == [READ |-> "DMA_READ", WRITE |-> "DMA_WRITE"]
PioState == [READ |-> "PIO_READ", WRITE |-> "PIO_WRITE"]

(* Faulty: the host is to look at the status by itself.                    *)
StartNoInterrupt(e, n, kind) ==
  LET f == [e EXCEPT !.offset = 0, !.length = n]
  IN  IF f.dma THEN [f EXCEPT !.status = {"BSY"}, !.state = DmaState[kind]]
               ELSE [f EXCEPT !.status = {"DRQ"}, !.state = PioState[kind]]

(* ide_start_read, ide_start_write: a data phase of n words, by DMA or by  *)
(* PIO as the feature register says at this moment.                        *)
Start(e, n, kind) ==
  LET f == [e EXCEPT !.offset = 0, !.length = n]
  IN  IF f.dma THEN [f EXCEPT !.status = {"BSY"}, !.state = DmaState[kind]]
               ELSE Raise([f EXCEPT !.status = {"DRQ"}, !.state = PioState[kind]])

(* ide_start_packet_read, ide_start_packet_write, with no sectors to come  *)
Reply(e, kind) ==
  {Start(SetResult([e EXCEPT !.left = 0, !.owed = 0, !.sector = FALSE], TRUE), n, kind) :
      n \in Lengths}

(* Faulty: the sector is not counted until it is handed over.              *)
NextSectorNotCounted(e) ==
  {SetResult(e, FALSE)}
    \cup (IF disc = "loaded" THEN {Start(e, SectorWords, "READ")} ELSE {})

(* ide_read_next_sector.  Reading may fail for many reasons; without a     *)
(* disc it does.                                                           *)
NextSector(e) ==
  {SetResult(e, FALSE)}
    \cup (IF disc = "loaded"
          THEN {Start([e EXCEPT !.left = (@ - 1) % CounterSize], SectorWords, "READ")}
          ELSE {})

(* History: the host has the whole buffer.                                 *)
HandedOver(e) == IF e.sector THEN [e EXCEPT !.owed = @ - 1] ELSE e

(* REQUIRE_DISC.  gdrom_get_drive_status compares an error code with a     *)
(* disc type, so an empty drive counts as ready.                           *)
Absent(c) == /\ c \in {"TEST_READY", "READ_SECTOR", "SPIN_UP", "STATUS", "71"}
             /\ disc = "none"

(* ide_packet_command.  Some commands end with the status 0x50 and the     *)
(* state BUSY; a page of PKT_CMD_STATUS that is not known does nothing.    *)
Executed(e, c) ==
  IF c # "SENSE" /\ e.reset THEN {[SetResult(e, FALSE) EXCEPT !.reset = FALSE]}
  ELSE IF Absent(c) THEN {SetResult(e, FALSE)}
  ELSE CASE c \in {"SENSE", "71"} -> Reply(e, "READ")
         [] c \in {"DRIVE_STATUS", "MODE_SENSE"} -> {BadField(e)} \cup Reply(e, "READ")
         [] c = "MODE_SELECT" -> {BadField(e)} \cup Reply(e, "WRITE")
         [] c = "READ_TOC" ->
              IF disc = "loaded" THEN Reply(e, "READ") ELSE {SetResult(e, FALSE)}
         [] c = "SESSION_INFO" ->
              {SetResult(e, FALSE)} \cup (IF disc = "loaded" THEN Reply(e, "READ") ELSE {})
         [] c = "STATUS" -> {e} \cup Reply(e, "READ")
         [] c = "TEST_READY" -> {[Raise(SetResult(e, TRUE)) EXCEPT !.status = {}]}
         [] c = "SPIN_UP" -> {Raise(SetResult(e, TRUE))}
         [] c = "PLAY_AUDIO" ->
              {[Raise(SetResult(e, ok)) EXCEPT !.status = {}] : ok \in {FALSE, disc = "loaded"}}
         [] c = "READ_SECTOR" ->
              UNION {NextSector([e EXCEPT !.left = n, !.owed = n, !.sector = TRUE]) : n \in Blocks}
         [] c = "unknown" -> {SetResult(e, FALSE)}

(* One turn of the loop of ide_read_data_dma, with n words still wanted.   *)
DmaTurn(e, n) ==
  LET m == IF n < e.length - e.offset THEN n ELSE e.length - e.offset
      f == [e EXCEPT !.offset = @ + m]
  IN  CASE n = 0 \/ e.state # "DMA_READ" -> {<<e, n>>}
        [] n # 0 /\ e.state = "DMA_READ" /\ f.offset < f.length -> {<<f, n - m>>}
        [] OTHER ->
             IF f.left > 0
             THEN {<<g, n - m>> : g \in NextSector(HandedOver(f))}
             ELSE {<<Raise([HandedOver(f) EXCEPT !.offset = -1, !.state = "IDLE", !.status = {}]), 0>>}

(* ide_read_data_dma for n words.  Each turn but the last moves a word.    *)
Moved(e, n) ==
  LET after[i \in 0 .. n] == IF i = 0 THEN {<<e, n>>}
                             ELSE UNION {DmaTurn(p[1], p[2]) : p \in after[i - 1]}
  IN  {p[1] : p \in after[n]}

(* ide_reset                                                               *)
ResetDrive(e) ==
  [Clear(e) EXCEPT !.status = {}, !.state = "IDLE", !.offset = -1, !.length = -1, !.left = 0,
                   !.sense = FALSE, !.reset = TRUE, !.owed = 0, !.sector = FALSE]

-----------------------------------------------------------------------------
Init ==
  /\ d = [state |-> "IDLE", status |-> {}, intrq |-> FALSE, enabled |-> TRUE,
          posted |-> FALSE, dma |-> FALSE, offset |-> -1, length |-> -1, left |-> 0,
          sense |-> FALSE, reset |-> TRUE, owed |-> 0, sector |-> FALSE]
  /\ disc \in Discs
  /\ unserved = FALSE

(* ide_can_write_regs                                                      *)
Writable == "BSY" \notin d.status

WriteFeature(v) == Writable /\ d' = [d EXCEPT !.dma = v] /\ UNCHANGED <<disc, unserved>>

(* ide_write_control.  It can be written at any time.                      *)
WriteControl(v) ==
  /\ d' = [d EXCEPT !.enabled = v, !.posted = IF d.intrq /\ v # d.enabled THEN v ELSE @]
  /\ UNCHANGED <<disc, unserved>>

(* ide_read_status                                                         *)
ReadStatus ==
  /\ d' = IF Writable THEN Clear(d) ELSE d
  /\ UNCHANGED <<disc, unserved>>

(* ide_write_command.  The drive can be aborted even when it is busy.      *)
WriteCommand(c) ==
  /\ Writable \/ c = "NOP"
  /\ LET e == Clear(d)
     IN  d' = CASE c = "NOP" -> Raise([e EXCEPT !.state = "IDLE", !.status = {"CHK"}, !.offset = -1,
                                                !.owed = 0, !.sector = FALSE])
                [] c = "RESET_DEVICE" -> ResetDrive(e)
                [] c = "PACKET" -> [e EXCEPT !.state = "CMD_WRITE", !.status = {"DRQ"}, !.offset = 0,
                                             !.length = PacketWords, !.owed = 0, !.sector = FALSE]
                [] c = "SET_FEATURE" -> Raise([e EXCEPT !.status = {}])
                [] c = "unknown" -> e
  /\ UNCHANGED <<disc, unserved>>

(* Faulty: one word too many.                                              *)
WritePacketWordLate ==
  /\ d.state = "CMD_WRITE" /\ d.offset < d.length
  /\ d' = [d EXCEPT !.offset = @ + 1]
  /\ UNCHANGED <<disc, unserved>>

(* ide_write_data_pio, of a packet's words but the last                    *)
WritePacketWord ==
  /\ d.state = "CMD_WRITE" /\ d.offset + 1 < d.length
  /\ d' = [d EXCEPT !.offset = @ + 1]
  /\ UNCHANGED <<disc, unserved>>

(* ... and of the last, which makes the packet the command c               *)
Execute(c) ==
  /\ d.state = "CMD_WRITE" /\ d.offset + 1 = d.length
  /\ d' \in Executed([d EXCEPT !.state = "BUSY", !.status = (@ \ {"DRQ"}) \cup {"BSY"},
                               !.offset = -1], c)
  /\ UNCHANGED <<disc, unserved>>

(* ide_write_data_pio, of mode data.  What the data do to the mode page is *)
(* left out.                                                               *)
WriteDataWord ==
  /\ d.state = "PIO_WRITE"
  /\ d' = IF d.offset + 1 < d.length THEN [d EXCEPT !.offset = @ + 1]
          ELSE Raise([d EXCEPT !.state = "IDLE", !.status = @ \ {"DRQ"}, !.offset = -1])
  /\ UNCHANGED <<disc, unserved>>

(* ide_read_data_pio.  The interrupt of a sector that is read comes before *)
(* the next one is.                                                        *)
ReadDataWord ==
  /\ d.state = "PIO_READ"
  /\ IF d.offset + 1 < d.length THEN d' = [d EXCEPT !.offset = @ + 1]
     ELSE LET e == Raise([HandedOver(d) EXCEPT !.state = "IDLE", !.status = @ \ {"DRQ"},
                                               !.offset = -1])
          IN  d' \in IF e.left > 0 THEN NextSector(e) ELSE {e}
  /\ UNCHANGED <<disc, unserved>>

(* asic_ide_dma_transfer calls ide_read_data_dma.                          *)
StartDma(n) ==
  /\ d' \in Moved(d, n)
  /\ unserved' = (d.state # "DMA_READ" /\ (unserved \/ n > 0))
  /\ UNCHANGED disc

(* dreamcast_reset                                                         *)
Reset == d' = ResetDrive(d) /\ UNCHANGED <<disc, unserved>>

ChangeDisc == disc' \in Discs \ {disc} /\ UNCHANGED <<d, unserved>>

Next ==
  \/ \E v \in BOOLEAN : WriteFeature(v) \/ WriteControl(v)
  \/ ReadStatus
  \/ \E c \in {"NOP", "RESET_DEVICE", "PACKET", "SET_FEATURE", "unknown"} : WriteCommand(c)
  \/ WritePacketWord
  \/ \E c \in Packets : Execute(c)
  \/ WriteDataWord
  \/ ReadDataWord
  \/ \E n \in Requests : StartDma(n)
  \/ Reset
  \/ ChangeDisc

Spec == Init /\ [][Next]_vars

-----------------------------------------------------------------------------
TypeOK ==
  /\ d \in [state : States, status : SUBSET {"BSY", "DRQ", "CHK"}, intrq : BOOLEAN,
            enabled : BOOLEAN, posted : BOOLEAN, dma : BOOLEAN, offset : Int, length : Int,
            left : 0 .. CounterSize - 1, sense : BOOLEAN, reset : BOOLEAN, owed : Int,
            sector : BOOLEAN]
  /\ disc \in Discs
  /\ unserved \in BOOLEAN

(* EVENT_IDE is posted in the ASIC exactly while the drive's interrupt is  *)
(* pending and not disabled, whatever the order of raising, clearing,      *)
(* enabling and resets.  (ide_raise_interrupt, ide_clear_interrupt,        *)
(* ide_write_control, ide_reset)                                           *)
LineExact == d.posted <=> d.intrq /\ d.enabled

(* The status register never promises what the state does not keep: DRQ    *)
(* only while words are taken or given, the drive closed to all but an     *)
(* abort during DMA, and never both.  (ide_start_read,                     *)
(* ide_set_packet_result, ide_write_command)                               *)
StatusAgrees ==
  /\ "DRQ" \in d.status => d.state \in {"CMD_WRITE", "PIO_READ", "PIO_WRITE"}
  /\ d.state \in {"DMA_READ", "DMA_WRITE"} => d.status = {"BSY"}
  /\ "BSY" \in d.status => d.state \in {"DMA_READ", "DMA_WRITE", "BUSY"}

(* While words are expected there is one to take or give in the buffer,    *)
(* through every mix of PIO, DMA, aborts and changes of the feature        *)
(* register.  (A reply of length 0 gives the host a word that is not       *)
(* there.)  (ide_read_data_pio, ide_read_data_dma, ide_write_data_pio)     *)
WordsInBuffer ==
  d.state \notin {"IDLE", "BUSY"} =>
    /\ d.offset >= 0
    /\ d.offset < d.length \/ d.length = 0

(* During a sector read sectors_left is the number of sectors the host has *)
(* still to get after the current one, and the read ends early only with   *)
(* sense data.  (ide_read_next_sector, and its three callers)              *)
SectorsExact ==
  d.owed > 0 => IF d.state \in {"PIO_READ", "DMA_READ"} THEN d.left = d.owed - 1
                                                       ELSE d.sense

(* Interrupt and status register tell the same as the drive's state, and   *)
(* its counts are right: of words in the buffer, and of sectors.           *)
(* (ide_raise_interrupt, ide_clear_interrupt, ide_write_command,           *)
(* ide_read_next_sector, ide_read_data_pio, ide_read_data_dma)             *)
DriveTrue == LineExact /\ StatusAgrees /\ WordsInBuffer /\ SectorsExact

(* Every packet is answered when its last word is written: by an interrupt *)
(* or, under DMA, by a drive that is ready to move.  There are two         *)
(* exceptions: a mode or status page out of range sets CHK but does not    *)
(* interrupt, an unknown page of PKT_CMD_STATUS leaves the drive busy.     *)
(* (ide_packet_command)                                                    *)
Answered ==
  [][\A c \in Packets : Execute(c) =>
       \/ d'.intrq
       \/ d'.dma /\ d'.state \in {"DMA_READ", "DMA_WRITE"}
       \/ c \in {"DRIVE_STATUS", "MODE_SENSE", "MODE_SELECT"} /\ d'.status = {"CHK"}
       \/ c = "STATUS" /\ d'.state = "BUSY"]_vars

(* ide.h:75, "sectors left after current read": the host is not given more *)
(* sectors than it asked for.                                              *)
NeverTooMany == d.owed >= 0

(* ide.h:92, "Check condition (ie error)": a command that fails sets CHK.  *)
FailureShown ==
  [][\A c \in Packets : Execute(c) /\ d'.sense => "CHK" \in d'.status]_vars

(* ide.h:61, "Sense response for the last executed packet command": a read *)
(* that starts well leaves no sense data of an earlier command.            *)
SenseIsLast ==
  [][Execute("READ_SECTOR") /\ d'.state \in {"PIO_READ", "DMA_READ"} => ~d'.sense]_vars

(* ide.h:38, "No media in drive": a drive without a disc is not ready.     *)
ReadyMeansMedia ==
  [][Execute("TEST_READY") /\ disc # "loaded" => "CHK" \in d'.status]_vars

(* ide.c:321, "otherwise we record the DMA buffer for use when we get to   *)
(* actually doing the transfer": an early request is carried out when the  *)
(* data are there.                                                         *)
EarlyDmaServed == ~(unserved /\ d.state = "DMA_READ")
=============================================================================
