-------------------------------- MODULE Maple --------------------------------
(***************************************************************************)
(* The Maple bus (src/src/maple/maple.c, the start register in asic.c) and *)
(* the light gun (lightgun.c, pvr2_gunpos_callback in pvr2.c).  A transfer *)
(* is carried out when it is started; its completion is an event 0.2 ms    *)
(* later, or, when a packet starts a gun, the event of the scanline the    *)
(* gun points at.  Devices are attached and detached while it runs.        *)
(*                                                                         *)
(* A buffer of packets is what it amounts to: it is not mapped, it ends    *)
(* with the last packet or with one that is in error, or it comes to a     *)
(* packet in light gun mode.  What devices answer is left out, except the  *)
(* mask of the peripherals.                                                *)
(***************************************************************************)
EXTENDS Integers

CONSTANTS
  Port,           \* the ports (0 .. 3)
  Slot            \* the places for sub-peripherals (1 .. 5); 0 is the main one

VARIABLES
  state,          \* bit 0 of MAPLE_STATE: a transfer is in progress
  dma,            \* EVENT_MAPLE_DMA is scheduled
  gunpos,         \* EVENT_GUNPOS is scheduled
  devices,        \* maple_devices: what is attached where
  mask,           \* maple_periph_mask, by port
  waiting,        \* gun_active: the guns that wait for the mouse
  aimed,          \* the guns that know where the mouse is
  open            \* history: transfers started and neither ended nor cancelled

vars == <<state, dma, gunpos, devices, mask, waiting, aimed, open>>

Place == Port \X ({0} \cup Slot)
Device == {"none", "plain", "gun"}

Attached(p) == {s \in {0} \cup Slot : devices[<<p, s>>] # "none"}

-----------------------------------------------------------------------------
(* Definitions marked "Faulty" are variants of the one that follows; the   *)
(* specification does not use them.  They show that a property can fail.   *)

(* maple_init and event_reset.                                             *)
Init ==
  /\ state = FALSE
  /\ dma = FALSE
  /\ gunpos = FALSE
  /\ devices = [d \in Place |-> "none"]
  /\ mask = [p \in Port |-> {}]
  /\ waiting = {}
  /\ aimed = {}
  /\ open = FALSE

(* maple_set_dma_state: a start is looked at only when nothing is running. *)
Start == state' = TRUE /\ UNCHANGED <<devices, mask, aimed>>

(* maple_handle_buffer with packets for devices only, or a bad one.        *)
StartDevices ==
  /\ ~state
  /\ dma' = TRUE
  /\ open' = TRUE
  /\ Start
  /\ UNCHANGED <<gunpos, waiting>>

(* A packet in light gun mode for port p: with no gun there it ends like   *)
(* any other; lightgun_start_gun waits for the mouse if it has to.  A      *)
(* position off the screen makes pvr2_schedule_scanline_event cancel.      *)
StartGun(p, onScreen) ==
  LET main == <<p, 0>>
      gun == devices[main] = "gun"
  IN  /\ ~state
      /\ dma' = (dma \/ ~gun)
      /\ gunpos' = IF gun /\ p \in aimed THEN onScreen ELSE gunpos
      /\ waiting' = IF gun /\ p \notin aimed THEN waiting \cup {p} ELSE waiting
      /\ open' = TRUE
      /\ Start

(* A buffer that is not mapped: nothing will end the transfer.             *)
StartUnmapped ==
  /\ ~state
  /\ open' = TRUE
  /\ Start
  /\ UNCHANGED <<dma, gunpos, waiting>>

(* A start while one is in progress is stored and otherwise ignored.       *)
StartAgain == state /\ UNCHANGED vars

(* Faulty: clears the register only.                                       *)
CancelKeepsEvent ==
  /\ state
  /\ state' = FALSE
  /\ open' = FALSE
  /\ UNCHANGED <<dma, gunpos, devices, mask, waiting, aimed>>

(* A write of 0.  stop_gun is never called: a gun goes on.                 *)
Cancel ==
  /\ state
  /\ state' = FALSE
  /\ dma' = FALSE
  /\ open' = FALSE
  /\ UNCHANGED <<gunpos, devices, mask, waiting, aimed>>

(* maple_event_handler.                                                    *)
Complete ==
  /\ dma
  /\ dma' = FALSE
  /\ state' = FALSE
  /\ open' = FALSE
  /\ UNCHANGED <<gunpos, devices, mask, waiting, aimed>>

(* pvr2_gunpos_callback posts the same event and leaves MAPLE_STATE alone. *)
GunSeen ==
  /\ gunpos
  /\ gunpos' = FALSE
  /\ open' = FALSE
  /\ UNCHANGED <<state, dma, devices, mask, waiting, aimed>>

(* lightgun_mouse_callback with an absolute position.                      *)
Mouse(p, onScreen) ==
  /\ devices[<<p, 0>>] = "gun"
  /\ aimed' = aimed \cup {p}
  /\ gunpos' = IF p \in waiting THEN onScreen ELSE gunpos
  /\ waiting' = waiting \ {p}
  /\ UNCHANGED <<state, dma, devices, mask, open>>

-----------------------------------------------------------------------------
(* Faulty: the devices below go, their bits stay.                          *)
DetachedLeavesBits(p, s) ==
  IF s = 0 THEN [devs |-> [d \in Place |-> IF d[1] = p THEN "none" ELSE devices[d]],
                      bits |-> mask[p] \ {0}]
                ELSE [devs |-> [devices EXCEPT ![<<p, s>>] = "none"],
                      bits |-> mask[p] \ {s}]

(* maple_detach_device: with the main device all those below it go.        *)
Detached(p, s) ==
  IF s = 0 THEN [devs |-> [d \in Place |-> IF d[1] = p THEN "none" ELSE devices[d]],
                      bits |-> {}]
                ELSE [devs |-> [devices EXCEPT ![<<p, s>>] = "none"],
                      bits |-> mask[p] \ {s}]

Detach(p, s) ==
  LET gone == Detached(p, s)
  IN  /\ devices[<<p, s>>] # "none"
      /\ devices' = gone.devs
      /\ mask' = [mask EXCEPT ![p] = gone.bits]
      /\ waiting' = IF s = 0 THEN waiting \ {p} ELSE waiting
      /\ aimed' = IF s = 0 THEN aimed \ {p} ELSE aimed
      /\ UNCHANGED <<state, dma, gunpos, open>>

(* maple_attach_device takes away what was there.  Guns are primary        *)
(* devices, and the configuration has no others without one.               *)
Attach(p, s, dev) ==
  LET was == IF devices[<<p, s>>] = "none" THEN [devs |-> devices, bits |-> mask[p]]
                                           ELSE Detached(p, s)
  IN  /\ s # 0 => dev = "plain" /\ devices[<<p, 0>>] # "none"
      /\ devices' = [was.devs EXCEPT ![<<p, s>>] = dev]
      /\ mask' = [mask EXCEPT ![p] = was.bits \cup {s}]
      /\ waiting' = IF s = 0 THEN waiting \ {p} ELSE waiting
      /\ aimed' = IF s = 0 THEN aimed \ {p} ELSE aimed
      /\ UNCHANGED <<state, dma, gunpos, open>>

(* event_reset and mem_reset, which writes 0 to MAPLE_STATE.  The devices  *)
(* have no part in a reset: a gun that waits still waits.                  *)
ResetMachine ==
  /\ state' = FALSE
  /\ dma' = FALSE
  /\ gunpos' = FALSE
  /\ open' = FALSE
  /\ UNCHANGED <<devices, mask, waiting, aimed>>

Next == \/ StartDevices \/ StartUnmapped \/ StartAgain \/ Cancel
        \/ Complete \/ GunSeen \/ ResetMachine
        \/ \E p \in Port, b \in BOOLEAN : StartGun(p, b) \/ Mouse(p, b)
        \/ \E p \in Port, s \in {0} \cup Slot :
             \/ Detach(p, s)
             \/ \E dev \in Device \ {"none"} : Attach(p, s, dev)

Spec == Init /\ [][Next]_vars

-----------------------------------------------------------------------------
(* The address byte of an answer names exactly the peripherals that are    *)
(* there, through every order of attaching, replacing and detaching, so    *)
(* that none is asked for that is gone.  (maple_attach_device,             *)
(* maple_detach_device, maple_periph_mask)                                 *)
MaskIsAttached == \A p \in Port : mask[p] = Attached(p)

(* The completion of a transfer to devices is only on its way while that   *)
(* transfer is in progress: one that was cancelled, or ended by a reset,   *)
(* is never announced in the middle of the next one.                       *)
(* (maple_set_dma_state, maple_event_handler, event_cancel)                *)
CompletionIsMine == dma => state

(* What the bus announces is there, and is what was asked for.             *)
BusTrue == MaskIsAttached /\ CompletionIsMine

(* maple_set_dma_state: "Cancel current DMA transfer" (asic.c:438).  After *)
(* it nothing announces the end of a transfer before another is started.   *)
CancelledIsSilent == gunpos => open
=============================================================================
