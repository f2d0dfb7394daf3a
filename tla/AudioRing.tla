------------------------------ MODULE AudioRing ------------------------------
(***************************************************************************)
(* The ring of output buffers between the emulator's thread, which mixes   *)
(* sound into it (src/src/aica/audio.c), and the thread of the CoreAudio   *)
(* driver, which plays it (src/src/drivers/audio_osx.m).  They share the   *)
(* status of the buffers, the two indices and output_buffer, without a     *)
(* lock; every access to one of these is a step.  (The other drivers take  *)
(* a buffer when it is offered, in the thread that mixes.)                 *)
(*                                                                         *)
(* A buffer is filled with a block, numbered in a cycle of Blocks.  Blocks *)
(* that find no room are lost before they get a number.  A buffer lasts    *)
(* 100 ms, and the call that marks another one as full takes microseconds: *)
(* that no buffer is played from start to end within one such call is an   *)
(* assumption here (PlaysLonger).                                          *)
(***************************************************************************)
EXTENDS Integers

CONSTANTS
  NUM_BUFFERS,    \* 3
  Blocks          \* bound on the numbers of blocks

(* What is assumed of the constants.                                       *)
RingAssumption == NUM_BUFFERS \in Nat \ {0} /\ Blocks \in Nat \ {0}

VARIABLES
  status,         \* of every buffer: "empty", "writing" or "full"
  content,        \* the number of the block in it
  write, read,    \* audio.write_buffer and audio.read_buffer
  output,         \* output_buffer, or NULL
  writer,         \* where the emulator's thread is
  reader,         \* where the thread of the driver is
  result,         \* what audio_next_read_buffer is about to return
  block,          \* the number of the next block
  within          \* history: the call that was on when the play began still is

vars ==
  <<status, content, write, read, output, writer, reader, result, block, within>>

NULL == -1
Buffer == 0 .. NUM_BUFFERS - 1
After(b) == (b + 1) % NUM_BUFFERS

(* audio_set_driver.                                                       *)
Init ==
  /\ status = [b \in Buffer |-> "empty"]
  /\ content = [b \in Buffer |-> NULL]
  /\ write = 0
  /\ read = 0
  /\ output = NULL
  /\ writer = "mix"
  /\ reader = "wait"
  /\ result = NULL
  /\ block = 0
  /\ within = FALSE

-----------------------------------------------------------------------------
(* Definitions marked "Faulty" are variants of the one that follows; the   *)
(* specification does not use them.  They show that a property can fail.   *)

(* audio_mix_samples: the last sample of a buffer has been written; or the *)
(* buffer is full since an earlier call that found no other.               *)
Mix ==
  /\ writer = "mix"
  /\ IF status[write] = "full" THEN UNCHANGED <<content, block>>
     ELSE /\ content' = [content EXCEPT ![write] = block]
          /\ block' = (block + 1) % Blocks
  /\ writer' = "mark"
  /\ UNCHANGED <<status, write, read, output, reader, result, within>>

(* audio_next_write_buffer, from here to Take.                             *)
Mark ==
  /\ writer = "mark"
  /\ status' = [status EXCEPT ![write] = "full"]
  /\ writer' = IF read = write THEN "offer" ELSE "next"
  /\ UNCHANGED <<content, write, read, output, reader, result, block, within>>

(* audio_osx_process_buffer: taken if nothing is being played.             *)
Offer ==
  /\ writer = "offer"
  /\ output' = IF output = NULL THEN write ELSE output
  /\ writer' = "next"
  /\ UNCHANGED <<status, content, write, read, reader, result, block, within>>

(* Faulty: the next buffer is taken whatever it holds.                     *)
NextAny ==
  /\ writer = "next"
  /\ writer' = "take"
  /\ within' = within
  /\ UNCHANGED <<status, content, write, read, output, reader, result, block>>

(* No room: back to the mixer with NULL, the index where it is.            *)
NextBuffer ==
  /\ writer = "next"
  /\ writer' = IF status[After(write)] = "full" THEN "mix" ELSE "take"
  /\ within' = (within /\ status[After(write)] # "full")
  /\ UNCHANGED <<status, content, write, read, output, reader, result, block>>

Take ==
  /\ writer = "take"
  /\ write' = After(write)
  /\ status' = [status EXCEPT ![After(write)] = "writing"]
  /\ writer' = "mix"
  /\ within' = FALSE
  /\ UNCHANGED <<content, read, output, reader, result, block>>

-----------------------------------------------------------------------------
PlaysLonger == ~within

(* audio_osx_callback, up to the end of the buffer.                        *)
StartPlaying ==
  /\ reader = "wait"
  /\ output # NULL
  /\ reader' = "play"
  /\ within' = (writer # "mix")
  /\ UNCHANGED <<status, content, write, read, output, writer, result, block>>

Played ==
  /\ reader = "play"
  /\ PlaysLonger
  /\ reader' = "release"
  /\ UNCHANGED <<status, content, write, read, output, writer, result, block, within>>

(* audio_next_read_buffer, from here to Peek.                              *)
Release ==
  /\ reader = "release"
  /\ IF status[read] = "full"
     THEN /\ status' = [status EXCEPT ![read] = "empty"]
          /\ reader' = "advance"
          /\ result' = result
     ELSE status' = status /\ reader' = "store" /\ result' = NULL
  /\ UNCHANGED <<content, write, read, output, writer, block, within>>

Advance ==
  /\ reader = "advance"
  /\ read' = After(read)
  /\ reader' = "peek"
  /\ UNCHANGED <<status, content, write, output, writer, result, block, within>>

Peek ==
  /\ reader = "peek"
  /\ result' = IF status[read] = "full" THEN read ELSE NULL
  /\ reader' = "store"
  /\ UNCHANGED <<status, content, write, read, output, writer, block, within>>

Store ==
  /\ reader = "store"
  /\ output' = result
  /\ reader' = IF result = NULL THEN "wait" ELSE "play"
  /\ within' = (writer # "mix")
  /\ UNCHANGED <<status, content, write, read, writer, result, block>>

Next == \/ Mix \/ Mark \/ Offer \/ NextBuffer \/ Take
        \/ StartPlaying \/ Played \/ Release \/ Advance \/ Peek \/ Store

Spec == Init /\ [][Next]_vars

-----------------------------------------------------------------------------
(* The mixer only goes on to a buffer that has been given back, wherever   *)
(* the driver is in giving back another: when all are full it waits, and   *)
(* nothing that is queued is overwritten.  (audio_next_write_buffer,       *)
(* audio_next_read_buffer)                                                 *)
QueuedIsKept == writer = "take" => status[After(write)] # "full"

(* "Current read buffer has data, which we've just emptied" (audio.c:252): *)
(* the buffer that is given back is the one that was played.  The mixer    *)
(* may offer a buffer that the driver has given back since it looked.      *)
EmptiedWasPlayed == reader = "release" /\ status[read] = "full" => output = read
=============================================================================
