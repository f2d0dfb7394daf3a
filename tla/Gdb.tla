--------------------------------- MODULE Gdb ---------------------------------
(***************************************************************************)
(* A connection of the GDB server (src/src/gdbserver.c): bytes arrive in   *)
(* pieces, the buffer is searched for frames from its start after each of  *)
(* them, what is left is moved to the front, and a buffer that is nearly   *)
(* full is doubled up to a limit.                                          *)
(*                                                                         *)
(* A byte is one of five.  $ and # delimit; ! is Control-C outside a       *)
(* frame; a and b are noise outside, data inside, and the right and a      *)
(* wrong digit in a checksum.  As the first of a frame's data, a stands    *)
(* for the command that continues, any other for one that is answered at   *)
(* once.                                                                   *)
(***************************************************************************)
EXTENDS Integers, Sequences

CONSTANTS
  BUFFER_SIZE,    \* DEFAULT_BUFFER_SIZE
  MARGIN,         \* BUFFER_SIZE_MARGIN
  MAX_SIZE,       \* MAX_BUFFER_SIZE
  MaxPiece        \* bytes that one call of read returns, at most

Doublings == {1, 2, 4, 8, 16, 32, 64}

SizeAssumption == /\ BUFFER_SIZE \in Nat \ {0} /\ MaxPiece \in Nat \ {0}
                  /\ MARGIN \in 1 .. BUFFER_SIZE - 1
                  /\ \E k \in Doublings : MAX_SIZE = k * BUFFER_SIZE

VARIABLES
  buf,            \* the bytes in the buffer, as many as buf_posn
  size,           \* buf_size
  done,           \* what the last read led to: answers, commands and stops
  open,           \* connected
  wire,           \* reference: where the stream of bytes is in a frame
  due             \* reference: what the last read should have led to

vars == <<buf, size, done, open, wire, due>>

Byte == {"$", "#", "!", "a", "b"}
Piece == UNION {[1 .. n -> Byte] : n \in 1 .. MaxPiece}

(* gdb_server_handle_frame, and the acknowledgement before it.  A command  *)
(* has one answer, but for one that continues: that is answered when the   *)
(* emulator stops.                                                         *)
Handled(command) == IF command = "a" THEN <<"+", "run">> ELSE <<"+", "reply">>
Interrupted == <<"stop">>
Refused == <<"-">>

-----------------------------------------------------------------------------
(* Definitions marked "Faulty" are variants of the one that follows; the   *)
(* specification does not use them.  They show that a property can fail.   *)

(* A frame from start to the # at i whose checksum has arrived.            *)
Frame(b, start, i) ==
  IF i = start + 1 \/ b[i + 1] # "a" \/ b[i + 2] # "a" THEN Refused
                                                        ELSE Handled(b[start + 1])

(* gdb_server_process_buffer, one turn of the loop: i is the place, start  *)
(* that of the $ or 0, out what has been done.  Faulty: does not wait for  *)
(* the second digit.                                                       *)
TurnEarly(b, s) ==
  LET c == b[s.i]
  IN  CASE s.start = 0 /\ c = "$" -> [s EXCEPT !.i = @ + 1, !.start = s.i]
        [] s.start = 0 /\ c = "!" -> [s EXCEPT !.i = @ + 1, !.out = @ \o Interrupted]
        [] s.start # 0 /\ c = "#" /\ s.i + 1 <= Len(b) ->
             [i |-> s.i + 3, start |-> 0,
              out |-> s.out \o Frame(b \o <<"b">>, s.start, s.i)]
        [] OTHER -> [s EXCEPT !.i = @ + 1]
Turn(b, s) ==
  LET c == b[s.i]
  IN  CASE s.start = 0 /\ c = "$" -> [s EXCEPT !.i = @ + 1, !.start = s.i]
        [] s.start = 0 /\ c = "!" -> [s EXCEPT !.i = @ + 1, !.out = @ \o Interrupted]
        [] s.start # 0 /\ c = "#" /\ s.i + 2 <= Len(b) ->
             [i |-> s.i + 3, start |-> 0, out |-> s.out \o Frame(b, s.start, s.i)]
        [] OTHER -> [s EXCEPT !.i = @ + 1]

Processed(b) ==
  LET After[n \in 0 .. Len(b)] ==
        IF n = 0 THEN [i |-> 1, start |-> 0, out |-> <<>>]
        ELSE IF After[n - 1].i > Len(b) THEN After[n - 1]
        ELSE Turn(b, After[n - 1])
  IN  After[Len(b)]

Left(b, start) == IF start = 0 THEN <<>> ELSE SubSeq(b, start, Len(b))

(* The reference: a frame is $, data without #, #, and two digits.         *)
Outside == [at |-> "outside", command |-> "none", sum |-> TRUE]

Wire(w, c) ==
  CASE w.at = "outside" -> IF c = "$" THEN [w EXCEPT !.at = "data"] ELSE w
    [] w.at = "data" /\ c = "#" -> [w EXCEPT !.at = "first"]
    [] w.at = "data" /\ c # "#" ->
         IF w.command = "none" THEN [w EXCEPT !.command = c] ELSE w
    [] w.at = "first" -> [w EXCEPT !.at = "second", !.sum = (c = "a")]
    [] w.at = "second" -> Outside

Meaning(w, c) ==
  CASE w.at = "outside" /\ c = "!" -> Interrupted
    [] w.at = "second" ->
         IF w.sum /\ c = "a" /\ w.command # "none" THEN Handled(w.command)
                                                    ELSE Refused
    [] OTHER -> <<>>

Step(s, c) == [wire |-> Wire(s.wire, c), out |-> s.out \o Meaning(s.wire, c)]
Read(w, piece) ==
  LET After[n \in 0 .. Len(piece)] == IF n = 0 THEN [wire |-> w, out |-> <<>>]
                                      ELSE Step(After[n - 1], piece[n])
  IN  After[Len(piece)]

-----------------------------------------------------------------------------
Init ==
  /\ buf = <<>>
  /\ size = BUFFER_SIZE
  /\ done = <<>> /\ due = <<>>
  /\ open = TRUE
  /\ wire = Outside

(* gdb_server_data_callback: at most as much as there is room for is read. *)
Receive(piece) ==
  LET b == buf \o piece
      p == Processed(b)
      r == Read(wire, piece)
      rest == Left(b, p.start)
  IN  /\ open
      /\ Len(b) <= size
      /\ buf' = rest
      /\ done' = p.out
      /\ size' = IF Len(rest) > size - MARGIN /\ size < MAX_SIZE THEN 2 * size
                                                                 ELSE size
      /\ wire' = r.wire
      /\ due' = r.out
      /\ UNCHANGED open

(* read returns 0: the other side has closed the connection, or there is   *)
(* no room.                                                                *)
Disconnect ==
  /\ open
  /\ open' = FALSE
  /\ UNCHANGED <<buf, size, done, wire, due>>

(* gdb_server_connect_callback                                             *)
Connect ==
  /\ ~open
  /\ open' = TRUE
  /\ buf' = <<>>
  /\ size' = BUFFER_SIZE
  /\ wire' = Outside
  /\ done' = <<>> /\ due' = <<>>

Next == (\E piece \in Piece : Receive(piece)) \/ Disconnect \/ Connect

Spec == Init /\ [][Next]_vars

-----------------------------------------------------------------------------
(* Properties                                                              *)

(* Every variable has a value of its kind.                                 *)
TypeOK ==
  /\ buf \in Seq(Byte) /\ Len(buf) <= size
  /\ size \in BUFFER_SIZE .. MAX_SIZE
  /\ open \in BOOLEAN

(* However the stream is cut into pieces, every frame is answered when its *)
(* last byte arrives, once and with its command, every Control-C between   *)
(* frames stops once, and the buffer keeps exactly the frame that is not   *)
(* complete.  (gdb_server_process_buffer)                                  *)
StreamExact ==
  /\ done = due
  /\ (buf = <<>>) <=> (wire.at = "outside")
  /\ buf # <<>> => Head(buf) = "$"

(* There is room for the next byte of a frame until it is as long as the   *)
(* largest buffer.  (gdb_server_data_callback)                             *)
RoomForFrame == Len(buf) < size \/ size = MAX_SIZE

(* The answers do not depend on how the stream is cut, and it goes on.     *)
GdbTrue == StreamExact /\ RoomForFrame
=============================================================================
