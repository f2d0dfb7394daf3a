------------------------------- MODULE TQueue -------------------------------
(***************************************************************************)
(* The message queue between the user interface and the emulator thread of *)
(* the Android front end (src/src/tqueue.c, src/src/gui_android.c), with   *)
(* the running and stopping of the emulator that it drives                 *)
(* (src/src/dreamcast.c).                                                  *)
(*                                                                         *)
(* The emulator thread takes messages in tqueue_process_wait.  One of them *)
(* is dreamcast_run, which returns only when the emulator stops; meanwhile *)
(* the "gui" module takes messages in every run of its time slice, so that *)
(* callbacks, and dreamcast_run itself, can nest: the thread's call stack  *)
(* is part of the state.                                                   *)
(*                                                                         *)
(* The mutex is not a variable: what a thread does while it holds it is    *)
(* one action.  A thread that a condition variable has woken goes on in an *)
(* action of its own.                                                      *)
(***************************************************************************)
EXTENDS Integers, Sequences, SequencesExt

CONSTANTS
  Producer,       \* the threads that call into gui_android.c
  TQUEUE_LENGTH,  \* places of the ring, of which one stays free
  MaxDepth        \* bound: no new dreamcast_run while so many are on the stack

ASSUME LengthAssumption == TQUEUE_LENGTH \in Nat /\ TQUEUE_LENGTH >= 2
ASSUME DepthAssumption == MaxDepth \in Nat

(* What the Java side asks for.  "stop" stands for clearSurface too, which *)
(* does a dreamcast_stop, and "other" for reset, unmount and setSurface,   *)
(* which leave the running state alone.                                    *)
Posted == {"run", "toggle", "other"}
Sent == {"stop", "mount"}

VARIABLES
  queue,          \* the messages from tqueue.head to tqueue.tail
  pc,             \* where each producer is
  msg,            \* the message each producer is busy with, or was last
  waiting,        \* the emulator thread waits on consumer_wait
  stack,          \* the callbacks it is in, outermost first
  dreamcast_state,
  settled         \* history: producers whose "stop" has returned since the last "run"

vars == <<queue, pc, msg, waiting, stack, dreamcast_state, settled>>

Message == [op : Posted \cup Sent, sync : BOOLEAN, from : Producer]

-----------------------------------------------------------------------------
(* Definitions marked "Faulty" are variants of the one that follows; the   *)
(* specification does not use them.  They show that a property can fail.   *)

(* Faulty: the free place is used.                                         *)
FullLate(q) == Len(q) >= TQUEUE_LENGTH

(* TQUEUE_FULL                                                             *)
Full(q) == Len(q) >= TQUEUE_LENGTH - 1

(* pthread_cond_signal: one of the threads that wait, if there is one      *)
Signal(p, from, to) ==
  IF \E x \in Producer : p[x] = from
  THEN {[p EXCEPT ![x] = to] : x \in {y \in Producer : p[y] = from}}
  ELSE {p}

Runs(s) == {i \in 1 .. Len(s) : s[i].at \in {"slice", "gui", "test", "stop"}}

(* Faulty: the first message of a nested loop frees no place.              *)
FreedOutermost(p, q) == IF Full(q) /\ stack = <<>> THEN Signal(p, "full", "enqueue") ELSE {p}

(* tqueue_process_loop wakes a producer that waits for a free place.       *)
Freed(p, q) == IF Full(q) THEN Signal(p, "full", "enqueue") ELSE {p}

(* Faulty: every message is answered.                                      *)
AnsweredAll(p, m) == Signal(p, "sync", "woken")

(* ... and, after the callback of message m, the producer that sent it     *)
Answered(p, m) == IF m.sync THEN Signal(p, "sync", "woken") ELSE {p}

(* The loop takes the next message, with s as the stack below its          *)
(* callback, or ends.                                                      *)
Loop(s, ps) ==
  IF queue = <<>>
  THEN /\ stack' = s
       /\ pc' \in ps
       /\ UNCHANGED queue
  ELSE /\ stack' = Append(s, [msg |-> Head(queue), at |-> "call"])
       /\ pc' \in UNION {Freed(p, queue) : p \in ps}
       /\ queue' = Tail(queue)

Top == stack[Len(stack)]

(* The call on top of the stack goes on at place a.                        *)
Goto(a) == stack' = [stack EXCEPT ![Len(stack)].at = a]

-----------------------------------------------------------------------------
(* After dreamcast_init                                                    *)
Init ==
  /\ queue = <<>>
  /\ pc = [p \in Producer |-> "idle"]
  /\ msg \in [Producer -> {[op |-> "other", sync |-> FALSE, from |-> p] : p \in Producer}]
  /\ \A p \in Producer : msg[p].from = p
  /\ waiting = FALSE
  /\ stack = <<>>
  /\ dreamcast_state = "STOPPED"
  /\ settled = {}

(* tqueue_enqueue, the signal to the consumer, and in tqueue_send_message  *)
(* the wait for the answer                                                 *)
Enqueue(p, m) ==
  /\ queue' = Append(queue, m)
  /\ waiting' = FALSE
  /\ pc' = [pc EXCEPT ![p] = IF m.sync THEN "sync" ELSE "idle"]

(* tqueue_post_message, tqueue_send_message                                *)
Call(p, op) ==
  /\ pc[p] = "idle"
  /\ op \in {"run", "toggle"} => Len(stack) < MaxDepth
  /\ msg' = [msg EXCEPT ![p] = [op |-> op, sync |-> op \in Sent, from |-> p]]
  /\ settled' = IF op \in {"run", "toggle"} THEN {} ELSE settled \ {p}
  /\ IF Full(queue)
     THEN pc' = [pc EXCEPT ![p] = "full"] /\ UNCHANGED <<queue, waiting>>
     ELSE Enqueue(p, msg'[p])
  /\ UNCHANGED <<stack, dreamcast_state>>

(* The producer has been woken and does not look at the queue again;       *)
(* tqueue_enqueue asserts that there is a place.                           *)
GoOn(p) ==
  /\ pc[p] = "enqueue" /\ ~Full(queue)
  /\ Enqueue(p, msg[p])
  /\ UNCHANGED <<msg, stack, dreamcast_state, settled>>

(* tqueue_send_message returns.                                            *)
Return(p) ==
  /\ pc[p] = "woken"
  /\ pc' = [pc EXCEPT ![p] = "idle"]
  /\ settled' = IF msg[p].op = "stop" THEN settled \cup {p} ELSE settled
  /\ UNCHANGED <<queue, msg, waiting, stack, dreamcast_state>>

(* A condition variable may wake the emulator thread for no reason; the    *)
(* loop then finds the queue empty.  The producers, which do not look      *)
(* again, rely on not being woken like that.                               *)
SpuriousWakeup ==
  /\ waiting
  /\ waiting' = FALSE
  /\ UNCHANGED <<queue, pc, msg, stack, dreamcast_state, settled>>

-----------------------------------------------------------------------------
(* tqueue_process_wait, which android_thread_main calls for ever           *)
ProcessWait ==
  /\ stack = <<>> /\ ~waiting
  /\ waiting' = (queue = <<>>)
  /\ Loop(stack, {pc})
  /\ UNCHANGED <<msg, dreamcast_state, settled>>

(* android_toggle_run                                                      *)
Operation == CASE Top.msg.op = "toggle" /\ dreamcast_state = "RUNNING" -> "stop"
               [] Top.msg.op = "toggle" /\ dreamcast_state # "RUNNING" -> "run"
               [] OTHER -> Top.msg.op

(* A callback without dreamcast_run.  dreamcast_stop only asks the         *)
(* emulator to stop; sh4_core_exit returns here, outside of the SH4 core.  *)
CallbackReturns ==
  /\ stack # <<>> /\ Top.at = "call" /\ Operation # "run"
  /\ dreamcast_state' = IF Operation = "stop" /\ dreamcast_state = "RUNNING"
                        THEN "STOPPING" ELSE dreamcast_state
  /\ Goto("return")
  /\ UNCHANGED <<queue, pc, msg, waiting, settled>>

(* dreamcast_run, up to its loop                                           *)
RunStarts ==
  /\ stack # <<>> /\ Top.at = "call" /\ Operation = "run"
  /\ dreamcast_state' = "RUNNING"
  /\ Goto("slice")
  /\ UNCHANGED <<queue, pc, msg, waiting, settled>>

(* The slices of all modules but the last                                  *)
RunSlice ==
  /\ stack # <<>> /\ Top.at = "slice"
  /\ Goto("gui")
  /\ UNCHANGED <<queue, pc, msg, waiting, dreamcast_state, settled>>

(* The slice of the "gui" module, when its tick is due: tqueue_process_all *)
GuiSlice ==
  /\ stack # <<>> /\ Top.at = "gui"
  /\ Loop([stack EXCEPT ![Len(stack)].at = "test"], {pc})
  /\ UNCHANGED <<msg, waiting, dreamcast_state, settled>>

(* The condition of the loop of dreamcast_run                              *)
RunTest ==
  /\ stack # <<>> /\ Top.at = "test"
  /\ Goto(IF dreamcast_state = "RUNNING" THEN "slice" ELSE "stop")
  /\ UNCHANGED <<queue, pc, msg, waiting, dreamcast_state, settled>>

(* Faulty: the state is left to the one who asked for the stop.            *)
RunStopsNot ==
  /\ stack # <<>> /\ Top.at = "stop"
  /\ Goto("return")
  /\ UNCHANGED <<queue, pc, msg, waiting, dreamcast_state, settled>>

(* The modules are stopped and the memory cards saved; dreamcast_run       *)
(* returns.                                                                *)
RunStops ==
  /\ stack # <<>> /\ Top.at = "stop"
  /\ dreamcast_state' = "STOPPED"
  /\ Goto("return")
  /\ UNCHANGED <<queue, pc, msg, waiting, settled>>

(* The callback has returned to tqueue_process_loop.                       *)
LoopTurn ==
  /\ stack # <<>> /\ Top.at = "return"
  /\ Loop(Front(stack), Answered(pc, Top.msg))
  /\ UNCHANGED <<msg, waiting, dreamcast_state, settled>>

Emulator == ProcessWait \/ CallbackReturns \/ RunStarts \/ RunSlice \/ GuiSlice \/ RunTest
              \/ RunStops \/ LoopTurn

Next ==
  \/ \E p \in Producer : \/ \E op \in Posted \cup Sent : Call(p, op)
                         \/ GoOn(p)
                         \/ Return(p)
  \/ SpuriousWakeup
  \/ Emulator

Spec == Init /\ [][Next]_vars

(* The threads run.  Whether the user does anything is open.               *)
FairSpec == /\ Spec
            /\ WF_vars(Emulator)
            /\ \A p \in Producer : WF_vars(GoOn(p)) /\ WF_vars(Return(p))

-----------------------------------------------------------------------------
TypeOK ==
  /\ queue \in Seq(Message)
  /\ pc \in [Producer -> {"idle", "full", "enqueue", "sync", "woken"}]
  /\ msg \in [Producer -> Message]
  /\ waiting \in BOOLEAN
  /\ stack \in Seq([msg : Message,
                    at : {"call", "slice", "gui", "test", "stop", "return"}])
  /\ dreamcast_state \in {"STOPPED", "RUNNING", "STOPPING"}
  /\ settled \subseteq Producer

(* tqueue.c:48, "assert( !TQUEUE_FULL() )": a producer that was woken      *)
(* finds a place, and the ring never overtakes its own head.               *)
NeverOverfull ==
  /\ Len(queue) < TQUEUE_LENGTH
  /\ \A p \in Producer : pc[p] = "enqueue" => Len(queue) < TQUEUE_LENGTH - 1

InProgress(p) ==
  \/ \E i \in 1 .. Len(queue) : queue[i].sync /\ queue[i].from = p
  \/ \E i \in 1 .. Len(stack) : stack[i].msg.sync /\ stack[i].msg.from = p

(* A sender waits as long as its message is in the queue or its callback   *)
(* runs, at whatever depth, and no longer: it is not woken by the answer   *)
(* to another message, and not left waiting after its own.                 *)
(* (tqueue_send_message, tqueue_process_loop)                              *)
AnswerIsMine == \A p \in Producer : pc[p] = "sync" <=> InProgress(p)

(* No message is lost or overwritten, and no answer goes to another.       *)
(* (tqueue_post_message, tqueue_send_message)                              *)
MessagesTrue == NeverOverfull /\ AnswerIsMine

(* dreamcast_is_running, which the interface asks without a lock, is true  *)
(* only while a dreamcast_run is on the stack, however runs and stops      *)
(* nest; and once all of them have returned the emulator is stopped.       *)
(* (dreamcast_run, dreamcast_stop)                                         *)
RunningIsTrue == /\ dreamcast_state = "RUNNING" => Runs(stack) # {}
                 /\ stack = <<>> => dreamcast_state = "STOPPED"

(* The interface is never left hanging: not when the queue is full, and    *)
(* not in tqueue_send_message, even while the emulator runs for ever.      *)
(* (tqueue_process_loop, android_gui_run_slice)                            *)
NeverHangs == \A p \in Producer : pc[p] # "idle" ~> pc[p] = "idle"

(* gui_android.c:293, "Need to make sure this completely shuts down before *)
(* we return": after a stop, and until the next run, nothing is running.   *)
StopCompletes == settled # {} => dreamcast_state = "STOPPED" /\ Runs(stack) = {}
=============================================================================
