----------------------------- MODULE TQueue_proofs -----------------------------
(***************************************************************************)
(* What TLAPS proves of TQueue, for every length of the ring and every     *)
(* depth of nested runs: the running state is true of the call stack of    *)
(* the emulator's thread; and for one thread of the interface, which is    *)
(* what gui_android.c has, the ring never overflows and every answer goes  *)
(* to the message it answers.                                              *)
(*                                                                         *)
(* The first is inductive once it says that a run is on the stack for as   *)
(* long as the emulator is not stopped.  The second needs to know that at  *)
(* most one message that is waited for exists, in the queue or on the      *)
(* stack: taking its callback off the stack then leaves none.              *)
(***************************************************************************)
EXTENDS TQueue, SequenceLemmas, SequenceTheorems, TLAPS

Place == {"idle", "full", "enqueue", "sync", "woken"}
At == {"call", "slice", "gui", "test", "stop", "return"}
Running == {"slice", "gui", "test", "stop"}
Frame == [msg : Message, at : At]

-----------------------------------------------------------------------------
(* The stack, element by element.                                          *)

(* The call on top goes on at a.                                           *)
LEMMA TopMoved ==
  ASSUME NEW s \in Seq(Frame), s # <<>>, NEW a \in At
  PROVE  LET t == [s EXCEPT ![Len(s)].at = a]
         IN  /\ t \in Seq(Frame) /\ Len(t) = Len(s) /\ t # <<>>
             /\ \A i \in 1 .. Len(s) - 1 : t[i] = s[i]
             /\ t[Len(s)].at = a /\ t[Len(s)].msg = s[Len(s)].msg
<1> DEFINE e == [s[Len(s)] EXCEPT !.at = a]
           t == [s EXCEPT ![Len(s)] = e]
<1>1. Len(s) \in 1 .. Len(s)
  BY EmptySeq, LenProperties
<1>2. s[Len(s)] \in Frame
  BY <1>1, ElementOfSeq
<1>3. e \in Frame /\ e.at = a /\ e.msg = s[Len(s)].msg
  BY <1>2 DEF Frame
<1> HIDE DEF e
<1>4. t \in Seq(Frame) /\ Len(t) = Len(s)
      /\ \A i \in 1 .. Len(s) : t[i] = IF i = Len(s) THEN e ELSE s[i]
  BY <1>1, <1>3, ExceptSeq
<1>5. t # <<>>
  BY <1>1, <1>4
<1>6. t = [s EXCEPT ![Len(s)].at = a]
  BY DEF e
<1> HIDE DEF t
<1> QED BY <1>1, <1>3, <1>4, <1>5, <1>6

(* A call returns.                                                         *)
LEMMA TopTaken ==
  ASSUME NEW s \in Seq(Frame), s # <<>>
  PROVE  /\ Front(s) \in Seq(Frame) /\ Len(Front(s)) = Len(s) - 1
         /\ Len(s) \in Nat \ {0} /\ s[Len(s)] \in Frame
         /\ \A i \in 1 .. Len(s) - 1 : Front(s)[i] = s[i]
BY FrontElements, ElementOfSeq

(* A call is made for message m.                                           *)
LEMMA Called ==
  ASSUME NEW s \in Seq(Frame), NEW m \in Message
  PROVE  LET t == Append(s, [msg |-> m, at |-> "call"])
         IN  /\ t \in Seq(Frame) /\ Len(t) = Len(s) + 1
             /\ \A i \in 1 .. Len(s) : t[i] = s[i]
             /\ t[Len(t)].msg = m /\ t[Len(t)].at = "call"
<1>1. [msg |-> m, at |-> "call"] \in Frame
  BY DEF Frame, At
<1> QED BY <1>1, AppendProperties

-----------------------------------------------------------------------------
(* The queue and the producers.                                            *)

LEMMA SignalType ==
  ASSUME NEW p \in [Producer -> Place], NEW from, NEW to \in Place
  PROVE  Signal(p, from, to) \in SUBSET [Producer -> Place]
BY DEF Signal

LEMMA FreedAnsweredTypes ==
  ASSUME NEW p \in [Producer -> Place], NEW q, NEW m
  PROVE  /\ Freed(p, q) \in SUBSET [Producer -> Place]
         /\ Answered(p, m) \in SUBSET [Producer -> Place]
<1>1. /\ Signal(p, "full", "enqueue") \in SUBSET [Producer -> Place]
      /\ Signal(p, "sync", "woken") \in SUBSET [Producer -> Place]
  BY SignalType DEF Place
<1> QED BY <1>1 DEF Freed, Answered

(* What the loop does to the queue, the stack and the producers.           *)
LEMMA LoopFacts ==
  ASSUME TypeOK, NEW s \in Seq(Frame), NEW ps \in SUBSET [Producer -> Place],
         Loop(s, ps)
  PROVE  /\ queue' \in Seq(Message) /\ stack' \in Seq(Frame)
         /\ pc' \in [Producer -> Place]
         /\ \/ stack' = s /\ queue' = queue /\ queue = <<>> /\ pc' \in ps
            \/ /\ queue # <<>> /\ Head(queue) \in Message /\ queue' = Tail(queue)
               /\ stack' = Append(s, [msg |-> Head(queue), at |-> "call"])
               /\ \E p \in ps : pc' \in Freed(p, queue)
<1>1. queue \in Seq(Message)
  BY DEF TypeOK
<1>2. CASE queue = <<>>
  BY <1>1, <1>2 DEF Loop
<1>3. CASE queue # <<>>
  <2>1. Head(queue) \in Message /\ Tail(queue) \in Seq(Message)
    BY <1>1, <1>3, HeadTailProperties
  <2>2. /\ stack' = Append(s, [msg |-> Head(queue), at |-> "call"])
        /\ pc' \in UNION {Freed(p, queue) : p \in ps}
        /\ queue' = Tail(queue)
    BY <1>3 DEF Loop
  <2>3. stack' \in Seq(Frame)
    BY <2>1, <2>2, Called
  <2>4. PICK p \in ps : pc' \in Freed(p, queue)
    BY <2>2
  <2>5. pc' \in [Producer -> Place]
    BY <2>4, FreedAnsweredTypes
  <2> QED BY <1>3, <2>1, <2>2, <2>3, <2>4, <2>5
<1> QED BY <1>2, <1>3

-----------------------------------------------------------------------------
(* Types, and that a run is on the stack until the emulator is stopped.    *)

HasRun(s) == \E i \in 1 .. Len(s) : s[i].at \in Running

LEMMA HasRunIsRuns == ASSUME NEW s PROVE HasRun(s) <=> Runs(s) # {}
BY DEF HasRun, Runs, Running

RunInv == TypeOK /\ (dreamcast_state # "STOPPED" => HasRun(stack))

LEMMA TypeNames ==
  TypeOK <=> /\ queue \in Seq(Message)
             /\ pc \in [Producer -> Place]
             /\ msg \in [Producer -> Message]
             /\ waiting \in BOOLEAN
             /\ stack \in Seq(Frame)
             /\ dreamcast_state \in {"STOPPED", "RUNNING", "STOPPING"}
             /\ settled \subseteq Producer
BY DEF TypeOK, Place, Frame, At

LEMMA TypeNamesPrimed ==
  TypeOK' <=> /\ queue' \in Seq(Message)
              /\ pc' \in [Producer -> Place]
              /\ msg' \in [Producer -> Message]
              /\ waiting' \in BOOLEAN
              /\ stack' \in Seq(Frame)
              /\ dreamcast_state' \in {"STOPPED", "RUNNING", "STOPPING"}
              /\ settled' \subseteq Producer
BY DEF TypeOK, Place, Frame, At

(* A turn of the loop leaves the runs below it on the stack.               *)
LEMMA LoopKeepsRuns ==
  ASSUME TypeOK, NEW s \in Seq(Frame), NEW ps \in SUBSET [Producer -> Place],
         Loop(s, ps), HasRun(s)
  PROVE  HasRun(stack')
<1>1. CASE stack' = s
  BY <1>1
<1>2. CASE Head(queue) \in Message
           /\ stack' = Append(s, [msg |-> Head(queue), at |-> "call"])
  <2>1. PICK i \in 1 .. Len(s) : s[i].at \in Running
    BY DEF HasRun
  <2>2. Len(stack') = Len(s) + 1 /\ stack'[i] = s[i]
    BY <1>2, Called
  <2>3. i \in 1 .. Len(stack')
    BY <2>2, LenProperties
  <2> QED BY <2>1, <2>2, <2>3 DEF HasRun
<1> QED BY <1>1, <1>2, LoopFacts

(* The call on top goes on at a: what runs below it stays.                 *)
LEMMA GotoFacts ==
  ASSUME TypeOK, stack # <<>>, NEW a \in At, Goto(a)
  PROVE  /\ stack' \in Seq(Frame) /\ stack' # <<>> /\ Len(stack') = Len(stack)
         /\ \A i \in 1 .. Len(stack) - 1 : stack'[i] = stack[i]
         /\ stack'[Len(stack)].at = a /\ stack'[Len(stack)].msg = Top.msg
         /\ a \in Running => HasRun(stack')
         /\ HasRun(stack) /\ Top.at \notin Running => HasRun(stack')
         /\ \A i \in 1 .. Len(stack) : stack'[i].msg = stack[i].msg
<1>1. stack \in Seq(Frame) /\ Len(stack) \in Nat \ {0}
  BY TypeNames, EmptySeq, LenProperties
<1>2. /\ stack' \in Seq(Frame) /\ stack' # <<>> /\ Len(stack') = Len(stack)
      /\ \A i \in 1 .. Len(stack) - 1 : stack'[i] = stack[i]
      /\ stack'[Len(stack)].at = a /\ stack'[Len(stack)].msg = Top.msg
  BY <1>1, TopMoved DEF Goto, Top
<1>3. a \in Running => HasRun(stack')
  BY <1>1, <1>2 DEF HasRun
<1>4. HasRun(stack) /\ Top.at \notin Running => HasRun(stack')
  <2> SUFFICES ASSUME HasRun(stack), Top.at \notin Running PROVE HasRun(stack')
    OBVIOUS
  <2>1. PICK i \in 1 .. Len(stack) : stack[i].at \in Running
    BY DEF HasRun
  <2>2. i \in 1 .. Len(stack) - 1
    BY <1>1, <2>1 DEF Top
  <2> QED BY <1>1, <1>2, <2>1, <2>2 DEF HasRun
<1>5. \A i \in 1 .. Len(stack) : stack'[i].msg = stack[i].msg
  BY <1>1, <1>2 DEF Top
<1> QED BY <1>2, <1>3, <1>4, <1>5

(* The interface's threads leave the stack and the running state alone.    *)
LEMMA InterfaceKeepsRun ==
  ASSUME RunInv, NEW p \in Producer,
         \/ \E op \in Posted \cup Sent : Call(p, op)
         \/ GoOn(p) \/ Return(p)
  PROVE  RunInv'
<1>1. TypeOK /\ stack' = stack /\ dreamcast_state' = dreamcast_state
  BY DEF RunInv, Call, GoOn, Return
<1>2. ASSUME NEW m \in Message, Enqueue(p, m)
      PROVE  /\ queue' \in Seq(Message) /\ waiting' \in BOOLEAN
             /\ pc' \in [Producer -> Place]
  BY <1>1, <1>2, TypeNames, AppendProperties DEF Enqueue, Place
<1>3. ASSUME NEW op \in Posted \cup Sent, Call(p, op) PROVE TypeOK'
  <2>1. [op |-> op, sync |-> op \in Sent, from |-> p] \in Message
    BY DEF Message
  <2>2. msg' \in [Producer -> Message] /\ msg'[p] \in Message
    BY <1>1, <1>3, <2>1, TypeNames DEF Call
  <2>3. settled' \subseteq Producer
    BY <1>1, <1>3, TypeNames DEF Call
  <2>4. CASE Full(queue)
    <3>1. pc' = [pc EXCEPT ![p] = "full"] /\ queue' = queue /\ waiting' = waiting
      BY <1>3, <2>4 DEF Call
    <3> QED BY <1>1, <2>2, <2>3, <3>1, TypeNames, TypeNamesPrimed DEF Place
  <2>5. CASE ~Full(queue)
    <3>1. Enqueue(p, msg'[p])
      BY <1>3, <2>5 DEF Call
    <3> QED BY <1>1, <1>2, <2>2, <2>3, <3>1, TypeNames, TypeNamesPrimed
  <2> QED BY <2>4, <2>5
<1>4. CASE GoOn(p)
  <2>1. msg[p] \in Message /\ Enqueue(p, msg[p])
        /\ UNCHANGED <<msg, stack, dreamcast_state, settled>>
    BY <1>1, <1>4, TypeNames DEF GoOn
  <2>2. TypeOK'
    BY <1>1, <1>2, <2>1, TypeNames, TypeNamesPrimed
  <2> QED BY <1>1, <2>2 DEF RunInv
<1>5. CASE Return(p)
  <2>1. /\ pc' = [pc EXCEPT ![p] = "idle"]
        /\ settled' \subseteq settled \cup {p}
        /\ UNCHANGED <<queue, msg, waiting, stack, dreamcast_state>>
    BY <1>5 DEF Return
  <2>2. TypeOK'
    BY <1>1, <2>1, TypeNames, TypeNamesPrimed DEF Place
  <2> QED BY <1>1, <2>2 DEF RunInv
<1> QED BY <1>1, <1>3, <1>4, <1>5 DEF RunInv

(* The emulator's thread, wherever its stack is.                           *)
LEMMA CallbackKeepsRun == ASSUME RunInv, CallbackReturns PROVE RunInv'
<1>1. /\ TypeOK /\ stack # <<>> /\ Top.at = "call" /\ Goto("return")
      /\ dreamcast_state' = IF Operation = "stop" /\ dreamcast_state = "RUNNING"
                            THEN "STOPPING" ELSE dreamcast_state
      /\ UNCHANGED <<queue, pc, msg, waiting, settled>>
  BY DEF RunInv, CallbackReturns
<1>2. "return" \in At /\ "call" \notin Running
  BY DEF At, Running
<1>3. stack' \in Seq(Frame) /\ (HasRun(stack) => HasRun(stack'))
  BY <1>1, <1>2, GotoFacts
<1>4. dreamcast_state' \in {"STOPPED", "RUNNING", "STOPPING"}
      /\ (dreamcast_state' # "STOPPED" => dreamcast_state # "STOPPED")
  BY <1>1, TypeNames
<1> QED BY <1>1, <1>3, <1>4, TypeNames, TypeNamesPrimed DEF RunInv

(* A run that goes on, or starts.                                          *)
LEMMA GoingOnKeepsRun ==
  ASSUME RunInv, RunStarts \/ RunSlice \/ RunTest
  PROVE  RunInv'
<1>1. /\ TypeOK /\ stack # <<>>
      /\ \E a \in Running : Goto(a)
      /\ dreamcast_state' \in {"RUNNING", dreamcast_state}
      /\ UNCHANGED <<queue, pc, msg, waiting, settled>>
  BY DEF RunInv, RunStarts, RunSlice, RunTest, Running
<1>2. Running \subseteq At
  BY DEF At, Running
<1>3. stack' \in Seq(Frame) /\ HasRun(stack')
  BY <1>1, <1>2, GotoFacts
<1> QED BY <1>1, <1>3, TypeNames, TypeNamesPrimed DEF RunInv

LEMMA GuiKeepsRun == ASSUME RunInv, GuiSlice PROVE RunInv'
<1> DEFINE s == [stack EXCEPT ![Len(stack)].at = "test"]
<1>1. /\ TypeOK /\ stack # <<>> /\ Loop(s, {pc})
      /\ UNCHANGED <<msg, waiting, dreamcast_state, settled>>
  BY DEF RunInv, GuiSlice
<1>2. stack \in Seq(Frame) /\ Len(stack) \in Nat \ {0} /\ "test" \in At
  BY <1>1, TypeNames, EmptySeq, LenProperties DEF At
<1>3. s \in Seq(Frame) /\ Len(s) = Len(stack) /\ s[Len(stack)].at = "test"
  BY <1>1, <1>2, TopMoved
<1>4. HasRun(s)
  BY <1>2, <1>3 DEF HasRun, Running
<1> HIDE DEF s
<1>5. {pc} \in SUBSET [Producer -> Place]
  BY <1>1, TypeNames
<1>6. HasRun(stack') /\ queue' \in Seq(Message) /\ stack' \in Seq(Frame)
      /\ pc' \in [Producer -> Place]
  BY <1>1, <1>3, <1>4, <1>5, LoopFacts, LoopKeepsRuns
<1> QED BY <1>1, <1>6, TypeNames, TypeNamesPrimed DEF RunInv

LEMMA StopsKeepsRun == ASSUME RunInv, RunStops PROVE RunInv'
<1>1. /\ TypeOK /\ stack # <<>> /\ Goto("return") /\ dreamcast_state' = "STOPPED"
      /\ UNCHANGED <<queue, pc, msg, waiting, settled>>
  BY DEF RunInv, RunStops
<1>2. stack' \in Seq(Frame)
  BY <1>1, GotoFacts DEF At
<1> QED BY <1>1, <1>2, TypeNames, TypeNamesPrimed DEF RunInv

(* A callback that has returned is no run: the others are left.            *)
LEMMA TurnKeepsRun == ASSUME RunInv, LoopTurn PROVE RunInv'
<1>1. /\ TypeOK /\ stack # <<>> /\ Top.at = "return"
      /\ Loop(Front(stack), Answered(pc, Top.msg))
      /\ UNCHANGED <<msg, waiting, dreamcast_state, settled>>
  BY DEF RunInv, LoopTurn
<1>2. stack \in Seq(Frame) /\ pc \in [Producer -> Place]
  BY <1>1, TypeNames
<1>3. /\ Front(stack) \in Seq(Frame) /\ Len(Front(stack)) = Len(stack) - 1
      /\ Len(stack) \in Nat \ {0}
      /\ \A i \in 1 .. Len(stack) - 1 : Front(stack)[i] = stack[i]
  BY <1>1, <1>2, TopTaken
<1>4. HasRun(stack) => HasRun(Front(stack))
  <2> SUFFICES ASSUME HasRun(stack) PROVE HasRun(Front(stack))
    OBVIOUS
  <2>1. PICK i \in 1 .. Len(stack) : stack[i].at \in Running
    BY DEF HasRun
  <2>2. i \in 1 .. Len(stack) - 1
    BY <1>1, <1>3, <2>1 DEF Top, Running
  <2> QED BY <1>3, <2>1, <2>2 DEF HasRun
<1>5. Answered(pc, Top.msg) \in SUBSET [Producer -> Place]
  BY <1>2, FreedAnsweredTypes
<1>6. /\ HasRun(stack) => HasRun(stack')
      /\ queue' \in Seq(Message) /\ stack' \in Seq(Frame)
      /\ pc' \in [Producer -> Place]
  BY <1>1, <1>3, <1>4, <1>5, LoopFacts, LoopKeepsRuns
<1> QED BY <1>1, <1>6, TypeNames, TypeNamesPrimed DEF RunInv

(* The outermost loop starts from an empty stack, on which nothing runs.   *)
LEMMA WaitKeepsRun == ASSUME RunInv, ProcessWait PROVE RunInv'
<1>1. /\ TypeOK /\ stack = <<>> /\ Loop(stack, {pc}) /\ waiting' \in BOOLEAN
      /\ UNCHANGED <<msg, dreamcast_state, settled>>
  BY DEF RunInv, ProcessWait
<1>2. dreamcast_state = "STOPPED"
  BY <1>1 DEF RunInv, HasRun
<1>3. stack \in Seq(Frame) /\ {pc} \in SUBSET [Producer -> Place]
  BY <1>1, TypeNames
<1>4. queue' \in Seq(Message) /\ stack' \in Seq(Frame) /\ pc' \in [Producer -> Place]
  BY <1>1, <1>3, LoopFacts
<1> QED BY <1>1, <1>2, <1>4, TypeNames, TypeNamesPrimed DEF RunInv

THEOREM TQueueRuns == Spec => []RunInv
<1>1. Init => RunInv
  <2> SUFFICES ASSUME Init PROVE RunInv
    OBVIOUS
  <2>1. \A p \in Producer : [op |-> "other", sync |-> FALSE, from |-> p] \in Message
    BY DEF Message, Posted
  <2>2. msg \in [Producer -> Message]
    BY <2>1 DEF Init
  <2> QED BY <2>2, EmptySeq, TypeNames DEF Init, RunInv, Place
<1>2. RunInv /\ [Next]_vars => RunInv'
  <2> SUFFICES ASSUME RunInv, [Next]_vars PROVE RunInv'
    OBVIOUS
  <2>1. ASSUME NEW p \in Producer, \/ \E op \in Posted \cup Sent : Call(p, op)
                                   \/ GoOn(p) \/ Return(p)
        PROVE  RunInv'
    BY <2>1, InterfaceKeepsRun
  <2>2. CASE SpuriousWakeup
    BY <2>2, TypeNames, TypeNamesPrimed DEF SpuriousWakeup, RunInv
  <2>3. CASE Emulator
    BY <2>3, CallbackKeepsRun, GoingOnKeepsRun, GuiKeepsRun, StopsKeepsRun,
       TurnKeepsRun, WaitKeepsRun DEF Emulator
  <2>4. CASE UNCHANGED vars
    BY <2>4, TypeNames, TypeNamesPrimed DEF vars, RunInv
  <2> QED BY <2>1, <2>2, <2>3, <2>4 DEF Next
<1> QED BY <1>1, <1>2, PTL DEF Spec

(* dreamcast_is_running is true only while a dreamcast_run is on the stack,*)
(* and once all of them have returned the emulator is stopped, however     *)
(* runs and stops nest.  (dreamcast_run, dreamcast_stop)                   *)
THEOREM TQueueRunningIsTrue == Spec => []RunningIsTrue
<1>1. RunInv => RunningIsTrue
  BY HasRunIsRuns DEF RunInv, RunningIsTrue, HasRun
<1> QED BY <1>1, TQueueRuns, PTL

-----------------------------------------------------------------------------
(* Messages that are waited for: whether a sequence has one, and no more   *)
(* than one. W is the set of the elements that carry such a message.       *)

Has(e, W) == \E i \in 1 .. Len(e) : e[i] \in W
OneAtMost(e, W) == \A i, j \in 1 .. Len(e) : e[i] \in W /\ e[j] \in W => i = j

LEMMA AppendHas ==
  ASSUME NEW S, NEW e \in Seq(S), NEW x \in S, NEW W
  PROVE  /\ Has(Append(e, x), W) <=> Has(e, W) \/ x \in W
         /\ OneAtMost(e, W) /\ ~(Has(e, W) /\ x \in W) => OneAtMost(Append(e, x), W)
<1> DEFINE a == Append(e, x)
<1>1. /\ Len(e) \in Nat /\ Len(a) = Len(e) + 1 /\ a[Len(e) + 1] = x
      /\ \A i \in 1 .. Len(e) : a[i] = e[i]
  BY AppendProperties, LenProperties
<1>2. \A i : i \in 1 .. Len(a) <=> i \in 1 .. Len(e) \/ i = Len(e) + 1
  BY <1>1
<1> HIDE DEF a
<1>3. Has(a, W) <=> Has(e, W) \/ x \in W
  BY <1>1, <1>2 DEF Has
<1>4. OneAtMost(e, W) /\ ~(Has(e, W) /\ x \in W) => OneAtMost(a, W)
  BY <1>1, <1>2 DEF Has, OneAtMost
<1> QED BY <1>3, <1>4 DEF a

LEMMA TailHas ==
  ASSUME NEW S, NEW e \in Seq(S), e # <<>>, NEW W
  PROVE  /\ Has(e, W) <=> Has(Tail(e), W) \/ Head(e) \in W
         /\ OneAtMost(e, W) => /\ OneAtMost(Tail(e), W)
                               /\ ~(Has(Tail(e), W) /\ Head(e) \in W)
<1> DEFINE t == Tail(e)
<1>1. /\ Len(e) \in Nat \ {0} /\ Len(t) = Len(e) - 1 /\ Head(e) = e[1]
      /\ \A i \in 1 .. Len(t) : t[i] = e[i + 1]
  BY EmptySeq, LenProperties, HeadTailProperties
<1>2. /\ \A i \in 1 .. Len(t) : i + 1 \in 1 .. Len(e) /\ i + 1 # 1
      /\ \A i \in 1 .. Len(e) : i = 1 \/ (i - 1 \in 1 .. Len(t) /\ (i - 1) + 1 = i)
      /\ 1 \in 1 .. Len(e)
  BY <1>1
<1> HIDE DEF t
<1>3. Has(e, W) <=> Has(t, W) \/ Head(e) \in W
  BY <1>1, <1>2 DEF Has
<1>4. ASSUME OneAtMost(e, W) PROVE OneAtMost(t, W) /\ ~(Has(t, W) /\ Head(e) \in W)
  <2>1. OneAtMost(t, W)
    <3> SUFFICES ASSUME NEW i \in 1 .. Len(t), NEW j \in 1 .. Len(t), t[i] \in W, t[j] \in W
                 PROVE  i = j
      BY DEF OneAtMost
    <3>1. i + 1 = j + 1
      BY <1>1, <1>2, <1>4 DEF OneAtMost
    <3> QED BY <3>1
  <2>2. ~(Has(t, W) /\ Head(e) \in W)
    BY <1>1, <1>2, <1>4 DEF Has, OneAtMost
  <2> QED BY <2>1, <2>2
<1> QED BY <1>3, <1>4 DEF t

LEMMA FrontHas ==
  ASSUME NEW S, NEW e \in Seq(S), e # <<>>, NEW W
  PROVE  /\ Has(e, W) <=> Has(Front(e), W) \/ e[Len(e)] \in W
         /\ OneAtMost(e, W) => /\ OneAtMost(Front(e), W)
                               /\ ~(Has(Front(e), W) /\ e[Len(e)] \in W)
<1> DEFINE f == Front(e)
<1>1. /\ Len(e) \in Nat \ {0} /\ Len(f) = Len(e) - 1
      /\ \A i \in 1 .. Len(f) : f[i] = e[i]
  BY FrontElements
<1>2. /\ \A i \in 1 .. Len(f) : i \in 1 .. Len(e) /\ i # Len(e)
      /\ \A i \in 1 .. Len(e) : i = Len(e) \/ i \in 1 .. Len(f)
      /\ Len(e) \in 1 .. Len(e)
  BY <1>1
<1> HIDE DEF f
<1>3. Has(e, W) <=> Has(f, W) \/ e[Len(e)] \in W
  BY <1>1, <1>2 DEF Has
<1>4. OneAtMost(e, W) => OneAtMost(f, W) /\ ~(Has(f, W) /\ e[Len(e)] \in W)
  BY <1>1, <1>2 DEF Has, OneAtMost
<1> QED BY <1>3, <1>4 DEF f

-----------------------------------------------------------------------------
(* The ring never overflows and every answer goes to the message it        *)
(* answers, when one thread of the interface sends.                        *)

SyncMessage == {m \in Message : m.sync}
SyncFrame == {f \in Frame : f.msg.sync}

(* At most one message is waited for, and its sender waits. The predicate  *)
(* takes the producers' places, the queue and the stack, so that it can be *)
(* said of the steps inside an action too.                                 *)
Counted(p, q, s) ==
  /\ Len(q) <= TQUEUE_LENGTH - 1
  /\ OneAtMost(q, SyncMessage) /\ OneAtMost(s, SyncFrame)
  /\ ~(Has(q, SyncMessage) /\ Has(s, SyncFrame))
  /\ \A x \in Producer :
       /\ p[x] = "enqueue" => Len(q) < TQUEUE_LENGTH - 1
       /\ p[x] = "sync" <=> Has(q, SyncMessage) \/ Has(s, SyncFrame)

MsgInv == TypeOK /\ Counted(pc, queue, stack)

(* A place of the ring is freed: the head of the queue is taken.           *)
LEMMA HeadTaken ==
  ASSUME NEW ui, Producer = {ui}, NEW p \in [Producer -> Place],
         NEW q \in Seq(Message), q # <<>>, NEW s \in Seq(Frame),
         Counted(p, q, s), NEW r \in Freed(p, q)
  PROVE  Counted(r, Tail(q), Append(s, [msg |-> Head(q), at |-> "call"]))
<1> DEFINE f == [msg |-> Head(q), at |-> "call"]
           a == Append(s, f)
<1>1. /\ Len(q) \in Nat \ {0} /\ Tail(q) \in Seq(Message) /\ Head(q) \in Message
      /\ Len(Tail(q)) = Len(q) - 1
  BY EmptySeq, LenProperties, HeadTailProperties
<1>2. f \in Frame /\ (f \in SyncFrame <=> Head(q) \in SyncMessage)
  BY <1>1 DEF Frame, At, SyncFrame, SyncMessage
<1>3. /\ Has(a, SyncFrame) <=> Has(s, SyncFrame) \/ f \in SyncFrame
      /\ OneAtMost(s, SyncFrame) /\ ~(Has(s, SyncFrame) /\ f \in SyncFrame)
           => OneAtMost(a, SyncFrame)
  BY <1>2, AppendHas
<1>4. /\ Has(q, SyncMessage) <=> Has(Tail(q), SyncMessage) \/ Head(q) \in SyncMessage
      /\ OneAtMost(q, SyncMessage)
           => /\ OneAtMost(Tail(q), SyncMessage)
              /\ ~(Has(Tail(q), SyncMessage) /\ Head(q) \in SyncMessage)
  BY TailHas
<1> HIDE DEF f, a
<1>5. /\ OneAtMost(Tail(q), SyncMessage) /\ OneAtMost(a, SyncFrame)
      /\ ~(Has(Tail(q), SyncMessage) /\ Has(a, SyncFrame))
      /\ Has(q, SyncMessage) \/ Has(s, SyncFrame)
           <=> Has(Tail(q), SyncMessage) \/ Has(a, SyncFrame)
  BY <1>2, <1>3, <1>4 DEF Counted
<1>6. /\ Len(Tail(q)) <= TQUEUE_LENGTH - 1
      /\ Len(Tail(q)) < TQUEUE_LENGTH - 1
  BY <1>1, LengthAssumption DEF Counted
<1>7. r[ui] = p[ui] \/ (p[ui] = "full" /\ r[ui] = "enqueue")
  <2>1. r = p \/ r \in Signal(p, "full", "enqueue")
    BY DEF Freed
  <2>2. ASSUME r \in Signal(p, "full", "enqueue")
        PROVE  r[ui] = IF p[ui] = "full" THEN "enqueue" ELSE p[ui]
    BY <2>2 DEF Signal
  <2> QED BY <2>1, <2>2
<1>8. r[ui] = "sync" <=> p[ui] = "sync"
  BY <1>7
<1>9. r[ui] = "sync" <=> Has(Tail(q), SyncMessage) \/ Has(a, SyncFrame)
  BY <1>5, <1>8 DEF Counted
<1>10. Counted(r, Tail(q), a)
  BY <1>5, <1>6, <1>9 DEF Counted
<1> QED BY <1>10 DEF a, f

LEMMA LoopCounts ==
  ASSUME NEW ui, Producer = {ui}, TypeOK, NEW s \in Seq(Frame),
         NEW p \in [Producer -> Place], Loop(s, {p}), Counted(p, queue, s)
  PROVE  /\ queue' \in Seq(Message) /\ stack' \in Seq(Frame)
         /\ pc' \in [Producer -> Place]
         /\ Counted(pc', queue', stack')
<1>1. {p} \in SUBSET [Producer -> Place] /\ queue \in Seq(Message)
  BY TypeNames
<1>2. /\ queue' \in Seq(Message) /\ stack' \in Seq(Frame)
      /\ pc' \in [Producer -> Place]
      /\ \/ stack' = s /\ queue' = queue /\ queue = <<>> /\ pc' \in {p}
         \/ /\ queue # <<>> /\ Head(queue) \in Message /\ queue' = Tail(queue)
            /\ stack' = Append(s, [msg |-> Head(queue), at |-> "call"])
            /\ \E r \in {p} : pc' \in Freed(r, queue)
  BY <1>1, LoopFacts
<1>3. CASE stack' = s /\ queue' = queue /\ pc' = p
  BY <1>2, <1>3
<1>4. CASE /\ queue # <<>> /\ queue' = Tail(queue) /\ pc' \in Freed(p, queue)
           /\ stack' = Append(s, [msg |-> Head(queue), at |-> "call"])
  BY <1>1, <1>2, <1>4, HeadTaken
<1> QED BY <1>2, <1>3, <1>4

(* The thread of the interface enqueues a message: it waited for none.     *)
LEMMA EnqueueCounts ==
  ASSUME NEW ui, Producer = {ui}, MsgInv, NEW m \in Message,
         pc[ui] # "sync", ~Full(queue), Enqueue(ui, m)
  PROVE  Counted(pc', queue', stack)
<1>1. /\ queue \in Seq(Message) /\ Len(queue) \in Nat /\ pc \in [Producer -> Place]
      /\ queue' = Append(queue, m) /\ Len(queue') = Len(queue) + 1
      /\ pc'[ui] = IF m.sync THEN "sync" ELSE "idle"
  BY TypeNames, AppendProperties, LenProperties DEF MsgInv, Enqueue
<1>2. Len(queue) < TQUEUE_LENGTH - 1
  BY <1>1, LengthAssumption DEF Full
<1>3. ~Has(queue, SyncMessage) /\ ~Has(stack, SyncFrame)
  BY DEF MsgInv, Counted
<1>4. m \in SyncMessage <=> m.sync
  BY DEF SyncMessage
<1>5. /\ Has(queue', SyncMessage) <=> m.sync
      /\ OneAtMost(queue', SyncMessage)
  BY <1>1, <1>3, <1>4, AppendHas DEF MsgInv, Counted
<1>6. OneAtMost(stack, SyncFrame)
  BY DEF MsgInv, Counted
<1>7. Len(queue') <= TQUEUE_LENGTH - 1
  BY <1>1, <1>2, LengthAssumption
<1>8. pc'[ui] # "enqueue" /\ (pc'[ui] = "sync" <=> m.sync)
  BY <1>1
<1> QED BY <1>3, <1>5, <1>6, <1>7, <1>8 DEF Counted

(* The frames move, and carry the messages they carried.                   *)
LEMMA SameMessages ==
  ASSUME NEW s \in Seq(Frame), NEW t \in Seq(Frame), Len(t) = Len(s),
         \A i \in 1 .. Len(s) : t[i].msg = s[i].msg,
         NEW p, NEW q, Counted(p, q, s)
  PROVE  Counted(p, q, t)
<1>1. \A i \in 1 .. Len(s) : s[i] \in Frame /\ t[i] \in Frame
  BY ElementOfSeq
<1>2. \A i \in 1 .. Len(s) : s[i] \in SyncFrame <=> t[i] \in SyncFrame
  BY <1>1 DEF SyncFrame
<1>3. (Has(s, SyncFrame) <=> Has(t, SyncFrame))
      /\ (OneAtMost(s, SyncFrame) <=> OneAtMost(t, SyncFrame))
  BY <1>2 DEF Has, OneAtMost
<1> QED BY <1>3 DEF Counted

LEMMA InterfaceKeepsMessages ==
  ASSUME NEW ui, Producer = {ui}, MsgInv, TypeOK',
         \/ \E op \in Posted \cup Sent : Call(ui, op)
         \/ GoOn(ui) \/ Return(ui)
  PROVE  MsgInv'
<1>1. pc \in [Producer -> Place] /\ msg' \in [Producer -> Message]
      /\ msg \in [Producer -> Message]
  BY TypeNames, TypeNamesPrimed DEF MsgInv
<1>2. stack' = stack
  BY DEF Call, GoOn, Return
<1>3. ASSUME NEW op \in Posted \cup Sent, Call(ui, op)
      PROVE  Counted(pc', queue', stack)
  <2>1. pc[ui] = "idle"
    BY <1>3 DEF Call
  <2>2. CASE Full(queue)
    <3>1. queue' = queue /\ pc'[ui] = "full"
      BY <1>1, <1>3, <2>2 DEF Call
    <3>2. ~Has(queue, SyncMessage) /\ ~Has(stack, SyncFrame)
      BY <2>1 DEF MsgInv, Counted
    <3> QED BY <3>1, <3>2 DEF MsgInv, Counted
  <2>3. CASE ~Full(queue)
    <3>1. Enqueue(ui, msg'[ui])
      BY <1>3, <2>3 DEF Call
    <3> QED BY <1>1, <2>1, <2>3, <3>1, EnqueueCounts
  <2> QED BY <2>2, <2>3
<1>4. CASE GoOn(ui)
  <2>1. pc[ui] # "sync" /\ ~Full(queue) /\ Enqueue(ui, msg[ui])
    BY <1>4 DEF GoOn
  <2>2. msg[ui] \in Message
    BY <1>1
  <2> QED BY <1>2, <2>1, <2>2, EnqueueCounts DEF MsgInv
<1>5. CASE Return(ui)
  <2>1. pc[ui] = "woken" /\ pc'[ui] = "idle" /\ queue' = queue
    BY <1>1, <1>5 DEF Return
  <2>2. ~Has(queue, SyncMessage) /\ ~Has(stack, SyncFrame)
    BY <2>1 DEF MsgInv, Counted
  <2>3. Counted(pc', queue', stack)
    BY <2>1, <2>2 DEF MsgInv, Counted
  <2> QED BY <1>2, <2>3 DEF MsgInv
<1> QED BY <1>2, <1>3, <1>4, <1>5 DEF MsgInv

(* A callback that goes on, at whatever place, keeps its message.          *)
LEMMA GoingOnKeepsMessages ==
  ASSUME NEW ui, Producer = {ui}, MsgInv, TypeOK',
         CallbackReturns \/ RunStarts \/ RunSlice \/ RunTest \/ RunStops
  PROVE  MsgInv'
<1>1. /\ TypeOK /\ stack # <<>> /\ \E a \in At : Goto(a)
      /\ queue' = queue /\ pc' = pc
  BY DEF MsgInv, CallbackReturns, RunStarts, RunSlice, RunTest, RunStops, At
<1>2. /\ stack \in Seq(Frame) /\ stack' \in Seq(Frame) /\ Len(stack') = Len(stack)
      /\ \A i \in 1 .. Len(stack) : stack'[i].msg = stack[i].msg
  BY <1>1, TypeNames, GotoFacts
<1>3. Counted(pc, queue, stack')
  BY <1>2, SameMessages DEF MsgInv
<1> QED BY <1>1, <1>3 DEF MsgInv

LEMMA GuiKeepsMessages ==
  ASSUME NEW ui, Producer = {ui}, MsgInv, TypeOK', GuiSlice
  PROVE  MsgInv'
<1> DEFINE s == [stack EXCEPT ![Len(stack)].at = "test"]
<1>1. TypeOK /\ stack # <<>> /\ Loop(s, {pc}) /\ stack \in Seq(Frame)
      /\ pc \in [Producer -> Place]
  BY TypeNames DEF MsgInv, GuiSlice
<1>2. /\ s \in Seq(Frame) /\ Len(s) = Len(stack)
      /\ \A i \in 1 .. Len(stack) - 1 : s[i] = stack[i]
      /\ s[Len(stack)].msg = stack[Len(stack)].msg
  BY <1>1, TopMoved DEF At
<1> HIDE DEF s
<1>3. Len(stack) \in Nat
  BY <1>1, LenProperties
<1>4. \A i \in 1 .. Len(stack) : s[i].msg = stack[i].msg
  BY <1>2, <1>3
<1>5. Counted(pc, queue, s)
  BY <1>1, <1>2, <1>4, SameMessages DEF MsgInv
<1> QED BY <1>1, <1>2, <1>5, LoopCounts DEF MsgInv

(* A callback has returned. If its message was waited for, its sender      *)
(* waits and is the one that is woken, and no other message is waited for. *)
LEMMA TurnKeepsMessages ==
  ASSUME NEW ui, Producer = {ui}, MsgInv, TypeOK', LoopTurn
  PROVE  MsgInv'
<1>1. /\ TypeOK /\ stack # <<>> /\ Loop(Front(stack), Answered(pc, Top.msg))
      /\ stack \in Seq(Frame) /\ pc \in [Producer -> Place]
  BY TypeNames DEF MsgInv, LoopTurn
<1>2. /\ Front(stack) \in Seq(Frame) /\ Top \in Frame
      /\ Has(stack, SyncFrame) <=> Has(Front(stack), SyncFrame) \/ Top \in SyncFrame
      /\ OneAtMost(stack, SyncFrame)
           => /\ OneAtMost(Front(stack), SyncFrame)
              /\ ~(Has(Front(stack), SyncFrame) /\ Top \in SyncFrame)
  BY <1>1, TopTaken, FrontHas DEF Top
<1>3. Top \in SyncFrame <=> Top.msg.sync
  BY <1>2 DEF SyncFrame
<1>4. CASE ~Top.msg.sync
  <2>1. Answered(pc, Top.msg) = {pc}
    BY <1>4 DEF Answered
  <2>2. Counted(pc, queue, Front(stack))
    BY <1>2, <1>3, <1>4 DEF MsgInv, Counted
  <2> QED BY <1>1, <1>2, <2>1, <2>2, LoopCounts DEF MsgInv
<1>5. CASE Top.msg.sync
  <2> DEFINE p == [pc EXCEPT ![ui] = "woken"]
  <2>1. pc[ui] = "sync"
    BY <1>2, <1>3, <1>5 DEF MsgInv, Counted
  <2>2. Answered(pc, Top.msg) = {p}
    BY <1>5, <2>1 DEF Answered, Signal
  <2>3. p \in [Producer -> Place] /\ p[ui] = "woken"
    BY <1>1 DEF Place
  <2> HIDE DEF p
  <2>4. ~Has(queue, SyncMessage) /\ ~Has(Front(stack), SyncFrame)
        /\ OneAtMost(Front(stack), SyncFrame)
    BY <1>2, <1>3, <1>5 DEF MsgInv, Counted
  <2>5. Counted(p, queue, Front(stack))
    BY <2>3, <2>4 DEF MsgInv, Counted
  <2> QED BY <1>1, <1>2, <2>2, <2>3, <2>5, LoopCounts DEF MsgInv
<1> QED BY <1>4, <1>5

LEMMA WaitKeepsMessages ==
  ASSUME NEW ui, Producer = {ui}, MsgInv, TypeOK', ProcessWait
  PROVE  MsgInv'
<1>1. TypeOK /\ Loop(stack, {pc}) /\ stack \in Seq(Frame) /\ pc \in [Producer -> Place]
  BY TypeNames DEF MsgInv, ProcessWait
<1> QED BY <1>1, LoopCounts DEF MsgInv

(* What is counted is what MessagesTrue is about.                          *)
LEMMA CountedIsTrue ==
  ASSUME NEW ui, Producer = {ui}, MsgInv
  PROVE  MessagesTrue
<1>1. queue \in Seq(Message) /\ stack \in Seq(Frame) /\ Len(queue) \in Nat
  BY TypeNames, LenProperties DEF MsgInv
<1>2. NeverOverfull
  BY <1>1, LengthAssumption DEF MsgInv, Counted, NeverOverfull
<1>3. /\ \A i \in 1 .. Len(queue) : queue[i] \in Message
      /\ \A i \in 1 .. Len(stack) : stack[i] \in Frame
  BY <1>1, ElementOfSeq
<1>4. /\ \A i \in 1 .. Len(queue) :
           queue[i] \in SyncMessage <=> queue[i].sync /\ queue[i].from = ui
      /\ \A i \in 1 .. Len(stack) :
           stack[i] \in SyncFrame <=> stack[i].msg.sync /\ stack[i].msg.from = ui
  BY <1>3 DEF Frame, Message, SyncFrame, SyncMessage
<1>5. InProgress(ui) <=> Has(queue, SyncMessage) \/ Has(stack, SyncFrame)
  BY <1>4 DEF Has, InProgress
<1>6. AnswerIsMine
  BY <1>5 DEF MsgInv, Counted, AnswerIsMine
<1> QED BY <1>2, <1>6 DEF MessagesTrue

(* No message is lost or overwritten, a producer that was woken finds a    *)
(* place, and a sender waits for the answer to its own message, no shorter *)
(* and no longer, for every length of the ring and every depth of nested   *)
(* loops, with the one thread the Android interface has.                   *)
(* (tqueue_post_message, tqueue_send_message, tqueue_process_loop)         *)
THEOREM TQueueMessagesTrue ==
  ASSUME NEW CONSTANT ui, Producer = {ui}
  PROVE  Spec => []MessagesTrue
<1>1. TypeOK /\ Init => MsgInv
  <2> SUFFICES ASSUME TypeOK, Init PROVE MsgInv
    OBVIOUS
  <2>1. queue = <<>> /\ stack = <<>> /\ Len(queue) = 0 /\ Len(stack) = 0
        /\ pc[ui] = "idle"
    BY EmptySeq DEF Init
  <2>2. /\ ~Has(queue, SyncMessage) /\ ~Has(stack, SyncFrame)
        /\ OneAtMost(queue, SyncMessage) /\ OneAtMost(stack, SyncFrame)
    BY <2>1 DEF Has, OneAtMost
  <2>3. Counted(pc, queue, stack)
    BY <2>1, <2>2, LengthAssumption DEF Counted
  <2> QED BY <2>3 DEF MsgInv
<1>2. MsgInv /\ TypeOK' /\ [Next]_vars => MsgInv'
  <2> SUFFICES ASSUME MsgInv, TypeOK', [Next]_vars PROVE MsgInv'
    OBVIOUS
  <2>1. CASE \E p \in Producer : \/ \E op \in Posted \cup Sent : Call(p, op)
                                 \/ GoOn(p) \/ Return(p)
    BY <2>1, InterfaceKeepsMessages
  <2>2. CASE SpuriousWakeup \/ UNCHANGED vars
    BY <2>2 DEF SpuriousWakeup, vars, MsgInv
  <2>3. CASE Emulator
    BY <2>3, GoingOnKeepsMessages, GuiKeepsMessages, TurnKeepsMessages,
       WaitKeepsMessages DEF Emulator
  <2> QED BY <2>1, <2>2, <2>3 DEF Next
<1>3. RunInv => TypeOK
  BY DEF RunInv
<1>4. MsgInv => MessagesTrue
  BY CountedIsTrue
<1> QED BY <1>1, <1>2, <1>3, <1>4, TQueueRuns, PTL DEF Spec
=============================================================================
