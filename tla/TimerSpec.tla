------------------------------ MODULE TimerSpec ------------------------------
(***************************************************************************)
(* What src/src/eventq.h promises its clients, with no lists, slices or    *)
(* seconds: a set of armed one-shot timers and the time each has left.     *)
(***************************************************************************)
EXTENDS Integers

CONSTANTS
  Timer,      \* the identifiers of the timers
  NoTimer,    \* no timer is being called
  MaxLate,    \* how late a timer may be called
  MaxStep     \* the most that emulated time moves in one step, either way

VARIABLES
  armed,      \* the timers that have been scheduled and not yet called
  left,       \* the time left until each armed timer is due
  calling     \* the timer whose callback runs

vars == <<armed, left, calling>>

Init == armed = {} /\ left = [t \in Timer |-> 0] /\ calling = NoTimer

(* event_schedule, event_schedule_long: the latest schedule of an id wins. *)
Arm(t) ==
  /\ armed' = armed \cup {t}
  /\ left'[t] \in Nat
  /\ left' = [left EXCEPT ![t] = left'[t]]
  /\ UNCHANGED calling

(* event_cancel: without triggering it.                                    *)
Disarm(t) ==
  /\ t \in armed
  /\ armed' = armed \ {t}
  /\ left' = [left EXCEPT ![t] = 0]
  /\ UNCHANGED calling

(* The callback of t is called: its time is up, and not long ago.          *)
Fire(t) ==
  /\ calling = NoTimer
  /\ t \in armed
  /\ left[t] \in -MaxLate .. 0
  /\ armed' = armed \ {t}
  /\ left' = [left EXCEPT ![t] = 0]
  /\ calling' = t

Return == calling # NoTimer /\ calling' = NoTimer /\ UNCHANGED <<armed, left>>

(* Time passes for all timers alike, and none is forgotten.                *)
Pass(n) ==
  /\ \A t \in armed : left[t] - n >= -MaxLate
  /\ left' = [t \in Timer |-> IF t \in armed THEN left[t] - n ELSE left[t]]
  /\ UNCHANGED <<armed, calling>>

(* event_reset                                                             *)
Clear ==
  armed' = {} /\ left' = [t \in Timer |-> 0] /\ UNCHANGED calling

Next ==
  \/ \E t \in Timer : Arm(t) \/ Disarm(t) \/ Fire(t)
  \/ \E n \in -MaxStep .. MaxStep : Pass(n)
  \/ Return
  \/ Clear

Spec == Init /\ [][Next]_vars
=============================================================================
