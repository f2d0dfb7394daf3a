------------------------------ MODULE IntcSpec ------------------------------
(***************************************************************************)
(* What an interrupt controller promises the devices and the core: it      *)
(* keeps a set of requests, and when the core can be interrupted it is     *)
(* given the most urgent request above its mask, in the end and never      *)
(* later than a less urgent one.                                           *)
(***************************************************************************)
EXTENDS Integers

CONSTANTS Source, NoSource, Default, Masks

VARIABLES request, level, blocked, mask, taken

svars == <<request, level, blocked, mask, taken>>

MoreUrgent(s, t) == \/ level[s] > level[t]
                    \/ level[s] = level[t] /\ s < t

Init == /\ request = {}
        /\ level = Default
        /\ blocked = TRUE
        /\ mask = 15
        /\ taken = NoSource

(* A request at level 0 is dropped.                                        *)
Request(s) == /\ level[s] > 0
              /\ request' = request \cup {s}
              /\ UNCHANGED <<level, blocked, mask, taken>>

Withdraw(s) == /\ request' = request \ {s}
               /\ UNCHANGED <<level, blocked, mask, taken>>

(* Only sources without a request change their level.                      *)
Relevel == /\ level' \in [Source -> 0 .. 16]
           /\ \A s \in request : level'[s] = level[s]
           /\ UNCHANGED <<request, blocked, mask, taken>>

SetMask == /\ blocked' \in BOOLEAN
           /\ mask' \in Masks
           /\ UNCHANGED <<request, level, taken>>

(* The interrupt blocks the next one; the request stands until its device  *)
(* withdraws it.                                                           *)
Take == /\ ~blocked
        /\ \E s \in request : /\ level[s] > mask
                              /\ \A t \in request \ {s} : MoreUrgent(s, t)
                              /\ taken' = s
        /\ blocked' = TRUE
        /\ UNCHANGED <<request, level, mask>>

Restart == /\ request' = {}
           /\ level' = Default
           /\ blocked' = TRUE
           /\ mask' = 15
           /\ UNCHANGED taken

Next == \/ \E s \in Source : Request(s) \/ Withdraw(s)
        \/ Relevel \/ SetMask \/ Take \/ Restart

(* The promise without its last part, and with it.                         *)
Safe == Init /\ [][Next]_svars
Spec == Safe /\ WF_svars(Take)
=============================================================================
