------------------------------- MODULE ArmSpec -------------------------------
(***************************************************************************)
(* What the banked registers of the ARM promise a program: every mode has  *)
(* its own r14, fast interrupts have an r10 of their own, and what is      *)
(* written there is read there, whatever modes were entered and left in    *)
(* between.  Nothing here is saved or restored: a register is a cell.      *)
(***************************************************************************)
CONSTANTS Modes, Values

VARIABLES
  psr,            \* the current mode and the interrupts it masks
  file,           \* the registers by the mode that owns them
  spsrs           \* the saved status of every exception mode

vars == <<psr, file, spsrs>>

Exceptions == Modes \ {"user", "sys"}

(* The owner of register x as mode m sees it.                              *)
Owner(m, x) ==
  CASE x = "r10" -> IF m = "fiq" THEN "fiq" ELSE "user"
    [] x = "r14" -> IF m = "sys" THEN "user" ELSE m

Cells == {<<Owner(m, x), x>> : m \in Modes, x \in {"r10", "r14"}}
Status == [mode : Modes \cup {"none"}, masked : SUBSET {"I", "F"}]

Init == /\ psr = [mode |-> "svc", masked |-> {"I", "F"}]
        /\ file \in [Cells -> Values]
        /\ spsrs \in [Exceptions -> Status]

WriteOwn(x, v) == /\ psr' = psr
                  /\ file' = [file EXCEPT ![<<Owner(psr.mode, x), x>>] = v]
                  /\ spsrs' = spsrs

WriteUser(x, v) == /\ psr' = psr
                   /\ file' = [file EXCEPT ![<<"user", x>>] = v]
                   /\ spsrs' = spsrs

WriteStatus(p) == /\ psr.mode # "user"
                  /\ psr' = p
                  /\ UNCHANGED <<file, spsrs>>

WriteSaved(p) == /\ psr.mode \in Exceptions
                 /\ psr' = psr
                 /\ spsrs' = [spsrs EXCEPT ![psr.mode] = p]
                 /\ file' = file

(* An exception: the status is kept for the way back, and so is the        *)
(* address to go back to.                                                  *)
Enter(m, masked, v) == /\ psr' = [mode |-> m, masked |-> masked]
                       /\ spsrs' = [spsrs EXCEPT ![m] = psr]
                       /\ file' = [file EXCEPT ![<<m, "r14">>] = v]

Leave == /\ psr.mode \in Exceptions
         /\ psr' = spsrs[psr.mode]
         /\ UNCHANGED <<file, spsrs>>

Restart == /\ psr' = [mode |-> "svc", masked |-> {"I", "F"}]
           /\ file' \in [Cells -> Values]
           /\ spsrs' \in [Exceptions -> Status]

Next == \/ \E v \in Values : \/ \E x \in {"r10", "r14"} : WriteOwn(x, v)
                             \/ \E x \in {"r10", "r14"} : WriteUser(x, v)
                             \/ \E m \in Exceptions, i \in SUBSET {"I", "F"} :
                                  Enter(m, i, v)
        \/ \E p \in Status : WriteStatus(p) \/ WriteSaved(p)
        \/ Leave \/ Restart

Spec == Init /\ [][Next]_vars
=============================================================================
