--------------------------------- MODULE Arm ---------------------------------
(***************************************************************************)
(* The modes of the sound processor (src/src/aica/armcore.c).  armr.r and  *)
(* armr.spsr hold what the current mode sees; what the other modes own is  *)
(* in the banks, to which arm_set_mode saves and from which it restores.   *)
(*                                                                         *)
(* One register stands for each kind: r0 for those every mode shares, r10  *)
(* for r8 to r12, r14 for r13 and r14; only the last two are kept.  The    *)
(* status is the mode and the interrupt masks.  What an instruction        *)
(* computes is left out; whether a fast interrupt is pending is decided by *)
(* the sound chip (aica.c).                                                *)
(***************************************************************************)
EXTENDS Integers

CONSTANTS
  Modes,          \* the modes, "svc" and "fiq" and "user" among them
  Values,         \* the values of a register
  Statuses        \* the values software writes to CPSR and SPSR

ASSUME ModesAssumption == {"user", "svc", "fiq"} \subseteq Modes
ASSUME ValuesAssumption == Values # {}
ASSUME StatusesAssumption ==
  Statuses \subseteq [mode : Modes, masked : SUBSET {"I", "F"}]

VARIABLES
  cpsr,           \* mode and masks
  r,              \* armr.r, of the current mode
  spsr,           \* armr.spsr, of the current mode
  saved,          \* user_r, svc_r .. fiq_r: what the other modes own
  named           \* history: "own" or "user", the bank the last load named

vars == <<cpsr, r, spsr, saved, named>>

Regs == {"r10", "r14"}
Exceptions == Modes \ {"user", "sys"}
BankOf(m) == IF m = "sys" THEN "user" ELSE m
Reset == [mode |-> "svc", masked |-> {"I", "F"}]

-----------------------------------------------------------------------------
(* Definitions marked "Faulty" are variants of the one that follows; the   *)
(* specification does not use them.  They show that a property can fail.   *)

(* What arm_reset leaves in a register and in a saved status; the second   *)
(* is the number of no mode, and nothing returns to it.                    *)
Zero == CHOOSE v \in Values : TRUE
NoStatus == [mode |-> "none", masked |-> {}]
Cleared ==
  [b \in Modes \ {"sys"} |-> [r10 |-> Zero, r14 |-> Zero, spsr |-> NoStatus]]

Init ==
  /\ cpsr = Reset
  /\ r = [x \in Regs |-> Zero]
  /\ spsr = NoStatus
  /\ saved = Cleared
  /\ named = "own"

(* Faulty: r8 to r12 of the fast interrupts are saved, those of the others *)
(* are not put back.                                                       *)
LeftForgetsUser(b) ==
  LET s == [saved EXCEPT ![b].r14 = r["r14"]]
  IN  CASE b = "user" -> [bank |-> s, r10 |-> r["r10"]]
        [] b = "fiq" -> [bank |-> [s EXCEPT ![b].r10 = r["r10"], ![b].spsr = spsr],
                         r10 |-> r["r10"]]
        [] OTHER -> [bank |-> [s EXCEPT ![b].spsr = spsr], r10 |-> r["r10"]]

(* The first switch of arm_set_mode: the banks and r10 after leaving b.    *)
Left(b) ==
  LET s == [saved EXCEPT ![b].r14 = r["r14"]]
  IN  CASE b = "user" -> [bank |-> s, r10 |-> r["r10"]]
        [] b = "fiq" -> [bank |-> [s EXCEPT ![b].r10 = r["r10"], ![b].spsr = spsr],
                         r10 |-> saved["user"].r10]
        [] OTHER -> [bank |-> [s EXCEPT ![b].spsr = spsr], r10 |-> r["r10"]]

(* arm_set_mode: banks, registers and spsr in mode m.  User and system     *)
(* mode have no spsr of their own and leave the last one there.            *)
Switched(m) ==
  IF m = cpsr.mode
  THEN [bank |-> saved, r |-> r, spsr |-> spsr]
  ELSE LET left == Left(BankOf(cpsr.mode))
           bank == IF m = "fiq" THEN [left.bank EXCEPT !["user"].r10 = left.r10]
                                ELSE left.bank
           mine == bank[BankOf(m)]
       IN  [bank |-> bank,
            r |-> [r10 |-> IF m = "fiq" THEN mine.r10 ELSE left.r10,
                   r14 |-> mine.r14],
            spsr |-> IF m \in Exceptions THEN mine.spsr ELSE spsr]

(* The status of an exception: it masks interrupts, a fast one masks both. *)
Entered(m) == [mode |-> m, masked |-> IF m = "fiq" THEN {"I", "F"} ELSE {"I"}]

(* arm_raise_exception.  The low byte of the status is replaced: an        *)
(* exception that is not a fast interrupt unmasks those.                   *)
Raise(m, v) ==
  LET to == Switched(m)
  IN  /\ saved' = to.bank
      /\ r' = [to.r EXCEPT !["r14"] = v]
      /\ spsr' = cpsr
      /\ cpsr' = Entered(m)
      /\ named' = "own"

FastInterrupt(v) == "F" \notin cpsr.masked /\ Raise("fiq", v)

(* arm_set_cpsr and arm_restore_cpsr, once the mode may be changed.        *)
SwitchTo(p) ==
  LET to == Switched(p.mode)
  IN  /\ saved' = to.bank
      /\ r' = to.r
      /\ spsr' = to.spsr
      /\ cpsr' = p
      /\ named' = "own"

WriteStatus(p) == cpsr.mode # "user" /\ SwitchTo(p)

(* A data processing instruction or a load of several registers with r15   *)
(* as its target.  Software that is not in an exception mode has nothing   *)
(* to return to.                                                           *)
Return == /\ cpsr.mode \in Exceptions
          /\ spsr # NoStatus
          /\ SwitchTo(spsr)

(* arm_set_spsr.                                                           *)
WriteSaved(p) ==
  /\ cpsr.mode \in Exceptions
  /\ spsr' = p
  /\ named' = "own"
  /\ UNCHANGED <<cpsr, r, saved>>

WriteOwn(x, v) ==
  /\ r' = [r EXCEPT ![x] = v]
  /\ named' = "own"
  /\ UNCHANGED <<cpsr, spsr, saved>>

(* arm_user_reg: whether register x of the user is in the bank.            *)
UserOwns(x) ==
  \/ x = "r14" /\ cpsr.mode \in Exceptions
  \/ x = "r10" /\ cpsr.mode = "fiq"

(* A load of the user's registers.  In fast interrupts the test of         *)
(* arm_user_reg, "reg >= 8 || reg <= 12", is true of every register: r0    *)
(* then is user_r[-8], which is r10.                                       *)
LoadUser(x, v) ==
  /\ named' = "user"
  /\ \/ /\ x = "r0"
        /\ r' = IF cpsr.mode = "fiq" THEN [r EXCEPT !["r10"] = v] ELSE r
        /\ saved' = saved
     \/ /\ x # "r0" /\ UserOwns(x)
        /\ r' = r
        /\ saved' = [saved EXCEPT !["user"][x] = v]
     \/ /\ x # "r0" /\ ~UserOwns(x)
        /\ r' = [r EXCEPT ![x] = v]
        /\ saved' = saved
  /\ UNCHANGED <<cpsr, spsr>>

(* The ARM is taken out of reset, or the machine is reset.                 *)
Restart ==
  /\ cpsr' = Reset
  /\ r' = [x \in Regs |-> Zero]
  /\ spsr' = NoStatus
  /\ saved' = Cleared
  /\ named' = "own"

Next == \/ \E v \in Values : \/ FastInterrupt(v)
                             \/ \E m \in Exceptions \ {"fiq"} : Raise(m, v)
                             \/ \E x \in Regs : WriteOwn(x, v)
                             \/ \E x \in Regs \cup {"r0"} : LoadUser(x, v)
        \/ \E p \in Statuses : WriteStatus(p) \/ WriteSaved(p)
        \/ Return \/ Restart

Spec == Init /\ [][Next]_vars

-----------------------------------------------------------------------------
(* The cell of ArmSpec in which a register is here.                        *)
Banked == INSTANCE ArmSpec WITH psr <- cpsr, file <- r, spsrs <- spsr

CellsHere ==
  [c \in Banked!Cells |->
     IF Banked!Owner(cpsr.mode, c[2]) = c[1] THEN r[c[2]] ELSE saved[c[1]][c[2]]]

SavedHere ==
  [m \in Exceptions |-> IF m = cpsr.mode THEN spsr ELSE saved[m].spsr]

(* Every mode finds its own registers and its own saved status as it left  *)
(* them, and a load of the user's registers is seen by the user, through   *)
(* nested exceptions, returns and changes of the status.  (arm_set_mode,   *)
(* arm_raise_exception, arm_restore_cpsr, arm_user_reg)                    *)
Registers == INSTANCE ArmSpec WITH psr <- cpsr, file <- CellsHere, spsrs <- SavedHere

(* This is Registers!Spec, but TLC sees first when nothing has moved.      *)
KeepsRegisters ==
  Registers!Init /\ [][UNCHANGED vars \/ Registers!Next]_(Registers!vars)

(* "Return a pointer to the specified register in the user bank,           *)
(* regardless of the active bank" (armcore.c:172): a load of the user's    *)
(* registers in a fast interrupt leaves those of the interrupt alone.      *)
UserBankReached == [][named' = "user" /\ cpsr.mode = "fiq" => r' = r]_vars
=============================================================================
