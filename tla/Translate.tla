------------------------------ MODULE Translate ------------------------------
(***************************************************************************)
(* Blocks of the translator (src/src/sh4/sh4trans.c, sh4x86.in) against    *)
(* the interpreter (sh4core.in).  The translator compiles from an address  *)
(* to the next branch or the end of the page with what it believes of the  *)
(* mode the code will run in; where a block is left, by a branch, an       *)
(* exception or an exit of the core, it sets PC and charges the cycles it  *)
(* counted.  A step runs a block, and the interpreter from the same        *)
(* state for as many instructions.                                         *)
(*                                                                         *)
(* The program is a few cells, each an instruction of a kind:              *)
(*   flip   changes T                  store  a write to memory, which may *)
(*   fpu    FMOV, single or pair              fault, or leave the core     *)
(*   fschg  FSCHG                      priv   a privileged register        *)
(*   ldsr   LDC Rm, SR                 ldfp   LDS Rm, FPSCR                *)
(*   undef  no instruction             bf     BF disp                      *)
(*   bfs    BF/S disp                  bra    BRA disp                     *)
(*   jmp    JMP @Rn                    rte    RTE                          *)
(*   trapa  TRAPA                                                          *)
(* What an instruction does to the registers is in Alu.                    *)
(***************************************************************************)
EXTENDS Integers, SequencesExt

CONSTANTS
  Cells,          \* length of the program
  Kind,           \* kinds of instructions that it is made of
  LastCells       \* where the first page may end

VARIABLES
  prog,           \* the instructions; after them comes the handler: RTE, flip
  last,           \* last cell of the first page
  m,              \* the machine, as the interpreter leaves it
  x               \* the machine, as the block left it

vars == <<prog, last, m, x>>

Handler == Cells + 1
Target == 1                   \* of bf, bfs and bra
Register == 2                 \* of jmp

(* sh4r; out are the effects of a block, and code the exception taken.     *)
Machine(md, fd, t, ssr) ==
  [pc |-> 1, npc |-> 2, slot |-> FALSE, md |-> md, fd |-> fd, sz |-> FALSE,
   t |-> t, spc |-> 1, ssr |-> ssr, code |-> "none", out |-> <<>>]
Saved(s) == [md |-> s.md, fd |-> s.fd, t |-> s.t]

(* sh4_raise_exception, sh4_raise_trap                                     *)
Raise(s, at, code) ==
  [s EXCEPT !.pc = Handler, !.npc = Handler + 1, !.slot = FALSE, !.spc = at,
            !.ssr = Saved(s), !.md = TRUE, !.code = code]

Does(s, effect) == [s EXCEPT !.out = Append(@, effect)]
Store(priv) == IF priv THEN "priv" ELSE "user"
Fmov(pair) == IF pair THEN "pair" ELSE "single"
Stores(s) == \E e \in Range(s.out) : e \in {"priv", "user"}

(* What memory does: the first write of a block may fault or end the run.  *)
Memory == {"ok", "fault", "exit"}
Fires(s, memory, what) == memory = what /\ ~Stores(s)

Branches == {"bf", "bfs", "bra", "jmp", "rte", "trapa"}
FpuKind == {"fpu", "fschg", "ldfp"}

(* sh4_finalize_instruction: where the program goes on when the core is    *)
(* left in the instruction at c, or in its slot.                           *)
Finalized(s, c) ==
  CASE prog[c] = "bra" -> Target + 1
    [] prog[c] = "bfs" -> IF s.t THEN c + 3 ELSE Target + 1
    [] prog[c] = "jmp" -> Register
    [] prog[c] = "rte" -> s.spc
    [] OTHER -> c + 1
Left(s, c) ==
  [Does(s, "exit") EXCEPT !.pc = Finalized(s, c), !.npc = Finalized(s, c) + 1,
                          !.slot = FALSE]

-----------------------------------------------------------------------------
(* The interpreter                                                         *)

Retired(s) == [s EXCEPT !.pc = s.npc, !.npc = s.npc + 1, !.slot = FALSE]
Delayed(s, to) == [s EXCEPT !.pc = s.npc, !.npc = to, !.slot = TRUE]
Went(s, to) == [s EXCEPT !.pc = to, !.npc = to + 1]
Restored(s) == [s EXCEPT !.md = s.ssr.md, !.fd = s.ssr.fd, !.t = s.ssr.t]

(* sh4_execute_instruction                                                 *)
Execute(s, memory) ==
  LET i == prog[s.pc]
      at == IF s.slot THEN s.pc - 1 ELSE s.pc
      Slot(code) == Raise(s, at, IF s.slot THEN "slot " \o code ELSE code)
  IN  CASE i \in Branches \cup {"ldsr"} /\ s.slot -> Raise(s, at, "slot illegal")
        [] i \in {"priv", "ldsr", "rte"} /\ ~s.md -> Slot("illegal")
        [] i \in FpuKind \ {"fpu"} /\ s.fd -> Slot("fpu")
        [] i = "undef" -> Slot("illegal")
        [] i = "store" /\ Fires(s, memory, "fault") -> Raise(s, at, "data")
        [] i = "store" /\ Fires(s, memory, "exit") -> Left(s, at)
        [] i = "trapa" -> Raise(s, s.pc + 1, "trap")
        [] i = "bf" /\ ~s.t -> Went(s, Target)
        [] i = "bfs" /\ ~s.t -> Delayed(s, Target)
        [] i = "bra" -> Delayed(s, Target)
        [] i = "jmp" -> Delayed(s, Register)
        [] i = "rte" -> Delayed(Restored(s), s.spc)
        [] OTHER ->
             Retired(CASE i = "flip" -> [s EXCEPT !.t = ~@]
                       [] i = "store" -> Does(s, Store(s.md))
                       [] i = "fpu" -> Does(s, Fmov(s.sz))
                       [] i \in {"fschg", "ldfp"} -> [s EXCEPT !.sz = ~@]
                       [] i = "ldsr" -> [s EXCEPT !.md = FALSE, !.fd = ~@]
                       [] OTHER -> s)

(* sh4_emulate_run_slice, n instructions of it                             *)
Interpret(s, n, memory) ==
  FoldLeft(LAMBDA r, k : Execute(r, memory), s, [k \in 1 .. n |-> k])

-----------------------------------------------------------------------------
(* The translator.  The code of a block and its run in one: r.s is the     *)
(* machine and the other fields what the translator knows, mode being      *)
(* that in which the code left is to go on; n is what has been charged,    *)
(* how the way the block was left, late a cycle not charged, and odd that  *)
(* the engines are known to differ (see README.md): in a slot, or because  *)
(* the interpreter's FMOV does not ask whether the FPU is disabled.        *)

Begin(s) ==
  [s |-> s, start |-> s.pc, n |-> 0, how |-> "", late |-> 0, odd |-> FALSE,
   mode |-> IF s.md THEN "priv" ELSE "user", size |-> s.sz, checked |-> FALSE]
Believes(r) ==
  \/ r.mode = "unknown"
  \/ (r.mode = "priv") = r.s.md /\ r.size = r.s.sz
IsPriv(r) == r.mode # "user"
LastOf(start) == IF start <= last THEN last ELSE Handler + 1

(* exit_block_exc, after an instruction that would be n more               *)
Aborted(r, at, code, n) ==
  [r EXCEPT !.s = Raise(r.s, at, code), !.n = at - r.start + n, !.how = "exception"]
(* JNE_exc and faults: one cycle, though it may be a branch and its slot.  *)
Faulted(r, at, code, slot) ==
  [Aborted(r, at, code, 1) EXCEPT !.late = IF slot THEN 1 ELSE 0]

Changed(r) == [r EXCEPT !.mode = "unknown"]
Jumped(r, to, n) ==
  [r EXCEPT !.s = Went(r.s, to), !.n = n, !.how = IF r.how = "" THEN "jump" ELSE @]

(* The instruction at c, if it is not one that branches, after the checks. *)
Plain(r, c) ==
  LET i == prog[c]
      b == IF i \in FpuKind THEN [r EXCEPT !.checked = TRUE] ELSE r
  IN  CASE i = "flip" -> [b EXCEPT !.s.t = ~@]
        [] i = "store" -> [b EXCEPT !.s = Does(b.s, Store(IsPriv(b)))]
        [] i = "fpu" -> [b EXCEPT !.s = Does(b.s, Fmov(b.size))]
        [] i = "fschg" -> [b EXCEPT !.s.sz = ~@, !.size = ~@]
        [] i = "ldfp" -> Changed([b EXCEPT !.s.sz = ~@])
        [] i = "ldsr" -> [Changed(b) EXCEPT !.s.md = FALSE, !.s.fd = ~@,
                                            !.checked = FALSE]
        [] OTHER -> b

(* sh4_translate_instruction, of those that do not branch                  *)
Translated(r, c, slot) ==
  LET i == prog[c]
      at == IF slot THEN c - 1 ELSE c
      Illegal == IF slot THEN Aborted(r, at, "slot illegal", 2)
                         ELSE Aborted(r, at, "illegal", 1)
  IN  CASE slot /\ i \in Branches \cup {"ldsr"} -> Illegal
        [] i = "undef" -> Illegal
        [] i \in {"priv", "ldsr"} /\ ~IsPriv(r) -> Illegal
        [] i \in FpuKind /\ ~r.checked /\ r.s.fd ->
             [Faulted(r, at, IF slot THEN "slot fpu" ELSE "fpu", slot) EXCEPT
                !.odd = (i = "fpu")]
        [] OTHER -> Plain(r, c)
Instruction(r, c, slot, memory) ==
  LET at == IF slot THEN c - 1 ELSE c
  IN  IF prog[c] # "store" THEN Translated(r, c, slot)
      ELSE IF Fires(r.s, memory, "fault") THEN Faulted(r, at, "data", slot)
      ELSE IF Fires(r.s, memory, "exit")
           THEN [r EXCEPT !.s = Left(r.s, at), !.how = "exit",
                          !.n = c - r.start + 1]
      ELSE Translated(r, c, slot)

-----------------------------------------------------------------------------
(* Definitions marked "Faulty" are variants of the one that follows; the   *)
(* specification does not use them.  They show that a property can fail.   *)

(* A delayed branch at c, with its slot; a slot in the next page is left   *)
(* to the interpreter (exit_block_emu).                                    *)
Branch(r, c, to, memory) ==
  IF c = LastOf(r.start)
  THEN [r EXCEPT !.s = Execute([r.s EXCEPT !.pc = c + 1, !.npc = to, !.slot = TRUE],
                               memory),
                 !.n = c - r.start + 2, !.how = "emu"]
  ELSE LET after == Instruction(r, c + 1, TRUE, memory)
       IN  IF after.how = "" THEN Jumped(after, to, c + 2 - r.start) ELSE after

(* A conditional one that is not taken: the slot is compiled a second time *)
(* with the beliefs of the first, and as a slot.                           *)
NotTaken(r, c, memory) ==
  LET first == IF prog[c + 1] \in Branches THEN r ELSE Plain(r, c + 1)
      second == [first EXCEPT !.s = r.s]
      plain == prog[c + 1] \in {"flip", "store"} /\ (Stores(r.s) \/ memory = "ok")
  IN  [Branch(IF c = LastOf(r.start) THEN r ELSE second, c, c + 2, memory)
         EXCEPT !.odd = ~plain]

(* RTE.  Faulty: the check for a disabled FPU holds on.                    *)
ReturnChecked(r, c, memory) ==
  Branch(Changed([r EXCEPT !.s = Restored(r.s)]), c, r.s.spc, memory)
Return(r, c, memory) ==
  LET known == Changed([r EXCEPT !.s = Restored(r.s), !.checked = FALSE])
  IN  [Branch(known, c, r.s.spc, memory) EXCEPT
         !.odd = @ \/ (~known.s.md /\ prog[c + 1] \in {"store", "priv"})]

(* The instruction at s.pc, with its slot.                                 *)
Unit(r, memory) ==
  LET c == r.s.pc
      n == c + 1 - r.start
      i == prog[c]
  IN  CASE i = "bf" -> Jumped(r, IF r.s.t THEN c + 1 ELSE Target, n)
        [] i = "bfs" -> IF r.s.t THEN NotTaken(r, c, memory)
                                 ELSE Branch(r, c, Target, memory)
        [] i = "bra" -> Branch(r, c, Target, memory)
        [] i = "jmp" -> Branch(r, c, Register, memory)
        [] i = "rte" -> IF IsPriv(r) THEN Return(r, c, memory)
                                     ELSE Aborted(r, c, "illegal", 1)
        [] i = "trapa" -> [r EXCEPT !.s = Raise(r.s, c + 1, "trap"), !.n = n,
                                    !.how = "trap"]
        [] OTHER ->
             LET after == Instruction(r, c, FALSE, memory)
             IN  IF after.how # "" THEN after
                 ELSE IF i \in {"ldsr", "ldfp"} \/ c = LastOf(r.start)
                      THEN Jumped(after, c + 1, n)
                      ELSE [after EXCEPT !.s = Went(after.s, c + 1)]

(* sh4_translate_basic_block and the run of what it made                   *)
Run(s, memory) ==
  FoldLeft(LAMBDA r, k : IF r.how = "" THEN Unit(r, memory) ELSE r,
           Begin(s), [k \in 1 .. Handler + 1 |-> k])

-----------------------------------------------------------------------------
(* A program that changes T, for a run that is about something else.       *)
Flips ==
  /\ prog = [k \in 1 .. Handler + 1 |-> "flip"]
  /\ last = Cells
  /\ m = Machine(TRUE, FALSE, FALSE, [md |-> TRUE, fd |-> FALSE, t |-> FALSE])
  /\ x = Begin(m)

Init ==
  /\ prog \in {p \o <<"rte", "flip">> : p \in [1 .. Cells -> Kind]}
  /\ last \in LastCells
  /\ \E md, fd, t, smd \in BOOLEAN :
       m = Machine(md, fd, t, [md |-> smd, fd |-> ~smd, t |-> FALSE])
  /\ x = Begin(m)

(* A block is run, and as many instructions.                               *)
RunBlock(memory) ==
  LET from == [x.s EXCEPT !.out = <<>>, !.code = "none"]
  IN  /\ x.s.pc <= Handler
      /\ x' = Run(from, memory)
      /\ m' = Interpret(from, x'.n + x'.late, memory)
      /\ UNCHANGED <<prog, last>>

Next == \E memory \in Memory : RunBlock(memory)

Spec == Init /\ [][Next]_vars

-----------------------------------------------------------------------------
(* Properties                                                              *)

(* A block leaves the machine as the interpreter does that runs as many    *)
(* instructions as the block has charged: the same PC, SPC, modes and      *)
(* effects, wherever the block was left.  (sh4_translate_basic_block,      *)
(* sh4_translate_end_block, sh4_translate_run_recovery)                    *)
BlocksAgree == ~x.odd => x.s = m

(* Code is entered in the mode it was compiled for: the mode a block says  *)
(* it leaves the machine in is the one it is in.  (jump_next_block,        *)
(* exit_block_rel)                                                         *)
ModeIsTrue == x.how = "jump" /\ ~x.odd => Believes(x)

(* A program runs the same in blocks.                                      *)
TranslationTrue == BlocksAgree /\ ModeIsTrue

(* sh4core.in:203 "finalize the delay slot instruction, and re-execute the *)
(* control transfer": a branch goes to its target when the core is left in *)
(* its slot.                                                               *)
BranchIsExecuted == x.how = "exit" /\ prog[1] = "bra" => x.s.pc = Target
=============================================================================
