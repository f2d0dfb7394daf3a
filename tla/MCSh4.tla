-------------------------------- MODULE MCSh4 --------------------------------
(***************************************************************************)
(* The SH4 core for TLC: the TLB, the integer instructions, those that use *)
(* memory, those of the FPU and the blocks of the translator; and the      *)
(* instructions of the other core, the ARM.  They share no state, so one   *)
(* run takes them side by side: part is the one that moves, the others     *)
(* stay at one initial state.                                              *)
(*                                                                         *)
(* Mmu: two entries, two pages and two address spaces; mappings of a page  *)
(* that one space may use, and privileged ones of both pages for all.      *)
(* Nothing is claimed of tangled maps, and only an MMUCR write untangles   *)
(* them, as it does from any entries: no other step is taken from there.   *)
(* Alu: registers of four bits, operands at the boundaries of every share  *)
(* of a register, and every division whose quotient fits.                  *)
(* Access: addresses on, before and beyond the boundary of the two pages,  *)
(* misaligned ones and the store queue; pages that are missing, clean or   *)
(* for privileged mode only.                                               *)
(* Translate: every program of three instructions, the last of which may   *)
(* be in the next page, entered in every mode.  In user mode RTE is        *)
(* refused, and the exception sets SSR: one SSR is enough there.           *)
(* Fpu: even and odd registers and two vectors, in every mode.             *)
(* ArmOps: words of four bits; distances of nothing, within a word, of     *)
(* one and of more; sums that carry, overflow, and do neither.             *)
(***************************************************************************)
EXTENDS Alu, TLC

VARIABLES
  part,
  utlb, priv, user, asid, at, sv, tangled,                            \* Mmu
  ins, before, coreRun, x86Run, tries,                                \* Access
  disabled, sse3, coreFp, x86Fp,                                      \* Fpu
  prog, last, m, x,                                                   \* Translate
  opInsn, opCode, opManual                                            \* ArmOps

Shape(p, n, shared, u) == [vpn |-> p, size |-> n, share |-> shared, usermode |-> u]

Tlb == INSTANCE Mmu WITH
         EntryCount <- 2, Page <- {0, 1}, Asid <- {0, 1},
         Shapes <- {Shape(0, 1, FALSE, TRUE), Shape(0, 2, TRUE, FALSE)}

Three(a, b, c) == (0 :> a) @@ (1 :> b) @@ (2 :> c)
Two(a, b) == (0 :> a) @@ (1 :> b)
Loads == INSTANCE Access WITH
           core <- coreRun, x86 <- x86Run,
           Registers <- {Three(0, 4, 8), Three(4, 8, 4), Three(0, 7, 6),
                         Three(4, 6, 16), Three(8, 16, 4)},
           Tlbs <- {Two("none", "none"), Two("clean", "none"), Two("dirty", "dirty"),
                    Two("priv", "dirty"), Two("dirty", "priv")}

Floats == INSTANCE Fpu WITH
            core <- coreFp, x86 <- x86Fp, Regs <- {0, 1, 2}, Vectors <- {0, 1}

Instructions == {"flip", "store", "fpu", "fschg", "priv", "ldsr", "ldfp", "undef",
                 "bf", "bfs", "bra", "jmp", "rte", "trapa"}
Blocks == INSTANCE Translate WITH
            Cells <- 3, Kind <- Instructions, LastCells <- {2, 3}

Ops == INSTANCE ArmOps WITH
         W <- 4, Operands <- {0, 1, 7, 8, 15},
         insn <- opInsn, code <- opCode, manual <- opManual

ASSUME OpsAssumption == Ops!ArmOpsAssumption

TlbStays == UNCHANGED <<utlb, priv, user, asid, at, sv, tangled>>
IntsStay == UNCHANGED <<job, core, x86>>
LoadsStay == UNCHANGED <<ins, before, coreRun, x86Run, tries>>
FloatsStay == UNCHANGED <<disabled, sse3, coreFp, x86Fp>>
BlocksStay == UNCHANGED <<prog, last, m, x>>
OpsStay == UNCHANGED <<opInsn, opCode, opManual>>

(* The FPU's machines are large: they are there in their own part only.    *)
NoFpu == disabled = TRUE /\ sse3 = FALSE /\ coreFp = <<>> /\ x86Fp = <<>>

BenchInit ==
  /\ part \in {"mmu", "alu", "access", "fpu", "translate", "armops"}
  /\ Init
  /\ IF part = "alu" THEN job.kind = "free" => core.r["R1"] # 9 ELSE job.kind = "mac"
  /\ Tlb!Init
  /\ part # "mmu" => utlb[0].size = 1
  /\ IF part = "access" THEN Loads!Init ELSE Loads!Idle
  /\ IF part = "fpu" THEN Floats!Init ELSE NoFpu
  /\ IF part = "translate" THEN Blocks!Init ELSE Blocks!Flips
  /\ part = "translate" => m.md \/ m.ssr.md
  /\ Ops!Init

(* A division that is done stays so.                                       *)
Finished == job.kind = "div" /\ job.step > LastStep /\ IntsStay

(* An instruction that is done or refused stays so.                        *)
Answered == Loads!Settled(coreRun) /\ Loads!Settled(x86Run) /\ LoadsStay

(* One that changes more than modes, or is refused, is the last.           *)
Compared == ~Floats!Fresh(coreFp) /\ FloatsStay

(* A program that has run past its end stays there.                        *)
RanOut == x.s.pc > Blocks!Handler /\ BlocksStay

(* One of the ARM's, executed twice, is compared and done with.            *)
Executed == ~Ops!Idle /\ OpsStay

BenchNext ==
  /\ part' = part
  /\ \/ /\ part = "mmu" /\ Tlb!Next /\ (tangled => ~tangled')
        /\ IntsStay /\ LoadsStay /\ FloatsStay /\ BlocksStay /\ OpsStay
     \/ /\ part = "alu" /\ (Next \/ Finished)
        /\ TlbStays /\ LoadsStay /\ FloatsStay /\ BlocksStay /\ OpsStay
     \/ /\ part = "access" /\ (Loads!Next \/ Answered)
        /\ TlbStays /\ IntsStay /\ FloatsStay /\ BlocksStay /\ OpsStay
     \/ /\ part = "fpu" /\ (Floats!Next \/ Compared)
        /\ TlbStays /\ IntsStay /\ LoadsStay /\ BlocksStay /\ OpsStay
     \/ /\ part = "translate" /\ (Blocks!Next \/ RanOut)
        /\ TlbStays /\ IntsStay /\ LoadsStay /\ FloatsStay /\ OpsStay
     \/ /\ part = "armops" /\ (Ops!Next \/ Executed)
        /\ TlbStays /\ IntsStay /\ LoadsStay /\ FloatsStay /\ BlocksStay

BenchSpec ==
  BenchInit /\ [][BenchNext]_<<part, Tlb!vars, vars, Loads!vars, Floats!vars, Blocks!vars,
                               Ops!vars>>

(* The properties, stated in their modules.  A part that stays is in a     *)
(* state its own run starts from.                                          *)
MapsAreSearches == part = "mmu" => Tlb!MapsAreSearches
InstructionsTrue ==
  /\ part = "alu" => AluTrue
  /\ part = "access" => Loads!AccessTrue
  /\ part = "fpu" => Floats!FpuTrue
  /\ part = "armops" => Ops!OperationsTrue
TranslationTrue == part = "translate" => Blocks!TranslationTrue
=============================================================================
