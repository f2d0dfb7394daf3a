--------------------------------- MODULE Fpu ---------------------------------
(***************************************************************************)
(* Floating point instructions of the SH4 as the interpreter executes them *)
(* (sh4core.in) and as translated x87 and SSE3 code does (sh4x86.in), side *)
(* by side.  What can go wrong is which words of which bank are read and   *)
(* written, in which order operands meet, what is left on the x87 stack,   *)
(* and what the translator believes of the modes and of T.                 *)
(*                                                                         *)
(* A number is the term it was computed by; rounding and the order of sums *)
(* are left out.  A sequence of instructions goes on while the registers   *)
(* hold what they held at first, in one bank or the other; then one more   *)
(* is executed, and the machines are compared.                             *)
(***************************************************************************)
EXTENDS Integers, Bags, SequencesExt, TLC

CONSTANTS
  Regs,           \* numbers of the registers that are operands
  Vectors         \* numbers of the vectors that are operands

VARIABLES
  disabled,       \* SR.FD
  sse3,           \* sse3_enabled
  core,           \* the machine as the interpreter leaves it
  x86             \* the same in translated code, with what the translator believes

vars == <<disabled, sse3, core, x86>>

Index == 0 .. 15
JUNK == 2       \* of the x86 flags: nothing is known
FPUL == <<"fpul">>
RN == <<"rn">>
ZERO == <<"zero">>
ONE == <<"one">>

Binary == {"FADD", "FSUB", "FMUL", "FDIV"}
Unary == {"FNEG", "FABS", "FSQRT"}
Compare == {"FCMP/EQ", "FCMP/GT"}
Plain == {"FMOV", "FMAC", "FSRRA", "FLDI0", "FLDI1", "FLOAT", "FLDS", "FSTS",
          "FCNVSD", "FCNVDS", "FSCA", "FRCHG", "FSCHG", "LDS FPUL", "STS FPUL",
          "STS FPSCR"}
Vector == {"FIPR", "FTRV"}

Orders == {"less", "equal", "more", "unordered"}       \* of FRn and FRm
Ranges == {"below", "within", "above", "unordered"}    \* of FRm, for an integer

-----------------------------------------------------------------------------
(* Terms.  A sum is the bag of what is added, a product the set of factors.*)
Addends(a) == IF a[1] = "sum" THEN a[2] ELSE SetToBag({a})
Plus(a, b) == <<"sum", Addends(a) (+) Addends(b)>>
SumOf(S) == <<"sum", SetToBag(S)>>
Times(a, b) == <<"times", {a, b}>>
Calculated(op, a, b) ==
  CASE op = "FADD" -> Plus(a, b)
    [] op = "FSUB" -> <<"minus", a, b>>
    [] op = "FMUL" -> Times(a, b)
    [] op = "FDIV" -> <<"over", a, b>>

(* The registers: 16 words in each of two banks.  FRx is word x^1, so that *)
(* the two of a double lie as the host has them; odd doubles are those of  *)
(* the other bank.                                                         *)
Word(x) == IF x % 2 = 0 THEN x + 1 ELSE x - 1
Even(x) == 2 * (x \div 2)
FR(c, x) == c.fr[0][Word(x)]
Double(c, b, x) == <<"double", c.fr[b][Even(x)], c.fr[b][Even(x) + 1]>>
SetFR(c, x, v) == [c EXCEPT !.fr[0][Word(x)] = v]
SetDouble(c, b, x, v) ==
  [c EXCEPT !.fr[b][Even(x)] = <<"low", v>>, !.fr[b][Even(x) + 1] = <<"high", v>>]

FirstBank == [b \in 0 .. 1 |-> [i \in Index |-> <<"fr", b, i>>]]
Switched(fr) == [b \in 0 .. 1 |-> fr[1 - b]]

(* sh4_switch_fr_banks, sh4_write_fpscr                                    *)
SwitchBanks(c) == [c EXCEPT !.fr = Switched(@)]
WriteFpscr(c, to) ==
  [IF to.fr # c.fpscr.fr THEN SwitchBanks(c) ELSE c EXCEPT !.fpscr = to]

(* sh4_fsca, sh4_ftrv, which both engines call; i is the first of the      *)
(* words they are given.                                                   *)
Fsca(c, i) ==
  [c EXCEPT !.fr[0][i] = <<"cos", c.fpul>>, !.fr[0][i + 1] = <<"sin", c.fpul>>]
Ftrv(c, i) ==
  LET v == [j \in 0 .. 3 |-> c.fr[0][i + Word(j)]]
      Row(k) == SumOf({Times(c.fr[1][k + 4 * j], v[j]) : j \in 0 .. 3})
  IN  [c EXCEPT !.fr[0][i] = Row(0), !.fr[0][i + 1] = Row(1),
                !.fr[0][i + 2] = Row(2), !.fr[0][i + 3] = Row(3)]

-----------------------------------------------------------------------------
(* The interpreter.  What is no number becomes the least integer, as the   *)
(* conversion of the x86 has it.                                           *)
CoreRead(c, x) == IF c.fpscr.pr THEN Double(c, x % 2, x) ELSE FR(c, x)
CoreWrite(c, x, v) ==
  IF c.fpscr.pr THEN SetDouble(c, x % 2, x, v) ELSE SetFR(c, x, v)

CoreBinary(op, c, m, n) ==
  CoreWrite(c, n, Calculated(op, CoreRead(c, n), CoreRead(c, m)))
CoreUnary(op, c, n) == CoreWrite(c, n, <<op, CoreRead(c, n)>>)

CoreMove(c, m, n) ==
  IF c.fpscr.sz
  THEN [c EXCEPT !.fr[n % 2][Even(n)] = c.fr[m % 2][Even(m)],
                 !.fr[n % 2][Even(n) + 1] = c.fr[m % 2][Even(m) + 1]]
  ELSE SetFR(c, n, FR(c, m))

CorePlain(op, c, m, n) ==
  CASE op = "FMOV"   -> CoreMove(c, m, n)
    [] op = "FMAC"   -> CoreWrite(c, n, Plus(CoreRead(c, n),
                                             Times(CoreRead(c, m), CoreRead(c, 0))))
    [] op = "FSRRA"  -> IF c.fpscr.pr THEN c
                        ELSE SetFR(c, n, <<"over", ONE, <<"FSQRT", FR(c, n)>>>>)
    [] op = "FLDI0"  -> CoreWrite(c, n, ZERO)
    [] op = "FLDI1"  -> CoreWrite(c, n, ONE)
    [] op = "FLOAT"  -> CoreWrite(c, n, <<"float", c.fpul>>)
    [] op = "FLDS"   -> [c EXCEPT !.fpul = FR(c, m)]
    [] op = "FSTS"   -> SetFR(c, n, c.fpul)
    [] op = "FCNVSD" -> IF c.fpscr.pr /\ ~c.fpscr.sz
                        THEN CoreWrite(c, n, c.fpul) ELSE c
    [] op = "FCNVDS" -> IF c.fpscr.pr /\ ~c.fpscr.sz
                        THEN [c EXCEPT !.fpul = CoreRead(c, m)] ELSE c
    [] op = "FSCA"   -> IF c.fpscr.pr THEN c ELSE Fsca(c, Even(n))
    [] op = "FRCHG"  -> SwitchBanks([c EXCEPT !.fpscr.fr = ~@])
    [] op = "FSCHG"  -> [c EXCEPT !.fpscr.sz = ~@]
    [] op = "LDS FPUL"  -> [c EXCEPT !.fpul = c.rn]
    [] op = "STS FPUL"  -> [c EXCEPT !.rn = c.fpul]
    [] op = "STS FPSCR" -> [c EXCEPT !.rn = <<"fpscr", c.fpscr>>]

CoreVector(op, c, m, n) ==
  CASE c.fpscr.pr -> c
    [] ~c.fpscr.pr /\ op = "FIPR" ->
         SetFR(c, 4 * n + 3,
               SumOf({Times(FR(c, 4 * m + i), FR(c, 4 * n + i)) : i \in 0 .. 3}))
    [] ~c.fpscr.pr /\ op = "FTRV" -> Ftrv(c, 4 * n)

CoreTrunc(c, m, range) ==
  [c EXCEPT !.fpul = CASE range = "above" -> <<"max">>
                       [] range = "within" -> <<"trunc", CoreRead(c, m)>>
                       [] range \in {"below", "unordered"} -> <<"min">>]

CoreCompare(op, c, order) ==
  LET holds == IF op = "FCMP/EQ" THEN order = "equal" ELSE order = "more"
  IN  [c EXCEPT !.t = IF holds THEN 1 ELSE 0]

-----------------------------------------------------------------------------
(* The translator.  x87 code is a sequence of small steps on the x87 stack *)
(* (stack), the top of which comes first.  Doubles of FR are those of the  *)
(* first bank; a move of odd doubles reaches the other one.                *)
Push(x, v) == [x EXCEPT !.stack = <<v>> \o @]
Drop(x) == [x EXCEPT !.stack = Tail(@)]
Replaced(x, v) == [x EXCEPT !.stack = <<v>> \o SubSeq(@, 3, Len(@))]
Top(x) == x.stack[1]

X87(x, step) ==
  CASE step[1] = "push_fr"   -> Push(x, FR(x, step[2]))
    [] step[1] = "push_dr"   -> Push(x, Double(x, 0, step[2]))
    [] step[1] = "pop_fr"    -> Drop(SetFR(x, step[2], Top(x)))
    [] step[1] = "pop_dr"    -> Drop(SetDouble(x, 0, step[2], Top(x)))
    [] step[1] = "push_fpul" -> Push(x, x.fpul)
    [] step[1] = "pop_fpul"  -> Drop([x EXCEPT !.fpul = Top(x)])
    [] step[1] = "FILD"      -> Push(x, <<"float", x.fpul>>)
    [] step[1] = "FLD1"      -> Push(x, ONE)
    [] step[1] = "limit"     -> Push(x, <<step[2]>>)
    [] step[1] \in {"FPOP", "FCOMIP"} -> Drop(x)
    [] step[1] = "saturate"  -> [x EXCEPT !.fpul = <<step[2]>>]
    [] step[1] = "FISTP"     -> Drop([x EXCEPT !.fpul = <<"trunc", Top(x)>>])
    [] step[1] \in Unary     -> Push(Drop(x), <<step[1], Top(x)>>)
    [] step[1] \in Binary    -> Replaced(x, Calculated(step[1], x.stack[2], Top(x)))

Run(x, steps) == FoldLeft(X87, x, steps)
Load(x, r) == IF x.prec THEN <<"push_dr", r>> ELSE <<"push_fr", r>>
Store(x, r) == IF x.prec THEN <<"pop_dr", r>> ELSE <<"pop_fr", r>>

X86Binary(op, x, m, n) ==
  Run(x, IF op \in {"FADD", "FMUL"}
         THEN <<Load(x, m), Load(x, n), <<op>>, Store(x, n)>>
         ELSE <<Load(x, n), Load(x, m), <<op>>, Store(x, n)>>)

X86Unary(op, x, n) == Run(x, <<Load(x, n), <<op>>, Store(x, n)>>)

X86Move(x, m, n) ==
  IF x.size
  THEN LET low == x.fr[m % 2][Even(m)]
           high == x.fr[m % 2][Even(m) + 1]
       IN  [x EXCEPT !.fr[n % 2][Even(n) + 1] = high, !.fr[n % 2][Even(n)] = low]
  ELSE SetFR(x, n, FR(x, m))

X86Plain(op, x, m, n) ==
  CASE op = "FMOV"   -> X86Move(x, m, n)
    [] op = "FMAC"   -> Run(x, <<Load(x, 0), Load(x, m), <<"FMUL">>, Load(x, n),
                                 <<"FADD">>, Store(x, n)>>)
    [] op = "FSRRA"  -> IF x.prec THEN x
                        ELSE Run(x, <<<<"FLD1">>, <<"push_fr", n>>, <<"FSQRT">>,
                                      <<"FDIV">>, <<"pop_fr", n>>>>)
    [] op = "FLDI0"  -> IF x.prec THEN x ELSE SetFR(x, n, ZERO)
    [] op = "FLDI1"  -> IF x.prec THEN x ELSE SetFR(x, n, ONE)
    [] op = "FLOAT"  -> Run(x, <<<<"FILD">>, Store(x, n)>>)
    [] op = "FLDS"   -> [x EXCEPT !.fpul = FR(x, m)]
    [] op = "FSTS"   -> SetFR(x, n, x.fpul)
    [] op = "FCNVSD" -> IF ~x.prec THEN x
                        ELSE Run(x, <<<<"push_fpul">>, <<"pop_dr", n>>>>)
    [] op = "FCNVDS" -> IF ~x.prec THEN x
                        ELSE Run(x, <<<<"push_dr", m>>, <<"pop_fpul">>>>)
    [] op = "FSCA"   -> IF x.prec THEN x ELSE Fsca(x, Even(n))
    [] op = "FRCHG"  -> SwitchBanks([x EXCEPT !.fpscr.fr = ~@])
    [] op = "FSCHG"  -> [x EXCEPT !.fpscr.sz = ~@, !.mode.sz = ~@, !.size = ~@]
    [] op = "LDS FPUL"  -> [x EXCEPT !.fpul = x.rn]
    [] op = "STS FPUL"  -> [x EXCEPT !.rn = x.fpul]
    [] op = "STS FPSCR" -> [x EXCEPT !.rn = <<"fpscr", x.fpscr>>]

(* SSE3 registers are four words.                                          *)
Lane == 0 .. 3
Quad(x, b, i) == [k \in Lane |-> x.fr[b][i + k]]
MULPS(p, q) == [k \in Lane |-> Times(p[k], q[k])]
ADDPS(p, q) == [k \in Lane |-> Plus(p[k], q[k])]
HADDPS(p) == [k \in Lane |-> Plus(p[2 * (k % 2)], p[2 * (k % 2) + 1])]
MOVSLDUP(p) == [k \in Lane |-> p[2 * (k \div 2)]]
MOVSHDUP(p) == [k \in Lane |-> p[2 * (k \div 2) + 1]]
MOVLHPS(p) == [k \in Lane |-> p[k % 2]]
MOVHLPS(p) == [k \in Lane |-> p[2 + (k % 2)]]

SseProduct(x, m, n) ==
  LET sum == HADDPS(HADDPS(MULPS(Quad(x, 0, 4 * m), Quad(x, 0, 4 * n))))
  IN  [x EXCEPT !.fr[0][4 * n + 2] = sum[0]]

X87Product(x, m, n) ==
  LET Factor(i) == <<<<"push_fr", 4 * m + i>>, <<"push_fr", 4 * n + i>>, <<"FMUL">>>>
  IN  Run(x, Factor(0) \o Factor(1) \o <<<<"FADD">>>> \o Factor(2) \o <<<<"FADD">>>>
                \o Factor(3) \o <<<<"FADD">>, <<"pop_fr", 4 * n + 3>>>>)

SseTransform(x, n) ==
  LET v == Quad(x, 0, 4 * n)
      v1 == MOVLHPS(MOVSLDUP(v))
      v3 == MOVHLPS(MOVSLDUP(v))
      v0 == MOVLHPS(MOVSHDUP(v))
      v2 == MOVHLPS(MOVSHDUP(v))
      r == ADDPS(ADDPS(MULPS(Quad(x, 1, 4), v1), MULPS(Quad(x, 1, 0), v0)),
                 ADDPS(MULPS(Quad(x, 1, 12), v3), MULPS(Quad(x, 1, 8), v2)))
  IN  [x EXCEPT !.fr[0][4 * n] = r[0], !.fr[0][4 * n + 1] = r[1],
                !.fr[0][4 * n + 2] = r[2], !.fr[0][4 * n + 3] = r[3]]

X86Vector(op, x, m, n) ==
  CASE x.prec -> x
    [] ~x.prec /\ op = "FIPR" /\ sse3 -> SseProduct(x, m, n)
    [] ~x.prec /\ op = "FIPR" /\ ~sse3 -> X87Product(x, m, n)
    [] ~x.prec /\ op = "FTRV" /\ sse3 -> SseTransform(x, n)
    [] ~x.prec /\ op = "FTRV" /\ ~sse3 -> Ftrv(x, 4 * n)

X86Trunc(x, m, range) ==
  LET compared == <<Load(x, m), <<"limit", "min">>, <<"FCOMIP">>>>
  IN  Run(x, CASE range \in {"below", "unordered"} ->
                    compared \o <<<<"saturate", "min">>, <<"FPOP">>>>
               [] range = "above" ->
                    compared \o <<<<"limit", "max">>, <<"FCOMIP">>,
                                  <<"saturate", "max">>, <<"FPOP">>>>
               [] range = "within" ->
                    compared \o <<<<"limit", "max">>, <<"FCOMIP">>, <<"FISTP">>>>)

(* FCOMIP compares FRn, on top, with FRm.  What is no number sets the zero *)
(* flag, the parity flag and the carry.                                    *)
X86Compare(op, x, m, n, order) ==
  LET zero == order \in {"equal", "unordered"}
      carry == order \in {"less", "unordered"}
      above == IF ~zero /\ ~carry THEN 1 ELSE 0
      after == Run(x, <<Load(x, m), Load(x, n), <<"FCOMIP">>, <<"FPOP">>>>)
  IN  IF op = "FCMP/EQ"
      THEN [after EXCEPT !.t = IF zero /\ order # "unordered" THEN 1 ELSE 0]
      ELSE [after EXCEPT !.t = above, !.flags = above]

(* Instructions whose code disturbs the x86 flags.                         *)
Disturbs(op, x) ==
  \/ op \in {"FRCHG", "FSCHG", "FTRC", "FCMP/EQ"}
  \/ op \in {"FLDI0", "FSCA"} /\ ~x.prec
  \/ op = "FTRV" /\ ~x.prec /\ ~sse3

Disturbed(op, x) == IF Disturbs(op, x) THEN [x EXCEPT !.flags = JUNK] ELSE x

(* tstate after an instruction.  Flags that nobody knows of are not kept.  *)
Forgets == {"FRCHG", "FSCHG", "FTRC", "FCMP/EQ", "FLDI0", "FSCA", "FTRV"}

Believed(op, x) ==
  CASE op = "FCMP/GT" -> [x EXCEPT !.tstate = "A"]
    [] op \in Forgets -> [x EXCEPT !.tstate = "NONE", !.flags = JUNK]
    [] OTHER -> x

(* check_fpuen: once in a block.                                           *)
Checked(x) ==
  IF x.checked THEN x
  ELSE [x EXCEPT !.checked = TRUE, !.tstate = "NONE", !.flags = JUNK]

-----------------------------------------------------------------------------
Modes == [fr : BOOLEAN, sz : BOOLEAN, pr : BOOLEAN]
Machine(fpscr, t) ==
  [fr |-> FirstBank, fpul |-> FPUL, rn |-> RN, fpscr |-> fpscr, t |-> t,
   outcome |-> "runs"]
Translated(fpscr, t) ==
  Machine(fpscr, t) @@
  [stack |-> <<>>, mode |-> [sz |-> fpscr.sz, pr |-> fpscr.pr],
   prec |-> fpscr.pr, size |-> fpscr.sz,
   checked |-> FALSE, tstate |-> "NONE", flags |-> JUNK]

Init ==
  /\ disabled \in BOOLEAN
  /\ sse3 \in BOOLEAN
  /\ \E fpscr \in Modes, t \in {0, 1} :
       /\ core = Machine(fpscr, t)
       /\ x86 = Translated(fpscr, t)

(* The registers hold what they held at first.                             *)
Fresh(c) ==
  /\ c.fr \in {FirstBank, Switched(FirstBank)}
  /\ c.fpul = FPUL
  /\ c.rn = RN
  /\ c.outcome = "runs"

(* Where the SH4's behaviour is defined.  Elsewhere the engines differ:    *)
(* doubles have even numbers, FLDI0 and FLDI1 are for single precision,    *)
(* and the conversions are not for SZ with PR.  FMOV in the interpreter    *)
(* does not ask whether the FPU is disabled.                               *)
Doubles ==
  Binary \cup Unary \cup Compare \cup {"FMAC", "FLOAT", "FTRC", "FCNVSD", "FCNVDS"}
Defined(op, m, n) ==
  /\ core.fpscr.pr =>
       /\ op \in Doubles => m % 2 = 0 /\ n % 2 = 0
       /\ op \notin {"FLDI0", "FLDI1"}
       /\ core.fpscr.sz => op \notin {"FCNVSD", "FCNVDS"}
  /\ disabled => op # "FMOV"

(* One instruction in both engines: c and x are what it leaves behind.     *)
Step(op, c, x) ==
  /\ Fresh(core)
  /\ IF disabled
     THEN /\ core' = [core EXCEPT !.outcome = "disabled"]
          /\ x86' = [Checked(x86) EXCEPT !.outcome = "disabled"]
     ELSE /\ core' = c
          /\ x86' = Believed(op, Disturbed(op, x))
  /\ UNCHANGED <<disabled, sse3>>

Execute(op, m, n) ==
  /\ Defined(op, m, n)
  /\ \/ /\ op \in Binary
        /\ Step(op, CoreBinary(op, core, m, n), X86Binary(op, Checked(x86), m, n))
     \/ /\ op \in Unary
        /\ Step(op, CoreUnary(op, core, n), X86Unary(op, Checked(x86), n))
     \/ /\ op \in Plain
        /\ Step(op, CorePlain(op, core, m, n), X86Plain(op, Checked(x86), m, n))

ExecuteVector(op, m, n) ==
  Step(op, CoreVector(op, core, m, n), X86Vector(op, Checked(x86), m, n))

ExecuteCompare(op, m, n, order) ==
  /\ Defined(op, m, n)
  /\ m = n => order \in {"equal", "unordered"}
  /\ Step(op, CoreCompare(op, core, order),
              X86Compare(op, Checked(x86), m, n, order))

ExecuteTrunc(m, range) ==
  /\ Defined("FTRC", m, m)
  /\ Step("FTRC", CoreTrunc(core, m, range), X86Trunc(Checked(x86), m, range))

(* The block ends, and another one is entered for the modes there are.     *)
Entered(x) ==
  [x EXCEPT !.prec = x.mode.pr, !.size = x.mode.sz, !.checked = FALSE,
            !.tstate = "NONE", !.flags = JUNK]
NextBlock ==
  /\ Fresh(core)
  /\ x86' = Entered(x86)
  /\ UNCHANGED <<disabled, sse3, core>>

(* LDS Rm, FPSCR ends a block.                                             *)
LoadFpscr(to) ==
  /\ Fresh(core)
  /\ IF disabled
     THEN /\ core' = [core EXCEPT !.outcome = "disabled"]
          /\ x86' = [Checked(x86) EXCEPT !.outcome = "disabled"]
     ELSE /\ core' = WriteFpscr(core, to)
          /\ x86' = Entered([WriteFpscr(x86, to)
                               EXCEPT !.mode = [sz |-> to.sz, pr |-> to.pr]])
  /\ UNCHANGED <<disabled, sse3>>

Next ==
  \/ \E op \in Binary \cup Unary \cup Plain, m \in Regs, n \in Regs :
       Execute(op, m, n)
  \/ \E op \in Vector, m \in Vectors, n \in Vectors : ExecuteVector(op, m, n)
  \/ \E op \in Compare, m \in Regs, n \in Regs, order \in Orders :
       ExecuteCompare(op, m, n, order)
  \/ \E m \in Regs, range \in Ranges : ExecuteTrunc(m, range)
  \/ \E to \in Modes : LoadFpscr(to)
  \/ NextBlock

Spec == Init /\ [][Next]_vars

-----------------------------------------------------------------------------
(* After any sequence of mode changes, comparisons and ends of blocks, one *)
(* more instruction leaves the same words in the same places in both       *)
(* engines, or is refused by both.  (sh4core.in, sh4x86.in)                *)
SameRegisters ==
  /\ x86.outcome = core.outcome
  /\ core.outcome = "runs" =>
       /\ x86.fr = core.fr
       /\ x86.fpul = core.fpul
       /\ x86.rn = core.rn
       /\ x86.fpscr = core.fpscr
       /\ x86.t = core.t

(* The translator's code leaves nothing on the x87 stack, and what the     *)
(* translator believes is so: of the modes, also after FSCHG within a      *)
(* block, and of T while a condition of the flags stands for it.           *)
(* (FSCHG, FCMP/GT, sh4_translate_begin_block)                             *)
BeliefsTrue ==
  /\ x86.stack = <<>>
  /\ x86.prec = x86.fpscr.pr /\ x86.size = x86.fpscr.sz
  /\ x86.mode = [sz |-> x86.fpscr.sz, pr |-> x86.fpscr.pr]
  /\ x86.tstate = "A" => x86.flags = x86.t

FpuTrue == SameRegisters /\ BeliefsTrue
=============================================================================
