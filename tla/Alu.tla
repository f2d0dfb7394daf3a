--------------------------------- MODULE Alu ---------------------------------
(***************************************************************************)
(* Integer instructions of the SH4 as the interpreter executes them        *)
(* (sh4core.in) and as translated x86 code does (sh4x86.in), side by side. *)
(* The translator keeps the T bit in memory and remembers which condition  *)
(* of the x86 flags equals it (tstate), so that the next instruction need  *)
(* not load it; an instruction that disturbs the flags has to forget that. *)
(*                                                                         *)
(* Registers have W bits, and what is 8, 16 or 48 bits in the code is the  *)
(* same share of them here.  A job is a free sequence of instructions on   *)
(* Rn = R0 and Rm = R0 or R1, one of multiplications into MAC, or the      *)
(* division of a double word that the SH4's manual gives: ROTCL and DIV1   *)
(* by turns.                                                               *)
(***************************************************************************)
EXTENDS Integers

CONSTANTS
  W,              \* bits of a register
  Operands        \* values of R1, and of what MAC reads from memory

ASSUME WidthAssumption == W % 4 = 0
ASSUME OperandsAssumption == Operands \subseteq 0 .. 2 ^ W - 1

VARIABLES
  job,            \* the job, and for a division how far it is
  core,           \* registers and bits as the interpreter leaves them
  x86             \* the same in translated code, with the flags and tstate

vars == <<job, core, x86>>

Size == 2 ^ W
Value == 0 .. Size - 1
B(condition) == IF condition THEN 1 ELSE 0
Top(v) == v \div 2 ^ (W - 1)
Signed(v) == IF Top(v) = 1 THEN v - Size ELSE v
Half(v) == v % 2 ^ (W \div 2)
SignedHalf(v) ==
  IF 2 * Half(v) >= 2 ^ (W \div 2) THEN Half(v) - 2 ^ (W \div 2) ELSE Half(v)
Shl(v, k) == (v * 2 ^ k) % Size
Shr(v, k) == v \div 2 ^ k
Sar(v, k) == (Signed(v) \div 2 ^ k) % Size
Byte(v, k) == (v \div 2 ^ (k * (W \div 4))) % 2 ^ (W \div 4)
Bit(v, k) == (v \div 2 ^ k) % 2
Disjoint(a, b) == \A k \in 0 .. W - 1 : Bit(a, k) = 0 \/ Bit(b, k) = 0

Shifts == {"ROTL", "ROTR", "ROTCL", "ROTCR", "SHLL", "SHLR", "SHAR"}
Dynamic == {"SHAD", "SHLD"}
Compares == {"EQ", "GE", "GT", "HI", "HS", "PL", "PZ", "STR", "TST"}
Sums == {"ADD", "ADDC", "ADDV", "SUB", "SUBC", "SUBV", "NEG", "NEGC", "DT"}
Steps == {"DIV0U", "DIV0S", "DIV1"}
Moves == {"MOV", "MOVT", "EXTU.W", "EXTS.W", "SWAP.W", "CLRT", "SETT"}
OfOne == Shifts \cup {"PL", "PZ", "DT", "DIV0U", "MOVT", "CLRT", "SETT"}
OfTwo == (Dynamic \cup Compares \cup Sums \cup Steps \cup Moves) \ OfOne
Products == {"DMULU.L", "DMULS.L", "MUL.L", "MULU.W", "MULS.W", "MAC.L", "MAC.W"}

-----------------------------------------------------------------------------
(* The interpreter.  c has Rn (n), Rm (m), T, Q, and M (sign).             *)

CoreShift(op, c) ==
  LET out == IF op \in {"ROTL", "ROTCL", "SHLL"} THEN Top(c.n) ELSE c.n % 2
      n == CASE op = "ROTL"  -> Shl(c.n, 1) + out
             [] op = "ROTCL" -> Shl(c.n, 1) + c.t
             [] op = "SHLL"  -> Shl(c.n, 1)
             [] op = "ROTR"  -> Shr(c.n, 1) + out * 2 ^ (W - 1)
             [] op = "ROTCR" -> Shr(c.n, 1) + c.t * 2 ^ (W - 1)
             [] op = "SHAR"  -> Sar(c.n, 1)
             [] op = "SHLR"  -> Shr(c.n, 1)
  IN  [c EXCEPT !.n = n, !.t = out]

CoreDynamic(op, c) ==
  LET count == c.m % W
      right == (W - 1 - count) + 1
      n == IF Top(c.m) = 0 THEN Shl(c.n, count)
           ELSE IF count = 0 THEN IF op = "SHAD" THEN Sar(c.n, W - 1) ELSE 0
           ELSE IF op = "SHAD" THEN Sar(c.n, right) ELSE Shr(c.n, right)
  IN  [c EXCEPT !.n = n]

CoreCompare(op, c) ==
  LET t == CASE op = "EQ"  -> c.m = c.n
             [] op = "GE"  -> Signed(c.n) >= Signed(c.m)
             [] op = "GT"  -> Signed(c.n) > Signed(c.m)
             [] op = "HI"  -> c.n > c.m
             [] op = "HS"  -> c.n >= c.m
             [] op = "PL"  -> Signed(c.n) > 0
             [] op = "PZ"  -> Signed(c.n) >= 0
             [] op = "STR" -> \E k \in 0 .. 3 : Byte(c.n, k) = Byte(c.m, k)
             [] op = "TST" -> Disjoint(c.n, c.m)
  IN  [c EXCEPT !.t = B(t)]

CoreNegc(c) ==
  LET tmp == (0 - c.m) % Size
      n == (tmp - c.t) % Size
  IN  [c EXCEPT !.n = n, !.t = B(0 < tmp \/ tmp < n)]

CoreSum(op, c) ==
  LET plus == (c.n + c.m) % Size
      minus == (c.n - c.m) % Size
      plusT == (c.n + c.m + c.t) % Size
      minusT == (c.n - c.m - c.t) % Size
  IN  CASE op = "ADD"  -> [c EXCEPT !.n = plus]
        [] op = "ADDC" -> [c EXCEPT !.n = plusT,
                             !.t = B(plusT < c.n \/ (plusT = c.n /\ c.t # 0))]
        [] op = "ADDV" -> [c EXCEPT !.n = plus,
                             !.t = B(Top(c.n) = Top(c.m) /\ Top(c.n) # Top(plus))]
        [] op = "SUB"  -> [c EXCEPT !.n = minus]
        [] op = "SUBC" -> [c EXCEPT !.n = minusT,
                             !.t = B(minusT > c.n \/ (minusT = c.n /\ c.t = 1))]
        [] op = "SUBV" -> [c EXCEPT !.n = minus,
                             !.t = B(Top(c.n) # Top(c.m) /\ Top(c.n) # Top(minus))]
        [] op = "NEG"  -> [c EXCEPT !.n = (0 - c.m) % Size]
        [] op = "NEGC" -> CoreNegc(c)
        [] op = "DT"   -> [c EXCEPT !.n = (c.n - 1) % Size, !.t = B(c.n = 1)]

(* One step of a non-restoring division.                                   *)
CoreStep(op, c) ==
  LET new == Shl(c.n, 1) + c.t
      adds == c.q # c.sign
      n == IF adds THEN (new + c.m) % Size ELSE (new - c.m) % Size
      over == IF adds THEN B(n < new) ELSE B(n > new)
      q == (Top(c.n) + c.sign + over) % 2
  IN  CASE op = "DIV0U" -> [c EXCEPT !.sign = 0, !.q = 0, !.t = 0]
        [] op = "DIV0S" -> [c EXCEPT !.q = Top(c.n), !.sign = Top(c.m),
                                     !.t = B(Top(c.n) # Top(c.m))]
        [] op = "DIV1"  -> [c EXCEPT !.n = n, !.q = q, !.t = B(q = c.sign)]

CoreMove(op, c) ==
  CASE op = "MOV"    -> [c EXCEPT !.n = c.m]
    [] op = "MOVT"   -> [c EXCEPT !.n = c.t]
    [] op = "EXTU.W" -> [c EXCEPT !.n = Half(c.m)]
    [] op = "EXTS.W" -> [c EXCEPT !.n = SignedHalf(c.m) % Size]
    [] op = "SWAP.W" -> [c EXCEPT !.n = Shr(c.m, W \div 2) + Shl(c.m, W \div 2)]
    [] op = "CLRT"   -> [c EXCEPT !.t = 0]
    [] op = "SETT"   -> [c EXCEPT !.t = 1]

Core(op, c) ==
  CASE op \in Shifts   -> CoreShift(op, c)
    [] op \in Dynamic  -> CoreDynamic(op, c)
    [] op \in Compares -> CoreCompare(op, c)
    [] op \in Sums     -> CoreSum(op, c)
    [] op \in Steps    -> CoreStep(op, c)
    [] op \in Moves    -> CoreMove(op, c)

(* MAC is a double word; with S set, MAC.L saturates it at three quarters  *)
(* of its width, MAC.W its low word at a word, with a mark in the high one.*)
Wide == Size * Size
SignedWide(v) == IF 2 * v >= Wide THEN v - Wide ELSE v
Low(mac) == mac % Size
High(mac) == mac \div Size
Limit == 2 ^ (3 * (W \div 2) - 1)

Saturated(v) ==
  CASE v < - Limit -> - Limit
    [] v > Limit - 1 -> Limit - 1
    [] OTHER -> v

CoreProduct(op, c, n, m) ==
  LET words == SignedHalf(n) * SignedHalf(m)
      sum == SignedWide((Signed(n) * Signed(m) + c.mac) % Wide)
      low == Signed(Low(c.mac)) + words
      WithLow(v) == High(c.mac) * Size + (v % Size)
  IN  CASE op = "DMULU.L" -> n * m
        [] op = "DMULS.L" -> (Signed(n) * Signed(m)) % Wide
        [] op = "MUL.L"   -> WithLow(n * m)
        [] op = "MULU.W"  -> WithLow(Half(n) * Half(m))
        [] op = "MULS.W"  -> WithLow(words)
        [] op = "MAC.L"   -> IF c.s = 1 THEN Saturated(sum) % Wide ELSE sum % Wide
        [] op = "MAC.W"   ->
             IF c.s = 0 THEN (c.mac + words) % Wide
             ELSE IF low >= Size \div 2 THEN Size + Size \div 2 - 1
             ELSE IF low < - (Size \div 2) THEN Size + Size \div 2
             ELSE WithLow(low)

-----------------------------------------------------------------------------
(* Translated code.  x has what c has, the flags and tstate.               *)

Flags(c, v, o) == [c |-> c, z |-> B(v = 0), s |-> Top(v), o |-> o]
AddFlags(a, b, k) ==
  LET v == (a + b + k) % Size
  IN  Flags((a + b + k) \div Size, v, B(Top(a) = Top(b) /\ Top(a) # Top(v)))
SubFlags(a, b, k) ==
  LET v == (a - b - k) % Size
  IN  Flags(B(a < b + k), v, B(Top(a) # Top(b) /\ Top(a) # Top(v)))
Lost == [c |-> 2, z |-> 2, s |-> 2, o |-> 2]
OnlyCarry(c) == [Lost EXCEPT !.c = c]
OnlyZero(z) == [Lost EXCEPT !.z = z]

Holds(cond, f) ==
  CASE cond = "O"  -> f.o = 1
    [] cond = "C"  -> f.c = 1
    [] cond = "E"  -> f.z = 1
    [] cond = "NE" -> f.z = 0
    [] cond = "G"  -> f.z = 0 /\ f.s = f.o
    [] cond = "GE" -> f.s = f.o
    [] cond = "A"  -> f.c = 0 /\ f.z = 0
    [] cond = "AE" -> f.c = 0

(* SETcc: T is a condition of the flags, and tstate says which.            *)
SetT(x, n, f, cond) ==
  [x EXCEPT !.n = n, !.t = B(Holds(cond, f)), !.flags = f, !.ts = cond]
Forget(x, n) == [x EXCEPT !.n = n, !.flags = Lost, !.ts = "NONE"]

(* LDC_t: T as the carry.  Faulty: whatever condition T is known to be, the*)
(* carry is taken for it.                                                  *)
CarryFromAnyCondition(x) == IF x.ts = "NONE" THEN x.t ELSE x.flags.c
CarryT(x) == IF x.ts = "C" THEN x.flags.c ELSE x.t

X86Shift(op, x) ==
  LET k == CarryT(x)
      out == IF op \in {"ROTL", "ROTCL", "SHLL"} THEN Top(x.n) ELSE x.n % 2
      n == CASE op = "ROTL"  -> Shl(x.n, 1) + Top(x.n)
             [] op = "ROTCL" -> Shl(x.n, 1) + k
             [] op = "SHLL"  -> Shl(x.n, 1)
             [] op = "ROTR"  -> Shr(x.n, 1) + (x.n % 2) * 2 ^ (W - 1)
             [] op = "ROTCR" -> Shr(x.n, 1) + k * 2 ^ (W - 1)
             [] op = "SHAR"  -> Sar(x.n, 1)
             [] op = "SHLR"  -> Shr(x.n, 1)
  IN  SetT(x, n, OnlyCarry(out), "C")

X86Dynamic(op, x) ==
  LET k == (0 - x.m) % W
      n == IF Signed(x.m) >= 0 THEN Shl(x.n, x.m % W)
           ELSE IF op = "SHAD" THEN Sar(x.n, IF k = 0 THEN W - 1 ELSE k)
           ELSE IF k = 0 THEN 0 ELSE Shr(x.n, k)
  IN  Forget(x, n)

X86Compare(op, x) ==
  LET f == SubFlags(x.n, x.m, 0)
      f0 == SubFlags(x.n, 0, 0)
      equal == B(\E k \in 0 .. 3 : Byte(x.n, k) = Byte(x.m, k))
  IN  CASE op = "EQ"  -> SetT(x, x.n, f, "E")
        [] op = "GE"  -> SetT(x, x.n, f, "GE")
        [] op = "GT"  -> SetT(x, x.n, f, "G")
        [] op = "HI"  -> SetT(x, x.n, f, "A")
        [] op = "HS"  -> SetT(x, x.n, f, "AE")
        [] op = "PL"  -> SetT(x, x.n, f0, "G")
        [] op = "PZ"  -> SetT(x, x.n, f0, "GE")
        [] op = "STR" -> SetT(x, x.n, OnlyZero(equal), "E")
        [] op = "TST" -> SetT(x, x.n, OnlyZero(B(Disjoint(x.n, x.m))), "E")

X86Sum(op, x) ==
  LET k == CarryT(x)
      plus == (x.n + x.m) % Size
      minus == (x.n - x.m) % Size
  IN  CASE op = "ADD"  -> Forget(x, plus)
        [] op = "ADDC" -> SetT(x, (plus + k) % Size, AddFlags(x.n, x.m, k), "C")
        [] op = "ADDV" -> SetT(x, plus, AddFlags(x.n, x.m, 0), "O")
        [] op = "SUB"  -> Forget(x, minus)
        [] op = "SUBC" -> SetT(x, (minus - k) % Size, SubFlags(x.n, x.m, k), "C")
        [] op = "SUBV" -> SetT(x, minus, SubFlags(x.n, x.m, 0), "O")
        [] op = "NEG"  -> Forget(x, (0 - x.m) % Size)
        [] op = "NEGC" -> SetT(x, (0 - x.m - x.t) % Size, SubFlags(0, x.m, x.t), "C")
        [] op = "DT"   -> SetT(x, (x.n - 1) % Size, AddFlags(x.n, Size - 1, 0), "E")

X86Step(op, x) ==
  LET out == Top(x.n)
      new == Shl(x.n, 1) + CarryT(x)
      adds == x.q # x.sign
      n == IF adds THEN (new + x.m) % Size ELSE (new - x.m) % Size
      over == IF adds THEN AddFlags(new, x.m, 0).c ELSE SubFlags(new, x.m, 0).c
      differs == B(over # out)
  IN  CASE op = "DIV0U" ->
             [SetT(x, x.n, Flags(0, 0, 0), "C") EXCEPT !.q = 0, !.sign = 0]
        [] op = "DIV0S" ->
             [SetT(x, x.n, SubFlags(Top(x.n), Top(x.m), 0), "NE")
                EXCEPT !.q = Top(x.n), !.sign = Top(x.m)]
        [] op = "DIV1" ->
             [Forget(x, n) EXCEPT !.q = B(differs # x.sign), !.t = 1 - differs]

X86Move(op, x) ==
  CASE op = "MOV"    -> [x EXCEPT !.n = x.m]
    [] op = "MOVT"   -> [x EXCEPT !.n = x.t]
    [] op = "EXTU.W" -> [x EXCEPT !.n = Half(x.m)]
    [] op = "EXTS.W" -> [x EXCEPT !.n = SignedHalf(x.m) % Size]
    [] op = "SWAP.W" -> Forget(x, Shr(x.m, W \div 2) + Shl(x.m, W \div 2))
    [] op = "CLRT"   -> SetT(x, x.n, [x.flags EXCEPT !.c = 0], "C")
    [] op = "SETT"   -> SetT(x, x.n, [x.flags EXCEPT !.c = 1], "C")

X86(op, x) ==
  CASE op \in Shifts   -> X86Shift(op, x)
    [] op \in Dynamic  -> X86Dynamic(op, x)
    [] op \in Compares -> X86Compare(op, x)
    [] op \in Sums     -> X86Sum(op, x)
    [] op \in Steps    -> X86Step(op, x)
    [] op \in Moves    -> X86Move(op, x)

(* IMUL and MUL give a double word; the sums go into the halves of MAC.    *)
X86Product(op, x, n, m) ==
  LET words == (SignedHalf(n) * SignedHalf(m)) % Wide
      low == (Low(x.mac) + words) % Size
      sum == SignedWide((x.mac + ((Signed(n) * Signed(m)) % Wide)) % Wide)
      WithLow(v) == High(x.mac) * Size + (v % Size)
  IN  CASE op = "DMULU.L" -> n * m
        [] op = "DMULS.L" -> (Signed(n) * Signed(m)) % Wide
        [] op = "MUL.L"   -> WithLow(n * m)
        [] op = "MULU.W"  -> WithLow(Half(n) * Half(m))
        [] op = "MULS.W"  -> WithLow((SignedHalf(n) % Size) * (SignedHalf(m) % Size))
        [] op = "MAC.L"   -> IF x.s = 1 THEN Saturated(sum) % Wide ELSE sum % Wide
        [] op = "MAC.W"   ->
             IF x.s = 0 THEN (x.mac + words) % Wide
             ELSE IF AddFlags(Low(x.mac), words % Size, 0).o = 0 THEN WithLow(low)
             ELSE IF Top(low) = 1 THEN Size + Size \div 2 - 1
             ELSE Size + Size \div 2

(* LOAD_t, before a branch: T is compared with 1 unless a condition is it. *)
LoadT(x) ==
  IF x.ts = "NONE" THEN [x EXCEPT !.flags = SubFlags(x.t, 1, 0), !.ts = "E"] ELSE x

-----------------------------------------------------------------------------
(* Jobs                                                                    *)

Reg == {"R0", "R1", "R2"}
Bits == [t : {0, 1}, q : {0, 1}, sign : {0, 1}, s : {0, 1}]
Blank(r0, r1, r2) ==
  [r |-> [g \in Reg |-> CASE g = "R0" -> r0 [] g = "R1" -> r1 [] g = "R2" -> r2],
   t |-> 0, q |-> 0, sign |-> 0, s |-> 0, mac |-> 0]
Translated(c) ==
  [r |-> c.r, t |-> c.t, q |-> c.q, sign |-> c.sign, s |-> c.s, mac |-> c.mac,
   flags |-> Lost, ts |-> "NONE"]

Begin(j, r0, r1, r2) ==
  /\ job = j
  /\ core = Blank(r0, r1, r2)
  /\ x86 = Translated(Blank(r0, r1, r2))

Divided(high, low) == [kind |-> "div", step |-> 0, dividend |-> high * Size + low]

Init ==
  \/ \E m \in Operands : Begin([kind |-> "free"], 0, m, 0)
  \/ Begin([kind |-> "mac"], 0, 0, 0)
  \/ \E m \in Value : \E high \in 0 .. m - 1 : \E low \in Value :
       Begin(Divided(high, low), high, m, low)

InCore(n, m) ==
  [n |-> core.r[n], m |-> core.r[m], t |-> core.t, q |-> core.q, sign |-> core.sign]
InX86(n, m) ==
  [n |-> x86.r[n], m |-> x86.r[m], t |-> x86.t, q |-> x86.q, sign |-> x86.sign,
   flags |-> x86.flags, ts |-> x86.ts]

Execute(op, n, m) ==
  LET c == Core(op, InCore(n, m))
      x == X86(op, InX86(n, m))
  IN  /\ core' = [core EXCEPT !.r[n] = c.n, !.t = c.t, !.q = c.q, !.sign = c.sign]
      /\ x86' = [x86 EXCEPT !.r[n] = x.n, !.t = x.t, !.q = x.q, !.sign = x.sign,
                            !.flags = x.flags, !.ts = x.ts]

Calculate(op, m) ==
  /\ job.kind = "free"
  /\ Execute(op, "R0", m)
  /\ UNCHANGED job

(* BT or BF; the path goes on where the branch is not taken.               *)
Branch ==
  /\ job.kind = "free"
  /\ x86' = LoadT(x86)
  /\ UNCHANGED <<job, core>>

Multiply(op, n, m) ==
  /\ job.kind = "mac"
  /\ core' = [core EXCEPT !.mac = CoreProduct(op, core, n, m)]
  /\ x86' = [x86 EXCEPT !.mac = X86Product(op, x86, n, m)]
  /\ UNCHANGED job

(* SETS and CLRS; both are done through the carry in translated code.      *)
SetS(s) ==
  /\ job.kind = "mac"
  /\ core' = [core EXCEPT !.s = s]
  /\ x86' = [x86 EXCEPT !.s = s, !.flags = Lost, !.ts = "NONE"]
  /\ UNCHANGED job

(* DIV0U, then W times ROTCL R2; DIV1 R1,R0, then ROTCL R2.                *)
LastStep == 2 * W + 1
Divide ==
  /\ job.kind = "div"
  /\ job.step <= LastStep
  /\ CASE job.step = 0     -> Execute("DIV0U", "R0", "R1")
       [] job.step % 2 = 1 -> Execute("ROTCL", "R2", "R1")
       [] OTHER            -> Execute("DIV1", "R0", "R1")
  /\ job' = [job EXCEPT !.step = @ + 1]

Next ==
  \/ \E op \in OfOne : Calculate(op, "R0")
  \/ \E op \in OfTwo, m \in {"R0", "R1"} : Calculate(op, m)
  \/ Branch
  \/ \E op \in Products, n \in Operands, m \in Operands : Multiply(op, n, m)
  \/ \E s \in {0, 1} : SetS(s)
  \/ Divide

Spec == Init /\ [][Next]_vars

-----------------------------------------------------------------------------
(* Properties                                                              *)

(* Every register and bit is what it should be a number of.                *)
TypeOK ==
  /\ core.r \in [Reg -> Value]
  /\ core.mac \in 0 .. Wide - 1
  /\ [b \in {"t", "q", "sign", "s"} |-> core[b]] \in Bits
  /\ x86.ts \in {"NONE", "O", "C", "E", "NE", "G", "GE", "A", "AE"}

(* After any sequence of instructions translated code has left the same    *)
(* registers and bits as the interpreter: one may take over from the other *)
(* at any instruction, as they do at the end of a page and after errors.   *)
BothAgree == \A f \in {"r", "t", "q", "sign", "s", "mac"} : core[f] = x86[f]

(* The condition that the translator remembers is the interpreter's T, so  *)
(* that a conditional branch goes the same way in both.                    *)
ConditionIsT == x86.ts # "NONE" => (Holds(x86.ts, x86.flags) <=> core.t = 1)

(* W steps of DIV1 are a division.                                         *)
DivisionExact ==
  job.kind = "div" /\ job.step > LastStep =>
    core.r["R2"] = job.dividend \div core.r["R1"]

AluTrue == BothAgree /\ ConditionIsT /\ DivisionExact
=============================================================================
