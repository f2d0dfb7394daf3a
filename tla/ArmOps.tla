------------------------------- MODULE ArmOps -------------------------------
(***************************************************************************)
(* What an instruction of the sound processor computes, by the code of     *)
(* src/src/aica/armcore.c and by the manual it refers to (ARM DDI 0100E):  *)
(* operands and their carry, arithmetic and flags, addresses and the       *)
(* writing back of bases, loads and stores of many registers, conditions.  *)
(*                                                                         *)
(* Words have W bits for 32, an instruction is one unit of an address, and *)
(* memory is what an address is known by.  The program counter is an       *)
(* operand nowhere; returns by it and the banks are those of Arm.          *)
(***************************************************************************)
EXTENDS Integers, FiniteSets, SequencesExt, Bitwise, TLC

CONSTANTS
  W,              \* bits of a word
  Operands        \* contents of registers

ArmOpsAssumption ==
  /\ W \in Nat /\ W > 2
  /\ Operands \subseteq 0 .. 2 ^ W - 1

VARIABLES
  insn,           \* the instruction
  code,           \* the machine as the code leaves it
  manual          \* as the manual says

vars == <<insn, code, manual>>

Size == 2 ^ W
Word == 0 .. Size - 1
Bit(b) == IF b THEN 1 ELSE 0
Top(x) == x \div 2 ^ (W - 1)
Signed(x) == IF Top(x) = 1 THEN x - Size ELSE x
Truth(flag) == flag # 0

(* A flag is 0 or 1, or the bit of CPSR that MSR took it from.             *)
MASK == [n |-> 8, z |-> 4, c |-> 2, v |-> 3]  \* such as differ

RD == 0
RN == 1
RM == 2
RS == 3
LR == 14
PC == 15
Regs == {RD, RN, RM, RS, LR, PC}

Contents(address) == (7 * address + 3) % Size     \* of memory

Logical == {"AND", "EOR", "TST", "TEQ", "ORR", "MOV", "BIC", "MVN"}
Arithmetic == {"SUB", "RSB", "ADD", "ADC", "SBC", "RSC", "CMP", "CMN"}
Tests == {"TST", "TEQ", "CMP", "CMN"}
ByImmediate == {"LSLI", "LSRI", "ASRI", "RORI"}
ByRegister == {"LSLR", "LSRR", "ASRR", "RORR"}
Conditions == {"EQ", "NE", "CS", "CC", "MI", "PL", "VS", "VC", "HI", "LS",
               "GE", "LT", "GT", "LE", "AL"}

-----------------------------------------------------------------------------
(* The manual.  shift is the kind and by the distance; an instruction has  *)
(* no room for 32 and means it by 0, but for LSL, and RRX by ROR of 0.     *)
Distance(i, m) ==
  CASE i.shift \in ByRegister -> m.r[RS]
    [] i.shift \in {"LSRI", "ASRI"} /\ i.by = 0 -> W
    [] OTHER -> i.by

Rotated(x, k) == (x \div 2 ^ (k % W)) + ((x * 2 ^ (W - (k % W))) % Size)

ManualOperand(i, m) ==
  LET x == m.r[RM]
      k == Distance(i, m)
      old == Bit(Truth(m.c))
      At(n) == (x \div 2 ^ n) % 2
  IN  CASE i.shift = "immediate" ->
             LET v == Rotated(i.imm, i.by)
             IN  [value |-> v, carry |-> IF i.by = 0 THEN old ELSE Top(v)]
        [] i.shift = "RORI" /\ k = 0 ->
             [value |-> (x \div 2) + old * 2 ^ (W - 1), carry |-> x % 2]
        [] i.shift \in ByImmediate \cup ByRegister /\ k = 0 /\ i.shift # "RORI" ->
             [value |-> x, carry |-> old]
        [] i.shift \in {"LSLI", "LSLR"} /\ k > 0 ->
             [value |-> (x * 2 ^ k) % Size, carry |-> ((x * 2 ^ k) \div Size) % 2]
        [] i.shift \in {"LSRI", "LSRR"} /\ k > 0 ->
             [value |-> x \div 2 ^ k, carry |-> At(k - 1)]
        [] i.shift \in {"ASRI", "ASRR"} /\ k > 0 ->
             [value |-> (Signed(x) \div 2 ^ k) % Size,
              carry |-> (Signed(x) \div 2 ^ (k - 1)) % 2]
        [] i.shift \in {"RORI", "RORR"} /\ k > 0 ->
             [value |-> Rotated(x, k), carry |-> At((k - 1) % W)]

(* AddWithCarry                                                            *)
Added(x, y, carry) ==
  LET v == (x + y + carry) % Size
  IN  [value |-> v, carry |-> Bit(x + y + carry >= Size),
       over |-> Bit(Signed(x) + Signed(y) + carry # Signed(v))]

Inverted(x) == Size - 1 - x
LogicalValue(op, x, y) ==
  CASE op \in {"AND", "TST"} -> x & y
    [] op \in {"EOR", "TEQ"} -> x ^^ y
    [] op = "ORR" -> x | y
    [] op = "MOV" -> y
    [] op = "BIC" -> x & Inverted(y)
    [] op = "MVN" -> Inverted(y)

ManualSum(op, x, y, carry) ==
  CASE op \in {"ADD", "CMN"} -> Added(x, y, 0)
    [] op = "ADC" -> Added(x, y, carry)
    [] op \in {"SUB", "CMP"} -> Added(x, Inverted(y), 1)
    [] op = "SBC" -> Added(x, Inverted(y), carry)
    [] op = "RSB" -> Added(Inverted(x), y, 1)
    [] op = "RSC" -> Added(Inverted(x), y, carry)

Assigned(i, m, v) == IF i.op \in Tests THEN m ELSE [m EXCEPT !.r[i.rd] = v]

ManualData(i, m) ==
  LET y == ManualOperand(i, m)
      v == LogicalValue(i.op, m.r[RN], y.value)
      sum == ManualSum(i.op, m.r[RN], y.value, Bit(Truth(m.c)))
  IN  IF i.op \in Logical
      THEN [Assigned(i, m, v) EXCEPT
              !.n = IF i.s THEN Top(v) ELSE @, !.z = IF i.s THEN Bit(v = 0) ELSE @,
              !.c = IF i.s THEN y.carry ELSE @]
      ELSE [Assigned(i, m, sum.value) EXCEPT
              !.n = IF i.s THEN Top(sum.value) ELSE @,
              !.z = IF i.s THEN Bit(sum.value = 0) ELSE @,
              !.c = IF i.s THEN sum.carry ELSE @, !.v = IF i.s THEN sum.over ELSE @]

(* A load or store: before or after the base is moved, up or down.         *)
ManualOffset(i, m) ==
  IF i.shift = "immediate" THEN i.imm ELSE ManualOperand(i, m).value

ManualMove(i, m) ==
  LET moved == (m.r[RN] + (IF i.up THEN 1 ELSE -1) * ManualOffset(i, m)) % Size
      address == IF i.pre THEN moved ELSE m.r[RN]
      base == IF i.write \/ ~i.pre THEN [m EXCEPT !.r[RN] = moved] ELSE m
  IN  IF i.load THEN [base EXCEPT !.r[RD] = Contents(address)]
      ELSE [base EXCEPT !.bus = {<<address, m.r[RD]>>}]

(* Of several: the lowest register is the one at the lowest address.       *)
Lowest(i, base, n) ==
  CASE i.up /\ ~i.pre -> base
    [] i.up /\ i.pre -> base + 1
    [] ~i.up /\ ~i.pre -> base - n + 1
    [] ~i.up /\ i.pre -> base - n

(* S: the user's registers, or with PC in a load, the return from an       *)
(* exception.  PC is stored twelve bytes further on.                       *)
UserBank(i) == i.s /\ ~(i.load /\ PC \in i.list)
Stored(i, m, x) ==
  CASE x = PC -> (m.r[PC] + 2) % Size
    [] x = LR /\ UserBank(i) /\ m.exception -> m.user
    [] OTHER -> m.r[x]

ManualBlock(i, m) ==
  LET n == Cardinality(i.list)
      At(x) == (Lowest(i, m.r[RN], n) + Cardinality({y \in i.list : y < x})) % Size
      moved == (m.r[RN] + (IF i.up THEN n ELSE -n)) % Size
      base == IF i.write THEN [m EXCEPT !.r[RN] = moved] ELSE m
      toUser == LR \in i.list /\ UserBank(i) /\ m.exception
      mine == IF toUser THEN i.list \ {LR} ELSE i.list
      Loaded(x) == IF x \in mine THEN Contents(At(x)) ELSE base.r[x]
  IN  IF i.load
      THEN [base EXCEPT !.r = [x \in Regs |-> Loaded(x)],
                        !.user = IF toUser THEN Contents(At(LR)) ELSE @,
                        !.restored = i.s /\ PC \in i.list]
      ELSE [base EXCEPT !.bus = {<<At(x), Stored(i, m, x)>> : x \in i.list}]

ManualPasses(cond, m) ==
  LET n == Truth(m.n) z == Truth(m.z) c == Truth(m.c) v == Truth(m.v)
  IN  CASE cond = "EQ" -> z       [] cond = "NE" -> ~z
        [] cond = "CS" -> c       [] cond = "CC" -> ~c
        [] cond = "MI" -> n       [] cond = "PL" -> ~n
        [] cond = "VS" -> v       [] cond = "VC" -> ~v
        [] cond = "HI" -> c /\ ~z [] cond = "LS" -> ~c \/ z
        [] cond = "GE" -> n = v   [] cond = "LT" -> n # v
        [] cond = "GT" -> ~z /\ n = v
        [] cond = "LE" -> z \/ n # v
        [] cond = "AL" -> TRUE

-----------------------------------------------------------------------------
(* The code.  arm_get_shift_operand; what it does to a logical shift right *)
(* by a register is to shift by the low bits of the instruction, which are *)
(* a set bit and the number of the register.                               *)
LowBits == (W \div 2) + (RM % (W \div 2))
Rrx(x, m) == (x \div 2) + (m.c % 2) * 2 ^ (W - 1)

ShiftOperand(i, m) ==
  LET x == m.r[RM]
      k == m.r[RS]
      Left(n) == (x * 2 ^ n) % Size
      Right(n) == (Signed(x) \div 2 ^ n) % Size
  IN  CASE i.shift = "immediate" -> Rotated(i.imm, i.by)
        [] i.shift = "LSLI" -> Left(i.by)
        [] i.shift = "LSLR" -> IF k > W - 1 THEN 0 ELSE Left(k)
        [] i.shift = "LSRI" -> x \div 2 ^ i.by
        [] i.shift = "LSRR" -> IF k > W - 1 THEN 0 ELSE x \div 2 ^ LowBits
        [] i.shift = "ASRI" -> Right(IF i.by = 0 THEN W - 1 ELSE i.by)
        [] i.shift = "ASRR" -> Right(IF k > W - 1 THEN W - 1 ELSE k)
        [] i.shift = "RORI" -> IF i.by = 0 THEN Rrx(x, m) ELSE Rotated(x, i.by)
        [] i.shift = "RORR" -> Rotated(x, k % W)

(* arm_get_shift_operand_s, for a distance in a register.                  *)
ShiftedByRegister(i, m) ==
  LET x == m.r[RM]
      k == m.r[RS]
      Carry(n) == (x \div 2 ^ n) % 2
      low == k < W
  IN  CASE k = 0 -> [value |-> x, carry |-> m.c]
        [] k > 0 /\ i.shift = "LSLR" ->
             [value |-> IF low THEN (x * 2 ^ k) % Size ELSE 0,
              carry |-> IF k <= W THEN Carry(W - k) ELSE 0]
        [] k > 0 /\ i.shift = "LSRR" ->
             [value |-> IF low THEN x \div 2 ^ k ELSE 0,
              carry |-> IF k <= W THEN Carry(k - 1) ELSE 0]
        [] k > 0 /\ i.shift = "ASRR" ->
             [value |-> (Signed(x) \div 2 ^ (IF low THEN k ELSE W - 1)) % Size,
              carry |-> IF low THEN Carry(k - 1) ELSE Top(x)]
        [] k > 0 /\ i.shift = "RORR" ->
             [value |-> Rotated(x, k % W),
              carry |-> IF k % W = 0 THEN Top(x) ELSE Carry((k % W) - 1)]

(* arm_get_shift_operand_s, for a distance in the instruction.  The carry  *)
(* of a rotation is all the bits above it, too.                            *)
ShiftedByImmediate(i, m) ==
  LET x == m.r[RM]
      Carry(n) == (x \div 2 ^ n) % 2
  IN  CASE i.shift = "LSLI" /\ i.by = 0 -> [value |-> x, carry |-> m.c]
        [] i.shift = "LSLI" /\ i.by > 0 ->
             [value |-> (x * 2 ^ i.by) % Size, carry |-> Carry(W - i.by)]
        [] i.shift = "LSRI" /\ i.by = 0 -> [value |-> 0, carry |-> Top(x)]
        [] i.shift = "LSRI" /\ i.by > 0 ->
             [value |-> x \div 2 ^ i.by, carry |-> Carry(i.by - 1)]
        [] i.shift = "ASRI" /\ i.by = 0 ->
             [value |-> IF Top(x) = 1 THEN Size - 1 ELSE 0, carry |-> Top(x)]
        [] i.shift = "ASRI" /\ i.by > 0 ->
             [value |-> (Signed(x) \div 2 ^ i.by) % Size, carry |-> Carry(i.by - 1)]
        [] i.shift = "RORI" /\ i.by = 0 -> [value |-> Rrx(x, m), carry |-> x % 2]
        [] i.shift = "RORI" /\ i.by > 0 ->
             [value |-> Rotated(x, i.by), carry |-> x \div 2 ^ (i.by - 1)]

ShiftOperandS(i, m) ==
  CASE i.shift = "immediate" ->
         LET v == Rotated(i.imm, i.by)
         IN  [value |-> v, carry |-> IF i.by = 0 THEN m.c ELSE Top(v)]
    [] i.shift \in ByImmediate -> ShiftedByImmediate(i, m)
    [] i.shift \in ByRegister -> ShiftedByRegister(i, m)

NotBorrow(x, y) == Bit(~(y > x))
Carried(v, x) == Bit(v < x)
SubOverflow(v, x, y) == Bit(Top(x) # Top(y) /\ Top(v) # Top(x))
AddOverflow(v, x, y) == Bit(Top(x) = 1 /\ Top(y) = 1 /\ Top(v) # Top(x))

(* Without S only the result is assigned.                                  *)
CodeValue(op, x, y, m) ==
  CASE op = "ADD" -> (x + y) % Size
    [] op = "SUB" -> (x - y) % Size
    [] op = "RSB" -> (y - x) % Size
    [] op = "ADC" -> (x + y + Bit(Truth(m.c))) % Size
    [] op = "SBC" -> (x - y - Bit(~Truth(m.c))) % Size
    [] op = "RSC" -> (y - x - Bit(~Truth(m.c))) % Size

(* With S, and without the carry: first is what the other is taken from.   *)
CodeDifference(i, m, x, y) ==
  LET v == (x - y) % Size
  IN  [Assigned(i, m, v) EXCEPT !.n = Top(v), !.z = Bit(v = 0),
                                !.c = NotBorrow(x, y), !.v = SubOverflow(v, x, y)]

CodeTotal(i, m, x, y) ==
  LET v == (x + y) % Size
  IN  [Assigned(i, m, v) EXCEPT !.n = Top(v), !.z = Bit(v = 0),
                                !.c = Carried(v, x), !.v = AddOverflow(v, x, y)]

(* ADCS: "tmp + armr.c ? 1 : 0" is a test of the sum.                      *)
CodeTotalCarried(i, m, x, y) ==
  LET v == (x + y) % Size
      w == Bit((v + m.c) % Size # 0)
  IN  [Assigned(i, m, w) EXCEPT
         !.n = Top(v), !.z = Bit(v = 0), !.c = Bit(Carried(v, x) = 1 \/ w < v),
         !.v = Bit(AddOverflow(v, x, y) = 1 \/ Top(v) # Top(w))]

(* SBCS and RSCS set flags only.                                           *)
CodeDifferenceCarried(m, x, y) ==
  LET v == (x - y) % Size
      w == (v - Bit(~Truth(m.c))) % Size
  IN  [m EXCEPT
         !.n = Top(v), !.z = Bit(v = 0), !.c = Bit(NotBorrow(x, y) = 1 /\ w < v),
         !.v = Bit(SubOverflow(v, x, y) = 1 \/ Top(v) # Top(w))]

CodeArithmetic(i, m) ==
  LET x == m.r[RN]
      y == ShiftOperand(i, m)
  IN  CASE ~i.s -> Assigned(i, m, CodeValue(i.op, x, y, m))
        [] i.s /\ i.op \in {"SUB", "CMP"} -> CodeDifference(i, m, x, y)
        [] i.s /\ i.op = "RSB" -> CodeDifference(i, m, y, x)
        [] i.s /\ i.op \in {"ADD", "CMN"} -> CodeTotal(i, m, y, x)
        [] i.s /\ i.op = "ADC" -> CodeTotalCarried(i, m, y, x)
        [] i.s /\ i.op = "SBC" -> CodeDifferenceCarried(m, x, y)
        [] i.s /\ i.op = "RSC" -> CodeDifferenceCarried(m, y, x)

CodeLogical(i, m) ==
  IF ~i.s THEN Assigned(i, m, LogicalValue(i.op, m.r[RN], ShiftOperand(i, m)))
  ELSE LET y == ShiftOperandS(i, m)
           v == LogicalValue(i.op, m.r[RN], y.value)
       IN  [Assigned(i, m, v) EXCEPT !.n = Top(v), !.z = Bit(v = 0), !.c = y.carry]

CodeData(i, m) ==
  IF i.op \in Logical THEN CodeLogical(i, m) ELSE CodeArithmetic(i, m)

(* arm_get_address_index, arm_get_address_operand, which moves the base    *)
(* down whenever it is moved by a register afterwards; the same for        *)
(* halfwords, arm_get_address3_operand, has no shift.                      *)
CodeOffset(i, m) ==
  CASE i.shift = "immediate" -> i.imm
    [] i.shift # "immediate" /\ i.half -> m.r[RM]
    [] i.shift # "immediate" /\ ~i.half -> ShiftOperand(i, m)

CodeMove(i, m) ==
  LET up == i.up /\ (i.pre \/ i.half \/ i.shift = "immediate")
      moved == (m.r[RN] + (IF up THEN 1 ELSE -1) * CodeOffset(i, m)) % Size
      address == IF i.pre THEN moved ELSE m.r[RN]
      base == IF i.write \/ ~i.pre THEN [m EXCEPT !.r[RN] = moved] ELSE m
  IN  CASE i.half /\ ~i.load /\ i.pre /\ ~i.up -> [m EXCEPT !.halted = TRUE]
        [] i.load -> [base EXCEPT !.r[RD] = Contents(address)]
        [] OTHER -> [base EXCEPT !.bus = {<<address, m.r[RD]>>}]

(* One register of several, in a loop that goes up or down through them.   *)
Transferred(i, s, x) ==
  LET next == (s.at + (IF i.up THEN 1 ELSE -1)) % Size
      address == IF i.pre THEN next ELSE s.at
      banked == x = LR /\ UserBank(i) /\ s.m.exception
  IN  [at |-> next,
       m |-> CASE ~i.load ->
                      [s.m EXCEPT !.bus = @ \cup {<<address, Stored(i, s.m, x)>>}]
               [] i.load /\ banked -> [s.m EXCEPT !.user = Contents(address)]
               [] i.load /\ ~banked -> [s.m EXCEPT !.r[x] = Contents(address)]]

CodeBlock(i, m) ==
  LET upwards == SetToSortSeq(i.list, <)
      order == IF i.up THEN upwards ELSE Reverse(upwards)
      One(s, x) == Transferred(i, s, x)
      end == FoldLeft(One, [at |-> m.r[RN], m |-> m], order)
      base == IF i.write THEN [end.m EXCEPT !.r[RN] = end.at] ELSE end.m
  IN  [base EXCEPT !.restored = i.load /\ i.s /\ PC \in i.list]

CodePasses(cond, m) ==
  CASE cond = "EQ" -> Truth(m.z)  [] cond = "NE" -> ~Truth(m.z)
    [] cond = "CS" -> Truth(m.c)  [] cond = "CC" -> ~Truth(m.c)
    [] cond = "MI" -> Truth(m.n)  [] cond = "PL" -> ~Truth(m.n)
    [] cond = "VS" -> Truth(m.v)  [] cond = "VC" -> ~Truth(m.v)
    [] cond = "HI" -> Truth(m.c) /\ ~Truth(m.z)
    [] cond = "LS" -> ~Truth(m.c) \/ Truth(m.z)
    [] cond = "GE" -> m.n = m.v   [] cond = "LT" -> m.n # m.v
    [] cond = "GT" -> ~Truth(m.z) /\ m.n = m.v
    [] cond = "LE" -> Truth(m.z) \/ m.n # m.v
    [] cond = "AL" -> TRUE

-----------------------------------------------------------------------------
Machine == [r |-> [x \in Regs |-> IF x = LR THEN 6 ELSE IF x = PC THEN 2 ELSE 9],
            user |-> 11, exception |-> FALSE,
            n |-> 0, z |-> 0, c |-> 0, v |-> 0,
            bus |-> {}, restored |-> FALSE, halted |-> FALSE, passed |-> TRUE]

(* What the code does otherwise than the manual.                           *)
RrxOfMask(i, m) == i.shift = "RORI" /\ i.by = 0 /\ m.c = MASK.c
OperandDeviates(i, m) ==
  IF i.s /\ i.op \in Logical
  THEN i.shift = "RORI" /\ i.by > 0 /\ m.r[RM] \div 2 ^ (i.by - 1) > 1
  ELSE \/ i.shift = "LSRI" /\ i.by = 0
       \/ i.shift = "LSRR" /\ m.r[RS] < W
BothPositive(i, m) ==
  LET y == ManualOperand(i, m).value
  IN  Top(m.r[RN]) = 0 /\ Top(y) = 0 /\ Top(m.r[RN] + y) = 1
DataDeviates(i, m) ==
  \/ RrxOfMask(i, m) \/ OperandDeviates(i, m)
  \/ i.s /\ i.op \in {"ADC", "SBC", "RSC"}
  \/ i.s /\ i.op \in {"ADD", "CMN"} /\ BothPositive(i, m)

MoveDeviates(i, m) ==
  \/ ~i.half /\ i.shift = "LSRI" /\ i.by = 0
  \/ ~i.half /\ RrxOfMask(i, m)
  \/ ~i.half /\ i.shift # "immediate" /\ i.up /\ ~i.pre
  \/ i.half /\ ~i.load /\ i.pre /\ ~i.up

PassDeviates(cond, m) ==
  cond \in {"GE", "LT", "GT", "LE"} /\ Truth(m.n) /\ Truth(m.v) /\ m.n # m.v

(* Instructions.  What the manual calls unpredictable is none of them.     *)
Shifts(kinds, distances) == [shift : kinds, by : distances, imm : {0}]
Immediates(values, turns) == [shift : {"immediate"}, by : turns, imm : values]

DataShifts ==
  Shifts(ByImmediate, 0 .. W - 1) \cup Shifts(ByRegister, {0})
    \cup Immediates({1, 6, Size - 1}, {0, 2})

Init ==
  /\ insn = [is |-> "none"]
  /\ code = Machine
  /\ manual = Machine

Idle == insn.is = "none"

Execute(is, deviates, byCode, byManual) ==
  /\ insn' = [is |-> is, deviates |-> deviates]
  /\ code' = byCode
  /\ manual' = byManual

Process(op, s, shift, rd, x, y, k, c) ==
  LET i == shift @@ [op |-> op, s |-> s, rd |-> rd]
      m == [Machine EXCEPT !.r[RN] = x, !.r[RM] = y, !.r[RS] = k, !.c = c]
  IN  /\ op \in Tests => s
      /\ shift.shift \notin ByRegister => k = 0
      /\ Execute("data", DataDeviates(i, m), CodeData(i, m), ManualData(i, m))

Move(half, pre, up, write, load, shift, x, y, c) ==
  LET i == shift @@ [half |-> half, pre |-> pre, up |-> up, write |-> write,
                     load |-> load]
      m == [Machine EXCEPT !.r[RN] = x, !.r[RM] = y, !.c = c]
  IN  /\ half => (shift.shift \in {"immediate", "LSLI"} /\ shift.by = 0)
      /\ half /\ write => pre
      /\ Execute("move", MoveDeviates(i, m), CodeMove(i, m), ManualMove(i, m))

Block(pre, up, write, load, s, list, base, exception) ==
  LET i == [pre |-> pre, up |-> up, write |-> write, load |-> load, s |-> s,
            list |-> list]
      m == [Machine EXCEPT !.r[RN] = base, !.exception = exception]
  IN  /\ list # {}
      /\ write => RN \notin list /\ ~UserBank(i)
      /\ Execute("block", FALSE, CodeBlock(i, m), ManualBlock(i, m))

Condition(cond, n, z, c, v) ==
  LET m == [Machine EXCEPT !.n = n, !.z = z, !.c = c, !.v = v]
  IN  /\ Execute("cond", PassDeviates(cond, m),
                 [m EXCEPT !.passed = CodePasses(cond, m)],
                 [m EXCEPT !.passed = ManualPasses(cond, m)])

Next ==
  /\ Idle
  /\ \/ \E op \in Logical \cup Arithmetic, s \in BOOLEAN, shift \in DataShifts,
           x \in Operands, y \in Operands, k \in Operands \cup {0},
           c \in {0, 1, MASK.c} :
          Process(op, s, shift, RD, x, y, k, c)
     \/ \E half \in BOOLEAN, pre \in BOOLEAN, up \in BOOLEAN, write \in BOOLEAN,
           load \in BOOLEAN, x \in Operands, y \in Operands, c \in {0, 1, MASK.c},
           shift \in Shifts(ByImmediate, {0, 1, W - 1})
                        \cup Immediates({0, 3}, {0}) :
          Move(half, pre, up, write, load, shift, x, y, c)
     \/ \E pre \in BOOLEAN, up \in BOOLEAN, write \in BOOLEAN, load \in BOOLEAN,
           s \in BOOLEAN, exception \in BOOLEAN, list \in SUBSET {RD, RN, LR, PC},
           base \in {0, 6, Size - 1} :
          Block(pre, up, write, load, s, list, base, exception)
     \/ \E cond \in Conditions, n \in {0, 1, MASK.n}, z \in {0, 1, MASK.z},
           c \in {0, 1, MASK.c}, v \in {0, 1, MASK.v} : Condition(cond, n, z, c, v)

Spec == Init /\ [][Next]_vars

-----------------------------------------------------------------------------
(* But for what the README names, an instruction of the code leaves the    *)
(* registers, flags, accesses and decisions that the manual says, through  *)
(* distances of nothing, of a word and more, carries and overflows,        *)
(* addresses that wrap, and lists of registers in either direction.        *)
(* (arm_get_shift_operand, arm_get_shift_operand_s,                        *)
(* arm_get_address_operand, arm_execute_instruction)                       *)
OperationsTrue ==
  ~Idle /\ ~insn.deviates =>
    /\ [code EXCEPT !.n = 0, !.z = 0, !.c = 0, !.v = 0] =
         [manual EXCEPT !.n = 0, !.z = 0, !.c = 0, !.v = 0]
    /\ \A f \in {"n", "z", "c", "v"} : Truth(code[f]) = Truth(manual[f])
=============================================================================
