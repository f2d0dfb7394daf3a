-------------------------------- MODULE Access --------------------------------
(***************************************************************************)
(* Instructions of the SH4 that use memory or system registers, as the     *)
(* interpreter (sh4core.in) and translated code (sh4x86.in) execute them.  *)
(* Such an instruction may stop in the middle: on a misaligned address, on *)
(* a page the TLB does not have, on a register or an FPU it may not use.   *)
(* The handler of the guest mends what a handler can mend and returns, and *)
(* the instruction is executed again from its beginning.                   *)
(*                                                                         *)
(* Memory is cells of four bytes; a cell holds one value, which any access *)
(* to it reads or writes.  Two pages of two cells are mapped by the TLB;   *)
(* after them come two cells of the store queue.  R0 and R1 are banked, R2 *)
(* is not.  VBR stands for the control registers of privileged mode, PR    *)
(* for the registers that anyone may use, and a pair is FR0 and FR1.       *)
(***************************************************************************)
EXTENDS Integers

CONSTANTS
  Registers,      \* what R0, R1 and R2 may be
  Tlbs            \* what the TLB may have of each page

VARIABLES
  ins,            \* the instruction, and whether it is in a delay slot
  before,         \* the machine before it
  core,           \* the machine of the interpreter
  x86,            \* the machine of translated code
  tries           \* times it has been executed

vars == <<ins, before, core, x86, tries>>

Size == 24
Page == 0 .. 1
Cell(address) == (address % Size) \div 4
IsQueue(address) == address % Size >= 16
Disp == 4
Literal == 4                     \* what @(disp,PC) refers to, next to the code

I(op, size, form, d, a, reg) ==
  [op |-> op, size |-> size, form |-> form, d |-> d, a |-> a, reg |-> reg]

(* Numbers of the data and the address register.                           *)
Pairs == {<<0, 1>>, <<1, 1>>, <<1, 2>>, <<2, 1>>}
Moves ==
  {I(op, size, form, p[1], p[2], "") :
     op \in {"load", "store"}, size \in {1, 2, 4}, p \in Pairs,
     form \in {"@R", "@R+", "@(R0,R)"}}
  \cup {I(op, size, "@(disp,R)", IF size = 4 THEN p[1] ELSE 0, p[2], "") :
          op \in {"load", "store"}, size \in {1, 2, 4}, p \in Pairs}
  \cup {I(op, size, "@(disp,GBR)", 0, 0, "") :
          op \in {"load", "store"}, size \in {1, 2, 4}}
  \cup {I("load", size, "@(disp,PC)", 1, 0, "") : size \in {2, 4}}
FloatMoves ==
  {I(op, 4, form, d, a, "") : op \in {"fload", "fstore"}, d \in 0 .. 1, a \in 1 .. 2,
                              form \in {"@R", "@R+", "@(R0,R)"}}
  \cup {I("fmov", 4, "", d, 1 - d, "") : d \in 0 .. 1}
SystemMoves ==
  {I(op, 4, "", 0, a, reg) :
     op \in {"ldc", "ldc@", "stc", "stc@"}, a \in 1 .. 2,
     reg \in {"GBR", "VBR", "PR", "BANK", "SR", "FPUL", "FPSCR"}}
Others ==
  {I("tas", 1, "@R", 0, 1, ""), I("xor", 1, "", 0, 0, "")}
  \cup {I("mac", size, "", p[1], p[2], "") : size \in {2, 4}, p \in Pairs}
Instructions == Moves \cup FloatMoves \cup SystemMoves \cup Others

IsFloat(i) == i.op \in {"fload", "fstore", "fmov"}
UsesFpu(i) == IsFloat(i) \/ i.reg \in {"FPUL", "FPSCR"}
Privileged(i) == i.reg \in {"VBR", "BANK", "SR"}

-----------------------------------------------------------------------------
(* System registers                                                        *)

B(condition) == IF condition THEN 1 ELSE 0
Bit(v, k) == (v \div 2 ^ k) % 2 = 1

(* sh4_read_sr                                                             *)
ReadSr(s) == B(s.md) + 2 * B(s.rb) + 4 * B(s.fd) + 8 * s.t

(* sh4_switch_banks                                                        *)
Switched(s) ==
  [s EXCEPT !.r = [k \in 0 .. 2 |-> IF k < 2 THEN s.bank[k] ELSE s.r[k]],
            !.bank = [k \in 0 .. 1 |-> s.r[k]]]

(* sh4_write_sr                                                            *)
WriteSr(s, v) ==
  LET swaps == (s.md /\ s.rb) # (Bit(v, 0) /\ Bit(v, 1))
  IN  [(IF swaps THEN Switched(s) ELSE s) EXCEPT
         !.md = Bit(v, 0), !.rb = Bit(v, 1), !.fd = Bit(v, 2), !.t = B(Bit(v, 3))]

(* sh4_write_fpscr                                                         *)
WriteFpscr(s, v) ==
  [s EXCEPT !.sz = Bit(v, 0), !.frb = Bit(v, 1),
            !.fr = IF s.frb # Bit(v, 1) THEN [b \in 0 .. 1 |-> s.fr[1 - b]] ELSE @]

Get(s, reg) ==
  CASE reg = "GBR" -> s.gbr [] reg = "VBR" -> s.vbr [] reg = "PR" -> s.pr
    [] reg = "BANK" -> s.bank[1] [] reg = "SR" -> ReadSr(s)
    [] reg = "FPUL" -> s.fpul [] reg = "FPSCR" -> B(s.sz) + 2 * B(s.frb)

-----------------------------------------------------------------------------
(* Steps of an instruction.  After an exception the rest of it is not      *)
(* executed.                                                               *)

Live(s) == s.exc = "none"

(* sh4_raise_exception, sh4_raise_tlb_exception                            *)
Raise(s, code, address) ==
  LET taken == [s EXCEPT !.exc = code, !.tea = address, !.ssr = ReadSr(s)]
  IN  WriteSr(taken, 3 + 4 * B(s.fd) + 8 * s.t)

Clobber(s) == IF Live(s) THEN [s EXCEPT !.flags = FALSE] ELSE s
Unless(s, good, code) == IF Live(s) /\ ~good THEN Raise(s, code, 0) ELSE s

(* CHECKPRIV, CHECKSLOTILLEGAL, CHECKFPUEN, CHECKRALIGN, CHECKWALIGN       *)
CheckPriv(s, slot) == Unless(s, s.md, IF slot THEN "slot illegal" ELSE "illegal")
CheckSlot(s, slot) == Unless(s, ~slot, "slot illegal")
CheckFpu(s, slot) == Unless(s, ~s.fd, IF slot THEN "slot fpu" ELSE "fpu")
CheckRead(s, address, size) == Unless(Clobber(s), address % size = 0, "address read")
CheckWrite(s, address, size) ==
  Unless(Clobber(s), address % size = 0, "address write")

(* mmu_get_region_for_vma_read, mmu_get_region_for_vma_write               *)
ReadFault(s, address) ==
  LET page == s.tlb[(address % Size) \div 8]
  IN  CASE IsQueue(address) -> IF s.md \/ ~s.sqmd THEN "none" ELSE "address read"
        [] page = "none" -> "miss read"
        [] page = "priv" /\ ~s.md -> "protected read"
        [] OTHER -> "none"
WriteFault(s, address) ==
  LET page == s.tlb[(address % Size) \div 8]
  IN  CASE IsQueue(address) -> IF s.md \/ ~s.sqmd THEN "none" ELSE "address write"
        [] page = "none" -> "miss write"
        [] page = "priv" /\ ~s.md -> "protected write"
        [] page = "clean" -> "first write"
        [] OTHER -> "none"

(* MEM_READ, MEM_READ_BYTE_FOR_WRITE, MEM_WRITE: what is read comes in tmp *)
Accessed(s, address, fault) ==
  IF fault # "none" THEN Raise(s, fault, address % Size) ELSE Clobber(s)
Fetched(s, address) ==
  IF Live(s) THEN [s EXCEPT !.tmp = s.mem[Cell(address)]] ELSE s
Read(s, address) ==
  IF ~Live(s) THEN s
  ELSE Fetched(Accessed(s, address, ReadFault(s, address)), address)
ReadForWrite(s, address) ==
  IF ~Live(s) THEN s
  ELSE Fetched(Accessed(s, address, WriteFault(s, address)), address)
Stored(s, address, v) ==
  IF Live(s) THEN [s EXCEPT !.mem[Cell(address)] = v] ELSE s
Write(s, address, v) ==
  IF ~Live(s) THEN s
  ELSE Stored(Accessed(s, address, WriteFault(s, address)), address, v)

Add(s, k, n) ==
  IF Live(s) THEN [s EXCEPT !.r[k] = (@ + n) % Size, !.flags = FALSE] ELSE s
SetR(s, k, v) == IF Live(s) THEN [s EXCEPT !.r[k] = v] ELSE s
SetFr(s, b, k, v) == IF Live(s) THEN [s EXCEPT !.fr[b][k] = v] ELSE s
SetT(s, t) == IF Live(s) THEN [s EXCEPT !.t = B(t)] ELSE s
Accumulate(s, a, b) ==
  IF Live(s) THEN [s EXCEPT !.mac = (@ + a * b) % Size, !.flags = FALSE] ELSE s
Put(s, reg, v) ==
  IF ~Live(s) THEN s
  ELSE CASE reg = "GBR" -> [s EXCEPT !.gbr = v]
         [] reg = "VBR" -> [s EXCEPT !.vbr = v]
         [] reg = "PR" -> [s EXCEPT !.pr = v]
         [] reg = "BANK" -> [s EXCEPT !.bank[1] = v]
         [] reg = "FPUL" -> [s EXCEPT !.fpul = v]
         [] reg = "SR" -> WriteSr([s EXCEPT !.flags = FALSE], v)
         [] reg = "FPSCR" -> WriteFpscr([s EXCEPT !.flags = FALSE], v)

-----------------------------------------------------------------------------
(* What both engines do alike.                                             *)

Address(i, s) ==
  CASE i.form \in {"@R", "@R+"} -> s.r[i.a]
    [] i.form = "@(R0,R)" -> s.r[0] + s.r[i.a]
    [] i.form = "@(disp,R)" -> s.r[i.a] + Disp
    [] i.form = "@(disp,GBR)" -> s.gbr + Disp
    [] i.form = "@(disp,PC)" -> Literal
    [] i.op = "xor" -> s.r[0] + s.gbr

(* Where a store goes: @R+ is @-R for a store.                             *)
Width(i, s) == IF IsFloat(i) /\ s.sz THEN 8 ELSE i.size
Destination(i, s) ==
  Address(i, s) - (IF i.form = "@R+" THEN Width(i, s) ELSE 0)
Moved(i, s, n) == IF i.form = "@R+" THEN Add(s, i.a, n) ELSE s

(* FMOV, the memory's side of it: the low half first                       *)
FloatLoad(i, s, checked) ==
  LET address == Address(i, s)
      first == Read(checked, address)
      low == SetFr(first, i.d, 0, first.tmp)
      second == Read(low, address + 4)
      pair == SetFr(second, i.d, 1, second.tmp)
  IN  Moved(i, IF s.sz THEN pair ELSE SetFr(first, 0, i.d, first.tmp), Width(i, s))
FloatStore(i, s, checked) ==
  LET address == Destination(i, s)
      low == Write(checked, address, s.fr[i.d][0])
      pair == Write(low, address + 4, s.fr[i.d][1])
      single == Write(checked, address, s.fr[0][i.d])
  IN  Moved(i, IF s.sz THEN pair ELSE single, -Width(i, s))
FloatMove(i, s) ==
  IF ~Live(s) THEN s
  ELSE IF s.sz THEN [s EXCEPT !.fr[i.d] = s.fr[i.a]]
  ELSE [s EXCEPT !.fr[0][i.d] = s.fr[0][i.a]]

(* TAS.B; AND.B, OR.B and XOR.B                                            *)
TestAndSet(i, s) ==
  LET was == ReadForWrite(s, s.r[i.a])
      tested == SetT(was, was.tmp = 0)
  IN  Write(tested, s.r[i.a], (was.tmp % 12) + 12)
Xor(i, s) ==
  LET was == ReadForWrite(s, Address(i, s))
  IN  Write(was, Address(i, s), Size - 1 - was.tmp)

(* STC, STS and their stores                                               *)
SaveRegister(i, s) ==
  IF i.op = "stc" THEN SetR(s, i.a, Get(s, i.reg))
  ELSE Add(Write(CheckWrite(s, s.r[i.a], 4), s.r[i.a] - 4, Get(s, i.reg)), i.a, -4)

(* MAC @Rm+, @Rn+ with one register: two operands in a row                 *)
MacOfOne(i, s) ==
  LET first == Read(CheckRead(s, s.r[i.d], i.size), s.r[i.d])
      second == Read(first, s.r[i.d] + i.size)
  IN  Add(Accumulate(second, first.tmp, second.tmp), i.d, 2 * i.size)
Products(i, s, one, other) ==
  Add(Add(Accumulate(s, one, other), i.d, i.size), i.a, i.size)

-----------------------------------------------------------------------------
(* The interpreter                                                         *)

CoreLoad(i, s, slot) ==
  LET checked == IF i.form = "@(disp,PC)" THEN CheckSlot(s, slot)
                 ELSE IF i.size = 1 THEN s
                 ELSE CheckRead(s, Address(i, s), i.size)
      read == Read(checked, Address(i, s))
      loaded == SetR(read, i.d, read.tmp)
  IN  IF i.a = i.d THEN loaded ELSE Moved(i, loaded, i.size)
CoreStore(i, s) ==
  LET checked == IF i.size = 1 THEN s ELSE CheckWrite(s, Address(i, s), i.size)
  IN  Moved(i, Write(checked, Destination(i, s), s.r[i.d]), -i.size)

(* The FPU is not asked for.                                               *)
CoreFloat(i, s) ==
  CASE i.op = "fmov" -> FloatMove(i, s)
    [] i.op = "fload" -> FloatLoad(i, s, CheckRead(s, Address(i, s), Width(i, s)))
    [] i.op = "fstore" ->
         FloatStore(i, s, CheckWrite(s, Destination(i, s), Width(i, s)))

CoreAllowed(i, s, slot) ==
  LET placed == IF i.reg = "SR" /\ i.op \in {"ldc", "ldc@"} THEN CheckSlot(s, slot)
                ELSE s
  IN  CASE Privileged(i) -> CheckPriv(placed, slot)
        [] UsesFpu(i) -> CheckFpu(placed, slot)
        [] OTHER -> placed
CoreSystem(i, s, slot) ==
  LET allowed == CoreAllowed(i, s, slot)
      checked == IF i.reg = "SR" THEN CheckWrite(allowed, s.r[i.a], 4)
                 ELSE CheckRead(allowed, s.r[i.a], 4)
      read == Read(checked, s.r[i.a])
  IN  CASE i.op = "ldc" -> Put(allowed, i.reg, s.r[i.a])
        [] i.op = "ldc@" /\ i.reg = "FPSCR" ->
             Put(Add(read, i.a, 4), i.reg, read.tmp)
        [] i.op = "ldc@" -> Add(Put(read, i.reg, read.tmp), i.a, 4)
        [] OTHER -> SaveRegister(i, allowed)

CoreMac(i, s) ==
  LET checked == IF i.size = 4
                 THEN CheckRead(CheckRead(s, s.r[i.a], 4), s.r[i.d], 4)
                 ELSE CheckRead(s, s.r[i.d], 2)
      first == Read(checked, s.r[i.d])
      second == Read(CheckRead(first, s.r[i.a], i.size), s.r[i.a])
  IN  IF i.a = i.d THEN MacOfOne(i, s)
      ELSE Products(i, second, first.tmp, second.tmp)

(* sh4_execute_instruction                                                 *)
CoreDoes(i, s, slot) ==
  CASE i.op = "load" -> CoreLoad(i, s, slot)
    [] i.op = "store" -> CoreStore(i, s)
    [] i.op = "tas" -> TestAndSet(i, s)
    [] i.op = "xor" -> Xor(i, s)
    [] i.op = "mac" -> CoreMac(i, s)
    [] IsFloat(i) -> CoreFloat(i, s)
    [] OTHER -> CoreSystem(i, s, slot)

-----------------------------------------------------------------------------
(* Translated code                                                         *)

(* A literal in the page of the code is taken from there, without the MMU. *)
X86Load(i, s, slot) ==
  LET checked == IF i.size = 1 THEN s ELSE CheckRead(s, Address(i, s), i.size)
      read == Read(checked, Address(i, s))
      moved == IF i.a = i.d THEN read ELSE Moved(i, read, i.size)
      literal == Fetched(CheckSlot(s, slot), Literal)
  IN  IF i.form = "@(disp,PC)" THEN SetR(literal, i.d, literal.tmp)
      ELSE SetR(moved, i.d, read.tmp)

(* MOV.L to @Rn and @(disp,Rn) knows the store queue.                      *)
X86Store(i, s) ==
  LET to == Destination(i, s)
      checked == CASE i.size = 1 -> s
                   [] i.size = 2 -> CheckWrite(s, Address(i, s), 2)
                   [] i.size = 4 -> CheckWrite(s, to, 4)
      direct == i.size = 4 /\ i.form \in {"@R", "@(disp,R)"} /\ IsQueue(to)
  IN  IF direct THEN Stored(checked, to, s.r[i.d])
      ELSE Moved(i, Write(checked, to, s.r[i.d]), -i.size)

(* check_fpuen: once in a block                                            *)
X86CheckFpu(s, slot) ==
  IF s.checked THEN s
  ELSE CheckFpu([s EXCEPT !.checked = TRUE, !.flags = FALSE, !.known = FALSE], slot)
X86Float(i, s, slot) ==
  LET allowed == X86CheckFpu(s, slot)
  IN  CASE i.op = "fmov" -> FloatMove(i, allowed)
        [] i.op = "fload" ->
             FloatLoad(i, s, CheckRead(allowed, Address(i, s), Width(i, s)))
        [] i.op = "fstore" ->
             FloatStore(i, s, CheckWrite(allowed, Address(i, s), Width(i, s)))

X86Allowed(i, s, slot) ==
  LET placed == IF i.reg = "SR" /\ i.op \in {"ldc", "ldc@"} THEN CheckSlot(s, slot)
                ELSE s
  IN  CASE Privileged(i) -> CheckPriv(placed, slot)
        [] UsesFpu(i) -> X86CheckFpu(placed, slot)
        [] OTHER -> placed
X86System(i, s, slot) ==
  LET allowed == X86Allowed(i, s, slot)
      read == Read(CheckRead(allowed, s.r[i.a], 4), s.r[i.a])
  IN  CASE i.op = "ldc" -> Put(allowed, i.reg, s.r[i.a])
        [] i.op = "ldc@" -> Put(Add(read, i.a, 4), i.reg, read.tmp)
        [] OTHER -> SaveRegister(i, allowed)

X86Mac(i, s) ==
  LET one == IF i.size = 4 THEN s.r[i.a] ELSE s.r[i.d]
      other == IF i.size = 4 THEN s.r[i.d] ELSE s.r[i.a]
      first == Read(CheckRead(s, one, i.size), one)
      second == Read(CheckRead(first, other, i.size), other)
  IN  IF i.a = i.d THEN MacOfOne(i, s)
      ELSE Products(i, second, first.tmp, second.tmp)

(* The instructions that leave tstate as it is.                            *)
KeepsFlags(i) ==
  \/ i.form = "@(disp,PC)" \/ i.op = "fmov"
  \/ i.op = "ldc" /\ i.reg \in {"GBR", "PR", "FPUL"}
  \/ i.op = "stc" /\ i.reg \in {"GBR", "PR", "FPUL", "FPSCR"}

(* sh4_translate_instruction                                               *)
X86Does(i, s, slot) ==
  LET after == CASE i.op = "load" -> X86Load(i, s, slot)
                 [] i.op = "store" -> X86Store(i, s)
                 [] i.op = "tas" -> TestAndSet(i, s)
                 [] i.op = "xor" -> Xor(i, s)
                 [] i.op = "mac" -> X86Mac(i, s)
                 [] IsFloat(i) -> X86Float(i, s, slot)
                 [] OTHER -> X86System(i, s, slot)
  IN  IF KeepsFlags(i) THEN after ELSE [after EXCEPT !.known = FALSE]

-----------------------------------------------------------------------------
Machine(r, tlb, mode, fpu, checked) ==
  [r |-> r, bank |-> [k \in 0 .. 1 |-> 5 + 4 * k], gbr |-> r[2], vbr |-> 1, pr |-> 2,
   fpul |-> 3, fr |-> [b \in 0 .. 1 |-> [k \in 0 .. 1 |-> 10 + 2 * b + k]],
   md |-> mode.md, rb |-> mode.rb, sqmd |-> mode.sqmd, fd |-> fpu.fd, sz |-> fpu.sz,
   frb |-> FALSE, t |-> 0, mac |-> 1, mem |-> [c \in 0 .. 5 |-> (14 + 5 * c) % Size],
   tlb |-> tlb, tmp |-> 0, exc |-> "none", tea |-> 0, ssr |-> 0, done |-> FALSE,
   known |-> TRUE, flags |-> TRUE, checked |-> checked]

Start(s, i, slot) ==
  /\ ins = [code |-> i, slot |-> slot]
  /\ before = s /\ core = s /\ x86 = s
  /\ tries = 0

(* One instruction, for a run that is about something else.                *)
Idle ==
  Start(Machine([k \in 0 .. 2 |-> 4], [p \in Page |-> "dirty"],
                [md |-> TRUE, rb |-> FALSE, sqmd |-> FALSE],
                [fd |-> FALSE, sz |-> FALSE], FALSE),
        I("load", 4, "@R", 1, 1, ""), FALSE)

Init ==
  \E i \in Instructions, tlb \in Tlbs, slot \in BOOLEAN, checked \in BOOLEAN,
     r \in Registers,
     mode \in [md : BOOLEAN, rb : BOOLEAN, sqmd : BOOLEAN],
     fpu \in [fd : BOOLEAN, sz : BOOLEAN] :
    /\ slot => UsesFpu(i) \/ Privileged(i) \/ i.form = "@(disp,PC)"
    /\ checked => UsesFpu(i) /\ ~fpu.fd
    /\ mode.rb => i.reg \in {"SR", "BANK"}
    /\ mode.sqmd => i.size = 4 /\ i.reg = "" /\ ~mode.md
    /\ fpu.fd => UsesFpu(i)
    /\ fpu.sz => IsFloat(i)
    /\ i.size < 4 => \A k \in 1 .. 2 : r[k] < 16
    /\ Start(Machine(r, tlb, mode, fpu, checked), i, slot)

(* What the guest's handler mends: it maps the page, and for a write marks *)
(* it as written; it returns by RTE.                                       *)
Mendable(s) == s.exc \in {"miss read", "miss write", "first write"}
Mended(s) ==
  IF ~Mendable(s) THEN s
  ELSE [WriteSr(s, s.ssr) EXCEPT
          !.exc = "none",
          !.tlb[s.tea \div 8] = IF s.exc = "miss read" THEN "clean" ELSE "dirty"]

Ready(s) == Live(s) /\ ~s.done
Completed(s) == [s EXCEPT !.done = Live(s)]

Settled(s) == ~Ready(s) /\ ~Mendable(s)
Execute ==
  /\ Ready(core) \/ Ready(x86)
  /\ ~Mendable(core) /\ ~Mendable(x86)
  /\ core' = IF ~Ready(core) THEN core
             ELSE Completed(CoreDoes(ins.code, core, ins.slot))
  /\ x86' = IF ~Ready(x86) THEN x86 ELSE Completed(X86Does(ins.code, x86, ins.slot))
  /\ tries' = tries + 1
  /\ UNCHANGED <<ins, before>>

Mend ==
  /\ Mendable(core) \/ Mendable(x86)
  /\ core' = Mended(core) /\ x86' = Mended(x86)
  /\ UNCHANGED <<ins, before, tries>>

Next == Execute \/ Mend
Spec == Init /\ [][Next]_vars

-----------------------------------------------------------------------------
(* Properties                                                              *)

Visible(s) ==
  <<s.r, s.bank, s.gbr, s.vbr, s.pr, s.fpul, s.fr, s.mac, s.mem,
    s.md, s.rb, s.fd, s.sz, s.frb, s.t>>

(* Where the engines are known to differ (see README.md).                  *)
Differs ==
  LET i == ins.code
  IN  \/ IsFloat(i) /\ before.fd
      \/ i.op = "ldc@" /\ i.reg = "SR" /\ (i.a < 2 \/ before.r[i.a] % 4 # 0)
      \/ i.form = "@(disp,PC)" /\ ReadFault(before, Literal) # "none"
      \/ i.op = "store" /\ before.sqmd /\ IsQueue(Address(i, before))

(* An exception finds the registers and memory as they were before the     *)
(* instruction: the handler may return to it.  (sh4_raise_exception,       *)
(* sh4_raise_tlb_exception, JNE_exc)                                       *)
Precise ==
  \A s \in {core, x86} : ~Live(s) => Visible(WriteSr(s, s.ssr)) = Visible(before)

(* Executed again as often as the handler returns, the instruction does    *)
(* the same in both engines, or is refused by both.                        *)
EnginesAgree ==
  Settled(core) /\ Settled(x86) /\ ~Differs =>
    /\ Live(core) = Live(x86)
    /\ ins.code.op # "mac" => core.exc = x86.exc
    /\ Visible(core) = Visible(x86)

(* The condition that the translator believes to be T is T.                *)
ConditionTrue == x86.done => (x86.known => x86.flags)

(* Two pages are mended in two rounds.                                     *)
Finishes == tries = 3 => Settled(core) /\ Settled(x86)

AccessTrue == Precise /\ EnginesAgree /\ ConditionTrue /\ Finishes
=============================================================================
