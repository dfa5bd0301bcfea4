-------------------------------- MODULE Decode --------------------------------
(***************************************************************************)
(* decode_one_at (prisma-decoder, decode.rs and tables.rs): control        *)
(* transfers, system instructions, and the dispatch on the opcode.         *)
(*                                                                         *)
(* Not decoded here: CRC32 and the half-precision conversions, whose       *)
(* operations this model of the backend does not have.                     *)
(***************************************************************************)
EXTENDS DecodeData

-----------------------------------------------------------------------------
\* Control transfers.  i.imm is the signed displacement.

CondJumpTo(i, cc, len) ==
  Exit("CondJumpRel", cc, << >>, <<Wrap(i.pc + len + i.imm), Wrap(i.pc + len)>>)

CondJumpRel8(i) ==
  DecodedIf(~i.p.rex.rex /\ ~i.p.opsz /\ Cond(i) # "", <<CondJumpTo(i, Cond(i), 2)>>, 2)

CondJumpRel32(i) ==
  DecodedIf(~i.p.rex.rex /\ ~i.p.opsz /\ i.p.rep # \hF3 /\ Cond(i) # "",
            <<CondJumpTo(i, Cond(i), 6)>>, 5)

CallRel32(i) ==
  DecodedIf(PlainStack(i), <<Exit("CallRel", "", << >>, <<Wrap(i.pc + 5 + i.imm), Wrap(i.pc + 5)>>)>>, 5)

JumpRel(i, len) ==
  DecodedIf(PlainStack(i), <<Exit("JumpRel", "", << >>, <<Wrap(i.pc + len + i.imm)>>)>>, len)

LoopPrefix(i) == PlainStack(i) /\ NoRep(i)
CounterSize(i) == IF i.p.addrsz THEN "I32" ELSE "I64"

JrcxzRel8(i) ==
  LET sz == CounterSize(i)
      rcx == PushLoadReg(<< >>, "Rcx", sz)
      zero == PushConst(rcx, 0, sz)
      flags == PushCmp(zero, Ref(rcx), Ref(zero), sz)
  IN  DecodedIf(LoopPrefix(i), Push(flags, CondJumpTo(i, "Eq", 2)), 2)

LoopRel8(i) ==
  LET sz == CounterSize(i)
      rcx == PushLoadReg(<< >>, "Rcx", sz)
      dec == PushBinConst(rcx, "Sub", Ref(rcx), 1, sz)
      zero == PushConst(PushStoreReg(dec, "Rcx", Ref(dec), sz), 0, sz)
      flags == PushCmp(zero, Ref(dec), Ref(zero), sz)
  IN  DecodedIf(LoopPrefix(i), Push(flags, CondJumpTo(i, "Ne", 2)), 2)

Ret(i) == DecodedIf(PlainStack(i), <<Exit("Return", "", << >>, << >>)>>, 1)
RetImm16(i) ==
  DecodedIf(PlainStack(i), <<Exit("RetAdjusted", "", << >>, <<Mask(i.imm, "I16") + Slot>>)>>, 3)

\* CALL and JMP through an r/m operand: the target's reference is allocated
\* before the address is computed, so the address shares its number.
IndirectTarget(i) ==
  LET addr == EmitAddr(<< >>, i)
  IN  IF IsReg(i) THEN PushLoadReg(<< >>, RmField(i), "I64")
      ELSE Push(addr, LoadMem(0, "LoadMem", Ref(addr), "I64"))

CallRm(i, used) ==
  Decoded(Push(IndirectTarget(i), Exit("CallReg", "", <<0>>, <<Wrap(i.pc + used)>>)), used)
JumpRm(i, used) == Decoded(Push(IndirectTarget(i), Exit("JumpReg", "", <<0>>, << >>)), used)
PushRm(i, used) == LET v == LoadRm(<< >>, i, "I64") IN Decoded(PushSlot(v, Ref(v)), used)

\* INC, DEC, CALL, JMP and PUSH.
Group5(i) ==
  LET used == 1 + RmBytes(i)
  IN  CASE i.m.reg \in {0, 1} -> IncDec(i, OperandSize(i.p))
        [] i.m.reg = 2 -> CallRm(i, used)
        [] i.m.reg = 4 -> JumpRm(i, used)
        [] i.m.reg = 6 -> PushRm(i, used)
        [] OTHER -> Rejected

-----------------------------------------------------------------------------
\* System instructions: the ones user code may not execute become traps.

TrapOf(i, kind, used) == DecodedIf(Plain(i), TrapBlock(kind), used)
OneByteTrap(i, kind) == TrapOf(i, kind, 1)
TwoByteTrap(i) == TrapOf(i, "Sigill", 1)
Ud2(i) == TrapOf(i, "Sigill", 1)
IntImm8(i) == TrapOf(i, "Sigtrap", 2)
LegacyInvalidImm8(i) == TrapOf(i, "Sigill", 2)
IoTrapImm8(i) == TrapOf(i, "Sigill", 2)
\* With F3, 0F 09 is WBNOINVD.
CacheTrap(i) ==
  TrapOf([i EXCEPT !.p.rep = IF i.op = \h09 /\ @ = \hF3 THEN 0 ELSE @], "Sigill", 1)
NoOp(accepted, used) == DecodedIf(accepted, << >>, used)

DescriptorGroup(i) ==
  IF i.m.reg \in {2, 3} THEN TrapOf(i, "Sigill", 1 + BytesForModrm(i)) ELSE Rejected

\* decode_two_byte_any_rm_trap, and decode_two_byte_rm_trap for registers only.
AnyRmTrap(i) == TrapOf(i, "Sigill", 1 + BytesForModrm(i))
RmTrap(i) == IF IsReg(i) THEN AnyRmTrap(i) ELSE Rejected

NopRm(i) == NoOp(i.m.reg = 0, 1 + BytesForModrm(i))
Prefetch(i) == NoOp(~IsReg(i) /\ i.m.reg <= 3, 1 + BytesForModrm(i))
Prefetchw(i) == NoOp(~IsReg(i) /\ i.m.reg <= 1, 1 + BytesForModrm(i))
MmxStateNoop(i) == NoOp(Plain(i), 1)
Endbr(i) ==
  NoOp(Plain([i EXCEPT !.p.rep = 0]) /\ i.p.rep = \hF3 /\ i.m \in {ParseModrm(\hFA), ParseModrm(\hFB)}, 2)

\* A value of the host split into EDX:EAX.
SplitEdxEax(op) ==
  LET v == <<Stmt(0, op, "", "", "I64", << >>, << >>)>>
      lo == PushStoreReg(v, "Rax", 0, "I32")
      hi == PushBinConst(lo, "Shr", 0, Bits.I32, "I64")
  IN  PushStoreReg(hi, "Rdx", Ref(hi), "I32")

Rdtsc(i) == DecodedIf(Plain(i), SplitEdxEax("Rdtsc"), 1)
Xgetbv(i) == DecodedIf(Plain(i), SplitEdxEax("Xgetbv"), 2)
Cpuid(i) == DecodedIf(Plain(i), <<Effect("Cpuid", << >>)>>, 1)

SystemGroup(i) ==
  LET r == i.m.reg
      n == i.m.rm
      privilegedReg == \/ r = 0 /\ n \in 1 .. 4
                       \/ r = 1 /\ n \in {0, 1, 2, 3, 7}
                       \/ r = 2 /\ n \in {1, 4}
                       \/ r = 3
                       \/ r = 7 /\ n = 0
  IN  CASE IsReg(i) /\ r = 2 /\ n = 0 -> Xgetbv(i)
        [] IsReg(i) /\ privilegedReg -> TrapOf(i, "Sigill", 2)
        [] (~IsReg(i) /\ r \in {2, 3, 7}) \/ r = 6 -> TrapOf(i, "Sigill", 1 + BytesForModrm(i))
        [] OTHER -> Rejected

\* CLFLUSH(OPT) and CLWB are no-ops, LFENCE, MFENCE and SFENCE a fence.
Fence(i) ==
  LET flush == /\ ~IsReg(i) /\ (i.m.reg = 7 \/ (i.m.reg = 6 /\ i.p.opsz))
               /\ NoRepLockSeg(i) /\ ~i.p.rex.rex /\ ~i.p.addrsz
  IN  IF flush THEN NoOp(TRUE, 1 + BytesForModrm(i))
      ELSE DecodedIf(Plain(i) /\ IsReg(i) /\ i.m.rm = 0 /\ i.m.reg \in 5 .. 7,
                     <<Effect("Fence", << >>)>>, 2)

SyscallOp(i) == DecodedIf(Plain(i), <<Exit("Syscall", "", << >>, << >>)>>, 1)

X87(i) ==
  NoOp(/\ Plain(i) /\ IsReg(i)
       /\ IF i.op = \hD9 THEN i.m.reg = 2 /\ i.m.rm = 0 ELSE i.m.reg = 4 /\ i.m.rm \in {2, 3}, 2)

Nop(i) ==
  NoOp(\/ Plain([i EXCEPT !.p.rep = 0]) /\ i.p.rep = \hF3
       \/ NoRep(i) /\ ~i.p.rex.w, 1)

-----------------------------------------------------------------------------
\* The one-byte opcodes.

LegacyInvalid == {\h06, \h07, \h0E, \h16, \h17, \h1E, \h1F, \h27, \h2F, \h37, \h3F,
                  \h60, \h61, \h9A, \hCE, \hD6, \hEA}

\* Opcodes 00-3F: operation and operand form in one byte.
AluForm(i) ==
  LET k == AluOps[1 + i.op \div 8]
      form == i.op % 8
      sz == SizeOf(i)
  IN  CASE i.op \in LegacyInvalid -> OneByteTrap(i, "Sigill")
        [] form \in {4, 5} -> AccImm(i)
        [] form \in {0, 1} /\ k \in {"Adc", "Sbb"} -> AdcSbbRmR(i, k = "Sbb", sz)
        [] form \in {2, 3} /\ k \in {"Adc", "Sbb"} -> AdcSbbRRm(i, k = "Sbb", sz)
        [] form \in {0, 1} /\ k = "Cmp" -> CmpRmR(i, sz)
        [] form \in {2, 3} /\ k = "Cmp" -> CmpRRm(i, sz)
        [] form \in {0, 1} /\ k \notin {"Adc", "Sbb", "Cmp"} -> BinopRmR(i, k, sz)
        [] form \in {2, 3} /\ k \notin {"Adc", "Sbb", "Cmp"} -> BinopRRm(i, k, sz)
        [] OTHER -> Rejected

\* Moves, exchanges, the stack and the string instructions.
DataForm(i) ==
  CASE i.op \in {\h88, \h89} -> MovRmR(i, SizeOf(i))
    [] i.op \in {\h8A, \h8B} -> MovRRm(i, SizeOf(i))
    [] i.op \in \h50 .. \h57 -> PushR(i)
    [] i.op \in \h58 .. \h5F -> PopR(i)
    [] i.op \in {\h68, \h6A} -> PushImm(i)
    [] i.op = \h8D -> Lea(i)
    [] i.op = \h8F -> PopRm(i)
    [] i.op \in {\h86, \h87} -> Xchg(i)
    [] i.op \in \h91 .. \h97 -> XchgAcc(i)
    [] i.op = \h98 -> SignExtendAcc(i)
    [] i.op = \h99 -> SignExtendAccToDx(i)
    [] i.op \in \hA0 .. \hA3 -> MovMoffs(i)
    [] i.op \in {\hA4, \hA5} -> Movs(i)
    [] i.op \in {\hA6, \hA7} -> Cmps(i)
    [] i.op \in {\hAA, \hAB} -> Stos(i)
    [] i.op \in {\hAC, \hAD} -> Lods(i)
    [] i.op \in {\hAE, \hAF} -> Scas(i)
    [] i.op \in \hB0 .. \hB7 -> MovR8I8(i)
    [] i.op \in \hB8 .. \hBF -> MovRI(i)
    [] i.op \in {\hC6, \hC7} -> MovRmImm(i)
    [] i.op = \hC8 -> Enter(i)
    [] i.op = \hC9 -> Leave64(i)
    [] i.op = \hD7 -> Xlat(i)
    [] i.op = \h63 -> Movsxd(i)
DataOps == {\h63, \h68, \h6A, \h86, \h87, \h8D, \h8F, \h98, \h99, \hC6, \hC7, \hC8, \hC9, \hD7}
             \union (\h50 .. \h5F) \union (\h88 .. \h8B) \union (\h91 .. \h97)
             \union ((\hA0 .. \hBF) \ {\hA8, \hA9})

\* Arithmetic groups, RFLAGS transfers and no-ops.
GroupForm(i) ==
  CASE i.op \in {\h80, \h81, \h83} -> AluRmImm(i)
    [] i.op \in {\h84, \h85} -> TestRmR(i, SizeOf(i))
    [] i.op \in {\hA8, \hA9} -> AccImm(i)
    [] i.op \in {\hC0, \hC1} \union (\hD0 .. \hD3) -> Group2(i)
    [] i.op \in {\h69, \h6B} -> ImulImm(i)
    [] i.op \in {\hF6, \hF7} -> Group3(i)
    [] i.op = \hFE -> Group4(i)
    [] i.op = \hFF -> Group5(i)
    [] i.op = \h9C -> Pushfq(i)
    [] i.op = \h9D -> Popfq(i)
    [] i.op = \h9E -> Sahf(i)
    [] i.op = \h9F -> Lahf(i)
    [] i.op = \h90 -> Nop(i)
    [] i.op \in {\h9B, \hFC} -> NoOp(Plain(i), 1)
    [] i.op \in {\hD9, \hDB} -> X87(i)
GroupOps == {\h80, \h81, \h83, \h84, \h85, \hA8, \hA9, \hC0, \hC1, \h69, \h6B, \hF6, \hF7, \hFE,
             \hFF, \h90, \h9B, \hFC, \hD9, \hDB} \union (\hD0 .. \hD3) \union (\h9C .. \h9F)

\* Jumps, calls, returns and traps.
ControlForm(i) ==
  CASE i.op \in \h70 .. \h7F -> CondJumpRel8(i)
    [] i.op = \hE8 -> CallRel32(i)
    [] i.op = \hE9 -> JumpRel(i, 5)
    [] i.op = \hEB -> JumpRel(i, 2)
    [] i.op = \hE2 -> LoopRel8(i)
    [] i.op = \hE3 -> JrcxzRel8(i)
    [] i.op = \hC3 -> Ret(i)
    [] i.op = \hC2 -> RetImm16(i)
    [] i.op \in {\hCC, \hF1} -> OneByteTrap(i, "Sigtrap")
    [] i.op = \hCD -> IntImm8(i)
    [] i.op \in {\hD4, \hD5} -> LegacyInvalidImm8(i)
    [] i.op \in \hE4 .. \hE7 -> IoTrapImm8(i)
    [] i.op \in LegacyInvalid \union {\hCF, \hF4, \hFA, \hFB} \union (\hEC .. \hEF) ->
         OneByteTrap(i, "Sigill")
    [] OTHER -> Rejected

DecodeOneByte(i) ==
  CASE i.op < \h40 -> AluForm(i)
    [] i.op \in DataOps -> DataForm(i)
    [] i.op \in GroupOps -> GroupForm(i)
    [] OTHER -> ControlForm(i)

-----------------------------------------------------------------------------
\* decode_two_byte: the counts are from the second opcode byte on.

TwoByteData(i) ==
  CASE i.op \in \h40 .. \h4F -> Cmov(i)
    [] i.op \in \h90 .. \h9F -> Setcc(i)
    [] i.op \in {\hB6, \hB7} -> MovExtend(i, IF i.op = \hB6 THEN "I8" ELSE "I16", FALSE)
    [] i.op \in {\hBE, \hBF} -> MovExtend(i, IF i.op = \hBE THEN "I8" ELSE "I16", TRUE)
    [] i.op = \hAF -> BinopRRm(i, "Mul", OperandSize(i.p))
    [] i.op \in {\hB0, \hB1} -> Cmpxchg(i)
    [] i.op = \hB8 -> IF i.p.rep = \hF3 THEN Popcnt(i) ELSE Rejected
    [] i.op = \hBA -> BtGroup(i)
    [] i.op = \hBC -> IF i.p.rep = \hF3 THEN CountZeros(i, "Tzcnt") ELSE BsfBsr(i, FALSE)
    [] i.op = \hBD -> IF i.p.rep = \hF3 THEN CountZeros(i, "Lzcnt") ELSE BsfBsr(i, TRUE)
    [] i.op \in {\hC0, \hC1} -> Xadd(i)
    [] i.op = \hC3 -> Movnti(i)
    [] i.op = \hC7 -> Cmpxchg8b16b(i)
    [] i.op \in \hC8 .. \hCF -> Bswap(i)
TwoByteDataOps == (\h40 .. \h4F) \union (\h90 .. \h9F) \union (\hB6 .. \hB8) \union (\hBC .. \hBF)
                    \union (\hC8 .. \hCF) \union {\hAF, \hB0, \hB1, \hBA, \hC0, \hC1, \hC3, \hC7}

TwoByteSystem(i) ==
  CASE i.op = \h00 -> DescriptorGroup(i)
    [] i.op = \h01 -> SystemGroup(i)
    [] i.op = \h05 -> SyscallOp(i)
    [] i.op \in {\h06, \h07, \h30, \h32, \h33, \h34, \h35, \h37, \hAA} -> TwoByteTrap(i)
    [] i.op \in {\h08, \h09} -> CacheTrap(i)
    [] i.op = \h0B -> Ud2(i)
    [] i.op = \h0D -> Prefetchw(i)
    [] i.op \in {\h0E, \h77} -> MmxStateNoop(i)
    [] i.op = \h18 -> Prefetch(i)
    [] i.op = \h1E -> Endbr(i)
    [] i.op = \h1F -> NopRm(i)
    [] i.op \in \h20 .. \h23 -> RmTrap(i)
    [] i.op \in {\h78, \h79, \hB9, \hFF} -> AnyRmTrap(i)
    [] i.op = \h31 -> Rdtsc(i)
    [] i.op \in \h80 .. \h8F -> CondJumpRel32(i)
    [] i.op = \hA2 -> Cpuid(i)
    [] i.op = \hAE -> Fence(i)
    [] OTHER -> Rejected

AfterEscape(r) == [r EXCEPT !.used = @ + 1]
DecodeTwoByte(i) ==
  AfterEscape(IF i.op \in TwoByteDataOps THEN TwoByteData(i) ELSE TwoByteSystem(i))

DecodeThreeByte(i) ==
  AfterEscape(IF i.op \in {\hF0, \hF1} /\ i.p.rep # \hF2 THEN Movbe(i) ELSE Rejected)

\* decode_three_byte_0f3a.
DecodeThreeByte3a(i) ==
  AfterEscape(CASE i.op = \h44 -> Pclmulqdq(i)
                [] i.op \in \h60 .. \h63 -> Pcmpxstr(i)
                [] OTHER -> Rejected)

(***************************************************************************)
(* decode_one_at: the statements of instruction i at guest address pc and  *)
(* the bytes it takes, prefixes included.                                  *)
(***************************************************************************)
DecodeOneAt(i, pc) ==
  LET n == In(i, pc)
      r == CASE n.p.vex.on -> DecodeVex(n)
             [] ~n.p.vex.on /\ i.esc = "1" -> DecodeOneByte(n)
             [] ~n.p.vex.on /\ i.esc = "0F" -> DecodeTwoByte(n)
             [] ~n.p.vex.on /\ i.esc = "0F38" -> DecodeThreeByte(n)
             [] ~n.p.vex.on /\ i.esc = "0F3A" -> DecodeThreeByte3a(n)
  IN  IF r.ok THEN [r EXCEPT !.used = @ + Len(i.pre)] ELSE Rejected
=============================================================================
