----------------------------- MODULE DecodeArith -----------------------------
(***************************************************************************)
(* The decoders of the arithmetic, logic, shift and bit instructions       *)
(* (prisma-decoder, decode.rs).  Each takes a parsed instruction i (see    *)
(* Decoder) and returns the IR statements and the bytes used from the      *)
(* opcode on, or an error.                                                 *)
(***************************************************************************)
EXTENDS Decoder

-----------------------------------------------------------------------------
\* Immediates.

\* Even opcodes of a pair are the byte forms.
SizeOf(i) == IF i.op % 2 = 0 THEN "I8" ELSE OperandSize(i.p)
\* A 64-bit operand has a 32-bit immediate.
ImmSize(sz) == IF sz = "I64" THEN "I32" ELSE sz
ImmBytes(sz) == ByteCount[ImmSize(sz)]
\* An immediate of that size, sign-extended to 64 bits for a 64-bit operand.
ImmValue(raw, sz) == IF sz = "I64" THEN Wrap(Signed(raw, "I32")) ELSE Mask(raw, sz)
ReadImm(i, sz) == ImmValue(i.imm, sz)

(***************************************************************************)
(* The decoders that take the immediate's offset from bytes_for_modrm:     *)
(* with a register operand and rm 4 (RSP, R12) a SIB byte is counted that  *)
(* is not there, and the immediate is read one byte too late.              *)
(***************************************************************************)
CountsSib(i) == IsReg(i) /\ i.m.rm = 4
RawImmAfterModrm(i, sz) ==
  IF CountsSib(i)
  THEN Mask(i.imm, sz) \div ByteSpan + i.next * Pow2[Bits[sz] - Bits.I8]
  ELSE Mask(i.imm, sz)
ImmAfterModrm(i, sz) == ImmValue(RawImmAfterModrm(i, ImmSize(sz)), sz)
\* An 8-bit immediate sign-extended to 64 bits.
SignedImm8(i) == Wrap(Signed(RawImmAfterModrm(i, "I8"), "I8"))

-----------------------------------------------------------------------------
\* Two-operand arithmetic.  The first operand of the pair is loaded first.

BinopRmR(i, k, sz) ==
  LET src == PushLoadReg(<< >>, RegField(i), sz)
      dst == LoadRm(src, i, sz)
      res == PushBin(dst, k, Ref(dst), Ref(src), sz)
      stored == StoreRm(res, i, Ref(dst), Ref(res), sz)
  IN  Decoded(PushAluFlags(stored, k, Ref(dst), Ref(src), sz), 1 + RmBytes(i))

BinopRRm(i, k, sz) ==
  LET dst == PushLoadReg(<< >>, RegField(i), sz)
      src == LoadRm(dst, i, sz)
      res == PushBin(src, k, Ref(dst), Ref(src), sz)
      stored == PushStoreReg(res, RegField(i), Ref(res), sz)
  IN  Decoded(PushAluFlags(stored, k, Ref(dst), Ref(src), sz), 1 + RmBytes(i))

AdcSbbRmR(i, sbb, sz) ==
  LET src == PushLoadReg(<< >>, RegField(i), sz)
      dst == LoadRm(src, i, sz)
      v == PushAdcSbbValue(dst, sbb, Ref(dst), Ref(src), sz)
      stored == StoreRm(v, i, Ref(dst), AdcSbbResult(v), sz)
  IN  Decoded(PushAdcSbbBits(stored, sbb, Ref(dst), Ref(src), AdcSbbResult(v), sz), 1 + RmBytes(i))

AdcSbbRRm(i, sbb, sz) ==
  LET dst == PushLoadReg(<< >>, RegField(i), sz)
      src == LoadRm(dst, i, sz)
  IN  Decoded(PushAdcSbb(src, sbb, Ref(dst), Ref(src), RegField(i), sz), 1 + RmBytes(i))

CmpRmR(i, sz) ==
  LET r == PushLoadReg(<< >>, RegField(i), sz)
      l == LoadRm(r, i, sz)
  IN  Decoded(PushCmpFlags(l, Ref(l), Ref(r), sz), 1 + RmBytes(i))

CmpRRm(i, sz) ==
  LET l == PushLoadReg(<< >>, RegField(i), sz)
      r == LoadRm(l, i, sz)
  IN  Decoded(PushCmpFlags(r, Ref(l), Ref(r), sz), 1 + RmBytes(i))

TestRmR(i, sz) ==
  LET r == PushLoadReg(<< >>, RegField(i), sz)
      l == LoadRm(r, i, sz)
  IN  Decoded(PushAluFlags(l, "And", Ref(l), Ref(r), sz), 1 + RmBytes(i))

\* The operations of opcodes 00-3F and of group 1, in encoding order.
AluOps == <<"Add", "Or", "Adc", "Sbb", "And", "Sub", "Xor", "Cmp">>

AccImm(i) ==
  LET sz == SizeOf(i)
      k == IF i.op \in {\hA8, \hA9} THEN "Test" ELSE AluOps[1 + i.op \div 8]
      l == PushLoadReg(<< >>, "Rax", sz)
      r == PushConst(l, ReadImm(i, sz), sz)
      res == PushBin(r, k, Ref(l), Ref(r), sz)
      stored == PushStoreReg(res, "Rax", Ref(res), sz)
  IN  DecodedIf(NoRepLockSeg(i),
        CASE k = "Cmp" -> PushCmpFlags(r, Ref(l), Ref(r), sz)
          [] k = "Test" -> PushAluFlags(r, "And", Ref(l), Ref(r), sz)
          [] k \in {"Adc", "Sbb"} -> PushAdcSbb(r, k = "Sbb", Ref(l), Ref(r), "Rax", sz)
          [] OTHER -> PushAluFlags(stored, k, Ref(l), Ref(r), sz),
        1 + ImmBytes(sz))

\* Group 1.
AluRmImm(i) ==
  LET sz == SizeOf([i EXCEPT !.op = IF @ = \h80 THEN 0 ELSE 1])
      k == AluOps[1 + i.m.reg]
      bytes == IF i.op = \h83 THEN 1 ELSE ImmBytes(sz)
      used == 1 + BytesForModrm(i) + bytes
      r == PushConst(<< >>, IF i.op = \h83 THEN SignedImm8(i) ELSE ImmAfterModrm(i, sz), sz)
      l == LoadRmAt(r, i, sz, i.pc + used)
      res == PushBin(l, k, Ref(l), Ref(r), sz)
      stored == StoreRm(res, i, Ref(l), Ref(res), sz)
      v == PushAdcSbbValue(l, k = "Sbb", Ref(l), Ref(r), sz)
      storedV == StoreRm(v, i, Ref(l), AdcSbbResult(v), sz)
  IN  Decoded(CASE k = "Cmp" -> PushCmpFlags(l, Ref(l), Ref(r), sz)
                [] k \in {"Adc", "Sbb"} ->
                     PushAdcSbbBits(storedV, k = "Sbb", Ref(l), Ref(r), AdcSbbResult(v), sz)
                [] OTHER -> PushAluFlags(stored, k, Ref(l), Ref(r), sz),
              used)

\* sign_extend_imm8_to_size.
SignExtendImm8(i, sz) == Mask(SignedImm8(i), sz)

ImulImm(i) ==
  LET sz == OperandSize(i.p)
      l == LoadRm(<< >>, i, sz)
      r == PushConst(l, IF i.op = \h6B THEN SignExtendImm8(i, sz) ELSE ImmAfterModrm(i, sz), sz)
      res == PushBin(r, "Mul", Ref(l), Ref(r), sz)
  IN  Decoded(PushStoreReg(res, RegField(i), Ref(res), sz),
              1 + BytesForModrm(i) + (IF i.op = \h6B THEN 1 ELSE ImmBytes(sz)))

-----------------------------------------------------------------------------
\* Multiplication and division into RDX:RAX.

ExtendToI64(b, v, from, signed) ==
  IF from = "I64" THEN b ELSE PushExtend(b, v, from, "I64", signed)

EmitRaxRdxPair(b, rax, rhs, sz, loKind, hiKind) ==
  LET lo == PushBin(b, loKind, rax, rhs, sz)
      hi == PushBin(lo, hiKind, rax, rhs, sz)
  IN  PushStoreReg(PushStoreReg(hi, "Rax", Ref(lo), sz), "Rdx", Ref(hi), sz)

EmitMulPair(b, rax, rhs, sz, signed) ==
  LET l == ExtendToI64(b, rax, sz, signed)
      r == ExtendToI64(l, rhs, sz, signed)
      product == PushBin(r, "Mul", Ref(l), Ref(r), "I64")
      high == PushBinConst(product, "Shr", Ref(product), Bits[sz], "I64")
  IN  CASE sz = "I64" -> EmitRaxRdxPair(b, rax, rhs, sz, "Mul", IF signed THEN "SMulHi" ELSE "UMulHi")
        [] sz = "I8" -> PushStoreReg(product, "Rax", Ref(product), "I16")
        [] OTHER -> PushStoreReg(PushStoreReg(high, "Rax", Ref(product), sz), "Rdx", Ref(high), sz)

SigfpeIf(b, c) == Push(b, TrapIf(c, "Sigfpe"))

DivisorZeroTrap(b, d) ==
  LET zero == PushConst(b, 0, "I64")
      isZero == PushCompare(zero, "Eq", d, Ref(zero), "I64")
  IN  SigfpeIf(isZero, Ref(isZero))

QuotientOverflowTrap(b, q, sz, signed) ==
  LET half == Pow2[Bits[sz] - 1]
      least == PushConst(b, Wrap(-half), "I64")
      most == PushConst(least, half - 1, "I64")
      below == PushCompare(most, "Slt", q, Ref(least), "I64")
      above == PushCompare(below, "Sgt", q, Ref(most), "I64")
      either == PushBin(above, "Or", Ref(below), Ref(above), "I8")
      limit == PushConst(b, AllOnes(sz), "I64")
      over == PushCompare(limit, "Ugt", q, Ref(limit), "I64")
  IN  IF signed THEN SigfpeIf(either, Ref(either)) ELSE SigfpeIf(over, Ref(over))

\* RDX:RAX (AX for the byte form) as one 64-bit value.
Dividend(b, rax, sz, signed) ==
  LET ax == PushLoadReg(b, "Rax", "I16")
      low == ExtendToI64(b, rax, sz, FALSE)
      rdx == PushLoadReg(low, "Rdx", sz)
      high == ExtendToI64(rdx, Ref(rdx), sz, FALSE)
      shifted == PushBinConst(high, "Shl", Ref(high), Bits[sz], "I64")
      both == PushBin(shifted, "Or", Ref(shifted), Ref(low), "I64")
  IN  IF sz = "I8" THEN ExtendToI64(ax, Ref(ax), "I16", signed)
      ELSE IF signed /\ sz = "I16" THEN ExtendToI64(both, Ref(both), "I32", TRUE)
      ELSE both

\* AL := quotient, AH := remainder.
StoreAhAl(b, q, r) ==
  LET qb == PushUnary(b, "Truncate", q, "I8")
      rb == PushUnary(qb, "Truncate", r, "I8")
      qw == PushExtend(rb, Ref(qb), "I8", "I16", FALSE)
      rw == PushExtend(qw, Ref(rb), "I8", "I16", FALSE)
      hi == PushBinConst(rw, "Shl", Ref(rw), Bits.I8, "I16")
      ax == PushBin(hi, "Or", Ref(hi), Ref(qw), "I16")
  IN  PushStoreReg(ax, "Rax", Ref(ax), "I16")

EmitWideDiv(b, rax, rhs, signed) ==
  LET rdx == PushLoadReg(b, "Rdx", "I64")
      guarded == DivisorZeroTrap(rdx, rhs)
      wide(c, part) == Push(c, Stmt(AllocRef(c), "WideDiv", IF signed THEN "signed" ELSE "unsigned",
                                    part, "I64", <<Ref(rdx), rax, rhs>>, << >>))
      q == wide(guarded, "Q")
      r == wide(q, "R")
  IN  PushStoreReg(PushStoreReg(r, "Rax", Ref(q), "I64"), "Rdx", Ref(r), "I64")

EmitDivPair(b, rax, rhs, sz, signed) ==
  LET dividend == Dividend(b, rax, sz, signed)
      divisor == ExtendToI64(dividend, rhs, sz, signed)
      guarded == DivisorZeroTrap(divisor, Ref(divisor))
      q == PushBin(guarded, IF signed THEN "SDiv" ELSE "UDiv", Ref(dividend), Ref(divisor), "I64")
      r == PushBin(q, IF signed THEN "SMod" ELSE "UMod", Ref(dividend), Ref(divisor), "I64")
      fits == QuotientOverflowTrap(r, Ref(q), sz, signed)
  IN  CASE sz = "I64" -> EmitWideDiv(b, rax, rhs, signed)
        [] sz = "I8" -> StoreAhAl(fits, Ref(q), Ref(r))
        [] OTHER -> PushStoreReg(PushStoreReg(fits, "Rax", Ref(q), sz), "Rdx", Ref(r), sz)

\* TEST, NOT, NEG, MUL, IMUL, DIV and IDIV.
TestRmImm(i, sz) ==
  LET imm == PushConst(<< >>, ImmAfterModrm(i, sz), sz)
      v == LoadRm(imm, i, sz)
  IN  Decoded(PushAluFlags(v, "And", Ref(v), Ref(imm), sz), 1 + BytesForModrm(i) + ImmBytes(sz))

\* NOT is an exclusive or with ones, NEG a subtraction from zero; neither
\* publishes flags.
Not(i, sz) ==
  LET v == LoadRm(<< >>, i, sz)
      ones == PushConst(v, AllOnes(sz), sz)
      res == PushBin(ones, "Xor", Ref(v), Ref(ones), sz)
  IN  Decoded(StoreRm(res, i, Ref(v), Ref(res), sz), 1 + RmBytes(i))

Neg(i, sz) ==
  LET v == LoadRm(<< >>, i, sz)
      zero == PushConst(v, 0, sz)
      res == PushBin(zero, "Sub", Ref(zero), Ref(v), sz)
  IN  Decoded(StoreRm(res, i, Ref(v), Ref(res), sz), 1 + RmBytes(i))

MulDiv(i, sz) ==
  LET rax == PushLoadReg(<< >>, "Rax", sz)
      rhs == LoadRm(rax, i, sz)
      signed == i.m.reg \in {5, 7}
  IN  Decoded(IF i.m.reg \in {4, 5} THEN EmitMulPair(rhs, Ref(rax), Ref(rhs), sz, signed)
              ELSE EmitDivPair(rhs, Ref(rax), Ref(rhs), sz, signed), 1 + RmBytes(i))

Group3(i) ==
  CASE i.m.reg = 0 -> TestRmImm(i, SizeOf(i))
    [] i.m.reg = 1 -> Rejected
    [] i.m.reg = 2 -> Not(i, SizeOf(i))
    [] i.m.reg = 3 -> Neg(i, SizeOf(i))
    [] i.m.reg >= 4 -> MulDiv(i, SizeOf(i))

\* INC and DEC of group 4 (bytes) and group 5.
IncDec(i, sz) ==
  LET k == IF i.m.reg = 0 THEN "Add" ELSE "Sub"
      one == PushConst(<< >>, 1, sz)
      v == LoadRm(one, i, sz)
      res == PushBin(v, k, Ref(v), Ref(one), sz)
      stored == StoreRm(res, i, Ref(v), Ref(res), sz)
  IN  Decoded(PushAluFlagsPreserveCarry(stored, k, Ref(v), Ref(one), sz), 1 + RmBytes(i))

Group4(i) == IF NoRepLockSeg(i) /\ i.m.reg \in {0, 1} THEN IncDec(i, "I8") ELSE Rejected
=============================================================================
