------------------------------ MODULE DecodeData ------------------------------
(***************************************************************************)
(* The decoders of the moves, exchanges, stack and string instructions,    *)
(* conditional moves, the RFLAGS transfers, PCLMULQDQ and PCMPxSTRx        *)
(* (prisma-decoder, decode.rs).                                            *)
(***************************************************************************)
EXTENDS DecodeBits

-----------------------------------------------------------------------------
\* Moves.

MovRmR(i, sz) ==
  LET v == PushLoadReg(<< >>, RegField(i), sz)
      addr == EmitAddr(v, i)
  IN  Decoded(IF IsReg(i) THEN PushStoreReg(v, RmField(i), Ref(v), sz)
              ELSE PushStoreMem(addr, Ref(addr), Ref(v), sz), 1 + RmBytes(i))

MovRRm(i, sz) ==
  LET v == LoadRm(<< >>, i, sz)
  IN  Decoded(PushStoreReg(v, RegField(i), Ref(v), sz), 1 + RmBytes(i))

MovMoffs(i) ==
  LET sz == SizeOf(i)
      addr == PushConst(<< >>, Wrap(i.imm), "I64")
      loaded == PushLoadMem(addr, Ref(addr), sz)
      rax == PushLoadReg(addr, "Rax", sz)
  IN  DecodedIf(NoRep(i) /\ ~i.p.lock,
                IF i.op \in {\hA0, \hA1} THEN PushStoreReg(loaded, "Rax", Ref(loaded), sz)
                ELSE PushStoreMem(rax, Ref(addr), Ref(rax), sz),
                1 + (IF i.p.addrsz THEN 4 ELSE 8))

Lea(i) ==
  LET addr == EmitAddr(<< >>, i)
  IN  IF ~NoRepLockSeg(i) \/ i.p.opsz \/ i.p.addrsz \/ IsReg(i) THEN Rejected
      ELSE Decoded(PushStoreReg(addr, RegField(i), Ref(addr), IF i.p.rex.w THEN "I64" ELSE "I32"),
                   1 + BytesForModrm(i))

MovRI(i) ==
  LET sz == OperandSize(i.p)
      v == PushConst(<< >>, Mask(i.imm, sz), sz)
  IN  Decoded(PushStoreReg(v, OpcodeReg(i), Ref(v), sz), 1 + ByteCount[sz])

MovR8I8(i) ==
  LET v == PushConst(<< >>, Mask(i.imm, "I8"), "I8")
  IN  Decoded(PushStoreReg(v, OpcodeReg(i), Ref(v), "I8"), 2)

MovRmImm(i) ==
  LET sz == SizeOf(i)
      v == PushConst(<< >>, ImmAfterModrm(i, sz), sz)
      addr == EmitAddr(v, i)
  IN  DecodedIf(NoRepLockSeg(i) /\ i.m.reg = 0,
                IF IsReg(i) THEN PushStoreReg(v, RmField(i), Ref(v), sz)
                ELSE PushStoreMem(addr, Ref(addr), Ref(v), sz),
                1 + BytesForModrm(i) + ImmBytes(sz))

Movnti(i) == IF NoRepLockSeg(i) /\ ~IsReg(i) THEN MovRmR(i, OperandSize(i.p)) ELSE Rejected

\* decode_movzx and decode_movsx.
MovExtend(i, from, signed) ==
  LET sz == OperandSize(i.p)
      v == LoadRm(<< >>, i, from)
      x == PushExtend(v, Ref(v), from, sz, signed)
  IN  Decoded(PushStoreReg(x, RegField(i), Ref(x), sz), 1 + RmBytes(i))

TrapBlock(kind) == <<Exit("Trap", kind, << >>, << >>)>>

Movsxd(i) ==
  LET v == LoadRm(<< >>, i, "I32")
      x == PushExtend(v, Ref(v), "I32", "I64", TRUE)
  IN  CASE i.p.opsz -> DecodedIf(Plain([i EXCEPT !.p.opsz = FALSE]), TrapBlock("Sigill"),
                                 1 + BytesForModrm(i))
        [] ~NoRepLockSeg(i) \/ i.p.addrsz -> Rejected
        [] OTHER -> Decoded(IF i.p.rex.w THEN PushStoreReg(x, RegField(i), Ref(x), "I64")
                            ELSE PushStoreReg(v, RegField(i), Ref(v), "I32"), 1 + RmBytes(i))

Movbe(i) ==
  LET sz == OperandSize(i.p)
      addr == EmitAddr(<< >>, i)
      v == IF i.op = \hF0 THEN PushLoadMem(addr, Ref(addr), sz)
           ELSE PushLoadReg(addr, RegField(i), sz)
      x == PushUnary(v, "Bswap", Ref(v), sz)
  IN  IF ~NoRepLockSeg(i) \/ IsReg(i) THEN Rejected
      ELSE Decoded(IF i.op = \hF0 THEN PushStoreReg(x, RegField(i), Ref(x), sz)
                   ELSE PushStoreMem(x, Ref(addr), Ref(x), sz), 2 + BytesForModrm(i))

-----------------------------------------------------------------------------
\* Exchanges and accumulator forms.

Xchg(i) ==
  LET sz == SizeOf(i)
      a == PushLoadReg(<< >>, RegField(i), sz)
      b == LoadRm(a, i, sz)
      storedA == PushStoreReg(b, RegField(i), Ref(b), sz)
  IN  Decoded(StoreRm(storedA, i, Ref(b), Ref(a), sz), 1 + RmBytes(i))

XchgAcc(i) ==
  LET sz == OperandSize(i.p)
      a == PushLoadReg(<< >>, "Rax", sz)
      b == PushLoadReg(a, OpcodeReg(i), sz)
  IN  Decoded(PushStoreReg(PushStoreReg(b, "Rax", Ref(b), sz), OpcodeReg(i), Ref(a), sz), 1)

\* CBW, CWDE and CDQE.
SignExtendAcc(i) ==
  LET to == OperandSize(i.p)
      from == CASE to = "I64" -> "I32" [] to = "I16" -> "I8" [] OTHER -> "I16"
      v == PushLoadReg(<< >>, "Rax", from)
      x == PushExtend(v, Ref(v), from, to, TRUE)
  IN  Decoded(PushStoreReg(x, "Rax", Ref(x), to), 1)

\* CWD, CDQ and CQO.
SignExtendAccToDx(i) ==
  LET sz == OperandSize(i.p)
      v == PushLoadReg(<< >>, "Rax", sz)
      high == PushBinConst(v, "Sar", Ref(v), Bits[sz] - 1, sz)
  IN  Decoded(PushStoreReg(high, "Rdx", Ref(high), sz), 1)

\* jcc_condition of an opcode's low four bits; "" for the parity conditions.
JccCondition ==
  <<"Ov", "NoOv", "Nc", "Cc", "Eq", "Ne", "Ule", "Ugt", "Mi", "Pl", "", "",
    "Slt", "Sge", "Sle", "Sgt">>
Cond(i) == JccCondition[1 + (i.op % 16)]

Cmov(i) ==
  LET sz == OperandSize(i.p)
      dst == PushLoadReg(<< >>, RegField(i), sz)
      src == LoadRm(dst, i, sz)
      res == PushSelect(src, Cond(i), Ref(src), Ref(dst), sz)
  IN  DecodedIf(NoRepLockSeg(i) /\ Cond(i) # "",
                PushStoreReg(res, RegField(i), Ref(res), sz), 1 + RmBytes(i))

Setcc(i) ==
  LET one == PushConst(<< >>, 1, "I8")
      zero == PushConst(one, 0, "I8")
      v == PushSelect(zero, Cond(i), Ref(one), Ref(zero), "I8")
      addr == EmitAddr(v, i)
  IN  DecodedIf(NoRepLockSeg(i) /\ Cond(i) # "",
                IF IsReg(i) THEN PushStoreReg(v, RmField(i), Ref(v), "I8")
                ELSE PushStoreMem(addr, Ref(addr), Ref(v), "I8"), 1 + RmBytes(i))

-----------------------------------------------------------------------------
\* The stack.  The slot is written after RSP moved.

Slot == ByteCount.I64
PushSlot(b, v) ==
  LET rsp == PushLoadReg(Push(b, RspAdjust(-Slot)), "Rsp", "I64")
  IN  PushStoreMem(rsp, Ref(rsp), v, "I64")

PushR(i) ==
  LET v == PushLoadReg(<< >>, OpcodeReg(i), "I64") IN Decoded(PushSlot(v, Ref(v)), 1)

PushImm(i) ==
  LET short == i.op = \h6A
      sz == IF short THEN "I8" ELSE IF i.p.opsz THEN "I16" ELSE "I32"
      v == PushConst(<< >>, IF sz = "I16" THEN Mask(i.imm, sz) ELSE Wrap(Signed(i.imm, sz)), "I64")
  IN  DecodedIf(~i.p.rex.rex /\ ~i.p.lock /\ ~i.p.seg, PushSlot(v, Ref(v)), 1 + ByteCount[sz])

PopSlot == LET rsp == PushLoadReg(<< >>, "Rsp", "I64") IN PushLoadMem(rsp, Ref(rsp), "I64")

PopR(i) ==
  LET v == PushStoreReg(PopSlot, OpcodeReg(i), Ref(PopSlot), "I64")
  IN  Decoded(Push(v, RspAdjust(Slot)), 1)

PopRm(i) ==
  LET addr == EmitAddr(PopSlot, i)
      v == IF IsReg(i) THEN PushStoreReg(PopSlot, RmField(i), Ref(PopSlot), "I64")
           ELSE PushStoreMem(addr, Ref(addr), Ref(PopSlot), "I64")
  IN  DecodedIf(i.m.reg = 0, Push(v, RspAdjust(Slot)), 1 + RmBytes(i))

\* The prefixes a return or LEAVE tolerates: an address-size or a REP one.
PlainStack(i) == ~i.p.rex.rex /\ ~i.p.opsz /\ ~i.p.lock /\ ~i.p.seg

Leave64(i) ==
  LET rbp == PushLoadReg(<< >>, "Rbp", "I64")
      rsp == PushLoadReg(PushStoreReg(rbp, "Rsp", Ref(rbp), "I64"), "Rsp", "I64")
      old == PushLoadMem(rsp, Ref(rsp), "I64")
  IN  DecodedIf(PlainStack(i), Push(PushStoreReg(old, "Rbp", Ref(old), "I64"), RspAdjust(Slot)), 1)

\* imm holds the allocation, sib the nesting level.
Enter(i) ==
  LET rbp == PushLoadReg(<< >>, "Rbp", "I64")
      rsp == PushLoadReg(Push(rbp, RspAdjust(-Slot)), "Rsp", "I64")
      framed == PushStoreReg(PushStoreMem(rsp, Ref(rsp), Ref(rbp), "I64"), "Rbp", Ref(rsp), "I64")
      alloc == Mask(i.imm, "I16")
  IN  DecodedIf(Plain(i) /\ i.sib = ParseSib(0),
                IF alloc = 0 THEN framed ELSE Push(framed, RspAdjust(-alloc)), 4)

-----------------------------------------------------------------------------
\* RFLAGS through the stack and AH, at their literal bit positions.

PushLoadRflags(b) == Push(b, Stmt(AllocRef(b), "LoadRflags", "", "", "I64", << >>, << >>))

Pushfq(i) ==
  LET rsp == PushLoadReg(<< >>, "Rsp", "I64")
      new == PushBinConst(rsp, "Sub", Ref(rsp), Slot, "I64")
      f == PushLoadRflags(new)
      v == PushBinConst(f, "Or", Ref(f), 2, "I64")
      stored == Push(v, StoreMem("StoreMemTSO", Ref(new), Ref(v), "I64"))
  IN  DecodedIf(~i.p.opsz /\ i.p.rep # \hF3 /\ ~i.p.rex.rex,
                PushStoreReg(stored, "Rsp", Ref(new), "I64"), 1)

Popfq(i) ==
  LET rsp == PushLoadReg(<< >>, "Rsp", "I64")
      v == Push(rsp, LoadMem(AllocRef(rsp), "LoadMemTSO", Ref(rsp), "I64"))
      f == Push(v, Effect("StoreRflags", <<Ref(v)>>))
      new == PushBinConst(f, "Add", Ref(rsp), Slot, "I64")
  IN  DecodedIf(~i.p.opsz /\ i.p.rep # \hF3 /\ ~i.p.rex.rex,
                PushStoreReg(new, "Rsp", Ref(new), "I64"), 1)

Lahf(i) ==
  LET f == PushLoadRflags(<< >>)
      kept == PushBinConst(f, "And", Ref(f), \hD7, "I64")
      ah == PushBinConst(kept, "Shl", Ref(kept), 8, "I64")
      rax == PushLoadReg(ah, "Rax", "I64")
      rest == PushBinConst(rax, "And", Ref(rax), Word - 1 - \hFF00, "I64")
      new == PushBin(rest, "Or", Ref(rest), Ref(ah), "I64")
  IN  DecodedIf(Plain(i), PushStoreReg(new, "Rax", Ref(new), "I64"), 1)

Sahf(i) ==
  LET rax == PushLoadReg(<< >>, "Rax", "I64")
      ah == PushBinConst(rax, "Shr", Ref(rax), 8, "I64")
      bits == PushBinConst(ah, "And", Ref(ah), \hD5, "I64")
      f == PushLoadRflags(bits)
      kept == PushBinConst(f, "And", Ref(f), Word - 1 - \hD5, "I64")
      new == PushBin(kept, "Or", Ref(kept), Ref(bits), "I64")
  IN  DecodedIf(Plain(i), Push(new, Effect("StoreRflags", <<Ref(new)>>)), 1)

-----------------------------------------------------------------------------
\* String instructions, always forwards and never repeated.

StringPrefix(i) == NoRepLockSeg(i) /\ ~i.p.addrsz
\* string_step of the operand size as a constant.
PushStep(b, sz) == PushConst(b, ByteCount[sz], "I64")
Advance(b, reg, at, step) ==
  LET n == PushBin(b, "Add", at, step, "I64") IN PushStoreReg(n, reg, Ref(n), "I64")

Xlat(i) ==
  LET al == PushLoadReg(<< >>, "Rax", "I8")
      index == PushExtend(al, Ref(al), "I8", "I64", FALSE)
      rbx == PushLoadReg(index, "Rbx", "I64")
      addr == PushBin(rbx, "Add", Ref(rbx), Ref(index), "I64")
      v == PushLoadMem(addr, Ref(addr), "I8")
  IN  DecodedIf(StringPrefix(i), PushStoreReg(v, "Rax", Ref(v), "I8"), 1)

Lods(i) ==
  LET sz == SizeOf(i)
      rsi == PushLoadReg(<< >>, "Rsi", "I64")
      v == PushLoadMem(rsi, Ref(rsi), sz)
      step == PushStep(PushStoreReg(v, "Rax", Ref(v), sz), sz)
  IN  DecodedIf(StringPrefix(i), Advance(step, "Rsi", Ref(rsi), Ref(step)), 1)

Stos(i) ==
  LET sz == SizeOf(i)
      rdi == PushLoadReg(<< >>, "Rdi", "I64")
      v == PushLoadReg(rdi, "Rax", sz)
      step == PushStep(PushStoreMem(v, Ref(rdi), Ref(v), sz), sz)
  IN  DecodedIf(StringPrefix(i), Advance(step, "Rdi", Ref(rdi), Ref(step)), 1)

Movs(i) ==
  LET sz == SizeOf(i)
      rsi == PushLoadReg(<< >>, "Rsi", "I64")
      rdi == PushLoadReg(rsi, "Rdi", "I64")
      v == PushLoadMem(rdi, Ref(rsi), sz)
      step == PushStep(PushStoreMem(v, Ref(rdi), Ref(v), sz), sz)
  IN  DecodedIf(StringPrefix(i),
                Advance(Advance(step, "Rsi", Ref(rsi), Ref(step)), "Rdi", Ref(rdi), Ref(step)), 1)

\* SCAS and CMPS publish no PF and AF.
Scas(i) ==
  LET sz == SizeOf(i)
      rdi == PushLoadReg(<< >>, "Rdi", "I64")
      l == PushLoadReg(rdi, "Rax", sz)
      r == PushLoadMem(l, Ref(rdi), sz)
      step == PushStep(PushCmp(r, Ref(l), Ref(r), sz), sz)
  IN  DecodedIf(StringPrefix(i),
                RflagsNoPfAf(Advance(step, "Rdi", Ref(rdi), Ref(step)), "InvertArmCarry"), 1)

Cmps(i) ==
  LET sz == SizeOf(i)
      rsi == PushLoadReg(<< >>, "Rsi", "I64")
      rdi == PushLoadReg(rsi, "Rdi", "I64")
      l == PushLoadMem(rdi, Ref(rsi), sz)
      r == PushLoadMem(l, Ref(rdi), sz)
      step == PushStep(PushCmp(r, Ref(l), Ref(r), sz), sz)
      moved == Advance(Advance(step, "Rsi", Ref(rsi), Ref(step)), "Rdi", Ref(rdi), Ref(step))
  IN  DecodedIf(StringPrefix(i), RflagsNoPfAf(moved, "InvertArmCarry"), 1)

-----------------------------------------------------------------------------
\* The 0F 3A opcode map: PCLMULQDQ and PCMPxSTRx.

MapXmmIndex(idx, ext) == idx + 8 * B2N(ext)
XmmReg(i) == MapXmmIndex(i.m.reg, i.p.rex.r)

\* Both insist on the 66 prefix.
VectorPrefix(i) == i.p.opsz /\ NoRepLockSeg(i) /\ ~i.p.addrsz
\* A SIB byte is counted for xmm4 and xmm12 as well.
VectorUsed(i) == 2 + BytesForModrm(i) + 1

PushXmmRm(b, i) ==
  LET addr == EmitAddr(b, i)
  IN  IF IsReg(i) THEN Push(b, LoadVecReg(AllocRef(b), MapXmmIndex(i.m.rm, i.p.rex.b)))
      ELSE Push(addr, Vec(AllocRef(addr), "LoadVec", <<Ref(addr)>>, << >>))

Pclmulqdq(i) ==
  LET l == <<LoadVecReg(0, XmmReg(i))>>
      r == PushXmmRm(l, i)
      product == Push(r, Vec(AllocRef(r), "VecClMul", <<0, Ref(r)>>, <<Bit(i.imm, 0), Bit(i.imm, 4)>>))
  IN  DecodedIf(VectorPrefix(i), Push(product, StoreVecReg(XmmReg(i), Ref(product))), VectorUsed(i))

\* emit_pcmpxstr_flags; PF and AF are the same zero.
PushPcmpxstrFlags(b, args, imm8) ==
  LET packed == Push(b, Vec(AllocRef(b), "PcmpStrFlags", args, <<imm8>>))
      cf == ShiftedBit(packed, Ref(packed), 0, "I64")
      zf == ShiftedBit(cf, Ref(packed), 1, "I64")
      sf == ShiftedBit(zf, Ref(packed), 2, "I64")
      of == ShiftedBit(sf, Ref(packed), 3, "I64")
      zero == PushConst(of, 0, "I64")
      carry == Push(zero, Effect("StoreCarry", <<Ref(cf)>>))
  IN  Push(carry, RflagsFromBits("pfaf", <<Ref(zero), Ref(zero)>>, <<Ref(zf), Ref(sf), Ref(of)>>))

\* The E forms (60, 61) take the lengths from EAX and EDX; the M forms (60, 62)
\* leave a mask in XMM0, the others an index in ECX.
Pcmpxstr(i) ==
  LET l == <<LoadVecReg(0, XmmReg(i))>>
      r == PushXmmRm(l, i)
      ax == PushLoadReg(r, "Rax", "I32")
      dx == PushLoadReg(ax, "Rdx", "I32")
      given == i.op \in {\h60, \h61}
      b == IF given THEN dx ELSE r
      args == <<0, Ref(r)>> \o (IF given THEN <<Ref(ax), Ref(dx)>> ELSE << >>)
      mask == Push(b, Vec(AllocRef(b), "PcmpStrMask", args, <<i.imm>>))
      index == Push(b, Vec(AllocRef(b), "PcmpStrIndex", args, <<i.imm>>))
      res == IF i.op \in {\h60, \h62} THEN Push(mask, StoreVecReg(0, Ref(mask)))
             ELSE PushStoreReg(index, "Rcx", Ref(index), "I32")
  IN  DecodedIf(VectorPrefix(i), PushPcmpxstrFlags(res, args, i.imm), VectorUsed(i))
=============================================================================
