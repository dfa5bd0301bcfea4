------------------------------ MODULE DecodeBits ------------------------------
(***************************************************************************)
(* The decoders of the shifts and rotates, the compare-and-exchange        *)
(* family, the bit counts, bit tests and the BMI1 instructions             *)
(* (prisma-decoder, decode.rs).                                            *)
(***************************************************************************)
EXTENDS DecodeArith

StoreCarryOf(b, v) == Push(b, Effect("StoreCarry", <<v>>))
LoadCarryInto(b) == Push(b, Stmt(AllocRef(b), "LoadCarry", "", "", "I64", << >>, << >>))

-----------------------------------------------------------------------------
\* Shifts and rotates.

\* The count: an immediate, one, or CL.
PushCount(b, i) ==
  CASE i.op \in {\hC0, \hC1} -> PushConst(b, RawImmAfterModrm(i, "I8"), "I8")
    [] i.op \in {\hD0, \hD1} -> PushConst(b, 1, "I8")
    [] i.op \in {\hD2, \hD3} -> PushLoadReg(b, "Rcx", "I8")

\* emit_rcl_rcr_by1.
RotateCarryBy1(rcr, reg, sz) ==
  LET cf == LoadCarryInto(<< >>)
      dst == PushLoadReg(cf, reg, sz)
      one == PushConst(dst, 1, sz)
      wm1 == PushConst(one, Bits[sz] - 1, sz)
      bin(b, k, l, r) == PushBin(b, k, Ref(l), Ref(r), sz)
      outR == bin(wm1, "And", dst, one)
      shR == bin(outR, "Shr", dst, one)
      topR == bin(shR, "Shl", cf, wm1)
      newR == bin(topR, "Or", shR, topR)
      topL == bin(wm1, "Shr", dst, wm1)
      outL == bin(topL, "And", topL, one)
      shL == bin(outL, "Shl", dst, one)
      newL == bin(shL, "Or", shL, cf)
      new == IF rcr THEN newR ELSE newL
  IN  StoreCarryOf(PushStoreReg(new, reg, Ref(new), sz), Ref(IF rcr THEN outR ELSE outL))

(***************************************************************************)
(* emit_rcl_rcr_value_count: dst rotated through the carry by the count    *)
(* modulo width + 1.  The new carry is the last reference, the new value   *)
(* the one before it.                                                      *)
(***************************************************************************)
RotateCarry(b, rcr, dst, raw, sz) ==
  LET cf == LoadCarryInto(b)
      zero == PushConst(cf, 0, sz)
      one == PushConst(zero, 1, sz)
      mask == PushConst(one, Bits[IF sz = "I64" THEN "I64" ELSE "I32"] - 1, sz)
      width == PushConst(mask, Bits[sz], sz)
      ring == PushConst(width, Bits[sz] + 1, sz)
      masked == PushBin(ring, "And", raw, Ref(mask), sz)
      bin(c, k, l, r) == PushBin(c, k, Ref(l), Ref(r), sz)
      count == bin(masked, "UMod", masked, ring)
      less1 == bin(count, "Sub", count, one)
      wLess == bin(less1, "Sub", width, count)
      rLess == bin(wLess, "Sub", ring, count)
      shift(c, l, k, n) == PushBin(c, k, l, Ref(n), sz)
      moved == shift(rLess, dst, IF rcr THEN "Shr" ELSE "Shl", count)
      carried == shift(moved, Ref(cf), "Shl", IF rcr THEN wLess ELSE less1)
      wrapped == shift(carried, dst, IF rcr THEN "Shl" ELSE "Shr", rLess)
      byOne == PushCmp(wrapped, Ref(count), Ref(one), sz)
      wrap == PushSelect(byOne, "Eq", Ref(zero), Ref(wrapped), sz)
      some == bin(wrap, "Or", moved, carried)
      all == bin(some, "Or", some, wrap)
      out == shift(all, dst, "Shr", IF rcr THEN less1 ELSE wLess)
      outBit == bin(out, "And", out, one)
      byZero == PushCmp(outBit, Ref(count), Ref(zero), sz)
      final == PushSelect(byZero, "Eq", dst, Ref(all), sz)
  IN  PushSelect(final, "Eq", Ref(cf), Ref(outBit), sz)

\* The register form loads the count first, the memory form the value.
RotateCarryRm(i, rcr, sz) ==
  LET n == PushCount(<< >>, i)
      r == PushLoadReg(n, RmField(i), sz)
      rotR == RotateCarry(r, rcr, Ref(r), Ref(n), sz)
      m == LoadRm(<< >>, i, sz)
      c == PushCount(m, i)
      rotM == RotateCarry(c, rcr, Ref(m), Ref(c), sz)
      store(rot, loaded) == StoreCarryOf(StoreRm(rot, i, loaded, Ref(rot) - 1, sz), Ref(rot))
  IN  IF ~IsReg(i) THEN store(rotM, Ref(m))
      ELSE IF i.op \in {\hD0, \hD1} THEN RotateCarryBy1(rcr, RmField(i), sz)
      ELSE store(rotR, Ref(r))

ShiftOps == <<"Rol", "Ror", "", "", "Shl", "Shr", "", "Sar">>

\* Shifts and rotates take the count as it is and publish no flags.
ShiftRm(i, sz) ==
  LET n == PushCount(<< >>, i)
      v == LoadRm(n, i, sz)
      res == PushBin(v, ShiftOps[1 + i.m.reg], Ref(v), Ref(n), sz)
  IN  StoreRm(res, i, Ref(v), Ref(res), sz)

Group2(i) ==
  LET sz == SizeOf(i)
  IN  DecodedIf(i.m.reg # 6,
                IF i.m.reg \in {2, 3} THEN RotateCarryRm(i, i.m.reg = 3, sz) ELSE ShiftRm(i, sz),
                1 + BytesForModrm(i) + (IF i.op \in {\hC0, \hC1} THEN 1 ELSE 0))

-----------------------------------------------------------------------------
\* Exchange-and-add and compare-and-exchange.

Xadd(i) ==
  LET sz == SizeOf(i)
      src == PushLoadReg(<< >>, RegField(i), sz)
      dst == LoadRm(src, i, sz)
      sum == PushBin(dst, "Add", Ref(dst), Ref(src), sz)
      flags == PushAluFlags(sum, "Add", Ref(dst), Ref(src), sz)
      old == PushStoreReg(flags, RegField(i), Ref(dst), sz)
  IN  DecodedIf(NoRepLockSeg(i), StoreRm(old, i, Ref(dst), Ref(sum), sz), 1 + RmBytes(i))

RflagsNoPfAf(b, carry) == Push(b, RflagsFromNzcv(carry, "", << >>))

Cmpxchg(i) ==
  LET sz == SizeOf(i)
      narrow == sz \in {"I8", "I16"}
      acc == PushLoadReg(<< >>, "Rax", sz)
      full == IF narrow THEN acc ELSE PushLoadReg(acc, "Rax", "I64")
      keepSz == IF narrow THEN sz ELSE "I64"
      src == PushLoadReg(full, RegField(i), sz)
      addr == EmitAddr(src, i)
      dst == IF IsReg(i) THEN PushLoadReg(src, RmField(i), sz)
             ELSE Push(addr, Stmt(AllocRef(addr), "AtomicCmpxchg", "", "", sz,
                                  <<Ref(addr), Ref(acc), Ref(src)>>, << >>))
      cmp == PushCmp(dst, Ref(acc), Ref(dst), sz)
      new == IF IsReg(i) THEN PushSelect(cmp, "Eq", Ref(src), Ref(dst), sz) ELSE cmp
      rax == PushSelect(new, "Eq", Ref(full), Ref(dst), keepSz)
      stored == PushStoreReg(rax, "Rax", Ref(rax), keepSz)
      both == IF IsReg(i) THEN PushStoreReg(stored, RmField(i), Ref(new), sz) ELSE stored
  IN  DecodedIf(NoRep(i) /\ ~(i.p.rex.w /\ i.p.opsz) /\ ~(i.p.lock /\ IsReg(i)),
                RflagsNoPfAf(both, "InvertArmCarry"), 1 + RmBytes(i))

\* The 16-byte form.  old_low and old_high are allocated before the statement
\* is pushed and so are the same reference.
Cmpxchg16b(addr) ==
  LET rax == PushLoadReg(addr, "Rax", "I64")
      rdx == PushLoadReg(rax, "Rdx", "I64")
      rbx == PushLoadReg(rdx, "Rbx", "I64")
      rcx == PushLoadReg(rbx, "Rcx", "I64")
      old == AllocRef(rcx)
      pair == Push(rcx, Stmt(old, "AtomicCmpxchgPair", "", "", "I64",
                             <<Ref(addr), Ref(rax), Ref(rdx), Ref(rbx), Ref(rcx)>>, <<old>>))
      lowEq == PushCompare(pair, "Eq", old, Ref(rax), "I64")
      highEq == PushCompare(lowEq, "Eq", old, Ref(rdx), "I64")
      bothEq == PushBin(highEq, "And", Ref(lowEq), Ref(highEq), "I64")
      one == PushConst(bothEq, 1, "I64")
      cmp == PushCmp(one, Ref(bothEq), Ref(one), "I64")
      newA == PushSelect(cmp, "Eq", Ref(rax), old, "I64")
      newD == PushSelect(newA, "Eq", Ref(rdx), old, "I64")
      stored == PushStoreReg(PushStoreReg(newD, "Rax", Ref(newA), "I64"), "Rdx", Ref(newD), "I64")
  IN  RflagsNoPfAf(stored, "Preserve")

Cmpxchg8b(addr) ==
  LET c == PushConst(addr, Bits.I32, "I64")
      eax == PushLoadReg(c, "Rax", "I32")
      edx == PushLoadReg(eax, "Rdx", "I32")
      ebx == PushLoadReg(edx, "Rbx", "I32")
      ecx == PushLoadReg(ebx, "Rcx", "I32")
      raxFull == PushLoadReg(ecx, "Rax", "I64")
      rdxFull == PushLoadReg(raxFull, "Rdx", "I64")
      join(b, hi, lo) == LET s == PushBin(b, "Shl", Ref(hi), Ref(c), "I64")
                         IN  PushBin(s, "Or", Ref(s), Ref(lo), "I64")
      expected == join(rdxFull, edx, eax)
      new == join(expected, ecx, ebx)
      old == Push(new, Stmt(AllocRef(new), "AtomicCmpxchg", "", "", "I64",
                            <<Ref(addr), Ref(expected), Ref(new)>>, << >>))
      cmp == PushCmp(old, Ref(expected), Ref(old), "I64")
      lo == PushUnary(cmp, "Truncate", Ref(old), "I32")
      hi == PushBin(lo, "Shr", Ref(old), Ref(c), "I64")
      newA == PushSelect(hi, "Eq", Ref(raxFull), Ref(lo), "I64")
      newD == PushSelect(newA, "Eq", Ref(rdxFull), Ref(hi), "I64")
      stored == PushStoreReg(PushStoreReg(newD, "Rax", Ref(newA), "I64"), "Rdx", Ref(newD), "I64")
  IN  RflagsNoPfAf(stored, "Preserve")

\* Relative to RIP the address misses the escape byte.
Cmpxchg8b16b(i) ==
  LET addr == EmitAddrAt(<< >>, i, i.pc + 1 + BytesForModrm(i))
  IN  IF i.p.opsz \/ ~NoRep(i) \/ i.m.reg # 1 \/ IsReg(i) THEN Rejected
      ELSE Decoded(IF i.p.rex.w THEN Cmpxchg16b(addr) ELSE Cmpxchg8b(addr), 1 + BytesForModrm(i))

-----------------------------------------------------------------------------
\* Bit counts, scans, tests and byte swaps.

Popcnt(i) ==
  LET sz == OperandSize(i.p)
      src == LoadRm(<< >>, i, sz)
      res == PushUnary(src, "Popcnt", Ref(src), sz)
      stored == PushStoreReg(res, RegField(i), Ref(res), sz)
  IN  Decoded(Push(stored, Stmt(NoRef, "WriteFlagsPopcnt", "", "", sz, <<Ref(src)>>, << >>)),
              1 + RmBytes(i))

\* LZCNT and TZCNT.
CountZeros(i, op) ==
  LET sz == OperandSize(i.p)
      src == LoadRm(<< >>, i, sz)
      res == PushUnary(src, op, Ref(src), sz)
      stored == PushStoreReg(res, RegField(i), Ref(res), sz)
  IN  Decoded(Push(stored, Stmt(NoRef, "WriteFlagsCountZero", "", "", sz,
                                <<Ref(src), Ref(res)>>, << >>)), 1 + RmBytes(i))

BsfBsr(i, bsr) ==
  LET sz == OperandSize(i.p)
      src == LoadRm(<< >>, i, sz)
      old == PushLoadReg(src, RegField(i), sz)
      lz == PushUnary(old, "Lzcnt", Ref(src), sz)
      width == PushConst(lz, Bits[sz] - 1, sz)
      count == IF bsr THEN PushBin(width, "Sub", Ref(width), Ref(lz), sz)
               ELSE PushUnary(old, "Tzcnt", Ref(src), sz)
      zero == PushConst(count, 0, sz)
      flags == PushCmp(zero, Ref(src), Ref(zero), sz)
      res == PushSelect(flags, "Eq", Ref(old), Ref(count), sz)
  IN  Decoded(PushStoreReg(res, RegField(i), Ref(res), sz), 1 + RmBytes(i))

\* The immediate of BT, BTS, BTR and BTC is a bit number, not a scaled value;
\* in memory it selects the word as well.
BitWord(i) ==
  LET addr == EmitAddr(<< >>, i)
      skip == (i.imm \div Bits.I64) * ByteCount.I64
      at == IF skip = 0 THEN addr ELSE PushBinConst(addr, "Add", Ref(addr), skip, "I64")
  IN  IF IsReg(i) THEN PushLoadReg(<< >>, RmField(i), "I64") ELSE PushLoadMem(at, Ref(at), "I64")

\* The word with the bit set, reset or complemented.
ChangedBit(b, reg, src, mask) ==
  LET ones == PushBinConst(b, "Xor", mask, Word - 1, "I64")
  IN  CASE reg = 5 -> PushBin(b, "Or", src, mask, "I64")
        [] reg = 6 -> PushBin(ones, "And", src, Ref(ones), "I64")
        [] reg = 7 -> PushBin(b, "Xor", src, mask, "I64")

BtGroup(i) ==
  LET src == BitWord(i)
      shift == PushConst(src, i.imm % Bits.I64, "I64")
      one == PushConst(shift, 1, "I64")
      mask == PushBin(one, "Shl", Ref(one), Ref(shift), "I64")
      oldBit == PushBin(mask, "And", Ref(src), Ref(mask), "I64")
      new == ChangedBit(oldBit, i.m.reg, Ref(src), Ref(mask))
      stored == IF i.m.reg = 4 THEN oldBit ELSE StoreRm(new, i, Ref(src), Ref(new), "I64")
      zero == PushConst(stored, 0, "I64")
      bit == PushCompare(zero, "Ne", Ref(oldBit), Ref(zero), "I64")
      cf == StoreCarryOf(bit, Ref(bit))
  IN  DecodedIf(i.m.reg >= 4, PushCmp(cf, Ref(bit), Ref(one), "I64"), 1 + RmBytes(i) + 1)

Bswap(i) ==
  LET sz == OperandSize(i.p)
      src == PushLoadReg(<< >>, OpcodeReg(i), sz)
      res == PushUnary(src, "Bswap", Ref(src), sz)
  IN  DecodedIf(NoRepLockSeg(i) /\ sz # "I16", PushStoreReg(res, OpcodeReg(i), Ref(res), sz), 1)
-----------------------------------------------------------------------------
\* BMI1, under a VEX prefix.

\* vex_effective_prefixes: the VEX bits stand for the REX ones.
VexRex(v) == [rex |-> TRUE, w |-> v.w, r |-> v.r, x |-> v.x, b |-> v.b]
Effective(i) == [i EXCEPT !.p.rex = VexRex(i.p.vex)]
MapVexReg(v) == MapReg(v.vvvv % 8, v.vvvv >= 8)
VexOperandSize(v) == IF v.w THEN "I64" ELSE "I32"
\* load_vex_rm, and the bytes it takes.
LoadVexRm(b, i, sz) == LoadRm(b, Effective(i), sz)

PushPreservedFlag(b, n) ==
  LET f == Push(b, Stmt(AllocRef(b), "LoadRflags", "", "", "I64", << >>, << >>))
  IN  ShiftedBit(f, Ref(f), n, "I64")

PushResultFlagBits(b, result, sz, cf, preserveSf) ==
  LET zero == PushConst(b, 0, sz)
      zf == PushCompare(zero, "Eq", result, Ref(zero), sz)
      sf == IF preserveSf THEN PushPreservedFlag(zf, 7) ELSE ShiftedBit(zf, result, Bits[sz] - 1, sz)
      of == PushConst(sf, 0, "I64")
  IN  Push(StoreCarryOf(of, cf), RflagsFromBits("", << >>, <<Ref(zf), Ref(sf), Ref(of)>>))

Andn(i) ==
  LET sz == VexOperandSize(i.p.vex)
      src2 == LoadVexRm(<< >>, i, sz)
      src1 == PushLoadReg(src2, MapVexReg(i.p.vex), sz)
      not1 == PushBinConst(src1, "Xor", Ref(src1), AllOnes(sz), sz)
      res == PushBin(not1, "And", Ref(not1), Ref(src2), sz)
      cf == PushConst(PushStoreReg(res, RegField(Effective(i)), Ref(res), sz), 0, sz)
  IN  Decoded(PushResultFlagBits(cf, Ref(res), sz, Ref(cf), FALSE), 1 + RmBytes(i))

\* BLSR, BLSMSK and BLSI.
BlsGroup(i) ==
  LET sz == VexOperandSize(i.p.vex)
      src == LoadVexRm(<< >>, i, sz)
      zero == PushConst(src, 0, sz)
      one == PushConst(zero, 1, sz)
      other == IF i.m.reg = 3 THEN PushBin(one, "Sub", Ref(zero), Ref(src), sz)
               ELSE PushBin(one, "Sub", Ref(src), Ref(one), sz)
      res == PushBin(other, IF i.m.reg = 2 THEN "Xor" ELSE "And", Ref(src), Ref(other), sz)
      cf == PushCompare(res, IF i.m.reg = 3 THEN "Ne" ELSE "Eq", Ref(src), Ref(zero), sz)
      stored == PushStoreReg(cf, MapVexReg(i.p.vex), Ref(res), sz)
  IN  DecodedIf(i.m.reg \in 1 .. 3, PushResultFlagBits(stored, Ref(res), sz, Ref(cf), FALSE),
                1 + RmBytes(i))

\* The start and the length are bit numbers in the two low bytes of the
\* control register: literal positions, as in AH.
Bextr(i) ==
  LET sz == VexOperandSize(i.p.vex)
      src == LoadVexRm(<< >>, i, sz)
      control == PushLoadReg(src, MapVexReg(i.p.vex), sz)
      bin(b, k, l, r) == PushBin(b, k, Ref(l), Ref(r), sz)
      byte == PushConst(control, \hFF, sz)
      start == bin(byte, "And", control, byte)
      eight == PushConst(start, 8, sz)
      high == bin(eight, "Shr", control, eight)
      len == bin(high, "And", high, byte)
      shifted == bin(len, "Shr", src, start)
      one == PushConst(shifted, 1, sz)
      top == bin(one, "Shl", one, len)
      candidate == bin(top, "Sub", top, one)
      ones == PushConst(candidate, AllOnes(sz), sz)
      width == PushConst(ones, Bits[sz], sz)
      long == PushCompare(width, "Uge", Ref(len), Ref(width), sz)
      mask == PushSelect(long, "Uge", Ref(ones), Ref(candidate), sz)
      masked == bin(mask, "And", shifted, mask)
      zero == PushConst(masked, 0, sz)
      beyond == PushCompare(zero, "Uge", Ref(start), Ref(width), sz)
      res == PushSelect(beyond, "Uge", Ref(zero), Ref(masked), sz)
      cf == PushConst(PushStoreReg(res, RegField(Effective(i)), Ref(res), sz), 0, sz)
  IN  Decoded(PushResultFlagBits(cf, Ref(res), sz, Ref(cf), TRUE), 1 + RmBytes(i))

\* decode_vex: VEX.L and VEX.pp must be clear, and no other prefix present.
DecodeVex(i) ==
  LET v == i.p.vex
  IN  IF ~Plain(i) \/ v.l \/ v.pp # 0 \/ v.mmmm # 2 THEN Rejected
      ELSE CASE i.op = \hF2 -> Andn(i)
             [] i.op = \hF3 -> BlsGroup(i)
             [] i.op = \hF7 -> Bextr(i)
             [] OTHER -> Rejected
=============================================================================
