-------------------------------- MODULE Interp --------------------------------
(***************************************************************************)
(* The reference interpreter of the IR (prisma-translator, interp.rs), the *)
(* oracle the translator's tests compare the generated code with.          *)
(*                                                                         *)
(* A guest state is [gpr, xmm, cf, rflags, mem]; mem is carried along and  *)
(* never touched, since the interpreter has no memory operations.          *)
(***************************************************************************)
EXTENDS IR

-----------------------------------------------------------------------------
\* The 128-bit operations: the packed string comparisons and the carry-less
\* product.  A 128-bit value is the pair of its low and its high word, 16 guest
\* bytes in all; a set of lanes stands for the bits of intres.

VecBytes == 16

\* u128::to_le_bytes.
VecByte(v, k) ==
  (v[1 + k \div ByteCount.I64] \div Pow2[Bits.I8 * (k % ByteCount.I64)]) % ByteSpan

\* lane_unsigned and lane_signed, for lanes of n bytes.
LaneUnsigned(v, lane, n) ==
  IF n = 1 THEN VecByte(v, lane) ELSE VecByte(v, 2 * lane) + ByteSpan * VecByte(v, 2 * lane + 1)
LaneSigned(v, lane, n) == Signed(LaneUnsigned(v, lane, n), IF n = 1 THEN "I8" ELSE "I16")

\* pcmp_effective_len: the magnitude of an explicit length, taken as a signed
\* 32-bit number, or the lanes before the first zero lane; explicit is <<len>>
\* or << >>.
Magnitude(v) == LET s == Signed(v, "I32") IN IF s < 0 THEN -s ELSE s
PcmpEffectiveLen(v, n, explicit) ==
  LET lanes == VecBytes \div n
      least(S) == CHOOSE x \in S : \A y \in S : x <= y
  IN  IF explicit # << >> THEN least({Magnitude(explicit[1]), lanes})
      ELSE least({i \in 0 .. lanes - 1 : LaneUnsigned(v, i, n) = 0} \union {lanes})

(***************************************************************************)
(* eval_pcmp_str.  Bit 0 of imm8 selects the lane size, bit 1 signed       *)
(* lanes, bits 2 and 3 the aggregation (equal any, ranges, equal each,     *)
(* equal ordered) and bits 4 and 5 the polarity.                           *)
(***************************************************************************)
EvalPcmpStr(l, r, lhsLen, rhsLen, imm8) ==
  LET n == 1 + Bit(imm8, 0)
      value(v, i) == IF Bit(imm8, 1) = 1 THEN LaneSigned(v, i, n) ELSE LaneUnsigned(v, i, n)
      ln == PcmpEffectiveLen(l, n, lhsLen)
      rn == PcmpEffectiveLen(r, n, rhsLen)
      aggregated(i) ==
        CASE (imm8 \div 4) % 4 = 0 -> \E j \in 0 .. rn - 1 : value(l, i) = value(r, j)
          [] (imm8 \div 4) % 4 = 1 ->
               \E j \in 0 .. rn - 2 : /\ j % 2 = 0
                                      /\ value(r, j) <= value(l, i) /\ value(l, i) <= value(r, j + 1)
          [] (imm8 \div 4) % 4 = 2 -> i < rn /\ value(l, i) = value(r, i)
          [] (imm8 \div 4) % 4 = 3 ->
               /\ rn > 0 /\ i + rn <= ln
               /\ \A j \in 0 .. rn - 1 : value(l, i + j) = value(r, j)
      negate == Bit(imm8, 4) = 1
      validOnly == Bit(imm8, 5) = 1
      set(i) == /\ validOnly => i < ln
                /\ (i < ln /\ aggregated(i)) # negate
  IN  [intres |-> {i \in 0 .. (VecBytes \div n) - 1 : set(i)},
       lanes |-> VecBytes \div n, bytes |-> n, lhsLen |-> ln, rhsLen |-> rn]

\* pcmp_str_index: the lowest or, with bit 6, the highest lane; the number of
\* lanes for none.
PcmpStrIndex(e, imm8) ==
  IF e.intres = {} THEN e.lanes
  ELSE CHOOSE i \in e.intres : \A j \in e.intres : IF Bit(imm8, 6) = 0 THEN i <= j ELSE i >= j

\* The word with ones in the given bits.
RECURSIVE OnesAt(_)
OnesAt(S) == IF S = {} THEN 0 ELSE LET b == CHOOSE x \in S : TRUE IN Pow2[b] + OnesAt(S \ {b})

\* pcmp_str_mask: intres itself or, with bit 6, a lane of ones for each lane.
PcmpStrMask(e, imm8) ==
  LET byteBits(k) == Bits.I8 * k .. Bits.I8 * (k + 1) - 1
      set(first) == {k \in 0 .. ByteCount.I64 - 1 : (first + k) \div e.bytes \in e.intres}
      word(first) == OnesAt(UNION {byteBits(k) : k \in set(first)})
  IN  IF Bit(imm8, 6) = 0 THEN <<OnesAt(e.intres), 0>> ELSE <<word(0), word(ByteCount.I64)>>

\* pcmp_str_flags: CF, ZF, SF and OF packed in the low four bits.
PcmpStrFlags(e) ==
  B2N(e.intres # {}) + 2 * B2N(e.rhsLen < e.lanes) + 4 * B2N(e.lhsLen < e.lanes) + 8 * B2N(0 \in e.intres)

\* vec_lane_u64, and carryless_mul_u64: lhs shifted by each set bit of rhs.
VecLane(v, high) == v[1 + high]
CarrylessMul(lhs, rhs) ==
  LET add(acc, b) ==
        IF Bit(rhs, b) = 0 THEN acc
        ELSE <<BitXor(acc[1], ShiftLeft(lhs, b)), BitXor(acc[2], ShiftRight(lhs, Bits.I64 - b))>>
  IN  Fold(add, <<0, 0>>, [k \in 1 .. Bits.I64 |-> k - 1])

-----------------------------------------------------------------------------
\* Flags, operations and blocks.

Nzcv(n, z, c, v) == [n |-> n, z |-> z, c |-> c, v |-> v]

SubFlags(a0, b0, sz) ==
  LET a == Mask(a0, sz)
      b == Mask(b0, sz)
      r == Mask(a - b, sz)
  IN  Nzcv(Msb(r, sz), B2N(r = 0), B2N(a >= b),
           B2N(Msb(a, sz) # Msb(b, sz) /\ Msb(r, sz) # Msb(a, sz)))

AddFlags(a0, b0, sz) ==
  LET a == Mask(a0, sz)
      b == Mask(b0, sz)
      r == Mask(a + b, sz)
  IN  Nzcv(Msb(r, sz), B2N(r = 0), B2N(r < a),
           B2N(Msb(a, sz) = Msb(b, sz) /\ Msb(r, sz) # Msb(a, sz)))

LogicFlags(r, sz) == Nzcv(Msb(r, sz), B2N(Mask(r, sz) = 0), 0, 0)

FlagsFromRflags(f) == Nzcv(Bit(f, 7), Bit(f, 6), Bit(f, 0), Bit(f, 11))

\* What WriteFlags and AluFlags compute, for the operations in kinds.
FlagsOf(k, a, b, sz) ==
  CASE k = "Sub" -> SubFlags(a, b, sz)
    [] k = "Add" -> AddFlags(a, b, sz)
    [] k = "And" -> LogicFlags(BitAnd(a, b), sz)
    [] k = "Or"  -> LogicFlags(BitOr(a, b), sz)
    [] k = "Xor" -> LogicFlags(BitXor(a, b), sz)

EvalCc(cc, f) ==
  CASE cc = "Eq" -> f.z = 1
    [] cc = "Ne" -> f.z = 0
    [] cc \in {"Uge", "Nc"} -> f.c = 1
    [] cc \in {"Ult", "Cc"} -> f.c = 0
    [] cc = "Ugt" -> f.c = 1 /\ f.z = 0
    [] cc = "Ule" -> f.c = 0 \/ f.z = 1
    [] cc = "Sge" -> f.n = f.v
    [] cc = "Slt" -> f.n # f.v
    [] cc = "Sgt" -> f.z = 0 /\ f.n = f.v
    [] cc = "Sle" -> f.z = 1 \/ f.n # f.v
    [] cc = "Mi" -> f.n = 1
    [] cc = "Pl" -> f.n = 0
    [] cc = "Ov" -> f.v = 1
    [] cc = "NoOv" -> f.v = 0

-----------------------------------------------------------------------------
\* eval_binop: NoValue for a division by zero and for the kinds it rejects.
NoValue == -1

Rotated(a, n, w) == RotateRight(a, n % w, w)

EvalBinop(k, a0, b0, sz) ==
  LET a == Mask(a0, sz)
      b == Mask(b0, sz)
      w == Bits[sz]
      sa == Signed(a, sz)
      sb == Signed(b, sz)
      least == sa = -Pow2[w - 1] /\ sb = -1
      n == b % Bits.I64
      high == MulHigh(a, b)
  IN  CASE k = "Add" -> Mask(a + b, sz)
        [] k = "Sub" -> Mask(a - b, sz)
        [] k = "And" -> BitAnd(a, b)
        [] k = "Or"  -> BitOr(a, b)
        [] k = "Xor" -> BitXor(a, b)
        [] k = "Mul" -> Mask(MulLow(a, b), sz)
        [] k = "UMulHi" -> IF sz = "I64" THEN high ELSE Mask((a * b) \div Pow2[w], sz)
        [] k = "SMulHi" ->
             IF sz = "I64"
             THEN Wrap(high - (IF sa < 0 THEN b ELSE 0) - (IF sb < 0 THEN a ELSE 0))
             ELSE Mask((sa * sb) \div Pow2[w], sz)
        [] k \in {"UDiv", "UMod", "SDiv", "SMod"} /\ b = 0 -> NoValue
        [] k = "UDiv" /\ b # 0 -> a \div b
        [] k = "UMod" /\ b # 0 -> a % b
        [] k = "SDiv" /\ b # 0 -> IF least THEN a ELSE Mask(TruncDiv(sa, sb), sz)
        [] k = "SMod" /\ b # 0 -> IF least THEN 0 ELSE Mask(TruncMod(sa, sb), sz)
        [] k = "Shl" -> Mask(ShiftLeft(a, n), sz)
        [] k = "Shr" -> ShiftRight(a, n)
        [] k = "Sar" -> Mask(sa \div Pow2[n], sz)
        [] k = "Rol" -> Rotated(a, w - (b % w), w)
        [] k = "Ror" -> Rotated(a, b, w)
        [] k \in {"Rcl", "Rcr", "Pdep", "Pext"} -> NoValue

\* The two-word division of DIV and IDIV at 64 bits; NoValue when the divisor
\* is zero or the quotient does not fit.
NegateWide(h, l) == IF l = 0 THEN <<Wrap(-h), 0>> ELSE <<Word - 1 - h, Word - l>>

EvalWideDiv(h0, l0, d0, signed, which) ==
  LET negD == signed /\ Msb(d0, "I64") = 1
      negN == signed /\ Msb(h0, "I64") = 1
      n == IF negN THEN NegateWide(h0, l0) ELSE <<h0, l0>>
      d == IF negD THEN Word - d0 ELSE d0
      v == DivWide(n[1], n[2], d)
      limit == IF ~signed THEN Word - 1
               ELSE IF negN = negD THEN Pow2[15] - 1 ELSE Pow2[15]
  IN  IF d0 = 0 THEN NoValue
      ELSE IF n[1] >= d \/ v.q > limit THEN NoValue
      ELSE IF which = "Q" THEN Wrap(IF negN = negD THEN v.q ELSE -v.q)
      ELSE Wrap(IF negN THEN -v.r ELSE v.r)

-----------------------------------------------------------------------------
\* Effects on the guest state g.

StoreGpr(g, reg, v, sz) ==
  [g EXCEPT !.gpr[reg] =
     IF sz \in {"I32", "I64"} THEN Mask(v, sz)
     ELSE (@ - Mask(@, sz)) + Mask(v, sz)]

\* Bits 0, 2, 4, 6, 7 and 11: CF, PF, AF, ZF, SF and OF; bit 1 is always set.
WithBits(f, set) == BitOr(BitOr(f, 2), set)

\* Variant: the copy of the carry in RFLAGS is left behind.
StoreCarryOnly(g, v) == [g EXCEPT !.cf = v % 2]

StoreCarryBit(g, v) ==
  [g EXCEPT !.cf = v % 2, !.rflags = WithBits(Clear(@, 1), v % 2)]

StoreRflagsWord(g, v) ==
  [g EXCEPT !.rflags = WithBits(v, 0), !.cf = v % 2]

\* The optional PF and AF operands of a statement: x names the ones present.
HasPf(x) == x \in {"pf", "pfaf"}
HasAf(x) == x = "pfaf"
OptMask(x) == 4 * B2N(HasPf(x)) + 16 * B2N(HasAf(x))
OptBits(x, val) ==
  (IF HasPf(x) THEN 4 * (val[1] % 2) ELSE 0) + (IF HasAf(x) THEN 16 * (val[2] % 2) ELSE 0)

ZfSfOf == 64 + 128 + 2048

StoreRflagsFromFlags(g, f, carry, opt, optMask) ==
  LET kept == Clear(g.rflags, ZfSfOf + optMask + (IF carry = "Preserve" THEN 0 ELSE 1))
      cf == CASE carry = "ArmCarry" -> f.c
              [] carry = "InvertArmCarry" -> 1 - f.c
              [] carry = "Preserve" -> g.cf % 2
              [] carry = "Clear" -> 0
      new == BitOr(WithBits(kept, opt + 64 * f.z + 128 * f.n + 2048 * f.v), cf)
  IN  [g EXCEPT !.rflags = new, !.cf = new % 2]

StoreRflagsBits(g, opt, optMask, zf, sf, of) ==
  [g EXCEPT !.rflags =
     WithBits(Clear(@, ZfSfOf + optMask + 1),
              (g.cf % 2) + opt + 64 * (zf % 2) + 128 * (sf % 2) + 2048 * (of % 2))]

-----------------------------------------------------------------------------
(***************************************************************************)
(* interpret_block.  The machine is [g, vals, vecs, f, live, out]: the     *)
(* guest state, the values of the references, scalar and 128-bit, the      *)
(* transient NZCV and whether it is live, and how the block ended.         *)
(***************************************************************************)
Outcome(kind, pc) == [kind |-> kind, pc |-> pc]
Running == Outcome("Running", 0)
Fallthrough == Outcome("Fallthrough", 0)
Unsupported == Outcome("Unsupported", 0)

InterpInit(g) ==
  [g |-> g, vals |-> << >>, vecs |-> << >>, f |-> Nzcv(0, 0, 0, 0), live |-> FALSE, out |-> Running]

\* A reference without a value reads as zero.
Val(m, r) == IF r \in DOMAIN m.vals THEN m.vals[r] ELSE 0

Define(m, r, v) ==
  IF r = NoRef THEN m
  ELSE [m EXCEPT !.vals =
          [q \in DOMAIN m.vals \union {r} |-> IF q = r THEN v ELSE m.vals[q]]]

\* The same for 128-bit values (get_vec, vec_vals).
VecVal(m, r) == IF r \in DOMAIN m.vecs THEN m.vecs[r] ELSE <<0, 0>>
DefineVec(m, r, v) ==
  IF r = NoRef THEN m
  ELSE [m EXCEPT !.vecs =
          [q \in DOMAIN m.vecs \union {r} |-> IF q = r THEN v ELSE m.vecs[q]]]

DefineOr(m, r, v) ==
  IF v = NoValue THEN [m EXCEPT !.out = Unsupported] ELSE Define(m, r, v)

SetNzcv(m, f) == [m EXCEPT !.f = f, !.live = TRUE]

\* Select and CondJumpRel: without a local flag writer, the persistent flags.
FlagsNow(m) == IF m.live THEN m.f ELSE FlagsFromRflags(m.g.rflags)
Refreshed(m) == [m EXCEPT !.f = FlagsNow(m)]

InterpPure(m, s) ==
  LET a(i) == Val(m, s.args[i])
  IN  CASE s.op = "Constant" -> Define(m, s.res, Mask(s.imm[1], s.sz))
        [] s.op = "LoadReg" -> Define(m, s.res, Mask(m.g.gpr[s.k], s.sz))
        [] s.op = "BinOp" -> DefineOr(m, s.res, EvalBinop(s.k, a(1), a(2), s.sz))
        [] s.op = "WideDiv" ->
             DefineOr(m, s.res, EvalWideDiv(a(1), a(2), a(3), s.k = "signed", s.x))
        [] s.op = "Extend" ->
             Define(m, s.res, Mask(IF s.k = "signed" THEN Signed(a(1), s.x)
                                   ELSE Mask(a(1), s.x), s.sz))
        [] s.op = "Truncate" -> Define(m, s.res, Mask(a(1), s.sz))
        [] s.op = "LoadCarry" -> Define(m, s.res, m.g.cf % 2)
        [] s.op = "LoadRflags" -> Define(m, s.res, WithBits(m.g.rflags, 0))
        [] s.op = "ReadCarryOut" ->
             Define(m, s.res, IF s.k = "sub" THEN 1 - m.f.c ELSE m.f.c)
        [] s.op = "Select" ->
             Define(Refreshed(m), s.res, Mask(IF EvalCc(s.k, FlagsNow(m)) THEN a(1) ELSE a(2), s.sz))

InterpFlags(m, s) ==
  LET a(i) == Val(m, s.args[i])
  IN  CASE s.op = "Compare" ->
             LET f == SubFlags(a(1), a(2), s.sz)
             IN  SetNzcv(Define(m, s.res, B2N(EvalCc(s.k, f))), f)
        [] s.op = "CmpFlags" -> SetNzcv(m, SubFlags(a(1), a(2), s.sz))
        [] s.op \in {"WriteFlags", "AluFlags"} ->
             IF s.k \in {"Sub", "Add", "And", "Or", "Xor"}
             THEN SetNzcv(m, FlagsOf(s.k, a(1), a(2), s.sz))
             ELSE [m EXCEPT !.out = Unsupported]
        [] s.op = "AluFlagsPreserveCarry" ->
             IF s.k \in {"Sub", "Add"}
             THEN SetNzcv(m, [FlagsOf(s.k, a(1), a(2), s.sz) EXCEPT !.c = m.g.cf % 2])
             ELSE [m EXCEPT !.out = Unsupported]

InterpVector(m, s) ==
  LET v(i) == VecVal(m, s.args[i])
      len(i) == IF i \in DOMAIN s.args THEN <<Val(m, s.args[i])>> ELSE << >>
      eval == EvalPcmpStr(v(1), v(2), len(3), len(4), s.imm[1])
  IN  CASE s.op = "VecConstant" -> DefineVec(m, s.res, s.imm)
        [] s.op = "LoadVecReg" -> DefineVec(m, s.res, m.g.xmm[s.imm[1]])
        [] s.op = "StoreVecReg" -> [m EXCEPT !.g.xmm[s.imm[1]] = v(1)]
        [] s.op = "VecClMul" ->
             DefineVec(m, s.res, CarrylessMul(VecLane(v(1), s.imm[1]), VecLane(v(2), s.imm[2])))
        [] s.op = "PcmpStrIndex" -> Define(m, s.res, PcmpStrIndex(eval, s.imm[1]))
        [] s.op = "PcmpStrMask" -> DefineVec(m, s.res, PcmpStrMask(eval, s.imm[1]))
        [] s.op = "PcmpStrFlags" -> Define(m, s.res, PcmpStrFlags(eval))

InterpStore(m, s) ==
  LET a == [i \in DOMAIN s.args |-> Val(m, s.args[i])]
      persist(g) == [m EXCEPT !.g = g, !.live = FALSE]
      n == Len(s.args)
  IN  CASE s.op = "StoreReg" -> [m EXCEPT !.g = StoreGpr(m.g, s.k, a[1], s.sz)]
        [] s.op = "StoreCarry" -> persist(StoreCarryBit(m.g, a[1]))
        [] s.op = "StoreRflags" -> persist(StoreRflagsWord(m.g, a[1]))
        [] s.op = "StoreRflagsFromNzcv" ->
             [m EXCEPT !.g = StoreRflagsFromFlags(m.g, m.f, s.k, OptBits(s.x, a), OptMask(s.x))]
        [] s.op = "StoreRflagsFromBits" ->
             persist(StoreRflagsBits(m.g, OptBits(s.x, a), OptMask(s.x), a[n - 2], a[n - 1], a[n]))

InterpExit(m, s) ==
  LET to(out) == [m EXCEPT !.out = out]
  IN  CASE s.op = "CondJumpRel" ->
             to(Outcome("Branch", IF EvalCc(s.k, FlagsNow(m)) THEN s.imm[1] ELSE s.imm[2]))
        [] s.op = "JumpRel" -> to(Outcome("Branch", s.imm[1]))
        [] s.op = "Syscall" -> to(Outcome("Syscall", 0))
        [] s.op = "Trap" -> to(Outcome("Trap", 0))
        [] s.op = "TrapIf" -> IF Val(m, s.args[1]) # 0 THEN to(Outcome("Trap", 0)) ELSE m
        [] s.op \in {"Return", "JumpReg", "CallReg"} -> to(Outcome("DynamicTransfer", 0))
        [] OTHER -> to(Unsupported)

InterpStep(m, s) ==
  CASE s.op \in {"Constant", "LoadReg", "BinOp", "WideDiv", "Extend", "Truncate",
                 "LoadCarry", "LoadRflags", "ReadCarryOut", "Select"} -> InterpPure(m, s)
    [] s.op \in {"Compare", "CmpFlags", "WriteFlags", "AluFlags", "AluFlagsPreserveCarry"} ->
         InterpFlags(m, s)
    [] s.op \in {"StoreReg", "StoreCarry", "StoreRflags", "StoreRflagsFromNzcv",
                 "StoreRflagsFromBits"} -> InterpStore(m, s)
    [] s.op \in {"VecConstant", "LoadVecReg", "StoreVecReg", "VecClMul", "PcmpStrIndex",
                 "PcmpStrMask", "PcmpStrFlags"} -> InterpVector(m, s)
    [] OTHER -> InterpExit(m, s)

\* interpret_block(stmts, regs): the final guest state and the outcome.
InterpretBlock(stmts, g) ==
  LET step(m, s) == IF m.out = Running THEN InterpStep(m, s) ELSE m
      result(m) == [g |-> m.g, out |-> IF m.out = Running THEN Fallthrough ELSE m.out]
  IN  result(Fold(step, InterpInit(g), stmts))
=============================================================================
