------------------------------- MODULE Lowerer -------------------------------
(***************************************************************************)
(* The AArch64 backend (prisma-backend, lowerer.rs): what the instructions *)
(* a block is lowered to do to the guest state.                            *)
(*                                                                         *)
(* The values of the references live in host registers.  value_reg gives   *)
(* reference r the register x(9 + r % 8), so a later definition overwrites *)
(* an earlier one; Run takes the allocation as a parameter, so that the    *)
(* ring can be compared with one that never reuses a register.             *)
(* Guest bytes have 2 bits (see IR); mem maps the written guest addresses  *)
(* to bytes, and the guest address is the host address (mem_base is 0).    *)
(* The comparisons the two-word division and LZCNT/TZCNT make inside their *)
(* own code also change NZCV.  They are left out: LZCNT and TZCNT are      *)
(* followed by a new flag writer, and x86 leaves the flags undefined after *)
(* a division.  The scratch registers are left out too, although the pairs *)
(* that hold 128-bit values are among them: no decoded instruction reads   *)
(* such a value after an operation that uses a scratch register.           *)
(***************************************************************************)
EXTENDS Interp, FiniteSets

-----------------------------------------------------------------------------
\* The helper functions that PCMPxSTRx calls from generated code, and the loop
\* PCLMULQDQ is lowered to.  A helper is given the halves of both vectors, both
\* lengths (0 for an absent one), len_mode, which says the lengths that count,
\* and imm8.  The halves of a vector are a pair (lo, hi).

PcmpLenLhsExplicit == 1
PcmpLenRhsExplicit == 2

\* The bytes of lhs_hi:lhs_lo; pcmp_lane_unsigned and pcmp_lane_signed.
LittleEndian(pair) ==
  [k \in 0 .. 15 |-> (pair[IF k < 8 THEN 1 ELSE 2] \div Pow2[Bits.I8 * (k % 8)]) % ByteSpan]
PcmpLane(bytes, lane, sz, signed) ==
  LET v == IF sz = "I8" THEN bytes[lane] ELSE bytes[2 * lane] + ByteSpan * bytes[2 * lane + 1]
  IN  IF signed THEN Signed(v, sz) ELSE v

\* pcmp_effective_len of the backend.
BackendEffectiveLen(bytes, sz, isExplicit, raw) ==
  LET most == 16 \div ByteCount[sz]
      s == Signed(raw, "I32")
      given == IF s < 0 THEN -s ELSE s
      ends == {i \in 0 .. most - 1 : PcmpLane(bytes, i, sz, FALSE) = 0}
  IN  IF isExplicit THEN IF given < most THEN given ELSE most
      ELSE IF ends = {} THEN most ELSE CHOOSE i \in ends : \A j \in ends : i <= j

\* The four aggregations of eval_backend_pcmp_str: does lane i of the left
\* vector match?
EqualAny(l, r, i, rhsLen) == \E j \in 0 .. rhsLen - 1 : l[i] = r[j]
InRange(l, r, i, rhsLen) ==
  \E k \in 0 .. (rhsLen \div 2) - 1 : r[2 * k] <= l[i] /\ l[i] <= r[2 * k + 1]
EqualEach(l, r, i, rhsLen) == i < rhsLen /\ l[i] = r[i]
EqualOrdered(l, r, i, lhsLen, rhsLen) ==
  rhsLen > 0 /\ i + rhsLen <= lhsLen /\ \A j \in 0 .. rhsLen - 1 : l[i + j] = r[j]

\* The polarity: 1 negates every lane, 3 the valid ones, and an invalid lane
\* is clear under 2 and 3.
Polarised(matched, valid, polarity) ==
  CASE polarity = 0 -> matched
    [] polarity = 1 -> ~matched
    [] polarity = 2 -> matched /\ valid
    [] polarity = 3 -> ~matched /\ valid

EvalBackendPcmpStr(lhs, rhs, lhsLen, rhsLen, lenMode, imm8) ==
  LET sz == IF imm8 % 2 = 0 THEN "I8" ELSE "I16"
      most == 16 \div ByteCount[sz]
      signed == (imm8 \div 2) % 2 = 1
      lanes(pair) == LET b == LittleEndian(pair) IN [i \in 0 .. most - 1 |-> PcmpLane(b, i, sz, signed)]
      l == lanes(lhs)
      r == lanes(rhs)
      ln == BackendEffectiveLen(LittleEndian(lhs), sz, lenMode % 2 = PcmpLenLhsExplicit, lhsLen)
      rn == BackendEffectiveLen(LittleEndian(rhs), sz, lenMode >= PcmpLenRhsExplicit, rhsLen)
      matched(i) == CASE (imm8 \div 4) % 4 = 0 -> EqualAny(l, r, i, rn)
                      [] (imm8 \div 4) % 4 = 1 -> InRange(l, r, i, rn)
                      [] (imm8 \div 4) % 4 = 2 -> EqualEach(l, r, i, rn)
                      [] (imm8 \div 4) % 4 = 3 -> EqualOrdered(l, r, i, ln, rn)
      bit(i) == Polarised(i < ln /\ matched(i), i < ln, (imm8 \div 16) % 4)
  IN  [bits |-> [i \in 0 .. most - 1 |-> bit(i)], lhsLen |-> ln, rhsLen |-> rn, bytes |-> ByteCount[sz]]

MatchingLanes(e) == {i \in DOMAIN e.bits : e.bits[i]}

\* backend_pcmp_str_index.
BackendPcmpStrIndex(e, imm8) ==
  LET found == MatchingLanes(e)
      first == (imm8 \div 64) % 2 = 0
  IN  IF found = {} THEN 16 \div e.bytes
      ELSE CHOOSE i \in found : \A j \in found \ {i} : (i < j) = first

\* backend_pcmp_str_mask.
BackendPcmpStrMask(e, imm8) ==
  LET expand == (imm8 \div 64) % 2 = 1
      bitSet(n) == IF expand THEN e.bits[(n \div Bits.I8) \div e.bytes] ELSE n \in DOMAIN e.bits /\ e.bits[n]
      add(acc, n) == acc + B2N(bitSet(n)) * Pow2[n % Bits.I64]
      half(first) == Fold(add, 0, [k \in 1 .. Bits.I64 |-> first + k - 1])
  IN  <<half(0), half(Bits.I64)>>

\* backend_pcmp_str_flags.
BackendPcmpStrFlags(e) ==
  LET most == 16 \div e.bytes
  IN  (IF MatchingLanes(e) = {} THEN 0 ELSE 1) + (IF e.rhsLen < most THEN 2 ELSE 0)
        + (IF e.lhsLen < most THEN 4 ELSE 0) + (IF e.bits[0] THEN 8 ELSE 0)

\* The helper of an operation; that of PcmpStrMask is called for each half.
PcmpStrHelper(op, lhs, rhs, lhsLen, rhsLen, lenMode, imm8) ==
  LET result(e) == CASE op = "PcmpStrIndex" -> BackendPcmpStrIndex(e, imm8)
                     [] op = "PcmpStrMask" -> BackendPcmpStrMask(e, imm8)
                     [] op = "PcmpStrFlags" -> BackendPcmpStrFlags(e)
  IN  result(EvalBackendPcmpStr(lhs, rhs, lhsLen, rhsLen, lenMode, imm8))

-----------------------------------------------------------------------------
\* lower_vec_clmul: one round of the loop, CLMUL_COUNT times.
ClmulRound(w, n) ==
  LET odd == w.rhs % 2 = 1
  IN  [lo |-> IF odd THEN BitXor(w.lo, w.workLo) ELSE w.lo,
       hi |-> IF odd THEN BitXor(w.hi, w.workHi) ELSE w.hi,
       workLo |-> ShiftLeft(w.workLo, 1),
       workHi |-> ShiftLeft(w.workHi, 1) + ShiftRight(w.workLo, Bits.I64 - 1),
       rhs |-> w.rhs \div 2]
ClmulCount == Bits.I64
Clmul(lhs, rhs) ==
  LET w == Fold(ClmulRound, [lo |-> 0, hi |-> 0, workLo |-> lhs, workHi |-> 0, rhs |-> rhs],
                [k \in 1 .. ClmulCount |-> k])
  IN  <<w.lo, w.hi>>

-----------------------------------------------------------------------------
\* The lowering of a block.

\* value_reg with VALUE_REG_COUNT registers, and with so many that no block
\* reuses one.
ValueReg(r, regs) == r % regs
Ring == 8
Endless == 1000

-----------------------------------------------------------------------------
\* Guest memory.

\* The bytes memory holds before the block runs.
InitialByte(a) == (a + (a \div 4)) % ByteSpan
ByteAt(mem, a) == IF a \in DOMAIN mem THEN mem[a] ELSE InitialByte(a)

RECURSIVE LoadBytes(_, _, _)
LoadBytes(mem, a, n) ==
  IF n = 0 THEN 0
  ELSE ByteAt(mem, Wrap(a)) + ByteSpan * LoadBytes(mem, a + 1, n - 1)

Load(mem, a, sz) == LoadBytes(mem, a, ByteCount[sz])

StoreTo(mem, a, v, sz) ==
  LET n == ByteCount[sz]
      at == {Wrap(a + i) : i \in 0 .. n - 1}
  IN  [q \in DOMAIN mem \union at |->
         IF q \in at THEN (v \div Pow2[Bits.I8 * Wrap(q - a)]) % ByteSpan ELSE mem[q]]

-----------------------------------------------------------------------------
\* Conditions: arm_condition maps a condition code to the AArch64 condition
\* that B.cond, CSET and CSEL test.

ArmCondition ==
  [Eq |-> "EQ", Ne |-> "NE", Uge |-> "CS", Nc |-> "CS", Ult |-> "CC", Cc |-> "CC",
   Mi |-> "MI", Pl |-> "PL", Ov |-> "VS", NoOv |-> "VC", Ugt |-> "HI", Ule |-> "LS",
   Sge |-> "GE", Slt |-> "LT", Sgt |-> "GT", Sle |-> "LE"]

Holds(cond, f) ==
  CASE cond = "EQ" -> f.z = 1
    [] cond = "NE" -> f.z = 0
    [] cond = "CS" -> f.c = 1
    [] cond = "CC" -> f.c = 0
    [] cond = "MI" -> f.n = 1
    [] cond = "PL" -> f.n = 0
    [] cond = "VS" -> f.v = 1
    [] cond = "VC" -> f.v = 0
    [] cond = "HI" -> f.c = 1 /\ f.z = 0
    [] cond = "LS" -> f.c = 0 \/ f.z = 1
    [] cond = "GE" -> f.n = f.v
    [] cond = "LT" -> f.n # f.v
    [] cond = "GT" -> f.z = 0 /\ f.n = f.v
    [] cond = "LE" -> f.z = 1 \/ f.n # f.v

\* align_flag_operands: both operands moved to the top of the register, so
\* that the 64-bit flags are those of the operand size.
Aligned(v, sz) == ShiftLeft(v, Bits.I64 - Bits[sz])
AlignedFlags(k, a, b, sz) == FlagsOf(k, Aligned(a, sz), Aligned(b, sz), "I64")

-----------------------------------------------------------------------------
(***************************************************************************)
(* lower_binop.  Every operation is the 64-bit AArch64 one whatever the    *)
(* size of the IR operation; shift counts are taken modulo the register    *)
(* width by the instruction.                                               *)
(***************************************************************************)
SignedDiv(a, b) ==
  IF b = Word - 1 THEN Wrap(-a)
  ELSE Wrap(TruncDiv(Signed(a, "I64"), Signed(b, "I64")))

\* lower_add_sub and lower_reg_binop.
AddSub(k, a, b) == IF k = "Add" THEN Wrap(a + b) ELSE Wrap(a - b)

RegBinop(k, a, b) ==
  LET n == b % Bits.I64
  IN  CASE k = "And" -> BitAnd(a, b)
        [] k = "Or"  -> BitOr(a, b)
        [] k = "Xor" -> BitXor(a, b)
        [] k = "Shl" -> ShiftLeft(a, n)
        [] k = "Shr" -> ShiftRight(a, n)
        [] k = "Sar" -> ShiftArith(a, n)
        [] k = "Ror" -> RotateRight(a, n, Bits.I64)
        [] k = "Rol" -> RotateRight(a, Wrap(-b) % Bits.I64, Bits.I64)
        [] k = "Mul" -> MulLow(a, b)
        [] k \in {"UMulHi", "SMulHi"} -> EvalBinop(k, a, b, "I64")
        [] k = "UDiv" -> a \div b
        [] k = "SDiv" -> SignedDiv(a, b)

\* lower_mod_binop: the remainder of the truncated quotient.
ModBinop(k, a, b) ==
  IF k = "UMod" THEN a % b ELSE Wrap(a - MulLow(SignedDiv(a, b), b))

\* lower_lzcnt, lower_tzcnt and lower_popcnt.
LeadingZeros(v, w) == w - (CHOOSE n \in 0 .. w : v % Pow2[w] < Pow2[n] /\ (n = 0 \/ v % Pow2[w] >= Pow2[n - 1]))
TrailingZeros(v, w) ==
  IF v % Pow2[w] = 0 THEN w ELSE CHOOSE n \in 0 .. w - 1 : v % Pow2[n] = 0 /\ Bit(v, n) = 1
RECURSIVE OnesIn(_)
OnesIn(v) == IF v = 0 THEN 0 ELSE (v % 2) + OnesIn(v \div 2)

\* lower_bswap.
RECURSIVE SwappedBytes(_, _)
SwappedBytes(v, n) ==
  IF n = 0 THEN 0 ELSE (v % ByteSpan) * Pow2[Bits.I8 * (n - 1)] + SwappedBytes(v \div ByteSpan, n - 1)

HostUnary(op, v, sz) ==
  CASE op = "Lzcnt" -> LeadingZeros(v, Bits[sz])
    [] op = "Tzcnt" -> TrailingZeros(v, Bits[sz])
    [] op = "Popcnt" -> OnesIn(Mask(v, sz))
    [] op = "Bswap" -> SwappedBytes(v, ByteCount[sz])
    [] op = "Truncate" -> Mask(v, sz)

\* lower_extend.
HostExtend(s, v) ==
  IF s.k = "signed" THEN Mask(Signed(v, s.x), s.sz) ELSE Mask(v, s.x)

-----------------------------------------------------------------------------
\* What lower_function accepts: the LowerError cases, decided before any code
\* runs.  An operand must have been given a register, a carry read its flags.

LoweredOps ==
  {"Constant", "LoadReg", "StoreReg", "BinOp", "WideDiv", "LoadMem", "StoreMem", "LoadMemTSO",
   "StoreMemTSO", "Compare", "CmpFlags", "AluFlags", "AluFlagsPreserveCarry", "AtomicCmpxchg",
   "AtomicCmpxchgPair", "Syscall", "Trap", "TrapIf", "Extend", "Truncate", "Fence", "WriteFlags",
   "WriteFlagsPopcnt", "WriteFlagsCountZero", "LoadCarry", "ReadCarryOut", "StoreCarry",
   "LoadRflags", "StoreRflags", "StoreRflagsFromNzcv", "StoreRflagsFromBits", "Lzcnt", "Tzcnt",
   "Popcnt", "Bswap", "CondJumpRel", "Select", "JumpReg", "JumpRel", "CallRel", "CallReg",
   "RspAdjust", "Return", "RetAdjusted", "Rdtsc", "Xgetbv", "Cpuid", "VecConstant", "LoadVecReg",
   "StoreVecReg", "LoadVec", "StoreVec", "XmmFromGpr", "GprFromXmm", "VecClMul", "PcmpStrIndex",
   "PcmpStrMask", "PcmpStrFlags", "Jump", "CondJump", "CondJumpFlags"}
FlagResults == {"CmpFlags", "WriteFlags"}
NoResult == {"StoreReg", "StoreMem", "StoreMemTSO", "AluFlags", "AluFlagsPreserveCarry", "Syscall",
             "Trap", "TrapIf", "Fence", "WriteFlagsPopcnt", "WriteFlagsCountZero", "StoreCarry",
             "StoreRflags", "StoreRflagsFromNzcv", "StoreRflagsFromBits", "CondJumpRel", "JumpReg",
             "JumpRel", "CallRel", "CallReg", "RspAdjust", "Return", "RetAdjusted", "Cpuid", "StoreVecReg", "StoreVec",
             "Jump", "CondJump", "CondJumpFlags"}
VecResults == {"VecConstant", "LoadVecReg", "LoadVec", "XmmFromGpr", "VecClMul", "PcmpStrMask"}
LoweredBinops == {"Add", "Sub", "And", "Or", "Xor", "Shl", "Shr", "Sar", "Ror", "Rol", "Mul",
                  "UMulHi", "SMulHi", "UDiv", "SDiv", "UMod", "SMod"}
ValuesOf(s) == IF s.op \in FlagResults \union NoResult \union VecResults THEN {} ELSE Defines(s)

\* The operands that are 128-bit values, and alloc_vec_pair: a block has as many
\* register pairs as VEC_REG_PAIRS.
VecArgs(s) ==
  CASE s.op \in {"StoreVecReg", "GprFromXmm"} -> {1}
    [] s.op = "StoreVec" -> {2}
    [] s.op \in {"VecClMul", "PcmpStrIndex", "PcmpStrMask", "PcmpStrFlags"} -> {1, 2}
    [] OTHER -> {}
VecRegPairs == 3
AllocVecPair(s, vecs) == IF s.op \in VecResults THEN vecs \union {s.res} ELSE vecs

StmtLowers(s, values, vecs, flags) ==
  /\ s.op \in LoweredOps
  /\ s.op \in NoResult \/ s.res # NoRef
  /\ s.op = "BinOp" => s.k \in LoweredBinops
  /\ s.op \in {"AluFlags", "WriteFlags"} => s.k \in {"Sub", "Add", "And", "Or", "Xor"}
  /\ s.op = "AluFlagsPreserveCarry" => s.k \in {"Sub", "Add"}
  /\ IF s.op \in {"ReadCarryOut", "CondJumpFlags"} THEN s.args[1] \in flags
     ELSE \A i \in DOMAIN s.args : s.args[i] \in (IF i \in VecArgs(s) THEN vecs ELSE values)

Lowers(stmts) ==
  LET step(acc, s) ==
        [ok |-> /\ acc.ok /\ StmtLowers(s, acc.values, acc.vecs, acc.flags)
                /\ Cardinality(AllocVecPair(s, acc.vecs)) <= VecRegPairs,
         values |-> acc.values \union ValuesOf(s),
         vecs |-> AllocVecPair(s, acc.vecs),
         flags |-> IF s.op \in FlagResults THEN acc.flags \union {s.res} ELSE acc.flags]
  IN  Fold(step, [ok |-> TRUE, values |-> {}, vecs |-> {}, flags |-> {}], stmts).ok

-----------------------------------------------------------------------------
(***************************************************************************)
(* The lowered code at run time.  The machine is Interp's with vals        *)
(* indexed by register, plus the constants the lowerer knows (an ADD or    *)
(* SUB of a small one takes it as an immediate) and framed: whether the    *)
(* host frame the block prologue pushed is still there.                    *)
(***************************************************************************)
HostInit(g) ==
  [g |-> g, vals |-> << >>, vecs |-> << >>, f |-> Nzcv(0, 0, 0, 0), live |-> FALSE, out |-> Running,
   consts |-> << >>, framed |-> TRUE]

Imm12 == 4096
Noted(m, s) ==
  [m EXCEPT !.consts =
     [q \in DOMAIN m.consts \union {s.res} |-> IF q = s.res THEN s.imm[1] ELSE m.consts[q]]]

\* A block exit: the epilogue pops the host frame.
Leave(m, out) == [m EXCEPT !.out = out, !.framed = FALSE]
BranchTo(m, pc) == Leave(m, Outcome("Branch", pc))
Sigfpe(m) == Leave(m, Outcome("Trap", 0))

\* ensure_nzcv_live.
EnsureNzcvLive(m) ==
  IF m.live THEN m ELSE [m EXCEPT !.f = FlagsFromRflags(m.g.rflags), !.live = TRUE]

\* lower_wide_div.
LowerWideDiv(m, s, regs, a) ==
  LET v == EvalWideDiv(a[1], a[2], a[3], s.k = "signed", s.x)
  IN  IF v = NoValue THEN Sigfpe(m) ELSE Define(m, ValueReg(s.res, regs), v)

\* lower_binop.  A constant operand of Add and Sub is an immediate, not the
\* register the constant was put in.
LowerBinop(m, s, regs, a) ==
  LET imm == s.args[2] \in DOMAIN m.consts /\ m.consts[s.args[2]] < Imm12
      to(v) == Define(m, ValueReg(s.res, regs), v)
  IN  CASE s.k \in {"Add", "Sub"} -> to(AddSub(s.k, a[1], IF imm THEN m.consts[s.args[2]] ELSE a[2]))
        [] s.k \in {"UDiv", "SDiv", "UMod", "SMod"} /\ a[2] = 0 -> Sigfpe(m)
        [] s.k \in {"UMod", "SMod"} /\ a[2] # 0 -> to(ModBinop(s.k, a[1], a[2]))
        [] OTHER -> to(RegBinop(s.k, a[1], a[2]))

\* lower_cpuid: the leaf selected by EAX and ECX; the values are the leaf
\* number with the register's position, and zero for an unknown leaf.
CpuidLeaf(eax, ecx) ==
  CASE eax \in {0, 1} -> eax + 1
    [] (eax = 7 \/ (eax >= 8 /\ eax < Pow2[Bits.I32 - 1])) /\ ecx = 0 -> 3
    [] OTHER -> 0
LowerCpuid(m) ==
  LET leaf == CpuidLeaf(Mask(m.g.gpr.Rax, "I32"), Mask(m.g.gpr.Rcx, "I32"))
      value(n) == IF leaf = 0 THEN 0 ELSE 4 * leaf + n
  IN  [m EXCEPT !.g.gpr.Rax = value(0), !.g.gpr.Rbx = value(1),
                !.g.gpr.Rcx = value(2), !.g.gpr.Rdx = value(3)]

\* lower_xgetbv writes RAX and RDX itself and defines its result as well.
Xcr0 == 7
LowerXgetbv(m, s, regs) ==
  LET v == IF Mask(m.g.gpr.Rcx, "I32") = 0 THEN Xcr0 ELSE 0
  IN  [Define(m, ValueReg(s.res, regs), v) EXCEPT !.g.gpr.Rax = v, !.g.gpr.Rdx = 0]

\* The host's virtual counter, which RDTSC reads.
HostCounter == 1 + 3 * Pow2[Bits.I32]

\* lower_select.
LowerSelect(m, s, regs, a) ==
  LET n == EnsureNzcvLive(m)
  IN  Define(n, ValueReg(s.res, regs), IF Holds(ArmCondition[s.k], n.f) THEN a[1] ELSE a[2])

LowerValue(m, s, regs, a) ==
  LET to(v) == Define(m, ValueReg(s.res, regs), v)
  IN  CASE s.op = "Constant" -> Noted(to(s.imm[1]), s)
        [] s.op = "LoadReg" -> to(Mask(m.g.gpr[s.k], s.sz))
        [] s.op = "BinOp" -> LowerBinop(m, s, regs, a)
        [] s.op = "WideDiv" -> LowerWideDiv(m, s, regs, a)
        [] s.op \in {"LoadMem", "LoadMemTSO"} -> to(Load(m.g.mem, a[1], s.sz))
        [] s.op = "Extend" -> to(HostExtend(s, a[1]))
        [] s.op \in {"Truncate", "Lzcnt", "Tzcnt", "Popcnt", "Bswap"} -> to(HostUnary(s.op, a[1], s.sz))
        [] s.op = "LoadCarry" -> to(m.g.cf)
        [] s.op = "LoadRflags" -> to(m.g.rflags)
        [] s.op = "ReadCarryOut" ->
             to(B2N(Holds(ArmCondition[IF s.k = "sub" THEN "Cc" ELSE "Nc"], m.f)))
        [] s.op = "Select" -> LowerSelect(m, s, regs, a)
        [] s.op = "Rdtsc" -> to(HostCounter)
        [] s.op = "Xgetbv" -> LowerXgetbv(m, s, regs)

\* emit_pcmpstr_helper_call: the halves of the vectors, the lengths that are
\* there, and len_mode.
PcmpHelperCall(m, s, a) ==
  LET v(i) == VecVal(m, s.args[i])
      is == Len(s.args) = 4
      mode == IF is THEN PcmpLenLhsExplicit + PcmpLenRhsExplicit ELSE 0
  IN  PcmpStrHelper(s.op, v(1), v(2), IF is THEN a[3] ELSE 0, IF is THEN a[4] ELSE 0, mode, s.imm[1])

\* lower_pcmpstr_index and lower_pcmpstr_flags define a value, lower_pcmpstr_mask
\* a pair.
LowerPcmpStr(m, s, regs, a) ==
  LET to(w) == IF s.op = "PcmpStrMask" THEN DefineVec(m, s.res, w) ELSE Define(m, ValueReg(s.res, regs), w)
  IN  to(PcmpHelperCall(m, s, a))

\* The operations on pairs of registers; memory and the state hold a pair as
\* two words.
LowerVector(m, s, regs, a) ==
  LET v(i) == VecVal(m, s.args[i])
      to(w) == Define(m, ValueReg(s.res, regs), w)
      toVec(w) == DefineVec(m, s.res, w)
      high == ByteCount.I64
  IN  CASE s.op = "VecConstant" -> toVec(s.imm)
        [] s.op = "LoadVecReg" -> toVec(m.g.xmm[s.imm[1]])
        [] s.op = "StoreVecReg" -> [m EXCEPT !.g.xmm[s.imm[1]] = v(1)]
        [] s.op = "LoadVec" -> toVec(<<Load(m.g.mem, a[1], "I64"), Load(m.g.mem, a[1] + high, "I64")>>)
        [] s.op = "StoreVec" ->
             [m EXCEPT !.g.mem = StoreTo(StoreTo(@, a[1], v(2)[1], "I64"), a[1] + high, v(2)[2], "I64")]
        [] s.op = "XmmFromGpr" -> toVec(<<Mask(a[1], s.sz), 0>>)
        [] s.op = "GprFromXmm" -> to(Mask(v(1)[1], s.sz))
        [] s.op = "VecClMul" -> toVec(Clmul(v(1)[1 + s.imm[1]], v(2)[1 + s.imm[2]]))
        [] s.op \in {"PcmpStrIndex", "PcmpStrMask", "PcmpStrFlags"} -> LowerPcmpStr(m, s, regs, a)

\* lower_compare.
LowerCompare(m, s, regs, a) ==
  LET f == AlignedFlags("Sub", a[1], a[2], s.sz)
  IN  SetNzcv(Define(m, ValueReg(s.res, regs), B2N(Holds(ArmCondition[s.k], f))), f)

\* The flag writers.
AluFlagsOf(s, a) == AlignedFlags(s.k, a[1], a[2], s.sz)
PreservingCarry(m, s, a) == [AluFlagsOf(s, a) EXCEPT !.c = m.g.cf % 2]
PopcntFlags(s, a) == Nzcv(0, B2N(Mask(a[1], s.sz) = 0), 0, 0)
CountZeroFlags(s, a) == Nzcv(0, B2N(Mask(a[2], s.sz) = 0), B2N(Mask(a[1], s.sz) = 0), 0)

LowerFlags(m, s, regs, a) ==
  CASE s.op = "Compare" -> LowerCompare(m, s, regs, a)
    [] s.op = "CmpFlags" -> SetNzcv(m, AlignedFlags("Sub", a[1], a[2], s.sz))
    [] s.op \in {"AluFlags", "WriteFlags"} -> SetNzcv(m, AluFlagsOf(s, a))
    [] s.op = "AluFlagsPreserveCarry" -> SetNzcv(m, PreservingCarry(m, s, a))
    [] s.op = "WriteFlagsPopcnt" -> SetNzcv(m, PopcntFlags(s, a))
    [] s.op = "WriteFlagsCountZero" -> SetNzcv(m, CountZeroFlags(s, a))

\* lower_store_carry keeps bit 1 of RFLAGS as it is; lower_store_rflags sets it.
HostStoreCarry(g, v) == [g EXCEPT !.cf = v % 2, !.rflags = BitOr(Clear(@, 1), v % 2)]

\* lower_store_rflags_from_nzcv: Preserve keeps the CF bit of RFLAGS.
HostRflagsFromNzcv(g, f, carry, opt, optMask) ==
  LET kept == Clear(g.rflags, ZfSfOf + optMask + (IF carry = "Preserve" THEN 0 ELSE 1))
      cf == CASE carry = "ArmCarry" -> f.c
              [] carry = "InvertArmCarry" -> 1 - f.c
              [] carry \in {"Preserve", "Clear"} -> 0
      new == BitOr(WithBits(kept, opt + 64 * f.z + 128 * f.n + 2048 * f.v), cf)
  IN  [g EXCEPT !.rflags = new, !.cf = new % 2]

\* lower_store_rflags_from_bits leaves the CF bit of RFLAGS to StoreCarry.
HostRflagsFromBits(g, opt, optMask, zf, sf, of) ==
  [g EXCEPT !.rflags =
     WithBits(Clear(@, ZfSfOf + optMask), opt + 64 * (zf % 2) + 128 * (sf % 2) + 2048 * (of % 2))]

\* emit_rsp_imm_add, whose three encodings of the constant add the same.
RspPlus(g, delta) == Wrap(g.gpr.Rsp + delta)

LowerStore(m, s, a) ==
  LET persist(g) == [m EXCEPT !.g = g, !.live = FALSE]
      n == Len(s.args)
  IN  CASE s.op = "StoreReg" -> [m EXCEPT !.g = StoreGpr(m.g, s.k, a[1], s.sz)]
        [] s.op \in {"StoreMem", "StoreMemTSO"} ->
             [m EXCEPT !.g.mem = StoreTo(m.g.mem, a[1], a[2], s.sz)]
        [] s.op = "RspAdjust" -> [m EXCEPT !.g.gpr.Rsp = RspPlus(m.g, s.imm[1])]
        [] s.op = "StoreCarry" -> persist(HostStoreCarry(m.g, a[1]))
        [] s.op = "StoreRflags" -> persist(StoreRflagsWord(m.g, a[1]))
        [] s.op = "StoreRflagsFromNzcv" ->
             [m EXCEPT !.g = HostRflagsFromNzcv(m.g, m.f, s.k, OptBits(s.x, a), OptMask(s.x))]
        [] s.op = "StoreRflagsFromBits" ->
             persist(HostRflagsFromBits(m.g, OptBits(s.x, a), OptMask(s.x), a[n - 2], a[n - 1], a[n]))
        [] s.op = "Cpuid" -> LowerCpuid(m)
        [] s.op = "Fence" -> m

\* lower_atomic_cmpxchg(_pair): one successful LDAXR/STLXR round, since the
\* block's memory accesses are not interleaved with another thread's here.
LowerAtomic(m, s, regs, a) ==
  LET old == Load(m.g.mem, a[1], s.sz)
      high == Load(m.g.mem, a[1] + 8, "I64")
      store(mem, at, v) == StoreTo(mem, at, v, s.sz)
  IN  IF s.op = "AtomicCmpxchg"
      THEN [Define(m, ValueReg(s.res, regs), old) EXCEPT
              !.live = FALSE,
              !.g.mem = IF Mask(old, s.sz) = Mask(a[2], s.sz) THEN store(@, a[1], a[3]) ELSE @]
      ELSE [Define(Define(m, ValueReg(s.res, regs), old), ValueReg(s.imm[1], regs), high) EXCEPT
              !.live = FALSE,
              !.g.mem = IF old = a[2] /\ high = a[3]
                        THEN store(store(@, a[1], a[4]), a[1] + 8, a[5]) ELSE @]

\* Pushing the return address, and popping it.
PushPc(g, pc) ==
  LET rsp == RspPlus(g, -8)
  IN  [g EXCEPT !.gpr.Rsp = rsp, !.mem = StoreTo(@, rsp, pc, "I64")]
CallTo(m, target, return) == BranchTo([m EXCEPT !.g = PushPc(m.g, return)], target)
PopPc(m, bytes) ==
  BranchTo([m EXCEPT !.g.gpr.Rsp = RspPlus(m.g, bytes)], Load(m.g.mem, m.g.gpr.Rsp, "I64"))

\* The block exits of the branch_via_frame lowering.  Trap returns without the
\* epilogue, so the frame the prologue pushed stays on the host stack.
LowerExit(m, s, a) ==
  CASE s.op = "CondJumpRel" ->
         LET n == EnsureNzcvLive(m)
         IN  BranchTo(n, IF Holds(ArmCondition[s.k], n.f) THEN s.imm[1] ELSE s.imm[2])
    [] s.op = "JumpRel" -> BranchTo(m, s.imm[1])
    [] s.op = "JumpReg" -> BranchTo(m, a[1])
    [] s.op = "CallRel" -> CallTo(m, s.imm[1], s.imm[2])
    [] s.op = "CallReg" -> CallTo(m, a[1], s.imm[1])
    [] s.op = "Return" -> PopPc(m, 8)
    [] s.op = "RetAdjusted" -> PopPc(m, s.imm[1])
    [] s.op = "Syscall" -> Leave(m, Outcome("Syscall", 0))
    [] s.op = "Trap" -> [m EXCEPT !.out = Outcome("Trap", 0)]
    [] s.op = "Jump" -> [m EXCEPT !.out = Outcome("Goto", s.imm[1])]
    [] s.op = "CondJump" -> [m EXCEPT !.out = Outcome("Goto", s.imm[IF a[1] # 0 THEN 1 ELSE 2])]
    [] s.op = "CondJumpFlags" ->
         [m EXCEPT !.out = Outcome("Goto", s.imm[IF Holds(ArmCondition[s.k], m.f) THEN 1 ELSE 2])]
    [] s.op = "TrapIf" -> IF a[1] # 0 THEN Sigfpe(m) ELSE m

\* lower_stmt.
LowerStmt(m, s, regs) ==
  LET a == [i \in DOMAIN s.args |-> Val(m, ValueReg(s.args[i], regs))]
  IN  CASE s.op \in {"Constant", "LoadReg", "BinOp", "WideDiv", "LoadMem", "LoadMemTSO", "Extend",
                     "Truncate", "Lzcnt", "Tzcnt", "Popcnt", "Bswap", "LoadCarry", "LoadRflags",
                     "ReadCarryOut", "Select", "Rdtsc", "Xgetbv"} -> LowerValue(m, s, regs, a)
        [] s.op \in {"Compare", "CmpFlags", "AluFlags", "WriteFlags", "AluFlagsPreserveCarry",
                     "WriteFlagsPopcnt", "WriteFlagsCountZero"} -> LowerFlags(m, s, regs, a)
        [] s.op \in {"AtomicCmpxchg", "AtomicCmpxchgPair"} -> LowerAtomic(m, s, regs, a)
        [] s.op \in {"StoreReg", "StoreMem", "StoreMemTSO", "RspAdjust", "StoreCarry", "StoreRflags",
                     "StoreRflagsFromNzcv", "StoreRflagsFromBits", "Fence", "Cpuid"} -> LowerStore(m, s, a)
        [] s.op \in VecResults \union {"StoreVecReg", "StoreVec", "GprFromXmm", "PcmpStrIndex", "PcmpStrFlags"} ->
             LowerVector(m, s, regs, a)
        [] OTHER -> LowerExit(m, s, a)

\* The guest state and the exit of the code lowered from stmts, and whether the
\* prologue's frame is still on the host stack.
Run(stmts, g, regs) ==
  LET step(m, s) == IF m.out = Running THEN LowerStmt(m, s, regs) ELSE m
      epilogue(m) == IF m.out = Running THEN Leave(m, Fallthrough) ELSE m
      result(m) == [g |-> m.g, out |-> m.out, framed |-> m.framed]
  IN  result(epilogue(Fold(step, HostInit(g), stmts)))

-----------------------------------------------------------------------------
(***************************************************************************)
(* lower_function for a function of several blocks: [entry, blocks], where *)
(* blocks is a sequence of [id, stmts] and every block ends in a           *)
(* terminator.  The entry is laid out first, the others follow in order.   *)
(***************************************************************************)
BlockOf(f, id) == LET i == CHOOSE j \in DOMAIN f.blocks : f.blocks[j].id = id IN f.blocks[i]
BlockIds(f) == {f.blocks[i].id : i \in DOMAIN f.blocks}
BlockOrder(f) == <<BlockOf(f, f.entry)>> \o SelectSeq(f.blocks, LAMBDA b : b.id # f.entry)

BlockTargets(s) == IF s.op \in {"Jump", "CondJump", "CondJumpFlags"} THEN s.imm ELSE << >>
FunctionLowers(f) ==
  LET append(acc, b) == acc \o b.stmts
      all == Fold(append, << >>, BlockOrder(f))
      targets(s) == {BlockTargets(s)[k] : k \in DOMAIN BlockTargets(s)}
  IN  /\ Lowers(all)
      /\ \A i \in DOMAIN all : targets(all[i]) \subseteq BlockIds(f)

\* The code of a function, cut after fuel blocks.  nzcv_live starts over in
\* every block.
RECURSIVE RunFrom(_, _, _, _)
RunFrom(f, m, id, fuel) ==
  LET step(n, s) == IF n.out = Running THEN LowerStmt(n, s, Endless) ELSE n
      onward(n) == IF n.out.kind = "Goto" /\ fuel > 0 THEN RunFrom(f, n, n.out.pc, fuel - 1) ELSE n
  IN  onward(Fold(step, [m EXCEPT !.live = FALSE, !.out = Running], BlockOf(f, id).stmts))
RunFunction(f, g, fuel) ==
  LET result(m) == [g |-> m.g, out |-> m.out] IN result(RunFrom(f, HostInit(g), f.entry, fuel))
=============================================================================
