-------------------------------- MODULE Passes --------------------------------
(***************************************************************************)
(* The optimisation passes of the Rust translator (crate prisma-passes) on *)
(* one block.  A pass is an operator from a sequence of statements to a    *)
(* sequence of statements; DefaultPipeline is the order the translator     *)
(* runs them in.  Maps from references are functions whose domain grows.   *)
(***************************************************************************)
EXTENDS Lowerer, TLC

Put(f, x, v) == (x :> v) @@ f

\* The statements whose index is not in dead.
Without(stmts, dead) ==
  LET keep(acc, i) == IF i \in dead THEN acc ELSE Append(acc, stmts[i])
  IN  Fold(keep, << >>, [i \in DOMAIN stmts |-> i])

Emit(acc, s) == [acc EXCEPT !.out = Append(@, s)]
NoConsts == [out |-> << >>, consts |-> << >>]
Knows(acc, r) == r \in DOMAIN acc.consts
Learn(acc, r, v) == [acc EXCEPT !.consts = Put(@, r, v)]

-----------------------------------------------------------------------------
(***************************************************************************)
(* const_prop.rs.  eval_binop computes on 64 bits whatever the size, like  *)
(* the backend, except that a division by zero is 0 or the dividend and    *)
(* that SMulHi multiplies the operands as unsigned.                        *)
(***************************************************************************)
FoldBinop(k, a, b) ==
  LET byZero == b = 0
  IN  CASE k \in {"Add", "Sub"} -> AddSub(k, a, b)
        [] k \in {"UMulHi", "SMulHi"} -> MulHigh(a, b)
        [] k \in {"UDiv", "SDiv"} /\ byZero -> 0
        [] k \in {"UMod", "SMod"} -> IF byZero THEN a ELSE ModBinop(k, a, b)
        [] OTHER -> RegBinop(k, a, b)

\* sign_extend and the zero extension.
FoldExtend(s, v) ==
  Mask(IF s.k = "signed" THEN Signed(v, s.x) ELSE Mask(v, s.x), s.sz)

\* The value a statement with known operands is replaced by.
Folded(s, val) ==
  CASE s.op = "Constant" -> Mask(s.imm[1], s.sz)
    [] s.op = "BinOp" -> Mask(FoldBinop(s.k, val[1], val[2]), s.sz)
    [] s.op = "Extend" -> FoldExtend(s, val[1])
    [] s.op \in {"Truncate", "Popcnt", "Lzcnt", "Tzcnt"} -> HostUnary(s.op, val[1], s.sz)

ConstStep(acc, s) ==
  LET val == [i \in DOMAIN s.args |-> acc.consts[s.args[i]]]
      foldable == /\ s.op \in {"Constant", "BinOp", "Extend", "Truncate", "Popcnt", "Lzcnt", "Tzcnt"}
                  /\ \A i \in DOMAIN s.args : Knows(acc, s.args[i])
      v == Folded(s, val)
  IN  IF foldable THEN Emit(Learn(acc, s.res, v), Const(s.res, v, s.sz)) ELSE Emit(acc, s)

ConstantPropagate(stmts) == Fold(ConstStep, NoConsts, stmts).out

-----------------------------------------------------------------------------
\* algebraic.rs: the value an identity gives a BinOp, NoValue for none.

TrySimplify(s, consts) ==
  LET is(i, v) == s.args[i] \in DOMAIN consts /\ consts[s.args[i]] = v
      ones == AllOnes(s.sz)
      toZero == \/ s.k \in {"Sub", "Xor"} /\ s.args[1] = s.args[2]
                \/ s.k \in {"Mul", "And", "UMulHi", "SMulHi"} /\ is(2, 0)
                \/ s.k \in {"UMulHi", "UMod", "SMod"} /\ is(2, 1)
                \/ s.k \in {"Mul", "And", "UMulHi", "SMulHi", "UDiv", "SDiv", "UMod", "SMod"} /\ is(1, 0)
      toOnes == s.k = "Or" /\ (is(1, ones) \/ is(2, ones))
  IN  IF toZero THEN 0 ELSE IF toOnes THEN ones ELSE NoValue

AlgebraicStep(acc, s) ==
  LET v == IF s.op = "BinOp" THEN TrySimplify(s, acc.consts) ELSE NoValue
  IN  CASE s.op = "Constant" -> Emit(Learn(acc, s.res, Mask(s.imm[1], s.sz)), s)
        [] s.op # "Constant" /\ v # NoValue -> Emit(Learn(acc, s.res, v), Const(s.res, v, s.sz))
        [] s.op # "Constant" /\ v = NoValue -> Emit(acc, s)

AlgebraicSimplify(stmts) == Fold(AlgebraicStep, NoConsts, stmts).out

-----------------------------------------------------------------------------
\* strength_reduce.rs: a multiplication by a power of two becomes a shift by a
\* constant with a fresh reference.

Log2Pow2(v) == IF \E k \in 0 .. Bits.I64 - 1 : v = Pow2[k]
               THEN CHOOSE k \in 0 .. Bits.I64 - 1 : v = Pow2[k] ELSE NoValue

StrengthStep(acc, s) ==
  LET log(i) == IF Knows(acc, s.args[i]) THEN Log2Pow2(acc.consts[s.args[i]]) ELSE NoValue
      by == IF log(2) # NoValue THEN 2 ELSE 1
      k == log(by)
      fresh == acc.next
  IN  CASE s.op = "Constant" -> Emit(Learn(acc, s.res, Mask(s.imm[1], s.sz)), s)
        [] s.op = "BinOp" /\ s.k = "Mul" /\ k # NoValue ->
             [Emit(Emit(Learn(acc, fresh, k), Const(fresh, k, s.sz)),
                   Bin(s.res, "Shl", s.args[3 - by], fresh, s.sz)) EXCEPT !.next = fresh + 1]
        [] OTHER -> Emit(acc, s)

NextRef(stmts) ==
  LET up(acc, s) == IF s.res >= acc THEN s.res + 1 ELSE acc IN Fold(up, 0, stmts)

StrengthReduce(stmts) ==
  Fold(StrengthStep, [out |-> << >>, consts |-> << >>, next |-> NextRef(stmts)], stmts).out

-----------------------------------------------------------------------------
\* peephole.rs.

\* try_const: the latest definition of r before idx, if it is a constant.
RECURSIVE TryConst(_, _, _)
TryConst(stmts, idx, r) ==
  IF idx = 1 THEN NoValue
  ELSE IF stmts[idx - 1].res = r
       THEN IF stmts[idx - 1].op = "Constant" THEN stmts[idx - 1].imm[1] ELSE NoValue
       ELSE TryConst(stmts, idx - 1, r)

MatchRule(stmts, idx) ==
  LET s == stmts[idx]
      is(i, v) == TryConst(stmts, idx, s.args[i]) = v
      same == s.args[1] = s.args[2]
      keep(i) == Unary(s.res, "Truncate", s.args[i], s.sz)
      nothing == Const(s.res, 0, s.sz)
  IN  CASE s.op = "Extend" -> IF s.x = s.sz THEN keep(1) ELSE s
        [] s.op = "BinOp" /\ s.k = "Xor" /\ same -> nothing
        [] s.op = "BinOp" /\ s.k \in {"Or", "And"} /\ same -> keep(1)
        [] s.op = "BinOp" /\ s.k = "Add" ->
             IF is(1, 0) THEN keep(2) ELSE IF is(2, 0) THEN keep(1) ELSE s
        [] s.op = "BinOp" /\ s.k = "Sub" -> IF is(2, 0) THEN keep(1) ELSE s
        [] s.op = "BinOp" /\ s.k = "Mul" ->
             IF is(1, 1) THEN keep(2) ELSE IF is(2, 1) THEN keep(1)
             ELSE IF is(1, 0) \/ is(2, 0) THEN nothing ELSE s
        [] OTHER -> s

RunOnce(stmts) == [i \in DOMAIN stmts |-> MatchRule(stmts, i)]

MaxIterations == 8
RECURSIVE PeepholeFrom(_, _)
PeepholeFrom(stmts, n) ==
  IF n = 0 \/ RunOnce(stmts) = stmts THEN stmts ELSE PeepholeFrom(RunOnce(stmts), n - 1)
PeepholeOptimise(stmts) == PeepholeFrom(stmts, MaxIterations)

-----------------------------------------------------------------------------
\* redundant_load.rs and cse.rs: a repeated load or operation becomes a copy,
\* written Or prev, prev.

Copy(r, prev, sz) == Bin(r, "Or", prev, prev, sz)
NoSeen == [out |-> << >>, seen |-> << >>]
Reuse(acc, s, key) ==
  IF key \in DOMAIN acc.seen THEN Emit(acc, Copy(s.res, acc.seen[key], s.sz))
  ELSE Emit([acc EXCEPT !.seen = Put(@, key, s.res)], s)
Forget(acc, s) == Emit([acc EXCEPT !.seen = << >>], s)

MemoryWriters == {"StoreMem", "StoreMemTSO", "AtomicCmpxchg", "AtomicCmpxchgPair", "Fence"}

RedundantLoadStep(acc, s) ==
  CASE s.op = "LoadMem" -> Reuse(acc, s, <<s.args[1], s.sz>>)
    [] s.op \in MemoryWriters -> Forget(acc, s)
    [] OTHER -> Emit(acc, s)
RedundantLoadEliminate(stmts) == Fold(RedundantLoadStep, NoSeen, stmts).out

IsFlushingOp(s) ==
  s.op \in {"StoreReg", "StoreMem", "StoreMemTSO", "AtomicCmpxchg", "AtomicCmpxchgPair",
            "StoreRflags", "StoreRflagsFromNzcv", "StoreRflagsFromBits", "CmpFlags", "AluFlags",
            "AluFlagsPreserveCarry", "WriteFlagsPopcnt", "WriteFlagsCountZero", "Syscall"}

CseStep(acc, s) ==
  CASE s.op = "BinOp" -> Reuse(acc, s, <<s.k, s.args[1], s.args[2], s.sz>>)
    [] IsFlushingOp(s) -> Forget(acc, s)
    [] OTHER -> Emit(acc, s)
LocalCse(stmts) == Fold(CseStep, NoSeen, stmts).out

-----------------------------------------------------------------------------
\* copy_prop.rs: the operands of a copy's readers become the copied reference.

RECURSIVE ResolveAlias(_, _)
ResolveAlias(r, aliases) ==
  IF r \notin DOMAIN aliases \/ aliases[r] = r THEN r ELSE ResolveAlias(aliases[r], aliases)

\* The operands of these are left as they are.
KeptOperands == {"JumpReg", "StoreCarry", "ReadCarryOut", "StoreVecReg", "LoadVec", "StoreVec"}
Rewrite(s, aliases) ==
  IF s.op \in KeptOperands THEN s
  ELSE [s EXCEPT !.args = [i \in DOMAIN @ |-> ResolveAlias(@[i], aliases)]]

CopyStep(acc, s) ==
  LET t == Rewrite(s, acc.aliases)
      copy == t.op = "BinOp" /\ t.k = "Or" /\ t.args[1] = t.args[2] /\ t.args[1] # t.res
  IN  Emit([acc EXCEPT !.aliases = IF copy THEN Put(@, t.res, t.args[1]) ELSE @], t)
CopyPropagate(stmts) == Fold(CopyStep, [out |-> << >>, aliases |-> << >>], stmts).out

-----------------------------------------------------------------------------
\* dead_store.rs: a store overwritten by a later one through the same reference
\* with no memory reader between them.

StoreBarriers == {"LoadMem", "LoadMemTSO", "StoreMemTSO", "AtomicCmpxchg", "AtomicCmpxchgPair", "Fence"}

DeadStoreStep(acc, s) ==
  LET key == <<s.args[1], s.sz>>
      n == acc.at + 1
  IN  CASE s.op = "StoreMem" ->
             [at |-> n, pending |-> Put(acc.pending, key, n),
              dead |-> acc.dead \union (IF key \in DOMAIN acc.pending THEN {acc.pending[key]} ELSE {})]
        [] s.op \in StoreBarriers -> [acc EXCEPT !.at = n, !.pending = << >>]
        [] OTHER -> [acc EXCEPT !.at = n]
DeadStoreEliminate(stmts) ==
  Without(stmts, Fold(DeadStoreStep, [at |-> 0, pending |-> << >>, dead |-> {}], stmts).dead)

-----------------------------------------------------------------------------
\* branch_fold.rs: a CondJumpRel on the flags of a comparison of two constants
\* becomes a JumpRel; the codes eval_cond does not know fall through.

EvalCond(cc, a, b, sz) ==
  cc \notin {"Cc", "Nc", "Ov", "NoOv", "Mi", "Pl"} /\ EvalCc(cc, SubFlags(a, b, sz))

BranchStep(acc, s) ==
  LET c == acc.cmp
      constant == c # << >> /\ Knows(acc, c[1]) /\ Knows(acc, c[2])
      taken == EvalCond(s.k, acc.consts[c[1]], acc.consts[c[2]], acc.sz)
  IN  CASE s.op = "Constant" -> Emit(Learn(acc, s.res, Mask(s.imm[1], s.sz)), s)
        [] s.op = "CmpFlags" -> Emit([acc EXCEPT !.cmp = s.args, !.sz = s.sz], s)
        [] s.op \in {"AluFlags", "AluFlagsPreserveCarry", "WriteFlagsPopcnt", "WriteFlagsCountZero"} ->
             Emit([acc EXCEPT !.cmp = << >>], s)
        [] s.op = "CondJumpRel" ->
             Emit([acc EXCEPT !.cmp = << >>],
                  IF constant THEN Exit("JumpRel", "", << >>, <<s.imm[IF taken THEN 1 ELSE 2]>>) ELSE s)
        [] OTHER -> Emit(acc, s)
BranchFold(stmts) ==
  Fold(BranchStep, [out |-> << >>, consts |-> << >>, cmp |-> << >>, sz |-> "I64"], stmts).out

-----------------------------------------------------------------------------
\* flag_write_elim.rs: pending is the index of the latest flag writer nobody has
\* read, 0 for none or for one that may not be dropped.

DroppableWriters == {"CmpFlags", "AluFlags", "AluFlagsPreserveCarry", "WriteFlagsPopcnt",
                     "WriteFlagsCountZero"}
\* Variant: only branches read the flags.
BranchReaders == {"CondJumpRel"}
FlagReaders == {"CondJumpRel", "Select", "ReadCarryOut", "StoreRflagsFromNzcv"}

FlagStep(acc, s) ==
  LET n == acc.at + 1
      dropped == acc.drop \union ({acc.pending} \ {0})
  IN  CASE s.op \in DroppableWriters -> [at |-> n, pending |-> n, drop |-> dropped]
        [] s.op = "Compare" -> [at |-> n, pending |-> 0, drop |-> dropped]
        [] s.op \in FlagReaders -> [acc EXCEPT !.at = n, !.pending = 0]
        [] OTHER -> [acc EXCEPT !.at = n]
FlagWriteElimination(stmts) ==
  LET end == Fold(FlagStep, [at |-> 0, pending |-> 0, drop |-> {}], stmts)
  IN  Without(stmts, end.drop \union ({end.pending} \ {0}))

-----------------------------------------------------------------------------
\* dce.rs: liveness from the last statement to the first, then a filter.

IsPureForDce(s) ==
  s.op \in {"Constant", "LoadReg", "BinOp", "WideDiv", "Compare", "Select", "LoadMem", "WriteFlags",
            "Bswap", "LoadCarry", "LoadRflags", "ReadCarryOut", "VecConstant", "VecClMul",
            "LoadVecReg", "PcmpStrIndex", "PcmpStrMask", "PcmpStrFlags"}

CollectOperandRefs(s) == {s.args[i] : i \in DOMAIN s.args}

LiveAt(stmts) ==
  LET uses(live, s) ==
        IF ~IsPureForDce(s) \/ s.res \in live THEN live \union CollectOperandRefs(s) ELSE live
  IN  Fold(uses, {}, [i \in DOMAIN stmts |-> stmts[Len(stmts) + 1 - i]])

DeadCodeEliminate(stmts) ==
  LET live == LiveAt(stmts)
  IN  Without(stmts, {i \in DOMAIN stmts : IsPureForDce(stmts[i]) /\ stmts[i].res \notin live})

-----------------------------------------------------------------------------
\* pipeline.rs: default_pipeline.  The x87 pass changes no decoded block, since
\* the decoder emits no x87 operation.

DefaultPipeline ==
  <<"const_prop", "algebraic", "strength_reduce", "peephole", "const_prop", "redundant_load",
    "cse", "copy_prop", "dead_store", "branch_fold", "flag_write_elim", "dce">>

RunPass(pass, stmts) ==
  CASE pass = "const_prop" -> ConstantPropagate(stmts)
    [] pass = "algebraic" -> AlgebraicSimplify(stmts)
    [] pass = "strength_reduce" -> StrengthReduce(stmts)
    [] pass = "peephole" -> PeepholeOptimise(stmts)
    [] pass = "redundant_load" -> RedundantLoadEliminate(stmts)
    [] pass = "cse" -> LocalCse(stmts)
    [] pass = "copy_prop" -> CopyPropagate(stmts)
    [] pass = "dead_store" -> DeadStoreEliminate(stmts)
    [] pass = "branch_fold" -> BranchFold(stmts)
    [] pass = "flag_write_elim" -> FlagWriteElimination(stmts)
    [] pass = "dce" -> DeadCodeEliminate(stmts)
=============================================================================
