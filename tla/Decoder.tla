------------------------------- MODULE Decoder -------------------------------
(***************************************************************************)
(* The building blocks of the x86 decoder (prisma-decoder): prefixes,      *)
(* ModRM addresses and the IR fragments the instruction decoders share.    *)
(*                                                                         *)
(* An instruction is a record [pre, esc, op, modrm, sib, disp, imm, next]: *)
(* its prefix bytes, its opcode map ("1", "0F", "0F38"), its opcode byte,  *)
(* its ModRM and SIB bytes, its displacement and its immediate as          *)
(* integers, and the guest byte that follows it.                           *)
(* The decoders work on the parsed form In(i, pc), which adds the prefix   *)
(* set p, the ModRM fields m and the address pc of the opcode byte.        *)
(*                                                                         *)
(* A block under construction is the sequence of its statements, and every *)
(* fragment extends the block it is given.                                 *)
(***************************************************************************)
EXTENDS Lowerer

-----------------------------------------------------------------------------
\* PrefixSet and VexPrefix.  rep is the last F2 or F3 prefix, 0 for none.

NoRex == [rex |-> FALSE, w |-> FALSE, r |-> FALSE, x |-> FALSE, b |-> FALSE]
NoVex == [on |-> FALSE, w |-> FALSE, r |-> FALSE, x |-> FALSE, b |-> FALSE,
          l |-> FALSE, vvvv |-> 0, pp |-> 0, mmmm |-> 0]
NoPrefix == [rex |-> NoRex, vex |-> NoVex, rep |-> 0, opsz |-> FALSE, addrsz |-> FALSE,
             lock |-> FALSE, seg |-> FALSE]

Rex(b) == [rex |-> TRUE, w |-> Bit(b, 3) = 1, r |-> Bit(b, 2) = 1,
           x |-> Bit(b, 1) = 1, b |-> Bit(b, 0) = 1]
Segments == {\h26, \h2E, \h36, \h3E, \h64, \h65}

\* VEX.R, VEX.X, VEX.B and VEX.vvvv are stored inverted.
Vex2(b2) ==
  [NoVex EXCEPT !.on = TRUE, !.r = Bit(b2, 7) = 0, !.l = Bit(b2, 2) = 1,
                !.vvvv = 15 - ((b2 \div 8) % 16), !.pp = b2 % 4, !.mmmm = 1]
Vex3(b2, b3) ==
  [on |-> TRUE, w |-> Bit(b3, 7) = 1, r |-> Bit(b2, 7) = 0, x |-> Bit(b2, 6) = 0,
   b |-> Bit(b2, 5) = 0, l |-> Bit(b3, 2) = 1, vvvv |-> 15 - ((b3 \div 8) % 16),
   pp |-> b3 % 4, mmmm |-> b2 % 32]

\* One legacy or REX prefix byte.  A REX byte replaces an earlier one and
\* stays in force over a legacy prefix that follows it.
WithPrefix(p, b) ==
  CASE b \in \h40 .. \h4F -> [p EXCEPT !.rex = Rex(b)]
    [] b = \hF0 -> [p EXCEPT !.lock = TRUE]
    [] b \in {\hF2, \hF3} -> [p EXCEPT !.rep = b]
    [] b = \h66 -> [p EXCEPT !.opsz = TRUE]
    [] b = \h67 -> [p EXCEPT !.addrsz = TRUE]
    [] b \in Segments -> [p EXCEPT !.seg = TRUE]

RECURSIVE ParsePrefixes(_, _, _)
ParsePrefixes(pre, k, p) ==
  IF k > Len(pre) THEN p
  ELSE IF pre[k] = \hC5 THEN [p EXCEPT !.vex = Vex2(pre[k + 1])]
  ELSE IF pre[k] = \hC4 THEN [p EXCEPT !.vex = Vex3(pre[k + 1], pre[k + 2])]
  ELSE ParsePrefixes(pre, k + 1, WithPrefix(p, pre[k]))

OperandSize(p) == IF p.rex.w THEN "I64" ELSE IF p.opsz THEN "I16" ELSE "I32"

-----------------------------------------------------------------------------
\* ModRM, SIB and register fields.

ParseModrm(b) == [mod |-> b \div 64, reg |-> (b \div 8) % 8, rm |-> b % 8]
ParseSib(b) == [scale |-> b \div 64, index |-> (b \div 8) % 8, base |-> b % 8]

In(i, pc) ==
  [p |-> ParsePrefixes(i.pre, 1, NoPrefix), esc |-> i.esc, op |-> i.op,
   m |-> ParseModrm(i.modrm), sib |-> ParseSib(i.sib), disp |-> i.disp, imm |-> i.imm,
   next |-> i.next, pc |-> pc + Len(i.pre)]

MapReg(idx, ext) == GprName[1 + idx + 8 * B2N(ext)]
RegField(i) == MapReg(i.m.reg, i.p.rex.r)
RmField(i) == MapReg(i.m.rm, i.p.rex.b)
\* map_reg_raw of the low three opcode bits.
OpcodeReg(i) == MapReg(i.op % 8, i.p.rex.b)

IsReg(i) == i.m.mod = 3

\* Variant: the SIB byte is forgotten.
BytesWithoutSib(i) ==
  1 + (IF i.m.mod = 0 /\ i.m.rm = 5 THEN 4
       ELSE CASE i.m.mod = 1 -> 1 [] i.m.mod = 2 -> 4 [] OTHER -> 0)

\* The bytes ModRM, SIB and displacement take.  A SIB byte is counted whenever
\* rm is 4; the register forms do not ask.
BytesForModrm(i) ==
  1 + (IF i.m.rm = 4
       THEN 1 + (CASE i.m.mod = 0 /\ i.sib.base = 5 -> 4
                   [] i.m.mod = 1 -> 1
                   [] i.m.mod = 2 -> 4
                   [] OTHER -> 0)
       ELSE IF i.m.mod = 0 /\ i.m.rm = 5 THEN 4
       ELSE CASE i.m.mod = 1 -> 1 [] i.m.mod = 2 -> 4 [] OTHER -> 0)

\* The bytes an r/m operand takes in a decoder's count.
RmBytes(i) == IF IsReg(i) THEN 1 ELSE BytesForModrm(i)

(***************************************************************************)
(* decode_addr: [base, index, scale, disp, rip], "" for a register that is *)
(* absent.  SIB base 5 with mod 0 has no base, and index 4 is no index     *)
(* unless REX.X makes it R12.                                              *)
(***************************************************************************)
BaseReg(i) == MapReg(IF i.m.rm = 4 THEN i.sib.base ELSE i.m.rm, i.p.rex.b)
IndexReg(i) == MapReg(i.sib.index, i.p.rex.x)
DecodeAddr(i) ==
  LET hasDisp == i.m.mod # 0
      sib == i.m.rm = 4
      noBase == i.m.mod = 0 /\ IF sib THEN i.sib.base = 5 ELSE i.m.rm = 5
      hasIndex == sib /\ (i.sib.index # 4 \/ i.p.rex.x)
  IN  [base |-> IF noBase THEN "" ELSE BaseReg(i),
       index |-> IF hasIndex THEN IndexReg(i) ELSE "",
       scale |-> i.sib.scale,
       disp |-> IF hasDisp \/ noBase THEN i.disp ELSE 0,
       rip |-> noBase /\ ~sib]

-----------------------------------------------------------------------------
\* Appending statements.  alloc_ref numbers a reference by its position.

AllocRef(b) == Len(b)
\* The reference of the statement appended last.
Ref(b) == Len(b) - 1
Push(b, s) == Append(b, s)

PushConst(b, v, sz) == Push(b, Const(AllocRef(b), v, sz))
PushBin(b, k, l, r, sz) == Push(b, Bin(AllocRef(b), k, l, r, sz))
PushCompare(b, cc, l, r, sz) == Push(b, Cmp(AllocRef(b), cc, l, r, sz))
PushLoadReg(b, g, sz) == Push(b, LoadReg(AllocRef(b), g, sz))
PushStoreReg(b, g, v, sz) == Push(b, StoreReg(g, v, sz))
PushLoadMem(b, a, sz) == Push(b, LoadMem(AllocRef(b), "LoadMem", a, sz))
PushStoreMem(b, a, v, sz) == Push(b, StoreMem("StoreMem", a, v, sz))
PushUnary(b, op, v, sz) == Push(b, Unary(AllocRef(b), op, v, sz))
PushExtend(b, v, from, to, signed) ==
  Push(b, Extend(AllocRef(b), v, from, to, IF signed THEN "signed" ELSE "unsigned"))
PushSelect(b, cc, t, f, sz) == Push(b, Select(AllocRef(b), cc, t, f, sz))
PushCmp(b, l, r, sz) == Push(b, CmpFlags(AllocRef(b), l, r, sz))

\* A constant operation: k applied to l and to the constant v.
PushBinConst(b, k, l, v, sz) ==
  LET c == PushConst(b, v, sz) IN PushBin(c, k, l, Ref(c), sz)

-----------------------------------------------------------------------------
\* emit_addr_mode_at: the address is the last statement's reference.

EmitAddDisp(b, base, disp) ==
  IF disp = 0 THEN b ELSE PushBinConst(b, "Add", base, Wrap(disp), "I64")

EmitIndex(b, a) ==
  LET x == PushLoadReg(b, a.index, "I64")
      scaled == IF a.scale = 0 THEN x ELSE PushBinConst(x, "Shl", Ref(x), a.scale, "I64")
      base == PushLoadReg(scaled, a.base, "I64")
  IN  IF a.base = "" THEN scaled ELSE PushBin(base, "Add", Ref(base), Ref(scaled), "I64")

EmitAddrAt(b, i, ripAfter) ==
  LET a == DecodeAddr(i)
      start == IF a.index # "" THEN EmitIndex(b, a) ELSE PushLoadReg(b, a.base, "I64")
  IN  IF a.base = "" /\ a.index = ""
      THEN PushConst(b, Wrap(a.disp + (IF a.rip THEN ripAfter ELSE 0)), "I64")
      ELSE EmitAddDisp(start, Ref(start), a.disp)

\* emit_addr_with_size: an address relative to RIP is taken relative to 0.
EmitAddr(b, i) == EmitAddrAt(b, i, 0)

\* The r/m operand loaded; its address, if any, is the reference before it.
LoadRmAt(b, i, sz, ripAfter) ==
  LET a == EmitAddrAt(b, i, ripAfter)
  IN  IF IsReg(i) THEN PushLoadReg(b, RmField(i), sz) ELSE PushLoadMem(a, Ref(a), sz)
LoadRm(b, i, sz) == LoadRmAt(b, i, sz, 0)

\* v stored to the r/m operand that was loaded as the reference loaded.
StoreRm(b, i, loaded, v, sz) ==
  IF IsReg(i) THEN PushStoreReg(b, RmField(i), v, sz) ELSE PushStoreMem(b, loaded - 1, v, sz)

-----------------------------------------------------------------------------
\* Results: the statements and the bytes used from the opcode on, or an error.

Decoded(b, used) == [ok |-> TRUE, stmts |-> b, used |-> used]
Rejected == [ok |-> FALSE, stmts |-> << >>, used |-> 0]
DecodedIf(accepted, b, used) == IF accepted THEN Decoded(b, used) ELSE Rejected

NoRep(i) == i.p.rep = 0
\* The prefix sets the decoders insist on.
NoRepLockSeg(i) == NoRep(i) /\ ~i.p.lock /\ ~i.p.seg
Plain(i) == NoRepLockSeg(i) /\ ~i.p.rex.rex /\ ~i.p.opsz /\ ~i.p.addrsz

-----------------------------------------------------------------------------
\* The flag graphs.

LowBit(b, v, sz) == PushBinConst(b, "And", v, 1, sz)
ShiftedBit(b, v, n, sz) ==
  LET s == PushBinConst(b, "Shr", v, n, sz) IN LowBit(s, Ref(s), sz)

\* v xored with itself shifted right by n.
\* A fold by more than the scaled size can count to would change nothing, and
\* is left out.
FoldBits(b, v, n, sz) ==
  LET s == PushBinConst(b, "Shr", v, n, sz)
  IN  IF n > AllOnes(sz) THEN b ELSE PushBin(s, "Xor", v, Ref(s), sz)

PushEvenParity(b, v, sz) ==
  LET byte == PushBinConst(b, "And", v, AllOnes("I8"), sz)
      fold4 == FoldBits(byte, Ref(byte), 4, sz)
      fold2 == FoldBits(fold4, Ref(fold4), 2, sz)
      fold1 == FoldBits(fold2, Ref(fold2), 1, sz)
      odd == LowBit(fold1, Ref(fold1), sz)
  IN  PushBinConst(odd, "Xor", Ref(odd), 1, sz)

\* The carry out of the low half byte.
HalfByte == Bits.I8 \div 2
PushAuxFlag(b, l, r, result, sz) ==
  LET lr == PushBin(b, "Xor", l, r, sz)
      carries == PushBin(lr, "Xor", Ref(lr), result, sz)
  IN  ShiftedBit(carries, Ref(carries), HalfByte, sz)

\* PF for every kind, AF for Add and Sub only; the references are those of Opt.
HasAux(k) == k \in {"Add", "Sub"}
PushPfAf(b, k, l, r, result, sz) ==
  LET pf == PushEvenParity(b, result, sz)
  IN  IF HasAux(k) THEN PushAuxFlag(pf, l, r, result, sz) ELSE pf
ParityLen(sz) == Len(PushEvenParity(<< >>, 0, sz))
AuxLen(sz) == Len(PushAuxFlag(<< >>, 0, 0, 0, sz))
\* pf and af as the statement's operands, for the graph pushed on block b.
OptName(k) == IF HasAux(k) THEN "pfaf" ELSE "pf"
OptRefs(b, k, sz) ==
  LET pf == Ref(b) + ParityLen(sz) IN IF HasAux(k) THEN <<pf, pf + AuxLen(sz)>> ELSE <<pf>>

CarryMode(k) ==
  CASE k = "Add" -> "ArmCarry"
    [] k = "Sub" -> "InvertArmCarry"
    [] k \in {"And", "Or", "Xor"} -> "Clear"
    [] OTHER -> "None"

PushAluFlags(b, k, l, r, sz) ==
  LET res == PushBin(b, k, l, r, sz)
      graph == PushPfAf(res, k, l, r, Ref(res), sz)
      flags == Push(graph, Flags(NoRef, "AluFlags", k, l, r, sz))
  IN  IF CarryMode(k) = "None" THEN b
      ELSE Push(flags, RflagsFromNzcv(CarryMode(k), OptName(k), OptRefs(res, k, sz)))

PushCmpFlags(b, l, r, sz) ==
  LET res == PushBin(b, "Sub", l, r, sz)
      flags == PushCmp(res, l, r, sz)
      graph == PushPfAf(flags, "Sub", l, r, Ref(res), sz)
  IN  Push(graph, RflagsFromNzcv("InvertArmCarry", "pfaf", OptRefs(flags, "Sub", sz)))

\* emit_alu_flags_preserve_carry, for INC and DEC.
PushAluFlagsPreserveCarry(b, k, l, r, sz) ==
  LET res == PushBin(b, k, l, r, sz)
      graph == PushPfAf(res, k, l, r, Ref(res), sz)
      flags == Push(graph, Flags(NoRef, "AluFlagsPreserveCarry", k, l, r, sz))
  IN  Push(flags, RflagsFromNzcv("Preserve", OptName(k), OptRefs(res, k, sz)))

-----------------------------------------------------------------------------
\* ADC and SBB.

\* emit_adc_sbb_value: the result is four statements before the last.
PushAdcSbbValue(b, sbb, l, r, sz) ==
  LET k == IF sbb THEN "Sub" ELSE "Add"
      from == IF sbb THEN "sub" ELSE "add"
      n == AllocRef(b)
      carryOut(res, flags) == Stmt(res, "ReadCarryOut", from, "", "I64", <<flags>>, << >>)
  IN  b \o << Stmt(n, "LoadCarry", "", "", "I64", << >>, << >>),
              Bin(n + 1, k, l, r, sz), Flags(n + 2, "WriteFlags", k, l, r, sz), carryOut(n + 3, n + 2),
              Bin(n + 4, k, n + 1, n, sz), Flags(n + 5, "WriteFlags", k, n + 1, n, sz),
              carryOut(n + 6, n + 5), Bin(n + 7, "Or", n + 3, n + 6, sz),
              Effect("StoreCarry", <<n + 7>>) >>
AdcSbbResult(b) == Ref(b) - 4

PushAdcSbbBits(b, sbb, l, r, result, sz) ==
  LET top == Bits[sz] - 1
      zero == PushConst(b, 0, sz)
      zf == PushCompare(zero, "Eq", result, Ref(zero), sz)
      pf == PushEvenParity(zf, result, sz)
      af == PushAuxFlag(pf, l, r, result, sz)
      sf == ShiftedBit(af, result, top, sz)
      x1 == IF sbb THEN PushBin(sf, "Xor", l, r, sz) ELSE PushBin(sf, "Xor", l, result, sz)
      x2 == IF sbb THEN PushBin(x1, "Xor", l, result, sz) ELSE PushBin(x1, "Xor", r, result, sz)
      word == PushBin(x2, "And", Ref(x1), Ref(x2), sz)
      of == ShiftedBit(word, Ref(word), top, sz)
  IN  Push(of, RflagsFromBits("pfaf", <<Ref(pf), Ref(af)>>, <<Ref(zf), Ref(sf), Ref(of)>>))

\* emit_adc_sbb.
PushAdcSbb(b, sbb, l, r, dst, sz) ==
  LET v == PushAdcSbbValue(b, sbb, l, r, sz)
      s == PushStoreReg(v, dst, AdcSbbResult(v), sz)
  IN  PushAdcSbbBits(s, sbb, l, r, AdcSbbResult(v), sz)
=============================================================================
