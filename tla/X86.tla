---------------------------------- MODULE X86 ----------------------------------
(***************************************************************************)
(* What the guest instructions mean: the architecture's definition of the  *)
(* integer instructions the decoder accepts, written per instruction and   *)
(* independently of the IR, as the reference the translation is compared   *)
(* with.  Widths are the scaled ones of IR.                                *)
(*                                                                         *)
(* Exec(i, pc, g) is [g, out, def, undef]: the guest state after           *)
(* instruction i at pc, how control leaves it, the RFLAGS bits the         *)
(* instruction sets and those it leaves undefined.  An instruction that    *)
(* does not branch falls through to pc + Length(i).                        *)
(***************************************************************************)
EXTENDS Decode

-----------------------------------------------------------------------------
\* Operands.

OpSz(n) == IF n.p.vex.on THEN VexOperandSize(n.p.vex) ELSE OperandSize(n.p)
\* The opcodes with a byte form, told apart by their lowest bit.
ByteForms == (0 .. \h3F) \union {\h80, \h84, \h86, \h88, \h8A, \hA0, \hA2, \hA4, \hA6, \hA8, \hAA,
              \hAC, \hAE, \hC0, \hC6, \hD0, \hD2, \hF6, \hFE}
FormSz(n) == IF n.op \in ByteForms /\ n.op % 2 = 0 THEN "I8" ELSE OpSz(n)

HasModrm(n) ==
  CASE n.esc = "1" -> \/ n.op < \h40 /\ n.op % 8 < 4
                      \/ n.op \in {\h63, \h69, \h6B, \hC0, \hC1, \hC6, \hC7, \hF6, \hF7, \hFE, \hFF}
                           \union (\h80 .. \h8F) \union (\hD0 .. \hD3)
    [] n.esc = "0F" -> n.op \notin (\h80 .. \h8F) \union (\hC8 .. \hCF) \union (\h30 .. \h37)
                          \union {\h05, \h06, \h07, \h08, \h09, \h0B, \h0E, \h77, \hA2, \hAA}
    [] OTHER -> TRUE

DispBytes(n) ==
  CASE n.m.mod = 1 -> 1
    [] n.m.mod = 2 -> 4
    [] n.m.mod = 0 -> IF n.m.rm = 5 \/ (n.m.rm = 4 /\ n.sib.base = 5) THEN 4 ELSE 0
    [] n.m.mod = 3 -> 0

ImmLength(n) ==
  CASE n.esc = "1" /\ (n.op \in {\h80, \h83, \h6A, \h6B, \hC0, \hC1, \hCD, \hD4, \hD5, \hEB}
                         \union (\h70 .. \h7F) \union (\hB0 .. \hB7) \union (\hE2 .. \hE7)) -> 1
    [] n.esc = "1" /\ (n.op \in {\h81, \h68, \h69, \hC6, \hC7, \hA8, \hA9}
                       \/ (n.op < \h40 /\ n.op % 8 \in {4, 5})
                       \/ (n.op \in {\hF6, \hF7} /\ n.m.reg = 0)) -> ImmBytes(FormSz(n))
    [] n.esc = "1" /\ n.op \in \hB8 .. \hBF -> ByteCount[OpSz(n)]
    [] n.esc = "1" /\ n.op \in \hA0 .. \hA3 -> IF n.p.addrsz THEN 4 ELSE 8
    [] n.esc = "1" /\ n.op \in {\hE8, \hE9} -> 4
    [] n.esc = "1" /\ n.op = \hC2 -> 2
    [] n.esc = "1" /\ n.op = \hC8 -> 3
    [] n.esc = "0F" /\ n.op \in \h80 .. \h8F -> 4
    [] n.esc = "0F" /\ n.op = \hBA -> 1
    [] n.esc = "0F3A" -> 1
    [] OTHER -> 0

EscapeBytes(n) ==
  IF n.p.vex.on THEN 0 ELSE CASE n.esc = "1" -> 0 [] n.esc = "0F" -> 1 [] n.esc \in {"0F38", "0F3A"} -> 2

Length(i) ==
  LET n == In(i, 0)
  IN  Len(i.pre) + EscapeBytes(n) + 1 + ImmLength(n)
        + (IF HasModrm(n) THEN 1 + B2N(n.m.mod # 3 /\ n.m.rm = 4) + DispBytes(n) ELSE 0)

\* The effective address of the r/m operand; after is the next instruction's.
EffectiveAddress(n, g, after) ==
  LET a == DecodeAddr(IF n.p.vex.on THEN Effective(n) ELSE n)
      reg(r) == IF r = "" THEN 0 ELSE g.gpr[r]
      sum == Wrap(Wrap(reg(a.base) + reg(a.index) * Pow2[a.scale]) + a.disp
                  + (IF a.rip THEN after ELSE 0))
  IN  IF n.p.addrsz THEN Mask(sum, "I32") ELSE sum

RegName(n) == IF n.p.vex.on THEN RegField(Effective(n)) ELSE RegField(n)
RmName(n) == IF n.p.vex.on THEN RmField(Effective(n)) ELSE RmField(n)
ReadRm(n, g, ea, sz) ==
  IF n.m.mod = 3 THEN Mask(g.gpr[RmName(n)], sz) ELSE Load(g.mem, ea, sz)
WriteRm(n, g, ea, v, sz) ==
  IF n.m.mod = 3 THEN StoreGpr(g, RmName(n), v, sz) ELSE [g EXCEPT !.mem = StoreTo(@, ea, v, sz)]
ReadReg(n, g, sz) == Mask(g.gpr[RegName(n)], sz)
Imm(n, sz) == ImmValue(n.imm, sz)
Imm8(n, sz) == Mask(Signed(n.imm, "I8"), sz)

-----------------------------------------------------------------------------
\* Flags.

WithFlags(g, def, bits) ==
  LET f == BitOr(Clear(g.rflags, def), bits) IN [g EXCEPT !.rflags = f, !.cf = f % 2]

\* PF, ZF and SF of a result.
ResultBits(v, sz) ==
  LET r == Mask(v, sz)
  IN  PF * (1 - (OnesIn(r % ByteSpan) % 2)) + ZF * B2N(r = 0) + SF * Msb(r, sz)

\* a + b + c and a - b - c with the bits the operation gives RFLAGS.
Sum(a, b, c, sz) ==
  LET v == a + b + c
      half == Pow2[HalfByte]
  IN  [v |-> Mask(v, sz),
       bits |-> ResultBits(v, sz) + CF * B2N(v >= Pow2[Bits[sz]])
                 + OF * B2N(Signed(a, sz) + Signed(b, sz) + c # Signed(v, sz))
                 + AF * B2N((a % half) + (b % half) + c >= half)]
Difference(a, b, c, sz) ==
  LET v == a - b - c
      half == Pow2[HalfByte]
  IN  [v |-> Mask(v, sz),
       bits |-> ResultBits(v, sz) + CF * B2N(a < b + c)
                 + OF * B2N(Signed(a, sz) - Signed(b, sz) - c # Signed(v, sz))
                 + AF * B2N(a % half < (b % half) + c)]
Logic(v, sz) == [v |-> v, bits |-> ResultBits(v, sz)]

Alu(k, a, b, c, sz) ==
  CASE k = "Add" -> Sum(a, b, 0, sz)
    [] k = "Adc" -> Sum(a, b, c, sz)
    [] k \in {"Sub", "Cmp"} -> Difference(a, b, 0, sz)
    [] k = "Sbb" -> Difference(a, b, c, sz)
    [] k \in {"And", "Test"} -> Logic(BitAnd(a, b), sz)
    [] k = "Or" -> Logic(BitOr(a, b), sz)
    [] k = "Xor" -> Logic(BitXor(a, b), sz)
\* AF is undefined after a logical operation.
AluLeavesOpen(k) == IF k \in {"And", "Or", "Xor", "Test"} THEN AF ELSE 0

\* The condition of the low four opcode bits.
Condition(op, f) ==
  LET c == op % 16
      base == CASE c \div 2 = 0 -> Bit(f, 11) = 1
                [] c \div 2 = 1 -> Bit(f, 0) = 1
                [] c \div 2 = 2 -> Bit(f, 6) = 1
                [] c \div 2 = 3 -> Bit(f, 0) = 1 \/ Bit(f, 6) = 1
                [] c \div 2 = 4 -> Bit(f, 7) = 1
                [] c \div 2 = 5 -> Bit(f, 2) = 1
                [] c \div 2 = 6 -> Bit(f, 7) # Bit(f, 11)
                [] c \div 2 = 7 -> Bit(f, 6) = 1 \/ Bit(f, 7) # Bit(f, 11)
  IN  IF c % 2 = 0 THEN base ELSE ~base

-----------------------------------------------------------------------------
\* Arithmetic.

Done(g) == [g |-> g, out |-> Fallthrough, def |-> 0, undef |-> 0]
Leaves(g, kind, pc) == [Done(g) EXCEPT !.out = Outcome(kind, pc)]
\* bits are set in the flags def, and the flags undef have no defined value.
Sets(g, def, bits, undef) ==
  [Done(WithFlags(g, def, BitAnd(bits, def))) EXCEPT !.def = def, !.undef = undef]
Goes(g, pc) == Leaves(g, "Branch", Wrap(pc))
Carry(g) == g.rflags % 2

\* Opcodes 00-3F, groups 1 and TEST.
ExecAlu(n, g, ea) ==
  LET sz == FormSz(n)
      group1 == n.op \in {\h80, \h81, \h83}
      k == CASE n.op \in {\h84, \h85, \hA8, \hA9, \hF6, \hF7} -> "Test"
             [] group1 -> AluOps[1 + n.m.reg]
             [] OTHER -> AluOps[1 + n.op \div 8]
      acc == n.op \in {\hA8, \hA9} \/ (n.op < \h40 /\ n.op % 8 \in {4, 5})
      toReg == n.op < \h40 /\ n.op % 8 \in {2, 3}
      rm == ReadRm(n, g, ea, sz)
      a == IF acc THEN Mask(g.gpr.Rax, sz) ELSE IF toReg THEN ReadReg(n, g, sz) ELSE rm
      b == CASE acc \/ n.op \in {\h80, \h81, \hF6, \hF7} -> Imm(n, sz)
             [] n.op = \h83 -> Imm8(n, sz)
             [] toReg -> rm
             [] OTHER -> ReadReg(n, g, sz)
      r == Alu(k, a, b, Carry(g), sz)
      stored == CASE k \in {"Cmp", "Test"} -> g
                  [] acc -> StoreGpr(g, "Rax", r.v, sz)
                  [] toReg -> StoreGpr(g, RegName(n), r.v, sz)
                  [] OTHER -> WriteRm(n, g, ea, r.v, sz)
      undef == AluLeavesOpen(k)
  IN  Sets(stored, Arithmetic - undef, r.bits, undef)

\* INC and DEC keep CF.
ExecIncDec(n, g, ea, sz) ==
  LET a == ReadRm(n, g, ea, sz)
      r == IF n.m.reg = 0 THEN Sum(a, 1, 0, sz) ELSE Difference(a, 1, 0, sz)
  IN  Sets(WriteRm(n, g, ea, r.v, sz), Arithmetic - CF, r.bits, 0)

\* A value of twice the operand size into RDX:RAX (AX for a byte).
WritePair(g, lo, hi, sz) ==
  IF sz = "I8" THEN StoreGpr(g, "Rax", lo + hi * ByteSpan, "I16")
  ELSE StoreGpr(StoreGpr(g, "Rax", lo, sz), "Rdx", hi, sz)

\* CF and OF tell that the low half does not hold the whole product.
SetsCfOf(g, overflows) == Sets(g, CF + OF, (CF + OF) * B2N(overflows), SF + ZF + AF + PF)

ExecMul(n, g, ea, signed) ==
  LET sz == FormSz(n)
      a == Mask(g.gpr.Rax, sz)
      b == ReadRm(n, g, ea, sz)
      product == IF signed THEN Signed(a, sz) * Signed(b, sz) ELSE a * b
      hi == IF sz = "I64" THEN EvalBinop(IF signed THEN "SMulHi" ELSE "UMulHi", a, b, sz)
            ELSE Mask(product \div Pow2[Bits[sz]], sz)
      lo == IF sz = "I64" THEN MulLow(a, b) ELSE Mask(product, sz)
      extension == IF signed THEN Msb(lo, sz) * AllOnes(sz) ELSE 0
  IN  SetsCfOf(WritePair(g, lo, hi, sz), hi # extension)

\* #DE, reported as SIGFPE, when the divisor is 0 or the quotient is too large.
ExecDiv(n, g, ea, signed) ==
  LET sz == FormSz(n)
      w == Pow2[Bits[sz]]
      high == IF sz = "I8" THEN Mask(g.gpr.Rax, "I16") \div w ELSE Mask(g.gpr.Rdx, sz)
      low == Mask(g.gpr.Rax, sz)
      d0 == ReadRm(n, g, ea, sz)
      whole == IF signed THEN Signed(high, sz) * w + low ELSE high * w + low
      d == IF signed THEN Signed(d0, sz) ELSE d0
      q == TruncDiv(whole, d)
      fits == IF signed THEN q >= -(w \div 2) /\ q < w \div 2 ELSE q < w
  IN  CASE d0 = 0 -> Leaves(g, "Trap", 0)
        [] d0 # 0 /\ sz = "I64" ->
             LET v(part) == EvalWideDiv(high, low, d0, signed, part)
             IN  IF v("Q") = NoValue THEN Leaves(g, "Trap", 0)
                 ELSE Sets(WritePair(g, v("Q"), v("R"), sz), 0, 0, Arithmetic)
        [] d0 # 0 /\ sz # "I64" ->
             IF fits THEN Sets(WritePair(g, Mask(q, sz), Mask(TruncMod(whole, d), sz), sz), 0, 0, Arithmetic)
             ELSE Leaves(g, "Trap", 0)

\* NOT keeps the flags; NEG is 0 - x.
ExecGroup3(n, g, ea) ==
  LET sz == FormSz(n)
      a == ReadRm(n, g, ea, sz)
      r == Difference(0, a, 0, sz)
  IN  CASE n.m.reg = 0 -> ExecAlu(n, g, ea)
        [] n.m.reg = 2 -> Done(WriteRm(n, g, ea, AllOnes(sz) - a, sz))
        [] n.m.reg = 3 -> Sets(WriteRm(n, g, ea, r.v, sz), Arithmetic, r.bits, 0)
        [] n.m.reg \in {4, 5} -> ExecMul(n, g, ea, n.m.reg = 5)
        [] n.m.reg \in {6, 7} -> ExecDiv(n, g, ea, n.m.reg = 7)

ExecImul(n, g, ea) ==
  LET sz == OpSz(n)
      a == ReadRm(n, g, ea, sz)
      b == CASE n.esc = "0F" -> ReadReg(n, g, sz)
             [] n.op = \h6B -> Imm8(n, sz)
             [] OTHER -> Imm(n, sz)
      hi == IF sz = "I64" THEN EvalBinop("SMulHi", a, b, sz)
            ELSE Mask((Signed(a, sz) * Signed(b, sz)) \div Pow2[Bits[sz]], sz)
      lo == Mask(MulLow(a, b), sz)
  IN  SetsCfOf(StoreGpr(g, RegName(n), lo, sz), hi # Msb(lo, sz) * AllOnes(sz))

-----------------------------------------------------------------------------
\* Shifts and rotates: the count is taken modulo the register width of the
\* operand (32 or 64 bits); a rotate through the carry modulo the width plus 1.

ShiftCount(n, g, sz) ==
  (CASE n.op \in {\hC0, \hC1} -> Mask(n.imm, "I8")
     [] n.op \in {\hD0, \hD1} -> 1
     [] OTHER -> Mask(g.gpr.Rcx, "I8")) % Bits[IF sz = "I64" THEN "I64" ELSE "I32"]

RECURSIVE RotateThrough(_, _, _, _, _)
RotateThrough(right, v, c, count, sz) ==
  IF count = 0 THEN <<v, c>>
  ELSE IF right THEN RotateThrough(right, v \div 2 + c * Pow2[Bits[sz] - 1], v % 2, count - 1, sz)
  ELSE RotateThrough(right, Mask(2 * v + c, sz), Msb(v, sz), count - 1, sz)

Shifted(kind, a, count, sz) ==
  LET w == Bits[sz]
  IN  CASE kind = "Rol" -> RotateRight(a, (w - (count % w)) % w, w)
        [] kind = "Ror" -> RotateRight(a, count % w, w)
        [] kind = "Shl" -> IF count >= w THEN 0 ELSE Mask(a * Pow2[count], sz)
        [] kind = "Shr" -> IF count >= w THEN 0 ELSE a \div Pow2[count]
        [] kind = "Sar" -> Mask(Signed(a, sz) \div Pow2[IF count >= w THEN w ELSE count], sz)

\* The last bit to leave the operand: a shift uses it up, where a rotation
\* brings it in at the other end.
ShiftCarry(kind, a, v, count, sz) ==
  CASE kind = "Rol" -> v % 2
    [] kind = "Ror" -> Msb(v, sz)
    [] kind = "Shl" -> Bit(a, Bits[sz] - count)
    [] kind = "Shr" -> Bit(a, count - 1)
    [] kind = "Sar" -> IF count >= Bits[sz] THEN Msb(a, sz) ELSE Bit(a, count - 1)

\* A count of 0 leaves the flags alone.  OF says that the sign changed and is
\* defined for a count of 1; the carry of a logical shift is not defined when
\* nothing of the operand is left.
ExecShift(n, g, ea) ==
  LET sz == FormSz(n)
      a == ReadRm(n, g, ea, sz)
      count == ShiftCount(n, g, sz)
      kind == ShiftOps[1 + n.m.reg]
      through == RotateThrough(n.m.reg = 3, a, Carry(g), count % (Bits[sz] + 1), sz)
      throughCarry == n.m.reg \in {2, 3}
      rotates == n.m.reg < 4
      v == IF throughCarry THEN through[1] ELSE Shifted(kind, a, count, sz)
      usedUp == kind \in {"Shl", "Shr"} /\ count >= Bits[sz]
      carry == CASE throughCarry -> through[2]
                 [] usedUp -> 0
                 [] OTHER -> ShiftCarry(kind, a, v, count, sz)
      undef == (IF rotates THEN 0 ELSE AF) + (IF usedUp THEN CF ELSE 0) + (IF count = 1 THEN 0 ELSE OF)
      def == Clear(IF rotates THEN CF + OF ELSE Arithmetic, undef)
      stored == WriteRm(n, g, ea, v, sz)
  IN  IF count = 0 THEN Done(stored)
      ELSE Sets(stored, def, ResultBits(v, sz) + CF * carry + OF * B2N(Msb(a, sz) # Msb(v, sz)), undef)

-----------------------------------------------------------------------------
\* Bits and exchanges.

ExecCount(n, g, ea) ==
  LET sz == OpSz(n)
      a == ReadRm(n, g, ea, sz)
      w == Bits[sz]
      ones == {b \in 0 .. w - 1 : Bit(a, b) = 1}
      least == CHOOSE b \in ones : \A c \in ones : b <= c
      most == CHOOSE b \in ones : \A c \in ones : b >= c
      v == CASE n.op = \hB8 -> OnesIn(a)
             [] n.op = \hBC -> IF a = 0 THEN w ELSE least
             [] n.op = \hBD /\ n.p.rep = \hF3 -> IF a = 0 THEN w ELSE w - 1 - most
             [] n.op = \hBD /\ n.p.rep # \hF3 -> most
      counts == n.p.rep = \hF3
      stored == IF ~counts /\ a = 0 THEN g ELSE StoreGpr(g, RegName(n), v, sz)
  IN  CASE n.op = \hB8 -> Sets(stored, Arithmetic, ZF * B2N(a = 0), 0)
        [] n.op # \hB8 /\ counts ->
             Sets(stored, CF + ZF, CF * B2N(a = 0) + ZF * B2N(v = 0), OF + SF + AF + PF)
        [] n.op # \hB8 /\ ~counts -> Sets(stored, ZF, ZF * B2N(a = 0), CF + OF + SF + AF + PF)

ExecBt(n, g, ea) ==
  LET sz == "I64"
      a == ReadRm(n, g, ea, sz)
      b == n.imm % Bits[sz]
      v == CASE n.m.reg = 4 -> a
             [] n.m.reg = 5 -> BitOr(a, Pow2[b])
             [] n.m.reg = 6 -> Clear(a, Pow2[b])
             [] n.m.reg = 7 -> BitXor(a, Pow2[b])
  IN  Sets(IF n.m.reg = 4 THEN g ELSE WriteRm(n, g, ea, v, sz), CF, Bit(a, b), OF + SF + AF + PF)

ExecXadd(n, g, ea) ==
  LET sz == IF n.op = \hC0 THEN "I8" ELSE OpSz(n)
      a == ReadRm(n, g, ea, sz)
      r == Sum(a, ReadReg(n, g, sz), 0, sz)
  IN  Sets(WriteRm(n, StoreGpr(g, RegName(n), a, sz), ea, r.v, sz), Arithmetic, r.bits, 0)

ExecCmpxchg(n, g, ea) ==
  LET sz == IF n.op = \hB0 THEN "I8" ELSE OpSz(n)
      acc == Mask(g.gpr.Rax, sz)
      a == ReadRm(n, g, ea, sz)
      r == Difference(acc, a, 0, sz)
      \* A destination register is written in either case.
      kept == IF n.m.mod = 3 THEN WriteRm(n, g, ea, a, sz) ELSE g
  IN  Sets(IF acc = a THEN WriteRm(n, g, ea, ReadReg(n, g, sz), sz)
           ELSE StoreGpr(kept, "Rax", a, sz), Arithmetic, r.bits, 0)

ExecCmpxchg8b(n, g, ea) ==
  LET half == IF n.p.rex.w THEN "I64" ELSE "I32"
      lo == Load(g.mem, ea, half)
      hi == Load(g.mem, ea + ByteCount[half], half)
      equal == lo = Mask(g.gpr.Rax, half) /\ hi = Mask(g.gpr.Rdx, half)
      new == StoreTo(StoreTo(g.mem, ea, Mask(g.gpr.Rbx, half), half),
                     ea + ByteCount[half], Mask(g.gpr.Rcx, half), half)
  IN  Sets(IF equal THEN [g EXCEPT !.mem = new]
           ELSE StoreGpr(StoreGpr(g, "Rax", lo, half), "Rdx", hi, half), ZF, ZF * B2N(equal), 0)

ExecBmi(n, g, ea) ==
  LET sz == OpSz(n)
      v == n.p.vex
      src == ReadRm(n, g, ea, sz)
      other == Mask(g.gpr[MapVexReg(v)], sz)
      minus1 == Mask(src - 1, sz)
      start == other % 256
      len == (other \div 256) % 256
      field == IF start >= Bits[sz] THEN 0 ELSE src \div Pow2[start]
      r == CASE n.op = \hF2 -> BitAnd(AllOnes(sz) - other, src)
             [] n.op = \hF3 /\ n.m.reg = 1 -> BitAnd(src, minus1)
             [] n.op = \hF3 /\ n.m.reg = 2 -> BitXor(src, minus1)
             [] n.op = \hF3 /\ n.m.reg = 3 -> BitAnd(src, Mask(-src, sz))
             [] n.op = \hF7 -> IF len >= Bits[sz] THEN field ELSE field % Pow2[len]
      cf == n.op = \hF3 /\ IF n.m.reg = 3 THEN src # 0 ELSE src = 0
      undef == AF + PF + (IF n.op = \hF7 THEN SF ELSE 0)
      dst == IF n.op = \hF3 THEN MapVexReg(v) ELSE RegName(n)
  IN  Sets(StoreGpr(g, dst, r, sz), Arithmetic - undef, ResultBits(r, sz) + CF * B2N(cf), undef)

-----------------------------------------------------------------------------
\* Moves, the stack and strings.

PushWord(g, v) == PushPc(g, v)
Top(g) == Load(g.mem, g.gpr.Rsp, "I64")
Popped(g) == [g EXCEPT !.gpr.Rsp = Wrap(@ + Slot)]

ExecMove(n, g, ea) ==
  LET sz == FormSz(n)
      reg(v, z) == Done(StoreGpr(g, RegName(n), v, z))
      extend(from, signed, to) ==
        LET v == ReadRm(n, g, ea, from) IN IF signed THEN Mask(Signed(v, from), to) ELSE v
  IN  CASE n.esc = "1" /\ n.op \in {\h88, \h89} -> Done(WriteRm(n, g, ea, ReadReg(n, g, sz), sz))
        [] n.esc = "1" /\ n.op \in {\h8A, \h8B} -> reg(ReadRm(n, g, ea, sz), sz)
        [] n.esc = "1" /\ n.op \in {\hC6, \hC7} -> Done(WriteRm(n, g, ea, Imm(n, sz), sz))
        [] n.esc = "1" /\ n.op \in {\h86, \h87} ->
             Done(WriteRm(n, StoreGpr(g, RegName(n), ReadRm(n, g, ea, sz), sz), ea,
                          ReadReg(n, g, sz), sz))
        [] n.op = \h8D -> reg(ea, OpSz(n))
        [] n.op = \h63 -> IF n.p.rex.w THEN reg(extend("I32", TRUE, "I64"), "I64")
                          ELSE reg(ReadRm(n, g, ea, "I32"), "I32")
        [] n.esc = "0F" /\ n.op \in {\hB6, \hB7, \hBE, \hBF} ->
             reg(extend(IF n.op % 2 = 0 THEN "I8" ELSE "I16", n.op >= \hBE, OpSz(n)), OpSz(n))
        [] n.esc = "0F" /\ n.op = \hC3 -> Done(WriteRm(n, g, ea, ReadReg(n, g, OpSz(n)), OpSz(n)))
        [] n.esc = "0F38" /\ n.op = \hF0 ->
             reg(SwappedBytes(ReadRm(n, g, ea, OpSz(n)), ByteCount[OpSz(n)]), OpSz(n))
        [] n.esc = "0F38" /\ n.op = \hF1 ->
             Done(WriteRm(n, g, ea, SwappedBytes(ReadReg(n, g, OpSz(n)), ByteCount[OpSz(n)]), OpSz(n)))
        [] n.esc = "0F" /\ n.op \in \h40 .. \h4F ->
             reg(IF Condition(n.op, g.rflags) THEN ReadRm(n, g, ea, OpSz(n)) ELSE ReadReg(n, g, OpSz(n)),
                 OpSz(n))
        [] n.esc = "0F" /\ n.op \in \h90 .. \h9F ->
             Done(WriteRm(n, g, ea, B2N(Condition(n.op, g.rflags)), "I8"))

\* The forms without ModRM: the register is in the opcode, or the accumulator.
ExecShort(n, g) ==
  LET sz == OpSz(n)
      r == OpcodeReg(n)
      acc(v, z) == Done(StoreGpr(g, "Rax", v, z))
      half == CASE sz = "I64" -> "I32" [] sz = "I16" -> "I8" [] OTHER -> "I16"
      moffs == IF n.p.addrsz THEN Mask(n.imm, "I32") ELSE Wrap(n.imm)
      fsz == FormSz(n)
  IN  CASE n.op \in \hB0 .. \hB7 -> Done(StoreGpr(g, r, n.imm, "I8"))
        [] n.op \in \hB8 .. \hBF -> Done(StoreGpr(g, r, n.imm, sz))
        [] n.op \in \h91 .. \h97 -> Done(StoreGpr(StoreGpr(g, "Rax", g.gpr[r], sz), r, g.gpr.Rax, sz))
        [] n.op = \h98 -> acc(Mask(Signed(g.gpr.Rax, half), sz), sz)
        [] n.op = \h99 -> Done(StoreGpr(g, "Rdx", Msb(g.gpr.Rax, sz) * AllOnes(sz), sz))
        [] n.op \in {\hA0, \hA1} -> acc(Load(g.mem, moffs, fsz), fsz)
        [] n.op \in {\hA2, \hA3} -> Done([g EXCEPT !.mem = StoreTo(@, moffs, g.gpr.Rax, fsz)])
        [] n.op = \hD7 -> acc(Load(g.mem, Wrap(g.gpr.Rbx + Mask(g.gpr.Rax, "I8")), "I8"), "I8")
        [] n.esc = "0F" /\ n.op \in \hC8 .. \hCF ->
             Done(StoreGpr(g, r, SwappedBytes(Mask(g.gpr[r], sz), ByteCount[sz]), sz))

ExecStack(n, g, ea) ==
  LET rsp == g.gpr.Rsp
      r == OpcodeReg(n)
      framed == [PushWord(g, g.gpr.Rbp) EXCEPT !.gpr.Rbp = Wrap(rsp - Slot)]
      ah == (g.gpr.Rax \div 256) % 256
      low == BitAnd(ah, CF + PF + AF + ZF + SF)
  IN  CASE n.op \in \h50 .. \h57 -> Done(PushWord(g, g.gpr[r]))
        [] n.op \in \h58 .. \h5F -> Done(StoreGpr(Popped(g), r, Top(g), "I64"))
        [] n.op = \h68 -> Done(PushWord(g, Wrap(Signed(n.imm, "I32"))))
        [] n.op = \h6A -> Done(PushWord(g, Wrap(Signed(n.imm, "I8"))))
        [] n.op = \hFF -> Done(PushWord(g, ReadRm(n, g, ea, "I64")))
        [] n.op = \h8F -> Done(WriteRm(n, Popped(g), ea, Top(g), "I64"))
        [] n.op = \hC9 ->
             Done([g EXCEPT !.gpr.Rbp = Load(g.mem, g.gpr.Rbp, "I64"),
                            !.gpr.Rsp = Wrap(g.gpr.Rbp + Slot)])
        [] n.op = \hC8 -> Done([framed EXCEPT !.gpr.Rsp = Wrap(@ - Mask(n.imm, "I16"))])
        [] n.op = \h9C -> Done(PushWord(g, BitOr(g.rflags, 2)))
        [] n.op = \h9D -> Sets(Popped(g), Arithmetic, Top(g), 0)
        [] n.op = \h9E -> Sets(g, Arithmetic - OF, low, 0)
        [] n.op = \h9F ->
             Done([g EXCEPT !.gpr.Rax = (@ - ah * 256) + 256 * BitOr(BitAnd(g.rflags, \hD5), 2)])

ExecString(n, g) ==
  LET sz == FormSz(n)
      step(h, r) == [h EXCEPT !.gpr[r] = Wrap(@ + ByteCount[sz])]
      atSi == Load(g.mem, g.gpr.Rsi, sz)
      atDi == Load(g.mem, g.gpr.Rdi, sz)
      compared(h, a, b) == Sets(h, Arithmetic, Difference(a, b, 0, sz).bits, 0)
  IN  CASE n.op \in {\hA4, \hA5} ->
             Done(step(step([g EXCEPT !.mem = StoreTo(@, g.gpr.Rdi, atSi, sz)], "Rsi"), "Rdi"))
        [] n.op \in {\hA6, \hA7} -> compared(step(step(g, "Rsi"), "Rdi"), atSi, atDi)
        [] n.op \in {\hAA, \hAB} ->
             Done(step([g EXCEPT !.mem = StoreTo(@, g.gpr.Rdi, g.gpr.Rax, sz)], "Rdi"))
        [] n.op \in {\hAC, \hAD} -> Done(step(StoreGpr(g, "Rax", atSi, sz), "Rsi"))
        [] n.op \in {\hAE, \hAF} -> compared(step(g, "Rdi"), Mask(g.gpr.Rax, sz), atDi)

-----------------------------------------------------------------------------
\* Control transfers; after is the address of the next instruction.

ExecControl(n, g, ea, after) ==
  LET csz == IF n.p.addrsz THEN "I32" ELSE "I64"
      count == Mask(g.gpr.Rcx - 1, csz)
      to(c, h) == Goes(h, IF c THEN after + n.imm ELSE after)
  IN  CASE n.esc = "0F" /\ n.op = \h05 -> Leaves(g, "Syscall", 0)
        [] n.op \in (IF n.esc = "1" THEN \h70 .. \h7F ELSE \h80 .. \h8F) ->
             to(Condition(n.op, g.rflags), g)
        [] n.op \in {\hE9, \hEB} -> to(TRUE, g)
        [] n.op = \hE2 -> to(count # 0, StoreGpr(g, "Rcx", count, csz))
        [] n.op = \hE3 -> to(Mask(g.gpr.Rcx, csz) = 0, g)
        [] n.op = \hE8 -> to(TRUE, PushWord(g, Wrap(after)))
        [] n.op = \hC3 -> Goes(Popped(g), Top(g))
        [] n.op = \hC2 -> Goes([Popped(g) EXCEPT !.gpr.Rsp = Wrap(@ + Mask(n.imm, "I16"))], Top(g))
        [] n.op = \hFF /\ n.m.reg = 2 -> Goes(PushWord(g, Wrap(after)), ReadRm(n, g, ea, "I64"))
        [] n.op = \hFF /\ n.m.reg = 4 -> Goes(g, ReadRm(n, g, ea, "I64"))
        [] OTHER -> Leaves(g, "Trap", 0)

ExecOneByte(n, g, ea, after) ==
  LET o == n.op
  IN  CASE (o < \h40 /\ o % 8 < 6) \/ o \in {\h80, \h81, \h83, \h84, \h85, \hA8, \hA9} -> ExecAlu(n, g, ea)
        [] o \in {\hF6, \hF7} -> ExecGroup3(n, g, ea)
        [] o \in {\hFE, \hFF} /\ n.m.reg \in {0, 1} -> ExecIncDec(n, g, ea, FormSz(n))
        [] o \in {\h69, \h6B} -> ExecImul(n, g, ea)
        [] o \in {\hC0, \hC1, \hD0, \hD1, \hD2, \hD3} -> ExecShift(n, g, ea)
        [] o \in {\h63, \h86, \h87, \h88, \h89, \h8A, \h8B, \h8D, \hC6, \hC7} -> ExecMove(n, g, ea)
        [] o \in (\h91 .. \h99) \union (\hA0 .. \hA3) \union (\hB0 .. \hBF) \union {\hD7} -> ExecShort(n, g)
        [] o \in (\h50 .. \h5F) \union (\h9C .. \h9F) \union {\h68, \h6A, \h8F, \hC8, \hC9}
             \/ (o = \hFF /\ n.m.reg = 6) -> ExecStack(n, g, ea)
        [] o \in {\hA4, \hA5, \hA6, \hA7} \union (\hAA .. \hAF) -> ExecString(n, g)
        [] o \in {\h90, \h9B, \hFC, \hD9, \hDB} -> Done(g)
        [] OTHER -> ExecControl(n, g, ea, after)

ExecTwoByte(n, g, ea, after) ==
  LET o == n.op
  IN  CASE o \in (\h40 .. \h4F) \union (\h90 .. \h9F) \union {\hB6, \hB7, \hBE, \hBF, \hC3} ->
             ExecMove(n, g, ea)
        [] o = \hAF -> ExecImul(n, g, ea)
        [] o \in {\hB0, \hB1} -> ExecCmpxchg(n, g, ea)
        [] o \in {\hB8, \hBC, \hBD} -> ExecCount(n, g, ea)
        [] o = \hBA -> ExecBt(n, g, ea)
        [] o \in {\hC0, \hC1} -> ExecXadd(n, g, ea)
        [] o = \hC7 -> ExecCmpxchg8b(n, g, ea)
        [] o \in \hC8 .. \hCF -> ExecShort(n, g)
        [] o \in {\h0D, \h0E, \h18, \h1E, \h1F, \h77, \hAE} -> Done(g)
        [] OTHER -> ExecControl(n, g, ea, after)

\* PCLMULQDQ: the product of two polynomials over GF(2); coefficient n is the
\* sum of the products of the coefficients whose degrees add up to n.
ExecPclmulqdq(n, g, ea) ==
  LET x == n.m.reg + 8 * B2N(n.p.rex.r)
      src == IF IsReg(n) THEN g.xmm[n.m.rm + 8 * B2N(n.p.rex.b)]
             ELSE <<Load(g.mem, ea, "I64"), Load(g.mem, ea + 8, "I64")>>
      p == g.xmm[x][1 + Bit(n.imm, 0)]
      q == src[1 + Bit(n.imm, 4)]
      degrees == 0 .. Bits.I64 - 1
      odd(d) == Cardinality({j \in degrees : Bit(p, j) = 1 /\ d - j \in degrees /\ Bit(q, d - j) = 1}) % 2 = 1
      word(first) == OnesAt({d \in degrees : odd(first + d)})
  IN  Done([g EXCEPT !.xmm[x] = <<word(0), word(Bits.I64)>>])

Exec(i, pc, g) ==
  LET n == In(i, pc)
      after == pc + Length(i)
      ea == EffectiveAddress(n, g, after)
  IN  CASE n.p.vex.on -> ExecBmi(n, g, ea)
        [] ~n.p.vex.on /\ n.esc = "1" -> ExecOneByte(n, g, ea, after)
        [] ~n.p.vex.on /\ n.esc = "0F" -> ExecTwoByte(n, g, ea, after)
        [] ~n.p.vex.on /\ n.esc = "0F38" -> ExecMove(n, g, ea)
        [] ~n.p.vex.on /\ n.esc = "0F3A" -> ExecPclmulqdq(n, g, ea)
=============================================================================
