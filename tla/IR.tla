---------------------------------- MODULE IR ----------------------------------
(***************************************************************************)
(* The intermediate representation of the Rust translator (crate           *)
(* prisma-ir): operand sizes, the integer operations on them, statements   *)
(* and their references.                                                   *)
(*                                                                         *)
(* Widths are scaled down by four: a guest byte has 2 bits, so I8, I16,    *)
(* I32 and I64 have 2, 4, 8 and 16 bits, and a 64-bit operand still        *)
(* occupies 8 guest bytes.  Everything the code derives from a width       *)
(* (masks, sign bits, shift-count masks, the low/high halves of a wide     *)
(* product, the byte PF looks at, the half byte AF carries out of) is      *)
(* derived from the scaled width here.  The bit positions of RFLAGS, and   *)
(* of AH in the two instructions that copy RFLAGS to it, are literal.      *)
(***************************************************************************)
EXTENDS Integers, Sequences
LOCAL INSTANCE Bitwise

Sizes == {"I8", "I16", "I32", "I64"}

\* OpSize::bit_width.
Bits == [I8 |-> 2, I16 |-> 4, I32 |-> 8, I64 |-> 16]

\* The number of guest bytes of an operand.
ByteCount == [I8 |-> 1, I16 |-> 2, I32 |-> 4, I64 |-> 8]

Pow2 == [i \in 0 .. 24 |-> 2 ^ i]
Word == Pow2[Bits.I64]
ByteSpan == Pow2[Bits.I8]

\* Gpr, in the order of the register numbers.
GprName == <<"Rax", "Rcx", "Rdx", "Rbx", "Rsp", "Rbp", "Rsi", "Rdi",
             "R8", "R9", "R10", "R11", "R12", "R13", "R14", "R15">>
Gprs == {GprName[i] : i \in 1 .. 16}

\* The arithmetic flags in RFLAGS.
CF == 1
PF == 4
AF == 16
ZF == 64
SF == 128
OF == 2048
Arithmetic == CF + PF + AF + ZF + SF + OF

-----------------------------------------------------------------------------
\* Integers of a size, always represented as naturals below 2 ^ Bits[sz].

Mask(v, sz) == v % Pow2[Bits[sz]]
AllOnes(sz) == Pow2[Bits[sz]] - 1
Wrap(v) == v % Word
Bit(v, i) == (v \div Pow2[i]) % 2
Msb(v, sz) == Bit(v, Bits[sz] - 1)
Signed(v, sz) ==
  LET m == Mask(v, sz) IN IF Msb(m, sz) = 1 THEN m - Pow2[Bits[sz]] ELSE m
B2N(b) == IF b THEN 1 ELSE 0

\* Bitwise operations on words, nibble by nibble.
Nibbles == (0 .. 15) \X (0 .. 15)
AndTable == [p \in Nibbles |-> p[1] & p[2]]
XorTable == [p \in Nibbles |-> p[1] ^^ p[2]]
Nibble(v, i) == (v \div Pow2[4 * i]) % 16
ByNibble(t, a, b) ==
  t[a % 16, b % 16] + 16 * t[Nibble(a, 1), Nibble(b, 1)]
    + 256 * t[Nibble(a, 2), Nibble(b, 2)] + 4096 * t[Nibble(a, 3), Nibble(b, 3)]
BitAnd(a, b) == ByNibble(AndTable, a, b)
BitXor(a, b) == ByNibble(XorTable, a, b)
BitOr(a, b) == a + b - BitAnd(a, b)
\* a with the bits of m cleared (a & !m).
Clear(a, m) == a - BitAnd(a, m)

\* The low and the high word of a product of two words.
MulLow(a, b) == ((((a \div 256) * b) % 256) * 256 + (a % 256) * b) % Word
MulHigh(a, b) == ((a \div 256) * b + ((a % 256) * b) \div 256) \div 256
\* Quotient and remainder of the double word high:low by d, where high < d.
DivWide(high, low, d) ==
  LET r1 == high * 256 + low \div 256
      r2 == (r1 % d) * 256 + (low % 256)
  IN  [q |-> (r1 \div d) * 256 + r2 \div d, r |-> r2 % d]

\* Division that truncates towards zero, and its remainder.
TruncDiv(a, b) ==
  LET q == (IF a < 0 THEN -a ELSE a) \div (IF b < 0 THEN -b ELSE b)
  IN  IF (a < 0) = (b < 0) THEN q ELSE -q
TruncMod(a, b) == a - b * TruncDiv(a, b)

\* A logical left shift of a word, a logical and an arithmetic right shift.
ShiftLeft(v, n) == IF n >= Bits.I64 THEN 0 ELSE (v % Pow2[Bits.I64 - n]) * Pow2[n]
ShiftRight(v, n) == IF n >= Bits.I64 THEN 0 ELSE v \div Pow2[n]
ShiftArith(v, n) == Wrap(Signed(v, "I64") \div Pow2[IF n >= Bits.I64 THEN Bits.I64 ELSE n])
\* Rotation of the low w bits.
RotateRight(v, n, w) ==
  LET m == v % Pow2[w] IN (m \div Pow2[n]) + (m % Pow2[n]) * Pow2[w - n]

Parity(v) == (Bit(v, 0) + Bit(v, 1) + Bit(v, 2) + Bit(v, 3)
               + Bit(v, 4) + Bit(v, 5) + Bit(v, 6) + Bit(v, 7)) % 2

-----------------------------------------------------------------------------
(***************************************************************************)
(* A statement: its operation, the reference it defines (NoRef for none),  *)
(* the references it reads, and its attributes: k is the operation's kind  *)
(* (binary operation, condition code, register, carry mode, trap), x a     *)
(* second one, imm its immediate operands.                                 *)
(***************************************************************************)
NoRef == -1
Stmt(res, op, k, x, sz, args, imm) ==
  [res |-> res, op |-> op, k |-> k, x |-> x, sz |-> sz, args |-> args, imm |-> imm]

Const(r, v, sz) == Stmt(r, "Constant", "", "", sz, << >>, <<v>>)
LoadReg(r, g, sz) == Stmt(r, "LoadReg", g, "", sz, << >>, << >>)
StoreReg(g, v, sz) == Stmt(NoRef, "StoreReg", g, "", sz, <<v>>, << >>)
Bin(r, k, a, b, sz) == Stmt(r, "BinOp", k, "", sz, <<a, b>>, << >>)
Cmp(r, cc, a, b, sz) == Stmt(r, "Compare", cc, "", sz, <<a, b>>, << >>)
CmpFlags(r, a, b, sz) == Stmt(r, "CmpFlags", "", "", sz, <<a, b>>, << >>)
Flags(r, op, k, a, b, sz) == Stmt(r, op, k, "", sz, <<a, b>>, << >>)
Select(r, cc, t, f, sz) == Stmt(r, "Select", cc, "", sz, <<t, f>>, << >>)
LoadMem(r, op, a, sz) == Stmt(r, op, "", "", sz, <<a>>, << >>)
StoreMem(op, a, v, sz) == Stmt(NoRef, op, "", "", sz, <<a, v>>, << >>)
Extend(r, v, from, to, signed) == Stmt(r, "Extend", signed, from, to, <<v>>, << >>)
Unary(r, op, v, sz) == Stmt(r, op, "", "", sz, <<v>>, << >>)
Effect(op, args) == Stmt(NoRef, op, "", "", "I64", args, << >>)
RspAdjust(delta) == Stmt(NoRef, "RspAdjust", "", "", "I64", << >>, <<delta>>)
TrapIf(c, kind) == Stmt(NoRef, "TrapIf", kind, "", "I64", <<c>>, << >>)
\* StoreRflagsFromNzcv and StoreRflagsFromBits: x says which of the optional
\* PF and AF references are present; they come first in args.
RflagsFromNzcv(carry, x, opt) == Stmt(NoRef, "StoreRflagsFromNzcv", carry, x, "I64", opt, << >>)
RflagsFromBits(x, opt, zsf) == Stmt(NoRef, "StoreRflagsFromBits", "", x, "I64", opt \o zsf, << >>)
\* The operations on 128-bit values.  The optional lengths of PcmpStr* follow
\* its vectors in args.
LoadVecReg(r, xmm) == Stmt(r, "LoadVecReg", "", "", "I64", << >>, <<xmm>>)
StoreVecReg(xmm, v) == Stmt(NoRef, "StoreVecReg", "", "", "I64", <<v>>, <<xmm>>)
Vec(r, op, args, imm) == Stmt(r, op, "", "", "I64", args, imm)
Exit(op, k, args, imm) == Stmt(NoRef, op, k, "", "I64", args, imm)

\* The reference AtomicCmpxchgPair defines besides its result, in imm[1].
SecondResult(s) == IF s.op = "AtomicCmpxchgPair" THEN {s.imm[1]} ELSE {}

\* Stmt::map_refs: f applied to every reference a statement defines or reads.
MapRefs(s, f) ==
  [s EXCEPT !.res = IF @ = NoRef THEN NoRef ELSE f[@],
            !.args = [i \in DOMAIN @ |-> f[@[i]]],
            !.imm = IF SecondResult(s) = {} THEN @ ELSE <<f[@[1]]>>]

\* The references a statement defines, and all of its references.
Defines(s) == ({s.res} \ {NoRef}) \union SecondResult(s)
RefsOf(s) == {s.args[i] : i \in DOMAIN s.args} \union Defines(s)

\* The loop over the statements of a block, step(acc, statement), by halves.
\* {acc} is never empty: comparing it has TLC evaluate acc before it goes on.
Fold(step(_, _), init, stmts) ==
  LET RECURSIVE over(_, _, _)
      over(i, j, acc) ==
        IF {acc} = {} \/ i > j THEN acc
        ELSE IF i = j THEN step(acc, stmts[i])
        ELSE over((i + j) \div 2 + 1, j, over(i, (i + j) \div 2, acc))
  IN  over(1, Len(stmts), init)

\* types::is_terminator.
IsTerminator(s) ==
  s.op \in {"Return", "Jump", "CondJump", "CondJumpFlags", "JumpReg", "JumpRel", "CondJumpRel", "CallRel", "CallReg",
            "RetAdjusted", "Trap", "Syscall"}

\* Variant: the fall-through of a conditional branch is left out.
FirstSuccessor(s) ==
  IF s.op \in {"JumpRel", "CondJumpRel", "CallRel"} THEN <<s.imm[1]>> ELSE << >>

\* types::static_successors: the guest addresses a terminator names.
StaticSuccessors(s) ==
  IF s.op \in {"JumpRel", "CondJumpRel", "CallRel"} THEN s.imm ELSE << >>
=============================================================================
