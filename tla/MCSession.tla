------------------------------- MODULE MCSession -------------------------------
(***************************************************************************)
(* Guest programs, fragments of IR and CPU states for Session, with the    *)
(* modelled decoder and the architecture it is compared with.              *)
(***************************************************************************)
EXTENDS Session, X86

\* An instruction: prefixes, opcode map, opcode, ModRM and immediate.
I(pre, esc, op, modrm, imm) ==
  [pre |-> pre, esc |-> esc, op |-> op, modrm |-> modrm, sib |-> 0, disp |-> 0, imm |-> imm, next |-> 1]

None == << >>
Word16 == <<\h66>>
Wide == <<\h48>>

State(a, c, d, b, f, x1, x3) ==
  [gpr |-> [r \in Gprs |-> CASE r = "Rax" -> a [] r = "Rcx" -> c [] r = "Rdx" -> d [] r = "Rbx" -> b
                             [] r = "Rsp" -> 200 [] r = "Rbp" -> 264 [] OTHER -> 300],
   xmm |-> [x \in 0 .. 15 |-> CASE x = 1 -> x1 [] x = 3 -> x3 [] OTHER -> <<b, c>>],
   cf |-> f % 2, rflags |-> f, mem |-> << >>]
\* Bytes 1 2 3 1 2 3 ... to the last, where 3 1 occurs again, and shorter strings.
MCProbes == {State(40000, 3, 0, 77, 2 + CF, <<40569, 31207>>, <<7, 0>>),
             State(32768, 32767, 65535, 3, 2 + ZF + OF, <<32768, 3>>, <<32767, 65535>>),
             State(255, 2, 1, 128, 2 + SF + PF + AF, <<569, 0>>, <<9, 0>>)}

\* A program alone in a window that holds it.
Alone(p) == [image |-> p, window |-> 64, cap |-> 8, regs |-> Endless]

-----------------------------------------------------------------------------
\* Single instructions.  ModRM CB is rbx, rcx; 0B is [rbx], rcx; C3 + 8 * r is
\* operation r of a group on rbx and 03 + 8 * r on [rbx].

Arith ==
  {I(pm[1], "1", 8 * k + pm[2], pm[3], 3) :
     k \in 0 .. 7, pm \in {<<None, 0, \hCB>>, <<None, 1, \h0B>>, <<Word16, 3, \hCB>>, <<Wide, 5, 0>>}}
  \union {I(<<\h45>>, "1", \h01, \hD1, 0)}
  \union {I(None, "1", \h83, \hC3 + 8 * r, 3) : r \in 0 .. 7}
  \union {I(None, "1", \h81, \h03 + 8 * r, 5) : r \in 0 .. 7}
  \union {I(None, "1", o, \hCB, 6) : o \in {\h84, \h85, \hA8, \h69, \h6B}}
  \union {I(None, "1", o, \hC3 + 8 * r, 1) : o \in {\hF6, \hF7}, r \in {0, 2, 3, 4, 5, 6, 7}}
  \union {I(Wide, "1", \hF7, \hC3 + 8 * r, 1) : r \in {4, 5, 6, 7}}
  \union {I(None, "1", \hFE, m + 8 * r, 0) : m \in {\hC3, \h03}, r \in {0, 1}}
  \union {I(Wide, "1", \hFF, \hC3 + 8 * r, 0) : r \in {0, 1}}
  \union {I(None, "1", \hC1, \hC3 + 8 * r, 3) : r \in 2 .. 5}
  \union {I(Wide, "1", \hD3, \hC3 + 8 * r, 0) : r \in {0, 1, 2, 3, 4, 5, 7}}

Bitwise16 ==
  {I(None, "0F", o, m, 0) : o \in {\hB0, \hB1, \hC0, \hC1}, m \in {\hCB, \h0B}}
  \union {I(<<\hF3>>, "0F", o, \hCB, 0) : o \in {\hB8, \hBC, \hBD}}
  \union {I(None, "0F", o, \hCB, 0) : o \in {\hAF, \hBC, \hBD}}
  \union {I(Wide, "0F", \hBA, \hC3 + 8 * r, 3) : r \in 4 .. 7}
  \union {I(<<\hC4, \hE2, \hF0>>, "0F38", om[1], om[2], 0) :
            om \in {<<\hF2, \hC3>>, <<\hF3, \hCB>>, <<\hF3, \hD3>>, <<\hF3, \hDB>>, <<\hF7, \hC3>>}}

Moves ==
  {I(None, "1", o, m, 2) : o \in {\h88, \h89, \h8A, \h8B, \h87, \hC7}, m \in {\h0B, \hC3}}
  \union {I(None, "1", o, \h0B, 260) : o \in {\h8D, \hA0, \hA1, \hA2, \hA3}}
  \union {I(Wide, "1", o, \hCB, 1) : o \in {\h63, \h91, \h98, \h99, \hB8, \hB0}}
  \union {I(None, "0F", o, \hCB, 0) : o \in {\h44, \h4C, \h94, \h9C, \hB6, \hB7, \hBE, \hBF, \hC8}}
  \union {I(None, "0F", \hC3, \h0B, 0), I(None, "1", \hD7, 0, 0)}
  \union {I(None, "0F38", o, \h0B, 0) : o \in {\hF0, \hF1}}
  \union {[I(None, "1", \h8B, m, 0) EXCEPT !.sib = \h8B, !.disp = 2] : m \in {\h04, \h44, \h84}}
  \union {[I(<<\h67>>, "1", \h8B, \h43, 0) EXCEPT !.disp = 3]}

Stack ==
  {I(None, "1", o, 0, 24) : o \in {\h51, \h5B, \h68, \h6A, \hC8, \hC9, \h9C, \h9D, \h9E, \h9F}}
  \union {I(None, "1", \hFF, m, 0) : m \in {\hF3, \h33}} \union {I(None, "1", \h8F, m, 0) : m \in {\hC3, \h03}}
Strings == {I(None, "1", o, 0, 0) : o \in {\hA4, \hA5, \hAA, \hAB, \hAC, \hAD}}
StringCompares == {I(None, "1", o, 0, 0) : o \in {\hA6, \hA7, \hAE, \hAF}}

Transfers ==
  {I(None, "1", \h70 + c, 0, 4) : c \in {0, 1, 2, 3, 4, 5, 8, 9, 12, 13, 14, 15}}
  \union {I(None, "0F", \h84, 0, 4)}
  \union {I(None, "1", o, 0, 2) : o \in {\hE2, \hE3, \hE8, \hE9, \hEB, \hC3, \hC2}}
  \union {I(None, "1", \hFF, m, 0) : m \in {\hD3, \hE3}}
Others ==
  {I(None, "1", \h90, 0, 0), I(None, "0F", \h1F, \h03, 0), I(None, "0F", \h18, \h0B, 0),
   I(None, "0F", \h0B, 0, 0), I(None, "1", \hCD, 0, 3), I(None, "0F", \h05, 0, 0),
   I(None, "1", \h62, 0, 0)}

FlagWriting == Arith \union Bitwise16 \union StringCompares

\* The flags an instruction defines that its translation leaves out of RFLAGS:
\* those of shifts, rotates, products and NEG (no flag operation is emitted),
\* those of the bit counts (they reach the host's flags only), and AF and PF of
\* the comparisons outside the ALU groups.  RCL and RCR do leave the carry.
OfGroup(pairs) == {i \in FlagWriting : i.esc = "1" /\ <<i.op, (i.modrm \div 8) % 8>> \in pairs}
ShiftsOnly == OfGroup({\hC1, \hD3} \X {4, 5, 7})
Negations == OfGroup({\hF6, \hF7} \X {3})
Rotations == OfGroup({\hC1, \hD3} \X {0, 1})
Multiplies == OfGroup({\hF6, \hF7} \X {4, 5})
              \union {i \in FlagWriting : <<i.esc, i.op>> \in {<<"1", \h69>>, <<"1", \h6B>>, <<"0F", \hAF>>}}
Counted(ops, pre) == {i \in FlagWriting : i.esc = "0F" /\ i.op \in ops /\ i.pre = pre}
MCUnpublished(i) ==
  CASE i \in ShiftsOnly \union Negations \union Counted({\hB8}, <<\hF3>>) -> Arithmetic
    [] i \in Rotations \union Multiplies -> CF + OF
    [] i \in Counted({\hBC, \hBD}, <<\hF3>>) -> CF + ZF
    [] i \in Counted({\hBC, \hBD}, None) -> ZF
    [] i \in Counted({\hB0, \hB1}, None) \union StringCompares -> AF + PF
    [] OTHER -> 0

Products == {I(Word16, "0F3A", \h44, m, imm) : m \in {\hCB, \h0B}, imm \in {0, 1, 16, 17}}

FlagFree == Products \union Moves \union Stack \union Strings \union Transfers \union Others

-----------------------------------------------------------------------------
\* Programs.

CmpR == I(None, "1", \h39, \hCB, 0)         \* cmp ebx, ecx
AddR == I(None, "1", \h01, \hCB, 0)         \* add ebx, ecx
AdcR == I(None, "1", \h11, \hCB, 0)         \* adc ebx, ecx
DecC == I(None, "1", \hFF, \hC9, 0)         \* dec ecx
MovC == I(None, "1", \hB9, 0, 1)            \* mov ecx, 1
StoreB == I(None, "1", \h89, \h0B, 0)       \* mov [rbx], ecx
LoadB == I(None, "1", \h8B, \h13, 0)        \* mov edx, [rbx]
PushC == I(None, "1", \h51, 0, 0)
PopD == I(None, "1", \h5A, 0, 0)
SysCall == I(None, "0F", \h05, 0, 0)
Return == I(None, "1", \hC3, 0, 0)
Jcc(c, d) == I(None, "1", \h70 + c, 0, d)
SetL == I(None, "0F", \h9C, \hC2, 0)        \* setl dl

Longer ==
  {<<CmpR, Jcc(c, 5), MovC, PopD>> : c \in {4, 12, 15}}
  \union {<<AddR, Jcc(c, 1), PopD, PushC>> : c \in {0, 2, 8}}
  \union {<<AddR, AdcR, AdcR>>, <<CmpR, SetL, PushC, PopD>>, <<StoreB, LoadB, StoreB, AddR>>,
          <<CmpR, AddR, CmpR, Jcc(5, 0)>>, <<PushC, SysCall, PopD, CmpR>>}
  \union {<<DecC, Jcc(5, Wrap(-4)), PopD>>, <<I(None, "1", \hEB, 0, Wrap(-2))>>,
          <<I(None, "1", \hE8, 0, 3), PopD, SysCall, PushC, Return>>,
          <<I(None, "1", \hEB, 0, 1), PopD, I(None, "0F", \h05, 0, 0)>>}

\* Within a block the flags of a bit count are there for the branch after it.
CountThenTest ==
  {<<i, Jcc(4, 4)>> : i \in Counted({\hB8, \hBC, \hBD}, <<\hF3>>) \union Counted({\hBC, \hBD}, None)}
  \union {<<i, Jcc(2, 4)>> : i \in Counted({\hBC, \hBD}, <<\hF3>>)}

\* The instructions that compute no flags are run on the eight value registers
\* of the lowerer, the others on as many as they ask for.
MCSessions ==
  {Alone(<<i>>) : i \in FlagWriting} \union {Alone(p) : p \in CountThenTest}
  \union {[Alone(<<i>>) EXCEPT !.regs = Ring] : i \in FlagFree}
  \union {[image |-> p, window |-> wc[1], cap |-> wc[2], regs |-> Endless] : p \in Longer, wc \in {<<64, 8>>, <<64, 1>>, <<5, 8>>}}

-----------------------------------------------------------------------------
\* Fragments of IR: constants the passes fold, operations with a neutral or an
\* absorbing operand, repeated loads, stores and operations, and branches and
\* flag writers on known values.

Keep(r, sz, ss) == ss \o <<StoreReg("Rcx", r, sz)>>

\* Below 64 bits the interpreter and the backend differ on these.
Signed64 == {"Sar", "Ror", "Rol", "UMulHi", "SMulHi", "SDiv", "SMod"}
Kinds(sz) == IF sz = "I64" THEN LoweredBinops ELSE LoweredBinops \ Signed64
Dividing == {"UDiv", "SDiv", "UMod", "SMod"}

Foldable ==
  UNION {{Keep(2, sz, <<Const(0, 200, sz), Const(1, 3, sz), Bin(2, k, 0, 1, sz)>>) : k \in Kinds(sz)} :
         sz \in {"I32", "I64"}}
  \union {Keep(1, "I64", <<Const(0, v, "I32"), Extend(1, 0, from, "I64", k)>>) :
            v \in {2, 200}, from \in {"I8", "I32"}, k \in {"signed", "unsigned"}}
Operated(k, v, l, r, sz) == Keep(2, sz, <<LoadReg(0, "Rax", sz), Const(1, v, sz), Bin(2, k, l, r, sz)>>)
Identities ==
  {Operated(k, v, 0, 1, "I64") : k \in LoweredBinops, v \in {0, 1, 4, 65535}}
  \union {Operated(k, v, 1, 0, "I64") : k \in LoweredBinops \ Dividing, v \in {0, 1}}
  \union {Operated(k, v, 0, 1, "I32") : k \in {"Mul", "And", "Or", "UMod", "Add"}, v \in {1, 255}}
  \union {Operated(k, 0, 0, 0, "I32") : k \in {"Sub", "Xor", "And", "Or"}}
MemoryFragments ==
  {Keep(4, sz, <<LoadReg(0, "Rbx", "I64"), LoadReg(1, "Rdx", "I64"), LoadMem(2, "LoadMem", 0, sz),
             StoreMem(op, 1, 0, "I32"), LoadMem(3, "LoadMem", 0, sz), Bin(4, "Add", 2, 3, sz),
             StoreMem("StoreMem", 1, 4, "I16"), StoreMem("StoreMem", 1, 3, "I16")>>) :
     op \in {"StoreMem", "StoreMemTSO"}, sz \in {"I16", "I64"}}
Repeated ==
  {Keep(5, "I64", <<LoadReg(0, "Rax", "I64"), LoadReg(1, "Rdx", "I64"), Bin(2, k, 0, 1, "I64"),
             Bin(3, k, 0, 1, "I64"), Bin(4, "Xor", 2, 3, "I64"), Bin(5, "Add", 4, 3, "I64")>>) :
     k \in {"Add", "Mul", "Shr"}}
Branches ==
  {<<Const(0, ab[1], sz), Const(1, ab[2], sz), CmpFlags(2, 0, 1, sz), Exit("CondJumpRel", cc, << >>, <<40, 50>>)>> :
     ab \in {<<5, 3>>, <<3, 5>>, <<200, 200>>, <<3, 200>>}, sz \in {"I32"},
     cc \in {"Eq", "Ne", "Ult", "Ule", "Ugt", "Uge", "Slt", "Sle", "Sgt", "Sge"}}
FlagFragments ==
  {<<LoadReg(0, "Rax", "I32"), LoadReg(1, "Rdx", "I32"), Flags(NoRef, "AluFlags", "Add", 0, 1, "I32"),
     f, RflagsFromNzcv("ArmCarry", "", << >>), Exit("CondJumpRel", "Eq", << >>, <<40, 50>>)>> :
     f \in {CmpFlags(2, 0, 1, "I32"), Flags(NoRef, "AluFlags", "And", 0, 1, "I32"), LoadReg(2, "Rdx", "I64")}}

\* What PCMPESTRM, PCMPESTRI, PCMPISTRM and PCMPISTRI xmm1, xmm3 decode to.
StringFragments ==
  {Decoding(I(Word16, "0F3A", o, \hCB, imm), Origin).stmts :
     o \in \h60 .. \h63, imm \in {0, 1, 6, 4, 7, 8, 13, 16, 24, 44, 48, 56, 64, 69, 72, 76, 90, 120}}

MCFragments == StringFragments \union Foldable \union Identities \union MemoryFragments \union Repeated \union Branches \union FlagFragments

-----------------------------------------------------------------------------
\* Functions: a graph gives each block the blocks it may go to.  The entry loads
\* what the others compute with; each block updates a word of memory, and the
\* word it read decides where it goes.  Both the sum and the product are the
\* same in every block, and the product depends on the sum.
Term(id, to) ==
  CASE Len(to) = 0 -> <<Exit("Return", "", << >>, << >>)>>
    [] Len(to) = 1 -> <<Exit("Jump", "", << >>, to)>>
    [] Len(to) = 2 -> <<Exit("CondJump", "", <<10 * id + 4>>, to)>>
    [] Len(to) = 3 -> <<CmpFlags(10 * id + 5, 10 * id + 4, 3, "I64"),
                        Exit("CondJumpFlags", "Eq", <<10 * id + 5>>, Tail(to))>>
Body(id) ==
  LET r(k) == 10 * id + k
  IN  <<LoadMem(r(0), "LoadMem", 2, "I16"), Bin(r(1), "Add", 0, 1, "I64"), Bin(r(2), "Mul", r(1), 1, "I64"),
        Bin(r(3), "Add", r(0), r(2), "I64"), Bin(r(4), "And", r(0), 3, "I64"), StoreMem("StoreMem", 2, r(3), "I16")>>
Entry == <<LoadReg(0, "Rax", "I64"), LoadReg(1, "Rcx", "I64"), LoadReg(2, "Rbx", "I64"), Const(3, 1, "I64")>>
Graph(to) ==
  [entry |-> 1, blocks |-> [i \in DOMAIN to |->
     [id |-> i, stmts |-> (IF i = 1 THEN Entry ELSE << >>) \o Body(i) \o Term(i, to[i])]]]

Ascending(n) == {<<a>> : a \in 1 .. n} \union {p \in (1 .. n) \X (1 .. n) : p[1] < p[2]}
Graphs3 == {<<a, b, c>> : a \in Ascending(3), b \in Ascending(3) \union {<< >>}, c \in Ascending(3) \union {<< >>}}
Graphs4 == {<<a, b, c, << >> >> : a \in {<<1, 2>>, <<2, 3>>}, b \in Ascending(4), c \in Ascending(4)}
Larger == {<< <<0, 2, 3>>, <<4>>, <<0, 5, 4>>, <<2, 5>>, <<0, 3, 6>>, << >> >>,
           << <<2>>, <<3>>, <<0, 3, 4>>, <<0, 2, 5>>, <<0, 4, 5>> >>}
\* Only blocks the entry reaches go back to it.
EntryClosed(f) == \A b \in BlockIds(f) \ Reached(f) : f.entry \notin Members(Successors(f, b))
MCFunctions ==
  {[function |-> f, start |-> State(2, 3, 0, 80, 2, <<0, 0>>, <<0, 0>>)] :
     f \in {h \in {Graph(q) : q \in Graphs3 \union Graphs4 \union Larger} : EntryClosed(h)}}

-----------------------------------------------------------------------------
\* ADD on the eight value registers, and an immediate operation on RSP.
RingSessions == {[Alone(<<AddR, Jcc(0, 0)>>) EXCEPT !.regs = Ring]}
StackImmSessions == {Alone(<<I(Wide, "1", \h83, \hC4, 8), MovC, PushC>>)}

=============================================================================
