-------------------------------- MODULE Session --------------------------------
(***************************************************************************)
(* A guest session of the Rust translator: the run loop of prisma-session, *)
(* which fetches a window of the image at the current PC, fuses its        *)
(* instructions into one block, optimises, lowers and executes the block,  *)
(* services a SYSCALL and resumes where the block's exit says.             *)
(*                                                                         *)
(* The image is a program: a sequence of instructions laid out from        *)
(* Origin.  The instruction set is a parameter: what decode_one_at makes   *)
(* of an instruction, and what the architecture says of it.  cpu is the    *)
(* architecture's own state: it executes every instruction the translator  *)
(* fuses, and is what the translation is compared with.                    *)
(***************************************************************************)
EXTENDS ControlFlow

CONSTANTS
  Decoding(_, _),   \* decode_one_at (module Decode)
  Meaning(_, _, _), \* an instruction at an address in a state, and
  ByteLength(_),    \* the bytes it takes (module X86)
  Unpublished(_),   \* the flags of an instruction that the translator does not
                    \* leave in RFLAGS, and that are not compared
  Sessions,   \* the guest programs, each with its FETCH_WINDOW, MAX_INSNS and
              \* VALUE_REG_COUNT
  Fragments,  \* blocks of IR given to the pipeline directly
  FunctionsIR, \* functions of several blocks given to the function pipeline,
              \* each with the guest state it is run in
  Fuel,       \* the number of blocks a function is run for
  Probes,     \* the guest states a session starts in
  Origin,     \* image.base, which is also entry_pc
  MaxSteps,   \* max_steps of run
  SysResults  \* what the dispatched system calls return

ASSUME SessionAssumption ==
  /\ Origin \in Nat /\ MaxSteps \in Nat
  /\ \A s \in Sessions : s.window \in Nat \ {0} /\ s.cap \in Nat \ {0} /\ s.regs \in Nat \ {0}

VARIABLES
  prog, window, cap, regs,  \* what a session is given
  pc, steps,          \* the run loop's locals
  g,                  \* the CPU state frame when the block was entered
  at, count, base,    \* optimize_fused_block: pc, instruction_count, base
  stmts, ended, succ, \* the block, ended_at_terminator and successors
  stage, pass,        \* what the loop does next, and the pass to run
  cpu,                \* the architecture after the instructions fused so far
  func,               \* the function the function pipeline works on
  direct              \* no dynamic transfer or system call has been taken

vars == <<prog, window, cap, regs, pc, steps, g, at, count, base, stmts, ended, succ, stage, pass, cpu, func, direct>>
inputs == <<prog, window, cap, regs, func>>
block == <<at, count, base, stmts, ended, succ>>

-----------------------------------------------------------------------------
\* The image.

RECURSIVE AddressOf(_, _)
AddressOf(p, j) == IF j = 1 THEN Origin ELSE AddressOf(p, j - 1) + ByteLength(p[j - 1])
ImageEnd(p) == AddressOf(p, Len(p) + 1)
Starts(p) == {AddressOf(p, j) : j \in DOMAIN p}
InstructionAt(p, a) == p[CHOOSE j \in DOMAIN p : AddressOf(p, j) = a]

\* fetch_window: the number of bytes fetched at a, 0 outside the image.
Fetched(p, a, size) ==
  IF a < Origin \/ a >= ImageEnd(p) THEN 0
  ELSE IF a + size < ImageEnd(p) THEN size ELSE ImageEnd(p) - a

\* decode_one_at on the bytes up to limit.  An instruction that does not fit
\* in them is rejected, by the decoder or by the check of its size.
DecodeWithin(p, a, limit) ==
  LET d == Decoding(InstructionAt(p, a), a)
  IN  IF a \in Starts(p) /\ d.ok /\ a + d.used <= limit THEN d ELSE [ok |-> FALSE]

Terminates(d) == \E i \in DOMAIN d.stmts : IsTerminator(d.stmts[i])
SuccessorsOf(d) ==
  LET i == CHOOSE j \in DOMAIN d.stmts :
             IsTerminator(d.stmts[j]) /\ \A k \in 1 .. j - 1 : ~IsTerminator(d.stmts[k])
  IN  StaticSuccessors(d.stmts[i])

\* decode_block_successors.
RECURSIVE BlockSuccessorsFrom(_, _, _, _, _)
BlockSuccessorsFrom(p, a, limit, n, most) ==
  LET d == DecodeWithin(p, a, limit)
  IN  IF a >= limit \/ n = most \/ ~d.ok THEN IF n > 0 THEN <<a>> ELSE << >>
      ELSE IF Terminates(d) THEN SuccessorsOf(d)
      ELSE BlockSuccessorsFrom(p, a + d.used, limit, n + 1, most)
BlockSuccessors(p, a, size, most) == BlockSuccessorsFrom(p, a, a + Fetched(p, a, size), 0, most)

\* reachable_blocks: the worklist is a stack, and a block is visited once.
RECURSIVE ReachFrom(_, _, _, _, _)
ReachFrom(p, size, most, queue, seen) ==
  IF queue = << >> THEN {a \in seen : Fetched(p, a, size) > 0}
  ELSE LET a == queue[Len(queue)]
           rest == SubSeq(queue, 1, Len(queue) - 1)
           next == IF Fetched(p, a, size) = 0 THEN << >> ELSE BlockSuccessors(p, a, size, most)
       IN  IF a \in seen THEN ReachFrom(p, size, most, rest, seen)
           ELSE ReachFrom(p, size, most, rest \o next, seen \union {a})
ReachableBlocks(p, size, most) == ReachFrom(p, size, most, <<Origin>>, {})

-----------------------------------------------------------------------------
\* A block about to be fused at a.
EmptyBlock(a) ==
  /\ at' = a /\ count' = 0 /\ base' = 0 /\ stmts' = << >> /\ ended' = FALSE /\ succ' = << >>

Start(p, w, c, n, h) ==
  /\ prog = p /\ window = w /\ cap = c /\ regs = n /\ g = h
  /\ pc = Origin /\ steps = 0
  /\ at = Origin /\ count = 0 /\ base = 0 /\ ended = FALSE /\ succ = << >>
  /\ pass = 1 /\ direct = TRUE

\* What the code of a fragment or a function given directly does.
Given(r) == cpu = [g |-> r.g, out |-> r.out, pc |-> Origin, open |-> 0]

\* A session of a program, or the pipeline applied to a fragment.
InitProgram ==
  \E s \in Sessions, h \in Probes :
    /\ Start(s.image, s.window, s.cap, s.regs, h)
    /\ stmts = << >> /\ stage = "fetch" /\ func = << >>
    /\ cpu = [g |-> h, out |-> Fallthrough, pc |-> Origin, open |-> 0]

InitFragment ==
  \E f \in Fragments, h \in Probes :
    /\ Start(<< >>, 1, 1, Endless, h)
    /\ stmts = f /\ stage = "optimize" /\ func = << >>
    /\ Given(Run(f, h, Endless))

InitFunction ==
  \E f \in FunctionsIR :
    /\ Start(<< >>, 1, 1, Endless, f.start)
    /\ stmts = << >> /\ stage = "function" /\ func = f.function
    /\ Given(RunFunction(f.function, f.start, Fuel))

Init == InitProgram \/ InitFragment \/ InitFunction

\* translate_at: fetch_window, or UnmappedPc.
Fetch ==
  /\ stage = "fetch" /\ steps < MaxSteps
  /\ stage' = IF Fetched(prog, pc, window) = 0 THEN "UnmappedPc" ELSE "fuse"
  /\ EmptyBlock(pc)
  /\ UNCHANGED <<inputs, pass, pc, steps, g, cpu, direct>>

StepLimit ==
  /\ stage = "fetch" /\ steps = MaxSteps
  /\ stage' = "StepLimit"
  /\ UNCHANGED <<inputs, pass, pc, steps, g, block, cpu, direct>>

Limit == pc + Fetched(prog, pc, window)
Fusing == stage = "fuse" /\ at < Limit /\ count < cap /\ ~ended

\* The highest reference of the renumbered statements, or the base itself.
LocalMax(ss, b) ==
  LET up(m, s) == LET r == RefsOf(s) IN CHOOSE x \in r \union {m} : \A y \in r \union {m} : y <= x
  IN  Fold(up, b, ss)

\* The architecture executes i at a unless an earlier instruction left the block.
\* An instruction that traps is not passed.  open are the flags that are not
\* compared from here on: undefined, or not published.
Executes(i, a) ==
  IF cpu.out # Fallthrough THEN cpu
  ELSE LET x == Meaning(i, a, cpu.g)
           to == CASE x.out.kind = "Branch" -> x.out.pc
                   [] x.out.kind = "Trap" -> a
                   [] OTHER -> a + ByteLength(i)
       IN  [g |-> x.g, out |-> x.out, pc |-> to,
            open |-> BitOr(Clear(cpu.open, x.def), BitOr(x.undef, Unpublished(i)))]

\* One round of the loop of optimize_fused_block.
FuseOne ==
  LET d == DecodeWithin(prog, at, Limit)
      shift == [r \in Nat |-> r + base]
      shifted == [i \in DOMAIN d.stmts |-> MapRefs(d.stmts[i], shift)]
  IN  /\ Fusing /\ d.ok
      /\ stmts' = stmts \o shifted
      /\ count' = count + 1
      /\ at' = at + d.used
      /\ base' = LocalMax(shifted, base) + 1
      /\ ended' = Terminates(d)
      /\ succ' = IF Terminates(d) THEN SuccessorsOf(d) ELSE succ
      /\ cpu' = Executes(InstructionAt(prog, at), at)
      /\ UNCHANGED <<inputs, pass, pc, steps, g, stage, direct>>

\* The first instruction does not decode: translate_at returns None.
Undecodable ==
  /\ Fusing /\ count = 0 /\ ~DecodeWithin(prog, at, Limit).ok
  /\ stage' = "UnmappedPc"
  /\ UNCHANGED <<inputs, pass, pc, steps, g, block, cpu, direct>>

\* The loop ends: at a terminator, at the end of the window, at the cap, or
\* before a later instruction that does not decode.
EndBlock ==
  /\ stage = "fuse" /\ count > 0
  /\ ~(Fusing /\ DecodeWithin(prog, at, Limit).ok)
  /\ succ' = IF ended THEN succ ELSE <<at>>
  /\ stage' = "optimize" /\ pass' = 1
  /\ UNCHANGED <<inputs, pc, steps, g, at, count, base, stmts, ended, cpu, direct>>

\* Pipeline::run: the passes in order.
OptimizeStep ==
  /\ stage = "optimize" /\ pass <= Len(DefaultPipeline)
  /\ stmts' = RunPass(DefaultPipeline[pass], stmts)
  /\ pass' = pass + 1
  /\ UNCHANGED <<inputs, pc, steps, g, at, count, base, ended, succ, stage, cpu, direct>>

\* Pipeline::run of default_function_pipeline.
FunctionStep ==
  /\ stage = "function"
  /\ func' = RunFunctionPass(FunctionPipeline[pass], func)
  /\ pass' = pass + 1
  /\ stage' = IF pass = Len(FunctionPipeline) THEN "optimised" ELSE "function"
  /\ UNCHANGED <<prog, window, cap, regs, pc, steps, g, block, cpu, direct>>

\* lower_function, or None.
Lower ==
  /\ stage = "optimize" /\ pass > Len(DefaultPipeline)
  /\ stage' = IF Lowers(stmts) THEN IF prog = << >> THEN "lowered" ELSE "execute" ELSE "UnmappedPc"
  /\ UNCHANGED <<inputs, pass, pc, steps, g, block, cpu, direct>>

\* Variant: a block that falls through resumes at the end of its window.
ResumeAtLimit(r) ==
  CASE r.out.kind = "Branch" -> <<"fetch", r.out.pc>>
    [] r.out.kind \in {"Fallthrough", "Trap"} /\ ~ended -> <<"fetch", Limit>>
    [] OTHER -> <<"NonSyscallExit", pc>>

\* execute_block and the match on exit_reason.  A trap leaves EXIT_NORMAL.
Resume(r) ==
  CASE r.out.kind = "Branch" -> <<"fetch", r.out.pc>>
    [] r.out.kind \in {"Fallthrough", "Trap"} /\ ~ended -> <<"fetch", at>>
    [] OTHER -> <<"NonSyscallExit", pc>>

Execute ==
  /\ stage = "execute"
  /\ \E r \in {Run(stmts, g, regs)} :
       /\ r.out.kind # "Syscall"
       /\ g' = r.g
       /\ stage' = Resume(r)[1] /\ pc' = Resume(r)[2]
  /\ steps' = steps + 1
  /\ cpu' = [cpu EXCEPT !.out = IF @.kind = "Trap" THEN @ ELSE Fallthrough]
  /\ direct' = (direct /\ (ended => succ # << >>))
  /\ UNCHANGED <<inputs, pass, block>>

\* EXIT_SYSCALL: dispatch writes its result to RAX; exit stops the session.
ServiceSyscall ==
  /\ stage = "execute"
  /\ \E r \in {Run(stmts, g, regs)}, v \in SysResults, exit \in BOOLEAN :
       /\ r.out.kind = "Syscall"
       /\ g' = StoreGpr(r.g, "Rax", v, "I64")
       /\ cpu' = [cpu EXCEPT !.g = StoreGpr(@, "Rax", v, "I64"), !.out = Fallthrough]
       /\ stage' = IF exit THEN "Exited" ELSE "fetch"
       /\ pc' = IF exit THEN pc ELSE at
  /\ steps' = steps + 1
  /\ direct' = FALSE
  /\ UNCHANGED <<inputs, pass, block>>

Stopped == stage \in {"UnmappedPc", "StepLimit", "NonSyscallExit", "Exited", "lowered", "optimised"}
Over == Stopped /\ UNCHANGED vars

Next ==
  \/ Fetch \/ StepLimit \/ FuseOne \/ Undecodable \/ EndBlock \/ OptimizeStep \/ Lower \/ FunctionStep
  \/ Execute \/ ServiceSyscall \/ Over

Spec == Init /\ [][Next]_vars

-----------------------------------------------------------------------------
InBlock == stage \in {"fuse", "optimize", "execute", "lowered"}

\* What is compared: registers, memory, the arithmetic flags and both copies of
\* the carry, apart from the flags that are open.
Observed(h, open) ==
  <<h.gpr, h.xmm, h.mem, Clear(BitAnd(h.rflags, Arithmetic), open), IF Bit(open, 0) = 1 THEN 0 ELSE h.cf>>
SameMachine(h, k, open) == Observed(h, open) = Observed(k, open)
SameResult(r, s, open) == SameMachine(r.g, s.g, open) /\ r.out = s.out

\* From the first instruction fused to the last pass, the block run in the
\* CPU state of its entry leaves the state, and takes the exit, that the
\* architecture gives the instructions it was fused from (optimize_fused_block,
\* the passes and the lowering of each operation), but for the flags that are
\* undefined or that Unpublished names.  Every block lowers: no reference is
\* defined twice, and no pass leaves one that is not defined.
BlockMeansProgram ==
  InBlock =>
    /\ \A i, j \in DOMAIN stmts : i # j => Defines(stmts[i]) \intersect Defines(stmts[j]) = {}
    /\ Lowers(stmts)
    /\ SameResult(Run(stmts, g, regs), cpu, cpu.open)

\* The reference interpreter agrees with the lowered code on every block it
\* supports, at every stage (interp.rs is the oracle of the translator's tests).
OracleAgrees ==
  LET agrees(o) == o.out.kind \notin {"Unsupported", "DynamicTransfer"} => SameResult(o, Run(stmts, g, regs), 0)
  IN  InBlock => agrees(InterpretBlock(stmts, g))

\* The run loop and the fusion only ever stand at the start of an instruction
\* or outside the image: lengths, and the targets derived from them, are those
\* of the architecture.
AtInstructionStart ==
  /\ stage = "fuse" => at \in Starts(prog) \union {ImageEnd(prog)}
  /\ stage = "fetch" /\ direct /\ Fetched(prog, pc, window) > 0 => pc \in Starts(prog)

\* A block reached by direct transfers only is one reachable_blocks discovers
\* from the entry by decoding, whatever the optimiser made of the branches.
DiscoveryCovers ==
  stage = "fuse" /\ count = 0 /\ direct => pc \in ReachableBlocks(prog, window, cap)

\* Between two blocks the frame and the PC the loop resumes at are those of the
\* architecture: cutting the program at the window, at the cap, at a branch or
\* at a system call is invisible (the match on exit_reason in run).  After a trap
\* the architecture is at the instruction that trapped; the loop takes a
\* conditional trap for a normal exit and is not followed any further.
LoopFollowsProgram ==
  stage = "fetch" /\ cpu.out.kind # "Trap" => SameMachine(g, cpu.g, cpu.open) /\ pc = cpu.pc

\* dominators and natural_loops say what the paths of the function say: the
\* blocks with a dominator are those the entry reaches, the dominator of a block
\* is the last of the blocks on every path to it, and the body of a loop is what
\* reaches a back edge without passing the header (cfg.rs, for any graph of
\* blocks, with unreachable blocks and irreducible loops).
ControlFlowExact ==
  stage = "function" /\ pass = 1 =>
    LET dominates(idom) ==
          /\ DOMAIN idom = Reached(func)
          /\ \A b \in DOMAIN idom : IF b = func.entry THEN idom[b] = b ELSE IsImmediate(func, idom[b], b)
        spans(loop) == Members(loop.body) =
          {loop.header} \union {n \in Reached(func) : ReachesWithout(func, n, loop.header)}
        complete(loops) ==
          /\ {l.header : l \in loops} = {h \in Reached(func) : Tails(func, h) # {}}
          /\ \A l \in loops : spans(l)
    IN  dominates(Dominators(func)) /\ complete(Members(NaturalLoops(func)))

\* Sharing expressions between blocks and moving them out of loops changes
\* neither what the function does, however often its loops run, nor whether it
\* lowers: no block reads a value before the block that now computes it has
\* been passed (global_cse.rs, licm.rs).  Lowering goes by the layout, so a
\* block must come after its dominator there.
FunctionPreserved ==
  stage \in {"function", "optimised"} =>
    LET index(b) == CHOOSE i \in DOMAIN func.blocks : func.blocks[i].id = b
        laidOut(idom) == DOMAIN idom = BlockIds(func) /\ \A b \in DOMAIN idom : index(idom[b]) <= index(b)
    IN  /\ SameResult(RunFunction(func, g, Fuel), cpu, 0)
        /\ laidOut(Dominators(func)) => FunctionLowers(func)
=============================================================================
