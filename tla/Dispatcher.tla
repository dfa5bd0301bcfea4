----------------------------- MODULE Dispatcher -----------------------------
(***************************************************************************)
(* The dispatch loop (core/src/runtime/dispatcher.cpp): look a guest pc    *)
(* up, translate it if needed, execute the block, follow direct exits      *)
(* without leaving the inner loop, and patch them into branches.           *)
(*                                                                         *)
(* The host processor is modelled too: entered at a block, it runs it and  *)
(* then follows the block's branch word, whatever it holds.  The           *)
(* dispatcher only believes it knows which blocks ran; the properties say  *)
(* that it is right.                                                       *)
(***************************************************************************)
EXTENDS Translator

CONSTANTS
  kHaltSentinel,  \* the pc that always stops the dispatcher
  MaxSteps        \* bound on the max_steps argument of run()

\* A translated block, as the dispatcher holds it.
Ref == [pc : PC, entry : 1 .. PoolBlocks]

ASSUME DispatcherAssumption ==
  /\ kHaltSentinel \in PC
  /\ MaxSteps \in Nat
  /\ None \notin Ref

VARIABLES
  memory,    \* guest pc -> the code the reader returns there, or NoBytes
  tr,        \* the translator
  halt_pcs,
  ctl,       \* where run() is
  exit,      \* DispatchExit of the last run
  pc, step, max_steps,
  block,     \* the TranslatedBlock about to run: its guest pc and entry
  patched,   \* patched_target: as block, or None
  host,      \* the entry the host processor is executing
  ran        \* blocks the host processor has executed in this run; stops
             \* counting one above the budget

vars == <<memory, tr, halt_pcs, ctl, exit, pc, step, max_steps, block,
          patched, host, ran>>

Ctl == {"idle", "loop", "enter", "exec", "thread"}

TypeOK ==
  /\ memory \in [PC -> Code \cup {NoBytes}]
  /\ tr \in TranslatorState
  /\ halt_pcs \subseteq PC
  /\ ctl \in Ctl
  /\ exit \in {None, "Halted", "StepLimit", "FetchFailed", "TranslationFailed"}
  /\ pc \in PC
  /\ step \in Nat /\ ran \in Nat
  /\ max_steps \in 0 .. MaxSteps
  /\ block \in Ref \cup {None}
  /\ patched \in Ref \cup {None}
  /\ host \in 0 .. PoolBlocks

Init ==
  /\ memory \in [PC -> Code \cup {NoBytes}]
  /\ memory[kHaltSentinel] = NoBytes  \* nothing is mapped at address 0
  /\ tr = Empty
  /\ halt_pcs = {kHaltSentinel}
  /\ ctl = "idle" /\ exit = None
  /\ pc = kHaltSentinel /\ step = 0 /\ max_steps = 0
  /\ block = None /\ patched = None /\ host = 0 /\ ran = 0

\* run() returns: its locals are gone.
Finish(why) ==
  /\ ctl' = "idle" /\ exit' = why
  /\ pc' = kHaltSentinel /\ step' = 0 /\ ran' = 0 /\ max_steps' = 0
  /\ block' = None /\ patched' = None /\ host' = 0

CodeOf(b) == tr.arena[b.entry].code

-----------------------------------------------------------------------------
(* Between runs.                                                           *)

add_halt_pc(p) ==
  /\ ctl = "idle"
  /\ halt_pcs' = halt_pcs \cup {p}
  /\ UNCHANGED <<memory, tr, ctl, exit, pc, step, max_steps, block, patched,
                 host, ran>>

\* The owner of guest memory maps, unmaps or rewrites code.
Remap(p, c) ==
  /\ ctl = "idle"
  /\ memory' = [memory EXCEPT ![p] = c]
  /\ UNCHANGED <<tr, halt_pcs, ctl, exit, pc, step, max_steps, block, patched,
                 host, ran>>

Run(entry_pc, limit) ==
  /\ ctl = "idle"
  /\ ctl' = "loop" /\ exit' = None
  /\ pc' = entry_pc /\ max_steps' = limit
  /\ step' = 0 /\ ran' = 0
  /\ UNCHANGED <<memory, tr, halt_pcs, block, patched, host>>

-----------------------------------------------------------------------------
(* The outer loop.                                                         *)

\* while (step < max_steps) fails: the two exits at the bottom of run().
LoopEnd ==
  /\ ctl = "loop" /\ step >= max_steps
  /\ Finish(IF pc \in halt_pcs THEN "Halted" ELSE "StepLimit")
  /\ UNCHANGED <<memory, tr, halt_pcs>>

LoopHalt ==
  /\ ctl = "loop" /\ step < max_steps /\ pc \in halt_pcs
  /\ Finish("Halted")
  /\ UNCHANGED <<memory, tr, halt_pcs>>

LoopFetchFailed ==
  /\ ctl = "loop" /\ step < max_steps /\ pc \notin halt_pcs
  /\ memory[pc] = NoBytes
  /\ Finish("FetchFailed")
  /\ UNCHANGED <<memory, tr, halt_pcs>>

\* Enter the inner loop with the block that T has for pc, or give up.
Install(T) ==
  /\ tr' = T
  /\ IF lookup_cached(T, pc, memory[pc])
     THEN /\ block' = [pc |-> pc, entry |-> T.by_addr[pc].entry]
          /\ ctl' = "enter"
          /\ patched' = None
          /\ UNCHANGED <<exit, pc, step, max_steps, host, ran>>
     ELSE Finish("TranslationFailed")

LoopTranslate ==
  /\ ctl = "loop" /\ step < max_steps /\ pc \notin halt_pcs
  /\ memory[pc] # NoBytes
  /\ Install(translate(tr, pc, memory[pc]))
  /\ UNCHANGED <<memory, halt_pcs>>

-----------------------------------------------------------------------------
(* The inner loop.                                                         *)

\* Variant: a patch is kept with one step left.
keep_patch_over_budget(t) ==
  t \notin halt_pcs /\ memory[t] # NoBytes /\ lookup_cached(tr, t, memory[t])

\* Variant: the target's bytes are not compared again.
keep_patch_unverified(t) == max_steps - step >= 2 /\ t \notin halt_pcs

\* A patched branch runs two blocks in one call, so it is kept only if both
\* fit the step budget, the target does not halt, and the target's bytes
\* are still those that were translated.
keep_patch(t) ==
  /\ max_steps - step >= 2
  /\ t \notin halt_pcs
  /\ memory[t] # NoBytes
  /\ lookup_cached(tr, t, memory[t])

\* Decide about an active patch, then call the block.
Enter ==
  /\ ctl = "enter"
  /\ LET t == CodeOf(block).target
         active == active_direct_patch_target(tr, block.pc)
         keep == active /\ keep_patch(t)
     IN  /\ patched' = IF keep THEN [pc |-> t, entry |-> tr.by_addr[t].entry] ELSE None
         /\ tr' = IF active /\ ~ keep THEN unpatch_direct_exit(tr, block.pc) ELSE tr
  /\ ctl' = "exec" /\ host' = block.entry
  /\ UNCHANGED <<memory, halt_pcs, exit, pc, step, max_steps, block, ran>>

\* Where the guest may go after a block.
Successors(c) ==
  CASE c.exit_kind \in {"JumpRel", "CallRel"} -> {c.target}
    [] c.exit_kind \in {"CondJumpRel", "Rep"} -> {c.target, c.fallthrough}
    [] c.exit_kind = "Indirect"               -> PC

\* The guest stores of a block: none, or one that changes code somewhere.
Stores(c) ==
  {memory} \cup
    (IF body_may_write_guest_memory(c)
     THEN {[memory EXCEPT ![p] = d] :
             p \in {q \in PC : memory[q] # NoBytes}, d \in Code}
     ELSE {})

Count == ran' = IF ran > max_steps THEN ran ELSE ran + 1

\* The host processor runs the block at host and takes its branch word.
HostBranch ==
  /\ ctl = "exec" /\ tr.arena[host].branch # 0
  /\ memory' \in Stores(tr.arena[host].code)
  /\ host' = tr.arena[host].branch
  /\ Count
  /\ UNCHANGED <<tr, halt_pcs, ctl, exit, pc, step, max_steps, block, patched>>

\* The block returns next_pc to the dispatcher, which accounts the blocks it
\* believes have run.
HostReturn ==
  /\ ctl = "exec" /\ tr.arena[host].branch = 0
  /\ memory' \in Stores(tr.arena[host].code)
  /\ pc' \in Successors(tr.arena[host].code)
  /\ Count
  /\ step' = step + (IF patched = None THEN 1 ELSE 2)
  /\ ctl' = "thread"
  /\ UNCHANGED <<tr, halt_pcs, exit, max_steps, block, patched, host>>

\* threading_block: the last block the dispatcher believes has run.
threading == IF patched = None THEN block ELSE patched

direct_thread_candidate(c, next_pc) ==
  \/ c.exit_kind \in {"JumpRel", "CallRel"} /\ next_pc = c.target
  \/ c.exit_kind \in {"CondJumpRel", "Rep"}
       /\ next_pc \in {c.target, c.fallthrough}

CanContinue ==
  /\ step < max_steps
  /\ direct_thread_candidate(CodeOf(threading), pc)
  /\ pc \notin halt_pcs

ThreadBreak ==
  /\ ctl = "thread" /\ ~ CanContinue
  /\ ctl' = "loop"
  /\ block' = None /\ patched' = None /\ host' = 0
  /\ UNCHANGED <<memory, tr, halt_pcs, exit, pc, step, max_steps, ran>>

ThreadFetchFailed ==
  /\ ctl = "thread" /\ CanContinue
  /\ memory[pc] = NoBytes
  /\ Finish("FetchFailed")
  /\ UNCHANGED <<memory, tr, halt_pcs>>

\* The successor is looked up or translated; on success the exit that led
\* to it is patched when its target is the successor.
ThreadNext ==
  /\ ctl = "thread" /\ CanContinue
  /\ memory[pc] # NoBytes
  /\ LET T == translate(tr, pc, memory[pc])
         c == CodeOf(threading)
         wants == /\ lookup_cached(T, pc, memory[pc])
                  /\ can_use_patchable_tail(c) /\ auto_patch_safe(c)
                  /\ c.target = pc
     IN  \/ wants /\ \E reaches \in BOOLEAN :
               Install(patch_direct_exit(T, threading.pc, pc, reaches))
         \/ ~ wants /\ Install(T)
  /\ UNCHANGED <<memory, halt_pcs>>

-----------------------------------------------------------------------------
Dispatch ==
  \/ LoopEnd \/ LoopHalt \/ LoopFetchFailed \/ LoopTranslate
  \/ Enter \/ HostBranch \/ HostReturn
  \/ ThreadBreak \/ ThreadFetchFailed \/ ThreadNext

Next ==
  \/ \E p \in PC : add_halt_pc(p)
  \/ \E p \in PC \ {kHaltSentinel}, c \in Code \cup {NoBytes} : Remap(p, c)
  \/ \E p \in PC, n \in 0 .. MaxSteps : Run(p, n)
  \/ Dispatch

Spec == Init /\ [][Next]_vars

\* run() is a loop on one thread: it never pauses of its own accord.
FairSpec == Spec /\ WF_vars(Dispatch)

-----------------------------------------------------------------------------
(* Properties.                                                             *)

\* Branch patching keeps the block table, the reverse index and the branch
\* words in agreement (translator.cpp patch/unpatch/translate).
PatchingConsistent == PatchInv(tr)

\* The host never executes a translation of bytes that have changed since,
\* even when it enters the block through a patched branch.
FreshExecution ==
  ctl = "exec" => memory[tr.arena[host].pc] = tr.arena[host].code

\* No block that starts at a halt pc is executed, patched or not.
HaltRespected == ctl = "exec" => tr.arena[host].pc \notin halt_pcs

\* "Never runs more than max_steps blocks" (dispatcher.hpp), counted by
\* what the host executed and not by what the dispatcher accounted.
StepBudget == /\ ran <= max_steps
              /\ ctl = "exec" => ran < max_steps

\* The dispatcher accounts exactly the blocks the host executed.
AccountingExact == ctl # "exec" => step = ran

\* Only the block the dispatcher called branches on within the JIT buffer,
\* and only to the block it expects; the block the guest returns from is the
\* one the dispatcher will thread from.
ReturnsFromThreadingBlock ==
  /\ ctl = "thread" => host = threading.entry
  /\ ctl = "exec" /\ tr.arena[host].branch # 0 =>
       /\ host = block.entry /\ patched # None
       /\ tr.arena[host].branch = patched.entry

\* run() always returns.
RunReturns == ctl = "loop" ~> ctl = "idle"

-----------------------------------------------------------------------------
(* The inductive invariant behind the safety properties.                   *)

\* b is the current translation of its pc.
Current(b) == Translated(tr, b.pc) /\ tr.by_addr[b.pc].entry = b.entry

\* b may run: it is current, its bytes are unchanged and it does not halt.
Runnable(b) ==
  /\ Current(b)
  /\ memory[b.pc] = tr.by_addr[b.pc].content_hash
  /\ b.pc \notin halt_pcs

ExecUnpatched ==
  /\ patched = None
  /\ host = block.entry /\ ran = step
  /\ ~ direct_exit_is_patched(tr, block.pc)

ExecPatched ==
  /\ patched \in Ref /\ Runnable(patched)
  /\ max_steps - step >= 2
  /\ direct_exit_is_patched(tr, block.pc)
  /\ TargetOf(tr, block.pc) = patched.pc
  /\ \/ host = block.entry /\ ran = step
     \/ host = patched.entry /\ ran = step + 1

\* The dispatcher is consistent at every point of run(): what it is about
\* to call, and what a kept patch will jump to, may run and fits the budget.
DispatcherInv ==
  /\ TypeOK
  /\ PatchInv(tr)
  /\ step <= max_steps
  /\ ctl # "exec" => ran = step
  /\ ctl \in {"enter", "exec"} =>
       block \in Ref /\ Runnable(block) /\ step < max_steps
  /\ ctl = "exec" => ExecUnpatched \/ ExecPatched
  /\ ctl = "thread" =>
       /\ block \in Ref
       /\ threading.entry \in DOMAIN tr.arena
       /\ host = threading.entry

=============================================================================
