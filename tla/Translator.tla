----------------------------- MODULE Translator -----------------------------
(***************************************************************************)
(* The translator's in-process block table and its direct-branch patching  *)
(* (core/src/translator/translator.cpp): guest pc -> Record, the reverse   *)
(* index direct_patch_incoming_, and the branch word at the tail of every  *)
(* emitted block.                                                          *)
(*                                                                         *)
(* Every member function is an operator from a translator state T to the   *)
(* state it leaves, because the dispatcher calls several of them within    *)
(* one step.  T has three fields:                                          *)
(*   by_addr  : guest pc -> record of the current translation, or None     *)
(*   incoming : guest pc -> guest pcs whose branch is patched to it        *)
(*   arena    : the blocks the JIT pool has handed out, in order; entries  *)
(*              are never reused.  "branch" is the patchable word: 0 is    *)
(*              the block's own fallback (return to the dispatcher), n > 0 *)
(*              a branch to the entry of arena[n].                         *)
(*                                                                         *)
(* A stretch of guest bytes is represented by what the decoder makes of    *)
(* it, so equal content hashes are equal codes: FNV-1a collisions are not  *)
(* modelled.                                                               *)
(***************************************************************************)
EXTENDS Integers, Sequences, FiniteSets

CONSTANTS
  PC,         \* guest program counters
  Code,       \* guest byte contents, as decoded: a subset of Shape
  NoBytes,    \* what the memory reader answers for an unmapped pc
  None,       \* no record
  PoolBlocks  \* blocks the JIT pool can hold before acquire() throws

\* BlockExitKind; "Indirect" stands for Return, JumpReg, CallReg,
\* RetAdjusted and Syscall, "Rep" for RepStos and RepMovs.
ExitKind == {"JumpRel", "CallRel", "CondJumpRel", "Rep", "Indirect"}

Shape == [ok : BOOLEAN, exit_kind : ExitKind, target : PC,
          fallthrough : PC, stores : BOOLEAN]

\* An op of the body writes guest memory; a call pushes its return address
\* and a rep instruction stores.
body_may_write_guest_memory(c) ==
  c.stores \/ c.exit_kind \in {"CallRel", "Rep"}

\* DirectPatchSite::available and ::auto_patch_safe.
can_use_patchable_tail(c) == c.exit_kind \in {"JumpRel", "CallRel"}

\* Variant: blocks that store are patched too.
auto_patch_always(c) == TRUE

auto_patch_safe(c) == ~ body_may_write_guest_memory(c)

Record == [entry : 1 .. PoolBlocks, content_hash : Code,
           direct_patch_applied : BOOLEAN]

ASSUME TranslatorAssumption ==
  /\ Code \subseteq Shape
  /\ NoBytes \notin Code
  /\ None \notin Record
  /\ PoolBlocks \in Nat \ {0}

Block == [pc : PC, code : Code, branch : 0 .. PoolBlocks]

TranslatorState == [by_addr : [PC -> Record \cup {None}],
                    incoming : [PC -> SUBSET PC],
                    arena : Seq(Block)]

Empty == [by_addr |-> [p \in PC |-> None],
          incoming |-> [p \in PC |-> {}],
          arena |-> <<>>]

Translated(T, p) == T.by_addr[p] # None

\* The static target of the current translation of p.
TargetOf(T, p) == T.by_addr[p].content_hash.target

direct_exit_is_patched(T, p) ==
  Translated(T, p) /\ T.by_addr[p].direct_patch_applied

\* Whether active_direct_patch_target(s) gives a block.
active_direct_patch_target(T, s) ==
  direct_exit_is_patched(T, s) /\ Translated(T, TargetOf(T, s))

-----------------------------------------------------------------------------
(* Patching and unpatching.                                                *)

\* unpatch_direct_exit for every source in S.  A source without a record,
\* without a patchable tail or not patched is left alone; the branch words
\* of different sources are different, so the order does not matter.
\* PatchFailed is not an outcome: the pool frees no block, the branch word has
\* been patched before, and the fallback is in the same block, so every check
\* of patch_aarch64_branch passes.
unpatch_direct_exits(T, S) ==
  LET live == {s \in S : /\ direct_exit_is_patched(T, s)
                         /\ can_use_patchable_tail(T.by_addr[s].content_hash)}
      words == {T.by_addr[s].entry : s \in live}
  IN  [by_addr |-> [p \in PC |->
                      IF p \in live
                      THEN [T.by_addr[p] EXCEPT !.direct_patch_applied = FALSE]
                      ELSE T.by_addr[p]],
       incoming |-> [t \in PC |->
                      T.incoming[t] \ {s \in live : TargetOf(T, s) = t}],
       arena |-> [e \in DOMAIN T.arena |->
                      IF e \in words
                      THEN [T.arena[e] EXCEPT !.branch = 0]
                      ELSE T.arena[e]]]

unpatch_direct_exit(T, s) == unpatch_direct_exits(T, {s})

unpatch_incoming_to(T, t) == unpatch_direct_exits(T, T.incoming[t])

has_incoming_direct_patch(T, t) == T.incoming[t] # {}

\* The record exists, matches and may be patched: everything that
\* patch_direct_exit asks before it looks at whether it is patched already.
Patchable(T, s, t) ==
  /\ s # t
  /\ Translated(T, s) /\ Translated(T, t)
  /\ can_use_patchable_tail(T.by_addr[s].content_hash)
  /\ auto_patch_safe(T.by_addr[s].content_hash)
  /\ TargetOf(T, s) = t

\* Variant: no look at whether the source is itself a target.
ChainUnchecked(T, s, t) == FALSE

WouldCreateChain(T, s, t) ==
  has_incoming_direct_patch(T, s) \/ T.by_addr[t].direct_patch_applied

\* patch_direct_exit.  reaches is FALSE when the pool refuses to rewrite the
\* branch word (the target is out of an AArch64 B's range).
patch_direct_exit(T, s, t, reaches) ==
  IF ~ Patchable(T, s, t) THEN T
  ELSE IF T.by_addr[s].direct_patch_applied
       THEN [T EXCEPT !.incoming[t] = @ \cup {s}]
  ELSE IF WouldCreateChain(T, s, t) \/ ~ reaches THEN T
  ELSE [by_addr |-> [T.by_addr EXCEPT ![s].direct_patch_applied = TRUE],
        incoming |-> [T.incoming EXCEPT ![t] = @ \cup {s}],
        arena |-> [T.arena EXCEPT ![T.by_addr[s].entry].branch =
                                    T.by_addr[t].entry]]

-----------------------------------------------------------------------------
(* Lookup and translation.                                                 *)

lookup_cached(T, p, c) == Translated(T, p) /\ T.by_addr[p].content_hash = c

\* The bytes at p changed since they were translated: revert the patch that
\* starts at p and those that jump to p, then drop the record.
Retire(T, p) ==
  LET own == unpatch_direct_exit(T, p)
      all == unpatch_incoming_to(own, p)
  IN  [by_addr |-> [all.by_addr EXCEPT ![p] = None],
       incoming |-> all.incoming,
       arena |-> all.arena]

\* decode, optimise, lower and JIT: fails when a byte does not decode or
\* lower, or when the pool is full.
CanEmit(T, c) == c.ok /\ Len(T.arena) < PoolBlocks

Emit(T, p, c) ==
  [by_addr |-> [T.by_addr EXCEPT ![p] =
                  [entry |-> Len(T.arena) + 1, content_hash |-> c,
                   direct_patch_applied |-> FALSE]],
   incoming |-> T.incoming,
   arena |-> Append(T.arena, [pc |-> p, code |-> c, branch |-> 0])]

\* The state translate(p, bytes) leaves; it returned a block exactly when
\* lookup_cached holds of that state.
translate(T, p, c) ==
  IF lookup_cached(T, p, c) THEN T
  ELSE LET dropped == IF Translated(T, p) THEN Retire(T, p) ELSE T
       IN  IF CanEmit(dropped, c) THEN Emit(dropped, p, c) ELSE dropped

-----------------------------------------------------------------------------
(* What keeps direct patching correct, of a translator state T.            *)

\* The record of p describes the block it points to.
RecordsMatchArena(T) ==
  \A p \in PC : Translated(T, p) =>
    /\ T.by_addr[p].entry \in DOMAIN T.arena
    /\ T.arena[T.by_addr[p].entry].pc = p
    /\ T.arena[T.by_addr[p].entry].code = T.by_addr[p].content_hash

\* The reverse index lists exactly the patched sources of each target.
IncomingExact(T) ==
  \A s, t \in PC :
    s \in T.incoming[t] <=>
      direct_exit_is_patched(T, s) /\ TargetOf(T, s) = t

\* A patched source may be patched, and its target is translated.
PatchesAllowed(T) ==
  \A s \in PC : direct_exit_is_patched(T, s) => Patchable(T, s, TargetOf(T, s))

\* A branch word leaves its block only when the block is the current
\* translation of a patched source, and then it goes to the current
\* translation of that source's target.
BranchesCurrent(T) ==
  \A e \in DOMAIN T.arena :
    LET s == T.arena[e].pc
    IN  IF direct_exit_is_patched(T, s) /\ T.by_addr[s].entry = e
        THEN T.arena[e].branch = T.by_addr[TargetOf(T, s)].entry
        ELSE T.arena[e].branch = 0

\* The block a patched branch enters returns to the dispatcher: patched
\* branches never chain.
NoChain(T) ==
  \A s \in PC : direct_exit_is_patched(T, s) =>
    ~ direct_exit_is_patched(T, TargetOf(T, s))

PatchInv(T) ==
  /\ T \in TranslatorState
  /\ RecordsMatchArena(T)
  /\ IncomingExact(T)
  /\ PatchesAllowed(T)
  /\ BranchesCurrent(T)
  /\ NoChain(T)
=============================================================================
