-------------------------- MODULE DispatcherProofs --------------------------
(***************************************************************************)
(* The dispatcher's safety properties, for every guest program, every JIT  *)
(* pool size and every step budget.  The first half shows that every       *)
(* operation of the translator preserves PatchInv; the second that every   *)
(* step of the dispatcher preserves DispatcherInv.                         *)
(***************************************************************************)
EXTENDS Dispatcher, TLAPS

-----------------------------------------------------------------------------
(* The translator.                                                         *)

\* The elements of a sequence.
LEMMA SeqElements ==
  ASSUME NEW S, NEW s \in Seq(S)
  PROVE  Len(s) \in Nat /\ DOMAIN s = 1 .. Len(s) /\ \A i \in 1 .. Len(s) : s[i] \in S
OBVIOUS

\* An empty translator satisfies the invariant.
LEMMA EmptyInv == PatchInv(Empty)
<1>1. Empty \in TranslatorState
  BY DEF Empty, TranslatorState
<1>2. \A p \in PC : ~ Translated(Empty, p) /\ ~ direct_exit_is_patched(Empty, p)
  BY Zenon DEF Empty, Translated, direct_exit_is_patched
<1>3. DOMAIN Empty.arena = {}
  BY DEF Empty
<1>4. \A t \in PC : Empty.incoming[t] = {}
  BY Zenon DEF Empty
<1> QED
  BY <1>1, <1>2, <1>3, <1>4, Zenon DEF PatchInv, RecordsMatchArena, IncomingExact,
     PatchesAllowed, BranchesCurrent, NoChain

\* What a state that satisfies PatchInv consists of.
LEMMA Parts ==
  ASSUME NEW T, T \in TranslatorState
  PROVE  /\ T = [by_addr |-> T.by_addr, incoming |-> T.incoming,
                 arena |-> T.arena]
         /\ T.by_addr \in [PC -> Record \cup {None}]
         /\ T.incoming \in [PC -> SUBSET PC]
         /\ T.arena \in Seq(Block)
         /\ \A p \in PC : Translated(T, p) => T.by_addr[p] \in Record
BY Zenon DEF TranslatorState, Translated

\* Unpatching any set of sources preserves the invariant: the branch words,
\* the flags and the reverse index are reset together.
LEMMA UnpatchInv ==
  ASSUME NEW T, PatchInv(T), NEW S \in SUBSET PC
  PROVE  /\ PatchInv(unpatch_direct_exits(T, S))
         /\ \A p \in PC :
              /\ Translated(unpatch_direct_exits(T, S), p) <=> Translated(T, p)
              /\ Translated(T, p) =>
                   /\ unpatch_direct_exits(T, S).by_addr[p].entry
                        = T.by_addr[p].entry
                   /\ unpatch_direct_exits(T, S).by_addr[p].content_hash
                        = T.by_addr[p].content_hash
              /\ direct_exit_is_patched(unpatch_direct_exits(T, S), p)
                   <=> direct_exit_is_patched(T, p) /\ p \notin S
<1> DEFINE U == unpatch_direct_exits(T, S)
           live == {s \in S : direct_exit_is_patched(T, s)}
           words == {T.by_addr[s].entry : s \in live}
<1>0. T \in TranslatorState /\ RecordsMatchArena(T) /\ IncomingExact(T)
      /\ PatchesAllowed(T) /\ BranchesCurrent(T) /\ NoChain(T)
  BY Zenon DEF PatchInv
<1>1. {s \in S : /\ direct_exit_is_patched(T, s)
                 /\ can_use_patchable_tail(T.by_addr[s].content_hash)} = live
  BY <1>0, Zenon DEF PatchesAllowed, Patchable
<1>2. U = [by_addr |-> [p \in PC |->
                          IF p \in live
                          THEN [T.by_addr[p] EXCEPT !.direct_patch_applied = FALSE]
                          ELSE T.by_addr[p]],
           incoming |-> [t \in PC |->
                          T.incoming[t] \ {s \in live : TargetOf(T, s) = t}],
           arena |-> [e \in DOMAIN T.arena |->
                          IF e \in words
                          THEN [T.arena[e] EXCEPT !.branch = 0]
                          ELSE T.arena[e]]]
  BY <1>1, Zenon DEF unpatch_direct_exits
<1> HIDE DEF U, words
<1>3. \A p \in PC : /\ Translated(U, p) <=> Translated(T, p)
                    /\ Translated(T, p) =>
                         /\ U.by_addr[p] \in Record
                         /\ U.by_addr[p].entry = T.by_addr[p].entry
                         /\ U.by_addr[p].content_hash = T.by_addr[p].content_hash
                         /\ U.by_addr[p].direct_patch_applied
                              = (T.by_addr[p].direct_patch_applied /\ p \notin S)
  <2> SUFFICES ASSUME NEW p \in PC
               PROVE  /\ Translated(U, p) <=> Translated(T, p)
                      /\ Translated(T, p) =>
                         /\ U.by_addr[p] \in Record
                         /\ U.by_addr[p].entry = T.by_addr[p].entry
                         /\ U.by_addr[p].content_hash = T.by_addr[p].content_hash
                         /\ U.by_addr[p].direct_patch_applied
                              = (T.by_addr[p].direct_patch_applied /\ p \notin S)
    BY Zenon
  <2>1. T.by_addr[p] \in Record \cup {None}
    BY <1>0, Parts, Zenon
  <2>2. CASE p \in live
    <3>1. T.by_addr[p] \in Record /\ T.by_addr[p].direct_patch_applied /\ p \in S
      BY <2>1, <2>2, Zenon DEF direct_exit_is_patched, Translated
    <3>2. U.by_addr[p] = [T.by_addr[p] EXCEPT !.direct_patch_applied = FALSE]
      BY <1>2, <2>2, Zenon
    <3> QED BY <3>1, <3>2, TranslatorAssumption, Zenon DEF Translated, Record
  <2>3. CASE p \notin live
    <3>1. U.by_addr[p] = T.by_addr[p]
      BY <1>2, <2>3, Zenon
    <3>2. Translated(T, p) =>
            T.by_addr[p].direct_patch_applied \in BOOLEAN
            /\ ~ (T.by_addr[p].direct_patch_applied /\ p \in S)
      BY <2>1, <2>3, Zenon DEF Record, Translated, direct_exit_is_patched
    <3> QED BY <2>1, <3>1, <3>2, Zenon DEF Translated
  <2> QED BY <2>2, <2>3, Zenon
<1>4. \A p \in PC : /\ direct_exit_is_patched(U, p)
                         <=> direct_exit_is_patched(T, p) /\ p \notin S
                    /\ Translated(T, p) => TargetOf(U, p) = TargetOf(T, p)
  BY <1>3, Zenon DEF direct_exit_is_patched, TargetOf
<1>5. /\ DOMAIN U.arena = DOMAIN T.arena
      /\ \A e \in DOMAIN T.arena :
           /\ U.arena[e].pc = T.arena[e].pc
           /\ U.arena[e].code = T.arena[e].code
           /\ U.arena[e].branch = IF e \in words THEN 0 ELSE T.arena[e].branch
           /\ U.arena[e] \in Block
  <2>1. \A e \in DOMAIN T.arena : T.arena[e] \in Block
    BY <1>0, Parts, SeqElements, Zenon
  <2> QED BY <1>2, <2>1, TranslatorAssumption DEF Block
<1>6. U \in TranslatorState
  <2>1. U.by_addr \in [PC -> Record \cup {None}]
    <3>1. \A p \in PC : U.by_addr[p] \in Record \cup {None}
      BY <1>3, Zenon DEF Translated
    <3> QED BY <1>2, <3>1, Zenon
  <2>2. U.incoming \in [PC -> SUBSET PC]
    BY <1>0, <1>2, Parts
  <2>3. U.arena \in Seq(Block)
    <3>1. Len(T.arena) \in Nat /\ DOMAIN T.arena = 1 .. Len(T.arena)
      BY <1>0, Parts, SeqElements, Zenon
    <3>2. U.arena = [e \in 1 .. Len(T.arena) |-> U.arena[e]]
      BY <1>2, <3>1, Zenon
    <3>3. U.arena \in [1 .. Len(T.arena) -> Block]
      BY <1>5, <3>1, <3>2, Zenon
    <3> QED BY <3>1, <3>3
  <2> QED BY <1>2, <2>1, <2>2, <2>3, Zenon DEF TranslatorState
<1>7. RecordsMatchArena(U)
  BY <1>0, <1>3, <1>5 DEF RecordsMatchArena
<1>8. \A s, t \in PC : s \in U.incoming[t] <=>
        s \in T.incoming[t] /\ ~ (s \in live /\ TargetOf(T, s) = t)
  BY <1>2, Zenon
<1>9. IncomingExact(U)
  <2> SUFFICES ASSUME NEW s \in PC, NEW t \in PC
               PROVE  s \in U.incoming[t] <=>
                        direct_exit_is_patched(U, s) /\ TargetOf(U, s) = t
    BY Zenon DEF IncomingExact
  <2>1. s \in T.incoming[t] <=>
          direct_exit_is_patched(T, s) /\ TargetOf(T, s) = t
    BY <1>0, Zenon DEF IncomingExact
  <2>2. direct_exit_is_patched(T, s) => Translated(T, s)
    BY Zenon DEF direct_exit_is_patched
  <2> QED BY <1>4, <1>8, <2>1, <2>2, Zenon
<1>10. PatchesAllowed(U)
  <2> SUFFICES ASSUME NEW s \in PC, direct_exit_is_patched(U, s)
               PROVE  Patchable(U, s, TargetOf(U, s))
    BY Zenon DEF PatchesAllowed
  <2>1. direct_exit_is_patched(T, s) /\ Translated(T, s)
    BY <1>4, Zenon DEF direct_exit_is_patched
  <2>2. Patchable(T, s, TargetOf(T, s)) /\ TargetOf(U, s) = TargetOf(T, s)
    BY <1>0, <1>4, <2>1, Zenon DEF PatchesAllowed
  <2>3. T.by_addr[s].content_hash.target \in PC
    BY <1>0, <2>1, Parts, TranslatorAssumption DEF Record, Shape
  <2> QED BY <1>3, <2>1, <2>2, <2>3, Zenon DEF Patchable, TargetOf
<1>11. NoChain(U)
  <2> SUFFICES ASSUME NEW s \in PC, direct_exit_is_patched(U, s)
               PROVE  ~ direct_exit_is_patched(U, TargetOf(U, s))
    BY Zenon DEF NoChain
  <2>1. direct_exit_is_patched(T, s) /\ Translated(T, s)
    BY <1>4 DEF direct_exit_is_patched
  <2>2. TargetOf(T, s) \in PC /\ TargetOf(U, s) = TargetOf(T, s)
    BY <1>0, <1>4, <2>1, Parts, TranslatorAssumption DEF Record, Shape, TargetOf
  <2> QED BY <1>0, <1>4, <2>1, <2>2, Zenon DEF NoChain
<1>12. BranchesCurrent(U)
  <2> SUFFICES ASSUME NEW e \in DOMAIN U.arena, NEW s, s = U.arena[e].pc
               PROVE  IF direct_exit_is_patched(U, s) /\ U.by_addr[s].entry = e
                      THEN U.arena[e].branch = U.by_addr[TargetOf(U, s)].entry
                      ELSE U.arena[e].branch = 0
    BY Zenon DEF BranchesCurrent
  <2>0. e \in DOMAIN T.arena /\ s = T.arena[e].pc
    BY <1>5, Zenon
  <2>1. s \in PC
    <3>1. T.arena \in Seq(Block)
      BY <1>0, Parts, Zenon
    <3>2. T.arena[e] \in Block
      BY <2>0, <3>1, SeqElements, Zenon
    <3> QED BY <2>0, <3>2, Zenon DEF Block
  <2>2. IF direct_exit_is_patched(T, s) /\ T.by_addr[s].entry = e
        THEN T.arena[e].branch = T.by_addr[TargetOf(T, s)].entry
        ELSE T.arena[e].branch = 0
    BY <1>0, <2>0, Zenon DEF BranchesCurrent
  <2>3. e \in words <=> s \in live /\ T.by_addr[s].entry = e
    <3>1. ASSUME NEW q \in live, e = T.by_addr[q].entry PROVE q = s
      BY <1>0, <2>0, <3>1, Zenon DEF RecordsMatchArena, direct_exit_is_patched
    <3> QED BY <3>1, Zenon DEF words
  <2>4. CASE direct_exit_is_patched(U, s) /\ U.by_addr[s].entry = e
    <3>1. direct_exit_is_patched(T, s) /\ Translated(T, s) /\ s \notin S
          /\ T.by_addr[s].entry = e
      BY <1>3, <1>4, <2>1, <2>4, Zenon DEF direct_exit_is_patched
    <3>2. TargetOf(T, s) \in PC /\ TargetOf(U, s) = TargetOf(T, s)
      BY <1>0, <1>4, <2>1, <3>1, Parts, TranslatorAssumption
         DEF Record, Shape, TargetOf
    <3>3. Translated(T, TargetOf(T, s))
      BY <1>0, <2>1, <3>1, Zenon DEF PatchesAllowed, Patchable
    <3> QED BY <1>3, <1>5, <2>0, <2>2, <2>3, <2>4, <3>1, <3>2, <3>3
  <2>5. CASE ~ (direct_exit_is_patched(U, s) /\ U.by_addr[s].entry = e)
    <3>1. e \in words \/ T.arena[e].branch = 0
      BY <1>3, <1>4, <2>1, <2>2, <2>3, <2>5, Zenon DEF direct_exit_is_patched
    <3> QED BY <1>5, <2>0, <2>5, <3>1, Zenon
  <2> QED BY <2>4, <2>5, Zenon
<1>13. PatchInv(U)
  BY <1>6, <1>7, <1>9, <1>10, <1>11, <1>12, Zenon DEF PatchInv
<1> QED BY <1>3, <1>4, <1>13, Zenon DEF U

\* unpatch_direct_exit of one translated pc.
LEMMA UnpatchOne ==
  ASSUME NEW T, PatchInv(T), NEW p \in PC, Translated(T, p)
  PROVE  LET U == unpatch_direct_exits(T, {p})
         IN  /\ PatchInv(U) /\ ~ direct_exit_is_patched(U, p)
             /\ Translated(U, p)
             /\ U.by_addr[p].entry = T.by_addr[p].entry
             /\ U.by_addr[p].content_hash = T.by_addr[p].content_hash
<1> DEFINE S == {p}
           U == unpatch_direct_exits(T, S)
<1>1. S \in SUBSET PC /\ p \in S
  BY Zenon
<1> HIDE DEF S
<1>2. /\ PatchInv(U) /\ ~ direct_exit_is_patched(U, p)
      /\ Translated(U, p)
      /\ U.by_addr[p].entry = T.by_addr[p].entry
      /\ U.by_addr[p].content_hash = T.by_addr[p].content_hash
  BY <1>1, UnpatchInv, Zenon
<1> QED BY <1>2, Zenon DEF S

\* patch_direct_exit preserves the invariant: the guards rule out self
\* loops, storing blocks and chains, and the word, the flag and the reverse
\* index change together.
LEMMA PatchStep ==
  ASSUME NEW T, PatchInv(T), NEW s \in PC, NEW t \in PC,
         NEW reaches \in BOOLEAN
  PROVE  /\ PatchInv(patch_direct_exit(T, s, t, reaches))
         /\ \A p \in PC :
              /\ Translated(patch_direct_exit(T, s, t, reaches), p)
                   <=> Translated(T, p)
              /\ Translated(T, p) =>
                   patch_direct_exit(T, s, t, reaches).by_addr[p].content_hash
                     = T.by_addr[p].content_hash
<1> DEFINE U == patch_direct_exit(T, s, t, reaches)
<1>0. T \in TranslatorState /\ RecordsMatchArena(T) /\ IncomingExact(T)
      /\ PatchesAllowed(T) /\ BranchesCurrent(T) /\ NoChain(T)
  BY Zenon DEF PatchInv
<1>1. CASE ~ Patchable(T, s, t)
  BY <1>1, Zenon DEF patch_direct_exit
<1>2. CASE Patchable(T, s, t) /\ T.by_addr[s].direct_patch_applied
  <2>1. s \in T.incoming[t]
    BY <1>0, <1>2, Zenon DEF Patchable, IncomingExact, direct_exit_is_patched
  <2>2. U = [T EXCEPT !.incoming[t] = T.incoming[t] \cup {s}]
    BY <1>2, Zenon DEF patch_direct_exit
  <2>3. T.incoming[t] \cup {s} = T.incoming[t]
    BY <2>1, Zenon
  <2>4. U = T
    BY <1>0, <2>2, <2>3 DEF TranslatorState
  <2> QED BY <2>4, Zenon
<1>3. CASE /\ Patchable(T, s, t)
           /\ ~ T.by_addr[s].direct_patch_applied
           /\ WouldCreateChain(T, s, t) \/ ~ reaches
  BY <1>3, Zenon DEF patch_direct_exit
<1>4. CASE /\ Patchable(T, s, t)
           /\ ~ T.by_addr[s].direct_patch_applied
           /\ ~ (WouldCreateChain(T, s, t) \/ ~ reaches)
  <2> DEFINE w == T.by_addr[s].entry
             v == T.by_addr[t].entry
  <2>1. U = [by_addr |-> [T.by_addr EXCEPT ![s].direct_patch_applied = TRUE],
             incoming |-> [T.incoming EXCEPT ![t] = T.incoming[t] \cup {s}],
             arena |-> [T.arena EXCEPT ![w].branch = v]]
    BY <1>4, Zenon DEF patch_direct_exit
  <2> HIDE DEF U
  <2>2. /\ s # t /\ Translated(T, s) /\ Translated(T, t)
        /\ T.by_addr[s] \in Record /\ T.by_addr[t] \in Record
        /\ TargetOf(T, s) = t
        /\ T.incoming[s] = {} /\ ~ T.by_addr[t].direct_patch_applied
        /\ ~ direct_exit_is_patched(T, s) /\ ~ direct_exit_is_patched(T, t)
        /\ can_use_patchable_tail(T.by_addr[s].content_hash)
        /\ auto_patch_safe(T.by_addr[s].content_hash)
    BY <1>0, <1>4, Parts, Zenon DEF Patchable, WouldCreateChain,
       has_incoming_direct_patch, direct_exit_is_patched
  <2>3. /\ w \in DOMAIN T.arena /\ T.arena[w].pc = s
        /\ w \in 1 .. PoolBlocks /\ v \in 1 .. PoolBlocks
        /\ T.by_addr \in [PC -> Record \cup {None}]
        /\ T.incoming \in [PC -> SUBSET PC] /\ T.arena \in Seq(Block)
    BY <1>0, <2>2, Parts, Zenon DEF RecordsMatchArena, Record
  <2>4. \A p \in PC :
          /\ p # s => U.by_addr[p] = T.by_addr[p]
          /\ p = s => /\ U.by_addr[p] \in Record
                      /\ U.by_addr[p].entry = T.by_addr[p].entry
                      /\ U.by_addr[p].content_hash = T.by_addr[p].content_hash
                      /\ U.by_addr[p].direct_patch_applied
    <3>1. \A p \in PC : p # s => U.by_addr[p] = T.by_addr[p]
      BY <2>1, <2>3, Zenon
    <3>2. U.by_addr[s] = [T.by_addr[s] EXCEPT !.direct_patch_applied = TRUE]
      BY <2>1, <2>3, Zenon
    <3> QED BY <2>2, <3>1, <3>2 DEF Record
  <2>5. \A p \in PC :
          /\ Translated(U, p) <=> Translated(T, p)
          /\ direct_exit_is_patched(U, p)
               <=> direct_exit_is_patched(T, p) \/ p = s
          /\ TargetOf(U, p) = TargetOf(T, p)
          /\ Translated(T, p) =>
               /\ U.by_addr[p] \in Record
               /\ U.by_addr[p].entry = T.by_addr[p].entry
               /\ U.by_addr[p].content_hash = T.by_addr[p].content_hash
    <3>1. Translated(U, s)
      BY <2>4, TranslatorAssumption, Zenon DEF Translated
    <3> QED BY <1>0, <2>2, <2>4, <3>1, Parts
            DEF Translated, direct_exit_is_patched, TargetOf
  <2>6. /\ DOMAIN U.arena = DOMAIN T.arena
        /\ \A e \in DOMAIN T.arena :
             /\ e # w => U.arena[e] = T.arena[e]
             /\ U.arena[e].pc = T.arena[e].pc
             /\ U.arena[e].code = T.arena[e].code
             /\ U.arena[e] \in Block
        /\ U.arena[w].branch = v
    <3>1. \A e \in DOMAIN T.arena : T.arena[e] \in Block
      BY <2>3, SeqElements, Zenon
    <3>2. /\ DOMAIN U.arena = DOMAIN T.arena
          /\ \A e \in DOMAIN T.arena : e # w => U.arena[e] = T.arena[e]
          /\ U.arena[w] = [T.arena[w] EXCEPT !.branch = v]
      BY <2>1, <2>3, Zenon
    <3>3. v \in 0 .. PoolBlocks
      BY <2>3, TranslatorAssumption
    <3>4. /\ U.arena[w].pc = T.arena[w].pc /\ U.arena[w].code = T.arena[w].code
          /\ U.arena[w].branch = v /\ U.arena[w] \in Block
      BY <2>3, <3>1, <3>2, <3>3, Zenon DEF Block
    <3> QED BY <3>1, <3>2, <3>4, Zenon
  <2>7. U \in TranslatorState
    <3>1. U.by_addr \in [PC -> Record \cup {None}]
      BY <2>1, <2>3, <2>4, Zenon
    <3>2. U.incoming \in [PC -> SUBSET PC]
      BY <2>1, <2>3, Zenon
    <3>3. Len(T.arena) \in Nat /\ DOMAIN T.arena = 1 .. Len(T.arena)
      BY <2>3, SeqElements, Zenon
    <3>4. U.arena = [e \in DOMAIN T.arena |-> U.arena[e]]
      BY <2>1, <2>3, <2>6, Zenon
    <3>5. U.arena \in [1 .. Len(T.arena) -> Block]
      BY <2>6, <3>3, <3>4, Zenon
    <3>6. U.arena \in Seq(Block)
      BY <3>3, <3>5
    <3> QED BY <2>1, <3>1, <3>2, <3>6, Zenon DEF TranslatorState
  <2>8. RecordsMatchArena(U)
    BY <1>0, <2>5, <2>6 DEF RecordsMatchArena
  <2>9. IncomingExact(U)
    <3> SUFFICES ASSUME NEW p \in PC, NEW q \in PC
                 PROVE  p \in U.incoming[q] <=>
                          direct_exit_is_patched(U, p) /\ TargetOf(U, p) = q
      BY Zenon DEF IncomingExact
    <3>1. p \in T.incoming[q] <=>
            direct_exit_is_patched(T, p) /\ TargetOf(T, p) = q
      BY <1>0, Zenon DEF IncomingExact
    <3>2. p \in U.incoming[q] <=> p \in T.incoming[q] \/ (p = s /\ q = t)
      BY <2>1, <2>3, Zenon
    <3> QED BY <2>2, <2>5, <3>1, <3>2, Zenon
  <2>10. \A p \in PC : Translated(T, p) => TargetOf(T, p) \in PC
    BY <1>0, Parts, TranslatorAssumption DEF TargetOf, Record, Shape
  <2>11. PatchesAllowed(U)
    <3> SUFFICES ASSUME NEW p \in PC, direct_exit_is_patched(U, p)
                 PROVE  Patchable(U, p, TargetOf(U, p))
      BY Zenon DEF PatchesAllowed
    <3>1. Patchable(T, p, TargetOf(T, p))
      BY <1>0, <1>4, <2>2, <2>5, Zenon DEF PatchesAllowed
    <3> QED BY <2>5, <2>10, <3>1, Zenon DEF Patchable
  <2>12. NoChain(U)
    <3> SUFFICES ASSUME NEW p \in PC, direct_exit_is_patched(U, p)
                 PROVE  ~ direct_exit_is_patched(U, TargetOf(U, p))
      BY Zenon DEF NoChain
    <3>1. CASE p = s
      BY <2>2, <2>5, <3>1, Zenon
    <3>2. CASE p # s
      <4>1. direct_exit_is_patched(T, p) /\ Translated(T, p)
        BY <2>5, <3>2, Zenon DEF direct_exit_is_patched
      <4>2. TargetOf(T, p) \in PC /\ p \in T.incoming[TargetOf(T, p)]
        BY <1>0, <2>10, <4>1, Zenon DEF IncomingExact
      <4>3. TargetOf(T, p) # s
        BY <2>2, <4>2, Zenon
      <4>4. ~ direct_exit_is_patched(T, TargetOf(T, p))
        BY <1>0, <4>1, Zenon DEF NoChain
      <4> QED BY <2>5, <4>2, <4>3, <4>4, Zenon
    <3> QED BY <3>1, <3>2, Zenon
  <2>13. BranchesCurrent(U)
    <3> SUFFICES ASSUME NEW e \in DOMAIN U.arena, NEW p, p = U.arena[e].pc
                 PROVE  IF direct_exit_is_patched(U, p) /\ U.by_addr[p].entry = e
                        THEN U.arena[e].branch = U.by_addr[TargetOf(U, p)].entry
                        ELSE U.arena[e].branch = 0
      BY Zenon DEF BranchesCurrent
    <3>1. e \in DOMAIN T.arena /\ p = T.arena[e].pc /\ p \in PC
      BY <2>6, Zenon DEF Block
    <3>2. IF direct_exit_is_patched(T, p) /\ T.by_addr[p].entry = e
          THEN T.arena[e].branch = T.by_addr[TargetOf(T, p)].entry
          ELSE T.arena[e].branch = 0
      BY <1>0, <3>1, Zenon DEF BranchesCurrent
    <3>3. CASE e = w
      <4>1. p = s
        BY <2>3, <3>1, <3>3, Zenon
      <4>2. /\ direct_exit_is_patched(U, s) /\ U.by_addr[s].entry = e
            /\ TargetOf(U, s) = t /\ U.by_addr[t].entry = v
        BY <2>2, <2>5, <3>3, Zenon
      <4> QED BY <2>6, <3>3, <4>1, <4>2, Zenon
    <3>4. CASE e # w
      <4>1. U.arena[e].branch = T.arena[e].branch
        BY <2>6, <3>1, <3>4, Zenon
      <4>2. CASE direct_exit_is_patched(T, p) /\ T.by_addr[p].entry = e
        <5>1. Translated(T, p) /\ Translated(T, TargetOf(T, p))
              /\ TargetOf(T, p) \in PC
          BY <1>0, <2>10, <3>1, <4>2, Zenon
             DEF PatchesAllowed, Patchable, direct_exit_is_patched
        <5> QED BY <2>5, <3>1, <3>2, <4>1, <4>2, <5>1
      <4>3. CASE ~ (direct_exit_is_patched(T, p) /\ T.by_addr[p].entry = e)
        <5>1. ~ (direct_exit_is_patched(U, p) /\ U.by_addr[p].entry = e)
          BY <2>2, <2>5, <3>1, <3>4, <4>3, Zenon DEF direct_exit_is_patched
        <5> QED BY <3>2, <4>1, <4>3, <5>1, Zenon
      <4> QED BY <4>2, <4>3, Zenon
    <3> QED BY <3>3, <3>4, Zenon
  <2>14. PatchInv(U)
    BY <2>7, <2>8, <2>9, <2>11, <2>12, <2>13, Zenon DEF PatchInv
  <2> QED BY <2>5, <2>14, Zenon DEF U
<1> QED BY <1>1, <1>2, <1>3, <1>4, Zenon

\* Dropping a record that no patch starts at or leads to preserves the
\* invariant.
LEMMA DropInv ==
  ASSUME NEW T, PatchInv(T), NEW p \in PC,
         ~ direct_exit_is_patched(T, p),
         \A s \in PC : direct_exit_is_patched(T, s) => TargetOf(T, s) # p,
         NEW U,
         U = [by_addr |-> [T.by_addr EXCEPT ![p] = None],
              incoming |-> T.incoming, arena |-> T.arena]
  PROVE  PatchInv(U) /\ ~ Translated(U, p) /\ U.arena = T.arena
<1>0. T \in TranslatorState /\ RecordsMatchArena(T) /\ IncomingExact(T)
      /\ PatchesAllowed(T) /\ BranchesCurrent(T) /\ NoChain(T)
  BY Zenon DEF PatchInv
<1>1. /\ T.by_addr \in [PC -> Record \cup {None}]
      /\ T.incoming \in [PC -> SUBSET PC] /\ T.arena \in Seq(Block)
  BY <1>0, Parts, Zenon
<1>2. /\ U.arena = T.arena /\ U.incoming = T.incoming
      /\ U.by_addr \in [PC -> Record \cup {None}]
      /\ U.by_addr[p] = None
      /\ \A q \in PC : q # p => U.by_addr[q] = T.by_addr[q]
  BY <1>1, Zenon
<1>3. U \in TranslatorState
  BY <1>1, <1>2, Zenon DEF TranslatorState
<1>4. \A q \in PC : /\ Translated(U, q) <=> Translated(T, q) /\ q # p
                    /\ direct_exit_is_patched(U, q)
                         <=> direct_exit_is_patched(T, q)
                    /\ q # p => TargetOf(U, q) = TargetOf(T, q)
  BY <1>2, Zenon DEF Translated, direct_exit_is_patched, TargetOf
<1>5. RecordsMatchArena(U)
  BY <1>0, <1>2, <1>4 DEF RecordsMatchArena
<1>6. IncomingExact(U)
  BY <1>0, <1>2, <1>4 DEF IncomingExact
<1>7. \A q \in PC : direct_exit_is_patched(T, q) =>
        /\ q # p /\ TargetOf(T, q) # p
        /\ TargetOf(T, q) \in PC /\ Translated(T, TargetOf(T, q))
  <2>1. \A q \in PC : Translated(T, q) => TargetOf(T, q) \in PC
    BY <1>0, Parts, TranslatorAssumption DEF TargetOf, Record, Shape
  <2> QED BY <1>0, <2>1, Zenon DEF PatchesAllowed, Patchable, direct_exit_is_patched
<1>8. PatchesAllowed(U)
  <2> SUFFICES ASSUME NEW q \in PC, direct_exit_is_patched(U, q)
               PROVE  Patchable(U, q, TargetOf(U, q))
    BY Zenon DEF PatchesAllowed
  <2>1. direct_exit_is_patched(T, q) /\ Patchable(T, q, TargetOf(T, q))
    BY <1>0, <1>4, Zenon DEF PatchesAllowed
  <2> QED BY <1>2, <1>4, <1>7, <2>1, Zenon DEF Patchable
<1>9. NoChain(U)
  BY <1>0, <1>4, <1>7, Zenon DEF NoChain
<1>10. BranchesCurrent(U)
  <2> SUFFICES ASSUME NEW e \in DOMAIN T.arena, NEW q, q = T.arena[e].pc
               PROVE  IF direct_exit_is_patched(U, q) /\ U.by_addr[q].entry = e
                      THEN T.arena[e].branch = U.by_addr[TargetOf(U, q)].entry
                      ELSE T.arena[e].branch = 0
    BY <1>2 DEF BranchesCurrent
  <2>1. q \in PC
    <3>1. T.arena[e] \in Block
      BY <1>1, SeqElements, Zenon
    <3> QED BY <3>1, Zenon DEF Block
  <2>2. IF direct_exit_is_patched(T, q) /\ T.by_addr[q].entry = e
        THEN T.arena[e].branch = T.by_addr[TargetOf(T, q)].entry
        ELSE T.arena[e].branch = 0
    BY <1>0, Zenon DEF BranchesCurrent
  <2>3. CASE direct_exit_is_patched(T, q)
    <3>1. /\ direct_exit_is_patched(U, q) /\ U.by_addr[q] = T.by_addr[q]
          /\ TargetOf(U, q) = TargetOf(T, q)
          /\ U.by_addr[TargetOf(T, q)] = T.by_addr[TargetOf(T, q)]
      BY <1>2, <1>4, <1>7, <2>1, <2>3, Zenon
    <3> QED BY <2>2, <2>3, <3>1, Zenon
  <2>4. CASE ~ direct_exit_is_patched(T, q)
    BY <1>4, <2>1, <2>2, <2>4, Zenon
  <2> QED BY <2>3, <2>4, Zenon
<1> QED BY <1>2, <1>3, <1>4, <1>5, <1>6, <1>8, <1>9, <1>10, Zenon DEF PatchInv

\* Retiring a translation leaves no patch that starts at it or leads to it.
LEMMA RetireStep ==
  ASSUME NEW T, PatchInv(T), NEW p \in PC
  PROVE  PatchInv(Retire(T, p)) /\ ~ Translated(Retire(T, p), p)
<1> DEFINE own == unpatch_direct_exits(T, {p})
           all == unpatch_direct_exits(own, own.incoming[p])
<1>1. PatchInv(own) /\ ~ direct_exit_is_patched(own, p)
  BY UnpatchInv
<1>2. own.incoming[p] \in SUBSET PC
  BY <1>1, Parts, Zenon DEF PatchInv
<1> HIDE DEF own
<1>3. /\ PatchInv(all)
      /\ \A s \in PC : /\ direct_exit_is_patched(all, s) <=>
                            /\ direct_exit_is_patched(own, s)
                            /\ s \notin own.incoming[p]
                       /\ Translated(all, s) <=> Translated(own, s)
                       /\ Translated(own, s) => all.by_addr[s].content_hash
                                                = own.by_addr[s].content_hash
  BY <1>1, <1>2, UnpatchInv
<1> HIDE DEF all
<1>4. \A s \in PC : direct_exit_is_patched(all, s) => TargetOf(all, s) # p
  <2> SUFFICES ASSUME NEW s \in PC, direct_exit_is_patched(all, s)
               PROVE  TargetOf(all, s) # p
    BY Zenon
  <2>1. /\ direct_exit_is_patched(own, s) /\ s \notin own.incoming[p]
        /\ TargetOf(all, s) = TargetOf(own, s)
    BY <1>3, Zenon DEF direct_exit_is_patched, TargetOf
  <2> QED BY <1>1, <2>1, Zenon DEF PatchInv, IncomingExact
<1>5. Retire(T, p) = [by_addr |-> [all.by_addr EXCEPT ![p] = None],
                      incoming |-> all.incoming, arena |-> all.arena]
  BY Zenon DEF Retire, unpatch_direct_exit, unpatch_incoming_to, own, all
<1>6. ~ direct_exit_is_patched(all, p)
  BY <1>1, <1>3, Zenon
<1> QED BY <1>3, <1>4, <1>5, <1>6, DropInv, Zenon

\* Emitting a block for a pc without a translation preserves the invariant.
LEMMA EmitStep ==
  ASSUME NEW T, PatchInv(T), NEW p \in PC, NEW c \in Code,
         ~ Translated(T, p), CanEmit(T, c)
  PROVE  PatchInv(Emit(T, p, c))
<1> DEFINE n == Len(T.arena) + 1
           b == [pc |-> p, code |-> c, branch |-> 0]
           U == Emit(T, p, c)
<1>0. T \in TranslatorState /\ RecordsMatchArena(T) /\ IncomingExact(T)
      /\ PatchesAllowed(T) /\ BranchesCurrent(T) /\ NoChain(T)
  BY Zenon DEF PatchInv
<1>1. /\ T.by_addr \in [PC -> Record \cup {None}]
      /\ T.incoming \in [PC -> SUBSET PC] /\ T.arena \in Seq(Block)
  BY <1>0, Parts, Zenon
<1>2. /\ Len(T.arena) \in Nat /\ DOMAIN T.arena = 1 .. Len(T.arena)
      /\ n \in 1 .. PoolBlocks
  BY <1>1, SeqElements, TranslatorAssumption DEF CanEmit
<1>3. b \in Block
  BY TranslatorAssumption DEF Block
<1>4. /\ Append(T.arena, b) \in Seq(Block)
      /\ DOMAIN Append(T.arena, b) = 1 .. n
      /\ \A e \in DOMAIN T.arena : Append(T.arena, b)[e] = T.arena[e]
      /\ Append(T.arena, b)[n] = b
  BY <1>1, <1>2, <1>3, SeqElements
<1>5. /\ U.arena = Append(T.arena, b) /\ U.incoming = T.incoming
      /\ U.by_addr = [T.by_addr EXCEPT ![p] =
           [entry |-> n, content_hash |-> c, direct_patch_applied |-> FALSE]]
      /\ U = [by_addr |-> U.by_addr, incoming |-> U.incoming,
              arena |-> U.arena]
  BY Zenon DEF Emit
<1> HIDE DEF U, b, n
<1>6. /\ U.by_addr[p] \in Record /\ U.by_addr[p].entry = n
      /\ U.by_addr[p].content_hash = c
      /\ ~ U.by_addr[p].direct_patch_applied
      /\ \A q \in PC : q # p => U.by_addr[q] = T.by_addr[q]
      /\ U.by_addr \in [PC -> Record \cup {None}]
  BY <1>1, <1>2, <1>5 DEF Record
<1>7. U \in TranslatorState
  BY <1>1, <1>4, <1>5, <1>6, Zenon DEF TranslatorState
<1>8. \A q \in PC : /\ Translated(U, q) <=> Translated(T, q) \/ q = p
                    /\ direct_exit_is_patched(U, q)
                         <=> direct_exit_is_patched(T, q)
                    /\ q # p => TargetOf(U, q) = TargetOf(T, q)
  BY <1>6, TranslatorAssumption, Zenon DEF Translated, direct_exit_is_patched, TargetOf
<1>9. n \notin DOMAIN T.arena /\ 1 .. n = DOMAIN T.arena \cup {n}
  BY <1>2 DEF n
<1>10. /\ DOMAIN U.arena = DOMAIN T.arena \cup {n}
       /\ \A e \in DOMAIN T.arena : U.arena[e] = T.arena[e]
       /\ U.arena[n] = b
  BY <1>4, <1>5, <1>9, Zenon
<1>11. RecordsMatchArena(U)
  <2>1. b.pc = p /\ b.code = c
    BY Zenon DEF b
  <2> QED BY <1>0, <1>6, <1>8, <1>10, <2>1 DEF RecordsMatchArena
<1>12. IncomingExact(U)
  <2>1. ~ direct_exit_is_patched(T, p)
    BY Zenon DEF direct_exit_is_patched
  <2> QED BY <1>0, <1>5, <1>8, <2>1, Zenon DEF IncomingExact
<1>13. \A q \in PC : direct_exit_is_patched(T, q) =>
        /\ q # p /\ TargetOf(T, q) # p
        /\ TargetOf(T, q) \in PC /\ Translated(T, TargetOf(T, q))
  <2>1. \A q \in PC : Translated(T, q) => TargetOf(T, q) \in PC
    BY <1>0, Parts, TranslatorAssumption DEF TargetOf, Record, Shape
  <2> QED BY <1>0, <2>1, Zenon DEF PatchesAllowed, Patchable, direct_exit_is_patched
<1>14. PatchesAllowed(U)
  <2> SUFFICES ASSUME NEW q \in PC, direct_exit_is_patched(U, q)
               PROVE  Patchable(U, q, TargetOf(U, q))
    BY Zenon DEF PatchesAllowed
  <2>1. direct_exit_is_patched(T, q) /\ Patchable(T, q, TargetOf(T, q))
    BY <1>0, <1>8, Zenon DEF PatchesAllowed
  <2> QED BY <1>6, <1>8, <1>13, <2>1, Zenon DEF Patchable
<1>15. NoChain(U)
  BY <1>0, <1>8, <1>13, Zenon DEF NoChain
<1>16. BranchesCurrent(U)
  <2> SUFFICES ASSUME NEW e \in DOMAIN U.arena, NEW q, q = U.arena[e].pc
               PROVE  IF direct_exit_is_patched(U, q) /\ U.by_addr[q].entry = e
                      THEN U.arena[e].branch = U.by_addr[TargetOf(U, q)].entry
                      ELSE U.arena[e].branch = 0
    BY Zenon DEF BranchesCurrent
  <2>1. CASE e = n
    <3>1. q = p /\ U.arena[e].branch = 0
      BY <1>10, <2>1 DEF b
    <3>2. ~ direct_exit_is_patched(U, p)
      BY <1>8, Zenon DEF direct_exit_is_patched
    <3> QED BY <3>1, <3>2, Zenon
  <2>2. CASE e # n
    <3>1. e \in DOMAIN T.arena /\ U.arena[e] = T.arena[e]
      BY <1>10, <2>2, Zenon
    <3>2. q \in PC
      <4>1. T.arena[e] \in Block
        BY <1>1, <3>1, SeqElements, Zenon
      <4> QED BY <3>1, <4>1, Zenon DEF Block
    <3>3. IF direct_exit_is_patched(T, q) /\ T.by_addr[q].entry = e
          THEN T.arena[e].branch = T.by_addr[TargetOf(T, q)].entry
          ELSE T.arena[e].branch = 0
      BY <1>0, <3>1, Zenon DEF BranchesCurrent
    <3>4. CASE direct_exit_is_patched(T, q)
      <4>1. /\ direct_exit_is_patched(U, q) /\ U.by_addr[q] = T.by_addr[q]
            /\ TargetOf(U, q) = TargetOf(T, q)
            /\ U.by_addr[TargetOf(T, q)] = T.by_addr[TargetOf(T, q)]
        BY <1>6, <1>8, <1>13, <3>2, <3>4, Zenon
      <4> QED BY <3>1, <3>3, <3>4, <4>1, Zenon
    <3>5. CASE ~ direct_exit_is_patched(T, q)
      BY <1>8, <3>1, <3>2, <3>3, <3>5, Zenon
    <3> QED BY <3>4, <3>5, Zenon
  <2> QED BY <2>1, <2>2, Zenon
<1>17. PatchInv(U)
  BY <1>7, <1>11, <1>12, <1>14, <1>15, <1>16, Zenon DEF PatchInv
<1> QED BY <1>17, Zenon DEF U

\* translate() preserves the invariant whether it hits, retires a stale
\* translation, emits a new one or fails.
LEMMA TranslateStep ==
  ASSUME NEW T, PatchInv(T), NEW p \in PC, NEW c \in Code
  PROVE  PatchInv(translate(T, p, c))
<1> DEFINE dropped == IF Translated(T, p) THEN Retire(T, p) ELSE T
<1>1. PatchInv(dropped) /\ ~ Translated(dropped, p)
  BY RetireStep, Zenon
<1> HIDE DEF dropped
<1>2. CanEmit(dropped, c) => PatchInv(Emit(dropped, p, c))
  BY <1>1, EmitStep, Zenon
<1>3. translate(T, p, c) = IF lookup_cached(T, p, c) THEN T
                           ELSE IF CanEmit(dropped, c)
                                THEN Emit(dropped, p, c) ELSE dropped
  BY Zenon DEF translate, dropped
<1> QED BY <1>1, <1>2, <1>3, Zenon

-----------------------------------------------------------------------------
(* The dispatcher.                                                         *)

\* A running block is the arena block of its pc, with the code translated.
LEMMA CurrentBlock ==
  ASSUME PatchInv(tr), NEW b \in Ref, Current(b)
  PROVE  /\ b.pc \in PC /\ b.entry \in DOMAIN tr.arena
         /\ tr.by_addr[b.pc] \in Record
         /\ tr.arena[b.entry].pc = b.pc
         /\ tr.arena[b.entry].code = tr.by_addr[b.pc].content_hash
         /\ tr.arena[b.entry].branch =
              IF direct_exit_is_patched(tr, b.pc)
              THEN tr.by_addr[TargetOf(tr, b.pc)].entry ELSE 0
<1>1. b.pc \in PC
  BY Zenon DEF Ref
<1>2. /\ b.entry \in DOMAIN tr.arena
      /\ tr.arena[b.entry].pc = b.pc
      /\ tr.arena[b.entry].code = tr.by_addr[b.pc].content_hash
  BY <1>1, Zenon DEF PatchInv, RecordsMatchArena, Current
<1>3. tr.by_addr[b.pc] \in Record
  BY <1>1, Parts, Zenon DEF PatchInv, Current
<1>4. tr.arena[b.entry].branch =
        IF direct_exit_is_patched(tr, b.pc)
        THEN tr.by_addr[TargetOf(tr, b.pc)].entry ELSE 0
  BY <1>2, Zenon DEF PatchInv, BranchesCurrent, Current
<1> QED BY <1>1, <1>2, <1>3, <1>4, Zenon

\* The invariant holds when the dispatcher is created.
LEMMA DispatcherInit == Init => DispatcherInv
<1> SUFFICES ASSUME Init PROVE DispatcherInv
  BY Zenon
<1>1. PatchInv(tr)
  BY EmptyInv, Zenon DEF Init
<1>2. TypeOK
  BY <1>1, DispatcherAssumption, TranslatorAssumption
     DEF Init, TypeOK, Ctl, PatchInv
<1> QED BY <1>1, <1>2 DEF Init, DispatcherInv

\* run() returning leaves the invariant: its locals are reset.
LEMMA FinishStep ==
  ASSUME DispatcherInv, PatchInv(tr'), UNCHANGED <<memory, halt_pcs>>,
         NEW why \in {"Halted", "StepLimit", "FetchFailed", "TranslationFailed"},
         Finish(why)
  PROVE  DispatcherInv'
<1>1. TypeOK'
  BY DispatcherAssumption, TranslatorAssumption
     DEF DispatcherInv, TypeOK, Finish, Ctl, PatchInv
<1> QED BY <1>1 DEF DispatcherInv, Finish

\* Installing a consistent translator enters the block of pc or returns.
LEMMA InstallStep ==
  ASSUME DispatcherInv, NEW T, PatchInv(T), Install(T),
         UNCHANGED <<memory, halt_pcs>>, ctl # "exec",
         step < max_steps, pc \notin halt_pcs
  PROVE  DispatcherInv'
<1>1. CASE ~ lookup_cached(T, pc, memory[pc])
  BY <1>1, FinishStep, Zenon DEF Install
<1>2. CASE lookup_cached(T, pc, memory[pc])
  <2>1. /\ tr' = T /\ block' = [pc |-> pc, entry |-> T.by_addr[pc].entry]
        /\ ctl' = "enter" /\ patched' = None
        /\ UNCHANGED <<exit, pc, step, max_steps, host, ran>>
    BY <1>2, Zenon DEF Install
  <2>2. T.by_addr[pc] \in Record /\ pc \in PC
    BY <1>2, Parts, Zenon DEF lookup_cached, PatchInv, DispatcherInv, TypeOK
  <2>3. block' \in Ref
    BY <2>1, <2>2, Zenon DEF Ref, Record
  <2>4. TypeOK'
    BY <2>1, <2>3, Zenon DEF DispatcherInv, TypeOK, Ctl, PatchInv
  <2>5. Runnable(block)'
    BY <1>2, <2>1, Zenon DEF Runnable, Current, lookup_cached
  <2> QED BY <2>1, <2>3, <2>4, <2>5, Zenon DEF DispatcherInv
<1> QED BY <1>1, <1>2, Zenon

\* The outer loop translates the block at pc.
LEMMA LoopTranslateStep ==
  ASSUME DispatcherInv, LoopTranslate PROVE DispatcherInv'
<1>1. PatchInv(translate(tr, pc, memory[pc]))
  BY TranslateStep, Zenon DEF LoopTranslate, DispatcherInv, TypeOK
<1> QED BY <1>1, InstallStep, Zenon DEF LoopTranslate

\* Threading translates the successor and may patch the exit that led to it.
LEMMA ThreadNextStep ==
  ASSUME DispatcherInv, ThreadNext PROVE DispatcherInv'
<1> DEFINE T == translate(tr, pc, memory[pc])
<1>1. PatchInv(T)
  BY TranslateStep, Zenon DEF ThreadNext, DispatcherInv, TypeOK
<1>2. threading.pc \in PC /\ pc \in PC
  BY Zenon DEF ThreadNext, DispatcherInv, TypeOK, threading, Ref
<1>3. \A reaches \in BOOLEAN : PatchInv(patch_direct_exit(T, threading.pc, pc, reaches))
  BY <1>1, <1>2, PatchStep, Zenon
<1>4. PICK U : PatchInv(U) /\ Install(U)
  <2> HIDE DEF T
  <2>1. Install(T) \/ \E reaches \in BOOLEAN :
                         Install(patch_direct_exit(T, threading.pc, pc, reaches))
    BY Zenon DEF ThreadNext, T
  <2> QED BY <1>1, <1>3, <2>1, Zenon
<1> QED BY <1>4, InstallStep, Zenon DEF ThreadNext, CanContinue

\* Deciding about an active patch: a kept one may run within the budget, and
\* a reverted one leaves the block returning to the dispatcher.
LEMMA EnterStep ==
  ASSUME DispatcherInv, Enter PROVE DispatcherInv'
<1> DEFINE t == CodeOf(block).target
<1>0. /\ ctl = "enter" /\ ctl' = "exec" /\ host' = block.entry
      /\ UNCHANGED <<memory, halt_pcs, exit, pc, step, max_steps, block, ran>>
      /\ PatchInv(tr) /\ block \in Ref /\ Runnable(block) /\ Current(block)
      /\ step < max_steps /\ ran = step /\ TypeOK
  BY Zenon DEF Enter, DispatcherInv, Runnable
<1>1. block.pc \in PC /\ t = TargetOf(tr, block.pc) /\ Translated(tr, block.pc)
  BY <1>0, CurrentBlock, Zenon DEF CodeOf, TargetOf, Current
<1>2. block.entry \in 0 .. PoolBlocks
  BY <1>0, TranslatorAssumption DEF Ref
<1> DEFINE active == active_direct_patch_target(tr, block.pc)
<1>a. active <=> direct_exit_is_patched(tr, block.pc)
  BY <1>0, <1>1, Zenon DEF active_direct_patch_target, PatchInv, PatchesAllowed, Patchable
<1>b. /\ patched' = IF active /\ keep_patch(t) THEN [pc |-> t, entry |-> tr.by_addr[t].entry] ELSE None
      /\ tr' = IF active /\ ~ (active /\ keep_patch(t)) THEN unpatch_direct_exit(tr, block.pc) ELSE tr
  BY Zenon DEF Enter
<1> HIDE DEF active
<1>3. CASE direct_exit_is_patched(tr, block.pc) /\ keep_patch(t)
  <2>1. patched' = [pc |-> t, entry |-> tr.by_addr[t].entry] /\ tr' = tr
    BY <1>3, <1>a, <1>b, Zenon
  <2>2. t \in PC /\ Translated(tr, t) /\ tr.by_addr[t] \in Record
    <3>1. tr.by_addr[block.pc] \in Record /\ Translated(tr, t)
      BY <1>0, <1>1, <1>3, CurrentBlock, Zenon DEF keep_patch, lookup_cached
    <3>2. t \in PC
      BY <1>1, <3>1, TranslatorAssumption, Zenon DEF TargetOf, Record, Shape
    <3> QED BY <1>0, <3>1, <3>2, Parts, Zenon DEF PatchInv
  <2>3. patched' \in Ref
    BY <2>1, <2>2, Zenon DEF Ref, Record
  <2>4. Runnable(patched)' /\ Runnable(block)'
    BY <1>0, <1>3, <2>1, <2>2, Zenon DEF Runnable, Current, keep_patch, lookup_cached
  <2>5. TypeOK'
    BY <1>0, <1>2, <2>1, <2>3, Zenon DEF TypeOK, Ctl
  <2>6. ExecPatched'
    <3>1. max_steps' - step' >= 2
      BY <1>0, <1>3, Zenon DEF keep_patch
    <3>2. direct_exit_is_patched(tr', block'.pc) /\ TargetOf(tr', block'.pc) = patched'.pc
      BY <1>0, <1>1, <1>3, <2>1, Zenon
    <3> QED BY <1>0, <2>1, <2>3, <2>4, <3>1, <3>2, Zenon DEF ExecPatched
  <2> QED BY <1>0, <2>1, <2>4, <2>5, <2>6, Zenon DEF DispatcherInv
<1>4. CASE ~ (direct_exit_is_patched(tr, block.pc) /\ keep_patch(t))
  <2>1. /\ patched' = None
        /\ \/ tr' = unpatch_direct_exits(tr, {block.pc})
           \/ tr' = tr /\ ~ direct_exit_is_patched(tr, block.pc)
    BY <1>4, <1>a, <1>b, Zenon DEF unpatch_direct_exit
  <2>2. /\ PatchInv(tr') /\ ~ direct_exit_is_patched(tr', block.pc)
        /\ Translated(tr', block.pc)
        /\ tr'.by_addr[block.pc].entry = tr.by_addr[block.pc].entry
        /\ tr'.by_addr[block.pc].content_hash = tr.by_addr[block.pc].content_hash
    <3> DEFINE U == unpatch_direct_exits(tr, {block.pc})
    <3>1. /\ PatchInv(U) /\ ~ direct_exit_is_patched(U, block.pc)
          /\ Translated(U, block.pc)
          /\ U.by_addr[block.pc].entry = tr.by_addr[block.pc].entry
          /\ U.by_addr[block.pc].content_hash
               = tr.by_addr[block.pc].content_hash
      BY <1>0, <1>1, UnpatchOne, Zenon
    <3> HIDE DEF U
    <3>2. tr' = U \/ (tr' = tr /\ ~ direct_exit_is_patched(tr, block.pc))
      BY <2>1, Zenon DEF U
    <3>3. CASE tr' = U
      BY <3>1, <3>3, Zenon
    <3>4. CASE tr' = tr /\ ~ direct_exit_is_patched(tr, block.pc)
      BY <1>0, <1>1, <3>4, Zenon
    <3> QED BY <3>2, <3>3, <3>4, Zenon
  <2>3. TypeOK'
    BY <1>0, <1>2, <2>1, <2>2, Zenon DEF TypeOK, Ctl, PatchInv
  <2>4. Runnable(block)'
    BY <1>0, <2>2, Zenon DEF Runnable, Current
  <2>5. ExecUnpatched'
    BY <1>0, <2>1, <2>2, Zenon DEF ExecUnpatched
  <2> QED BY <1>0, <2>2, <2>3, <2>4, <2>5, Zenon DEF DispatcherInv
<1> QED BY <1>3, <1>4, Zenon

\* What the host is executing: a fresh block that does not halt, whose
\* branch word leaves it only from the called block to the kept target.
LEMMA Executing ==
  ASSUME DispatcherInv, ctl = "exec"
  PROVE  /\ host \in DOMAIN tr.arena
         /\ tr.arena[host].code \in Code
         /\ memory[tr.arena[host].pc] = tr.arena[host].code
         /\ tr.arena[host].pc \notin halt_pcs
         /\ ran < max_steps
         /\ tr.arena[host].branch = 0 =>
              ran + 1 = step + (IF patched = None THEN 1 ELSE 2)
              /\ host = threading.entry
         /\ tr.arena[host].branch # 0 =>
              /\ ExecPatched /\ host = block.entry /\ ran = step
              /\ tr.arena[host].branch = patched.entry
              /\ auto_patch_safe(tr.arena[host].code)
<1>0. /\ PatchInv(tr) /\ block \in Ref /\ Runnable(block) /\ Current(block)
      /\ step < max_steps /\ TypeOK /\ step \in Nat /\ max_steps \in Nat
  BY DispatcherAssumption DEF DispatcherInv, Runnable, TypeOK
<1>1. CASE ExecUnpatched
  <2>1. tr.arena[host].branch = 0 /\ host \in DOMAIN tr.arena
    BY <1>0, <1>1, CurrentBlock, Zenon DEF ExecUnpatched
  <2>2. threading = block
    BY <1>1, Zenon DEF ExecUnpatched, threading
  <2> QED BY <1>0, <1>1, <2>1, <2>2, CurrentBlock, Zenon
          DEF ExecUnpatched, Runnable, Record
<1>2. CASE ExecPatched
  <2>1. /\ patched \in Ref /\ Current(patched) /\ patched # None
        /\ direct_exit_is_patched(tr, block.pc)
        /\ TargetOf(tr, block.pc) = patched.pc
    BY <1>2, DispatcherAssumption, Zenon DEF ExecPatched, Runnable
  <2>2. block.pc \in PC /\ ~ direct_exit_is_patched(tr, patched.pc)
    BY <1>0, <2>1, CurrentBlock, Zenon DEF PatchInv, NoChain
  <2>3. tr.arena[patched.entry].branch = 0
    BY <1>0, <2>1, <2>2, CurrentBlock, Zenon
  <2>4. tr.arena[block.entry].branch = patched.entry /\ patched.entry # 0
    BY <1>0, <2>1, CurrentBlock DEF Current, Ref
  <2>5. auto_patch_safe(tr.by_addr[block.pc].content_hash)
    BY <1>0, <2>1, <2>2, Zenon DEF PatchInv, PatchesAllowed, Patchable
  <2>6. threading = patched
    BY <2>1, Zenon DEF threading
  <2>7. CASE host = block.entry /\ ran = step
    BY <1>0, <1>2, <2>1, <2>4, <2>5, <2>7, CurrentBlock, Zenon DEF Runnable, Record
  <2>8. CASE host = patched.entry /\ ran = step + 1
    <3>1. memory[patched.pc] = tr.by_addr[patched.pc].content_hash
          /\ patched.pc \notin halt_pcs /\ max_steps - step >= 2
      BY <1>2, Zenon DEF ExecPatched, Runnable
    <3>2. ran < max_steps /\ ran + 1 = step + 2
      BY <1>0, <2>8, <3>1
    <3> QED BY <1>0, <2>1, <2>3, <2>6, <2>8, <3>1, <3>2, CurrentBlock, Zenon DEF Record
  <2> QED BY <1>2, <2>7, <2>8, Zenon DEF ExecPatched
<1> QED BY <1>1, <1>2, Zenon DEF DispatcherInv

\* Following a patched branch: the source stores nothing, so the target is
\* as fresh as when the dispatcher looked.
LEMMA HostBranchStep ==
  ASSUME DispatcherInv, HostBranch PROVE DispatcherInv'
<1>0. /\ ctl = "exec" /\ tr.arena[host].branch # 0
      /\ host' = tr.arena[host].branch /\ Count
      /\ UNCHANGED <<tr, halt_pcs, ctl, exit, pc, step, max_steps, block, patched>>
  BY Zenon DEF HostBranch
<1>1. /\ ExecPatched /\ host = block.entry /\ ran = step
      /\ tr.arena[host].branch = patched.entry /\ ran < max_steps
      /\ auto_patch_safe(tr.arena[host].code)
  BY <1>0, Executing, Zenon
<1>2. memory' = memory
  BY <1>1 DEF HostBranch, Stores, auto_patch_safe
<1>3. ran \in Nat /\ max_steps \in Nat /\ patched \in Ref /\ step \in Nat
  BY <1>1, DispatcherAssumption DEF DispatcherInv, TypeOK, ExecPatched
<1>4. ran' = step + 1
  BY <1>0, <1>1, <1>3 DEF Count
<1>5. TypeOK'
  <2>1. host' \in 0 .. PoolBlocks /\ ran' \in Nat
    BY <1>0, <1>1, <1>3, <1>4, TranslatorAssumption DEF Ref
  <2> QED BY <1>0, <1>2, <2>1, Zenon DEF DispatcherInv, TypeOK
<1>6. Runnable(block)' /\ ExecPatched'
  <2>1. Runnable(block) /\ Runnable(patched)
    BY <1>0, <1>1, Zenon DEF DispatcherInv, ExecPatched
  <2>2. Runnable(block)' /\ Runnable(patched)'
    BY <1>0, <1>2, <2>1, Zenon DEF Runnable, Current
  <2>3. host' = patched'.entry /\ ran' = step' + 1
    BY <1>0, <1>1, <1>4, Zenon
  <2> QED BY <1>0, <1>1, <2>2, <2>3, Zenon DEF ExecPatched
<1> QED BY <1>0, <1>5, <1>6, Zenon DEF DispatcherInv

\* Returning to the dispatcher: the blocks accounted are those executed.
LEMMA HostReturnStep ==
  ASSUME DispatcherInv, HostReturn PROVE DispatcherInv'
<1> DEFINE c == tr.arena[host].code
<1>0. /\ ctl = "exec" /\ tr.arena[host].branch = 0 /\ Count
      /\ memory' \in Stores(c) /\ pc' \in Successors(c)
      /\ step' = step + (IF patched = None THEN 1 ELSE 2) /\ ctl' = "thread"
      /\ UNCHANGED <<tr, halt_pcs, exit, max_steps, block, patched, host>>
  BY Zenon DEF HostReturn
<1>1. /\ host \in DOMAIN tr.arena /\ c \in Code /\ ran < max_steps
      /\ ran + 1 = step + (IF patched = None THEN 1 ELSE 2)
      /\ host = threading.entry
  BY <1>0, Executing, Zenon
<1> HIDE DEF c
<1>2. c \in Shape
  BY <1>1, TranslatorAssumption, Zenon
<1>3. pc' \in PC
  BY <1>0, <1>2, Zenon DEF Successors, Shape, ExitKind
<1>4. memory' \in [PC -> Code \cup {NoBytes}]
  BY <1>0 DEF Stores, DispatcherInv, TypeOK
<1>5. ran \in Nat /\ max_steps \in Nat
  BY DispatcherAssumption DEF DispatcherInv, TypeOK
<1>6. ran' = ran + 1 /\ step' = ran' /\ step' <= max_steps' /\ step' \in Nat
  BY <1>0, <1>1, <1>5 DEF Count
<1>7. TypeOK'
  BY <1>0, <1>3, <1>4, <1>6, Zenon DEF DispatcherInv, TypeOK, Ctl
<1>8. threading' = threading
  BY <1>0, Zenon DEF threading
<1> QED BY <1>0, <1>1, <1>6, <1>7, <1>8, Zenon DEF DispatcherInv

\* The invariant is inductive.
LEMMA DispatcherInductive ==
  DispatcherInv /\ [Next]_vars => DispatcherInv'
<1> SUFFICES ASSUME DispatcherInv, [Next]_vars PROVE DispatcherInv'
  BY Zenon
<1>1. ASSUME NEW p \in PC, add_halt_pc(p) PROVE DispatcherInv'
  BY <1>1, Zenon DEF add_halt_pc, DispatcherInv, TypeOK
<1>2. ASSUME NEW p \in PC, NEW c \in Code \cup {NoBytes}, Remap(p, c)
      PROVE DispatcherInv'
  BY <1>2, Zenon DEF Remap, DispatcherInv, TypeOK
<1>3. ASSUME NEW p \in PC, NEW n \in 0 .. MaxSteps, Run(p, n)
      PROVE DispatcherInv'
  BY <1>3, DispatcherAssumption DEF Run, DispatcherInv, TypeOK, Ctl
<1>4. CASE LoopEnd
  <2>1. PatchInv(tr') /\ UNCHANGED <<memory, halt_pcs>>
    BY <1>4, Zenon DEF LoopEnd, DispatcherInv
  <2> QED BY <1>4, <2>1, FinishStep, Zenon DEF LoopEnd
<1>5. CASE LoopHalt
  <2>1. PatchInv(tr') /\ UNCHANGED <<memory, halt_pcs>>
    BY <1>5, Zenon DEF LoopHalt, DispatcherInv
  <2> QED BY <1>5, <2>1, FinishStep, Zenon DEF LoopHalt
<1>6. CASE LoopFetchFailed
  <2>1. PatchInv(tr') /\ UNCHANGED <<memory, halt_pcs>>
    BY <1>6, Zenon DEF LoopFetchFailed, DispatcherInv
  <2> QED BY <1>6, <2>1, FinishStep, Zenon DEF LoopFetchFailed
<1>7. CASE LoopTranslate
  BY <1>7, LoopTranslateStep, Zenon
<1>8. CASE Enter
  BY <1>8, EnterStep
<1>9. CASE HostBranch
  BY <1>9, HostBranchStep
<1>10. CASE HostReturn
  BY <1>10, HostReturnStep
<1>11. CASE ThreadBreak
  BY <1>11, TranslatorAssumption
     DEF ThreadBreak, DispatcherInv, TypeOK, Ctl
<1>12. CASE ThreadFetchFailed
  <2>1. PatchInv(tr') /\ UNCHANGED <<memory, halt_pcs>>
    BY <1>12, Zenon DEF ThreadFetchFailed, DispatcherInv
  <2> QED BY <1>12, <2>1, FinishStep, Zenon DEF ThreadFetchFailed
<1>13. CASE ThreadNext
  BY <1>13, ThreadNextStep
<1>14. CASE UNCHANGED vars
  BY <1>14 DEF vars, DispatcherInv, TypeOK, Runnable, Current, ExecUnpatched,
     ExecPatched, threading
<1> QED
  BY Zenon, <1>1, <1>2, <1>3, <1>4, <1>5, <1>6, <1>7, <1>8, <1>9, <1>10, <1>11,
     <1>12, <1>13, <1>14 DEF Next, Dispatch

\* The dispatcher stays type-correct and its inductive invariant holds.
THEOREM DispatcherCorrect == Spec => []DispatcherInv
<1> QED BY DispatcherInit, DispatcherInductive, PTL DEF Spec

\* The block table, the reverse index and the branch words agree, and
\* patched branches never chain, for every guest and pool size.
THEOREM PatchingIsConsistent == Spec => []PatchingConsistent
<1>1. DispatcherInv => PatchingConsistent
  BY Zenon DEF DispatcherInv, PatchingConsistent
<1> QED BY <1>1, DispatcherCorrect, PTL

\* The host only executes translations of the bytes that are in memory.
THEOREM ExecutionIsFresh == Spec => []FreshExecution
<1>1. DispatcherInv => FreshExecution
  BY Executing, Zenon DEF FreshExecution
<1> QED BY <1>1, DispatcherCorrect, PTL

\* No block that starts at a halt pc is executed.
THEOREM HaltIsRespected == Spec => []HaltRespected
<1>1. DispatcherInv => HaltRespected
  BY Executing, Zenon DEF HaltRespected
<1> QED BY <1>1, DispatcherCorrect, PTL

\* The host executes at most max_steps blocks in a run.
THEOREM BudgetIsKept == Spec => []StepBudget
<1>1. DispatcherInv => StepBudget
  <2> SUFFICES ASSUME DispatcherInv PROVE StepBudget
    BY Zenon
  <2>1. ran \in Nat /\ step \in Nat /\ max_steps \in Nat
    BY DispatcherAssumption DEF DispatcherInv, TypeOK
  <2>2. CASE ctl = "exec"
    BY <2>1, <2>2, Executing DEF StepBudget
  <2>3. CASE ctl # "exec"
    BY <2>3, Zenon DEF DispatcherInv, StepBudget
  <2> QED BY <2>2, <2>3, Zenon
<1> QED BY <1>1, DispatcherCorrect, PTL

\* The dispatcher accounts exactly the blocks that the host executed.
THEOREM AccountingIsExact == Spec => []AccountingExact
<1>1. DispatcherInv => AccountingExact
  BY Zenon DEF DispatcherInv, AccountingExact
<1> QED BY <1>1, DispatcherCorrect, PTL

\* The guest returns from the block the dispatcher threads from.
THEOREM ReturnsAsExpected == Spec => []ReturnsFromThreadingBlock
<1>1. DispatcherInv => ReturnsFromThreadingBlock
  <2> SUFFICES ASSUME DispatcherInv PROVE ReturnsFromThreadingBlock
    OBVIOUS
  <2>1. ctl = "thread" => host = threading.entry
    BY Zenon DEF DispatcherInv
  <2>2. ASSUME ctl = "exec", tr.arena[host].branch # 0
        PROVE  /\ host = block.entry /\ patched # None
               /\ tr.arena[host].branch = patched.entry
    BY <2>2, Executing, DispatcherAssumption, Zenon DEF ExecPatched
  <2> QED BY <2>1, <2>2, Zenon DEF ReturnsFromThreadingBlock
<1> QED BY <1>1, DispatcherCorrect, PTL
=============================================================================
