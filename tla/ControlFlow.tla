----------------------------- MODULE ControlFlow -----------------------------
(***************************************************************************)
(* The control-flow graph of a function and the passes that use it (crate  *)
(* prisma-passes: cfg.rs, global_cse.rs, licm.rs).  A function is          *)
(* [entry, blocks] as in Lowerer.                                          *)
(***************************************************************************)
EXTENDS Passes

\* A sequence without its later duplicates, and the other way round.
Distinct(q) == LET add(acc, x) == IF \E i \in DOMAIN acc : acc[i] = x THEN acc ELSE Append(acc, x)
               IN  Fold(add, << >>, q)
Backwards(q) == [i \in DOMAIN q |-> q[Len(q) + 1 - i]]
Members(q) == {q[i] : i \in DOMAIN q}

-----------------------------------------------------------------------------
\* cfg.rs.

Successors(f, id) ==
  LET targets(acc, s) == acc \o BlockTargets(s)
  IN  IF id \in BlockIds(f) THEN Distinct(Fold(targets, << >>, BlockOf(f, id).stmts)) ELSE << >>

\* postorder: a stack of blocks with the successors they have still to try;
\* a target that is no block is ignored.
RECURSIVE PostorderFrom(_, _, _, _)
PostorderFrom(f, stack, visited, order) ==
  IF stack = << >> THEN order
  ELSE LET top == stack[Len(stack)]
           below == SubSeq(stack, 1, Len(stack) - 1)
           next == top.succs[1]
           frame(id) == [id |-> id, succs |-> SelectSeq(Successors(f, id), LAMBDA s : s \in BlockIds(f))]
           advanced == Append(below, [top EXCEPT !.succs = Tail(@)])
       IN  IF top.succs = << >> THEN PostorderFrom(f, below, visited, Append(order, top.id))
           ELSE IF next \in visited THEN PostorderFrom(f, advanced, visited, order)
           ELSE PostorderFrom(f, Append(advanced, frame(next)), visited \union {next}, order)
Postorder(f) ==
  IF f.entry \notin BlockIds(f) THEN << >>
  ELSE PostorderFrom(f, <<[id |-> f.entry, succs |-> SelectSeq(Successors(f, f.entry), LAMBDA s : s \in BlockIds(f))]>>,
                     {f.entry}, << >>)

\* The blocks of order with an edge to b, in that order.
Preds(f, order, b) == SelectSeq(order, LAMBDA p : b \in Members(Successors(f, p)))

\* intersect: the block with the lower postorder number walks up the tree.
RECURSIVE Intersect(_, _, _, _)
Intersect(idom, num, a, b) ==
  IF a = b THEN a
  ELSE IF num[a] < num[b] THEN Intersect(idom, num, idom[a], b)
  ELSE Intersect(idom, num, a, idom[b])

\* Variant: the first predecessor that has one decides.
FirstIdom(idom, num, preds) ==
  LET known == SelectSeq(preds, LAMBDA p : p \in DOMAIN idom)
  IN  IF known = << >> THEN << >> ELSE <<known[1]>>

\* The new immediate dominator: of the predecessors that have one already.
NewIdom(idom, num, preds) ==
  LET meet(acc, p) == IF p \notin DOMAIN idom THEN acc
                      ELSE IF acc = << >> THEN <<p>> ELSE <<Intersect(idom, num, p, acc[1])>>
  IN  Fold(meet, << >>, preds)

\* One round over the reverse postorder, repeated until nothing changes.
RECURSIVE DominatorsFrom(_, _, _)
DominatorsFrom(f, order, idom) ==
  LET num == [b \in Members(order) |-> CHOOSE i \in DOMAIN order : order[i] = b]
      visit(acc, b) ==
        LET new == NewIdom(acc, num, Preds(f, order, b))
        IN  IF b = f.entry \/ new = << >> THEN acc ELSE Put(acc, b, new[1])
      round == Fold(visit, idom, Backwards(order))
  IN  IF round = idom THEN idom ELSE DominatorsFrom(f, order, round)
Dominators(f) ==
  IF Postorder(f) = << >> THEN << >> ELSE DominatorsFrom(f, Postorder(f), f.entry :> f.entry)

RECURSIVE DominatesIn(_, _, _)
DominatesIn(idom, a, b) ==
  a = b \/ (b \in DOMAIN idom /\ idom[b] # b /\ DominatesIn(idom, a, idom[b]))

\* The walk from the tail of a back edge against the edges; body holds the
\* header from the start.
RECURSIVE LoopBody(_, _, _, _)
LoopBody(f, order, stack, body) ==
  IF stack = << >> THEN body
  ELSE LET n == stack[Len(stack)]
           rest == SubSeq(stack, 1, Len(stack) - 1)
       IN  IF n \in body THEN LoopBody(f, order, rest, body)
           ELSE LoopBody(f, order, rest \o Preds(f, order, n), body \union {n})

\* The edges to a dominator, in the order of the blocks.
BackEdges(f, idom) ==
  LET edge(u) == [i \in DOMAIN Successors(f, u) |-> <<u, Successors(f, u)[i]>>]
      edges(acc, b) == IF b.id \in DOMAIN idom THEN acc \o edge(b.id) ELSE acc
  IN  SelectSeq(Fold(edges, << >>, f.blocks),
                LAMBDA e : e[2] \in DOMAIN idom /\ DominatesIn(idom, e[2], e[1]))

\* natural_loops: one loop for each header, in the order the headers are met.
NaturalLoops(f) ==
  LET grow(back, h) == LET add(acc, e) == IF e[2] = h THEN LoopBody(f, Postorder(f), <<e[1]>>, acc) ELSE acc
                       IN  Fold(add, {h}, back)
      ids == [i \in DOMAIN f.blocks |-> f.blocks[i].id]
      loop(back, h) == [header |-> h, body |-> SelectSeq(ids, LAMBDA b : b \in grow(back, h))]
      loops(back, headers) == [i \in DOMAIN headers |-> loop(back, headers[i])]
      ofEdges(back) == loops(back, Distinct([i \in DOMAIN back |-> back[i][2]]))
  IN  ofEdges(BackEdges(f, Dominators(f)))

-----------------------------------------------------------------------------
\* global_cse.rs: the table at the end of a block is passed on to a block whose
\* only predecessor, and immediate dominator, it is.

WithStmts(f, id, ss) ==
  [f EXCEPT !.blocks = [i \in DOMAIN @ |-> IF @[i].id = id THEN [@[i] EXCEPT !.stmts = ss] ELSE @[i]]]

GlobalCse(f) ==
  LET ids == [i \in DOMAIN f.blocks |-> f.blocks[i].id]
      idom == Dominators(f)
      inherited(tables, b) ==
        LET preds == Preds(f, ids, b)
        IN  IF b # f.entry /\ Len(preds) = 1 /\ idom[b] = preds[1] /\ preds[1] \in DOMAIN tables
            THEN tables[preds[1]] ELSE << >>
      visit(acc, b) ==
        LET end == Fold(CseStep, [out |-> << >>, seen |-> inherited(acc.tables, b)], BlockOf(f, b).stmts)
        IN  [func |-> WithStmts(acc.func, b, end.out), tables |-> Put(acc.tables, b, end.seen)]
  IN  Fold(visit, [func |-> f, tables |-> << >>], Backwards(Postorder(f))).func

-----------------------------------------------------------------------------
\* licm.rs.

StmtIsPure(s) ==
  s.op \in {"Constant", "LoadReg", "BinOp", "WideDiv", "Compare", "Extend", "Truncate", "VecClMul"}

\* Variant: operands the loop defines do not matter.
HoistAnyPure(stmts, bodyRefs) ==
  LET can == {i \in 1 .. Len(stmts) - 1 : stmts[i].res # NoRef /\ StmtIsPure(stmts[i])}
  IN  IF can = {} THEN 0 ELSE CHOOSE i \in can : \A j \in can : i <= j

\* The first statement before the terminator that is pure and reads nothing
\* the loop defines, 0 for none.
HoistAt(stmts, bodyRefs) ==
  LET can == {i \in 1 .. Len(stmts) - 1 :
                /\ stmts[i].res # NoRef /\ StmtIsPure(stmts[i])
                /\ CollectOperandRefs(stmts[i]) \intersect bodyRefs = {}}
  IN  IF can = {} THEN 0 ELSE CHOOSE i \in can : \A j \in can : i <= j

\* The statements of block b that may go, moved one by one before the
\* preheader's terminator; w is [func, refs].
RECURSIVE HoistFrom(_, _, _)
HoistFrom(w, b, preheader) ==
  LET stmts == BlockOf(w.func, b).stmts
      i == HoistAt(stmts, w.refs)
      into == BlockOf(w.func, preheader).stmts
      grown == SubSeq(into, 1, Len(into) - 1) \o <<stmts[i], into[Len(into)]>>
  IN  IF i = 0 THEN w
      ELSE HoistFrom([func |-> WithStmts(WithStmts(w.func, b, Without(stmts, {i})), preheader, grown),
                      refs |-> w.refs \ {stmts[i].res}], b, preheader)

\* Rounds over the body until one changes nothing.
RECURSIVE HoistAll(_, _, _)
HoistAll(w, body, preheader) ==
  LET one(acc, b) == HoistFrom(acc, b, preheader)
      round == Fold(one, w, body)
  IN  IF round = w THEN w ELSE HoistAll(round, body, preheader)

\* A loop is left alone unless its header has one predecessor outside it.
LoopInvariantMotion(f) ==
  LET ids == [i \in DOMAIN f.blocks |-> f.blocks[i].id]
      motion(func, l) ==
        LET outside == SelectSeq(Preds(f, ids, l.header), LAMBDA p : p \notin Members(l.body))
            refs == UNION {UNION {{s.res} \ {NoRef} : s \in Members(BlockOf(func, b).stmts)} : b \in Members(l.body)}
        IN  IF Len(outside) # 1 \/ BlockOf(func, outside[1]).stmts = << >> THEN func
            ELSE HoistAll([func |-> func, refs |-> refs], l.body, outside[1]).func
  IN  Fold(motion, f, NaturalLoops(f))

-----------------------------------------------------------------------------
\* pipeline.rs: default_function_pipeline.
FunctionPipeline == <<"global_cse", "loop_invariant_motion">>
RunFunctionPass(pass, f) ==
  CASE pass = "global_cse" -> GlobalCse(f)
    [] pass = "loop_invariant_motion" -> LoopInvariantMotion(f)

-----------------------------------------------------------------------------
(***************************************************************************)
(* What the graph algorithms compute, stated with paths.                   *)
(***************************************************************************)
\* The blocks reachable from the blocks of S without entering a block of avoid.
RECURSIVE ReachedFrom(_, _, _)
ReachedFrom(f, S, avoid) ==
  LET more == (UNION {Members(Successors(f, b)) : b \in S} \intersect BlockIds(f)) \ (S \union avoid)
  IN  IF more = {} THEN S ELSE ReachedFrom(f, S \union more, avoid)
Reached(f) == ReachedFrom(f, {f.entry}, {})

\* Every path from the entry to b goes through a.
OnEveryPath(f, a, b) == a = b \/ a = f.entry \/ b \notin ReachedFrom(f, {f.entry}, {a})
IsImmediate(f, a, b) ==
  /\ a # b /\ OnEveryPath(f, a, b)
  /\ \A c \in Reached(f) \ {a, b} : OnEveryPath(f, c, b) => OnEveryPath(f, c, a)

Tails(f, h) == {u \in Reached(f) : h \in Members(Successors(f, u)) /\ OnEveryPath(f, h, u)}
ReachesWithout(f, n, h) == n # h /\ ReachedFrom(f, {n}, {h}) \intersect Tails(f, h) # {}
=============================================================================
