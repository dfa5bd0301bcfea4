---------------------------- MODULE MCDispatcher ----------------------------
(* Guest code in which direct jumps form cycles and one block stores.      *)
EXTENDS Dispatcher

Sh(k, t, f, s) ==
  [ok |-> TRUE, exit_kind |-> k, target |-> t, fallthrough |-> f,
   stores |-> s]

\* Jumps to each other and to themselves, and a call (which stores).  The
\* pool runs out after PoolBlocks blocks, so translations fail too.
MCCode == {Sh("JumpRel", 1, 1, FALSE), Sh("JumpRel", 2, 2, FALSE),
           Sh("CallRel", 2, 2, FALSE)}
=============================================================================
