----------------------------- MODULE MCSmcGuard -----------------------------
(* A block on one page, and one that spans two.                            *)
EXTENDS SmcGuard, TLC

MCCover == 1 :> {0} @@ 2 :> {0, 1}
=============================================================================
