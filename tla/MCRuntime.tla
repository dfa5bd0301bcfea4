------------------------------ MODULE MCRuntime ------------------------------
(***************************************************************************)
(* Four bytes on two pages of two.  The block at 1 spans both pages, the   *)
(* block at 2 lies on the second, and 9 is not mapped.                     *)
(***************************************************************************)
EXTENDS Runtime

MCCodeLen(content) == 1 + content[1]
MCBytes == 0 .. 3
MCImage == [a \in MCBytes |-> 0]
MCPCs == {1, 2, 9}
MCLimits == {<<0, 0>>, <<1, 0>>, <<2, 2>>}
=============================================================================
