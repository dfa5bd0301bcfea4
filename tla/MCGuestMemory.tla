--------------------------- MODULE MCGuestMemory ---------------------------
(* An image of one read-only region and a stack, in a space of a few       *)
(* addresses.                                                              *)
EXTENDS GuestMemory, TLC

MCLayout == <<[base |-> 2, len |-> 1, writable |-> FALSE],
              [base |-> 6, len |-> 1, writable |-> TRUE]>>

MCArenaWindow == 2 .. 6
=============================================================================
