---------------------------- MODULE MCDriverBuffers ----------------------------
(* The fewest buffers that work: one for each of the two callers. *)
EXTENDS DriverBuffers

CONSTANTS b1, b2

TwoBuffers == {b1, b2}
===============================================================================
