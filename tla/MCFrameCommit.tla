----------------------------- MODULE MCFrameCommit -----------------------------
(* Two buffers, so that the one being drawn was sent two frames ago. *)
EXTENDS FrameCommit, TLC

CONSTANTS b1, b2

TwoBuffers == {b1, b2}
Alike == Permutations(TwoBuffers)
SomeModes == {"EPD_FULL_GC16", "EPD_A2", "EPD_A2_DITHER"}
SomeValues == {0, 1}
===============================================================================
