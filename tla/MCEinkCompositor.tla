--------------------------- MODULE MCEinkCompositor ---------------------------
(* Values of the constants for TLC. *)
EXTENDS EinkCompositor

CONSTANTS h1, h2, h3

(* BufferQueue gives the framebuffer target two or three buffers. *)
DoubleBuffer == {h1, h2}
TripleBuffer == {h1, h2, h3}
===============================================================================
