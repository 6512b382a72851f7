------------------------------ MODULE MCEinkMode ------------------------------
(* Two framebuffer targets, a gray mode, and an A2 mode in one run. *)
EXTENDS EinkMode

CONSTANTS h1, h2

TwoTargets == {h1, h2}
SomeRequests == {"PART_GC16", "A2"}
OneRequest == {"PART_GC16"}
AnyTarget == {[h \in TwoTargets |-> h],
              [h \in TwoTargets |-> IF h = h1 THEN h2 ELSE h1]}
===============================================================================
