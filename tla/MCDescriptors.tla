----------------------------- MODULE MCDescriptors -----------------------------
(* Numbers enough for two devices, one after the other, with two frames. *)
EXTENDS Descriptors

SomeFds == 3..11
===============================================================================
