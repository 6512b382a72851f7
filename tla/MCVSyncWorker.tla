----------------------------- MODULE MCVSyncWorker -----------------------------
(* Two hooks. *)
EXTENDS VSyncWorker

CONSTANTS p1, p2

TwoProcs == {p1, p2}
===============================================================================
