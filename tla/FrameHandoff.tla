----------------------------- MODULE FrameHandoff -----------------------------
(***************************************************************************)
(* What the compositor promises to whoever queues frames: frames are shown *)
(* in the order they were offered, none is shown twice, and the buffer of  *)
(* a frame goes back to its owner (its release ticket is punched) only     *)
(* when the frame has left the pipeline.  How the frames travel, and which *)
(* thread does what under which lock, is left to EinkCompositor.           *)
(***************************************************************************)
EXTENDS Integers, Sequences

CONSTANTS
  Capacity,   \* frames that may be between Offer and Finish, at least one
  Ids,        \* identities of frames: positive numbers, newer is larger
  Tickets     \* release points: positive numbers, handed out in order

VARIABLES
  pending,    \* frames offered and not yet finished, oldest first
  issued,     \* the last ticket handed out
  returned,   \* tickets up to this one have been punched
  shown       \* id of the frame on the panel, 0 before the first

vars == <<pending, issued, returned, shown>>

Init == /\ pending = <<>>
        /\ issued = 0
        /\ returned = 0
        /\ shown = 0

(* A new frame: newer than everything in flight or shown, with a new ticket. *)
Offer(f) == /\ Len(pending) < Capacity
            /\ f.id > shown
            /\ \A i \in DOMAIN pending : f.id > pending[i].id
            /\ f.release > issued
            /\ pending' = Append(pending, f)
            /\ issued' = f.release
            /\ UNCHANGED <<returned, shown>>

(* The same picture is presented again: a ticket nobody will wait to reuse. *)
Repeat == /\ issued' = issued + 1
          /\ UNCHANGED <<pending, returned, shown>>

(* The oldest frame reaches the panel, once. *)
Show == /\ pending # <<>>
        /\ shown < Head(pending).id
        /\ shown' = Head(pending).id
        /\ UNCHANGED <<pending, issued, returned>>

(* The oldest frame leaves the pipeline and every older ticket is punched. *)
Finish == /\ pending # <<>>
          /\ returned' = Head(pending).release
          /\ pending' = Tail(pending)
          /\ UNCHANGED <<issued, shown>>

(* The oldest frame is given up; its ticket waits for a later Finish. *)
Drop == /\ pending # <<>>
        /\ pending' = Tail(pending)
        /\ UNCHANGED <<issued, returned, shown>>

Next == \/ \E id \in Ids, t \in Tickets : Offer([id |-> id, release |-> t])
        \/ Repeat
        \/ Show
        \/ Finish
        \/ Drop

Spec == Init /\ [][Next]_vars
===============================================================================
