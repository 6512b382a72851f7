------------------------------ MODULE Descriptors ------------------------------
(***************************************************************************)
(* Who owns which file descriptor: hwc_device_open and hwc_device_close,   *)
(* with EinkCompositorWorker's Init and destructor between them, and the   *)
(* fences of the frames.  The process is not alone: other code in it opens *)
(* and closes files, and the kernel gives out the lowest number that is    *)
(* free, so that a number closed twice may be somebody else's by then.     *)
(***************************************************************************)
EXTENDS Integers, FiniteSets

CONSTANTS
  Fds,        \* the numbers the process may use
  MaxOpens,   \* bound: hwc_device_open
  MaxFrames,  \* bound: frames
  MaxOthers,  \* bound: files of other code
  MaxFaults   \* bound: failing calls

ASSUME DescriptorConstants ==
  /\ IsFiniteSet(Fds) /\ Fds \subseteq Nat \ {0}
  /\ {MaxOpens, MaxFrames, MaxOthers, MaxFaults} \subseteq Nat

VARIABLES
  fds,           \* per number, who opened it, or "free"
  timeline_fd_, worker_fd, waveform_fd,  \* the members; worker_fd is ebc_fd
  ebc_fd,        \* the global in hwcomposer.cpp
  pc,            \* the step of hwc_device_open, "closed" or "open"
  queued,        \* the acquire fences of the frames the compositor was given
  composing,     \* ... and of the one it composes; -1: none
  opens, frames, others, faults, \* counters of what the bounds bound
  stray,         \* history: whose descriptors were closed for another's
  halfway,       \* history: Init failed after it had opened /dev/ebc
  closes,        \* history: hwc_device_close
  unread         \* history: frames with a fence that showed the last handle

members == <<timeline_fd_, worker_fd, waveform_fd>>
handover == <<queued, composing>>
history == <<stray, halfway, closes, unread>>

vars == <<fds, timeline_fd_, worker_fd, waveform_fd, ebc_fd, pc, queued,
          composing, opens, frames, others, faults, stray, halfway, closes,
          unread>>

Init == /\ fds = [f \in Fds |-> "free"]
        /\ timeline_fd_ = -1 /\ worker_fd = -1 /\ waveform_fd = -1
        /\ ebc_fd = -1
        /\ pc = "closed" /\ queued = {} /\ composing = -1
        /\ opens = 0 /\ frames = 0 /\ others = 0 /\ faults = 0
        /\ stray = {} /\ halfway = FALSE /\ closes = 0 /\ unread = 0
-------------------------------------------------------------------------------
Owned(who) == {f \in Fds : fds[f] = who}

Fault == faults < MaxFaults /\ faults' = faults + 1

(* open gives the lowest free number, and none if all are in use. *)
Lowest(f) == fds[f] = "free" /\ \A g \in Fds : g < f => fds[g] # "free"
Opened(f, who) == fds' = [fds EXCEPT ![f] = who]

(* close frees whatever has the number. *)
Closed(numbers) == [f \in Fds |-> IF f \in numbers THEN "free" ELSE fds[f]]
StrayIn(numbers, mine) == {fds[f] : f \in numbers \cap Fds} \ (mine \cup {"free"})
-------------------------------------------------------------------------------
(* Other code of the process. *)
OtherOpens == /\ others < MaxOthers /\ others' = others + 1
              /\ \E f \in Fds : Lowest(f) /\ Opened(f, "other")
              /\ UNCHANGED <<members, ebc_fd, pc, handover, opens, frames,
                             faults, history>>

OtherCloses == /\ \E f \in Owned("other") : fds' = [fds EXCEPT ![f] = "free"]
               /\ UNCHANGED <<members, ebc_fd, pc, handover, opens, frames,
                              others, faults, history>>
-------------------------------------------------------------------------------
(* hwc_device_open makes a new context. *)
HwcDeviceOpen == /\ pc = "closed" /\ opens < MaxOpens
                 /\ opens' = opens + 1
                 /\ timeline_fd_' = -1 /\ worker_fd' = -1 /\ waveform_fd' = -1
                 /\ pc' = "timeline"
                 /\ UNCHANGED <<fds, ebc_fd, handover, frames, others, faults,
                                history>>

(* The results of the steps are checked; the context is deleted when one
   fails. *)
Failed == Fault /\ pc' = "delete"

(* EinkCompositorWorker::Init: sw_sync_timeline_create and open. *)
TimelineCreate ==
  /\ pc = "timeline"
  /\ \/ \E f \in Fds : /\ Lowest(f) /\ Opened(f, "timeline")
                       /\ timeline_fd_' = f /\ pc' = "open_ebc"
                       /\ UNCHANGED faults
     \/ Failed /\ UNCHANGED <<fds, timeline_fd_>>
  /\ UNCHANGED <<worker_fd, waveform_fd, ebc_fd, handover, opens, frames,
                 others, history>>

OpenEbc ==
  /\ pc = "open_ebc"
  /\ \/ \E f \in Fds : /\ Lowest(f) /\ Opened(f, "worker")
                       /\ worker_fd' = f /\ pc' = "setup"
                       /\ UNCHANGED faults
     \/ Failed /\ worker_fd' = -1 /\ UNCHANGED fds
  /\ UNCHANGED <<timeline_fd_, waveform_fd, ebc_fd, handover, opens, frames,
                 others, history>>

(* EBC_GET_BUFFER_INFO, mmap and EBC_GET_BUFFER: each closes ebc_fd when it
   fails, and leaves the number in ebc_fd. *)
SetupEbc ==
  /\ pc = "setup"
  /\ \/ pc' = "waveform" /\ UNCHANGED <<fds, faults, halfway, stray>>
     \/ /\ Failed
        /\ fds' = Closed({worker_fd})
        /\ stray' = stray \cup StrayIn({worker_fd}, {"worker"})
        /\ halfway' = TRUE
  /\ UNCHANGED <<members, ebc_fd, handover, opens, frames, others, closes,
                 unread>>

OpenWaveform ==
  /\ pc = "waveform"
  /\ \/ \E f \in Fds : /\ Lowest(f) /\ Opened(f, "waveform")
                       /\ waveform_fd' = f /\ pc' = "regal"
                       /\ UNCHANGED faults
     \/ Fault /\ waveform_fd' = -1 /\ pc' = "start" /\ UNCHANGED fds
  /\ UNCHANGED <<timeline_fd_, worker_fd, ebc_fd, handover, opens, frames,
                 others, history>>

(* Variant: the number stays in waveform_fd. *)
WaveformClosed_Kept == waveform_fd

WaveformClosed == -1

(* mmap and EInk_Init close waveform_fd when they fail, pvi_check_wf does not;
   the compositor does without regal mode then. *)
InitRegal ==
  /\ pc = "regal"
  /\ pc' = "start"
  /\ \/ UNCHANGED <<fds, waveform_fd, faults>>
     \/ /\ Fault
        /\ \/ UNCHANGED <<fds, waveform_fd>>
           \/ fds' = Closed({waveform_fd}) /\ waveform_fd' = WaveformClosed
  /\ UNCHANGED <<timeline_fd_, worker_fd, ebc_fd, handover, opens, frames,
                 others, history>>

(* InitWorker of the compositor, hwc_initialize_display, and InitWorker of the
   vsync worker. *)
StartThreads ==
  /\ pc = "start"
  /\ \/ pc' = "hwc_open" /\ UNCHANGED faults
     \/ Failed
  /\ UNCHANGED <<fds, members, ebc_fd, handover, opens, frames, others, history>>

(* hwc_device_open opens /dev/ebc once more, for hwc_post_epd. *)
HwcOpenEbc ==
  /\ pc = "hwc_open"
  /\ \/ \E f \in Fds : /\ Lowest(f) /\ Opened(f, "hwc")
                       /\ ebc_fd' = f /\ pc' = "hwc_setup"
                       /\ UNCHANGED faults
     \/ Failed /\ ebc_fd' = -1 /\ UNCHANGED fds
  /\ UNCHANGED <<members, handover, opens, frames, others, history>>

(* EBC_GET_BUFFER_INFO, mmap; then the client gets the device. *)
HwcSetupEbc ==
  /\ pc = "hwc_setup"
  /\ \/ pc' = "open" /\ UNCHANGED <<fds, faults, stray>>
     \/ /\ Failed
        /\ fds' = Closed({ebc_fd})
        /\ stray' = stray \cup StrayIn({ebc_fd}, {"hwc"})
  /\ UNCHANGED <<members, ebc_fd, handover, opens, frames, others, halfway,
                 closes, unread>>

(* hwc_device_close, when no hwc_set waits for room in the queue; the threads
   are not asked. *)
HwcDeviceClose == /\ pc = "open" /\ Cardinality(queued) <= 1
                  /\ pc' = "delete"
                  /\ closes' = closes + 1
                  /\ UNCHANGED <<fds, members, ebc_fd, handover, opens, frames,
                                 others, faults, stray, halfway, unread>>

(* Variant: the timeline is left open. *)
DestructorCloses_NoTimeline == {worker_fd, waveform_fd} \ {-1}

(* The numbers ~EinkCompositorWorker closes. *)
DestructorCloses == {timeline_fd_, worker_fd, waveform_fd} \ {-1}

(* ~EinkCompositorWorker, with the frames of the queue. *)
DeleteContext ==
  /\ pc = "delete"
  /\ LET mine == {"timeline", "worker", "waveform", "composition"}
         numbers == DestructorCloses \cup queued
     IN  /\ fds' = Closed(numbers)
         /\ stray' = stray \cup StrayIn(numbers, mine)
  /\ queued' = {}
  /\ timeline_fd_' = -1 /\ worker_fd' = -1 /\ waveform_fd' = -1
  /\ pc' = "closed"
  /\ UNCHANGED <<ebc_fd, composing, opens, frames, others, faults, halfway,
                 closes, unread>>
-------------------------------------------------------------------------------
(* hwc_set with a frame that has an acquire fence.  QueueComposite takes the
   fence, unless the frame has the handle of the last one: then nobody closes
   it.  While the panel sleeps, hwc_set waits for the fence and closes it.
   The fences QueueComposite makes go to the client, which has given -1 in
   their places.  One frame is queued and one may wait for its place. *)
HwcSet ==
  /\ pc = "open" /\ frames < MaxFrames /\ frames' = frames + 1
  /\ \E f \in Fds :
       /\ Lowest(f)
       /\ \/ \E same \in BOOLEAN :
               /\ Cardinality(queued) < 2
               /\ Opened(f, IF same THEN "unread" ELSE "composition")
               /\ queued' = IF same THEN queued ELSE queued \cup {f}
               /\ unread' = IF same THEN unread + 1 ELSE unread
          \/ UNCHANGED <<fds, queued, unread>>
  /\ UNCHANGED <<members, ebc_fd, pc, composing, opens, others, faults, stray,
                 halfway, closes>>

(* The compositor thread takes a frame; a thread that still composes for a
   device that was closed is waited for here. *)
Routine == /\ composing = -1
           /\ \E f \in queued : composing' = f /\ queued' = queued \ {f}
           /\ UNCHANGED <<fds, members, ebc_fd, pc, opens, frames, others,
                          faults, history>>

(* Variant: UniqueFd::Close leaves the number, and the destructor closes it
   again. *)
FdClosed_Kept(f) == IF fds[f] = "composition" THEN f ELSE -1

(* fd_ = -1 *)
FdClosed(f) == -1

(* It waits for the frame's fence and closes it, in Compose or, if the wait failed,
   in UniqueFd's destructor. *)
Compose == /\ composing # -1
           /\ fds' = Closed({composing})
           /\ stray' = stray \cup StrayIn({composing}, {"composition"})
           /\ composing' = FdClosed(composing)
           /\ UNCHANGED <<members, ebc_fd, pc, queued, opens, frames, others,
                          faults, halfway, closes, unread>>

Opening == \/ HwcDeviceOpen \/ TimelineCreate \/ OpenEbc \/ SetupEbc
           \/ OpenWaveform \/ InitRegal \/ StartThreads \/ HwcOpenEbc
           \/ HwcSetupEbc

Next == \/ Opening \/ HwcDeviceClose \/ DeleteContext
        \/ HwcSet \/ Routine \/ Compose
        \/ OtherOpens \/ OtherCloses

Spec == Init /\ [][Next]_vars
-------------------------------------------------------------------------------
TypeOK ==
  /\ fds \in [Fds -> {"free", "other", "timeline", "worker", "waveform", "hwc",
                      "composition", "unread"}]
  /\ {timeline_fd_, worker_fd, waveform_fd, ebc_fd, composing} \subseteq Fds \cup {-1}
  /\ queued \subseteq Fds
  /\ pc \in {"closed", "timeline", "open_ebc", "open", "setup", "waveform", "regal",
             "start", "hwc_open", "hwc_setup", "delete"}

(* What this code closes is its own, unless Init failed between opening
   /dev/ebc and starting the thread: then the destructor closes the number
   again, and it may be another's by now. *)
ClosesItsOwn == stray = {} \/ halfway

(* While the device is open, its descriptors and those of its frames are. *)
StaysOpen ==
  stray = {} =>
    /\ \A f \in queued \cup ({composing} \ {-1}) : fds[f] = "composition"
    /\ pc = "open" => /\ timeline_fd_ \in Owned("timeline")
                      /\ worker_fd \in Owned("worker")
                      /\ waveform_fd \in Owned("waveform") \cup {-1}
                      /\ ebc_fd \in Owned("hwc")

(* When the device is closed, all is closed, but for the second descriptor of
   /dev/ebc of each device that had been open, the frame being composed, and
   the fences of the frames that showed the handle of the frame before. *)
NothingLeaks ==
  pc = "closed" /\ stray = {} =>
    /\ Owned("timeline") \cup Owned("worker") \cup Owned("waveform") = {}
    /\ Owned("composition") \subseteq {composing}
    /\ Cardinality(Owned("hwc")) = closes
    /\ Cardinality(Owned("unread")) = unread
===============================================================================
