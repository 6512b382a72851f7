--------------------------- MODULE DescriptorsProofs ---------------------------
(***************************************************************************)
(* The file descriptors for every finite set of numbers and any number of  *)
(* devices, frames, failures and files of other code: nothing is closed    *)
(* twice unless Init failed halfway, nothing is closed too early, and what *)
(* is left open is counted.                                                *)
(***************************************************************************)
EXTENDS Descriptors, FiniteSetTheorems, TLAPS

(* A member names what was opened for it, and -1 when there is none. *)
MembersOwn ==
  /\ Owned("timeline") = {timeline_fd_} \ {-1}
  /\ Owned("waveform") = {waveform_fd} \ {-1}
  /\ pc # "delete" => Owned("worker") = {worker_fd} \ {-1}

(* A device that is deleted because Init failed names a number in worker_fd
   that was closed, and may be another's. *)
WorkerOwns ==
  pc = "delete" =>
    \/ Owned("worker") = {worker_fd} \ {-1}
    \/ /\ halfway /\ Owned("worker") = {}
       /\ worker_fd \in Fds /\ fds[worker_fd] \in {"free", "other"}

(* What has been opened at each step of hwc_device_open. *)
OpenedSoFar ==
  /\ pc \in {"closed", "timeline"} =>
       timeline_fd_ = -1 /\ worker_fd = -1 /\ waveform_fd = -1
  /\ pc \notin {"closed", "timeline", "delete"} => timeline_fd_ \in Fds
  /\ pc = "open_ebc" => worker_fd = -1
  /\ pc \in {"open_ebc", "setup", "waveform"} => waveform_fd = -1
  /\ pc \in {"setup", "waveform", "regal", "start", "hwc_open", "hwc_setup",
             "open"} => worker_fd \in Fds
  /\ pc = "regal" => waveform_fd \in Fds
  /\ pc \in {"hwc_setup", "open"} => ebc_fd \in Owned("hwc")
  /\ pc \notin {"open", "delete"} => queued = {}

(* The fences of the frames that were given to the compositor. *)
FramesOwn ==
  /\ Owned("composition") = queued \cup ({composing} \ {-1})
  /\ composing \notin queued

(* What is never closed. *)
LeftOpen ==
  /\ Cardinality(Owned("hwc")) =
       closes + (IF pc \in {"hwc_setup", "open"} THEN 1 ELSE 0)
  /\ Cardinality(Owned("unread")) = unread

Tidy == MembersOwn /\ WorkerOwns /\ OpenedSoFar /\ FramesOwn /\ LeftOpen

CountersOK == closes \in Nat /\ unread \in Nat

IInv == /\ TypeOK /\ CountersOK /\ ClosesItsOwn
        /\ stray = {} => Tidy
-------------------------------------------------------------------------------
(***************************************************************************)
(* Opening and closing.                                                    *)
(***************************************************************************)
Owners == {"free", "other", "timeline", "worker", "waveform", "hwc",
           "composition", "unread"}

LEMMA OwnedIsFinite ==
  \A who : IsFiniteSet(Owned(who)) /\ Cardinality(Owned(who)) \in Nat
<1> TAKE who
<1>1. Owned(who) \subseteq Fds
  BY DEF Owned
<1> QED
  BY <1>1, FS_Subset, FS_CardinalityType, DescriptorConstants

LEMMA OpeningGives ==
  ASSUME fds \in [Fds -> Owners], NEW f \in Fds, fds[f] = "free",
         NEW who \in Owners \ {"free"}, fds' = [fds EXCEPT ![f] = who]
  PROVE  /\ fds' \in [Fds -> Owners]
         /\ Owned(who)' = Owned(who) \cup {f} /\ f \notin Owned(who)
         /\ \A other \in Owners \ {"free", who} : Owned(other)' = Owned(other)
         /\ Cardinality(Owned(who)') = Cardinality(Owned(who)) + 1
<1>1. Owned(who)' = Owned(who) \cup {f} /\ f \notin Owned(who)
  BY DEF Owned
<1>2. Cardinality(Owned(who)') = Cardinality(Owned(who)) + 1
  BY <1>1, OwnedIsFinite, FS_AddElement
<1> QED
  BY <1>1, <1>2 DEF Owned

LEMMA ClosingTakes ==
  ASSUME fds \in [Fds -> Owners], NEW numbers, fds' = Closed(numbers)
  PROVE  /\ fds' \in [Fds -> Owners]
         /\ \A who \in Owners \ {"free"} : Owned(who)' = Owned(who) \ numbers
         /\ \A f \in Fds : fds'[f] = IF f \in numbers THEN "free" ELSE fds[f]
<1>1. \A f \in Fds : fds'[f] = IF f \in numbers THEN "free" ELSE fds[f]
  BY DEF Closed
<1>2. fds' \in [Fds -> Owners]
  BY DEF Closed, Owners
<1> QED
  BY <1>1, <1>2 DEF Owned

LEMMA InitInv == Init => IInv
<1> SUFFICES ASSUME Init PROVE IInv
  OBVIOUS
<1>1. \A who \in Owners \ {"free"} : Owned(who) = {}
  BY DEF Init, Owned
<1>2. TypeOK /\ CountersOK /\ ClosesItsOwn
  BY DEF Init, TypeOK, CountersOK, ClosesItsOwn
<1>3. MembersOwn /\ WorkerOwns /\ OpenedSoFar /\ FramesOwn
  BY <1>1 DEF Init, MembersOwn, WorkerOwns, OpenedSoFar, FramesOwn, Owners
<1>4. LeftOpen
  <2>1. Cardinality({}) = 0
    BY FS_EmptySet
  <2>2. Owned("hwc") = {} /\ Owned("unread") = {}
    BY <1>1 DEF Owners
  <2>3. closes = 0 /\ unread = 0 /\ pc = "closed"
    BY DEF Init
  <2> QED
    BY <2>1, <2>2, <2>3 DEF LeftOpen
<1> QED
  BY <1>2, <1>3, <1>4 DEF IInv, Tidy
-------------------------------------------------------------------------------
(***************************************************************************)
(* Type correctness.                                                       *)
(***************************************************************************)
LEMMA TypeStep ==
  ASSUME TypeOK, CountersOK, Next
  PROVE  TypeOK' /\ CountersOK'
<1> USE DescriptorConstants DEF TypeOK, CountersOK, members, handover, history
<1>0. fds \in [Fds -> Owners]
  BY DEF Owners
<1>1. CASE OtherOpens
  BY <1>1 DEF OtherOpens, Opened, Lowest
<1>2. CASE OtherCloses
  BY <1>2 DEF OtherCloses, Owned
<1>3. CASE HwcDeviceOpen
  BY <1>3 DEF HwcDeviceOpen
<1>4. CASE TimelineCreate
  BY <1>4 DEF TimelineCreate, Opened, Failed
<1>5. CASE OpenEbc
  BY <1>5 DEF OpenEbc, Opened, Failed
<1>6. CASE SetupEbc
  BY <1>6 DEF SetupEbc, Closed, Failed
<1>7. CASE OpenWaveform
  BY <1>7 DEF OpenWaveform, Opened
<1>8. CASE InitRegal
  BY <1>8 DEF InitRegal, Closed, WaveformClosed
<1>9. CASE StartThreads
  BY <1>9 DEF StartThreads, Failed
<1>10. CASE HwcOpenEbc
  BY <1>10 DEF HwcOpenEbc, Opened, Failed
<1>11. CASE HwcSetupEbc
  BY <1>11 DEF HwcSetupEbc, Closed, Failed
<1>12. CASE HwcDeviceClose
  BY <1>12 DEF HwcDeviceClose
<1>13. CASE DeleteContext
  BY <1>13 DEF DeleteContext, Closed
<1>14. CASE HwcSet
  <2>1. ASSUME NEW f \in Fds, NEW same \in BOOLEAN,
               Opened(f, IF same THEN "unread" ELSE "composition"),
               queued' = IF same THEN queued ELSE queued \cup {f},
               unread' = IF same THEN unread + 1 ELSE unread
        PROVE  /\ fds' \in [Fds -> Owners] /\ queued' \subseteq Fds
               /\ unread' \in Nat
    BY <1>0, <2>1 DEF Opened, Owners
  <2>2. /\ fds' \in [Fds -> Owners] /\ queued' \subseteq Fds /\ unread' \in Nat
    BY <1>0, <1>14, <2>1 DEF HwcSet
  <2> QED
    BY <1>14, <2>2 DEF HwcSet, Owners
<1>15. CASE Routine
  BY <1>15 DEF Routine
<1>16. CASE Compose
  BY <1>16 DEF Compose, Closed, FdClosed
<1> QED
  BY <1>1, <1>2, <1>3, <1>4, <1>5, <1>6, <1>7, <1>8, <1>9, <1>10, <1>11, <1>12,
     <1>13, <1>14, <1>15, <1>16 DEF Next, Opening
-------------------------------------------------------------------------------
(***************************************************************************)
(* Every step keeps the descriptors tidy, or closes another's.             *)
(***************************************************************************)
LEMMA StrayStays == Next => stray \subseteq stray' /\ (halfway => halfway')
BY DEF Next, Opening, OtherOpens, OtherCloses, HwcDeviceOpen, TimelineCreate,
       OpenEbc, SetupEbc, OpenWaveform, InitRegal, StartThreads, HwcOpenEbc,
       HwcSetupEbc, HwcDeviceClose, DeleteContext, HwcSet, Routine, Compose,
       history

(* The steps that open or close nothing, nor touch a member. *)
LEMMA AsideStep ==
  ASSUME IInv, stray = {}, StartThreads \/ HwcDeviceClose \/ Routine \/ HwcDeviceOpen
  PROVE  Tidy' /\ stray' = {}
<1> USE DEF members, handover, history
<1>0. TypeOK /\ CountersOK /\ Tidy
  BY DEF IInv
<1>1. \A who : UNCHANGED fds => Owned(who)' = Owned(who)
  BY DEF Owned
<1>2. CASE StartThreads
  BY <1>0, <1>1, <1>2
     DEF StartThreads, Failed, Tidy, MembersOwn, WorkerOwns, OpenedSoFar,
         FramesOwn, LeftOpen
<1>3. CASE HwcDeviceClose
  BY <1>0, <1>1, <1>3
     DEF HwcDeviceClose, Tidy, MembersOwn, WorkerOwns, OpenedSoFar, FramesOwn,
         LeftOpen, CountersOK
<1>4. CASE Routine
  <2>1. PICK f \in queued : composing' = f /\ queued' = queued \ {f}
    BY <1>4 DEF Routine
  <2>2. FramesOwn'
    BY <1>0, <1>1, <1>4, <2>1 DEF Routine, Tidy, FramesOwn, TypeOK,
                                  DescriptorConstants
  <2> QED
    BY <1>0, <1>1, <1>4, <2>2
       DEF Routine, Tidy, MembersOwn, WorkerOwns, OpenedSoFar, LeftOpen
<1>5. CASE HwcDeviceOpen
  BY <1>0, <1>1, <1>5
     DEF HwcDeviceOpen, Tidy, MembersOwn, WorkerOwns, OpenedSoFar, FramesOwn,
         LeftOpen
<1> QED
  BY <1>2, <1>3, <1>4, <1>5

(* Other code. *)
LEMMA OthersStep ==
  ASSUME IInv, stray = {}, OtherOpens \/ OtherCloses
  PROVE  Tidy' /\ stray' = {}
<1> USE DEF members, handover, history
<1>0. TypeOK /\ Tidy /\ fds \in [Fds -> Owners]
  BY DEF IInv, TypeOK, Owners
<1>1. /\ \A who \in Owners \ {"free", "other"} : Owned(who)' = Owned(who)
      /\ \A f \in Fds : fds[f] \in {"free", "other"} => fds'[f] \in {"free", "other"}
  BY <1>0 DEF OtherOpens, OtherCloses, Opened, Lowest, Owned, Owners
<1>2. UNCHANGED <<members, ebc_fd, pc, handover, history>>
  BY DEF OtherOpens, OtherCloses
<1> QED
  BY <1>0, <1>1, <1>2
     DEF Tidy, MembersOwn, WorkerOwns, OpenedSoFar, FramesOwn, LeftOpen, Owners

(* The steps of hwc_device_open that open a file. *)
LEMMA OpeningStep ==
  ASSUME IInv, stray = {},
         TimelineCreate \/ OpenEbc \/ OpenWaveform \/ HwcOpenEbc
  PROVE  Tidy' /\ stray' = {}
<1> USE DEF members, handover, history
<1>0. TypeOK /\ CountersOK /\ Tidy /\ fds \in [Fds -> Owners]
  BY DEF IInv, TypeOK, Owners
<1>1. \A who : UNCHANGED fds => Owned(who)' = Owned(who)
  BY DEF Owned
<1>2. \A f \in Fds : f # -1
  BY DescriptorConstants
<1>3. ASSUME NEW f \in Fds, Lowest(f), NEW who \in {"timeline", "worker",
             "waveform", "hwc"}, Opened(f, who)
      PROVE  /\ Owned(who)' = Owned(who) \cup {f}
             /\ \A other \in Owners \ {"free", who} : Owned(other)' = Owned(other)
             /\ Cardinality(Owned(who)') = Cardinality(Owned(who)) + 1
  <2>1. fds[f] = "free" /\ fds' = [fds EXCEPT ![f] = who]
          /\ who \in Owners \ {"free"}
    BY <1>3 DEF Lowest, Opened, Owners
  <2> QED
    BY <1>0, <2>1, OpeningGives
<1>4. CASE TimelineCreate
  <2>1. ASSUME NEW f \in Fds, Lowest(f), Opened(f, "timeline"),
               timeline_fd_' = f, pc' = "open_ebc"
        PROVE  Tidy'
    BY <1>0, <1>2, <1>3, <1>4, <2>1
       DEF TimelineCreate, Tidy, MembersOwn, WorkerOwns, OpenedSoFar,
           FramesOwn, LeftOpen, Owners
  <2>2. CASE Failed /\ UNCHANGED <<fds, timeline_fd_>>
    BY <1>0, <1>1, <1>4, <2>2
       DEF TimelineCreate, Failed, Tidy, MembersOwn, WorkerOwns, OpenedSoFar,
           FramesOwn, LeftOpen
  <2> QED
    BY <1>4, <2>1, <2>2 DEF TimelineCreate
<1>5. CASE OpenEbc
  <2>1. ASSUME NEW f \in Fds, Lowest(f), Opened(f, "worker"),
               worker_fd' = f, pc' = "setup"
        PROVE  Tidy'
    BY <1>0, <1>2, <1>3, <1>5, <2>1
       DEF OpenEbc, Tidy, MembersOwn, WorkerOwns, OpenedSoFar, FramesOwn,
           LeftOpen, Owners
  <2>2. CASE Failed /\ worker_fd' = -1 /\ UNCHANGED fds
    BY <1>0, <1>1, <1>5, <2>2
       DEF OpenEbc, Failed, Tidy, MembersOwn, WorkerOwns, OpenedSoFar,
           FramesOwn, LeftOpen
  <2> QED
    BY <1>5, <2>1, <2>2 DEF OpenEbc
<1>6. CASE OpenWaveform
  <2>1. ASSUME NEW f \in Fds, Lowest(f), Opened(f, "waveform"),
               waveform_fd' = f, pc' = "regal"
        PROVE  Tidy'
    BY <1>0, <1>2, <1>3, <1>6, <2>1
       DEF OpenWaveform, Tidy, MembersOwn, WorkerOwns, OpenedSoFar, FramesOwn,
           LeftOpen, Owners
  <2>2. CASE waveform_fd' = -1 /\ pc' = "start" /\ UNCHANGED fds
    BY <1>0, <1>1, <1>6, <2>2
       DEF OpenWaveform, Tidy, MembersOwn, WorkerOwns, OpenedSoFar, FramesOwn,
           LeftOpen
  <2> QED
    BY <1>6, <2>1, <2>2 DEF OpenWaveform
<1>7. CASE HwcOpenEbc
  <2>1. ASSUME NEW f \in Fds, Lowest(f), Opened(f, "hwc"),
               ebc_fd' = f, pc' = "hwc_setup"
        PROVE  Tidy'
    BY <1>0, <1>2, <1>3, <1>7, <2>1
       DEF HwcOpenEbc, Tidy, MembersOwn, WorkerOwns, OpenedSoFar, FramesOwn,
           LeftOpen, Owners, CountersOK
  <2>2. CASE Failed /\ ebc_fd' = -1 /\ UNCHANGED fds
    BY <1>0, <1>1, <1>7, <2>2
       DEF HwcOpenEbc, Failed, Tidy, MembersOwn, WorkerOwns, OpenedSoFar,
           FramesOwn, LeftOpen
  <2> QED
    BY <1>7, <2>1, <2>2 DEF HwcOpenEbc
<1> QED
  BY <1>4, <1>5, <1>6, <1>7
     DEF TimelineCreate, OpenEbc, OpenWaveform, HwcOpenEbc

(* The steps of hwc_device_open that close a file when they fail. *)
LEMMA FailingStep ==
  ASSUME IInv, stray = {}, SetupEbc \/ InitRegal \/ HwcSetupEbc
  PROVE  Tidy' /\ stray' = {}
<1> USE DEF members, handover, history
<1>0. TypeOK /\ CountersOK /\ Tidy /\ fds \in [Fds -> Owners]
  BY DEF IInv, TypeOK, Owners
<1>1. \A who : UNCHANGED fds => Owned(who)' = Owned(who)
  BY DEF Owned
<1>2. \A f \in Fds : f # -1
  BY DescriptorConstants
<1>3. CASE SetupEbc
  <2>1. CASE pc' = "waveform" /\ UNCHANGED <<fds, faults, halfway, stray>>
    BY <1>0, <1>1, <1>3, <2>1
       DEF SetupEbc, Tidy, MembersOwn, WorkerOwns, OpenedSoFar, FramesOwn,
           LeftOpen
  <2>2. CASE /\ Failed
             /\ fds' = Closed({worker_fd})
             /\ stray' = stray \cup StrayIn({worker_fd}, {"worker"})
             /\ halfway' = TRUE
    <3>1. /\ Owned("worker") = {worker_fd} /\ worker_fd \in Fds
          /\ fds[worker_fd] = "worker" /\ pc = "setup"
      BY <1>0, <1>2, <1>3 DEF SetupEbc, Tidy, MembersOwn, OpenedSoFar, Owned
    <3>2. stray' = {}
      BY <2>2, <3>1 DEF StrayIn
    <3>3. /\ \A who \in Owners \ {"free", "worker"} : Owned(who)' = Owned(who)
          /\ Owned("worker")' = {} /\ fds'[worker_fd] = "free"
      <4>1. \A who \in Owners \ {"free", "worker"} : worker_fd \notin Owned(who)
        BY <3>1 DEF Owned
      <4> QED
        BY <1>0, <2>2, <3>1, <4>1, ClosingTakes DEF Owners
    <3>4. /\ UNCHANGED <<members, ebc_fd, handover, closes, unread>>
          /\ pc' = "delete" /\ halfway'
      BY <1>3, <2>2 DEF SetupEbc, Failed
    <3> QED
      BY <1>0, <3>1, <3>2, <3>3, <3>4
         DEF Tidy, MembersOwn, WorkerOwns, OpenedSoFar, FramesOwn, LeftOpen,
             Owners
  <2> QED
    BY <1>3, <2>1, <2>2 DEF SetupEbc
<1>4. CASE InitRegal
  <2>1. CASE UNCHANGED <<fds, waveform_fd>>
    BY <1>0, <1>1, <1>4, <2>1
       DEF InitRegal, Tidy, MembersOwn, WorkerOwns, OpenedSoFar, FramesOwn,
           LeftOpen
  <2>2. CASE fds' = Closed({waveform_fd}) /\ waveform_fd' = WaveformClosed
    <3>1. /\ Owned("waveform") = {waveform_fd} /\ waveform_fd \in Fds
          /\ fds[waveform_fd] = "waveform" /\ pc = "regal"
      BY <1>0, <1>2, <1>4 DEF InitRegal, Tidy, MembersOwn, OpenedSoFar, Owned
    <3>2. /\ \A who \in Owners \ {"free", "waveform"} : Owned(who)' = Owned(who)
          /\ Owned("waveform")' = {}
      <4>1. \A who \in Owners \ {"free", "waveform"} : waveform_fd \notin Owned(who)
        BY <3>1 DEF Owned
      <4> QED
        BY <1>0, <2>2, <3>1, <4>1, ClosingTakes DEF Owners
    <3>3. /\ UNCHANGED <<timeline_fd_, worker_fd, ebc_fd, handover, history>>
          /\ pc' = "start" /\ waveform_fd' = -1
      BY <1>4, <2>2 DEF InitRegal, WaveformClosed
    <3> QED
      BY <1>0, <3>1, <3>2, <3>3
         DEF Tidy, MembersOwn, WorkerOwns, OpenedSoFar, FramesOwn, LeftOpen,
             Owners
  <2> QED
    BY <1>4, <2>1, <2>2 DEF InitRegal
<1>5. CASE HwcSetupEbc
  <2>1. CASE pc' = "open" /\ UNCHANGED <<fds, faults, stray>>
    BY <1>0, <1>1, <1>5, <2>1
       DEF HwcSetupEbc, Tidy, MembersOwn, WorkerOwns, OpenedSoFar, FramesOwn,
           LeftOpen
  <2>2. CASE /\ Failed
             /\ fds' = Closed({ebc_fd})
             /\ stray' = stray \cup StrayIn({ebc_fd}, {"hwc"})
    <3>1. /\ ebc_fd \in Fds /\ fds[ebc_fd] = "hwc" /\ pc = "hwc_setup"
      BY <1>0, <1>5 DEF HwcSetupEbc, Tidy, OpenedSoFar, Owned
    <3>2. stray' = {}
      BY <2>2, <3>1 DEF StrayIn
    <3>3. /\ \A who \in Owners \ {"free", "hwc"} : Owned(who)' = Owned(who)
          /\ Owned("hwc")' = Owned("hwc") \ {ebc_fd}
      <4>1. \A who \in Owners \ {"free", "hwc"} : ebc_fd \notin Owned(who)
        BY <3>1 DEF Owned
      <4> QED
        BY <1>0, <2>2, <4>1, ClosingTakes DEF Owners
    <3>4. Cardinality(Owned("hwc")') = Cardinality(Owned("hwc")) - 1
      <4>1. ebc_fd \in Owned("hwc")
        BY <3>1 DEF Owned
      <4> QED
        BY <3>3, <4>1, OwnedIsFinite, FS_RemoveElement
    <3>5. UNCHANGED <<members, handover, halfway, closes, unread>> /\ pc' = "delete"
      BY <1>5, <2>2 DEF HwcSetupEbc, Failed
    <3> QED
      BY <1>0, <3>1, <3>2, <3>3, <3>4, <3>5
         DEF Tidy, MembersOwn, WorkerOwns, OpenedSoFar, FramesOwn, LeftOpen,
             Owners, CountersOK
  <2> QED
    BY <1>5, <2>1, <2>2 DEF HwcSetupEbc
<1> QED
  BY <1>3, <1>4, <1>5

(* ~EinkCompositorWorker: a number that was closed halfway is closed again. *)
LEMMA DeleteStep ==
  ASSUME IInv, stray = {}, DeleteContext
  PROVE  /\ stray' = {} => Tidy'
         /\ stray' = {} \/ halfway'
<1> USE DEF members, handover, history
<1> DEFINE numbers == DestructorCloses \cup queued
           mine == {"timeline", "worker", "waveform", "composition"}
<1>0. TypeOK /\ CountersOK /\ Tidy /\ fds \in [Fds -> Owners]
  BY DEF IInv, TypeOK, Owners
<1>1. /\ fds' = Closed(numbers)
      /\ stray' = StrayIn(numbers, mine)
      /\ queued' = {} /\ UNCHANGED <<ebc_fd, composing, halfway, closes, unread>>
      /\ timeline_fd_' = -1 /\ worker_fd' = -1 /\ waveform_fd' = -1
      /\ pc = "delete" /\ pc' = "closed"
  BY DEF DeleteContext
<1>2. /\ Owned("timeline") = {timeline_fd_} \ {-1}
      /\ Owned("waveform") = {waveform_fd} \ {-1}
      /\ Owned("composition") = queued \cup ({composing} \ {-1})
      /\ composing \notin queued
  BY <1>0 DEF Tidy, MembersOwn, FramesOwn
<1>3. CASE Owned("worker") = {worker_fd} \ {-1}
  <2>1. \A f \in numbers : \/ f \in Owned("timeline") \/ f \in Owned("worker")
                           \/ f \in Owned("waveform")
                           \/ f \in queued /\ f \in Owned("composition")
    BY <1>2, <1>3 DEF DestructorCloses
  <2>2. stray' = {}
    BY <1>1, <2>1 DEF StrayIn, Owned
  <2>3. /\ Owned("timeline")' = {} /\ Owned("worker")' = {}
        /\ Owned("waveform")' = {}
        /\ Owned("composition")' = {composing} \ {-1}
        /\ Owned("hwc")' = Owned("hwc") /\ Owned("unread")' = Owned("unread")
    <3>1. \A who \in Owners \ {"free"} : Owned(who)' = Owned(who) \ numbers
      BY <1>0, <1>1, ClosingTakes
    <3>2. Owned("timeline") \cup Owned("worker") \cup Owned("waveform") \cup queued
            \subseteq numbers
      BY <1>2, <1>3 DEF DestructorCloses
    <3>3. \A f \in numbers : f \notin Owned("hwc") /\ f \notin Owned("unread")
      BY <2>1 DEF Owned
    <3>4. composing \in Fds => composing \notin numbers
      <4>1. composing \in Fds => composing \in Owned("composition")
        BY <1>2, DescriptorConstants
      <4> QED
        BY <1>2, <2>1, <4>1 DEF Owned
    <3>5. composing \in Fds \cup {-1}
      BY <1>0 DEF TypeOK
    <3> HIDE DEF numbers
    <3> QED
      BY <1>2, <3>1, <3>2, <3>3, <3>4, <3>5 DEF Owners
  <2> QED
    BY <1>0, <1>1, <2>2, <2>3
       DEF Tidy, MembersOwn, WorkerOwns, OpenedSoFar, FramesOwn, LeftOpen
<1>4. CASE /\ halfway /\ Owned("worker") = {}
           /\ worker_fd \in Fds /\ fds[worker_fd] \in {"free", "other"}
  <2>1. \A f \in numbers : \/ f \in Owned("timeline") \/ f = worker_fd
                           \/ f \in Owned("waveform")
                           \/ f \in queued /\ f \in Owned("composition")
    BY <1>2 DEF DestructorCloses
  <2>2. /\ Owned("timeline")' = {} /\ Owned("worker")' = {}
        /\ Owned("waveform")' = {}
        /\ Owned("composition")' = {composing} \ {-1}
        /\ Owned("hwc")' = Owned("hwc") /\ Owned("unread")' = Owned("unread")
    <3>1. \A who \in Owners \ {"free"} : Owned(who)' = Owned(who) \ numbers
      BY <1>0, <1>1, ClosingTakes
    <3>2. Owned("timeline") \cup Owned("worker") \cup Owned("waveform") \cup queued
            \subseteq numbers
      BY <1>2, <1>4 DEF DestructorCloses
    <3>3. \A f \in numbers : f \notin Owned("hwc") /\ f \notin Owned("unread")
      BY <1>4, <2>1 DEF Owned
    <3>4. composing \in Fds => composing \notin numbers
      <4>1. composing \in Fds => composing \in Owned("composition")
        BY <1>2, DescriptorConstants
      <4> QED
        BY <1>2, <1>4, <2>1, <4>1 DEF Owned
    <3>5. composing \in Fds \cup {-1}
      BY <1>0 DEF TypeOK
    <3> HIDE DEF numbers
    <3> QED
      BY <1>2, <3>1, <3>2, <3>3, <3>4, <3>5 DEF Owners
  <2> QED
    BY <1>0, <1>1, <1>4, <2>2
       DEF Tidy, MembersOwn, WorkerOwns, OpenedSoFar, FramesOwn, LeftOpen
<1> QED
  BY <1>0, <1>1, <1>3, <1>4 DEF Tidy, WorkerOwns

(* The frames' fences. *)
LEMMA FrameStep ==
  ASSUME IInv, stray = {}, HwcSet \/ Compose
  PROVE  Tidy' /\ stray' = {}
<1> USE DEF members, handover, history
<1>0. TypeOK /\ CountersOK /\ Tidy /\ fds \in [Fds -> Owners]
  BY DEF IInv, TypeOK, Owners
<1>1. \A f \in Fds : f # -1
  BY DescriptorConstants
<1>2. CASE HwcSet
  <2>0. /\ pc = "open"
        /\ UNCHANGED <<members, ebc_fd, pc, composing, stray, halfway, closes>>
    BY <1>2 DEF HwcSet
  <2>1. ASSUME NEW f \in Fds, Lowest(f), NEW same \in BOOLEAN,
               Opened(f, IF same THEN "unread" ELSE "composition"),
               queued' = IF same THEN queued ELSE queued \cup {f},
               unread' = IF same THEN unread + 1 ELSE unread
        PROVE  Tidy'
    <3> DEFINE who == IF same THEN "unread" ELSE "composition"
    <3>1. fds[f] = "free" /\ who \in Owners \ {"free"}
            /\ fds' = [fds EXCEPT ![f] = who]
      BY <2>1 DEF Lowest, Opened, Owners
    <3>2. /\ Owned(who)' = Owned(who) \cup {f} /\ f \notin Owned(who)
          /\ \A other \in Owners \ {"free", who} : Owned(other)' = Owned(other)
          /\ Cardinality(Owned(who)') = Cardinality(Owned(who)) + 1
      <4> HIDE DEF who
      <4> QED
        BY <1>0, <3>1, OpeningGives
    <3>3. CASE same
      BY <1>0, <2>0, <2>1, <3>2, <3>3
         DEF Tidy, MembersOwn, WorkerOwns, OpenedSoFar, FramesOwn, LeftOpen,
             Owners, CountersOK
    <3>4. CASE ~same
      BY <1>0, <1>1, <2>0, <2>1, <3>2, <3>4
         DEF Tidy, MembersOwn, WorkerOwns, OpenedSoFar, FramesOwn, LeftOpen,
             Owners
    <3> QED
      BY <3>3, <3>4
  <2>2. CASE UNCHANGED <<fds, queued, unread>>
    <3>1. \A who : Owned(who)' = Owned(who)
      BY <2>2 DEF Owned
    <3> QED
      BY <1>0, <2>0, <2>2, <3>1
         DEF Tidy, MembersOwn, WorkerOwns, OpenedSoFar, FramesOwn, LeftOpen
  <2> QED
    BY <1>2, <2>0, <2>1, <2>2 DEF HwcSet
<1>3. CASE Compose
  <2>1. /\ composing # -1 /\ composing' = -1
        /\ fds' = Closed({composing})
        /\ stray' = StrayIn({composing}, {"composition"})
        /\ UNCHANGED <<members, ebc_fd, pc, queued, halfway, closes, unread>>
    BY <1>3 DEF Compose, FdClosed
  <2>2. composing \in Fds /\ fds[composing] = "composition"
    BY <1>0, <2>1 DEF Tidy, FramesOwn, Owned
  <2>3. stray' = {}
    BY <2>1, <2>2 DEF StrayIn
  <2>4. /\ \A who \in Owners \ {"free", "composition"} : Owned(who)' = Owned(who)
        /\ Owned("composition")' = Owned("composition") \ {composing}
        /\ fds'[worker_fd] = fds[worker_fd] \/ worker_fd \notin Fds
             \/ worker_fd = composing
    <3>1. \A who \in Owners \ {"free", "composition"} : composing \notin Owned(who)
      BY <2>2 DEF Owned
    <3> QED
      BY <1>0, <2>1, <3>1, ClosingTakes DEF Owners
  <2>5. WorkerOwns'
    BY <1>0, <2>1, <2>2, <2>4 DEF Tidy, WorkerOwns, Owners
  <2>6. MembersOwn' /\ OpenedSoFar'
    BY <1>0, <2>1, <2>4 DEF Tidy, MembersOwn, OpenedSoFar, Owners
  <2>7. FramesOwn'
    BY <1>0, <1>1, <2>1, <2>2, <2>4 DEF Tidy, FramesOwn, TypeOK
  <2>8. LeftOpen'
    BY <1>0, <2>1, <2>4 DEF Tidy, LeftOpen, Owners
  <2> QED
    BY <2>3, <2>5, <2>6, <2>7, <2>8 DEF Tidy
<1> QED
  BY <1>2, <1>3

LEMMA StepInv == IInv /\ [Next]_vars => IInv'
<1> SUFFICES ASSUME IInv, [Next]_vars PROVE IInv'
  OBVIOUS
<1>1. CASE Next
  <2>1. TypeOK' /\ CountersOK'
    BY <1>1, TypeStep DEF IInv
  <2>2. CASE stray = {}
    <3>1. /\ stray' = {} => Tidy'
          /\ stray' = {} \/ halfway'
      BY <1>1, <2>2, AsideStep, OthersStep, OpeningStep, FailingStep,
         DeleteStep, FrameStep DEF Next, Opening
    <3> QED
      BY <2>1, <3>1 DEF IInv, ClosesItsOwn
  <2>3. CASE stray # {}
    BY <1>1, <2>1, <2>3, StrayStays DEF IInv, ClosesItsOwn
  <2> QED
    BY <2>2, <2>3
<1>2. CASE UNCHANGED vars
  BY <1>2 DEF IInv, TypeOK, CountersOK, ClosesItsOwn, Tidy, MembersOwn,
              WorkerOwns, OpenedSoFar, FramesOwn, LeftOpen, Owned, vars
<1> QED
  BY <1>1, <1>2
-------------------------------------------------------------------------------
(***************************************************************************)
(* The theorems.                                                           *)
(***************************************************************************)
LEMMA Invariance == Spec => []IInv
BY InitInv, StepInv, PTL DEF Spec

(* Every member is a number of the process or -1. *)
THEOREM TypeInvariant == Spec => []TypeOK
<1>1. IInv => TypeOK
  BY DEF IInv
<1> QED
  BY <1>1, Invariance, PTL

(* hwc_device_open, ~EinkCompositorWorker and UniqueFd close what they opened,
   unless Init failed between opening /dev/ebc and starting the thread. *)
THEOREM NoStrayClose == Spec => []ClosesItsOwn
<1>1. IInv => ClosesItsOwn
  BY DEF IInv
<1> QED
  BY <1>1, Invariance, PTL

(* A descriptor of an open device and the fence of a queued frame is open until
   its owner closes it. *)
THEOREM OpenWhileUsed == Spec => []StaysOpen
<1>1. IInv => StaysOpen
  <2> SUFFICES ASSUME IInv, stray = {}
               PROVE  /\ \A f \in queued \cup ({composing} \ {-1}) : fds[f] = "composition"
                      /\ pc = "open" => /\ timeline_fd_ \in Owned("timeline")
                                        /\ worker_fd \in Owned("worker")
                                        /\ waveform_fd \in Owned("waveform") \cup {-1}
                                        /\ ebc_fd \in Owned("hwc")
    BY DEF StaysOpen
  <2>1. Tidy /\ \A f \in Fds : f # -1
    BY DescriptorConstants DEF IInv
  <2>2. \A f \in queued \cup ({composing} \ {-1}) : fds[f] = "composition"
    BY <2>1 DEF Tidy, FramesOwn, Owned
  <2> QED
    BY <2>1, <2>2 DEF Tidy, MembersOwn, OpenedSoFar
<1> QED
  BY <1>1, Invariance, PTL

(* hwc_device_close leaves one descriptor of /dev/ebc open each time, and
   QueueComposite the fence of each frame with the handle of the last. *)
THEOREM LeaksAreCounted == Spec => []NothingLeaks
<1>1. IInv => NothingLeaks
  <2> SUFFICES ASSUME IInv, pc = "closed", stray = {}
               PROVE  /\ Owned("timeline") \cup Owned("worker") \cup Owned("waveform") = {}
                      /\ Owned("composition") \subseteq {composing}
                      /\ Cardinality(Owned("hwc")) = closes
                      /\ Cardinality(Owned("unread")) = unread
    BY DEF NothingLeaks
  <2>1. Tidy /\ CountersOK
    BY DEF IInv
  <2>2. Owned("timeline") = {} /\ Owned("worker") = {} /\ Owned("waveform") = {}
    BY <2>1 DEF Tidy, MembersOwn, OpenedSoFar
  <2>3. Cardinality(Owned("hwc")) = closes /\ Cardinality(Owned("unread")) = unread
    BY <2>1 DEF Tidy, LeftOpen, CountersOK
  <2>4. Owned("composition") \subseteq {composing}
    BY <2>1 DEF Tidy, OpenedSoFar, FramesOwn
  <2> QED
    BY <2>2, <2>3, <2>4
<1> QED
  BY <1>1, Invariance, PTL
===============================================================================
