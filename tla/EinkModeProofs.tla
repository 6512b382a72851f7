---------------------------- MODULE EinkModeProofs ----------------------------
(***************************************************************************)
(* The modes and the power states for every set of targets and requests,   *)
(* every queue depth and any number of calls and failures: how much may    *)
(* cover a standby picture, that EPD_RESUME comes first, that A2 is entered*)
(* through a full refresh, what becomes of a one-full request, and how     *)
(* long the skip count stays after a suspend.                              *)
(***************************************************************************)
EXTENDS EinkMode, TLAPS

(* Who has the lock follows from where the two calls are. *)
LockFollowsPcs ==
  /\ spc = "layers" <=> mEinkModeLock = Set
  /\ ppc # "idle" <=> mEinkModeLock = Power

(* What hwc_set chose fits the power state, which it has made use of. *)
ModeFitsPower ==
  spc = "layers" =>
    /\ gPowerMode # "RESUME"
    /\ DisplayOff => gCurrentEpdMode = "SUSPEND"
    /\ took => gCurrentEpdMode = "FORCE_FULL"

QueueBounded == Len(composite_queue_) <= MaxQueueDepth

(* No frame is younger than the last power-off. *)
EpochsPast ==
  /\ wframe.epoch <= offs
  /\ \A i \in 1..Len(composite_queue_) : composite_queue_[i].epoch <= offs
  /\ ~awake => offs > 0

(* No frame has been queued since the last power-off. *)
NothingNew ==
  /\ wframe.epoch # offs
  /\ \A i \in 1..Len(composite_queue_) : composite_queue_[i].epoch # offs

(* The first frame in the queue that was queued since then resumes. *)
FirstResumes ==
  \E i \in 1..Len(composite_queue_) :
    /\ composite_queue_[i].epoch = offs /\ composite_queue_[i].mode = "RESUME"
    /\ \A j \in 1..(i - 1) : composite_queue_[j].epoch # offs

(* EPD_RESUME is still to come, from the power state, the call, ... *)
ResumeAhead == \/ DisplayOff \/ gPowerMode = "RESUME"
               \/ spc = "layers" /\ gCurrentEpdMode = "RESUME"
               \/ last_fb_handle_mode = "RESUME"

(* ... the queue, or the compositor thread. *)
ResumeKept ==
  ~awake /\ ~lost =>
    \/ wframe.epoch = offs /\ wframe.mode = "RESUME"
    \/ wframe.epoch # offs /\ FirstResumes
    \/ NothingNew /\ ResumeAhead

(* While the standby picture is posted, nothing new is queued. *)
PostedAlone ==
  ppc \in {"white", "logo"} => DisplayOff /\ ~awake /\ NothingNew

(* What is taken for an A2 picture is one, until a standby picture. *)
A2Kept == gLastEpdMode \in A2Modes =>
            panel = "a2" \/ unentered \/ lost \/ ~awake

(* A suspend is what hwc_adajust_sf_vsync saw last, and until five calls after
   it the calls counted and those left make five. *)
SettleCounted ==
  /\ gPowerMode = "SUSPEND" => last_mode = "SUSPEND"
  /\ last_mode \in {"RESUME", "SUSPEND"} => refresh_skip_count = 5
  /\ settled < ResumeFrames =>
       /\ last_mode \in {"RESUME", "SUSPEND"}
       /\ last_mode = "RESUME" => settled + resume_count >= ResumeFrames

IInv == /\ TypeOK /\ LockFollowsPcs /\ ModeFitsPower /\ QueueBounded
        /\ EpochsPast /\ ResumeKept /\ PostedAlone /\ A2Kept /\ SettleCounted
        /\ StandbyOverwrites
-------------------------------------------------------------------------------
(***************************************************************************)
(* hwc_adajust_sf_vsync                                                    *)
(***************************************************************************)
LEMMA SomeModes ==
  /\ FastModes \cup SlowModes \subseteq Modes
  /\ {"RESUME", "SUSPEND", "FULL_GC16", "PART_GC16", "FORCE_FULL", "NULL"}
       \subseteq Modes
  /\ A2Modes \subseteq FastModes
  /\ FastModes \cap SlowModes = {}
  /\ {"RESUME", "SUSPEND", "FORCE_FULL", "NULL"}
       \cap (FastModes \cup SlowModes) = {}
BY DEF FastModes, SlowModes, A2Modes, Modes

(* It keeps its statics in bounds, enters and leaves a suspend, and until five
   calls are counted keeps the skip count. *)
LEMMA AdjustKeeps ==
  ASSUME TypeOK, SettleCounted,
         NEW mode \in FastModes \cup SlowModes \cup {"RESUME", "SUSPEND"},
         hwc_adajust_sf_vsync(mode)
  PROVE  /\ refresh_skip_count' \in {2, 5} /\ last_mode' \in Modes
         /\ resume_count' \in 0..ResumeFrames
         /\ last_mode' \in {"RESUME", "SUSPEND"} => refresh_skip_count' = 5
         /\ mode = "SUSPEND" => last_mode' = "SUSPEND"
         /\ last_mode = "SUSPEND" /\ mode # "RESUME" => last_mode' = "SUSPEND"
         /\ last_mode = "SUSPEND" /\ mode = "RESUME" =>
              last_mode' = "RESUME" /\ resume_count' = ResumeFrames
         /\ settled < ResumeFrames =>
              /\ refresh_skip_count' = refresh_skip_count
              /\ last_mode' \in {"RESUME", "SUSPEND"}
              /\ last_mode' = "RESUME" =>
                   settled + 1 + resume_count' >= ResumeFrames
<1> DEFINE left == FramesLeft(mode)
           asleep == last_mode = "SUSPEND" /\ mode # "RESUME"
<1> USE ModeConstants, SomeModes DEF TypeOK, SettleCounted
<1>1. /\ left \in 0..ResumeFrames
      /\ left = resume_count \/ mode = "SUSPEND"
  BY DEF FramesLeft
<1>3. CASE asleep /\ UNCHANGED <<resume_count, last_mode, refresh_skip_count>>
  BY <1>3
<1>4. CASE /\ ~asleep /\ Settling(left)
           /\ resume_count' = left - 1
           /\ UNCHANGED <<last_mode, refresh_skip_count>>
  <2>1. /\ left > 0 /\ left = resume_count /\ last_mode = "RESUME"
        /\ mode # "SUSPEND"
    BY <1>1, <1>4 DEF Settling, FramesLeft
  <2> QED
    BY <1>1, <1>4, <2>1
<1>5. CASE /\ ~asleep /\ ~Settling(left) /\ mode = last_mode
           /\ resume_count' = left
           /\ UNCHANGED <<last_mode, refresh_skip_count>>
  <2>1. last_mode = "RESUME" => left = resume_count
    BY <1>1, <1>5
  <2>2. last_mode # "SUSPEND"
    BY <1>5
  <2> QED
    BY <1>1, <1>5, <2>1, <2>2
<1>6. CASE /\ ~asleep /\ ~Settling(left) /\ mode # last_mode
           /\ resume_count' = FramesAfter(mode, left)
           /\ refresh_skip_count' = SkipCount(mode)
           /\ last_mode' = mode
  <2>1. CASE mode = "RESUME"
    BY <1>6, <2>1 DEF FramesAfter, SkipCount
  <2>2. CASE mode = "SUSPEND"
    BY <1>1, <1>6, <2>2 DEF FramesAfter, SkipCount
  <2>3. CASE mode \notin {"RESUME", "SUSPEND"}
    <3>1. last_mode # "SUSPEND"
      BY <1>6, <2>3
    <3>2. last_mode = "RESUME" => left = 0 /\ left = resume_count
      BY <1>1, <1>6, <2>3 DEF Settling
    <3>3. ~(settled < ResumeFrames)
      BY <3>1, <3>2
    <3> QED
      BY <1>1, <1>6, <2>3, <3>1, <3>3 DEF FramesAfter, SkipCount
  <2> QED
    BY <2>1, <2>2, <2>3
<1> QED
  <2> HIDE DEF TypeOK, SettleCounted, left, asleep
  <2>1. \/ asleep /\ UNCHANGED <<resume_count, last_mode, refresh_skip_count>>
        \/ /\ ~asleep /\ Settling(left)
           /\ resume_count' = left - 1
           /\ UNCHANGED <<last_mode, refresh_skip_count>>
        \/ /\ ~asleep /\ ~Settling(left) /\ mode = last_mode
           /\ resume_count' = left
           /\ UNCHANGED <<last_mode, refresh_skip_count>>
        \/ /\ ~asleep /\ ~Settling(left) /\ mode # last_mode
           /\ resume_count' = FramesAfter(mode, left)
           /\ refresh_skip_count' = SkipCount(mode)
           /\ last_mode' = mode
    BY DEF hwc_adajust_sf_vsync, left, asleep
  <2> QED
    BY <2>1, <1>3, <1>4, <1>5, <1>6

(* A call that counts keeps the account, if the power state follows the mode. *)
LEMMA CountKeeps ==
  ASSUME TypeOK, SettleCounted,
         NEW mode \in FastModes \cup SlowModes \cup {"RESUME", "SUSPEND"},
         hwc_adajust_sf_vsync(mode),
         \/ CountCall
         \/ settled' = 0 /\ mode = "RESUME" /\ last_mode = "SUSPEND",
         gPowerMode' = "SUSPEND" =>
           mode = "SUSPEND" \/ (gPowerMode = "SUSPEND" /\ mode # "RESUME")
  PROVE  /\ refresh_skip_count' \in {2, 5} /\ last_mode' \in Modes
         /\ resume_count' \in 0..ResumeFrames /\ settled' \in 0..ResumeFrames
         /\ SettleCounted'
<1>1. /\ refresh_skip_count' \in {2, 5} /\ last_mode' \in Modes
      /\ resume_count' \in 0..ResumeFrames
      /\ last_mode' \in {"RESUME", "SUSPEND"} => refresh_skip_count' = 5
      /\ mode = "SUSPEND" => last_mode' = "SUSPEND"
      /\ last_mode = "SUSPEND" /\ mode # "RESUME" => last_mode' = "SUSPEND"
      /\ last_mode = "SUSPEND" /\ mode = "RESUME" =>
           last_mode' = "RESUME" /\ resume_count' = ResumeFrames
      /\ settled < ResumeFrames =>
           /\ last_mode' \in {"RESUME", "SUSPEND"}
           /\ last_mode' = "RESUME" =>
                settled + 1 + resume_count' >= ResumeFrames
  BY AdjustKeeps
<1>2. settled \in 0..ResumeFrames /\ ResumeFrames \in Nat
  BY ModeConstants DEF TypeOK
<1>3. gPowerMode' = "SUSPEND" => last_mode' = "SUSPEND"
  BY <1>1 DEF SettleCounted
<1>4. CASE CountCall
  <2>1. settled' \in 0..ResumeFrames
          /\ (settled' < ResumeFrames => settled' = settled + 1)
    BY <1>2, <1>4 DEF CountCall
  <2>2. settled' < ResumeFrames =>
          settled < ResumeFrames /\ settled' = settled + 1
    BY <1>2, <2>1
  <2>3. settled' < ResumeFrames =>
          /\ last_mode' \in {"RESUME", "SUSPEND"}
          /\ last_mode' = "RESUME" => settled' + resume_count' >= ResumeFrames
    BY <1>1, <2>2
  <2> QED
    BY <1>1, <1>3, <2>1, <2>3 DEF SettleCounted
<1>5. CASE settled' = 0 /\ mode = "RESUME" /\ last_mode = "SUSPEND"
  BY <1>1, <1>2, <1>3, <1>5 DEF SettleCounted
<1> QED
  BY <1>4, <1>5
-------------------------------------------------------------------------------
(***************************************************************************)
(* Type correctness.                                                       *)
(***************************************************************************)
LEMMA InitInv == Init => IInv
<1> SUFFICES ASSUME Init PROVE IInv
  OBVIOUS
<1> USE ModeConstants, SomeModes DEF Init
<1>1. TypeOK /\ SettleCounted
  <2>1. wframe \in Frame /\ composite_queue_ \in Seq(Frame)
    BY DEF Frame, NoFrame
  <2>2. {awake, lost, took, unentered, fence, owed} \subseteq BOOLEAN
    OBVIOUS
  <2> QED
    BY <2>1, <2>2 DEF TypeOK, SettleCounted
<1>2. EpochsPast /\ ResumeKept /\ PostedAlone
  BY DEF EpochsPast, ResumeKept, PostedAlone, NoFrame
<1>3. A2Kept /\ StandbyOverwrites
  BY DEF A2Kept, A2Modes, StandbyOverwrites, DisplayOff
<1>4. LockFollowsPcs /\ ModeFitsPower /\ QueueBounded
  BY DEF LockFollowsPcs, ModeFitsPower, QueueBounded, Free, Set, Power
<1> QED
  BY <1>1, <1>2, <1>3, <1>4 DEF IInv

(* What hwc_set may ask hwc_adajust_sf_vsync for. *)
LEMMA AdjustedModes ==
  /\ \A mode \in Requests : mode \in FastModes \cup SlowModes
  /\ Requests \subseteq Modes
BY ModeConstants, SomeModes

LEMMA TypeStep ==
  ASSUME TypeOK, SettleCounted, PostedAlone, Next
  PROVE  TypeOK' /\ SettleCounted'
<1> USE ModeConstants, SomeModes
<1>1. CASE RequestOneFull
  BY <1>1 DEF RequestOneFull, TypeOK, SettleCounted, vsync, power, target,
              call, compositor, screen
<1>2. ASSUME NEW mode \in Requests, NEW h \in Handles \cup {NoHandle},
             HwcSet(mode, h)
      PROVE  TypeOK' /\ SettleCounted'
  <2>1. /\ refresh_skip_count' \in {2, 5} /\ last_mode' \in Modes
        /\ resume_count' \in 0..ResumeFrames /\ settled' \in 0..ResumeFrames
        /\ SettleCounted'
    <3>1. gPowerMode' = "SUSPEND" => gPowerMode = "SUSPEND"
      BY <1>2 DEF HwcSet, hwc_handle_eink_mode
    <3> QED
      BY <1>2, <3>1, CountKeeps, AdjustedModes DEF HwcSet
  <2>2. /\ gPowerMode' \in {"AUTO", "NULL", "RESUME", "SUSPEND", "POWER_OFF"}
        /\ gCurrentEpdMode' \in Modes /\ gOneFullModeTime' \in Nat
        /\ took' \in BOOLEAN
    BY <1>2, AdjustedModes
       DEF HwcSet, hwc_handle_eink_mode, OneFull, Suspended, TypeOK
  <2>3. /\ UNCHANGED <<one_full_mode_timeline, target, ppc, compositor, screen,
                       offs, lost>>
        /\ spc' = "layers" /\ mEinkModeLock' = Set
        /\ handle' = h /\ fence' \in BOOLEAN
    BY <1>2 DEF HwcSet, SetLock
  <2> QED
    BY <2>1, <2>2, <2>3 DEF TypeOK, target, compositor, screen
<1>3. CASE SetNothing
  BY <1>3 DEF SetNothing, SetReturns, Unlock, TypeOK, SettleCounted, vsync,
              power, target, compositor, screen
<1>4. CASE SetSameHandle
  BY <1>4 DEF SetSameHandle, SameHandle, SetReturns, Unlock, TypeOK,
              SettleCounted, vsync, power, compositor, screen
<1>5. CASE SetNewHandle
  <2>1. /\ composite_queue_' \in Seq(Frame)
        /\ last_fb_handle_mode' \in Modes
    BY <1>5 DEF SetNewHandle, TypeOK, Frame
  <2> QED
    BY <1>5, <2>1 DEF SetNewHandle, SetReturns, Unlock, TypeOK, SettleCounted,
                      vsync, power, screen
<1>14. CASE SetSuspended
  BY <1>14 DEF SetSuspended, SetReturns, Unlock, TypeOK, SettleCounted, vsync,
               power, target, compositor, screen
<1>6. CASE HwcSetPowerMode
  BY <1>6 DEF HwcSetPowerMode, TypeOK, SettleCounted, vsync, power, target,
              call, compositor, screen
<1>7. CASE PowerOn
  <2>1. /\ refresh_skip_count' \in {2, 5} /\ last_mode' \in Modes
        /\ resume_count' \in 0..ResumeFrames /\ settled' \in 0..ResumeFrames
        /\ SettleCounted'
    <3>1. gPowerMode = "SUSPEND" => last_mode = "SUSPEND"
      BY DEF SettleCounted
    <3> QED
      BY <1>7, <3>1, CountKeeps DEF PowerOn
  <2> QED
    BY <1>7, <2>1 DEF PowerOn, Unlock, TypeOK, target, call, compositor, screen
<1>8. CASE PowerOff
  <2>1. /\ refresh_skip_count' \in {2, 5} /\ last_mode' \in Modes
        /\ resume_count' \in 0..ResumeFrames /\ settled' \in 0..ResumeFrames
        /\ SettleCounted'
    <3>1. CASE gPowerMode' = "POWER_OFF" /\ UNCHANGED vsync
      BY <3>1 DEF vsync, TypeOK, SettleCounted
    <3>2. CASE hwc_adajust_sf_vsync("SUSPEND") /\ CountCall
      BY <3>2, CountKeeps
    <3> QED
      BY <1>8, <3>1, <3>2 DEF PowerOff
  <2>2. /\ gPowerMode' \in {"SUSPEND", "POWER_OFF"}
        /\ gCurrentEpdMode' = "SUSPEND"
        /\ offs' = offs + 1 /\ over' = 0 /\ awake' = FALSE
        /\ ppc' \in {"white", "logo"}
        /\ UNCHANGED <<one_full_mode_timeline, mEinkModeLock,
                       gOneFullModeTime, target, spc, took, call, compositor,
                       panel, leaks, faults, unentered, lost>>
    BY <1>8 DEF PowerOff
  <2>3. {awake', lost', took', unentered', fence', owed'} \subseteq BOOLEAN
    BY <2>2 DEF TypeOK, call, compositor
  <2>4. /\ gPowerMode' \in {"AUTO", "NULL", "RESUME", "SUSPEND", "POWER_OFF"}
        /\ gCurrentEpdMode' \in Modes
        /\ offs' \in Nat /\ over' \in Nat
        /\ ppc' \in {"idle", "on", "off", "white", "logo"}
    BY <2>2 DEF TypeOK
  <2> QED
    BY <2>1, <2>2, <2>3, <2>4 DEF TypeOK, target, call, compositor
<1>9. CASE PostWhite
  BY <1>9 DEF PostWhite, hwc_post_epd, Fault, TypeOK, SettleCounted, vsync,
              power, target, call, compositor
<1>10. CASE PostLogo
  <2>1. panel' \in {"boot", "white", "SUSPEND", "POWER_OFF", "a2", "frame"}
          /\ faults' \in Nat /\ leaks' \in Nat
    BY <1>10 DEF PostLogo, hwc_post_epd, Fault, PostedAlone, DisplayOff, TypeOK
  <2> QED
    BY <1>10, <2>1 DEF PostLogo, Unlock, TypeOK, SettleCounted, vsync, target,
                       call, compositor
<1>11. CASE WorkerPop
  <2>1. wframe' \in Frame /\ composite_queue_' \in Seq(Frame)
    BY <1>11 DEF WorkerPop, CanPop, TypeOK
  <2> QED
    BY <1>11, <2>1 DEF WorkerPop, TypeOK, SettleCounted, vsync, power, target,
                       call, screen
<1>12. CASE WorkerGiveUp
  BY <1>12 DEF WorkerGiveUp, Fault, TypeOK, SettleCounted, NoFrame, Frame,
               vsync, power, target, call
<1>13. CASE WorkerSend
  <2>1. /\ wframe' \in Frame /\ gLastEpdMode' \in Modes
        /\ panel' \in {"boot", "white", "SUSPEND", "POWER_OFF", "a2", "frame"}
        /\ over' \in Nat /\ faults' \in Nat
    BY <1>13 DEF WorkerSend, Fault, Picture, LastMode, TypeOK, NoFrame, Frame
  <2>2. owed' \in BOOLEAN
    BY <1>13 DEF WorkerSend
  <2>3. {awake', unentered'} \subseteq BOOLEAN
    BY <1>13 DEF WorkerSend, TypeOK
  <2> QED
    BY <1>13, <2>1, <2>2, <2>3 DEF WorkerSend, TypeOK, SettleCounted, vsync, power, target,
                       call
<1> QED
  BY <1>1, <1>2, <1>3, <1>4, <1>5, <1>6, <1>7, <1>8, <1>9, <1>10, <1>11, <1>12,
     <1>13, <1>14 DEF Next, InHwcSet, InHwcSetPowerMode, InCompositor
-------------------------------------------------------------------------------
(***************************************************************************)
(* The parts of the invariant.                                             *)
(***************************************************************************)
(* Nothing but hwc_set and hwc_set_power_mode, under the lock, touches what
   these parts speak of. *)
LEMMA CallsStep ==
  ASSUME IInv, Next
  PROVE  LockFollowsPcs' /\ ModeFitsPower'
<1> USE DEF LockFollowsPcs, ModeFitsPower, Free, Set, Power, DisplayOff
<1>0. LockFollowsPcs /\ ModeFitsPower
  BY DEF IInv
<1>1. CASE RequestOneFull
  BY <1>0, <1>1 DEF RequestOneFull, power
<1>2. ASSUME NEW mode \in Requests, NEW h \in Handles \cup {NoHandle},
             HwcSet(mode, h)
      PROVE  LockFollowsPcs' /\ ModeFitsPower'
  <2>1. LockFollowsPcs'
    BY <1>0, <1>2 DEF HwcSet, SetLock
  <2>2. took' => gCurrentEpdMode' = "FORCE_FULL"
    BY <1>2 DEF HwcSet, hwc_handle_eink_mode, OneFull
  <2>3. gPowerMode' # "RESUME" /\ (DisplayOff' => gCurrentEpdMode' = "SUSPEND")
    BY <1>2 DEF HwcSet, hwc_handle_eink_mode, Suspended
  <2> QED
    BY <2>1, <2>2, <2>3
<1>3. CASE SetNothing \/ SetSuspended
  BY <1>0, <1>3 DEF SetNothing, SetSuspended, SetReturns, Unlock
<1>4. CASE SetSameHandle
  BY <1>0, <1>4 DEF SetSameHandle, SetReturns, Unlock
<1>5. CASE SetNewHandle
  BY <1>0, <1>5 DEF SetNewHandle, SetReturns, Unlock
<1>6. CASE HwcSetPowerMode
  BY <1>0, <1>6 DEF HwcSetPowerMode
<1>7. CASE PowerOn
  BY <1>0, <1>7 DEF PowerOn, Unlock
<1>8. CASE PowerOff
  BY <1>0, <1>8 DEF PowerOff
<1>9. CASE PostWhite
  BY <1>0, <1>9 DEF PostWhite
<1>10. CASE PostLogo
  BY <1>0, <1>10 DEF PostLogo, Unlock
<1>11. CASE InCompositor
  <2>1. UNCHANGED <<mEinkModeLock, gPowerMode, gCurrentEpdMode, spc, ppc, took>>
    BY <1>11 DEF InCompositor, WorkerPop, WorkerGiveUp, WorkerSend, power
  <2> QED
    BY <1>0, <2>1
<1> QED
  BY <1>1, <1>2, <1>3, <1>4, <1>5, <1>6, <1>7, <1>8, <1>9, <1>10, <1>11
     DEF Next, InHwcSet, InHwcSetPowerMode

(* The steps that leave the frames, the epoch and the histories alone. *)
Aside == \/ RequestOneFull
         \/ \E mode \in Requests, h \in Handles \cup {NoHandle} : HwcSet(mode, h)
         \/ SetNothing \/ SetSuspended \/ SetSameHandle
         \/ HwcSetPowerMode \/ PowerOn \/ PostWhite \/ PostLogo

LEMMA AsideKeeps ==
  ASSUME Aside
  PROVE  UNCHANGED <<composite_queue_, wframe, gLastEpdMode, offs, over, awake,
                     unentered>>
BY DEF Aside, RequestOneFull, HwcSet, SetNothing, SetSuspended, SetSameHandle,
       HwcSetPowerMode, PowerOn, PostWhite, PostLogo, compositor, screen

LEMMA NextCases ==
  ASSUME Next
  PROVE  \/ Aside \/ SetNewHandle \/ PowerOff
         \/ WorkerPop \/ WorkerGiveUp \/ WorkerSend
BY DEF Next, Aside, InHwcSet, InHwcSetPowerMode, InCompositor

(* The queue is bounded, and what can still cover a standby picture shrinks. *)
LEMMA QueueStep ==
  ASSUME IInv, Next
  PROVE  QueueBounded' /\ StandbyOverwrites'
<1> USE ModeConstants
<1>0. /\ TypeOK /\ QueueBounded /\ StandbyOverwrites /\ LockFollowsPcs
      /\ ModeFitsPower
  BY DEF IInv
<1>1. CASE Aside
  <2>1. UNCHANGED <<composite_queue_, wframe, over>>
    BY <1>1, AsideKeeps
  <2>2. QueueBounded'
    BY <1>0, <2>1 DEF QueueBounded
  <2>3. DisplayOff' => DisplayOff
    BY <1>1 DEF Aside, RequestOneFull, HwcSet, hwc_handle_eink_mode, Suspended,
                SetNothing, SetSuspended, SetSameHandle, HwcSetPowerMode, PowerOn, PostWhite,
                PostLogo, power, DisplayOff
  <2> QED
    BY <1>0, <2>1, <2>2, <2>3 DEF StandbyOverwrites, Held
<1>2. CASE SetNewHandle
  <2>1. ~DisplayOff'
    BY <1>0, <1>2 DEF SetNewHandle, ModeFitsPower, DisplayOff, power
  <2>2. QueueBounded'
    BY <1>0, <1>2 DEF SetNewHandle, QueueBounded, TypeOK
  <2> QED
    BY <2>1, <2>2 DEF StandbyOverwrites
<1>3. CASE PowerOff
  <2>1. over' = 0 /\ UNCHANGED <<composite_queue_, wframe>>
    BY <1>3 DEF PowerOff, compositor
  <2> QED
    BY <1>0, <2>1 DEF StandbyOverwrites, QueueBounded, Held, TypeOK
<1>4. CASE WorkerPop
  <2>1. /\ Held = 0 /\ Held' \in {0, 1}
        /\ Len(composite_queue_') = Len(composite_queue_) - 1
        /\ UNCHANGED <<over, gPowerMode>>
    BY <1>0, <1>4 DEF WorkerPop, CanPop, Held, TypeOK, screen, power
  <2>2. Len(composite_queue_) \in Nat /\ over \in Nat
    BY <1>0 DEF TypeOK
  <2> QED
    BY <1>0, <2>1, <2>2 DEF StandbyOverwrites, QueueBounded, DisplayOff
<1>5. CASE WorkerGiveUp
  <2>1. /\ Held = 1 /\ Held' = 0
        /\ UNCHANGED <<composite_queue_, over, gPowerMode>>
    BY <1>5 DEF WorkerGiveUp, Held, power
  <2> QED
    BY <1>0, <2>1 DEF StandbyOverwrites, QueueBounded, DisplayOff, TypeOK
<1>6. CASE WorkerSend
  <2>1. /\ Held = 1 /\ Held' = 0
        /\ over' = IF DisplayOff THEN over + 1 ELSE over
        /\ UNCHANGED <<composite_queue_, gPowerMode>>
    BY <1>6 DEF WorkerSend, Held, power
  <2> QED
    BY <1>0, <2>1 DEF StandbyOverwrites, QueueBounded, DisplayOff, TypeOK
<1> QED
  BY <1>1, <1>2, <1>3, <1>4, <1>5, <1>6, NextCases

(* Frames are queued with the epoch they are of, and only after the standby
   picture was posted. *)
LEMMA EpochStep ==
  ASSUME IInv, Next
  PROVE  EpochsPast' /\ PostedAlone'
<1>0. TypeOK /\ EpochsPast /\ PostedAlone /\ LockFollowsPcs
  BY DEF IInv
<1>1. CASE Aside
  <2>1. UNCHANGED <<composite_queue_, wframe, offs, awake>>
    BY <1>1, AsideKeeps
  <2>2. EpochsPast' /\ (NothingNew => NothingNew')
    BY <1>0, <2>1 DEF EpochsPast, NothingNew
  <2>3. ppc' \in {"white", "logo"} =>
          ppc \in {"white", "logo"} /\ (DisplayOff => DisplayOff')
    BY <1>0, <1>1
       DEF Aside, RequestOneFull, HwcSet, SetLock, SetNothing, SetSuspended, SetSameHandle,
           HwcSetPowerMode, PowerOn, PostWhite, PostLogo, power, DisplayOff,
           LockFollowsPcs, Free, Set, Power
  <2> QED
    BY <1>0, <2>1, <2>2, <2>3 DEF PostedAlone
<1>2. CASE SetNewHandle
  <2>1. PICK f \in Frame : /\ composite_queue_' = Append(composite_queue_, f)
                           /\ f.epoch = offs
    <3>1. LET mode == IF last_fb_handle_mode = "RESUME" THEN "RESUME"
                      ELSE gCurrentEpdMode
          IN  /\ [mode |-> mode, epoch |-> offs] \in Frame
              /\ composite_queue_'
                   = Append(composite_queue_, [mode |-> mode, epoch |-> offs])
      BY <1>0, <1>2, SomeModes DEF SetNewHandle, TypeOK, Frame
    <3> QED
      BY <3>1
  <2>2. UNCHANGED <<wframe, offs, awake>>
    BY <1>2 DEF SetNewHandle, screen
  <2>3. ppc' \notin {"white", "logo"}
    BY <1>0, <1>2 DEF SetNewHandle, LockFollowsPcs, Set, Power
  <2>4. EpochsPast'
    BY <1>0, <2>1, <2>2 DEF EpochsPast, TypeOK, Frame
  <2> QED
    BY <2>3, <2>4 DEF PostedAlone
<1>3. CASE PowerOff
  <2>1. /\ offs' = offs + 1 /\ awake' = FALSE /\ DisplayOff'
        /\ UNCHANGED <<composite_queue_, wframe>>
    BY <1>3 DEF PowerOff, compositor, DisplayOff
  <2>2. /\ wframe.epoch \in Nat /\ offs \in Nat
        /\ \A i \in 1..Len(composite_queue_) : composite_queue_[i].epoch \in Nat
    <3>1. /\ wframe \in Frame /\ offs \in Nat
          /\ \A i \in 1..Len(composite_queue_) : composite_queue_[i] \in Frame
      BY <1>0 DEF TypeOK
    <3> QED
      BY <3>1 DEF Frame
  <2>3. EpochsPast' /\ NothingNew'
    BY <1>0, <2>1, <2>2 DEF EpochsPast, NothingNew
  <2> QED
    BY <2>1, <2>3 DEF PostedAlone
<1>4. CASE WorkerPop
  <2>1. /\ wframe' = composite_queue_[1]
        /\ Len(composite_queue_') = Len(composite_queue_) - 1
        /\ \A i \in 1..Len(composite_queue_') :
             composite_queue_'[i] = composite_queue_[i + 1]
        /\ composite_queue_ # <<>> /\ Len(composite_queue_) \in Nat \ {0}
    BY <1>0, <1>4 DEF WorkerPop, CanPop, TypeOK
  <2>2. UNCHANGED <<offs, awake, ppc, gPowerMode>>
    BY <1>4 DEF WorkerPop, screen, power
  <2>3. EpochsPast'
    BY <1>0, <2>1, <2>2 DEF EpochsPast
  <2>4. NothingNew => NothingNew'
    BY <1>0, <2>1, <2>2 DEF NothingNew
  <2> QED
    BY <1>0, <2>2, <2>3, <2>4 DEF PostedAlone, DisplayOff
<1>5. CASE WorkerGiveUp
  <2>1. /\ wframe' = NoFrame
        /\ UNCHANGED <<composite_queue_, offs, awake, ppc, gPowerMode>>
    BY <1>5 DEF WorkerGiveUp, power
  <2>2. EpochsPast'
    BY <1>0, <2>1 DEF EpochsPast, NoFrame, TypeOK
  <2>3. NothingNew /\ ~awake => NothingNew'
    BY <1>0, <2>1 DEF NothingNew, NoFrame, EpochsPast, TypeOK
  <2> QED
    BY <1>0, <2>1, <2>2, <2>3 DEF PostedAlone, DisplayOff
<1>6. CASE WorkerSend
  <2>1. /\ wframe' = NoFrame
        /\ awake' = (awake \/ (wframe.mode = "RESUME" /\ wframe.epoch = offs))
        /\ UNCHANGED <<composite_queue_, offs, ppc, gPowerMode>>
    BY <1>6 DEF WorkerSend, power
  <2>2. EpochsPast'
    BY <1>0, <2>1 DEF EpochsPast, NoFrame, TypeOK
  <2>3. NothingNew /\ ~awake => NothingNew' /\ ~awake'
    BY <1>0, <2>1 DEF NothingNew, NoFrame, EpochsPast, TypeOK
  <2> QED
    BY <1>0, <2>1, <2>2, <2>3 DEF PostedAlone, DisplayOff
<1> QED
  BY <1>1, <1>2, <1>3, <1>4, <1>5, <1>6, NextCases

(* EPD_RESUME is handed on, from the power state to the frame. *)
LEMMA ResumeStep ==
  ASSUME IInv, Next
  PROVE  ResumeKept'
<1>0. /\ TypeOK /\ EpochsPast /\ ResumeKept /\ LockFollowsPcs /\ ModeFitsPower
      /\ PostedAlone
  BY DEF IInv
<1>1. CASE Aside
  <2>1. UNCHANGED <<composite_queue_, wframe, offs, awake>>
    BY <1>1, AsideKeeps
  <2>2. ~lost' => ~lost
    BY <1>1 DEF Aside, RequestOneFull, HwcSet, SetNothing, SetSuspended, SetSameHandle,
                HwcSetPowerMode, PowerOn, PostWhite, PostLogo
  <2>3. ResumeAhead /\ ~lost' => ResumeAhead'
    <3>1. CASE RequestOneFull \/ HwcSetPowerMode
      BY <3>1 DEF RequestOneFull, HwcSetPowerMode, ResumeAhead, DisplayOff,
                  power, target
    <3>2. ASSUME NEW mode \in Requests, NEW h \in Handles \cup {NoHandle},
                 HwcSet(mode, h), ResumeAhead
          PROVE  ResumeAhead'
      <4>1. UNCHANGED last_fb_handle_mode /\ spc = "idle" /\ spc' = "layers"
        BY <3>2 DEF HwcSet, target
      <4>2. CASE Suspended
        BY <3>2, <4>2 DEF HwcSet, hwc_handle_eink_mode, Suspended, DisplayOff,
                          ResumeAhead
      <4>3. CASE gPowerMode = "RESUME"
        BY <3>2, <4>1, <4>3 DEF HwcSet, hwc_handle_eink_mode, Suspended,
                                ResumeAhead
      <4>4. CASE ~Suspended /\ gPowerMode # "RESUME"
        BY <3>2, <4>1, <4>4 DEF ResumeAhead, Suspended, DisplayOff
      <4> QED
        BY <4>2, <4>3, <4>4
    <3>3. CASE SetNothing \/ SetSuspended
      BY <3>3 DEF SetNothing, SetSuspended, ResumeAhead, DisplayOff, power, target
    <3>4. CASE SetSameHandle
      BY <3>4 DEF SetSameHandle, SameHandle, ResumeAhead, DisplayOff, power
    <3>5. CASE PowerOn
      BY <3>5 DEF PowerOn, ResumeAhead
    <3>6. CASE PostWhite \/ PostLogo
      BY <1>0, <3>6 DEF PostWhite, PostLogo, PostedAlone, ResumeAhead,
                        DisplayOff, power
    <3> QED
      BY <1>1, <3>1, <3>2, <3>3, <3>4, <3>5, <3>6 DEF Aside
  <2>4. NothingNew' = NothingNew /\ FirstResumes' = FirstResumes
    BY <2>1 DEF NothingNew, FirstResumes
  <2> QED
    BY <1>0, <2>1, <2>2, <2>3, <2>4 DEF ResumeKept
<1>2. ASSUME SetNewHandle, ~awake', ~lost'
      PROVE  ResumeKept'
  <2> DEFINE mode == IF last_fb_handle_mode = "RESUME" THEN "RESUME"
                     ELSE gCurrentEpdMode
             f == [mode |-> mode, epoch |-> offs]
  <2>1. /\ composite_queue_' = Append(composite_queue_, f)
        /\ UNCHANGED <<wframe, offs, awake, lost>>
        /\ spc = "layers" /\ gCurrentEpdMode # "SUSPEND"
    BY <1>2 DEF SetNewHandle, screen
  <2>2. /\ Len(composite_queue_') = Len(composite_queue_) + 1
        /\ \A i \in 1..Len(composite_queue_) :
             composite_queue_'[i] = composite_queue_[i]
        /\ composite_queue_'[Len(composite_queue_) + 1] = f
        /\ Len(composite_queue_) \in Nat
    <3> HIDE DEF f
    <3> QED
      BY <1>0, <2>1 DEF TypeOK
  <2>3. ResumeAhead => mode = "RESUME"
    BY <1>0, <2>1 DEF ResumeAhead, ModeFitsPower
  <2>4. CASE wframe.epoch = offs /\ wframe.mode = "RESUME"
    BY <2>1, <2>4 DEF ResumeKept
  <2>5. CASE wframe.epoch # offs /\ FirstResumes
    <3>1. PICK i \in 1..Len(composite_queue_) :
            /\ composite_queue_[i].epoch = offs
            /\ composite_queue_[i].mode = "RESUME"
            /\ \A j \in 1..(i - 1) : composite_queue_[j].epoch # offs
      BY <2>5 DEF FirstResumes
    <3>2. /\ i \in 1..Len(composite_queue_')
          /\ composite_queue_'[i] = composite_queue_[i]
          /\ \A j \in 1..(i - 1) : composite_queue_'[j] = composite_queue_[j]
      BY <2>2
    <3>3. FirstResumes'
      BY <2>1, <3>1, <3>2 DEF FirstResumes
    <3> QED
      BY <2>1, <2>5, <3>3 DEF ResumeKept
  <2>6. CASE NothingNew /\ ResumeAhead
    <3>1. f.epoch = offs /\ f.mode = "RESUME"
      BY <2>3, <2>6
    <3> HIDE DEF f
    <3>2. /\ composite_queue_'[Len(composite_queue_) + 1].epoch = offs
          /\ composite_queue_'[Len(composite_queue_) + 1].mode = "RESUME"
          /\ Len(composite_queue_) + 1 \in 1..Len(composite_queue_')
          /\ \A j \in 1..(Len(composite_queue_) + 1 - 1) :
               composite_queue_'[j].epoch # offs
      BY <2>2, <2>6, <3>1 DEF NothingNew
    <3>3. FirstResumes'
      BY <2>1, <3>2 DEF FirstResumes
    <3> QED
      BY <2>1, <2>6, <3>3 DEF ResumeKept, NothingNew
  <2> QED
    BY <1>0, <1>2, <2>1, <2>4, <2>5, <2>6 DEF ResumeKept
<1>3. CASE PowerOff
  <2>1. EpochsPast' /\ PostedAlone' /\ ppc' \in {"white", "logo"}
    BY <1>3, EpochStep DEF PowerOff
  <2> QED
    BY <2>1 DEF PostedAlone, ResumeKept, ResumeAhead
<1>4. CASE WorkerPop
  <2>1. /\ wframe = NoFrame /\ wframe' = composite_queue_[1]
        /\ Len(composite_queue_') = Len(composite_queue_) - 1
        /\ \A i \in 1..Len(composite_queue_') :
             composite_queue_'[i] = composite_queue_[i + 1]
        /\ Len(composite_queue_) \in Nat \ {0}
    BY <1>0, <1>4 DEF WorkerPop, CanPop, TypeOK
  <2>2. UNCHANGED <<offs, awake, lost, spc, gPowerMode, gCurrentEpdMode,
                    last_fb_handle_mode>>
    BY <1>4 DEF WorkerPop, screen, power, target
  <2>3. ResumeAhead' = ResumeAhead
    BY <2>2 DEF ResumeAhead, DisplayOff
  <2>4. NothingNew => NothingNew'
    BY <2>1, <2>2 DEF NothingNew
  <2>5. ASSUME FirstResumes
        PROVE  \/ wframe'.epoch = offs /\ wframe'.mode = "RESUME"
               \/ wframe'.epoch # offs /\ FirstResumes'
    <3>1. PICK i \in 1..Len(composite_queue_) :
            /\ composite_queue_[i].epoch = offs
            /\ composite_queue_[i].mode = "RESUME"
            /\ \A j \in 1..(i - 1) : composite_queue_[j].epoch # offs
      BY <2>5 DEF FirstResumes
    <3>2. CASE i = 1
      BY <2>1, <3>1, <3>2
    <3>3. CASE i # 1
      <4>1. /\ i - 1 \in 1..Len(composite_queue_')
            /\ composite_queue_'[i - 1] = composite_queue_[i]
            /\ \A j \in 1..(i - 1 - 1) : composite_queue_'[j].epoch # offs
            /\ wframe'.epoch # offs
        BY <2>1, <3>1, <3>3
      <4>2. FirstResumes'
        BY <2>2, <3>1, <4>1 DEF FirstResumes
      <4> QED
        BY <4>1, <4>2
    <3> QED
      BY <3>2, <3>3
  <2>6. ~awake => wframe.epoch # offs
    BY <1>0, <2>1 DEF EpochsPast, NoFrame
  <2> QED
    BY <1>0, <2>2, <2>3, <2>4, <2>5, <2>6 DEF ResumeKept
<1>5. ASSUME WorkerGiveUp \/ WorkerSend, ~awake', ~lost'
      PROVE  ResumeKept'
  <2>1. /\ wframe' = NoFrame
        /\ UNCHANGED <<composite_queue_, offs, spc, gPowerMode, gCurrentEpdMode,
                       last_fb_handle_mode>>
    BY <1>5 DEF WorkerGiveUp, WorkerSend, power, target
  <2>5. /\ ~awake /\ ~lost
        /\ ~(wframe.epoch = offs /\ wframe.mode = "RESUME")
    <3>1. CASE WorkerGiveUp
      BY <1>5, <3>1 DEF WorkerGiveUp
    <3>2. CASE WorkerSend
      BY <1>5, <3>2 DEF WorkerSend
    <3> QED
      BY <1>5, <3>1, <3>2
  <2>2. ResumeAhead' = ResumeAhead /\ FirstResumes' = FirstResumes
    BY <2>1 DEF ResumeAhead, DisplayOff, FirstResumes
  <2>3. wframe'.epoch # offs
    BY <1>0, <2>1, <2>5 DEF EpochsPast, NoFrame
  <2>4. NothingNew => NothingNew'
    BY <2>1, <2>3 DEF NothingNew
  <2> QED
    BY <1>0, <2>1, <2>2, <2>3, <2>4, <2>5 DEF ResumeKept
<1> QED
  BY <1>1, <1>2, <1>3, <1>4, <1>5, NextCases DEF ResumeKept

(* A picture other than A2 that covers an A2 picture is sent in another mode,
   or is a standby picture. *)
LEMMA A2Step ==
  ASSUME IInv, Next
  PROVE  A2Kept'
<1>0. A2Kept /\ PostedAlone /\ ResumeKept
  BY DEF IInv
<1>1. CASE Aside
  <2>1. UNCHANGED <<gLastEpdMode, unentered, awake>>
    BY <1>1, AsideKeeps
  <2>2. lost => lost'
    BY <1>1 DEF Aside, RequestOneFull, HwcSet, SetNothing, SetSuspended, SetSameHandle,
                HwcSetPowerMode, PowerOn, PostWhite, PostLogo
  <2>3. panel' = panel \/ ppc \in {"white", "logo"}
    BY <1>1 DEF Aside, RequestOneFull, HwcSet, SetNothing, SetSuspended, SetSameHandle,
                HwcSetPowerMode, PowerOn, PostWhite, PostLogo, screen
  <2> QED
    BY <1>0, <2>1, <2>2, <2>3 DEF A2Kept, PostedAlone
<1>2. CASE SetNewHandle
  BY <1>0, <1>2 DEF SetNewHandle, screen, A2Kept
<1>3. CASE PowerOff
  BY <1>3 DEF PowerOff, A2Kept
<1>4. CASE WorkerPop
  BY <1>0, <1>4 DEF WorkerPop, screen, A2Kept
<1>5. CASE WorkerGiveUp
  BY <1>0, <1>5 DEF WorkerGiveUp, A2Kept
<1>6. CASE WorkerSend
  <2>1. CASE wframe.mode \notin A2Modes
    BY <1>6, <2>1 DEF WorkerSend, LastMode, A2Kept
  <2>2. CASE wframe.mode \in A2Modes /\ EntersA2
    <3>1. CommitMode # wframe.mode
      BY <2>2 DEF CommitMode, A2Modes
    <3> QED
      BY <1>6, <3>1 DEF WorkerSend, A2Kept
  <2>3. CASE wframe.mode \in A2Modes /\ ~EntersA2
    <3>1. panel' = "a2" \/ panel' = panel
      BY <1>6, <2>3 DEF WorkerSend, Picture
    <3>2. wframe.mode # "RESUME"
      BY <2>3 DEF A2Modes
    <3>3. /\ (awake' => awake) /\ lost' = lost
          /\ unentered => unentered' \/ panel' = "a2"
      BY <1>6, <3>2 DEF WorkerSend
    <3> QED
      BY <1>0, <2>3, <3>1, <3>3 DEF EntersA2, A2Kept
  <2> QED
    BY <2>1, <2>2, <2>3
<1> QED
  BY <1>1, <1>2, <1>3, <1>4, <1>5, <1>6, NextCases

LEMMA StepInv == IInv /\ [Next]_vars => IInv'
<1> SUFFICES ASSUME IInv, [Next]_vars PROVE IInv'
  OBVIOUS
<1>1. CASE Next
  <2>1. TypeOK' /\ SettleCounted'
    BY <1>1, TypeStep DEF IInv
  <2> QED
    BY <1>1, <2>1, CallsStep, QueueStep, EpochStep, ResumeStep, A2Step DEF IInv
<1>2. CASE UNCHANGED vars
  BY <1>2 DEF IInv, TypeOK, LockFollowsPcs, ModeFitsPower, QueueBounded,
              EpochsPast, ResumeKept, PostedAlone, A2Kept, SettleCounted,
              StandbyOverwrites, NothingNew, FirstResumes, ResumeAhead,
              DisplayOff, Held, vars
<1> QED
  BY <1>1, <1>2
-------------------------------------------------------------------------------
(***************************************************************************)
(* The theorems.                                                           *)
(***************************************************************************)
LEMMA Invariance == Spec => []IInv
BY InitInv, StepInv, PTL DEF Spec

(* Every mode that is chosen, remembered, queued or sent is a display mode,
   and the count-downs stay in their bounds. *)
THEOREM TypeInvariant == Spec => []TypeOK
<1>1. IInv => TypeOK
  BY DEF IInv
<1> QED
  BY <1>1, Invariance, PTL

(* After hwc_set_power_mode(OFF) no more frames cover the standby picture than
   the queue and the compositor thread had. *)
THEOREM StandbyIsKept == Spec => []StandbyOverwrites
<1>1. IInv => StandbyOverwrites
  BY DEF IInv
<1> QED
  BY <1>1, Invariance, PTL

(* QueueComposite and hwc_handle_eink_mode hand EPD_RESUME on to the first
   frame after the display was off. *)
THEOREM ResumeComesFirst == Spec => []ResumeFirst
<1>1. ASSUME IInv PROVE ResumeFirst
  <2>1. ResumeKept
    BY <1>1 DEF IInv
  <2> QED
    BY <2>1 DEF ResumeFirst, ResumeKept, NothingNew
<1> QED
  BY <1>1, Invariance, PTL

(* A2Commit sends an A2 picture over another one as a full refresh. *)
THEOREM A2EntersThroughFull == Spec => []A2EntersFull
<1>1. ASSUME IInv PROVE A2EntersFull
  <2>1. /\ A2Kept /\ ResumeKept /\ EpochsPast
        /\ wframe.epoch \in Nat /\ offs \in Nat
    BY <1>1 DEF IInv, TypeOK, Frame
  <2> SUFFICES ASSUME wframe # NoFrame, CommitMode \in A2Modes,
                      panel # "a2", ~unentered, ~lost
               PROVE  wframe.epoch < offs
    BY DEF A2EntersFull
  <2>2. wframe.mode \in A2Modes /\ gLastEpdMode \in A2Modes
    BY DEF CommitMode, EntersA2, A2Modes
  <2>3. ~awake
    BY <2>1, <2>2 DEF A2Kept
  <2>4. wframe.mode # "RESUME"
    BY <2>2 DEF A2Modes
  <2>5. wframe.epoch # offs
    BY <2>1, <2>3, <2>4 DEF ResumeKept, NothingNew
  <2> QED
    BY <2>1, <2>5 DEF EpochsPast
<1> QED
  BY <1>1, Invariance, PTL

(* A frame for which hwc_handle_eink_mode took a one-full request is queued in
   a mode the driver does not drop. *)
THEOREM OneFullIsQueued == Spec => OneFullQueued
<1> DEFINE P == took /\ Len(composite_queue_') > Len(composite_queue_) =>
                  composite_queue_'[Len(composite_queue_')].mode
                    \in {"FORCE_FULL", "RESUME"}
<1>1. ASSUME IInv, [Next]_vars PROVE P
  <2>0. TypeOK /\ ModeFitsPower
    BY <1>1 DEF IInv
  <2>1. ASSUME SetNewHandle, took
        PROVE  composite_queue_'[Len(composite_queue_')].mode
                 \in {"FORCE_FULL", "RESUME"}
    <3> DEFINE mode == IF last_fb_handle_mode = "RESUME" THEN "RESUME"
                       ELSE gCurrentEpdMode
               f == [mode |-> mode, epoch |-> offs]
    <3>1. composite_queue_' = Append(composite_queue_, f) /\ spc = "layers"
      BY <2>1 DEF SetNewHandle
    <3>2. f.mode \in {"FORCE_FULL", "RESUME"}
      BY <2>0, <2>1, <3>1 DEF ModeFitsPower
    <3> HIDE DEF f
    <3>3. composite_queue_'[Len(composite_queue_')] = f
      BY <2>0, <3>1 DEF TypeOK
    <3> QED
      BY <3>2, <3>3
  <2>2. CASE Aside \/ PowerOff \/ WorkerGiveUp \/ WorkerSend \/ UNCHANGED vars
    <3>1. UNCHANGED composite_queue_
      BY <2>2, AsideKeeps DEF PowerOff, WorkerGiveUp, WorkerSend, compositor, vars
    <3> QED
      BY <2>0, <3>1 DEF TypeOK
  <2>3. CASE WorkerPop
    <3>1. Len(composite_queue_') = Len(composite_queue_) - 1
            /\ Len(composite_queue_) \in Nat
      BY <2>0, <2>3 DEF WorkerPop, CanPop, TypeOK
    <3> QED
      BY <3>1
  <2> QED
    BY <1>1, <2>1, <2>2, <2>3, NextCases
<1>2. IInv /\ [Next]_vars =>
        [took /\ Len(composite_queue_') > Len(composite_queue_) =>
           composite_queue_'[Len(composite_queue_')].mode
             \in {"FORCE_FULL", "RESUME"}]_vars
  BY <1>1
<1> QED
  BY <1>2, Invariance, PTL DEF Spec, OneFullQueued

(* hwc_adajust_sf_vsync sets the skip count to 5 when the display comes out of
   a suspend, and leaves it alone for five calls. *)
THEOREM SkipCountSettles == Spec => SettlesAfterResume
<1> DEFINE P == /\ gPowerMode = "SUSPEND" /\ gPowerMode' = "RESUME" =>
                     refresh_skip_count' = 5
                /\ settled < ResumeFrames =>
                     refresh_skip_count' = refresh_skip_count
<1>1. ASSUME IInv, [Next]_vars
      PROVE  P
  <2>0. TypeOK /\ SettleCounted
    BY <1>1 DEF IInv
  <2>1. CASE PowerOn
    <3>1. gPowerMode = "SUSPEND" => last_mode = "SUSPEND"
      BY <2>0 DEF SettleCounted
    <3> QED
      BY <2>0, <2>1, <3>1, AdjustKeeps DEF PowerOn
  <2>2. ASSUME NEW mode \in Requests, NEW h \in Handles \cup {NoHandle},
               HwcSet(mode, h)
        PROVE  P
    <3>1. gPowerMode' # "RESUME"
      BY <2>2 DEF HwcSet, hwc_handle_eink_mode, Suspended
    <3> QED
      BY <2>0, <2>2, <3>1, AdjustKeeps, AdjustedModes DEF HwcSet
  <2>3. CASE PowerOff
    <3>1. CASE UNCHANGED vsync
      BY <2>3, <3>1 DEF PowerOff, vsync
    <3>2. CASE hwc_adajust_sf_vsync("SUSPEND")
      BY <2>0, <2>3, <3>2, AdjustKeeps DEF PowerOff
    <3> QED
      BY <2>3, <3>1, <3>2 DEF PowerOff
  <2>4. CASE RequestOneFull \/ InHwcSet \/ HwcSetPowerMode \/ PostWhite
               \/ PostLogo \/ InCompositor \/ UNCHANGED vars
    BY <2>4 DEF RequestOneFull, InHwcSet, SetNothing, SetSuspended,
                SetSameHandle, SetNewHandle, HwcSetPowerMode, PostWhite,
                PostLogo, InCompositor, WorkerPop, WorkerGiveUp, WorkerSend,
                vsync, power, vars
  <2> QED
    BY <1>1, <2>1, <2>2, <2>3, <2>4 DEF Next, InHwcSetPowerMode
<1>2. IInv /\ [Next]_vars =>
        [/\ gPowerMode = "SUSPEND" /\ gPowerMode' = "RESUME" =>
              refresh_skip_count' = 5
         /\ settled < ResumeFrames =>
              refresh_skip_count' = refresh_skip_count]_vars
  BY <1>1
<1> QED
  BY <1>2, Invariance, PTL DEF Spec, SettlesAfterResume
===============================================================================
