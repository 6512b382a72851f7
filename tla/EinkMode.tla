------------------------------- MODULE EinkMode -------------------------------
(***************************************************************************)
(* The display mode of a gray panel and the power states: hwc_set and      *)
(* hwc_set_power_mode, serialised by mEinkModeLock, choose the mode each   *)
(* composition is queued with and post the standby picture; the compositor *)
(* thread, which does not take mEinkModeLock, sends the compositions to    *)
(* the EBC driver later.  The locks and fences of the queue are those of   *)
(* EinkCompositor; here the queue is just a bounded one.                   *)
(*                                                                         *)
(* A mode is the name of its EPD_ constant.  History variables count what  *)
(* the properties speak about; no action of the code reads them.           *)
(***************************************************************************)
EXTENDS Integers, Sequences

CONSTANTS
  Handles,        \* framebuffer targets
  NoHandle,       \* a null handle: there is no framebuffer target
  Requests,       \* values of the property sys.eink.mode
  MaxQueueDepth,  \* kMaxQueueDepth
  SpareBuffers,   \* the driver's buffers but the one the compositor thread has
  ResumeFrames,   \* the 5 of resume_count
  MaxOffs,        \* bound: calls that turn the display off
  MaxOneFull,     \* bound: one-full requests
  MaxFaults       \* bound: pictures for which something fails

A2Modes == {"A2", "A2_DITHER"}
(* Modes for which the skip count is 5, and modes for which it is 2. *)
FastModes == A2Modes \cup {"AUTO", "OVERLAY", "DU", "DU4"}
SlowModes == {"FULL_GC16", "FULL_GL16", "FULL_GLR16", "FULL_GLD16",
              "FULL_GCC16", "PART_GC16", "PART_GL16", "PART_GLR16",
              "PART_GLD16", "PART_GCC16", "AUTO_DU", "AUTO_DU4", "A2_ENTER",
              "RESET"}
Modes == FastModes \cup SlowModes
           \cup {"RESUME", "SUSPEND", "POWER_OFF", "FORCE_FULL", "NULL"}

ASSUME ModeConstants ==
  /\ NoHandle \notin Handles
  /\ Requests \subseteq FastModes \cup SlowModes
  /\ MaxQueueDepth \in Nat \ {0} /\ SpareBuffers \in Nat
  /\ ResumeFrames \in Nat
  /\ MaxOffs \in Nat /\ MaxOneFull \in Nat /\ MaxFaults \in Nat

VARIABLES
  one_full_mode_timeline, \* property: counts requests for one full refresh
  refresh_skip_count,   \* property persist.sys.refresh_skip_count
  mEinkModeLock,        \* its owner
  gPowerMode, gCurrentEpdMode, gOneFullModeTime,
  last_mode, resume_count,             \* statics of hwc_adajust_sf_vsync
  last_fb_handle, last_fb_handle_mode, \* members of the compositor
  spc, ppc,             \* where hwc_set and hwc_set_power_mode are
  handle,               \* the framebuffer target of this hwc_set
  fence,                \* its acquire fence waits for compositions that have
                        \* not been released
  composite_queue_, wframe,            \* queued; held by the compositor thread
  owed,                 \* a composition's release point was not reached
  gLastEpdMode,         \* the compositor's last mode
  panel,                \* what the driver was sent last
  leaks,                \* driver buffers that hwc_post_epd lost
  offs,                 \* history: power-offs so far
  over,                 \* history: sends to the panel since the last power-off
  awake,                \* history: EPD_RESUME was sent since then
  lost,                 \* history: EPD_RESUME was taken by a call without a
                        \* target, or its composition was given up
  unentered,            \* history: the full refresh that enters A2 failed
  took,                 \* history: this hwc_set took a one-full request
  settled,              \* history: calls of hwc_adajust_sf_vsync since the
                        \* display came out of a suspend
  faults                \* counter of what MaxFaults bounds

power == <<gPowerMode, gCurrentEpdMode, gOneFullModeTime>>
vsync == <<refresh_skip_count, last_mode, resume_count, settled>>
target == <<last_fb_handle, last_fb_handle_mode>>
call == <<handle, fence>>
compositor == <<composite_queue_, wframe, owed, gLastEpdMode>>
screen == <<panel, leaks, over, awake, faults, unentered>>

vars == <<one_full_mode_timeline, refresh_skip_count, mEinkModeLock,
          gPowerMode, gCurrentEpdMode, gOneFullModeTime, last_mode,
          resume_count, last_fb_handle, last_fb_handle_mode, spc, ppc,
          handle, fence, composite_queue_, wframe, owed, gLastEpdMode, panel,
          leaks, offs, over, awake, lost, took, settled, faults, unentered>>

Free == "free"
Set == "set"
Power == "power"

(* A composition: its einkMode, and the power-offs before it was queued. *)
Frame == [mode : Modes, epoch : Nat]
NoFrame == [mode |-> "NULL", epoch |-> 0]

Init ==
  /\ one_full_mode_timeline = 0
  /\ refresh_skip_count \in {2, 5}
  /\ mEinkModeLock = Free
  /\ gPowerMode = "AUTO" /\ gCurrentEpdMode = "PART_GC16"
  /\ gOneFullModeTime = 0
  /\ last_mode = "NULL" /\ resume_count = ResumeFrames
  /\ last_fb_handle = NoHandle /\ last_fb_handle_mode = "PART_GC16"
  /\ spc = "idle" /\ ppc = "idle"
  /\ handle = NoHandle /\ fence = FALSE
  /\ composite_queue_ = <<>> /\ wframe = NoFrame /\ owed = FALSE
  /\ gLastEpdMode = "PART_GC16"
  /\ panel = "boot" /\ leaks = 0
  /\ offs = 0 /\ over = 0 /\ awake = TRUE /\ lost = FALSE /\ took = FALSE
  /\ settled = ResumeFrames /\ faults = 0 /\ unentered = FALSE
-------------------------------------------------------------------------------
(* The system asks for one full refresh. *)
RequestOneFull ==
  /\ one_full_mode_timeline < MaxOneFull
  /\ one_full_mode_timeline' = one_full_mode_timeline + 1
  /\ UNCHANGED <<vsync, mEinkModeLock, power, target, spc, ppc, call,
                 compositor, screen, offs, lost, took>>
-------------------------------------------------------------------------------
(***************************************************************************)
(* hwc_adajust_sf_vsync                                                    *)
(***************************************************************************)
SkipCount(mode) ==
  IF mode \in FastModes \cup {"RESUME", "SUSPEND"} THEN 5 ELSE 2

(* Variant: a suspend does not end the frames after a resume. *)
FramesLeft_Kept(mode) == resume_count

(* Frames left in which the mode stays EPD_RESUME. *)
FramesLeft(mode) ==
  IF last_mode = "RESUME" /\ mode = "SUSPEND" THEN 0 ELSE resume_count

FramesAfter(mode, left) == IF mode = "RESUME" THEN ResumeFrames ELSE left

(* Variant: one frame more than there are. *)
Settling_AtZero(left) == last_mode = "RESUME" /\ left >= 0

(* After EPD_RESUME the skip count stays for some frames. *)
Settling(left) == last_mode = "RESUME" /\ left > 0

hwc_adajust_sf_vsync(mode) ==
  LET asleep == last_mode = "SUSPEND" /\ mode # "RESUME"
      left == FramesLeft(mode)
      settling == Settling(left)
  IN \/ /\ asleep
        /\ UNCHANGED <<resume_count, last_mode, refresh_skip_count>>
     \/ /\ ~asleep /\ settling
        /\ resume_count' = left - 1
        /\ UNCHANGED <<last_mode, refresh_skip_count>>
     \/ /\ ~asleep /\ ~settling /\ mode = last_mode
        /\ resume_count' = left
        /\ UNCHANGED <<last_mode, refresh_skip_count>>
     \/ /\ ~asleep /\ ~settling /\ mode # last_mode
        /\ resume_count' = FramesAfter(mode, left)
        /\ refresh_skip_count' = SkipCount(mode)
        /\ last_mode' = mode

(* For the history: one more call; there is no need to count beyond 5. *)
CountCall == settled' = IF settled < ResumeFrames THEN settled + 1 ELSE settled
-------------------------------------------------------------------------------
(***************************************************************************)
(* hwc_set                                                                 *)
(***************************************************************************)

(* Variant: a power-off is not a suspend. *)
Suspended_NotPowerOff == gPowerMode = "SUSPEND"

Suspended == gPowerMode = "POWER_OFF" \/ gPowerMode = "SUSPEND"

SetLock == mEinkModeLock = Free /\ mEinkModeLock' = Set

Unlock == mEinkModeLock' = Free

(* Variant: the request is not remembered as served. *)
OneFull_Mode(mode) == mode

(* A request counted in sys.eink.one_full_mode_timeline replaces the mode. *)
OneFull(mode) ==
  IF gOneFullModeTime # one_full_mode_timeline THEN "FORCE_FULL" ELSE mode

hwc_handle_eink_mode(mode) ==
  \/ /\ Suspended
     /\ gCurrentEpdMode' = "SUSPEND"
     /\ took' = FALSE
     /\ UNCHANGED <<gPowerMode, gOneFullModeTime>>
  \/ /\ gPowerMode = "RESUME"
     /\ gCurrentEpdMode' = "RESUME"
     /\ gPowerMode' = "NULL"
     /\ took' = FALSE
     /\ UNCHANGED gOneFullModeTime
  \/ /\ ~Suspended /\ gPowerMode # "RESUME"
     /\ gCurrentEpdMode' = OneFull(mode)
     /\ gOneFullModeTime' = one_full_mode_timeline
     /\ took' = (gOneFullModeTime # one_full_mode_timeline)
     /\ UNCHANGED gPowerMode

(* Every composition queued was released: their fences have signalled. *)
AllReleased == composite_queue_ = <<>> /\ wframe = NoFrame /\ ~owed

(* hwc_set up to the layers: the lock is taken, sys.eink.mode is read.  h is
   the framebuffer target; the GPU may still wait to draw it. *)
HwcSet(mode, h) ==
  /\ spc = "idle"
  /\ SetLock
  /\ hwc_handle_eink_mode(mode)
  /\ hwc_adajust_sf_vsync(mode) /\ CountCall
  /\ handle' = h
  /\ fence' \in BOOLEAN
  /\ fence' => gCurrentEpdMode' = "SUSPEND" /\ h # NoHandle /\ ~AllReleased
  /\ spc' = "layers"
  /\ UNCHANGED <<one_full_mode_timeline, target, ppc, compositor, screen, offs,
                 lost>>

SetReturns == /\ Unlock
              /\ spc' = "idle" /\ handle' = NoHandle /\ fence' = FALSE

(* hwc_set finds no framebuffer target. *)
SetNothing == /\ spc = "layers" /\ handle = NoHandle
              /\ lost' = (lost \/ gCurrentEpdMode = "RESUME")
              /\ SetReturns
              /\ UNCHANGED <<one_full_mode_timeline, vsync, power, target, ppc,
                             compositor, screen, offs, took>>

(* The display is off: sync_wait(-1) on the target's fence, and no composition. *)
SetSuspended == /\ spc = "layers" /\ handle # NoHandle
                /\ gCurrentEpdMode = "SUSPEND"
                /\ fence => AllReleased
                /\ SetReturns
                /\ UNCHANGED <<one_full_mode_timeline, vsync, power, target,
                               ppc, compositor, screen, offs, lost, took>>

(* Variant: EPD_RESUME is not remembered. *)
SameHandle_Forgets == UNCHANGED last_fb_handle_mode

(* QueueComposite of the buffer queued last remembers EPD_RESUME. *)
SameHandle == last_fb_handle_mode' = IF gCurrentEpdMode = "RESUME"
                                     THEN "RESUME" ELSE last_fb_handle_mode

SetSameHandle == /\ spc = "layers" /\ handle # NoHandle
                 /\ gCurrentEpdMode # "SUSPEND"
                 /\ handle = last_fb_handle
                 /\ SameHandle
                 /\ SetReturns
                 /\ UNCHANGED <<one_full_mode_timeline, vsync, power,
                                last_fb_handle, ppc, compositor, screen, offs,
                                lost, took>>

(* QueueComposite of another buffer, once the queue has room: a remembered
   EPD_RESUME comes first. *)
SetNewHandle ==
  /\ spc = "layers" /\ handle # NoHandle /\ gCurrentEpdMode # "SUSPEND"
  /\ handle # last_fb_handle
  /\ Len(composite_queue_) < MaxQueueDepth
  /\ last_fb_handle' = handle
  /\ LET resume == last_fb_handle_mode = "RESUME"
         mode == IF resume THEN "RESUME" ELSE gCurrentEpdMode
     IN /\ last_fb_handle_mode' =
             IF resume THEN "NULL" ELSE last_fb_handle_mode
        /\ composite_queue_' =
             Append(composite_queue_, [mode |-> mode, epoch |-> offs])
  /\ SetReturns
  /\ UNCHANGED <<one_full_mode_timeline, vsync, power, ppc, wframe, owed,
                 gLastEpdMode, screen, offs, lost, took>>

InHwcSet == SetNothing \/ SetSuspended \/ SetSameHandle \/ SetNewHandle
-------------------------------------------------------------------------------
(***************************************************************************)
(* hwc_set_power_mode                                                      *)
(***************************************************************************)
HwcSetPowerMode == /\ ppc = "idle" /\ mEinkModeLock = Free
                   /\ mEinkModeLock' = Power
                   /\ \/ ppc' = "on"
                      \/ ppc' = "off" /\ offs < MaxOffs
                   /\ UNCHANGED <<one_full_mode_timeline, vsync, power, target,
                                  spc, took, call, compositor, screen, offs,
                                  lost>>

(* HWC_POWER_MODE_NORMAL and HWC_POWER_MODE_DOZE_SUSPEND *)
PowerOn == /\ ppc = "on"
           /\ gPowerMode' = "RESUME"
           /\ gCurrentEpdMode' = "FULL_GC16"
           /\ hwc_adajust_sf_vsync("RESUME")
           /\ IF gPowerMode = "SUSPEND" THEN settled' = 0 ELSE CountCall
           /\ Unlock
           /\ ppc' = "idle"
           /\ UNCHANGED <<one_full_mode_timeline, gOneFullModeTime, target,
                          spc, took, call, compositor, screen, offs, lost>>

(* HWC_POWER_MODE_OFF, with sys.power.shutdown set or not *)
PowerOff == /\ ppc = "off"
            /\ \/ gPowerMode' = "POWER_OFF" /\ UNCHANGED vsync
               \/ /\ gPowerMode' = "SUSPEND"
                  /\ hwc_adajust_sf_vsync("SUSPEND") /\ CountCall
            /\ gCurrentEpdMode' = "SUSPEND"
            /\ offs' = offs + 1 /\ over' = 0 /\ awake' = FALSE
            /\ ppc' \in {"white", "logo"}
            /\ UNCHANGED <<one_full_mode_timeline, mEinkModeLock,
                           gOneFullModeTime, target, spc, took, call, compositor,
                           panel, leaks, faults, unentered, lost>>

(* For the history: the display is off. *)
DisplayOff == gPowerMode \in {"POWER_OFF", "SUSPEND"}

(* Something fails. *)
Fault == faults < MaxFaults /\ faults' = faults + 1

(* EBC_GET_BUFFER waits for a driver buffer or fails; EBC_SEND_BUFFER puts the
   picture on the panel, or fails and the buffer is lost. *)
hwc_post_epd(picture) ==
  \/ /\ leaks < SpareBuffers
     /\ panel' = picture
     /\ UNCHANGED <<leaks, faults>>
  \/ /\ Fault
     /\ UNCHANGED <<panel, leaks>>
  \/ /\ leaks < SpareBuffers /\ Fault
     /\ leaks' = leaks + 1
     /\ UNCHANGED panel

(* hwc_post_epd_logo: ro.need.white.with.standby asks for a white screen. *)
PostWhite == /\ ppc = "white"
             /\ hwc_post_epd("white")
             /\ ppc' = "logo"
             /\ UNCHANGED <<one_full_mode_timeline, vsync, mEinkModeLock,
                            power, target, spc, took, call, compositor, offs, over,
                            awake, unentered, lost>>

PostLogo == /\ ppc = "logo"
            /\ hwc_post_epd(gPowerMode)
            /\ gCurrentEpdMode' = "SUSPEND"
            /\ Unlock
            /\ ppc' = "idle"
            /\ UNCHANGED <<one_full_mode_timeline, vsync, gPowerMode,
                           gOneFullModeTime, target, spc, took, call, compositor,
                           offs, over, awake, unentered, lost>>

InHwcSetPowerMode == PowerOn \/ PowerOff \/ PostWhite \/ PostLogo
-------------------------------------------------------------------------------
(***************************************************************************)
(* The compositor thread: Routine, Compose, SetEinkMode and the commits.   *)
(***************************************************************************)
(* Variant: the compositor thread takes mEinkModeLock for it. *)
CanPop_Locked ==
  mEinkModeLock = Free /\ wframe = NoFrame /\ composite_queue_ # <<>>

(* Routine pops when there is something; mEinkModeLock is not asked for. *)
CanPop == wframe = NoFrame /\ composite_queue_ # <<>>

WorkerPop == /\ CanPop
             /\ wframe' = Head(composite_queue_)
             /\ composite_queue_' = Tail(composite_queue_)
             /\ UNCHANGED <<one_full_mode_timeline, vsync, mEinkModeLock,
                            power, target, spc, took, ppc, call, owed,
                            gLastEpdMode, screen, offs, lost>>

(* Compose gives up, and does not reach the release point: an acquire fence did
   not signal in time. *)
WorkerGiveUp == /\ wframe # NoFrame /\ Fault
                /\ wframe' = NoFrame
                /\ owed' = TRUE
                /\ lost' = (lost \/ wframe.mode = "RESUME")
                /\ UNCHANGED <<one_full_mode_timeline, vsync, mEinkModeLock,
                               power, target, spc, took, ppc, call,
                               composite_queue_, gLastEpdMode, panel, leaks,
                               offs, over, awake, unentered>>

(* A2Commit: the panel was not in an A2 mode before. *)
EntersA2 == gLastEpdMode \notin A2Modes

(* The mode the driver gets: A2Commit enters A2 with a full refresh. *)
CommitMode == IF wframe.mode \in A2Modes /\ EntersA2
              THEN "FORCE_FULL" ELSE wframe.mode

(* What it shows then: an A2 picture, or another one. *)
Picture == IF wframe.mode \in A2Modes THEN "a2" ELSE "frame"

(* Variant: only A2Commit remembers the mode. *)
LastMode_OnlyA2 ==
  IF wframe.mode \in A2Modes THEN wframe.mode ELSE gLastEpdMode

(* gLastEpdMode after a commit, whether or not the driver took the picture. *)
LastMode == wframe.mode

(* An ioctl may fail, or FinishComposition; if not, that catches up with the
   release points missed before. *)
WorkerSend == /\ wframe # NoFrame
              /\ \/ /\ panel' = Picture /\ owed' = FALSE
                    /\ UNCHANGED faults
                 \/ /\ Fault
                    /\ panel' \in {panel, Picture} /\ owed' \in BOOLEAN
              /\ gLastEpdMode' = LastMode
              /\ wframe' = NoFrame
              /\ over' = IF DisplayOff THEN over + 1 ELSE over
              /\ awake' = \/ awake
                          \/ wframe.mode = "RESUME" /\ wframe.epoch = offs
              /\ unentered' = (/\ unentered \/ CommitMode # wframe.mode
                               /\ panel' # "a2")
              /\ UNCHANGED <<one_full_mode_timeline, vsync, mEinkModeLock,
                             power, target, spc, took, ppc, call,
                             composite_queue_, leaks, offs, lost>>

InCompositor == WorkerPop \/ WorkerGiveUp \/ WorkerSend
-------------------------------------------------------------------------------
Next == \/ RequestOneFull
        \/ \E mode \in Requests, h \in Handles \cup {NoHandle} : HwcSet(mode, h)
        \/ InHwcSet
        \/ HwcSetPowerMode \/ InHwcSetPowerMode
        \/ InCompositor

Spec == Init /\ [][Next]_vars

(* A call that has its lock goes on when it need not wait, and so does the
   compositor thread; nobody has to call. *)
Fairness == WF_vars(InHwcSet) /\ WF_vars(InHwcSetPowerMode)
              /\ WF_vars(InCompositor)

FairSpec == Spec /\ Fairness
-------------------------------------------------------------------------------
TypeOK ==
  /\ one_full_mode_timeline \in Nat /\ gOneFullModeTime \in Nat
  /\ refresh_skip_count \in {2, 5}
  /\ mEinkModeLock \in {Free, Set, Power}
  /\ gPowerMode \in {"AUTO", "NULL", "RESUME", "SUSPEND", "POWER_OFF"}
  /\ gCurrentEpdMode \in Modes /\ last_mode \in Modes
  /\ resume_count \in 0..ResumeFrames /\ settled \in 0..ResumeFrames
  /\ last_fb_handle \in Handles \cup {NoHandle}
  /\ last_fb_handle_mode \in Modes /\ gLastEpdMode \in Modes
  /\ spc \in {"idle", "layers"}
  /\ ppc \in {"idle", "on", "off", "white", "logo"}
  /\ handle \in Handles \cup {NoHandle} /\ leaks \in Nat
  /\ wframe \in Frame /\ composite_queue_ \in Seq(Frame)
  /\ panel \in {"boot", "white", "SUSPEND", "POWER_OFF", "a2", "frame"}
  /\ offs \in Nat /\ over \in Nat /\ faults \in Nat
  /\ {awake, lost, took, unentered, fence, owed} \subseteq BOOLEAN

Held == IF wframe = NoFrame THEN 0 ELSE 1

(* Once hwc_set_power_mode has turned the display off, the compositor thread
   may still draw over the standby picture, but only what the queue held and
   what the thread itself held at that moment. *)
StandbyOverwrites ==
  DisplayOff => over + Len(composite_queue_) + Held <= MaxQueueDepth + 1

(* The first composition queued after the display was off is sent with
   EPD_RESUME, even if the frame that asked for it showed the same buffer or
   the display was turned off again in between.  Exceptions: a call without a
   framebuffer target took EPD_RESUME, or its composition was given up. *)
ResumeFirst ==
  wframe # NoFrame /\ wframe.epoch = offs =>
    awake \/ lost \/ wframe.mode = "RESUME"

(* The panel gets an A2 mode only on top of a picture sent in an A2 mode, the
   forced full refresh that enters A2 included.  A standby picture does not
   break this, except for frames queued before it.  If that full refresh could
   not be sent, the next A2 picture goes out as if it had been. *)
A2EntersFull ==
  wframe # NoFrame /\ CommitMode \in A2Modes =>
    panel = "a2" \/ unentered \/ lost \/ wframe.epoch < offs

(* The frame that takes a one-full request, if it is queued, goes out in a
   mode the driver must not drop. *)
OneFullQueued ==
  [][took /\ Len(composite_queue_') > Len(composite_queue_) =>
       composite_queue_'[Len(composite_queue_')].mode
         \in {"FORCE_FULL", "RESUME"}]_vars

(* EPD_RESUME out of a suspend sets the skip count to 5, and there it stays for
   five calls, whatever modes, resumes and power-offs they ask for.  A resume
   out of a shutdown power-off, or without a power-off, is one more call here:
   hwc_adajust_sf_vsync takes it for one if EPD_RESUME came last. *)
SettlesAfterResume ==
  [][/\ gPowerMode = "SUSPEND" /\ gPowerMode' = "RESUME" =>
          refresh_skip_count' = 5
     /\ settled < ResumeFrames => refresh_skip_count' = refresh_skip_count]_vars

(* sync_wait(-1) of a skipped frame: the GPU waits for a composition that was
   dropped, and there is none left to catch up for it. *)
WaitsForDropped ==
  fence /\ owed /\ composite_queue_ = <<>> /\ wframe = NoFrame

(* hwc_set and hwc_set_power_mode give mEinkModeLock back, although hwc_set
   waits with it for the compositor thread, for room or for a fence, and
   hwc_set_power_mode for a driver buffer.  The exceptions: a fence that waits
   for a dropped composition, and when all buffers hwc_post_epd may get are
   lost. *)
LockReleased ==
  mEinkModeLock # Free ~>
    mEinkModeLock = Free \/ WaitsForDropped \/ leaks >= SpareBuffers
===============================================================================
