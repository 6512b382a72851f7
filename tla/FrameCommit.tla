------------------------------ MODULE FrameCommit ------------------------------
(***************************************************************************)
(* One frame on the compositor thread, from SetEinkMode and                *)
(* SetColorEinkMode to the driver: the scratch buffer for the RGA, the     *)
(* blit, the lock, the conversion into gray16_buffer, the commit, and the  *)
(* driver's settings, which follow three system properties.  Every call    *)
(* outside the process may fail, and nobody looks at what the conversion   *)
(* and the commit return.                                                  *)
(*                                                                         *)
(* A frame is a number.  The RGA, the mapper and the allocator are         *)
(* modelled from how they are called; DriverBuffers is the driver, and     *)
(* what this thread does to its buffers.                                   *)
(***************************************************************************)
EXTENDS HandleAttributes, FiniteSets, SequencesExt

CONSTANTS
  Buffers, NoBuffer,  \* as in DriverBuffers
  Modes,              \* the modes of the frames
  Values,             \* what the properties of the settings may say
  MaxFrames,          \* bound: frames
  MaxFaults           \* bound: failing calls

(* The HAL's numbers of the formats. *)
RGBA_8888 == 1
RGB_565 == 4
YCrCb_NV12 == 21

ASSUME FormatConstants == NV12_10 \notin {RGBA_8888, RGB_565, YCrCb_NV12}
ASSUME FrameConstants == MaxFrames \in Nat

VARIABLES
  lent, content, sent, shown,  \* the driver, as in DriverBuffers
  setting,         \* the driver's settings
  panel_color,     \* the kind of the panel
  format,          \* the format of the frames
  gray16_buffer,   \* where the frame is drawn
  scratch,         \* rgaBuffers[0]
  locked,          \* the buffers left locked: "frame", "scratch"
  gLastEpdMode,
  cache,           \* curr_not_fullmode_num, prev_diff_percent, wait_new_buf_time
  wpc, frame, mode, \* where the thread is, its frame and the frame's mode
  commit,          \* commit_buf_info.epd_mode
  value,           \* the property read last
  faults,          \* counter of what MaxFaults bounds
  failures,        \* history: frames not drawn, sends and gets that failed
  before,          \* history: what gray16_buffer held before this frame
  misdrawn,        \* history: this frame was not drawn
  spoiled,         \* history: what went wrong in this frame
  askew,           \* history: the RGA read this frame with a wrong stride
  leaked,          \* history: a lock succeeded, but gave no address
  strayed          \* history: EBC_GET_BUFFER failed

driver == <<lent, sent, shown>>
device == <<setting, panel_color, format>>
marks == <<before, leaked, strayed>>

vars == <<lent, content, sent, shown, setting, panel_color, format,
          gray16_buffer, scratch, locked, gLastEpdMode, cache, wpc, frame, mode,
          commit, value, faults, failures, before, misdrawn, spoiled, askew,
          leaked, strayed>>

A2Modes == {"EPD_A2", "EPD_A2_DITHER"}

(* The mode that goes to the driver. *)
CommitMode == IF panel_color = 0 /\ mode \in A2Modes /\ gLastEpdMode \notin A2Modes
              THEN "EPD_FORCE_FULL" ELSE mode

NeedPic(m) == m \in {"EPD_RESUME", "EPD_FORCE_FULL", "EPD_A2_ENTER"}

(* The three settings, in the order of their updates, and what the static
   variables take the driver's to be before the first ioctl. *)
Settings == 1..3
InitialCache == <<-1, 0, 0>>

(* What the driver was set to before this process started. *)
Inherited == -2

NoScratch == [buffer |-> "none", format |-> 0, picture |-> 0]

Init ==
  /\ gray16_buffer \in Buffers
  /\ lent = [b \in Buffers |-> IF b = gray16_buffer THEN "compositor" ELSE "free"]
  /\ content = [b \in Buffers |-> 0]
  /\ sent = <<>> /\ shown = 0
  /\ setting = [s \in Settings |-> Inherited] /\ cache = InitialCache
  /\ panel_color \in {0, 1, 2} /\ format \in {RGBA_8888, RGB_565}
  /\ scratch = NoScratch /\ locked = {}
  /\ gLastEpdMode = "EPD_PART_GC16" /\ commit = "EPD_PART_GC16"
  /\ wpc = "idle" /\ frame = 0 /\ mode = "EPD_PART_GC16" /\ value = 0
  /\ faults = 0 /\ failures = 0 /\ before = 0
  /\ misdrawn = FALSE /\ spoiled = "no" /\ askew = FALSE
  /\ leaked = FALSE /\ strayed = FALSE

(* The driver's buffers as DriverBuffers sees them; the standby path rests. *)
DB == INSTANCE DriverBuffers WITH
        wpc <- IF wpc \in {"convert", "gray16", "blit", "draw"} THEN "convert"
               ELSE IF wpc \in {"send", "get"} THEN wpc ELSE "idle",
        needpic <- NeedPic(IF wpc \in {"convert", "gray16", "blit", "draw", "send"}
                           THEN CommitMode ELSE commit),
        pictures <- frame, faults <- failures,
        MaxPictures <- MaxFrames, MaxFaults <- 3 * MaxFrames,
        lpc <- "idle", lbuf <- NoBuffer, logo <- 0, leaks <- 0
-------------------------------------------------------------------------------
(* A call fails; the conversion notes how. *)
Fault == faults < MaxFaults /\ faults' = faults + 1
Spoil(how) == Fault /\ spoiled' = IF spoiled = "blind" THEN "blind" ELSE how
NoFault == UNCHANGED <<faults, spoiled>>

(* Panel and frames are eight pixels wide. *)
Width == 8
Bits(f) == CASE f = RGBA_8888 -> 32 [] f = RGB_565 -> 16 [] OTHER -> 8

(* The answers of the mapper for a buffer of format f. *)
Mapper(f) ==
  [Width |-> Answer(Width), Height |-> Answer(2),
   PixelFormatRequested |-> Answer(f),
   PlaneLayouts |-> Answer(<<[strideInBytes |-> (Width * Bits(f)) \div 8,
                              sampleIncrementInBits |-> Bits(f)]>>),
   AllocationSize |-> Answer((2 * Width * Bits(f)) \div 8)]

(* One query fails, or says that there are no planes. *)
BadMappers(f) ==
  {[Mapper(f) EXCEPT ![q] = Failed] : q \in DOMAIN Mapper(f)}
    \cup {[Mapper(f) EXCEPT !.PlaneLayouts = Answer(<<>>)]}

How(m) == IF m.PlaneLayouts = Answer(<<>>) THEN "blind" ELSE "failed"

(* The RGA refuses what it cannot read, and reads a frame whose stride is
   wrong askew, if at all. *)
Rga(m) ==
  LET stride == hwc_get_handle_attibute(m, "ATT_STRIDE")
  IN  IF \/ stride < 0
         \/ hwc_get_handle_attibute(m, "ATT_HEIGHT") < 0
         \/ hwc_get_handle_attibute(m, "ATT_FORMAT") < 0
      THEN {"refused"}
      ELSE IF stride = Width THEN {"copied"} ELSE {"refused", "skewed"}

(* A lock succeeds, unless the area is invalid or the buffer still locked:
   then the mapper may refuse. *)
Lock(m, b) ==
  {"locked"} \cup
    IF b \in locked \/ hwc_get_handle_attibute(m, "ATT_WIDTH") = -1
                    \/ hwc_get_handle_attibute(m, "ATT_HEIGHT") = -1
    THEN {"refused"} ELSE {}

(* Variant: the buffer stays locked. *)
HeldAfterUnlock_All(b) == locked \cup {b}

HeldAfterUnlock(b) == locked

(* The conversion is over. *)
Converted(drawn) == /\ wpc' = "send"
                    /\ misdrawn' = ~drawn
                    /\ failures' = IF drawn THEN failures ELSE failures + 1
-------------------------------------------------------------------------------
(* The driver shows a picture, or drops one for a newer one. *)
DriverSteps ==
  /\ \E i \in 1..Len(sent) :
       /\ lent' = [lent EXCEPT ![sent[i].buffer] = "free"]
       /\ sent' = RemoveAt(sent, i)
       /\ \/ i = 1 /\ shown' = content[sent[1].buffer]
          \/ i < Len(sent) /\ ~sent[i].keep /\ UNCHANGED shown
  /\ UNCHANGED <<content, device, gray16_buffer, scratch, locked, gLastEpdMode,
                 cache, wpc, frame, mode, commit, value, faults, failures,
                 misdrawn, spoiled, askew, marks>>

Compose == /\ wpc = "idle" /\ frame < MaxFrames
           /\ frame' = frame + 1
           /\ mode' \in Modes
           /\ wpc' = "convert"
           /\ before' = content[gray16_buffer]
           /\ misdrawn' = FALSE /\ spoiled' = "no" /\ askew' = FALSE
           /\ value' = 0
           /\ UNCHANGED <<driver, content, device, gray16_buffer, scratch,
                          locked, gLastEpdMode, cache, commit, faults, failures,
                          leaked, strayed>>

(* SetEinkMode, ConvertToY4Dither: sys.eink.rgba2y4_by_rga is read for every
   frame; ConvertToY1Dither and the colour panels do without it. *)
ConvertByRga == /\ wpc = "convert"
                /\ panel_color = 0 /\ mode # "EPD_A2_DITHER"
                /\ wpc' = "gray16"
                /\ UNCHANGED <<driver, content, device, gray16_buffer, scratch,
                               locked, gLastEpdMode, cache, frame, mode, commit,
                               value, faults, failures, misdrawn, spoiled, askew, marks>>

(* Rgba888ToGray16ByRga: locks the frame, draws it into gray16_buffer. *)
Rgba888ToGray16ByRga ==
  /\ wpc = "gray16"
  /\ \E m \in {Mapper(format)} \cup BadMappers(format) :
     \E l \in Lock(m, "frame") \cup {"error", "null"} :
     \E r \in Rga(m) \cup {"failed"} :
       LET drawn == l = "locked" /\ r \in {"copied", "skewed"} IN
       /\ IF m = Mapper(format) /\ l \in Lock(m, "frame") /\ r \in Rga(m)
          THEN NoFault ELSE Spoil(How(m))
       /\ content' = IF drawn THEN [content EXCEPT ![gray16_buffer] = frame]
                     ELSE content
       /\ locked' = CASE l = "locked" -> HeldAfterUnlock("frame")
                      [] l = "null" -> locked \cup {"frame"}
                      [] OTHER -> locked
       /\ leaked' = (leaked \/ l = "null")
       /\ askew' = (drawn /\ r = "skewed")
       /\ Converted(drawn)
  /\ UNCHANGED <<driver, device, gray16_buffer, scratch, gLastEpdMode, cache,
                 frame, mode, commit, value, before, strayed>>

(* Variant: a buffer that was allocated in vain will do. *)
Reusable_Empty(f) == scratch.buffer # "none"

(* A GraphicBuffer that got no memory has width 0. *)
Reusable(f) == scratch.buffer = "ready" /\ scratch.format = f

(* ConvertToY4Dither, ConvertToY1Dither, ConvertToColorEink1 and 2 take the
   scratch buffer with DrmRgaBuffer::Allocate, which answers TRUE in any case:
   buffer_ is never NULL after it. *)
Allocate ==
  /\ wpc = "convert"
  /\ \E m \in {Mapper(format)} \cup IF panel_color = 0 THEN {} ELSE BadMappers(format) :
     \E got \in BOOLEAN :
       LET f == IF panel_color = 0 THEN YCrCb_NV12
                ELSE hwc_get_handle_attibute(m, "ATT_FORMAT") IN
       /\ IF Reusable(f) THEN got /\ UNCHANGED scratch
          ELSE scratch' = [buffer |-> IF got THEN "ready" ELSE "empty",
                           format |-> f, picture |-> 0]
       /\ f < 0 => ~got
       /\ IF m = Mapper(format) /\ got THEN NoFault ELSE Spoil("failed")
  /\ wpc' = "blit"
  /\ UNCHANGED <<driver, content, device, gray16_buffer, locked, gLastEpdMode,
                 cache, frame, mode, commit, value, failures, misdrawn, askew,
                 marks>>

(* Variant: the result of the blit is not looked at. *)
BlitDone_Unchecked(ok) ==
  wpc' = "draw" /\ UNCHANGED <<misdrawn, failures>>

(* A failing blit ends the conversion. *)
BlitDone(ok) == IF ok THEN wpc' = "draw" /\ UNCHANGED <<misdrawn, failures>>
                ELSE Converted(FALSE)

(* Rgba888ToGray256ByRga, Rgba8888ClipRgba: the frame into the scratch buffer;
   the latter asks for the format of the scratch buffer, too. *)
BlitToScratch ==
  /\ wpc = "blit"
  /\ \E m \in {Mapper(format)} \cup BadMappers(format) :
     \E f \in {scratch.format} \cup IF panel_color = 0 THEN {} ELSE {-1} :
     \E r \in Rga(m) \cup {"refused", "failed"} :
       /\ scratch.buffer # "ready" \/ f < 0 => r = "refused"
       /\ IF /\ m = Mapper(format) /\ f = scratch.format
             /\ r \in Rga(m) \/ scratch.buffer # "ready"
          THEN NoFault ELSE Spoil(How(m))
       /\ scratch' = IF r \in {"copied", "skewed"}
                     THEN [scratch EXCEPT !.picture = frame] ELSE scratch
       /\ askew' = (r = "skewed")
       /\ BlitDone(r \in {"copied", "skewed"})
  /\ UNCHANGED <<driver, content, device, gray16_buffer, locked, gLastEpdMode,
                 cache, frame, mode, commit, value, marks>>

(* The colour conversions draw by the size the scratch buffer is said to have,
   and only the formats they know... *)
DrawsColorEink1(width, height) ==
  width > 0 /\ height > 0 /\ format = RGBA_8888
DrawsColorEink2(width, height) ==
  width > 0 /\ height > 0 /\ format \in {RGBA_8888, RGB_565}

(* ... gray256_to_gray16_dither and gray256_to_gray2_dither by the size of the
   panel. *)
Draws(width, height) ==
  CASE panel_color = 0 -> TRUE
    [] panel_color = 1 -> DrawsColorEink1(width, height)
    [] panel_color = 2 -> DrawsColorEink2(width, height)

(* The second half of the conversions: lock the scratch buffer, draw it into
   gray16_buffer, unlock it. *)
DrawScratch ==
  /\ wpc = "draw"
  /\ \E m \in {Mapper(scratch.format)} \cup BadMappers(scratch.format) :
     \E l \in Lock(m, "scratch") \cup {"error", "null"} :
       LET width == hwc_get_handle_attibute(m, "ATT_WIDTH")
           height == hwc_get_handle_attibute(m, "ATT_HEIGHT")
           drawn == l = "locked" /\ Draws(width, height) IN
       /\ IF m = Mapper(scratch.format) /\ l \in Lock(m, "scratch")
          THEN NoFault ELSE Spoil(How(m))
       /\ content' = IF drawn
                     THEN [content EXCEPT ![gray16_buffer] = scratch.picture]
                     ELSE content
       /\ locked' = CASE l = "locked" -> HeldAfterUnlock("scratch")
                      [] l = "null" -> locked \cup {"scratch"}
                      [] OTHER -> locked
       /\ leaked' = (leaked \/ l = "null")
       /\ Converted(drawn)
  /\ UNCHANGED <<driver, device, gray16_buffer, scratch, gLastEpdMode, cache,
                 frame, mode, commit, value, askew, before, strayed>>
-------------------------------------------------------------------------------
(* A2Commit, Y4Commit: gLastEpdMode is the frame's mode, sent or not. *)
Committed == /\ gLastEpdMode' = mode
             /\ wpc' = "update1"
             /\ spoiled' = "no" /\ askew' = FALSE /\ before' = 0

PostEinkSend ==
  /\ wpc = "send"
  /\ commit' = CommitMode
  /\ \/ /\ DB!Accept(gray16_buffer, NeedPic(CommitMode))
        /\ wpc' = "get"
        /\ UNCHANGED <<gLastEpdMode, faults, spoiled, failures, askew, before>>
     \/ /\ Fault
        /\ failures' = failures + 1
        /\ Committed
        /\ UNCHANGED <<lent, sent>>
  /\ UNCHANGED <<content, shown, device, gray16_buffer, scratch, locked, cache,
                 frame, mode, value, misdrawn, leaked, strayed>>

PostEinkGet ==
  /\ wpc = "get"
  /\ \/ /\ \E b \in Buffers : /\ DB!Lend(b, "compositor")
                              /\ gray16_buffer' = b
        /\ UNCHANGED <<faults, failures, strayed>>
     \/ /\ Fault
        /\ failures' = failures + 1
        /\ strayed' = TRUE
        /\ UNCHANGED <<lent, gray16_buffer>>
  /\ Committed
  /\ UNCHANGED <<content, sent, shown, device, scratch, locked, cache, frame,
                 mode, commit, value, leaked, misdrawn>>
-------------------------------------------------------------------------------
Updating(s) == wpc = <<"update1", "update2", "update3">>[s]

(* Variant: the driver's new value is noted before the ioctl. *)
CacheAfter_Early(s, v, ok) == [cache EXCEPT ![s] = v]

(* A failing ioctl returns before the assignment. *)
CacheAfter(s, v, ok) == IF ok THEN [cache EXCEPT ![s] = v] ELSE cache

(* update_fullmode_num, update_diff_percent_num, update_waiting_time: the
   property is read, and sent if it is not what was sent before. *)
Update(s) ==
  /\ Updating(s)
  /\ value' \in Values
  /\ \/ /\ value' = cache[s]
        /\ UNCHANGED <<setting, cache, faults>>
     \/ /\ value' # cache[s]
        /\ setting' = [setting EXCEPT ![s] = value']
        /\ cache' = CacheAfter(s, value', TRUE)
        /\ UNCHANGED faults
     \/ /\ value' # cache[s]
        /\ Fault
        /\ cache' = CacheAfter(s, value', FALSE)
        /\ UNCHANGED setting
  /\ wpc' = <<"update2", "update3", "idle">>[s]
  /\ UNCHANGED <<driver, content, panel_color, format, gray16_buffer, scratch,
                 locked, gLastEpdMode, frame, mode, commit, failures, misdrawn,
                 spoiled, askew, marks>>

(* Nothing is left to do. *)
AllQuiet == /\ wpc = "idle" /\ frame = MaxFrames /\ sent = <<>>
            /\ UNCHANGED vars

Next == \/ DriverSteps
        \/ Compose \/ ConvertByRga \/ Rgba888ToGray16ByRga
        \/ Allocate \/ BlitToScratch \/ DrawScratch
        \/ PostEinkSend \/ PostEinkGet
        \/ \E s \in Settings : Update(s)
        \/ AllQuiet

Spec == Init /\ [][Next]_vars
-------------------------------------------------------------------------------
TypeOK ==
  /\ gray16_buffer \in Buffers /\ content \in [Buffers -> 0..frame]
  /\ frame \in Nat /\ before \in 0..frame /\ faults \in Nat
  /\ scratch \in [buffer : {"none", "empty", "ready"}, format : Int,
                  picture : 0..frame]
  /\ panel_color \in {0, 1, 2} /\ format \in {RGBA_8888, RGB_565}
  /\ locked \subseteq {"frame", "scratch"}
  /\ setting \in [Settings -> Values \cup {Inherited}]
  /\ cache \in [Settings -> Values \cup {-1, 0}]
  /\ spoiled \in {"no", "failed", "blind"}

(* What this thread does to the driver's buffers is what DriverBuffers says. *)
ImplementsDriver == DB!Spec

(* What goes to the driver is this frame, if no call failed for it and the
   panel knows its format: an earlier frame's failure leaves nothing behind
   that spoils this one, except a lock that gave no address.  If a call
   failed, it is this frame or what the buffer held before, never another
   frame that was left in the scratch buffer; only a frame without plane
   layouts comes out askew. *)
FrameIsWhole ==
  wpc = "send" /\ ~strayed =>
    LET drawn == content[gray16_buffer]
    IN  /\ spoiled = "no" /\ ~leaked /\ Draws(Width, 2) => drawn = frame
        /\ drawn \in {frame, before}
        /\ askew => spoiled = "blind"

(* After each update that did not fail the driver is set to what the property
   says, however many updates failed before; a value the driver has kept from
   an earlier process is not corrected if the property has this process's
   initial value. *)
SettingsFollow ==
  [][\A s \in Settings :
       Updating(s) /\ ~Updating(s)' /\ faults' = faults =>
         \/ setting'[s] = value'
         \/ setting'[s] = Inherited /\ value' = InitialCache[s]]_vars
===============================================================================
