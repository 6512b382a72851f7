--------------------------- MODULE FrameCommitProofs ---------------------------
(***************************************************************************)
(* One frame on the compositor thread, for every set of buffers, modes and *)
(* property values and any number of frames and of failing calls: what the *)
(* driver is sent is this frame or the one the buffer held, and the        *)
(* driver's settings follow.                                               *)
(***************************************************************************)
EXTENDS FrameCommit, SequenceTheorems, TLAPS

(* What an update has not sent yet is what the driver was set to before. *)
CacheIsSetting ==
  \A s \in Settings :
    \/ setting[s] = cache[s]
    \/ setting[s] = Inherited /\ cache[s] = InitialCache[s]

(* Only a lock that gave no address leaves a buffer locked. *)
LockedIsLeaked == locked = {} \/ leaked

(* A scratch buffer that has memory has one of the formats it is asked for. *)
ScratchIsKnown ==
  scratch.buffer = "ready" =>
    scratch.format \in {RGBA_8888, RGB_565, YCrCb_NV12}

(* Where the frame is before it is sent. *)
FrameOnItsWay ==
  /\ wpc \in {"convert", "gray16", "blit", "draw"} =>
       content[gray16_buffer] = before
  /\ wpc \in {"convert", "gray16"} => spoiled = "no" /\ ~askew
  /\ wpc = "blit" => /\ spoiled \in {"no", "failed"} /\ ~askew
                     /\ spoiled = "no" => scratch.buffer = "ready"
  /\ wpc = "draw" => /\ scratch.picture = frame /\ scratch.buffer = "ready"
                     /\ askew => spoiled = "blind"
  /\ wpc = "send" =>
       LET drawn == content[gray16_buffer]
       IN  /\ spoiled = "no" /\ ~leaked /\ Draws(Width, 2) => drawn = frame
           /\ drawn \in {frame, before}
           /\ askew => spoiled = "blind"

IInv == TypeOK /\ CacheIsSetting /\ LockedIsLeaked /\ ScratchIsKnown
          /\ FrameOnItsWay
-------------------------------------------------------------------------------
Formats == {RGBA_8888, RGB_565, YCrCb_NV12}

(* What a mapper that answers says of a buffer. *)
LEMMA GoodMapper ==
  ASSUME NEW f \in Formats
  PROVE  /\ hwc_get_handle_attibute(Mapper(f), "ATT_WIDTH") = Width
         /\ hwc_get_handle_attibute(Mapper(f), "ATT_HEIGHT") = 2
         /\ hwc_get_handle_attibute(Mapper(f), "ATT_STRIDE") = Width
         /\ hwc_get_handle_attibute(Mapper(f), "ATT_FORMAT") = f
<1> DEFINE m == Mapper(f)
<1>1. /\ m.Width = Answer(Width) /\ m.Height = Answer(2)
      /\ m.PixelFormatRequested = Answer(f)
      /\ m.PlaneLayouts = Answer(<<[strideInBytes |-> (Width * Bits(f)) \div 8,
                                    sampleIncrementInBits |-> Bits(f)]>>)
  BY DEF Mapper
<1>2. Bits(f) \in {8, 16, 32}
  BY DEF Bits, Formats, RGBA_8888, RGB_565, YCrCb_NV12
<1>3. /\ get_width(m) = Answer(Width) /\ get_height(m) = Answer(2)
      /\ get_format_requested(m) = Answer(f)
      /\ get_metadata(m.PlaneLayouts) = m.PlaneLayouts
  BY <1>1 DEF get_width, get_height, get_format_requested, get_metadata, Answer, OK
<1>4. Stored(get_format_requested(m), 0) = f /\ f # NV12_10
  BY <1>3, FormatConstants DEF Stored, Answer, Formats
<1>5. /\ FirstPlane(m, "strideInBytes") = Answer((Width * Bits(f)) \div 8)
      /\ FirstPlane(m, "sampleIncrementInBits") = Answer(Bits(f))
  BY <1>1, <1>3 DEF FirstPlane, Stored, Answer, OK
<1>6. /\ get_byte_stride(m) = Answer((Width * Bits(f)) \div 8)
      /\ get_bit_per_pixel(m) = Answer(Bits(f))
  BY <1>3, <1>4, <1>5 DEF get_byte_stride, get_bit_per_pixel, Answer, OK
<1>7. get_pixel_stride(m) = Answer(((((Width * Bits(f)) \div 8) * 8) \div Bits(f)))
  BY <1>2, <1>6 DEF get_pixel_stride, Stored, Answer, OK
<1>8. ((((Width * Bits(f)) \div 8) * 8) \div Bits(f)) = Width
  BY <1>2 DEF Width
<1>9. get_pixel_stride(m) = Answer(Width)
  BY <1>7, <1>8
<1>10. ASSUME NEW v PROVE Returned(Answer(v)) = v
  BY DEF Returned, Answer, OK
<1>11. QED
  BY <1>3, <1>9, <1>10 DEF hwc_get_handle_attibute, hwc_get_handle_width,
     hwc_get_handle_height, hwc_get_handle_stride, hwc_get_handle_format

(* The stride is wrong only for a frame without plane layouts. *)
LEMMA BadMapper ==
  ASSUME NEW f \in Formats, NEW m \in BadMappers(f), How(m) # "blind"
  PROVE  hwc_get_handle_attibute(m, "ATT_STRIDE") \in {-1, Width}
<1>1. PICK q \in DOMAIN Mapper(f) : m = [Mapper(f) EXCEPT ![q] = Failed]
  <2>1. m.PlaneLayouts # Answer(<<>>)
    BY DEF How
  <2>2. [Mapper(f) EXCEPT !.PlaneLayouts = Answer(<<>>)].PlaneLayouts = Answer(<<>>)
    BY DEF Mapper
  <2>3. QED
    BY <2>1, <2>2 DEF BadMappers
<1>2. q \in {"Width", "Height", "PixelFormatRequested", "PlaneLayouts",
             "AllocationSize"}
  BY DEF Mapper
<1>3. \/ m.PixelFormatRequested = Failed
      \/ m.PlaneLayouts = Failed
      \/ /\ m.PixelFormatRequested = Mapper(f).PixelFormatRequested
         /\ m.PlaneLayouts = Mapper(f).PlaneLayouts
  BY <1>1, <1>2 DEF Mapper
<1>4. CASE m.PixelFormatRequested = Failed
  <2>1. get_format_requested(m) = Failed
    BY <1>4 DEF get_format_requested, get_metadata
  <2>2. get_byte_stride(m).err # OK
    BY <2>1 DEF get_byte_stride, Failed, OK, BAD_VALUE
  <2>3. get_pixel_stride(m).err # OK
    BY <2>1, <2>2 DEF get_pixel_stride, Failed, OK, BAD_VALUE
  <2>4. QED
    BY <2>3 DEF hwc_get_handle_attibute, hwc_get_handle_stride, Returned
<1>5. CASE m.PlaneLayouts = Failed
  <2>1. FirstPlane(m, "sampleIncrementInBits") = Failed
    BY <1>5 DEF FirstPlane, get_metadata, Failed, OK, BAD_VALUE
  <2>2. get_bit_per_pixel(m).err # OK
    BY <2>1 DEF get_bit_per_pixel, Failed, OK, BAD_VALUE
  <2>3. get_pixel_stride(m).err # OK
    BY <2>2 DEF get_pixel_stride, Failed, OK, BAD_VALUE
  <2>4. QED
    BY <2>3 DEF hwc_get_handle_attibute, hwc_get_handle_stride, Returned
<1>6. CASE /\ m.PixelFormatRequested = Mapper(f).PixelFormatRequested
           /\ m.PlaneLayouts = Mapper(f).PlaneLayouts
  <2>1. f # NV12_10
    BY FormatConstants DEF Formats
  <2>2. Stored(get_format_requested(Mapper(f)), 0) = f
    BY DEF Mapper, Stored, get_format_requested, get_metadata, Answer, OK
  <2>3. get_format_requested(m) = get_format_requested(Mapper(f))
    BY <1>6 DEF get_format_requested
  <2>4. get_byte_stride(m) = get_byte_stride(Mapper(f))
    BY <1>6, <2>1, <2>2, <2>3 DEF get_byte_stride, FirstPlane
  <2>5. get_bit_per_pixel(m) = get_bit_per_pixel(Mapper(f))
    BY <1>6, <2>3 DEF get_bit_per_pixel, FirstPlane
  <2>6. hwc_get_handle_attibute(m, "ATT_STRIDE")
          = hwc_get_handle_attibute(Mapper(f), "ATT_STRIDE")
    BY <2>4, <2>5 DEF hwc_get_handle_attibute, hwc_get_handle_stride,
       get_pixel_stride
  <2>7. QED
    BY <2>6, GoodMapper
<1>7. QED
  BY <1>3, <1>4, <1>5, <1>6

(* The RGA copies a frame whose stride is right. *)
LEMMA RgaCopies ==
  ASSUME NEW f \in Formats, NEW m \in {Mapper(f)} \cup BadMappers(f)
  PROVE  /\ m = Mapper(f) => Rga(m) = {"copied"}
         /\ "skewed" \in Rga(m) => How(m) = "blind"
<1>1. m = Mapper(f) => Rga(m) = {"copied"}
  <2>1. f \in Nat /\ Width \in Nat
    BY DEF Formats, RGBA_8888, RGB_565, YCrCb_NV12, Width
  <2>2. QED
    BY <2>1, GoodMapper DEF Rga
<1>2. ASSUME "skewed" \in Rga(m), How(m) # "blind" PROVE FALSE
  <2> DEFINE stride == hwc_get_handle_attibute(m, "ATT_STRIDE")
  <2>1. ~(stride < 0) /\ stride # Width
    BY <1>2 DEF Rga
  <2>2. stride \in {-1, Width}
    <3>1. CASE m = Mapper(f)
      BY <3>1, GoodMapper
    <3>2. CASE m \in BadMappers(f)
      BY <3>2, <1>2, BadMapper
    <3>3. QED
      BY <3>1, <3>2
  <2>3. QED
    BY <2>1, <2>2
<1>3. QED
  BY <1>1, <1>2

(* A query for the format gives the format, or fails. *)
LEMMA FormatIsKnown ==
  ASSUME NEW f \in Formats, NEW m \in {Mapper(f)} \cup BadMappers(f)
  PROVE  hwc_get_handle_attibute(m, "ATT_FORMAT") \in {f, -1}
<1>1. CASE m = Mapper(f)
  BY <1>1, GoodMapper
<1>2. CASE m \in BadMappers(f)
  <2>1. \/ m.PixelFormatRequested = Failed
        \/ m.PixelFormatRequested = Mapper(f).PixelFormatRequested
    BY <1>2 DEF BadMappers, Mapper
  <2>2. \/ get_format_requested(m) = Failed
        \/ get_format_requested(m) = Answer(f)
    BY <2>1 DEF get_format_requested, get_metadata, Mapper, Answer
  <2>3. Returned(Failed) = -1
    BY DEF Returned, Failed, OK, BAD_VALUE
  <2>4. Returned(Answer(f)) = f
    BY DEF Returned, Answer, OK
  <2>5. hwc_get_handle_attibute(m, "ATT_FORMAT") = Returned(get_format_requested(m))
    BY DEF hwc_get_handle_attibute, hwc_get_handle_format
  <2>6. QED
    BY <2>2, <2>3, <2>4, <2>5
<1>3. QED
  BY <1>1, <1>2

(* A buffer that is not locked can be locked. *)
LEMMA LockSucceeds ==
  ASSUME NEW f \in Formats, NEW b, locked = {}, NEW l \in Lock(Mapper(f), b)
  PROVE  l = "locked"
<1>1. /\ hwc_get_handle_attibute(Mapper(f), "ATT_WIDTH") # -1
      /\ hwc_get_handle_attibute(Mapper(f), "ATT_HEIGHT") # -1
  BY GoodMapper DEF Width
<1>2. QED
  BY <1>1 DEF Lock
-------------------------------------------------------------------------------
LEMMA Initial == Init => IInv
<1> SUFFICES ASSUME Init PROVE IInv
  OBVIOUS
<1>1. cache \in [Settings -> Values \cup {-1, 0}]
  <2>1. cache = [s \in Settings |-> IF s = 1 THEN -1 ELSE 0]
    BY DEF Init, InitialCache, Settings
  <2>2. QED
    BY <2>1
<1>2. TypeOK
  BY <1>1 DEF Init, TypeOK, NoScratch
<1>3. QED
  BY <1>2 DEF Init, IInv, CacheIsSetting, LockedIsLeaked, ScratchIsKnown,
     FrameOnItsWay, NoScratch
-------------------------------------------------------------------------------
(* Most steps leave the settings alone; only a conversion locks; only the two
   first steps of a conversion into the scratch buffer use it. *)
LEMMA TypeStep ==
  ASSUME IInv, [Next]_vars
  PROVE  TypeOK'
<1> USE DEF IInv
<1>1. CASE DriverSteps
  BY <1>1 DEF DriverSteps, device, marks, TypeOK
<1>2. CASE Compose
  <2>1. content' \in [Buffers -> 0..frame'] /\ frame' \in Nat
    BY <1>2 DEF Compose, TypeOK
  <2>2. scratch' \in [buffer : {"none", "empty", "ready"}, format : Int,
                      picture : 0..frame']
    BY <1>2 DEF Compose, TypeOK
  <2>3. before' \in 0..frame'
    BY <1>2 DEF Compose, TypeOK
  <2>4. QED
    BY <1>2, <2>1, <2>2, <2>3 DEF Compose, device, TypeOK
<1>3. CASE ConvertByRga
  BY <1>3 DEF ConvertByRga, device, marks, TypeOK
<1>4. CASE Rgba888ToGray16ByRga
  <2> PICK m, l, r :
        LET drawn == l = "locked" /\ r \in {"copied", "skewed"} IN
        /\ NoFault \/ Spoil(How(m))
        /\ content' = IF drawn THEN [content EXCEPT ![gray16_buffer] = frame]
                      ELSE content
        /\ locked' = CASE l = "locked" -> HeldAfterUnlock("frame")
                       [] l = "null" -> locked \cup {"frame"}
                       [] OTHER -> locked
    BY <1>4 DEF Rgba888ToGray16ByRga
  <2>1. faults' \in Nat /\ spoiled' \in {"no", "failed", "blind"}
    BY DEF NoFault, Spoil, Fault, How, TypeOK
  <2>2. locked' \subseteq {"frame", "scratch"}
    BY DEF HeldAfterUnlock, TypeOK
  <2>3. frame' = frame /\ before' = before
    BY <1>4 DEF Rgba888ToGray16ByRga
  <2>4. content' \in [Buffers -> 0..frame]
    BY DEF TypeOK
  <2>5. QED
    BY <1>4, <2>1, <2>2, <2>3, <2>4 DEF Rgba888ToGray16ByRga, device, TypeOK
<1>5. CASE Allocate
  <2> PICK m, f, got :
        /\ m \in {Mapper(format)} \cup IF panel_color = 0 THEN {}
                                         ELSE BadMappers(format)
        /\ f = IF panel_color = 0 THEN YCrCb_NV12
               ELSE hwc_get_handle_attibute(m, "ATT_FORMAT")
        /\ IF Reusable(f) THEN got /\ UNCHANGED scratch
           ELSE scratch' = [buffer |-> IF got THEN "ready" ELSE "empty",
                            format |-> f, picture |-> 0]
        /\ NoFault \/ Spoil("failed")
    BY <1>5 DEF Allocate
  <2>1. faults' \in Nat /\ spoiled' \in {"no", "failed", "blind"}
    BY DEF NoFault, Spoil, Fault, TypeOK
  <2>2. f \in Int
    BY FormatIsKnown DEF TypeOK, Formats, RGBA_8888, RGB_565, YCrCb_NV12
  <2>3. scratch' \in [buffer : {"none", "empty", "ready"}, format : Int,
                      picture : 0..frame]
    BY <2>2 DEF TypeOK
  <2>4. QED
    BY <1>5, <2>1, <2>3 DEF Allocate, device, marks, TypeOK
<1>6. CASE BlitToScratch
  <2> PICK m, r :
        /\ NoFault \/ Spoil(How(m))
        /\ scratch' = IF r \in {"copied", "skewed"}
                      THEN [scratch EXCEPT !.picture = frame] ELSE scratch
    BY <1>6 DEF BlitToScratch
  <2>1. faults' \in Nat /\ spoiled' \in {"no", "failed", "blind"}
    BY DEF NoFault, Spoil, Fault, How, TypeOK
  <2>2. scratch' \in [buffer : {"none", "empty", "ready"}, format : Int,
                      picture : 0..frame]
    BY DEF TypeOK
  <2>3. QED
    BY <1>6, <2>1, <2>2 DEF BlitToScratch, device, marks, TypeOK
<1>7. CASE DrawScratch
  <2> PICK m, width, height, l :
        LET drawn == l = "locked" /\ Draws(width, height) IN
        /\ NoFault \/ Spoil(How(m))
        /\ content' = IF drawn
                      THEN [content EXCEPT ![gray16_buffer] = scratch.picture]
                      ELSE content
        /\ locked' = CASE l = "locked" -> HeldAfterUnlock("scratch")
                       [] l = "null" -> locked \cup {"scratch"}
                       [] OTHER -> locked
    BY <1>7 DEF DrawScratch
  <2>1. faults' \in Nat /\ spoiled' \in {"no", "failed", "blind"}
    BY DEF NoFault, Spoil, Fault, How, TypeOK
  <2>2. locked' \subseteq {"frame", "scratch"}
    BY DEF HeldAfterUnlock, TypeOK
  <2>3. content' \in [Buffers -> 0..frame]
    BY DEF TypeOK
  <2>4. QED
    BY <1>7, <2>1, <2>2, <2>3 DEF DrawScratch, device, TypeOK
<1>8. CASE PostEinkSend
  <2>1. faults' \in Nat /\ spoiled' \in {"no", "failed", "blind"} /\ before' \in 0..frame
    BY <1>8 DEF PostEinkSend, Fault, Committed, TypeOK
  <2>2. QED
    BY <1>8, <2>1 DEF PostEinkSend, device, TypeOK
<1>9. CASE PostEinkGet
  <2>1. faults' \in Nat /\ spoiled' \in {"no", "failed", "blind"} /\ before' \in 0..frame
    BY <1>9 DEF PostEinkGet, Fault, Committed, TypeOK
  <2>2. gray16_buffer' \in Buffers
    BY <1>9 DEF PostEinkGet, TypeOK
  <2>3. QED
    BY <1>9, <2>1, <2>2 DEF PostEinkGet, device, TypeOK
<1>10. ASSUME NEW s \in Settings, Update(s) PROVE TypeOK'
  <2>1. faults' \in Nat
    <3>1. faults' = faults \/ faults' = faults + 1
      BY <1>10 DEF Update, Fault
    <3>2. QED
      BY <3>1 DEF TypeOK
  <2> UNCHANGED <<content, panel_color, format, gray16_buffer, scratch,
                  locked, frame, spoiled, before>>
    <3>1. UNCHANGED <<content, panel_color, format, gray16_buffer, scratch,
                      locked, frame, spoiled>>
      BY <1>10 DEF Update
    <3>2. before' = before
      BY <1>10 DEF Update, marks
    <3>3. QED
      BY <3>1, <3>2
  <2>2. CASE UNCHANGED <<setting, cache>>
    BY <2>1, <2>2 DEF TypeOK
  <2>3. CASE /\ setting' = [setting EXCEPT ![s] = value']
             /\ cache' = [cache EXCEPT ![s] = value']
    <3>1. value' \in Values
      BY <1>10 DEF Update
    <3>2. setting' \in [Settings -> Values \cup {Inherited}]
      BY <2>3, <3>1 DEF TypeOK
    <3>3. cache' \in [Settings -> Values \cup {-1, 0}]
      BY <2>3, <3>1 DEF TypeOK
    <3>4. QED
      BY <2>1, <3>2, <3>3 DEF TypeOK
  <2>4. QED
    BY <1>10, <2>2, <2>3 DEF Update, CacheAfter
<1>11. CASE UNCHANGED vars
  BY <1>11 DEF vars, TypeOK
<1>12. QED
  BY <1>1, <1>2, <1>3, <1>4, <1>5, <1>6, <1>7, <1>8, <1>9, <1>10, <1>11
     DEF Next, AllQuiet

LEMMA CacheStep ==
  ASSUME IInv, [Next]_vars
  PROVE  CacheIsSetting'
<1>1. ASSUME UNCHANGED <<setting, cache>> PROVE CacheIsSetting'
  BY <1>1 DEF IInv, CacheIsSetting
<1>2. ASSUME NEW s \in Settings, Update(s) PROVE CacheIsSetting'
  <2> SUFFICES ASSUME NEW t \in Settings
               PROVE  \/ setting'[t] = cache'[t]
                      \/ setting'[t] = Inherited /\ cache'[t] = InitialCache[t]
    BY DEF CacheIsSetting
  <2>1. CASE UNCHANGED <<setting, cache>>
    BY <2>1 DEF IInv, CacheIsSetting
  <2>2. CASE /\ setting' = [setting EXCEPT ![s] = value']
             /\ cache' = [cache EXCEPT ![s] = value']
    BY <2>2 DEF IInv, CacheIsSetting, TypeOK
  <2>3. QED
    BY <1>2, <2>1, <2>2 DEF Update, CacheAfter
<1>3. CASE DriverSteps \/ Compose \/ ConvertByRga \/ Rgba888ToGray16ByRga
  BY <1>1, <1>3
     DEF DriverSteps, Compose, ConvertByRga, Rgba888ToGray16ByRga, device
<1>4. CASE Allocate \/ BlitToScratch \/ DrawScratch
  BY <1>1, <1>4 DEF Allocate, BlitToScratch, DrawScratch, device
<1>5. CASE PostEinkSend \/ PostEinkGet
  BY <1>1, <1>5 DEF PostEinkSend, PostEinkGet, device
<1>6. CASE UNCHANGED vars
  BY <1>1, <1>6 DEF vars
<1>7. QED
  BY <1>2, <1>3, <1>4, <1>5, <1>6 DEF Next, AllQuiet

LEMMA LockedStep ==
  ASSUME IInv, [Next]_vars
  PROVE  LockedIsLeaked'
<1> USE DEF IInv, LockedIsLeaked
<1>1. ASSUME UNCHANGED <<locked, leaked>> PROVE LockedIsLeaked'
  BY <1>1
<1>2. CASE Rgba888ToGray16ByRga
  <2>1. PICK l :
          /\ locked' = CASE l = "locked" -> HeldAfterUnlock("frame")
                         [] l = "null" -> locked \cup {"frame"}
                         [] OTHER -> locked
          /\ leaked' = (leaked \/ l = "null")
    BY <1>2 DEF Rgba888ToGray16ByRga
  <2>2. CASE l = "null"
    BY <2>1, <2>2
  <2>3. CASE l # "null"
    <3>1. locked' = locked
      BY <2>1, <2>3 DEF HeldAfterUnlock
    <3>2. leaked => leaked'
      BY <2>1
    <3>3. QED
      BY <3>1, <3>2
  <2>4. QED
    BY <2>2, <2>3
<1>3. CASE DrawScratch
  <2>1. PICK l :
          /\ locked' = CASE l = "locked" -> HeldAfterUnlock("scratch")
                         [] l = "null" -> locked \cup {"scratch"}
                         [] OTHER -> locked
          /\ leaked' = (leaked \/ l = "null")
    BY <1>3 DEF DrawScratch
  <2>2. CASE l = "null"
    BY <2>1, <2>2
  <2>3. CASE l # "null"
    <3>1. locked' = locked
      BY <2>1, <2>3 DEF HeldAfterUnlock
    <3>2. leaked => leaked'
      BY <2>1
    <3>3. QED
      BY <3>1, <3>2
  <2>4. QED
    BY <2>2, <2>3
<1>4. CASE DriverSteps \/ Compose \/ ConvertByRga
  BY <1>1, <1>4 DEF DriverSteps, Compose, ConvertByRga, marks
<1>5. CASE Allocate \/ BlitToScratch
  BY <1>1, <1>5 DEF Allocate, BlitToScratch, marks
<1>6. CASE PostEinkSend \/ PostEinkGet
  BY <1>1, <1>6 DEF PostEinkSend, PostEinkGet
<1>7. ASSUME NEW s \in Settings, Update(s) PROVE LockedIsLeaked'
  <2>1. UNCHANGED <<locked, marks>>
    BY <1>7 DEF Update
  <2>2. QED
    BY <1>1, <2>1 DEF marks
<1>8. CASE UNCHANGED vars
  BY <1>1, <1>8 DEF vars
<1>9. QED
  BY <1>2, <1>3, <1>4, <1>5, <1>6, <1>7, <1>8 DEF Next, AllQuiet

LEMMA ScratchStep ==
  ASSUME IInv, [Next]_vars
  PROVE  ScratchIsKnown'
<1> USE DEF IInv, ScratchIsKnown
<1>1. ASSUME UNCHANGED scratch PROVE ScratchIsKnown'
  BY <1>1
<1>2. CASE Allocate
  <2> PICK m, f, got :
        /\ m \in {Mapper(format)} \cup IF panel_color = 0 THEN {}
                                         ELSE BadMappers(format)
        /\ f = IF panel_color = 0 THEN YCrCb_NV12
               ELSE hwc_get_handle_attibute(m, "ATT_FORMAT")
        /\ got \in BOOLEAN
        /\ IF Reusable(f) THEN got /\ UNCHANGED scratch
           ELSE scratch' = [buffer |-> IF got THEN "ready" ELSE "empty",
                            format |-> f, picture |-> 0]
        /\ f < 0 => ~got
    BY <1>2 DEF Allocate
  <2>1. CASE Reusable(f)
    BY <1>1, <2>1
  <2>2. CASE ~Reusable(f) /\ got
    <3>1. f \in {YCrCb_NV12, format, -1}
      BY FormatIsKnown DEF TypeOK, Formats
    <3>2. f # -1
      BY <2>2
    <3>3. QED
      BY <2>2, <3>1, <3>2 DEF TypeOK
  <2>3. CASE ~Reusable(f) /\ ~got
    BY <2>3
  <2>4. QED
    BY <2>1, <2>2, <2>3
<1>3. CASE BlitToScratch
  <2>1. PICK r : scratch' = IF r \in {"copied", "skewed"}
                            THEN [scratch EXCEPT !.picture = frame] ELSE scratch
    BY <1>3 DEF BlitToScratch
  <2>2. scratch'.buffer = scratch.buffer /\ scratch'.format = scratch.format
    BY <2>1 DEF TypeOK
  <2>3. QED
    BY <2>2
<1>4. CASE DriverSteps \/ Compose \/ ConvertByRga
  BY <1>1, <1>4 DEF DriverSteps, Compose, ConvertByRga
<1>5. CASE Rgba888ToGray16ByRga \/ DrawScratch
  BY <1>1, <1>5 DEF Rgba888ToGray16ByRga, DrawScratch
<1>6. CASE PostEinkSend \/ PostEinkGet
  BY <1>1, <1>6 DEF PostEinkSend, PostEinkGet
<1>7. ASSUME NEW s \in Settings, Update(s) PROVE ScratchIsKnown'
  BY <1>1, <1>7 DEF Update
<1>8. CASE UNCHANGED vars
  BY <1>1, <1>8 DEF vars
<1>9. QED
  BY <1>2, <1>3, <1>4, <1>5, <1>6, <1>7, <1>8 DEF Next, AllQuiet
-------------------------------------------------------------------------------
(* A failed call is remembered until the frame is sent. *)
LEMMA SpoilRemembers ==
  ASSUME NEW how \in {"failed", "blind"}, Spoil(how)
  PROVE  spoiled' \in {"failed", "blind"} /\ (how = "blind" => spoiled' = "blind")
BY DEF Spoil

(* The frame itself is drawn. *)
LEMMA Gray16Draws ==
  ASSUME IInv, Rgba888ToGray16ByRga
  PROVE  FrameOnItsWay'
<1> USE DEF IInv
<1>1. PICK m, l, r :
        /\ m \in {Mapper(format)} \cup BadMappers(format)
        /\ l \in Lock(m, "frame") \cup {"error", "null"}
        /\ r \in Rga(m) \cup {"failed"}
        /\ IF m = Mapper(format) /\ l \in Lock(m, "frame") /\ r \in Rga(m)
           THEN NoFault ELSE Spoil(How(m))
        /\ content' = IF l = "locked" /\ r \in {"copied", "skewed"}
                      THEN [content EXCEPT ![gray16_buffer] = frame]
                      ELSE content
        /\ leaked' = (leaked \/ l = "null")
        /\ askew' = ((l = "locked" /\ r \in {"copied", "skewed"}) /\ r = "skewed")
  BY DEF Rgba888ToGray16ByRga
<1>2. wpc = "gray16" /\ wpc' = "send" /\ frame' = frame /\ before' = before
      /\ gray16_buffer' = gray16_buffer
  BY DEF Rgba888ToGray16ByRga, Converted
<1>3. format \in Formats /\ gray16_buffer \in DOMAIN content
  BY DEF TypeOK, Formats
<1>4. content'[gray16_buffer'] = IF l = "locked" /\ r \in {"copied", "skewed"}
                                 THEN frame ELSE before
  BY <1>1, <1>2, <1>3 DEF FrameOnItsWay
<1>5. How(m) \in {"failed", "blind"}
  BY DEF How
<1>6. ASSUME spoiled' = "no", ~leaked' PROVE content'[gray16_buffer'] = frame
  <2>1. m = Mapper(format) /\ l \in Lock(m, "frame") /\ r \in Rga(m)
    BY <1>1, <1>5, <1>6, SpoilRemembers
  <2>2. locked = {}
    BY <1>1, <1>6 DEF LockedIsLeaked
  <2>3. l = "locked"
    BY <1>3, <2>1, <2>2, LockSucceeds
  <2>4. r = "copied"
    BY <1>3, <2>1, RgaCopies
  <2>5. QED
    BY <1>4, <2>3, <2>4
<1>7. ASSUME askew' PROVE spoiled' = "blind"
  <2>1. "skewed" \in Rga(m)
    BY <1>1, <1>7
  <2>2. m # Mapper(format) /\ How(m) = "blind"
    BY <1>1, <1>3, <2>1, RgaCopies
  <2>3. QED
    BY <1>1, <2>2, SpoilRemembers
<1>8. QED
  BY <1>2, <1>4, <1>6, <1>7 DEF FrameOnItsWay

(* A call that did not fail got a buffer. *)
LEMMA AllocateGets ==
  ASSUME IInv, Allocate
  PROVE  FrameOnItsWay'
<1> USE DEF IInv
<1>1. PICK f, got :
        /\ IF Reusable(f) THEN got /\ UNCHANGED scratch
           ELSE scratch' = [buffer |-> IF got THEN "ready" ELSE "empty",
                            format |-> f, picture |-> 0]
        /\ (NoFault /\ got) \/ Spoil("failed")
  BY DEF Allocate
<1>2. /\ wpc = "convert" /\ wpc' = "blit"
      /\ UNCHANGED <<content, gray16_buffer, askew>>
  BY DEF Allocate
<1>3. before' = before
  BY DEF Allocate, marks
<1>4. ASSUME got PROVE scratch'.buffer = "ready"
  BY <1>1, <1>4 DEF Reusable
<1>5. /\ spoiled' \in {"no", "failed"}
      /\ spoiled' = "no" => scratch'.buffer = "ready"
  <2>1. CASE NoFault /\ got
    BY <1>2, <1>4, <2>1 DEF NoFault, FrameOnItsWay
  <2>2. CASE Spoil("failed")
    BY <1>2, <2>2 DEF Spoil, FrameOnItsWay
  <2>3. QED
    BY <1>1, <2>1, <2>2
<1>6. QED
  BY <1>2, <1>3, <1>5 DEF FrameOnItsWay

(* The scratch buffer holds this frame before it is drawn. *)
LEMMA BlitFills ==
  ASSUME IInv, BlitToScratch
  PROVE  FrameOnItsWay'
<1> USE DEF IInv
<1>1. PICK m, f, r :
        /\ m \in {Mapper(format)} \cup BadMappers(format)
        /\ r \in Rga(m) \cup {"refused", "failed"}
        /\ scratch.buffer # "ready" \/ f < 0 => r = "refused"
        /\ IF /\ m = Mapper(format) /\ f = scratch.format
              /\ r \in Rga(m) \/ scratch.buffer # "ready"
           THEN NoFault ELSE Spoil(How(m))
        /\ scratch' = IF r \in {"copied", "skewed"}
                      THEN [scratch EXCEPT !.picture = frame] ELSE scratch
        /\ askew' = (r = "skewed")
        /\ BlitDone(r \in {"copied", "skewed"})
  BY DEF BlitToScratch
<1>2. wpc = "blit" /\ UNCHANGED <<content, gray16_buffer, frame>>
  BY DEF BlitToScratch
<1>3. before' = before
  BY DEF BlitToScratch, marks
<1>4. format \in Formats
  BY DEF TypeOK, Formats
<1>5. How(m) \in {"failed", "blind"}
  BY DEF How
<1>6. ASSUME askew' PROVE spoiled' = "blind"
  <2>1. "skewed" \in Rga(m)
    BY <1>1, <1>6
  <2>2. m # Mapper(format) /\ How(m) = "blind"
    BY <1>1, <1>4, <2>1, RgaCopies
  <2>3. QED
    BY <1>1, <2>2, SpoilRemembers
<1>7. CASE r \in {"copied", "skewed"}
  <2>1. wpc' = "draw"
    BY <1>1, <1>7 DEF BlitDone
  <2>2. scratch'.picture = frame /\ scratch'.buffer = "ready"
    BY <1>1, <1>7 DEF TypeOK
  <2>3. QED
    BY <1>2, <1>3, <1>6, <2>1, <2>2 DEF FrameOnItsWay
<1>8. CASE r \notin {"copied", "skewed"}
  <2>1. wpc' = "send"
    BY <1>1, <1>8 DEF BlitDone, Converted
  <2>2. spoiled' # "no"
    <3>1. CASE /\ m = Mapper(format)
               /\ r \in Rga(m) \/ scratch.buffer # "ready"
               /\ NoFault
      <4>1. scratch.buffer # "ready"
        BY <1>4, <1>8, <3>1, RgaCopies
      <4>2. QED
        BY <1>2, <3>1, <4>1 DEF FrameOnItsWay, NoFault
    <3>2. CASE Spoil(How(m))
      BY <1>5, <3>2, SpoilRemembers
    <3>3. QED
      BY <1>1, <3>1, <3>2
  <2>3. QED
    BY <1>2, <1>3, <1>6, <2>1, <2>2 DEF FrameOnItsWay
<1>9. QED
  BY <1>7, <1>8

(* What is drawn from the scratch buffer is this frame. *)
LEMMA ScratchDraws ==
  ASSUME IInv, DrawScratch
  PROVE  FrameOnItsWay'
<1> USE DEF IInv
<1>1. PICK m, width, height, l :
        /\ m \in {Mapper(scratch.format)} \cup BadMappers(scratch.format)
        /\ width = hwc_get_handle_attibute(m, "ATT_WIDTH")
        /\ height = hwc_get_handle_attibute(m, "ATT_HEIGHT")
        /\ IF m = Mapper(scratch.format) /\ l \in Lock(m, "scratch")
           THEN NoFault ELSE Spoil(How(m))
        /\ content' = IF l = "locked" /\ Draws(width, height)
                      THEN [content EXCEPT ![gray16_buffer] = scratch.picture]
                      ELSE content
        /\ leaked' = (leaked \/ l = "null")
  BY DEF DrawScratch
<1>2. /\ wpc = "draw" /\ wpc' = "send"
      /\ UNCHANGED <<device, gray16_buffer, frame, before, askew>>
  BY DEF DrawScratch, Converted
<1>3. scratch.format \in Formats /\ gray16_buffer \in DOMAIN content
  BY <1>2 DEF TypeOK, Formats, FrameOnItsWay, ScratchIsKnown
<1>4. content'[gray16_buffer'] = IF l = "locked" /\ Draws(width, height)
                                 THEN frame ELSE before
  BY <1>1, <1>2, <1>3 DEF FrameOnItsWay
<1>5. How(m) \in {"failed", "blind"}
  BY DEF How
<1>6. ASSUME spoiled' = "no", ~leaked', Draws(Width, 2)'
      PROVE  content'[gray16_buffer'] = frame
  <2>1. m = Mapper(scratch.format) /\ l \in Lock(m, "scratch")
    BY <1>1, <1>5, <1>6, SpoilRemembers
  <2>2. locked = {}
    BY <1>1, <1>6 DEF LockedIsLeaked
  <2>3. l = "locked"
    BY <1>3, <2>1, <2>2, LockSucceeds
  <2>4. width = Width /\ height = 2
    BY <1>1, <1>3, <2>1, GoodMapper
  <2>5. Draws(Width, 2)
    BY <1>2, <1>6 DEF device, Draws, DrawsColorEink1, DrawsColorEink2
  <2>6. QED
    BY <1>4, <2>3, <2>4, <2>5
<1>7. ASSUME askew' PROVE spoiled' = "blind"
  <2>1. spoiled = "blind"
    BY <1>2, <1>7 DEF FrameOnItsWay
  <2>2. QED
    BY <1>1, <2>1 DEF NoFault, Spoil
<1>8. QED
  BY <1>2, <1>4, <1>6, <1>7 DEF FrameOnItsWay

LEMMA FrameStep ==
  ASSUME IInv, [Next]_vars
  PROVE  FrameOnItsWay'
<1>1. CASE DriverSteps
  BY <1>1 DEF DriverSteps, device, marks, IInv, FrameOnItsWay, Draws,
     DrawsColorEink1, DrawsColorEink2
<1>2. CASE Compose
  BY <1>2 DEF Compose, FrameOnItsWay
<1>3. CASE ConvertByRga
  BY <1>3 DEF ConvertByRga, marks, IInv, FrameOnItsWay
<1>4. CASE Rgba888ToGray16ByRga
  BY <1>4, Gray16Draws
<1>5. CASE Allocate
  BY <1>5, AllocateGets
<1>6. CASE BlitToScratch
  BY <1>6, BlitFills
<1>7. CASE DrawScratch
  BY <1>7, ScratchDraws
<1>8. CASE PostEinkSend
  BY <1>8 DEF PostEinkSend, Committed, FrameOnItsWay
<1>9. CASE PostEinkGet
  BY <1>9 DEF PostEinkGet, Committed, FrameOnItsWay
<1>10. ASSUME NEW s \in Settings, Update(s) PROVE FrameOnItsWay'
  <2>1. wpc' \in {"update2", "update3", "idle"}
    BY <1>10 DEF Update, Settings
  <2>2. QED
    BY <2>1 DEF FrameOnItsWay
<1>11. CASE UNCHANGED vars
  BY <1>11 DEF vars, IInv, FrameOnItsWay, Draws, DrawsColorEink1, DrawsColorEink2
<1>12. QED
  BY <1>1, <1>2, <1>3, <1>4, <1>5, <1>6, <1>7, <1>8, <1>9, <1>10, <1>11
     DEF Next, AllQuiet

LEMMA Step == IInv /\ [Next]_vars => IInv'
BY TypeStep, CacheStep, LockedStep, ScratchStep, FrameStep DEF IInv
-------------------------------------------------------------------------------
(* The variables of a frame on its way (einkcompositorworker.cpp 1098-1384)
   stay in their types. *)
THEOREM TypeInvariant == Spec => []TypeOK
<1>1. IInv => TypeOK
  BY DEF IInv
<1>2. QED
  BY Initial, Step, <1>1, PTL DEF Spec

(* What PostEink (einkcompositorworker.cpp 779) sends is the frame, or, after a
   call failed, the one the buffer held. *)
THEOREM FrameArrives == Spec => []FrameIsWhole
<1>1. IInv => FrameIsWhole
  BY DEF IInv, FrameOnItsWay, FrameIsWhole
<1>2. QED
  BY Initial, Step, <1>1, PTL DEF Spec

(* The driver's settings follow the properties, as far as update_fullmode_num
   and its like (einkcompositorworker.cpp 1256-1300) can tell. *)
THEOREM PropertiesReachDriver == Spec => SettingsFollow
<1>1. IInv /\ [Next]_vars =>
        [\A s \in Settings :
           Updating(s) /\ ~Updating(s)' /\ faults' = faults =>
             \/ setting'[s] = value'
             \/ setting'[s] = Inherited /\ value' = InitialCache[s]]_vars
  <2> SUFFICES ASSUME IInv, [Next]_vars, ~UNCHANGED vars, NEW s \in Settings,
                      Updating(s), ~Updating(s)', faults' = faults
               PROVE  \/ setting'[s] = value'
                      \/ setting'[s] = Inherited /\ value' = InitialCache[s]
    OBVIOUS
  <2>1. PICK t \in Settings : Update(t)
    <3>1. wpc \in {"update1", "update2", "update3"}
      BY DEF Updating, Settings
    <3>2. ~DriverSteps
      BY DEF DriverSteps, Updating
    <3>3. QED
      BY <3>1, <3>2 DEF Next, Compose, ConvertByRga, Rgba888ToGray16ByRga,
         Allocate, BlitToScratch, DrawScratch, PostEinkSend, PostEinkGet, AllQuiet
  <2>2. t = s
    BY <2>1 DEF Update, Updating, Settings
  <2>3. CASE value' = cache[s] /\ UNCHANGED setting
    BY <2>3 DEF IInv, CacheIsSetting
  <2>4. CASE setting' = [setting EXCEPT ![s] = value']
    BY <2>4 DEF IInv, TypeOK
  <2>5. faults' # faults + 1
    BY DEF IInv, TypeOK
  <2>6. QED
    BY <2>1, <2>2, <2>3, <2>4, <2>5 DEF Update, Fault
<1>2. QED
  BY Initial, Step, <1>1, PTL DEF Spec, SettingsFollow
-------------------------------------------------------------------------------
(***************************************************************************)
(* The refinement of DriverBuffers.                                        *)
(***************************************************************************)
Sent == [buffer : Buffers, picture : Nat, keep : BOOLEAN]

Drawing == wpc \in {"convert", "gray16", "blit", "draw"}

(* What the counters of DriverBuffers allow, and its queue. *)
Ledger ==
  /\ frame <= MaxFrames /\ failures \in Nat
  /\ failures <= 2 * frame - (IF Drawing THEN 2
                              ELSE IF wpc \in {"send", "get"} THEN 1 ELSE 0)
  /\ Drawing => misdrawn = FALSE
  /\ sent \in Seq(Sent)

LEMMA RemoveAtStays ==
  ASSUME NEW S, NEW s \in Seq(S), NEW i \in 1..Len(s)
  PROVE  RemoveAt(s, i) \in Seq(S) /\ (i = 1 => RemoveAt(s, i) = Tail(s))
<1> DEFINE a == SubSeq(s, 1, i - 1)
           b == SubSeq(s, i + 1, Len(s))
<1>1. /\ a \in Seq(S) /\ Len(a) = i - 1
      /\ b \in Seq(S) /\ Len(b) = Len(s) - i
      /\ \A j \in 1..(Len(s) - i) : b[j] = s[i + j]
  BY SubSeqProperties
<1> HIDE DEF a, b
<1>2. RemoveAt(s, i) = a \o b
  BY DEF RemoveAt, a, b
<1>3. /\ a \o b \in Seq(S) /\ Len(a \o b) = Len(a) + Len(b)
      /\ \A j \in 1..(Len(a) + Len(b)) :
           (a \o b)[j] = IF j <= Len(a) THEN a[j] ELSE b[j - Len(a)]
  BY <1>1, ConcatProperties
<1>4. ASSUME i = 1 PROVE a \o b = Tail(s)
  <2>1. /\ Tail(s) \in Seq(S) /\ Len(Tail(s)) = Len(s) - 1
        /\ \A j \in 1..(Len(s) - 1) : Tail(s)[j] = s[j + 1]
    BY <1>4
  <2>2. Len(a \o b) = Len(s) - 1 /\ \A j \in 1..(Len(s) - 1) : (a \o b)[j] = s[j + 1]
    BY <1>1, <1>3, <1>4
  <2>3. QED
    BY <1>3, <2>1, <2>2, SeqEqual
<1>5. QED
  BY <1>2, <1>3, <1>4

LEMMA LedgerInit == Init => Ledger
BY FrameConstants DEF Init, Ledger, Drawing

LEMMA QueueStep ==
  ASSUME IInv, Ledger, [Next]_vars
  PROVE  sent' \in Seq(Sent)
<1> sent \in Seq(Sent)
  BY DEF Ledger
<1>1. CASE DriverSteps
  BY <1>1, RemoveAtStays DEF DriverSteps
<1>2. CASE PostEinkSend
  <2>1. CASE UNCHANGED sent
    BY <2>1
  <2>2. CASE DB!Accept(gray16_buffer, NeedPic(CommitMode))
    <3> DEFINE p == [buffer |-> gray16_buffer, picture |-> content[gray16_buffer],
                     keep |-> NeedPic(CommitMode)]
    <3>1. p \in Sent
      BY DEF IInv, TypeOK, Sent, NeedPic
    <3>2. DB!Without(gray16_buffer) \in Seq(Sent)
      <4>1. CASE DB!Places(gray16_buffer) = {}
        BY <4>1 DEF DB!Without
      <4>2. CASE DB!Places(gray16_buffer) # {}
        <5>1. (CHOOSE i \in DB!Places(gray16_buffer) : TRUE) \in 1..Len(sent)
          BY <4>2 DEF DB!Places
        <5>2. ASSUME NEW i PROVE DB!RemoveAt(sent, i) = RemoveAt(sent, i)
          BY DEF DB!RemoveAt, RemoveAt
        <5>3. QED
          BY <4>2, <5>1, <5>2, RemoveAtStays DEF DB!Without
      <4>3. QED
        BY <4>1, <4>2
    <3>3. sent' = Append(DB!Without(gray16_buffer), p)
      BY <2>2 DEF DB!Accept
    <3> HIDE DEF p
    <3>4. QED
      BY <3>1, <3>2, <3>3
  <2>3. QED
    BY <1>2, <2>1, <2>2 DEF PostEinkSend
<1>3. ASSUME UNCHANGED sent PROVE sent' \in Seq(Sent)
  BY <1>3
<1>4. ASSUME NEW s \in Settings, Update(s) PROVE UNCHANGED sent
  BY <1>4 DEF Update, driver
<1>5. QED
  BY <1>1, <1>2, <1>3, <1>4 DEF Next, AllQuiet, vars, driver, Compose,
     ConvertByRga, Rgba888ToGray16ByRga, Allocate, BlitToScratch, DrawScratch,
     PostEinkGet

(* A conversion is over: it counts if it failed. *)
LEMMA ConvertedCounts ==
  ASSUME IInv, Ledger, Drawing, NEW drawn \in BOOLEAN, Converted(drawn)
  PROVE  /\ wpc' = "send" /\ failures' \in Nat
         /\ failures' <= 2 * frame - 1 /\ failures < 3 * MaxFrames
         /\ drawn => misdrawn' = FALSE /\ failures' = failures
         /\ ~drawn => misdrawn' = TRUE /\ failures' = failures + 1
<1>1. /\ failures \in Nat /\ frame \in Nat /\ frame <= MaxFrames
      /\ failures <= 2 * frame - 2
  BY DEF Ledger, IInv, TypeOK
<1>2. wpc' = "send" /\ misdrawn' = ~drawn
  BY DEF Converted
<1>3. failures < 3 * MaxFrames
  BY <1>1, FrameConstants
<1>4. failures' = IF drawn THEN failures ELSE failures + 1
  BY DEF Converted
<1>5. failures' \in Nat /\ failures' <= 2 * frame - 1
  BY <1>1, <1>4
<1>6. QED
  BY <1>2, <1>3, <1>4, <1>5

LEMMA LedgerStep ==
  ASSUME IInv, Ledger, [Next]_vars
  PROVE  Ledger'
<1> USE QueueStep, FrameConstants DEF Ledger, Drawing, IInv, TypeOK
<1>1. CASE DriverSteps \/ UNCHANGED vars
  BY <1>1 DEF DriverSteps, vars
<1>2. CASE Compose
  BY <1>2 DEF Compose
<1>3. CASE ConvertByRga
  BY <1>3 DEF ConvertByRga
<1>4. CASE Rgba888ToGray16ByRga
  <2>1. PICK drawn \in BOOLEAN : Converted(drawn)
    BY <1>4 DEF Rgba888ToGray16ByRga
  <2>2. frame' = frame /\ Drawing
    BY <1>4 DEF Rgba888ToGray16ByRga
  <2>3. QED
    BY <2>1, <2>2, ConvertedCounts
<1>5. CASE Allocate
  BY <1>5 DEF Allocate
<1>6. CASE BlitToScratch
  <2>1. PICK r : BlitDone(r \in {"copied", "skewed"})
    BY <1>6 DEF BlitToScratch
  <2>2. frame' = frame /\ Drawing
    BY <1>6 DEF BlitToScratch
  <2>3. CASE wpc' = "draw" /\ UNCHANGED <<misdrawn, failures>>
    BY <2>2, <2>3
  <2>4. CASE Converted(FALSE)
    BY <2>2, <2>4, ConvertedCounts
  <2>5. QED
    BY <2>1, <2>3, <2>4 DEF BlitDone
<1>7. CASE DrawScratch
  <2>1. PICK drawn \in BOOLEAN : Converted(drawn)
    <3>1. PICK width, height, l : Converted(l = "locked" /\ Draws(width, height))
      BY <1>7 DEF DrawScratch
    <3>2. (l = "locked" /\ Draws(width, height)) \in BOOLEAN
      OBVIOUS
    <3>3. QED
      BY <3>1, <3>2
  <2>2. frame' = frame /\ Drawing
    BY <1>7 DEF DrawScratch
  <2>3. QED
    BY <2>1, <2>2, ConvertedCounts
<1>8. CASE PostEinkSend
  BY <1>8 DEF PostEinkSend, Committed
<1>9. CASE PostEinkGet
  BY <1>9 DEF PostEinkGet, Committed
<1>10. ASSUME NEW s \in Settings, Update(s) PROVE Ledger'
  <2>1. wpc \in {"update1", "update2", "update3"}
    BY <1>10 DEF Update, Updating, Settings
  <2>2. wpc' \in {"update2", "update3", "idle"}
    BY <1>10 DEF Update, Settings
  <2>3. UNCHANGED <<frame, failures>>
    BY <1>10 DEF Update
  <2>4. QED
    BY <2>1, <2>2, <2>3
<1>11. QED
  BY <1>1, <1>2, <1>3, <1>4, <1>5, <1>6, <1>7, <1>8, <1>9, <1>10
     DEF Next, AllQuiet

(* Where DriverBuffers sees the thread, and the needpic of its picture. *)
Where == IF Drawing THEN "convert" ELSE IF wpc \in {"send", "get"} THEN wpc ELSE "idle"
Keep == NeedPic(IF Drawing \/ wpc = "send" THEN CommitMode ELSE commit)

DriverVars == <<lent, content, sent, shown, gray16_buffer, Where, frame, Keep,
                failures, misdrawn, strayed>>

LEMMA InitMaps == Init => DB!Init
BY DEF Init, DB!Init, DB!Free, DB!Compositor, CommitMode, NeedPic, A2Modes

LEMMA Stutters ==
  ASSUME UNCHANGED DriverVars
  PROVE  UNCHANGED DB!vars
BY DEF DriverVars, DB!vars, Where, Keep, Drawing

LEMMA DriverMaps ==
  ASSUME IInv, Ledger, DriverSteps
  PROVE  DB!DriverShow \/ DB!DriverDrop
<1>1. sent \in Seq(Sent)
  BY DEF Ledger
<1>2. PICK i \in 1..Len(sent) :
        /\ lent' = [lent EXCEPT ![sent[i].buffer] = "free"]
        /\ sent' = RemoveAt(sent, i)
        /\ \/ i = 1 /\ shown' = content[sent[1].buffer]
           \/ i < Len(sent) /\ ~sent[i].keep /\ UNCHANGED shown
  BY DEF DriverSteps
<1>3. UNCHANGED <<content, gray16_buffer, Where, frame, Keep, failures, misdrawn,
                  strayed>>
  BY DEF DriverSteps, device, marks, Where, Drawing, Keep, CommitMode
<1>4. CASE i = 1 /\ shown' = content[sent[1].buffer]
  <2>1. sent # <<>> /\ Head(sent) = sent[1] /\ sent' = Tail(sent)
    BY <1>1, <1>2, <1>4, RemoveAtStays
  <2>2. QED
    BY <1>2, <1>3, <1>4, <2>1 DEF DB!DriverShow, DB!Free, DB!compositor, DB!poster,
       Where, Drawing, Keep
<1>5. CASE i < Len(sent) /\ ~sent[i].keep /\ UNCHANGED shown
  <2>1. i \in 1..(Len(sent) - 1) /\ sent' = DB!RemoveAt(sent, i)
    BY <1>1, <1>2, <1>5 DEF RemoveAt, DB!RemoveAt
  <2>2. QED
    BY <1>2, <1>3, <1>5, <2>1 DEF DB!DriverDrop, DB!Free, DB!compositor, DB!poster,
       Where, Drawing, Keep
<1>6. QED
  BY <1>2, <1>4, <1>5

LEMMA ComposeMaps ==
  ASSUME IInv, Compose
  PROVE  DB!Compose
<1>1. Where = "idle" /\ Where' = "convert" /\ Keep' \in BOOLEAN
  BY DEF Compose, Where, Drawing, Keep, NeedPic
<1>2. QED
  BY <1>1 DEF Compose, DB!Compose, DB!NextPicture, DB!driver, DB!poster, driver,
     Where, Drawing, Keep

(* The end of a conversion is the conversion, the steps before it are none. *)
LEMMA ConvertedMaps ==
  ASSUME IInv, Ledger, Drawing, NEW drawn \in BOOLEAN, Converted(drawn),
         content' = IF drawn THEN [content EXCEPT ![gray16_buffer] = frame]
                    ELSE content,
         UNCHANGED <<driver, device, gray16_buffer, gLastEpdMode, frame, mode,
                     commit, strayed>>
  PROVE  DB!Convert
<1>1. Where = "convert" /\ Where' = "send" /\ Keep' = Keep
  BY ConvertedCounts DEF Where, Drawing, Keep, CommitMode, device
<1>2. CASE drawn
  <2>1. misdrawn = FALSE /\ misdrawn' = FALSE /\ failures' = failures
    BY <1>2, ConvertedCounts DEF Ledger
  <2>2. QED
    BY <1>1, <1>2, <2>1 DEF DB!Convert, DB!driver, DB!poster, driver,
       Where, Drawing, Keep
<1>3. CASE ~drawn
  <2>1. misdrawn' = TRUE /\ failures' = failures + 1 /\ failures < 3 * MaxFrames
    BY <1>3, ConvertedCounts
  <2>2. QED
    BY <1>1, <1>3, <2>1 DEF DB!Convert, DB!Fault, DB!driver, DB!poster, driver,
       Where, Drawing, Keep
<1>4. QED
  BY <1>2, <1>3

LEMMA DrawingMaps ==
  ASSUME IInv, Ledger,
         \/ ConvertByRga \/ Rgba888ToGray16ByRga
         \/ Allocate \/ BlitToScratch \/ DrawScratch
  PROVE  DB!Convert \/ UNCHANGED DB!vars
<1>1. ASSUME UNCHANGED <<driver, content, device, gray16_buffer, gLastEpdMode,
                         frame, mode, commit, failures, misdrawn, strayed>>,
             Drawing, Drawing'
      PROVE  UNCHANGED DB!vars
  <2>1. Where' = Where /\ Keep' = Keep
    BY <1>1 DEF Where, Drawing, Keep, CommitMode, device
  <2>2. QED
    BY <1>1, <2>1, Stutters DEF DriverVars, driver
<1>2. CASE ConvertByRga \/ Allocate
  BY <1>1, <1>2 DEF ConvertByRga, Allocate, Drawing, marks
<1>3. CASE Rgba888ToGray16ByRga
  <2>1. PICK l, r :
          /\ content' = IF l = "locked" /\ r \in {"copied", "skewed"}
                        THEN [content EXCEPT ![gray16_buffer] = frame]
                        ELSE content
          /\ Converted(l = "locked" /\ r \in {"copied", "skewed"})
    BY <1>3 DEF Rgba888ToGray16ByRga
  <2>2. (l = "locked" /\ r \in {"copied", "skewed"}) \in BOOLEAN
    OBVIOUS
  <2>3. Drawing /\ UNCHANGED <<driver, device, gray16_buffer, gLastEpdMode, frame,
                               mode, commit, strayed>>
    BY <1>3 DEF Rgba888ToGray16ByRga, Drawing
  <2>4. QED
    BY <2>1, <2>2, <2>3, ConvertedMaps
<1>4. CASE BlitToScratch
  <2>1. PICK r : BlitDone(r \in {"copied", "skewed"})
    BY <1>4 DEF BlitToScratch
  <2>2. Drawing /\ UNCHANGED <<driver, content, device, gray16_buffer, gLastEpdMode,
                               frame, mode, commit, strayed>>
    BY <1>4 DEF BlitToScratch, Drawing, marks
  <2>3. CASE wpc' = "draw" /\ UNCHANGED <<misdrawn, failures>>
    BY <1>1, <2>2, <2>3 DEF Drawing
  <2>4. CASE Converted(FALSE)
    BY <2>2, <2>4, ConvertedMaps
  <2>5. QED
    BY <2>1, <2>3, <2>4 DEF BlitDone
<1>5. CASE DrawScratch
  <2>1. PICK width, height, l :
          /\ content' = IF l = "locked" /\ Draws(width, height)
                        THEN [content EXCEPT ![gray16_buffer] = scratch.picture]
                        ELSE content
          /\ Converted(l = "locked" /\ Draws(width, height))
    BY <1>5 DEF DrawScratch
  <2>2. (l = "locked" /\ Draws(width, height)) \in BOOLEAN
    OBVIOUS
  <2>3. Drawing /\ UNCHANGED <<driver, device, gray16_buffer, gLastEpdMode, frame,
                               mode, commit, strayed>>
    BY <1>5 DEF DrawScratch, Drawing
  <2>4. scratch.picture = frame
    BY <1>5 DEF DrawScratch, IInv, FrameOnItsWay
  <2>5. QED
    BY <2>1, <2>2, <2>3, <2>4, ConvertedMaps
<1>6. QED
  BY <1>2, <1>3, <1>4, <1>5

LEMMA SendMaps ==
  ASSUME IInv, Ledger, PostEinkSend
  PROVE  DB!PostEinkSend
<1>1. /\ Where = "send" /\ Keep = NeedPic(CommitMode) /\ commit' = CommitMode
      /\ UNCHANGED <<content, shown, gray16_buffer, frame, misdrawn, strayed>>
  BY DEF PostEinkSend, Where, Drawing, Keep
<1>2. CASE DB!Accept(gray16_buffer, NeedPic(CommitMode)) /\ wpc' = "get"
             /\ UNCHANGED failures
  <2>1. Where' = "get" /\ Keep' = Keep
    BY <1>1, <1>2 DEF Where, Drawing, Keep
  <2>2. QED
    BY <1>1, <1>2, <2>1 DEF DB!PostEinkSend, DB!poster, DB!SendFailed,
       Where, Drawing, Keep
<1>3. CASE failures' = failures + 1 /\ Committed /\ UNCHANGED <<lent, sent>>
  <2>1. Where' = "idle" /\ Keep' = Keep
    BY <1>1, <1>3 DEF Committed, Where, Drawing, Keep
  <2>2. failures < 3 * MaxFrames
    BY FrameConstants DEF PostEinkSend, Ledger, IInv, TypeOK, Drawing
  <2>3. QED
    BY <1>1, <1>3, <2>1, <2>2 DEF DB!PostEinkSend, DB!Fault, DB!poster,
       DB!SendFailed, Where, Drawing, Keep
<1>4. QED
  BY <1>2, <1>3 DEF PostEinkSend

LEMMA GetMaps ==
  ASSUME IInv, Ledger, PostEinkGet
  PROVE  DB!PostEinkGet
<1>1. /\ Where = "get" /\ Where' = "idle" /\ Keep' = Keep
      /\ UNCHANGED <<content, sent, shown, frame, misdrawn>>
  BY DEF PostEinkGet, Committed, Where, Drawing, Keep
<1>2. failures < 3 * MaxFrames
  BY FrameConstants DEF PostEinkGet, Ledger, IInv, TypeOK, Drawing
<1>3. QED
  BY <1>1, <1>2 DEF PostEinkGet, DB!PostEinkGet, DB!Fault, DB!poster,
     DB!NextBuffer, DB!Compositor, Where, Drawing, Keep, DB!Lend

LEMMA StepMaps ==
  ASSUME IInv, Ledger, [Next]_vars
  PROVE  [DB!Next]_DB!vars
<1>1. CASE DriverSteps
  BY <1>1, DriverMaps DEF DB!Next
<1>2. CASE Compose
  BY <1>2, ComposeMaps DEF DB!Next
<1>3. CASE \/ ConvertByRga \/ Rgba888ToGray16ByRga
           \/ Allocate \/ BlitToScratch \/ DrawScratch
  BY <1>3, DrawingMaps DEF DB!Next, DB!InCompositor
<1>4. CASE PostEinkSend \/ PostEinkGet
  BY <1>4, SendMaps, GetMaps DEF DB!Next, DB!InCompositor
<1>5. ASSUME NEW s \in Settings, Update(s) PROVE UNCHANGED DB!vars
  <2>1. /\ wpc \in {"update1", "update2", "update3"}
        /\ wpc' \in {"update2", "update3", "idle"}
    BY <1>5 DEF Update, Updating, Settings
  <2>2. UNCHANGED <<driver, content, gray16_buffer, frame, commit, failures,
                    misdrawn>>
    BY <1>5 DEF Update
  <2>3. strayed' = strayed
    BY <1>5 DEF Update, marks
  <2>4. Where' = Where /\ Keep' = Keep
    BY <2>1, <2>2 DEF Where, Drawing, Keep
  <2>5. QED
    BY <2>2, <2>3, <2>4, Stutters DEF DriverVars, driver
<1>6. CASE UNCHANGED vars
  <2>1. UNCHANGED DriverVars
    BY <1>6 DEF vars, DriverVars, Where, Drawing, Keep, CommitMode
  <2>2. QED
    BY <2>1, Stutters
<1>7. QED
  BY <1>1, <1>2, <1>3, <1>4, <1>5, <1>6 DEF Next, AllQuiet

(* SetEinkMode and PostEink (einkcompositorworker.cpp 779-1384) treat the
   driver's buffers as DriverBuffers says, so what is proved of it holds for
   this thread. *)
THEOREM FrameRefinesDriver == Spec => ImplementsDriver
<1>1. Init => IInv /\ Ledger
  BY Initial, LedgerInit
<1>2. IInv /\ Ledger /\ [Next]_vars => (IInv /\ Ledger)'
  BY Step, LedgerStep
<1>3. QED
  BY <1>1, <1>2, InitMaps, StepMaps, PTL DEF Spec, ImplementsDriver, DB!Spec
===============================================================================
