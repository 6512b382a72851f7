----------------------------- MODULE DriverBuffers -----------------------------
(***************************************************************************)
(* Who writes into which buffer of the EBC driver.  The compositor thread  *)
(* always holds one, draws a frame into it, sends it and gets the next     *)
(* (SetEinkMode, SetColorEinkMode, PostEink); hwc_set_power_mode gets one  *)
(* more for each standby picture (hwc_post_epd).  Each ioctl may fail, and *)
(* so may each conversion; all callers ignore the results.                 *)
(*                                                                         *)
(* The driver lends a buffer that is free, queues what it is sent, shows   *)
(* it, and may drop a picture sent with needpic = 0 when there is a newer  *)
(* one.  A picture is a number, in the order the pictures were begun.      *)
(***************************************************************************)
EXTENDS Integers, Sequences, FiniteSets, SequencesExt

CONSTANTS
  Buffers,      \* the buffers mapped from /dev/ebc
  NoBuffer,
  MaxPictures,  \* bound: frames and standby pictures
  MaxFaults     \* bound: failing ioctls and conversions

ASSUME BufferConstants ==
  /\ IsFiniteSet(Buffers) /\ Cardinality(Buffers) >= 2
  /\ NoBuffer \notin Buffers
  /\ MaxPictures \in Nat /\ MaxFaults \in Nat

VARIABLES
  lent,           \* per buffer, who has it in the eyes of the driver
  content,        \* per buffer, the picture in it
  sent,           \* what the driver was sent and has not shown yet
  shown,          \* the picture on the panel
  gray16_buffer,  \* where the compositor thread draws
  wpc, frame,     \* the compositor thread: where it is, its picture
  needpic,        \* ... and whether it must not be dropped
  lpc, lbuf, logo, \* hwc_post_epd: where it is, its buffer, its picture
  pictures,       \* pictures begun
  faults,         \* counter of what MaxFaults bounds
  misdrawn,       \* history: the conversion of this frame failed
  strayed,        \* history: EBC_GET_BUFFER of the compositor thread failed
  leaks           \* history: failing sends of hwc_post_epd

driver == <<lent, sent, shown>>
compositor == <<gray16_buffer, wpc, frame, needpic, misdrawn, strayed>>
poster == <<lpc, lbuf, logo, leaks>>

vars == <<lent, content, sent, shown, gray16_buffer, wpc, frame, needpic, lpc,
          lbuf, logo, pictures, faults, misdrawn, strayed, leaks>>

Free == "free"
Queued == "queued"
Compositor == "compositor"
Poster == "poster"

(* EinkCompositorWorker::Init gets the first buffer. *)
Init ==
  /\ gray16_buffer \in Buffers
  /\ lent = [b \in Buffers |-> IF b = gray16_buffer THEN Compositor ELSE Free]
  /\ content = [b \in Buffers |-> 0]
  /\ sent = <<>> /\ shown = 0
  /\ wpc = "idle" /\ frame = 0 /\ needpic = FALSE
  /\ lpc = "idle" /\ lbuf = NoBuffer /\ logo = 0
  /\ pictures = 0 /\ faults = 0
  /\ misdrawn = FALSE /\ strayed = FALSE /\ leaks = 0
-------------------------------------------------------------------------------
(***************************************************************************)
(* The driver.                                                             *)
(***************************************************************************)
Fault == faults < MaxFaults /\ faults' = faults + 1

(* EBC_GET_BUFFER waits for a free buffer and lends it to the caller. *)
Lend(b, who) == lent[b] = Free /\ lent' = [lent EXCEPT ![b] = who]

(* The queue without b, which has one place in it at most. *)
Places(b) == {i \in 1..Len(sent) : sent[i].buffer = b}
Without(b) == IF Places(b) = {} THEN sent
              ELSE RemoveAt(sent, CHOOSE i \in Places(b) : TRUE)

(* EBC_SEND_BUFFER of what is in b now. *)
Accept(b, keep) ==
  /\ lent' = [lent EXCEPT ![b] = Queued]
  /\ sent' = Append(Without(b), [buffer |-> b, picture |-> content[b],
                                 keep |-> keep])

(* The next picture is shown. *)
DriverShow == /\ sent # <<>>
              /\ shown' = content[Head(sent).buffer]
              /\ sent' = Tail(sent)
              /\ lent' = [lent EXCEPT ![Head(sent).buffer] = Free]
              /\ UNCHANGED <<content, compositor, poster, pictures, faults>>

(* A picture that may be dropped is, for a newer one. *)
DriverDrop == \E i \in 1..(Len(sent) - 1) :
                /\ ~sent[i].keep
                /\ sent' = RemoveAt(sent, i)
                /\ lent' = [lent EXCEPT ![sent[i].buffer] = Free]
                /\ UNCHANGED <<content, shown, compositor, poster, pictures,
                               faults>>
-------------------------------------------------------------------------------
(***************************************************************************)
(* The compositor thread.                                                  *)
(***************************************************************************)
NextPicture == pictures < MaxPictures /\ pictures' = pictures + 1

(* Compose: the next frame; PostEink sets needpic for EPD_RESUME and
   EPD_FORCE_FULL. *)
Compose == /\ wpc = "idle"
           /\ NextPicture
           /\ frame' = pictures'
           /\ needpic' \in BOOLEAN
           /\ misdrawn' = FALSE
           /\ wpc' = "convert"
           /\ UNCHANGED <<driver, content, gray16_buffer, strayed, poster,
                          faults>>

(* ConvertToY4Dither, ConvertToY1Dither, ConvertToColorEink1 and 2 draw the
   frame into gray16_buffer, or return early and leave it as it is. *)
Convert == /\ wpc = "convert"
           /\ \/ /\ content' = [content EXCEPT ![gray16_buffer] = frame]
                 /\ UNCHANGED <<misdrawn, faults>>
              \/ /\ Fault
                 /\ misdrawn' = TRUE
                 /\ UNCHANGED content
           /\ wpc' = "send"
           /\ UNCHANGED <<driver, gray16_buffer, frame, needpic, strayed,
                          poster, pictures>>

(* Variant: no return after a failing EBC_SEND_BUFFER. *)
SendFailed_GoesOn == "get"

(* return -1 *)
SendFailed == "idle"

(* PostEink: EBC_SEND_BUFFER; if it fails the buffer is kept. *)
PostEinkSend == /\ wpc = "send"
                /\ \/ /\ Accept(gray16_buffer, needpic)
                      /\ wpc' = "get"
                      /\ UNCHANGED faults
                   \/ /\ Fault
                      /\ wpc' = SendFailed
                      /\ UNCHANGED <<lent, sent>>
                /\ UNCHANGED <<content, shown, gray16_buffer, frame, needpic,
                               misdrawn, strayed, poster, pictures>>

(* Variants: gray16_buffer is not moved to the new buffer, or is cleared. *)
NextBuffer_Kept(b) == UNCHANGED gray16_buffer
NextBuffer_Null(b) == gray16_buffer' = NoBuffer

(* gray16_buffer = ebc_buffer_base + commit_buf_info.offset *)
NextBuffer(b) == gray16_buffer' = b

(* PostEink: EBC_GET_BUFFER; if it fails gray16_buffer stays. *)
PostEinkGet == /\ wpc = "get"
               /\ \/ /\ \E b \in Buffers : Lend(b, Compositor) /\ NextBuffer(b)
                     /\ UNCHANGED <<strayed, faults>>
                  \/ /\ Fault
                     /\ strayed' = TRUE
                     /\ UNCHANGED <<lent, gray16_buffer>>
               /\ wpc' = "idle"
               /\ UNCHANGED <<content, sent, shown, frame, needpic, misdrawn,
                              poster, pictures>>

InCompositor == Convert \/ PostEinkSend \/ PostEinkGet
-------------------------------------------------------------------------------
(***************************************************************************)
(* hwc_post_epd, called for a white screen or a standby picture.           *)
(***************************************************************************)
HwcPostEpd == /\ lpc = "idle"
              /\ NextPicture
              /\ logo' = pictures'
              /\ lpc' = "get"
              /\ UNCHANGED <<driver, content, compositor, lbuf, leaks, faults>>

PostEpdGet == /\ lpc = "get"
              /\ \/ \E b \in Buffers : /\ Lend(b, Poster)
                                       /\ lbuf' = b
                                       /\ lpc' = "copy"
                                       /\ UNCHANGED faults
                 \/ Fault /\ lpc' = "idle" /\ UNCHANGED <<lent, lbuf>>
              /\ UNCHANGED <<content, sent, shown, compositor, logo, leaks,
                             pictures>>

(* Variant: where the compositor thread draws. *)
CopyTo_Gray16 == gray16_buffer

(* ebc_buffer_base + buf_info.offset *)
CopyTo == lbuf

PostEpdCopy == /\ lpc = "copy"
               /\ content' = [content EXCEPT ![CopyTo] = logo]
               /\ lpc' = "send"
               /\ UNCHANGED <<driver, compositor, lbuf, logo, leaks, pictures,
                              faults>>

(* EBC_SEND_BUFFER with needpic = 1; if it fails nobody sends the buffer. *)
PostEpdSend == /\ lpc = "send"
               /\ \/ Accept(lbuf, TRUE) /\ UNCHANGED <<leaks, faults>>
                  \/ Fault /\ leaks' = leaks + 1 /\ UNCHANGED <<lent, sent>>
               /\ lbuf' = NoBuffer
               /\ lpc' = "idle"
               /\ UNCHANGED <<content, shown, compositor, logo, pictures>>

InHwcPostEpd == PostEpdGet \/ PostEpdCopy \/ PostEpdSend
-------------------------------------------------------------------------------
(* Nothing is left to do. *)
AllQuiet == /\ wpc = "idle" /\ lpc = "idle"
            /\ pictures = MaxPictures /\ sent = <<>>
            /\ UNCHANGED vars

Next == \/ DriverShow \/ DriverDrop
        \/ Compose \/ InCompositor
        \/ HwcPostEpd \/ InHwcPostEpd
        \/ AllQuiet

Spec == Init /\ [][Next]_vars

(* The driver shows what it was sent; the threads go on when they can.  For a
   free buffer the two callers queue up in the driver. *)
Fairness == /\ WF_vars(DriverShow)
            /\ WF_vars(Convert \/ PostEinkSend) /\ SF_vars(PostEinkGet)
            /\ WF_vars(PostEpdCopy \/ PostEpdSend) /\ SF_vars(PostEpdGet)

FairSpec == Spec /\ Fairness
-------------------------------------------------------------------------------
TypeOK ==
  /\ lent \in [Buffers -> {Free, Queued, Compositor, Poster}]
  /\ content \in [Buffers -> Nat]
  /\ sent \in Seq([buffer : Buffers, picture : Nat, keep : BOOLEAN])
  /\ shown \in Nat /\ frame \in Nat /\ logo \in Nat /\ pictures \in Nat
  /\ gray16_buffer \in Buffers /\ lbuf \in Buffers \cup {NoBuffer}
  /\ wpc \in {"idle", "convert", "send", "get"}
  /\ lpc \in {"idle", "get", "copy", "send"}
  /\ lpc \in {"copy", "send"} => lbuf \in Buffers
  /\ needpic \in BOOLEAN /\ misdrawn \in BOOLEAN /\ strayed \in BOOLEAN
  /\ faults \in Nat /\ leaks \in Nat

(* A picture the driver was sent is not drawn over before it is shown, unless
   the compositor thread once failed to get a new buffer: then it goes on
   drawing into the one it gave away. *)
SentIsKept ==
  ~strayed => \A i \in 1..Len(sent) :
                content[sent[i].buffer] = sent[i].picture

(* What each of the two sends is its own picture, whatever the other one does
   meanwhile: the compositor thread a frame whose conversion did not fail,
   hwc_set_power_mode the standby picture. *)
PicturesAreSent ==
  ~strayed =>
    /\ wpc = "send" /\ ~misdrawn => content[gray16_buffer] = frame
    /\ lpc = "send" => content[lbuf] = logo

(* Every buffer the threads do not use is the driver's; only a failing send of
   hwc_post_epd loses one, each time for good. *)
BuffersReturn ==
  ~strayed =>
    Cardinality({b \in Buffers : lent[b] \in {Compositor, Poster}})
      = (IF wpc = "get" THEN 0 ELSE 1)
        + (IF lpc \in {"copy", "send"} THEN 1 ELSE 0) + leaks

(* hwc_post_epd returns, and with it hwc_set_power_mode, as long as it has not
   lost all the buffers the compositor thread leaves. *)
PostEpdReturns ==
  lpc # "idle" ~> lpc = "idle" \/ leaks >= Cardinality(Buffers) - 1
                    \/ strayed
===============================================================================
