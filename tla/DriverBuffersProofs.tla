-------------------------- MODULE DriverBuffersProofs --------------------------
(***************************************************************************)
(* The driver's buffers for every set of at least two buffers and any      *)
(* number of pictures and failures: whoever draws into a buffer has it, a  *)
(* picture that was sent stays as it is, each caller sends its own picture,*)
(* and buffers are lost only where hwc_post_epd fails to send one.         *)
(***************************************************************************)
EXTENDS DriverBuffers, FiniteSetTheorems, SequenceTheorems, TLAPS

(* A buffer has one place in the driver's queue, and the driver knows it. *)
OnePlaceEach ==
  \A i, j \in 1..Len(sent) : sent[i].buffer = sent[j].buffer => i = j

QueueIsQueued == \A i \in 1..Len(sent) : lent[sent[i].buffer] = Queued

(* Each caller draws into a buffer the driver has lent to it. *)
DrawnIsLent ==
  ~strayed =>
    /\ \A b \in Buffers :
         lent[b] = Compositor <=> wpc # "get" /\ b = gray16_buffer
    /\ lpc \in {"copy", "send"} => lent[lbuf] = Poster

IInv == /\ TypeOK /\ OnePlaceEach /\ QueueIsQueued /\ DrawnIsLent
        /\ SentIsKept /\ PicturesAreSent /\ BuffersReturn
-------------------------------------------------------------------------------
(***************************************************************************)
(* The queue.                                                              *)
(***************************************************************************)
(* RemoveAt takes one place out of a sequence. *)
LEMMA RemovedAt ==
  ASSUME NEW S, NEW s \in Seq(S), NEW i \in 1..Len(s)
  PROVE  /\ RemoveAt(s, i) \in Seq(S)
         /\ Len(RemoveAt(s, i)) = Len(s) - 1
         /\ \A j \in 1..(Len(s) - 1) :
              RemoveAt(s, i)[j] = s[IF j < i THEN j ELSE j + 1]
<1> DEFINE a == SubSeq(s, 1, i - 1)
           b == SubSeq(s, i + 1, Len(s))
<1>1. /\ a \in Seq(S) /\ Len(a) = i - 1
      /\ \A j \in 1..(i - 1) : a[j] = s[j]
  BY SubSeqProperties
<1>2. /\ b \in Seq(S) /\ Len(b) = Len(s) - i
      /\ \A j \in 1..(Len(s) - i) : b[j] = s[i + j]
  BY SubSeqProperties
<1> HIDE DEF a, b
<1>3. /\ a \o b \in Seq(S)
      /\ Len(a \o b) = Len(a) + Len(b)
      /\ \A j \in 1..(Len(a) + Len(b)) :
           (a \o b)[j] = IF j <= Len(a) THEN a[j] ELSE b[j - Len(a)]
  BY <1>1, <1>2, ConcatProperties
<1>4. RemoveAt(s, i) = a \o b
  BY DEF RemoveAt, a, b
<1>5. Len(s) \in Nat /\ Len(a) + Len(b) = Len(s) - 1
  BY <1>1, <1>2
<1>6. ASSUME NEW j \in 1..(Len(s) - 1)
      PROVE  (a \o b)[j] = s[IF j < i THEN j ELSE j + 1]
  <2>1. CASE j < i
    BY <1>1, <1>3, <1>5, <2>1
  <2>2. CASE ~(j < i)
    <3>1. /\ (a \o b)[j] = b[j - (i - 1)]
          /\ j - (i - 1) \in 1..(Len(s) - i)
      BY <1>1, <1>3, <1>5, <2>2
    <3>2. i + (j - (i - 1)) = j + 1
      BY <1>5
    <3> QED
      BY <1>2, <2>2, <3>1, <3>2
  <2> QED
    BY <2>1, <2>2
<1> QED
  BY <1>3, <1>4, <1>5, <1>6

Sent == [buffer : Buffers, picture : Nat, keep : BOOLEAN]

LEMMA QueueTyped ==
  ASSUME TypeOK
  PROVE  /\ sent \in Seq(Sent) /\ Len(sent) \in Nat
         /\ \A i \in 1..Len(sent) :
              /\ sent[i].buffer \in Buffers /\ sent[i].picture \in Nat
<1>1. sent \in Seq(Sent)
  BY DEF TypeOK, Sent
<1>2. Len(sent) \in Nat /\ \A i \in 1..Len(sent) : sent[i] \in Sent
  BY <1>1
<1> QED
  BY <1>1, <1>2 DEF Sent

(* The queue without its place i. *)
Cut(q, i) == /\ q \in Seq(Sent) /\ Len(q) = Len(sent) - 1
             /\ \A j \in 1..Len(q) : q[j] = sent[IF j < i THEN j ELSE j + 1]

LEMMA RemoveAtCuts ==
  ASSUME TypeOK, NEW i \in 1..Len(sent)
  PROVE  Cut(RemoveAt(sent, i), i)
<1>1. sent \in Seq(Sent)
  BY DEF TypeOK, Sent
<1> QED
  BY <1>1, RemovedAt DEF Cut

LEMMA TailCuts ==
  ASSUME TypeOK, sent # <<>>
  PROVE  Cut(Tail(sent), 1) /\ Head(sent) = sent[1] /\ 1 \in 1..Len(sent)
<1>1. sent \in Seq(Sent)
  BY DEF TypeOK, Sent
<1>2. /\ Tail(sent) \in Seq(Sent) /\ Len(Tail(sent)) = Len(sent) - 1
      /\ \A j \in 1..Len(Tail(sent)) : Tail(sent)[j] = sent[j + 1]
      /\ Head(sent) = sent[1] /\ Len(sent) \in Nat \ {0}
  BY <1>1, HeadTailProperties
<1> QED
  BY <1>2 DEF Cut

(* What is left are other places with other buffers. *)
LEMMA CutKeeps ==
  ASSUME TypeOK, OnePlaceEach, QueueIsQueued, NEW i \in 1..Len(sent),
         NEW q, Cut(q, i)
  PROVE  /\ \A j \in 1..Len(q) : \E k \in 1..Len(sent) :
              k # i /\ q[j] = sent[k] /\ sent[k].buffer # sent[i].buffer
         /\ \A j, k \in 1..Len(q) : q[j].buffer = q[k].buffer => j = k
<1> DEFINE p(j) == IF j < i THEN j ELSE j + 1
<1>1. /\ Len(sent) \in Nat
      /\ \A j \in 1..Len(q) : /\ p(j) \in 1..Len(sent) /\ p(j) # i
                              /\ q[j] = sent[p(j)]
  <2>1. Len(sent) \in Nat
    BY DEF TypeOK
  <2>2. /\ Len(q) = Len(sent) - 1
        /\ \A j \in 1..Len(q) : q[j] = sent[p(j)]
    BY DEF Cut
  <2>3. \A j \in 1..Len(q) : p(j) \in 1..Len(sent) /\ p(j) # i
    BY <2>1, <2>2
  <2> QED
    BY <2>1, <2>2, <2>3
<1>2. \A j, k \in 1..Len(q) : p(j) = p(k) => j = k
  BY DEF Cut
<1> HIDE DEF p
<1> QED
  BY <1>1, <1>2 DEF OnePlaceEach

(* The driver shows or drops a picture: its buffer is free. *)
LEMMA QueueShrinks ==
  ASSUME TypeOK, OnePlaceEach, QueueIsQueued, NEW i \in 1..Len(sent),
         Cut(sent', i), lent' = [lent EXCEPT ![sent[i].buffer] = Free]
  PROVE  /\ sent' \in Seq(Sent)
         /\ lent' \in [Buffers -> {Free, Queued, Compositor, Poster}]
         /\ OnePlaceEach' /\ QueueIsQueued'
         /\ \A j \in 1..Len(sent') : \E k \in 1..Len(sent) : sent'[j] = sent[k]
         /\ \A b \in Buffers : lent[b] # Queued => lent'[b] = lent[b]
         /\ \A b \in Buffers : lent'[b] \in {lent[b], Free}
<1>1. /\ lent \in [Buffers -> {Free, Queued, Compositor, Poster}]
      /\ \A j \in 1..Len(sent) : sent[j] \in Sent
  <2>1. sent \in Seq(Sent)
    BY DEF TypeOK, Sent
  <2> QED
    BY <2>1 DEF TypeOK
<1>2. /\ \A j \in 1..Len(sent') : \E k \in 1..Len(sent) :
           sent'[j] = sent[k] /\ sent[k].buffer # sent[i].buffer
      /\ OnePlaceEach'
  BY CutKeeps DEF OnePlaceEach
<1>3. /\ \A j \in 1..Len(sent) : sent[j].buffer \in Buffers
      /\ lent[sent[i].buffer] = Queued
  BY <1>1 DEF Sent, QueueIsQueued
<1>4. lent' \in [Buffers -> {Free, Queued, Compositor, Poster}]
  BY <1>1
<1>5. QueueIsQueued'
  <2>1. ASSUME NEW j \in 1..Len(sent')
        PROVE  lent'[sent'[j].buffer] = Queued
    <3>1. PICK k \in 1..Len(sent) :
            sent'[j] = sent[k] /\ sent[k].buffer # sent[i].buffer
      BY <1>2
    <3>2. lent[sent[k].buffer] = Queued
      BY DEF QueueIsQueued
    <3> QED
      BY <1>1, <1>3, <3>1, <3>2
  <2> QED
    BY <2>1 DEF QueueIsQueued
<1>6. \A b \in Buffers : /\ lent[b] # Queued => lent'[b] = lent[b]
                        /\ lent'[b] \in {lent[b], Free}
  BY <1>1, <1>3
<1> QED
  BY <1>2, <1>4, <1>5, <1>6 DEF Cut

(* EBC_SEND_BUFFER: the buffer gets one place, the last. *)
LEMMA Accepted ==
  ASSUME TypeOK, OnePlaceEach, QueueIsQueued, NEW b \in Buffers,
         NEW keep \in BOOLEAN, Accept(b, keep)
  PROVE  /\ sent' \in Seq(Sent)
         /\ lent' \in [Buffers -> {Free, Queued, Compositor, Poster}]
         /\ OnePlaceEach' /\ QueueIsQueued'
         /\ \A j \in 1..Len(sent') :
              \/ \E k \in 1..Len(sent) : sent'[j] = sent[k]
              \/ sent'[j].buffer = b /\ sent'[j].picture = content[b]
         /\ lent'[b] = Queued
         /\ \A c \in Buffers \ {b} : lent'[c] = lent[c]
<1> DEFINE q == Without(b)
           new == [buffer |-> b, picture |-> content[b], keep |-> keep]
<1>1. /\ lent \in [Buffers -> {Free, Queued, Compositor, Poster}]
      /\ sent \in Seq(Sent) /\ content[b] \in Nat /\ Len(sent) \in Nat
  BY DEF TypeOK, Sent
<1>2. /\ new \in Sent /\ new.buffer = b /\ new.picture = content[b]
      /\ sent' = Append(q, new)
  BY <1>1 DEF Sent, Accept
<1>3. /\ q \in Seq(Sent)
      /\ \A j \in 1..Len(q) : \E k \in 1..Len(sent) :
           q[j] = sent[k] /\ sent[k].buffer # b
      /\ \A j, k \in 1..Len(q) : q[j].buffer = q[k].buffer => j = k
  <2>1. CASE Places(b) = {}
    BY <1>1, <2>1 DEF Without, Places, OnePlaceEach
  <2>2. CASE Places(b) # {}
    <3>1. PICK i \in Places(b) : q = RemoveAt(sent, i)
      BY <2>2 DEF Without
    <3>2. i \in 1..Len(sent) /\ sent[i].buffer = b
      BY DEF Places
    <3>3. Cut(q, i)
      BY <3>1, <3>2, RemoveAtCuts
    <3> HIDE DEF q
    <3>4. /\ \A j \in 1..Len(q) : \E k \in 1..Len(sent) :
               k # i /\ q[j] = sent[k] /\ sent[k].buffer # sent[i].buffer
          /\ \A j, k \in 1..Len(q) : q[j].buffer = q[k].buffer => j = k
      BY <3>2, <3>3, CutKeeps
    <3>5. q \in Seq(Sent)
      BY <3>3 DEF Cut
    <3> QED
      BY <3>2, <3>4, <3>5
  <2> QED
    BY <2>1, <2>2
<1> HIDE DEF q, new
<1>4. /\ sent' \in Seq(Sent) /\ Len(sent') = Len(q) + 1 /\ Len(q) \in Nat
      /\ sent'[Len(q) + 1] = new
      /\ \A j \in 1..Len(q) : sent'[j] = q[j]
  BY <1>2, <1>3
<1>5. \A j \in 1..Len(sent') : j = Len(q) + 1 \/ j \in 1..Len(q)
  BY <1>4
<1>6. OnePlaceEach'
  <2> SUFFICES ASSUME NEW j \in 1..Len(sent'), NEW k \in 1..Len(sent'),
                      sent'[j].buffer = sent'[k].buffer
               PROVE  j = k
    BY DEF OnePlaceEach
  <2>1. \A l \in 1..Len(q) : sent'[l].buffer # b
    BY <1>3, <1>4
  <2> QED
    BY <1>2, <1>3, <1>4, <1>5, <2>1
<1>7. /\ lent' \in [Buffers -> {Free, Queued, Compositor, Poster}]
      /\ lent'[b] = Queued
      /\ \A c \in Buffers \ {b} : lent'[c] = lent[c]
  BY <1>1 DEF Accept
<1>8. QueueIsQueued'
  <2>1. ASSUME NEW j \in 1..Len(q)
        PROVE  lent'[q[j].buffer] = Queued
    <3>1. PICK k \in 1..Len(sent) : q[j] = sent[k] /\ sent[k].buffer # b
      BY <1>3
    <3>2. sent[k].buffer \in Buffers /\ lent[sent[k].buffer] = Queued
      <4>1. sent[k] \in Sent
        BY <1>1
      <4> QED
        BY <4>1 DEF QueueIsQueued, Sent
    <3> QED
      BY <1>7, <3>1, <3>2
  <2> QED
    BY <1>2, <1>4, <1>5, <1>7, <2>1 DEF QueueIsQueued
<1>9. \A j \in 1..Len(sent') :
        \/ \E k \in 1..Len(sent) : sent'[j] = sent[k]
        \/ sent'[j].buffer = b /\ sent'[j].picture = content[b]
  BY <1>2, <1>3, <1>4, <1>5
<1> QED
  BY <1>4, <1>6, <1>7, <1>8, <1>9
-------------------------------------------------------------------------------
(***************************************************************************)
(* The parts of the invariant.                                             *)
(***************************************************************************)
LEMMA InitInv == Init => IInv
<1> SUFFICES ASSUME Init PROVE IInv
  OBVIOUS
<1> USE BufferConstants DEF Init, Free, Queued, Compositor, Poster
<1>1. /\ lent \in [Buffers -> {Free, Queued, Compositor, Poster}]
      /\ content \in [Buffers -> Nat] /\ sent = <<>> /\ Len(sent) = 0
  OBVIOUS
<1>2. TypeOK
  <2>1. sent \in Seq(Sent)
    BY <1>1
  <2> QED
    BY <1>1, <2>1 DEF TypeOK, Sent
<1>3. OnePlaceEach /\ QueueIsQueued /\ SentIsKept
  BY <1>1 DEF OnePlaceEach, QueueIsQueued, SentIsKept
<1>4. DrawnIsLent /\ PicturesAreSent
  BY DEF DrawnIsLent, PicturesAreSent
<1>5. BuffersReturn
  <2>1. {b \in Buffers : lent[b] \in {Compositor, Poster}} = {gray16_buffer}
    OBVIOUS
  <2>2. Cardinality({gray16_buffer}) = 1
    BY FS_Singleton
  <2>3. wpc # "get" /\ lpc \notin {"copy", "send"} /\ leaks = 0
    OBVIOUS
  <2> HIDE DEF Init
  <2> QED
    BY <2>1, <2>2, <2>3 DEF BuffersReturn
<1> QED
  BY <1>2, <1>3, <1>4, <1>5 DEF IInv

(* What is shown or dropped is cut out of the queue. *)
LEMMA DriverSteps ==
  ASSUME TypeOK, DriverShow \/ DriverDrop
  PROVE  /\ \E i \in 1..Len(sent) :
              Cut(sent', i) /\ lent' = [lent EXCEPT ![sent[i].buffer] = Free]
         /\ UNCHANGED <<content, compositor, poster, pictures, faults>>
         /\ shown' \in Nat
<1>1. CASE DriverShow
  <2>1. PICK i \in 1..Len(sent) : i = 1 /\ Cut(Tail(sent), i) /\ Head(sent) = sent[i]
    BY <1>1, TailCuts DEF DriverShow
  <2>2. Head(sent).buffer \in Buffers
    <3>1. sent \in Seq(Sent) /\ sent # <<>>
      BY <1>1 DEF DriverShow, TypeOK, Sent
    <3>2. Head(sent) \in Sent
      BY <3>1
    <3> QED
      BY <3>2 DEF Sent
  <2> QED
    BY <1>1, <2>1, <2>2 DEF DriverShow, TypeOK
<1>2. CASE DriverDrop
  <2>1. PICK i \in 1..(Len(sent) - 1) :
          /\ sent' = RemoveAt(sent, i)
          /\ lent' = [lent EXCEPT ![sent[i].buffer] = Free]
          /\ UNCHANGED <<content, shown, compositor, poster, pictures, faults>>
    BY <1>2 DEF DriverDrop
  <2>2. i \in 1..Len(sent)
    BY DEF TypeOK
  <2> QED
    BY <2>1, <2>2, RemoveAtCuts DEF TypeOK
<1> QED
  BY <1>1, <1>2

LEMMA TypeStep ==
  ASSUME TypeOK, OnePlaceEach, QueueIsQueued, Next
  PROVE  TypeOK' /\ OnePlaceEach' /\ QueueIsQueued'
<1> USE DEF Sent
<1>1. CASE DriverShow \/ DriverDrop
  <2>1. /\ sent' \in Seq(Sent)
        /\ lent' \in [Buffers -> {Free, Queued, Compositor, Poster}]
        /\ OnePlaceEach' /\ QueueIsQueued'
    BY <1>1, DriverSteps, QueueShrinks
  <2>2. /\ UNCHANGED <<content, compositor, poster, pictures, faults>>
        /\ shown' \in Nat
    BY <1>1, DriverSteps
  <2> QED
    BY <2>1, <2>2 DEF TypeOK, compositor, poster
<1>2. CASE Compose
  <2>1. OnePlaceEach' /\ QueueIsQueued'
    BY <1>2 DEF Compose, OnePlaceEach, QueueIsQueued, driver
  <2>2. frame' \in Nat /\ pictures' \in Nat
    BY <1>2 DEF Compose, NextPicture, TypeOK
  <2> QED
    BY <1>2, <2>1, <2>2 DEF Compose, TypeOK, driver, poster
<1>3. CASE Convert
  <2>1. OnePlaceEach' /\ QueueIsQueued'
    BY <1>3 DEF Convert, OnePlaceEach, QueueIsQueued, driver
  <2>2. /\ content' \in [Buffers -> Nat] /\ misdrawn' \in BOOLEAN
        /\ faults' \in Nat
    <3>1. CASE /\ content' = [content EXCEPT ![gray16_buffer] = frame]
               /\ UNCHANGED <<misdrawn, faults>>
      BY <3>1 DEF TypeOK
    <3>2. CASE Fault /\ misdrawn' = TRUE /\ UNCHANGED content
      BY <3>2 DEF Fault, TypeOK
    <3> QED
      BY <1>3, <3>1, <3>2 DEF Convert
  <2> QED
    BY <1>3, <2>1, <2>2 DEF Convert, TypeOK, driver, poster
<1>4. CASE PostEinkSend
  <2>1. CASE Accept(gray16_buffer, needpic) /\ wpc' = "get" /\ UNCHANGED faults
    <3>1. /\ sent' \in Seq(Sent)
          /\ lent' \in [Buffers -> {Free, Queued, Compositor, Poster}]
          /\ OnePlaceEach' /\ QueueIsQueued'
      BY <2>1, Accepted DEF TypeOK
    <3> QED
      BY <1>4, <2>1, <3>1 DEF PostEinkSend, TypeOK, poster
  <2>2. CASE Fault /\ wpc' = SendFailed /\ UNCHANGED <<lent, sent>>
    BY <1>4, <2>2 DEF PostEinkSend, Fault, SendFailed, TypeOK, OnePlaceEach,
                      QueueIsQueued, poster
  <2> QED
    BY <1>4, <2>1, <2>2 DEF PostEinkSend
<1>5. CASE PostEinkGet
  <2>1. /\ lent' \in [Buffers -> {Free, Queued, Compositor, Poster}]
        /\ gray16_buffer' \in Buffers /\ strayed' \in BOOLEAN /\ faults' \in Nat
        /\ \A b \in Buffers : lent[b] = Queued => lent'[b] = Queued
    <3>1. ASSUME NEW b \in Buffers, Lend(b, Compositor), gray16_buffer' = b,
                 UNCHANGED <<strayed, faults>>
          PROVE  <2>1
      BY <3>1 DEF Lend, TypeOK, Free, Queued, Compositor
    <3>2. CASE Fault /\ strayed' = TRUE /\ UNCHANGED <<lent, gray16_buffer>>
      BY <3>2 DEF Fault, TypeOK
    <3> QED
      BY <1>5, <3>1, <3>2 DEF PostEinkGet, NextBuffer
  <2>2. QueueIsQueued'
    <3>1. \A i \in 1..Len(sent) : sent[i].buffer \in Buffers
      BY QueueTyped
    <3> QED
      BY <1>5, <2>1, <3>1 DEF PostEinkGet, QueueIsQueued
  <2> QED
    BY <1>5, <2>1, <2>2 DEF PostEinkGet, TypeOK, OnePlaceEach, poster
<1>6. CASE HwcPostEpd
  BY <1>6 DEF HwcPostEpd, NextPicture, TypeOK, OnePlaceEach, QueueIsQueued,
              driver, compositor
<1>7. CASE PostEpdGet
  <2>1. /\ lent' \in [Buffers -> {Free, Queued, Compositor, Poster}]
        /\ lbuf' \in Buffers \cup {NoBuffer} /\ faults' \in Nat
        /\ lpc' \in {"idle", "copy"} /\ (lpc' = "copy" => lbuf' \in Buffers)
        /\ \A b \in Buffers : lent[b] = Queued => lent'[b] = Queued
    BY <1>7 DEF PostEpdGet, Lend, Fault, TypeOK, Free, Queued, Poster
  <2>2. QueueIsQueued'
    <3>1. \A i \in 1..Len(sent) : sent[i].buffer \in Buffers
      BY QueueTyped
    <3> QED
      BY <1>7, <2>1, <3>1 DEF PostEpdGet, QueueIsQueued
  <2> QED
    BY <1>7, <2>1, <2>2 DEF PostEpdGet, TypeOK, OnePlaceEach, compositor
<1>8. CASE PostEpdCopy
  BY <1>8 DEF PostEpdCopy, CopyTo, TypeOK, OnePlaceEach, QueueIsQueued, driver,
              compositor
<1>9. CASE PostEpdSend
  <2>1. CASE Accept(lbuf, TRUE) /\ UNCHANGED <<leaks, faults>>
    <3>1. /\ sent' \in Seq(Sent)
          /\ lent' \in [Buffers -> {Free, Queued, Compositor, Poster}]
          /\ OnePlaceEach' /\ QueueIsQueued'
      BY <1>9, <2>1, Accepted DEF PostEpdSend, TypeOK
    <3> QED
      BY <1>9, <2>1, <3>1 DEF PostEpdSend, TypeOK, compositor
  <2>2. CASE Fault /\ leaks' = leaks + 1 /\ UNCHANGED <<lent, sent>>
    BY <1>9, <2>2 DEF PostEpdSend, Fault, TypeOK, OnePlaceEach, QueueIsQueued,
                      compositor
  <2> QED
    BY <1>9, <2>1, <2>2 DEF PostEpdSend
<1>10. CASE AllQuiet
  BY <1>10 DEF AllQuiet, vars, TypeOK, OnePlaceEach, QueueIsQueued
<1> QED
  BY <1>1, <1>2, <1>3, <1>4, <1>5, <1>6, <1>7, <1>8, <1>9, <1>10
     DEF Next, InCompositor, InHwcPostEpd

(* The steps by which the driver lends a buffer or takes it back. *)
LEMMA LentStep ==
  ASSUME TypeOK, OnePlaceEach, QueueIsQueued, DrawnIsLent, Next
  PROVE  DrawnIsLent'
<1> USE DEF Free, Queued, Compositor, Poster
<1> SUFFICES ASSUME ~strayed' PROVE DrawnIsLent'
  BY DEF DrawnIsLent
<1>0. lent \in [Buffers -> {Free, Queued, Compositor, Poster}]
  BY DEF TypeOK
<1>1. CASE DriverShow \/ DriverDrop
  <2>1. /\ UNCHANGED <<gray16_buffer, wpc, strayed, lpc, lbuf>>
        /\ \A b \in Buffers : lent[b] # Queued => lent'[b] = lent[b]
        /\ \A b \in Buffers : lent'[b] \in {lent[b], Free}
    BY <1>1, DriverSteps, QueueShrinks DEF compositor, poster
  <2>2. \A b \in Buffers : lent'[b] = Compositor <=> lent[b] = Compositor
    BY <1>0, <2>1
  <2> QED
    BY <2>1, <2>2 DEF DrawnIsLent, TypeOK
<1>2. CASE Compose \/ Convert \/ HwcPostEpd \/ PostEpdCopy \/ AllQuiet
  <2>1. /\ UNCHANGED <<lent, gray16_buffer, lbuf, strayed>>
        /\ wpc' = "get" <=> wpc = "get"
        /\ lpc' \in {"copy", "send"} => lpc \in {"copy", "send"}
    BY <1>2 DEF Compose, Convert, HwcPostEpd, PostEpdCopy, AllQuiet, driver,
                compositor, poster, vars
  <2> QED
    BY <2>1 DEF DrawnIsLent
<1>3. CASE PostEinkSend
  <2>1. UNCHANGED <<gray16_buffer, strayed, lpc, lbuf>> /\ wpc = "send"
    BY <1>3 DEF PostEinkSend, poster
  <2>2. CASE Accept(gray16_buffer, needpic) /\ wpc' = "get"
    <3>1. /\ lent'[gray16_buffer] = Queued
          /\ \A c \in Buffers \ {gray16_buffer} : lent'[c] = lent[c]
      BY <2>2, Accepted DEF TypeOK
    <3> QED
      BY <2>1, <2>2, <3>1 DEF DrawnIsLent, TypeOK
  <2>3. CASE wpc' = SendFailed /\ UNCHANGED lent
    BY <2>1, <2>3 DEF DrawnIsLent, SendFailed
  <2> QED
    BY <1>3, <2>2, <2>3 DEF PostEinkSend
<1>4. CASE PostEinkGet
  <2>1. PICK b \in Buffers : /\ lent[b] = Free
                             /\ lent' = [lent EXCEPT ![b] = Compositor]
                             /\ gray16_buffer' = b
    BY <1>4 DEF PostEinkGet, Lend, NextBuffer
  <2>2. wpc = "get" /\ wpc' = "idle" /\ UNCHANGED <<strayed, lpc, lbuf>>
    BY <1>4, <2>1 DEF PostEinkGet, poster, TypeOK
  <2> QED
    BY <1>0, <2>1, <2>2 DEF DrawnIsLent, TypeOK
<1>5. CASE PostEpdGet
  <2>1. UNCHANGED <<gray16_buffer, wpc, strayed>>
    BY <1>5 DEF PostEpdGet, compositor
  <2>2. ASSUME NEW b \in Buffers, Lend(b, Poster), lbuf' = b
        PROVE  DrawnIsLent'
    BY <1>0, <2>1, <2>2 DEF Lend, DrawnIsLent
  <2>3. CASE lpc' = "idle" /\ UNCHANGED <<lent, lbuf>>
    BY <2>1, <2>3 DEF DrawnIsLent
  <2> QED
    BY <1>5, <2>2, <2>3 DEF PostEpdGet
<1>6. CASE PostEpdSend
  <2>1. /\ UNCHANGED <<gray16_buffer, wpc, strayed>>
        /\ lpc = "send" /\ lpc' = "idle" /\ lbuf \in Buffers
    BY <1>6 DEF PostEpdSend, compositor, TypeOK
  <2>2. CASE Accept(lbuf, TRUE)
    <3>1. /\ lent'[lbuf] = Queued
          /\ \A c \in Buffers \ {lbuf} : lent'[c] = lent[c]
      BY <2>1, <2>2, Accepted
    <3> QED
      BY <2>1, <3>1 DEF DrawnIsLent
  <2>3. CASE UNCHANGED lent
    BY <2>1, <2>3 DEF DrawnIsLent
  <2> QED
    BY <1>6, <2>2, <2>3 DEF PostEpdSend
<1> QED
  BY <1>1, <1>2, <1>3, <1>4, <1>5, <1>6 DEF Next, InCompositor, InHwcPostEpd

(* Nobody draws into a buffer that was sent, or into the other's. *)
LEMMA PicturesStep ==
  ASSUME IInv, Next
  PROVE  SentIsKept' /\ PicturesAreSent'
<1> USE DEF Free, Queued, Compositor, Poster
<1>0. /\ TypeOK /\ OnePlaceEach /\ QueueIsQueued /\ DrawnIsLent
      /\ SentIsKept /\ PicturesAreSent
      /\ content \in [Buffers -> Nat] /\ gray16_buffer \in Buffers
  BY DEF IInv, TypeOK
<1>1. CASE DriverShow \/ DriverDrop
  <2>1. /\ UNCHANGED <<content, gray16_buffer, wpc, frame, misdrawn, strayed,
                       lpc, lbuf, logo>>
        /\ \A j \in 1..Len(sent') : \E k \in 1..Len(sent) : sent'[j] = sent[k]
    BY <1>0, <1>1, DriverSteps, QueueShrinks DEF compositor, poster
  <2> QED
    BY <1>0, <2>1 DEF SentIsKept, PicturesAreSent
<1>2. CASE Compose \/ HwcPostEpd \/ AllQuiet
  <2>1. /\ UNCHANGED <<content, sent, gray16_buffer, strayed, lbuf>>
        /\ wpc' = "send" => wpc = "send" /\ UNCHANGED <<misdrawn, frame>>
        /\ lpc' = "send" => lpc = "send" /\ UNCHANGED logo
    BY <1>2 DEF Compose, HwcPostEpd, AllQuiet, driver, compositor, poster, vars
  <2> QED
    BY <1>0, <2>1 DEF SentIsKept, PicturesAreSent
<1>3. CASE Convert
  <2>1. /\ UNCHANGED <<lent, sent, gray16_buffer, frame, strayed, lpc, lbuf, logo>>
        /\ wpc = "convert"
    BY <1>3 DEF Convert, driver, poster
  <2>2. CASE content' = [content EXCEPT ![gray16_buffer] = frame]
    <3>1. ~strayed => lent[gray16_buffer] = Compositor
      BY <1>0, <2>1 DEF DrawnIsLent
    <3>2. /\ content'[gray16_buffer] = frame
          /\ \A b \in Buffers \ {gray16_buffer} : content'[b] = content[b]
      BY <1>0, <2>2
    <3>3. SentIsKept'
      BY <1>0, <2>1, <3>1, <3>2, QueueTyped DEF SentIsKept, QueueIsQueued
    <3>4. ~strayed /\ lpc = "send" => lbuf \in Buffers \ {gray16_buffer}
      BY <1>0, <3>1 DEF DrawnIsLent, TypeOK
    <3>5. PicturesAreSent'
      BY <1>0, <2>1, <3>2, <3>4 DEF PicturesAreSent
    <3> QED
      BY <3>3, <3>5
  <2>3. CASE misdrawn' = TRUE /\ UNCHANGED content
    BY <1>0, <2>1, <2>3 DEF SentIsKept, PicturesAreSent
  <2> QED
    BY <1>3, <2>2, <2>3 DEF Convert
<1>4. CASE PostEinkSend
  <2>1. UNCHANGED <<content, strayed, lpc, lbuf, logo>> /\ wpc' # "send"
    BY <1>4 DEF PostEinkSend, poster, SendFailed
  <2>2. PicturesAreSent'
    BY <1>0, <2>1 DEF PicturesAreSent
  <2>3. CASE Accept(gray16_buffer, needpic)
    <3>1. \A j \in 1..Len(sent') :
            \/ \E k \in 1..Len(sent) : sent'[j] = sent[k]
            \/ /\ sent'[j].buffer = gray16_buffer
               /\ sent'[j].picture = content[gray16_buffer]
      BY <1>0, <2>3, Accepted DEF TypeOK
    <3> QED
      BY <1>0, <2>1, <2>2, <3>1 DEF SentIsKept
  <2>4. CASE UNCHANGED sent
    BY <1>0, <2>1, <2>2, <2>4 DEF SentIsKept
  <2> QED
    BY <1>4, <2>3, <2>4 DEF PostEinkSend
<1>5. CASE PostEinkGet
  <2>1. /\ UNCHANGED <<content, sent, lpc, lbuf, logo>> /\ wpc' # "send"
        /\ strayed => strayed'
    BY <1>5 DEF PostEinkGet, poster
  <2> QED
    BY <1>0, <2>1 DEF SentIsKept, PicturesAreSent
<1>6. CASE PostEpdGet
  <2>1. /\ UNCHANGED <<content, sent, gray16_buffer, wpc, frame, misdrawn, strayed>>
        /\ lpc' # "send"
    BY <1>6 DEF PostEpdGet, compositor
  <2> QED
    BY <1>0, <2>1 DEF SentIsKept, PicturesAreSent
<1>7. CASE PostEpdCopy
  <2>1. /\ UNCHANGED <<lent, sent, gray16_buffer, wpc, frame, misdrawn, strayed,
                       lbuf, logo>>
        /\ lpc = "copy" /\ lbuf \in Buffers
        /\ content' = [content EXCEPT ![lbuf] = logo]
    BY <1>7 DEF PostEpdCopy, CopyTo, driver, compositor, TypeOK, IInv
  <2>2. ~strayed => lent[lbuf] = Poster
    BY <1>0, <2>1 DEF DrawnIsLent
  <2>3. /\ content'[lbuf] = logo
        /\ \A b \in Buffers \ {lbuf} : content'[b] = content[b]
    BY <1>0, <2>1
  <2>4. SentIsKept'
    BY <1>0, <2>1, <2>2, <2>3, QueueTyped DEF SentIsKept, QueueIsQueued
  <2>5. ~strayed /\ wpc = "send" => gray16_buffer # lbuf
    BY <1>0, <2>2 DEF DrawnIsLent
  <2> QED
    BY <1>0, <2>1, <2>3, <2>4, <2>5 DEF PicturesAreSent
<1>8. CASE PostEpdSend
  <2>1. /\ UNCHANGED <<content, gray16_buffer, wpc, frame, misdrawn, strayed>>
        /\ lpc' # "send" /\ lbuf \in Buffers
    BY <1>8 DEF PostEpdSend, compositor, TypeOK, IInv
  <2>2. PicturesAreSent'
    BY <1>0, <2>1 DEF PicturesAreSent
  <2>3. CASE Accept(lbuf, TRUE)
    <3>1. \A j \in 1..Len(sent') :
            \/ \E k \in 1..Len(sent) : sent'[j] = sent[k]
            \/ sent'[j].buffer = lbuf /\ sent'[j].picture = content[lbuf]
      BY <1>0, <2>1, <2>3, Accepted
    <3> QED
      BY <1>0, <2>1, <2>2, <3>1 DEF SentIsKept
  <2>4. CASE UNCHANGED sent
    BY <1>0, <2>1, <2>2, <2>4 DEF SentIsKept
  <2> QED
    BY <1>8, <2>3, <2>4 DEF PostEpdSend
<1> QED
  BY <1>1, <1>2, <1>3, <1>4, <1>5, <1>6, <1>7, <1>8
     DEF Next, InCompositor, InHwcPostEpd
-------------------------------------------------------------------------------
(***************************************************************************)
(* The buffers the driver has lent out.                                    *)
(***************************************************************************)
Out(l) == {b \in Buffers : l[b] \in {Compositor, Poster}}

LEMMA OutChanges ==
  ASSUME NEW l, NEW m, NEW b \in Buffers,
         \A c \in Buffers \ {b} : m[c] = l[c]
  PROVE  /\ Cardinality(Out(l)) \in Nat
         /\ b \notin Out(l) /\ b \in Out(m) =>
              Cardinality(Out(m)) = Cardinality(Out(l)) + 1
         /\ b \in Out(l) /\ b \notin Out(m) =>
              Cardinality(Out(m)) = Cardinality(Out(l)) - 1
<1>1. IsFiniteSet(Out(l)) /\ Cardinality(Out(l)) \in Nat
  <2>1. Out(l) \subseteq Buffers
    BY DEF Out
  <2> QED
    BY <2>1, FS_Subset, FS_CardinalityType, BufferConstants
<1>2. CASE b \notin Out(l) /\ b \in Out(m)
  <2>1. Out(m) = Out(l) \cup {b}
    BY <1>2 DEF Out
  <2> QED
    BY <1>1, <1>2, <2>1, FS_AddElement
<1>3. CASE b \in Out(l) /\ b \notin Out(m)
  <2>1. Out(m) = Out(l) \ {b}
    BY <1>3 DEF Out
  <2> QED
    BY <1>1, <1>3, <2>1, FS_RemoveElement
<1> QED
  BY <1>1, <1>2, <1>3

(* What the threads use, and what was lost. *)
Used == (IF wpc = "get" THEN 0 ELSE 1)
          + (IF lpc \in {"copy", "send"} THEN 1 ELSE 0) + leaks

LEMMA ReturnStep ==
  ASSUME IInv, Next
  PROVE  BuffersReturn'
<1> USE DEF Free, Queued, Compositor, Poster
<1> SUFFICES ASSUME ~strayed' PROVE Cardinality(Out(lent')) = Used'
  BY DEF BuffersReturn, Out, Used
<1>0. /\ TypeOK /\ OnePlaceEach /\ QueueIsQueued /\ DrawnIsLent
      /\ lent \in [Buffers -> {Free, Queued, Compositor, Poster}]
      /\ leaks \in Nat /\ gray16_buffer \in Buffers
  BY DEF IInv, TypeOK
<1>1. ~strayed => Cardinality(Out(lent)) = Used
  BY DEF IInv, BuffersReturn, Out, Used
<1>2. CASE DriverShow \/ DriverDrop
  <2>1. /\ UNCHANGED <<wpc, lpc, leaks, strayed>>
        /\ \A b \in Buffers : lent[b] # Queued => lent'[b] = lent[b]
        /\ \A b \in Buffers : lent'[b] \in {lent[b], Free}
    BY <1>0, <1>2, DriverSteps, QueueShrinks DEF compositor, poster
  <2>2. Out(lent') = Out(lent)
    BY <1>0, <2>1 DEF Out
  <2> QED
    BY <1>1, <2>1, <2>2 DEF Used
<1>3. CASE Compose \/ Convert \/ HwcPostEpd \/ PostEpdCopy \/ AllQuiet
  <2>1. /\ UNCHANGED <<lent, leaks, strayed>>
        /\ wpc' = "get" <=> wpc = "get"
        /\ lpc' \in {"copy", "send"} <=> lpc \in {"copy", "send"}
    BY <1>3 DEF Compose, Convert, HwcPostEpd, PostEpdCopy, AllQuiet, driver,
                compositor, poster, vars
  <2> QED
    BY <1>1, <2>1 DEF Used
<1>4. CASE PostEinkSend
  <2>1. UNCHANGED <<strayed, lpc, leaks>> /\ wpc = "send"
    BY <1>4 DEF PostEinkSend, poster
  <2>2. CASE Accept(gray16_buffer, needpic) /\ wpc' = "get"
    <3>1. /\ lent'[gray16_buffer] = Queued
          /\ \A c \in Buffers \ {gray16_buffer} : lent'[c] = lent[c]
      BY <1>0, <2>2, Accepted DEF TypeOK
    <3>2. gray16_buffer \in Out(lent) /\ gray16_buffer \notin Out(lent')
      BY <1>0, <2>1, <3>1 DEF DrawnIsLent, Out
    <3>3. Cardinality(Out(lent')) = Cardinality(Out(lent)) - 1
      BY <1>0, <3>1, <3>2, OutChanges
    <3> QED
      BY <1>0, <1>1, <2>1, <2>2, <3>3 DEF Used
  <2>3. CASE wpc' = SendFailed /\ UNCHANGED lent
    BY <1>1, <2>1, <2>3 DEF Used, SendFailed
  <2> QED
    BY <1>4, <2>2, <2>3 DEF PostEinkSend
<1>5. CASE PostEinkGet
  <2>1. PICK b \in Buffers : /\ lent[b] = Free
                             /\ lent' = [lent EXCEPT ![b] = Compositor]
    BY <1>5 DEF PostEinkGet, Lend
  <2>2. wpc = "get" /\ wpc' = "idle" /\ UNCHANGED <<lpc, leaks>> /\ ~strayed
    BY <1>5 DEF PostEinkGet, poster
  <2>3. Cardinality(Out(lent')) = Cardinality(Out(lent)) + 1
    <3>1. b \notin Out(lent) /\ b \in Out(lent')
      BY <1>0, <2>1 DEF Out
    <3>2. \A c \in Buffers \ {b} : lent'[c] = lent[c]
      BY <1>0, <2>1
    <3> QED
      BY <3>1, <3>2, OutChanges
  <2> QED
    BY <1>0, <1>1, <2>2, <2>3 DEF Used
<1>6. CASE PostEpdGet
  <2>1. UNCHANGED <<wpc, strayed, leaks>> /\ lpc = "get"
    BY <1>6 DEF PostEpdGet, compositor
  <2>2. ASSUME NEW b \in Buffers, Lend(b, Poster), lpc' = "copy"
        PROVE  Cardinality(Out(lent')) = Used'
    <3>1. b \notin Out(lent) /\ b \in Out(lent')
      BY <1>0, <2>2 DEF Out, Lend
    <3>2. \A c \in Buffers \ {b} : lent'[c] = lent[c]
      BY <1>0, <2>2 DEF Lend
    <3>3. Cardinality(Out(lent')) = Cardinality(Out(lent)) + 1
      BY <3>1, <3>2, OutChanges
    <3> QED
      BY <1>0, <1>1, <2>1, <2>2, <3>3 DEF Used
  <2>3. CASE lpc' = "idle" /\ UNCHANGED lent
    BY <1>1, <2>1, <2>3 DEF Used
  <2> QED
    BY <1>6, <2>2, <2>3 DEF PostEpdGet
<1>7. CASE PostEpdSend
  <2>1. /\ UNCHANGED <<wpc, strayed>>
        /\ lpc = "send" /\ lpc' = "idle" /\ lbuf \in Buffers
    BY <1>0, <1>7 DEF PostEpdSend, compositor, TypeOK
  <2>2. CASE Accept(lbuf, TRUE) /\ UNCHANGED leaks
    <3>1. /\ lent'[lbuf] = Queued
          /\ \A c \in Buffers \ {lbuf} : lent'[c] = lent[c]
      BY <1>0, <2>1, <2>2, Accepted
    <3>2. lbuf \in Out(lent) /\ lbuf \notin Out(lent')
      BY <2>1, <3>1, <1>0 DEF DrawnIsLent, Out
    <3>3. Cardinality(Out(lent')) = Cardinality(Out(lent)) - 1
      BY <2>1, <3>1, <3>2, OutChanges
    <3> QED
      BY <1>0, <1>1, <2>1, <2>2, <3>3 DEF Used
  <2>3. CASE leaks' = leaks + 1 /\ UNCHANGED lent
    BY <1>0, <1>1, <2>1, <2>3 DEF Used
  <2> QED
    BY <1>7, <2>2, <2>3 DEF PostEpdSend
<1> QED
  BY <1>2, <1>3, <1>4, <1>5, <1>6, <1>7 DEF Next, InCompositor, InHwcPostEpd

LEMMA StepInv == IInv /\ [Next]_vars => IInv'
<1> SUFFICES ASSUME IInv, [Next]_vars PROVE IInv'
  OBVIOUS
<1>1. CASE Next
  <2>1. TypeOK /\ OnePlaceEach /\ QueueIsQueued /\ DrawnIsLent
    BY DEF IInv
  <2> QED
    BY <1>1, <2>1, TypeStep, LentStep, PicturesStep, ReturnStep DEF IInv
<1>2. CASE UNCHANGED vars
  BY <1>2 DEF IInv, TypeOK, OnePlaceEach, QueueIsQueued, DrawnIsLent,
              SentIsKept, PicturesAreSent, BuffersReturn, vars
<1> QED
  BY <1>1, <1>2
-------------------------------------------------------------------------------
(***************************************************************************)
(* The theorems.                                                           *)
(***************************************************************************)
LEMMA Invariance == Spec => []IInv
BY InitInv, StepInv, PTL DEF Spec

(* gray16_buffer always names one of the driver's buffers, and so does the
   buffer hwc_post_epd draws into. *)
THEOREM TypeInvariant == Spec => []TypeOK
<1>1. IInv => TypeOK
  BY DEF IInv
<1> QED
  BY <1>1, Invariance, PTL

(* Until EBC_GET_BUFFER fails in PostEink, neither thread draws into a buffer
   that was sent and not shown. *)
THEOREM SentStays == Spec => []SentIsKept
<1>1. IInv => SentIsKept
  BY DEF IInv
<1> QED
  BY <1>1, Invariance, PTL

(* Until then PostEink sends the frame that was converted, and hwc_post_epd its
   standby picture, however their steps interleave. *)
THEOREM OwnPicturesSent == Spec => []PicturesAreSent
<1>1. IInv => PicturesAreSent
  BY DEF IInv
<1> QED
  BY <1>1, Invariance, PTL

(* The driver gets back every buffer but those for which EBC_SEND_BUFFER failed
   in hwc_post_epd. *)
THEOREM BuffersComeBack == Spec => []BuffersReturn
<1>1. IInv => BuffersReturn
  BY DEF IInv
<1> QED
  BY <1>1, Invariance, PTL
-------------------------------------------------------------------------------
(***************************************************************************)
(* What keeps a caller of EBC_GET_BUFFER from waiting for ever.            *)
(***************************************************************************)
(* The driver forgets no picture: a buffer it keeps is in its queue. *)
QueuedIsSent ==
  \A b \in Buffers :
    lent[b] = Queued => \E k \in 1..Len(sent) : sent[k].buffer = b

(* Unless buffers were lost to failing sends, one is free, or the driver is
   going to show one, or hwc_post_epd is about to send one. *)
BuffersComeFree ==
  ~strayed /\ leaks + (IF wpc = "get" THEN 0 ELSE 1) < Cardinality(Buffers)
    => \/ \E b \in Buffers : lent[b] = Free
       \/ sent # <<>>
       \/ lpc \in {"copy", "send"}

(* What is not cut out of the queue stays in it. *)
LEMMA CutLoses ==
  ASSUME TypeOK, NEW i \in 1..Len(sent), NEW q, Cut(q, i),
         NEW k \in 1..Len(sent), k # i
  PROVE  \E j \in 1..Len(q) : q[j] = sent[k]
<1>1. Len(sent) \in Nat
  BY DEF TypeOK
<1>2. CASE k < i
  <2>1. k \in 1..Len(q)
    BY <1>1, <1>2 DEF Cut
  <2>2. q[k] = sent[k]
    BY <1>2, <2>1 DEF Cut
  <2> QED
    BY <2>1, <2>2
<1>3. CASE i < k
  <2>1. k - 1 \in 1..Len(q) /\ ~(k - 1 < i) /\ (k - 1) + 1 = k
    BY <1>1, <1>3 DEF Cut
  <2>2. q[k - 1] = sent[k]
    BY <2>1 DEF Cut
  <2> QED
    BY <2>1, <2>2
<1> QED
  BY <1>1, <1>2, <1>3

(* A picture that is shown or dropped leaves those of the other buffers. *)
LEMMA QueuedCut ==
  ASSUME TypeOK, QueuedIsSent, NEW i \in 1..Len(sent), Cut(sent', i),
         lent' = [lent EXCEPT ![sent[i].buffer] = Free]
  PROVE  QueuedIsSent'
<1> SUFFICES ASSUME NEW b \in Buffers, lent'[b] = Queued
             PROVE  \E k \in 1..Len(sent') : sent'[k].buffer = b
  BY DEF QueuedIsSent
<1>1. lent \in [Buffers -> {Free, Queued, Compositor, Poster}]
  BY DEF TypeOK
<1>2. b # sent[i].buffer /\ lent[b] = Queued
  BY <1>1 DEF Free, Queued
<1>3. PICK k \in 1..Len(sent) : sent[k].buffer = b
  BY <1>2 DEF QueuedIsSent
<1> QED
  BY <1>2, <1>3, CutLoses

(* A picture that is sent only takes the place of one in the same buffer. *)
LEMMA QueuedAccepted ==
  ASSUME TypeOK, QueuedIsSent, NEW b \in Buffers, NEW keep \in BOOLEAN,
         Accept(b, keep)
  PROVE  QueuedIsSent'
<1> DEFINE q == Without(b)
           new == [buffer |-> b, picture |-> content[b], keep |-> keep]
<1>1. /\ lent \in [Buffers -> {Free, Queued, Compositor, Poster}]
      /\ sent \in Seq(Sent) /\ content[b] \in Nat /\ Len(sent) \in Nat
  BY DEF TypeOK, Sent
<1>2. /\ new \in Sent /\ new.buffer = b
      /\ sent' = Append(q, new)
  BY <1>1 DEF Sent, Accept
<1>3. /\ q \in Seq(Sent)
      /\ \A k \in 1..Len(sent) :
           sent[k].buffer # b => \E j \in 1..Len(q) : q[j] = sent[k]
  <2>1. CASE Places(b) = {}
    BY <1>1, <2>1 DEF Without
  <2>2. CASE Places(b) # {}
    <3>1. PICK i \in Places(b) : q = RemoveAt(sent, i)
      BY <2>2 DEF Without
    <3>2. i \in 1..Len(sent) /\ sent[i].buffer = b
      BY DEF Places
    <3>3. Cut(q, i)
      BY <3>1, <3>2, RemoveAtCuts
    <3> HIDE DEF q
    <3>4. ASSUME NEW k \in 1..Len(sent), sent[k].buffer # b
          PROVE  \E j \in 1..Len(q) : q[j] = sent[k]
      <4>1. k # i
        BY <3>2, <3>4
      <4> QED
        BY <3>2, <3>3, <4>1, CutLoses
    <3>5. q \in Seq(Sent)
      BY <3>3 DEF Cut
    <3> QED
      BY <3>4, <3>5
  <2> QED
    BY <2>1, <2>2
<1> HIDE DEF q, new
<1>4. /\ Len(sent') = Len(q) + 1 /\ Len(q) \in Nat
      /\ sent'[Len(q) + 1] = new
      /\ \A j \in 1..Len(q) : sent'[j] = q[j]
  BY <1>2, <1>3
<1> SUFFICES ASSUME NEW c \in Buffers, lent'[c] = Queued
             PROVE  \E k \in 1..Len(sent') : sent'[k].buffer = c
  BY DEF QueuedIsSent
<1>5. CASE c = b
  BY <1>2, <1>4, <1>5
<1>6. CASE c # b
  <2>1. lent[c] = Queued
    BY <1>1, <1>6 DEF Accept
  <2>2. PICK k \in 1..Len(sent) : sent[k].buffer = c
    BY <2>1 DEF QueuedIsSent
  <2>3. PICK j \in 1..Len(q) : q[j] = sent[k]
    BY <1>3, <1>6, <2>2
  <2>4. j \in 1..Len(sent') /\ sent'[j] = sent[k]
    BY <1>4, <2>3
  <2> QED
    BY <2>2, <2>4
<1> QED
  BY <1>5, <1>6

LEMMA QueuedStep ==
  ASSUME TypeOK, QueuedIsSent, Next
  PROVE  QueuedIsSent'
<1>1. CASE UNCHANGED <<lent, sent>>
  BY <1>1 DEF QueuedIsSent
<1>2. CASE DriverShow \/ DriverDrop
  BY <1>2, DriverSteps, QueuedCut
<1>3. CASE \E b \in Buffers, keep \in BOOLEAN : Accept(b, keep)
  BY <1>3, QueuedAccepted
<1>4. CASE \E b \in Buffers, who \in {Compositor, Poster} :
             Lend(b, who) /\ UNCHANGED sent
  <2>1. \A c \in Buffers : lent'[c] = Queued => lent[c] = Queued
    BY <1>4 DEF Lend, TypeOK, Compositor, Poster, Queued
  <2> QED
    BY <1>4, <2>1 DEF QueuedIsSent
<1>5. CASE PostEinkSend
  BY <1>1, <1>3, <1>5 DEF PostEinkSend, TypeOK
<1>6. CASE PostEinkGet
  BY <1>1, <1>4, <1>6 DEF PostEinkGet
<1>7. CASE PostEpdGet
  BY <1>1, <1>4, <1>7 DEF PostEpdGet, driver
<1>8. CASE PostEpdSend
  BY <1>1, <1>3, <1>8 DEF PostEpdSend, TypeOK
<1>9. CASE Compose \/ Convert \/ HwcPostEpd \/ PostEpdCopy \/ AllQuiet
  BY <1>1, <1>9 DEF Compose, Convert, HwcPostEpd, PostEpdCopy, AllQuiet,
                    driver, vars
<1> QED
  BY <1>2, <1>5, <1>6, <1>7, <1>8, <1>9 DEF Next, InCompositor, InHwcPostEpd

LEMMA QueuedInvariance == Spec => [](IInv /\ QueuedIsSent)
<1>1. Init => QueuedIsSent
  BY DEF Init, QueuedIsSent, Free, Queued, Compositor
<1>2. IInv /\ QueuedIsSent /\ [Next]_vars => QueuedIsSent'
  <2>1. CASE Next
    BY <2>1, QueuedStep DEF IInv
  <2>2. CASE UNCHANGED vars
    BY <2>2 DEF QueuedIsSent, vars
  <2> QED
    BY <2>1, <2>2
<1> QED
  BY <1>1, <1>2, Invariance, PTL DEF Spec

(* All buffers would be lent to the threads, which are too few for that. *)
LEMMA SomeBufferComes == IInv /\ QueuedIsSent => BuffersComeFree
<1> SUFFICES ASSUME IInv, QueuedIsSent, ~strayed,
                    \A b \in Buffers : lent[b] # Free,
                    sent = <<>>, lpc \notin {"copy", "send"}
             PROVE  ~(leaks + (IF wpc = "get" THEN 0 ELSE 1)
                        < Cardinality(Buffers))
  BY DEF BuffersComeFree
<1>1. TypeOK /\ BuffersReturn
  BY DEF IInv
<1>2. \A b \in Buffers : lent[b] # Queued
  <2>1. Len(sent) = 0
    OBVIOUS
  <2> QED
    BY <2>1 DEF QueuedIsSent
<1>3. Out(lent) = Buffers
  BY <1>1, <1>2 DEF Out, TypeOK
<1>4. Cardinality(Buffers) = Used
  BY <1>1, <1>3 DEF BuffersReturn, Out, Used
<1>5. leaks \in Nat
  BY <1>1 DEF TypeOK
<1> QED
  BY <1>4, <1>5 DEF Used

(* hwc_post_epd and PostEink never wait in EBC_GET_BUFFER for a buffer nobody
   is going to return, while fewer buffers were lost than there are besides
   the one the compositor thread draws into. *)
THEOREM NoWaitForLostBuffers == Spec => []BuffersComeFree
BY QueuedInvariance, SomeBufferComes, PTL
===============================================================================
