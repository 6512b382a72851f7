------------------------- MODULE EinkCompositorProofs -------------------------
(***************************************************************************)
(* Theorems about the frame hand-off, for every set of buffers, every      *)
(* queue depth and any number of calls, faults and unsignalled wake-ups    *)
(* (the bounds only appear in guards).                                     *)
(***************************************************************************)
EXTENDS EinkCompositor, SequenceTheorems, TLAPS

USE ConstantsAssumption

(* Every variable stays in its type, whatever the threads, the GPU and the
   failures of the wait and of the timeline do. *)
LEMMA TypeInit == Init => TypeOK
<1> USE DEF Free, SF, Thread
<1> SUFFICES ASSUME Init PROVE TypeOK
  OBVIOUS
<1>1. NoFrame \in Frame
  BY DEF NoFrame, Frame
<1>2. /\ jobs \in Seq([handle : Handles, after : Nat])
      /\ gpu_done \in 0..Len(jobs)
  BY DEF Init
<1>3. /\ owed \in [Handles -> Nat] /\ content \in [Handles -> Nat]
      /\ composite_queue_ \in Seq(Frame)
  BY DEF Init
<1>4. QED
  BY <1>1, <1>2, <1>3 DEF Init, TypeOK

(* ... and every step keeps it there. *)
LEMMA TypeStep == TypeOK /\ [Next]_vars => TypeOK'
<1> USE DEF Free, SF, Thread
<1> SUFFICES ASSUME TypeOK, [Next]_vars PROVE TypeOK'
  OBVIOUS
<1> USE DEF locks, timeline, gpu, history, producer, worker
<1>1. ASSUME NEW h \in Handles, HwcSet(h) PROVE TypeOK'
  <2>1. /\ jobs' \in Seq([handle : Handles, after : Nat])
        /\ Len(jobs') >= Len(jobs) /\ Len(jobs') \in Nat
        /\ gpu_done' = gpu_done /\ content' = content
    <3>1. CASE Render(h)
      <4>1. [handle |-> h, after |-> owed[h]] \in [handle : Handles, after : Nat]
        BY DEF TypeOK
      <4>2. QED
        BY <3>1, <4>1 DEF Render, TypeOK
    <3>2. CASE UNCHANGED gpu
      BY <3>2 DEF TypeOK
    <3>3. QED
      BY <1>1, <3>1, <3>2 DEF HwcSet
  <2>2. NewFrame(h) \in Frame
    BY <2>1 DEF NewFrame, Frame, TypeOK
  <2>3. gpu_done' \in 0..Len(jobs')
    BY <2>1 DEF TypeOK
  <2>4. CASE QueueNewHandle(h)
    <3>1. timeline_' \in Nat /\ owed' \in [Handles -> Nat]
      BY <2>4 DEF QueueNewHandle, TypeOK
    <3>2. pframe' \in Frame /\ queued' \in Nat /\ ppc' = "lock"
      BY <2>1, <2>2, <2>4 DEF QueueNewHandle
    <3>3. sets' \in Nat
      BY <1>1 DEF HwcSet, TypeOK
    <3>4. QED
      BY <1>1, <2>1, <2>3, <2>4, <3>1, <3>2, <3>3
         DEF HwcSet, QueueNewHandle, TypeOK
  <2>5. CASE QueueSameHandle(h)
    BY <1>1, <2>1, <2>3, <2>5 DEF HwcSet, QueueSameHandle, TypeOK
  <2>6. CASE SkipFrame
    BY <1>1, <2>1, <2>3, <2>6 DEF HwcSet, SkipFrame, TypeOK
  <2>7. QED
    BY <1>1, <2>4, <2>5, <2>6 DEF HwcSet
<1>2. ASSUME InQueueComposite PROVE TypeOK'
  <2>1. NoFrame \in Frame
    BY DEF NoFrame, Frame
  <2>2. CASE QueuePush
    BY <2>1, <2>2 DEF QueuePush, TypeOK
  <2>3. CASE SkipDone
    BY <2>3 DEF SkipDone, TypeOK
  <2>4. CASE QueueLock
    BY <2>4 DEF QueueLock, TypeOK
  <2>5. CASE QueueEinkLock
    BY <2>5 DEF QueueEinkLock, TypeOK
  <2>6. CASE QueueUnlock
    BY <2>6 DEF QueueUnlock, TypeOK
  <2>7. CASE QueueWait
    BY <2>7 DEF QueueWait, TypeOK
  <2>8. CASE QueueWake
    BY <2>8 DEF QueueWake, TypeOK
  <2>9. CASE QueueRelock
    BY <2>9 DEF QueueRelock, TypeOK
  <2>10. CASE QueueSignal
    BY <2>10 DEF QueueSignal, SignalLocked, TypeOK
  <2>11. QED
    BY <1>2, <2>2, <2>3, <2>4, <2>5, <2>6, <2>7,
       <2>8, <2>9, <2>10 DEF InQueueComposite
<1>3. ASSUME InRoutine PROVE TypeOK'
  <2>1. NoFrame \in Frame
    BY DEF NoFrame, Frame
  <2>2. CASE WorkerPop
    <3>1. CASE composite_queue_ # <<>>
      <4>1. /\ Head(composite_queue_) \in Frame
            /\ Tail(composite_queue_) \in Seq(Frame)
        BY <3>1 DEF TypeOK
      <4>2. QED
        BY <2>2, <3>1, <4>1 DEF WorkerPop, SignalQueue, TypeOK
    <3>2. CASE composite_queue_ = <<>>
      BY <2>2, <3>2 DEF WorkerPop, TypeOK
    <3>3. QED
      BY <3>1, <3>2
  <2>3. CASE WorkerConvert
    <3>1. wframe.id \in Nat
      BY DEF TypeOK, Frame
    <3>2. QED
      BY <2>3, <3>1 DEF WorkerConvert, TypeOK
  <2>4. CASE WorkerFinish
    <3>1. wframe.release \in Nat
      BY DEF TypeOK, Frame
    <3>2. timeline_current_' \in Nat /\ sync_value' \in Nat /\ faults' \in Nat
      <4>1. /\ timeline_current_ \in Nat /\ sync_value \in Nat
            /\ faults \in Nat
        BY DEF TypeOK
      <4>2. FinishComposition(wframe.release)
        BY <2>4 DEF WorkerFinish
      <4>3. QED
        BY <3>1, <4>1, <4>2 DEF FinishComposition, TimelineInc
    <3>3. dropped' \in BOOLEAN
      BY <2>4, Zenon DEF WorkerFinish, FinishComposition, TypeOK
    <3>4. /\ wframe' \in Frame /\ wpc' = "top"
          /\ UNCHANGED <<locks, composite_queue_, timeline_, producer, gpu,
                         shown, sets, queued, skipped, spurious>>
      BY <2>1, <2>4 DEF WorkerFinish
    <3>5. QED
      BY <3>2, <3>3, <3>4 DEF TypeOK, locks, producer, gpu
  <2>5. CASE WorkerTimeout
    BY <2>1, <2>5 DEF WorkerTimeout, TypeOK
  <2>6. CASE WorkerTop
    BY <2>6 DEF WorkerTop, TypeOK
  <2>7. CASE WorkerLock
    BY <2>7 DEF WorkerLock, TypeOK
  <2>8. CASE WorkerWait
    BY <2>8 DEF WorkerWait, TypeOK
  <2>9. CASE WorkerWake
    BY <2>9 DEF WorkerWake, TypeOK
  <2>10. CASE WorkerReady
    BY <2>10 DEF WorkerReady, TypeOK
  <2>11. CASE WorkerEinkLock
    BY <2>11 DEF WorkerEinkLock, TypeOK
  <2>12. CASE WorkerUnlock
    BY <2>12 DEF WorkerUnlock, TypeOK
  <2>13. CASE WorkerAcquire
    BY <2>13 DEF WorkerAcquire, TypeOK
  <2>14. QED
    BY <1>3, <2>2, <2>3, <2>4, <2>5, <2>6, <2>7, <2>8, <2>9,
       <2>10, <2>11, <2>12, <2>13 DEF InRoutine
<1>4. ASSUME GpuDraw PROVE TypeOK'
  <2>1. gpu_done + 1 \in 1..Len(jobs)
    <3>1. gpu_done < Len(jobs)
      BY <1>4 DEF GpuDraw
    <3>2. gpu_done \in Nat /\ Len(jobs) \in Nat
      BY DEF TypeOK
    <3>3. QED
      BY <3>1, <3>2
  <2>2. content' \in [Handles -> Nat]
    <3>1. content' = [content EXCEPT ![jobs[gpu_done + 1].handle] = gpu_done + 1]
      BY <1>4 DEF GpuDraw
    <3>2. gpu_done + 1 \in Nat
      BY <2>1
    <3>3. QED
      BY <3>1, <3>2 DEF TypeOK
  <2>3. gpu_done' \in 0..Len(jobs')
    BY <1>4, <2>1 DEF GpuDraw, TypeOK
  <2>4. gpu_done' \in 0..Len(jobs') /\ jobs' \in Seq([handle : Handles, after : Nat])
    BY <1>4, <2>3 DEF GpuDraw, TypeOK
  <2>5. UNCHANGED <<locks, composite_queue_, timeline, producer, worker, history>>
    BY <1>4, Zenon DEF GpuDraw
  <2>6. QED
    BY <2>2, <2>4, <2>5 DEF TypeOK
<1>5. ASSUME SpuriousWakeup PROVE TypeOK'
  <2>1. cond_' \subseteq {Thread} /\ eink_queue_cond_' \subseteq {SF}
    BY <1>5 DEF SpuriousWakeup, TypeOK
  <2>2. spurious' \in Nat
    BY <1>5 DEF SpuriousWakeup, TypeOK
  <2>3. QED
    BY <1>5, <2>1, <2>2 DEF SpuriousWakeup, TypeOK
<1>6. CASE UNCHANGED vars
  BY <1>6 DEF vars, TypeOK
<1>7. QED
  BY <1>1, <1>2, <1>3, <1>4, <1>5, <1>6 DEF Next, AllQuiet

-------------------------------------------------------------------------------
(* Each lock is held exactly where the code says: the locations of the two
   threads determine the owners of lock_ and eink_lock_, and only a thread
   blocked in pthread_cond_wait is in a condition variable's set. *)
LEMMA LocksStep ==
  TypeOK /\ LocksFollowPcs /\ [Next]_vars => LocksFollowPcs'
<1> SUFFICES ASSUME TypeOK, LocksFollowPcs, [Next]_vars PROVE LocksFollowPcs'
  OBVIOUS
<1> USE DEF locks, timeline, gpu, history, producer, worker, Free, SF, Thread
<1>1. ASSUME NEW h \in Handles, HwcSet(h) PROVE LocksFollowPcs'
  BY <1>1 DEF HwcSet, QueueNewHandle, QueueSameHandle, SkipFrame,
              LocksFollowPcs
<1>2. ASSUME InQueueComposite PROVE LocksFollowPcs'
  <2>1. CASE SkipDone \/ QueueLock \/ QueueEinkLock \/ QueueUnlock
    BY <2>1 DEF SkipDone, QueueLock, QueueEinkLock, QueueUnlock,
                LocksFollowPcs, TypeOK
  <2>2. CASE QueueWait \/ QueueWake \/ QueueRelock
    BY <2>2 DEF QueueWait, QueueWake, QueueRelock, LocksFollowPcs, TypeOK
  <2>3. CASE QueuePush \/ QueueSignal
    BY <2>3 DEF QueuePush, QueueSignal, SignalLocked, LocksFollowPcs, TypeOK
  <2>4. QED
    BY <1>2, <2>1, <2>2, <2>3 DEF InQueueComposite
<1>3. ASSUME InRoutine PROVE LocksFollowPcs'
  <2>1. CASE WorkerTop \/ WorkerLock \/ WorkerWait \/ WorkerWake
    BY <2>1 DEF WorkerTop, WorkerLock, WorkerWait, WorkerWake, LocksFollowPcs,
                TypeOK
  <2>2. CASE WorkerReady \/ WorkerEinkLock \/ WorkerUnlock \/ WorkerAcquire
    BY <2>2 DEF WorkerReady, WorkerEinkLock, WorkerUnlock, WorkerAcquire,
                LocksFollowPcs, TypeOK
  <2>3. CASE WorkerPop
    BY <2>3 DEF WorkerPop, SignalQueue, LocksFollowPcs, TypeOK
  <2>4. CASE WorkerTimeout \/ WorkerConvert \/ WorkerFinish
    BY <2>4 DEF WorkerTimeout, WorkerConvert, WorkerFinish, LocksFollowPcs,
                TypeOK
  <2>5. QED
    BY <1>3, <2>1, <2>2, <2>3, <2>4 DEF InRoutine
<1>4. CASE GpuDraw
  BY <1>4 DEF GpuDraw, LocksFollowPcs
<1>5. CASE SpuriousWakeup
  BY <1>5 DEF SpuriousWakeup, LocksFollowPcs, TypeOK
<1>6. CASE UNCHANGED vars
  BY <1>6 DEF vars, LocksFollowPcs
<1>7. QED
  BY <1>1, <1>2, <1>3, <1>4, <1>5, <1>6 DEF Next, AllQuiet

(* What each thread may rely on about the queue between two locks, and, with
   one slot and no unsignalled wake-up, after it has been woken. *)
LEMMA QueueStep ==
  TypeOK /\ LocksFollowPcs /\ QueueFollowsPcs /\ [Next]_vars
    => QueueFollowsPcs'
<1> SUFFICES ASSUME TypeOK, LocksFollowPcs, QueueFollowsPcs, [Next]_vars
             PROVE QueueFollowsPcs'
  OBVIOUS
<1> USE DEF locks, timeline, gpu, history, producer, worker, Free, SF, Thread
<1>1. ASSUME NEW h \in Handles, HwcSet(h) PROVE QueueFollowsPcs'
  BY <1>1 DEF HwcSet, QueueNewHandle, QueueSameHandle, SkipFrame,
              QueueFollowsPcs, QueueFull
<1>2. ASSUME InQueueComposite PROVE QueueFollowsPcs'
  <2>1. CASE SkipDone \/ QueueLock \/ QueueEinkLock \/ QueueUnlock
    BY <2>1 DEF SkipDone, QueueLock, QueueEinkLock, QueueUnlock,
                QueueFollowsPcs, QueueFull
  <2>2. CASE QueueWait \/ QueueWake \/ QueueRelock
    BY <2>2 DEF QueueWait, QueueWake, QueueRelock, QueueFollowsPcs, QueueFull
  <2>3. CASE QueueSignal
    BY <2>3 DEF QueueSignal, SignalLocked, QueueFollowsPcs, QueueFull
  <2>4. CASE QueuePush
    <3>1. /\ Len(composite_queue_') = Len(composite_queue_) + 1
          /\ composite_queue_' # <<>>
          /\ Len(composite_queue_) < MaxQueueDepth
      BY <2>4 DEF QueuePush, QueueFull, TypeOK
    <3>2. QED
      BY <2>4, <3>1 DEF QueuePush, QueueFollowsPcs, QueueFull, TypeOK
  <2>5. QED
    BY <1>2, <2>1, <2>2, <2>3, <2>4 DEF InQueueComposite
<1>3. ASSUME InRoutine PROVE QueueFollowsPcs'
  <2>1. CASE WorkerTop \/ WorkerLock \/ WorkerWait \/ WorkerWake
    BY <2>1 DEF WorkerTop, WorkerLock, WorkerWait, WorkerWake,
                QueueFollowsPcs, QueueFull
  <2>2. CASE WorkerReady \/ WorkerEinkLock \/ WorkerUnlock \/ WorkerAcquire
    BY <2>2 DEF WorkerReady, WorkerEinkLock, WorkerUnlock, WorkerAcquire,
                QueueFollowsPcs, QueueFull
  <2>3. CASE WorkerPop
    <3>1. /\ wpc = "pop" /\ wpc' = "unlock" /\ ppc' = ppc
          /\ spurious' = spurious
      BY <2>3 DEF WorkerPop
    <3>2. ppc \notin {"wait", "signal", "relock", "check"}
      BY <3>1 DEF LocksFollowPcs
    <3>3. CASE composite_queue_ = <<>>
      BY <2>3, <3>1, <3>2, <3>3
         DEF WorkerPop, QueueFollowsPcs, QueueFull, TypeOK
    <3>4. CASE composite_queue_ # <<>>
      <4>1. /\ Len(composite_queue_') = Len(composite_queue_) - 1
            /\ composite_queue_' \in Seq(Frame)
            /\ Len(composite_queue_) \in Nat
        <5>1. composite_queue_' = Tail(composite_queue_)
          BY <2>3, <3>4 DEF WorkerPop
        <5>2. composite_queue_ \in Seq(Frame)
          BY DEF TypeOK
        <5>3. QED
          BY <3>4, <5>1, <5>2, HeadTailProperties
      <4>2. MaxQueueDepth = 1 => Len(composite_queue_') = 0
        BY <3>4, <4>1 DEF QueueFollowsPcs, TypeOK
      <4>3. MaxQueueDepth = 1 => composite_queue_' = <<>>
        BY <4>1, <4>2, EmptySeq
      <4>4. QED
        BY <3>1, <3>2, <4>1, <4>3 DEF QueueFollowsPcs, QueueFull
    <3>5. QED
      BY <3>3, <3>4
  <2>4. CASE WorkerTimeout \/ WorkerConvert \/ WorkerFinish
    BY <2>4 DEF WorkerTimeout, WorkerConvert, WorkerFinish, QueueFollowsPcs,
                QueueFull
  <2>5. QED
    BY <1>3, <2>1, <2>2, <2>3, <2>4 DEF InRoutine
<1>4. CASE GpuDraw
  BY <1>4 DEF GpuDraw, QueueFollowsPcs, QueueFull
<1>5. CASE SpuriousWakeup
  BY <1>5 DEF SpuriousWakeup, QueueFollowsPcs, QueueFull, TypeOK
<1>6. CASE UNCHANGED vars
  BY <1>6 DEF vars, QueueFollowsPcs, QueueFull
<1>7. QED
  BY <1>1, <1>2, <1>3, <1>4, <1>5, <1>6 DEF Next, AllQuiet

-------------------------------------------------------------------------------
(* A frame keeps its buffer as long as its release fence has not signalled:
   the timeline may advance below it, and later calls only add jobs that
   wait for the fence of the buffer's last use. *)
LEMMA KeepsWhileUnsignalled ==
  ASSUME TypeOK,
         sync_value' \in Nat, timeline_' \in Nat, timeline_' >= timeline_,
         UNCHANGED <<owed, jobs, gpu_done, content>>
  PROVE  \A f \in Frame :
           KeepsBuffer(f) /\ f.release > sync_value' => KeepsBuffer(f)'
BY DEF KeepsBuffer, TypeOK, Frame

(* The GPU draws only into a buffer whose last release fence has signalled,
   so never into the buffer of a frame in the pipeline. *)
LEMMA KeepsWhileDrawing ==
  ASSUME TypeOK, GpuDraw
  PROVE  \A f \in Frame : KeepsBuffer(f) => KeepsBuffer(f)'
<1> SUFFICES ASSUME NEW f \in Frame, KeepsBuffer(f) PROVE KeepsBuffer(f)'
  OBVIOUS
<1> DEFINE job == jobs[gpu_done + 1]
<1>1. /\ gpu_done + 1 \in 1..Len(jobs) /\ gpu_done \in Nat
      /\ job \in [handle : Handles, after : Nat]
  <2>1. /\ gpu_done \in Nat /\ Len(jobs) \in Nat /\ gpu_done < Len(jobs)
        /\ jobs \in Seq([handle : Handles, after : Nat])
    BY DEF GpuDraw, TypeOK
  <2>2. gpu_done + 1 \in 1..Len(jobs)
    BY <2>1
  <2>3. QED
    BY <2>1, <2>2, ElementOfSeq
<1>2. job.after <= sync_value
  BY <1>1 DEF GpuDraw, GpuBlocked, TypeOK
<1>3. f.release \in Nat /\ f.id \in Nat /\ sync_value \in Nat
  BY DEF Frame, TypeOK
<1>4. job.handle = f.handle => ~(gpu_done + 1 > f.id)
  BY <1>1, <1>2, <1>3 DEF KeepsBuffer
<1>5. /\ content' = [content EXCEPT ![job.handle] = gpu_done + 1]
      /\ gpu_done' = gpu_done + 1
      /\ UNCHANGED <<jobs, sync_value, timeline_, owed>>
  BY DEF GpuDraw, timeline, producer
<1>6. f.id <= gpu_done' => content'[f.handle] = f.id
  <2> job.handle \in Handles /\ content \in [Handles -> Nat]
    BY <1>1 DEF TypeOK
  <2>1. CASE f.id = gpu_done + 1
    <3>1. job.handle = f.handle
      BY <2>1 DEF KeepsBuffer
    <3>2. QED
      BY <1>5, <2>1, <3>1
  <2>2. CASE f.id <= gpu_done
    <3>1. job.handle # f.handle
      BY <1>1, <1>3, <1>4, <2>2
    <3>2. content[f.handle] = f.id
      BY <2>2 DEF KeepsBuffer
    <3>3. QED
      BY <1>5, <3>1, <3>2
  <2>3. QED
    BY <1>1, <1>3, <1>5, <2>1, <2>2
<1>7. QED
  BY <1>5, <1>6 DEF KeepsBuffer

(* What hwc_set does to the jobs: at most one is added at the end, and it
   waits for the fence its buffer owes. *)
LEMMA JobsGrow ==
  ASSUME TypeOK, NEW h \in Handles, HwcSet(h)
  PROVE  /\ Len(jobs) \in Nat /\ Len(jobs') \in Len(jobs)..Len(jobs) + 1
         /\ \A k \in 1..Len(jobs) : jobs'[k] = jobs[k]
         /\ Len(jobs') = Len(jobs) + 1 =>
              jobs'[Len(jobs')] = [handle |-> h, after |-> owed[h]]
         /\ jobs'[Len(jobs')].handle = h
         /\ Len(jobs') = Len(jobs) => jobs' = jobs
         /\ Len(jobs') >= 1
         /\ gpu_done' = gpu_done /\ content' = content
<1>1. Len(jobs) \in Nat /\ jobs \in Seq([handle : Handles, after : Nat])
  BY DEF TypeOK
<1>2. CASE Render(h)
  <2> DEFINE job == [handle |-> h, after |-> owed[h]]
  <2>1. job \in [handle : Handles, after : Nat]
    BY DEF TypeOK
  <2>2. jobs' = Append(jobs, job) /\ gpu_done' = gpu_done /\ content' = content
    BY <1>2 DEF Render
  <2>3. /\ Len(jobs') = Len(jobs) + 1
        /\ jobs'[Len(jobs) + 1] = job
        /\ \A k \in 1..Len(jobs) : jobs'[k] = jobs[k]
    BY <1>1, <2>1, <2>2, AppendProperties
  <2>4. QED
    BY <1>1, <2>2, <2>3
<1>3. CASE h = Front /\ UNCHANGED gpu
  <2>1. jobs # <<>> /\ h = jobs[Len(jobs)].handle
    BY <1>3 DEF Front
  <2>2. Len(jobs) >= 1
    BY <1>1, <2>1, EmptySeq
  <2>3. QED
    BY <1>1, <1>3, <2>1, <2>2 DEF gpu
<1>4. QED
  BY <1>2, <1>3 DEF HwcSet

(* hwc_set leaves the frames in the pipeline their buffers: a new job for one
   of them waits for a fence at least as late, and the owed fences grow. *)
LEMMA KeepsWhileSetting ==
  ASSUME TypeOK, NEW h \in Handles, HwcSet(h)
  PROVE  \A f \in Frame : KeepsBuffer(f) => KeepsBuffer(f)'
<1> SUFFICES ASSUME NEW f \in Frame, KeepsBuffer(f) PROVE KeepsBuffer(f)'
  OBVIOUS
<1>1. f.release \in Nat /\ f.id \in Nat /\ f.id \in 1..Len(jobs)
  BY DEF Frame, KeepsBuffer
<1>2. /\ sync_value' = sync_value /\ timeline_ \in Nat
      /\ timeline_' \in Nat /\ timeline_' >= timeline_
      /\ owed' = owed \/ owed' = [owed EXCEPT ![h] = timeline_']
  BY DEF HwcSet, QueueNewHandle, QueueSameHandle, SkipFrame, TypeOK
<1>3. f.handle \in Handles /\ f.release <= owed[f.handle] /\ f.release <= timeline_
  BY DEF KeepsBuffer
<1>4. f.release <= owed'[f.handle]
  <2>1. owed'[f.handle] \in {owed[f.handle], timeline_'}
    BY <1>2, <1>3 DEF TypeOK
  <2>2. QED
    BY <1>1, <1>2, <1>3, <2>1
<1>5. jobs'[f.id].handle = f.handle /\ f.id \in 1..Len(jobs')
  <2>1. jobs[f.id].handle = f.handle
    BY DEF KeepsBuffer
  <2>2. \A k \in 1..Len(jobs) : jobs'[k] = jobs[k]
    BY JobsGrow
  <2>3. Len(jobs') \in Len(jobs)..Len(jobs) + 1 /\ Len(jobs) \in Nat
    BY JobsGrow
  <2>4. QED
    BY <1>1, <2>1, <2>2, <2>3
<1>6. ASSUME NEW k \in 1..Len(jobs'), k > f.id, jobs'[k].handle = f.handle
      PROVE  jobs'[k].after >= f.release
  <2>1. CASE k \in 1..Len(jobs)
    BY <1>6, <2>1, JobsGrow DEF KeepsBuffer
  <2>2. CASE k = Len(jobs) + 1
    <3>1. jobs'[k] = [handle |-> h, after |-> owed[h]]
      BY <2>2, JobsGrow
    <3>2. h = f.handle
      BY <1>6, <3>1
    <3>3. QED
      BY <1>3, <3>1, <3>2
  <2>3. Len(jobs') \in Len(jobs)..Len(jobs) + 1 /\ Len(jobs) \in Nat
    BY JobsGrow
  <2>4. QED
    BY <2>1, <2>2, <2>3
<1>7. f.id <= gpu_done' => content'[f.handle] = f.id
  BY JobsGrow DEF KeepsBuffer
<1>8. f.release > sync_value' /\ f.release <= timeline_'
  <2>1. sync_value \in Nat /\ f.release > sync_value
    BY DEF KeepsBuffer, TypeOK
  <2>2. QED
    BY <1>1, <1>2, <1>3, <2>1
<1>9. QED
  BY <1>3, <1>4, <1>5, <1>6, <1>7, <1>8 DEF KeepsBuffer

(* The frame QueueComposite builds keeps its buffer, and its release fence is
   later than every point handed out before. *)
LEMMA NewFrameKeeps ==
  ASSUME TypeOK, TypeOK', sync_value <= timeline_,
         gpu_done > 0 => content[jobs[gpu_done].handle] = gpu_done,
         NEW h \in Handles, HwcSet(h), QueueNewHandle(h)
  PROVE  /\ KeepsBuffer(pframe)'
         /\ pframe' # NoFrame
         /\ pframe'.release = timeline_ + 2
<1>1. /\ pframe' = [id |-> Len(jobs'), handle |-> h, release |-> timeline_ + 2]
      /\ timeline_' = timeline_ + 2 /\ owed'[h] = timeline_ + 2
      /\ sync_value' = sync_value /\ sync_value \in Nat /\ timeline_ \in Nat
  BY DEF HwcSet, QueueNewHandle, NewFrame, TypeOK
<1>2. pframe' # NoFrame
  BY <1>1 DEF NoFrame
<1>3. Len(jobs') \in Nat /\ Len(jobs') >= 1 /\ jobs'[Len(jobs')].handle = h
  <2>1. Len(jobs') \in Len(jobs)..Len(jobs) + 1 /\ Len(jobs) \in Nat
    BY JobsGrow
  <2>2. Len(jobs') >= 1
    BY JobsGrow
  <2>3. jobs'[Len(jobs')].handle = h
    BY JobsGrow
  <2>4. QED
    BY <2>1, <2>2, <2>3
<1>4. Len(jobs') <= gpu_done' => content'[h] = Len(jobs')
  <2> SUFFICES ASSUME Len(jobs') <= gpu_done' PROVE content'[h] = Len(jobs')
    OBVIOUS
  <2>1. gpu_done \in Nat /\ gpu_done <= Len(jobs)
    BY DEF TypeOK
  <2>2. gpu_done' = gpu_done /\ content' = content
    BY JobsGrow
  <2>3. Len(jobs') \in Len(jobs)..Len(jobs) + 1 /\ Len(jobs) \in Nat
    BY JobsGrow
  <2>4. gpu_done = Len(jobs') /\ Len(jobs') = Len(jobs)
    BY <2>1, <2>2, <2>3
  <2>5. jobs' = jobs
    BY <2>4, JobsGrow
  <2>6. QED
    BY <1>3, <2>1, <2>2, <2>4, <2>5
<1>5. QED
  BY <1>1, <1>2, <1>3, <1>4 DEF KeepsBuffer

(* A thread holds a composition exactly between building or popping it and
   pushing or finishing it. *)
LEMMA FramesStep ==
  TypeOK /\ FramesFollowPcs /\ [Next]_vars => FramesFollowPcs'
<1> SUFFICES ASSUME TypeOK, FramesFollowPcs, [Next]_vars PROVE FramesFollowPcs'
  OBVIOUS
<1> USE DEF locks, timeline, gpu, history, producer, worker
<1>1. ASSUME NEW h \in Handles, HwcSet(h) PROVE FramesFollowPcs'
  <2>1. /\ wframe' = wframe /\ wpc' = wpc /\ gpu_done' = gpu_done
        /\ ppc = "idle"
    BY <1>1, JobsGrow DEF HwcSet
  <2>2. CASE QueueNewHandle(h)
    <3>1. pframe' # NoFrame
      <4>1. pframe'.release = timeline_ + 2
        BY <2>2 DEF QueueNewHandle, NewFrame
      <4>2. QED
        BY <4>1 DEF NoFrame, TypeOK
    <3>2. QED
      BY <2>1, <2>2, <3>1 DEF QueueNewHandle, FramesFollowPcs
  <2>3. CASE QueueSameHandle(h) \/ SkipFrame
    BY <2>1, <2>3 DEF QueueSameHandle, SkipFrame, FramesFollowPcs
  <2>4. QED
    BY <1>1, <2>2, <2>3 DEF HwcSet
<1>2. ASSUME InQueueComposite PROVE FramesFollowPcs'
  <2>1. CASE SkipDone \/ QueueLock \/ QueueEinkLock \/ QueueUnlock
    BY <2>1 DEF SkipDone, QueueLock, QueueEinkLock, QueueUnlock,
                FramesFollowPcs
  <2>2. CASE QueueWait \/ QueueWake \/ QueueRelock
    BY <2>2 DEF QueueWait, QueueWake, QueueRelock, FramesFollowPcs
  <2>3. CASE QueuePush \/ QueueSignal
    BY <2>3 DEF QueuePush, QueueSignal, FramesFollowPcs
  <2>4. QED
    BY <1>2, <2>1, <2>2, <2>3 DEF InQueueComposite
<1>3. ASSUME InRoutine PROVE FramesFollowPcs'
  <2>1. CASE WorkerTop \/ WorkerLock \/ WorkerWait \/ WorkerWake
    BY <2>1 DEF WorkerTop, WorkerLock, WorkerWait, WorkerWake, FramesFollowPcs
  <2>2. CASE WorkerReady \/ WorkerEinkLock \/ WorkerUnlock \/ WorkerAcquire
    BY <2>2 DEF WorkerReady, WorkerEinkLock, WorkerUnlock, WorkerAcquire,
                FramesFollowPcs
  <2>3. CASE WorkerPop \/ WorkerTimeout
    BY <2>3 DEF WorkerPop, WorkerTimeout, FramesFollowPcs
  <2>4. CASE WorkerConvert \/ WorkerFinish
    BY <2>4 DEF WorkerConvert, WorkerFinish, FramesFollowPcs
  <2>5. QED
    BY <1>3, <2>1, <2>2, <2>3, <2>4 DEF InRoutine
<1>4. CASE GpuDraw
  <2>1. wframe.id <= gpu_done => wframe.id <= gpu_done'
    BY <1>4 DEF GpuDraw, TypeOK, Frame
  <2>2. QED
    BY <1>4, <2>1 DEF GpuDraw, FramesFollowPcs
<1>5. CASE SpuriousWakeup
  BY <1>5 DEF SpuriousWakeup, FramesFollowPcs
<1>6. CASE UNCHANGED vars
  BY <1>6 DEF vars, FramesFollowPcs
<1>7. QED
  BY <1>1, <1>2, <1>3, <1>4, <1>5, <1>6 DEF Next, AllQuiet

(* Nothing a frame's claim on its buffer depends on has changed. *)
LEMMA KeepsUnchanged ==
  ASSUME UNCHANGED <<sync_value, timeline_, owed, jobs, gpu_done, content>>
  PROVE  \A f \in Frame : KeepsBuffer(f) => KeepsBuffer(f)'
BY DEF KeepsBuffer

(* A step that moves no frame and changes no fence and no buffer. *)
LEMMA BuffersUnchanged ==
  ASSUME TypeOK, BuffersKept,
         UNCHANGED <<sync_value, timeline_, timeline_current_, owed, jobs,
                     gpu_done, content, pframe, wframe, composite_queue_>>
  PROVE  BuffersKept'
BY DEF BuffersKept, KeepsBuffer

(* The fences do their work: no step of any thread, of the GPU or of the
   timeline takes the buffer of a frame in the pipeline away. *)
LEMMA BuffersStep ==
  ASSUME TypeOK, TypeOK', LocksFollowPcs, FramesFollowPcs, BuffersKept,
         ReleasesInOrder, [Next]_vars
  PROVE  BuffersKept'
<1> USE DEF locks, timeline, gpu, history, producer, worker
<1>1. /\ pframe \in Frame /\ wframe \in Frame
      /\ Len(composite_queue_) \in Nat /\ composite_queue_ \in Seq(Frame)
      /\ \A i \in 1..Len(composite_queue_) : composite_queue_[i] \in Frame
      /\ sync_value \in Nat /\ timeline_ \in Nat
  <2>1. composite_queue_ \in Seq(Frame)
    BY DEF TypeOK
  <2>2. Len(composite_queue_) \in Nat
    BY <2>1
  <2>3. \A i \in 1..Len(composite_queue_) : composite_queue_[i] \in Frame
    BY <2>1, ElementOfSeq
  <2>4. QED
    BY <2>1, <2>2, <2>3 DEF TypeOK
<1>2. ASSUME NEW h \in Handles, HwcSet(h) PROVE BuffersKept'
  <2>1. /\ wframe' = wframe /\ composite_queue_' = composite_queue_
        /\ sync_value' = sync_value /\ timeline_current_' = timeline_current_
        /\ gpu_done' = gpu_done /\ content' = content
    BY <1>2, JobsGrow DEF HwcSet
  <2>2. \A f \in Frame : KeepsBuffer(f) => KeepsBuffer(f)'
    BY <1>2, KeepsWhileSetting
  <2>3. sync_value' <= timeline_'
    BY <1>1, <1>2, <2>1 DEF BuffersKept, HwcSet, QueueNewHandle,
                            QueueSameHandle, SkipFrame
  <2>4. gpu_done > 0 => jobs'[gpu_done] = jobs[gpu_done]
    <3>1. gpu_done \in 0..Len(jobs)
      BY DEF TypeOK
    <3>2. Len(jobs) \in Nat /\ \A k \in 1..Len(jobs) : jobs'[k] = jobs[k]
      BY <1>2, JobsGrow
    <3>3. QED
      BY <3>1, <3>2
  <2>5. pframe' # NoFrame => KeepsBuffer(pframe)'
    <3>1. CASE QueueNewHandle(h)
      BY <1>2, <3>1, NewFrameKeeps DEF BuffersKept
    <3>2. CASE QueueSameHandle(h) \/ SkipFrame
      BY <1>1, <2>2, <3>2 DEF QueueSameHandle, SkipFrame, BuffersKept
    <3>3. QED
      BY <1>2, <3>1, <3>2 DEF HwcSet
  <2>6. wframe' # NoFrame => KeepsBuffer(wframe)'
    BY <1>1, <2>1, <2>2 DEF BuffersKept
  <2>7. \A i \in 1..Len(composite_queue_') : KeepsBuffer(composite_queue_[i])'
    BY <1>1, <2>1, <2>2 DEF BuffersKept
  <2>8. QED
    BY <2>1, <2>3, <2>4, <2>5, <2>6, <2>7 DEF BuffersKept
<1>3. ASSUME InQueueComposite PROVE BuffersKept'
  <2>1. CASE SkipDone \/ QueueLock \/ QueueEinkLock \/ QueueUnlock
    BY <2>1, BuffersUnchanged
       DEF SkipDone, QueueLock, QueueEinkLock, QueueUnlock
  <2>2. CASE QueueWait \/ QueueWake \/ QueueRelock \/ QueueSignal
    BY <2>2, BuffersUnchanged
       DEF QueueWait, QueueWake, QueueRelock, QueueSignal
  <2>3. CASE QueuePush
    <3>1. /\ composite_queue_' = Append(composite_queue_, pframe)
          /\ pframe # NoFrame /\ pframe' = NoFrame /\ wframe' = wframe
          /\ UNCHANGED <<sync_value, timeline_, timeline_current_, owed, jobs,
                         gpu_done, content>>
      BY <2>3 DEF QueuePush, FramesFollowPcs
    <3>2. \A f \in Frame : KeepsBuffer(f) => KeepsBuffer(f)'
      BY <3>1, KeepsUnchanged
    <3>3. ASSUME NEW i \in 1..Len(composite_queue_')
          PROVE  KeepsBuffer(composite_queue_[i])'
      <4>1. composite_queue_'[i] \in Frame /\ KeepsBuffer(composite_queue_'[i])
        BY <1>1, <3>1 DEF BuffersKept
      <4>2. QED
        BY <3>2, <4>1
    <3>4. wframe' # NoFrame => KeepsBuffer(wframe)'
      BY <1>1, <3>1, <3>2 DEF BuffersKept
    <3>5. QED
      BY <3>1, <3>3, <3>4 DEF BuffersKept
  <2>4. QED
    BY <1>3, <2>1, <2>2, <2>3 DEF InQueueComposite
<1>4. ASSUME InRoutine PROVE BuffersKept'
  <2>1. CASE WorkerTop \/ WorkerLock \/ WorkerWait \/ WorkerWake
    BY <2>1, BuffersUnchanged DEF WorkerTop, WorkerLock, WorkerWait, WorkerWake
  <2>2. CASE WorkerReady \/ WorkerEinkLock \/ WorkerUnlock
    BY <2>2, BuffersUnchanged DEF WorkerReady, WorkerEinkLock, WorkerUnlock
  <2>3. CASE WorkerAcquire \/ WorkerConvert
    BY <2>3, BuffersUnchanged DEF WorkerAcquire, WorkerConvert
  <2>4. CASE WorkerPop
    <3>1. UNCHANGED <<sync_value, timeline_, timeline_current_, owed, jobs,
                      gpu_done, content, pframe>>
      BY <2>4 DEF WorkerPop
    <3>2. \A f \in Frame : KeepsBuffer(f) => KeepsBuffer(f)'
      BY <3>1, KeepsUnchanged
    <3>3. CASE composite_queue_ = <<>>
      BY <2>4, <3>1, <3>3, BuffersUnchanged DEF WorkerPop
    <3>4. CASE composite_queue_ # <<>>
      <4>1. /\ wframe' = composite_queue_[1] /\ 1 \in 1..Len(composite_queue_)
            /\ composite_queue_' = Tail(composite_queue_)
        BY <1>1, <2>4, <3>4, EmptySeq DEF WorkerPop
      <4>2. KeepsBuffer(wframe)'
        BY <1>1, <3>2, <4>1 DEF BuffersKept
      <4>3. ASSUME NEW i \in 1..Len(composite_queue_')
            PROVE  KeepsBuffer(composite_queue_[i])'
        <5>1. /\ i + 1 \in 1..Len(composite_queue_)
              /\ composite_queue_'[i] = composite_queue_[i + 1]
          BY <1>1, <3>4, <4>1, HeadTailProperties
        <5>2. QED
          BY <1>1, <3>2, <5>1 DEF BuffersKept
      <4>4. pframe' # NoFrame => KeepsBuffer(pframe)'
        BY <1>1, <3>1, <3>2 DEF BuffersKept
      <4>5. QED
        BY <3>1, <4>2, <4>3, <4>4 DEF BuffersKept
    <3>5. QED
      BY <3>3, <3>4
  <2>5. CASE WorkerTimeout
    <3>1. /\ UNCHANGED <<sync_value, timeline_, timeline_current_, owed, jobs,
                         gpu_done, content, pframe, composite_queue_>>
          /\ wframe' = NoFrame
      BY <2>5 DEF WorkerTimeout
    <3>2. \A f \in Frame : KeepsBuffer(f) => KeepsBuffer(f)'
      BY <3>1, KeepsUnchanged
    <3>3. QED
      BY <1>1, <3>1, <3>2 DEF BuffersKept
  <2>6. CASE WorkerFinish
    <3>1. /\ UNCHANGED <<timeline_, owed, jobs, gpu_done, content, pframe,
                         composite_queue_>>
          /\ wframe' = NoFrame /\ wframe # NoFrame
      BY <2>6 DEF WorkerFinish, FramesFollowPcs
    <3>2. /\ wframe.release \in Nat /\ wframe.release <= timeline_
          /\ timeline_current_ = sync_value /\ sync_value <= timeline_
      BY <1>1, <3>1 DEF BuffersKept, KeepsBuffer, Frame
    <3>3. /\ sync_value' \in {sync_value, wframe.release}
          /\ sync_value' = timeline_current_' /\ sync_value' <= timeline_'
      BY <1>1, <2>6, <3>1, <3>2
         DEF WorkerFinish, FinishComposition, TimelineInc
    <3>4. \A f \in Frame :
            KeepsBuffer(f) /\ wframe.release < f.release => KeepsBuffer(f)'
      <4>1. \A f \in Frame :
              KeepsBuffer(f) /\ f.release > sync_value' => KeepsBuffer(f)'
        <5>1. sync_value' \in Nat /\ timeline_' \in Nat /\ timeline_' >= timeline_
          BY <1>1, <3>1 DEF TypeOK
        <5>2. QED
          BY <1>1, <3>1, <5>1, KeepsWhileUnsignalled
      <4>2. ASSUME NEW f \in Frame, KeepsBuffer(f), wframe.release < f.release
            PROVE  f.release > sync_value'
        BY <1>1, <3>2, <3>3, <4>2 DEF KeepsBuffer, Frame
      <4>3. QED
        BY <4>1, <4>2
    <3>5. \A i \in 1..Len(composite_queue_') : KeepsBuffer(composite_queue_[i])'
      BY <1>1, <3>1, <3>4 DEF BuffersKept, ReleasesInOrder
    <3>6. pframe' # NoFrame => KeepsBuffer(pframe)'
      BY <1>1, <3>1, <3>4 DEF BuffersKept, ReleasesInOrder
    <3>7. QED
      BY <3>1, <3>3, <3>5, <3>6 DEF BuffersKept
  <2>7. QED
    BY <1>4, <2>1, <2>2, <2>3, <2>4, <2>5, <2>6 DEF InRoutine
<1>5. CASE GpuDraw
  <2>1. \A f \in Frame : KeepsBuffer(f) => KeepsBuffer(f)'
    BY <1>5, KeepsWhileDrawing
  <2>2. /\ UNCHANGED <<sync_value, timeline_, timeline_current_, jobs, pframe,
                       wframe, composite_queue_>>
        /\ gpu_done' = gpu_done + 1
        /\ content' = [content EXCEPT ![jobs[gpu_done'].handle] = gpu_done']
    BY <1>5 DEF GpuDraw
  <2>3. content'[jobs'[gpu_done'].handle] = gpu_done'
    <3>1. gpu_done' \in 1..Len(jobs')
      BY <2>2 DEF TypeOK
    <3>2. jobs'[gpu_done'] \in [handle : Handles, after : Nat]
      BY <3>1, ElementOfSeq DEF TypeOK
    <3>3. QED
      BY <2>2, <3>2 DEF TypeOK
  <2>4. QED
    BY <1>1, <2>1, <2>2, <2>3 DEF BuffersKept
<1>6. CASE SpuriousWakeup
  BY <1>6, BuffersUnchanged DEF SpuriousWakeup
<1>7. CASE UNCHANGED vars
  BY <1>7, BuffersUnchanged DEF vars
<1>8. QED
  BY <1>2, <1>3, <1>4, <1>5, <1>6, <1>7 DEF Next, AllQuiet

(* Frames enter the pipeline with later and later release points and leave it
   in that order, so the timeline can be advanced to each of them in turn. *)
LEMMA OrderStep ==
  ASSUME TypeOK, TypeOK', FramesFollowPcs, BuffersKept, ReleasesInOrder,
         [Next]_vars
  PROVE  ReleasesInOrder'
<1> USE DEF locks, timeline, gpu, history, producer, worker
<1>1. /\ Len(composite_queue_) \in Nat /\ composite_queue_ \in Seq(Frame)
      /\ timeline_ \in Nat /\ wframe.release \in Nat /\ pframe.release \in Nat
      /\ NoFrame.release = 0
  <2>1. Len(composite_queue_) \in Nat /\ composite_queue_ \in Seq(Frame)
    BY DEF TypeOK
  <2>2. wframe.release \in Nat /\ pframe.release \in Nat /\ timeline_ \in Nat
    BY DEF TypeOK, Frame
  <2>3. QED
    BY <2>1, <2>2 DEF NoFrame
<1>2. /\ \A i \in 1..Len(composite_queue_) :
           /\ composite_queue_[i].release \in Nat
           /\ composite_queue_[i].release <= timeline_
           /\ composite_queue_[i].release > 0
      /\ wframe # NoFrame => wframe.release <= timeline_
      /\ pframe # NoFrame => pframe.release > 0
  <2>1. sync_value \in Nat
    BY DEF TypeOK
  <2>2. \A i \in 1..Len(composite_queue_) : composite_queue_[i] \in Frame
    BY <1>1, ElementOfSeq
  <2>3. QED
    BY <1>1, <2>1, <2>2 DEF BuffersKept, KeepsBuffer, Frame
<1>3. ASSUME NEW h \in Handles, HwcSet(h) PROVE ReleasesInOrder'
  <2>1. wframe' = wframe /\ composite_queue_' = composite_queue_
    BY <1>3 DEF HwcSet
  <2>2. CASE QueueNewHandle(h)
    <3>1. pframe'.release = timeline_ + 2
      BY <2>2 DEF QueueNewHandle, NewFrame
    <3>2. wframe.release <= timeline_
      BY <1>1, <1>2
    <3>3. QED
      BY <1>1, <1>2, <2>1, <3>1, <3>2 DEF ReleasesInOrder
  <2>3. CASE QueueSameHandle(h) \/ SkipFrame
    BY <2>1, <2>3 DEF QueueSameHandle, SkipFrame, ReleasesInOrder
  <2>4. QED
    BY <1>3, <2>2, <2>3 DEF HwcSet
<1>4. ASSUME InQueueComposite PROVE ReleasesInOrder'
  <2>1. CASE SkipDone \/ QueueLock \/ QueueEinkLock \/ QueueUnlock
    BY <2>1 DEF SkipDone, QueueLock, QueueEinkLock, QueueUnlock,
                ReleasesInOrder
  <2>2. CASE QueueWait \/ QueueWake \/ QueueRelock \/ QueueSignal
    BY <2>2 DEF QueueWait, QueueWake, QueueRelock, QueueSignal,
                ReleasesInOrder
  <2>3. CASE QueuePush
    <3>1. /\ composite_queue_' = Append(composite_queue_, pframe)
          /\ pframe # NoFrame /\ pframe' = NoFrame /\ wframe' = wframe
          /\ pframe \in Frame
      BY <2>3 DEF QueuePush, FramesFollowPcs, TypeOK
    <3>2. /\ Len(composite_queue_') = Len(composite_queue_) + 1
          /\ \A i \in 1..Len(composite_queue_) :
               composite_queue_'[i] = composite_queue_[i]
          /\ composite_queue_'[Len(composite_queue_) + 1] = pframe
      BY <1>1, <3>1, AppendProperties
    <3>3. QED
      BY <1>1, <3>1, <3>2 DEF ReleasesInOrder
  <2>4. QED
    BY <1>4, <2>1, <2>2, <2>3 DEF InQueueComposite
<1>5. ASSUME InRoutine PROVE ReleasesInOrder'
  <2>1. CASE WorkerTop \/ WorkerLock \/ WorkerWait \/ WorkerWake
    BY <2>1 DEF WorkerTop, WorkerLock, WorkerWait, WorkerWake, ReleasesInOrder
  <2>2. CASE WorkerReady \/ WorkerEinkLock \/ WorkerUnlock
    BY <2>2 DEF WorkerReady, WorkerEinkLock, WorkerUnlock, ReleasesInOrder
  <2>3. CASE WorkerAcquire \/ WorkerConvert
    BY <2>3 DEF WorkerAcquire, WorkerConvert, ReleasesInOrder
  <2>4. CASE WorkerPop
    <3>1. CASE composite_queue_ = <<>>
      BY <2>4, <3>1 DEF WorkerPop, ReleasesInOrder
    <3>2. CASE composite_queue_ # <<>>
      <4>1. /\ wframe' = composite_queue_[1] /\ 1 \in 1..Len(composite_queue_)
            /\ composite_queue_' = Tail(composite_queue_)
            /\ pframe' = pframe
        BY <1>1, <2>4, <3>2, EmptySeq DEF WorkerPop
      <4>2. /\ Len(composite_queue_') = Len(composite_queue_) - 1
            /\ \A i \in 1..Len(composite_queue_') :
                 composite_queue_'[i] = composite_queue_[i + 1]
        BY <1>1, <3>2, <4>1, HeadTailProperties
      <4>3. QED
        BY <1>1, <4>1, <4>2 DEF ReleasesInOrder
    <3>3. QED
      BY <3>1, <3>2
  <2>5. CASE WorkerTimeout \/ WorkerFinish
    <3>1. /\ wframe' = NoFrame /\ pframe' = pframe
          /\ composite_queue_' = composite_queue_
      BY <2>5 DEF WorkerTimeout, WorkerFinish
    <3>2. QED
      BY <1>1, <1>2, <3>1 DEF ReleasesInOrder
  <2>6. QED
    BY <1>5, <2>1, <2>2, <2>3, <2>4, <2>5 DEF InRoutine
<1>6. CASE GpuDraw
  BY <1>6 DEF GpuDraw, ReleasesInOrder
<1>7. CASE SpuriousWakeup
  BY <1>7 DEF SpuriousWakeup, ReleasesInOrder
<1>8. CASE UNCHANGED vars
  BY <1>8 DEF vars, ReleasesInOrder
<1>9. QED
  BY <1>3, <1>4, <1>5, <1>6, <1>7, <1>8 DEF Next, AllQuiet

(* What owed fences wait for does not change when no fence and no frame does. *)
LEMMA OwedUnchanged ==
  ASSUME OwedAccounted,
         UNCHANGED <<sync_value, timeline_, owed, dropped>>,
         HeldFrames' = HeldFrames
  PROVE  OwedAccounted'
BY DEF OwedAccounted

(* Every fence SurfaceFlinger holds is accounted for: signalled, waiting for
   a frame on its way, or left to the next frame that finishes. *)
LEMMA OwedStep ==
  ASSUME TypeOK, TypeOK', FramesFollowPcs, BuffersKept, ReleasesInOrder,
         OwedAccounted, [Next]_vars
  PROVE  OwedAccounted'
<1> USE DEF locks, timeline, gpu, history, producer, worker
<1>1. /\ Len(composite_queue_) \in Nat /\ composite_queue_ \in Seq(Frame)
      /\ sync_value \in Nat /\ timeline_ \in Nat /\ owed \in [Handles -> Nat]
      /\ \A f \in HeldFrames : f.release \in Nat
  <2>1. \A i \in 1..Len(composite_queue_) : composite_queue_[i] \in Frame
    BY ElementOfSeq DEF TypeOK
  <2>2. \A f \in HeldFrames : f.release \in Nat
    BY <2>1 DEF HeldFrames, TypeOK, Frame
  <2>3. Len(composite_queue_) \in Nat /\ composite_queue_ \in Seq(Frame)
    BY DEF TypeOK
  <2>4. QED
    BY <2>2, <2>3 DEF TypeOK
<1>2. ASSUME NEW h \in Handles, HwcSet(h) PROVE OwedAccounted'
  <2>1. /\ wframe' = wframe /\ composite_queue_' = composite_queue_
        /\ sync_value' = sync_value /\ dropped' = dropped
    BY <1>2 DEF HwcSet
  <2>2. CASE QueueNewHandle(h)
    <3>1. /\ timeline_' = timeline_ + 2 /\ pframe'.release = timeline_ + 2
          /\ owed' = [owed EXCEPT ![h] = timeline_ + 2]
          /\ pframe' # NoFrame /\ pframe = NoFrame
      <4>1. ppc = "idle"
        BY <1>2 DEF HwcSet
      <4>2. pframe = NoFrame
        BY <4>1 DEF FramesFollowPcs
      <4>3. /\ timeline_' = timeline_ + 2 /\ pframe'.release = timeline_ + 2
            /\ owed' = [owed EXCEPT ![h] = timeline_ + 2]
        BY <2>2 DEF QueueNewHandle, NewFrame
      <4>4. QED
        BY <1>1, <4>2, <4>3 DEF NoFrame
    <3>2. HeldFrames' = HeldFrames \cup {pframe'}
      BY <2>1, <3>1 DEF HeldFrames
    <3>3. ASSUME NEW g \in Handles
          PROVE  /\ owed'[g] <= timeline_'
                 /\ \/ owed'[g] <= sync_value'
                    \/ \E f \in HeldFrames' : f.release = owed'[g]
                    \/ dropped' /\ \A f \in HeldFrames' : owed'[g] < f.release
      <4>1. CASE g = h
        <5>1. owed'[g] = timeline_ + 2
          BY <1>1, <3>1, <4>1
        <5>2. QED
          BY <1>1, <3>1, <3>2, <5>1
      <4>2. CASE g # h
        <5>1. owed'[g] = owed[g] /\ owed[g] \in Nat /\ owed[g] <= timeline_
          BY <1>1, <3>1, <4>2 DEF OwedAccounted
        <5>2. owed[g] < pframe'.release
          BY <1>1, <3>1, <5>1
        <5>3. owed'[g] <= timeline_'
          BY <1>1, <3>1, <5>1
        <5>4. QED
          BY <2>1, <3>2, <5>1, <5>2, <5>3 DEF OwedAccounted
      <4>3. QED
        BY <4>1, <4>2
    <3>4. QED
      BY <3>3 DEF OwedAccounted
  <2>3. CASE QueueSameHandle(h) \/ SkipFrame
    <3>1. /\ owed' = owed /\ pframe' = pframe
          /\ timeline_' \in {timeline_, timeline_ + 1}
      BY <2>3 DEF QueueSameHandle, SkipFrame
    <3>2. HeldFrames' = HeldFrames
      BY <2>1, <3>1 DEF HeldFrames
    <3>3. \A g \in Handles : owed'[g] <= timeline_'
      BY <1>1, <3>1 DEF OwedAccounted
    <3>4. QED
      BY <2>1, <3>1, <3>2, <3>3 DEF OwedAccounted
  <2>4. QED
    BY <1>2, <2>2, <2>3 DEF HwcSet
<1>3. ASSUME InQueueComposite PROVE OwedAccounted'
  <2>1. UNCHANGED <<sync_value, timeline_, owed, dropped>>
    BY <1>3 DEF InQueueComposite, SkipDone, QueueLock, QueueEinkLock,
                QueueUnlock, QueueWait, QueueWake, QueueRelock, QueuePush,
                QueueSignal
  <2>2. CASE QueuePush
    <3>1. /\ composite_queue_' = Append(composite_queue_, pframe)
          /\ pframe # NoFrame /\ pframe' = NoFrame /\ wframe' = wframe
          /\ pframe \in Frame
      BY <2>2 DEF QueuePush, FramesFollowPcs, TypeOK
    <3>2. /\ Len(composite_queue_') = Len(composite_queue_) + 1
          /\ \A i \in 1..Len(composite_queue_) :
               composite_queue_'[i] = composite_queue_[i]
          /\ composite_queue_'[Len(composite_queue_) + 1] = pframe
      BY <1>1, <3>1, AppendProperties
    <3>3. HeldFrames' = HeldFrames
      BY <1>1, <3>1, <3>2 DEF HeldFrames
    <3>4. QED
      BY <2>1, <3>3, OwedUnchanged
  <2>3. CASE ~QueuePush
    <3>1. UNCHANGED <<pframe, wframe, composite_queue_>>
      BY <1>3, <2>3 DEF InQueueComposite, SkipDone, QueueLock, QueueEinkLock,
                        QueueUnlock, QueueWait, QueueWake, QueueRelock,
                        QueueSignal
    <3>2. QED
      BY <2>1, <3>1, OwedUnchanged DEF HeldFrames
  <2>4. QED
    BY <2>2, <2>3
<1>4. ASSUME InRoutine PROVE OwedAccounted'
  <2>1. CASE WorkerTop \/ WorkerLock \/ WorkerWait \/ WorkerWake
    BY <2>1, OwedUnchanged
       DEF WorkerTop, WorkerLock, WorkerWait, WorkerWake, HeldFrames
  <2>2. CASE WorkerReady \/ WorkerEinkLock \/ WorkerUnlock
    BY <2>2, OwedUnchanged
       DEF WorkerReady, WorkerEinkLock, WorkerUnlock, HeldFrames
  <2>3. CASE WorkerAcquire \/ WorkerConvert
    BY <2>3, OwedUnchanged DEF WorkerAcquire, WorkerConvert, HeldFrames
  <2>4. CASE WorkerPop
    <3>1. UNCHANGED <<sync_value, timeline_, owed, dropped, pframe>>
      BY <2>4 DEF WorkerPop
    <3>2. CASE composite_queue_ = <<>>
      BY <2>4, <3>1, <3>2, OwedUnchanged DEF WorkerPop, HeldFrames
    <3>3. CASE composite_queue_ # <<>>
      <4>1. /\ wframe' = composite_queue_[1] /\ 1 \in 1..Len(composite_queue_)
            /\ composite_queue_' = Tail(composite_queue_)
            /\ wframe = NoFrame
        BY <1>1, <2>4, <3>3, EmptySeq DEF WorkerPop, FramesFollowPcs
      <4>2. /\ Len(composite_queue_') = Len(composite_queue_) - 1
            /\ \A i \in 1..Len(composite_queue_') :
                 composite_queue_'[i] = composite_queue_[i + 1]
        BY <1>1, <3>3, <4>1, HeadTailProperties
      <4>3. wframe' # NoFrame
        <5>1. composite_queue_[1].release > sync_value
          BY <4>1 DEF BuffersKept, KeepsBuffer
        <5>2. QED
          BY <1>1, <4>1, <5>1 DEF NoFrame
      <4>4. \A i \in 1..Len(composite_queue_) :
              i = 1 \/ i - 1 \in 1..Len(composite_queue_')
        BY <1>1, <4>1, <4>2
      <4>5. \A i \in 1..Len(composite_queue_') :
              i + 1 \in 1..Len(composite_queue_)
        BY <1>1, <4>2
      <4>6. HeldFrames \subseteq HeldFrames'
        BY <3>1, <4>1, <4>2, <4>3, <4>4 DEF HeldFrames
      <4>7. HeldFrames' \subseteq HeldFrames
        BY <3>1, <4>1, <4>2, <4>5 DEF HeldFrames
      <4>8. QED
        BY <3>1, <4>6, <4>7, OwedUnchanged
    <3>4. QED
      BY <3>2, <3>3
  <2>5. CASE WorkerTimeout \/ WorkerFinish
    <3>1. /\ UNCHANGED <<timeline_, owed, pframe, composite_queue_>>
          /\ wframe' = NoFrame /\ wframe # NoFrame
      BY <2>5 DEF WorkerTimeout, WorkerFinish, FramesFollowPcs
    <3>2. /\ \A f \in HeldFrames : f = wframe \/ f \in HeldFrames'
          /\ \A f \in HeldFrames' : wframe.release < f.release
          /\ HeldFrames' \subseteq HeldFrames /\ wframe \in HeldFrames
      BY <3>1 DEF HeldFrames, ReleasesInOrder
    <3>3. /\ wframe.release > sync_value /\ timeline_current_ = sync_value
          /\ wframe.release \in Nat
      BY <3>1 DEF BuffersKept, KeepsBuffer, TypeOK, Frame
    <3>4. \/ sync_value' = sync_value /\ dropped' = TRUE
          \/ sync_value' = wframe.release
      BY <1>1, <2>5, <3>3
         DEF WorkerTimeout, WorkerFinish, FinishComposition, TimelineInc
    <3>5. ASSUME NEW g \in Handles
          PROVE  \/ owed[g] <= sync_value'
                 \/ \E f \in HeldFrames' : f.release = owed[g]
                 \/ dropped' /\ \A f \in HeldFrames' : owed[g] < f.release
      <4>0. owed[g] \in Nat
        BY <1>1
      <4>1. CASE owed[g] <= sync_value
        BY <1>1, <3>3, <3>4, <4>0, <4>1
      <4>2. CASE \E f \in HeldFrames : f.release = owed[g]
        <5>1. PICK f \in HeldFrames : f.release = owed[g]
          BY <4>2
        <5>2. CASE f = wframe
          <6>1. owed[g] = wframe.release
            BY <5>1, <5>2
          <6>2. CASE dropped' = TRUE
            BY <3>2, <6>1, <6>2
          <6>3. CASE sync_value' = wframe.release
            BY <3>3, <6>1, <6>3
          <6>4. QED
            BY <3>4, <6>2, <6>3
        <5>3. CASE f # wframe
          BY <3>2, <5>1, <5>3
        <5>4. QED
          BY <5>2, <5>3
      <4>3. CASE dropped /\ \A f \in HeldFrames : owed[g] < f.release
        <5>1. owed[g] < wframe.release /\ \A f \in HeldFrames' : owed[g] < f.release
          BY <3>2, <4>3
        <5>2. CASE dropped' = TRUE
          BY <5>1, <5>2
        <5>3. CASE sync_value' = wframe.release
          BY <3>3, <4>0, <5>1, <5>3
        <5>4. QED
          BY <3>4, <5>2, <5>3
      <4>4. QED
        BY <4>1, <4>2, <4>3 DEF OwedAccounted
    <3>6. QED
      BY <3>1, <3>5 DEF OwedAccounted
  <2>6. QED
    BY <1>4, <2>1, <2>2, <2>3, <2>4, <2>5 DEF InRoutine
<1>5. CASE GpuDraw
  BY <1>5, OwedUnchanged DEF GpuDraw, HeldFrames
<1>6. CASE SpuriousWakeup
  BY <1>6, OwedUnchanged DEF SpuriousWakeup, HeldFrames
<1>7. CASE UNCHANGED vars
  BY <1>7, OwedUnchanged DEF vars, HeldFrames
<1>8. QED
  BY <1>2, <1>3, <1>4, <1>5, <1>6, <1>7 DEF Next, AllQuiet
-------------------------------------------------------------------------------
(* The inductive invariant holds in every reachable state. *)
THEOREM Invariance == Spec => []Inv
<1>1. Init => Inv
  <2> SUFFICES ASSUME Init PROVE Inv
    OBVIOUS
  <2> USE DEF Init, Free, SF, Thread, NoFrame
  <2>1. LocksFollowPcs
    BY DEF LocksFollowPcs
  <2>2. QueueFollowsPcs
    BY DEF QueueFollowsPcs, QueueFull
  <2>3. FramesFollowPcs
    BY DEF FramesFollowPcs
  <2>4. BuffersKept
    BY DEF BuffersKept
  <2>5. ReleasesInOrder
    BY DEF ReleasesInOrder
  <2>6. OwedAccounted
    <3>1. timeline_ = 0 /\ sync_value = 0
      BY Zenon
    <3>2. ASSUME NEW h \in Handles PROVE owed[h] = 0
      OBVIOUS
    <3>3. 0 <= 0
      OBVIOUS
    <3>4. \A h \in Handles : owed[h] <= timeline_ /\ owed[h] <= sync_value
      BY <3>1, <3>2, <3>3, Zenon
    <3>5. QED
      BY <3>4, Zenon DEF OwedAccounted
  <2>7. TypeOK
    BY TypeInit
  <2>8. QED
    BY <2>1, <2>2, <2>3, <2>4, <2>5, <2>6, <2>7 DEF Inv
<1>2. Inv /\ [Next]_vars => Inv'
  <2> SUFFICES ASSUME Inv, [Next]_vars PROVE Inv'
    OBVIOUS
  <2>1. TypeOK'
    BY TypeStep DEF Inv
  <2>2. LocksFollowPcs' /\ QueueFollowsPcs' /\ FramesFollowPcs'
    BY LocksStep, QueueStep, FramesStep DEF Inv
  <2>3. BuffersKept' /\ ReleasesInOrder' /\ OwedAccounted'
    BY <2>1, BuffersStep, OrderStep, OwedStep DEF Inv
  <2>4. QED
    BY <2>1, <2>2, <2>3 DEF Inv
<1>3. QED
  BY <1>1, <1>2, PTL DEF Spec

(* The types hold. *)
THEOREM TypeInvariant == Spec => []TypeOK
<1>1. Inv => TypeOK
  BY DEF Inv
<1>2. QED
  BY <1>1, Invariance, PTL

(* While the worker converts a frame the GPU cannot have drawn another picture
   into its buffer: the release fence has not signalled. *)
THEOREM BuffersStable == Spec => []BufferStable
<1>1. Inv => BufferStable
  BY DEF Inv, BufferStable, FramesFollowPcs, BuffersKept, KeepsBuffer
<1>2. QED
  BY <1>1, Invariance, PTL

(* pthread_cond_signal is called whenever the state a thread waits for may
   have come true; the worker misses no frame, the producer no free slot. *)
THEOREM SignalsReachWaiters == Spec => []NoLostWakeup
<1>1. Inv /\ NoLostWakeup /\ [Next]_vars => NoLostWakeup'
  <2> SUFFICES ASSUME Inv, NoLostWakeup, [Next]_vars PROVE NoLostWakeup'
    OBVIOUS
  <2> USE DEF locks, timeline, gpu, history, producer, worker, Free, SF, Thread
  <2>1. CASE \E h \in Handles : HwcSet(h)
    BY <2>1 DEF HwcSet, NoLostWakeup, QueueFull, Inv, LocksFollowPcs,
                QueueFollowsPcs, QueueNewHandle, QueueSameHandle, SkipFrame
  <2>2. CASE InQueueComposite
    <3>1. CASE QueuePush
      <4>1. SF \notin eink_queue_cond_'
        BY <3>1 DEF QueuePush, Inv, LocksFollowPcs
      <4>2. QED
        BY <3>1, <4>1 DEF QueuePush, NoLostWakeup
    <3>2. CASE QueueWait
      BY <3>2 DEF QueueWait, NoLostWakeup, QueueFull, Inv, QueueFollowsPcs
    <3>3. CASE QueueSignal
      BY <3>3 DEF QueueSignal, SignalLocked, NoLostWakeup, QueueFull
    <3>4. CASE SkipDone \/ QueueLock \/ QueueEinkLock \/ QueueUnlock
      BY <3>4 DEF SkipDone, QueueLock, QueueEinkLock, QueueUnlock,
                  NoLostWakeup, QueueFull
    <3>5. CASE QueueWake \/ QueueRelock
      BY <3>5 DEF QueueWake, QueueRelock, NoLostWakeup, QueueFull
    <3>6. QED
      BY <2>2, <3>1, <3>2, <3>3, <3>4, <3>5 DEF InQueueComposite
  <2>3. CASE InRoutine
    <3>1. CASE WorkerPop
      <4>1. Thread \notin cond_'
        BY <3>1 DEF WorkerPop, Inv, LocksFollowPcs
      <4>2. CASE composite_queue_ # <<>>
        BY <3>1, <4>1, <4>2 DEF WorkerPop, SignalQueue, NoLostWakeup
      <4>3. CASE composite_queue_ = <<>>
        BY <3>1, <4>1, <4>3 DEF WorkerPop, NoLostWakeup, QueueFull
      <4>4. QED
        BY <4>2, <4>3
    <3>2. CASE WorkerTop \/ WorkerLock \/ WorkerWait \/ WorkerWake
      BY <3>2 DEF WorkerTop, WorkerLock, WorkerWait, WorkerWake, NoLostWakeup,
                  QueueFull
    <3>3. CASE WorkerReady \/ WorkerEinkLock \/ WorkerUnlock \/ WorkerAcquire
      BY <3>3 DEF WorkerReady, WorkerEinkLock, WorkerUnlock, WorkerAcquire,
                  NoLostWakeup, QueueFull
    <3>4. CASE WorkerTimeout \/ WorkerConvert \/ WorkerFinish
      BY <3>4 DEF WorkerTimeout, WorkerConvert, WorkerFinish, NoLostWakeup,
                  QueueFull
    <3>5. QED
      BY <2>3, <3>1, <3>2, <3>3, <3>4 DEF InRoutine
  <2>4. CASE GpuDraw
    BY <2>4 DEF GpuDraw, NoLostWakeup, QueueFull
  <2>5. CASE SpuriousWakeup
    BY <2>5 DEF SpuriousWakeup, NoLostWakeup, QueueFull
  <2>6. CASE UNCHANGED vars
    BY <2>6 DEF vars, NoLostWakeup, QueueFull
  <2>7. QED
    BY <2>1, <2>2, <2>3, <2>4, <2>5, <2>6 DEF Next, AllQuiet
<1>2. Init => NoLostWakeup
  BY DEF Init, NoLostWakeup
<1>3. QED
  BY <1>1, <1>2, Invariance, PTL DEF Spec

(* QueueComposite takes eink_lock_ before lock_ after a wait, Routine the other
   way round; with kMaxQueueDepth = 1 and no unsignalled wake-up the two
   orders never meet. *)
THEOREM OneSlotAvoidsLockCycle == Spec => []NoLockCycle
<1>1. Inv => NoLockCycle
  BY DEF Inv, NoLockCycle, LockCycle, QueueFollowsPcs
<1>2. QED
  BY <1>1, Invariance, PTL

(* A drained pipeline without a dropped composition has signalled every
   release fence it handed out. *)
THEOREM DrainedReleases == Spec => []DrainedReleasesAll
<1>1. Inv => DrainedReleasesAll
  BY DEF Inv, DrainedReleasesAll, OwedAccounted
<1>2. QED
  BY <1>1, Invariance, PTL

(* push and pop are made by a thread that owns both mutexes. *)
THEOREM QueueIsGuarded == Spec => QueueUnderBothLocks
<1>1. Inv /\ [Next]_vars =>
        [composite_queue_' # composite_queue_ =>
           lock_ # Free /\ eink_lock_ = lock_]_vars
  <2> SUFFICES ASSUME Inv, [Next]_vars, composite_queue_' # composite_queue_
               PROVE  lock_ # Free /\ eink_lock_ = lock_
    OBVIOUS
  <2> USE DEF locks, timeline, gpu, history, producer, worker
  <2>1. QueuePush \/ WorkerPop
    <3>1. ~InQueueComposite \/ QueuePush
      BY DEF InQueueComposite, SkipDone, QueueLock, QueueEinkLock, QueueUnlock,
             QueueWait, QueueWake, QueueRelock, QueueSignal
    <3>2. ~InRoutine \/ WorkerPop
      BY DEF InRoutine, WorkerTop, WorkerLock, WorkerWait, WorkerWake,
             WorkerReady, WorkerEinkLock, WorkerUnlock, WorkerAcquire,
             WorkerTimeout, WorkerConvert, WorkerFinish
    <3>3. QED
      BY <3>1, <3>2 DEF Next, vars, HwcSet, GpuDraw, SpuriousWakeup, AllQuiet
  <2>2. QED
    BY <2>1 DEF QueuePush, WorkerPop, Inv, LocksFollowPcs, Free, SF, Thread
<1>2. QED
  BY <1>1, Invariance, PTL DEF Spec, QueueUnderBothLocks
-------------------------------------------------------------------------------
(***************************************************************************)
(* Who waits for whom.                                                     *)
(***************************************************************************)

(* A job waits for no more than what its buffer's fence has been since. *)
JobsAreOwed == \A k \in 1..Len(jobs) : jobs[k].after <= owed[jobs[k].handle]

LEMMA JobIsTyped ==
  ASSUME TypeOK, NEW k \in 1..Len(jobs)
  PROVE  jobs[k].handle \in Handles /\ jobs[k].after \in Nat
<1> DEFINE Job == [handle : Handles, after : Nat]
<1>1. jobs \in Seq(Job)
  BY DEF TypeOK
<1>2. jobs[k] \in Job
  <2> HIDE DEF Job
  <2> QED
    BY <1>1
<1> QED
  BY <1>2

LEMMA JobsAreOwedStep ==
  ASSUME TypeOK, OwedAccounted, JobsAreOwed, [Next]_vars
  PROVE  JobsAreOwed'
<1>1. ASSUME UNCHANGED <<jobs, owed>> PROVE JobsAreOwed'
  BY <1>1 DEF JobsAreOwed
<1>2. ASSUME NEW h \in Handles, HwcSet(h) PROVE JobsAreOwed'
  <2>1. \A g \in Handles : owed[g] \in Nat /\ owed'[g] \in Nat /\ owed[g] <= owed'[g]
    <3>1. owed \in [Handles -> Nat] /\ timeline_ \in Nat /\ owed[h] <= timeline_
      BY DEF TypeOK, OwedAccounted
    <3>2. CASE QueueNewHandle(h)
      BY <3>1, <3>2 DEF QueueNewHandle
    <3>3. CASE UNCHANGED owed
      BY <3>1, <3>3
    <3> QED
      BY <1>2, <3>2, <3>3 DEF HwcSet, QueueSameHandle, SkipFrame
  <2>2. jobs \in Seq([handle : Handles, after : Nat])
    BY DEF TypeOK
  <2>3. CASE Render(h)
    <3>1. jobs' = Append(jobs, [handle |-> h, after |-> owed[h]])
      BY <2>3 DEF Render
    <3>2. /\ Len(jobs') = Len(jobs) + 1 /\ Len(jobs) \in Nat
          /\ \A k \in 1..Len(jobs) : jobs'[k] = jobs[k]
          /\ jobs'[Len(jobs) + 1] = [handle |-> h, after |-> owed[h]]
      BY <2>2, <3>1
    <3>3. ASSUME NEW k \in 1..Len(jobs) PROVE jobs'[k].after <= owed'[jobs'[k].handle]
      <4>1. jobs[k].handle \in Handles /\ jobs[k].after \in Nat
        BY JobIsTyped
      <4>2. jobs[k].after <= owed[jobs[k].handle]
        BY DEF JobsAreOwed
      <4> QED
        BY <2>1, <3>2, <4>1, <4>2
    <3>4. jobs'[Len(jobs) + 1].after <= owed'[jobs'[Len(jobs) + 1].handle]
      BY <2>1, <3>2
    <3>5. \A k \in 1..Len(jobs') : k \in 1..Len(jobs) \/ k = Len(jobs) + 1
      BY <3>2
    <3> QED
      BY <3>3, <3>4, <3>5 DEF JobsAreOwed
  <2>4. CASE UNCHANGED gpu
    <3>1. ASSUME NEW k \in 1..Len(jobs) PROVE jobs[k].after <= owed'[jobs[k].handle]
      <4>1. jobs[k].handle \in Handles /\ jobs[k].after \in Nat
        BY JobIsTyped
      <4>2. jobs[k].after <= owed[jobs[k].handle]
        BY DEF JobsAreOwed
      <4> QED
        BY <2>1, <4>1, <4>2
    <3> QED
      BY <2>4, <3>1 DEF JobsAreOwed, gpu
  <2> QED
    BY <1>2, <2>3, <2>4 DEF HwcSet
<1>3. CASE InQueueComposite
  BY <1>1, <1>3
     DEF InQueueComposite, SkipDone, QueueLock, QueueEinkLock, QueueUnlock,
         QueueWait, QueueWake, QueueRelock, QueuePush, QueueSignal, gpu
<1>4. CASE InRoutine
  BY <1>1, <1>4
     DEF InRoutine, WorkerTop, WorkerLock, WorkerWait, WorkerWake, WorkerReady,
         WorkerEinkLock, WorkerPop, WorkerUnlock, WorkerAcquire, WorkerTimeout,
         WorkerConvert, WorkerFinish, gpu, producer
<1>5. CASE GpuDraw \/ SpuriousWakeup \/ AllQuiet \/ UNCHANGED vars
  BY <1>1, <1>5 DEF GpuDraw, SpuriousWakeup, AllQuiet, vars, gpu, producer
<1>6. QED
  BY <1>2, <1>3, <1>4, <1>5 DEF Next

(* The thread that owns a mutex somebody wants goes on or, with lock_, is in
   the lock cycle. *)
LEMMA OwnersGoOn ==
  ASSUME TypeOK, LocksFollowPcs, ~WorkerCanGo, ~ProducerCanGo, ~LockCycle
  PROVE  lock_ # Thread /\ eink_lock_ # Thread /\ eink_lock_ # SF
<1> USE DEF Free, SF, Thread
<1>1. wpc \notin {"empty", "pop", "unlock", "convert", "finish"}
  BY DEF WorkerCanGo
<1>2. ppc \notin {"check", "wait", "signal"}
  BY DEF ProducerCanGo
<1>3. eink_lock_ # Thread
  BY <1>1 DEF LocksFollowPcs
<1>4. ASSUME eink_lock_ = SF PROVE FALSE
  <2>1. ppc = "relock" /\ lock_ # Free /\ lock_ # SF
    BY <1>2, <1>4 DEF LocksFollowPcs, ProducerCanGo
  <2>2. lock_ = Thread
    BY <2>1 DEF TypeOK
  <2>3. wpc = "elock"
    BY <1>1, <2>2 DEF LocksFollowPcs
  <2> QED
    BY <1>4, <2>1, <2>2, <2>3 DEF LockCycle
<1>5. ASSUME lock_ = Thread PROVE FALSE
  <2>1. wpc = "elock"
    BY <1>1, <1>5 DEF LocksFollowPcs
  <2>2. eink_lock_ = Free
    BY <1>3, <1>4 DEF TypeOK
  <2> QED
    BY <2>1, <2>2 DEF WorkerCanGo
<1> QED
  BY <1>3, <1>4, <1>5

(* If nothing is in the pipeline and no composition was dropped, the GPU does
   not wait for a fence. *)
LEMMA BlockedByDropped ==
  ASSUME TypeOK, OwedAccounted, JobsAreOwed, HeldFrames = {}, GpuBlocked
  PROVE  dropped
<1>1. gpu_done \in Nat /\ gpu_done + 1 \in 1..Len(jobs)
  BY DEF TypeOK, GpuBlocked
<1> DEFINE h == jobs[gpu_done + 1].handle
           after == jobs[gpu_done + 1].after
<1>2. h \in Handles /\ after \in Nat
  BY <1>1, JobIsTyped
<1>3. after <= owed[h] /\ after > sync_value
  BY <1>1 DEF JobsAreOwed, GpuBlocked
<1>4. owed[h] \in Nat /\ sync_value \in Nat
  BY <1>2 DEF TypeOK
<1>5. ~(owed[h] <= sync_value)
  BY <1>2, <1>3, <1>4
<1> QED
  BY <1>2, <1>5 DEF OwedAccounted

LEMMA WaitsForSomebody ==
  ASSUME Inv, NoLostWakeup, JobsAreOwed
  PROVE  StopsOnlyDrained
<1> SUFFICES ASSUME ~ProducerCanGo, ~WorkerCanGo, ~GpuCanGo, ~LockCycle
             PROVE  /\ wpc = "blocked" /\ Thread \in cond_
                    /\ composite_queue_ = <<>>
                    /\ ppc = "idle" \/ (ppc = "skip" /\ GpuBlocked /\ dropped)
  BY DEF StopsOnlyDrained
<1> USE DEF Free, SF, Thread
<1>1. TypeOK /\ LocksFollowPcs /\ FramesFollowPcs
  BY DEF Inv
<1>2. eink_lock_ = Free /\ lock_ # Thread
  BY <1>1, OwnersGoOn DEF TypeOK
<1>3. ppc \in {"idle", "skip", "lock", "blocked", "relock"}
  BY <1>1, <1>2 DEF TypeOK, ProducerCanGo
<1>4. lock_ = Free
  BY <1>1, <1>2, <1>3 DEF TypeOK, LocksFollowPcs
<1>5. ppc = "idle" \/ (ppc = "skip" /\ gpu_done < Len(jobs))
        \/ (ppc = "blocked" /\ SF \in eink_queue_cond_)
  BY <1>1, <1>2, <1>3, <1>4 DEF TypeOK, ProducerCanGo
<1>6. wpc # "acquire"
  <2> SUFFICES ASSUME wpc = "acquire" PROVE FALSE
    OBVIOUS
  <2>1. wframe # NoFrame /\ wframe \in Frame /\ gpu_done \in 0..Len(jobs)
    BY <1>1 DEF FramesFollowPcs, TypeOK
  <2>2. wframe.id \in 1..Len(jobs)
    BY <2>1 DEF Inv, BuffersKept, KeepsBuffer
  <2>3. wframe.id > gpu_done /\ ~GpuBlocked
    BY <2>1, <2>2 DEF WorkerCanGo
  <2>4. gpu_done < Len(jobs)
    BY <2>1, <2>2, <2>3
  <2> QED
    BY <2>3, <2>4 DEF GpuCanGo
<1>7. wpc = "blocked" /\ Thread \in cond_
  BY <1>1, <1>2, <1>4, <1>6 DEF TypeOK, WorkerCanGo
<1>8. composite_queue_ = <<>>
  BY <1>5, <1>7 DEF NoLostWakeup
<1>9. ppc # "blocked"
  <2>1. ~QueueFull
    BY <1>8, ConstantsAssumption DEF QueueFull
  <2> QED
    BY <1>5, <2>1 DEF NoLostWakeup
<1>10. ASSUME ppc = "skip" PROVE GpuBlocked /\ dropped
  <2>1. GpuBlocked
    BY <1>5, <1>10 DEF GpuCanGo
  <2>2. pframe = NoFrame /\ wframe = NoFrame
    BY <1>1, <1>7, <1>10 DEF FramesFollowPcs
  <2>3. HeldFrames = {}
    BY <1>8, <2>2 DEF HeldFrames
  <2> QED
    BY <1>1, <2>1, <2>3, BlockedByDropped DEF Inv
<1> QED
  BY <1>5, <1>7, <1>8, <1>9, <1>10

(* Everybody waits for somebody only in the lock cycle, or with nothing
   queued: between two calls of hwc_set, or in the call without a timeout of
   sync_wait (hwc_set) while the GPU waits for a fence that FinishComposition
   did not signal. *)
THEOREM OnlyDrainedStops == Spec => []StopsOnlyDrained
<1>1. Init => JobsAreOwed
  BY DEF Init, JobsAreOwed
<1>2. Inv /\ JobsAreOwed /\ [Next]_vars => JobsAreOwed'
  BY JobsAreOwedStep DEF Inv
<1>3. Inv /\ NoLostWakeup /\ JobsAreOwed => StopsOnlyDrained
  BY WaitsForSomebody
<1>4. QED
  BY <1>1, <1>2, <1>3, Invariance, SignalsReachWaiters, PTL DEF Spec
-------------------------------------------------------------------------------
(***************************************************************************)
(* What is withheld from the panel.                                        *)
(***************************************************************************)

(* Unless a frame was skipped since, the buffer queued last is the one
   SurfaceFlinger shows, with the picture it shows. *)
QueuedIsFront ==
  ~skipped => queued = Len(jobs) /\ last_fb_handle = Front

LEMMA QueuedIsFrontStep ==
  ASSUME TypeOK, QueuedIsFront, [Next]_vars
  PROVE  QueuedIsFront'
<1>1. ASSUME UNCHANGED <<jobs, last_fb_handle, queued, skipped>>
      PROVE  QueuedIsFront'
  BY <1>1 DEF QueuedIsFront, Front
<1>2. ASSUME NEW h \in Handles, HwcSet(h) PROVE QueuedIsFront'
  <2>1. CASE QueueNewHandle(h)
    <3>1. queued' = Len(jobs') /\ last_fb_handle' = h
      BY <2>1 DEF QueueNewHandle
    <3>2. Len(jobs') >= 1 /\ jobs'[Len(jobs')].handle = h
      BY <1>2, JobsGrow
    <3>3. jobs' # <<>>
      BY <3>2
    <3>4. Front' = h
      BY <3>2, <3>3 DEF Front
    <3>5. QED
      BY <3>1, <3>4 DEF QueuedIsFront
  <2>2. CASE QueueSameHandle(h)
    <3>1. h = last_fb_handle /\ UNCHANGED <<last_fb_handle, queued, skipped>>
      BY <2>2 DEF QueueSameHandle, IsNewHandle
    <3>2. CASE Render(h)
      BY <3>1, <3>2 DEF Render, QueuedIsFront
    <3>3. CASE h = Front /\ UNCHANGED gpu
      BY <1>1, <3>1, <3>3 DEF gpu
    <3>4. QED
      BY <1>2, <3>2, <3>3 DEF HwcSet
  <2>3. CASE SkipFrame
    BY <2>3 DEF SkipFrame, QueuedIsFront
  <2>4. QED
    BY <1>2, <2>1, <2>2, <2>3 DEF HwcSet
<1>3. CASE InQueueComposite
  BY <1>1, <1>3
     DEF InQueueComposite, SkipDone, QueueLock, QueueEinkLock, QueueUnlock,
         QueueWait, QueueWake, QueueRelock, QueuePush, QueueSignal, gpu, history
<1>4. CASE InRoutine
  BY <1>1, <1>4
     DEF InRoutine, WorkerTop, WorkerLock, WorkerWait, WorkerWake, WorkerReady,
         WorkerEinkLock, WorkerPop, WorkerUnlock, WorkerAcquire, WorkerTimeout,
         WorkerConvert, WorkerFinish, gpu, history, producer
<1>5. CASE GpuDraw \/ SpuriousWakeup \/ AllQuiet \/ UNCHANGED vars
  BY <1>1, <1>5
     DEF GpuDraw, SpuriousWakeup, AllQuiet, vars, gpu, history, producer
<1>6. QED
  BY <1>2, <1>3, <1>4, <1>5 DEF Next

(* "fb-handle is same" (QueueComposite) withholds a picture the panel does not
   have only if a frame was skipped since the last one queued: SurfaceFlinger
   does not draw into the buffer it shows. *)
THEOREM WithheldIsQueued == Spec => NothingNewWithheld
<1>1. Init => QueuedIsFront
  BY DEF Init, QueuedIsFront, Front
<1>2. TypeOK /\ QueuedIsFront /\ [Next]_vars => QueuedIsFront'
  BY QueuedIsFrontStep
<1>3. TypeOK /\ QueuedIsFront =>
        [\A h \in Handles : HwcSet(h) /\ QueueSameHandle(h) =>
           queued = Len(jobs') \/ skipped]_vars
  <2> SUFFICES ASSUME QueuedIsFront, NEW h \in Handles, HwcSet(h),
                      QueueSameHandle(h), ~skipped
               PROVE  queued = Len(jobs')
    OBVIOUS
  <2>1. h = last_fb_handle /\ last_fb_handle = Front /\ queued = Len(jobs)
    BY DEF QueueSameHandle, IsNewHandle, QueuedIsFront
  <2>2. jobs' = jobs
    BY <2>1 DEF HwcSet, Render, gpu
  <2> QED
    BY <2>1, <2>2
<1>4. QED
  BY <1>1, <1>2, <1>3, TypeInvariant, PTL DEF Spec, NothingNewWithheld
-------------------------------------------------------------------------------
(***************************************************************************)
(* QueueComposite and Routine implement FrameHandoff, for every set of     *)
(* buffers, every queue depth and any number of calls, failures and wake-  *)
(* ups nobody signalled: frames are offered, shown and finished in order,  *)
(* none twice.  The proof follows the frames between the two ends: a step  *)
(* adds one at the back, takes one off the front, or moves them along.     *)
(***************************************************************************)

Join(w, q, p) == Present(w) \o q \o Present(p)

Ticket(f) == [id |-> f.id, release |-> f.release]
TicketsOf(s) == [i \in DOMAIN s |-> Ticket(s[i])]
-------------------------------------------------------------------------------
(***************************************************************************)
(* The sequence of the frames in flight.                                   *)
(***************************************************************************)
LEMMA NoFrameIsFrame == NoFrame \in Frame
BY DEF NoFrame, Frame

LEMMA PresentIsSeq ==
  ASSUME NEW f \in Frame
  PROVE  /\ Present(f) \in Seq(Frame) /\ Len(Present(f)) <= 1
         /\ f = NoFrame => Present(f) = <<>>
         /\ f # NoFrame => Present(f) = <<f>>
BY DEF Present

LEMMA Consed ==
  ASSUME NEW S, NEW x \in S, NEW s \in Seq(S)
  PROVE  /\ <<x>> \o s # <<>> /\ Head(<<x>> \o s) = x /\ Tail(<<x>> \o s) = s
<1> DEFINE t == <<x>> \o s
<1>1. /\ <<x>> \in Seq(S) /\ Len(<<x>>) = 1 /\ <<x>>[1] = x
  OBVIOUS
<1>2. /\ t \in Seq(S) /\ Len(t) = 1 + Len(s)
      /\ \A i \in 1..(1 + Len(s)) : t[i] = IF i <= 1 THEN <<x>>[i] ELSE s[i - 1]
  BY <1>1, ConcatProperties
<1> HIDE DEF t
<1>3. t # <<>> /\ Head(t) = x
  BY <1>1, <1>2
<1>4. /\ Tail(t) \in Seq(S) /\ Len(Tail(t)) = Len(s)
      /\ \A i \in 1..Len(s) : Tail(t)[i] = t[i + 1]
  BY <1>2, <1>3, HeadTailProperties
<1>5. \A i \in 1..Len(s) : Tail(t)[i] = s[i]
  BY <1>2, <1>4
<1>6. Tail(t) = s
  BY <1>4, <1>5, SeqEqual
<1>7. QED
  BY <1>3, <1>6 DEF t

LEMMA ConsHeadTail ==
  ASSUME NEW S, NEW s \in Seq(S), s # <<>>
  PROVE  s = <<Head(s)>> \o Tail(s)
<1>1. /\ Head(s) \in S /\ Head(s) = s[1] /\ Tail(s) \in Seq(S)
      /\ Len(Tail(s)) = Len(s) - 1 /\ Len(s) \in Nat \ {0}
      /\ \A i \in 1..Len(Tail(s)) : Tail(s)[i] = s[i + 1]
  BY HeadTailProperties, EmptySeq
<1> DEFINE a == <<Head(s)>>
           b == Tail(s)
<1>2. a \in Seq(S) /\ Len(a) = 1 /\ a[1] = s[1]
  BY <1>1
<1>3. b \in Seq(S) /\ Len(b) = Len(s) - 1 /\ \A i \in 1..(Len(s) - 1) : b[i] = s[i + 1]
  BY <1>1
<1> HIDE DEF a, b
<1>4. /\ a \o b \in Seq(S) /\ Len(a \o b) = Len(a) + Len(b)
      /\ \A i \in 1..(Len(a) + Len(b)) :
           (a \o b)[i] = IF i <= Len(a) THEN a[i] ELSE b[i - Len(a)]
  <2>1. a \in Seq(S) /\ b \in Seq(S)
    BY <1>2, <1>3
  <2>2. QED
    BY <2>1, ConcatProperties
<1>5. Len(a) + Len(b) = Len(s)
  BY <1>1, <1>2, <1>3
<1>6. \A i \in 1..Len(s) : (a \o b)[i] = s[i]
  BY <1>1, <1>2, <1>3, <1>4, <1>5
<1>7. s = a \o b
  BY <1>4, <1>5, <1>6, SeqEqual
<1>8. QED
  BY <1>7 DEF a, b

LEMMA JoinIsSeq ==
  ASSUME NEW w \in Frame, NEW q \in Seq(Frame), NEW p \in Frame
  PROVE  /\ Join(w, q, p) \in Seq(Frame)
         /\ Len(Join(w, q, p)) = Len(Present(w)) + Len(q) + Len(Present(p))
<1> DEFINE a == Present(w)
           b == Present(p)
<1>1. a \in Seq(Frame) /\ b \in Seq(Frame)
  BY PresentIsSeq
<1> HIDE DEF a, b
<1>2. a \o q \in Seq(Frame) /\ Len(a \o q) = Len(a) + Len(q)
  BY <1>1, ConcatProperties
<1>3. (a \o q) \o b \in Seq(Frame) /\ Len((a \o q) \o b) = Len(a \o q) + Len(b)
  BY <1>1, <1>2, ConcatProperties
<1>4. QED
  BY <1>2, <1>3 DEF Join, a, b

(* A frame is offered at the back, ... *)
LEMMA JoinOffered ==
  ASSUME NEW w \in Frame, NEW q \in Seq(Frame), NEW f \in Frame, f # NoFrame
  PROVE  Join(w, q, f) = Append(Join(w, q, NoFrame), f)
<1> DEFINE s == Present(w) \o q
<1>1. s \in Seq(Frame)
  BY PresentIsSeq, ConcatProperties
<1>2. Join(w, q, f) = s \o <<f>> /\ Join(w, q, NoFrame) = s \o <<>>
  BY PresentIsSeq, NoFrameIsFrame DEF Join
<1> HIDE DEF s
<1>3. s \o <<>> = s /\ s \o <<f>> = Append(s, f)
  BY <1>1, ConcatEmptySeq, AppendIsConcat
<1>4. QED
  BY <1>2, <1>3

(* ... pushed, ... *)
LEMMA JoinPushed ==
  ASSUME NEW w \in Frame, NEW q \in Seq(Frame), NEW f \in Frame, f # NoFrame
  PROVE  Join(w, Append(q, f), NoFrame) = Join(w, q, f)
<1> DEFINE a == Present(w)
           b == <<f>>
<1>1. a \in Seq(Frame) /\ b \in Seq(Frame)
  BY PresentIsSeq
<1>2. Append(q, f) = q \o b
  BY AppendIsConcat
<1>3. /\ Join(w, q, f) = (a \o q) \o b
      /\ Join(w, Append(q, f), NoFrame) = (a \o (q \o b)) \o <<>>
  BY <1>2, PresentIsSeq, NoFrameIsFrame DEF Join
<1> HIDE DEF a, b
<1>4. a \o (q \o b) \in Seq(Frame) /\ (a \o q) \o b = a \o (q \o b)
  BY <1>1, ConcatProperties, ConcatAssociative
<1>5. QED
  BY <1>3, <1>4, ConcatEmptySeq

(* ... popped, ... *)
LEMMA JoinPopped ==
  ASSUME NEW q \in Seq(Frame), NEW p \in Frame, q # <<>>, Head(q) # NoFrame
  PROVE  Join(Head(q), Tail(q), p) = Join(NoFrame, q, p)
<1>1. Head(q) \in Frame /\ Tail(q) \in Seq(Frame) /\ q = <<Head(q)>> \o Tail(q)
  BY HeadTailProperties, ConsHeadTail
<1>2. Present(Head(q)) = <<Head(q)>> /\ Present(NoFrame) = <<>>
  BY <1>1, PresentIsSeq, NoFrameIsFrame
<1>3. <<>> \o q = q
  BY ConcatEmptySeq
<1>4. QED
  BY <1>1, <1>2, <1>3 DEF Join

(* ... and leaves at the front. *)
LEMMA JoinTaken ==
  ASSUME NEW w \in Frame, NEW q \in Seq(Frame), NEW p \in Frame, w # NoFrame
  PROVE  /\ Join(w, q, p) # <<>> /\ Head(Join(w, q, p)) = w
         /\ Join(NoFrame, q, p) = Tail(Join(w, q, p))
<1> DEFINE b == Present(p)
           a == <<w>>
<1>1. a \in Seq(Frame) /\ b \in Seq(Frame)
  BY PresentIsSeq
<1>2. /\ Join(w, q, p) = (a \o q) \o b
      /\ Join(NoFrame, q, p) = (<<>> \o q) \o b
  BY PresentIsSeq, NoFrameIsFrame DEF Join
<1> HIDE DEF b, a
<1>3. (a \o q) \o b = a \o (q \o b) /\ <<>> \o q = q /\ q \o b \in Seq(Frame)
  BY <1>1, ConcatAssociative, ConcatEmptySeq, ConcatProperties
<1>4. a \o (q \o b) # <<>> /\ Head(a \o (q \o b)) = w /\ Tail(a \o (q \o b)) = q \o b
  BY <1>3, Consed DEF a
<1>5. QED
  BY <1>2, <1>3, <1>4
-------------------------------------------------------------------------------
(***************************************************************************)
(* How the frames move.                                                    *)
(***************************************************************************)
LEMMA PipelineJoins ==
  /\ Pipeline = Join(wframe, composite_queue_, pframe)
  /\ Pipeline' = Join(wframe', composite_queue_', pframe')
BY DEF Pipeline, Join

LEMMA PipelineIsSeq ==
  ASSUME TypeOK
  PROVE  Pipeline \in Seq(Frame)
BY PipelineJoins, JoinIsSeq DEF TypeOK

LEMMA PipelineStays ==
  ASSUME UNCHANGED <<wframe, composite_queue_, pframe>>
  PROVE  Pipeline' = Pipeline
BY PipelineJoins

(* A call adds its frame. *)
LEMMA Offered ==
  ASSUME Inv, NEW h \in Handles, HwcSet(h), QueueNewHandle(h)
  PROVE  Pipeline' = Append(Pipeline, pframe') /\ pframe' \in Frame
<1>1. pframe = NoFrame
  BY DEF HwcSet, Inv, FramesFollowPcs
<1>2. Len(jobs') \in Nat \ {0}
  <2>1. CASE Render(h)
    BY <2>1 DEF Render, Inv, TypeOK
  <2>2. CASE h = Front /\ UNCHANGED gpu
    BY <2>2, ConstantsAssumption DEF Front, gpu, Inv, TypeOK
  <2>3. QED
    BY <2>1, <2>2 DEF HwcSet
<1>3. pframe' \in Frame /\ pframe' # NoFrame
  BY <1>2 DEF QueueNewHandle, NewFrame, Frame, NoFrame, Inv, TypeOK
<1>4. UNCHANGED <<wframe, composite_queue_>>
  BY DEF HwcSet, worker
<1>5. QED
  BY <1>1, <1>3, <1>4, PipelineJoins, JoinOffered DEF Inv, TypeOK

(* A frame that is finished or given up is the oldest. *)
LEMMA Taken ==
  ASSUME Inv, WorkerTimeout \/ WorkerFinish
  PROVE  /\ Pipeline # <<>> /\ Head(Pipeline) = wframe
         /\ Pipeline' = Tail(Pipeline)
<1>1. wframe # NoFrame /\ wframe' = NoFrame
  BY DEF WorkerTimeout, WorkerFinish, Inv, FramesFollowPcs
<1>2. UNCHANGED <<pframe, composite_queue_>>
  BY DEF WorkerTimeout, WorkerFinish, producer
<1>3. QED
  BY <1>1, <1>2, PipelineJoins, JoinTaken DEF Inv, TypeOK

(* Other steps of the two threads move frames along. *)
LEMMA Moved ==
  ASSUME Inv, QueuePush \/ WorkerPop
  PROVE  Pipeline' = Pipeline
<1>1. CASE QueuePush
  <2>1. pframe # NoFrame
    BY <1>1 DEF QueuePush, Inv, FramesFollowPcs
  <2>2. /\ composite_queue_' = Append(composite_queue_, pframe)
        /\ pframe' = NoFrame /\ wframe' = wframe
    BY <1>1 DEF QueuePush, worker
  <2>3. QED
    BY <2>1, <2>2, PipelineJoins, JoinPushed DEF Inv, TypeOK
<1>2. CASE WorkerPop
  <2>1. wframe = NoFrame /\ pframe' = pframe
    BY <1>2 DEF WorkerPop, producer, Inv, FramesFollowPcs
  <2>2. CASE composite_queue_ = <<>>
    BY <1>2, <2>1, <2>2, PipelineStays DEF WorkerPop
  <2>3. CASE composite_queue_ # <<>>
    <3>1. wframe' = Head(composite_queue_) /\ composite_queue_' = Tail(composite_queue_)
      BY <1>2, <2>3 DEF WorkerPop
    <3>2. Head(composite_queue_) # NoFrame
      <4>1. 1 \in 1..Len(composite_queue_) /\ Head(composite_queue_) = composite_queue_[1]
        BY <2>3, EmptySeq DEF Inv, TypeOK
      <4>2. composite_queue_[1].id # 0
        BY <4>1 DEF Inv, BuffersKept, KeepsBuffer
      <4>3. QED
        BY <4>1, <4>2 DEF NoFrame
    <3>3. QED
      BY <2>1, <2>3, <3>1, <3>2, PipelineJoins, JoinPopped DEF Inv, TypeOK
  <2>4. QED
    BY <2>2, <2>3
<1>3. QED
  BY <1>1, <1>2

LEMMA OthersStay ==
  ASSUME \/ SkipDone \/ QueueLock \/ QueueEinkLock \/ QueueUnlock \/ QueueWait
         \/ QueueWake \/ QueueRelock \/ QueueSignal
         \/ WorkerTop \/ WorkerLock \/ WorkerWait \/ WorkerWake \/ WorkerReady
         \/ WorkerEinkLock \/ WorkerUnlock \/ WorkerAcquire
         \/ GpuDraw \/ SpuriousWakeup \/ AllQuiet \/ UNCHANGED vars
  PROVE  /\ Pipeline' = Pipeline
         /\ UNCHANGED <<timeline, last_fb_handle, jobs, shown, sets, queued>>
         /\ wpc' = "finish" <=> wpc = "finish"
<1> USE DEF worker, producer, gpu, history, timeline
<1>1. CASE SkipDone \/ QueueLock \/ QueueEinkLock \/ QueueUnlock \/ QueueWait
  BY <1>1, PipelineStays
     DEF SkipDone, QueueLock, QueueEinkLock, QueueUnlock, QueueWait
<1>2. CASE QueueWake \/ QueueRelock \/ QueueSignal
  BY <1>2, PipelineStays DEF QueueWake, QueueRelock, QueueSignal
<1>3. CASE WorkerTop \/ WorkerLock \/ WorkerWait \/ WorkerWake \/ WorkerReady
  BY <1>3, PipelineStays
     DEF WorkerTop, WorkerLock, WorkerWait, WorkerWake, WorkerReady
<1>4. CASE WorkerEinkLock \/ WorkerUnlock \/ WorkerAcquire
  BY <1>4, PipelineStays DEF WorkerEinkLock, WorkerUnlock, WorkerAcquire
<1>5. CASE GpuDraw \/ SpuriousWakeup
  BY <1>5, PipelineStays DEF GpuDraw, SpuriousWakeup
<1>6. CASE AllQuiet \/ UNCHANGED vars
  BY <1>6, PipelineStays DEF AllQuiet, vars
<1>7. QED
  BY <1>1, <1>2, <1>3, <1>4, <1>5, <1>6
-------------------------------------------------------------------------------
(***************************************************************************)
(* The frames in flight are in the order of their pictures.                *)
(***************************************************************************)
Counted ==
  /\ queued <= Len(jobs) /\ Len(jobs) <= sets /\ sets <= MaxSets
  /\ timeline_ <= 2 * sets
  /\ queued = 0 => last_fb_handle = NoHandle
  /\ queued > 0 => jobs[queued].handle = last_fb_handle

FlightInOrder ==
  /\ shown <= queued
  /\ \A i \in 1..Len(Pipeline) : Pipeline[i].id <= queued
  /\ \A i, j \in 1..Len(Pipeline) : i < j => Pipeline[i].id < Pipeline[j].id
  /\ \A i \in 1..Len(Pipeline) :
       shown < Pipeline[i].id \/ (wpc = "finish" /\ i = 1)

(* A picture that is queued was rendered after the one queued last, or its
   buffer would be that one's. *)
LEMMA NewIsNewer ==
  ASSUME Inv, Counted, NEW h \in Handles, HwcSet(h), QueueNewHandle(h)
  PROVE  /\ queued < Len(jobs') /\ queued' = Len(jobs')
         /\ pframe'.id = Len(jobs') /\ pframe'.release = timeline_ + 2
         /\ jobs'[Len(jobs')].handle = h
<1>1. /\ h # last_fb_handle /\ queued' = Len(jobs')
      /\ pframe'.id = Len(jobs') /\ pframe'.release = timeline_ + 2
  BY DEF QueueNewHandle, IsNewHandle, NewFrame
<1>2. queued \in Nat /\ Len(jobs) \in Nat /\ queued <= Len(jobs)
  BY DEF Inv, TypeOK, Counted
<1>3. CASE Render(h)
  <2>1. jobs' = Append(jobs, [handle |-> h, after |-> owed[h]])
    BY <1>3 DEF Render
  <2>2. Len(jobs') = Len(jobs) + 1 /\ jobs'[Len(jobs')].handle = h
    BY <2>1 DEF Inv, TypeOK
  <2>3. QED
    BY <1>1, <1>2, <2>2
<1>4. CASE h = Front /\ UNCHANGED gpu
  <2>1. jobs' = jobs /\ jobs # <<>> /\ jobs[Len(jobs)].handle = h
    BY <1>4, ConstantsAssumption DEF Front, gpu
  <2>2. Len(jobs) > 0
    BY <2>1, EmptySeq DEF Inv, TypeOK
  <2>3. queued # Len(jobs)
    BY <1>1, <1>2, <2>1, <2>2 DEF Counted
  <2>4. QED
    BY <1>1, <1>2, <2>1, <2>3
<1>5. QED
  BY <1>3, <1>4 DEF HwcSet

LEMMA CountedStep ==
  ASSUME Inv, Counted, [Next]_vars
  PROVE  Counted'
<1>1. ASSUME UNCHANGED <<timeline_, last_fb_handle, jobs, sets, queued>>
      PROVE  Counted'
  BY <1>1 DEF Counted
<1>2. ASSUME NEW h \in Handles, HwcSet(h) PROVE Counted'
  <2>1. /\ Len(jobs') \in Nat /\ Len(jobs) <= Len(jobs') /\ Len(jobs') <= Len(jobs) + 1
        /\ \A k \in 1..Len(jobs) : jobs'[k] = jobs[k]
    <3>1. CASE Render(h)
      BY <3>1 DEF Render, Inv, TypeOK
    <3>2. CASE UNCHANGED gpu
      BY <3>2 DEF gpu, Inv, TypeOK
    <3>3. QED
      BY <1>2, <3>1, <3>2 DEF HwcSet
  <2>2. /\ sets' = sets + 1 /\ sets < MaxSets /\ sets \in Nat /\ timeline_ \in Nat
        /\ queued \in Nat /\ queued <= Len(jobs) /\ Len(jobs) <= sets
        /\ timeline_ <= 2 * sets /\ Len(jobs) \in Nat
    BY <1>2 DEF HwcSet, Counted, Inv, TypeOK
  <2>3. Len(jobs') <= sets' /\ sets' <= MaxSets
    BY <2>1, <2>2, ConstantsAssumption
  <2>4. CASE QueueNewHandle(h)
    <3>1. /\ queued' = Len(jobs') /\ queued < Len(jobs')
          /\ jobs'[Len(jobs')].handle = h /\ last_fb_handle' = h
          /\ timeline_' = timeline_ + 2
      BY <1>2, <2>4, NewIsNewer DEF QueueNewHandle
    <3>2. timeline_' <= 2 * sets'
      BY <2>2, <3>1
    <3>3. QED
      BY <2>1, <2>2, <2>3, <3>1, <3>2 DEF Counted
  <2>5. CASE QueueSameHandle(h) \/ SkipFrame
    <3>1. /\ UNCHANGED <<queued, last_fb_handle>>
          /\ timeline_' = timeline_ \/ timeline_' = timeline_ + 1
      BY <2>5 DEF QueueSameHandle, SkipFrame
    <3>2. timeline_' <= 2 * sets' /\ queued' <= Len(jobs')
      BY <2>1, <2>2, <3>1
    <3>3. queued' > 0 => jobs'[queued'].handle = last_fb_handle'
      BY <2>1, <2>2, <3>1 DEF Counted
    <3>4. queued' = 0 => last_fb_handle' = NoHandle
      BY <3>1 DEF Counted
    <3>5. QED
      BY <2>3, <3>2, <3>3, <3>4 DEF Counted
  <2>6. QED
    BY <1>2, <2>4, <2>5 DEF HwcSet
<1>3. CASE QueuePush \/ WorkerPop \/ WorkerTimeout \/ WorkerConvert \/ WorkerFinish
  BY <1>1, <1>3 DEF QueuePush, WorkerPop, WorkerTimeout, WorkerConvert,
     WorkerFinish, timeline, producer, gpu, history
<1>4. QED
  BY <1>1, <1>2, <1>3, OthersStay DEF Next, InQueueComposite, InRoutine, timeline

LEMMA FlightStep ==
  ASSUME Inv, Counted, FlightInOrder, [Next]_vars
  PROVE  FlightInOrder'
<1>0. /\ Pipeline \in Seq(Frame) /\ Len(Pipeline) \in Nat
      /\ shown \in Nat /\ queued \in Nat
      /\ \A i \in 1..Len(Pipeline) : Pipeline[i] \in Frame /\ Pipeline[i].id \in Nat
  <2>1. Pipeline \in Seq(Frame)
    BY PipelineIsSeq DEF Inv
  <2>2. \A i \in 1..Len(Pipeline) : Pipeline[i] \in Frame
    BY <2>1, ElementOfSeq
  <2>3. \A f \in Frame : f.id \in Nat
    BY DEF Frame
  <2>4. Len(Pipeline) \in Nat
    BY <2>1, LenProperties
  <2>5. shown \in Nat /\ queued \in Nat
    BY DEF Inv, TypeOK
  <2>6. QED
    BY <2>1, <2>2, <2>3, <2>4, <2>5
<1>1. ASSUME NEW h \in Handles, HwcSet(h), QueueNewHandle(h)
      PROVE  FlightInOrder'
  <2>1. /\ Pipeline' = Append(Pipeline, pframe') /\ pframe' \in Frame
        /\ queued < queued' /\ pframe'.id = queued' /\ queued' \in Nat
        /\ shown' = shown /\ wpc' = wpc
    <3>1. /\ queued < Len(jobs') /\ queued' = Len(jobs') /\ pframe'.id = Len(jobs')
      BY <1>1, NewIsNewer
    <3>2. pframe' \in Frame
      BY <1>1, Offered
    <3>3. QED
      BY <1>1, <3>1, <3>2, Offered DEF HwcSet, worker, Frame
  <2>2. /\ Len(Pipeline') = Len(Pipeline) + 1
        /\ \A i \in 1..Len(Pipeline) : Pipeline'[i] = Pipeline[i]
        /\ Pipeline'[Len(Pipeline) + 1] = pframe'
    BY <1>0, <2>1, AppendProperties
  <2>3. QED
    BY <1>0, <2>1, <2>2 DEF FlightInOrder
<1>2. ASSUME NEW h \in Handles, HwcSet(h), QueueSameHandle(h) \/ SkipFrame
      PROVE  FlightInOrder'
  <2>1. /\ UNCHANGED <<wframe, composite_queue_, pframe, shown, queued, wpc>>
    BY <1>2 DEF HwcSet, QueueSameHandle, SkipFrame, worker
  <2>2. QED
    BY <2>1, PipelineStays DEF FlightInOrder
<1>3. CASE WorkerTimeout \/ WorkerFinish
  <2>1. /\ Pipeline # <<>> /\ Pipeline' = Tail(Pipeline)
        /\ shown' = shown /\ queued' = queued /\ wpc' # "finish"
    BY <1>3, Taken DEF WorkerTimeout, WorkerFinish
  <2>2. /\ Len(Pipeline') = Len(Pipeline) - 1
        /\ \A i \in 1..Len(Pipeline') : Pipeline'[i] = Pipeline[i + 1]
    BY <1>0, <2>1, HeadTailProperties
  <2>3. QED
    BY <1>0, <2>1, <2>2 DEF FlightInOrder
<1>4. CASE WorkerConvert
  <2>1. /\ Pipeline' = Pipeline /\ queued' = queued
        /\ wpc = "convert" /\ wpc' = "finish" /\ shown' \in {shown, wframe.id}
    BY <1>4, PipelineStays DEF WorkerConvert, producer
  <2>2. /\ Pipeline # <<>> /\ Head(Pipeline) = wframe
    <3>1. wframe # NoFrame
      BY <2>1 DEF Inv, FramesFollowPcs
    <3>2. QED
      BY <3>1, PipelineJoins, JoinTaken DEF Inv, TypeOK
  <2>3. 1 \in 1..Len(Pipeline) /\ Pipeline[1] = wframe
    BY <1>0, <2>2, EmptySeq, HeadTailProperties
  <2>4. wframe.id \in Nat /\ wframe.id <= queued /\ shown < wframe.id
    BY <1>0, <2>1, <2>3 DEF FlightInOrder
  <2>5. \A i \in 1..Len(Pipeline) : i # 1 => wframe.id < Pipeline[i].id
    BY <1>0, <2>3 DEF FlightInOrder
  <2>6. \A i \in 1..Len(Pipeline) : shown < Pipeline[i].id
    BY <1>0, <2>1 DEF FlightInOrder
  <2>7. QED
    BY <1>0, <2>1, <2>4, <2>5, <2>6 DEF FlightInOrder
<1>5. CASE QueuePush \/ WorkerPop
  <2>1. /\ Pipeline' = Pipeline /\ UNCHANGED <<shown, queued>>
        /\ wpc' = "finish" <=> wpc = "finish"
    BY <1>5, Moved DEF QueuePush, WorkerPop, history, worker
  <2>2. QED
    BY <2>1 DEF FlightInOrder
<1>6. ASSUME /\ Pipeline' = Pipeline /\ UNCHANGED <<shown, queued>>
             /\ wpc' = "finish" <=> wpc = "finish"
      PROVE  FlightInOrder'
  BY <1>6 DEF FlightInOrder
<1>7. QED
  BY <1>1, <1>2, <1>3, <1>4, <1>5, <1>6, OthersStay
     DEF Next, HwcSet, InQueueComposite, InRoutine
-------------------------------------------------------------------------------
(***************************************************************************)
(* The steps of the abstract hand-off.                                     *)
(***************************************************************************)
TicketSet == [id : Nat, release : Nat]

LEMMA TicketsAreSeq ==
  ASSUME NEW s \in Seq(Frame)
  PROVE  /\ TicketsOf(s) \in Seq(TicketSet) /\ Len(TicketsOf(s)) = Len(s)
         /\ Len(s) \in Nat /\ DOMAIN s = 1..Len(s)
         /\ \A i \in 1..Len(s) : TicketsOf(s)[i] = Ticket(s[i])
<1>1. DOMAIN s = 1..Len(s) /\ Len(s) \in Nat
  BY LenProperties
<1>2. \A i \in 1..Len(s) : Ticket(s[i]) \in TicketSet
  <2>1. \A f \in Frame : Ticket(f) \in TicketSet
    BY DEF Ticket, TicketSet, Frame
  <2>2. QED
    BY <2>1, ElementOfSeq
<1>3. TicketsOf(s) = [i \in 1..Len(s) |-> Ticket(s[i])]
  BY <1>1 DEF TicketsOf
<1>4. QED
  BY <1>1, <1>2, <1>3, SeqDef, LenProperties

LEMMA TicketsAppend ==
  ASSUME NEW s \in Seq(Frame), NEW f \in Frame
  PROVE  TicketsOf(Append(s, f)) = Append(TicketsOf(s), Ticket(f))
<1>1. /\ Append(s, f) \in Seq(Frame) /\ Len(Append(s, f)) = Len(s) + 1
      /\ \A i \in 1..Len(s) : Append(s, f)[i] = s[i]
      /\ Append(s, f)[Len(s) + 1] = f
  BY AppendProperties
<1>2. Ticket(f) \in TicketSet
  BY DEF Ticket, TicketSet, Frame
<1> DEFINE a == TicketsOf(Append(s, f))
           t == TicketsOf(s)
           b == Append(t, Ticket(f))
<1>3. /\ a \in Seq(TicketSet) /\ Len(a) = Len(s) + 1
      /\ \A i \in 1..(Len(s) + 1) : a[i] = Ticket(Append(s, f)[i])
  BY <1>1, TicketsAreSeq
<1>4. /\ t \in Seq(TicketSet) /\ Len(t) = Len(s) /\ Len(s) \in Nat
      /\ \A i \in 1..Len(s) : t[i] = Ticket(s[i])
  BY TicketsAreSeq
<1> HIDE DEF a, t
<1>5. /\ b \in Seq(TicketSet) /\ Len(b) = Len(s) + 1
      /\ \A i \in 1..Len(s) : b[i] = t[i]
      /\ b[Len(s) + 1] = Ticket(f)
  BY <1>2, <1>4, AppendProperties
<1> HIDE DEF b
<1>6. \A i \in 1..Len(a) : a[i] = b[i]
  BY <1>1, <1>3, <1>4, <1>5
<1>7. a = b
  BY <1>3, <1>5, <1>6, SeqEqual
<1>8. QED
  BY <1>7 DEF a, b, t

LEMMA TicketsTail ==
  ASSUME NEW s \in Seq(Frame), s # <<>>
  PROVE  /\ TicketsOf(s) # <<>> /\ Head(TicketsOf(s)) = Ticket(Head(s))
         /\ TicketsOf(Tail(s)) = Tail(TicketsOf(s))
<1> DEFINE t == TicketsOf(s)
           a == TicketsOf(Tail(s))
           b == Tail(t)
<1>1. /\ t \in Seq(TicketSet) /\ Len(t) = Len(s) /\ Len(s) \in Nat \ {0}
      /\ \A i \in 1..Len(s) : t[i] = Ticket(s[i])
  BY TicketsAreSeq, EmptySeq
<1>2. /\ Head(s) = s[1] /\ Tail(s) \in Seq(Frame) /\ Len(Tail(s)) = Len(s) - 1
      /\ \A i \in 1..(Len(s) - 1) : Tail(s)[i] = s[i + 1]
  BY <1>1, HeadTailProperties
<1>3. /\ a \in Seq(TicketSet) /\ Len(a) = Len(s) - 1
      /\ \A i \in 1..(Len(s) - 1) : a[i] = Ticket(Tail(s)[i])
  BY <1>2, TicketsAreSeq
<1> HIDE DEF t, a
<1>4. t # <<>>
  BY <1>1, EmptySeq
<1>5. /\ Head(t) = t[1] /\ b \in Seq(TicketSet) /\ Len(b) = Len(s) - 1
      /\ \A i \in 1..(Len(s) - 1) : b[i] = t[i + 1]
  BY <1>1, <1>4, HeadTailProperties
<1> HIDE DEF b
<1>6. \A i \in 1..Len(a) : a[i] = b[i]
  BY <1>1, <1>2, <1>3, <1>5
<1>7. a = b
  BY <1>3, <1>5, <1>6, SeqEqual
<1>8. Head(t) = Ticket(Head(s))
  BY <1>1, <1>2, <1>5
<1>9. QED
  BY <1>4, <1>7, <1>8 DEF a, b, t

(* In flight there is room for one more than the queue and the worker hold. *)
LEMMA RoomInFlight ==
  ASSUME Inv, pframe = NoFrame
  PROVE  Len(Pipeline) < MaxQueueDepth + 2
<1>1. /\ Len(Pipeline) = Len(Present(wframe)) + Len(composite_queue_) + Len(Present(pframe))
  BY PipelineJoins, JoinIsSeq DEF Inv, TypeOK
<1>2. Len(Present(wframe)) <= 1 /\ Len(Present(wframe)) \in Nat
  BY PresentIsSeq, LenProperties DEF Inv, TypeOK
<1>3. Len(Present(pframe)) = 0
  BY PresentIsSeq, NoFrameIsFrame
<1>4. Len(composite_queue_) <= MaxQueueDepth /\ Len(composite_queue_) \in Nat
  BY LenProperties DEF Inv, QueueFollowsPcs, TypeOK
<1>5. QED
  BY <1>1, <1>2, <1>3, <1>4, ConstantsAssumption

LEMMA HandoffInit == Init => Handoff!Init
<1> SUFFICES ASSUME Init PROVE Handoff!Init
  OBVIOUS
<1>1. Pipeline = <<>>
  BY PipelineJoins, PresentIsSeq, NoFrameIsFrame, ConcatEmptySeq DEF Init, Pipeline
<1>2. TicketsOf(Pipeline) = <<>>
  BY <1>1 DEF TicketsOf
<1>3. QED
  BY <1>2 DEF Init, Handoff!Init, TicketsOf, Ticket

(* A picture that is queued is a frame offered. *)
LEMMA QueuedIsOffered ==
  ASSUME Inv, Inv', Counted, Counted', FlightInOrder,
         NEW h \in Handles, HwcSet(h), QueueNewHandle(h)
  PROVE  Handoff!Next
<1> DEFINE f == Ticket(pframe')
<1>1. /\ Pipeline \in Seq(Frame) /\ pframe' \in Frame
      /\ Pipeline' = Append(Pipeline, pframe')
  BY PipelineIsSeq, Offered DEF Inv
<1>2. TicketsOf(Pipeline') = Append(TicketsOf(Pipeline), f)
  BY <1>1, TicketsAppend
<1>3. /\ f.id = Len(jobs') /\ f.release = timeline_ + 2 /\ queued < f.id
      /\ f = [id |-> f.id, release |-> f.release]
  BY NewIsNewer DEF Ticket
<1>4. /\ timeline_' = timeline_ + 2
      /\ UNCHANGED <<sync_value, shown>>
  BY DEF HwcSet, QueueNewHandle
<1>5. f.id \in 1..MaxSets /\ f.release \in 1..(2 * MaxSets)
  <2>1. /\ Len(jobs') <= sets' /\ sets' <= MaxSets /\ timeline_' <= 2 * sets'
    BY DEF Counted
  <2>2. /\ Len(jobs') \in Nat /\ sets' \in Nat /\ timeline_ \in Nat /\ queued \in Nat
    BY DEF Inv, TypeOK
  <2>3. QED
    BY <1>3, <1>4, <2>1, <2>2, ConstantsAssumption
<1>6. Len(TicketsOf(Pipeline)) < MaxQueueDepth + 2
  BY <1>1, RoomInFlight, TicketsAreSeq DEF HwcSet, Inv, FramesFollowPcs
<1>7. /\ f.id > shown
      /\ \A i \in DOMAIN TicketsOf(Pipeline) : f.id > TicketsOf(Pipeline)[i].id
  <2>1. DOMAIN TicketsOf(Pipeline) = 1..Len(Pipeline)
    BY <1>1, TicketsAreSeq DEF TicketsOf
  <2>2. \A i \in 1..Len(Pipeline) : TicketsOf(Pipeline)[i].id = Pipeline[i].id
    <3>1. \A i \in 1..Len(Pipeline) : TicketsOf(Pipeline)[i] = Ticket(Pipeline[i])
      BY <1>1, TicketsAreSeq
    <3>2. \A i \in 1..Len(Pipeline) : Ticket(Pipeline[i]).id = Pipeline[i].id
      BY DEF Ticket
    <3>3. QED
      BY <3>1, <3>2
  <2>3. \A i \in 1..Len(Pipeline) : Pipeline[i].id \in Nat
    <3>1. \A i \in 1..Len(Pipeline) : Pipeline[i] \in Frame
      BY <1>1, ElementOfSeq
    <3>2. QED
      BY <3>1 DEF Frame
  <2>4. shown \in Nat /\ queued \in Nat
    BY DEF Inv, TypeOK
  <2>5. QED
    BY <1>3, <1>5, <2>1, <2>2, <2>3, <2>4 DEF FlightInOrder
<1>8. f.release > timeline_ /\ timeline_' = f.release
  <2>1. timeline_ \in Nat
    BY DEF Inv, TypeOK
  <2> HIDE DEF f
  <2>2. QED
    BY <1>3, <1>4, <2>1
<1>9. UNCHANGED <<sync_value, shown>>
  BY <1>4
<1> HIDE DEF f
<1>10. PICK id \in 1..MaxSets, t \in 1..(2 * MaxSets) :
         f = [id |-> id, release |-> t]
  BY <1>3, <1>5
<1>11. Handoff!Offer([id |-> id, release |-> t])
  BY <1>2, <1>6, <1>7, <1>8, <1>9, <1>10 DEF Handoff!Offer, TicketsOf, Ticket
<1>12. QED
  BY <1>11 DEF Handoff!Next

LEMMA StepIsHandoff ==
  ASSUME Inv, Inv', Counted, Counted', FlightInOrder, [Next]_vars
  PROVE  [Handoff!Next]_Handoff!vars
<1>0. Pipeline \in Seq(Frame)
  BY PipelineIsSeq DEF Inv
<1>1. ASSUME Pipeline' = Pipeline, UNCHANGED <<timeline_, sync_value, shown>>
      PROVE  UNCHANGED Handoff!vars
  BY <1>1 DEF Handoff!vars
<1>2. ASSUME NEW h \in Handles, HwcSet(h)
      PROVE  [Handoff!Next]_Handoff!vars
  <2>1. UNCHANGED <<sync_value, shown, wframe, composite_queue_>>
    BY <1>2 DEF HwcSet, worker
  <2>2. CASE QueueNewHandle(h)
    BY <1>2, <2>2, QueuedIsOffered
  <2>3. CASE QueueSameHandle(h)
    <3>1. Pipeline' = Pipeline /\ timeline_' = timeline_ + 1
      BY <2>1, <2>3, PipelineStays DEF QueueSameHandle
    <3>2. Handoff!Repeat
      BY <2>1, <3>1 DEF Handoff!Repeat
    <3>3. QED
      BY <3>2 DEF Handoff!Next
  <2>4. CASE SkipFrame
    BY <1>1, <2>1, <2>4, PipelineStays DEF SkipFrame
  <2>5. QED
    BY <1>2, <2>2, <2>3, <2>4 DEF HwcSet
<1>3. CASE WorkerTimeout \/ WorkerFinish
  <2>1. /\ Pipeline # <<>> /\ Head(Pipeline) = wframe /\ Pipeline' = Tail(Pipeline)
    BY <1>3, Taken
  <2>2. /\ TicketsOf(Pipeline) # <<>> /\ Head(TicketsOf(Pipeline)).release = wframe.release
        /\ TicketsOf(Pipeline') = Tail(TicketsOf(Pipeline))
    BY <1>0, <2>1, TicketsTail DEF Ticket
  <2>3. /\ UNCHANGED <<timeline_, shown>>
        /\ sync_value' = sync_value \/ sync_value' = wframe.release
    <3>1. CASE WorkerTimeout
      BY <3>1 DEF WorkerTimeout, timeline
    <3>2. CASE WorkerFinish
      <4>1. /\ sync_value = timeline_current_ /\ sync_value \in Nat
            /\ wframe.release \in Nat
        BY DEF Inv, BuffersKept, TypeOK, Frame
      <4>2. UNCHANGED <<timeline_, shown>>
        BY <3>2 DEF WorkerFinish
      <4>3. \/ sync_value' = sync_value
            \/ sync_value' = sync_value + (wframe.release - timeline_current_)
        BY <3>2 DEF WorkerFinish, FinishComposition, TimelineInc
      <4>4. QED
        BY <4>1, <4>2, <4>3
    <3>3. QED
      BY <1>3, <3>1, <3>2
  <2>4. CASE sync_value' = sync_value
    <3>1. Handoff!Drop
      BY <2>2, <2>3, <2>4 DEF Handoff!Drop, TicketsOf, Ticket
    <3>2. QED
      BY <3>1 DEF Handoff!Next
  <2>5. CASE sync_value' = wframe.release
    <3>1. Handoff!Finish
      BY <2>2, <2>3, <2>5 DEF Handoff!Finish, TicketsOf, Ticket
    <3>2. QED
      BY <3>1 DEF Handoff!Next
  <2>6. QED
    BY <2>3, <2>4, <2>5
<1>4. CASE WorkerConvert
  <2>1. /\ Pipeline' = Pipeline /\ UNCHANGED <<timeline_, sync_value>>
        /\ wpc = "convert" /\ shown' \in {shown, wframe.id}
    BY <1>4, PipelineStays DEF WorkerConvert, producer, timeline
  <2>2. CASE shown' = shown
    BY <1>1, <2>1, <2>2
  <2>3. CASE shown' = wframe.id
    <3>1. wframe # NoFrame
      BY <2>1 DEF Inv, FramesFollowPcs
    <3>2. Pipeline # <<>> /\ Head(Pipeline) = wframe
      BY <3>1, PipelineJoins, JoinTaken DEF Inv, TypeOK
    <3>3. 1 \in 1..Len(Pipeline) /\ Pipeline[1] = wframe
      BY <1>0, <3>2, EmptySeq, HeadTailProperties
    <3>4. shown < wframe.id
      BY <2>1, <3>3 DEF FlightInOrder
    <3>5. TicketsOf(Pipeline) # <<>> /\ Head(TicketsOf(Pipeline)).id = wframe.id
      BY <1>0, <3>2, TicketsTail DEF Ticket
    <3>6. Handoff!Show
      BY <2>1, <2>3, <3>4, <3>5 DEF Handoff!Show, TicketsOf, Ticket
    <3>7. QED
      BY <3>6 DEF Handoff!Next
  <2>4. QED
    BY <2>1, <2>2, <2>3
<1>5. CASE QueuePush \/ WorkerPop
  BY <1>1, <1>5, Moved DEF QueuePush, WorkerPop, history, timeline
<1>6. ASSUME Pipeline' = Pipeline, UNCHANGED <<timeline, shown>>
      PROVE  [Handoff!Next]_Handoff!vars
  BY <1>1, <1>6 DEF timeline
<1>7. QED
  BY <1>2, <1>3, <1>4, <1>5, <1>6, OthersStay DEF Next, InQueueComposite, InRoutine

(* The hand-off of frames between SurfaceFlinger's thread and the worker
   implements FrameHandoff: no frame is shown out of order or twice, and no
   release fence signals before its frame has left the pipeline, whatever
   times out or fails on the way. *)
THEOREM HandoffRefined == Spec => ImplementsHandoff
<1> DEFINE Good == Counted /\ FlightInOrder
<1>1. Init /\ Inv => Good
  <2> SUFFICES ASSUME Init, Inv PROVE Good
    OBVIOUS
  <2>1. Pipeline = <<>>
    BY PipelineJoins, PresentIsSeq, NoFrameIsFrame, ConcatEmptySeq DEF Init, Pipeline
  <2>2. FlightInOrder
    BY <2>1 DEF Init, FlightInOrder
  <2>3. Counted
    BY ConstantsAssumption DEF Init, Counted
  <2>4. QED
    BY <2>2, <2>3
<1>2. Inv /\ Good /\ [Next]_vars => Good'
  BY CountedStep, FlightStep
<1>3. Inv /\ Inv' /\ Good /\ Good' /\ [Next]_vars => [Handoff!Next]_Handoff!vars
  BY StepIsHandoff
<1> HIDE DEF Good
<1>4. QED
  BY <1>1, <1>2, <1>3, Invariance, HandoffInit, PTL
     DEF Spec, ImplementsHandoff, Handoff!Spec
===============================================================================
