---------------------------- MODULE EinkCompositor ----------------------------
(***************************************************************************)
(* The frame hand-off of the e-ink HWC: SurfaceFlinger's thread, inside    *)
(* hwc_set, queues the framebuffer target with                             *)
(* EinkCompositorWorker::QueueComposite; the "Eink-compositor" thread      *)
(* (Worker::InternalRoutine -> Routine -> Compose) pops it, waits for its  *)
(* acquire fence, converts and posts it, and punches its release fence on  *)
(* a sw_sync timeline.  The GPU, driven by SurfaceFlinger, may draw into a *)
(* buffer again once the buffer's last release fence has signalled.        *)
(*                                                                         *)
(* Two mutexes guard the queue: Worker::lock_ (with cond_) and eink_lock_  *)
(* (with eink_queue_cond_).  A condition variable is the set of threads    *)
(* blocked on it; a blocked thread that is no longer in the set has been   *)
(* woken and must still take its mutex back.  A frame is a number: the     *)
(* n-th picture SurfaceFlinger rendered.  What a commit does to the panel  *)
(* and how the display mode is chosen are not modelled here.               *)
(***************************************************************************)
EXTENDS Integers, Sequences

CONSTANTS
  Handles,        \* the gralloc buffers SurfaceFlinger rotates through
  NoHandle,       \* a null buffer_handle_t
  MaxQueueDepth,  \* kMaxQueueDepth
  MaxSets,        \* bound: calls of hwc_set
  MaxFaults,      \* bound: renders slower than the wait, failing increments
  MaxSpurious     \* bound: wake-ups nobody signalled

ASSUME ConstantsAssumption ==
  /\ NoHandle \notin Handles
  /\ MaxQueueDepth \in Nat \ {0}
  /\ MaxSets \in Nat
  /\ MaxFaults \in Nat
  /\ MaxSpurious \in Nat

VARIABLES
  lock_,             \* owner of Worker::lock_
  eink_lock_,        \* owner of EinkCompositorWorker::eink_lock_
  cond_,             \* threads blocked on Worker::cond_
  eink_queue_cond_,  \* threads blocked on eink_queue_cond_
  composite_queue_,  \* the queued compositions
  timeline_,         \* the last fence point created
  timeline_current_, \* the point FinishComposition believes it has reached
  last_fb_handle,    \* the buffer queued last
  ppc, pframe,       \* SurfaceFlinger's thread: where it is, its composition
  wpc, wframe,       \* the worker thread: where it is, its composition
  sync_value,        \* the kernel's value of the sw_sync timeline
  owed,              \* per buffer, the release fence SurfaceFlinger holds
  jobs, gpu_done,    \* GPU jobs submitted (n-th job draws frame n), jobs done
  content,           \* per buffer, the frame drawn in it
  shown,             \* the frame posted last
  sets,              \* calls of hwc_set so far
  queued, skipped,   \* history: last frame queued; one was skipped since
  dropped,           \* history: a composition was given up or left unpunched
                     \* since the last successful FinishComposition
  faults, spurious   \* counters of what MaxFaults and MaxSpurious bound

locks == <<lock_, eink_lock_, cond_, eink_queue_cond_>>
timeline == <<timeline_, timeline_current_, sync_value>>
gpu == <<jobs, gpu_done, content>>
history == <<shown, sets, queued, skipped, dropped, faults, spurious>>
producer == <<ppc, pframe, last_fb_handle, owed>>
worker == <<wpc, wframe>>

vars == <<lock_, eink_lock_, cond_, eink_queue_cond_, composite_queue_,
          timeline_, timeline_current_, last_fb_handle, ppc, pframe, wpc,
          wframe, sync_value, owed, jobs, gpu_done, content, shown, sets,
          queued, skipped, dropped, faults, spurious>>

Free == "free"
SF == "sf"
Thread == "worker"

(* A composition; id 0 stands for the empty unique_ptr. *)
Frame == [id : Nat, handle : Handles \cup {NoHandle}, release : Nat]
NoFrame == [id |-> 0, handle |-> NoHandle, release |-> 0]

Init ==
  /\ lock_ = Free /\ eink_lock_ = Free
  /\ cond_ = {} /\ eink_queue_cond_ = {}
  /\ composite_queue_ = <<>>
  /\ timeline_ = 0 /\ timeline_current_ = 0 /\ sync_value = 0
  /\ last_fb_handle = NoHandle
  /\ ppc = "idle" /\ pframe = NoFrame
  /\ wpc = "top" /\ wframe = NoFrame
  /\ owed = [h \in Handles |-> 0]
  /\ jobs = <<>> /\ gpu_done = 0
  /\ content = [h \in Handles |-> 0]
  /\ shown = 0 /\ sets = 0 /\ queued = 0 /\ skipped = FALSE
  /\ dropped = FALSE /\ faults = 0 /\ spurious = 0
-------------------------------------------------------------------------------
(***************************************************************************)
(* The GPU.                                                                *)
(***************************************************************************)

(* The buffer SurfaceFlinger presented last. *)
Front == IF jobs = <<>> THEN NoHandle ELSE jobs[Len(jobs)].handle

(* SurfaceFlinger draws a new picture into a buffer it is not showing; the
   GPU must first wait for the buffer's release fence. *)
Render(h) == /\ h # Front
             /\ jobs' = Append(jobs, [handle |-> h, after |-> owed[h]])
             /\ UNCHANGED <<gpu_done, content>>

(* The GPU is at a job whose buffer has not been given back. *)
GpuBlocked == /\ gpu_done < Len(jobs)
              /\ jobs[gpu_done + 1].after > sync_value

GpuDraw == /\ gpu_done < Len(jobs)
           /\ ~GpuBlocked
           /\ gpu_done' = gpu_done + 1
           /\ content' = [content EXCEPT ![jobs[gpu_done'].handle] = gpu_done']
           /\ UNCHANGED <<locks, composite_queue_, timeline, producer, worker,
                          jobs, history>>
-------------------------------------------------------------------------------
(***************************************************************************)
(* SurfaceFlinger's thread: hwc_set and QueueComposite.                    *)
(***************************************************************************)

(* Variant: compare with the buffer being composed, too. *)
IsNewHandle_Composed(h) == h \notin {last_fb_handle, wframe.handle}

(* layer->handle != last_fb_handle *)
IsNewHandle(h) == h # last_fb_handle

(* Variant: the retire fence's point instead of the release fence's. *)
NewFrame_RetirePoint(h) ==
  [id |-> Len(jobs'), handle |-> h, release |-> timeline_ + 1]

(* The composition QueueComposite builds: its release fence is the second
   point it takes, the first being the retire fence. *)
NewFrame(h) == [id |-> Len(jobs'), handle |-> h, release |-> timeline_ + 2]

(* The layer is another buffer than the last one queued: both fences are
   created and the composition is ready to be queued. *)
QueueNewHandle(h) ==
  /\ IsNewHandle(h)
  /\ pframe' = NewFrame(h)
  /\ timeline_' = timeline_ + 2
  /\ owed' = [owed EXCEPT ![h] = timeline_']
  /\ last_fb_handle' = h
  /\ ppc' = "lock"
  /\ queued' = Len(jobs')
  /\ skipped' = FALSE

(* "fb-handle is same": a retire fence is created and nothing is queued. *)
QueueSameHandle(h) ==
  /\ ~IsNewHandle(h)
  /\ timeline_' = timeline_ + 1
  /\ UNCHANGED <<ppc, pframe, owed, last_fb_handle, queued, skipped>>

(* Suspended: no composition; hwc_set waits, without timeout, for the
   acquire fence of the frame it skips. *)
SkipFrame == /\ ppc' = "skip"
             /\ skipped' = TRUE
             /\ UNCHANGED <<timeline_, pframe, owed, last_fb_handle, queued>>

(* hwc_set up to the first lock: a new picture, or the last one once more. *)
HwcSet(h) ==
  /\ ppc = "idle" /\ sets < MaxSets
  /\ \/ Render(h)
     \/ h = Front /\ UNCHANGED gpu
  /\ \/ QueueNewHandle(h)
     \/ QueueSameHandle(h)
     \/ SkipFrame
  /\ sets' = sets + 1
  /\ UNCHANGED <<locks, composite_queue_, timeline_current_, sync_value,
                 worker, shown, dropped, faults, spurious>>

(* sync_wait(acquireFenceFd, -1) of a skipped frame returns. *)
SkipDone == /\ ppc = "skip"
            /\ gpu_done = Len(jobs)
            /\ ppc' = "idle"
            /\ UNCHANGED <<locks, composite_queue_, timeline, pframe, owed,
                           last_fb_handle, worker, gpu, history>>

(* Lock() *)
QueueLock == /\ ppc = "lock" /\ lock_ = Free
             /\ lock_' = SF
             /\ ppc' = "elock"
             /\ UNCHANGED <<eink_lock_, cond_, eink_queue_cond_,
                            composite_queue_, timeline, pframe, owed,
                            last_fb_handle, worker, gpu, history>>

(* pthread_mutex_lock(&eink_lock_) *)
QueueEinkLock == /\ ppc = "elock" /\ eink_lock_ = Free
                 /\ eink_lock_' = SF
                 /\ ppc' = "check"
                 /\ UNCHANGED <<lock_, cond_, eink_queue_cond_,
                                composite_queue_, timeline, pframe, owed,
                                last_fb_handle, worker, gpu, history>>

(* Variant: room for one more than kMaxQueueDepth. *)
QueueFull_OneMore == Len(composite_queue_) > MaxQueueDepth

QueueFull == Len(composite_queue_) >= MaxQueueDepth

(* The queue is full: Unlock() ... *)
QueueUnlock == /\ ppc = "check" /\ QueueFull
               /\ lock_' = Free
               /\ ppc' = "wait"
               /\ UNCHANGED <<eink_lock_, cond_, eink_queue_cond_,
                              composite_queue_, timeline, pframe, owed,
                              last_fb_handle, worker, gpu, history>>

(* ... pthread_cond_wait(&eink_queue_cond_, &eink_lock_) blocks ... *)
QueueWait == /\ ppc = "wait"
             /\ eink_lock_' = Free
             /\ eink_queue_cond_' = eink_queue_cond_ \cup {SF}
             /\ ppc' = "blocked"
             /\ UNCHANGED <<lock_, cond_, composite_queue_, timeline, pframe,
                            owed, last_fb_handle, worker, gpu, history>>

(* ... and returns holding eink_lock_ ... *)
QueueWake == /\ ppc = "blocked" /\ SF \notin eink_queue_cond_
             /\ eink_lock_ = Free
             /\ eink_lock_' = SF
             /\ ppc' = "relock"
             /\ UNCHANGED <<lock_, cond_, eink_queue_cond_, composite_queue_,
                            timeline, pframe, owed, last_fb_handle, worker,
                            gpu, history>>

(* ... and Lock() is taken inside eink_lock_, the other way round. *)
QueueRelock == /\ ppc = "relock" /\ lock_ = Free
               /\ lock_' = SF
               /\ ppc' = "check"
               /\ UNCHANGED <<eink_lock_, cond_, eink_queue_cond_,
                              composite_queue_, timeline, pframe, owed,
                              last_fb_handle, worker, gpu, history>>

(* push(std::move(composition)); pthread_mutex_unlock(&eink_lock_) *)
QueuePush == /\ ppc = "check" /\ ~QueueFull
             /\ composite_queue_' = Append(composite_queue_, pframe)
             /\ pframe' = NoFrame
             /\ eink_lock_' = Free
             /\ ppc' = "signal"
             /\ UNCHANGED <<lock_, cond_, eink_queue_cond_, timeline, owed,
                            last_fb_handle, worker, gpu, history>>

(* Variant: no signal. *)
SignalLocked_Missing == UNCHANGED cond_

(* pthread_cond_signal(&cond_): the worker is the only thread that waits. *)
SignalLocked == cond_' = cond_ \ {Thread}

(* SignalLocked(); Unlock() *)
QueueSignal == /\ ppc = "signal"
               /\ SignalLocked
               /\ lock_' = Free
               /\ ppc' = "idle"
               /\ UNCHANGED <<eink_lock_, eink_queue_cond_, composite_queue_,
                              timeline, pframe, owed, last_fb_handle, worker,
                              gpu, history>>

InQueueComposite == \/ SkipDone \/ QueueLock \/ QueueEinkLock \/ QueueUnlock
                    \/ QueueWait \/ QueueWake \/ QueueRelock \/ QueuePush
                    \/ QueueSignal
-------------------------------------------------------------------------------
(***************************************************************************)
(* The worker thread: InternalRoutine, Routine and Compose.  exit_ is never *)
(* set in this program, so the thread never leaves its loop.               *)
(***************************************************************************)

(* InternalRoutine: Lock(), read exit_, Unlock(), call Routine. *)
WorkerTop == /\ wpc = "top" /\ lock_ = Free
             /\ wpc' = "lock"
             /\ UNCHANGED <<locks, composite_queue_, timeline, producer,
                            wframe, gpu, history>>

(* Routine: Lock() *)
WorkerLock == /\ wpc = "lock" /\ lock_ = Free
              /\ lock_' = Thread
              /\ wpc' = "empty"
              /\ UNCHANGED <<eink_lock_, cond_, eink_queue_cond_,
                             composite_queue_, timeline, producer, wframe, gpu,
                             history>>

(* composite_queue_.empty(): WaitForSignalOrExitLocked blocks ... *)
WorkerWait == /\ wpc = "empty" /\ composite_queue_ = <<>>
              /\ lock_' = Free
              /\ cond_' = cond_ \cup {Thread}
              /\ wpc' = "blocked"
              /\ UNCHANGED <<eink_lock_, eink_queue_cond_, composite_queue_,
                             timeline, producer, wframe, gpu, history>>

(* ... and returns holding lock_; the queue is not looked at again. *)
WorkerWake == /\ wpc = "blocked" /\ Thread \notin cond_ /\ lock_ = Free
              /\ lock_' = Thread
              /\ wpc' = "elock"
              /\ UNCHANGED <<eink_lock_, cond_, eink_queue_cond_,
                             composite_queue_, timeline, producer, wframe, gpu,
                             history>>

(* The queue holds a composition: no wait. *)
WorkerReady == /\ wpc = "empty" /\ composite_queue_ # <<>>
               /\ wpc' = "elock"
               /\ UNCHANGED <<locks, composite_queue_, timeline, producer,
                              wframe, gpu, history>>

(* pthread_mutex_lock(&eink_lock_), inside lock_ *)
WorkerEinkLock == /\ wpc = "elock" /\ eink_lock_ = Free
                  /\ eink_lock_' = Thread
                  /\ wpc' = "pop"
                  /\ UNCHANGED <<lock_, cond_, eink_queue_cond_,
                                 composite_queue_, timeline, producer, wframe,
                                 gpu, history>>

(* Variant: no signal. *)
SignalQueue_Missing == UNCHANGED eink_queue_cond_

(* pthread_cond_signal(&eink_queue_cond_): only SurfaceFlinger waits. *)
SignalQueue == eink_queue_cond_' = eink_queue_cond_ \ {SF}

(* pop() and pthread_cond_signal(&eink_queue_cond_), if there is one;
   pthread_mutex_unlock(&eink_lock_) *)
WorkerPop ==
  /\ wpc = "pop"
  /\ \/ /\ composite_queue_ # <<>>
        /\ wframe' = Head(composite_queue_)
        /\ composite_queue_' = Tail(composite_queue_)
        /\ SignalQueue
     \/ /\ composite_queue_ = <<>>
        /\ UNCHANGED <<wframe, composite_queue_, eink_queue_cond_>>
  /\ eink_lock_' = Free
  /\ wpc' = "unlock"
  /\ UNCHANGED <<lock_, cond_, timeline, producer, gpu, history>>

(* Unlock(); Compose returns at once if there is no composition. *)
WorkerUnlock == /\ wpc = "unlock"
                /\ lock_' = Free
                /\ wpc' = IF wframe = NoFrame THEN "top" ELSE "acquire"
                /\ UNCHANGED <<eink_lock_, cond_, eink_queue_cond_,
                               composite_queue_, timeline, producer, wframe,
                               gpu, history>>

(* sync_wait(acquire fence, kAcquireWaitTimeoutMs) returns 0 *)
WorkerAcquire == /\ wpc = "acquire"
                 /\ wframe.id <= gpu_done
                 /\ wpc' = "convert"
                 /\ UNCHANGED <<locks, composite_queue_, timeline, producer,
                                wframe, gpu, history>>

(* The wait times out and Compose returns without FinishComposition.  The
   GPU may just be slow (bounded), or it may be waiting for a fence. *)
WorkerTimeout == /\ wpc = "acquire"
                 /\ wframe.id > gpu_done
                 /\ \/ GpuBlocked /\ UNCHANGED faults
                    \/ faults < MaxFaults /\ faults' = faults + 1
                 /\ wpc' = "top" /\ wframe' = NoFrame
                 /\ dropped' = TRUE
                 /\ UNCHANGED <<locks, composite_queue_, timeline, producer,
                                gpu, shown, sets, queued, skipped, spurious>>

(* SetEinkMode or SetColorEinkMode: the buffer is read and posted.  They
   never fail; nothing is posted when there is no RGA. *)
WorkerConvert == /\ wpc = "convert"
                 /\ shown' \in {shown, wframe.id}
                 /\ wpc' = "finish"
                 /\ UNCHANGED <<locks, composite_queue_, timeline, producer,
                                wframe, gpu, sets, queued, skipped, dropped,
                                faults, spurious>>

(* sw_sync_timeline_inc(timeline_fd_, increase) succeeds. *)
TimelineInc(increase) == sync_value' = sync_value + increase

(* Variants: by the point itself instead of the distance to it; by the
   distance the other way round. *)
FinishComposition_Point(point) ==
  /\ TimelineInc(point) /\ timeline_current_' = point
  /\ dropped' = FALSE
  /\ UNCHANGED faults
FinishComposition_Swapped(point) ==
  /\ TimelineInc(timeline_current_ - point) /\ timeline_current_' = point
  /\ dropped' = FALSE
  /\ UNCHANGED faults

(* FinishComposition(point); the composition is freed and Routine returns. *)
FinishComposition(point) ==
  \/ /\ point - timeline_current_ <= 0
     /\ UNCHANGED <<timeline_current_, sync_value, dropped, faults>>
  \/ /\ point - timeline_current_ > 0
     /\ TimelineInc(point - timeline_current_)
     /\ timeline_current_' = point
     /\ dropped' = FALSE
     /\ UNCHANGED faults
  \/ /\ point - timeline_current_ > 0
     /\ faults < MaxFaults
     /\ faults' = faults + 1
     /\ dropped' = TRUE
     /\ UNCHANGED <<timeline_current_, sync_value>>

WorkerFinish == /\ wpc = "finish"
                /\ FinishComposition(wframe.release)
                /\ wframe' = NoFrame
                /\ wpc' = "top"
                /\ UNCHANGED <<locks, composite_queue_, timeline_, producer,
                               gpu, shown, sets, queued, skipped, spurious>>

InRoutine == \/ WorkerTop \/ WorkerLock \/ WorkerWait \/ WorkerWake
             \/ WorkerReady \/ WorkerEinkLock \/ WorkerPop \/ WorkerUnlock
             \/ WorkerAcquire \/ WorkerTimeout \/ WorkerConvert
             \/ WorkerFinish
-------------------------------------------------------------------------------
(* pthread_cond_wait may return without a signal; neither wait of Routine
   checks why it returned. *)
SpuriousWakeup ==
  /\ spurious < MaxSpurious
  /\ spurious' = spurious + 1
  /\ \/ Thread \in cond_ /\ cond_' = cond_ \ {Thread}
                         /\ UNCHANGED eink_queue_cond_
     \/ SF \in eink_queue_cond_ /\ eink_queue_cond_' = eink_queue_cond_ \ {SF}
                                /\ UNCHANGED cond_
  /\ UNCHANGED <<lock_, eink_lock_, composite_queue_, timeline, producer,
                 worker, gpu, shown, sets, queued, skipped, dropped, faults>>

(* Nothing to do: SurfaceFlinger makes no more calls, the worker waits. *)
AllQuiet == /\ ppc = "idle" /\ sets = MaxSets
            /\ wpc = "blocked" /\ Thread \in cond_
            /\ gpu_done = Len(jobs)
            /\ UNCHANGED vars

Next == \/ \E h \in Handles : HwcSet(h)
        \/ InQueueComposite
        \/ InRoutine
        \/ GpuDraw
        \/ SpuriousWakeup
        \/ AllQuiet

Spec == Init /\ [][Next]_vars

(* Both threads are scheduled while they can run, and the GPU finishes what
   it can start; SurfaceFlinger need not call hwc_set again. *)
Fairness == WF_vars(InQueueComposite) /\ WF_vars(InRoutine) /\ WF_vars(GpuDraw)

FairSpec == Spec /\ Fairness
-------------------------------------------------------------------------------
TypeOK ==
  /\ lock_ \in {Free, SF, Thread} /\ eink_lock_ \in {Free, SF, Thread}
  /\ cond_ \subseteq {Thread} /\ eink_queue_cond_ \subseteq {SF}
  /\ composite_queue_ \in Seq(Frame)
  /\ timeline_ \in Nat /\ timeline_current_ \in Nat /\ sync_value \in Nat
  /\ last_fb_handle \in Handles \cup {NoHandle}
  /\ ppc \in {"idle", "skip", "lock", "elock", "check", "wait", "blocked",
              "relock", "signal"}
  /\ wpc \in {"top", "lock", "empty", "blocked", "elock", "pop", "unlock",
              "acquire", "convert", "finish"}
  /\ pframe \in Frame /\ wframe \in Frame
  /\ owed \in [Handles -> Nat]
  /\ jobs \in Seq([handle : Handles, after : Nat])
  /\ gpu_done \in 0..Len(jobs)
  /\ content \in [Handles -> Nat]
  /\ shown \in Nat /\ sets \in Nat /\ queued \in Nat
  /\ skipped \in BOOLEAN /\ dropped \in BOOLEAN
  /\ faults \in Nat /\ spurious \in Nat

(* The compositions between the two ends of the pipeline, oldest first. *)
Present(f) == IF f = NoFrame THEN <<>> ELSE <<f>>
Pipeline == Present(wframe) \o composite_queue_ \o Present(pframe)

(* While the worker reads a buffer, the buffer holds the picture that was
   queued: the fences keep the GPU from drawing the next one into it. *)
BufferStable == wpc = "convert" => content[wframe.handle] = wframe.id

(* A signal is never lost: a thread stays blocked only while it has nothing
   to do, or the other one is about to signal. *)
NoLostWakeup ==
  /\ Thread \in cond_ /\ composite_queue_ # <<>> => ppc = "signal"
  /\ SF \in eink_queue_cond_ => QueueFull

(* Each thread holds the lock the other one wants. *)
LockCycle == /\ lock_ = Thread /\ wpc = "elock"
             /\ eink_lock_ = SF /\ ppc = "relock"

(* With one slot in the queue the reversed order of QueueRelock and
   WorkerEinkLock is harmless, as long as nobody is woken without a signal. *)
NoLockCycle == MaxQueueDepth = 1 /\ spurious = 0 => ~LockCycle

(* Where each can go on: the guards of InQueueComposite, of InRoutine (a wait
   that times out only because the GPU is slow aside) and of GpuDraw. *)
ProducerCanGo ==
  \/ ppc = "skip" /\ gpu_done = Len(jobs)
  \/ ppc \in {"lock", "relock"} /\ lock_ = Free
  \/ ppc = "elock" /\ eink_lock_ = Free
  \/ ppc \in {"check", "wait", "signal"}
  \/ ppc = "blocked" /\ SF \notin eink_queue_cond_ /\ eink_lock_ = Free

WorkerCanGo ==
  \/ wpc \in {"top", "lock"} /\ lock_ = Free
  \/ wpc \in {"empty", "pop", "unlock", "convert", "finish"}
  \/ wpc = "blocked" /\ Thread \notin cond_ /\ lock_ = Free
  \/ wpc = "elock" /\ eink_lock_ = Free
  \/ wpc = "acquire" /\ (wframe.id <= gpu_done \/ GpuBlocked)

GpuCanGo == gpu_done < Len(jobs) /\ ~GpuBlocked

(* Everybody waits for somebody only in the lock cycle, with nothing queued
   and no call of hwc_set, or with nothing queued and a skipped call waiting
   for a GPU that waits for the fence of a dropped composition. *)
StopsOnlyDrained ==
  \/ ProducerCanGo \/ WorkerCanGo \/ GpuCanGo
  \/ LockCycle
  \/ /\ wpc = "blocked" /\ Thread \in cond_ /\ composite_queue_ = <<>>
     /\ ppc = "idle" \/ (ppc = "skip" /\ GpuBlocked /\ dropped)

(***************************************************************************)
(* The inductive invariant behind the safety properties above and below.   *)
(***************************************************************************)

(* Who holds which lock follows from where the threads are. *)
LocksFollowPcs ==
  /\ lock_ = SF <=> ppc \in {"elock", "check", "signal"}
  /\ lock_ = Thread <=> wpc \in {"empty", "elock", "pop", "unlock"}
  /\ eink_lock_ = SF <=> ppc \in {"check", "wait", "relock"}
  /\ eink_lock_ = Thread <=> wpc = "pop"
  /\ Thread \in cond_ => wpc = "blocked"
  /\ SF \in eink_queue_cond_ => ppc = "blocked"

(* What a thread knows of the queue while it goes from one lock to another. *)
QueueFollowsPcs ==
  /\ Len(composite_queue_) <= MaxQueueDepth
  /\ ppc = "wait" => QueueFull
  /\ ppc = "signal" => composite_queue_ # <<>>
  /\ MaxQueueDepth = 1 /\ spurious = 0 =>
       /\ ppc = "relock" \/ (ppc = "blocked" /\ SF \notin eink_queue_cond_)
            => composite_queue_ = <<>>
       /\ wpc = "elock" \/ (wpc = "blocked" /\ Thread \notin cond_)
            => composite_queue_ # <<>>

(* A frame whose release fence has not signalled keeps its buffer: the jobs
   behind it that want the buffer wait for that fence. *)
KeepsBuffer(f) ==
  /\ f.id \in 1..Len(jobs) /\ f.handle \in Handles
  /\ jobs[f.id].handle = f.handle
  /\ f.release > sync_value /\ f.release <= timeline_
  /\ f.release <= owed[f.handle]
  /\ f.id <= gpu_done => content[f.handle] = f.id
  /\ \A k \in 1..Len(jobs) :
       k > f.id /\ jobs[k].handle = f.handle => jobs[k].after >= f.release

(* Who holds a composition follows from where the threads are. *)
FramesFollowPcs ==
  /\ pframe # NoFrame <=>
       ppc \in {"lock", "elock", "check", "wait", "blocked", "relock"}
  /\ wframe # NoFrame => wpc \in {"unlock", "acquire", "convert", "finish"}
  /\ wpc \in {"acquire", "convert", "finish"} => wframe # NoFrame
  /\ wpc = "convert" => wframe.id <= gpu_done

(* The frames in the pipeline keep their buffers. *)
BuffersKept ==
  /\ sync_value = timeline_current_ /\ sync_value <= timeline_
  /\ gpu_done > 0 => content[jobs[gpu_done].handle] = gpu_done
  /\ pframe # NoFrame => KeepsBuffer(pframe)
  /\ wframe # NoFrame => KeepsBuffer(wframe)
  /\ \A i \in 1..Len(composite_queue_) : KeepsBuffer(composite_queue_[i])

(* The frames in the pipeline are in the order of the timeline. *)
ReleasesInOrder ==
  /\ \A i, j \in 1..Len(composite_queue_) :
       i < j => composite_queue_[i].release < composite_queue_[j].release
  /\ \A i \in 1..Len(composite_queue_) :
       /\ wframe.release < composite_queue_[i].release
       /\ pframe # NoFrame => composite_queue_[i].release < pframe.release
  /\ pframe # NoFrame => wframe.release < pframe.release

(* The compositions in the pipeline, as a set. *)
HeldFrames ==
  ({pframe, wframe} \ {NoFrame})
    \cup {composite_queue_[i] : i \in 1..Len(composite_queue_)}

(* A release fence that has not signalled belongs to a frame in the pipeline,
   or a composition was dropped and any frame still in it comes later. *)
OwedAccounted ==
  \A h \in Handles :
    /\ owed[h] <= timeline_
    /\ \/ owed[h] <= sync_value
       \/ \E f \in HeldFrames : f.release = owed[h]
       \/ dropped /\ \A f \in HeldFrames : owed[h] < f.release

Inv == /\ TypeOK /\ LocksFollowPcs /\ QueueFollowsPcs
       /\ FramesFollowPcs /\ BuffersKept /\ ReleasesInOrder
       /\ OwedAccounted

(* Once the pipeline is empty, and if no composition failed since the last
   one that finished, every buffer is back with SurfaceFlinger. *)
DrainedReleasesAll ==
  HeldFrames = {} /\ ~dropped => \A h \in Handles : owed[h] <= sync_value

(* A picture is withheld from the panel because its buffer is the one queued
   last only if a frame was skipped in between. *)
NothingNewWithheld ==
  [][\A h \in Handles : HwcSet(h) /\ QueueSameHandle(h) =>
       queued = Len(jobs') \/ skipped]_vars

(* The queue changes only in the hands of a thread that holds both locks. *)
QueueUnderBothLocks ==
  [][composite_queue_' # composite_queue_ =>
       lock_ # Free /\ eink_lock_ = lock_]_vars

(* hwc_set returns. *)
HwcSetReturns == ppc # "idle" ~> ppc = "idle"

(* QueueComposite returns, whatever happens to the frames: only the wait for
   the acquire fence of a skipped frame depends on the fences.  The one thing
   that stops it is the reversed order of the locks, which it meets only after
   a wake-up that nobody signalled. *)
QueueCompositeReturns ==
  ppc \notin {"idle", "skip"} ~> ppc = "idle" \/ LockCycle

(* Every release fence signals: those a buffer owes only grow. *)
FencesSignal ==
  \A h \in Handles : owed[h] > sync_value ~> owed[h] <= sync_value

(* The hand-off implements the abstract one: at most the queue, the worker's
   composition and the one waiting to be queued are in flight. *)
Handoff == INSTANCE FrameHandoff WITH
  Capacity <- MaxQueueDepth + 2,
  Ids <- 1..MaxSets,
  Tickets <- 1..(2 * MaxSets),
  pending <- [i \in DOMAIN Pipeline |->
                [id |-> Pipeline[i].id, release |-> Pipeline[i].release]],
  issued <- timeline_,
  returned <- sync_value

ImplementsHandoff == Handoff!Spec
===============================================================================
