# Verification of the e-ink hardware composer (HWC 1.4, Rockchip)

This directory holds TLA+ models of the hardware composer under `src/`, the TLC
configurations that check them, and TLAPS proofs about them. SurfaceFlinger
calls the HAL with one framebuffer target per frame; the HAL converts it to 4-bit
gray (or to a colour filter array) and hands it to the EBC driver of an e-ink
panel. The panel is slow, so the work is done by a thread of its own, and most of
what is hard in this code is in the hand-off between the two threads, in the
display modes a frame may be posted with, and in what happens when the display is
turned off in the middle.

## The system

| component | source | state | operations |
|---|---|---|---|
| frame hand-off | `einkcompositorworker.cpp` 219-354, 1386-1428 | `composite_queue_` (one slot), `timeline_`, `timeline_current_`, `last_fb_handle`, two mutexes, two condition variables, a sw_sync timeline | `QueueComposite`, `Routine`, `Compose`, `FinishComposition` |
| worker thread | `worker.cpp` | `lock_`, `cond_`, `exit_`, `initialized_` | `InitWorker`, `SignalLocked`, `ExitLocked`, `WaitForSignalOrExitLocked`, `InternalRoutine` |
| display mode and power | `hwcomposer.cpp` 2303-2540 | `gPowerMode`, `gCurrentEpdMode`, `gOneFullModeTime`, statics of `hwc_adajust_sf_vsync`, `last_fb_handle_mode`, `mEinkModeLock` | `hwc_set`, `hwc_set_power_mode`, `hwc_handle_eink_mode`, `hwc_adajust_sf_vsync` |
| commit to the driver | `einkcompositorworker.cpp` 410-1384 | `gray16_buffer`, `commit_buf_info`, `gLastEpdMode`, cached driver settings, the RGA's scratch buffer (`rgaBuffers[0]`) | `SetEinkMode`, `SetColorEinkMode`, the conversions, `PostEink`, `A2Commit`, `Y4Commit`, `update_*`; `DrmRgaBuffer::Allocate` |
| gralloc attributes | `hwc_rockchip.cpp`, `drmgralloc4.cpp` | none; the mapper answers | `hwc_get_handle_attibute`, `hwc_lock`, `hwc_unlock`, `get_*` |
| file descriptors | `autofd.h`, `hwcomposer.cpp` 2528-2795, `einkcompositorworker.cpp` 60-354 | `timeline_fd_`, `ebc_fd` twice, `waveform_fd`, the acquire fences | `hwc_device_open`, `Init`, the destructor, `hwc_device_close`, `QueueComposite`, `Compose` |
| standby pictures | `hwcomposer.cpp` 2074-2301 | none of its own; it takes driver buffers | `hwc_post_epd_logo`, `hwc_post_epd` |
| vsync generator | `vsyncworker.cpp` | `enabled_`, `procs_`, `last_timestamp_` | `VSyncControl`, `SetProcs`, `Routine`, `GetPhasedVSync` |
| gray conversion, dithering, gamma, colour | `hwcomposer.cpp` 260-1056, 1725-2053 | the gamma table | `Luma8bit_to_4bit*`, `gray256_to_gray*`, `Rgb888_to_color_eink2`, `Rgb565_to_color_eink2`, `init_gamma_table` |
| region splitting | `separate_rects.cpp` | none (a sweep) | `separate_rects` |
| logging, display queries | `hwc_debug.cpp`, rest of `hwcomposer.cpp` | device data | getters |

Not built or never called: `glworker.cpp`, `autogl.h`, `autolock.cpp`,
`rgb888_to_gray_256_neon.s`, the callers of `separate_rects`, and
`hwcomposer.cpp` 1058-1517.

How they interact. SurfaceFlinger's thread calls `hwc_set` and
`hwc_set_power_mode`; both hold `mEinkModeLock` from their first to their last
line. `hwc_set` picks a mode, and `QueueComposite` creates two fences on a
timeline (the retire fence, then the release fence), and puts the buffer in a
queue of one. The "Eink-compositor" thread pops it, waits up to 3 s for its acquire
fence, converts it through the RGA, sends it to `/dev/ebc`, and advances the
timeline to the release point, which lets the GPU draw into the buffer again.
`hwc_set_power_mode(OFF)` posts the standby picture itself, through a second
descriptor of `/dev/ebc`; it does not wait for the compositor thread. The vsync
thread sleeps and calls SurfaceFlinger back.

What makes each part correct:

- hand-off: frames keep their order, none is lost without a failure; a buffer is
  not drawn into while it is read; every fence signals; no deadlock although the
  two mutexes are taken in both orders; no lost wake-up.
- modes and power: after the display was off, the first new picture is posted with
  `EPD_RESUME`; only frames queued before can cover the standby picture; A2 is
  entered through a full refresh; a one-full request is not dropped by the driver.
- commit: only the owner of a driver buffer writes to it; what is sent is the frame,
  whatever failed for the frames before it; a failing ioctl is made up for by a later
  frame; the driver is set to what the properties say.
- descriptors: none is closed twice, none is closed while somebody uses it, and none is
  left open.
- vsync: vsyncs stay in order, in phase and ahead of the clock, keep coming while vsync
  is on, and stop after it was disabled, apart from one already on its way.
- pure algorithms: the sweep covers exactly the union of the inputs with disjoint
  rectangles; dithering stays inside its lines and its four bits and keeps black and
  white; each place of a colour panel shows the channel of its filter.

The hazards behind these properties are listed, with their lines, in
`PROJECT.json`.

## Modules

`FrameHandoff` is what the hand-off promises: a pipeline of bounded capacity whose
compositions are offered, shown and finished in order, and whose release tickets
are returned in the order they were issued.

`EinkCompositor` is the hand-off as the code does it. `ppc` and `wpc` say where
SurfaceFlinger's thread and the worker are; an action is the code between two
points at which another thread can interfere, which are the mutex operations, the
condition waits and the waits for fences.

| model | code |
|---|---|
| `lock_`, `cond_` | `Worker::lock_`, the threads blocked on `Worker::cond_` |
| `eink_lock_`, `eink_queue_cond_` | the members of `EinkCompositorWorker` |
| `pframe`, `wframe` | the `composition` local of `QueueComposite`, of `Routine`/`Compose` |
| `sync_value` | the kernel's value of the timeline |
| `owed[h]` | the release fence SurfaceFlinger holds for buffer `h` |
| `jobs`, `gpu_done`, `content` | pictures given to the GPU, drawn, and what each buffer holds |
| `HwcSet` | `hwc_set` and `QueueComposite` up to `Lock()`; a new buffer, the same one, or suspended |
| `QueueLock` .. `QueueSignal`, `SkipDone` | `QueueComposite` 255-274; the wait of a suspended `hwc_set` |
| `WorkerTop` .. `WorkerFinish` | `InternalRoutine`, `Routine`, `Compose` |

A condition variable is the set of threads blocked on it, so a signal with nobody
waiting is lost, as in POSIX. `dropped`, `queued` and `skipped` are history
variables. The conversion is one action that reads the buffer; what it computes is
out of this module. A picture is a number.

`EinkMode` is `hwc_set` and `hwc_set_power_mode` at the level of modes. Whatever
runs under `mEinkModeLock` and touches nothing the compositor thread reads is one
action. `hwc_adajust_sf_vsync(mode)` and `hwc_handle_eink_mode(mode)` are
operators with the names of the functions. The compositor thread pops and sends,
and shares only the queue and the panel. `HwcSet` fixes the framebuffer target of the call
(`handle`, or `NoHandle` where `hwcomposer.cpp:2408` or `:2424` finds none) and, while the
display is off, whether its acquire fence waits for compositions that have not been released
(`fence`). What the call does next follows from them: `SetNothing` needs a call without a
target, `SetSuspended` a display that is off and a fence that signals, `SetSameHandle` the
buffer queued last, `SetNewHandle` another one and room in the queue; until then the call
waits with `mEinkModeLock`. `owed` says that a composition ended without its release point
being reached, and `leaks` counts the driver's buffers that `hwc_post_epd` lost, as in
`DriverBuffers`; the compositor thread's own wait in `EBC_GET_BUFFER` is in `DriverBuffers`
only, and here it always has its buffer. `HWC_POWER_MODE_DOZE` is not handled by the code and
changes nothing. Only gray panels are modelled here: on a colour panel there is no A2 entry
(`SetColorEinkMode`). The RGA is there: without it (`isSupportRkRga`,
`einkcompositorworker.cpp:1415`) nothing is ever sent. The property `sys.eink.mode` is
assumed not to ask for `EPD_SUSPEND`, `EPD_RESUME`, `EPD_FORCE_FULL`, `EPD_POWER_OFF` or
`EPD_NULL` itself; nothing in the repository sets it.

`DriverBuffers` is the EBC driver's buffers. The compositor thread (`wpc`) keeps one
buffer from one frame to the next (`gray16_buffer`), draws into it, sends it and asks
for another; `hwc_post_epd` (`lpc`) takes one, draws the standby picture and sends
it. The driver's queue (`sent`), what it lends (`lent`) and what each buffer holds are
variables; an ioctl or a conversion may fail.

`FrameCommit` follows one frame after another through the compositor thread: from the
choice of the conversion over the scratch buffer (`Allocate`), the RGA
(`BlitToScratch`), the locks and the drawing to `PostEink`, and on to the three driver
settings that are sent when a property has changed (`Update`). Every call that leaves the
process may fail at each step. It is shown to implement `DriverBuffers` (`DB`), in which
all of the conversion is one action that draws or does not. Panel and frames are eight
pixels wide: what matters is whether the stride the code works out is the one the frame
has. The history variables say what went wrong for this frame (`spoiled`, `askew`),
for an earlier one (`leaked`, `strayed`), and what the buffer held before it (`before`).

`HandleAttributes` is what the conversions ask about a buffer: the functions of
`drmgralloc4.cpp` and `hwc_rockchip.cpp` as operators on the answers of the mapper.
The C++ out-parameters become `Stored(answer, before)`. The conversions also query the byte
stride, which may come back uninitialized, but they only log it; it is left out.

`Descriptors` is a table of the process's file numbers. Opening takes the lowest free
number, as the kernel does, so a number that is closed twice may belong to other code
by then; the table says who opened it. The composing threads of a device that was closed and
of the next one take turns here (`Routine`). `pc` steps through `hwc_device_open`, each step of
which may fail. The fences of the frames travel from `hwc_set` to the compositor thread,
which may still hold one when the device is closed.

`VSyncWorker` is the vsync thread between the points where it takes or gives its lock,
reads the clock or sleeps, against `VSyncControl` and `SetProcs` on SurfaceFlinger's
thread and a clock (`now`) that advances at any point. A sleep may be cut short by a signal
(`SleepInterrupted`): `clock_nanosleep` then returns `EINTR`, the loop around it, which tests
for -1, ends too, and `Routine` starts over without a vsync. A hook whose `vsync` is no
function (`vsyncworker.cpp:190`) counts as no hook.

`Dither` is the error diffusion of a gray frame, one pixel a step, with the two lines of
accumulators; `"y4"` is `Luma8bit_to_4bit_row_16`, `"y1"` is `Luma8bit_to_4bit_row_2`.
`PanelColor` is the conversion for a colour panel, one row a step, with the bytes it
writes; a frame is the constant operator `Sample`, and the parts of the specification have
names of their own (`ColorInit`, `ColorSpec`), so that one module of proofs extends both. `SeparateRects` is the sweep of `separate_rects`, one horizontal event a step.

## Runs

| run | question | bounds |
|---|---|---|
| `eink_handoff` | deadlock, fences, withheld frames and termination of the hand-off without failures | 3 buffers, queue of 1 (`kMaxQueueDepth`), 4 calls of `hwc_set` |
| `eink_faults` | safety with acquire waits that time out, failing increments and wake-ups nobody signalled, where everybody waits for somebody, what still terminates, and that it implements `FrameHandoff` | 2 buffers, 5 calls, 2 faults, 1 unsignalled wake-up; the GPU may block for good and the two threads may deadlock, so deadlock is not checked |
| `eink_mode` | standby pictures, resume, A2 and the skip count | 2 buffers, 2 power-offs, 1 fault, 1 driver buffer beside the compositor thread's, any number of frames; calls may wait for ever (`LockReleased`), so deadlock is not checked |
| `eink_mode_calls` | one-full requests; every call gives the lock back, unless it waits for what was lost | the same with 1 mode, 1 power-off and 1 request, and no count-down |
| `driver_buffers` | who owns a driver buffer; each caller sends its own picture; `hwc_post_epd` returns | 2 buffers, 4 pictures, 2 faults; once all buffers are lost nothing moves, so deadlock is not checked |
| `frame_commit` | what a failing call does to this frame and to later ones, that the thread implements `DriverBuffers`, and that the settings follow the properties | 2 buffers, 3 frames, 3 modes, three kinds of panel, two formats, 1 fault |
| `descriptors` | whose descriptors are closed, what stays open, what leaks | 9 numbers, 2 opens, 2 frames, 2 files of other code, 2 faults; the last device may be closed for good, so deadlock is not checked |
| `vsync` | order and phase of vsyncs, late calls, and that they keep coming | frame time 3, 7 ticks, 3 calls, 2 interrupted sleeps |
| `dither` | overflow of lines and levels, error over lines | 6 by 4 pixels, four palettes of two levels; the conversion ends, so deadlock is not checked |
| `panel_color` | each place shows its channel's mean, for RGBA 8888 frames | six sizes, 13 pictures |
| `panel_565_comments` | the bytes the comments of `Rgb565_to_color_eink2` name: violated | the same, one picture |
| `separate_rects` | the sweep against a definition point by point | all placements of 3 rectangles on a small grid, empty and inverted ones too |

Why the bounds suffice. In the hand-off, the queue (1), the worker (1) and the
producer (1) hold at most three compositions, so four calls fill the pipeline and
make the producer wait; three buffers are SurfaceFlinger's triple buffering, and
with two a buffer is reused while its previous picture is in the pipeline. In
`eink_mode`, two power-offs let a frame of the first period meet the second
standby picture; `ResumeFrames` is 5 in the code and 2 in the run, which
only shortens a count-down (in `eink_mode_calls`, whose properties do not speak of it, it is
0). Two driver buffers are the fewest that work, one for each
caller, and two faults can lose both. In `frame_commit` the second frame meets what a
failure left in the first, and the third what the second made of it; the
modes are a gray one, A2 and dithered A2, which between them take every path. Two
opens let a second device take the numbers a first one gave up, and the two other files
are what a stray close can hit. Seven ticks are two frames after the first
vsync, enough to switch off, change the hook and switch on again. Errors reach two
lines down, and a line of accumulators is used again after two lines: four lines show
what was left in it. Three rectangles give every order of edges at a cell.

What the runs say:

- The lock order is inverted: `QueueComposite` takes `lock_` while it holds
  `eink_lock_` after a wait (264), `Routine` the other way round (301). With
  `kMaxQueueDepth` = 1 this cannot deadlock unless a condition wait returns without
  a signal. With a depth of 2 it can. `NoLockCycle` states exactly this.
- An early return of `Compose` (1400, 1410) skips `FinishComposition`. The fences
  it owed signal with the next composition that finishes (`DrainedReleasesAll`),
  but if every buffer is waiting for such a fence there is no next one: the GPU
  then never finishes a frame, and a suspended `hwc_set` waits in
  `sync_wait(-1)` (`hwcomposer.cpp:2425`) for ever. `HwcSetReturns` and
  `FencesSignal` are therefore claimed without failures only;
  `QueueCompositeReturns` holds with them.
- These two are the only places where everybody waits for somebody while a frame is
  queued or a call is under way (`StopsOnlyDrained`): the `sync_wait` above after a
  dropped composition, and the crossed locks below.
- A wake-up that nobody signalled can make the two lock orders meet; then neither
  thread goes on. `QueueCompositeReturns` has this one exception (`LockCycle`).
- A buffer is compared with the one queued last. After frames that were skipped in
  suspend it may hold a picture that was never shown (`NothingNewWithheld` has
  this one exception).
- After `hwc_set_power_mode(OFF)` up to `kMaxQueueDepth` + 1 older frames may
  cover the standby picture (`StandbyOverwrites`).
- `EPD_RESUME` survives a frame with the same buffer and another power-off, but
  not a `hwc_set` without a framebuffer target, which consumes it (`ResumeFirst`,
  `lost`), nor an acquire wait that times out. `gLastEpdMode` is set whether or not the
  full refresh that enters A2 was sent: if it failed, the next A2 picture goes out over
  whatever the panel shows (`A2EntersFull`, `unentered`).
- `EPD_RESUME` out of a suspend sets `persist.sys.refresh_skip_count` to 5, and the next five
  calls of `hwc_adajust_sf_vsync` leave it there; a suspend in the middle of the count starts
  it again at the next resume (`SettlesAfterResume`). It is not so after a power-off for
  shutdown, which does not call `hwc_adajust_sf_vsync`, or for a resume without a power-off
  (`HWC_POWER_MODE_DOZE_SUSPEND`, then `HWC_POWER_MODE_NORMAL`): the function has `EPD_RESUME`
  as the last mode then and takes the call for one more frame or none, so the count may
  change right after such a resume. In the property it is one more call.
- `hwc_set` and `hwc_set_power_mode` give `mEinkModeLock` back (`LockReleased`), although
  `hwc_set` waits under it for room in the queue or for a fence: the compositor thread does not
  need that lock. The two exceptions are waits for something that was lost: a skipped frame
  whose fence depends on a dropped composition, with none left to catch up for it
  (`WaitsForDropped`), and `hwc_post_epd` when failing sends have lost every buffer it could get.
- If `EBC_GET_BUFFER` fails in `PostEink`, `gray16_buffer` still names the buffer just
  given to the driver, and the next frame is drawn into it while it may be shown. The
  history variable `strayed` marks it: `SentIsKept`, `PicturesAreSent` and `BuffersReturn` are claimed
  until then.
- Each `EBC_SEND_BUFFER` of `hwc_post_epd` that fails loses a buffer (`BuffersReturn`
  counts them). When the compositor's is the only one left, the next `hwc_post_epd`
  waits in `EBC_GET_BUFFER` with `mEinkModeLock` held (`PostEpdReturns` excludes this
  case only).
- A conversion that fails leaves the earlier picture in the buffer, and the commit
  sends it; it never sends another frame that was left in the scratch buffer, and the
  next frame is drawn as if nothing had failed (`FrameIsWhole`). Two failures are not
  confined: a frame whose mapper gives no plane layouts is no error, so the RGA may read
  it with a stride that was never stored; and a lock that succeeds without an address
  is never unlocked, so later locks of that buffer may fail.
- A setting whose ioctl fails is sent with a later frame. The caches start at -1, 0 and 0:
  if an earlier process left the driver at another value and the property is 0, the
  driver is not told for the last two (`SettingsFollow`).
- If `Init` fails after `/dev/ebc` was opened, it closes the descriptor, and the
  destructor closes the number again, which may be somebody else's by then
  (`ClosesItsOwn`, `halfway`). Apart from this nothing is closed for another.
- `hwc_device_close` leaves one descriptor of `/dev/ebc` open for each device (the one of
  `hwc_device_open`), and the acquire fence of a frame whose buffer is the one queued
  last is never closed (`NothingLeaks` counts both).
- A signal that interrupts the vsync thread's sleep costs one vsync: the retry at
  `vsyncworker.cpp:139-141` never runs. The next round delivers in order and in phase, so
  vsyncs keep coming once the interruptions end (`VsyncsKeepComing`).
- After `VSyncControl(false)` or `SetProcs` one vsync may still be delivered, or go to
  the old hook, and never two (`OneLateCall`). A write of `last_timestamp_` that
  overtakes a reset does no harm: the next vsync still lies ahead, within a frame
  (`NextVsyncAhead`).
- Sixteen levels: no pixel is shown more than one level off. A2: levels up to 3 stay
  black and from 240 on white, with the darkest or brightest neighbours there can be;
  the bounds are exact for the errors, so the threshold has no room left. For A2 the
  rectangle at `einkcompositorworker.cpp:1208` leaves the last two columns of
  every line as the driver's buffer held them.
- `Rgb888_to_color_eink2` covers whole groups of six columns and pairs of lines; what
  is right of or below them is not written. `Rgb565_to_color_eink2` writes other
  channels than its comments name in the second of three rows (finding).

Fairness. In the hand-off both threads are scheduled and the GPU finishes what it can
start (weak fairness of the thread's actions together, not of each one); nobody else
contends for the mutexes, so weak fairness of a thread is enough. SurfaceFlinger is
never obliged to call again, the system never to change a property, and nothing is
assumed about how long a wait takes. In `DriverBuffers` the driver shows what it was
sent, and the two callers that wait in `EBC_GET_BUFFER` are served in turn (strong
fairness: each of them may take the only free buffer before the other). In
`VSyncWorker` the clock and the thread go on; interruptions of the sleep are in no fairness
condition, and `MaxInterrupts` says that they end. In `EinkMode` a call that has
`mEinkModeLock` goes on when what it waits for is there, and so does the compositor thread;
nobody has to call.

What is assumed of the environment. The EBC driver is external: `EBC_GET_BUFFER`
blocks until a buffer is free, a buffer that was lent may be sent, and a failing
`EBC_SEND_BUFFER` leaves it with the caller. In `EinkMode`, `EBC_GET_BUFFER` serves
`hwc_post_epd` as long as not all of its buffers are lost, which `PostEpdReturns` shows of
`DriverBuffers`, and the fence of a skipped frame signals once the compositions before it are
released. In `VSyncWorker` a stretch under the lock
is one step, `last_timestamp_` is read once in `GetPhasedVSync`, and `enabled_` starts
as false, because the device's context is value-initialised. In `Dither` and
`PanelColor` the RGA's output is as wide as the panel, which holds for widths that are
multiples of 8. `PanelColor` also takes the width to be even, as two places share a byte.

## Proofs

`EinkCompositorProofs` proves, for every set of buffers, every queue depth, any
number of calls, failures and unsignalled wake-ups, from `ConstantsAssumption`
alone (no null buffer among the buffers, naturals, a queue of at least one):

- `TypeInvariant`, `BuffersStable`, `SignalsReachWaiters`,
  `OneSlotAvoidsLockCycle`, `DrainedReleases`, and `QueueIsGuarded` (whoever pushes or
  pops owns both mutexes).

All rest on `Invariance`: `Spec => []Inv`. `Inv` is needed because none of the
properties is inductive. Its parts: `LocksFollowPcs` (who owns a mutex follows
from the program counters); `QueueFollowsPcs` (what a thread still knows of the
queue while it goes from one mutex to the other; for a queue of one, a producer
that was signalled finds it empty and a worker that was signalled finds it full,
which is why the inverted order is harmless); `FramesFollowPcs` (who holds a
composition); `BuffersKept` (each frame in the pipeline has an unsignalled release
fence and every later GPU job for its buffer waits for it); `ReleasesInOrder` (the
pipeline is sorted by release point, so finishing one does not release another);
`OwedAccounted` (an unsignalled release fence belongs to a frame in the pipeline, or
a composition was dropped). Each part has a lemma `...Step`, with one case per
action.

It also proves that the hand-off implements `FrameHandoff` (`HandoffRefined`). The frames in flight are one sequence, `Pipeline`: what the worker
holds, the queue, what the producer holds. The `Join...` lemmas say that a call appends to
it, a finished or given-up frame is its head, and the mutexes and the queue only move
frames inside it. Two more invariants are needed: `FlightInOrder` (pictures in flight
are in the order they were rendered, and only the one being finished may be on the panel)
and `Counted` (the buffer queued last belongs to the picture queued last, so a different
buffer holds a newer picture; and the timeline has at most two points for each call).

`OnlyDrainedStops` is what can be proved of the hand-off's progress: in which states
nobody can go on (`StopsOnlyDrained`, from the guards of the actions, which on the
instance of `eink_faults` agree with `ENABLED` of `InQueueComposite`, `InRoutine` and
`GpuDraw`, a wait that times out only because the GPU is slow aside). They are the lock
cycle, which `OneSlotAvoidsLockCycle` excludes for the program's queue of one; nothing
queued and no call; and a skipped call in `sync_wait(-1)` while the GPU waits for the fence
of a dropped composition. A thread that owns a mutex goes on (`OwnersGoOn`), a thread on a
condition variable is signalled (`NoLostWakeup`, which is proved and which no run
repeats, as `StopsOnlyDrained` fails without it), and no job of the GPU waits for more
than its buffer's release fence (`JobsAreOwed`).

`WithheldIsQueued` is `NothingNewWithheld` for every set of buffers. Between two calls the
buffer queued last is the one SurfaceFlinger shows, with the picture it shows, unless a
frame was skipped since (`QueuedIsFront`). A call draws into the buffer it sets, so if
that is the one queued last, the picture is the one queued, or one was skipped.

`VSyncWorkerProofs` proves from `VSyncConstants`, for every frame time and set of
hooks and every bound on time, calls and interrupted sleeps: `TypeInvariant`,
`SleepsToNextVsync`, `StopsWithinOne`, `VsyncsInPhase`. The invariant `IInv` adds to the properties
that nothing written lies ahead of the time read (`TimesPast`), that until the next
`VSyncControl` the thread's copies agree with what was delivered (`PhaseKept`), and that a
vsync on its way has not been counted yet (`LateCounted`, `StaleCounted`).
`PhasedAhead` is the arithmetic of `GetPhasedVSync`. `SignalNotLost` is the safety behind
`VsyncsKeepComing`: while vsync is on the thread is not left on the condition variable,
because `VSyncControl` signals in the same stretch under the lock, and it sleeps to a time at
most a frame from now, so once no signal interrupts the sleep the clock alone brings the next
vsync. An interrupted round changes nothing that the invariant speaks of. No run repeats
`SignalNotLost`.

`ConversionProofs` proves from `DitherConstants`, for every size of panel and every frame:
`TypeInvariant` (with it that nothing is added beyond a line), `LevelsKept`, `InkKept`,
`ErrorsPassedOn`. The invariant bounds what a place of the two lines may have received,
by how many of its three neighbours above have been processed (`ThisLineBound`,
`NextLineBound`); the bounds close because -112 and 127, the least and greatest error
of A2, give shares that sum to no more than the next pixel can take.

It also proves `PanelShown` from `ColorConstants` alone: `PanelShowsFrame` for every
panel of even width and every RGBA 8888 frame, not only the pictures of the run. Nothing
is claimed of RGB 565 frames, of which the run shows the finding. Three things are behind
it. The channels of a word do not carry into each other: `w & 0x00F0F0F0` leaves a nibble
with room above each (`NibblesOfWord`), and four of them are at most 60, so the sum can
be divided by four in one go (`ChannelsOfSum`, `AverageIsMean`). The filter the unrolled
statements write repeats after six columns and three pairs of lines, as the panel's does
(`FilterOfBlock`). And each block has its own bytes (`LaterLine`, `OneAddress`,
`OneBlockEach`), all in the buffer (`NothingBeyond`), so an iteration adds its lines and
leaves the earlier ones (`AfterRow`); the invariant is the property itself, with the size
of the panel.

`EinkModeProofs` proves from `ModeConstants`, for every set of targets and requests,
every queue depth and length of the count-down, and any number of calls and failures:
`TypeInvariant`, `StandbyIsKept`, `ResumeComesFirst`, `A2EntersThroughFull`,
`OneFullIsQueued`, `SkipCountSettles`. The invariant says where `EPD_RESUME` is while
it has not been sent (`ResumeKept`: with the compositor thread, first among the new frames
in the queue, or still ahead of the queue), that nothing new is queued while the standby
picture is posted (`PostedAlone`), what `gLastEpdMode` says of the panel (`A2Kept`), and
that the skip count is 5 after `EPD_RESUME` and `EPD_SUSPEND`, and that until the calls
counted are as many as the count-down is long, one of the two came last, the count-down
holding at least the calls still to come (`SettleCounted`).

`DriverBuffersProofs` proves from `BufferConstants`, for every set of at least two buffers:
`TypeInvariant`, `SentStays`, `OwnPicturesSent`, `BuffersComeBack`. What is behind them is
ownership: a buffer has one place in the driver's queue (`OnePlaceEach`), the driver knows
it as queued (`QueueIsQueued`), and each caller draws only into a buffer that was lent to
it (`DrawnIsLent`). `NoWaitForLostBuffers` is the safety behind `PostEpdReturns`: as long as
sends that failed have not lost all buffers but the compositor thread's own, a buffer is
free, or the driver has one to show, or `hwc_post_epd` has one and is about to send it
(`BuffersComeFree`). A buffer the driver keeps is in its queue (`QueuedIsSent`), so if there
were none of these all buffers would be lent to the threads, which `BuffersReturn` counts.
No run repeats it.

`FrameCommitProofs` proves from `FormatConstants`, `FrameConstants` and, for the refinement,
`BufferConstants`, for every set of buffers, modes and property values, and any number of
frames and failing calls: `TypeInvariant`,
`FrameArrives`, `PropertiesReachDriver`, and `FrameRefinesDriver`, the step simulation of
`DriverBuffers`. The invariant follows the frame from step to step (`FrameOnItsWay`), says
that a scratch buffer with memory has a format the panel's conversions know
(`ScratchIsKnown`), that only a lock without an address leaves a buffer locked
(`LockedIsLeaked`), and that a cache differs from the driver's setting only if the setting
is inherited (`CacheIsSetting`); `Ledger` counts the failures for the refinement.
`GoodMapper` and `BadMapper` are the arithmetic of the stride.

`DescriptorsProofs` proves from `DescriptorConstants`, for every finite set of numbers and
any number of devices, frames, failures and other files: `TypeInvariant`, `NoStrayClose`,
`OpenWhileUsed`, `LeaksAreCounted`. The invariant (`Tidy`) says that each member names what
was opened for it at each step of opening and closing; it is claimed until something was
closed for another, which needs an `Init` that failed halfway.

`SeparateRectsProofs` proves from `RectConstants` (the inputs are finite sequences of
rectangles with integer coordinates, empty and inverted ones included, of any length):
`Invariance`, `Separated`, `NoRegionSplit`, and `PlaneSeparated`, which is more than the run
asks: at the end every point of the plane has exactly one output rectangle if there are
inputs over it, with their ids, and none otherwise. The invariant speaks of points: for each one left of the sweep line
(`RightAt`), what is put out and what is started cover it once, with the right ids, or not
at all if no input is over it. For the next stretch to be right, the edges marked are
those of the inputs the line has met and not left (`LineMarked`), the events to come are
later than the ones met (`EventsInOrder`), what is started is one rectangle for each region
of the line (the end of `Swept`), and none could be joined with one put out (`Whole`).
`RegionsCover` and `RegionsDisjoint` say that the regions of a line are disjoint and cover
it as the inputs do; `LeastNatural`, `GreatestUpTo` and `LeastAbove` find the edges next to
a point by well-founded descent, as there is no induction over data. More than
`MaxElements` inputs give no output, by the code, and the properties leave them out.

Only model-checked: the liveness properties (`HwcSetReturns`, `QueueCompositeReturns`,
`FencesSignal`, `LockReleased`, `PostEpdReturns`, `VsyncsKeepComing`), which the prover
cannot reach. What they need of safety is proved: `OnlyDrainedStops`,
`NoWaitForLostBuffers`, `SignalNotLost`. Every other property of a passing run is a
theorem.

## Not modelled

- `exit_` and what the destructors free: nothing stops a thread in this program, and
  `hwc_device_close` frees the object under it. `Descriptors` has the descriptors of
  this; freed memory has no state to model.
- The mappings of `/dev/ebc` and of the waveform, and the memory of the conversions.
- The regal path (`EPD_*GLR16` through `libeink`), compiled out; the prebuilt `libcfa`,
  which has no source. The gray frame `libcfa` is given is treated as any drawing.
- `Rgb888_to_color_eink`, the gamma table and the gray conversions that keep no error:
  nothing calls most of them, and the rest are one expression per pixel.
- `hwc_get_handle_usage`, `hwc_get_handle_primefd`, `importBuffer` and `freeBuffer`: not
  on the way of a frame. The RGA that failed to initialise: it fails every blit, which
  `FrameCommit` has.
- The display queries, `hwc_prepare` and the dumps: they return constants or device data
  and keep no state that is read again.
- `glworker.cpp`, `autogl.h`, `autolock.cpp`, the NEON assembly and `hwcomposer.cpp`
  1058-1517: not built, or never called.

## Plan

What is left: the standby path inside `FrameCommit`, so that both users of the driver are
checked with every failure of the conversions.
