------------------------------ MODULE VSyncWorker ------------------------------
(***************************************************************************)
(* The vsync generator.  A thread of its own sleeps to the next tick of a  *)
(* 60 Hz clock and calls the vsync hook of SurfaceFlinger, while           *)
(* SurfaceFlinger switches vsync on and off (VSyncControl) and registers   *)
(* the hook (SetProcs).                                                    *)
(*                                                                         *)
(* The lock is held for one stretch of code at a time and by nobody who    *)
(* waits for something else, so each stretch under it is one step.  What   *)
(* Routine read under it is used after it, and last_timestamp_ is read and *)
(* written by the thread without it; those are steps of their own.  An     *)
(* optimised build reads last_timestamp_ once in GetPhasedVSync.  Nothing  *)
(* in the program sets the exit flag, so no wait returns -EINTR.           *)
(***************************************************************************)
EXTENDS Integers

CONSTANTS
  Procs,       \* the hooks that may be registered
  NoProcs,     \* NULL
  frame_ns,    \* the frame time, in units of the clock
  MaxTime,     \* bound: the clock
  MaxControls, \* bound: calls of VSyncControl
  MaxInterrupts  \* bound: interrupted sleeps

ASSUME VSyncConstants ==
  /\ NoProcs \notin Procs
  /\ frame_ns \in Nat \ {0}
  /\ MaxTime \in Nat /\ MaxControls \in Nat /\ MaxInterrupts \in Nat

VARIABLES
  now,              \* CLOCK_MONOTONIC
  enabled_, procs_, last_timestamp_,
  pc,               \* where the thread is
  enabled, procs,   \* Routine's copies
  current,          \* the time SyntheticWaitVBlank read
  timestamp,        \* the time it sleeps to
  controls,         \* counter of what MaxControls bounds
  interrupts,       \* counter of what MaxInterrupts bounds
  delivered,        \* history: the timestamp delivered last
  inPhase,          \* history: no VSyncControl since then
  late,             \* history: vsyncs delivered since vsync was switched off
  stale             \* history: vsyncs delivered to another hook than procs_

shared == <<enabled_, procs_, last_timestamp_>>
history == <<delivered, inPhase, late, stale>>

vars == <<now, enabled_, procs_, last_timestamp_, pc, enabled, procs, current,
          timestamp, controls, interrupts, delivered, inPhase, late, stale>>

(* hwc_context_t is zeroed before the members are constructed, which leave
   enabled_ as it is. *)
Init ==
  /\ now = 0
  /\ enabled_ = FALSE /\ procs_ = NoProcs /\ last_timestamp_ = -1
  /\ pc = "lock" /\ enabled = FALSE /\ procs = NoProcs
  /\ current = 0 /\ timestamp = 0 /\ controls = 0 /\ interrupts = 0
  /\ delivered = -1 /\ inPhase = FALSE /\ late = 0 /\ stale = 0
-------------------------------------------------------------------------------
(***************************************************************************)
(* SurfaceFlinger.                                                         *)
(***************************************************************************)
(* Variant: VSyncControl does not signal. *)
SignalLocked_Missing == UNCHANGED pc

(* A waiting thread is woken. *)
SignalLocked == pc' = IF pc = "wait" THEN "woken" ELSE pc

VSyncControl(on) == /\ controls < MaxControls
                    /\ controls' = controls + 1
                    /\ enabled_' = on
                    /\ last_timestamp_' = -1
                    /\ SignalLocked
                    /\ inPhase' = FALSE
                    /\ late' = 0
                    /\ UNCHANGED <<now, procs_, enabled, procs, current,
                                   timestamp, interrupts, delivered, stale>>

SetProcs(p) == /\ procs_ # p
               /\ procs_' = p
               /\ stale' = 0
               /\ UNCHANGED <<now, enabled_, last_timestamp_, pc, enabled,
                              procs, current, timestamp, controls,
                              interrupts, delivered, inPhase, late>>

(* Near the bound the clock only runs for a thread that sleeps. *)
Tick == /\ \/ now < MaxTime
           \/ /\ pc = "sleep" /\ now < timestamp
              /\ now < MaxTime + (2 + MaxInterrupts) * frame_ns
        /\ now' = now + 1
        /\ UNCHANGED <<shared, pc, enabled, procs, current, timestamp,
                       controls, interrupts, history>>
-------------------------------------------------------------------------------
(***************************************************************************)
(* Routine.                                                                *)
(***************************************************************************)
(* Variant: the copy is made once only. *)
CopyProcs_Kept == procs' = IF procs = NoProcs THEN procs_ ELSE procs

(* bool enabled = enabled_ *)
CopyEnabled == enabled' = enabled_

(* hwc_procs_t const *procs = procs_ *)
CopyProcs == procs' = procs_

(* Leave the lock with copies of enabled_ and procs_. *)
Copy == /\ CopyEnabled
        /\ CopyProcs
        /\ pc' = IF enabled' THEN "clock" ELSE "lock"

RoutineLock == /\ pc = "lock"
               /\ \/ enabled_ /\ Copy
                  \/ ~enabled_ /\ pc' = "wait" /\ UNCHANGED <<enabled, procs>>
               /\ UNCHANGED <<now, shared, current, timestamp, controls,
                              interrupts, history>>

(* pthread_cond_wait may return without a signal. *)
SpuriousWakeup == /\ pc = "wait"
                  /\ pc' = "woken"
                  /\ UNCHANGED <<now, shared, enabled, procs, current,
                                 timestamp, controls, interrupts, history>>

RoutineWoken == /\ pc = "woken"
                /\ Copy
                /\ UNCHANGED <<now, shared, current, timestamp, controls,
                               interrupts, history>>

ReadClock == /\ pc = "clock"
             /\ current' = now
             /\ pc' = "phase"
             /\ UNCHANGED <<now, shared, enabled, procs, timestamp, controls,
                            interrupts, history>>

(* Variant: rounds down, and takes -1 for a timestamp. *)
GetPhasedVSync_Down(last, time) ==
  frame_ns * ((time - last) \div frame_ns) + last

(* Variant: a frame from now, whatever the last vsync was. *)
GetPhasedVSync_FromNow(last, time) == time + frame_ns

(* The first time after "time" that is whole frames after "last".  The
   division never sees a negative number. *)
GetPhasedVSync(last, time) ==
  IF last < 0 THEN time + frame_ns
  ELSE frame_ns * ((time - last) \div frame_ns + 1) + last

Phase == /\ pc = "phase"
         /\ timestamp' = GetPhasedVSync(last_timestamp_, current)
         /\ pc' = "sleep"
         /\ UNCHANGED <<now, shared, enabled, procs, current, controls,
                        interrupts, history>>

Sleep == /\ pc = "sleep"
         /\ now >= timestamp
         /\ pc' = "deliver"
         /\ UNCHANGED <<now, shared, enabled, procs, current, timestamp,
                        controls, interrupts, history>>

(* A signal interrupts clock_nanosleep, which returns EINTR and not -1: the loop
   around it ends as well, and Routine starts over without a vsync. *)
SleepInterrupted == /\ pc = "sleep"
                    /\ interrupts < MaxInterrupts
                    /\ interrupts' = interrupts + 1
                    /\ pc' = "lock"
                    /\ UNCHANGED <<now, shared, enabled, procs, current,
                                   timestamp, controls, history>>

(* The hook is called with no lock held.  One without a vsync function counts
   as none. *)
Deliver ==
  /\ pc = "deliver"
  /\ pc' = "store"
  /\ \/ /\ procs # NoProcs
        /\ delivered' = timestamp
        /\ inPhase' = TRUE
        /\ late' = IF enabled_ THEN late ELSE late + 1
        /\ stale' = IF procs = procs_ THEN stale ELSE stale + 1
     \/ procs = NoProcs /\ UNCHANGED history
  /\ UNCHANGED <<now, shared, enabled, procs, current, timestamp, controls,
                 interrupts>>

(* last_timestamp_ = timestamp *)
StoredTimestamp == timestamp

Store == /\ pc = "store"
         /\ last_timestamp_' = StoredTimestamp
         /\ pc' = "lock"
         /\ UNCHANGED <<now, enabled_, procs_, enabled, procs, current,
                        timestamp, controls, interrupts, history>>

Routine == \/ RoutineLock \/ RoutineWoken \/ ReadClock \/ Phase
           \/ Sleep \/ Deliver \/ Store
-------------------------------------------------------------------------------
Next == \/ \E on \in BOOLEAN : VSyncControl(on)
        \/ \E p \in Procs : SetProcs(p)
        \/ Tick
        \/ Routine \/ SpuriousWakeup \/ SleepInterrupted

Spec == Init /\ [][Next]_vars

(* The clock runs and the thread is scheduled; nothing makes a signal come, and
   MaxInterrupts says that they end. *)
FairSpec == Spec /\ WF_vars(Tick) /\ WF_vars(Routine)
-------------------------------------------------------------------------------
Locations ==
  {"lock", "wait", "woken", "clock", "phase", "sleep", "deliver", "store"}

TypeOK ==
  /\ now \in Nat /\ current \in Nat /\ timestamp \in Nat
  /\ enabled_ \in BOOLEAN /\ enabled \in BOOLEAN /\ inPhase \in BOOLEAN
  /\ procs_ \in Procs \cup {NoProcs} /\ procs \in Procs \cup {NoProcs}
  /\ last_timestamp_ \in Nat \cup {-1} /\ delivered \in Nat \cup {-1}
  /\ pc \in Locations
  /\ controls \in Nat /\ interrupts \in Nat /\ late \in Nat /\ stale \in Nat

(* The next vsync is at most a frame away from the time read, and after it,
   whatever VSyncControl does to last_timestamp_ meanwhile. *)
NextVsyncAhead ==
  pc = "sleep" => current < timestamp /\ timestamp <= current + frame_ns

(* Vsyncs are delivered in the order of their timestamps, and stay in phase as
   long as VSyncControl is not called. *)
VsyncsAdvance ==
  [][delivered' # delivered =>
       /\ delivered' > delivered
       /\ inPhase => (delivered' - delivered) % frame_ns = 0]_vars

(* After vsync was switched off at most the vsync on its way is delivered. *)
OneLateVsync == late <= 1

(* "A change in procs_ will not take effect until the next subsequent requested
   vsync": the old hook is called at most once more. *)
OneStaleHook == stale <= 1

(* Neither is late by more than one vsync. *)
OneLateCall == OneLateVsync /\ OneStaleHook

(* A vsync comes while vsync is on, when signals no longer interrupt the sleep:
   VSyncControl's signal is not lost, and a sleep that was cut short starts
   another one. *)
VsyncsKeepComing ==
  \A t \in 0..MaxTime :
    now = t /\ enabled_ /\ procs_ # NoProcs ~> delivered > t \/ ~enabled_
===============================================================================
