--------------------------- MODULE VSyncWorkerProofs ---------------------------
(***************************************************************************)
(* The vsync generator for every frame time, every set of hooks and any    *)
(* number of calls: the next vsync lies ahead by at most a frame, vsyncs   *)
(* advance in phase, and switching off or registering another hook is late *)
(* by one vsync at most.                                                   *)
(***************************************************************************)
EXTENDS VSyncWorker, TLAPS

(* The thread has copies it will use for a vsync. *)
OnItsWay == pc \in {"clock", "phase", "sleep", "deliver"}

(* Nothing the thread or VSyncControl wrote lies ahead of the time read. *)
TimesPast ==
  /\ last_timestamp_ <= now /\ delivered <= now
  /\ pc \in {"phase", "sleep"} =>
       /\ current <= now
       /\ last_timestamp_ <= current /\ delivered <= current
  /\ pc = "deliver" => delivered < timestamp
  /\ pc \in {"deliver", "store"} => timestamp <= now

(* A hook that was registered stays or is replaced by another. *)
HookKept == procs # NoProcs => procs_ # NoProcs

(* Until VSyncControl is called, last_timestamp_ is what was delivered. *)
PhaseKept ==
  inPhase =>
    /\ procs_ # NoProcs /\ procs # NoProcs /\ delivered \in Nat
    /\ pc \in {"lock", "wait", "woken", "clock", "phase", "sleep"} =>
         last_timestamp_ = delivered
    /\ pc \in {"sleep", "deliver"} => (timestamp - delivered) % frame_ns = 0
    /\ pc = "store" => timestamp = delivered

(* A vsync on its way is counted before it is delivered. *)
LateCounted ==
  /\ enabled_ => late = 0
  /\ late <= 1
  /\ OnItsWay => late = 0

StaleCounted ==
  /\ stale <= 1
  /\ OnItsWay /\ procs # procs_ => stale = 0

IInv == TypeOK /\ NextVsyncAhead /\ TimesPast /\ HookKept /\ PhaseKept
          /\ LateCounted /\ StaleCounted

(***************************************************************************)
(* Arithmetic of GetPhasedVSync.                                           *)
(***************************************************************************)
(* The vsync is the first one in phase after the time read. *)
LEMMA PhasedAhead ==
  ASSUME NEW last \in Nat \cup {-1}, NEW time \in Nat, last <= time
  PROVE  /\ GetPhasedVSync(last, time) \in Nat
         /\ time < GetPhasedVSync(last, time)
         /\ GetPhasedVSync(last, time) <= time + frame_ns
<1>1. CASE last < 0
  BY <1>1, VSyncConstants DEF GetPhasedVSync
<1>2. CASE last \in Nat
  <2> DEFINE q == (time - last) \div frame_ns
  <2>1. /\ q \in Nat
        /\ frame_ns * q <= time - last
        /\ time - last < frame_ns * (q + 1)
    BY <1>2, VSyncConstants, SMT
  <2>2. frame_ns * (q + 1) = frame_ns * q + frame_ns
    BY <2>1, VSyncConstants, SMT
  <2>3. GetPhasedVSync(last, time) = frame_ns * (q + 1) + last
    BY <1>2 DEF GetPhasedVSync
  <2> HIDE DEF q
  <2>4. frame_ns * q \in Nat
    BY <2>1, VSyncConstants, SMT
  <2> QED
    BY <1>2, <2>1, <2>2, <2>3, <2>4, VSyncConstants
<1> QED
  BY <1>1, <1>2

(* Whole frames after the last one. *)
LEMMA PhasedInPhase ==
  ASSUME NEW last \in Nat, NEW time \in Nat, last <= time
  PROVE  (GetPhasedVSync(last, time) - last) % frame_ns = 0
<1> DEFINE k == (time - last) \div frame_ns + 1
<1>1. k \in Int
  BY VSyncConstants, SMT
<1>2. GetPhasedVSync(last, time) = frame_ns * k + last
  BY DEF GetPhasedVSync
<1> HIDE DEF k
<1>3. (frame_ns * k) % frame_ns = 0 /\ frame_ns * k \in Int
  BY <1>1, VSyncConstants, SMT
<1> QED
  BY <1>2, <1>3

(***************************************************************************)
(* The inductive invariant.                                                *)
(***************************************************************************)
LEMMA InitInvariant == Init => IInv
<1> SUFFICES ASSUME Init
             PROVE  IInv
  OBVIOUS
<1>1. TypeOK /\ HookKept
  BY DEF Init, TypeOK, Locations, HookKept
<1>2. TimesPast /\ NextVsyncAhead
  BY DEF Init, TimesPast, NextVsyncAhead
<1>3. ~inPhase
  BY DEF Init
<1>4. LateCounted /\ StaleCounted
  BY DEF Init, LateCounted, StaleCounted, OnItsWay
<1> QED
  BY <1>1, <1>2, <1>3, <1>4 DEF IInv, PhaseKept

(* Each action keeps the invariant. *)
LEMMA StepInvariant == IInv /\ [Next]_vars => IInv'
<1> SUFFICES ASSUME IInv, [Next]_vars
             PROVE  IInv'
  OBVIOUS
<1> USE VSyncConstants
    DEF IInv, TypeOK, Locations, NextVsyncAhead, TimesPast, HookKept,
        PhaseKept, LateCounted, StaleCounted, OnItsWay
<1>1. ASSUME NEW on \in BOOLEAN, VSyncControl(on)
      PROVE  IInv'
  <2>1. ~inPhase'
    BY <1>1 DEF VSyncControl
  <2>2. HookKept' /\ PhaseKept'
    BY <1>1, <2>1 DEF VSyncControl
  <2>3. TypeOK'
    <3>1. inPhase' \in BOOLEAN /\ enabled_' \in BOOLEAN
      BY <1>1 DEF VSyncControl
    <3> QED
      BY <1>1, <3>1 DEF VSyncControl, SignalLocked
  <2>6. TimesPast' /\ NextVsyncAhead'
    BY <1>1 DEF VSyncControl, SignalLocked
  <2>4. LateCounted'
    BY <1>1 DEF VSyncControl, SignalLocked
  <2>5. StaleCounted'
    BY <1>1 DEF VSyncControl, SignalLocked
  <2> QED
    BY <2>2, <2>3, <2>4, <2>5, <2>6
<1>2. ASSUME NEW p \in Procs, SetProcs(p)
      PROVE  IInv'
  BY <1>2 DEF SetProcs
<1>3. CASE Tick
  BY <1>3 DEF Tick, shared, history
<1>4. CASE RoutineLock
  BY <1>4 DEF RoutineLock, Copy, CopyEnabled, CopyProcs, shared, history
<1>5. CASE RoutineWoken
  BY <1>5 DEF RoutineWoken, Copy, CopyEnabled, CopyProcs, shared, history
<1>6. CASE ReadClock
  BY <1>6 DEF ReadClock, shared, history
<1>7. CASE Phase
  <2> DEFINE t == GetPhasedVSync(last_timestamp_, current)
  <2>1. t \in Nat /\ current < t /\ t <= current + frame_ns
    BY <1>7, PhasedAhead DEF Phase
  <2>2. inPhase => (t - delivered) % frame_ns = 0
    BY <1>7, PhasedInPhase DEF Phase
  <2> HIDE DEF t
  <2>3. /\ timestamp' = t /\ pc = "phase" /\ pc' = "sleep"
        /\ UNCHANGED <<now, shared, enabled, procs, current, controls,
                       interrupts, history>>
    BY <1>7 DEF Phase, t
  <2> QED
    BY <2>1, <2>2, <2>3 DEF shared, history
<1>8. CASE Sleep
  BY <1>8 DEF Sleep, shared, history
<1>9. CASE Deliver
  <2>1. TypeOK'
    <3>1. inPhase' \in BOOLEAN
      BY <1>9 DEF Deliver, history
    <3> QED
      BY <1>9, <3>1 DEF Deliver, shared, history
  <2>5. TimesPast' /\ NextVsyncAhead'
    BY <1>9 DEF Deliver, shared, history
  <2>2. LateCounted'
    BY <1>9 DEF Deliver, shared, history
  <2>4. StaleCounted'
    BY <1>9 DEF Deliver, shared, history
  <2>6. HookKept'
    BY <1>9 DEF Deliver, shared
  <2>3. PhaseKept'
    <3>1. CASE UNCHANGED history
      BY <1>9, <3>1 DEF Deliver, shared, history
    <3>2. CASE procs # NoProcs /\ delivered' = timestamp
      <4>1. pc' = "store" /\ timestamp' = timestamp /\ timestamp \in Nat
        BY <1>9 DEF Deliver
      <4>2. procs_ # NoProcs /\ UNCHANGED <<procs, procs_>>
        BY <1>9, <3>2 DEF Deliver, shared
      <4> QED
        BY <3>2, <4>1, <4>2
    <3> QED
      BY <1>9, <3>1, <3>2 DEF Deliver
  <2> QED
    BY <2>1, <2>2, <2>3, <2>4, <2>5, <2>6
<1>10. CASE Store
  BY <1>10 DEF Store, StoredTimestamp, history
<1>11. CASE SpuriousWakeup
  BY <1>11 DEF SpuriousWakeup, shared, history
<1>12. CASE SleepInterrupted
  BY <1>12 DEF SleepInterrupted, shared, history
<1>13. CASE UNCHANGED vars
  BY <1>13 DEF vars
<1> QED
  BY <1>1, <1>2, <1>3, <1>4, <1>5, <1>6, <1>7, <1>8, <1>9, <1>10, <1>11, <1>12,
     <1>13
  DEF Next, Routine

(* The invariant holds in every state, for every value of the constants. *)
THEOREM Invariance == Spec => []IInv
<1>1. Init => IInv
  BY InitInvariant
<1>2. IInv /\ [Next]_vars => IInv'
  BY StepInvariant
<1> QED
  BY <1>1, <1>2, PTL DEF Spec

(* The variables stay in their types. *)
THEOREM TypeInvariant == Spec => []TypeOK
<1>1. IInv => TypeOK
  BY DEF IInv
<1> QED
  BY <1>1, Invariance, PTL

(* GetPhasedVSync never asks for a time that is past or more than a frame
   away, for every frame time, although VSyncControl and Routine write
   last_timestamp_ without a common lock. *)
THEOREM SleepsToNextVsync == Spec => []NextVsyncAhead
<1>1. IInv => NextVsyncAhead
  BY DEF IInv
<1> QED
  BY <1>1, Invariance, PTL

(* After VSyncControl(false) at most one vsync is delivered, and after SetProcs
   Routine calls the old hook at most once. *)
THEOREM StopsWithinOne == Spec => []OneLateCall
<1>1. IInv => OneLateCall
  BY DEF IInv, LateCounted, StaleCounted, OneLateCall, OneLateVsync, OneStaleHook
<1> QED
  BY <1>1, Invariance, PTL

(* Routine delivers vsyncs in order and in phase. *)
THEOREM VsyncsInPhase == Spec => VsyncsAdvance
<1>1. ASSUME IInv, [Next]_vars, delivered' # delivered
      PROVE  /\ delivered' > delivered
             /\ inPhase => (delivered' - delivered) % frame_ns = 0
  <2>1. Deliver /\ delivered' = timestamp
    BY <1>1
    DEF Next, vars, history, shared, VSyncControl, SetProcs, Tick, Routine,
        RoutineLock, RoutineWoken, ReadClock, Phase, Sleep, Deliver, Store,
        SpuriousWakeup, SleepInterrupted
  <2> QED
    BY <1>1, <2>1, VSyncConstants
    DEF IInv, TypeOK, TimesPast, PhaseKept, Deliver
<1>2. IInv /\ [Next]_vars =>
        [delivered' # delivered =>
           /\ delivered' > delivered
           /\ inPhase => (delivered' - delivered) % frame_ns = 0]_vars
  BY <1>1
<1> QED
  BY <1>2, Invariance, PTL DEF Spec, VsyncsAdvance

(* No vsync is forgotten: once VSyncControl has switched vsync on the thread is
   not left on the condition variable, and whatever VSyncControl does to
   last_timestamp_ it never sleeps longer than a frame from now. *)
VsyncIsNear == /\ enabled_ => pc # "wait"
               /\ pc = "sleep" => timestamp <= now + frame_ns

(* VSyncControl sets enabled_ and signals in one stretch under the lock in which
   Routine looks at enabled_ before it waits. *)
THEOREM SignalNotLost == Spec => []VsyncIsNear
<1> DEFINE Heard == pc = "wait" => ~enabled_
<1>1. Init => Heard
  BY DEF Init
<1>2. IInv /\ Heard /\ [Next]_vars => Heard'
  <2> SUFFICES ASSUME IInv, Heard, [Next]_vars
               PROVE  Heard'
    OBVIOUS
  <2>1. CASE \E on \in BOOLEAN : VSyncControl(on)
    BY <2>1 DEF VSyncControl, SignalLocked
  <2>2. CASE \E p \in Procs : SetProcs(p)
    BY <2>2 DEF SetProcs
  <2>3. CASE Tick
    BY <2>3 DEF Tick, shared
  <2>4. CASE Routine
    BY <2>4 DEF Routine, RoutineLock, RoutineWoken, Copy, ReadClock, Phase,
                Sleep, Deliver, Store, shared
  <2>5. CASE SpuriousWakeup
    BY <2>5 DEF SpuriousWakeup
  <2>6. CASE SleepInterrupted
    BY <2>6 DEF SleepInterrupted
  <2>7. CASE UNCHANGED vars
    BY <2>7 DEF vars
  <2> QED
    BY <2>1, <2>2, <2>3, <2>4, <2>5, <2>6, <2>7 DEF Next
<1>3. IInv /\ Heard => VsyncIsNear
  BY VSyncConstants
     DEF IInv, TypeOK, NextVsyncAhead, TimesPast, VsyncIsNear
<1> QED
  BY <1>1, <1>2, <1>3, Invariance, PTL DEF Spec
===============================================================================
