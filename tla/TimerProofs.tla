---------------------------- MODULE TimerProofs ----------------------------
(***************************************************************************)
(* Theorems of Timer for any number of devices.                            *)
(***************************************************************************)
EXTENDS Timer, TLAPS

Working == { "work", "lockEvent", "arrive", "lockDetach", "detach" }
Waiting == { "lockTimer", "test", "waitTimer" }

\* The scan of this slot is past device d.
Passed(d) == \/ tpc \in {"lockEvent", "scan", "waitEvent"} /\ d < at
             \/ tpc = "tick"

\* Who holds a mutex is where its holder is.
LockInv == \A d \in Device :
    /\ event_lock[d] = "dev" <=> pc[d] \in {"arrive", "detach"}
    /\ event_lock[d] = "timer" <=> tpc = "scan" /\ at = d
    /\ timer_lock[d] = "dev" <=> pc[d] = "test"
    /\ timer_lock[d] = "timer" <=> tpc = "release" /\ at = d

\* A device's flags and its count of slots follow from where it is, and a
\* device the timer thread is past cannot be working.
SlotInv == \A d \in Device :
    /\ fsh[d] <=> pc[d] = "gone"
    /\ done[d] => pc[d] \in Waiting
    /\ pc[d] \in Working => slots[d] = time
    /\ pc[d] \in Waiting =>
          slots[d] = IF done[d] /\ ~ Untold(d) THEN time + 1 ELSE time
    /\ Passed(d) \/ Untold(d) => done[d] \/ fsh[d]

TInv == TypeOK /\ LockInv /\ SlotInv /\ NoLostWakeup

THEOREM TimerInit == Init => TInv
<1> SUFFICES ASSUME Init PROVE TInv
  OBVIOUS
<1>1. 1 \in Device
  BY TimerAssumption DEF Device
<1>2. TypeOK
  BY <1>1 DEF Init, TypeOK, DevicePc, TimerPc
<1>3. LockInv
  BY DEF Init, LockInv
<1>4. SlotInv
  BY DEF Init, SlotInv, Working, Waiting, Passed, Untold
<1>5. NoLostWakeup
  BY DEF Init, NoLostWakeup
<1>6. QED
  BY <1>2, <1>3, <1>4, <1>5 DEF TInv

LEMMA DeviceStep ==
  ASSUME TInv, NEW d \in Device, DeviceNext(d)
  PROVE  TInv'
<1> USE DEF TInv, TypeOK, LockInv, SlotInv, NoLostWakeup, DevicePc, TimerPc,
            Working, Waiting, Passed, Untold, Go, locks, timerVars
<1>1. CASE CallNextSlot(d)
  BY <1>1 DEF CallNextSlot
<1>2. CASE CallDetach(d)
  BY <1>2 DEF CallDetach
<1>3. CASE LockEvent(d)
  BY <1>3 DEF LockEvent
<1>4. CASE Arrive(d)
  BY <1>4 DEF Arrive, SignalEvent
<1>5. CASE Detach(d)
  BY <1>5 DEF Detach, SignalEvent
<1>6. CASE LockTimer(d)
  BY <1>6 DEF LockTimer
<1>7. CASE TestDone(d)
  BY <1>7 DEF TestDone
<1>8. CASE SpuriousTimerCond(d)
  BY <1>8 DEF SpuriousTimerCond
<1>9. QED
  BY <1>1, <1>2, <1>3, <1>4, <1>5, <1>6, <1>7, <1>8 DEF DeviceNext

LEMMA TimerStep ==
  ASSUME TInv, TimerNext
  PROVE  TInv'
<1> USE TimerAssumption
    DEF TInv, TypeOK, LockInv, SlotInv, NoLostWakeup, Device, DevicePc, TimerPc,
        Working, Waiting, Passed, Untold, locks, Last, Ended, SignalTimer
<1>1. CASE TestStop
  BY <1>1 DEF TestStop
<1>2. CASE TimerLockEvent
  BY <1>2 DEF TimerLockEvent
<1>3. CASE WaitEvent
  BY <1>3 DEF WaitEvent
<1>4. CASE Scanned
  BY <1>4 DEF Scanned
<1>5. CASE SpuriousEventCond
  BY <1>5 DEF SpuriousEventCond
<1>6. CASE Tick
  BY <1>6 DEF Tick
<1>7. CASE TimerLockTimer
  BY <1>7 DEF TimerLockTimer
<1>8. CASE Release
  BY <1>8 DEF Release
<1>9. QED
  BY <1>1, <1>2, <1>3, <1>4, <1>5, <1>6, <1>7, <1>8 DEF TimerNext

LEMMA MainStep ==
  ASSUME TInv, StopTimer \/ JoinTimer \/ UNCHANGED vars
  PROVE  TInv'
<1>1. /\ UNCHANGED << time, done, fsh, locks, pc, timerVars, slots >>
      /\ timer_stop' \in BOOLEAN
      /\ main' \in {"joining", "stopping", "returned"}
  BY DEF StopTimer, JoinTimer, vars, TInv, TypeOK
<1>2. TypeOK'
  BY <1>1 DEF TInv, TypeOK, locks, timerVars
<1>3. LockInv' /\ NoLostWakeup'
  BY <1>1 DEF TInv, LockInv, NoLostWakeup, locks, timerVars
<1>4. SlotInv'
  BY <1>1 DEF TInv, SlotInv, Passed, Untold, timerVars
<1>5. QED
  BY <1>2, <1>3, <1>4 DEF TInv

THEOREM TimerInvariant == Spec => []TInv
<1>1. TInv /\ [Next]_vars => TInv'
  BY DeviceStep, TimerStep, MainStep DEF Next, Terminated
<1>2. QED
  BY <1>1, TimerInit, PTL DEF Spec

\* Type correctness of every reachable state.
THEOREM TimerTypeCorrect == Spec => []TypeOK
<1>1. TInv => TypeOK
  BY DEF TInv
<1>2. QED
  BY <1>1, TimerInvariant, PTL

\* Every device has called next_slot once per slot gone by.
THEOREM DevicesInLockstep == Spec => []Lockstep
<1>1. TInv => Lockstep
  BY DEF TInv, SlotInv, Lockstep, Working
<1>2. QED
  BY <1>1, TimerInvariant, PTL

\* No access to done, fsh or _time races with a write.
THEOREM RaceFree == Spec => []NoDataRace
<1>1. ASSUME TInv, NEW d \in Device, tpc = "release", at = d
      PROVE  pc[d] \notin {"arrive", "test"}
  <2>1. Untold(d)
    BY <1>1 DEF Untold, TInv, TypeOK, Device
  <2>2. timer_lock[d] = "timer"
    BY <1>1 DEF TInv, LockInv
  <2>3. QED
    BY <1>1, <2>1, <2>2 DEF TInv, SlotInv, LockInv, Waiting
<1>2. ASSUME TInv, NEW d \in Device, tpc = "scan", at = d
      PROVE  pc[d] \notin {"arrive", "detach"}
  BY <1>2 DEF TInv, LockInv
<1>3. ASSUME TInv, NEW d \in Device, tpc = "tick"
      PROVE  pc[d] # "work"
  BY <1>3 DEF TInv, SlotInv, Passed, Waiting
<1>4. TInv => NoDataRace
  BY <1>1, <1>2, <1>3 DEF NoDataRace
<1>5. QED
  BY <1>4, TimerInvariant, PTL

\* No thread sleeps past its wakeup.
THEOREM WakeupsKept == Spec => []NoLostWakeup
<1>1. TInv => NoLostWakeup
  BY DEF TInv
<1>2. QED
  BY <1>1, TimerInvariant, PTL

-----------------------------------------------------------------------------
\* The stage of every device but one, and the time, stay as they are when only
\* these do.
LEMMA StageUnchanged ==
  ASSUME TInv, UNCHANGED << time, done, fsh >>,
         \A d \in Device : done[d] => (Untold(d)' <=> Untold(d))
  PROVE  UNCHANGED Barrier!vars
BY DEF Barrier!vars, stage, cappedTime, TInv, TypeOK

\* Each step of the locks and condition variables is a step of the barrier, or
\* none: the slot ends at `_time++', not when the devices are told.
THEOREM BarrierStep == TInv /\ [Next]_vars => [Barrier!Next]_(Barrier!vars)
<1> SUFFICES ASSUME TInv, [Next]_vars PROVE [Barrier!Next]_(Barrier!vars)
  OBVIOUS
<1>0. TimerAssumption /\ TypeOK
  BY TimerAssumption DEF TInv
<1>1. ASSUME NEW d \in Device, Arrive(d) PROVE Barrier!Arrive(d)
  <2>1. ~ fsh[d] /\ ~ done[d] /\ ~ Untold(d)
    BY <1>1 DEF Arrive, Go, TInv, SlotInv, Waiting
  <2>2. \A e \in Device : Untold(e)' <=> Untold(e)
    BY <1>1 DEF Arrive, SignalEvent, Untold
  <2>3. stage[d] = "working" /\ stage' = [stage EXCEPT ![d] = "arrived"]
    BY <1>0, <1>1, <2>1, <2>2 DEF stage, Arrive, TypeOK
  <2>4. QED
    BY <1>1, <2>3 DEF Barrier!Arrive, Arrive, cappedTime
<1>2. ASSUME NEW d \in Device, Detach(d) PROVE Barrier!Detach(d)
  <2>1. ~ fsh[d] /\ ~ done[d]
    BY <1>2 DEF Detach, Go, TInv, SlotInv, Waiting
  <2>2. \A e \in Device : Untold(e)' <=> Untold(e)
    BY <1>2 DEF Detach, SignalEvent, Untold
  <2>3. stage[d] = "working" /\ stage' = [stage EXCEPT ![d] = "detached"]
    BY <1>0, <1>2, <2>1, <2>2 DEF stage, Detach, TypeOK
  <2>4. QED
    BY <1>2, <2>3 DEF Barrier!Detach, Detach, cappedTime
<1>3. ASSUME Tick PROVE Barrier!Tick
  <2>1. \A d \in Device : (done[d] \/ fsh[d]) /\ ~ Untold(d)
    BY <1>3 DEF Tick, TInv, SlotInv, Passed, Untold
  <2>2. \A d \in Device : Untold(d)'
    BY <1>3 DEF Tick, Untold, Device
  <2>3. \A d \in Device : stage[d] # "working"
    BY <2>1 DEF stage
  <2>4. stage' = [d \in Device |->
                    IF stage[d] = "arrived" THEN "working" ELSE stage[d]]
    BY <1>3, <2>1, <2>2 DEF stage, Tick
  <2>5. cappedTime' = IF cappedTime < Horizon + 1 THEN cappedTime + 1 ELSE cappedTime
    BY <1>0, <1>3 DEF cappedTime, Tick, TimerAssumption, TypeOK
  <2>6. QED
    BY <2>3, <2>4, <2>5 DEF Barrier!Tick
<1>4. ASSUME Release PROVE UNCHANGED Barrier!vars
  <2>1. at \in Device /\ Untold(at)
    BY <1>0, <1>4 DEF Release, Last, Untold, TypeOK, Device
  <2>2. \A d \in Device \ {at} : (Untold(d)' <=> Untold(d)) /\ done'[d] = done[d]
    BY <1>0, <1>4 DEF Release, Last, Untold, TypeOK, Device
  <2>3. ~ done'[at]
    BY <1>0, <1>4, <2>1 DEF Release, TypeOK
  <2>4. UNCHANGED stage
    BY <1>4, <2>1, <2>2, <2>3 DEF stage, Release
  <2>5. QED
    BY <1>4, <2>4 DEF Barrier!vars, cappedTime, Release
<1>5. ASSUME NEW d \in Device,
             \/ CallNextSlot(d) \/ CallDetach(d) \/ LockEvent(d)
             \/ LockTimer(d) \/ TestDone(d) \/ SpuriousTimerCond(d)
      PROVE  UNCHANGED Barrier!vars
  BY <1>5, StageUnchanged
     DEF CallNextSlot, CallDetach, LockEvent, LockTimer, TestDone,
         SpuriousTimerCond, Untold, timerVars
<1>6. ASSUME \/ TestStop \/ TimerLockEvent \/ WaitEvent \/ Scanned
             \/ SpuriousEventCond \/ TimerLockTimer
      PROVE  UNCHANGED Barrier!vars
  <2>1. \A d \in Device : Untold(d)' <=> Untold(d)
    BY <1>6 DEF TestStop, TimerLockEvent, WaitEvent, Scanned, SpuriousEventCond,
                TimerLockTimer, Untold
  <2>2. UNCHANGED << time, done, fsh >>
    BY <1>6 DEF TestStop, TimerLockEvent, WaitEvent, Scanned, SpuriousEventCond,
                TimerLockTimer
  <2>3. QED
    BY <2>1, <2>2, StageUnchanged
<1>7. ASSUME StopTimer \/ JoinTimer \/ UNCHANGED vars
      PROVE  UNCHANGED Barrier!vars
  BY <1>7, StageUnchanged DEF StopTimer, JoinTimer, vars, timerVars, Untold
<1>8. QED
  BY <1>1, <1>2, <1>3, <1>4, <1>5, <1>6, <1>7
     DEF Next, DeviceNext, TimerNext, Terminated, Barrier!Next

LEMMA BarrierInit == Init => Barrier!Init
BY TimerAssumption DEF Init, Barrier!Init, stage, cappedTime

\* The locks and condition variables implement the barrier.
THEOREM TimerImplementsBarrier == Spec => Barrier!Spec
BY BarrierStep, BarrierInit, TimerInvariant, PTL DEF Spec, Barrier!Spec
=============================================================================
