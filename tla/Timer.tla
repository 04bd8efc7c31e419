------------------------------- MODULE Timer -------------------------------
(***************************************************************************)
(* timer.c at the grain of its mutexes and condition variables.  Every     *)
(* device has two of each: under event_lock it tells the timer thread that *)
(* it is done with the slot (next_slot) or has finished for good           *)
(* (detach_event), under timer_lock it is told that the next slot begins.  *)
(* `done' is written under one lock by the device and under the other by   *)
(* the timer thread.  A wait on a condition variable may end without a     *)
(* signal; a woken thread has to take the mutex again.                     *)
(***************************************************************************)
EXTENDS Naturals

CONSTANTS N,         \* devices attached before start_timer: the cpus, the loader
          Horizon    \* bound: calls of next_slot a device makes

ASSUME TimerAssumption == N \in Nat \ {0} /\ Horizon \in Nat

Device == 1 .. N     \* a device is its position in dev_list

VARIABLES
    time,            \* _time
    timer_stop,
    done, fsh,       \* the fields of each timer_id_t
    event_lock,      \* event_lock[d]: who holds it: "none", "dev", "timer"
    timer_lock,
    pc,              \* pc[d]: where device d's thread is
    tpc,             \* where timer_routine is
    at,              \* `temp' of timer_routine, as a position in dev_list
    nfsh, nevent,    \* `fsh' and `event' of timer_routine
    main,            \* where main() is in its shutdown
    slots            \* history: slots[d] is the calls of next_slot d has begun

locks == << event_lock, timer_lock >>
timerVars == << tpc, at, nfsh, nevent >>
vars == << time, timer_stop, done, fsh, locks, pc, timerVars, main, slots >>

\* attach_event for every device, then start_timer.
Init ==
    /\ time = 0 /\ timer_stop = FALSE
    /\ done = [d \in Device |-> FALSE]
    /\ fsh = [d \in Device |-> FALSE]
    /\ event_lock = [d \in Device |-> "none"]
    /\ timer_lock = [d \in Device |-> "none"]
    /\ pc = [d \in Device |-> "work"]
    /\ tpc = "top" /\ at = 1 /\ nfsh = 0 /\ nevent = 0
    /\ main = "joining"
    /\ slots = [d \in Device |-> 0]

-----------------------------------------------------------------------------
(* A device: next_slot, and detach_event as the last thing it calls.       *)

Go(d, from, to) == pc[d] = from /\ pc' = [pc EXCEPT ![d] = to]

CallNextSlot(d) ==
    /\ Go(d, "work", "lockEvent")
    /\ slots[d] < Horizon
    /\ UNCHANGED << time, timer_stop, done, fsh, locks, timerVars, main, slots >>

CallDetach(d) ==
    /\ Go(d, "work", "lockDetach")
    /\ UNCHANGED << time, timer_stop, done, fsh, locks, timerVars, main, slots >>

LockEvent(d) ==
    /\ Go(d, "lockEvent", "arrive") \/ Go(d, "lockDetach", "detach")
    /\ event_lock[d] = "none"
    /\ event_lock' = [event_lock EXCEPT ![d] = "dev"]
    /\ UNCHANGED << time, timer_stop, done, fsh, timer_lock, timerVars, main, slots >>

\* (Faulty: the signal is forgotten.)
SignalEventForgotten(d) ==
    /\ event_lock' = [event_lock EXCEPT ![d] = "none"]
    /\ UNCHANGED timerVars

\* pthread_cond_signal on event_cond, then the unlock of event_lock.
SignalEvent(d) ==
    /\ tpc' = IF tpc = "waitEvent" /\ at = d THEN "lockEvent" ELSE tpc
    /\ event_lock' = [event_lock EXCEPT ![d] = "none"]
    /\ UNCHANGED << at, nfsh, nevent >>

Arrive(d) ==
    /\ Go(d, "arrive", "lockTimer")
    /\ done' = [done EXCEPT ![d] = TRUE]
    /\ slots' = [slots EXCEPT ![d] = @ + 1]
    /\ SignalEvent(d)
    /\ UNCHANGED << time, timer_stop, fsh, timer_lock, main >>

Detach(d) ==
    /\ Go(d, "detach", "gone")
    /\ fsh' = [fsh EXCEPT ![d] = TRUE]
    /\ SignalEvent(d)
    /\ UNCHANGED << time, timer_stop, done, timer_lock, main, slots >>

LockTimer(d) ==
    /\ Go(d, "lockTimer", "test")
    /\ timer_lock[d] = "none"
    /\ timer_lock' = [timer_lock EXCEPT ![d] = "dev"]
    /\ UNCHANGED << time, timer_stop, done, fsh, event_lock, timerVars, main, slots >>

\* The test of the while loop, with timer_lock held: wait, or unlock and go.
TestDone(d) ==
    /\ Go(d, "test", IF done[d] THEN "waitTimer" ELSE "work")
    /\ timer_lock' = [timer_lock EXCEPT ![d] = "none"]
    /\ UNCHANGED << time, timer_stop, done, fsh, event_lock, timerVars, main, slots >>

\* (Faulty: an `if' where next_slot has a `while'.)
SpuriousTimerCondIf(d) ==
    /\ Go(d, "waitTimer", "work")
    /\ UNCHANGED << time, timer_stop, done, fsh, locks, timerVars, main, slots >>

SpuriousTimerCond(d) ==
    /\ Go(d, "waitTimer", "lockTimer")
    /\ UNCHANGED << time, timer_stop, done, fsh, locks, timerVars, main, slots >>

-----------------------------------------------------------------------------
(* timer_routine: scan every device, advance the time, release every one.  *)

\* (Faulty: one step too many.)
LastBeyond == at = N + 1

Last == at = N

\* (Faulty: a finished device is waited for; no device is.)
EndedDone(d) == done[d]
EndedAlways(d) == TRUE

Ended(d) == done[d] \/ fsh[d]

TestStop ==
    /\ tpc = "top"
    /\ tpc' = IF timer_stop THEN "exit" ELSE "lockEvent"
    /\ at' = 1 /\ nfsh' = 0 /\ nevent' = 0
    /\ UNCHANGED << time, timer_stop, done, fsh, locks, pc, main, slots >>

TimerLockEvent ==
    /\ tpc = "lockEvent" /\ tpc' = "scan"
    /\ event_lock[at] = "none"
    /\ event_lock' = [event_lock EXCEPT ![at] = "timer"]
    /\ UNCHANGED << time, timer_stop, done, fsh, timer_lock, pc, at, nfsh,
                    nevent, main, slots >>

\* The device works still: pthread_cond_wait lets go of event_lock.
WaitEvent ==
    /\ tpc = "scan" /\ tpc' = "waitEvent"
    /\ ~ Ended(at)
    /\ event_lock' = [event_lock EXCEPT ![at] = "none"]
    /\ UNCHANGED << time, timer_stop, done, fsh, timer_lock, pc, at, nfsh,
                    nevent, main, slots >>

\* The device is done or finished: count it and go to the next one.
Scanned ==
    /\ tpc = "scan"
    /\ Ended(at)
    /\ nfsh' = nfsh + (IF fsh[at] THEN 1 ELSE 0)
    /\ nevent' = nevent + 1
    /\ event_lock' = [event_lock EXCEPT ![at] = "none"]
    /\ IF Last THEN tpc' = "tick" /\ at' = at
              ELSE tpc' = "lockEvent" /\ at' = at + 1
    /\ UNCHANGED << time, timer_stop, done, fsh, timer_lock, pc, main, slots >>

SpuriousEventCond ==
    /\ tpc = "waitEvent" /\ tpc' = "lockEvent"
    /\ UNCHANGED << time, timer_stop, done, fsh, locks, pc, at, nfsh, nevent,
                    main, slots >>

Tick ==
    /\ tpc = "tick" /\ tpc' = "lockTimer"
    /\ at' = 1
    /\ time' = time + 1
    /\ UNCHANGED << timer_stop, done, fsh, locks, pc, nfsh, nevent, main, slots >>

TimerLockTimer ==
    /\ tpc = "lockTimer" /\ tpc' = "release"
    /\ timer_lock[at] = "none"
    /\ timer_lock' = [timer_lock EXCEPT ![at] = "timer"]
    /\ UNCHANGED << time, timer_stop, done, fsh, event_lock, pc, at, nfsh,
                    nevent, main, slots >>

\* (Faulty: the signal is forgotten.)
SignalTimerForgotten == UNCHANGED pc

SignalTimer == pc' = [pc EXCEPT ![at] = IF @ = "waitTimer" THEN "lockTimer" ELSE @]

\* done = 0, pthread_cond_signal on timer_cond, unlock; the loop ends after
\* the last device, and the routine when all were finished at the scan.
Release ==
    /\ tpc = "release"
    /\ done' = [done EXCEPT ![at] = FALSE]
    /\ SignalTimer
    /\ timer_lock' = [timer_lock EXCEPT ![at] = "none"]
    /\ IF Last THEN /\ tpc' = IF nfsh = nevent THEN "exit" ELSE "top"
                    /\ at' = at
               ELSE tpc' = "lockTimer" /\ at' = at + 1
    /\ UNCHANGED << time, timer_stop, fsh, event_lock, nfsh, nevent, main, slots >>

-----------------------------------------------------------------------------
(* main: join every device's thread, then stop_timer.                      *)

StopTimer ==
    /\ main = "joining" /\ main' = "stopping"
    /\ \A d \in Device : pc[d] = "gone"
    /\ timer_stop' = TRUE
    /\ UNCHANGED << time, done, fsh, locks, pc, timerVars, slots >>

\* pthread_join of the timer thread returns; dev_list is destroyed and freed.
JoinTimer ==
    /\ main = "stopping" /\ main' = "returned"
    /\ tpc = "exit"
    /\ UNCHANGED << time, timer_stop, done, fsh, locks, pc, timerVars, slots >>

Terminated == main = "returned" /\ UNCHANGED vars

DeviceNext(d) ==
    \/ CallNextSlot(d) \/ CallDetach(d) \/ LockEvent(d) \/ Arrive(d)
    \/ Detach(d) \/ LockTimer(d) \/ TestDone(d) \/ SpuriousTimerCond(d)

TimerNext ==
    \/ TestStop \/ TimerLockEvent \/ WaitEvent \/ Scanned
    \/ SpuriousEventCond \/ Tick \/ TimerLockTimer \/ Release

Next ==
    \/ \E d \in Device : DeviceNext(d)
    \/ TimerNext
    \/ StopTimer \/ JoinTimer \/ Terminated

Spec == Init /\ [][Next]_vars

\* Threads run, and a device always ends its slot (cpu_routine and ld_routine
\* have no other way out of an iteration).  A mutex that is free again and
\* again is granted in the end; nothing makes a wait end without a signal.
Fairness ==
    /\ \A d \in Device :
          /\ WF_vars(CallNextSlot(d) \/ CallDetach(d))
          /\ WF_vars(Arrive(d) \/ Detach(d) \/ TestDone(d))
          /\ SF_vars(LockEvent(d))
          /\ SF_vars(LockTimer(d))
    /\ WF_vars(TestStop \/ WaitEvent \/ Scanned \/ Tick \/ Release)
    /\ SF_vars(TimerLockEvent)
    /\ SF_vars(TimerLockTimer)
    /\ WF_vars(StopTimer \/ JoinTimer)

FairSpec == Spec /\ Fairness

-----------------------------------------------------------------------------
DevicePc == { "work", "lockEvent", "arrive", "lockTimer", "test", "waitTimer",
              "lockDetach", "detach", "gone" }

TimerPc == { "top", "lockEvent", "scan", "waitEvent", "tick", "lockTimer",
             "release", "exit" }

\* Every variable stays in its domain.
TypeOK ==
    /\ time \in Nat /\ timer_stop \in BOOLEAN
    /\ done \in [Device -> BOOLEAN] /\ fsh \in [Device -> BOOLEAN]
    /\ event_lock \in [Device -> {"none", "dev", "timer"}]
    /\ timer_lock \in [Device -> {"none", "dev", "timer"}]
    /\ pc \in [Device -> DevicePc]
    /\ tpc \in TimerPc /\ at \in Device /\ nfsh \in Nat /\ nevent \in Nat
    /\ main \in {"joining", "stopping", "returned"}
    /\ slots \in [Device -> Nat]

\* Devices work in lockstep with the clock: a device that works in a slot has
\* called next_slot exactly once per slot gone by, so no slot is skipped and
\* none is entered twice, however the wakeups come.
Lockstep == \A d \in Device : pc[d] = "work" => slots[d] = time

\* `done' is guarded by two locks, `_time' by none, and still no thread is
\* about to write one of them, or fsh, while another is about to access it.
NoDataRace ==
    \A d \in Device :
        /\ tpc = "release" /\ at = d => pc[d] \notin {"arrive", "test"}
        /\ tpc = "scan" /\ at = d => pc[d] \notin {"arrive", "detach"}
        /\ tpc = "tick" => pc[d] # "work"

\* Nobody sleeps through its wakeup: a device waits on timer_cond only while its
\* `done' is set, the timer thread on event_cond only while the device it waits
\* for still works, although each flag is tested under one lock and the other
\* one's writer holds another.
NoLostWakeup ==
    /\ \A d \in Device : pc[d] = "waitTimer" => done[d]
    /\ tpc = "waitEvent" => ~ done[at] /\ ~ fsh[at]

\* Every wait ends: a device that has called next_slot works again.
NextSlotReturns == \A d \in Device : pc[d] = "arrive" ~> pc[d] = "work"

\* stop_timer returns once every device has detached.
ShutdownEnds == (\A d \in Device : pc[d] = "gone") ~> main = "returned"

\* The time has advanced and device d is yet to be told.
Untold(d) == tpc \in {"lockTimer", "release"} /\ at <= d

stage == [d \in Device |->
            IF fsh[d] THEN "detached"
            ELSE IF done[d] /\ ~ Untold(d) THEN "arrived"
            ELSE "working"]

cappedTime == IF time < Horizon + 1 THEN time ELSE Horizon + 1

Barrier == INSTANCE SlotBarrier WITH
    MAX_TIME <- Horizon + 1, time <- cappedTime, stage <- stage

\* The locks and condition variables implement the barrier: a slot ends when
\* all have arrived or detached and in no other case, and it does end.
BarrierSpec == Barrier!FairSpec
=============================================================================
