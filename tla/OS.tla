--------------------------------- MODULE OS ---------------------------------
(***************************************************************************)
(* os.c: the cpu threads and the loader thread over the scheduler (Sched)  *)
(* and the timer.  A thread calls next_slot at the end of its slot and     *)
(* goes on when the time advances; that timer.c keeps this promise is      *)
(* taken as given here and shown in Timer.                                 *)
(* Instructions are abstracted to their count: run() executes one per      *)
(* slot, and what one does to memory is none of the scheduler's business.  *)
(***************************************************************************)
EXTENDS Sched

CONSTANTS Loader,          \* the loader thread
          num_processes,
          time_slot,       \* slots a process may run before it is put back
          Start, Size,     \* the start times and code sizes a config may give
          MaxTime          \* bound: _time stops counting here

ASSUME OSAssumption ==
    /\ Loader \notin Cpu /\ IsFiniteSet(Cpu)
    /\ num_processes \in Nat
    /\ time_slot \in Nat \ {0}
    /\ Start \subseteq Nat /\ Size \subseteq Nat
    /\ MaxTime \in Nat

Job == 1 .. num_processes

VARIABLES
    ld_processes,  \* the configuration: start time, level and code size per job
    time,          \* _time of timer.c
    done,          \* the loader has added every job
    lpc,           \* where ld_routine is
    i,             \* the job ld_routine is at
    cpc,           \* cpc[c]: where cpu_routine of c is
    time_left,     \* time_left[c]
    pc,            \* pc[p], and the job whose code p runs
    code,
    ran,           \* history: slots c has run its process since it got it
    addTime        \* history: addTime[j] is the slot in which job j was added

loaderVars == << ld_processes, done, lpc, i, addTime >>
cpuVars == << cpc, time_left, pc, ran >>
osvars == << vars, loaderVars, cpuVars, time, code >>

OSInit ==
    /\ Init
    /\ ld_processes \in [Job -> [start : Start, prio : Prio, size : Size]]
    /\ time = 0 /\ done = FALSE
    /\ lpc = "load" /\ i = 1
    /\ cpc = [c \in Cpu |-> "top"]
    /\ time_left = [c \in Cpu |-> 0]
    /\ pc = [p \in Pcb |-> 0] /\ code = [p \in Pcb |-> 0]
    /\ ran = [c \in Cpu |-> 0]
    /\ addTime = [j \in Job |-> 0]

CodeSize(p) == ld_processes[code[p]].size

-----------------------------------------------------------------------------
(* ld_routine *)

LoaderLoad ==
    /\ lpc = "load" /\ lpc' = "wait"
    /\ i <= num_processes
    /\ \E p \in Pcb :
          /\ Load(p, ld_processes[i].prio)
          /\ pc' = [pc EXCEPT ![p] = 0]
          /\ code' = [code EXCEPT ![p] = i]
    /\ UNCHANGED << ld_processes, done, i, addTime, cpc, time_left, ran, time >>

\* (Faulty: `<=' where the loader compares with `<'.)
DueLate == time > ld_processes[i].start

Due == time >= ld_processes[i].start

\* current_time() is before the job's start time: next_slot.
LoaderWait ==
    /\ lpc = "wait" /\ lpc' = "waitSlot"
    /\ ~ Due
    /\ UNCHANGED << vars, ld_processes, done, i, addTime, cpuVars, time, code >>

\* (Faulty: no next_slot after add_proc.)
LoaderAddOn ==
    /\ lpc = "wait" /\ lpc' = "load"
    /\ Due
    /\ AddProc
    /\ i' = i + 1
    /\ addTime' = [addTime EXCEPT ![i] = time]
    /\ UNCHANGED << ld_processes, done, cpuVars, time, code >>

\* add_proc, then the next_slot that ends the iteration.
LoaderAdd ==
    /\ lpc = "wait" /\ lpc' = "addSlot"
    /\ Due
    /\ AddProc
    /\ i' = i + 1
    /\ addTime' = [addTime EXCEPT ![i] = time]
    /\ UNCHANGED << ld_processes, done, cpuVars, time, code >>

LoaderDone ==
    /\ lpc = "load" /\ lpc' = "detach"
    /\ i > num_processes
    /\ done' = TRUE
    /\ UNCHANGED << vars, ld_processes, i, addTime, cpuVars, time, code >>

LoaderDetach ==
    /\ lpc = "detach" /\ lpc' = "stopped"
    /\ UNCHANGED << vars, ld_processes, done, i, addTime, cpuVars, time, code >>

-----------------------------------------------------------------------------
(* cpu_routine *)

Go(c, from, to) == cpc[c] = from /\ cpc' = [cpc EXCEPT ![c] = to]

\* The loop top without a process.
CpuGetFirst(c) ==
    /\ Go(c, "top", "recheck")
    /\ GetProc(c)
    /\ ran' = [ran EXCEPT ![c] = 0]
    /\ UNCHANGED << loaderVars, time_left, pc, time, code >>

\* get_proc returned NULL: next_slot and continue, without a look at `done'.
CpuIdle(c) ==
    /\ Go(c, "top", "slot")
    /\ running[c] = NULL /\ queue_empty
    /\ UNCHANGED << vars, loaderVars, time_left, pc, ran, time, code >>

\* (Faulty: what is left of the slice goes to the next process.)
CpuFinishRest(c) ==
    /\ Go(c, "top", "get")
    /\ running[c] # NULL /\ pc[running[c]] = CodeSize(running[c])
    /\ Finish(c)
    /\ UNCHANGED << loaderVars, time_left, pc, ran, time, code >>

\* The process has run to its end: free it.
CpuFinish(c) ==
    /\ Go(c, "top", "get")
    /\ running[c] # NULL /\ pc[running[c]] = CodeSize(running[c])
    /\ Finish(c)
    /\ time_left' = [time_left EXCEPT ![c] = 0]
    /\ UNCHANGED << loaderVars, pc, ran, time, code >>

CpuPut(c) ==
    /\ Go(c, "top", "get")
    /\ running[c] # NULL /\ pc[running[c]] # CodeSize(running[c])
    /\ time_left[c] = 0
    /\ PutProc(c)
    /\ UNCHANGED << loaderVars, time_left, pc, ran, time, code >>

\* (Faulty: no get_proc until the next slot.)
CpuGetNextNone(c) ==
    /\ Go(c, "get", "recheck")
    /\ UNCHANGED << vars, loaderVars, time_left, pc, ran, time, code >>

\* The get_proc that follows free or put_proc, which others may precede.
CpuGetNext(c) ==
    /\ Go(c, "get", "recheck")
    /\ \/ GetProc(c) /\ ran' = [ran EXCEPT ![c] = 0]
       \/ queue_empty /\ UNCHANGED << vars, ran >>
    /\ UNCHANGED << loaderVars, time_left, pc, time, code >>

CpuKeep(c) ==
    /\ Go(c, "top", "recheck")
    /\ running[c] # NULL /\ pc[running[c]] # CodeSize(running[c])
    /\ time_left[c] # 0
    /\ UNCHANGED << vars, loaderVars, time_left, pc, ran, time, code >>

\* (Faulty: the cpu stops when the loader has, whatever it runs.)
CpuStopEarly(c) ==
    /\ Go(c, "recheck", "stopped")
    /\ done
    /\ UNCHANGED << vars, loaderVars, time_left, pc, ran, time, code >>

\* No process to run and none to come: stop, and detach from the timer.
CpuStop(c) ==
    /\ Go(c, "recheck", "stopped")
    /\ running[c] = NULL /\ done
    /\ UNCHANGED << vars, loaderVars, time_left, pc, ran, time, code >>

CpuSkip(c) ==
    /\ Go(c, "recheck", "slot")
    /\ running[c] = NULL /\ ~ done
    /\ UNCHANGED << vars, loaderVars, time_left, pc, ran, time, code >>

\* The slice a process runs with: a new one if the old one is used up.
Slice(c) == IF time_left[c] = 0 THEN time_slot ELSE time_left[c]

\* run() executes one instruction, and none past the end of the code.
run(p) == IF pc[p] >= CodeSize(p) THEN pc[p] ELSE pc[p] + 1

\* The process runs for this slot; then next_slot.
CpuRun(c) ==
    /\ Go(c, "recheck", "slot")
    /\ running[c] # NULL
    /\ time_left' = [time_left EXCEPT ![c] = Slice(c) - 1]
    /\ pc' = [pc EXCEPT ![running[c]] = run(running[c])]
    /\ ran' = [ran EXCEPT ![c] = @ + 1]
    /\ UNCHANGED << vars, loaderVars, time, code >>

-----------------------------------------------------------------------------
(* The timer *)

LoaderArrived == lpc \in {"waitSlot", "addSlot"}

\* The timer as the threads see it, taken as given: it ends a slot when every
\* thread is in next_slot or has detached.  That its code does so is Timer's.
SlotOver ==
    /\ LoaderArrived \/ lpc = "stopped"
    /\ \A c \in Cpu : cpc[c] \in {"slot", "stopped"}

Tick ==
    /\ SlotOver
    /\ LoaderArrived \/ \E c \in Cpu : cpc[c] = "slot"
    /\ time' = IF time < MaxTime THEN time + 1 ELSE time
    /\ lpc' = CASE lpc = "waitSlot" -> "wait"
                [] lpc = "addSlot" -> "load"
                [] OTHER -> lpc
    /\ cpc' = [c \in Cpu |-> IF cpc[c] = "slot" THEN "top" ELSE cpc[c]]
    /\ UNCHANGED << vars, ld_processes, done, i, addTime, time_left, pc, ran, code >>

AllStopped == lpc = "stopped" /\ \A c \in Cpu : cpc[c] = "stopped"

Terminated == AllStopped /\ UNCHANGED osvars

LoaderNext ==
    LoaderLoad \/ LoaderWait \/ LoaderAdd \/ LoaderDone \/ LoaderDetach

CpuNext(c) ==
    \/ CpuGetFirst(c) \/ CpuIdle(c) \/ CpuFinish(c) \/ CpuPut(c)
    \/ CpuGetNext(c) \/ CpuKeep(c) \/ CpuStop(c) \/ CpuSkip(c) \/ CpuRun(c)

OSNext == LoaderNext \/ (\E c \in Cpu : CpuNext(c)) \/ Tick \/ Terminated

OSSpec == OSInit /\ [][OSNext]_osvars

\* Every thread runs, and the timer ends a slot (NextSlotReturns of Timer).
OSFairness ==
    /\ WF_osvars(LoaderNext)
    /\ \A c \in Cpu : WF_osvars(CpuNext(c))
    /\ WF_osvars(Tick)

OSFairSpec == OSSpec /\ OSFairness

-----------------------------------------------------------------------------
\* Every variable of os.c stays in its domain.
OSTypeOK ==
    /\ TypeOK
    /\ ld_processes \in [Job -> [start : Start, prio : Prio, size : Size]]
    /\ time \in 0 .. MaxTime /\ done \in BOOLEAN
    /\ lpc \in {"load", "wait", "waitSlot", "addSlot", "detach", "stopped"}
    /\ i \in 1 .. (num_processes + 1)
    /\ cpc \in [Cpu -> {"top", "get", "recheck", "slot", "stopped"}]
    /\ time_left \in [Cpu -> 0 .. time_slot]
    /\ pc \in [Pcb -> Nat] /\ code \in [Pcb -> 0 .. num_processes]
    /\ ran \in [Cpu -> 0 .. time_slot]
    /\ addTime \in [Job -> Nat]

\* Every dispatch gives a whole time slice: between slots, what a process has
\* run since its cpu got it and what is left add up to time_slot, so nothing
\* of an earlier process's slice is left to it (cpu_routine's time_left).
WholeSlice ==
    \A c \in Cpu : running[c] # NULL /\ cpc[c] \in {"slot", "top"}
                      => ran[c] + time_left[c] = time_slot

\* No cpu idles through a slot, nor has stopped, while a process waits that
\* has been ready since the slot began; only the one the loader added in this
\* slot can have come too late.
WorkConserving ==
    SlotOver /\ (\E c \in Cpu : running[c] = NULL)
        => Cardinality(Ready) <= IF lpc = "addSlot" THEN 1 ELSE 0

\* When all threads have stopped, every job was loaded and has finished: the
\* next_slot between the last add_proc and `done' keeps a cpu from seeing an
\* empty queue and then `done' with a job added in between.
NothingLeftBehind == AllStopped => i > num_processes /\ allocated = {}

\* The loader adds a job in the slot it is due, or in the next one when the
\* slot is taken by the job before.
AddedOnTime ==
    \A j \in 1 .. (i - 1) :
        LET free == IF j = 1 THEN 0 ELSE addTime[j - 1] + 1
            due == ld_processes[j].start
        IN  addTime[j] = IF due > free THEN due ELSE free

\* Every job is loaded and runs to its end.
EveryJobFinishes == <>[](i > num_processes /\ allocated = {})

\* Every cpu thread stops.
EveryCpuStops == <>(\A c \in Cpu : cpc[c] = "stopped")

\* The threads use the scheduler as Sched says they do, its fairness included.
SchedSpec == FairSpec
=============================================================================
