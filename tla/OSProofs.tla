------------------------------ MODULE OSProofs ------------------------------
(***************************************************************************)
(* The threads of os.c use the scheduler as Sched allows, so what is       *)
(* proved of every use of it holds of theirs; and a dispatch gives a whole *)
(* time slice.  For any configuration, number of cpus and slice.           *)
(***************************************************************************)
EXTENDS OS, SchedProofs

\* The configuration is fixed, and the loader's index stays within it.
JobInv ==
    /\ ld_processes \in [Job -> [start : Start, prio : Prio, size : Size]]
    /\ i \in Nat \ {0}

LEMMA JobInvariant == OSSpec => []JobInv
<1>1. OSInit => JobInv
  BY DEF OSInit, JobInv
<1>2. JobInv /\ [OSNext]_osvars => JobInv'
  <2> SUFFICES ASSUME JobInv, [OSNext]_osvars PROVE JobInv'
    OBVIOUS
  <2>1. UNCHANGED ld_processes /\ (i' = i \/ i' = i + 1)
    BY DEF OSNext, osvars, loaderVars, LoaderNext, LoaderLoad, LoaderWait,
           LoaderAdd, LoaderDone, LoaderDetach, CpuNext, CpuGetFirst, CpuIdle,
           CpuFinish, CpuPut, CpuGetNext, CpuKeep, CpuStop, CpuSkip, CpuRun,
           Tick, Terminated
  <2>2. QED
    BY <2>1 DEF JobInv
<1>3. QED
  BY <1>1, <1>2, PTL DEF OSSpec

\* Every step of a thread or of the timer is a step of the scheduler, or none.
THEOREM OSSchedStep == JobInv /\ [OSNext]_osvars => [Next]_vars
<1> SUFFICES ASSUME JobInv, [OSNext]_osvars PROVE [Next]_vars
  OBVIOUS
<1>1. CASE LoaderNext
  <2>1. CASE LoaderLoad
    <3>1. i \in Job
      BY <2>1, OSAssumption DEF LoaderLoad, JobInv, Job
    <3>2. ld_processes[i].prio \in Prio
      BY <3>1 DEF JobInv
    <3>3. QED
      BY <2>1, <3>2 DEF LoaderLoad, Next
  <2>2. CASE LoaderAdd
    BY <2>2 DEF LoaderAdd, Next
  <2>3. CASE LoaderWait \/ LoaderDone \/ LoaderDetach
    BY <2>3 DEF LoaderWait, LoaderDone, LoaderDetach
  <2>4. QED
    BY <1>1, <2>1, <2>2, <2>3 DEF LoaderNext
<1>2. ASSUME NEW c \in Cpu, CpuNext(c) PROVE [Next]_vars
  <2>1. \/ GetProc(c) \/ PutProc(c) \/ Finish(c) \/ UNCHANGED vars
    BY <1>2 DEF CpuNext, CpuGetFirst, CpuIdle, CpuFinish, CpuPut, CpuGetNext,
                CpuKeep, CpuStop, CpuSkip, CpuRun
  <2>2. QED
    BY <2>1 DEF Next
<1>3. CASE Tick \/ Terminated \/ UNCHANGED osvars
  BY <1>3 DEF Tick, Terminated, osvars
<1>4. QED
  BY <1>1, <1>2, <1>3 DEF OSNext

THEOREM OSImplementsSched == OSSpec => Spec
<1>1. OSInit => Init
  BY DEF OSInit
<1>2. QED
  BY <1>1, JobInvariant, OSSchedStep, PTL DEF OSSpec, Spec

\* No two cpus run the same process, and none runs one that is queued.
THEOREM OSExclusion == OSSpec => []Exclusive
BY OSImplementsSched, Exclusion, PTL

-----------------------------------------------------------------------------
\* A cpu without a process has no slice, and one that has just got a process
\* has run it for no slot.
SliceInv ==
    /\ time_left \in [Cpu -> Nat] /\ ran \in [Cpu -> Nat]
    /\ cpc \in [Cpu -> {"top", "get", "recheck", "slot", "stopped"}]
    /\ \A c \in Cpu :
          /\ running[c] = NULL => time_left[c] = 0
          /\ cpc[c] = "get" => running[c] = NULL
          /\ running[c] # NULL =>
                IF cpc[c] = "recheck" /\ time_left[c] = 0
                THEN ran[c] = 0
                ELSE ran[c] + time_left[c] = time_slot

LEMMA SliceInit == OSInit => SliceInv
BY DEF OSInit, Init, SliceInv

LEMMA GetProcRunning ==
  ASSUME SInv, NEW c \in Cpu, GetProc(c)
  PROVE  \E p \in Pcb : running' = [running EXCEPT ![c] = p]
BY GetProcEffect DEF SInv

LEMMA SliceStep == SInv /\ SliceInv /\ [OSNext]_osvars => SliceInv'
<1> SUFFICES ASSUME SInv, SliceInv, [OSNext]_osvars PROVE SliceInv'
  OBVIOUS
<1>0. /\ running \in [Cpu -> Pcb \cup {NULL}]
      /\ NULL \notin Pcb /\ time_slot \in Nat \ {0}
  BY SchedAssumption, OSAssumption DEF SInv, TypeOK
<1>1. CASE LoaderNext
  BY <1>1 DEF LoaderNext, LoaderLoad, LoaderWait, LoaderAdd, LoaderDone,
              LoaderDetach, Load, AddProc, cpuVars, vars, SliceInv
<1>2. ASSUME NEW c \in Cpu, CpuNext(c) PROVE SliceInv'
  <2>1. ASSUME CpuGetFirst(c) \/ (CpuGetNext(c) /\ GetProc(c)) PROVE SliceInv'
    <3>1. PICK p \in Pcb : running' = [running EXCEPT ![c] = p]
      BY <2>1, GetProcRunning DEF CpuGetFirst
    <3>2. running[c] = NULL
      BY <2>1 DEF CpuGetFirst, GetProc
    <3>3. /\ Go(c, "top", "recheck") \/ Go(c, "get", "recheck")
          /\ UNCHANGED time_left
      BY <2>1 DEF CpuGetFirst, CpuGetNext
    <3>4. ran' = [ran EXCEPT ![c] = 0]
      BY <2>1, <1>0 DEF CpuGetFirst, CpuGetNext, queue_empty, GetProc
    <3>5. QED
      BY <1>0, <3>1, <3>2, <3>3, <3>4 DEF SliceInv, Go
  <2>2. ASSUME CpuFinish(c) \/ CpuPut(c) PROVE SliceInv'
    <3>1. /\ running' = [running EXCEPT ![c] = NULL]
          /\ cpc' = [cpc EXCEPT ![c] = "get"]
          /\ UNCHANGED ran
      BY <2>2 DEF CpuFinish, CpuPut, Finish, PutProc, Go
    <3>2. time_left' = [time_left EXCEPT ![c] = 0]
      BY <2>2 DEF CpuFinish, CpuPut, SliceInv
    <3>3. QED
      BY <1>0, <3>1, <3>2 DEF SliceInv
  <2>3. ASSUME CpuRun(c) PROVE SliceInv'
    <3>1. /\ running[c] # NULL /\ UNCHANGED running
          /\ cpc[c] = "recheck" /\ cpc' = [cpc EXCEPT ![c] = "slot"]
          /\ ran' = [ran EXCEPT ![c] = @ + 1]
          /\ time_left' = [time_left EXCEPT ![c] = Slice(c) - 1]
      BY <2>3 DEF CpuRun, Go, vars
    <3>2. time_left[c] \in Nat /\ ran[c] \in Nat
      BY DEF SliceInv
    <3>3. Slice(c) \in Nat \ {0} /\ ran[c] + Slice(c) = time_slot
      <4>1. CASE time_left[c] = 0
        BY <1>0, <3>1, <3>2, <4>1 DEF Slice, SliceInv
      <4>2. CASE time_left[c] # 0
        BY <3>1, <3>2, <4>2 DEF Slice, SliceInv
      <4>3. QED
        BY <4>1, <4>2
    <3>4. ran[c] + 1 \in Nat /\ Slice(c) - 1 \in Nat
          /\ (ran[c] + 1) + (Slice(c) - 1) = time_slot
      BY <1>0, <3>2, <3>3
    <3> HIDE DEF Slice
    <3>5. QED
      BY <3>1, <3>4 DEF SliceInv
  <2>4. ASSUME \/ CpuIdle(c) \/ CpuKeep(c) \/ CpuStop(c) \/ CpuSkip(c)
               \/ (CpuGetNext(c) /\ UNCHANGED << vars, ran >>)
        PROVE  SliceInv'
    BY <1>0, <2>4 DEF CpuIdle, CpuKeep, CpuStop, CpuSkip, CpuGetNext, Go, vars,
                      SliceInv
  <2>5. QED
    BY <1>2, <2>1, <2>2, <2>3, <2>4 DEF CpuNext, CpuGetNext
<1>3. CASE Tick
  BY <1>0, <1>3 DEF Tick, vars, SliceInv
<1>4. CASE Terminated \/ UNCHANGED osvars
  BY <1>4 DEF Terminated, osvars, cpuVars, vars, SliceInv
<1>5. QED
  BY <1>1, <1>2, <1>3, <1>4 DEF OSNext

\* Every dispatch gives a whole slice.
THEOREM WholeSlices == OSSpec => []WholeSlice
<1>1. SliceInv => WholeSlice
  BY DEF SliceInv, WholeSlice
<1>2. OSSpec => []SInv
  BY OSImplementsSched, SchedInvariant, PTL
<1>3. QED
  BY <1>1, <1>2, SliceInit, SliceStep, PTL DEF OSSpec

-----------------------------------------------------------------------------
\* Cpus that go without a process in this slot or have stopped, and cpus that
\* have just given theirs up.
Idling == { c \in Cpu : running[c] = NULL /\ cpc[c] \in {"recheck", "slot", "stopped"} }
Getting == { c \in Cpu : cpc[c] = "get" }

\* The process the loader has added in this slot, if it has.
Late == IF lpc = "addSlot" THEN 1 ELSE 0

\* When the loader is done it adds no more, and cpus stop only then.
StopInv ==
    /\ lpc \in {"load", "wait", "waitSlot", "addSlot", "detach", "stopped"}
    /\ done \in BOOLEAN
    /\ done <=> lpc \in {"detach", "stopped"}
    /\ done => i > num_processes /\ loading = NULL
    /\ lpc \in {"load", "addSlot"} => loading = NULL
    /\ \A c \in Cpu : cpc[c] = "stopped" => done /\ running[c] = NULL

\* A cpu goes without a process only if none was ready; what has become ready
\* since is what other cpus put back, and they take one each, or is late.
WorkInv ==
    /\ IsFiniteSet(Ready)
    /\ Idling # {} => Cardinality(Ready) <= Cardinality(Getting) + Late

LEMMA StopInit == OSInit => StopInv
BY DEF OSInit, Init, StopInv

LEMMA StopStep == JobInv /\ SInv /\ SliceInv /\ StopInv /\ [OSNext]_osvars => StopInv'
<1> SUFFICES ASSUME JobInv, SInv, SliceInv, StopInv, [OSNext]_osvars PROVE StopInv'
  OBVIOUS
<1> USE DEF StopInv
<1>1. CASE LoaderLoad
  BY <1>1 DEF LoaderLoad, Load
<1>2. CASE LoaderAdd
  BY <1>2 DEF LoaderAdd, AddProc, cpuVars
<1>3. CASE LoaderWait \/ LoaderDetach
  BY <1>3 DEF LoaderWait, LoaderDetach, vars, cpuVars
<1>4. CASE LoaderDone
  BY <1>4 DEF LoaderDone, vars, cpuVars
<1>5. ASSUME NEW c \in Cpu, CpuNext(c) PROVE StopInv'
  <2>1. UNCHANGED << lpc, done, i, loading >>
    BY <1>5 DEF CpuNext, CpuGetFirst, CpuIdle, CpuFinish, CpuPut, CpuGetNext,
                CpuKeep, CpuStop, CpuSkip, CpuRun, loaderVars, vars, GetProc,
                Finish, PutProc
  <2>2. \A d \in Cpu \ {c} : cpc'[d] = cpc[d] /\ running'[d] = running[d]
    BY <1>5 DEF CpuNext, CpuGetFirst, CpuIdle, CpuFinish, CpuPut, CpuGetNext,
                CpuKeep, CpuStop, CpuSkip, CpuRun, Go, vars, GetProc,
                Finish, PutProc, SliceInv, SInv, TypeOK
  <2>3. cpc'[c] = "stopped" => done /\ running'[c] = NULL
    BY <1>5 DEF CpuNext, CpuGetFirst, CpuIdle, CpuFinish, CpuPut, CpuGetNext,
                CpuKeep, CpuStop, CpuSkip, CpuRun, Go, vars, SliceInv
  <2>4. QED
    BY <2>1, <2>2, <2>3
<1>6. CASE Tick
  <2>1. UNCHANGED << done, i, loading, running >>
    BY <1>6 DEF Tick, vars
  <2>2. \A c \in Cpu : cpc'[c] = "stopped" => cpc[c] = "stopped"
    BY <1>6 DEF Tick
  <2>3. \/ lpc = "waitSlot" /\ lpc' = "wait"
        \/ lpc = "addSlot" /\ lpc' = "load"
        \/ lpc = "stopped" /\ lpc' = "stopped"
    BY <1>6 DEF Tick, SlotOver, LoaderArrived
  <2>4. QED
    BY <2>1, <2>2, <2>3
<1>7. CASE Terminated \/ UNCHANGED osvars
  BY <1>7 DEF Terminated, osvars, vars, loaderVars, cpuVars
<1>8. QED
  BY <1>1, <1>2, <1>3, <1>4, <1>5, <1>6, <1>7 DEF OSNext, LoaderNext

\* At most one more is ready, or as many as before.
LEMMA ReadyGrows ==
  ASSUME IsFiniteSet(Ready), NEW p, Ready' \subseteq Ready \cup {p}
  PROVE  IsFiniteSet(Ready') /\ Cardinality(Ready') <= Cardinality(Ready) + 1
<1>0. Cardinality(Ready) \in Nat
  BY FS_CardinalityType
<1>1. /\ IsFiniteSet(Ready \cup {p})
      /\ Cardinality(Ready \cup {p}) =
            IF p \in Ready THEN Cardinality(Ready) ELSE Cardinality(Ready) + 1
  BY FS_AddElement
<1>2. IsFiniteSet(Ready') /\ Cardinality(Ready') <= Cardinality(Ready \cup {p})
  BY <1>1, FS_Subset
<1>3. QED
  BY <1>0, <1>1, <1>2, FS_CardinalityType

LEMMA NoneReady == queue_empty => Ready = {} /\ IsFiniteSet({}) /\ Cardinality({}) = 0
BY FS_EmptySet DEF queue_empty, Empty, Ready, Elems

LEMMA GettingFinite == IsFiniteSet(Getting) /\ Cardinality(Getting) \in Nat
<1>1. Getting \subseteq Cpu /\ IsFiniteSet(Cpu)
  BY OSAssumption DEF Getting
<1>2. QED
  BY <1>1, FS_Subset, FS_CardinalityType

LEMMA WorkInit == OSInit => WorkInv
<1> SUFFICES ASSUME OSInit PROVE WorkInv
  OBVIOUS
<1>1. Ready = {}
  BY DEF OSInit, Init, Ready, Elems
<1>2. Idling = {}
  BY DEF OSInit, Idling
<1>3. QED
  BY <1>1, <1>2, FS_EmptySet DEF WorkInv

LEMMA WorkStep == SInv /\ SliceInv /\ StopInv /\ WorkInv /\ [OSNext]_osvars => WorkInv'
<1> SUFFICES ASSUME SInv, SliceInv, StopInv, WorkInv, [OSNext]_osvars PROVE WorkInv'
  OBVIOUS
<1>0. /\ TypeOK /\ Exclusive /\ ListedOnce
      /\ NULL \notin Pcb /\ running \in [Cpu -> Pcb \cup {NULL}]
      /\ IsFiniteSet(Ready) /\ Cardinality(Ready) \in Nat
      /\ IsFiniteSet(Getting) /\ Cardinality(Getting) \in Nat
      /\ Late \in {0, 1}
  BY SchedAssumption, GettingFinite, FS_CardinalityType DEF SInv, TypeOK, WorkInv, Late
<1>1. ASSUME UNCHANGED << mlq_ready_queue, running, cpc, Late >> PROVE WorkInv'
  <2>1. Ready' = Ready /\ Idling' = Idling /\ Getting' = Getting
    BY <1>1 DEF Ready, Idling, Getting
  <2>2. QED
    BY <1>1, <2>1 DEF WorkInv
<1>2. CASE LoaderLoad \/ LoaderWait \/ LoaderDone \/ LoaderDetach
  BY <1>1, <1>2 DEF LoaderLoad, LoaderWait, LoaderDone, LoaderDetach, Load, vars,
                    cpuVars, Late
<1>3. CASE LoaderAdd
  <2>1. /\ Late = 0 /\ Late' = 1 /\ UNCHANGED << running, cpc >>
        /\ loading \in Pcb /\ loading \notin Ready /\ Requeue(loading)
    BY <1>0, <1>3 DEF LoaderAdd, AddProc, cpuVars, Late, TypeOK, Exclusive
  <2>2. Ready' \subseteq Ready \cup {loading}
    BY <1>0, <2>1, RequeueEffect
  <2>3. IsFiniteSet(Ready') /\ Cardinality(Ready') <= Cardinality(Ready) + 1
    BY <1>0, <2>2, ReadyGrows
  <2>4. Idling' = Idling /\ Getting' = Getting
    BY <2>1 DEF Idling, Getting
  <2>5. Cardinality(Ready') \in Nat
    BY <2>3, FS_CardinalityType
  <2>6. QED
    BY <1>0, <2>1, <2>3, <2>4, <2>5 DEF WorkInv
<1>4. ASSUME NEW c \in Cpu, CpuNext(c) PROVE WorkInv'
  <2>0. /\ Late' = Late
        /\ cpc \in [Cpu -> {"top", "get", "recheck", "slot", "stopped"}]
    BY <1>4 DEF CpuNext, CpuGetFirst, CpuIdle, CpuFinish, CpuPut, CpuGetNext,
                CpuKeep, CpuStop, CpuSkip, CpuRun, loaderVars, Late, SliceInv
  <2>1. ASSUME GetProc(c), Go(c, "top", "recheck") \/ Go(c, "get", "recheck")
        PROVE  WorkInv'
    <3>1. PICK p \in Ready :
             /\ p \in Pcb /\ running' = [running EXCEPT ![c] = p]
             /\ Ready' = Ready \ {p}
      BY <1>0, <2>1, GetProcEffect
    <3>2. IsFiniteSet(Ready') /\ Cardinality(Ready') = Cardinality(Ready) - 1
      BY <1>0, <3>1, FS_RemoveElement
    <3>3. c \notin Idling' /\ Idling' \subseteq Idling
      BY <1>0, <2>0, <2>1, <3>1 DEF Idling, Go
    <3>4. Getting' = Getting \ {c}
      BY <2>0, <2>1 DEF Getting, Go
    <3>5. Cardinality(Getting') = IF c \in Getting THEN Cardinality(Getting) - 1
                                                   ELSE Cardinality(Getting)
      BY <1>0, <3>4, FS_RemoveElement
    <3>6. Idling' # {} => Cardinality(Ready) <= Cardinality(Getting) + Late
      BY <3>3 DEF WorkInv
    <3>7. QED
      BY <1>0, <2>0, <3>2, <3>5, <3>6 DEF WorkInv
  <2>2. ASSUME queue_empty, UNCHANGED vars PROVE WorkInv'
    <3>1. Ready' = {} /\ IsFiniteSet({}) /\ Cardinality({}) = 0
      BY <2>2, NoneReady DEF vars, Ready
    <3>2. Cardinality(Getting') \in Nat
      <4>1. Getting' \subseteq Cpu /\ IsFiniteSet(Cpu)
        BY OSAssumption DEF Getting
      <4>2. QED
        BY <4>1, FS_Subset, FS_CardinalityType
    <3>3. QED
      BY <1>0, <2>0, <3>1, <3>2 DEF WorkInv
  <2>3. ASSUME CpuFinish(c) \/ CpuPut(c) PROVE WorkInv'
    <3>1. /\ running[c] # NULL /\ running[c] \in Pcb /\ Go(c, "top", "get")
          /\ running' = [running EXCEPT ![c] = NULL]
      BY <1>0, <2>3 DEF CpuFinish, CpuPut, Finish, PutProc
    <3>2. Idling' = Idling
      BY <1>0, <2>0, <3>1 DEF Idling, Go
    <3>3. Getting' = Getting \cup {c} /\ c \notin Getting
      BY <2>0, <3>1 DEF Getting, Go
    <3>4. Cardinality(Getting') = Cardinality(Getting) + 1
      BY <1>0, <3>3, FS_AddElement
    <3>5. Ready' \subseteq Ready \cup {running[c]}
      <4>1. CASE CpuFinish(c)
        BY <4>1 DEF CpuFinish, Finish, Ready
      <4>2. CASE CpuPut(c)
        <5>1. running[c] \notin Ready /\ Requeue(running[c])
          BY <1>0, <3>1, <4>2 DEF Exclusive, OnCpu, CpuPut, PutProc
        <5>2. QED
          BY <1>0, <3>1, <5>1, RequeueEffect
      <4>3. QED
        BY <2>3, <4>1, <4>2
    <3>6. IsFiniteSet(Ready') /\ Cardinality(Ready') <= Cardinality(Ready) + 1
      BY <1>0, <3>5, ReadyGrows
    <3>7. Cardinality(Ready') \in Nat
      BY <3>6, FS_CardinalityType
    <3>8. QED
      BY <1>0, <2>0, <3>2, <3>4, <3>6, <3>7 DEF WorkInv
  <2>4. ASSUME CpuKeep(c) \/ CpuRun(c) \/ CpuStop(c) \/ CpuSkip(c) PROVE WorkInv'
    <3>1. /\ UNCHANGED << mlq_ready_queue, running >>
          /\ \/ running[c] # NULL /\ (Go(c, "top", "recheck") \/ Go(c, "recheck", "slot"))
             \/ Go(c, "recheck", "stopped") \/ Go(c, "recheck", "slot")
      BY <2>4 DEF CpuKeep, CpuRun, CpuStop, CpuSkip, vars
    <3>2. Idling' = Idling /\ Getting' = Getting /\ Ready' = Ready
      BY <2>0, <3>1 DEF Idling, Getting, Go, Ready
    <3>3. QED
      BY <2>0, <3>2 DEF WorkInv
  <2>5. QED
    BY <1>4, <2>1, <2>2, <2>3, <2>4
       DEF CpuNext, CpuGetFirst, CpuIdle, CpuGetNext
<1>5. CASE Tick
  <2>1. /\ \A c \in Cpu : cpc[c] \in {"slot", "stopped"}
        /\ UNCHANGED << mlq_ready_queue, running, done >>
        /\ \A c \in Cpu : cpc'[c] = IF cpc[c] = "slot" THEN "top" ELSE cpc[c]
    BY <1>5 DEF Tick, SlotOver, vars
  <2>2. Ready' = Ready /\ Getting = {} /\ Idling' \subseteq Idling
    BY <2>1 DEF Ready, Getting, Idling
  <2>3. Idling' # {} => lpc = "stopped" /\ lpc' = "stopped"
    <3>1. Idling' # {} => done
      BY <2>1 DEF Idling, StopInv
    <3>2. lpc \in {"waitSlot", "addSlot", "stopped"}
      BY <1>5 DEF Tick, SlotOver, LoaderArrived
    <3>3. lpc = "stopped" => lpc' = "stopped"
      BY <1>5 DEF Tick
    <3>4. QED
      BY <3>1, <3>2, <3>3 DEF StopInv
  <2>4. Idling' # {} => Cardinality(Ready') <= 0 /\ Late' = 0
    BY <2>2, <2>3, FS_EmptySet DEF WorkInv, Late
  <2>5. Cardinality(Getting') \in Nat
    <3>1. Getting' \subseteq Cpu /\ IsFiniteSet(Cpu)
      BY OSAssumption DEF Getting
    <3>2. QED
      BY <3>1, FS_Subset, FS_CardinalityType
  <2>6. QED
    BY <1>0, <2>2, <2>4, <2>5 DEF WorkInv
<1>6. CASE Terminated \/ UNCHANGED osvars
  BY <1>1, <1>6 DEF Terminated, osvars, vars, loaderVars, cpuVars, Late
<1>7. QED
  BY <1>2, <1>3, <1>4, <1>5, <1>6 DEF OSNext, LoaderNext

LEMMA OSInductive == OSSpec => [](SInv /\ SliceInv /\ StopInv /\ WorkInv)
<1>1. OSSpec => []SInv
  BY OSImplementsSched, SchedInvariant, PTL
<1>2. QED
  BY <1>1, JobInvariant, SliceInit, SliceStep, StopInit, StopStep, WorkInit,
     WorkStep, PTL DEF OSSpec

\* For any configuration and number of cpus: no cpu goes through a slot
\* without a process while one has been ready since the slot began.
THEOREM NoIdleWaste == OSSpec => []WorkConserving
<1>1. ASSUME SliceInv, StopInv, WorkInv PROVE WorkConserving
  <2> SUFFICES ASSUME SlotOver, NEW c \in Cpu, running[c] = NULL
               PROVE  Cardinality(Ready) <= Late
    BY DEF WorkConserving, Late
  <2>1. Getting = {} /\ c \in Idling
    BY DEF SlotOver, Getting, Idling
  <2>2. Cardinality({}) = 0 /\ Late \in Nat /\ Cardinality(Ready) \in Nat
    BY <1>1, FS_EmptySet, FS_CardinalityType DEF Late, WorkInv
  <2>3. QED
    BY <1>1, <2>1, <2>2 DEF WorkInv
<1>2. SInv /\ SliceInv /\ StopInv /\ WorkInv => WorkConserving
  BY <1>1
<1>3. QED
  BY <1>2, OSInductive, PTL

\* For any configuration with a cpu, and queues that hold every pcb there can
\* be: when all threads have stopped, no process is left unfinished.
THEOREM NoneLeft == Roomy /\ Cpu # {} => (OSSpec => []NothingLeftBehind)
<1> SUFFICES ASSUME Roomy, Cpu # {} PROVE OSSpec => []NothingLeftBehind
  OBVIOUS
<1>1. ASSUME StopInv, WorkInv, NoneLost PROVE NothingLeftBehind
  <2> SUFFICES ASSUME AllStopped PROVE i > num_processes /\ allocated = {}
    BY DEF NothingLeftBehind
  <2>1. done /\ i > num_processes /\ loading = NULL
    BY <1>1 DEF AllStopped, StopInv
  <2>2. OnCpu = {}
    BY <1>1 DEF AllStopped, StopInv, OnCpu
  <2>3. Getting = {} /\ Idling # {} /\ Late = 0
    BY <1>1 DEF AllStopped, StopInv, Getting, Idling, Late
  <2>4. Ready = {}
    <3>1. Cardinality(Ready) <= 0 /\ Cardinality(Ready) \in Nat
      BY <1>1, <2>3, FS_EmptySet, FS_CardinalityType DEF WorkInv
    <3>2. QED
      BY <1>1, <3>1, FS_EmptySet DEF WorkInv
  <2>5. QED
    BY <1>1, <2>1, <2>2, <2>4 DEF NoneLost, Reachable
<1>2. SInv /\ SliceInv /\ StopInv /\ WorkInv /\ NoneLost => NothingLeftBehind
  BY <1>1
<1>3. OSSpec => []NoneLost
  BY OSImplementsSched, NothingLost, PTL
<1>4. QED
  BY <1>2, <1>3, OSInductive, PTL

-----------------------------------------------------------------------------
\* The time is not stopped by its bound while the loader adds jobs.
TimeSuffices == \A s \in Start : s + num_processes <= MaxTime

\* The slot from which job j may be added, and the slot it asks for.
Free(j) == IF j = 1 THEN 0 ELSE addTime[j - 1] + 1
DueTime(j) == ld_processes[j].start

\* Where the loader stands in time: it comes to a job in the first free slot
\* and waits no longer than to the job's start.
LoaderInv ==
    /\ i \in 1 .. (num_processes + 1) /\ time \in Nat /\ addTime \in [Job -> Nat]
    /\ AddedOnTime
    /\ \A j \in 1 .. (i - 1) : addTime[j] + (num_processes - j) + 1 <= MaxTime
    /\ lpc = "load" /\ i <= num_processes => time = Free(i)
    /\ lpc \in {"wait", "waitSlot"} => i <= num_processes /\ Free(i) <= time
    /\ lpc = "wait" => time = Free(i) \/ time <= DueTime(i)
    /\ lpc = "waitSlot" => time < DueTime(i)
    /\ lpc = "addSlot" => i > 1 /\ time = addTime[i - 1]

LEMMA LoaderInit == OSInit => LoaderInv
<1> SUFFICES ASSUME OSInit PROVE LoaderInv
  OBVIOUS
<1>1. /\ i = 1 /\ time = 0 /\ lpc = "load" /\ num_processes \in Nat
      /\ addTime = [j \in Job |-> 0]
  BY OSAssumption DEF OSInit
<1>2. AddedOnTime
  BY <1>1 DEF AddedOnTime
<1>3. QED
  BY <1>1, <1>2 DEF LoaderInv, Free

\* The properties of the jobs already added do not look at anything else.
LEMMA LoaderFrame ==
  ASSUME LoaderInv, UNCHANGED << ld_processes, i, addTime >>
  PROVE  /\ AddedOnTime' /\ Free(i)' = Free(i) /\ DueTime(i)' = DueTime(i)
         /\ i' \in 1 .. (num_processes + 1) /\ addTime' \in [Job -> Nat]
         /\ \A j \in 1 .. (i' - 1) : addTime'[j] + (num_processes - j) + 1 <= MaxTime
BY DEF LoaderInv, AddedOnTime, Free, DueTime

LEMMA LoaderStep ==
  ASSUME TimeSuffices, JobInv, LoaderInv, [OSNext]_osvars
  PROVE  LoaderInv'
<1>0. /\ num_processes \in Nat /\ MaxTime \in Nat /\ time \in Nat
      /\ i \in 1 .. (num_processes + 1)
      /\ \A j \in Job : /\ DueTime(j) \in Nat
                        /\ DueTime(j) + num_processes <= MaxTime
                        /\ addTime[j] \in Nat
      /\ i \in Job => Free(i) \in Nat
  <2>1. num_processes \in Nat /\ MaxTime \in Nat /\ Start \subseteq Nat
    BY OSAssumption
  <2>2. /\ time \in Nat /\ i \in 1 .. (num_processes + 1)
        /\ \A j \in Job : addTime[j] \in Nat
    BY DEF LoaderInv
  <2>3. \A j \in Job : DueTime(j) \in Start
    BY DEF JobInv, DueTime
  <2>4. i \in Job => i = 1 \/ i - 1 \in Job
    BY <2>1 DEF Job
  <2>5. i \in Job => Free(i) \in Nat
    BY <2>2, <2>4 DEF Free
  <2>6. QED
    BY <2>1, <2>2, <2>3, <2>5 DEF TimeSuffices
<1>1. CASE LoaderLoad
  <2>1. /\ lpc = "load" /\ lpc' = "wait" /\ i <= num_processes
        /\ UNCHANGED << ld_processes, i, addTime, time >>
    BY <1>1 DEF LoaderLoad
  <2>2. time = Free(i)
    BY <2>1 DEF LoaderInv
  <2>3. QED
    BY <1>0, <2>1, <2>2, LoaderFrame DEF LoaderInv
<1>2. CASE LoaderWait
  <2>1. /\ lpc = "wait" /\ lpc' = "waitSlot" /\ ~ (time >= DueTime(i))
        /\ UNCHANGED << ld_processes, i, addTime, time >>
    BY <1>2 DEF LoaderWait, Due, DueTime
  <2>2. i \in Job /\ Free(i) <= time /\ time < DueTime(i)
    BY <1>0, <2>1 DEF LoaderInv, Job
  <2>3. QED
    BY <1>0, <2>1, <2>2, LoaderFrame DEF LoaderInv, Job
<1>3. CASE LoaderAdd
  <2>1. /\ lpc = "wait" /\ lpc' = "addSlot" /\ time >= DueTime(i)
        /\ i' = i + 1 /\ addTime' = [addTime EXCEPT ![i] = time]
        /\ UNCHANGED << ld_processes, time >>
    BY <1>3 DEF LoaderAdd, Due, DueTime
  <2>2. /\ i \in Job /\ i <= num_processes /\ Free(i) \in Nat
        /\ Free(i) <= time /\ (time = Free(i) \/ time <= DueTime(i))
    BY <1>0, <2>1 DEF LoaderInv, Job
  <2>3. time = IF DueTime(i) > Free(i) THEN DueTime(i) ELSE Free(i)
    BY <1>0, <2>1, <2>2
  <2>4. addTime' \in [Job -> Nat] /\ addTime'[i] = time
        /\ \A j \in 1 .. (i - 1) : addTime'[j] = addTime[j]
    BY <1>0, <2>1, <2>2 DEF LoaderInv
  <2>5. AddedOnTime'
    <3> SUFFICES ASSUME NEW j \in 1 .. i
                 PROVE  addTime'[j] = IF DueTime(j) > Free(j)' THEN DueTime(j) ELSE Free(j)'
      BY <1>0, <2>1 DEF AddedOnTime, Free, DueTime
    <3>1. Free(j)' = Free(j)
      <4>1. j = 1 \/ (j - 1) \in 1 .. (i - 1)
        BY <1>0
      <4>2. QED
        BY <2>4, <4>1 DEF Free
    <3>2. CASE j = i
      BY <2>3, <2>4, <3>1, <3>2
    <3>3. CASE j # i
      <4>1. j \in 1 .. (i - 1)
        BY <1>0, <3>3
      <4>2. addTime[j] = IF DueTime(j) > Free(j) THEN DueTime(j) ELSE Free(j)
        BY <4>1 DEF LoaderInv, AddedOnTime, Free, DueTime
      <4>3. QED
        BY <2>4, <3>1, <4>1, <4>2
    <3>4. QED
      BY <3>2, <3>3
  <2>6. time + (num_processes - i) + 1 <= MaxTime
    <3>1. CASE time = DueTime(i)
      BY <1>0, <2>2, <3>1
    <3>2. CASE time = Free(i) /\ i = 1
      BY <1>0, <2>2, <3>2 DEF Free
    <3>3. CASE time = Free(i) /\ i # 1
      <4>1. i - 1 \in 1 .. (i - 1) /\ i - 1 \in Job
        BY <1>0, <2>2, <3>3 DEF Job
      <4>2. addTime[i - 1] + (num_processes - (i - 1)) + 1 <= MaxTime
        BY <4>1 DEF LoaderInv
      <4>3. time = addTime[i - 1] + 1 /\ addTime[i - 1] \in Nat
        BY <1>0, <3>3, <4>1 DEF Free
      <4>4. QED
        BY <1>0, <4>2, <4>3
    <3>4. QED
      BY <2>3, <3>1, <3>2, <3>3
  <2>7. \A j \in 1 .. (i' - 1) : addTime'[j] + (num_processes - j) + 1 <= MaxTime
    <3> SUFFICES ASSUME NEW j \in 1 .. (i' - 1)
                 PROVE  addTime'[j] + (num_processes - j) + 1 <= MaxTime
      OBVIOUS
    <3>1. CASE j = i
      BY <2>4, <2>6, <3>1
    <3>2. CASE j # i
      <4>1. j \in 1 .. (i - 1)
        BY <1>0, <2>1, <3>2
      <4>2. QED
        BY <2>4, <4>1 DEF LoaderInv
    <3>3. QED
      BY <3>1, <3>2
  <2>8. i' \in 1 .. (num_processes + 1) /\ i' > 1 /\ addTime'[i' - 1] = time'
    BY <1>0, <2>1, <2>2, <2>4
  <2>9. QED
    BY <1>0, <2>1, <2>4, <2>5, <2>7, <2>8 DEF LoaderInv
<1>4. CASE LoaderDone \/ LoaderDetach
  <2>1. /\ lpc' \in {"detach", "stopped"}
        /\ UNCHANGED << ld_processes, i, addTime, time >>
    BY <1>4 DEF LoaderDone, LoaderDetach
  <2>2. QED
    BY <1>0, <2>1, LoaderFrame DEF LoaderInv
<1>5. CASE Tick
  <2>1. /\ UNCHANGED << ld_processes, i, addTime >>
        /\ time' = IF time < MaxTime THEN time + 1 ELSE time
        /\ \/ lpc = "waitSlot" /\ lpc' = "wait"
           \/ lpc = "addSlot" /\ lpc' = "load"
           \/ lpc = "stopped" /\ lpc' = "stopped"
    BY <1>5 DEF Tick, SlotOver, LoaderArrived
  <2>2. CASE lpc = "waitSlot"
    <3>1. /\ i \in Job /\ i <= num_processes /\ Free(i) <= time /\ time < DueTime(i)
          /\ Free(i) \in Nat /\ DueTime(i) \in Nat
          /\ DueTime(i) + num_processes <= MaxTime
      BY <1>0, <2>2 DEF LoaderInv, Job
    <3>2. time' = time + 1
      BY <1>0, <2>1, <3>1
    <3>3. time' \in Nat /\ Free(i) <= time' /\ time' <= DueTime(i)
      BY <1>0, <3>1, <3>2
    <3>4. QED
      BY <2>1, <2>2, <3>1, <3>3, LoaderFrame DEF LoaderInv
  <2>3. CASE lpc = "addSlot"
    <3>1. i > 1 /\ time = addTime[i - 1] /\ i - 1 \in 1 .. (i - 1)
      BY <1>0, <2>3 DEF LoaderInv
    <3>2. addTime[i - 1] + (num_processes - (i - 1)) + 1 <= MaxTime
      BY <3>1 DEF LoaderInv
    <3>3. time' = time + 1
      BY <1>0, <2>1, <3>1, <3>2
    <3>4. time' = Free(i) /\ time' \in Nat
      BY <1>0, <3>1, <3>3 DEF Free
    <3>5. QED
      BY <2>1, <2>3, <3>4, LoaderFrame DEF LoaderInv
  <2>4. CASE lpc = "stopped"
    <3>1. time' \in Nat
      BY <1>0, <2>1
    <3>2. QED
      BY <2>1, <2>4, <3>1, LoaderFrame DEF LoaderInv
  <2>5. QED
    BY <2>1, <2>2, <2>3, <2>4
<1>6. ASSUME UNCHANGED << ld_processes, i, addTime, time, lpc >> PROVE LoaderInv'
  BY <1>0, <1>6, LoaderFrame DEF LoaderInv
<1>7. ASSUME NEW c \in Cpu, CpuNext(c) PROVE LoaderInv'
  BY <1>6, <1>7 DEF CpuNext, CpuGetFirst, CpuIdle, CpuFinish, CpuPut, CpuGetNext,
                    CpuKeep, CpuStop, CpuSkip, CpuRun, loaderVars
<1>8. CASE Terminated \/ UNCHANGED osvars
  BY <1>6, <1>8 DEF Terminated, osvars, loaderVars
<1>9. QED
  BY <1>1, <1>2, <1>3, <1>4, <1>5, <1>7, <1>8 DEF OSNext, LoaderNext

\* For any configuration: the loader adds a job in the slot it is due, or in
\* the first after the job before it.
THEOREM LoaderOnTime == TimeSuffices => (OSSpec => []AddedOnTime)
<1> SUFFICES ASSUME TimeSuffices PROVE OSSpec => []AddedOnTime
  OBVIOUS
<1>1. JobInv /\ LoaderInv /\ [OSNext]_osvars => LoaderInv'
  BY LoaderStep
<1>2. LoaderInv => AddedOnTime
  BY DEF LoaderInv
<1>3. QED
  BY <1>1, <1>2, JobInvariant, LoaderInit, PTL DEF OSSpec
=============================================================================
