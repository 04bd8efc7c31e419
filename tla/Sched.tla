------------------------------- MODULE Sched -------------------------------
(***************************************************************************)
(* The multi-level queue scheduler of sched.c (MLQ_SCHED), used by the     *)
(* loader and by every cpu thread.  Each of get_mlq_proc, put_mlq_proc and *)
(* add_mlq_proc runs under queue_lock from its first read to its last      *)
(* write, so each is one action.  A pcb is an address: malloc may hand out *)
(* again what free gave back, and what a queue still holds of a freed pcb  *)
(* then names another process.                                             *)
(***************************************************************************)
EXTENDS Queue, FiniteSets

CONSTANTS Pcb,        \* the addresses malloc may return for a pcb
          Cpu,        \* the cpu threads
          MAX_PRIO,   \* sched.h:10
          NULL

ASSUME SchedAssumption ==
    /\ MAX_PRIO \in Nat \ {0}
    /\ NULL \notin Pcb

Prio == 0 .. (MAX_PRIO - 1)

VARIABLES mlq_ready_queue,  \* mlq_ready_queue[k]: the ready queue of level k
          slot,             \* slot[k]: dispatches level k has left this round
          running_list,     \* what sys_mem.c searches for a caller's pcb
          prio,             \* prio[p]: the level written in pcb p
          allocated,        \* pcbs between their malloc and their free
          loading,          \* the pcb ld_routine holds, or NULL
          running           \* running[c]: `proc' of cpu c's cpu_routine, or NULL

vars == << mlq_ready_queue, slot, running_list, prio, allocated, loading, running >>

-----------------------------------------------------------------------------
Ready == UNION { Elems(mlq_ready_queue[k]) : k \in Prio }
OnCpu == { running[c] : c \in Cpu } \ {NULL}

queue_empty == \A k \in Prio : Empty(mlq_ready_queue[k])

\* The quota every level gets at the start and whenever a round is over.
FullSlot == [k \in Prio |-> MAX_PRIO - k]

\* (Faulty: a level with no dispatch left can be chosen.)
ServableSpent(quota) ==
    { k \in Prio : ~ Empty(mlq_ready_queue[k]) /\ quota[k] >= 0 }

Servable(quota) == { k \in Prio : ~ Empty(mlq_ready_queue[k]) /\ quota[k] > 0 }

\* (Faulty: the round ends as soon as one waiting level is out of dispatches.)
RoundSlotEager ==
    IF \E k \in Prio : ~ Empty(mlq_ready_queue[k]) /\ slot[k] = 0
    THEN FullSlot ELSE slot

\* The quotas get_mlq_proc chooses with: a round ends when no level that
\* has a process has a dispatch left.
RoundSlot == IF Servable(slot) = {} THEN FullSlot ELSE slot

Init ==
    /\ mlq_ready_queue = [k \in Prio |-> << >>]
    /\ slot = FullSlot
    /\ running_list = << >>
    /\ prio \in [Pcb -> {0}]
    /\ allocated = {}
    /\ loading = NULL
    /\ running = [c \in Cpu |-> NULL]

\* ld_routine: load() allocates the pcb, then the configured level is stored.
Load(p, k) ==
    /\ loading = NULL
    /\ p \notin allocated
    /\ allocated' = allocated \cup {p}
    /\ loading' = p
    /\ prio' = [prio EXCEPT ![p] = k]
    /\ UNCHANGED << mlq_ready_queue, slot, running_list, running >>

\* (Faulty: running_list keeps what goes back to a ready queue.)
RequeueNoPurge(p) ==
    /\ mlq_ready_queue' = [mlq_ready_queue EXCEPT ![prio[p]] = Enqueue(@, p)]
    /\ UNCHANGED running_list

\* Both put_mlq_proc and add_mlq_proc: off the running list, onto the level.
Requeue(p) ==
    /\ running_list' = Purgequeue(running_list, p)
    /\ mlq_ready_queue' = [mlq_ready_queue EXCEPT ![prio[p]] = Enqueue(@, p)]

AddProc ==
    /\ loading # NULL
    /\ Requeue(loading)
    /\ loading' = NULL
    /\ UNCHANGED << slot, prio, allocated, running >>

\* A call on empty queues returns NULL and changes nothing.
GetProc(c) ==
    /\ running[c] = NULL
    /\ ~ queue_empty
    /\ \E k \in Servable(RoundSlot) :
          /\ \A j \in Servable(RoundSlot) : k <= j
          /\ slot' = [RoundSlot EXCEPT ![k] = @ - 1]
          /\ LET proc == Dequeued(mlq_ready_queue[k], prio) IN
                /\ mlq_ready_queue' =
                      [mlq_ready_queue EXCEPT ![k] = Dequeue(@, prio)]
                /\ running_list' = Enqueue(running_list, proc)
                /\ running' = [running EXCEPT ![c] = proc]
    /\ UNCHANGED << prio, allocated, loading >>

\* (Faulty: the cpu goes on with the process it has put back.)
PutProcKeep(c) ==
    /\ running[c] # NULL
    /\ Requeue(running[c])
    /\ UNCHANGED << slot, prio, allocated, loading, running >>

PutProc(c) ==
    /\ running[c] # NULL
    /\ Requeue(running[c])
    /\ running' = [running EXCEPT ![c] = NULL]
    /\ UNCHANGED << slot, prio, allocated, loading >>

\* (Faulty: the cpu goes on with the pcb it has freed.)
FinishKeep(c) ==
    /\ running[c] # NULL
    /\ allocated' = allocated \ {running[c]}
    /\ UNCHANGED << mlq_ready_queue, slot, running_list, prio, loading, running >>

\* cpu_routine frees a pcb that has run to its end; running_list keeps it.
Finish(c) ==
    /\ running[c] # NULL
    /\ allocated' = allocated \ {running[c]}
    /\ running' = [running EXCEPT ![c] = NULL]
    /\ UNCHANGED << mlq_ready_queue, slot, running_list, prio, loading >>

Next ==
    \/ \E p \in Pcb, k \in Prio : Load(p, k)
    \/ AddProc
    \/ \E c \in Cpu : GetProc(c) \/ PutProc(c) \/ Finish(c)

Spec == Init /\ [][Next]_vars

\* A cpu never stops asking for work nor keeps a process for ever: its
\* thread runs, and a process runs to its end or out of its time slot.
Fairness ==
    \A c \in Cpu : WF_vars(GetProc(c)) /\ WF_vars(PutProc(c) \/ Finish(c))

FairSpec == Spec /\ Fairness

-----------------------------------------------------------------------------
\* Every variable stays in its domain; no queue outgrows its array.
TypeOK ==
    /\ mlq_ready_queue \in [Prio -> Seq(Pcb)]
    /\ slot \in [Prio -> Nat]
    /\ running_list \in Seq(Pcb)
    /\ prio \in [Pcb -> Prio]
    /\ allocated \in SUBSET Pcb
    /\ loading \in Pcb \cup {NULL}
    /\ running \in [Cpu -> Pcb \cup {NULL}]
    /\ \A k \in Prio : Len(mlq_ready_queue[k]) <= MAX_QUEUE_SIZE
    /\ Len(running_list) <= MAX_QUEUE_SIZE

\* A process is never in two places: a pcb a cpu holds or the loader holds is
\* in no ready queue, no two cpus run the same pcb, and a ready pcb is queued
\* once, at its own level (put_mlq_proc and get_mlq_proc of several cpus and
\* add_mlq_proc interleave in any order).
Exclusive ==
    /\ loading \notin Ready \cup OnCpu
    /\ OnCpu \cap Ready = {}
    /\ \A c, d \in Cpu : running[c] = running[d] /\ running[c] # NULL => c = d
    /\ \A k \in Prio : NoDup(mlq_ready_queue[k])
    /\ \A k \in Prio : \A p \in Elems(mlq_ready_queue[k]) : prio[p] = k

\* Where a pcb can still be reached from.
Reachable == ({loading} \ {NULL}) \cup Ready \cup OnCpu

\* No use after free in the scheduler: cpu_routine frees a pcb that no ready
\* queue and no other cpu can reach, so what get_mlq_proc dequeues is alive.
NoDangling == Reachable \subseteq allocated

\* No process is lost: while a pcb is allocated the loader holds it, a ready
\* queue does or a cpu does (enqueue drops what does not fit).
NoneLost == allocated \subseteq Reachable

\* sys_mem.c finds a running process in running_list: what get_mlq_proc
\* dispatches is there until put_mlq_proc or the end of the process.
DispatchedListed == OnCpu \subseteq Elems(running_list)

\* sys_mem.c never finds a ready process in running_list nor a process twice:
\* the list keeps freed pcbs, so this relies on add_mlq_proc purging an
\* address that malloc has handed out again.
ListedOnce ==
    /\ Ready \cap Elems(running_list) = {}
    /\ NoDup(running_list)

\* Within a level processes are served in the order in which they were
\* queued: no step removes any but the first, none enters before the last.
LevelFifo ==
    [][\A k \in Prio :
          LET old == mlq_ready_queue[k]
              new == mlq_ready_queue'[k]
          IN  \/ new = old
              \/ old # << >> /\ new = Tail(old)
              \/ \E p \in Pcb : new = Append(old, p)]_vars

\* No process starves: whatever arrives at higher levels, the quotas bring
\* every ready process to a cpu.
ReadyIsDispatched == \A p \in Pcb : p \in Ready ~> p \in OnCpu

Life == INSTANCE ProcLife WITH
            loaded <- {loading} \ {NULL}, ready <- Ready, on <- running

\* Whatever the policy does, the scheduler only moves a process between the
\* loader, the ready set and a cpu.
LifeSpec == Life!Spec
=============================================================================
