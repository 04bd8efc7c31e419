------------------------------ MODULE SysMemmap ------------------------------
(***************************************************************************)
(* sys_mem.c: a system call looks for the pcb of its caller in             *)
(* running_list, load by load and without queue_lock, while the other cpus *)
(* and the loader change the list, store by store, with the lock.  The     *)
(* build is not optimised: every access of the source happens, in order.   *)
(* One process, Me, makes calls: a call writes nothing that another        *)
(* search reads.  Which ready process is dispatched is Sched's business;   *)
(* here it may be any.                                                     *)
(***************************************************************************)
EXTENDS Queue, FiniteSets

CONSTANTS Pcb,     \* the addresses malloc may return for a pcb
          Me,      \* the address of the caller's pcb
          cpus,    \* the number of cpu threads
          NULL

ASSUME SysMemmapAssumption ==
    /\ Me \in Pcb /\ NULL \notin Pcb
    /\ cpus \in Nat \ {0}

Index == 0 .. (MAX_QUEUE_SIZE - 1)

VARIABLES
    proc, size,        \* running_list: its array and its length
    state,             \* state[p]: what becomes of the pcb at p
    wpc, wp, wj,       \* the thread with queue_lock: its next store, its proc, its j
    spc, i, found,     \* find_pcb_by_pid: its next load, its i, its result
    touched,           \* the pcbs whose page table the call has changed
    list,              \* history: running_list as the operators of Queue have it
    later,             \* history: the pcbs dispatched since Me was
    moved,             \* history: Me changed its place during the call
    phantom            \* history: the call took a freed pcb for its caller's

listVars == << proc, size, list, later >>
writerVars == << wpc, wp, wj >>
resultVars == << found, touched, phantom >>
vars == << listVars, state, writerVars, spc, i, resultVars, moved >>

Init ==
    /\ proc = [k \in Index |-> NULL] /\ size = 0
    /\ state = [p \in Pcb |-> "free"]
    /\ wpc = "idle" /\ wp = NULL /\ wj = 0
    /\ spc = "idle" /\ i = 0 /\ found = NULL /\ touched = {}
    /\ list = << >> /\ later = {}
    /\ moved = FALSE /\ phantom = FALSE

Running == { p \in Pcb : state[p] = "running" }

InCall == spc # "idle"

\* The thread that has p neither holds queue_lock nor is in a call.
Idle(p) == (wpc = "idle" \/ wp # p) /\ (p = Me => ~ InCall)

-----------------------------------------------------------------------------
(* The loader and the other cpus *)

\* load(), by the one loader thread: the pcb gets a pid of its own.
Load(p) ==
    /\ state[p] = "free"
    /\ \A q \in Pcb : state[q] # "loaded"
    /\ state' = [state EXCEPT ![p] = "loaded"]
    /\ UNCHANGED << listVars, writerVars, spc, i, resultVars, moved >>

\* A process at its end is freed; its place in the list stays.
Exit(p) ==
    /\ state[p] = "running" /\ Idle(p)
    /\ state' = [state EXCEPT ![p] = "free"]
    /\ UNCHANGED << listVars, writerVars, spc, i, resultVars, moved >>

\* put_mlq_proc and add_mlq_proc, until purgequeue has found p or has not.
StartPurge(p) ==
    /\ wpc = "idle"
    /\ state[p] \in {"running", "loaded"} /\ Idle(p)
    /\ \/ \E k \in 0 .. (size - 1) :
             /\ proc[k] = p
             /\ \A j \in 0 .. (k - 1) : proc[j] # p
             /\ wpc' = "shift" /\ wp' = p /\ wj' = k
             /\ UNCHANGED state
       \/ /\ \A k \in 0 .. (size - 1) : proc[k] # p
          /\ state' = [state EXCEPT ![p] = "ready"]
          /\ UNCHANGED writerVars
    /\ UNCHANGED << listVars, spc, i, resultVars, moved >>

\* (Faulty: the last pcb takes the place.)
ShiftLast ==
    /\ wpc = "shift" /\ wj < size - 1
    /\ proc' = [proc EXCEPT ![wj] = proc[size - 1]]
    /\ wj' = size - 1
    /\ moved' = (moved \/ (InCall /\ proc[size - 1] = Me))
    /\ UNCHANGED << size, list, later, state, wpc, wp, spc, i, resultVars >>

\* q->proc[j] = q->proc[j + 1]
Shift ==
    /\ wpc = "shift" /\ wj < size - 1
    /\ proc' = [proc EXCEPT ![wj] = proc[wj + 1]]
    /\ wj' = wj + 1
    /\ moved' = (moved \/ (InCall /\ proc[wj + 1] = Me))
    /\ UNCHANGED << size, list, later, state, wpc, wp, spc, i, resultVars >>

\* q->size--, and the process enters its ready queue.
Shrink ==
    /\ wpc = "shift" /\ wj >= size - 1
    /\ wpc' = "idle"
    /\ size' = size - 1
    /\ list' = Purgequeue(list, wp)
    /\ state' = [state EXCEPT ![wp] = "ready"]
    /\ UNCHANGED << proc, later, wp, wj, spc, i, resultVars, moved >>

\* get_mlq_proc has taken p off its ready queue; a full list ignores it.
StartGet(p) ==
    /\ wpc = "idle"
    /\ state[p] = "ready"
    /\ Cardinality(Running) < cpus
    /\ IF size < MAX_QUEUE_SIZE
       THEN wpc' = "store" /\ wp' = p /\ UNCHANGED << wj, state >>
       ELSE state' = [state EXCEPT ![p] = "running"] /\ UNCHANGED writerVars
    /\ UNCHANGED << listVars, spc, i, resultVars, moved >>

\* q->proc[q->size] = proc
Store ==
    /\ wpc = "store" /\ wpc' = "grow"
    /\ proc' = [proc EXCEPT ![size] = wp]
    /\ later' = IF wp = Me THEN {} ELSE later \cup {wp}
    /\ UNCHANGED << size, list, state, wp, wj, spc, i, resultVars, moved >>

\* q->size++
Grow ==
    /\ wpc = "grow" /\ wpc' = "idle"
    /\ size' = size + 1
    /\ list' = Enqueue(list, wp)
    /\ state' = [state EXCEPT ![wp] = "running"]
    /\ UNCHANGED << proc, later, wp, wj, spc, i, resultVars, moved >>

-----------------------------------------------------------------------------
(* The system call *)

Goto(here, next) == spc = here /\ spc' = next

\* SYSCALL 17: __sys_memmap searches first.
Call ==
    /\ Goto("idle", "size")
    /\ state[Me] = "running" /\ Idle(Me)
    /\ UNCHANGED << listVars, state, writerVars, i, resultVars, moved >>

\* (Faulty: the last pcb of the list is not looked at.)
MoreButLast == i < size - 1

\* i < rq->size
More == i < size

\* ready_queue, which is searched after the last pcb, is always empty.
TestSize ==
    /\ IF More THEN Goto("size", "null") ELSE Goto("size", "back")
    /\ UNCHANGED << listVars, state, writerVars, i, resultVars, moved >>

\* rq->proc[i] ...
TestNull ==
    /\ spc = "null"
    /\ IF proc[i] = NULL
       THEN spc' = "size" /\ i' = i + 1
       ELSE spc' = "pid" /\ UNCHANGED i
    /\ UNCHANGED << listVars, state, writerVars, resultVars, moved >>

\* (Faulty: the pid is not compared.)
PidIsUnread == TRUE

\* Pids are unique; what the memory of a freed pcb holds may be any pid.
PidIs == proc[i] = Me \/ state[proc[i]] = "free"

\* (Faulty: the next pcb is not gone to.)
PidIsNotStuck ==
    /\ proc[i] # Me
    /\ spc' = "size" /\ UNCHANGED << i, phantom >>

PidIsNot ==
    /\ proc[i] # Me
    /\ spc' = "size" /\ i' = i + 1
    /\ UNCHANGED phantom

\* ... && rq->proc[i]->pid == pid
TestPid ==
    /\ spc = "pid"
    /\ \/ /\ PidIs
          /\ spc' = "return" /\ UNCHANGED i
          /\ phantom' = (state[proc[i]] = "free")
       \/ PidIsNot
    /\ UNCHANGED << listVars, state, writerVars, found, touched, moved >>

\* return rq->proc[i], which is read once more.
Return ==
    /\ Goto("return", "back")
    /\ found' = proc[i]
    /\ UNCHANGED << listVars, state, writerVars, i, touched, phantom, moved >>

\* Without a pcb the call returns -1.
Fail ==
    /\ Goto("back", "done")
    /\ found = NULL
    /\ UNCHANGED << listVars, state, writerVars, i, resultVars, moved >>

MemOp == {"MAP", "INC", "SWP", "IO_READ", "IO_WRITE"}

\* MAP writes into the page table of the pcb found, INC does nothing; the
\* others use the storage devices, which are the same whatever the pcb.
Serve ==
    /\ Goto("back", "done")
    /\ found # NULL
    /\ \E memop \in MemOp : touched' = IF memop = "MAP" THEN {found} ELSE {}
    /\ UNCHANGED << listVars, state, writerVars, i, found, phantom, moved >>

\* The instruction is over: run() returns to cpu_routine.
Leave ==
    /\ Goto("done", "idle")
    /\ i' = 0 /\ found' = NULL /\ touched' = {}
    /\ moved' = FALSE /\ phantom' = FALSE
    /\ UNCHANGED << listVars, state, writerVars >>

-----------------------------------------------------------------------------
Write ==
    \/ \E p \in Pcb : Load(p) \/ Exit(p) \/ StartPurge(p) \/ StartGet(p)
    \/ Shift \/ Shrink \/ Store \/ Grow

Search ==
    TestSize \/ TestNull \/ TestPid \/ Return \/ Fail \/ Serve \/ Leave

Next == Write \/ Call \/ Search

\* The caller's thread runs; of the others nothing is assumed.
Spec == Init /\ [][Next]_vars

FairSpec == Spec /\ WF_vars(Search)

-----------------------------------------------------------------------------
(* Properties *)

\* Whenever queue_lock is free, the array with its stores one by one holds
\* what the operators of Queue say: enqueue and purgequeue are atomic to
\* whoever takes the lock (queue.c).
ArrayIsQueue ==
    wpc = "idle" =>
        /\ size = Len(list)
        /\ \A k \in 0 .. (size - 1) : proc[k] = list[k + 1]

\* A search finds its caller, whatever the other cpus dispatch, put back and
\* finish meanwhile, unless the caller's own entry moved in the list during
\* the search or freed memory held the caller's pid (find_pcb_by_pid).
UnmovedIsFound ==
    spc = "back" /\ Me \in Elems(list) => moved \/ phantom \/ found = Me

\* When a search does go wrong, the page table SYSMEM_MAP_OP changes belongs
\* to a process dispatched after the caller, never to one dispatched before.
OnlyLaterTouched == phantom \/ touched \subseteq {Me} \cup later

\* A search ends although the list changes under it: its index only grows,
\* and the list has an end.
SearchEnds == InCall ~> ~ InCall
=============================================================================
