---------------------------- MODULE SchedProofs ----------------------------
(***************************************************************************)
(* Theorems of Sched for every set of pcbs and cpus, every number of       *)
(* levels and every capacity.  SInv is inductive as it stands; that no     *)
(* process is lost needs the queues to be roomy, and is inductive with it. *)
(* For SchedWait, how long a level waits: what the levels have left is a   *)
(* set of turns, each dispatch takes one out, and a level waits through at *)
(* most the turns of the round under way and those of the higher levels in *)
(* the next.                                                               *)
(***************************************************************************)
EXTENDS SchedWait, QueueProofs

SInv == TypeOK /\ Exclusive /\ NoDangling /\ ListedOnce

\* No more pcbs can be allocated at a time than a queue holds.
Roomy == IsFiniteSet(Pcb) /\ Cardinality(Pcb) <= MAX_QUEUE_SIZE

Kept == NoneLost /\ DispatchedListed

-----------------------------------------------------------------------------
\* Ready, seen from one level.
LEMMA ReadyMember ==
  \A p : p \in Ready <=> \E k \in Prio : p \in Elems(mlq_ready_queue[k])
BY DEF Ready

LEMMA ReadyMemberNext ==
  \A p : p \in Ready' <=> \E k \in Prio : p \in Elems(mlq_ready_queue'[k])
BY DEF Ready

\* What add_mlq_proc and put_mlq_proc do to the queues with a pcb that no
\* ready queue holds.
LEMMA RequeueEffect ==
  ASSUME TypeOK, Exclusive, ListedOnce,
         NEW p \in Pcb, p \notin Ready, Requeue(p)
  PROVE  /\ mlq_ready_queue' \in [Prio -> Seq(Pcb)]
         /\ \A k \in Prio : Len(mlq_ready_queue'[k]) <= MAX_QUEUE_SIZE
         /\ \A k \in Prio : NoDup(mlq_ready_queue'[k])
         /\ \A k \in Prio : \A r \in Elems(mlq_ready_queue'[k]) : prio[r] = k
         /\ running_list' \in Seq(Pcb)
         /\ Len(running_list') <= MAX_QUEUE_SIZE
         /\ NoDup(running_list')
         /\ Elems(running_list') = Elems(running_list) \ {p}
         /\ Ready \subseteq Ready' /\ Ready' \subseteq Ready \cup {p}
         /\ Roomy => p \in Ready'
<1> DEFINE k0 == prio[p]
           q == mlq_ready_queue[k0]
<1>1. k0 \in Prio /\ q \in Seq(Pcb) /\ Len(q) <= MAX_QUEUE_SIZE /\ NoDup(q)
  BY DEF TypeOK, Exclusive
<1>2. p \notin Elems(q)
  BY <1>1, ReadyMember
<1>3. /\ Enqueue(q, p) \in Seq(Pcb)
      /\ Len(Enqueue(q, p)) <= MAX_QUEUE_SIZE
      /\ Elems(Enqueue(q, p)) =
            IF Len(q) < MAX_QUEUE_SIZE THEN Elems(q) \cup {p} ELSE Elems(q)
      /\ NoDup(Enqueue(q, p))
  BY <1>1, <1>2, EnqueueFacts
<1>4. mlq_ready_queue' = [mlq_ready_queue EXCEPT ![k0] = Enqueue(q, p)]
  BY DEF Requeue
<1>5. /\ mlq_ready_queue'[k0] = Enqueue(q, p)
      /\ \A k \in Prio \ {k0} : mlq_ready_queue'[k] = mlq_ready_queue[k]
      /\ mlq_ready_queue' \in [Prio -> Seq(Pcb)]
  BY <1>1, <1>3, <1>4 DEF TypeOK
<1>6. /\ running_list' \in Seq(Pcb)
      /\ Len(running_list') <= MAX_QUEUE_SIZE
      /\ NoDup(running_list')
      /\ Elems(running_list') = Elems(running_list) \ {p}
  BY PurgeFacts DEF Requeue, TypeOK, ListedOnce
<1>7. \A k \in Prio : /\ Len(mlq_ready_queue'[k]) <= MAX_QUEUE_SIZE
                      /\ NoDup(mlq_ready_queue'[k])
  BY <1>3, <1>5 DEF TypeOK, Exclusive
<1>8. \A k \in Prio : \A r \in Elems(mlq_ready_queue'[k]) : prio[r] = k
  BY <1>1, <1>3, <1>5 DEF Exclusive
<1>9. \A k \in Prio : Elems(mlq_ready_queue[k]) \subseteq Elems(mlq_ready_queue'[k])
  BY <1>3, <1>5
<1>10. \A k \in Prio :
          Elems(mlq_ready_queue'[k]) \subseteq Elems(mlq_ready_queue[k]) \cup {p}
  BY <1>3, <1>5
<1>11. Ready \subseteq Ready' /\ Ready' \subseteq Ready \cup {p}
  BY <1>9, <1>10, ReadyMember, ReadyMemberNext
<1>12. ASSUME Roomy PROVE p \in Ready'
  <2>1. Len(q) < MAX_QUEUE_SIZE
    BY <1>1, <1>2, <1>12, RoomFor DEF Roomy
  <2>2. p \in Elems(mlq_ready_queue'[k0])
    BY <1>3, <1>5, <2>1
  <2>3. QED
    BY <1>1, <2>2, ReadyMemberNext
<1>13. QED
  BY <1>5, <1>6, <1>7, <1>8, <1>11, <1>12

\* What get_mlq_proc does: one ready pcb leaves its queue for the cpu.
LEMMA GetProcEffect ==
  ASSUME TypeOK, Exclusive, ListedOnce, NEW c \in Cpu, GetProc(c)
  PROVE  \E proc \in Ready :
         /\ proc \in Pcb
         /\ running' = [running EXCEPT ![c] = proc]
         /\ slot' \in [Prio -> Nat]
         /\ mlq_ready_queue' \in [Prio -> Seq(Pcb)]
         /\ \A k \in Prio : Len(mlq_ready_queue'[k]) <= MAX_QUEUE_SIZE
         /\ \A k \in Prio : NoDup(mlq_ready_queue'[k])
         /\ \A k \in Prio :
               Elems(mlq_ready_queue'[k]) \subseteq Elems(mlq_ready_queue[k])
         /\ Ready' = Ready \ {proc}
         /\ running_list' \in Seq(Pcb)
         /\ Len(running_list') <= MAX_QUEUE_SIZE
         /\ NoDup(running_list')
         /\ Elems(running_list) \subseteq Elems(running_list')
         /\ Elems(running_list') \subseteq Elems(running_list) \cup {proc}
         /\ Roomy => proc \in Elems(running_list')
<1>1. PICK k0 \in Servable(RoundSlot) :
         /\ slot' = [RoundSlot EXCEPT ![k0] = @ - 1]
         /\ mlq_ready_queue' =
               [mlq_ready_queue EXCEPT ![k0] = Dequeue(mlq_ready_queue[k0], prio)]
         /\ running_list' =
               Enqueue(running_list, Dequeued(mlq_ready_queue[k0], prio))
         /\ running' =
               [running EXCEPT ![c] = Dequeued(mlq_ready_queue[k0], prio)]
  BY DEF GetProc, TypeOK
<1> DEFINE q == mlq_ready_queue[k0]
           proc == Dequeued(q, prio)
<1>2. k0 \in Prio /\ q \in Seq(Pcb) /\ NoDup(q) /\ q # << >>
  BY DEF TypeOK, Exclusive, Servable, Empty
<1>3. k0 \in Nat /\ \A p \in Elems(q) : prio[p] = k0
  BY <1>2 DEF Exclusive, Prio
<1>4. /\ proc \in Elems(q)
      /\ Dequeue(q, prio) \in Seq(Pcb)
      /\ Len(Dequeue(q, prio)) = Len(q) - 1
      /\ NoDup(Dequeue(q, prio))
      /\ Elems(Dequeue(q, prio)) = Elems(q) \ {proc}
  BY <1>2, <1>3, DequeueFacts
<1>5. proc \in Pcb
  BY <1>2, <1>4 DEF Elems
<1>6. proc \in Ready
  BY <1>2, <1>4, ReadyMember
<1>7. /\ mlq_ready_queue'[k0] = Dequeue(q, prio)
      /\ \A k \in Prio \ {k0} : mlq_ready_queue'[k] = mlq_ready_queue[k]
      /\ mlq_ready_queue' \in [Prio -> Seq(Pcb)]
  BY <1>1, <1>2, <1>4 DEF TypeOK
<1>8. slot' \in [Prio -> Nat]
  <2>1. RoundSlot \in [Prio -> Nat]
    <3>1. FullSlot \in [Prio -> Nat]
      BY SchedAssumption DEF FullSlot, Prio
    <3>2. slot \in [Prio -> Nat]
      BY DEF TypeOK
    <3>3. QED
      BY <3>1, <3>2 DEF RoundSlot
  <2>2. RoundSlot[k0] > 0
    BY DEF Servable
  <2>3. QED
    BY <1>1, <1>2, <2>1, <2>2
<1>9. \A k \in Prio : /\ Len(mlq_ready_queue'[k]) <= MAX_QUEUE_SIZE
                      /\ NoDup(mlq_ready_queue'[k])
  <2>1. MAX_QUEUE_SIZE \in Nat /\ Len(q) \in Nat /\ Len(q) <= MAX_QUEUE_SIZE
    BY <1>2, QueueAssumption DEF TypeOK
  <2>2. Len(Dequeue(q, prio)) <= MAX_QUEUE_SIZE
    BY <1>4, <2>1
  <2>3. QED
    BY <1>4, <1>7, <2>2 DEF TypeOK, Exclusive
<1>10. \A k \in Prio :
          Elems(mlq_ready_queue'[k]) \subseteq Elems(mlq_ready_queue[k])
  BY <1>4, <1>7
<1>11. Ready' = Ready \ {proc}
  <2>1. \A k \in Prio \ {k0} : proc \notin Elems(mlq_ready_queue[k])
    BY <1>3, <1>4 DEF Exclusive
  <2>2. \A k \in Prio :
           Elems(mlq_ready_queue'[k]) = Elems(mlq_ready_queue[k]) \ {proc}
    BY <1>4, <1>7, <2>1
  <2>3. QED
    BY <2>2, ReadyMember, ReadyMemberNext
<1>12. proc \notin Elems(running_list)
  BY <1>6 DEF ListedOnce
<1>13. /\ running_list' \in Seq(Pcb)
       /\ Len(running_list') <= MAX_QUEUE_SIZE
       /\ NoDup(running_list')
       /\ Elems(running_list') = IF Len(running_list) < MAX_QUEUE_SIZE
                                 THEN Elems(running_list) \cup {proc}
                                 ELSE Elems(running_list)
  BY <1>1, <1>5, <1>12, EnqueueFacts DEF TypeOK, ListedOnce
<1>14. ASSUME Roomy PROVE proc \in Elems(running_list')
  BY <1>5, <1>12, <1>13, <1>14, RoomFor DEF Roomy, TypeOK, ListedOnce
<1>15. WITNESS proc \in Ready
<1>16. QED
  BY <1>1, <1>5, <1>7, <1>8, <1>9, <1>10, <1>11, <1>13, <1>14

-----------------------------------------------------------------------------
\* Who a cpu runs, seen from one cpu.
LEMMA OnCpuMember ==
  \A p : p \in OnCpu <=> \E c \in Cpu : running[c] = p /\ p # NULL
BY DEF OnCpu

LEMMA OnCpuMemberNext ==
  \A p : p \in OnCpu' <=> \E c \in Cpu : running'[c] = p /\ p # NULL
BY DEF OnCpu

\* A cpu that takes a pcb, or gives up the one it has.
LEMMA OnCpuTake ==
  ASSUME running \in [Cpu -> Pcb \cup {NULL}], NEW c \in Cpu, running[c] = NULL,
         NEW p \in Pcb, running' = [running EXCEPT ![c] = p]
  PROVE  OnCpu' = OnCpu \cup {p}
BY SchedAssumption, OnCpuMember, OnCpuMemberNext

LEMMA OnCpuGive ==
  ASSUME running \in [Cpu -> Pcb \cup {NULL}], Exclusive,
         NEW c \in Cpu, running[c] # NULL, running' = [running EXCEPT ![c] = NULL]
  PROVE  OnCpu' = OnCpu \ {running[c]}
BY OnCpuMember, OnCpuMemberNext DEF Exclusive

THEOREM SchedInit == Init => SInv
<1> SUFFICES ASSUME Init PROVE SInv
  OBVIOUS
<1>1. MAX_PRIO \in Nat \ {0} /\ MAX_QUEUE_SIZE \in Nat \ {0}
  BY SchedAssumption, QueueAssumption
<1>2. /\ \A k \in Prio : mlq_ready_queue[k] = << >>
      /\ running_list = << >>
      /\ Elems(<< >>) = {} /\ NoDup(<< >>) /\ Len(<< >>) = 0
  BY DEF Init, Elems, NoDup
<1>3. Ready = {}
  BY <1>2, ReadyMember
<1>4. OnCpu = {}
  BY DEF Init, OnCpu
<1>5. TypeOK
  <2>1. mlq_ready_queue \in [Prio -> Seq(Pcb)] /\ running_list \in Seq(Pcb)
    BY DEF Init
  <2>2. slot \in [Prio -> Nat] /\ prio \in [Pcb -> Prio]
    BY <1>1 DEF Init, FullSlot, Prio
  <2>3. QED
    BY <1>1, <1>2, <2>1, <2>2 DEF Init, TypeOK
<1>6. Exclusive
  BY <1>2, <1>3, <1>4 DEF Init, Exclusive
<1>7. QED
  BY <1>2, <1>3, <1>4, <1>5, <1>6 DEF Init, SInv, NoDangling, Reachable, ListedOnce

\* Every operation of the scheduler preserves the invariant.
LEMMA LoadStep ==
  ASSUME SInv, NEW p \in Pcb, NEW k \in Prio, Load(p, k)
  PROVE  SInv' /\ Ready' = Ready /\ OnCpu' = OnCpu
<1>1. /\ Ready' = Ready /\ OnCpu' = OnCpu /\ p \notin Ready \cup OnCpu
      /\ Elems(running_list') = Elems(running_list)
  BY DEF SInv, NoDangling, Reachable, Load, Ready, OnCpu
<1>2. TypeOK'
  BY DEF SInv, TypeOK, Load
<1>3. Exclusive'
  <2>1. \A j \in Prio : \A r \in Elems(mlq_ready_queue'[j]) : prio'[r] = j
    <3> SUFFICES ASSUME NEW j \in Prio, NEW r \in Elems(mlq_ready_queue[j])
                 PROVE  prio'[r] = j
      BY DEF Load
    <3>1. r # p /\ r \in Pcb
      BY <1>1, ReadyMember DEF SInv, TypeOK, Elems
    <3>2. prio[r] = j
      BY DEF SInv, Exclusive
    <3>3. QED
      BY <3>1, <3>2 DEF Load, SInv, TypeOK
  <2>2. \A j \in Prio : NoDup(mlq_ready_queue'[j])
    BY DEF SInv, Exclusive, Load
  <2>3. QED
    BY <1>1, <2>1, <2>2 DEF SInv, Exclusive, Load
<1>4. NoDangling' /\ ListedOnce'
  BY <1>1 DEF SInv, NoDangling, Reachable, ListedOnce, Load
<1>5. QED
  BY <1>1, <1>2, <1>3, <1>4 DEF SInv

LEMMA AddProcStep ==
  ASSUME SInv, AddProc
  PROVE  SInv' /\ OnCpu' = OnCpu
<1>1. /\ loading \in Pcb /\ loading \notin Ready /\ loading \notin OnCpu
      /\ Requeue(loading)
  BY DEF SInv, TypeOK, Exclusive, AddProc
<1>2. TypeOK /\ Exclusive /\ ListedOnce /\ OnCpu' = OnCpu
  BY DEF SInv, AddProc, OnCpu
<1>3. /\ mlq_ready_queue' \in [Prio -> Seq(Pcb)]
      /\ \A k \in Prio : Len(mlq_ready_queue'[k]) <= MAX_QUEUE_SIZE
      /\ \A k \in Prio : NoDup(mlq_ready_queue'[k])
      /\ \A k \in Prio : \A r \in Elems(mlq_ready_queue'[k]) : prio[r] = k
      /\ running_list' \in Seq(Pcb)
      /\ Len(running_list') <= MAX_QUEUE_SIZE
      /\ NoDup(running_list')
      /\ Elems(running_list') = Elems(running_list) \ {loading}
      /\ Ready' \subseteq Ready \cup {loading}
  BY <1>1, <1>2, RequeueEffect
<1>4. TypeOK'
  BY <1>3 DEF SInv, TypeOK, AddProc
<1>5. NULL \notin Ready' /\ NULL \notin OnCpu
  <2>1. NULL \notin Ready
    BY SchedAssumption, ReadyMember DEF SInv, TypeOK, Elems
  <2>2. QED
    BY <1>1, <1>3, <2>1, SchedAssumption DEF OnCpu
<1>6. Exclusive'
  BY <1>1, <1>2, <1>3, <1>5 DEF Exclusive, AddProc
<1>7. NoDangling' /\ ListedOnce'
  BY <1>1, <1>2, <1>3 DEF SInv, NoDangling, Reachable, ListedOnce, AddProc
<1>8. QED
  BY <1>2, <1>4, <1>6, <1>7 DEF SInv

LEMMA GetProcStep ==
  ASSUME SInv, NEW c \in Cpu, GetProc(c)
  PROVE  SInv'
<1>1. PICK proc \in Ready :
         /\ proc \in Pcb
         /\ running' = [running EXCEPT ![c] = proc]
         /\ slot' \in [Prio -> Nat]
         /\ mlq_ready_queue' \in [Prio -> Seq(Pcb)]
         /\ \A k \in Prio : Len(mlq_ready_queue'[k]) <= MAX_QUEUE_SIZE
         /\ \A k \in Prio : NoDup(mlq_ready_queue'[k])
         /\ \A k \in Prio :
               Elems(mlq_ready_queue'[k]) \subseteq Elems(mlq_ready_queue[k])
         /\ Ready' = Ready \ {proc}
         /\ running_list' \in Seq(Pcb)
         /\ Len(running_list') <= MAX_QUEUE_SIZE
         /\ NoDup(running_list')
         /\ Elems(running_list') \subseteq Elems(running_list) \cup {proc}
  BY GetProcEffect DEF SInv
<1>2. running[c] = NULL /\ UNCHANGED << prio, allocated, loading >>
  BY DEF GetProc
<1>3. OnCpu' = OnCpu \cup {proc}
  BY <1>1, <1>2, OnCpuTake DEF SInv, TypeOK
<1>4. proc \notin OnCpu /\ proc # loading /\ proc # NULL
  BY <1>1, SchedAssumption DEF SInv, Exclusive
<1>5. TypeOK'
  BY <1>1, <1>2 DEF SInv, TypeOK
<1>6. Exclusive'
  <2>1. \A a, b \in Cpu : running'[a] = running'[b] /\ running'[a] # NULL => a = b
    <3>1. \A a \in Cpu \ {c} : running'[a] = running[a] /\ running[a] # proc
      BY <1>1, <1>4, OnCpuMember DEF SInv, TypeOK
    <3>2. running'[c] = proc
      BY <1>1 DEF SInv, TypeOK
    <3>3. QED
      BY <3>1, <3>2 DEF SInv, Exclusive
  <2>2. \A k \in Prio : \A p \in Elems(mlq_ready_queue'[k]) : prio'[p] = k
    BY <1>1, <1>2 DEF SInv, Exclusive
  <2>3. QED
    BY <1>1, <1>2, <1>3, <1>4, <2>1, <2>2 DEF SInv, Exclusive
<1>7. NoDangling' /\ ListedOnce'
  BY <1>1, <1>2, <1>3 DEF SInv, NoDangling, Reachable, ListedOnce
<1>8. QED
  BY <1>5, <1>6, <1>7 DEF SInv

LEMMA PutProcStep ==
  ASSUME SInv, NEW c \in Cpu, PutProc(c)
  PROVE  SInv'
<1> DEFINE p == running[c]
<1>1. /\ p \in Pcb /\ p \in OnCpu /\ p # loading /\ Requeue(p)
      /\ running' = [running EXCEPT ![c] = NULL]
      /\ UNCHANGED << slot, prio, allocated, loading >>
  BY DEF SInv, TypeOK, Exclusive, PutProc, OnCpu
<1>2. p \notin Ready
  BY <1>1 DEF SInv, Exclusive
<1>3. TypeOK /\ Exclusive /\ ListedOnce /\ NoDangling
  BY DEF SInv
<1>4. /\ mlq_ready_queue' \in [Prio -> Seq(Pcb)]
      /\ \A k \in Prio : Len(mlq_ready_queue'[k]) <= MAX_QUEUE_SIZE
      /\ \A k \in Prio : NoDup(mlq_ready_queue'[k])
      /\ \A k \in Prio : \A r \in Elems(mlq_ready_queue'[k]) : prio[r] = k
      /\ running_list' \in Seq(Pcb)
      /\ Len(running_list') <= MAX_QUEUE_SIZE
      /\ NoDup(running_list')
      /\ Elems(running_list') = Elems(running_list) \ {p}
      /\ Ready' \subseteq Ready \cup {p}
  BY <1>1, <1>2, <1>3, RequeueEffect
<1>5. OnCpu' = OnCpu \ {p}
  BY <1>1, <1>3, OnCpuGive DEF TypeOK, PutProc
<1>6. TypeOK'
  BY <1>1, <1>3, <1>4 DEF TypeOK
<1>7. Exclusive'
  <2>1. \A a, b \in Cpu : running'[a] = running'[b] /\ running'[a] # NULL => a = b
    BY <1>1, <1>3 DEF Exclusive, TypeOK
  <2>2. QED
    BY <1>1, <1>3, <1>4, <1>5, <2>1 DEF Exclusive
<1>8. NoDangling' /\ ListedOnce'
  BY <1>1, <1>3, <1>4, <1>5 DEF NoDangling, Reachable, ListedOnce
<1>9. QED
  BY <1>6, <1>7, <1>8 DEF SInv

LEMMA FinishStep ==
  ASSUME SInv, NEW c \in Cpu, Finish(c)
  PROVE  SInv' /\ Ready' = Ready /\ OnCpu' = OnCpu \ {running[c]}
<1> DEFINE p == running[c]
<1>1. /\ p \in OnCpu /\ p # NULL
      /\ running' = [running EXCEPT ![c] = NULL]
      /\ allocated' = allocated \ {p}
      /\ UNCHANGED << mlq_ready_queue, slot, running_list, prio, loading >>
  BY DEF Finish, OnCpu
<1>2. TypeOK /\ Exclusive /\ ListedOnce /\ NoDangling
  BY DEF SInv
<1>3. OnCpu' = OnCpu \ {p} /\ Ready' = Ready
  BY <1>1, <1>2, OnCpuGive DEF TypeOK, Ready
<1>4. TypeOK'
  BY <1>1, <1>2 DEF TypeOK
<1>5. Exclusive'
  <2>1. \A a, b \in Cpu : running'[a] = running'[b] /\ running'[a] # NULL => a = b
    BY <1>1, <1>2 DEF Exclusive, TypeOK
  <2>2. QED
    BY <1>1, <1>2, <1>3, <2>1 DEF Exclusive
<1>6. NoDangling' /\ ListedOnce'
  BY <1>1, <1>2, <1>3 DEF NoDangling, Reachable, ListedOnce, Exclusive
<1>7. QED
  BY <1>3, <1>4, <1>5, <1>6 DEF SInv

THEOREM SchedStep == SInv /\ [Next]_vars => SInv'
<1> SUFFICES ASSUME SInv, [Next]_vars PROVE SInv'
  OBVIOUS
<1>1. CASE \E p \in Pcb, k \in Prio : Load(p, k)
  BY <1>1, LoadStep
<1>2. CASE AddProc
  BY <1>2, AddProcStep
<1>3. CASE \E c \in Cpu : GetProc(c)
  BY <1>3, GetProcStep
<1>4. CASE \E c \in Cpu : PutProc(c)
  BY <1>4, PutProcStep
<1>5. CASE \E c \in Cpu : Finish(c)
  BY <1>5, FinishStep
<1>6. CASE UNCHANGED vars
  <2>1. Ready' = Ready /\ OnCpu' = OnCpu
    BY <1>6 DEF vars, Ready, OnCpu
  <2>2. TypeOK'
    BY <1>6 DEF vars, SInv, TypeOK
  <2>3. Exclusive'
    BY <1>6, <2>1 DEF vars, SInv, Exclusive
  <2>4. NoDangling' /\ ListedOnce'
    BY <1>6, <2>1 DEF vars, SInv, NoDangling, Reachable, ListedOnce
  <2>5. QED
    BY <2>2, <2>3, <2>4 DEF SInv
<1>7. QED
  BY <1>1, <1>2, <1>3, <1>4, <1>5, <1>6 DEF Next

THEOREM SchedInvariant == Spec => []SInv
BY SchedInit, SchedStep, PTL DEF Spec

\* Type correctness of every reachable state.
THEOREM TypeCorrect == Spec => []TypeOK
<1>1. SInv => TypeOK
  BY DEF SInv
<1>2. QED
  BY <1>1, SchedInvariant, PTL

\* A process is never in two places at once.
THEOREM Exclusion == Spec => []Exclusive
<1>1. SInv => Exclusive
  BY DEF SInv
<1>2. QED
  BY <1>1, SchedInvariant, PTL

\* The scheduler never hands a cpu a pcb that has been freed.
THEOREM NoUseAfterFree == Spec => []NoDangling
<1>1. SInv => NoDangling
  BY DEF SInv
<1>2. QED
  BY <1>1, SchedInvariant, PTL

\* A ready process is never on running_list, and no pcb is there twice.
THEOREM ListedAtMostOnce == Spec => []ListedOnce
<1>1. SInv => ListedOnce
  BY DEF SInv
<1>2. QED
  BY <1>1, SchedInvariant, PTL

-----------------------------------------------------------------------------
\* With roomy queues enqueue never drops a pcb.
THEOREM KeptStep == Roomy /\ SInv /\ Kept /\ [Next]_vars => Kept'
<1> SUFFICES ASSUME Roomy, SInv, Kept, [Next]_vars PROVE Kept'
  OBVIOUS
<1>0. TypeOK /\ Exclusive /\ ListedOnce /\ NoDangling
  BY DEF SInv
<1>1. ASSUME NEW p \in Pcb, NEW k \in Prio, Load(p, k) PROVE Kept'
  <2>1. Ready' = Ready /\ OnCpu' = OnCpu
    BY <1>1, LoadStep
  <2>2. p # NULL
    BY SchedAssumption
  <2>3. QED
    BY <1>1, <2>1, <2>2 DEF Kept, NoneLost, DispatchedListed, Reachable, Load
<1>2. ASSUME AddProc PROVE Kept'
  <2>1. /\ loading \in Pcb /\ loading \notin Ready /\ loading \notin OnCpu
        /\ Requeue(loading)
    BY <1>0, <1>2 DEF TypeOK, Exclusive, AddProc
  <2>2. /\ Ready \subseteq Ready' /\ loading \in Ready'
        /\ Elems(running_list') = Elems(running_list) \ {loading}
    BY <1>0, <2>1, RequeueEffect
  <2>3. OnCpu' = OnCpu
    BY <1>2, AddProcStep
  <2>4. QED
    BY <1>2, <2>1, <2>2, <2>3
       DEF Kept, NoneLost, DispatchedListed, Reachable, AddProc
<1>3. ASSUME NEW c \in Cpu, GetProc(c) PROVE Kept'
  <2>1. PICK proc \in Ready :
           /\ proc \in Pcb
           /\ running' = [running EXCEPT ![c] = proc]
           /\ Ready' = Ready \ {proc}
           /\ Elems(running_list) \subseteq Elems(running_list')
           /\ proc \in Elems(running_list')
    BY <1>0, <1>3, GetProcEffect
  <2>2. running[c] = NULL /\ UNCHANGED << allocated, loading >>
    BY <1>3 DEF GetProc
  <2>3. OnCpu' = OnCpu \cup {proc}
    BY <1>0, <2>1, <2>2, OnCpuTake DEF TypeOK
  <2>4. QED
    BY <2>1, <2>2, <2>3 DEF Kept, NoneLost, DispatchedListed, Reachable
<1>4. ASSUME NEW c \in Cpu, PutProc(c) PROVE Kept'
  <2>1. /\ running[c] \in Pcb /\ running[c] \in OnCpu /\ Requeue(running[c])
        /\ running' = [running EXCEPT ![c] = NULL]
        /\ UNCHANGED << allocated, loading >>
    BY <1>0, <1>4 DEF TypeOK, PutProc, OnCpu
  <2>2. running[c] \notin Ready
    BY <1>0, <2>1 DEF Exclusive
  <2>3. /\ Ready \subseteq Ready' /\ running[c] \in Ready'
        /\ Elems(running_list') = Elems(running_list) \ {running[c]}
    BY <1>0, <2>1, <2>2, RequeueEffect
  <2>4. OnCpu' = OnCpu \ {running[c]}
    BY <1>0, <1>4, <2>1, OnCpuGive DEF TypeOK, PutProc
  <2>5. QED
    BY <2>1, <2>3, <2>4 DEF Kept, NoneLost, DispatchedListed, Reachable
<1>5. ASSUME NEW c \in Cpu, Finish(c) PROVE Kept'
  <2>1. Ready' = Ready /\ OnCpu' = OnCpu \ {running[c]}
    BY <1>5, FinishStep
  <2>2. QED
    BY <1>5, <2>1 DEF Kept, NoneLost, DispatchedListed, Reachable, Finish
<1>6. CASE UNCHANGED vars
  <2>1. Ready' = Ready /\ OnCpu' = OnCpu
    BY <1>6 DEF vars, Ready, OnCpu
  <2>2. QED
    BY <1>6, <2>1 DEF vars, Kept, NoneLost, DispatchedListed, Reachable
<1>7. QED
  BY <1>1, <1>2, <1>3, <1>4, <1>5, <1>6 DEF Next

LEMMA KeptInit == Init => Kept
BY DEF Init, Kept, NoneLost, DispatchedListed, OnCpu

\* No process is lost, as long as all that can exist fit one queue.
THEOREM NothingLost == Roomy => (Spec => []NoneLost)
<1> SUFFICES ASSUME Roomy PROVE Spec => []NoneLost
  OBVIOUS
<1>1. SInv /\ Kept /\ [Next]_vars => Kept'
  BY KeptStep
<1>2. Kept => NoneLost
  BY DEF Kept
<1>3. QED
  BY <1>1, <1>2, SchedInvariant, KeptInit, PTL DEF Spec

\* A running process is on the list sys_mem.c searches, under the same bound.
THEOREM RunningIsListed == Roomy => (Spec => []DispatchedListed)
<1> SUFFICES ASSUME Roomy PROVE Spec => []DispatchedListed
  OBVIOUS
<1>1. SInv /\ Kept /\ [Next]_vars => Kept'
  BY KeptStep
<1>2. Kept => DispatchedListed
  BY DEF Kept
<1>3. QED
  BY <1>1, <1>2, SchedInvariant, KeptInit, PTL DEF Spec

-----------------------------------------------------------------------------
\* Each operation of the scheduler is one move of a process, or none.
THEOREM LifeStep == Roomy /\ SInv /\ [Next]_vars => [Life!Next]_(Life!vars)
<1> SUFFICES ASSUME Roomy, SInv, [Next]_vars PROVE [Life!Next]_(Life!vars)
  OBVIOUS
<1>0. TypeOK /\ Exclusive /\ ListedOnce /\ NoDangling
  BY DEF SInv
<1>a. Life!OnCpu = OnCpu
  BY DEF Life!OnCpu, OnCpu
<1>1. ASSUME NEW p \in Pcb, NEW k \in Prio, Load(p, k) PROVE Life!Load(p)
  <2>1. Ready' = Ready /\ p # NULL
    BY <1>1, LoadStep, SchedAssumption
  <2>2. p \notin ({loading} \ {NULL}) \cup Ready \cup OnCpu
    BY <1>0, <1>1 DEF NoDangling, Reachable, Load
  <2>3. QED
    BY <1>1, <1>a, <2>1, <2>2 DEF Life!Load, Load
<1>2. ASSUME AddProc PROVE Life!Admit(loading)
  <2>1. /\ loading \in Pcb /\ loading \notin Ready /\ loading \notin OnCpu
        /\ Requeue(loading)
    BY <1>0, <1>2 DEF TypeOK, Exclusive, AddProc
  <2>2. Ready' = Ready \cup {loading}
    BY <1>0, <2>1, RequeueEffect
  <2>3. QED
    BY <1>2, <2>2 DEF Life!Admit, AddProc
<1>3. ASSUME NEW c \in Cpu, GetProc(c) PROVE \E p \in Pcb : Life!Dispatch(c, p)
  <2>1. PICK proc \in Ready :
           /\ proc \in Pcb
           /\ running' = [running EXCEPT ![c] = proc]
           /\ Ready' = Ready \ {proc}
    BY <1>0, <1>3, GetProcEffect
  <2>2. running[c] = NULL /\ UNCHANGED loading
    BY <1>3 DEF GetProc
  <2>3. QED
    BY <2>1, <2>2 DEF Life!Dispatch
<1>4. ASSUME NEW c \in Cpu, PutProc(c) PROVE Life!Preempt(c)
  <2>1. /\ running[c] \in Pcb /\ running[c] \in OnCpu /\ Requeue(running[c])
        /\ running' = [running EXCEPT ![c] = NULL]
        /\ UNCHANGED loading /\ running[c] # NULL
    BY <1>0, <1>4 DEF TypeOK, PutProc, OnCpu
  <2>2. running[c] \notin Ready
    BY <1>0, <2>1 DEF Exclusive
  <2>3. Ready' = Ready \cup {running[c]}
    BY <1>0, <2>1, <2>2, RequeueEffect
  <2>4. QED
    BY <2>1, <2>3 DEF Life!Preempt
<1>5. ASSUME NEW c \in Cpu, Finish(c) PROVE Life!Exit(c)
  <2>1. Ready' = Ready
    BY <1>5, FinishStep
  <2>2. QED
    BY <1>5, <2>1 DEF Life!Exit, Finish
<1>6. CASE UNCHANGED vars
  BY <1>6 DEF vars, Life!vars, Ready
<1>7. AddProc => loading \in Pcb
  BY <1>0 DEF TypeOK, AddProc
<1>8. QED
  BY <1>1, <1>2, <1>3, <1>4, <1>5, <1>6, <1>7 DEF Next, Life!Next

LEMMA LifeInit == Init => Life!Init
<1> SUFFICES ASSUME Init PROVE Life!Init
  OBVIOUS
<1>1. \A k \in Prio : Elems(mlq_ready_queue[k]) = {}
  BY DEF Init, Elems
<1>2. Ready = {}
  BY <1>1, ReadyMember
<1>3. QED
  BY <1>2 DEF Init, Life!Init

\* The scheduler implements ProcLife under the same bound.
THEOREM SchedImplementsLife == Roomy => (Spec => LifeSpec)
<1> SUFFICES ASSUME Roomy PROVE Spec => LifeSpec
  OBVIOUS
<1>1. SInv /\ [Next]_vars => [Life!Next]_(Life!vars)
  BY LifeStep
<1>2. QED
  BY <1>1, LifeInit, SchedInvariant, PTL DEF Spec, LifeSpec, Life!Spec

-----------------------------------------------------------------------------
\* Of pcbs at one level, dequeue takes the first and leaves the rest.
LEMMA DequeueIsTail ==
  ASSUME NEW q \in Seq(Pcb), q # << >>, Best(q, prio) = 1
  PROVE  Dequeue(q, prio) = Tail(q)
<1>1. Len(q) \in Nat \ {0} /\ 1 \in 1 .. Len(q)
  BY EmptySeq
<1>2. /\ RemoveAt(q, 1) \in Seq(Pcb)
      /\ Len(RemoveAt(q, 1)) = Len(q) - 1
      /\ \A i \in 1 .. (Len(q) - 1) : RemoveAt(q, 1)[i] = q[i + 1]
  BY <1>1, RemoveAtElement
<1>3. /\ Tail(q) \in Seq(Pcb) /\ Len(Tail(q)) = Len(q) - 1
      /\ \A i \in 1 .. (Len(q) - 1) : Tail(q)[i] = q[i + 1]
  BY <1>1
<1>4. RemoveAt(q, 1) = Tail(q)
  BY <1>2, <1>3, SeqEqual
<1>5. QED
  BY <1>4 DEF Dequeue

\* What a step does to one level's queue.
LEMMA FifoStep ==
  ASSUME SInv, [Next]_vars, NEW k \in Prio
  PROVE  LET old == mlq_ready_queue[k]
             new == mlq_ready_queue'[k]
         IN  \/ new = old
             \/ old # << >> /\ new = Tail(old)
             \/ \E p \in Pcb : new = Append(old, p)
<1>0. /\ TypeOK /\ Exclusive
      /\ mlq_ready_queue \in [Prio -> Seq(Pcb)]
  BY DEF SInv, TypeOK
<1>1. ASSUME NEW p \in Pcb, Requeue(p)
      PROVE  \/ mlq_ready_queue'[k] = mlq_ready_queue[k]
             \/ mlq_ready_queue'[k] = Append(mlq_ready_queue[k], p)
  BY <1>0, <1>1 DEF Requeue, Enqueue
<1>2. ASSUME NEW c \in Cpu, GetProc(c)
      PROVE  \/ mlq_ready_queue'[k] = mlq_ready_queue[k]
             \/ /\ mlq_ready_queue[k] # << >>
                /\ mlq_ready_queue'[k] = Tail(mlq_ready_queue[k])
  <2>1. PICK j \in Servable(RoundSlot) :
           mlq_ready_queue' =
              [mlq_ready_queue EXCEPT ![j] = Dequeue(mlq_ready_queue[j], prio)]
    BY <1>0, <1>2 DEF GetProc
  <2>2. j \in Prio /\ j \in Nat /\ mlq_ready_queue[j] # << >>
    BY DEF Servable, Empty, Prio
  <2>3. /\ mlq_ready_queue[j] \in Seq(Pcb) /\ NoDup(mlq_ready_queue[j])
        /\ \A p \in Elems(mlq_ready_queue[j]) : prio[p] = j
    BY <1>0, <2>2 DEF Exclusive
  <2>4. Best(mlq_ready_queue[j], prio) = 1
    BY <2>2, <2>3, DequeueFacts
  <2>5. Dequeue(mlq_ready_queue[j], prio) = Tail(mlq_ready_queue[j])
    BY <2>2, <2>3, <2>4, DequeueIsTail
  <2>6. QED
    BY <1>0, <2>1, <2>2, <2>5
<1>3. CASE UNCHANGED mlq_ready_queue
  BY <1>3
<1>4. CASE AddProc
  BY <1>0, <1>1, <1>4 DEF AddProc, TypeOK
<1>5. ASSUME NEW c \in Cpu, PutProc(c)
      PROVE  \E p \in Pcb : Requeue(p)
  BY <1>0, <1>5 DEF PutProc, TypeOK
<1>6. QED
  BY <1>1, <1>2, <1>3, <1>4, <1>5 DEF Next, Load, Finish, vars

\* For any pcbs, cpus and levels: processes of a level are served in the order
\* in which they were queued (dequeue's scan of equal priorities).
THEOREM LevelsAreFifo == Spec => LevelFifo
<1>1. SInv /\ [Next]_vars =>
        [\A k \in Prio :
            LET old == mlq_ready_queue[k]
                new == mlq_ready_queue'[k]
            IN  \/ new = old
                \/ old # << >> /\ new = Tail(old)
                \/ \E p \in Pcb : new = Append(old, p)]_vars
  BY FifoStep
<1>2. QED
  BY <1>1, SchedInvariant, PTL DEF Spec, LevelFifo

-----------------------------------------------------------------------------
(* SchedWait *)

Higher(k) == 0 .. (k - 1)

Bound(k) == Cardinality(Turns(Prio \ {k}, FullSlot)) + Cardinality(Turns(Higher(k), FullSlot))

\* A level with a dispatch left waits only for the turns higher levels have
\* left; one without waits for all the turns left, and then for the higher
\* levels' turns of the next round.
WaitInv ==
    /\ passed \in [Prio -> Nat]
    /\ \A k \in Prio : slot[k] <= MAX_PRIO - k
    /\ \A k \in Prio :
          /\ slot[k] > 0 =>
                passed[k] + Cardinality(Turns(Higher(k), slot)) <= Bound(k)
          /\ slot[k] = 0 =>
                passed[k] + Cardinality(Turns(Prio \ {k}, slot))
                          + Cardinality(Turns(Higher(k), FullSlot)) <= Bound(k)

-----------------------------------------------------------------------------
(* Turns *)

LEMMA TurnsCounted ==
  ASSUME NEW levels \in SUBSET Prio, NEW quota
  PROVE  /\ IsFiniteSet(Turns(levels, quota))
         /\ Cardinality(Turns(levels, quota)) \in Nat
<1>1. MAX_PRIO \in Nat
  BY SchedAssumption
<1>2. IsFiniteSet(Prio) /\ IsFiniteSet(1 .. MAX_PRIO)
  BY <1>1, FS_Interval DEF Prio
<1>3. IsFiniteSet(levels)
  BY <1>2, FS_Subset
<1>4. IsFiniteSet(levels \X (1 .. MAX_PRIO))
  BY <1>2, <1>3, FS_Product
<1>5. Turns(levels, quota) \in SUBSET (levels \X (1 .. MAX_PRIO))
  BY DEF Turns
<1>6. IsFiniteSet(Turns(levels, quota))
  BY <1>4, <1>5, FS_Subset
<1>7. QED
  BY <1>6, FS_CardinalityType

\* No level has more turns left than a round gives it.
LEMMA TurnsAtMostFull ==
  ASSUME NEW levels \in SUBSET Prio, NEW quota \in [Prio -> Nat],
         \A j \in Prio : quota[j] <= MAX_PRIO - j
  PROVE  Cardinality(Turns(levels, quota)) <= Cardinality(Turns(levels, FullSlot))
<1>1. ASSUME NEW t \in Turns(levels, quota) PROVE t \in Turns(levels, FullSlot)
  <2>1. /\ t \in levels \X (1 .. MAX_PRIO) /\ t[2] <= quota[t[1]]
        /\ t[1] \in Prio /\ t[2] \in Nat
    BY DEF Turns
  <2>2. /\ quota[t[1]] <= MAX_PRIO - t[1] /\ quota[t[1]] \in Nat
        /\ MAX_PRIO - t[1] \in Int /\ FullSlot[t[1]] = MAX_PRIO - t[1]
    BY <2>1, SchedAssumption DEF Prio, FullSlot
  <2>3. t[2] <= FullSlot[t[1]]
    BY <2>1, <2>2
  <2>4. QED
    BY <2>1, <2>3 DEF Turns
<1>2. QED
  BY <1>1, TurnsCounted, FS_Subset

\* A dispatch takes one turn of its level.
LEMMA TurnTaken ==
  ASSUME NEW levels \in SUBSET Prio, NEW quota \in [Prio -> Nat],
         \A j \in Prio : quota[j] <= MAX_PRIO - j,
         NEW j \in levels, quota[j] > 0,
         NEW rest, rest = [quota EXCEPT ![j] = @ - 1]
  PROVE  Cardinality(Turns(levels, rest)) = Cardinality(Turns(levels, quota)) - 1
<1> DEFINE turn == <<j, quota[j]>>
<1>1. /\ j \in Prio /\ quota[j] \in 1 .. MAX_PRIO
      /\ rest[j] = quota[j] - 1
      /\ \A k \in Prio \ {j} : rest[k] = quota[k]
  BY SchedAssumption DEF Prio
<1>2. turn \in Turns(levels, quota)
  BY <1>1 DEF Turns
<1>3. ASSUME NEW t \in levels \X (1 .. MAX_PRIO)
      PROVE  t[2] <= rest[t[1]] <=> t[2] <= quota[t[1]] /\ t # turn
  <2>1. t[1] \in Prio /\ t[2] \in Nat /\ t = <<t[1], t[2]>>
    OBVIOUS
  <2>2. CASE t[1] = j
    <3>1. t # turn <=> t[2] # quota[j]
      BY <2>1, <2>2
    <3> HIDE DEF turn
    <3>2. QED
      BY <1>1, <2>1, <2>2, <3>1
  <2>3. CASE t[1] # j
    <3>1. t # turn
      BY <2>1, <2>3
    <3> HIDE DEF turn
    <3>2. QED
      BY <1>1, <2>1, <2>3, <3>1
  <2>4. QED
    BY <2>2, <2>3
<1> HIDE DEF turn
<1>4. Turns(levels, rest) = Turns(levels, quota) \ {turn}
  BY <1>3 DEF Turns
<1>5. IsFiniteSet(Turns(levels, quota))
  BY TurnsCounted
<1>6. Cardinality(Turns(levels, quota) \ {turn}) = Cardinality(Turns(levels, quota)) - 1
  BY <1>2, <1>5, FS_RemoveElement
<1>7. QED
  BY <1>4, <1>6

-----------------------------------------------------------------------------
LEMMA BoundCounted ==
  \A k \in Prio : /\ Higher(k) \in SUBSET Prio
                  /\ Prio \ {k} \in SUBSET Prio
                  /\ Bound(k) \in Nat
<1> SUFFICES ASSUME NEW k \in Prio
             PROVE  Higher(k) \in SUBSET Prio /\ Bound(k) \in Nat
  OBVIOUS
<1>1. Higher(k) \in SUBSET Prio
  BY SchedAssumption DEF Higher, Prio
<1>2. QED
  BY <1>1, TurnsCounted DEF Bound

\* A level that has not been passed over since it was last served or empty.
LEMMA FreshLevel ==
  ASSUME NEW k \in Prio, NEW quota \in [Prio -> Nat],
         \A j \in Prio : quota[j] <= MAX_PRIO - j
  PROVE  /\ 0 + Cardinality(Turns(Higher(k), quota)) <= Bound(k)
         /\ 0 + Cardinality(Turns(Prio \ {k}, quota))
              + Cardinality(Turns(Higher(k), FullSlot)) <= Bound(k)
<1>1. Higher(k) \in SUBSET Prio /\ Prio \ {k} \in SUBSET Prio
  BY BoundCounted
<1>2. /\ Cardinality(Turns(Higher(k), quota)) <= Cardinality(Turns(Higher(k), FullSlot))
      /\ Cardinality(Turns(Prio \ {k}, quota)) <= Cardinality(Turns(Prio \ {k}, FullSlot))
  BY <1>1, TurnsAtMostFull
<1>3. /\ Cardinality(Turns(Higher(k), quota)) \in Nat
      /\ Cardinality(Turns(Prio \ {k}, quota)) \in Nat
      /\ Cardinality(Turns(Higher(k), FullSlot)) \in Nat
      /\ Cardinality(Turns(Prio \ {k}, FullSlot)) \in Nat
  BY <1>1, TurnsCounted
<1>4. QED
  BY <1>2, <1>3 DEF Bound

LEMMA FullQuotas ==
  /\ FullSlot \in [Prio -> Nat]
  /\ \A k \in Prio : FullSlot[k] = MAX_PRIO - k /\ FullSlot[k] > 0
BY SchedAssumption DEF FullSlot, Prio

\* Which level get_mlq_proc serves, and what is left of its quota.
LEMMA Dispatch ==
  ASSUME SInv, NEW c \in Cpu, GetProc(c)
  PROVE  \E j \in Servable(RoundSlot) :
            /\ \A k \in Servable(RoundSlot) : j <= k
            /\ slot' = [RoundSlot EXCEPT ![j] = @ - 1]
            /\ Served(j)
            /\ \A k \in Prio \ {j} : ~ Served(k)
<1>1. PICK j \in Servable(RoundSlot) :
         /\ \A k \in Servable(RoundSlot) : j <= k
         /\ slot' = [RoundSlot EXCEPT ![j] = @ - 1]
         /\ mlq_ready_queue' =
               [mlq_ready_queue EXCEPT ![j] = Dequeue(@, prio)]
  BY DEF GetProc
<1>2. /\ j \in Prio /\ mlq_ready_queue[j] # << >>
      /\ mlq_ready_queue \in [Prio -> Seq(Pcb)]
  BY DEF Servable, Empty, SInv, TypeOK
<1>3. /\ j \in Nat /\ mlq_ready_queue[j] \in Seq(Pcb) /\ NoDup(mlq_ready_queue[j])
      /\ \A p \in Elems(mlq_ready_queue[j]) : prio[p] = j
  BY <1>2 DEF SInv, Exclusive, Prio
<1>4. Served(j)
  <2>1. mlq_ready_queue'[j] = Dequeue(mlq_ready_queue[j], prio)
    BY <1>1, <1>2
  <2>2. Len(Dequeue(mlq_ready_queue[j], prio)) = Len(mlq_ready_queue[j]) - 1
    BY <1>2, <1>3, DequeueFacts
  <2>3. Len(mlq_ready_queue[j]) \in Nat
    BY <1>3
  <2>4. QED
    BY <2>1, <2>2, <2>3 DEF Served
<1>5. \A k \in Prio \ {j} : ~ Served(k)
  BY <1>1, <1>2 DEF Served
<1>6. QED
  BY <1>1, <1>4, <1>5
-----------------------------------------------------------------------------
(* The invariant *)

LEMMA WaitStart == WaitInit => WaitInv
<1> SUFFICES ASSUME WaitInit PROVE WaitInv
  OBVIOUS
<1>1. /\ slot = FullSlot /\ passed = [k \in Prio |-> 0]
  BY DEF WaitInit, Init
<1>2. \A k \in Prio : slot[k] <= MAX_PRIO - k
  BY <1>1, FullQuotas, SchedAssumption DEF Prio
<1>3. ASSUME NEW k \in Prio
      PROVE  /\ passed[k] + Cardinality(Turns(Higher(k), slot)) <= Bound(k)
             /\ passed[k] + Cardinality(Turns(Prio \ {k}, slot))
                          + Cardinality(Turns(Higher(k), FullSlot)) <= Bound(k)
  <2>1. passed[k] = 0 /\ slot \in [Prio -> Nat]
    BY <1>1, FullQuotas
  <2>2. QED
    BY <1>2, <2>1, FreshLevel
<1>4. QED
  BY <1>1, <1>2, <1>3 DEF WaitInv

LEMMA DispatchKeeps ==
  ASSUME SInv, WaitInv, NEW c \in Cpu, GetProc(c), Count
  PROVE  WaitInv'
<1>1. PICK j \in Servable(RoundSlot) :
         /\ \A k \in Servable(RoundSlot) : j <= k
         /\ slot' = [RoundSlot EXCEPT ![j] = @ - 1]
         /\ Served(j)
         /\ \A k \in Prio \ {j} : ~ Served(k)
  BY Dispatch
<1>2. /\ slot \in [Prio -> Nat] /\ passed \in [Prio -> Nat]
      /\ \A k \in Prio : slot[k] <= MAX_PRIO - k
  BY DEF SInv, TypeOK, WaitInv
<1>3. /\ RoundSlot \in [Prio -> Nat]
      /\ \A k \in Prio : RoundSlot[k] <= MAX_PRIO - k
  BY <1>2, FullQuotas, SchedAssumption DEF RoundSlot, Prio
<1>4. j \in Prio /\ RoundSlot[j] > 0
  BY DEF Servable
<1>5. /\ slot' \in [Prio -> Nat]
      /\ slot'[j] = RoundSlot[j] - 1
      /\ \A k \in Prio \ {j} : slot'[k] = RoundSlot[k]
  BY <1>1, <1>3, <1>4
<1>6. \A k \in Prio : slot'[k] <= MAX_PRIO - k
  <2> SUFFICES ASSUME NEW k \in Prio
               PROVE  slot'[k] <= MAX_PRIO - k
    OBVIOUS
  <2>1. RoundSlot[k] \in Nat /\ MAX_PRIO - k \in Int /\ RoundSlot[k] <= MAX_PRIO - k
    BY <1>3, SchedAssumption DEF Prio
  <2>2. slot'[k] = RoundSlot[k] \/ slot'[k] = RoundSlot[k] - 1
    BY <1>4, <1>5
  <2>3. QED
    BY <2>1, <2>2
<1>7. passed' \in [Prio -> Nat]
  BY <1>2 DEF Count
<1>8. ASSUME NEW k \in Prio
      PROVE  /\ slot'[k] > 0 =>
                   passed'[k] + Cardinality(Turns(Higher(k), slot')) <= Bound(k)
             /\ slot'[k] = 0 =>
                   passed'[k] + Cardinality(Turns(Prio \ {k}, slot'))
                              + Cardinality(Turns(Higher(k), FullSlot)) <= Bound(k)
  <2>1. CASE Empty(mlq_ready_queue[k]) \/ Served(k)
    <3>1. passed'[k] = 0
      BY <2>1 DEF Count
    <3>2. QED
      BY <1>5, <1>6, <3>1, FreshLevel
  <2>2. CASE ~ Empty(mlq_ready_queue[k]) /\ ~ Served(k)
    <3>1. /\ passed'[k] = passed[k] + 1 /\ passed[k] \in Nat /\ k # j
          /\ slot'[k] = RoundSlot[k]
      BY <1>1, <1>2, <1>5, <2>2 DEF Count
    <3>2. k \in Servable(RoundSlot) => j \in Higher(k)
      BY <1>1, <1>4, <3>1 DEF Higher, Prio
    <3>3. /\ Higher(k) \in SUBSET Prio /\ Prio \ {k} \in SUBSET Prio /\ Bound(k) \in Nat
          /\ Cardinality(Turns(Higher(k), slot)) \in Nat
          /\ Cardinality(Turns(Prio \ {k}, slot)) \in Nat
          /\ Cardinality(Turns(Higher(k), FullSlot)) \in Nat
      BY BoundCounted, TurnsCounted
    <3>4. CASE Servable(slot) # {} /\ slot[k] > 0
      <4>1. RoundSlot = slot /\ k \in Servable(RoundSlot)
        BY <2>2, <3>4 DEF RoundSlot, Servable
      <4>2. Cardinality(Turns(Higher(k), slot')) = Cardinality(Turns(Higher(k), slot)) - 1
        BY <1>1, <1>2, <1>4, <3>2, <3>3, <4>1, TurnTaken
      <4>3. passed[k] + Cardinality(Turns(Higher(k), slot)) <= Bound(k)
        BY <3>4 DEF WaitInv
      <4>4. slot'[k] = slot[k] /\ slot[k] \in Nat
        BY <1>2, <3>1, <4>1
      <4>5. QED
        BY <3>1, <3>3, <3>4, <4>2, <4>3, <4>4
    <3>5. CASE Servable(slot) # {} /\ slot[k] = 0
      <4>1. RoundSlot = slot
        BY <3>5 DEF RoundSlot
      <4>2. Cardinality(Turns(Prio \ {k}, slot')) = Cardinality(Turns(Prio \ {k}, slot)) - 1
        BY <1>1, <1>2, <1>4, <3>1, <3>3, <4>1, TurnTaken
      <4>3. passed[k] + Cardinality(Turns(Prio \ {k}, slot))
                      + Cardinality(Turns(Higher(k), FullSlot)) <= Bound(k)
        BY <3>5 DEF WaitInv
      <4>4. slot'[k] = 0
        BY <3>1, <3>5, <4>1
      <4>5. QED
        BY <3>1, <3>3, <4>2, <4>3, <4>4
    <3>6. CASE Servable(slot) = {}
      <4>1. RoundSlot = FullSlot
        BY <3>6 DEF RoundSlot
      <4>2. slot[k] = 0
        BY <1>2, <2>2, <3>6 DEF Servable
      <4>3. k \in Servable(RoundSlot) /\ slot'[k] > 0
        BY <2>2, <3>1, <4>1, FullQuotas DEF Servable
      <4>4. Cardinality(Turns(Higher(k), slot')) = Cardinality(Turns(Higher(k), FullSlot)) - 1
        BY <1>1, <1>3, <1>4, <3>2, <3>3, <4>1, <4>3, TurnTaken
      <4>5. passed[k] + Cardinality(Turns(Prio \ {k}, slot))
                      + Cardinality(Turns(Higher(k), FullSlot)) <= Bound(k)
        BY <4>2 DEF WaitInv
      <4>6. QED
        BY <3>1, <3>3, <4>3, <4>4, <4>5
    <3>7. QED
      BY <1>2, <3>4, <3>5, <3>6
  <2>3. QED
    BY <2>1, <2>2
<1>9. QED
  BY <1>6, <1>7, <1>8 DEF WaitInv, Higher, Bound, Turns, FullSlot

LEMMA WaitKept == SInv /\ WaitInv /\ [WaitNext]_<< vars, passed >> => WaitInv'
<1> SUFFICES ASSUME SInv, WaitInv, [WaitNext]_<< vars, passed >> PROVE WaitInv'
  OBVIOUS
<1>1. ASSUME NEW c \in Cpu, GetProc(c), Count PROVE WaitInv'
  BY <1>1, DispatchKeeps
<1>2. CASE UNCHANGED << slot, passed >>
  BY <1>2 DEF WaitInv, Higher, Bound, Turns, FullSlot
<1>3. QED
  BY <1>1, <1>2 DEF WaitNext, Load, AddProc, PutProc, Finish, vars

LEMMA WaitIsSched == WaitSpec => Spec
<1>1. WaitInit => Init
  BY DEF WaitInit
<1>2. [WaitNext]_<< vars, passed >> => [Next]_vars
  BY DEF WaitNext, Next
<1>3. QED
  BY <1>1, <1>2, PTL DEF WaitSpec, Spec

\* For any number of levels, cpus and pcbs: the first process of a level is
\* passed over at most as often as the other levels have dispatches left in a
\* round and the higher levels in the next.
THEOREM WaitIsBounded == WaitSpec => []BoundedWait
<1>1. SInv /\ WaitInv => BoundedWait
  <2> SUFFICES ASSUME SInv, WaitInv, NEW k \in Prio PROVE passed[k] <= Bound(k)
    BY DEF BoundedWait, Bound, Higher
  <2>1. /\ Cardinality(Turns(Higher(k), slot)) \in Nat
        /\ Cardinality(Turns(Prio \ {k}, slot)) \in Nat
        /\ Cardinality(Turns(Higher(k), FullSlot)) \in Nat /\ Bound(k) \in Nat
    BY BoundCounted, TurnsCounted
  <2>2. passed[k] \in Nat /\ slot[k] \in Nat
    BY DEF SInv, TypeOK, WaitInv
  <2>3. CASE slot[k] > 0
    BY <2>1, <2>2, <2>3 DEF WaitInv
  <2>4. CASE slot[k] = 0
    BY <2>1, <2>2, <2>4 DEF WaitInv
  <2>5. QED
    BY <2>2, <2>3, <2>4
<1>2. QED
  BY <1>1, WaitStart, WaitKept, WaitIsSched, SchedInvariant, PTL DEF WaitSpec

=============================================================================
