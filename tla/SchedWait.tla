----------------------------- MODULE SchedWait -----------------------------
(***************************************************************************)
(* Sched with a history variable that counts how long each level is passed *)
(* over.  It adds no behaviour and forbids none: every step of Sched is a  *)
(* step here with the count brought up to date.                            *)
(***************************************************************************)
EXTENDS Sched

VARIABLE passed   \* passed[k]: dispatches from other levels in a row, while k waits

WaitInit == Init /\ passed = [k \in Prio |-> 0]

Served(k) == Len(mlq_ready_queue'[k]) < Len(mlq_ready_queue[k])

Count == passed' = [k \in Prio |->
            IF Empty(mlq_ready_queue[k]) \/ Served(k) THEN 0 ELSE passed[k] + 1]

WaitNext ==
    \/ \E c \in Cpu : GetProc(c) /\ Count
    \/ /\ \/ \E p \in Pcb, k \in Prio : Load(p, k)
          \/ AddProc
          \/ \E c \in Cpu : PutProc(c) \/ Finish(c)
       /\ UNCHANGED passed

WaitSpec == WaitInit /\ [][WaitNext]_<< vars, passed >>

WaitFairSpec == WaitSpec /\ Fairness

-----------------------------------------------------------------------------
\* dispatches the levels have left when they are given these quotas
Turns(levels, quota) == {t \in levels \X (1 .. MAX_PRIO) : t[2] <= quota[t[1]]}

\* However processes arrive, leave and come back at other levels, the first
\* process of level k is passed over at most once per dispatch that the other
\* levels have in the round under way, plus once per dispatch that the higher
\* levels have in the next (slot[] and its reset in get_mlq_proc).
BoundedWait ==
    \A k \in Prio :
        passed[k] <= Cardinality(Turns(Prio \ {k}, FullSlot))
                     + Cardinality(Turns(0 .. (k - 1), FullSlot))
=============================================================================
