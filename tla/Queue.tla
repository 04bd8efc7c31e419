------------------------------- MODULE Queue -------------------------------
(***************************************************************************)
(* The process queue of queue.c: an array of at most MAX_QUEUE_SIZE pcb    *)
(* pointers.  A queue is a sequence of pcbs; the array's tail beyond       *)
(* `size' is never read, so it is not part of the value.                   *)
(***************************************************************************)
EXTENDS Integers, Sequences, SequencesExt

CONSTANT MAX_QUEUE_SIZE     \* queue.h:7

ASSUME QueueAssumption == MAX_QUEUE_SIZE \in Nat \ {0}

Elems(q) == { q[i] : i \in DOMAIN q }

NoDup(q) == \A i, j \in DOMAIN q : q[i] = q[j] => i = j

Empty(q) == q = << >>

\* (Faulty: the last place of the array is never used.)
EnqueueShort(q, proc) ==
    IF Len(q) >= MAX_QUEUE_SIZE - 1 THEN q ELSE Append(q, proc)

Enqueue(q, proc) ==
    IF Len(q) >= MAX_QUEUE_SIZE THEN q ELSE Append(q, proc)

\* (Faulty: `<=' where the scan has `<', so the last index wins.)
BestLast(q, prio) ==
    CHOOSE i \in DOMAIN q :
        /\ \A j \in DOMAIN q : prio[q[i]] <= prio[q[j]]
        /\ \A j \in DOMAIN q : j > i => prio[q[i]] < prio[q[j]]

\* The scan of dequeue keeps the first index that holds the smallest `prio'.
Best(q, prio) ==
    CHOOSE i \in DOMAIN q :
        /\ \A j \in DOMAIN q : prio[q[i]] <= prio[q[j]]
        /\ \A j \in DOMAIN q : j < i => prio[q[i]] < prio[q[j]]

\* (Faulty: size-- without the shift.)
DequeueNoShift(q, prio) == SubSeq(q, 1, Len(q) - 1)

\* What dequeue returns and what it leaves behind, for a queue not empty.
Dequeued(q, prio) == q[Best(q, prio)]
Dequeue(q, prio) == RemoveAt(q, Best(q, prio))

\* purgequeue shifts out the first occurrence of proc, if there is one.
FirstOf(q, proc) ==
    CHOOSE i \in DOMAIN q :
        /\ q[i] = proc
        /\ \A j \in DOMAIN q : j < i => q[j] # proc

Purgequeue(q, proc) ==
    IF proc \in Elems(q) THEN RemoveAt(q, FirstOf(q, proc)) ELSE q
=============================================================================
