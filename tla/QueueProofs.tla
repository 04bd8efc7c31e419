---------------------------- MODULE QueueProofs ----------------------------
(***************************************************************************)
(* What the operations of Queue do to the contents of a queue, for queues  *)
(* of any length.  The scheduler keeps queues without duplicates; the      *)
(* lemmas say what the operations preserve of that.                        *)
(***************************************************************************)
EXTENDS Queue, TLAPS, SequenceTheorems, FiniteSetTheorems

\* Taking out position k: what is left, and where it is found.
LEMMA RemoveAtElement ==
  ASSUME NEW S, NEW q \in Seq(S), NEW k \in 1 .. Len(q)
  PROVE  /\ RemoveAt(q, k) \in Seq(S)
         /\ Len(RemoveAt(q, k)) = Len(q) - 1
         /\ \A i \in 1 .. (Len(q) - 1) :
               RemoveAt(q, k)[i] = IF i < k THEN q[i] ELSE q[i + 1]
<1> DEFINE a == SubSeq(q, 1, k - 1)
           b == SubSeq(q, k + 1, Len(q))
<1>1. /\ a \in Seq(S) /\ Len(a) = k - 1
      /\ \A i \in 1 .. (k - 1) : a[i] = q[i]
  BY SubSeqProperties
<1>2. /\ b \in Seq(S) /\ Len(b) = Len(q) - k
      /\ \A i \in 1 .. (Len(q) - k) : b[i] = q[k + i]
  BY SubSeqProperties
<1>3. RemoveAt(q, k) = a \o b
  BY DEF RemoveAt
<1>4. /\ a \o b \in Seq(S)
      /\ Len(a \o b) = Len(a) + Len(b)
      /\ \A i \in 1 .. (Len(a) + Len(b)) :
            (a \o b)[i] = IF i <= Len(a) THEN a[i] ELSE b[i - Len(a)]
  BY <1>1, <1>2, ConcatProperties
<1> HIDE DEF a, b
<1>5. QED
  BY <1>1, <1>2, <1>3, <1>4

\* Without duplicates, taking out position k removes exactly q[k].
LEMMA RemoveAtElems ==
  ASSUME NEW S, NEW q \in Seq(S), NEW k \in 1 .. Len(q), NoDup(q)
  PROVE  /\ NoDup(RemoveAt(q, k))
         /\ Elems(RemoveAt(q, k)) = Elems(q) \ {q[k]}
<1> DEFINE r == RemoveAt(q, k)
<1>1. /\ r \in Seq(S) /\ Len(r) = Len(q) - 1
      /\ \A i \in 1 .. (Len(q) - 1) : r[i] = IF i < k THEN q[i] ELSE q[i + 1]
  BY RemoveAtElement
<1> HIDE DEF r
<1>2. /\ DOMAIN r = 1 .. (Len(q) - 1) /\ DOMAIN q = 1 .. Len(q)
  BY <1>1
<1>3. NoDup(r)
  <2> SUFFICES ASSUME NEW i \in 1 .. (Len(q) - 1), NEW j \in 1 .. (Len(q) - 1),
                      r[i] = r[j]
               PROVE  i = j
    BY <1>2 DEF NoDup
  <2> DEFINE at(n) == IF n < k THEN n ELSE n + 1
  <2>1. at(i) \in DOMAIN q /\ at(j) \in DOMAIN q
    BY <1>2
  <2>2. q[at(i)] = q[at(j)]
    BY <1>1
  <2>3. at(i) = at(j)
    BY <2>1, <2>2 DEF NoDup
  <2>4. QED
    BY <2>3
<1>4. Elems(r) \subseteq Elems(q) \ {q[k]}
  <2> SUFFICES ASSUME NEW i \in 1 .. (Len(q) - 1)
               PROVE  r[i] \in Elems(q) /\ r[i] # q[k]
    BY <1>2 DEF Elems
  <2>1. CASE i < k
    <3>1. /\ i \in 1 .. Len(q) /\ k \in 1 .. Len(q) /\ i # k /\ r[i] = q[i]
      BY <2>1, <1>1, <1>2
    <3>2. q[i] # q[k]
      BY <3>1 DEF NoDup
    <3>3. QED
      BY <3>1, <3>2 DEF Elems
  <2>2. CASE i >= k
    <3>1. /\ i + 1 \in 1 .. Len(q) /\ k \in 1 .. Len(q) /\ i + 1 # k
          /\ r[i] = q[i + 1]
      BY <2>2, <1>1, <1>2
    <3>2. q[i + 1] # q[k]
      BY <3>1 DEF NoDup
    <3>3. QED
      BY <3>1, <3>2 DEF Elems
  <2>3. QED
    BY <2>1, <2>2
<1>5. Elems(q) \ {q[k]} \subseteq Elems(r)
  <2> SUFFICES ASSUME NEW i \in 1 .. Len(q), q[i] # q[k]
               PROVE  q[i] \in Elems(r)
    BY <1>2 DEF Elems
  <2>1. CASE i < k
    BY <2>1, <1>1, <1>2 DEF Elems
  <2>2. CASE i > k
    <3>1. i - 1 \in DOMAIN r /\ r[i - 1] = q[i]
      BY <2>2, <1>1, <1>2
    <3>2. QED
      BY <3>1 DEF Elems
  <2>3. QED
    BY <2>1, <2>2
<1>6. QED
  BY <1>3, <1>4, <1>5 DEF r

\* enqueue: the new pcb goes last, or nowhere when the array is full.
LEMMA EnqueueFacts ==
  ASSUME NEW S, NEW q \in Seq(S), NEW p \in S, Len(q) <= MAX_QUEUE_SIZE
  PROVE  /\ Enqueue(q, p) \in Seq(S)
         /\ Len(Enqueue(q, p)) <= MAX_QUEUE_SIZE
         /\ Elems(Enqueue(q, p)) =
               IF Len(q) < MAX_QUEUE_SIZE THEN Elems(q) \cup {p} ELSE Elems(q)
         /\ NoDup(q) /\ p \notin Elems(q) => NoDup(Enqueue(q, p))
<1>1. MAX_QUEUE_SIZE \in Nat
  BY QueueAssumption
<1>2. CASE Len(q) >= MAX_QUEUE_SIZE
  BY <1>1, <1>2 DEF Enqueue
<1>3. CASE Len(q) < MAX_QUEUE_SIZE
  <2> DEFINE r == Append(q, p)
  <2>1. Enqueue(q, p) = r
    BY <1>1, <1>3 DEF Enqueue
  <2>2. /\ r \in Seq(S) /\ Len(r) = Len(q) + 1
        /\ \A i \in 1 .. Len(q) : r[i] = q[i]
        /\ r[Len(q) + 1] = p
    BY AppendProperties
  <2> HIDE DEF r
  <2>3. DOMAIN r = 1 .. (Len(q) + 1) /\ DOMAIN q = 1 .. Len(q)
    BY <2>2
  <2>4. Elems(r) = Elems(q) \cup {p}
    BY <2>2, <2>3 DEF Elems
  <2>5. NoDup(q) /\ p \notin Elems(q) => NoDup(r)
    BY <2>2, <2>3 DEF Elems, NoDup
  <2>6. QED
    BY <1>1, <1>3, <2>1, <2>2, <2>4, <2>5
<1>4. QED
  BY <1>1, <1>2, <1>3

\* dequeue from a queue whose pcbs all have the same priority takes the first.
LEMMA DequeueFacts ==
  ASSUME NEW S, NEW q \in Seq(S), q # << >>, NEW k \in Nat, NEW prio,
         \A p \in Elems(q) : prio[p] = k,
         NoDup(q)
  PROVE  /\ Best(q, prio) = 1
         /\ Dequeued(q, prio) \in Elems(q)
         /\ Dequeue(q, prio) \in Seq(S)
         /\ Len(Dequeue(q, prio)) = Len(q) - 1
         /\ NoDup(Dequeue(q, prio))
         /\ Elems(Dequeue(q, prio)) = Elems(q) \ {Dequeued(q, prio)}
<1>1. DOMAIN q = 1 .. Len(q) /\ 1 \in 1 .. Len(q)
  BY EmptySeq
<1>2. \A i \in DOMAIN q : prio[q[i]] = k
  BY DEF Elems
<1>3. \A i \in DOMAIN q :
         (\A j \in DOMAIN q : j < i => prio[q[i]] < prio[q[j]]) => i = 1
  BY <1>1, <1>2
<1>4. /\ \A j \in DOMAIN q : prio[q[1]] <= prio[q[j]]
      /\ \A j \in DOMAIN q : j < 1 => prio[q[1]] < prio[q[j]]
  BY <1>1, <1>2
<1>5. Best(q, prio) = 1
  BY <1>1, <1>3, <1>4 DEF Best
<1>6. Dequeued(q, prio) = q[1] /\ Dequeue(q, prio) = RemoveAt(q, 1)
  BY <1>5 DEF Dequeued, Dequeue
<1>7. q[1] \in Elems(q)
  BY <1>1 DEF Elems
<1>8. /\ RemoveAt(q, 1) \in Seq(S)
      /\ Len(RemoveAt(q, 1)) = Len(q) - 1
  BY <1>1, RemoveAtElement
<1>9. /\ NoDup(RemoveAt(q, 1))
      /\ Elems(RemoveAt(q, 1)) = Elems(q) \ {q[1]}
  BY <1>1, RemoveAtElems
<1>10. QED
  BY <1>5, <1>6, <1>7, <1>8, <1>9

\* purgequeue takes out p, and nothing when p is not there.
LEMMA PurgeFacts ==
  ASSUME NEW S, NEW q \in Seq(S), NEW p, NoDup(q), Len(q) <= MAX_QUEUE_SIZE
  PROVE  /\ Purgequeue(q, p) \in Seq(S)
         /\ Len(Purgequeue(q, p)) <= MAX_QUEUE_SIZE
         /\ NoDup(Purgequeue(q, p))
         /\ Elems(Purgequeue(q, p)) = Elems(q) \ {p}
<1>0. MAX_QUEUE_SIZE \in Nat
  BY QueueAssumption
<1>1. CASE p \notin Elems(q)
  BY <1>1 DEF Purgequeue
<1>2. CASE p \in Elems(q)
  <2>1. PICK i \in DOMAIN q : q[i] = p
    BY <1>2 DEF Elems
  <2>2. \A j \in DOMAIN q : j < i => q[j] # p
    BY <2>1 DEF NoDup
  <2>3. FirstOf(q, p) \in DOMAIN q /\ q[FirstOf(q, p)] = p
    BY <2>1, <2>2 DEF FirstOf
  <2>4. Purgequeue(q, p) = RemoveAt(q, FirstOf(q, p))
    BY <1>2 DEF Purgequeue
  <2>5. FirstOf(q, p) \in 1 .. Len(q)
    BY <2>3
  <2>6. QED
    BY <1>0, <2>3, <2>4, <2>5, RemoveAtElement, RemoveAtElems
<1>3. QED
  BY <1>1, <1>2

\* A queue without duplicates that misses one of at most MAX_QUEUE_SIZE pcbs
\* has room for it.
LEMMA RoomFor ==
  ASSUME NEW S, IsFiniteSet(S), Cardinality(S) <= MAX_QUEUE_SIZE,
         NEW q \in Seq(S), NoDup(q), NEW p \in S, p \notin Elems(q)
  PROVE  Len(q) < MAX_QUEUE_SIZE
<1>1. MAX_QUEUE_SIZE \in Nat
  BY QueueAssumption
<1>2. DOMAIN q = 1 .. Len(q) /\ Len(q) \in Nat
  OBVIOUS
<1> DEFINE D == 1 .. Len(q)
<1>3. q \in Injection(D, S \ {p})
  <2>1. \A i \in D : q[i] \in S \ {p}
    BY <1>2 DEF Elems
  <2>2. q \in [D -> S \ {p}]
    BY <1>2, <2>1
  <2>3. QED
    BY <1>2, <2>2 DEF Injection, IsInjective, NoDup
<1>4. IsFiniteSet(S \ {p}) /\ Cardinality(S \ {p}) = Cardinality(S) - 1
  BY FS_RemoveElement
<1>5. Cardinality(D) <= Cardinality(S \ {p})
  BY <1>3, <1>4, FS_Injection
<1>6. Cardinality(D) = Len(q)
  BY <1>2, FS_Interval
<1>7. Cardinality(S) \in Nat
  BY FS_CardinalityType
<1>8. QED
  BY <1>1, <1>2, <1>4, <1>5, <1>6, <1>7
=============================================================================
