-------------------------- MODULE SysMemmapProofs --------------------------
(***************************************************************************)
(* Theorems of SysMemmap for any pcbs, any number of cpus and any capacity *)
(* of the list.  What carries them is the state of the array in the middle *)
(* of purgequeue: up to where the stores have come, every element stands   *)
(* one place further down than in the list.                                *)
(***************************************************************************)
EXTENDS SysMemmap, QueueProofs

TypeInv ==
    /\ proc \in [Index -> Pcb \cup {NULL}]
    /\ size \in 0 .. MAX_QUEUE_SIZE
    /\ state \in [Pcb -> {"free", "loaded", "ready", "running"}]
    /\ wpc \in {"idle", "shift", "store", "grow"}
    /\ wp \in Pcb \cup {NULL}
    /\ wpc # "idle" => wp \in Pcb
    /\ wj \in Nat
    /\ list \in Seq(Pcb)
    /\ later \subseteq Pcb

\* purgequeue has found wp at place f and stored up to place wj.
Shifted(f) ==
    /\ list[f + 1] = wp
    /\ wj \in f .. (size - 1)
    /\ \A k \in 0 .. (size - 1) :
          proc[k] = IF f <= k /\ k < wj THEN list[k + 2] ELSE list[k + 1]

\* The array against the list, wherever the thread with the lock is.
ListInv ==
    /\ NoDup(list)
    /\ size = Len(list)
    /\ \A p \in Pcb : state[p] = "ready" => p \notin Elems(list)
    /\ wpc # "shift" => \A k \in 0 .. (size - 1) : proc[k] = list[k + 1]
    /\ wpc = "shift" => /\ state[wp] \in {"running", "loaded"}
                        /\ \E f \in 0 .. (size - 1) : Shifted(f)
    /\ wpc \in {"store", "grow"} => size < MAX_QUEUE_SIZE /\ state[wp] = "ready"
    /\ wpc = "grow" => proc[size] = wp /\ (wp # Me => wp \in later)

\* What the call is sure of: its process stays on its cpu and on the list.
CallInv ==
    /\ spc \in {"idle", "size", "null", "pid", "return", "back", "done"}
    /\ i \in Nat
    /\ moved \in BOOLEAN /\ phantom \in BOOLEAN
    /\ InCall => state[Me] = "running" /\ (wpc = "idle" \/ wp # Me)
    /\ ~ InCall => i = 0 /\ ~ moved
    /\ spc \in {"idle", "size", "null", "pid"} => ~ phantom
    /\ spc \in {"null", "pid", "return"} => i \in Index

\* The first place of Me in the array is k.
FirstAt(k) == proc[k] = Me /\ \A j \in 0 .. (k - 1) : proc[j] # Me

\* Before Me has moved, the search has not passed its first place.
AheadInv ==
    InCall /\ Me \in Elems(list) /\ ~ moved /\ ~ phantom =>
        \E k \in 0 .. (size - 1) :
            /\ FirstAt(k)
            /\ spc \in {"size", "null", "pid"} => i <= k
            /\ spc = "return" => i = k
            /\ spc \in {"back", "done"} => found = Me

\* What stands behind Me was dispatched later; a running Me that the full
\* list did not take is nowhere in the array.
BehindInv ==
    /\ \A a, b \in DOMAIN list : a < b /\ list[a] = Me => list[b] \in later
    /\ state[Me] = "running" /\ Me \notin Elems(list) =>
          \A k \in Index : proc[k] # Me

\* What the search holds, once the pid has matched.
MatchInv ==
    /\ spc = "return" /\ ~ phantom =>
          /\ proc[i] \in {Me} \cup later
          /\ \E a \in DOMAIN list : list[a] = Me /\ a <= i + 2
    /\ spc = "back" /\ ~ phantom => found \in {NULL, Me} \cup later
    /\ spc = "done" => phantom \/ touched \subseteq {Me} \cup later
    /\ spc # "done" => touched = {}
    /\ spc \in {"idle", "size", "null", "pid", "return"} => found = NULL

MInv == TypeInv /\ ListInv /\ CallInv /\ AheadInv /\ BehindInv /\ MatchInv

-----------------------------------------------------------------------------
\* The list in the middle of the array's stores.
LEMMA ListFacts ==
  ASSUME TypeInv, ListInv
  PROVE  /\ MAX_QUEUE_SIZE \in Nat /\ size \in Nat
         /\ DOMAIN list = 1 .. size /\ Len(list) = size
         /\ \A k \in 1 .. size : list[k] \in Pcb
         /\ \A p : p \in Elems(list) <=> \E k \in 1 .. size : list[k] = p
BY QueueAssumption DEF TypeInv, ListInv, Elems

\* Nothing of the call's own steps touches the list, the states or the writer.
LEMMA CallIsReader ==
  Call \/ Search => UNCHANGED << proc, size, list, later, state, wpc, wp, wj >>
BY DEF Call, Search, TestSize, TestNull, TestPid, Return, Fail, Serve, Leave,
       listVars, writerVars

\* The last store of purgequeue leaves the array as Purgequeue leaves the list.
LEMMA ShrinkEffect ==
  ASSUME TypeInv, ListInv, Shrink
  PROVE  /\ wp \in Pcb /\ wp \in Elems(list)
         /\ size >= 1
         /\ list' \in Seq(Pcb) /\ Len(list') = size - 1 /\ NoDup(list')
         /\ Elems(list') = Elems(list) \ {wp}
         /\ \A k \in 0 .. (size - 2) : proc[k] = list'[k + 1]
         /\ \E f \in 1 .. size :
               /\ list[f] = wp
               /\ \A k \in 1 .. (size - 1) :
                     list'[k] = IF k < f THEN list[k] ELSE list[k + 1]
<1>1. PICK f \in 0 .. (size - 1) : Shifted(f)
  BY DEF Shrink, ListInv
<1>2. /\ wj = size - 1 /\ list[f + 1] = wp
      /\ \A k \in 0 .. (size - 1) :
            proc[k] = IF f <= k /\ k < wj THEN list[k + 2] ELSE list[k + 1]
  BY <1>1, ListFacts DEF Shrink, Shifted
<1>3. f + 1 \in 1 .. size /\ wp \in Elems(list) /\ wp \in Pcb
  BY <1>2, ListFacts
<1>4. FirstOf(list, wp) = f + 1
  <2>1. \A j \in DOMAIN list : list[j] = wp => j = f + 1
    BY <1>2, <1>3, ListFacts DEF ListInv, NoDup
  <2>2. QED
    BY <1>2, <1>3, <2>1, ListFacts DEF FirstOf
<1>5. list' = RemoveAt(list, f + 1)
  BY <1>3, <1>4 DEF Shrink, Purgequeue
<1>6. list \in Seq(Pcb) /\ f + 1 \in 1 .. Len(list) /\ NoDup(list)
  BY <1>3, ListFacts DEF TypeInv, ListInv
<1>7. /\ list' \in Seq(Pcb) /\ Len(list') = size - 1
      /\ \A k \in 1 .. (size - 1) :
            list'[k] = IF k < f + 1 THEN list[k] ELSE list[k + 1]
  BY <1>5, <1>6, RemoveAtElement, ListFacts
<1>8. NoDup(list') /\ Elems(list') = Elems(list) \ {wp}
  BY <1>2, <1>5, <1>6, RemoveAtElems
<1>9. \A k \in 0 .. (size - 2) : proc[k] = list'[k + 1]
  <2> SUFFICES ASSUME NEW k \in 0 .. (size - 2) PROVE proc[k] = list'[k + 1]
    OBVIOUS
  <2>1. k \in 0 .. (size - 1) /\ k + 1 \in 1 .. (size - 1) /\ k < wj
    BY <1>2, ListFacts
  <2>2. proc[k] = IF f <= k THEN list[k + 2] ELSE list[k + 1]
    BY <1>2, <2>1
  <2>3. list'[k + 1] = IF k + 1 < f + 1 THEN list[k + 1] ELSE list[k + 2]
    BY <1>7, <2>1
  <2>4. QED
    BY <2>2, <2>3
<1>10. size >= 1
  BY <1>3, ListFacts
<1>11. QED
  BY <1>3, <1>7, <1>8, <1>9, <1>10, <1>2

\* size++ leaves the array as Enqueue leaves the list.
LEMMA GrowEffect ==
  ASSUME TypeInv, ListInv, Grow
  PROVE  /\ wp \in Pcb /\ wp \notin Elems(list) /\ size < MAX_QUEUE_SIZE
         /\ list' \in Seq(Pcb) /\ Len(list') = size + 1 /\ NoDup(list')
         /\ Elems(list') = Elems(list) \cup {wp}
         /\ list'[size + 1] = wp /\ \A k \in 1 .. size : list'[k] = list[k]
         /\ \A k \in 0 .. size : proc[k] = list'[k + 1]
<1>1. /\ wp \in Pcb /\ wp \notin Elems(list) /\ size < MAX_QUEUE_SIZE
      /\ proc[size] = wp
      /\ \A k \in 0 .. (size - 1) : proc[k] = list[k + 1]
  BY DEF Grow, TypeInv, ListInv
<1>2. list \in Seq(Pcb) /\ Len(list) = size /\ NoDup(list) /\ size \in Nat
  BY ListFacts DEF TypeInv, ListInv
<1>3. list' = Append(list, wp)
  BY <1>1, <1>2, QueueAssumption DEF Grow, Enqueue
<1>4. /\ list' \in Seq(Pcb) /\ Len(list') = size + 1
      /\ list'[size + 1] = wp /\ \A k \in 1 .. size : list'[k] = list[k]
  BY <1>1, <1>2, <1>3, AppendProperties
<1>5. NoDup(list') /\ Elems(list') = Elems(list) \cup {wp}
  <2>1. list' = Enqueue(list, wp)
    BY DEF Grow
  <2>2. QED
    BY <1>1, <1>2, <2>1, EnqueueFacts, QueueAssumption
<1>6. \A k \in 0 .. size : proc[k] = list'[k + 1]
  <2> SUFFICES ASSUME NEW k \in 0 .. size PROVE proc[k] = list'[k + 1]
    OBVIOUS
  <2>1. CASE k = size
    BY <2>1, <1>1, <1>4
  <2>2. CASE k < size
    BY <2>2, <1>1, <1>2, <1>4
  <2>3. QED
    BY <2>1, <2>2, <1>2
<1>7. QED
  BY <1>1, <1>4, <1>5, <1>6

-----------------------------------------------------------------------------
LEMMA InitInv == Init => MInv
<1> SUFFICES ASSUME Init PROVE MInv
  OBVIOUS
<1>1. /\ MAX_QUEUE_SIZE \in Nat \ {0} /\ list \in Seq(Pcb) /\ Len(list) = 0
      /\ DOMAIN list = {}
  BY QueueAssumption DEF Init
<1>2. TypeInv
  BY <1>1 DEF Init, TypeInv, Index
<1>3. ListInv
  BY <1>1 DEF Init, ListInv, NoDup
<1>4. CallInv
  BY DEF Init, CallInv, InCall
<1>5. AheadInv
  BY DEF Init, AheadInv, InCall
<1>6. BehindInv
  BY <1>1, SysMemmapAssumption DEF Init, BehindInv
<1>7. MatchInv
  BY DEF Init, MatchInv
<1>8. QED
  BY <1>2, <1>3, <1>4, <1>5, <1>6, <1>7 DEF MInv

\* Every store of the thread with the lock keeps the array as ListInv has it.
LEMMA ListStep ==
  ASSUME TypeInv, ListInv, CallInv, [Next]_vars
  PROVE  TypeInv' /\ ListInv'
<1> USE QueueAssumption DEF Index
<1>1. ASSUME NEW p \in Pcb, Load(p) PROVE TypeInv' /\ ListInv'
  BY <1>1 DEF Load, listVars, writerVars, TypeInv, ListInv, Shifted, NoDup, Elems
<1>2. ASSUME NEW p \in Pcb, Exit(p) PROVE TypeInv' /\ ListInv'
  BY <1>2 DEF Exit, Idle, listVars, writerVars, TypeInv, ListInv, Shifted, NoDup, Elems
<1>3. ASSUME NEW p \in Pcb, StartPurge(p) PROVE TypeInv' /\ ListInv'
  <2>1. UNCHANGED << proc, size, list, later >> /\ wpc = "idle"
    BY <1>3 DEF StartPurge, listVars
  <2>2. ASSUME NEW k \in 0 .. (size - 1), proc[k] = p,
               wpc' = "shift" /\ wp' = p /\ wj' = k, UNCHANGED state
        PROVE  TypeInv' /\ ListInv'
    <3>1. list[k + 1] = p
      BY <2>1, <2>2 DEF ListInv
    <3>2. Shifted(k)'
      BY <2>1, <2>2, <3>1, ListFacts DEF Shifted, ListInv
    <3>3. state[p] \in {"running", "loaded"}
      BY <1>3 DEF StartPurge
    <3>4. TypeInv'
      BY <2>1, <2>2, ListFacts DEF TypeInv
    <3>5. QED
      BY <2>1, <2>2, <3>2, <3>3, <3>4 DEF ListInv, NoDup, Elems
  <2>3. ASSUME \A k \in 0 .. (size - 1) : proc[k] # p,
               state' = [state EXCEPT ![p] = "ready"], UNCHANGED writerVars
        PROVE  TypeInv' /\ ListInv'
    <3>1. p \notin Elems(list)
      <4>1. ASSUME NEW k \in 1 .. size, list[k] = p PROVE FALSE
        <5>1. k - 1 \in 0 .. (size - 1) /\ proc[k - 1] = list[(k - 1) + 1]
          BY <2>1, ListFacts DEF ListInv
        <5>2. QED
          BY <2>3, <4>1, <5>1, ListFacts
      <4>2. QED
        BY <4>1, ListFacts
    <3>2. TypeInv'
      BY <2>1, <2>3 DEF TypeInv, writerVars
    <3>3. QED
      BY <2>1, <2>3, <3>1, <3>2 DEF ListInv, TypeInv, writerVars, NoDup, Elems
  <2>4. QED
    BY <1>3, <2>2, <2>3 DEF StartPurge
<1>4. ASSUME Shift PROVE TypeInv' /\ ListInv'
  <2>1. PICK f \in 0 .. (size - 1) : Shifted(f)
    BY <1>4 DEF Shift, ListInv
  <2>2. /\ wj \in f .. (size - 2) /\ wj \in Index /\ wj + 1 \in Index
        /\ proc' = [proc EXCEPT ![wj] = proc[wj + 1]] /\ wj' = wj + 1
        /\ UNCHANGED << size, list, later, state, wpc, wp >> /\ wpc = "shift"
    BY <1>4, <2>1, ListFacts DEF Shift, Shifted, TypeInv
  <2>3. TypeInv'
    BY <2>2, ListFacts DEF TypeInv
  <2>4. proc[wj + 1] = list[wj + 2]
    <3>1. /\ wj + 1 \in 0 .. (size - 1) /\ ~ (wj + 1 < wj)
          /\ (wj + 1) + 1 = wj + 2
      BY <2>2, ListFacts
    <3>2. proc[wj + 1] = list[(wj + 1) + 1]
      BY <2>1, <3>1 DEF Shifted
    <3>3. QED
      BY <3>1, <3>2
  <2>5. \A k \in 0 .. (size - 1) :
           proc'[k] = IF f <= k /\ k < wj + 1 THEN list[k + 2] ELSE list[k + 1]
    <3> SUFFICES ASSUME NEW k \in 0 .. (size - 1)
                 PROVE proc'[k] = IF f <= k /\ k < wj + 1 THEN list[k + 2] ELSE list[k + 1]
      OBVIOUS
    <3>1. k \in Index
      BY DEF TypeInv
    <3>2. CASE k = wj
      BY <2>2, <2>4, <3>1, <3>2 DEF TypeInv
    <3>3. CASE k # wj
      <4>1. proc'[k] = proc[k]
        BY <2>2, <3>1, <3>3 DEF TypeInv
      <4>2. k < wj <=> k < wj + 1
        BY <2>2, <3>3, ListFacts
      <4>3. QED
        BY <4>1, <4>2, <2>1 DEF Shifted
    <3>4. QED
      BY <3>2, <3>3
  <2>6. Shifted(f)'
    BY <2>1, <2>2, <2>5, ListFacts DEF Shifted
  <2>7. QED
    BY <2>1, <2>2, <2>3, <2>6 DEF ListInv, NoDup, Elems
<1>5. ASSUME Shrink PROVE TypeInv' /\ ListInv'
  <2>1. /\ size' = size - 1 /\ wpc' = "idle"
        /\ state' = [state EXCEPT ![wp] = "ready"]
        /\ UNCHANGED << proc, later, wp, wj >>
    BY <1>5 DEF Shrink
  <2>2. TypeInv'
    BY <1>5, <2>1, ShrinkEffect, ListFacts DEF TypeInv
  <2>3. \A p \in Pcb : state'[p] = "ready" => p \notin Elems(list')
    BY <1>5, <2>1, ShrinkEffect DEF TypeInv, ListInv
  <2>4. \A k \in 0 .. (size' - 1) : proc'[k] = list'[k + 1]
    <3>1. \A k \in 0 .. (size - 2) : proc[k] = list'[k + 1]
      BY <1>5, ShrinkEffect
    <3>2. size' - 1 = size - 2
      BY <2>1, ListFacts
    <3>3. QED
      BY <2>1, <3>1, <3>2
  <2>5. QED
    BY <1>5, <2>1, <2>2, <2>3, <2>4, ShrinkEffect DEF ListInv, NoDup, Elems
<1>6. ASSUME NEW p \in Pcb, StartGet(p) PROVE TypeInv' /\ ListInv'
  <2>1. CASE size < MAX_QUEUE_SIZE
    BY <1>6, <2>1 DEF StartGet, listVars, TypeInv, ListInv, NoDup, Elems
  <2>2. CASE ~ (size < MAX_QUEUE_SIZE)
    <3>1. /\ wpc = "idle" /\ state' = [state EXCEPT ![p] = "running"]
          /\ UNCHANGED << proc, size, list, later, wpc, wp, wj >>
      BY <1>6, <2>2 DEF StartGet, listVars, writerVars
    <3>2. TypeInv'
      BY <3>1 DEF TypeInv
    <3>3. \A r \in Pcb : state'[r] = "ready" => state[r] = "ready"
      BY <3>1 DEF TypeInv
    <3>4. QED
      BY <3>1, <3>2, <3>3 DEF ListInv, NoDup, Elems
  <2>3. QED
    BY <2>1, <2>2
<1>7. ASSUME Store PROVE TypeInv' /\ ListInv'
  <2>1. /\ wp \in Pcb /\ size \in Index /\ wpc = "store" /\ wpc' = "grow"
        /\ proc' = [proc EXCEPT ![size] = wp]
        /\ later' = IF wp = Me THEN {} ELSE later \cup {wp}
        /\ UNCHANGED << size, list, state, wp, wj >>
    BY <1>7 DEF Store, TypeInv, ListInv
  <2>2. TypeInv'
    BY <2>1 DEF TypeInv
  <2>3. proc'[size] = wp /\ \A k \in 0 .. (size - 1) : proc'[k] = proc[k]
    BY <2>1 DEF TypeInv
  <2>4. QED
    BY <2>1, <2>2, <2>3 DEF ListInv, NoDup, Elems
<1>8. ASSUME Grow PROVE TypeInv' /\ ListInv'
  <2>1. /\ size' = size + 1 /\ wpc' = "idle"
        /\ state' = [state EXCEPT ![wp] = "running"]
        /\ UNCHANGED << proc, later, wp, wj >>
    BY <1>8 DEF Grow
  <2>2. TypeInv'
    BY <1>8, <2>1, GrowEffect, ListFacts DEF TypeInv
  <2>3. \A p \in Pcb : state'[p] = "ready" => p \notin Elems(list')
    BY <1>8, <2>1, GrowEffect DEF TypeInv, ListInv
  <2>4. \A k \in 0 .. (size' - 1) : proc'[k] = list'[k + 1]
    BY <1>8, <2>1, GrowEffect, ListFacts
  <2>5. QED
    BY <1>8, <2>1, <2>2, <2>3, <2>4, GrowEffect DEF ListInv, NoDup, Elems
<1>9. ASSUME UNCHANGED << proc, size, list, later, state, wpc, wp, wj >>
      PROVE TypeInv' /\ ListInv'
  BY <1>9 DEF TypeInv, ListInv, Shifted, NoDup, Elems
<1>10. QED
  BY <1>1, <1>2, <1>3, <1>4, <1>5, <1>6, <1>7, <1>8, <1>9, CallIsReader
     DEF Next, Write, vars, listVars, writerVars

\* The call goes on only while its process runs, and nobody purges it.
LEMMA CallStep ==
  ASSUME TypeInv, ListInv, CallInv, [Next]_vars
  PROVE  CallInv'
<1> USE DEF CallInv, InCall
<1>0. ASSUME UNCHANGED << spc, i, moved, phantom >>,
             InCall => state'[Me] = "running" /\ (wpc' = "idle" \/ wp' # Me)
      PROVE  CallInv'
  BY <1>0
<1>1. ASSUME NEW p \in Pcb, Load(p) \/ Exit(p) PROVE CallInv'
  <2>1. UNCHANGED << spc, i, moved, phantom, wpc, wp >>
    BY <1>1 DEF Load, Exit, writerVars, resultVars
  <2>2. InCall => state'[Me] = "running"
    BY <1>1, SysMemmapAssumption DEF Load, Exit, Idle, TypeInv
  <2>3. QED
    BY <1>0, <2>1, <2>2
<1>2. ASSUME NEW p \in Pcb, StartPurge(p) PROVE CallInv'
  <2>1. UNCHANGED << spc, i, moved, phantom >>
    BY <1>2 DEF StartPurge, resultVars
  <2>2. InCall => state'[Me] = "running" /\ (wpc' = "idle" \/ wp' # Me)
    BY <1>2, SysMemmapAssumption DEF StartPurge, Idle, writerVars, TypeInv
  <2>3. QED
    BY <1>0, <2>1, <2>2
<1>3. ASSUME NEW p \in Pcb, StartGet(p) PROVE CallInv'
  <2>1. UNCHANGED << spc, i, moved, phantom >>
    BY <1>3 DEF StartGet, resultVars
  <2>2. InCall => state'[Me] = "running" /\ (wpc' = "idle" \/ wp' # Me)
    BY <1>3, SysMemmapAssumption DEF StartGet, writerVars, TypeInv
  <2>3. QED
    BY <1>0, <2>1, <2>2
<1>4. CASE Shift
  BY <1>4 DEF Shift, resultVars
<1>5. CASE Shrink
  BY <1>5 DEF Shrink, resultVars, TypeInv
<1>6. CASE Store
  BY <1>6 DEF Store, resultVars
<1>7. CASE Grow
  BY <1>7 DEF Grow, resultVars, TypeInv
<1>8. CASE Call
  BY <1>8 DEF Call, Goto, Idle, listVars, writerVars, resultVars
<1>9. CASE TestSize
  <2>1. i < size => i \in Index
    BY QueueAssumption DEF TypeInv, Index
  <2>2. QED
    BY <1>9, <2>1 DEF TestSize, More, Goto, listVars, writerVars, resultVars
<1>10. CASE TestNull
  BY <1>10 DEF TestNull, listVars, writerVars, resultVars
<1>11. CASE TestPid
  <2>1. UNCHANGED << state, wpc, wp, moved >> /\ spc = "pid"
    BY <1>11 DEF TestPid, writerVars
  <2>2. CASE spc' = "return" /\ UNCHANGED i /\ phantom' = (state[proc[i]] = "free")
    BY <2>1, <2>2
  <2>3. CASE spc' = "size" /\ i' = i + 1 /\ UNCHANGED phantom
    BY <2>1, <2>3
  <2>4. QED
    BY <1>11, <2>2, <2>3 DEF TestPid, PidIsNot
<1>12. CASE Return \/ Fail \/ Serve
  <2>1. UNCHANGED << state, wpc, wp, moved, phantom, i >> /\ InCall
    BY <1>12 DEF Return, Fail, Serve, Goto, writerVars, resultVars
  <2>2. spc' \in {"back", "done"}
    BY <1>12 DEF Return, Fail, Serve, Goto
  <2>3. QED
    BY <2>1, <2>2
<1>15. CASE Leave
  <2>1. UNCHANGED << state, wpc, wp >> /\ spc' = "idle" /\ i' = 0
    BY <1>15 DEF Leave, Goto, writerVars
  <2>2. moved' = FALSE /\ phantom' = FALSE
    BY <1>15 DEF Leave
  <2>3. QED
    BY <2>1, <2>2
<1>13. CASE UNCHANGED vars
  BY <1>13 DEF vars, writerVars, resultVars
<1>14. QED
  BY <1>1, <1>2, <1>3, <1>4, <1>5, <1>6, <1>7, <1>8, <1>9, <1>10, <1>11,
     <1>12, <1>13, <1>15 DEF Next, Write, Search

\* Where the search starts, Me has a first place, also amid the stores.
LEMMA FirstPlace ==
  ASSUME TypeInv, ListInv, Me \in Elems(list), wpc = "shift" => wp # Me
  PROVE  \E k \in 0 .. (size - 1) : FirstAt(k)
<1>1. PICK m \in 1 .. size : list[m] = Me
  BY ListFacts
<1>2. \A b \in 1 .. size : list[b] = Me => b = m
  BY <1>1, ListFacts DEF ListInv, NoDup
<1>3. CASE wpc # "shift"
  <2>1. m - 1 \in 0 .. (size - 1) /\ proc[m - 1] = Me
    BY <1>1, <1>3, ListFacts DEF ListInv
  <2>2. ASSUME NEW j \in 0 .. (m - 2) PROVE proc[j] # Me
    <3>1. j \in 0 .. (size - 1) /\ j + 1 \in 1 .. size /\ j + 1 # m
      BY ListFacts
    <3>2. QED
      BY <1>2, <1>3, <3>1 DEF ListInv
  <2>3. (m - 1) - 1 = m - 2
    BY ListFacts
  <2>4. QED
    BY <2>1, <2>2, <2>3 DEF FirstAt
<1>4. CASE wpc = "shift"
  <2>1. PICK f \in 0 .. (size - 1) : Shifted(f)
    BY <1>4 DEF ListInv
  <2>2. /\ wj \in f .. (size - 1) /\ m # f + 1
        /\ \A k \in 0 .. (size - 1) :
              proc[k] = IF f <= k /\ k < wj THEN list[k + 2] ELSE list[k + 1]
    BY <1>1, <1>4, <2>1 DEF Shifted
  <2>3. CASE f <= m - 2 /\ m - 2 < wj
    <3>1. m - 2 \in 0 .. (size - 1) /\ proc[m - 2] = list[(m - 2) + 2]
      BY <2>2, <2>3, ListFacts
    <3>2. ASSUME NEW j \in 0 .. ((m - 2) - 1) PROVE proc[j] # Me
      <4>1. /\ j \in 0 .. (size - 1)
            /\ j + 1 \in 1 .. size /\ j + 1 # m
            /\ j + 2 \in 1 .. size /\ j + 2 # m
        BY ListFacts
      <4>2. QED
        BY <1>2, <2>2, <4>1
    <3>3. proc[m - 2] = Me
      BY <1>1, <3>1, ListFacts
    <3>4. QED
      BY <3>1, <3>2, <3>3 DEF FirstAt
  <2>4. CASE ~ (f <= m - 2 /\ m - 2 < wj)
    <3>1. m - 1 \in 0 .. (size - 1) /\ ~ (f <= m - 1 /\ m - 1 < wj)
      BY <2>2, <2>4, ListFacts
    <3>2. proc[m - 1] = list[(m - 1) + 1]
      BY <2>2, <3>1
    <3>3. ASSUME NEW j \in 0 .. ((m - 1) - 1) PROVE proc[j] # Me
      <4>1. /\ j \in 0 .. (size - 1)
            /\ j + 1 \in 1 .. size /\ j + 1 # m
        BY ListFacts
      <4>2. f <= j /\ j < wj => j + 2 \in 1 .. size /\ j + 2 # m
        BY <2>2, <2>4, ListFacts
      <4>3. QED
        BY <1>2, <2>2, <4>1, <4>2
    <3>4. proc[m - 1] = Me
      BY <1>1, <3>2, ListFacts
    <3>5. QED
      BY <3>1, <3>3, <3>4 DEF FirstAt
  <2>5. QED
    BY <2>3, <2>4
<1>5. QED
  BY <1>3, <1>4

\* No store of the lock's thread takes away Me's first place unless Me moves,
\* and the search goes past no place that holds Me.
LEMMA AheadStep ==
  ASSUME TypeInv, ListInv, CallInv, AheadInv, [Next]_vars
  PROVE  AheadInv'
<1> USE QueueAssumption, SysMemmapAssumption
<1>1. SUFFICES ASSUME InCall', Me \in Elems(list'), ~ moved', ~ phantom'
               PROVE  \E k \in 0 .. (size' - 1) :
                         /\ FirstAt(k)'
                         /\ spc' \in {"size", "null", "pid"} => i' <= k
                         /\ spc' = "return" => i' = k
                         /\ spc' \in {"back", "done"} => found' = Me
  BY DEF AheadInv
<1> DEFINE Found(k) == /\ FirstAt(k)
                       /\ spc \in {"size", "null", "pid"} => i <= k
                       /\ spc = "return" => i = k
                       /\ spc \in {"back", "done"} => found = Me
<1>2. ASSUME InCall, Me \in Elems(list), ~ moved, ~ phantom
      PROVE  \E k \in 0 .. (size - 1) : Found(k)
  BY <1>2 DEF AheadInv
<1>3. CASE UNCHANGED << proc, size, list, spc, i, found, moved, phantom >>
  <2>1. InCall /\ Me \in Elems(list) /\ ~ moved /\ ~ phantom
    BY <1>1, <1>3 DEF InCall, Elems
  <2>2. QED
    BY <1>2, <1>3, <2>1 DEF FirstAt
<1>4. CASE Shift
  <2>1. /\ InCall /\ Me \in Elems(list) /\ ~ moved /\ ~ phantom
        /\ proc[wj + 1] # Me /\ wp # Me
        /\ UNCHANGED << size, spc, i, found >>
        /\ proc' = [proc EXCEPT ![wj] = proc[wj + 1]]
    BY <1>1, <1>4 DEF Shift, InCall, Elems, resultVars, CallInv
  <2>2. PICK k \in 0 .. (size - 1) : Found(k)
    BY <1>2, <2>1
  <2>3. PICK f \in 0 .. (size - 1) : Shifted(f)
    BY <1>4 DEF Shift, ListInv
  <2>4. k # wj
    <3>1. CASE wj = f
      <4>1. proc[wj] = list[f + 1] /\ list[f + 1] = wp
        BY <2>3, <3>1, ListFacts DEF Shifted
      <4>2. QED
        BY <2>1, <2>2, <4>1 DEF FirstAt
    <3>2. CASE wj > f
      <4>1. wj - 1 \in 0 .. (size - 1) /\ wj \in 0 .. (size - 1)
        BY <2>3, <3>2, ListFacts DEF Shifted
      <4>2. proc[wj - 1] = list[(wj - 1) + 2] /\ proc[wj] = list[wj + 1]
        BY <2>3, <3>2, <4>1, ListFacts DEF Shifted
      <4>3. proc[wj - 1] = proc[wj]
        BY <4>1, <4>2, ListFacts
      <4>4. QED
        BY <2>2, <4>1, <4>3, ListFacts DEF FirstAt
    <3>3. QED
      BY <2>3, <3>1, <3>2, ListFacts DEF Shifted
  <2>5. \A j \in Index : j # wj => proc'[j] = proc[j]
    BY <2>1 DEF TypeInv
  <2>6. wj \in Index /\ proc'[wj] # Me
    <3>1. wj \in Index
      BY <2>3 DEF Shifted, TypeInv, Index
    <3>2. QED
      BY <2>1, <3>1 DEF TypeInv
  <2>7. 0 .. (size - 1) \subseteq Index /\ 0 .. (k - 1) \subseteq Index
    BY <2>2 DEF TypeInv, Index
  <2>8. FirstAt(k)'
    BY <2>2, <2>4, <2>5, <2>6, <2>7 DEF FirstAt
  <2>9. QED
    BY <2>1, <2>2, <2>8
<1>5. CASE Shrink
  <2>1. /\ InCall /\ ~ moved /\ ~ phantom
        /\ UNCHANGED << proc, spc, i, found >> /\ size' = size - 1
    BY <1>1, <1>5 DEF Shrink, InCall, resultVars
  <2>2. Me \in Elems(list)
    BY <1>1, <1>5, ShrinkEffect
  <2>3. PICK k \in 0 .. (size - 1) : Found(k)
    BY <1>2, <2>1, <2>2
  <2>4. PICK b \in 1 .. (size - 1) : list'[b] = Me
    <3>1. list' \in Seq(Pcb) /\ Len(list') = size - 1
      BY <1>5, ShrinkEffect
    <3>2. DOMAIN list' = 1 .. (size - 1)
      BY <3>1
    <3>3. QED
      BY <1>1, <3>2 DEF Elems
  <2>5. b - 1 \in 0 .. (size - 2) /\ proc[b - 1] = list'[(b - 1) + 1]
    BY <1>5, ShrinkEffect, ListFacts
  <2>6. proc[b - 1] = Me
    BY <2>4, <2>5, ListFacts
  <2>7. k <= b - 1
    BY <2>3, <2>5, <2>6, ListFacts DEF FirstAt
  <2>8. k \in 0 .. (size' - 1)
    BY <2>1, <2>5, <2>7, ListFacts
  <2>9. QED
    BY <2>1, <2>3, <2>8 DEF FirstAt
<1>6. CASE Store
  <2>1. /\ InCall /\ Me \in Elems(list) /\ ~ moved /\ ~ phantom
        /\ UNCHANGED << size, spc, i, found >>
        /\ proc' = [proc EXCEPT ![size] = wp]
    BY <1>1, <1>6 DEF Store, InCall, Elems, resultVars
  <2>2. PICK k \in 0 .. (size - 1) : Found(k)
    BY <1>2, <2>1
  <2>3. \A j \in 0 .. (size - 1) : proc'[j] = proc[j]
    BY <2>1 DEF TypeInv, Index
  <2>4. 0 .. (k - 1) \subseteq 0 .. (size - 1)
    BY <2>2, ListFacts
  <2>5. FirstAt(k)'
    BY <2>2, <2>3, <2>4 DEF FirstAt
  <2>6. QED
    BY <2>1, <2>2, <2>5
<1>7. CASE Grow
  <2>1. /\ InCall /\ ~ moved /\ ~ phantom /\ wp # Me
        /\ UNCHANGED << proc, spc, i, found >> /\ size' = size + 1
    BY <1>1, <1>7 DEF Grow, InCall, resultVars, CallInv
  <2>2. Me \in Elems(list)
    BY <1>1, <1>7, <2>1, GrowEffect
  <2>3. PICK k \in 0 .. (size - 1) : Found(k)
    BY <1>2, <2>1, <2>2
  <2>4. k \in 0 .. (size' - 1)
    BY <2>1, <2>3, ListFacts
  <2>5. QED
    BY <2>1, <2>3, <2>4 DEF FirstAt
<1>8. CASE Call
  <2>1. /\ UNCHANGED << proc, size, list, i >> /\ spc' = "size" /\ i = 0
        /\ wpc = "shift" => wp # Me
    BY <1>8 DEF Call, Goto, Idle, InCall, listVars, CallInv
  <2>2. Me \in Elems(list)
    BY <1>1, <2>1 DEF Elems
  <2>3. PICK k \in 0 .. (size - 1) : FirstAt(k)
    BY <2>1, <2>2, FirstPlace
  <2>4. i' <= k
    BY <2>1, <2>3
  <2>5. FirstAt(k)'
    BY <2>1, <2>3 DEF FirstAt
  <2>6. QED
    BY <2>1, <2>3, <2>4, <2>5
<1>9. ASSUME UNCHANGED << proc, size, list, moved >>, InCall, ~ phantom
      PROVE  \E k \in 0 .. (size - 1) : Found(k) /\ FirstAt(k)' /\ size' = size
  <2>1. Me \in Elems(list) /\ ~ moved
    BY <1>1, <1>9 DEF Elems
  <2>2. QED
    BY <1>2, <1>9, <2>1 DEF FirstAt
<1>10. CASE TestSize
  <2>1. /\ UNCHANGED << proc, size, list, moved, i >> /\ spc = "size" /\ ~ phantom
        /\ IF i < size THEN spc' = "null" ELSE spc' = "back"
    BY <1>10 DEF TestSize, Goto, More, listVars, CallInv
  <2>2. PICK k \in 0 .. (size - 1) :
           FirstAt(k)' /\ i <= k /\ size' = size
    BY <1>9, <2>1 DEF InCall
  <2>3. i < size
    BY <2>2, ListFacts DEF CallInv
  <2>4. QED
    BY <2>1, <2>2, <2>3
<1>11. CASE TestNull
  <2>1. /\ UNCHANGED << proc, size, list, moved >> /\ spc = "null" /\ ~ phantom
        /\ IF proc[i] = NULL THEN spc' = "size" /\ i' = i + 1
                             ELSE spc' = "pid" /\ UNCHANGED i
    BY <1>11 DEF TestNull, listVars, CallInv
  <2>2. PICK k \in 0 .. (size - 1) :
           FirstAt(k) /\ FirstAt(k)' /\ i <= k /\ size' = size
    BY <1>9, <2>1 DEF InCall
  <2>3. proc[i] = NULL => i # k
    BY <2>2 DEF FirstAt
  <2>4. i' <= k
    BY <2>1, <2>2, <2>3 DEF CallInv
  <2>5. QED
    BY <2>1, <2>2, <2>4
<1>12. CASE TestPid
  <2>1. /\ UNCHANGED << proc, size, list, moved >> /\ spc = "pid" /\ ~ phantom
    BY <1>12 DEF TestPid, listVars, CallInv
  <2>2. PICK k \in 0 .. (size - 1) :
           FirstAt(k) /\ FirstAt(k)' /\ i <= k /\ size' = size
    BY <1>9, <2>1 DEF InCall
  <2>3. i \in Nat
    BY DEF CallInv
  <2>4. CASE PidIs /\ spc' = "return" /\ UNCHANGED i
             /\ phantom' = (state[proc[i]] = "free")
    <3>1. proc[i] = Me
      BY <1>1, <2>4 DEF PidIs
    <3>2. i = k
      BY <2>2, <2>3, <3>1 DEF FirstAt
    <3>3. QED
      BY <2>2, <2>4, <3>2
  <2>5. CASE proc[i] # Me /\ spc' = "size" /\ i' = i + 1
    <3>1. i # k
      BY <2>2, <2>5 DEF FirstAt
    <3>2. QED
      BY <2>2, <2>3, <2>5, <3>1
  <2>6. QED
    BY <1>12, <2>4, <2>5 DEF TestPid, PidIsNot
<1>13. CASE Return
  <2>1. /\ UNCHANGED << proc, size, list, moved, phantom >> /\ spc = "return"
        /\ spc' = "back" /\ found' = proc[i] /\ ~ phantom
    BY <1>1, <1>13 DEF Return, Goto, listVars
  <2>2. PICK k \in 0 .. (size - 1) :
           FirstAt(k) /\ FirstAt(k)' /\ i = k /\ size' = size
    BY <1>9, <2>1 DEF InCall
  <2>3. QED
    BY <2>1, <2>2 DEF FirstAt
<1>14. CASE Fail \/ Serve
  <2>1. /\ UNCHANGED << proc, size, list, moved, phantom, found >> /\ spc = "back"
        /\ spc' = "done" /\ ~ phantom
    BY <1>1, <1>14 DEF Fail, Serve, Goto, listVars, resultVars
  <2>2. PICK k \in 0 .. (size - 1) :
           FirstAt(k)' /\ found = Me /\ size' = size
    BY <1>9, <2>1 DEF InCall
  <2>3. QED
    BY <2>1, <2>2
<1>15. CASE Leave
  BY <1>1, <1>15 DEF Leave, Goto, InCall
<1>16. QED
  BY <1>3, <1>4, <1>5, <1>6, <1>7, <1>8, <1>10, <1>11, <1>12, <1>13, <1>14, <1>15
     DEF Next, Write, Search, Load, Exit, StartPurge, StartGet, vars,
         listVars, writerVars, resultVars

\* The list keeps its order, and what is appended was dispatched last.
LEMMA BehindStep ==
  ASSUME TypeInv, ListInv, BehindInv, [Next]_vars
  PROVE  BehindInv'
<1> USE QueueAssumption, SysMemmapAssumption
<1> DEFINE Order == \A a, b \in DOMAIN list : a < b /\ list[a] = Me => list[b] \in later
           Gone == state[Me] = "running" /\ Me \notin Elems(list)
           Nowhere == \A k \in Index : proc[k] # Me
<1>1. Order /\ (Gone => Nowhere)
  BY DEF BehindInv
<1>2. SUFFICES Order' /\ (Gone' => Nowhere')
  BY DEF BehindInv
<1>3. CASE UNCHANGED << proc, size, list, later, state >>
  BY <1>1, <1>3 DEF Elems, Index
<1>4. ASSUME NEW p \in Pcb, Load(p) \/ Exit(p) \/ StartPurge(p)
      PROVE  Order' /\ (Gone' => Nowhere')
  <2>1. UNCHANGED << proc, size, list, later >>
    BY <1>4 DEF Load, Exit, StartPurge, listVars
  <2>2. state'[Me] = "running" => state[Me] = "running"
    BY <1>4 DEF Load, Exit, StartPurge, TypeInv
  <2>3. QED
    BY <1>1, <2>1, <2>2 DEF Elems, Index
<1>5. CASE Shift
  <2>1. /\ UNCHANGED << size, list, later, state >> /\ wj < size - 1
        /\ proc' = [proc EXCEPT ![wj] = proc[wj + 1]] /\ wj \in Nat
    BY <1>5 DEF Shift, TypeInv
  <2>2. wj + 1 \in Index
    BY <2>1 DEF TypeInv, Index
  <2>3. Nowhere => Nowhere'
    <3>1. \A k \in Index : proc'[k] = proc[k] \/ proc'[k] = proc[wj + 1]
      BY <2>1 DEF TypeInv
    <3>2. QED
      BY <2>2, <3>1
  <2>4. QED
    BY <1>1, <2>1, <2>3 DEF Elems
<1>6. CASE Shrink
  <2>1. /\ UNCHANGED << proc, later >> /\ state' = [state EXCEPT ![wp] = "ready"]
    BY <1>6 DEF Shrink
  <2>2. PICK f \in 1 .. size :
           \A k \in 1 .. (size - 1) :
              list'[k] = IF k < f THEN list[k] ELSE list[k + 1]
    BY <1>6, ShrinkEffect
  <2>3. DOMAIN list' = 1 .. (size - 1)
    <3>1. list' \in Seq(Pcb) /\ Len(list') = size - 1
      BY <1>6, ShrinkEffect
    <3>2. QED
      BY <3>1
  <2>4. Order'
    <3> SUFFICES ASSUME NEW a \in 1 .. (size - 1), NEW b \in 1 .. (size - 1),
                        a < b, list'[a] = Me
                 PROVE  list'[b] \in later
      BY <2>1, <2>3
    <3> DEFINE g(k) == IF k < f THEN k ELSE k + 1
    <3>1. /\ g(a) \in 1 .. size /\ g(b) \in 1 .. size /\ g(a) < g(b)
          /\ list'[a] = list[g(a)] /\ list'[b] = list[g(b)]
      BY <2>2, ListFacts
    <3>2. QED
      BY <1>1, <3>1, ListFacts
  <2>5. Gone' => Gone
    <3>1. Elems(list') = Elems(list) \ {wp} /\ wp \in Pcb
      BY <1>6, ShrinkEffect
    <3>2. QED
      BY <2>1, <3>1 DEF TypeInv
  <2>6. QED
    BY <1>1, <2>1, <2>4, <2>5
<1>7. ASSUME NEW p \in Pcb, StartGet(p)
      PROVE  Order' /\ (Gone' => Nowhere')
  <2>1. UNCHANGED << proc, size, list, later >> /\ wpc = "idle" /\ state[p] = "ready"
    BY <1>7 DEF StartGet, listVars
  <2>2. CASE size < MAX_QUEUE_SIZE
    BY <1>1, <1>7, <2>1, <2>2 DEF StartGet, Elems, Index
  <2>3. CASE ~ (size < MAX_QUEUE_SIZE)
    <3>1. size = MAX_QUEUE_SIZE /\ state' = [state EXCEPT ![p] = "running"]
      BY <1>7, <2>3 DEF StartGet, TypeInv
    <3>2. CASE p = Me
      <4>1. Me \notin Elems(list)
        BY <2>1, <3>2 DEF ListInv
      <4>2. ASSUME NEW k \in Index PROVE proc[k] # Me
        <5>1. k \in 0 .. (size - 1) /\ k + 1 \in 1 .. size
          BY <3>1 DEF Index
        <5>2. QED
          BY <2>1, <4>1, <5>1, ListFacts DEF ListInv
      <4>3. QED
        BY <1>1, <2>1, <4>2 DEF Index
    <3>3. CASE p # Me
      BY <1>1, <2>1, <3>1, <3>3 DEF TypeInv, Elems, Index
    <3>4. QED
      BY <3>2, <3>3
  <2>4. QED
    BY <2>2, <2>3
<1>8. CASE Store
  <2>1. /\ wp \in Pcb /\ size \in Index /\ state[wp] = "ready"
        /\ proc' = [proc EXCEPT ![size] = wp]
        /\ later' = IF wp = Me THEN {} ELSE later \cup {wp}
        /\ UNCHANGED << list, state >>
    BY <1>8 DEF Store, TypeInv, ListInv, Index
  <2>2. wp \notin Elems(list)
    BY <2>1 DEF ListInv
  <2>3. Order'
    <3>1. CASE wp = Me
      <4>1. \A a \in DOMAIN list : list[a] # Me
        BY <2>2, <3>1, ListFacts
      <4>2. QED
        BY <2>1, <4>1
    <3>2. CASE wp # Me
      BY <1>1, <2>1, <3>2
    <3>3. QED
      BY <3>1, <3>2
  <2>4. Gone' => Nowhere'
    <3> SUFFICES ASSUME Gone' PROVE Nowhere'
      OBVIOUS
    <3>1. Nowhere /\ wp # Me
      BY <1>1, <2>1 DEF Elems
    <3>2. QED
      BY <2>1, <3>1 DEF TypeInv, Index
  <2>5. QED
    BY <2>3, <2>4
<1>9. CASE Grow
  <2>1. /\ UNCHANGED << proc, later >> /\ state' = [state EXCEPT ![wp] = "running"]
        /\ wp # Me => wp \in later
    BY <1>9 DEF Grow, ListInv
  <2>2. /\ Elems(list') = Elems(list) \cup {wp} /\ wp \in Pcb
        /\ wp \notin Elems(list)
        /\ list'[size + 1] = wp /\ \A k \in 1 .. size : list'[k] = list[k]
    BY <1>9, GrowEffect
  <2>3. DOMAIN list' = 1 .. (size + 1)
    <3>1. list' \in Seq(Pcb) /\ Len(list') = size + 1
      BY <1>9, GrowEffect
    <3>2. QED
      BY <3>1
  <2>4. Order'
    <3> SUFFICES ASSUME NEW a \in 1 .. (size + 1), NEW b \in 1 .. (size + 1),
                        a < b, list'[a] = Me
                 PROVE  list'[b] \in later
      BY <2>1, <2>3
    <3>1. a \in 1 .. size /\ list[a] = Me
      BY <2>2, ListFacts
    <3>2. CASE b = size + 1
      <4>1. wp # Me
        BY <2>2, <3>1, ListFacts
      <4>2. QED
        BY <2>1, <2>2, <3>2, <4>1
    <3>3. CASE b # size + 1
      <4>1. b \in 1 .. size
        BY <3>3, ListFacts
      <4>2. QED
        BY <1>1, <2>2, <3>1, <4>1, ListFacts
    <3>4. QED
      BY <3>2, <3>3
  <2>5. Gone' => Gone
    BY <2>1, <2>2 DEF TypeInv
  <2>6. QED
    BY <1>1, <2>1, <2>4, <2>5 DEF Index
<1>10. QED
  BY <1>3, <1>4, <1>5, <1>6, <1>7, <1>8, <1>9, CallIsReader
     DEF Next, Write, vars, listVars

\* What the search takes for its caller is its caller, or has moved up from
\* behind it.
LEMMA MatchStep ==
  ASSUME TypeInv, ListInv, CallInv, BehindInv, MatchInv, [Next]_vars
  PROVE  MatchInv'
<1> USE QueueAssumption, SysMemmapAssumption
<1> DEFINE Held == /\ proc[i] \in {Me} \cup later
                   /\ \E a \in DOMAIN list : list[a] = Me /\ a <= i + 2
<1>1. ASSUME UNCHANGED << spc, i, found, touched, phantom >>,
             InCall => later \subseteq later',
             spc = "return" /\ Held => Held'
      PROVE  MatchInv'
  BY <1>1 DEF MatchInv, InCall
<1>2. CASE UNCHANGED << proc, list, later, spc, i, found, touched, phantom >>
  BY <1>1, <1>2
<1>3. CASE Shift
  <2>1. /\ UNCHANGED << list, later, spc, i, found, touched, phantom >>
        /\ proc' = [proc EXCEPT ![wj] = proc[wj + 1]] /\ wj < size - 1
    BY <1>3 DEF Shift, resultVars
  <2>2. PICK f \in 0 .. (size - 1) : Shifted(f)
    BY <1>3 DEF Shift, ListInv
  <2>3. ASSUME spc = "return", Held PROVE Held'
    <3>1. PICK a \in DOMAIN list : list[a] = Me /\ a <= i + 2
      BY <2>3
    <3>2. CASE i = wj
      <4>1. wj + 1 \in 0 .. (size - 1) /\ wj + 2 \in DOMAIN list /\ wj \in Index
        BY <2>1, <2>2, ListFacts DEF Shifted, Index, TypeInv
      <4>2. proc'[i] = proc[wj + 1] /\ proc[wj + 1] = list[(wj + 1) + 1]
        BY <2>1, <2>2, <3>2, <4>1, ListFacts DEF Shifted, TypeInv
      <4>3. list[wj + 2] \in {Me} \cup later
        BY <3>1, <3>2, <4>1, ListFacts DEF BehindInv
      <4>4. proc'[i] \in {Me} \cup later
        BY <4>2, <4>3 DEF TypeInv
      <4>5. QED
        BY <2>1, <3>1, <4>4
    <3>3. CASE i # wj
      <4>1. proc'[i] = proc[i]
        BY <2>1, <2>3, <3>3 DEF TypeInv, CallInv
      <4>2. QED
        BY <2>1, <2>3, <4>1
    <3>4. QED
      BY <3>2, <3>3
  <2>4. QED
    BY <1>1, <2>1, <2>3
<1>4. CASE Shrink
  <2>1. UNCHANGED << proc, later, spc, i, found, touched, phantom >> /\ wpc # "idle"
    BY <1>4 DEF Shrink, resultVars
  <2>2. ASSUME spc = "return", Held PROVE Held'
    <3>1. PICK a \in DOMAIN list : list[a] = Me /\ a <= i + 2
      BY <2>2
    <3>2. wp # Me
      BY <2>1, <2>2 DEF CallInv, InCall
    <3>3. PICK f \in 1 .. size :
             /\ list[f] = wp
             /\ \A k \in 1 .. (size - 1) :
                   list'[k] = IF k < f THEN list[k] ELSE list[k + 1]
      BY <1>4, ShrinkEffect
    <3>4. DOMAIN list' = 1 .. (size - 1)
      <4>1. list' \in Seq(Pcb) /\ Len(list') = size - 1
        BY <1>4, ShrinkEffect
      <4>2. QED
        BY <4>1
    <3>5. a # f /\ a \in 1 .. size
      BY <3>1, <3>2, <3>3, ListFacts
    <3>6. CASE a < f
      <4>1. a \in 1 .. (size - 1) /\ list'[a] = Me
        BY <3>1, <3>3, <3>5, <3>6, ListFacts
      <4>2. QED
        BY <2>1, <2>2, <3>1, <3>4, <4>1
    <3>7. CASE a > f
      <4>1. a - 1 \in 1 .. (size - 1) /\ list'[a - 1] = list[(a - 1) + 1]
        BY <3>3, <3>5, <3>7, ListFacts
      <4>2. list'[a - 1] = Me /\ a - 1 <= i + 2
        BY <3>1, <3>5, <4>1, ListFacts DEF CallInv
      <4>3. QED
        BY <2>1, <2>2, <3>4, <4>1, <4>2
    <3>8. QED
      BY <3>5, <3>6, <3>7, ListFacts
  <2>3. QED
    BY <1>1, <2>1, <2>2
<1>5. CASE Store
  <2>1. /\ UNCHANGED << list, spc, i, found, touched, phantom >> /\ wpc # "idle"
        /\ proc' = [proc EXCEPT ![size] = wp]
        /\ later' = IF wp = Me THEN {} ELSE later \cup {wp}
    BY <1>5 DEF Store, resultVars
  <2>2. InCall => wp # Me /\ later' = later \cup {wp}
    BY <2>1 DEF CallInv
  <2>3. ASSUME spc = "return", Held PROVE Held'
    <3>1. proc'[i] = proc[i] \/ proc'[i] = wp
      BY <2>1, <2>3 DEF TypeInv, CallInv
    <3>2. QED
      BY <2>1, <2>2, <2>3, <3>1 DEF InCall
  <2>4. QED
    BY <1>1, <2>1, <2>2, <2>3
<1>6. CASE Grow
  <2>1. UNCHANGED << proc, later, spc, i, found, touched, phantom >>
    BY <1>6 DEF Grow, resultVars
  <2>2. \A k \in 1 .. size : list'[k] = list[k]
    BY <1>6, GrowEffect
  <2>3. DOMAIN list' = 1 .. (size + 1)
    <3>1. list' \in Seq(Pcb) /\ Len(list') = size + 1
      BY <1>6, GrowEffect
    <3>2. QED
      BY <3>1
  <2>4. ASSUME spc = "return", Held PROVE Held'
    <3>1. PICK a \in DOMAIN list : list[a] = Me /\ a <= i + 2
      BY <2>4
    <3>2. a \in DOMAIN list' /\ list'[a] = Me
      BY <2>2, <2>3, <3>1, ListFacts
    <3>3. QED
      BY <2>1, <2>4, <3>1, <3>2
  <2>5. QED
    BY <1>1, <2>1, <2>4
<1>7. CASE Call \/ TestSize \/ TestNull
  <2>1. /\ UNCHANGED << proc, list, later, found, touched, phantom >>
        /\ \/ spc = "idle" /\ spc' = "size"
           \/ spc = "size" /\ spc' \in {"null", "back"}
           \/ spc = "null" /\ spc' \in {"size", "pid"}
    BY <1>7 DEF Call, TestSize, TestNull, Goto, listVars, resultVars
  <2>2. QED
    BY <2>1 DEF MatchInv
<1>8. CASE TestPid
  <2>1. /\ UNCHANGED << proc, list, later, found, touched >> /\ spc = "pid"
        /\ found = NULL /\ touched = {}
    BY <1>8 DEF TestPid, listVars, MatchInv
  <2>2. CASE PidIs /\ spc' = "return" /\ UNCHANGED i
             /\ phantom' = (state[proc[i]] = "free")
    <3> SUFFICES ASSUME ~ phantom' PROVE Held'
      BY <2>1, <2>2 DEF MatchInv
    <3>1. proc[i] = Me /\ i \in Index
      BY <2>1, <2>2 DEF PidIs, CallInv
    <3>2. Me \in Elems(list)
      BY <2>1, <3>1 DEF BehindInv, CallInv, InCall
    <3>3. PICK a \in 1 .. size : list[a] = Me
      BY <3>2, ListFacts
    <3>4. a <= i + 2
      <4>1. CASE i >= size
        BY <3>1, <3>3, <4>1, ListFacts DEF Index
      <4>2. CASE i < size
        <5>1. i \in 0 .. (size - 1)
          BY <3>1, <4>2, ListFacts DEF Index
        <5>2. \A b \in 1 .. size : list[b] = Me => b = a
          BY <3>3, ListFacts DEF ListInv, NoDup
        <5>3. CASE proc[i] = list[i + 1]
          BY <3>1, <5>1, <5>2, <5>3, ListFacts
        <5>4. CASE proc[i] = list[i + 2] /\ i + 2 <= size
          BY <3>1, <5>1, <5>2, <5>4, ListFacts
        <5>5. CASE wpc = "shift"
          <6>1. PICK f \in 0 .. (size - 1) : Shifted(f)
            BY <5>5 DEF ListInv
          <6>2. CASE f <= i /\ i < wj
            BY <5>1, <5>4, <6>1, <6>2, ListFacts DEF Shifted
          <6>3. CASE ~ (f <= i /\ i < wj)
            BY <5>1, <5>3, <6>1, <6>3 DEF Shifted
          <6>4. QED
            BY <6>2, <6>3
        <5>6. CASE wpc # "shift"
          BY <5>1, <5>3, <5>6 DEF ListInv
        <5>7. QED
          BY <5>5, <5>6
      <4>3. QED
        BY <3>1, <4>1, <4>2, ListFacts DEF Index
    <3>5. QED
      BY <2>1, <2>2, <3>1, <3>3, <3>4, ListFacts
  <2>3. CASE spc' = "size"
    BY <2>1, <2>3 DEF MatchInv
  <2>4. QED
    BY <1>8, <2>2, <2>3 DEF TestPid, PidIsNot
<1>9. CASE Return
  <2>1. /\ UNCHANGED << later, touched, phantom >> /\ spc = "return"
        /\ spc' = "back" /\ found' = proc[i]
    BY <1>9 DEF Return, Goto, listVars
  <2>2. QED
    BY <2>1 DEF MatchInv
<1>10. CASE Fail
  <2>1. UNCHANGED << found, touched, phantom >> /\ spc = "back" /\ spc' = "done"
    BY <1>10 DEF Fail, Goto, resultVars
  <2>2. QED
    BY <2>1 DEF MatchInv
<1>11. CASE Serve
  <2>1. /\ UNCHANGED << later, found, phantom >> /\ spc = "back" /\ spc' = "done"
        /\ found # NULL /\ touched' \subseteq {found}
    BY <1>11 DEF Serve, Goto, listVars
  <2>2. ~ phantom => found \in {Me} \cup later
    BY <2>1 DEF MatchInv
  <2>3. phantom' \/ touched' \subseteq {Me} \cup later'
    BY <2>1, <2>2
  <2>4. QED
    BY <2>1, <2>3 DEF MatchInv
<1>12. CASE Leave
  BY <1>12 DEF Leave, Goto, MatchInv
<1>13. QED
  BY <1>2, <1>3, <1>4, <1>5, <1>6, <1>7, <1>8, <1>9, <1>10, <1>11, <1>12
     DEF Next, Write, Search, Load, Exit, StartPurge, StartGet, vars,
         listVars, writerVars, resultVars

-----------------------------------------------------------------------------
LEMMA MemmapInductive == Spec => []MInv
<1>1. ASSUME MInv, [Next]_vars PROVE MInv'
  BY <1>1, ListStep, CallStep, AheadStep, BehindStep, MatchStep DEF MInv
<1>2. QED
  BY <1>1, InitInv, PTL DEF Spec

\* For any pcbs, cpus and capacity: whenever queue_lock is free, the array of
\* running_list is the sequence that Queue's operators compute, although
\* purgequeue and enqueue reach it in single stores (queue.c:47).
THEOREM ArrayCorrect == Spec => []ArrayIsQueue
<1>1. MInv => ArrayIsQueue
  BY DEF MInv, ListInv, ArrayIsQueue
<1>2. QED
  BY <1>1, MemmapInductive, PTL

\* For any pcbs, cpus and capacity: find_pcb_by_pid finds its caller among
\* unlocked changes of the list unless the caller's entry moved under it.
THEOREM SearchFinds == Spec => []UnmovedIsFound
<1>1. MInv => UnmovedIsFound
  BY DEF MInv, AheadInv, UnmovedIsFound, InCall
<1>2. QED
  BY <1>1, MemmapInductive, PTL

\* For any pcbs, cpus and capacity: a search that goes wrong returns a process
\* dispatched after its caller.
THEOREM WrongIsLater == Spec => []OnlyLaterTouched
<1>1. MInv => OnlyLaterTouched
  BY DEF MInv, MatchInv, OnlyLaterTouched
<1>2. QED
  BY <1>1, MemmapInductive, PTL
=============================================================================
