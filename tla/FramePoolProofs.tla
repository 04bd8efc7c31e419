--------------------------- MODULE FramePoolProofs ---------------------------
(***************************************************************************)
(* Theorems of FramePool for any threads and any number of frames.         *)
(***************************************************************************)
EXTENDS FramePool, TLAPS

\* Every frame before the node a thread holds has been returned; its own,
\* once the thread has read it.
HeldInv ==
    \A t \in Thread :
        /\ tpc[t] # "idle" => \A f \in Frame : f < fp[t] => takes[f] > 0
        /\ tpc[t] \in {"next", "free"} => takes[fp[t]] > 0

\* Frames before `given' were returned once, the others never.
ReturnedUpTo(given) ==
    \A f \in Frame : takes[f] = IF f < given THEN 1 ELSE 0

\* The list between two statements of the only thread that is in a call.
AloneAt(t) ==
    /\ tpc[t] = "fpn" => /\ fp[t] = free_fp_list
                         /\ ReturnedUpTo(fp[t])
    /\ tpc[t] = "next" => /\ fp[t] = free_fp_list
                          /\ ReturnedUpTo(fp[t] + 1)
    /\ tpc[t] = "free" => /\ fp[t] + 1 = free_fp_list
                          /\ ReturnedUpTo(fp[t] + 1)
    /\ freed = {f \in Frame : f < fp[t]}

AloneInv ==
    ~ overlapped =>
        /\ ~ fault
        /\ \A t, u \in Thread : tpc[t] # "idle" /\ tpc[u] # "idle" => t = u
        /\ \A t \in Thread : tpc[t] # "idle" => AloneAt(t)
        /\ (\A t \in Thread : tpc[t] = "idle") =>
              /\ ReturnedUpTo(free_fp_list)
              /\ freed = {f \in Frame : f < free_fp_list}

PoolInv == TypeOK /\ NoneSkipped /\ HeldInv /\ AloneInv

-----------------------------------------------------------------------------
LEMMA InitPool == Init => PoolInv
<1> SUFFICES ASSUME Init PROVE PoolInv
  OBVIOUS
<1> USE FramePoolAssumption DEF Init, Frame, NULL
<1>1. TypeOK
  <2>1. fault \in BOOLEAN /\ overlapped \in BOOLEAN
    OBVIOUS
  <2>2. free_fp_list \in Frame /\ takes \in [Frame -> Nat]
    OBVIOUS
  <2>3. tpc \in [Thread -> {"idle", "fpn", "next", "free"}]
    OBVIOUS
  <2>4. fp \in [Thread -> Frame \cup {NULL}]
    OBVIOUS
  <2>5. \A t \in Thread : tpc[t] = "idle"
    OBVIOUS
  <2>6. freed \subseteq {f \in Frame : takes[f] > 0}
    OBVIOUS
  <2>7. QED
    BY <2>1, <2>2, <2>3, <2>4, <2>5, <2>6 DEF TypeOK
<1>2. NoneSkipped
  BY DEF NoneSkipped
<1>3. HeldInv
  BY DEF HeldInv
<1>4. ReturnedUpTo(free_fp_list) /\ freed = {f \in Frame : f < free_fp_list}
  BY DEF ReturnedUpTo
<1>5. AloneInv
  BY <1>4 DEF AloneInv
<1>6. QED
  BY <1>1, <1>2, <1>3, <1>5 DEF PoolInv

\* Where a thread stands decides what it may do: nothing, once a freed node
\* has been used.
LEMMA SharedStep ==
  ASSUME TypeOK, NoneSkipped, HeldInv, [Next]_vars
  PROVE  TypeOK' /\ NoneSkipped' /\ HeldInv'
<1> USE FramePoolAssumption DEF Frame, NULL, At
<1>1. ASSUME NEW t \in Thread, Enter(t)
      PROVE  TypeOK' /\ NoneSkipped' /\ HeldInv'
  <2>1. TypeOK'
    BY <1>1 DEF Enter, TypeOK
  <2>2. NoneSkipped' /\ HeldInv'
    BY <1>1 DEF Enter, TypeOK, NoneSkipped, HeldInv
  <2>3. QED
    BY <2>1, <2>2
<1>2. ASSUME NEW t \in Thread, ReadFpn(t)
      PROVE  TypeOK' /\ NoneSkipped' /\ HeldInv'
  <2>1. /\ tpc[t] = "fpn" /\ tpc' = [tpc EXCEPT ![t] = "next"]
        /\ UNCHANGED << free_fp_list, freed, fp, overlapped >>
    BY <1>2 DEF ReadFpn
  <2>2. fp[t] \in Frame
    BY <2>1 DEF TypeOK
  <2>3. CASE fp[t] \in freed /\ fault' = TRUE /\ UNCHANGED takes
    <3>1. takes[fp[t]] > 0
      BY <2>3 DEF TypeOK
    <3>2. TypeOK'
      BY <2>1, <2>3 DEF TypeOK
    <3>3. QED
      BY <2>1, <2>3, <3>1, <3>2 DEF TypeOK, NoneSkipped, HeldInv
  <2>4. CASE takes' = [takes EXCEPT ![fp[t]] = @ + 1] /\ UNCHANGED fault
    <3>1. TypeOK'
      BY <2>1, <2>2, <2>4 DEF TypeOK
    <3>2. \A f \in Frame : takes[f] > 0 => takes'[f] > 0
      BY <2>2, <2>4 DEF TypeOK
    <3>3. takes'[fp[t]] > 0
      BY <2>2, <2>4 DEF TypeOK
    <3>4. NoneSkipped'
      BY <2>1, <3>2 DEF NoneSkipped
    <3>5. ASSUME NEW u \in Thread, tpc'[u] # "idle", NEW f \in Frame, f < fp'[u]
          PROVE  takes'[f] > 0
      BY <2>1, <3>2, <3>5 DEF TypeOK, HeldInv
    <3>6. ASSUME NEW u \in Thread, tpc'[u] \in {"next", "free"}
          PROVE  takes'[fp'[u]] > 0
      BY <2>1, <3>2, <3>3, <3>6 DEF TypeOK, HeldInv
    <3>7. QED
      BY <3>1, <3>4, <3>5, <3>6 DEF HeldInv
  <2>5. QED
    BY <1>2, <2>3, <2>4 DEF ReadFpn
<1>3. ASSUME NEW t \in Thread, Unlink(t)
      PROVE  TypeOK' /\ NoneSkipped' /\ HeldInv'
  <2>1. /\ tpc[t] = "next" /\ tpc' = [tpc EXCEPT ![t] = "free"]
        /\ UNCHANGED << freed, fp, takes, overlapped >> /\ fp[t] \in Frame
    BY <1>3 DEF Unlink, TypeOK
  <2>2. CASE fault' = TRUE /\ UNCHANGED free_fp_list
    <3>1. fault' \in BOOLEAN /\ overlapped' \in BOOLEAN
      BY <2>1, <2>2 DEF TypeOK
    <3>2. tpc' \in [Thread -> {"idle", "fpn", "next", "free"}]
      BY <2>1 DEF TypeOK
    <3>3. TypeOK'
      BY <2>1, <2>2, <3>1, <3>2 DEF TypeOK
    <3>4. NoneSkipped'
      BY <2>1, <2>2 DEF NoneSkipped
    <3>5. HeldInv'
      BY <2>1, <3>2 DEF TypeOK, HeldInv
    <3>6. QED
      BY <3>3, <3>4, <3>5
  <2>3. CASE free_fp_list' = fp[t] + 1 /\ UNCHANGED fault
    <3>1. TypeOK'
      <4>1. fault' \in BOOLEAN /\ overlapped' \in BOOLEAN
        BY <2>1, <2>3 DEF TypeOK
      <4>2. free_fp_list' \in Frame \cup {NULL}
        BY <2>1, <2>3, FramePoolAssumption DEF Frame, NULL
      <4>3. tpc' \in [Thread -> {"idle", "fpn", "next", "free"}]
        BY <2>1 DEF TypeOK
      <4>4. QED
        BY <2>1, <4>1, <4>2, <4>3 DEF TypeOK
    <3>2. \A f \in Frame : f <= fp[t] => takes[f] > 0
      BY <2>1 DEF HeldInv
    <3>3. NoneSkipped'
      BY <2>1, <2>3, <3>2 DEF NoneSkipped
    <3>4. HeldInv'
      BY <2>1 DEF HeldInv, TypeOK
    <3>5. QED
      BY <3>1, <3>3, <3>4
  <2>4. QED
    BY <1>3, <2>2, <2>3 DEF Unlink, fp_next
<1>4. ASSUME NEW t \in Thread, FreeNode(t)
      PROVE  TypeOK' /\ NoneSkipped' /\ HeldInv'
  <2>1. /\ tpc[t] = "free" /\ tpc' = [tpc EXCEPT ![t] = "idle"]
        /\ UNCHANGED << free_fp_list, fp, takes, overlapped >> /\ fp[t] \in Frame
    BY <1>4 DEF FreeNode, TypeOK
  <2>2. NoneSkipped' /\ HeldInv'
    BY <2>1 DEF NoneSkipped, HeldInv, TypeOK
  <2>3. CASE fault' = TRUE /\ UNCHANGED freed
    BY <2>1, <2>2, <2>3 DEF TypeOK
  <2>4. CASE freed' = freed \cup {fp[t]} /\ UNCHANGED fault
    <3>1. takes[fp[t]] > 0
      BY <2>1 DEF HeldInv
    <3>2. TypeOK'
      BY <2>1, <2>4, <3>1 DEF TypeOK
    <3>3. QED
      BY <2>2, <3>2
  <2>5. QED
    BY <1>4, <2>3, <2>4 DEF FreeNode
<1>5. CASE UNCHANGED vars
  BY <1>5 DEF vars, TypeOK, NoneSkipped, HeldInv
<1>6. QED
  BY <1>1, <1>2, <1>3, <1>4, <1>5 DEF Next

\* A thread that is alone finds the list as its last statement left it.
LEMMA AloneStep ==
  ASSUME TypeOK, AloneInv, [Next]_vars
  PROVE  AloneInv'
<1> USE FramePoolAssumption DEF Frame, NULL, At
<1>1. ASSUME NEW t \in Thread, Enter(t) PROVE AloneInv'
  <2> SUFFICES ASSUME ~ overlapped' PROVE AloneInv'
    BY DEF AloneInv
  <2>1. /\ ~ overlapped /\ \A u \in Thread : tpc[u] = "idle"
        /\ UNCHANGED << free_fp_list, freed, fault, takes >>
        /\ tpc' = [tpc EXCEPT ![t] = "fpn"]
        /\ fp' = [fp EXCEPT ![t] = free_fp_list]
    BY <1>1 DEF Enter
  <2>2. ~ fault /\ ReturnedUpTo(free_fp_list)
        /\ freed = {f \in Frame : f < free_fp_list}
    BY <2>1 DEF AloneInv
  <2>3. \A u \in Thread : tpc'[u] = IF u = t THEN "fpn" ELSE "idle"
    BY <2>1 DEF TypeOK
  <2>4. fp'[t] = free_fp_list
    BY <2>1 DEF TypeOK
  <2>5. AloneAt(t)'
    BY <2>1, <2>2, <2>3, <2>4 DEF AloneAt, ReturnedUpTo
  <2>6. QED
    BY <2>1, <2>2, <2>3, <2>5 DEF AloneInv
<1>2. ASSUME NEW t \in Thread, ReadFpn(t) PROVE AloneInv'
  <2> SUFFICES ASSUME ~ overlapped' PROVE AloneInv'
    BY DEF AloneInv
  <2>1. /\ ~ overlapped /\ tpc[t] = "fpn"
        /\ tpc' = [tpc EXCEPT ![t] = "next"]
        /\ UNCHANGED << free_fp_list, freed, fp, overlapped >> /\ fp[t] \in Frame
    BY <1>2 DEF ReadFpn, TypeOK
  <2>2. /\ ~ fault /\ AloneAt(t) /\ \A u \in Thread : tpc[u] # "idle" => u = t
    BY <2>1 DEF AloneInv
  <2>3. fp[t] = free_fp_list /\ ReturnedUpTo(fp[t]) /\ fp[t] \notin freed
    BY <2>1, <2>2 DEF AloneAt
  <2>4. takes' = [takes EXCEPT ![fp[t]] = @ + 1] /\ fault' = fault
    BY <1>2, <2>3 DEF ReadFpn
  <2>5. ReturnedUpTo(fp[t] + 1)'
    BY <2>1, <2>3, <2>4 DEF ReturnedUpTo, TypeOK
  <2>6. \A u \in Thread : tpc'[u] = IF u = t THEN "next" ELSE tpc[u]
    BY <2>1 DEF TypeOK
  <2>7. AloneAt(t)'
    BY <2>1, <2>2, <2>3, <2>5, <2>6 DEF AloneAt
  <2>8. QED
    BY <2>1, <2>2, <2>4, <2>6, <2>7 DEF AloneInv
<1>3. ASSUME NEW t \in Thread, Unlink(t) PROVE AloneInv'
  <2> SUFFICES ASSUME ~ overlapped' PROVE AloneInv'
    BY DEF AloneInv
  <2>1. /\ ~ overlapped /\ tpc[t] = "next"
        /\ tpc' = [tpc EXCEPT ![t] = "free"]
        /\ UNCHANGED << freed, fp, takes, overlapped >> /\ fp[t] \in Frame
    BY <1>3 DEF Unlink, TypeOK
  <2>2. /\ ~ fault /\ AloneAt(t) /\ \A u \in Thread : tpc[u] # "idle" => u = t
    BY <2>1 DEF AloneInv
  <2>3. ReturnedUpTo(fp[t] + 1) /\ freed = {f \in Frame : f < fp[t]}
    BY <2>1, <2>2 DEF AloneAt
  <2>4. free_fp_list' = fp[t] + 1 /\ fault' = fault
    BY <1>3, <2>1, <2>3 DEF Unlink, fp_next
  <2>5. \A u \in Thread : tpc'[u] = IF u = t THEN "free" ELSE tpc[u]
    BY <2>1 DEF TypeOK
  <2>6. AloneAt(t)'
    BY <2>1, <2>3, <2>4, <2>5 DEF AloneAt, ReturnedUpTo
  <2>7. QED
    BY <2>1, <2>2, <2>4, <2>5, <2>6 DEF AloneInv
<1>4. ASSUME NEW t \in Thread, FreeNode(t) PROVE AloneInv'
  <2> SUFFICES ASSUME ~ overlapped' PROVE AloneInv'
    BY DEF AloneInv
  <2>1. /\ ~ overlapped /\ tpc[t] = "free"
        /\ tpc' = [tpc EXCEPT ![t] = "idle"]
        /\ UNCHANGED << free_fp_list, fp, takes, overlapped >> /\ fp[t] \in Frame
    BY <1>4 DEF FreeNode, TypeOK
  <2>2. /\ ~ fault /\ AloneAt(t) /\ \A u \in Thread : tpc[u] # "idle" => u = t
    BY <2>1 DEF AloneInv
  <2>3. /\ fp[t] + 1 = free_fp_list /\ ReturnedUpTo(fp[t] + 1)
        /\ freed = {f \in Frame : f < fp[t]}
    BY <2>1, <2>2 DEF AloneAt
  <2>4. freed' = freed \cup {fp[t]} /\ fault' = fault
    BY <1>4, <2>1, <2>3 DEF FreeNode
  <2>5. \A u \in Thread : tpc'[u] = "idle"
    BY <2>1, <2>2 DEF TypeOK
  <2>6. ReturnedUpTo(free_fp_list)' /\ freed' = {f \in Frame : f < free_fp_list'}
    BY <2>1, <2>3, <2>4 DEF ReturnedUpTo
  <2>7. QED
    BY <2>2, <2>4, <2>5, <2>6 DEF AloneInv
<1>5. CASE UNCHANGED vars
  BY <1>5 DEF vars, AloneInv, AloneAt, ReturnedUpTo
<1>6. QED
  BY <1>1, <1>2, <1>3, <1>4, <1>5 DEF Next

LEMMA PoolInductive == Spec => []PoolInv
<1>1. ASSUME PoolInv, [Next]_vars PROVE PoolInv'
  BY <1>1, SharedStep, AloneStep DEF PoolInv
<1>2. QED
  BY <1>1, InitPool, PTL DEF Spec

\* For any threads and frames: however calls of MEMPHY_get_freefp overlap, no
\* frame is lost (mm-memphy.c:153).
THEOREM NoFrameLost == Spec => []NoneSkipped
<1>1. PoolInv => NoneSkipped
  BY DEF PoolInv
<1>2. QED
  BY <1>1, PoolInductive, PTL

\* For any threads and frames: as long as calls do not overlap, a frame is
\* given out once and no freed node is used.
THEOREM AloneIsSound == Spec => []SoundAlone
<1>1. ASSUME TypeOK, AloneInv PROVE SoundAlone
  <2> SUFFICES ASSUME ~ overlapped PROVE HandedOutOnce /\ ~ fault
    BY DEF SoundAlone
  <2>1. CASE \A t \in Thread : tpc[t] = "idle"
    BY <1>1, <2>1 DEF AloneInv, ReturnedUpTo, HandedOutOnce
  <2>2. ASSUME NEW t \in Thread, tpc[t] # "idle"
        PROVE  HandedOutOnce /\ ~ fault
    <3>1. AloneAt(t) /\ ~ fault /\ tpc[t] \in {"fpn", "next", "free"}
      BY <1>1, <2>2 DEF AloneInv, TypeOK
    <3>2. QED
      BY <3>1 DEF AloneAt, ReturnedUpTo, HandedOutOnce
  <2>3. QED
    BY <2>1, <2>2
<1>2. PoolInv => SoundAlone
  BY <1>1 DEF PoolInv
<1>3. QED
  BY <1>2, PoolInductive, PTL
=============================================================================
