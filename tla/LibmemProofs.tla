---------------------------- MODULE LibmemProofs ----------------------------
(***************************************************************************)
(* Proofs about Libmem, for any registers, sizes and length of program.    *)
(* The inductive invariant adds to the type that every region carries the  *)
(* number of a request already made, so that a fresh request overlaps      *)
(* nothing.                                                                *)
(***************************************************************************)
EXTENDS Libmem, TLAPS, SequenceTheorems

Tagged ==
    /\ \A r \in Reg : symrgtbl[r].grab <= Len(grabSize)
    /\ \A i \in DOMAIN vm_freerg_list : vm_freerg_list[i].grab <= Len(grabSize)

LInv == TypeOK /\ Tagged /\ NoOverlap /\ NoDeadNodes

\* What is left of a region after size bytes are taken from its front.
Rest(rg, size) == [rg EXCEPT !.start = @ + size]

LEMMA RestFacts ==
  ASSUME NEW rg \in Region, NEW size \in Nat
  PROVE  /\ Rest(rg, size) \in Region
         /\ Rest(rg, size).start = rg.start + size
         /\ Rest(rg, size).end = rg.end
         /\ Rest(rg, size).grab = rg.grab
<1>1. rg.start \in Nat /\ rg.end \in Nat /\ rg.grab \in Nat
  BY DEF Region
<1>2. rg.start + size \in Nat
  BY <1>1
<1>3. Rest(rg, size) = [start |-> rg.start + size, end |-> rg.end, grab |-> rg.grab]
  BY DEF Rest, Region
<1>4. QED
  BY <1>1, <1>2, <1>3 DEF Region

\* Taking out the i-th node of a list: what is left, and where it was.
LEMMA Unlinked ==
  ASSUME NEW s \in Seq(Region), NEW i \in 1 .. Len(s)
  PROVE  /\ RemoveAt(s, i) \in Seq(Region)
         /\ DOMAIN RemoveAt(s, i) = 1 .. (Len(s) - 1)
         /\ Len(RemoveAt(s, i)) = Len(s) - 1
         /\ \A j \in 1 .. (Len(s) - 1) :
               RemoveAt(s, i)[j] = IF j < i THEN s[j] ELSE s[j + 1]
<1> DEFINE front == SubSeq(s, 1, i - 1)
           back == SubSeq(s, i + 1, Len(s))
<1>1. /\ front \in Seq(Region) /\ Len(front) = i - 1
      /\ \A j \in 1 .. (i - 1) : front[j] = s[j]
  BY SubSeqProperties
<1>2. /\ back \in Seq(Region) /\ Len(back) = Len(s) - i
      /\ \A j \in 1 .. (Len(s) - i) : back[j] = s[i + j]
  BY SubSeqProperties
<1>3. RemoveAt(s, i) = front \o back
  BY DEF RemoveAt
<1> HIDE DEF front, back
<1>4. /\ front \o back \in Seq(Region)
      /\ Len(front \o back) = Len(front) + Len(back)
      /\ \A j \in 1 .. (Len(front) + Len(back)) :
            (front \o back)[j] = IF j <= Len(front) THEN front[j] ELSE back[j - Len(front)]
  BY <1>1, <1>2, ConcatProperties
<1>5. QED
  BY <1>1, <1>2, <1>3, <1>4

\* The list after space is carved from its i-th node: either the node keeps
\* what is left of it, or it was used up, was not the last, and is gone.
LEMMA CarvedCases ==
  ASSUME NEW s \in Seq(Region), NEW i \in DOMAIN s, NEW size \in Nat,
         Fits(s[i], size)
  PROVE  \/ Carved(s, i, size) = [s EXCEPT ![i] = Rest(s[i], size)]
         \/ /\ UsedUp(s[i], size) /\ i < Len(s)
            /\ Carved(s, i, size) = RemoveAt(s, i)
<1>1. i \in 1 .. Len(s) /\ s[i] \in Region
  OBVIOUS
<1>2. CASE ~UsedUp(s[i], size)
  BY <1>1, <1>2 DEF Carved, Rest
<1>3. CASE UsedUp(s[i], size) /\ i < Len(s)
  BY <1>3 DEF Carved
<1>4. CASE UsedUp(s[i], size) /\ ~(i < Len(s))
  <2>1. Carved(s, i, size) = [s EXCEPT ![i].start = s[i].end]
    BY <1>4 DEF Carved
  <2>2. [s[i] EXCEPT !.start = s[i].end] = Rest(s[i], size)
    BY <1>1, <1>4 DEF Rest, UsedUp, Region
  <2>3. QED
    BY <2>1, <2>2
<1>5. QED
  BY <1>2, <1>3, <1>4

\* Every node of the carved list is a node of the old one, in the same order;
\* the i-th gave up its front, and is still there only if it has space or was last.
LEMMA CarvedNodes ==
  ASSUME NEW s \in Seq(Region), NEW i \in DOMAIN s, NEW size \in Nat,
         Fits(s[i], size), NEW t, t = Carved(s, i, size)
  PROVE  /\ t \in Seq(Region) \ {<< >>}
         /\ \E at \in [DOMAIN t -> DOMAIN s] :
               /\ \A j, k \in DOMAIN t : j < k => at[j] < at[k]
               /\ \A j \in DOMAIN t :
                     /\ at[j] # i => t[j] = s[at[j]]
                     /\ at[j] = i => /\ t[j] = Rest(s[i], size)
                                     /\ i < Len(s) => ~UsedUp(s[i], size)
<1>1. i \in 1 .. Len(s) /\ DOMAIN s = 1 .. Len(s) /\ Len(s) \in Nat /\ s[i] \in Region
  OBVIOUS
<1>2. Rest(s[i], size) \in Region
  BY <1>1, RestFacts
<1>3. CASE ~(UsedUp(s[i], size) /\ i < Len(s))
  <2>1. t = [s EXCEPT ![i] = Rest(s[i], size)]
    BY <1>3, CarvedCases
  <2>2. t \in Seq(Region) /\ DOMAIN t = DOMAIN s /\ Len(t) = Len(s)
    BY <2>1, <1>1, <1>2
  <2>3. t # << >>
    BY <2>2, <1>1
  <2>4. \A j \in DOMAIN t : t[j] = IF j = i THEN Rest(s[i], size) ELSE s[j]
    BY <2>1, <2>2, <1>1
  <2> DEFINE at == [j \in DOMAIN t |-> j]
  <2>5. at \in [DOMAIN t -> DOMAIN s] /\ \A j \in DOMAIN t : at[j] = j
    BY <2>2
  <2> HIDE DEF at
  <2>6. \A j, k \in DOMAIN t : j < k => at[j] < at[k]
    BY <2>5
  <2>7. \A j \in DOMAIN t :
           /\ at[j] # i => t[j] = s[at[j]]
           /\ at[j] = i => /\ t[j] = Rest(s[i], size)
                           /\ i < Len(s) => ~UsedUp(s[i], size)
    BY <1>3, <2>4, <2>5
  <2>8. QED
    BY <2>2, <2>3, <2>5, <2>6, <2>7
<1>4. CASE UsedUp(s[i], size) /\ i < Len(s)
  <2>1. t = RemoveAt(s, i)
    BY <1>4, CarvedCases DEF Carved
  <2>2. /\ t \in Seq(Region) /\ DOMAIN t = 1 .. (Len(s) - 1) /\ Len(t) = Len(s) - 1
        /\ \A j \in 1 .. (Len(s) - 1) : t[j] = IF j < i THEN s[j] ELSE s[j + 1]
    BY <2>1, <1>1, Unlinked
  <2> DEFINE at == [j \in DOMAIN t |-> IF j < i THEN j ELSE j + 1]
  <2>3. t # << >>
    BY <2>2, <1>1, <1>4
  <2>4. \A j \in DOMAIN t : at[j] \in DOMAIN s /\ at[j] = IF j < i THEN j ELSE j + 1
    BY <2>2, <1>1
  <2>5. at \in [DOMAIN t -> DOMAIN s]
    BY <2>4
  <2> HIDE DEF at
  <2>6. \A j, k \in DOMAIN t : j < k => at[j] < at[k]
    BY <2>2, <2>4, <1>1
  <2>7. \A j \in DOMAIN t : at[j] # i /\ t[j] = s[at[j]]
    BY <2>2, <2>4, <1>1
  <2>8. QED
    BY <2>2, <2>3, <2>5, <2>6, <2>7
<1>5. QED
  BY <1>3, <1>4

-----------------------------------------------------------------------------
(* The invariant *)

\* c is a piece of b.
PartOf(c, b) ==
    c.grab = b.grab /\ b.start <= c.start /\ c.start <= c.end /\ c.end <= b.end

\* Pieces of regions that do not overlap do not overlap.
LEMMA PartsApart ==
  ASSUME NEW a \in Region, NEW b \in Region, NEW c \in Region, NEW d \in Region,
         Apart(a, b), PartOf(c, a), PartOf(d, b)
  PROVE  Apart(c, d)
BY DEF Apart, PartOf, Region

LEMMA InvInit == Init => LInv
<1> SUFFICES ASSUME Init PROVE LInv
  OBVIOUS
<1> USE DEF Init, init_mm, NoRegion
<1>1. NoRegion \in Region /\ Apart(NoRegion, NoRegion)
  BY DEF Region, Apart
<1>2. /\ vm_freerg_list \in Seq(Region) /\ DOMAIN vm_freerg_list = 1 .. 1
      /\ Len(vm_freerg_list) = 1 /\ vm_freerg_list[1] = NoRegion
      /\ vm_freerg_list # << >>
  BY <1>1
<1>3. TypeOK
  <2>1. symrgtbl \in [Reg -> Region]
    BY <1>1
  <2>2. \A i \in DOMAIN vm_freerg_list : vm_freerg_list[i] = NoRegion
    BY <1>2
  <2>3. grabSize \in Seq(Nat) /\ pc \in Nat /\ fault \in BOOLEAN
    <3>1. grabSize \in Seq(Nat) /\ pc \in Nat
      OBVIOUS
    <3>2. fault \in BOOLEAN
      BY Zenon
    <3>3. QED
      BY <3>1, <3>2
  <2>4. \A r \in Reg : symrgtbl[r] = NoRegion
    OBVIOUS
  <2>5. tail \in {"NULL", "wild"}
    OBVIOUS
  <2>6. NoRegion.start <= NoRegion.end
    OBVIOUS
  <2> HIDE DEF Init, init_mm, NoRegion
  <2>7. QED
    BY <1>2, <2>1, <2>2, <2>3, <2>4, <2>5, <2>6 DEF TypeOK
<1>4. Tagged /\ NoDeadNodes
  BY <1>2 DEF Tagged, NoDeadNodes
<1>5. NoOverlap
  BY <1>1, <1>2 DEF NoOverlap
<1>6. QED
  BY <1>3, <1>4, <1>5 DEF LInv

\* Space given out from the list is cut from one node and from nothing else.
LEMMA AllocFromListKeeps ==
  ASSUME LInv, NEW rgid \in Reg, NEW size \in Size, AllocFromList(rgid, size)
  PROVE  LInv'
<1> USE DEF LInv
<1>1. /\ symrgtbl \in [Reg -> Region] /\ vm_freerg_list \in Seq(Region)
      /\ grabSize \in Seq(Nat) /\ pc \in Nat /\ size \in Nat
  BY LibmemAssumption DEF TypeOK
<1>2. PICK i \in DOMAIN vm_freerg_list :
         /\ FirstFit(i, size)
         /\ Names(rgid, [vm_freerg_list[i] EXCEPT !.end = vm_freerg_list[i].start + size])
         /\ vm_freerg_list' = Carved(vm_freerg_list, i, size)
  BY DEF AllocFromList
<1> DEFINE old == vm_freerg_list
           new == vm_freerg_list'
           got == [old[i] EXCEPT !.end = old[i].start + size]
<1>3. old[i] \in Region /\ Fits(old[i], size)
  BY <1>1, <1>2 DEF FirstFit, Fitting
<1>4. /\ got \in Region /\ PartOf(got, old[i])
      /\ got.start <= got.end /\ got.end = old[i].start + size
  <2>1. old[i].start \in Nat /\ old[i].end \in Nat /\ old[i].grab \in Nat
    BY <1>3 DEF Region
  <2>2. old[i].start + size \in Nat
    BY <2>1, <1>1
  <2>3. got = [start |-> old[i].start, end |-> old[i].start + size, grab |-> old[i].grab]
    BY <1>3 DEF Region
  <2> HIDE DEF got
  <2>4. QED
    <3>1. /\ got.start = old[i].start /\ got.end = old[i].start + size
          /\ got.grab = old[i].grab
      BY <2>3
    <3>2. got \in Region
      BY <2>1, <2>2, <2>3 DEF Region
    <3>3. old[i].start <= old[i].start + size /\ old[i].start + size <= old[i].end
      BY <2>1, <1>1, <1>3 DEF Fits
    <3>4. QED
      BY <2>1, <3>1, <3>2, <3>3 DEF PartOf
<1>5. PICK at \in [DOMAIN new -> DOMAIN old] :
         /\ \A j, k \in DOMAIN new : j < k => at[j] < at[k]
         /\ \A j \in DOMAIN new :
               /\ at[j] # i => new[j] = old[at[j]]
               /\ at[j] = i => /\ new[j] = Rest(old[i], size)
                               /\ i < Len(old) => ~UsedUp(old[i], size)
  <2>1. /\ old \in Seq(Region) /\ i \in DOMAIN old /\ size \in Nat
        /\ Fits(old[i], size)
        /\ new = Carved(old, i, size)
    BY <1>1, <1>2, <1>3
  <2> HIDE DEF old, new, got
  <2>2. QED
    BY <2>1, CarvedNodes
<1>6. new \in Seq(Region) \ {<< >>}
  BY <1>1, <1>2, <1>3, CarvedNodes
<1>17. /\ Rest(old[i], size) \in Region
       /\ Rest(old[i], size).start = old[i].start + size
       /\ Rest(old[i], size).end = old[i].end
       /\ Rest(old[i], size).grab = old[i].grab
  BY <1>1, <1>3, RestFacts
<1>18. /\ old[i].start \in Nat /\ old[i].end \in Nat /\ old[i].grab \in Nat
       /\ old[i].start + size <= old[i].end
  BY <1>3 DEF Region, Fits
<1>7. symrgtbl' = [symrgtbl EXCEPT ![rgid] = got]
  BY <1>2 DEF Names
<1>8. UNCHANGED << tail, fault, grabSize >> /\ pc' = pc + 1
  BY DEF AllocFromList, Executes
<1> HIDE DEF old, new, got
<1>9. /\ DOMAIN old = 1 .. Len(old) /\ Len(old) \in Nat
      /\ DOMAIN new = 1 .. Len(new) /\ Len(new) \in Nat
      /\ \A m \in DOMAIN old : old[m] \in Region /\ old[m].start <= old[m].end
      /\ \A j \in DOMAIN new : new[j] \in Region
      /\ i \in DOMAIN old
  BY <1>1, <1>6 DEF TypeOK, old
<1>10. \A j \in DOMAIN new : at[j] \in DOMAIN old /\ PartOf(new[j], old[at[j]])
  <2> SUFFICES ASSUME NEW j \in DOMAIN new
               PROVE  at[j] \in DOMAIN old /\ PartOf(new[j], old[at[j]])
    OBVIOUS
  <2>1. at[j] \in DOMAIN old
    BY <1>5
  <2>2. CASE at[j] # i
    <3>1. new[j] = old[at[j]]
      BY <2>2, <1>5
    <3>2. QED
      BY <3>1, <2>1, <1>9 DEF PartOf, Region
  <2>3. CASE at[j] = i
    <3>1. new[j] = Rest(old[i], size)
      BY <2>3, <1>5
    <3>2. QED
      BY <3>1, <2>1, <2>3, <1>1, <1>17, <1>18 DEF PartOf
  <2>4. QED
    BY <2>2, <2>3
<1>11. \A j \in DOMAIN new : at[j] = i => new[j].start = got.end
  BY <1>4, <1>5, <1>17
<1>12. TypeOK'
  <2>1. symrgtbl' \in [Reg -> Region]
    BY <1>1, <1>4, <1>7
  <2>2. \A r \in Reg : symrgtbl'[r].start <= symrgtbl'[r].end
    BY <1>1, <1>4, <1>7 DEF TypeOK
  <2>3. \A j \in DOMAIN new : new[j].start <= new[j].end
    BY <1>10 DEF PartOf
  <2>4. pc' \in Nat
    BY <1>1, <1>8
  <2>5. QED
    BY <1>6, <1>8, <2>1, <2>2, <2>3, <2>4 DEF TypeOK, new
<1>13. Tagged'
  <2>1. \A r \in Reg : symrgtbl'[r].grab <= Len(grabSize)
    BY <1>1, <1>4, <1>7, <1>9 DEF Tagged, PartOf, old
  <2>2. \A j \in DOMAIN new : new[j].grab <= Len(grabSize)
    BY <1>10 DEF Tagged, PartOf, old
  <2>3. QED
    BY <1>8, <2>1, <2>2 DEF Tagged, new
<1>14. NoOverlap'
  <2>1. \A m, n \in DOMAIN old : m # n => Apart(old[m], old[n])
    BY DEF NoOverlap, old
  <2>2. \A r \in Reg, m \in DOMAIN old :
           Apart(symrgtbl[r], old[m])
    BY DEF NoOverlap, old
  <2>12. ASSUME NEW r \in Reg PROVE PartOf(symrgtbl[r], symrgtbl[r])
    <3>1. symrgtbl[r] \in Region /\ symrgtbl[r].start <= symrgtbl[r].end
      BY <1>1 DEF TypeOK
    <3> DEFINE rg == symrgtbl[r]
    <3>2. rg.start \in Nat /\ rg.end \in Nat /\ rg.grab \in Nat /\ rg.start <= rg.end
      BY <3>1 DEF Region
    <3> HIDE DEF rg
    <3>3. PartOf(rg, rg)
      BY <3>2 DEF PartOf
    <3>4. QED
      BY <3>3 DEF rg
  <2>3. \A r \in Reg \ {rgid} : symrgtbl'[r] = symrgtbl[r] /\ symrgtbl[r] \in Region
    BY <1>1, <1>7
  <2>4. symrgtbl'[rgid] = got
    BY <1>1, <1>7
  <2>5. \A j, k \in DOMAIN new : j # k => Apart(new[j], new[k])
    <3> SUFFICES ASSUME NEW j \in DOMAIN new, NEW k \in DOMAIN new, j # k
                 PROVE  Apart(new[j], new[k])
      OBVIOUS
    <3>1. at[j] # at[k] /\ at[j] \in DOMAIN old /\ at[k] \in DOMAIN old
      BY <1>5, <1>9, <1>10
    <3>2. QED
      BY <3>1, <2>1, <1>9, <1>10, PartsApart
  <2>6. \A r \in Reg \ {rgid} : Apart(symrgtbl[r], got) /\ Apart(got, symrgtbl[r])
    <3> SUFFICES ASSUME NEW r \in Reg \ {rgid}
                 PROVE  Apart(symrgtbl[r], got) /\ Apart(got, symrgtbl[r])
      OBVIOUS
    <3>1. Apart(symrgtbl[r], got)
      BY <2>2, <2>12, <2>3, <1>3, <1>4, <1>9, PartsApart
    <3>2. QED
      BY <3>1, <2>3, <1>4 DEF Apart, Region
  <2>7. \A r \in Reg \ {rgid}, j \in DOMAIN new : Apart(symrgtbl[r], new[j])
    BY <2>2, <2>12, <2>3, <1>9, <1>10, PartsApart
  <2>8. \A j \in DOMAIN new : Apart(got, new[j])
    <3> SUFFICES ASSUME NEW j \in DOMAIN new PROVE Apart(got, new[j])
      OBVIOUS
    <3>1. CASE at[j] = i
      BY <3>1, <1>4, <1>9, <1>10, <1>11 DEF Apart, Region
    <3>2. CASE at[j] # i
      BY <3>2, <2>1, <1>3, <1>4, <1>9, <1>10, PartsApart
    <3>3. QED
      BY <3>1, <3>2
  <2>9. \A r, q \in Reg : r # q => Apart(symrgtbl'[r], symrgtbl'[q])
    BY <2>3, <2>4, <2>6 DEF NoOverlap
  <2>10. \A r \in Reg, j \in DOMAIN new : Apart(symrgtbl'[r], new[j])
    BY <2>3, <2>4, <2>7, <2>8
  <2>11. QED
    BY <2>5, <2>9, <2>10 DEF NoOverlap, Apart, new
<1>15. NoDeadNodes'
  <2> SUFFICES ASSUME NEW j \in DOMAIN new, j < Len(new)
               PROVE  new[j].start < new[j].end
    BY DEF NoDeadNodes, new
  <2>1. at[j] < Len(old) /\ at[j] \in DOMAIN old
    <3>1. j + 1 \in DOMAIN new /\ j < j + 1
      BY <1>9
    <3>2. at[j] < at[j + 1] /\ at[j + 1] \in DOMAIN old /\ at[j] \in DOMAIN old
      BY <3>1, <1>5
    <3>3. QED
      BY <3>2, <1>9
  <2>2. CASE at[j] = i
    <3>1. ~UsedUp(old[i], size) /\ new[j] = Rest(old[i], size)
      BY <2>1, <2>2, <1>5
    <3>2. old[i].start + size # old[i].end
      BY <3>1 DEF UsedUp
    <3>3. \A a, b \in Nat : a <= b /\ a # b => a < b
      OBVIOUS
    <3>4. old[i].start + size \in Nat
      BY <1>1, <1>18
    <3>5. QED
      BY <3>1, <3>2, <3>3, <3>4, <1>17, <1>18
  <2>3. CASE at[j] # i
    BY <2>1, <2>3, <1>5 DEF NoDeadNodes, old
  <2>4. QED
    BY <2>2, <2>3
<1>16. QED
  BY <1>12, <1>13, <1>14, <1>15

\* A region requested at sbrk carries a number no other region has.
LEMMA AllocAtSbrkKeeps ==
  ASSUME LInv, NEW rgid \in Reg, NEW size \in Size, AllocAtSbrk(rgid, size)
  PROVE  LInv'
<1> DEFINE got == [start |-> 0, end |-> size, grab |-> Len(grabSize) + 1]
<1>1. /\ symrgtbl \in [Reg -> Region] /\ vm_freerg_list \in Seq(Region)
      /\ grabSize \in Seq(Nat) /\ pc \in Nat /\ size \in Nat
  BY LibmemAssumption DEF LInv, TypeOK
<1>2. /\ grabSize' \in Seq(Nat) /\ Len(grabSize') = Len(grabSize) + 1
      /\ Len(grabSize) \in Nat
  BY <1>1 DEF AllocAtSbrk
<1>3. got \in Region /\ got.start = 0 /\ got.end = size /\ got.grab = Len(grabSize) + 1
  BY <1>1, <1>2 DEF Region
<1>4. symrgtbl' = [symrgtbl EXCEPT ![rgid] = got]
  <2>1. sbrk + size = size
    BY <1>1 DEF sbrk
  <2>2. QED
    BY <1>2, <2>1 DEF AllocAtSbrk, Names, sbrk
<1>5. UNCHANGED << vm_freerg_list, tail, fault >> /\ pc' = pc + 1
  BY DEF AllocAtSbrk, Executes
<1> HIDE DEF got
<1>6. symrgtbl'[rgid] = got /\ \A r \in Reg \ {rgid} : symrgtbl'[r] = symrgtbl[r]
  BY <1>1, <1>4
<1>7. TypeOK'
  <2>1. symrgtbl' \in [Reg -> Region] /\ pc' \in Nat
    BY <1>1, <1>3, <1>4, <1>5
  <2>2. \A r \in Reg : symrgtbl'[r].start <= symrgtbl'[r].end
    BY <1>1, <1>3, <1>6 DEF LInv, TypeOK
  <2>3. QED
    BY <1>2, <1>5, <2>1, <2>2 DEF LInv, TypeOK
<1>8. \A r \in Reg : symrgtbl[r].grab \in Nat /\ symrgtbl[r].grab <= Len(grabSize)
  BY <1>1 DEF LInv, Tagged, Region
<1>9. \A i \in DOMAIN vm_freerg_list :
         /\ vm_freerg_list[i].grab \in Nat
         /\ vm_freerg_list[i].grab <= Len(grabSize)
  <2>1. \A i \in DOMAIN vm_freerg_list : vm_freerg_list[i] \in Region
    BY <1>1
  <2>2. QED
    BY <2>1 DEF LInv, Tagged, Region
<1>10. Tagged'
  BY <1>2, <1>3, <1>5, <1>6, <1>8, <1>9 DEF Tagged
<1>11. NoOverlap'
  <2>1. \A r \in Reg : Apart(got, symrgtbl[r]) /\ Apart(symrgtbl[r], got)
    BY <1>2, <1>3, <1>8 DEF Apart
  <2>2. \A i \in DOMAIN vm_freerg_list : Apart(got, vm_freerg_list[i])
    BY <1>2, <1>3, <1>9 DEF Apart
  <2>3. \A r, q \in Reg : r # q => Apart(symrgtbl'[r], symrgtbl'[q])
    BY <1>6, <2>1 DEF LInv, NoOverlap
  <2>4. \A r \in Reg, i \in DOMAIN vm_freerg_list : Apart(symrgtbl'[r], vm_freerg_list[i])
    BY <1>6, <2>2 DEF LInv, NoOverlap
  <2>5. QED
    BY <1>5, <2>3, <2>4 DEF LInv, NoOverlap, Apart
<1>12. NoDeadNodes'
  BY <1>5 DEF LInv, NoDeadNodes
<1>13. QED
  BY <1>7, <1>10, <1>11, <1>12 DEF LInv

\* A region put at the head of the list is one a register held until now.
LEMMA FreeKeeps ==
  ASSUME LInv, NEW rgid \in Reg, Free(rgid)
  PROVE  LInv'
<1> DEFINE old == vm_freerg_list
           new == vm_freerg_list'
           rg == symrgtbl[rgid]
<1>1. /\ symrgtbl \in [Reg -> Region] /\ old \in Seq(Region) \ {<< >>}
      /\ grabSize \in Seq(Nat) /\ pc \in Nat /\ rg \in Region
      /\ DOMAIN old = 1 .. Len(old) /\ Len(old) \in Nat
  BY DEF LInv, TypeOK
<1>2. NoRegion \in Region /\ NoRegion.start = 0 /\ NoRegion.end = 0 /\ NoRegion.grab = 0
  BY DEF NoRegion, Region
<1>3. /\ symrgtbl' = [symrgtbl EXCEPT ![rgid] = NoRegion]
      /\ UNCHANGED << tail, fault, grabSize, lost >> /\ pc' = pc + 1
      /\ new = Enlist(rg)
  BY DEF Free, Executes
<1>4. symrgtbl'[rgid] = NoRegion /\ \A r \in Reg \ {rgid} : symrgtbl'[r] = symrgtbl[r]
  BY <1>1, <1>3
<1>5. \/ new = old
      \/ /\ rg.start < rg.end
         /\ new = << rg >> \o old
  <2>1. rg.start \in Nat /\ rg.end \in Nat
    BY <1>1 DEF Region
  <2>2. CASE rg.start >= rg.end
    BY <1>3, <2>2 DEF Enlist
  <2>3. CASE ~(rg.start >= rg.end)
    BY <1>3, <2>1, <2>3 DEF Enlist, Cons
  <2>4. QED
    BY <2>2, <2>3
<1> HIDE DEF old, new, rg
<1>6. /\ new \in Seq(Region) \ {<< >>}
      /\ \/ new = old
         \/ /\ rg.start < rg.end /\ Len(new) = Len(old) + 1 /\ new[1] = rg
            /\ \A i \in DOMAIN new : i # 1 => i - 1 \in DOMAIN old /\ new[i] = old[i - 1]
  <2>1. CASE new = old
    BY <2>1, <1>1
  <2>2. CASE rg.start < rg.end /\ new = << rg >> \o old
    <3>1. << rg >> \in Seq(Region) /\ Len(<< rg >>) = 1 /\ << rg >>[1] = rg
      BY <1>1
    <3>2. /\ new \in Seq(Region) /\ Len(new) = 1 + Len(old)
          /\ \A i \in 1 .. (1 + Len(old)) :
                new[i] = IF i <= 1 THEN << rg >>[i] ELSE old[i - 1]
      BY <1>1, <2>2, <3>1, ConcatProperties
    <3>3. DOMAIN new = 1 .. (1 + Len(old)) /\ new # << >>
      BY <1>1, <3>2
    <3>4. new[1] = rg /\ Len(new) = Len(old) + 1
      BY <1>1, <3>1, <3>2
    <3>5. ASSUME NEW i \in DOMAIN new, i # 1
          PROVE  i - 1 \in DOMAIN old /\ new[i] = old[i - 1]
      <4>1. i \in 1 .. (1 + Len(old)) /\ ~(i <= 1)
        BY <3>3, <3>5, <1>1
      <4>2. new[i] = old[i - 1]
        BY <3>2, <4>1
      <4>3. QED
        BY <1>1, <4>1, <4>2
    <3>6. QED
      BY <2>2, <3>2, <3>3, <3>4, <3>5
  <2>3. QED
    BY <1>5, <2>1, <2>2
<1>7. \A i \in DOMAIN new :
         \/ i \in DOMAIN old /\ new = old
         \/ i = 1 /\ new[i] = rg /\ rg.start < rg.end
         \/ i # 1 /\ i - 1 \in DOMAIN old /\ new[i] = old[i - 1] /\ Len(new) = Len(old) + 1
  BY <1>6
<1>8. DOMAIN new = 1 .. Len(new) /\ Len(new) \in Nat
  BY <1>6
<1>9. TypeOK'
  <2>1. symrgtbl' \in [Reg -> Region] /\ pc' \in Nat
    BY <1>1, <1>2, <1>3
  <2>2. \A r \in Reg : symrgtbl'[r].start <= symrgtbl'[r].end
    BY <1>1, <1>2, <1>4 DEF LInv, TypeOK
  <2>3. \A i \in DOMAIN new : new[i].start <= new[i].end
    BY <1>1, <1>7 DEF LInv, TypeOK, Region, old, rg
  <2>4. QED
    BY <1>3, <1>6, <2>1, <2>2, <2>3 DEF LInv, TypeOK, new
<1>10. Tagged'
  <2>1. Len(grabSize) \in Nat /\ rg.grab <= Len(grabSize)
    BY <1>1 DEF LInv, Tagged, rg
  <2>2. \A i \in DOMAIN new : new[i].grab <= Len(grabSize)
    BY <1>7, <2>1 DEF LInv, Tagged, old
  <2>3. \A r \in Reg : symrgtbl'[r].grab <= Len(grabSize)
    BY <1>2, <1>4, <2>1 DEF LInv, Tagged
  <2>4. QED
    BY <1>3, <2>2, <2>3 DEF Tagged, new
<1>11. NoOverlap'
  <2>1. \A x \in Region : Apart(NoRegion, x) /\ Apart(x, NoRegion)
    BY <1>2 DEF Apart, Region
  <2>2. \A i, j \in DOMAIN old : i # j => Apart(old[i], old[j])
    BY DEF LInv, NoOverlap, old
  <2>3. \A r \in Reg, i \in DOMAIN old : Apart(symrgtbl[r], old[i])
    BY DEF LInv, NoOverlap, old
  <2>4. \A i \in DOMAIN old : Apart(rg, old[i]) /\ Apart(old[i], rg)
    <3>1. \A i \in DOMAIN old : Apart(rg, old[i]) /\ old[i] \in Region
      BY <2>3, <1>1 DEF rg
    <3>2. QED
      BY <3>1, <1>1 DEF Apart, Region
  <2>5. \A i, j \in DOMAIN new : i # j => Apart(new[i], new[j])
    <3> SUFFICES ASSUME NEW i \in DOMAIN new, NEW j \in DOMAIN new, i # j
                 PROVE  Apart(new[i], new[j])
      OBVIOUS
    <3>1. i \in Nat /\ j \in Nat
      BY <1>8
    <3>2. CASE new = old
      BY <2>2, <3>2
    <3>3. CASE i = 1 /\ new # old
      BY <1>7, <2>4, <3>1, <3>3
    <3>4. CASE j = 1 /\ new # old
      BY <1>7, <2>4, <3>1, <3>4
    <3>5. CASE i # 1 /\ j # 1 /\ new # old
      BY <1>7, <2>2, <3>1, <3>5
    <3>6. QED
      BY <3>2, <3>3, <3>4, <3>5
  <2>6. \A r \in Reg \ {rgid}, i \in DOMAIN new : Apart(symrgtbl[r], new[i])
    <3>1. \A r \in Reg \ {rgid} : Apart(symrgtbl[r], rg)
      BY DEF LInv, NoOverlap, rg
    <3>2. QED
      BY <1>7, <2>3, <3>1
  <2>7. \A r, q \in Reg : r # q => Apart(symrgtbl'[r], symrgtbl'[q])
    BY <1>1, <1>4, <2>1 DEF LInv, NoOverlap
  <2>8. \A r \in Reg, i \in DOMAIN new : Apart(symrgtbl'[r], new[i])
    <3>1. \A i \in DOMAIN new : new[i] \in Region
      BY <1>6
    <3>2. QED
      BY <1>4, <2>1, <2>6, <3>1
  <2>9. QED
    BY <2>5, <2>7, <2>8 DEF NoOverlap, Apart, new
<1>12. NoDeadNodes'
  <2> SUFFICES ASSUME NEW i \in DOMAIN new, i < Len(new)
               PROVE  new[i].start < new[i].end
    BY DEF NoDeadNodes, new
  <2>1. \A j \in DOMAIN old : j < Len(old) => old[j].start < old[j].end
    BY DEF LInv, NoDeadNodes, old
  <2>2. CASE new = old
    BY <2>1, <2>2
  <2>3. CASE i = 1 /\ new # old
    BY <1>7, <2>3
  <2>4. CASE i # 1 /\ new # old
    <3>1. i - 1 \in DOMAIN old /\ new[i] = old[i - 1] /\ Len(new) = Len(old) + 1
      BY <1>7, <2>4
    <3>2. i - 1 < Len(old)
      BY <1>1, <1>8, <3>1
    <3>3. QED
      BY <2>1, <3>1, <3>2
  <2>5. QED
    BY <2>2, <2>3, <2>4
<1>13. QED
  BY <1>9, <1>10, <1>11, <1>12 DEF LInv

LEMMA InvNext == LInv /\ [Next]_vars => LInv'
<1> SUFFICES ASSUME LInv, [Next]_vars PROVE LInv'
  OBVIOUS
<1>1. ASSUME NEW rgid \in Reg, NEW size \in Size, AllocFromList(rgid, size)
      PROVE  LInv'
  BY <1>1, AllocFromListKeeps
<1>2. ASSUME NEW rgid \in Reg, NEW size \in Size, AllocAtSbrk(rgid, size)
      PROVE  LInv'
  BY <1>2, AllocAtSbrkKeeps
<1>3. ASSUME NEW size \in Size, AllocWild(size)
      PROVE  LInv'
  <2>1. /\ UNCHANGED << symrgtbl, vm_freerg_list, tail, grabSize >>
        /\ fault' = TRUE /\ pc' = pc + 1
    BY <1>3 DEF AllocWild, Executes
  <2>2. fault' \in BOOLEAN
    BY <2>1, Zenon
  <2>3. pc' \in Nat
    BY <2>1 DEF LInv, TypeOK
  <2>4. TypeOK'
    BY <2>1, <2>2, <2>3 DEF LInv, TypeOK
  <2>5. QED
    BY <2>1, <2>4 DEF LInv, Tagged, NoOverlap, NoDeadNodes, Apart
<1>4. ASSUME NEW rgid \in Reg, Free(rgid)
      PROVE  LInv'
  BY <1>4, FreeKeeps
<1>5. ASSUME NEW rgid \in Reg, FreeNothing(rgid)
      PROVE  LInv'
  <2>1. UNCHANGED << symrgtbl, vm_freerg_list, tail, fault, grabSize >> /\ pc' = pc + 1
    BY <1>5 DEF FreeNothing, Executes
  <2>2. TypeOK'
    BY <2>1 DEF LInv, TypeOK
  <2>3. QED
    BY <2>1, <2>2 DEF LInv, Tagged, NoOverlap, NoDeadNodes, Apart
<1>6. CASE UNCHANGED vars
  BY <1>6 DEF vars, LInv, TypeOK, Tagged, NoOverlap, NoDeadNodes, Apart
<1>7. QED
  BY <1>1, <1>2, <1>3, <1>4, <1>5, <1>6 DEF Next, Alloc

LEMMA Invariance == Spec => []LInv
BY InvInit, InvNext, PTL DEF Spec

\* alloc and free keep regions well formed and the free list inhabited.
THEOREM RegionsWellFormed == Spec => []TypeOK
<1>1. LInv => TypeOK
  BY DEF LInv
<1>2. QED
  BY <1>1, Invariance, PTL

\* Whatever a program allocates and frees, no byte of one request at sbrk is
\* in two regions: registers and free list partition it.
THEOREM RegionsNeverOverlap == Spec => []NoOverlap
<1>1. LInv => NoOverlap
  BY DEF LInv
<1>2. QED
  BY <1>1, Invariance, PTL

\* Empty nodes do not pile up on the free list.
THEOREM FreeListStaysUseful == Spec => []NoDeadNodes
<1>1. LInv => NoDeadNodes
  BY DEF LInv
<1>2. QED
  BY <1>1, Invariance, PTL

-----------------------------------------------------------------------------
(* Every byte is somewhere *)

ListBytes(s) == UNION {Bytes(s[i]) : i \in DOMAIN s}

LEMMA ListByte ==
  ASSUME NEW s, NEW x
  PROVE  x \in ListBytes(s) <=> \E i \in DOMAIN s : x \in Bytes(s[i])
BY DEF ListBytes

LEMMA RegionByte ==
  ASSUME NEW rg \in Region, NEW x
  PROVE  x \in Bytes(rg) <=>
            \E b \in Nat : x = <<rg.grab, b>> /\ rg.start <= b /\ b < rg.end
<1>1. rg.start \in Nat /\ rg.end \in Nat
  BY DEF Region
<1>2. \A b : b \in rg.start .. (rg.end - 1) <=> b \in Nat /\ rg.start <= b /\ b < rg.end
  BY <1>1
<1>3. QED
  BY <1>2 DEF Bytes

\* What is handed out and what is left make up the region.
LEMMA SplitBytes ==
  ASSUME NEW rg \in Region, NEW size \in Nat, Fits(rg, size)
  PROVE  /\ [rg EXCEPT !.end = rg.start + size] \in Region
         /\ Rest(rg, size) \in Region
         /\ Bytes(rg) = Bytes([rg EXCEPT !.end = rg.start + size]) \cup Bytes(Rest(rg, size))
         /\ UsedUp(rg, size) => Bytes(Rest(rg, size)) = {}
<1> DEFINE got == [rg EXCEPT !.end = rg.start + size]
           rest == Rest(rg, size)
<1>1. /\ rg.start \in Nat /\ rg.end \in Nat /\ rg.grab \in Nat
      /\ rg.start + size \in Nat /\ rg.start + size <= rg.end
  BY DEF Region, Fits
<1>2. /\ rest \in Region /\ rest.start = rg.start + size
      /\ rest.end = rg.end /\ rest.grab = rg.grab
  BY RestFacts
<1>3. /\ got \in Region /\ got.start = rg.start
      /\ got.end = rg.start + size /\ got.grab = rg.grab
  BY <1>1 DEF Region
<1> HIDE DEF got, rest
<1>4. ASSUME NEW x
      PROVE  x \in Bytes(rg) <=> x \in Bytes(got) \/ x \in Bytes(rest)
  <2>1. x \in Bytes(rg) <=>
           \E b \in Nat : x = <<rg.grab, b>> /\ rg.start <= b /\ b < rg.end
    BY RegionByte
  <2>2. x \in Bytes(got) <=>
           \E b \in Nat : x = <<rg.grab, b>> /\ rg.start <= b /\ b < rg.start + size
    BY <1>3, RegionByte
  <2>3. x \in Bytes(rest) <=>
           \E b \in Nat : x = <<rg.grab, b>> /\ rg.start + size <= b /\ b < rg.end
    BY <1>2, RegionByte
  <2>4. ASSUME x \in Bytes(rg) PROVE x \in Bytes(got) \/ x \in Bytes(rest)
    <3>1. PICK b \in Nat : x = <<rg.grab, b>> /\ rg.start <= b /\ b < rg.end
      BY <2>1, <2>4
    <3>2. b < rg.start + size \/ rg.start + size <= b
      BY <1>1
    <3>3. QED
      BY <2>2, <2>3, <3>1, <3>2
  <2>5. ASSUME x \in Bytes(got) PROVE x \in Bytes(rg)
    <3>1. PICK b \in Nat : x = <<rg.grab, b>> /\ rg.start <= b /\ b < rg.start + size
      BY <2>2, <2>5
    <3>2. b < rg.end
      BY <1>1, <3>1
    <3>3. QED
      BY <2>1, <3>1, <3>2
  <2>6. ASSUME x \in Bytes(rest) PROVE x \in Bytes(rg)
    <3>1. PICK b \in Nat : x = <<rg.grab, b>> /\ rg.start + size <= b /\ b < rg.end
      BY <2>3, <2>6
    <3>2. rg.start <= b
      BY <1>1, <3>1
    <3>3. QED
      BY <2>1, <3>1, <3>2
  <2>7. QED
    BY <2>4, <2>5, <2>6
<1>5. ASSUME UsedUp(rg, size), NEW x \in Bytes(rest) PROVE FALSE
  <2>1. PICK b \in Nat : rest.start <= b /\ b < rest.end
    BY <1>2, <1>5, RegionByte
  <2>2. QED
    BY <1>1, <1>2, <1>5, <2>1 DEF UsedUp
<1>6. QED
  BY <1>2, <1>3, <1>4, <1>5 DEF got, rest

\* Carving moves bytes from the list to what is handed out, and nowhere else.
LEMMA CarvedBytes ==
  ASSUME NEW s \in Seq(Region), NEW i \in DOMAIN s, NEW size \in Nat,
         Fits(s[i], size)
  PROVE  ListBytes(s) = ListBytes(Carved(s, i, size))
                        \cup Bytes([s[i] EXCEPT !.end = s[i].start + size])
<1> DEFINE t == Carved(s, i, size)
           got == [s[i] EXCEPT !.end = s[i].start + size]
<1>1. i \in 1 .. Len(s) /\ DOMAIN s = 1 .. Len(s) /\ Len(s) \in Nat /\ s[i] \in Region
  OBVIOUS
<1>2. /\ Rest(s[i], size) \in Region
      /\ Bytes(s[i]) = Bytes(got) \cup Bytes(Rest(s[i], size))
      /\ UsedUp(s[i], size) => Bytes(Rest(s[i], size)) = {}
  BY <1>1, SplitBytes
<1>3. \/ t = [s EXCEPT ![i] = Rest(s[i], size)]
      \/ UsedUp(s[i], size) /\ i < Len(s) /\ t = RemoveAt(s, i)
  BY CarvedCases
<1> HIDE DEF t, got
<1>4. CASE t = [s EXCEPT ![i] = Rest(s[i], size)]
  <2>1. DOMAIN t = DOMAIN s /\ t[i] = Rest(s[i], size)
        /\ \A j \in DOMAIN s : j # i => t[j] = s[j]
    BY <1>1, <1>4
  <2>2. ASSUME NEW x PROVE x \in ListBytes(s) <=> x \in ListBytes(t) \/ x \in Bytes(got)
    BY <1>1, <1>2, <2>1, ListByte
  <2>3. QED
    BY <2>2 DEF t, got
<1>5. CASE UsedUp(s[i], size) /\ i < Len(s) /\ t = RemoveAt(s, i)
  <2>1. /\ DOMAIN t = 1 .. (Len(s) - 1)
        /\ \A j \in 1 .. (Len(s) - 1) : t[j] = IF j < i THEN s[j] ELSE s[j + 1]
    BY <1>1, <1>5, Unlinked
  <2>2. Bytes(s[i]) = Bytes(got)
    BY <1>2, <1>5
  <2>3. ASSUME NEW x, x \in ListBytes(s) PROVE x \in ListBytes(t) \/ x \in Bytes(got)
    <3>1. PICK j \in DOMAIN s : x \in Bytes(s[j])
      BY <2>3, ListByte
    <3>2. CASE j = i
      BY <2>2, <3>1, <3>2
    <3>3. CASE j < i
      <4>1. j \in DOMAIN t /\ t[j] = s[j]
        BY <1>1, <2>1, <3>3
      <4>2. QED
        BY <3>1, <4>1, ListByte
    <3>4. CASE j > i
      <4>1. j - 1 \in DOMAIN t /\ t[j - 1] = s[(j - 1) + 1] /\ (j - 1) + 1 = j
        BY <1>1, <2>1, <3>4
      <4>2. QED
        BY <3>1, <4>1, ListByte
    <3>5. QED
      BY <1>1, <3>2, <3>3, <3>4
  <2>4. ASSUME NEW x, x \in ListBytes(t) PROVE x \in ListBytes(s)
    <3>1. PICK j \in DOMAIN t : x \in Bytes(t[j])
      BY <2>4, ListByte
    <3>2. j \in DOMAIN s /\ j + 1 \in DOMAIN s
      BY <1>1, <2>1
    <3>3. QED
      BY <2>1, <3>1, <3>2, ListByte
  <2>5. Bytes(got) \subseteq ListBytes(s)
    BY <1>1, <2>2, ListByte
  <2>6. QED
    BY <2>3, <2>4, <2>5 DEF t, got
<1>6. QED
  BY <1>3, <1>4, <1>5

\* A register that takes a region gives its bytes to `lost'.
LEMMA NamesBytes ==
  ASSUME symrgtbl \in [Reg -> Region], NEW rgid \in Reg, NEW rg, Names(rgid, rg)
  PROVE  Held' \cup lost' = Held \cup lost \cup Bytes(rg)
<1>1. /\ symrgtbl'[rgid] = rg
      /\ \A r \in Reg \ {rgid} : symrgtbl'[r] = symrgtbl[r]
      /\ lost' = lost \cup Bytes(symrgtbl[rgid])
  BY DEF Names
<1>2. ASSUME NEW x
      PROVE  /\ x \in Held <=> \E r \in Reg : x \in Bytes(symrgtbl[r])
             /\ x \in Held' <=> \E r \in Reg : x \in Bytes(symrgtbl'[r])
  BY DEF Held, Bytes
<1>3. QED
  BY <1>1, <1>2

LInvBytes == LInv /\ NothingLeaks

\* A request the list can serve takes the bytes it names from those that wait.
LEMMA ListMoves ==
  ASSUME LInvBytes, NEW rgid \in Reg, NEW size \in Size, AllocFromList(rgid, size)
  PROVE  \E got \in Region :
            /\ got.end = got.start + size
            /\ Names(rgid, got)
            /\ Waiting = Waiting' \cup Bytes(got)
            /\ Grabbed' = Grabbed
<1>1. symrgtbl \in [Reg -> Region] /\ vm_freerg_list \in Seq(Region) /\ size \in Nat
  BY LibmemAssumption DEF LInvBytes, LInv, TypeOK
<1>2. PICK i \in DOMAIN vm_freerg_list :
        /\ FirstFit(i, size)
        /\ Names(rgid, [vm_freerg_list[i] EXCEPT !.end = vm_freerg_list[i].start + size])
        /\ vm_freerg_list' = Carved(vm_freerg_list, i, size)
  BY DEF AllocFromList
<1> DEFINE got == [vm_freerg_list[i] EXCEPT !.end = vm_freerg_list[i].start + size]
<1>3. Fits(vm_freerg_list[i], size) /\ vm_freerg_list[i] \in Region
  BY <1>1, <1>2 DEF FirstFit, Fitting
<1>4. ListBytes(vm_freerg_list) = ListBytes(Carved(vm_freerg_list, i, size)) \cup Bytes(got)
  BY <1>1, <1>3, CarvedBytes
<1>5. Waiting = ListBytes(vm_freerg_list) /\ Waiting' = ListBytes(vm_freerg_list')
  BY DEF Waiting, ListBytes
<1>6. got \in Region
  BY <1>1, <1>3, SplitBytes
<1>7. got.end = got.start + size
  BY <1>3 DEF Region
<1>8. Grabbed' = Grabbed
  BY DEF AllocFromList, Grabbed
<1> HIDE DEF got
<1>9. Waiting = Waiting' \cup Bytes(got)
  BY <1>2, <1>4, <1>5
<1>10. Names(rgid, got)
  BY <1>2 DEF got
<1>11. QED
  BY <1>6, <1>7, <1>8, <1>9, <1>10

LEMMA ListServes ==
  ASSUME LInvBytes, NEW rgid \in Reg, NEW size \in Size, AllocFromList(rgid, size)
  PROVE  NothingLeaks'
<1>1. PICK got \in Region : /\ Names(rgid, got)
                           /\ Waiting = Waiting' \cup Bytes(got)
                           /\ Grabbed' = Grabbed
  BY ListMoves
<1>2. symrgtbl \in [Reg -> Region]
  BY DEF LInvBytes, LInv, TypeOK
<1>3. Held' \cup lost' = Held \cup lost \cup Bytes(got)
  BY <1>1, <1>2, NamesBytes
<1>4. Grabbed = Held \cup Waiting \cup lost
  BY DEF LInvBytes, NothingLeaks
<1>5. Grabbed' = Held' \cup Waiting' \cup lost'
  BY <1>1, <1>3, <1>4
<1>6. QED
  BY <1>5 DEF NothingLeaks

\* A request at sbrk hands out exactly the bytes it adds.
LEMMA SbrkMoves ==
  ASSUME LInvBytes, NEW rgid \in Reg, NEW size \in Size, AllocAtSbrk(rgid, size)
  PROVE  LET got == [start |-> sbrk, end |-> sbrk + size, grab |-> Len(grabSize) + 1]
         IN  /\ Names(rgid, got)
             /\ Bytes(got) = {<<Len(grabSize) + 1, b>> : b \in 0 .. (size - 1)}
             /\ Grabbed' = Grabbed \cup Bytes(got)
             /\ Waiting' = Waiting
<1> DEFINE got == [start |-> sbrk, end |-> sbrk + size, grab |-> Len(grabSize')]
<1>1. /\ symrgtbl \in [Reg -> Region] /\ size \in Nat /\ grabSize \in Seq(Nat)
      /\ grabSize' = Append(grabSize, size) /\ vm_freerg_list' = vm_freerg_list
      /\ Names(rgid, got)
  BY LibmemAssumption DEF LInvBytes, LInv, TypeOK, AllocAtSbrk
<1>2. /\ DOMAIN grabSize' = DOMAIN grabSize \cup {Len(grabSize')}
      /\ grabSize'[Len(grabSize')] = size
      /\ \A g \in DOMAIN grabSize : grabSize'[g] = grabSize[g]
  BY <1>1
<1>3. Bytes(got) = {<<Len(grabSize'), b>> : b \in 0 .. (grabSize'[Len(grabSize')] - 1)}
  BY <1>1, <1>2 DEF Bytes, sbrk
<1> HIDE DEF got
<1>5. Grabbed' = Grabbed \cup Bytes(got)
  <2> DEFINE Of(s, g) == {<<g, b>> : b \in 0 .. (s[g] - 1)}
  <2>1. /\ Grabbed = UNION {Of(grabSize, g) : g \in DOMAIN grabSize}
        /\ Grabbed' = UNION {Of(grabSize', g) : g \in DOMAIN grabSize'}
        /\ Bytes(got) = Of(grabSize', Len(grabSize'))
    BY <1>3 DEF Grabbed
  <2>2. \A g \in DOMAIN grabSize : Of(grabSize', g) = Of(grabSize, g)
    BY <1>2
  <2> HIDE DEF Of
  <2>3. QED
    BY <1>2, <2>1, <2>2
<1>6. Waiting' = Waiting
  BY <1>1 DEF Waiting
<1>7. Len(grabSize') = Len(grabSize) + 1
  BY <1>1
<1>8. QED
  BY <1>1, <1>2, <1>3, <1>5, <1>6, <1>7 DEF got

LEMMA SbrkServes ==
  ASSUME LInvBytes, NEW rgid \in Reg, NEW size \in Size, AllocAtSbrk(rgid, size)
  PROVE  NothingLeaks'
<1> DEFINE got == [start |-> sbrk, end |-> sbrk + size, grab |-> Len(grabSize) + 1]
<1>1. /\ Names(rgid, got)
      /\ Grabbed' = Grabbed \cup Bytes(got)
      /\ Waiting' = Waiting
  BY SbrkMoves
<1>2. symrgtbl \in [Reg -> Region]
  BY DEF LInvBytes, LInv, TypeOK
<1> HIDE DEF got
<1>3. Held' \cup lost' = Held \cup lost \cup Bytes(got)
  BY <1>1, <1>2, NamesBytes
<1>4. Grabbed = Held \cup Waiting \cup lost
  BY DEF LInvBytes, NothingLeaks
<1>5. Grabbed' = Held' \cup Waiting' \cup lost'
  BY <1>1, <1>3, <1>4
<1>6. QED
  BY <1>5 DEF NothingLeaks

\* A register freed has its bytes on the list, also when it had none.
LEMMA FreeMoves ==
  ASSUME LInvBytes, NEW rgid \in Reg, Free(rgid)
  PROVE  /\ Held = Held' \cup Bytes(symrgtbl[rgid])
         /\ Waiting' = Waiting \cup Bytes(symrgtbl[rgid])
         /\ Grabbed' = Grabbed /\ lost' = lost
<1> DEFINE rg == symrgtbl[rgid]
<1>1. /\ symrgtbl \in [Reg -> Region] /\ rg \in Region /\ vm_freerg_list \in Seq(Region)
      /\ vm_freerg_list' = Enlist(rg) /\ symrgtbl' = [symrgtbl EXCEPT ![rgid] = NoRegion]
      /\ grabSize' = grabSize /\ lost' = lost
  BY DEF LInvBytes, LInv, TypeOK, Free
<1>2. Bytes(NoRegion) = {}
  BY DEF Bytes, NoRegion
<1>3. Held = Held' \cup Bytes(rg)
  <2>1. symrgtbl'[rgid] = NoRegion /\ \A r \in Reg \ {rgid} : symrgtbl'[r] = symrgtbl[r]
    BY <1>1
  <2>2. Held = UNION {Bytes(symrgtbl[r]) : r \in Reg}
        /\ Held' = UNION {Bytes(symrgtbl'[r]) : r \in Reg}
    BY DEF Held, Bytes
  <2>3. QED
    BY <1>2, <2>1, <2>2
<1>4. Waiting = ListBytes(vm_freerg_list) /\ Waiting' = ListBytes(vm_freerg_list')
  BY DEF Waiting, ListBytes
<1> HIDE DEF rg
<1>5. Waiting' = Waiting \cup Bytes(rg)
  <2>1. CASE rg.start >= rg.end
    <3>1. Bytes(rg) = {}
      BY <1>1, <2>1 DEF Bytes, Region
    <3>2. vm_freerg_list' = vm_freerg_list
      BY <1>1, <2>1 DEF Enlist
    <3>3. QED
      BY <1>4, <3>1, <3>2
  <2>2. CASE ~(rg.start >= rg.end)
    <3>1. vm_freerg_list' = << rg >> \o vm_freerg_list
      BY <1>1, <2>2 DEF Enlist, Cons
    <3>2. /\ DOMAIN vm_freerg_list = 1 .. Len(vm_freerg_list) /\ Len(vm_freerg_list) \in Nat
          /\ DOMAIN vm_freerg_list' = 1 .. (Len(vm_freerg_list) + 1)
          /\ vm_freerg_list'[1] = rg
          /\ \A i \in DOMAIN vm_freerg_list : vm_freerg_list'[i + 1] = vm_freerg_list[i]
          /\ \A i \in DOMAIN vm_freerg_list' \ {1} :
                /\ i - 1 \in DOMAIN vm_freerg_list
                /\ vm_freerg_list'[i] = vm_freerg_list[i - 1]
      BY <1>1, <3>1
    <3>3. \A x : x \in Waiting' => x \in Waiting \/ x \in Bytes(rg)
      BY <1>4, <3>2, ListByte
    <3>4. \A x : x \in Waiting => x \in Waiting'
      <4> SUFFICES ASSUME NEW x, x \in Waiting PROVE x \in Waiting'
        OBVIOUS
      <4>1. PICK i \in DOMAIN vm_freerg_list : x \in Bytes(vm_freerg_list[i])
        BY <1>4, ListByte
      <4>2. i + 1 \in DOMAIN vm_freerg_list' /\ vm_freerg_list'[i + 1] = vm_freerg_list[i]
        BY <3>2
      <4>3. QED
        BY <1>4, <4>1, <4>2, ListByte
    <3>5. \A x : x \in Bytes(rg) => x \in Waiting'
      BY <1>4, <3>2, ListByte
    <3>6. QED
      BY <3>3, <3>4, <3>5
  <2>3. QED
    BY <2>1, <2>2
<1>6. Grabbed' = Grabbed
  BY <1>1 DEF Grabbed
<1>7. QED
  BY <1>1, <1>3, <1>5, <1>6 DEF rg

LEMMA FreeReturns ==
  ASSUME LInvBytes, NEW rgid \in Reg, Free(rgid)
  PROVE  NothingLeaks'
<1>1. Grabbed = Held \cup Waiting \cup lost
  BY DEF LInvBytes, NothingLeaks
<1>2. Grabbed' = Held' \cup Waiting' \cup lost'
  BY <1>1, FreeMoves
<1>3. QED
  BY <1>2 DEF NothingLeaks

LEMMA BytesInit == Init => LInvBytes
<1> SUFFICES ASSUME Init PROVE NothingLeaks
  BY InvInit DEF LInvBytes
<1>1. Bytes(NoRegion) = {}
  BY DEF Bytes, NoRegion
<1>2. Held = {} /\ lost = {}
  BY <1>1 DEF Init, init_mm, Held
<1>3. Waiting = {}
  BY <1>1 DEF Init, init_mm, Waiting
<1>4. Grabbed = {}
  BY DEF Init, Grabbed
<1>5. QED
  BY <1>2, <1>3, <1>4 DEF NothingLeaks

LEMMA BytesKept == LInvBytes /\ [Next]_vars => LInvBytes'
<1> SUFFICES ASSUME LInvBytes, [Next]_vars PROVE NothingLeaks'
  BY InvNext DEF LInvBytes
<1>1. ASSUME NEW rgid \in Reg, NEW size \in Size, Alloc(rgid, size) PROVE NothingLeaks'
  <2>1. CASE AllocFromList(rgid, size)
    BY <2>1, ListServes
  <2>2. CASE AllocAtSbrk(rgid, size)
    BY <2>2, SbrkServes
  <2>3. CASE AllocWild(size)
    BY <2>3 DEF AllocWild, LInvBytes, NothingLeaks, Grabbed, Held, Waiting, Bytes
  <2>4. QED
    BY <1>1, <2>1, <2>2, <2>3 DEF Alloc
<1>2. ASSUME NEW rgid \in Reg, Free(rgid) PROVE NothingLeaks'
  BY <1>2, FreeReturns
<1>3. ASSUME NEW rgid \in Reg, FreeNothing(rgid) PROVE NothingLeaks'
  BY <1>3 DEF FreeNothing, LInvBytes, NothingLeaks, Grabbed, Held, Waiting, Bytes
<1>4. CASE UNCHANGED vars
  BY <1>4 DEF vars, LInvBytes, NothingLeaks, Grabbed, Held, Waiting, Bytes
<1>5. QED
  BY <1>1, <1>2, <1>3, <1>4 DEF Next

\* alloc and free leak nothing: every byte ever requested is in a register, on
\* the free list, or was in a register the program allocated over.
THEOREM NoLeak == Spec => []NothingLeaks
<1>1. LInvBytes => NothingLeaks
  BY DEF LInvBytes
<1>2. QED
  BY <1>1, BytesInit, BytesKept, PTL DEF Spec

-----------------------------------------------------------------------------
(* The lists implement the heap *)

LEMMA BytesApart ==
  ASSUME NEW a \in Region, NEW b \in Region, Apart(a, b)
  PROVE  Bytes(a) \cap Bytes(b) = {}
<1> SUFFICES ASSUME NEW x, x \in Bytes(a), x \in Bytes(b) PROVE FALSE
  OBVIOUS
<1>1. PICK m \in Nat : x = <<a.grab, m>> /\ a.start <= m /\ m < a.end
  BY RegionByte
<1>2. PICK n \in Nat : x = <<b.grab, n>> /\ b.start <= n /\ n < b.end
  BY RegionByte
<1>3. m = n /\ a.grab = b.grab
  BY <1>1, <1>2
<1>4. /\ a.start \in Nat /\ a.end \in Nat /\ b.start \in Nat /\ b.end \in Nat
  BY DEF Region
<1>5. QED
  BY <1>1, <1>2, <1>3, <1>4 DEF Apart

\* Who owns a byte, without the choice in Owner.
Owns ==
    /\ \A r \in Reg : \A x \in Bytes(symrgtbl[r]) : x \in Grabbed /\ Owner[x] = r
    /\ \A x \in Waiting : x \in Grabbed /\ Owner[x] = "free"
    /\ \A x \in Grabbed : x \notin Held /\ x \notin Waiting => Owner[x] = "lost"

LEMMA OwnsEach == LInvBytes => Owns
<1> SUFFICES ASSUME LInvBytes PROVE Owns
  OBVIOUS
<1>1. /\ symrgtbl \in [Reg -> Region] /\ vm_freerg_list \in Seq(Region)
      /\ Grabbed = Held \cup Waiting \cup lost
  BY DEF LInvBytes, LInv, TypeOK, NothingLeaks
<1>2. /\ \A r \in Reg : \A x \in Bytes(symrgtbl[r]) : x \in Held
      /\ \A x \in Held : \E r \in Reg : x \in Bytes(symrgtbl[r])
  BY DEF Held
<1>3. \A x \in Waiting : \E k \in DOMAIN vm_freerg_list : x \in Bytes(vm_freerg_list[k])
  BY DEF Waiting
<1>4. ASSUME NEW r \in Reg, NEW q \in Reg, r # q
      PROVE  Bytes(symrgtbl[r]) \cap Bytes(symrgtbl[q]) = {}
  <2>1. Apart(symrgtbl[r], symrgtbl[q])
    BY <1>4 DEF LInvBytes, LInv, NoOverlap
  <2>2. QED
    BY <1>1, <2>1, BytesApart
<1>5. ASSUME NEW r \in Reg, NEW x \in Bytes(symrgtbl[r]) PROVE x \notin Waiting
  <2>1. ASSUME NEW k \in DOMAIN vm_freerg_list PROVE x \notin Bytes(vm_freerg_list[k])
    <3>1. Apart(symrgtbl[r], vm_freerg_list[k])
      BY DEF LInvBytes, LInv, NoOverlap
    <3>2. symrgtbl[r] \in Region /\ vm_freerg_list[k] \in Region
      BY <1>1
    <3>3. QED
      BY <3>1, <3>2, BytesApart
  <2>2. QED
    BY <1>3, <2>1
<1>6. ASSUME NEW r \in Reg, NEW x \in Bytes(symrgtbl[r])
      PROVE  x \in Grabbed /\ Owner[x] = r
  <2>1. x \in Grabbed
    BY <1>1, <1>2
  <2>2. Owner[x] = CHOOSE q \in Reg : x \in Bytes(symrgtbl[q])
    <3> DEFINE holder == CHOOSE q \in Reg : x \in Bytes(symrgtbl[q])
    <3>1. (\E q \in Reg : x \in Bytes(symrgtbl[q])) /\ x \notin Waiting
      BY <1>5
    <3>2. Owner[x] = CASE \E q \in Reg : x \in Bytes(symrgtbl[q]) -> holder
                       [] x \in Waiting -> "free"
                       [] OTHER -> "lost"
      BY <2>1 DEF Owner
    <3> HIDE DEF holder
    <3>3. Owner[x] = holder
      BY <3>1, <3>2
    <3>4. QED
      BY <3>3 DEF holder
  <2>3. \A q \in Reg : x \in Bytes(symrgtbl[q]) => q = r
    BY <1>4
  <2>4. QED
    BY <2>1, <2>2, <2>3
<1>7. ASSUME NEW x \in Waiting PROVE x \in Grabbed /\ Owner[x] = "free"
  <2>1. x \in Grabbed /\ \A r \in Reg : x \notin Bytes(symrgtbl[r])
    BY <1>1, <1>5
  <2>2. QED
    BY <2>1 DEF Owner
<1>8. ASSUME NEW x \in Grabbed, x \notin Held, x \notin Waiting PROVE Owner[x] = "lost"
  BY <1>2, <1>8 DEF Owner
<1>9. QED
  BY <1>6, <1>7, <1>8 DEF Owns

\* A register named a region: its bytes are the register's, those it had are lost.
LEMMA NamesOwner ==
  ASSUME Owns, Owns', symrgtbl \in [Reg -> Region],
         NEW rgid \in Reg, NEW rg, Names(rgid, rg),
         Grabbed' = Grabbed \cup Bytes(rg),
         Waiting' \ Bytes(rg) = Waiting \ Bytes(rg)
  PROVE  Owner' = [x \in Grabbed \cup Bytes(rg) |->
                     CASE x \in Bytes(rg) -> rgid
                       [] x \notin Bytes(rg) /\ Owner[x] = rgid -> "lost"
                       [] OTHER -> Owner[x]]
<1> DEFINE new(x) == CASE x \in Bytes(rg) -> rgid
                       [] x \notin Bytes(rg) /\ Owner[x] = rgid -> "lost"
                       [] OTHER -> Owner[x]
<1>1. /\ Bytes(symrgtbl'[rgid]) = Bytes(rg)
      /\ \A r \in Reg \ {rgid} : Bytes(symrgtbl'[r]) = Bytes(symrgtbl[r])
  BY DEF Names
<1>2. /\ \A x \in Held : \E r \in Reg : x \in Bytes(symrgtbl[r])
      /\ \A r \in Reg : \A x \in Bytes(symrgtbl[r]) : x \in Held
      /\ \A x \in Held' : \E r \in Reg : x \in Bytes(symrgtbl'[r])
  BY DEF Held, Bytes
<1>10. ASSUME NEW x \in Held', x \notin Bytes(rg)
       PROVE  \E r \in Reg \ {rgid} : x \in Bytes(symrgtbl[r])
  <2>1. PICK r \in Reg : x \in Bytes(symrgtbl'[r])
    BY <1>2
  <2>2. r # rgid
    BY <1>1, <1>10, <2>1
  <2>3. QED
    BY <1>1, <2>1, <2>2
<1>3. /\ \A r \in Reg : \A x \in Bytes(symrgtbl[r]) : x \in Grabbed /\ Owner[x] = r
      /\ \A x \in Waiting : x \in Grabbed /\ Owner[x] = "free"
      /\ \A x \in Grabbed : x \notin Held /\ x \notin Waiting => Owner[x] = "lost"
  BY DEF Owns
<1>4. /\ \A r \in Reg : \A x \in Bytes(symrgtbl'[r]) : x \in Grabbed' /\ Owner'[x] = r
      /\ \A x \in Waiting' : x \in Grabbed' /\ Owner'[x] = "free"
      /\ \A x \in Grabbed' : x \notin Held' /\ x \notin Waiting' => Owner'[x] = "lost"
  BY DEF Owns, Bytes
<1>5. rgid # "free" /\ rgid # "lost"
  BY LibmemAssumption
<1>6. ASSUME NEW x \in Grabbed' PROVE Owner'[x] = new(x)
  <2>1. CASE x \in Bytes(rg)
    BY <1>1, <1>4, <2>1
  <2>2. CASE x \notin Bytes(rg) /\ x \in Bytes(symrgtbl[rgid])
    <3>1. Owner[x] = rgid /\ x \notin Waiting
      BY <1>3, <1>5, <2>2
    <3>2. \A r \in Reg \ {rgid} : x \notin Bytes(symrgtbl[r])
      BY <1>3, <3>1
    <3>3. x \notin Held' /\ x \notin Waiting'
      BY <1>10, <2>2, <3>1, <3>2
    <3>4. QED
      BY <1>4, <2>2, <3>1, <3>3
  <2>3. ASSUME NEW r \in Reg \ {rgid}, x \notin Bytes(rg), x \in Bytes(symrgtbl[r])
        PROVE  Owner'[x] = new(x)
    BY <1>1, <1>3, <1>4, <2>3
  <2>4. CASE x \notin Bytes(rg) /\ x \notin Held
    <3>1. x \in Grabbed /\ x \notin Held'
      BY <1>2, <1>10, <2>4
    <3>2. CASE x \in Waiting
      BY <1>3, <1>4, <1>5, <2>4, <3>2
    <3>3. CASE x \notin Waiting
      BY <1>3, <1>4, <1>5, <2>4, <3>1, <3>3
    <3>4. QED
      BY <3>2, <3>3
  <2>5. CASE x \notin Bytes(rg) /\ x \in Held
    <3>1. PICK r \in Reg : x \in Bytes(symrgtbl[r])
      BY <1>2, <2>5
    <3>2. QED
      BY <2>2, <2>3, <2>5, <3>1
  <2>6. QED
    BY <2>1, <2>4, <2>5
<1>7. Owner' = [x \in Grabbed' |-> Owner'[x]]
  BY DEF Owner
<1>8. Owner' = [x \in Grabbed' |-> new(x)]
  BY <1>6, <1>7
<1>9. QED
  BY <1>8

LEMMA OwnsNext == LInvBytes /\ [Next]_vars => Owns /\ Owns'
<1>1. LInvBytes /\ [Next]_vars => LInvBytes'
  BY BytesKept
<1>2. LInvBytes' => Owns'
  BY OwnsEach, PTL
<1>3. QED
  BY <1>1, <1>2, OwnsEach

\* Every request at sbrk is for some byte: the list serves empty ones.
Paid == \A g \in DOMAIN grabSize : grabSize[g] > 0

HeapInv == LInvBytes /\ Paid

LEMMA PaidInit == Init => Paid
BY DEF Init, Paid

LEMMA PaidKept == LInvBytes /\ Paid /\ [Next]_vars => Paid'
<1> SUFFICES ASSUME LInvBytes, Paid, [Next]_vars PROVE Paid'
  OBVIOUS
<1>1. ASSUME NEW rgid \in Reg, NEW size \in Size, AllocAtSbrk(rgid, size) PROVE Paid'
  <2>1. /\ size \in Nat /\ grabSize \in Seq(Nat) /\ grabSize' = Append(grabSize, size)
        /\ Fitting(size) = {}
    BY <1>1, LibmemAssumption DEF AllocAtSbrk, LInvBytes, LInv, TypeOK
  <2>2. /\ 1 \in DOMAIN vm_freerg_list /\ vm_freerg_list[1] \in Region
        /\ vm_freerg_list[1].start <= vm_freerg_list[1].end
    BY DEF LInvBytes, LInv, TypeOK
  <2>3. ~ Fits(vm_freerg_list[1], size)
    BY <2>1, <2>2 DEF Fitting
  <2>4. size > 0
    BY <2>1, <2>2, <2>3 DEF Fits, Region
  <2>5. QED
    BY <2>1, <2>4 DEF Paid
<1>2. ASSUME UNCHANGED grabSize PROVE Paid'
  BY <1>2 DEF Paid
<1>3. QED
  BY <1>1, <1>2 DEF Next, Alloc, AllocFromList, AllocWild, Free, FreeNothing, vars

LEMMA OwnerDomain == DOMAIN Owner = Grabbed
BY DEF Owner

LEMMA HeapInitial == Init => Heap!HInit
<1> SUFFICES ASSUME Init PROVE Owner = << >>
  BY DEF Heap!HInit
<1>1. Grabbed = {}
  BY DEF Init, Grabbed
<1>2. QED
  BY <1>1 DEF Owner

\* Space carved from the list is a run of free bytes.
LEMMA HeapReuses ==
  ASSUME HeapInv, [Next]_vars, NEW rgid \in Reg, NEW size \in Size, AllocFromList(rgid, size)
  PROVE  Heap!Reuse(rgid, size)
<1>1. LInvBytes /\ Owns /\ Owns'
  BY OwnsNext DEF HeapInv
<1>2. PICK got \in Region : /\ got.end = got.start + size
                           /\ Names(rgid, got)
                           /\ Waiting = Waiting' \cup Bytes(got)
                           /\ Grabbed' = Grabbed
  BY <1>1, ListMoves
<1>3. size \in Nat /\ symrgtbl \in [Reg -> Region]
  BY <1>1, LibmemAssumption DEF LInvBytes, LInv, TypeOK
<1>4. \A x \in Bytes(got) : x \in Grabbed /\ Owner[x] = "free"
  BY <1>1, <1>2 DEF Owns
<1>5. Grabbed \cup Bytes(got) = Grabbed
  BY <1>4
<1>6. Owner' = [x \in Grabbed |->
                  CASE x \in Bytes(got) -> rgid
                    [] x \notin Bytes(got) /\ Owner[x] = rgid -> "lost"
                    [] OTHER -> Owner[x]]
  BY <1>1, <1>2, <1>3, <1>5, NamesOwner
<1>7. Bytes(got) \in IF size = 0 THEN {{}} ELSE Heap!FreeRuns(size)
  <2>1. got.start \in Nat /\ got.grab \in Nat
    BY DEF Region
  <2>2. CASE size = 0
    <3>1. Bytes(got) = {}
      BY <1>2, <2>1, <2>2 DEF Bytes
    <3>2. QED
      BY <2>2, <3>1
  <2>3. CASE size # 0
    <3> DEFINE first == <<got.grab, got.start>>
               run == {<<first[1], first[2] + k>> : k \in 0 .. (size - 1)}
    <3>1. first \in Bytes(got)
      BY <1>2, <1>3, <2>1, <2>3 DEF Bytes
    <3>2. first[1] = got.grab /\ first[2] = got.start
      OBVIOUS
    <3>3. first \in DOMAIN Owner
      BY <1>4, <3>1, OwnerDomain
    <3> HIDE DEF first
    <3>4. \A x : x \in run => x \in Bytes(got)
      BY <1>2, <1>3, <2>1, <3>2 DEF Bytes
    <3>5. ASSUME NEW x, x \in Bytes(got) PROVE x \in run
      <4>1. PICK b \in got.start .. (got.end - 1) : x = <<got.grab, b>>
        BY <3>5 DEF Bytes
      <4>2. b - got.start \in 0 .. (size - 1) /\ b = first[2] + (b - got.start)
        BY <1>2, <1>3, <2>1, <3>2, <4>1
      <4>3. QED
        BY <3>2, <4>1, <4>2
    <3>6. Bytes(got) = run
      BY <3>4, <3>5
    <3>7. \A y \in run : y \in DOMAIN Owner /\ Owner[y] = Heap!Free
      BY <1>4, <3>6, OwnerDomain DEF Heap!Free
    <3>8. run \in Heap!FreeRuns(size)
      BY <3>3, <3>7 DEF Heap!FreeRuns
    <3> HIDE DEF run
    <3>9. QED
      BY <2>3, <3>6, <3>8
  <2>4. QED
    BY <2>2, <2>3
<1>8. QED
  BY <1>6, <1>7, OwnerDomain DEF Heap!Reuse, Heap!Lost

\* A request at sbrk opens a stretch of its own.
LEMMA HeapExtends ==
  ASSUME HeapInv, [Next]_vars, NEW rgid \in Reg, NEW size \in Size, AllocAtSbrk(rgid, size)
  PROVE  Heap!Extend(rgid, size)
<1> DEFINE g == Len(grabSize) + 1
           got == [start |-> sbrk, end |-> sbrk + size, grab |-> g]
           fresh == {<<g, b>> : b \in 0 .. (size - 1)}
<1>1. LInvBytes /\ Owns /\ Owns' /\ Paid
  BY OwnsNext DEF HeapInv
<1>2. /\ Names(rgid, got)
      /\ Bytes(got) = fresh
      /\ Grabbed' = Grabbed \cup Bytes(got)
      /\ Waiting' = Waiting
  BY <1>1, SbrkMoves
<1>3. symrgtbl \in [Reg -> Region] /\ grabSize \in Seq(Nat)
  BY <1>1 DEF LInvBytes, LInv, TypeOK
<1> HIDE DEF got
<1>4. Owner' = [x \in Grabbed \cup fresh |->
                  CASE x \in fresh -> rgid
                    [] x \notin fresh /\ Owner[x] = rgid -> "lost"
                    [] OTHER -> Owner[x]]
  <2>1. Waiting' \ Bytes(got) = Waiting \ Bytes(got)
    BY <1>2
  <2>2. Owner' = [x \in Grabbed \cup Bytes(got) |->
                    CASE x \in Bytes(got) -> rgid
                      [] x \notin Bytes(got) /\ Owner[x] = rgid -> "lost"
                      [] OTHER -> Owner[x]]
    BY <1>1, <1>2, <1>3, <2>1, NamesOwner
  <2> HIDE DEF fresh
  <2>3. QED
    BY <1>2, <2>2
<1>5. Heap!Stretches = 1 .. Len(grabSize)
  <2>1. Heap!Stretches = {x[1] : x \in Grabbed}
    BY OwnerDomain DEF Heap!Stretches
  <2>2. ASSUME NEW x \in Grabbed PROVE x[1] \in DOMAIN grabSize
    BY DEF Grabbed
  <2>3. ASSUME NEW h \in DOMAIN grabSize PROVE \E x \in Grabbed : x[1] = h
    <3>1. grabSize[h] > 0 /\ grabSize[h] \in Nat
      BY <1>1, <1>3 DEF Paid
    <3>2. <<h, 0>> \in Grabbed
      BY <3>1 DEF Grabbed
    <3>3. QED
      BY <3>2
  <2>4. DOMAIN grabSize = 1 .. Len(grabSize)
    BY <1>3
  <2>5. QED
    BY <2>1, <2>2, <2>3, <2>4
<1>6. g \in ({1} \cup {h + 1 : h \in Heap!Stretches}) \ Heap!Stretches
  <2>1. Len(grabSize) \in Nat
    BY <1>3
  <2>2. CASE Len(grabSize) = 0
    BY <1>5, <2>2
  <2>3. CASE Len(grabSize) # 0
    BY <1>5, <2>1, <2>3
  <2>4. QED
    BY <2>2, <2>3
<1>7. Heap!Obtain(rgid, size, g)
  BY <1>4, OwnerDomain DEF Heap!Obtain, Heap!Lost
<1> HIDE DEF g
<1>8. QED
  BY <1>6, <1>7 DEF Heap!Extend

\* What a register held is free after free, and nothing else changes hands.
LEMMA HeapReleases ==
  ASSUME HeapInv, [Next]_vars, NEW rgid \in Reg, Free(rgid)
  PROVE  Heap!Release(rgid)
<1>1. LInvBytes /\ Owns /\ Owns'
  BY OwnsNext DEF HeapInv
<1>2. /\ Held = Held' \cup Bytes(symrgtbl[rgid])
      /\ Waiting' = Waiting \cup Bytes(symrgtbl[rgid])
      /\ Grabbed' = Grabbed
  BY <1>1, FreeMoves
<1>3. /\ \A r \in Reg \ {rgid} : Bytes(symrgtbl'[r]) = Bytes(symrgtbl[r])
  BY <1>1 DEF Free, LInvBytes, LInv, TypeOK
<1>4. \A x \in Held : \E r \in Reg : x \in Bytes(symrgtbl[r])
  BY DEF Held
<1>5. /\ \A r \in Reg : \A x \in Bytes(symrgtbl[r]) : x \in Grabbed /\ Owner[x] = r
      /\ \A x \in Waiting : x \in Grabbed /\ Owner[x] = "free"
      /\ \A x \in Grabbed : x \notin Held /\ x \notin Waiting => Owner[x] = "lost"
  BY <1>1 DEF Owns
<1>6. /\ \A r \in Reg : \A x \in Bytes(symrgtbl'[r]) : x \in Grabbed' /\ Owner'[x] = r
      /\ \A x \in Waiting' : x \in Grabbed' /\ Owner'[x] = "free"
      /\ \A x \in Grabbed' : x \notin Held' /\ x \notin Waiting' => Owner'[x] = "lost"
  BY <1>1 DEF Owns, Bytes
<1>7. rgid # "free" /\ rgid # "lost"
  BY LibmemAssumption
<1>8. ASSUME NEW x \in Grabbed
      PROVE  Owner'[x] = IF Owner[x] = rgid THEN "free" ELSE Owner[x]
  <2>1. CASE x \in Bytes(symrgtbl[rgid])
    BY <1>2, <1>5, <1>6, <2>1
  <2>2. ASSUME NEW r \in Reg \ {rgid}, x \in Bytes(symrgtbl[r])
        PROVE  Owner'[x] = IF Owner[x] = rgid THEN "free" ELSE Owner[x]
    BY <1>3, <1>5, <1>6, <2>2
  <2>3. CASE x \in Waiting
    BY <1>2, <1>5, <1>6, <1>7, <2>3
  <2>4. CASE x \notin Held /\ x \notin Waiting
    <3>1. x \notin Held' /\ x \notin Bytes(symrgtbl[rgid])
      BY <1>2, <2>4
    <3>2. x \notin Waiting' /\ x \in Grabbed'
      BY <1>2, <2>4, <3>1
    <3>3. QED
      BY <1>5, <1>6, <1>7, <2>4, <3>1, <3>2
  <2>5. QED
    BY <1>4, <2>1, <2>2, <2>3, <2>4
<1>9. Owner' = [x \in Grabbed |-> Owner'[x]]
  BY <1>2 DEF Owner
<1>10. Owner' = [x \in Grabbed |-> IF Owner[x] = rgid THEN "free" ELSE Owner[x]]
  BY <1>8, <1>9
<1>11. QED
  BY <1>10, OwnerDomain DEF Heap!Release, Heap!Free

\* Every step of an instruction is one of the heap, or none.
LEMMA HeapStep == HeapInv /\ [Next]_vars => [Heap!HNext]_Owner
<1> SUFFICES ASSUME HeapInv, [Next]_vars PROVE [Heap!HNext]_Owner
  OBVIOUS
<1>1. ASSUME NEW rgid \in Reg, NEW size \in Size, Alloc(rgid, size)
      PROVE  [Heap!HNext]_Owner
  <2>1. CASE AllocFromList(rgid, size)
    BY <2>1, HeapReuses DEF Heap!HNext
  <2>2. CASE AllocAtSbrk(rgid, size)
    BY <2>2, HeapExtends DEF Heap!HNext
  <2>3. CASE AllocWild(size)
    <3>1. Owner' = Owner
      BY <2>3 DEF AllocWild, Owner, Grabbed, Waiting, Bytes
    <3>2. QED
      BY <3>1
  <2>4. QED
    BY <1>1, <2>1, <2>2, <2>3 DEF Alloc
<1>2. ASSUME NEW rgid \in Reg, Free(rgid) PROVE [Heap!HNext]_Owner
  BY <1>2, HeapReleases DEF Heap!HNext
<1>3. ASSUME NEW rgid \in Reg, FreeNothing(rgid) PROVE Owner' = Owner
  BY <1>3 DEF FreeNothing, Owner, Grabbed, Waiting, Bytes
<1>4. CASE UNCHANGED vars
  <2>1. Owner' = Owner
    BY <1>4 DEF vars, Owner, Grabbed, Waiting, Bytes
  <2>2. QED
    BY <2>1
<1>5. QED
  BY <1>1, <1>2, <1>3, <1>4 DEF Next

\* alloc and free implement the abstract heap: every byte ever obtained has one
\* owner, a region granted is a run of free bytes or of fresh ones, and a
\* release frees what its register held and nothing else.
THEOREM ImplementsHeap == Spec => HeapSpec
<1>1. Init => HeapInv
  BY BytesInit, PaidInit DEF HeapInv
<1>2. HeapInv /\ [Next]_vars => HeapInv'
  BY BytesKept, PaidKept DEF HeapInv
<1>3. QED
  BY <1>1, <1>2, HeapInitial, HeapStep, PTL DEF Spec, HeapSpec, Heap!HSpec

=============================================================================
