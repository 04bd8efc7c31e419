------------------------------- MODULE Libmem -------------------------------
(***************************************************************************)
(* libmem.c: how the regions of one process are allocated and freed.  The  *)
(* loader gives every process an mm of its own, its instructions run one   *)
(* at a time, and __alloc and __free hold mmvm_lock from end to end, so    *)
(* each is one step.                                                       *)
(*                                                                         *)
(* Memory comes from the list of free regions, first fit, or else from     *)
(* sbrk.  Nothing moves sbrk: SYSCALL 17 reaches inc_vma_limit, which only *)
(* returns 0.  Regions therefore carry a history field, grab: which        *)
(* request at sbrk their bytes came from.                                  *)
(***************************************************************************)
EXTENDS Integers, Sequences, SequencesExt

CONSTANTS Reg,       \* registers a program uses, below PAGING_MAX_SYMTBL_SZ
          Size,      \* sizes it asks for
          CodeSize   \* bound: alloc and free instructions in the program

ASSUME LibmemAssumption ==
    /\ Size \subseteq Nat
    /\ CodeSize \in Nat
    /\ Reg \cap {"free", "lost"} = {}   \* the other owners of Heap, below

VARIABLES
    symrgtbl,        \* symrgtbl[r]: the region of register r
    vm_freerg_list,  \* free regions of vma0, in the order of the list
    tail,            \* rg_next of the first region: what malloc had left there
    fault,           \* a wild pointer was followed: all bets are off
    pc,              \* instructions executed
    grabSize,        \* history: grabSize[g] is the size of the g-th request at sbrk
    lost             \* history: bytes whose register was allocated over

vars == << symrgtbl, vm_freerg_list, tail, fault, pc, grabSize, lost >>

Region == [start : Nat, end : Nat, grab : Nat]

NoRegion == [start |-> 0, end |-> 0, grab |-> 0]

sbrk == 0

Bytes(rg) == {<<rg.grab, b>> : b \in rg.start .. (rg.end - 1)}

\* init_mm puts one empty region on a list whose head is not initialized:
\* enlist_vm_rg_node copies that head into rg_next.
init_mm ==
    /\ symrgtbl = [r \in Reg |-> NoRegion]
    /\ vm_freerg_list = << NoRegion >>
    /\ tail \in {"NULL", "wild"}

Init ==
    /\ init_mm
    /\ fault = FALSE
    /\ pc = 0
    /\ grabSize = << >>
    /\ lost = {}

-----------------------------------------------------------------------------
(* get_free_vmrg_area *)

\* (Faulty: one byte more than the region has.)
FitsOneMore(rg, size) == rg.start + size <= rg.end + 1

Fits(rg, size) == rg.start + size <= rg.end

Fitting(size) == {i \in DOMAIN vm_freerg_list : Fits(vm_freerg_list[i], size)}

\* the walk stops at the first region with enough space
FirstFit(i, size) ==
    /\ i \in Fitting(size)
    /\ \A j \in Fitting(size) : i <= j

UsedUp(rg, size) == rg.start + size = rg.end

\* (Faulty: the space handed out stays on the list.)
CarvedKept(s, i, size) ==
    CASE ~UsedUp(s[i], size)              -> s
      [] UsedUp(s[i], size) /\ i < Len(s) -> RemoveAt(s, i)
      [] OTHER                            -> [s EXCEPT ![i].start = s[i].end]

\* (Faulty: the clone of the next node forgets the next node's own rg_next.)
CarvedCut(s, i, size) ==
    CASE ~UsedUp(s[i], size)              -> [s EXCEPT ![i].start = @ + size]
      [] UsedUp(s[i], size) /\ i < Len(s) -> SubSeq(s, 1, i - 1) \o << s[i + 1] >>
      [] OTHER                            -> [s EXCEPT ![i].start = s[i].end]

\* (Faulty: a region used up stays on the list, empty.)
CarvedDummy(s, i, size) == [s EXCEPT ![i].start = @ + size]

\* The list after size is taken from its i-th region.  A region used up
\* becomes a clone of the next one, which is freed; the last one stays, empty.
Carved(s, i, size) ==
    CASE ~UsedUp(s[i], size)              -> [s EXCEPT ![i].start = @ + size]
      [] UsedUp(s[i], size) /\ i < Len(s) -> RemoveAt(s, i)
      [] OTHER                            -> [s EXCEPT ![i].start = s[i].end]

\* The walk follows the last rg_next when nothing fits, and when the last
\* region is used up.
FollowsTail(size) ==
    \/ Fitting(size) = {}
    \/ \E i \in Fitting(size) :
          /\ FirstFit(i, size)
          /\ i = Len(vm_freerg_list) /\ UsedUp(vm_freerg_list[i], size)

-----------------------------------------------------------------------------
(* __alloc, __free *)

Executes == ~fault /\ pc < CodeSize /\ pc' = pc + 1

\* the register takes the region; what it held is nowhere any more
Names(rgid, rg) ==
    /\ symrgtbl' = [symrgtbl EXCEPT ![rgid] = rg]
    /\ lost' = lost \cup Bytes(symrgtbl[rgid])

AllocFromList(rgid, size) ==
    /\ Executes
    /\ ~(tail = "wild" /\ FollowsTail(size))
    /\ \E i \in DOMAIN vm_freerg_list :
          /\ FirstFit(i, size)
          /\ Names(rgid, [vm_freerg_list[i] EXCEPT !.end = vm_freerg_list[i].start + size])
          /\ vm_freerg_list' = Carved(vm_freerg_list, i, size)
    /\ UNCHANGED << tail, fault, grabSize >>

\* The result of SYSCALL 17 is not looked at, and inc_vma_limit changes nothing.
AllocAtSbrk(rgid, size) ==
    /\ Executes
    /\ tail = "NULL"
    /\ Fitting(size) = {}
    /\ grabSize' = Append(grabSize, size)
    /\ Names(rgid, [start |-> sbrk, end |-> sbrk + size, grab |-> Len(grabSize')])
    /\ UNCHANGED << vm_freerg_list, tail, fault >>

AllocWild(size) ==
    /\ Executes
    /\ tail = "wild" /\ FollowsTail(size)
    /\ fault' = TRUE
    /\ UNCHANGED << symrgtbl, vm_freerg_list, tail, grabSize, lost >>

Alloc(rgid, size) ==
    \/ AllocFromList(rgid, size)
    \/ AllocAtSbrk(rgid, size)
    \/ AllocWild(size)

\* (Faulty: an empty region is put on the list too.)
EnlistAny(rg) == Cons(rg, vm_freerg_list)

\* enlist_vm_freerg_list refuses an empty region
Enlist(rg) ==
    IF rg.start >= rg.end THEN vm_freerg_list ELSE Cons(rg, vm_freerg_list)

\* (Faulty: the register keeps the region it freed.)
FreeStale(rgid) ==
    /\ Executes
    /\ ~(symrgtbl[rgid].start = 0 /\ symrgtbl[rgid].end = 0)
    /\ vm_freerg_list' = Enlist(symrgtbl[rgid])
    /\ UNCHANGED << symrgtbl, tail, fault, grabSize, lost >>

\* (Faulty: the register is reset before its region is copied to the list.)
FreeResetFirst(rgid) ==
    /\ Executes
    /\ ~(symrgtbl[rgid].start = 0 /\ symrgtbl[rgid].end = 0)
    /\ vm_freerg_list' = Enlist(NoRegion)
    /\ symrgtbl' = [symrgtbl EXCEPT ![rgid] = NoRegion]
    /\ UNCHANGED << tail, fault, grabSize, lost >>

\* a register that holds [0, 0] counts as not allocated: FreeNothing
Free(rgid) ==
    /\ Executes
    /\ ~(symrgtbl[rgid].start = 0 /\ symrgtbl[rgid].end = 0)
    /\ vm_freerg_list' = Enlist(symrgtbl[rgid])
    /\ symrgtbl' = [symrgtbl EXCEPT ![rgid] = NoRegion]
    /\ UNCHANGED << tail, fault, grabSize, lost >>

FreeNothing(rgid) ==
    /\ Executes
    /\ symrgtbl[rgid].start = 0 /\ symrgtbl[rgid].end = 0
    /\ UNCHANGED << symrgtbl, vm_freerg_list, tail, fault, grabSize, lost >>

Next == \E rgid \in Reg :
            \/ \E size \in Size : Alloc(rgid, size)
            \/ Free(rgid)
            \/ FreeNothing(rgid)

Spec == Init /\ [][Next]_vars

-----------------------------------------------------------------------------
(* Properties *)

\* The type invariant: regions run forwards, the list never becomes empty.
TypeOK ==
    /\ symrgtbl \in [Reg -> Region]
    /\ vm_freerg_list \in Seq(Region) \ {<< >>}
    /\ \A r \in Reg : symrgtbl[r].start <= symrgtbl[r].end
    /\ \A i \in DOMAIN vm_freerg_list :
          vm_freerg_list[i].start <= vm_freerg_list[i].end
    /\ tail \in {"NULL", "wild"}
    /\ fault \in BOOLEAN
    /\ pc \in Nat
    /\ grabSize \in Seq(Nat)

Apart(a, b) == a.grab # b.grab \/ a.end <= b.start \/ b.end <= a.start

\* No two regions cut from the same request at sbrk overlap, whether they are
\* held by registers, wait on the free list, or one of each: the splitting,
\* cloning and freeing of list nodes never gives the same byte to two.
NoOverlap ==
    /\ \A r, q \in Reg : r # q => Apart(symrgtbl[r], symrgtbl[q])
    /\ \A i, j \in DOMAIN vm_freerg_list :
          i # j => Apart(vm_freerg_list[i], vm_freerg_list[j])
    /\ \A r \in Reg, i \in DOMAIN vm_freerg_list :
          Apart(symrgtbl[r], vm_freerg_list[i])

Grabbed == UNION {{<<g, b>> : b \in 0 .. (grabSize[g] - 1)} : g \in DOMAIN grabSize}

Held == UNION {Bytes(symrgtbl[r]) : r \in Reg}

Waiting == UNION {Bytes(vm_freerg_list[i]) : i \in DOMAIN vm_freerg_list}

\* Every byte ever requested is held by a register or waits on the free list,
\* unless the program allocated over the register that held it: no sequence of
\* alloc and free leaks memory by itself.
NothingLeaks == Grabbed = Held \cup Waiting \cup lost

\* Only the last node of the free list may be empty: however long a program
\* allocates and frees, dead nodes do not pile up for every later walk.
NoDeadNodes ==
    \A i \in DOMAIN vm_freerg_list :
        i < Len(vm_freerg_list) => vm_freerg_list[i].start < vm_freerg_list[i].end

\* The bytes in the lists seen as owners of bytes: the allocator is a heap
\* where every byte has one owner (PROPERTY of the runs).
Owner ==
    [x \in Grabbed |->
        CASE \E r \in Reg : x \in Bytes(symrgtbl[r]) ->
                CHOOSE r \in Reg : x \in Bytes(symrgtbl[r])
          [] x \in Waiting -> "free"
          [] OTHER -> "lost"]

Heap == INSTANCE RegionHeap WITH owner <- Owner

\* alloc and free of libmem.c do what alloc and free of the abstract heap do:
\* a region granted is a run of free bytes or fresh ones, a release frees all
\* the bytes of its register and no others.
HeapSpec == Heap!HSpec

\* mm-vm.c:129 says inc_vma_limit reserves space for the new variable: two
\* registers never name the same addresses.
AddressesApart ==
    \A r, q \in Reg :
        r # q => \/ symrgtbl[r].end <= symrgtbl[q].start
                 \/ symrgtbl[q].end <= symrgtbl[r].start
=============================================================================
