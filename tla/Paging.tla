------------------------------- MODULE Paging -------------------------------
(***************************************************************************)
(* mm64.c over mm-memphy.c, and pg_getpage of libmem.c: the page tables of *)
(* all processes in one RAM, with frames from one list of free frames.     *)
(*                                                                         *)
(* Scaled: LEVELS tables of FANOUT entries for 5 of 512, BYTE values in a  *)
(* byte for 256, frame numbers masked by FPN_MASK for 0x1FFF.  An entry    *)
(* keeps its present bit and its frame number.  A call is one step; two    *)
(* threads inside MEMPHY_get_freefp at once are the subject of FramePool.  *)
(* Frames are counted in units of PAGING_PAGESZ and tables are of          *)
(* PAGING64_PAGESZ, so that of the frames listed only some (Stored) lie in *)
(* the storage, and nothing tests an address.  What lies past the storage  *)
(* is modelled as memory that holds anything (Heap); writing there is      *)
(* undefined, and no property claims anything once a frame there is taken. *)
(***************************************************************************)
EXTENDS Integers, Sequences, SequencesExt

CONSTANTS Proc,
          maxsz, PAGING_PAGESZ,                   \* sizes of RAM and of its frames
          PAGING64_PAGESZ,                        \* size of a table
          Heap,                                   \* what is found past the storage
          SwapFrames,                             \* free frames of active_mswp
          LEVELS, FANOUT, BYTE, FPN_MASK,
          IoFrames, IoFpns,                       \* bound: where and what IO_WRITE stores
          MaxRange,                               \* bound: pages per call
          MaxCalls                                \* bound: calls made

ASSUME PagingAssumption ==
    /\ {maxsz, SwapFrames, FPN_MASK, MaxRange, MaxCalls} \subseteq Nat
    /\ {PAGING_PAGESZ, PAGING64_PAGESZ, LEVELS, FANOUT} \subseteq Nat \ {0}
    /\ BYTE \in Nat \ {0, 1}
    /\ (FPN_MASK + 1) % BYTE = 0
    /\ maxsz \div PAGING_PAGESZ \in 1 .. (FPN_MASK + 1)

ASSUME StorageAssumption ==
    /\ Heap \in [0 .. FPN_MASK -> [0 .. (FANOUT - 1) -> [pre : BOOLEAN, fpn : 0 .. FPN_MASK]]]
    /\ IoFrames \cup IoFpns \subseteq 0 .. FPN_MASK

VARIABLES
    ram,           \* ram[f][i]: entry i of the table in frame f
    free_fp_list,  \* free frames of RAM
    swap_free,     \* number of free frames of active_mswp
    loaded,        \* processes the loader has called init_mm for
    pgd,           \* pgd[p]: frame of the top table of p
    fifo_pgn,      \* fifo_pgn[p]: pages of p, the newest first
    fault,         \* the undefined behaviour the program ran into
    calls,         \* calls made
    mapped,        \* history: mapped[p][n] is the frame p last mapped page n to
    lost,          \* history: frames whose page was mapped over
    written        \* history: frames IO_WRITE changed that were not a page

history == << mapped, lost, written >>
vars == << ram, free_fp_list, swap_free, loaded, pgd, fifo_pgn, fault, calls, history >>

Frame == 0 .. ((maxsz \div PAGING_PAGESZ) - 1)

\* pages below a table that has k levels of tables under it, itself included
Reach[k \in 0 .. LEVELS] == IF k = 0 THEN 1 ELSE FANOUT * Reach[k - 1]

Pgn == 0 .. (Reach[LEVELS] - 1)

Index == 0 .. (FANOUT - 1)

\* the frames whose tables lie in the storage
Stored == {f \in Frame : (f + 1) * PAGING64_PAGESZ <= maxsz}

NoFrame == -1

Zero == [pre |-> FALSE, fpn |-> 0]

\* an entry pte_set_fpn writes
Entry(fpn) == [pre |-> TRUE, fpn |-> fpn % (FPN_MASK + 1)]

\* MEMPHY_format lists the frames in ascending order; the storage is zeroed
Init ==
    /\ ram = [f \in 0 .. FPN_MASK |-> IF f \in Stored THEN [i \in Index |-> Zero] ELSE Heap[f]]
    /\ free_fp_list = [k \in 1 .. (maxsz \div PAGING_PAGESZ) |-> k - 1]
    /\ swap_free = SwapFrames
    /\ loaded = {}
    /\ pgd = [p \in Proc |-> NoFrame]
    /\ fifo_pgn = [p \in Proc |-> << >>]
    /\ fault = "none"
    /\ calls = 0
    /\ mapped = [p \in Proc |-> [n \in Pgn |-> NoFrame]]
    /\ lost = {}
    /\ written = {}

-----------------------------------------------------------------------------
(* Entries and the walk *)

\* the index into the table of level l on the way to page pgn
get_pd(pgn, l) == (pgn \div Reach[LEVELS - l]) % FANOUT

\* BYTE is char: a low byte from BYTE/2 up reads as negative, and its sign
\* covers all the bits above, the present bit with them.
get_32bit_entry(e) ==
    IF e.fpn % BYTE >= BYTE \div 2
    THEN [pre |-> TRUE, fpn |-> (FPN_MASK + 1 - BYTE) + (e.fpn % BYTE)]
    ELSE e

\* the table that entry i of the table in frame f refers to
Child(mem, f, i) ==
    LET e == get_32bit_entry(mem[f][i])
    IN  IF f # NoFrame /\ e.pre THEN e.fpn ELSE NoFrame

\* get_pte_address: the frames of the tables on the way to page pgn, level by
\* level, NoFrame from where one is not present
Tables(mem, root, pgn) ==
    LET base[l \in 1 .. LEVELS] ==
            IF l = 1 THEN root ELSE Child(mem, base[l - 1], get_pd(pgn, l - 1))
    IN  base

pte_get_entry(p, pgn) ==
    LET base == Tables(ram, pgd[p], pgn)[LEVELS]
    IN  IF base = NoFrame THEN Zero
        ELSE get_32bit_entry(ram[base][get_pd(pgn, LEVELS)])

\* the tables in use: whose, at which level, for which pages, in which frame
TableNodes ==
    {nd \in {[p |-> p, l |-> l, prefix |-> pgn \div Reach[LEVELS - l + 1],
              frame |-> Tables(ram, pgd[p], pgn)[l]] :
                p \in {q \in Proc : pgd[q] # NoFrame}, pgn \in Pgn, l \in 1 .. LEVELS} :
        nd.frame # NoFrame}

-----------------------------------------------------------------------------
(* pte_set_fpn: m is a state of RAM and its free list, with ok for success *)

\* (Faulty: the table just allocated is not entered in its parent.)
StepDownUnlinked(m, i) ==
    LET e == get_32bit_entry(m.ram[m.base][i])
    IN  CASE ~m.ok                         -> m
          [] m.ok /\ e.pre                 -> [m EXCEPT !.base = e.fpn]
          [] m.ok /\ ~e.pre /\ m.free = << >> -> [m EXCEPT !.ok = FALSE]
          [] OTHER -> [m EXCEPT !.base = Head(m.free), !.free = Tail(@)]

\* (Faulty: the frame given out stays at the head of the free list.)
StepDownNoPop(m, i) ==
    LET e == get_32bit_entry(m.ram[m.base][i])
    IN  CASE ~m.ok                         -> m
          [] m.ok /\ e.pre                 -> [m EXCEPT !.base = e.fpn]
          [] m.ok /\ ~e.pre /\ m.free = << >> -> [m EXCEPT !.ok = FALSE]
          [] OTHER -> [m EXCEPT !.base = Head(m.free),
                                !.ram[m.base][i] = Entry(Head(m.free))]

\* from the table at m.base to the one its entry i refers to, allocated if it
\* is not present
StepDown(m, i) ==
    LET e == get_32bit_entry(m.ram[m.base][i])
    IN  CASE ~m.ok                         -> m
          [] m.ok /\ e.pre                 -> [m EXCEPT !.base = e.fpn]
          [] m.ok /\ ~e.pre /\ m.free = << >> -> [m EXCEPT !.ok = FALSE]
          [] OTHER -> [m EXCEPT !.base = Head(m.free), !.free = Tail(@),
                                !.ram[m.base][i] = Entry(Head(m.free))]

pte_set_fpn(m, root, pgn, fpn) ==
    LET down[l \in 1 .. LEVELS] ==
            IF l = 1 THEN [m EXCEPT !.base = root]
            ELSE StepDown(down[l - 1], get_pd(pgn, l - 1))
        last == down[LEVELS]
    IN  IF last.ok
        THEN [last EXCEPT !.ram[last.base][get_pd(pgn, LEVELS)] = Entry(fpn)]
        ELSE last

\* the loop of vmap_page_range and vmap_pgd_memset: pages from pgn on get the
\* frames fpns, up to the first that cannot be mapped; done counts the others
vmap(free, root, pgn, fpns) ==
    LET after[k \in 0 .. Len(fpns)] ==
            IF k = 0
            THEN [ram |-> ram, free |-> free, base |-> root, ok |-> TRUE, done |-> 0]
            ELSE LET m == pte_set_fpn(after[k - 1], root, pgn + k - 1, fpns[k])
                 IN  IF after[k - 1].ok /\ m.ok THEN [m EXCEPT !.done = k] ELSE m
    IN  after[Len(fpns)]

-----------------------------------------------------------------------------
(* The calls *)

\* (Faulty: the frame of the top table stays on the free list.)
InitMmNoPop(p) ==
    /\ fault = "none" /\ p \notin loaded
    /\ loaded' = loaded \cup {p}
    /\ IF free_fp_list = << >> THEN UNCHANGED << ram, pgd >>
       ELSE /\ pgd' = [pgd EXCEPT ![p] = Head(free_fp_list)]
            /\ ram' = [ram EXCEPT ![Head(free_fp_list)] = [i \in Index |-> Zero]]
    /\ UNCHANGED << free_fp_list, swap_free, fifo_pgn, fault, calls, history >>

\* (Faulty: the frame of the top table is not cleared.)
InitMmUncleared(p) ==
    /\ fault = "none" /\ p \notin loaded
    /\ loaded' = loaded \cup {p}
    /\ IF free_fp_list = << >> THEN UNCHANGED << pgd, free_fp_list, written >>
       ELSE /\ pgd' = [pgd EXCEPT ![p] = Head(free_fp_list)]
            /\ free_fp_list' = Tail(free_fp_list)
            /\ written' = written \ {Head(free_fp_list)}
    /\ UNCHANGED << ram, swap_free, fifo_pgn, fault, calls, mapped, lost >>

\* init_mm; when no frame is left it returns before it sets anything, and
\* ld_routine does not look at what it returns
InitMm(p) ==
    /\ fault = "none" /\ p \notin loaded
    /\ loaded' = loaded \cup {p}
    /\ IF free_fp_list = << >> THEN UNCHANGED << ram, pgd, free_fp_list, written >>
       ELSE /\ pgd' = [pgd EXCEPT ![p] = Head(free_fp_list)]
            /\ ram' = [ram EXCEPT ![Head(free_fp_list)] = [i \in Index |-> Zero]]
            /\ free_fp_list' = Tail(free_fp_list)
            /\ written' = written \ {Head(free_fp_list)}
    /\ UNCHANGED << swap_free, fifo_pgn, fault, calls, mapped, lost >>

Call(p) ==
    /\ fault = "none" /\ p \in loaded
    /\ calls < MaxCalls /\ calls' = calls + 1
    /\ UNCHANGED << loaded, pgd >>

\* the history of a call that mapped the first done pages from pgn to fpns
Records(p, pgn, fpns, done) ==
    LET range == pgn .. (pgn + done - 1)
    IN  /\ mapped' = [mapped EXCEPT ![p] =
                        [n \in Pgn |-> IF n \in range THEN fpns[n - pgn + 1] ELSE @[n]]]
        /\ lost' = lost \cup ({mapped[p][n] : n \in range} \ {NoFrame})
        /\ written' = written

\* SYSMEM_MAP_OP, vmap_pgd_memset: pages are mapped to frame 0 for the time
\* being, and a failure half-way is not reported
MapOp(p, pgn, pgnum) ==
    LET zeros == [k \in 1 .. pgnum |-> 0]
        m == vmap(free_fp_list, pgd[p], pgn, zeros)
    IN  /\ Call(p) /\ pgd[p] # NoFrame
        /\ ram' = m.ram /\ free_fp_list' = m.free
        /\ Records(p, pgn, zeros, m.done)
        /\ UNCHANGED << swap_free, fifo_pgn, fault >>

\* (Faulty: alloc_pages_range gives the frames back, and vm_map_ram again.)
FailEarlyTwice(p, pgnum) ==
    /\ Call(p) /\ pgd[p] # NoFrame
    /\ pgnum > Len(free_fp_list)
    /\ free_fp_list' = Reverse(free_fp_list) \o Reverse(free_fp_list)
    /\ UNCHANGED << ram, swap_free, fifo_pgn, fault, history >>

\* vm_map_ram, when alloc_pages_range finds too few frames: free_frame_list
\* puts those it took back, one by one, at the head of the list
VmMapRamNoFrames(p, pgnum) ==
    /\ Call(p) /\ pgd[p] # NoFrame
    /\ pgnum > Len(free_fp_list)
    /\ free_fp_list' = Reverse(free_fp_list)
    /\ UNCHANGED << ram, swap_free, fifo_pgn, fault, history >>

\* vm_map_ram with enough frames; when a table cannot be allocated for one of
\* the pages, free_frame_list puts all the frames back, those already mapped too
VmMapRam(p, pgn, pgnum) ==
    LET fpns == SubSeq(free_fp_list, 1, pgnum)
        m == vmap(SubSeq(free_fp_list, pgnum + 1, Len(free_fp_list)), pgd[p], pgn, fpns)
    IN  /\ Call(p) /\ pgd[p] # NoFrame
        /\ pgnum <= Len(free_fp_list)
        /\ ram' = m.ram
        /\ free_fp_list' = IF m.done = pgnum THEN m.free ELSE Reverse(fpns) \o m.free
        /\ fifo_pgn' = [fifo_pgn EXCEPT ![p] =
                           Reverse([k \in 1 .. m.done |-> pgn + k - 1]) \o @]
        /\ Records(p, pgn, fpns, m.done)
        /\ UNCHANGED << swap_free, fault >>

\* what storing one byte makes of an entry: the low byte of the frame number,
\* or its upper bits, or (the sign of a byte covers it) the present bit
OneByte(old, new) ==
    \/ old.fpn \div BYTE = new.fpn \div BYTE /\ old.pre = new.pre
    \/ old.fpn % BYTE = new.fpn % BYTE

\* SYSMEM_IO_WRITE: MEMPHY_write stores a byte wherever the program says.  A
\* frame is a page if it is neither free nor holds a table.
IoWrite(p, f, i, new) ==
    /\ Call(p)
    /\ OneByte(ram[f][i], new)
    /\ ram' = [ram EXCEPT ![f][i] = new]
    /\ written' = IF f \in Range(free_fp_list) \cup {nd.frame : nd \in TableNodes}
                  THEN written \cup {f} ELSE written
    /\ UNCHANGED << free_fp_list, swap_free, fifo_pgn, fault, mapped, lost >>

\* pg_getpage of a page whose entry is present changes nothing
GetPresent(p, pgn) ==
    /\ Call(p) /\ pgd[p] # NoFrame
    /\ pte_get_entry(p, pgn).pre
    /\ UNCHANGED << ram, free_fp_list, swap_free, fifo_pgn, fault, history >>

\* the oldest page leaves the FIFO
find_victim_page(fifo) == Front(fifo)

\* pg_getpage of another: it takes a victim, then a frame of swap; the copying
\* and the update of the tables are still to be written
GetAbsent(p, pgn) ==
    LET fifo == fifo_pgn[p]
    IN  /\ Call(p) /\ pgd[p] # NoFrame
        /\ ~pte_get_entry(p, pgn).pre
        /\ CASE Len(fifo) = 0 -> UNCHANGED << fifo_pgn, swap_free, fault >>
             [] Len(fifo) = 1 -> /\ fault' = "victim"  \* prev is NULL
                                 /\ UNCHANGED << fifo_pgn, swap_free >>
             [] Len(fifo) > 1 /\ swap_free = 0 ->
                    /\ fifo_pgn' = [fifo_pgn EXCEPT ![p] = find_victim_page(fifo)]
                    /\ UNCHANGED << swap_free, fault >>
             [] OTHER ->
                    /\ swap_free' = swap_free - 1
                    /\ fifo_pgn' = [fifo_pgn EXCEPT ![p] = << pgn >> \o find_victim_page(fifo)]
                    /\ UNCHANGED fault
        /\ UNCHANGED << ram, free_fp_list, history >>

\* a call that uses the mm of a process, which init_mm left as malloc returned it
CallWild(p) ==
    /\ Call(p) /\ pgd[p] = NoFrame
    /\ fault' = "mm"
    /\ UNCHANGED << ram, free_fp_list, swap_free, fifo_pgn, history >>

Next ==
    \E p \in Proc :
        \/ InitMm(p)
        \/ CallWild(p)
        \/ \E f \in IoFrames, i \in Index, new \in [pre : BOOLEAN, fpn : IoFpns] :
              IoWrite(p, f, i, new)
        \/ \E pgn \in Pgn : GetPresent(p, pgn) \/ GetAbsent(p, pgn)
        \/ \E pgnum \in 1 .. MaxRange :
              \/ VmMapRamNoFrames(p, pgnum)
              \/ \E pgn \in {n \in Pgn : n + pgnum - 1 \in Pgn} :
                    MapOp(p, pgn, pgnum) \/ VmMapRam(p, pgn, pgnum)

Spec == Init /\ [][Next]_vars

-----------------------------------------------------------------------------
(* Properties *)

\* The type invariant: the free list holds frames of RAM, none twice.
TypeOK ==
    /\ ram \in [0 .. FPN_MASK -> [Index -> [pre : BOOLEAN, fpn : 0 .. FPN_MASK]]]
    /\ free_fp_list \in Seq(Frame) /\ IsInjective(free_fp_list)
    /\ swap_free \in 0 .. SwapFrames
    /\ loaded \subseteq Proc
    /\ pgd \in [Proc -> Frame \cup {NoFrame}]
    /\ fifo_pgn \in [Proc -> Seq(Pgn)]
    /\ fault \in {"none", "mm", "victim"}
    /\ calls \in 0 .. MaxCalls

\* frames whose number has a low byte that does not read as negative
PlainFrame == {f \in Frame : f % BYTE < BYTE \div 2}

\* frames some page is or was mapped to
Known == {f \in Frame : f \in lost \/ \E p \in Proc, n \in Pgn : f = mapped[p][n]}

\* What the code relies on and does not see to: every frame taken so far lies in
\* the storage and has a number that is read as it was stored, and IO_WRITE has
\* changed none but the pages, or those that init_mm has cleared since.
Sane ==
    LET taken == Frame \ Range(free_fp_list)
    IN  taken \cup Known \subseteq PlainFrame /\ taken \subseteq Stored \ written

\* A frame that holds a page table holds only that one and is not free, also
\* after pte_set_fpn ran out of frames half-way: a table comes off the list
\* before it is entered in its parent.
TablesPrivate ==
    Sane => /\ \A a, b \in TableNodes : a.frame = b.frame => a = b
            /\ \A a \in TableNodes : a.frame \notin Range(free_fp_list)

\* Reading a page's entry gives what was last mapped there, whatever was
\* mapped for other pages and processes since, and nothing for other pages:
\* a table holds nothing before it is written, though only init_mm clears it.
PagesAsMapped ==
    Sane => \A p \in {q \in Proc : pgd[q] # NoFrame}, pgn \in Pgn :
               pte_get_entry(p, pgn) =
                   IF mapped[p][pgn] = NoFrame THEN Zero ELSE Entry(mapped[p][pgn])

\* Every frame is free, holds a table, is mapped, or was mapped over by the
\* process itself: no walk that fails half-way loses a frame.
FramesAccounted ==
    Sane => Frame \subseteq Range(free_fp_list)
                            \cup {nd.frame : nd \in TableNodes}
                            \cup lost
                            \cup UNION {{mapped[p][n] : n \in Pgn} : p \in Proc}

\* No step changes the tables of two processes, nor a table that two have in
\* common: the processes share one RAM and one list of free frames, and
\* nothing but the walk of pte_set_fpn keeps them apart.
Isolation ==
    [][Sane' => \E p \in Proc : \A nd \in TableNodes' :
                   ram'[nd.frame] # ram[nd.frame] => nd.p = p]_vars

\* mm64.c:567: "Read and return the PTE value": every entry of a table in use is
\* read as it was stored, whatever the bytes of its frame number.
EntryReadBack ==
    \A nd \in TableNodes, i \in Index :
        get_32bit_entry(ram[nd.frame][i]) = ram[nd.frame][i]
=============================================================================
