# A verification project for the OS simulator

`src/os_lamiaatrium` simulates an operating system: a loader thread and a
number of cpu threads share a multi-level queue scheduler, advance together
slot by slot under a timer thread, and run programs whose instructions allocate,
read and write paged memory. The build defines `MLQ_SCHED`, `MM_PAGING` and
`MM64` (Makefile, `include/os-cfg.h`), and the modules here follow that build.

## Inventory

| Component | State | Operations | Who calls it | What makes it correct |
|---|---|---|---|---|
| process queue, `queue.c` | an array of at most 50 pcb pointers | `empty`, `enqueue`, `dequeue`, `purgequeue` | the scheduler | nothing but the pcb asked for comes out or goes missing, order is kept |
| MLQ scheduler, `sched.c` | a ready queue and a quota per level, `running_list` | `get_proc`, `put_proc`, `add_proc`, each under `queue_lock` | cpus, loader | a process is in one place, none is lost or starves, running processes are listed |
| slot timer, `timer.c` | `_time`, per device two mutexes, two condition variables, `done`, `fsh` | `attach_event`, `start_timer`, `next_slot`, `detach_event`, `stop_timer`, `current_time` | cpus, loader, main | slots are lockstep, no wakeup is lost, shutdown ends |
| cpu and loader threads, `os.c` | the process and `time_left` of each cpu; the loader's index; `done` | `cpu_routine`, `ld_routine`, `main` | - | jobs are added on time and all finish, slices are whole, cpus do not idle, the program ends |
| program loader, `loader.c`; interpreter, `cpu.c` | pcb, code, `pc` | `load`, `run` | loader, cpus | `pc` stays within the code |
| region allocator, `libmem.c`, `mm-vm.c` | free-region list, symbol table, `sbrk` | `liballoc`, `libfree`, `libread`, `libwrite` | instructions, under `mmvm_lock` (reads and writes partly without) | live regions do not overlap, freed space is reusable |
| physical memory, `mm-memphy.c` | storage, free-frame list | `MEMPHY_get_freefp`, `MEMPHY_put_freefp`, read, write | `init_mm`, mapping, system calls | a frame has one owner |
| page table, `mm64.c` | five levels of 32-bit entries | `pte_set_fpn`, `pte_get_entry`, `vmap_page_range`, ... | allocator, system calls | what is set is what is read |
| system calls, `syscall.c`, `sys_mem.c`, `libstd.c` | none | `sys_memmap`, `listsyscall` | instructions, paging | the caller's pcb is found, the right page table is changed, the search ends |
| not in the build: `mem.c`, `mm.c`, the non-MLQ half of `sched.c`; a program of its own: `paging.c` | | | | |

The components meet in four places. The loader and the cpus share the queues
(a mutex) and the flag `done` (no lock). All of them rendezvous in `next_slot`.
The loader's `init_mm` and the cpus' system calls share the free-frame list (no
lock). `sys_mem.c` searches `running_list`, which belongs to the scheduler,
without its lock. The list of behaviours that are hard to test, each at its
line, is under `hazards` in `PROJECT.json`.

## Modules

| Module | Models | Notes |
|---|---|---|
| `Queue` | `queue.c` | operators on sequences; no state |
| `Sched` | `sched.c`, the pcb's malloc and free | one action per call under `queue_lock` |
| `ProcLife` | - | abstract: a pcb is loaded, waits, runs, leaves. `Sched` implements it |
| `SchedWait` | `Sched` and a history variable | counts how often a level is passed over |
| `Timer` | `timer.c`, the end of `main` | one action per lock, wait and critical section |
| `SlotBarrier` | - | abstract: nobody enters the next slot before all have ended this one. `Timer` implements it |
| `OS` | `os.c` | extends `Sched`; takes the timer's promise as given (`SlotOver`, `Tick`) |
| `Libmem` | `liballoc` and `libfree` of `libmem.c` | one process; one action per call under `mmvm_lock` |
| `RegionHeap` | - | abstract: every byte has one owner. `Libmem` implements it |
| `Paging` | `mm64.c`, the free-frame list of `mm-memphy.c`, `pg_getpage` of `libmem.c` | all processes; one action per call |
| `FramePool` | `MEMPHY_get_freefp` of `mm-memphy.c` | statement by statement, without a lock |
| `SysMemmap` | `sys_mem.c` with the stores of `queue.c` under it | load by load and store by store, without `queue_lock` for the search |
| `QueueProofs`, `SchedProofs`, `TimerProofs`, `OSProofs`, `LibmemProofs`, `PagingProofs`, `FramePoolProofs`, `SysMemmapProofs` | - | theorems |
| `MCSched`, `MCOS`, `MCLibmem`, `MCPaging` | - | symmetry sets for TLC |

A definition whose comment begins with "Faulty" is a plausible wrong version of
the one after it. No specification uses them: they are for measuring whether a
property notices the fault.

### Sched

`mlq_ready_queue`, `slot`, `running_list` and `prio` are the variables of the
same name. A pcb is an address; `allocated` is what lies between its malloc and
its free, `loading` is the loader's local `proc` and `running[c]` that of a
cpu. `Load` is `load()` with the store of the priority, `AddProc`, `GetProc`,
`PutProc` are the three calls, `Finish` is the `free` in `cpu_routine`. A
`get_proc` on empty queues returns before it touches anything and is no step.
Addresses are reused: after `Finish` the next `Load` may get the same pcb, which
`running_list` still holds. The priority of a pcb is what the configuration
gives it; it is taken to be below `MAX_PRIO`, which the code does not check.

### Timer

A device is its position in `dev_list`. `pc[d]` and `tpc` say where the device's
thread and the timer thread are. A critical section that neither waits nor takes
a second lock is one action; acquiring the lock is another, because threads
contend for it. `pthread_cond_wait` gives up the lock and sleeps in one step, a
signal moves the sleeper to the acquisition of the lock, and a spurious wakeup
may do so at any time. `slots` is a history variable.

### OS

A cpu's iteration is cut where other threads can come in between: the first
`get_proc`, `free` or `put_proc`, the second `get_proc`, the recheck that reads
`done`, the end of the slot. `run()` is one instruction counted; its effect on
memory is left out. The configuration (start time, priority, code length of
each job) is chosen in the initial state. `next_slot` is the wait for `Tick`, and
that `Tick` comes when every thread has arrived or left, and not before, is taken
as given: `Timer` is the model of the code that sees to it, `SlotBarrier` the
promise it is shown to keep.

### Libmem

`symrgtbl` and `vm_freerg_list` are the symbol table and the list of free
regions of vma0; a list is a sequence of regions. `get_free_vmrg_area` is
`FirstFit` and `Carved`: a region that is used up becomes a clone of its
successor, whose node is freed, and the last node stays, empty. `__alloc` falls
back on `sbrk`, which stays 0: SYSCALL 17 reaches `inc_vma_limit`, which returns
0 and does nothing, and `__alloc` ignores the result. All fresh regions thus
begin at address 0. That is the finding of `libmem_overlap`; to say what the list
operations do apart from it, a region carries the number of the request its
bytes came from (`grab`), and the other properties compare regions of one
request only. `tail` is the `rg_next` of the very first region, which `init_mm`
copies from memory it never assigned: NULL or wild. A step that would follow a
wild pointer sets `fault` and nothing happens after it.

### Paging

`ram[f][i]` is entry `i` of the table in frame `f`; of an entry only the
present bit and the frame number are kept. `Tables` is the walk of
`get_pte_address` (`Child` one level of it, `Reach[k]` the pages below a table
with `k` levels under it, a shift in the code), `StepDown` one level of
`pte_set_fpn` with the table it allocates on demand. `MapOp` is SYSMEM_MAP_OP,
`IoWrite` is SYSMEM_IO_WRITE, `GetPresent` and `GetAbsent` are `pg_getpage`,
which `libread` and `libwrite` come down to; a step of `GetAbsent` takes a
victim with `find_victim_page`. `loaded` says for which processes the loader
called `init_mm`; with no frame left it fails, and `CallWild` is any later call
of that process.

`VmMapRam` and `VmMapRamNoFrames` are `vm_map_ram` (enough frames or too few).
It is the component's way to map pages to frames of their own, but in this
commit its only call is commented out, in `inc_vma_limit` (`mm-vm.c:153`): as
the program stands `fifo_pgn` stays empty and all mapped pages have frame 0.
The actions are there because a safety property of the larger next-state
relation is one of the smaller, and because with them it also holds once the
call is made. All else is reached by SYSMEM_MAP_OP and SYSMEM_IO_WRITE.

IO_WRITE stores one byte anywhere in RAM. A table is made of such bytes, so the
action may change any entry of any frame in one byte (`OneByte`): the low byte
of its frame number or the rest. Bytes of an entry that hold neither the frame
number nor the present bit are not modelled. `written` is a history variable:
the frames IO_WRITE changed while they were free or held a table. Frames are
counted in units of `PAGING_PAGESZ` and used as tables of `PAGING64_PAGESZ`, so
that only the frames of `Stored` lie in the storage that `init_memphy` zeroes.
What lies past it is memory with any contents (`Heap`), for nothing checks an
address; writing there is undefined.

The code thus relies on three things it does not see to, and `Sane` names them:
the frames taken from the list so far lie in the storage, their numbers are
read back as they were stored (`PlainFrame`), and IO_WRITE has changed no table
and no free frame that became one without being cleared. The properties of
`Paging` but `TypeOK` claim something only for as long as `Sane` holds, and the
theorems state it. They are not empty for that: only `init_mm` clears the frame
it takes, and lower tables, taken by `pte_set_fpn` in the middle of a walk,
hold what was there before. `Isolation` is about what the processes share: no
step changes tables of two of them, nor a table that two have in common.

### FramePool

`tpc` is the next statement of a thread in `MEMPHY_get_freefp`, `fp` its local
variable. A node of the list is named by its frame, because the list is built
once, in ascending order, and nothing is put back while the program runs. After
a freed node is used anything may happen; the model stops there (`fault`).

### SysMemmap

A system call of a process finds its own pcb by searching `running_list`, whose
array and length are `proc` and `size`. The scheduler changes them under
`queue_lock`, the search reads them without it. The build is not optimised
(`-g` without `-O`), so every load and store of the source happens, in its
order; each is an action. `wpc`, `wp`, `wj` are where the thread that holds the
lock stands in `enqueue` or `purgequeue`, `spc`, `i`, `found` where
`find_pcb_by_pid` stands. `rq->proc[i]` is loaded three times, for the test for
NULL (`TestNull`), for the pid (`TestPid`) and for the result (`Return`).

One process, `Me`, makes calls: a call writes nothing a search reads, so that
searches of other processes do not matter to this one. Its cpu runs the
instruction and thus does nothing else meanwhile (`Idle`); all other cpus and the
loader go on. Which ready process is dispatched is left open here, whereas
`Sched` says which. A pid is the pcb itself, for pids are unique; what the memory of
a freed pcb reads as is left open. MAP is the one operation whose effect depends
on which pcb was found, as `touched` records; INC changes nothing, the others
work on the devices, which all processes share.

`list` is the list as the operators of `Queue` compute it, `later` the pcbs
dispatched since the caller was, `moved` that the caller's entry changed its
place during the call, `phantom` that a freed pcb passed for the caller's.

## Runs

| Run | Bounds | Shows |
|---|---|---|
| `sched_safety` | 4 pcbs, 2 cpus, 3 levels, capacity 4 | one place per process, nothing lost, no freed pcb reachable, `running_list` as the search needs it, FIFO per level, `ProcLife` implemented |
| `sched_wait` | 3 pcbs, 1 cpu, 3 levels | the wait of a level is bounded by the others' quotas, and lowering the bound by one at any of the three levels makes the run fail; no starvation under endless arrivals |
| `timer` | 3 devices, 2 calls of `next_slot` each | lockstep, no data race on `done`, `fsh`, `_time`, no lost wakeup, no deadlock; waits end, `stop_timer` returns, `SlotBarrier` implemented with its fairness |
| `os_safety` | 3 jobs, 2 cpus, 2 levels, slices of 2, start 0 or 1, length 1 or 3 | whole slices, work conservation, no job left behind, jobs added on time |
| `os_live` | 2 jobs of length 0, 1 or 3 | every job finishes; `OS` implements `Sched`, fairness included |
| `libmem_safety` | 3 registers, sizes 0, 1 and 3, 7 instructions | no byte twice, none leaked, no dead nodes, `RegionHeap` implemented |
| `paging_safety` | 2 processes, 6 frames, 3 levels of 2 entries, 3 calls of up to 2 pages, IO_WRITE into frames 1 and 3 | tables private and apart, entries as mapped, frames accounted for while `Sane` holds |
| `framepool_race` | loader and 2 cpus, 4 frames | no frame skipped; harm only from overlap |
| `sysmem_search` | 4 pcbs, the caller's among them, 2 cpus, capacity 3 | the array is the queue whenever the lock is free; what the search may miss or mistake, and when; that it ends |
| `os_stop`, `libmem_overlap`, `paging_sign` | smallest that show it | each one disagreement between code and comment (below) |

Why the bounds are enough to be interesting: with four addresses a pcb can be
reused while others are queued and running; three levels with quotas 3, 2 and 1
give rounds in which any subset of levels waits; two calls of `next_slot` bring
a fast device back to the barrier while the timer thread still releases the
slow ones; code lengths 1 and 3 around a slice of 2 make a job end before,
inside and after its first preemption, and length 0 is the program without
instructions. `MaxTime` exceeds the last slot in which a job can be added, and
`_time` matters for nothing else. `Horizon` makes each device detach in the end.
With sizes 1 and 3 a region is split, used up at the head, in the middle and at
the end of the list, and refused as too small; size 0 fits every region, the
empty ones too. Seven instructions are the first at which a list of three
regions can lose one from its middle (with two nodes behind the head), where a
wrong clone shows. Six frames are used up by two calls of two pages, so that
`init_mm`, the allocation of frames and that of tables all fail at some point.
In `paging_safety` the frame numbers stay below half of `BYTE`, where entries are
read back correctly; `paging_sign` is the same system past it. Both have
`PAGING64_PAGESZ` = `PAGING_PAGESZ`, because otherwise the storage would end before the list of frames and
`Sane` with it, and exhaustion would never be seen; for other values there are the theorems. IO_WRITE stores the frame numbers 0 and 3, present or not, in frames 1 and
3: each is, at different times, free, a table of the first or of the second process, or a page. Three levels are
the fewest with a table that is neither first nor last. A frame number is masked
to 13 bits in the code; `PagingAssumption` has no more frames than that. With
four pcbs and two cpus there can be freed, running and ready pcbs in front of and
behind the caller's entry at once; a list of three places fills up, so that
`enqueue` refuses a pcb, and its entries shift by one or two during one search.

The runs that expect a violation:

* `os_stop`: a cpu that finds no process at the top of its loop goes to the
  next slot without testing `done`. If it is idle when the last job ends, it
  idles for ever. With one cpu it suffices that the last job ends in the slot
  in which the loader is about to set `done`.
* `libmem_overlap`: `sbrk` never moves, so two allocations that the free list
  cannot serve name the same addresses.
* `paging_sign`: bytes of an entry are read as signed; a frame number from 0x80
  up reads as another one, and as present.

Other defects met on the way, which the models contain and no run is spent on:

* `enqueue` ignores a pcb when the array is full, and `add_proc` loses the
  process; the properties of `sched_safety` hold because its queues have room
  for every pcb (`Roomy` in the theorems).
* Two threads inside `MEMPHY_get_freefp` get the same frame and free its node
  twice; `SoundAlone` says that nothing else does harm.
* The search of `sys_mem.c` can miss its caller, or return another process, when
  a process in front of the caller is put back during it: the call then fails, or
  changes that process's page table. `UnmovedIsFound` and `OnlyLaterTouched` say
  when and which.
* A finished pcb stays on `running_list` after its `free`; the list then names
  freed memory, which the search of `sys_mem.c` reads.
* The list head that `init_mm` makes the successor of the first region was never
  assigned (`AllocWild`).
* `init_mm` fails without setting anything when no frame is left, and
  `ld_routine` ignores it (`CallWild`).
* IO_WRITE can overwrite a page table of any process, or a free frame that
  `pte_set_fpn` takes for a table without clearing it; `Sane` excludes that.
* Frames are listed in units of 256 bytes and used as pages of 4096: fifteen in
  sixteen lie past the storage, and `input/os_1_mlq_paging_small_1K` has less RAM
  than one table (`Stored`).
* MAP_OP maps every page to frame 0, which is the top table of the first process
  the loader loads.
* In code that no call reaches in this commit: `vm_map_ram` that fails half-way
  frees the frames of pages already mapped and leaves their entries, and
  `find_victim_page` dereferences NULL if the FIFO has one page.
* For an absent page `pg_getpage` returns 0 although the code that would bring it
  in is still to be written (`GetAbsent`).

### Fairness

Threads run (weak fairness of each thread's steps): they are pthreads, and
nothing in the code blocks them but the locks and waits that are modelled. A
mutex that is released again and again is granted in the end (strong fairness
of the acquisitions in `Timer`); two threads at most contend for each. No
fairness makes a wait end without a signal. In `Sched` a cpu keeps asking for
work and does not keep a process for ever (one cpu is enough for `sched_wait`,
where levels compete for dispatches; `os_live` has two); `os_live` checks that
the threads of `OS` do so (`SchedSpec`). In `OS` it is taken as given that the timer
ends a slot; the run `timer` shows it of `Timer` (`NextSlotReturns`, `BarrierSpec`). In `SysMemmap` only the searching thread is assumed
to run: the search waits for nobody.

## Theorems

For every number of pcbs, cpus, levels, devices, jobs, registers and frames, and
every capacity, slice, size, depth and width of page tables, under the named
assumptions of the modules (`QueueAssumption`, `SchedAssumption`, `TimerAssumption`,
`OSAssumption`, `LibmemAssumption`, `PagingAssumption`, `StorageAssumption`):

* `QueueProofs`: what the queue operations do to the contents of a queue
  without duplicates, and that such a queue has room for a pcb it lacks when no
  more pcbs exist than it holds (by injection into the set of pcbs).
* `SchedProofs`: `SInv` = `TypeOK`, `Exclusive`, `NoDangling`, `ListedOnce` is
  inductive. `Exclusive` alone is not: that a freshly allocated pcb is in no
  queue needs `NoDangling`, that purging removes a pcb altogether needs the list
  to be free of duplicates, which in turn needs ready pcbs not to be listed.
  `NoneLost` and `DispatchedListed` are inductive with it when the queues are
  `Roomy`; without that they are false. Under the same hypothesis every step
  maps to a step of `ProcLife`.
  Of `SchedWait`, `BoundedWait`, by counting: what the levels have left of
  their `slot` is a set of turns; a dispatch takes one turn out of it (`TurnTaken`).
  By `WaitInv`, a level with a dispatch left has only the turns that higher levels
  have left to wait for; one without has all the turns left and then the
  higher levels' turns of the next round.
* `TimerProofs`: `TInv` ties lock ownership and flags to where the threads are,
  and the count of slots to the time. The clause that carries the induction: a
  device that the scan is past, or that has yet to be told of the new slot, has
  `done` or `fsh` set, so it cannot be working. Lockstep, absence of data races
  and of lost wakeups follow, and every step maps to a step of `SlotBarrier`.
* `OSProofs`: every step of the threads is a step of `Sched`, so the theorems
  above hold of the program. `WholeSlice`
  follows from `SliceInv`, which says what `time_left` and the process of a cpu are at
  each place of its loop. `WorkConserving` needs `WorkInv`: while a cpu goes without
  a process, no more processes are ready than cpus are between their `put_proc` and
  the `get_proc` after it, and the one the loader added in this slot; at the end
  of a slot no cpu is there. `NothingLeftBehind` adds `StopInv` (`done` is set only after the
  last job, and only a cpu that saw it leaves) and takes the queues to be `Roomy`
  and one cpu to exist: without one nobody runs the jobs, in a full queue they are
  lost. `AddedOnTime` takes `TimeSuffices`: the bound `MaxTime` does not stop the
  clock before the last job can be added.
* `LibmemProofs`: `LInv` = `TypeOK`, `Tagged`, `NoOverlap`,
  `NoDeadNodes` is inductive. `Tagged` says that regions come from requests
  already made, hence a fresh one overlaps nothing; the type is needed with it
  because a region that ran backwards would split into two that overlap. The
  lemmas `Unlinked`, `CarvedCases` and `CarvedNodes` say what taking space from a
  list does to each of its nodes. `NothingLeaks` is inductive with it: carving,
  enlisting and naming a region each move its bytes (`SplitBytes`, `CarvedBytes`,
  `NamesBytes`) and drop none. `ImplementsHeap` maps every step to one of
  `RegionHeap`: `Owns` says who owns each byte under the mapping (`Owner`), and
  every request served at `sbrk` opens a stretch of its own, because it is for at
  least one byte (`Paid`): the list serves those for none. It assumes that no register is named
  "free" or "lost", the owners of the bytes no register has.
* `PagingProofs`: `TypeOK` holds without condition; in it, that no frame is twice on
  the free list, which the failing calls give frames back to. All else holds while
  `Sane` does (`PrivateTables`, `ReadAsMapped`, `EveryFrameAccounted`, `TablesIsolated`,
  `ReadsBack`), for any contents of the memory past the storage, any sizes of frame and
  table and anything IO_WRITE stores. `Sane`, once false, stays false (`SaneBefore`). The
  invariants come from a forest: `at` names the frame of each table of each process, no frame
  twice, and the last level holds what the history says was mapped (`Forest`,
  `Leaves`). That there is one is the invariant (`Inv`); none of the invariants alone is
  inductive, because a new table keeps the others private only if its frame is no table, is
  blank unless it is one that may not be taken (`Clean`), and is not on the list of frames the same
  call has taken (`Sound`, `held`). `StepDownSound` and `SetFpnSound` keep `Sound` along the walk
  of `pte_set_fpn`, which may fail at any level and leave the tables it has added;
  `LoopSound` does so along `vmap`, and `vmapSound` brings it to the calls. `Apart` is
  the part of it `Isolation` needs: the walk changes only frames of the process it is for and
  frames that were free. A store outside the tables leaves the forest as it is (`ForestElsewhere`).
  `EntryReadBack` is a claim of the source without reservation, hence proved under
  `Sane`, and `paging_sign` shows it violated beyond. The walk and the loop
  are recursive functions of the level and the page; facts about all their values
  are proved from the smallest number without them (`Least`, `Climb`), as induction
  schemes cannot be used.
* `FramePoolProofs`: `NoneSkipped` for any number of frames and threads, and
  `SoundAlone`: while calls have not overlapped, at most one thread is inside,
  the list is a run of frames up to the last, and the frames handed out are those
  before it.
* `SysMemmapProofs`: `ArrayIsQueue` from an invariant that says how far
  the writer is: what it has shifted is already the purged list, what lies ahead is still the old
  one. `UnmovedIsFound` from two: unless the caller's entry moved, it is never
  behind the index of the search, and once the pid matched it is at the index.
  `OnlyLaterTouched` rests on what stands behind the caller having been dispatched
  later (`BehindInv`), and on the index, once the pid matched, at most one place
  in front of the caller's (`MatchInv`): what a shift brings there is the caller or later.

Only model-checked: liveness (`ReadyIsDispatched`, `NextSlotReturns`,
`ShutdownEnds`, `EveryJobFinishes`, `SearchEnds`) and the fairness part of
`SchedSpec` and of Timer's `BarrierSpec`, which are out of the prover's reach. Every
invariant and every other action property of a passing run is a theorem.

## Not modelled

The parts that are not in the build (`mem.c`, `mm.c`, the non-MLQ scheduler) and
`paging.c`, a program of its own. The parsing of program and configuration
files. The contents of pages: no code of this commit moves any
(`pg_getval` and `pg_setval` stop at the page). `pte_set_swap`, `pte_set_entry`
and `free_pcb_memph`, which nothing calls, and `__swap_cp_page`. A device is read
and written at random; the sequential mode is never configured. SYSMEM_IO_READ, which
changes nothing, and the copy that SYSMEM_SWP_OP makes: it reads RAM and writes the swap device,
whose contents nothing in the model depends on. The instructions of a
program are counted in `OS` and their effect on memory is the subject of `Libmem`
and `Paging`, one process or one call at a time: their product with the scheduler
would say nothing new, because a process runs on one cpu at a time (`Exclusive`)
and an mm belongs to one process.

## Plan

1. Done: `Queue`, `Sched`, `ProcLife`, `SchedWait`, `Timer`, `SlotBarrier`,
   `OS` and their theorems.
2. Done: `FramePool`, the free-frame list taken from without a lock.
3. Done: `Libmem` against `RegionHeap`, with `LibmemProofs`.
4. Done: `Paging`, the walk and the entries, scaled, against the history of what
   was mapped.
5. Done: `SysMemmap`, the unlocked search of `running_list` against the stores of
   the scheduler.
6. Done: the theorems of `FramePool`, `SysMemmap`, and the remaining invariants of
   `OS`, `Sched` and `Libmem`.
7. Done: the bound of `SchedWait` and the refinement of `RegionHeap` as theorems.
8. Done: the invariants of `Paging` as theorems.
9. Left: `vm_map_ram` at the grain of `FramePool` once `inc_vma_limit` calls it;
   swapping, once `pg_getpage` does it.
