# A TLA+ model of an extended xv6 kernel and of its scheduling simulators

This directory holds TLA+ modules, TLC configurations and TLAPS proofs for the
repository beside it: an xv6-riscv kernel extended with `clone`/`join`, UNIX
signals, counting semaphores, message queues, `psinfo` and `getcwd`
(`src/Groupname_Project1_xv6CustomizeSystemCalls/xv6-riscv`), and five small
CPU-scheduling simulators (`src/Groupname_Project2_2`). `PROJECT.json` maps each
definition to the source lines it models, and lists components, runs, mutants,
findings, hazards and theorems. Paths below such as `proc.c:534` are relative to
`xv6-riscv/kernel`.

## 1. Inventory of the system

The kernel runs on several harts. Each hart is in its scheduler loop, on the
kernel stack of one process, or in user space. Everything hard in it comes from
three sources: code on several CPUs interleaves at every point where no common
spinlock is held; a timer interrupt may take the CPU away wherever interrupts
are on; and a crash may come between any two disk writes.

| component | state | operations | hard because | correct when |
|---|---|---|---|---|
| scheduling, sleep, wakeup (`proc.c`) | `state`, `chan`, `lock` of `proc[]`; `cpus[].proc` | `scheduler`, `sched`, `yield`, `forkret`, `sleep`, `wakeup` | `p->lock` is handed from one stack to another across `swtch`; sleeping and waking race | one CPU per stack; no lost wakeup; no `sched` panic |
| semaphores (`sysproc.c:16-31, 307-356`) | `semtable[10]`: lock, count | `sem_wait`, `sem_post` | several waiters per wakeup; `kill` wakes them too | they implement counting semaphores; posted units are taken |
| process life cycle (`proc.c`) | `proc[]`: pid, parent, state, killed; `wait_lock`, `nextpid` | `fork`, `clone`, `exit`, `wait`, `join`, `kill` | a parent and a child exit and wait on different CPUs; slots are reused | parents outlive children; no exit missed; no slot freed in use; kills reach whom they name |
| signals (`trap.c:79-125`, `sysproc.c`, `proc.c:581`) | `pending_signals`, handlers, `is_handling_signal`, `sig_tf`, trapframe | `signal`, `sigreturn`, `kill`, delivery on the return from a trap | senders on other CPUs; handlers that make system calls; SIGKILL at any moment | handlers do not nest and are transparent; who is killed outside a wait for an event dies; no signal is lost |
| message queues (`sysproc.c:163-267`) | `msgqueues[4]`: lock, ring, head, tail, count; `msgq_initialized` | `msgq_send`, `msgq_recv`, lazy `msgq_init` | user copies fail half way; initialisation under no lock | they implement bounded FIFO queues |
| memory (`kalloc.c`, `vm.c`, `exec.c`) | free list, page tables, `sz`, `is_thread`, `mem_parent` | `kalloc`, `kfree`, `uvmcopy`, `uvmshare`, `sbrk`, page faults, `exec` | threads map frames their creator owns and may free | no frame is free and mapped; none leaks |
| log (`log.c`), buffer cache (`bio.c`) | log header and blocks on disk, `outstanding`, `committing`; cached, pinned buffers | `begin_op`, `log_write`, `end_op`, `commit`, recovery; `bread`, `brelse` | crashes; group commit; absorption; space reservation; recycling of buffers | operations are atomic across crashes; the log never overflows |
| inodes, directories, paths (`fs.c`, `sysfile.c`, `syscall.c:175`) | inode table (`ref`, `valid`, sleep locks), inodes and entries on disk | `iget`, `ilock`, `iput`, `ialloc`, `namex`, `open`, `link`, `unlink`, `mkdir`, `chdir`, `getcwd`, `ireclaim` | the last reference and the last link race; an inode is freed and allocated again while others hold pointers; crashes leave unlinked inodes | counts agree with the tree; an inode is freed once, when nothing refers to it; no panic; no circle of locks |
| file contents (`fs.c`, `file.c`) | bitmap, block addresses, size | `filewrite`, `writei`, `bmap`, `balloc`, `bfree`, `itrunc` | the disk fills up half way; a write is cut into transactions | a block has one owner; files have no holes |
| pipes, open files (`pipe.c`, `file.c`) | ring, `nread`, `nwrite`, open flags; `ftable` reference counts | `pipe`, `dup`, `fork`, `close`, `exit`, `pipewrite`, `piperead` | two sleep channels; close and kill come from other processes; the page is freed and used again | bytes in order; freed once; nobody sleeps for ever |
| disk driver (`virtio_disk.c`) | descriptors, two rings, `info`, `ops` | request, interrupt | the device takes and completes requests in any order while CPUs submit others | each request is done once; chains do not overlap; nobody sleeps for ever |
| console, uart (`console.c`, `uart.c`) | input ring with three indices; `tx_busy`, the port | line editing, `consoleread`, `uartwrite`, `uartputc_sync` | the interrupt handler edits what readers wait for; two ways of sending share a port | lines are read as edited, in order; the port is not overrun |
| boot, `mkfs`, `string.c`, user programs | none of interest | | sequential | |
| simulators (Project 2) | process table, CPUs, queues, clock | pick, run one tick or a quantum, preempt, boost | ties, arrival gaps, the order of three loops in a cycle | the best run where a policy preempts; nobody is lost; waiting times are right; they end in time |

How they interact: system calls run in the process's own kernel stack and call
each other as C functions; they share the tables above under spinlocks
(`wait_lock` before `p->lock`; a condition lock before `p->lock` in `sleep` and
`wakeup`); they wait through `sleep(chan, lk)` and are woken by `wakeup(chan)` or
by `kill`; signals act on the way back to user space in `usertrap`; files call
inodes, inodes call the log, the log calls the cache and the cache the driver.

## 2. Modules

| module | models | built on |
|---|---|---|
| `Sched` | pieces of actions: dispatch, switch, yield, sleep, wakeup, for any component that blocks | |
| `SemSpec` | what semaphores promise (no locks, no CPUs) | |
| `Semaphore` | `sem_wait`, `sem_post`, one lock operation per step | `Sched`; refines `SemSpec` |
| `SemaphoreProofs` | theorems about `Semaphore` | `Semaphore`, TLAPS |
| `Proc`, `MCProc` | fork/clone, exit, wait/join, kill; `MCProc` adds the CPU symmetry | `Sched` |
| `ProcProofs` | theorems about `Proc` | `Proc`, TLAPS |
| `Signal` | signals and the end of `usertrap()` | |
| `SignalProofs` | theorems about `Signal` | `Signal`, TLAPS |
| `Fifo` | what message queues promise | |
| `MsgQueue` | `msgq_send`, `msgq_recv`, `msgq_init` | refines `Fifo` |
| `ThreadMem`, `MCThreadMem` | frames and page tables of processes and threads; `MCThreadMem` adds the view and the symmetries | |
| `ThreadMemProofs` | theorems about `ThreadMem` | `ThreadMem`, TLAPS |
| `MCKernel` | one instance of `Proc` and of `ThreadMem` | `MCProc`, `MCThreadMem` |
| `AtomicDisk` | what the log promises: one memory, made durable at moments when no operation is under way | |
| `Log` | the write-ahead log over the buffer cache, with crashes | refines `AtomicDisk` |
| `LogProofs` | theorems about `Log` | `Log`, TLAPS |
| `FileSys`, `MCFileSys` | inodes, directories, paths, `getcwd`, `ireclaim`; `MCFileSys` adds workloads and symmetry | |
| `FileSysInv` | the inductive invariants of `FileSys`, and what one process may rely on when another steps | `FileSys` |
| `FileSysProofs` | theorems about `FileSys` | `FileSysInv`, TLAPS |
| `FileData` | blocks of files | |
| `Pipe` | a pipe, its two open files and their descriptors | |
| `Virtio` | the disk driver and the device | |
| `Console`, `Uart` | line editing and reading; the serial port | |
| `MCIo` | one instance of `MsgQueue`, `Log`, `Virtio`, `Console`, `Uart`, `Pipe`, `FileData` | all of these |
| `IoProofs` | theorems about `MsgQueue`, `Virtio`, `Console`, `Uart`, `Pipe`, `FileData` and about `MCIo` | `MCIo`, `LogProofs`, TLAPS |
| `Orders` | a finite set listed in an order: what the loops that pick do with ties | |
| `MultiSim`, `UniSim` | the multiprocessor and the single-CPU simulators of Project 2 | `Orders` |
| `MCSims` | one instance of both | `MultiSim`, `UniSim` |
| `MCFilesSims` | one instance of the file system and of the simulators | `MCFileSys`, `MCSims` |
| `SimProofs` | theorems about `MultiSim`, `UniSim` and about `MCSims` | `MCSims`, TLAPS |
| `Updates` | three short forms of `EXCEPT` | |

`MCIo`, `MCSims`, `MCKernel` and `MCFilesSims` put components that share no state
into one instance: the variables `part`, `machine` and `scene` say which of them
moves while the others keep their first state, so that one run checks each of
them in full without multiplying their states. Nothing more is meant by the
company: the simulators have nothing to do with the kernel, and the memory of
processes (`ThreadMem`, with its own process table and its own names) is
independent of their life cycle (`Proc`). The views `KernelView` and
`FilesSimsView` drop the component that stands still.

Conventions. The names of variables and actions follow the source. `pc[p]` is
the place in the code where process `p` is. A critical section under a single
spinlock with nothing inside that another CPU can see or block is one step that
needs the lock free; a lock held over several steps is a variable. An operator
introduced by "A plausible bug:" is not part of the specification: it is a
mutant of the definition that follows it, and `PROJECT.json` says which property
catches it.

### Sched and Semaphore

Spinlocks are owned by CPUs (`lk->cpu`), so `plock[p]` is a CPU: the one that
took `p->lock` in `sleep` or `yield` keeps it in `scheduler()` after `swtch`.
`cpu[c]` is the process whose kernel stack CPU `c` is on, which is not the same
as being RUNNING: a process that has become SLEEPING or RUNNABLE is still on its
stack until `Switch`. Interrupts are off while a spinlock is held, so `Preempt`
is possible only at the program points of `Preemptible`.

`sleep()` is four steps (take `p->lock`; release the condition lock; become
SLEEPING; later leave the stack), `wakeup()` is one step per slot of `proc[]`,
and `kill()` may wake anybody at any time. The `pc` order in `sem_wait` is
wait -> test -> (user | sleep -> sleeplk -> sleepon -> asleep -> wait).

### Proc

Slot 1 is initproc, slot 2 the shell it has forked. `fork` and `clone` have the
same steps here (they differ in memory): take a slot with `np->lock` held
(`AllocProc`), fail or finish the copy, set the parent under `wait_lock`, make
the child RUNNABLE under its lock; between these steps the parent may be
preempted, killed, or overtaken. `kexit` hands its children to init one by one
under `wait_lock`, wakes its parent, becomes ZOMBIE with both locks, releases
`wait_lock`, and leaves its stack. `kwait` and `kjoin` share their steps: `want` is 0 or the pid.
A wakeup of a process pointer can only change that process's slot, so it is the
visit to that slot. `victims` is a history variable of the pids named in kills.

### Signal

`pending_signals` is one memory word. `kkill()` updates it with the target's
lock held, `usertrap()` of the target without; an update is a load into `reg`
and a later store. Trapframes are abstracted to what a program resumes (its main
program, a handler, or junk from an uninitialised page) and `a0`, since the
result of an interrupted system call lives in `a0`. The one system call that
sleeps is `sys_pause`. `tickslock` is held from its test of `killed` until
`sleep()` has `p->lock` (`pc` "dozing"), and is not seen by `kill`: a `kill` that
comes in between finds nobody asleep and wakes nobody, the process sleeps although
killed ("asleep"), and the next tick makes it look again. So `KilledDies` is about
user space, `usertrap()`, `kill()` and `pause()`. It is not about calls that wait
for something else: `sys_sem_wait` (`sysproc.c:323-325`) sleeps in a loop without
any test of `killed`, and a process killed there with nobody to post never dies
(hazard H15; `Semaphore` has this: `Kill` there makes the process test the count
again). `wait()`, pipes and the console test `killed` as `pause` does, but no tick
ends their sleep.

### MsgQueue

Each system call is split at the test of `msgq_initialized`, at each iteration
of `msgq_init()`, at `acquire`, at the user copy, and at `release`. A failing
`copyin()` may leave part of a message in the slot (`Garbage`). The abstract
queue is `Contents`, the ring read from `head`.

### ThreadMem

`pt[p]` is the user part of `p`'s page table and `free` the free list, as a set:
`kalloc` may give any frame of it. A loop that allocates page after page
(`uvmcopy`, `uvmshare`, `uvmalloc`, `exec`) is a step per page, so that others
allocate, free and run out in between, and its error path is one more step. The
frames of the trapframes and of the page-table pages are counted with the page
table (`table[p]`): `allocproc` and `freeproc` take and give them together.
`Spawn` is the `allocproc` of `fork` and `clone`, `Collect` the reaping in
`wait` and `join`, `CopyStops` the error path of `uvmcopy`.
`panicked` records the two panics an inconsistent `sz` would cause.

A thread's entries point to frames of its creator (`mem_parent`), and the kernel
relies on programs for the rest: with `Discipline`, a creator shrinks, execs and
exits only when its threads are gone, and a thread neither changes its size nor
execs nor is the first to touch a lazily allocated page. With
`Discipline = FALSE`, `NoDanglingRefs`, `NoLeak` and `Ownership` are all false:
the creator's `sbrk(-n)` frees frames its thread maps, and a page that a thread
allocates is lost when it is reaped. What the run shows is that
these rules are enough.

### Log and AtomicDisk

A step is a critical section under `log.lock`, a `bread`, a release, or one disk
write together with the copying that leads to it; a crash (`PowerFails`) may
come between any two, also during recovery. `cache[b]` is the buffer of a block,
`ref` and `holder` its count and lock. Which buffers `bget` recycles is left
open: any without references, at any time, so that a missing pin loses data.
The abstract memory is what `bread` would return, and what is durable is what
recovery would produce from the disk as it is (`Recovered`); `commit` becomes
`Sync` at the write of the header, every other step of `commit` and of recovery
a stutter. The bound `OpWrites` is the number of distinct blocks an operation
writes; an operation holds one buffer at a time. Two limits of the code are
outside this: `log_write` tests `lh.n >= LOGBLOCKS` before it looks for the block
in the log, so that an operation that rewrites a block when every reserved one is
used would panic (`filewrite` stays below `MAXOPBLOCKS`, so it cannot happen);
and the size of the cache is not modelled.

### FileSys

An inode on disk is `type`, `nlink` and a directory's entries. `iref[i]` is the
reference count of the table entry of inode `i` (0: no entry), `core[i]` its
`valid`, `type` and `nlink`, `lock[i]` its sleep lock. A step is the part of a call
under one sleep lock, or one critical section of `iput()` (`PutRef`, `PutLast`,
`PutFree`, `PutFreed`). `disk` is what operations see, `stable` what the last commit
left and a crash goes back to, in the manner of `AtomicDisk`. After a crash
`ireclaim` frees what has no links. A path is the list of its elements; one
without elements ("/" or "") leads to the start of the walk, and has no parent
(the first disjunct of `WalkParent`).

With `RemoveBusy = FALSE` a directory is removed only while nobody else has a
reference to it (works in it, or is on a path through it). With `TRUE`, and calls that make, enter
and remove a directory inside another, `LinkCount`, `CoreIsDisk`, `NoInodeLost` and `NoFsPanic`
fail, for reasons that are known in this design: `create()` in a directory just removed gives an
inode one link and no entry that leads to it; its `..` may name an inode that
has been freed, and `ilock` panics ("ilock: no type"); `getcwd` drops a reference
outside a transaction (`syscall.c:222`), and if it is the last to a removed
directory, `iput` writes to the log and `log_write` panics.

### FileData

Scribes write to and truncate files that they lock, and share the bitmap. A
`filewrite` is cut into chunks as in the code; `Bmap` allocates the block of the
next piece (and the indirect block), and may find the disk full; `itrunc` gives
the blocks back one by one. Transactions and crashes are left to `Log`.

### Pipe

One page serves for pipes again and again. `pipewrite` and `piperead` are a turn
of their loop per step; a process may be killed at any of them. A process killed
inside `pipewrite`'s loop returns without the final `wakeup` (`deserted`): a reader
may then sleep on although there are bytes, until the next write or close, and
`NoWakeupLost` excepts that case. `exit`'s release of the working directory is in
`FileSys`, not here.

### Virtio, Console, Uart

`Virtio` takes the device as a process that accepts any submitted chain and
completes accepted ones in any order; a buffer stands for the process that
transfers it. `Console` has the three indices of the code, counted modulo
`CWRAP` as the code counts modulo 2^32, and a history (`line`) of the characters
that are to be read, against which reads are compared. `Uart` counts bytes: `uartwrite` sends a byte
when `tx_busy` is clear, without a look at the port; `uartputc_sync` looks at its
status register but not at `tx_busy`; `PortHasRoom` says that the port, which
holds `TXFIFO` bytes, is never given more.

### MultiSim and UniSim

The seven multiprocessor policies have one shape, a cycle of three loops, and
share it: `BeginCycle`, the hand-out of CPUs (`AssignBest` and its variants), one
tick (`RunTick`). The single-CPU ones differ more and have an action each.
`rand()` is any winner of the range the code computes. The model follows the
code where that differs from what one expects: Aryan's round robin scans from
process 0 each time, its EDF does not preempt (finding 6), its MLFQ writes to
`processes[-1]` in a branch (the effect is left open: the run goes on with that
CPU idle, or crashes) and never takes its branch that preempts; Vijay's lottery
ends when nobody who has arrived has work left, whoever is still to come (finding
7); Ayush's lottery does not preempt. `BestRun` therefore asks for preemption of
Bhanu's two policies and Ayush's RMS only, and `NearestDeadlineRuns` asks it of
every EDF. `WaitingShown` is about the nine programs that show waiting times;
Vijay's two show none.
The tables that are typed in have bursts and keys (period, deadline, priority,
tickets) of at least 1 (`MsAssumption`, `UsAssumption`); the programs do not test
this (a lottery without tickets divides by zero).
Scans "from process 0 on, keep the best" and sorted insertion are `InOrder` of
`Orders`: the set in the order of the key and, at ties, of the index.

## 3. Runs

| run | instance | shows |
|---|---|---|
| `Semaphore` | 3 processes, 2 CPUs, 1 semaphore, count at most 2 | lock discipline, no lost wakeup, refinement of `SemSpec` with liveness |
| `Kernel` (`MCKernel`) | `Proc`: 3 slots, 2 CPUs, pids up to 4, kills of 3 and 4; or `ThreadMem`: 3 slots, 7 frames, 2 user pages, programs of 1 page | life-cycle invariants; frames are never free and in use, lost or owned twice; no panic; no deadlock |
| `ProcBornKilled` (`MCProc`) | `Proc` with 0, 2, 3 and 4 among the pids given to `kill` | finding 1 |
| `Signal` | 2 processes, 1 of them a target, 3 signals | handler properties; the killed die; no starvation |
| `SignalLost` | the same | finding 2 |
| `MsgQueueRace` | 2 processes, 1 queue, both may make a first call | finding 3 |
| `ThreadShare` (`MCThreadMem`) | `ThreadMem` as in `Kernel` | finding 4 |
| `InputOutput` (`MCIo`) | one part at a time: 2 processes each, and the bounds below | refinement of `Fifo` and `AtomicDisk`; the guarantees of the driver, pipes, console, port and block allocation; no sleeper without a cause |
| `FilesSims` (`MCFilesSims`) | `FileSys`: 2 processes, 3 inodes, 2 names, three workloads; or the simulators: the programs' own 20-process tables on 1, 2 and 4 CPUs, and all tables of 3 short processes | counts and copies agree with the tree; unlinked inodes are freed; no panic; nobody waits for locks in a circle; the best run; none lost; waiting times; the end in time |
| `FileSysLeak` (`MCFileSys`) | `FileSys` as in `FilesSims` | finding 5 |
| `EdfWaits` (`MCSims`) | the simulators as in `FilesSims` | finding 6 |
| `LotteryStops` (`MCSims`) | the same | finding 7 |

The two largest runs have about 720,000 (`Kernel`) and 1,150,000 (`FilesSims`) distinct states.

Bounds, and why they are enough for the cases that matter:

* Two CPUs are the fewest that race; a third adds no new pair of steps. Three
  processes give a poster, a waiter and a rival that steals the unit.
* One semaphore: semaphores share nothing but `proc[]`, and a process waits on
  one at a time. `MaxCount = 2` bounds posts and is above the initial 1, so that
  a second unit, and a second waiter for it, occur.
* `NPROC = 3` with `MaxPid = 4`: a grandchild is orphaned to init, and a slot is
  freed and used again twice. Kills name pids 3 and 4: pid 3 is the first that
  `fork` gives and may be freed, and its slot taken by pid 4, between the choice
  of the pid and the kill; a process killed as a parent and one killed as a child,
  and a kill of one that is exiting, all occur with these. Pid 2, the shell, differs
  only in being there from the start.
* `NSIG = 3` with SIGKILL the last: an ignored, a handled and a fatal signal can
  be pending at once, in every order of numbers. One target suffices because all
  that `usertrap()` touches besides `pending_signals` is private.
* `MAX_MSGS = 2`: the ring wraps, fills and empties, and has an order.
* 7 frames for 3 slots: three full processes want 9, and an `exec` 2 more, so
  memory runs out in each loop, at its first page and later. With two user pages
  an error path has a page to give back, and with programs of one page `exec`
  both shrinks and grows. Frames are interchangeable: the view `Shape` keeps of
  each frame only the places that refer to it, which is all the properties see.
* Log: two operations that may write two blocks each, and a log of four: both can
  be under way, a third `begin_op` must wait, blocks are absorbed, and a commit
  has two blocks, so that it can be cut between them.
* Virtio: three buffers and `NUM = 8`: two chains fit, the third request waits for
  descriptors, and a freed chain is taken apart and put together differently.
* Console: a ring of 2 with indices modulo 4; a line fills it, and all indices
  overflow. Pipe: a ring of 2 with counters modulo 4, likewise; `MAXREF = 2` lets
  each end be shared and dropped in any order; one of the two processes may be
  killed, the other must get on.
* FileData: blocks of 2 bytes, 1 direct and up to 3 indirect ones, 3 blocks on the
  disk: a file needs its indirect block, two files compete, the disk fills up in
  every place, and a write of 7 bytes is cut into chunks.
* FileSys: three workloads rather than all calls at once (a file and its links; a
  file in a directory that comes and goes; processes that work in a directory),
  each with two processes that make any calls of it in any order. Two inodes
  besides the root make `ialloc` fail and reuse an inode at once. The last
  workload also has an `unlink("/")`.
* Simulators: the tables of the sources are run as they are; the small ones have
  ties in arrival, length and key, gaps in which all CPUs are idle, and late
  arrivals.

`CHECK_DEADLOCK FALSE` is in the configurations where the system may really
stop: all processes waiting on semaphores nobody will post, all processes dead,
in `EdfWaits` and `LotteryStops` simulations that have ended. In `FilesSims` the
deadlock check is on and simulations that have ended have a step of their own
(`Over`), so no other may stop. `FileSys` can always crash, so TLC's deadlock check
says nothing there; `NoLockCycle` (when every process is inside a call, one of them
can take a step) and `NoCircle` take its place.

Fairness (in `Semaphore` and `Signal`; the other specifications state safety
only). A CPU inside a critical section runs with
interrupts off to its end; a spin on a lock that others hold in passing ends
(strong fairness of the steps of a CPU); the timer interrupts code that has
interrupts on (weak fairness of `Preempt`, `Interrupt`, `Tick`); as each tick
counts down what is left of a pause, a pause ends (strong fairness of `PauseEnds`); each scheduler
loop visits every slot again and again, so a RUNNABLE process is dispatched
(strong fairness of `Schedule` per process, as it may be found locked at times).
Of several processes that try the same semaphore lock again and again *one* gets
it: `spinlock.c` has no queue, so nothing stronger is assumed and the abstract
specification grants a unit to *some* waiter. Nothing is assumed of user
programs: nobody has to post, to call `sigreturn`, or to exit. That the
simulators end needs no fairness: `EndsInTime` bounds the clock of each by the
last arrival and the work to do (the test of `time` ends Vijay's), between two
ticks each loop makes its list shorter, and no simulation gets stuck before its
end. For the parts of `MCIo` there is no fairness; what could keep a process
asleep there is stated as safety: `SleepersHaveCause` says that whoever sleeps
waits for something that is still to come, and that comes with a `wakeup()`.

## 4. Findings

1. `kill(0, SIGKILL)` marks a free slot (free slots have pid 0), and the next
   process in it is born killed: `kkill` does not look at `p->state`, `allocproc`
   does not reset `p->killed`.
2. `usertrap()` clears bits of `pending_signals` without `p->lock`: a signal sent
   at that moment from another CPU can be erased.
3. Two racing first calls both run `msgq_init()`, which resets a lock that is
   held; both calls are then inside the queue.
4. The documentation says a thread shares "the exact same virtual address space".
   `kclone` copies the entries once: a page that either gets later is in one page
   table only.
5. Between `iput()`'s writing of type 0 and its `ref--` another process may
   allocate the inode and take the same table entry. If it then gives the inode
   up, its own `iput()` sees two references and frees nothing, and the first one
   only decrements: the inode stays allocated without links until the next boot.
6. The README of Project 2 says that EDF is preemptive, by deadline, and lists
   Aryan's. His `run_edf()` fills idle CPUs only: a process with a nearer deadline
   waits for a running one to complete. The same holds of his MLFQ, whose branch
   for preemption is dead code.
7. Vijay's README and the comment of `lottery_scheduling()` say that it goes on
   until all processes finish or time runs out. It stops at the first time at which
   nobody who has arrived has work left, and says that all have finished, although
   others are still to arrive.

## 5. Proofs

TLAPS checks the proof modules for every value of the constants, from the named
assumptions of the modules they extend (constants are distinct, bounds are
naturals) and, where the table says so, one hypothesis that is part of the theorem.

| module | theorem | statement |
|---|---|---|
| `SemaphoreProofs` | `TypeCorrect` | `Safety => []TypeOK` |
| | `Invariance` | `Safety => []IInv` |
| | `OneStack`, `SwitchLocks`, `NoWakeupIsLost` | the three invariants of the run, from `IInv` |
| | `Refinement` | `Safety => Abstract!Safety`: the code implements `SemSpec` |
| `SignalProofs` | `TypeCorrect` | `Safety => []TypeOK` |
| | `Invariance` | `Safety => [](TypeOK /\ HandlerInv)` |
| | `NoNesting`, `Transparency` | `HandlersDoNotNest` and `HandlerIsTransparent` |
| | `KilledIsOver` | `Safety => KilledWindsDown`: a killed process never enters user space again, and every step that moves it brings it nearer to its end |
| `ProcProofs` | `TypeCorrect`, `Invariance` | `Spec => []TypeOK`, `Spec => []IInv` |
| | `ParentsAreAlive`, `FreeSlotsAreOffCpu`, `ExitsAreSeen` | the three invariants of the run, from `IInv` |
| | `KillsReachTheNamed` | `0 \notin KillPids` implies `Spec => []OnlyTheNamedAreKilled` |
| | `SpinlocksAreOrdered` | `Spec => []NoSpinCircle`: no CPUs spin for each other's `wait_lock` and `p->lock` |
| `ThreadMemProofs` | `TypeCorrect`, `NeverPanics` | `MemSpec => []MemTypeOK`, `MemSpec => []NoPanic`, also for programs that break the rules |
| | `Invariance` | `Discipline` implies `MemSpec => []IInv` |
| | `NoneDangling`, `NothingLeaks`, `MemoryIsOwned` | `Discipline` implies `MemSpec => []NoDanglingRefs`, `MemSpec => []NoLeak`, `MemSpec => []Ownership` |
| `LogProofs` | `Invariance` | `LogSpec => []IInv` |
| | `LogIsSafe` | `LogSpec => []LogWorks`: no panic of the log, and what `end_op()` returned for is on the disk |
| | `Refinement` | `LogSpec => CrashAtomic`: the log implements `AtomicDisk` |
| | `BeginSafe` | `LogSpec => []BeginWaitsHaveCause` |
| `IoProofs` | `QueueTypes`, `QueueExclusion` | `OneEarly` implies `Spec => []TypeOK`, `Spec => []OneAtATime` of `MsgQueue` |
| | `QueueInvariance` | `OneEarly` implies that the conjunction of `CallInv`, `CopiedInv`, `RingInv` is invariant |
| | `QueueRefinement` | `OneEarly` implies `Spec => ImplementsFifo`: the rings are bounded FIFO queues |
| | `DiskSafety` | `VirtioSpec => [](DiskWorks /\ DiskWaitsHaveCause)` |
| | `UartSafety`, `UartRoom` | `UartSpec => []WritersWaitForPort`; `TXFIFO >= 3` implies `UartSpec => []PortHasRoom` |
| | `ConsoleSafety` | `ConsoleSpec => [](TypedInOrder /\ ReadersWaitForLines)` |
| | `PipeSafety` | `PipeSpec => [](PipeWorks /\ NoWakeupLost)` |
| | `FileSafety` | `FileDataSpec => [](BlocksOwned /\ NoHoles)` |
| | `IoSafe`, `IoFiles` | the same of the instance `MCIo`: `DiskWorks`, `TypedInOrder`, `PipeWorks`, `FilesKeepBlocks`, `SleepersHaveCause` |
| | `IoQueues` | `OneEarly` implies `ImplementsFifo` and `[]QueuesWork` of `MCIo` |
| | `IoConsole` | `TXFIFO >= 3` implies `IoSpec => []ConsoleWorks` |
| `FileSysProofs` | `FsBase`, `RefsCounted` | `FsSpec => []BaseInv`, `FsSpec => []RefCount`, with and without `RemoveBusy` |
| | `FsTree` | `RemoveBusy = FALSE` implies `FsSpec => []TreeInv` |
| | `LinksCounted`, `CopiesCurrent` | `RemoveBusy = FALSE` implies `FsSpec => []LinkCount`, `FsSpec => []CoreIsDisk` |
| | `InodesKept`, `FsQuiet` | `RemoveBusy = FALSE` implies `FsSpec => []NoInodeLost`, `FsSpec => []NoFsPanic` |
| | `LocksKept` | `FsSpec => []LocksHeld`, with and without `RemoveBusy` |
| | `NoDirectoryLoops` | `RemoveBusy = FALSE` implies `FsSpec => []NoLoops`: `..` leads up to the root, from everywhere and after every crash |
| | `NoDeadlock` | `RemoveBusy = FALSE` implies `FsSpec => []NoCircle`: no set of processes waits for each other's inode locks |
| `SimProofs` | `MultiSafe` | `MsSpec => [](BestRun /\ WaitingIsWaited)` |
| | `UniSafe` | `UsSpec => [](InOnePlace /\ WaitIsDelay)` |
| | `SimsBest`, `SimsPlaces` | the same of the instance `MCSims`: `BestRun`, `InOnePlace` |
| | `SimsWaits` | `SimsSpec => []WaitingShown`: the waiting times in the final tables of the nine simulators that show any are the times waited, and shajith's tables leave no process out |

### Semaphore

The argument. None of the invariants is inductive alone. `LockInv` says where
each lock is: `p->lock` is held only by the CPU that is on `p`'s stack, and *is*
held there from the acquire in `sleep` on and whenever `p` is not RUNNING; a
semaphore's lock is held exactly by the CPU whose process is at a point of
`HasSlock`. With it, two CPUs cannot be on one stack (a dispatch needs `p->lock`
free, and a CPU on the stack of a RUNNABLE process holds it), and two processes
cannot be in the critical section of one semaphore. `SleepInv` adds what a
sleeper knows: between its test of the count and the release of the lock the
count is 0, and after that a positive count means that some poster's `wakeup()`
has not yet visited its slot. The step that makes this work is the one `sleep()`
exists for: a poster cannot visit the slot while the sleeper holds `p->lock`, and
the sleeper took it while the poster could not yet have the semaphore's lock.
`IInv == TypeOK /\ LockInv /\ SleepInv` is inductive, with one step of the proof
per action; the refinement then needs it only in `Take`.

### Signal

The two properties say what a handler may see of its victim; neither is
inductive, because the context that `sigreturn()` restores was saved many steps
before. `HandlerInv` says what the saved copy is worth at every step: the backup
`sig_tf` is never the context of a handler, it equals the interrupted context as
long as the guard `is_handling_signal` is up, a handler runs only under the
guard, and the loop of `usertrap()` over the signals is entered only with the
guard down. Only `CheckPending`, `Deliver` and `SysSigreturn` matter; every
other step is covered by one of two lemmas (`HandlerFrame`, `HandlerResult`): it
leaves the trapframes alone, or changes nothing in them but `a0`.

`KilledIsOver` is what `KilledDies` rests on besides fairness. `StepsLeft(p)` is a
natural number by the place of `p` and, inside the loop of `usertrap()`, by the
signals it has still to look at. While `p` is killed, every step that moves it lowers the
number, and user space has the highest: the handler that the loop may still set up
is never entered, since `usertrap()` asks `killed` once more at its end. Other
processes can only end its sleep. That it does take these steps is fairness, and TLC's.

### MsgQueue

`OneEarly` says that at most one process can make the first call, that is, that
the first call returns before another process makes one. It is needed: run
`MsgQueueRace` shows what happens without it. Under it `msgq_init()` runs in one
process while every other is idle, so that it cannot reset a lock that is held
(`CallInv`); `CopiedInv` says what a process relies on between its copy and the
end of its call (there is still room, or still a message, and the copied one is
the one at `head` or `tail`), which the lock protects from the others; `RingInv`
relates `head`, `tail` and `count` modulo `MAX_MSGS`. The remainders are turned
into linear arithmetic once (`ModIsWrap`: an index runs past the end at most
once) and everything about the rings follows from three facts: the slot at
`tail` holds no message while there is room (`TailIsFree`), it is where the next
position will be (`AppendSlot`), and moving `head` moves every position by one
(`ShiftSlot`). In the refinement the copy into the ring is a stutter, and the
moment at which a message enters or leaves the queue is the update of `count`
before `release()`.

### Proc

`IInv` has a part for each thing that a step relies on. `CpuInv` and `PlaceInv`
say which CPU is on which stack and who holds `p->lock` at each place in the
code: a slot is dispatched, taken or freed only with its lock free, and a CPU on
the stack of a process that is not RUNNING, or of one that is leaving it, holds
it; this is `FreeSlotIsOffCpu`. `WaitLockInv` places `wait_lock`. `ParentInv` holds
the argument for `ParentIsAlive`: a parent pointer is set only by `fork`, to
a process that is running, or by `reparent`, to init, which does not exit; and
`exit` gives away every child (`HandedOver` says how far it has come) before it
becomes a zombie, all under `wait_lock`. `ExitInv` holds the argument for
`NoExitIsMissed`. A child becomes a zombie with `wait_lock` held, so not while its
parent scans; and once the parent has given up `wait_lock` on its way to sleep it
still has its own `p->lock`, without which the child's `wakeup()` cannot
pass it by. `KillsReachTheNamed` needs the hypothesis that no `kill()` names pid 0:
finding 1 shows what happens otherwise.

No circle of spinning CPUs. Where the module needs a lock free, the code spins for
it: `SpinsOn(c)` is the set of CPUs that hold a lock which the code of `c`, where it is, may go
on to acquire. `PlockInv` says that a CPU has the lock of a slot only while it is on the stack of
that slot, or while it copies memory for the child it is making; at both places it
acquires nothing before it has let go (`PlockIsLast`), and who has `wait_lock`
acquires only locks of slots (`WaitLockIsFirst`). So no set of CPUs, however many, spins for locks
within the set. On the instance it shows as the absence of deadlock, which TLC checks in the run `Kernel`.

### ThreadMem

`BaseInv` needs no rules: `SlotInv` says what a slot holds in each state,
`LoopInv` how far a loop may have come, `PageExtent` and `ImageExtent` that no
page table has an entry beyond what its owner's `sz`, or the loop that is filling
it, accounts for. The panics follow: a loop maps only above what is mapped, and
`freeproc()` unmaps all there is. The rest needs `Discipline`. `FrameInv` says
that every frame is free or in exactly one of the `Places`: the page table of a
slot, a user page of a process that does not borrow its pages, or the same two of
an image being built; so each step has to be shown to take a free frame into an
empty place, to free what is in some places and empty them, or to move what is in
one to another (`Allocated`, `Released`, `Traded`), which is done for page tables
in general before it is done for the actions. `ThreadInv` says what the entries
that do not count point to: whatever a thread has mapped, its creator has mapped
at the same page and is running (under the rules, it can neither shrink nor exit).
That a thread's frames are owned by somebody takes one more fact, for a creator
may itself be a thread: `LinesEnd` says that every set of threads has a member
whose creator is outside it, so that going from creator to creator ends at a
process (`RunnersPages`). From these, no page table points to a free frame.

### Log

`CrashAtomic` compares three copies of a block (home, log, cache) that a crash
or the recycling of a buffer may reduce to one, so its invariant must say at
every step which of them count. `Pinned(b)` says that the commit under way has
still to copy `b` or to install it. `BufInv` counts `b->refcnt` exactly: one for
the holder, one for the pin; hence a recycled buffer is never pinned. `CopyInv`
says that only a pinned buffer may differ from the disk, and that the copies made
so far are equal: the log to the cache before the header is written, the log to
the home blocks after. `OpInv` says that `outstanding` counts the operations under
way and that there are none during a commit, which is what `committing` is for.
`RoomInv` is the reservation of `begin_op()`: what is logged, and what the
operations under way may still log (`Claims`), fits in the log; a new block uses
up one claim (`NewBlock`), and an operation is admitted only with room for all of
its claims. In the refinement (`NextRefines`) `WriteHead` is `Sync`: at that step
what recovery would produce changes from the home blocks to memory, block by
block; installing and erasing change nothing (`InstallKeeps`, `InstalledIsHome`).

`BeginSafe` uses it: an operation sleeps in `begin_op()` only during a commit, or
while other operations hold the room it wants, and each of those ends with a
`wakeup(&log)`.

### Disk driver

A descriptor passes through five places (free list, chain of a caller, ring of
requests, the device, ring of answers), and the device chooses the order.
`VirtioInv` says that a caller in flight has a chain of three descriptors linked
as `virtio_disk_rw()` linked them (`ChainOK`), that each of the two rings has a
chain at most once and every chain in one of them, or taken by the device, is that of
a caller whose `disk` flag is still set (`HeadOK`), and what the device has moved
so far for each caller (`TransferOK`). That chains do not overlap follows from
`info[first].b = b` for the heads and, for the other two descriptors, from the
`of` field that says for whom they were filled. `NUM = Cardinality(free) + 3 *
Cardinality(Busy)` makes `free_chain()` give back exactly what was taken; with it
a caller waits for descriptors only when somebody in flight will free some.

### Serial port

`UartInv` has one inequality: the bytes in the FIFO, those that a caller of
`uartputc_sync()` is about to write, and one more for `uartwrite()` while
`tx_busy` is clear, are at most three. Three is the number of ways to send:
`uartwrite()`, the echo of the handler, and `printf`, each of which may have
looked before the others wrote. Hence the hypothesis `TXFIFO >= 3`: a 16550 has a
FIFO of sixteen. The rest is that `tx_busy` is set only while a byte is in the
port or its interrupt is still to come.

### Console and pipe

Both rings have free-running indices that overflow, and are read through `%`.
`Ahead` is an index further on, wrapped or not; since the size of the ring
divides the range of the index, the place of a character does not depend on
which (`PlaceAhead`), and two indices less than a ring apart have different
places (`PlacesApart`). `LineInv` and `PipeRing` then say that the ring holds, in
order, a history: the keys typed and not yet read, the bytes written and not yet
read. A backspace or a kill character takes keys from its end only, where
`LineInv` knows that there is no end of line.

For the pipe, `RefsCount` is the hard part: the count of a file is that of a set
(`References`), and every step of `dup`, `fork`, `close`, `exit` changes the
holdings of at most two processes, so that the set changes by as many elements
(`UnitsChange`). `UserOK` says what a process at each place still holds, so the
count is not 0 while it is inside the pipe; `CloserOK` that the process that
brought it to 0 is the only one that closes the end; `PageInv` that the page is
there as long as an end is open or a closer is at work. No wakeup is lost because
of `SleeperOK`: who is between its test and its sleep holds `pi->lock`, and after
that only a step that ends with a `wakeup()` makes the test false.

### Files

`OwnInv` says that the blocks in the bitmap are in one `Place` each (a direct
address, an entry of an indirect block, the indirect block itself), and no other
block is in any. `balloc()` and `bmap()` put a free block in an empty place;
`itrunc()` empties a place and frees what was in it. That nothing is lost is
stated by the run with cardinalities; the theorem `FileSafety` gets it from a
bijection between places and blocks. A file has no holes up to its size
(`FileOK`) except while `itrunc()` is at work on it, and a writer has a block for
every byte up to its offset (`ScribeOK`), since `filewrite()` goes on from where the last
chunk ended and `writei()` refuses to begin past the end of the file.

### The instance

Each part of `MCIo` moves by steps of its own module (`StepsOfParts`), so the
invariants of the parts hold together (`PartsSafe`), and with them what the run
`InputOutput` checks.

### FileSys

`BaseInv` is types, `RefCount`, and `PlaceOK`: what the local variables and the list
of pending `iput()` hold at each place of a call (in `create()`, between `ialloc()`
and `iget()`, the inode number is not yet a reference; a path is followed from an inode that
the process has counted). A count is inductive only with that, since one has to know
which variables are pointers. Each step of a process then changes `ref` of an
inode by as much as the number of its own pointers to it (`ProcMoves`, shown once with the set
`Units` of pairs of a process and a number), whatever other processes hold. After a crash,
`AtBoot`, the only pointers are the working directories. None of it
depends on `RemoveBusy`: removing a directory that is in use confuses links, not
references.

`TreeInv` adds what the four other invariants need, and none of them is inductive
without all of it. `DiskInv` has the tree (`TreeOK`: the entry of a directory and its
`..` agree, a directory that is not in use is empty) and the counts (`LinksOK`), up to
what is under way: `Gone` are the inodes whose entry `unlink()` has erased
and whose count it has still to lower, `Linking[i]` the processes in `link()` that have raised
the count of `i` and not yet entered the name. `StableInv` is the same of the
last commit, with nothing under way: a commit happens only when no process is in a
transaction. `ProcOK` says what a process may rely on between its steps: what it points
to is in use, a directory it points to is in the tree, what it has locked is as it
found it, the inode it is freeing is known to nobody else. That one process leaves
this to another is shown once (`OthersStay`, from `Rely`), and the link to `RefCount`
is `HeldRefs`: who has a pointer is counted, and with a count of one nobody else has, so
`iput()` frees only what is nobody's, and `unlink()` of a directory that is not busy
takes it from nobody. `InodeOK` says that copies are current and that an inode without
links is still valid in memory, or being allocated. What each
update does to a tree is a lemma about trees alone (`TreeAlloc`, `TreeFreed`,
`TreeNamed`, `TreeLinked`, `TreeErased`, `TreeCounts`, `TreeLowered`, `TreeRaised`).

No deadlock. `LocksHeld` says that a process has an inode locked only at the places
of a call where the code goes on to release it (`HasLock`); it needs `BaseInv` and not the
tree. `WhoWaits` follows: a process that has a lock and waits for one that somebody has is in
`unlink()`, with the directory locked and on its way to the inode of the entry. (`create()` locks the
new inode under the directory's lock, and `iput()` one to which it has the last reference:
nobody else has those locked. `link()` and path lookup let go of one inode before they lock the next.) That inode is one level
below (`UnlinkBelow`), `.` and `..` being refused. So processes that waited in a circle would
hold a circle of directories, and `TreeOK` has none: `Grounded` says that any
directories in use include one whose parent is not among them, or the root, and one
without a subdirectory among them, the root itself apart. It is inductive since a directory is made as
a leaf, keeps its `..`, and is removed when it is empty. If `unlink()` did not refuse `..`,
`NoCircle` would fail, as the mutant of the run shows.

The hypothesis `RemoveBusy = FALSE` is used in one place, `UnlinkTree`; without it
the four properties are false, as section 2 says, and so is `TreeInv`.

### Simulators

A list of a finite set in an order is a function of the set (`InOrderLists`), and
its head is the least element (`FirstThere`); this is shown once, by the number
of elements that come before (`Ranks`).

`MultiSim`. That the best processes run (`BestRun`) is a statement about the end of
a loop over the CPUs, each iteration of which may place one process and throw
another out. `BestInv` says that the CPUs the loop has visited stay `Good`: no
waiting process should have one instead. A process that is thrown out is worse
than the one that takes its CPU, which was the best of those waiting, so it is
no better than what runs on the CPUs visited before. Ayush's RMS places first and
preempts afterwards; there the invariant is on the processes visited, each of which is
waiting `Rightly` or running. `BusyInv` ties `current` and `cpu_id` together, and
`WaitInv` has the account: the ticks waited and those run make up
the ticks since arrival, with one more tick for those whose turn in the
running loop is over.

`UniSim`. `QueueInv` says of the queues of the MLFQ that they list, each exactly once,
those that have arrived, have work left and do not run (`Listed`, kept by a push, a pop
and the boost that joins the queues); the processes that arrive during a quantum go in
before the one that is put back. `DrawInv`, `DrawArrivedInv` and `PeriodInv` have the
account of ticks for the other three programs.

The proofs are of the simulators as they are: neither finding 6 nor finding 7
contradicts a theorem, since `BestRun` names the policies that preempt and `WaitingShown` does not
speak of Vijay's programs.

### Only model-checked

The liveness half of `ImplementsSemSpec`, `KilledDies` and `PendingIsActedOn`:
temporal properties under fairness are out of the prover's reach (what
`KilledDies` asks besides fairness is `KilledIsOver`), and so is `NoLockCycle`,
which is stated with `ENABLED`; what it rests on, that no processes wait in a
circle, is `NoCircle` and proved. `EndsInTime` is a sum over the rows of a table,
whose properties need induction over the table. Every other property of a
passing run is stated by a theorem; those under a hypothesis on a constant (`OneEarly`,
`Discipline`, `TXFIFO >= 3`, `RemoveBusy = FALSE`) are checked with constants that satisfy it.

## 6. Plan

Order of the work left, most important first:

1. Extensions of `Signal`: `fork`, `clone` and `exec` inside a handler, with the
   trapframes of two processes.
2. `Log` with the size of the buffer cache, and several buffers held at a time.
3. Bytes of blocks in `FileData`, for `writei()` that fails half way through a
   block, and the file offset that processes share.

## 7. Not modelled, and why

Assembly (`swtch.S`, `trampoline.S`, `kernelvec.S`) saves and restores registers
with interrupts off and has no concurrency of its own. Boot code runs alone on
hart 0. Formatting and string helpers, `mkfs` and the test programs have no state
the kernel depends on. Memory ordering is that of the fences in `acquire` and
`release`: code outside critical sections that shares memory (`pending_signals`,
`msgq_initialized`) is modelled with separate loads and stores.

Of the modelled parts, these pieces are left out: `readi`, `stati`, `fstat` (they
only read), `mknod` and device inodes, the packing of inodes and directory
entries into blocks, the text that `getcwd`, `printf` and `psinfo` produce, the
nesting counts of `push_off`, permissions in page-table entries. A `kill()` of a
process that has tested `killed` and is about to sleep does not wake it. `Signal`
has that window in `sys_pause`, where the next tick closes it (`KilledDies`);
`Proc`, `Pipe` and `Console` have it in `wait()`, pipes and the console, where
nothing does until the event comes, and `sem_wait` never asks. No property bounds
how long such a process sleeps, because nothing in the code or its documentation does.

`PROJECT.json` lists the hazards that no property covers, with the reason. Some of
them are in the modules but kept out of the passing runs by a constant or by the
inputs: threads whose creator lets go of shared memory, and frames that threads allocate
(`Discipline = TRUE`); directories removed while others use them
(`RemoveBusy = FALSE`); quanta, tickets and periods of 0.
