------------------------------ MODULE ThreadMem ------------------------------
(***************************************************************************)
(* User memory of processes and of the threads that clone() makes: the     *)
(* page allocator of kernel/kalloc.c, page tables of kernel/vm.c and their *)
(* users in kernel/proc.c (fork, clone, exit, wait, sbrk), kernel/exec.c   *)
(* and the page-fault path of kernel/trap.c.                               *)
(*                                                                         *)
(* What is in a frame is left out; the question is who may use it.  Every  *)
(* process has its own page table, also a thread, whose entries point to   *)
(* the frames of the process that cloned it.  A loop that allocates page   *)
(* after page is one step per page, and its error path one step more.  All *)
(* pages of one page table are counted as one frame, and with them the     *)
(* trapframe and the signal trapframe, which allocproc() takes and         *)
(* freeproc() gives back together with it.                                 *)
(***************************************************************************)
EXTENDS Naturals, FiniteSets

CONSTANTS
  Tasks,       \* slots of proc[], of processes and of threads
  inittask,    \* initproc
  NFRAMES,     \* pages of physical memory
  NPAGES,      \* user pages below TRAPFRAME
  ExecPages,   \* size of every program's image
  NoTask,      \* a null struct proc *
  Nowhere,     \* an invalid PTE
  Discipline   \* whether programs keep the rules MayExit, MayGrow

ASSUME InitprocAssumption == inittask \in Tasks /\ NoTask \notin Tasks
ASSUME PagesAssumption == NPAGES \in Nat /\ ExecPages \in 1 .. NPAGES
ASSUME FramesAssumption == NFRAMES \in Nat /\ NFRAMES >= 2 /\ Nowhere \notin Nat
ASSUME DisciplineAssumption == Discipline \in BOOLEAN

Frames == 1 .. NFRAMES
Pages == 0 .. NPAGES - 1
Table == [Pages -> Frames \cup {Nowhere}]
EmptyTable == [k \in Pages |-> Nowhere]

VARIABLES
  free,       \* the frames on kmem.freelist
  p_state,      \* p->state: "UNUSED", "USED", "RUNNABLE" (it runs) or "ZOMBIE"
  p_parent,     \* p->parent
  mem_parent, \* p->mem_parent; is_thread says that it is not null
  table,      \* the frame of p->pagetable, as a set
  pt,         \* the user part of p->pagetable: which frame each page is in
  sz,         \* p->sz, in pages
  mem_pc,         \* "user", or the system call that p is inside
  i,          \* the page its loop has come to
  goal,       \* uvmalloc(): the size wanted
  child,      \* kfork(), kclone(): the slot being filled
  image,      \* kexec(): the new page table
  panicked    \* "mappages: remap" or "freewalk: leaf"

p_vars == <<p_state, p_parent, mem_parent>>
space == <<table, pt, sz>>
loop == <<i, goal, child, image>>
memVars == <<free, p_vars, space, mem_pc, loop, panicked>>

NoImage == [table |-> {}, pt |-> EmptyTable]

SetAt(f, x, v) == [f EXCEPT ![x] = v]
MemGoto(p, l) == mem_pc' = SetAt(mem_pc, p, l)

(* The frames that entries from .. to-1 of a table point to. *)
Mapped(t, from, to) == {t[k] : k \in {j \in Pages : from <= j /\ j < to}} \ {Nowhere}
Unmap(t, from, to) ==
  [k \in Pages |-> IF from <= k /\ k < to THEN Nowhere ELSE t[k]]

(* kalloc() gives any f \in free: nothing tells the frames on it apart. *)
OutOfMemory == free = {}

is_thread(p) == mem_parent[p] # NoTask

(* The first process, after its exec. *)
MemInit ==
  /\ free = 3 .. NFRAMES
  /\ p_state = [p \in Tasks |-> IF p = inittask THEN "RUNNABLE" ELSE "UNUSED"]
  /\ p_parent = [p \in Tasks |-> NoTask]
  /\ mem_parent = [p \in Tasks |-> NoTask]
  /\ table = [p \in Tasks |-> IF p = inittask THEN {1} ELSE {}]
  /\ pt = [p \in Tasks |-> IF p = inittask THEN SetAt(EmptyTable, 0, 2)
                                            ELSE EmptyTable]
  /\ sz = [p \in Tasks |-> IF p = inittask THEN 1 ELSE 0]
  /\ mem_pc = [p \in Tasks |-> "user"]
  /\ i = [p \in Tasks |-> 0]
  /\ goal = [p \in Tasks |-> 0]
  /\ child = [p \in Tasks |-> NoTask]
  /\ image = [p \in Tasks |-> NoImage]
  /\ panicked = FALSE

InUser(p) == p_state[p] = "RUNNABLE" /\ mem_pc[p] = "user"

(***************************************************************************)
(* The rules under which the kernel's sharing of frames is safe.  It does  *)
(* not enforce them: a process must join its threads before it shrinks,    *)
(* execs or exits, and a thread must not change the size of its memory,    *)
(* exec, or be the first to touch a page that sbrk() left to vmfault().    *)
(***************************************************************************)
Borrowers(p) ==
  {q \in Tasks : p_state[q] \in {"USED", "RUNNABLE"} /\ mem_parent[q] = p}

MayExit(p) == Discipline => Borrowers(p) = {}
MayGrow(p) == Discipline => ~is_thread(p)
MayLetGo(p) == MayExit(p) /\ MayGrow(p)

-----------------------------------------------------------------------------
(* freeproc(x), as the part of a step in which what is mapped in x is t.   *)

(* A plausible bug: a thread's frames are freed like a process's. *)
FreedWithThreads(x, t) == table[x] \cup Mapped(t, 0, sz[x])

Freed(x, t) ==
  table[x]
    \cup (IF is_thread(x) THEN {} ELSE Mapped(t, 0, sz[x]))

(* freewalk() panics at a page that is still mapped. *)
Leaf(x, t) == Mapped(Unmap(t, 0, sz[x]), 0, NPAGES) # {}

freeproc(x, t) ==
  /\ table' = SetAt(table, x, {})
  /\ pt' = SetAt(pt, x, EmptyTable)
  /\ sz' = SetAt(sz, x, 0)
  /\ p_state' = SetAt(p_state, x, "UNUSED")
  /\ mem_parent' = SetAt(mem_parent, x, NoTask)
  /\ panicked' = (panicked \/ Leaf(x, t))

-----------------------------------------------------------------------------
(* fork() and clone().  allocproc() takes the frames of the slot, or gives *)
(* back what it took when there are not enough.                            *)

Spawn(p, x, call) ==
  /\ InUser(p)
  /\ p_state[x] = "UNUSED"
  /\ \E f \in free :
       /\ free' = free \ {f}
       /\ table' = SetAt(table, x, {f})
  /\ p_state' = SetAt(p_state, x, "USED")
  /\ child' = SetAt(child, p, x)
  /\ i' = SetAt(i, p, 0)
  /\ MemGoto(p, call)
  /\ UNCHANGED <<p_parent, mem_parent, pt, sz, goal, image, panicked>>

Copies(p, call) == mem_pc[p] = call /\ i[p] < sz[p]

(* A page of the parent that is not there is not there in the child. *)
SkipPage(p) ==
  /\ Copies(p, "fork") \/ Copies(p, "clone")
  /\ pt[p][i[p]] = Nowhere
  /\ i' = SetAt(i, p, i[p] + 1)
  /\ UNCHANGED <<free, p_vars, space, mem_pc, goal, child, image, panicked>>

(* uvmcopy() *)
CopyPage(p) ==
  /\ Copies(p, "fork")
  /\ pt[p][i[p]] # Nowhere
  /\ \E f \in free :
       /\ free' = free \ {f}
       /\ pt' = [pt EXCEPT ![child[p]][i[p]] = f]
  /\ i' = SetAt(i, p, i[p] + 1)
  /\ UNCHANGED <<p_vars, table, sz, mem_pc, goal, child, image, panicked>>

(* uvmshare(): the entry of the parent, flags and all. *)
SharePage(p) ==
  /\ Copies(p, "clone")
  /\ pt[p][i[p]] # Nowhere
  /\ pt' = [pt EXCEPT ![child[p]][i[p]] = pt[p][i[p]]]
  /\ i' = SetAt(i, p, i[p] + 1)
  /\ UNCHANGED <<free, p_vars, table, sz, mem_pc, goal, child, image, panicked>>

EndCall(p) ==
  /\ MemGoto(p, "user")
  /\ i' = SetAt(i, p, 0)
  /\ goal' = SetAt(goal, p, 0)
  /\ child' = SetAt(child, p, NoTask)
  /\ image' = SetAt(image, p, NoImage)

(* A plausible bug: the copies made so far are unmapped but not freed. *)
CopyFailsAndLeaks(p) ==
  LET x == child[p]  t == Unmap(pt[x], 0, i[p]) IN
  /\ Copies(p, "fork") /\ pt[p][i[p]] # Nowhere
  /\ OutOfMemory
  /\ free' = free \cup Freed(x, t)
  /\ freeproc(x, t)
  /\ EndCall(p)
  /\ UNCHANGED p_parent

(* Out of memory: the error path of uvmcopy(), then freeproc(). *)
CopyStops(p) ==
  LET x == child[p]  t == Unmap(pt[x], 0, i[p]) IN
  /\ Copies(p, "fork") /\ pt[p][i[p]] # Nowhere
  /\ OutOfMemory
  /\ free' = free \cup Mapped(pt[x], 0, i[p]) \cup Freed(x, t)
  /\ freeproc(x, t)
  /\ EndCall(p)
  /\ UNCHANGED p_parent

(* uvmshare() finds no memory for a page of the new page table; the frames *)
(* it mapped so far are the parent's and are not freed.                    *)
ShareFails(p) ==
  LET x == child[p]  t == Unmap(pt[x], 0, i[p]) IN
  /\ Copies(p, "clone") /\ pt[p][i[p]] # Nowhere
  /\ OutOfMemory
  /\ free' = free \cup Freed(x, t)
  /\ freeproc(x, t)
  /\ EndCall(p)
  /\ UNCHANGED p_parent

(* A plausible bug: a thread is not marked as one. *)
CreatedUnmarked(p) ==
  LET x == child[p] IN
  /\ mem_pc[p] \in {"fork", "clone"} /\ i[p] >= sz[p]
  /\ sz' = SetAt(sz, x, sz[p])
  /\ p_parent' = SetAt(p_parent, x, p)
  /\ p_state' = SetAt(p_state, x, "RUNNABLE")
  /\ EndCall(p)
  /\ UNCHANGED <<free, mem_parent, table, pt, panicked>>

(* The rest of kfork() and of kclone().  Until wait_lock is taken and      *)
(* released the slot is USED, so no other process looks at it meanwhile.   *)
Created(p) ==
  LET x == child[p] IN
  /\ mem_pc[p] \in {"fork", "clone"} /\ i[p] >= sz[p]
  /\ sz' = SetAt(sz, x, sz[p])
  /\ mem_parent' = SetAt(mem_parent, x, IF mem_pc[p] = "clone" THEN p ELSE NoTask)
  /\ p_parent' = SetAt(p_parent, x, p)
  /\ p_state' = SetAt(p_state, x, "RUNNABLE")
  /\ EndCall(p)
  /\ UNCHANGED <<free, table, pt, panicked>>

-----------------------------------------------------------------------------
(* sbrk() *)

LazyGrowUnchecked(p, n) ==
  /\ InUser(p) /\ MayGrow(p)
  /\ sz' = SetAt(sz, p, sz[p] + n)
  /\ UNCHANGED <<free, p_vars, table, pt, mem_pc, loop, panicked>>

(* SBRK_LAZY: only the size, if it stays below TRAPFRAME. *)
LazyGrow(p, n) ==
  /\ InUser(p) /\ MayGrow(p)
  /\ sz[p] + n <= NPAGES
  /\ sz' = SetAt(sz, p, sz[p] + n)
  /\ UNCHANGED <<free, p_vars, table, pt, mem_pc, loop, panicked>>

(* SBRK_EAGER: uvmalloc() of n pages. *)
Grow(p, n) ==
  /\ InUser(p) /\ MayGrow(p)
  /\ sz[p] + n <= NPAGES
  /\ i' = SetAt(i, p, sz[p])
  /\ goal' = SetAt(goal, p, sz[p] + n)
  /\ MemGoto(p, "grow")
  /\ UNCHANGED <<free, p_vars, space, child, image, panicked>>

GrowPage(p) ==
  /\ mem_pc[p] = "grow" /\ i[p] < goal[p]
  /\ \E f \in free :
       /\ free' = free \ {f}
       /\ pt' = [pt EXCEPT ![p][i[p]] = f]
  /\ panicked' = (panicked \/ pt[p][i[p]] # Nowhere)
  /\ i' = SetAt(i, p, i[p] + 1)
  /\ UNCHANGED <<p_vars, table, sz, mem_pc, goal, child, image>>

(* Out of memory: uvmdealloc() back to the old size. *)
GrowFails(p) ==
  /\ mem_pc[p] = "grow" /\ i[p] < goal[p]
  /\ OutOfMemory
  /\ free' = free \cup Mapped(pt[p], sz[p], i[p])
  /\ pt' = SetAt(pt, p, Unmap(pt[p], sz[p], i[p]))
  /\ EndCall(p)
  /\ UNCHANGED <<p_vars, table, sz, panicked>>

GrowDone(p) ==
  /\ mem_pc[p] = "grow" /\ i[p] >= goal[p]
  /\ sz' = SetAt(sz, p, goal[p])
  /\ EndCall(p)
  /\ UNCHANGED <<free, p_vars, table, pt, panicked>>

(* A plausible bug: the range to unmap begins one page too high. *)
ShrinkTooLittle(p, n) ==
  /\ InUser(p) /\ MayLetGo(p)
  /\ n < sz[p]
  /\ free' = free \cup Mapped(pt[p], n + 1, sz[p])
  /\ pt' = SetAt(pt, p, Unmap(pt[p], n + 1, sz[p]))
  /\ sz' = SetAt(sz, p, n)
  /\ UNCHANGED <<p_vars, table, mem_pc, loop, panicked>>

(* A negative argument: uvmdealloc() down to n pages. *)
Shrink(p, n) ==
  /\ InUser(p) /\ MayLetGo(p)
  /\ n < sz[p]
  /\ free' = free \cup Mapped(pt[p], n, sz[p])
  /\ pt' = SetAt(pt, p, Unmap(pt[p], n, sz[p]))
  /\ sz' = SetAt(sz, p, n)
  /\ UNCHANGED <<p_vars, table, mem_pc, loop, panicked>>

(* vmfault(), from usertrap(), copyin() or copyout().  Without memory it   *)
(* changes nothing.                                                        *)
Fault(p, k) ==
  /\ InUser(p) /\ MayGrow(p)
  /\ k < sz[p] /\ pt[p][k] = Nowhere
  /\ \E f \in free :
       /\ free' = free \ {f}
       /\ pt' = [pt EXCEPT ![p][k] = f]
  /\ UNCHANGED <<p_vars, table, sz, mem_pc, loop, panicked>>

-----------------------------------------------------------------------------
(* exec(): a new page table is filled while the old one is in use.         *)

Exec(p) ==
  /\ InUser(p) /\ MayLetGo(p)
  /\ \E f \in free :
       /\ free' = free \ {f}
       /\ image' = SetAt(image, p, [table |-> {f}, pt |-> EmptyTable])
  /\ MemGoto(p, "exec")
  /\ UNCHANGED <<p_vars, space, i, goal, child, panicked>>

ExecPage(p) ==
  /\ mem_pc[p] = "exec" /\ i[p] < ExecPages
  /\ \E f \in free :
       /\ free' = free \ {f}
       /\ image' = [image EXCEPT ![p].pt[i[p]] = f]
  /\ i' = SetAt(i, p, i[p] + 1)
  /\ UNCHANGED <<p_vars, space, mem_pc, goal, child, panicked>>

(* No memory, or something wrong with the program file. *)
ExecFails(p) ==
  /\ mem_pc[p] = "exec"
  /\ free' = free \cup image[p].table \cup Mapped(image[p].pt, 0, i[p])
  /\ EndCall(p)
  /\ UNCHANGED <<p_vars, space, panicked>>

(* The new image is committed and the old one freed, with its frames. *)
ExecDone(p) ==
  /\ mem_pc[p] = "exec" /\ i[p] >= ExecPages
  /\ free' = free \cup table[p] \cup Mapped(pt[p], 0, sz[p])
  /\ panicked' = (panicked \/ Leaf(p, pt[p]))
  /\ table' = SetAt(table, p, image[p].table)
  /\ pt' = SetAt(pt, p, image[p].pt)
  /\ sz' = SetAt(sz, p, ExecPages)
  /\ EndCall(p)
  /\ UNCHANGED p_vars

-----------------------------------------------------------------------------
(* exit() hands the children to init; memory is freed by the reaper. *)
Exit(p) ==
  /\ InUser(p) /\ MayExit(p)
  /\ p # inittask
  /\ p_state' = SetAt(p_state, p, "ZOMBIE")
  /\ p_parent' = [q \in Tasks |-> IF p_parent[q] = p THEN inittask ELSE p_parent[q]]
  /\ UNCHANGED <<free, mem_parent, space, mem_pc, loop, panicked>>

(* wait() or join(), once a child is found. *)
Collect(p, x) ==
  /\ InUser(p)
  /\ p_state[x] = "ZOMBIE" /\ p_parent[x] = p
  /\ free' = free \cup Freed(x, pt[x])
  /\ freeproc(x, pt[x])
  /\ p_parent' = SetAt(p_parent, x, NoTask)
  /\ UNCHANGED <<mem_pc, loop>>

-----------------------------------------------------------------------------
Create(p) ==
  \/ \E x \in Tasks : Spawn(p, x, "fork") \/ Spawn(p, x, "clone")
  \/ SkipPage(p) \/ CopyPage(p) \/ SharePage(p)
  \/ CopyStops(p) \/ ShareFails(p) \/ Created(p)

Resize(p) ==
  \/ \E n \in 1 .. NPAGES : LazyGrow(p, n) \/ Grow(p, n)
  \/ \E n \in Pages : Shrink(p, n) \/ Fault(p, n)
  \/ GrowPage(p) \/ GrowFails(p) \/ GrowDone(p)

Replace(p) == Exec(p) \/ ExecPage(p) \/ ExecFails(p) \/ ExecDone(p)

Leave(p) == Exit(p) \/ \E x \in Tasks : Collect(p, x)

MemNext == \E p \in Tasks : Create(p) \/ Resize(p) \/ Replace(p) \/ Leave(p)

MemSpec == MemInit /\ [][MemNext]_memVars

-----------------------------------------------------------------------------
(* Properties *)

MayCall == {"user", "fork", "clone", "grow", "exec"}

MemTypeOK ==
  /\ free \subseteq Frames
  /\ p_state \in [Tasks -> {"UNUSED", "USED", "RUNNABLE", "ZOMBIE"}]
  /\ p_parent \in [Tasks -> Tasks \cup {NoTask}]
  /\ mem_parent \in [Tasks -> Tasks \cup {NoTask}]
  /\ table \in [Tasks -> SUBSET Frames]
  /\ pt \in [Tasks -> Table]
  /\ sz \in [Tasks -> 0 .. NPAGES]
  /\ mem_pc \in [Tasks -> MayCall]
  /\ i \in [Tasks -> 0 .. NPAGES]
  /\ goal \in [Tasks -> 0 .. NPAGES]
  /\ child \in [Tasks -> Tasks \cup {NoTask}]
  /\ image \in [Tasks -> [table : SUBSET Frames, pt : Table]]
  /\ panicked \in BOOLEAN

User(p) == Mapped(pt[p], 0, NPAGES)
Kernel(p) ==
  table[p] \cup image[p].table \cup Mapped(image[p].pt, 0, NPAGES)

(* The frames p's page table points to are another's, or will be. *)
Borrows(p) == is_thread(p) \/ \E q \in Tasks : mem_pc[q] = "clone" /\ child[q] = p

(* A zombie thread's entries are never followed again. *)
Used(p) == IF is_thread(p) /\ p_state[p] = "ZOMBIE" THEN {} ELSE User(p)

(* "Fill with junk to catch dangling refs", says kfree(): there are none.  *)
(* No frame on the free list is mapped by a process that can still run,    *)
(* and none is a page table, a trapframe or part of an image being built.  *)
NoDanglingRefs == \A p \in Tasks : (Kernel(p) \cup Used(p)) \cap free = {}

(* Every frame that is not free has a process that will free it, whatever  *)
(* call ran out of memory half way.                                        *)
NoLeak ==
  Frames = free \cup (UNION {Kernel(p) : p \in Tasks})
                \cup (UNION {User(p) : p \in {q \in Tasks : ~Borrows(q)}})

(* A frame belongs to one process: processes do not see each other's       *)
(* memory, and a thread sees only that of the process that cloned it,      *)
(* which outlives it.                                                      *)
Ownership ==
  \A p, q \in Tasks :
    /\ p # q => Kernel(p) \cap (Kernel(q) \cup Used(q)) = {}
    /\ p # q /\ ~Borrows(p) /\ ~Borrows(q) => User(p) \cap User(q) = {}
    /\ p_state[p] = "RUNNABLE" /\ mem_parent[p] = q
         => p_state[q] = "RUNNABLE" /\ User(p) \subseteq User(q)

(* mappages() finds no page mapped that it is to map, and freewalk() none  *)
(* that was left: sz and the page table agree after any sequence of calls. *)
NoPanic == ~panicked

(* docs/clone/README.md: "our custom `clone()` syscall creates a new       *)
(* thread that shares the exact same virtual address space as the parent". *)
SharesAddressSpace ==
  \A p, q \in Tasks :
    InUser(p) /\ mem_parent[p] = q /\ InUser(q) => pt[p] = pt[q]
=============================================================================
