-------------------------------- MODULE Proc --------------------------------
(***************************************************************************)
(* The life of a process in kernel/proc.c: allocproc(), kfork() and        *)
(* kclone(), kexit() with reparent(), kwait() and kjoin(), freeproc(),     *)
(* kkill(), under wait_lock and the per-process locks.                     *)
(*                                                                         *)
(* A critical section that takes a single lock, and nothing inside it, is  *)
(* one step that needs the lock free; a lock held over several steps is a  *)
(* variable.  Slot 1 is initproc.  A process sleeps in wait and join on    *)
(* the address of its own proc structure, so the only slot a wakeup(x) of  *)
(* this file can change is slot x itself, and wakeup is the visit to it.   *)
(* Memory, files and signals other than SIGKILL are left to other modules. *)
(***************************************************************************)
EXTENDS Sched

CONSTANTS
  MaxPid,    \* bound on nextpid: no more than MaxPid processes are created
  KillPids   \* the pids that programs pass to kill()

ASSUME MaxPidAssumption == MaxPid \in Nat /\ MaxPid >= 2 \* initproc, the shell
ASSUME KillPidsAssumption == KillPids \subseteq Nat \ {1}

VARIABLES
  pid,       \* p->pid, 0 in a free slot
  parent,    \* p->parent, 0 for none
  killed,    \* p->killed
  nextpid,
  wlock,     \* the CPU holding wait_lock, or NoCpu
  pc,        \* where p is
  np,        \* kfork(): the slot of the child, 0 outside
  want,      \* kjoin(): the pid waited for; 0 in kwait()
  scan,      \* loop index of kwait() and kjoin()
  havekids,  \* their havekids
  victims    \* history: the pids some kill(pid, SIGKILL) has named

procVars == <<pid, parent, killed, nextpid, wlock>>
locals == <<pc, np, want, scan, havekids>>
vars == <<schedVars, procVars, locals, victims>>

initproc == 1
Pids == 0 .. MaxPid

PCs == {"user",     \* in user space
        "copy",     \* kfork: child allocated, its lock held
        "adopt",    \* kfork: child's lock released
        "start",    \* kfork: parent set
        "exit",     \* kexit: about to acquire wait_lock
        "reparent", \* kexit: wait_lock held
        "zombie",   \* kexit: parent woken, about to acquire p->lock
        "gone",     \* kexit: ZOMBIE, both locks held
        "wait",     \* kwait: about to acquire wait_lock
        "scan",     \* kwait: in the loop over proc[]
        "sleep", "sleeplk", "sleepon", "asleep"}   \* kwait: in sleep()

Set(f, x, v) == [f EXCEPT ![x] = v]
Goto(p, l) == pc' = Set(pc, p, l)

(* Interrupts are on: the timer may make p yield. *)
Preemptible == {"user", "adopt", "start", "exit", "wait"}

(* The system as init has just forked the shell, in slot 2. *)
Init ==
  LET Live == {1, 2} \cap Procs IN
  /\ state = [p \in Procs |-> IF p \in Live THEN "RUNNABLE" ELSE "UNUSED"]
  /\ chan = [p \in Procs |-> NoChan]
  /\ plock = [p \in Procs |-> NoCpu]
  /\ cpu = [c \in CPUs |-> NoProc]
  /\ pid = [p \in Procs |-> IF p \in Live THEN p ELSE 0]
  /\ parent = [p \in Procs |-> IF p = 2 THEN initproc ELSE 0]
  /\ killed = [p \in Procs |-> FALSE]
  /\ nextpid = 3
  /\ wlock = NoCpu
  /\ pc = [p \in Procs |-> "user"]
  /\ np = [p \in Procs |-> 0]
  /\ want = [p \in Procs |-> 0]
  /\ scan = [p \in Procs |-> 1]
  /\ havekids = [p \in Procs |-> FALSE]
  /\ victims = {}

-----------------------------------------------------------------------------
(* scheduler(), sched(), yield(), forkret() *)

Schedule(c, p) == Dispatch(c, p) /\ UNCHANGED <<procVars, locals, victims>>

(* kexit() releases wait_lock before it calls sched(). *)
Deschedule(c, p) ==
  /\ pc[p] = "gone" => wlock # c
  /\ Switch(c, p)
  /\ UNCHANGED <<procVars, locals, victims>>

Preempt(c, p) ==
  /\ pc[p] \in Preemptible
  /\ YieldCpu(c, p)
  /\ UNCHANGED <<procVars, locals, victims>>

Resumed(c, p) ==
  /\ pc[p] \in Preemptible
  /\ Resume(c, p)
  /\ UNCHANGED <<procVars, locals, victims>>

-----------------------------------------------------------------------------
(* kfork() and kclone() *)

(* usertrap() lets no killed process into a system call. *)
Calls(c, p) == Runs(c, p) /\ pc[p] = "user" /\ ~killed[p]

(* allocpid(), with its lock pid_lock held throughout. *)
AllocPid(q) == pid' = Set(pid, q, nextpid) /\ nextpid' = nextpid + 1

(* allocproc() has found slot q free and returns with its lock held.  The  *)
(* other outcome, no slot or no memory, changes nothing.  p->killed is not *)
(* among the fields it initialises.                                        *)
AllocProc(c, p, q) ==
  /\ Calls(c, p)
  /\ nextpid <= MaxPid
  /\ plock[q] = NoCpu
  /\ state[q] = "UNUSED"
  /\ state' = Set(state, q, "USED")
  /\ plock' = Set(plock, q, c)
  /\ AllocPid(q)
  /\ np' = Set(np, p, q)
  /\ pc' = [pc EXCEPT ![p] = "copy", ![q] = "user"]
  /\ UNCHANGED <<chan, cpu, parent, killed, wlock, want, scan, havekids, victims>>

(* What freeproc(q) resets, but for the one field below. *)
ClearSlot(q) ==
  /\ state' = Set(state, q, "UNUSED")
  /\ pid' = Set(pid, q, 0)
  /\ parent' = Set(parent, q, 0)
  /\ chan' = Set(chan, q, NoChan)

(* A plausible bug: p->killed = 0 is left to allocproc(). *)
FreeProcStillKilled(q) == ClearSlot(q) /\ UNCHANGED killed

FreeProc(q) == ClearSlot(q) /\ killed' = Set(killed, q, FALSE)

(* uvmcopy() or uvmshare() fails: give the slot back. *)
CopyFails(c, p) ==
  /\ On(c, p) /\ pc[p] = "copy"
  /\ FreeProc(np[p])
  /\ plock' = Set(plock, np[p], NoCpu)
  /\ np' = Set(np, p, 0)
  /\ Goto(p, "user")
  /\ UNCHANGED <<cpu, nextpid, wlock, want, scan, havekids, victims>>

Copied(c, p) ==
  /\ On(c, p) /\ pc[p] = "copy"
  /\ plock' = Set(plock, np[p], NoCpu)
  /\ Goto(p, "adopt")
  /\ UNCHANGED <<state, chan, cpu, procVars, np, want, scan, havekids, victims>>

(* np->parent = p, under wait_lock. *)
Adopt(c, p) ==
  /\ Runs(c, p) /\ pc[p] = "adopt"
  /\ wlock = NoCpu
  /\ parent' = Set(parent, np[p], p)
  /\ Goto(p, "start")
  /\ UNCHANGED <<schedVars, pid, killed, nextpid, wlock, np, want, scan, havekids,
                 victims>>

(* np->state = RUNNABLE, under np->lock. *)
Start(c, p) ==
  /\ Runs(c, p) /\ pc[p] = "start"
  /\ plock[np[p]] = NoCpu
  /\ state' = Set(state, np[p], "RUNNABLE")
  /\ np' = Set(np, p, 0)
  /\ Goto(p, "user")
  /\ UNCHANGED <<chan, plock, cpu, procVars, want, scan, havekids, victims>>

-----------------------------------------------------------------------------
(* kexit() *)

(* By the program, or by usertrap() for a killed process.  initproc does   *)
(* not exit (kexit() panics).                                              *)
CallExit(c, p) ==
  /\ Runs(c, p) /\ pc[p] = "user"
  /\ p # initproc
  /\ Goto(p, "exit")
  /\ UNCHANGED <<schedVars, procVars, np, want, scan, havekids, victims>>

ExitLock(c, p) ==
  /\ Runs(c, p) /\ pc[p] = "exit"
  /\ wlock = NoCpu
  /\ wlock' = c
  /\ Goto(p, "reparent")
  /\ UNCHANGED <<schedVars, pid, parent, killed, nextpid, np, want, scan, havekids,
                 victims>>

(* reparent(): a child of p goes to init, which is woken. *)
Reparent(c, p, q) ==
  /\ On(c, p) /\ pc[p] = "reparent"
  /\ parent[q] = p
  /\ parent' = Set(parent, q, initproc)
  /\ WakeupOne(p, initproc, initproc)
  /\ UNCHANGED <<pid, killed, nextpid, wlock, locals, victims>>

(* A plausible bug: children are not handed over. *)
WakeParentOnly(c, p) ==
  /\ On(c, p) /\ pc[p] = "reparent"
  /\ WakeupOne(p, parent[p], parent[p])
  /\ Goto(p, "zombie")
  /\ UNCHANGED <<procVars, np, want, scan, havekids, victims>>

(* wakeup(p->parent) once no child is left. *)
WakeParent(c, p) ==
  /\ On(c, p) /\ pc[p] = "reparent"
  /\ \A q \in Procs : parent[q] # p
  /\ WakeupOne(p, parent[p], parent[p])
  /\ Goto(p, "zombie")
  /\ UNCHANGED <<procVars, np, want, scan, havekids, victims>>

BecomeZombie(c, p) ==
  /\ On(c, p) /\ pc[p] = "zombie"
  /\ plock[p] = NoCpu
  /\ plock' = Set(plock, p, c)
  /\ state' = Set(state, p, "ZOMBIE")
  /\ Goto(p, "gone")
  /\ UNCHANGED <<chan, cpu, procVars, np, want, scan, havekids, victims>>

(* release(&wait_lock), p->lock still held until the CPU has switched.     *)
ExitUnlock(c, p) ==
  /\ cpu[c] = p /\ pc[p] = "gone" /\ wlock = c
  /\ wlock' = NoCpu
  /\ UNCHANGED <<schedVars, pid, parent, killed, nextpid, locals, victims>>

-----------------------------------------------------------------------------
(* kwait() and kjoin() *)

(* init.c waits only while it has a child. *)
CallWait(c, p, n) ==
  /\ Calls(c, p)
  /\ p = initproc => n = 0 /\ \E q \in Procs : parent[q] = p
  /\ want' = Set(want, p, n)
  /\ Goto(p, "wait")
  /\ UNCHANGED <<schedVars, procVars, np, scan, havekids, victims>>

WaitLock(c, p) ==
  /\ Runs(c, p) /\ pc[p] = "wait"
  /\ wlock = NoCpu
  /\ wlock' = c
  /\ scan' = Set(scan, p, 1)
  /\ havekids' = Set(havekids, p, FALSE)
  /\ Goto(p, "scan")
  /\ UNCHANGED <<schedVars, pid, parent, killed, nextpid, np, want, victims>>

(* The test of the loop: pp->parent == p, and for kjoin pp->pid == tid. *)
Awaited(p, q) == parent[q] = p /\ want[p] \in {0, pid[q]}

Scans(c, p) == On(c, p) /\ pc[p] = "scan" /\ scan[p] \in Procs

WaitReturns(p) ==
  /\ wlock' = NoCpu
  /\ want' = Set(want, p, 0)
  /\ scan' = Set(scan, p, 1)
  /\ havekids' = Set(havekids, p, FALSE)
  /\ Goto(p, "user")

SkipSlot(c, p) ==
  /\ Scans(c, p)
  /\ ~Awaited(p, scan[p])
  /\ scan' = Set(scan, p, scan[p] + 1)
  /\ UNCHANGED <<schedVars, procVars, pc, np, want, havekids, victims>>

(* A plausible bug: the body of the loop advances pp once more. *)
SeeChildSkipOne(c, p) ==
  /\ Scans(c, p)
  /\ Awaited(p, scan[p])
  /\ plock[scan[p]] = NoCpu
  /\ state[scan[p]] # "ZOMBIE"
  /\ scan' = Set(scan, p, scan[p] + 2)
  /\ havekids' = Set(havekids, p, TRUE)
  /\ UNCHANGED <<schedVars, procVars, pc, np, want, victims>>

(* A child that is no zombie yet. *)
SeeChild(c, p) ==
  /\ Scans(c, p)
  /\ Awaited(p, scan[p])
  /\ plock[scan[p]] = NoCpu
  /\ state[scan[p]] # "ZOMBIE"
  /\ scan' = Set(scan, p, scan[p] + 1)
  /\ havekids' = Set(havekids, p, TRUE)
  /\ UNCHANGED <<schedVars, procVars, pc, np, want, victims>>

(* A plausible bug: the zombie is freed without a look at its lock. *)
ReapUnlocked(c, p) ==
  /\ Scans(c, p)
  /\ Awaited(p, scan[p])
  /\ state[scan[p]] = "ZOMBIE"
  /\ FreeProc(scan[p])
  /\ WaitReturns(p)
  /\ UNCHANGED <<plock, cpu, nextpid, np, victims>>

Reap(c, p) ==
  /\ Scans(c, p)
  /\ Awaited(p, scan[p])
  /\ plock[scan[p]] = NoCpu
  /\ state[scan[p]] = "ZOMBIE"
  /\ FreeProc(scan[p])
  /\ WaitReturns(p)
  /\ UNCHANGED <<plock, cpu, nextpid, np, victims>>

(* copyout() of the status fails: -1, and the zombie stays. *)
ReapFault(c, p) ==
  /\ Scans(c, p)
  /\ Awaited(p, scan[p])
  /\ plock[scan[p]] = NoCpu
  /\ state[scan[p]] = "ZOMBIE"
  /\ WaitReturns(p)
  /\ UNCHANGED <<schedVars, pid, parent, killed, nextpid, np, victims>>

Scanned(c, p) == On(c, p) /\ pc[p] = "scan" /\ scan[p] = NPROC + 1

(* No children, or killed(p): return -1. *)
WaitFails(c, p) ==
  /\ Scanned(c, p)
  /\ ~havekids[p] \/ (killed[p] /\ plock[p] = NoCpu)
  /\ WaitReturns(p)
  /\ UNCHANGED <<schedVars, pid, parent, killed, nextpid, np, victims>>

WaitMore(c, p) ==
  /\ Scanned(c, p)
  /\ havekids[p] /\ ~killed[p] /\ plock[p] = NoCpu
  /\ Goto(p, "sleep")
  /\ UNCHANGED <<schedVars, procVars, np, want, scan, havekids, victims>>

(* sleep(p, &wait_lock) *)

(* A plausible bug: wait_lock is released before p->lock is taken. *)
WaitSleepUnlocked(c, p) ==
  /\ pc[p] = "sleep"
  /\ \/ /\ wlock = c
        /\ wlock' = NoCpu
        /\ UNCHANGED <<schedVars, pc>>
     \/ /\ wlock # c
        /\ SleepLock(c, p)
        /\ Goto(p, "sleepon")
        /\ UNCHANGED wlock
  /\ UNCHANGED <<pid, parent, killed, nextpid, np, want, scan, havekids, victims>>

WaitSleepLock(c, p) ==
  /\ pc[p] = "sleep"
  /\ SleepLock(c, p)
  /\ Goto(p, "sleeplk")
  /\ UNCHANGED <<procVars, np, want, scan, havekids, victims>>

WaitSleepRelease(c, p) ==
  /\ On(c, p) /\ pc[p] = "sleeplk"
  /\ wlock' = NoCpu
  /\ Goto(p, "sleepon")
  /\ UNCHANGED <<schedVars, pid, parent, killed, nextpid, np, want, scan, havekids,
                 victims>>

WaitSleepOn(c, p) ==
  /\ pc[p] = "sleepon"
  /\ SleepOn(c, p, p)
  /\ Goto(p, "asleep")
  /\ UNCHANGED <<procVars, np, want, scan, havekids, victims>>

WaitSleepEnd(c, p) ==
  /\ pc[p] = "asleep"
  /\ SleepEnd(c, p)
  /\ Goto(p, "wait")
  /\ UNCHANGED <<procVars, np, want, scan, havekids, victims>>

-----------------------------------------------------------------------------
(* kkill(): the loop has found a slot q with that pid.  Live pids are      *)
(* unique; free slots all have pid 0, and the first one not taken when the *)
(* loop passes may be any.  Signals other than SIGKILL only end a sleep.   *)
Kill(c, p, q, sigkill) ==
  /\ Calls(c, p)
  /\ pid[q] \in KillPids
  /\ plock[q] = NoCpu
  /\ KillWake(q)
  /\ killed' = IF sigkill THEN Set(killed, q, TRUE) ELSE killed
  /\ victims' = IF sigkill THEN victims \cup {pid[q]} ELSE victims
  /\ UNCHANGED <<pid, parent, nextpid, wlock, locals>>

-----------------------------------------------------------------------------
SchedStep(c, p) ==
  Schedule(c, p) \/ Deschedule(c, p) \/ Preempt(c, p) \/ Resumed(c, p)

ForkStep(c, p) ==
  \/ \E q \in Procs : AllocProc(c, p, q)
  \/ CopyFails(c, p) \/ Copied(c, p) \/ Adopt(c, p) \/ Start(c, p)

ExitStep(c, p) ==
  \/ CallExit(c, p) \/ ExitLock(c, p)
  \/ \E q \in Procs : Reparent(c, p, q)
  \/ WakeParent(c, p) \/ BecomeZombie(c, p) \/ ExitUnlock(c, p)

WaitStep(c, p) ==
  \/ \E n \in Pids : CallWait(c, p, n)
  \/ WaitLock(c, p)
  \/ SkipSlot(c, p) \/ SeeChild(c, p)
  \/ Reap(c, p) \/ ReapFault(c, p)
  \/ WaitFails(c, p) \/ WaitMore(c, p)
  \/ WaitSleepLock(c, p) \/ WaitSleepRelease(c, p)
  \/ WaitSleepOn(c, p) \/ WaitSleepEnd(c, p)

Next ==
  \E c \in CPUs, p \in Procs :
    \/ SchedStep(c, p) \/ ForkStep(c, p) \/ ExitStep(c, p) \/ WaitStep(c, p)
    \/ \E q \in Procs, b \in BOOLEAN : Kill(c, p, q, b)

Spec == Init /\ [][Next]_vars

-----------------------------------------------------------------------------
(* Properties *)

TypeOK ==
  /\ state \in [Procs -> ProcStates]
  /\ chan \in [Procs -> Procs \cup {NoChan}]
  /\ plock \in [Procs -> CPUs \cup {NoCpu}]
  /\ cpu \in [CPUs -> Procs \cup {NoProc}]
  /\ pid \in [Procs -> Pids]
  /\ parent \in [Procs -> Procs \cup {0}]
  /\ killed \in [Procs -> BOOLEAN]
  /\ nextpid \in 1 .. MaxPid + 1
  /\ wlock \in CPUs \cup {NoCpu}
  /\ pc \in [Procs -> PCs]
  /\ np \in [Procs -> Procs \cup {0}]
  /\ want \in [Procs -> Pids]
  /\ scan \in [Procs -> 1 .. NPROC + 1]
  /\ havekids \in [Procs -> BOOLEAN]
  /\ victims \subseteq Pids

(* p->parent never leads to a slot that is free, may be taken by another   *)
(* process, or belongs to a process that is past exit: what reparent() and *)
(* wait_lock are for.  kexit() and get_psinfo() follow the pointer.        *)
ParentIsAlive ==
  \A p \in Procs :
    /\ parent[p] # 0 => state[parent[p]] \notin {"UNUSED", "USED", "ZOMBIE"}
    /\ state[p] \notin {"UNUSED", "USED"} /\ p # initproc => parent[p] # 0

(* A slot, with its kernel stack, trapframe and page table, is free or     *)
(* being set up only when no CPU is still on it: a parent in kwait() must  *)
(* not free a child that is still in kexit() or swtch().                   *)
FreeSlotIsOffCpu ==
  \A p \in Procs, c \in CPUs : state[p] \in {"UNUSED", "USED"} => cpu[c] # p

(* No exit is slept through: a process asleep in kwait() or kjoin() has no *)
(* zombie child it waits for, whoever was woken, killed or handed to init. *)
NoExitIsMissed ==
  \A p, q \in Procs :
    state[p] = "SLEEPING" /\ Awaited(p, q) => state[q] # "ZOMBIE"

(* proc.c:578, "Kill the process with the given pid": whoever is marked    *)
(* killed was named by a kill().                                           *)
OnlyTheNamedAreKilled ==
  \A p \in Procs :
    killed[p] /\ state[p] # "UNUSED" => pid[p] \in victims
=============================================================================
