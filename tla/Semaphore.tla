----------------------------- MODULE Semaphore -----------------------------
(***************************************************************************)
(* sys_sem_wait() and sys_sem_post() of kernel/sysproc.c on top of sleep() *)
(* and wakeup(), at the granularity of single spinlock operations: every   *)
(* instant at which another CPU can observe or change the shared state is  *)
(* a state of this module.  Invalid semaphore ids are rejected before      *)
(* anything is touched and are left out.                                   *)
(***************************************************************************)
EXTENDS Sched

CONSTANTS
  Sems,       \* indices of semtable[]
  InitCount,  \* seminit() sets every count to 1
  MaxCount,   \* bound on a count: no post beyond it
  NoSem       \* arg[p] outside a call

ASSUME CountAssumption == InitCount \in Nat /\ MaxCount \in Nat /\ InitCount <= MaxCount
ASSUME NoSemAssumption == NoSem \notin Sems
ASSUME NoChanAssumption == NoChan \notin Sems

VARIABLES
  count,      \* semtable[s].count
  slock,      \* the CPU holding semtable[s].lock, or NoCpu
  pc,         \* where p is in its system call
  arg,        \* the id argument of p's system call
  scan        \* the loop index of p's wakeup()

semVars == <<count, slock, pc, arg, scan>>
vars == <<schedVars, semVars>>

PCs == {"user",      \* in user space
        "wait",      \* sem_wait: about to acquire the semaphore's lock
        "test",      \* sem_wait: lock held, at the head of the while loop
        "sleep",     \* sleep(): about to acquire p->lock
        "sleeplk",   \* sleep(): both locks held
        "sleepon",   \* sleep(): condition lock released
        "asleep",    \* sleep(): at or behind sched()
        "post",      \* sem_post: about to acquire the semaphore's lock
        "wakeup"}    \* sem_post: in wakeup(), semaphore's lock held

Goto(p, l) == pc' = [pc EXCEPT ![p] = l]

(* The program points at which interrupts are on: a timer interrupt may    *)
(* make the process yield.                                                 *)
Preemptible == {"user", "wait", "post"}

Init ==
  /\ state = [p \in Procs |-> "RUNNABLE"]
  /\ chan = [p \in Procs |-> NoChan]
  /\ plock = [p \in Procs |-> NoCpu]
  /\ cpu = [c \in CPUs |-> NoProc]
  /\ count = [s \in Sems |-> InitCount]
  /\ slock = [s \in Sems |-> NoCpu]
  /\ pc = [p \in Procs |-> "user"]
  /\ arg = [p \in Procs |-> NoSem]
  /\ scan = [p \in Procs |-> 1]

-----------------------------------------------------------------------------
(* The scheduler and yield(). *)

Schedule(c, p) == Dispatch(c, p) /\ UNCHANGED semVars

Deschedule(c, p) == Switch(c, p) /\ UNCHANGED semVars

Preempt(c, p) ==
  /\ pc[p] \in Preemptible
  /\ YieldCpu(c, p)
  /\ UNCHANGED semVars

Resumed(c, p) ==
  /\ pc[p] \in Preemptible
  /\ Resume(c, p)
  /\ UNCHANGED semVars

-----------------------------------------------------------------------------
(* sys_sem_wait(id) *)

CallWait(c, p, s) ==
  /\ pc[p] = "user"
  /\ Runs(c, p)
  /\ arg' = [arg EXCEPT ![p] = s]
  /\ Goto(p, "wait")
  /\ UNCHANGED <<schedVars, count, slock, scan>>

AcquireToWait(c, p, s) ==
  /\ pc[p] = "wait" /\ arg[p] = s
  /\ Runs(c, p)
  /\ slock[s] = NoCpu
  /\ slock' = [slock EXCEPT ![s] = c]
  /\ Goto(p, "test")
  /\ UNCHANGED <<schedVars, count, arg, scan>>

(* The loop ends with a unit available: take it, release, return 0. *)
Take(c, p, s) ==
  /\ pc[p] = "test" /\ arg[p] = s
  /\ On(c, p)
  /\ count[s] > 0
  /\ count' = [count EXCEPT ![s] = @ - 1]
  /\ slock' = [slock EXCEPT ![s] = NoCpu]
  /\ arg' = [arg EXCEPT ![p] = NoSem]
  /\ Goto(p, "user")
  /\ UNCHANGED <<schedVars, scan>>

(* The loop body: sleep(&semtable[id], &semtable[id].lock). *)
MustSleep(c, p, s) ==
  /\ pc[p] = "test" /\ arg[p] = s
  /\ On(c, p)
  /\ ~(count[s] > 0)
  /\ Goto(p, "sleep")
  /\ UNCHANGED <<schedVars, count, slock, arg, scan>>

(* A plausible bug: release the condition lock before taking p->lock. *)
SleepUnlocked(c, p, s) ==
  /\ pc[p] = "sleep" /\ arg[p] = s
  /\ \/ /\ slock[s] = c
        /\ slock' = [slock EXCEPT ![s] = NoCpu]
        /\ UNCHANGED <<schedVars, pc>>
     \/ /\ slock[s] # c
        /\ SleepLock(c, p)
        /\ Goto(p, "sleepon")
        /\ UNCHANGED slock
  /\ UNCHANGED <<count, arg, scan>>

SleepAcquire(c, p, s) ==
  /\ pc[p] = "sleep" /\ arg[p] = s
  /\ SleepLock(c, p)
  /\ Goto(p, "sleeplk")
  /\ UNCHANGED <<count, slock, arg, scan>>

(* A plausible bug: sleep() keeps the condition lock. *)
SleepKeepsLock(c, p, s) ==
  /\ pc[p] = "sleeplk" /\ arg[p] = s
  /\ On(c, p)
  /\ Goto(p, "sleepon")
  /\ UNCHANGED <<schedVars, count, slock, arg, scan>>

SleepRelease(c, p, s) ==
  /\ pc[p] = "sleeplk" /\ arg[p] = s
  /\ On(c, p)
  /\ slock' = [slock EXCEPT ![s] = NoCpu]
  /\ Goto(p, "sleepon")
  /\ UNCHANGED <<schedVars, count, arg, scan>>

FallAsleep(c, p, s) ==
  /\ pc[p] = "sleepon" /\ arg[p] = s
  /\ SleepOn(c, p, s)
  /\ Goto(p, "asleep")
  /\ UNCHANGED <<count, slock, arg, scan>>

(* A plausible bug: an if for the while, being awake taken for a unit. *)
WakeIsGrant(c, p, s) ==
  /\ pc[p] = "asleep" /\ arg[p] = s
  /\ SleepEnd(c, p)
  /\ slock[s] = NoCpu
  /\ count' = [count EXCEPT ![s] = @ - 1]
  /\ arg' = [arg EXCEPT ![p] = NoSem]
  /\ Goto(p, "user")
  /\ UNCHANGED <<slock, scan>>

(* Awake again: leave sleep() for its acquire(lk), then the loop test. *)
WakeFromSleep(c, p, s) ==
  /\ pc[p] = "asleep" /\ arg[p] = s
  /\ SleepEnd(c, p)
  /\ Goto(p, "wait")
  /\ UNCHANGED <<count, slock, arg, scan>>

-----------------------------------------------------------------------------
(* sys_sem_post(id) *)

CallPost(c, p, s) ==
  /\ pc[p] = "user"
  /\ Runs(c, p)
  /\ arg' = [arg EXCEPT ![p] = s]
  /\ Goto(p, "post")
  /\ UNCHANGED <<schedVars, count, slock, scan>>

(* Under the lock: count++, then wakeup(&semtable[id]) from slot 1 on. *)
AcquireToPost(c, p, s) ==
  /\ pc[p] = "post" /\ arg[p] = s
  /\ Runs(c, p)
  /\ slock[s] = NoCpu
  /\ count[s] < MaxCount
  /\ slock' = [slock EXCEPT ![s] = c]
  /\ count' = [count EXCEPT ![s] = @ + 1]
  /\ scan' = [scan EXCEPT ![p] = 1]
  /\ Goto(p, "wakeup")
  /\ UNCHANGED <<schedVars, arg>>

(* A plausible bug: the last slot of proc[] is never visited. *)
WakeupMissesLast(c, p, s) ==
  /\ pc[p] = "wakeup" /\ arg[p] = s
  /\ scan[p] < NPROC
  /\ On(c, p)
  /\ WakeupOne(p, scan[p], s)
  /\ scan' = [scan EXCEPT ![p] = IF @ + 1 = NPROC THEN NPROC + 1 ELSE @ + 1]
  /\ UNCHANGED <<count, slock, pc, arg>>

WakeupStep(c, p, s) ==
  /\ pc[p] = "wakeup" /\ arg[p] = s
  /\ scan[p] <= NPROC
  /\ On(c, p)
  /\ WakeupOne(p, scan[p], s)
  /\ scan' = [scan EXCEPT ![p] = @ + 1]
  /\ UNCHANGED <<count, slock, pc, arg>>

EndPost(c, p, s) ==
  /\ pc[p] = "wakeup" /\ arg[p] = s
  /\ scan[p] > NPROC
  /\ On(c, p)
  /\ slock' = [slock EXCEPT ![s] = NoCpu]
  /\ arg' = [arg EXCEPT ![p] = NoSem]
  /\ Goto(p, "user")
  /\ UNCHANGED <<schedVars, count, scan>>

-----------------------------------------------------------------------------
(* kill(q, sig): wakes q whatever it sleeps on; sem_wait has to cope. *)
Kill(c, p, q) ==
  /\ pc[p] = "user"
  /\ Runs(c, p)
  /\ KillWake(q)
  /\ UNCHANGED semVars

-----------------------------------------------------------------------------
SchedStep(c, p) ==
  \/ Schedule(c, p)
  \/ Deschedule(c, p)
  \/ Preempt(c, p)
  \/ Resumed(c, p)

WaitStep(c, p, s) ==
  \/ CallWait(c, p, s)
  \/ AcquireToWait(c, p, s)
  \/ Take(c, p, s)
  \/ MustSleep(c, p, s)
  \/ SleepAcquire(c, p, s)
  \/ SleepRelease(c, p, s)
  \/ FallAsleep(c, p, s)
  \/ WakeFromSleep(c, p, s)

PostStep(c, p, s) ==
  \/ CallPost(c, p, s)
  \/ AcquireToPost(c, p, s)
  \/ WakeupStep(c, p, s)
  \/ EndPost(c, p, s)

Next ==
  \E c \in CPUs, p \in Procs :
    \/ SchedStep(c, p)
    \/ \E s \in Sems : WaitStep(c, p, s) \/ PostStep(c, p, s)
    \/ \E q \in Procs : Kill(c, p, q)

(***************************************************************************)
(* Fairness.  A CPU inside a critical section has interrupts off and runs  *)
(* to its end; where it spins for a p->lock that others hold in passing    *)
(* (a dispatch, a timer period apart from the next one) it gets the lock   *)
(* in the end, hence strong fairness.  Everywhere else the timer makes its *)
(* process yield in the end (devintr, usertrap).  Every scheduler loop     *)
(* visits every slot of proc[] over and over, so a RUNNABLE process is     *)
(* dispatched in the end.  A semaphore's lock that is tried again and      *)
(* again is obtained by one of the waiters that try; which one is left     *)
(* open, spinlock.c has no queue.                                          *)
(***************************************************************************)
Critical(c, p, s) ==
  \/ Take(c, p, s) \/ MustSleep(c, p, s)
  \/ SleepAcquire(c, p, s) \/ SleepRelease(c, p, s) \/ FallAsleep(c, p, s)
  \/ WakeFromSleep(c, p, s)
  \/ WakeupStep(c, p, s) \/ EndPost(c, p, s)

Fairness ==
  /\ \A c \in CPUs :
       /\ SF_vars(\E p \in Procs : \/ Deschedule(c, p) \/ Resumed(c, p)
                                   \/ \E s \in Sems : Critical(c, p, s))
       /\ WF_vars(\E p \in Procs : Preempt(c, p))
  /\ \A p \in Procs : SF_vars(\E c \in CPUs : Schedule(c, p))
  /\ \A s \in Sems :
       SF_vars(\E c \in CPUs, p \in Procs : AcquireToWait(c, p, s))

Safety == Init /\ [][Next]_vars
Spec == Safety /\ Fairness

-----------------------------------------------------------------------------
(* Properties *)

(* Every variable stays in its range; counts never go below 0 (int count   *)
(* of struct sem, tested with <= 0 in sys_sem_wait).                       *)
TypeOK ==
  /\ state \in [Procs -> {"SLEEPING", "RUNNABLE", "RUNNING"}]
  /\ chan \in [Procs -> Sems \cup {NoChan}]
  /\ plock \in [Procs -> CPUs \cup {NoCpu}]
  /\ cpu \in [CPUs -> Procs \cup {NoProc}]
  /\ count \in [Sems -> 0 .. MaxCount]
  /\ slock \in [Sems -> CPUs \cup {NoCpu}]
  /\ pc \in [Procs -> PCs]
  /\ arg \in [Procs -> Sems \cup {NoSem}]
  /\ scan \in [Procs -> 1 .. NPROC + 1]

(* No two CPUs ever execute on the same kernel stack.  It rests on p->lock *)
(* staying held across swtch() in sched() and scheduler(): a process woken *)
(* between its state change and its switch must not be dispatched.         *)
OneStackOneCpu ==
  \A c, d \in CPUs : cpu[c] # NoProc /\ cpu[c] = cpu[d] => c = d

(* The panics of sched() cannot fire ("sched p->lock", "sched locks"): a   *)
(* CPU whose process has stopped RUNNING holds that process's lock and no  *)
(* other spinlock.  Nor can "release": the lock a step releases is held.   *)
SwitchHoldsOnlyPlock ==
  \A c \in CPUs, p \in Procs :
    cpu[c] = p /\ state[p] # "RUNNING" =>
      /\ plock[p] = c
      /\ \A q \in Procs : plock[q] = c => q = p
      /\ \A s \in Sems : slock[s] # c

(* A wakeup() on s that has yet to visit slot p. *)
WakeupComing(s, p) ==
  \E q \in Procs : pc[q] = "wakeup" /\ arg[q] = s /\ scan[q] <= p

(* No lost wakeup, the reason sleep() takes p->lock before releasing lk: a *)
(* process sleeps on a semaphore with units only while a sem_post is still *)
(* on its way to wake it.                                                  *)
NoLostWakeup ==
  \A p \in Procs :
    state[p] = "SLEEPING" /\ count[chan[p]] > 0 => WakeupComing(chan[p], p)

(* Where a process holds the lock of the semaphore it was called with. *)
HasSlock == {"test", "sleep", "sleeplk", "wakeup"}

RunningIsOnCpu ==
  \A p \in Procs : state[p] = "RUNNING" => \E c \in CPUs : cpu[c] = p

(* p->lock is held by the CPU that p is on, and that CPU does hold it in   *)
(* sleep() past the acquire, and once p has stopped RUNNING.               *)
PlockOnCpu ==
  \A c \in CPUs, p \in Procs :
    /\ plock[p] = c => cpu[c] = p
    /\ cpu[c] = p /\ (\/ state[p] # "RUNNING"
                      \/ pc[p] \in {"sleeplk", "sleepon", "asleep"})
         => plock[p] = c

(* A semaphore's lock is held by exactly the CPU whose process is at a     *)
(* point where it should be.                                               *)
SlockOnCpu ==
  \A c \in CPUs :
    /\ \A p \in Procs : cpu[c] = p /\ pc[p] \in HasSlock => slock[arg[p]] = c
    /\ \A s \in Sems :
         slock[s] = c => \E p \in Procs : /\ cpu[c] = p
                                          /\ pc[p] \in HasSlock
                                          /\ arg[p] = s

CallState ==
  \A p \in Procs :
    /\ pc[p] \in HasSlock \cup {"sleepon"} => state[p] = "RUNNING"
    /\ pc[p] # "user" => arg[p] \in Sems
    /\ pc[p] = "user" => arg[p] = NoSem

LockInv ==
  OneStackOneCpu /\ RunningIsOnCpu /\ PlockOnCpu /\ SlockOnCpu /\ CallState

(* A process on its way to sleep, or asleep, has seen the semaphore empty, *)
(* and since it gave up the semaphore's lock only a poster that will still *)
(* reach its slot can have changed that.                                   *)
SleepInv ==
  \A p \in Procs :
    /\ state[p] = "SLEEPING" => pc[p] = "asleep" /\ chan[p] = arg[p]
    /\ pc[p] \in {"sleep", "sleeplk"} => count[arg[p]] = 0
    /\ (pc[p] = "sleepon" \/ state[p] = "SLEEPING") /\ count[arg[p]] > 0
         => WakeupComing(arg[p], p)

(* The inductive invariant behind the four invariants above. *)
IInv == TypeOK /\ LockInv /\ SleepInv

(* The processes seen as users of the abstract semaphores: one that has    *)
(* entered sem_wait wants a unit until Take gives it one.                  *)
Waiting(p) ==
  pc[p] \in {"wait", "test", "sleep", "sleeplk", "sleepon", "asleep"}

Abstract ==
  INSTANCE SemSpec WITH
    Users <- Procs, Idle <- NoSem, units <- count,
    want <- [p \in Procs |-> IF Waiting(p) THEN arg[p] ELSE NoSem]

(* The lock-level code implements counting semaphores, and a unit somebody *)
(* waits for is handed out in the end (sem_post's wakeup, sem_wait's loop).*)
ImplementsSemSpec == Abstract!Spec
=============================================================================
