------------------------------- MODULE Sched -------------------------------
(***************************************************************************)
(* The part of kernel/proc.c that every blocking system call goes through: *)
(* the process table's state, chan and lock fields, the per-CPU scheduler  *)
(* loop, yield(), sleep() and wakeup().                                    *)
(*                                                                         *)
(* The operators below are the pieces of actions.  A component module      *)
(* EXTENDS this one, adds its own variables and its program counters, and  *)
(* builds its actions from these pieces.  Each piece says what happens to  *)
(* the four variables of this module and to nothing else.                  *)
(*                                                                         *)
(* Spinlocks are owned by CPUs, as in struct spinlock (lk->cpu): a CPU     *)
(* holding one runs with interrupts off, so its process is not preempted,  *)
(* and p->lock is handed from the process to the scheduler of the same CPU *)
(* across swtch().                                                         *)
(***************************************************************************)
EXTENDS Naturals

CONSTANTS
  NPROC,    \* number of slots of proc[]
  CPUs,     \* the harts, each running scheduler()
  NoProc,   \* c->proc = 0: the CPU is in its scheduler loop
  NoCpu,    \* lk->locked = 0: nobody holds the spinlock
  NoChan    \* p->chan = 0

ASSUME NPROCAssumption == NPROC \in Nat \ {0}
ASSUME NoCpuAssumption == NoCpu \notin CPUs

Procs == 1 .. NPROC

ASSUME NoProcAssumption == NoProc \notin Procs

VARIABLES
  state,    \* p->state
  chan,     \* p->chan
  plock,    \* the CPU holding p->lock, or NoCpu
  cpu       \* cpus[c].proc: the process whose kernel stack CPU c is on

schedVars == <<state, chan, plock, cpu>>

ProcStates == {"UNUSED", "USED", "SLEEPING", "RUNNABLE", "RUNNING", "ZOMBIE"}

(* CPU c executes code of process p. *)
On(c, p) == cpu[c] = p /\ state[p] = "RUNNING"

(* The same, with p not inside sched(), sleep() or yield(). *)
Runs(c, p) == On(c, p) /\ plock[p] # c

-----------------------------------------------------------------------------
(* One successful iteration of scheduler(): with p->lock held, a RUNNABLE  *)
(* process becomes RUNNING and the CPU switches to it, still holding       *)
(* p->lock.                                                                *)
Dispatch(c, p) ==
  /\ cpu[c] = NoProc
  /\ plock[p] = NoCpu
  /\ state[p] = "RUNNABLE"
  /\ state' = [state EXCEPT ![p] = "RUNNING"]
  /\ cpu' = [cpu EXCEPT ![c] = p]
  /\ plock' = [plock EXCEPT ![p] = c]
  /\ UNCHANGED chan

(* A plausible bug: release p->lock before leaving p's stack. *)
SwitchUnlocked(c, p) ==
  /\ cpu[c] = p
  /\ state[p] # "RUNNING"
  /\ \/ /\ plock[p] = c
        /\ plock' = [plock EXCEPT ![p] = NoCpu]
        /\ UNCHANGED cpu
     \/ /\ plock[p] # c
        /\ cpu' = [cpu EXCEPT ![c] = NoProc]
        /\ UNCHANGED plock
  /\ UNCHANGED <<state, chan>>

(* sched() and the second half of the scheduler's iteration: the CPU       *)
(* leaves p's stack, clears c->proc and releases p->lock.                  *)
Switch(c, p) ==
  /\ cpu[c] = p
  /\ plock[p] = c
  /\ state[p] # "RUNNING"
  /\ cpu' = [cpu EXCEPT ![c] = NoProc]
  /\ plock' = [plock EXCEPT ![p] = NoCpu]
  /\ UNCHANGED <<state, chan>>

(* yield() up to sched(): acquire p->lock and become RUNNABLE. *)
YieldCpu(c, p) ==
  /\ Runs(c, p)
  /\ plock[p] = NoCpu
  /\ plock' = [plock EXCEPT ![p] = c]
  /\ state' = [state EXCEPT ![p] = "RUNNABLE"]
  /\ UNCHANGED <<chan, cpu>>

(* What follows sched() in yield(), and forkret(): release p->lock. *)
Resume(c, p) ==
  /\ On(c, p)
  /\ plock[p] = c
  /\ plock' = [plock EXCEPT ![p] = NoCpu]
  /\ UNCHANGED <<state, chan, cpu>>

-----------------------------------------------------------------------------
(* sleep(): take p->lock while the condition lock is still held... *)
SleepLock(c, p) ==
  /\ Runs(c, p)
  /\ plock[p] = NoCpu
  /\ plock' = [plock EXCEPT ![p] = c]
  /\ UNCHANGED <<state, chan, cpu>>

(* ...and, the condition lock released, go to sleep on channel ch. *)
SleepOn(c, p, ch) ==
  /\ On(c, p)
  /\ plock[p] = c
  /\ chan' = [chan EXCEPT ![p] = ch]
  /\ state' = [state EXCEPT ![p] = "SLEEPING"]
  /\ UNCHANGED <<plock, cpu>>

(* The end of sleep(), back on a CPU: chan = 0, release p->lock. *)
SleepEnd(c, p) ==
  /\ On(c, p)
  /\ plock[p] = c
  /\ chan' = [chan EXCEPT ![p] = NoChan]
  /\ plock' = [plock EXCEPT ![p] = NoCpu]
  /\ UNCHANGED <<state, cpu>>

(* The iteration of wakeup(ch), called by p, that visits slot q: under     *)
(* q->lock, a process asleep on ch becomes RUNNABLE.  The caller itself is *)
(* skipped.                                                                *)
WakeupOne(p, q, ch) ==
  IF q = p THEN UNCHANGED schedVars
  ELSE /\ plock[q] = NoCpu
       /\ state' = [state EXCEPT ![q] =
                      IF @ = "SLEEPING" /\ chan[q] = ch THEN "RUNNABLE" ELSE @]
       /\ UNCHANGED <<chan, plock, cpu>>

(* The part of kkill() that interrupts a sleep: under q->lock, whatever q  *)
(* is waiting for, it becomes RUNNABLE.                                    *)
KillWake(q) ==
  /\ plock[q] = NoCpu
  /\ state' = [state EXCEPT ![q] = IF @ = "SLEEPING" THEN "RUNNABLE" ELSE @]
  /\ UNCHANGED <<chan, plock, cpu>>
=============================================================================
