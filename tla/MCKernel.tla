------------------------------ MODULE MCKernel ------------------------------
(***************************************************************************)
(* An instance of the process table and one of the memory of processes.    *)
(* They share nothing: `scene' tells which of the two moves, and the other *)
(* keeps its first state.                                                  *)
(***************************************************************************)
EXTENDS MCProc, MCThreadMem

VARIABLE scene

kernelVars == <<scene, vars, memVars>>

KernelInit == scene \in {"processes", "memory"} /\ Init /\ MemInit

Ker(A) == scene = "processes" /\ A /\ UNCHANGED <<scene, memVars>>
Mem(A) == scene = "memory" /\ A /\ UNCHANGED <<scene, vars>>

(* Next and MemNext, action by action *)
ProcSteps ==
  \E c \in CPUs, p \in Procs :
    \/ Ker(Schedule(c, p)) \/ Ker(Deschedule(c, p)) \/ Ker(Preempt(c, p)) \/ Ker(Resumed(c, p))
    \/ \E q \in Procs :
         \/ Ker(AllocProc(c, p, q)) \/ Ker(Reparent(c, p, q))
         \/ \E b \in BOOLEAN : Ker(Kill(c, p, q, b))
    \/ Ker(CopyFails(c, p)) \/ Ker(Copied(c, p)) \/ Ker(Adopt(c, p)) \/ Ker(Start(c, p))
    \/ Ker(CallExit(c, p)) \/ Ker(ExitLock(c, p))
    \/ Ker(WakeParent(c, p)) \/ Ker(BecomeZombie(c, p)) \/ Ker(ExitUnlock(c, p))
    \/ \E n \in Pids : Ker(CallWait(c, p, n))
    \/ Ker(WaitLock(c, p)) \/ Ker(SkipSlot(c, p)) \/ Ker(SeeChild(c, p))
    \/ Ker(Reap(c, p)) \/ Ker(ReapFault(c, p)) \/ Ker(WaitFails(c, p)) \/ Ker(WaitMore(c, p))
    \/ Ker(WaitSleepLock(c, p)) \/ Ker(WaitSleepRelease(c, p))
    \/ Ker(WaitSleepOn(c, p)) \/ Ker(WaitSleepEnd(c, p))

MemSteps ==
  \E p \in Tasks :
    \/ \E x \in Tasks :
         Mem(Spawn(p, x, "fork")) \/ Mem(Spawn(p, x, "clone")) \/ Mem(Collect(p, x))
    \/ Mem(SkipPage(p)) \/ Mem(CopyPage(p)) \/ Mem(SharePage(p))
    \/ Mem(CopyStops(p)) \/ Mem(ShareFails(p)) \/ Mem(Created(p))
    \/ \E n \in 1 .. NPAGES : Mem(LazyGrow(p, n)) \/ Mem(Grow(p, n))
    \/ \E n \in Pages : Mem(Shrink(p, n)) \/ Mem(Fault(p, n))
    \/ Mem(GrowPage(p)) \/ Mem(GrowFails(p)) \/ Mem(GrowDone(p))
    \/ Mem(Exec(p)) \/ Mem(ExecPage(p)) \/ Mem(ExecFails(p)) \/ Mem(ExecDone(p))
    \/ Mem(Exit(p))

KernelNext == ProcSteps \/ MemSteps

KernelSpec == KernelInit /\ [][KernelNext]_kernelVars

(* The one that keeps its first state need not be looked at. *)
KernelView == IF scene = "processes" THEN <<scene, vars>> ELSE <<scene, Shape>>

(* CPUs are alike, and so are the slots other than that of initproc. *)
Alike == AnyCpu \cup Slots
=============================================================================
