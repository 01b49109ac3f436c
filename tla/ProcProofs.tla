----------------------------- MODULE ProcProofs -----------------------------
(***************************************************************************)
(* Proofs about Proc for any number of process slots and any set of CPUs:  *)
(* the inductive invariant IInv of the life cycle, the invariants of the   *)
(* run, and the order of the spinlocks.                                    *)
(***************************************************************************)
EXTENDS Proc, TLAPS

USE NPROCAssumption, NoCpuAssumption, NoProcAssumption, MaxPidAssumption

-----------------------------------------------------------------------------
(* The invariant *)

(* The points at which a process holds wait_lock. *)
Holding == {"reparent", "zombie", "scan", "sleep", "sleeplk"}

(* The states that a slot can have when its process is at l. *)
StatesAt(l) ==
  CASE l = "user" -> {"UNUSED", "USED", "RUNNABLE", "RUNNING"}
    [] l \in {"adopt", "start", "exit", "wait"} -> {"RUNNABLE", "RUNNING"}
    [] l = "asleep" -> {"SLEEPING", "RUNNABLE", "RUNNING"}
    [] l = "gone" -> {"ZOMBIE", "UNUSED"}
    [] OTHER -> {"RUNNING"}

(* A stack has one CPU on it, which runs the process or holds its lock. *)
CpuInv ==
  /\ \A c, d \in CPUs : cpu[c] = cpu[d] /\ cpu[c] # NoProc => c = d
  /\ \A p \in Procs : state[p] = "RUNNING" => \E c \in CPUs : cpu[c] = p
  /\ \A c \in CPUs, p \in Procs : cpu[c] = p =>
       /\ state[p] \notin {"UNUSED", "USED"}
       /\ state[p] # "RUNNING" => plock[p] = c

(* What a slot is used for agrees with where its process is, and who is    *)
(* about to sleep has its lock held.                                       *)
PlaceInv ==
  \A p \in Procs :
    /\ state[p] \in StatesAt(pc[p])
    /\ state[p] = "SLEEPING" => chan[p] = p
    /\ pc[p] \in {"sleeplk", "sleepon"} => plock[p] # NoCpu

(* wait_lock is held by the process at a point of Holding, or by a zombie  *)
(* that is about to release it.                                            *)
WaitLockInv ==
  /\ \A p \in Procs, c \in CPUs : pc[p] \in Holding /\ cpu[c] = p => wlock = c
  /\ wlock # NoCpu => cpu[wlock] # NoProc /\ pc[cpu[wlock]] \in Holding \cup {"gone"}

(* np is the child that fork() is making, known to one process. *)
ChildInv ==
  /\ \A p \in Procs : np[p] # 0 => state[np[p]] = "USED"
  /\ \A p \in Procs : pc[p] \in {"copy", "adopt", "start"} => np[p] # 0
  /\ \A p, q \in Procs : np[p] = np[q] /\ np[p] # 0 => p = q
  /\ \A p \in Procs : pc[p] = "start" => parent[np[p]] = p

(* initproc lives and does not exit, and a process that is about to become *)
(* a zombie has handed over its children.                                  *)
InitLives ==
  /\ state[initproc] \notin {"UNUSED", "USED", "ZOMBIE"}
  /\ pc[initproc] \notin {"exit", "reparent", "zombie"}

HandedOver == \A p, q \in Procs : pc[p] = "zombie" => parent[q] # p

ParentInv == ParentIsAlive /\ HandedOver /\ InitLives

(* What a process in kwait() or kjoin() knows of the children it waits for *)
ExitInv ==
  \A p, q \in Procs : Awaited(p, q) =>
    /\ pc[p] = "scan" /\ q < scan[p] => state[q] # "ZOMBIE"
    /\ pc[p] \in {"sleep", "sleeplk"} => state[q] # "ZOMBIE"
    /\ pc[p] = "sleepon" \/ state[p] = "SLEEPING" =>
         state[q] # "ZOMBIE" /\ pc[q] # "zombie"

(* What a kill() finds in a free slot *)
KillInv ==
  /\ OnlyTheNamedAreKilled
  /\ \A p \in Procs : state[p] = "UNUSED" => pid[p] = 0 /\ ~killed[p]

(* The inductive invariant *)
IInv == TypeOK /\ CpuInv /\ PlaceInv /\ WaitLockInv /\ ChildInv /\ ParentInv /\ ExitInv

-----------------------------------------------------------------------------
(* Pieces of actions *)

(* initproc has a slot; 0 is not a slot. *)
LEMMA InitIsAProc == initproc \in Procs /\ 0 \notin Procs
  BY DEF initproc, Procs

(* freeproc() of a slot leaves the fields that it clears in their ranges. *)
LEMMA FreeProcType ==
  ASSUME TypeOK, NEW q, FreeProc(q)
  PROVE  /\ state' \in [Procs -> ProcStates] /\ pid' \in [Procs -> Pids]
         /\ parent' \in [Procs -> Procs \cup {0}] /\ chan' \in [Procs -> Procs \cup {NoChan}]
         /\ killed' \in [Procs -> BOOLEAN]
<1>1. state' \in [Procs -> ProcStates]
  BY DEF TypeOK, FreeProc, ClearSlot, Set, ProcStates
<1>2. pid' \in [Procs -> Pids]
  <2>1. 0 \in Pids
    BY DEF Pids
  <2>2. QED
    BY <2>1 DEF TypeOK, FreeProc, ClearSlot, Set
<1>3. /\ parent' \in [Procs -> Procs \cup {0}] /\ chan' \in [Procs -> Procs \cup {NoChan}]
      /\ killed' \in [Procs -> BOOLEAN]
  BY DEF TypeOK, FreeProc, ClearSlot, Set
<1>4. QED
  BY <1>1, <1>2, <1>3

-----------------------------------------------------------------------------
(* Every step keeps IInv: a lemma for each of its parts, a step for each    *)
(* action.                                                                  *)

(* Every step keeps every variable in its range. *)
LEMMA NextTypeOK ==
  TypeOK /\ [Next]_vars => TypeOK'
<1> SUFFICES ASSUME TypeOK, [Next]_vars PROVE TypeOK'
  OBVIOUS
<1> USE DEF TypeOK, PCs, ProcStates, Goto, Set, On, Runs, schedVars, procVars,
            locals
<1>1. ASSUME NEW c \in CPUs, NEW p \in Procs,
             Schedule(c, p)
      PROVE  TypeOK'
  BY <1>1 DEF Schedule, Dispatch
<1>2. ASSUME NEW c \in CPUs, NEW p \in Procs,
             Deschedule(c, p)
      PROVE  TypeOK'
  BY <1>2 DEF Deschedule, Switch
<1>3. ASSUME NEW c \in CPUs, NEW p \in Procs,
             Preempt(c, p)
      PROVE  TypeOK'
  BY <1>3 DEF Preempt, YieldCpu
<1>4. ASSUME NEW c \in CPUs, NEW p \in Procs,
             Resumed(c, p)
      PROVE  TypeOK'
  BY <1>4 DEF Resumed, Resume
<1>5. ASSUME NEW c \in CPUs, NEW p \in Procs, NEW q \in Procs,
             AllocProc(c, p, q)
      PROVE  TypeOK'
  BY <1>5 DEF AllocProc, AllocPid, Calls, Pids
<1>6. ASSUME NEW c \in CPUs, NEW p \in Procs,
             CopyFails(c, p)
      PROVE  TypeOK'
  <2>1. FreeProc(np[p])
    BY <1>6 DEF CopyFails
  <2>2. /\ state' \in [Procs -> ProcStates] /\ pid' \in [Procs -> Pids]
        /\ parent' \in [Procs -> Procs \cup {0}] /\ chan' \in [Procs -> Procs \cup {NoChan}]
        /\ killed' \in [Procs -> BOOLEAN]
    BY <2>1, FreeProcType
  <2>3. /\ plock' \in [Procs -> CPUs \cup {NoCpu}] /\ np' \in [Procs -> Procs \cup {0}]
        /\ pc' \in [Procs -> PCs]
    BY <1>6 DEF CopyFails
  <2>4. UNCHANGED <<cpu, nextpid, wlock, want, scan, havekids, victims>>
    BY <1>6 DEF CopyFails
  <2>5. QED
    BY <2>2, <2>3, <2>4
<1>7. ASSUME NEW c \in CPUs, NEW p \in Procs,
             Copied(c, p)
      PROVE  TypeOK'
  BY <1>7 DEF Copied
<1>8. ASSUME NEW c \in CPUs, NEW p \in Procs,
             Adopt(c, p)
      PROVE  TypeOK'
  BY <1>8 DEF Adopt
<1>9. ASSUME NEW c \in CPUs, NEW p \in Procs,
             Start(c, p)
      PROVE  TypeOK'
  BY <1>9 DEF Start
<1>10. ASSUME NEW c \in CPUs, NEW p \in Procs,
             CallExit(c, p)
      PROVE  TypeOK'
  BY <1>10 DEF CallExit
<1>11. ASSUME NEW c \in CPUs, NEW p \in Procs,
             ExitLock(c, p)
      PROVE  TypeOK'
  BY <1>11 DEF ExitLock
<1>12. ASSUME NEW c \in CPUs, NEW p \in Procs, NEW q \in Procs,
             Reparent(c, p, q)
      PROVE  TypeOK'
  BY <1>12, InitIsAProc DEF Reparent, WakeupOne
<1>13. ASSUME NEW c \in CPUs, NEW p \in Procs,
             WakeParent(c, p)
      PROVE  TypeOK'
  BY <1>13 DEF WakeParent, WakeupOne
<1>14. ASSUME NEW c \in CPUs, NEW p \in Procs,
             BecomeZombie(c, p)
      PROVE  TypeOK'
  BY <1>14 DEF BecomeZombie
<1>15. ASSUME NEW c \in CPUs, NEW p \in Procs,
             ExitUnlock(c, p)
      PROVE  TypeOK'
  BY <1>15 DEF ExitUnlock
<1>16. ASSUME NEW c \in CPUs, NEW p \in Procs, NEW n \in Pids,
             CallWait(c, p, n)
      PROVE  TypeOK'
  BY <1>16 DEF CallWait, Calls
<1>17. ASSUME NEW c \in CPUs, NEW p \in Procs,
             WaitLock(c, p)
      PROVE  TypeOK'
  BY <1>17 DEF WaitLock, Pids
<1>18. ASSUME NEW c \in CPUs, NEW p \in Procs,
             SkipSlot(c, p)
      PROVE  TypeOK'
  BY <1>18 DEF SkipSlot, Scans, Procs
<1>19. ASSUME NEW c \in CPUs, NEW p \in Procs,
             SeeChild(c, p)
      PROVE  TypeOK'
  BY <1>19 DEF SeeChild, Scans, Procs
<1>20. ASSUME NEW c \in CPUs, NEW p \in Procs,
             Reap(c, p)
      PROVE  TypeOK'
  <2>1. FreeProc(scan[p])
    BY <1>20 DEF Reap
  <2>2. /\ state' \in [Procs -> ProcStates] /\ pid' \in [Procs -> Pids]
        /\ parent' \in [Procs -> Procs \cup {0}] /\ chan' \in [Procs -> Procs \cup {NoChan}]
        /\ killed' \in [Procs -> BOOLEAN]
    BY <2>1, FreeProcType
  <2>3. /\ wlock' \in CPUs \cup {NoCpu} /\ want' \in [Procs -> Pids]
        /\ scan' \in [Procs -> 1 .. NPROC + 1] /\ havekids' \in [Procs -> BOOLEAN]
        /\ pc' \in [Procs -> PCs]
    BY <1>20 DEF Reap, WaitReturns, Pids
  <2>4. UNCHANGED <<plock, cpu, nextpid, np, victims>>
    BY <1>20 DEF Reap
  <2>5. QED
    BY <2>2, <2>3, <2>4
<1>21. ASSUME NEW c \in CPUs, NEW p \in Procs,
             ReapFault(c, p)
      PROVE  TypeOK'
  BY <1>21 DEF ReapFault, Scans, WaitReturns, Pids
<1>22. ASSUME NEW c \in CPUs, NEW p \in Procs,
             WaitFails(c, p)
      PROVE  TypeOK'
  BY <1>22 DEF WaitFails, Scanned, WaitReturns, Pids
<1>23. ASSUME NEW c \in CPUs, NEW p \in Procs,
             WaitMore(c, p)
      PROVE  TypeOK'
  BY <1>23 DEF WaitMore, Scanned
<1>24. ASSUME NEW c \in CPUs, NEW p \in Procs,
             WaitSleepLock(c, p)
      PROVE  TypeOK'
  BY <1>24 DEF WaitSleepLock, SleepLock
<1>25. ASSUME NEW c \in CPUs, NEW p \in Procs,
             WaitSleepRelease(c, p)
      PROVE  TypeOK'
  BY <1>25 DEF WaitSleepRelease
<1>26. ASSUME NEW c \in CPUs, NEW p \in Procs,
             WaitSleepOn(c, p)
      PROVE  TypeOK'
  BY <1>26 DEF WaitSleepOn, SleepOn
<1>27. ASSUME NEW c \in CPUs, NEW p \in Procs,
             WaitSleepEnd(c, p)
      PROVE  TypeOK'
  BY <1>27 DEF WaitSleepEnd, SleepEnd
<1>28. ASSUME NEW c \in CPUs, NEW p \in Procs, NEW q \in Procs, NEW b \in BOOLEAN,
             Kill(c, p, q, b)
      PROVE  TypeOK'
  BY <1>28 DEF Kill, Calls, KillWake
<1>29. CASE UNCHANGED vars
  BY <1>29 DEF vars, schedVars, procVars, locals
<1> HIDE DEF TypeOK, PCs, ProcStates, Goto, Set, On, Runs, schedVars,
             procVars, locals
<1>30. QED
  BY <1>1, <1>2, <1>3, <1>4, <1>5, <1>6, <1>7, <1>8, <1>9, <1>10, <1>11,
     <1>12, <1>13, <1>14, <1>15, <1>16, <1>17, <1>18, <1>19, <1>20, <1>21,
     <1>22, <1>23, <1>24, <1>25, <1>26, <1>27, <1>28, <1>29
  DEF Next, SchedStep, ForkStep, ExitStep, WaitStep

(* What a wakeup(), by p, does to slot q and to no other. *)
LEMMA WakeupEffect ==
  ASSUME TypeOK, NEW p, NEW q, NEW ch, WakeupOne(p, q, ch)
  PROVE  /\ UNCHANGED <<chan, plock, cpu>>
         /\ \A x \in Procs :
              \/ state'[x] = state[x]
              \/ x = q /\ plock[x] = NoCpu /\ state[x] = "SLEEPING" /\ state'[x] = "RUNNABLE"
         /\ q \in Procs \ {p} =>
              plock[q] = NoCpu /\ (chan[q] = ch => state'[q] # "SLEEPING")
<1>1. CASE q = p
  BY <1>1 DEF WakeupOne, schedVars
<1>2. CASE q # p
  BY <1>2 DEF WakeupOne, TypeOK
<1>3. QED
  BY <1>1, <1>2

(* What kkill() does to its target. *)
LEMMA KillEffect ==
  ASSUME TypeOK, NEW q \in Procs, KillWake(q)
  PROVE  /\ UNCHANGED <<chan, plock, cpu>>
         /\ \A x \in Procs :
              \/ state'[x] = state[x]
              \/ x = q /\ plock[x] = NoCpu /\ state[x] = "SLEEPING" /\ state'[x] = "RUNNABLE"
  BY DEF KillWake, TypeOK

(* A slot is dispatched, or given to another process, only with its lock   *)
(* free, which it is not while a CPU is on its stack.                       *)
LEMMA NextCpuInv ==
  IInv /\ [Next]_vars => CpuInv'
<1> SUFFICES ASSUME IInv, [Next]_vars PROVE CpuInv'
  OBVIOUS
<1> USE DEF TypeOK, Goto, Set, On, Runs, schedVars, procVars, locals, IInv,
            CpuInv, ChildInv
<1>1. ASSUME NEW c \in CPUs, NEW p \in Procs,
             Schedule(c, p)
      PROVE  CpuInv'
  BY <1>1 DEF Schedule, Dispatch
<1>2. ASSUME NEW c \in CPUs, NEW p \in Procs,
             Deschedule(c, p)
      PROVE  CpuInv'
  BY <1>2 DEF Deschedule, Switch
<1>3. ASSUME NEW c \in CPUs, NEW p \in Procs,
             Preempt(c, p)
      PROVE  CpuInv'
  BY <1>3 DEF Preempt, YieldCpu
<1>4. ASSUME NEW c \in CPUs, NEW p \in Procs,
             Resumed(c, p)
      PROVE  CpuInv'
  BY <1>4 DEF Resumed, Resume
<1>5. ASSUME NEW c \in CPUs, NEW p \in Procs, NEW q \in Procs,
             AllocProc(c, p, q)
      PROVE  CpuInv'
  BY <1>5 DEF AllocProc, AllocPid, Calls
<1>6. ASSUME NEW c \in CPUs, NEW p \in Procs,
             CopyFails(c, p)
      PROVE  CpuInv'
  BY <1>6 DEF CopyFails, FreeProc, ClearSlot
<1>7. ASSUME NEW c \in CPUs, NEW p \in Procs,
             Copied(c, p)
      PROVE  CpuInv'
  BY <1>7 DEF Copied
<1>8. ASSUME NEW c \in CPUs, NEW p \in Procs,
             Adopt(c, p)
      PROVE  CpuInv'
  BY <1>8 DEF Adopt
<1>9. ASSUME NEW c \in CPUs, NEW p \in Procs,
             Start(c, p)
      PROVE  CpuInv'
  BY <1>9 DEF Start
<1>10. ASSUME NEW c \in CPUs, NEW p \in Procs,
             CallExit(c, p)
      PROVE  CpuInv'
  BY <1>10 DEF CallExit
<1>11. ASSUME NEW c \in CPUs, NEW p \in Procs,
             ExitLock(c, p)
      PROVE  CpuInv'
  BY <1>11 DEF ExitLock
<1>12. ASSUME NEW c \in CPUs, NEW p \in Procs, NEW q \in Procs,
             Reparent(c, p, q)
      PROVE  CpuInv'
  BY <1>12, WakeupEffect DEF Reparent
<1>13. ASSUME NEW c \in CPUs, NEW p \in Procs,
             WakeParent(c, p)
      PROVE  CpuInv'
  BY <1>13, WakeupEffect DEF WakeParent
<1>14. ASSUME NEW c \in CPUs, NEW p \in Procs,
             BecomeZombie(c, p)
      PROVE  CpuInv'
  BY <1>14 DEF BecomeZombie
<1>15. ASSUME NEW c \in CPUs, NEW p \in Procs,
             ExitUnlock(c, p)
      PROVE  CpuInv'
  BY <1>15 DEF ExitUnlock
<1>16. ASSUME NEW c \in CPUs, NEW p \in Procs, NEW n \in Pids,
             CallWait(c, p, n)
      PROVE  CpuInv'
  BY <1>16 DEF CallWait, Calls
<1>17. ASSUME NEW c \in CPUs, NEW p \in Procs,
             WaitLock(c, p)
      PROVE  CpuInv'
  BY <1>17 DEF WaitLock
<1>18. ASSUME NEW c \in CPUs, NEW p \in Procs,
             SkipSlot(c, p)
      PROVE  CpuInv'
  BY <1>18 DEF SkipSlot, Scans
<1>19. ASSUME NEW c \in CPUs, NEW p \in Procs,
             SeeChild(c, p)
      PROVE  CpuInv'
  BY <1>19 DEF SeeChild, Scans
<1>20. ASSUME NEW c \in CPUs, NEW p \in Procs,
             Reap(c, p)
      PROVE  CpuInv'
  BY <1>20 DEF Reap, Scans, FreeProc, ClearSlot, WaitReturns
<1>21. ASSUME NEW c \in CPUs, NEW p \in Procs,
             ReapFault(c, p)
      PROVE  CpuInv'
  BY <1>21 DEF ReapFault, Scans, WaitReturns
<1>22. ASSUME NEW c \in CPUs, NEW p \in Procs,
             WaitFails(c, p)
      PROVE  CpuInv'
  BY <1>22 DEF WaitFails, Scanned, WaitReturns
<1>23. ASSUME NEW c \in CPUs, NEW p \in Procs,
             WaitMore(c, p)
      PROVE  CpuInv'
  BY <1>23 DEF WaitMore, Scanned
<1>24. ASSUME NEW c \in CPUs, NEW p \in Procs,
             WaitSleepLock(c, p)
      PROVE  CpuInv'
  BY <1>24 DEF WaitSleepLock, SleepLock
<1>25. ASSUME NEW c \in CPUs, NEW p \in Procs,
             WaitSleepRelease(c, p)
      PROVE  CpuInv'
  BY <1>25 DEF WaitSleepRelease
<1>26. ASSUME NEW c \in CPUs, NEW p \in Procs,
             WaitSleepOn(c, p)
      PROVE  CpuInv'
  BY <1>26 DEF WaitSleepOn, SleepOn
<1>27. ASSUME NEW c \in CPUs, NEW p \in Procs,
             WaitSleepEnd(c, p)
      PROVE  CpuInv'
  BY <1>27 DEF WaitSleepEnd, SleepEnd
<1>28. ASSUME NEW c \in CPUs, NEW p \in Procs, NEW q \in Procs, NEW b \in BOOLEAN,
             Kill(c, p, q, b)
      PROVE  CpuInv'
  BY <1>28, KillEffect DEF Kill, Calls
<1>29. CASE UNCHANGED vars
  BY <1>29 DEF vars, schedVars, procVars, locals
<1> HIDE DEF TypeOK, Goto, Set, On, Runs, schedVars, procVars, locals, IInv,
             CpuInv, ChildInv
<1>30. QED
  BY <1>1, <1>2, <1>3, <1>4, <1>5, <1>6, <1>7, <1>8, <1>9, <1>10, <1>11,
     <1>12, <1>13, <1>14, <1>15, <1>16, <1>17, <1>18, <1>19, <1>20, <1>21,
     <1>22, <1>23, <1>24, <1>25, <1>26, <1>27, <1>28, <1>29
  DEF Next, SchedStep, ForkStep, ExitStep, WaitStep

(* The state of a slot follows the place of its process; the slot of a     *)
(* process about to sleep stays locked.                                    *)
LEMMA NextPlaceInv ==
  IInv /\ [Next]_vars => PlaceInv'
<1> SUFFICES ASSUME IInv, [Next]_vars PROVE PlaceInv'
  OBVIOUS
<1> USE DEF TypeOK, Goto, Set, On, Runs, schedVars, procVars, locals, IInv,
            PCs, PlaceInv, CpuInv, ChildInv, StatesAt, Preemptible
<1>1. ASSUME NEW c \in CPUs, NEW p \in Procs,
             Schedule(c, p)
      PROVE  PlaceInv'
  BY <1>1 DEF Schedule, Dispatch
<1>2. ASSUME NEW c \in CPUs, NEW p \in Procs,
             Deschedule(c, p)
      PROVE  PlaceInv'
  BY <1>2 DEF Deschedule, Switch
<1>3. ASSUME NEW c \in CPUs, NEW p \in Procs,
             Preempt(c, p)
      PROVE  PlaceInv'
  BY <1>3 DEF Preempt, YieldCpu
<1>4. ASSUME NEW c \in CPUs, NEW p \in Procs,
             Resumed(c, p)
      PROVE  PlaceInv'
  BY <1>4 DEF Resumed, Resume
<1>5. ASSUME NEW c \in CPUs, NEW p \in Procs, NEW q \in Procs,
             AllocProc(c, p, q)
      PROVE  PlaceInv'
  BY <1>5 DEF AllocProc, AllocPid, Calls
<1>6. ASSUME NEW c \in CPUs, NEW p \in Procs,
             CopyFails(c, p)
      PROVE  PlaceInv'
  BY <1>6 DEF CopyFails, FreeProc, ClearSlot
<1>7. ASSUME NEW c \in CPUs, NEW p \in Procs,
             Copied(c, p)
      PROVE  PlaceInv'
  BY <1>7 DEF Copied
<1>8. ASSUME NEW c \in CPUs, NEW p \in Procs,
             Adopt(c, p)
      PROVE  PlaceInv'
  BY <1>8 DEF Adopt
<1>9. ASSUME NEW c \in CPUs, NEW p \in Procs,
             Start(c, p)
      PROVE  PlaceInv'
  BY <1>9 DEF Start
<1>10. ASSUME NEW c \in CPUs, NEW p \in Procs,
             CallExit(c, p)
      PROVE  PlaceInv'
  BY <1>10 DEF CallExit
<1>11. ASSUME NEW c \in CPUs, NEW p \in Procs,
             ExitLock(c, p)
      PROVE  PlaceInv'
  BY <1>11 DEF ExitLock
<1>12. ASSUME NEW c \in CPUs, NEW p \in Procs, NEW q \in Procs,
             Reparent(c, p, q)
      PROVE  PlaceInv'
  BY <1>12, WakeupEffect DEF Reparent
<1>13. ASSUME NEW c \in CPUs, NEW p \in Procs,
             WakeParent(c, p)
      PROVE  PlaceInv'
  BY <1>13, WakeupEffect DEF WakeParent
<1>14. ASSUME NEW c \in CPUs, NEW p \in Procs,
             BecomeZombie(c, p)
      PROVE  PlaceInv'
  BY <1>14 DEF BecomeZombie
<1>15. ASSUME NEW c \in CPUs, NEW p \in Procs,
             ExitUnlock(c, p)
      PROVE  PlaceInv'
  BY <1>15 DEF ExitUnlock
<1>16. ASSUME NEW c \in CPUs, NEW p \in Procs, NEW n \in Pids,
             CallWait(c, p, n)
      PROVE  PlaceInv'
  BY <1>16 DEF CallWait, Calls
<1>17. ASSUME NEW c \in CPUs, NEW p \in Procs,
             WaitLock(c, p)
      PROVE  PlaceInv'
  BY <1>17 DEF WaitLock
<1>18. ASSUME NEW c \in CPUs, NEW p \in Procs,
             SkipSlot(c, p)
      PROVE  PlaceInv'
  BY <1>18 DEF SkipSlot, Scans
<1>19. ASSUME NEW c \in CPUs, NEW p \in Procs,
             SeeChild(c, p)
      PROVE  PlaceInv'
  BY <1>19 DEF SeeChild, Scans
<1>20. ASSUME NEW c \in CPUs, NEW p \in Procs,
             Reap(c, p)
      PROVE  PlaceInv'
  BY <1>20 DEF Reap, Scans, FreeProc, ClearSlot, WaitReturns
<1>21. ASSUME NEW c \in CPUs, NEW p \in Procs,
             ReapFault(c, p)
      PROVE  PlaceInv'
  BY <1>21 DEF ReapFault, Scans, WaitReturns
<1>22. ASSUME NEW c \in CPUs, NEW p \in Procs,
             WaitFails(c, p)
      PROVE  PlaceInv'
  BY <1>22 DEF WaitFails, Scanned, WaitReturns
<1>23. ASSUME NEW c \in CPUs, NEW p \in Procs,
             WaitMore(c, p)
      PROVE  PlaceInv'
  BY <1>23 DEF WaitMore, Scanned
<1>24. ASSUME NEW c \in CPUs, NEW p \in Procs,
             WaitSleepLock(c, p)
      PROVE  PlaceInv'
  BY <1>24 DEF WaitSleepLock, SleepLock
<1>25. ASSUME NEW c \in CPUs, NEW p \in Procs,
             WaitSleepRelease(c, p)
      PROVE  PlaceInv'
  BY <1>25 DEF WaitSleepRelease
<1>26. ASSUME NEW c \in CPUs, NEW p \in Procs,
             WaitSleepOn(c, p)
      PROVE  PlaceInv'
  BY <1>26 DEF WaitSleepOn, SleepOn
<1>27. ASSUME NEW c \in CPUs, NEW p \in Procs,
             WaitSleepEnd(c, p)
      PROVE  PlaceInv'
  BY <1>27 DEF WaitSleepEnd, SleepEnd
<1>28. ASSUME NEW c \in CPUs, NEW p \in Procs, NEW q \in Procs, NEW b \in BOOLEAN,
             Kill(c, p, q, b)
      PROVE  PlaceInv'
  BY <1>28, KillEffect DEF Kill, Calls
<1>29. CASE UNCHANGED vars
  BY <1>29 DEF vars, schedVars, procVars, locals
<1> HIDE DEF TypeOK, Goto, Set, On, Runs, schedVars, procVars, locals, IInv,
             PCs, PlaceInv, CpuInv, ChildInv, StatesAt, Preemptible
<1>30. QED
  BY <1>1, <1>2, <1>3, <1>4, <1>5, <1>6, <1>7, <1>8, <1>9, <1>10, <1>11,
     <1>12, <1>13, <1>14, <1>15, <1>16, <1>17, <1>18, <1>19, <1>20, <1>21,
     <1>22, <1>23, <1>24, <1>25, <1>26, <1>27, <1>28, <1>29
  DEF Next, SchedStep, ForkStep, ExitStep, WaitStep

(* wait_lock is taken when it is free and given back by who took it, also  *)
(* by a zombie, before it leaves its stack.                                *)
LEMMA NextWaitLockInv ==
  IInv /\ [Next]_vars => WaitLockInv'
<1> SUFFICES ASSUME IInv, [Next]_vars PROVE WaitLockInv'
  OBVIOUS
<1> USE DEF TypeOK, Goto, Set, On, Runs, schedVars, procVars, locals, IInv,
            PlaceInv, CpuInv, ChildInv, WaitLockInv, Holding, Preemptible,
            StatesAt
<1>1. ASSUME NEW c \in CPUs, NEW p \in Procs,
             Schedule(c, p)
      PROVE  WaitLockInv'
  BY <1>1 DEF Schedule, Dispatch
<1>2. ASSUME NEW c \in CPUs, NEW p \in Procs,
             Deschedule(c, p)
      PROVE  WaitLockInv'
  BY <1>2 DEF Deschedule, Switch
<1>3. ASSUME NEW c \in CPUs, NEW p \in Procs,
             Preempt(c, p)
      PROVE  WaitLockInv'
  BY <1>3 DEF Preempt, YieldCpu
<1>4. ASSUME NEW c \in CPUs, NEW p \in Procs,
             Resumed(c, p)
      PROVE  WaitLockInv'
  BY <1>4 DEF Resumed, Resume
<1>5. ASSUME NEW c \in CPUs, NEW p \in Procs, NEW q \in Procs,
             AllocProc(c, p, q)
      PROVE  WaitLockInv'
  BY <1>5 DEF AllocProc, AllocPid, Calls
<1>6. ASSUME NEW c \in CPUs, NEW p \in Procs,
             CopyFails(c, p)
      PROVE  WaitLockInv'
  BY <1>6 DEF CopyFails, FreeProc, ClearSlot
<1>7. ASSUME NEW c \in CPUs, NEW p \in Procs,
             Copied(c, p)
      PROVE  WaitLockInv'
  BY <1>7 DEF Copied
<1>8. ASSUME NEW c \in CPUs, NEW p \in Procs,
             Adopt(c, p)
      PROVE  WaitLockInv'
  BY <1>8 DEF Adopt
<1>9. ASSUME NEW c \in CPUs, NEW p \in Procs,
             Start(c, p)
      PROVE  WaitLockInv'
  BY <1>9 DEF Start
<1>10. ASSUME NEW c \in CPUs, NEW p \in Procs,
             CallExit(c, p)
      PROVE  WaitLockInv'
  BY <1>10 DEF CallExit
<1>11. ASSUME NEW c \in CPUs, NEW p \in Procs,
             ExitLock(c, p)
      PROVE  WaitLockInv'
  BY <1>11 DEF ExitLock
<1>12. ASSUME NEW c \in CPUs, NEW p \in Procs, NEW q \in Procs,
             Reparent(c, p, q)
      PROVE  WaitLockInv'
  BY <1>12, WakeupEffect DEF Reparent
<1>13. ASSUME NEW c \in CPUs, NEW p \in Procs,
             WakeParent(c, p)
      PROVE  WaitLockInv'
  BY <1>13, WakeupEffect DEF WakeParent
<1>14. ASSUME NEW c \in CPUs, NEW p \in Procs,
             BecomeZombie(c, p)
      PROVE  WaitLockInv'
  BY <1>14 DEF BecomeZombie
<1>15. ASSUME NEW c \in CPUs, NEW p \in Procs,
             ExitUnlock(c, p)
      PROVE  WaitLockInv'
  BY <1>15 DEF ExitUnlock
<1>16. ASSUME NEW c \in CPUs, NEW p \in Procs, NEW n \in Pids,
             CallWait(c, p, n)
      PROVE  WaitLockInv'
  BY <1>16 DEF CallWait, Calls
<1>17. ASSUME NEW c \in CPUs, NEW p \in Procs,
             WaitLock(c, p)
      PROVE  WaitLockInv'
  BY <1>17 DEF WaitLock
<1>18. ASSUME NEW c \in CPUs, NEW p \in Procs,
             SkipSlot(c, p)
      PROVE  WaitLockInv'
  BY <1>18 DEF SkipSlot, Scans
<1>19. ASSUME NEW c \in CPUs, NEW p \in Procs,
             SeeChild(c, p)
      PROVE  WaitLockInv'
  BY <1>19 DEF SeeChild, Scans
<1>20. ASSUME NEW c \in CPUs, NEW p \in Procs,
             Reap(c, p)
      PROVE  WaitLockInv'
  BY <1>20 DEF Reap, Scans, FreeProc, ClearSlot, WaitReturns
<1>21. ASSUME NEW c \in CPUs, NEW p \in Procs,
             ReapFault(c, p)
      PROVE  WaitLockInv'
  BY <1>21 DEF ReapFault, Scans, WaitReturns
<1>22. ASSUME NEW c \in CPUs, NEW p \in Procs,
             WaitFails(c, p)
      PROVE  WaitLockInv'
  BY <1>22 DEF WaitFails, Scanned, WaitReturns
<1>23. ASSUME NEW c \in CPUs, NEW p \in Procs,
             WaitMore(c, p)
      PROVE  WaitLockInv'
  BY <1>23 DEF WaitMore, Scanned
<1>24. ASSUME NEW c \in CPUs, NEW p \in Procs,
             WaitSleepLock(c, p)
      PROVE  WaitLockInv'
  BY <1>24 DEF WaitSleepLock, SleepLock
<1>25. ASSUME NEW c \in CPUs, NEW p \in Procs,
             WaitSleepRelease(c, p)
      PROVE  WaitLockInv'
  BY <1>25 DEF WaitSleepRelease
<1>26. ASSUME NEW c \in CPUs, NEW p \in Procs,
             WaitSleepOn(c, p)
      PROVE  WaitLockInv'
  BY <1>26 DEF WaitSleepOn, SleepOn
<1>27. ASSUME NEW c \in CPUs, NEW p \in Procs,
             WaitSleepEnd(c, p)
      PROVE  WaitLockInv'
  BY <1>27 DEF WaitSleepEnd, SleepEnd
<1>28. ASSUME NEW c \in CPUs, NEW p \in Procs, NEW q \in Procs, NEW b \in BOOLEAN,
             Kill(c, p, q, b)
      PROVE  WaitLockInv'
  BY <1>28, KillEffect DEF Kill, Calls
<1>29. CASE UNCHANGED vars
  BY <1>29 DEF vars, schedVars, procVars, locals
<1> HIDE DEF TypeOK, Goto, Set, On, Runs, schedVars, procVars, locals, IInv,
             PlaceInv, CpuInv, ChildInv, WaitLockInv, Holding, Preemptible,
             StatesAt
<1>30. QED
  BY <1>1, <1>2, <1>3, <1>4, <1>5, <1>6, <1>7, <1>8, <1>9, <1>10, <1>11,
     <1>12, <1>13, <1>14, <1>15, <1>16, <1>17, <1>18, <1>19, <1>20, <1>21,
     <1>22, <1>23, <1>24, <1>25, <1>26, <1>27, <1>28, <1>29
  DEF Next, SchedStep, ForkStep, ExitStep, WaitStep

(* A slot that fork() has taken is USED until that fork() makes it         *)
(* RUNNABLE or gives it back, and is in nobody else's hands.               *)
LEMMA NextChildInv ==
  IInv /\ [Next]_vars => ChildInv'
<1> SUFFICES ASSUME IInv, [Next]_vars PROVE ChildInv'
  OBVIOUS
<1> USE DEF TypeOK, Goto, Set, On, Runs, schedVars, procVars, locals, IInv,
            PlaceInv, CpuInv, ChildInv, StatesAt, Preemptible
<1>1. ASSUME NEW c \in CPUs, NEW p \in Procs,
             Schedule(c, p)
      PROVE  ChildInv'
  BY <1>1 DEF Schedule, Dispatch
<1>2. ASSUME NEW c \in CPUs, NEW p \in Procs,
             Deschedule(c, p)
      PROVE  ChildInv'
  BY <1>2 DEF Deschedule, Switch
<1>3. ASSUME NEW c \in CPUs, NEW p \in Procs,
             Preempt(c, p)
      PROVE  ChildInv'
  BY <1>3 DEF Preempt, YieldCpu
<1>4. ASSUME NEW c \in CPUs, NEW p \in Procs,
             Resumed(c, p)
      PROVE  ChildInv'
  BY <1>4 DEF Resumed, Resume
<1>5. ASSUME NEW c \in CPUs, NEW p \in Procs, NEW q \in Procs,
             AllocProc(c, p, q)
      PROVE  ChildInv'
  <2>1. /\ state[q] = "UNUSED" /\ state' = [state EXCEPT ![q] = "USED"]
        /\ np' = [np EXCEPT ![p] = q] /\ pc' = [pc EXCEPT ![p] = "copy", ![q] = "user"]
        /\ parent' = parent
    BY <1>5 DEF AllocProc
  <2>2. \A x \in Procs : np[x] # q
    BY <2>1, InitIsAProc
  <2>3. p # q /\ q # 0
    BY <2>1, <1>5 DEF AllocProc, Calls, Procs
  <2>4. \A x \in Procs : np'[x] # 0 => state'[np'[x]] = "USED"
    BY <2>1, <2>2
  <2>5. \A x \in Procs : pc'[x] \in {"copy", "adopt", "start"} => np'[x] # 0
    BY <2>1, <2>3
  <2>6. \A x, y \in Procs : np'[x] = np'[y] /\ np'[x] # 0 => x = y
    BY <2>1, <2>2
  <2>7. \A x \in Procs : pc'[x] = "start" => parent'[np'[x]] = x
    BY <2>1, <2>3
  <2>8. QED
    BY <2>4, <2>5, <2>6, <2>7
<1>6. ASSUME NEW c \in CPUs, NEW p \in Procs,
             CopyFails(c, p)
      PROVE  ChildInv'
  BY <1>6 DEF CopyFails, FreeProc, ClearSlot
<1>7. ASSUME NEW c \in CPUs, NEW p \in Procs,
             Copied(c, p)
      PROVE  ChildInv'
  BY <1>7 DEF Copied
<1>8. ASSUME NEW c \in CPUs, NEW p \in Procs,
             Adopt(c, p)
      PROVE  ChildInv'
  BY <1>8 DEF Adopt
<1>9. ASSUME NEW c \in CPUs, NEW p \in Procs,
             Start(c, p)
      PROVE  ChildInv'
  BY <1>9 DEF Start
<1>10. ASSUME NEW c \in CPUs, NEW p \in Procs,
             CallExit(c, p)
      PROVE  ChildInv'
  BY <1>10 DEF CallExit
<1>11. ASSUME NEW c \in CPUs, NEW p \in Procs,
             ExitLock(c, p)
      PROVE  ChildInv'
  BY <1>11 DEF ExitLock
<1>12. ASSUME NEW c \in CPUs, NEW p \in Procs, NEW q \in Procs,
             Reparent(c, p, q)
      PROVE  ChildInv'
  BY <1>12, WakeupEffect DEF Reparent
<1>13. ASSUME NEW c \in CPUs, NEW p \in Procs,
             WakeParent(c, p)
      PROVE  ChildInv'
  BY <1>13, WakeupEffect DEF WakeParent
<1>14. ASSUME NEW c \in CPUs, NEW p \in Procs,
             BecomeZombie(c, p)
      PROVE  ChildInv'
  BY <1>14 DEF BecomeZombie
<1>15. ASSUME NEW c \in CPUs, NEW p \in Procs,
             ExitUnlock(c, p)
      PROVE  ChildInv'
  BY <1>15 DEF ExitUnlock
<1>16. ASSUME NEW c \in CPUs, NEW p \in Procs, NEW n \in Pids,
             CallWait(c, p, n)
      PROVE  ChildInv'
  BY <1>16 DEF CallWait, Calls
<1>17. ASSUME NEW c \in CPUs, NEW p \in Procs,
             WaitLock(c, p)
      PROVE  ChildInv'
  BY <1>17 DEF WaitLock
<1>18. ASSUME NEW c \in CPUs, NEW p \in Procs,
             SkipSlot(c, p)
      PROVE  ChildInv'
  BY <1>18 DEF SkipSlot, Scans
<1>19. ASSUME NEW c \in CPUs, NEW p \in Procs,
             SeeChild(c, p)
      PROVE  ChildInv'
  BY <1>19 DEF SeeChild, Scans
<1>20. ASSUME NEW c \in CPUs, NEW p \in Procs,
             Reap(c, p)
      PROVE  ChildInv'
  BY <1>20 DEF Reap, Scans, FreeProc, ClearSlot, WaitReturns
<1>21. ASSUME NEW c \in CPUs, NEW p \in Procs,
             ReapFault(c, p)
      PROVE  ChildInv'
  BY <1>21 DEF ReapFault, Scans, WaitReturns
<1>22. ASSUME NEW c \in CPUs, NEW p \in Procs,
             WaitFails(c, p)
      PROVE  ChildInv'
  BY <1>22 DEF WaitFails, Scanned, WaitReturns
<1>23. ASSUME NEW c \in CPUs, NEW p \in Procs,
             WaitMore(c, p)
      PROVE  ChildInv'
  BY <1>23 DEF WaitMore, Scanned
<1>24. ASSUME NEW c \in CPUs, NEW p \in Procs,
             WaitSleepLock(c, p)
      PROVE  ChildInv'
  BY <1>24 DEF WaitSleepLock, SleepLock
<1>25. ASSUME NEW c \in CPUs, NEW p \in Procs,
             WaitSleepRelease(c, p)
      PROVE  ChildInv'
  BY <1>25 DEF WaitSleepRelease
<1>26. ASSUME NEW c \in CPUs, NEW p \in Procs,
             WaitSleepOn(c, p)
      PROVE  ChildInv'
  BY <1>26 DEF WaitSleepOn, SleepOn
<1>27. ASSUME NEW c \in CPUs, NEW p \in Procs,
             WaitSleepEnd(c, p)
      PROVE  ChildInv'
  BY <1>27 DEF WaitSleepEnd, SleepEnd
<1>28. ASSUME NEW c \in CPUs, NEW p \in Procs, NEW q \in Procs, NEW b \in BOOLEAN,
             Kill(c, p, q, b)
      PROVE  ChildInv'
  BY <1>28, KillEffect DEF Kill, Calls
<1>29. CASE UNCHANGED vars
  BY <1>29 DEF vars, schedVars, procVars, locals
<1> HIDE DEF TypeOK, Goto, Set, On, Runs, schedVars, procVars, locals, IInv,
             PlaceInv, CpuInv, ChildInv, StatesAt, Preemptible
<1>30. QED
  BY <1>1, <1>2, <1>3, <1>4, <1>5, <1>6, <1>7, <1>8, <1>9, <1>10, <1>11,
     <1>12, <1>13, <1>14, <1>15, <1>16, <1>17, <1>18, <1>19, <1>20, <1>21,
     <1>22, <1>23, <1>24, <1>25, <1>26, <1>27, <1>28, <1>29
  DEF Next, SchedStep, ForkStep, ExitStep, WaitStep

(* Nobody frees or replaces initproc, which does not exit. *)
LEMMA NextInitLives ==
  IInv /\ [Next]_vars => InitLives'
<1> SUFFICES ASSUME IInv, [Next]_vars PROVE InitLives'
  OBVIOUS
<1> USE DEF TypeOK, Goto, Set, On, Runs, schedVars, procVars, locals, IInv,
            PlaceInv, ChildInv, InitLives, ParentInv, ParentIsAlive, StatesAt,
            Preemptible
<1>1. ASSUME NEW c \in CPUs, NEW p \in Procs,
             Schedule(c, p)
      PROVE  InitLives'
  BY <1>1, InitIsAProc DEF Schedule, Dispatch
<1>2. ASSUME NEW c \in CPUs, NEW p \in Procs,
             Deschedule(c, p)
      PROVE  InitLives'
  BY <1>2, InitIsAProc DEF Deschedule, Switch
<1>3. ASSUME NEW c \in CPUs, NEW p \in Procs,
             Preempt(c, p)
      PROVE  InitLives'
  BY <1>3, InitIsAProc DEF Preempt, YieldCpu
<1>4. ASSUME NEW c \in CPUs, NEW p \in Procs,
             Resumed(c, p)
      PROVE  InitLives'
  BY <1>4, InitIsAProc DEF Resumed, Resume
<1>5. ASSUME NEW c \in CPUs, NEW p \in Procs, NEW q \in Procs,
             AllocProc(c, p, q)
      PROVE  InitLives'
  BY <1>5, InitIsAProc DEF AllocProc, AllocPid, Calls
<1>6. ASSUME NEW c \in CPUs, NEW p \in Procs,
             CopyFails(c, p)
      PROVE  InitLives'
  BY <1>6, InitIsAProc DEF CopyFails, FreeProc, ClearSlot
<1>7. ASSUME NEW c \in CPUs, NEW p \in Procs,
             Copied(c, p)
      PROVE  InitLives'
  BY <1>7, InitIsAProc DEF Copied
<1>8. ASSUME NEW c \in CPUs, NEW p \in Procs,
             Adopt(c, p)
      PROVE  InitLives'
  BY <1>8, InitIsAProc DEF Adopt
<1>9. ASSUME NEW c \in CPUs, NEW p \in Procs,
             Start(c, p)
      PROVE  InitLives'
  BY <1>9, InitIsAProc DEF Start
<1>10. ASSUME NEW c \in CPUs, NEW p \in Procs,
             CallExit(c, p)
      PROVE  InitLives'
  BY <1>10, InitIsAProc DEF CallExit
<1>11. ASSUME NEW c \in CPUs, NEW p \in Procs,
             ExitLock(c, p)
      PROVE  InitLives'
  BY <1>11, InitIsAProc DEF ExitLock
<1>12. ASSUME NEW c \in CPUs, NEW p \in Procs, NEW q \in Procs,
             Reparent(c, p, q)
      PROVE  InitLives'
  BY <1>12, WakeupEffect, InitIsAProc DEF Reparent
<1>13. ASSUME NEW c \in CPUs, NEW p \in Procs,
             WakeParent(c, p)
      PROVE  InitLives'
  BY <1>13, WakeupEffect, InitIsAProc DEF WakeParent
<1>14. ASSUME NEW c \in CPUs, NEW p \in Procs,
             BecomeZombie(c, p)
      PROVE  InitLives'
  BY <1>14, InitIsAProc DEF BecomeZombie
<1>15. ASSUME NEW c \in CPUs, NEW p \in Procs,
             ExitUnlock(c, p)
      PROVE  InitLives'
  BY <1>15, InitIsAProc DEF ExitUnlock
<1>16. ASSUME NEW c \in CPUs, NEW p \in Procs, NEW n \in Pids,
             CallWait(c, p, n)
      PROVE  InitLives'
  BY <1>16, InitIsAProc DEF CallWait, Calls
<1>17. ASSUME NEW c \in CPUs, NEW p \in Procs,
             WaitLock(c, p)
      PROVE  InitLives'
  BY <1>17, InitIsAProc DEF WaitLock
<1>18. ASSUME NEW c \in CPUs, NEW p \in Procs,
             SkipSlot(c, p)
      PROVE  InitLives'
  BY <1>18, InitIsAProc DEF SkipSlot, Scans
<1>19. ASSUME NEW c \in CPUs, NEW p \in Procs,
             SeeChild(c, p)
      PROVE  InitLives'
  BY <1>19, InitIsAProc DEF SeeChild, Scans
<1>20. ASSUME NEW c \in CPUs, NEW p \in Procs,
             Reap(c, p)
      PROVE  InitLives'
  BY <1>20, InitIsAProc DEF Reap, Scans, FreeProc, ClearSlot, WaitReturns
<1>21. ASSUME NEW c \in CPUs, NEW p \in Procs,
             ReapFault(c, p)
      PROVE  InitLives'
  BY <1>21, InitIsAProc DEF ReapFault, Scans, WaitReturns
<1>22. ASSUME NEW c \in CPUs, NEW p \in Procs,
             WaitFails(c, p)
      PROVE  InitLives'
  BY <1>22, InitIsAProc DEF WaitFails, Scanned, WaitReturns
<1>23. ASSUME NEW c \in CPUs, NEW p \in Procs,
             WaitMore(c, p)
      PROVE  InitLives'
  BY <1>23, InitIsAProc DEF WaitMore, Scanned
<1>24. ASSUME NEW c \in CPUs, NEW p \in Procs,
             WaitSleepLock(c, p)
      PROVE  InitLives'
  BY <1>24, InitIsAProc DEF WaitSleepLock, SleepLock
<1>25. ASSUME NEW c \in CPUs, NEW p \in Procs,
             WaitSleepRelease(c, p)
      PROVE  InitLives'
  BY <1>25, InitIsAProc DEF WaitSleepRelease
<1>26. ASSUME NEW c \in CPUs, NEW p \in Procs,
             WaitSleepOn(c, p)
      PROVE  InitLives'
  BY <1>26, InitIsAProc DEF WaitSleepOn, SleepOn
<1>27. ASSUME NEW c \in CPUs, NEW p \in Procs,
             WaitSleepEnd(c, p)
      PROVE  InitLives'
  BY <1>27, InitIsAProc DEF WaitSleepEnd, SleepEnd
<1>28. ASSUME NEW c \in CPUs, NEW p \in Procs, NEW q \in Procs, NEW b \in BOOLEAN,
             Kill(c, p, q, b)
      PROVE  InitLives'
  BY <1>28, KillEffect, InitIsAProc DEF Kill, Calls
<1>29. CASE UNCHANGED vars
  BY <1>29 DEF vars, schedVars, procVars, locals
<1> HIDE DEF TypeOK, Goto, Set, On, Runs, schedVars, procVars, locals, IInv,
             PlaceInv, ChildInv, InitLives, ParentInv, ParentIsAlive,
             StatesAt, Preemptible
<1>30. QED
  BY <1>1, <1>2, <1>3, <1>4, <1>5, <1>6, <1>7, <1>8, <1>9, <1>10, <1>11,
     <1>12, <1>13, <1>14, <1>15, <1>16, <1>17, <1>18, <1>19, <1>20, <1>21,
     <1>22, <1>23, <1>24, <1>25, <1>26, <1>27, <1>28, <1>29
  DEF Next, SchedStep, ForkStep, ExitStep, WaitStep

(* Between reparent() and ZOMBIE a process gets no children: only itself   *)
(* could adopt one, and others hand theirs to initproc.                    *)
LEMMA NextHandedOver ==
  IInv /\ [Next]_vars => HandedOver'
<1> SUFFICES ASSUME IInv, [Next]_vars PROVE HandedOver'
  OBVIOUS
<1> USE DEF TypeOK, Goto, Set, On, Runs, schedVars, procVars, locals, IInv,
            PlaceInv, CpuInv, ChildInv, ParentInv, InitLives, HandedOver,
            ParentIsAlive, StatesAt, Preemptible
<1>1. ASSUME NEW c \in CPUs, NEW p \in Procs,
             Schedule(c, p)
      PROVE  HandedOver'
  BY <1>1 DEF Schedule, Dispatch
<1>2. ASSUME NEW c \in CPUs, NEW p \in Procs,
             Deschedule(c, p)
      PROVE  HandedOver'
  BY <1>2 DEF Deschedule, Switch
<1>3. ASSUME NEW c \in CPUs, NEW p \in Procs,
             Preempt(c, p)
      PROVE  HandedOver'
  BY <1>3 DEF Preempt, YieldCpu
<1>4. ASSUME NEW c \in CPUs, NEW p \in Procs,
             Resumed(c, p)
      PROVE  HandedOver'
  BY <1>4 DEF Resumed, Resume
<1>5. ASSUME NEW c \in CPUs, NEW p \in Procs, NEW q \in Procs,
             AllocProc(c, p, q)
      PROVE  HandedOver'
  BY <1>5 DEF AllocProc, AllocPid, Calls
<1>6. ASSUME NEW c \in CPUs, NEW p \in Procs,
             CopyFails(c, p)
      PROVE  HandedOver'
  BY <1>6, InitIsAProc DEF CopyFails, FreeProc, ClearSlot
<1>7. ASSUME NEW c \in CPUs, NEW p \in Procs,
             Copied(c, p)
      PROVE  HandedOver'
  BY <1>7 DEF Copied
<1>8. ASSUME NEW c \in CPUs, NEW p \in Procs,
             Adopt(c, p)
      PROVE  HandedOver'
  BY <1>8 DEF Adopt
<1>9. ASSUME NEW c \in CPUs, NEW p \in Procs,
             Start(c, p)
      PROVE  HandedOver'
  BY <1>9 DEF Start
<1>10. ASSUME NEW c \in CPUs, NEW p \in Procs,
             CallExit(c, p)
      PROVE  HandedOver'
  BY <1>10 DEF CallExit
<1>11. ASSUME NEW c \in CPUs, NEW p \in Procs,
             ExitLock(c, p)
      PROVE  HandedOver'
  BY <1>11 DEF ExitLock
<1>12. ASSUME NEW c \in CPUs, NEW p \in Procs, NEW q \in Procs,
             Reparent(c, p, q)
      PROVE  HandedOver'
  BY <1>12, WakeupEffect, InitIsAProc DEF Reparent
<1>13. ASSUME NEW c \in CPUs, NEW p \in Procs,
             WakeParent(c, p)
      PROVE  HandedOver'
  BY <1>13, WakeupEffect DEF WakeParent
<1>14. ASSUME NEW c \in CPUs, NEW p \in Procs,
             BecomeZombie(c, p)
      PROVE  HandedOver'
  BY <1>14 DEF BecomeZombie
<1>15. ASSUME NEW c \in CPUs, NEW p \in Procs,
             ExitUnlock(c, p)
      PROVE  HandedOver'
  BY <1>15 DEF ExitUnlock
<1>16. ASSUME NEW c \in CPUs, NEW p \in Procs, NEW n \in Pids,
             CallWait(c, p, n)
      PROVE  HandedOver'
  BY <1>16 DEF CallWait, Calls
<1>17. ASSUME NEW c \in CPUs, NEW p \in Procs,
             WaitLock(c, p)
      PROVE  HandedOver'
  BY <1>17 DEF WaitLock
<1>18. ASSUME NEW c \in CPUs, NEW p \in Procs,
             SkipSlot(c, p)
      PROVE  HandedOver'
  BY <1>18 DEF SkipSlot, Scans
<1>19. ASSUME NEW c \in CPUs, NEW p \in Procs,
             SeeChild(c, p)
      PROVE  HandedOver'
  BY <1>19 DEF SeeChild, Scans
<1>20. ASSUME NEW c \in CPUs, NEW p \in Procs,
             Reap(c, p)
      PROVE  HandedOver'
  BY <1>20, InitIsAProc DEF Reap, Scans, FreeProc, ClearSlot, WaitReturns
<1>21. ASSUME NEW c \in CPUs, NEW p \in Procs,
             ReapFault(c, p)
      PROVE  HandedOver'
  BY <1>21 DEF ReapFault, Scans, WaitReturns
<1>22. ASSUME NEW c \in CPUs, NEW p \in Procs,
             WaitFails(c, p)
      PROVE  HandedOver'
  BY <1>22 DEF WaitFails, Scanned, WaitReturns
<1>23. ASSUME NEW c \in CPUs, NEW p \in Procs,
             WaitMore(c, p)
      PROVE  HandedOver'
  BY <1>23 DEF WaitMore, Scanned
<1>24. ASSUME NEW c \in CPUs, NEW p \in Procs,
             WaitSleepLock(c, p)
      PROVE  HandedOver'
  BY <1>24 DEF WaitSleepLock, SleepLock
<1>25. ASSUME NEW c \in CPUs, NEW p \in Procs,
             WaitSleepRelease(c, p)
      PROVE  HandedOver'
  BY <1>25 DEF WaitSleepRelease
<1>26. ASSUME NEW c \in CPUs, NEW p \in Procs,
             WaitSleepOn(c, p)
      PROVE  HandedOver'
  BY <1>26 DEF WaitSleepOn, SleepOn
<1>27. ASSUME NEW c \in CPUs, NEW p \in Procs,
             WaitSleepEnd(c, p)
      PROVE  HandedOver'
  BY <1>27 DEF WaitSleepEnd, SleepEnd
<1>28. ASSUME NEW c \in CPUs, NEW p \in Procs, NEW q \in Procs, NEW b \in BOOLEAN,
             Kill(c, p, q, b)
      PROVE  HandedOver'
  BY <1>28, KillEffect DEF Kill, Calls
<1>29. CASE UNCHANGED vars
  BY <1>29 DEF vars, schedVars, procVars, locals
<1> HIDE DEF TypeOK, Goto, Set, On, Runs, schedVars, procVars, locals, IInv,
             PlaceInv, CpuInv, ChildInv, ParentInv, InitLives, HandedOver,
             ParentIsAlive, StatesAt, Preemptible
<1>30. QED
  BY <1>1, <1>2, <1>3, <1>4, <1>5, <1>6, <1>7, <1>8, <1>9, <1>10, <1>11,
     <1>12, <1>13, <1>14, <1>15, <1>16, <1>17, <1>18, <1>19, <1>20, <1>21,
     <1>22, <1>23, <1>24, <1>25, <1>26, <1>27, <1>28, <1>29
  DEF Next, SchedStep, ForkStep, ExitStep, WaitStep

(* A parent pointer is set to a process in fork() or to initproc, and the  *)
(* process it leads to hands over its children before it becomes a zombie. *)
LEMMA NextParentIsAlive ==
  IInv /\ [Next]_vars => ParentIsAlive'
<1> SUFFICES ASSUME IInv, [Next]_vars PROVE ParentIsAlive'
  OBVIOUS
<1> USE DEF TypeOK, Goto, Set, On, Runs, schedVars, procVars, locals, IInv,
            PlaceInv, CpuInv, ChildInv, ParentInv, InitLives, HandedOver,
            ParentIsAlive, StatesAt, Preemptible
<1>1. ASSUME NEW c \in CPUs, NEW p \in Procs,
             Schedule(c, p)
      PROVE  ParentIsAlive'
  BY <1>1 DEF Schedule, Dispatch
<1>2. ASSUME NEW c \in CPUs, NEW p \in Procs,
             Deschedule(c, p)
      PROVE  ParentIsAlive'
  BY <1>2 DEF Deschedule, Switch
<1>3. ASSUME NEW c \in CPUs, NEW p \in Procs,
             Preempt(c, p)
      PROVE  ParentIsAlive'
  BY <1>3 DEF Preempt, YieldCpu
<1>4. ASSUME NEW c \in CPUs, NEW p \in Procs,
             Resumed(c, p)
      PROVE  ParentIsAlive'
  BY <1>4 DEF Resumed, Resume
<1>5. ASSUME NEW c \in CPUs, NEW p \in Procs, NEW q \in Procs,
             AllocProc(c, p, q)
      PROVE  ParentIsAlive'
  BY <1>5 DEF AllocProc, AllocPid, Calls
<1>6. ASSUME NEW c \in CPUs, NEW p \in Procs,
             CopyFails(c, p)
      PROVE  ParentIsAlive'
  BY <1>6 DEF CopyFails, FreeProc, ClearSlot
<1>7. ASSUME NEW c \in CPUs, NEW p \in Procs,
             Copied(c, p)
      PROVE  ParentIsAlive'
  BY <1>7 DEF Copied
<1>8. ASSUME NEW c \in CPUs, NEW p \in Procs,
             Adopt(c, p)
      PROVE  ParentIsAlive'
  BY <1>8 DEF Adopt
<1>9. ASSUME NEW c \in CPUs, NEW p \in Procs,
             Start(c, p)
      PROVE  ParentIsAlive'
  BY <1>9, InitIsAProc DEF Start
<1>10. ASSUME NEW c \in CPUs, NEW p \in Procs,
             CallExit(c, p)
      PROVE  ParentIsAlive'
  BY <1>10 DEF CallExit
<1>11. ASSUME NEW c \in CPUs, NEW p \in Procs,
             ExitLock(c, p)
      PROVE  ParentIsAlive'
  BY <1>11 DEF ExitLock
<1>12. ASSUME NEW c \in CPUs, NEW p \in Procs, NEW q \in Procs,
             Reparent(c, p, q)
      PROVE  ParentIsAlive'
  BY <1>12, WakeupEffect, InitIsAProc DEF Reparent
<1>13. ASSUME NEW c \in CPUs, NEW p \in Procs,
             WakeParent(c, p)
      PROVE  ParentIsAlive'
  BY <1>13, WakeupEffect DEF WakeParent
<1>14. ASSUME NEW c \in CPUs, NEW p \in Procs,
             BecomeZombie(c, p)
      PROVE  ParentIsAlive'
  BY <1>14 DEF BecomeZombie
<1>15. ASSUME NEW c \in CPUs, NEW p \in Procs,
             ExitUnlock(c, p)
      PROVE  ParentIsAlive'
  BY <1>15 DEF ExitUnlock
<1>16. ASSUME NEW c \in CPUs, NEW p \in Procs, NEW n \in Pids,
             CallWait(c, p, n)
      PROVE  ParentIsAlive'
  BY <1>16 DEF CallWait, Calls
<1>17. ASSUME NEW c \in CPUs, NEW p \in Procs,
             WaitLock(c, p)
      PROVE  ParentIsAlive'
  BY <1>17 DEF WaitLock
<1>18. ASSUME NEW c \in CPUs, NEW p \in Procs,
             SkipSlot(c, p)
      PROVE  ParentIsAlive'
  BY <1>18 DEF SkipSlot, Scans
<1>19. ASSUME NEW c \in CPUs, NEW p \in Procs,
             SeeChild(c, p)
      PROVE  ParentIsAlive'
  BY <1>19 DEF SeeChild, Scans
<1>20. ASSUME NEW c \in CPUs, NEW p \in Procs,
             Reap(c, p)
      PROVE  ParentIsAlive'
  BY <1>20 DEF Reap, Scans, FreeProc, ClearSlot, WaitReturns
<1>21. ASSUME NEW c \in CPUs, NEW p \in Procs,
             ReapFault(c, p)
      PROVE  ParentIsAlive'
  BY <1>21 DEF ReapFault, Scans, WaitReturns
<1>22. ASSUME NEW c \in CPUs, NEW p \in Procs,
             WaitFails(c, p)
      PROVE  ParentIsAlive'
  BY <1>22 DEF WaitFails, Scanned, WaitReturns
<1>23. ASSUME NEW c \in CPUs, NEW p \in Procs,
             WaitMore(c, p)
      PROVE  ParentIsAlive'
  BY <1>23 DEF WaitMore, Scanned
<1>24. ASSUME NEW c \in CPUs, NEW p \in Procs,
             WaitSleepLock(c, p)
      PROVE  ParentIsAlive'
  BY <1>24 DEF WaitSleepLock, SleepLock
<1>25. ASSUME NEW c \in CPUs, NEW p \in Procs,
             WaitSleepRelease(c, p)
      PROVE  ParentIsAlive'
  BY <1>25 DEF WaitSleepRelease
<1>26. ASSUME NEW c \in CPUs, NEW p \in Procs,
             WaitSleepOn(c, p)
      PROVE  ParentIsAlive'
  BY <1>26 DEF WaitSleepOn, SleepOn
<1>27. ASSUME NEW c \in CPUs, NEW p \in Procs,
             WaitSleepEnd(c, p)
      PROVE  ParentIsAlive'
  BY <1>27 DEF WaitSleepEnd, SleepEnd
<1>28. ASSUME NEW c \in CPUs, NEW p \in Procs, NEW q \in Procs, NEW b \in BOOLEAN,
             Kill(c, p, q, b)
      PROVE  ParentIsAlive'
  BY <1>28, KillEffect DEF Kill, Calls
<1>29. CASE UNCHANGED vars
  BY <1>29 DEF vars, schedVars, procVars, locals
<1> HIDE DEF TypeOK, Goto, Set, On, Runs, schedVars, procVars, locals, IInv,
             PlaceInv, CpuInv, ChildInv, ParentInv, InitLives, HandedOver,
             ParentIsAlive, StatesAt, Preemptible
<1>30. QED
  BY <1>1, <1>2, <1>3, <1>4, <1>5, <1>6, <1>7, <1>8, <1>9, <1>10, <1>11,
     <1>12, <1>13, <1>14, <1>15, <1>16, <1>17, <1>18, <1>19, <1>20, <1>21,
     <1>22, <1>23, <1>24, <1>25, <1>26, <1>27, <1>28, <1>29
  DEF Next, SchedStep, ForkStep, ExitStep, WaitStep

(* A child becomes a zombie with wait_lock held, so not while its parent   *)
(* looks at its children; when the parent is on its way to sleep without   *)
(* wait_lock, the child's wakeup() waits for the parent's lock.            *)
LEMMA NextExitInv ==
  IInv /\ [Next]_vars => ExitInv'
<1> SUFFICES ASSUME IInv, [Next]_vars PROVE ExitInv'
  OBVIOUS
<1> USE DEF TypeOK, Goto, Set, On, Runs, schedVars, procVars, locals, IInv,
            PlaceInv, CpuInv, ChildInv, ExitInv, ParentInv, InitLives,
            WaitLockInv, ParentIsAlive, Holding, StatesAt, Preemptible,
            Awaited
<1>1. ASSUME NEW c \in CPUs, NEW p \in Procs,
             Schedule(c, p)
      PROVE  ExitInv'
  BY <1>1 DEF Schedule, Dispatch
<1>2. ASSUME NEW c \in CPUs, NEW p \in Procs,
             Deschedule(c, p)
      PROVE  ExitInv'
  BY <1>2 DEF Deschedule, Switch
<1>3. ASSUME NEW c \in CPUs, NEW p \in Procs,
             Preempt(c, p)
      PROVE  ExitInv'
  BY <1>3 DEF Preempt, YieldCpu
<1>4. ASSUME NEW c \in CPUs, NEW p \in Procs,
             Resumed(c, p)
      PROVE  ExitInv'
  BY <1>4 DEF Resumed, Resume
<1>5. ASSUME NEW c \in CPUs, NEW p \in Procs, NEW q \in Procs,
             AllocProc(c, p, q)
      PROVE  ExitInv'
  BY <1>5 DEF AllocProc, AllocPid, Calls
<1>6. ASSUME NEW c \in CPUs, NEW p \in Procs,
             CopyFails(c, p)
      PROVE  ExitInv'
  BY <1>6 DEF CopyFails, FreeProc, ClearSlot
<1>7. ASSUME NEW c \in CPUs, NEW p \in Procs,
             Copied(c, p)
      PROVE  ExitInv'
  BY <1>7 DEF Copied
<1>8. ASSUME NEW c \in CPUs, NEW p \in Procs,
             Adopt(c, p)
      PROVE  ExitInv'
  BY <1>8 DEF Adopt
<1>9. ASSUME NEW c \in CPUs, NEW p \in Procs,
             Start(c, p)
      PROVE  ExitInv'
  BY <1>9 DEF Start
<1>10. ASSUME NEW c \in CPUs, NEW p \in Procs,
             CallExit(c, p)
      PROVE  ExitInv'
  BY <1>10 DEF CallExit
<1>11. ASSUME NEW c \in CPUs, NEW p \in Procs,
             ExitLock(c, p)
      PROVE  ExitInv'
  BY <1>11 DEF ExitLock
<1>12. ASSUME NEW c \in CPUs, NEW p \in Procs, NEW q \in Procs,
             Reparent(c, p, q)
      PROVE  ExitInv'
  BY <1>12, WakeupEffect, InitIsAProc DEF Reparent
<1>13. ASSUME NEW c \in CPUs, NEW p \in Procs,
             WakeParent(c, p)
      PROVE  ExitInv'
  BY <1>13, WakeupEffect DEF WakeParent
<1>14. ASSUME NEW c \in CPUs, NEW p \in Procs,
             BecomeZombie(c, p)
      PROVE  ExitInv'
  BY <1>14 DEF BecomeZombie
<1>15. ASSUME NEW c \in CPUs, NEW p \in Procs,
             ExitUnlock(c, p)
      PROVE  ExitInv'
  BY <1>15 DEF ExitUnlock
<1>16. ASSUME NEW c \in CPUs, NEW p \in Procs, NEW n \in Pids,
             CallWait(c, p, n)
      PROVE  ExitInv'
  BY <1>16 DEF CallWait, Calls
<1>17. ASSUME NEW c \in CPUs, NEW p \in Procs,
             WaitLock(c, p)
      PROVE  ExitInv'
  BY <1>17 DEF WaitLock, Procs
<1>18. ASSUME NEW c \in CPUs, NEW p \in Procs,
             SkipSlot(c, p)
      PROVE  ExitInv'
  BY <1>18 DEF SkipSlot, Scans, Procs
<1>19. ASSUME NEW c \in CPUs, NEW p \in Procs,
             SeeChild(c, p)
      PROVE  ExitInv'
  BY <1>19 DEF SeeChild, Scans, Procs
<1>20. ASSUME NEW c \in CPUs, NEW p \in Procs,
             Reap(c, p)
      PROVE  ExitInv'
  BY <1>20 DEF Reap, Scans, FreeProc, ClearSlot, WaitReturns
<1>21. ASSUME NEW c \in CPUs, NEW p \in Procs,
             ReapFault(c, p)
      PROVE  ExitInv'
  BY <1>21 DEF ReapFault, Scans, WaitReturns
<1>22. ASSUME NEW c \in CPUs, NEW p \in Procs,
             WaitFails(c, p)
      PROVE  ExitInv'
  BY <1>22 DEF WaitFails, Scanned, WaitReturns
<1>23. ASSUME NEW c \in CPUs, NEW p \in Procs,
             WaitMore(c, p)
      PROVE  ExitInv'
  BY <1>23 DEF WaitMore, Scanned, Procs
<1>24. ASSUME NEW c \in CPUs, NEW p \in Procs,
             WaitSleepLock(c, p)
      PROVE  ExitInv'
  BY <1>24 DEF WaitSleepLock, SleepLock
<1>25. ASSUME NEW c \in CPUs, NEW p \in Procs,
             WaitSleepRelease(c, p)
      PROVE  ExitInv'
  BY <1>25 DEF WaitSleepRelease
<1>26. ASSUME NEW c \in CPUs, NEW p \in Procs,
             WaitSleepOn(c, p)
      PROVE  ExitInv'
  BY <1>26 DEF WaitSleepOn, SleepOn
<1>27. ASSUME NEW c \in CPUs, NEW p \in Procs,
             WaitSleepEnd(c, p)
      PROVE  ExitInv'
  BY <1>27 DEF WaitSleepEnd, SleepEnd
<1>28. ASSUME NEW c \in CPUs, NEW p \in Procs, NEW q \in Procs, NEW b \in BOOLEAN,
             Kill(c, p, q, b)
      PROVE  ExitInv'
  BY <1>28, KillEffect DEF Kill, Calls
<1>29. CASE UNCHANGED vars
  BY <1>29 DEF vars, schedVars, procVars, locals
<1> HIDE DEF TypeOK, Goto, Set, On, Runs, schedVars, procVars, locals, IInv,
             PlaceInv, CpuInv, ChildInv, ExitInv, ParentInv, InitLives,
             WaitLockInv, ParentIsAlive, Holding, StatesAt, Preemptible,
             Awaited
<1>30. QED
  BY <1>1, <1>2, <1>3, <1>4, <1>5, <1>6, <1>7, <1>8, <1>9, <1>10, <1>11,
     <1>12, <1>13, <1>14, <1>15, <1>16, <1>17, <1>18, <1>19, <1>20, <1>21,
     <1>22, <1>23, <1>24, <1>25, <1>26, <1>27, <1>28, <1>29
  DEF Next, SchedStep, ForkStep, ExitStep, WaitStep

(* A free slot has pid 0, which nobody names, and is not marked killed. *)
LEMMA NextKillInv ==
  TypeOK /\ (0 \notin KillPids) /\ KillInv /\ [Next]_vars => KillInv'
<1> SUFFICES ASSUME TypeOK /\ (0 \notin KillPids) /\ KillInv, [Next]_vars PROVE KillInv'
  OBVIOUS
<1> USE DEF TypeOK, Goto, Set, On, Runs, schedVars, procVars, locals, KillInv,
            OnlyTheNamedAreKilled, Pids
<1>1. ASSUME NEW c \in CPUs, NEW p \in Procs,
             Schedule(c, p)
      PROVE  KillInv'
  BY <1>1 DEF Schedule, Dispatch
<1>2. ASSUME NEW c \in CPUs, NEW p \in Procs,
             Deschedule(c, p)
      PROVE  KillInv'
  BY <1>2 DEF Deschedule, Switch
<1>3. ASSUME NEW c \in CPUs, NEW p \in Procs,
             Preempt(c, p)
      PROVE  KillInv'
  BY <1>3 DEF Preempt, YieldCpu
<1>4. ASSUME NEW c \in CPUs, NEW p \in Procs,
             Resumed(c, p)
      PROVE  KillInv'
  BY <1>4 DEF Resumed, Resume
<1>5. ASSUME NEW c \in CPUs, NEW p \in Procs, NEW q \in Procs,
             AllocProc(c, p, q)
      PROVE  KillInv'
  BY <1>5 DEF AllocProc, AllocPid, Calls
<1>6. ASSUME NEW c \in CPUs, NEW p \in Procs,
             CopyFails(c, p)
      PROVE  KillInv'
  BY <1>6 DEF CopyFails, FreeProc, ClearSlot
<1>7. ASSUME NEW c \in CPUs, NEW p \in Procs,
             Copied(c, p)
      PROVE  KillInv'
  BY <1>7 DEF Copied
<1>8. ASSUME NEW c \in CPUs, NEW p \in Procs,
             Adopt(c, p)
      PROVE  KillInv'
  BY <1>8 DEF Adopt
<1>9. ASSUME NEW c \in CPUs, NEW p \in Procs,
             Start(c, p)
      PROVE  KillInv'
  BY <1>9 DEF Start
<1>10. ASSUME NEW c \in CPUs, NEW p \in Procs,
             CallExit(c, p)
      PROVE  KillInv'
  BY <1>10 DEF CallExit
<1>11. ASSUME NEW c \in CPUs, NEW p \in Procs,
             ExitLock(c, p)
      PROVE  KillInv'
  BY <1>11 DEF ExitLock
<1>12. ASSUME NEW c \in CPUs, NEW p \in Procs, NEW q \in Procs,
             Reparent(c, p, q)
      PROVE  KillInv'
  BY <1>12, WakeupEffect DEF Reparent
<1>13. ASSUME NEW c \in CPUs, NEW p \in Procs,
             WakeParent(c, p)
      PROVE  KillInv'
  BY <1>13, WakeupEffect DEF WakeParent
<1>14. ASSUME NEW c \in CPUs, NEW p \in Procs,
             BecomeZombie(c, p)
      PROVE  KillInv'
  BY <1>14 DEF BecomeZombie
<1>15. ASSUME NEW c \in CPUs, NEW p \in Procs,
             ExitUnlock(c, p)
      PROVE  KillInv'
  BY <1>15 DEF ExitUnlock
<1>16. ASSUME NEW c \in CPUs, NEW p \in Procs, NEW n \in Pids,
             CallWait(c, p, n)
      PROVE  KillInv'
  BY <1>16 DEF CallWait, Calls
<1>17. ASSUME NEW c \in CPUs, NEW p \in Procs,
             WaitLock(c, p)
      PROVE  KillInv'
  BY <1>17 DEF WaitLock
<1>18. ASSUME NEW c \in CPUs, NEW p \in Procs,
             SkipSlot(c, p)
      PROVE  KillInv'
  BY <1>18 DEF SkipSlot, Scans
<1>19. ASSUME NEW c \in CPUs, NEW p \in Procs,
             SeeChild(c, p)
      PROVE  KillInv'
  BY <1>19 DEF SeeChild, Scans
<1>20. ASSUME NEW c \in CPUs, NEW p \in Procs,
             Reap(c, p)
      PROVE  KillInv'
  BY <1>20 DEF Reap, Scans, FreeProc, ClearSlot, WaitReturns
<1>21. ASSUME NEW c \in CPUs, NEW p \in Procs,
             ReapFault(c, p)
      PROVE  KillInv'
  BY <1>21 DEF ReapFault, Scans, WaitReturns
<1>22. ASSUME NEW c \in CPUs, NEW p \in Procs,
             WaitFails(c, p)
      PROVE  KillInv'
  BY <1>22 DEF WaitFails, Scanned, WaitReturns
<1>23. ASSUME NEW c \in CPUs, NEW p \in Procs,
             WaitMore(c, p)
      PROVE  KillInv'
  BY <1>23 DEF WaitMore, Scanned
<1>24. ASSUME NEW c \in CPUs, NEW p \in Procs,
             WaitSleepLock(c, p)
      PROVE  KillInv'
  BY <1>24 DEF WaitSleepLock, SleepLock
<1>25. ASSUME NEW c \in CPUs, NEW p \in Procs,
             WaitSleepRelease(c, p)
      PROVE  KillInv'
  BY <1>25 DEF WaitSleepRelease
<1>26. ASSUME NEW c \in CPUs, NEW p \in Procs,
             WaitSleepOn(c, p)
      PROVE  KillInv'
  BY <1>26 DEF WaitSleepOn, SleepOn
<1>27. ASSUME NEW c \in CPUs, NEW p \in Procs,
             WaitSleepEnd(c, p)
      PROVE  KillInv'
  BY <1>27 DEF WaitSleepEnd, SleepEnd
<1>28. ASSUME NEW c \in CPUs, NEW p \in Procs, NEW q \in Procs, NEW b \in BOOLEAN,
             Kill(c, p, q, b)
      PROVE  KillInv'
  BY <1>28, KillEffect DEF Kill, Calls
<1>29. CASE UNCHANGED vars
  BY <1>29 DEF vars, schedVars, procVars, locals
<1> HIDE DEF TypeOK, Goto, Set, On, Runs, schedVars, procVars, locals,
             KillInv, OnlyTheNamedAreKilled, Pids
<1>30. QED
  BY <1>1, <1>2, <1>3, <1>4, <1>5, <1>6, <1>7, <1>8, <1>9, <1>10, <1>11,
     <1>12, <1>13, <1>14, <1>15, <1>16, <1>17, <1>18, <1>19, <1>20, <1>21,
     <1>22, <1>23, <1>24, <1>25, <1>26, <1>27, <1>28, <1>29
  DEF Next, SchedStep, ForkStep, ExitStep, WaitStep

(* The system with initproc and the shell satisfies IInv. *)
LEMMA InitIInv == Init => IInv
<1> SUFFICES ASSUME Init PROVE IInv
  OBVIOUS
<1> USE DEF Init, initproc
<1>1. 1 \in Procs /\ 0 \notin Procs /\ 0 \in Pids /\ 3 \in 1 .. MaxPid + 1 /\ 1 \in 1 .. NPROC + 1
  BY DEF Procs, Pids
<1>2. \A p \in {1, 2} \cap Procs : p \in Pids
  BY DEF Pids
<1>3. TypeOK
  <2>1. /\ state \in [Procs -> ProcStates] /\ chan \in [Procs -> Procs \cup {NoChan}]
        /\ plock \in [Procs -> CPUs \cup {NoCpu}] /\ cpu \in [CPUs -> Procs \cup {NoProc}]
    BY DEF ProcStates
  <2>2. pid \in [Procs -> Pids] /\ parent \in [Procs -> Procs \cup {0}]
    BY <1>1, <1>2
  <2>3. /\ killed \in [Procs -> BOOLEAN] /\ wlock \in CPUs \cup {NoCpu} /\ pc \in [Procs -> PCs]
        /\ np \in [Procs -> Procs \cup {0}] /\ havekids \in [Procs -> BOOLEAN]
        /\ victims \subseteq Pids
    BY DEF PCs
  <2>4. /\ want \in [Procs -> Pids] /\ nextpid \in 1 .. MaxPid + 1
        /\ scan \in [Procs -> 1 .. NPROC + 1]
    BY <1>1
  <2>5. QED
    BY <2>1, <2>2, <2>3, <2>4 DEF TypeOK
<1>4. CpuInv
  BY DEF CpuInv
<1>5. PlaceInv
  BY DEF PlaceInv, StatesAt
<1>6. WaitLockInv
  BY DEF WaitLockInv, Holding
<1>7. ChildInv
  BY DEF ChildInv
<1>8. ParentInv
  BY <1>1 DEF ParentInv, ParentIsAlive, HandedOver, InitLives
<1>9. ExitInv
  BY DEF ExitInv
<1>10. QED
  BY <1>3, <1>4, <1>5, <1>6, <1>7, <1>8, <1>9 DEF IInv

(* IInv is inductive. *)
LEMMA NextIInv == IInv /\ [Next]_vars => IInv'
  BY NextTypeOK, NextCpuInv, NextPlaceInv, NextWaitLockInv, NextChildInv, NextInitLives,
     NextHandedOver, NextParentIsAlive, NextExitInv
  DEF IInv, ParentInv

-----------------------------------------------------------------------------
(* The locks of kernel/proc.c, the slots, the parents and what a waiting    *)
(* process knows of its children fit together in every reachable state.    *)
THEOREM Invariance == Spec => []IInv
  BY InitIInv, NextIInv, PTL DEF Spec

(* fork(), exit(), wait() and kill() keep the fields of proc[] in range. *)
THEOREM TypeCorrect == Spec => []TypeOK
<1>1. IInv => TypeOK
  BY DEF IInv
<1>2. QED
  BY <1>1, Invariance, PTL

(* kexit() and get_psinfo() can follow p->parent: it leads to a live       *)
(* process, and only initproc has none.                                    *)
THEOREM ParentsAreAlive == Spec => []ParentIsAlive
<1>1. IInv => ParentIsAlive
  BY DEF IInv, ParentInv
<1>2. QED
  BY <1>1, Invariance, PTL

(* kwait() frees no slot, and allocproc() takes none, on whose kernel      *)
(* stack a CPU still is.                                                    *)
THEOREM FreeSlotsAreOffCpu == Spec => []FreeSlotIsOffCpu
<1>1. IInv => FreeSlotIsOffCpu
  BY DEF IInv, CpuInv, FreeSlotIsOffCpu
<1>2. QED
  BY <1>1, Invariance, PTL

(* No process sleeps in kwait() or kjoin() beside a zombie it waits for. *)
THEOREM ExitsAreSeen == Spec => []NoExitIsMissed
<1>1. IInv => NoExitIsMissed
  BY DEF IInv, ExitInv, NoExitIsMissed
<1>2. QED
  BY <1>1, Invariance, PTL

(* If no program calls kill(0), whoever is marked killed was named by a     *)
(* kill() (see run ProcBornKilled for why kill(0) must be excluded).        *)
THEOREM KillsReachTheNamed ==
  ASSUME 0 \notin KillPids
  PROVE  Spec => []OnlyTheNamedAreKilled
<1>1. Init => KillInv
  <2>1. 1 \in Procs
    BY DEF Procs
  <2>2. QED
    BY <2>1 DEF Init, KillInv, OnlyTheNamedAreKilled
<1>2. TypeOK /\ TypeOK' /\ KillInv /\ [Next]_vars => KillInv'
  BY NextKillInv
<1>3. KillInv => OnlyTheNamedAreKilled
  BY DEF KillInv
<1>4. QED
  BY <1>1, <1>2, <1>3, TypeCorrect, PTL DEF Spec

-----------------------------------------------------------------------------
(* The spinlocks.  CPU c may hold the lock of slot q while it is on the    *)
(* stack of q, or while it copies memory for the child q of a fork().      *)

HasPlock(c, q) ==
  \/ cpu[c] = q
  \/ cpu[c] \in Procs /\ On(c, cpu[c]) /\ pc[cpu[c]] = "copy" /\ np[cpu[c]] = q

PlockInv == \A c \in CPUs, q \in Procs : plock[q] = c => HasPlock(c, q)

(* The places from which the code may go on to acquire(&wait_lock) *)
SpinsForWaitLock(c) == \E p \in Procs : Runs(c, p) /\ pc[p] \in {"adopt", "exit", "wait"}

(* ... and to acquire(&q->lock): scheduler(); allocproc(), kkill(); yield(), *)
(* kexit(), killed(), sleep(); kfork(); wakeup(); and the loop of kwait().   *)
SpinsForPlock(c, q) ==
  \/ cpu[c] = NoProc
  \/ \E p \in Procs :
       /\ Runs(c, p)
       /\ \/ pc[p] = "user"
          \/ pc[p] \in Preemptible \cup {"zombie", "scan", "sleep"} /\ q = p
          \/ pc[p] = "start" /\ q = np[p]
          \/ pc[p] = "reparent" /\ q # p
          \/ pc[p] = "scan" /\ q = scan[p]

(* The CPUs that hold what c may spin for *)
SpinsOn(c) ==
  {d \in CPUs :
     \/ wlock = d /\ SpinsForWaitLock(c)
     \/ \E q \in Procs : plock[q] = d /\ SpinsForPlock(c, q)}

(* No set of CPUs, nor one CPU by itself, spins for locks within the set.  *)
NoSpinCircle == \A S \in SUBSET CPUs : S # {} => \E c \in S : SpinsOn(c) \cap S = {}

(* A lock is acquired on the stack of its process, by the scheduler on its *)
(* way there, or by fork(), which lets it go before it does anything else. *)
LEMMA NextPlockInv ==
  IInv /\ PlockInv /\ [Next]_vars => PlockInv'
<1> SUFFICES ASSUME IInv, PlockInv, [Next]_vars PROVE PlockInv'
  OBVIOUS
<1> USE DEF TypeOK, Goto, Set, On, Runs, schedVars, procVars, locals, IInv,
            CpuInv, ChildInv, PlockInv, HasPlock, Preemptible
<1>1. ASSUME NEW c \in CPUs, NEW p \in Procs,
             Schedule(c, p)
      PROVE  PlockInv'
  BY <1>1 DEF Schedule, Dispatch
<1>2. ASSUME NEW c \in CPUs, NEW p \in Procs,
             Deschedule(c, p)
      PROVE  PlockInv'
  BY <1>2 DEF Deschedule, Switch
<1>3. ASSUME NEW c \in CPUs, NEW p \in Procs,
             Preempt(c, p)
      PROVE  PlockInv'
  BY <1>3 DEF Preempt, YieldCpu
<1>4. ASSUME NEW c \in CPUs, NEW p \in Procs,
             Resumed(c, p)
      PROVE  PlockInv'
  BY <1>4 DEF Resumed, Resume
<1>5. ASSUME NEW c \in CPUs, NEW p \in Procs, NEW q \in Procs,
             AllocProc(c, p, q)
      PROVE  PlockInv'
  BY <1>5 DEF AllocProc, AllocPid, Calls
<1>6. ASSUME NEW c \in CPUs, NEW p \in Procs,
             CopyFails(c, p)
      PROVE  PlockInv'
  BY <1>6 DEF CopyFails, FreeProc, ClearSlot
<1>7. ASSUME NEW c \in CPUs, NEW p \in Procs,
             Copied(c, p)
      PROVE  PlockInv'
  BY <1>7 DEF Copied
<1>8. ASSUME NEW c \in CPUs, NEW p \in Procs,
             Adopt(c, p)
      PROVE  PlockInv'
  BY <1>8 DEF Adopt
<1>9. ASSUME NEW c \in CPUs, NEW p \in Procs,
             Start(c, p)
      PROVE  PlockInv'
  BY <1>9 DEF Start
<1>10. ASSUME NEW c \in CPUs, NEW p \in Procs,
             CallExit(c, p)
      PROVE  PlockInv'
  BY <1>10 DEF CallExit
<1>11. ASSUME NEW c \in CPUs, NEW p \in Procs,
             ExitLock(c, p)
      PROVE  PlockInv'
  BY <1>11 DEF ExitLock
<1>12. ASSUME NEW c \in CPUs, NEW p \in Procs, NEW q \in Procs,
             Reparent(c, p, q)
      PROVE  PlockInv'
  BY <1>12, WakeupEffect DEF Reparent
<1>13. ASSUME NEW c \in CPUs, NEW p \in Procs,
             WakeParent(c, p)
      PROVE  PlockInv'
  BY <1>13, WakeupEffect DEF WakeParent
<1>14. ASSUME NEW c \in CPUs, NEW p \in Procs,
             BecomeZombie(c, p)
      PROVE  PlockInv'
  BY <1>14 DEF BecomeZombie
<1>15. ASSUME NEW c \in CPUs, NEW p \in Procs,
             ExitUnlock(c, p)
      PROVE  PlockInv'
  BY <1>15 DEF ExitUnlock
<1>16. ASSUME NEW c \in CPUs, NEW p \in Procs, NEW n \in Pids,
             CallWait(c, p, n)
      PROVE  PlockInv'
  BY <1>16 DEF CallWait, Calls
<1>17. ASSUME NEW c \in CPUs, NEW p \in Procs,
             WaitLock(c, p)
      PROVE  PlockInv'
  BY <1>17 DEF WaitLock
<1>18. ASSUME NEW c \in CPUs, NEW p \in Procs,
             SkipSlot(c, p)
      PROVE  PlockInv'
  BY <1>18 DEF SkipSlot, Scans
<1>19. ASSUME NEW c \in CPUs, NEW p \in Procs,
             SeeChild(c, p)
      PROVE  PlockInv'
  BY <1>19 DEF SeeChild, Scans
<1>20. ASSUME NEW c \in CPUs, NEW p \in Procs,
             Reap(c, p)
      PROVE  PlockInv'
  BY <1>20 DEF Reap, Scans, FreeProc, ClearSlot, WaitReturns
<1>21. ASSUME NEW c \in CPUs, NEW p \in Procs,
             ReapFault(c, p)
      PROVE  PlockInv'
  BY <1>21 DEF ReapFault, Scans, WaitReturns
<1>22. ASSUME NEW c \in CPUs, NEW p \in Procs,
             WaitFails(c, p)
      PROVE  PlockInv'
  BY <1>22 DEF WaitFails, Scanned, WaitReturns
<1>23. ASSUME NEW c \in CPUs, NEW p \in Procs,
             WaitMore(c, p)
      PROVE  PlockInv'
  BY <1>23 DEF WaitMore, Scanned
<1>24. ASSUME NEW c \in CPUs, NEW p \in Procs,
             WaitSleepLock(c, p)
      PROVE  PlockInv'
  BY <1>24 DEF WaitSleepLock, SleepLock
<1>25. ASSUME NEW c \in CPUs, NEW p \in Procs,
             WaitSleepRelease(c, p)
      PROVE  PlockInv'
  BY <1>25 DEF WaitSleepRelease
<1>26. ASSUME NEW c \in CPUs, NEW p \in Procs,
             WaitSleepOn(c, p)
      PROVE  PlockInv'
  BY <1>26 DEF WaitSleepOn, SleepOn
<1>27. ASSUME NEW c \in CPUs, NEW p \in Procs,
             WaitSleepEnd(c, p)
      PROVE  PlockInv'
  BY <1>27 DEF WaitSleepEnd, SleepEnd
<1>28. ASSUME NEW c \in CPUs, NEW p \in Procs, NEW q \in Procs, NEW b \in BOOLEAN,
             Kill(c, p, q, b)
      PROVE  PlockInv'
  BY <1>28, KillEffect DEF Kill, Calls
<1>29. CASE UNCHANGED vars
  BY <1>29 DEF vars, schedVars, procVars, locals
<1> HIDE DEF TypeOK, Goto, Set, On, Runs, schedVars, procVars, locals, IInv,
             CpuInv, ChildInv, PlockInv, HasPlock, Preemptible
<1>30. QED
  BY <1>1, <1>2, <1>3, <1>4, <1>5, <1>6, <1>7, <1>8, <1>9, <1>10, <1>11,
     <1>12, <1>13, <1>14, <1>15, <1>16, <1>17, <1>18, <1>19, <1>20, <1>21,
     <1>22, <1>23, <1>24, <1>25, <1>26, <1>27, <1>28, <1>29
  DEF Next, SchedStep, ForkStep, ExitStep, WaitStep

(* No lock is held at the start. *)
LEMMA InitPlockInv == Init => PlockInv
BY NoCpuAssumption DEF Init, PlockInv

(* A CPU that holds the lock of a slot acquires nothing more. *)
LEMMA PlockIsLast ==
  ASSUME IInv, PlockInv, NEW c \in CPUs, NEW q \in Procs, plock[q] = c
  PROVE  SpinsOn(c) = {}
<1>1. HasPlock(c, q)
  BY DEF PlockInv
<1>2. \A p \in Procs : Runs(c, p) => pc[p] = "copy"
  BY <1>1 DEF HasPlock, Runs, On
<1>3. cpu[c] # NoProc
  BY <1>1 DEF HasPlock
<1>4. ~SpinsForWaitLock(c)
  BY <1>2 DEF SpinsForWaitLock
<1>5. ASSUME NEW x \in Procs PROVE ~SpinsForPlock(c, x)
  BY <1>2, <1>3 DEF SpinsForPlock, Preemptible
<1>6. QED
  BY <1>4, <1>5 DEF SpinsOn

(* A CPU that holds wait_lock does not acquire it again. *)
LEMMA WaitLockIsFirst ==
  ASSUME IInv, NEW c \in CPUs, wlock = c
  PROVE  ~SpinsForWaitLock(c)
<1>1. pc[cpu[c]] \in Holding \cup {"gone"}
  BY DEF IInv, WaitLockInv
<1>2. QED
  BY <1>1 DEF SpinsForWaitLock, Runs, On, Holding

(* wait_lock before the lock of a slot, and that before nothing: whatever  *)
(* fork(), exit(), wait(), kill() and the scheduler do on any number of    *)
(* CPUs, none of them spin in a circle.                                    *)
THEOREM SpinlocksAreOrdered == Spec => []NoSpinCircle
<1>1. Spec => []PlockInv
  <2>1. IInv /\ PlockInv /\ [Next]_vars => PlockInv'
    BY NextPlockInv
  <2>2. QED
    BY <2>1, InitPlockInv, Invariance, PTL DEF Spec
<1>2. ASSUME IInv, PlockInv PROVE NoSpinCircle
  <2> SUFFICES ASSUME NEW S \in SUBSET CPUs, S # {}, \A c \in S : SpinsOn(c) \cap S # {}
               PROVE  FALSE
    BY DEF NoSpinCircle
  <2>1. ASSUME NEW c \in S, NEW q \in Procs PROVE plock[q] # c
    BY <1>2, PlockIsLast
  <2>2. ASSUME NEW c \in S PROVE wlock \in S /\ SpinsForWaitLock(c)
    BY <2>1 DEF SpinsOn
  <2>3. QED
    BY <1>2, <2>2, WaitLockIsFirst
<1>3. QED
  BY <1>1, <1>2, Invariance, PTL
=============================================================================
