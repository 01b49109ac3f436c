-------------------------- MODULE SemaphoreProofs --------------------------
(***************************************************************************)
(* Proofs about Semaphore for any number of process slots, any set of CPUs *)
(* and any set of semaphores: the inductive invariant IInv, the safety     *)
(* invariants of the runs, and the safety part of the refinement.          *)
(***************************************************************************)
EXTENDS Semaphore, TLAPS

USE NPROCAssumption, NoCpuAssumption, NoProcAssumption,
    CountAssumption, NoSemAssumption, NoChanAssumption

(* What one iteration of wakeup() may change: the state of the slot it     *)
(* visits, from SLEEPING to RUNNABLE, and only while nobody holds the      *)
(* lock of that slot.                                                      *)
LEMMA WakeupEffect ==
  ASSUME NEW c \in CPUs, NEW p \in Procs, NEW s \in Sems,
         TypeOK, WakeupStep(c, p, s)
  PROVE  /\ scan[p] \in Procs
         /\ scan' = [scan EXCEPT ![p] = scan[p] + 1]
         /\ UNCHANGED <<chan, plock, cpu, count, slock, pc, arg>>
         /\ \/ /\ UNCHANGED state
               /\ \/ scan[p] = p
                  \/ state[scan[p]] # "SLEEPING"
                  \/ chan[scan[p]] # s
            \/ /\ plock[scan[p]] = NoCpu
               /\ state[scan[p]] = "SLEEPING"
               /\ state' = [state EXCEPT ![scan[p]] = "RUNNABLE"]
<1>1. scan[p] \in Procs
  BY DEF WakeupStep, TypeOK, Procs
<1>2. CASE scan[p] = p
  BY <1>1, <1>2 DEF WakeupStep, WakeupOne, schedVars
<1>3. CASE scan[p] # p /\ state[scan[p]] = "SLEEPING" /\ chan[scan[p]] = s
  BY <1>1, <1>3 DEF WakeupStep, WakeupOne, TypeOK
<1>4. CASE scan[p] # p /\ ~(state[scan[p]] = "SLEEPING" /\ chan[scan[p]] = s)
  BY <1>1, <1>4 DEF WakeupStep, WakeupOne, TypeOK
<1>5. QED
  BY <1>2, <1>3, <1>4

(* seminit() and a table of processes in user space are of the right types.*)
LEMMA InitTypeOK == Init => TypeOK
  BY DEF Init, TypeOK, PCs, Procs

(* Every step of sem_wait, sem_post, kill and the scheduler keeps every    *)
(* variable in its range; that a count stays at 0 or above is the while    *)
(* loop of sys_sem_wait.                                                   *)
LEMMA NextTypeOK == TypeOK /\ [Next]_vars => TypeOK'
<1> SUFFICES ASSUME TypeOK, [Next]_vars PROVE TypeOK'
  OBVIOUS
<1> USE DEF TypeOK, PCs, Goto, schedVars, semVars, On, Runs
<1>1. ASSUME NEW c \in CPUs, NEW p \in Procs,
             Schedule(c, p)
      PROVE  TypeOK'
  BY <1>1 DEF Schedule, Dispatch
<1>2. ASSUME NEW c \in CPUs, NEW p \in Procs,
             Deschedule(c, p)
      PROVE  TypeOK'
  BY <1>2 DEF Deschedule, Switch
<1>3. ASSUME NEW c \in CPUs, NEW p \in Procs,
             Preempt(c, p)
      PROVE  TypeOK'
  BY <1>3 DEF Preempt, Preemptible, YieldCpu
<1>4. ASSUME NEW c \in CPUs, NEW p \in Procs,
             Resumed(c, p)
      PROVE  TypeOK'
  BY <1>4 DEF Resumed, Preemptible, Resume
<1>5. ASSUME NEW c \in CPUs, NEW p \in Procs, NEW s \in Sems,
             CallWait(c, p, s)
      PROVE  TypeOK'
  BY <1>5 DEF CallWait
<1>6. ASSUME NEW c \in CPUs, NEW p \in Procs, NEW s \in Sems,
             AcquireToWait(c, p, s)
      PROVE  TypeOK'
  BY <1>6 DEF AcquireToWait
<1>7. ASSUME NEW c \in CPUs, NEW p \in Procs, NEW s \in Sems,
             Take(c, p, s)
      PROVE  TypeOK'
  BY <1>7 DEF Take
<1>8. ASSUME NEW c \in CPUs, NEW p \in Procs, NEW s \in Sems,
             MustSleep(c, p, s)
      PROVE  TypeOK'
  BY <1>8 DEF MustSleep
<1>9. ASSUME NEW c \in CPUs, NEW p \in Procs, NEW s \in Sems,
             SleepAcquire(c, p, s)
      PROVE  TypeOK'
  BY <1>9 DEF SleepAcquire, SleepLock
<1>10. ASSUME NEW c \in CPUs, NEW p \in Procs, NEW s \in Sems,
              SleepRelease(c, p, s)
      PROVE  TypeOK'
  BY <1>10 DEF SleepRelease
<1>11. ASSUME NEW c \in CPUs, NEW p \in Procs, NEW s \in Sems,
              FallAsleep(c, p, s)
      PROVE  TypeOK'
  BY <1>11 DEF FallAsleep, SleepOn
<1>12. ASSUME NEW c \in CPUs, NEW p \in Procs, NEW s \in Sems,
              WakeFromSleep(c, p, s)
      PROVE  TypeOK'
  BY <1>12 DEF WakeFromSleep, SleepEnd
<1>13. ASSUME NEW c \in CPUs, NEW p \in Procs, NEW s \in Sems,
              CallPost(c, p, s)
      PROVE  TypeOK'
  BY <1>13 DEF CallPost
<1>14. ASSUME NEW c \in CPUs, NEW p \in Procs, NEW s \in Sems,
              AcquireToPost(c, p, s)
      PROVE  TypeOK'
  BY <1>14 DEF AcquireToPost, Procs
<1>15. ASSUME NEW c \in CPUs, NEW p \in Procs, NEW s \in Sems,
              WakeupStep(c, p, s)
      PROVE  TypeOK'
  <2>1. /\ scan[p] \in Procs
        /\ scan' = [scan EXCEPT ![p] = scan[p] + 1]
        /\ UNCHANGED <<chan, plock, cpu, count, slock, pc, arg>>
    BY <1>15, WakeupEffect
  <2>2. state' \in [Procs -> {"SLEEPING", "RUNNABLE", "RUNNING"}]
    <3>1. \/ state' = state
          \/ state' = [state EXCEPT ![scan[p]] = "RUNNABLE"]
      BY <1>15, WakeupEffect
    <3>2. QED
      BY <2>1, <3>1
  <2>3. scan' \in [Procs -> 1 .. NPROC + 1]
    BY <2>1 DEF Procs
  <2>4. QED
    BY <2>1, <2>2, <2>3
<1>16. ASSUME NEW c \in CPUs, NEW p \in Procs, NEW s \in Sems,
              EndPost(c, p, s)
      PROVE  TypeOK'
  BY <1>16 DEF EndPost
<1>17. ASSUME NEW c \in CPUs, NEW p \in Procs, NEW q \in Procs,
              Kill(c, p, q)
      PROVE  TypeOK'
  BY <1>17 DEF Kill, KillWake
<1>18. CASE UNCHANGED vars
  BY <1>18 DEF vars
<1>19. QED
  BY <1>1, <1>2, <1>3, <1>4, <1>5, <1>6, <1>7, <1>8, <1>9, <1>10, <1>11,
     <1>12, <1>13, <1>14, <1>15, <1>16, <1>17, <1>18
  DEF Next, SchedStep, WaitStep, PostStep

(* Every variable is in its range in every reachable state; the count of a *)
(* struct sem never goes below 0.                                          *)
THEOREM TypeCorrect == Safety => []TypeOK
  BY InitTypeOK, NextTypeOK, PTL DEF Safety

-----------------------------------------------------------------------------
(* At the start nobody holds a lock: seminit() calls initlock(). *)
LEMMA InitLockInv == Init => LockInv
  BY DEF Init, LockInv, OneStackOneCpu, RunningIsOnCpu, PlockOnCpu, SlockOnCpu,
         CallState, HasSlock

(* Every step preserves which CPU may hold which lock: acquire and release *)
(* in sem_wait, sem_post, sleep(), yield(), and swtch() with p->lock held. *)
LEMMA NextLockInv == TypeOK /\ LockInv /\ [Next]_vars => LockInv'
<1> SUFFICES ASSUME TypeOK, LockInv, [Next]_vars PROVE LockInv'
  OBVIOUS
<1> USE DEF TypeOK, PCs, Goto, schedVars, semVars, On, Runs, LockInv, HasSlock
<1>1. ASSUME NEW c \in CPUs, NEW p \in Procs,
             Schedule(c, p)
      PROVE  LockInv'
  <2>1. OneStackOneCpu'
    BY <1>1 DEF Schedule, Dispatch, OneStackOneCpu, RunningIsOnCpu,
            PlockOnCpu, SlockOnCpu, CallState
  <2>2. RunningIsOnCpu'
    BY <1>1 DEF Schedule, Dispatch, OneStackOneCpu, RunningIsOnCpu,
            PlockOnCpu, SlockOnCpu, CallState
  <2>3. PlockOnCpu'
    BY <1>1 DEF Schedule, Dispatch, OneStackOneCpu, RunningIsOnCpu,
            PlockOnCpu, SlockOnCpu, CallState
  <2>4. SlockOnCpu'
    BY <1>1 DEF Schedule, Dispatch, OneStackOneCpu, RunningIsOnCpu,
            PlockOnCpu, SlockOnCpu, CallState
  <2>5. CallState'
    BY <1>1 DEF Schedule, Dispatch, OneStackOneCpu, RunningIsOnCpu,
            PlockOnCpu, SlockOnCpu, CallState
  <2>6. QED
    BY <2>1, <2>2, <2>3, <2>4, <2>5
<1>2. ASSUME NEW c \in CPUs, NEW p \in Procs,
             Deschedule(c, p)
      PROVE  LockInv'
  <2>1. OneStackOneCpu'
    BY <1>2 DEF Deschedule, Switch, OneStackOneCpu, RunningIsOnCpu,
            PlockOnCpu, SlockOnCpu, CallState
  <2>2. RunningIsOnCpu'
    BY <1>2 DEF Deschedule, Switch, OneStackOneCpu, RunningIsOnCpu,
            PlockOnCpu, SlockOnCpu, CallState
  <2>3. PlockOnCpu'
    BY <1>2 DEF Deschedule, Switch, OneStackOneCpu, RunningIsOnCpu,
            PlockOnCpu, SlockOnCpu, CallState
  <2>4. SlockOnCpu'
    BY <1>2 DEF Deschedule, Switch, OneStackOneCpu, RunningIsOnCpu,
            PlockOnCpu, SlockOnCpu, CallState
  <2>5. CallState'
    BY <1>2 DEF Deschedule, Switch, OneStackOneCpu, RunningIsOnCpu,
            PlockOnCpu, SlockOnCpu, CallState
  <2>6. QED
    BY <2>1, <2>2, <2>3, <2>4, <2>5
<1>3. ASSUME NEW c \in CPUs, NEW p \in Procs,
             Preempt(c, p)
      PROVE  LockInv'
  <2>1. OneStackOneCpu'
    BY <1>3 DEF Preempt, Preemptible, YieldCpu, OneStackOneCpu, RunningIsOnCpu,
            PlockOnCpu, SlockOnCpu, CallState
  <2>2. RunningIsOnCpu'
    BY <1>3 DEF Preempt, Preemptible, YieldCpu, OneStackOneCpu, RunningIsOnCpu,
            PlockOnCpu, SlockOnCpu, CallState
  <2>3. PlockOnCpu'
    BY <1>3 DEF Preempt, Preemptible, YieldCpu, OneStackOneCpu, RunningIsOnCpu,
            PlockOnCpu, SlockOnCpu, CallState
  <2>4. SlockOnCpu'
    BY <1>3 DEF Preempt, Preemptible, YieldCpu, OneStackOneCpu, RunningIsOnCpu,
            PlockOnCpu, SlockOnCpu, CallState
  <2>5. CallState'
    BY <1>3 DEF Preempt, Preemptible, YieldCpu, OneStackOneCpu, RunningIsOnCpu,
            PlockOnCpu, SlockOnCpu, CallState
  <2>6. QED
    BY <2>1, <2>2, <2>3, <2>4, <2>5
<1>4. ASSUME NEW c \in CPUs, NEW p \in Procs,
             Resumed(c, p)
      PROVE  LockInv'
  BY <1>4 DEF Resumed, Preemptible, Resume, OneStackOneCpu, RunningIsOnCpu, PlockOnCpu,
         SlockOnCpu, CallState
<1>5. ASSUME NEW c \in CPUs, NEW p \in Procs, NEW s \in Sems,
             CallWait(c, p, s)
      PROVE  LockInv'
  BY <1>5 DEF CallWait, OneStackOneCpu, RunningIsOnCpu, PlockOnCpu,
         SlockOnCpu, CallState
<1>6. ASSUME NEW c \in CPUs, NEW p \in Procs, NEW s \in Sems,
             AcquireToWait(c, p, s)
      PROVE  LockInv'
  <2>1. OneStackOneCpu'
    BY <1>6 DEF AcquireToWait, OneStackOneCpu, RunningIsOnCpu,
            PlockOnCpu, SlockOnCpu, CallState
  <2>2. RunningIsOnCpu'
    BY <1>6 DEF AcquireToWait, OneStackOneCpu, RunningIsOnCpu,
            PlockOnCpu, SlockOnCpu, CallState
  <2>3. PlockOnCpu'
    BY <1>6 DEF AcquireToWait, OneStackOneCpu, RunningIsOnCpu,
            PlockOnCpu, SlockOnCpu, CallState
  <2>4. SlockOnCpu'
    BY <1>6 DEF AcquireToWait, OneStackOneCpu, RunningIsOnCpu,
            PlockOnCpu, SlockOnCpu, CallState
  <2>5. CallState'
    BY <1>6 DEF AcquireToWait, OneStackOneCpu, RunningIsOnCpu,
            PlockOnCpu, SlockOnCpu, CallState
  <2>6. QED
    BY <2>1, <2>2, <2>3, <2>4, <2>5
<1>7. ASSUME NEW c \in CPUs, NEW p \in Procs, NEW s \in Sems,
             Take(c, p, s)
      PROVE  LockInv'
  BY <1>7 DEF Take, OneStackOneCpu, RunningIsOnCpu, PlockOnCpu,
         SlockOnCpu, CallState
<1>8. ASSUME NEW c \in CPUs, NEW p \in Procs, NEW s \in Sems,
             MustSleep(c, p, s)
      PROVE  LockInv'
  BY <1>8 DEF MustSleep, OneStackOneCpu, RunningIsOnCpu, PlockOnCpu,
         SlockOnCpu, CallState
<1>9. ASSUME NEW c \in CPUs, NEW p \in Procs, NEW s \in Sems,
             SleepAcquire(c, p, s)
      PROVE  LockInv'
  BY <1>9 DEF SleepAcquire, SleepLock, OneStackOneCpu, RunningIsOnCpu, PlockOnCpu,
         SlockOnCpu, CallState
<1>10. ASSUME NEW c \in CPUs, NEW p \in Procs, NEW s \in Sems,
              SleepRelease(c, p, s)
      PROVE  LockInv'
  BY <1>10 DEF SleepRelease, OneStackOneCpu, RunningIsOnCpu, PlockOnCpu,
         SlockOnCpu, CallState
<1>11. ASSUME NEW c \in CPUs, NEW p \in Procs, NEW s \in Sems,
              FallAsleep(c, p, s)
      PROVE  LockInv'
  BY <1>11 DEF FallAsleep, SleepOn, OneStackOneCpu, RunningIsOnCpu, PlockOnCpu,
         SlockOnCpu, CallState
<1>12. ASSUME NEW c \in CPUs, NEW p \in Procs, NEW s \in Sems,
              WakeFromSleep(c, p, s)
      PROVE  LockInv'
  BY <1>12 DEF WakeFromSleep, SleepEnd, OneStackOneCpu, RunningIsOnCpu, PlockOnCpu,
         SlockOnCpu, CallState
<1>13. ASSUME NEW c \in CPUs, NEW p \in Procs, NEW s \in Sems,
              CallPost(c, p, s)
      PROVE  LockInv'
  BY <1>13 DEF CallPost, OneStackOneCpu, RunningIsOnCpu, PlockOnCpu,
         SlockOnCpu, CallState
<1>14. ASSUME NEW c \in CPUs, NEW p \in Procs, NEW s \in Sems,
              AcquireToPost(c, p, s)
      PROVE  LockInv'
  <2>1. OneStackOneCpu'
    BY <1>14 DEF AcquireToPost, OneStackOneCpu, RunningIsOnCpu,
            PlockOnCpu, SlockOnCpu, CallState
  <2>2. RunningIsOnCpu'
    BY <1>14 DEF AcquireToPost, OneStackOneCpu, RunningIsOnCpu,
            PlockOnCpu, SlockOnCpu, CallState
  <2>3. PlockOnCpu'
    BY <1>14 DEF AcquireToPost, OneStackOneCpu, RunningIsOnCpu,
            PlockOnCpu, SlockOnCpu, CallState
  <2>4. SlockOnCpu'
    BY <1>14 DEF AcquireToPost, OneStackOneCpu, RunningIsOnCpu,
            PlockOnCpu, SlockOnCpu, CallState
  <2>5. CallState'
    BY <1>14 DEF AcquireToPost, OneStackOneCpu, RunningIsOnCpu,
            PlockOnCpu, SlockOnCpu, CallState
  <2>6. QED
    BY <2>1, <2>2, <2>3, <2>4, <2>5
<1>15. ASSUME NEW c \in CPUs, NEW p \in Procs, NEW s \in Sems,
              WakeupStep(c, p, s)
      PROVE  LockInv'
  BY <1>15 DEF WakeupStep, WakeupOne, OneStackOneCpu, RunningIsOnCpu, PlockOnCpu,
         SlockOnCpu, CallState
<1>16. ASSUME NEW c \in CPUs, NEW p \in Procs, NEW s \in Sems,
              EndPost(c, p, s)
      PROVE  LockInv'
  BY <1>16 DEF EndPost, OneStackOneCpu, RunningIsOnCpu, PlockOnCpu,
         SlockOnCpu, CallState
<1>17. ASSUME NEW c \in CPUs, NEW p \in Procs, NEW q \in Procs,
              Kill(c, p, q)
      PROVE  LockInv'
  BY <1>17 DEF Kill, KillWake, OneStackOneCpu, RunningIsOnCpu, PlockOnCpu,
         SlockOnCpu, CallState
<1>18. CASE UNCHANGED vars
  BY <1>18 DEF vars, OneStackOneCpu, RunningIsOnCpu, PlockOnCpu,
         SlockOnCpu, CallState
<1>19. QED
  BY <1>1, <1>2, <1>3, <1>4, <1>5, <1>6, <1>7, <1>8, <1>9, <1>10, <1>11,
     <1>12, <1>13, <1>14, <1>15, <1>16, <1>17, <1>18
  DEF Next, SchedStep, WaitStep, PostStep

-----------------------------------------------------------------------------
(* At the start nobody is asleep, or on the way into sleep(). *)
LEMMA InitSleepInv == Init => SleepInv
  BY DEF Init, SleepInv

(* Every step preserves what a process on its way through sleep() relies   *)
(* on: wakeup() in sem_post cannot pass its slot while it holds p->lock.   *)
LEMMA NextSleepInv == TypeOK /\ LockInv /\ SleepInv /\ [Next]_vars => SleepInv'
<1> SUFFICES ASSUME TypeOK, LockInv, SleepInv, [Next]_vars PROVE SleepInv'
  OBVIOUS
<1> USE DEF TypeOK, PCs, Goto, schedVars, semVars, On, Runs, LockInv,
            RunningIsOnCpu, PlockOnCpu, SlockOnCpu, CallState, HasSlock,
            SleepInv, WakeupComing
<1>1. ASSUME NEW c \in CPUs, NEW p \in Procs,
             Schedule(c, p)
      PROVE  SleepInv'
  BY <1>1 DEF Schedule, Dispatch
<1>2. ASSUME NEW c \in CPUs, NEW p \in Procs,
             Deschedule(c, p)
      PROVE  SleepInv'
  BY <1>2 DEF Deschedule, Switch
<1>3. ASSUME NEW c \in CPUs, NEW p \in Procs,
             Preempt(c, p)
      PROVE  SleepInv'
  BY <1>3 DEF Preempt, Preemptible, YieldCpu
<1>4. ASSUME NEW c \in CPUs, NEW p \in Procs,
             Resumed(c, p)
      PROVE  SleepInv'
  BY <1>4 DEF Resumed, Preemptible, Resume
<1>5. ASSUME NEW c \in CPUs, NEW p \in Procs, NEW s \in Sems,
             CallWait(c, p, s)
      PROVE  SleepInv'
  BY <1>5 DEF CallWait
<1>6. ASSUME NEW c \in CPUs, NEW p \in Procs, NEW s \in Sems,
             AcquireToWait(c, p, s)
      PROVE  SleepInv'
  BY <1>6 DEF AcquireToWait
<1>7. ASSUME NEW c \in CPUs, NEW p \in Procs, NEW s \in Sems,
             Take(c, p, s)
      PROVE  SleepInv'
  BY <1>7 DEF Take
<1>8. ASSUME NEW c \in CPUs, NEW p \in Procs, NEW s \in Sems,
             MustSleep(c, p, s)
      PROVE  SleepInv'
  BY <1>8 DEF MustSleep
<1>9. ASSUME NEW c \in CPUs, NEW p \in Procs, NEW s \in Sems,
             SleepAcquire(c, p, s)
      PROVE  SleepInv'
  BY <1>9 DEF SleepAcquire, SleepLock
<1>10. ASSUME NEW c \in CPUs, NEW p \in Procs, NEW s \in Sems,
              SleepRelease(c, p, s)
      PROVE  SleepInv'
  BY <1>10 DEF SleepRelease
<1>11. ASSUME NEW c \in CPUs, NEW p \in Procs, NEW s \in Sems,
              FallAsleep(c, p, s)
      PROVE  SleepInv'
  BY <1>11 DEF FallAsleep, SleepOn
<1>12. ASSUME NEW c \in CPUs, NEW p \in Procs, NEW s \in Sems,
              WakeFromSleep(c, p, s)
      PROVE  SleepInv'
  BY <1>12 DEF WakeFromSleep, SleepEnd
<1>13. ASSUME NEW c \in CPUs, NEW p \in Procs, NEW s \in Sems,
              CallPost(c, p, s)
      PROVE  SleepInv'
  BY <1>13 DEF CallPost
<1>14. ASSUME NEW c \in CPUs, NEW p \in Procs, NEW s \in Sems,
              AcquireToPost(c, p, s)
      PROVE  SleepInv'
  <2> SUFFICES ASSUME NEW r \in Procs
               PROVE  /\ state'[r] = "SLEEPING" => pc'[r] = "asleep" /\ chan'[r] = arg'[r]
                      /\ pc'[r] \in {"sleep", "sleeplk"} => count'[arg'[r]] = 0
                      /\ (pc'[r] = "sleepon" \/ state'[r] = "SLEEPING")
                           /\ count'[arg'[r]] > 0 => WakeupComing(arg[r], r)'
    BY <1>14 DEF AcquireToPost
  <2>1. state'[r] = "SLEEPING" => pc'[r] = "asleep" /\ chan'[r] = arg'[r]
    BY <1>14 DEF AcquireToPost
  <2>2. pc'[r] \in {"sleep", "sleeplk"} => count'[arg'[r]] = 0
    <3>1. pc[r] \in {"sleep", "sleeplk"} => arg[r] # s
      BY <1>14 DEF AcquireToPost
    <3>2. QED
      BY <1>14, <3>1 DEF AcquireToPost
  <2>3. CASE arg[r] = s
    <3>1. pc'[p] = "wakeup" /\ arg'[p] = s /\ scan'[p] <= r
      BY <1>14 DEF AcquireToPost, Procs
    <3>2. arg'[r] = arg'[p]
      BY <1>14, <2>3, <3>1 DEF AcquireToPost
    <3>3. QED
      BY <2>1, <2>2, <3>1, <3>2
  <2>4. CASE arg[r] # s
    <3>1. count'[arg[r]] = count[arg[r]]
      BY <1>14, <2>4 DEF AcquireToPost
    <3>2. ASSUME NEW q \in Procs, pc[q] = "wakeup", arg[q] = arg[r], scan[q] <= r
          PROVE  pc'[q] = "wakeup" /\ arg'[q] = arg'[r] /\ scan'[q] <= r
      BY <1>14, <2>4, <3>2 DEF AcquireToPost
    <3>3. QED
      BY <1>14, <2>1, <2>2, <3>1, <3>2 DEF AcquireToPost
  <2>5. QED
    BY <2>3, <2>4
<1>15. ASSUME NEW c \in CPUs, NEW p \in Procs, NEW s \in Sems,
              WakeupStep(c, p, s)
      PROVE  SleepInv'
  <2>1. /\ scan[p] \in Procs
        /\ scan' = [scan EXCEPT ![p] = scan[p] + 1]
        /\ UNCHANGED <<chan, plock, cpu, count, slock, pc, arg>>
    BY <1>15, WakeupEffect
  <2>2. ASSUME NEW r \in Procs,
               pc[r] = "sleepon" \/ state'[r] = "SLEEPING",
               count[arg[r]] > 0
        PROVE  WakeupComing(arg[r], r)'
    <3>1. pc[r] = "sleepon" \/ state[r] = "SLEEPING"
      BY <1>15, <2>2, WakeupEffect
    <3>2. PICK q \in Procs : pc[q] = "wakeup" /\ arg[q] = arg[r] /\ scan[q] <= r
      BY <2>2, <3>1
    <3>3. CASE q # p \/ scan[q] < r
      BY <2>1, <3>2, <3>3 DEF Procs
    <3>4. CASE q = p /\ scan[p] = r
      <4>1. arg[r] = s /\ pc[p] = "wakeup"
        BY <1>15, <3>2, <3>4 DEF WakeupStep
      <4>2. CASE pc[r] = "sleepon"
        <5>1. PICK d \in CPUs : cpu[d] = r
          BY <4>2
        <5>2. plock[r] = d
          BY <4>2, <5>1
        <5>3. QED
          BY <1>15, <3>4, <4>1, <4>2, <5>2 DEF WakeupStep, WakeupOne
      <4>3. CASE state[r] = "SLEEPING"
        <5>1. chan[r] = s /\ r # p
          BY <4>1, <4>3
        <5>2. state'[r] = "RUNNABLE"
          BY <1>15, <3>4, <4>3, <5>1 DEF WakeupStep, WakeupOne
        <5>3. QED
          BY <2>2, <4>3, <5>2
      <4>4. QED
        BY <3>1, <4>2, <4>3
    <3>5. QED
      BY <3>2, <3>3, <3>4, <2>1 DEF Procs
  <2>3. \A r \in Procs : state'[r] = "SLEEPING" => state[r] = "SLEEPING"
    BY <1>15, WakeupEffect
  <2>4. QED
    BY <2>1, <2>2, <2>3
<1>16. ASSUME NEW c \in CPUs, NEW p \in Procs, NEW s \in Sems,
              EndPost(c, p, s)
      PROVE  SleepInv'
  <2>1. ASSUME NEW r \in Procs, NEW q \in Procs,
               pc[q] = "wakeup", scan[q] <= r
        PROVE  q # p
    BY <1>16, <2>1 DEF EndPost, Procs
  <2>2. ASSUME NEW r \in Procs, pc'[r] = "sleepon" \/ state'[r] = "SLEEPING",
               count'[arg'[r]] > 0
        PROVE  WakeupComing(arg[r], r)'
    <3>1. r # p /\ arg'[r] = arg[r]
      BY <1>16, <2>2 DEF EndPost
    <3>2. PICK q \in Procs : pc[q] = "wakeup" /\ arg[q] = arg[r] /\ scan[q] <= r
      BY <1>16, <2>2, <3>1 DEF EndPost
    <3>3. q # p
      BY <2>1, <3>2
    <3>4. QED
      BY <1>16, <3>1, <3>2, <3>3 DEF EndPost
  <2>3. \A r \in Procs :
          /\ state'[r] = "SLEEPING" => pc'[r] = "asleep" /\ chan'[r] = arg'[r]
          /\ pc'[r] \in {"sleep", "sleeplk"} => count'[arg'[r]] = 0
    BY <1>16 DEF EndPost
  <2>4. QED
    BY <1>16, <2>2, <2>3 DEF EndPost
<1>17. ASSUME NEW c \in CPUs, NEW p \in Procs, NEW q \in Procs,
              Kill(c, p, q)
      PROVE  SleepInv'
  BY <1>17 DEF Kill, KillWake
<1>18. CASE UNCHANGED vars
  BY <1>18 DEF vars
<1>19. QED
  BY <1>1, <1>2, <1>3, <1>4, <1>5, <1>6, <1>7, <1>8, <1>9, <1>10, <1>11,
     <1>12, <1>13, <1>14, <1>15, <1>16, <1>17, <1>18
  DEF Next, SchedStep, WaitStep, PostStep

(* The lock discipline and the sleep protocol hold in every reachable      *)
(* state of sem_wait, sem_post and the scheduler.                          *)
THEOREM Invariance == Safety => []IInv
<1>1. Init => IInv
  BY InitTypeOK, InitLockInv, InitSleepInv DEF IInv
<1>2. IInv /\ [Next]_vars => IInv'
  BY NextTypeOK, NextLockInv, NextSleepInv DEF IInv
<1>3. QED
  BY <1>1, <1>2, PTL DEF Safety

(* No two CPUs are ever on one kernel stack: sched(), scheduler(). *)
THEOREM OneStack == Safety => []OneStackOneCpu
<1>1. IInv => OneStackOneCpu
  BY DEF IInv, LockInv
<1>2. QED
  BY <1>1, Invariance, PTL

(* sched() is only entered with p->lock and no other spinlock held, so its *)
(* panics cannot fire.                                                     *)
THEOREM SwitchLocks == Safety => []SwitchHoldsOnlyPlock
<1>1. IInv => SwitchHoldsOnlyPlock
  BY DEF IInv, TypeOK, LockInv, OneStackOneCpu, PlockOnCpu, SlockOnCpu,
         CallState, HasSlock, SwitchHoldsOnlyPlock
<1>2. QED
  BY <1>1, Invariance, PTL

(* sem_wait never sleeps through a sem_post. *)
THEOREM NoWakeupIsLost == Safety => []NoLostWakeup
<1>1. IInv => NoLostWakeup
  BY DEF IInv, SleepInv, NoLostWakeup
<1>2. QED
  BY <1>1, Invariance, PTL

-----------------------------------------------------------------------------
(* Every step of the code is a step of the abstract semaphores or leaves   *)
(* them as they are.                                                       *)
LEMMA StepRefines ==
  IInv /\ [Next]_vars => [Abstract!Next]_(Abstract!specVars)
<1> SUFFICES ASSUME IInv, [Next]_vars
             PROVE  [Abstract!Next]_(Abstract!specVars)
  OBVIOUS
<1> USE DEF IInv, TypeOK, PCs, Goto, schedVars, semVars, On, Runs, CallState,
            LockInv, Waiting, Abstract!specVars
<1>1. ASSUME NEW c \in CPUs, NEW p \in Procs,
             Schedule(c, p)
      PROVE  [Abstract!Next]_(Abstract!specVars)
  BY <1>1 DEF Schedule, Dispatch
<1>2. ASSUME NEW c \in CPUs, NEW p \in Procs,
             Deschedule(c, p)
      PROVE  [Abstract!Next]_(Abstract!specVars)
  BY <1>2 DEF Deschedule, Switch
<1>3. ASSUME NEW c \in CPUs, NEW p \in Procs,
             Preempt(c, p)
      PROVE  [Abstract!Next]_(Abstract!specVars)
  BY <1>3 DEF Preempt, Preemptible, YieldCpu
<1>4. ASSUME NEW c \in CPUs, NEW p \in Procs,
             Resumed(c, p)
      PROVE  [Abstract!Next]_(Abstract!specVars)
  BY <1>4 DEF Resumed, Preemptible, Resume
<1>5. ASSUME NEW c \in CPUs, NEW p \in Procs, NEW s \in Sems,
             CallWait(c, p, s)
      PROVE  [Abstract!Next]_(Abstract!specVars)
  <2>1. Abstract!Ask(p, s)
    BY <1>5 DEF CallWait, Abstract!Ask
  <2>2. QED
    BY <2>1 DEF Abstract!Next
<1>6. ASSUME NEW c \in CPUs, NEW p \in Procs, NEW s \in Sems,
             AcquireToWait(c, p, s)
      PROVE  [Abstract!Next]_(Abstract!specVars)
  BY <1>6 DEF AcquireToWait
<1>7. ASSUME NEW c \in CPUs, NEW p \in Procs, NEW s \in Sems,
             Take(c, p, s)
      PROVE  [Abstract!Next]_(Abstract!specVars)
  <2>1. Abstract!Grant(p, s)
    BY <1>7 DEF Take, Abstract!Grant
  <2>2. QED
    BY <2>1 DEF Abstract!Next
<1>8. ASSUME NEW c \in CPUs, NEW p \in Procs, NEW s \in Sems,
             MustSleep(c, p, s)
      PROVE  [Abstract!Next]_(Abstract!specVars)
  BY <1>8 DEF MustSleep
<1>9. ASSUME NEW c \in CPUs, NEW p \in Procs, NEW s \in Sems,
             SleepAcquire(c, p, s)
      PROVE  [Abstract!Next]_(Abstract!specVars)
  BY <1>9 DEF SleepAcquire, SleepLock
<1>10. ASSUME NEW c \in CPUs, NEW p \in Procs, NEW s \in Sems,
              SleepRelease(c, p, s)
      PROVE  [Abstract!Next]_(Abstract!specVars)
  BY <1>10 DEF SleepRelease
<1>11. ASSUME NEW c \in CPUs, NEW p \in Procs, NEW s \in Sems,
              FallAsleep(c, p, s)
      PROVE  [Abstract!Next]_(Abstract!specVars)
  BY <1>11 DEF FallAsleep, SleepOn
<1>12. ASSUME NEW c \in CPUs, NEW p \in Procs, NEW s \in Sems,
              WakeFromSleep(c, p, s)
      PROVE  [Abstract!Next]_(Abstract!specVars)
  BY <1>12 DEF WakeFromSleep, SleepEnd
<1>13. ASSUME NEW c \in CPUs, NEW p \in Procs, NEW s \in Sems,
              CallPost(c, p, s)
      PROVE  [Abstract!Next]_(Abstract!specVars)
  BY <1>13 DEF CallPost
<1>14. ASSUME NEW c \in CPUs, NEW p \in Procs, NEW s \in Sems,
              AcquireToPost(c, p, s)
      PROVE  [Abstract!Next]_(Abstract!specVars)
  <2>1. Abstract!Post(p, s)
    BY <1>14 DEF AcquireToPost, Abstract!Post
  <2>2. QED
    BY <2>1 DEF Abstract!Next
<1>15. ASSUME NEW c \in CPUs, NEW p \in Procs, NEW s \in Sems,
              WakeupStep(c, p, s)
      PROVE  [Abstract!Next]_(Abstract!specVars)
  BY <1>15, WakeupEffect
<1>16. ASSUME NEW c \in CPUs, NEW p \in Procs, NEW s \in Sems,
              EndPost(c, p, s)
      PROVE  [Abstract!Next]_(Abstract!specVars)
  BY <1>16 DEF EndPost
<1>17. ASSUME NEW c \in CPUs, NEW p \in Procs, NEW q \in Procs,
              Kill(c, p, q)
      PROVE  [Abstract!Next]_(Abstract!specVars)
  BY <1>17 DEF Kill, KillWake
<1>18. CASE UNCHANGED vars
  BY <1>18 DEF vars
<1>19. QED
  BY <1>1, <1>2, <1>3, <1>4, <1>5, <1>6, <1>7, <1>8, <1>9, <1>10, <1>11,
     <1>12, <1>13, <1>14, <1>15, <1>16, <1>17, <1>18
  DEF Next, SchedStep, WaitStep, PostStep

(* The lock-level code implements the abstract semaphores (safety part).   *)
THEOREM Refinement == Safety => Abstract!Safety
<1>1. Init => Abstract!Init
  BY DEF Init, Abstract!Init, Waiting
<1>2. QED
  BY <1>1, StepRefines, Invariance, PTL DEF Safety, Abstract!Safety
=============================================================================
