---------------------------- MODULE SignalProofs ----------------------------
(***************************************************************************)
(* Proofs about Signal for any set of processes and any number of signals: *)
(* type correctness, that handlers do not nest, that they are invisible to *)
(* the program they interrupt, and that a killed process comes to its end. *)
(***************************************************************************)
EXTENDS Signal, TLAPS

USE TargetsAssumption, NSIGAssumption, SIGKILLAssumption, NobodyAssumption

(* No process starts with a handler, a pending signal or a killed mark:    *)
(* allocproc().                                                            *)
LEMMA InitTypeOK == Init => TypeOK
  BY DEF Init, TypeOK, PCs, Context, NoContext, Code, Main, Junk, Dispositions,
         Sigs

(* The loop of usertrap() stays within 0 .. NSIG-1. *)
LEMMA AdvanceType ==
  ASSUME NEW p \in Procs, TypeOK, Advance(p)
  PROVE  i' \in [Procs -> Sigs] /\ pc' \in [Procs -> PCs]
<1>1. i[p] \in Sigs /\ 0 \in Sigs /\ (i[p] + 1 < NSIG => i[p] + 1 \in Sigs)
  BY DEF TypeOK, Sigs
<1>2. PICK n \in Sigs, l \in {"scan", "last"} : i' = Set(i, p, n) /\ Goto(p, l)
  BY <1>1 DEF Advance
<1>3. i' \in [Procs -> Sigs]
  BY <1>2 DEF TypeOK, Set
<1>4. pc' \in [Procs -> PCs]
  BY <1>2 DEF TypeOK, Goto, Set, PCs
<1>5. QED
  BY <1>3, <1>4

(* The result of a system call fits a0: one that is 0 or -1 does. *)
LEMMA ResultType ==
  ASSUME NEW p \in Procs, NEW r \in {0, -1}, TypeOK, Result(p, r)
  PROVE  tf' \in [Procs -> Context]
<1>1. r \in Sigs \cup {-1}
  BY DEF Sigs
<1>2. tf[p] \in Context
  BY DEF TypeOK
<1>3. ASSUME NEW c \in Context, NEW a \in Sigs \cup {-1}
      PROVE  [c EXCEPT !.a0 = a] \in Context
  BY DEF Context
<1>4. QED
  BY <1>1, <1>2, <1>3 DEF Result, Set, TypeOK

(* Every step of usertrap() and of the signal system calls keeps every     *)
(* variable in its range.                                                  *)
LEMMA NextTypeOK == TypeOK /\ [Next]_vars => TypeOK'
<1> SUFFICES ASSUME TypeOK, [Next]_vars PROVE TypeOK'
  OBVIOUS
<1>0. {} \in SUBSET Sigs /\ 0 \in Sigs /\ NoContext \in Context
  BY DEF Sigs, NoContext, Context, Code, Main
<1>1. CASE Tick
  BY <1>1 DEF Tick, TypeOK, PCs, mem
<1>2. ASSUME NEW p \in Procs, Interrupt(p) PROVE TypeOK'
  BY <1>2 DEF Interrupt, TypeOK, PCs, mem, Goto, Set
<1>3. ASSUME NEW p \in Procs, Kernel(p) PROVE TypeOK'
  <2> USE <1>0 DEF TypeOK, PCs, mem, Goto, Set, Forget
  <2>1. CASE Dies(p)
    BY <2>1 DEF Dies
  <2>2. CASE Fault(p)
    BY <2>2 DEF Fault
  <2>3. CASE PauseEnds(p)
    <3>1. PICK r \in {0, -1} : Result(p, r)
      BY <2>3 DEF PauseEnds
    <3>2. tf' \in [Procs -> Context]
      BY <3>1, ResultType
    <3>3. QED
      BY <2>3, <3>2 DEF PauseEnds
  <2>4. CASE KillStore(p)
    <3>1. tf' \in [Procs -> Context]
      BY <2>4, ResultType DEF KillStore
    <3>2. pc' \in [Procs -> PCs]
      BY <2>4 DEF KillStore
    <3>3. killed' = Set(killed, target[p], killed[target[p]] \/ i[p] = SIGKILL)
      BY <2>4 DEF KillStore
    <3>4. killed' \in [Procs -> BOOLEAN]
      BY <3>3
    <3>5. pending' \in [Procs -> SUBSET Sigs]
      BY <2>4 DEF KillStore
    <3>6. QED
      BY <2>4, <3>1, <3>2, <3>4, <3>5 DEF KillStore
  <2>5. CASE CheckPending(p)
    <3>1. pc' \in [Procs -> PCs] /\ i' \in [Procs -> Sigs]
      <4>1. CASE pending[p] # {} /\ ~handling[p]
        <5>1. i' = [i EXCEPT ![p] = 0] /\ pc' = [pc EXCEPT ![p] = "scan"]
          BY <2>5, <4>1 DEF CheckPending
        <5>2. QED
          BY <5>1
      <4>2. CASE ~(pending[p] # {} /\ ~handling[p])
        BY <2>5, <4>2 DEF CheckPending
      <4>3. QED
        BY <4>1, <4>2
    <3>2. QED
      BY <2>5, <3>1 DEF CheckPending
  <2>6. CASE ScanNext(p)
    BY <2>6, AdvanceType DEF ScanNext
  <2>7. CASE DefaultAction(p)
    BY <2>7 DEF DefaultAction, Scans
  <2>8. CASE IgnoreLoad(p)
    BY <2>8 DEF IgnoreLoad, Scans
  <2>9. CASE IgnoreStore(p)
    BY <2>9, AdvanceType DEF IgnoreStore
  <2>10. CASE Deliver(p)
    <3>1. [fn |-> i[p], a0 |-> i[p]] \in Context
      BY DEF Context, Code
    <3>2. QED
      BY <2>10, <3>1 DEF Deliver, Scans
  <2>11. CASE DeliverStore(p)
    BY <2>11 DEF DeliverStore
  <2>12. CASE ReturnToUser(p)
    BY <2>12 DEF ReturnToUser
  <2>13. CASE PauseSleeps(p)
    BY <2>13 DEF PauseSleeps
  <2>14. QED
    BY <1>3, <2>1, <2>2, <2>3, <2>4, <2>5, <2>6, <2>7, <2>8, <2>9, <2>10,
       <2>11, <2>12, <2>13 DEF Kernel
<1>4. ASSUME NEW p \in Procs, System(p) PROVE TypeOK'
  <2> USE <1>0 DEF TypeOK, PCs, mem, Goto, Set
  <2>1. ASSUME NEW s \in Sigs, NEW h \in Dispositions, SysSignal(p, s, h)
        PROVE  TypeOK'
    <3>1. PICK r \in {0, -1} : Result(p, r)
      BY <2>1 DEF SysSignal
    <3>2. tf' \in [Procs -> Context]
      BY <3>1, ResultType
    <3>3. handlers' \in [Procs -> [Sigs -> Dispositions]]
      <4>1. CASE s = SIGKILL
        BY <2>1, <4>1 DEF SysSignal
      <4>2. CASE s # SIGKILL
        <5>1. handlers' = [handlers EXCEPT ![p][s] = h]
          BY <2>1, <4>2 DEF SysSignal
        <5>2. [handlers[p] EXCEPT ![s] = h] \in [Sigs -> Dispositions]
          BY DEF Dispositions
        <5>3. QED
          BY <5>1, <5>2
      <4>3. QED
        BY <4>1, <4>2
    <3>4. pc' \in [Procs -> PCs]
      BY <2>1 DEF SysSignal
    <3>5. QED
      BY <2>1, <3>2, <3>3, <3>4 DEF SysSignal
  <2>2. CASE SysSigreturn(p)
    BY <2>2 DEF SysSigreturn
  <2>3. CASE SysPause(p)
    BY <2>3 DEF SysPause
  <2>4. CASE PauseGoesOn(p)
    BY <2>4 DEF PauseGoesOn
  <2>5. ASSUME NEW q \in Targets, NEW s \in Sigs, KillLoad(p, q, s)
        PROVE  TypeOK'
    BY <2>5 DEF KillLoad
  <2>6. CASE KillNobody(p)
    <3>1. tf' \in [Procs -> Context]
      BY <2>6, ResultType DEF KillNobody
    <3>2. QED
      BY <2>6, <3>1 DEF KillNobody
  <2>7. QED
    BY <1>4, <2>1, <2>2, <2>3, <2>4, <2>5, <2>6 DEF System
<1>5. CASE UNCHANGED vars
  BY <1>5 DEF vars, mem, local, TypeOK
<1>6. QED
  BY <1>1, <1>2, <1>3, <1>4, <1>5 DEF Next

(* Every variable of the signal code is in its range in every reachable    *)
(* state.                                                                  *)
THEOREM TypeCorrect == Safety => []TypeOK
  BY InitTypeOK, NextTypeOK, PTL DEF Safety

-----------------------------------------------------------------------------
(* At the start nobody runs a handler: allocproc(). *)
LEMMA InitHandlerInv == Init => HandlerInv
  BY DEF Init, HandlerInv, NoContext, Main, Junk, Sigs

(* A step that leaves both trapframes and the guard alone, and does not    *)
(* enter the loop over the signals, disturbs nothing.                      *)
LEMMA HandlerFrame ==
  ASSUME HandlerInv, UNCHANGED <<tf, sigtf, handling, mainline>>,
         \A p \in Procs : pc'[p] \in {"scan", "clrign"}
                            => pc[p] \in {"scan", "clrign"}
  PROVE  HandlerInv'
  BY DEF HandlerInv

(* The same for a step that stores the result of a system call of p.       *)
LEMMA HandlerResult ==
  ASSUME TypeOK, HandlerInv, NEW p \in Procs, NEW r, Result(p, r),
         UNCHANGED <<sigtf, handling, mainline>>,
         \A q \in Procs : pc'[q] \in {"scan", "clrign"}
                            => pc[q] \in {"scan", "clrign"}
  PROVE  HandlerInv'
<1>1. [tf[p] EXCEPT !.a0 = r].fn = tf[p].fn
  BY DEF TypeOK, Context
<1>2. \A q \in Procs : tf'[q].fn = tf[q].fn
  BY <1>1 DEF Result, Set, TypeOK
<1>3. QED
  BY <1>2 DEF HandlerInv

(* Each step changes the trapframes and the guard only where usertrap(),   *)
(* sigreturn() and the result of a system call do, and enters the loop     *)
(* over the signals only with the guard down.                              *)
LEMMA NextHandlerInv == TypeOK /\ HandlerInv /\ [Next]_vars => HandlerInv'
<1> SUFFICES ASSUME TypeOK, HandlerInv, [Next]_vars PROVE HandlerInv'
  OBVIOUS
<1> DEFINE Loop == {"scan", "clrign"}
<1>1. CASE Tick
  BY <1>1, HandlerFrame DEF Tick, mem
<1>2. ASSUME NEW p \in Procs, Interrupt(p) PROVE HandlerInv'
  BY <1>2, HandlerFrame DEF Interrupt, mem, Goto, Set, TypeOK
<1>3. ASSUME NEW p \in Procs, Kernel(p) PROVE HandlerInv'
  <2> USE DEF mem, Goto, Set
  <2>1. CASE Dies(p)
    BY <2>1, HandlerFrame DEF Dies, TypeOK
  <2>2. CASE Fault(p)
    BY <2>2, HandlerFrame DEF Fault, TypeOK
  <2>3. CASE PauseEnds(p)
    <3>1. PICK r \in {0, -1} : Result(p, r)
      BY <2>3 DEF PauseEnds
    <3>2. QED
      BY <2>3, <3>1, HandlerResult DEF PauseEnds, TypeOK
  <2>4. CASE KillStore(p)
    <3>1. Result(p, 0)
      BY <2>4 DEF KillStore
    <3>2. \A q \in Procs : pc'[q] \in Loop => pc[q] \in Loop
      BY <2>4 DEF KillStore, TypeOK
    <3>3. QED
      BY <2>4, <3>1, <3>2, HandlerResult DEF KillStore
  <2>5. CASE CheckPending(p)
    BY <2>5 DEF CheckPending, HandlerInv, TypeOK
  <2>6. CASE ScanNext(p)
    BY <2>6, HandlerFrame DEF ScanNext, Advance, TypeOK
  <2>7. CASE DefaultAction(p)
    BY <2>7, HandlerFrame DEF DefaultAction, TypeOK
  <2>8. CASE IgnoreLoad(p)
    BY <2>8, HandlerFrame DEF IgnoreLoad, Scans, TypeOK
  <2>9. CASE IgnoreStore(p)
    BY <2>9, HandlerFrame DEF IgnoreStore, Advance, TypeOK
  <2>10. CASE Deliver(p)
    <3>1. ~handling[p] /\ tf[p].fn \notin Sigs
      BY <2>10 DEF Deliver, Scans, HandlerInv
    <3>2. /\ sigtf' = [sigtf EXCEPT ![p] = tf[p]]
          /\ mainline' = [mainline EXCEPT ![p] = tf[p]]
          /\ handling' = [handling EXCEPT ![p] = TRUE]
          /\ tf' = [tf EXCEPT ![p] = [fn |-> i[p], a0 |-> i[p]]]
          /\ pc' = [pc EXCEPT ![p] = "clrfn"]
      BY <2>10, <3>1 DEF Deliver
    <3>3. QED
      BY <3>1, <3>2 DEF HandlerInv, TypeOK
  <2>11. CASE DeliverStore(p)
    BY <2>11, HandlerFrame DEF DeliverStore, TypeOK
  <2>12. CASE ReturnToUser(p)
    BY <2>12, HandlerFrame DEF ReturnToUser, TypeOK
  <2>13. CASE PauseSleeps(p)
    BY <2>13, HandlerFrame DEF PauseSleeps, TypeOK
  <2>14. QED
    BY <1>3, <2>1, <2>2, <2>3, <2>4, <2>5, <2>6, <2>7, <2>8, <2>9, <2>10,
       <2>11, <2>12, <2>13 DEF Kernel
<1>4. ASSUME NEW p \in Procs, System(p) PROVE HandlerInv'
  <2> USE DEF mem, Goto, Set
  <2>1. ASSUME NEW s \in Sigs, NEW h \in Dispositions, SysSignal(p, s, h)
        PROVE  HandlerInv'
    <3>1. PICK r \in {0, -1} : Result(p, r)
      BY <2>1 DEF SysSignal
    <3>2. QED
      BY <2>1, <3>1, HandlerResult DEF SysSignal, TypeOK
  <2>2. CASE SysSigreturn(p)
    BY <2>2 DEF SysSigreturn, HandlerInv, TypeOK
  <2>3. CASE SysPause(p)
    BY <2>3, HandlerFrame DEF SysPause, TypeOK
  <2>4. CASE PauseGoesOn(p)
    BY <2>4, HandlerFrame DEF PauseGoesOn, TypeOK
  <2>5. ASSUME NEW q \in Targets, NEW s \in Sigs, KillLoad(p, q, s)
        PROVE  HandlerInv'
    BY <2>5, HandlerFrame DEF KillLoad, TypeOK
  <2>6. CASE KillNobody(p)
    <3>1. Result(p, -1)
      BY <2>6 DEF KillNobody
    <3>2. QED
      BY <2>6, <3>1, HandlerResult DEF KillNobody, TypeOK
  <2>7. QED
    BY <1>4, <2>1, <2>2, <2>3, <2>4, <2>5, <2>6 DEF System
<1>5. CASE UNCHANGED vars
  BY <1>5, HandlerFrame DEF vars, mem, local
<1>6. QED
  BY <1>1, <1>2, <1>3, <1>4, <1>5 DEF Next

(* What a trapframe and its backup hold, and when the re-entrancy guard is *)
(* up, in every reachable state of usertrap() and sigreturn().             *)
THEOREM Invariance == Safety => [](TypeOK /\ HandlerInv)
<1>1. Init => TypeOK /\ HandlerInv
  BY InitTypeOK, InitHandlerInv
<1>2. TypeOK /\ HandlerInv /\ [Next]_vars => TypeOK' /\ HandlerInv'
  BY NextTypeOK, NextHandlerInv
<1>3. QED
  BY <1>1, <1>2, PTL DEF Safety

(* User code runs a handler only with the guard up, and the context saved  *)
(* by usertrap() is never that of a handler.                               *)
THEOREM NoNesting == Safety => []HandlersDoNotNest
<1>1. HandlerInv => HandlersDoNotNest
  BY DEF HandlerInv, HandlersDoNotNest
<1>2. QED
  BY <1>1, Invariance, PTL

(* The sigreturn() that ends a handler puts back, with every register, the *)
(* context that usertrap() interrupted, whatever happened in between.      *)
THEOREM Transparency == Safety => HandlerIsTransparent
<1> DEFINE Restores == \A p \in Procs :
                         handling[p] /\ ~handling'[p] => tf'[p] = mainline[p]
<1>1. ASSUME TypeOK, HandlerInv, [Next]_vars, NEW p \in Procs,
             handling[p], ~handling'[p]
      PROVE  tf'[p] = mainline[p]
  <2>1. SysSigreturn(p)
    <3>1. ASSUME NEW q \in Procs, Kernel(q) PROVE handling'[p] = handling[p]
                                                   \/ handling'[p]
      BY <1>1, <3>1 DEF Kernel, Dies, Fault, PauseEnds, PauseSleeps, KillStore, CheckPending,
        ScanNext, DefaultAction, IgnoreLoad, IgnoreStore, Deliver, DeliverStore,
        ReturnToUser, mem, Set, TypeOK
    <3>2. ASSUME NEW q \in Procs, System(q) PROVE \/ handling'[p] = handling[p]
                                                  \/ q = p /\ SysSigreturn(q)
      BY <1>1, <3>2 DEF System, SysSignal, SysSigreturn, SysPause, PauseGoesOn,
        KillLoad, KillNobody, mem, Set, TypeOK
    <3>3. QED
      BY <1>1, <3>1, <3>2 DEF Next, Tick, Interrupt, vars, mem
  <2>2. tf'[p] = sigtf[p]
    BY <1>1, <2>1 DEF SysSigreturn, Set, TypeOK
  <2>3. QED
    BY <1>1, <2>2 DEF HandlerInv
<1>2. TypeOK /\ HandlerInv /\ [Next]_vars => [Restores]_vars
  BY <1>1
<1>3. QED
  BY <1>2, Invariance, PTL DEF Safety, HandlerIsTransparent

-----------------------------------------------------------------------------
(* The end of a killed process *)

(* A bound on the steps that p, if it is killed, has still to take: to the *)
(* end of the loop of usertrap(), of a system call or of a sleep, and to a *)
(* killed() check; from user space, the next trap is the last.             *)
StepsLeft(p) ==
  CASE pc[p] = "dead" -> 0
    [] pc[p] = "last" -> 1
    [] pc[p] \in {"return", "clrfn"} -> 2
    [] pc[p] \in {"pause", "kstore"} -> 3
    [] pc[p] = "asleep" -> 4
    [] pc[p] = "dozing" -> 5
    [] pc[p] = "clrign" -> 2 * (NSIG - i[p]) + 1
    [] pc[p] = "scan" -> 2 * (NSIG - i[p]) + 2
    [] OTHER -> 2 * NSIG + 3

(* p stays killed, and stays where it is or comes nearer to its end. *)
WindsDown(p) ==
  /\ killed'[p]
  /\ (pc'[p] = pc[p] /\ i'[p] = i[p]) \/ StepsLeft(p)' < StepsLeft(p)

KilledWindsDown == [][\A p \in Procs : killed[p] => WindsDown(p)]_vars

(* It is a bound. *)
LEMMA StepsAreNat == TypeOK => \A p \in Procs : StepsLeft(p) \in Nat
<1> SUFFICES ASSUME TypeOK, NEW p \in Procs PROVE StepsLeft(p) \in Nat
  OBVIOUS
<1>1. i[p] \in 0 .. NSIG - 1
  BY DEF TypeOK, Sigs
<1>2. QED
  BY <1>1 DEF StepsLeft

(* The next iteration of the loop over the signals, or its end *)
LEMMA AdvanceWindsDown ==
  ASSUME TypeOK, NEW p \in Procs, pc[p] \in {"scan", "clrign"}, Advance(p)
  PROVE  StepsLeft(p)' < StepsLeft(p)
<1>1. i[p] \in 0 .. NSIG - 1 /\ pc \in [Procs -> PCs] /\ i \in [Procs -> Sigs]
  BY DEF TypeOK, Sigs
<1>2. \/ pc'[p] = "scan" /\ i'[p] = i[p] + 1
      \/ pc'[p] = "last"
  BY <1>1 DEF Advance, Goto, Set
<1>3. QED
  BY <1>1, <1>2 DEF StepsLeft

(* A step of another process ends the sleep of p, if anything. *)
LEMMA OthersWindDown ==
  ASSUME TypeOK, NEW p \in Procs, killed[p], NEW q \in Procs, q # p,
         Interrupt(q) \/ Kernel(q) \/ System(q)
  PROVE  WindsDown(p)
<1> USE DEF TypeOK, Set, Goto, Forget, mem, WindsDown
<1>1. CASE KillStore(q)
  <2>1. killed'[p] /\ i'[p] = i[p]
    BY <1>1 DEF KillStore
  <2>2. pc'[p] = pc[p] \/ (pc[p] = "asleep" /\ pc'[p] = "pause")
    BY <1>1 DEF KillStore
  <2>3. QED
    BY <2>1, <2>2 DEF StepsLeft
<1>2. CASE Interrupt(q)
  BY <1>2 DEF Interrupt
<1>3. CASE System(q)
  BY <1>3 DEF System, SysSignal, SysSigreturn, SysPause, PauseGoesOn, KillLoad, KillNobody
<1>4. CASE Kernel(q) /\ ~KillStore(q)
  BY <1>4 DEF Kernel, Dies, Fault, PauseEnds, PauseSleeps, CheckPending, Advance, ScanNext, DefaultAction,
     IgnoreLoad, IgnoreStore, Deliver, DeliverStore, ReturnToUser
<1>5. QED
  BY <1>1, <1>2, <1>3, <1>4

(* A step of p leads on to a killed() check; none leads to user space. *)
LEMMA KilledWindDown ==
  ASSUME TypeOK, NEW p \in Procs, killed[p], Interrupt(p) \/ Kernel(p) \/ System(p)
  PROVE  WindsDown(p)
<1>0. i[p] \in 0 .. NSIG - 1 /\ Killed(p) /\ ~Trapped(p) /\ ~Calls(p)
  BY DEF TypeOK, Sigs, Killed, Trapped, Calls
<1>1. Kernel(p)
  BY <1>0 DEF Interrupt, System, SysSignal, SysSigreturn, SysPause, PauseGoesOn, KillLoad, KillNobody
<1> USE DEF TypeOK, Set, Goto, Forget, mem, WindsDown
<1>2. CASE Dies(p)
  BY <1>0, <1>2 DEF Dies, StepsLeft
<1>3. CASE PauseEnds(p)
  BY <1>3 DEF PauseEnds, StepsLeft
<1>4. CASE KillStore(p)
  <2>1. pc[p] = "kstore" /\ pc'[p] = "return" /\ killed'[p]
    BY <1>4 DEF KillStore
  <2>2. QED
    BY <2>1 DEF StepsLeft
<1>5. CASE ScanNext(p)
  BY <1>5, AdvanceWindsDown DEF ScanNext
<1>6. CASE DefaultAction(p)
  BY <1>0, <1>6 DEF DefaultAction, Scans, StepsLeft
<1>7. CASE IgnoreLoad(p)
  BY <1>0, <1>7 DEF IgnoreLoad, Scans, StepsLeft
<1>8. CASE IgnoreStore(p)
  BY <1>8, AdvanceWindsDown DEF IgnoreStore
<1>9. CASE Deliver(p)
  BY <1>0, <1>9 DEF Deliver, Scans, StepsLeft
<1>10. CASE DeliverStore(p)
  BY <1>10 DEF DeliverStore, StepsLeft
<1>11. CASE PauseSleeps(p)
  BY <1>11 DEF PauseSleeps, StepsLeft
<1>12. QED
  BY <1>0, <1>1, <1>2, <1>3, <1>4, <1>5, <1>6, <1>7, <1>8, <1>9, <1>10, <1>11
  DEF Kernel, Fault, CheckPending, ReturnToUser

(* A process that a signal has killed stays killed and never enters user   *)
(* space again: each step that moves it, of which there are no more than   *)
(* 2 * NSIG + 3, brings it nearer to kexit(), whatever signals, handlers   *)
(* and pauses it is in the middle of.                                      *)
THEOREM KilledIsOver ==
  Safety => [](\A p \in Procs : StepsLeft(p) \in Nat) /\ KilledWindsDown
<1>1. ASSUME TypeOK, [Next]_vars, NEW p \in Procs, killed[p]
      PROVE  WindsDown(p)
  <2>1. CASE Tick
    <3>1. killed'[p] /\ i'[p] = i[p] /\ (pc'[p] = pc[p] \/ (pc[p] = "asleep" /\ pc'[p] = "pause"))
      BY <1>1, <2>1 DEF Tick, mem
    <3>2. QED
      BY <3>1 DEF WindsDown, StepsLeft
  <2>2. CASE UNCHANGED vars
    BY <1>1, <2>2 DEF vars, mem, local, WindsDown
  <2>3. QED
    BY <1>1, <2>1, <2>2, OthersWindDown, KilledWindDown DEF Next
<1>2. TypeOK /\ [Next]_vars => [\A p \in Procs : killed[p] => WindsDown(p)]_vars
  BY <1>1
<1>3. QED
  BY <1>2, StepsAreNat, TypeCorrect, PTL DEF Safety, KilledWindsDown
=============================================================================
