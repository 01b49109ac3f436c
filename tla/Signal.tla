------------------------------- MODULE Signal -------------------------------
(***************************************************************************)
(* UNIX-style signals: kkill() of kernel/proc.c, sys_signal() and          *)
(* sys_sigreturn() of kernel/sysproc.c and the delivery code on the return *)
(* path of usertrap() in kernel/trap.c.                                    *)
(*                                                                         *)
(* pending_signals is one word of memory.  kkill() updates it under the    *)
(* target's p->lock, usertrap() of the target without it, so each update   *)
(* is a load and a later store.  Everything else usertrap() touches is     *)
(* private to its process.  Scheduling is left out (see Sched): between    *)
(* two steps of one process any other process may take steps.              *)
(***************************************************************************)
EXTENDS Integers, FiniteSets

CONSTANTS
  Procs,     \* the processes
  Targets,   \* bound: the ones that are sent signals and use handlers
  NSIG,      \* signals are 0 .. NSIG-1
  SIGKILL,   \* the one that cannot be caught
  Nobody     \* p->lock is free

ASSUME TargetsAssumption == Targets \subseteq Procs
ASSUME NSIGAssumption == NSIG \in Nat \ {0}
ASSUME SIGKILLAssumption == SIGKILL \in 0 .. NSIG - 1
ASSUME NobodyAssumption == Nobody \notin Procs

Sigs == 0 .. NSIG - 1
Catchable == Sigs \ {SIGKILL}

Dispositions == {"SIG_DFL", "SIG_IGN", "handler"}

(* What the trapframe says the user program will resume: the main program, *)
(* the handler of a signal, or the junk of a page fresh from kalloc();     *)
(* and its a0, a system call's result or a handler's argument.             *)
Main == -1
Junk == -2
Code == {Main, Junk} \cup Sigs
NoContext == [fn |-> Main, a0 |-> 0]
Context == [fn : Code, a0 : Sigs \cup {-1}]

VARIABLES
  pending,   \* p->pending_signals, as a set of signal numbers
  handlers,  \* p->signal_handlers
  handling,  \* p->is_handling_signal
  killed,    \* p->killed
  tf,        \* *p->trapframe
  sigtf,     \* *p->sig_tf
  plock,     \* who holds p->lock
  pc,        \* where p is
  reg,       \* the pending_signals word p has loaded and not yet stored
  i,         \* loop index of usertrap(); signal number of kkill()
  target,    \* the process p is sending a signal to
  mainline   \* history: the context that p's active handler interrupted

mem == <<pending, handlers, handling, killed, tf, sigtf, plock>>
local == <<pc, reg, i, target>>
vars == <<mem, local, mainline>>

PCs == {"user",    \* in user space
        "pause",   \* sys_pause(): at the head of its loop
        "dozing",  \* sys_pause(): not killed, on the way into sleep(&ticks)
        "asleep",  \* sys_pause(): SLEEPING in sleep(&ticks)
        "kstore",  \* kkill(): target's lock held, word loaded
        "return",  \* usertrap(): system call or interrupt done
        "scan",    \* usertrap(): at iteration i of the loop
        "clrign",  \* usertrap(): SIG_IGN, word loaded
        "clrfn",   \* usertrap(): handler set up, word loaded
        "last",    \* usertrap(): the final killed() check
        "dead"}    \* kexit()

Set(f, p, v) == [f EXCEPT ![p] = v]
Goto(p, l) == pc' = Set(pc, p, l)

(* The local variables of a function that returns are dead. *)
Forget(p) == reg' = Set(reg, p, {}) /\ i' = Set(i, p, 0)

Init ==
  /\ pending = [p \in Procs |-> {}]
  /\ handlers = [p \in Procs |-> [s \in Sigs |-> "SIG_DFL"]]
  /\ handling = [p \in Procs |-> FALSE]
  /\ killed = [p \in Procs |-> FALSE]
  /\ tf = [p \in Procs |-> [fn |-> Main, a0 |-> 0]]
  /\ sigtf = [p \in Procs |-> [fn |-> Junk, a0 |-> 0]]
  /\ plock = [p \in Procs |-> Nobody]
  /\ pc = [p \in Procs |-> "user"]
  /\ reg = [p \in Procs |-> {}]
  /\ i = [p \in Procs |-> 0]
  /\ target = [p \in Procs |-> p]
  /\ mainline = [p \in Procs |-> NoContext]

-----------------------------------------------------------------------------
(* Traps from user space.  A killed process does not get past usertrap()'s *)
(* first killed() check; syscall() stores the result in a0.                *)

Result(p, r) == tf' = Set(tf, p, [tf[p] EXCEPT !.a0 = r])

(* A plausible bug: a process is not killed while it runs a handler. *)
KilledInMain(p) == killed[p] /\ ~handling[p]

Killed(p) == killed[p]

Dies(p) ==
  /\ pc[p] \in {"user", "return", "last"}
  /\ Killed(p)
  /\ Goto(p, "dead")
  /\ UNCHANGED <<mem, reg, i, target, mainline>>

Trapped(p) == pc[p] = "user" /\ ~Killed(p)

(* The timer, or a system call that touches nothing modelled here. *)
Interrupt(p) ==
  /\ Trapped(p)
  /\ Goto(p, "return")
  /\ UNCHANGED <<mem, reg, i, target, mainline>>

(* Executing junk faults: usertrap() calls setkilled(). *)
Fault(p) ==
  /\ Trapped(p)
  /\ tf[p].fn = Junk
  /\ plock[p] = Nobody
  /\ killed' = Set(killed, p, TRUE)
  /\ Goto(p, "return")
  /\ UNCHANGED <<pending, handlers, handling, tf, sigtf, plock, reg, i, target,
                 mainline>>

Calls(p) == Trapped(p) /\ tf[p].fn # Junk

(* signal(s, h) *)
SysSignal(p, s, h) ==
  /\ Calls(p)
  /\ IF s = SIGKILL
     THEN /\ Result(p, -1)
          /\ UNCHANGED handlers
     ELSE /\ plock[p] = Nobody
          /\ handlers' = [handlers EXCEPT ![p][s] = h]
          /\ Result(p, 0)
  /\ Goto(p, "return")
  /\ UNCHANGED <<pending, handling, killed, sigtf, plock, reg, i, target, mainline>>

(* A plausible bug: sigreturn() reports success in the restored a0. *)
SigreturnZero(p) ==
  /\ Calls(p)
  /\ tf' = Set(tf, p, [sigtf[p] EXCEPT !.a0 = 0])
  /\ handling' = Set(handling, p, FALSE)
  /\ Goto(p, "return")
  /\ mainline' = Set(mainline, p, NoContext)
  /\ UNCHANGED <<pending, handlers, killed, sigtf, plock, reg, i, target>>

(* sigreturn(): restore the trapframe; the result of the call is the       *)
(* restored a0, so syscall() does not change it.                           *)
SysSigreturn(p) ==
  /\ Calls(p)
  /\ tf' = Set(tf, p, sigtf[p])
  /\ handling' = Set(handling, p, FALSE)
  /\ Goto(p, "return")
  /\ mainline' = Set(mainline, p, NoContext)
  /\ UNCHANGED <<pending, handlers, killed, sigtf, plock, reg, i, target>>

(* pause(n): the loop sleeps on &ticks until enough ticks have gone by,    *)
(* and gives up when it finds the process killed.  tickslock is held from  *)
(* the test of killed until sleep() has p->lock.                           *)
SysPause(p) ==
  /\ Calls(p)
  /\ Goto(p, "pause")
  /\ UNCHANGED <<mem, reg, i, target, mainline>>

NobodyDozes == \A p \in Procs : pc[p] # "dozing"

PauseEnds(p) ==
  /\ pc[p] = "pause" /\ NobodyDozes
  /\ Result(p, 0) \/ (Killed(p) /\ Result(p, -1))
  /\ Goto(p, "return")
  /\ UNCHANGED <<pending, handlers, handling, killed, sigtf, plock, reg, i, target,
                 mainline>>

PauseGoesOn(p) ==
  /\ pc[p] = "pause" /\ NobodyDozes
  /\ ~Killed(p)
  /\ Goto(p, "dozing")
  /\ UNCHANGED <<mem, reg, i, target, mainline>>

(* sleep() does not look at killed again: a kill() since the test is seen  *)
(* when the next tick ends the sleep.                                      *)
PauseSleeps(p) ==
  /\ pc[p] = "dozing"
  /\ plock[p] = Nobody
  /\ Goto(p, "asleep")
  /\ UNCHANGED <<mem, reg, i, target, mainline>>

(* clockintr(): with tickslock, wakeup(&ticks). *)
Tick ==
  /\ NobodyDozes
  /\ \E p \in Procs : pc[p] = "asleep"
  /\ pc' = [p \in Procs |-> IF pc[p] = "asleep" THEN "pause" ELSE pc[p]]
  /\ UNCHANGED <<mem, reg, i, target, mainline>>

-----------------------------------------------------------------------------
(* kill(q, s): the loop of kkill() has found q and holds its lock. *)

KillLoad(p, q, s) ==
  /\ Calls(p)
  /\ pc[q] # "dead"
  /\ plock[q] = Nobody
  /\ plock' = Set(plock, q, p)
  /\ reg' = Set(reg, p, pending[q])
  /\ i' = Set(i, p, s)
  /\ target' = Set(target, p, q)
  /\ Goto(p, "kstore")
  /\ UNCHANGED <<pending, handlers, handling, killed, tf, sigtf, mainline>>

(* pending_signals |= 1 << signum, killed for SIGKILL, an end to its sleep. *)
KillStore(p) ==
  LET q == target[p]  s == i[p] IN
  /\ pc[p] = "kstore"
  /\ pending' = Set(pending, q, reg[p] \cup {s})
  /\ killed' = Set(killed, q, killed[q] \/ s = SIGKILL)
  /\ plock' = Set(plock, q, Nobody)
  /\ Result(p, 0)
  /\ pc' = [pc EXCEPT ![p] = "return", ![q] = IF @ = "asleep" THEN "pause" ELSE @]
  /\ Forget(p)
  /\ UNCHANGED <<handlers, handling, sigtf, target, mainline>>

(* No process has that pid, or the signal number is out of range. *)
KillNobody(p) ==
  /\ Calls(p)
  /\ Result(p, -1)
  /\ Goto(p, "return")
  /\ UNCHANGED <<pending, handlers, handling, killed, sigtf, plock, reg, i, target,
                 mainline>>

-----------------------------------------------------------------------------
(* The end of usertrap(). *)

(* A plausible bug: the re-entrancy guard is not looked at. *)
CheckPendingAlways(p) ==
  /\ pc[p] = "return"
  /\ ~Killed(p)
  /\ IF pending[p] # {}
     THEN i' = Set(i, p, 0) /\ Goto(p, "scan")
     ELSE Goto(p, "last") /\ UNCHANGED i
  /\ UNCHANGED <<mem, reg, target, mainline>>

(* Signals are looked at only if there is one and no handler is active. *)
CheckPending(p) ==
  /\ pc[p] = "return"
  /\ ~Killed(p)
  /\ IF pending[p] # {} /\ ~handling[p]
     THEN i' = Set(i, p, 0) /\ Goto(p, "scan")
     ELSE Goto(p, "last") /\ UNCHANGED i
  /\ UNCHANGED <<mem, reg, target, mainline>>

(* A plausible bug: the loop runs to NSIG itself. *)
AdvanceTooFar(p) ==
  IF i[p] + 1 <= NSIG
  THEN i' = Set(i, p, i[p] + 1) /\ Goto(p, "scan")
  ELSE Goto(p, "last") /\ i' = Set(i, p, 0)

(* Next iteration of the loop over 0 .. NSIG-1, or its end. *)
Advance(p) ==
  IF i[p] + 1 < NSIG
  THEN i' = Set(i, p, i[p] + 1) /\ Goto(p, "scan")
  ELSE Goto(p, "last") /\ i' = Set(i, p, 0)

Scans(p, d) ==
  /\ pc[p] = "scan"
  /\ i[p] \in pending[p]
  /\ handlers[p][i[p]] = d

ScanNext(p) ==
  /\ pc[p] = "scan"
  /\ i[p] \notin pending[p]
  /\ Advance(p)
  /\ UNCHANGED <<mem, reg, target, mainline>>

(* SIG_DFL: setkilled(p), and out of the loop. *)
DefaultAction(p) ==
  /\ Scans(p, "SIG_DFL")
  /\ plock[p] = Nobody
  /\ killed' = Set(killed, p, TRUE)
  /\ Goto(p, "last")
  /\ Forget(p)
  /\ UNCHANGED <<pending, handlers, handling, tf, sigtf, plock, target, mainline>>

(* SIG_IGN: pending_signals &= ~(1 << i), not under p->lock; continue. *)
IgnoreLoad(p) ==
  /\ Scans(p, "SIG_IGN")
  /\ reg' = Set(reg, p, pending[p])
  /\ Goto(p, "clrign")
  /\ UNCHANGED <<mem, i, target, mainline>>

(* A plausible bug: break where the code has continue. *)
IgnoreThenBreak(p) ==
  /\ pc[p] = "clrign"
  /\ pending' = Set(pending, p, reg[p] \ {i[p]})
  /\ Goto(p, "last")
  /\ Forget(p)
  /\ UNCHANGED <<handlers, handling, killed, tf, sigtf, plock, target, mainline>>

IgnoreStore(p) ==
  /\ pc[p] = "clrign"
  /\ pending' = Set(pending, p, reg[p] \ {i[p]})
  /\ Advance(p)
  /\ reg' = Set(reg, p, {})
  /\ UNCHANGED <<handlers, handling, killed, tf, sigtf, plock, target, mainline>>

(* A handler: back up the trapframe, make it enter the handler with the    *)
(* signal number, and load the word to clear the signal's bit in it.       *)
Deliver(p) ==
  /\ Scans(p, "handler")
  /\ sigtf' = Set(sigtf, p, tf[p])
  /\ handling' = Set(handling, p, TRUE)
  /\ tf' = Set(tf, p, [fn |-> i[p], a0 |-> i[p]])
  /\ reg' = Set(reg, p, pending[p])
  /\ mainline' = IF handling[p] THEN mainline ELSE Set(mainline, p, tf[p])
  /\ Goto(p, "clrfn")
  /\ UNCHANGED <<pending, handlers, killed, plock, i, target>>

DeliverStore(p) ==
  /\ pc[p] = "clrfn"
  /\ pending' = Set(pending, p, reg[p] \ {i[p]})
  /\ Goto(p, "last")
  /\ Forget(p)
  /\ UNCHANGED <<handlers, handling, killed, tf, sigtf, plock, target, mainline>>

(* Still not killed: prepare_return() and back to user space. *)
ReturnToUser(p) ==
  /\ pc[p] = "last"
  /\ ~Killed(p)
  /\ Goto(p, "user")
  /\ UNCHANGED <<mem, reg, i, target, mainline>>

-----------------------------------------------------------------------------
Kernel(p) ==
  \/ Dies(p) \/ Fault(p)
  \/ PauseEnds(p) \/ PauseSleeps(p)
  \/ KillStore(p)
  \/ CheckPending(p) \/ ScanNext(p) \/ DefaultAction(p)
  \/ IgnoreLoad(p) \/ IgnoreStore(p)
  \/ Deliver(p) \/ DeliverStore(p)
  \/ ReturnToUser(p)

System(p) ==
  \/ /\ p \in Targets
     /\ \/ \E s \in Sigs, h \in Dispositions : SysSignal(p, s, h)
        \/ SysSigreturn(p)
        \/ SysPause(p)
  \/ PauseGoesOn(p)
  \/ \E q \in Targets, s \in Sigs : KillLoad(p, q, s)
  \/ KillNobody(p)

Next == Tick \/ \E p \in Procs : Interrupt(p) \/ Kernel(p) \/ System(p)

(***************************************************************************)
(* Fairness: the kernel code of a process runs on (acquire(&p->lock) of    *)
(* its own lock is contended only in passing), the timer interrupts user   *)
(* code and ticks go on, and enough of them end a pause.                   *)
(***************************************************************************)
Fairness ==
  /\ WF_vars(Tick)
  /\ \A p \in Procs :
       /\ SF_vars(Kernel(p) /\ pc[p] # "pause")
       /\ SF_vars(PauseEnds(p))
       /\ WF_vars(Interrupt(p))

Safety == Init /\ [][Next]_vars
Spec == Safety /\ Fairness

-----------------------------------------------------------------------------
(* Properties *)

TypeOK ==
  /\ pending \in [Procs -> SUBSET Sigs]
  /\ handlers \in [Procs -> [Sigs -> Dispositions]]
  /\ handling \in [Procs -> BOOLEAN]
  /\ killed \in [Procs -> BOOLEAN]
  /\ tf \in [Procs -> Context]
  /\ sigtf \in [Procs -> Context]
  /\ plock \in [Procs -> Procs \cup {Nobody}]
  /\ pc \in [Procs -> PCs]
  /\ reg \in [Procs -> SUBSET Sigs]
  /\ i \in [Procs -> Sigs]
  /\ target \in [Procs -> Procs]
  /\ mainline \in [Procs -> Context]

(* A handler is invisible to the program it interrupts: the sigreturn that *)
(* ends it puts back the main program's context, all registers included    *)
(* (the result of an interrupted system call is in a0), whatever signals   *)
(* arrived meanwhile.                                                      *)
HandlerIsTransparent ==
  [][\A p \in Procs : handling[p] /\ ~handling'[p] => tf'[p] = mainline[p]]_vars

(* Handlers do not nest: user code runs a handler only under the guard.    *)
HandlersDoNotNest ==
  \A p \in Procs :
    /\ tf[p].fn \in Sigs => handling[p]
    /\ handling[p] => sigtf[p].fn \notin Sigs

(* The inductive invariant behind both: the code that usertrap() backs up  *)
(* is never a handler, its backup is what the handler interrupted, and the *)
(* loop over the signals runs only with the re-entrancy guard down.        *)
HandlerInv ==
  \A p \in Procs :
    /\ tf[p].fn \in Sigs => handling[p]
    /\ sigtf[p].fn \notin Sigs
    /\ handling[p] => sigtf[p] = mainline[p]
    /\ pc[p] \in {"scan", "clrign"} => ~handling[p]

(* kill(pid, SIGKILL), or a default action, ends a victim that is in user  *)
(* space, in usertrap(), in kill() or in pause(): no handler, no further   *)
(* signal and no sleep on &ticks keeps it alive, also when it is killed    *)
(* between sys_pause()'s test and its sleep.  It says nothing of a victim  *)
(* in sys_sem_wait(), whose loop does not test killed.                     *)
KilledDies == \A p \in Targets : killed[p] ~> pc[p] = "dead"

(* A pending signal does not starve behind others: it is taken from        *)
(* pending_signals, or the process is in a handler, or it dies.            *)
PendingIsActedOn ==
  \A p \in Targets, s \in Sigs :
    s \in pending[p] ~> (s \notin pending[p] \/ handling[p] \/ pc[p] = "dead")

(* What proc.h supposes of pending_signals when it lists it with the       *)
(* fields that are "private to the process, so p->lock need not be held":  *)
(* a signal stays pending until its target has acted on that very signal.  *)
NoSignalLost ==
  [][\A p \in Procs : \A s \in pending[p] \ pending'[p] :
       pc[p] \in {"clrign", "clrfn"} /\ i[p] = s]_vars
=============================================================================
