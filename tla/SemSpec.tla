------------------------------ MODULE SemSpec ------------------------------
(***************************************************************************)
(* What the counting semaphores of kernel/sysproc.c promise a program,     *)
(* without locks, sleeping or CPUs: a wait asks for a unit of a semaphore  *)
(* and is granted one when there is one, a post adds one.                  *)
(***************************************************************************)
EXTENDS Naturals

CONSTANTS
  Users,      \* the processes that call sem_wait and sem_post
  Sems,       \* the semaphores
  InitCount,  \* their initial count
  MaxCount,   \* bound on the count, so that the state space is finite
  Idle        \* a process that is not waiting

VARIABLES
  units,      \* units[s]: what sem_wait may still hand out
  want        \* want[p]: the semaphore p is waiting for, or Idle

specVars == <<units, want>>

Init ==
  /\ units = [s \in Sems |-> InitCount]
  /\ want = [p \in Users |-> Idle]

Ask(p, s) ==
  /\ want[p] = Idle
  /\ want' = [want EXCEPT ![p] = s]
  /\ UNCHANGED units

Grant(p, s) ==
  /\ want[p] = s
  /\ units[s] > 0
  /\ units' = [units EXCEPT ![s] = @ - 1]
  /\ want' = [want EXCEPT ![p] = Idle]

Post(p, s) ==
  /\ want[p] = Idle
  /\ units[s] < MaxCount
  /\ units' = [units EXCEPT ![s] = @ + 1]
  /\ UNCHANGED want

Next == \E p \in Users, s \in Sems : Ask(p, s) \/ Grant(p, s) \/ Post(p, s)

(* A unit that somebody wants does not lie about for ever. *)
Fairness == \A s \in Sems : WF_specVars(\E p \in Users : Grant(p, s))

Safety == Init /\ [][Next]_specVars
Spec == Safety /\ Fairness
=============================================================================
