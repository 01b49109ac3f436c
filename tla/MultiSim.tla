------------------------------ MODULE MultiSim ------------------------------
(***************************************************************************)
(* The multiprocessor scheduling simulators of Project 2: EDF and MLFQ of  *)
(* Bhanu, round robin, EDF and MLFQ of Aryan, lottery and RMS of Ayush.    *)
(*                                                                         *)
(* All seven have one shape: each clock cycle begins (with a boost, in     *)
(* MLFQ), then a loop over the CPUs (in RMS first one over the ready       *)
(* processes) hands out CPUs, then a loop over the CPUs runs one tick of   *)
(* every process that has one.  A step is one iteration of such a loop.    *)
(* Processes and CPUs are numbered from 1, and 0 stands for the -1 of an   *)
(* idle CPU.                                                               *)
(***************************************************************************)
EXTENDS Integers, Sequences, FiniteSets, Orders, Updates

CONSTANT Simulations  \* the calls of run_xxx(): records [policy, cpus, quantum, table]

Policies == {"bhanu_edf", "bhanu_mlfq", "aryan_rr", "aryan_edf", "aryan_mlfq",
             "ayush_lottery", "ayush_rms"}

(* A process needs the CPU for a while; periods and tickets are positive. *)
ASSUME MsAssumption ==
  \A s \in Simulations :
    /\ s.policy \in Policies /\ s.cpus \in Nat \ {0} /\ s.quantum \in Nat
    /\ s.table \in Seq([arrival : Nat, burst : Nat \ {0}, key : Nat \ {0}])

VARIABLES
  sim,       \* policy, number of CPUs, user's time quantum and process table
  tstate,    \* processes[p].state
  remaining, \* processes[p].remaining_time
  level,     \* processes[p].priority_level
  start,     \* processes[p].start_time
  finish,    \* processes[p].completion_time
  cpu_id,    \* processes[p].cpu_id
  current,   \* cpus[i].current_process_id
  quantum,   \* cpus[i].time_quantum_left
  clock,     \* cycle, current_time
  phase,     \* the loop the simulator is in
  todo,      \* what that loop has still to look at
  wild,      \* whether processes[-1] was used
  waited     \* history: cycles for which p was ready and not running

taskVars == <<tstate, remaining, level, start, finish, cpu_id>>
cpuVars == <<current, quantum>>
msVars == <<sim, taskVars, cpuVars, clock, phase, todo, wild, waited>>

Ps == DOMAIN sim.table
CPUs == 1 .. sim.cpus
Loop(n) == [i \in 1 .. n |-> i]

Mlfq == {"bhanu_mlfq", "aryan_mlfq"}
Edf == {"bhanu_edf", "aryan_edf"}
LEVELS == 3
BOOST_CYCLE == IF sim.policy = "bhanu_mlfq" THEN 30 ELSE 20
TQ(l) == IF l = 0 THEN 4 ELSE IF l = 1 THEN 8 ELSE 100000

MsInit ==
  /\ sim \in Simulations
  /\ tstate = [p \in Ps |-> "ready"]
  /\ remaining = [p \in Ps |-> sim.table[p].burst]
  /\ level = [p \in Ps |-> 0]
  /\ start = [p \in Ps |-> -1]
  /\ finish = [p \in Ps |-> 0]
  /\ cpu_id = [p \in Ps |-> 0]
  /\ current = [i \in CPUs |-> 0]
  /\ quantum = [i \in CPUs |-> 0]
  /\ clock = 0
  /\ phase = "menu"
  /\ todo = <<>>
  /\ wild = FALSE
  /\ waited = [p \in Ps |-> 0]

-----------------------------------------------------------------------------
(* A plausible bug: a process is ready only as it arrives. *)
ReadyOnTime == {p \in Ps : tstate[p] = "ready" /\ sim.table[p].arrival = clock}

Ready == {p \in Ps : tstate[p] = "ready" /\ sim.table[p].arrival <= clock}

(* Smaller is better.  The key of the table is a deadline or a period. *)
Rank(p) == IF sim.policy \in Mlfq THEN level[p] ELSE sim.table[p].key

Before(p, q) == Rank(p) < Rank(q) \/ (Rank(p) = Rank(q) /\ p < q)

ByRank == {x \in Ps \X Ps : Before(x[1], x[2])}

(* The scans take the first of the best. *)
Best == CHOOSE p \in Ready : \A q \in Ready \ {p} : Before(p, q)

First == CHOOSE p \in Ready : \A q \in Ready : p <= q

(* CPU i is given to p; who had it is ready again. *)
Place(i, p) ==
  /\ tstate' = [q \in Ps |-> IF q = p THEN "running"
                             ELSE IF q = current[i] THEN "ready" ELSE tstate[q]]
  /\ current' = Put(current, i, p)
  /\ cpu_id' = Put(cpu_id, p, i)
  /\ start' = IF start[p] = -1 THEN Put(start, p, clock) ELSE start
  /\ quantum' =
       CASE sim.policy \in Mlfq -> Put(quantum, i, TQ(level[p]))
         [] sim.policy = "aryan_rr" -> Put(quantum, i, sim.quantum)
         [] sim.policy = "ayush_lottery" -> Put(quantum, i, 4)
         [] OTHER -> quantum
  /\ UNCHANGED <<remaining, level, finish>>

Done(i) == todo # <<>> /\ Head(todo) = i /\ todo' = Tail(todo)

Assigning(i) ==
  /\ phase = "assign" /\ Done(i)
  /\ UNCHANGED <<sim, clock, phase, waited>>

Skip == UNCHANGED <<taskVars, cpuVars, wild>>

-----------------------------------------------------------------------------
(* A cycle begins. *)

Boosted == sim.policy \in Mlfq /\ clock > 0 /\ clock % BOOST_CYCLE = 0

BeginCycle ==
  /\ phase \in {"menu", "begin"}
  /\ IF Boosted
       THEN /\ level' = [p \in Ps |-> IF tstate[p] = "finished" THEN level[p] ELSE 0]
            /\ quantum' = [i \in CPUs |-> IF \E p \in Ps : tstate[p] = "running" /\ cpu_id[p] = i
                                          THEN TQ(0) ELSE quantum[i]]
       ELSE UNCHANGED <<level, quantum>>
  /\ IF sim.policy = "ayush_rms"
       THEN phase' = "preempt" /\ todo' = InOrder(Ready, ByRank)
       ELSE phase' = "assign" /\ todo' = Loop(sim.cpus)
  /\ UNCHANGED <<sim, tstate, remaining, start, finish, cpu_id, current, clock, wild, waited>>

(* A plausible bug: the process in the CPU is not compared. *)
AssignBestAlways(i) ==
  /\ sim.policy \in {"bhanu_edf", "bhanu_mlfq"}
  /\ Assigning(i)
  /\ IF Ready # {}
       THEN Place(i, Best) /\ UNCHANGED wild
       ELSE Skip

(* Bhanu: an idle CPU, or one whose process is not as good, takes the best. *)
AssignBest(i) ==
  /\ sim.policy \in {"bhanu_edf", "bhanu_mlfq"}
  /\ Assigning(i)
  /\ IF Ready # {} /\ (current[i] = 0 \/ Rank(Best) < Rank(current[i]))
       THEN Place(i, Best) /\ UNCHANGED wild
       ELSE Skip

(* Aryan's round robin: an idle CPU takes the first ready process of the   *)
(* table.                                                                  *)
AssignFirst(i) ==
  /\ sim.policy = "aryan_rr"
  /\ Assigning(i)
  /\ IF current[i] = 0 /\ Ready # {} THEN Place(i, First) /\ UNCHANGED wild ELSE Skip

(* Aryan's EDF: an idle CPU takes the best; so it does, in RMS, after the  *)
(* preemptions.                                                            *)
AssignIdle(i) ==
  /\ sim.policy \in {"aryan_edf", "ayush_rms"}
  /\ Assigning(i)
  /\ IF current[i] = 0 /\ Ready # {} THEN Place(i, Best) /\ UNCHANGED wild ELSE Skip

(* Aryan's MLFQ tests best_priority, which is never -1: the branch that    *)
(* preempts is never taken, and an idle CPU for which no process is ready  *)
(* takes number -1.  What the writes to processes[-1] hit is undefined:    *)
(* the simulator goes on with the CPU idle, or crashes.                    *)
AssignUntested(i) ==
  /\ sim.policy = "aryan_mlfq"
  /\ phase = "assign" /\ Done(i)
  /\ IF current[i] # 0 THEN Skip /\ UNCHANGED phase
     ELSE IF Ready # {} THEN Place(i, Best) /\ UNCHANGED <<wild, phase>>
     ELSE /\ wild' = TRUE
          /\ phase' \in {"assign", "crashed"}
          /\ UNCHANGED <<taskVars, cpuVars>>
  /\ UNCHANGED <<sim, clock, waited>>

(* Ayush's lottery: an idle CPU draws among the tickets of ready processes. *)
AssignWinner(i) ==
  /\ sim.policy = "ayush_lottery"
  /\ Assigning(i)
  /\ \/ current[i] = 0 /\ \E p \in Ready : sim.table[p].key > 0 /\ Place(i, p) /\ UNCHANGED wild
     \/ (current[i] # 0 \/ \A p \in Ready : sim.table[p].key = 0) /\ Skip

(* Ayush's RMS: a ready process takes an idle CPU or that of the process   *)
(* with the longest period, the first in each case.                        *)
Idle == {i \in CPUs : current[i] = 0}
LongestPeriod ==
  CHOOSE i \in CPUs : \A j \in CPUs :
    \/ sim.table[current[j]].key < sim.table[current[i]].key
    \/ sim.table[current[j]].key = sim.table[current[i]].key /\ i <= j

Target == IF Idle # {} THEN CHOOSE i \in Idle : \A j \in Idle : i <= j ELSE LongestPeriod

Preempt(p) ==
  /\ phase = "preempt" /\ Done(p)
  /\ IF Idle # {} \/ Rank(p) < Rank(current[Target])
       THEN Place(Target, p) /\ UNCHANGED wild
       ELSE Skip
  /\ UNCHANGED <<sim, clock, phase, waited>>

Preempted ==
  /\ phase = "preempt" /\ todo = <<>>
  /\ phase' = "assign" /\ todo' = Loop(sim.cpus)
  /\ UNCHANGED <<sim, taskVars, cpuVars, clock, wild, waited>>

-----------------------------------------------------------------------------
(* One tick is run. *)

Assigned ==
  /\ phase = "assign" /\ todo = <<>>
  /\ waited' = [p \in Ps |-> IF p \in Ready THEN waited[p] + 1 ELSE waited[p]]
  /\ phase' = "run" /\ todo' = Loop(sim.cpus)
  /\ UNCHANGED <<sim, taskVars, cpuVars, clock, wild>>

Sliced(p) ==
  \/ sim.policy \in {"aryan_rr", "ayush_lottery"}
  \/ sim.policy \in Mlfq /\ level[p] < LEVELS - 1

(* A plausible bug: the process is complete at the start of the tick. *)
RunTickEarly(i) ==
  LET p == current[i]  ends == remaining[p] = 1
      expires == ~ends /\ Sliced(p) /\ quantum[i] - 1 = 0 IN
  /\ phase = "run" /\ Done(i) /\ p # 0
  /\ remaining' = Decr(remaining, p)
  /\ quantum' = IF Sliced(p) THEN Decr(quantum, i) ELSE quantum
  /\ finish' = IF ends THEN Put(finish, p, clock) ELSE finish
  /\ tstate' = IF ends THEN Put(tstate, p, "finished")
               ELSE IF expires THEN Put(tstate, p, "ready") ELSE tstate
  /\ level' = IF expires /\ sim.policy \in Mlfq THEN Incr(level, p) ELSE level
  /\ current' = IF ends \/ expires THEN Put(current, i, 0) ELSE current
  /\ UNCHANGED <<sim, start, cpu_id, clock, phase, wild, waited>>

RunTick(i) ==
  LET p == current[i] IN
  /\ phase = "run" /\ Done(i) /\ p # 0
  /\ LET ends == remaining[p] = 1
         expires == ~ends /\ Sliced(p) /\ quantum[i] - 1 = 0 IN
     /\ remaining' = Decr(remaining, p)
     /\ quantum' = IF Sliced(p) THEN Decr(quantum, i) ELSE quantum
     /\ finish' = IF ends THEN Put(finish, p, clock + 1) ELSE finish
     /\ tstate' = IF ends THEN Put(tstate, p, "finished")
                  ELSE IF expires THEN Put(tstate, p, "ready") ELSE tstate
     /\ level' = IF expires /\ sim.policy \in Mlfq THEN Incr(level, p) ELSE level
     /\ current' = IF ends \/ expires THEN Put(current, i, 0) ELSE current
  /\ UNCHANGED <<sim, start, cpu_id, clock, phase, wild, waited>>

RunIdle(i) ==
  /\ phase = "run" /\ Done(i) /\ current[i] = 0
  /\ UNCHANGED <<sim, taskVars, cpuVars, clock, phase, wild, waited>>

EndCycle ==
  /\ phase = "run" /\ todo = <<>>
  /\ clock' = clock + 1
  /\ phase' = IF \A p \in Ps : tstate[p] = "finished" THEN "done" ELSE "begin"
  /\ UNCHANGED <<sim, taskVars, cpuVars, todo, wild, waited>>

-----------------------------------------------------------------------------
(* The seven simulators *)

Cycles ==
  BeginCycle \/ Assigned \/ EndCycle \/ \E i \in CPUs : RunTick(i) \/ RunIdle(i)

BhanuEdf == sim.policy = "bhanu_edf" /\ (Cycles \/ \E i \in CPUs : AssignBest(i))

BhanuMlfq == sim.policy = "bhanu_mlfq" /\ (Cycles \/ \E i \in CPUs : AssignBest(i))

AryanRr == sim.policy = "aryan_rr" /\ (Cycles \/ \E i \in CPUs : AssignFirst(i))

AryanEdf == sim.policy = "aryan_edf" /\ (Cycles \/ \E i \in CPUs : AssignIdle(i))

AryanMlfq == sim.policy = "aryan_mlfq" /\ (Cycles \/ \E i \in CPUs : AssignUntested(i))

AyushLottery == sim.policy = "ayush_lottery" /\ (Cycles \/ \E i \in CPUs : AssignWinner(i))

AyushRms ==
  /\ sim.policy = "ayush_rms"
  /\ Cycles \/ Preempted \/ \E p \in Ps : Preempt(p) \/ \E i \in CPUs : AssignIdle(i)

MsNext ==
  BhanuEdf \/ BhanuMlfq \/ AryanRr \/ AryanEdf \/ AryanMlfq \/ AyushLottery \/ AyushRms

(* The final table *)
Turnaround(p) == finish[p] - sim.table[p].arrival
Waiting(p) == Turnaround(p) - sim.table[p].burst

MsSpec == MsInit /\ [][MsNext]_msVars

-----------------------------------------------------------------------------
(* Properties *)

(* The simulators whose loops compare a running process with those that    *)
(* wait; Aryan's EDF and MLFQ do not (see NearestDeadlineRuns).            *)
Preemptive == {"bhanu_edf", "bhanu_mlfq", "ayush_rms"}

TickBegins == phase = "run" /\ Len(todo) = sim.cpus

(* While a tick is run, no CPU is idle with a process ready, no process is *)
(* in two CPUs, and in Bhanu's EDF and MLFQ and Ayush's RMS no process     *)
(* that waits is better than one that runs: their loops compare each CPU   *)
(* or process with the best of that moment only, and who was preempted is  *)
(* ready again for the CPUs that follow.                                   *)
BestRun ==
  /\ \A p \in Ps : tstate[p] = "running" <=> \E i \in CPUs : current[i] = p /\ cpu_id[p] = i
  /\ \A i, j \in CPUs : current[i] = current[j] /\ current[i] # 0 => i = j
  /\ TickBegins =>
       \A p \in Ready, i \in CPUs :
         current[i] # 0 /\ (sim.policy \in Preemptive => Rank(current[i]) <= Rank(p))

(* What the README of Project 2 says of EDF, whoever implements it: it is  *)
(* preemptive, by deadline.  No process with a nearer deadline waits while *)
(* another runs.                                                           *)
NearestDeadlineRuns ==
  sim.policy \in Edf /\ TickBegins =>
    \A p \in Ready, i \in CPUs : current[i] # 0 => Rank(current[i]) <= Rank(p)

(* The waiting time that the final table shows is the number of cycles     *)
(* that the process was ready without a CPU.                               *)
WaitingIsWaited == phase = "done" => \A p \in Ps : waited[p] = Waiting(p)
=============================================================================
