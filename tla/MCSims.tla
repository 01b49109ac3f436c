------------------------------- MODULE MCSims -------------------------------
(***************************************************************************)
(* An instance of the simulators of Project 2.  `machine' tells which kind *)
(* runs; the other keeps its first state.                                  *)
(***************************************************************************)
EXTENDS MultiSim, UniSim, FiniteSetsExt

VARIABLE machine

simVars == <<machine, msVars, usVars>>

Row(a, b, k) == [arrival |-> a, burst |-> b, key |-> k]

(* The tables of reset_processes(). *)
Arrivals == <<0, 1, 2, 5, 8, 10, 12, 15, 20, 22, 25, 30, 35, 40, 45, 50, 55, 60, 65, 70>>
Bursts == <<8, 25, 3, 12, 2, 40, 5, 6, 15, 4, 8, 50, 2, 9, 3, 18, 5, 7, 22, 4>>
Deadlines ==
  <<15, 60, 10, 30, 12, 100, 25, 30, 50, 30, 40, 150, 40, 60, 50, 80, 65, 75, 100, 80>>
Periods ==
  <<20, 80, 10, 40, 15, 120, 25, 30, 50, 20, 35, 150, 12, 45, 18, 70, 22, 30, 100, 16>>
Table(keys) == [p \in 1 .. 20 |-> Row(Arrivals[p], Bursts[p], keys[p])]

Simulation(policy, cpus, table) ==
  [policy |-> policy, cpus |-> cpus, quantum |-> 4, table |-> table]

(* The runs that the programs offer, and short ones with ties and gaps. *)
Offered ==
  {Simulation(x, 2, Table(Deadlines)) : x \in {"bhanu_edf", "bhanu_mlfq"}}
  \cup {Simulation(x, n, Table(Deadlines)) :
          x \in {"aryan_rr", "aryan_edf", "aryan_mlfq"}, n \in {1, 2, 4}}
  \cup {Simulation("ayush_rms", 2, Table(Periods))}

Short ==
  {Simulation(x, 2, [p \in 1 .. 3 |-> Row(a[p], b[p], k[p])]) :
     x \in Policies, a \in {<<0, 0, 1>>, <<0, 2, 7>>},
     b \in [1 .. 3 -> {1, 5}], k \in [1 .. 3 -> {1, 2}]}

(* A simulation of one process, for the kinds that stand still *)
OneRow == <<Row(0, 1, 1)>>
OneSim == Simulation("aryan_rr", 1, OneRow)
OneInput == [program |-> "shajith_lottery", quantum |-> <<1, 2, 2>>, total_time |-> 1, table |-> OneRow]

MCSimulations == Offered \cup Short \cup {OneSim}

MCInputs ==
  {[program |-> x, quantum |-> <<1, 2, 2>>, total_time |-> 12,
    table |-> [i \in 1 .. 3 |-> Row(a[i], b[i], k[i])]] :
     x \in Programs, a \in {<<0, 0, 1>>, <<0, 2, 5>>, <<2, 0, 3>>},
     b \in [1 .. 3 -> {1, 3}], k \in {<<2, 3, 5>>, <<4, 3, 3>>}} \cup {OneInput}

SimsInit ==
  /\ machine \in {"multi", "uni"}
  /\ MsInit /\ (machine # "multi" => sim = OneSim)
  /\ UsInit /\ (machine # "uni" => input = OneInput)

Multi(A) == machine = "multi" /\ A /\ UNCHANGED <<machine, usVars>>
Uni(A) == machine = "uni" /\ A /\ UNCHANGED <<machine, msVars>>

(* MsNext or UsNext, action by action. *)
SimsNext ==
  \/ Multi(BeginCycle) \/ Multi(Preempted) \/ Multi(Assigned) \/ Multi(EndCycle)
  \/ \E i \in CPUs : Multi(AssignBest(i))
  \/ \E i \in CPUs : Multi(AssignFirst(i))
  \/ \E i \in CPUs : Multi(AssignIdle(i))
  \/ \E i \in CPUs : Multi(AssignUntested(i))
  \/ \E i \in CPUs : Multi(AssignWinner(i))
  \/ \E i \in CPUs : Multi(RunTick(i))
  \/ \E i \in CPUs : Multi(RunIdle(i))
  \/ \E p \in Ps : Multi(Preempt(p))
  \/ Uni(Finish) \/ Uni(NoneReady) \/ Uni(Pop) \/ Uni(RunSlice) \/ Uni(SliceEnds)
  \/ Uni(Draw) \/ Uni(DrawArrived) \/ Uni(RateMonotonic)

SimsSpec == SimsInit /\ [][SimsNext]_simVars

(* The waiting times in the final tables of the nine simulators that have  *)
(* one are the times that the processes waited.                            *)
WaitingShown == WaitingIsWaited /\ WaitIsDelay

(* When the last process of a table has arrived, and all the work of it *)
LatestArrival(table) == Max({table[p].arrival : p \in DOMAIN table})
Work(table) == MapThenSumSet(LAMBDA p : table[p].burst, DOMAIN table)

(* The loops of the simulators come to an end, and no simulation outlasts  *)
(* the time in which one CPU does all the work after the last arrival: no  *)
(* process that has arrived is forgotten, and no CPU is left idle while a  *)
(* process could run.                                                      *)
EndsInTime ==
  /\ phase \notin {"done", "crashed"} =>
       clock < LatestArrival(sim.table) + Work(sim.table)
  /\ input.program = "shajith_lottery" => tick <= Work(input.table)
  /\ input.program = "shajith_mlfq" =>
       tick <= LatestArrival(input.table) + Work(input.table)
=============================================================================
