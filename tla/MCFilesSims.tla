---------------------------- MODULE MCFilesSims ----------------------------
(***************************************************************************)
(* An instance of the file system and one of the simulators of Project 2.  *)
(* They share nothing but the run: `scene' tells which of the two moves,   *)
(* and the other keeps its first state.                                    *)
(***************************************************************************)
EXTENDS MCFileSys, MCSims

VARIABLE scene

filesSimsVars == <<scene, fsVars, simVars>>

FilesSimsInit ==
  /\ FsInit /\ SimsInit
  /\ \/ scene = "files" /\ machine = "multi" /\ sim = OneSim
     \/ scene = "simulator" /\ workload = Files

Fs(A) == scene = "files" /\ A /\ UNCHANGED <<scene, simVars>>
Sim(A) == scene = "simulator" /\ A /\ UNCHANGED <<scene, fsVars>>

(* FsNext and SimsNext, action by action *)
PathSteps ==
  \/ \E p \in Procs :
       \/ Fs(End(p)) \/ Fs(Close(p)) \/ \E r \in workload : Fs(Enter(p, r))
       \/ Fs(PutRef(p)) \/ Fs(PutLast(p)) \/ Fs(PutFree(p)) \/ Fs(PutFreed(p))
       \/ Fs(Walk(p)) \/ Fs(WalkParent(p)) \/ Fs(Open(p)) \/ Fs(Chdir(p))
       \/ Fs(CreateLookup(p)) \/ Fs(CreateExists(p)) \/ Fs(Ialloc(p)) \/ Fs(IallocFails(p))
       \/ Fs(IallocGet(p)) \/ Fs(CreateLink(p)) \/ Fs(CreateFails(p)) \/ Fs(Created(p))
       \/ Fs(UnlinkLookup(p)) \/ Fs(UnlinkRefused(p)) \/ Fs(Unlink(p)) \/ Fs(Unlinked(p))
       \/ Fs(LinkOld(p)) \/ Fs(LinkNew(p)) \/ Fs(LinkFails(p)) \/ Fs(UndoLink(p))
       \/ Fs(Getcwd(p)) \/ Fs(GoUp(p)) \/ Fs(ScanParent(p))
  \/ Fs(Crash) \/ Fs(Reclaim)

SimSteps ==
  \/ Sim(Multi(BeginCycle)) \/ Sim(Multi(Preempted)) \/ Sim(Multi(Assigned))
  \/ Sim(Multi(EndCycle))
  \/ \E i \in CPUs :
       \/ Sim(Multi(AssignBest(i))) \/ Sim(Multi(AssignFirst(i))) \/ Sim(Multi(AssignIdle(i)))
       \/ Sim(Multi(AssignUntested(i))) \/ Sim(Multi(AssignWinner(i)))
       \/ Sim(Multi(RunTick(i))) \/ Sim(Multi(RunIdle(i)))
  \/ \E p \in Ps : Sim(Multi(Preempt(p)))
  \/ Sim(Uni(Finish)) \/ Sim(Uni(NoneReady)) \/ Sim(Uni(Pop)) \/ Sim(Uni(RunSlice))
  \/ Sim(Uni(SliceEnds)) \/ Sim(Uni(Draw)) \/ Sim(Uni(DrawArrived)) \/ Sim(Uni(RateMonotonic))

(* A simulation that has ended stops; nothing else may. *)
Over ==
  /\ IF machine = "multi" THEN phase \in {"done", "crashed"} ELSE doing = "end"
  /\ UNCHANGED simVars

FilesSimsNext == PathSteps \/ SimSteps \/ Sim(Over)

FilesSimsSpec == FilesSimsInit /\ [][FilesSimsNext]_filesSimsVars

(* The one that keeps its first state need not be looked at. *)
FilesSimsView == IF scene = "files" THEN <<scene, fsVars>> ELSE <<scene, simVars>>
=============================================================================
