----------------------------- MODULE AtomicDisk -----------------------------
(***************************************************************************)
(* What kernel/log.c promises the file system: between begin_op() and      *)
(* end_op() blocks are read and written as if in one memory; everything    *)
(* written becomes durable together, at moments when no operation is under *)
(* way; after a crash memory is what was durable.                          *)
(***************************************************************************)
CONSTANTS
  Ops,   \* processes
  Home,  \* blocks of the file system
  Data   \* what a block may hold

VARIABLES
  mem,     \* what an operation reads
  durable, \* what a crash leaves
  active   \* the processes inside an operation

adVars == <<mem, durable, active>>

AdInit ==
  /\ mem \in [Home -> Data]
  /\ durable = mem
  /\ active = {}

Begin(p) ==
  /\ p \notin active
  /\ active' = active \cup {p}
  /\ UNCHANGED <<mem, durable>>

Write(p, b, v) ==
  /\ p \in active
  /\ mem' = [mem EXCEPT ![b] = v]
  /\ UNCHANGED <<durable, active>>

End(p) ==
  /\ p \in active
  /\ active' = active \ {p}
  /\ UNCHANGED <<mem, durable>>

Sync ==
  /\ active = {}
  /\ durable' = mem
  /\ UNCHANGED <<mem, active>>

PowerFails ==
  /\ mem' = durable
  /\ active' = {}
  /\ UNCHANGED durable

AdNext ==
  \/ \E p \in Ops : Begin(p) \/ End(p) \/ \E b \in Home, v \in Data : Write(p, b, v)
  \/ Sync \/ PowerFails

AdSpec == AdInit /\ [][AdNext]_adVars
=============================================================================
