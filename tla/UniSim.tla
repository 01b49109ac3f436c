------------------------------- MODULE UniSim -------------------------------
(***************************************************************************)
(* The single-CPU scheduling simulators of Project 2: MLFQ and lottery of  *)
(* shajith, lottery and RMS of Vijay.  What the user types is the input.   *)
(* A step is one iteration of the outer loop of a simulator or, in MLFQ,   *)
(* of the loop that runs a quantum.                                        *)
(***************************************************************************)
EXTENDS Integers, Sequences, FiniteSets, Orders, Updates

CONSTANT Inputs  \* records [program, table, quantum, total_time]

Programs == {"shajith_mlfq", "shajith_lottery", "vijay_lottery", "vijay_rms"}

(* Bursts, tickets and periods are positive. *)
ASSUME UsAssumption ==
  \A x \in Inputs :
    /\ x.program \in Programs /\ x.quantum \in [1 .. 3 -> Nat] /\ x.total_time \in Nat
    /\ x.table \in Seq([arrival : Nat, burst : Nat \ {0}, key : Nat \ {0}])

VARIABLES
  input,
  left,          \* p[i].remaining
  ended,         \* p[i].finish_time, 0 until it is done (in Vijay's a history)
  arrived,       \* the processes with p[i].arrived
  queues,        \* q[0 .. 2]
  job,           \* idx, its queue ql and the ticks it ran
  tick,          \* tick, time
  next_deadline, \* of RMS
  doing,         \* the place in the program
  delayed        \* history: ticks that a process waited

usVars == <<input, left, ended, arrived, queues, job, tick, next_deadline, doing, delayed>>

Js == DOMAIN input.table
QUEUES == 3
NoJob == [idx |-> 0, level |-> 1, ran |-> 0]

UsInit ==
  /\ input \in Inputs
  /\ left = [i \in Js |-> input.table[i].burst]
  /\ ended = [i \in Js |-> 0]
  /\ arrived = {}
  /\ queues = [l \in 1 .. QUEUES |-> <<>>]
  /\ job = NoJob
  /\ tick = 0
  /\ next_deadline = [i \in Js |-> input.table[i].arrival + input.table[i].key]
  /\ doing = "menu"
  /\ delayed = [i \in Js |-> 0]

Is(program) == input.program = program /\ doing \in {"menu", "loop"}

all_done == \A i \in Js : ended[i] > 0

Leaves == doing' = "end" /\ UNCHANGED <<left, ended, arrived, queues, job, tick, next_deadline, delayed>>

(* One tick, run by i (0 for nobody) while those in W wait. *)
Tick(i, W) ==
  /\ tick' = tick + 1
  /\ delayed' = [j \in Js |-> IF j \in W \ {i} THEN delayed[j] + 1 ELSE delayed[j]]

-----------------------------------------------------------------------------
(* shajith's MLFQ *)

Arriving == {i \in Js \ arrived : input.table[i].arrival = tick}

ByNumber == {x \in Js \X Js : x[1] < x[2]}

(* check_arrivals(): the queues with the new arrivals in the first. *)
check_arrivals == Put(queues, 1, queues[1] \o InOrder(Arriving, ByNumber))

Loops == Is("shajith_mlfq")

Finish == Loops /\ all_done /\ Leaves /\ UNCHANGED input

NoneReady ==
  /\ Loops /\ ~all_done
  /\ \A l \in 1 .. QUEUES : check_arrivals[l] = <<>>
  /\ Tick(0, {})
  /\ doing' = "loop"
  /\ UNCHANGED <<input, left, ended, arrived, queues, job, next_deadline>>

(* find_queue() and pop_front() *)
Pop ==
  /\ Loops /\ ~all_done
  /\ \E l \in 1 .. QUEUES :
       /\ check_arrivals[l] # <<>> /\ \A k \in 1 .. l - 1 : check_arrivals[k] = <<>>
       /\ job' = [idx |-> Head(check_arrivals[l]), level |-> l, ran |-> 0]
       /\ queues' = Put(check_arrivals, l, Tail(check_arrivals[l]))
  /\ arrived' = arrived \cup Arriving
  /\ doing' = "slice"
  /\ UNCHANGED <<input, left, ended, tick, next_deadline, delayed>>

InSlice == job.ran < input.quantum[job.level] /\ left[job.idx] > 0

(* A plausible bug: arrivals are looked for only between slices. *)
RunSliceDeaf ==
  /\ doing = "slice" /\ InSlice
  /\ left' = Decr(left, job.idx)
  /\ job' = [job EXCEPT !.ran = @ + 1]
  /\ Tick(job.idx, {i \in Js : input.table[i].arrival <= tick /\ ended[i] = 0})
  /\ UNCHANGED <<input, ended, arrived, queues, next_deadline, doing>>

RunSlice ==
  /\ doing = "slice" /\ InSlice
  /\ queues' = IF job.ran > 0 THEN check_arrivals ELSE queues
  /\ arrived' = IF job.ran > 0 THEN arrived \cup Arriving ELSE arrived
  /\ left' = Decr(left, job.idx)
  /\ job' = [job EXCEPT !.ran = @ + 1]
  /\ Tick(job.idx, {i \in Js : input.table[i].arrival <= tick /\ ended[i] = 0})
  /\ UNCHANGED <<input, ended, next_deadline, doing>>

SliceEnds ==
  LET i == job.idx  l == IF job.level = QUEUES THEN QUEUES ELSE job.level + 1 IN
  /\ doing = "slice" /\ ~InSlice
  /\ IF left[i] = 0
       THEN ended' = Put(ended, i, tick) /\ UNCHANGED queues
       ELSE queues' = Put(queues, l, Append(queues[l], i)) /\ UNCHANGED ended
  /\ job' = NoJob
  /\ doing' = "loop"
  /\ UNCHANGED <<input, left, arrived, tick, next_deadline, delayed>>

-----------------------------------------------------------------------------
(* Lotteries.  shajith's knows no arrivals and ends when all are done.     *)

Holders(T) == {i \in T : input.table[i].key > 0}

(* A plausible bug: the process is done at the start of its last tick. *)
WinsEarly(i, W) ==
  /\ left' = Decr(left, i)
  /\ ended' = IF left[i] = 1 THEN Put(ended, i, tick) ELSE ended
  /\ Tick(i, W)
  /\ doing' = "loop"
  /\ UNCHANGED <<input, arrived, queues, job, next_deadline>>

Wins(i, W) ==
  /\ left' = Decr(left, i)
  /\ ended' = IF left[i] = 1 THEN Put(ended, i, tick + 1) ELSE ended
  /\ Tick(i, W)
  /\ doing' = "loop"
  /\ UNCHANGED <<input, arrived, queues, job, next_deadline>>

Draw ==
  LET W == {i \in Js : ended[i] = 0} IN
  /\ Is("shajith_lottery")
  /\ \/ \E i \in Holders(W) : Wins(i, W)
     \/ Holders(W) = {} /\ Leaves /\ UNCHANGED input

(* Vijay's ends with the time, and as soon as nobody who has arrived has   *)
(* anything left.                                                          *)
DrawArrived ==
  LET W == {i \in Js : left[i] > 0 /\ input.table[i].arrival <= tick} IN
  /\ Is("vijay_lottery")
  /\ \/ tick < input.total_time /\ \E i \in Holders(W) : Wins(i, W)
     \/ (tick = input.total_time \/ Holders(W) = {}) /\ Leaves /\ UNCHANGED input

-----------------------------------------------------------------------------
(* Vijay's RMS: a new period gives a process its burst again. *)

Released(i) == tick >= next_deadline[i] /\ input.table[i].arrival <= tick

RateMonotonic ==
  LET work == [i \in Js |-> IF Released(i) THEN input.table[i].burst ELSE left[i]]
      W == {i \in Js : work[i] > 0 /\ input.table[i].arrival <= tick}
      shortest == {i \in W : \A j \in W : input.table[i].key <= input.table[j].key}
      selected == IF W = {} THEN 0 ELSE CHOOSE i \in shortest : \A j \in shortest : i <= j IN
  /\ Is("vijay_rms")
  /\ IF tick = input.total_time
       THEN Leaves
       ELSE /\ next_deadline' = [i \in Js |-> IF Released(i) THEN next_deadline[i] + input.table[i].key
                                              ELSE next_deadline[i]]
            /\ left' = IF W = {} THEN work ELSE Decr(work, selected)
            /\ Tick(selected, W)
            /\ doing' = "loop"
            /\ UNCHANGED <<ended, arrived, queues, job>>
  /\ UNCHANGED input

-----------------------------------------------------------------------------
(* run_mlfq() of shajith *)
QuantumByQuantum == Finish \/ NoneReady \/ Pop \/ RunSlice \/ SliceEnds

UsNext == QuantumByQuantum \/ Draw \/ DrawArrived \/ RateMonotonic

(* The waiting times that shajith's programs show; his lottery knows no    *)
(* arrivals.                                                               *)
Waits(i) ==
  ended[i] - input.table[i].burst
    - (IF input.program = "shajith_lottery" THEN 0 ELSE input.table[i].arrival)

UsSpec == UsInit /\ [][UsNext]_usVars

-----------------------------------------------------------------------------
(* Properties *)

(* shajith's MLFQ: a process that has arrived and is not done is in one    *)
(* queue, once, or running, and nobody else is; Vijay's RMS: what is left  *)
(* belongs to the period in which the clock is.                            *)
Places(i) ==
  Cardinality(UNION {{l} \X {k \in DOMAIN queues[l] : queues[l][k] = i} : l \in 1 .. QUEUES})
    + (IF job.idx = i THEN 1 ELSE 0)

InOnePlace ==
  /\ input.program = "shajith_mlfq" =>
       /\ \A i \in Js : input.table[i].arrival < tick => i \in arrived
       /\ \A i \in Js : Places(i) = IF i \in arrived /\ ended[i] = 0 THEN 1 ELSE 0
  /\ input.program = "vijay_rms" /\ doing = "loop" =>
       \A i \in Js : input.table[i].arrival < tick =>
         /\ tick <= next_deadline[i] /\ next_deadline[i] - input.table[i].key < tick
         /\ left[i] <= input.table[i].burst

(* The final tables of shajith's programs are complete, and the waiting    *)
(* time that they show is the number of ticks that the process waited.     *)
(* Vijay's programs show none.                                             *)
ShowsWaits == {"shajith_mlfq", "shajith_lottery"}

WaitIsDelay ==
  input.program \in ShowsWaits =>
    /\ \A i \in Js : ended[i] > 0 => delayed[i] = Waits(i)
    /\ doing = "end" => all_done

(* What Vijay's README and algorithms.c say of his lottery: it goes on     *)
(* until all processes finish or time runs out.                            *)
LotteryRunsOut ==
  input.program = "vijay_lottery" /\ doing = "end" =>
    tick = input.total_time \/ \A i \in Js : left[i] = 0
=============================================================================
