-------------------------------- MODULE Fifo --------------------------------
(***************************************************************************)
(* What the message queues of kernel/sysproc.c promise: msgq_send appends  *)
(* a message to a bounded queue, msgq_recv takes the oldest one.  A call   *)
(* fails only for a bad user address, a full queue or an empty one, and a  *)
(* call that fails changes nothing.                                        *)
(***************************************************************************)
EXTENDS Naturals, Sequences

CONSTANTS Procs, Queues, Msgs, MAX_MSGS, NoCall, Failed, Done

VARIABLES
  fifo,   \* fifo[q]: the messages of q, oldest first
  call,   \* call[p]: the request p is waiting for, or NoCall
  ret     \* ret[p]: the result of p's latest call

vars == <<fifo, call, ret>>

Requests ==
  [op : {"send"}, q : Queues, msg : Msgs, ok : BOOLEAN]
    \cup [op : {"recv"}, q : Queues, ok : BOOLEAN]

Init ==
  /\ fifo = [q \in Queues |-> << >>]
  /\ call = [p \in Procs |-> NoCall]
  /\ ret = [p \in Procs |-> Done]

Request(p, r) ==
  /\ call[p] = NoCall
  /\ call' = [call EXCEPT ![p] = r]
  /\ UNCHANGED <<fifo, ret>>

Answer(p, result) ==
  /\ call' = [call EXCEPT ![p] = NoCall]
  /\ ret' = [ret EXCEPT ![p] = result]

Send(p) ==
  LET r == call[p] IN
  /\ r # NoCall /\ r.op = "send" /\ r.ok
  /\ Len(fifo[r.q]) < MAX_MSGS
  /\ fifo' = [fifo EXCEPT ![r.q] = Append(@, r.msg)]
  /\ Answer(p, Done)

Recv(p) ==
  LET r == call[p] IN
  /\ r # NoCall /\ r.op = "recv" /\ r.ok
  /\ fifo[r.q] # << >>
  /\ fifo' = [fifo EXCEPT ![r.q] = Tail(@)]
  /\ Answer(p, Head(fifo[r.q]))

Fail(p) ==
  LET r == call[p] IN
  /\ r # NoCall
  /\ \/ ~r.ok
     \/ r.op = "send" /\ Len(fifo[r.q]) = MAX_MSGS
     \/ r.op = "recv" /\ fifo[r.q] = << >>
  /\ Answer(p, Failed)
  /\ UNCHANGED fifo

Next ==
  \E p \in Procs :
    \/ \E r \in Requests : Request(p, r)
    \/ Send(p) \/ Recv(p) \/ Fail(p)

Spec == Init /\ [][Next]_vars
=============================================================================
