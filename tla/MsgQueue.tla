------------------------------ MODULE MsgQueue ------------------------------
(***************************************************************************)
(* sys_msgq_send(), sys_msgq_recv() and msgq_init() of kernel/sysproc.c:   *)
(* ring buffers of messages, each under a spinlock, initialised on first   *)
(* use.  The test of msgq_initialized and msgq_init() run under no lock.   *)
(* Queue ids are valid; the system calls reject others before they touch a *)
(* queue (but after the initialisation).                                   *)
(***************************************************************************)
EXTENDS Naturals, Sequences

CONSTANTS
  Procs,      \* the processes
  Early,      \* bound: those that may call while msgq_initialized is 0
  NUM_QUEUES, \* queues are 0 .. NUM_QUEUES-1
  MAX_MSGS,   \* slots of a ring
  Msgs,       \* message contents
  Nobody,     \* the lock is free
  Garbage,    \* a slot that copyin() wrote in part, or nobody wrote
  NoCall, Failed, Done

ASSUME EarlyAssumption == Early \subseteq Procs
ASSUME SizeAssumption == NUM_QUEUES \in Nat \ {0} /\ MAX_MSGS \in Nat \ {0}
ASSUME NobodyAssumption == Nobody \notin Procs

Queues == 0 .. NUM_QUEUES - 1
Slots == 0 .. MAX_MSGS - 1

VARIABLES
  msgs, head, tail, count,   \* the fields of msgqueues[q]
  lock,                      \* msgqueues[q].lock: its holder, or Nobody
  initialized,               \* msgq_initialized
  pc, call, buf,             \* a process's progress, arguments, user buffer
  i,                         \* loop index of msgq_init()
  ret                        \* result of its latest call

ring == <<msgs, head, tail, count>>
vars == <<ring, lock, initialized, pc, call, buf, i, ret>>

PCs == {"idle", "entry", "init", "acquire", "locked", "copied"}

Requests ==
  [op : {"send"}, q : Queues, msg : Msgs, ok : BOOLEAN]
    \cup [op : {"recv"}, q : Queues, ok : BOOLEAN]

ASSUME NoCallAssumption == NoCall \notin Requests

Set(f, x, v) == [f EXCEPT ![x] = v]
Goto(p, l) == pc' = Set(pc, p, l)

Init ==
  /\ msgs = [q \in Queues |-> [s \in Slots |-> Garbage]]
  /\ head = [q \in Queues |-> 0]
  /\ tail = [q \in Queues |-> 0]
  /\ count = [q \in Queues |-> 0]
  /\ lock = [q \in Queues |-> Nobody]
  /\ initialized = FALSE
  /\ pc = [p \in Procs |-> "idle"]
  /\ call = [p \in Procs |-> NoCall]
  /\ buf = [p \in Procs |-> Garbage]
  /\ i = [p \in Procs |-> 0]
  /\ ret = [p \in Procs |-> Done]

-----------------------------------------------------------------------------
(* msgq_send(q, addr) or msgq_recv(q, addr); r.ok says whether addr is     *)
(* mapped, so that copyin() and copyout() succeed.                         *)
Call(p, r) ==
  /\ pc[p] = "idle"
  /\ initialized \/ p \in Early
  /\ call' = Set(call, p, r)
  /\ Goto(p, "entry")
  /\ UNCHANGED <<ring, lock, initialized, buf, i, ret>>

TestInitialized(p) ==
  /\ pc[p] = "entry"
  /\ Goto(p, IF initialized THEN "acquire" ELSE "init")
  /\ UNCHANGED <<ring, lock, initialized, call, buf, i, ret>>

(* One iteration of msgq_init(): initlock() and an empty ring. *)
InitQueue(p) ==
  /\ pc[p] = "init"
  /\ i[p] < NUM_QUEUES
  /\ lock' = Set(lock, i[p], Nobody)
  /\ head' = Set(head, i[p], 0)
  /\ tail' = Set(tail, i[p], 0)
  /\ count' = Set(count, i[p], 0)
  /\ i' = Set(i, p, i[p] + 1)
  /\ UNCHANGED <<msgs, initialized, pc, call, buf, ret>>

InitDone(p) ==
  /\ pc[p] = "init"
  /\ i[p] = NUM_QUEUES
  /\ initialized' = TRUE
  /\ i' = Set(i, p, 0)
  /\ Goto(p, "acquire")
  /\ UNCHANGED <<ring, lock, call, buf, ret>>

(* A plausible bug: no lock is taken. *)
NoAcquire(p) ==
  /\ pc[p] = "acquire"
  /\ Goto(p, "locked")
  /\ UNCHANGED <<ring, lock, initialized, call, buf, i, ret>>

Acquire(p) ==
  LET q == call[p].q IN
  /\ pc[p] = "acquire"
  /\ lock[q] = Nobody
  /\ lock' = Set(lock, q, p)
  /\ Goto(p, "locked")
  /\ UNCHANGED <<ring, initialized, call, buf, i, ret>>

(* release() and the end of the system call. *)
Return(p, result) ==
  /\ lock[call[p].q] = p
  /\ lock' = Set(lock, call[p].q, Nobody)
  /\ ret' = Set(ret, p, result)
  /\ call' = Set(call, p, NoCall)
  /\ buf' = Set(buf, p, Garbage)
  /\ Goto(p, "idle")
  /\ UNCHANGED <<initialized, i>>

(* A plausible bug: the index wraps one slot too late. *)
NextSlotTooLate(n) == (n + 1) % (MAX_MSGS + 1)

NextSlot(n) == (n + 1) % MAX_MSGS

Locked(p, op) == pc[p] = "locked" /\ call[p].op = op

-----------------------------------------------------------------------------
SendFull(p) ==
  /\ Locked(p, "send")
  /\ count[call[p].q] = MAX_MSGS
  /\ Return(p, Failed)
  /\ UNCHANGED ring

(* copyin() into the slot at tail.  A failing copyin() may have copied the *)
(* part of the message that lies before an unmapped page.                  *)
SendCopy(p) ==
  LET q == call[p].q IN
  /\ Locked(p, "send")
  /\ count[q] # MAX_MSGS
  /\ call[p].ok
  /\ msgs' = [msgs EXCEPT ![q][tail[q]] = call[p].msg]
  /\ Goto(p, "copied")
  /\ UNCHANGED <<head, tail, count, lock, initialized, call, buf, i, ret>>

SendFault(p) ==
  LET q == call[p].q IN
  /\ Locked(p, "send")
  /\ count[q] # MAX_MSGS
  /\ ~call[p].ok
  /\ msgs' = [msgs EXCEPT ![q][tail[q]] = Garbage]
  /\ Return(p, Failed)
  /\ UNCHANGED <<head, tail, count>>

SendDone(p) ==
  LET q == call[p].q IN
  /\ pc[p] = "copied" /\ call[p].op = "send"
  /\ tail' = Set(tail, q, NextSlot(tail[q]))
  /\ count' = Set(count, q, count[q] + 1)
  /\ Return(p, Done)
  /\ UNCHANGED <<msgs, head>>

-----------------------------------------------------------------------------
RecvEmpty(p) ==
  /\ Locked(p, "recv")
  /\ count[call[p].q] = 0
  /\ Return(p, Failed)
  /\ UNCHANGED ring

(* copyout() of the slot at head. *)
RecvCopy(p) ==
  LET q == call[p].q IN
  /\ Locked(p, "recv")
  /\ count[q] # 0
  /\ call[p].ok
  /\ buf' = Set(buf, p, msgs[q][head[q]])
  /\ Goto(p, "copied")
  /\ UNCHANGED <<ring, lock, initialized, call, i, ret>>

(* A plausible bug: the message is taken off before copyout() succeeds. *)
RecvFaultConsumes(p) ==
  LET q == call[p].q IN
  /\ Locked(p, "recv")
  /\ count[q] # 0
  /\ ~call[p].ok
  /\ head' = Set(head, q, NextSlot(head[q]))
  /\ count' = Set(count, q, count[q] - 1)
  /\ Return(p, Failed)
  /\ UNCHANGED <<msgs, tail>>

RecvFault(p) ==
  /\ Locked(p, "recv")
  /\ count[call[p].q] # 0
  /\ ~call[p].ok
  /\ Return(p, Failed)
  /\ UNCHANGED ring

RecvDone(p) ==
  LET q == call[p].q IN
  /\ pc[p] = "copied" /\ call[p].op = "recv"
  /\ head' = Set(head, q, NextSlot(head[q]))
  /\ count' = Set(count, q, count[q] - 1)
  /\ Return(p, buf[p])
  /\ UNCHANGED <<msgs, tail>>

-----------------------------------------------------------------------------
Enter(p) == TestInitialized(p) \/ InitQueue(p) \/ InitDone(p) \/ Acquire(p)

SendStep(p) == SendFull(p) \/ SendCopy(p) \/ SendFault(p) \/ SendDone(p)

RecvStep(p) == RecvEmpty(p) \/ RecvCopy(p) \/ RecvFault(p) \/ RecvDone(p)

Next ==
  \E p \in Procs :
    \/ \E r \in Requests : Call(p, r)
    \/ Enter(p) \/ SendStep(p) \/ RecvStep(p)

Spec == Init /\ [][Next]_vars

-----------------------------------------------------------------------------
(* Properties *)

TypeOK ==
  /\ msgs \in [Queues -> [Slots -> Msgs \cup {Garbage}]]
  /\ head \in [Queues -> Slots]
  /\ tail \in [Queues -> Slots]
  /\ count \in [Queues -> 0 .. MAX_MSGS]
  /\ lock \in [Queues -> Procs \cup {Nobody}]
  /\ initialized \in BOOLEAN
  /\ pc \in [Procs -> PCs]
  /\ call \in [Procs -> Requests \cup {NoCall}]
  /\ buf \in [Procs -> Msgs \cup {Garbage}]
  /\ i \in [Procs -> 0 .. NUM_QUEUES]
  /\ ret \in [Procs -> Msgs \cup {Failed, Done}]

InQueue(p, q) == pc[p] \in {"locked", "copied"} /\ call[p].q = q

(* docs/msgq/README.md: "The spinlock makes sure only one process touches  *)
(* a queue at a time, so it's safe to use between parent and child (or any *)
(* two processes)."                                                        *)
OneAtATime ==
  \A p1, p2 \in Procs, q \in Queues :
    InQueue(p1, q) /\ InQueue(p2, q) => p1 = p2

(* The first part of the inductive invariant: a process that is inside a   *)
(* call has a request, and inside a ring the ring's lock; msgq_init() runs *)
(* before msgq_initialized is set and never after.                         *)
CallInv ==
  \A p \in Procs :
    /\ pc[p] = "idle" => call[p] = NoCall
    /\ pc[p] # "idle" => call[p] \in Requests
    /\ pc[p] \in {"locked", "copied"} => lock[call[p].q] = p
    /\ initialized => pc[p] # "init"
    /\ ~initialized => /\ pc[p] \in {"idle", "entry", "init"}
                       /\ pc[p] # "idle" => p \in Early

(* A process between its copy and the end of its call has moved the        *)
(* message it was asked to, and the ring still has room or a message.      *)
CopiedInv ==
  \A p \in Procs :
    LET q == call[p].q IN
    pc[p] = "copied" =>
      /\ call[p].ok
      /\ call[p].op = "send" => /\ count[q] < MAX_MSGS
                                /\ msgs[q][tail[q]] = call[p].msg
      /\ call[p].op = "recv" => /\ count[q] > 0
                                /\ buf[p] = msgs[q][head[q]]

(* The fields of a ring agree, and a slot that holds a message holds one   *)
(* that some send copied in whole.                                         *)
RingInv ==
  \A q \in Queues :
    /\ tail[q] = (head[q] + count[q]) % MAX_MSGS
    /\ ~initialized => count[q] = 0
    /\ \A k \in 1 .. count[q] : msgs[q][(head[q] + k - 1) % MAX_MSGS] \in Msgs

(* The messages of a ring, oldest first. *)
Contents(q) ==
  [k \in 1 .. count[q] |-> msgs[q][(head[q] + k - 1) % MAX_MSGS]]

Abstract ==
  INSTANCE Fifo WITH fifo <- [q \in Queues |-> Contents(q)]

(* The rings are bounded FIFO queues: no message is lost, duplicated, torn *)
(* or reordered, and a call fails only for the reasons it should, whatever *)
(* fault a copyin() or copyout() meets half way.                           *)
ImplementsFifo == Abstract!Spec
=============================================================================
