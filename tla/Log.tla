-------------------------------- MODULE Log --------------------------------
(***************************************************************************)
(* The write-ahead log of kernel/log.c over the buffer cache of            *)
(* kernel/bio.c, with a crash possible between any two disk writes, also   *)
(* those of recovery.                                                      *)
(*                                                                         *)
(* A block write is atomic.  A step is a critical section under log.lock,  *)
(* a bread(), the release of a buffer, or one disk write with the copying  *)
(* that leads to it.  Buffers of the log area hold what is on the disk and *)
(* are left out.  A buffer is always found; which ones are recycled is     *)
(* left open: any that is not referenced, at any time.                     *)
(***************************************************************************)
EXTENDS Naturals, Sequences, FiniteSets, Updates

CONSTANTS
  Ops,         \* processes that make file system calls
  Home,        \* blocks of the file system
  Data,        \* contents of a block
  MAXOPBLOCKS, \* blocks that begin_op() reserves
  OpWrites,    \* blocks that an operation writes
  LOGBLOCKS,   \* size of the log
  NoOp,        \* nobody
  NotCached    \* no buffer of the block

ASSUME LogAssumption ==
  /\ MAXOPBLOCKS \in Nat \ {0} /\ OpWrites \in 0 .. MAXOPBLOCKS
  /\ LOGBLOCKS \in Nat /\ LOGBLOCKS >= MAXOPBLOCKS
  /\ NoOp \notin Ops /\ NotCached \notin Data
  /\ IsFiniteSet(Home) /\ IsFiniteSet(Ops)

LogSlots == 1 .. LOGBLOCKS

VARIABLES
  disk_home,   \* blocks at their home locations
  disk_log,    \* blocks in the log
  disk_head,   \* the header block: the numbers of the logged blocks
  cache,       \* b->data of the buffer of a block
  ref,         \* b->refcnt
  holder,      \* who has b->lock
  lh,          \* log.lh
  outstanding, \* log.outstanding
  committing,  \* log.committing
  op,          \* where a process is
  written,     \* what an operation has written, for the bound OpWrites
  stage,       \* where commit() or recover_from_log() is
  upto         \* blocks of lh its loop has done

diskVars == <<disk_home, disk_log, disk_head>>
cacheVars == <<cache, ref, holder>>
memVars == <<lh, outstanding, committing>>
logVars == <<diskVars, cacheVars, memVars, op, written, stage, upto>>

LogInit ==
  /\ disk_home \in [Home -> Data]
  /\ \E v \in Data : disk_log = [s \in LogSlots |-> v]
  /\ disk_head = <<>>
  /\ cache = [b \in Home |-> NotCached]
  /\ ref = [b \in Home |-> 0]
  /\ holder = [b \in Home |-> NoOp]
  /\ lh = <<>>
  /\ outstanding = 0
  /\ committing = FALSE
  /\ op = [p \in Ops |-> "idle"]
  /\ written = [p \in Ops |-> {}]
  /\ stage = "none"
  /\ upto = 0

Up == stage \notin {"boot", "recover"}

-----------------------------------------------------------------------------
(* The buffer cache *)

Cached(b) == IF cache[b] = NotCached THEN disk_home[b] ELSE cache[b]

(* bget() of some block elsewhere recycles the buffer. *)
Recycle(b) ==
  /\ ref[b] = 0 /\ cache[b] # NotCached
  /\ cache' = Put(cache, b, NotCached)
  /\ UNCHANGED <<diskVars, ref, holder, memVars, op, written, stage, upto>>

(* bread() by an operation, or by a call such as read() that makes none. *)
Bread(p, b) ==
  /\ Up /\ op[p] \in {"idle", "op"}
  /\ holder[b] = NoOp
  /\ holder' = Put(holder, b, p)
  /\ ref' = Put(ref, b, ref[b] + 1)
  /\ cache' = Put(cache, b, Cached(b))
  /\ op' = Put(op, p, IF op[p] = "op" THEN "holds" ELSE "reads")
  /\ UNCHANGED <<diskVars, memVars, written, stage, upto>>

(* brelse() *)
Brelse(p, b) ==
  /\ holder[b] = p
  /\ holder' = Put(holder, b, NoOp)
  /\ ref' = Put(ref, b, ref[b] - 1)
  /\ op' = Put(op, p, IF op[p] = "holds" THEN "op" ELSE "idle")
  /\ UNCHANGED <<diskVars, cache, memVars, written, stage, upto>>

-----------------------------------------------------------------------------
(* Operations *)

Exhausts == Len(lh) + (outstanding + 1) * MAXOPBLOCKS > LOGBLOCKS

BeginOp(p) ==
  /\ Up /\ op[p] \in {"idle", "begin"}
  /\ IF committing \/ Exhausts
       THEN /\ op' = Put(op, p, "asleep")
            /\ UNCHANGED outstanding
       ELSE /\ outstanding' = outstanding + 1
            /\ op' = Put(op, p, "op")
  /\ UNCHANGED <<diskVars, cacheVars, lh, committing, written, stage, upto>>

(* A plausible bug: a block that is in the log already is logged again. *)
LogWriteTwice(p, b, v) ==
  /\ op[p] = "holds" /\ holder[b] = p
  /\ Cardinality(written[p] \cup {b}) <= OpWrites
  /\ cache' = Put(cache, b, v)
  /\ lh' = Append(lh, b)
  /\ holder' = Put(holder, b, NoOp)
  /\ op' = Put(op, p, "op")
  /\ written' = Put(written, p, written[p] \cup {b})
  /\ UNCHANGED <<diskVars, ref, outstanding, committing, stage, upto>>

(* The blocks l to be logged include b: "log absorption". *)
Logged(l, b) == \E k \in 1 .. Len(l) : l[k] = b

(* The buffer of b is modified, log_write() and brelse(). *)
LogWrite(p, b, v) ==
  /\ op[p] = "holds" /\ holder[b] = p
  /\ Cardinality(written[p] \cup {b}) <= OpWrites
  /\ cache' = Put(cache, b, v)
  /\ IF Logged(lh, b)
       THEN UNCHANGED lh /\ ref' = Put(ref, b, ref[b] - 1)
       ELSE lh' = Append(lh, b) /\ UNCHANGED ref
  /\ holder' = Put(holder, b, NoOp)
  /\ op' = Put(op, p, "op")
  /\ written' = Put(written, p, written[p] \cup {b})
  /\ UNCHANGED <<diskVars, outstanding, committing, stage, upto>>

Woken == [q \in Ops |-> IF op[q] = "asleep" THEN "begin" ELSE op[q]]

(* The last operation to end commits. *)
EndOp(p) ==
  /\ op[p] = "op"
  /\ outstanding' = outstanding - 1
  /\ IF outstanding = 1
       THEN /\ committing' = TRUE
            /\ op' = Put(op, p, "commits")
            /\ stage' = IF lh = <<>> THEN "done" ELSE "log"
       ELSE /\ op' = Put(Woken, p, "idle")
            /\ UNCHANGED <<committing, stage>>
  /\ upto' = 0
  /\ written' = Put(written, p, {})
  /\ UNCHANGED <<diskVars, cacheVars, lh>>

-----------------------------------------------------------------------------
(* commit() *)

Enters(s) == stage' = s /\ upto' = 0

(* write_log() *)
WriteLog ==
  LET b == lh[upto + 1] IN
  /\ stage = "log" /\ upto < Len(lh)
  /\ holder[b] = NoOp
  /\ disk_log' = Put(disk_log, upto + 1, cache[b])
  /\ upto' = upto + 1
  /\ UNCHANGED <<disk_home, disk_head, cacheVars, memVars, op, written, stage>>

(* A plausible bug: the header is written before the last block. *)
WriteHeadEarly ==
  /\ stage = "log" /\ upto + 1 >= Len(lh)
  /\ disk_head' = lh
  /\ Enters("install")
  /\ UNCHANGED <<disk_home, disk_log, cacheVars, memVars, op, written>>

(* write_head(): "the true point at which the current transaction commits". *)
WriteHead ==
  /\ stage = "log" /\ upto = Len(lh)
  /\ disk_head' = lh
  /\ Enters("install")
  /\ UNCHANGED <<disk_home, disk_log, cacheVars, memVars, op, written>>

(* install_trans(0) *)
InstallTrans ==
  LET b == lh[upto + 1] IN
  /\ stage = "install" /\ upto < Len(lh)
  /\ holder[b] = NoOp
  /\ disk_home' = Put(disk_home, b, disk_log[upto + 1])
  /\ cache' = Put(cache, b, disk_log[upto + 1])
  /\ ref' = Put(ref, b, ref[b] - 1)
  /\ upto' = upto + 1
  /\ UNCHANGED <<disk_log, disk_head, holder, memVars, op, written, stage>>

(* write_head() with n = 0 *)
EraseHead ==
  /\ stage = "install" /\ upto = Len(lh)
  /\ lh' = <<>>
  /\ disk_head' = <<>>
  /\ Enters("done")
  /\ UNCHANGED <<disk_home, disk_log, cacheVars, outstanding, committing, op, written>>

(* A plausible bug: the sleepers are not woken. *)
CommittedUnheard(p) ==
  /\ op[p] = "commits" /\ stage = "done"
  /\ committing' = FALSE
  /\ op' = Put(op, p, "idle")
  /\ Enters("none")
  /\ UNCHANGED <<diskVars, cacheVars, lh, outstanding, written>>

(* The end of end_op() *)
Committed(p) ==
  /\ op[p] = "commits" /\ stage = "done"
  /\ committing' = FALSE
  /\ op' = Put(Woken, p, "idle")
  /\ Enters("none")
  /\ UNCHANGED <<diskVars, cacheVars, lh, outstanding, written>>

-----------------------------------------------------------------------------
(* Crash and recovery *)

PowerFails ==
  /\ cache' = [b \in Home |-> NotCached]
  /\ ref' = [b \in Home |-> 0]
  /\ holder' = [b \in Home |-> NoOp]
  /\ lh' = <<>>
  /\ outstanding' = 0
  /\ committing' = FALSE
  /\ op' = [p \in Ops |-> "idle"]
  /\ written' = [p \in Ops |-> {}]
  /\ Enters("boot")
  /\ UNCHANGED diskVars

(* initlog(): read_head() *)
ReadHead ==
  /\ stage = "boot"
  /\ lh' = disk_head
  /\ Enters("recover")
  /\ UNCHANGED <<diskVars, cacheVars, outstanding, committing, op, written>>

(* install_trans(1) *)
Recover ==
  LET b == lh[upto + 1] IN
  /\ stage = "recover" /\ upto < Len(lh)
  /\ disk_home' = Put(disk_home, b, disk_log[upto + 1])
  /\ cache' = Put(cache, b, disk_log[upto + 1])
  /\ upto' = upto + 1
  /\ UNCHANGED <<disk_log, disk_head, ref, holder, memVars, op, written, stage>>

ClearLog ==
  /\ stage = "recover" /\ upto = Len(lh)
  /\ lh' = <<>>
  /\ disk_head' = <<>>
  /\ Enters("none")
  /\ UNCHANGED <<disk_home, disk_log, cacheVars, outstanding, committing, op, written>>

-----------------------------------------------------------------------------
CommitStep ==
  WriteLog \/ WriteHead \/ InstallTrans \/ EraseHead \/ \E p \in Ops : Committed(p)

RecoverStep == ReadHead \/ Recover \/ ClearLog

OpStep(p) ==
  \/ BeginOp(p) \/ EndOp(p)
  \/ \E b \in Home : Bread(p, b) \/ Brelse(p, b) \/ \E v \in Data : LogWrite(p, b, v)

LogNext ==
  \/ \E p \in Ops : OpStep(p)
  \/ CommitStep \/ RecoverStep \/ PowerFails
  \/ \E b \in Home : Recycle(b)

LogSpec == LogInit /\ [][LogNext]_logVars

-----------------------------------------------------------------------------
(* Properties *)

(* The panics of log_write() and end_op(): the log has room for what the   *)
(* operations under way may still write, and nobody writes or ends an      *)
(* operation during a commit.                                              *)
InOp(p) == op[p] \in {"op", "holds"}
LogFits ==
  /\ \A p \in Ops : op[p] = "holds" /\ Cardinality(written[p]) < OpWrites => Len(lh) < LOGBLOCKS
  /\ \A p \in Ops : InOp(p) => ~committing /\ outstanding >= 1

(* Operations are atomic across crashes.  The durable contents are those   *)
(* that recovery would produce: home blocks overlaid with a committed log. *)
Recovered ==
  [b \in Home |->
     IF Logged(disk_head, b)
       THEN disk_log[CHOOSE s \in 1 .. Len(disk_head) : disk_head[s] = b]
       ELSE disk_home[b]]

Disk == INSTANCE AtomicDisk WITH
  mem <- IF Up THEN [b \in Home |-> Cached(b)] ELSE Recovered,
  durable <- Recovered,
  active <- {p \in Ops : InOp(p)}

CrashAtomic == Disk!AdSpec

(* When no operation is under way and no commit, everything is durable:    *)
(* what end_op() of the last operation returned for is not lost.           *)
NothingPending ==
  outstanding = 0 /\ ~committing /\ Up => \A b \in Home : Cached(b) = disk_home[b]

(* No panic of the log, and what end_op() returned for is on the disk. *)
LogWorks == LogFits /\ NothingPending

(* Who sleeps in begin_op() has a reason, that ends with a wakeup(). *)
BeginWaitsHaveCause ==
  \A p \in Ops : op[p] = "asleep" => committing \/ (outstanding > 0 /\ Exhausts)
=============================================================================
