------------------------------- MODULE Virtio -------------------------------
(***************************************************************************)
(* kernel/virtio_disk.c with the device that serves it.  The driver gives  *)
(* the device chains of three descriptors in one ring and gets the heads   *)
(* of finished chains back in another, in any order.  virtio_disk_rw() and *)
(* the interrupt handler run under vdisk_lock; the device does not.        *)
(*                                                                         *)
(* The caller of virtio_disk_rw() has the buffer locked, so that a buffer  *)
(* stands for the process that transfers it.  The rings, which have NUM    *)
(* entries and 16-bit indices that NUM divides, are sequences.             *)
(***************************************************************************)
EXTENDS Naturals, Sequences, FiniteSets, Updates

CONSTANTS
  Bufs,  \* buffers, each with a block of its own
  NUM,   \* number of descriptors
  NoBuf, \* a null pointer
  NoDesc \* no descriptor

ASSUME VirtioAssumption ==
  /\ NUM \in Nat /\ NUM >= 3
  /\ NoBuf \notin Bufs /\ NoDesc \notin 0 .. NUM - 1

Descs == 0 .. NUM - 1

VARIABLES
  free,     \* the descriptors whose disk.free[] is set
  desc,     \* what disk.desc[] point to, and their next where the flag says so
  info,     \* disk.info[]: the buffer, and whether status is 0
  ops,      \* disk.ops[]: the direction and the sector
  avail,    \* heads that the device has not taken
  used,     \* heads that the handler has not seen
  taken,    \* heads that the device works on
  intr,     \* the device's interrupt is pending
  handling, \* the handler is in its loop, under vdisk_lock
  ondisk,   \* b->disk
  stands,   \* where the process of a buffer is
  first,    \* its idx[0]
  asked,    \* the direction it asked for
  moved     \* history: transfers to or from b->data since it asked

driverVars == <<free, desc, info, ops, ondisk, stands, first, asked>>
viVars == <<driverVars, avail, used, taken, intr, handling, moved>>

Unused == [addr |-> "0", of |-> NoDesc, next |-> NoDesc]

VirtioInit ==
  /\ free = Descs
  /\ desc = [d \in Descs |-> Unused]
  /\ info = [d \in Descs |-> [b |-> NoBuf, ok |-> FALSE]]
  /\ ops = [d \in Descs |-> [way |-> "none", sector |-> NoBuf]]
  /\ avail = <<>> /\ used = <<>> /\ taken = {}
  /\ intr = FALSE /\ handling = FALSE
  /\ ondisk = [b \in Bufs |-> FALSE]
  /\ stands = [b \in Bufs |-> "idle"]
  /\ first = [b \in Bufs |-> NoDesc]
  /\ asked = [b \in Bufs |-> "none"]
  /\ moved = [b \in Bufs |-> <<>>]

-----------------------------------------------------------------------------
(* The driver *)

(* bread() or bwrite() calls virtio_disk_rw(). *)
Ask(b, way) ==
  /\ stands[b] = "idle"
  /\ stands' = Put(stands, b, "allocates")
  /\ asked' = Put(asked, b, way)
  /\ moved' = Put(moved, b, <<>>)
  /\ UNCHANGED <<free, desc, info, ops, ondisk, first, avail, used, taken, intr, handling>>

(* wakeup(&disk.free[0]) *)
WakeAllocators ==
  [b \in Bufs |-> IF stands[b] = "waits_desc" THEN "allocates" ELSE stands[b]]

(* alloc3_desc() fails.  What it allocated it frees, which wakes others. *)
NoDescriptors(b) ==
  /\ stands[b] = "allocates" /\ ~handling
  /\ Cardinality(free) < 3
  /\ stands' = Put(IF free = {} THEN stands ELSE WakeAllocators, b, "waits_desc")
  /\ UNCHANGED <<free, desc, info, ops, ondisk, first, asked, avail, used, taken, intr,
                 handling, moved>>

(* alloc_desc(), n times: the lowest are allocated first. *)
Lowest(n) == CHOOSE ds \in SUBSET free :
  Cardinality(ds) = n /\ \A d \in ds, o \in free \ ds : d < o

Chain(h, m, s, b) ==
  [desc EXCEPT ![h] = [addr |-> "op", of |-> h, next |-> m],
               ![m] = [addr |-> "data", of |-> b, next |-> s],
               ![s] = [addr |-> "status", of |-> h, next |-> NoDesc]]

(* The chain is made and given to the device; then sleep(). *)
Submit(b) ==
  LET ds == Lowest(3)
      h == CHOOSE d \in ds : \A o \in ds : d <= o
      s == CHOOSE d \in ds : \A o \in ds : d >= o
      m == CHOOSE d \in ds : d # h /\ d # s IN
  /\ stands[b] = "allocates" /\ ~handling
  /\ Cardinality(free) >= 3
  /\ free' = free \ ds
  /\ ops' = Put(ops, h, [way |-> asked[b], sector |-> b])
  /\ desc' = Chain(h, m, s, b)
  /\ info' = Put(info, h, [b |-> b, ok |-> FALSE])
  /\ ondisk' = Put(ondisk, b, TRUE)
  /\ first' = Put(first, b, h)
  /\ avail' = Append(avail, h)
  /\ stands' = Put(stands, b, "waits_disk")
  /\ UNCHANGED <<asked, used, taken, intr, handling, moved>>

(* The descriptors of the chain from d; free_chain() follows next. *)
ChainFrom(d) ==
  LET m == desc[d].next IN
  IF m = NoDesc THEN {d} ELSE {d, m} \cup ({desc[m].next} \ {NoDesc})

(* Woken by a kill(), it sleeps again. *)
StillOnDisk(b) ==
  /\ stands[b] = "woken" /\ ~handling /\ ondisk[b]
  /\ stands' = Put(stands, b, "waits_disk")
  /\ UNCHANGED <<free, desc, info, ops, ondisk, first, asked, avail, used, taken, intr,
                 handling, moved>>

(* A plausible bug: b->disk is not looked at again after sleep(). *)
FinishedWoken(b) ==
  LET ds == ChainFrom(first[b]) IN
  /\ stands[b] = "woken" /\ ~handling
  /\ info' = [info EXCEPT ![first[b]].b = NoBuf]
  /\ free' = free \cup ds
  /\ desc' = [d \in Descs |-> IF d \in ds THEN Unused ELSE desc[d]]
  /\ stands' = Put(WakeAllocators, b, "returned")
  /\ first' = Put(first, b, NoDesc)
  /\ UNCHANGED <<ops, ondisk, asked, avail, used, taken, intr, handling, moved>>

(* virtio_disk_rw() frees the chain and returns. *)
Finished(b) ==
  LET ds == ChainFrom(first[b]) IN
  /\ stands[b] = "woken" /\ ~handling /\ ~ondisk[b]
  /\ info' = [info EXCEPT ![first[b]].b = NoBuf]
  /\ free' = free \cup ds
  /\ desc' = [d \in Descs |-> IF d \in ds THEN Unused ELSE desc[d]]
  /\ stands' = Put(WakeAllocators, b, "returned")
  /\ first' = Put(first, b, NoDesc)
  /\ UNCHANGED <<ops, ondisk, asked, avail, used, taken, intr, handling, moved>>

(* What it returned for is used; the buffer is free for another transfer.  *)
BufReleased(b) ==
  /\ stands[b] = "returned"
  /\ stands' = Put(stands, b, "idle")
  /\ moved' = Put(moved, b, <<>>)
  /\ asked' = Put(asked, b, "none")
  /\ UNCHANGED <<free, desc, info, ops, ondisk, first, avail, used, taken, intr, handling>>

(* kill() wakes the process, which looks again at what it waits for. *)
VirtioKill(b) ==
  /\ stands[b] \in {"waits_desc", "waits_disk"}
  /\ stands' = Put(stands, b, IF stands[b] = "waits_disk" THEN "woken" ELSE "allocates")
  /\ UNCHANGED <<free, desc, info, ops, ondisk, first, asked, avail, used, taken, intr,
                 handling, moved>>

(* virtio_disk_intr() up to its loop: "the device won't raise another      *)
(* interrupt until we tell it we've seen this interrupt".                  *)
IntrAck ==
  /\ intr /\ ~handling
  /\ intr' = FALSE
  /\ handling' = TRUE
  /\ UNCHANGED <<driverVars, avail, used, taken, moved>>

IntrLoop ==
  LET b == info[Head(used)].b IN
  /\ handling /\ used # <<>>
  /\ ondisk' = Put(ondisk, b, FALSE)
  /\ stands' = IF stands[b] = "waits_disk" THEN Put(stands, b, "woken") ELSE stands
  /\ used' = Tail(used)
  /\ UNCHANGED <<free, desc, info, ops, first, asked, avail, taken, intr, handling, moved>>

IntrEnd ==
  /\ handling /\ used = <<>>
  /\ handling' = FALSE
  /\ UNCHANGED <<driverVars, avail, used, taken, intr, moved>>

-----------------------------------------------------------------------------
(* The device *)

Take ==
  /\ avail # <<>>
  /\ taken' = taken \cup {Head(avail)}
  /\ avail' = Tail(avail)
  /\ UNCHANGED <<driverVars, used, intr, handling, moved>>

(* It follows the chain when it transfers the data and writes the status.  *)
Complete(h) ==
  LET d == desc[h].next
      b == desc[d].of
      op == ops[desc[h].of] IN
  /\ h \in taken
  /\ taken' = taken \ {h}
  /\ moved' = Put(moved, b, Append(moved[b], op))
  /\ info' = [info EXCEPT ![desc[desc[d].next].of].ok = TRUE]
  /\ used' = Append(used, h)
  /\ intr' = TRUE
  /\ UNCHANGED <<free, desc, ops, ondisk, stands, first, asked, avail, handling>>

VirtioNext ==
  \/ \E b \in Bufs :
       \/ NoDescriptors(b) \/ Submit(b) \/ StillOnDisk(b) \/ Finished(b)
       \/ BufReleased(b) \/ VirtioKill(b) \/ \E way \in {"read", "write"} : Ask(b, way)
  \/ IntrAck \/ IntrLoop \/ IntrEnd \/ Take
  \/ \E h \in Descs : Complete(h)

VirtioSpec == VirtioInit /\ [][VirtioNext]_viVars

-----------------------------------------------------------------------------
(* Properties *)

InFlight(b) == stands[b] \in {"waits_disk", "woken"}

(* A request is done once, in the direction asked for, between the buffer  *)
(* and its own sector, before virtio_disk_rw() returns.                    *)
DoneOnce ==
  \A b \in Bufs :
    /\ stands[b] = "returned" => moved[b] = <<[way |-> asked[b], sector |-> b]>>
    /\ InFlight(b) => Len(moved[b]) <= 1

(* The requests under way have chains of three descriptors that nobody     *)
(* else has and that are not free, and the handler finds a finished one:   *)
(* nothing panics.                                                         *)
ChainsApart ==
  /\ \A b \in Bufs : InFlight(b) =>
       LET ds == ChainFrom(first[b]) IN
       /\ Cardinality(ds) = 3 /\ ds \cap free = {}
       /\ info[first[b]].b = b
       /\ \A o \in Bufs \ {b} : InFlight(o) => ds \cap ChainFrom(first[o]) = {}
  /\ NUM = Cardinality(free) + 3 * Cardinality({b \in Bufs : InFlight(b)})
  /\ \A k \in 1 .. Len(used) : info[used[k]].ok /\ info[used[k]].b # NoBuf

(* Who waits for descriptors or for the disk has a reason, and the         *)
(* interrupt that ends it will come.                                       *)
DiskWaitsHaveCause ==
  \A b \in Bufs :
    /\ stands[b] = "waits_desc" => Cardinality(free) < 3
    /\ stands[b] = "waits_disk" =>
         /\ ondisk[b]
         /\ \/ first[b] \in taken \/ \E k \in 1 .. Len(avail) : avail[k] = first[b]
            \/ (handling \/ intr) /\ \E k \in 1 .. Len(used) : used[k] = first[b]
=============================================================================
