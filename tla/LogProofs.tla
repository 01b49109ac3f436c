----------------------------- MODULE LogProofs -----------------------------
(***************************************************************************)
(* Proofs about Log for any number of processes and blocks and any size of *)
(* the log: its types, that the log is never overrun, and that operations  *)
(* are atomic across crashes (Log implements AtomicDisk).                  *)
(***************************************************************************)
EXTENDS Log, FiniteSetTheorems, TLAPS

USE LogAssumption

(* A block list, of the header or of lh: each block once, within the log.  *)
BlockLists ==
  {l \in Seq(Home) : /\ Len(l) <= LOGBLOCKS
                     /\ \A s, t \in 1 .. Len(l) : l[s] = l[t] => s = t}

Stages == {"none", "log", "install", "done", "boot", "recover"}

LogTypeOK ==
  /\ disk_home \in [Home -> Data]
  /\ disk_log \in [LogSlots -> Data]
  /\ disk_head \in BlockLists
  /\ cache \in [Home -> Data \cup {NotCached}]
  /\ ref \in [Home -> Nat]
  /\ holder \in [Home -> Ops \cup {NoOp}]
  /\ lh \in BlockLists
  /\ outstanding \in Nat
  /\ committing \in BOOLEAN
  /\ op \in [Ops -> {"idle", "begin", "asleep", "op", "holds", "reads", "commits"}]
  /\ written \in [Ops -> SUBSET Home]
  /\ stage \in Stages
  /\ upto \in 0 .. Len(lh)

(* The blocks that write_log() has still to copy, or install_trans() to    *)
(* install: log_write() has pinned their buffers.                          *)
Pinned(b) ==
  /\ Up
  /\ \E s \in 1 .. Len(lh) : lh[s] = b /\ (stage = "install" => upto < s)

(* b->refcnt counts the pin and the holder, and who holds a buffer is at   *)
(* the place in the code that releases it.                                 *)
BufInv ==
  /\ \A b \in Home :
       ref[b] = (IF holder[b] = NoOp THEN 0 ELSE 1) + (IF Pinned(b) THEN 1 ELSE 0)
  /\ \A b \in Home : holder[b] # NoOp => Up /\ op[holder[b]] \in {"holds", "reads"}
  /\ \A b, c \in Home : holder[b] # NoOp /\ holder[b] = holder[c] => b = c

Active == {p \in Ops : InOp(p)}

(* log.outstanding counts the operations under way; there are none while   *)
(* a transaction commits or the log is recovered.                          *)
OpInv ==
  /\ outstanding = Cardinality(Active)
  /\ stage # "none" => Active = {}
  /\ committing <=> stage \in {"log", "install", "done"}
  /\ stage \in {"boot", "done"} => lh = <<>>
  /\ stage = "none" /\ Active = {} => lh = <<>>

(* The slots of the log that operations under way may still ask for. *)
Claims ==
  {c \in Ops \X (1 .. MAXOPBLOCKS) : InOp(c[1]) /\ Cardinality(written[c[1]]) < c[2]}

(* begin_op()'s reservation: what is logged and may be logged fits.        *)
RoomInv ==
  /\ Len(lh) + Cardinality(Claims) <= LOGBLOCKS
  /\ \A p \in Ops : InOp(p) =>
       /\ Cardinality(written[p]) <= OpWrites
       /\ \A b \in written[p] : Logged(lh, b)
  /\ \A p \in Ops : ~InOp(p) => written[p] = {}

(* What the disk, the log and the cache say of a block: only a pinned      *)
(* buffer may differ from the disk, and copies made so far are equal.      *)
CopyInv ==
  /\ \A b \in Home : IF Pinned(b) THEN cache[b] # NotCached
                                  ELSE cache[b] \in {NotCached, disk_home[b]}
  /\ stage \in {"none", "log", "done"} => disk_head = <<>>
  /\ stage \in {"install", "recover"} => disk_head = lh
  /\ stage = "log" => \A s \in 1 .. upto : disk_log[s] = cache[lh[s]]
  /\ stage = "install" => \A s \in upto + 1 .. Len(lh) : disk_log[s] = cache[lh[s]]
  /\ stage \in {"install", "recover"} =>
       \A s \in 1 .. upto : disk_home[lh[s]] = disk_log[s]

IInv == LogTypeOK /\ BufInv /\ OpInv /\ RoomInv /\ CopyInv

-----------------------------------------------------------------------------
(* Lemmas about the operators *)

(* Sets of processes and of claims are finite. *)
LEMMA Finite ==
  /\ IsFiniteSet(Active) /\ Cardinality(Active) \in Nat
  /\ IsFiniteSet(Claims) /\ Cardinality(Claims) \in Nat
  /\ \A T \in SUBSET Home : IsFiniteSet(T) /\ Cardinality(T) \in Nat
<1>1. IsFiniteSet(Ops) /\ Active \in SUBSET Ops
  BY DEF Active
<1>2. IsFiniteSet(Active)
  BY <1>1, FS_Subset
<1>3. IsFiniteSet(1 .. MAXOPBLOCKS)
  BY FS_Interval
<1>4. IsFiniteSet(Ops \X (1 .. MAXOPBLOCKS))
  BY <1>1, <1>3, FS_Product
<1>5. Claims \in SUBSET (Ops \X (1 .. MAXOPBLOCKS))
  BY DEF Claims
<1>6. IsFiniteSet(Claims)
  BY <1>4, <1>5, FS_Subset
<1>7. \A T \in SUBSET Home : IsFiniteSet(T)
  BY FS_Subset
<1>8. QED
  BY <1>2, <1>6, <1>7, FS_CardinalityType

(* Appending a block that is not listed keeps each block once. *)
LEMMA AppendToList ==
  ASSUME NEW l \in BlockLists, NEW b \in Home, ~Logged(l, b), Len(l) < LOGBLOCKS
  PROVE  /\ Append(l, b) \in BlockLists
         /\ Len(Append(l, b)) = Len(l) + 1
         /\ Append(l, b)[Len(l) + 1] = b
         /\ \A s \in 1 .. Len(l) : Append(l, b)[s] = l[s]
<1> DEFINE m == Append(l, b)
<1>1. l \in Seq(Home) /\ Len(l) \in Nat
  BY DEF BlockLists
<1>2. m \in Seq(Home) /\ Len(m) = Len(l) + 1 /\ m[Len(l) + 1] = b
  BY <1>1
<1>3. \A s \in 1 .. Len(l) : m[s] = l[s] /\ l[s] # b
  BY <1>1 DEF Logged
<1>4. \A s, t \in 1 .. Len(l) : l[s] = l[t] => s = t
  BY DEF BlockLists
<1>5. \A s \in 1 .. Len(m) : s \in 1 .. Len(l) \/ s = Len(l) + 1
  BY <1>1, <1>2
<1> HIDE DEF m
<1>6. \A s, t \in 1 .. Len(m) : m[s] = m[t] => s = t
  BY <1>2, <1>3, <1>4, <1>5
<1>7. m \in BlockLists
  BY <1>1, <1>2, <1>6 DEF BlockLists
<1>8. QED
  BY <1>2, <1>3, <1>7 DEF m

(* The empty list. *)
LEMMA EmptyList == <<>> \in BlockLists /\ Len(<<>>) = 0
  BY DEF BlockLists

(* A block that an operation under way may still log has a free slot.      *)
LEMMA LogHasRoom ==
  ASSUME LogTypeOK, RoomInv, NEW p \in Ops, InOp(p), Cardinality(written[p]) < OpWrites
  PROVE  Len(lh) < LOGBLOCKS
<1> DEFINE c == <<p, Cardinality(written[p]) + 1>>
<1>1. Cardinality(written[p]) \in Nat /\ Len(lh) \in Nat
  BY Finite DEF LogTypeOK, BlockLists
<1>2. c \in Claims
  BY <1>1 DEF Claims
<1>3. Cardinality(Claims) # 0
  BY <1>2, Finite, FS_EmptySet
<1>4. QED
  BY <1>1, <1>3, Finite DEF RoomInv

(* What log_write() may add: a block that is not logged was not written by *)
(* this operation, which may still write another.                          *)
LEMMA NewBlock ==
  ASSUME LogTypeOK, RoomInv, NEW p \in Ops, NEW b \in Home, InOp(p),
         Cardinality(written[p] \cup {b}) <= OpWrites, ~Logged(lh, b)
  PROVE  /\ Cardinality(written[p] \cup {b}) = Cardinality(written[p]) + 1
         /\ Len(lh) < LOGBLOCKS
<1>1. b \notin written[p] /\ written[p] \in SUBSET Home
  BY DEF LogTypeOK, RoomInv
<1>2. Cardinality(written[p] \cup {b}) = Cardinality(written[p]) + 1
  BY <1>1, Finite, FS_AddElement
<1>3. Cardinality(written[p]) < OpWrites
  BY <1>1, <1>2, Finite
<1>4. QED
  BY <1>2, <1>3, LogHasRoom

(* The block at the place where a loop over lh is. *)
LEMMA NextBlock ==
  ASSUME LogTypeOK, upto < Len(lh)
  PROVE  /\ upto + 1 \in 1 .. Len(lh) /\ upto + 1 \in LogSlots
         /\ lh[upto + 1] \in Home
  BY DEF LogTypeOK, BlockLists, LogSlots

(* A buffer that somebody holds or that is pinned is counted. *)
LEMMA RefCounted ==
  ASSUME LogTypeOK, BufInv, NEW b \in Home
  PROVE  /\ holder[b] # NoOp \/ Pinned(b) => ref[b] - 1 \in Nat
         /\ ref[b] = 0 => holder[b] = NoOp /\ ~Pinned(b)
<1>1. ref[b] = (IF holder[b] = NoOp THEN 0 ELSE 1) + (IF Pinned(b) THEN 1 ELSE 0)
  BY DEF BufInv
<1>2. CASE Pinned(b)
  BY <1>1, <1>2
<1>3. CASE ~Pinned(b)
  BY <1>1, <1>3
<1>4. QED
  BY <1>2, <1>3

(* A pinned buffer has contents. *)
LEMMA PinnedData ==
  ASSUME LogTypeOK, CopyInv, NEW b \in Home, Pinned(b)
  PROVE  cache[b] \in Data /\ Cached(b) = cache[b]
  BY DEF LogTypeOK, CopyInv, Cached

-----------------------------------------------------------------------------
(* At the start the log is empty and nothing is cached. *)
LEMMA InitInv == LogInit => IInv
<1> SUFFICES ASSUME LogInit PROVE IInv
  OBVIOUS
<1>1. PICK v \in Data : disk_log = [s \in LogSlots |-> v]
  BY DEF LogInit
<1>2. disk_log \in [LogSlots -> Data]
  BY <1>1
<1>3. /\ cache \in [Home -> Data \cup {NotCached}]
       /\ ref \in [Home -> Nat]
       /\ holder \in [Home -> Ops \cup {NoOp}]
  BY DEF LogInit
<1>4. /\ written \in [Ops -> SUBSET Home]
       /\ op \in [Ops -> {"idle", "begin", "asleep", "op", "holds", "reads", "commits"}]
  BY DEF LogInit
<1>5. /\ disk_home \in [Home -> Data] /\ disk_head = <<>> /\ lh = <<>> /\ upto = 0
       /\ outstanding = 0 /\ committing = FALSE /\ stage = "none"
  BY DEF LogInit
<1>6. disk_head \in BlockLists /\ lh \in BlockLists /\ upto \in 0 .. Len(lh)
  BY <1>5, EmptyList
<1>7. outstanding \in Nat /\ committing \in BOOLEAN /\ stage \in Stages
  BY <1>5 DEF Stages
<1>8. LogTypeOK
  BY <1>2, <1>3, <1>4, <1>5, <1>6, <1>7 DEF LogTypeOK
<1>9. Active = {} /\ Claims = {}
  BY DEF LogInit, Active, Claims, InOp
<1>10. Cardinality(Active) = 0 /\ Cardinality(Claims) = 0
  BY <1>9, FS_EmptySet
<1>11. \A b \in Home : ~Pinned(b)
  BY EmptyList DEF LogInit, Pinned
<1>12. BufInv
  BY <1>11 DEF LogInit, BufInv
<1>13. OpInv
  BY <1>9, <1>10 DEF LogInit, OpInv
<1>14. RoomInv
  BY <1>10, EmptyList DEF LogInit, RoomInv, InOp
<1>15. CopyInv
  BY <1>11 DEF LogInit, CopyInv
<1>16. QED
  BY <1>8, <1>12, <1>13, <1>14, <1>15 DEF IInv

(* Every step keeps every variable in its range: a reference count does    *)
(* not fall below 0, a list names no block twice and fits in the log.      *)
LEMMA NextTypeOK == IInv /\ [LogNext]_logVars => LogTypeOK'
<1> SUFFICES ASSUME LogTypeOK, BufInv, OpInv, RoomInv, CopyInv, [LogNext]_logVars
             PROVE  LogTypeOK'
  BY DEF IInv
<1> USE DEF LogTypeOK, Stages, diskVars, cacheVars, memVars, Put
<1>1. CASE UNCHANGED logVars
  BY <1>1 DEF logVars
<1>2. ASSUME NEW p \in Ops, BeginOp(p) PROVE LogTypeOK'
  BY <1>2 DEF BeginOp
<1>3. ASSUME NEW p \in Ops, EndOp(p) PROVE LogTypeOK'
  <2>1. p \in Active
    BY <1>3 DEF EndOp, Active, InOp
  <2>2. outstanding - 1 \in Nat
    BY <2>1, Finite, FS_EmptySet DEF OpInv
  <2>3. 0 \in 0 .. Len(lh)
    BY DEF BlockLists
  <2>4. QED
    BY <1>3, <2>2, <2>3 DEF EndOp, Woken
<1>4. ASSUME NEW p \in Ops, NEW b \in Home, Bread(p, b) PROVE LogTypeOK'
  BY <1>4 DEF Bread, Cached
<1>5. ASSUME NEW p \in Ops, NEW b \in Home, Brelse(p, b) PROVE LogTypeOK'
  <2>1. ref[b] - 1 \in Nat
    BY <1>5, RefCounted DEF Brelse
  <2>2. QED
    BY <1>5, <2>1 DEF Brelse
<1>6. ASSUME NEW p \in Ops, NEW b \in Home, NEW v \in Data, LogWrite(p, b, v)
      PROVE  LogTypeOK'
  <2>1. ref[b] - 1 \in Nat
    BY <1>6, RefCounted DEF LogWrite
  <2>2. CASE Logged(lh, b)
    BY <1>6, <2>1, <2>2 DEF LogWrite
  <2>3. CASE ~Logged(lh, b)
    <3>1. Append(lh, b) \in BlockLists /\ Len(Append(lh, b)) = Len(lh) + 1
      BY <1>6, <2>3, NewBlock, AppendToList DEF LogWrite, InOp
    <3>2. lh' = Append(lh, b) /\ upto' = upto /\ ref' = ref
      BY <1>6, <2>3 DEF LogWrite
    <3>3. lh' \in BlockLists /\ upto' \in 0 .. Len(lh')
      BY <3>1, <3>2 DEF BlockLists
    <3>4. QED
      BY <1>6, <3>2, <3>3 DEF LogWrite
  <2>4. QED
    BY <2>2, <2>3
<1>7. ASSUME NEW b \in Home, Recycle(b) PROVE LogTypeOK'
  BY <1>7 DEF Recycle
<1>8. CASE WriteLog
  <2>1. Pinned(lh[upto + 1])
    BY <1>8, NextBlock DEF WriteLog, Pinned, Up
  <2>2. cache[lh[upto + 1]] \in Data /\ upto + 1 \in LogSlots /\ upto + 1 \in 0 .. Len(lh)
    BY <1>8, <2>1, NextBlock, PinnedData DEF WriteLog
  <2>3. QED
    BY <1>8, <2>2 DEF WriteLog
<1>9. CASE WriteHead
  BY <1>9, EmptyList DEF WriteHead, Enters, BlockLists
<1>10. CASE InstallTrans
  <2>1. Pinned(lh[upto + 1])
    BY <1>10, NextBlock DEF InstallTrans, Pinned, Up
  <2>2. ref[lh[upto + 1]] - 1 \in Nat
    BY <1>10, <2>1, NextBlock, RefCounted DEF InstallTrans
  <2>3. upto + 1 \in 0 .. Len(lh) /\ lh[upto + 1] \in Home /\ disk_log[upto + 1] \in Data
    BY <1>10, NextBlock DEF InstallTrans
  <2>4. QED
    BY <1>10, <2>2, <2>3 DEF InstallTrans
<1>11. CASE EraseHead
  BY <1>11, EmptyList DEF EraseHead, Enters
<1>12. ASSUME NEW p \in Ops, Committed(p) PROVE LogTypeOK'
  <2>1. op' \in [Ops -> {"idle", "begin", "asleep", "op", "holds", "reads", "commits"}]
    BY <1>12 DEF Committed, Woken
  <2>2. 0 \in 0 .. Len(lh)
    BY DEF BlockLists
  <2>3. QED
    BY <1>12, <2>1, <2>2 DEF Committed, Enters
<1>13. CASE ReadHead
  BY <1>13 DEF ReadHead, Enters, BlockLists
<1>14. CASE Recover
  <2>1. upto + 1 \in 0 .. Len(lh) /\ lh[upto + 1] \in Home /\ disk_log[upto + 1] \in Data
    BY <1>14, NextBlock DEF Recover
  <2>2. QED
    BY <1>14, <2>1 DEF Recover
<1>15. CASE ClearLog
  BY <1>15, EmptyList DEF ClearLog, Enters
<1>16. CASE PowerFails
  <2>1. /\ cache' \in [Home -> Data \cup {NotCached}]
        /\ ref' \in [Home -> Nat]
        /\ holder' \in [Home -> Ops \cup {NoOp}]
    BY <1>16 DEF PowerFails
  <2>2. /\ written' \in [Ops -> SUBSET Home]
        /\ op' \in [Ops -> {"idle", "begin", "asleep", "op", "holds", "reads", "commits"}]
    BY <1>16 DEF PowerFails
  <2>3. /\ UNCHANGED <<disk_home, disk_log, disk_head>> /\ lh' = <<>> /\ upto' = 0
        /\ outstanding' = 0 /\ committing' = FALSE /\ stage' = "boot"
    BY <1>16 DEF PowerFails, Enters
  <2>4. lh' \in BlockLists /\ upto' \in 0 .. Len(lh')
    BY <2>3, EmptyList
  <2>5. outstanding' \in Nat /\ committing' \in BOOLEAN /\ stage' \in Stages
    BY <2>3
  <2>6. QED
    BY <2>1, <2>2, <2>3, <2>4, <2>5
<1>17. QED
  BY <1>1, <1>2, <1>3, <1>4, <1>5, <1>6, <1>7, <1>8, <1>9, <1>10, <1>11, <1>12,
     <1>13, <1>14, <1>15, <1>16 DEF LogNext, OpStep, CommitStep, RecoverStep

-----------------------------------------------------------------------------
(* Which buffers are pinned after a step *)

(* A step that leaves lh and the place in the commit alone pins nothing.   *)
LEMMA PinnedFrame ==
  ASSUME UNCHANGED <<lh, stage, upto>>, NEW c \in Home
  PROVE  Pinned(c)' <=> Pinned(c)
  BY DEF Pinned, Up

(* Who is in an operation is not in a commit. *)
LEMMA InOpStage ==
  ASSUME OpInv, NEW p \in Ops, InOp(p)
  PROVE  stage = "none" /\ ~committing
  BY DEF OpInv, Active

(* log_write() pins its block, if it is not pinned already. *)
LEMMA LogWritePins ==
  ASSUME LogTypeOK, OpInv, RoomInv, NEW p \in Ops, NEW b \in Home, NEW v \in Data,
         LogWrite(p, b, v), NEW c \in Home
  PROVE  /\ Pinned(c)' <=> Pinned(c) \/ c = b
         /\ Logged(lh, b) <=> Pinned(b)
<1>1. stage = "none" /\ stage' = stage
  BY InOpStage DEF LogWrite, InOp
<1>2. \A d \in Home : Pinned(d) <=> Logged(lh, d)
  BY <1>1 DEF Pinned, Up, Logged
<1>3. Pinned(c)' <=> \E s \in 1 .. Len(lh') : lh'[s] = c
  BY <1>1 DEF Pinned, Up
<1>4. CASE Logged(lh, b)
  <2>1. lh' = lh
    BY <1>4 DEF LogWrite
  <2>2. QED
    BY <1>2, <1>3, <1>4, <2>1 DEF Logged
<1>5. CASE ~Logged(lh, b)
  <2>1. lh' = Append(lh, b)
    BY <1>5 DEF LogWrite
  <2>2. Len(lh) < LOGBLOCKS
    BY <1>5, NewBlock DEF LogWrite, InOp
  <2>3. /\ Len(lh') = Len(lh) + 1 /\ lh'[Len(lh) + 1] = b
        /\ \A s \in 1 .. Len(lh) : lh'[s] = lh[s]
    BY <1>5, <2>1, <2>2, AppendToList DEF LogTypeOK
  <2>4. Len(lh) \in Nat
    BY DEF LogTypeOK, BlockLists
  <2>5. \A s \in 1 .. Len(lh') : s \in 1 .. Len(lh) \/ s = Len(lh) + 1
    BY <2>3, <2>4
  <2>6. Pinned(c)' => Pinned(c) \/ c = b
    BY <1>2, <1>3, <2>3, <2>5 DEF Logged
  <2>7. Logged(lh, c) => Pinned(c)'
    BY <1>3, <2>3, <2>4 DEF Logged
  <2>8. Pinned(b)'
    <3>1. Len(lh) + 1 \in 1 .. Len(lh')
      BY <2>3, <2>4
    <3>2. QED
      BY <1>1, <2>3, <3>1 DEF Pinned, Up
  <2>9. QED
    BY <1>2, <1>5, <2>6, <2>7, <2>8
<1>6. QED
  BY <1>4, <1>5

(* The end of an operation, the copies to the log and the header pin       *)
(* nothing and unpin nothing.                                              *)
LEMMA CommitPins ==
  ASSUME LogTypeOK, OpInv, NEW c \in Home,
         (\E p \in Ops : EndOp(p) \/ Committed(p)) \/ WriteLog \/ WriteHead
  PROVE  Pinned(c)' <=> Pinned(c)
<1>1. ASSUME NEW p \in Ops, EndOp(p) PROVE Pinned(c)' <=> Pinned(c)
  <2>1. stage = "none" /\ stage' \in {"none", "log", "done"} /\ lh' = lh
    BY <1>1, InOpStage DEF EndOp, InOp
  <2>2. QED
    BY <2>1 DEF Pinned, Up
<1>2. ASSUME NEW p \in Ops, Committed(p) PROVE Pinned(c)' <=> Pinned(c)
  BY <1>2 DEF Committed, Enters, Pinned, Up
<1>3. CASE WriteLog
  BY <1>3 DEF WriteLog, Pinned, Up, memVars
<1>4. CASE WriteHead
  BY <1>4 DEF WriteHead, Enters, Pinned, Up, memVars
<1>5. QED
  BY <1>1, <1>2, <1>3, <1>4

(* install_trans() unpins the block it installs. *)
LEMMA InstallPins ==
  ASSUME LogTypeOK, InstallTrans, NEW c \in Home
  PROVE  /\ Pinned(c)' <=> Pinned(c) /\ c # lh[upto + 1]
         /\ Pinned(lh[upto + 1])
<1>1. stage = "install" /\ stage' = stage /\ lh' = lh /\ upto' = upto + 1 /\ upto < Len(lh)
  BY DEF InstallTrans, memVars
<1>2. upto \in Nat /\ Len(lh) \in Nat /\ upto + 1 \in 1 .. Len(lh)
  BY <1>1, NextBlock DEF LogTypeOK, BlockLists
<1>3. \A s, t \in 1 .. Len(lh) : lh[s] = lh[t] => s = t
  BY DEF LogTypeOK, BlockLists
<1>4. \A s \in 1 .. Len(lh) : upto < s <=> upto + 1 < s \/ s = upto + 1
  BY <1>2
<1>5. Pinned(c)' <=> \E s \in 1 .. Len(lh) : lh[s] = c /\ upto + 1 < s
  BY <1>1 DEF Pinned, Up
<1>6. Pinned(c) <=> \E s \in 1 .. Len(lh) : lh[s] = c /\ upto < s
  BY <1>1 DEF Pinned, Up
<1>7. ~(upto + 1 < upto + 1)
  BY <1>2
<1>8. Pinned(lh[upto + 1])
  BY <1>1, <1>2, <1>4 DEF Pinned, Up
<1>9. QED
  BY <1>2, <1>3, <1>4, <1>5, <1>6, <1>7, <1>8

(* Nothing is pinned once all is installed, nor while the log is recovered *)
(* or just after a crash.                                                  *)
LEMMA NonePinned ==
  ASSUME LogTypeOK, NEW c \in Home
  PROVE  /\ EraseHead \/ RecoverStep => ~Pinned(c) /\ ~Pinned(c)'
         /\ PowerFails => ~Pinned(c)'
<1>1. EraseHead => ~Pinned(c) /\ ~Pinned(c)'
  <2> SUFFICES ASSUME EraseHead PROVE ~Pinned(c) /\ ~Pinned(c)'
    OBVIOUS
  <2>1. stage = "install" /\ upto = Len(lh) /\ lh' = <<>> /\ Len(lh) \in Nat
    BY DEF EraseHead, LogTypeOK, BlockLists
  <2>2. ~Pinned(c)
    BY <2>1 DEF Pinned
  <2>3. ~Pinned(c)'
    BY <2>1, EmptyList DEF Pinned
  <2>4. QED
    BY <2>2, <2>3
<1>2. ReadHead \/ Recover => ~Pinned(c) /\ ~Pinned(c)'
  BY DEF ReadHead, Recover, Enters, Pinned, Up
<1>3. ClearLog => ~Pinned(c) /\ ~Pinned(c)'
  BY EmptyList DEF ClearLog, Pinned, Up
<1>4. PowerFails => ~Pinned(c)'
  BY DEF PowerFails, Enters, Pinned, Up
<1>5. QED
  BY <1>1, <1>2, <1>3, <1>4 DEF RecoverStep

-----------------------------------------------------------------------------
(* Every step counts the references of each buffer: one for the pin of a   *)
(* logged block, one for the process that holds it.                        *)
LEMMA NextBufInv == IInv /\ [LogNext]_logVars => BufInv'
<1> SUFFICES ASSUME LogTypeOK, BufInv, OpInv, RoomInv, CopyInv, [LogNext]_logVars
             PROVE  BufInv'
  BY DEF IInv
<1> USE DEF Put
<1>1. CASE UNCHANGED logVars
  BY <1>1, PinnedFrame DEF BufInv, logVars, cacheVars, memVars, Up
<1>2. ASSUME NEW p \in Ops, BeginOp(p) PROVE BufInv'
  BY <1>2, PinnedFrame DEF BeginOp, BufInv, LogTypeOK, cacheVars, Up
<1>3. ASSUME NEW p \in Ops, EndOp(p) PROVE BufInv'
  <2>1. UNCHANGED <<ref, holder>> /\ Up' /\ \A c \in Home : Pinned(c)' <=> Pinned(c)
    BY <1>3, CommitPins, InOpStage DEF EndOp, InOp, cacheVars, Up
  <2>2. \A q \in Ops : op[q] \in {"holds", "reads"} => op'[q] = op[q]
    BY <1>3 DEF EndOp, Woken, LogTypeOK
  <2>3. QED
    BY <2>1, <2>2 DEF BufInv, LogTypeOK
<1>4. ASSUME NEW p \in Ops, NEW b \in Home, Bread(p, b) PROVE BufInv'
  <2>1. \A c \in Home : holder[c] # p /\ (Pinned(c)' <=> Pinned(c))
    BY <1>4, PinnedFrame DEF Bread, BufInv, memVars
  <2>2. Up' /\ op'[p] \in {"holds", "reads"} /\ \A q \in Ops \ {p} : op'[q] = op[q]
    BY <1>4 DEF Bread, LogTypeOK, Up
  <2>3. \A c \in Home : ref'[c] = (IF holder'[c] = NoOp THEN 0 ELSE 1) + (IF Pinned(c)' THEN 1 ELSE 0)
    BY <1>4, <2>1 DEF Bread, BufInv, LogTypeOK
  <2>4. QED
    BY <1>4, <2>1, <2>2, <2>3 DEF Bread, BufInv, LogTypeOK
<1>5. ASSUME NEW p \in Ops, NEW b \in Home, Brelse(p, b) PROVE BufInv'
  <2>1. \A c \in Home : Pinned(c)' <=> Pinned(c)
    BY <1>5, PinnedFrame DEF Brelse, memVars
  <2>2. \A c \in Home \ {b} : holder'[c] = holder[c] /\ holder[c] # p
    BY <1>5 DEF Brelse, BufInv, LogTypeOK
  <2>3. \A c \in Home : ref'[c] = (IF holder'[c] = NoOp THEN 0 ELSE 1) + (IF Pinned(c)' THEN 1 ELSE 0)
    BY <1>5, <2>1 DEF Brelse, BufInv, LogTypeOK
  <2>4. \A q \in Ops \ {p} : op'[q] = op[q]
    BY <1>5 DEF Brelse, LogTypeOK
  <2>5. holder'[b] = NoOp /\ (Up' <=> Up)
    BY <1>5 DEF Brelse, LogTypeOK, Up
  <2>6. \A c \in Home : holder'[c] # NoOp =>
          holder'[c] = holder[c] /\ holder[c] \in Ops \ {p} /\ c # b
    BY <2>2, <2>5 DEF LogTypeOK
  <2>7. /\ \A c \in Home : holder'[c] # NoOp => Up' /\ op'[holder'[c]] \in {"holds", "reads"}
        /\ \A c, d \in Home : holder'[c] # NoOp /\ holder'[c] = holder'[d] => c = d
    BY <2>4, <2>5, <2>6 DEF BufInv
  <2>8. QED
    BY <2>3, <2>7 DEF BufInv
<1>6. ASSUME NEW p \in Ops, NEW b \in Home, NEW v \in Data, LogWrite(p, b, v)
      PROVE  BufInv'
  <2>1. \A c \in Home : Pinned(c)' <=> Pinned(c) \/ c = b
    BY <1>6, LogWritePins
  <2>2. Logged(lh, b) <=> Pinned(b)
    BY <1>6, LogWritePins
  <2>3. \A c \in Home \ {b} : holder'[c] = holder[c] /\ holder[c] # p
    BY <1>6 DEF LogWrite, BufInv, LogTypeOK
  <2>4. \A c \in Home : ref'[c] = (IF holder'[c] = NoOp THEN 0 ELSE 1) + (IF Pinned(c)' THEN 1 ELSE 0)
    <3>1. ref[b] = IF Pinned(b) THEN 2 ELSE 1
      BY <1>6 DEF LogWrite, BufInv
    <3>2. ref'[b] = 1 /\ holder'[b] = NoOp
      BY <1>6, <2>2, <3>1 DEF LogWrite, LogTypeOK
    <3>3. \A c \in Home \ {b} : ref'[c] = ref[c]
      BY <1>6 DEF LogWrite, LogTypeOK
    <3>4. QED
      BY <2>1, <2>3, <3>2, <3>3 DEF BufInv
  <2>5. \A q \in Ops \ {p} : op'[q] = op[q]
    BY <1>6 DEF LogWrite, LogTypeOK
  <2>6. holder'[b] = NoOp /\ (Up' <=> Up)
    BY <1>6 DEF LogWrite, LogTypeOK, Up
  <2>7. \A c \in Home : holder'[c] # NoOp =>
          holder'[c] = holder[c] /\ holder[c] \in Ops \ {p} /\ c # b
    BY <2>3, <2>6 DEF LogTypeOK
  <2>8. /\ \A c \in Home : holder'[c] # NoOp => Up' /\ op'[holder'[c]] \in {"holds", "reads"}
        /\ \A c, d \in Home : holder'[c] # NoOp /\ holder'[c] = holder'[d] => c = d
    BY <2>5, <2>6, <2>7 DEF BufInv
  <2>9. QED
    BY <2>4, <2>8 DEF BufInv
<1>7. ASSUME NEW b \in Home, Recycle(b) PROVE BufInv'
  BY <1>7, PinnedFrame DEF Recycle, BufInv, memVars, Up
<1>8. CASE WriteLog
  BY <1>8, CommitPins DEF WriteLog, BufInv, cacheVars, Up
<1>9. CASE WriteHead
  <2>1. UNCHANGED <<ref, holder, op>> /\ Up' /\ \A c \in Home : Pinned(c)' <=> Pinned(c)
    BY <1>9, CommitPins DEF WriteHead, Enters, cacheVars, Up
  <2>2. QED
    BY <2>1 DEF BufInv
<1>10. CASE InstallTrans
  <2> DEFINE b == lh[upto + 1]
  <2>1. b \in Home /\ Pinned(b) /\ \A c \in Home : Pinned(c)' <=> Pinned(c) /\ c # b
    BY <1>10, InstallPins, NextBlock DEF InstallTrans
  <2>2. UNCHANGED <<holder, op>> /\ (Up' <=> Up) /\ holder[b] = NoOp
    BY <1>10 DEF InstallTrans, Up
  <2>3. ref' = [ref EXCEPT ![b] = ref[b] - 1]
    BY <1>10 DEF InstallTrans
  <2> HIDE DEF b
  <2>4. \A c \in Home : ref'[c] = (IF holder'[c] = NoOp THEN 0 ELSE 1) + (IF Pinned(c)' THEN 1 ELSE 0)
    BY <2>1, <2>2, <2>3 DEF BufInv, LogTypeOK
  <2>5. QED
    BY <2>2, <2>4 DEF BufInv
<1>11. CASE EraseHead
  <2>1. UNCHANGED <<ref, holder, op>> /\ Up' /\ \A c \in Home : ~Pinned(c) /\ ~Pinned(c)'
    BY <1>11, NonePinned DEF EraseHead, Enters, cacheVars, Up
  <2>2. QED
    BY <2>1 DEF BufInv
<1>12. ASSUME NEW p \in Ops, Committed(p) PROVE BufInv'
  <2>1. UNCHANGED <<ref, holder>> /\ Up' /\ \A c \in Home : Pinned(c)' <=> Pinned(c)
    BY <1>12, CommitPins DEF Committed, Enters, cacheVars, Up
  <2>2. \A q \in Ops : op[q] \in {"holds", "reads"} => op'[q] = op[q]
    BY <1>12 DEF Committed, Woken, LogTypeOK
  <2>3. QED
    BY <2>1, <2>2 DEF BufInv, LogTypeOK
<1>13. CASE RecoverStep
  <2>1. UNCHANGED <<ref, holder, op>> /\ ~Up
    BY <1>13 DEF RecoverStep, ReadHead, Recover, ClearLog, cacheVars, Up
  <2>2. \A c \in Home : ~Pinned(c) /\ ~Pinned(c)'
    BY <1>13, NonePinned
  <2>3. QED
    BY <2>1, <2>2 DEF BufInv
<1>14. CASE PowerFails
  <2>1. \A c \in Home : ~Pinned(c)'
    BY <1>14, NonePinned
  <2>2. \A c \in Home : ref'[c] = 0 /\ holder'[c] = NoOp
    BY <1>14 DEF PowerFails
  <2>3. QED
    BY <2>1, <2>2 DEF BufInv
<1>15. QED
  BY <1>1, <1>2, <1>3, <1>4, <1>5, <1>6, <1>7, <1>8, <1>9, <1>10, <1>11, <1>12,
     <1>13, <1>14 DEF LogNext, OpStep, CommitStep

(* Every step counts the operations under way; begin_op() lets nobody into *)
(* a commit, and only the end of the last operation starts one.            *)
LEMMA NextOpInv == IInv /\ [LogNext]_logVars => OpInv'
<1> SUFFICES ASSUME LogTypeOK, BufInv, OpInv, RoomInv, CopyInv, [LogNext]_logVars
             PROVE  OpInv'
  BY DEF IInv
<1> USE DEF Put
<1>1. CASE UNCHANGED logVars
  BY <1>1 DEF OpInv, Active, InOp, logVars, memVars
<1>2. ASSUME NEW p \in Ops, BeginOp(p) PROVE OpInv'
  <2>1. UNCHANGED <<lh, committing, stage>> /\ p \notin Active
    BY <1>2 DEF BeginOp, Active, InOp
  <2>2. CASE committing \/ Exhausts
    <3>1. outstanding' = outstanding /\ op' = [op EXCEPT ![p] = "asleep"]
      BY <1>2, <2>2 DEF BeginOp
    <3>2. Active' = Active
      BY <2>1, <3>1 DEF Active, InOp, LogTypeOK
    <3>3. QED
      BY <2>1, <3>1, <3>2 DEF OpInv
  <2>3. CASE ~(committing \/ Exhausts)
    <3>1. outstanding' = outstanding + 1 /\ op' = [op EXCEPT ![p] = "op"]
      BY <1>2, <2>3 DEF BeginOp
    <3>2. Active' = Active \cup {p}
      BY <3>1 DEF Active, InOp, LogTypeOK
    <3>3. Cardinality(Active') = Cardinality(Active) + 1
      BY <2>1, <3>2, Finite, FS_AddElement
    <3>4. stage = "none"
      BY <1>2, <2>3 DEF BeginOp, OpInv, LogTypeOK, Stages, Up
    <3>5. p \in Active'
      BY <3>2
    <3>6. QED
      BY <2>1, <3>1, <3>3, <3>4, <3>5 DEF OpInv
  <2>4. QED
    BY <2>2, <2>3
<1>3. ASSUME NEW p \in Ops, EndOp(p) PROVE OpInv'
  <2>1. p \in Active /\ stage = "none" /\ ~committing /\ lh' = lh /\ outstanding' = outstanding - 1
    BY <1>3, InOpStage DEF EndOp, InOp, Active
  <2>2. Active' = Active \ {p}
    BY <1>3 DEF EndOp, Active, InOp, Woken, LogTypeOK
  <2>3. Cardinality(Active') = Cardinality(Active) - 1
    BY <2>1, <2>2, Finite, FS_RemoveElement
  <2>4. outstanding' = Cardinality(Active')
    BY <2>1, <2>3 DEF OpInv
  <2>5. CASE outstanding = 1
    <3>1. committing' = TRUE /\ stage' = IF lh = <<>> THEN "done" ELSE "log"
      BY <1>3, <2>5 DEF EndOp
    <3>2. IsFiniteSet(Active') /\ Cardinality(Active') = 0
      BY <2>1, <2>2, <2>4, <2>5, Finite, FS_RemoveElement
    <3>3. Active' = {}
      BY <3>2, FS_EmptySet
    <3>4. QED
      BY <2>1, <2>4, <3>1, <3>3 DEF OpInv
  <2>6. CASE outstanding # 1
    <3>1. UNCHANGED <<committing, stage>>
      BY <1>3, <2>6 DEF EndOp
    <3>2. Cardinality(Active') # 0
      BY <2>1, <2>4, <2>6 DEF LogTypeOK
    <3>3. Active' # {}
      BY <3>2, FS_EmptySet
    <3>4. QED
      BY <2>1, <2>4, <3>1, <3>3 DEF OpInv
  <2>7. QED
    BY <2>5, <2>6
<1>4. ASSUME NEW p \in Ops, NEW b \in Home, Bread(p, b) PROVE OpInv'
  <2>1. Active' = Active
    BY <1>4 DEF Bread, Active, InOp, LogTypeOK
  <2>2. QED
    BY <1>4, <2>1 DEF Bread, OpInv, memVars
<1>5. ASSUME NEW p \in Ops, NEW b \in Home, Brelse(p, b) PROVE OpInv'
  <2>1. op[p] \in {"holds", "reads"}
    BY <1>5 DEF Brelse, BufInv
  <2>2. Active' = Active
    BY <1>5, <2>1 DEF Brelse, Active, InOp, LogTypeOK
  <2>3. QED
    BY <1>5, <2>2 DEF Brelse, OpInv, memVars
<1>6. ASSUME NEW p \in Ops, NEW b \in Home, NEW v \in Data, LogWrite(p, b, v)
      PROVE  OpInv'
  <2>1. Active' = Active /\ stage = "none" /\ p \in Active
    BY <1>6, InOpStage DEF LogWrite, Active, InOp, LogTypeOK
  <2>2. QED
    BY <1>6, <2>1 DEF LogWrite, OpInv
<1>7. ASSUME NEW b \in Home, Recycle(b) PROVE OpInv'
  BY <1>7 DEF Recycle, OpInv, Active, InOp, memVars
<1>8. CASE WriteLog \/ WriteHead \/ InstallTrans \/ EraseHead
  <2>1. Active' = Active /\ UNCHANGED <<outstanding, committing>>
    BY <1>8 DEF WriteLog, WriteHead, InstallTrans, EraseHead, Active, InOp, memVars
  <2>2. /\ stage \in {"log", "install"} /\ stage' \in {"log", "install", "done"}
        /\ stage' = "done" => lh' = <<>>
    BY <1>8 DEF WriteLog, WriteHead, InstallTrans, EraseHead, Enters
  <2>3. QED
    BY <2>1, <2>2 DEF OpInv
<1>9. ASSUME NEW p \in Ops, Committed(p) PROVE OpInv'
  <2>1. Active' = Active
    BY <1>9 DEF Committed, Active, InOp, Woken, LogTypeOK
  <2>2. QED
    BY <1>9, <2>1 DEF Committed, Enters, OpInv
<1>10. CASE RecoverStep
  <2>1. Active' = Active /\ UNCHANGED <<outstanding, committing>>
    BY <1>10 DEF RecoverStep, ReadHead, Recover, ClearLog, Active, InOp, memVars
  <2>2. /\ stage \in {"boot", "recover"} /\ stage' \in {"recover", "none"}
        /\ stage' = "none" => lh' = <<>>
    BY <1>10 DEF RecoverStep, ReadHead, Recover, ClearLog, Enters
  <2>3. QED
    BY <2>1, <2>2 DEF OpInv
<1>11. CASE PowerFails
  <2>1. Active' = {}
    BY <1>11 DEF PowerFails, Active, InOp
  <2>2. Cardinality(Active') = 0
    BY <2>1, FS_EmptySet
  <2>3. QED
    BY <1>11, <2>1, <2>2 DEF PowerFails, Enters, OpInv
<1>12. QED
  BY <1>1, <1>2, <1>3, <1>4, <1>5, <1>6, <1>7, <1>8, <1>9, <1>10, <1>11
  DEF LogNext, OpStep, CommitStep

(* begin_op() admits an operation only if all that it may write fits; each *)
(* new block uses up one claim of its operation.                           *)
LEMMA NextRoomInv == IInv /\ [LogNext]_logVars => RoomInv'
<1> SUFFICES ASSUME LogTypeOK, BufInv, OpInv, RoomInv, CopyInv, [LogNext]_logVars
             PROVE  RoomInv'
  BY DEF IInv
<1> USE DEF Put
<1>0. Len(lh) \in Nat
  BY DEF LogTypeOK, BlockLists
<1>a. ASSUME Active' = Active, written' = written, lh' = lh PROVE RoomInv'
  <2>1. \A p \in Ops : InOp(p)' <=> InOp(p)
    BY <1>a DEF Active
  <2>2. Claims' = Claims
    BY <1>a, <2>1 DEF Claims
  <2>3. QED
    BY <1>a, <2>1, <2>2 DEF RoomInv
<1>b. ASSUME Active' = {}, lh' \in BlockLists, written' = [p \in Ops |-> {}] PROVE RoomInv'
  <2>1. \A p \in Ops : ~InOp(p)'
    BY <1>b DEF Active
  <2>2. Claims' = {}
    BY <2>1 DEF Claims
  <2>3. Cardinality(Claims') = 0 /\ Len(lh') \in Nat /\ Len(lh') <= LOGBLOCKS
    BY <1>b, <2>2, FS_EmptySet DEF BlockLists
  <2>4. QED
    BY <1>b, <2>1, <2>3 DEF RoomInv
<1>c. stage # "none" => written = [p \in Ops |-> {}]
  BY DEF OpInv, RoomInv, Active, LogTypeOK
<1>1. CASE UNCHANGED logVars
  BY <1>1, <1>a DEF logVars, memVars, Active, InOp
<1>2. ASSUME NEW p \in Ops, BeginOp(p) PROVE RoomInv'
  <2>1. UNCHANGED <<lh, written>> /\ p \notin Active
    BY <1>2 DEF BeginOp, Active, InOp
  <2>2. CASE committing \/ Exhausts
    <3>1. Active' = Active
      BY <1>2, <2>2 DEF BeginOp, Active, InOp, LogTypeOK
    <3>2. QED
      BY <2>1, <3>1, <1>a
  <2>3. CASE ~(committing \/ Exhausts)
    <3>1. op' = [op EXCEPT ![p] = "op"]
      BY <1>2, <2>3 DEF BeginOp
    <3>2. Active' = Active \cup {p}
      BY <3>1 DEF Active, InOp, LogTypeOK
    <3>3. Cardinality(Active') = outstanding + 1 /\ IsFiniteSet(Active')
      BY <2>1, <3>2, Finite, FS_AddElement DEF OpInv
    <3>4. IsFiniteSet(1 .. MAXOPBLOCKS) /\ Cardinality(1 .. MAXOPBLOCKS) = MAXOPBLOCKS
      BY FS_Interval
    <3>5. /\ IsFiniteSet(Active' \X (1 .. MAXOPBLOCKS))
          /\ Cardinality(Active' \X (1 .. MAXOPBLOCKS)) = (outstanding + 1) * MAXOPBLOCKS
      BY <3>3, <3>4, FS_Product
    <3>6. Claims' \in SUBSET (Active' \X (1 .. MAXOPBLOCKS))
      BY DEF Claims, Active
    <3>7. IsFiniteSet(Claims') /\ Cardinality(Claims') <= (outstanding + 1) * MAXOPBLOCKS
      BY <3>5, <3>6, FS_Subset
    <3>8. Cardinality(Claims') \in Nat /\ (outstanding + 1) * MAXOPBLOCKS \in Nat
      BY <3>7, FS_CardinalityType DEF LogTypeOK
    <3>9. ~(Len(lh) + (outstanding + 1) * MAXOPBLOCKS > LOGBLOCKS)
      BY <2>3 DEF Exhausts
    <3> DEFINE n == (outstanding + 1) * MAXOPBLOCKS
    <3> HIDE DEF n
    <3>10. n \in Nat /\ ~(Len(lh) + n > LOGBLOCKS) /\ Cardinality(Claims') <= n
      BY <3>7, <3>8, <3>9 DEF n
    <3>11. Len(lh') + Cardinality(Claims') <= LOGBLOCKS
      BY <2>1, <3>8, <3>10, <1>0
    <3>12. \A q \in Ops : InOp(q)' <=> InOp(q) \/ q = p
      BY <3>1 DEF InOp, LogTypeOK
    <3>13. written[p] = {} /\ Cardinality({}) = 0
      BY <2>1, FS_EmptySet DEF RoomInv, Active
    <3>14. \A q \in Ops : InOp(q)' =>
             Cardinality(written[q]) <= OpWrites /\ \A b \in written[q] : Logged(lh, b)
      <4>1. 0 <= OpWrites
        OBVIOUS
      <4>2. QED
        BY <3>12, <3>13, <4>1 DEF RoomInv
    <3>15. \A q \in Ops : ~InOp(q)' => written[q] = {}
      BY <3>12 DEF RoomInv
    <3>16. QED
      BY <2>1, <3>11, <3>14, <3>15 DEF RoomInv
  <2>4. QED
    BY <2>2, <2>3
<1>3. ASSUME NEW p \in Ops, EndOp(p) PROVE RoomInv'
  <2>1. \A q \in Ops : InOp(q)' <=> InOp(q) /\ q # p
    BY <1>3 DEF EndOp, InOp, Woken, LogTypeOK
  <2>2. lh' = lh /\ \A q \in Ops \ {p} : written'[q] = written[q]
    BY <1>3 DEF EndOp, LogTypeOK
  <2>3. written'[p] = {}
    BY <1>3 DEF EndOp, LogTypeOK
  <2>4. Claims' \in SUBSET Claims
    BY <2>1, <2>2 DEF Claims
  <2>5. Cardinality(Claims') <= Cardinality(Claims) /\ Cardinality(Claims') \in Nat
    BY <2>4, Finite, FS_Subset, FS_CardinalityType
  <2>6. Len(lh') + Cardinality(Claims') <= LOGBLOCKS
    BY <2>2, <2>5, <1>0, Finite DEF RoomInv
  <2>7. QED
    BY <2>1, <2>2, <2>3, <2>6 DEF RoomInv
<1>4. ASSUME NEW p \in Ops, NEW b \in Home, Bread(p, b) PROVE RoomInv'
  <2>1. Active' = Active
    BY <1>4 DEF Bread, Active, InOp, LogTypeOK
  <2>2. QED
    BY <1>4, <1>a, <2>1 DEF Bread, memVars
<1>5. ASSUME NEW p \in Ops, NEW b \in Home, Brelse(p, b) PROVE RoomInv'
  <2>1. op[p] \in {"holds", "reads"}
    BY <1>5 DEF Brelse, BufInv
  <2>2. Active' = Active
    BY <1>5, <2>1 DEF Brelse, Active, InOp, LogTypeOK
  <2>3. QED
    BY <1>5, <1>a, <2>2 DEF Brelse, memVars
<1>6. ASSUME NEW p \in Ops, NEW b \in Home, NEW v \in Data, LogWrite(p, b, v)
      PROVE  RoomInv'
  <2> DEFINE n == Cardinality(written[p])
  <2> DEFINE w == written[p] \cup {b}
  <2>1. InOp(p) /\ \A q \in Ops : InOp(q)' <=> InOp(q)
    BY <1>6 DEF LogWrite, InOp, LogTypeOK
  <2>2. written'[p] = w /\ \A q \in Ops \ {p} : written'[q] = written[q]
    BY <1>6 DEF LogWrite, LogTypeOK
  <2>3. n \in Nat /\ Cardinality(w) \in Nat /\ n <= Cardinality(w) /\ Cardinality(w) <= OpWrites
    <3>1. written[p] \in SUBSET Home /\ w \in SUBSET Home /\ written[p] \in SUBSET w
      BY DEF LogTypeOK
    <3>2. QED
      BY <1>6, <3>1, Finite, FS_Subset DEF LogWrite
  <2>4. \A c \in Home : Logged(lh', c) <=> Logged(lh, c) \/ c = b
    <3>1. stage = "none" /\ stage' = stage
      BY <1>6, <2>1, InOpStage DEF LogWrite
    <3>2. \A c \in Home : (Logged(lh, c) <=> Pinned(c)) /\ (Logged(lh', c) <=> Pinned(c)')
      BY <3>1 DEF Pinned, Up, Logged
    <3>3. QED
      BY <1>6, <3>2, LogWritePins
  <2>5. \A q \in Ops : InOp(q) =>
          Cardinality(written'[q]) <= OpWrites /\ \A c \in written'[q] : Logged(lh', c)
    <3>1. \A q \in Ops : InOp(q) => written[q] \in SUBSET Home
      BY DEF LogTypeOK
    <3>2. QED
      BY <2>2, <2>3, <2>4, <3>1 DEF RoomInv
  <2>6. \A q \in Ops : ~InOp(q) => written'[q] = {}
    BY <2>1, <2>2 DEF RoomInv
  <2>7. CASE Logged(lh, b)
    <3>1. lh' = lh
      BY <1>6, <2>7 DEF LogWrite
    <3>2. Claims' \in SUBSET Claims
      <4>1. \A q \in Ops, k \in 1 .. MAXOPBLOCKS :
              Cardinality(written'[q]) < k => Cardinality(written[q]) < k
        BY <2>2, <2>3
      <4>2. QED
        BY <2>1, <4>1 DEF Claims
    <3>3. Cardinality(Claims') <= Cardinality(Claims) /\ Cardinality(Claims') \in Nat
      BY <3>2, Finite, FS_Subset, FS_CardinalityType
    <3>4. Len(lh') + Cardinality(Claims') <= LOGBLOCKS
      BY <3>1, <3>3, <1>0, Finite DEF RoomInv
    <3>5. QED
      BY <2>1, <2>5, <2>6, <3>4 DEF RoomInv
  <2>8. CASE ~Logged(lh, b)
    <3>1. lh' = Append(lh, b)
      BY <1>6, <2>8 DEF LogWrite
    <3>2. Cardinality(w) = n + 1 /\ Len(lh) < LOGBLOCKS
      BY <1>6, <2>1, <2>8, NewBlock DEF LogWrite
    <3>3. Len(lh') = Len(lh) + 1
      BY <2>8, <3>1, <3>2, AppendToList DEF LogTypeOK
    <3>4. <<p, n + 1>> \in Claims /\ <<p, n + 1>> \notin Claims'
      <4>1. n + 1 \in 1 .. MAXOPBLOCKS
        BY <2>3, <3>2
      <4>2. Cardinality(written[p]) < n + 1 /\ ~(Cardinality(written'[p]) < n + 1)
        BY <2>2, <2>3, <3>2
      <4>3. <<p, n + 1>> \in Claims
        BY <2>1, <4>1, <4>2 DEF Claims
      <4>4. <<p, n + 1>> \notin Claims'
        BY <4>2 DEF Claims
      <4>5. QED
        BY <4>3, <4>4
    <3>5. Claims' \in SUBSET (Claims \ {<<p, n + 1>>})
      <4>1. \A q \in Ops, k \in 1 .. MAXOPBLOCKS :
              Cardinality(written'[q]) < k => Cardinality(written[q]) < k
        BY <2>2, <2>3
      <4>2. Claims' \in SUBSET Claims
        BY <2>1, <4>1 DEF Claims
      <4>3. QED
        BY <3>4, <4>2
    <3>6. /\ IsFiniteSet(Claims \ {<<p, n + 1>>})
          /\ Cardinality(Claims \ {<<p, n + 1>>}) = Cardinality(Claims) - 1
      BY <3>4, Finite, FS_RemoveElement
    <3>7. Cardinality(Claims') <= Cardinality(Claims) - 1 /\ Cardinality(Claims') \in Nat
      BY <3>5, <3>6, FS_Subset, FS_CardinalityType
    <3>8. Len(lh') + Cardinality(Claims') <= LOGBLOCKS
      BY <3>3, <3>7, <1>0, Finite DEF RoomInv
    <3>9. QED
      BY <2>1, <2>5, <2>6, <3>8 DEF RoomInv
  <2>9. QED
    BY <2>7, <2>8
<1>7. ASSUME NEW b \in Home, Recycle(b) PROVE RoomInv'
  BY <1>7, <1>a DEF Recycle, Active, InOp, memVars
<1>8. CASE WriteLog \/ WriteHead \/ InstallTrans
  BY <1>8, <1>a DEF WriteLog, WriteHead, InstallTrans, Active, InOp, memVars
<1>9. ASSUME NEW p \in Ops, Committed(p) PROVE RoomInv'
  <2>1. Active' = Active
    BY <1>9 DEF Committed, Active, InOp, Woken, LogTypeOK
  <2>2. QED
    BY <1>9, <1>a, <2>1 DEF Committed
<1>10. CASE EraseHead \/ RecoverStep
  <2>1. stage # "none" /\ written' = written /\ op' = op
    BY <1>10 DEF EraseHead, RecoverStep, ReadHead, Recover, ClearLog
  <2>2. Active' = {}
    BY <2>1 DEF OpInv, Active, InOp
  <2>3. lh' \in BlockLists
    BY <1>10, EmptyList DEF EraseHead, RecoverStep, ReadHead, Recover, ClearLog, LogTypeOK, memVars
  <2>4. QED
    BY <1>b, <1>c, <2>1, <2>2, <2>3
<1>11. CASE PowerFails
  <2>1. Active' = {} /\ lh' \in BlockLists /\ written' = [p \in Ops |-> {}]
    BY <1>11, EmptyList DEF PowerFails, Active, InOp
  <2>2. QED
    BY <2>1, <1>b
<1>12. QED
  BY <1>1, <1>2, <1>3, <1>4, <1>5, <1>6, <1>7, <1>8, <1>9, <1>10, <1>11
  DEF LogNext, OpStep, CommitStep

(* Every step keeps the copies equal: to the log before the header is      *)
(* written, from the log to the home blocks after.                         *)
LEMMA NextCopyInv == IInv /\ [LogNext]_logVars => CopyInv'
<1> SUFFICES ASSUME LogTypeOK, BufInv, OpInv, RoomInv, CopyInv, [LogNext]_logVars
             PROVE  CopyInv'
  BY DEF IInv
<1> USE DEF Put
<1>0. /\ Len(lh) \in Nat /\ upto \in Nat /\ upto <= Len(lh)
      /\ \A s \in 1 .. Len(lh) : lh[s] \in Home
      /\ \A s, t \in 1 .. Len(lh) : lh[s] = lh[t] => s = t
  BY DEF LogTypeOK, BlockLists
<1>a. ASSUME UNCHANGED <<disk_home, disk_log, disk_head, cache, lh, stage, upto>>
      PROVE  CopyInv'
  BY <1>a, PinnedFrame DEF CopyInv
<1>b. /\ stage = "log" => \A s \in 1 .. Len(lh) : Pinned(lh[s])
      /\ stage = "install" => \A s \in upto + 1 .. Len(lh) : Pinned(lh[s])
  BY <1>0 DEF Pinned, Up
<1>1. CASE UNCHANGED logVars
  BY <1>1, <1>a DEF logVars, diskVars, cacheVars, memVars
<1>2. ASSUME NEW p \in Ops, BeginOp(p) PROVE CopyInv'
  BY <1>2, <1>a DEF BeginOp, diskVars, cacheVars
<1>3. ASSUME NEW p \in Ops, EndOp(p) PROVE CopyInv'
  <2>1. \A c \in Home : Pinned(c)' <=> Pinned(c)
    BY <1>3, CommitPins
  <2>2. stage = "none" /\ stage' \in {"none", "log", "done"} /\ upto' = 0
    BY <1>3, InOpStage DEF EndOp, InOp
  <2>3. UNCHANGED <<disk_home, disk_log, disk_head, cache>>
    BY <1>3 DEF EndOp, diskVars, cacheVars
  <2>4. QED
    BY <2>1, <2>2, <2>3 DEF CopyInv
<1>4. ASSUME NEW p \in Ops, NEW b \in Home, Bread(p, b) PROVE CopyInv'
  <2>1. UNCHANGED <<disk_home, disk_log, disk_head, lh, stage, upto>>
    BY <1>4 DEF Bread, diskVars, memVars
  <2>2. \A c \in Home : Pinned(c)' <=> Pinned(c)
    BY <2>1, PinnedFrame
  <2>3. cache'[b] = Cached(b) /\ \A c \in Home \ {b} : cache'[c] = cache[c]
    BY <1>4 DEF Bread, LogTypeOK
  <2>4. \A c \in Home : Pinned(c) => cache'[c] = cache[c]
    BY <2>3, PinnedData
  <2>5. \A c \in Home : ~Pinned(c) => cache'[c] \in {NotCached, disk_home[c]}
    BY <2>3 DEF CopyInv, Cached
  <2>6. \A c \in Home : IF Pinned(c)' THEN cache'[c] # NotCached
                                      ELSE cache'[c] \in {NotCached, disk_home'[c]}
    BY <2>1, <2>2, <2>4, <2>5 DEF CopyInv
  <2>7. stage = "log" => \A s \in 1 .. Len(lh) : cache'[lh[s]] = cache[lh[s]]
    BY <1>0, <1>b, <2>4
  <2>8. stage = "install" => \A s \in upto + 1 .. Len(lh) : cache'[lh[s]] = cache[lh[s]]
    BY <1>0, <1>b, <2>4
  <2>9. QED
    BY <1>0, <2>1, <2>6, <2>7, <2>8 DEF CopyInv
<1>5. ASSUME NEW p \in Ops, NEW b \in Home, Brelse(p, b) PROVE CopyInv'
  BY <1>5, <1>a DEF Brelse, diskVars, memVars
<1>6. ASSUME NEW p \in Ops, NEW b \in Home, NEW v \in Data, LogWrite(p, b, v)
      PROVE  CopyInv'
  <2>1. stage = "none" /\ stage' = stage /\ UNCHANGED <<disk_home, disk_log, disk_head>>
    BY <1>6, InOpStage DEF LogWrite, InOp, diskVars
  <2>2. \A c \in Home : Pinned(c)' <=> Pinned(c) \/ c = b
    BY <1>6, LogWritePins
  <2>3. cache'[b] # NotCached /\ \A c \in Home \ {b} : cache'[c] = cache[c]
    BY <1>6 DEF LogWrite, LogTypeOK
  <2>4. \A c \in Home : IF Pinned(c)' THEN cache'[c] # NotCached
                                      ELSE cache'[c] \in {NotCached, disk_home'[c]}
    BY <2>1, <2>2, <2>3 DEF CopyInv
  <2>5. QED
    BY <2>1, <2>4 DEF CopyInv
<1>7. ASSUME NEW b \in Home, Recycle(b) PROVE CopyInv'
  <2>1. UNCHANGED <<disk_home, disk_log, disk_head, lh, stage, upto>>
    BY <1>7 DEF Recycle, diskVars, memVars
  <2>2. \A c \in Home : Pinned(c)' <=> Pinned(c)
    BY <2>1, PinnedFrame
  <2>3. ~Pinned(b) /\ cache'[b] = NotCached /\ \A c \in Home \ {b} : cache'[c] = cache[c]
    BY <1>7, RefCounted DEF Recycle, LogTypeOK
  <2>4. \A c \in Home : Pinned(c) => cache'[c] = cache[c]
    BY <2>3
  <2>5. \A c \in Home : IF Pinned(c)' THEN cache'[c] # NotCached
                                      ELSE cache'[c] \in {NotCached, disk_home'[c]}
    BY <2>1, <2>2, <2>3 DEF CopyInv
  <2>6. stage = "log" => \A s \in 1 .. Len(lh) : cache'[lh[s]] = cache[lh[s]]
    BY <1>0, <1>b, <2>4
  <2>7. stage = "install" => \A s \in upto + 1 .. Len(lh) : cache'[lh[s]] = cache[lh[s]]
    BY <1>0, <1>b, <2>4
  <2>8. QED
    BY <1>0, <2>1, <2>5, <2>6, <2>7 DEF CopyInv
<1>8. CASE WriteLog
  <2>1. /\ stage = "log" /\ upto' = upto + 1 /\ upto + 1 \in LogSlots
        /\ UNCHANGED <<disk_home, disk_head, cache, lh, stage>>
    BY <1>8, NextBlock DEF WriteLog, cacheVars, memVars
  <2>2. \A c \in Home : Pinned(c)' <=> Pinned(c)
    BY <1>8, CommitPins
  <2>3. /\ disk_log'[upto + 1] = cache[lh[upto + 1]]
        /\ \A s \in 1 .. upto : disk_log'[s] = disk_log[s]
    BY <1>0, <1>8, <2>1 DEF WriteLog, LogTypeOK, LogSlots
  <2>4. \A s \in 1 .. upto + 1 : s \in 1 .. upto \/ s = upto + 1
    BY <1>0
  <2>5. \A s \in 1 .. upto' : disk_log'[s] = cache[lh[s]]
    BY <2>1, <2>3, <2>4 DEF CopyInv
  <2>6. QED
    BY <2>1, <2>2, <2>5 DEF CopyInv
<1>9. CASE WriteHead
  <2>1. /\ stage = "log" /\ upto = Len(lh) /\ disk_head' = lh /\ upto' = 0 /\ stage' = "install"
        /\ UNCHANGED <<disk_home, disk_log, cache, lh>>
    BY <1>9 DEF WriteHead, Enters, cacheVars, memVars
  <2>2. \A c \in Home : Pinned(c)' <=> Pinned(c)
    BY <1>9, CommitPins
  <2>3. QED
    BY <2>1, <2>2 DEF CopyInv
<1>10. CASE InstallTrans
  <2> DEFINE b == lh[upto + 1]
  <2>1. /\ stage = "install" /\ upto < Len(lh) /\ upto' = upto + 1
        /\ UNCHANGED <<disk_log, disk_head, lh, stage>>
    BY <1>10 DEF InstallTrans, memVars
  <2>2. b \in Home /\ Pinned(b) /\ \A c \in Home : Pinned(c)' <=> Pinned(c) /\ c # b
    BY <1>10, <2>1, InstallPins, NextBlock
  <2>3. /\ disk_home' = [disk_home EXCEPT ![b] = disk_log[upto + 1]]
        /\ cache' = [cache EXCEPT ![b] = disk_log[upto + 1]]
    BY <1>10 DEF InstallTrans
  <2>4. \A s \in 1 .. Len(lh) : s # upto + 1 => lh[s] # b
    BY <1>0, <2>1
  <2> HIDE DEF b
  <2>5. /\ disk_home'[b] = disk_log[upto + 1] /\ cache'[b] = disk_log[upto + 1]
        /\ \A c \in Home \ {b} : disk_home'[c] = disk_home[c] /\ cache'[c] = cache[c]
    BY <2>2, <2>3 DEF LogTypeOK
  <2>6. \A c \in Home : IF Pinned(c)' THEN cache'[c] # NotCached
                                      ELSE cache'[c] \in {NotCached, disk_home'[c]}
    BY <2>2, <2>5 DEF CopyInv
  <2>7. \A s \in upto + 2 .. Len(lh) : disk_log[s] = cache'[lh[s]]
    <3>1. \A s \in upto + 2 .. Len(lh) : s \in upto + 1 .. Len(lh) /\ s \in 1 .. Len(lh) /\ s # upto + 1
      BY <1>0
    <3>2. QED
      BY <1>0, <2>1, <2>4, <2>5, <3>1 DEF CopyInv
  <2>8. \A s \in 1 .. upto + 1 : disk_home'[lh[s]] = disk_log[s]
    <3>1. \A s \in 1 .. upto + 1 : s = upto + 1 \/ (s \in 1 .. upto /\ s \in 1 .. Len(lh) /\ s # upto + 1)
      BY <1>0, <2>1
    <3>2. QED
      BY <1>0, <2>1, <2>4, <2>5, <3>1 DEF CopyInv, b
  <2>9. upto' + 1 = upto + 2
    BY <1>0, <2>1
  <2>10. QED
    BY <2>1, <2>6, <2>7, <2>8, <2>9 DEF CopyInv
<1>11. CASE EraseHead
  <2>1. \A c \in Home : ~Pinned(c) /\ ~Pinned(c)'
    BY <1>11, NonePinned
  <2>2. disk_head' = <<>> /\ stage' = "done" /\ UNCHANGED <<disk_home, cache>>
    BY <1>11 DEF EraseHead, Enters, cacheVars
  <2>3. QED
    BY <2>1, <2>2 DEF CopyInv
<1>12. ASSUME NEW p \in Ops, Committed(p) PROVE CopyInv'
  <2>1. \A c \in Home : Pinned(c)' <=> Pinned(c)
    BY <1>12, CommitPins
  <2>2. stage = "done" /\ stage' = "none" /\ UNCHANGED <<disk_home, disk_head, cache>>
    BY <1>12 DEF Committed, Enters, diskVars, cacheVars
  <2>3. QED
    BY <2>1, <2>2 DEF CopyInv
<1>13. CASE ReadHead
  <2>1. \A c \in Home : ~Pinned(c) /\ ~Pinned(c)'
    BY <1>13, NonePinned DEF RecoverStep
  <2>2. /\ stage' = "recover" /\ upto' = 0 /\ lh' = disk_head
        /\ UNCHANGED <<disk_home, disk_head, cache>>
    BY <1>13 DEF ReadHead, Enters, diskVars, cacheVars
  <2>3. QED
    BY <2>1, <2>2 DEF CopyInv
<1>14. CASE Recover
  <2> DEFINE b == lh[upto + 1]
  <2>1. /\ stage = "recover" /\ upto < Len(lh) /\ upto' = upto + 1 /\ b \in Home
        /\ UNCHANGED <<disk_log, disk_head, lh, stage>>
    BY <1>14, NextBlock DEF Recover, memVars
  <2>2. \A c \in Home : ~Pinned(c) /\ ~Pinned(c)'
    BY <1>14, NonePinned DEF RecoverStep
  <2>3. /\ disk_home' = [disk_home EXCEPT ![b] = disk_log[upto + 1]]
        /\ cache' = [cache EXCEPT ![b] = disk_log[upto + 1]]
    BY <1>14 DEF Recover
  <2>4. \A s \in 1 .. Len(lh) : s # upto + 1 => lh[s] # b
    BY <1>0, <2>1
  <2> HIDE DEF b
  <2>5. /\ disk_home'[b] = disk_log[upto + 1] /\ cache'[b] = disk_log[upto + 1]
        /\ \A c \in Home \ {b} : disk_home'[c] = disk_home[c] /\ cache'[c] = cache[c]
    BY <2>1, <2>3 DEF LogTypeOK
  <2>6. \A c \in Home : cache'[c] \in {NotCached, disk_home'[c]}
    BY <2>2, <2>5 DEF CopyInv
  <2>7. \A s \in 1 .. upto + 1 : disk_home'[lh[s]] = disk_log[s]
    <3>1. \A s \in 1 .. upto + 1 : s = upto + 1 \/ (s \in 1 .. upto /\ s \in 1 .. Len(lh) /\ s # upto + 1)
      BY <1>0, <2>1
    <3>2. QED
      BY <1>0, <2>1, <2>4, <2>5, <3>1 DEF CopyInv, b
  <2>8. QED
    BY <2>1, <2>2, <2>6, <2>7 DEF CopyInv
<1>15. CASE ClearLog
  <2>1. \A c \in Home : ~Pinned(c) /\ ~Pinned(c)'
    BY <1>15, NonePinned DEF RecoverStep
  <2>2. disk_head' = <<>> /\ stage' = "none" /\ UNCHANGED <<disk_home, cache>>
    BY <1>15 DEF ClearLog, Enters, cacheVars
  <2>3. QED
    BY <2>1, <2>2 DEF CopyInv
<1>16. CASE PowerFails
  <2>1. \A c \in Home : ~Pinned(c)' /\ cache'[c] = NotCached
    BY <1>16, NonePinned DEF PowerFails
  <2>2. stage' = "boot"
    BY <1>16 DEF PowerFails, Enters
  <2>3. QED
    BY <2>1, <2>2 DEF CopyInv
<1>17. QED
  BY <1>1, <1>2, <1>3, <1>4, <1>5, <1>6, <1>7, <1>8, <1>9, <1>10, <1>11, <1>12,
     <1>13, <1>14, <1>15, <1>16 DEF LogNext, OpStep, CommitStep, RecoverStep

(* IInv is inductive. *)
THEOREM Invariance == LogSpec => []IInv
<1>1. LogInit => IInv
  BY InitInv
<1>2. IInv /\ [LogNext]_logVars => IInv'
  BY NextTypeOK, NextBufInv, NextOpInv, NextRoomInv, NextCopyInv DEF IInv
<1>3. QED
  BY <1>1, <1>2, PTL DEF LogSpec

(* log_write() and end_op() do not panic ("too big a transaction",         *)
(* "log_write outside of trans", "log.committing"), and when nobody is in  *)
(* an operation or a commit, everything is at home on the disk.            *)
THEOREM LogIsSafe == LogSpec => []LogWorks
<1>1. IInv => LogFits
  <2> SUFFICES ASSUME IInv, NEW p \in Ops, InOp(p)
               PROVE  /\ op[p] = "holds" /\ Cardinality(written[p]) < OpWrites => Len(lh) < LOGBLOCKS
                      /\ ~committing /\ outstanding >= 1
    BY DEF LogFits, InOp
  <2>1. ~committing /\ p \in Active
    BY InOpStage DEF IInv, Active
  <2>2. outstanding >= 1
    BY <2>1, Finite, FS_EmptySet DEF IInv, OpInv
  <2>3. QED
    BY <2>1, <2>2, LogHasRoom DEF IInv
<1>2. IInv => NothingPending
  <2> SUFFICES ASSUME IInv, outstanding = 0, ~committing, Up, NEW b \in Home
               PROVE  Cached(b) = disk_home[b]
    BY DEF NothingPending
  <2>1. Active = {} /\ stage = "none"
    BY Finite, FS_EmptySet DEF IInv, OpInv, LogTypeOK, Stages, Up
  <2>2. lh = <<>>
    BY <2>1 DEF IInv, OpInv
  <2>3. ~Pinned(b)
    BY <2>2, EmptyList DEF Pinned
  <2>4. QED
    BY <2>3 DEF IInv, CopyInv, Cached
<1>3. QED
  BY <1>1, <1>2, Invariance, PTL DEF LogWorks

(* Sleepers of begin_op(): what they wait for goes on until the wakeup().  *)
LEMMA NextBeginWaits ==
  IInv /\ BeginWaitsHaveCause /\ [LogNext]_logVars => BeginWaitsHaveCause'
<1> SUFFICES ASSUME IInv, BeginWaitsHaveCause, [LogNext]_logVars, NEW q \in Ops, op'[q] = "asleep"
             PROVE  committing' \/ (outstanding' > 0 /\ Exhausts')
  BY DEF BeginWaitsHaveCause
<1> USE DEF Put
<1>0. /\ LogTypeOK /\ OpInv /\ outstanding \in Nat /\ Len(lh) \in Nat
      /\ MAXOPBLOCKS \in Nat /\ LOGBLOCKS \in Nat /\ MAXOPBLOCKS <= LOGBLOCKS
  BY DEF IInv, LogTypeOK, BlockLists
<1>a. op[q] = "asleep" => committing \/ (outstanding > 0 /\ Exhausts)
  BY DEF BeginWaitsHaveCause
<1>b. committing <=> stage \in {"log", "install", "done"}
  BY <1>0 DEF OpInv
(* Nothing is under way before a reboot is over. *)
<1>c. stage \in {"boot", "recover"} => ~committing /\ outstanding = 0
  <2>1. stage \in {"boot", "recover"} => Active = {}
    BY <1>0 DEF OpInv
  <2>2. QED
    BY <2>1, <1>b, <1>0, FS_EmptySet DEF OpInv
<1>1. CASE UNCHANGED <<op, committing, outstanding, lh>>
  BY <1>1, <1>a DEF Exhausts
<1>2. ASSUME NEW p \in Ops, BeginOp(p) PROVE committing' \/ (outstanding' > 0 /\ Exhausts')
  <2>1. CASE committing \/ Exhausts
    <3>1. UNCHANGED <<committing, outstanding, lh>>
      BY <1>2, <2>1 DEF BeginOp
    <3>2. CASE committing
      BY <3>1, <3>2
    <3>3. CASE ~committing /\ Exhausts
      <4>1. stage = "none"
        BY <1>2, <3>3, <1>0, <1>b DEF BeginOp, Up, LogTypeOK, Stages
      <4>2. outstanding = 0 => Active = {}
        BY <1>0, Finite, FS_EmptySet DEF OpInv
      <4>3. outstanding = 0 => Len(lh) = 0
        BY <4>1, <4>2, <1>0 DEF OpInv
      <4>4. outstanding > 0
        BY <4>3, <3>3, <1>0 DEF Exhausts
      <4>5. QED
        BY <4>4, <3>1, <3>3 DEF Exhausts
    <3>4. QED
      BY <2>1, <3>2, <3>3
  <2>2. CASE ~(committing \/ Exhausts)
    <3>1. op[q] = "asleep"
      BY <1>2, <2>2, <1>0 DEF BeginOp, LogTypeOK
    <3>2. QED
      BY <2>2, <3>1, <1>a
  <2>3. QED
    BY <2>1, <2>2
<1>3. ASSUME NEW p \in Ops, EndOp(p) PROVE committing' \/ (outstanding' > 0 /\ Exhausts')
  <2>1. outstanding # 1 => op'[q] # "asleep"
    BY <1>3, <1>0 DEF EndOp, Woken, LogTypeOK
  <2>2. QED
    BY <2>1, <1>3 DEF EndOp
<1>4. ASSUME NEW p \in Ops, NEW b \in Home, Bread(p, b) \/ Brelse(p, b)
      PROVE  committing' \/ (outstanding' > 0 /\ Exhausts')
  <2>1. op[q] = "asleep" /\ UNCHANGED <<committing, outstanding, lh>>
    BY <1>4, <1>0 DEF Bread, Brelse, LogTypeOK, memVars
  <2>2. QED
    BY <2>1, <1>a DEF Exhausts
<1>5. ASSUME NEW p \in Ops, NEW b \in Home, NEW v \in Data, LogWrite(p, b, v)
      PROVE  committing' \/ (outstanding' > 0 /\ Exhausts')
  <2>1. op[q] = "asleep" /\ UNCHANGED <<committing, outstanding>>
    BY <1>5, <1>0 DEF LogWrite, LogTypeOK
  <2>2. Len(lh') \in Nat /\ Len(lh') >= Len(lh)
    BY <1>5, <1>0 DEF LogWrite, LogTypeOK, BlockLists
  <2>3. Exhausts => Exhausts'
    <3>1. PICK m \in Nat : m = (outstanding + 1) * MAXOPBLOCKS
      BY <1>0
    <3>2. Exhausts <=> Len(lh) + m > LOGBLOCKS
      BY <3>1 DEF Exhausts
    <3>3. Exhausts' <=> Len(lh') + m > LOGBLOCKS
      BY <3>1, <2>1 DEF Exhausts
    <3>4. QED
      BY <3>2, <3>3, <2>2, <1>0
  <2>4. QED
    BY <2>1, <2>3, <1>a
<1>6. CASE WriteLog \/ WriteHead \/ InstallTrans \/ Recover \/ \E b \in Home : Recycle(b)
  BY <1>6, <1>1 DEF WriteLog, WriteHead, InstallTrans, Recover, Recycle, memVars
<1>7. CASE EraseHead
  BY <1>7, <1>b DEF EraseHead
<1>8. ASSUME NEW p \in Ops, Committed(p) PROVE committing' \/ (outstanding' > 0 /\ Exhausts')
  BY <1>8, <1>0 DEF Committed, Woken, LogTypeOK
<1>9. CASE PowerFails
  BY <1>9 DEF PowerFails
<1>10. CASE ReadHead
  BY <1>10, <1>a, <1>c, <1>0 DEF ReadHead
<1>11. CASE ClearLog
  BY <1>11, <1>a, <1>c, <1>0 DEF ClearLog
<1>12. CASE UNCHANGED logVars
  BY <1>12, <1>1 DEF logVars, memVars
<1>13. QED
  BY <1>2, <1>3, <1>4, <1>5, <1>6, <1>7, <1>8, <1>9, <1>10, <1>11, <1>12
     DEF LogNext, OpStep, CommitStep, RecoverStep

(* Who sleeps in begin_op() waits for a commit to end or for an operation  *)
(* under way to end, while the log has no room: the wakeup() of end_op()   *)
(* finds every sleeper.                                                    *)
THEOREM BeginSafe == LogSpec => []BeginWaitsHaveCause
<1>1. LogInit => BeginWaitsHaveCause
  BY DEF LogInit, BeginWaitsHaveCause
<1>2. QED
  BY <1>1, Invariance, NextBeginWaits, PTL DEF LogSpec

-----------------------------------------------------------------------------
(* Refinement *)

(* What recovery makes of a block: the last logged copy, if it is logged.  *)
LEMMA RecoveredBlock ==
  ASSUME LogTypeOK, NEW b \in Home
  PROVE  /\ \A s \in 1 .. Len(disk_head) : disk_head[s] = b => Recovered[b] = disk_log[s]
         /\ ~Logged(disk_head, b) => Recovered[b] = disk_home[b]
         /\ disk_head = <<>> => Recovered[b] = disk_home[b]
         /\ Recovered[b] \in Data
<1>1. \A s, t \in 1 .. Len(disk_head) : disk_head[s] = disk_head[t] => s = t
  BY DEF LogTypeOK, BlockLists
<1>2. ASSUME NEW s \in 1 .. Len(disk_head), disk_head[s] = b
      PROVE  Recovered[b] = disk_log[s]
  <2>1. Logged(disk_head, b)
    BY <1>2 DEF Logged
  <2>2. (CHOOSE t \in 1 .. Len(disk_head) : disk_head[t] = b) = s
    BY <1>1, <1>2
  <2>3. QED
    BY <2>1, <2>2 DEF Recovered
<1>3. ~Logged(disk_head, b) => Recovered[b] = disk_home[b]
  BY DEF Recovered
<1>4. disk_head = <<>> => ~Logged(disk_head, b)
  BY EmptyList DEF Logged
<1>5. \A s \in 1 .. Len(disk_head) : disk_log[s] \in Data
  BY DEF LogTypeOK, BlockLists, LogSlots
<1>6. Recovered[b] \in Data
  BY <1>2, <1>3, <1>5 DEF Logged, LogTypeOK
<1>7. QED
  BY <1>2, <1>3, <1>4, <1>6

(* The state of AtomicDisk: what operations read, and what a crash leaves. *)
Mem == IF Up THEN [b \in Home |-> Cached(b)] ELSE Recovered

(* Contents that do not change, block by block. *)
LEMMA SameDisk ==
  /\ (\A b \in Home : Recovered'[b] = Recovered[b]) => Recovered' = Recovered
  /\ Up /\ Up' /\ (\A b \in Home : Cached(b)' = Cached(b)) => Mem' = Mem
<1>1. (\A b \in Home : Recovered'[b] = Recovered[b]) => Recovered' = Recovered
  BY DEF Recovered
<1>2. Up /\ Up' /\ (\A b \in Home : Cached(b)' = Cached(b)) => Mem' = Mem
  BY DEF Mem
<1>3. QED
  BY <1>1, <1>2

(* Outside a commit and recovery, and while write_log() copies, nothing in *)
(* the log counts; from write_head() on what is logged does.               *)
LEMMA DurableIsHome ==
  ASSUME LogTypeOK, CopyInv, stage \in {"none", "log", "done"}, NEW b \in Home
  PROVE  Recovered[b] = disk_home[b]
  BY RecoveredBlock DEF CopyInv

(* Once every block is installed, the log may be erased. *)
LEMMA InstalledIsHome ==
  ASSUME LogTypeOK, CopyInv, stage \in {"install", "recover"}, upto = Len(lh),
         NEW b \in Home
  PROVE  Recovered[b] = disk_home[b]
<1>1. disk_head = lh
  BY DEF CopyInv
<1>2. CASE Logged(disk_head, b)
  <2>1. PICK s \in 1 .. Len(lh) : lh[s] = b
    BY <1>1, <1>2 DEF Logged
  <2>2. disk_home[lh[s]] = disk_log[s]
    BY <2>1 DEF CopyInv
  <2>3. QED
    BY <1>1, <2>1, <2>2, RecoveredBlock
<1>3. CASE ~Logged(disk_head, b)
  BY <1>3, RecoveredBlock
<1>4. QED
  BY <1>2, <1>3

(* Installing a block from the log, in a commit or in recovery, changes    *)
(* nothing of what a crash leaves.                                         *)
LEMMA InstallKeeps ==
  ASSUME LogTypeOK, CopyInv, InstallTrans \/ Recover, NEW c \in Home
  PROVE  Recovered'[c] = Recovered[c]
<1>1. /\ disk_log' = disk_log /\ disk_head' = disk_head /\ disk_head = lh
      /\ disk_home' = [disk_home EXCEPT ![lh[upto + 1]] = disk_log[upto + 1]]
      /\ upto < Len(lh)
  BY DEF InstallTrans, Recover, CopyInv, Put
<1>2. lh[upto + 1] \in Home /\ upto + 1 \in 1 .. Len(lh)
  BY <1>1, NextBlock
<1>3. CASE Logged(lh, c)
  BY <1>1, <1>3 DEF Recovered
<1>4. CASE ~Logged(lh, c)
  <2>1. c # lh[upto + 1]
    BY <1>2, <1>4 DEF Logged
  <2>2. disk_home'[c] = disk_home[c]
    BY <1>1, <1>2, <2>1 DEF LogTypeOK
  <2>3. QED
    BY <1>1, <1>4, <2>2 DEF Recovered
<1>5. QED
  BY <1>3, <1>4

(* Every step of the log is a step of AtomicDisk or changes nothing of it. *)
LEMMA NextRefines ==
  IInv /\ IInv' /\ [LogNext]_logVars => [Disk!AdNext]_(Disk!adVars)
<1> SUFFICES ASSUME LogTypeOK, BufInv, OpInv, CopyInv, LogTypeOK', OpInv', CopyInv',
                    [LogNext]_logVars
             PROVE  Disk!AdNext \/ UNCHANGED Disk!adVars
  BY DEF IInv
<1> USE DEF Put
<1>a. ASSUME Recovered' = Recovered, Mem' = Mem, Active' = Active
      PROVE  UNCHANGED Disk!adVars
  BY <1>a DEF Disk!adVars, Mem, Active
<1>b. UNCHANGED diskVars => Recovered' = Recovered
  BY DEF diskVars, Recovered
<1>c. ASSUME UNCHANGED diskVars, UNCHANGED <<cache, stage>>
      PROVE  Recovered' = Recovered /\ Mem' = Mem
  BY <1>b, <1>c DEF Mem, Up, Cached, diskVars
<1>1. CASE UNCHANGED logVars
  <2>1. Active' = Active
    BY <1>1 DEF logVars, Active, InOp
  <2>2. QED
    BY <1>1, <1>a, <1>c, <2>1 DEF logVars, cacheVars
<1>2. ASSUME NEW p \in Ops, BeginOp(p) PROVE Disk!AdNext \/ UNCHANGED Disk!adVars
  <2>1. p \notin Active /\ Recovered' = Recovered /\ Mem' = Mem
    BY <1>2, <1>c DEF BeginOp, Active, InOp, cacheVars
  <2>2. CASE committing \/ Exhausts
    <3>1. Active' = Active
      BY <1>2, <2>2 DEF BeginOp, Active, InOp, LogTypeOK
    <3>2. QED
      BY <1>a, <2>1, <3>1
  <2>3. CASE ~(committing \/ Exhausts)
    <3>1. Active' = Active \cup {p}
      BY <1>2, <2>3 DEF BeginOp, Active, InOp, LogTypeOK
    <3>2. Disk!Begin(p)
      BY <2>1, <3>1 DEF Disk!Begin, Mem, Active
    <3>3. QED
      BY <3>2 DEF Disk!AdNext
  <2>4. QED
    BY <2>2, <2>3
<1>3. ASSUME NEW p \in Ops, EndOp(p) PROVE Disk!AdNext \/ UNCHANGED Disk!adVars
  <2>1. p \in Active /\ Active' = Active \ {p}
    BY <1>3 DEF EndOp, Active, InOp, Woken, LogTypeOK
  <2>2. stage = "none" /\ Up /\ Up'
    BY <1>3, InOpStage DEF EndOp, InOp, Up
  <2>3. Recovered' = Recovered /\ Mem' = Mem
    BY <1>3, <1>b, <2>2, SameDisk DEF EndOp, Cached, diskVars, cacheVars
  <2>4. Disk!End(p)
    BY <2>1, <2>3 DEF Disk!End, Mem, Active
  <2>5. QED
    BY <2>4 DEF Disk!AdNext
<1>4. ASSUME NEW p \in Ops, NEW b \in Home, Bread(p, b) PROVE UNCHANGED Disk!adVars
  <2>1. Active' = Active
    BY <1>4 DEF Bread, Active, InOp, LogTypeOK
  <2>2. Up /\ Up' /\ disk_home' = disk_home
    BY <1>4 DEF Bread, Up, diskVars
  <2>3. \A c \in Home : Cached(c)' = Cached(c)
    BY <1>4, <2>2 DEF Bread, Cached, LogTypeOK
  <2>4. QED
    BY <1>4, <1>a, <1>b, <2>1, <2>2, <2>3, SameDisk DEF Bread
<1>5. ASSUME NEW p \in Ops, NEW b \in Home, Brelse(p, b) PROVE UNCHANGED Disk!adVars
  <2>1. op[p] \in {"holds", "reads"}
    BY <1>5 DEF Brelse, BufInv
  <2>2. Active' = Active
    BY <1>5, <2>1 DEF Brelse, Active, InOp, LogTypeOK
  <2>3. QED
    BY <1>5, <1>a, <1>c, <2>2 DEF Brelse
<1>6. ASSUME NEW p \in Ops, NEW b \in Home, NEW v \in Data, LogWrite(p, b, v)
      PROVE  Disk!AdNext
  <2>1. Active' = Active /\ p \in Active
    BY <1>6 DEF LogWrite, Active, InOp, LogTypeOK
  <2>2. Up /\ Up' /\ disk_home' = disk_home /\ Recovered' = Recovered
    BY <1>6, <1>b, InOpStage DEF LogWrite, InOp, Up, diskVars
  <2>3. Cached(b)' = v /\ \A c \in Home \ {b} : Cached(c)' = Cached(c)
    BY <1>6, <2>2 DEF LogWrite, Cached, LogTypeOK
  <2>4. Mem' = [Mem EXCEPT ![b] = v]
    BY <2>2, <2>3 DEF Mem
  <2>5. Disk!Write(p, b, v)
    BY <2>1, <2>2, <2>4 DEF Disk!Write, Mem, Active
  <2>6. QED
    BY <2>5 DEF Disk!AdNext
<1>7. ASSUME NEW b \in Home, Recycle(b) PROVE UNCHANGED Disk!adVars
  <2>1. Active' = Active /\ UNCHANGED diskVars /\ (Up' <=> Up)
    BY <1>7 DEF Recycle, Active, InOp, Up
  <2>2. \A c \in Home : Cached(c)' = Cached(c)
    <3>1. ~Pinned(b)
      BY <1>7, RefCounted DEF Recycle
    <3>2. cache[b] \in {NotCached, disk_home[b]}
      BY <3>1 DEF CopyInv
    <3>3. QED
      BY <1>7, <2>1, <3>2 DEF Recycle, Cached, LogTypeOK, diskVars
  <2>3. Mem' = Mem
    BY <1>b, <2>1, <2>2 DEF Mem
  <2>4. QED
    BY <1>a, <1>b, <2>1, <2>3
<1>8. CASE WriteLog
  <2>1. Active' = Active /\ Up /\ Up' /\ stage' = "log" /\ stage = "log"
    BY <1>8 DEF WriteLog, Active, InOp, Up
  <2>2. UNCHANGED <<disk_home, cache>>
    BY <1>8 DEF WriteLog, cacheVars
  <2>3. \A c \in Home : Cached(c)' = Cached(c)
    BY <2>2 DEF Cached
  <2>4. \A c \in Home : Recovered'[c] = Recovered[c]
    BY <1>8, <2>1, <2>2, RecoveredBlock DEF CopyInv, WriteLog, Recovered, Logged
  <2>5. QED
    BY <1>a, <2>1, <2>3, <2>4, SameDisk
<1>9. CASE WriteHead
  <2>1. /\ stage = "log" /\ upto = Len(lh) /\ disk_head' = lh
        /\ UNCHANGED <<disk_home, disk_log, cache, lh, op>>
    BY <1>9 DEF WriteHead, cacheVars, memVars
  <2>2. Up /\ Up' /\ stage' = "install"
    BY <1>9 DEF WriteHead, Enters, Up
  <2>3. Active = {} /\ Active' = {}
    BY <2>1 DEF OpInv, Active, InOp
  <2>4. \A c \in Home : Cached(c)' = Cached(c)
    BY <2>1 DEF Cached
  <2>5. \A s, t \in 1 .. Len(lh) : lh[s] = lh[t] => s = t
    BY DEF LogTypeOK, BlockLists
  <2>6. ASSUME NEW c \in Home PROVE Recovered'[c] = Cached(c)
    <3>1. CASE Logged(lh, c)
      <4>1. PICK s \in 1 .. Len(lh) : lh[s] = c
        BY <3>1 DEF Logged
      <4>2. (CHOOSE t \in 1 .. Len(lh) : lh[t] = c) = s
        BY <2>5, <4>1
      <4>3. Recovered'[c] = disk_log[s]
        BY <2>1, <3>1, <4>2 DEF Recovered
      <4>4. Pinned(c) /\ disk_log[s] = cache[c]
        BY <2>1, <4>1 DEF Pinned, Up, CopyInv
      <4>5. QED
        BY <4>3, <4>4, PinnedData
    <3>2. CASE ~Logged(lh, c)
      <4>1. Recovered'[c] = disk_home[c]
        BY <2>1, <3>2 DEF Recovered
      <4>2. ~Pinned(c)
        BY <3>2 DEF Pinned, Logged
      <4>3. QED
        BY <4>1, <4>2 DEF CopyInv, Cached
    <3>3. QED
      BY <3>1, <3>2
  <2>7. Recovered' = Mem
    BY <2>2, <2>6 DEF Recovered, Mem
  <2>8. Mem' = Mem
    BY <2>2, <2>4, SameDisk
  <2>9. Disk!Sync
    BY <2>3, <2>7, <2>8 DEF Disk!Sync, Mem, Active
  <2>10. QED
    BY <2>9 DEF Disk!AdNext
<1>10. CASE InstallTrans
  <2> DEFINE b == lh[upto + 1]
  <2>1. Active' = Active /\ Up /\ Up' /\ stage = "install" /\ upto < Len(lh)
    BY <1>10 DEF InstallTrans, Active, InOp, Up
  <2>2. b \in Home /\ Pinned(b) /\ disk_log[upto + 1] = cache[b]
    <3>1. upto + 1 \in upto + 1 .. Len(lh)
      BY <2>1 DEF LogTypeOK, BlockLists
    <3>2. QED
      BY <1>10, <2>1, <3>1, InstallPins, NextBlock DEF CopyInv
  <2>3. /\ disk_home' = [disk_home EXCEPT ![b] = disk_log[upto + 1]]
        /\ cache' = [cache EXCEPT ![b] = disk_log[upto + 1]]
    BY <1>10 DEF InstallTrans
  <2> HIDE DEF b
  <2>4. \A c \in Home : Cached(c)' = Cached(c)
    <3>1. cache[b] # NotCached
      BY <2>2 DEF CopyInv
    <3>2. QED
      BY <2>2, <2>3, <3>1 DEF Cached, LogTypeOK
  <2>5. \A c \in Home : Recovered'[c] = Recovered[c]
    BY <1>10, InstallKeeps
  <2>6. QED
    BY <1>a, <2>1, <2>4, <2>5, SameDisk
<1>11. CASE EraseHead
  <2>1. /\ Active' = Active /\ Up /\ Up' /\ stage = "install" /\ upto = Len(lh)
        /\ stage' = "done" /\ UNCHANGED <<disk_home, cache>>
    BY <1>11 DEF EraseHead, Enters, Active, InOp, Up, cacheVars
  <2>2. \A c \in Home : Cached(c)' = Cached(c)
    BY <2>1 DEF Cached
  <2>3. \A c \in Home : Recovered[c] = disk_home[c]
    BY <2>1, InstalledIsHome
  <2>4. \A c \in Home : Recovered'[c] = disk_home'[c]
    BY <1>11, EmptyList DEF EraseHead, Recovered, Logged
  <2>5. QED
    BY <1>a, <2>1, <2>2, <2>3, <2>4, SameDisk
<1>12. ASSUME NEW p \in Ops, Committed(p) PROVE UNCHANGED Disk!adVars
  <2>1. Active' = Active
    BY <1>12 DEF Committed, Active, InOp, Woken, LogTypeOK
  <2>2. Up /\ Up' /\ UNCHANGED diskVars /\ cache' = cache
    BY <1>12 DEF Committed, Enters, Up, cacheVars
  <2>3. \A c \in Home : Cached(c)' = Cached(c)
    BY <2>2 DEF Cached, diskVars
  <2>4. QED
    BY <1>a, <1>b, <2>1, <2>2, <2>3, SameDisk
<1>13. CASE ReadHead
  <2>1. Active' = Active /\ ~Up /\ ~Up' /\ UNCHANGED diskVars
    BY <1>13 DEF ReadHead, Enters, Active, InOp, Up
  <2>2. QED
    BY <1>a, <1>b, <2>1 DEF Mem
<1>14. CASE Recover
  <2>1. Active' = Active /\ ~Up /\ ~Up'
    BY <1>14 DEF Recover, Active, InOp, Up
  <2>2. \A c \in Home : Recovered'[c] = Recovered[c]
    BY <1>14, InstallKeeps
  <2>3. QED
    BY <1>a, <2>1, <2>2, SameDisk DEF Mem
<1>15. CASE ClearLog
  <2>1. /\ Active' = Active /\ ~Up /\ Up' /\ stage = "recover" /\ upto = Len(lh)
        /\ UNCHANGED <<disk_home, cache>>
    BY <1>15 DEF ClearLog, Enters, Active, InOp, Up, cacheVars
  <2>2. \A c \in Home : Recovered[c] = disk_home[c]
    BY <2>1, InstalledIsHome
  <2>3. \A c \in Home : Recovered'[c] = disk_home'[c]
    BY <1>15, EmptyList DEF ClearLog, Recovered, Logged
  <2>4. \A c \in Home : Cached(c)' = disk_home[c]
    <3>1. \A c \in Home : ~Pinned(c)
      BY <1>15, NonePinned DEF RecoverStep
    <3>2. QED
      BY <2>1, <3>1 DEF CopyInv, Cached
  <2>5. Recovered' = Recovered
    BY <2>1, <2>2, <2>3, SameDisk
  <2>6. Mem' = Mem
    BY <2>1, <2>2, <2>4 DEF Mem, Recovered
  <2>7. QED
    BY <1>a, <2>1, <2>5, <2>6
<1>16. CASE PowerFails
  <2>1. Active' = {} /\ ~Up' /\ UNCHANGED diskVars
    BY <1>16 DEF PowerFails, Enters, Active, InOp, Up
  <2>2. Recovered' = Recovered /\ Mem' = Recovered
    BY <1>b, <2>1 DEF Mem
  <2>3. Disk!PowerFails
    BY <2>1, <2>2 DEF Disk!PowerFails, Mem, Active
  <2>4. QED
    BY <2>3 DEF Disk!AdNext
<1>17. QED
  BY <1>1, <1>2, <1>3, <1>4, <1>5, <1>6, <1>7, <1>8, <1>9, <1>10, <1>11, <1>12,
     <1>13, <1>14, <1>15, <1>16 DEF LogNext, OpStep, CommitStep, RecoverStep

(* At the start memory is the disk. *)
LEMMA InitRefines == LogInit => Disk!AdInit
<1> SUFFICES ASSUME LogInit PROVE Disk!AdInit
  OBVIOUS
<1>1. LogTypeOK /\ CopyInv /\ stage = "none" /\ Up /\ Active = {}
  BY InitInv DEF IInv, LogInit, Up, Active, InOp
<1>2. \A b \in Home : Recovered[b] = disk_home[b] /\ Cached(b) = disk_home[b]
  BY <1>1, DurableIsHome DEF LogInit, Cached
<1>3. Recovered = Mem /\ Mem \in [Home -> Data]
  BY <1>1, <1>2 DEF Recovered, Mem, LogTypeOK
<1>4. QED
  BY <1>1, <1>3 DEF Disk!AdInit, Mem, Active

(* Operations are atomic across crashes: what operations read and what a   *)
(* crash leaves behave as AtomicDisk says.                                 *)
THEOREM Refinement == LogSpec => CrashAtomic
<1>1. LogInit => Disk!AdInit
  BY InitRefines
<1>2. IInv /\ IInv' /\ [LogNext]_logVars => [Disk!AdNext]_(Disk!adVars)
  BY NextRefines
<1>3. QED
  BY <1>1, <1>2, Invariance, PTL DEF LogSpec, CrashAtomic, Disk!AdSpec
=============================================================================
