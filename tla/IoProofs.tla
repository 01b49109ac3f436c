------------------------------ MODULE IoProofs ------------------------------
(***************************************************************************)
(* Proofs about the disk driver, the console and its port, pipes, the      *)
(* blocks of files and the message queues, for any number of processes,    *)
(* buffers, descriptors and blocks and for rings of any size, and about    *)
(* their instance MCIo.                                                    *)
(*                                                                         *)
(* Each part has an inductive invariant (VirtioInv, UartInv, ConsoleInv,   *)
(* PipeInv, FileDataInv; CallInv, CopiedInv and RingInv for the queues),   *)
(* one lemma for each step that could break it, and a lemma that it        *)
(* implies the part's properties; that the queues implement Fifo is shown  *)
(* step by step.                                                           *)
(***************************************************************************)
EXTENDS MCIo, LogProofs, SequenceTheorems

(* A well-founded relation has minimal elements. *)
LEMMA LeastA == ASSUME NEW S, S \subseteq Nat, S # {}, NEW R, IsWellFoundedOn(R, Nat)
  PROVE \E x \in S : \A y \in S : ~(<<y, x>> \in R)
  BY WFMin, Zenon

(* A set of numbers has a least one. *)
LEMMA Least == ASSUME NEW S, S \subseteq Nat, S # {}
  PROVE \E x \in S : \A y \in S : x <= y
<1>4. \E x \in S : \A y \in S : ~(<<y, x>> \in OpToRel(<, Nat))
  BY LeastA, NatLessThanWellFounded, Zenon
<1>2. \E x \in S : \A y \in S : ~(y \in Nat /\ x \in Nat /\ y < x)
  BY <1>4, Zenon DEF OpToRel
<1>6. QED
  BY <1>2

-----------------------------------------------------------------------------
(* The serial port *)

(* Where writers, the handler and the callers of uartputc_sync() are. *)
UartTypeOK ==
  /\ fifo \in Nat /\ idleintr \in BOOLEAN /\ tx_busy \in BOOLEAN
  /\ wr \in [Writers -> {"user", "loop", "asleep"}]
  /\ isr \in {"off", "acknowledged", "receive"}
  /\ sync \in [{Handler, Printf} -> {"no", "waits", "writes"}]

(* Bytes that a caller of uartputc_sync() sends without another look at LSR *)
Owed(s) == IF sync[s] = "writes" THEN 1 ELSE 0

(* What keeps the port from being overrun, and a writer from sleeping      *)
(* without an interrupt to come.                                           *)
UartInv ==
  /\ UartTypeOK
  /\ fifo + Owed(Handler) + Owed(Printf) + (IF tx_busy THEN 0 ELSE 1) <= 3
  /\ tx_busy => fifo > 0 \/ idleintr \/ isr = "acknowledged"
  /\ \A p \in Writers : wr[p] = "asleep" => tx_busy

(* The port at first *)
LEMMA UartInit1 == UartInit => UartInv
<1> SUFFICES ASSUME UartInit PROVE UartInv
  OBVIOUS
<1>1. UartTypeOK
  BY DEF UartInit, UartTypeOK
<1>2. Owed(Handler) = 0 /\ Owed(Printf) = 0 /\ ~tx_busy /\ fifo = 0
  BY DEF UartInit, Owed
<1>3. QED
  BY <1>1, <1>2 DEF UartInit, UartInv

(* UartInv is inductive. *)
LEMMA UartStep == UartInv /\ [UartNext]_uartVars => UartInv'
<1> SUFFICES ASSUME UartInv, [UartNext]_uartVars PROVE UartInv'
  OBVIOUS
<1> USE DEF UartInv, UartTypeOK, Owed, Handler, Printf, Put, Decr
<1>1. ASSUME NEW p \in Writers, UartSleeps(p) PROVE UartInv'
  BY <1>1 DEF UartSleeps
<1>2. ASSUME NEW p \in Writers, UartSends(p) PROVE UartInv'
  BY <1>2 DEF UartSends
<1>3. ASSUME NEW p \in Writers, UartKill(p) PROVE UartInv'
  BY <1>3 DEF UartKill
<1>4. ASSUME NEW p \in Writers, NEW n \in Lengths, WriteCons(p, n) PROVE UartInv'
  BY <1>4 DEF WriteCons
<1>5. ASSUME NEW s \in {Handler, Printf}, SyncCall(s) PROVE UartInv'
  BY <1>5 DEF SyncCall
<1>6. ASSUME NEW s \in {Handler, Printf}, SyncIdle(s) PROVE UartInv'
  BY <1>6 DEF SyncIdle
<1>7. ASSUME NEW s \in {Handler, Printf}, SyncWrites(s) PROVE UartInv'
  BY <1>7 DEF SyncWrites
<1>8. CASE PortSends
  BY <1>8 DEF PortSends
<1>9. CASE IntrStarts
  BY <1>9 DEF IntrStarts
<1>10. CASE IntrTransmit
<2>1. CASE fifo = 0
  <3>1. /\ fifo' = 0 /\ tx_busy' = FALSE /\ isr' = "receive"
        /\ UNCHANGED <<fifo, idleintr, sync>>
    BY <1>10, <2>1 DEF IntrTransmit, PortIdle
  <3>2. wr' = [p \in Writers |-> IF wr[p] = "asleep" THEN "loop" ELSE wr[p]]
    BY <1>10, <2>1 DEF IntrTransmit, PortIdle
  <3>3. UartTypeOK'
    BY <3>1, <3>2
  <3>4. \A p \in Writers : wr'[p] # "asleep"
    BY <3>2
  <3>5. QED
    BY <3>1, <3>3, <3>4
<2>2. CASE fifo # 0
  BY <1>10, <2>2 DEF IntrTransmit, PortIdle
<2>3. QED
  BY <2>1, <2>2
<1>11. CASE IntrEnds
  BY <1>11 DEF IntrEnds
<1>12. CASE UNCHANGED uartVars
  BY <1>12 DEF uartVars
<1> HIDE DEF UartInv, UartTypeOK, Owed, Handler, Printf, Put, Decr
<1>13. QED
  BY <1>1, <1>2, <1>3, <1>4, <1>5, <1>6, <1>7, <1>8, <1>9, <1>10, <1>11, <1>12 DEF UartNext

(* A process asleep in uartwrite() waits for a byte that is on its way out *)
(* or for an interrupt that is due: the wakeup() follows.                  *)
THEOREM UartSafety == UartSpec => []WritersWaitForPort
<1>1. UartInv => WritersWaitForPort
  BY DEF UartInv, WritersWaitForPort
<1>2. QED
  BY UartInit1, UartStep, <1>1, PTL DEF UartSpec

(* With a FIFO of three bytes or more (the 16550 has sixteen) no byte is   *)
(* written while it is full: uartputc(), and uartputc_sync() of the echo   *)
(* and of printf(), each write at most one byte after they saw it empty.   *)
THEOREM UartRoom ==
  ASSUME TXFIFO >= 3
  PROVE  UartSpec => []PortHasRoom
<1>1. UartInv => PortHasRoom
  BY UartAssumption DEF UartInv, PortHasRoom, UartTypeOK, Owed
<1>2. QED
  BY UartInit1, UartStep, <1>1, PTL DEF UartSpec

-----------------------------------------------------------------------------
(* The disk driver *)

(* x is in s. *)
Among(s, x) == \E k \in 1 .. Len(s) : s[k] = x
(* Nothing is twice in s. *)
Distinct(s) == \A k, l \in 1 .. Len(s) : s[k] = s[l] => k = l

(* What a request block can say *)
Request == [way : {"none", "read", "write"}, sector : Bufs \cup {NoBuf}]

(* Types of the driver and of the device *)
VirtioTypeOK ==
  /\ free \subseteq Descs
  /\ desc \in [Descs -> [addr : {"0", "op", "data", "status"},
                         of : Descs \cup Bufs \cup {NoDesc},
                         next : Descs \cup {NoDesc}]]
  /\ info \in [Descs -> [b : Bufs \cup {NoBuf}, ok : BOOLEAN]]
  /\ ops \in [Descs -> Request]
  /\ avail \in Seq(Descs) /\ used \in Seq(Descs) /\ taken \subseteq Descs
  /\ intr \in BOOLEAN /\ handling \in BOOLEAN
  /\ ondisk \in [Bufs -> BOOLEAN]
  /\ stands \in [Bufs -> {"idle", "allocates", "waits_desc", "waits_disk", "woken", "returned"}]
  /\ first \in [Bufs -> Descs \cup {NoDesc}]
  /\ asked \in [Bufs -> {"none", "read", "write"}]
  /\ moved \in [Bufs -> Seq(Request)]

(* The second and the third descriptor of the chain of b *)
Second(b) == desc[first[b]].next
Third(b) == desc[Second(b)].next

(* The chain of a buffer in flight is as virtio_disk_rw() built it. *)
ChainOK(b) ==
  /\ first[b] \in Descs \ free /\ Second(b) \in Descs \ free /\ Third(b) \in Descs \ free
  /\ desc[first[b]].addr = "op" /\ desc[first[b]].of = first[b]
  /\ desc[Second(b)].addr = "data" /\ desc[Second(b)].of = b
  /\ desc[Third(b)].addr = "status" /\ desc[Third(b)].of = first[b]
  /\ desc[Third(b)].next = NoDesc
  /\ info[first[b]].b = b
  /\ ops[first[b]] = [way |-> asked[b], sector |-> b]

(* The chain from h is with the device, or back and not looked at. *)
OnWay(h) == Among(avail, h) \/ h \in taken \/ Among(used, h)

(* A chain on its way is in one place and is that of a buffer in flight. *)
HeadOK(h) ==
  /\ OnWay(h) => LET b == info[h].b IN b \in Bufs /\ InFlight(b) /\ ondisk[b] /\ first[b] = h
  /\ ~(Among(avail, h) /\ h \in taken) /\ ~(Among(avail, h) /\ Among(used, h))
  /\ ~(h \in taken /\ Among(used, h))
  /\ Among(used, h) => info[h].ok

(* The transfer that was asked for, once *)
Once(b) == <<[way |-> asked[b], sector |-> b]>>

(* What was moved for b, where its caller is *)
TransferOK(b) ==
  /\ stands[b] \in {"allocates", "waits_desc"} => moved[b] = <<>>
  /\ stands[b] = "returned" => moved[b] = Once(b)
  /\ InFlight(b) =>
       /\ ondisk[b] => OnWay(first[b])
       /\ moved[b] = IF ondisk[b] /\ ~Among(used, first[b]) THEN <<>> ELSE Once(b)
  /\ stands[b] = "waits_disk" => ondisk[b]
  /\ stands[b] = "waits_desc" => Cardinality(free) < 3

(* The buffers with three descriptors each *)
Busy == {b \in Bufs : InFlight(b)}

(* The driver and the device: the inductive invariant *)
VirtioInv ==
  /\ VirtioTypeOK
  /\ \A b \in Busy : ChainOK(b)
  /\ Distinct(avail) /\ Distinct(used)
  /\ \A h \in Descs : HeadOK(h)
  /\ \A b \in Bufs : TransferOK(b)
  /\ used # <<>> => handling \/ intr
  /\ IsFiniteSet(Busy) /\ NUM = Cardinality(free) + 3 * Cardinality(Busy)

(* The elements of a set of three *)
LEMMA Three ==
  ASSUME NEW S, IsFiniteSet(S), Cardinality(S) = 3
  PROVE \E x, y, z \in S : x # y /\ y # z /\ x # z /\ S = {x,y,z}
<1>1. PICK x : x \in S
  BY FS_EmptySet
<1>2. IsFiniteSet(S \ {x}) /\ Cardinality(S \ {x}) = 2
  BY <1>1, FS_RemoveElement
<1>3. PICK y : y \in S \ {x}
  BY <1>2, FS_EmptySet
<1> DEFINE T == S \ {x}
<1>4. IsFiniteSet(T \ {y}) /\ Cardinality(T \ {y}) = 1
  BY <1>2, <1>3, FS_RemoveElement
<1>5. PICK z : T \ {y} = {z}
  BY <1>4, FS_Singleton
<1>6. z \in S /\ z # x /\ z # y /\ x # y
  BY <1>5, <1>3
<1>7. S = {x, y, z}
  BY <1>1, <1>3, <1>5
<1>8. QED BY <1>1, <1>3, <1>6, <1>7

(* A set of three different elements *)
LEMMA ThreeCard ==
  ASSUME NEW x, NEW y, NEW z, x # y, y # z, x # z
  PROVE IsFiniteSet({x,y,z}) /\ Cardinality({x,y,z}) = 3
<1>1. IsFiniteSet({x}) /\ Cardinality({x}) = 1
  BY FS_Singleton
<1>2. IsFiniteSet({x} \cup {y}) /\ Cardinality({x} \cup {y}) = 2
  BY <1>1, FS_AddElement
<1>3. IsFiniteSet(({x} \cup {y}) \cup {z}) /\ Cardinality(({x} \cup {y}) \cup {z}) = 3
  BY <1>2, FS_AddElement
<1>4. ({x} \cup {y}) \cup {z} = {x,y,z}
  OBVIOUS
<1>5. QED BY <1>3, <1>4

(* The empty sequence *)
LEMMA EmptyIn == ASSUME NEW S PROVE <<>> \in Seq(S)
  OBVIOUS

(* What append adds to a queue *)
LEMMA AppendElems ==
  ASSUME NEW S, NEW s \in Seq(S), NEW x \in S
  PROVE  /\ Append(s, x) \in Seq(S)
         /\ \A y : Among(Append(s, x), y) <=> Among(s, y) \/ y = x
         /\ Distinct(s) /\ ~Among(s, x) => Distinct(Append(s, x))
         /\ Append(s, x) # <<>>
<1> DEFINE t == Append(s, x)
<1>1. t \in Seq(S) /\ Len(t) = Len(s) + 1 /\ t[Len(s) + 1] = x /\ \A k \in 1 .. Len(s) : t[k] = s[k]
  OBVIOUS
<1> HIDE DEF t
<1>2. Len(s) \in Nat
  OBVIOUS
<1>3. \A y : Among(t, y) <=> Among(s, y) \/ y = x
  BY <1>1, <1>2 DEF Among
<1>4. Distinct(s) /\ ~Among(s, x) => Distinct(t)
  BY <1>1, <1>2 DEF Distinct, Among
<1>5. t # <<>>
  BY <1>1, <1>2
<1>6. QED
  BY <1>1, <1>3, <1>4, <1>5 DEF t

(* What is left of a queue without its head *)
LEMMA TailElems ==
  ASSUME NEW S, NEW s \in Seq(S), s # <<>>, Distinct(s)
  PROVE  /\ Tail(s) \in Seq(S) /\ Distinct(Tail(s))
         /\ Head(s) \in S /\ Among(s, Head(s))
         /\ \A y : Among(Tail(s), y) <=> Among(s, y) /\ y # Head(s)
<1> DEFINE t == Tail(s)
<1>1. /\ t \in Seq(S) /\ Len(s) \in Nat /\ Len(s) # 0 /\ Len(t) = Len(s) - 1
      /\ \A k \in 1 .. Len(t) : t[k] = s[k + 1]
      /\ Head(s) = s[1] /\ s[1] \in S
  OBVIOUS
<1> HIDE DEF t
<1>2. Distinct(t)
  BY <1>1 DEF Distinct
<1>3. Among(s, Head(s))
  BY <1>1 DEF Among
<1>4. ASSUME NEW y, Among(t, y) PROVE Among(s, y) /\ y # Head(s)
  <2>1. PICK k \in 1 .. Len(t) : t[k] = y
    BY <1>4 DEF Among
  <2>2. k + 1 \in 1 .. Len(s) /\ s[k + 1] = y /\ k + 1 # 1 /\ 1 \in 1 .. Len(s)
    BY <2>1, <1>1
  <2>3. QED
    BY <2>2, <1>1 DEF Among, Distinct
<1>5. ASSUME NEW y, Among(s, y), y # Head(s) PROVE Among(t, y)
  <2>1. PICK k \in 1 .. Len(s) : s[k] = y
    BY <1>5 DEF Among
  <2>2. k - 1 \in 1 .. Len(t) /\ t[k - 1] = y
    BY <2>1, <1>1, <1>5
  <2>3. QED
    BY <2>2 DEF Among
<1>6. QED
  BY <1>1, <1>2, <1>3, <1>4, <1>5 DEF t

(* The driver at first *)
LEMMA VirtioInit1 == VirtioInit => VirtioInv
<1> SUFFICES ASSUME VirtioInit PROVE VirtioInv
  OBVIOUS
<1>1. VirtioTypeOK
  <2>1. moved \in [Bufs -> Seq(Request)]
    <3>1. <<>> \in Seq(Request)
      OBVIOUS
    <3>2. QED
      BY <3>1 DEF VirtioInit
  <2>2. ops \in [Descs -> Request] /\ info \in [Descs -> [b : Bufs \cup {NoBuf}, ok : BOOLEAN]]
    BY DEF VirtioInit, Request
  <2>3. desc \in [Descs -> [addr : {"0", "op", "data", "status"},
                           of : Descs \cup Bufs \cup {NoDesc}, next : Descs \cup {NoDesc}]]
    BY DEF VirtioInit, Unused
  <2>4. /\ free \subseteq Descs /\ avail \in Seq(Descs) /\ used \in Seq(Descs) /\ taken \subseteq Descs
        /\ intr \in BOOLEAN /\ handling \in BOOLEAN
    <3>1. <<>> \in Seq(Descs)
      OBVIOUS
    <3>2. QED
      BY <3>1, Zenon DEF VirtioInit
  <2>5. /\ ondisk \in [Bufs -> BOOLEAN]
        /\ stands \in [Bufs -> {"idle", "allocates", "waits_desc", "waits_disk", "woken", "returned"}]
        /\ first \in [Bufs -> Descs \cup {NoDesc}]
        /\ asked \in [Bufs -> {"none", "read", "write"}]
    BY DEF VirtioInit
  <2>6. QED
    BY <2>1, <2>2, <2>3, <2>4, <2>5 DEF VirtioTypeOK
<1>2. Busy = {} /\ avail = <<>> /\ used = <<>> /\ taken = {}
  BY DEF VirtioInit, Busy, InFlight
<1>3. Distinct(avail) /\ Distinct(used) /\ \A h : ~Among(avail, h) /\ ~Among(used, h)
  BY <1>2 DEF Distinct, Among
<1>4. \A h \in Descs : HeadOK(h)
  BY <1>2, <1>3 DEF HeadOK, OnWay
<1>5. \A b \in Bufs : TransferOK(b)
  BY DEF VirtioInit, TransferOK, InFlight
<1>6. IsFiniteSet(Busy) /\ Cardinality(Busy) = 0
  BY <1>2, FS_EmptySet
<1>7. Cardinality(free) = NUM
  <2>1. free = 0 .. NUM - 1 /\ 0 \in Int /\ NUM - 1 \in Int /\ NUM >= 3 /\ NUM \in Nat
    BY VirtioAssumption DEF VirtioInit, Descs
  <2>2. Cardinality(0 .. NUM - 1) = IF 0 > NUM - 1 THEN 0 ELSE NUM - 1 - 0 + 1
    BY <2>1, FS_Interval
  <2>3. QED
    BY <2>1, <2>2
<1>8. QED
  BY <1>1, <1>2, <1>3, <1>4, <1>5, <1>6, <1>7, VirtioAssumption DEF VirtioInv

(* The descriptors of a request are its own. *)
LEMMA ChainFacts ==
  ASSUME VirtioInv, NEW b \in Busy
  PROVE  /\ b \in Bufs /\ InFlight(b)
         /\ first[b] \in Descs \ free /\ Second(b) \in Descs \ free /\ Third(b) \in Descs \ free
         /\ first[b] # Second(b) /\ first[b] # Third(b) /\ Second(b) # Third(b)
         /\ \A o \in Busy \ {b} :
              {first[b], Second(b), Third(b)} \cap {first[o], Second(o), Third(o)} = {}
<1>1. b \in Bufs /\ InFlight(b) /\ ChainOK(b)
  BY DEF VirtioInv, Busy
<1>2. ASSUME NEW o \in Busy \ {b}
      PROVE  {first[b], Second(b), Third(b)} \cap {first[o], Second(o), Third(o)} = {}
  <2>1. o \in Bufs /\ ChainOK(o)
    BY DEF VirtioInv, Busy
  <2>2. first[b] # first[o]
    BY <1>1, <2>1 DEF ChainOK
  <2>3. QED
    BY <1>1, <2>1, <2>2 DEF ChainOK
<1>3. QED
  BY <1>1, <1>2 DEF ChainOK

(* Steps that leave descriptors and queues alone *)
LEMMA Frame ==
  ASSUME VirtioInv, UNCHANGED <<free, desc, info, ops, first, ondisk, avail, used, taken>>,
         Busy' = Busy, \A b \in Busy : asked'[b] = asked[b],
         VirtioTypeOK', \A b \in Bufs : TransferOK(b)',
         used # <<>> => handling' \/ intr'
  PROVE  VirtioInv'
<1>1. \A b \in Busy' : ChainOK(b)'
  <2>1. \A b \in Busy : ChainOK(b)
    BY DEF VirtioInv
  <2>2. ASSUME NEW b \in Busy PROVE ChainOK(b)'
    <3>1. Second(b)' = Second(b) /\ Third(b)' = Third(b)
      BY DEF Second, Third
    <3>2. QED
      BY <2>1, <3>1 DEF ChainOK
  <2>3. QED
    BY <2>2
<1>2. \A h \in Descs : HeadOK(h)'
  BY DEF VirtioInv, HeadOK, OnWay, Among, Busy
<1>3. QED
  BY <1>1, <1>2 DEF VirtioInv, Distinct

(* virtio_disk_rw() is called. *)
LEMMA AskStep ==
  ASSUME VirtioInv, NEW b \in Bufs, NEW way \in {"read", "write"}, Ask(b, way)
  PROVE  VirtioInv'
<1>1. VirtioTypeOK'
  BY EmptyIn DEF VirtioInv, VirtioTypeOK, Ask, Put
<1>2. Busy' = Busy
  BY DEF VirtioInv, VirtioTypeOK, Ask, Put, Busy, InFlight
<1>3. \A o \in Bufs : TransferOK(o)'
  BY DEF VirtioInv, VirtioTypeOK, Ask, Put, InFlight, TransferOK, Once, OnWay, Among
<1>4. QED
  BY <1>1, <1>2, <1>3, Frame DEF VirtioInv, VirtioTypeOK, Ask, Put, Busy, InFlight

(* alloc3_desc() fails. *)
LEMMA NoDescriptorsStep ==
  ASSUME VirtioInv, NEW b \in Bufs, NoDescriptors(b)
  PROVE  VirtioInv'
<1>1. VirtioTypeOK'
  BY DEF VirtioInv, VirtioTypeOK, NoDescriptors, WakeAllocators, Put
<1>2. Busy' = Busy
  BY DEF VirtioInv, VirtioTypeOK, NoDescriptors, WakeAllocators, Put, Busy, InFlight
<1>3. \A o \in Bufs : TransferOK(o)'
  <2> TAKE o \in Bufs
  <2>1. TransferOK(o)
    BY DEF VirtioInv
  <2>2. /\ UNCHANGED <<moved, asked, ondisk, first, avail, used, taken, free>>
        /\ Cardinality(free) < 3
    BY DEF NoDescriptors
  <2>3. \/ o = b /\ stands[o] = "allocates" /\ stands'[o] = "waits_desc"
        \/ stands'[o] = stands[o]
        \/ stands[o] = "waits_desc" /\ stands'[o] = "allocates"
    BY DEF VirtioInv, VirtioTypeOK, NoDescriptors, WakeAllocators, Put
  <2>4. QED
    BY <2>1, <2>2, <2>3 DEF TransferOK, InFlight, Once, OnWay, Among
<1>4. QED
  BY <1>1, <1>2, <1>3, Frame DEF VirtioInv, NoDescriptors

(* virtio_disk_rw() sleeps until its request is done. *)
LEMMA StillOnDiskStep ==
  ASSUME VirtioInv, NEW b \in Bufs, StillOnDisk(b)
  PROVE  VirtioInv'
<1>1. VirtioTypeOK'
  BY DEF VirtioInv, VirtioTypeOK, StillOnDisk, Put
<1>2. Busy' = Busy
  BY DEF VirtioInv, VirtioTypeOK, StillOnDisk, Put, Busy, InFlight
<1>3. \A o \in Bufs : TransferOK(o)'
  BY DEF VirtioInv, VirtioTypeOK, StillOnDisk, Put, InFlight, TransferOK, Once, OnWay, Among
<1>4. QED
  BY <1>1, <1>2, <1>3, Frame DEF VirtioInv, StillOnDisk

(* The caller has its buffer. *)
LEMMA BufReleasedStep ==
  ASSUME VirtioInv, NEW b \in Bufs, BufReleased(b)
  PROVE  VirtioInv'
<1>1. VirtioTypeOK'
  BY EmptyIn DEF VirtioInv, VirtioTypeOK, BufReleased, Put
<1>2. Busy' = Busy
  BY DEF VirtioInv, VirtioTypeOK, BufReleased, Put, Busy, InFlight
<1>3. \A o \in Bufs : TransferOK(o)'
  BY DEF VirtioInv, VirtioTypeOK, BufReleased, Put, InFlight, TransferOK, Once, OnWay, Among
<1>4. QED
  BY <1>1, <1>2, <1>3, Frame DEF VirtioInv, VirtioTypeOK, BufReleased, Put, Busy, InFlight

(* kill() wakes who sleeps. *)
LEMMA VirtioKillStep ==
  ASSUME VirtioInv, NEW b \in Bufs, VirtioKill(b)
  PROVE  VirtioInv'
<1>1. VirtioTypeOK'
  BY DEF VirtioInv, VirtioTypeOK, VirtioKill, Put
<1>2. Busy' = Busy
  BY DEF VirtioInv, VirtioTypeOK, VirtioKill, Put, Busy, InFlight
<1>3. \A o \in Bufs : TransferOK(o)'
  BY DEF VirtioInv, VirtioTypeOK, VirtioKill, Put, InFlight, TransferOK, Once, OnWay, Among
<1>4. QED
  BY <1>1, <1>2, <1>3, Frame DEF VirtioInv, VirtioKill

(* virtio_disk_intr() acknowledges. *)
LEMMA IntrAckStep ==
  ASSUME VirtioInv, IntrAck \/ IntrEnd
  PROVE  VirtioInv'
<1>1. VirtioTypeOK'
  BY DEF VirtioInv, VirtioTypeOK, IntrAck, IntrEnd, driverVars
<1>2. Busy' = Busy
  BY DEF IntrAck, IntrEnd, driverVars, Busy, InFlight
<1>3. \A o \in Bufs : TransferOK(o)'
  BY DEF VirtioInv, IntrAck, IntrEnd, driverVars, InFlight, TransferOK, Once, OnWay, Among
<1>4. QED
  BY <1>1, <1>2, <1>3, Frame DEF VirtioInv, IntrAck, IntrEnd, driverVars

(* Whose request a head on its way is *)
LEMMA HeadFacts ==
  ASSUME VirtioInv, NEW h \in Descs, OnWay(h)
  PROVE  /\ info[h].b \in Busy /\ first[info[h].b] = h /\ ondisk[info[h].b]
         /\ \A o \in Busy : first[o] = h => o = info[h].b
<1>1. info[h].b \in Busy /\ first[info[h].b] = h /\ ondisk[info[h].b]
  BY DEF VirtioInv, HeadOK, Busy
<1>2. \A o \in Busy : info[first[o]].b = o
  BY DEF VirtioInv, ChainOK
<1>3. QED
  BY <1>1, <1>2

(* virtio_disk_intr() handles an entry of the used ring: the wakeup() of   *)
(* its request.                                                            *)
LEMMA IntrLoopStep ==
  ASSUME VirtioInv, IntrLoop
  PROVE  VirtioInv'
<1> DEFINE h == Head(used)
           b == info[h].b
<1>1. /\ used' = Tail(used) /\ used # <<>> /\ handling
      /\ ondisk' = [ondisk EXCEPT ![b] = FALSE]
      /\ stands' = IF stands[b] = "waits_disk" THEN [stands EXCEPT ![b] = "woken"] ELSE stands
      /\ UNCHANGED <<free, desc, info, ops, first, asked, avail, taken, intr, handling, moved>>
  BY DEF IntrLoop, Put
<1>2. used \in Seq(Descs) /\ Distinct(used)
  BY DEF VirtioInv, VirtioTypeOK
<1>3. /\ used' \in Seq(Descs) /\ Distinct(used') /\ h \in Descs /\ Among(used, h)
      /\ \A y : Among(used', y) <=> Among(used, y) /\ y # h
  BY <1>1, <1>2, TailElems
<1>4. /\ b \in Busy /\ first[b] = h /\ ondisk[b]
      /\ \A o \in Busy : first[o] = h => o = b
  BY <1>3, HeadFacts DEF OnWay
<1>5. b \in Bufs /\ stands[b] \in {"waits_disk", "woken"}
  BY <1>4 DEF Busy, InFlight
<1> HIDE DEF b, h
<1>6. VirtioTypeOK'
  BY <1>1, <1>3, <1>5 DEF VirtioInv, VirtioTypeOK
<1>7. Busy' = Busy
  BY <1>1, <1>5 DEF Busy, InFlight, VirtioInv, VirtioTypeOK
<1>8. \A o \in Busy' : ChainOK(o)'
  BY <1>1, <1>7 DEF VirtioInv, ChainOK, Second, Third
<1>9. ASSUME NEW g \in Descs PROVE HeadOK(g)'
  <2>1. HeadOK(g)
    BY DEF VirtioInv
  <2>2. CASE g = h
    BY <1>1, <1>3, <2>1, <2>2 DEF HeadOK, OnWay, Among
  <2>3. CASE g # h
    <3>1. OnWay(g)' <=> OnWay(g)
      BY <1>1, <1>3, <2>3 DEF OnWay, Among
    <3>2. OnWay(g) => info[g].b \in Busy /\ first[info[g].b] = g
      BY <2>1 DEF HeadOK, Busy
    <3>3. OnWay(g) => info[g].b # b
      BY <3>2, <2>3, <1>4
    <3>4. OnWay(g) => InFlight(info[g].b)'
      BY <3>2, <3>3, <1>1 DEF Busy, InFlight, VirtioInv, VirtioTypeOK
    <3>5. OnWay(g) => ondisk'[info[g].b]
      BY <3>2, <3>3, <1>1, <2>1 DEF HeadOK, VirtioInv, VirtioTypeOK, Busy
    <3>6. QED
      BY <1>1, <1>3, <2>1, <3>1, <3>2, <3>4, <3>5 DEF HeadOK, Among, Busy
  <2>4. QED
    BY <2>2, <2>3
<1>10. ASSUME NEW o \in Bufs PROVE TransferOK(o)'
  <2>1. TransferOK(o)
    BY DEF VirtioInv
  <2>2. CASE o = b
    <3>1. ~ondisk'[b] /\ stands'[b] = "woken"
      BY <1>1, <1>5 DEF VirtioInv, VirtioTypeOK
    <3>2. moved[b] = Once(b)
      BY <1>3, <1>4, <1>5, <2>1, <2>2 DEF TransferOK, InFlight
    <3>3. QED
      BY <1>1, <2>2, <3>1, <3>2 DEF TransferOK, InFlight, Once
  <2>3. CASE o # b
    <3>1. stands'[o] = stands[o] /\ ondisk'[o] = ondisk[o]
      BY <1>1, <1>5, <2>3 DEF VirtioInv, VirtioTypeOK
    <3>2. InFlight(o) => first[o] # h
      BY <1>4, <2>3 DEF Busy
    <3>3. InFlight(o) => (Among(used', first[o]) <=> Among(used, first[o]))
      BY <1>3, <3>2
    <3>4. QED
      BY <1>1, <2>1, <3>1, <3>3 DEF TransferOK, InFlight, Once, OnWay, Among
  <2>4. QED
    BY <2>2, <2>3
<1>11. QED
  BY <1>1, <1>3, <1>6, <1>7, <1>8, <1>9, <1>10 DEF VirtioInv, Distinct

(* The device takes a request from the available ring. *)
LEMMA TakeStep ==
  ASSUME VirtioInv, Take
  PROVE  VirtioInv'
<1> DEFINE h == Head(avail)
<1>1. /\ avail # <<>> /\ avail' = Tail(avail) /\ taken' = taken \cup {h}
      /\ UNCHANGED <<free, desc, info, ops, ondisk, stands, first, asked, used, intr, handling, moved>>
  BY DEF Take, driverVars
<1>2. avail \in Seq(Descs) /\ Distinct(avail)
  BY DEF VirtioInv, VirtioTypeOK
<1>3. /\ avail' \in Seq(Descs) /\ Distinct(avail') /\ h \in Descs /\ Among(avail, h)
      /\ \A y : Among(avail', y) <=> Among(avail, y) /\ y # h
  BY <1>1, <1>2, TailElems
<1> HIDE DEF h
<1>4. VirtioTypeOK'
  BY <1>1, <1>3 DEF VirtioInv, VirtioTypeOK
<1>5. \A y : OnWay(y)' <=> OnWay(y)
  BY <1>1, <1>3 DEF OnWay, Among
<1>6. Busy' = Busy
  BY <1>1 DEF Busy, InFlight
<1>7. \A o \in Busy' : ChainOK(o)'
  BY <1>1, <1>6 DEF VirtioInv, ChainOK, Second, Third
<1>8. ASSUME NEW g \in Descs PROVE HeadOK(g)'
  <2>1. HeadOK(g)
    BY DEF VirtioInv
  <2>2. InFlight(info[g].b)' <=> InFlight(info[g].b)
    BY <1>1 DEF InFlight
  <2>3. QED
    BY <1>1, <1>3, <1>5, <2>1, <2>2 DEF HeadOK, Among
<1>9. \A o \in Bufs : TransferOK(o)'
  BY <1>1, <1>5 DEF VirtioInv, TransferOK, InFlight, Once, Among
<1>10. QED
  BY <1>1, <1>3, <1>4, <1>6, <1>7, <1>8, <1>9 DEF VirtioInv, Distinct

(* The device completes a request. *)
LEMMA CompleteStep ==
  ASSUME VirtioInv, NEW h \in Descs, Complete(h)
  PROVE  VirtioInv'
<1> DEFINE b == info[h].b
<1>1. h \in taken /\ OnWay(h)
  BY DEF Complete, OnWay
<1>2. /\ b \in Busy /\ first[b] = h /\ ondisk[b]
      /\ \A o \in Busy : first[o] = h => o = b
  BY <1>1, HeadFacts
<1>3. b \in Bufs /\ InFlight(b) /\ ChainOK(b) /\ TransferOK(b) /\ HeadOK(h)
  BY <1>2 DEF Busy, VirtioInv
<1> HIDE DEF b
<1>4. ~Among(avail, h) /\ ~Among(used, h) /\ moved[b] = <<>>
  BY <1>1, <1>2, <1>3 DEF HeadOK, TransferOK
<1>5. /\ desc[h].of = h /\ desc[desc[h].next].of = b
      /\ desc[desc[desc[h].next].next].of = h
      /\ ops[h] = [way |-> asked[b], sector |-> b]
  BY <1>2, <1>3 DEF ChainOK, Second, Third
<1>6. /\ taken' = taken \ {h} /\ used' = Append(used, h) /\ intr' = TRUE
      /\ moved' = [moved EXCEPT ![b] = Append(moved[b], ops[h])]
      /\ info' = [info EXCEPT ![h].ok = TRUE]
      /\ UNCHANGED <<free, desc, ops, ondisk, stands, first, asked, avail, handling>>
  BY <1>5 DEF Complete, Put
<1>7. used \in Seq(Descs) /\ Distinct(used)
  BY DEF VirtioInv, VirtioTypeOK
<1>8. /\ used' \in Seq(Descs) /\ Distinct(used')
      /\ \A y : Among(used', y) <=> Among(used, y) \/ y = h
  BY <1>4, <1>6, <1>7, AppendElems
<1>9. Append(moved[b], ops[h]) = Once(b) /\ Once(b) \in Seq(Request)
  <2>1. ops[h] \in Request
    BY DEF VirtioInv, VirtioTypeOK
  <2>2. Append(<<>>, ops[h]) = <<ops[h]>> /\ <<ops[h]>> \in Seq(Request)
    BY <2>1
  <2>3. QED
    BY <1>4, <1>5, <2>2 DEF Once
<1>10. VirtioTypeOK'
  <2>1. moved' \in [Bufs -> Seq(Request)]
    BY <1>3, <1>6, <1>9 DEF VirtioInv, VirtioTypeOK
  <2>2. info' \in [Descs -> [b : Bufs \cup {NoBuf}, ok : BOOLEAN]]
    BY <1>6 DEF VirtioInv, VirtioTypeOK
  <2>3. QED
    BY <1>6, <1>8, <2>1, <2>2 DEF VirtioInv, VirtioTypeOK
<1>11. \A y : OnWay(y)' <=> OnWay(y)
  BY <1>1, <1>6, <1>8 DEF OnWay, Among
<1>12. /\ \A g \in Descs : info'[g].b = info[g].b
       /\ info'[h].ok /\ \A g \in Descs : info[g].ok => info'[g].ok
  BY <1>6 DEF VirtioInv, VirtioTypeOK
<1>13. Busy' = Busy
  BY <1>6 DEF Busy, InFlight
<1>14. \A o \in Busy' : ChainOK(o)'
  <2>1. \A o \in Busy : ChainOK(o)
    BY DEF VirtioInv
  <2>2. ASSUME NEW o \in Busy PROVE ChainOK(o)'
    <3>1. Second(o)' = Second(o) /\ Third(o)' = Third(o) /\ first[o] \in Descs
      BY <1>6, <2>1 DEF Second, Third, ChainOK
    <3>2. QED
      BY <1>6, <1>12, <2>1, <3>1 DEF ChainOK
  <2>3. QED
    BY <1>13, <2>2
<1>15. ASSUME NEW g \in Descs PROVE HeadOK(g)'
  <2>1. HeadOK(g)
    BY DEF VirtioInv
  <2>2. InFlight(info[g].b)' <=> InFlight(info[g].b)
    BY <1>6, <1>12 DEF InFlight
  <2>3. QED
    BY <1>1, <1>4, <1>6, <1>8, <1>11, <1>12, <2>1, <2>2 DEF HeadOK, Among
<1>16. ASSUME NEW o \in Bufs PROVE TransferOK(o)'
  <2>1. TransferOK(o)
    BY DEF VirtioInv
  <2>2. CASE o = b
    <3>1. moved'[b] = Once(b) /\ Among(used', first[b])
      BY <1>2, <1>3, <1>6, <1>8, <1>9 DEF VirtioInv, VirtioTypeOK
    <3>2. QED
      BY <1>3, <1>6, <1>11, <2>1, <2>2, <3>1 DEF TransferOK, InFlight, Once, Among
  <2>3. CASE o # b
    <3>1. moved'[o] = moved[o]
      BY <1>6, <2>3 DEF VirtioInv, VirtioTypeOK
    <3>2. InFlight(o) => first[o] # h
      BY <1>2, <2>3 DEF Busy
    <3>3. InFlight(o) => (Among(used', first[o]) <=> Among(used, first[o]))
      BY <1>8, <3>2
    <3>4. QED
      BY <1>6, <1>11, <2>1, <3>1, <3>3 DEF TransferOK, InFlight, Once, Among
  <2>4. QED
    BY <2>2, <2>3
<1>17. QED
  BY <1>6, <1>8, <1>10, <1>13, <1>14, <1>15, <1>16 DEF VirtioInv, Distinct

(* There are finitely many descriptors. *)
LEMMA FreeFinite ==
  ASSUME VirtioInv
  PROVE  IsFiniteSet(free) /\ Cardinality(free) \in Nat /\ Cardinality(Busy) \in Nat
<1>1. IsFiniteSet(Descs)
  BY VirtioAssumption, FS_Interval DEF Descs
<1>2. IsFiniteSet(free) /\ IsFiniteSet(Busy)
  BY <1>1, FS_Subset DEF VirtioInv, VirtioTypeOK
<1>3. QED
  BY <1>2, FS_CardinalityType

(* virtio_disk_rw() frees its chain and wakes those that wait for          *)
(* descriptors.                                                            *)
LEMMA FinishedStep ==
  ASSUME VirtioInv, NEW b \in Bufs, Finished(b)
  PROVE  VirtioInv'
<1> DEFINE h == first[b]
           ds == {h, Second(b), Third(b)}
<1>1. b \in Busy /\ InFlight(b) /\ stands[b] = "woken" /\ ~ondisk[b]
  BY DEF Finished, Busy, InFlight
<1>2. ChainOK(b) /\ TransferOK(b)
  BY <1>1 DEF VirtioInv
<1>3. ChainFrom(h) = ds
  BY <1>2, VirtioAssumption DEF ChainFrom, ChainOK, Second, Third, Descs
<1>4. /\ h \in Descs \ free /\ Second(b) \in Descs \ free /\ Third(b) \in Descs \ free
      /\ h # Second(b) /\ h # Third(b) /\ Second(b) # Third(b)
  BY <1>1, ChainFacts
<1>5. ds \subseteq Descs /\ ds \cap free = {} /\ h \in Descs
  BY <1>4
<1>6. ASSUME NEW o \in Busy, o # b
      PROVE  first[o] \notin ds /\ Second(o) \notin ds /\ Third(o) \notin ds
  BY <1>1, <1>6, ChainFacts
<1> HIDE DEF ds, h
<1>7. /\ info' = [info EXCEPT ![h].b = NoBuf] /\ free' = free \cup ds
      /\ desc' = [d \in Descs |-> IF d \in ds THEN Unused ELSE desc[d]]
      /\ stands' = [WakeAllocators EXCEPT ![b] = "returned"]
      /\ first' = [first EXCEPT ![b] = NoDesc]
      /\ UNCHANGED <<ops, ondisk, asked, avail, used, taken, intr, handling, moved>>
  BY <1>3 DEF Finished, Put, h
<1>8. VirtioTypeOK'
  <2>1. desc' \in [Descs -> [addr : {"0", "op", "data", "status"},
                             of : Descs \cup Bufs \cup {NoDesc},
                             next : Descs \cup {NoDesc}]]
    BY <1>7 DEF VirtioInv, VirtioTypeOK, Unused
  <2>2. info' \in [Descs -> [b : Bufs \cup {NoBuf}, ok : BOOLEAN]]
    BY <1>7 DEF VirtioInv, VirtioTypeOK
  <2>3. stands' \in [Bufs -> {"idle", "allocates", "waits_desc", "waits_disk", "woken", "returned"}]
    BY <1>7 DEF VirtioInv, VirtioTypeOK, WakeAllocators
  <2>4. free' \subseteq Descs
    BY <1>5, <1>7 DEF VirtioInv, VirtioTypeOK
  <2>5. QED
    BY <1>7, <2>1, <2>2, <2>3, <2>4 DEF VirtioInv, VirtioTypeOK
<1>9. /\ stands'[b] = "returned"
      /\ \A o \in Bufs \ {b} :
           \/ stands'[o] = stands[o] /\ stands[o] # "waits_desc"
           \/ stands[o] = "waits_desc" /\ stands'[o] = "allocates"
  BY <1>7 DEF VirtioInv, VirtioTypeOK, WakeAllocators
<1>10. Busy' = Busy \ {b}
  BY <1>9 DEF Busy, InFlight
<1>11. /\ \A o \in Bufs \ {b} : first'[o] = first[o]
       /\ \A d \in Descs \ ds : desc'[d] = desc[d]
       /\ \A d \in Descs \ {h} : info'[d] = info[d]
  BY <1>7 DEF VirtioInv, VirtioTypeOK
<1>12. ASSUME NEW o \in Busy' PROVE ChainOK(o)'
  <2>1. o \in Busy /\ o # b /\ ChainOK(o) /\ o \in Bufs
    BY <1>10 DEF VirtioInv, Busy
  <2>2. first[o] \notin ds /\ Second(o) \notin ds /\ Third(o) \notin ds
    BY <2>1, <1>6
  <2>3. first[o] \in Descs /\ Second(o) \in Descs /\ Third(o) \in Descs /\ h \in ds
    BY <2>1 DEF ChainOK, ds
  <2>4. /\ first'[o] = first[o] /\ desc'[first[o]] = desc[first[o]]
        /\ desc'[Second(o)] = desc[Second(o)] /\ desc'[Third(o)] = desc[Third(o)]
        /\ info'[first[o]] = info[first[o]]
    BY <2>1, <2>2, <2>3, <1>11
  <2>5. Second(o)' = Second(o)
    BY <2>4 DEF Second
  <2>6. Third(o)' = Third(o)
    BY <2>4, <2>5 DEF Third
  <2>7. /\ first[o] \in Descs \ free' /\ Second(o) \in Descs \ free' /\ Third(o) \in Descs \ free'
    BY <1>7, <2>1, <2>2 DEF ChainOK
  <2>8. asked'[o] = asked[o] /\ ops'[first[o]] = ops[first[o]]
    BY <1>7
  <2>9. QED
    BY <2>1, <2>4, <2>5, <2>6, <2>7, <2>8 DEF ChainOK
<1>13. ~OnWay(h)
  <2>1. OnWay(h) => ondisk[info[h].b] /\ info[h].b = b
    BY <1>2, <1>5 DEF VirtioInv, HeadOK, ChainOK, h
  <2>2. QED
    BY <1>1, <2>1
<1>14. \A y : OnWay(y)' <=> OnWay(y)
  BY <1>7 DEF OnWay, Among
<1>15. ASSUME NEW g \in Descs PROVE HeadOK(g)'
  <2>1. HeadOK(g)
    BY DEF VirtioInv
  <2>2. CASE g = h
    BY <1>7, <1>13, <1>14, <2>1, <2>2 DEF HeadOK, OnWay, Among
  <2>3. CASE g # h
    <3>1. info'[g] = info[g]
      BY <1>11, <2>3
    <3>2. OnWay(g) => info[g].b \in Busy /\ first[info[g].b] = g
      BY <2>1 DEF HeadOK, Busy
    <3>3. OnWay(g) => info[g].b # b
      BY <3>2, <2>3 DEF h
    <3>4. \A o \in Busy \ {b} : stands'[o] = stands[o] /\ first'[o] = first[o] /\ o \in Bufs
      BY <1>9, <1>11 DEF Busy, InFlight
    <3>5. OnWay(g) => /\ stands'[info[g].b] = stands[info[g].b] /\ info[g].b \in Bufs
                      /\ first'[info[g].b] = g
      BY <3>2, <3>3, <3>4
    <3>6. QED
      BY <1>7, <1>14, <2>1, <3>1, <3>5 DEF HeadOK, Among, InFlight
  <2>4. QED
    BY <2>2, <2>3
<1>16. ASSUME NEW o \in Bufs PROVE TransferOK(o)'
  <2>1. TransferOK(o)
    BY DEF VirtioInv
  <2>2. CASE o = b
    <3>1. moved[b] = Once(b)
      BY <1>1, <1>2 DEF TransferOK
    <3>2. QED
      BY <1>7, <1>9, <2>2, <3>1 DEF TransferOK, InFlight, Once
  <2>3. CASE o # b
    <3>1. first'[o] = first[o] /\ stands'[o] # "waits_desc"
      BY <1>9, <1>11, <2>3
    <3>2. QED
      BY <1>7, <1>9, <1>14, <2>1, <2>3, <3>1 DEF TransferOK, InFlight, Once, Among
  <2>4. QED
    BY <2>2, <2>3
<1>17. IsFiniteSet(Busy') /\ NUM = Cardinality(free') + 3 * Cardinality(Busy')
  <2>1. IsFiniteSet(Busy) /\ IsFiniteSet(free) /\ Cardinality(Busy) \in Nat /\ Cardinality(free) \in Nat
    BY FreeFinite DEF VirtioInv
  <2>2. IsFiniteSet(Busy') /\ Cardinality(Busy') = Cardinality(Busy) - 1
    BY <2>1, <1>1, <1>10, FS_RemoveElement
  <2>3. IsFiniteSet(ds) /\ Cardinality(ds) = 3
    BY <1>4, ThreeCard DEF ds
  <2>4. Cardinality(free \cap ds) = 0
    <3>1. free \cap ds = {}
      BY <1>5
    <3>2. QED
      BY <3>1, FS_EmptySet
  <2>5. Cardinality(free') = Cardinality(free) + 3
    BY <1>7, <2>1, <2>3, <2>4, FS_Union
  <2>6. QED
    BY <2>1, <2>2, <2>5 DEF VirtioInv
<1>18. QED
  BY <1>7, <1>8, <1>12, <1>15, <1>16, <1>17 DEF VirtioInv, Distinct

(* alloc3_desc() finds three free descriptors when there are three. *)
LEMMA LowestThree ==
  ASSUME VirtioInv, Cardinality(free) >= 3
  PROVE  /\ Lowest(3) \subseteq free /\ Cardinality(Lowest(3)) = 3 /\ IsFiniteSet(Lowest(3))
<1>1. free \subseteq Nat /\ IsFiniteSet(free) /\ Cardinality(free) \in Nat
  BY FreeFinite, VirtioAssumption DEF VirtioInv, VirtioTypeOK, Descs
<1>2. free # {}
  BY <1>1, FS_EmptySet
<1>3. PICK x \in free : \A d \in free : x <= d
  BY <1>1, <1>2, Least
<1>4. IsFiniteSet(free \ {x}) /\ Cardinality(free \ {x}) = Cardinality(free) - 1
  BY <1>1, <1>3, FS_RemoveElement
<1>5. free \ {x} # {} /\ free \ {x} \subseteq Nat
  BY <1>1, <1>4, FS_EmptySet
<1>6. PICK y \in free \ {x} : \A d \in free \ {x} : y <= d
  BY <1>5, Least
<1> DEFINE two == free \ {x}
<1>7. IsFiniteSet(two \ {y}) /\ Cardinality(two \ {y}) = Cardinality(free) - 2
  <2>1. IsFiniteSet(two) /\ y \in two /\ Cardinality(two) = Cardinality(free) - 1
    BY <1>4, <1>6
  <2> HIDE DEF two
  <2>2. IsFiniteSet(two \ {y}) /\ Cardinality(two \ {y}) = Cardinality(two) - 1
    BY <2>1, FS_RemoveElement
  <2>3. QED
    BY <1>1, <2>1, <2>2
<1>8. two \ {y} # {} /\ two \ {y} \subseteq Nat
  BY <1>1, <1>7, FS_EmptySet
<1>9. PICK z \in two \ {y} : \A d \in two \ {y} : z <= d
  BY <1>8, Least
<1>10. x # y /\ y # z /\ x # z /\ {x, y, z} \subseteq free
  BY <1>3, <1>6, <1>9
<1>11. Cardinality({x, y, z}) = 3
  BY <1>10, ThreeCard
<1>12. \A d \in {x, y, z}, o \in free \ {x, y, z} : d < o
  BY <1>1, <1>3, <1>6, <1>9
<1>13. /\ Lowest(3) \in SUBSET free /\ Cardinality(Lowest(3)) = 3
  BY <1>10, <1>11, <1>12 DEF Lowest
<1>14. QED
  BY <1>1, <1>13, FS_Subset

(* They are head, middle and last of the chain. *)
LEMMA SubmitChoice ==
  ASSUME NEW ds, ds \subseteq Nat, IsFiniteSet(ds), Cardinality(ds) = 3
  PROVE  LET h == CHOOSE d \in ds : \A o \in ds : d <= o
             s == CHOOSE d \in ds : \A o \in ds : d >= o
             m == CHOOSE d \in ds : d # h /\ d # s
         IN  h # m /\ h # s /\ m # s /\ ds = {h, m, s}
<1> DEFINE h == CHOOSE d \in ds : \A o \in ds : d <= o
           s == CHOOSE d \in ds : \A o \in ds : d >= o
           m == CHOOSE d \in ds : d # h /\ d # s
<1>1. PICK x, y, z \in ds : x # y /\ y # z /\ x # z /\ ds = {x, y, z}
  BY Three
<1>2. x \in Nat /\ y \in Nat /\ z \in Nat
  BY <1>1
<1>3. \E d \in ds : \A o \in ds : d <= o
  BY <1>1, <1>2
<1>4. h \in ds /\ \A o \in ds : h <= o
  BY <1>3
<1>5. \E d \in ds : \A o \in ds : d >= o
  BY <1>1, <1>2
<1>6. s \in ds /\ \A o \in ds : s >= o
  BY <1>5
<1>7. h # s
  BY <1>1, <1>2, <1>4, <1>6
<1>8. \E d \in ds : d # h /\ d # s
  BY <1>1, <1>4, <1>6
<1> HIDE DEF h, s
<1>9. m \in ds /\ m # h /\ m # s
  BY <1>8
<1> HIDE DEF m
<1>10. h # m /\ h # s /\ m # s /\ ds = {h, m, s}
  BY <1>1, <1>4, <1>6, <1>7, <1>9
<1>11. QED
  BY <1>10 DEF h, s, m

(* What virtio_disk_rw() has done when it notifies the device *)
LEMMA SubmitEffect ==
  ASSUME VirtioInv, NEW b \in Bufs, Submit(b)
  PROVE  \E h, m, s \in free :
           /\ h # m /\ h # s /\ m # s /\ Cardinality(free) >= 3 /\ stands[b] = "allocates"
           /\ free' = free \ {h, m, s}
           /\ ops' = [ops EXCEPT ![h] = [way |-> asked[b], sector |-> b]]
           /\ desc' = Chain(h, m, s, b)
           /\ info' = [info EXCEPT ![h] = [b |-> b, ok |-> FALSE]]
           /\ ondisk' = [ondisk EXCEPT ![b] = TRUE]
           /\ first' = [first EXCEPT ![b] = h]
           /\ avail' = Append(avail, h)
           /\ stands' = [stands EXCEPT ![b] = "waits_disk"]
           /\ UNCHANGED <<asked, used, taken, intr, handling, moved>>
<1> DEFINE ds == Lowest(3)
           h == CHOOSE d \in ds : \A o \in ds : d <= o
           s == CHOOSE d \in ds : \A o \in ds : d >= o
           m == CHOOSE d \in ds : d # h /\ d # s
<1>1. /\ Cardinality(free) >= 3 /\ stands[b] = "allocates"
      /\ free' = free \ ds
      /\ ops' = [ops EXCEPT ![h] = [way |-> asked[b], sector |-> b]]
      /\ desc' = Chain(h, m, s, b)
      /\ info' = [info EXCEPT ![h] = [b |-> b, ok |-> FALSE]]
      /\ ondisk' = [ondisk EXCEPT ![b] = TRUE]
      /\ first' = [first EXCEPT ![b] = h]
      /\ avail' = Append(avail, h)
      /\ stands' = [stands EXCEPT ![b] = "waits_disk"]
      /\ UNCHANGED <<asked, used, taken, intr, handling, moved>>
  BY Zenon DEF Submit, Put
<1>2. ds \subseteq free /\ Cardinality(ds) = 3 /\ IsFiniteSet(ds)
  BY <1>1, LowestThree
<1>3. free \subseteq Nat
  BY VirtioAssumption DEF VirtioInv, VirtioTypeOK, Descs
<1> HIDE DEF ds
<1>4. h # m /\ h # s /\ m # s /\ ds = {h, m, s}
  <2>1. ds \subseteq Nat /\ IsFiniteSet(ds) /\ Cardinality(ds) = 3
    BY <1>2, <1>3
  <2>2. QED
    BY <2>1, SubmitChoice, Zenon
<1> HIDE DEF h, m, s
<1>5. h \in free /\ m \in free /\ s \in free
  BY <1>2, <1>4
<1>6. free' = free \ {h, m, s}
  BY <1>1, <1>4
<1>7. QED
  BY <1>1, <1>4, <1>5, <1>6

(* virtio_disk_rw() submits a request. *)
LEMMA SubmitStep ==
  ASSUME VirtioInv, NEW b \in Bufs, Submit(b)
  PROVE  VirtioInv'
<1>1. PICK h, m, s \in free :
           /\ h # m /\ h # s /\ m # s /\ Cardinality(free) >= 3 /\ stands[b] = "allocates"
           /\ free' = free \ {h, m, s}
           /\ ops' = [ops EXCEPT ![h] = [way |-> asked[b], sector |-> b]]
           /\ desc' = Chain(h, m, s, b)
           /\ info' = [info EXCEPT ![h] = [b |-> b, ok |-> FALSE]]
           /\ ondisk' = [ondisk EXCEPT ![b] = TRUE]
           /\ first' = [first EXCEPT ![b] = h]
           /\ avail' = Append(avail, h)
           /\ stands' = [stands EXCEPT ![b] = "waits_disk"]
           /\ UNCHANGED <<asked, used, taken, intr, handling, moved>>
  BY SubmitEffect
<1>2. h \in Descs /\ m \in Descs /\ s \in Descs
  BY <1>1 DEF VirtioInv, VirtioTypeOK
<1>3. b \notin Busy /\ TransferOK(b)
  BY <1>1 DEF Busy, InFlight, VirtioInv
<1>4. ASSUME NEW o \in Busy
      PROVE  /\ o \in Bufs /\ o # b
             /\ first[o] \in Descs \ free /\ Second(o) \in Descs \ free /\ Third(o) \in Descs \ free
  BY <1>3, ChainFacts
<1>5. ~OnWay(h)
  BY <1>1, <1>2, <1>4, HeadFacts
<1>6. ~Among(avail, h) /\ ~Among(used, h) /\ h \notin taken
  BY <1>5 DEF OnWay
<1>7. avail \in Seq(Descs) /\ Distinct(avail)
  BY DEF VirtioInv, VirtioTypeOK
<1>8. /\ avail' \in Seq(Descs) /\ Distinct(avail')
      /\ \A y : Among(avail', y) <=> Among(avail, y) \/ y = h
  BY <1>1, <1>2, <1>6, <1>7, AppendElems
<1>9. /\ desc'[h] = [addr |-> "op", of |-> h, next |-> m]
      /\ desc'[m] = [addr |-> "data", of |-> b, next |-> s]
      /\ desc'[s] = [addr |-> "status", of |-> h, next |-> NoDesc]
      /\ \A d \in Descs \ {h, m, s} : desc'[d] = desc[d]
  BY <1>1, <1>2 DEF Chain, VirtioInv, VirtioTypeOK
<1>10. /\ info'[h] = [b |-> b, ok |-> FALSE]
       /\ \A d \in Descs \ {h} : info'[d] = info[d] /\ ops'[d] = ops[d]
       /\ ops'[h] = [way |-> asked[b], sector |-> b]
  BY <1>1, <1>2 DEF VirtioInv, VirtioTypeOK
<1>11. /\ first'[b] = h /\ stands'[b] = "waits_disk" /\ ondisk'[b]
       /\ \A o \in Bufs \ {b} : first'[o] = first[o] /\ stands'[o] = stands[o] /\ ondisk'[o] = ondisk[o]
  BY <1>1 DEF VirtioInv, VirtioTypeOK
<1>12. Busy' = Busy \cup {b}
  BY <1>11 DEF Busy, InFlight
<1>13. VirtioTypeOK'
  <2>1. desc' \in [Descs -> [addr : {"0", "op", "data", "status"},
                             of : Descs \cup Bufs \cup {NoDesc},
                             next : Descs \cup {NoDesc}]]
    BY <1>1, <1>2 DEF VirtioInv, VirtioTypeOK, Chain
  <2>2. info' \in [Descs -> [b : Bufs \cup {NoBuf}, ok : BOOLEAN]]
    BY <1>1, <1>2 DEF VirtioInv, VirtioTypeOK
  <2>3. ops' \in [Descs -> Request]
    BY <1>1, <1>2 DEF VirtioInv, VirtioTypeOK, Request
  <2>4. stands' \in [Bufs -> {"idle", "allocates", "waits_desc", "waits_disk", "woken", "returned"}]
    BY <1>1 DEF VirtioInv, VirtioTypeOK
  <2>5. first' \in [Bufs -> Descs \cup {NoDesc}] /\ ondisk' \in [Bufs -> BOOLEAN]
    BY <1>1, <1>2 DEF VirtioInv, VirtioTypeOK
  <2>6. free' \subseteq Descs
    BY <1>1 DEF VirtioInv, VirtioTypeOK
  <2>7. QED
    BY <1>1, <1>8, <2>1, <2>2, <2>3, <2>4, <2>5, <2>6 DEF VirtioInv, VirtioTypeOK
<1>14. ASSUME NEW o \in Busy' PROVE ChainOK(o)'
  <2>1. CASE o = b
    <3>1. first'[b] = h /\ Second(b)' = m /\ Third(b)' = s
      BY <1>9, <1>11 DEF Second, Third
    <3>2. asked'[b] = asked[b]
      BY <1>1
    <3>3. h \notin free' /\ m \notin free' /\ s \notin free'
      BY <1>1
    <3>4. QED
      BY <1>2, <1>9, <1>10, <2>1, <3>1, <3>2, <3>3 DEF ChainOK
  <2>2. CASE o # b
    <3>1. o \in Busy /\ ChainOK(o)
      BY <1>12, <2>2 DEF VirtioInv
    <3>2. /\ first[o] \in Descs \ {h, m, s} /\ Second(o) \in Descs \ {h, m, s}
          /\ Third(o) \in Descs \ {h, m, s}
      BY <1>1, <1>4, <3>1
    <3>3. first'[o] = first[o] /\ Second(o)' = Second(o) /\ Third(o)' = Third(o)
      BY <1>4, <1>9, <1>11, <3>1, <3>2 DEF Second, Third
    <3>4. /\ desc'[first[o]] = desc[first[o]] /\ desc'[Second(o)] = desc[Second(o)]
          /\ desc'[Third(o)] = desc[Third(o)] /\ info'[first[o]] = info[first[o]]
          /\ ops'[first[o]] = ops[first[o]] /\ asked'[o] = asked[o]
      BY <1>1, <1>9, <1>10, <3>2
    <3>5. first[o] \in Descs \ free' /\ Second(o) \in Descs \ free' /\ Third(o) \in Descs \ free'
      BY <1>1, <1>4, <3>1
    <3>6. QED
      BY <3>1, <3>3, <3>4, <3>5 DEF ChainOK
  <2>3. QED
    BY <2>1, <2>2
<1>15. \A y : OnWay(y)' <=> OnWay(y) \/ y = h
  BY <1>1, <1>8 DEF OnWay, Among
<1>16. ASSUME NEW g \in Descs PROVE HeadOK(g)'
  <2>1. HeadOK(g)
    BY DEF VirtioInv
  <2>2. CASE g = h
    <3>1. info'[g].b = b /\ InFlight(b)'
      BY <1>10, <1>11, <2>2 DEF InFlight
    <3>2. QED
      BY <1>1, <1>6, <1>11, <2>2, <3>1 DEF HeadOK, Among, InFlight
  <2>3. CASE g # h
    <3>1. info'[g] = info[g] /\ (OnWay(g)' <=> OnWay(g))
      BY <1>10, <1>15, <2>3
    <3>2. OnWay(g) => info[g].b \in Busy /\ first[info[g].b] = g /\ ondisk[info[g].b]
      BY HeadFacts
    <3>3. OnWay(g) => /\ info[g].b \in Bufs /\ InFlight(info[g].b)
                      /\ stands'[info[g].b] = stands[info[g].b]
                      /\ first'[info[g].b] = g /\ ondisk'[info[g].b]
      BY <3>2, <1>4, <1>11 DEF Busy
    <3>4. Among(avail', g) <=> Among(avail, g)
      BY <1>8, <2>3
    <3>5. QED
      BY <1>1, <2>1, <3>1, <3>3, <3>4 DEF HeadOK, Among, InFlight
  <2>4. QED
    BY <2>2, <2>3
<1>17. Cardinality(free') < Cardinality(free) /\ IsFiniteSet(free)
       /\ Cardinality(free') = Cardinality(free) - 3 /\ Cardinality(free) \in Nat
  <2>1. IsFiniteSet(free) /\ Cardinality(free) \in Nat
    BY FreeFinite
  <2>2. IsFiniteSet({h, m, s}) /\ Cardinality({h, m, s}) = 3
    BY <1>1, ThreeCard
  <2>3. free \cap {h, m, s} = {h, m, s}
    OBVIOUS
  <2>4. Cardinality(free \ {h, m, s}) = Cardinality(free) - Cardinality(free \cap {h, m, s})
    BY <2>1, FS_Difference
  <2>5. Cardinality(free \cap {h, m, s}) = 3
    BY <2>2, <2>3
  <2>6. free' = free \ {h, m, s}
    BY <1>1
  <2>7. Cardinality(free') = Cardinality(free) - 3
    BY <2>4, <2>5, <2>6
  <2>8. QED
    BY <2>1, <2>7
<1>18. ASSUME NEW o \in Bufs PROVE TransferOK(o)'
  <2>1. TransferOK(o)
    BY DEF VirtioInv
  <2>2. CASE o = b
    <3>1. moved'[b] = <<>>
      BY <1>1, <1>3 DEF TransferOK
    <3>2. ~Among(used', h)
      BY <1>1, <1>6
    <3>3. OnWay(first[b])'
      BY <1>11, <1>15
    <3>4. QED
      BY <1>11, <2>2, <3>1, <3>2, <3>3 DEF TransferOK, InFlight
  <2>3. CASE o # b
    <3>2. OnWay(first[o]) => OnWay(first[o])'
      BY <1>11, <1>15, <2>3
    <3>3. Cardinality(free) < 3 => Cardinality(free') < 3
      BY <1>17
    <3>4. first'[o] = first[o] /\ stands'[o] = stands[o] /\ ondisk'[o] = ondisk[o]
      BY <1>11, <2>3
    <3>5. UNCHANGED <<asked, used, moved>>
      BY <1>1
    <3>6. QED
      BY <2>1, <3>2, <3>3, <3>4, <3>5 DEF TransferOK, InFlight, Once, Among
  <2>4. QED
    BY <2>2, <2>3
<1>19. IsFiniteSet(Busy') /\ NUM = Cardinality(free') + 3 * Cardinality(Busy')
  <2>1. IsFiniteSet(Busy) /\ Cardinality(Busy) \in Nat
    BY FreeFinite DEF VirtioInv
  <2>2. IsFiniteSet(Busy') /\ Cardinality(Busy') = Cardinality(Busy) + 1
    BY <2>1, <1>3, <1>12, FS_AddElement
  <2>3. QED
    BY <2>1, <2>2, <1>17 DEF VirtioInv
<1>20. UNCHANGED <<used, handling, intr>>
  BY <1>1
<1>21. QED
  BY <1>8, <1>13, <1>14, <1>16, <1>18, <1>19, <1>20 DEF VirtioInv, Distinct

(* VirtioInv is inductive. *)
LEMMA VirtioStep == VirtioInv /\ [VirtioNext]_viVars => VirtioInv'
<1> SUFFICES ASSUME VirtioInv, [VirtioNext]_viVars PROVE VirtioInv'
  OBVIOUS
<1>1. CASE UNCHANGED viVars
  <2>1. UNCHANGED <<free, desc, info, ops, ondisk, stands, first, asked, avail, used, taken, intr,
                    handling, moved>>
    BY <1>1 DEF viVars, driverVars
  <2>2. VirtioTypeOK' /\ Busy' = Busy
    BY <2>1 DEF VirtioInv, VirtioTypeOK, Busy, InFlight
  <2>3. \A o \in Bufs : TransferOK(o)'
    BY <2>1 DEF VirtioInv, TransferOK, InFlight, Once, OnWay, Among
  <2>4. QED
    BY <2>1, <2>2, <2>3, Frame DEF VirtioInv
<1>2. CASE VirtioNext
  BY <1>2, AskStep, NoDescriptorsStep, SubmitStep, StillOnDiskStep, FinishedStep, BufReleasedStep,
     VirtioKillStep, IntrAckStep, IntrLoopStep, TakeStep, CompleteStep DEF VirtioNext
<1>3. QED
  BY <1>1, <1>2

(* What VirtioInv is for *)
LEMMA VirtioSafe ==
  ASSUME VirtioInv
  PROVE  DiskWorks /\ DiskWaitsHaveCause
<1>1. DoneOnce
  <2> SUFFICES ASSUME NEW b \in Bufs
               PROVE  /\ stands[b] = "returned" => moved[b] = <<[way |-> asked[b], sector |-> b]>>
                      /\ InFlight(b) => Len(moved[b]) <= 1
    BY DEF DoneOnce
  <2>1. TransferOK(b)
    BY DEF VirtioInv
  <2>2. Len(<<>>) = 0 /\ Len(Once(b)) = 1
    BY DEF Once
  <2>3. InFlight(b) => moved[b] = <<>> \/ moved[b] = Once(b)
    BY <2>1 DEF TransferOK
  <2>4. stands[b] = "returned" => moved[b] = Once(b)
    BY <2>1 DEF TransferOK
  <2>5. InFlight(b) => Len(moved[b]) <= 1
    <3>1. moved[b] = <<>> => Len(moved[b]) <= 1
      OBVIOUS
    <3>2. moved[b] = Once(b) => Len(moved[b]) <= 1
      <4>1. Len(<<[way |-> asked[b], sector |-> b]>>) <= 1
        OBVIOUS
      <4>2. QED
        BY <4>1 DEF Once
    <3>3. QED
      BY <2>3, <3>1, <3>2
  <2>6. QED
    BY <2>4, <2>5 DEF Once
<1>2. ASSUME NEW b \in Bufs, InFlight(b)
      PROVE  LET ds == ChainFrom(first[b]) IN
             /\ Cardinality(ds) = 3 /\ ds \cap free = {}
             /\ info[first[b]].b = b
             /\ \A o \in Bufs \ {b} : InFlight(o) => ds \cap ChainFrom(first[o]) = {}
  <2>1. b \in Busy
    BY <1>2 DEF Busy
  <2>2. ASSUME NEW o \in Busy PROVE ChainFrom(first[o]) = {first[o], Second(o), Third(o)}
    <3>1. ChainOK(o)
      BY DEF VirtioInv
    <3>2. QED
      BY <3>1, VirtioAssumption DEF ChainFrom, ChainOK, Second, Third, Descs
  <2>3. Cardinality({first[b], Second(b), Third(b)}) = 3
    BY <2>1, ChainFacts, ThreeCard
  <2>4. {first[b], Second(b), Third(b)} \cap free = {}
    BY <2>1, ChainFacts
  <2>5. info[first[b]].b = b
    BY <2>1 DEF VirtioInv, ChainOK
  <2>6. \A o \in Bufs \ {b} : InFlight(o) =>
          {first[b], Second(b), Third(b)} \cap {first[o], Second(o), Third(o)} = {}
    BY <2>1, ChainFacts DEF Busy
  <2>7. \A o \in Bufs : InFlight(o) => o \in Busy
    BY DEF Busy
  <2>8. QED
    BY <2>1, <2>2, <2>3, <2>4, <2>5, <2>6, <2>7
<1>3. ASSUME NEW k \in 1 .. Len(used)
      PROVE  info[used[k]].ok /\ info[used[k]].b # NoBuf
  <2>1. used[k] \in Descs /\ Among(used, used[k])
    BY <1>3 DEF VirtioInv, VirtioTypeOK, Among
  <2>2. HeadOK(used[k])
    BY <2>1 DEF VirtioInv
  <2>3. QED
    BY <2>1, <2>2, VirtioAssumption DEF HeadOK, OnWay
<1>4. ChainsApart
  BY <1>2, <1>3 DEF ChainsApart, VirtioInv, Busy
<1>5. DiskWaitsHaveCause
  <2> SUFFICES ASSUME NEW b \in Bufs
               PROVE  /\ stands[b] = "waits_desc" => Cardinality(free) < 3
                      /\ stands[b] = "waits_disk" =>
                           /\ ondisk[b]
                           /\ \/ first[b] \in taken \/ \E k \in 1 .. Len(avail) : avail[k] = first[b]
                              \/ (handling \/ intr) /\ \E k \in 1 .. Len(used) : used[k] = first[b]
    BY DEF DiskWaitsHaveCause
  <2>1. TransferOK(b)
    BY DEF VirtioInv
  <2>2. Among(used, first[b]) => used # <<>>
    BY DEF Among
  <2>3. QED
    BY <2>1, <2>2 DEF TransferOK, InFlight, OnWay, Among, VirtioInv
<1>6. QED
  BY <1>1, <1>4, <1>5 DEF DiskWorks

(* Each request of virtio_disk_rw() moves its block once, in its own       *)
(* direction, with descriptors that no other request has, and who sleeps   *)
(* for descriptors or for the disk is woken by what must still happen.     *)
THEOREM DiskSafety == VirtioSpec => [](DiskWorks /\ DiskWaitsHaveCause)
  BY VirtioInit1, VirtioStep, VirtioSafe, PTL DEF VirtioSpec

-----------------------------------------------------------------------------
(* Rings: indices counted modulo W into a buffer of B places, B dividing W *)

(* % where it can be said without it *)
LEMMA ModOnce ==
  ASSUME NEW B \in Nat \ {0}, NEW x \in Nat, x < 2 * B
  PROVE  x % B = IF x < B THEN x ELSE x - B
OBVIOUS

(* The place of an index is the same before and after it wraps. *)
LEMMA PlaceWraps ==
  ASSUME NEW B \in Nat \ {0}, NEW W \in Nat, W % B = 0, NEW x \in Nat, x >= W
  PROVE  (x - W) % B = x % B
<1>1. W = (W \div B) * B
  OBVIOUS
<1>2. x = (x \div B) * B + (x % B) /\ (x % B) \in 0 .. B - 1
  OBVIOUS
<1>3. x - W = ((x \div B) - (W \div B)) * B + (x % B)
  BY <1>1, <1>2
<1> DEFINE c == x % B
           q == (x \div B) - (W \div B)
<1>4. c \in 0 .. B - 1 /\ q \in Int /\ x - W = q * B + c /\ x - W \in Int
  BY <1>2, <1>3
<1> HIDE DEF c, q
<1>5. (x - W) % B = c
  BY <1>4
<1>6. QED
  BY <1>5 DEF c

(* Indices less than B apart have different places. *)
LEMMA PlacesApart ==
  ASSUME NEW B \in Nat \ {0}, NEW x \in Nat, NEW d \in Nat, d > 0, d < B
  PROVE  (x % B) # ((x + d) % B)
<1> SUFFICES ASSUME (x % B) = ((x + d) % B) PROVE FALSE
  OBVIOUS
<1>1. x = (x \div B) * B + (x % B) /\ (x \div B) \in Int /\ (x % B) \in Int
  OBVIOUS
<1>2. x + d = ((x + d) \div B) * B + ((x + d) % B) /\ ((x + d) \div B) \in Int
  OBVIOUS
<1> DEFINE t == ((x + d) \div B) - (x \div B)
<1>3. t \in Int /\ t * B = d
  BY <1>1, <1>2
<1> HIDE DEF t
<1>4. t <= 0 => t * B <= 0
  BY <1>3
<1>5. t >= 1 => t * B >= B
  BY <1>3
<1>6. QED
  BY <1>3, <1>4, <1>5

(* The index n after a *)
Ahead(a, n, W) == IF a + n < W THEN a + n ELSE a + n - W

(* An index further on has the same place whether or not it wraps. *)
LEMMA PlaceAhead ==
  ASSUME NEW B \in Nat \ {0}, NEW W \in Nat, W % B = 0, W > B,
         NEW a \in 0 .. W - 1, NEW n \in 0 .. B, NEW k \in Nat
  PROVE  (Ahead(a, n, W) + k) % B = (a + n + k) % B /\ Ahead(a, n, W) \in 0 .. W - 1
<1>1. CASE a + n < W
  BY <1>1 DEF Ahead
<1>2. CASE a + n >= W
  <2>1. PICK x \in Nat : x = a + n + k /\ x >= W
    BY <1>2
  <2>2. (x - W) % B = x % B
    BY <2>1, PlaceWraps
  <2>3. Ahead(a, n, W) + k = x - W
    BY <1>2, <2>1 DEF Ahead
  <2>4. Ahead(a, n, W) \in 0 .. W - 1
    BY <1>2 DEF Ahead
  <2>5. QED
    BY <2>1, <2>2, <2>3, <2>4
<1>3. QED
  BY <1>1, <1>2

(* How far an index is ahead of another *)
LEMMA DistanceIs ==
  ASSUME NEW W \in Nat \ {0}, NEW a \in 0 .. W - 1, NEW b \in 0 .. W - 1
  PROVE  (W + a - b) % W = IF a >= b THEN a - b ELSE W + a - b
<1>1. PICK n \in Nat : n = W + a - b /\ n < 2 * W
  OBVIOUS
<1>2. n % W = IF n < W THEN n ELSE n - W
  BY <1>1, ModOnce
<1>3. QED
  BY <1>1, <1>2

(* The index d places on *)
LEMMA AheadIs ==
  ASSUME NEW W \in Nat \ {0}, NEW a \in 0 .. W - 1, NEW d \in 0 .. W
  PROVE  (a + d) % W = Ahead(a, d, W)
<1>1. PICK n \in Nat : n = a + d /\ n < 2 * W
  OBVIOUS
<1>2. n % W = IF n < W THEN n ELSE n - W
  BY <1>1, ModOnce
<1>3. QED
  BY <1>1, <1>2 DEF Ahead

-----------------------------------------------------------------------------
(* The console *)

(* Values of r, w and e; what a place of the buffer can hold *)
Indices == 0 .. CWRAP - 1
Keys == Typed \cup {"0"}

(* Types of the console *)
ConsoleTypeOK ==
  /\ r \in Indices /\ w \in Indices /\ e \in Indices
  /\ line \in Seq(Keys) /\ key \in Keys
  /\ cbuf \in [0 .. INPUT_BUF_SIZE - 1 -> Keys]
  /\ rd \in [Readers -> {"user", "loop", "falls_asleep", "asleep", "woken"}]
  /\ got \in [Readers -> Nat]

(* The buffer holds what was typed and not read, and no line ends after w. *)
LineInv ==
  /\ e = Ahead(r, Len(line), CWRAP) /\ Len(line) <= INPUT_BUF_SIZE
  /\ Minus(w, r) <= Len(line)
  /\ \A k \in 1 .. Len(line) : At(r + k - 1) = line[k]
  /\ \A k \in Minus(w, r) + 1 .. Len(line) : line[k] \notin {Newline, EndOfFile}

(* Who looks at the buffer has cons.lock, and sleeps when there is no line. *)
ReaderInv ==
  \A p \in Readers :
    /\ rd[p] \in {"loop", "falls_asleep"} => conslock = p
    /\ rd[p] \in {"falls_asleep", "asleep"} => r = w

(* The console: the inductive invariant *)
ConsoleInv == ConsoleTypeOK /\ LineInv /\ ReaderInv

(* Differences of indices of the input buffer *)
LEMMA MinusIs ==
  ASSUME NEW a \in Indices, NEW b \in Indices
  PROVE  /\ Minus(a, b) = IF a >= b THEN a - b ELSE CWRAP + a - b
         /\ Minus(a, b) \in Nat /\ (Minus(a, b) = 0 <=> a = b)
<1>1. CWRAP \in Nat \ {0} /\ a \in 0 .. CWRAP - 1 /\ b \in 0 .. CWRAP - 1
  BY ConsoleAssumption DEF Indices
<1>2. (CWRAP + a - b) % CWRAP = IF a >= b THEN a - b ELSE CWRAP + a - b
  BY <1>1, DistanceIs
<1>3. QED
  BY <1>1, <1>2 DEF Minus

(* The next index *)
LEMMA Plus1Is ==
  ASSUME NEW a \in Indices
  PROVE  Plus1(a) = Ahead(a, 1, CWRAP) /\ Plus1(a) \in Indices
<1>1. CWRAP \in Nat \ {0} /\ a \in 0 .. CWRAP - 1 /\ 1 \in 0 .. CWRAP
  BY ConsoleAssumption DEF Indices
<1>2. (a + 1) % CWRAP = Ahead(a, 1, CWRAP)
  BY <1>1, AheadIs
<1>3. QED
  BY <1>1, <1>2, ConsoleAssumption DEF Plus1, Ahead, Indices

(* The place in the buffer of an index n on *)
LEMMA AtFwd ==
  ASSUME NEW a \in Indices, NEW n \in 0 .. INPUT_BUF_SIZE, NEW k \in Nat
  PROVE  /\ (Ahead(a, n, CWRAP) + k) % INPUT_BUF_SIZE = (a + n + k) % INPUT_BUF_SIZE
         /\ Ahead(a, n, CWRAP) \in Indices
BY PlaceAhead, ConsoleAssumption DEF Indices

(* The console at first *)
LEMMA ConsoleInit1 == ConsoleInit => ConsoleInv
<1> SUFFICES ASSUME ConsoleInit PROVE ConsoleInv
  OBVIOUS
<1>1. r = 0 /\ w = 0 /\ e = 0 /\ line = <<>> /\ 0 \in Indices
  BY ConsoleAssumption DEF ConsoleInit, Indices
<1>2. ConsoleTypeOK
  <2>1. <<>> \in Seq(Keys)
    OBVIOUS
  <2>2. QED
    BY <1>1, <2>1 DEF ConsoleInit, ConsoleTypeOK, Keys
<1>3. Minus(w, r) = 0
  BY <1>1, MinusIs
<1>4. LineInv
  BY <1>1, <1>3, ConsoleAssumption DEF LineInv, Ahead
<1>5. ReaderInv
  BY <1>1 DEF ConsoleInit, ReaderInv
<1>6. QED
  BY <1>2, <1>4, <1>5 DEF ConsoleInv

(* A character before w is read. *)
LEMMA ReadOne ==
  ASSUME ConsoleInv, r # w, r' = Plus1(r), line' = Tail(line), UNCHANGED <<w, e, cbuf>>
  PROVE  LineInv' /\ r' \in Indices /\ line' \in Seq(Keys)
<1>1. r \in Indices /\ w \in Indices /\ line \in Seq(Keys)
  BY DEF ConsoleInv, ConsoleTypeOK
<1>2. r' = Ahead(r, 1, CWRAP) /\ r' \in Indices
  BY <1>1, Plus1Is
<1>3. Minus(w, r) \in Nat /\ Minus(w, r) # 0 /\ Minus(w, r') = Minus(w, r) - 1
  <2>1. Minus(w, r) = IF w >= r THEN w - r ELSE CWRAP + w - r
    BY <1>1, MinusIs
  <2>2. Minus(w, r') = IF w >= r' THEN w - r' ELSE CWRAP + w - r'
    BY <1>1, <1>2, MinusIs
  <2>3. QED
    BY <1>1, <1>2, <2>1, <2>2, ConsoleAssumption DEF Ahead, Indices
<1>4. /\ Len(line) \in Nat /\ Len(line) # 0 /\ line' \in Seq(Keys) /\ Len(line') = Len(line) - 1
      /\ \A k \in 1 .. Len(line') : line'[k] = line[k + 1]
  <2>1. line # <<>>
    BY <1>1, <1>3 DEF ConsoleInv, LineInv
  <2>2. QED
    BY <1>1, <2>1
<1>5. e = Ahead(r', Len(line'), CWRAP)
  BY <1>1, <1>2, <1>4, ConsoleAssumption DEF ConsoleInv, LineInv, Ahead, Indices
<1>6. ASSUME NEW k \in 1 .. Len(line')
      PROVE  cbuf[(r' + k - 1) % INPUT_BUF_SIZE] = line'[k]
  <2>1. k \in Nat /\ k - 1 \in Nat /\ k + 1 \in 1 .. Len(line) /\ 1 \in 0 .. INPUT_BUF_SIZE
    BY <1>4, ConsoleAssumption
  <2>2. (r' + (k - 1)) % INPUT_BUF_SIZE = (r + 1 + (k - 1)) % INPUT_BUF_SIZE
    BY <1>1, <1>2, <2>1, AtFwd
  <2>3. cbuf[(r + (k + 1) - 1) % INPUT_BUF_SIZE] = line[k + 1]
    BY <2>1 DEF ConsoleInv, LineInv, At
  <2>4. r' + (k - 1) = r' + k - 1 /\ r + 1 + (k - 1) = r + (k + 1) - 1
    BY <1>1, <1>2, <2>1 DEF Indices
  <2>5. QED
    BY <1>4, <2>2, <2>3, <2>4
<1>7. Minus(w', r') = Minus(w, r) - 1
  BY <1>3
<1>8. ASSUME NEW k \in Minus(w, r) - 1 + 1 .. Len(line') PROVE line'[k] \notin {Newline, EndOfFile}
  <2>1. k \in 1 .. Len(line') /\ k + 1 \in Minus(w, r) + 1 .. Len(line)
    BY <1>3, <1>4
  <2>2. QED
    BY <1>4, <2>1 DEF ConsoleInv, LineInv
<1>9. Len(line') <= INPUT_BUF_SIZE /\ Minus(w, r) - 1 <= Len(line')
  BY <1>3, <1>4, ConsoleAssumption DEF ConsoleInv, LineInv
<1>10. QED
  BY <1>2, <1>4, <1>5, <1>6, <1>7, <1>8, <1>9 DEF LineInv, At

(* What is typed last is taken back, not beyond w. *)
LEMMA CutSome ==
  ASSUME ConsoleInv, NEW n \in Nat, Minus(w, r) + n <= Len(line),
         e' = Ahead(r, Len(line) - n, CWRAP), line' = Cut(line, n), UNCHANGED <<r, w, cbuf>>
  PROVE  LineInv' /\ line' \in Seq(Keys) /\ e' \in Indices
<1>1. r \in Indices /\ w \in Indices /\ line \in Seq(Keys) /\ Minus(w, r) \in Nat
  BY MinusIs DEF ConsoleInv, ConsoleTypeOK
<1>2. /\ Len(line) \in Nat /\ line' \in Seq(Keys) /\ Len(line') = Len(line) - n
      /\ \A k \in 1 .. Len(line') : line'[k] = line[k]
  BY <1>1 DEF Cut
<1>3. Len(line) - n \in 0 .. INPUT_BUF_SIZE
  BY <1>1, <1>2, ConsoleAssumption DEF ConsoleInv, LineInv
<1>4. e' \in Indices
  BY <1>1, <1>3, AtFwd
<1>5. /\ e' = Ahead(r', Len(line'), CWRAP) /\ Len(line') <= INPUT_BUF_SIZE
      /\ Minus(w, r) <= Len(line')
  BY <1>1, <1>2, <1>3
<1>6. \A k \in 1 .. Len(line') : At(r + k - 1) = line'[k]
  BY <1>2 DEF ConsoleInv, LineInv
<1>7. \A k \in Minus(w, r) + 1 .. Len(line') : line'[k] \notin {Newline, EndOfFile}
  BY <1>1, <1>2 DEF ConsoleInv, LineInv
<1>8. Minus(w', r') = Minus(w, r) /\ \A k \in 1 .. Len(line') : At(r + k - 1)' = At(r + k - 1)
  BY DEF At
<1>9. QED
  BY <1>2, <1>4, <1>5, <1>6, <1>7, <1>8 DEF LineInv, At

(* A character is stored where nothing is that is still to be read. *)
LEMMA StoreOne ==
  ASSUME ConsoleInv, Room, cbuf' = Put(cbuf, e % INPUT_BUF_SIZE, key), e' = Plus1(e),
         line' = Append(line, key), r' = r,
         w' = e' \/ (w' = w /\ key \notin {Newline, EndOfFile})
  PROVE  LineInv' /\ line' \in Seq(Keys) /\ e' \in Indices
         /\ cbuf' \in [0 .. INPUT_BUF_SIZE - 1 -> Keys]
<1>0. /\ INPUT_BUF_SIZE \in Nat \ {0} /\ CWRAP \in Nat /\ CWRAP > INPUT_BUF_SIZE
  BY ConsoleAssumption
<1>1. /\ r \in Indices /\ w \in Indices /\ e \in Indices /\ line \in Seq(Keys) /\ key \in Keys
      /\ cbuf \in [0 .. INPUT_BUF_SIZE - 1 -> Keys] /\ e = Ahead(r, Len(line), CWRAP) /\ Len(line) \in Nat
      /\ Len(line) <= INPUT_BUF_SIZE
  BY DEF ConsoleInv, ConsoleTypeOK, LineInv
<1>2. e' = Ahead(e, 1, CWRAP) /\ e' \in Indices
  BY <1>1, Plus1Is
<1>3. Minus(e, r) = Len(line) /\ Len(line) < INPUT_BUF_SIZE
  <2>1. Minus(e, r) = IF e >= r THEN e - r ELSE CWRAP + e - r
    BY <1>1, MinusIs
  <2>2. Minus(e, r) = Len(line)
    BY <1>0, <1>1, <2>1 DEF Ahead, Indices
  <2>3. QED
    BY <2>2 DEF Room
<1>4. /\ line' \in Seq(Keys) /\ Len(line') = Len(line) + 1 /\ line'[Len(line) + 1] = key
      /\ \A k \in 1 .. Len(line) : line'[k] = line[k]
  BY <1>1
<1>5. e' = Ahead(r, Len(line'), CWRAP)
  BY <1>0, <1>1, <1>2, <1>3, <1>4 DEF Ahead, Indices
<1>6. Minus(e', r) = Len(line')
  <2>1. Minus(e', r) = IF e' >= r THEN e' - r ELSE CWRAP + e' - r
    BY <1>1, <1>2, MinusIs
  <2>2. QED
    BY <1>0, <1>1, <1>3, <1>4, <1>5, <2>1 DEF Ahead, Indices
<1>7. e % INPUT_BUF_SIZE = (r + Len(line)) % INPUT_BUF_SIZE
      /\ e % INPUT_BUF_SIZE \in 0 .. INPUT_BUF_SIZE - 1
  <2>1. (Ahead(r, Len(line), CWRAP) + 0) % INPUT_BUF_SIZE = (r + Len(line) + 0) % INPUT_BUF_SIZE
    BY <1>0, <1>1, AtFwd
  <2>2. Ahead(r, Len(line), CWRAP) + 0 = e /\ r + Len(line) + 0 = r + Len(line)
    BY <1>1 DEF Indices
  <2>3. e % INPUT_BUF_SIZE \in 0 .. INPUT_BUF_SIZE - 1
    BY <1>0, <1>1 DEF Indices
  <2>4. QED
    BY <2>1, <2>2, <2>3
<1>8. cbuf' \in [0 .. INPUT_BUF_SIZE - 1 -> Keys]
  BY <1>1, <1>7 DEF Put
<1>9. ASSUME NEW k \in 1 .. Len(line')
      PROVE  cbuf'[(r' + k - 1) % INPUT_BUF_SIZE] = line'[k]
  <2>1. CASE k = Len(line) + 1
    <3>1. r' + k - 1 = r + Len(line)
      BY <1>1, <2>1 DEF Indices
    <3>2. QED
      BY <1>1, <1>4, <1>7, <2>1, <3>1 DEF Put
  <2>2. CASE k \in 1 .. Len(line)
    <3>1. PICK x \in Nat : x = r + k - 1
      BY <1>1, <2>2 DEF Indices
    <3>2. PICK d \in Nat : d = Len(line) + 1 - k
      BY <1>1, <2>2
    <3>3. d > 0 /\ d < INPUT_BUF_SIZE /\ x + d = r + Len(line)
      <4>1. r \in Nat /\ k \in Nat /\ k <= Len(line) /\ k >= 1
        BY <1>1, <2>2 DEF Indices
      <4>2. QED
        BY <1>0, <1>1, <1>3, <3>1, <3>2, <4>1
    <3>4. (x % INPUT_BUF_SIZE) # ((x + d) % INPUT_BUF_SIZE)
      BY <1>0, <3>1, <3>2, <3>3, PlacesApart
    <3>5. x % INPUT_BUF_SIZE # e % INPUT_BUF_SIZE /\ x % INPUT_BUF_SIZE \in 0 .. INPUT_BUF_SIZE - 1
      BY <1>0, <1>7, <3>1, <3>3, <3>4
    <3>6. cbuf[x % INPUT_BUF_SIZE] = line[k]
      BY <2>2, <3>1 DEF ConsoleInv, LineInv, At
    <3>7. cbuf'[x % INPUT_BUF_SIZE] = cbuf[x % INPUT_BUF_SIZE]
      BY <1>1, <3>5 DEF Put
    <3>8. QED
      BY <1>4, <2>2, <3>1, <3>6, <3>7
  <2>3. QED
    BY <1>1, <1>4, <2>1, <2>2
<1>10. /\ Minus(w', r') <= Len(line')
       /\ \A k \in Minus(w', r') + 1 .. Len(line') : line'[k] \notin {Newline, EndOfFile}
  <2>1. CASE w' = e'
    <3>1. Minus(w', r') = Len(line')
      BY <1>6, <2>1
    <3>2. QED
      BY <1>1, <1>4, <3>1
  <2>2. CASE w' = w /\ key \notin {Newline, EndOfFile}
    <3>1. Minus(w', r') = Minus(w, r) /\ Minus(w, r) \in Nat /\ Minus(w, r) <= Len(line)
      BY <1>1, <2>2, MinusIs DEF ConsoleInv, LineInv
    <3>2. ASSUME NEW k \in Minus(w, r) + 1 .. Len(line') PROVE line'[k] \notin {Newline, EndOfFile}
      <4>1. CASE k = Len(line) + 1
        BY <1>4, <2>2, <4>1
      <4>2. CASE k # Len(line) + 1
        <5>1. k \in Minus(w, r) + 1 .. Len(line) /\ k \in 1 .. Len(line)
          BY <1>1, <1>4, <3>1, <4>2
        <5>2. QED
          BY <1>4, <5>1 DEF ConsoleInv, LineInv
      <4>3. QED
        BY <4>1, <4>2
    <3>3. QED
      BY <1>1, <1>4, <3>1, <3>2
  <2>3. QED
    BY <2>1, <2>2
<1>11. Len(line') <= INPUT_BUF_SIZE
  BY <1>0, <1>3, <1>4, <1>1
<1>12. QED
  BY <1>2, <1>4, <1>5, <1>8, <1>9, <1>10, <1>11 DEF LineInv, At

(* Where nothing of the line changes *)
LEMMA LineStays ==
  ASSUME LineInv, UNCHANGED lineVars
  PROVE  LineInv'
<1>1. UNCHANGED <<r, w, e, cbuf, line>>
  BY DEF lineVars
<1>2. QED
  BY <1>1 DEF LineInv, At, Minus

(* ConsoleInv is inductive. *)
LEMMA ConsoleStep == ConsoleInv /\ [ConsoleNext]_consVars => ConsoleInv'
<1> SUFFICES ASSUME ConsoleInv, [ConsoleNext]_consVars PROVE ConsoleInv'
  OBVIOUS
<1> USE DEF Put
<1>0. ConsoleTypeOK /\ LineInv /\ ReaderInv
  BY DEF ConsoleInv
<1>a. NoReader \notin Readers /\ ConsHandler \notin Readers
  BY ConsoleAssumption
<1>1. CASE UNCHANGED consVars
  <2>1. UNCHANGED <<r, w, e, cbuf, line, conslock, rd, want, got, stopped, key>>
    BY <1>1 DEF consVars, lineVars, readerVars
  <2>2. LineInv'
    BY <1>0, <2>1, LineStays DEF lineVars
  <2>3. QED
    BY <1>0, <2>1, <2>2 DEF ConsoleInv, ConsoleTypeOK, ReaderInv
<1>2. ASSUME NEW p \in Readers, NEW n \in Counts, ReadCons(p, n) PROVE ConsoleInv'
  <2>1. LineInv'
    BY <1>0, <1>2, LineStays DEF ReadCons
  <2>2. QED
    BY <1>0, <1>a, <1>2, <2>1 DEF ReadCons, ConsoleInv, ConsoleTypeOK, ReaderInv, lineVars
<1>3. ASSUME NEW p \in Readers, ReadKilled(p) PROVE ConsoleInv'
  <2>1. LineInv'
    BY <1>0, <1>3, LineStays DEF ReadKilled
  <2>2. QED
    BY <1>0, <1>a, <1>3, <2>1 DEF ReadKilled, Returns, ConsoleInv, ConsoleTypeOK, ReaderInv, lineVars
<1>4. ASSUME NEW p \in Readers, ReadWaits(p) PROVE ConsoleInv'
  <2>1. LineInv'
    BY <1>0, <1>4, LineStays DEF ReadWaits
  <2>2. QED
    BY <1>0, <1>a, <1>4, <2>1 DEF ReadWaits, ConsoleInv, ConsoleTypeOK, ReaderInv, lineVars
<1>5. ASSUME NEW p \in Readers, ReadSleeps(p) PROVE ConsoleInv'
  <2>1. LineInv'
    BY <1>0, <1>5, LineStays DEF ReadSleeps
  <2>2. QED
    BY <1>0, <1>a, <1>5, <2>1 DEF ReadSleeps, ConsoleInv, ConsoleTypeOK, ReaderInv, lineVars
<1>6. ASSUME NEW p \in Readers, ReadWakes(p) PROVE ConsoleInv'
  <2>1. LineInv'
    BY <1>0, <1>6, LineStays DEF ReadWakes
  <2>2. QED
    BY <1>0, <1>a, <1>6, <2>1 DEF ReadWakes, ConsoleInv, ConsoleTypeOK, ReaderInv, lineVars
<1>7. ASSUME NEW p \in Readers, ConsoleKill(p) \/ ReaderReplaced(p) PROVE ConsoleInv'
  <2>1. LineInv'
    BY <1>0, <1>7, LineStays DEF ConsoleKill, ReaderReplaced
  <2>2. QED
    BY <1>0, <1>a, <1>7, <2>1
    DEF ConsoleKill, ReaderReplaced, ConsoleInv, ConsoleTypeOK, ReaderInv, lineVars
<1>8. ASSUME NEW p \in Readers, ReadChar(p) PROVE ConsoleInv'
  <2>1. LineInv' /\ r' \in Indices /\ line' \in Seq(Keys)
    <3>1. r # w /\ r' = Plus1(r) /\ line' = Tail(line) /\ UNCHANGED <<w, e, cbuf>>
      BY <1>8 DEF ReadChar
    <3>2. QED
      BY <3>1, ReadOne
  <2>2. ConsoleTypeOK'
    <3>1. got' \in [Readers -> Nat] /\ rd' \in [Readers -> {"user", "loop", "falls_asleep", "asleep", "woken"}]
      <4>1. CASE Returns(p)
        BY <1>0, <4>1 DEF Returns, ConsoleTypeOK
      <4>2. CASE got' = Incr(got, p) /\ UNCHANGED rd
        BY <1>0, <4>2 DEF ConsoleTypeOK, Incr
      <4>3. QED
        BY <1>8, <4>1, <4>2 DEF ReadChar
    <3>2. UNCHANGED <<w, e, cbuf, key>>
      BY <1>8 DEF ReadChar
    <3>3. QED
      BY <1>0, <2>1, <3>1, <3>2 DEF ConsoleTypeOK
  <2>3. ReaderInv'
    BY <1>0, <1>8 DEF ReadChar, Returns, ConsoleTypeOK, ReaderInv
  <2>4. QED
    BY <2>1, <2>2, <2>3 DEF ConsoleInv
<1>9. ASSUME NEW p \in Readers, ReadEof(p) PROVE ConsoleInv'
  <2>1. LineInv' /\ r' \in Indices /\ line' \in Seq(Keys)
    <3>1. CASE got[p] = 0
      BY <1>9, <3>1, ReadOne DEF ReadEof
    <3>2. CASE got[p] # 0
      <4>1. UNCHANGED <<r, w, e, cbuf, line>>
        BY <1>0, <1>9, <3>2 DEF ReadEof, ConsoleTypeOK
      <4>2. QED
        BY <1>0, <4>1, LineStays DEF lineVars, ConsoleTypeOK
    <3>3. QED
      BY <3>1, <3>2
  <2>2. ConsoleTypeOK'
    BY <1>0, <1>9, <2>1 DEF ReadEof, Returns, ConsoleTypeOK
  <2>3. ReaderInv'
    BY <1>0, <1>9 DEF ReadEof, Returns, ConsoleTypeOK, ReaderInv
  <2>4. QED
    BY <2>1, <2>2, <2>3 DEF ConsoleInv
<1>10. ASSUME NEW c \in Typed, KeyComes(c) PROVE ConsoleInv'
  <2>1. LineInv'
    BY <1>0, <1>10, LineStays DEF KeyComes
  <2>2. QED
    BY <1>0, <1>a, <1>10, <2>1 DEF KeyComes, ConsoleInv, ConsoleTypeOK, ReaderInv, lineVars, Keys
<1>11. CASE KeyIgnored
  <2>1. LineInv'
    BY <1>0, <1>11, LineStays DEF KeyIgnored
  <2>2. QED
    BY <1>0, <1>a, <1>11, <2>1
    DEF KeyIgnored, KeyDone, ConsoleInv, ConsoleTypeOK, ReaderInv, lineVars, Keys
<1>12. CASE KeyErase
  <2>0. r \in Indices /\ w \in Indices /\ e \in Indices /\ line \in Seq(Keys) /\ e # w
        /\ Len(line) \in Nat /\ Len(line) <= INPUT_BUF_SIZE /\ e = Ahead(r, Len(line), CWRAP)
        /\ Minus(w, r) <= Len(line)
    BY <1>0, <1>12 DEF KeyErase, ConsoleTypeOK, LineInv
  <2>1. Minus(w, r) = IF w >= r THEN w - r ELSE CWRAP + w - r
    BY <2>0, MinusIs
  <2>2. Minus(w, r) + 1 <= Len(line)
    BY <2>0, <2>1, ConsoleAssumption DEF Ahead, Indices
  <2>3. 1 \in Indices
    BY ConsoleAssumption DEF Indices
  <2>4. Minus(e, 1) = IF e >= 1 THEN e - 1 ELSE CWRAP + e - 1
    BY <2>0, <2>3, MinusIs
  <2>5. Minus(e, 1) = Ahead(r, Len(line) - 1, CWRAP)
    BY <2>0, <2>1, <2>2, <2>4, ConsoleAssumption DEF Ahead, Indices
  <2>6. LineInv' /\ line' \in Seq(Keys) /\ e' \in Indices
    BY <1>12, <2>2, <2>5, CutSome DEF KeyErase
  <2>7. QED
    BY <1>0, <1>a, <1>12, <2>6
    DEF KeyErase, KeyDone, ConsoleInv, ConsoleTypeOK, ReaderInv, Keys
<1>13. CASE KeyKill
  <2>0. r \in Indices /\ w \in Indices /\ e \in Indices /\ line \in Seq(Keys)
        /\ Len(line) \in Nat /\ Len(line) <= INPUT_BUF_SIZE /\ e = Ahead(r, Len(line), CWRAP)
        /\ Minus(w, r) <= Len(line)
    BY <1>0 DEF ConsoleTypeOK, LineInv
  <2>1. Minus(w, r) = IF w >= r THEN w - r ELSE CWRAP + w - r
    BY <2>0, MinusIs
  <2>2. Minus(e, w) = IF e >= w THEN e - w ELSE CWRAP + e - w
    BY <2>0, MinusIs
  <2>3. Minus(e, w) = Len(line) - Minus(w, r) /\ Minus(e, w) \in Nat /\ Minus(w, r) \in Nat
    BY <2>0, <2>1, <2>2, ConsoleAssumption DEF Ahead, Indices
  <2>4. w = Ahead(r, Minus(w, r), CWRAP)
    BY <2>0, <2>1, ConsoleAssumption DEF Ahead, Indices
  <2>5. w = Ahead(r, Len(line) - Minus(e, w), CWRAP) /\ Minus(w, r) + Minus(e, w) <= Len(line)
    BY <2>0, <2>3, <2>4
  <2>6. LineInv' /\ line' \in Seq(Keys) /\ e' \in Indices
    BY <1>13, <2>3, <2>5, CutSome DEF KeyKill
  <2>7. QED
    BY <1>0, <1>a, <1>13, <2>6
    DEF KeyKill, KeyDone, ConsoleInv, ConsoleTypeOK, ReaderInv, Keys
<1>14. CASE KeyStore
  <2>1. w' = e' \/ (w' = w /\ rd' = rd /\ key \notin {Newline, EndOfFile})
    BY <1>14 DEF KeyStore
  <2>2. LineInv' /\ line' \in Seq(Keys) /\ e' \in Indices
        /\ cbuf' \in [0 .. INPUT_BUF_SIZE - 1 -> Keys]
    BY <1>14, <2>1, StoreOne DEF KeyStore
  <2>3. ConsoleTypeOK'
    <3>1. w' \in Indices
      BY <1>0, <2>1, <2>2 DEF ConsoleTypeOK
    <3>2. QED
      BY <1>0, <1>14, <2>2, <3>1 DEF KeyStore, KeyDone, ConsoleTypeOK, Keys
  <2>4. ReaderInv'
    BY <1>0, <1>a, <1>14 DEF KeyStore, KeyDone, ConsoleTypeOK, ReaderInv
  <2>5. QED
    BY <2>2, <2>3, <2>4 DEF ConsoleInv
<1>15. CASE ConsoleNext
  BY <1>15, <1>2, <1>3, <1>4, <1>5, <1>6, <1>7, <1>8, <1>9, <1>10, <1>11, <1>12, <1>13, <1>14
  DEF ConsoleNext
<1>16. QED
  BY <1>1, <1>15

(* What ConsoleInv is for *)
LEMMA ConsoleSafe == ConsoleInv => TypedInOrder /\ ReadersWaitForLines
<1> SUFFICES ASSUME ConsoleInv PROVE TypedInOrder /\ ReadersWaitForLines
  OBVIOUS
<1>1. r \in Indices /\ e \in Indices /\ e = Ahead(r, Len(line), CWRAP) /\ Len(line) \in Nat
      /\ Len(line) <= INPUT_BUF_SIZE
  BY DEF ConsoleInv, ConsoleTypeOK, LineInv
<1>2. Minus(e, r) = IF e >= r THEN e - r ELSE CWRAP + e - r
  BY <1>1, MinusIs
<1>3. Minus(e, r) = Len(line)
  BY <1>1, <1>2, ConsoleAssumption DEF Ahead, Indices
<1>4. QED
  BY <1>1, <1>3 DEF ConsoleInv, LineInv, ReaderInv, TypedInOrder, ReadersWaitForLines

(* What is typed reaches the readers once each and in order, through the   *)
(* circular buffer and its editing keys, and who sleeps in consoleread()   *)
(* finds no finished line.                                                 *)
THEOREM ConsoleSafety == ConsoleSpec => [](TypedInOrder /\ ReadersWaitForLines)
  BY ConsoleInit1, ConsoleStep, ConsoleSafe, PTL DEF ConsoleSpec

-----------------------------------------------------------------------------
(* Sums over the processes, as cardinalities *)

(* h[x] things of each x *)
Units(h) == UNION {{x} \X (1 .. h[x]) : x \in Users}

(* The units that h counts *)
LEMMA UnitsOf ==
  ASSUME NEW h \in [Users -> Nat], NEW y
  PROVE  y \in Units(h) <=> \E x \in Users : \E k \in 1 .. h[x] : y = <<x, k>>
BY DEF Units

(* There are finitely many. *)
LEMMA UnitsFinite ==
  ASSUME NEW h \in [Users -> Nat]
  PROVE  IsFiniteSet(Units(h)) /\ Cardinality(Units(h)) \in Nat
<1> DEFINE F == [x \in Users |-> {x} \X (1 .. h[x])]
           T == {{x} \X (1 .. h[x]) : x \in Users}
<1>1. IsFiniteSet(Users)
  BY PipeAssumption
<1>2. F \in Surjection(Users, T)
  BY DEF Surjection
<1>3. IsFiniteSet(T)
  BY <1>1, <1>2, FS_Surjection
<1>4. \A t \in T : IsFiniteSet(t)
  <2> SUFFICES ASSUME NEW x \in Users PROVE IsFiniteSet({x} \X (1 .. h[x]))
    OBVIOUS
  <2>1. IsFiniteSet({x})
    BY FS_Singleton
  <2>2. h[x] \in Int /\ 1 \in Int
    OBVIOUS
  <2>3. IsFiniteSet(1 .. h[x])
    BY <2>2, FS_Interval
  <2>4. QED
    BY <2>1, <2>3, FS_Product
<1>5. IsFiniteSet(UNION T)
  BY <1>3, <1>4, FS_UNION
<1>6. QED
  BY <1>5, FS_CardinalityType DEF Units

(* The units of one process *)
LEMMA UnitsOne ==
  ASSUME NEW x \in Users, NEW n \in Nat
  PROVE  IsFiniteSet({x} \X (1 .. n)) /\ Cardinality({x} \X (1 .. n)) = n
<1>1. IsFiniteSet({x}) /\ Cardinality({x}) = 1
  BY FS_Singleton
<1>2. IsFiniteSet(1 .. n) /\ Cardinality(1 .. n) = n
  <2>1. 1 \in Int /\ n \in Int
    OBVIOUS
  <2>2. IsFiniteSet(1 .. n) /\ Cardinality(1 .. n) = IF 1 > n THEN 0 ELSE n - 1 + 1
    BY <2>1, FS_Interval
  <2>3. QED
    BY <2>2
<1>3. IsFiniteSet({x} \X (1 .. n)) /\ Cardinality({x} \X (1 .. n)) = Cardinality({x}) * Cardinality(1 .. n)
  BY <1>1, <1>2, FS_Product
<1>4. QED
  BY <1>1, <1>2, <1>3

(* A sum is a term and the rest. *)
LEMMA UnitsSplit ==
  ASSUME NEW h \in [Users -> Nat], NEW p \in Users
  PROVE  LET rest == Units(h) \ ({p} \X (1 .. h[p])) IN
         /\ IsFiniteSet(rest) /\ Cardinality(rest) \in Nat
         /\ Cardinality(Units(h)) = Cardinality(rest) + h[p]
<1> DEFINE own == {p} \X (1 .. h[p])
           rest == Units(h) \ own
<1>1. IsFiniteSet(Units(h)) /\ Cardinality(Units(h)) \in Nat
  BY UnitsFinite
<1>2. h[p] \in Nat
  OBVIOUS
<1>3. IsFiniteSet(own) /\ Cardinality(own) = h[p]
  BY <1>2, UnitsOne
<1>4. own \subseteq Units(h)
  BY UnitsOf
<1> HIDE DEF own
<1>5. Units(h) \cap own = own
  BY <1>4
<1>6. IsFiniteSet(rest) /\ Cardinality(rest) = Cardinality(Units(h)) - Cardinality(Units(h) \cap own)
  BY <1>1, FS_Difference
<1>7. Cardinality(rest) \in Nat
  BY <1>6, FS_CardinalityType
<1> HIDE DEF rest
<1>8. Cardinality(rest) = Cardinality(Units(h)) - h[p]
  BY <1>3, <1>5, <1>6
<1>9. Cardinality(Units(h)) = Cardinality(rest) + h[p]
  BY <1>1, <1>2, <1>7, <1>8
<1>10. QED
  BY <1>6, <1>7, <1>9 DEF rest, own

(* When one term changes, the sum changes by as much. *)
LEMMA UnitsChange ==
  ASSUME NEW h \in [Users -> Nat], NEW g \in [Users -> Nat], NEW p \in Users,
         \A x \in Users : x # p => g[x] = h[x]
  PROVE  /\ Cardinality(Units(h)) \in Nat /\ Cardinality(Units(g)) \in Nat
         /\ Cardinality(Units(g)) - g[p] = Cardinality(Units(h)) - h[p]
         /\ Cardinality(Units(h)) >= h[p]
<1> DEFINE rh == Units(h) \ ({p} \X (1 .. h[p]))
           rg == Units(g) \ ({p} \X (1 .. g[p]))
<1>1. rh = rg
  <2>1. \A y : y \in rh <=> \E x \in Users : \E k \in 1 .. h[x] : y = <<x, k>> /\ x # p
    BY UnitsOf
  <2>2. \A y : y \in rg <=> \E x \in Users : \E k \in 1 .. g[x] : y = <<x, k>> /\ x # p
    BY UnitsOf
  <2> HIDE DEF rh, rg
  <2>3. QED
    BY <2>1, <2>2
<1>2. Cardinality(Units(h)) = Cardinality(rh) + h[p] /\ Cardinality(rh) \in Nat
  BY UnitsSplit
<1>3. Cardinality(Units(g)) = Cardinality(rg) + g[p]
  BY UnitsSplit
<1> HIDE DEF rh, rg
<1>4. h[p] \in Nat /\ g[p] \in Nat
  OBVIOUS
<1>5. QED
  BY <1>1, <1>2, <1>3, <1>4

(* How often z is in s *)
Times_in(s, z) == Cardinality({k \in DOMAIN s : s[k] = z})

(* How often an end is in a list is a number. *)
LEMMA CountFinite ==
  ASSUME NEW s \in Seq(Ends), NEW z
  PROVE  IsFiniteSet({k \in DOMAIN s : s[k] = z}) /\ Times_in(s, z) \in Nat
<1>1. DOMAIN s = 1 .. Len(s) /\ Len(s) \in Int /\ 1 \in Int
  OBVIOUS
<1>2. IsFiniteSet(1 .. Len(s))
  BY <1>1, FS_Interval
<1>3. IsFiniteSet({k \in DOMAIN s : s[k] = z})
  <2>1. {k \in DOMAIN s : s[k] = z} \in SUBSET (1 .. Len(s))
    BY <1>1
  <2>2. QED
    BY <1>2, <2>1, FS_Subset
<1>4. QED
  BY <1>3, FS_CardinalityType DEF Times_in

(* Nothing is in the empty list. *)
LEMMA CountEmpty ==
  ASSUME NEW z PROVE Times_in(<<>>, z) = 0
<1>1. {k \in DOMAIN <<>> : <<>>[k] = z} = {}
  OBVIOUS
<1>2. QED
  BY <1>1, FS_EmptySet DEF Times_in

(* The head of a list counts once. *)
LEMMA CountTail ==
  ASSUME NEW s \in Seq(Ends), s # <<>>, NEW z
  PROVE  Times_in(Tail(s), z) = Times_in(s, z) - IF Head(s) = z THEN 1 ELSE 0
<1> DEFINE t == Tail(s)
           S == {k \in DOMAIN s : s[k] = z}
           T == {k \in DOMAIN t : t[k] = z}
           U == S \ {1}
           F == [k \in T |-> k + 1]
<1>1. /\ t \in Seq(Ends) /\ Len(s) \in Nat \ {0} /\ Len(t) = Len(s) - 1 /\ Head(s) = s[1]
      /\ DOMAIN s = 1 .. Len(s) /\ DOMAIN t = 1 .. Len(t) /\ \A k \in 1 .. Len(t) : t[k] = s[k + 1]
  OBVIOUS
<1> HIDE DEF t
<1>2. IsFiniteSet(S) /\ Cardinality(S) \in Nat /\ IsFiniteSet(T)
  BY <1>1, CountFinite DEF Times_in
<1>3. \A k \in T : k + 1 \in U
  BY <1>1
<1>4. \A k \in U : k - 1 \in T /\ k = (k - 1) + 1
  BY <1>1
<1>5. \A k, n \in T : k + 1 = n + 1 => k = n
  BY <1>1
<1> HIDE DEF S, T, U
<1>6. F \in Bijection(T, U)
  <2>1. F \in [T -> U]
    BY <1>3
  <2>2. \A k, n \in T : F[k] = F[n] => k = n
    BY <1>5
  <2>3. \A k \in U : \E n \in T : F[n] = k
    BY <1>4
  <2>4. QED
    BY <2>1, <2>2, <2>3 DEF Bijection, Injection, Surjection, IsInjective
<1>7. Cardinality(U) = Cardinality(T)
  BY <1>2, <1>6, FS_Bijection DEF ExistsBijection
<1>8. CASE s[1] = z
  <2>1. 1 \in S
    BY <1>1, <1>8 DEF S
  <2>2. Cardinality(U) = Cardinality(S) - 1
    BY <1>2, <2>1, FS_RemoveElement DEF U
  <2>3. QED
    BY <1>1, <1>7, <1>8, <2>2 DEF Times_in, S, T, t
<1>9. CASE s[1] # z
  <2>1. U = S
    BY <1>1, <1>9 DEF S, U
  <2>2. Times_in(t, z) = Times_in(s, z) /\ Times_in(s, z) \in Nat
    BY <1>2, <1>7, <2>1 DEF Times_in, S, T
  <2>3. QED
    BY <1>1, <1>9, <2>2 DEF t
<1>10. QED
  BY <1>8, <1>9

(* The list of ends that kexit() closes *)
LEMMA CountTimes ==
  ASSUME NEW n \in Nat, NEW m \in Nat
  PROVE  LET s == Times("r", n) \o Times("w", m) IN
         s \in Seq(Ends) /\ Times_in(s, "r") = n /\ Times_in(s, "w") = m
<1> DEFINE s == Times("r", n) \o Times("w", m)
<1>1. /\ Times("r", n) \in Seq(Ends) /\ Len(Times("r", n)) = n
      /\ \A k \in 1 .. n : Times("r", n)[k] = "r"
  BY DEF Times, Ends
<1>2. /\ Times("w", m) \in Seq(Ends) /\ Len(Times("w", m)) = m
      /\ \A k \in 1 .. m : Times("w", m)[k] = "w"
  BY DEF Times, Ends
<1>3. /\ s \in Seq(Ends) /\ DOMAIN s = 1 .. n + m
      /\ \A k \in 1 .. n + m : s[k] = IF k <= n THEN "r" ELSE "w"
  BY <1>1, <1>2
<1> HIDE DEF s
<1>4. {k \in DOMAIN s : s[k] = "r"} = 1 .. n
  BY <1>3
<1>5. {k \in DOMAIN s : s[k] = "w"} = n + 1 .. n + m
  BY <1>3
<1>6. 1 \in Int /\ n \in Int /\ n + 1 \in Int /\ n + m \in Int
  OBVIOUS
<1>7. Cardinality(1 .. n) = IF 1 > n THEN 0 ELSE n - 1 + 1
  BY <1>6, FS_Interval
<1>8. Cardinality(n + 1 .. n + m) = IF n + 1 > n + m THEN 0 ELSE n + m - (n + 1) + 1
  BY <1>6, FS_Interval
<1>9. Cardinality(1 .. n) = n /\ Cardinality(n + 1 .. n + m) = m
  BY <1>7, <1>8
<1>10. QED
  BY <1>3, <1>4, <1>5, <1>9 DEF Times_in, s

-----------------------------------------------------------------------------
(* The pipe *)

(* Where readers and writers are, and who of them has pi->lock *)
Reads == {"reading", "copies", "will_sleep_read", "sleeps_read", "wakes_read"}
Writes == {"writing", "will_sleep_write", "sleeps_write", "wakes_write"}
PipeLocked == {"reading", "copies", "writing", "will_sleep_read", "will_sleep_write"}
(* What pi->data can hold *)
PipeContents == Bytes \cup {CHOOSE b \in Bytes : TRUE}

(* Types of the pipe *)
PipeTypeOK ==
  /\ page \in BOOLEAN /\ deserted \in BOOLEAN
  /\ opened \in SUBSET Ends
  /\ nread \in 0 .. WRAP - 1 /\ nwrite \in 0 .. WRAP - 1
  /\ bytes \in [0 .. PIPESIZE - 1 -> PipeContents] /\ unread \in Seq(Bytes)
  /\ fileref \in [Ends -> Nat] /\ fds \in [Users -> [Ends -> Nat]]
  /\ shut \in [Users -> Seq(Ends)]
  /\ closing \in [Users -> Ends \cup {"no", "page"}]
  /\ at \in [Users -> {"none", "user", "exits"} \cup Reads \cup Writes]

(* What a process has where it is *)
UserOK(p) ==
  /\ at[p] \in Reads \cup Writes => shut[p] = <<>> /\ closing[p] = "no"
  /\ at[p] \in Reads => fds[p]["r"] > 0
  /\ at[p] \in Writes => fds[p]["w"] > 0
  /\ at[p] \in {"none", "exits"} => \A z \in Ends : fds[p][z] = 0
  /\ at[p] = "none" => shut[p] = <<>> /\ closing[p] = "no"
  /\ at[p] \in PipeLocked => pilock = p

(* Who closes an end, or frees the page, is alone with it. *)
CloserOK(p) ==
  /\ closing[p] \in Ends => closing[p] \in opened /\ fileref[closing[p]] = 0
  /\ closing[p] = "page" => page /\ opened = {}
  /\ \A q \in Users : closing[p] # "no" /\ closing[p] = closing[q] => p = q

(* The page is there until the last close, and an open end has references. *)
PageInv ==
  /\ page => opened # {} \/ \E p \in Users : closing[p] = "page"
  /\ opened # {} => page
  /\ \A z \in Ends : fileref[z] > 0 => z \in opened
  /\ \A z \in opened : fileref[z] = 0 => \E p \in Users : closing[p] = z
  /\ ~page => unread = <<>> /\ nread = 0 /\ nwrite = 0 /\ ~deserted

(* pi->data holds the unread bytes from nread to nwrite. *)
PipeRing ==
  /\ nwrite = Ahead(nread, Len(unread), WRAP) /\ Len(unread) <= PIPESIZE
  /\ \A k \in 1 .. Len(unread) : bytes[(nread + k - 1) % PIPESIZE] = unread[k]

(* Why a process sleeps, or is about to *)
SleeperOK(p) ==
  /\ at[p] \in {"will_sleep_read", "sleeps_read"} => "w" \in opened
  /\ at[p] \in {"will_sleep_write", "sleeps_write"} => "r" \in opened
  /\ at[p] = "will_sleep_read" => Empty
  /\ at[p] = "sleeps_read" => deserted \/ Empty \/ \E q \in Users : at[q] = "writing"
  /\ at[p] = "will_sleep_write" => Full
  /\ at[p] = "sleeps_write" => Full \/ \E q \in Users : at[q] = "copies"

(* The pipe: the inductive invariant *)
PipeInv ==
  /\ PipeTypeOK /\ RefsCount /\ PageInv /\ PipeRing
  /\ \A p \in Users : UserOK(p) /\ CloserOK(p) /\ SleeperOK(p)

(* The references to an end are units of what the processes hold. *)
LEMMA RefsAreUnits ==
  ASSUME PipeTypeOK, NEW z \in Ends
  PROVE  LET h == [x \in Users |-> Holds(x, z)] IN
         /\ h \in [Users -> Nat] /\ References(z) = Units(h)
<1>1. \A x \in Users : Holds(x, z) = fds[x][z] + Times_in(shut[x], z)
  BY DEF Holds, Times_in
<1>2. \A x \in Users : fds[x][z] \in Nat /\ Times_in(shut[x], z) \in Nat
  BY CountFinite DEF PipeTypeOK
<1>3. \A x \in Users : Holds(x, z) \in Nat
  BY <1>1, <1>2
<1>4. QED
  BY <1>3 DEF References, Units

(* An end is referred to at least as often as by one process. *)
LEMMA RefsAtLeast ==
  ASSUME PipeTypeOK, RefsCount, NEW z \in Ends, NEW p \in Users
  PROVE  /\ fileref[z] >= Holds(p, z) /\ Holds(p, z) >= fds[p][z]
         /\ Holds(p, z) = fds[p][z] + Times_in(shut[p], z)
         /\ Times_in(shut[p], z) \in Nat
<1> DEFINE h == [x \in Users |-> Holds(x, z)]
<1>1. h \in [Users -> Nat] /\ References(z) = Units(h) /\ h[p] = Holds(p, z)
  BY RefsAreUnits
<1> HIDE DEF h
<1>2. Cardinality(Units(h)) >= h[p]
  BY <1>1, UnitsChange
<1>3. Holds(p, z) = fds[p][z] + Times_in(shut[p], z)
  BY DEF Holds, Times_in
<1>4. fds[p][z] \in Nat /\ Times_in(shut[p], z) \in Nat
  BY CountFinite DEF PipeTypeOK
<1>5. QED
  BY <1>1, <1>2, <1>3, <1>4 DEF RefsCount

(* One process gets or loses references. *)
LEMMA RefsMove ==
  ASSUME PipeTypeOK, PipeTypeOK', RefsCount, NEW p \in Users,
         \A x \in Users : x # p => fds'[x] = fds[x] /\ shut'[x] = shut[x],
         \A z \in Ends : fileref'[z] = fileref[z] + Holds(p, z)' - Holds(p, z)
  PROVE  RefsCount'
<1> SUFFICES ASSUME NEW z \in Ends PROVE fileref'[z] = Cardinality(References(z)')
  BY DEF RefsCount
<1> DEFINE h == [x \in Users |-> Holds(x, z)]
           g == [x \in Users |-> Holds(x, z)']
<1>1. h \in [Users -> Nat] /\ References(z) = Units(h) /\ h[p] = Holds(p, z)
  BY RefsAreUnits
<1>2. g \in [Users -> Nat] /\ References(z)' = Units(g) /\ g[p] = Holds(p, z)'
  <2>1. \A x \in Users : Holds(x, z)' = fds'[x][z] + Times_in(shut'[x], z)
    BY DEF Holds, Times_in
  <2>2. \A x \in Users : fds'[x][z] \in Nat /\ Times_in(shut'[x], z) \in Nat
    BY CountFinite DEF PipeTypeOK
  <2>3. \A x \in Users : Holds(x, z)' \in Nat
    BY <2>1, <2>2
  <2>4. QED
    BY <2>3 DEF References, Units
<1>3. \A x \in Users : x # p => g[x] = h[x]
  BY DEF Holds
<1> HIDE DEF h, g
<1>4. /\ Cardinality(Units(h)) \in Nat /\ Cardinality(Units(g)) \in Nat
      /\ Cardinality(Units(g)) - g[p] = Cardinality(Units(h)) - h[p]
  BY <1>1, <1>2, <1>3, UnitsChange
<1>5. fileref[z] = Cardinality(Units(h)) /\ fileref'[z] = fileref[z] + g[p] - h[p]
  BY <1>1, <1>2 DEF RefsCount
<1>6. g[p] \in Nat /\ h[p] \in Nat
  BY <1>1, <1>2
<1>7. QED
  BY <1>2, <1>4, <1>5, <1>6

(* No reference comes or goes. *)
LEMMA RefsStay ==
  ASSUME RefsCount, UNCHANGED <<fds, shut, fileref>>
  PROVE  RefsCount'
<1>1. ASSUME NEW z \in Ends PROVE References(z)' = References(z)
  <2>1. \A p \in Users : Holds(p, z)' = Holds(p, z)
    BY DEF Holds
  <2>2. QED
    BY <2>1 DEF References
<1>2. QED
  BY <1>1 DEF RefsCount

(* Steps that open and close nothing *)
LEMMA FilesStay ==
  ASSUME PipeInv, UNCHANGED <<page, opened, fileVars>>,
         page \/ UNCHANGED <<nread, nwrite, unread, deserted>>
  PROVE  RefsCount' /\ PageInv' /\ \A p \in Users : CloserOK(p)'
<1>1. UNCHANGED <<page, opened, fileref, fds, shut, closing>>
  BY DEF fileVars
<1>2. RefsCount'
  BY <1>1, RefsStay DEF PipeInv
<1>3. PageInv'
  BY <1>1 DEF PipeInv, PageInv
<1>4. \A p \in Users : CloserOK(p)'
  BY <1>1 DEF PipeInv, CloserOK
<1>5. QED
  BY <1>2, <1>3, <1>4

(* Steps that move no byte *)
LEMMA PipeRingStays ==
  ASSUME PipeRing, UNCHANGED <<nread, nwrite, bytes, unread>>
  PROVE  PipeRing'
BY DEF PipeRing, Ahead

(* A process in a read() or write() keeps its end open. *)
LEMMA EndsOpen ==
  ASSUME PipeInv, NEW p \in Users
  PROVE  /\ at[p] \in Reads => "r" \in opened /\ page
         /\ at[p] \in Writes => "w" \in opened /\ page
         /\ \A z \in Ends : fds[p][z] > 0 => z \in opened /\ page /\ fileref[z] > 0
<1>1. ASSUME NEW z \in Ends, fds[p][z] > 0 PROVE z \in opened /\ page /\ fileref[z] > 0
  <2>1. fileref[z] >= Holds(p, z) /\ Holds(p, z) >= fds[p][z]
        /\ Holds(p, z) = fds[p][z] + Times_in(shut[p], z) /\ Times_in(shut[p], z) \in Nat
    BY RefsAtLeast DEF PipeInv
  <2>2. fileref[z] \in Nat /\ fds[p][z] \in Nat
    BY DEF PipeInv, PipeTypeOK
  <2>3. fileref[z] > 0
    BY <1>1, <2>1, <2>2
  <2>4. QED
    BY <2>3 DEF PipeInv, PageInv
<1>2. UserOK(p) /\ "r" \in Ends /\ "w" \in Ends
  BY DEF PipeInv, Ends
<1>3. QED
  BY <1>1, <1>2 DEF UserOK

(* The pipe at first *)
LEMMA PipeInit1 == PipeInit => PipeInv
<1> SUFFICES ASSUME PipeInit PROVE PipeInv
  OBVIOUS
<1> USE DEF PipeInit
<1>0. PIPESIZE \in Nat \ {0} /\ WRAP \in Nat /\ WRAP > PIPESIZE
  BY PipeAssumption
<1>1. PipeTypeOK
  <2>1. <<>> \in Seq(Bytes) /\ <<>> \in Seq(Ends)
    OBVIOUS
  <2>2. bytes \in [0 .. PIPESIZE - 1 -> PipeContents]
    BY DEF Junk, PipeContents
  <2>3. page \in BOOLEAN /\ deserted \in BOOLEAN /\ opened \in SUBSET Ends
        /\ nread \in 0 .. WRAP - 1 /\ nwrite \in 0 .. WRAP - 1
    <3>1. page = FALSE /\ deserted = FALSE /\ opened = {} /\ nread = 0 /\ nwrite = 0
      OBVIOUS
    <3>2. 0 \in 0 .. WRAP - 1
      BY <1>0
    <3>3. QED
      BY <3>1, <3>2, Zenon
  <2>6. unread \in Seq(Bytes)
    BY <2>1
  <2>4. /\ fileref \in [Ends -> Nat] /\ fds \in [Users -> [Ends -> Nat]]
        /\ shut \in [Users -> Seq(Ends)]
        /\ closing \in [Users -> Ends \cup {"no", "page"}]
        /\ at \in [Users -> {"none", "user", "exits"} \cup Reads \cup Writes]
    BY <2>1
  <2>5. QED
    BY <2>2, <2>3, <2>4, <2>6 DEF PipeTypeOK
<1>2. ASSUME NEW z \in Ends PROVE fileref[z] = Cardinality(References(z))
  <2>1. \A p \in Users : Holds(p, z) = 0
    <3> SUFFICES ASSUME NEW p \in Users PROVE Holds(p, z) = 0
      OBVIOUS
    <3>1. fds[p][z] = 0 /\ shut[p] = <<>>
      OBVIOUS
    <3>2. QED
      BY <3>1, CountEmpty DEF Holds, Times_in
  <2>2. References(z) = {}
    BY <2>1 DEF References
  <2>3. QED
    BY <2>2, FS_EmptySet
<1>3. PageInv
  BY DEF PageInv
<1>4. PipeRing
  BY <1>0 DEF PipeRing, Ahead
<1>5. \A p \in Users : UserOK(p) /\ CloserOK(p) /\ SleeperOK(p)
  BY DEF UserOK, CloserOK, SleeperOK, Reads, Writes, PipeLocked, Ends
<1>6. QED
  BY <1>1, <1>2, <1>3, <1>4, <1>5 DEF PipeInv, RefsCount

(* A process starts. *)
LEMMA StartedStep == ASSUME PipeInv, NEW p \in Users, Started(p) PROVE PipeInv'
<1> USE DEF Put
<1>0. UserOK(p) /\ SleeperOK(p) /\ PipeTypeOK /\ PipeRing
  BY DEF PipeInv
<1>a. NoUser \notin Users
  BY PipeAssumption
<1>1. RefsCount' /\ PageInv' /\ \A q \in Users : CloserOK(q)'
  <2>1. page \/ UNCHANGED <<nread, nwrite, unread, deserted>>
    BY EndsOpen DEF Started, byteVars, FirstFree, Reads, Writes
  <2>2. QED
    BY <2>1, FilesStay DEF Started, FirstFree
<1>2. PipeRing'
  BY <1>0, PipeRingStays DEF Started, byteVars, FirstFree
<1>3. PipeTypeOK'
  BY <1>0 DEF Started, byteVars, fileVars, PipeTypeOK, Reads, Writes, FirstFree
<1>4. ASSUME NEW q \in Users PROVE UserOK(q)'
  BY <1>0, <1>a DEF PipeInv, Started, byteVars, fileVars, PipeTypeOK, UserOK, Reads, Writes, PipeLocked, FirstFree
<1>5. ASSUME NEW q \in Users PROVE SleeperOK(q)'
  BY <1>0, <1>a DEF PipeInv, Started, byteVars, fileVars, PipeTypeOK, UserOK, SleeperOK, Reads, Writes, PipeLocked, Full, Empty, FirstFree
<1>6. QED
  BY <1>1, <1>2, <1>3, <1>4, <1>5 DEF PipeInv

(* A process that exits has closed its files. *)
LEMMA GoneStep == ASSUME PipeInv, NEW p \in Users, Gone(p) PROVE PipeInv'
<1> USE DEF Put
<1>0. UserOK(p) /\ SleeperOK(p) /\ PipeTypeOK /\ PipeRing
  BY DEF PipeInv
<1>a. NoUser \notin Users
  BY PipeAssumption
<1>1. RefsCount' /\ PageInv' /\ \A q \in Users : CloserOK(q)'
  <2>1. page \/ UNCHANGED <<nread, nwrite, unread, deserted>>
    BY EndsOpen DEF Gone, byteVars, Reads, Writes
  <2>2. QED
    BY <2>1, FilesStay DEF Gone
<1>2. PipeRing'
  BY <1>0, PipeRingStays DEF Gone, byteVars
<1>3. PipeTypeOK'
  BY <1>0 DEF Gone, byteVars, fileVars, PipeTypeOK, Reads, Writes
<1>4. ASSUME NEW q \in Users PROVE UserOK(q)'
  BY <1>0, <1>a DEF PipeInv, Gone, byteVars, fileVars, PipeTypeOK, UserOK, Reads, Writes, PipeLocked
<1>5. ASSUME NEW q \in Users PROVE SleeperOK(q)'
  BY <1>0, <1>a DEF PipeInv, Gone, byteVars, fileVars, PipeTypeOK, UserOK, SleeperOK, Reads, Writes, PipeLocked, Full, Empty
<1>6. QED
  BY <1>1, <1>2, <1>3, <1>4, <1>5 DEF PipeInv

(* A process woken in sleep() gets pi->lock again. *)
LEMMA WakeLockedStep == ASSUME PipeInv, NEW p \in Users, WakeLocked(p) PROVE PipeInv'
<1> USE DEF Put
<1>0. UserOK(p) /\ SleeperOK(p) /\ PipeTypeOK /\ PipeRing
  BY DEF PipeInv
<1>a. NoUser \notin Users
  BY PipeAssumption
<1>1. RefsCount' /\ PageInv' /\ \A q \in Users : CloserOK(q)'
  <2>1. page \/ UNCHANGED <<nread, nwrite, unread, deserted>>
    BY EndsOpen DEF WakeLocked, byteVars, Reads, Writes
  <2>2. QED
    BY <2>1, FilesStay DEF WakeLocked
<1>2. PipeRing'
  BY <1>0, PipeRingStays DEF WakeLocked, byteVars
<1>3. PipeTypeOK'
  BY <1>0 DEF WakeLocked, byteVars, fileVars, PipeTypeOK, Reads, Writes
<1>4. ASSUME NEW q \in Users PROVE UserOK(q)'
  BY <1>0, <1>a DEF PipeInv, WakeLocked, byteVars, fileVars, PipeTypeOK, UserOK, Reads, Writes, PipeLocked
<1>5. ASSUME NEW q \in Users PROVE SleeperOK(q)'
  BY <1>0, <1>a DEF PipeInv, WakeLocked, byteVars, fileVars, PipeTypeOK, UserOK, SleeperOK, Reads, Writes, PipeLocked, Full, Empty
<1>6. QED
  BY <1>1, <1>2, <1>3, <1>4, <1>5 DEF PipeInv

(* sleep() releases pi->lock and sleeps. *)
LEMMA PipeSleepStep == ASSUME PipeInv, NEW p \in Users, PipeSleep(p) PROVE PipeInv'
<1> USE DEF Put
<1>0. UserOK(p) /\ SleeperOK(p) /\ PipeTypeOK /\ PipeRing
  BY DEF PipeInv
<1>a. NoUser \notin Users
  BY PipeAssumption
<1>1. RefsCount' /\ PageInv' /\ \A q \in Users : CloserOK(q)'
  <2>1. page \/ UNCHANGED <<nread, nwrite, unread, deserted>>
    BY EndsOpen DEF PipeSleep, byteVars, Reads, Writes
  <2>2. QED
    BY <2>1, FilesStay DEF PipeSleep
<1>2. PipeRing'
  BY <1>0, PipeRingStays DEF PipeSleep, byteVars
<1>3. PipeTypeOK'
  BY <1>0 DEF PipeSleep, byteVars, fileVars, PipeTypeOK, Reads, Writes
<1>4. ASSUME NEW q \in Users PROVE UserOK(q)'
  BY <1>0, <1>a DEF PipeInv, PipeSleep, byteVars, fileVars, PipeTypeOK, UserOK, Reads, Writes, PipeLocked
<1>5. ASSUME NEW q \in Users PROVE SleeperOK(q)'
  BY <1>0, <1>a DEF PipeInv, PipeSleep, byteVars, fileVars, PipeTypeOK, UserOK, SleeperOK, Reads, Writes, PipeLocked, Full, Empty
<1>6. QED
  BY <1>1, <1>2, <1>3, <1>4, <1>5 DEF PipeInv

(* kill() wakes who sleeps. *)
LEMMA PipeKillStep == ASSUME PipeInv, NEW p \in Users, PipeKill(p) PROVE PipeInv'
<1> USE DEF Put
<1>0. UserOK(p) /\ SleeperOK(p) /\ PipeTypeOK /\ PipeRing
  BY DEF PipeInv
<1>a. NoUser \notin Users
  BY PipeAssumption
<1>1. RefsCount' /\ PageInv' /\ \A q \in Users : CloserOK(q)'
  <2>1. page \/ UNCHANGED <<nread, nwrite, unread, deserted>>
    BY EndsOpen DEF PipeKill, byteVars, Reads, Writes
  <2>2. QED
    BY <2>1, FilesStay DEF PipeKill
<1>2. PipeRing'
  BY <1>0, PipeRingStays DEF PipeKill, byteVars
<1>3. PipeTypeOK'
  BY <1>0 DEF PipeKill, byteVars, fileVars, PipeTypeOK, Reads, Writes
<1>4. ASSUME NEW q \in Users PROVE UserOK(q)'
  BY <1>0, <1>a DEF PipeInv, PipeKill, byteVars, fileVars, PipeTypeOK, UserOK, Reads, Writes, PipeLocked
<1>5. ASSUME NEW q \in Users PROVE SleeperOK(q)'
  BY <1>0, <1>a DEF PipeInv, PipeKill, byteVars, fileVars, PipeTypeOK, UserOK, SleeperOK, Reads, Writes, PipeLocked, Full, Empty
<1>6. QED
  BY <1>1, <1>2, <1>3, <1>4, <1>5 DEF PipeInv

(* pipewrite() returns -1: no reader, or killed. *)
LEMMA WriteGivesUpStep == ASSUME PipeInv, NEW p \in Users, WriteGivesUp(p) PROVE PipeInv'
<1> USE DEF Put
<1>0. UserOK(p) /\ SleeperOK(p) /\ PipeTypeOK /\ PipeRing
  BY DEF PipeInv
<1>a. NoUser \notin Users
  BY PipeAssumption
<1>1. RefsCount' /\ PageInv' /\ \A q \in Users : CloserOK(q)'
  <2>1. page \/ UNCHANGED <<nread, nwrite, unread, deserted>>
    BY EndsOpen DEF WriteGivesUp, byteVars, Leaves, Reads, Writes
  <2>2. QED
    BY <2>1, FilesStay DEF WriteGivesUp, Leaves
<1>2. PipeRing'
  BY <1>0, PipeRingStays DEF WriteGivesUp, byteVars, Leaves
<1>3. PipeTypeOK'
  BY <1>0 DEF WriteGivesUp, byteVars, fileVars, PipeTypeOK, Reads, Writes, Leaves
<1>4. ASSUME NEW q \in Users PROVE UserOK(q)'
  BY <1>0, <1>a DEF PipeInv, WriteGivesUp, byteVars, fileVars, PipeTypeOK, UserOK, Reads, Writes, PipeLocked, Leaves
<1>5. ASSUME NEW q \in Users PROVE SleeperOK(q)'
  BY <1>0, <1>a DEF PipeInv, WriteGivesUp, byteVars, fileVars, PipeTypeOK, UserOK, SleeperOK, Reads, Writes, PipeLocked, Full, Empty, Leaves
<1>6. QED
  BY <1>1, <1>2, <1>3, <1>4, <1>5 DEF PipeInv

(* pipewrite() finds the pipe full and wakes the readers. *)
LEMMA WriteFullStep == ASSUME PipeInv, NEW p \in Users, WriteFull(p) PROVE PipeInv'
<1> USE DEF Put
<1>0. UserOK(p) /\ SleeperOK(p) /\ PipeTypeOK /\ PipeRing
  BY DEF PipeInv
<1>a. NoUser \notin Users
  BY PipeAssumption
<1>1. RefsCount' /\ PageInv' /\ \A q \in Users : CloserOK(q)'
  <2>1. page \/ UNCHANGED <<nread, nwrite, unread, deserted>>
    BY EndsOpen DEF WriteFull, byteVars, GoesOn, WakeUp, Reads, Writes
  <2>2. QED
    BY <2>1, FilesStay DEF WriteFull, GoesOn, WakeUp
<1>2. PipeRing'
  BY <1>0, PipeRingStays DEF WriteFull, byteVars, GoesOn, WakeUp
<1>3. PipeTypeOK'
  BY <1>0 DEF WriteFull, byteVars, fileVars, PipeTypeOK, Reads, Writes, GoesOn, WakeUp
<1>4. ASSUME NEW q \in Users PROVE UserOK(q)'
  BY <1>0, <1>a DEF PipeInv, WriteFull, byteVars, fileVars, PipeTypeOK, UserOK, Reads, Writes, PipeLocked, GoesOn, WakeUp
<1>5. ASSUME NEW q \in Users PROVE SleeperOK(q)'
  BY <1>0, <1>a DEF PipeInv, WriteFull, byteVars, fileVars, PipeTypeOK, UserOK, SleeperOK, Reads, Writes, PipeLocked, Full, Empty, GoesOn, WakeUp
<1>6. QED
  BY <1>1, <1>2, <1>3, <1>4, <1>5 DEF PipeInv

(* pipewrite() returns and wakes the readers. *)
LEMMA WriteEndsStep == ASSUME PipeInv, NEW p \in Users, WriteEnds(p) PROVE PipeInv'
<1> USE DEF Put
<1>0. UserOK(p) /\ SleeperOK(p) /\ PipeTypeOK /\ PipeRing
  BY DEF PipeInv
<1>a. NoUser \notin Users
  BY PipeAssumption
<1>1. RefsCount' /\ PageInv' /\ \A q \in Users : CloserOK(q)'
  <2>1. page \/ UNCHANGED <<nread, nwrite, unread, deserted>>
    BY EndsOpen DEF WriteEnds, byteVars, Leaves, WakeUp, Reads, Writes
  <2>2. QED
    BY <2>1, FilesStay DEF WriteEnds, Leaves, WakeUp
<1>2. PipeRing'
  BY <1>0, PipeRingStays DEF WriteEnds, byteVars, Leaves, WakeUp
<1>3. PipeTypeOK'
  BY <1>0 DEF WriteEnds, byteVars, fileVars, PipeTypeOK, Reads, Writes, Leaves, WakeUp
<1>4. ASSUME NEW q \in Users PROVE UserOK(q)'
  BY <1>0, <1>a DEF PipeInv, WriteEnds, byteVars, fileVars, PipeTypeOK, UserOK, Reads, Writes, PipeLocked, Leaves, WakeUp
<1>5. ASSUME NEW q \in Users PROVE SleeperOK(q)'
  BY <1>0, <1>a DEF PipeInv, WriteEnds, byteVars, fileVars, PipeTypeOK, UserOK, SleeperOK, Reads, Writes, PipeLocked, Full, Empty, Leaves, WakeUp
<1>6. QED
  BY <1>1, <1>2, <1>3, <1>4, <1>5 DEF PipeInv

(* piperead() returns -1: killed. *)
LEMMA ReadGivesUpStep == ASSUME PipeInv, NEW p \in Users, ReadGivesUp(p) PROVE PipeInv'
<1> USE DEF Put
<1>0. UserOK(p) /\ SleeperOK(p) /\ PipeTypeOK /\ PipeRing
  BY DEF PipeInv
<1>a. NoUser \notin Users
  BY PipeAssumption
<1>1. RefsCount' /\ PageInv' /\ \A q \in Users : CloserOK(q)'
  <2>1. page \/ UNCHANGED <<nread, nwrite, unread, deserted>>
    BY EndsOpen DEF ReadGivesUp, byteVars, Leaves, Reads, Writes
  <2>2. QED
    BY <2>1, FilesStay DEF ReadGivesUp, Leaves
<1>2. PipeRing'
  BY <1>0, PipeRingStays DEF ReadGivesUp, byteVars, Leaves
<1>3. PipeTypeOK'
  BY <1>0 DEF ReadGivesUp, byteVars, fileVars, PipeTypeOK, Reads, Writes, Leaves
<1>4. ASSUME NEW q \in Users PROVE UserOK(q)'
  BY <1>0, <1>a DEF PipeInv, ReadGivesUp, byteVars, fileVars, PipeTypeOK, UserOK, Reads, Writes, PipeLocked, Leaves
<1>5. ASSUME NEW q \in Users PROVE SleeperOK(q)'
  BY <1>0, <1>a DEF PipeInv, ReadGivesUp, byteVars, fileVars, PipeTypeOK, UserOK, SleeperOK, Reads, Writes, PipeLocked, Full, Empty, Leaves
<1>6. QED
  BY <1>1, <1>2, <1>3, <1>4, <1>5 DEF PipeInv

(* piperead() finds the pipe empty. *)
LEMMA ReadEmptyStep == ASSUME PipeInv, NEW p \in Users, ReadEmpty(p) PROVE PipeInv'
<1> USE DEF Put
<1>0. UserOK(p) /\ SleeperOK(p) /\ PipeTypeOK /\ PipeRing
  BY DEF PipeInv
<1>a. NoUser \notin Users
  BY PipeAssumption
<1>1. RefsCount' /\ PageInv' /\ \A q \in Users : CloserOK(q)'
  <2>1. page \/ UNCHANGED <<nread, nwrite, unread, deserted>>
    BY EndsOpen DEF ReadEmpty, byteVars, Reads, Writes
  <2>2. QED
    BY <2>1, FilesStay DEF ReadEmpty
<1>2. PipeRing'
  BY <1>0, PipeRingStays DEF ReadEmpty, byteVars
<1>3. PipeTypeOK'
  BY <1>0 DEF ReadEmpty, byteVars, fileVars, PipeTypeOK, Reads, Writes
<1>4. ASSUME NEW q \in Users PROVE UserOK(q)'
  BY <1>0, <1>a DEF PipeInv, ReadEmpty, byteVars, fileVars, PipeTypeOK, UserOK, Reads, Writes, PipeLocked
<1>5. ASSUME NEW q \in Users PROVE SleeperOK(q)'
  BY <1>0, <1>a DEF PipeInv, ReadEmpty, byteVars, fileVars, PipeTypeOK, UserOK, SleeperOK, Reads, Writes, PipeLocked, Full, Empty
<1>6. QED
  BY <1>1, <1>2, <1>3, <1>4, <1>5 DEF PipeInv

(* piperead() has something to read, or the end of the file. *)
LEMMA ReadStartsStep == ASSUME PipeInv, NEW p \in Users, ReadStarts(p) PROVE PipeInv'
<1> USE DEF Put
<1>0. UserOK(p) /\ SleeperOK(p) /\ PipeTypeOK /\ PipeRing
  BY DEF PipeInv
<1>a. NoUser \notin Users
  BY PipeAssumption
<1>1. RefsCount' /\ PageInv' /\ \A q \in Users : CloserOK(q)'
  <2>1. page \/ UNCHANGED <<nread, nwrite, unread, deserted>>
    BY EndsOpen DEF ReadStarts, byteVars, Reads, Writes
  <2>2. QED
    BY <2>1, FilesStay DEF ReadStarts
<1>2. PipeRing'
  BY <1>0, PipeRingStays DEF ReadStarts, byteVars
<1>3. PipeTypeOK'
  BY <1>0 DEF ReadStarts, byteVars, fileVars, PipeTypeOK, Reads, Writes
<1>4. ASSUME NEW q \in Users PROVE UserOK(q)'
  BY <1>0, <1>a DEF PipeInv, ReadStarts, byteVars, fileVars, PipeTypeOK, UserOK, Reads, Writes, PipeLocked
<1>5. ASSUME NEW q \in Users PROVE SleeperOK(q)'
  BY <1>0, <1>a DEF PipeInv, ReadStarts, byteVars, fileVars, PipeTypeOK, UserOK, SleeperOK, Reads, Writes, PipeLocked, Full, Empty
<1>6. QED
  BY <1>1, <1>2, <1>3, <1>4, <1>5 DEF PipeInv

(* piperead() returns and wakes the writers. *)
LEMMA ReadEndsStep == ASSUME PipeInv, NEW p \in Users, ReadEnds(p) PROVE PipeInv'
<1> USE DEF Put
<1>0. UserOK(p) /\ SleeperOK(p) /\ PipeTypeOK /\ PipeRing
  BY DEF PipeInv
<1>a. NoUser \notin Users
  BY PipeAssumption
<1>1. RefsCount' /\ PageInv' /\ \A q \in Users : CloserOK(q)'
  <2>1. page \/ UNCHANGED <<nread, nwrite, unread, deserted>>
    BY EndsOpen DEF ReadEnds, byteVars, Leaves, WakeUp, Reads, Writes
  <2>2. QED
    BY <2>1, FilesStay DEF ReadEnds, Leaves, WakeUp
<1>2. PipeRing'
  BY <1>0, PipeRingStays DEF ReadEnds, byteVars, Leaves, WakeUp
<1>3. PipeTypeOK'
  BY <1>0 DEF ReadEnds, byteVars, fileVars, PipeTypeOK, Reads, Writes, Leaves, WakeUp
<1>4. ASSUME NEW q \in Users PROVE UserOK(q)'
  BY <1>0, <1>a DEF PipeInv, ReadEnds, byteVars, fileVars, PipeTypeOK, UserOK, Reads, Writes, PipeLocked, Leaves, WakeUp
<1>5. ASSUME NEW q \in Users PROVE SleeperOK(q)'
  BY <1>0, <1>a DEF PipeInv, ReadEnds, byteVars, fileVars, PipeTypeOK, UserOK, SleeperOK, Reads, Writes, PipeLocked, Full, Empty, Leaves, WakeUp
<1>6. QED
  BY <1>1, <1>2, <1>3, <1>4, <1>5 DEF PipeInv

(* read() and write() take pi->lock. *)
LEMMA SysReadWriteStep ==
  ASSUME PipeInv, NEW p \in Users, NEW z \in Ends, SysReadWrite(p, z) PROVE PipeInv'
<1> USE DEF Put
<1>0. UserOK(p) /\ SleeperOK(p) /\ PipeTypeOK /\ PipeRing
  BY DEF PipeInv
<1>a. NoUser \notin Users
  BY PipeAssumption
<1>1. RefsCount' /\ PageInv' /\ \A q \in Users : CloserOK(q)'
  <2>1. UNCHANGED <<nread, nwrite, unread, deserted>>
    BY DEF SysReadWrite, byteVars
  <2>2. QED
    BY <2>1, FilesStay DEF SysReadWrite
<1>2. PipeRing'
  BY <1>0, PipeRingStays DEF SysReadWrite, byteVars
<1>3. PipeTypeOK'
  BY <1>0 DEF SysReadWrite, byteVars, fileVars, PipeTypeOK, Reads, Writes
<1>4. ASSUME NEW q \in Users PROVE UserOK(q)'
  BY <1>0, <1>a DEF PipeInv, SysReadWrite, Calls, byteVars, fileVars, PipeTypeOK, UserOK, Reads, Writes, PipeLocked, Ends
<1>5. ASSUME NEW q \in Users PROVE SleeperOK(q)'
  BY <1>0, <1>a DEF PipeInv, SysReadWrite, Calls, byteVars, fileVars, PipeTypeOK, UserOK, SleeperOK, Reads, Writes, PipeLocked, Full, Empty
<1>6. QED
  BY <1>1, <1>2, <1>3, <1>4, <1>5 DEF PipeInv

(* pipewrite() writes a byte. *)
LEMMA WriteByteStep ==
  ASSUME PipeInv, NEW p \in Users, NEW b \in Bytes, WriteByte(p, b) PROVE PipeInv'
<1>0. UserOK(p) /\ SleeperOK(p) /\ PipeTypeOK /\ PipeRing
  BY DEF PipeInv
<1>a. /\ PIPESIZE \in Nat \ {0} /\ WRAP \in Nat \ {0} /\ WRAP > PIPESIZE /\ WRAP % PIPESIZE = 0
      /\ NoUser \notin Users
  BY PipeAssumption
<1>b. /\ nread \in 0 .. WRAP - 1 /\ nwrite \in 0 .. WRAP - 1 /\ Len(unread) \in Nat
      /\ bytes \in [0 .. PIPESIZE - 1 -> PipeContents] /\ unread \in Seq(Bytes)
      /\ nwrite = Ahead(nread, Len(unread), WRAP) /\ Len(unread) <= PIPESIZE
  BY <1>0 DEF PipeTypeOK, PipeRing
<1>c. UNCHANGED <<page, opened, nread, deserted, pilock, fileVars, at, dying>> /\ at[p] = "writing"
      /\ ~Full /\ bytes' = Put(bytes, nwrite % PIPESIZE, b) /\ nwrite' = (nwrite + 1) % WRAP
      /\ unread' = Append(unread, b)
  BY DEF WriteByte, GoesOn
<1>1. RefsCount' /\ PageInv' /\ \A q \in Users : CloserOK(q)'
  <2>1. page
    BY <1>c, EndsOpen DEF Writes
  <2>2. QED
    BY <1>c, <2>1, FilesStay
<1>2. Len(unread) < PIPESIZE
  <2>1. PIPESIZE \in 0 .. WRAP
    BY <1>a
  <2>2. (nread + PIPESIZE) % WRAP = Ahead(nread, PIPESIZE, WRAP)
    BY <1>a, <1>b, <2>1, AheadIs
  <2>3. Len(unread) # PIPESIZE
    BY <1>b, <1>c, <2>2 DEF Full
  <2>4. QED
    BY <1>a, <1>b, <2>3
<1>3. nwrite' = Ahead(nwrite, 1, WRAP) /\ nwrite' \in 0 .. WRAP - 1
  <2>1. 1 \in 0 .. WRAP
    BY <1>a
  <2>2. (nwrite + 1) % WRAP = Ahead(nwrite, 1, WRAP)
    BY <1>a, <1>b, <2>1, AheadIs
  <2>3. nwrite' = Ahead(nwrite, 1, WRAP)
    BY <1>c, <2>2
  <2>4. nwrite \in 0 .. WRAP - 1
    BY <1>b
  <2>5. Ahead(nwrite, 1, WRAP) \in 0 .. WRAP - 1
    BY <1>a, <2>4 DEF Ahead
  <2>6. QED
    BY <2>3, <2>5
<1>4. /\ unread' \in Seq(Bytes) /\ Len(unread') = Len(unread) + 1 /\ unread'[Len(unread) + 1] = b
      /\ \A k \in 1 .. Len(unread) : unread'[k] = unread[k]
  BY <1>b, <1>c
<1>5. nwrite' = Ahead(nread', Len(unread'), WRAP) /\ Len(unread') <= PIPESIZE
  <2>1. nread' = nread /\ Len(unread') = Len(unread) + 1
    BY <1>c, <1>4
  <2>2. Ahead(Ahead(nread, Len(unread), WRAP), 1, WRAP) = Ahead(nread, Len(unread) + 1, WRAP)
    BY <1>a, <1>b, <1>2 DEF Ahead
  <2>3. QED
    BY <1>a, <1>b, <1>2, <1>3, <2>1, <2>2
<1>6. nwrite % PIPESIZE = (nread + Len(unread)) % PIPESIZE /\ nwrite % PIPESIZE \in 0 .. PIPESIZE - 1
  <2>1. (Ahead(nread, Len(unread), WRAP) + 0) % PIPESIZE = (nread + Len(unread) + 0) % PIPESIZE
    BY <1>a, <1>b, PlaceAhead
  <2>2. Ahead(nread, Len(unread), WRAP) + 0 = nwrite /\ nread + Len(unread) + 0 = nread + Len(unread)
    BY <1>b
  <2>3. nwrite % PIPESIZE \in 0 .. PIPESIZE - 1
    BY <1>a, <1>b
  <2>4. QED
    BY <2>1, <2>2, <2>3
<1>7. bytes' \in [0 .. PIPESIZE - 1 -> PipeContents]
  BY <1>b, <1>c, <1>6 DEF Put, PipeContents
<1>8. ASSUME NEW k \in 1 .. Len(unread')
      PROVE  bytes'[(nread' + k - 1) % PIPESIZE] = unread'[k]
  <2>1. CASE k = Len(unread) + 1
    <3>1. nread' + k - 1 = nread + Len(unread)
      BY <1>b, <1>c, <2>1
    <3>2. QED
      BY <1>b, <1>c, <1>4, <1>6, <2>1, <3>1 DEF Put
  <2>2. CASE k \in 1 .. Len(unread)
    <3>0. nread \in Nat /\ Len(unread) \in Nat
      BY <1>b
    <3>1. PICK x \in Nat : x = nread + k - 1
      BY <2>2, <3>0
    <3>9. Len(unread) + 1 - k \in Nat
      BY <2>2, <3>0
    <3>2. PICK d \in Nat : d = Len(unread) + 1 - k
      BY <3>9, Zenon
    <3>3. d > 0 /\ d < PIPESIZE /\ x + d = nread + Len(unread)
      <4>1. nread \in Nat /\ k \in Nat /\ k <= Len(unread) /\ k >= 1
        BY <1>b, <2>2
      <4>2. QED
        BY <1>a, <1>b, <1>2, <3>1, <3>2, <4>1
    <3>4. (x % PIPESIZE) # ((x + d) % PIPESIZE)
      BY <1>a, <3>1, <3>2, <3>3, PlacesApart
    <3>5. x % PIPESIZE # nwrite % PIPESIZE /\ x % PIPESIZE \in 0 .. PIPESIZE - 1
      BY <1>a, <1>6, <3>1, <3>3, <3>4
    <3>6. bytes[x % PIPESIZE] = unread[k]
      BY <1>0, <2>2, <3>1 DEF PipeRing
    <3>7. bytes'[x % PIPESIZE] = bytes[x % PIPESIZE]
      BY <1>b, <1>c, <3>5 DEF Put
    <3>8. QED
      BY <1>c, <1>4, <2>2, <3>1, <3>6, <3>7
  <2>3. QED
    BY <1>b, <1>4, <2>1, <2>2
<1>9. PipeRing'
  BY <1>5, <1>8 DEF PipeRing
<1>10. PipeTypeOK'
  BY <1>0, <1>c, <1>3, <1>4, <1>7 DEF PipeTypeOK, fileVars
<1>11. ASSUME NEW q \in Users PROVE UserOK(q)' /\ SleeperOK(q)'
  <2>1. UserOK(q) /\ SleeperOK(q)
    BY DEF PipeInv
  <2>2. UserOK(q)'
    BY <1>c, <2>1 DEF UserOK, fileVars
  <2>3. pilock = p /\ at[q] \notin {"will_sleep_read", "will_sleep_write"}
    BY <1>0, <1>c, <2>1 DEF UserOK, PipeLocked
  <2>4. at[q] = "sleeps_write" => \E x \in Users : at[x] = "copies"
    BY <1>c, <2>1 DEF SleeperOK
  <2>5. ASSUME NEW x \in Users, at[x] = "copies" PROVE FALSE
    <3>1. UserOK(x)
      BY DEF PipeInv
    <3>2. QED
      BY <1>c, <2>3, <2>5, <3>1 DEF UserOK, PipeLocked
  <2>6. QED
    BY <1>c, <2>1, <2>2, <2>3, <2>4, <2>5 DEF SleeperOK
<1>12. QED
  BY <1>1, <1>9, <1>10, <1>11 DEF PipeInv

(* piperead() reads a byte. *)
LEMMA ReadByteStep == ASSUME PipeInv, NEW p \in Users, ReadByte(p) PROVE PipeInv'
<1>0. UserOK(p) /\ SleeperOK(p) /\ PipeTypeOK /\ PipeRing
  BY DEF PipeInv
<1>a. /\ PIPESIZE \in Nat \ {0} /\ WRAP \in Nat \ {0} /\ WRAP > PIPESIZE /\ WRAP % PIPESIZE = 0
      /\ NoUser \notin Users
  BY PipeAssumption
<1>b. /\ nread \in 0 .. WRAP - 1 /\ nwrite \in 0 .. WRAP - 1 /\ Len(unread) \in Nat
      /\ unread \in Seq(Bytes)
      /\ nwrite = Ahead(nread, Len(unread), WRAP) /\ Len(unread) <= PIPESIZE
  BY <1>0 DEF PipeTypeOK, PipeRing
<1>c. UNCHANGED <<page, opened, nwrite, bytes, deserted, pilock, fileVars, at, dying>>
      /\ at[p] = "copies" /\ nread # nwrite /\ nread' = (nread + 1) % WRAP /\ unread' = Tail(unread)
  BY DEF ReadByte, Empty
<1>1. RefsCount' /\ PageInv' /\ \A q \in Users : CloserOK(q)'
  <2>1. page
    BY <1>c, EndsOpen DEF Reads
  <2>2. QED
    BY <1>c, <2>1, FilesStay
<1>2. nread' = Ahead(nread, 1, WRAP) /\ nread' \in 0 .. WRAP - 1
  <2>1. 1 \in 0 .. WRAP
    BY <1>a
  <2>2. (nread + 1) % WRAP = Ahead(nread, 1, WRAP)
    BY <1>a, <1>b, <2>1, AheadIs
  <2>3. QED
    BY <1>a, <1>b, <1>c, <2>2 DEF Ahead
<1>3. Len(unread) # 0
  BY <1>a, <1>b, <1>c DEF Ahead
<1>4. /\ unread' \in Seq(Bytes) /\ Len(unread') = Len(unread) - 1
      /\ \A k \in 1 .. Len(unread') : unread'[k] = unread[k + 1]
  <2>1. unread # <<>>
    BY <1>3
  <2>2. QED
    BY <1>b, <1>c, <2>1
<1>5. nwrite' = Ahead(nread', Len(unread'), WRAP) /\ Len(unread') <= PIPESIZE
  <2>1. nread' = (IF nread + 1 < WRAP THEN nread + 1 ELSE nread + 1 - WRAP)
    BY <1>2 DEF Ahead
  <2>2. nwrite' = (IF nread + Len(unread) < WRAP THEN nread + Len(unread) ELSE nread + Len(unread) - WRAP)
    BY <1>b, <1>c DEF Ahead
  <2>3. Len(unread') = Len(unread) - 1 /\ Len(unread) \in 1 .. PIPESIZE /\ nread \in 0 .. WRAP - 1
    BY <1>a, <1>b, <1>3, <1>4
  <2>4. PIPESIZE \in Nat /\ WRAP \in Nat /\ WRAP > PIPESIZE
    BY <1>a
  <2>5. QED
    BY <2>1, <2>2, <2>3, <2>4 DEF Ahead
<1>6. ASSUME NEW k \in 1 .. Len(unread')
      PROVE  bytes'[(nread' + k - 1) % PIPESIZE] = unread'[k]
  <2>1. k \in Nat /\ k - 1 \in Nat /\ k + 1 \in 1 .. Len(unread) /\ 1 \in 0 .. PIPESIZE
    BY <1>a, <1>b, <1>4
  <2>2. (Ahead(nread, 1, WRAP) + (k - 1)) % PIPESIZE = (nread + 1 + (k - 1)) % PIPESIZE
    BY <1>a, <1>b, <2>1, PlaceAhead
  <2>3. bytes[(nread + (k + 1) - 1) % PIPESIZE] = unread[k + 1]
    BY <1>0, <2>1 DEF PipeRing
  <2>4. nread' + (k - 1) = nread' + k - 1 /\ nread + 1 + (k - 1) = nread + (k + 1) - 1
    BY <1>b, <1>2, <2>1
  <2>5. QED
    BY <1>c, <1>2, <1>4, <2>2, <2>3, <2>4
<1>7. PipeRing'
  BY <1>5, <1>6 DEF PipeRing
<1>8. PipeTypeOK'
  BY <1>0, <1>c, <1>2, <1>4 DEF PipeTypeOK, fileVars
<1>9. ASSUME NEW q \in Users PROVE UserOK(q)' /\ SleeperOK(q)'
  <2>1. UserOK(q) /\ SleeperOK(q)
    BY DEF PipeInv
  <2>2. UserOK(q)'
    BY <1>c, <2>1 DEF UserOK, fileVars
  <2>3. pilock = p /\ at[q] \notin {"will_sleep_read", "will_sleep_write"}
    BY <1>0, <1>c, <2>1 DEF UserOK, PipeLocked
  <2>4. at[q] = "sleeps_read" => deserted \/ \E x \in Users : at[x] = "writing"
    BY <1>c, <2>1 DEF SleeperOK, Empty
  <2>5. ASSUME NEW x \in Users, at[x] = "writing" PROVE FALSE
    <3>1. UserOK(x)
      BY DEF PipeInv
    <3>2. QED
      BY <1>c, <2>3, <2>5, <3>1 DEF UserOK, PipeLocked
  <2>6. QED
    BY <1>c, <2>1, <2>2, <2>3, <2>4, <2>5 DEF SleeperOK
<1>10. QED
  BY <1>1, <1>7, <1>8, <1>9 DEF PipeInv

(* What a process holds, in descriptors and in closes that are due *)
LEMMA HoldsIs ==
  ASSUME NEW p \in Users, NEW z
  PROVE  /\ Holds(p, z) = fds[p][z] + Times_in(shut[p], z)
         /\ Holds(p, z)' = fds'[p][z] + Times_in(shut'[p], z)
BY DEF Holds, Times_in

(* No end gets its first reference or loses its last. *)
LEMMA ClosersStay ==
  ASSUME PipeInv, UNCHANGED <<page, opened, closing, nread, nwrite, unread, deserted>>,
         \A z \in Ends : fileref'[z] \in Nat /\ (fileref'[z] > 0 <=> fileref[z] > 0)
  PROVE  PageInv' /\ \A p \in Users : CloserOK(p)'
<1>1. opened \in SUBSET Ends /\ \A z \in Ends : fileref[z] \in Nat
  BY DEF PipeInv, PipeTypeOK
<1>2. \A z \in Ends : fileref'[z] = 0 <=> fileref[z] = 0
  BY <1>1
<1>3. PageInv'
  BY <1>1, <1>2 DEF PipeInv, PageInv
<1>4. \A p \in Users : CloserOK(p)'
  BY <1>2 DEF PipeInv, CloserOK
<1>5. QED
  BY <1>3, <1>4

(* dup() *)
LEMMA SysDupStep ==
  ASSUME PipeInv, NEW p \in Users, NEW y \in Ends, SysDup(p, y) PROVE PipeInv'
<1>0. UserOK(p) /\ PipeTypeOK /\ PipeRing /\ RefsCount
  BY DEF PipeInv
<1>1. /\ UNCHANGED <<page, opened, nread, nwrite, bytes, unread, deserted, pilock, shut, closing, at, dying>>
      /\ fds[p][y] > 0 /\ fds' = [fds EXCEPT ![p][y] = @ + 1] /\ fileref' = Incr(fileref, y) /\ at[p] = "user"
  BY DEF SysDup, byteVars, Calls
<1>2. fds[p] \in [Ends -> Nat] /\ fileref \in [Ends -> Nat]
  BY <1>0 DEF PipeTypeOK
<1>3. /\ fds' \in [Users -> [Ends -> Nat]] /\ fileref' \in [Ends -> Nat]
      /\ \A x \in Users : x # p => fds'[x] = fds[x]
      /\ \A z \in Ends : /\ fds'[p][z] = fds[p][z] + IF z = y THEN 1 ELSE 0
                         /\ fileref'[z] = fileref[z] + IF z = y THEN 1 ELSE 0
  BY <1>0, <1>1, <1>2 DEF PipeTypeOK, Incr
<1>4. PipeTypeOK'
  BY <1>0, <1>1, <1>3 DEF PipeTypeOK
<1>5. RefsCount'
  <2>1. ASSUME NEW z \in Ends PROVE fileref'[z] = fileref[z] + Holds(p, z)' - Holds(p, z)
    <3>1. Times_in(shut[p], z) \in Nat
      BY <1>0, CountFinite DEF PipeTypeOK
    <3>2. Holds(p, z)' - Holds(p, z) = fds'[p][z] - fds[p][z]
      BY <1>1, <1>2, <1>3, <3>1, HoldsIs
    <3>3. QED
      BY <1>1, <1>2, <1>3, <3>1, HoldsIs
  <2>2. QED
    BY <1>0, <1>1, <1>3, <1>4, <2>1, RefsMove
<1>6. PageInv' /\ \A q \in Users : CloserOK(q)'
  <2>1. fileref[y] > 0
    BY <1>1, EndsOpen
  <2>2. \A z \in Ends : fileref'[z] \in Nat /\ (fileref'[z] > 0 <=> fileref[z] > 0)
    BY <1>2, <1>3, <2>1
  <2>3. QED
    BY <1>1, <2>2, ClosersStay
<1>7. PipeRing'
  BY <1>0, <1>1, PipeRingStays
<1>8. ASSUME NEW q \in Users PROVE UserOK(q)' /\ SleeperOK(q)'
  <2>1. UserOK(q) /\ SleeperOK(q)
    BY DEF PipeInv
  <2>2. SleeperOK(q)'
    BY <1>1, <2>1 DEF SleeperOK, Empty, Full
  <2>3. UserOK(q)'
    BY <1>1, <1>3, <2>1 DEF UserOK, Reads, Writes
  <2>4. QED
    BY <2>2, <2>3
<1>9. QED
  BY <1>4, <1>5, <1>6, <1>7, <1>8 DEF PipeInv

(* close() takes a descriptor away. *)
LEMMA SysCloseStep ==
  ASSUME PipeInv, NEW p \in Users, NEW y \in Ends, SysClose(p, y) PROVE PipeInv'
<1>0. UserOK(p) /\ PipeTypeOK /\ PipeRing /\ RefsCount
  BY DEF PipeInv
<1>1. /\ UNCHANGED <<page, opened, nread, nwrite, bytes, unread, deserted, pilock, fileref, closing, at, dying>>
      /\ fds[p][y] > 0 /\ fds' = [fds EXCEPT ![p][y] = @ - 1] /\ shut' = Put(shut, p, <<y>>)
      /\ shut[p] = <<>> /\ at[p] = "user"
  BY DEF SysClose, byteVars, Calls
<1>2. fds[p] \in [Ends -> Nat] /\ fileref \in [Ends -> Nat]
  BY <1>0 DEF PipeTypeOK
<1>3. /\ fds' \in [Users -> [Ends -> Nat]]
      /\ \A x \in Users : x # p => fds'[x] = fds[x]
      /\ \A z \in Ends : fds'[p][z] = fds[p][z] - IF z = y THEN 1 ELSE 0
  <2>1. fds[p][y] - 1 \in Nat
    BY <1>1, <1>2
  <2>2. QED
    BY <1>0, <1>1, <1>2, <2>1 DEF PipeTypeOK
<1>4. shut'[p] = <<y>> /\ (\A x \in Users : x # p => shut'[x] = shut[x]) /\ shut' \in [Users -> Seq(Ends)]
  <2>1. <<y>> \in Seq(Ends)
    OBVIOUS
  <2>2. QED
    BY <1>0, <1>1, <2>1 DEF PipeTypeOK, Put
<1>5. PipeTypeOK'
  BY <1>0, <1>1, <1>3, <1>4 DEF PipeTypeOK
<1>6. RefsCount'
  <2>1. ASSUME NEW z \in Ends PROVE fileref'[z] = fileref[z] + Holds(p, z)' - Holds(p, z)
    <3>1. Times_in(shut[p], z) = 0
      BY <1>1, CountEmpty
    <3>2. Times_in(shut'[p], z) = IF z = y THEN 1 ELSE 0
      <4>1. {k \in DOMAIN <<y>> : <<y>>[k] = z} = IF z = y THEN {1} ELSE {}
        OBVIOUS
      <4>2. Cardinality({1}) = 1
        BY FS_Singleton
      <4>3. Cardinality({}) = 0
        BY FS_EmptySet
      <4>4. QED
        BY <1>4, <4>1, <4>2, <4>3 DEF Times_in
    <3>3. Holds(p, z)' = fds'[p][z] + Times_in(shut'[p], z) /\ Holds(p, z) = fds[p][z] + Times_in(shut[p], z)
      BY HoldsIs
    <3>4. QED
      BY <1>1, <1>2, <1>3, <3>1, <3>2, <3>3
  <2>2. QED
    BY <1>0, <1>3, <1>4, <1>5, <2>1, RefsMove
<1>7. PageInv' /\ \A q \in Users : CloserOK(q)'
  BY <1>1, <1>2, ClosersStay
<1>8. PipeRing'
  BY <1>0, <1>1, PipeRingStays
<1>9. ASSUME NEW q \in Users PROVE UserOK(q)' /\ SleeperOK(q)'
  <2>1. UserOK(q) /\ SleeperOK(q)
    BY DEF PipeInv
  <2>2. SleeperOK(q)'
    BY <1>1, <2>1 DEF SleeperOK, Empty, Full
  <2>3. UserOK(q)'
    BY <1>1, <1>3, <1>4, <2>1 DEF UserOK, Reads, Writes
  <2>4. QED
    BY <2>2, <2>3
<1>10. QED
  BY <1>5, <1>6, <1>7, <1>8, <1>9 DEF PipeInv

(* fork() duplicates the descriptors. *)
LEMMA ForkStep ==
  ASSUME PipeInv, NEW p \in Users, NEW c \in Users, Fork(p, c) PROVE PipeInv'
<1>0. UserOK(p) /\ UserOK(c) /\ PipeTypeOK /\ PipeRing /\ RefsCount
  BY DEF PipeInv
<1>1. /\ UNCHANGED <<page, opened, nread, nwrite, bytes, unread, deserted, pilock, shut, closing, dying>>
      /\ fds' = Put(fds, c, fds[p]) /\ fileref' = [z \in Ends |-> fileref[z] + fds[p][z]]
      /\ at' = Put(at, c, "user") /\ at[c] = "none" /\ at[p] = "user"
  BY DEF Fork, byteVars, Calls, FirstFree
<1>2. fds[p] \in [Ends -> Nat] /\ fileref \in [Ends -> Nat] /\ \A z \in Ends : fds[c][z] = 0
  BY <1>0, <1>1 DEF PipeTypeOK, UserOK
<1>3. /\ fds' \in [Users -> [Ends -> Nat]] /\ fileref' \in [Ends -> Nat]
      /\ at' \in [Users -> {"none", "user", "exits"} \cup Reads \cup Writes]
      /\ fds'[c] = fds[p] /\ at'[c] = "user"
      /\ \A x \in Users : x # c => fds'[x] = fds[x] /\ at'[x] = at[x]
      /\ \A z \in Ends : fileref'[z] = fileref[z] + fds[p][z]
  BY <1>0, <1>1, <1>2 DEF PipeTypeOK, Put
<1>4. PipeTypeOK'
  BY <1>0, <1>1, <1>3 DEF PipeTypeOK
<1>5. RefsCount'
  <2>1. ASSUME NEW z \in Ends PROVE fileref'[z] = fileref[z] + Holds(c, z)' - Holds(c, z)
    <3>1. Times_in(shut[c], z) \in Nat
      BY <1>0, CountFinite DEF PipeTypeOK
    <3>2. Holds(c, z)' = fds'[c][z] + Times_in(shut'[c], z) /\ Holds(c, z) = fds[c][z] + Times_in(shut[c], z)
      BY HoldsIs
    <3>3. shut'[c] = shut[c]
      BY <1>1
    <3>4. QED
      BY <1>2, <1>3, <3>1, <3>2, <3>3
  <2>2. QED
    BY <1>0, <1>1, <1>3, <1>4, <2>1, RefsMove
<1>6. PageInv' /\ \A q \in Users : CloserOK(q)'
  <2>1. ASSUME NEW z \in Ends PROVE fileref'[z] \in Nat /\ (fileref'[z] > 0 <=> fileref[z] > 0)
    <3>1. fds[p][z] > 0 => fileref[z] > 0
      BY EndsOpen
    <3>2. QED
      BY <1>2, <1>3, <3>1
  <2>2. QED
    BY <1>1, <2>1, ClosersStay
<1>7. PipeRing'
  BY <1>0, <1>1, PipeRingStays
<1>8. ASSUME NEW q \in Users PROVE UserOK(q)' /\ SleeperOK(q)'
  <2>1. UserOK(q) /\ SleeperOK(q)
    BY DEF PipeInv
  <2>2. \A x \in Users : at[x] \in {"writing", "copies"} => at'[x] = at[x]
    BY <1>1, <1>3
  <2>3. SleeperOK(q)'
    BY <1>1, <1>3, <2>1, <2>2 DEF SleeperOK, Empty, Full
  <2>4. UserOK(q)'
    BY <1>0, <1>1, <1>3, <2>1 DEF UserOK, Reads, Writes, PipeLocked
  <2>5. QED
    BY <2>3, <2>4
<1>9. QED
  BY <1>4, <1>5, <1>6, <1>7, <1>8 DEF PipeInv

(* kexit() starts to close what is open. *)
LEMMA ExitStep ==
  ASSUME PipeInv, NEW p \in Users, Exit(p) PROVE PipeInv'
<1> DEFINE s == Times("r", fds[p]["r"]) \o Times("w", fds[p]["w"])
<1>0. UserOK(p) /\ PipeTypeOK /\ PipeRing /\ RefsCount
  BY DEF PipeInv
<1>1. /\ UNCHANGED <<page, opened, nread, nwrite, bytes, unread, deserted, pilock, fileref, closing, dying>>
      /\ fds' = Put(fds, p, [z \in Ends |-> 0]) /\ shut' = Put(shut, p, s) /\ at' = Put(at, p, "exits")
      /\ shut[p] = <<>> /\ at[p] = "user"
  BY DEF Exit, byteVars
<1>2. fds[p] \in [Ends -> Nat] /\ fileref \in [Ends -> Nat] /\ fds[p]["r"] \in Nat /\ fds[p]["w"] \in Nat
  BY <1>0 DEF PipeTypeOK, Ends
<1>3. s \in Seq(Ends) /\ Times_in(s, "r") = fds[p]["r"] /\ Times_in(s, "w") = fds[p]["w"]
  BY <1>2, CountTimes
<1> HIDE DEF s
<1>4. /\ fds' \in [Users -> [Ends -> Nat]] /\ shut' \in [Users -> Seq(Ends)]
      /\ at' \in [Users -> {"none", "user", "exits"} \cup Reads \cup Writes]
      /\ shut'[p] = s /\ at'[p] = "exits" /\ \A z \in Ends : fds'[p][z] = 0
      /\ \A x \in Users : x # p => fds'[x] = fds[x] /\ shut'[x] = shut[x] /\ at'[x] = at[x]
  BY <1>0, <1>1, <1>3 DEF PipeTypeOK, Put
<1>5. PipeTypeOK'
  BY <1>0, <1>1, <1>4 DEF PipeTypeOK
<1>6. RefsCount'
  <2>1. ASSUME NEW z \in Ends PROVE fileref'[z] = fileref[z] + Holds(p, z)' - Holds(p, z)
    <3>1. Times_in(shut[p], z) = 0
      BY <1>1, CountEmpty
    <3>2. Times_in(shut'[p], z) = fds[p][z]
      BY <1>3, <1>4 DEF Ends
    <3>3. Holds(p, z)' = fds'[p][z] + Times_in(shut'[p], z) /\ Holds(p, z) = fds[p][z] + Times_in(shut[p], z)
      BY HoldsIs
    <3>4. fds'[p][z] = 0 /\ fds[p][z] \in Nat /\ fileref[z] \in Nat /\ fileref'[z] = fileref[z]
      BY <1>1, <1>2, <1>4
    <3>5. QED
      BY <3>1, <3>2, <3>3, <3>4
  <2>2. QED
    BY <1>0, <1>4, <1>5, <2>1, RefsMove
<1>7. PageInv' /\ \A q \in Users : CloserOK(q)'
  BY <1>1, <1>2, ClosersStay
<1>8. PipeRing'
  BY <1>0, <1>1, PipeRingStays
<1>9. ASSUME NEW q \in Users PROVE UserOK(q)' /\ SleeperOK(q)'
  <2>1. UserOK(q) /\ SleeperOK(q)
    BY DEF PipeInv
  <2>2. \A x \in Users : at[x] \in {"writing", "copies"} => at'[x] = at[x]
    BY <1>1, <1>4
  <2>3. SleeperOK(q)'
    BY <1>1, <1>4, <2>1, <2>2 DEF SleeperOK, Empty, Full
  <2>4. UserOK(q)'
    BY <1>1, <1>4, <2>1 DEF UserOK, Reads, Writes, PipeLocked
  <2>5. QED
    BY <2>3, <2>4
<1>10. QED
  BY <1>5, <1>6, <1>7, <1>8, <1>9 DEF PipeInv

(* fileclose() drops a reference; the last one goes on to pipeclose(). *)
LEMMA FileCloseStep ==
  ASSUME PipeInv, NEW p \in Users, FileClose(p) PROVE PipeInv'
<1> DEFINE y == Head(shut[p])
<1>0. UserOK(p) /\ CloserOK(p) /\ PipeTypeOK /\ PipeRing /\ RefsCount /\ PageInv
  BY DEF PipeInv
<1>1. /\ UNCHANGED <<page, opened, nread, nwrite, bytes, unread, deserted, pilock, fds, at, dying>>
      /\ fileref' = Decr(fileref, y) /\ shut' = Put(shut, p, Tail(shut[p]))
      /\ closing' = IF fileref[y] = 1 THEN Put(closing, p, y) ELSE closing
      /\ shut[p] # <<>> /\ closing[p] = "no"
  BY DEF FileClose, byteVars
<1>2. shut[p] \in Seq(Ends) /\ fileref \in [Ends -> Nat] /\ Tail(shut[p]) \in Seq(Ends) /\ y \in Ends
  BY <1>0, <1>1 DEF PipeTypeOK
<1> HIDE DEF y
<1>3. Times_in(Tail(shut[p]), y) = Times_in(shut[p], y) - 1 /\ Times_in(shut[p], y) \in Nat
      /\ \A z \in Ends : z # y => Times_in(Tail(shut[p]), z) = Times_in(shut[p], z)
  <2>1. ASSUME NEW z \in Ends
        PROVE  Times_in(shut[p], z) \in Nat
               /\ Times_in(Tail(shut[p]), z) = Times_in(shut[p], z) - IF y = z THEN 1 ELSE 0
    BY <1>1, <1>2, CountTail, CountFinite DEF y
  <2>2. QED
    BY <1>2, <2>1
<1>4. fileref[y] > 0 /\ fileref[y] \in Nat
  <2>1. Times_in(Tail(shut[p]), y) \in Nat
    BY <1>2, CountFinite
  <2>2. fileref[y] >= Holds(p, y) /\ Holds(p, y) = fds[p][y] + Times_in(shut[p], y)
    BY <1>0, <1>2, RefsAtLeast
  <2>3. fds[p][y] \in Nat /\ fileref[y] \in Nat
    BY <1>0, <1>2 DEF PipeTypeOK
  <2>4. QED
    BY <1>3, <2>1, <2>2, <2>3
<1>5. /\ fileref' \in [Ends -> Nat] /\ shut' \in [Users -> Seq(Ends)]
      /\ closing' \in [Users -> Ends \cup {"no", "page"}]
      /\ shut'[p] = Tail(shut[p]) /\ closing'[p] = IF fileref[y] = 1 THEN y ELSE "no"
      /\ \A x \in Users : x # p => shut'[x] = shut[x] /\ closing'[x] = closing[x]
      /\ \A z \in Ends : fileref'[z] = fileref[z] - IF z = y THEN 1 ELSE 0
  BY <1>0, <1>1, <1>2, <1>4 DEF PipeTypeOK, Put, Decr
<1>6. PipeTypeOK'
  BY <1>0, <1>1, <1>5 DEF PipeTypeOK
<1>7. RefsCount'
  <2>1. ASSUME NEW z \in Ends PROVE fileref'[z] = fileref[z] + Holds(p, z)' - Holds(p, z)
    <3>1. Times_in(shut[p], z) \in Nat
      BY <1>2, CountFinite
    <3>2. Times_in(shut'[p], z) = Times_in(shut[p], z) - IF z = y THEN 1 ELSE 0
      BY <1>3, <1>5, <3>1
    <3>3. Holds(p, z)' = fds'[p][z] + Times_in(shut'[p], z) /\ Holds(p, z) = fds[p][z] + Times_in(shut[p], z)
      BY HoldsIs
    <3>4. fds'[p][z] = fds[p][z] /\ fds[p][z] \in Nat /\ fileref[z] \in Nat
          /\ fileref'[z] = fileref[z] - IF z = y THEN 1 ELSE 0
      BY <1>0, <1>1, <1>2, <1>5 DEF PipeTypeOK
    <3>5. QED
      BY <3>1, <3>2, <3>3, <3>4
  <2>2. QED
    BY <1>0, <1>1, <1>5, <1>6, <2>1, RefsMove
<1>8. y \in opened /\ \A x \in Users : closing[x] # y
  <2>1. y \in opened
    BY <1>0, <1>2, <1>4 DEF PageInv
  <2>2. ASSUME NEW x \in Users, closing[x] = y PROVE FALSE
    <3>1. CloserOK(x)
      BY DEF PipeInv
    <3>2. QED
      BY <1>2, <1>4, <2>2, <3>1 DEF CloserOK
  <2>3. QED
    BY <2>1, <2>2
<1>9. PageInv'
  <2>1. ASSUME NEW z \in Ends, fileref'[z] > 0 PROVE fileref[z] > 0
    <3>1. fileref[z] \in Nat /\ (fileref'[z] = fileref[z] - IF z = y THEN 1 ELSE 0)
      BY <1>2, <1>5
    <3>2. QED
      BY <2>1, <3>1
  <2>2. ASSUME NEW z \in opened, fileref'[z] = 0 PROVE \E x \in Users : closing'[x] = z
    <3>1. z \in Ends
      BY <1>0 DEF PipeTypeOK
    <3>2. CASE z = y
      <4>1. fileref[y] = 1
        BY <1>4, <1>5, <2>2, <3>1, <3>2
      <4>2. QED
        BY <1>5, <3>2, <4>1
    <3>3. CASE z # y
      <4>1. fileref[z] = 0
        BY <1>2, <1>5, <2>2, <3>1, <3>3
      <4>2. PICK x \in Users : closing[x] = z
        BY <1>0, <4>1 DEF PageInv
      <4>3. x # p
        BY <1>1, <3>1, <4>2 DEF Ends
      <4>4. QED
        BY <1>5, <4>2, <4>3
    <3>4. QED
      BY <3>2, <3>3
  <2>3. page => opened # {} \/ \E x \in Users : closing'[x] = "page"
    <3>1. \A x \in Users : closing[x] = "page" => closing'[x] = "page"
      BY <1>1, <1>5
    <3>2. QED
      BY <1>0, <3>1 DEF PageInv
  <2>4. QED
    BY <1>0, <1>1, <2>1, <2>2, <2>3 DEF PageInv
<1>10. ASSUME NEW q \in Users PROVE CloserOK(q)'
  <2>1. CloserOK(q)
    BY DEF PipeInv
  <2>2. CASE q # p
    <3>1. closing'[q] = closing[q] /\ closing[q] # y
      BY <1>5, <1>8, <2>2
    <3>2. closing[q] \in Ends => fileref'[closing[q]] = fileref[closing[q]]
      BY <1>2, <1>5, <3>1
    <3>3. \A x \in Users : closing'[q] # "no" /\ closing'[q] = closing'[x] => q = x
      BY <1>1, <1>5, <2>1, <3>1 DEF CloserOK
    <3>4. QED
      BY <1>1, <2>1, <3>1, <3>2, <3>3 DEF CloserOK
  <2>3. CASE q = p
    <3>1. closing'[p] = y => fileref'[y] = 0
      BY <1>2, <1>4, <1>5 DEF Ends
    <3>2. \A x \in Users : x # p => closing'[x] # y
      BY <1>5, <1>8
    <3>3. QED
      BY <1>1, <1>2, <1>5, <1>8, <2>3, <3>1, <3>2 DEF CloserOK, Ends
  <2>4. QED
    BY <2>2, <2>3
<1>11. PipeRing'
  BY <1>0, <1>1, PipeRingStays
<1>12. ASSUME NEW q \in Users PROVE UserOK(q)' /\ SleeperOK(q)'
  <2>1. UserOK(q) /\ SleeperOK(q)
    BY DEF PipeInv
  <2>2. SleeperOK(q)'
    BY <1>1, <2>1 DEF SleeperOK, Empty, Full
  <2>3. UserOK(q)'
    BY <1>1, <1>5, <2>1 DEF UserOK
  <2>4. QED
    BY <2>2, <2>3
<1>13. QED
  BY <1>6, <1>7, <1>9, <1>10, <1>11, <1>12 DEF PipeInv

(* pipeclose() closes an end and wakes the other; the last one frees the   *)
(* page.                                                                   *)
LEMMA PipeCloseStep ==
  ASSUME PipeInv, NEW p \in Users, PipeClose(p) PROVE PipeInv'
<1> DEFINE y == closing[p]
<1>0. UserOK(p) /\ CloserOK(p) /\ PipeTypeOK /\ PipeRing /\ RefsCount /\ PageInv
  BY DEF PipeInv
<1>1. /\ UNCHANGED <<page, nread, nwrite, bytes, unread, pilock, fileref, fds, shut, dying>>
      /\ y \in Ends /\ pilock = NoUser /\ opened' = opened \ {y}
      /\ at' = (IF y = "w" THEN WakeUp("r") ELSE WakeUp("w"))
      /\ deserted' = (y # "w" /\ deserted)
      /\ closing' = Put(closing, p, IF opened' = {} THEN "page" ELSE "no")
  BY DEF PipeClose
<1> HIDE DEF y
<1>2. /\ \A x \in Users : at'[x] = CASE y = "w" /\ at[x] = "sleeps_read" -> "wakes_read"
                                    [] y = "r" /\ at[x] = "sleeps_write" -> "wakes_write"
                                    [] OTHER -> at[x]
      /\ at' \in [Users -> {"none", "user", "exits"} \cup Reads \cup Writes]
  <2>1. CASE y = "w"
    BY <1>0, <1>1, <2>1 DEF WakeUp, PipeTypeOK, Reads, Writes
  <2>2. CASE y = "r"
    BY <1>0, <1>1, <2>2 DEF WakeUp, PipeTypeOK, Reads, Writes
  <2>3. QED
    BY <1>1, <2>1, <2>2 DEF Ends
<1>3. /\ closing' \in [Users -> Ends \cup {"no", "page"}]
      /\ closing'[p] = IF opened' = {} THEN "page" ELSE "no"
      /\ \A x \in Users : x # p => closing'[x] = closing[x]
  BY <1>0, <1>1 DEF PipeTypeOK, Put
<1>4. PipeTypeOK'
  BY <1>0, <1>1, <1>2, <1>3 DEF PipeTypeOK
<1>5. RefsCount'
  BY <1>0, <1>1, RefsStay
<1>6. y \in opened /\ fileref[y] = 0 /\ closing[p] = y /\ page
      /\ \A x \in Users : x # p => closing[x] # y /\ closing[x] # "page"
  <2>1. y \in opened /\ fileref[y] = 0 /\ closing[p] = y /\ page
    BY <1>0, <1>1 DEF y, CloserOK, PageInv
  <2>2. \A x \in Users : x # p => closing[x] # y
    BY <1>0, <1>1, <2>1 DEF CloserOK, Ends
  <2>3. ASSUME NEW x \in Users, closing[x] = "page" PROVE FALSE
    <3>1. CloserOK(x)
      BY DEF PipeInv
    <3>2. QED
      BY <2>1, <2>3, <3>1 DEF CloserOK
  <2>4. QED
    BY <2>1, <2>2, <2>3
<1>7. PageInv'
  <2>1. \A z \in Ends : fileref[z] > 0 => z \in opened'
    BY <1>0, <1>1, <1>6 DEF PageInv
  <2>2. ASSUME NEW z \in opened', fileref[z] = 0 PROVE \E x \in Users : closing'[x] = z
    <3>1. PICK x \in Users : closing[x] = z
      BY <1>0, <1>1, <2>2 DEF PageInv
    <3>2. x # p
      BY <1>1, <1>6, <2>2, <3>1
    <3>3. QED
      BY <1>3, <3>1, <3>2
  <2>3. opened' # {} \/ \E x \in Users : closing'[x] = "page"
    BY <1>3
  <2>4. QED
    BY <1>1, <1>6, <2>1, <2>2, <2>3 DEF PageInv
<1>8. ASSUME NEW q \in Users PROVE CloserOK(q)'
  <2>1. CloserOK(q)
    BY DEF PipeInv
  <2>2. CASE q # p
    <3>1. closing'[q] = closing[q] /\ closing[q] # y /\ closing[q] # "page"
      BY <1>3, <1>6, <2>2
    <3>2. closing[q] \in Ends => closing[q] \in opened' /\ fileref[closing[q]] = 0
      BY <1>1, <2>1, <3>1 DEF CloserOK
    <3>3. closing'[q] # "no" /\ closing'[q] = closing'[p] => FALSE
      BY <1>3, <3>1
    <3>4. \A x \in Users : closing'[q] # "no" /\ closing'[q] = closing'[x] => q = x
      BY <1>3, <2>1, <3>1, <3>3 DEF CloserOK
    <3>5. QED
      BY <1>1, <3>1, <3>2, <3>4 DEF CloserOK
  <2>3. CASE q = p
    <3>1. closing'[p] = "page" => opened' = {}
      BY <1>3
    <3>2. \A x \in Users : x # p => closing'[x] # "page"
      BY <1>3, <1>6
    <3>3. QED
      BY <1>1, <1>3, <1>6, <2>3, <3>1, <3>2 DEF CloserOK, Ends
  <2>4. QED
    BY <2>2, <2>3
<1>9. PipeRing'
  BY <1>0, <1>1, PipeRingStays
<1>10. ASSUME NEW q \in Users PROVE UserOK(q)' /\ SleeperOK(q)'
  <2>1. UserOK(q) /\ SleeperOK(q)
    BY DEF PipeInv
  <2>2. \A x \in Users : at[x] \notin PipeLocked
    <3> SUFFICES ASSUME NEW x \in Users, at[x] \in PipeLocked PROVE FALSE
      OBVIOUS
    <3>1. UserOK(x)
      BY DEF PipeInv
    <3>2. QED
      BY <1>1, <3>1, PipeAssumption DEF UserOK
  <2>3. UserOK(q)'
    <3>1. q = p => at[p] \notin Reads \cup Writes \cup {"none"}
      BY <1>0, <1>1, <1>6 DEF UserOK, Ends
    <3>2. /\ at'[q] \in Reads <=> at[q] \in Reads
          /\ at'[q] \in Writes <=> at[q] \in Writes
          /\ at'[q] \in {"none", "exits"} <=> at[q] \in {"none", "exits"}
          /\ at'[q] = "none" <=> at[q] = "none"
          /\ at'[q] \notin PipeLocked
      BY <1>2, <2>2 DEF Reads, Writes, PipeLocked
    <3>3. QED
      BY <1>1, <1>3, <2>1, <3>1, <3>2 DEF UserOK
  <2>4. SleeperOK(q)'
    <3>1. at[q] \notin {"will_sleep_read", "will_sleep_write"}
          /\ (\A x \in Users : at[x] # "writing" /\ at[x] # "copies")
      BY <2>2 DEF PipeLocked
    <3>2. at'[q] \notin {"will_sleep_read", "will_sleep_write"}
          /\ (at'[q] = "sleeps_read" => at[q] = "sleeps_read" /\ y # "w")
          /\ (at'[q] = "sleeps_write" => at[q] = "sleeps_write" /\ y # "r")
      BY <1>1, <1>2, <3>1 DEF Ends
    <3>3. QED
      BY <1>1, <2>1, <3>1, <3>2 DEF SleeperOK, Empty, Full
  <2>5. QED
    BY <2>3, <2>4
<1>11. QED
  BY <1>4, <1>5, <1>7, <1>8, <1>9, <1>10 DEF PipeInv

(* kfree() of the pipe *)
LEMMA FreePageStep ==
  ASSUME PipeInv, NEW p \in Users, FreePage(p) PROVE PipeInv'
<1>0. UserOK(p) /\ CloserOK(p) /\ PipeTypeOK /\ PipeRing /\ RefsCount /\ PageInv
  BY DEF PipeInv
<1>a. PIPESIZE \in Nat \ {0} /\ WRAP \in Nat \ {0} /\ WRAP > PIPESIZE
  BY PipeAssumption
<1>1. /\ UNCHANGED <<opened, pilock, fileref, fds, shut, at, dying>> /\ closing[p] = "page"
      /\ page' = FALSE /\ nread' = 0 /\ nwrite' = 0 /\ bytes' = Junk /\ unread' = <<>>
      /\ deserted' = FALSE /\ closing' = Put(closing, p, "no")
  BY DEF FreePage
<1>2. opened = {} /\ \A x \in Users : x # p => closing[x] = "no"
  <2>1. opened = {}
    BY <1>0, <1>1 DEF CloserOK
  <2>2. ASSUME NEW x \in Users, x # p PROVE closing[x] = "no"
    <3>1. CloserOK(x) /\ closing[x] \in Ends \cup {"no", "page"}
      BY <1>0 DEF PipeInv, PipeTypeOK
    <3>2. closing[x] # "page"
      BY <1>0, <1>1, <2>2 DEF CloserOK
    <3>3. QED
      BY <2>1, <3>1, <3>2 DEF CloserOK
  <2>3. QED
    BY <2>1, <2>2
<1>3. \A x \in Users : closing'[x] = "no"
  BY <1>0, <1>1, <1>2 DEF PipeTypeOK, Put
<1>4. PipeTypeOK'
  <2>1. unread' \in Seq(Bytes)
    <3>1. <<>> \in Seq(Bytes)
      OBVIOUS
    <3>2. QED
      BY <1>1, <3>1
  <2>2. bytes' \in [0 .. PIPESIZE - 1 -> PipeContents]
    BY <1>1 DEF Junk, PipeContents
  <2>3. closing' \in [Users -> Ends \cup {"no", "page"}]
    BY <1>0, <1>1 DEF PipeTypeOK, Put
  <2>4. nread' \in 0 .. WRAP - 1 /\ nwrite' \in 0 .. WRAP - 1
    BY <1>1, <1>a
  <2>5. page' \in BOOLEAN /\ deserted' \in BOOLEAN
    BY <1>1, Zenon
  <2>6. QED
    BY <1>0, <1>1, <2>1, <2>2, <2>3, <2>4, <2>5 DEF PipeTypeOK
<1>5. RefsCount'
  BY <1>0, <1>1, RefsStay
<1>6. PageInv'
  BY <1>0, <1>1, <1>2 DEF PageInv
<1>7. PipeRing'
  <2>1. Len(<<>>) = 0
    OBVIOUS
  <2>2. QED
    BY <1>1, <1>a, <2>1 DEF PipeRing, Ahead
<1>8. ASSUME NEW q \in Users PROVE UserOK(q)' /\ SleeperOK(q)' /\ CloserOK(q)'
  <2>1. UserOK(q) /\ SleeperOK(q)
    BY DEF PipeInv
  <2>2. UserOK(q)'
    BY <1>1, <1>3, <2>1 DEF UserOK
  <2>3. at[q] \notin {"will_sleep_read", "sleeps_read", "will_sleep_write", "sleeps_write"}
    BY <1>2, <2>1 DEF SleeperOK
  <2>4. SleeperOK(q)'
    BY <1>1, <2>3 DEF SleeperOK
  <2>5. CloserOK(q)'
    BY <1>3 DEF CloserOK, Ends
  <2>6. QED
    BY <2>2, <2>4, <2>5
<1>9. QED
  BY <1>4, <1>5, <1>6, <1>7, <1>8 DEF PipeInv

(* pipe() *)
LEMMA SysPipeStep ==
  ASSUME PipeInv, NEW p \in Users, SysPipe(p) PROVE PipeInv'
<1>0. UserOK(p) /\ CloserOK(p) /\ PipeTypeOK /\ PipeRing /\ RefsCount /\ PageInv
  BY DEF PipeInv
<1>a. PIPESIZE \in Nat \ {0} /\ WRAP \in Nat \ {0} /\ WRAP > PIPESIZE
  BY PipeAssumption
<1>1. /\ UNCHANGED <<bytes, unread, deserted, pilock, closing, at, dying>>
      /\ page = FALSE /\ page' = TRUE /\ opened' = Ends /\ nread' = 0 /\ nwrite' = 0
      /\ \A z \in Ends : fileref[z] = 0
      /\ fileref' = [z \in Ends |-> 1]
      /\ \/ fds' = Put(fds, p, [z \in Ends |-> 1]) /\ UNCHANGED shut
         \/ shut' = Put(shut, p, <<"r", "w">>) /\ UNCHANGED fds
      /\ at[p] = "user" /\ shut[p] = <<>>
  BY DEF SysPipe, Calls
<1>2. /\ opened = {} /\ unread = <<>> /\ nread = 0 /\ nwrite = 0 /\ deserted = FALSE
      /\ \A x \in Users : closing[x] = "no" /\ at[x] \notin Reads \cup Writes
  <2>1. opened = {} /\ unread = <<>> /\ nread = 0 /\ nwrite = 0 /\ ~deserted
    BY <1>0, <1>1 DEF PageInv
  <2>2. ASSUME NEW x \in Users PROVE closing[x] = "no" /\ at[x] \notin Reads \cup Writes
    <3>1. CloserOK(x) /\ closing[x] \in Ends \cup {"no", "page"}
      BY <1>0 DEF PipeInv, PipeTypeOK
    <3>2. at[x] \notin Reads \cup Writes
      BY <1>1, EndsOpen
    <3>3. QED
      BY <1>1, <2>1, <3>1, <3>2 DEF CloserOK
  <2>3. QED
    BY <1>0, <2>1, <2>2 DEF PipeTypeOK
<1>3. <<"r", "w">> \in Seq(Ends)
  BY DEF Ends
<1>4. /\ fds' \in [Users -> [Ends -> Nat]] /\ shut' \in [Users -> Seq(Ends)]
      /\ \A x \in Users : x # p => fds'[x] = fds[x] /\ shut'[x] = shut[x]
      /\ \/ shut'[p] = <<>> /\ \A z \in Ends : fds'[p][z] = 1
         \/ shut'[p] = <<"r", "w">> /\ \A z \in Ends : fds'[p][z] = fds[p][z]
  <2>1. CASE fds' = Put(fds, p, [z \in Ends |-> 1]) /\ UNCHANGED shut
    BY <1>0, <1>1, <2>1 DEF PipeTypeOK, Put
  <2>2. CASE shut' = Put(shut, p, <<"r", "w">>) /\ UNCHANGED fds
    BY <1>0, <1>1, <1>3, <2>2 DEF PipeTypeOK, Put
  <2>3. QED
    BY <1>1, <2>1, <2>2
<1>5. PipeTypeOK'
  <2>1. page' \in BOOLEAN /\ opened' \in SUBSET Ends
    BY <1>1, Zenon
  <2>2. nread' \in 0 .. WRAP - 1 /\ nwrite' \in 0 .. WRAP - 1
    BY <1>1, <1>a
  <2>3. fileref' \in [Ends -> Nat]
    BY <1>1
  <2>4. QED
    BY <1>0, <1>1, <1>4, <2>1, <2>2, <2>3 DEF PipeTypeOK
<1>6. RefsCount'
  <2>1. ASSUME NEW z \in Ends PROVE fileref'[z] = fileref[z] + Holds(p, z)' - Holds(p, z)
    <3>1. Times_in(shut[p], z) = 0 /\ fds[p][z] = 0
      <4>1. fileref[z] >= Holds(p, z) /\ Holds(p, z) >= fds[p][z]
        BY <1>0, RefsAtLeast
      <4>2. fds[p][z] \in Nat /\ fileref[z] = 0
        BY <1>0, <1>1 DEF PipeTypeOK
      <4>3. Times_in(shut[p], z) = 0
        BY <1>1, CountEmpty
      <4>4. Holds(p, z) = fds[p][z] + Times_in(shut[p], z)
        BY HoldsIs
      <4>5. QED
        BY <4>1, <4>2, <4>3, <4>4
    <3>2. fds'[p][z] + Times_in(shut'[p], z) = 1
      <4>1. CASE shut'[p] = <<>> /\ \A x \in Ends : fds'[p][x] = 1
        BY <4>1, CountEmpty
      <4>2. CASE shut'[p] = <<"r", "w">> /\ \A x \in Ends : fds'[p][x] = fds[p][x]
        <5>1. {k \in DOMAIN <<"r", "w">> : <<"r", "w">>[k] = z} = {IF z = "r" THEN 1 ELSE 2}
          BY DEF Ends
        <5>2. Times_in(<<"r", "w">>, z) = 1
          BY <5>1, FS_Singleton DEF Times_in
        <5>3. QED
          BY <3>1, <4>2, <5>2
      <4>3. QED
        BY <1>4, <4>1, <4>2
    <3>3. Holds(p, z)' = fds'[p][z] + Times_in(shut'[p], z) /\ Holds(p, z) = fds[p][z] + Times_in(shut[p], z)
      BY HoldsIs
    <3>4. fileref'[z] = 1 /\ fileref[z] = 0
      BY <1>1
    <3>5. QED
      BY <3>1, <3>2, <3>3, <3>4
  <2>2. QED
    BY <1>0, <1>4, <1>5, <2>1, RefsMove
<1>7. PageInv'
  BY <1>1, <1>2 DEF PageInv, Ends
<1>8. PipeRing'
  <2>1. Len(<<>>) = 0
    OBVIOUS
  <2>2. QED
    BY <1>1, <1>2, <1>a, <2>1 DEF PipeRing, Ahead
<1>9. ASSUME NEW q \in Users PROVE UserOK(q)' /\ SleeperOK(q)' /\ CloserOK(q)'
  <2>1. UserOK(q) /\ SleeperOK(q)
    BY DEF PipeInv
  <2>2. at'[q] = at[q] /\ at[q] \notin Reads \cup Writes
    BY <1>1, <1>2
  <2>3. UserOK(q)'
    BY <1>1, <1>4, <2>1, <2>2 DEF UserOK
  <2>4. SleeperOK(q)'
    BY <2>2 DEF SleeperOK, Reads, Writes
  <2>5. CloserOK(q)'
    BY <1>1, <1>2 DEF CloserOK, Ends
  <2>6. QED
    BY <2>3, <2>4, <2>5
<1>10. QED
  BY <1>5, <1>6, <1>7, <1>8, <1>9 DEF PipeInv

(* PipeInv is inductive. *)
LEMMA PipeNextStep == PipeInv /\ [PipeNext]_pipeVars => PipeInv'
<1> SUFFICES ASSUME PipeInv, [PipeNext]_pipeVars PROVE PipeInv'
  OBVIOUS
<1>1. CASE UNCHANGED pipeVars
  <2>1. UNCHANGED <<page, opened, nread, nwrite, bytes, unread, deserted, pilock, fileref, fds, shut,
                    closing, at, dying>>
    BY <1>1 DEF pipeVars, byteVars, fileVars
  <2>2. PipeTypeOK' /\ PipeRing'
    BY <2>1, PipeRingStays DEF PipeInv, PipeTypeOK
  <2>3. RefsCount' /\ PageInv' /\ \A p \in Users : CloserOK(p)'
    BY <2>1, FilesStay DEF fileVars
  <2>4. \A p \in Users : UserOK(p)' /\ SleeperOK(p)'
    BY <2>1 DEF PipeInv, UserOK, SleeperOK, Empty, Full
  <2>5. QED
    BY <2>2, <2>3, <2>4 DEF PipeInv
<1>2. CASE PipeNext
  BY <1>2, StartedStep, GoneStep, WakeLockedStep, PipeSleepStep, PipeKillStep, WriteGivesUpStep,
     WriteFullStep, WriteEndsStep, ReadGivesUpStep, ReadEmptyStep, ReadStartsStep, ReadEndsStep,
     SysReadWriteStep, WriteByteStep, ReadByteStep, SysDupStep, SysCloseStep, ForkStep, ExitStep,
     FileCloseStep, PipeCloseStep, FreePageStep, SysPipeStep, Zenon DEF PipeNext, PipeStep
<1>3. QED
  BY <1>1, <1>2

(* What PipeInv is for *)
LEMMA PipeSafe == PipeInv => PipeWorks /\ NoWakeupLost
<1> SUFFICES ASSUME PipeInv PROVE PipeWorks /\ NoWakeupLost
  OBVIOUS
<1>0. PipeTypeOK /\ RefsCount /\ PageInv /\ PipeRing
      /\ \A p \in Users : UserOK(p) /\ CloserOK(p) /\ SleeperOK(p)
  BY DEF PipeInv
<1>1. PageOutlivesUse
  <2>1. ASSUME NEW p \in Users, InPipe(p) PROVE page
    <3>1. CASE closing[p] # "no"
      BY <1>0, <3>1 DEF CloserOK, PageInv, PipeTypeOK
    <3>2. CASE at[p] \notin {"none", "user", "exits"}
      <4>1. at[p] \in Reads \cup Writes
        BY <1>0, <3>2 DEF PipeTypeOK
      <4>2. QED
        BY <4>1, EndsOpen
    <3>3. QED
      BY <2>1, <3>1, <3>2 DEF InPipe
  <2>2. page <=> opened # {} \/ \E p \in Users : closing[p] = "page"
    BY <1>0 DEF PageInv, CloserOK
  <2>3. ASSUME NEW z \in Ends
        PROVE  z \in opened <=> fileref[z] > 0 \/ \E p \in Users : closing[p] = z
    <3>1. fileref[z] \in Nat
      BY <1>0 DEF PipeTypeOK
    <3>2. QED
      BY <1>0, <3>1 DEF PageInv, CloserOK
  <2>4. \A p, q \in Users : closing[p] # "no" /\ closing[p] = closing[q] => p = q
    BY <1>0 DEF CloserOK
  <2>5. QED
    BY <2>1, <2>2, <2>3, <2>4 DEF PageOutlivesUse
<1>2. BytesInOrder
  <2>1. /\ WRAP \in Nat \ {0} /\ WRAP > PIPESIZE /\ PIPESIZE \in Nat
        /\ nread \in 0 .. WRAP - 1 /\ nwrite \in 0 .. WRAP - 1
        /\ Len(unread) \in Nat /\ Len(unread) <= PIPESIZE /\ nwrite = Ahead(nread, Len(unread), WRAP)
    BY <1>0, PipeAssumption DEF PipeTypeOK, PipeRing
  <2> DEFINE n == (WRAP + nwrite - nread) % WRAP
  <2>2. n = IF nwrite >= nread THEN nwrite - nread ELSE WRAP + nwrite - nread
    BY <2>1, DistanceIs
  <2> HIDE DEF n
  <2>3. n = Len(unread)
    BY <2>1, <2>2 DEF Ahead
  <2>5. Len(unread) <= PIPESIZE
        /\ \A k \in 1 .. Len(unread) : bytes[(nread + k - 1) % PIPESIZE] = unread[k]
    BY <1>0 DEF PipeRing
  <2>6. n <= PIPESIZE /\ \A k \in 1 .. n : bytes[(nread + k - 1) % PIPESIZE] = unread[k]
    BY <2>3, <2>5
  <2>7. QED
    BY <2>3, <2>6, Zenon DEF BytesInOrder, n
<1>3. ASSUME pilock = NoUser, NEW p \in Users
      PROVE  /\ at[p] = "sleeps_read" => deserted \/ (Empty /\ "w" \in opened)
             /\ at[p] = "sleeps_write" => Full /\ "r" \in opened
  <2>1. ASSUME NEW x \in Users PROVE at[x] # "writing" /\ at[x] # "copies"
    BY <1>0, <1>3, PipeAssumption DEF UserOK, PipeLocked
  <2>2. QED
    BY <1>0, <2>1 DEF SleeperOK
<1>4. QED
  BY <1>0, <1>1, <1>2, <1>3 DEF PipeWorks, NoWakeupLost

(* Bytes go through a pipe in order and none is lost or made up, its ends  *)
(* and its page are given up exactly once, after the last reference, and   *)
(* nobody sleeps in it whom nobody will wake.                              *)
THEOREM PipeSafety == PipeSpec => [](PipeWorks /\ NoWakeupLost)
  BY PipeInit1, PipeNextStep, PipeSafe, PTL DEF PipeSpec

-----------------------------------------------------------------------------
(* The blocks of files *)

(* Types of the files *)
FileDataTypeOK ==
  /\ bitmap \in SUBSET Blocks /\ size \in [Files -> Nat]
  /\ addrs \in [Files -> [0 .. NDIRECT -> Blocks \cup {0}]]
  /\ table \in [Files -> [0 .. NINDIRECT - 1 -> Blocks \cup {0}]]
  /\ locker \in [Files -> Scribes \cup {NoScribe}]
  /\ does \in [Scribes -> {"user", "chunk", "writes", "truncates"}]
  /\ file \in [Scribes -> Files \cup {NoFile}]
  /\ off \in [Scribes -> Nat] /\ todo \in [Scribes -> Nat]
  /\ piece \in [Scribes -> Nat] /\ freeing \in [Scribes -> Nat]

(* itrunc() is at work on f. *)
Truncated(f) == \E p \in Scribes : does[p] = "truncates" /\ file[p] = f

(* Each block in use is in one place of one file. *)
OwnInv ==
  /\ \A f \in Files : \A n \in Places(f) : Place(f, n) \in bitmap
  /\ \A b \in bitmap : \E f \in Files : \E n \in Places(f) : Place(f, n) = b
  /\ \A f, g \in Files : \A n \in Places(f) : \A m \in Places(g) :
       Place(f, n) = Place(g, m) => f = g /\ n = m

(* Where a process is in its file, and what it has written or freed of it *)
ScribeOK(p) ==
  /\ does[p] # "user" => file[p] \in Files
  /\ does[p] \in {"writes", "truncates"} => locker[file[p]] = p
  /\ does[p] = "writes" =>
       /\ off[p] + piece[p] <= MAXFILE * BSIZE
       /\ \A n \in 0 .. MAXFILE - 1 : n * BSIZE < off[p] => Place(file[p], n) # 0
  /\ does[p] = "truncates" =>
       /\ freeing[p] <= MAXFILE + 1
       /\ \A n \in 0 .. NDIRECT - 1 : n < freeing[p] => addrs[file[p]][n] = 0
       /\ freeing[p] > MAXFILE => addrs[file[p]][NDIRECT] = 0

(* A file that is not being truncated has no holes, and without an         *)
(* indirect block it has nothing in its table.                             *)
FileOK(f) ==
  ~Truncated(f) =>
    /\ \A n \in 0 .. MAXFILE - 1 : n * BSIZE < size[f] => Place(f, n) # 0
    /\ addrs[f][NDIRECT] = 0 => \A n \in 0 .. NINDIRECT - 1 : table[f][n] = 0

(* The files: the inductive invariant *)
FileDataInv ==
  /\ FileDataTypeOK /\ OwnInv
  /\ \A p \in Scribes : ScribeOK(p)
  /\ \A f \in Files : FileOK(f)

(* A byte and its block *)
LEMMA BlockOf ==
  ASSUME NEW B \in Nat \ {0}, NEW x \in Nat
  PROVE  /\ x \div B \in Nat /\ (x % B) \in 0 .. B - 1 /\ x = (x \div B) * B + (x % B)
OBVIOUS

(* Products grow with their factors. *)
LEMMA TimesMonotone ==
  ASSUME NEW B \in Nat, NEW k \in Int, NEW n \in Int, k <= n
  PROVE  k * B <= n * B
OBVIOUS

(* What is written up to the end of a block touches no other. *)
LEMMA OnlyThisBlock ==
  ASSUME NEW B \in Nat \ {0}, NEW x \in Nat, NEW m \in Nat, m <= B - (x % B), NEW k \in Nat,
         k * B < x + m, x <= k * B
  PROVE  k = x \div B
<1> DEFINE n == x \div B
           c == x % B
<1>1. n \in Nat /\ c \in 0 .. B - 1 /\ x = n * B + c
  BY BlockOf
<1> HIDE DEF n, c
<1>2. m <= B - c
  BY DEF c
<1>3. CASE k >= n + 1
  <2>1. (n + 1) * B <= k * B
    BY <1>1, <1>3, TimesMonotone
  <2>2. (n + 1) * B = n * B + B /\ n * B \in Nat /\ k * B \in Nat
    BY <1>1
  <2>3. QED
    BY <1>1, <1>2, <2>1, <2>2
<1>4. CASE k <= n - 1
  <2>1. k * B <= (n - 1) * B
    BY <1>1, <1>4, TimesMonotone
  <2>2. (n - 1) * B = n * B - B /\ n * B \in Nat /\ k * B \in Nat
    BY <1>1
  <2>3. QED
    BY <1>1, <2>1, <2>2
<1>5. k = n
  BY <1>1, <1>3, <1>4
<1>6. QED
  BY <1>5 DEF n

(* A byte before the end of the last block is in a block of the file. *)
LEMMA BlockInFile ==
  ASSUME NEW B \in Nat \ {0}, NEW x \in Nat, NEW M \in Nat, x < M * B
  PROVE  x \div B \in 0 .. M - 1 /\ (x \div B) * B <= x
<1> DEFINE n == x \div B
           c == x % B
<1>1. n \in Nat /\ c \in 0 .. B - 1 /\ x = n * B + c
  BY BlockOf
<1> HIDE DEF n, c
<1>2. CASE n >= M
  <2>1. M * B <= n * B
    BY <1>1, <1>2, TimesMonotone
  <2>2. n * B \in Nat /\ M * B \in Nat
    BY <1>1
  <2>3. QED
    BY <1>1, <2>1, <2>2
<1>3. n * B <= x /\ n * B \in Nat
  BY <1>1
<1>4. n \in 0 .. M - 1
  BY <1>1, <1>2
<1>5. QED
  BY <1>3, <1>4 DEF n

(* Min of numbers *)
LEMMA LeastIs ==
  ASSUME NEW S, S \subseteq Nat, S # {}
  PROVE  Min(S) \in S /\ \A y \in S : Min(S) <= y
<1>1. \E x \in S : \A y \in S : x <= y
  BY Least
<1>2. QED
  BY <1>1 DEF Min

(* The smaller of two *)
LEMMA MinOfTwo ==
  ASSUME NEW x \in Nat, NEW y \in Nat
  PROVE  Min({x, y}) = IF x <= y THEN x ELSE y
<1>1. {x, y} \subseteq Nat /\ {x, y} # {}
  OBVIOUS
<1>2. Min({x, y}) \in {x, y} /\ \A z \in {x, y} : Min({x, y}) <= z
  BY <1>1, LeastIs
<1>3. QED
  BY <1>2

(* The larger of two *)
LEMMA MaxOfTwo ==
  ASSUME NEW x \in Nat, NEW y \in Nat
  PROVE  Max({x, y}) = IF x <= y THEN y ELSE x
<1>1. \E z \in {x, y} : \A d \in {x, y} : z >= d
  OBVIOUS
<1>2. Max({x, y}) \in {x, y} /\ \A z \in {x, y} : Max({x, y}) >= z
  BY <1>1 DEF Max
<1>3. QED
  BY <1>2

(* A chunk of filewrite() is no more than what is left. *)
LEMMA ChunkIs ==
  ASSUME NEW p \in Scribes, todo[p] \in Nat
  PROVE  Chunk(p) \in Nat /\ Chunk(p) <= todo[p]
<1> DEFINE d == LOGRESERVE - 1 - 1 - 2
<1>1. d \in Nat
  BY FileDataAssumption
<1> HIDE DEF d
<1>2. d \div 2 \in Nat
  BY <1>1
<1>3. (d \div 2) * BSIZE \in Nat
  BY <1>2, FileDataAssumption
<1>4. Most \in Nat
  BY <1>3 DEF Most, d
<1>5. QED
  BY <1>4, MinOfTwo DEF Chunk

(* Place by cases *)
LEMMA PlaceIs ==
  ASSUME FileDataTypeOK, NEW f \in Files, NEW n \in 0 .. MAXFILE
  PROVE  /\ Place(f, n) = IF n < NDIRECT THEN addrs[f][n]
                          ELSE IF n = MAXFILE THEN addrs[f][NDIRECT]
                          ELSE IF addrs[f][NDIRECT] = 0 THEN 0 ELSE table[f][n - NDIRECT]
         /\ Place(f, n) \in Blocks \cup {0}
<1>1. NDIRECT \in Nat /\ NINDIRECT \in Nat /\ MAXFILE = NDIRECT + NINDIRECT
  BY FileDataAssumption DEF MAXFILE
<1>2. addrs[f] \in [0 .. NDIRECT -> Blocks \cup {0}] /\ table[f] \in [0 .. NINDIRECT - 1 -> Blocks \cup {0}]
  BY DEF FileDataTypeOK
<1>3. CASE n < NDIRECT
  BY <1>1, <1>2, <1>3 DEF Place
<1>4. CASE n >= NDIRECT /\ n < MAXFILE
  <2>1. n \in NDIRECT .. MAXFILE - 1 /\ ~(n < NDIRECT) /\ n # MAXFILE /\ n - NDIRECT \in 0 .. NINDIRECT - 1
    BY <1>1, <1>4
  <2>2. table[f][n - NDIRECT] \in Blocks \cup {0}
    BY <1>2, <2>1
  <2>3. CASE addrs[f][NDIRECT] = 0
    BY <2>1, <2>3 DEF Place
  <2>4. CASE addrs[f][NDIRECT] # 0
    BY <2>1, <2>2, <2>4 DEF Place
  <2>5. QED
    BY <2>3, <2>4
<1>5. CASE n = MAXFILE
  BY <1>1, <1>2, <1>5 DEF Place
<1>6. QED
  BY <1>1, <1>3, <1>4, <1>5

(* The same after a step *)
LEMMA PlaceWillBe ==
  ASSUME FileDataTypeOK', NEW f \in Files, NEW n \in 0 .. MAXFILE
  PROVE  Place(f, n)' = IF n < NDIRECT THEN addrs'[f][n]
                        ELSE IF n = MAXFILE THEN addrs'[f][NDIRECT]
                        ELSE IF addrs'[f][NDIRECT] = 0 THEN 0 ELSE table'[f][n - NDIRECT]
<1>1. NDIRECT \in Nat /\ NINDIRECT \in Nat /\ MAXFILE = NDIRECT + NINDIRECT
  BY FileDataAssumption DEF MAXFILE
<1>2. addrs'[f] \in [0 .. NDIRECT -> Blocks \cup {0}] /\ table'[f] \in [0 .. NINDIRECT - 1 -> Blocks \cup {0}]
  BY DEF FileDataTypeOK
<1>3. CASE n < NDIRECT
  BY <1>1, <1>2, <1>3 DEF Place
<1>4. CASE n >= NDIRECT /\ n < MAXFILE
  <2>1. n \in NDIRECT .. MAXFILE - 1 /\ ~(n < NDIRECT) /\ n # MAXFILE
    BY <1>1, <1>4
  <2>2. CASE addrs'[f][NDIRECT] = 0
    BY <2>1, <2>2 DEF Place
  <2>3. CASE addrs'[f][NDIRECT] # 0
    BY <2>1, <2>3 DEF Place
  <2>4. QED
    BY <2>2, <2>3
<1>5. CASE n = MAXFILE
  BY <1>1, <1>2, <1>5 DEF Place
<1>6. QED
  BY <1>1, <1>3, <1>4, <1>5

(* bmap() misses nothing where there is a block. *)
LEMMA MissingIs ==
  ASSUME FileDataTypeOK, NEW f \in Files, NEW n \in 0 .. MAXFILE - 1
  PROVE  Missing(f, n) = "nothing" <=> Place(f, n) # 0
<1>1. NDIRECT \in Nat /\ NINDIRECT \in Nat /\ MAXFILE = NDIRECT + NINDIRECT /\ n \in 0 .. MAXFILE
  BY FileDataAssumption DEF MAXFILE
<1>2. CASE n < NDIRECT
  BY <1>1, <1>2, PlaceIs DEF Missing
<1>3. CASE n >= NDIRECT
  BY <1>1, <1>3, PlaceIs DEF Missing
<1>4. QED
  BY <1>1, <1>2, <1>3

(* Steps that move no block *)
LEMMA OwnSame ==
  ASSUME OwnInv, bitmap' = bitmap,
         \A f \in Files : Places(f)' = Places(f),
         \A f \in Files : \A n \in Places(f) : Place(f, n)' = Place(f, n)
  PROVE  OwnInv'
<1>1. \A f \in Files : \A n \in Places(f)' : n \in Places(f) /\ Place(f, n)' = Place(f, n)
  OBVIOUS
<1>2. \A f \in Files : \A n \in Places(f)' : Place(f, n)' \in bitmap'
  BY <1>1 DEF OwnInv
<1>3. \A b \in bitmap' : \E f \in Files : \E n \in Places(f)' : Place(f, n)' = b
  BY <1>1 DEF OwnInv
<1>4. \A f, g \in Files : \A n \in Places(f)' : \A m \in Places(g)' :
        Place(f, n)' = Place(g, m)' => f = g /\ n = m
  BY <1>1 DEF OwnInv
<1>5. QED
  BY <1>2, <1>3, <1>4 DEF OwnInv

(* Where neither blocks nor itrunc()s move *)
LEMMA BlocksStay ==
  ASSUME OwnInv, UNCHANGED <<bitmap, addrs, table>>,
         \A p \in Scribes : (does'[p] = "truncates") <=> (does[p] = "truncates"),
         \A p \in Scribes : does[p] = "truncates" => (file'[p] = file[p] /\ freeing'[p] = freeing[p])
  PROVE  /\ OwnInv' /\ \A f \in Files : Truncated(f)' <=> Truncated(f)
         /\ \A f, n : Place(f, n)' = Place(f, n)
<1>1. \A f, n : Place(f, n)' = Place(f, n)
  BY DEF Place
<1>2. ASSUME NEW f \in Files PROVE Places(f)' = Places(f)
  <2>1. ASSUME NEW n
        PROVE  (\A p \in Scribes : does'[p] = "truncates" /\ file'[p] = f => n >= freeing'[p])
               <=> \A p \in Scribes : does[p] = "truncates" /\ file[p] = f => n >= freeing[p]
    OBVIOUS
  <2>2. QED
    BY <1>1, <2>1 DEF Places
<1>3. ASSUME NEW f \in Files PROVE Truncated(f)' <=> Truncated(f)
  <2>1. ASSUME NEW p \in Scribes
        PROVE  (does'[p] = "truncates" /\ file'[p] = f) <=> (does[p] = "truncates" /\ file[p] = f)
    OBVIOUS
  <2>2. QED
    BY <2>1 DEF Truncated
<1>4. QED
  BY <1>1, <1>2, <1>3, OwnSame

(* The files at first *)
LEMMA FileInit1 == FileDataInit => FileDataInv
<1> SUFFICES ASSUME FileDataInit PROVE FileDataInv
  OBVIOUS
<1> USE DEF FileDataInit
<1>0. NDIRECT \in Nat /\ NINDIRECT \in Nat /\ MAXFILE = NDIRECT + NINDIRECT /\ BSIZE \in Nat \ {0}
  BY FileDataAssumption DEF MAXFILE
<1>1. FileDataTypeOK
  BY DEF FileDataTypeOK
<1>2. ASSUME NEW f \in Files, NEW n \in 0 .. MAXFILE PROVE Place(f, n) = 0
  BY <1>0, <1>1, PlaceIs
<1>3. \A f \in Files : Places(f) = {}
  BY <1>2 DEF Places
<1>4. OwnInv
  BY <1>3 DEF OwnInv
<1>5. \A p \in Scribes : ScribeOK(p)
  BY DEF ScribeOK
<1>6. ASSUME NEW f \in Files, NEW n \in 0 .. MAXFILE - 1 PROVE ~(n * BSIZE < size[f])
  BY <1>0
<1>7. \A f \in Files : FileOK(f)
  BY <1>0, <1>6 DEF FileOK
<1>8. QED
  BY <1>1, <1>4, <1>5, <1>7 DEF FileDataInv
-----------------------------------------------------------------------------
(* What the constants are *)
LEMMA FileConstants ==
  /\ NDIRECT \in Nat /\ NINDIRECT \in Nat /\ MAXFILE = NDIRECT + NINDIRECT /\ MAXFILE \in Nat
  /\ BSIZE \in Nat \ {0} /\ MAXFILE * BSIZE \in Nat
  /\ Blocks \subseteq Nat \ {0} /\ Offsets \subseteq Nat /\ Sizes \subseteq Nat
  /\ NoScribe \notin Scribes /\ NoFile \notin Files
BY FileDataAssumption DEF MAXFILE

(* A process that is not concerned *)
LEMMA ScribeSame ==
  ASSUME NEW p \in Scribes, ScribeOK(p),
         does'[p] = does[p], file'[p] = file[p], off'[p] = off[p], piece'[p] = piece[p], freeing'[p] = freeing[p],
         does[p] \in {"writes", "truncates"} =>
           (/\ locker'[file[p]] = locker[file[p]] /\ addrs'[file[p]] = addrs[file[p]]
            /\ \A n : Place(file[p], n)' = Place(file[p], n))
  PROVE  ScribeOK(p)'
<1>1. does'[p] # "user" => file'[p] \in Files
  BY DEF ScribeOK
<1>2. does'[p] \in {"writes", "truncates"} => locker'[file'[p]] = p
  BY DEF ScribeOK
<1>3. does'[p] = "writes" =>
       /\ off'[p] + piece'[p] <= MAXFILE * BSIZE
       /\ \A n \in 0 .. MAXFILE - 1 : n * BSIZE < off'[p] => Place(file[p], n)' # 0
  BY DEF ScribeOK
<1>4. does'[p] = "truncates" =>
       /\ freeing'[p] <= MAXFILE + 1
       /\ \A n \in 0 .. NDIRECT - 1 : n < freeing'[p] => addrs'[file'[p]][n] = 0
       /\ freeing'[p] > MAXFILE => addrs'[file'[p]][NDIRECT] = 0
  BY DEF ScribeOK
<1>5. QED
  BY <1>1, <1>2, <1>3, <1>4 DEF ScribeOK

(* A file that is not concerned *)
LEMMA FileSame ==
  ASSUME NEW f \in Files, FileOK(f), Truncated(f) => Truncated(f)',
         size'[f] = size[f], addrs'[f] = addrs[f], table'[f] = table[f]
  PROVE  FileOK(f)'
<1>1. \A n : Place(f, n)' = Place(f, n)
  BY DEF Place
<1>2. QED
  BY <1>1 DEF FileOK

(* filewrite() is called. *)
LEMMA WriteFileStep ==
  ASSUME FileDataInv, NEW p \in Scribes, NEW f \in Files, NEW x \in Offsets, NEW k \in Sizes, WriteFile(p, f, x, k)
  PROVE  FileDataInv'
<1> USE DEF WriteFile, Put, inodeVars
<1>0. /\ FileDataTypeOK /\ OwnInv /\ \A q \in Scribes : ScribeOK(q)
      /\ \A g \in Files : FileOK(g)
  BY DEF FileDataInv
<1>1. FileDataTypeOK'
  BY <1>0, FileConstants DEF FileDataTypeOK
<1>2. /\ OwnInv' /\ \A g \in Files : Truncated(g)' <=> Truncated(g)
      /\ \A g, n : Place(g, n)' = Place(g, n)
  BY <1>0, BlocksStay DEF FileDataTypeOK
<1>3. ASSUME NEW q \in Scribes PROVE ScribeOK(q)'
  <2>1. CASE q = p
    BY <2>1, <1>0 DEF ScribeOK, FileDataTypeOK
  <2>2. CASE q # p
    BY <2>2, <1>0, <1>2, ScribeSame DEF FileDataTypeOK
  <2>3. QED
    BY <2>1, <2>2
<1>4. \A g \in Files : FileOK(g)'
  BY <1>0, <1>2, FileSame
<1>5. QED
  BY <1>1, <1>2, <1>3, <1>4 DEF FileDataInv

(* Who has the lock of a file *)
LEMMA OneScribe ==
  ASSUME \A q \in Scribes : ScribeOK(q)
  PROVE  \A p, q \in Scribes : does[p] \in {"writes", "truncates"} /\ does[q] \in {"writes", "truncates"}
                                 /\ file[p] = file[q] => p = q
BY DEF ScribeOK

(* filewrite() starts a chunk, or writei() refuses it. *)
LEMMA StartChunkStep ==
  ASSUME FileDataInv, NEW p \in Scribes, StartChunk(p)
  PROVE  FileDataInv'
<1>0. /\ FileDataTypeOK /\ OwnInv /\ \A q \in Scribes : ScribeOK(q)
      /\ \A g \in Files : FileOK(g)
  BY DEF FileDataInv
<1>z. file[p] \in Files
  BY <1>0 DEF StartChunk, ScribeOK
<1> PICK f \in Files : f = file[p]
  BY <1>z
<1>a. does[p] = "chunk" /\ locker[f] = NoScribe /\ UNCHANGED <<bitmap, size, addrs, table, freeing>>
  BY DEF StartChunk, inodeVars
<1>b. f \in Files /\ ~Truncated(f)
  BY <1>0, <1>a, FileConstants DEF ScribeOK, Truncated
<1>c. CASE Idle(p) /\ UNCHANGED locker
  <2> USE DEF Idle, Put
  <2>1. FileDataTypeOK'
    BY <1>c, <1>a, <1>0, FileConstants DEF FileDataTypeOK
  <2>2. /\ OwnInv' /\ \A g \in Files : Truncated(g)' <=> Truncated(g)
        /\ \A g, n : Place(g, n)' = Place(g, n)
    BY <1>c, <1>a, <1>0, BlocksStay DEF FileDataTypeOK
  <2>3. ASSUME NEW q \in Scribes PROVE ScribeOK(q)'
    <3>1. CASE q = p
      BY <3>1, <1>c, <1>0 DEF ScribeOK, FileDataTypeOK
    <3>2. CASE q # p
      BY <3>2, <1>c, <1>a, <1>0, <2>2, ScribeSame DEF FileDataTypeOK
    <3>3. QED
      BY <3>1, <3>2
  <2>4. \A g \in Files : FileOK(g)'
    BY <1>a, <1>0, <2>2, FileSame
  <2>5. QED
    BY <2>1, <2>2, <2>3, <2>4 DEF FileDataInv
<1>d. CASE /\ off[p] <= size[f] /\ off[p] + Chunk(p) <= MAXFILE * BSIZE
           /\ locker' = Put(locker, f, p) /\ piece' = Put(piece, p, Chunk(p))
           /\ todo' = Put(todo, p, todo[p] - Chunk(p)) /\ does' = Put(does, p, "writes")
           /\ UNCHANGED <<file, off>>
  <2> USE DEF Put
  <2>0. Chunk(p) \in Nat /\ todo[p] - Chunk(p) \in Nat
    BY <1>0, ChunkIs DEF FileDataTypeOK
  <2>1. FileDataTypeOK'
    BY <1>d, <1>a, <1>b, <1>0, <2>0, FileConstants DEF FileDataTypeOK
  <2>2. /\ OwnInv' /\ \A g \in Files : Truncated(g)' <=> Truncated(g)
        /\ \A g, n : Place(g, n)' = Place(g, n)
    BY <1>d, <1>a, <1>0, BlocksStay DEF FileDataTypeOK
  <2>3. ASSUME NEW q \in Scribes PROVE ScribeOK(q)'
    <3>1. CASE q = p
      <4>1. /\ does'[p] = "writes" /\ file'[p] = f /\ locker'[f] = p /\ off'[p] = off[p] /\ piece'[p] = Chunk(p)
        BY <1>d, <1>a, <1>b, <1>0 DEF FileDataTypeOK
      <4>2. \A n \in 0 .. MAXFILE - 1 : n * BSIZE < size[f] => Place(f, n) # 0
        BY <1>0, <1>b DEF FileOK
      <4>3. ASSUME NEW n \in 0 .. MAXFILE - 1, n * BSIZE < off[p] PROVE Place(f, n)' # 0
        <5>0. n \in Nat /\ BSIZE \in Nat
          BY FileConstants
        <5>1. n * BSIZE \in Nat /\ off[p] \in Nat /\ size[f] \in Nat
          BY <5>0, <1>0, <1>b DEF FileDataTypeOK
        <5>2. n * BSIZE < size[f]
          BY <5>1, <4>3, <1>d
        <5>3. QED
          BY <5>2, <4>2, <2>2
      <4>4. QED
        BY <3>1, <1>b, <1>d, <4>1, <4>3 DEF ScribeOK
    <3>2. CASE q # p
      <4>1. does[q] \in {"writes", "truncates"} => file[q] # f
        BY <1>0, <1>a, FileConstants DEF ScribeOK
      <4>2. QED
        BY <3>2, <1>d, <1>a, <1>0, <2>2, <4>1, ScribeSame DEF FileDataTypeOK
    <3>3. QED
      BY <3>1, <3>2
  <2>4. \A g \in Files : FileOK(g)'
    BY <1>a, <1>0, <2>2, FileSame
  <2>5. QED
    BY <2>1, <2>2, <2>3, <2>4 DEF FileDataInv
<1>e. (off[p] > size[f] \/ off[p] + Chunk(p) > MAXFILE * BSIZE) \/ (off[p] <= size[f] /\ off[p] + Chunk(p) <= MAXFILE * BSIZE)
  BY <1>0, <1>b, ChunkIs, FileConstants DEF FileDataTypeOK
<1>9. QED
  BY <1>c, <1>d, <1>e DEF StartChunk

(* writei() copies into a block that is there: no hole is written past. *)
LEMMA CopyInStep ==
  ASSUME FileDataInv, NEW p \in Scribes, CopyIn(p)
  PROVE  FileDataInv'
<1> DEFINE n == off[p] \div BSIZE
           m == Min({piece[p], BSIZE - (off[p] % BSIZE)})
<1>0. /\ FileDataTypeOK /\ OwnInv /\ \A q \in Scribes : ScribeOK(q)
      /\ \A g \in Files : FileOK(g)
  BY DEF FileDataInv
<1>z. file[p] \in Files
  BY <1>0 DEF CopyIn, ScribeOK
<1> PICK f \in Files : f = file[p]
  BY <1>z
<1>a. /\ does[p] = "writes" /\ piece[p] > 0 /\ Missing(f, n) = "nothing"
      /\ off' = Put(off, p, off[p] + m) /\ piece' = Put(piece, p, piece[p] - m)
      /\ UNCHANGED <<bitmap, size, addrs, table, locker, does, file, todo, freeing>>
  BY DEF CopyIn, inodeVars
<1>b. /\ f \in Files /\ off[p] \in Nat /\ piece[p] \in Nat /\ off[p] + piece[p] <= MAXFILE * BSIZE
      /\ \A k \in 0 .. MAXFILE - 1 : k * BSIZE < off[p] => Place(f, k) # 0
  BY <1>0, <1>a DEF ScribeOK, FileDataTypeOK
<1>c. off[p] < MAXFILE * BSIZE /\ MAXFILE \in Nat /\ BSIZE \in Nat \ {0}
  BY <1>a, <1>b, FileConstants
<1>d. n \in 0 .. MAXFILE - 1
  BY <1>b, <1>c, BlockInFile
<1>e. (off[p] % BSIZE) \in 0 .. BSIZE - 1
  BY <1>b, <1>c, BlockOf
<1>f. BSIZE - (off[p] % BSIZE) \in Nat
  BY <1>c, <1>e
<1>g. m \in Nat /\ m <= piece[p] /\ m <= BSIZE - (off[p] % BSIZE)
  BY <1>b, <1>f, MinOfTwo
<1>h. Place(f, n) # 0
  BY <1>a, <1>b, <1>d, <1>0, MissingIs
<1>i. ASSUME NEW k \in 0 .. MAXFILE - 1, k * BSIZE < off[p] + m PROVE Place(f, k) # 0
  <2>0. k \in Nat /\ k * BSIZE \in Nat
    BY <1>c
  <2>1. CASE k * BSIZE < off[p]
    BY <2>1, <1>b
  <2>2. CASE off[p] <= k * BSIZE
    <3>1. k = n
      BY <2>2, <2>0, <1>i, <1>b, <1>c, <1>g, OnlyThisBlock
    <3>2. QED
      BY <3>1, <1>h
  <2>3. QED
    BY <2>0, <2>1, <2>2, <1>b
<1> HIDE DEF n, m
<1> USE DEF Put
<1>1. FileDataTypeOK'
  <2>1. off[p] + m \in Nat /\ piece[p] - m \in Nat
    BY <1>b, <1>g
  <2>2. off' \in [Scribes -> Nat] /\ piece' \in [Scribes -> Nat]
    BY <2>1, <1>a, <1>0 DEF FileDataTypeOK
  <2>3. QED
    BY <2>2, <1>a, <1>0 DEF FileDataTypeOK
<1>2. /\ OwnInv' /\ \A g \in Files : Truncated(g)' <=> Truncated(g)
      /\ \A g, k : Place(g, k)' = Place(g, k)
  BY <1>a, <1>0, BlocksStay
<1>3. ASSUME NEW q \in Scribes PROVE ScribeOK(q)'
  <2>1. CASE q = p
    <3>1. off'[p] = off[p] + m /\ piece'[p] = piece[p] - m /\ off'[p] + piece'[p] = off[p] + piece[p]
      BY <1>a, <1>b, <1>g, <1>0 DEF FileDataTypeOK
    <3>2. \A k : Place(file[p], k)' = Place(f, k)
      BY <1>2, <1>a
    <3>3. ScribeOK(p)
      BY <1>0
    <3>4. QED
      BY <3>1, <3>2, <3>3, <2>1, <1>a, <1>b, <1>i DEF ScribeOK
  <2>2. CASE q # p
    BY <2>2, <1>0, <1>a, <1>2, ScribeSame DEF FileDataTypeOK
  <2>3. QED
    BY <2>1, <2>2
<1>4. \A g \in Files : FileOK(g)'
  BY <1>0, <1>a, <1>2, FileSame
<1>5. QED
  BY <1>1, <1>2, <1>3, <1>4 DEF FileDataInv

(* writei() returns: ip->size grows to what has been written. *)
LEMMA EndChunkStep ==
  ASSUME FileDataInv, NEW p \in Scribes, EndChunk(p)
  PROVE  FileDataInv'
<1>0. /\ FileDataTypeOK /\ OwnInv /\ \A q \in Scribes : ScribeOK(q)
      /\ \A g \in Files : FileOK(g)
  BY DEF FileDataInv
<1>z. file[p] \in Files
  BY <1>0 DEF EndChunk, ScribeOK
<1> PICK f \in Files : f = file[p]
  BY <1>z
<1> DEFINE s == Max({size[f], off[p]})
<1>a. /\ does[p] = "writes" /\ size' = Put(size, f, s) /\ locker' = Put(locker, f, NoScribe)
      /\ UNCHANGED <<bitmap, addrs, table, freeing>>
      /\ \/ does' = Put(does, p, "chunk") /\ UNCHANGED <<file, off, todo, piece>>
         \/ Idle(p)
  BY DEF EndChunk
<1>b. /\ f \in Files /\ locker[f] = p /\ off[p] \in Nat /\ size[f] \in Nat
      /\ \A k \in 0 .. MAXFILE - 1 : k * BSIZE < off[p] => Place(f, k) # 0
  BY <1>0, <1>a DEF ScribeOK, FileDataTypeOK
<1>c. s \in Nat /\ (s = size[f] \/ s = off[p])
  BY <1>b, MaxOfTwo
<1> HIDE DEF s
<1>d. ~Truncated(f)
  BY <1>0, <1>a, <1>b DEF Truncated, ScribeOK
<1>e. /\ does' \in [Scribes -> {"user", "chunk", "writes", "truncates"}] /\ does'[p] \in {"user", "chunk"}
      /\ does'[p] = "chunk" => file'[p] = f
      /\ \A q \in Scribes \ {p} : /\ does'[q] = does[q] /\ file'[q] = file[q] /\ off'[q] = off[q]
                                  /\ piece'[q] = piece[q]
  BY <1>a, <1>0 DEF Idle, Put, FileDataTypeOK
<1>1. FileDataTypeOK'
  <2>1. /\ bitmap' \in SUBSET Blocks /\ size' \in [Files -> Nat]
        /\ addrs' \in [Files -> [0 .. NDIRECT -> Blocks \cup {0}]]
        /\ table' \in [Files -> [0 .. NINDIRECT - 1 -> Blocks \cup {0}]]
        /\ locker' \in [Files -> Scribes \cup {NoScribe}] /\ freeing' \in [Scribes -> Nat]
    BY <1>a, <1>c, <1>0 DEF FileDataTypeOK, Put
  <2>2. /\ file' \in [Scribes -> Files \cup {NoFile}]
        /\ off' \in [Scribes -> Nat] /\ todo' \in [Scribes -> Nat] /\ piece' \in [Scribes -> Nat]
    <3>1. CASE Idle(p)
      BY <3>1, <1>0 DEF FileDataTypeOK, Put, Idle
    <3>2. CASE UNCHANGED <<file, off, todo, piece>>
      BY <3>2, <1>0 DEF FileDataTypeOK
    <3>3. QED
      BY <3>1, <3>2, <1>a
  <2>3. QED
    BY <2>1, <2>2, <1>e DEF FileDataTypeOK
<1>2. /\ OwnInv' /\ \A g \in Files : Truncated(g)' <=> Truncated(g)
      /\ \A g, k : Place(g, k)' = Place(g, k)
  <2>1. \A q \in Scribes : (does'[q] = "truncates") <=> (does[q] = "truncates")
    BY <1>a, <1>e
  <2>2. \A q \in Scribes : does[q] = "truncates" => (file'[q] = file[q] /\ freeing'[q] = freeing[q])
    BY <1>a, <1>e
  <2>3. QED
    BY <2>1, <2>2, <1>a, <1>0, BlocksStay
<1>3. ASSUME NEW q \in Scribes PROVE ScribeOK(q)'
  <2>1. CASE q = p
    BY <2>1, <1>e, <1>b DEF ScribeOK
  <2>2. CASE q # p
    <3>1. does[q] \in {"writes", "truncates"} => file[q] # f /\ file[q] \in Files
      BY <2>2, <1>0, <1>a, <1>b DEF ScribeOK
    <3>2. does[q] \in {"writes", "truncates"} => locker'[file[q]] = locker[file[q]]
      BY <3>1, <1>a, <1>0 DEF FileDataTypeOK, Put
    <3>3. QED
      BY <2>2, <1>0, <1>a, <1>e, <1>2, <3>2, ScribeSame
  <2>3. QED
    BY <2>1, <2>2
<1>4. ASSUME NEW g \in Files PROVE FileOK(g)'
  <2>1. CASE g = f
    <3>1. size'[f] = s
      BY <1>a, <1>b, <1>0 DEF FileDataTypeOK, Put
    <3>2. ASSUME NEW k \in 0 .. MAXFILE - 1, k * BSIZE < s PROVE Place(f, k)' # 0
      BY <3>2, <1>c, <1>b, <1>2, <1>d, <1>0 DEF FileOK
    <3>3. addrs'[f][NDIRECT] = 0 => \A k \in 0 .. NINDIRECT - 1 : table'[f][k] = 0
      BY <1>a, <1>b, <1>d, <1>0 DEF FileOK
    <3>4. QED
      BY <2>1, <3>1, <3>2, <3>3 DEF FileOK
  <2>2. CASE g # f
    BY <2>2, <1>0, <1>a, <1>2, FileSame DEF FileDataTypeOK, Put
  <2>3. QED
    BY <2>1, <2>2
<1>5. QED
  BY <1>1, <1>2, <1>3, <1>4 DEF FileDataInv

(* itrunc() starts. *)
LEMMA StartTruncStep ==
  ASSUME FileDataInv, NEW p \in Scribes, NEW f \in Files, StartTrunc(p, f)
  PROVE  FileDataInv'
<1> USE DEF StartTrunc, Put, inodeVars
<1>0. /\ FileDataTypeOK /\ OwnInv /\ \A q \in Scribes : ScribeOK(q)
      /\ \A g \in Files : FileOK(g)
  BY DEF FileDataInv
<1>1. FileDataTypeOK'
  BY <1>0, FileConstants DEF FileDataTypeOK
<1>2. \A g, n : Place(g, n)' = Place(g, n)
  BY DEF Place
<1>3. /\ does[p] = "user" /\ does'[p] = "truncates" /\ file'[p] = f /\ freeing'[p] = 0
      /\ \A q \in Scribes \ {p} : /\ does'[q] = does[q] /\ file'[q] = file[q] /\ off'[q] = off[q]
                                  /\ piece'[q] = piece[q] /\ freeing'[q] = freeing[q]
  BY <1>0 DEF FileDataTypeOK
<1>4. ASSUME NEW g \in Files PROVE Places(g)' = Places(g)
  <2>1. ASSUME NEW n \in 0 .. MAXFILE
        PROVE  (\A q \in Scribes : does'[q] = "truncates" /\ file'[q] = g => n >= freeing'[q])
               <=> (\A q \in Scribes : does[q] = "truncates" /\ file[q] = g => n >= freeing[q])
    BY <1>3, FileConstants
  <2>2. QED
    BY <1>2, <2>1 DEF Places
<1>5. OwnInv'
  BY <1>0, <1>2, <1>4, OwnSame
<1>6. ASSUME NEW q \in Scribes PROVE ScribeOK(q)'
  <2>1. CASE q = p
    <3>1. locker'[f] = p
      BY <1>0 DEF FileDataTypeOK
    <3>2. QED
      BY <2>1, <1>3, <3>1, FileConstants DEF ScribeOK
  <2>2. CASE q # p
    <3>1. does[q] \in {"writes", "truncates"} => file[q] # f /\ file[q] \in Files
      BY <1>0, FileConstants DEF ScribeOK
    <3>2. does[q] \in {"writes", "truncates"} => locker'[file[q]] = locker[file[q]]
      BY <3>1, <1>0 DEF FileDataTypeOK
    <3>3. QED
      BY <2>2, <1>0, <1>2, <1>3, <3>2, ScribeSame
  <2>3. QED
    BY <2>1, <2>2
<1>7. ASSUME NEW g \in Files PROVE FileOK(g)'
  <2>1. Truncated(g) => Truncated(g)'
    BY <1>3 DEF Truncated
  <2>2. QED
    BY <2>1, <1>0, FileSame
<1>8. QED
  BY <1>1, <1>5, <1>6, <1>7 DEF FileDataInv

(* itrunc() is done: the file has no block left. *)
LEMMA EndTruncStep ==
  ASSUME FileDataInv, NEW p \in Scribes, EndTrunc(p)
  PROVE  FileDataInv'
<1>0. /\ FileDataTypeOK /\ OwnInv /\ \A q \in Scribes : ScribeOK(q)
      /\ \A g \in Files : FileOK(g)
  BY DEF FileDataInv
<1>z. file[p] \in Files
  BY <1>0 DEF EndTrunc, ScribeOK
<1> PICK f \in Files : f = file[p]
  BY <1>z
<1>a. /\ does[p] = "truncates" /\ ToFree(p) = {} /\ size' = Put(size, f, 0)
      /\ table' = Put(table, f, [n \in 0 .. NINDIRECT - 1 |-> 0])
      /\ locker' = Put(locker, f, NoScribe) /\ Idle(p) /\ freeing' = Put(freeing, p, 0)
      /\ UNCHANGED <<bitmap, addrs>>
  BY DEF EndTrunc
<1>b. /\ NDIRECT \in Nat /\ NINDIRECT \in Nat /\ MAXFILE = NDIRECT + NINDIRECT /\ MAXFILE \in Nat
      /\ freeing[p] \in Nat
  BY <1>0, FileConstants DEF FileDataTypeOK
<1>1. FileDataTypeOK'
  <2>1. /\ bitmap' \in SUBSET Blocks /\ size' \in [Files -> Nat]
        /\ addrs' \in [Files -> [0 .. NDIRECT -> Blocks \cup {0}]]
        /\ table' \in [Files -> [0 .. NINDIRECT - 1 -> Blocks \cup {0}]]
        /\ locker' \in [Files -> Scribes \cup {NoScribe}] /\ freeing' \in [Scribes -> Nat]
    BY <1>a, <1>0 DEF FileDataTypeOK, Put
  <2>2. /\ does' \in [Scribes -> {"user", "chunk", "writes", "truncates"}] /\ file' \in [Scribes -> Files \cup {NoFile}]
        /\ off' \in [Scribes -> Nat] /\ todo' \in [Scribes -> Nat] /\ piece' \in [Scribes -> Nat]
    BY <1>a, <1>0 DEF FileDataTypeOK, Put, Idle
  <2>3. QED
    BY <2>1, <2>2 DEF FileDataTypeOK
<1>2. /\ does'[p] = "user"
      /\ \A q \in Scribes \ {p} : /\ does'[q] = does[q] /\ file'[q] = file[q] /\ off'[q] = off[q]
                                  /\ piece'[q] = piece[q] /\ freeing'[q] = freeing[q]
  BY <1>a, <1>0 DEF FileDataTypeOK, Put, Idle
<1>3. \A n \in freeing[p] .. MAXFILE : Place(f, n) = 0
  BY <1>a DEF ToFree
<1>4. Places(f) = {}
  BY <1>3, <1>a, <1>b DEF Places
<1>5. \A n \in 0 .. NDIRECT : addrs[f][n] = 0
  <2>1. ASSUME NEW n \in 0 .. NDIRECT - 1 PROVE addrs[f][n] = 0
    <3>1. CASE n < freeing[p]
      BY <3>1, <1>0, <1>a DEF ScribeOK
    <3>2. CASE n >= freeing[p]
      <4>1. n \in freeing[p] .. MAXFILE /\ n \in 0 .. MAXFILE /\ n < NDIRECT
        BY <3>2, <1>b
      <4>2. QED
        BY <4>1, <1>0, <1>3, PlaceIs
    <3>3. QED
      BY <3>1, <3>2, <1>b
  <2>2. addrs[f][NDIRECT] = 0
    <3>1. CASE freeing[p] > MAXFILE
      BY <3>1, <1>0, <1>a DEF ScribeOK
    <3>2. CASE freeing[p] <= MAXFILE
      <4>1. MAXFILE \in freeing[p] .. MAXFILE /\ MAXFILE \in 0 .. MAXFILE /\ ~(MAXFILE < NDIRECT)
        BY <3>2, <1>b
      <4>2. QED
        BY <4>1, <1>0, <1>3, PlaceIs
    <3>3. QED
      BY <3>1, <3>2, <1>b
  <2>3. QED
    BY <2>1, <2>2, <1>b
<1>6. ASSUME NEW n \in 0 .. MAXFILE PROVE Place(f, n)' = 0
  <2>1. Place(f, n)' = IF n < NDIRECT THEN addrs'[f][n]
                       ELSE IF n = MAXFILE THEN addrs'[f][NDIRECT]
                       ELSE IF addrs'[f][NDIRECT] = 0 THEN 0 ELSE table'[f][n - NDIRECT]
    BY <1>1, PlaceWillBe
  <2>2. addrs'[f] = addrs[f] /\ \A k \in 0 .. NDIRECT : addrs'[f][k] = 0
    BY <1>a, <1>5
  <2>3. QED
    BY <2>1, <2>2, <1>b
<1>7. Places(f)' = {}
  BY <1>6 DEF Places
<1>8. ASSUME NEW g \in Files, g # f PROVE Places(g)' = Places(g) /\ \A n : Place(g, n)' = Place(g, n)
  <2>1. table'[g] = table[g] /\ addrs'[g] = addrs[g]
    BY <1>8, <1>a, <1>0 DEF FileDataTypeOK, Put
  <2>2. \A n : Place(g, n)' = Place(g, n)
    BY <2>1 DEF Place
  <2>3. ASSUME NEW n \in 0 .. MAXFILE
        PROVE  (\A q \in Scribes : does'[q] = "truncates" /\ file'[q] = g => n >= freeing'[q])
               <=> (\A q \in Scribes : does[q] = "truncates" /\ file[q] = g => n >= freeing[q])
    BY <1>2, <1>8
  <2>4. QED
    BY <2>2, <2>3 DEF Places
<1>9. OwnInv'
  <2>1. \A g \in Files : Places(g)' = Places(g)
    BY <1>4, <1>7, <1>8
  <2>2. \A g \in Files : \A n \in Places(g) : Place(g, n)' = Place(g, n)
    BY <1>4, <1>8
  <2>3. QED
    BY <2>1, <2>2, <1>a, <1>0, OwnSame
<1>10. ASSUME NEW q \in Scribes PROVE ScribeOK(q)'
  <2>1. CASE q = p
    BY <2>1, <1>2 DEF ScribeOK
  <2>2. CASE q # p
    <3>0. locker[f] = p
      BY <1>0, <1>a DEF ScribeOK
    <3>1. does[q] \in {"writes", "truncates"} => file[q] # f /\ file[q] \in Files
      BY <2>2, <3>0, <1>0, <1>a DEF ScribeOK
    <3>2. does[q] \in {"writes", "truncates"} => locker'[file[q]] = locker[file[q]]
      BY <3>1, <1>a, <1>0 DEF FileDataTypeOK, Put
    <3>3. does[q] \in {"writes", "truncates"} => \A n : Place(file[q], n)' = Place(file[q], n)
      BY <3>1, <1>8, <1>2, <2>2
    <3>4. QED
      BY <2>2, <1>0, <1>a, <1>2, <3>2, <3>3, ScribeSame
  <2>3. QED
    BY <2>1, <2>2
<1>11. ASSUME NEW g \in Files PROVE FileOK(g)'
  <2>1. CASE g = f
    <3>1. size'[f] = 0 /\ table'[f] = [n \in 0 .. NINDIRECT - 1 |-> 0]
      BY <1>a, <1>0 DEF FileDataTypeOK, Put
    <3>2. \A n \in 0 .. MAXFILE - 1 : ~(n * BSIZE < size'[f])
      BY <3>1, FileConstants
    <3>3. QED
      BY <2>1, <3>1, <3>2 DEF FileOK
  <2>2. CASE g # f
    <3>1. Truncated(g) => Truncated(g)'
      BY <2>2, <1>2 DEF Truncated
    <3>2. size'[g] = size[g] /\ addrs'[g] = addrs[g] /\ table'[g] = table[g]
      BY <2>2, <1>a, <1>0 DEF FileDataTypeOK, Put
    <3>3. QED
      BY <3>1, <3>2, <1>0, FileSame
  <2>3. QED
    BY <2>1, <2>2
<1>12. QED
  BY <1>1, <1>9, <1>10, <1>11 DEF FileDataInv

(* A block more in a place of file f *)
LEMMA PlaceAdded ==
  ASSUME OwnInv, NEW f \in Files, NEW t, t \notin Places(f), Places(f)' = Places(f) \cup {t},
         Place(f, t)' \notin bitmap, bitmap' = bitmap \cup {Place(f, t)'},
         \A n \in Places(f) : Place(f, n)' = Place(f, n),
         \A g \in Files \ {f} : Places(g)' = Places(g),
         \A g \in Files \ {f} : \A n \in Places(g) : Place(g, n)' = Place(g, n)
  PROVE  OwnInv'
<1>1. \A g \in Files : \A n \in Places(g)' : (n \in Places(g) /\ Place(g, n)' = Place(g, n)) \/ (g = f /\ n = t)
  OBVIOUS
<1>2. \A g \in Files : \A n \in Places(g) : Place(g, n) \in bitmap
  BY DEF OwnInv
<1>3. \A g \in Files : \A n \in Places(g)' : Place(g, n)' \in bitmap'
  BY <1>1, <1>2
<1>4. ASSUME NEW b \in bitmap' PROVE \E g \in Files : \E n \in Places(g)' : Place(g, n)' = b
  <2>1. CASE b \in bitmap
    <3>1. PICK g \in Files : \E n \in Places(g) : Place(g, n) = b
      BY <2>1 DEF OwnInv
    <3>2. PICK n \in Places(g) : Place(g, n) = b
      BY <3>1
    <3>3. n \in Places(g)' /\ Place(g, n)' = b
      BY <3>2
    <3>4. QED
      BY <3>3
  <2>2. CASE b = Place(f, t)'
    BY <2>2
  <2>3. QED
    BY <2>1, <2>2
<1>5. ASSUME NEW g \in Files, NEW h \in Files, NEW n \in Places(g)', NEW m \in Places(h)',
             Place(g, n)' = Place(h, m)'
      PROVE  g = h /\ n = m
  <2>1. CASE g = f /\ n = t /\ h = f /\ m = t
    BY <2>1
  <2>2. CASE g = f /\ n = t /\ m \in Places(h) /\ Place(h, m)' = Place(h, m)
    BY <2>2, <1>2, <1>5
  <2>3. CASE h = f /\ m = t /\ n \in Places(g) /\ Place(g, n)' = Place(g, n)
    BY <2>3, <1>2, <1>5
  <2>4. CASE m \in Places(h) /\ Place(h, m)' = Place(h, m) /\ n \in Places(g) /\ Place(g, n)' = Place(g, n)
    BY <2>4, <1>5 DEF OwnInv
  <2>5. QED
    BY <1>1, <2>1, <2>2, <2>3, <2>4
<1>6. QED
  BY <1>3, <1>4, <1>5 DEF OwnInv

(* A block less *)
LEMMA PlaceRemoved ==
  ASSUME OwnInv, NEW f \in Files, NEW t \in Places(f), Places(f)' = Places(f) \ {t},
         bitmap' = bitmap \ {Place(f, t)},
         \A n \in Places(f)' : Place(f, n)' = Place(f, n),
         \A g \in Files \ {f} : Places(g)' = Places(g),
         \A g \in Files \ {f} : \A n \in Places(g) : Place(g, n)' = Place(g, n)
  PROVE  OwnInv'
<1>1. \A g \in Files : \A n \in Places(g)' : n \in Places(g) /\ Place(g, n)' = Place(g, n) /\ ~(g = f /\ n = t)
  OBVIOUS
<1>2. \A g, h \in Files : \A n \in Places(g) : \A m \in Places(h) : Place(g, n) = Place(h, m) => g = h /\ n = m
  BY DEF OwnInv
<1>3. ASSUME NEW g \in Files, NEW n \in Places(g)' PROVE Place(g, n)' \in bitmap'
  <2>1. Place(g, n) \in bitmap
    BY <1>1 DEF OwnInv
  <2>2. Place(g, n) # Place(f, t)
    BY <1>1, <1>2
  <2>3. QED
    BY <2>1, <2>2, <1>1
<1>4. ASSUME NEW b \in bitmap' PROVE \E g \in Files : \E n \in Places(g)' : Place(g, n)' = b
  <2>1. PICK g \in Files : \E n \in Places(g) : Place(g, n) = b
    BY DEF OwnInv
  <2>2. PICK n \in Places(g) : Place(g, n) = b
    BY <2>1
  <2>3. ~(g = f /\ n = t)
    BY <2>2
  <2>4. n \in Places(g)' /\ Place(g, n)' = b
    BY <2>2, <2>3
  <2>5. QED
    BY <2>4
<1>5. \A g, h \in Files : \A n \in Places(g)' : \A m \in Places(h)' : Place(g, n)' = Place(h, m)' => g = h /\ n = m
  BY <1>1, <1>2
<1>6. QED
  BY <1>3, <1>4, <1>5 DEF OwnInv

(* itrunc() frees a block: it was the only place of it. *)
LEMMA BfreeStep ==
  ASSUME FileDataInv, NEW p \in Scribes, Bfree(p)
  PROVE  FileDataInv'
<1>0. /\ FileDataTypeOK /\ OwnInv /\ \A q \in Scribes : ScribeOK(q)
      /\ \A g \in Files : FileOK(g)
  BY DEF FileDataInv
<1>z. file[p] \in Files
  BY <1>0 DEF Bfree, ScribeOK
<1> PICK f \in Files : f = file[p]
  BY <1>z
<1>y. ToFree(p) \subseteq Nat /\ ToFree(p) # {} /\ freeing[p] \in Nat
  BY <1>0, FileConstants DEF Bfree, ToFree, FileDataTypeOK
<1>x. Min(ToFree(p)) \in ToFree(p) /\ \A k \in ToFree(p) : Min(ToFree(p)) <= k
  BY <1>y, LeastIs
<1> PICK n \in ToFree(p) : n = Min(ToFree(p)) /\ \A k \in ToFree(p) : n <= k
  BY <1>x
<1>a. /\ does[p] = "truncates" /\ bitmap' = bitmap \ {Place(f, n)}
      /\ addrs' = Cleared(f, n) /\ freeing' = Put(freeing, p, n + 1)
      /\ UNCHANGED <<size, table, locker, does, file, off, todo, piece>>
  BY DEF Bfree
<1>b. /\ NDIRECT \in Nat /\ NINDIRECT \in Nat /\ MAXFILE = NDIRECT + NINDIRECT /\ MAXFILE \in Nat
      /\ freeing[p] \in Nat
  BY <1>y, FileConstants
<1>c. n \in 0 .. MAXFILE /\ freeing[p] <= n /\ Place(f, n) # 0
  BY <1>b DEF ToFree
<1>d. \A k \in 0 .. MAXFILE : freeing[p] <= k /\ k < n => Place(f, k) = 0
  BY <1>b, <1>c DEF ToFree
<1>e. \A k \in 0 .. MAXFILE : freeing[p] <= k /\ Place(f, k) # 0 => n <= k
  BY <1>b, <1>c DEF ToFree
<1>f. /\ addrs' \in [Files -> [0 .. NDIRECT -> Blocks \cup {0}]]
      /\ \A g \in Files \ {f} : addrs'[g] = addrs[g]
      /\ n < NDIRECT => addrs'[f][n] = 0 /\ \A k \in 0 .. NDIRECT : k # n => addrs'[f][k] = addrs[f][k]
      /\ n = MAXFILE => addrs'[f][NDIRECT] = 0 /\ \A k \in 0 .. NDIRECT : k # NDIRECT => addrs'[f][k] = addrs[f][k]
      /\ ~(n < NDIRECT) /\ n # MAXFILE => addrs'[f] = addrs[f]
  <2>1. addrs \in [Files -> [0 .. NDIRECT -> Blocks \cup {0}]] /\ addrs[f] \in [0 .. NDIRECT -> Blocks \cup {0}]
    BY <1>0 DEF FileDataTypeOK
  <2>2. CASE n < NDIRECT
    <3>1. addrs' = [addrs EXCEPT ![f][n] = 0] /\ n \in 0 .. NDIRECT /\ n # MAXFILE
      BY <1>a, <1>b, <1>c, <2>2 DEF Cleared
    <3>2. QED
      BY <2>1, <2>2, <3>1
  <2>3. CASE n = MAXFILE
    <3>1. addrs' = [addrs EXCEPT ![f][NDIRECT] = 0] /\ NDIRECT \in 0 .. NDIRECT /\ ~(n < NDIRECT)
      BY <1>a, <1>b, <1>c, <2>3 DEF Cleared
    <3>2. QED
      BY <2>1, <2>3, <3>1
  <2>4. CASE ~(n < NDIRECT) /\ n # MAXFILE
    <3>1. addrs' = addrs
      BY <1>a, <2>4 DEF Cleared
    <3>2. QED
      BY <2>1, <2>4, <3>1
  <2>5. QED
    BY <2>2, <2>3, <2>4
<1>1. FileDataTypeOK'
  <2>1. freeing' \in [Scribes -> Nat]
    BY <1>0, <1>a, <1>b, <1>c DEF FileDataTypeOK, Put
  <2>2. QED
    BY <2>1, <1>f, <1>0, <1>a DEF FileDataTypeOK
<1>2. ASSUME NEW k \in 0 .. MAXFILE, k > n PROVE Place(f, k)' = Place(f, k)
  <2>1. Place(f, k)' = IF k < NDIRECT THEN addrs'[f][k]
                       ELSE IF k = MAXFILE THEN addrs'[f][NDIRECT]
                       ELSE IF addrs'[f][NDIRECT] = 0 THEN 0 ELSE table'[f][k - NDIRECT]
    BY <1>1, PlaceWillBe
  <2>2. Place(f, k) = IF k < NDIRECT THEN addrs[f][k]
                       ELSE IF k = MAXFILE THEN addrs[f][NDIRECT]
                       ELSE IF addrs[f][NDIRECT] = 0 THEN 0 ELSE table[f][k - NDIRECT]
    BY <1>0, PlaceIs
  <2>3. CASE n < NDIRECT
    <3>1. k # n /\ NDIRECT # n /\ NDIRECT \in 0 .. NDIRECT
      BY <1>2, <2>3, <1>b, <1>c
    <3>2. addrs'[f][NDIRECT] = addrs[f][NDIRECT] /\ (k < NDIRECT => addrs'[f][k] = addrs[f][k])
      BY <3>1, <2>3, <1>f, <1>b
    <3>3. QED
      BY <3>2, <2>1, <2>2, <1>a
  <2>4. CASE ~(n < NDIRECT) /\ n # MAXFILE
    BY <2>4, <2>1, <2>2, <1>f, <1>a
  <2>5. CASE n = MAXFILE
    BY <2>5, <1>2, <1>b, <1>c
  <2>6. QED
    BY <2>3, <2>4, <2>5
<1>3. freeing'[p] = n + 1 /\ \A q \in Scribes \ {p} : freeing'[q] = freeing[q]
  BY <1>0, <1>a DEF FileDataTypeOK, Put
<1>4. \A q \in Scribes : does[q] \in {"writes", "truncates"} /\ file[q] = f => q = p
  BY <1>0, <1>a, OneScribe
<1>5. Places(f) = {k \in 0 .. MAXFILE : Place(f, k) # 0 /\ k >= freeing[p]}
  BY <1>4, <1>a DEF Places
<1>6. Places(f)' = {k \in 0 .. MAXFILE : Place(f, k)' # 0 /\ k >= n + 1}
  BY <1>3, <1>4, <1>a DEF Places
<1>7. n \in Places(f) /\ Places(f)' = Places(f) \ {n}
  <2>1. n \in Places(f)
    BY <1>5, <1>c
  <2>2. ASSUME NEW k \in Places(f)' PROVE k \in Places(f) \ {n}
    <3>1. k \in 0 .. MAXFILE /\ k > n /\ k >= freeing[p]
      BY <1>6, <1>b, <1>c
    <3>2. Place(f, k) # 0
      BY <3>1, <1>2, <1>6
    <3>3. QED
      BY <3>1, <3>2, <1>5, <1>b, <1>c
  <2>3. ASSUME NEW k \in Places(f), k # n PROVE k \in Places(f)'
    <3>1. k \in 0 .. MAXFILE /\ k >= freeing[p] /\ Place(f, k) # 0
      BY <1>5
    <3>2. n <= k
      BY <3>1, <1>e
    <3>3. k > n /\ k >= n + 1
      BY <3>1, <3>2, <2>3, <1>c
    <3>4. QED
      BY <3>1, <3>3, <1>2, <1>6
  <2>4. QED
    BY <2>1, <2>2, <2>3
<1>8. ASSUME NEW g \in Files, g # f PROVE Places(g)' = Places(g) /\ \A k : Place(g, k)' = Place(g, k)
  <2>1. table'[g] = table[g] /\ addrs'[g] = addrs[g]
    BY <1>8, <1>a, <1>f
  <2>2. \A k : Place(g, k)' = Place(g, k)
    BY <2>1 DEF Place
  <2>3. ASSUME NEW k \in 0 .. MAXFILE
        PROVE  (\A q \in Scribes : does'[q] = "truncates" /\ file'[q] = g => k >= freeing'[q])
               <=> (\A q \in Scribes : does[q] = "truncates" /\ file[q] = g => k >= freeing[q])
    BY <1>3, <1>a, <1>8
  <2>4. QED
    BY <2>2, <2>3 DEF Places
<1>9. OwnInv'
  <2>1. \A k \in Places(f)' : Place(f, k)' = Place(f, k)
    BY <1>2, <1>6, <1>c
  <2>2. QED
    BY <2>1, <1>7, <1>8, <1>a, <1>0, PlaceRemoved
<1>10. ASSUME NEW q \in Scribes PROVE ScribeOK(q)'
  <2>1. CASE q = p
    <3>1. locker'[f] = p /\ n + 1 <= MAXFILE + 1
      BY <1>0, <1>a, <1>b, <1>c DEF ScribeOK
    <3>2. ASSUME NEW k \in 0 .. NDIRECT - 1, k < n + 1 PROVE addrs'[f][k] = 0
      <4>0. k \in 0 .. MAXFILE /\ k \in 0 .. NDIRECT /\ k < NDIRECT /\ k # NDIRECT /\ k <= n
        BY <3>2, <1>b, <1>c
      <4>1. CASE k = n
        BY <4>0, <4>1, <1>f
      <4>2. CASE k # n
        <5>1. addrs[f][k] = 0
          <6>1. CASE k < freeing[p]
            BY <6>1, <1>0, <1>a DEF ScribeOK
          <6>2. CASE freeing[p] <= k
            <7>1. Place(f, k) = 0
              BY <6>2, <4>0, <4>2, <1>d, <1>c
            <7>2. QED
              BY <7>1, <4>0, <1>0, PlaceIs
          <6>3. QED
            BY <6>1, <6>2, <1>b
        <5>2. addrs'[f][k] = addrs[f][k]
          BY <4>0, <4>2, <1>f
        <5>3. QED
          BY <5>1, <5>2
      <4>3. QED
        BY <4>1, <4>2
    <3>3. n + 1 > MAXFILE => addrs'[f][NDIRECT] = 0
      <4>1. n + 1 > MAXFILE => n = MAXFILE
        BY <1>b, <1>c
      <4>2. QED
        BY <4>1, <1>f
    <3>4. QED
      BY <2>1, <1>a, <1>3, <3>1, <3>2, <3>3 DEF ScribeOK
  <2>2. CASE q # p
    <3>1. does[q] \in {"writes", "truncates"} => file[q] # f /\ file[q] \in Files
      BY <2>2, <1>4, <1>0 DEF ScribeOK
    <3>2. does[q] \in {"writes", "truncates"} => /\ addrs'[file[q]] = addrs[file[q]]
                                                 /\ \A k : Place(file[q], k)' = Place(file[q], k)
      BY <3>1, <1>8, <1>f, <1>a
    <3>4. QED
      BY <2>2, <1>0, <1>a, <1>3, <3>2, ScribeSame
  <2>3. QED
    BY <2>1, <2>2
<1>11. ASSUME NEW g \in Files PROVE FileOK(g)'
  <2>1. Truncated(g)' <=> Truncated(g)
    BY <1>a DEF Truncated
  <2>2. CASE g = f
    BY <2>1, <2>2, <1>a DEF FileOK, Truncated
  <2>3. CASE g # f
    BY <2>1, <2>3, <1>a, <1>f, <1>0, FileSame
  <2>4. QED
    BY <2>2, <2>3
<1>12. QED
  BY <1>1, <1>9, <1>10, <1>11 DEF FileDataInv

(* An entry of a table is changed. *)
LEMMA EntryPut ==
  ASSUME NEW S, NEW I, NEW V, NEW A \in [S -> [I -> V]], NEW f \in S, NEW k \in I, NEW v \in V
  PROVE  /\ [A EXCEPT ![f][k] = v] \in [S -> [I -> V]] /\ [A EXCEPT ![f][k] = v][f][k] = v
         /\ \A n \in I : n # k => [A EXCEPT ![f][k] = v][f][n] = A[f][n]
         /\ \A g \in S : g # f => [A EXCEPT ![f][k] = v][g] = A[g]
<1>1. A[f] \in [I -> V]
  OBVIOUS
<1>2. QED
  BY <1>1

(* bmap() takes a block that is free: no place has it. *)
LEMMA BmapStep ==
  ASSUME FileDataInv, NEW p \in Scribes, Bmap(p)
  PROVE  FileDataInv'
<1>0. /\ FileDataTypeOK /\ OwnInv /\ \A q \in Scribes : ScribeOK(q)
      /\ \A g \in Files : FileOK(g)
  BY DEF FileDataInv
<1>z. file[p] \in Files
  BY <1>0 DEF Bmap, ScribeOK
<1> PICK f \in Files : f = file[p]
  BY <1>z
<1>y. /\ does[p] = "writes" /\ piece[p] > 0 /\ off[p] \in Nat /\ piece[p] \in Nat
      /\ off[p] + piece[p] <= MAXFILE * BSIZE
      /\ \A k \in 0 .. MAXFILE - 1 : k * BSIZE < off[p] => Place(f, k) # 0
  BY <1>0 DEF Bmap, ScribeOK, FileDataTypeOK
<1>b. /\ NDIRECT \in Nat /\ NINDIRECT \in Nat /\ MAXFILE = NDIRECT + NINDIRECT /\ MAXFILE \in Nat
      /\ BSIZE \in Nat \ {0} /\ MAXFILE * BSIZE \in Nat
  BY FileConstants
<1>x. off[p] < MAXFILE * BSIZE
  BY <1>y, <1>b
<1>w. off[p] \div BSIZE \in 0 .. MAXFILE - 1
  BY <1>y, <1>b, <1>x, BlockInFile
<1> PICK n \in 0 .. MAXFILE - 1 : n = off[p] \div BSIZE
  BY <1>w
<1>v. Blocks \ bitmap \subseteq Nat /\ Blocks \ bitmap # {}
  BY FileConstants DEF Bmap
<1>u. Min(Blocks \ bitmap) \in Blocks \ bitmap
  BY <1>v, LeastIs
<1> PICK b \in Blocks \ bitmap : b = Min(Blocks \ bitmap)
  BY <1>u
<1>t. b # 0
  BY FileConstants
<1>a. /\ Missing(f, n) # "nothing" /\ bitmap' = bitmap \cup {b}
      /\ addrs' = CASE Missing(f, n) = "direct" -> [addrs EXCEPT ![f][n] = b]
                    [] Missing(f, n) = "indirect" -> [addrs EXCEPT ![f][NDIRECT] = b]
                    [] Missing(f, n) = "entry" -> addrs
      /\ table' = IF Missing(f, n) = "entry" THEN [table EXCEPT ![f][n - NDIRECT] = b] ELSE table
      /\ UNCHANGED <<size, locker, does, file, off, todo, piece, freeing>>
  BY DEF Bmap
<1>c. \A q \in Scribes : does[q] \in {"writes", "truncates"} /\ file[q] = f => q = p
  BY <1>0, <1>y, OneScribe
<1>d. ~Truncated(f) /\ ~Truncated(f)'
  BY <1>c, <1>y, <1>a DEF Truncated
<1>e. addrs[f][NDIRECT] = 0 => \A k \in 0 .. NINDIRECT - 1 : table[f][k] = 0
  BY <1>d, <1>0 DEF FileOK
<1>ty. /\ addrs \in [Files -> [0 .. NDIRECT -> Blocks \cup {0}]] /\ addrs[f] \in [0 .. NDIRECT -> Blocks \cup {0}]
       /\ table \in [Files -> [0 .. NINDIRECT - 1 -> Blocks \cup {0}]]
       /\ table[f] \in [0 .. NINDIRECT - 1 -> Blocks \cup {0}]
  BY <1>0 DEF FileDataTypeOK
<1>f. \/ n < NDIRECT /\ addrs[f][n] = 0 /\ addrs' = [addrs EXCEPT ![f][n] = b] /\ table' = table
      \/ n >= NDIRECT /\ addrs[f][NDIRECT] = 0 /\ addrs' = [addrs EXCEPT ![f][NDIRECT] = b] /\ table' = table
      \/ /\ n >= NDIRECT /\ addrs[f][NDIRECT] # 0 /\ table[f][n - NDIRECT] = 0 /\ addrs' = addrs
         /\ table' = [table EXCEPT ![f][n - NDIRECT] = b]
  <2>1. CASE n < NDIRECT
    <3>1. Missing(f, n) = "direct" /\ addrs[f][n] = 0
      BY <2>1, <1>a, <1>b DEF Missing
    <3>2. QED
      BY <2>1, <3>1, <1>a
  <2>2. CASE n >= NDIRECT /\ addrs[f][NDIRECT] = 0
    <3>1. Missing(f, n) = "indirect"
      BY <2>2, <1>b DEF Missing
    <3>2. QED
      BY <2>2, <3>1, <1>a
  <2>3. CASE n >= NDIRECT /\ addrs[f][NDIRECT] # 0
    <3>1. Missing(f, n) = "entry" /\ table[f][n - NDIRECT] = 0
      BY <2>3, <1>a, <1>b DEF Missing
    <3>2. QED
      BY <2>3, <3>1, <1>a
  <2>4. QED
    BY <2>1, <2>2, <2>3, <1>b
<1>g. \A g \in Files \ {f} : addrs'[g] = addrs[g] /\ table'[g] = table[g]
  BY <1>f, <1>ty
<1>1. FileDataTypeOK'
  <2>0. b \in Blocks \cup {0} /\ NDIRECT \in 0 .. NDIRECT
    BY <1>b
  <2>1. addrs' \in [Files -> [0 .. NDIRECT -> Blocks \cup {0}]]
    <3>1. CASE n < NDIRECT /\ addrs' = [addrs EXCEPT ![f][n] = b]
      <4>1. n \in 0 .. NDIRECT
        BY <3>1, <1>b
      <4>2. QED
        BY <3>1, <4>1, <2>0, <1>ty, EntryPut
    <3>2. CASE addrs' = [addrs EXCEPT ![f][NDIRECT] = b]
      BY <3>2, <2>0, <1>ty, EntryPut
    <3>3. QED
      BY <3>1, <3>2, <1>f, <1>ty
  <2>2. table' \in [Files -> [0 .. NINDIRECT - 1 -> Blocks \cup {0}]]
    <3>1. CASE n >= NDIRECT /\ table' = [table EXCEPT ![f][n - NDIRECT] = b]
      <4>1. n - NDIRECT \in 0 .. NINDIRECT - 1
        BY <3>1, <1>b
      <4>2. QED
        BY <3>1, <4>1, <2>0, <1>ty, EntryPut
    <3>2. QED
      BY <3>1, <1>f, <1>ty
  <2>3. QED
    BY <2>1, <2>2, <1>0, <1>a DEF FileDataTypeOK
<1>2. /\ addrs'[f][NDIRECT] = 0 => \A k \in 0 .. NINDIRECT - 1 : table'[f][k] = 0
      /\ \E t \in 0 .. MAXFILE :
           /\ Place(f, t) = 0 /\ Place(f, t)' = b
           /\ \A k \in 0 .. MAXFILE : k # t => Place(f, k)' = Place(f, k)
  <2>1. \A k \in 0 .. MAXFILE : Place(f, k)' =
                       IF k < NDIRECT THEN addrs'[f][k]
                       ELSE IF k = MAXFILE THEN addrs'[f][NDIRECT]
                       ELSE IF addrs'[f][NDIRECT] = 0 THEN 0 ELSE table'[f][k - NDIRECT]
    BY <1>1, PlaceWillBe
  <2>2. \A k \in 0 .. MAXFILE : Place(f, k) =
                       IF k < NDIRECT THEN addrs[f][k]
                       ELSE IF k = MAXFILE THEN addrs[f][NDIRECT]
                       ELSE IF addrs[f][NDIRECT] = 0 THEN 0 ELSE table[f][k - NDIRECT]
    BY <1>0, PlaceIs
  <2>3. CASE n < NDIRECT /\ addrs[f][n] = 0 /\ addrs' = [addrs EXCEPT ![f][n] = b] /\ table' = table
    <3>1. /\ addrs'[f][n] = b /\ \A k \in 0 .. NDIRECT : k # n => addrs'[f][k] = addrs[f][k]
          /\ NDIRECT # n /\ NDIRECT \in 0 .. NDIRECT /\ n \in 0 .. MAXFILE
      BY <2>3, <1>ty, <1>b
    <3>2. addrs'[f][NDIRECT] = addrs[f][NDIRECT]
      BY <3>1
    <3>3. Place(f, n) = 0 /\ Place(f, n)' = b
      BY <3>1, <2>1, <2>2, <2>3
    <3>4. ASSUME NEW k \in 0 .. MAXFILE, k # n PROVE Place(f, k)' = Place(f, k)
      <4>1. CASE k < NDIRECT
        <5>1. addrs'[f][k] = addrs[f][k]
          BY <4>1, <3>1, <3>4, <1>b
        <5>2. QED
          BY <4>1, <5>1, <2>1, <2>2
      <4>2. CASE ~(k < NDIRECT)
        <5>1. table'[f] = table[f]
          BY <2>3
        <5>2. QED
          BY <4>2, <5>1, <3>2, <2>1, <2>2
      <4>3. QED
        BY <4>1, <4>2
    <3>5. QED
      BY <3>1, <3>2, <3>3, <3>4, <2>3, <1>e
  <2>4. CASE n >= NDIRECT /\ addrs[f][NDIRECT] = 0 /\ addrs' = [addrs EXCEPT ![f][NDIRECT] = b] /\ table' = table
    <3>1. /\ addrs'[f][NDIRECT] = b /\ \A k \in 0 .. NDIRECT : k # NDIRECT => addrs'[f][k] = addrs[f][k]
          /\ MAXFILE \in 0 .. MAXFILE /\ ~(MAXFILE < NDIRECT)
      BY <2>4, <1>ty, <1>b
    <3>2. Place(f, MAXFILE) = 0 /\ Place(f, MAXFILE)' = b
      BY <3>1, <2>1, <2>2, <2>4
    <3>3. ASSUME NEW k \in 0 .. MAXFILE, k # MAXFILE PROVE Place(f, k)' = Place(f, k)
      <4>1. CASE k < NDIRECT
        <5>1. addrs'[f][k] = addrs[f][k]
          BY <4>1, <3>1, <1>b
        <5>2. QED
          BY <4>1, <5>1, <2>1, <2>2
      <4>2. CASE ~(k < NDIRECT)
        <5>1. k - NDIRECT \in 0 .. NINDIRECT - 1
          BY <4>2, <3>3, <1>b
        <5>2. table[f][k - NDIRECT] = 0
          BY <5>1, <1>e, <2>4
        <5>3. QED
          BY <4>2, <3>3, <5>2, <2>1, <2>2, <2>4
      <4>3. QED
        BY <4>1, <4>2
    <3>4. QED
      BY <3>1, <3>2, <3>3, <1>t
  <2>5. CASE /\ n >= NDIRECT /\ addrs[f][NDIRECT] # 0 /\ table[f][n - NDIRECT] = 0 /\ addrs' = addrs
             /\ table' = [table EXCEPT ![f][n - NDIRECT] = b]
    <3>1. /\ table'[f][n - NDIRECT] = b
          /\ \A k \in 0 .. NINDIRECT - 1 : k # n - NDIRECT => table'[f][k] = table[f][k]
          /\ n \in 0 .. MAXFILE /\ ~(n < NDIRECT) /\ n # MAXFILE
      <4>1. n - NDIRECT \in 0 .. NINDIRECT - 1 /\ n \in 0 .. MAXFILE /\ ~(n < NDIRECT) /\ n # MAXFILE
        BY <2>5, <1>b
      <4>2. b \in Blocks \cup {0}
        OBVIOUS
      <4>3. PICK j \in 0 .. NINDIRECT - 1 : j = n - NDIRECT
        BY <4>1
      <4>4. table' = [table EXCEPT ![f][j] = b]
        BY <2>5, <4>3
      <4>5. table'[f][j] = b /\ \A k \in 0 .. NINDIRECT - 1 : k # j => table'[f][k] = table[f][k]
        <5>1. table \in [Files -> [0 .. NINDIRECT - 1 -> Blocks \cup {0}]]
          BY <1>ty
        <5>2. /\ [table EXCEPT ![f][j] = b][f][j] = b
              /\ \A k \in 0 .. NINDIRECT - 1 : k # j => [table EXCEPT ![f][j] = b][f][k] = table[f][k]
          BY <5>1, <1>ty
        <5>3. QED
          BY <5>2, <4>4
      <4>6. QED
        BY <4>1, <4>3, <4>5
    <3>2. Place(f, n) = 0 /\ Place(f, n)' = b
      BY <3>1, <2>1, <2>2, <2>5
    <3>3. ASSUME NEW k \in 0 .. MAXFILE, k # n PROVE Place(f, k)' = Place(f, k)
      <4>1. CASE k < NDIRECT \/ k = MAXFILE
        BY <4>1, <2>1, <2>2, <2>5
      <4>2. CASE ~(k < NDIRECT) /\ k # MAXFILE
        <5>1. k - NDIRECT \in 0 .. NINDIRECT - 1 /\ k - NDIRECT # n - NDIRECT
          BY <4>2, <3>3, <1>b
        <5>2. table'[f][k - NDIRECT] = table[f][k - NDIRECT]
          BY <5>1, <3>1
        <5>3. QED
          BY <4>2, <5>2, <2>1, <2>2, <2>5
      <4>3. QED
        BY <4>1, <4>2
    <3>4. QED
      BY <3>1, <3>2, <3>3, <2>5
  <2>6. QED
    BY <2>3, <2>4, <2>5, <1>f
<1> PICK t \in 0 .. MAXFILE :
           /\ Place(f, t) = 0 /\ Place(f, t)' = b
           /\ \A k \in 0 .. MAXFILE : k # t => Place(f, k)' = Place(f, k)
  BY <1>2
<1>3. \A k \in 0 .. MAXFILE : Place(f, k) # 0 => Place(f, k)' # 0
  BY <1>t
<1>4. Places(f) = {k \in 0 .. MAXFILE : Place(f, k) # 0}
  BY <1>c, <1>y DEF Places
<1>5. Places(f)' = {k \in 0 .. MAXFILE : Place(f, k)' # 0}
  BY <1>c, <1>y, <1>a DEF Places
<1>6. t \notin Places(f) /\ Places(f)' = Places(f) \cup {t}
  BY <1>4, <1>5, <1>t
<1>7. \A k \in Places(f) : Place(f, k)' = Place(f, k)
  BY <1>4
<1>8. ASSUME NEW g \in Files, g # f PROVE Places(g)' = Places(g) /\ \A k : Place(g, k)' = Place(g, k)
  <2>1. table'[g] = table[g] /\ addrs'[g] = addrs[g]
    BY <1>8, <1>g
  <2>2. \A k : Place(g, k)' = Place(g, k)
    BY <2>1 DEF Place
  <2>3. QED
    BY <2>2, <1>a DEF Places
<1>9. OwnInv'
  <2>1. Place(f, t)' \notin bitmap /\ bitmap' = bitmap \cup {Place(f, t)'}
    BY <1>a
  <2>2. QED
    BY <2>1, <1>6, <1>7, <1>8, <1>0, PlaceAdded
<1>10. ASSUME NEW q \in Scribes PROVE ScribeOK(q)'
  <2>1. CASE q = p
    <3>1. \A k \in 0 .. MAXFILE - 1 : k * BSIZE < off[p] => Place(f, k)' # 0
      BY <1>3, <1>y, <1>b
    <3>2. ScribeOK(p)
      BY <1>0
    <3>3. QED
      BY <2>1, <3>1, <3>2, <1>a, <1>y DEF ScribeOK
  <2>2. CASE q # p
    <3>1. does[q] \in {"writes", "truncates"} => file[q] # f /\ file[q] \in Files
      BY <2>2, <1>c, <1>0 DEF ScribeOK
    <3>2. does[q] \in {"writes", "truncates"} => /\ addrs'[file[q]] = addrs[file[q]]
                                                 /\ \A k : Place(file[q], k)' = Place(file[q], k)
      BY <3>1, <1>8, <1>g, <1>a
    <3>3. QED
      BY <2>2, <1>0, <1>a, <3>2, ScribeSame
  <2>3. QED
    BY <2>1, <2>2
<1>11. ASSUME NEW g \in Files PROVE FileOK(g)'
  <2>2. CASE g = f
    <3>1. \A k \in 0 .. MAXFILE - 1 : k * BSIZE < size[f] => Place(f, k)' # 0
      BY <1>3, <1>b, <1>d, <1>0 DEF FileOK
    <3>2. QED
      BY <2>2, <3>1, <1>2, <1>a DEF FileOK
  <2>3. CASE g # f
    <3>1. Truncated(g) => Truncated(g)'
      BY <1>a DEF Truncated
    <3>2. QED
      BY <2>3, <3>1, <1>a, <1>g, <1>0, FileSame
  <2>4. QED
    BY <2>2, <2>3
<1>12. QED
  BY <1>1, <1>9, <1>10, <1>11 DEF FileDataInv

(* FileDataInv is inductive. *)
LEMMA FileNextStep == FileDataInv /\ [FileDataNext]_fdVars => FileDataInv'
<1> SUFFICES ASSUME FileDataInv, [FileDataNext]_fdVars PROVE FileDataInv'
  OBVIOUS
<1>1. CASE UNCHANGED fdVars
  <2> USE <1>1 DEF fdVars, inodeVars
  <2>1. FileDataTypeOK'
    BY DEF FileDataInv, FileDataTypeOK
  <2>2. /\ OwnInv' /\ \A g \in Files : Truncated(g)' <=> Truncated(g)
        /\ \A g, n : Place(g, n)' = Place(g, n)
    BY BlocksStay DEF FileDataInv
  <2>3. \A p \in Scribes : ScribeOK(p)'
    BY <2>2, ScribeSame DEF FileDataInv
  <2>4. \A f \in Files : FileOK(f)'
    BY <2>2, FileSame DEF FileDataInv
  <2>5. QED
    BY <2>1, <2>2, <2>3, <2>4 DEF FileDataInv
<1>2. ASSUME NEW p \in Scribes, StartChunk(p) PROVE FileDataInv'
  BY <1>2, StartChunkStep
<1>3. ASSUME NEW p \in Scribes, Bmap(p) PROVE FileDataInv'
  BY <1>3, BmapStep
<1>4. ASSUME NEW p \in Scribes, CopyIn(p) PROVE FileDataInv'
  BY <1>4, CopyInStep
<1>5. ASSUME NEW p \in Scribes, EndChunk(p) PROVE FileDataInv'
  BY <1>5, EndChunkStep
<1>6. ASSUME NEW p \in Scribes, Bfree(p) PROVE FileDataInv'
  BY <1>6, BfreeStep
<1>7. ASSUME NEW p \in Scribes, EndTrunc(p) PROVE FileDataInv'
  BY <1>7, EndTruncStep
<1>8. ASSUME NEW p \in Scribes, NEW f \in Files, StartTrunc(p, f) PROVE FileDataInv'
  BY <1>8, StartTruncStep
<1>9. ASSUME NEW p \in Scribes, NEW f \in Files, NEW x \in Offsets, NEW k \in Sizes, WriteFile(p, f, x, k)
      PROVE  FileDataInv'
  BY <1>9, WriteFileStep
<1>10. QED
  BY <1>1, <1>2, <1>3, <1>4, <1>5, <1>6, <1>7, <1>8, <1>9 DEF FileDataNext

(* What FileDataInv is for *)
LEMMA FileSafe == FileDataInv => BlocksOwned /\ NoHoles
<1> SUFFICES ASSUME FileDataInv PROVE BlocksOwned /\ NoHoles
  OBVIOUS
<1>0. /\ FileDataTypeOK /\ OwnInv /\ \A f \in Files : FileOK(f)
  BY DEF FileDataInv
<1> DEFINE Held == {o \in Files \X (0 .. MAXFILE) : o[2] \in Places(o[1])}
<1>1. bitmap = UNION {{Place(f, n) : n \in Places(f)} : f \in Files}
  BY <1>0 DEF OwnInv
<1>2. IsFiniteSet(bitmap)
  BY <1>0, FileDataAssumption, FS_Subset DEF FileDataTypeOK
<1>3. \A o \in Held : o[1] \in Files /\ o[2] \in Places(o[1]) /\ o = <<o[1], o[2]>>
  OBVIOUS
<1>4. \A f \in Files : \A n \in Places(f) : <<f, n>> \in Held /\ <<f, n>>[1] = f /\ <<f, n>>[2] = n
  BY DEF Places
<1>5. \A b \in bitmap : \E o \in Held : Place(o[1], o[2]) = b
  <2>1. TAKE b \in bitmap
  <2>2. PICK f \in Files : \E n \in Places(f) : Place(f, n) = b
    BY <1>0 DEF OwnInv
  <2>3. PICK n \in Places(f) : Place(f, n) = b
    BY <2>2
  <2>4. <<f, n>> \in Held /\ Place(<<f, n>>[1], <<f, n>>[2]) = b
    BY <2>3, <1>4
  <2>5. QED
    BY <2>4
<1> DEFINE g == [b \in bitmap |-> CHOOSE o \in Held : Place(o[1], o[2]) = b]
<1>6. \A b \in bitmap : g[b] \in Held /\ Place(g[b][1], g[b][2]) = b
  BY <1>5
<1>7. \A o \in Held : Place(o[1], o[2]) \in bitmap /\ g[Place(o[1], o[2])] = o
  <2>1. TAKE o \in Held
  <2>2. PICK b \in bitmap : b = Place(o[1], o[2])
    BY <1>0, <1>3 DEF OwnInv
  <2>3. PICK q \in Held : q = g[b] /\ Place(q[1], q[2]) = b
    BY <1>6
  <2>4. q[1] = o[1] /\ q[2] = o[2]
    BY <1>0, <1>3, <2>2, <2>3 DEF OwnInv
  <2>5. q = o
    BY <1>3, <2>4
  <2>6. QED
    BY <2>2, <2>3, <2>5
<1> HIDE DEF g, Held
<1>8. g \in Bijection(bitmap, Held)
  <2>1. g \in [bitmap -> Held]
    BY <1>6 DEF g
  <2>2. \A b, c \in bitmap : g[b] = g[c] => b = c
    BY <1>6
  <2>3. \A o \in Held : \E b \in bitmap : g[b] = o
    BY <1>7
  <2>4. QED
    BY <2>1, <2>2, <2>3 DEF Bijection, Injection, Surjection, IsInjective
<1>9. Cardinality(bitmap) = Cardinality(Held)
  BY <1>2, <1>8, FS_Bijection DEF ExistsBijection
<1>10. NoHoles
  BY <1>0, MissingIs DEF NoHoles, FileOK, Truncated
<1>11. QED
  BY <1>1, <1>9, <1>10 DEF BlocksOwned, Held

(* The bitmap is what the files have, each block in one place, and up to   *)
(* its size a file has a block for each byte.                              *)
THEOREM FileSafety == FileDataSpec => [](BlocksOwned /\ NoHoles)
  BY FileInit1, FileNextStep, FileSafe, PTL DEF FileDataSpec

-----------------------------------------------------------------------------
(* Message queues: MsgQueue for any number of processes, queues and slots, *)
(* under the hypothesis that at most one process can make the first call.  *)

USE EarlyAssumption, SizeAssumption, NobodyAssumption, NoCallAssumption

(* The hypothesis.  Without it run MsgQueueRace refutes OneAtATime. *)
OneEarly == \A a, b \in Early : a = b

(* An index that has run past the end of the ring at most once, put back.  *)
Wrap(n) == IF n < MAX_MSGS THEN n ELSE n - MAX_MSGS

(* The code's % MAX_MSGS in the words of linear arithmetic. *)
LEMMA ModIsWrap ==
  ASSUME NEW n \in 0 .. 2 * MAX_MSGS - 1
  PROVE  n % MAX_MSGS = Wrap(n) /\ Wrap(n) \in Slots
  BY DEF Wrap, Slots

(* head and tail stay inside the ring when they move on. *)
LEMMA NextSlotIsWrap ==
  ASSUME NEW n \in Slots
  PROVE  NextSlot(n) = Wrap(n + 1) /\ NextSlot(n) \in Slots
<1>1. n + 1 \in 0 .. 2 * MAX_MSGS - 1
  BY DEF Slots
<1>2. QED
  BY <1>1, ModIsWrap DEF NextSlot

(* The slot of the k-th oldest message of a ring whose head is at h. *)
LEMMA SlotIsWrap ==
  ASSUME NEW h \in Slots, NEW k \in 1 .. MAX_MSGS
  PROVE  /\ (h + k - 1) % MAX_MSGS = Wrap(h + k - 1)
         /\ (h + k - 1) % MAX_MSGS \in Slots
<1>1. h + k - 1 \in 0 .. 2 * MAX_MSGS - 1
  BY DEF Slots
<1>2. QED
  BY <1>1, ModIsWrap

(* The oldest message is at head. *)
LEMMA FirstSlot ==
  ASSUME NEW h \in Slots PROVE (h + 1 - 1) % MAX_MSGS = h
<1>1. (h + 1 - 1) % MAX_MSGS = Wrap(h + 1 - 1)
  BY SlotIsWrap
<1>2. QED
  BY <1>1 DEF Wrap, Slots

(* The parts of a request of msgq_send() or msgq_recv(). *)
LEMMA RequestParts ==
  ASSUME NEW rq \in Requests
  PROVE  /\ rq.q \in Queues
         /\ rq.op \in {"send", "recv"}
         /\ rq.op = "send" => rq.msg \in Msgs
  BY DEF Requests

(* A process inside a ring is inside a call. *)
LEMMA CallParts ==
  ASSUME CallInv, NEW p \in Procs, pc[p] # "idle"
  PROVE  /\ call[p] \in Requests
         /\ call[p].q \in Queues
         /\ call[p].op \in {"send", "recv"}
         /\ call[p].op = "send" => call[p].msg \in Msgs
  BY RequestParts DEF CallInv

(* release() at the end of a call. *)
LEMMA ReturnType ==
  ASSUME TypeOK, CallInv, NEW p \in Procs, pc[p] # "idle",
         NEW rq \in Msgs \cup {Failed, Done}, Return(p, rq)
  PROVE  /\ lock' \in [Queues -> Procs \cup {Nobody}]
         /\ ret' \in [Procs -> Msgs \cup {Failed, Done}]
         /\ call' \in [Procs -> Requests \cup {NoCall}]
         /\ buf' \in [Procs -> Msgs \cup {Garbage}]
         /\ pc' \in [Procs -> PCs]
  BY CallParts DEF TypeOK, Return, Set, Goto, PCs

(* At the start every ring is empty and nobody is in a call. *)
LEMMA QueueInit1 == Init => TypeOK /\ CallInv /\ CopiedInv /\ RingInv
<1> SUFFICES ASSUME Init PROVE TypeOK /\ CallInv /\ CopiedInv /\ RingInv
  OBVIOUS
<1>0. 0 \in Slots /\ 0 \in 0 .. MAX_MSGS /\ 0 \in 0 .. NUM_QUEUES
  BY DEF Slots
<1>1. TypeOK
  BY <1>0 DEF Init, TypeOK, PCs
<1>2. CallInv /\ CopiedInv
  BY DEF Init, CallInv, CopiedInv
<1>3. (0 + 0) % MAX_MSGS = 0
  BY ModIsWrap DEF Wrap
<1>4. RingInv
  BY <1>3 DEF Init, RingInv
<1>5. QED
  BY <1>1, <1>2, <1>4

(* Every step keeps every variable in its range: a count between 0 and     *)
(* MAX_MSGS, an index inside the ring, and no half-copied slot returned.   *)
LEMMA QueueTypeStep ==
  TypeOK /\ CallInv /\ CopiedInv /\ RingInv /\ [Next]_vars => TypeOK'
<1> SUFFICES ASSUME TypeOK, CallInv, CopiedInv, RingInv, [Next]_vars
             PROVE  TypeOK'
  OBVIOUS
<1>1. CASE UNCHANGED vars
  BY <1>1 DEF TypeOK, vars, ring
<1>2. ASSUME NEW p \in Procs, NEW rq \in Requests, Call(p, rq) PROVE TypeOK'
  BY <1>2 DEF TypeOK, Call, Set, Goto, PCs, ring
<1>3. ASSUME NEW p \in Procs, Enter(p) PROVE TypeOK'
  <2> USE DEF TypeOK, Set, Goto, PCs, ring
  <2>1. CASE TestInitialized(p)
    BY <2>1 DEF TestInitialized
  <2>2. CASE InitQueue(p)
    <3>1. i[p] \in Queues /\ i[p] + 1 \in 0 .. NUM_QUEUES /\ 0 \in Slots
      BY <2>2 DEF InitQueue, Queues, Slots
    <3>2. QED
      BY <2>2, <3>1 DEF InitQueue
  <2>3. CASE InitDone(p)
    BY <2>3 DEF InitDone
  <2>4. CASE Acquire(p)
    BY <2>4 DEF Acquire
  <2>5. QED
    BY <1>3, <2>1, <2>2, <2>3, <2>4 DEF Enter
<1>4. ASSUME NEW p \in Procs, SendStep(p) PROVE TypeOK'
  <2> DEFINE q == call[p].q
  <2>1. /\ pc[p] # "idle"
        /\ q \in Queues
        /\ call[p].op = "send" => call[p].msg \in Msgs
    BY <1>4, CallParts DEF SendStep, SendFull, SendCopy, SendFault, SendDone,
                           Locked
  <2>2. NextSlot(tail[q]) \in Slots
    BY <2>1, NextSlotIsWrap DEF TypeOK
  <2>3. CASE SendFull(p)
    BY <2>1, <2>3, ReturnType DEF SendFull, Return, TypeOK, ring
  <2>4. CASE SendCopy(p)
    BY <2>1, <2>4 DEF SendCopy, Locked, TypeOK, Goto, Set, PCs
  <2>5. CASE SendFault(p)
    BY <2>1, <2>5, ReturnType DEF SendFault, Return, TypeOK
  <2>6. CASE SendDone(p)
    <3>1. count[q] + 1 \in 0 .. MAX_MSGS
      BY <2>1, <2>6 DEF SendDone, CopiedInv, TypeOK
    <3>2. tail' \in [Queues -> Slots] /\ count' \in [Queues -> 0 .. MAX_MSGS]
      BY <2>2, <2>6, <3>1 DEF SendDone, TypeOK, Set
    <3>3. QED
      BY <2>1, <2>6, <3>2, ReturnType DEF SendDone, Return, TypeOK
  <2>7. QED
    BY <1>4, <2>3, <2>4, <2>5, <2>6 DEF SendStep
<1>5. ASSUME NEW p \in Procs, RecvStep(p) PROVE TypeOK'
  <2> DEFINE q == call[p].q
  <2>1. pc[p] # "idle" /\ q \in Queues
    BY <1>5, CallParts DEF RecvStep, RecvEmpty, RecvCopy, RecvFault, RecvDone,
                           Locked
  <2>2. NextSlot(head[q]) \in Slots
    BY <2>1, NextSlotIsWrap DEF TypeOK
  <2>3. CASE RecvEmpty(p)
    BY <2>1, <2>3, ReturnType DEF RecvEmpty, Return, TypeOK, ring
  <2>4. CASE RecvCopy(p)
    BY <2>1, <2>4 DEF RecvCopy, Locked, TypeOK, Goto, Set, PCs, ring
  <2>5. CASE RecvFault(p)
    BY <2>1, <2>5, ReturnType DEF RecvFault, Return, TypeOK, ring
  <2>6. CASE RecvDone(p)
    <3>1. count[q] - 1 \in 0 .. MAX_MSGS
      BY <2>1, <2>6 DEF RecvDone, CopiedInv, TypeOK
    <3>2. head' \in [Queues -> Slots] /\ count' \in [Queues -> 0 .. MAX_MSGS]
      BY <2>2, <2>6, <3>1 DEF RecvDone, TypeOK, Set
    <3>3. buf[p] = msgs[q][(head[q] + 1 - 1) % MAX_MSGS]
      BY <2>1, <2>6, FirstSlot DEF RecvDone, CopiedInv, TypeOK
    <3>4. buf[p] \in Msgs
      BY <2>1, <2>6, <3>3 DEF RecvDone, CopiedInv, RingInv, TypeOK
    <3>5. QED
      BY <2>1, <2>6, <3>2, <3>4, ReturnType DEF RecvDone, Return, TypeOK
  <2>7. QED
    BY <1>5, <2>3, <2>4, <2>5, <2>6 DEF RecvStep
<1>6. QED
  BY <1>1, <1>2, <1>3, <1>4, <1>5 DEF Next

(* Only release() and the copies need more than the locks: a step inside a *)
(* ring leaves every other process where it is, and out of that ring.      *)
LEMMA ReturnCallInv ==
  ASSUME TypeOK, CallInv, NEW p \in Procs, NEW rq, Return(p, rq),
         pc[p] \in {"locked", "copied"}
  PROVE  CallInv'
<1>1. call[p].q \in Queues
  BY CallParts
<1>2. \A o \in Procs : o # p => /\ pc'[o] = pc[o] /\ call'[o] = call[o]
                                /\ pc[o] \in {"locked", "copied"} =>
                                     lock'[call[o].q] = lock[call[o].q]
  BY <1>1, CallParts DEF Return, Set, Goto, TypeOK, CallInv
<1>3. pc'[p] = "idle" /\ call'[p] = NoCall /\ initialized' = initialized
  BY DEF Return, Set, Goto, TypeOK
<1>4. QED
  BY <1>2, <1>3 DEF CallInv

(* A lock is held by the process that took it until it releases it, and    *)
(* msgq_init() runs, in one process, before anyone can take one: this is   *)
(* where OneEarly is needed.                                               *)
LEMMA NextCallInv ==
  ASSUME OneEarly, TypeOK, CallInv, [Next]_vars PROVE CallInv'
<1>1. CASE UNCHANGED vars
  BY <1>1 DEF CallInv, vars, ring
<1>2. ASSUME NEW p \in Procs, NEW rq \in Requests, Call(p, rq) PROVE CallInv'
  BY <1>2 DEF CallInv, TypeOK, Call, Set, Goto
<1>3. ASSUME NEW p \in Procs, Enter(p) PROVE CallInv'
  <2> USE DEF TypeOK, Set, Goto
  <2>1. CASE TestInitialized(p)
    BY <2>1 DEF TestInitialized, CallInv
  <2>2. CASE InitQueue(p)
    BY <2>2 DEF InitQueue, CallInv
  <2>3. CASE InitDone(p)
    <3>1. ~initialized
      BY <2>3 DEF InitDone, CallInv
    <3>2. \A o \in Procs : o # p => pc[o] = "idle"
      BY <2>3, <3>1 DEF InitDone, CallInv, OneEarly
    <3>3. QED
      BY <2>3, <3>2 DEF InitDone, CallInv
  <2>4. CASE Acquire(p)
    <3>1. call[p].q \in Queues
      BY <2>4, CallParts DEF Acquire
    <3>2. \A o \in Procs : pc[o] \in {"locked", "copied"} =>
                             call[o].q # call[p].q
      BY <2>4 DEF Acquire, CallInv
    <3>3. QED
      BY <2>4, <3>1, <3>2, CallParts DEF Acquire, CallInv
  <2>5. QED
    BY <1>3, <2>1, <2>2, <2>3, <2>4 DEF Enter
<1>4. ASSUME NEW p \in Procs, SendStep(p) PROVE CallInv'
  <2>1. CASE SendCopy(p)
    BY <2>1 DEF SendCopy, Locked, CallInv, TypeOK, Set, Goto
  <2>2. CASE SendFull(p) \/ SendFault(p) \/ SendDone(p)
    BY <2>2, ReturnCallInv DEF SendFull, SendFault, SendDone, Locked
  <2>3. QED
    BY <1>4, <2>1, <2>2 DEF SendStep
<1>5. ASSUME NEW p \in Procs, RecvStep(p) PROVE CallInv'
  <2>1. CASE RecvCopy(p)
    BY <2>1 DEF RecvCopy, Locked, CallInv, TypeOK, Set, Goto
  <2>2. CASE RecvEmpty(p) \/ RecvFault(p) \/ RecvDone(p)
    BY <2>2, ReturnCallInv DEF RecvEmpty, RecvFault, RecvDone, Locked
  <2>3. QED
    BY <1>5, <2>1, <2>2 DEF RecvStep
<1>6. QED
  BY <1>1, <1>2, <1>3, <1>4, <1>5 DEF Next

-----------------------------------------------------------------------------
(* Two processes inside one ring are the same. *)
LEMMA Exclusion == CallInv => OneAtATime
  BY DEF CallInv, OneAtATime, InQueue

(* A step that leaves the rings, the calls and the buffers alone, and      *)
(* leaves nobody between a copy and its end who was not there before.      *)
LEMMA RingFrame ==
  ASSUME CopiedInv, RingInv, UNCHANGED ring, initialized => initialized',
         \A o \in Procs : pc'[o] = "copied" =>
           pc[o] = "copied" /\ call'[o] = call[o] /\ buf'[o] = buf[o]
  PROVE  CopiedInv' /\ RingInv'
  BY DEF CopiedInv, RingInv, ring

(* A step of p inside the ring q that leaves the other rings alone does    *)
(* not disturb the processes inside those.                                 *)
LEMMA OthersCopied ==
  ASSUME TypeOK, CallInv, CopiedInv, NEW p \in Procs, NEW q \in Queues,
         InQueue(p, q), NEW o \in Procs, o # p,
         pc'[o] = pc[o], call'[o] = call[o], buf'[o] = buf[o],
         \A k \in Queues \ {q} :
           /\ msgs'[k] = msgs[k] /\ head'[k] = head[k]
           /\ tail'[k] = tail[k] /\ count'[k] = count[k],
         pc'[o] = "copied"
  PROVE  LET k == call'[o].q IN
         /\ call'[o].ok
         /\ call'[o].op = "send" => /\ count'[k] < MAX_MSGS
                                    /\ msgs'[k][tail'[k]] = call'[o].msg
         /\ call'[o].op = "recv" => /\ count'[k] > 0
                                    /\ buf'[o] = msgs'[k][head'[k]]
<1>1. pc[o] = "copied" /\ call[o].q \in Queues
  BY CallParts
<1>2. lock[call[o].q] = o /\ lock[q] = p
  BY <1>1 DEF CallInv, InQueue
<1>3. call[o].q \in Queues \ {q}
  BY <1>1, <1>2
<1>4. QED
  BY <1>1, <1>3 DEF CopiedInv

(* The slot at tail is not one that holds a message while there is room.   *)
LEMMA TailIsFree ==
  ASSUME TypeOK, RingInv, NEW q \in Queues, count[q] < MAX_MSGS,
         NEW k \in 1 .. count[q]
  PROVE  /\ (head[q] + k - 1) % MAX_MSGS # tail[q]
         /\ (head[q] + k - 1) % MAX_MSGS \in Slots
<1>1. k \in 1 .. MAX_MSGS /\ head[q] \in Slots /\ count[q] \in 0 .. MAX_MSGS
  BY DEF TypeOK
<1>2. /\ (head[q] + k - 1) % MAX_MSGS = Wrap(head[q] + k - 1)
      /\ (head[q] + k - 1) % MAX_MSGS \in Slots
  BY <1>1, SlotIsWrap
<1>3. head[q] + count[q] \in 0 .. 2 * MAX_MSGS - 1
  BY <1>1 DEF Slots
<1>4. tail[q] = Wrap(head[q] + count[q])
  BY <1>3, ModIsWrap DEF RingInv
<1>5. QED
  BY <1>1, <1>2, <1>4 DEF Wrap, Slots

(* The new last slot after an append is the one at tail, and tail moves to *)
(* the slot after it.                                                      *)
LEMMA AppendSlot ==
  ASSUME TypeOK, RingInv, NEW q \in Queues, count[q] < MAX_MSGS
  PROVE  /\ (head[q] + (count[q] + 1) - 1) % MAX_MSGS = tail[q]
         /\ (head[q] + (count[q] + 1)) % MAX_MSGS = NextSlot(tail[q])
<1>1. head[q] \in Slots /\ tail[q] \in Slots /\ count[q] \in 0 .. MAX_MSGS
  BY DEF TypeOK
<1>2. /\ head[q] + count[q] \in 0 .. 2 * MAX_MSGS - 1
      /\ head[q] + (count[q] + 1) \in 0 .. 2 * MAX_MSGS - 1
      /\ count[q] + 1 \in 1 .. MAX_MSGS
  BY <1>1 DEF Slots
<1>3. tail[q] = Wrap(head[q] + count[q])
  BY <1>2, ModIsWrap DEF RingInv
<1>4. (head[q] + (count[q] + 1) - 1) % MAX_MSGS
        = Wrap(head[q] + (count[q] + 1) - 1)
  BY <1>1, <1>2, SlotIsWrap
<1>5. (head[q] + (count[q] + 1)) % MAX_MSGS = Wrap(head[q] + (count[q] + 1))
  BY <1>2, ModIsWrap
<1>6. NextSlot(tail[q]) = Wrap(tail[q] + 1)
  BY <1>1, NextSlotIsWrap
<1>7. QED
  BY <1>1, <1>3, <1>4, <1>5, <1>6 DEF Wrap, Slots

(* Moving head by one slot moves every position of the ring by one.        *)
LEMMA ShiftSlot ==
  ASSUME NEW h \in Slots
  PROVE  /\ \A k \in 1 .. MAX_MSGS - 1 :
              (NextSlot(h) + k - 1) % MAX_MSGS = (h + (k + 1) - 1) % MAX_MSGS
         /\ \A n \in 1 .. MAX_MSGS :
              (NextSlot(h) + (n - 1)) % MAX_MSGS = (h + n) % MAX_MSGS
<1>1. NextSlot(h) = Wrap(h + 1) /\ NextSlot(h) \in Slots
  BY NextSlotIsWrap
<1>2. ASSUME NEW k \in 1 .. MAX_MSGS - 1
      PROVE  (NextSlot(h) + k - 1) % MAX_MSGS = (h + (k + 1) - 1) % MAX_MSGS
  <2>1. k \in 1 .. MAX_MSGS /\ k + 1 \in 1 .. MAX_MSGS
    OBVIOUS
  <2>2. (NextSlot(h) + k - 1) % MAX_MSGS = Wrap(NextSlot(h) + k - 1)
    BY <1>1, <2>1, SlotIsWrap
  <2>3. (h + (k + 1) - 1) % MAX_MSGS = Wrap(h + (k + 1) - 1)
    BY <2>1, SlotIsWrap
  <2>4. QED
    BY <1>1, <2>2, <2>3 DEF Wrap, Slots
<1>3. ASSUME NEW n \in 1 .. MAX_MSGS
      PROVE  (NextSlot(h) + (n - 1)) % MAX_MSGS = (h + n) % MAX_MSGS
  <2>1. /\ NextSlot(h) + (n - 1) \in 0 .. 2 * MAX_MSGS - 1
        /\ h + n \in 0 .. 2 * MAX_MSGS - 1
    BY <1>1 DEF Slots
  <2>2. /\ (NextSlot(h) + (n - 1)) % MAX_MSGS = Wrap(NextSlot(h) + (n - 1))
        /\ (h + n) % MAX_MSGS = Wrap(h + n)
    BY <2>1, ModIsWrap
  <2>3. QED
    BY <1>1, <2>2 DEF Wrap, Slots
<1>4. QED
  BY <1>2, <1>3

(* Every step keeps the rings in order, and the promises a process relies  *)
(* on between its copy and the end of its call.                            *)
LEMMA NextRingInv ==
  ASSUME TypeOK, CallInv, CopiedInv, RingInv, [Next]_vars
  PROVE  CopiedInv' /\ RingInv'
<1>1. CASE UNCHANGED vars
  BY <1>1, RingFrame DEF vars
<1>2. ASSUME NEW p \in Procs, NEW rq \in Requests, Call(p, rq)
      PROVE  CopiedInv' /\ RingInv'
  BY <1>2, RingFrame DEF TypeOK, Call, Set, Goto
<1>3. ASSUME NEW p \in Procs, Enter(p) PROVE CopiedInv' /\ RingInv'
  <2> USE DEF TypeOK, Set, Goto
  <2>1. CASE TestInitialized(p)
    BY <2>1, RingFrame DEF TestInitialized
  <2>2. CASE InitQueue(p)
    <3>1. ~initialized /\ ~initialized' /\ pc' = pc
      BY <2>2 DEF InitQueue, CallInv
    <3>2. CopiedInv'
      BY <3>1 DEF CallInv, CopiedInv
    <3>3. \A q \in Queues : count'[q] = 0
      BY <2>2, <3>1 DEF InitQueue, RingInv
    <3>4. (0 + 0) % MAX_MSGS = 0
      BY ModIsWrap DEF Wrap
    <3>5. \A q \in Queues : tail'[q] = (head'[q] + count'[q]) % MAX_MSGS
      BY <2>2, <3>1, <3>3, <3>4 DEF InitQueue, RingInv
    <3>6. QED
      BY <3>2, <3>3, <3>5 DEF RingInv
  <2>3. CASE InitDone(p)
    BY <2>3, RingFrame DEF InitDone
  <2>4. CASE Acquire(p)
    BY <2>4, RingFrame DEF Acquire
  <2>5. QED
    BY <1>3, <2>1, <2>2, <2>3, <2>4 DEF Enter
<1>4. ASSUME NEW p \in Procs, SendStep(p) PROVE CopiedInv' /\ RingInv'
  <2> DEFINE q == call[p].q
  <2>1. pc[p] # "idle" /\ q \in Queues /\ InQueue(p, q) /\ initialized
    BY <1>4, CallParts DEF SendStep, SendFull, SendCopy, SendFault, SendDone,
                           Locked, InQueue, CallInv
  <2>2. tail[q] \in Slots /\ count[q] \in 0 .. MAX_MSGS
    BY <2>1 DEF TypeOK
  <2>3. CASE SendFull(p)
    BY <2>3, RingFrame DEF SendFull, Return, TypeOK, Goto, Set
  <2>4. ASSUME NEW m, msgs' = [msgs EXCEPT ![q][tail[q]] = m],
               UNCHANGED <<head, tail, count, initialized>>, count[q] < MAX_MSGS
        PROVE  RingInv'
    <3>1. \A k \in 1 .. count[q] :
            msgs'[q][(head[q] + k - 1) % MAX_MSGS]
              = msgs[q][(head[q] + k - 1) % MAX_MSGS]
      BY <2>1, <2>4, TailIsFree DEF TypeOK
    <3>2. \A k \in Queues \ {q} : msgs'[k] = msgs[k]
      BY <2>4 DEF TypeOK
    <3>3. QED
      BY <2>4, <3>1, <3>2 DEF RingInv
  <2>5. CASE SendCopy(p)
    <3>1. count[q] < MAX_MSGS
      BY <2>2, <2>5 DEF SendCopy
    <3>2. RingInv'
      BY <2>4, <2>5, <3>1 DEF SendCopy
    <3>3. /\ \A o \in Procs \ {p} : pc'[o] = pc[o]
          /\ call' = call /\ buf' = buf
          /\ \A k \in Queues \ {q} : msgs'[k] = msgs[k]
          /\ UNCHANGED <<head, tail, count>>
      BY <2>5 DEF SendCopy, Goto, Set, TypeOK
    <3>4. /\ call'[p].ok /\ call'[p].op = "send"
          /\ call'[p].q = q
          /\ msgs'[q][tail'[q]] = call'[p].msg
      BY <2>1, <2>2, <2>5 DEF SendCopy, Locked, TypeOK
    <3>5. QED
      BY <2>1, <3>1, <3>2, <3>3, <3>4, OthersCopied DEF CopiedInv
  <2>6. CASE SendFault(p)
    <3>1. count[q] < MAX_MSGS
      BY <2>2, <2>6 DEF SendFault
    <3>2. RingInv'
      BY <2>4, <2>6, <3>1 DEF SendFault, Return
    <3>3. /\ pc'[p] = "idle"
          /\ \A o \in Procs \ {p} :
               pc'[o] = pc[o] /\ call'[o] = call[o] /\ buf'[o] = buf[o]
          /\ \A k \in Queues \ {q} : msgs'[k] = msgs[k]
          /\ UNCHANGED <<head, tail, count>>
      BY <2>6 DEF SendFault, Return, Goto, Set, TypeOK
    <3>4. QED
      BY <2>1, <3>2, <3>3, OthersCopied DEF CopiedInv
  <2>7. CASE SendDone(p)
    <3>1. /\ call[p].op = "send" /\ count[q] < MAX_MSGS
          /\ msgs[q][tail[q]] = call[p].msg
      BY <2>7 DEF SendDone, CopiedInv
    <3>2. /\ pc'[p] = "idle"
          /\ \A o \in Procs \ {p} :
               pc'[o] = pc[o] /\ call'[o] = call[o] /\ buf'[o] = buf[o]
          /\ \A k \in Queues \ {q} : tail'[k] = tail[k] /\ count'[k] = count[k]
          /\ UNCHANGED <<msgs, head, initialized>>
          /\ tail'[q] = NextSlot(tail[q]) /\ count'[q] = count[q] + 1
      BY <2>1, <2>7 DEF SendDone, Return, Goto, Set, TypeOK
    <3>3. CopiedInv'
      BY <2>1, <3>2, OthersCopied DEF CopiedInv
    <3>4. call[p].msg \in Msgs
      BY <2>1, <3>1, CallParts
    <3>5. \A k \in 1 .. count'[q] :
            msgs'[q][(head'[q] + k - 1) % MAX_MSGS] \in Msgs
      <4>1. ASSUME NEW k \in 1 .. count'[q]
            PROVE  msgs[q][(head[q] + k - 1) % MAX_MSGS] \in Msgs
        <5>1. CASE k \in 1 .. count[q]
          BY <2>1, <5>1 DEF RingInv
        <5>2. CASE k = count[q] + 1
          BY <2>1, <3>1, <3>4, <5>2, AppendSlot
        <5>3. QED
          BY <2>2, <3>2, <5>1, <5>2
      <4>2. QED
        BY <3>2, <4>1
    <3>6. tail'[q] = (head'[q] + count'[q]) % MAX_MSGS
      BY <2>1, <3>1, <3>2, AppendSlot
    <3>7. QED
      BY <2>1, <3>2, <3>3, <3>5, <3>6 DEF RingInv
  <2>8. QED
    BY <1>4, <2>3, <2>5, <2>6, <2>7 DEF SendStep
<1>5. ASSUME NEW p \in Procs, RecvStep(p) PROVE CopiedInv' /\ RingInv'
  <2> DEFINE q == call[p].q
  <2>1. pc[p] # "idle" /\ q \in Queues /\ InQueue(p, q) /\ initialized
    BY <1>5, CallParts DEF RecvStep, RecvEmpty, RecvCopy, RecvFault, RecvDone,
                           Locked, InQueue, CallInv
  <2>2. head[q] \in Slots /\ count[q] \in 0 .. MAX_MSGS
    BY <2>1 DEF TypeOK
  <2>3. CASE RecvEmpty(p) \/ RecvFault(p)
    BY <2>3, RingFrame DEF RecvEmpty, RecvFault, Return, TypeOK, Goto, Set
  <2>4. CASE RecvCopy(p)
    <3>1. /\ \A o \in Procs \ {p} : pc'[o] = pc[o] /\ buf'[o] = buf[o]
          /\ call' = call /\ UNCHANGED <<ring, initialized>>
      BY <2>4 DEF RecvCopy, Goto, Set, TypeOK
    <3>2. /\ call'[p].ok /\ call'[p].op = "recv" /\ count[q] > 0
          /\ buf'[p] = msgs[q][head[q]]
      BY <2>1, <2>2, <2>4 DEF RecvCopy, Locked, Set, TypeOK
    <3>3. CopiedInv'
      BY <2>1, <3>1, <3>2 DEF CopiedInv, ring
    <3>4. RingInv'
      BY <3>1 DEF RingInv, ring
    <3>5. QED
      BY <3>3, <3>4
  <2>5. CASE RecvDone(p)
    <3>1. count[q] \in 1 .. MAX_MSGS
      BY <2>2, <2>5 DEF RecvDone, CopiedInv
    <3>2. /\ pc'[p] = "idle"
          /\ \A o \in Procs \ {p} :
               pc'[o] = pc[o] /\ call'[o] = call[o] /\ buf'[o] = buf[o]
          /\ \A k \in Queues \ {q} : head'[k] = head[k] /\ count'[k] = count[k]
          /\ UNCHANGED <<msgs, tail, initialized>>
          /\ head'[q] = NextSlot(head[q]) /\ count'[q] = count[q] - 1
      BY <2>1, <2>5 DEF RecvDone, Return, Goto, Set, TypeOK
    <3>3. CopiedInv'
      BY <2>1, <3>2, OthersCopied DEF CopiedInv
    <3>4. ASSUME NEW k \in 1 .. count'[q]
          PROVE  msgs'[q][(head'[q] + k - 1) % MAX_MSGS] \in Msgs
      <4>1. k \in 1 .. MAX_MSGS - 1 /\ k + 1 \in 1 .. count[q]
        BY <3>1, <3>2
      <4>2. msgs[q][(head[q] + (k + 1) - 1) % MAX_MSGS] \in Msgs
        BY <2>1, <4>1 DEF RingInv
      <4>3. QED
        BY <2>2, <3>2, <4>1, <4>2, ShiftSlot
    <3>5. tail'[q] = (head'[q] + count'[q]) % MAX_MSGS
      BY <2>1, <2>2, <3>1, <3>2, ShiftSlot DEF RingInv
    <3>6. QED
      BY <2>1, <3>2, <3>3, <3>4, <3>5 DEF RingInv
  <2>6. QED
    BY <1>5, <2>3, <2>4, <2>5 DEF RecvStep
<1>6. QED
  BY <1>1, <1>2, <1>3, <1>4, <1>5 DEF Next

-----------------------------------------------------------------------------
(* In every reachable state of the message queue code the lock discipline  *)
(* holds, the rings are in order and a half-done call can be completed.    *)
THEOREM QueueInvariance ==
  ASSUME OneEarly
  PROVE  Spec => [](TypeOK /\ CallInv /\ CopiedInv /\ RingInv)
<1> DEFINE RingsInv == TypeOK /\ CallInv /\ CopiedInv /\ RingInv
<1>1. Init => RingsInv
  BY QueueInit1
<1>2. RingsInv /\ [Next]_vars => RingsInv'
  BY QueueTypeStep, NextCallInv, NextRingInv
<1>3. QED
  BY <1>1, <1>2, PTL DEF Spec

(* Every variable of the message queue code is in its range; in particular *)
(* msgq_recv() never returns a slot that was copied in only in part.       *)
THEOREM QueueTypes == ASSUME OneEarly PROVE Spec => []TypeOK
  BY QueueInvariance, PTL

(* Only one process at a time is inside a queue, whatever the faults of    *)
(* copyin() and copyout(): docs/msgq/README.md.                            *)
THEOREM QueueExclusion == ASSUME OneEarly PROVE Spec => []OneAtATime
  BY QueueInvariance, Exclusion, PTL

-----------------------------------------------------------------------------
(* The ring between head and tail as a sequence. *)
LEMMA ContentsIsSeq ==
  ASSUME TypeOK, RingInv, NEW q \in Queues
  PROVE  /\ Contents(q) \in Seq(Msgs)
         /\ Len(Contents(q)) = count[q]
<1>1. count[q] \in Nat
  BY DEF TypeOK
<1>2. Contents(q) \in [1 .. count[q] -> Msgs]
  BY DEF Contents, RingInv
<1>3. QED
  BY <1>1, <1>2, SeqDef

(* A step that leaves the rings, the requests and the results alone is a   *)
(* stutter of Fifo.                                                        *)
LEMMA StepStutters ==
  ASSUME UNCHANGED <<call, ret>>, \A q \in Queues : Contents(q)' = Contents(q)
  PROVE  [Abstract!Next]_(Abstract!vars)
  BY DEF Abstract!vars

(* So is one that leaves every field of every ring alone. *)
LEMMA RingStutters ==
  ASSUME UNCHANGED <<call, ret, ring>> PROVE [Abstract!Next]_(Abstract!vars)
<1>1. \A q \in Queues : Contents(q)' = Contents(q)
  BY DEF ring, Contents
<1>2. QED
  BY <1>1, StepStutters

(* A call that fails does so for a reason, and changes no ring.            *)
LEMMA FailRefines ==
  ASSUME TypeOK, CallInv, RingInv, NEW p \in Procs, pc[p] # "idle",
         Return(p, Failed), \A q \in Queues : Contents(q)' = Contents(q),
         \/ ~call[p].ok
         \/ call[p].op = "send" /\ count[call[p].q] = MAX_MSGS
         \/ call[p].op = "recv" /\ count[call[p].q] = 0
  PROVE  Abstract!Next
<1> DEFINE q == call[p].q
           F == [k \in Queues |-> Contents(k)]
<1>1. call[p] \in Requests /\ q \in Queues /\ call[p] # NoCall
  BY CallParts
<1>2. F[q] = Contents(q) /\ Contents(q) \in Seq(Msgs)
      /\ Len(Contents(q)) = count[q]
  BY <1>1, ContentsIsSeq
<1>3. count[q] = 0 => Contents(q) = << >>
  BY <1>2, EmptySeq
<1>4. F' = F
  OBVIOUS
<1>5. Abstract!Answer(p, Failed)
  BY DEF Abstract!Answer, Return, Set
<1>6. Abstract!Fail(p)
  BY <1>1, <1>2, <1>3, <1>4, <1>5 DEF Abstract!Fail
<1>7. QED
  BY <1>6 DEF Abstract!Next

(* copyin() writes a slot that holds no message. *)
LEMMA CopyIsUnseen ==
  ASSUME TypeOK, RingInv, NEW q \in Queues, count[q] < MAX_MSGS, NEW m,
         msgs' = [msgs EXCEPT ![q][tail[q]] = m],
         UNCHANGED <<head, tail, count>>,
         NEW k \in Queues
  PROVE  Contents(k)' = Contents(k)
<1>1. CASE k = q
  <2>1. \A j \in 1 .. count[q] :
          msgs'[q][(head[q] + j - 1) % MAX_MSGS]
            = msgs[q][(head[q] + j - 1) % MAX_MSGS]
    BY TailIsFree DEF TypeOK
  <2>2. QED
    BY <1>1, <2>1 DEF Contents
<1>2. CASE k # q
  <2>1. msgs'[k] = msgs[k]
    BY <1>2 DEF TypeOK
  <2>2. QED
    BY <2>1 DEF Contents
<1>3. QED
  BY <1>1, <1>2

(* The end of a successful msgq_send() appends its message. *)
LEMMA SendRefines ==
  ASSUME TypeOK, CallInv, CopiedInv, RingInv, RingInv', TypeOK',
         NEW p \in Procs, SendDone(p)
  PROVE  Abstract!Next
<1>1. PICK q \in Queues, m \in Msgs :
        /\ call[p] \in Requests /\ call[p] # NoCall
        /\ call[p].op = "send" /\ call[p].q = q /\ call[p].msg = m
  BY CallParts DEF SendDone
<1> DEFINE F == [k \in Queues |-> Contents(k)]
<1>2. call[p].ok /\ count[q] < MAX_MSGS /\ msgs[q][tail[q]] = m
  BY <1>1 DEF SendDone, CopiedInv
<1>3. /\ UNCHANGED <<msgs, head>>
      /\ count'[q] = count[q] + 1
      /\ \A k \in Queues \ {q} : count'[k] = count[k]
  BY <1>1 DEF SendDone, Set, TypeOK
<1>4. /\ Contents(q) \in Seq(Msgs) /\ Len(Contents(q)) = count[q]
      /\ Contents(q)' \in Seq(Msgs) /\ Len(Contents(q)') = count'[q]
  <2>1. Contents(q)' \in [1 .. count'[q] -> Msgs] /\ count'[q] \in Nat
    BY DEF Contents, RingInv, TypeOK
  <2>2. QED
    BY <2>1, ContentsIsSeq, SeqDef
<1>5. Contents(q)' = Append(Contents(q), m)
  <2>1. /\ Append(Contents(q), m) \in Seq(Msgs)
        /\ Len(Append(Contents(q), m)) = count[q] + 1
        /\ \A j \in 1 .. count[q] :
             Append(Contents(q), m)[j] = Contents(q)[j]
        /\ Append(Contents(q), m)[count[q] + 1] = m
    BY <1>1, <1>4, AppendProperties
  <2>2. ASSUME NEW j \in 1 .. count[q] + 1
        PROVE  Contents(q)'[j] = Append(Contents(q), m)[j]
    <3>1. Contents(q)'[j] = msgs[q][(head[q] + j - 1) % MAX_MSGS]
      BY <1>3 DEF Contents
    <3>2. CASE j \in 1 .. count[q]
      BY <2>1, <3>1, <3>2 DEF Contents
    <3>3. CASE j = count[q] + 1
      BY <1>1, <1>2, <2>1, <3>1, <3>3, AppendSlot
    <3>4. count[q] \in Nat
      BY <1>1 DEF TypeOK
    <3>5. j \in 1 .. count[q] \/ j = count[q] + 1
      BY <3>4
    <3>6. QED
      BY <3>2, <3>3, <3>5
  <2>3. QED
    BY <1>3, <1>4, <2>1, <2>2, SeqEqual
<1>6. \A k \in Queues \ {q} : Contents(k)' = Contents(k)
  BY <1>3 DEF Contents
<1>7. F' = [F EXCEPT ![q] = Append(F[q], m)]
  BY <1>1, <1>5, <1>6
<1>8. Len(F[q]) < MAX_MSGS
  BY <1>1, <1>2, <1>4
<1>9. Abstract!Answer(p, Done)
  BY DEF Abstract!Answer, SendDone, Return, Set
<1>10. Abstract!Send(p)
  BY <1>1, <1>2, <1>7, <1>8, <1>9 DEF Abstract!Send
<1>11. QED
  BY <1>10 DEF Abstract!Next

(* The end of a successful msgq_recv() takes the oldest message. *)
LEMMA RecvRefines ==
  ASSUME TypeOK, CallInv, CopiedInv, RingInv, RingInv', TypeOK',
         NEW p \in Procs, RecvDone(p)
  PROVE  Abstract!Next
<1>1. PICK q \in Queues :
        /\ call[p] \in Requests /\ call[p] # NoCall
        /\ call[p].op = "recv" /\ call[p].q = q
  BY CallParts DEF RecvDone
<1> DEFINE F == [k \in Queues |-> Contents(k)]
<1>2. call[p].ok /\ count[q] > 0 /\ buf[p] = msgs[q][head[q]]
  BY <1>1 DEF RecvDone, CopiedInv
<1>3. /\ UNCHANGED msgs
      /\ head'[q] = NextSlot(head[q]) /\ count'[q] = count[q] - 1
      /\ \A k \in Queues \ {q} : head'[k] = head[k] /\ count'[k] = count[k]
  BY <1>1 DEF RecvDone, Set, TypeOK
<1>4. head[q] \in Slots /\ count[q] \in 1 .. MAX_MSGS
  BY <1>1, <1>2 DEF TypeOK
<1>5. Contents(q) \in Seq(Msgs) /\ Len(Contents(q)) = count[q]
  BY <1>1, ContentsIsSeq
<1>6. Contents(q)' \in Seq(Msgs) /\ Len(Contents(q)') = count'[q]
  <2>1. Contents(q)' \in [1 .. count'[q] -> Msgs] /\ count'[q] \in Nat
    BY DEF Contents, RingInv, TypeOK
  <2>2. QED
    BY <2>1, SeqDef
<1>7. Contents(q) # << >>
  BY <1>4, <1>5, EmptySeq
<1>8. Head(Contents(q)) = buf[p]
  <2>1. Head(Contents(q)) = Contents(q)[1]
    BY <1>5, <1>7
  <2>2. Contents(q)[1] = msgs[q][(head[q] + 1 - 1) % MAX_MSGS]
    BY <1>4 DEF Contents
  <2>3. QED
    BY <1>2, <1>4, <2>1, <2>2, FirstSlot
<1>9. Contents(q)' = Tail(Contents(q))
  <2>1. /\ Tail(Contents(q)) \in Seq(Msgs)
        /\ Len(Tail(Contents(q))) = count[q] - 1
        /\ \A j \in 1 .. count[q] - 1 :
             Tail(Contents(q))[j] = Contents(q)[j + 1]
    BY <1>5, <1>7, HeadTailProperties
  <2>2. ASSUME NEW j \in 1 .. count[q] - 1
        PROVE  Contents(q)'[j] = Tail(Contents(q))[j]
    <3>1. Contents(q)'[j] = msgs[q][(NextSlot(head[q]) + j - 1) % MAX_MSGS]
      BY <1>3 DEF Contents
    <3>2. j \in 1 .. MAX_MSGS - 1 /\ j + 1 \in 1 .. count[q]
      BY <1>4
    <3>3. Contents(q)[j + 1] = msgs[q][(head[q] + (j + 1) - 1) % MAX_MSGS]
      BY <3>2 DEF Contents
    <3>4. QED
      BY <1>4, <2>1, <3>1, <3>2, <3>3, ShiftSlot
  <2>3. QED
    BY <1>3, <1>6, <2>1, <2>2, SeqEqual
<1>10. \A k \in Queues \ {q} : Contents(k)' = Contents(k)
  BY <1>3 DEF Contents
<1>11. F' = [F EXCEPT ![q] = Tail(F[q])] /\ F[q] # << >> /\ Head(F[q]) = buf[p]
  BY <1>1, <1>7, <1>8, <1>9, <1>10
<1>12. Abstract!Answer(p, buf[p])
  BY DEF Abstract!Answer, RecvDone, Return, Set
<1>13. Abstract!Recv(p)
  BY <1>1, <1>2, <1>11, <1>12 DEF Abstract!Recv
<1>14. QED
  BY <1>13 DEF Abstract!Next

(* Every step of the system calls is a step of Fifo, or none. *)
LEMMA StepRefines ==
  ASSUME TypeOK, CallInv, CopiedInv, RingInv, TypeOK', RingInv', [Next]_vars
  PROVE  [Abstract!Next]_(Abstract!vars)
<1>1. CASE UNCHANGED vars
  BY <1>1, RingStutters DEF vars
<1>2. ASSUME NEW p \in Procs, NEW rq \in Requests, Call(p, rq)
      PROVE  [Abstract!Next]_(Abstract!vars)
  <2>1. \A q \in Queues : Contents(q)' = Contents(q)
    BY <1>2 DEF Call, ring, Contents
  <2>2. Abstract!Request(p, rq)
    BY <1>2, <2>1 DEF Call, CallInv, Abstract!Request, Set
  <2>3. QED
    BY <2>2 DEF Abstract!Next, Abstract!Requests, Requests
<1>3. ASSUME NEW p \in Procs, Enter(p) PROVE [Abstract!Next]_(Abstract!vars)
  <2>1. CASE TestInitialized(p) \/ InitDone(p) \/ Acquire(p)
    BY <2>1, RingStutters DEF TestInitialized, InitDone, Acquire
  <2>2. CASE InitQueue(p)
    <3>1. \A q \in Queues : count[q] = 0 /\ count'[q] = 0
      BY <2>2 DEF InitQueue, CallInv, RingInv, Set, TypeOK
    <3>2. \A q \in Queues : Contents(q)' = Contents(q)
      BY <3>1 DEF Contents
    <3>3. QED
      BY <2>2, <3>2, StepStutters DEF InitQueue
  <2>3. QED
    BY <1>3, <2>1, <2>2 DEF Enter
<1>4. ASSUME NEW p \in Procs, SendStep(p)
      PROVE  [Abstract!Next]_(Abstract!vars)
  <2> DEFINE q == call[p].q
  <2>1. pc[p] # "idle" /\ q \in Queues
    BY <1>4, CallParts DEF SendStep, SendFull, SendCopy, SendFault, SendDone,
                           Locked
  <2>2. count[q] # MAX_MSGS => count[q] < MAX_MSGS
    <3>1. count[q] \in 0 .. MAX_MSGS
      BY <2>1 DEF TypeOK
    <3>2. QED
      BY <3>1
  <2>3. CASE SendFull(p)
    <3>1. \A k \in Queues : Contents(k)' = Contents(k)
      BY <2>3 DEF SendFull, ring, Contents
    <3>2. QED
      BY <2>1, <2>3, <3>1, FailRefines DEF SendFull, Locked
  <2>4. CASE SendCopy(p)
    BY <2>1, <2>2, <2>4, CopyIsUnseen, StepStutters DEF SendCopy
  <2>5. CASE SendFault(p)
    BY <2>1, <2>2, <2>5, CopyIsUnseen, FailRefines DEF SendFault
  <2>6. CASE SendDone(p)
    BY <2>6, SendRefines
  <2>7. QED
    BY <1>4, <2>3, <2>4, <2>5, <2>6 DEF SendStep
<1>5. ASSUME NEW p \in Procs, RecvStep(p)
      PROVE  [Abstract!Next]_(Abstract!vars)
  <2>1. pc[p] # "idle"
    BY <1>5 DEF RecvStep, RecvEmpty, RecvCopy, RecvFault, RecvDone, Locked
  <2>2. CASE RecvEmpty(p) \/ RecvFault(p)
    <3>1. \A k \in Queues : Contents(k)' = Contents(k)
      BY <2>2 DEF RecvEmpty, RecvFault, ring, Contents
    <3>2. QED
      BY <2>1, <2>2, <3>1, FailRefines DEF RecvEmpty, RecvFault, Locked
  <2>3. CASE RecvCopy(p)
    BY <2>3, RingStutters DEF RecvCopy
  <2>4. CASE RecvDone(p)
    BY <2>4, RecvRefines
  <2>5. QED
    BY <1>5, <2>2, <2>3, <2>4 DEF RecvStep
<1>6. QED
  BY <1>1, <1>2, <1>3, <1>4, <1>5 DEF Next

(* The rings of msgq_send() and msgq_recv() are bounded FIFO queues. *)
THEOREM QueueRefinement == ASSUME OneEarly PROVE Spec => ImplementsFifo
<1>1. Init => Abstract!Init
  BY DEF Init, Abstract!Init, Contents
<1>2. QED
  BY <1>1, StepRefines, QueueInvariance, PTL
     DEF Spec, ImplementsFifo, Abstract!Spec

-----------------------------------------------------------------------------
(* All parts *)

(* The instance moves one part at a time, each by steps of its own module. *)
LEMMA StepsOfParts ==
  [IoNext]_ioVars =>
    /\ [Next]_vars /\ [LogNext]_logVars /\ [VirtioNext]_viVars /\ [ConsoleNext]_consVars
    /\ [UartNext]_uartVars /\ [PipeNext]_pipeVars /\ [FileDataNext]_fdVars
<1> SUFFICES ASSUME [IoNext]_ioVars
             PROVE  /\ [Next]_vars /\ [LogNext]_logVars /\ [VirtioNext]_viVars /\ [ConsoleNext]_consVars
                    /\ [UartNext]_uartVars /\ [PipeNext]_pipeVars /\ [FileDataNext]_fdVars
  OBVIOUS
<1>1. CASE UNCHANGED ioVars
  <2>1. UNCHANGED <<vars, logVars, viVars, consVars, uartVars, pipeVars, fdVars>>
    BY <1>1 DEF ioVars
  <2>2. QED
    BY <2>1
<1>2. CASE QueueNext
  <2>1. UNCHANGED <<logVars, viVars, consVars, uartVars, pipeVars, fdVars>>
    BY <1>2 DEF QueueNext, Queue
  <2>2. Next
    BY <1>2 DEF QueueNext, Queue, Next, Enter, SendStep, RecvStep
  <2>3. QED
    BY <2>1, <2>2
<1>3. CASE LogsNext
  <2>1. UNCHANGED <<vars, viVars, consVars, uartVars, pipeVars, fdVars>>
    BY <1>3 DEF LogsNext, Logs
  <2>2. LogNext
    BY <1>3 DEF LogsNext, Logs, LogNext, OpStep, CommitStep, RecoverStep
  <2>3. QED
    BY <2>1, <2>2
<1>4. CASE DrivesNext
  <2>1. UNCHANGED <<vars, logVars, consVars, uartVars, pipeVars, fdVars>>
    BY <1>4 DEF DrivesNext, Drives
  <2>2. VirtioNext
    BY <1>4 DEF DrivesNext, Drives, VirtioNext
  <2>3. QED
    BY <2>1, <2>2
<1>5. CASE ConsNext
  <2>1. UNCHANGED <<vars, logVars, viVars, uartVars, pipeVars, fdVars>>
    BY <1>5 DEF ConsNext, Cons
  <2>2. ConsoleNext
    BY <1>5 DEF ConsNext, Cons, ConsoleNext
  <2>3. QED
    BY <2>1, <2>2
<1>6. CASE PortNext
  <2>1. UNCHANGED <<vars, logVars, viVars, consVars, pipeVars, fdVars>>
    BY <1>6 DEF PortNext, Port
  <2>2. UartNext
    BY <1>6 DEF PortNext, Port, UartNext
  <2>3. QED
    BY <2>1, <2>2
<1>7. CASE PipesNext
  <2>1. UNCHANGED <<vars, logVars, viVars, consVars, uartVars, fdVars>>
    BY <1>7 DEF PipesNext, Pipes
  <2>2. PipeNext
    BY <1>7 DEF PipesNext, Pipes, PipeNext, PipeStep
  <2>3. QED
    BY <2>1, <2>2
<1>8. CASE FilesNext
  <2>1. UNCHANGED <<vars, logVars, viVars, consVars, uartVars, pipeVars>>
    BY <1>8 DEF FilesNext, Allots
  <2>2. FileDataNext
    BY <1>8 DEF FilesNext, Allots, FileDataNext
  <2>3. QED
    BY <2>1, <2>2
<1>9. QED
  BY <1>1, <1>2, <1>3, <1>4, <1>5, <1>6, <1>7, <1>8 DEF IoNext

(* What all parts keep *)
PartsInv ==
  /\ IInv /\ BeginWaitsHaveCause
  /\ VirtioInv /\ ConsoleInv /\ UartInv /\ PipeInv /\ FileDataInv

(* Every part keeps its invariant. *)
LEMMA PartsSafe == IoSpec => []PartsInv
<1>1. IoInit => PartsInv
  <2>1. LogInit => BeginWaitsHaveCause
    BY DEF LogInit, BeginWaitsHaveCause
  <2>2. QED
    BY <2>1, InitInv, VirtioInit1, ConsoleInit1, UartInit1, PipeInit1, FileInit1 DEF IoInit, PartsInv
<1>2. PartsInv /\ [IoNext]_ioVars => PartsInv'
  <2>1. IInv /\ [LogNext]_logVars => IInv'
    BY NextTypeOK, NextBufInv, NextOpInv, NextRoomInv, NextCopyInv DEF IInv
  <2>2. QED
    BY <2>1, StepsOfParts, NextBeginWaits, VirtioStep, ConsoleStep, UartStep, PipeNextStep, FileNextStep
       DEF PartsInv
<1>3. QED
  BY <1>1, <1>2, PTL DEF IoSpec

(* Each disk request is done once with descriptors of its own, keys are    *)
(* read in order, pipes keep their bytes and their ends, blocks have one   *)
(* owner and files no holes, and nobody sleeps without a reason that ends  *)
(* with a wakeup().                                                        *)
THEOREM IoSafe ==
  IoSpec => [](/\ DiskWorks /\ TypedInOrder /\ PipeWorks /\ FilesKeepBlocks /\ SleepersHaveCause)
<1>1. PartsInv => DiskWorks /\ TypedInOrder /\ PipeWorks /\ FilesKeepBlocks /\ SleepersHaveCause
  <2>1. UartInv => WritersWaitForPort
    BY DEF UartInv, WritersWaitForPort
  <2>2. QED
    BY <2>1, VirtioSafe, ConsoleSafe, PipeSafe, FileSafe DEF PartsInv, SleepersHaveCause, FilesKeepBlocks
<1>2. QED
  BY <1>1, PartsSafe, PTL

(* In the instance with all parts, balloc(), bmap() and itrunc() keep each *)
(* block in one place of one file, and no file has a hole.                 *)
THEOREM IoFiles == IoSpec => []FilesKeepBlocks
  BY IoSafe, PTL

(* Also the port is not overrun, if its FIFO holds three bytes or more. *)
THEOREM IoConsole ==
  ASSUME TXFIFO >= 3
  PROVE  IoSpec => []ConsoleWorks
<1>1. UartInv => PortHasRoom
  BY UartAssumption DEF UartInv, PortHasRoom, UartTypeOK, Owed
<1>2. PartsInv => ConsoleWorks
  BY <1>1, ConsoleSafe DEF PartsInv, ConsoleWorks
<1>3. QED
  BY <1>2, PartsSafe, PTL

(* In the instance, too, the rings implement Fifo, their counts stay in    *)
(* range, and they have one process at a time in them.                     *)
THEOREM IoQueues ==
  ASSUME OneEarly
  PROVE  IoSpec => ImplementsFifo /\ []QueuesWork
<1>1. IoInit => Init
  BY DEF IoInit
<1>2. [IoNext]_ioVars => [Next]_vars
  BY StepsOfParts
<1>3. IoSpec => Spec
  BY <1>1, <1>2, PTL DEF IoSpec, Spec
<1>4. Spec => ImplementsFifo
  BY QueueRefinement
<1>5. Spec => []TypeOK /\ []OneAtATime
  BY QueueTypes, QueueExclusion
<1>6. TypeOK /\ OneAtATime => QueuesWork
  BY DEF QueuesWork
<1>7. QED
  BY <1>3, <1>4, <1>5, <1>6, PTL
=============================================================================
