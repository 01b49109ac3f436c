-------------------------- MODULE ThreadMemProofs --------------------------
(***************************************************************************)
(* Proofs about ThreadMem for any number of slots, frames and pages: the   *)
(* inductive invariant IInv of who holds which frame, and the invariants   *)
(* of the run, for programs that keep the rules of Discipline.             *)
(***************************************************************************)
EXTENDS ThreadMem, TLAPS

USE InitprocAssumption, PagesAssumption, FramesAssumption

-----------------------------------------------------------------------------
(* The invariant *)

(* What a slot holds, and who is where. *)
SlotInv ==
  /\ \A p \in Tasks :
       /\ p_state[p] = "UNUSED" =>
            table[p] = {} /\ pt[p] = EmptyTable /\ sz[p] = 0 /\ mem_parent[p] = NoTask
       /\ p_state[p] = "USED" => sz[p] = 0 /\ mem_parent[p] = NoTask
       /\ mem_pc[p] # "user" => p_state[p] = "RUNNABLE"
       /\ child[p] # NoTask <=> mem_pc[p] \in {"fork", "clone"}
       /\ child[p] # NoTask => p_state[child[p]] = "USED"
       /\ mem_pc[p] # "exec" => image[p] = NoImage
  /\ \A p, q \in Tasks : child[p] = child[q] /\ child[p] # NoTask => p = q

(* How far the loops have come *)
LoopInv ==
  \A p \in Tasks :
    /\ mem_pc[p] = "user" => i[p] = 0
    /\ mem_pc[p] \in {"fork", "clone"} => i[p] <= sz[p]
    /\ mem_pc[p] = "grow" => sz[p] <= i[p] /\ i[p] <= goal[p]
    /\ mem_pc[p] = "exec" => i[p] <= ExecPages

(* Which pages of a page table may have an entry *)
PageExtent ==
  \A p \in Tasks, k \in Pages : pt[p][k] # Nowhere =>
    /\ mem_pc[p] = "grow" => k < i[p]
    /\ mem_pc[p] # "grow" /\ p_state[p] # "USED" => k < sz[p]
    /\ \A q \in Tasks : child[q] = p => k < i[q]

ImageExtent ==
  \A p \in Tasks, k \in Pages : image[p].pt[k] # Nowhere => k < i[p]

ExtentInv == PageExtent /\ ImageExtent /\ NoPanic

(* What holds whether or not programs keep the rules *)
BaseInv == MemTypeOK /\ SlotInv /\ LoopInv /\ ExtentInv

(* What a thread may rely on: its creator is there, and has in its page    *)
(* table what the thread has in its own.                                   *)
CreatorInv ==
  \A p \in Tasks : p_state[p] = "RUNNABLE" /\ is_thread(p) =>
    /\ p_state[mem_parent[p]] = "RUNNABLE"
    /\ sz[p] <= sz[mem_parent[p]]
    /\ \A k \in Pages : pt[p][k] \in {Nowhere, pt[mem_parent[p]][k]}

CloneInv ==
  \A p \in Tasks : mem_pc[p] = "clone" =>
    \A k \in Pages : pt[child[p]][k] \in {Nowhere, pt[p][k]}

(* Who is inside sbrk() or exec() keeps the rules. *)
RulesInv ==
  \A p \in Tasks :
    /\ mem_pc[p] \in {"grow", "exec"} => ~is_thread(p)
    /\ mem_pc[p] = "exec" => Borrowers(p) = {}

ThreadInv == CreatorInv /\ CloneInv /\ RulesInv

(* Every line of creators ends: among any threads there is one whose       *)
(* creator is not among them.                                              *)
Threads == {p \in Tasks : p_state[p] = "RUNNABLE" /\ is_thread(p)}

LinesEnd ==
  \A S \in SUBSET Threads : S # {} => \E p \in S : mem_parent[p] \notin S

(* The frame that a PTE points to, if any *)
Entry(e) == {e} \ {Nowhere}

Borrowing == {p \in Tasks : Borrows(p)}

Owned ==
  [p \in Tasks |-> [k \in Pages |-> IF p \in Borrowing THEN {} ELSE Entry(pt[p][k])]]

(* The places that a frame may be in, and what is there: the entries of a  *)
(* page table that borrows its frames do not count.                        *)
Kinds == {"table", "newtable", "page", "newpage"}
Places == Kinds \X Tasks \X Pages

Holdings ==
  [w \in Places |->
     CASE w[1] = "table" -> IF w[3] = 0 THEN table[w[2]] ELSE {}
       [] w[1] = "newtable" -> IF w[3] = 0 THEN image[w[2]].table ELSE {}
       [] w[1] = "page" -> Owned[w[2]][w[3]]
       [] w[1] = "newpage" -> Entry(image[w[2]].pt[w[3]])]

(* Each frame is free or in one place. *)
Shared(h, fr) ==
  /\ \A v, w \in Places : v # w => h[v] \cap h[w] = {}
  /\ \A w \in Places : h[w] \cap fr = {}
  /\ \A f \in Frames : f \in fr \/ \E w \in Places : f \in h[w]

FrameInv == Shared(Holdings, free)

IInv == BaseInv /\ ThreadInv /\ LinesEnd /\ FrameInv

-----------------------------------------------------------------------------
(* Page tables *)

(* The empty page table, and those made by setting or clearing entries. *)
LEMMA TableType ==
  /\ EmptyTable \in Table
  /\ NoImage \in [table : SUBSET Frames, pt : Table]
  /\ \A from, to : \A t \in Table : Unmap(t, from, to) \in Table
  /\ \A t \in Table, k \in Pages, f \in Frames : [t EXCEPT ![k] = f] \in Table
  BY DEF EmptyTable, NoImage, Table, Unmap

(* Setting one entry of one page table. *)
LEMMA EntryType ==
  ASSUME NEW x, NEW k, NEW f \in Frames \cup {Nowhere}
  PROVE  /\ \A g \in [Tasks -> Table] :
              [g EXCEPT ![x][k] = f] \in [Tasks -> Table]
         /\ \A g \in [Tasks -> [table : SUBSET Frames, pt : Table]] :
              [g EXCEPT ![x].pt[k] = f] \in [Tasks -> [table : SUBSET Frames, pt : Table]]
<1>1. \A g \in [Tasks -> Table] :
        [g EXCEPT ![x][k] = f] \in [Tasks -> Table]
  BY DEF Table
<1>2. ASSUME NEW g \in [Tasks -> [table : SUBSET Frames, pt : Table]]
      PROVE  [g EXCEPT ![x].pt[k] = f] \in [Tasks -> [table : SUBSET Frames, pt : Table]]
  <2>1. \A y \in Tasks : [g[y].pt EXCEPT ![k] = f] \in Table
    BY DEF Table
  <2>2. QED
    BY <2>1
<1>3. QED
  BY <1>1, <1>2

(* The number of pages is a number. *)
LEMMA SizeRange == 0 \in 0 .. NPAGES /\ Pages \subseteq 0 .. NPAGES
  BY DEF Pages

(* The frames of a page table are frames. *)
LEMMA MappedFrames ==
  \A from, to : \A t \in Table : Mapped(t, from, to) \subseteq Frames
  BY DEF Mapped, Table

-----------------------------------------------------------------------------
(* MemTypeOK in three parts *)
ProcType ==
  /\ p_state \in [Tasks -> {"UNUSED", "USED", "RUNNABLE", "ZOMBIE"}]
  /\ p_parent \in [Tasks -> Tasks \cup {NoTask}]
  /\ mem_parent \in [Tasks -> Tasks \cup {NoTask}]
  /\ mem_pc \in [Tasks -> MayCall]
  /\ child \in [Tasks -> Tasks \cup {NoTask}]
  /\ panicked \in BOOLEAN

SizeType ==
  /\ sz \in [Tasks -> 0 .. NPAGES]
  /\ i \in [Tasks -> 0 .. NPAGES]
  /\ goal \in [Tasks -> 0 .. NPAGES]

FrameType ==
  /\ free \subseteq Frames
  /\ table \in [Tasks -> SUBSET Frames]
  /\ pt \in [Tasks -> Table]
  /\ image \in [Tasks -> [table : SUBSET Frames, pt : Table]]

(* MemTypeOK is the three parts together. *)
LEMMA TypeParts == MemTypeOK <=> ProcType /\ SizeType /\ FrameType
  BY DEF MemTypeOK, ProcType, SizeType, FrameType

(* Every field stays in its range. *)
LEMMA NextProcType ==
  ProcType /\ [MemNext]_memVars => ProcType'
<1> SUFFICES ASSUME ProcType, [MemNext]_memVars PROVE ProcType'
  OBVIOUS
<1> USE DEF ProcType, MayCall, SetAt, MemGoto, p_vars, space, loop
<1>1. ASSUME NEW p \in Tasks, NEW x \in Tasks, NEW call \in {"fork", "clone"}, Spawn(p, x, call)
      PROVE  ProcType'
  BY <1>1 DEF Spawn, InUser
<1>2. ASSUME NEW p \in Tasks, SkipPage(p)
      PROVE  ProcType'
  BY <1>2 DEF SkipPage, Copies
<1>3. ASSUME NEW p \in Tasks, CopyPage(p)
      PROVE  ProcType'
  BY <1>3 DEF CopyPage, Copies
<1>4. ASSUME NEW p \in Tasks, SharePage(p)
      PROVE  ProcType'
  BY <1>4 DEF SharePage, Copies
<1>5. ASSUME NEW p \in Tasks, CopyStops(p)
      PROVE  ProcType'
  BY <1>5 DEF CopyStops, Copies, freeproc, EndCall
<1>6. ASSUME NEW p \in Tasks, ShareFails(p)
      PROVE  ProcType'
  BY <1>6 DEF ShareFails, Copies, freeproc, EndCall
<1>7. ASSUME NEW p \in Tasks, Created(p)
      PROVE  ProcType'
  BY <1>7 DEF Created, EndCall
<1>8. ASSUME NEW p \in Tasks, NEW n \in 1 .. NPAGES, LazyGrow(p, n)
      PROVE  ProcType'
  BY <1>8 DEF LazyGrow, InUser
<1>9. ASSUME NEW p \in Tasks, NEW n \in 1 .. NPAGES, Grow(p, n)
      PROVE  ProcType'
  BY <1>9 DEF Grow, InUser
<1>10. ASSUME NEW p \in Tasks, NEW n \in Pages, Shrink(p, n)
      PROVE  ProcType'
  BY <1>10 DEF Shrink, InUser
<1>11. ASSUME NEW p \in Tasks, NEW n \in Pages, Fault(p, n)
      PROVE  ProcType'
  BY <1>11 DEF Fault, InUser
<1>12. ASSUME NEW p \in Tasks, GrowPage(p)
      PROVE  ProcType'
  BY <1>12 DEF GrowPage
<1>13. ASSUME NEW p \in Tasks, GrowFails(p)
      PROVE  ProcType'
  BY <1>13 DEF GrowFails, EndCall
<1>14. ASSUME NEW p \in Tasks, GrowDone(p)
      PROVE  ProcType'
  BY <1>14 DEF GrowDone, EndCall
<1>15. ASSUME NEW p \in Tasks, Exec(p)
      PROVE  ProcType'
  BY <1>15 DEF Exec, InUser
<1>16. ASSUME NEW p \in Tasks, ExecPage(p)
      PROVE  ProcType'
  BY <1>16 DEF ExecPage
<1>17. ASSUME NEW p \in Tasks, ExecFails(p)
      PROVE  ProcType'
  BY <1>17 DEF ExecFails, EndCall
<1>18. ASSUME NEW p \in Tasks, ExecDone(p)
      PROVE  ProcType'
  BY <1>18 DEF ExecDone, EndCall
<1>19. ASSUME NEW p \in Tasks, Exit(p)
      PROVE  ProcType'
  BY <1>19 DEF Exit, InUser
<1>20. ASSUME NEW p \in Tasks, NEW x \in Tasks, Collect(p, x)
      PROVE  ProcType'
  BY <1>20 DEF Collect, InUser, freeproc
<1>21. CASE UNCHANGED memVars
  BY <1>21 DEF memVars
<1> HIDE DEF ProcType, MayCall, SetAt, MemGoto, p_vars, space, loop
<1>22. QED
  BY <1>1, <1>2, <1>3, <1>4, <1>5, <1>6, <1>7, <1>8, <1>9, <1>10, <1>11,
     <1>12, <1>13, <1>14, <1>15, <1>16, <1>17, <1>18, <1>19, <1>20, <1>21
  DEF MemNext, Create, Resize, Replace, Leave

(* Sizes and loop counters stay within the user pages. *)
LEMMA NextSizeType ==
  MemTypeOK /\ LoopInv /\ [MemNext]_memVars => SizeType'
<1> SUFFICES ASSUME MemTypeOK /\ LoopInv, [MemNext]_memVars PROVE SizeType'
  OBVIOUS
<1> USE DEF SizeType, LoopInv, MemTypeOK, SetAt, MemGoto, p_vars, space, loop
<1>1. ASSUME NEW p \in Tasks, NEW x \in Tasks, NEW call \in {"fork", "clone"}, Spawn(p, x, call)
      PROVE  SizeType'
  BY <1>1 DEF Spawn, InUser
<1>2. ASSUME NEW p \in Tasks, SkipPage(p)
      PROVE  SizeType'
  BY <1>2 DEF SkipPage, Copies
<1>3. ASSUME NEW p \in Tasks, CopyPage(p)
      PROVE  SizeType'
  BY <1>3 DEF CopyPage, Copies
<1>4. ASSUME NEW p \in Tasks, SharePage(p)
      PROVE  SizeType'
  BY <1>4 DEF SharePage, Copies
<1>5. ASSUME NEW p \in Tasks, CopyStops(p)
      PROVE  SizeType'
  BY <1>5, SizeRange DEF CopyStops, Copies, freeproc, EndCall
<1>6. ASSUME NEW p \in Tasks, ShareFails(p)
      PROVE  SizeType'
  BY <1>6, SizeRange DEF ShareFails, Copies, freeproc, EndCall
<1>7. ASSUME NEW p \in Tasks, Created(p)
      PROVE  SizeType'
  BY <1>7, SizeRange DEF Created, EndCall
<1>8. ASSUME NEW p \in Tasks, NEW n \in 1 .. NPAGES, LazyGrow(p, n)
      PROVE  SizeType'
  BY <1>8 DEF LazyGrow, InUser
<1>9. ASSUME NEW p \in Tasks, NEW n \in 1 .. NPAGES, Grow(p, n)
      PROVE  SizeType'
  BY <1>9 DEF Grow, InUser
<1>10. ASSUME NEW p \in Tasks, NEW n \in Pages, Shrink(p, n)
      PROVE  SizeType'
  BY <1>10, SizeRange DEF Shrink, InUser
<1>11. ASSUME NEW p \in Tasks, NEW n \in Pages, Fault(p, n)
      PROVE  SizeType'
  BY <1>11 DEF Fault, InUser
<1>12. ASSUME NEW p \in Tasks, GrowPage(p)
      PROVE  SizeType'
  BY <1>12 DEF GrowPage
<1>13. ASSUME NEW p \in Tasks, GrowFails(p)
      PROVE  SizeType'
  BY <1>13, SizeRange DEF GrowFails, EndCall
<1>14. ASSUME NEW p \in Tasks, GrowDone(p)
      PROVE  SizeType'
  BY <1>14, SizeRange DEF GrowDone, EndCall
<1>15. ASSUME NEW p \in Tasks, Exec(p)
      PROVE  SizeType'
  BY <1>15 DEF Exec, InUser
<1>16. ASSUME NEW p \in Tasks, ExecPage(p)
      PROVE  SizeType'
  BY <1>16 DEF ExecPage
<1>17. ASSUME NEW p \in Tasks, ExecFails(p)
      PROVE  SizeType'
  BY <1>17 DEF ExecFails, EndCall
<1>18. ASSUME NEW p \in Tasks, ExecDone(p)
      PROVE  SizeType'
  BY <1>18 DEF ExecDone, EndCall
<1>19. ASSUME NEW p \in Tasks, Exit(p)
      PROVE  SizeType'
  BY <1>19 DEF Exit, InUser
<1>20. ASSUME NEW p \in Tasks, NEW x \in Tasks, Collect(p, x)
      PROVE  SizeType'
  BY <1>20 DEF Collect, InUser, freeproc
<1>21. CASE UNCHANGED memVars
  BY <1>21 DEF memVars
<1> HIDE DEF SizeType, LoopInv, MemTypeOK, SetAt, MemGoto, p_vars, space, loop
<1>22. QED
  BY <1>1, <1>2, <1>3, <1>4, <1>5, <1>6, <1>7, <1>8, <1>9, <1>10, <1>11,
     <1>12, <1>13, <1>14, <1>15, <1>16, <1>17, <1>18, <1>19, <1>20, <1>21
  DEF MemNext, Create, Resize, Replace, Leave

(* Frames stay frames, and page tables page tables. *)
LEMMA NextFrameType ==
  MemTypeOK /\ SlotInv /\ LoopInv /\ [MemNext]_memVars => FrameType'
<1> SUFFICES ASSUME MemTypeOK /\ SlotInv /\ LoopInv, [MemNext]_memVars PROVE FrameType'
  OBVIOUS
<1> USE DEF FrameType, LoopInv, MemTypeOK, SetAt, MemGoto, p_vars, space, loop
<1>1. ASSUME NEW p \in Tasks, NEW x \in Tasks, NEW call \in {"fork", "clone"}, Spawn(p, x, call)
      PROVE  FrameType'
  BY <1>1 DEF Spawn, InUser
<1>2. ASSUME NEW p \in Tasks, SkipPage(p)
      PROVE  FrameType'
  BY <1>2 DEF SkipPage, Copies
<1>3. ASSUME NEW p \in Tasks, CopyPage(p)
      PROVE  FrameType'
  <2>1. PICK f \in free : free' = free \ {f} /\ pt' = [pt EXCEPT ![child[p]][i[p]] = f]
    BY <1>3 DEF CopyPage
  <2>2. pt' \in [Tasks -> Table]
    BY <2>1, EntryType
  <2>3. QED
    BY <1>3, <2>1, <2>2 DEF CopyPage
<1>4. ASSUME NEW p \in Tasks, SharePage(p)
      PROVE  FrameType'
  <2>1. pt[p][i[p]] \in Frames \cup {Nowhere}
    BY <1>4 DEF SharePage, Copies, Pages, Table
  <2>2. pt' \in [Tasks -> Table]
    BY <1>4, <2>1, EntryType DEF SharePage
  <2>3. QED
    BY <1>4, <2>2 DEF SharePage
<1>5. ASSUME NEW p \in Tasks, CopyStops(p)
      PROVE  FrameType'
  <2>1. child[p] \in Tasks
    BY <1>5 DEF CopyStops, Copies, SlotInv
  <2>2. free' \subseteq Frames
    BY <1>5, <2>1, TableType, MappedFrames DEF CopyStops, Freed
  <2>3. QED
    BY <1>5, <2>2, TableType DEF CopyStops, freeproc, EndCall
<1>6. ASSUME NEW p \in Tasks, ShareFails(p)
      PROVE  FrameType'
  <2>1. child[p] \in Tasks
    BY <1>6 DEF ShareFails, Copies, SlotInv
  <2>2. free' \subseteq Frames
    BY <1>6, <2>1, TableType, MappedFrames DEF ShareFails, Freed
  <2>3. QED
    BY <1>6, <2>2, TableType DEF ShareFails, freeproc, EndCall
<1>7. ASSUME NEW p \in Tasks, Created(p)
      PROVE  FrameType'
  BY <1>7, TableType, MappedFrames DEF Created, EndCall
<1>8. ASSUME NEW p \in Tasks, NEW n \in 1 .. NPAGES, LazyGrow(p, n)
      PROVE  FrameType'
  BY <1>8 DEF LazyGrow, InUser
<1>9. ASSUME NEW p \in Tasks, NEW n \in 1 .. NPAGES, Grow(p, n)
      PROVE  FrameType'
  BY <1>9 DEF Grow, InUser
<1>10. ASSUME NEW p \in Tasks, NEW n \in Pages, Shrink(p, n)
      PROVE  FrameType'
  <2>1. free' \subseteq Frames
    BY <1>10, MappedFrames DEF Shrink
  <2>2. pt' \in [Tasks -> Table]
    BY <1>10, TableType DEF Shrink
  <2>3. QED
    BY <1>10, <2>1, <2>2 DEF Shrink
<1>11. ASSUME NEW p \in Tasks, NEW n \in Pages, Fault(p, n)
      PROVE  FrameType'
  <2>1. PICK f \in free : free' = free \ {f} /\ pt' = [pt EXCEPT ![p][n] = f]
    BY <1>11 DEF Fault
  <2>2. pt' \in [Tasks -> Table]
    BY <2>1, EntryType
  <2>3. QED
    BY <1>11, <2>1, <2>2 DEF Fault
<1>12. ASSUME NEW p \in Tasks, GrowPage(p)
      PROVE  FrameType'
  <2>1. PICK f \in free : free' = free \ {f} /\ pt' = [pt EXCEPT ![p][i[p]] = f]
    BY <1>12 DEF GrowPage
  <2>2. pt' \in [Tasks -> Table]
    BY <2>1, EntryType
  <2>3. QED
    BY <1>12, <2>1, <2>2 DEF GrowPage
<1>13. ASSUME NEW p \in Tasks, GrowFails(p)
      PROVE  FrameType'
  <2>1. free' \subseteq Frames
    BY <1>13, MappedFrames DEF GrowFails
  <2>2. pt' \in [Tasks -> Table]
    BY <1>13, TableType DEF GrowFails
  <2>3. QED
    BY <1>13, <2>1, <2>2, TableType DEF GrowFails, EndCall
<1>14. ASSUME NEW p \in Tasks, GrowDone(p)
      PROVE  FrameType'
  BY <1>14, TableType, MappedFrames DEF GrowDone, EndCall
<1>15. ASSUME NEW p \in Tasks, Exec(p)
      PROVE  FrameType'
  BY <1>15, TableType, MappedFrames DEF Exec, InUser
<1>16. ASSUME NEW p \in Tasks, ExecPage(p)
      PROVE  FrameType'
  <2>1. PICK f \in free : free' = free \ {f} /\ image' = [image EXCEPT ![p].pt[i[p]] = f]
    BY <1>16 DEF ExecPage
  <2>2. image' \in [Tasks -> [table : SUBSET Frames, pt : Table]]
    BY <2>1, EntryType
  <2>3. QED
    BY <1>16, <2>1, <2>2 DEF ExecPage
<1>17. ASSUME NEW p \in Tasks, ExecFails(p)
      PROVE  FrameType'
  <2>1. free' \subseteq Frames
    BY <1>17, MappedFrames DEF ExecFails
  <2>2. QED
    BY <1>17, <2>1, TableType DEF ExecFails, EndCall
<1>18. ASSUME NEW p \in Tasks, ExecDone(p)
      PROVE  FrameType'
  BY <1>18, TableType, MappedFrames DEF ExecDone, EndCall
<1>19. ASSUME NEW p \in Tasks, Exit(p)
      PROVE  FrameType'
  BY <1>19 DEF Exit, InUser
<1>20. ASSUME NEW p \in Tasks, NEW x \in Tasks, Collect(p, x)
      PROVE  FrameType'
  BY <1>20, TableType, MappedFrames DEF Collect, InUser, freeproc, Freed
<1>21. CASE UNCHANGED memVars
  BY <1>21 DEF memVars
<1> HIDE DEF FrameType, LoopInv, MemTypeOK, SetAt, MemGoto, p_vars, space, loop
<1>22. QED
  BY <1>1, <1>2, <1>3, <1>4, <1>5, <1>6, <1>7, <1>8, <1>9, <1>10, <1>11,
     <1>12, <1>13, <1>14, <1>15, <1>16, <1>17, <1>18, <1>19, <1>20, <1>21
  DEF MemNext, Create, Resize, Replace, Leave

(* A slot is filled by one process, which is inside fork() or clone(). *)
LEMMA NextSlotInv ==
  MemTypeOK /\ SlotInv /\ [MemNext]_memVars => SlotInv'
<1> SUFFICES ASSUME MemTypeOK /\ SlotInv, [MemNext]_memVars PROVE SlotInv'
  OBVIOUS
<1> USE DEF SlotInv, MemTypeOK, is_thread, SetAt, MemGoto, p_vars, space, loop
<1>1. ASSUME NEW p \in Tasks, NEW x \in Tasks, NEW call \in {"fork", "clone"}, Spawn(p, x, call)
      PROVE  SlotInv'
  BY <1>1 DEF Spawn, InUser
<1>2. ASSUME NEW p \in Tasks, SkipPage(p)
      PROVE  SlotInv'
  BY <1>2 DEF SkipPage, Copies
<1>3. ASSUME NEW p \in Tasks, CopyPage(p)
      PROVE  SlotInv'
  BY <1>3 DEF CopyPage, Copies
<1>4. ASSUME NEW p \in Tasks, SharePage(p)
      PROVE  SlotInv'
  BY <1>4 DEF SharePage, Copies
<1>5. ASSUME NEW p \in Tasks, CopyStops(p)
      PROVE  SlotInv'
  BY <1>5 DEF CopyStops, Copies, freeproc, EndCall
<1>6. ASSUME NEW p \in Tasks, ShareFails(p)
      PROVE  SlotInv'
  BY <1>6 DEF ShareFails, Copies, freeproc, EndCall
<1>7. ASSUME NEW p \in Tasks, Created(p)
      PROVE  SlotInv'
  BY <1>7 DEF Created, EndCall
<1>8. ASSUME NEW p \in Tasks, NEW n \in 1 .. NPAGES, LazyGrow(p, n)
      PROVE  SlotInv'
  BY <1>8 DEF LazyGrow, InUser
<1>9. ASSUME NEW p \in Tasks, NEW n \in 1 .. NPAGES, Grow(p, n)
      PROVE  SlotInv'
  BY <1>9 DEF Grow, InUser
<1>10. ASSUME NEW p \in Tasks, NEW n \in Pages, Shrink(p, n)
      PROVE  SlotInv'
  BY <1>10 DEF Shrink, InUser
<1>11. ASSUME NEW p \in Tasks, NEW n \in Pages, Fault(p, n)
      PROVE  SlotInv'
  BY <1>11 DEF Fault, InUser
<1>12. ASSUME NEW p \in Tasks, GrowPage(p)
      PROVE  SlotInv'
  BY <1>12 DEF GrowPage
<1>13. ASSUME NEW p \in Tasks, GrowFails(p)
      PROVE  SlotInv'
  BY <1>13 DEF GrowFails, EndCall
<1>14. ASSUME NEW p \in Tasks, GrowDone(p)
      PROVE  SlotInv'
  BY <1>14 DEF GrowDone, EndCall
<1>15. ASSUME NEW p \in Tasks, Exec(p)
      PROVE  SlotInv'
  BY <1>15 DEF Exec, InUser
<1>16. ASSUME NEW p \in Tasks, ExecPage(p)
      PROVE  SlotInv'
  BY <1>16 DEF ExecPage
<1>17. ASSUME NEW p \in Tasks, ExecFails(p)
      PROVE  SlotInv'
  BY <1>17 DEF ExecFails, EndCall
<1>18. ASSUME NEW p \in Tasks, ExecDone(p)
      PROVE  SlotInv'
  BY <1>18 DEF ExecDone, EndCall
<1>19. ASSUME NEW p \in Tasks, Exit(p)
      PROVE  SlotInv'
  BY <1>19 DEF Exit, InUser
<1>20. ASSUME NEW p \in Tasks, NEW x \in Tasks, Collect(p, x)
      PROVE  SlotInv'
  BY <1>20 DEF Collect, InUser, freeproc
<1>21. CASE UNCHANGED memVars
  BY <1>21 DEF memVars
<1> HIDE DEF SlotInv, MemTypeOK, is_thread, SetAt, MemGoto, p_vars, space, loop
<1>22. QED
  BY <1>1, <1>2, <1>3, <1>4, <1>5, <1>6, <1>7, <1>8, <1>9, <1>10, <1>11,
     <1>12, <1>13, <1>14, <1>15, <1>16, <1>17, <1>18, <1>19, <1>20, <1>21
  DEF MemNext, Create, Resize, Replace, Leave

(* The loops stay between their ends. *)
LEMMA NextLoopInv ==
  MemTypeOK /\ SlotInv /\ LoopInv /\ [MemNext]_memVars => LoopInv'
<1> SUFFICES ASSUME MemTypeOK /\ SlotInv /\ LoopInv, [MemNext]_memVars PROVE LoopInv'
  OBVIOUS
<1> USE DEF LoopInv, SlotInv, MemTypeOK, SetAt, MemGoto, p_vars, space, loop
<1>1. ASSUME NEW p \in Tasks, NEW x \in Tasks, NEW call \in {"fork", "clone"}, Spawn(p, x, call)
      PROVE  LoopInv'
  BY <1>1 DEF Spawn, InUser
<1>2. ASSUME NEW p \in Tasks, SkipPage(p)
      PROVE  LoopInv'
  BY <1>2 DEF SkipPage, Copies
<1>3. ASSUME NEW p \in Tasks, CopyPage(p)
      PROVE  LoopInv'
  BY <1>3 DEF CopyPage, Copies
<1>4. ASSUME NEW p \in Tasks, SharePage(p)
      PROVE  LoopInv'
  BY <1>4 DEF SharePage, Copies
<1>5. ASSUME NEW p \in Tasks, CopyStops(p)
      PROVE  LoopInv'
  BY <1>5 DEF CopyStops, Copies, freeproc, EndCall
<1>6. ASSUME NEW p \in Tasks, ShareFails(p)
      PROVE  LoopInv'
  BY <1>6 DEF ShareFails, Copies, freeproc, EndCall
<1>7. ASSUME NEW p \in Tasks, Created(p)
      PROVE  LoopInv'
  BY <1>7 DEF Created, EndCall
<1>8. ASSUME NEW p \in Tasks, NEW n \in 1 .. NPAGES, LazyGrow(p, n)
      PROVE  LoopInv'
  BY <1>8 DEF LazyGrow, InUser
<1>9. ASSUME NEW p \in Tasks, NEW n \in 1 .. NPAGES, Grow(p, n)
      PROVE  LoopInv'
  BY <1>9 DEF Grow, InUser
<1>10. ASSUME NEW p \in Tasks, NEW n \in Pages, Shrink(p, n)
      PROVE  LoopInv'
  BY <1>10 DEF Shrink, InUser
<1>11. ASSUME NEW p \in Tasks, NEW n \in Pages, Fault(p, n)
      PROVE  LoopInv'
  BY <1>11 DEF Fault, InUser
<1>12. ASSUME NEW p \in Tasks, GrowPage(p)
      PROVE  LoopInv'
  BY <1>12 DEF GrowPage
<1>13. ASSUME NEW p \in Tasks, GrowFails(p)
      PROVE  LoopInv'
  BY <1>13 DEF GrowFails, EndCall
<1>14. ASSUME NEW p \in Tasks, GrowDone(p)
      PROVE  LoopInv'
  BY <1>14 DEF GrowDone, EndCall
<1>15. ASSUME NEW p \in Tasks, Exec(p)
      PROVE  LoopInv'
  BY <1>15 DEF Exec, InUser
<1>16. ASSUME NEW p \in Tasks, ExecPage(p)
      PROVE  LoopInv'
  BY <1>16 DEF ExecPage
<1>17. ASSUME NEW p \in Tasks, ExecFails(p)
      PROVE  LoopInv'
  BY <1>17 DEF ExecFails, EndCall
<1>18. ASSUME NEW p \in Tasks, ExecDone(p)
      PROVE  LoopInv'
  BY <1>18 DEF ExecDone, EndCall
<1>19. ASSUME NEW p \in Tasks, Exit(p)
      PROVE  LoopInv'
  BY <1>19 DEF Exit, InUser
<1>20. ASSUME NEW p \in Tasks, NEW x \in Tasks, Collect(p, x)
      PROVE  LoopInv'
  BY <1>20 DEF Collect, InUser, freeproc
<1>21. CASE UNCHANGED memVars
  BY <1>21 DEF memVars
<1> HIDE DEF LoopInv, SlotInv, MemTypeOK, SetAt, MemGoto, p_vars, space, loop
<1>22. QED
  BY <1>1, <1>2, <1>3, <1>4, <1>5, <1>6, <1>7, <1>8, <1>9, <1>10, <1>11,
     <1>12, <1>13, <1>14, <1>15, <1>16, <1>17, <1>18, <1>19, <1>20, <1>21
  DEF MemNext, Create, Resize, Replace, Leave

(* A loop that has not gone past its end and is not short of it is at its end. *)
LEMMA Antisymmetry == \A a, b \in Nat : a >= b /\ a <= b => a = b
  OBVIOUS

(* What uvmunmap() leaves in a page table. *)
LEMMA UnmapEntry ==
  ASSUME NEW t \in Table, NEW from, NEW to, NEW k \in Pages
  PROVE  Unmap(t, from, to)[k] = IF from <= k /\ k < to THEN Nowhere ELSE t[k]
  BY DEF Unmap

(* freewalk() finds nothing if all entries were below sz. *)
LEMMA NoLeaf ==
  ASSUME MemTypeOK, NEW x \in Tasks, NEW t \in Table,
         \A k \in Pages : t[k] # Nowhere => k < sz[x]
  PROVE  ~Leaf(x, t)
<1>1. \A k \in Pages : 0 <= k /\ k < NPAGES
  BY DEF Pages
<1>2. \A k \in Pages : Unmap(t, 0, sz[x])[k] = Nowhere
  BY <1>1, UnmapEntry
<1>3. QED
  BY <1>2 DEF Leaf, Mapped

(* The slot that a fork() or clone() fills, when it fails: what it maps is *)
(* what the loop has copied.                                               *)
LEMMA HalfCopied ==
  ASSUME MemTypeOK, SlotInv, ExtentInv, NEW p \in Tasks, mem_pc[p] \in {"fork", "clone"}
  PROVE  /\ child[p] \in Tasks /\ child[p] # p /\ p_state[child[p]] = "USED"
         /\ ~is_thread(child[p]) /\ sz[child[p]] = 0
         /\ \A k \in Pages : pt[child[p]][k] # Nowhere => k < i[p]
         /\ \A k \in Pages : Unmap(pt[child[p]], 0, i[p])[k] = Nowhere
         /\ Unmap(pt[child[p]], 0, i[p]) \in Table
<1>1. child[p] \in Tasks /\ child[p] # p /\ p_state[child[p]] = "USED"
  BY DEF MemTypeOK, SlotInv
<1>2. ~is_thread(child[p]) /\ sz[child[p]] = 0
  BY <1>1 DEF SlotInv, is_thread
<1>3. \A k \in Pages : pt[child[p]][k] # Nowhere => k < i[p]
  BY <1>1 DEF ExtentInv, PageExtent
<1>4. pt[child[p]] \in Table
  BY <1>1 DEF MemTypeOK
<1>5. \A k \in Pages : 0 <= k
  BY DEF Pages
<1>6. \A k \in Pages : Unmap(pt[child[p]], 0, i[p])[k] = Nowhere
  BY <1>3, <1>4, <1>5, UnmapEntry
<1>7. QED
  BY <1>1, <1>2, <1>3, <1>4, <1>6, TableType

(* sz and the progress of the loops bound the entries of a page table. *)
LEMMA NextPageExtent ==
  MemTypeOK /\ SlotInv /\ LoopInv /\ ExtentInv /\ [MemNext]_memVars => PageExtent'
<1> SUFFICES ASSUME MemTypeOK /\ SlotInv /\ LoopInv /\ ExtentInv, [MemNext]_memVars PROVE PageExtent'
  OBVIOUS
<1> USE DEF ExtentInv, PageExtent, LoopInv, SlotInv, MemTypeOK, SetAt, MemGoto,
            p_vars, space, loop
<1>1. ASSUME NEW p \in Tasks, NEW x \in Tasks, NEW call \in {"fork", "clone"}, Spawn(p, x, call)
      PROVE  PageExtent'
  BY <1>1 DEF Spawn, InUser, Pages
<1>2. ASSUME NEW p \in Tasks, SkipPage(p)
      PROVE  PageExtent'
  BY <1>2 DEF SkipPage, Copies, Pages
<1>3. ASSUME NEW p \in Tasks, CopyPage(p)
      PROVE  PageExtent'
  <2>1. /\ mem_pc[p] = "fork" /\ i[p] \in Nat /\ child[p] \in Tasks /\ p_state[child[p]] = "USED"
        /\ \A q \in Tasks : child[q] = child[p] => q = p
    BY <1>3 DEF CopyPage, Copies
  <2>2. PICK f : pt' = [pt EXCEPT ![child[p]][i[p]] = f]
    BY <1>3 DEF CopyPage
  <2>3. UNCHANGED <<p_state, sz, mem_pc, child>> /\ i' = [i EXCEPT ![p] = i[p] + 1]
    BY <1>3 DEF CopyPage
  <2>4. ASSUME NEW q \in Tasks, NEW k \in Pages, pt'[q][k] # Nowhere
        PROVE  /\ mem_pc[q] = "grow" => k < i'[q]
               /\ mem_pc[q] # "grow" /\ p_state[q] # "USED" => k < sz[q]
               /\ \A r \in Tasks : child[r] = q => k < i'[r]
    <3>1. CASE q = child[p] /\ k = i[p]
      <4>1. mem_pc[q] # "grow" /\ p_state[q] = "USED"
        BY <2>1, <3>1
      <4>2. ASSUME NEW r \in Tasks, child[r] = q PROVE k < i'[r]
        <5>1. r = p
          BY <2>1, <3>1, <4>2
        <5>2. QED
          BY <2>1, <2>3, <3>1, <5>1
      <4>3. QED
        BY <4>1, <4>2
    <3>2. CASE ~(q = child[p] /\ k = i[p])
      <4>1. pt[q][k] # Nowhere
        BY <2>2, <2>4, <3>2
      <4>2. /\ mem_pc[q] = "grow" => k < i[q]
            /\ mem_pc[q] # "grow" /\ p_state[q] # "USED" => k < sz[q]
            /\ \A r \in Tasks : child[r] = q => k < i[r]
        BY <4>1
      <4>3. mem_pc[q] = "grow" => i'[q] = i[q]
        BY <2>1, <2>3
      <4>4. ASSUME NEW r \in Tasks, child[r] = q PROVE k < i'[r]
        <5>1. k < i[r] /\ i[r] \in Nat /\ k \in Nat
          BY <4>2, <4>4 DEF Pages
        <5>2. i'[r] = i[r] \/ i'[r] = i[r] + 1
          BY <2>3
        <5>3. QED
          BY <5>1, <5>2
      <4>5. QED
        BY <4>2, <4>3, <4>4
    <3>3. QED
      BY <3>1, <3>2
  <2>5. QED
    BY <2>3, <2>4
<1>4. ASSUME NEW p \in Tasks, SharePage(p)
      PROVE  PageExtent'
  BY <1>4 DEF SharePage, Copies, Pages
<1>5. ASSUME NEW p \in Tasks, CopyStops(p)
      PROVE  PageExtent'
  BY SMTT(30), <1>5 DEF CopyStops, Copies, freeproc, EndCall, EmptyTable, Pages
<1>6. ASSUME NEW p \in Tasks, ShareFails(p)
      PROVE  PageExtent'
  BY SMTT(30), <1>6 DEF ShareFails, Copies, freeproc, EndCall, EmptyTable, Pages
<1>7. ASSUME NEW p \in Tasks, Created(p)
      PROVE  PageExtent'
  BY SMTT(30), <1>7 DEF Created, EndCall, NoImage, EmptyTable, Pages
<1>8. ASSUME NEW p \in Tasks, NEW n \in 1 .. NPAGES, LazyGrow(p, n)
      PROVE  PageExtent'
  BY <1>8 DEF LazyGrow, InUser, Pages
<1>9. ASSUME NEW p \in Tasks, NEW n \in 1 .. NPAGES, Grow(p, n)
      PROVE  PageExtent'
  <2>1. mem_pc[p] = "user" /\ p_state[p] = "RUNNABLE"
    BY <1>9 DEF Grow, InUser
  <2>2. i'[p] = sz[p] /\ \A q \in Tasks \ {p} : i'[q] = i[q] /\ mem_pc'[q] = mem_pc[q]
    BY <1>9 DEF Grow
  <2>3. UNCHANGED <<pt, sz, child, p_state>>
    BY <1>9 DEF Grow
  <2>4. child[p] = NoTask
    BY <2>1
  <2>5. QED
    BY SMTT(30), <2>1, <2>2, <2>3, <2>4
<1>10. ASSUME NEW p \in Tasks, NEW n \in Pages, Shrink(p, n)
      PROVE  PageExtent'
  <2>1. \A k \in Pages : 0 <= k /\ k \in Nat
    BY DEF Pages
  <2>2. \A k \in Pages : pt'[p][k] # Nowhere => pt[p][k] # Nowhere /\ k < n
    BY <1>10, <2>1, UnmapEntry DEF Shrink, InUser
  <2>3. \A q \in Tasks \ {p} : pt'[q] = pt[q] /\ sz'[q] = sz[q]
    BY <1>10 DEF Shrink
  <2>4. sz'[p] = n /\ UNCHANGED <<p_state, mem_pc, i, child>>
    BY <1>10 DEF Shrink
  <2>5. mem_pc[p] # "grow" /\ \A q \in Tasks : child[q] # p
    BY <1>10 DEF Shrink, InUser
  <2>6. QED
    BY <2>2, <2>3, <2>4, <2>5
<1>11. ASSUME NEW p \in Tasks, NEW n \in Pages, Fault(p, n)
      PROVE  PageExtent'
  BY <1>11 DEF Fault, InUser, Pages
<1>12. ASSUME NEW p \in Tasks, GrowPage(p)
      PROVE  PageExtent'
  BY <1>12 DEF GrowPage, Pages
<1>13. ASSUME NEW p \in Tasks, GrowFails(p)
      PROVE  PageExtent'
  <2>1. \A k \in Pages : pt'[p][k] # Nowhere => pt[p][k] # Nowhere /\ ~(sz[p] <= k /\ k < i[p])
    BY <1>13, UnmapEntry DEF GrowFails
  <2>2. \A k \in Pages : pt'[p][k] # Nowhere => k < sz[p]
    <3>1. mem_pc[p] = "grow" /\ i[p] \in Nat /\ sz[p] \in Nat
      BY <1>13 DEF GrowFails
    <3>2. \A k \in Pages : k \in Nat
      BY DEF Pages
    <3>3. QED
      BY <2>1, <3>1, <3>2
  <2>3. \A q \in Tasks \ {p} :
          pt'[q] = pt[q] /\ i'[q] = i[q] /\ child'[q] = child[q] /\ mem_pc'[q] = mem_pc[q]
    BY <1>13 DEF GrowFails, EndCall
  <2>4. child'[p] = NoTask /\ mem_pc'[p] = "user" /\ UNCHANGED <<p_state, sz>>
    BY <1>13 DEF GrowFails, EndCall
  <2>5. \A q \in Tasks : child[q] # p
    BY <1>13 DEF GrowFails
  <2>6. \A q \in Tasks : child'[q] # p
    BY <2>3, <2>4, <2>5
  <2>7. ASSUME NEW q \in Tasks, NEW k \in Pages, pt'[q][k] # Nowhere, q # p
        PROVE  /\ mem_pc'[q] = "grow" => k < i'[q]
               /\ mem_pc'[q] # "grow" /\ p_state'[q] # "USED" => k < sz'[q]
               /\ \A r \in Tasks : child'[r] = q => k < i'[r]
    <3>1. pt[q][k] # Nowhere
      BY <2>3, <2>7
    <3>2. /\ mem_pc[q] = "grow" => k < i[q]
          /\ mem_pc[q] # "grow" /\ p_state[q] # "USED" => k < sz[q]
          /\ \A r \in Tasks : child[r] = q => k < i[r]
      BY <3>1
    <3>3. ASSUME NEW r \in Tasks, child'[r] = q PROVE child[r] = q /\ i'[r] = i[r]
      <4>1. r # p
        BY <2>4, <3>3
      <4>2. QED
        BY <2>3, <3>3, <4>1
    <3>4. mem_pc'[q] = mem_pc[q] /\ i'[q] = i[q] /\ p_state' = p_state /\ sz' = sz
      BY <2>3, <2>4, <2>7
    <3>5. QED
      BY <3>2, <3>3, <3>4
  <2>8. ASSUME NEW k \in Pages, pt'[p][k] # Nowhere
        PROVE  k < sz'[p]
    BY <2>2, <2>4, <2>8
  <2>9. QED
    BY <2>4, <2>6, <2>7, <2>8
<1>14. ASSUME NEW p \in Tasks, GrowDone(p)
      PROVE  PageExtent'
  BY <1>14 DEF GrowDone, EndCall, NoImage, EmptyTable, Pages
<1>15. ASSUME NEW p \in Tasks, Exec(p)
      PROVE  PageExtent'
  BY <1>15 DEF Exec, InUser, EmptyTable, Pages
<1>16. ASSUME NEW p \in Tasks, ExecPage(p)
      PROVE  PageExtent'
  BY <1>16 DEF ExecPage, Pages
<1>17. ASSUME NEW p \in Tasks, ExecFails(p)
      PROVE  PageExtent'
  BY <1>17 DEF ExecFails, EndCall, NoImage, EmptyTable, Pages
<1>18. ASSUME NEW p \in Tasks, ExecDone(p)
      PROVE  PageExtent'
  <2>1. pt'[p] = image[p].pt /\ sz'[p] = ExecPages /\ i[p] = ExecPages
    <3>1. mem_pc[p] = "exec" /\ i[p] >= ExecPages
      BY <1>18 DEF ExecDone
    <3>2. i[p] \in Nat /\ i[p] <= ExecPages
      BY <3>1
    <3>3. pt'[p] = image[p].pt /\ sz'[p] = ExecPages
      BY <1>18 DEF ExecDone
    <3>4. ExecPages \in Nat
      OBVIOUS
    <3>5. i[p] = ExecPages
      BY <3>1, <3>2, <3>4, Antisymmetry
    <3>6. QED
      BY <3>3, <3>5
  <2>2. \A k \in Pages : pt'[p][k] # Nowhere => k < sz'[p]
    BY <2>1 DEF ImageExtent
  <2>3. \A q \in Tasks \ {p} : /\ pt'[q] = pt[q] /\ i'[q] = i[q] /\ child'[q] = child[q]
                               /\ mem_pc'[q] = mem_pc[q] /\ sz'[q] = sz[q]
    BY <1>18 DEF ExecDone, EndCall
  <2>4. child'[p] = NoTask /\ mem_pc'[p] = "user" /\ UNCHANGED p_state
    BY <1>18 DEF ExecDone, EndCall
  <2>5. \A q \in Tasks : child[q] # p
    BY SMTT(30), <1>18 DEF ExecDone
  <2>6. \A q \in Tasks \ {p}, k \in Pages : pt'[q][k] # Nowhere =>
          /\ mem_pc'[q] = "grow" => k < i'[q]
          /\ mem_pc'[q] # "grow" /\ p_state'[q] # "USED" => k < sz'[q]
          /\ \A r \in Tasks : child'[r] = q => k < i'[r]
    BY <2>3, <2>4
  <2>7. \A q \in Tasks : child'[q] # p
    BY <2>3, <2>4, <2>5
  <2>8. \A k \in Pages : pt'[p][k] # Nowhere =>
          /\ mem_pc'[p] = "grow" => k < i'[p]
          /\ mem_pc'[p] # "grow" /\ p_state'[p] # "USED" => k < sz'[p]
          /\ \A r \in Tasks : child'[r] = p => k < i'[r]
    BY <2>2, <2>4, <2>7
  <2> HIDE DEF MemTypeOK, SlotInv, LoopInv, ExtentInv
  <2>9. QED
    BY <2>6, <2>8
<1>19. ASSUME NEW p \in Tasks, Exit(p)
      PROVE  PageExtent'
  BY <1>19 DEF Exit, InUser, Pages
<1>20. ASSUME NEW p \in Tasks, NEW x \in Tasks, Collect(p, x)
      PROVE  PageExtent'
  BY <1>20 DEF Collect, InUser, freeproc, EmptyTable, Pages
<1>21. CASE UNCHANGED memVars
  BY <1>21 DEF memVars
<1> HIDE DEF ExtentInv, PageExtent, LoopInv, SlotInv, MemTypeOK, SetAt, MemGoto,
             p_vars, space, loop
<1>22. QED
  BY <1>1, <1>2, <1>3, <1>4, <1>5, <1>6, <1>7, <1>8, <1>9, <1>10, <1>11,
     <1>12, <1>13, <1>14, <1>15, <1>16, <1>17, <1>18, <1>19, <1>20, <1>21
  DEF MemNext, Create, Resize, Replace, Leave

(* kexec() fills the new page table from page 0 upwards. *)
LEMMA NextImageExtent ==
  MemTypeOK /\ SlotInv /\ LoopInv /\ ExtentInv /\ [MemNext]_memVars => ImageExtent'
<1> SUFFICES ASSUME MemTypeOK /\ SlotInv /\ LoopInv /\ ExtentInv, [MemNext]_memVars PROVE ImageExtent'
  OBVIOUS
<1> USE DEF ExtentInv, ImageExtent, LoopInv, SlotInv, MemTypeOK, SetAt, MemGoto,
            p_vars, space, loop
<1>1. ASSUME NEW p \in Tasks, NEW x \in Tasks, NEW call \in {"fork", "clone"}, Spawn(p, x, call)
      PROVE  ImageExtent'
  BY <1>1 DEF Spawn, InUser, Pages
<1>2. ASSUME NEW p \in Tasks, SkipPage(p)
      PROVE  ImageExtent'
  BY <1>2 DEF SkipPage, Copies, Pages
<1>3. ASSUME NEW p \in Tasks, CopyPage(p)
      PROVE  ImageExtent'
  BY <1>3 DEF CopyPage, Copies, Pages
<1>4. ASSUME NEW p \in Tasks, SharePage(p)
      PROVE  ImageExtent'
  BY <1>4 DEF SharePage, Copies, Pages
<1>5. ASSUME NEW p \in Tasks, CopyStops(p)
      PROVE  ImageExtent'
  <2>1. \A q \in Tasks : image'[q] = image[q] /\ (q # p => i'[q] = i[q])
    BY <1>5 DEF CopyStops, Copies, EndCall
  <2>2. \A k \in Pages : image[p].pt[k] = Nowhere
    BY <1>5 DEF CopyStops, Copies, NoImage, EmptyTable
  <2>3. QED
    BY <2>1, <2>2
<1>6. ASSUME NEW p \in Tasks, ShareFails(p)
      PROVE  ImageExtent'
  <2>1. \A q \in Tasks : image'[q] = image[q] /\ (q # p => i'[q] = i[q])
    BY <1>6 DEF ShareFails, Copies, EndCall
  <2>2. \A k \in Pages : image[p].pt[k] = Nowhere
    BY <1>6 DEF ShareFails, Copies, NoImage, EmptyTable
  <2>3. QED
    BY <2>1, <2>2
<1>7. ASSUME NEW p \in Tasks, Created(p)
      PROVE  ImageExtent'
  BY <1>7 DEF Created, EndCall, NoImage, EmptyTable, Pages
<1>8. ASSUME NEW p \in Tasks, NEW n \in 1 .. NPAGES, LazyGrow(p, n)
      PROVE  ImageExtent'
  BY <1>8 DEF LazyGrow, InUser, Pages
<1>9. ASSUME NEW p \in Tasks, NEW n \in 1 .. NPAGES, Grow(p, n)
      PROVE  ImageExtent'
  BY <1>9 DEF Grow, InUser, Pages
<1>10. ASSUME NEW p \in Tasks, NEW n \in Pages, Shrink(p, n)
      PROVE  ImageExtent'
  BY <1>10 DEF Shrink, InUser, Pages
<1>11. ASSUME NEW p \in Tasks, NEW n \in Pages, Fault(p, n)
      PROVE  ImageExtent'
  BY <1>11 DEF Fault, InUser, Pages
<1>12. ASSUME NEW p \in Tasks, GrowPage(p)
      PROVE  ImageExtent'
  BY <1>12 DEF GrowPage, Pages
<1>13. ASSUME NEW p \in Tasks, GrowFails(p)
      PROVE  ImageExtent'
  BY <1>13 DEF GrowFails, EndCall, NoImage, EmptyTable, Pages
<1>14. ASSUME NEW p \in Tasks, GrowDone(p)
      PROVE  ImageExtent'
  BY <1>14 DEF GrowDone, EndCall, NoImage, EmptyTable, Pages
<1>15. ASSUME NEW p \in Tasks, Exec(p)
      PROVE  ImageExtent'
  BY <1>15 DEF Exec, InUser, EmptyTable, Pages
<1>16. ASSUME NEW p \in Tasks, ExecPage(p)
      PROVE  ImageExtent'
  BY <1>16 DEF ExecPage, Pages
<1>17. ASSUME NEW p \in Tasks, ExecFails(p)
      PROVE  ImageExtent'
  BY <1>17 DEF ExecFails, EndCall, NoImage, EmptyTable, Pages
<1>18. ASSUME NEW p \in Tasks, ExecDone(p)
      PROVE  ImageExtent'
  BY <1>18 DEF ExecDone, EndCall, NoImage, EmptyTable, Pages
<1>19. ASSUME NEW p \in Tasks, Exit(p)
      PROVE  ImageExtent'
  BY <1>19 DEF Exit, InUser, Pages
<1>20. ASSUME NEW p \in Tasks, NEW x \in Tasks, Collect(p, x)
      PROVE  ImageExtent'
  BY <1>20 DEF Collect, InUser, freeproc, EmptyTable, Pages
<1>21. CASE UNCHANGED memVars
  BY <1>21 DEF memVars
<1> HIDE DEF ExtentInv, ImageExtent, LoopInv, SlotInv, MemTypeOK, SetAt, MemGoto,
             p_vars, space, loop
<1>22. QED
  BY <1>1, <1>2, <1>3, <1>4, <1>5, <1>6, <1>7, <1>8, <1>9, <1>10, <1>11,
     <1>12, <1>13, <1>14, <1>15, <1>16, <1>17, <1>18, <1>19, <1>20, <1>21
  DEF MemNext, Create, Resize, Replace, Leave

(* Neither panic of the page-table code is reached in a step. *)
LEMMA NextNoPanic ==
  MemTypeOK /\ SlotInv /\ LoopInv /\ ExtentInv /\ [MemNext]_memVars => NoPanic'
<1> SUFFICES ASSUME MemTypeOK /\ SlotInv /\ LoopInv /\ ExtentInv, [MemNext]_memVars PROVE NoPanic'
  OBVIOUS
<1> USE DEF ExtentInv, NoPanic, SlotInv, LoopInv, MemTypeOK, SetAt, MemGoto, p_vars,
            space, loop
<1>1. ASSUME NEW p \in Tasks, NEW x \in Tasks, NEW call \in {"fork", "clone"}, Spawn(p, x, call)
      PROVE  NoPanic'
  BY <1>1 DEF Spawn, InUser
<1>2. ASSUME NEW p \in Tasks, SkipPage(p)
      PROVE  NoPanic'
  BY <1>2 DEF SkipPage, Copies
<1>3. ASSUME NEW p \in Tasks, CopyPage(p)
      PROVE  NoPanic'
  BY <1>3 DEF CopyPage, Copies
<1>4. ASSUME NEW p \in Tasks, SharePage(p)
      PROVE  NoPanic'
  BY <1>4 DEF SharePage, Copies
<1>5. ASSUME NEW p \in Tasks, CopyStops(p)
      PROVE  NoPanic'
  <2>1. mem_pc[p] = "fork"
    BY <1>5 DEF CopyStops, Copies
  <2>2. ~Leaf(child[p], Unmap(pt[child[p]], 0, i[p]))
    BY SMTT(30), <2>1, HalfCopied, NoLeaf
  <2>3. QED
    BY <1>5, <2>2 DEF CopyStops, freeproc
<1>6. ASSUME NEW p \in Tasks, ShareFails(p)
      PROVE  NoPanic'
  <2>1. mem_pc[p] = "clone"
    BY <1>6 DEF ShareFails, Copies
  <2>2. ~Leaf(child[p], Unmap(pt[child[p]], 0, i[p]))
    BY SMTT(30), <2>1, HalfCopied, NoLeaf
  <2>3. QED
    BY <1>6, <2>2 DEF ShareFails, freeproc
<1>7. ASSUME NEW p \in Tasks, Created(p)
      PROVE  NoPanic'
  BY <1>7 DEF Created, EndCall
<1>8. ASSUME NEW p \in Tasks, NEW n \in 1 .. NPAGES, LazyGrow(p, n)
      PROVE  NoPanic'
  BY <1>8 DEF LazyGrow, InUser
<1>9. ASSUME NEW p \in Tasks, NEW n \in 1 .. NPAGES, Grow(p, n)
      PROVE  NoPanic'
  BY <1>9 DEF Grow, InUser
<1>10. ASSUME NEW p \in Tasks, NEW n \in Pages, Shrink(p, n)
      PROVE  NoPanic'
  BY <1>10 DEF Shrink, InUser
<1>11. ASSUME NEW p \in Tasks, NEW n \in Pages, Fault(p, n)
      PROVE  NoPanic'
  BY <1>11 DEF Fault, InUser
<1>12. ASSUME NEW p \in Tasks, GrowPage(p)
      PROVE  NoPanic'
  BY <1>12 DEF GrowPage, PageExtent, Pages
<1>13. ASSUME NEW p \in Tasks, GrowFails(p)
      PROVE  NoPanic'
  BY <1>13 DEF GrowFails, EndCall
<1>14. ASSUME NEW p \in Tasks, GrowDone(p)
      PROVE  NoPanic'
  BY <1>14 DEF GrowDone, EndCall
<1>15. ASSUME NEW p \in Tasks, Exec(p)
      PROVE  NoPanic'
  BY <1>15 DEF Exec, InUser
<1>16. ASSUME NEW p \in Tasks, ExecPage(p)
      PROVE  NoPanic'
  BY <1>16 DEF ExecPage
<1>17. ASSUME NEW p \in Tasks, ExecFails(p)
      PROVE  NoPanic'
  BY <1>17 DEF ExecFails, EndCall
<1>18. ASSUME NEW p \in Tasks, ExecDone(p)
      PROVE  NoPanic'
  <2>1. pt[p] \in Table
    OBVIOUS
  <2>2. \A k \in Pages : pt[p][k] # Nowhere => k < sz[p]
    BY <1>18 DEF ExecDone, ExtentInv, PageExtent
  <2>3. ~Leaf(p, pt[p])
    BY <2>1, <2>2, NoLeaf
  <2>4. QED
    BY <1>18, <2>3 DEF ExecDone
<1>19. ASSUME NEW p \in Tasks, Exit(p)
      PROVE  NoPanic'
  BY <1>19 DEF Exit, InUser
<1>20. ASSUME NEW p \in Tasks, NEW x \in Tasks, Collect(p, x)
      PROVE  NoPanic'
  <2>1. pt[x] \in Table
    OBVIOUS
  <2>2. \A k \in Pages : pt[x][k] # Nowhere => k < sz[x]
    BY <1>20 DEF Collect, ExtentInv, PageExtent
  <2>3. ~Leaf(x, pt[x])
    BY <2>1, <2>2, NoLeaf
  <2>4. QED
    BY <1>20, <2>3 DEF Collect, freeproc
<1>21. CASE UNCHANGED memVars
  BY <1>21 DEF memVars
<1> HIDE DEF ExtentInv, NoPanic, SlotInv, LoopInv, MemTypeOK, SetAt, MemGoto,
             p_vars, space, loop
<1>22. QED
  BY <1>1, <1>2, <1>3, <1>4, <1>5, <1>6, <1>7, <1>8, <1>9, <1>10, <1>11,
     <1>12, <1>13, <1>14, <1>15, <1>16, <1>17, <1>18, <1>19, <1>20, <1>21
  DEF MemNext, Create, Resize, Replace, Leave

(* What programs promised at the call holds until the call returns. *)
LEMMA NextRulesInv ==
  ASSUME Discipline
  PROVE  MemTypeOK /\ SlotInv /\ LoopInv /\ ExtentInv /\ ThreadInv /\ [MemNext]_memVars => RulesInv'
<1> SUFFICES ASSUME MemTypeOK /\ SlotInv /\ LoopInv /\ ExtentInv /\ ThreadInv, [MemNext]_memVars PROVE RulesInv'
  OBVIOUS
<1> USE DEF ThreadInv, RulesInv, SlotInv, MemTypeOK, is_thread, SetAt, MemGoto,
            p_vars, space, loop
<1>1. ASSUME NEW p \in Tasks, NEW x \in Tasks, NEW call \in {"fork", "clone"}, Spawn(p, x, call)
      PROVE  RulesInv'
  BY <1>1 DEF Spawn, InUser, Borrowers
<1>2. ASSUME NEW p \in Tasks, SkipPage(p)
      PROVE  RulesInv'
  BY <1>2 DEF SkipPage, Copies, Borrowers
<1>3. ASSUME NEW p \in Tasks, CopyPage(p)
      PROVE  RulesInv'
  BY <1>3 DEF CopyPage, Copies, Borrowers
<1>4. ASSUME NEW p \in Tasks, SharePage(p)
      PROVE  RulesInv'
  BY <1>4 DEF SharePage, Copies, Borrowers
<1>5. ASSUME NEW p \in Tasks, CopyStops(p)
      PROVE  RulesInv'
  BY <1>5 DEF CopyStops, Copies, freeproc, EndCall, Borrowers
<1>6. ASSUME NEW p \in Tasks, ShareFails(p)
      PROVE  RulesInv'
  BY <1>6 DEF ShareFails, Copies, freeproc, EndCall, Borrowers
<1>7. ASSUME NEW p \in Tasks, Created(p)
      PROVE  RulesInv'
  BY <1>7 DEF Created, EndCall, Borrowers
<1>8. ASSUME NEW p \in Tasks, NEW n \in 1 .. NPAGES, LazyGrow(p, n)
      PROVE  RulesInv'
  BY <1>8 DEF LazyGrow, InUser, MayGrow, MayExit, MayLetGo, Borrowers
<1>9. ASSUME NEW p \in Tasks, NEW n \in 1 .. NPAGES, Grow(p, n)
      PROVE  RulesInv'
  BY <1>9 DEF Grow, InUser, MayGrow, MayExit, MayLetGo, Borrowers
<1>10. ASSUME NEW p \in Tasks, NEW n \in Pages, Shrink(p, n)
      PROVE  RulesInv'
  BY <1>10 DEF Shrink, InUser, MayGrow, MayExit, MayLetGo, Borrowers
<1>11. ASSUME NEW p \in Tasks, NEW n \in Pages, Fault(p, n)
      PROVE  RulesInv'
  BY <1>11 DEF Fault, InUser, MayGrow, MayExit, MayLetGo, Borrowers
<1>12. ASSUME NEW p \in Tasks, GrowPage(p)
      PROVE  RulesInv'
  BY <1>12 DEF GrowPage, Borrowers
<1>13. ASSUME NEW p \in Tasks, GrowFails(p)
      PROVE  RulesInv'
  BY <1>13 DEF GrowFails, EndCall, Borrowers
<1>14. ASSUME NEW p \in Tasks, GrowDone(p)
      PROVE  RulesInv'
  BY <1>14 DEF GrowDone, EndCall, Borrowers
<1>15. ASSUME NEW p \in Tasks, Exec(p)
      PROVE  RulesInv'
  BY <1>15 DEF Exec, InUser, MayGrow, MayExit, MayLetGo, Borrowers
<1>16. ASSUME NEW p \in Tasks, ExecPage(p)
      PROVE  RulesInv'
  BY <1>16 DEF ExecPage, Borrowers
<1>17. ASSUME NEW p \in Tasks, ExecFails(p)
      PROVE  RulesInv'
  BY <1>17 DEF ExecFails, EndCall, Borrowers
<1>18. ASSUME NEW p \in Tasks, ExecDone(p)
      PROVE  RulesInv'
  BY <1>18 DEF ExecDone, EndCall, Borrowers
<1>19. ASSUME NEW p \in Tasks, Exit(p)
      PROVE  RulesInv'
  BY <1>19 DEF Exit, InUser, MayGrow, MayExit, MayLetGo, Borrowers
<1>20. ASSUME NEW p \in Tasks, NEW x \in Tasks, Collect(p, x)
      PROVE  RulesInv'
  BY <1>20 DEF Collect, InUser, freeproc, Borrowers
<1>21. CASE UNCHANGED memVars
  <2>1. \A q \in Tasks : Borrowers(q)' = Borrowers(q)
    BY <1>21 DEF Borrowers, memVars
  <2>2. QED
    BY <1>21, <2>1 DEF memVars
<1> HIDE DEF ThreadInv, RulesInv, SlotInv, MemTypeOK, is_thread, SetAt, MemGoto,
             p_vars, space, loop
<1>22. QED
  BY <1>1, <1>2, <1>3, <1>4, <1>5, <1>6, <1>7, <1>8, <1>9, <1>10, <1>11,
     <1>12, <1>13, <1>14, <1>15, <1>16, <1>17, <1>18, <1>19, <1>20, <1>21
  DEF MemNext, Create, Resize, Replace, Leave

(* Nothing happens to the page table of a process inside clone(). *)
LEMMA NextCloneInv ==
  ASSUME Discipline
  PROVE  MemTypeOK /\ SlotInv /\ LoopInv /\ ExtentInv /\ ThreadInv /\ [MemNext]_memVars => CloneInv'
<1> SUFFICES ASSUME MemTypeOK /\ SlotInv /\ LoopInv /\ ExtentInv /\ ThreadInv, [MemNext]_memVars PROVE CloneInv'
  OBVIOUS
<1> USE DEF ThreadInv, CloneInv, SlotInv, LoopInv, MemTypeOK, SetAt, MemGoto,
            p_vars, space, loop
<1>1. ASSUME NEW p \in Tasks, NEW x \in Tasks, NEW call \in {"fork", "clone"}, Spawn(p, x, call)
      PROVE  CloneInv'
  BY <1>1 DEF Spawn, InUser, EmptyTable
<1>2. ASSUME NEW p \in Tasks, SkipPage(p)
      PROVE  CloneInv'
  BY <1>2 DEF SkipPage, Copies
<1>3. ASSUME NEW p \in Tasks, CopyPage(p)
      PROVE  CloneInv'
  BY SMTT(30), <1>3 DEF CopyPage, Copies
<1>4. ASSUME NEW p \in Tasks, SharePage(p)
      PROVE  CloneInv'
  BY <1>4 DEF SharePage, Copies
<1>5. ASSUME NEW p \in Tasks, CopyStops(p)
      PROVE  CloneInv'
  BY SMTT(30), <1>5 DEF CopyStops, Copies, freeproc, EndCall
<1>6. ASSUME NEW p \in Tasks, ShareFails(p)
      PROVE  CloneInv'
  BY SMTT(30), <1>6 DEF ShareFails, Copies, freeproc, EndCall
<1>7. ASSUME NEW p \in Tasks, Created(p)
      PROVE  CloneInv'
  BY <1>7 DEF Created, EndCall
<1>8. ASSUME NEW p \in Tasks, NEW n \in 1 .. NPAGES, LazyGrow(p, n)
      PROVE  CloneInv'
  BY <1>8 DEF LazyGrow, InUser, MayGrow, MayExit, MayLetGo, Borrowers
<1>9. ASSUME NEW p \in Tasks, NEW n \in 1 .. NPAGES, Grow(p, n)
      PROVE  CloneInv'
  BY <1>9 DEF Grow, InUser, MayGrow, MayExit, MayLetGo, Borrowers
<1>10. ASSUME NEW p \in Tasks, NEW n \in Pages, Shrink(p, n)
      PROVE  CloneInv'
  BY <1>10 DEF Shrink, InUser, MayGrow, MayExit, MayLetGo, Borrowers
<1>11. ASSUME NEW p \in Tasks, NEW n \in Pages, Fault(p, n)
      PROVE  CloneInv'
  BY <1>11 DEF Fault, InUser, MayGrow, MayExit, MayLetGo, Borrowers
<1>12. ASSUME NEW p \in Tasks, GrowPage(p)
      PROVE  CloneInv'
  BY <1>12 DEF GrowPage
<1>13. ASSUME NEW p \in Tasks, GrowFails(p)
      PROVE  CloneInv'
  BY <1>13 DEF GrowFails, EndCall
<1>14. ASSUME NEW p \in Tasks, GrowDone(p)
      PROVE  CloneInv'
  BY <1>14 DEF GrowDone, EndCall
<1>15. ASSUME NEW p \in Tasks, Exec(p)
      PROVE  CloneInv'
  BY <1>15 DEF Exec, InUser, MayGrow, MayExit, MayLetGo, Borrowers
<1>16. ASSUME NEW p \in Tasks, ExecPage(p)
      PROVE  CloneInv'
  BY <1>16 DEF ExecPage
<1>17. ASSUME NEW p \in Tasks, ExecFails(p)
      PROVE  CloneInv'
  BY <1>17 DEF ExecFails, EndCall
<1>18. ASSUME NEW p \in Tasks, ExecDone(p)
      PROVE  CloneInv'
  BY <1>18 DEF ExecDone, EndCall
<1>19. ASSUME NEW p \in Tasks, Exit(p)
      PROVE  CloneInv'
  BY <1>19 DEF Exit, InUser, MayGrow, MayExit, MayLetGo, Borrowers
<1>20. ASSUME NEW p \in Tasks, NEW x \in Tasks, Collect(p, x)
      PROVE  CloneInv'
  BY <1>20 DEF Collect, InUser, freeproc
<1>21. CASE UNCHANGED memVars
  BY <1>21 DEF memVars
<1> HIDE DEF ThreadInv, CloneInv, SlotInv, LoopInv, MemTypeOK, SetAt, MemGoto,
             p_vars, space, loop
<1>22. QED
  BY <1>1, <1>2, <1>3, <1>4, <1>5, <1>6, <1>7, <1>8, <1>9, <1>10, <1>11,
     <1>12, <1>13, <1>14, <1>15, <1>16, <1>17, <1>18, <1>19, <1>20, <1>21
  DEF MemNext, Create, Resize, Replace, Leave

(* Nothing happens to what a thread relies on. *)
LEMMA NextCreatorInv ==
  ASSUME Discipline
  PROVE  MemTypeOK /\ SlotInv /\ LoopInv /\ ExtentInv /\ ThreadInv /\ [MemNext]_memVars => CreatorInv'
<1> SUFFICES ASSUME MemTypeOK /\ SlotInv /\ LoopInv /\ ExtentInv /\ ThreadInv, [MemNext]_memVars PROVE CreatorInv'
  OBVIOUS
<1> USE DEF ThreadInv, CreatorInv, SlotInv, LoopInv, MemTypeOK, is_thread, SetAt,
            MemGoto, p_vars, space, loop
<1>1. ASSUME NEW p \in Tasks, NEW x \in Tasks, NEW call \in {"fork", "clone"}, Spawn(p, x, call)
      PROVE  CreatorInv'
  BY <1>1 DEF Spawn, InUser
<1>2. ASSUME NEW p \in Tasks, SkipPage(p)
      PROVE  CreatorInv'
  BY <1>2 DEF SkipPage, Copies
<1>3. ASSUME NEW p \in Tasks, CopyPage(p)
      PROVE  CreatorInv'
  BY <1>3 DEF CopyPage, Copies
<1>4. ASSUME NEW p \in Tasks, SharePage(p)
      PROVE  CreatorInv'
  BY <1>4 DEF SharePage, Copies
<1>5. ASSUME NEW p \in Tasks, CopyStops(p)
      PROVE  CreatorInv'
  BY <1>5 DEF CopyStops, Copies, freeproc, EndCall
<1>6. ASSUME NEW p \in Tasks, ShareFails(p)
      PROVE  CreatorInv'
  BY <1>6 DEF ShareFails, Copies, freeproc, EndCall
<1>7. ASSUME NEW p \in Tasks, Created(p)
      PROVE  CreatorInv'
  <2> DEFINE x == child[p]
  <2>1. mem_pc[p] \in {"fork", "clone"}
    BY <1>7 DEF Created
  <2>2. x \in Tasks /\ x # p /\ p_state[x] = "USED"
    BY <2>1, HalfCopied
  <2>3. \A q \in Tasks \ {x} : /\ p_state'[q] = p_state[q] /\ mem_parent'[q] = mem_parent[q]
                               /\ sz'[q] = sz[q]
    BY <1>7 DEF Created
  <2>4. UNCHANGED pt
    BY <1>7 DEF Created
  <2>5. mem_parent'[x] = (IF mem_pc[p] = "clone" THEN p ELSE NoTask) /\ sz'[x] = sz[p]
    BY <1>7, <2>2 DEF Created
  <2>6. p_state[p] = "RUNNABLE" /\ sz[p] \in Nat
    BY <2>1
  <2>7. mem_pc[p] = "clone" => \A k \in Pages : pt[x][k] \in {Nowhere, pt[p][k]}
    BY DEF CloneInv
  <2>8. \A q \in Tasks \ {x} : p_state[q] = "RUNNABLE" /\ is_thread(q) => mem_parent[q] \in Tasks \ {x}
    BY <2>2
  <2> HIDE DEF x
  <2>9. QED
    BY <2>2, <2>3, <2>4, <2>5, <2>6, <2>7, <2>8
<1>8. ASSUME NEW p \in Tasks, NEW n \in 1 .. NPAGES, LazyGrow(p, n)
      PROVE  CreatorInv'
  BY <1>8 DEF LazyGrow, InUser, MayGrow, MayExit, MayLetGo, Borrowers
<1>9. ASSUME NEW p \in Tasks, NEW n \in 1 .. NPAGES, Grow(p, n)
      PROVE  CreatorInv'
  BY <1>9 DEF Grow, InUser, MayGrow, MayExit, MayLetGo, Borrowers
<1>10. ASSUME NEW p \in Tasks, NEW n \in Pages, Shrink(p, n)
      PROVE  CreatorInv'
  BY <1>10 DEF Shrink, InUser, MayGrow, MayExit, MayLetGo, Borrowers
<1>11. ASSUME NEW p \in Tasks, NEW n \in Pages, Fault(p, n)
      PROVE  CreatorInv'
  BY <1>11 DEF Fault, InUser, MayGrow, MayExit, MayLetGo, Borrowers
<1>12. ASSUME NEW p \in Tasks, GrowPage(p)
      PROVE  CreatorInv'
  <2>1. mem_pc[p] = "grow" /\ ~is_thread(p)
    BY <1>12 DEF GrowPage, RulesInv
  <2>2. \A k \in Pages : pt[p][k] # Nowhere => k \in Nat /\ k < i[p]
    BY <2>1 DEF ExtentInv, PageExtent, Pages
  <2>3. \A q \in Tasks \ {p} : pt'[q] = pt[q]
    BY <1>12 DEF GrowPage
  <2>4. \A k \in Pages : pt[p][k] # Nowhere => pt'[p][k] = pt[p][k]
    BY <1>12, <2>2 DEF GrowPage, Table
  <2>5. UNCHANGED <<p_state, mem_parent, sz>>
    BY <1>12 DEF GrowPage
  <2>6. QED
    BY SMTT(30), <2>1, <2>3, <2>4, <2>5
<1>13. ASSUME NEW p \in Tasks, GrowFails(p)
      PROVE  CreatorInv'
  <2>1. mem_pc[p] = "grow" /\ ~is_thread(p)
    BY <1>13 DEF GrowFails, RulesInv
  <2>2. \A k \in Pages : k \in Nat
    BY DEF Pages
  <2>3. \A q \in Tasks \ {p} : pt'[q] = pt[q]
    BY <1>13 DEF GrowFails
  <2>4. \A k \in Pages : k < sz[p] => pt'[p][k] = pt[p][k]
    <3>1. \A k \in Pages : pt'[p][k] = IF sz[p] <= k /\ k < i[p] THEN Nowhere ELSE pt[p][k]
      BY <1>13, UnmapEntry DEF GrowFails
    <3>2. QED
      BY <2>2, <3>1
  <2>5. UNCHANGED <<p_state, mem_parent, sz>>
    BY <1>13 DEF GrowFails
  <2>6. ASSUME NEW q \in Tasks, p_state[q] = "RUNNABLE", mem_parent[q] = p, NEW k \in Pages,
               pt[q][k] # Nowhere
        PROVE  k < sz[p]
    <3>1. is_thread(q) /\ mem_pc[q] # "grow"
      BY <2>6 DEF RulesInv
    <3>2. k < sz[q]
      BY <2>6, <3>1 DEF ExtentInv, PageExtent
    <3>3. sz[q] <= sz[p]
      BY <2>6, <3>1
    <3>4. QED
      BY <2>2, <3>2, <3>3
  <2>7. QED
    BY SMTT(30), <2>1, <2>3, <2>4, <2>5, <2>6
<1>14. ASSUME NEW p \in Tasks, GrowDone(p)
      PROVE  CreatorInv'
  <2>1. mem_pc[p] = "grow" /\ ~is_thread(p)
    BY <1>14 DEF GrowDone, RulesInv
  <2>2. sz[p] <= sz'[p] /\ \A q \in Tasks \ {p} : sz'[q] = sz[q]
    BY <1>14, <2>1 DEF GrowDone
  <2>3. UNCHANGED <<p_state, mem_parent, pt>>
    BY <1>14 DEF GrowDone
  <2>4. \A q \in Tasks : sz[q] \in Nat /\ sz'[q] \in Nat
    BY <1>14 DEF GrowDone
  <2>5. \A q \in Tasks : p_state[q] = "RUNNABLE" /\ is_thread(q) =>
          q # p /\ sz'[q] = sz[q] /\ mem_parent[q] \in Tasks
    BY <2>1, <2>2
  <2>6. \A q, r \in Tasks : sz[q] <= sz[r] => sz[q] <= sz'[r]
    BY <2>2, <2>4
  <2>7. QED
    BY <2>3, <2>5, <2>6
<1>15. ASSUME NEW p \in Tasks, Exec(p)
      PROVE  CreatorInv'
  BY <1>15 DEF Exec, InUser, MayGrow, MayExit, MayLetGo, Borrowers
<1>16. ASSUME NEW p \in Tasks, ExecPage(p)
      PROVE  CreatorInv'
  BY <1>16 DEF ExecPage
<1>17. ASSUME NEW p \in Tasks, ExecFails(p)
      PROVE  CreatorInv'
  BY <1>17 DEF ExecFails, EndCall
<1>18. ASSUME NEW p \in Tasks, ExecDone(p)
      PROVE  CreatorInv'
  <2>1. mem_pc[p] = "exec"
    BY <1>18 DEF ExecDone
  <2>2. ~is_thread(p) /\ \A q \in Tasks : p_state[q] = "RUNNABLE" => mem_parent[q] # p
    BY <2>1 DEF RulesInv, Borrowers
  <2>3. \A q \in Tasks \ {p} : sz'[q] = sz[q] /\ pt'[q] = pt[q]
    BY <1>18 DEF ExecDone
  <2>4. UNCHANGED <<p_state, mem_parent>>
    BY <1>18 DEF ExecDone
  <2>5. QED
    BY <2>2, <2>3, <2>4
<1>19. ASSUME NEW p \in Tasks, Exit(p)
      PROVE  CreatorInv'
  BY <1>19 DEF Exit, InUser, MayGrow, MayExit, MayLetGo, Borrowers
<1>20. ASSUME NEW p \in Tasks, NEW x \in Tasks, Collect(p, x)
      PROVE  CreatorInv'
  BY <1>20 DEF Collect, InUser, freeproc
<1>21. CASE UNCHANGED memVars
  BY <1>21 DEF memVars
<1> HIDE DEF ThreadInv, CreatorInv, SlotInv, LoopInv, MemTypeOK, is_thread, SetAt,
             MemGoto, p_vars, space, loop
<1>22. QED
  BY <1>1, <1>2, <1>3, <1>4, <1>5, <1>6, <1>7, <1>8, <1>9, <1>10, <1>11,
     <1>12, <1>13, <1>14, <1>15, <1>16, <1>17, <1>18, <1>19, <1>20, <1>21
  DEF MemNext, Create, Resize, Replace, Leave

(* A step that makes no thread leaves every line of creators as it ends. *)
LEMMA LinesKept ==
  ASSUME LinesEnd, \A q \in Threads' : q \in Threads /\ mem_parent'[q] = mem_parent[q]
  PROVE  LinesEnd'
  BY DEF LinesEnd

(* A creator runs when it makes a thread, and a thread is made once. *)
LEMMA NextLinesEnd ==
  MemTypeOK /\ SlotInv /\ LoopInv /\ ExtentInv /\ ThreadInv /\ LinesEnd /\ [MemNext]_memVars => LinesEnd'
<1> SUFFICES ASSUME MemTypeOK /\ SlotInv /\ LoopInv /\ ExtentInv /\ ThreadInv /\ LinesEnd, [MemNext]_memVars PROVE LinesEnd'
  OBVIOUS
<1> USE DEF ThreadInv, SlotInv, MemTypeOK, is_thread, SetAt, MemGoto, p_vars, space,
            loop
<1>1. ASSUME NEW p \in Tasks, NEW x \in Tasks, NEW call \in {"fork", "clone"}, Spawn(p, x, call)
      PROVE  LinesEnd'
  <2>1. \A q \in Threads' : q \in Threads /\ mem_parent'[q] = mem_parent[q]
    BY <1>1 DEF Spawn, Threads
  <2>2. QED
    BY <2>1, LinesKept
<1>2. ASSUME NEW p \in Tasks, SkipPage(p)
      PROVE  LinesEnd'
  <2>1. \A q \in Threads' : q \in Threads /\ mem_parent'[q] = mem_parent[q]
    BY <1>2 DEF SkipPage, Copies, Threads
  <2>2. QED
    BY <2>1, LinesKept
<1>3. ASSUME NEW p \in Tasks, CopyPage(p)
      PROVE  LinesEnd'
  <2>1. \A q \in Threads' : q \in Threads /\ mem_parent'[q] = mem_parent[q]
    BY <1>3 DEF CopyPage, Copies, Threads
  <2>2. QED
    BY <2>1, LinesKept
<1>4. ASSUME NEW p \in Tasks, SharePage(p)
      PROVE  LinesEnd'
  <2>1. \A q \in Threads' : q \in Threads /\ mem_parent'[q] = mem_parent[q]
    BY <1>4 DEF SharePage, Copies, Threads
  <2>2. QED
    BY <2>1, LinesKept
<1>5. ASSUME NEW p \in Tasks, CopyStops(p)
      PROVE  LinesEnd'
  <2>1. \A q \in Threads' : q \in Threads /\ mem_parent'[q] = mem_parent[q]
    BY <1>5, HalfCopied DEF CopyStops, Copies, freeproc, Threads
  <2>2. QED
    BY <2>1, LinesKept
<1>6. ASSUME NEW p \in Tasks, ShareFails(p)
      PROVE  LinesEnd'
  <2>1. \A q \in Threads' : q \in Threads /\ mem_parent'[q] = mem_parent[q]
    BY <1>6, HalfCopied DEF ShareFails, Copies, freeproc, Threads
  <2>2. QED
    BY <2>1, LinesKept
<1>7. ASSUME NEW p \in Tasks, Created(p)
      PROVE  LinesEnd'
  <2> DEFINE x == child[p]
  <2>1. mem_pc[p] \in {"fork", "clone"}
    BY <1>7 DEF Created
  <2>2. x \in Tasks /\ x # p /\ p_state[x] = "USED"
    BY <2>1, HalfCopied
  <2>3. \A q \in Tasks \ {x} : p_state'[q] = p_state[q] /\ mem_parent'[q] = mem_parent[q]
    BY <1>7 DEF Created
  <2>4. mem_parent'[x] \in {p, NoTask}
    BY <1>7, <2>2 DEF Created
  <2>5. \A q \in Threads : q # x /\ mem_parent[q] # x
    BY <2>2 DEF Threads, CreatorInv
  <2>6. \A q \in Threads' \ {x} : q \in Threads /\ mem_parent'[q] = mem_parent[q]
    BY <2>3 DEF Threads
  <2> HIDE DEF x
  <2>7. ASSUME NEW S \in SUBSET Threads', S # {}
        PROVE  \E q \in S : mem_parent'[q] \notin S
    <3>1. CASE S \ {x} = {}
      BY <2>2, <2>4, <2>7, <3>1 DEF Threads
    <3>2. CASE S \ {x} # {}
      <4>1. S \ {x} \in SUBSET Threads
        BY <2>6, <2>7
      <4>2. PICK q \in S \ {x} : mem_parent[q] \notin S \ {x}
        BY <3>2, <4>1 DEF LinesEnd
      <4>3. QED
        BY <2>5, <2>6, <2>7, <4>1, <4>2
    <3>3. QED
      BY <3>1, <3>2
  <2>8. QED
    BY <2>7 DEF LinesEnd
<1>8. ASSUME NEW p \in Tasks, NEW n \in 1 .. NPAGES, LazyGrow(p, n)
      PROVE  LinesEnd'
  <2>1. \A q \in Threads' : q \in Threads /\ mem_parent'[q] = mem_parent[q]
    BY <1>8 DEF LazyGrow, Threads
  <2>2. QED
    BY <2>1, LinesKept
<1>9. ASSUME NEW p \in Tasks, NEW n \in 1 .. NPAGES, Grow(p, n)
      PROVE  LinesEnd'
  <2>1. \A q \in Threads' : q \in Threads /\ mem_parent'[q] = mem_parent[q]
    BY <1>9 DEF Grow, Threads
  <2>2. QED
    BY <2>1, LinesKept
<1>10. ASSUME NEW p \in Tasks, NEW n \in Pages, Shrink(p, n)
      PROVE  LinesEnd'
  <2>1. \A q \in Threads' : q \in Threads /\ mem_parent'[q] = mem_parent[q]
    BY <1>10 DEF Shrink, Threads
  <2>2. QED
    BY <2>1, LinesKept
<1>11. ASSUME NEW p \in Tasks, NEW n \in Pages, Fault(p, n)
      PROVE  LinesEnd'
  <2>1. \A q \in Threads' : q \in Threads /\ mem_parent'[q] = mem_parent[q]
    BY <1>11 DEF Fault, Threads
  <2>2. QED
    BY <2>1, LinesKept
<1>12. ASSUME NEW p \in Tasks, GrowPage(p)
      PROVE  LinesEnd'
  <2>1. \A q \in Threads' : q \in Threads /\ mem_parent'[q] = mem_parent[q]
    BY <1>12 DEF GrowPage, Threads
  <2>2. QED
    BY <2>1, LinesKept
<1>13. ASSUME NEW p \in Tasks, GrowFails(p)
      PROVE  LinesEnd'
  <2>1. \A q \in Threads' : q \in Threads /\ mem_parent'[q] = mem_parent[q]
    BY <1>13 DEF GrowFails, Threads
  <2>2. QED
    BY <2>1, LinesKept
<1>14. ASSUME NEW p \in Tasks, GrowDone(p)
      PROVE  LinesEnd'
  <2>1. \A q \in Threads' : q \in Threads /\ mem_parent'[q] = mem_parent[q]
    BY <1>14 DEF GrowDone, Threads
  <2>2. QED
    BY <2>1, LinesKept
<1>15. ASSUME NEW p \in Tasks, Exec(p)
      PROVE  LinesEnd'
  <2>1. \A q \in Threads' : q \in Threads /\ mem_parent'[q] = mem_parent[q]
    BY <1>15 DEF Exec, Threads
  <2>2. QED
    BY <2>1, LinesKept
<1>16. ASSUME NEW p \in Tasks, ExecPage(p)
      PROVE  LinesEnd'
  <2>1. \A q \in Threads' : q \in Threads /\ mem_parent'[q] = mem_parent[q]
    BY <1>16 DEF ExecPage, Threads
  <2>2. QED
    BY <2>1, LinesKept
<1>17. ASSUME NEW p \in Tasks, ExecFails(p)
      PROVE  LinesEnd'
  <2>1. \A q \in Threads' : q \in Threads /\ mem_parent'[q] = mem_parent[q]
    BY <1>17 DEF ExecFails, Threads
  <2>2. QED
    BY <2>1, LinesKept
<1>18. ASSUME NEW p \in Tasks, ExecDone(p)
      PROVE  LinesEnd'
  <2>1. \A q \in Threads' : q \in Threads /\ mem_parent'[q] = mem_parent[q]
    BY <1>18 DEF ExecDone, Threads
  <2>2. QED
    BY <2>1, LinesKept
<1>19. ASSUME NEW p \in Tasks, Exit(p)
      PROVE  LinesEnd'
  <2>1. \A q \in Threads' : q \in Threads /\ mem_parent'[q] = mem_parent[q]
    BY <1>19 DEF Exit, Threads
  <2>2. QED
    BY <2>1, LinesKept
<1>20. ASSUME NEW p \in Tasks, NEW x \in Tasks, Collect(p, x)
      PROVE  LinesEnd'
  <2>1. \A q \in Threads' : q \in Threads /\ mem_parent'[q] = mem_parent[q]
    BY <1>20 DEF Collect, freeproc, Threads
  <2>2. QED
    BY <2>1, LinesKept
<1>21. CASE UNCHANGED memVars
  <2>1. \A q \in Threads' : q \in Threads /\ mem_parent'[q] = mem_parent[q]
    BY <1>21 DEF memVars, Threads
  <2>2. QED
    BY <2>1, LinesKept
<1> HIDE DEF ThreadInv, SlotInv, MemTypeOK, is_thread, SetAt, MemGoto, p_vars,
             space, loop
<1>22. QED
  BY <1>1, <1>2, <1>3, <1>4, <1>5, <1>6, <1>7, <1>8, <1>9, <1>10, <1>11,
     <1>12, <1>13, <1>14, <1>15, <1>16, <1>17, <1>18, <1>19, <1>20, <1>21
  DEF MemNext, Create, Resize, Replace, Leave

-----------------------------------------------------------------------------
(* Frames: what kalloc() and kfree() do to a sharing of frames among places. *)

(* A frame goes from the free list to an empty place. *)
LEMMA Allocated ==
  ASSUME NEW h, NEW h2, NEW fr, NEW fr2, Shared(h, fr),
         \E f \in fr, v \in Places :
           /\ fr2 = fr \ {f} /\ h[v] = {} /\ h2[v] = {f}
           /\ \A w \in Places : w # v => h2[w] = h[w]
  PROVE  Shared(h2, fr2)
<1>1. PICK f \in fr, v \in Places :
        /\ fr2 = fr \ {f} /\ h[v] = {} /\ h2[v] = {f}
        /\ \A w \in Places : w # v => h2[w] = h[w]
  OBVIOUS
<1>2. QED
  BY <1>1 DEF Shared

(* The places of X are emptied to the free list. *)
LEMMA Released ==
  ASSUME NEW h, NEW h2, NEW fr, NEW fr2, NEW X \in SUBSET Places,
         Shared(h, fr), \A w \in X : h2[w] = {},
         \A w \in Places \ X : h2[w] = h[w],
         \A f : f \in fr2 <=> f \in fr \/ \E w \in X : f \in h[w]
  PROVE  Shared(h2, fr2)
  BY DEF Shared

(* Places trade what they hold. *)
LEMMA Traded ==
  ASSUME NEW h, NEW h2, NEW fr, NEW s,
         Shared(h, fr), \A w \in Places : s[w] \in Places /\ s[s[w]] = w /\ h2[w] = h[s[w]]
  PROVE  Shared(h2, fr)
  BY DEF Shared

(* Nothing moves. *)
LEMMA Kept ==
  ASSUME NEW h, NEW h2, NEW fr, Shared(h, fr), \A w \in Places : h2[w] = h[w]
  PROVE  Shared(h2, fr)
  BY DEF Shared

(* FrameInv after a step, and what is in each place. *)
LEMMA FrameInvPrime == FrameInv' <=> Shared(Holdings', free')
  BY DEF FrameInv, Shared

(* Page 0 exists: a program has at least one page. *)
LEMMA ZeroIsAPage == 0 \in Pages
  BY DEF Pages

(* What a PTE points to. *)
LEMMA EntryOf == \A e, f : f \in Entry(e) <=> f = e /\ e # Nowhere
  BY DEF Entry

(* What is in each kind of place, before and after a step. *)
LEMMA TableAt ==
  ASSUME NEW q \in Tasks, NEW k \in Pages
  PROVE  /\ Holdings[<<"table", q, k>>] = IF k = 0 THEN table[q] ELSE {}
         /\ Holdings'[<<"table", q, k>>] = IF k = 0 THEN table'[q] ELSE {}
<1>1. <<"table", q, k>> \in Places
  BY DEF Places, Kinds
<1>2. QED
  BY <1>1 DEF Holdings

(* The page table of an image being built. *)
LEMMA NewTableAt ==
  ASSUME NEW q \in Tasks, NEW k \in Pages
  PROVE  /\ Holdings[<<"newtable", q, k>>] = IF k = 0 THEN image[q].table ELSE {}
         /\ Holdings'[<<"newtable", q, k>>] = IF k = 0 THEN image'[q].table ELSE {}
<1>1. <<"newtable", q, k>> \in Places
  BY DEF Places, Kinds
<1>2. QED
  BY <1>1 DEF Holdings

(* The user pages that a process owns. *)
LEMMA PageAt ==
  ASSUME NEW q \in Tasks, NEW k \in Pages
  PROVE  /\ Holdings[<<"page", q, k>>] = Owned[q][k]
         /\ Holdings'[<<"page", q, k>>] = Owned'[q][k]
<1>1. <<"page", q, k>> \in Places
  BY DEF Places, Kinds
<1>2. QED
  BY <1>1 DEF Holdings

(* The pages of an image being built. *)
LEMMA NewPageAt ==
  ASSUME NEW q \in Tasks, NEW k \in Pages
  PROVE  /\ Holdings[<<"newpage", q, k>>] = Entry(image[q].pt[k])
         /\ Holdings'[<<"newpage", q, k>>] = Entry(image'[q].pt[k])
<1>1. <<"newpage", q, k>> \in Places
  BY DEF Places, Kinds
<1>2. QED
  BY <1>1 DEF Holdings

(* There are four kinds of places. *)
LEMMA PlaceKinds ==
  ASSUME NEW w \in Places
  PROVE  \E q \in Tasks, k \in Pages :
           w \in {<<"table", q, k>>, <<"newtable", q, k>>, <<"page", q, k>>, <<"newpage", q, k>>}
<1>1. w = <<w[1], w[2], w[3]>> /\ w[2] \in Tasks /\ w[3] \in Pages
  BY DEF Places
<1>2. w[1] \in Kinds
  BY DEF Places
<1>3. w[1] = "table" \/ w[1] = "newtable" \/ w[1] = "page" \/ w[1] = "newpage"
  BY <1>2 DEF Kinds
<1>4. w \in {<<"table", w[2], w[3]>>, <<"newtable", w[2], w[3]>>,
             <<"page", w[2], w[3]>>, <<"newpage", w[2], w[3]>>}
  BY <1>1, <1>3
<1>5. QED
  BY <1>1, <1>4

(* Places outside V hold after a step what they held before. *)
LEMMA Elsewhere ==
  ASSUME NEW V,
         \A q \in Tasks : <<"table", q, 0>> \notin V => table'[q] = table[q],
         \A q \in Tasks : <<"newtable", q, 0>> \notin V => image'[q].table = image[q].table,
         \A q \in Tasks, k \in Pages : <<"page", q, k>> \notin V => Owned'[q][k] = Owned[q][k],
         \A q \in Tasks, k \in Pages :
           <<"newpage", q, k>> \notin V => image'[q].pt[k] = image[q].pt[k]
  PROVE  \A w \in Places : w \notin V => Holdings'[w] = Holdings[w]
<1> SUFFICES ASSUME NEW w \in Places, w \notin V PROVE Holdings'[w] = Holdings[w]
  OBVIOUS
<1>1. PICK q \in Tasks, k \in Pages :
        w \in {<<"table", q, k>>, <<"newtable", q, k>>, <<"page", q, k>>, <<"newpage", q, k>>}
  BY PlaceKinds
<1>2. CASE w = <<"table", q, k>>
  <2>1. Holdings[w] = (IF k = 0 THEN table[q] ELSE {}) /\ Holdings'[w] = (IF k = 0 THEN table'[q] ELSE {})
    BY <1>2, TableAt
  <2>2. k = 0 => table'[q] = table[q]
    BY <1>2
  <2>3. QED
    BY <2>1, <2>2
<1>3. CASE w = <<"newtable", q, k>>
  <2>1. Holdings[w] = (IF k = 0 THEN image[q].table ELSE {}) /\ Holdings'[w] = (IF k = 0 THEN image'[q].table ELSE {})
    BY <1>3, NewTableAt
  <2>2. k = 0 => image'[q].table = image[q].table
    BY <1>3
  <2>3. QED
    BY <2>1, <2>2
<1>4. CASE w = <<"page", q, k>>
  <2>1. Holdings[w] = (Owned[q][k]) /\ Holdings'[w] = (Owned'[q][k])
    BY <1>4, PageAt
  <2>2. Owned'[q][k] = Owned[q][k]
    BY <1>4
  <2>3. QED
    BY <2>1, <2>2
<1>5. CASE w = <<"newpage", q, k>>
  <2>1. Holdings[w] = (Entry(image[q].pt[k])) /\ Holdings'[w] = (Entry(image'[q].pt[k]))
    BY <1>5, NewPageAt
  <2>2. image'[q].pt[k] = image[q].pt[k]
    BY <1>5
  <2>3. QED
    BY <2>1, <2>2
<1>6. QED
  BY <1>1, <1>2, <1>3, <1>4, <1>5

(* A step that moves no frame. *)
LEMMA FramesStay ==
  ASSUME FrameInv, free' = free, table' = table,
         \A q \in Tasks : image'[q] = image[q],
         \A q \in Tasks, k \in Pages : Owned'[q][k] = Owned[q][k]
  PROVE  FrameInv'
<1> DEFINE V == {}
<1>1. V = {}
  OBVIOUS
<1> HIDE DEF V
<1>2. \A w \in Places : w \notin V => Holdings'[w] = Holdings[w]
  BY Elsewhere
<1>3. \A w \in Places : Holdings'[w] = Holdings[w]
  BY <1>1, <1>2
<1>4. Shared(Holdings, free)
  BY DEF FrameInv
<1>5. Shared(Holdings', free')
  BY <1>3, <1>4, Kept
<1>6. QED
  BY <1>5, FrameInvPrime

(* kalloc() for page j of x *)
LEMMA PageAllocated ==
  ASSUME FrameInv, NEW x \in Tasks, NEW j \in Pages, NEW f \in free, free' = free \ {f},
         table' = table, image' = image,
         Owned[x][j] = {}, Owned'[x][j] = {f},
         \A q \in Tasks, k \in Pages : q # x \/ k # j => Owned'[q][k] = Owned[q][k]
  PROVE  FrameInv'
<1> DEFINE v == <<"page", x, j>>
           V == {v}
<1>1. v \in Places
  BY DEF Places, Kinds
<1>2. Holdings[v] = {} /\ Holdings'[v] = {f}
  BY PageAt
<1>3. /\ \A q \in Tasks : <<"table", q, 0>> \notin V => table'[q] = table[q]
      /\ \A q \in Tasks : <<"newtable", q, 0>> \notin V => image'[q].table = image[q].table
      /\ \A q \in Tasks, k \in Pages : <<"page", q, k>> \notin V => Owned'[q][k] = Owned[q][k]
      /\ \A q \in Tasks, k \in Pages :
           <<"newpage", q, k>> \notin V => image'[q].pt[k] = image[q].pt[k]
  OBVIOUS
<1>4. \A w : w \notin V <=> w # v
  OBVIOUS
<1> HIDE DEF v, V
<1>5. \A w \in Places : w \notin V => Holdings'[w] = Holdings[w]
  BY <1>3, Elsewhere
<1>6. Shared(Holdings, free)
  BY DEF FrameInv
<1>7. \A w \in Places : w # v => Holdings'[w] = Holdings[w]
  BY <1>4, <1>5
<1>8. f \in free /\ free' = free \ {f}
  OBVIOUS
<1>9. \E g \in free, u \in Places :
        /\ free' = free \ {g} /\ Holdings[u] = {} /\ Holdings'[u] = {g}
        /\ \A w \in Places : w # u => Holdings'[w] = Holdings[w]
  BY <1>1, <1>2, <1>7, <1>8
<1>10. Shared(Holdings', free')
  BY <1>6, <1>9, Allocated
<1>11. QED
  BY <1>10, FrameInvPrime

(* freeproc(x) *)
LEMMA SlotFreed ==
  ASSUME FrameInv, NEW x \in Tasks, table'[x] = {}, \A k \in Pages : Owned'[x][k] = {},
         \A q \in Tasks \ {x} : table'[q] = table[q],
         \A q \in Tasks \ {x}, k \in Pages : Owned'[q][k] = Owned[q][k],
         \A q \in Tasks : image'[q] = image[q],
         \A f : f \in free' <=> f \in free \/ f \in table[x] \/ \E k \in Pages : f \in Owned[x][k]
  PROVE  FrameInv'
<1> DEFINE X == {<<"table", x, 0>>} \cup {<<"page", x, k>> : k \in Pages}
<1>1. X \in SUBSET Places
  BY ZeroIsAPage DEF Places, Kinds
<1>2. \A w \in X : Holdings'[w] = {}
  <2>1. Holdings'[<<"table", x, 0>>] = {}
    BY TableAt, ZeroIsAPage
  <2>2. \A k \in Pages : Holdings'[<<"page", x, k>>] = {}
    BY PageAt
  <2>3. QED
    BY <2>1, <2>2
<1>3. /\ \A q \in Tasks : <<"table", q, 0>> \notin X => table'[q] = table[q]
      /\ \A q \in Tasks : <<"newtable", q, 0>> \notin X => image'[q].table = image[q].table
      /\ \A q \in Tasks, k \in Pages : <<"page", q, k>> \notin X => Owned'[q][k] = Owned[q][k]
      /\ \A q \in Tasks, k \in Pages :
           <<"newpage", q, k>> \notin X => image'[q].pt[k] = image[q].pt[k]
  OBVIOUS
<1>4. \A f : f \in free' <=> f \in free \/ \E w \in X : f \in Holdings[w]
  <2>1. Holdings[<<"table", x, 0>>] = table[x]
    BY TableAt, ZeroIsAPage
  <2>2. \A k \in Pages : Holdings[<<"page", x, k>>] = Owned[x][k]
    BY PageAt
  <2>3. \A f : (\E w \in X : f \in Holdings[w]) <=> f \in table[x] \/ \E k \in Pages : f \in Owned[x][k]
    <3>1. \A w : w \in X <=> w = <<"table", x, 0>> \/ \E k \in Pages : w = <<"page", x, k>>
      OBVIOUS
    <3> HIDE DEF X
    <3>2. ASSUME NEW f, NEW w \in X, f \in Holdings[w]
          PROVE  f \in table[x] \/ \E k \in Pages : f \in Owned[x][k]
      BY <2>1, <2>2, <3>1, <3>2
    <3>3. ASSUME NEW f, f \in table[x] PROVE \E w \in X : f \in Holdings[w]
      <4>1. <<"table", x, 0>> \in X
        BY <3>1
      <4>2. QED
        BY <2>1, <3>3, <4>1
    <3>4. ASSUME NEW f, NEW k \in Pages, f \in Owned[x][k] PROVE \E w \in X : f \in Holdings[w]
      <4>1. <<"page", x, k>> \in X
        BY <3>1
      <4>2. QED
        BY <2>2, <3>4, <4>1
    <3>5. QED
      BY <3>2, <3>3, <3>4
  <2>4. QED
    BY <2>3
<1>5. Shared(Holdings, free)
  BY DEF FrameInv
<1> HIDE DEF X
<1>6. \A w \in Places : w \notin X => Holdings'[w] = Holdings[w]
  BY <1>3, Elsewhere
<1>7. Shared(Holdings', free')
  BY <1>1, <1>2, <1>4, <1>5, <1>6, Released
<1>8. QED
  BY <1>7, FrameInvPrime

(* uvmdealloc() of the pages in L *)
LEMMA PagesFreed ==
  ASSUME FrameInv, NEW x \in Tasks, NEW L \in SUBSET Pages, table' = table,
         \A q \in Tasks : image'[q] = image[q],
         \A k \in L : Owned'[x][k] = {},
         \A k \in Pages \ L : Owned'[x][k] = Owned[x][k],
         \A q \in Tasks \ {x}, k \in Pages : Owned'[q][k] = Owned[q][k],
         \A f : f \in free' <=> f \in free \/ \E k \in L : f \in Owned[x][k]
  PROVE  FrameInv'
<1> DEFINE X == {<<"page", x, k>> : k \in L}
<1>1. X \in SUBSET Places
  BY DEF Places, Kinds
<1>2. \A w \in X : Holdings'[w] = {}
  <2>1. \A k \in L : Holdings'[<<"page", x, k>>] = {}
    BY PageAt
  <2>2. QED
    BY <2>1
<1>3. /\ \A q \in Tasks : <<"table", q, 0>> \notin X => table'[q] = table[q]
      /\ \A q \in Tasks : <<"newtable", q, 0>> \notin X => image'[q].table = image[q].table
      /\ \A q \in Tasks, k \in Pages : <<"page", q, k>> \notin X => Owned'[q][k] = Owned[q][k]
      /\ \A q \in Tasks, k \in Pages :
           <<"newpage", q, k>> \notin X => image'[q].pt[k] = image[q].pt[k]
  OBVIOUS
<1>4. \A f : f \in free' <=> f \in free \/ \E w \in X : f \in Holdings[w]
  <2>1. \A k \in L : Holdings[<<"page", x, k>>] = Owned[x][k]
    BY PageAt
  <2>2. \A f : (\E w \in X : f \in Holdings[w]) <=> \E k \in L : f \in Owned[x][k]
    <3>1. \A w : w \in X <=> \E k \in L : w = <<"page", x, k>>
      OBVIOUS
    <3> HIDE DEF X
    <3>2. ASSUME NEW f, NEW w \in X, f \in Holdings[w]
          PROVE  \E k \in L : f \in Owned[x][k]
      BY <2>1, <3>1, <3>2
    <3>3. ASSUME NEW f, NEW k \in L, f \in Owned[x][k] PROVE \E w \in X : f \in Holdings[w]
      <4>1. <<"page", x, k>> \in X
        BY <3>1
      <4>2. QED
        BY <2>1, <3>3, <4>1
    <3>4. QED
      BY <3>2, <3>3
  <2>3. QED
    BY <2>2
<1>5. Shared(Holdings, free)
  BY DEF FrameInv
<1> HIDE DEF X
<1>6. \A w \in Places : w \notin X => Holdings'[w] = Holdings[w]
  BY <1>3, Elsewhere
<1>7. Shared(Holdings', free')
  BY <1>1, <1>2, <1>4, <1>5, <1>6, Released
<1>8. QED
  BY <1>7, FrameInvPrime

(* kalloc() for the page table of x *)
LEMMA TableAllocated ==
  ASSUME FrameInv, NEW x \in Tasks, NEW f \in free, free' = free \ {f},
         table[x] = {}, table'[x] = {f}, \A q \in Tasks \ {x} : table'[q] = table[q],
         image' = image, \A q \in Tasks, k \in Pages : Owned'[q][k] = Owned[q][k]
  PROVE  FrameInv'
<1> DEFINE v == <<"table", x, 0>>
           V == {v}
<1>1. v \in Places
  BY ZeroIsAPage DEF Places, Kinds
<1>2. Holdings[v] = {} /\ Holdings'[v] = {f}
  BY ZeroIsAPage, TableAt
<1>3. /\ \A q \in Tasks : <<"table", q, 0>> \notin V => table'[q] = table[q]
      /\ \A q \in Tasks : <<"newtable", q, 0>> \notin V => image'[q].table = image[q].table
      /\ \A q \in Tasks, k \in Pages : <<"page", q, k>> \notin V => Owned'[q][k] = Owned[q][k]
      /\ \A q \in Tasks, k \in Pages :
           <<"newpage", q, k>> \notin V => image'[q].pt[k] = image[q].pt[k]
  OBVIOUS
<1>4. \A w : w \notin V <=> w # v
  OBVIOUS
<1> HIDE DEF v, V
<1>5. \A w \in Places : w \notin V => Holdings'[w] = Holdings[w]
  BY <1>3, Elsewhere
<1>6. Shared(Holdings, free)
  BY DEF FrameInv
<1>7. \E g \in free, u \in Places :
        /\ free' = free \ {g} /\ Holdings[u] = {} /\ Holdings'[u] = {g}
        /\ \A w \in Places : w # u => Holdings'[w] = Holdings[w]
  BY <1>1, <1>2, <1>4, <1>5
<1>8. Shared(Holdings', free')
  BY <1>6, <1>7, Allocated
<1>9. QED
  BY <1>8, FrameInvPrime

(* kalloc() for the page table of a new image *)
LEMMA ImageAllocated ==
  ASSUME FrameInv, NEW x \in Tasks, NEW f \in free, free' = free \ {f},
         image[x].table = {}, image'[x].table = {f}, image'[x].pt = image[x].pt,
         \A q \in Tasks \ {x} : image'[q] = image[q],
         table' = table, \A q \in Tasks, k \in Pages : Owned'[q][k] = Owned[q][k]
  PROVE  FrameInv'
<1> DEFINE v == <<"newtable", x, 0>>
           V == {v}
<1>1. v \in Places
  BY ZeroIsAPage DEF Places, Kinds
<1>2. Holdings[v] = {} /\ Holdings'[v] = {f}
  BY ZeroIsAPage, NewTableAt
<1>3. /\ \A q \in Tasks : <<"table", q, 0>> \notin V => table'[q] = table[q]
      /\ \A q \in Tasks : <<"newtable", q, 0>> \notin V => image'[q].table = image[q].table
      /\ \A q \in Tasks, k \in Pages : <<"page", q, k>> \notin V => Owned'[q][k] = Owned[q][k]
      /\ \A q \in Tasks, k \in Pages :
           <<"newpage", q, k>> \notin V => image'[q].pt[k] = image[q].pt[k]
  OBVIOUS
<1>4. \A w : w \notin V <=> w # v
  OBVIOUS
<1> HIDE DEF v, V
<1>5. \A w \in Places : w \notin V => Holdings'[w] = Holdings[w]
  BY <1>3, Elsewhere
<1>6. Shared(Holdings, free)
  BY DEF FrameInv
<1>7. \E g \in free, u \in Places :
        /\ free' = free \ {g} /\ Holdings[u] = {} /\ Holdings'[u] = {g}
        /\ \A w \in Places : w # u => Holdings'[w] = Holdings[w]
  BY <1>1, <1>2, <1>4, <1>5
<1>8. Shared(Holdings', free')
  BY <1>6, <1>7, Allocated
<1>9. QED
  BY <1>8, FrameInvPrime

(* kalloc() for page j of a new image *)
LEMMA ImagePageAllocated ==
  ASSUME FrameInv, NEW x \in Tasks, NEW j \in Pages, NEW f \in free, free' = free \ {f},
         image[x].pt[j] = Nowhere, f # Nowhere, image'[x].pt[j] = f,
         image'[x].table = image[x].table,
         \A k \in Pages \ {j} : image'[x].pt[k] = image[x].pt[k],
         \A q \in Tasks \ {x} : image'[q] = image[q],
         table' = table, \A q \in Tasks, k \in Pages : Owned'[q][k] = Owned[q][k]
  PROVE  FrameInv'
<1> DEFINE v == <<"newpage", x, j>>
           V == {v}
<1>1. v \in Places
  BY ZeroIsAPage DEF Places, Kinds
<1>2. Holdings[v] = {} /\ Holdings'[v] = {f}
  <2>1. Holdings[v] = Entry(image[x].pt[j])
    BY NewPageAt
  <2>2. Holdings'[v] = Entry(image'[x].pt[j])
    BY NewPageAt
  <2> HIDE DEF v, V
  <2>3. QED
    BY <2>1, <2>2, EntryOf
<1>3. /\ \A q \in Tasks : <<"table", q, 0>> \notin V => table'[q] = table[q]
      /\ \A q \in Tasks : <<"newtable", q, 0>> \notin V => image'[q].table = image[q].table
      /\ \A q \in Tasks, k \in Pages : <<"page", q, k>> \notin V => Owned'[q][k] = Owned[q][k]
      /\ \A q \in Tasks, k \in Pages :
           <<"newpage", q, k>> \notin V => image'[q].pt[k] = image[q].pt[k]
  OBVIOUS
<1>4. \A w : w \notin V <=> w # v
  OBVIOUS
<1> HIDE DEF v, V
<1>5. \A w \in Places : w \notin V => Holdings'[w] = Holdings[w]
  BY <1>3, Elsewhere
<1>6. Shared(Holdings, free)
  BY DEF FrameInv
<1>7. \E g \in free, u \in Places :
        /\ free' = free \ {g} /\ Holdings[u] = {} /\ Holdings'[u] = {g}
        /\ \A w \in Places : w # u => Holdings'[w] = Holdings[w]
  BY <1>1, <1>2, <1>4, <1>5
<1>8. Shared(Holdings', free')
  BY <1>6, <1>7, Allocated
<1>9. QED
  BY <1>8, FrameInvPrime

(* exec() gives up the new image of x. *)
LEMMA ImageFreed ==
  ASSUME FrameInv, NEW x \in Tasks, image'[x].table = {}, \A k \in Pages : image'[x].pt[k] = Nowhere,
         table' = table, \A q \in Tasks, k \in Pages : Owned'[q][k] = Owned[q][k],
         \A q \in Tasks \ {x} : image'[q] = image[q],
         \A f : f \in free' <=> \/ f \in free \/ f \in image[x].table
                                \/ f # Nowhere /\ \E k \in Pages : image[x].pt[k] = f
  PROVE  FrameInv'
<1> DEFINE X == {<<"newtable", x, 0>>} \cup {<<"newpage", x, k>> : k \in Pages}
<1>1. X \in SUBSET Places
  BY ZeroIsAPage DEF Places, Kinds
<1>2. \A w \in X : Holdings'[w] = {}
  <2>1. Holdings'[<<"newtable", x, 0>>] = {}
    BY NewTableAt, ZeroIsAPage
  <2>2. \A k \in Pages : Holdings'[<<"newpage", x, k>>] = Entry(image'[x].pt[k])
    BY NewPageAt
  <2>3. QED
    BY <2>1, <2>2, EntryOf
<1>3. /\ \A q \in Tasks : <<"table", q, 0>> \notin X => table'[q] = table[q]
      /\ \A q \in Tasks : <<"newtable", q, 0>> \notin X => image'[q].table = image[q].table
      /\ \A q \in Tasks, k \in Pages : <<"page", q, k>> \notin X => Owned'[q][k] = Owned[q][k]
      /\ \A q \in Tasks, k \in Pages :
           <<"newpage", q, k>> \notin X => image'[q].pt[k] = image[q].pt[k]
  OBVIOUS
<1>4. \A f : f \in free' <=> f \in free \/ \E w \in X : f \in Holdings[w]
  <2>1. Holdings[<<"newtable", x, 0>>] = image[x].table
    BY NewTableAt, ZeroIsAPage
  <2>2. \A k \in Pages : Holdings[<<"newpage", x, k>>] = Entry(image[x].pt[k])
    BY NewPageAt
  <2>3. \A w : w \in X <=> w = <<"newtable", x, 0>> \/ \E k \in Pages : w = <<"newpage", x, k>>
    OBVIOUS
  <2> HIDE DEF X
  <2>4. ASSUME NEW f, NEW w \in X, f \in Holdings[w]
        PROVE  f \in image[x].table \/ (f # Nowhere /\ \E k \in Pages : image[x].pt[k] = f)
    <3>1. ASSUME w = <<"newtable", x, 0>> PROVE f \in image[x].table
      <4>1. Holdings[w] = image[x].table
        BY <2>1, <3>1
      <4>2. QED
        BY <2>4, <4>1
    <3>2. ASSUME NEW k \in Pages, w = <<"newpage", x, k>>
          PROVE  f # Nowhere /\ image[x].pt[k] = f
      BY <2>2, <2>4, <3>2, EntryOf
    <3>3. w = <<"newtable", x, 0>> \/ \E k \in Pages : w = <<"newpage", x, k>>
      BY <2>3
    <3>4. QED
      BY <3>1, <3>2, <3>3
  <2>5. ASSUME NEW f, f \in image[x].table PROVE \E w \in X : f \in Holdings[w]
    <3>1. <<"newtable", x, 0>> \in X
      BY <2>3
    <3>2. QED
      BY <2>1, <2>5, <3>1
  <2>6. ASSUME NEW f, NEW k \in Pages, image[x].pt[k] = f, f # Nowhere
        PROVE  \E w \in X : f \in Holdings[w]
    <3>1. <<"newpage", x, k>> \in X
      BY <2>3
    <3>2. f \in Holdings[<<"newpage", x, k>>]
      BY <2>2, <2>6, EntryOf
    <3>3. QED
      BY <3>1, <3>2
  <2>7. QED
    BY <2>4, <2>5, <2>6
<1>5. Shared(Holdings, free)
  BY DEF FrameInv
<1> HIDE DEF X
<1>6. \A w \in Places : w \notin X => Holdings'[w] = Holdings[w]
  BY <1>3, Elsewhere
<1>7. Shared(Holdings', free')
  BY <1>1, <1>2, <1>4, <1>5, <1>6, Released
<1>8. QED
  BY <1>7, FrameInvPrime

(* The place that trades with w when exec() commits the image of x. *)
Other(kind) ==
  CASE kind = "table" -> "newtable"
    [] kind = "newtable" -> "table"
    [] kind = "page" -> "newpage"
    [] kind = "newpage" -> "page"

Swap(x) == [w \in Places |-> IF w[2] = x THEN <<Other(w[1]), x, w[3]>> ELSE w]

(* Where kexec() moves what is in each place when it commits the image. *)
LEMMA SwapAt ==
  ASSUME NEW x \in Tasks, NEW q \in Tasks, NEW k \in Pages
  PROVE  /\ Swap(x)[<<"table", q, k>>] = IF q = x THEN <<"newtable", q, k>> ELSE <<"table", q, k>>
         /\ Swap(x)[<<"newtable", q, k>>] = IF q = x THEN <<"table", q, k>> ELSE <<"newtable", q, k>>
         /\ Swap(x)[<<"page", q, k>>] = IF q = x THEN <<"newpage", q, k>> ELSE <<"page", q, k>>
         /\ Swap(x)[<<"newpage", q, k>>] = IF q = x THEN <<"page", q, k>> ELSE <<"newpage", q, k>>
<1>1. /\ <<"table", q, k>> \in Places /\ <<"newtable", q, k>> \in Places
      /\ <<"page", q, k>> \in Places /\ <<"newpage", q, k>> \in Places
  BY DEF Places, Kinds
<1>2. QED
  BY <1>1 DEF Swap, Other

(* exec() replaces the table and the pages of x by those of the new image. *)
LEMMA ImageCommitted ==
  ASSUME FrameInv, NEW x \in Tasks,
         table'[x] = image[x].table, image'[x].table = {},
         \A k \in Pages : Owned'[x][k] = Entry(image[x].pt[k]) /\ image'[x].pt[k] = Nowhere,
         \A q \in Tasks \ {x} : table'[q] = table[q] /\ image'[q] = image[q],
         \A q \in Tasks \ {x}, k \in Pages : Owned'[q][k] = Owned[q][k],
         \A f : f \in free' <=> f \in free \/ f \in table[x] \/ \E k \in Pages : f \in Owned[x][k]
  PROVE  FrameInv'
<1> DEFINE X == {<<"table", x, k>> : k \in Pages} \cup {<<"page", x, k>> : k \in Pages}
           h == [w \in Places |-> IF w \in X THEN {} ELSE Holdings[w]]
<1>1. X \in SUBSET Places
  BY DEF Places, Kinds
<1>2. \A w \in X : h[w] = {}
  BY <1>1
<1>3. \A w \in Places \ X : h[w] = Holdings[w]
  OBVIOUS
<1>4. \A w : w \in X <=> \E k \in Pages : w = <<"table", x, k>> \/ w = <<"page", x, k>>
  OBVIOUS
<1>5. \A q \in Tasks, k \in Pages :
        /\ <<"table", q, k>> \in Places /\ <<"newtable", q, k>> \in Places
        /\ <<"page", q, k>> \in Places /\ <<"newpage", q, k>> \in Places
  BY DEF Places, Kinds
<1> HIDE DEF X, h
<1>6. \A q \in Tasks, k \in Pages :
        /\ <<"table", q, k>> \in X <=> q = x
        /\ <<"page", q, k>> \in X <=> q = x
        /\ <<"newtable", q, k>> \notin X
        /\ <<"newpage", q, k>> \notin X
  BY <1>4
<1>7. \A f : f \in free' <=> f \in free \/ \E w \in X : f \in Holdings[w]
  <2>1. ASSUME NEW f, NEW w \in X, f \in Holdings[w]
        PROVE  f \in table[x] \/ \E k \in Pages : f \in Owned[x][k]
    <3>1. PICK k \in Pages : w = <<"table", x, k>> \/ w = <<"page", x, k>>
      BY <1>4
    <3>2. CASE w = <<"table", x, k>>
      <4>1. Holdings[w] = IF k = 0 THEN table[x] ELSE {}
        BY <3>2, TableAt
      <4>2. QED
        BY <2>1, <4>1
    <3>3. CASE w = <<"page", x, k>>
      <4>1. Holdings[w] = Owned[x][k]
        BY <3>3, PageAt
      <4>2. QED
        BY <2>1, <4>1
    <3>4. QED
      BY <3>1, <3>2, <3>3
  <2>2. ASSUME NEW f, f \in table[x] PROVE \E w \in X : f \in Holdings[w]
    <3>1. Holdings[<<"table", x, 0>>] = table[x] /\ <<"table", x, 0>> \in X
      BY <1>6, TableAt, ZeroIsAPage
    <3>2. QED
      BY <2>2, <3>1
  <2>3. ASSUME NEW f, NEW k \in Pages, f \in Owned[x][k] PROVE \E w \in X : f \in Holdings[w]
    <3>1. Holdings[<<"page", x, k>>] = Owned[x][k] /\ <<"page", x, k>> \in X
      BY <1>6, PageAt
    <3>2. QED
      BY <2>3, <3>1
  <2>4. QED
    BY <2>1, <2>2, <2>3
<1>8. Shared(h, free')
  <2>1. Shared(Holdings, free)
    BY DEF FrameInv
  <2>2. QED
    BY <1>1, <1>2, <1>3, <1>7, <2>1, Released
<1>9. \A w \in Places :
        /\ Swap(x)[w] \in Places /\ Swap(x)[Swap(x)[w]] = w
        /\ Holdings'[w] = h[Swap(x)[w]]
  <2> SUFFICES ASSUME NEW w \in Places
               PROVE  /\ Swap(x)[w] \in Places /\ Swap(x)[Swap(x)[w]] = w
                      /\ Holdings'[w] = h[Swap(x)[w]]
    OBVIOUS
  <2>1. PICK q \in Tasks, k \in Pages :
          w \in {<<"table", q, k>>, <<"newtable", q, k>>, <<"page", q, k>>, <<"newpage", q, k>>}
    BY PlaceKinds
  <2>2. Swap(x)[w] \in Places /\ Swap(x)[Swap(x)[w]] = w
    <3>1. CASE q = x
      <4>1. /\ Swap(x)[<<"table", q, k>>] = <<"newtable", q, k>>
            /\ Swap(x)[<<"newtable", q, k>>] = <<"table", q, k>>
            /\ Swap(x)[<<"page", q, k>>] = <<"newpage", q, k>>
            /\ Swap(x)[<<"newpage", q, k>>] = <<"page", q, k>>
        BY <3>1, SwapAt
      <4>2. CASE w = <<"table", q, k>>
        BY <1>5, <4>1, <4>2
      <4>3. CASE w = <<"newtable", q, k>>
        BY <1>5, <4>1, <4>3
      <4>4. CASE w = <<"page", q, k>>
        BY <1>5, <4>1, <4>4
      <4>5. CASE w = <<"newpage", q, k>>
        BY <1>5, <4>1, <4>5
      <4>6. QED
        BY <2>1, <4>2, <4>3, <4>4, <4>5
    <3>2. CASE q # x
      <4>1. /\ Swap(x)[<<"table", q, k>>] = <<"table", q, k>>
            /\ Swap(x)[<<"newtable", q, k>>] = <<"newtable", q, k>>
            /\ Swap(x)[<<"page", q, k>>] = <<"page", q, k>>
            /\ Swap(x)[<<"newpage", q, k>>] = <<"newpage", q, k>>
        BY <3>2, SwapAt
      <4>2. QED
        BY <1>5, <2>1, <4>1
    <3>3. QED
      BY <3>1, <3>2
  <2>3. CASE w = <<"table", q, k>>
    <3>1. Holdings'[w] = IF k = 0 THEN table'[q] ELSE {}
      BY <2>3, TableAt
    <3>2. CASE q = x
      <4>1. Swap(x)[w] = <<"newtable", q, k>>
        BY <2>3, <3>2, SwapAt
      <4>2. h[Swap(x)[w]] = IF k = 0 THEN image[q].table ELSE {}
        <5>1. Holdings[<<"newtable", q, k>>] = IF k = 0 THEN image[q].table ELSE {}
          BY NewTableAt
        <5>2. h[<<"newtable", q, k>>] = Holdings[<<"newtable", q, k>>]
          BY <1>3, <1>5, <1>6
        <5>3. QED
          BY <4>1, <5>1, <5>2
      <4>3. QED
        BY <2>2, <3>1, <3>2, <4>2
    <3>3. CASE q # x
      <4>1. Swap(x)[w] = w
        BY <2>3, <3>3, SwapAt
      <4>2. h[w] = IF k = 0 THEN table[q] ELSE {}
        BY <1>3, <1>6, <2>3, <3>3, TableAt
      <4>3. QED
        BY <2>2, <3>1, <3>3, <4>1, <4>2
    <3>4. QED
      BY <3>2, <3>3
  <2>4. CASE w = <<"newtable", q, k>>
    <3>1. Holdings'[w] = IF k = 0 THEN image'[q].table ELSE {}
      BY <2>4, NewTableAt
    <3>2. CASE q = x
      <4>1. Swap(x)[w] = <<"table", q, k>>
        BY <2>4, <3>2, SwapAt
      <4>2. h[Swap(x)[w]] = {}
        BY <1>2, <1>6, <3>2, <4>1
      <4>3. QED
        BY <2>2, <3>1, <3>2, <4>2
    <3>3. CASE q # x
      <4>1. Swap(x)[w] = w
        BY <2>4, <3>3, SwapAt
      <4>2. h[w] = IF k = 0 THEN image[q].table ELSE {}
        BY <1>3, <1>6, <2>4, <3>3, NewTableAt
      <4>3. QED
        BY <2>2, <3>1, <3>3, <4>1, <4>2
    <3>4. QED
      BY <3>2, <3>3
  <2>5. CASE w = <<"page", q, k>>
    <3>1. Holdings'[w] = Owned'[q][k]
      BY <2>5, PageAt
    <3>2. CASE q = x
      <4>1. Swap(x)[w] = <<"newpage", q, k>>
        BY <2>5, <3>2, SwapAt
      <4>2. h[Swap(x)[w]] = Entry(image[q].pt[k])
        <5>1. Holdings[<<"newpage", q, k>>] = Entry(image[q].pt[k])
          BY NewPageAt
        <5>2. h[<<"newpage", q, k>>] = Holdings[<<"newpage", q, k>>]
          BY <1>3, <1>5, <1>6
        <5>3. QED
          BY <4>1, <5>1, <5>2
      <4>3. QED
        BY <2>2, <3>1, <3>2, <4>2
    <3>3. CASE q # x
      <4>1. Swap(x)[w] = w
        BY <2>5, <3>3, SwapAt
      <4>2. h[w] = Owned[q][k]
        BY <1>3, <1>6, <2>5, <3>3, PageAt
      <4>3. QED
        BY <2>2, <3>1, <3>3, <4>1, <4>2
    <3>4. QED
      BY <3>2, <3>3
  <2>6. CASE w = <<"newpage", q, k>>
    <3>1. Holdings'[w] = Entry(image'[q].pt[k])
      BY <2>6, NewPageAt
    <3>2. CASE q = x
      <4>1. Swap(x)[w] = <<"page", q, k>>
        BY <2>6, <3>2, SwapAt
      <4>2. h[Swap(x)[w]] = {}
        BY <1>2, <1>6, <3>2, <4>1
      <4>3. Entry(Nowhere) = {}
        BY DEF Entry
      <4>4. QED
        BY <2>2, <3>1, <3>2, <4>2, <4>3
    <3>3. CASE q # x
      <4>1. Swap(x)[w] = w
        BY <2>6, <3>3, SwapAt
      <4>2. h[w] = Entry(image[q].pt[k])
        BY <1>3, <1>6, <2>6, <3>3, NewPageAt
      <4>3. QED
        BY <2>2, <3>1, <3>3, <4>1, <4>2
    <3>4. QED
      BY <3>2, <3>3
  <2>7. QED
    BY <2>1, <2>3, <2>4, <2>5, <2>6
<1>10. Shared(Holdings', free')
  BY <1>8, <1>9, Traded
<1>11. QED
  BY <1>10, FrameInvPrime

-----------------------------------------------------------------------------
(* What the steps do to frames *)

(* A process that borrows its pages owns none of them. *)
LEMMA OwnedAt ==
  ASSUME NEW q \in Tasks, NEW k \in Pages
  PROVE  /\ Owned[q][k] = IF q \in Borrowing THEN {} ELSE Entry(pt[q][k])
         /\ Owned'[q][k] = IF q \in Borrowing' THEN {} ELSE Entry(pt'[q][k])
  BY DEF Owned

(* The frames of a range of entries. *)
LEMMA MappedIn ==
  \A t, from, to, f : f \in Mapped(t, from, to) <=>
    f # Nowhere /\ \E k \in Pages : from <= k /\ k < to /\ t[k] = f
  BY DEF Mapped

(* When all entries are in the range, all of them count. *)
LEMMA MappedAll ==
  ASSUME NEW x \in Tasks, NEW n, \A k \in Pages : Owned[x][k] = Entry(pt[x][k]),
         \A k \in Pages : pt[x][k] # Nowhere => k < n
  PROVE  \A f : f \in Mapped(pt[x], 0, n) <=> \E k \in Pages : f \in Owned[x][k]
<1>1. \A k \in Pages : 0 <= k
  BY DEF Pages
<1>2. ASSUME NEW f, f \in Mapped(pt[x], 0, n)
      PROVE  \E k \in Pages : f \in Owned[x][k]
  <2>1. PICK k \in Pages : f # Nowhere /\ pt[x][k] = f
    BY <1>2, MappedIn
  <2>2. f \in Owned[x][k]
    BY <2>1, EntryOf
  <2>3. QED
    BY <2>2
<1>3. ASSUME NEW f, NEW k \in Pages, f \in Owned[x][k]
      PROVE  f \in Mapped(pt[x], 0, n)
  <2>1. f = pt[x][k] /\ f # Nowhere
    BY <1>3, EntryOf
  <2>2. 0 <= k /\ k < n
    BY <1>1, <2>1
  <2>3. QED
    BY <2>1, <2>2, MappedIn
<1>4. QED
  BY <1>2, <1>3

(* An invalid PTE points to no frame. *)
LEMMA FramesAreSomewhere == Nowhere \notin Frames
  BY DEF Frames

(* A valid PTE points to one frame, an invalid one to none. *)
LEMMA NoEntry == Entry(Nowhere) = {} /\ \A f \in Frames : Entry(f) = {f}
  BY FramesAreSomewhere DEF Entry

(* A process that runs or has run and is no thread owns its pages. *)
LEMMA OwnPages ==
  ASSUME SlotInv, NEW p \in Tasks, p_state[p] \in {"RUNNABLE", "ZOMBIE"}, ~is_thread(p)
  PROVE  p \notin Borrowing
  BY DEF SlotInv, Borrowing, Borrows

(* The slot that fork() fills owns its pages, the one that clone() fills borrows them. *)
LEMMA ChildPages ==
  ASSUME MemTypeOK, SlotInv, NEW p \in Tasks, mem_pc[p] \in {"fork", "clone"}
  PROVE  child[p] \in Borrowing <=> mem_pc[p] = "clone"
<1>1. child[p] \in Tasks /\ child[p] # NoTask /\ ~is_thread(child[p])
  BY DEF MemTypeOK, SlotInv, is_thread
<1>2. \A q \in Tasks : child[q] = child[p] => q = p
  BY <1>1 DEF SlotInv
<1>3. QED
  BY <1>1, <1>2 DEF Borrowing, Borrows

(* Every kalloc() takes a frame that nothing holds, and every kfree() is of a *)
(* frame that its caller owns and forgets.                                  *)
LEMMA NextFrameInv ==
  ASSUME Discipline
  PROVE  MemTypeOK /\ SlotInv /\ LoopInv /\ ExtentInv /\ ThreadInv /\ FrameInv /\ [MemNext]_memVars => FrameInv'
<1> SUFFICES ASSUME MemTypeOK /\ SlotInv /\ LoopInv /\ ExtentInv /\ ThreadInv /\ FrameInv, [MemNext]_memVars PROVE FrameInv'
  OBVIOUS
<1> USE DEF SlotInv, LoopInv, MemTypeOK, SetAt, MemGoto, p_vars, space, loop
<1>1. ASSUME NEW p \in Tasks, NEW x \in Tasks, NEW call \in {"fork", "clone"}, Spawn(p, x, call)
      PROVE  FrameInv'
  <2>1. PICK f \in free : free' = free \ {f} /\ table' = [table EXCEPT ![x] = {f}]
    BY <1>1 DEF Spawn
  <2>2. p_state[x] = "UNUSED" /\ table[x] = {} /\ \A k \in Pages : pt[x][k] = Nowhere
    BY <1>1 DEF Spawn, EmptyTable
  <2>3. table'[x] = {f} /\ \A q \in Tasks \ {x} : table'[q] = table[q]
    BY <2>1
  <2>4. pt' = pt /\ image' = image
    BY <1>1 DEF Spawn
  <2>5. \A q \in Tasks \ {x} : q \in Borrowing' <=> q \in Borrowing
    BY <1>1 DEF Spawn, InUser, Borrowing, Borrows, is_thread
  <2>6. \A q \in Tasks, k \in Pages : Owned'[q][k] = Owned[q][k]
    <3>1. \A k \in Pages : Owned'[x][k] = {} /\ Owned[x][k] = {}
      BY <2>2, <2>4, OwnedAt, NoEntry
    <3>2. \A q \in Tasks \ {x}, k \in Pages : Owned'[q][k] = Owned[q][k]
      BY <2>4, <2>5, OwnedAt
    <3>3. ASSUME NEW q \in Tasks, NEW k \in Pages
          PROVE  Owned'[q][k] = Owned[q][k]
      <4>1. CASE q = x
        BY <3>1, <4>1
      <4>2. CASE q # x
        BY <3>2, <4>2
      <4>3. QED
        BY <4>1, <4>2
    <3>4. QED
      BY <3>3
  <2>7. QED
    BY <2>1, <2>2, <2>3, <2>4, <2>6, TableAllocated
<1>2. ASSUME NEW p \in Tasks, SkipPage(p)
      PROVE  FrameInv'
  <2>1. Borrowing' = Borrowing
    BY <1>2 DEF SkipPage, Borrowing, Borrows, is_thread
  <2>2. /\ free' = free /\ table' = table /\ pt' = pt
        /\ \A q \in Tasks : image'[q] = image[q]
    BY <1>2 DEF SkipPage
  <2>3. \A q \in Tasks, k \in Pages : Owned'[q][k] = Owned[q][k]
    BY <2>1, <2>2, OwnedAt
  <2>4. QED
    BY <2>2, <2>3, FramesStay
<1>3. ASSUME NEW p \in Tasks, CopyPage(p)
      PROVE  FrameInv'
  <2>1. PICK f \in free : free' = free \ {f} /\ pt' = [pt EXCEPT ![child[p]][i[p]] = f]
    BY <1>3 DEF CopyPage
  <2>2. PICK x \in Tasks, j \in Pages : x = child[p] /\ j = i[p] /\ pt[x][j] = Nowhere
    <3>1. mem_pc[p] = "fork" /\ i[p] < sz[p]
      BY <1>3 DEF CopyPage, Copies
    <3>2. child[p] \in Tasks /\ \A k \in Pages : pt[child[p]][k] # Nowhere => k < i[p]
      BY <3>1, HalfCopied
    <3>3. i[p] \in Pages
      BY <3>1 DEF Pages
    <3>4. QED
      BY <3>2, <3>3
  <2>3. x \notin Borrowing
    BY <1>3, <2>2, ChildPages DEF CopyPage, Copies
  <2>4. Borrowing' = Borrowing
    BY <1>3 DEF CopyPage, Borrowing, Borrows, is_thread
  <2>5. /\ pt'[x][j] = f
        /\ \A q \in Tasks, k \in Pages : q # x \/ k # j => pt'[q][k] = pt[q][k]
    BY <2>1, <2>2 DEF Table
  <2>6. Owned[x][j] = {} /\ Owned'[x][j] = {f}
    BY <2>2, <2>3, <2>4, <2>5, OwnedAt, NoEntry
  <2>7. \A q \in Tasks, k \in Pages : q # x \/ k # j => Owned'[q][k] = Owned[q][k]
    BY SMTT(30), <2>4, <2>5, OwnedAt
  <2>8. table' = table /\ image' = image
    BY <1>3 DEF CopyPage
  <2>9. x \in Tasks /\ j \in Pages /\ f \in free /\ free' = free \ {f}
    BY <2>1, <2>2
  <2> HIDE DEF SlotInv, LoopInv, MemTypeOK, SetAt, MemGoto, p_vars, space, loop
  <2>10. QED
    BY <2>6, <2>7, <2>8, <2>9, PageAllocated
<1>4. ASSUME NEW p \in Tasks, SharePage(p)
      PROVE  FrameInv'
  <2>1. Borrowing' = Borrowing
    BY <1>4 DEF SharePage, Borrowing, Borrows, is_thread
  <2>2. child[p] \in Borrowing
    BY <1>4, ChildPages DEF SharePage, Copies
  <2>3. \A q \in Tasks \ {child[p]} : pt'[q] = pt[q]
    BY <1>4 DEF SharePage
  <2>4. \A q \in Tasks, k \in Pages : Owned'[q][k] = Owned[q][k]
    BY <2>1, <2>2, <2>3, OwnedAt
  <2>5. free' = free /\ table' = table /\ \A q \in Tasks : image'[q] = image[q]
    BY <1>4 DEF SharePage
  <2>6. QED
    BY <2>4, <2>5, FramesStay
<1>5. ASSUME NEW p \in Tasks, CopyStops(p)
      PROVE  FrameInv'
  <2>1. PICK x \in Tasks : x = child[p]
    BY <1>5, HalfCopied DEF CopyStops, Copies
  <2>2. /\ mem_pc[p] = "fork" /\ ~is_thread(x) /\ sz[x] = 0
        /\ \A k \in Pages : pt[x][k] # Nowhere => k < i[p]
    BY <1>5, <2>1, HalfCopied DEF CopyStops, Copies
  <2>3. /\ table'[x] = {} /\ \A k \in Pages : pt'[x][k] = Nowhere
        /\ \A q \in Tasks \ {x} : table'[q] = table[q] /\ pt'[q] = pt[q]
        /\ \A q \in Tasks : image'[q] = image[q]
    BY <1>5, <2>1, <2>2 DEF CopyStops, freeproc, EndCall, EmptyTable
  <2>4. \A q \in Tasks \ {x} : q \in Borrowing' <=> q \in Borrowing
    <3>1. \A q \in Tasks \ {x} : mem_parent'[q] = mem_parent[q]
      BY <1>5, <2>1 DEF CopyStops, freeproc
    <3>2. /\ \A q \in Tasks \ {p} : child'[q] = child[q] /\ mem_pc'[q] = mem_pc[q]
          /\ mem_pc'[p] = "user"
      BY <1>5 DEF CopyStops, EndCall
    <3>3. ASSUME NEW q \in Tasks \ {x}
          PROVE  q \in Borrowing' <=> q \in Borrowing
      <4>1. \A r \in Tasks : mem_pc'[r] = "clone" /\ child'[r] = q <=> mem_pc[r] = "clone" /\ child[r] = q
        BY <2>1, <3>2
      <4>2. QED
        BY <3>1, <4>1 DEF Borrowing, Borrows, is_thread
    <3>4. QED
      BY <3>3
  <2>5. \A q \in Tasks \ {x}, k \in Pages : Owned'[q][k] = Owned[q][k]
    BY SMTT(30), <2>3, <2>4, OwnedAt
  <2>6. \A k \in Pages : Owned'[x][k] = {}
    BY SMTT(30), <2>3, OwnedAt, NoEntry
  <2>7. \A k \in Pages : Owned[x][k] = Entry(pt[x][k])
    BY <2>1, <2>2, ChildPages, OwnedAt
  <2>8. \A f : f \in free' <=> f \in free \/ f \in table[x] \/ \E k \in Pages : f \in Owned[x][k]
    <3>1. Mapped(Unmap(pt[x], 0, i[p]), 0, sz[x]) = {}
      <4>1. \A k \in Pages : 0 <= k /\ ~(k < 0)
        BY DEF Pages
      <4>2. QED
        BY <2>2, <4>1 DEF Mapped
    <3>2. free' = free \cup Mapped(pt[x], 0, i[p]) \cup table[x]
      BY <1>5, <2>1, <2>2, <3>1 DEF CopyStops, Freed
    <3>3. \A f : f \in Mapped(pt[x], 0, i[p]) <=> \E k \in Pages : f \in Owned[x][k]
      BY <2>2, <2>7, MappedAll
    <3>4. QED
      BY <3>2, <3>3
  <2>9. QED
    BY SMTT(30), <2>3, <2>5, <2>6, <2>8, SlotFreed
<1>6. ASSUME NEW p \in Tasks, ShareFails(p)
      PROVE  FrameInv'
  <2>1. PICK x \in Tasks : x = child[p]
    BY <1>6, HalfCopied DEF ShareFails, Copies
  <2>2. /\ mem_pc[p] = "clone" /\ ~is_thread(x) /\ sz[x] = 0
        /\ \A k \in Pages : pt[x][k] # Nowhere => k < i[p]
    BY <1>6, <2>1, HalfCopied DEF ShareFails, Copies
  <2>3. /\ table'[x] = {} /\ \A k \in Pages : pt'[x][k] = Nowhere
        /\ \A q \in Tasks \ {x} : table'[q] = table[q] /\ pt'[q] = pt[q]
        /\ \A q \in Tasks : image'[q] = image[q]
    BY <1>6, <2>1, <2>2 DEF ShareFails, freeproc, EndCall, EmptyTable
  <2>4. \A q \in Tasks \ {x} : q \in Borrowing' <=> q \in Borrowing
    <3>1. \A q \in Tasks \ {x} : mem_parent'[q] = mem_parent[q]
      BY <1>6, <2>1 DEF ShareFails, freeproc
    <3>2. /\ \A q \in Tasks \ {p} : child'[q] = child[q] /\ mem_pc'[q] = mem_pc[q]
          /\ mem_pc'[p] = "user"
      BY <1>6 DEF ShareFails, EndCall
    <3>3. ASSUME NEW q \in Tasks \ {x}
          PROVE  q \in Borrowing' <=> q \in Borrowing
      <4>1. \A r \in Tasks : mem_pc'[r] = "clone" /\ child'[r] = q <=> mem_pc[r] = "clone" /\ child[r] = q
        BY <2>1, <3>2
      <4>2. QED
        BY <3>1, <4>1 DEF Borrowing, Borrows, is_thread
    <3>4. QED
      BY <3>3
  <2>5. \A q \in Tasks \ {x}, k \in Pages : Owned'[q][k] = Owned[q][k]
    BY SMTT(30), <2>3, <2>4, OwnedAt
  <2>6. \A k \in Pages : Owned'[x][k] = {}
    BY SMTT(30), <2>3, OwnedAt, NoEntry
  <2>7. \A k \in Pages : Owned[x][k] = {}
    BY <2>1, <2>2, ChildPages, OwnedAt
  <2>8. \A f : f \in free' <=> f \in free \/ f \in table[x] \/ \E k \in Pages : f \in Owned[x][k]
    <3>1. Mapped(Unmap(pt[x], 0, i[p]), 0, sz[x]) = {}
      <4>1. \A k \in Pages : 0 <= k /\ ~(k < 0)
        BY DEF Pages
      <4>2. QED
        BY <2>2, <4>1 DEF Mapped
    <3>2. free' = free \cup table[x]
      BY <1>6, <2>1, <2>2, <3>1 DEF ShareFails, Freed
    <3>3. QED
      BY <2>7, <3>2
  <2>9. QED
    BY SMTT(30), <2>3, <2>5, <2>6, <2>8, SlotFreed
<1>7. ASSUME NEW p \in Tasks, Created(p)
      PROVE  FrameInv'
  <2>1. mem_pc[p] \in {"fork", "clone"} /\ child[p] \in Tasks /\ child[p] # p
    BY <1>7, HalfCopied DEF Created
  <2>2. \A q \in Tasks \ {child[p]} : q \in Borrowing' <=> q \in Borrowing
    BY <1>7, <2>1 DEF Created, EndCall, Borrowing, Borrows, is_thread
  <2>3. child[p] \in Borrowing' <=> mem_pc[p] = "clone"
    <3>1. \A q \in Tasks \ {p} : child'[q] # child[p]
      BY <1>7, <2>1 DEF Created, EndCall
    <3>2. child'[p] # child[p] /\ mem_parent'[child[p]] = IF mem_pc[p] = "clone" THEN p ELSE NoTask
      BY <1>7, <2>1 DEF Created, EndCall
    <3>3. QED
      BY <2>1, <3>1, <3>2 DEF Borrowing, Borrows, is_thread
  <2>4. \A q \in Tasks : q \in Borrowing' <=> q \in Borrowing
    BY <2>1, <2>2, <2>3, ChildPages
  <2>5. /\ free' = free /\ table' = table /\ pt' = pt
        /\ \A q \in Tasks : image'[q] = image[q]
    BY <1>7 DEF Created, EndCall
  <2>6. \A q \in Tasks, k \in Pages : Owned'[q][k] = Owned[q][k]
    BY <2>4, <2>5, OwnedAt
  <2>7. QED
    BY <2>5, <2>6, FramesStay
<1>8. ASSUME NEW p \in Tasks, NEW n \in 1 .. NPAGES, LazyGrow(p, n)
      PROVE  FrameInv'
  <2>1. Borrowing' = Borrowing
    BY <1>8 DEF LazyGrow, Borrowing, Borrows, is_thread
  <2>2. /\ free' = free /\ table' = table /\ pt' = pt
        /\ \A q \in Tasks : image'[q] = image[q]
    BY <1>8 DEF LazyGrow
  <2>3. \A q \in Tasks, k \in Pages : Owned'[q][k] = Owned[q][k]
    BY <2>1, <2>2, OwnedAt
  <2>4. QED
    BY <2>2, <2>3, FramesStay
<1>9. ASSUME NEW p \in Tasks, NEW n \in 1 .. NPAGES, Grow(p, n)
      PROVE  FrameInv'
  <2>1. Borrowing' = Borrowing
    BY <1>9 DEF Grow, InUser, Borrowing, Borrows, is_thread
  <2>2. /\ free' = free /\ table' = table /\ pt' = pt
        /\ \A q \in Tasks : image'[q] = image[q]
    BY <1>9 DEF Grow, InUser
  <2>3. \A q \in Tasks, k \in Pages : Owned'[q][k] = Owned[q][k]
    BY <2>1, <2>2, OwnedAt
  <2>4. QED
    BY <2>2, <2>3, FramesStay
<1>10. ASSUME NEW p \in Tasks, NEW n \in Pages, Shrink(p, n)
      PROVE  FrameInv'
  <2>1. p \notin Borrowing
    BY <1>10, OwnPages DEF Shrink, InUser, MayLetGo, MayGrow
  <2>2. Borrowing' = Borrowing
    BY <1>10 DEF Shrink, Borrowing, Borrows, is_thread
  <2> DEFINE L == {k \in Pages : n <= k /\ k < sz[p]}
  <2>3. \A k \in Pages : pt'[p][k] = IF k \in L THEN Nowhere ELSE pt[p][k]
    BY <1>10, UnmapEntry DEF Shrink
  <2>4. \A f : f \in free' <=> f \in free \/ \E k \in L : f # Nowhere /\ pt[p][k] = f
    BY <1>10, MappedIn DEF Shrink
  <2>5. /\ table' = table
        /\ \A q \in Tasks : image'[q] = image[q]
        /\ \A q \in Tasks \ {p} : pt'[q] = pt[q]
    BY <1>10 DEF Shrink
  <2>6. L \in SUBSET Pages
    OBVIOUS
  <2> HIDE DEF L
  <2>7. \A k \in Pages : Owned[p][k] = Entry(pt[p][k]) /\ Owned'[p][k] = Entry(pt'[p][k])
    BY <2>1, <2>2, OwnedAt
  <2>8. \A k \in L : Owned'[p][k] = {}
    BY <2>3, <2>6, <2>7, NoEntry
  <2>9. \A k \in Pages \ L : Owned'[p][k] = Owned[p][k]
    BY <2>3, <2>7
  <2>10. \A q \in Tasks \ {p}, k \in Pages : Owned'[q][k] = Owned[q][k]
    BY <2>2, <2>5, OwnedAt
  <2>11. \A f : f \in free' <=> f \in free \/ \E k \in L : f \in Owned[p][k]
    <3>1. \A k \in L : \A f : f \in Owned[p][k] <=> pt[p][k] = f /\ f # Nowhere
      BY <2>6, <2>7, EntryOf
    <3>2. QED
      BY <2>4, <3>1
  <2> HIDE DEF SlotInv, LoopInv, MemTypeOK, SetAt, MemGoto, p_vars, space, loop
  <2>12. QED
    BY <2>5, <2>6, <2>8, <2>9, <2>10, <2>11, PagesFreed
<1>11. ASSUME NEW p \in Tasks, NEW n \in Pages, Fault(p, n)
      PROVE  FrameInv'
  <2>1. PICK f \in free : free' = free \ {f} /\ pt' = [pt EXCEPT ![p][n] = f]
    BY <1>11 DEF Fault
  <2>2. p \in Tasks /\ n \in Pages /\ pt[p][n] = Nowhere
    BY <1>11 DEF Fault
  <2>3. p \notin Borrowing
    BY <1>11, OwnPages DEF Fault, InUser, MayGrow
  <2>4. Borrowing' = Borrowing
    BY <1>11 DEF Fault, Borrowing, Borrows, is_thread
  <2>5. /\ pt'[p][n] = f
        /\ \A q \in Tasks, k \in Pages : q # p \/ k # n => pt'[q][k] = pt[q][k]
    BY <2>1, <2>2 DEF Table
  <2>6. Owned[p][n] = {} /\ Owned'[p][n] = {f}
    BY <2>2, <2>3, <2>4, <2>5, OwnedAt, NoEntry
  <2>7. \A q \in Tasks, k \in Pages : q # p \/ k # n => Owned'[q][k] = Owned[q][k]
    BY SMTT(30), <2>4, <2>5, OwnedAt
  <2>8. table' = table /\ image' = image
    BY <1>11 DEF Fault
  <2>9. p \in Tasks /\ n \in Pages /\ f \in free /\ free' = free \ {f}
    BY <2>1, <2>2
  <2> HIDE DEF SlotInv, LoopInv, MemTypeOK, SetAt, MemGoto, p_vars, space, loop
  <2>10. QED
    BY <2>6, <2>7, <2>8, <2>9, PageAllocated
<1>12. ASSUME NEW p \in Tasks, GrowPage(p)
      PROVE  FrameInv'
  <2>1. PICK f \in free : free' = free \ {f} /\ pt' = [pt EXCEPT ![p][i[p]] = f]
    BY <1>12 DEF GrowPage
  <2>2. PICK j \in Pages : j = i[p] /\ pt[p][j] = Nowhere
    <3>1. mem_pc[p] = "grow" /\ i[p] < goal[p]
      BY <1>12 DEF GrowPage
    <3>2. i[p] \in Pages
      BY <3>1 DEF Pages
    <3>3. QED
      BY <3>1, <3>2 DEF ExtentInv, PageExtent
  <2>3. p \notin Borrowing
    BY <1>12, OwnPages DEF GrowPage, ThreadInv, RulesInv
  <2>4. Borrowing' = Borrowing
    BY <1>12 DEF GrowPage, Borrowing, Borrows, is_thread
  <2>5. /\ pt'[p][j] = f
        /\ \A q \in Tasks, k \in Pages : q # p \/ k # j => pt'[q][k] = pt[q][k]
    BY <2>1, <2>2 DEF Table
  <2>6. Owned[p][j] = {} /\ Owned'[p][j] = {f}
    BY <2>2, <2>3, <2>4, <2>5, OwnedAt, NoEntry
  <2>7. \A q \in Tasks, k \in Pages : q # p \/ k # j => Owned'[q][k] = Owned[q][k]
    BY <2>4, <2>5, OwnedAt
  <2>8. table' = table /\ image' = image
    BY <1>12 DEF GrowPage
  <2>9. p \in Tasks /\ j \in Pages /\ f \in free /\ free' = free \ {f}
    BY <2>1, <2>2
  <2> HIDE DEF SlotInv, LoopInv, MemTypeOK, SetAt, MemGoto, p_vars, space, loop
  <2>10. QED
    BY <2>6, <2>7, <2>8, <2>9, PageAllocated
<1>13. ASSUME NEW p \in Tasks, GrowFails(p)
      PROVE  FrameInv'
  <2>1. mem_pc[p] = "grow" /\ p \notin Borrowing
    BY <1>13, OwnPages DEF GrowFails, ThreadInv, RulesInv
  <2>2. Borrowing' = Borrowing
    BY <1>13 DEF GrowFails, EndCall, Borrowing, Borrows, is_thread
  <2> DEFINE L == {k \in Pages : sz[p] <= k /\ k < i[p]}
  <2>3. \A k \in Pages : pt'[p][k] = IF k \in L THEN Nowhere ELSE pt[p][k]
    BY <1>13, UnmapEntry DEF GrowFails
  <2>4. \A f : f \in free' <=> f \in free \/ \E k \in L : f # Nowhere /\ pt[p][k] = f
    BY <1>13, MappedIn DEF GrowFails
  <2>5. /\ table' = table
        /\ \A q \in Tasks : image'[q] = image[q]
        /\ \A q \in Tasks \ {p} : pt'[q] = pt[q]
    BY <1>13 DEF GrowFails, EndCall
  <2>6. L \in SUBSET Pages
    OBVIOUS
  <2> HIDE DEF L
  <2>7. \A k \in Pages : Owned[p][k] = Entry(pt[p][k]) /\ Owned'[p][k] = Entry(pt'[p][k])
    BY <2>1, <2>2, OwnedAt
  <2>8. \A k \in L : Owned'[p][k] = {}
    BY <2>3, <2>6, <2>7, NoEntry
  <2>9. \A k \in Pages \ L : Owned'[p][k] = Owned[p][k]
    BY <2>3, <2>7
  <2>10. \A q \in Tasks \ {p}, k \in Pages : Owned'[q][k] = Owned[q][k]
    BY <2>2, <2>5, OwnedAt
  <2>11. \A f : f \in free' <=> f \in free \/ \E k \in L : f \in Owned[p][k]
    <3>1. \A k \in L : \A f : f \in Owned[p][k] <=> pt[p][k] = f /\ f # Nowhere
      BY <2>6, <2>7, EntryOf
    <3>2. QED
      BY <2>4, <3>1
  <2> HIDE DEF SlotInv, LoopInv, MemTypeOK, SetAt, MemGoto, p_vars, space, loop
  <2>12. QED
    BY <2>5, <2>6, <2>8, <2>9, <2>10, <2>11, PagesFreed
<1>14. ASSUME NEW p \in Tasks, GrowDone(p)
      PROVE  FrameInv'
  <2>1. Borrowing' = Borrowing
    BY <1>14 DEF GrowDone, EndCall, Borrowing, Borrows, is_thread
  <2>2. /\ free' = free /\ table' = table /\ pt' = pt
        /\ \A q \in Tasks : image'[q] = image[q]
    BY <1>14 DEF GrowDone, EndCall
  <2>3. \A q \in Tasks, k \in Pages : Owned'[q][k] = Owned[q][k]
    BY <2>1, <2>2, OwnedAt
  <2>4. QED
    BY <2>2, <2>3, FramesStay
<1>15. ASSUME NEW p \in Tasks, Exec(p)
      PROVE  FrameInv'
  <2>1. PICK f \in free : /\ free' = free \ {f}
                         /\ image' = [image EXCEPT ![p] = [table |-> {f}, pt |-> EmptyTable]]
    BY <1>15 DEF Exec
  <2>2. image[p] = NoImage
    BY <1>15 DEF Exec, InUser
  <2>3. /\ image[p].table = {} /\ image'[p].table = {f} /\ image'[p].pt = image[p].pt
        /\ \A q \in Tasks \ {p} : image'[q] = image[q]
    BY <2>1, <2>2 DEF NoImage
  <2>4. Borrowing' = Borrowing /\ pt' = pt /\ table' = table
    BY <1>15 DEF Exec, InUser, Borrowing, Borrows, is_thread
  <2>5. \A q \in Tasks, k \in Pages : Owned'[q][k] = Owned[q][k]
    BY <2>4, OwnedAt
  <2>6. QED
    BY <2>1, <2>3, <2>4, <2>5, ImageAllocated
<1>16. ASSUME NEW p \in Tasks, ExecPage(p)
      PROVE  FrameInv'
  <2>1. PICK f \in free : free' = free \ {f} /\ image' = [image EXCEPT ![p].pt[i[p]] = f]
    BY <1>16 DEF ExecPage
  <2>2. mem_pc[p] = "exec" /\ i[p] < ExecPages
    BY <1>16 DEF ExecPage
  <2>3. PICK j \in Pages : j = i[p]
    BY <2>2 DEF Pages
  <2>4. image[p].pt[j] = Nowhere
    BY <2>2, <2>3 DEF ExtentInv, ImageExtent
  <2>5. image[p].pt \in Table
    OBVIOUS
  <2>6. /\ image'[p].pt[j] = f /\ image'[p].table = image[p].table
        /\ \A k \in Pages \ {j} : image'[p].pt[k] = image[p].pt[k]
        /\ \A q \in Tasks \ {p} : image'[q] = image[q]
    BY <2>1, <2>3, <2>5 DEF Table
  <2>7. Borrowing' = Borrowing /\ pt' = pt /\ table' = table
    BY <1>16 DEF ExecPage, Borrowing, Borrows, is_thread
  <2>8. \A q \in Tasks, k \in Pages : Owned'[q][k] = Owned[q][k]
    BY <2>7, OwnedAt
  <2>9. f # Nowhere
    BY FramesAreSomewhere
  <2>10. j \in Pages /\ f \in free /\ free' = free \ {f}
    BY <2>1, <2>3
  <2> HIDE DEF SlotInv, LoopInv, MemTypeOK, SetAt, MemGoto, p_vars, space, loop
  <2>11. QED
    BY <2>4, <2>6, <2>7, <2>8, <2>9, <2>10, ImagePageAllocated
<1>17. ASSUME NEW p \in Tasks, ExecFails(p)
      PROVE  FrameInv'
  <2>1. mem_pc[p] = "exec"
    BY <1>17 DEF ExecFails
  <2>2. /\ image'[p].table = {} /\ \A k \in Pages : image'[p].pt[k] = Nowhere
        /\ \A q \in Tasks \ {p} : image'[q] = image[q]
    BY <1>17 DEF ExecFails, EndCall, NoImage, EmptyTable
  <2>3. Borrowing' = Borrowing /\ table' = table /\ pt' = pt
    BY <1>17 DEF ExecFails, EndCall, Borrowing, Borrows, is_thread
  <2>4. \A q \in Tasks, k \in Pages : Owned'[q][k] = Owned[q][k]
    BY <2>3, OwnedAt
  <2>5. \A k \in Pages : 0 <= k /\ (image[p].pt[k] # Nowhere => k < i[p])
    BY <2>1 DEF Pages, ExtentInv, ImageExtent
  <2>6. \A f : f \in Mapped(image[p].pt, 0, i[p]) <=>
                f # Nowhere /\ \E k \in Pages : image[p].pt[k] = f
    BY <2>5, MappedIn
  <2>7. free' = free \cup image[p].table \cup Mapped(image[p].pt, 0, i[p])
    BY <1>17 DEF ExecFails
  <2>8. \A f : f \in free' <=> \/ f \in free \/ f \in image[p].table
                               \/ f # Nowhere /\ \E k \in Pages : image[p].pt[k] = f
    BY <2>6, <2>7
  <2>9. QED
    BY <2>2, <2>3, <2>4, <2>8, ImageFreed
<1>18. ASSUME NEW p \in Tasks, ExecDone(p)
      PROVE  FrameInv'
  <2>1. mem_pc[p] = "exec" /\ p \notin Borrowing
    BY <1>18, OwnPages DEF ExecDone, ThreadInv, RulesInv
  <2>2. Borrowing' = Borrowing
    BY <1>18 DEF ExecDone, EndCall, Borrowing, Borrows, is_thread
  <2>3. /\ table'[p] = image[p].table /\ pt'[p] = image[p].pt
        /\ image'[p].table = {} /\ \A k \in Pages : image'[p].pt[k] = Nowhere
        /\ \A q \in Tasks \ {p} : table'[q] = table[q] /\ pt'[q] = pt[q] /\ image'[q] = image[q]
    BY <1>18 DEF ExecDone, EndCall, NoImage, EmptyTable
  <2>4. \A k \in Pages : Owned[p][k] = Entry(pt[p][k]) /\ Owned'[p][k] = Entry(image[p].pt[k])
    BY <2>1, <2>2, <2>3, OwnedAt
  <2>5. \A q \in Tasks \ {p}, k \in Pages : Owned'[q][k] = Owned[q][k]
    BY SMTT(30), <2>2, <2>3, OwnedAt
  <2>6. \A k \in Pages : 0 <= k /\ (pt[p][k] # Nowhere => k < sz[p])
    BY <2>1 DEF Pages, ExtentInv, PageExtent
  <2>7. \A f : f \in Mapped(pt[p], 0, sz[p]) <=> \E k \in Pages : f \in Owned[p][k]
    BY <2>4, <2>6, MappedAll
  <2>8. free' = free \cup table[p] \cup Mapped(pt[p], 0, sz[p])
    BY <1>18 DEF ExecDone
  <2>9. \A f : f \in free' <=> f \in free \/ f \in table[p] \/ \E k \in Pages : f \in Owned[p][k]
    BY <2>7, <2>8
  <2>10. QED
    BY SMTT(30), <2>3, <2>4, <2>5, <2>9, ImageCommitted
<1>19. ASSUME NEW p \in Tasks, Exit(p)
      PROVE  FrameInv'
  <2>1. Borrowing' = Borrowing
    BY <1>19 DEF Exit, Borrowing, Borrows, is_thread
  <2>2. /\ free' = free /\ table' = table /\ pt' = pt
        /\ \A q \in Tasks : image'[q] = image[q]
    BY <1>19 DEF Exit
  <2>3. \A q \in Tasks, k \in Pages : Owned'[q][k] = Owned[q][k]
    BY <2>1, <2>2, OwnedAt
  <2>4. QED
    BY <2>2, <2>3, FramesStay
<1>20. ASSUME NEW p \in Tasks, NEW x \in Tasks, Collect(p, x)
      PROVE  FrameInv'
  <2>1. p_state[x] = "ZOMBIE" /\ p # x
    BY <1>20 DEF Collect, InUser
  <2>2. /\ table'[x] = {} /\ \A k \in Pages : pt'[x][k] = Nowhere
        /\ \A q \in Tasks \ {x} : table'[q] = table[q] /\ pt'[q] = pt[q]
        /\ \A q \in Tasks : image'[q] = image[q]
    BY <1>20 DEF Collect, freeproc, EmptyTable
  <2>3. \A q \in Tasks \ {x} : q \in Borrowing' <=> q \in Borrowing
    BY <1>20 DEF Collect, freeproc, Borrowing, Borrows, is_thread
  <2>4. \A q \in Tasks \ {x}, k \in Pages : Owned'[q][k] = Owned[q][k]
    BY SMTT(30), <2>2, <2>3, OwnedAt
  <2>5. \A k \in Pages : Owned'[x][k] = {}
    BY SMTT(30), <2>2, OwnedAt, NoEntry
  <2>6. \A k \in Pages : 0 <= k /\ (pt[x][k] # Nowhere => k < sz[x])
    BY <2>1 DEF Pages, ExtentInv, PageExtent
  <2>7. \A f : f \in free' <=> f \in free \/ f \in table[x] \/ \E k \in Pages : f \in Owned[x][k]
    <3>1. CASE is_thread(x)
      <4>1. \A k \in Pages : Owned[x][k] = {}
        BY <3>1, OwnedAt DEF Borrowing, Borrows
      <4>2. free' = free \cup table[x]
        BY <1>20, <3>1 DEF Collect, Freed
      <4>3. QED
        BY <4>1, <4>2
    <3>2. CASE ~is_thread(x)
      <4>1. \A k \in Pages : Owned[x][k] = Entry(pt[x][k])
        BY <2>1, <3>2, OwnPages, OwnedAt
      <4>2. free' = free \cup table[x] \cup Mapped(pt[x], 0, sz[x])
        BY <1>20, <3>2 DEF Collect, Freed
      <4>3. \A f : f \in Mapped(pt[x], 0, sz[x]) <=> \E k \in Pages : f \in Owned[x][k]
        BY <2>6, <4>1, MappedAll
      <4>4. QED
        BY <4>2, <4>3
    <3>3. QED
      BY <3>1, <3>2
  <2>8. QED
    BY SMTT(30), <2>2, <2>4, <2>5, <2>7, SlotFreed
<1>21. CASE UNCHANGED memVars
  <2>1. Borrowing' = Borrowing
    BY <1>21 DEF memVars, Borrowing, Borrows, is_thread
  <2>2. /\ free' = free /\ table' = table /\ pt' = pt
        /\ \A q \in Tasks : image'[q] = image[q]
    BY <1>21 DEF memVars
  <2>3. \A q \in Tasks, k \in Pages : Owned'[q][k] = Owned[q][k]
    BY <2>1, <2>2, OwnedAt
  <2>4. QED
    BY <2>2, <2>3, FramesStay
<1> HIDE DEF SlotInv, LoopInv, MemTypeOK, SetAt, MemGoto, p_vars, space, loop
<1>22. QED
  BY <1>1, <1>2, <1>3, <1>4, <1>5, <1>6, <1>7, <1>8, <1>9, <1>10, <1>11,
     <1>12, <1>13, <1>14, <1>15, <1>16, <1>17, <1>18, <1>19, <1>20, <1>21
  DEF MemNext, Create, Resize, Replace, Leave

-----------------------------------------------------------------------------
(* The first process *)

(* The first process, with one page and one page table. *)
LEMMA InitBase == MemInit => BaseInv
<1> SUFFICES ASSUME MemInit PROVE BaseInv
  OBVIOUS
<1> USE ZeroIsAPage
<1>1. 1 \in Frames /\ 2 \in Frames /\ 3 .. NFRAMES \subseteq Frames
  BY DEF Frames
<1>2. EmptyTable \in Table /\ SetAt(EmptyTable, 0, 2) \in Table /\ NoImage \in [table : SUBSET Frames, pt : Table]
  BY <1>1, TableType DEF SetAt
<1>3. MemTypeOK
  <2>1. 0 \in 0 .. NPAGES /\ 1 \in 0 .. NPAGES
    OBVIOUS
  <2>2. /\ free \subseteq Frames
        /\ table \in [Tasks -> SUBSET Frames]
        /\ pt \in [Tasks -> Table]
        /\ image \in [Tasks -> [table : SUBSET Frames, pt : Table]]
    BY <1>1, <1>2 DEF MemInit
  <2>3. /\ sz \in [Tasks -> 0 .. NPAGES]
        /\ i \in [Tasks -> 0 .. NPAGES]
        /\ goal \in [Tasks -> 0 .. NPAGES]
    BY <2>1 DEF MemInit
  <2>4. QED
    BY <2>2, <2>3 DEF MemInit, MemTypeOK, MayCall
<1>4. SlotInv
  BY DEF MemInit, SlotInv
<1>5. LoopInv
  BY DEF MemInit, LoopInv
<1>6. \A p \in Tasks, k \in Pages : pt[p][k] # Nowhere => p = inittask /\ k = 0
  BY DEF MemInit, EmptyTable, SetAt
<1>7. ExtentInv
  <2>1. PageExtent
    BY <1>6 DEF MemInit, PageExtent
  <2>2. ImageExtent
    BY DEF MemInit, ImageExtent, NoImage, EmptyTable
  <2>3. QED
    BY <2>1, <2>2 DEF MemInit, ExtentInv, NoPanic
<1>8. QED
  BY <1>3, <1>4, <1>5, <1>7 DEF BaseInv

(* Frame 1 is init's page table, frame 2 its page, and all others are free. *)
LEMMA InitFrames == MemInit => FrameInv
<1> SUFFICES ASSUME MemInit PROVE FrameInv
  OBVIOUS
<1> USE ZeroIsAPage
<1>1. Borrowing = {}
  BY DEF MemInit, Borrowing, Borrows, is_thread
<1> DEFINE a == <<"table", inittask, 0>>  b == <<"page", inittask, 0>>
<1>2. a \in Places /\ b \in Places /\ a # b
  BY DEF Places, Kinds
<1>3. \A q \in Tasks, k \in Pages :
        pt[q][k] = IF q = inittask /\ k = 0 THEN 2 ELSE Nowhere
  BY DEF MemInit, EmptyTable, SetAt
<1>4. 2 \in Frames /\ 1 \in Frames
  BY DEF Frames
<1>5. Holdings[a] = {1}
  <2>1. table[inittask] = {1}
    BY DEF MemInit
  <2>2. QED
    BY <2>1, TableAt
<1>6. Holdings[b] = {2}
  <2>1. Owned[inittask][0] = Entry(2)
    BY <1>1, <1>3, OwnedAt
  <2>2. QED
    BY <1>4, <2>1, PageAt, NoEntry
<1>7. ASSUME NEW w \in Places, w # a, w # b
      PROVE  Holdings[w] = {}
  <2>1. PICK q \in Tasks, k \in Pages :
          w \in {<<"table", q, k>>, <<"newtable", q, k>>, <<"page", q, k>>, <<"newpage", q, k>>}
    BY PlaceKinds
  <2>2. CASE w = <<"table", q, k>>
    <3>1. k = 0 => table[q] = {}
      BY <1>7, <2>2 DEF MemInit
    <3>2. QED
      BY <2>2, <3>1, TableAt
  <2>3. CASE w = <<"newtable", q, k>>
    <3>1. image[q].table = {}
      BY DEF MemInit, NoImage
    <3>2. QED
      BY <2>3, <3>1, NewTableAt
  <2>4. CASE w = <<"page", q, k>>
    <3>1. pt[q][k] = Nowhere
      BY <1>3, <1>7, <2>4
    <3>2. Owned[q][k] = {}
      BY <3>1, OwnedAt, NoEntry
    <3>3. QED
      BY <2>4, <3>2, PageAt
  <2>5. CASE w = <<"newpage", q, k>>
    <3>1. image[q].pt[k] = Nowhere
      BY DEF MemInit, NoImage, EmptyTable
    <3>2. QED
      BY <2>5, <3>1, NewPageAt, NoEntry
  <2>6. QED
    BY <2>1, <2>2, <2>3, <2>4, <2>5
<1> HIDE DEF a, b
<1>8. free = 3 .. NFRAMES
  BY DEF MemInit
<1>9. \A v, w \in Places : v # w => Holdings[v] \cap Holdings[w] = {}
  BY <1>2, <1>5, <1>6, <1>7
<1>10. \A w \in Places : Holdings[w] \cap free = {}
  <2>1. 1 \notin free /\ 2 \notin free
    BY <1>8
  <2>2. QED
    BY <1>5, <1>6, <1>7, <2>1
<1>11. \A f \in Frames : f \in free \/ \E w \in Places : f \in Holdings[w]
  <2>1. \A f \in Frames : f = 1 \/ f = 2 \/ f \in free
    BY <1>8 DEF Frames
  <2>2. QED
    BY <1>2, <1>5, <1>6, <2>1
<1>12. QED
  BY <1>9, <1>10, <1>11 DEF FrameInv, Shared

(* The invariant holds of the first process. *)
LEMMA InitIInv == MemInit => IInv
<1> SUFFICES ASSUME MemInit PROVE IInv
  OBVIOUS
<1>1. \A p \in Tasks : ~is_thread(p) /\ mem_pc[p] = "user"
  BY DEF MemInit, is_thread
<1>2. ThreadInv
  BY <1>1 DEF ThreadInv, CreatorInv, CloneInv, RulesInv
<1>3. LinesEnd
  BY <1>1 DEF LinesEnd, Threads
<1>4. QED
  BY <1>2, <1>3, InitBase, InitFrames DEF IInv

-----------------------------------------------------------------------------
(* Who owns what a process sees *)

(* What a running process has mapped, some running process owns: go from   *)
(* the process to its creator until one is no thread.                      *)
LEMMA RunnersPages ==
  ASSUME IInv, NEW q \in Tasks, p_state[q] = "RUNNABLE", NEW k \in Pages, NEW f,
         pt[q][k] = f, f # Nowhere
  PROVE  \E w \in Tasks : f \in Owned[w][k]
<1>1. ASSUME NEW w \in Tasks, p_state[w] = "RUNNABLE", ~is_thread(w), pt[w][k] = f
      PROVE  f \in Owned[w][k]
  <2>1. w \notin Borrowing
    BY <1>1, OwnPages DEF IInv, BaseInv
  <2>2. Owned[w][k] = Entry(f)
    BY <1>1, <2>1, OwnedAt
  <2>3. QED
    BY <2>2, EntryOf
<1>2. CASE ~is_thread(q)
  BY <1>1, <1>2
<1>3. CASE is_thread(q)
  <2> DEFINE S == {t \in Threads : pt[t][k] = f}
  <2>1. S \in SUBSET Threads /\ q \in S
    BY <1>3 DEF Threads
  <2>2. PICK t \in S : mem_parent[t] \notin S
    BY <2>1 DEF IInv, LinesEnd
  <2>3. t \in Tasks /\ p_state[t] = "RUNNABLE" /\ is_thread(t) /\ pt[t][k] = f
    BY <2>2 DEF Threads
  <2>4. PICK w \in Tasks : w = mem_parent[t]
    BY <2>3 DEF IInv, BaseInv, MemTypeOK, is_thread
  <2>5. p_state[w] = "RUNNABLE" /\ pt[w][k] = f
    BY <2>3, <2>4 DEF IInv, ThreadInv, CreatorInv
  <2>6. ~is_thread(w)
    BY <2>2, <2>4, <2>5 DEF Threads
  <2>7. QED
    BY <1>1, <2>5, <2>6
<1>4. QED
  BY <1>2, <1>3

(* What any process that is no zombie thread has mapped, some process owns. *)
LEMMA SeenIsOwned ==
  ASSUME IInv, NEW p \in Tasks, NEW f \in Used(p)
  PROVE  \E w \in Tasks, k \in Pages : f \in Owned[w][k]
<1>1. PICK k \in Pages : pt[p][k] = f /\ f # Nowhere
  BY MappedIn DEF Used, User
<1>2. is_thread(p) => p_state[p] # "ZOMBIE"
  BY DEF Used
<1>3. CASE p \notin Borrowing
  BY <1>1, <1>3, OwnedAt, EntryOf
<1>4. CASE is_thread(p)
  <2>1. p_state[p] = "RUNNABLE"
    BY <1>2, <1>4 DEF IInv, BaseInv, MemTypeOK, SlotInv, is_thread
  <2>2. QED
    BY <1>1, <2>1, RunnersPages
<1>5. CASE p \in Borrowing /\ ~is_thread(p)
  <2>1. PICK q \in Tasks : mem_pc[q] = "clone" /\ child[q] = p
    BY <1>5 DEF Borrowing, Borrows
  <2>2. pt[q][k] = f
    BY <1>1, <2>1 DEF IInv, ThreadInv, CloneInv
  <2>3. p_state[q] = "RUNNABLE"
    BY <2>1 DEF IInv, BaseInv, SlotInv
  <2>4. QED
    BY <1>1, <2>2, <2>3, RunnersPages
<1>6. QED
  BY <1>3, <1>4, <1>5

(* The frames of the kernel are in places that are no user pages. *)
LEMMA KernelPlaces ==
  ASSUME NEW p \in Tasks, NEW f \in Kernel(p)
  PROVE  \E w \in Places : w[1] # "page" /\ w[2] = p /\ f \in Holdings[w]
<1> USE ZeroIsAPage
<1>1. CASE f \in table[p]
  <2> DEFINE w == <<"table", p, 0>>
  <2>1. w \in Places /\ w[1] # "page" /\ w[2] = p
    BY DEF Places, Kinds
  <2>2. f \in Holdings[w]
    BY <1>1, TableAt
  <2>3. QED
    BY <2>1, <2>2
<1>2. CASE f \in image[p].table
  <2> DEFINE w == <<"newtable", p, 0>>
  <2>1. w \in Places /\ w[1] # "page" /\ w[2] = p
    BY DEF Places, Kinds
  <2>2. f \in Holdings[w]
    BY <1>2, NewTableAt
  <2>3. QED
    BY <2>1, <2>2
<1>3. CASE f \in Mapped(image[p].pt, 0, NPAGES)
  <2>1. PICK k \in Pages : f # Nowhere /\ image[p].pt[k] = f
    BY <1>3, MappedIn
  <2> DEFINE w == <<"newpage", p, k>>
  <2>2. w \in Places /\ w[1] # "page" /\ w[2] = p
    BY DEF Places, Kinds
  <2>3. f \in Entry(image[p].pt[k])
    BY <2>1, EntryOf
  <2>4. f \in Holdings[w]
    BY <2>3, NewPageAt
  <2>5. QED
    BY <2>2, <2>4
<1>4. QED
  BY <1>1, <1>2, <1>3 DEF Kernel

(* A frame that some process owns is in that process's page. *)
LEMMA PagePlaces ==
  ASSUME NEW p \in Tasks, NEW k \in Pages, NEW f \in Owned[p][k]
  PROVE  \E w \in Places : w[1] = "page" /\ w[2] = p /\ f \in Holdings[w]
<1> DEFINE w == <<"page", p, k>>
<1>1. w \in Places /\ w[1] = "page" /\ w[2] = p
  BY DEF Places, Kinds
<1>2. f \in Holdings[w]
  BY PageAt
<1>3. QED
  BY <1>1, <1>2

(* What a place holds is in the kernel's pages of its process, or among the *)
(* user pages of a process that owns them.                                  *)
LEMMA InPlaces ==
  ASSUME NEW w \in Places, NEW f \in Holdings[w]
  PROVE  \E p \in Tasks : f \in Kernel(p) \/ (~Borrows(p) /\ f \in User(p))
<1> USE ZeroIsAPage
<1>1. PICK q \in Tasks, k \in Pages :
        w \in {<<"table", q, k>>, <<"newtable", q, k>>, <<"page", q, k>>, <<"newpage", q, k>>}
  BY PlaceKinds
<1>2. \A j \in Pages : 0 <= j /\ j < NPAGES
  BY DEF Pages
<1>3. CASE w = <<"table", q, k>>
  BY <1>3, TableAt DEF Kernel
<1>4. CASE w = <<"newtable", q, k>>
  BY <1>4, NewTableAt DEF Kernel
<1>5. CASE w = <<"page", q, k>>
  <2>1. f \in Owned[q][k]
    BY <1>5, PageAt
  <2>2. q \notin Borrowing /\ f = pt[q][k] /\ f # Nowhere
    BY <2>1, OwnedAt, EntryOf
  <2>3. f \in User(q)
    BY <1>2, <2>2, MappedIn DEF User
  <2>4. QED
    BY <2>2, <2>3 DEF Borrowing
<1>6. CASE w = <<"newpage", q, k>>
  <2>1. f = image[q].pt[k] /\ f # Nowhere
    BY <1>6, NewPageAt, EntryOf
  <2>2. f \in Mapped(image[q].pt, 0, NPAGES)
    BY <1>2, <2>1, MappedIn
  <2>3. QED
    BY <2>2 DEF Kernel
<1>7. QED
  BY <1>1, <1>3, <1>4, <1>5, <1>6

-----------------------------------------------------------------------------
(* The theorems *)

(* Whatever programs do, every variable keeps its type, sz and the page     *)
(* table of a process agree, and so neither "mappages: remap" nor           *)
(* "freewalk: leaf" is ever reached.                                        *)
LEMMA Base == MemSpec => []BaseInv
<1>1. BaseInv /\ [MemNext]_memVars => BaseInv'
  <2> SUFFICES ASSUME BaseInv, [MemNext]_memVars PROVE BaseInv'
    OBVIOUS
  <2>1. MemTypeOK /\ SlotInv /\ LoopInv /\ ExtentInv
    BY DEF BaseInv
  <2>2. ProcType' /\ SizeType' /\ FrameType'
    BY <2>1, TypeParts, NextProcType, NextSizeType, NextFrameType
  <2>3. MemTypeOK'
    BY <2>2 DEF MemTypeOK, ProcType, SizeType, FrameType
  <2>4. SlotInv' /\ LoopInv'
    BY <2>1, NextSlotInv, NextLoopInv
  <2>5. ExtentInv'
    BY <2>1, NextPageExtent, NextImageExtent, NextNoPanic DEF ExtentInv
  <2>6. QED
    BY <2>3, <2>4, <2>5 DEF BaseInv
<1>2. QED
  BY <1>1, InitBase, PTL DEF MemSpec

(* Every variable keeps its type, whether or not programs keep the rules.   *)
THEOREM TypeCorrect == MemSpec => []MemTypeOK
<1>1. BaseInv => MemTypeOK
  BY DEF BaseInv
<1>2. QED
  BY <1>1, Base, PTL

(* Neither "mappages: remap" nor "freewalk: leaf" is ever reached, whether  *)
(* or not programs keep the rules: uvmalloc(), uvmcopy() and uvmshare() map *)
(* only above what is mapped, and freeproc() finds nothing above sz.        *)
THEOREM NeverPanics == MemSpec => []NoPanic
<1>1. BaseInv => NoPanic
  BY DEF BaseInv, ExtentInv
<1>2. QED
  BY <1>1, Base, PTL

(* Under the rules, every frame is free or in one place of one process, and *)
(* what a thread has mapped its creator has, at every step of every call.   *)
THEOREM Invariance ==
  ASSUME Discipline
  PROVE  MemSpec => []IInv
<1>1. ASSUME IInv, BaseInv', [MemNext]_memVars
      PROVE  IInv'
  <2>1. MemTypeOK /\ SlotInv /\ LoopInv /\ ExtentInv /\ ThreadInv /\ LinesEnd /\ FrameInv
    BY <1>1 DEF IInv, BaseInv
  <2>2. ThreadInv'
    BY <1>1, <2>1, NextRulesInv, NextCloneInv, NextCreatorInv DEF ThreadInv
  <2>3. LinesEnd'
    BY <1>1, <2>1, NextLinesEnd
  <2>4. FrameInv'
    BY <1>1, <2>1, NextFrameInv
  <2>5. QED
    BY <1>1, <2>2, <2>3, <2>4 DEF IInv
<1>2. QED
  BY <1>1, InitIInv, Base, PTL DEF MemSpec

(* Under the rules, kfree() never frees a frame that a page table still     *)
(* points to: what any process has mapped some running process owns, and    *)
(* what is owned is not free.                                               *)
THEOREM NoneDangling ==
  ASSUME Discipline
  PROVE  MemSpec => []NoDanglingRefs
<1>1. IInv => NoDanglingRefs
  <2> SUFFICES ASSUME IInv, NEW p \in Tasks, NEW f \in Kernel(p) \cup Used(p)
               PROVE  f \notin free
    BY DEF NoDanglingRefs
  <2>1. \E w \in Places : f \in Holdings[w]
    <3>1. CASE f \in Kernel(p)
      BY <3>1, KernelPlaces
    <3>2. CASE f \in Used(p)
      BY <3>2, SeenIsOwned, PagePlaces
    <3>3. QED
      BY <3>1, <3>2
  <2>2. QED
    BY <2>1 DEF IInv, FrameInv, Shared
<1>2. QED
  BY <1>1, Invariance, PTL

(* Under the rules, no error path loses a frame: uvmcopy(), uvmshare(),     *)
(* uvmalloc() and kexec() give back all that they took.                     *)
THEOREM NothingLeaks ==
  ASSUME Discipline
  PROVE  MemSpec => []NoLeak
<1>1. ASSUME IInv
      PROVE  NoLeak
  <2> DEFINE K == UNION {Kernel(p) : p \in Tasks}
             U == UNION {User(p) : p \in {q \in Tasks : ~Borrows(q)}}
  <2>1. free \subseteq Frames /\ K \subseteq Frames /\ U \subseteq Frames
    <3>1. MemTypeOK
      BY <1>1 DEF IInv, BaseInv
    <3>2. \A p \in Tasks : Kernel(p) \subseteq Frames /\ User(p) \subseteq Frames
      BY <3>1, MappedFrames DEF MemTypeOK, Kernel, User
    <3>3. QED
      BY <3>1, <3>2 DEF MemTypeOK
  <2>2. ASSUME NEW f \in Frames
        PROVE  f \in free \/ f \in K \/ f \in U
    <3>1. CASE f \in free
      BY <3>1
    <3>2. CASE f \notin free
      <4>1. PICK w \in Places : f \in Holdings[w]
        BY <1>1, <3>2 DEF IInv, FrameInv, Shared
      <4>2. PICK p \in Tasks : f \in Kernel(p) \/ (~Borrows(p) /\ f \in User(p))
        BY <4>1, InPlaces
      <4>3. QED
        BY <4>2
    <3>3. QED
      BY <3>1, <3>2
  <2>3. NoLeak <=> Frames = free \cup K \cup U
    BY DEF NoLeak
  <2> HIDE DEF K, U
  <2>4. Frames = free \cup K \cup U
    BY <2>1, <2>2
  <2>5. QED
    BY <2>3, <2>4
<1>2. QED
  BY <1>1, Invariance, PTL

(* Under the rules, processes do not see each other's memory, and a thread  *)
(* sees only that of its creator, which outlives it.                        *)
THEOREM MemoryIsOwned ==
  ASSUME Discipline
  PROVE  MemSpec => []Ownership
<1>1. ASSUME IInv, NEW p \in Tasks, NEW q \in Tasks, p # q, NEW f, f \in Kernel(p)
      PROVE  f \notin Kernel(q) /\ f \notin Used(q)
  <2>1. PICK v \in Places : v[1] # "page" /\ v[2] = p /\ f \in Holdings[v]
    BY <1>1, KernelPlaces
  <2>2. \A w \in Places : f \in Holdings[w] => w = v
    BY <1>1, <2>1 DEF IInv, FrameInv, Shared
  <2>3. f \notin Kernel(q)
    BY <1>1, <2>1, <2>2, KernelPlaces
  <2>4. f \notin Used(q)
    BY <1>1, <2>1, <2>2, SeenIsOwned, PagePlaces
  <2>5. QED
    BY <2>3, <2>4
<1>2. ASSUME IInv, NEW p \in Tasks, NEW q \in Tasks, p # q, ~Borrows(p), ~Borrows(q)
      PROVE  User(p) \cap User(q) = {}
  <2>1. ASSUME NEW r \in Tasks, ~Borrows(r), NEW f \in User(r)
        PROVE  \E w \in Places : w[2] = r /\ f \in Holdings[w]
    <3>1. PICK k \in Pages : f # Nowhere /\ pt[r][k] = f
      BY MappedIn DEF User
    <3>2. f \in Owned[r][k]
      BY <2>1, <3>1, OwnedAt, EntryOf DEF Borrowing
    <3>3. QED
      BY <3>2, PagePlaces
  <2>2. \A v, w \in Places : v # w => Holdings[v] \cap Holdings[w] = {}
    BY <1>2 DEF IInv, FrameInv, Shared
  <2>3. QED
    BY <1>2, <2>1, <2>2
<1>3. ASSUME IInv, NEW p \in Tasks, NEW q \in Tasks, p_state[p] = "RUNNABLE", mem_parent[p] = q
      PROVE  p_state[q] = "RUNNABLE" /\ User(p) \subseteq User(q)
  <2>1. is_thread(p)
    BY <1>3 DEF is_thread
  <2>2. p_state[q] = "RUNNABLE" /\ \A k \in Pages : pt[p][k] \in {Nowhere, pt[q][k]}
    BY <1>3, <2>1 DEF IInv, ThreadInv, CreatorInv
  <2>3. User(p) \subseteq User(q)
    BY <2>2, MappedIn DEF User
  <2>4. QED
    BY <2>2, <2>3
<1>4. IInv => Ownership
  <2> SUFFICES ASSUME IInv, NEW p \in Tasks, NEW q \in Tasks
               PROVE  /\ p # q => Kernel(p) \cap (Kernel(q) \cup Used(q)) = {}
                      /\ p # q /\ ~Borrows(p) /\ ~Borrows(q) => User(p) \cap User(q) = {}
                      /\ p_state[p] = "RUNNABLE" /\ mem_parent[p] = q
                           => p_state[q] = "RUNNABLE" /\ User(p) \subseteq User(q)
    BY DEF Ownership
  <2>1. p # q => Kernel(p) \cap (Kernel(q) \cup Used(q)) = {}
    BY <1>1
  <2>2. QED
    BY <1>2, <1>3, <2>1
<1>5. QED
  BY <1>4, Invariance, PTL
=============================================================================
