--------------------------- MODULE FileSysProofs ---------------------------
(***************************************************************************)
(* Theorems about FileSys.  The references of the inode table are counted: *)
(* at every place of every call, what a process has in its local variables *)
(* and in the list of inodes it has still to iput() is known (PlaceOK),    *)
(* and a step changes ip->ref of each inode by as much as it changes the   *)
(* number of pointers of its process to it (ProcMoves).                    *)
(*                                                                         *)
(* Then the tree (TreeInv): directories are linked both ways, link counts  *)
(* are those of the entries up to what link() and unlink() have under way, *)
(* copies are those of the disk, and no process points to a free inode.    *)
(* A step of one process leaves what another relies on (Rely), and the     *)
(* counts of references tell iput() that it is alone with what it frees.   *)
(*                                                                         *)
(* And the locks (LocksHeld): only unlink() waits with an inode locked,    *)
(* for one that is below it, and as directories form no circle (Grounded), *)
(* neither do those who wait.                                              *)
(***************************************************************************)
EXTENDS FileSysInv, FiniteSetTheorems, TLAPS

USE FsAssumption

-----------------------------------------------------------------------------
(* Sums over the processes, as cardinalities *)

(* h[x] things of each x *)
Units(h) == UNION {{x} \X (1 .. h[x]) : x \in Procs}

(* The units that h counts *)
LEMMA UnitsOf ==
  ASSUME NEW h \in [Procs -> Nat], NEW y
  PROVE  y \in Units(h) <=> \E x \in Procs : \E k \in 1 .. h[x] : y = <<x, k>>
BY DEF Units

(* There are finitely many. *)
LEMMA UnitsFinite ==
  ASSUME NEW h \in [Procs -> Nat]
  PROVE  IsFiniteSet(Units(h)) /\ Cardinality(Units(h)) \in Nat
<1> DEFINE F == [x \in Procs |-> {x} \X (1 .. h[x])]
           T == {{x} \X (1 .. h[x]) : x \in Procs}
<1>1. IsFiniteSet(Procs)
  OBVIOUS
<1>2. F \in Surjection(Procs, T)
  BY DEF Surjection
<1>3. IsFiniteSet(T)
  BY <1>1, <1>2, FS_Surjection
<1>4. \A t \in T : IsFiniteSet(t)
  <2> SUFFICES ASSUME NEW x \in Procs PROVE IsFiniteSet({x} \X (1 .. h[x]))
    OBVIOUS
  <2>1. IsFiniteSet({x})
    BY FS_Singleton
  <2>2. h[x] \in Int /\ 1 \in Int
    OBVIOUS
  <2>3. IsFiniteSet(1 .. h[x])
    BY <2>2, FS_Interval
  <2>4. QED
    BY <2>1, <2>3, FS_Product
<1>5. IsFiniteSet(UNION T)
  BY <1>3, <1>4, FS_UNION
<1>6. QED
  BY <1>5, FS_CardinalityType DEF Units

(* The units of one process *)
LEMMA UnitsOne ==
  ASSUME NEW x \in Procs, NEW n \in Nat
  PROVE  IsFiniteSet({x} \X (1 .. n)) /\ Cardinality({x} \X (1 .. n)) = n
<1>1. IsFiniteSet({x}) /\ Cardinality({x}) = 1
  BY FS_Singleton
<1>2. IsFiniteSet(1 .. n) /\ Cardinality(1 .. n) = n
  <2>1. 1 \in Int /\ n \in Int
    OBVIOUS
  <2>2. IsFiniteSet(1 .. n) /\ Cardinality(1 .. n) = IF 1 > n THEN 0 ELSE n - 1 + 1
    BY <2>1, FS_Interval
  <2>3. QED
    BY <2>2
<1>3. IsFiniteSet({x} \X (1 .. n)) /\ Cardinality({x} \X (1 .. n)) = Cardinality({x}) * Cardinality(1 .. n)
  BY <1>1, <1>2, FS_Product
<1>4. QED
  BY <1>1, <1>2, <1>3

(* A sum is a term and the rest. *)
LEMMA UnitsSplit ==
  ASSUME NEW h \in [Procs -> Nat], NEW p \in Procs
  PROVE  LET rest == Units(h) \ ({p} \X (1 .. h[p])) IN
         /\ IsFiniteSet(rest) /\ Cardinality(rest) \in Nat
         /\ Cardinality(Units(h)) = Cardinality(rest) + h[p]
<1> DEFINE own == {p} \X (1 .. h[p])
           rest == Units(h) \ own
<1>1. IsFiniteSet(Units(h)) /\ Cardinality(Units(h)) \in Nat
  BY UnitsFinite
<1>2. h[p] \in Nat
  OBVIOUS
<1>3. IsFiniteSet(own) /\ Cardinality(own) = h[p]
  BY <1>2, UnitsOne
<1>4. own \subseteq Units(h)
  BY UnitsOf
<1> HIDE DEF own
<1>5. Units(h) \cap own = own
  BY <1>4
<1>6. IsFiniteSet(rest) /\ Cardinality(rest) = Cardinality(Units(h)) - Cardinality(Units(h) \cap own)
  BY <1>1, FS_Difference
<1>7. Cardinality(rest) \in Nat
  BY <1>6, FS_CardinalityType
<1> HIDE DEF rest
<1>8. Cardinality(rest) = Cardinality(Units(h)) - h[p]
  BY <1>3, <1>5, <1>6
<1>9. Cardinality(Units(h)) = Cardinality(rest) + h[p]
  BY <1>1, <1>2, <1>7, <1>8
<1>10. QED
  BY <1>6, <1>7, <1>9 DEF rest, own

(* When one term changes, the sum changes by as much. *)
LEMMA UnitsChange ==
  ASSUME NEW h \in [Procs -> Nat], NEW g \in [Procs -> Nat], NEW p \in Procs,
         \A x \in Procs : x # p => g[x] = h[x]
  PROVE  /\ Cardinality(Units(h)) \in Nat /\ Cardinality(Units(g)) \in Nat
         /\ Cardinality(Units(g)) - g[p] = Cardinality(Units(h)) - h[p]
         /\ Cardinality(Units(h)) >= h[p]
<1> DEFINE rh == Units(h) \ ({p} \X (1 .. h[p]))
           rg == Units(g) \ ({p} \X (1 .. g[p]))
<1>1. rh = rg
  <2>1. \A y : y \in rh <=> \E x \in Procs : \E k \in 1 .. h[x] : y = <<x, k>> /\ x # p
    BY UnitsOf
  <2>2. \A y : y \in rg <=> \E x \in Procs : \E k \in 1 .. g[x] : y = <<x, k>> /\ x # p
    BY UnitsOf
  <2> HIDE DEF rh, rg
  <2>3. QED
    BY <2>1, <2>2
<1>2. Cardinality(Units(h)) = Cardinality(rh) + h[p] /\ Cardinality(rh) \in Nat
  BY UnitsSplit
<1>3. Cardinality(Units(g)) = Cardinality(rg) + g[p]
  BY UnitsSplit
<1> HIDE DEF rh, rg
<1>4. h[p] \in Nat /\ g[p] \in Nat
  OBVIOUS
<1>5. QED
  BY <1>1, <1>2, <1>3, <1>4

(* Two terms are no more than the sum. *)
LEMMA UnitsTwo ==
  ASSUME NEW h \in [Procs -> Nat], NEW p \in Procs, NEW q \in Procs, p # q
  PROVE  Cardinality(Units(h)) >= h[p] + h[q]
<1> DEFINE g == [h EXCEPT ![p] = 0]
<1>1. g \in [Procs -> Nat] /\ g[p] = 0 /\ g[q] = h[q] /\ \A x \in Procs : x # p => g[x] = h[x]
  OBVIOUS
<1> HIDE DEF g
<1>2. Cardinality(Units(g)) - g[p] = Cardinality(Units(h)) - h[p] /\ Cardinality(Units(h)) \in Nat
  BY <1>1, UnitsChange
<1>3. Cardinality(Units(g)) >= g[q] /\ Cardinality(Units(g)) \in Nat
  BY <1>1, UnitsChange
<1>4. h[p] \in Nat /\ h[q] \in Nat
  OBVIOUS
<1>5. QED
  BY <1>1, <1>2, <1>3, <1>4

-----------------------------------------------------------------------------
(* Pointers *)

(* How often i is in a list of what is to be put *)
Counted(s, i) == Cardinality({k \in DOMAIN s : s[k].inum = i})

(* Those lists have at most two elements. *)
LEMMA CountIs ==
  ASSUME NEW s \in Seq(ToPuts), Len(s) <= 2, NEW i
  PROVE  Counted(s, i) = B(Len(s) >= 1 /\ s[1].inum = i) + B(Len(s) = 2 /\ s[2].inum = i)
<1> DEFINE S == {k \in DOMAIN s : s[k].inum = i}
           a == Len(s) >= 1 /\ s[1].inum = i
           b == Len(s) = 2 /\ s[2].inum = i
<1>0. DOMAIN s = 1 .. Len(s) /\ Len(s) \in Nat
  OBVIOUS
<1>1. DOMAIN s = 1 .. Len(s) /\ Len(s) \in {0, 1, 2}
  BY <1>0
<1>2. S = (IF a THEN {1} ELSE {}) \cup (IF b THEN {2} ELSE {})
  BY <1>1
<1>3. Cardinality({}) = 0 /\ IsFiniteSet({})
  BY FS_EmptySet
<1>4. IsFiniteSet({1}) /\ Cardinality({1}) = 1 /\ Cardinality({2}) = 1
  BY FS_Singleton
<1>5. 2 \notin {1}
  OBVIOUS
<1>f. Cardinality({1} \cup {2}) = Cardinality({1}) + 1
  BY <1>4, <1>5, FS_AddElement
<1>c. Counted(s, i) = Cardinality(S)
  BY DEF Counted
<1> HIDE DEF a, b
<1>6. CASE a /\ b
  <2>1. S = {1} \cup {2}
    BY <1>2, <1>6
  <2>2. B(a) = 1 /\ B(b) = 1
    BY <1>6 DEF B
  <2> HIDE DEF S
  <2>a. Cardinality({1} \cup {2}) = 2
    BY <1>4, <1>f
  <2>3. Cardinality(S) = 2
    BY <2>1, <2>a, Zenon
  <2>4. Counted(s, i) = B(a) + B(b)
    BY <1>c, <2>2, <2>3
  <2>5. QED
    BY <2>4 DEF a, b
<1>7. CASE a /\ ~b
  <2>1. S = {1}
    BY <1>2, <1>7
  <2>2. QED
    <3>1. B(a) = 1 /\ B(b) = 0
      BY <1>7 DEF B
    <3>2. Cardinality(S) = 1
      BY <1>4, <2>1
    <3>3. Counted(s, i) = B(a) + B(b)
      BY <1>c, <3>1, <3>2
    <3>4. QED
      BY <3>3 DEF a, b
<1>8. CASE ~a /\ b
  <2>1. S = {2}
    BY <1>2, <1>8
  <2>2. QED
    <3>1. B(a) = 0 /\ B(b) = 1
      BY <1>8 DEF B
    <3>2. Cardinality(S) = 1
      BY <1>4, <2>1
    <3>3. Counted(s, i) = B(a) + B(b)
      BY <1>c, <3>1, <3>2
    <3>4. QED
      BY <3>3 DEF a, b
<1>9. CASE ~a /\ ~b
  <2>1. S = {}
    BY <1>2, <1>9
  <2>2. QED
    <3>1. B(a) = 0 /\ B(b) = 0
      BY <1>9 DEF B
    <3>2. Cardinality(S) = 0
      BY <1>3, <2>1
    <3>3. Counted(s, i) = B(a) + B(b)
      BY <1>c, <3>1, <3>2
    <3>4. QED
      BY <3>3 DEF a, b
<1>10. QED
  BY <1>6, <1>7, <1>8, <1>9

(* How often i is in such a list, without a cardinality *)
Found_in(s, i) == B(Len(s) >= 1 /\ s[1].inum = i) + B(Len(s) = 2 /\ s[2].inum = i)

(* Entries of lists of up to two inodes *)
LEMMA FoundIn ==
  ASSUME NEW i
  PROVE  /\ \A s : Found_in(s, i) \in Nat
         /\ Found_in(<<>>, i) = 0
         /\ \A x : Found_in(<<x>>, i) = B(x.inum = i)
         /\ \A x, y : Found_in(<<x, y>>, i) = B(x.inum = i) + B(y.inum = i)
         /\ \A s \in Seq(ToPuts) : s # <<>> /\ Len(s) <= 2 =>
              Found_in(Tail(s), i) = Found_in(s, i) - B(Head(s).inum = i)
<1>0. \A s : Found_in(s, i) \in Nat
  BY DEF Found_in, B
<1>1. Found_in(<<>>, i) = 0
  BY DEF Found_in, B
<1>2. ASSUME NEW x PROVE Found_in(<<x>>, i) = B(x.inum = i)
  BY DEF Found_in, B
<1>3. ASSUME NEW x, NEW y PROVE Found_in(<<x, y>>, i) = B(x.inum = i) + B(y.inum = i)
  BY DEF Found_in, B
<1>4. ASSUME NEW s \in Seq(ToPuts), s # <<>>, Len(s) <= 2
      PROVE  Found_in(Tail(s), i) = Found_in(s, i) - B(Head(s).inum = i)
  <2>1. /\ Len(s) \in {1, 2} /\ Len(Tail(s)) = Len(s) - 1 /\ Head(s) = s[1]
        /\ Len(s) = 2 => Tail(s)[1] = s[2]
    <3>1. /\ Len(s) \in Nat \ {0} /\ Len(Tail(s)) = Len(s) - 1 /\ Head(s) = s[1]
          /\ \A k \in 1 .. Len(Tail(s)) : Tail(s)[k] = s[k + 1]
      BY <1>4
    <3>2. QED
      BY <1>4, <3>1
  <2>2. QED
    BY <2>1 DEF Found_in, B
<1>5. QED
  BY <1>0, <1>1, <1>2, <1>3, <1>4

(* The pointers of p to i *)
PointersAre(p, i) ==
  B(cwd[p] = i) + B(fd[p] = i) + B(loc[p].cur = i) + B(loc[p].old = i)
    + B(loc[p].ip = i /\ pc[p] # "iget") + Found_in(puts[p], i)

(* They are as many as Pointers says. *)
LEMMA PointersIs ==
  ASSUME ProcType, NEW p \in Procs, PlaceOK(p), NEW i \in Inums
  PROVE  Pointers(p, i) = PointersAre(p, i) /\ Pointers(p, i) \in Nat
<1>1. puts[p] \in Seq(ToPuts) /\ Len(puts[p]) <= 2
  BY DEF ProcType, PlaceOK
<1>2. Counted(puts[p], i) = B(Len(puts[p]) >= 1 /\ puts[p][1].inum = i)
                              + B(Len(puts[p]) = 2 /\ puts[p][2].inum = i)
  BY <1>1, CountIs
<1>3. \A x : B(x) \in Nat
  BY DEF B
<1>4. Counted(puts[p], i) \in Nat
  BY <1>2, <1>3
<1>5. Pointers(p, i) = B(cwd[p] = i) + B(fd[p] = i) + B(loc[p].cur = i) + B(loc[p].old = i)
                       + B(loc[p].ip = i /\ pc[p] # "iget") + Counted(puts[p], i)
  BY DEF Pointers, Counted
<1>6. Pointers(p, i) \in Nat
  BY <1>3, <1>4, <1>5
<1>7. Pointers(p, i) = PointersAre(p, i)
  BY <1>2, <1>3, <1>5 DEF PointersAre, Found_in
<1>8. QED
  BY <1>6, <1>7

(* All pointers to an inode are units of the pointers of each process. *)
LEMMA AllPointersAre ==
  ASSUME ProcType, \A p \in Procs : PlaceOK(p), NEW i \in Inums
  PROVE  LET h == [x \in Procs |-> Pointers(x, i)] IN
         h \in [Procs -> Nat] /\ AllPointers(i) = Units(h)
<1>1. \A x \in Procs : Pointers(x, i) \in Nat
  BY PointersIs
<1>2. QED
  BY <1>1 DEF AllPointers, Units

(* A process moves and the references are counted as it does. *)
Counts(p) ==
  \A i \in Inums : iref'[i] = iref[i] + PointersAre(p, i)' - PointersAre(p, i)

(* Then every reference stays counted. *)
LEMMA ProcMoves ==
  ASSUME BaseInv, FsTypeOK', NEW p \in Procs, PlaceOK(p)', Counts(p),
         \A q \in Procs : q # p => Same(q)
  PROVE  BaseInv'
<1>1. \A q \in Procs : PlaceOK(q)'
  <2> SUFFICES ASSUME NEW q \in Procs, q # p PROVE PlaceOK(q)'
    OBVIOUS
  <2>1. PlaceOK(q) /\ Same(q)
    BY DEF BaseInv
  <2>2. WantsParent(q)' = WantsParent(q)
    BY <2>1 DEF WantsParent, Same
  <2>3. QED
    BY <2>1, <2>2 DEF PlaceOK, Same
<1>2. RefCount'
  <2> SUFFICES ASSUME NEW i \in Inums PROVE iref'[i] = Cardinality(AllPointers(i)')
    BY DEF RefCount
  <2> DEFINE h == [x \in Procs |-> Pointers(x, i)]
             g == [x \in Procs |-> Pointers(x, i)']
  <2>1. h \in [Procs -> Nat] /\ AllPointers(i) = Units(h) /\ h[p] = Pointers(p, i)
    BY AllPointersAre DEF BaseInv, FsTypeOK
  <2>2. \A x \in Procs : Pointers(x, i)' = PointersAre(x, i)' /\ Pointers(x, i)' \in Nat
    <3> SUFFICES ASSUME NEW x \in Procs
                 PROVE  Pointers(x, i)' = PointersAre(x, i)' /\ Pointers(x, i)' \in Nat
      OBVIOUS
    <3>1. puts'[x] \in Seq(ToPuts) /\ Len(puts'[x]) <= 2
      BY <1>1 DEF FsTypeOK, ProcType, PlaceOK
    <3>2. Counted(puts'[x], i) = B(Len(puts'[x]) >= 1 /\ puts'[x][1].inum = i)
                                  + B(Len(puts'[x]) = 2 /\ puts'[x][2].inum = i)
      BY <3>1, CountIs
    <3>3. \A y : B(y) \in Nat
      BY DEF B
    <3>4. Counted(puts'[x], i) \in Nat
      BY <3>2, <3>3
    <3>5. Pointers(x, i)' = B(cwd'[x] = i) + B(fd'[x] = i) + B(loc'[x].cur = i) + B(loc'[x].old = i)
                            + B(loc'[x].ip = i /\ pc'[x] # "iget") + Counted(puts'[x], i)
      BY DEF Pointers, Counted
    <3>6. Pointers(x, i)' \in Nat
      BY <3>3, <3>4, <3>5
    <3>7. Pointers(x, i)' = PointersAre(x, i)'
      BY <3>2, <3>3, <3>5 DEF PointersAre, Found_in
    <3>8. QED
      BY <3>6, <3>7
  <2>3. g \in [Procs -> Nat] /\ AllPointers(i)' = Units(g) /\ g[p] = Pointers(p, i)'
    BY <2>2 DEF AllPointers, Units
  <2>4. \A x \in Procs : x # p => g[x] = h[x]
    <3> SUFFICES ASSUME NEW x \in Procs, x # p PROVE Pointers(x, i)' = Pointers(x, i)
      OBVIOUS
    <3>1. Same(x)
      OBVIOUS
    <3>2. QED
      BY <3>1 DEF Pointers, Same
  <2> HIDE DEF h, g
  <2>5. /\ Cardinality(Units(h)) \in Nat /\ Cardinality(Units(g)) \in Nat
        /\ Cardinality(Units(g)) - g[p] = Cardinality(Units(h)) - h[p]
    BY <2>1, <2>3, <2>4, UnitsChange
  <2>6. iref[i] = Cardinality(Units(h))
    BY <2>1 DEF BaseInv, RefCount
  <2>7. PointersAre(p, i) = h[p] /\ PointersAre(p, i)' = g[p]
    <3>1. PointersAre(p, i) = h[p]
      BY <2>1, PointersIs DEF BaseInv, FsTypeOK
    <3>2. QED
      BY <2>2, <2>3, <3>1
  <2>8. iref'[i] = iref[i] + g[p] - h[p]
    BY <2>7 DEF Counts
  <2>9. g[p] \in Nat /\ h[p] \in Nat
    BY <2>1, <2>3
  <2>10. QED
    BY <2>3, <2>5, <2>6, <2>8, <2>9
<1>3. QED
  BY <1>1, <1>2 DEF BaseInv


-----------------------------------------------------------------------------
(* Each step keeps types, places and counts. *)

(* What ilock() leaves in the table *)
LEMMA LoadedType ==
  ASSUME FsTypeOK, NEW i \in Inums
  PROVE  Loaded(i) \in Copies
BY DEF FsTypeOK, TableType, Loaded, Copies, Disks

(* What the table is after ilock() *)
LEMMA ilockType ==
  ASSUME FsTypeOK, NEW i \in Inums, ilock(i)
  PROVE  core' \in [Inums -> Copies] /\ panicked' \in BOOLEAN
<1>1. Loaded(i) \in Copies
  BY LoadedType
<1>2. QED
  BY <1>1 DEF FsTypeOK, TableType, RestType, ilock, Put, NoType

(* The constants of the declarations *)
LEMMA Constants ==
  /\ Unloaded \in Copies /\ EmptyDir \in [Names -> MaybeInum] /\ NoLocals \in LocalsType
  /\ DOMAIN NoLocals = {"call", "rest", "new", "cur", "ip", "old"}
  /\ NoLocals.cur = Null /\ NoLocals.ip = Null /\ NoLocals.old = Null /\ NoLocals.call = "none"
  /\ Null \in MaybeInum /\ \A i \in MaybeInum : i \in Inums <=> i # Null
  /\ \A i \in Inums : ToPut(i) \in ToPuts /\ ToUnlockPut(i) \in ToPuts /\ ToPut(i).inum = i /\ ToUnlockPut(i).inum = i
  /\ <<>> \in Seq(ToPuts) /\ \A x \in ToPuts : <<x>> \in Seq(ToPuts) /\ \A y \in ToPuts : <<x, y>> \in Seq(ToPuts)
<1>1. <<>> \in Seq(Elems) /\ <<>> \in Seq(Paths) /\ <<>> \in Seq(ToPuts)
  OBVIOUS
<1>2. NoLocals \in LocalsType
  BY <1>1 DEF NoLocals, LocalsType, MaybeInum
<1>3. /\ DOMAIN NoLocals = {"call", "rest", "new", "cur", "ip", "old"}
      /\ NoLocals.cur = Null /\ NoLocals.ip = Null /\ NoLocals.old = Null /\ NoLocals.call = "none"
  BY DEF NoLocals
<1>4. Unloaded \in Copies /\ EmptyDir \in [Names -> MaybeInum]
  BY DEF Unloaded, Copies, InodeTypes, EmptyDir, MaybeInum
<1>5. \A i \in Inums : ToPut(i) \in ToPuts /\ ToUnlockPut(i) \in ToPuts /\ ToPut(i).inum = i /\ ToUnlockPut(i).inum = i
  BY DEF ToPut, ToUnlockPut, ToPuts
<1>6. \A x \in ToPuts : <<x>> \in Seq(ToPuts) /\ \A y \in ToPuts : <<x, y>> \in Seq(ToPuts)
  OBVIOUS
<1>7. Null \in MaybeInum /\ \A i \in MaybeInum : i \in Inums <=> i # Null
  BY DEF MaybeInum
<1>8. QED
  BY <1>1, <1>2, <1>3, <1>4, <1>5, <1>6, <1>7

(* One if x is j *)
Is(x, j) == B(x = j)

(* How often an inode is in the lists that steps make *)
LEMMA ListsOfPuts ==
  ASSUME NEW j
  PROVE  /\ Found_in(<<>>, j) = 0
         /\ \A i : Found_in(<<ToPut(i)>>, j) = Is(i, j)
         /\ \A i : Found_in(<<ToUnlockPut(i)>>, j) = Is(i, j)
<1>1. \A x : Found_in(<<x>>, j) = Is(x.inum, j)
  BY FoundIn DEF Is
<1>3. \A i : ToPut(i).inum = i /\ ToUnlockPut(i).inum = i
  BY DEF ToPut, ToUnlockPut
<1>4. \A i : Found_in(<<ToPut(i)>>, j) = Is(i, j)
  BY <1>1, <1>3, Zenon
<1>5. \A i : Found_in(<<ToUnlockPut(i)>>, j) = Is(i, j)
  BY <1>1, <1>3, Zenon
<1>9. QED
  BY <1>4, <1>5, FoundIn

(* Those with two elements *)
LEMMA PairsOfPuts ==
  ASSUME NEW j, NEW i, NEW k
  PROVE  /\ Found_in(<<ToPut(i), ToPut(k)>>, j) = Is(i, j) + Is(k, j)
         /\ Found_in(<<ToPut(i), ToUnlockPut(k)>>, j) = Is(i, j) + Is(k, j)
         /\ Found_in(<<ToUnlockPut(i), ToUnlockPut(k)>>, j) = Is(i, j) + Is(k, j)
<1>1. ToPut(i).inum = i /\ ToUnlockPut(i).inum = i /\ ToPut(k).inum = k /\ ToUnlockPut(k).inum = k
  BY DEF ToPut, ToUnlockPut
<1>2. \A x, y : Found_in(<<x, y>>, j) = Is(x.inum, j) + Is(y.inum, j)
  BY FoundIn DEF Is
<1>3. Found_in(<<ToPut(i), ToPut(k)>>, j) = Is(ToPut(i).inum, j) + Is(ToPut(k).inum, j)
  BY <1>2, Zenon
<1>4. Found_in(<<ToPut(i), ToUnlockPut(k)>>, j) = Is(ToPut(i).inum, j) + Is(ToUnlockPut(k).inum, j)
  BY <1>2, Zenon
<1>5. Found_in(<<ToUnlockPut(i), ToUnlockPut(k)>>, j) = Is(ToUnlockPut(i).inum, j) + Is(ToUnlockPut(k).inum, j)
  BY <1>2, Zenon
<1>6. QED
  BY <1>1, <1>3, <1>4, <1>5, Zenon

(* The first one is gone. *)
LEMMA TailOfPuts ==
  ASSUME NEW j, NEW s \in Seq(ToPuts), s # <<>>, Len(s) <= 2
  PROVE  Found_in(Tail(s), j) = Found_in(s, j) - Is(Head(s).inum, j)
BY FoundIn DEF Is

(* The types of local variables *)
Typed(l) ==
  /\ l.call \in Calls \cup {"none", "getcwd"} /\ l.rest \in Seq(Elems) /\ l.new \in Seq(Paths)
  /\ l.cur \in MaybeInum /\ l.ip \in MaybeInum /\ l.old \in MaybeInum

(* They hold of any process. *)
LEMMA LocalsTyped ==
  ASSUME loc \in [Procs -> LocalsType], NEW p \in Procs
  PROVE  Typed(loc[p])
<1>1. loc[p] \in LocalsType
  OBVIOUS
<1>2. QED
  BY <1>1 DEF LocalsType, Typed

(* Local variables that are set, and those that stay *)
LEMMA LocalsAre ==
  ASSUME loc \in [Procs -> LocalsType], NEW p \in Procs, NEW upd, Locals(p, upd)
  PROVE  /\ loc' = [loc EXCEPT ![p] = loc'[p]]
         /\ loc'[p].call = IF "call" \in DOMAIN upd THEN upd["call"] ELSE loc[p].call
         /\ loc'[p].rest = IF "rest" \in DOMAIN upd THEN upd["rest"] ELSE loc[p].rest
         /\ loc'[p].new = IF "new" \in DOMAIN upd THEN upd["new"] ELSE loc[p].new
         /\ loc'[p].cur = IF "cur" \in DOMAIN upd THEN upd["cur"] ELSE loc[p].cur
         /\ loc'[p].ip = IF "ip" \in DOMAIN upd THEN upd["ip"] ELSE loc[p].ip
         /\ loc'[p].old = IF "old" \in DOMAIN upd THEN upd["old"] ELSE loc[p].old
         /\ Typed(loc'[p]) => loc'[p] \in LocalsType
<1> DEFINE r == [f \in DOMAIN NoLocals |-> IF f \in DOMAIN upd THEN upd[f] ELSE loc[p][f]]
<1>1. loc' = [loc EXCEPT ![p] = r] /\ loc'[p] = r
  BY DEF Locals, Put
<1>2. DOMAIN r = {"call", "rest", "new", "cur", "ip", "old"}
  BY Constants
<1>3. \A f \in {"call", "rest", "new", "cur", "ip", "old"} :
        r[f] = IF f \in DOMAIN upd THEN upd[f] ELSE loc[p][f]
  BY Constants
<1>4. r = [x \in DOMAIN r |-> r[x]]
  OBVIOUS
<1> HIDE DEF r
<1>5. Typed(r) => r \in LocalsType
  BY <1>2, <1>4 DEF LocalsType, Typed
<1>6. QED
  BY <1>1, <1>3, <1>5

(* A step of p changes what belongs to p. *)
Moves(p) ==
  /\ cwd' = [cwd EXCEPT ![p] = cwd'[p]] /\ fd' = [fd EXCEPT ![p] = fd'[p]]
  /\ pc' = [pc EXCEPT ![p] = pc'[p]] /\ loc' = [loc EXCEPT ![p] = loc'[p]]
  /\ puts' = [puts EXCEPT ![p] = puts'[p]] /\ freeing' = [freeing EXCEPT ![p] = freeing'[p]]

ProcTypeOf(p) ==
  /\ cwd'[p] \in Inums /\ fd'[p] \in MaybeInum /\ pc'[p] \in Stations /\ loc'[p] \in LocalsType
  /\ puts'[p] \in Seq(ToPuts) /\ freeing'[p] \in {"no", "freeing", "freed"}

(* A variable that is unchanged has the form that Moves wants. *)
LEMMA Unmoved ==
  ASSUME ProcType, NEW p \in Procs
  PROVE  /\ cwd = [cwd EXCEPT ![p] = cwd[p]] /\ fd = [fd EXCEPT ![p] = fd[p]]
         /\ pc = [pc EXCEPT ![p] = pc[p]] /\ loc = [loc EXCEPT ![p] = loc[p]]
         /\ puts = [puts EXCEPT ![p] = puts[p]] /\ freeing = [freeing EXCEPT ![p] = freeing[p]]
BY DEF ProcType

(* A step that has the right effect on p and the table keeps the invariant. *)
LEMMA StepBase ==
  ASSUME BaseInv, NEW p \in Procs, Moves(p), ProcTypeOf(p), PlaceOK(p)', Counts(p),
         TableType', RestType', disk' \in Disks, stable' \in Disks
  PROVE  BaseInv' /\ \A q \in Procs : q # p => Same(q)
<1>1. ProcType
  BY DEF BaseInv, FsTypeOK
<1>2. \A q \in Procs : q # p => Same(q)
  BY <1>1 DEF Moves, ProcType, Same
<1>3. ProcType'
  BY <1>1 DEF Moves, ProcType, ProcTypeOf
<1>4. FsTypeOK'
  BY <1>3 DEF FsTypeOK
<1>5. QED
  BY <1>2, <1>4, ProcMoves

(* What is known of p before its step *)
LEMMA Before ==
  ASSUME BaseInv, NEW p \in Procs
  PROVE  /\ FsTypeOK /\ PlaceOK(p) /\ ProcType /\ TableType /\ RestType /\ disk \in Disks /\ stable \in Disks
         /\ cwd[p] \in Inums /\ fd[p] \in MaybeInum /\ pc[p] \in Stations /\ loc[p] \in LocalsType
         /\ puts[p] \in Seq(ToPuts) /\ freeing[p] \in {"no", "freeing", "freed"}
BY DEF BaseInv, FsTypeOK, ProcType


(* The lists that steps make *)
LEMMA ShortLists ==
  /\ <<>> \in Seq(ToPuts) /\ Len(<<>>) <= 2
  /\ \A i \in Inums : <<ToPut(i)>> \in Seq(ToPuts) /\ Len(<<ToPut(i)>>) <= 2
  /\ \A i \in Inums : <<ToUnlockPut(i)>> \in Seq(ToPuts) /\ Len(<<ToUnlockPut(i)>>) <= 2
  /\ \A i, k \in Inums : <<ToPut(i), ToPut(k)>> \in Seq(ToPuts) /\ Len(<<ToPut(i), ToPut(k)>>) <= 2
  /\ \A i, k \in Inums : <<ToPut(i), ToUnlockPut(k)>> \in Seq(ToPuts) /\ Len(<<ToPut(i), ToUnlockPut(k)>>) <= 2
  /\ \A i, k \in Inums : <<ToUnlockPut(i), ToUnlockPut(k)>> \in Seq(ToPuts) /\ Len(<<ToUnlockPut(i), ToUnlockPut(k)>>) <= 2
<1>1. \A i \in Inums : ToPut(i) \in ToPuts /\ ToUnlockPut(i) \in ToPuts
  BY Constants
<1>2. <<>> \in Seq(ToPuts) /\ Len(<<>>) <= 2
  OBVIOUS
<1>3. \A x \in ToPuts : <<x>> \in Seq(ToPuts) /\ Len(<<x>>) <= 2
  OBVIOUS
<1>4. \A x, y \in ToPuts : <<x, y>> \in Seq(ToPuts) /\ Len(<<x, y>>) <= 2
  OBVIOUS
<1>5. QED
  BY <1>1, <1>2, <1>3, <1>4, Zenon

(* The pointers that p has when its local variables are gone are those it had. *)
Balanced(p) ==
  \A j \in Inums : Is(cwd'[p], j) + Is(fd'[p], j) + Found_in(puts'[p], j) = PointersAre(p, j)

(* The end of a call, which hands its pointers over *)
LEMMA LeaveBase ==
  ASSUME BaseInv, NEW p \in Procs, Moves(p), loc'[p] = NoLocals, pc'[p] \in {"user", "end"}, freeing'[p] = "no",
         cwd'[p] \in Inums, fd'[p] \in MaybeInum, puts'[p] \in Seq(ToPuts), Len(puts'[p]) <= 2,
         iref' = iref, core' \in [Inums -> Copies], lock' \in [Inums -> Procs \cup {NoProc}],
         disk' \in Disks, stable' \in Disks, RestType', Balanced(p)
  PROVE  BaseInv' /\ \A q \in Procs : q # p => Same(q)
<1>0. PlaceOK(p) /\ ProcType /\ TableType
  BY Before
<1>1. ProcTypeOf(p)
  BY Constants DEF ProcTypeOf, Stations
<1>2. loc'[p].cur = Null /\ loc'[p].ip = Null /\ loc'[p].old = Null /\ loc'[p].call = "none"
  BY Constants
<1>3. PlaceOK(p)'
  BY <1>2 DEF PlaceOK
<1>4. TableType'
  BY <1>0 DEF TableType
<1>5. Counts(p)
  <2> SUFFICES ASSUME NEW j \in Inums PROVE iref'[j] = iref[j] + PointersAre(p, j)' - PointersAre(p, j)
    BY DEF Counts
  <2>1. j # Null
    OBVIOUS
  <2>2. PointersAre(p, j)' = B(cwd'[p] = j) + B(fd'[p] = j) + 0 + 0 + 0 + Found_in(puts'[p], j)
    BY <1>2, <2>1 DEF PointersAre, B
  <2>3. Found_in(puts'[p], j) \in Nat /\ iref[j] \in Int
    BY <1>0, FoundIn DEF TableType
  <2>4. Is(cwd'[p], j) + Is(fd'[p], j) + Found_in(puts'[p], j) = PointersAre(p, j)
    BY DEF Balanced
  <2>5. PointersAre(p, j)' = PointersAre(p, j) /\ PointersAre(p, j) \in Int
    BY <2>2, <2>3, <2>4 DEF Is, B
  <2>6. QED
    BY <2>3, <2>5
<1>6. QED
  BY <1>1, <1>3, <1>4, <1>5, StepBase

-----------------------------------------------------------------------------
(* What updates make of a disk *)

(* An inode that is freed *)
LEMMA FreedType ==
  ASSUME NEW d \in Disks, NEW i \in Inums
  PROVE  Freed(d, i) \in Disks
BY DEF Disks, Freed, MaybeInum, EmptyDir, InodeTypes

(* A link count that is set *)
LEMMA SetLinksType ==
  ASSUME NEW d \in Disks, NEW i, NEW n \in Int
  PROVE  SetLinks(d, i, n) \in Disks
BY DEF Disks, SetLinks

(* An entry that is set *)
LEMMA SetEntryType ==
  ASSUME NEW d \in Disks, NEW i, NEW n, NEW e \in MaybeInum
  PROVE  [d EXCEPT !.ent[i][n] = e] \in Disks
BY DEF Disks

(* An inode that ialloc() takes *)
LEMMA AllocType ==
  ASSUME NEW d \in Disks, NEW i, NEW t \in InodeTypes
  PROVE  [d EXCEPT !.type[i] = t, !.nlink[i] = 0] \in Disks
<1> DEFINE a == [d EXCEPT !.type[i] = t]
<1>1. a \in Disks
  BY DEF Disks
<1>2. [d EXCEPT !.type[i] = t, !.nlink[i] = 0] = SetLinks(a, i, 0)
  BY DEF SetLinks
<1> HIDE DEF a
<1>3. QED
  BY <1>1, <1>2, SetLinksType

(* A copy whose links are set *)
LEMMA CopyType ==
  ASSUME NEW c \in Copies, NEW n \in Int
  PROVE  [c EXCEPT !.nlink = n] \in Copies
BY DEF Copies

(* The disk with a new name *)
LEMMA LinkedType ==
  ASSUME disk \in Disks, NEW p \in Procs, loc[p].cur \in Inums, loc[p].ip \in Inums
  PROVE  Linked(p) \in Disks
<1> DEFINE d == loc[p].cur
           i == loc[p].ip
           n == loc[p].rest[1]
           mk == loc[p].call = "mkdir"
           L == Linked(p)
<1>1. L.type = disk.type /\ DOMAIN L = DOMAIN disk
  BY DEF Linked, Disks
<1>2. L.up = [disk.up EXCEPT ![i] = IF mk THEN d ELSE Null]
  BY DEF Linked, Disks
<1>3. L.ent = [disk.ent EXCEPT ![d] = [disk.ent[d] EXCEPT ![n] = i]]
  BY DEF Linked, Disks
<1>4. L.nlink \in [Inums -> Int]
  BY DEF Linked, Disks
<1>5. L = [x \in DOMAIN L |-> L[x]]
  BY DEF Linked, Disks
<1> HIDE DEF L, d, n, mk, i
<1>6. d \in MaybeInum /\ Null \in MaybeInum /\ i \in MaybeInum
  BY DEF MaybeInum, d, i
<1>7. L.up \in [Inums -> MaybeInum]
  BY <1>2, <1>6 DEF Disks
<1>8. L.ent \in [Inums -> [Names -> MaybeInum]]
  <2>1. disk.ent \in [Inums -> [Names -> MaybeInum]] /\ disk.ent[d] \in [Names -> MaybeInum]
    BY DEF Disks, d
  <2>2. [disk.ent[d] EXCEPT ![n] = i] \in [Names -> MaybeInum]
    BY <1>6, <2>1
  <2>3. QED
    BY <1>3, <2>1, <2>2
<1>9. L.type \in [Inums -> InodeTypes] /\ DOMAIN L = {"type", "nlink", "ent", "up"}
  BY <1>1 DEF Disks
<1>10. L \in Disks
  BY <1>4, <1>5, <1>7, <1>8, <1>9 DEF Disks
<1>11. QED
  BY <1>10 DEF L

(* end_op() *)
LEMMA EndBase ==
  ASSUME BaseInv, NEW p \in Procs, End(p)
  PROVE  BaseInv' /\ \A q \in Procs : q # p => Same(q)
<1>0. FsTypeOK /\ PlaceOK(p) /\ ProcType /\ TableType /\ RestType /\ disk \in Disks /\ stable \in Disks
  BY Before
<1>1. /\ pc[p] = "end" /\ puts[p] = <<>> /\ freeing[p] = "no"
      /\ loc[p].cur = Null /\ loc[p].ip = Null /\ loc[p].old = Null
  BY <1>0 DEF End, At, PlaceOK, ProcType, MaybeInum
<1>core. core' \in [Inums -> Copies]
  BY <1>0 DEF End, table, TableType
<1>lock. lock' \in [Inums -> Procs \cup {NoProc}]
  BY <1>0 DEF End, table, TableType
<1>disk. disk' \in Disks /\ stable' \in Disks
  BY <1>0 DEF End
<1>rest. RestType'
  BY <1>0 DEF End, RestType, aside
<1>q. QED
  <2>1. iref' = iref
    BY <1>1 DEF End, Leave, ThenPut, Goto, iget, Opened, NotFound, aside, table, local
  <2>2. /\ loc' = loc
        /\ puts' = puts
        /\ pc' = Put(pc, p, "user")
        /\ fd' = fd
        /\ cwd' = cwd
        /\ freeing' = freeing
    BY <1>1 DEF End, Leave, ThenPut, Goto, iget, Opened, NotFound, aside, table, local
  <2>3. /\ puts'[p] = puts[p]
        /\ loc'[p] = loc[p]
        /\ fd'[p] = fd[p]
        /\ cwd'[p] = cwd[p]
        /\ freeing'[p] = freeing[p]
        /\ pc'[p] = "user"
    BY <1>0, <2>2 DEF Put, ProcType
  <2>4. Moves(p)
    BY <1>0, <2>2, <2>3, Unmoved DEF Moves, Put
  <2>5. ProcTypeOf(p)
    BY <1>1, <2>3, Before, Constants DEF ProcTypeOf, Stations, MaybeInum
  <2>6. PlaceOK(p)'
    BY <1>0, <1>1, <2>3 DEF PlaceOK, WantsParent
  <2>7. iref' \in [Inums -> Int]
    BY <1>0, <2>1 DEF TableType, Put
  <2>8. TableType' /\ RestType' /\ disk' \in Disks /\ stable' \in Disks
    BY <2>7, <1>core, <1>lock, <1>disk, <1>rest DEF TableType
  <2>9. Counts(p)
    <3> SUFFICES ASSUME NEW j \in Inums
                 PROVE  iref'[j] = iref[j] + PointersAre(p, j)' - PointersAre(p, j)
      BY DEF Counts
    <3>1. Found_in(puts[p], j) = 0
      BY <1>1, FoundIn
    <3>2. Found_in(puts'[p], j) = Found_in(puts[p], j)
      BY <1>1, <2>3, TailOfPuts
    <3>3. Found_in(puts'[p], j) \in Nat /\ iref[j] \in Int /\ j # Null
      BY <1>0, FoundIn DEF TableType
    <3>4. QED
      BY <1>0, <1>1, <2>1, <2>3, <3>1, <3>2, <3>3 DEF PointersAre, B, Is, TableType, Put, MaybeInum
  <2>10. QED
    BY <2>4, <2>5, <2>6, <2>8, <2>9, StepBase

(* close() *)
LEMMA CloseBase ==
  ASSUME BaseInv, NEW p \in Procs, Close(p)
  PROVE  BaseInv' /\ \A q \in Procs : q # p => Same(q)
<1>0. FsTypeOK /\ PlaceOK(p) /\ ProcType /\ TableType /\ RestType /\ disk \in Disks /\ stable \in Disks
  BY Before
<1>1. /\ pc[p] = "user" /\ puts[p] = <<>> /\ freeing[p] = "no" /\ fd[p] \in Inums
      /\ loc[p].cur = Null /\ loc[p].ip = Null /\ loc[p].old = Null
  BY <1>0 DEF Close, At, PlaceOK, ProcType, MaybeInum
<1>core. core' \in [Inums -> Copies]
  BY <1>0 DEF Close, table, TableType
<1>lock. lock' \in [Inums -> Procs \cup {NoProc}]
  BY <1>0 DEF Close, table, TableType
<1>disk. disk' \in Disks /\ stable' \in Disks
  BY <1>0 DEF Close
<1>rest. RestType'
  BY <1>0 DEF Close, RestType, aside
<1>q. QED
  <2>1. iref' = iref
    BY <1>1 DEF Close, Leave, ThenPut, Goto, iget, Opened, NotFound, aside, table, local
  <2>2. /\ loc' = Put(loc, p, NoLocals)
        /\ puts' = Put(puts, p, <<ToPut(fd[p])>>)
        /\ pc' = Put(pc, p, "end")
        /\ fd' = Put(fd, p, Null)
        /\ cwd' = cwd
        /\ freeing' = freeing
    BY <1>1 DEF Close, Leave, ThenPut, Goto, iget, Opened, NotFound, aside, table, local
  <2>3. /\ loc'[p] = NoLocals /\ puts'[p] = <<ToPut(fd[p])>> /\ pc'[p] = "end" /\ cwd'[p] = cwd[p] /\ fd'[p] = Null
        /\ freeing'[p] = "no"
    BY <1>0, <1>1, <2>2 DEF Put, ProcType
  <2>4. Moves(p)
    BY <1>0, <2>2, <2>3, Unmoved DEF Moves, Put
  <2>5. cwd'[p] \in Inums /\ fd'[p] \in MaybeInum
    BY <1>1, <2>3, Before, Constants DEF MaybeInum
  <2>6. puts'[p] \in Seq(ToPuts) /\ Len(puts'[p]) <= 2
    BY <1>1, <2>3, Before, ShortLists
  <2>7. Balanced(p)
    <3> SUFFICES ASSUME NEW j \in Inums
                 PROVE  Is(cwd'[p], j) + Is(fd'[p], j) + Found_in(puts'[p], j) = PointersAre(p, j)
      BY DEF Balanced
    <3>1. Found_in(puts[p], j) = 0
      BY <1>1, FoundIn
    <3>2. Found_in(puts'[p], j) = Is(fd[p], j)
      BY <2>3, ListsOfPuts, Zenon
    <3>3. j # Null
      OBVIOUS
    <3>4. QED
      BY <1>1, <2>3, <3>1, <3>2, <3>3 DEF PointersAre, B, Is
  <2>8. QED
    BY <2>1, <2>3, <2>4, <2>5, <2>6, <2>7, <1>core, <1>lock, <1>disk, <1>rest, LeaveBase

(* namex(), one element *)
LEMMA WalkBase ==
  ASSUME BaseInv, NEW p \in Procs, Walk(p)
  PROVE  BaseInv' /\ \A q \in Procs : q # p => Same(q)
<1> DEFINE i == loc[p].cur
           next == dirlookup(i, loc[p].rest[1])
<1>0. FsTypeOK /\ PlaceOK(p) /\ ProcType /\ TableType /\ RestType /\ disk \in Disks /\ stable \in Disks
  BY Before
<1>1. /\ pc[p] = "walk" /\ puts[p] = <<>> /\ freeing[p] = "no" /\ loc[p].cur \in Inums /\ loc[p].ip = Null
      /\ loc[p].old \in MaybeInum /\ (loc[p].old # Null => loc[p].call = "link")
      /\ loc[p].rest \in Seq(Elems) /\ loc[p].rest # <<>> /\ Tail(loc[p].rest) \in Seq(Elems)
  BY <1>0 DEF Walk, At, Found, FoundParent, PlaceOK, WantsParent, ProcType, LocalsType
<1>2. next \in MaybeInum
  BY <1>0, <1>1 DEF dirlookup, FsTypeOK, Disks, Elems
<1> HIDE DEF next
<1>core. core' \in [Inums -> Copies]
  BY <1>0, <1>1, <1>2, ilockType DEF Walk
<1>lock. lock' \in [Inums -> Procs \cup {NoProc}]
  BY <1>0 DEF Walk, table, TableType
<1>disk. disk' \in Disks /\ stable' \in Disks
  BY <1>0 DEF Walk
<1>rest. RestType'
  BY <1>0, <1>1, <1>2, ilockType DEF Walk, RestType, aside
<1>a. CASE Loaded(i).type = "dir" /\ next # Null
  <2>1. iref' = Put(iref, next, iref[next] + 1)
    BY <1>a, <1>1, <1>2 DEF Walk, Leave, ThenPut, Goto, iget, Opened, NotFound, aside, table, local, next
  <2>2. /\ Locals(p, [cur |-> next, rest |-> Tail(loc[p].rest)])
        /\ puts' = Put(puts, p, <<ToPut(i)>>)
        /\ pc' = pc
        /\ fd' = fd
        /\ cwd' = cwd
        /\ freeing' = freeing
    BY <1>a, <1>1, <1>2 DEF Walk, Leave, ThenPut, Goto, iget, Opened, NotFound, aside, table, local, next
  <2>3. next \in Inums
    BY <1>a, <1>1, <1>2 DEF MaybeInum
  <2>4. /\ puts'[p] = <<ToPut(i)>>
        /\ pc'[p] = pc[p]
        /\ fd'[p] = fd[p]
        /\ cwd'[p] = cwd[p]
        /\ freeing'[p] = freeing[p]
    BY <1>0, <2>2 DEF Put, ProcType
  <2>5. /\ loc' = [loc EXCEPT ![p] = loc'[p]] /\ loc'[p] \in LocalsType
        /\ loc'[p].call = loc[p].call
        /\ loc'[p].rest = Tail(loc[p].rest)
        /\ loc'[p].new = loc[p].new
        /\ loc'[p].cur = next
        /\ loc'[p].ip = loc[p].ip
        /\ loc'[p].old = loc[p].old
    <3> DEFINE u == [cur |-> next, rest |-> Tail(loc[p].rest)]
    <3>1. DOMAIN u = {"cur", "rest"} /\ u["cur"] = next /\ u["rest"] = Tail(loc[p].rest)
      OBVIOUS
    <3>2. Locals(p, u)
      BY <2>2
    <3> HIDE DEF u
    <3>3. loc \in [Procs -> LocalsType] /\ loc[p] \in LocalsType
      BY <1>0, Before DEF ProcType
    <3>4. /\ loc' = [loc EXCEPT ![p] = loc'[p]]
          /\ loc'[p].call = loc[p].call
          /\ loc'[p].rest = Tail(loc[p].rest)
          /\ loc'[p].new = loc[p].new
          /\ loc'[p].cur = next
          /\ loc'[p].ip = loc[p].ip
          /\ loc'[p].old = loc[p].old
      BY <3>1, <3>2, <3>3, LocalsAre
    <3>5. Typed(loc'[p]) => loc'[p] \in LocalsType
      BY <3>2, <3>3, LocalsAre
    <3>6. Typed(loc[p])
      BY <3>3, LocalsTyped
    <3>7. Typed(loc'[p])
      BY <2>3, <1>1, <1>2, <3>4, <3>6 DEF Typed, MaybeInum
    <3>8. QED
      BY <3>3, <3>4, <3>5, <3>7
  <2>6. /\ loc'[p].call = loc[p].call
        /\ loc'[p].rest = Tail(loc[p].rest)
        /\ loc'[p].new = loc[p].new
        /\ loc'[p].cur = next
        /\ loc'[p].ip = loc[p].ip
        /\ loc'[p].old = loc[p].old
    BY <2>5
  <2>7. Moves(p)
    BY <1>0, <2>2, <2>4, <2>5, Unmoved DEF Moves, Put
  <2>8. ProcTypeOf(p)
    BY <2>3, <1>1, <1>2, <2>4, <2>5, Before, Constants DEF ProcTypeOf, Stations, MaybeInum
  <2>9. PlaceOK(p)'
    BY <1>0, <2>3, <1>1, <1>2, <2>4, <2>6 DEF PlaceOK, WantsParent
  <2>10. iref' \in [Inums -> Int]
    BY <1>0, <2>3, <1>1, <1>2, <2>1 DEF TableType, Put
  <2>11. TableType' /\ RestType' /\ disk' \in Disks /\ stable' \in Disks
    BY <2>10, <1>core, <1>lock, <1>disk, <1>rest DEF TableType
  <2>12. Counts(p)
    <3> SUFFICES ASSUME NEW j \in Inums
                 PROVE  iref'[j] = iref[j] + PointersAre(p, j)' - PointersAre(p, j)
      BY DEF Counts
    <3>1. Found_in(puts[p], j) = 0
      BY <1>1, <1>2, FoundIn
    <3>2. Found_in(puts'[p], j) = Is(i, j)
      BY <2>4, ListsOfPuts, Zenon
    <3>3. Found_in(puts'[p], j) \in Nat /\ iref[j] \in Int /\ j # Null
      BY <1>0, FoundIn DEF TableType
    <3>4. QED
      BY <1>0, <2>3, <1>1, <1>2, <2>1, <2>4, <2>6, <3>1, <3>2, <3>3 DEF PointersAre, B, Is, TableType, Put, MaybeInum
  <2>13. QED
    BY <2>7, <2>8, <2>9, <2>11, <2>12, StepBase
<1>b. CASE ~(Loaded(i).type = "dir" /\ next # Null) /\ loc[p].old = Null
  <2>1. iref' = iref
    BY <1>b, <1>1, <1>2 DEF Walk, Leave, ThenPut, Goto, iget, Opened, NotFound, aside, table, local, next
  <2>2. /\ loc' = Put(loc, p, NoLocals)
        /\ puts' = Put(puts, p, <<ToPut(i)>>)
        /\ pc' = Put(pc, p, "end")
        /\ fd' = fd
        /\ cwd' = cwd
        /\ freeing' = freeing
    BY <1>b, <1>1, <1>2 DEF Walk, Leave, ThenPut, Goto, iget, Opened, NotFound, aside, table, local, next
  <2>3. loc[p].old = Null
    BY <1>b, <1>1, <1>2 DEF MaybeInum
  <2>4. /\ loc'[p] = NoLocals /\ puts'[p] = <<ToPut(i)>> /\ pc'[p] = "end" /\ cwd'[p] = cwd[p] /\ fd'[p] = fd[p]
        /\ freeing'[p] = "no"
    BY <1>0, <1>1, <1>2, <2>2 DEF Put, ProcType
  <2>5. Moves(p)
    BY <1>0, <2>2, <2>4, Unmoved DEF Moves, Put
  <2>6. cwd'[p] \in Inums /\ fd'[p] \in MaybeInum
    BY <1>1, <1>2, <2>4, Before, Constants DEF MaybeInum
  <2>7. puts'[p] \in Seq(ToPuts) /\ Len(puts'[p]) <= 2
    BY <1>1, <1>2, <2>4, Before, ShortLists
  <2>8. Balanced(p)
    <3> SUFFICES ASSUME NEW j \in Inums
                 PROVE  Is(cwd'[p], j) + Is(fd'[p], j) + Found_in(puts'[p], j) = PointersAre(p, j)
      BY DEF Balanced
    <3>1. Found_in(puts[p], j) = 0
      BY <1>1, <1>2, FoundIn
    <3>2. Found_in(puts'[p], j) = Is(i, j)
      BY <2>4, ListsOfPuts, Zenon
    <3>3. j # Null
      OBVIOUS
    <3>4. QED
      BY <2>3, <1>1, <1>2, <2>4, <3>1, <3>2, <3>3 DEF PointersAre, B, Is
  <2>9. QED
    BY <2>1, <2>4, <2>5, <2>6, <2>7, <2>8, <1>core, <1>lock, <1>disk, <1>rest, LeaveBase
<1>c. CASE ~(Loaded(i).type = "dir" /\ next # Null) /\ loc[p].old # Null
  <2>1. iref' = iref
    BY <1>c, <1>1, <1>2 DEF Walk, Leave, ThenPut, Goto, iget, Opened, NotFound, aside, table, local, next
  <2>2. /\ Locals(p, [cur |-> Null])
        /\ puts' = Put(puts, p, <<ToPut(i)>>)
        /\ pc' = Put(pc, p, "undo_link")
        /\ fd' = fd
        /\ cwd' = cwd
        /\ freeing' = freeing
    BY <1>c, <1>1, <1>2 DEF Walk, Leave, ThenPut, Goto, iget, Opened, NotFound, aside, table, local, next
  <2>3. loc[p].old # Null /\ loc[p].old \in Inums
    BY <1>c, <1>1, <1>2 DEF MaybeInum
  <2>4. /\ puts'[p] = <<ToPut(i)>>
        /\ fd'[p] = fd[p]
        /\ cwd'[p] = cwd[p]
        /\ freeing'[p] = freeing[p]
        /\ pc'[p] = "undo_link"
    BY <1>0, <2>2 DEF Put, ProcType
  <2>5. /\ loc' = [loc EXCEPT ![p] = loc'[p]] /\ loc'[p] \in LocalsType
        /\ loc'[p].call = loc[p].call
        /\ loc'[p].rest = loc[p].rest
        /\ loc'[p].new = loc[p].new
        /\ loc'[p].cur = Null
        /\ loc'[p].ip = loc[p].ip
        /\ loc'[p].old = loc[p].old
    <3> DEFINE u == [cur |-> Null]
    <3>1. DOMAIN u = {"cur"} /\ u["cur"] = Null
      OBVIOUS
    <3>2. Locals(p, u)
      BY <2>2
    <3> HIDE DEF u
    <3>3. loc \in [Procs -> LocalsType] /\ loc[p] \in LocalsType
      BY <1>0, Before DEF ProcType
    <3>4. /\ loc' = [loc EXCEPT ![p] = loc'[p]]
          /\ loc'[p].call = loc[p].call
          /\ loc'[p].rest = loc[p].rest
          /\ loc'[p].new = loc[p].new
          /\ loc'[p].cur = Null
          /\ loc'[p].ip = loc[p].ip
          /\ loc'[p].old = loc[p].old
      BY <3>1, <3>2, <3>3, LocalsAre
    <3>5. Typed(loc'[p]) => loc'[p] \in LocalsType
      BY <3>2, <3>3, LocalsAre
    <3>6. Typed(loc[p])
      BY <3>3, LocalsTyped
    <3>7. Typed(loc'[p])
      BY <2>3, <1>1, <1>2, <3>4, <3>6 DEF Typed, MaybeInum
    <3>8. QED
      BY <3>3, <3>4, <3>5, <3>7
  <2>6. /\ loc'[p].call = loc[p].call
        /\ loc'[p].rest = loc[p].rest
        /\ loc'[p].new = loc[p].new
        /\ loc'[p].cur = Null
        /\ loc'[p].ip = loc[p].ip
        /\ loc'[p].old = loc[p].old
    BY <2>5
  <2>7. Moves(p)
    BY <1>0, <2>2, <2>4, <2>5, Unmoved DEF Moves, Put
  <2>8. ProcTypeOf(p)
    BY <2>3, <1>1, <1>2, <2>4, <2>5, Before, Constants DEF ProcTypeOf, Stations, MaybeInum
  <2>9. PlaceOK(p)'
    BY <1>0, <2>3, <1>1, <1>2, <2>4, <2>6 DEF PlaceOK, WantsParent
  <2>10. iref' \in [Inums -> Int]
    BY <1>0, <2>3, <2>1 DEF TableType, Put
  <2>11. TableType' /\ RestType' /\ disk' \in Disks /\ stable' \in Disks
    BY <2>10, <1>core, <1>lock, <1>disk, <1>rest DEF TableType
  <2>12. Counts(p)
    <3> SUFFICES ASSUME NEW j \in Inums
                 PROVE  iref'[j] = iref[j] + PointersAre(p, j)' - PointersAre(p, j)
      BY DEF Counts
    <3>1. Found_in(puts[p], j) = 0
      BY <1>1, <1>2, FoundIn
    <3>2. Found_in(puts'[p], j) = Is(i, j)
      BY <2>4, ListsOfPuts, Zenon
    <3>3. Found_in(puts'[p], j) \in Nat /\ iref[j] \in Int /\ j # Null
      BY <1>0, FoundIn DEF TableType
    <3>4. QED
      BY <1>0, <2>3, <1>1, <1>2, <2>1, <2>4, <2>6, <3>1, <3>2, <3>3 DEF PointersAre, B, Is, TableType, Put, MaybeInum
  <2>13. QED
    BY <2>7, <2>8, <2>9, <2>11, <2>12, StepBase
<1>q. QED
  BY <1>a, <1>b, <1>c

(* nameiparent() *)
LEMMA WalkParentBase ==
  ASSUME BaseInv, NEW p \in Procs, WalkParent(p)
  PROVE  BaseInv' /\ \A q \in Procs : q # p => Same(q)
<1> DEFINE i == loc[p].cur
<1>0. FsTypeOK /\ PlaceOK(p) /\ ProcType /\ TableType /\ RestType /\ disk \in Disks /\ stable \in Disks
  BY Before
<1>1. /\ pc[p] = "walk" /\ puts[p] = <<>> /\ freeing[p] = "no" /\ loc[p].cur \in Inums /\ loc[p].ip = Null
      /\ loc[p].old \in MaybeInum /\ (loc[p].old # Null => loc[p].call = "link")
      /\ WantsParent(p) /\ loc[p].call \in Calls
  BY <1>0 DEF WalkParent, At, Found, FoundParent, PlaceOK, WantsParent, ProcType, LocalsType
<1>2. ilock(i) \/ UNCHANGED <<core, panicked>>
  BY DEF WalkParent
<1>3. /\ Len(loc[p].rest) = 1 /\ Loaded(i).type = "dir" => Goto(p, "parent") /\ loc' = loc /\ puts' = puts
      /\ loc[p].rest = <<>> \/ Loaded(i).type # "dir" => NotFound(p)
      /\ iref' = iref /\ fd' = fd /\ cwd' = cwd /\ freeing' = freeing
  BY DEF WalkParent
<1>core. core' \in [Inums -> Copies]
  BY <1>0, <1>1, <1>2, ilockType DEF TableType
<1>lock. lock' \in [Inums -> Procs \cup {NoProc}]
  BY <1>0 DEF WalkParent, table, TableType
<1>disk. disk' \in Disks /\ stable' \in Disks
  BY <1>0 DEF WalkParent
<1>rest. RestType'
  BY <1>0, <1>1, <1>2, ilockType DEF WalkParent, RestType, aside
<1>a. CASE Len(loc[p].rest) = 1 /\ Loaded(i).type = "dir"
  <2>1. iref' = iref
    BY <1>a, <1>1, <1>3 DEF Leave, ThenPut, Goto, NotFound
  <2>2. /\ loc' = loc
        /\ puts' = puts
        /\ pc' = Put(pc, p, "parent")
        /\ fd' = fd
        /\ cwd' = cwd
        /\ freeing' = freeing
    BY <1>a, <1>1, <1>3 DEF Leave, ThenPut, Goto, NotFound
  <2>3. /\ puts'[p] = puts[p]
        /\ loc'[p] = loc[p]
        /\ fd'[p] = fd[p]
        /\ cwd'[p] = cwd[p]
        /\ freeing'[p] = freeing[p]
        /\ pc'[p] = "parent"
    BY <1>0, <2>2 DEF Put, ProcType
  <2>4. Moves(p)
    BY <1>0, <2>2, <2>3, Unmoved DEF Moves, Put
  <2>5. ProcTypeOf(p)
    BY <1>1, <2>3, Before, Constants DEF ProcTypeOf, Stations, MaybeInum
  <2>6. PlaceOK(p)'
    BY <1>0, <1>1, <1>a, <2>3 DEF PlaceOK, WantsParent
  <2>7. iref' \in [Inums -> Int]
    BY <1>0, <2>1 DEF TableType, Put
  <2>8. TableType' /\ RestType' /\ disk' \in Disks /\ stable' \in Disks
    BY <2>7, <1>core, <1>lock, <1>disk, <1>rest DEF TableType
  <2>9. Counts(p)
    <3> SUFFICES ASSUME NEW j \in Inums
                 PROVE  iref'[j] = iref[j] + PointersAre(p, j)' - PointersAre(p, j)
      BY DEF Counts
    <3>1. Found_in(puts[p], j) = 0
      BY <1>1, FoundIn
    <3>2. Found_in(puts'[p], j) = Found_in(puts[p], j)
      BY <1>1, <2>3, TailOfPuts
    <3>3. Found_in(puts'[p], j) \in Nat /\ iref[j] \in Int /\ j # Null
      BY <1>0, FoundIn DEF TableType
    <3>4. QED
      BY <1>0, <1>1, <2>1, <2>3, <3>1, <3>2, <3>3 DEF PointersAre, B, Is, TableType, Put, MaybeInum
  <2>10. QED
    BY <2>4, <2>5, <2>6, <2>8, <2>9, StepBase
<1>b. CASE (loc[p].rest = <<>> \/ Loaded(i).type # "dir") /\ loc[p].old = Null
  <2>1. iref' = iref
    BY <1>b, <1>1, <1>3 DEF Leave, ThenPut, Goto, NotFound
  <2>2. /\ loc' = Put(loc, p, NoLocals)
        /\ puts' = Put(puts, p, <<ToPut(i)>>)
        /\ pc' = Put(pc, p, "end")
        /\ fd' = fd
        /\ cwd' = cwd
        /\ freeing' = freeing
    BY <1>b, <1>1, <1>3 DEF Leave, ThenPut, Goto, NotFound
  <2>3. loc[p].old = Null
    BY <1>b, <1>1 DEF MaybeInum
  <2>4. /\ loc'[p] = NoLocals /\ puts'[p] = <<ToPut(i)>> /\ pc'[p] = "end" /\ cwd'[p] = cwd[p] /\ fd'[p] = fd[p]
        /\ freeing'[p] = "no"
    BY <1>0, <1>1, <2>2 DEF Put, ProcType
  <2>5. Moves(p)
    BY <1>0, <2>2, <2>4, Unmoved DEF Moves, Put
  <2>6. cwd'[p] \in Inums /\ fd'[p] \in MaybeInum
    BY <1>1, <2>4, Before, Constants DEF MaybeInum
  <2>7. puts'[p] \in Seq(ToPuts) /\ Len(puts'[p]) <= 2
    BY <1>1, <2>4, Before, ShortLists
  <2>8. Balanced(p)
    <3> SUFFICES ASSUME NEW j \in Inums
                 PROVE  Is(cwd'[p], j) + Is(fd'[p], j) + Found_in(puts'[p], j) = PointersAre(p, j)
      BY DEF Balanced
    <3>1. Found_in(puts[p], j) = 0
      BY <1>1, FoundIn
    <3>2. Found_in(puts'[p], j) = Is(i, j)
      BY <2>4, ListsOfPuts, Zenon
    <3>3. j # Null
      OBVIOUS
    <3>4. QED
      BY <2>3, <1>1, <2>4, <3>1, <3>2, <3>3 DEF PointersAre, B, Is
  <2>9. QED
    BY <2>1, <2>4, <2>5, <2>6, <2>7, <2>8, <1>core, <1>lock, <1>disk, <1>rest, LeaveBase
<1>c. CASE (loc[p].rest = <<>> \/ Loaded(i).type # "dir") /\ loc[p].old # Null
  <2>1. iref' = iref
    BY <1>c, <1>1, <1>3 DEF Leave, ThenPut, Goto, NotFound
  <2>2. /\ Locals(p, [cur |-> Null])
        /\ puts' = Put(puts, p, <<ToPut(i)>>)
        /\ pc' = Put(pc, p, "undo_link")
        /\ fd' = fd
        /\ cwd' = cwd
        /\ freeing' = freeing
    BY <1>c, <1>1, <1>3 DEF Leave, ThenPut, Goto, NotFound
  <2>3. loc[p].old # Null /\ loc[p].old \in Inums
    BY <1>c, <1>1 DEF MaybeInum
  <2>4. /\ puts'[p] = <<ToPut(i)>>
        /\ fd'[p] = fd[p]
        /\ cwd'[p] = cwd[p]
        /\ freeing'[p] = freeing[p]
        /\ pc'[p] = "undo_link"
    BY <1>0, <2>2 DEF Put, ProcType
  <2>5. /\ loc' = [loc EXCEPT ![p] = loc'[p]] /\ loc'[p] \in LocalsType
        /\ loc'[p].call = loc[p].call
        /\ loc'[p].rest = loc[p].rest
        /\ loc'[p].new = loc[p].new
        /\ loc'[p].cur = Null
        /\ loc'[p].ip = loc[p].ip
        /\ loc'[p].old = loc[p].old
    <3> DEFINE u == [cur |-> Null]
    <3>1. DOMAIN u = {"cur"} /\ u["cur"] = Null
      OBVIOUS
    <3>2. Locals(p, u)
      BY <2>2
    <3> HIDE DEF u
    <3>3. loc \in [Procs -> LocalsType] /\ loc[p] \in LocalsType
      BY <1>0, Before DEF ProcType
    <3>4. /\ loc' = [loc EXCEPT ![p] = loc'[p]]
          /\ loc'[p].call = loc[p].call
          /\ loc'[p].rest = loc[p].rest
          /\ loc'[p].new = loc[p].new
          /\ loc'[p].cur = Null
          /\ loc'[p].ip = loc[p].ip
          /\ loc'[p].old = loc[p].old
      BY <3>1, <3>2, <3>3, LocalsAre
    <3>5. Typed(loc'[p]) => loc'[p] \in LocalsType
      BY <3>2, <3>3, LocalsAre
    <3>6. Typed(loc[p])
      BY <3>3, LocalsTyped
    <3>7. Typed(loc'[p])
      BY <2>3, <1>1, <3>4, <3>6 DEF Typed, MaybeInum
    <3>8. QED
      BY <3>3, <3>4, <3>5, <3>7
  <2>6. /\ loc'[p].call = loc[p].call
        /\ loc'[p].rest = loc[p].rest
        /\ loc'[p].new = loc[p].new
        /\ loc'[p].cur = Null
        /\ loc'[p].ip = loc[p].ip
        /\ loc'[p].old = loc[p].old
    BY <2>5
  <2>7. Moves(p)
    BY <1>0, <2>2, <2>4, <2>5, Unmoved DEF Moves, Put
  <2>8. ProcTypeOf(p)
    BY <2>3, <1>1, <2>4, <2>5, Before, Constants DEF ProcTypeOf, Stations, MaybeInum
  <2>9. PlaceOK(p)'
    BY <1>0, <2>3, <1>1, <2>4, <2>6 DEF PlaceOK, WantsParent
  <2>10. iref' \in [Inums -> Int]
    BY <1>0, <2>3, <2>1 DEF TableType, Put
  <2>11. TableType' /\ RestType' /\ disk' \in Disks /\ stable' \in Disks
    BY <2>10, <1>core, <1>lock, <1>disk, <1>rest DEF TableType
  <2>12. Counts(p)
    <3> SUFFICES ASSUME NEW j \in Inums
                 PROVE  iref'[j] = iref[j] + PointersAre(p, j)' - PointersAre(p, j)
      BY DEF Counts
    <3>1. Found_in(puts[p], j) = 0
      BY <1>1, FoundIn
    <3>2. Found_in(puts'[p], j) = Is(i, j)
      BY <2>4, ListsOfPuts, Zenon
    <3>3. Found_in(puts'[p], j) \in Nat /\ iref[j] \in Int /\ j # Null
      BY <1>0, FoundIn DEF TableType
    <3>4. QED
      BY <1>0, <2>3, <1>1, <2>1, <2>4, <2>6, <3>1, <3>2, <3>3 DEF PointersAre, B, Is, TableType, Put, MaybeInum
  <2>13. QED
    BY <2>7, <2>8, <2>9, <2>11, <2>12, StepBase
<1>q. QED
  BY <1>a, <1>b, <1>c DEF WalkParent

(* open() without O_CREATE *)
LEMMA OpenBase ==
  ASSUME BaseInv, NEW p \in Procs, Open(p)
  PROVE  BaseInv' /\ \A q \in Procs : q # p => Same(q)
<1> DEFINE i == loc[p].cur
<1>0. FsTypeOK /\ PlaceOK(p) /\ ProcType /\ TableType /\ RestType /\ disk \in Disks /\ stable \in Disks
  BY Before
<1>1. /\ pc[p] = "walk" /\ puts[p] = <<>> /\ freeing[p] = "no" /\ loc[p].cur \in Inums /\ loc[p].ip = Null /\ loc[p].old = Null /\ fd[p] \in MaybeInum
  BY <1>0 DEF Open, At, Found, FoundParent, PlaceOK, WantsParent, ProcType, LocalsType
<1>core. core' \in [Inums -> Copies]
  BY <1>0, <1>1, ilockType DEF Open
<1>lock. lock' \in [Inums -> Procs \cup {NoProc}]
  BY <1>0 DEF Open, table, TableType
<1>disk. disk' \in Disks /\ stable' \in Disks
  BY <1>0 DEF Open
<1>rest. RestType'
  BY <1>0, <1>1, ilockType DEF Open, RestType, aside
<1>a. CASE fd[p] = Null
  <2>1. iref' = iref
    BY <1>a, <1>1 DEF Open, Leave, ThenPut, Goto, iget, Opened, NotFound, aside, table, local
  <2>2. /\ loc' = Put(loc, p, NoLocals)
        /\ puts' = Put(puts, p, <<>>)
        /\ pc' = Put(pc, p, "end")
        /\ fd' = Put(fd, p, i)
        /\ cwd' = cwd
        /\ freeing' = freeing
    BY <1>a, <1>1 DEF Open, Leave, ThenPut, Goto, iget, Opened, NotFound, aside, table, local
  <2>3. fd[p] = Null
    BY <1>a, <1>1 DEF MaybeInum
  <2>4. /\ loc'[p] = NoLocals /\ puts'[p] = <<>> /\ pc'[p] = "end" /\ cwd'[p] = cwd[p] /\ fd'[p] = i
        /\ freeing'[p] = "no"
    BY <1>0, <1>1, <2>2 DEF Put, ProcType
  <2>5. Moves(p)
    BY <1>0, <2>2, <2>4, Unmoved DEF Moves, Put
  <2>6. cwd'[p] \in Inums /\ fd'[p] \in MaybeInum
    BY <1>1, <2>4, Before, Constants DEF MaybeInum
  <2>7. puts'[p] \in Seq(ToPuts) /\ Len(puts'[p]) <= 2
    BY <2>4, ShortLists, Zenon
  <2>8. Balanced(p)
    <3> SUFFICES ASSUME NEW j \in Inums
                 PROVE  Is(cwd'[p], j) + Is(fd'[p], j) + Found_in(puts'[p], j) = PointersAre(p, j)
      BY DEF Balanced
    <3>1. Found_in(puts[p], j) = 0
      BY <1>1, FoundIn
    <3>2. Found_in(puts'[p], j) = 0
      BY <2>4, ListsOfPuts, Zenon
    <3>3. j # Null
      OBVIOUS
    <3>4. QED
      BY <2>3, <1>1, <2>4, <3>1, <3>2, <3>3 DEF PointersAre, B, Is
  <2>9. QED
    BY <2>1, <2>4, <2>5, <2>6, <2>7, <2>8, <1>core, <1>lock, <1>disk, <1>rest, LeaveBase
<1>b. CASE fd[p] # Null
  <2>1. iref' = iref
    BY <1>b, <1>1 DEF Open, Leave, ThenPut, Goto, iget, Opened, NotFound, aside, table, local
  <2>2. /\ loc' = Put(loc, p, NoLocals)
        /\ puts' = Put(puts, p, <<ToPut(i)>>)
        /\ pc' = Put(pc, p, "end")
        /\ fd' = fd
        /\ cwd' = cwd
        /\ freeing' = freeing
    BY <1>b, <1>1 DEF Open, Leave, ThenPut, Goto, iget, Opened, NotFound, aside, table, local
  <2>3. /\ loc'[p] = NoLocals /\ puts'[p] = <<ToPut(i)>> /\ pc'[p] = "end" /\ cwd'[p] = cwd[p] /\ fd'[p] = fd[p]
        /\ freeing'[p] = "no"
    BY <1>0, <1>1, <2>2 DEF Put, ProcType
  <2>4. Moves(p)
    BY <1>0, <2>2, <2>3, Unmoved DEF Moves, Put
  <2>5. cwd'[p] \in Inums /\ fd'[p] \in MaybeInum
    BY <1>1, <2>3, Before, Constants DEF MaybeInum
  <2>6. puts'[p] \in Seq(ToPuts) /\ Len(puts'[p]) <= 2
    BY <1>1, <2>3, Before, ShortLists
  <2>7. Balanced(p)
    <3> SUFFICES ASSUME NEW j \in Inums
                 PROVE  Is(cwd'[p], j) + Is(fd'[p], j) + Found_in(puts'[p], j) = PointersAre(p, j)
      BY DEF Balanced
    <3>1. Found_in(puts[p], j) = 0
      BY <1>1, FoundIn
    <3>2. Found_in(puts'[p], j) = Is(i, j)
      BY <2>3, ListsOfPuts, Zenon
    <3>3. j # Null
      OBVIOUS
    <3>4. QED
      BY <1>1, <2>3, <3>1, <3>2, <3>3 DEF PointersAre, B, Is
  <2>8. QED
    BY <2>1, <2>3, <2>4, <2>5, <2>6, <2>7, <1>core, <1>lock, <1>disk, <1>rest, LeaveBase
<1>q. QED
  BY <1>a, <1>b

(* chdir() *)
LEMMA ChdirBase ==
  ASSUME BaseInv, NEW p \in Procs, Chdir(p)
  PROVE  BaseInv' /\ \A q \in Procs : q # p => Same(q)
<1> DEFINE i == loc[p].cur
<1>0. FsTypeOK /\ PlaceOK(p) /\ ProcType /\ TableType /\ RestType /\ disk \in Disks /\ stable \in Disks
  BY Before
<1>1. /\ pc[p] = "walk" /\ puts[p] = <<>> /\ freeing[p] = "no" /\ loc[p].cur \in Inums /\ loc[p].ip = Null /\ loc[p].old = Null /\ cwd[p] \in Inums
  BY <1>0 DEF Chdir, At, Found, FoundParent, PlaceOK, WantsParent, ProcType, LocalsType
<1>core. core' \in [Inums -> Copies]
  BY <1>0, <1>1, ilockType DEF Chdir
<1>lock. lock' \in [Inums -> Procs \cup {NoProc}]
  BY <1>0 DEF Chdir, table, TableType
<1>disk. disk' \in Disks /\ stable' \in Disks
  BY <1>0 DEF Chdir
<1>rest. RestType'
  BY <1>0, <1>1, ilockType DEF Chdir, RestType, aside
<1>a. CASE Loaded(i).type = "dir"
  <2>1. iref' = iref
    BY <1>a, <1>1 DEF Chdir, Leave, ThenPut, Goto, iget, Opened, NotFound, aside, table, local
  <2>2. /\ loc' = Put(loc, p, NoLocals)
        /\ puts' = Put(puts, p, <<ToPut(cwd[p])>>)
        /\ pc' = Put(pc, p, "end")
        /\ fd' = fd
        /\ cwd' = Put(cwd, p, i)
        /\ freeing' = freeing
    BY <1>a, <1>1 DEF Chdir, Leave, ThenPut, Goto, iget, Opened, NotFound, aside, table, local
  <2>3. /\ loc'[p] = NoLocals /\ puts'[p] = <<ToPut(cwd[p])>> /\ pc'[p] = "end" /\ cwd'[p] = i /\ fd'[p] = fd[p]
        /\ freeing'[p] = "no"
    BY <1>0, <1>1, <2>2 DEF Put, ProcType
  <2>4. Moves(p)
    BY <1>0, <2>2, <2>3, Unmoved DEF Moves, Put
  <2>5. cwd'[p] \in Inums /\ fd'[p] \in MaybeInum
    BY <1>1, <2>3, Before, Constants DEF MaybeInum
  <2>6. puts'[p] \in Seq(ToPuts) /\ Len(puts'[p]) <= 2
    BY <1>1, <2>3, Before, ShortLists
  <2>7. Balanced(p)
    <3> SUFFICES ASSUME NEW j \in Inums
                 PROVE  Is(cwd'[p], j) + Is(fd'[p], j) + Found_in(puts'[p], j) = PointersAre(p, j)
      BY DEF Balanced
    <3>1. Found_in(puts[p], j) = 0
      BY <1>1, FoundIn
    <3>2. Found_in(puts'[p], j) = Is(cwd[p], j)
      BY <2>3, ListsOfPuts, Zenon
    <3>3. j # Null
      OBVIOUS
    <3>4. QED
      BY <1>1, <2>3, <3>1, <3>2, <3>3 DEF PointersAre, B, Is
  <2>8. QED
    BY <2>1, <2>3, <2>4, <2>5, <2>6, <2>7, <1>core, <1>lock, <1>disk, <1>rest, LeaveBase
<1>b. CASE Loaded(i).type # "dir"
  <2>1. iref' = iref
    BY <1>b, <1>1 DEF Chdir, Leave, ThenPut, Goto, iget, Opened, NotFound, aside, table, local
  <2>2. /\ loc' = Put(loc, p, NoLocals)
        /\ puts' = Put(puts, p, <<ToPut(i)>>)
        /\ pc' = Put(pc, p, "end")
        /\ fd' = fd
        /\ cwd' = cwd
        /\ freeing' = freeing
    BY <1>b, <1>1 DEF Chdir, Leave, ThenPut, Goto, iget, Opened, NotFound, aside, table, local
  <2>3. /\ loc'[p] = NoLocals /\ puts'[p] = <<ToPut(i)>> /\ pc'[p] = "end" /\ cwd'[p] = cwd[p] /\ fd'[p] = fd[p]
        /\ freeing'[p] = "no"
    BY <1>0, <1>1, <2>2 DEF Put, ProcType
  <2>4. Moves(p)
    BY <1>0, <2>2, <2>3, Unmoved DEF Moves, Put
  <2>5. cwd'[p] \in Inums /\ fd'[p] \in MaybeInum
    BY <1>1, <2>3, Before, Constants DEF MaybeInum
  <2>6. puts'[p] \in Seq(ToPuts) /\ Len(puts'[p]) <= 2
    BY <1>1, <2>3, Before, ShortLists
  <2>7. Balanced(p)
    <3> SUFFICES ASSUME NEW j \in Inums
                 PROVE  Is(cwd'[p], j) + Is(fd'[p], j) + Found_in(puts'[p], j) = PointersAre(p, j)
      BY DEF Balanced
    <3>1. Found_in(puts[p], j) = 0
      BY <1>1, FoundIn
    <3>2. Found_in(puts'[p], j) = Is(i, j)
      BY <2>3, ListsOfPuts, Zenon
    <3>3. j # Null
      OBVIOUS
    <3>4. QED
      BY <1>1, <2>3, <3>1, <3>2, <3>3 DEF PointersAre, B, Is
  <2>8. QED
    BY <2>1, <2>3, <2>4, <2>5, <2>6, <2>7, <1>core, <1>lock, <1>disk, <1>rest, LeaveBase
<1>q. QED
  BY <1>a, <1>b

(* create(), its look at the directory *)
LEMMA CreateLookupBase ==
  ASSUME BaseInv, NEW p \in Procs, CreateLookup(p)
  PROVE  BaseInv' /\ \A q \in Procs : q # p => Same(q)
<1> DEFINE d == loc[p].cur
           next == dirlookup(d, loc[p].rest[1])
<1>0. FsTypeOK /\ PlaceOK(p) /\ ProcType /\ TableType /\ RestType /\ disk \in Disks /\ stable \in Disks
  BY Before
<1>1. /\ pc[p] = "parent" /\ puts[p] = <<>> /\ freeing[p] = "no" /\ loc[p].cur \in Inums /\ loc[p].ip = Null
      /\ Len(loc[p].rest) = 1 /\ loc[p].rest[1] \in Elems
      /\ loc[p].old = Null /\ loc[p].call \in {"creat", "mkdir"}
  BY <1>0 DEF CreateLookup, At, Found, FoundParent, PlaceOK, WantsParent, ProcType, LocalsType
<1>2. next \in MaybeInum
  BY <1>0, <1>1 DEF dirlookup, FsTypeOK, Disks, Elems
<1> HIDE DEF next
<1>core. core' \in [Inums -> Copies]
  BY <1>0, <1>1, <1>2, ilockType DEF CreateLookup
<1>lock. lock' \in [Inums -> Procs \cup {NoProc}]
  BY <1>0, <1>1 DEF CreateLookup, TableType, Put
<1>disk. disk' \in Disks /\ stable' \in Disks
  BY <1>0 DEF CreateLookup
<1>rest. RestType'
  BY <1>0, <1>1, <1>2, ilockType DEF CreateLookup, RestType, aside
<1>a. CASE next = Null
  <2>1. iref' = iref
    BY <1>a, <1>1, <1>2 DEF CreateLookup, Leave, ThenPut, Goto, iget, Opened, NotFound, aside, table, local, next
  <2>2. /\ loc' = loc
        /\ puts' = puts
        /\ pc' = Put(pc, p, "ialloc")
        /\ fd' = fd
        /\ cwd' = cwd
        /\ freeing' = freeing
    BY <1>a, <1>1, <1>2 DEF CreateLookup, Leave, ThenPut, Goto, iget, Opened, NotFound, aside, table, local, next
  <2>3. /\ puts'[p] = puts[p]
        /\ loc'[p] = loc[p]
        /\ fd'[p] = fd[p]
        /\ cwd'[p] = cwd[p]
        /\ freeing'[p] = freeing[p]
        /\ pc'[p] = "ialloc"
    BY <1>0, <2>2 DEF Put, ProcType
  <2>4. Moves(p)
    BY <1>0, <2>2, <2>3, Unmoved DEF Moves, Put
  <2>5. ProcTypeOf(p)
    BY <1>1, <1>2, <2>3, Before, Constants DEF ProcTypeOf, Stations, MaybeInum
  <2>6. PlaceOK(p)'
    BY <1>0, <1>1, <1>2, <2>3 DEF PlaceOK, WantsParent
  <2>7. iref' \in [Inums -> Int]
    BY <1>0, <2>1 DEF TableType, Put
  <2>8. TableType' /\ RestType' /\ disk' \in Disks /\ stable' \in Disks
    BY <2>7, <1>core, <1>lock, <1>disk, <1>rest DEF TableType
  <2>9. Counts(p)
    <3> SUFFICES ASSUME NEW j \in Inums
                 PROVE  iref'[j] = iref[j] + PointersAre(p, j)' - PointersAre(p, j)
      BY DEF Counts
    <3>1. Found_in(puts[p], j) = 0
      BY <1>1, <1>2, FoundIn
    <3>2. Found_in(puts'[p], j) = Found_in(puts[p], j)
      BY <1>1, <1>2, <2>3, TailOfPuts
    <3>3. Found_in(puts'[p], j) \in Nat /\ iref[j] \in Int /\ j # Null
      BY <1>0, FoundIn DEF TableType
    <3>4. QED
      BY <1>0, <1>1, <1>2, <2>1, <2>3, <3>1, <3>2, <3>3 DEF PointersAre, B, Is, TableType, Put, MaybeInum
  <2>10. QED
    BY <2>4, <2>5, <2>6, <2>8, <2>9, StepBase
<1>b. CASE next # Null
  <2>1. iref' = Put(iref, next, iref[next] + 1)
    BY <1>b, <1>1, <1>2 DEF CreateLookup, Leave, ThenPut, Goto, iget, Opened, NotFound, aside, table, local, next
  <2>2. /\ Locals(p, [cur |-> Null, ip |-> next])
        /\ puts' = Put(puts, p, <<ToPut(d)>>)
        /\ pc' = Put(pc, p, "exists")
        /\ fd' = fd
        /\ cwd' = cwd
        /\ freeing' = freeing
    BY <1>b, <1>1, <1>2 DEF CreateLookup, Leave, ThenPut, Goto, iget, Opened, NotFound, aside, table, local, next
  <2>3. next \in Inums
    BY <1>b, <1>1, <1>2 DEF MaybeInum
  <2>4. /\ puts'[p] = <<ToPut(d)>>
        /\ fd'[p] = fd[p]
        /\ cwd'[p] = cwd[p]
        /\ freeing'[p] = freeing[p]
        /\ pc'[p] = "exists"
    BY <1>0, <2>2 DEF Put, ProcType
  <2>5. /\ loc' = [loc EXCEPT ![p] = loc'[p]] /\ loc'[p] \in LocalsType
        /\ loc'[p].call = loc[p].call
        /\ loc'[p].rest = loc[p].rest
        /\ loc'[p].new = loc[p].new
        /\ loc'[p].cur = Null
        /\ loc'[p].ip = next
        /\ loc'[p].old = loc[p].old
    <3> DEFINE u == [cur |-> Null, ip |-> next]
    <3>1. DOMAIN u = {"cur", "ip"} /\ u["cur"] = Null /\ u["ip"] = next
      OBVIOUS
    <3>2. Locals(p, u)
      BY <2>2
    <3> HIDE DEF u
    <3>3. loc \in [Procs -> LocalsType] /\ loc[p] \in LocalsType
      BY <1>0, Before DEF ProcType
    <3>4. /\ loc' = [loc EXCEPT ![p] = loc'[p]]
          /\ loc'[p].call = loc[p].call
          /\ loc'[p].rest = loc[p].rest
          /\ loc'[p].new = loc[p].new
          /\ loc'[p].cur = Null
          /\ loc'[p].ip = next
          /\ loc'[p].old = loc[p].old
      BY <3>1, <3>2, <3>3, LocalsAre
    <3>5. Typed(loc'[p]) => loc'[p] \in LocalsType
      BY <3>2, <3>3, LocalsAre
    <3>6. Typed(loc[p])
      BY <3>3, LocalsTyped
    <3>7. Typed(loc'[p])
      BY <2>3, <1>1, <1>2, <3>4, <3>6 DEF Typed, MaybeInum
    <3>8. QED
      BY <3>3, <3>4, <3>5, <3>7
  <2>6. /\ loc'[p].call = loc[p].call
        /\ loc'[p].rest = loc[p].rest
        /\ loc'[p].new = loc[p].new
        /\ loc'[p].cur = Null
        /\ loc'[p].ip = next
        /\ loc'[p].old = loc[p].old
    BY <2>5
  <2>7. Moves(p)
    BY <1>0, <2>2, <2>4, <2>5, Unmoved DEF Moves, Put
  <2>8. ProcTypeOf(p)
    BY <2>3, <1>1, <1>2, <2>4, <2>5, Before, Constants DEF ProcTypeOf, Stations, MaybeInum
  <2>9. PlaceOK(p)'
    BY <1>0, <2>3, <1>1, <1>2, <2>4, <2>6 DEF PlaceOK, WantsParent
  <2>10. iref' \in [Inums -> Int]
    BY <1>0, <2>3, <1>1, <1>2, <2>1 DEF TableType, Put
  <2>11. TableType' /\ RestType' /\ disk' \in Disks /\ stable' \in Disks
    BY <2>10, <1>core, <1>lock, <1>disk, <1>rest DEF TableType
  <2>12. Counts(p)
    <3> SUFFICES ASSUME NEW j \in Inums
                 PROVE  iref'[j] = iref[j] + PointersAre(p, j)' - PointersAre(p, j)
      BY DEF Counts
    <3>1. Found_in(puts[p], j) = 0
      BY <1>1, <1>2, FoundIn
    <3>2. Found_in(puts'[p], j) = Is(d, j)
      BY <2>4, ListsOfPuts, Zenon
    <3>3. Found_in(puts'[p], j) \in Nat /\ iref[j] \in Int /\ j # Null
      BY <1>0, FoundIn DEF TableType
    <3>4. QED
      BY <1>0, <2>3, <1>1, <1>2, <2>1, <2>4, <2>6, <3>1, <3>2, <3>3 DEF PointersAre, B, Is, TableType, Put, MaybeInum
  <2>13. QED
    BY <2>7, <2>8, <2>9, <2>11, <2>12, StepBase
<1>q. QED
  BY <1>a, <1>b

(* create(), a name that exists *)
LEMMA CreateExistsBase ==
  ASSUME BaseInv, NEW p \in Procs, CreateExists(p)
  PROVE  BaseInv' /\ \A q \in Procs : q # p => Same(q)
<1> DEFINE i == loc[p].ip
<1>0. FsTypeOK /\ PlaceOK(p) /\ ProcType /\ TableType /\ RestType /\ disk \in Disks /\ stable \in Disks
  BY Before
<1>1. /\ pc[p] = "exists" /\ puts[p] = <<>> /\ freeing[p] = "no" /\ loc[p].cur = Null /\ loc[p].ip \in Inums /\ loc[p].old = Null
  BY <1>0 DEF CreateExists, At, Found, FoundParent, PlaceOK, WantsParent, ProcType, LocalsType
<1>core. core' \in [Inums -> Copies]
  BY <1>0, <1>1, ilockType DEF CreateExists
<1>lock. lock' \in [Inums -> Procs \cup {NoProc}]
  BY <1>0 DEF CreateExists, table, TableType
<1>disk. disk' \in Disks /\ stable' \in Disks
  BY <1>0 DEF CreateExists
<1>rest. RestType'
  BY <1>0, <1>1, ilockType DEF CreateExists, RestType, aside
<1>a. CASE loc[p].call = "creat" /\ Loaded(i).type = "file" /\ fd[p] = Null
  <2>1. iref' = iref
    BY <1>a, <1>1 DEF CreateExists, Leave, ThenPut, Goto, iget, Opened, NotFound, aside, table, local
  <2>2. /\ loc' = Put(loc, p, NoLocals)
        /\ puts' = Put(puts, p, <<>>)
        /\ pc' = Put(pc, p, "end")
        /\ fd' = Put(fd, p, i)
        /\ cwd' = cwd
        /\ freeing' = freeing
    BY <1>a, <1>1 DEF CreateExists, Leave, ThenPut, Goto, iget, Opened, NotFound, aside, table, local
  <2>3. fd[p] = Null
    BY <1>a, <1>1 DEF MaybeInum
  <2>4. /\ loc'[p] = NoLocals /\ puts'[p] = <<>> /\ pc'[p] = "end" /\ cwd'[p] = cwd[p] /\ fd'[p] = i
        /\ freeing'[p] = "no"
    BY <1>0, <1>1, <2>2 DEF Put, ProcType
  <2>5. Moves(p)
    BY <1>0, <2>2, <2>4, Unmoved DEF Moves, Put
  <2>6. cwd'[p] \in Inums /\ fd'[p] \in MaybeInum
    BY <1>1, <2>4, Before, Constants DEF MaybeInum
  <2>7. puts'[p] \in Seq(ToPuts) /\ Len(puts'[p]) <= 2
    BY <2>4, ShortLists, Zenon
  <2>8. Balanced(p)
    <3> SUFFICES ASSUME NEW j \in Inums
                 PROVE  Is(cwd'[p], j) + Is(fd'[p], j) + Found_in(puts'[p], j) = PointersAre(p, j)
      BY DEF Balanced
    <3>1. Found_in(puts[p], j) = 0
      BY <1>1, FoundIn
    <3>2. Found_in(puts'[p], j) = 0
      BY <2>4, ListsOfPuts, Zenon
    <3>3. j # Null
      OBVIOUS
    <3>4. QED
      BY <2>3, <1>1, <2>4, <3>1, <3>2, <3>3 DEF PointersAre, B, Is
  <2>9. QED
    BY <2>1, <2>4, <2>5, <2>6, <2>7, <2>8, <1>core, <1>lock, <1>disk, <1>rest, LeaveBase
<1>b. CASE ~(loc[p].call = "creat" /\ Loaded(i).type = "file" /\ fd[p] = Null)
  <2>1. iref' = iref
    BY <1>b, <1>1 DEF CreateExists, Leave, ThenPut, Goto, iget, Opened, NotFound, aside, table, local
  <2>2. /\ loc' = Put(loc, p, NoLocals)
        /\ puts' = Put(puts, p, <<ToPut(i)>>)
        /\ pc' = Put(pc, p, "end")
        /\ fd' = fd
        /\ cwd' = cwd
        /\ freeing' = freeing
    BY <1>b, <1>1 DEF CreateExists, Leave, ThenPut, Goto, iget, Opened, NotFound, aside, table, local
  <2>3. /\ loc'[p] = NoLocals /\ puts'[p] = <<ToPut(i)>> /\ pc'[p] = "end" /\ cwd'[p] = cwd[p] /\ fd'[p] = fd[p]
        /\ freeing'[p] = "no"
    BY <1>0, <1>1, <2>2 DEF Put, ProcType
  <2>4. Moves(p)
    BY <1>0, <2>2, <2>3, Unmoved DEF Moves, Put
  <2>5. cwd'[p] \in Inums /\ fd'[p] \in MaybeInum
    BY <1>1, <2>3, Before, Constants DEF MaybeInum
  <2>6. puts'[p] \in Seq(ToPuts) /\ Len(puts'[p]) <= 2
    BY <1>1, <2>3, Before, ShortLists
  <2>7. Balanced(p)
    <3> SUFFICES ASSUME NEW j \in Inums
                 PROVE  Is(cwd'[p], j) + Is(fd'[p], j) + Found_in(puts'[p], j) = PointersAre(p, j)
      BY DEF Balanced
    <3>1. Found_in(puts[p], j) = 0
      BY <1>1, FoundIn
    <3>2. Found_in(puts'[p], j) = Is(i, j)
      BY <2>3, ListsOfPuts, Zenon
    <3>3. j # Null
      OBVIOUS
    <3>4. QED
      BY <1>1, <2>3, <3>1, <3>2, <3>3 DEF PointersAre, B, Is
  <2>8. QED
    BY <2>1, <2>3, <2>4, <2>5, <2>6, <2>7, <1>core, <1>lock, <1>disk, <1>rest, LeaveBase
<1>q. QED
  BY <1>a, <1>b

(* ialloc() marks an inode *)
LEMMA IallocBase ==
  ASSUME BaseInv, NEW p \in Procs, Ialloc(p)
  PROVE  BaseInv' /\ \A q \in Procs : q # p => Same(q)
<1>0. FsTypeOK /\ PlaceOK(p) /\ ProcType /\ TableType /\ RestType /\ disk \in Disks /\ stable \in Disks
  BY Before
<1>1. /\ pc[p] = "ialloc" /\ puts[p] = <<>> /\ freeing[p] = "no" /\ loc[p].cur \in Inums /\ loc[p].ip = Null
      /\ loc[p].old = Null /\ Len(loc[p].rest) = 1 /\ loc[p].call \in {"creat", "mkdir"}
  BY <1>0 DEF Ialloc, At, Found, FoundParent, PlaceOK, WantsParent, ProcType, LocalsType
<1>2. PICK i \in Inums : /\ disk' = [disk EXCEPT !.type[i] = Type(loc[p].call), !.nlink[i] = 0]
                     /\ Locals(p, [ip |-> i]) /\ (overtaken' = overtaken \/ overtaken' = overtaken \cup {i})
  BY DEF Ialloc
<1>core. core' \in [Inums -> Copies]
  BY <1>0 DEF Ialloc, table, TableType
<1>lock. lock' \in [Inums -> Procs \cup {NoProc}]
  BY <1>0 DEF Ialloc, table, TableType
<1>disk. disk' \in Disks /\ stable' \in Disks
  <2>1. Type(loc[p].call) \in InodeTypes
    BY DEF Type, InodeTypes
  <2>2. disk' \in Disks
    BY <1>0, <1>2, <2>1, AllocType
  <2>3. QED
    BY <1>0, <2>2 DEF Ialloc
<1>rest. RestType'
  BY <1>0, <1>2 DEF Ialloc, RestType
<1>q. QED
  <2>1. iref' = iref
    BY <1>1, <1>2 DEF Ialloc, Leave, ThenPut, Goto, iget, Opened, NotFound, aside, table, local
  <2>2. /\ Locals(p, [ip |-> i])
        /\ puts' = puts
        /\ pc' = Put(pc, p, "iget")
        /\ fd' = fd
        /\ cwd' = cwd
        /\ freeing' = freeing
    BY <1>1, <1>2 DEF Ialloc, Leave, ThenPut, Goto, iget, Opened, NotFound, aside, table, local
  <2>3. /\ puts'[p] = puts[p]
        /\ fd'[p] = fd[p]
        /\ cwd'[p] = cwd[p]
        /\ freeing'[p] = freeing[p]
        /\ pc'[p] = "iget"
    BY <1>0, <2>2 DEF Put, ProcType
  <2>4. /\ loc' = [loc EXCEPT ![p] = loc'[p]] /\ loc'[p] \in LocalsType
        /\ loc'[p].call = loc[p].call
        /\ loc'[p].rest = loc[p].rest
        /\ loc'[p].new = loc[p].new
        /\ loc'[p].cur = loc[p].cur
        /\ loc'[p].ip = i
        /\ loc'[p].old = loc[p].old
    <3> DEFINE u == [ip |-> i]
    <3>1. DOMAIN u = {"ip"} /\ u["ip"] = i
      OBVIOUS
    <3>2. Locals(p, u)
      BY <2>2
    <3> HIDE DEF u
    <3>3. loc \in [Procs -> LocalsType] /\ loc[p] \in LocalsType
      BY <1>0, Before DEF ProcType
    <3>4. /\ loc' = [loc EXCEPT ![p] = loc'[p]]
          /\ loc'[p].call = loc[p].call
          /\ loc'[p].rest = loc[p].rest
          /\ loc'[p].new = loc[p].new
          /\ loc'[p].cur = loc[p].cur
          /\ loc'[p].ip = i
          /\ loc'[p].old = loc[p].old
      BY <3>1, <3>2, <3>3, LocalsAre
    <3>5. Typed(loc'[p]) => loc'[p] \in LocalsType
      BY <3>2, <3>3, LocalsAre
    <3>6. Typed(loc[p])
      BY <3>3, LocalsTyped
    <3>7. Typed(loc'[p])
      BY <1>1, <1>2, <3>4, <3>6 DEF Typed, MaybeInum
    <3>8. QED
      BY <3>3, <3>4, <3>5, <3>7
  <2>5. /\ loc'[p].call = loc[p].call
        /\ loc'[p].rest = loc[p].rest
        /\ loc'[p].new = loc[p].new
        /\ loc'[p].cur = loc[p].cur
        /\ loc'[p].ip = i
        /\ loc'[p].old = loc[p].old
    BY <2>4
  <2>6. Moves(p)
    BY <1>0, <2>2, <2>3, <2>4, Unmoved DEF Moves, Put
  <2>7. ProcTypeOf(p)
    BY <1>1, <1>2, <2>3, <2>4, Before, Constants DEF ProcTypeOf, Stations, MaybeInum
  <2>8. PlaceOK(p)'
    BY <1>0, <1>1, <1>2, <2>3, <2>5 DEF PlaceOK, WantsParent
  <2>9. iref' \in [Inums -> Int]
    BY <1>0, <2>1 DEF TableType, Put
  <2>10. TableType' /\ RestType' /\ disk' \in Disks /\ stable' \in Disks
    BY <2>9, <1>core, <1>lock, <1>disk, <1>rest DEF TableType
  <2>11. Counts(p)
    <3> SUFFICES ASSUME NEW j \in Inums
                 PROVE  iref'[j] = iref[j] + PointersAre(p, j)' - PointersAre(p, j)
      BY DEF Counts
    <3>1. Found_in(puts[p], j) = 0
      BY <1>1, <1>2, FoundIn
    <3>2. Found_in(puts'[p], j) = Found_in(puts[p], j)
      BY <1>1, <1>2, <2>3, TailOfPuts
    <3>3. Found_in(puts'[p], j) \in Nat /\ iref[j] \in Int /\ j # Null
      BY <1>0, FoundIn DEF TableType
    <3>4. QED
      BY <1>0, <1>1, <1>2, <2>1, <2>3, <2>5, <3>1, <3>2, <3>3 DEF PointersAre, B, Is, TableType, Put, MaybeInum
  <2>12. QED
    BY <2>6, <2>7, <2>8, <2>10, <2>11, StepBase

(* ialloc() without a free inode *)
LEMMA IallocFailsBase ==
  ASSUME BaseInv, NEW p \in Procs, IallocFails(p)
  PROVE  BaseInv' /\ \A q \in Procs : q # p => Same(q)
<1>0. FsTypeOK /\ PlaceOK(p) /\ ProcType /\ TableType /\ RestType /\ disk \in Disks /\ stable \in Disks
  BY Before
<1>1. /\ pc[p] = "ialloc" /\ puts[p] = <<>> /\ freeing[p] = "no" /\ loc[p].cur \in Inums /\ loc[p].ip = Null
      /\ loc[p].old = Null /\ Len(loc[p].rest) = 1 /\ loc[p].call \in {"creat", "mkdir"}
  BY <1>0 DEF IallocFails, At, Found, FoundParent, PlaceOK, WantsParent, ProcType, LocalsType
<1>core. core' \in [Inums -> Copies]
  BY <1>0 DEF IallocFails, table, TableType
<1>lock. lock' \in [Inums -> Procs \cup {NoProc}]
  BY <1>0 DEF IallocFails, table, TableType
<1>disk. disk' \in Disks /\ stable' \in Disks
  BY <1>0 DEF IallocFails
<1>rest. RestType'
  BY <1>0 DEF IallocFails, RestType, aside
<1>q. QED
  <2>1. iref' = iref
    BY <1>1 DEF IallocFails, Leave, ThenPut, Goto, iget, Opened, NotFound, aside, table, local
  <2>2. /\ loc' = Put(loc, p, NoLocals)
        /\ puts' = Put(puts, p, <<ToUnlockPut(loc[p].cur)>>)
        /\ pc' = Put(pc, p, "end")
        /\ fd' = fd
        /\ cwd' = cwd
        /\ freeing' = freeing
    BY <1>1 DEF IallocFails, Leave, ThenPut, Goto, iget, Opened, NotFound, aside, table, local
  <2>3. /\ loc'[p] = NoLocals /\ puts'[p] = <<ToUnlockPut(loc[p].cur)>> /\ pc'[p] = "end" /\ cwd'[p] = cwd[p] /\ fd'[p] = fd[p]
        /\ freeing'[p] = "no"
    BY <1>0, <1>1, <2>2 DEF Put, ProcType
  <2>4. Moves(p)
    BY <1>0, <2>2, <2>3, Unmoved DEF Moves, Put
  <2>5. cwd'[p] \in Inums /\ fd'[p] \in MaybeInum
    BY <1>1, <2>3, Before, Constants DEF MaybeInum
  <2>6. puts'[p] \in Seq(ToPuts) /\ Len(puts'[p]) <= 2
    BY <1>1, <2>3, Before, ShortLists
  <2>7. Balanced(p)
    <3> SUFFICES ASSUME NEW j \in Inums
                 PROVE  Is(cwd'[p], j) + Is(fd'[p], j) + Found_in(puts'[p], j) = PointersAre(p, j)
      BY DEF Balanced
    <3>1. Found_in(puts[p], j) = 0
      BY <1>1, FoundIn
    <3>2. Found_in(puts'[p], j) = Is(loc[p].cur, j)
      BY <2>3, ListsOfPuts, Zenon
    <3>3. j # Null
      OBVIOUS
    <3>4. QED
      BY <1>1, <2>3, <3>1, <3>2, <3>3 DEF PointersAre, B, Is
  <2>8. QED
    BY <2>1, <2>3, <2>4, <2>5, <2>6, <2>7, <1>core, <1>lock, <1>disk, <1>rest, LeaveBase

(* ialloc() takes a table entry *)
LEMMA IallocGetBase ==
  ASSUME BaseInv, NEW p \in Procs, IallocGet(p)
  PROVE  BaseInv' /\ \A q \in Procs : q # p => Same(q)
<1>0. FsTypeOK /\ PlaceOK(p) /\ ProcType /\ TableType /\ RestType /\ disk \in Disks /\ stable \in Disks
  BY Before
<1>1. /\ pc[p] = "iget" /\ puts[p] = <<>> /\ freeing[p] = "no" /\ loc[p].cur \in Inums /\ loc[p].ip \in Inums
      /\ loc[p].old = Null /\ Len(loc[p].rest) = 1 /\ loc[p].call \in {"creat", "mkdir"}
  BY <1>0 DEF IallocGet, At, Found, FoundParent, PlaceOK, WantsParent, ProcType, LocalsType
<1>core. core' \in [Inums -> Copies]
  BY <1>0 DEF IallocGet, table, TableType
<1>lock. lock' \in [Inums -> Procs \cup {NoProc}]
  BY <1>0 DEF IallocGet, table, TableType
<1>disk. disk' \in Disks /\ stable' \in Disks
  BY <1>0 DEF IallocGet
<1>rest. RestType'
  BY <1>0 DEF IallocGet, RestType, aside
<1>q. QED
  <2>1. iref' = Put(iref, loc[p].ip, iref[loc[p].ip] + 1)
    BY <1>1 DEF IallocGet, Leave, ThenPut, Goto, iget, Opened, NotFound, aside, table, local
  <2>2. /\ loc' = loc
        /\ puts' = puts
        /\ pc' = Put(pc, p, "init")
        /\ fd' = fd
        /\ cwd' = cwd
        /\ freeing' = freeing
    BY <1>1 DEF IallocGet, Leave, ThenPut, Goto, iget, Opened, NotFound, aside, table, local
  <2>3. /\ puts'[p] = puts[p]
        /\ loc'[p] = loc[p]
        /\ fd'[p] = fd[p]
        /\ cwd'[p] = cwd[p]
        /\ freeing'[p] = freeing[p]
        /\ pc'[p] = "init"
    BY <1>0, <2>2 DEF Put, ProcType
  <2>4. Moves(p)
    BY <1>0, <2>2, <2>3, Unmoved DEF Moves, Put
  <2>5. ProcTypeOf(p)
    BY <1>1, <2>3, Before, Constants DEF ProcTypeOf, Stations, MaybeInum
  <2>6. PlaceOK(p)'
    BY <1>0, <1>1, <2>3 DEF PlaceOK, WantsParent
  <2>7. iref' \in [Inums -> Int]
    BY <1>0, <1>1, <2>1 DEF TableType, Put
  <2>8. TableType' /\ RestType' /\ disk' \in Disks /\ stable' \in Disks
    BY <2>7, <1>core, <1>lock, <1>disk, <1>rest DEF TableType
  <2>9. Counts(p)
    <3> SUFFICES ASSUME NEW j \in Inums
                 PROVE  iref'[j] = iref[j] + PointersAre(p, j)' - PointersAre(p, j)
      BY DEF Counts
    <3>1. Found_in(puts[p], j) = 0
      BY <1>1, FoundIn
    <3>2. Found_in(puts'[p], j) = Found_in(puts[p], j)
      BY <1>1, <2>3, TailOfPuts
    <3>3. Found_in(puts'[p], j) \in Nat /\ iref[j] \in Int /\ j # Null
      BY <1>0, FoundIn DEF TableType
    <3>4. QED
      BY <1>0, <1>1, <2>1, <2>3, <3>1, <3>2, <3>3 DEF PointersAre, B, Is, TableType, Put, MaybeInum
  <2>10. QED
    BY <2>4, <2>5, <2>6, <2>8, <2>9, StepBase

(* create(), the new name *)
LEMMA CreateLinkBase ==
  ASSUME BaseInv, NEW p \in Procs, CreateLink(p)
  PROVE  BaseInv' /\ \A q \in Procs : q # p => Same(q)
<1> DEFINE d == loc[p].cur
           i == loc[p].ip
<1>0. FsTypeOK /\ PlaceOK(p) /\ ProcType /\ TableType /\ RestType /\ disk \in Disks /\ stable \in Disks
  BY Before
<1>1. /\ pc[p] = "init" /\ puts[p] = <<>> /\ freeing[p] = "no" /\ loc[p].cur \in Inums /\ loc[p].ip \in Inums
      /\ loc[p].old = Null /\ Len(loc[p].rest) = 1 /\ loc[p].call \in {"creat", "mkdir"}
  BY <1>0 DEF CreateLink, At, Found, FoundParent, PlaceOK, WantsParent, ProcType, LocalsType
<1>core. core' \in [Inums -> Copies]
  <2>1. Loaded(i) \in Copies
    BY <1>0, <1>1, LoadedType
  <2>2. disk' \in Disks
    BY <1>0, <1>1, LinkedType DEF CreateLink
  <2>3. disk'.nlink[d] \in Int
    BY <1>1, <2>2 DEF Disks
  <2>4. [Loaded(i) EXCEPT !.nlink = 1] \in Copies
    BY <2>1, CopyType
  <2> DEFINE c == [core EXCEPT ![i] = [Loaded(i) EXCEPT !.nlink = 1]]
  <2>5. c \in [Inums -> Copies]
    BY <1>0, <2>4 DEF TableType
  <2>6. core' = [c EXCEPT ![d] = [c[d] EXCEPT !.nlink = disk'.nlink[d]]]
    BY DEF CreateLink
  <2> HIDE DEF c
  <2>7. [c[d] EXCEPT !.nlink = disk'.nlink[d]] \in Copies
    BY <1>1, <2>3, <2>5, CopyType
  <2>8. QED
    BY <2>5, <2>6, <2>7
<1>lock. lock' \in [Inums -> Procs \cup {NoProc}]
  BY <1>0, <1>1 DEF CreateLink, TableType, Put
<1>disk. disk' \in Disks /\ stable' \in Disks
  BY <1>0, <1>1, LinkedType DEF CreateLink
<1>rest. RestType'
  BY <1>0 DEF CreateLink, RestType, aside, NoType
<1>q. QED
  <2>1. iref' = iref
    BY <1>1 DEF CreateLink, Leave, ThenPut, Goto, iget, Opened, NotFound, aside, table, local
  <2>2. /\ Locals(p, [cur |-> Null])
        /\ puts' = Put(puts, p, <<ToUnlockPut(d)>>)
        /\ pc' = Put(pc, p, "created")
        /\ fd' = fd
        /\ cwd' = cwd
        /\ freeing' = freeing
    BY <1>1 DEF CreateLink, Leave, ThenPut, Goto, iget, Opened, NotFound, aside, table, local
  <2>3. /\ puts'[p] = <<ToUnlockPut(d)>>
        /\ fd'[p] = fd[p]
        /\ cwd'[p] = cwd[p]
        /\ freeing'[p] = freeing[p]
        /\ pc'[p] = "created"
    BY <1>0, <2>2 DEF Put, ProcType
  <2>4. /\ loc' = [loc EXCEPT ![p] = loc'[p]] /\ loc'[p] \in LocalsType
        /\ loc'[p].call = loc[p].call
        /\ loc'[p].rest = loc[p].rest
        /\ loc'[p].new = loc[p].new
        /\ loc'[p].cur = Null
        /\ loc'[p].ip = loc[p].ip
        /\ loc'[p].old = loc[p].old
    <3> DEFINE u == [cur |-> Null]
    <3>1. DOMAIN u = {"cur"} /\ u["cur"] = Null
      OBVIOUS
    <3>2. Locals(p, u)
      BY <2>2
    <3> HIDE DEF u
    <3>3. loc \in [Procs -> LocalsType] /\ loc[p] \in LocalsType
      BY <1>0, Before DEF ProcType
    <3>4. /\ loc' = [loc EXCEPT ![p] = loc'[p]]
          /\ loc'[p].call = loc[p].call
          /\ loc'[p].rest = loc[p].rest
          /\ loc'[p].new = loc[p].new
          /\ loc'[p].cur = Null
          /\ loc'[p].ip = loc[p].ip
          /\ loc'[p].old = loc[p].old
      BY <3>1, <3>2, <3>3, LocalsAre
    <3>5. Typed(loc'[p]) => loc'[p] \in LocalsType
      BY <3>2, <3>3, LocalsAre
    <3>6. Typed(loc[p])
      BY <3>3, LocalsTyped
    <3>7. Typed(loc'[p])
      BY <1>1, <3>4, <3>6 DEF Typed, MaybeInum
    <3>8. QED
      BY <3>3, <3>4, <3>5, <3>7
  <2>5. /\ loc'[p].call = loc[p].call
        /\ loc'[p].rest = loc[p].rest
        /\ loc'[p].new = loc[p].new
        /\ loc'[p].cur = Null
        /\ loc'[p].ip = loc[p].ip
        /\ loc'[p].old = loc[p].old
    BY <2>4
  <2>6. Moves(p)
    BY <1>0, <2>2, <2>3, <2>4, Unmoved DEF Moves, Put
  <2>7. ProcTypeOf(p)
    BY <1>1, <2>3, <2>4, Before, Constants DEF ProcTypeOf, Stations, MaybeInum
  <2>8. PlaceOK(p)'
    BY <1>0, <1>1, <2>3, <2>5 DEF PlaceOK, WantsParent
  <2>9. iref' \in [Inums -> Int]
    BY <1>0, <2>1 DEF TableType, Put
  <2>10. TableType' /\ RestType' /\ disk' \in Disks /\ stable' \in Disks
    BY <2>9, <1>core, <1>lock, <1>disk, <1>rest DEF TableType
  <2>11. Counts(p)
    <3> SUFFICES ASSUME NEW j \in Inums
                 PROVE  iref'[j] = iref[j] + PointersAre(p, j)' - PointersAre(p, j)
      BY DEF Counts
    <3>1. Found_in(puts[p], j) = 0
      BY <1>1, FoundIn
    <3>2. Found_in(puts'[p], j) = Is(d, j)
      BY <2>3, ListsOfPuts, Zenon
    <3>3. Found_in(puts'[p], j) \in Nat /\ iref[j] \in Int /\ j # Null
      BY <1>0, FoundIn DEF TableType
    <3>4. QED
      BY <1>0, <1>1, <2>1, <2>3, <2>5, <3>1, <3>2, <3>3 DEF PointersAre, B, Is, TableType, Put, MaybeInum
  <2>12. QED
    BY <2>6, <2>7, <2>8, <2>10, <2>11, StepBase

(* create() on a full disk *)
LEMMA CreateFailsBase ==
  ASSUME BaseInv, NEW p \in Procs, CreateFails(p)
  PROVE  BaseInv' /\ \A q \in Procs : q # p => Same(q)
<1> DEFINE d == loc[p].cur
           i == loc[p].ip
<1>0. FsTypeOK /\ PlaceOK(p) /\ ProcType /\ TableType /\ RestType /\ disk \in Disks /\ stable \in Disks
  BY Before
<1>1. /\ pc[p] = "init" /\ puts[p] = <<>> /\ freeing[p] = "no" /\ loc[p].cur \in Inums /\ loc[p].ip \in Inums
      /\ loc[p].old = Null /\ Len(loc[p].rest) = 1 /\ loc[p].call \in {"creat", "mkdir"}
  BY <1>0 DEF CreateFails, At, Found, FoundParent, PlaceOK, WantsParent, ProcType, LocalsType
<1>core. core' \in [Inums -> Copies]
  BY <1>0, <1>1, ilockType DEF CreateFails
<1>lock. lock' \in [Inums -> Procs \cup {NoProc}]
  BY <1>0, <1>1 DEF CreateFails, TableType, Put
<1>disk. disk' \in Disks /\ stable' \in Disks
  BY <1>0 DEF CreateFails
<1>rest. RestType'
  BY <1>0, <1>1, ilockType DEF CreateFails, RestType, aside
<1>q. QED
  <2>1. iref' = iref
    BY <1>1 DEF CreateFails, Leave, ThenPut, Goto, iget, Opened, NotFound, aside, table, local
  <2>2. /\ loc' = Put(loc, p, NoLocals)
        /\ puts' = Put(puts, p, <<ToUnlockPut(i), ToUnlockPut(d)>>)
        /\ pc' = Put(pc, p, "end")
        /\ fd' = fd
        /\ cwd' = cwd
        /\ freeing' = freeing
    BY <1>1 DEF CreateFails, Leave, ThenPut, Goto, iget, Opened, NotFound, aside, table, local
  <2>3. /\ loc'[p] = NoLocals /\ puts'[p] = <<ToUnlockPut(i), ToUnlockPut(d)>> /\ pc'[p] = "end" /\ cwd'[p] = cwd[p] /\ fd'[p] = fd[p]
        /\ freeing'[p] = "no"
    BY <1>0, <1>1, <2>2 DEF Put, ProcType
  <2>4. Moves(p)
    BY <1>0, <2>2, <2>3, Unmoved DEF Moves, Put
  <2>5. cwd'[p] \in Inums /\ fd'[p] \in MaybeInum
    BY <1>1, <2>3, Before, Constants DEF MaybeInum
  <2>6. puts'[p] \in Seq(ToPuts) /\ Len(puts'[p]) <= 2
    BY <1>1, <2>3, Before, ShortLists
  <2>7. Balanced(p)
    <3> SUFFICES ASSUME NEW j \in Inums
                 PROVE  Is(cwd'[p], j) + Is(fd'[p], j) + Found_in(puts'[p], j) = PointersAre(p, j)
      BY DEF Balanced
    <3>1. Found_in(puts[p], j) = 0
      BY <1>1, FoundIn
    <3>2. Found_in(puts'[p], j) = Is(i, j) + Is(d, j)
      BY <2>3, PairsOfPuts, Zenon
    <3>3. j # Null
      OBVIOUS
    <3>4. QED
      BY <1>1, <2>3, <3>1, <3>2, <3>3 DEF PointersAre, B, Is
  <2>8. QED
    BY <2>1, <2>3, <2>4, <2>5, <2>6, <2>7, <1>core, <1>lock, <1>disk, <1>rest, LeaveBase

(* create(), its end *)
LEMMA CreatedBase ==
  ASSUME BaseInv, NEW p \in Procs, Created(p)
  PROVE  BaseInv' /\ \A q \in Procs : q # p => Same(q)
<1> DEFINE i == loc[p].ip
<1>0. FsTypeOK /\ PlaceOK(p) /\ ProcType /\ TableType /\ RestType /\ disk \in Disks /\ stable \in Disks
  BY Before
<1>1. /\ pc[p] = "created" /\ puts[p] = <<>> /\ freeing[p] = "no" /\ loc[p].cur = Null /\ loc[p].ip \in Inums /\ loc[p].old = Null
  BY <1>0 DEF Created, At, Found, FoundParent, PlaceOK, WantsParent, ProcType, LocalsType
<1>core. core' \in [Inums -> Copies]
  BY <1>0 DEF Created, table, TableType
<1>lock. lock' \in [Inums -> Procs \cup {NoProc}]
  BY <1>0, <1>1 DEF Created, TableType, Put
<1>disk. disk' \in Disks /\ stable' \in Disks
  BY <1>0 DEF Created
<1>rest. RestType'
  BY <1>0 DEF Created, RestType, aside
<1>a. CASE loc[p].call = "creat" /\ fd[p] = Null
  <2>1. iref' = iref
    BY <1>a, <1>1 DEF Created, Leave, ThenPut, Goto, iget, Opened, NotFound, aside, table, local
  <2>2. /\ loc' = Put(loc, p, NoLocals)
        /\ puts' = Put(puts, p, <<>>)
        /\ pc' = Put(pc, p, "end")
        /\ fd' = Put(fd, p, i)
        /\ cwd' = cwd
        /\ freeing' = freeing
    BY <1>a, <1>1 DEF Created, Leave, ThenPut, Goto, iget, Opened, NotFound, aside, table, local
  <2>3. fd[p] = Null
    BY <1>a, <1>1 DEF MaybeInum
  <2>4. /\ loc'[p] = NoLocals /\ puts'[p] = <<>> /\ pc'[p] = "end" /\ cwd'[p] = cwd[p] /\ fd'[p] = i
        /\ freeing'[p] = "no"
    BY <1>0, <1>1, <2>2 DEF Put, ProcType
  <2>5. Moves(p)
    BY <1>0, <2>2, <2>4, Unmoved DEF Moves, Put
  <2>6. cwd'[p] \in Inums /\ fd'[p] \in MaybeInum
    BY <1>1, <2>4, Before, Constants DEF MaybeInum
  <2>7. puts'[p] \in Seq(ToPuts) /\ Len(puts'[p]) <= 2
    BY <2>4, ShortLists, Zenon
  <2>8. Balanced(p)
    <3> SUFFICES ASSUME NEW j \in Inums
                 PROVE  Is(cwd'[p], j) + Is(fd'[p], j) + Found_in(puts'[p], j) = PointersAre(p, j)
      BY DEF Balanced
    <3>1. Found_in(puts[p], j) = 0
      BY <1>1, FoundIn
    <3>2. Found_in(puts'[p], j) = 0
      BY <2>4, ListsOfPuts, Zenon
    <3>3. j # Null
      OBVIOUS
    <3>4. QED
      BY <2>3, <1>1, <2>4, <3>1, <3>2, <3>3 DEF PointersAre, B, Is
  <2>9. QED
    BY <2>1, <2>4, <2>5, <2>6, <2>7, <2>8, <1>core, <1>lock, <1>disk, <1>rest, LeaveBase
<1>b. CASE ~(loc[p].call = "creat" /\ fd[p] = Null)
  <2>1. iref' = iref
    BY <1>b, <1>1 DEF Created, Leave, ThenPut, Goto, iget, Opened, NotFound, aside, table, local
  <2>2. /\ loc' = Put(loc, p, NoLocals)
        /\ puts' = Put(puts, p, <<ToPut(i)>>)
        /\ pc' = Put(pc, p, "end")
        /\ fd' = fd
        /\ cwd' = cwd
        /\ freeing' = freeing
    BY <1>b, <1>1 DEF Created, Leave, ThenPut, Goto, iget, Opened, NotFound, aside, table, local
  <2>3. /\ loc'[p] = NoLocals /\ puts'[p] = <<ToPut(i)>> /\ pc'[p] = "end" /\ cwd'[p] = cwd[p] /\ fd'[p] = fd[p]
        /\ freeing'[p] = "no"
    BY <1>0, <1>1, <2>2 DEF Put, ProcType
  <2>4. Moves(p)
    BY <1>0, <2>2, <2>3, Unmoved DEF Moves, Put
  <2>5. cwd'[p] \in Inums /\ fd'[p] \in MaybeInum
    BY <1>1, <2>3, Before, Constants DEF MaybeInum
  <2>6. puts'[p] \in Seq(ToPuts) /\ Len(puts'[p]) <= 2
    BY <1>1, <2>3, Before, ShortLists
  <2>7. Balanced(p)
    <3> SUFFICES ASSUME NEW j \in Inums
                 PROVE  Is(cwd'[p], j) + Is(fd'[p], j) + Found_in(puts'[p], j) = PointersAre(p, j)
      BY DEF Balanced
    <3>1. Found_in(puts[p], j) = 0
      BY <1>1, FoundIn
    <3>2. Found_in(puts'[p], j) = Is(i, j)
      BY <2>3, ListsOfPuts, Zenon
    <3>3. j # Null
      OBVIOUS
    <3>4. QED
      BY <1>1, <2>3, <3>1, <3>2, <3>3 DEF PointersAre, B, Is
  <2>8. QED
    BY <2>1, <2>3, <2>4, <2>5, <2>6, <2>7, <1>core, <1>lock, <1>disk, <1>rest, LeaveBase
<1>q. QED
  BY <1>a, <1>b

(* unlink(), its look at the directory *)
LEMMA UnlinkLookupBase ==
  ASSUME BaseInv, NEW p \in Procs, UnlinkLookup(p)
  PROVE  BaseInv' /\ \A q \in Procs : q # p => Same(q)
<1> DEFINE d == loc[p].cur
           next == dirlookup(d, loc[p].rest[1])
<1>0. FsTypeOK /\ PlaceOK(p) /\ ProcType /\ TableType /\ RestType /\ disk \in Disks /\ stable \in Disks
  BY Before
<1>1. /\ pc[p] = "parent" /\ puts[p] = <<>> /\ freeing[p] = "no" /\ loc[p].cur \in Inums /\ loc[p].ip = Null
      /\ Len(loc[p].rest) = 1 /\ loc[p].rest[1] \in Elems
      /\ loc[p].old = Null /\ loc[p].call = "unlink"
  BY <1>0 DEF UnlinkLookup, At, Found, FoundParent, PlaceOK, WantsParent, ProcType, LocalsType
<1>2. next \in MaybeInum
  BY <1>0, <1>1 DEF dirlookup, FsTypeOK, Disks, Elems
<1> HIDE DEF next
<1>core. core' \in [Inums -> Copies]
  BY <1>0, <1>1, <1>2, ilockType DEF UnlinkLookup
<1>lock. lock' \in [Inums -> Procs \cup {NoProc}]
  BY <1>0, <1>1 DEF UnlinkLookup, TableType, Put
<1>disk. disk' \in Disks /\ stable' \in Disks
  BY <1>0 DEF UnlinkLookup
<1>rest. RestType'
  BY <1>0, <1>1, <1>2, ilockType DEF UnlinkLookup, RestType, aside
<1>a. CASE loc[p].rest[1] = ".." \/ next = Null
  <2>1. iref' = iref
    BY <1>a, <1>1, <1>2 DEF UnlinkLookup, Leave, ThenPut, Goto, iget, Opened, NotFound, aside, table, local, next
  <2>2. /\ loc' = Put(loc, p, NoLocals)
        /\ puts' = Put(puts, p, <<ToPut(d)>>)
        /\ pc' = Put(pc, p, "end")
        /\ fd' = fd
        /\ cwd' = cwd
        /\ freeing' = freeing
    BY <1>a, <1>1, <1>2 DEF UnlinkLookup, Leave, ThenPut, Goto, iget, Opened, NotFound, aside, table, local, next
  <2>3. /\ loc'[p] = NoLocals /\ puts'[p] = <<ToPut(d)>> /\ pc'[p] = "end" /\ cwd'[p] = cwd[p] /\ fd'[p] = fd[p]
        /\ freeing'[p] = "no"
    BY <1>0, <1>1, <1>2, <2>2 DEF Put, ProcType
  <2>4. Moves(p)
    BY <1>0, <2>2, <2>3, Unmoved DEF Moves, Put
  <2>5. cwd'[p] \in Inums /\ fd'[p] \in MaybeInum
    BY <1>1, <1>2, <2>3, Before, Constants DEF MaybeInum
  <2>6. puts'[p] \in Seq(ToPuts) /\ Len(puts'[p]) <= 2
    BY <1>1, <1>2, <2>3, Before, ShortLists
  <2>7. Balanced(p)
    <3> SUFFICES ASSUME NEW j \in Inums
                 PROVE  Is(cwd'[p], j) + Is(fd'[p], j) + Found_in(puts'[p], j) = PointersAre(p, j)
      BY DEF Balanced
    <3>1. Found_in(puts[p], j) = 0
      BY <1>1, <1>2, FoundIn
    <3>2. Found_in(puts'[p], j) = Is(d, j)
      BY <2>3, ListsOfPuts, Zenon
    <3>3. j # Null
      OBVIOUS
    <3>4. QED
      BY <1>1, <1>2, <2>3, <3>1, <3>2, <3>3 DEF PointersAre, B, Is
  <2>8. QED
    BY <2>1, <2>3, <2>4, <2>5, <2>6, <2>7, <1>core, <1>lock, <1>disk, <1>rest, LeaveBase
<1>b. CASE ~(loc[p].rest[1] = ".." \/ next = Null)
  <2>1. iref' = Put(iref, next, iref[next] + 1)
    BY <1>b, <1>1, <1>2 DEF UnlinkLookup, Leave, ThenPut, Goto, iget, Opened, NotFound, aside, table, local, next
  <2>2. /\ Locals(p, [ip |-> next])
        /\ puts' = puts
        /\ pc' = Put(pc, p, "unlink")
        /\ fd' = fd
        /\ cwd' = cwd
        /\ freeing' = freeing
    BY <1>b, <1>1, <1>2 DEF UnlinkLookup, Leave, ThenPut, Goto, iget, Opened, NotFound, aside, table, local, next
  <2>3. next \in Inums /\ loc[p].rest[1] \in Names
    BY <1>b, <1>1, <1>2 DEF MaybeInum, Elems
  <2>4. /\ puts'[p] = puts[p]
        /\ fd'[p] = fd[p]
        /\ cwd'[p] = cwd[p]
        /\ freeing'[p] = freeing[p]
        /\ pc'[p] = "unlink"
    BY <1>0, <2>2 DEF Put, ProcType
  <2>5. /\ loc' = [loc EXCEPT ![p] = loc'[p]] /\ loc'[p] \in LocalsType
        /\ loc'[p].call = loc[p].call
        /\ loc'[p].rest = loc[p].rest
        /\ loc'[p].new = loc[p].new
        /\ loc'[p].cur = loc[p].cur
        /\ loc'[p].ip = next
        /\ loc'[p].old = loc[p].old
    <3> DEFINE u == [ip |-> next]
    <3>1. DOMAIN u = {"ip"} /\ u["ip"] = next
      OBVIOUS
    <3>2. Locals(p, u)
      BY <2>2
    <3> HIDE DEF u
    <3>3. loc \in [Procs -> LocalsType] /\ loc[p] \in LocalsType
      BY <1>0, Before DEF ProcType
    <3>4. /\ loc' = [loc EXCEPT ![p] = loc'[p]]
          /\ loc'[p].call = loc[p].call
          /\ loc'[p].rest = loc[p].rest
          /\ loc'[p].new = loc[p].new
          /\ loc'[p].cur = loc[p].cur
          /\ loc'[p].ip = next
          /\ loc'[p].old = loc[p].old
      BY <3>1, <3>2, <3>3, LocalsAre
    <3>5. Typed(loc'[p]) => loc'[p] \in LocalsType
      BY <3>2, <3>3, LocalsAre
    <3>6. Typed(loc[p])
      BY <3>3, LocalsTyped
    <3>7. Typed(loc'[p])
      BY <2>3, <1>1, <1>2, <3>4, <3>6 DEF Typed, MaybeInum
    <3>8. QED
      BY <3>3, <3>4, <3>5, <3>7
  <2>6. /\ loc'[p].call = loc[p].call
        /\ loc'[p].rest = loc[p].rest
        /\ loc'[p].new = loc[p].new
        /\ loc'[p].cur = loc[p].cur
        /\ loc'[p].ip = next
        /\ loc'[p].old = loc[p].old
    BY <2>5
  <2>7. Moves(p)
    BY <1>0, <2>2, <2>4, <2>5, Unmoved DEF Moves, Put
  <2>8. ProcTypeOf(p)
    BY <2>3, <1>1, <1>2, <2>4, <2>5, Before, Constants DEF ProcTypeOf, Stations, MaybeInum
  <2>9. PlaceOK(p)'
    BY <1>0, <2>3, <1>1, <1>2, <2>4, <2>6 DEF PlaceOK, WantsParent
  <2>10. iref' \in [Inums -> Int]
    BY <1>0, <2>3, <1>1, <1>2, <2>1 DEF TableType, Put
  <2>11. TableType' /\ RestType' /\ disk' \in Disks /\ stable' \in Disks
    BY <2>10, <1>core, <1>lock, <1>disk, <1>rest DEF TableType
  <2>12. Counts(p)
    <3> SUFFICES ASSUME NEW j \in Inums
                 PROVE  iref'[j] = iref[j] + PointersAre(p, j)' - PointersAre(p, j)
      BY DEF Counts
    <3>1. Found_in(puts[p], j) = 0
      BY <1>1, <1>2, FoundIn
    <3>2. Found_in(puts'[p], j) = Found_in(puts[p], j)
      BY <1>1, <1>2, <2>4, TailOfPuts
    <3>3. Found_in(puts'[p], j) \in Nat /\ iref[j] \in Int /\ j # Null
      BY <1>0, FoundIn DEF TableType
    <3>4. QED
      BY <1>0, <2>3, <1>1, <1>2, <2>1, <2>4, <2>6, <3>1, <3>2, <3>3 DEF PointersAre, B, Is, TableType, Put, MaybeInum
  <2>13. QED
    BY <2>7, <2>8, <2>9, <2>11, <2>12, StepBase
<1>q. QED
  BY <1>a, <1>b

(* unlink() of a directory that is not empty *)
LEMMA UnlinkRefusedBase ==
  ASSUME BaseInv, NEW p \in Procs, UnlinkRefused(p)
  PROVE  BaseInv' /\ \A q \in Procs : q # p => Same(q)
<1> DEFINE d == loc[p].cur
           i == loc[p].ip
<1>0. FsTypeOK /\ PlaceOK(p) /\ ProcType /\ TableType /\ RestType /\ disk \in Disks /\ stable \in Disks
  BY Before
<1>1. /\ pc[p] = "unlink" /\ puts[p] = <<>> /\ freeing[p] = "no" /\ loc[p].cur \in Inums /\ loc[p].ip \in Inums
      /\ loc[p].old = Null /\ loc[p].call = "unlink" /\ Len(loc[p].rest) = 1 /\ loc[p].rest[1] \in Names
  BY <1>0 DEF UnlinkRefused, At, Found, FoundParent, PlaceOK, WantsParent, ProcType, LocalsType
<1>core. core' \in [Inums -> Copies]
  BY <1>0, <1>1, LoadedType DEF UnlinkRefused, TableType, Put
<1>lock. lock' \in [Inums -> Procs \cup {NoProc}]
  BY <1>0 DEF UnlinkRefused, table, TableType
<1>disk. disk' \in Disks /\ stable' \in Disks
  BY <1>0 DEF UnlinkRefused
<1>rest. RestType'
  BY <1>0 DEF UnlinkRefused, RestType, aside, NoType
<1>q. QED
  <2>1. iref' = iref
    BY <1>1 DEF UnlinkRefused, Leave, ThenPut, Goto, iget, Opened, NotFound, aside, table, local
  <2>2. /\ loc' = Put(loc, p, NoLocals)
        /\ puts' = Put(puts, p, <<ToPut(i), ToUnlockPut(d)>>)
        /\ pc' = Put(pc, p, "end")
        /\ fd' = fd
        /\ cwd' = cwd
        /\ freeing' = freeing
    BY <1>1 DEF UnlinkRefused, Leave, ThenPut, Goto, iget, Opened, NotFound, aside, table, local
  <2>3. /\ loc'[p] = NoLocals /\ puts'[p] = <<ToPut(i), ToUnlockPut(d)>> /\ pc'[p] = "end" /\ cwd'[p] = cwd[p] /\ fd'[p] = fd[p]
        /\ freeing'[p] = "no"
    BY <1>0, <1>1, <2>2 DEF Put, ProcType
  <2>4. Moves(p)
    BY <1>0, <2>2, <2>3, Unmoved DEF Moves, Put
  <2>5. cwd'[p] \in Inums /\ fd'[p] \in MaybeInum
    BY <1>1, <2>3, Before, Constants DEF MaybeInum
  <2>6. puts'[p] \in Seq(ToPuts) /\ Len(puts'[p]) <= 2
    BY <1>1, <2>3, Before, ShortLists
  <2>7. Balanced(p)
    <3> SUFFICES ASSUME NEW j \in Inums
                 PROVE  Is(cwd'[p], j) + Is(fd'[p], j) + Found_in(puts'[p], j) = PointersAre(p, j)
      BY DEF Balanced
    <3>1. Found_in(puts[p], j) = 0
      BY <1>1, FoundIn
    <3>2. Found_in(puts'[p], j) = Is(i, j) + Is(d, j)
      BY <2>3, PairsOfPuts, Zenon
    <3>3. j # Null
      OBVIOUS
    <3>4. QED
      BY <1>1, <2>3, <3>1, <3>2, <3>3 DEF PointersAre, B, Is
  <2>8. QED
    BY <2>1, <2>3, <2>4, <2>5, <2>6, <2>7, <1>core, <1>lock, <1>disk, <1>rest, LeaveBase

(* unlink() erases the entry *)
LEMMA UnlinkBase ==
  ASSUME BaseInv, NEW p \in Procs, Unlink(p)
  PROVE  BaseInv' /\ \A q \in Procs : q # p => Same(q)
<1> DEFINE d == loc[p].cur
           i == loc[p].ip
           n == IF Loaded(i).type = "dir" THEN core[d].nlink - 1 ELSE core[d].nlink
<1>0. FsTypeOK /\ PlaceOK(p) /\ ProcType /\ TableType /\ RestType /\ disk \in Disks /\ stable \in Disks
  BY Before
<1>1. /\ pc[p] = "unlink" /\ puts[p] = <<>> /\ freeing[p] = "no" /\ loc[p].cur \in Inums /\ loc[p].ip \in Inums
      /\ loc[p].old = Null /\ loc[p].call = "unlink" /\ Len(loc[p].rest) = 1 /\ loc[p].rest[1] \in Names
  BY <1>0 DEF Unlink, At, Found, FoundParent, PlaceOK, WantsParent, ProcType, LocalsType
<1>n. n \in Int
  BY <1>0, <1>1 DEF TableType, Copies
<1>k. Loaded(i) \in Copies
  BY <1>0, <1>1, LoadedType
<1>core. core' \in [Inums -> Copies]
  <2> DEFINE c == [core EXCEPT ![i] = Loaded(i)]
  <2>1. c \in [Inums -> Copies]
    BY <1>0, <1>k DEF TableType
  <2>2. core' = [c EXCEPT ![d] = [c[d] EXCEPT !.nlink = n]]
    BY DEF Unlink
  <2> HIDE DEF c, n
  <2>3. [c[d] EXCEPT !.nlink = n] \in Copies
    BY <1>1, <1>n, <2>1, CopyType
  <2>4. QED
    BY <2>1, <2>2, <2>3
<1>lock. lock' \in [Inums -> Procs \cup {NoProc}]
  BY <1>0, <1>1 DEF Unlink, TableType, Put
<1>disk. disk' \in Disks /\ stable' \in Disks
  <2>1. SetLinks(disk, d, n) \in Disks
    BY <1>0, <1>n, SetLinksType
  <2>2. [SetLinks(disk, d, n) EXCEPT !.ent[d][loc[p].rest[1]] = Null] \in Disks
    BY <2>1, SetEntryType DEF MaybeInum
  <2>3. QED
    BY <1>0, <2>2 DEF Unlink
<1>rest. RestType'
  BY <1>0 DEF Unlink, RestType, aside, NoType
<1>q. QED
  <2>1. iref' = iref
    BY <1>1 DEF Unlink, Leave, ThenPut, Goto, iget, Opened, NotFound, aside, table, local
  <2>2. /\ Locals(p, [cur |-> Null])
        /\ puts' = Put(puts, p, <<ToUnlockPut(d)>>)
        /\ pc' = Put(pc, p, "unlinked")
        /\ fd' = fd
        /\ cwd' = cwd
        /\ freeing' = freeing
    BY <1>1 DEF Unlink, Leave, ThenPut, Goto, iget, Opened, NotFound, aside, table, local
  <2>3. /\ puts'[p] = <<ToUnlockPut(d)>>
        /\ fd'[p] = fd[p]
        /\ cwd'[p] = cwd[p]
        /\ freeing'[p] = freeing[p]
        /\ pc'[p] = "unlinked"
    BY <1>0, <2>2 DEF Put, ProcType
  <2>4. /\ loc' = [loc EXCEPT ![p] = loc'[p]] /\ loc'[p] \in LocalsType
        /\ loc'[p].call = loc[p].call
        /\ loc'[p].rest = loc[p].rest
        /\ loc'[p].new = loc[p].new
        /\ loc'[p].cur = Null
        /\ loc'[p].ip = loc[p].ip
        /\ loc'[p].old = loc[p].old
    <3> DEFINE u == [cur |-> Null]
    <3>1. DOMAIN u = {"cur"} /\ u["cur"] = Null
      OBVIOUS
    <3>2. Locals(p, u)
      BY <2>2
    <3> HIDE DEF u
    <3>3. loc \in [Procs -> LocalsType] /\ loc[p] \in LocalsType
      BY <1>0, Before DEF ProcType
    <3>4. /\ loc' = [loc EXCEPT ![p] = loc'[p]]
          /\ loc'[p].call = loc[p].call
          /\ loc'[p].rest = loc[p].rest
          /\ loc'[p].new = loc[p].new
          /\ loc'[p].cur = Null
          /\ loc'[p].ip = loc[p].ip
          /\ loc'[p].old = loc[p].old
      BY <3>1, <3>2, <3>3, LocalsAre
    <3>5. Typed(loc'[p]) => loc'[p] \in LocalsType
      BY <3>2, <3>3, LocalsAre
    <3>6. Typed(loc[p])
      BY <3>3, LocalsTyped
    <3>7. Typed(loc'[p])
      BY <1>1, <3>4, <3>6 DEF Typed, MaybeInum
    <3>8. QED
      BY <3>3, <3>4, <3>5, <3>7
  <2>5. /\ loc'[p].call = loc[p].call
        /\ loc'[p].rest = loc[p].rest
        /\ loc'[p].new = loc[p].new
        /\ loc'[p].cur = Null
        /\ loc'[p].ip = loc[p].ip
        /\ loc'[p].old = loc[p].old
    BY <2>4
  <2>6. Moves(p)
    BY <1>0, <2>2, <2>3, <2>4, Unmoved DEF Moves, Put
  <2>7. ProcTypeOf(p)
    BY <1>1, <2>3, <2>4, Before, Constants DEF ProcTypeOf, Stations, MaybeInum
  <2>8. PlaceOK(p)'
    BY <1>0, <1>1, <2>3, <2>5 DEF PlaceOK, WantsParent
  <2>9. iref' \in [Inums -> Int]
    BY <1>0, <2>1 DEF TableType, Put
  <2>10. TableType' /\ RestType' /\ disk' \in Disks /\ stable' \in Disks
    BY <2>9, <1>core, <1>lock, <1>disk, <1>rest DEF TableType
  <2>11. Counts(p)
    <3> SUFFICES ASSUME NEW j \in Inums
                 PROVE  iref'[j] = iref[j] + PointersAre(p, j)' - PointersAre(p, j)
      BY DEF Counts
    <3>1. Found_in(puts[p], j) = 0
      BY <1>1, FoundIn
    <3>2. Found_in(puts'[p], j) = Is(d, j)
      BY <2>3, ListsOfPuts, Zenon
    <3>3. Found_in(puts'[p], j) \in Nat /\ iref[j] \in Int /\ j # Null
      BY <1>0, FoundIn DEF TableType
    <3>4. QED
      BY <1>0, <1>1, <2>1, <2>3, <2>5, <3>1, <3>2, <3>3 DEF PointersAre, B, Is, TableType, Put, MaybeInum
  <2>12. QED
    BY <2>6, <2>7, <2>8, <2>10, <2>11, StepBase

(* unlink() takes the link away *)
LEMMA UnlinkedBase ==
  ASSUME BaseInv, NEW p \in Procs, Unlinked(p)
  PROVE  BaseInv' /\ \A q \in Procs : q # p => Same(q)
<1> DEFINE i == loc[p].ip
           n == core[i].nlink - 1
<1>0. FsTypeOK /\ PlaceOK(p) /\ ProcType /\ TableType /\ RestType /\ disk \in Disks /\ stable \in Disks
  BY Before
<1>1. /\ pc[p] = "unlinked" /\ puts[p] = <<>> /\ freeing[p] = "no" /\ loc[p].cur = Null /\ loc[p].ip \in Inums /\ loc[p].old = Null
  BY <1>0 DEF Unlinked, At, Found, FoundParent, PlaceOK, WantsParent, ProcType, LocalsType
<1>n. n \in Int
  BY <1>0, <1>1 DEF TableType, Copies
<1> HIDE DEF n
<1>core. core' \in [Inums -> Copies]
  <2>1. core' = [core EXCEPT ![i] = [core[i] EXCEPT !.nlink = n]]
    BY DEF Unlinked, n
  <2>2. [core[i] EXCEPT !.nlink = n] \in Copies
    BY <1>0, <1>1, <1>n, CopyType DEF TableType
  <2>3. QED
    BY <1>0, <2>1, <2>2 DEF TableType
<1>lock. lock' \in [Inums -> Procs \cup {NoProc}]
  BY <1>0 DEF Unlinked, table, TableType
<1>disk. disk' \in Disks /\ stable' \in Disks
  BY <1>0, <1>n, SetLinksType DEF Unlinked, n
<1>rest. RestType'
  BY <1>0 DEF Unlinked, RestType, aside
<1>q. QED
  <2>1. iref' = iref
    BY <1>1 DEF Unlinked, Leave, ThenPut, Goto, iget, Opened, NotFound, aside, table, local
  <2>2. /\ loc' = Put(loc, p, NoLocals)
        /\ puts' = Put(puts, p, <<ToUnlockPut(i)>>)
        /\ pc' = Put(pc, p, "end")
        /\ fd' = fd
        /\ cwd' = cwd
        /\ freeing' = freeing
    BY <1>1 DEF Unlinked, Leave, ThenPut, Goto, iget, Opened, NotFound, aside, table, local
  <2>3. /\ loc'[p] = NoLocals /\ puts'[p] = <<ToUnlockPut(i)>> /\ pc'[p] = "end" /\ cwd'[p] = cwd[p] /\ fd'[p] = fd[p]
        /\ freeing'[p] = "no"
    BY <1>0, <1>1, <2>2 DEF Put, ProcType
  <2>4. Moves(p)
    BY <1>0, <2>2, <2>3, Unmoved DEF Moves, Put
  <2>5. cwd'[p] \in Inums /\ fd'[p] \in MaybeInum
    BY <1>1, <2>3, Before, Constants DEF MaybeInum
  <2>6. puts'[p] \in Seq(ToPuts) /\ Len(puts'[p]) <= 2
    BY <1>1, <2>3, Before, ShortLists
  <2>7. Balanced(p)
    <3> SUFFICES ASSUME NEW j \in Inums
                 PROVE  Is(cwd'[p], j) + Is(fd'[p], j) + Found_in(puts'[p], j) = PointersAre(p, j)
      BY DEF Balanced
    <3>1. Found_in(puts[p], j) = 0
      BY <1>1, FoundIn
    <3>2. Found_in(puts'[p], j) = Is(i, j)
      BY <2>3, ListsOfPuts, Zenon
    <3>3. j # Null
      OBVIOUS
    <3>4. QED
      BY <1>1, <2>3, <3>1, <3>2, <3>3 DEF PointersAre, B, Is
  <2>8. QED
    BY <2>1, <2>3, <2>4, <2>5, <2>6, <2>7, <1>core, <1>lock, <1>disk, <1>rest, LeaveBase

(* link(), its first path *)
LEMMA LinkOldBase ==
  ASSUME BaseInv, NEW p \in Procs, LinkOld(p)
  PROVE  BaseInv' /\ \A q \in Procs : q # p => Same(q)
<1> DEFINE i == loc[p].cur
           n == Loaded(i).nlink + 1
           s == Start(p, loc[p].new[1])
           e == loc[p].new[1].elems
<1>0. FsTypeOK /\ PlaceOK(p) /\ ProcType /\ TableType /\ RestType /\ disk \in Disks /\ stable \in Disks
  BY Before
<1>1. /\ pc[p] = "walk" /\ puts[p] = <<>> /\ freeing[p] = "no" /\ loc[p].cur \in Inums /\ loc[p].ip = Null /\ loc[p].old = Null
      /\ loc[p].call = "link" /\ loc[p].new \in Seq(Paths) /\ loc[p].new # <<>>
  BY <1>0 DEF LinkOld, At, Found, FoundParent, PlaceOK, WantsParent, ProcType, LocalsType
<1>2. s \in Inums /\ e \in Seq(Elems)
  <2>1. loc[p].new[1] \in Paths
    BY <1>1
  <2>2. QED
    BY <1>0, <2>1 DEF Start, ProcType, Paths, Elems
<1>k. Loaded(i) \in Copies
  BY <1>0, <1>1, LoadedType
<1>n. n \in Int
  BY <1>k DEF Copies
<1> HIDE DEF n, s, e
<1>core. core' \in [Inums -> Copies]
  <2>1. [Loaded(i) EXCEPT !.nlink = n] \in Copies
    BY <1>k, <1>n, CopyType
  <2>2. core' = Put(core, i, Loaded(i)) \/ core' = Put(core, i, [Loaded(i) EXCEPT !.nlink = n])
    BY DEF LinkOld, n
  <2>3. QED
    BY <1>0, <1>1, <1>k, <2>1, <2>2 DEF TableType, Put
<1>lock. lock' \in [Inums -> Procs \cup {NoProc}]
  BY <1>0 DEF LinkOld, table, TableType
<1>disk. disk' \in Disks /\ stable' \in Disks
  BY <1>0, <1>n, SetLinksType DEF LinkOld, n
<1>rest. RestType'
  BY <1>0 DEF LinkOld, RestType, aside, NoType
<1>a. CASE Loaded(i).type = "dir"
  <2>1. iref' = iref
    BY <1>a, <1>1, <1>2 DEF LinkOld, Leave, ThenPut, Goto, iget, Opened, NotFound, aside, table, local, s, e
  <2>2. /\ loc' = Put(loc, p, NoLocals)
        /\ puts' = Put(puts, p, <<ToPut(i)>>)
        /\ pc' = Put(pc, p, "end")
        /\ fd' = fd
        /\ cwd' = cwd
        /\ freeing' = freeing
    BY <1>a, <1>1, <1>2 DEF LinkOld, Leave, ThenPut, Goto, iget, Opened, NotFound, aside, table, local, s, e
  <2>3. /\ loc'[p] = NoLocals /\ puts'[p] = <<ToPut(i)>> /\ pc'[p] = "end" /\ cwd'[p] = cwd[p] /\ fd'[p] = fd[p]
        /\ freeing'[p] = "no"
    BY <1>0, <1>1, <1>2, <2>2 DEF Put, ProcType
  <2>4. Moves(p)
    BY <1>0, <2>2, <2>3, Unmoved DEF Moves, Put
  <2>5. cwd'[p] \in Inums /\ fd'[p] \in MaybeInum
    BY <1>1, <1>2, <2>3, Before, Constants DEF MaybeInum
  <2>6. puts'[p] \in Seq(ToPuts) /\ Len(puts'[p]) <= 2
    BY <1>1, <1>2, <2>3, Before, ShortLists
  <2>7. Balanced(p)
    <3> SUFFICES ASSUME NEW j \in Inums
                 PROVE  Is(cwd'[p], j) + Is(fd'[p], j) + Found_in(puts'[p], j) = PointersAre(p, j)
      BY DEF Balanced
    <3>1. Found_in(puts[p], j) = 0
      BY <1>1, <1>2, FoundIn
    <3>2. Found_in(puts'[p], j) = Is(i, j)
      BY <2>3, ListsOfPuts, Zenon
    <3>3. j # Null
      OBVIOUS
    <3>4. QED
      BY <1>1, <1>2, <2>3, <3>1, <3>2, <3>3 DEF PointersAre, B, Is
  <2>8. QED
    BY <2>1, <2>3, <2>4, <2>5, <2>6, <2>7, <1>core, <1>lock, <1>disk, <1>rest, LeaveBase
<1>b. CASE Loaded(i).type # "dir"
  <2>1. iref' = Put(iref, s, iref[s] + 1)
    BY <1>b, <1>1, <1>2 DEF LinkOld, Leave, ThenPut, Goto, iget, Opened, NotFound, aside, table, local, s, e
  <2>2. /\ Locals(p, [old |-> i, cur |-> s, rest |-> e])
        /\ puts' = puts
        /\ pc' = pc
        /\ fd' = fd
        /\ cwd' = cwd
        /\ freeing' = freeing
    BY <1>b, <1>1, <1>2 DEF LinkOld, Leave, ThenPut, Goto, iget, Opened, NotFound, aside, table, local, s, e
  <2>3. /\ puts'[p] = puts[p]
        /\ pc'[p] = pc[p]
        /\ fd'[p] = fd[p]
        /\ cwd'[p] = cwd[p]
        /\ freeing'[p] = freeing[p]
    BY <1>0, <2>2 DEF Put, ProcType
  <2>4. /\ loc' = [loc EXCEPT ![p] = loc'[p]] /\ loc'[p] \in LocalsType
        /\ loc'[p].call = loc[p].call
        /\ loc'[p].rest = e
        /\ loc'[p].new = loc[p].new
        /\ loc'[p].cur = s
        /\ loc'[p].ip = loc[p].ip
        /\ loc'[p].old = i
    <3> DEFINE u == [old |-> i, cur |-> s, rest |-> e]
    <3>1. DOMAIN u = {"old", "cur", "rest"} /\ u["old"] = i /\ u["cur"] = s /\ u["rest"] = e
      OBVIOUS
    <3>2. Locals(p, u)
      BY <2>2
    <3> HIDE DEF u
    <3>3. loc \in [Procs -> LocalsType] /\ loc[p] \in LocalsType
      BY <1>0, Before DEF ProcType
    <3>4. /\ loc' = [loc EXCEPT ![p] = loc'[p]]
          /\ loc'[p].call = loc[p].call
          /\ loc'[p].rest = e
          /\ loc'[p].new = loc[p].new
          /\ loc'[p].cur = s
          /\ loc'[p].ip = loc[p].ip
          /\ loc'[p].old = i
      BY <3>1, <3>2, <3>3, LocalsAre
    <3>5. Typed(loc'[p]) => loc'[p] \in LocalsType
      BY <3>2, <3>3, LocalsAre
    <3>6. Typed(loc[p])
      BY <3>3, LocalsTyped
    <3>7. Typed(loc'[p])
      BY <1>1, <1>2, <3>4, <3>6 DEF Typed, MaybeInum
    <3>8. QED
      BY <3>3, <3>4, <3>5, <3>7
  <2>5. /\ loc'[p].call = loc[p].call
        /\ loc'[p].rest = e
        /\ loc'[p].new = loc[p].new
        /\ loc'[p].cur = s
        /\ loc'[p].ip = loc[p].ip
        /\ loc'[p].old = i
    BY <2>4
  <2>6. Moves(p)
    BY <1>0, <2>2, <2>3, <2>4, Unmoved DEF Moves, Put
  <2>7. ProcTypeOf(p)
    BY <1>1, <1>2, <2>3, <2>4, Before, Constants DEF ProcTypeOf, Stations, MaybeInum
  <2>8. PlaceOK(p)'
    BY <1>0, <1>1, <1>2, <2>3, <2>5 DEF PlaceOK, WantsParent
  <2>9. iref' \in [Inums -> Int]
    BY <1>0, <1>1, <1>2, <2>1 DEF TableType, Put
  <2>10. TableType' /\ RestType' /\ disk' \in Disks /\ stable' \in Disks
    BY <2>9, <1>core, <1>lock, <1>disk, <1>rest DEF TableType
  <2>11. Counts(p)
    <3> SUFFICES ASSUME NEW j \in Inums
                 PROVE  iref'[j] = iref[j] + PointersAre(p, j)' - PointersAre(p, j)
      BY DEF Counts
    <3>1. Found_in(puts[p], j) = 0
      BY <1>1, <1>2, FoundIn
    <3>2. Found_in(puts'[p], j) = Found_in(puts[p], j)
      BY <1>1, <1>2, <2>3, TailOfPuts
    <3>3. Found_in(puts'[p], j) \in Nat /\ iref[j] \in Int /\ j # Null
      BY <1>0, FoundIn DEF TableType
    <3>4. QED
      BY <1>0, <1>1, <1>2, <2>1, <2>3, <2>5, <3>1, <3>2, <3>3 DEF PointersAre, B, Is, TableType, Put, MaybeInum
  <2>12. QED
    BY <2>6, <2>7, <2>8, <2>10, <2>11, StepBase
<1>q. QED
  BY <1>a, <1>b

(* link(), the new name *)
LEMMA LinkNewBase ==
  ASSUME BaseInv, NEW p \in Procs, LinkNew(p)
  PROVE  BaseInv' /\ \A q \in Procs : q # p => Same(q)
<1> DEFINE d == loc[p].cur
           i == loc[p].old
<1>0. FsTypeOK /\ PlaceOK(p) /\ ProcType /\ TableType /\ RestType /\ disk \in Disks /\ stable \in Disks
  BY Before
<1>1. /\ pc[p] = "parent" /\ puts[p] = <<>> /\ freeing[p] = "no" /\ loc[p].cur \in Inums /\ loc[p].ip = Null /\ loc[p].old \in Inums
      /\ Len(loc[p].rest) = 1 /\ loc[p].rest[1] \in Elems
      /\ loc[p].call = "link"
  <2>1. /\ pc[p] = "parent" /\ puts[p] = <<>> /\ freeing[p] = "no" /\ loc[p].cur \in Inums /\ loc[p].ip = Null
            /\ Len(loc[p].rest) = 1 /\ loc[p].rest[1] \in Elems
          /\ loc[p].old \in MaybeInum /\ loc[p].call = "link" /\ WantsParent(p)
    BY <1>0 DEF LinkNew, At, Found, FoundParent, PlaceOK, WantsParent, ProcType, LocalsType
  <2>2. QED
    BY <2>1 DEF WantsParent, MaybeInum
<1>core. core' \in [Inums -> Copies]
  BY <1>0, <1>1, ilockType DEF LinkNew
<1>lock. lock' \in [Inums -> Procs \cup {NoProc}]
  BY <1>0 DEF LinkNew, table, TableType
<1>disk. disk' \in Disks /\ stable' \in Disks
  <2>1. [disk EXCEPT !.ent[d][loc[p].rest[1]] = i] \in Disks
    BY <1>0, <1>1, SetEntryType DEF MaybeInum
  <2>2. QED
    BY <1>0, <2>1 DEF LinkNew
<1>rest. RestType'
  BY <1>0, <1>1, ilockType DEF LinkNew, RestType, aside
<1>q. QED
  <2>1. iref' = iref
    BY <1>1 DEF LinkNew, Leave, ThenPut, Goto, iget, Opened, NotFound, aside, table, local
  <2>2. /\ loc' = Put(loc, p, NoLocals)
        /\ puts' = Put(puts, p, <<ToPut(d), ToPut(i)>>)
        /\ pc' = Put(pc, p, "end")
        /\ fd' = fd
        /\ cwd' = cwd
        /\ freeing' = freeing
    BY <1>1 DEF LinkNew, Leave, ThenPut, Goto, iget, Opened, NotFound, aside, table, local
  <2>3. /\ loc'[p] = NoLocals /\ puts'[p] = <<ToPut(d), ToPut(i)>> /\ pc'[p] = "end" /\ cwd'[p] = cwd[p] /\ fd'[p] = fd[p]
        /\ freeing'[p] = "no"
    BY <1>0, <1>1, <2>2 DEF Put, ProcType
  <2>4. Moves(p)
    BY <1>0, <2>2, <2>3, Unmoved DEF Moves, Put
  <2>5. cwd'[p] \in Inums /\ fd'[p] \in MaybeInum
    BY <1>1, <2>3, Before, Constants DEF MaybeInum
  <2>6. puts'[p] \in Seq(ToPuts) /\ Len(puts'[p]) <= 2
    BY <1>1, <2>3, Before, ShortLists
  <2>7. Balanced(p)
    <3> SUFFICES ASSUME NEW j \in Inums
                 PROVE  Is(cwd'[p], j) + Is(fd'[p], j) + Found_in(puts'[p], j) = PointersAre(p, j)
      BY DEF Balanced
    <3>1. Found_in(puts[p], j) = 0
      BY <1>1, FoundIn
    <3>2. Found_in(puts'[p], j) = Is(d, j) + Is(i, j)
      BY <2>3, PairsOfPuts, Zenon
    <3>3. j # Null
      OBVIOUS
    <3>4. QED
      BY <1>1, <2>3, <3>1, <3>2, <3>3 DEF PointersAre, B, Is
  <2>8. QED
    BY <2>1, <2>3, <2>4, <2>5, <2>6, <2>7, <1>core, <1>lock, <1>disk, <1>rest, LeaveBase

(* link(), a name that exists or a full disk *)
LEMMA LinkFailsBase ==
  ASSUME BaseInv, NEW p \in Procs, LinkFails(p)
  PROVE  BaseInv' /\ \A q \in Procs : q # p => Same(q)
<1> DEFINE d == loc[p].cur
           next == dirlookup(d, loc[p].rest[1])
<1>0. FsTypeOK /\ PlaceOK(p) /\ ProcType /\ TableType /\ RestType /\ disk \in Disks /\ stable \in Disks
  BY Before
<1>1. /\ pc[p] = "parent" /\ puts[p] = <<>> /\ freeing[p] = "no" /\ loc[p].cur \in Inums /\ loc[p].ip = Null /\ loc[p].old \in Inums
      /\ Len(loc[p].rest) = 1 /\ loc[p].rest[1] \in Elems
      /\ loc[p].call = "link"
  <2>1. /\ pc[p] = "parent" /\ puts[p] = <<>> /\ freeing[p] = "no" /\ loc[p].cur \in Inums /\ loc[p].ip = Null
            /\ Len(loc[p].rest) = 1 /\ loc[p].rest[1] \in Elems
          /\ loc[p].old \in MaybeInum /\ loc[p].call = "link" /\ WantsParent(p)
    BY <1>0 DEF LinkFails, At, Found, FoundParent, PlaceOK, WantsParent, ProcType, LocalsType
  <2>2. QED
    BY <2>1 DEF WantsParent, MaybeInum
<1>2. next \in MaybeInum
  BY <1>0, <1>1 DEF dirlookup, FsTypeOK, Disks, Elems
<1> HIDE DEF next
<1>core. core' \in [Inums -> Copies]
  BY <1>0, <1>1, <1>2, ilockType DEF LinkFails
<1>lock. lock' \in [Inums -> Procs \cup {NoProc}]
  BY <1>0, <1>1 DEF LinkFails, TableType, Put
<1>disk. disk' \in Disks /\ stable' \in Disks
  BY <1>0 DEF LinkFails
<1>rest. RestType'
  BY <1>0, <1>1, <1>2, ilockType DEF LinkFails, RestType, aside
<1>a. CASE next = Null
  <2>1. iref' = iref
    BY <1>a, <1>1, <1>2 DEF LinkFails, Leave, ThenPut, Goto, iget, Opened, NotFound, aside, table, local, next
  <2>2. /\ Locals(p, [cur |-> Null])
        /\ puts' = Put(puts, p, <<ToPut(d)>>)
        /\ pc' = Put(pc, p, "undo_link")
        /\ fd' = fd
        /\ cwd' = cwd
        /\ freeing' = freeing
    BY <1>a, <1>1, <1>2 DEF LinkFails, Leave, ThenPut, Goto, iget, Opened, NotFound, aside, table, local, next
  <2>3. /\ puts'[p] = <<ToPut(d)>>
        /\ fd'[p] = fd[p]
        /\ cwd'[p] = cwd[p]
        /\ freeing'[p] = freeing[p]
        /\ pc'[p] = "undo_link"
    BY <1>0, <2>2 DEF Put, ProcType
  <2>4. /\ loc' = [loc EXCEPT ![p] = loc'[p]] /\ loc'[p] \in LocalsType
        /\ loc'[p].call = loc[p].call
        /\ loc'[p].rest = loc[p].rest
        /\ loc'[p].new = loc[p].new
        /\ loc'[p].cur = Null
        /\ loc'[p].ip = loc[p].ip
        /\ loc'[p].old = loc[p].old
    <3> DEFINE u == [cur |-> Null]
    <3>1. DOMAIN u = {"cur"} /\ u["cur"] = Null
      OBVIOUS
    <3>2. Locals(p, u)
      BY <2>2
    <3> HIDE DEF u
    <3>3. loc \in [Procs -> LocalsType] /\ loc[p] \in LocalsType
      BY <1>0, Before DEF ProcType
    <3>4. /\ loc' = [loc EXCEPT ![p] = loc'[p]]
          /\ loc'[p].call = loc[p].call
          /\ loc'[p].rest = loc[p].rest
          /\ loc'[p].new = loc[p].new
          /\ loc'[p].cur = Null
          /\ loc'[p].ip = loc[p].ip
          /\ loc'[p].old = loc[p].old
      BY <3>1, <3>2, <3>3, LocalsAre
    <3>5. Typed(loc'[p]) => loc'[p] \in LocalsType
      BY <3>2, <3>3, LocalsAre
    <3>6. Typed(loc[p])
      BY <3>3, LocalsTyped
    <3>7. Typed(loc'[p])
      BY <1>1, <1>2, <3>4, <3>6 DEF Typed, MaybeInum
    <3>8. QED
      BY <3>3, <3>4, <3>5, <3>7
  <2>5. /\ loc'[p].call = loc[p].call
        /\ loc'[p].rest = loc[p].rest
        /\ loc'[p].new = loc[p].new
        /\ loc'[p].cur = Null
        /\ loc'[p].ip = loc[p].ip
        /\ loc'[p].old = loc[p].old
    BY <2>4
  <2>6. Moves(p)
    BY <1>0, <2>2, <2>3, <2>4, Unmoved DEF Moves, Put
  <2>7. ProcTypeOf(p)
    BY <1>1, <1>2, <2>3, <2>4, Before, Constants DEF ProcTypeOf, Stations, MaybeInum
  <2>8. PlaceOK(p)'
    BY <1>0, <1>1, <1>2, <2>3, <2>5 DEF PlaceOK, WantsParent
  <2>9. iref' \in [Inums -> Int]
    BY <1>0, <2>1 DEF TableType, Put
  <2>10. TableType' /\ RestType' /\ disk' \in Disks /\ stable' \in Disks
    BY <2>9, <1>core, <1>lock, <1>disk, <1>rest DEF TableType
  <2>11. Counts(p)
    <3> SUFFICES ASSUME NEW j \in Inums
                 PROVE  iref'[j] = iref[j] + PointersAre(p, j)' - PointersAre(p, j)
      BY DEF Counts
    <3>1. Found_in(puts[p], j) = 0
      BY <1>1, <1>2, FoundIn
    <3>2. Found_in(puts'[p], j) = Is(d, j)
      BY <2>3, ListsOfPuts, Zenon
    <3>3. Found_in(puts'[p], j) \in Nat /\ iref[j] \in Int /\ j # Null
      BY <1>0, FoundIn DEF TableType
    <3>4. QED
      BY <1>0, <1>1, <1>2, <2>1, <2>3, <2>5, <3>1, <3>2, <3>3 DEF PointersAre, B, Is, TableType, Put, MaybeInum
  <2>12. QED
    BY <2>6, <2>7, <2>8, <2>10, <2>11, StepBase
<1>b. CASE next # Null
  <2>1. iref' = Put(iref, next, iref[next] + 1)
    BY <1>b, <1>1, <1>2 DEF LinkFails, Leave, ThenPut, Goto, iget, Opened, NotFound, aside, table, local, next
  <2>2. /\ Locals(p, [cur |-> Null])
        /\ puts' = Put(puts, p, <<ToPut(next), ToUnlockPut(d)>>)
        /\ pc' = Put(pc, p, "undo_link")
        /\ fd' = fd
        /\ cwd' = cwd
        /\ freeing' = freeing
    BY <1>b, <1>1, <1>2 DEF LinkFails, Leave, ThenPut, Goto, iget, Opened, NotFound, aside, table, local, next
  <2>3. next \in Inums
    BY <1>b, <1>1, <1>2 DEF MaybeInum
  <2>4. /\ puts'[p] = <<ToPut(next), ToUnlockPut(d)>>
        /\ fd'[p] = fd[p]
        /\ cwd'[p] = cwd[p]
        /\ freeing'[p] = freeing[p]
        /\ pc'[p] = "undo_link"
    BY <1>0, <2>2 DEF Put, ProcType
  <2>5. /\ loc' = [loc EXCEPT ![p] = loc'[p]] /\ loc'[p] \in LocalsType
        /\ loc'[p].call = loc[p].call
        /\ loc'[p].rest = loc[p].rest
        /\ loc'[p].new = loc[p].new
        /\ loc'[p].cur = Null
        /\ loc'[p].ip = loc[p].ip
        /\ loc'[p].old = loc[p].old
    <3> DEFINE u == [cur |-> Null]
    <3>1. DOMAIN u = {"cur"} /\ u["cur"] = Null
      OBVIOUS
    <3>2. Locals(p, u)
      BY <2>2
    <3> HIDE DEF u
    <3>3. loc \in [Procs -> LocalsType] /\ loc[p] \in LocalsType
      BY <1>0, Before DEF ProcType
    <3>4. /\ loc' = [loc EXCEPT ![p] = loc'[p]]
          /\ loc'[p].call = loc[p].call
          /\ loc'[p].rest = loc[p].rest
          /\ loc'[p].new = loc[p].new
          /\ loc'[p].cur = Null
          /\ loc'[p].ip = loc[p].ip
          /\ loc'[p].old = loc[p].old
      BY <3>1, <3>2, <3>3, LocalsAre
    <3>5. Typed(loc'[p]) => loc'[p] \in LocalsType
      BY <3>2, <3>3, LocalsAre
    <3>6. Typed(loc[p])
      BY <3>3, LocalsTyped
    <3>7. Typed(loc'[p])
      BY <2>3, <1>1, <1>2, <3>4, <3>6 DEF Typed, MaybeInum
    <3>8. QED
      BY <3>3, <3>4, <3>5, <3>7
  <2>6. /\ loc'[p].call = loc[p].call
        /\ loc'[p].rest = loc[p].rest
        /\ loc'[p].new = loc[p].new
        /\ loc'[p].cur = Null
        /\ loc'[p].ip = loc[p].ip
        /\ loc'[p].old = loc[p].old
    BY <2>5
  <2>7. Moves(p)
    BY <1>0, <2>2, <2>4, <2>5, Unmoved DEF Moves, Put
  <2>8. ProcTypeOf(p)
    BY <2>3, <1>1, <1>2, <2>4, <2>5, Before, Constants DEF ProcTypeOf, Stations, MaybeInum
  <2>9. PlaceOK(p)'
    BY <1>0, <2>3, <1>1, <1>2, <2>4, <2>6 DEF PlaceOK, WantsParent
  <2>10. iref' \in [Inums -> Int]
    BY <1>0, <2>3, <1>1, <1>2, <2>1 DEF TableType, Put
  <2>11. TableType' /\ RestType' /\ disk' \in Disks /\ stable' \in Disks
    BY <2>10, <1>core, <1>lock, <1>disk, <1>rest DEF TableType
  <2>12. Counts(p)
    <3> SUFFICES ASSUME NEW j \in Inums
                 PROVE  iref'[j] = iref[j] + PointersAre(p, j)' - PointersAre(p, j)
      BY DEF Counts
    <3>1. Found_in(puts[p], j) = 0
      BY <1>1, <1>2, FoundIn
    <3>2. Found_in(puts'[p], j) = Is(next, j) + Is(d, j)
      BY <2>4, PairsOfPuts, Zenon
    <3>3. Found_in(puts'[p], j) \in Nat /\ iref[j] \in Int /\ j # Null
      BY <1>0, FoundIn DEF TableType
    <3>4. QED
      BY <1>0, <2>3, <1>1, <1>2, <2>1, <2>4, <2>6, <3>1, <3>2, <3>3 DEF PointersAre, B, Is, TableType, Put, MaybeInum
  <2>13. QED
    BY <2>7, <2>8, <2>9, <2>11, <2>12, StepBase
<1>q. QED
  BY <1>a, <1>b

(* link(), its failure *)
LEMMA UndoLinkBase ==
  ASSUME BaseInv, NEW p \in Procs, UndoLink(p)
  PROVE  BaseInv' /\ \A q \in Procs : q # p => Same(q)
<1> DEFINE i == loc[p].old
           n == Loaded(i).nlink - 1
<1>0. FsTypeOK /\ PlaceOK(p) /\ ProcType /\ TableType /\ RestType /\ disk \in Disks /\ stable \in Disks
  BY Before
<1>1. /\ pc[p] = "undo_link" /\ puts[p] = <<>> /\ freeing[p] = "no" /\ loc[p].cur = Null /\ loc[p].ip = Null /\ loc[p].old \in Inums
  BY <1>0 DEF UndoLink, At, Found, FoundParent, PlaceOK, WantsParent, ProcType, LocalsType
<1>k. Loaded(i) \in Copies
  BY <1>0, <1>1, LoadedType
<1>n. n \in Int
  BY <1>k DEF Copies
<1> HIDE DEF n
<1>core. core' \in [Inums -> Copies]
  <2>1. [Loaded(i) EXCEPT !.nlink = n] \in Copies
    BY <1>k, <1>n, CopyType
  <2>2. core' = Put(core, i, [Loaded(i) EXCEPT !.nlink = n])
    BY DEF UndoLink, n
  <2>3. QED
    BY <1>0, <1>1, <2>1, <2>2 DEF TableType, Put
<1>lock. lock' \in [Inums -> Procs \cup {NoProc}]
  BY <1>0 DEF UndoLink, table, TableType
<1>disk. disk' \in Disks /\ stable' \in Disks
  BY <1>0, <1>n, SetLinksType DEF UndoLink, n
<1>rest. RestType'
  BY <1>0 DEF UndoLink, RestType, aside, NoType
<1>q. QED
  <2>1. iref' = iref
    BY <1>1 DEF UndoLink, Leave, ThenPut, Goto, iget, Opened, NotFound, aside, table, local
  <2>2. /\ loc' = Put(loc, p, NoLocals)
        /\ puts' = Put(puts, p, <<ToPut(i)>>)
        /\ pc' = Put(pc, p, "end")
        /\ fd' = fd
        /\ cwd' = cwd
        /\ freeing' = freeing
    BY <1>1 DEF UndoLink, Leave, ThenPut, Goto, iget, Opened, NotFound, aside, table, local
  <2>3. /\ loc'[p] = NoLocals /\ puts'[p] = <<ToPut(i)>> /\ pc'[p] = "end" /\ cwd'[p] = cwd[p] /\ fd'[p] = fd[p]
        /\ freeing'[p] = "no"
    BY <1>0, <1>1, <2>2 DEF Put, ProcType
  <2>4. Moves(p)
    BY <1>0, <2>2, <2>3, Unmoved DEF Moves, Put
  <2>5. cwd'[p] \in Inums /\ fd'[p] \in MaybeInum
    BY <1>1, <2>3, Before, Constants DEF MaybeInum
  <2>6. puts'[p] \in Seq(ToPuts) /\ Len(puts'[p]) <= 2
    BY <1>1, <2>3, Before, ShortLists
  <2>7. Balanced(p)
    <3> SUFFICES ASSUME NEW j \in Inums
                 PROVE  Is(cwd'[p], j) + Is(fd'[p], j) + Found_in(puts'[p], j) = PointersAre(p, j)
      BY DEF Balanced
    <3>1. Found_in(puts[p], j) = 0
      BY <1>1, FoundIn
    <3>2. Found_in(puts'[p], j) = Is(i, j)
      BY <2>3, ListsOfPuts, Zenon
    <3>3. j # Null
      OBVIOUS
    <3>4. QED
      BY <1>1, <2>3, <3>1, <3>2, <3>3 DEF PointersAre, B, Is
  <2>8. QED
    BY <2>1, <2>3, <2>4, <2>5, <2>6, <2>7, <1>core, <1>lock, <1>disk, <1>rest, LeaveBase

(* getcwd() begins *)
LEMMA GetcwdBase ==
  ASSUME BaseInv, NEW p \in Procs, Getcwd(p)
  PROVE  BaseInv' /\ \A q \in Procs : q # p => Same(q)
<1>0. FsTypeOK /\ PlaceOK(p) /\ ProcType /\ TableType /\ RestType /\ disk \in Disks /\ stable \in Disks
  BY Before
<1>1. /\ pc[p] = "user" /\ puts[p] = <<>> /\ freeing[p] = "no" /\ cwd[p] \in Inums
      /\ loc[p].cur = Null /\ loc[p].ip = Null /\ loc[p].old = Null
  BY <1>0 DEF Getcwd, At, PlaceOK, ProcType, MaybeInum
<1>core. core' \in [Inums -> Copies]
  BY <1>0 DEF Getcwd, table, TableType
<1>lock. lock' \in [Inums -> Procs \cup {NoProc}]
  BY <1>0 DEF Getcwd, table, TableType
<1>disk. disk' \in Disks /\ stable' \in Disks
  BY <1>0 DEF Getcwd
<1>rest. RestType'
  BY <1>0 DEF Getcwd, RestType, aside
<1>q. QED
  <2>1. iref' = Put(iref, cwd[p], iref[cwd[p]] + 1)
    BY <1>1 DEF Getcwd, Leave, ThenPut, Goto, iget, Opened, NotFound, aside, table, local
  <2>2. /\ Locals(p, [call |-> "getcwd", cur |-> cwd[p]])
        /\ puts' = puts
        /\ pc' = Put(pc, p, "up")
        /\ fd' = fd
        /\ cwd' = cwd
        /\ freeing' = freeing
    BY <1>1 DEF Getcwd, Leave, ThenPut, Goto, iget, Opened, NotFound, aside, table, local
  <2>3. /\ puts'[p] = puts[p]
        /\ fd'[p] = fd[p]
        /\ cwd'[p] = cwd[p]
        /\ freeing'[p] = freeing[p]
        /\ pc'[p] = "up"
    BY <1>0, <2>2 DEF Put, ProcType
  <2>4. /\ loc' = [loc EXCEPT ![p] = loc'[p]] /\ loc'[p] \in LocalsType
        /\ loc'[p].call = "getcwd"
        /\ loc'[p].rest = loc[p].rest
        /\ loc'[p].new = loc[p].new
        /\ loc'[p].cur = cwd[p]
        /\ loc'[p].ip = loc[p].ip
        /\ loc'[p].old = loc[p].old
    <3> DEFINE u == [call |-> "getcwd", cur |-> cwd[p]]
    <3>1. DOMAIN u = {"call", "cur"} /\ u["call"] = "getcwd" /\ u["cur"] = cwd[p]
      OBVIOUS
    <3>2. Locals(p, u)
      BY <2>2
    <3> HIDE DEF u
    <3>3. loc \in [Procs -> LocalsType] /\ loc[p] \in LocalsType
      BY <1>0, Before DEF ProcType
    <3>4. /\ loc' = [loc EXCEPT ![p] = loc'[p]]
          /\ loc'[p].call = "getcwd"
          /\ loc'[p].rest = loc[p].rest
          /\ loc'[p].new = loc[p].new
          /\ loc'[p].cur = cwd[p]
          /\ loc'[p].ip = loc[p].ip
          /\ loc'[p].old = loc[p].old
      BY <3>1, <3>2, <3>3, LocalsAre
    <3>5. Typed(loc'[p]) => loc'[p] \in LocalsType
      BY <3>2, <3>3, LocalsAre
    <3>6. Typed(loc[p])
      BY <3>3, LocalsTyped
    <3>7. Typed(loc'[p])
      BY <1>1, <3>4, <3>6 DEF Typed, MaybeInum
    <3>8. QED
      BY <3>3, <3>4, <3>5, <3>7
  <2>5. /\ loc'[p].call = "getcwd"
        /\ loc'[p].rest = loc[p].rest
        /\ loc'[p].new = loc[p].new
        /\ loc'[p].cur = cwd[p]
        /\ loc'[p].ip = loc[p].ip
        /\ loc'[p].old = loc[p].old
    BY <2>4
  <2>6. Moves(p)
    BY <1>0, <2>2, <2>3, <2>4, Unmoved DEF Moves, Put
  <2>7. ProcTypeOf(p)
    BY <1>1, <2>3, <2>4, Before, Constants DEF ProcTypeOf, Stations, MaybeInum
  <2>8. PlaceOK(p)'
    BY <1>0, <1>1, <2>3, <2>5 DEF PlaceOK, WantsParent
  <2>9. iref' \in [Inums -> Int]
    BY <1>0, <1>1, <2>1 DEF TableType, Put
  <2>10. TableType' /\ RestType' /\ disk' \in Disks /\ stable' \in Disks
    BY <2>9, <1>core, <1>lock, <1>disk, <1>rest DEF TableType
  <2>11. Counts(p)
    <3> SUFFICES ASSUME NEW j \in Inums
                 PROVE  iref'[j] = iref[j] + PointersAre(p, j)' - PointersAre(p, j)
      BY DEF Counts
    <3>1. Found_in(puts[p], j) = 0
      BY <1>1, FoundIn
    <3>2. Found_in(puts'[p], j) = Found_in(puts[p], j)
      BY <1>1, <2>3, TailOfPuts
    <3>3. Found_in(puts'[p], j) \in Nat /\ iref[j] \in Int /\ j # Null
      BY <1>0, FoundIn DEF TableType
    <3>4. QED
      BY <1>0, <1>1, <2>1, <2>3, <2>5, <3>1, <3>2, <3>3 DEF PointersAre, B, Is, TableType, Put, MaybeInum
  <2>12. QED
    BY <2>6, <2>7, <2>8, <2>10, <2>11, StepBase

(* getcwd() takes the parent *)
LEMMA GoUpBase ==
  ASSUME BaseInv, NEW p \in Procs, GoUp(p)
  PROVE  BaseInv' /\ \A q \in Procs : q # p => Same(q)
<1> DEFINE i == loc[p].cur
           parent == disk.up[i]
<1>0. FsTypeOK /\ PlaceOK(p) /\ ProcType /\ TableType /\ RestType /\ disk \in Disks /\ stable \in Disks
  BY Before
<1>1. /\ pc[p] = "up" /\ puts[p] = <<>> /\ freeing[p] = "no" /\ loc[p].cur \in Inums /\ loc[p].ip = Null /\ loc[p].old = Null
      /\ loc[p].call = "getcwd"
  BY <1>0 DEF GoUp, At, Found, FoundParent, PlaceOK, WantsParent, ProcType, LocalsType
<1>2. parent \in MaybeInum
  BY <1>0, <1>1 DEF Disks
<1> HIDE DEF parent
<1>core. core' \in [Inums -> Copies]
  BY <1>0, <1>1, <1>2, ilockType DEF GoUp
<1>lock. lock' \in [Inums -> Procs \cup {NoProc}]
  BY <1>0 DEF GoUp, table, TableType
<1>disk. disk' \in Disks /\ stable' \in Disks
  BY <1>0 DEF GoUp
<1>rest. RestType'
  BY <1>0, <1>1, <1>2, ilockType DEF GoUp, RestType, aside
<1>a. CASE parent = Null
  <2>1. iref' = iref
    BY <1>a, <1>1, <1>2 DEF GoUp, Leave, ThenPut, Goto, iget, Opened, NotFound, aside, table, local, parent
  <2>2. /\ loc' = Put(loc, p, NoLocals)
        /\ puts' = Put(puts, p, <<ToPut(i)>>)
        /\ pc' = Put(pc, p, "user")
        /\ fd' = fd
        /\ cwd' = cwd
        /\ freeing' = freeing
    BY <1>a, <1>1, <1>2 DEF GoUp, Leave, ThenPut, Goto, iget, Opened, NotFound, aside, table, local, parent
  <2>3. /\ loc'[p] = NoLocals /\ puts'[p] = <<ToPut(i)>> /\ pc'[p] = "user" /\ cwd'[p] = cwd[p] /\ fd'[p] = fd[p]
        /\ freeing'[p] = "no"
    BY <1>0, <1>1, <1>2, <2>2 DEF Put, ProcType
  <2>4. Moves(p)
    BY <1>0, <2>2, <2>3, Unmoved DEF Moves, Put
  <2>5. cwd'[p] \in Inums /\ fd'[p] \in MaybeInum
    BY <1>1, <1>2, <2>3, Before, Constants DEF MaybeInum
  <2>6. puts'[p] \in Seq(ToPuts) /\ Len(puts'[p]) <= 2
    BY <1>1, <1>2, <2>3, Before, ShortLists
  <2>7. Balanced(p)
    <3> SUFFICES ASSUME NEW j \in Inums
                 PROVE  Is(cwd'[p], j) + Is(fd'[p], j) + Found_in(puts'[p], j) = PointersAre(p, j)
      BY DEF Balanced
    <3>1. Found_in(puts[p], j) = 0
      BY <1>1, <1>2, FoundIn
    <3>2. Found_in(puts'[p], j) = Is(i, j)
      BY <2>3, ListsOfPuts, Zenon
    <3>3. j # Null
      OBVIOUS
    <3>4. QED
      BY <1>1, <1>2, <2>3, <3>1, <3>2, <3>3 DEF PointersAre, B, Is
  <2>8. QED
    BY <2>1, <2>3, <2>4, <2>5, <2>6, <2>7, <1>core, <1>lock, <1>disk, <1>rest, LeaveBase
<1>b. CASE parent # Null
  <2>1. iref' = Put(iref, parent, iref[parent] + 1)
    BY <1>b, <1>1, <1>2 DEF GoUp, Leave, ThenPut, Goto, iget, Opened, NotFound, aside, table, local, parent
  <2>2. /\ Locals(p, [ip |-> parent])
        /\ puts' = puts
        /\ pc' = Put(pc, p, "scan")
        /\ fd' = fd
        /\ cwd' = cwd
        /\ freeing' = freeing
    BY <1>b, <1>1, <1>2 DEF GoUp, Leave, ThenPut, Goto, iget, Opened, NotFound, aside, table, local, parent
  <2>3. parent \in Inums
    BY <1>b, <1>1, <1>2 DEF MaybeInum
  <2>4. /\ puts'[p] = puts[p]
        /\ fd'[p] = fd[p]
        /\ cwd'[p] = cwd[p]
        /\ freeing'[p] = freeing[p]
        /\ pc'[p] = "scan"
    BY <1>0, <2>2 DEF Put, ProcType
  <2>5. /\ loc' = [loc EXCEPT ![p] = loc'[p]] /\ loc'[p] \in LocalsType
        /\ loc'[p].call = loc[p].call
        /\ loc'[p].rest = loc[p].rest
        /\ loc'[p].new = loc[p].new
        /\ loc'[p].cur = loc[p].cur
        /\ loc'[p].ip = parent
        /\ loc'[p].old = loc[p].old
    <3> DEFINE u == [ip |-> parent]
    <3>1. DOMAIN u = {"ip"} /\ u["ip"] = parent
      OBVIOUS
    <3>2. Locals(p, u)
      BY <2>2
    <3> HIDE DEF u
    <3>3. loc \in [Procs -> LocalsType] /\ loc[p] \in LocalsType
      BY <1>0, Before DEF ProcType
    <3>4. /\ loc' = [loc EXCEPT ![p] = loc'[p]]
          /\ loc'[p].call = loc[p].call
          /\ loc'[p].rest = loc[p].rest
          /\ loc'[p].new = loc[p].new
          /\ loc'[p].cur = loc[p].cur
          /\ loc'[p].ip = parent
          /\ loc'[p].old = loc[p].old
      BY <3>1, <3>2, <3>3, LocalsAre
    <3>5. Typed(loc'[p]) => loc'[p] \in LocalsType
      BY <3>2, <3>3, LocalsAre
    <3>6. Typed(loc[p])
      BY <3>3, LocalsTyped
    <3>7. Typed(loc'[p])
      BY <2>3, <1>1, <1>2, <3>4, <3>6 DEF Typed, MaybeInum
    <3>8. QED
      BY <3>3, <3>4, <3>5, <3>7
  <2>6. /\ loc'[p].call = loc[p].call
        /\ loc'[p].rest = loc[p].rest
        /\ loc'[p].new = loc[p].new
        /\ loc'[p].cur = loc[p].cur
        /\ loc'[p].ip = parent
        /\ loc'[p].old = loc[p].old
    BY <2>5
  <2>7. Moves(p)
    BY <1>0, <2>2, <2>4, <2>5, Unmoved DEF Moves, Put
  <2>8. ProcTypeOf(p)
    BY <2>3, <1>1, <1>2, <2>4, <2>5, Before, Constants DEF ProcTypeOf, Stations, MaybeInum
  <2>9. PlaceOK(p)'
    BY <1>0, <2>3, <1>1, <1>2, <2>4, <2>6 DEF PlaceOK, WantsParent
  <2>10. iref' \in [Inums -> Int]
    BY <1>0, <2>3, <1>1, <1>2, <2>1 DEF TableType, Put
  <2>11. TableType' /\ RestType' /\ disk' \in Disks /\ stable' \in Disks
    BY <2>10, <1>core, <1>lock, <1>disk, <1>rest DEF TableType
  <2>12. Counts(p)
    <3> SUFFICES ASSUME NEW j \in Inums
                 PROVE  iref'[j] = iref[j] + PointersAre(p, j)' - PointersAre(p, j)
      BY DEF Counts
    <3>1. Found_in(puts[p], j) = 0
      BY <1>1, <1>2, FoundIn
    <3>2. Found_in(puts'[p], j) = Found_in(puts[p], j)
      BY <1>1, <1>2, <2>4, TailOfPuts
    <3>3. Found_in(puts'[p], j) \in Nat /\ iref[j] \in Int /\ j # Null
      BY <1>0, FoundIn DEF TableType
    <3>4. QED
      BY <1>0, <2>3, <1>1, <1>2, <2>1, <2>4, <2>6, <3>1, <3>2, <3>3 DEF PointersAre, B, Is, TableType, Put, MaybeInum
  <2>13. QED
    BY <2>7, <2>8, <2>9, <2>11, <2>12, StepBase
<1>q. QED
  BY <1>a, <1>b

(* getcwd() looks in the parent *)
LEMMA ScanParentBase ==
  ASSUME BaseInv, NEW p \in Procs, ScanParent(p)
  PROVE  BaseInv' /\ \A q \in Procs : q # p => Same(q)
<1> DEFINE i == loc[p].cur
           up == loc[p].ip
<1>0. FsTypeOK /\ PlaceOK(p) /\ ProcType /\ TableType /\ RestType /\ disk \in Disks /\ stable \in Disks
  BY Before
<1>1. /\ pc[p] = "scan" /\ puts[p] = <<>> /\ freeing[p] = "no" /\ loc[p].cur \in Inums /\ loc[p].ip \in Inums /\ loc[p].old = Null
      /\ loc[p].call = "getcwd"
  BY <1>0 DEF ScanParent, At, Found, FoundParent, PlaceOK, WantsParent, ProcType, LocalsType
<1>core. core' \in [Inums -> Copies]
  BY <1>0, <1>1, ilockType DEF ScanParent
<1>lock. lock' \in [Inums -> Procs \cup {NoProc}]
  BY <1>0 DEF ScanParent, table, TableType
<1>disk. disk' \in Disks /\ stable' \in Disks
  BY <1>0 DEF ScanParent
<1>rest. RestType'
  BY <1>0, <1>1, ilockType DEF ScanParent, RestType, aside
<1>a. CASE up # i /\ \E n \in Names : disk.ent[up][n] = i
  <2>1. iref' = iref
    BY <1>a, <1>1 DEF ScanParent, Leave, ThenPut, Goto, iget, Opened, NotFound, aside, table, local
  <2>2. /\ Locals(p, [cur |-> up, ip |-> Null])
        /\ puts' = Put(puts, p, <<ToPut(i)>>)
        /\ pc' = Put(pc, p, "up")
        /\ fd' = fd
        /\ cwd' = cwd
        /\ freeing' = freeing
    BY <1>a, <1>1 DEF ScanParent, Leave, ThenPut, Goto, iget, Opened, NotFound, aside, table, local
  <2>3. /\ puts'[p] = <<ToPut(i)>>
        /\ fd'[p] = fd[p]
        /\ cwd'[p] = cwd[p]
        /\ freeing'[p] = freeing[p]
        /\ pc'[p] = "up"
    BY <1>0, <2>2 DEF Put, ProcType
  <2>4. /\ loc' = [loc EXCEPT ![p] = loc'[p]] /\ loc'[p] \in LocalsType
        /\ loc'[p].call = loc[p].call
        /\ loc'[p].rest = loc[p].rest
        /\ loc'[p].new = loc[p].new
        /\ loc'[p].cur = up
        /\ loc'[p].ip = Null
        /\ loc'[p].old = loc[p].old
    <3> DEFINE u == [cur |-> up, ip |-> Null]
    <3>1. DOMAIN u = {"cur", "ip"} /\ u["cur"] = up /\ u["ip"] = Null
      OBVIOUS
    <3>2. Locals(p, u)
      BY <2>2
    <3> HIDE DEF u
    <3>3. loc \in [Procs -> LocalsType] /\ loc[p] \in LocalsType
      BY <1>0, Before DEF ProcType
    <3>4. /\ loc' = [loc EXCEPT ![p] = loc'[p]]
          /\ loc'[p].call = loc[p].call
          /\ loc'[p].rest = loc[p].rest
          /\ loc'[p].new = loc[p].new
          /\ loc'[p].cur = up
          /\ loc'[p].ip = Null
          /\ loc'[p].old = loc[p].old
      BY <3>1, <3>2, <3>3, LocalsAre
    <3>5. Typed(loc'[p]) => loc'[p] \in LocalsType
      BY <3>2, <3>3, LocalsAre
    <3>6. Typed(loc[p])
      BY <3>3, LocalsTyped
    <3>7. Typed(loc'[p])
      BY <1>1, <3>4, <3>6 DEF Typed, MaybeInum
    <3>8. QED
      BY <3>3, <3>4, <3>5, <3>7
  <2>5. /\ loc'[p].call = loc[p].call
        /\ loc'[p].rest = loc[p].rest
        /\ loc'[p].new = loc[p].new
        /\ loc'[p].cur = up
        /\ loc'[p].ip = Null
        /\ loc'[p].old = loc[p].old
    BY <2>4
  <2>6. Moves(p)
    BY <1>0, <2>2, <2>3, <2>4, Unmoved DEF Moves, Put
  <2>7. ProcTypeOf(p)
    BY <1>1, <2>3, <2>4, Before, Constants DEF ProcTypeOf, Stations, MaybeInum
  <2>8. PlaceOK(p)'
    BY <1>0, <1>1, <2>3, <2>5 DEF PlaceOK, WantsParent
  <2>9. iref' \in [Inums -> Int]
    BY <1>0, <2>1 DEF TableType, Put
  <2>10. TableType' /\ RestType' /\ disk' \in Disks /\ stable' \in Disks
    BY <2>9, <1>core, <1>lock, <1>disk, <1>rest DEF TableType
  <2>11. Counts(p)
    <3> SUFFICES ASSUME NEW j \in Inums
                 PROVE  iref'[j] = iref[j] + PointersAre(p, j)' - PointersAre(p, j)
      BY DEF Counts
    <3>1. Found_in(puts[p], j) = 0
      BY <1>1, FoundIn
    <3>2. Found_in(puts'[p], j) = Is(i, j)
      BY <2>3, ListsOfPuts, Zenon
    <3>3. Found_in(puts'[p], j) \in Nat /\ iref[j] \in Int /\ j # Null
      BY <1>0, FoundIn DEF TableType
    <3>4. QED
      BY <1>0, <1>1, <2>1, <2>3, <2>5, <3>1, <3>2, <3>3 DEF PointersAre, B, Is, TableType, Put, MaybeInum
  <2>12. QED
    BY <2>6, <2>7, <2>8, <2>10, <2>11, StepBase
<1>b. CASE ~(up # i /\ \E n \in Names : disk.ent[up][n] = i)
  <2>1. iref' = iref
    BY <1>b, <1>1 DEF ScanParent, Leave, ThenPut, Goto, iget, Opened, NotFound, aside, table, local
  <2>2. /\ loc' = Put(loc, p, NoLocals)
        /\ puts' = Put(puts, p, <<ToPut(up), ToPut(i)>>)
        /\ pc' = Put(pc, p, "user")
        /\ fd' = fd
        /\ cwd' = cwd
        /\ freeing' = freeing
    BY <1>b, <1>1 DEF ScanParent, Leave, ThenPut, Goto, iget, Opened, NotFound, aside, table, local
  <2>3. /\ loc'[p] = NoLocals /\ puts'[p] = <<ToPut(up), ToPut(i)>> /\ pc'[p] = "user" /\ cwd'[p] = cwd[p] /\ fd'[p] = fd[p]
        /\ freeing'[p] = "no"
    BY <1>0, <1>1, <2>2 DEF Put, ProcType
  <2>4. Moves(p)
    BY <1>0, <2>2, <2>3, Unmoved DEF Moves, Put
  <2>5. cwd'[p] \in Inums /\ fd'[p] \in MaybeInum
    BY <1>1, <2>3, Before, Constants DEF MaybeInum
  <2>6. puts'[p] \in Seq(ToPuts) /\ Len(puts'[p]) <= 2
    BY <1>1, <2>3, Before, ShortLists
  <2>7. Balanced(p)
    <3> SUFFICES ASSUME NEW j \in Inums
                 PROVE  Is(cwd'[p], j) + Is(fd'[p], j) + Found_in(puts'[p], j) = PointersAre(p, j)
      BY DEF Balanced
    <3>1. Found_in(puts[p], j) = 0
      BY <1>1, FoundIn
    <3>2. Found_in(puts'[p], j) = Is(up, j) + Is(i, j)
      BY <2>3, PairsOfPuts, Zenon
    <3>3. j # Null
      OBVIOUS
    <3>4. QED
      BY <1>1, <2>3, <3>1, <3>2, <3>3 DEF PointersAre, B, Is
  <2>8. QED
    BY <2>1, <2>3, <2>4, <2>5, <2>6, <2>7, <1>core, <1>lock, <1>disk, <1>rest, LeaveBase
<1>q. QED
  BY <1>a, <1>b

(* begin_op() and the path of a call *)
LEMMA EnterBase ==
  ASSUME BaseInv, NEW p \in Procs, NEW r \in workload, Enter(p, r)
  PROVE  BaseInv' /\ \A q \in Procs : q # p => Same(q)
<1> DEFINE s == Start(p, r.path)
           e == r.path.elems
           nw == IF r.call = "link" THEN <<r.new>> ELSE <<>>
<1>0. FsTypeOK /\ PlaceOK(p) /\ ProcType /\ TableType /\ RestType /\ disk \in Disks /\ stable \in Disks
  BY Before
<1>1. /\ pc[p] = "user" /\ puts[p] = <<>> /\ freeing[p] = "no"
      /\ loc[p].cur = Null /\ loc[p].ip = Null /\ loc[p].old = Null
  BY <1>0 DEF Enter, At, PlaceOK, ProcType, MaybeInum
<1>2. r.call \in Calls /\ r.path \in Paths /\ (r.call = "link" => r.new \in Paths)
  BY <1>0 DEF RestType
<1>3. s \in Inums /\ e \in Seq(Elems)
  BY <1>0, <1>2 DEF Start, ProcType, Paths, Elems
<1>4. nw \in Seq(Paths) /\ (r.call = "link" => nw # <<>>)
  <2>1. CASE r.call = "link"
    <3>1. r.new \in Paths
      BY <1>2, <2>1
    <3>2. <<r.new>> \in Seq(Paths) /\ <<r.new>> # <<>>
      BY <3>1
    <3>3. QED
      BY <2>1, <3>2, Zenon
  <2>2. CASE r.call # "link"
    <3>1. <<>> \in Seq(Paths)
      OBVIOUS
    <3>2. QED
      BY <2>2, <3>1, Zenon
  <2>3. QED
    BY <2>1, <2>2
<1> HIDE DEF s, e, nw
<1>core. core' \in [Inums -> Copies]
  BY <1>0 DEF Enter, table, TableType
<1>lock. lock' \in [Inums -> Procs \cup {NoProc}]
  BY <1>0 DEF Enter, table, TableType
<1>disk. disk' \in Disks /\ stable' \in Disks
  BY <1>0 DEF Enter
<1>rest. RestType'
  BY <1>0 DEF Enter, RestType, aside
<1>q. QED
  <2>1. iref' = Put(iref, s, iref[s] + 1)
    BY <1>1, <1>2, <1>3, <1>4 DEF Enter, Leave, ThenPut, Goto, iget, Opened, NotFound, aside, table, local, s, e, nw
  <2>2. /\ Locals(p, [call |-> r.call, rest |-> e, cur |-> s, new |-> nw])
        /\ puts' = puts
        /\ pc' = Put(pc, p, "walk")
        /\ fd' = fd
        /\ cwd' = cwd
        /\ freeing' = freeing
    BY <1>1, <1>2, <1>3, <1>4 DEF Enter, Leave, ThenPut, Goto, iget, Opened, NotFound, aside, table, local, s, e, nw
  <2>3. /\ puts'[p] = puts[p]
        /\ fd'[p] = fd[p]
        /\ cwd'[p] = cwd[p]
        /\ freeing'[p] = freeing[p]
        /\ pc'[p] = "walk"
    BY <1>0, <2>2 DEF Put, ProcType
  <2>4. /\ loc' = [loc EXCEPT ![p] = loc'[p]] /\ loc'[p] \in LocalsType
        /\ loc'[p].call = r.call
        /\ loc'[p].rest = e
        /\ loc'[p].new = nw
        /\ loc'[p].cur = s
        /\ loc'[p].ip = loc[p].ip
        /\ loc'[p].old = loc[p].old
    <3> DEFINE u == [call |-> r.call, rest |-> e, cur |-> s, new |-> nw]
    <3>1. DOMAIN u = {"call", "rest", "cur", "new"} /\ u["call"] = r.call /\ u["rest"] = e /\ u["cur"] = s /\ u["new"] = nw
      OBVIOUS
    <3>2. Locals(p, u)
      BY <2>2
    <3> HIDE DEF u
    <3>3. loc \in [Procs -> LocalsType] /\ loc[p] \in LocalsType
      BY <1>0, Before DEF ProcType
    <3>4. /\ loc' = [loc EXCEPT ![p] = loc'[p]]
          /\ loc'[p].call = r.call
          /\ loc'[p].rest = e
          /\ loc'[p].new = nw
          /\ loc'[p].cur = s
          /\ loc'[p].ip = loc[p].ip
          /\ loc'[p].old = loc[p].old
      BY <3>1, <3>2, <3>3, LocalsAre
    <3>5. Typed(loc'[p]) => loc'[p] \in LocalsType
      BY <3>2, <3>3, LocalsAre
    <3>6. Typed(loc[p])
      BY <3>3, LocalsTyped
    <3>7. Typed(loc'[p])
      BY <1>1, <1>2, <1>3, <1>4, <3>4, <3>6 DEF Typed, MaybeInum
    <3>8. QED
      BY <3>3, <3>4, <3>5, <3>7
  <2>5. /\ loc'[p].call = r.call
        /\ loc'[p].rest = e
        /\ loc'[p].new = nw
        /\ loc'[p].cur = s
        /\ loc'[p].ip = loc[p].ip
        /\ loc'[p].old = loc[p].old
    BY <2>4
  <2>6. Moves(p)
    BY <1>0, <2>2, <2>3, <2>4, Unmoved DEF Moves, Put
  <2>7. ProcTypeOf(p)
    BY <1>1, <1>2, <1>3, <1>4, <2>3, <2>4, Before, Constants DEF ProcTypeOf, Stations, MaybeInum
  <2>8. PlaceOK(p)'
    BY <1>0, <1>1, <1>2, <1>3, <1>4, <2>3, <2>5 DEF PlaceOK, WantsParent
  <2>9. iref' \in [Inums -> Int]
    BY <1>0, <1>1, <1>2, <1>3, <1>4, <2>1 DEF TableType, Put
  <2>10. TableType' /\ RestType' /\ disk' \in Disks /\ stable' \in Disks
    BY <2>9, <1>core, <1>lock, <1>disk, <1>rest DEF TableType
  <2>11. Counts(p)
    <3> SUFFICES ASSUME NEW j \in Inums
                 PROVE  iref'[j] = iref[j] + PointersAre(p, j)' - PointersAre(p, j)
      BY DEF Counts
    <3>1. Found_in(puts[p], j) = 0
      BY <1>1, <1>2, <1>3, <1>4, FoundIn
    <3>2. Found_in(puts'[p], j) = Found_in(puts[p], j)
      BY <1>1, <1>2, <1>3, <1>4, <2>3, TailOfPuts
    <3>3. Found_in(puts'[p], j) \in Nat /\ iref[j] \in Int /\ j # Null
      BY <1>0, FoundIn DEF TableType
    <3>4. QED
      BY <1>0, <1>1, <1>2, <1>3, <1>4, <2>1, <2>3, <2>5, <3>1, <3>2, <3>3 DEF PointersAre, B, Is, TableType, Put, MaybeInum
  <2>12. QED
    BY <2>6, <2>7, <2>8, <2>10, <2>11, StepBase

(* iput() of a reference that is not the last one *)
LEMMA PutRefBase ==
  ASSUME BaseInv, NEW p \in Procs, PutRef(p)
  PROVE  BaseInv' /\ \A q \in Procs : q # p => Same(q)
<1> DEFINE i == Head(puts[p]).inum
<1>0. FsTypeOK /\ PlaceOK(p) /\ ProcType /\ TableType /\ RestType /\ disk \in Disks /\ stable \in Disks
  BY Before
<1>1. puts[p] # <<>> /\ puts[p] \in Seq(ToPuts) /\ Len(puts[p]) <= 2 /\ Tail(puts[p]) \in Seq(ToPuts) /\ Len(Tail(puts[p])) <= 2
  <2>1. puts[p] # <<>> /\ puts[p] \in Seq(ToPuts) /\ Len(puts[p]) <= 2
    BY <1>0 DEF PutRef, PlaceOK, ProcType
  <2>2. QED
    BY <2>1
<1>2. i \in Inums
  <2>1. Head(puts[p]) \in ToPuts
    BY <1>1
  <2>2. QED
    BY <2>1 DEF ToPuts
<1>3. freeing[p] = "no"
  BY DEF PutRef
<1>core. core' \in [Inums -> Copies]
  <2>1. core' = Put(core, i, Unloaded) \/ core' = core
    BY DEF PutRef, Dropped
  <2>2. QED
    BY <1>0, <1>2, <2>1, Constants DEF TableType, Put
<1>lock. lock' \in [Inums -> Procs \cup {NoProc}]
  BY <1>0, <1>2 DEF PutRef, Unlocked, Put, TableType
<1>disk. disk' \in Disks /\ stable' \in Disks
  BY <1>0 DEF PutRef
<1>rest. RestType'
  BY <1>0 DEF PutRef, RestType, aside
<1>q. QED
  <2>1. iref' = Put(iref, i, iref[i] - 1)
    BY <1>1, <1>2, <1>3 DEF PutRef, Leave, ThenPut, Goto, iget, Opened, NotFound, aside, table, local, Dropped, Pops
  <2>2. /\ loc' = loc
        /\ puts' = Put(puts, p, Tail(puts[p]))
        /\ pc' = pc
        /\ fd' = fd
        /\ cwd' = cwd
        /\ freeing' = freeing
    BY <1>1, <1>2, <1>3 DEF PutRef, Leave, ThenPut, Goto, iget, Opened, NotFound, aside, table, local, Dropped, Pops
  <2>3. /\ puts'[p] = Tail(puts[p])
        /\ loc'[p] = loc[p]
        /\ pc'[p] = pc[p]
        /\ fd'[p] = fd[p]
        /\ cwd'[p] = cwd[p]
        /\ freeing'[p] = freeing[p]
    BY <1>0, <2>2 DEF Put, ProcType
  <2>4. Moves(p)
    BY <1>0, <2>2, <2>3, Unmoved DEF Moves, Put
  <2>5. ProcTypeOf(p)
    BY <1>1, <1>2, <1>3, <2>3, Before, Constants DEF ProcTypeOf, Stations, MaybeInum
  <2>6. PlaceOK(p)'
    BY <1>0, <1>1, <1>2, <1>3, <2>3 DEF PlaceOK, WantsParent
  <2>7. iref' \in [Inums -> Int]
    BY <1>0, <1>1, <1>2, <1>3, <2>1 DEF TableType, Put
  <2>8. TableType' /\ RestType' /\ disk' \in Disks /\ stable' \in Disks
    BY <2>7, <1>core, <1>lock, <1>disk, <1>rest DEF TableType
  <2>9. Counts(p)
    <3> SUFFICES ASSUME NEW j \in Inums
                 PROVE  iref'[j] = iref[j] + PointersAre(p, j)' - PointersAre(p, j)
      BY DEF Counts
    <3>1. Found_in(puts[p], j) \in Nat
      BY FoundIn
    <3>2. Found_in(puts'[p], j) = Found_in(puts[p], j) - Is(Head(puts[p]).inum, j)
      BY <1>1, <1>2, <1>3, <2>3, TailOfPuts
    <3>3. Found_in(puts'[p], j) \in Nat /\ iref[j] \in Int /\ j # Null
      BY <1>0, FoundIn DEF TableType
    <3>4. iref'[j] = iref[j] - Is(i, j)
      BY <1>0, <1>1, <1>2, <1>3, <2>1, <3>3 DEF B, Is, TableType, Put
    <3>5. PointersAre(p, j)' = PointersAre(p, j) - Is(i, j) /\ PointersAre(p, j) \in Int /\ Is(i, j) \in Int
      BY <2>3, <3>1, <3>2 DEF PointersAre, B, Is
    <3>6. QED
      BY <3>3, <3>4, <3>5
  <2>10. QED
    BY <2>4, <2>5, <2>6, <2>8, <2>9, StepBase

(* iput() of the last reference *)
LEMMA PutLastBase ==
  ASSUME BaseInv, NEW p \in Procs, PutLast(p)
  PROVE  BaseInv' /\ \A q \in Procs : q # p => Same(q)
<1> DEFINE i == Head(puts[p]).inum
<1>0. FsTypeOK /\ PlaceOK(p) /\ ProcType /\ TableType /\ RestType /\ disk \in Disks /\ stable \in Disks
  BY Before
<1>1. puts[p] # <<>> /\ puts[p] \in Seq(ToPuts) /\ Len(puts[p]) <= 2 /\ Tail(puts[p]) \in Seq(ToPuts) /\ Len(Tail(puts[p])) <= 2
  <2>1. puts[p] # <<>> /\ puts[p] \in Seq(ToPuts) /\ Len(puts[p]) <= 2
    BY <1>0 DEF PutLast, PlaceOK, ProcType
  <2>2. QED
    BY <2>1
<1>2. i \in Inums
  <2>1. Head(puts[p]) \in ToPuts
    BY <1>1
  <2>2. QED
    BY <2>1 DEF ToPuts
<1>core. core' \in [Inums -> Copies]
  BY <1>0 DEF PutLast, table, TableType
<1>lock. lock' \in [Inums -> Procs \cup {NoProc}]
  BY <1>0, <1>2 DEF PutLast, Put, TableType
<1>disk. disk' \in Disks /\ stable' \in Disks
  BY <1>0 DEF PutLast
<1>rest. RestType'
  BY <1>0 DEF PutLast, RestType, aside
<1>q. QED
  <2>1. iref' = iref
    BY <1>1, <1>2 DEF PutLast, Leave, ThenPut, Goto, iget, Opened, NotFound, aside, table, local
  <2>2. /\ loc' = loc
        /\ puts' = puts
        /\ pc' = pc
        /\ fd' = fd
        /\ cwd' = cwd
        /\ freeing' = Put(freeing, p, "freeing")
    BY <1>1, <1>2 DEF PutLast, Leave, ThenPut, Goto, iget, Opened, NotFound, aside, table, local
  <2>3. /\ puts'[p] = puts[p]
        /\ loc'[p] = loc[p]
        /\ pc'[p] = pc[p]
        /\ fd'[p] = fd[p]
        /\ cwd'[p] = cwd[p]
        /\ freeing'[p] = "freeing"
    BY <1>0, <2>2 DEF Put, ProcType
  <2>4. Moves(p)
    BY <1>0, <2>2, <2>3, Unmoved DEF Moves, Put
  <2>5. ProcTypeOf(p)
    BY <1>1, <1>2, <2>3, Before, Constants DEF ProcTypeOf, Stations, MaybeInum
  <2>6. PlaceOK(p)'
    BY <1>0, <1>1, <1>2, <2>3 DEF PlaceOK, WantsParent
  <2>7. iref' \in [Inums -> Int]
    BY <1>0, <2>1 DEF TableType, Put
  <2>8. TableType' /\ RestType' /\ disk' \in Disks /\ stable' \in Disks
    BY <2>7, <1>core, <1>lock, <1>disk, <1>rest DEF TableType
  <2>9. Counts(p)
    <3> SUFFICES ASSUME NEW j \in Inums
                 PROVE  iref'[j] = iref[j] + PointersAre(p, j)' - PointersAre(p, j)
      BY DEF Counts
    <3>1. Found_in(puts[p], j) \in Nat
      BY FoundIn
    <3>2. Found_in(puts'[p], j) = Found_in(puts[p], j)
      BY <1>1, <1>2, <2>3, TailOfPuts
    <3>3. Found_in(puts'[p], j) \in Nat /\ iref[j] \in Int /\ j # Null
      BY <1>0, FoundIn DEF TableType
    <3>4. QED
      BY <1>0, <1>1, <1>2, <2>1, <2>3, <3>1, <3>2, <3>3 DEF PointersAre, B, Is, TableType, Put, MaybeInum
  <2>10. QED
    BY <2>4, <2>5, <2>6, <2>8, <2>9, StepBase

(* iput() frees the inode *)
LEMMA PutFreeBase ==
  ASSUME BaseInv, NEW p \in Procs, PutFree(p)
  PROVE  BaseInv' /\ \A q \in Procs : q # p => Same(q)
<1> DEFINE i == Head(puts[p]).inum
<1>0. FsTypeOK /\ PlaceOK(p) /\ ProcType /\ TableType /\ RestType /\ disk \in Disks /\ stable \in Disks
  BY Before
<1>1. puts[p] # <<>> /\ puts[p] \in Seq(ToPuts) /\ Len(puts[p]) <= 2 /\ Tail(puts[p]) \in Seq(ToPuts) /\ Len(Tail(puts[p])) <= 2
  <2>1. puts[p] # <<>> /\ puts[p] \in Seq(ToPuts) /\ Len(puts[p]) <= 2
    BY <1>0 DEF PutFree, PlaceOK, ProcType
  <2>2. QED
    BY <2>1
<1>2. i \in Inums
  <2>1. Head(puts[p]) \in ToPuts
    BY <1>1
  <2>2. QED
    BY <2>1 DEF ToPuts
<1>core. core' \in [Inums -> Copies]
  BY <1>0, <1>2, Constants DEF PutFree, Put, TableType
<1>lock. lock' \in [Inums -> Procs \cup {NoProc}]
  BY <1>0, <1>2 DEF PutFree, Put, TableType
<1>disk. disk' \in Disks /\ stable' \in Disks
  BY <1>0, <1>2, FreedType DEF PutFree
<1>rest. RestType'
  BY <1>0 DEF PutFree, RestType
<1>q. QED
  <2>1. iref' = iref
    BY <1>1, <1>2 DEF PutFree, Leave, ThenPut, Goto, iget, Opened, NotFound, aside, table, local
  <2>2. /\ loc' = loc
        /\ puts' = puts
        /\ pc' = pc
        /\ fd' = fd
        /\ cwd' = cwd
        /\ freeing' = Put(freeing, p, "freed")
    BY <1>1, <1>2 DEF PutFree, Leave, ThenPut, Goto, iget, Opened, NotFound, aside, table, local
  <2>3. /\ puts'[p] = puts[p]
        /\ loc'[p] = loc[p]
        /\ pc'[p] = pc[p]
        /\ fd'[p] = fd[p]
        /\ cwd'[p] = cwd[p]
        /\ freeing'[p] = "freed"
    BY <1>0, <2>2 DEF Put, ProcType
  <2>4. Moves(p)
    BY <1>0, <2>2, <2>3, Unmoved DEF Moves, Put
  <2>5. ProcTypeOf(p)
    BY <1>1, <1>2, <2>3, Before, Constants DEF ProcTypeOf, Stations, MaybeInum
  <2>6. PlaceOK(p)'
    BY <1>0, <1>1, <1>2, <2>3 DEF PlaceOK, WantsParent
  <2>7. iref' \in [Inums -> Int]
    BY <1>0, <2>1 DEF TableType, Put
  <2>8. TableType' /\ RestType' /\ disk' \in Disks /\ stable' \in Disks
    BY <2>7, <1>core, <1>lock, <1>disk, <1>rest DEF TableType
  <2>9. Counts(p)
    <3> SUFFICES ASSUME NEW j \in Inums
                 PROVE  iref'[j] = iref[j] + PointersAre(p, j)' - PointersAre(p, j)
      BY DEF Counts
    <3>1. Found_in(puts[p], j) \in Nat
      BY FoundIn
    <3>2. Found_in(puts'[p], j) = Found_in(puts[p], j)
      BY <1>1, <1>2, <2>3, TailOfPuts
    <3>3. Found_in(puts'[p], j) \in Nat /\ iref[j] \in Int /\ j # Null
      BY <1>0, FoundIn DEF TableType
    <3>4. QED
      BY <1>0, <1>1, <1>2, <2>1, <2>3, <3>1, <3>2, <3>3 DEF PointersAre, B, Is, TableType, Put, MaybeInum
  <2>10. QED
    BY <2>4, <2>5, <2>6, <2>8, <2>9, StepBase

(* iput() gives the entry up *)
LEMMA PutFreedBase ==
  ASSUME BaseInv, NEW p \in Procs, PutFreed(p)
  PROVE  BaseInv' /\ \A q \in Procs : q # p => Same(q)
<1> DEFINE i == Head(puts[p]).inum
<1>0. FsTypeOK /\ PlaceOK(p) /\ ProcType /\ TableType /\ RestType /\ disk \in Disks /\ stable \in Disks
  BY Before
<1>1. puts[p] # <<>> /\ puts[p] \in Seq(ToPuts) /\ Len(puts[p]) <= 2 /\ Tail(puts[p]) \in Seq(ToPuts) /\ Len(Tail(puts[p])) <= 2
  <2>1. puts[p] # <<>> /\ puts[p] \in Seq(ToPuts) /\ Len(puts[p]) <= 2
    BY <1>0 DEF PutFreed, PlaceOK, ProcType
  <2>2. QED
    BY <2>1
<1>2. i \in Inums
  <2>1. Head(puts[p]) \in ToPuts
    BY <1>1
  <2>2. QED
    BY <2>1 DEF ToPuts
<1>core. core' \in [Inums -> Copies]
  <2>1. core' = Put(core, i, Unloaded) \/ core' = core
    BY DEF PutFreed, Dropped
  <2>2. QED
    BY <1>0, <1>2, <2>1, Constants DEF TableType, Put
<1>lock. lock' \in [Inums -> Procs \cup {NoProc}]
  BY <1>0 DEF PutFreed, table, TableType
<1>disk. disk' \in Disks /\ stable' \in Disks
  BY <1>0 DEF PutFreed
<1>rest. RestType'
  BY <1>0 DEF PutFreed, RestType, aside
<1>q. QED
  <2>1. iref' = Put(iref, i, iref[i] - 1)
    BY <1>1, <1>2 DEF PutFreed, Leave, ThenPut, Goto, iget, Opened, NotFound, aside, table, local, Dropped, Pops
  <2>2. /\ loc' = loc
        /\ puts' = Put(puts, p, Tail(puts[p]))
        /\ pc' = pc
        /\ fd' = fd
        /\ cwd' = cwd
        /\ freeing' = Put(freeing, p, "no")
    BY <1>1, <1>2 DEF PutFreed, Leave, ThenPut, Goto, iget, Opened, NotFound, aside, table, local, Dropped, Pops
  <2>3. /\ puts'[p] = Tail(puts[p])
        /\ loc'[p] = loc[p]
        /\ pc'[p] = pc[p]
        /\ fd'[p] = fd[p]
        /\ cwd'[p] = cwd[p]
        /\ freeing'[p] = "no"
    BY <1>0, <2>2 DEF Put, ProcType
  <2>4. Moves(p)
    BY <1>0, <2>2, <2>3, Unmoved DEF Moves, Put
  <2>5. ProcTypeOf(p)
    BY <1>1, <1>2, <2>3, Before, Constants DEF ProcTypeOf, Stations, MaybeInum
  <2>6. PlaceOK(p)'
    BY <1>0, <1>1, <1>2, <2>3 DEF PlaceOK, WantsParent
  <2>7. iref' \in [Inums -> Int]
    BY <1>0, <1>1, <1>2, <2>1 DEF TableType, Put
  <2>8. TableType' /\ RestType' /\ disk' \in Disks /\ stable' \in Disks
    BY <2>7, <1>core, <1>lock, <1>disk, <1>rest DEF TableType
  <2>9. Counts(p)
    <3> SUFFICES ASSUME NEW j \in Inums
                 PROVE  iref'[j] = iref[j] + PointersAre(p, j)' - PointersAre(p, j)
      BY DEF Counts
    <3>1. Found_in(puts[p], j) \in Nat
      BY FoundIn
    <3>2. Found_in(puts'[p], j) = Found_in(puts[p], j) - Is(Head(puts[p]).inum, j)
      BY <1>1, <1>2, <2>3, TailOfPuts
    <3>3. Found_in(puts'[p], j) \in Nat /\ iref[j] \in Int /\ j # Null
      BY <1>0, FoundIn DEF TableType
    <3>4. iref'[j] = iref[j] - Is(i, j)
      BY <1>0, <1>1, <1>2, <2>1, <3>3 DEF B, Is, TableType, Put
    <3>5. PointersAre(p, j)' = PointersAre(p, j) - Is(i, j) /\ PointersAre(p, j) \in Int /\ Is(i, j) \in Int
      BY <2>3, <3>1, <3>2 DEF PointersAre, B, Is
    <3>6. QED
      BY <3>3, <3>4, <3>5
  <2>10. QED
    BY <2>4, <2>5, <2>6, <2>8, <2>9, StepBase

-----------------------------------------------------------------------------
(* The initial states, crashes and the boot *)

(* One pointer of each process *)
LEMMA UnitsOnes ==
  ASSUME NEW h \in [Procs -> Nat], \A x \in Procs : h[x] = 1
  PROVE  Cardinality(Units(h)) = Cardinality(Procs)
<1> DEFINE f == [x \in Procs |-> <<x, 1>>]
<1>1. IsFiniteSet(Procs)
  OBVIOUS
<1>2. Units(h) = {<<x, 1>> : x \in Procs}
  <2>1. \A y : y \in Units(h) <=> \E x \in Procs : \E k \in 1 .. h[x] : y = <<x, k>>
    BY UnitsOf
  <2>2. \A x \in Procs : 1 .. h[x] = {1}
    OBVIOUS
  <2>3. \A y : y \in Units(h) <=> \E x \in Procs : y = <<x, 1>>
    BY <2>1, <2>2
  <2>4. QED
    BY <2>3
<1>3. f \in Bijection(Procs, Units(h))
  <2>1. f \in [Procs -> Units(h)]
    BY <1>2
  <2>2. \A a, b \in Procs : f[a] = f[b] => a = b
    OBVIOUS
  <2>3. \A y \in Units(h) : \E x \in Procs : f[x] = y
    BY <1>2
  <2>4. QED
    BY <2>1, <2>2, <2>3 DEF Bijection, Injection, Surjection, IsInjective
<1>4. QED
  BY <1>1, <1>3, FS_Bijection DEF ExistsBijection

(* No pointers *)
LEMMA UnitsNone ==
  ASSUME NEW h \in [Procs -> Nat], \A x \in Procs : h[x] = 0
  PROVE  Cardinality(Units(h)) = 0
<1>1. Units(h) = {}
  <2>1. \A y : y \in Units(h) <=> \E x \in Procs : \E k \in 1 .. h[x] : y = <<x, k>>
    BY UnitsOf
  <2>2. \A x \in Procs : 1 .. h[x] = {}
    OBVIOUS
  <2>3. QED
    BY <2>1, <2>2
<1>2. QED
  BY <1>1, FS_EmptySet

(* The processes and the inode table at boot *)
AtBoot ==
  /\ iref = [i \in Inums |-> IF i = Root THEN Cardinality(Procs) ELSE 0]
  /\ core = [i \in Inums |-> Unloaded]
  /\ lock = [i \in Inums |-> NoProc]
  /\ cwd = [p \in Procs |-> Root]
  /\ fd = [p \in Procs |-> Null]
  /\ pc = [p \in Procs |-> "user"]
  /\ loc = [p \in Procs |-> NoLocals]
  /\ puts = [p \in Procs |-> <<>>]
  /\ freeing = [p \in Procs |-> "no"]

(* Every process has its working directory and no other pointer. *)
LEMMA BootBase == AtBoot => ProcType /\ TableType /\ (\A p \in Procs : PlaceOK(p)) /\ RefCount
<1> SUFFICES ASSUME AtBoot PROVE ProcType /\ TableType /\ (\A p \in Procs : PlaceOK(p)) /\ RefCount
  OBVIOUS
<1>1. ProcType
  BY Constants DEF AtBoot, ProcType, Stations, MaybeInum
<1>2. Cardinality(Procs) \in Nat
  BY FS_CardinalityType
<1>3. TableType
  <2>1. iref \in [Inums -> Int]
    BY <1>2 DEF AtBoot
  <2>2. QED
    BY <2>1, Constants DEF AtBoot, TableType
<1>4. ASSUME NEW p \in Procs PROVE PlaceOK(p)
  <2>1. pc[p] = "user" /\ puts[p] = <<>> /\ freeing[p] = "no" /\ loc[p] = NoLocals
    BY DEF AtBoot
  <2>2. loc[p].cur = Null /\ loc[p].ip = Null /\ loc[p].old = Null
    BY <2>1, Constants
  <2>3. Len(puts[p]) <= 2
    BY <2>1
  <2>4. QED
    BY <2>1, <2>2, <2>3 DEF PlaceOK
<1>5. ASSUME NEW p \in Procs, NEW i \in Inums PROVE Pointers(p, i) = IF i = Root THEN 1 ELSE 0
  <2>1. /\ puts[p] = <<>> /\ loc[p] = NoLocals /\ cwd[p] = Root /\ fd[p] = Null
    BY DEF AtBoot
  <2>2. loc[p].cur = Null /\ loc[p].ip = Null /\ loc[p].old = Null
    BY <2>1, Constants
  <2>3. Found_in(puts[p], i) = 0
    BY <2>1, FoundIn
  <2>4. i # Null
    OBVIOUS
  <2>5. PointersAre(p, i) = IF i = Root THEN 1 ELSE 0
    BY <2>1, <2>2, <2>3, <2>4 DEF PointersAre, B
  <2>6. QED
    BY <1>1, <1>4, <2>5, PointersIs
<1>6. ASSUME NEW i \in Inums PROVE iref[i] = Cardinality(AllPointers(i))
  <2> DEFINE h == [x \in Procs |-> Pointers(x, i)]
  <2>1. h \in [Procs -> Nat] /\ AllPointers(i) = Units(h)
    BY <1>1, <1>4, AllPointersAre
  <2>2. \A x \in Procs : h[x] = IF i = Root THEN 1 ELSE 0
    BY <1>5
  <2> HIDE DEF h
  <2>3. Cardinality(Units(h)) = IF i = Root THEN Cardinality(Procs) ELSE 0
    BY <2>1, <2>2, UnitsOnes, UnitsNone
  <2>4. QED
    BY <2>1, <2>3 DEF AtBoot
<1>7. QED
  BY <1>1, <1>3, <1>4, <1>6 DEF RefCount

(* So it is after a crash. *)
LEMMA BootNext == AtBoot' => (ProcType /\ TableType /\ (\A p \in Procs : PlaceOK(p)) /\ RefCount)'
BY BootBase, PTL

(* An empty file system *)
LEMMA EmptyDiskType == EmptyDisk \in Disks
BY Constants DEF EmptyDisk, Disks, InodeTypes, MaybeInum

(* The invariant holds initially *)
LEMMA InitBase ==
  ASSUME FsInit
  PROVE  BaseInv
<1>1. AtBoot
  BY DEF FsInit, AtBoot
<1>2. disk \in Disks /\ stable \in Disks
  BY EmptyDiskType DEF FsInit
<1>3. RestType
  BY DEF FsInit, RestType
<1>4. QED
  BY <1>1, <1>2, <1>3, BootBase DEF BaseInv, FsTypeOK

(* and after a crash. *)
LEMMA CrashBase ==
  ASSUME BaseInv, Crash
  PROVE  BaseInv'
<1>1. AtBoot'
  BY DEF Crash, AtBoot
<1>2. disk' \in Disks /\ stable' \in Disks
  BY DEF Crash, BaseInv, FsTypeOK
<1>3. RestType'
  BY DEF Crash, RestType, Orphans, BaseInv, FsTypeOK, aside
<1>4. QED
  BY <1>1, <1>2, <1>3, BootNext DEF BaseInv, FsTypeOK

(* A stuttering step, and ireclaim(), leave the processes alone. *)
LEMMA AsideBase ==
  ASSUME BaseInv, UNCHANGED <<cwd, fd, local, table>>, RestType', disk' \in Disks, stable' \in Disks
  PROVE  BaseInv'
<1>1. ProcType' /\ TableType'
  BY DEF BaseInv, FsTypeOK, ProcType, TableType, local, table
<1>2. \A q \in Procs : PlaceOK(q)'
  BY DEF BaseInv, PlaceOK, WantsParent, local
<1>3. RefCount'
  BY DEF BaseInv, RefCount, AllPointers, Pointers, local, table
<1>4. QED
  BY <1>1, <1>2, <1>3 DEF BaseInv, FsTypeOK

(* ireclaim() *)
LEMMA ReclaimBase ==
  ASSUME BaseInv, Reclaim
  PROVE  BaseInv'
<1>0. disk \in Disks /\ RestType
  BY DEF BaseInv, FsTypeOK
<1>1. PICK i \in boot : disk' = Freed(disk, i) /\ boot' = boot \ {i}
  BY DEF Reclaim
<1>2. i \in Inums
  BY <1>0 DEF RestType
<1>3. disk' \in Disks /\ stable' \in Disks
  BY <1>0, <1>1, <1>2, FreedType DEF Reclaim
<1>4. RestType'
  BY <1>0, <1>1 DEF Reclaim, RestType, aside
<1>5. QED
  BY <1>3, <1>4, AsideBase DEF Reclaim, table, local

(* Each step of a process *)
LEMMA CallBase ==
  ASSUME BaseInv, NEW p \in Procs, CallStep(p) \/ Close(p) \/ \E r \in workload : Enter(p, r)
  PROVE  BaseInv' /\ \A q \in Procs : q # p => Same(q)
<1>1. CASE End(p) \/ Close(p)
  BY <1>1, EndBase, CloseBase
<1>2. CASE Iput(p)
  BY <1>2, PutRefBase, PutLastBase, PutFreeBase, PutFreedBase DEF Iput
<1>3. CASE Lookup(p)
  BY <1>3, WalkBase, WalkParentBase, OpenBase, ChdirBase DEF Lookup
<1>4. CASE Create(p)
  BY <1>4, CreateLookupBase, CreateExistsBase, IallocBase, IallocFailsBase, IallocGetBase, CreateLinkBase,
     CreateFailsBase, CreatedBase DEF Create
<1>5. CASE RemoveName(p)
  BY <1>5, UnlinkLookupBase, UnlinkRefusedBase, UnlinkBase, UnlinkedBase DEF RemoveName
<1>6. CASE Link(p)
  BY <1>6, LinkOldBase, LinkNewBase, LinkFailsBase, UndoLinkBase DEF Link
<1>7. CASE PathOfCwd(p)
  BY <1>7, GetcwdBase, GoUpBase, ScanParentBase DEF PathOfCwd
<1>8. CASE \E r \in workload : Enter(p, r)
  BY <1>8, EnterBase
<1>9. QED
  BY <1>1, <1>2, <1>3, <1>4, <1>5, <1>6, <1>7, <1>8 DEF CallStep

(* Types, places and the counts of references are invariants: the count    *)
(* that iput() decides by is that of the pointers to the inode, in every   *)
(* interleaving of calls, whether busy directories are removed or not.     *)
THEOREM FsBase == FsSpec => []BaseInv
<1>1. FsInit => BaseInv
  BY InitBase
<1>2. BaseInv /\ [FsNext]_fsVars => BaseInv'
  <2> SUFFICES ASSUME BaseInv, [FsNext]_fsVars PROVE BaseInv'
    OBVIOUS
  <2>1. CASE \E p \in Procs : CallStep(p) \/ Close(p) \/ \E r \in workload : Enter(p, r)
    BY <2>1, CallBase
  <2>2. CASE Crash
    BY <2>2, CrashBase
  <2>3. CASE Reclaim
    BY <2>3, ReclaimBase
  <2>4. CASE UNCHANGED fsVars
    <3>1. RestType' /\ disk' \in Disks /\ stable' \in Disks
      BY <2>4 DEF fsVars, BaseInv, FsTypeOK, RestType
    <3>2. QED
      BY <2>4, <3>1, AsideBase DEF fsVars, table, local
  <2>5. QED
    BY <2>1, <2>2, <2>3, <2>4 DEF FsNext
<1>3. QED
  BY <1>1, <1>2, PTL DEF FsSpec

(* "ip->ref tracks the number of in-memory pointers to the entry" (fs.c)   *)
THEOREM RefsCounted == FsSpec => []RefCount
<1>1. BaseInv => RefCount
  BY DEF BaseInv
<1>2. QED
  BY <1>1, FsBase, PTL

-----------------------------------------------------------------------------
(* Trees: what each update of the disk does to them *)

(* Sets of entries and of directories are finite. *)
LEMMA LinkSets ==
  ASSUME NEW d, NEW g, NEW i
  PROVE  /\ IsFiniteSet(NamesOf(d, g, i)) /\ Cardinality(NamesOf(d, g, i)) \in Nat
         /\ IsFiniteSet(SubsOf(d, g, i)) /\ Cardinality(SubsOf(d, g, i)) \in Nat
<1>1. IsFiniteSet(Inums \X Names)
  BY FS_Product
<1>2. NamesOf(d, g, i) \in SUBSET (Inums \X Names) /\ SubsOf(d, g, i) \in SUBSET Inums
  BY DEF NamesOf, SubsOf
<1>3. IsFiniteSet(NamesOf(d, g, i)) /\ IsFiniteSet(SubsOf(d, g, i))
  BY <1>1, <1>2, FS_Subset
<1>4. QED
  BY <1>3, FS_CardinalityType

(* One more and one less *)
LEMMA OneMore ==
  ASSUME NEW S, IsFiniteSet(S), NEW x, x \notin S
  PROVE  Cardinality(S \cup {x}) = Cardinality(S) + 1 /\ IsFiniteSet(S \cup {x})
BY FS_AddElement

(* An element less *)
LEMMA OneLess ==
  ASSUME NEW S, IsFiniteSet(S), NEW x, x \in S
  PROVE  Cardinality(S \ {x}) = Cardinality(S) - 1 /\ IsFiniteSet(S \ {x}) /\ Cardinality(S) >= 1
<1>1. IsFiniteSet(S \ {x}) /\ Cardinality(S \ {x}) = Cardinality(S) - 1
  BY FS_RemoveElement
<1>2. Cardinality(S \ {x}) \in Nat /\ Cardinality(S) \in Nat
  BY <1>1, FS_CardinalityType
<1>3. QED
  BY <1>1, <1>2

(* No element *)
LEMMA NoneIn ==
  ASSUME NEW S, IsFiniteSet(S)
  PROVE  Cardinality(S) = 0 <=> S = {}
BY FS_EmptySet

(* Sets of processes *)
LEMMA SomeProcs ==
  ASSUME NEW S \in SUBSET Procs
  PROVE  IsFiniteSet(S) /\ Cardinality(S) \in Nat
BY FS_Subset, FS_CardinalityType

(* An inode that has no links is in nobody's way. *)
LEMMA NoLinks ==
  ASSUME NEW d \in Disks, NEW g, NEW ex \in [Inums -> SUBSET Procs], LinksOK(d, g, ex),
         NEW i \in Inums, d.nlink[i] = 0
  PROVE  NamesOf(d, g, i) = {} /\ SubsOf(d, g, i) = {} /\ i \notin g /\ ex[i] = {}
<1> DEFINE a == Cardinality(NamesOf(d, g, i))
           b == Cardinality(SubsOf(d, g, i))
           c == Cardinality(ex[i])
           o == B(i \in g)
<1>1. a \in Nat /\ b \in Nat
  BY LinkSets
<1>2. c \in Nat /\ IsFiniteSet(ex[i])
  BY SomeProcs
<1>3. 0 = a + b + o + c
  BY DEF LinksOK
<1>4. o \in {0, 1} /\ (i \in g => o = 1)
  BY DEF B
<1> HIDE DEF a, b, c, o
<1>5. a = 0 /\ b = 0 /\ o = 0 /\ c = 0
  BY <1>1, <1>2, <1>3, <1>4
<1>6. QED
  BY <1>2, <1>4, <1>5, LinkSets, NoneIn DEF a, b, c

(* An inode with an entry has links. *)
LEMMA NamedLinks ==
  ASSUME NEW d \in Disks, NEW g, NEW ex \in [Inums -> SUBSET Procs], LinksOK(d, g, ex),
         NEW x \in Inums, NEW n \in Names, LiveIn(d, g, x), d.ent[x][n] \in Inums
  PROVE  d.nlink[d.ent[x][n]] > 0
<1> DEFINE i == d.ent[x][n]
           a == Cardinality(NamesOf(d, g, i))
           b == Cardinality(SubsOf(d, g, i))
           c == Cardinality(ex[i])
           o == B(i \in g)
<1>1. a \in Nat /\ b \in Nat /\ c \in Nat /\ o \in Nat
  BY LinkSets, SomeProcs DEF B
<1>2. <<x, n>> \in NamesOf(d, g, i)
  BY DEF NamesOf
<1>3. a >= 1
  BY <1>2, LinkSets, OneLess
<1>4. d.nlink[i] = a + b + o + c
  BY DEF LinksOK
<1> HIDE DEF a, b, c, o
<1>5. QED
  BY <1>1, <1>3, <1>4

(* Links depend on the entries of the directories in use. *)
LEMMA SameLinks ==
  ASSUME NEW d, NEW e, NEW g, NEW h, \A i \in Inums : LiveIn(e, h, i) <=> LiveIn(d, g, i),
         e.ent = d.ent, e.up = d.up, NEW i
  PROVE  NamesOf(e, h, i) = NamesOf(d, g, i) /\ SubsOf(e, h, i) = SubsOf(d, g, i)
BY DEF NamesOf, SubsOf

(* No directory comes into use, but perhaps i, and none is moved. *)
KeepsUps(d, g, e, h) == \A j \in Inums : LiveIn(e, h, j) => LiveIn(d, g, j) /\ e.up[j] = d.up[j]
AddsLeaf(d, g, e, h, i) ==
  /\ i # Root /\ SubsOf(d, g, i) = {} /\ e.up[i] # i
  /\ \A j \in Inums : LiveIn(e, h, j) /\ j # i => LiveIn(d, g, j) /\ e.up[j] = d.up[j]

(* Removing directories closes no circle. *)
LEMMA StaysGrounded ==
  ASSUME NEW d, NEW e, NEW g, NEW h, Grounded(d, g), KeepsUps(d, g, e, h)
  PROVE  Grounded(e, h)
<1> SUFFICES ASSUME NEW T \in SUBSET Inums, T # {}, \A x \in T : LiveIn(e, h, x)
             PROVE  /\ \E x \in T : \A y \in T : e.up[y] = x => y = Root
                    /\ \E x \in T : x = Root \/ e.up[x] \notin T
  BY DEF Grounded
<1>1. \A x \in T : LiveIn(d, g, x) /\ e.up[x] = d.up[x]
  BY DEF KeepsUps
<1>2. /\ \E x \in T : \A y \in T : d.up[y] = x => y = Root
      /\ \E x \in T : x = Root \/ d.up[x] \notin T
  BY <1>1 DEF Grounded
<1>3. QED
  BY <1>1, <1>2

(* Neither does a new directory in which nothing is yet. *)
LEMMA LeafGrounded ==
  ASSUME NEW d, NEW e, NEW g, NEW h, Grounded(d, g), NEW i \in Inums, AddsLeaf(d, g, e, h, i)
  PROVE  Grounded(e, h)
<1> SUFFICES ASSUME NEW T \in SUBSET Inums, T # {}, \A x \in T : LiveIn(e, h, x)
             PROVE  /\ \E x \in T : \A y \in T : e.up[y] = x => y = Root
                    /\ \E x \in T : x = Root \/ e.up[x] \notin T
  BY DEF Grounded
<1> USE DEF AddsLeaf
<1> DEFINE U == T \ {i}
<1>1. \A x \in U : x \in Inums /\ LiveIn(d, g, x) /\ e.up[x] = d.up[x] /\ e.up[x] # i
  BY DEF SubsOf
<1>2. CASE i \in T
  <2>1. \E x \in T : \A y \in T : e.up[y] = x => y = Root
    BY <1>1, <1>2
  <2>2. CASE U = {}
    BY <1>2, <2>1, <2>2
  <2>3. CASE U # {}
    <3>1. U \in SUBSET Inums /\ \A x \in U : LiveIn(d, g, x)
      BY <1>1
    <3> HIDE DEF U
    <3>2. PICK x \in U : x = Root \/ d.up[x] \notin U
      BY <2>3, <3>1 DEF Grounded
    <3>3. QED
      BY <1>1, <2>1, <3>2 DEF U
  <2>4. QED
    BY <2>2, <2>3
<1>3. CASE i \notin T
  <2>1. \A x \in T : LiveIn(d, g, x) /\ e.up[x] = d.up[x]
    BY <1>1, <1>3
  <2>2. /\ \E x \in T : \A y \in T : d.up[y] = x => y = Root
        /\ \E x \in T : x = Root \/ d.up[x] \notin T
    BY <2>1 DEF Grounded
  <2>3. QED
    BY <2>1, <2>2
<1>4. QED
  BY <1>2, <1>3

(* ialloc() *)
LEMMA TreeAlloc ==
  ASSUME NEW d \in Disks, NEW e \in Disks, NEW g, NEW ex \in [Inums -> SUBSET Procs],
         TreeOK(d, g), LinksOK(d, g, ex), NEW i \in Inums, NEW t \in {"file", "dir"},
         d.type[i] = "free", e.type = [d.type EXCEPT ![i] = t], e.nlink = [d.nlink EXCEPT ![i] = 0],
         e.ent = d.ent, e.up = d.up
  PROVE  /\ TreeOK(e, g) /\ LinksOK(e, g, ex)
         /\ \A j \in Inums : LiveIn(e, g, j) <=> LiveIn(d, g, j)
<1>0. NodeOK(d, g, i)
  BY DEF TreeOK
<1>1. d.nlink[i] = 0 /\ e.nlink = d.nlink /\ d.up[i] = Null /\ d.ent[i] = EmptyDir
  BY <1>0 DEF NodeOK, LiveIn, Disks
<1>2. ASSUME NEW j \in Inums PROVE LiveIn(e, g, j) <=> LiveIn(d, g, j)
  BY <1>1 DEF LiveIn, Disks
<1>3. LinksOK(e, g, ex)
  <2>1. \A j \in Inums : NamesOf(e, g, j) = NamesOf(d, g, j) /\ SubsOf(e, g, j) = SubsOf(d, g, j)
    BY <1>2, SameLinks
  <2>2. QED
    BY <1>1, <2>1 DEF LinksOK
<1>4. LiveIn(e, g, Root) /\ e.up[Root] = Root
  BY <1>2 DEF TreeOK
<1>5. ASSUME NEW j \in Inums PROVE NodeOK(e, g, j)
  <2>1. NodeOK(d, g, j)
    BY DEF TreeOK
  <2>2. CASE j = i
    BY <1>0, <1>1, <1>2, <2>2 DEF NodeOK, LiveIn, Disks
  <2>3. CASE j # i
    <3>1. e.type[j] = d.type[j] /\ e.nlink[j] = d.nlink[j]
      BY <1>1, <2>3 DEF Disks
    <3>2. ASSUME LiveIn(d, g, j) PROVE DirOK(e, g, j)
      <4>1. DirOK(d, g, j)
        BY <2>1, <3>2 DEF NodeOK
      <4>2. LiveIn(e, g, e.up[j])
        BY <4>1, <1>2 DEF DirOK, LiveIn
      <4>3. ASSUME NEW n \in Names, e.ent[j][n] # Null PROVE EntryOK(e, g, j, n, e.ent[j][n])
        <5> DEFINE k == e.ent[j][n]
        <5>1. EntryOK(d, g, j, n, k)
          BY <4>1, <4>3 DEF DirOK
        <5>2. k # i /\ k \in Inums
          BY <1>1, <5>1 DEF EntryOK
        <5>3. e.type[k] = d.type[k] /\ e.nlink[k] = d.nlink[k]
          BY <1>1, <5>2 DEF Disks
        <5>4. QED
          BY <1>2, <5>1, <5>2, <5>3 DEF EntryOK
      <4>4. QED
        BY <4>1, <4>2, <4>3 DEF DirOK
    <3>3. QED
      BY <1>2, <2>1, <3>1, <3>2 DEF NodeOK
  <2>4. QED
    BY <2>2, <2>3
<1>6. Grounded(e, g)
  <2>1. Grounded(d, g)
    BY DEF TreeOK
  <2>2. KeepsUps(d, g, e, g)
    BY <1>2 DEF KeepsUps
  <2>3. QED
    BY <2>1, <2>2, StaysGrounded
<1>7. QED
  BY <1>2, <1>3, <1>4, <1>5, <1>6 DEF TreeOK

(* itrunc() and the end of an inode without links *)
LEMMA TreeFreed ==
  ASSUME NEW d \in Disks, NEW e \in Disks, NEW g, NEW ex \in [Inums -> SUBSET Procs],
         TreeOK(d, g), LinksOK(d, g, ex), NEW i \in Inums,
         d.nlink[i] = 0, e.type = [d.type EXCEPT ![i] = "free"], e.nlink = d.nlink,
         e.ent = [d.ent EXCEPT ![i] = EmptyDir], e.up = [d.up EXCEPT ![i] = Null]
  PROVE  /\ TreeOK(e, g) /\ LinksOK(e, g, ex)
         /\ \A j \in Inums : LiveIn(e, g, j) <=> LiveIn(d, g, j)
<1>0. NodeOK(d, g, i) /\ ~LiveIn(d, g, i)
  BY DEF TreeOK, LiveIn
<1>1. d.ent[i] = EmptyDir /\ e.ent = d.ent
  BY <1>0 DEF NodeOK, Disks
<1>2. ASSUME NEW j \in Inums PROVE LiveIn(e, g, j) <=> LiveIn(d, g, j)
  BY <1>0 DEF LiveIn, Disks
<1>3. \A j \in Inums : j # i => e.type[j] = d.type[j] /\ e.up[j] = d.up[j]
  BY DEF Disks
<1>4. LinksOK(e, g, ex)
  <2>1. ASSUME NEW j \in Inums
        PROVE  NamesOf(e, g, j) = NamesOf(d, g, j) /\ SubsOf(e, g, j) = SubsOf(d, g, j)
    <3>1. NamesOf(e, g, j) = NamesOf(d, g, j)
      BY <1>1, <1>2 DEF NamesOf
    <3>2. \A k \in Inums : LiveIn(d, g, k) => e.up[k] = d.up[k]
      BY <1>0, <1>3
    <3>3. QED
      BY <3>1, <3>2, <1>2 DEF SubsOf
  <2>2. QED
    BY <2>1 DEF LinksOK
<1>5. LiveIn(e, g, Root) /\ e.up[Root] = Root
  BY <1>0, <1>2, <1>3 DEF TreeOK
<1>6. ASSUME NEW j \in Inums PROVE NodeOK(e, g, j)
  <2>1. NodeOK(d, g, j)
    BY DEF TreeOK
  <2>2. CASE j = i
    BY <1>0, <1>1, <1>2, <2>1, <2>2 DEF NodeOK, Disks
  <2>3. CASE j # i
    <3>2. ASSUME LiveIn(d, g, j) PROVE DirOK(e, g, j)
      <4>1. DirOK(d, g, j) /\ e.up[j] = d.up[j]
        BY <1>3, <2>1, <2>3, <3>2 DEF NodeOK
      <4>2. LiveIn(e, g, e.up[j])
        BY <4>1, <1>2 DEF DirOK, LiveIn
      <4>3. ASSUME NEW n \in Names, e.ent[j][n] # Null PROVE EntryOK(e, g, j, n, e.ent[j][n])
        <5> DEFINE k == e.ent[j][n]
        <5>1. EntryOK(d, g, j, n, k)
          BY <1>1, <4>1, <4>3 DEF DirOK
        <5>2. k # i /\ k \in Inums
          BY <5>1 DEF EntryOK
        <5>3. e.type[k] = d.type[k] /\ e.up[k] = d.up[k]
          BY <1>3, <5>2
        <5>4. QED
          BY <1>1, <1>2, <5>1, <5>2, <5>3 DEF EntryOK
      <4>4. QED
        BY <1>1, <4>1, <4>2, <4>3 DEF DirOK
    <3>3. QED
      BY <1>1, <1>2, <1>3, <2>1, <2>3, <3>2 DEF NodeOK
  <2>4. QED
    BY <2>2, <2>3
<1>7. Grounded(e, g)
  <2>1. Grounded(d, g)
    BY DEF TreeOK
  <2>2. KeepsUps(d, g, e, g)
    BY <1>0, <1>2, <1>3 DEF KeepsUps
  <2>3. QED
    BY <2>1, <2>2, StaysGrounded
<1>8. QED
  BY <1>2, <1>4, <1>5, <1>6, <1>7 DEF TreeOK

(* A count changes, of an inode that is no directory in use. *)
LEMMA TreeCounts ==
  ASSUME NEW d \in Disks, NEW e \in Disks, NEW g, NEW h, NEW ex \in [Inums -> SUBSET Procs],
         TreeOK(d, g), LinksOK(e, h, ex), NEW i \in Inums, NEW n \in Int, n >= 0, d.type[i] # "free",
         e.type = d.type, e.nlink = [d.nlink EXCEPT ![i] = n], e.ent = d.ent, e.up = d.up,
         \A j \in Inums : j # i => (j \in h <=> j \in g), ~LiveIn(d, g, i), ~LiveIn(e, h, i)
  PROVE  TreeOK(e, h) /\ \A j \in Inums : LiveIn(e, h, j) <=> LiveIn(d, g, j)
<1>1. \A j \in Inums : j # i => e.nlink[j] = d.nlink[j]
  BY DEF Disks
<1>2. ASSUME NEW j \in Inums PROVE LiveIn(e, h, j) <=> LiveIn(d, g, j)
  BY <1>1 DEF LiveIn
<1>3. LiveIn(e, h, Root) /\ e.up[Root] = Root
  BY <1>2 DEF TreeOK
<1>4. ASSUME NEW j \in Inums PROVE NodeOK(e, h, j)
  <2>1. NodeOK(d, g, j)
    BY DEF TreeOK
  <2>2. e.nlink[j] >= 0 /\ (e.type[j] = "free" => e.nlink[j] = 0)
    BY <2>1 DEF NodeOK, Disks
  <2>3. ASSUME LiveIn(d, g, j) PROVE DirOK(e, h, j)
    <3>1. DirOK(d, g, j)
      BY <2>1, <2>3 DEF NodeOK
    <3>2. LiveIn(e, h, e.up[j])
      BY <1>2, <3>1 DEF DirOK, LiveIn
    <3>3. ASSUME NEW m \in Names, e.ent[j][m] # Null PROVE EntryOK(e, h, j, m, e.ent[j][m])
      <4> DEFINE k == e.ent[j][m]
      <4>1. EntryOK(d, g, j, m, k)
        BY <3>1, <3>3 DEF DirOK
      <4>2. k \in Inums
        BY <4>1 DEF EntryOK
      <4>3. e.nlink[k] > 0
        BY <1>2, <2>3, <4>2, NamedLinks
      <4>4. QED
        BY <1>2, <4>1, <4>2, <4>3 DEF EntryOK
    <3>4. QED
      BY <3>1, <3>2, <3>3 DEF DirOK
  <2>4. QED
    BY <1>2, <2>1, <2>2, <2>3 DEF NodeOK
<1>5. Grounded(e, h)
  <2>1. Grounded(d, g)
    BY DEF TreeOK
  <2>2. KeepsUps(d, g, e, h)
    BY <1>2 DEF KeepsUps
  <2>3. QED
    BY <2>1, <2>2, StaysGrounded
<1>6. QED
  BY <1>2, <1>3, <1>4, <1>5 DEF TreeOK

(* unlink() lowers the count of what it has taken out of its directory. *)
LEMMA TreeLowered ==
  ASSUME NEW d \in Disks, NEW e \in Disks, NEW g, NEW ex \in [Inums -> SUBSET Procs],
         TreeOK(d, g), LinksOK(d, g, ex), NEW i \in Inums, i \in g, d.type[i] = "dir" => ex[i] = {},
         e.type = d.type, e.nlink = [d.nlink EXCEPT ![i] = d.nlink[i] - 1], e.ent = d.ent, e.up = d.up
  PROVE  /\ TreeOK(e, g \ {i}) /\ LinksOK(e, g \ {i}, ex)
         /\ \A j \in Inums : LiveIn(e, g \ {i}, j) <=> LiveIn(d, g, j)
<1> DEFINE h == g \ {i}
           a == Cardinality(NamesOf(d, g, i))
           b == Cardinality(SubsOf(d, g, i))
           c == Cardinality(ex[i])
<1>0. d.nlink \in [Inums -> Int]
  BY DEF Disks
<1>1. a \in Nat /\ b \in Nat /\ c \in Nat /\ d.nlink[i] = a + b + 1 + c
  BY LinkSets, SomeProcs DEF B, LinksOK
<1>2. ~LiveIn(d, g, i) /\ d.type[i] # "free"
  <2>1. NodeOK(d, g, i)
    BY DEF TreeOK
  <2> HIDE DEF a, b, c
  <2>2. d.nlink[i] > 0
    BY <1>1
  <2>3. QED
    BY <2>1, <2>2 DEF NodeOK, LiveIn
<1>3. ~LiveIn(e, h, i)
  <2>1. CASE d.type[i] = "dir"
    <3>1. NamesOf(d, g, i) = {}
      <4> SUFFICES ASSUME NEW x \in NamesOf(d, g, i) PROVE FALSE
        OBVIOUS
      <4>1. x[1] \in Inums /\ x[2] \in Names /\ LiveIn(d, g, x[1]) /\ d.ent[x[1]][x[2]] = i
        BY DEF NamesOf
      <4>2. DirOK(d, g, x[1]) /\ i # Null
        BY <4>1 DEF TreeOK, NodeOK
      <4>3. EntryOK(d, g, x[1], x[2], i)
        BY <4>1, <4>2 DEF DirOK
      <4>4. QED
        BY <1>2, <2>1, <4>3 DEF EntryOK
    <3>2. SubsOf(d, g, i) = {}
      <4> SUFFICES ASSUME NEW x \in SubsOf(d, g, i) PROVE FALSE
        OBVIOUS
      <4>1. x \in Inums /\ LiveIn(d, g, x) /\ d.up[x] = i
        BY DEF SubsOf
      <4>2. DirOK(d, g, x)
        BY <4>1 DEF TreeOK, NodeOK
      <4>3. QED
        BY <1>2, <4>1, <4>2 DEF DirOK
    <3>3. a = 0 /\ b = 0 /\ c = 0
      BY <2>1, <3>1, <3>2, NoneIn, FS_EmptySet
    <3> HIDE DEF a, b, c
    <3>4. e.nlink[i] = 0
      BY <1>0, <1>1, <3>3
    <3>5. QED
      BY <3>4 DEF LiveIn
  <2>2. CASE d.type[i] # "dir"
    BY <2>2 DEF LiveIn
  <2>3. QED
    BY <2>1, <2>2
<1>4. \A j \in Inums : j # i => e.nlink[j] = d.nlink[j] /\ (j \in h <=> j \in g)
  BY <1>0
<1>5. \A j \in Inums : LiveIn(e, h, j) <=> LiveIn(d, g, j)
  BY <1>2, <1>3, <1>4 DEF LiveIn
<1>6. LinksOK(e, h, ex)
  <2> SUFFICES ASSUME NEW j \in Inums
               PROVE  e.nlink[j] = Cardinality(NamesOf(e, h, j)) + Cardinality(SubsOf(e, h, j))
                                     + B(j \in h) + Cardinality(ex[j])
    BY DEF LinksOK
  <2>1. NamesOf(e, h, j) = NamesOf(d, g, j) /\ SubsOf(e, h, j) = SubsOf(d, g, j)
    <3> HIDE DEF h
    <3>1. QED
      BY <1>5, SameLinks
  <2>2. CASE j = i
    <3>1. B(j \in h) = 0
      BY <2>2 DEF B
    <3>2. e.nlink[j] = d.nlink[i] - 1
      BY <1>0, <2>2
    <3> HIDE DEF h
    <3>3. e.nlink[j] = a + b + 0 + c
      <4> HIDE DEF a, b, c
      <4>1. QED
        BY <1>1, <3>2
    <3>4. QED
      BY <2>1, <2>2, <3>1, <3>3
  <2>3. CASE j # i
    <3>1. d.nlink[j] = Cardinality(NamesOf(d, g, j)) + Cardinality(SubsOf(d, g, j)) + B(j \in g) + Cardinality(ex[j])
      BY DEF LinksOK
    <3>2. B(j \in h) = B(j \in g)
      BY <2>3 DEF B
    <3>3. QED
      BY <1>4, <2>1, <2>3, <3>1, <3>2
  <2>4. QED
    BY <2>2, <2>3
<1>7. d.nlink[i] - 1 \in Int /\ d.nlink[i] - 1 >= 0
  <2> HIDE DEF a, b, c
  <2>1. QED
    BY <1>1
<1>8. TreeOK(e, h)
  <2> DEFINE n == d.nlink[i] - 1
  <2>1. n \in Int /\ n >= 0 /\ e.nlink = [d.nlink EXCEPT ![i] = n]
    BY <1>7
  <2> HIDE DEF n, h
  <2>2. QED
    BY <1>2, <1>3, <1>4, <1>6, <2>1, TreeCounts
<1>9. QED
  BY <1>5, <1>6, <1>8

(* link() raises the count of a file, or takes that back. *)
LEMMA TreeRaised ==
  ASSUME NEW d \in Disks, NEW e \in Disks, NEW g,
         NEW ex \in [Inums -> SUBSET Procs], NEW ey \in [Inums -> SUBSET Procs],
         TreeOK(d, g), LinksOK(d, g, ex), NEW i \in Inums, d.type[i] = "file", NEW p \in Procs, NEW n \in Int,
         \/ n = d.nlink[i] + 1 /\ p \notin ex[i] /\ ey[i] = ex[i] \cup {p}
         \/ n = d.nlink[i] - 1 /\ p \in ex[i] /\ ey[i] = ex[i] \ {p},
         \A j \in Inums : j # i => ey[j] = ex[j],
         e.type = d.type, e.nlink = [d.nlink EXCEPT ![i] = n], e.ent = d.ent, e.up = d.up
  PROVE  /\ TreeOK(e, g) /\ LinksOK(e, g, ey)
         /\ \A j \in Inums : LiveIn(e, g, j) <=> LiveIn(d, g, j)
<1> DEFINE a == Cardinality(NamesOf(d, g, i))
           b == Cardinality(SubsOf(d, g, i))
           c == Cardinality(ex[i])
           o == B(i \in g)
<1>0. d.nlink \in [Inums -> Int] /\ d.type \in [Inums -> InodeTypes]
  BY DEF Disks
<1>1. a \in Nat /\ b \in Nat /\ c \in Nat /\ o \in Nat /\ d.nlink[i] = a + b + o + c
  BY LinkSets, SomeProcs DEF B, LinksOK
<1>2. IsFiniteSet(ex[i])
  BY SomeProcs
<1>3. \/ n = d.nlink[i] + 1 /\ Cardinality(ey[i]) = c + 1
      \/ n = d.nlink[i] - 1 /\ Cardinality(ey[i]) = c - 1 /\ c >= 1
  BY <1>2, OneMore, OneLess
<1> HIDE DEF a, b, c, o
<1>4. n = a + b + o + Cardinality(ey[i]) /\ n >= 0 /\ Cardinality(ey[i]) \in Nat
  BY <1>1, <1>3
<1>5. \A j \in Inums : LiveIn(e, g, j) <=> LiveIn(d, g, j)
  BY <1>0 DEF LiveIn
<1>6. LinksOK(e, g, ey)
  <2> SUFFICES ASSUME NEW j \in Inums
               PROVE  e.nlink[j] = Cardinality(NamesOf(e, g, j)) + Cardinality(SubsOf(e, g, j))
                                     + B(j \in g) + Cardinality(ey[j])
    BY DEF LinksOK
  <2>1. NamesOf(e, g, j) = NamesOf(d, g, j) /\ SubsOf(e, g, j) = SubsOf(d, g, j)
    BY <1>5, SameLinks
  <2>2. CASE j = i
    BY <1>0, <1>4, <2>1, <2>2 DEF a, b, o
  <2>3. CASE j # i
    BY <1>0, <2>1, <2>3 DEF LinksOK
  <2>4. QED
    BY <2>2, <2>3
<1>7. ~LiveIn(d, g, i) /\ ~LiveIn(e, g, i)
  BY DEF LiveIn
<1>8. TreeOK(e, g)
  BY <1>4, <1>6, <1>7, TreeCounts
<1>9. QED
  BY <1>5, <1>6, <1>8

(* link() enters the new name. *)
LEMMA TreeNamed ==
  ASSUME NEW d \in Disks, NEW e \in Disks, NEW g,
         NEW ex \in [Inums -> SUBSET Procs], NEW ey \in [Inums -> SUBSET Procs],
         TreeOK(d, g), LinksOK(d, g, ex), NEW i \in Inums, d.type[i] = "file", NEW p \in Procs,
         p \in ex[i], ey[i] = ex[i] \ {p}, \A j \in Inums : j # i => ey[j] = ex[j],
         NEW x \in Inums, NEW n \in Names, LiveIn(d, g, x), d.ent[x][n] = Null,
         e.type = d.type, e.nlink = d.nlink, e.ent = [d.ent EXCEPT ![x] = [d.ent[x] EXCEPT ![n] = i]], e.up = d.up
  PROVE  /\ TreeOK(e, g) /\ LinksOK(e, g, ey)
         /\ \A j \in Inums : LiveIn(e, g, j) <=> LiveIn(d, g, j)
<1> DEFINE a == Cardinality(NamesOf(d, g, i))
           b == Cardinality(SubsOf(d, g, i))
           c == Cardinality(ex[i])
           o == B(i \in g)
<1>0. d.ent \in [Inums -> [Names -> MaybeInum]] /\ d.ent[x] \in [Names -> MaybeInum] /\ i # Null
  BY DEF Disks
<1>1. \A j \in Inums : LiveIn(e, g, j) <=> LiveIn(d, g, j)
  BY DEF LiveIn
<1>2. e.ent[x][n] = i /\ \A y \in Inums, m \in Names : <<y, m>> # <<x, n>> => e.ent[y][m] = d.ent[y][m]
  BY <1>0
<1>3. /\ NamesOf(e, g, i) = NamesOf(d, g, i) \cup {<<x, n>>} /\ <<x, n>> \notin NamesOf(d, g, i)
      /\ \A j \in Inums : j # i => NamesOf(e, g, j) = NamesOf(d, g, j)
  <2>1. \A j : \A y \in Inums, m \in Names :
          <<y, m>> \in NamesOf(e, g, j) <=> LiveIn(d, g, y) /\ e.ent[y][m] = j
    BY <1>1 DEF NamesOf
  <2>2. \A j : \A y \in Inums, m \in Names :
          <<y, m>> \in NamesOf(d, g, j) <=> LiveIn(d, g, y) /\ d.ent[y][m] = j
    BY DEF NamesOf
  <2>3. \A j : NamesOf(e, g, j) \subseteq Inums \X Names /\ NamesOf(d, g, j) \subseteq Inums \X Names
    BY DEF NamesOf
  <2>4. <<x, n>> \notin NamesOf(d, g, i)
    BY <1>0, <2>2
  <2>5. NamesOf(e, g, i) = NamesOf(d, g, i) \cup {<<x, n>>}
    BY <1>2, <2>1, <2>2, <2>3
  <2>6. ASSUME NEW j \in Inums, j # i PROVE NamesOf(e, g, j) = NamesOf(d, g, j)
    <3>1. j # Null
      OBVIOUS
    <3>2. ASSUME NEW y \in Inums, NEW m \in Names
          PROVE  <<y, m>> \in NamesOf(e, g, j) <=> <<y, m>> \in NamesOf(d, g, j)
      <4>1. CASE <<y, m>> = <<x, n>>
        <5>1. y = x /\ m = n
          BY <4>1
        <5>2. QED
          BY <1>2, <2>1, <2>2, <2>6, <3>1, <5>1
      <4>2. CASE <<y, m>> # <<x, n>>
        BY <1>2, <2>1, <2>2, <4>2
      <4>3. QED
        BY <4>1, <4>2
    <3>3. \A z \in Inums \X Names : z \in NamesOf(e, g, j) <=> z \in NamesOf(d, g, j)
      BY <3>2
    <3>4. QED
      BY <2>3, <3>3
  <2>7. QED
    BY <2>4, <2>5, <2>6
<1>4. Cardinality(NamesOf(e, g, i)) = a + 1
  BY <1>3, LinkSets, OneMore
<1>5. \A j \in Inums : SubsOf(e, g, j) = SubsOf(d, g, j)
  BY <1>1 DEF SubsOf
<1>6. a \in Nat /\ b \in Nat /\ c \in Nat /\ o \in Nat /\ d.nlink[i] = a + b + o + c
  BY LinkSets, SomeProcs DEF B, LinksOK
<1>7. Cardinality(ey[i]) = c - 1 /\ c >= 1
  BY SomeProcs, OneLess
<1>8. LinksOK(e, g, ey)
  <2> SUFFICES ASSUME NEW j \in Inums
               PROVE  e.nlink[j] = Cardinality(NamesOf(e, g, j)) + Cardinality(SubsOf(e, g, j))
                                     + B(j \in g) + Cardinality(ey[j])
    BY DEF LinksOK
  <2>1. CASE j = i
    <3>1. Cardinality(SubsOf(e, g, i)) = b
      BY <1>5
    <3> HIDE DEF a, b, c
    <3>2. d.nlink[i] = (a + 1) + b + o + (c - 1)
      <4> HIDE DEF o
      <4>1. QED
        BY <1>6
    <3>3. QED
      BY <1>4, <1>7, <2>1, <3>1, <3>2
  <2>2. CASE j # i
    BY <1>3, <1>5, <2>2 DEF LinksOK
  <2>3. QED
    BY <2>1, <2>2
<1>9. LiveIn(e, g, Root) /\ e.up[Root] = Root
  BY <1>1 DEF TreeOK
<1>10. ASSUME NEW j \in Inums PROVE NodeOK(e, g, j)
  <2>1. NodeOK(d, g, j)
    BY DEF TreeOK
  <2>2. ~LiveIn(d, g, j) => e.ent[j] = d.ent[j]
    BY <1>0
  <2>3. ASSUME LiveIn(d, g, j) PROVE DirOK(e, g, j)
    <3>1. DirOK(d, g, j)
      BY <2>1, <2>3 DEF NodeOK
    <3>2. LiveIn(e, g, e.up[j])
      BY <1>1, <3>1 DEF DirOK, LiveIn
    <3>3. j # Root => e.up[j] # j /\ \E m \in Names : e.ent[e.up[j]][m] = j
      <4> SUFFICES ASSUME j # Root PROVE e.up[j] # j /\ \E m \in Names : e.ent[e.up[j]][m] = j
        OBVIOUS
      <4>1. PICK m \in Names : d.ent[d.up[j]][m] = j
        BY <3>1 DEF DirOK
      <4>2. d.up[j] \in Inums /\ j # Null
        BY <3>1 DEF DirOK, LiveIn
      <4>3. <<d.up[j], m>> # <<x, n>>
        BY <4>1, <4>2
      <4>4. e.ent[e.up[j]][m] = j
        BY <1>2, <4>1, <4>2, <4>3
      <4>5. QED
        BY <3>1, <4>4 DEF DirOK
    <3>4. ASSUME NEW m \in Names, e.ent[j][m] # Null PROVE EntryOK(e, g, j, m, e.ent[j][m])
      <4>1. CASE <<j, m>> = <<x, n>>
        <5>1. j = x /\ e.ent[j][m] = i
          BY <1>2, <4>1
        <5>2. d.nlink[i] > 0
          <6> HIDE DEF a, b, c, o
          <6>1. QED
            BY <1>6, <1>7
        <5>3. i # x /\ i # Root
          BY DEF LiveIn, TreeOK
        <5>4. QED
          BY <5>1, <5>2, <5>3 DEF EntryOK
      <4>2. CASE <<j, m>> # <<x, n>>
        <5> DEFINE k == d.ent[j][m]
        <5>1. e.ent[j][m] = k
          BY <1>2, <4>2
        <5>2. EntryOK(d, g, j, m, k)
          BY <3>1, <3>4, <5>1 DEF DirOK
        <5> HIDE DEF k
        <5>3. ASSUME d.type[k] = "dir", NEW mm \in Names, e.ent[j][mm] = k PROVE mm = m
          <6>1. k # i
            BY <5>3
          <6>2. <<j, mm>> # <<x, n>>
            BY <1>2, <5>3, <6>1
          <6>3. d.ent[j][mm] = k
            BY <1>2, <5>3, <6>2
          <6>4. QED
            BY <5>2, <5>3, <6>3 DEF EntryOK
        <5>4. k \in Inums
          BY <5>2 DEF EntryOK
        <5>5. QED
          BY <1>1, <5>1, <5>2, <5>3, <5>4 DEF EntryOK
      <4>3. QED
        BY <4>1, <4>2
    <3>5. QED
      BY <3>2, <3>3, <3>4 DEF DirOK
  <2>4. QED
    BY <1>1, <2>1, <2>2, <2>3 DEF NodeOK
<1>11. Grounded(e, g)
  <2>1. Grounded(d, g)
    BY DEF TreeOK
  <2>2. KeepsUps(d, g, e, g)
    BY <1>1 DEF KeepsUps
  <2>3. QED
    BY <2>1, <2>2, StaysGrounded
<1>12. QED
  BY <1>1, <1>8, <1>9, <1>10, <1>11 DEF TreeOK

(* unlink() erases an entry. *)
Erases(d, e, g, x, n, i, w) ==
  /\ LiveIn(d, g, x) /\ d.ent[x][n] = i /\ i \notin g /\ (d.type[i] = "dir" => d.ent[i] = EmptyDir)
  /\ w = IF d.type[i] = "dir" THEN d.nlink[x] - 1 ELSE d.nlink[x]
  /\ e.type = d.type /\ e.up = d.up /\ e.nlink = [d.nlink EXCEPT ![x] = w]
  /\ e.ent = [d.ent EXCEPT ![x] = [d.ent[x] EXCEPT ![n] = Null]]

(* The tree stays one, without what the entry named. *)
LEMMA TreeErased ==
  ASSUME NEW d \in Disks, NEW e \in Disks, NEW g, NEW ex \in [Inums -> SUBSET Procs],
         TreeOK(d, g), LinksOK(d, g, ex), NEW x \in Inums, NEW n \in Names, NEW i \in Inums, NEW w \in Int,
         Erases(d, e, g, x, n, i, w)
  PROVE  /\ TreeOK(e, g \cup {i}) /\ LinksOK(e, g \cup {i}, ex)
         /\ \A j \in Inums : LiveIn(e, g \cup {i}, j) <=> LiveIn(d, g, j) /\ j # i
<1> USE DEF Erases
<1> DEFINE h == g \cup {i}
<1>0. /\ d.ent \in [Inums -> [Names -> MaybeInum]] /\ d.ent[x] \in [Names -> MaybeInum] /\ i # Null
      /\ d.nlink \in [Inums -> Int] /\ d.type \in [Inums -> InodeTypes]
  BY DEF Disks
<1>1. DirOK(d, g, x) /\ EntryOK(d, g, x, n, i)
  BY <1>0 DEF TreeOK, NodeOK, DirOK
<1>2. i # x /\ i # Root /\ d.nlink[i] > 0
  BY <1>1 DEF EntryOK
<1>dir. d.type[i] = "dir" => LiveIn(d, g, i) /\ d.up[i] = x /\ \A m \in Names : d.ent[x][m] = i => m = n
  BY <1>1 DEF EntryOK
<1>3. d.type[i] = "dir" => d.nlink[x] >= 2
  <2> SUFFICES ASSUME d.type[i] = "dir" PROVE d.nlink[x] >= 2
    OBVIOUS
  <2> DEFINE a == Cardinality(NamesOf(d, g, x))
             b == Cardinality(SubsOf(d, g, x))
             c == Cardinality(ex[x])
             o == B(x \in g)
  <2>1. a \in Nat /\ b \in Nat /\ c \in Nat /\ o \in Nat /\ d.nlink[x] = a + b + o + c
    BY LinkSets, SomeProcs DEF B, LinksOK
  <2>2. i \in SubsOf(d, g, x)
    BY <1>dir DEF SubsOf
  <2>3. CASE x = Root
    <3>1. Root \in SubsOf(d, g, x) \ {i}
      BY <1>2, <2>3 DEF SubsOf, TreeOK
    <3>2. Cardinality(SubsOf(d, g, x) \ {i}) = b - 1 /\ IsFiniteSet(SubsOf(d, g, x) \ {i})
      BY <2>2, LinkSets, OneLess
    <3>3. Cardinality(SubsOf(d, g, x) \ {i}) >= 1
      BY <3>1, <3>2, OneLess
    <3>4. b >= 2
      <4> HIDE DEF b
      <4>1. QED
        BY <2>1, <3>2, <3>3
    <3> HIDE DEF a, b, c, o
    <3>5. QED
      BY <2>1, <3>4
  <2>4. CASE x # Root
    <3>1. PICK m \in Names : d.ent[d.up[x]][m] = x
      BY <1>1, <2>4 DEF DirOK
    <3>2. <<d.up[x], m>> \in NamesOf(d, g, x)
      BY <1>1, <3>1 DEF NamesOf, DirOK, LiveIn
    <3>3. a >= 1 /\ b >= 1
      BY <2>2, <3>2, LinkSets, OneLess
    <3> HIDE DEF a, b, c, o
    <3>4. QED
      BY <2>1, <3>3
  <2>5. QED
    BY <2>3, <2>4
<1>4. e.nlink[x] > 0
  BY <1>0, <1>3 DEF LiveIn
<1>5. /\ e.ent[x][n] = Null
      /\ \A y \in Inums, m \in Names : <<y, m>> # <<x, n>> => e.ent[y][m] = d.ent[y][m]
      /\ \A j \in Inums : j # x => e.nlink[j] = d.nlink[j]
  BY <1>0
<1>6. \A j \in Inums : LiveIn(e, h, j) <=> LiveIn(d, g, j) /\ j # i
  BY <1>0, <1>2, <1>4, <1>5 DEF LiveIn
<1>7. \A m \in Names : LiveIn(d, g, i) => d.ent[i][m] = Null
  BY DEF EmptyDir, LiveIn
<1>8. \A j \in Inums : NamesOf(e, h, j) = NamesOf(d, g, j) \ {<<x, n>>}
  <2> SUFFICES ASSUME NEW j \in Inums PROVE NamesOf(e, h, j) = NamesOf(d, g, j) \ {<<x, n>>}
    OBVIOUS
  <2> HIDE DEF h
  <2>1. \A y \in Inums, m \in Names :
          /\ <<y, m>> \in NamesOf(e, h, j) <=> LiveIn(e, h, y) /\ e.ent[y][m] = j
          /\ <<y, m>> \in NamesOf(d, g, j) <=> LiveIn(d, g, y) /\ d.ent[y][m] = j
    BY DEF NamesOf
  <2>2. NamesOf(e, h, j) \subseteq Inums \X Names /\ NamesOf(d, g, j) \subseteq Inums \X Names
    BY DEF NamesOf
  <2>3. j # Null
    OBVIOUS
  <2>4. ASSUME NEW y \in Inums, NEW m \in Names
        PROVE  <<y, m>> \in NamesOf(e, h, j) <=> <<y, m>> \in NamesOf(d, g, j) \ {<<x, n>>}
    <3>1. CASE <<y, m>> = <<x, n>>
      <4>1. y = x /\ m = n
        BY <3>1
      <4>2. QED
        BY <1>5, <2>1, <2>3, <3>1, <4>1
    <3>2. CASE <<y, m>> # <<x, n>>
      BY <1>5, <1>6, <1>7, <2>1, <2>3, <3>2
    <3>3. QED
      BY <3>1, <3>2
  <2>5. \A z \in Inums \X Names : z \in NamesOf(e, h, j) <=> z \in NamesOf(d, g, j) \ {<<x, n>>}
    BY <2>4
  <2>6. QED
    BY <2>2, <2>5
<1>9. \A j \in Inums : SubsOf(e, h, j) = SubsOf(d, g, j) \ {i}
  BY <1>6 DEF SubsOf
<1>10. <<x, n>> \in NamesOf(d, g, i) /\ \A j \in Inums : j # i => <<x, n>> \notin NamesOf(d, g, j)
  BY DEF NamesOf
<1>11. \A j \in Inums : i \in SubsOf(d, g, j) <=> d.type[i] = "dir" /\ j = x
  BY <1>dir DEF SubsOf, LiveIn
<1>12. LinksOK(e, h, ex)
  <2> SUFFICES ASSUME NEW j \in Inums
               PROVE  e.nlink[j] = Cardinality(NamesOf(e, h, j)) + Cardinality(SubsOf(e, h, j))
                                     + B(j \in h) + Cardinality(ex[j])
    BY DEF LinksOK
  <2> DEFINE a == Cardinality(NamesOf(d, g, j))
             b == Cardinality(SubsOf(d, g, j))
             c == Cardinality(ex[j])
             a1 == Cardinality(NamesOf(e, h, j))
             b1 == Cardinality(SubsOf(e, h, j))
  <2>1. a \in Nat /\ b \in Nat /\ c \in Nat /\ d.nlink[j] = a + b + B(j \in g) + c
    BY LinkSets, SomeProcs DEF LinksOK
  <2>2. a1 = IF j = i THEN a - 1 ELSE a
    <3>1. CASE j = i
      BY <1>8, <1>10, <3>1, LinkSets, OneLess
    <3>2. CASE j # i
      <4>1. NamesOf(e, h, j) = NamesOf(d, g, j)
        <5> HIDE DEF h
        <5>1. <<x, n>> \notin NamesOf(d, g, j) /\ NamesOf(e, h, j) = NamesOf(d, g, j) \ {<<x, n>>}
          BY <1>8, <1>10, <3>2
        <5>2. QED
          BY <5>1
      <4>2. QED
        BY <3>2, <4>1
    <3>3. QED
      BY <3>1, <3>2
  <2>3. b1 = IF d.type[i] = "dir" /\ j = x THEN b - 1 ELSE b
    <3>1. CASE d.type[i] = "dir" /\ j = x
      BY <1>9, <1>11, <3>1, LinkSets, OneLess
    <3>2. CASE ~(d.type[i] = "dir" /\ j = x)
      <4>1. SubsOf(e, h, j) = SubsOf(d, g, j)
        <5> HIDE DEF h
        <5>1. i \notin SubsOf(d, g, j) /\ SubsOf(e, h, j) = SubsOf(d, g, j) \ {i}
          BY <1>9, <1>11, <3>2
        <5>2. QED
          BY <5>1
      <4>2. QED
        BY <3>2, <4>1
    <3>3. QED
      BY <3>1, <3>2
  <2> HIDE DEF a, b, c, a1, b1
  <2>4. e.nlink[j] = IF d.type[i] = "dir" /\ j = x THEN d.nlink[j] - 1 ELSE d.nlink[j]
    BY <1>0
  <2>5. B(j \in h) = IF j = i THEN 1 ELSE B(j \in g)
    BY DEF B
  <2>6. j = i => B(j \in g) = 0
    BY DEF B
  <2>7. B(j \in g) \in Nat
    BY DEF B
  <2> DEFINE u == B(j \in g)
             v == B(j \in h)
  <2>8. e.nlink[j] = a1 + b1 + v + c
    <3>1. u \in Nat /\ (j = i => u = 0) /\ v = (IF j = i THEN 1 ELSE u) /\ d.nlink[j] = a + b + u + c
      BY <2>1, <2>5, <2>6, <2>7
    <3> HIDE DEF u, v
    <3>2. QED
      BY <1>2, <2>1, <2>2, <2>3, <2>4, <3>1
  <2>9. QED
    BY <2>8 DEF a1, b1, c
<1>13. LiveIn(e, h, Root) /\ e.up[Root] = Root
  BY <1>2, <1>6 DEF TreeOK
<1>14. ASSUME NEW j \in Inums PROVE NodeOK(e, h, j)
  <2>1. NodeOK(d, g, j)
    BY DEF TreeOK
  <2>2. /\ e.nlink[j] >= 0
        /\ e.type[j] = "free" => e.nlink[j] = 0
        /\ e.type[j] # "dir" => e.up[j] = Null
    <3>1. CASE j = x
      BY <1>4, <2>1, <3>1 DEF NodeOK, LiveIn
    <3>2. CASE j # x
      BY <1>5, <2>1, <3>2 DEF NodeOK
    <3>3. QED
      BY <3>1, <3>2
  <2>3. ASSUME ~LiveIn(e, h, j) PROVE e.ent[j] = EmptyDir
    <3>1. j # x
      BY <1>2, <1>6, <2>3
    <3>2. e.ent[j] = d.ent[j]
      BY <1>0, <3>1
    <3>3. CASE j = i
      BY <2>1, <3>2, <3>3 DEF NodeOK, LiveIn
    <3>4. CASE j # i
      BY <1>6, <2>1, <2>3, <3>2, <3>4 DEF NodeOK
    <3>5. QED
      BY <3>3, <3>4
  <2>4. ASSUME LiveIn(e, h, j) PROVE DirOK(e, h, j)
    <3>0. DirOK(d, g, j) /\ j # i
      BY <1>6, <2>1, <2>4 DEF NodeOK
    <3>1. d.up[j] \in Inums /\ LiveIn(d, g, d.up[j])
      BY <3>0 DEF DirOK, LiveIn
    <3>2. d.up[j] # i
      <4> SUFFICES ASSUME d.up[j] = i PROVE FALSE
        OBVIOUS
      <4>1. j # Root
        BY <1>2 DEF TreeOK
      <4>2. PICK m \in Names : d.ent[i][m] = j
        BY <3>0, <4>1 DEF DirOK
      <4>3. j # Null
        OBVIOUS
      <4>4. QED
        BY <1>7, <3>1, <4>2, <4>3
    <3>3. LiveIn(e, h, e.up[j])
      BY <1>6, <3>1, <3>2
    <3>4. j # Root => e.up[j] # j /\ \E m \in Names : e.ent[e.up[j]][m] = j
      <4> SUFFICES ASSUME j # Root PROVE e.up[j] # j /\ \E m \in Names : e.ent[e.up[j]][m] = j
        OBVIOUS
      <4>1. PICK m \in Names : d.ent[d.up[j]][m] = j
        BY <3>0 DEF DirOK
      <4>2. <<d.up[j], m>> # <<x, n>>
        BY <3>0, <4>1
      <4>3. e.ent[e.up[j]][m] = j
        BY <1>5, <3>1, <4>1, <4>2
      <4>4. QED
        BY <3>0, <4>3 DEF DirOK
    <3>5. ASSUME NEW m \in Names, e.ent[j][m] # Null PROVE EntryOK(e, h, j, m, e.ent[j][m])
      <4> DEFINE k == d.ent[j][m]
      <4>1. <<j, m>> # <<x, n>>
        BY <1>5, <3>5
      <4>2. e.ent[j][m] = k
        BY <1>5, <4>1
      <4>3. EntryOK(d, g, j, m, k)
        BY <3>0, <3>5, <4>2 DEF DirOK
      <4> HIDE DEF k
      <4>4. k \in Inums /\ e.nlink[k] > 0
        <5>1. k \in Inums /\ d.nlink[k] > 0
          BY <4>3 DEF EntryOK
        <5>2. QED
          BY <1>4, <1>5, <5>1
      <4>5. ASSUME d.type[k] = "dir" PROVE k # i
        <5> SUFFICES ASSUME k = i PROVE FALSE
          OBVIOUS
        <5>1. d.up[i] = j /\ d.type[i] = "dir"
          BY <4>3, <4>5 DEF EntryOK
        <5>2. j = x
          BY <1>dir, <5>1
        <5>3. m = n
          BY <1>dir, <5>1, <5>2 DEF k
        <5>4. QED
          BY <4>1, <5>2, <5>3
      <4>6. ASSUME d.type[k] = "dir", NEW mm \in Names, e.ent[j][mm] = k PROVE mm = m
        <5>1. <<j, mm>> # <<x, n>>
          BY <1>5, <4>4, <4>6
        <5>2. d.ent[j][mm] = k
          BY <1>5, <4>6, <5>1
        <5>3. QED
          BY <4>3, <4>6, <5>2 DEF EntryOK
      <4>7. QED
        BY <1>6, <4>2, <4>3, <4>4, <4>5, <4>6 DEF EntryOK
    <3>6. QED
      BY <3>3, <3>4, <3>5 DEF DirOK
  <2>5. QED
    BY <2>2, <2>3, <2>4 DEF NodeOK
<1>15. Grounded(e, h)
  <2>1. Grounded(d, g)
    BY DEF TreeOK
  <2> HIDE DEF h
  <2>2. KeepsUps(d, g, e, h)
    BY <1>6 DEF KeepsUps
  <2>3. QED
    BY <2>1, <2>2, StaysGrounded
<1>16. QED
  BY <1>6, <1>12, <1>13, <1>14, <1>15 DEF TreeOK

(* create() enters a new inode. *)
Enters(d, e, x, n, i, w) ==
  /\ e.type = d.type
  /\ \A j \in Inums : e.nlink[j] = IF j = x THEN w ELSE IF j = i THEN 1 ELSE d.nlink[j]
  /\ e.ent = [d.ent EXCEPT ![x] = [d.ent[x] EXCEPT ![n] = i]]
  /\ e.up = [d.up EXCEPT ![i] = IF d.type[i] = "dir" THEN x ELSE Null]

(* The tree stays one, with the links of the new inode. *)
LEMMA TreeLinked ==
  ASSUME NEW d \in Disks, NEW e \in Disks, NEW g, NEW ex \in [Inums -> SUBSET Procs],
         TreeOK(d, g), LinksOK(d, g, ex), NEW x \in Inums, NEW n \in Names, NEW i \in Inums,
         LiveIn(d, g, x), d.ent[x][n] = Null, d.nlink[i] = 0, d.type[i] \in {"file", "dir"},
         NEW w \in Int, w = IF d.type[i] = "dir" THEN d.nlink[x] + 1 ELSE d.nlink[x],
         Enters(d, e, x, n, i, w)
  PROVE  /\ TreeOK(e, g) /\ LinksOK(e, g, ex)
         /\ \A j \in Inums : LiveIn(e, g, j) <=> LiveIn(d, g, j) \/ (j = i /\ d.type[i] = "dir")
<1> USE DEF Enters
<1>0. /\ d.ent \in [Inums -> [Names -> MaybeInum]] /\ d.ent[x] \in [Names -> MaybeInum] /\ i # Null
      /\ d.nlink \in [Inums -> Int] /\ d.type \in [Inums -> InodeTypes] /\ d.up \in [Inums -> MaybeInum]
  BY DEF Disks
<1>1. NamesOf(d, g, i) = {} /\ SubsOf(d, g, i) = {} /\ i \notin g /\ ex[i] = {}
  BY NoLinks
<1>2. i # x /\ i # Root /\ ~LiveIn(d, g, i)
  BY DEF LiveIn, TreeOK
<1>3. d.ent[i] = EmptyDir /\ e.ent[i] = EmptyDir /\ e.nlink[i] = 1
  BY <1>0, <1>2 DEF TreeOK, NodeOK
<1>4. e.nlink[x] > 0
  BY <1>0 DEF LiveIn
<1>5. /\ e.ent[x][n] = i
      /\ \A y \in Inums, m \in Names : <<y, m>> # <<x, n>> => e.ent[y][m] = d.ent[y][m]
      /\ \A j \in Inums : j # x /\ j # i => e.nlink[j] = d.nlink[j]
      /\ \A j \in Inums : j # i => e.up[j] = d.up[j]
  BY <1>0
<1>6. \A j \in Inums : LiveIn(e, g, j) <=> LiveIn(d, g, j) \/ (j = i /\ d.type[i] = "dir")
  BY <1>0, <1>1, <1>2, <1>3, <1>4, <1>5 DEF LiveIn
<1>7. \A m \in Names : d.ent[i][m] = Null
  BY <1>3 DEF EmptyDir
<1>8. /\ NamesOf(e, g, i) = {<<x, n>>}
      /\ \A j \in Inums : j # i => NamesOf(e, g, j) = NamesOf(d, g, j)
  <2>1. \A j : \A y \in Inums, m \in Names :
          /\ <<y, m>> \in NamesOf(e, g, j) <=> LiveIn(e, g, y) /\ e.ent[y][m] = j
          /\ <<y, m>> \in NamesOf(d, g, j) <=> LiveIn(d, g, y) /\ d.ent[y][m] = j
    BY DEF NamesOf
  <2>2. \A j : NamesOf(e, g, j) \subseteq Inums \X Names /\ NamesOf(d, g, j) \subseteq Inums \X Names
    BY DEF NamesOf
  <2>3. ASSUME NEW j \in Inums, NEW y \in Inums, NEW m \in Names, <<y, m>> # <<x, n>>
        PROVE  <<y, m>> \in NamesOf(e, g, j) <=> <<y, m>> \in NamesOf(d, g, j)
    <3>1. j # Null
      OBVIOUS
    <3>2. QED
      BY <1>2, <1>5, <1>6, <1>7, <2>1, <2>3, <3>1
  <2>4. NamesOf(e, g, i) = {<<x, n>>}
    <3>1. <<x, n>> \in NamesOf(e, g, i)
      BY <1>5, <1>6, <2>1
    <3>2. \A z \in Inums \X Names : z \in NamesOf(e, g, i) => z = <<x, n>>
      BY <1>1, <2>3
    <3>3. QED
      BY <2>2, <3>1, <3>2
  <2>5. ASSUME NEW j \in Inums, j # i PROVE NamesOf(e, g, j) = NamesOf(d, g, j)
    <3>1. <<x, n>> \notin NamesOf(e, g, j) /\ <<x, n>> \notin NamesOf(d, g, j)
      <4>1. j # Null
        OBVIOUS
      <4>2. /\ <<x, n>> \in NamesOf(e, g, j) => e.ent[x][n] = j
            /\ <<x, n>> \in NamesOf(d, g, j) => d.ent[x][n] = j
        BY DEF NamesOf
      <4>3. QED
        BY <1>5, <2>5, <4>1, <4>2
    <3>2. \A z \in Inums \X Names : z \in NamesOf(e, g, j) <=> z \in NamesOf(d, g, j)
      BY <2>3, <3>1
    <3>3. QED
      BY <2>2, <3>2
  <2>6. QED
    BY <2>4, <2>5
<1>9. \A j \in Inums : SubsOf(e, g, j) = IF d.type[i] = "dir" /\ j = x THEN SubsOf(d, g, j) \cup {i} ELSE SubsOf(d, g, j)
  BY <1>0, <1>2, <1>5, <1>6 DEF SubsOf
<1>10. \A j \in Inums : i \notin SubsOf(d, g, j)
  BY <1>2 DEF SubsOf
<1>11. LinksOK(e, g, ex)
  <2> SUFFICES ASSUME NEW j \in Inums
               PROVE  e.nlink[j] = Cardinality(NamesOf(e, g, j)) + Cardinality(SubsOf(e, g, j))
                                     + B(j \in g) + Cardinality(ex[j])
    BY DEF LinksOK
  <2>1. CASE j = i
    <3>1. Cardinality(NamesOf(e, g, j)) = 1
      BY <1>8, <2>1, FS_Singleton
    <3>2. Cardinality(SubsOf(e, g, j)) = 0 /\ Cardinality(ex[j]) = 0
      BY <1>1, <1>2, <1>9, <2>1, FS_EmptySet
    <3>3. B(j \in g) = 0
      BY <1>1, <2>1 DEF B
    <3>4. QED
      BY <1>3, <2>1, <3>1, <3>2, <3>3
  <2>2. CASE j # i
    <3> DEFINE a == Cardinality(NamesOf(d, g, j))
               b == Cardinality(SubsOf(d, g, j))
               c == Cardinality(ex[j])
               b1 == Cardinality(SubsOf(e, g, j))
               u == B(j \in g)
    <3>1. a \in Nat /\ b \in Nat /\ c \in Nat /\ u \in Nat /\ d.nlink[j] = a + b + u + c
      BY LinkSets, SomeProcs DEF LinksOK, B
    <3>2. Cardinality(NamesOf(e, g, j)) = a
      BY <1>8, <2>2
    <3>3. b1 = IF d.type[i] = "dir" /\ j = x THEN b + 1 ELSE b
      BY <1>9, <1>10, LinkSets, OneMore
    <3> HIDE DEF a, b, c, b1, u
    <3>4. e.nlink[j] = a + b1 + u + c
      BY <1>5, <2>2, <3>1, <3>3
    <3>5. QED
      BY <3>2, <3>4 DEF b1, u, c
  <2>3. QED
    BY <2>1, <2>2
<1>12. LiveIn(e, g, Root) /\ e.up[Root] = Root
  BY <1>2, <1>5, <1>6 DEF TreeOK
<1>13. ASSUME NEW j \in Inums PROVE NodeOK(e, g, j)
  <2>1. NodeOK(d, g, j)
    BY DEF TreeOK
  <2>2. /\ e.nlink[j] >= 0
        /\ e.type[j] = "free" => e.nlink[j] = 0
        /\ e.type[j] # "dir" => e.up[j] = Null
    <3>1. CASE j = x
      BY <1>2, <1>4, <1>5, <2>1, <3>1 DEF NodeOK, LiveIn
    <3>2. CASE j = i
      BY <1>0, <1>3, <3>2
    <3>3. CASE j # x /\ j # i
      BY <1>5, <2>1, <3>3 DEF NodeOK
    <3>4. QED
      BY <3>1, <3>2, <3>3
  <2>3. ASSUME ~LiveIn(e, g, j) PROVE e.ent[j] = EmptyDir
    BY <1>0, <1>6, <2>1, <2>3 DEF NodeOK
  <2>4. ASSUME LiveIn(e, g, j) PROVE DirOK(e, g, j)
    <3>1. CASE j = i
      <4>1. e.up[i] = x /\ LiveIn(e, g, x)
        BY <1>0, <1>2, <1>6, <2>4, <3>1 DEF LiveIn
      <4>2. \A m \in Names : e.ent[i][m] = Null
        BY <1>3 DEF EmptyDir
      <4>3. QED
        BY <1>2, <1>5, <3>1, <4>1, <4>2 DEF DirOK
    <3>2. CASE j # i
      <4>1. DirOK(d, g, j)
        BY <1>6, <2>1, <2>4, <3>2 DEF NodeOK
      <4>2. d.up[j] \in Inums /\ LiveIn(d, g, d.up[j]) /\ e.up[j] = d.up[j]
        BY <1>5, <3>2, <4>1 DEF DirOK, LiveIn
      <4>3. LiveIn(e, g, e.up[j])
        BY <1>6, <4>2
      <4>4. j # Root => e.up[j] # j /\ \E m \in Names : e.ent[e.up[j]][m] = j
        <5> SUFFICES ASSUME j # Root PROVE e.up[j] # j /\ \E m \in Names : e.ent[e.up[j]][m] = j
          OBVIOUS
        <5>1. PICK m \in Names : d.ent[d.up[j]][m] = j
          BY <4>1 DEF DirOK
        <5>2. j # Null
          OBVIOUS
        <5>3. <<d.up[j], m>> # <<x, n>>
          BY <5>1, <5>2
        <5>4. e.ent[e.up[j]][m] = j
          BY <1>5, <4>2, <5>1, <5>3
        <5>5. QED
          BY <4>1, <4>2, <5>4 DEF DirOK
      <4>5. ASSUME NEW m \in Names, e.ent[j][m] # Null PROVE EntryOK(e, g, j, m, e.ent[j][m])
        <5>1. CASE <<j, m>> = <<x, n>>
          <6>1. j = x /\ m = n /\ e.ent[j][m] = i
            BY <1>5, <5>1
          <6>2. \A mm \in Names : e.ent[x][mm] = i => mm = n
            <7> SUFFICES ASSUME NEW mm \in Names, e.ent[x][mm] = i, mm # n PROVE FALSE
              OBVIOUS
            <7>1. <<x, mm>> # <<x, n>>
              OBVIOUS
            <7>2. d.ent[x][mm] = i
              BY <1>5, <7>1
            <7>3. <<x, mm>> \in NamesOf(d, g, i)
              BY <7>2 DEF NamesOf
            <7>4. QED
              BY <1>1, <7>3
          <6>3. d.type[i] = "dir" => LiveIn(e, g, i) /\ e.up[i] = x
            BY <1>0, <1>6
          <6>4. QED
            BY <1>2, <1>3, <6>1, <6>2, <6>3 DEF EntryOK
        <5>2. CASE <<j, m>> # <<x, n>>
          <6> DEFINE k == d.ent[j][m]
          <6>1. e.ent[j][m] = k
            BY <1>5, <5>2
          <6>2. EntryOK(d, g, j, m, k)
            BY <4>1, <4>5, <6>1 DEF DirOK
          <6> HIDE DEF k
          <6>3. k \in Inums /\ d.nlink[k] > 0 /\ k # i
            BY <6>2 DEF EntryOK
          <6>4. e.nlink[k] > 0 /\ e.up[k] = d.up[k]
            BY <1>4, <1>5, <6>3
          <6>5. ASSUME d.type[k] = "dir", NEW mm \in Names, e.ent[j][mm] = k PROVE mm = m
            <7>1. <<j, mm>> # <<x, n>>
              BY <1>5, <6>3, <6>5
            <7>2. d.ent[j][mm] = k
              BY <1>5, <6>5, <7>1
            <7>3. QED
              BY <6>2, <6>5, <7>2 DEF EntryOK
          <6>6. QED
            BY <1>6, <6>1, <6>2, <6>3, <6>4, <6>5 DEF EntryOK
        <5>3. QED
          BY <5>1, <5>2
      <4>6. QED
        BY <4>3, <4>4, <4>5 DEF DirOK
    <3>3. QED
      BY <3>1, <3>2
  <2>5. QED
    BY <2>2, <2>3, <2>4 DEF NodeOK
<1>14. Grounded(e, g)
  <2>1. Grounded(d, g)
    BY DEF TreeOK
  <2>2. AddsLeaf(d, g, e, g, i)
    BY <1>0, <1>1, <1>2, <1>5, <1>6 DEF AddsLeaf
  <2>3. QED
    BY <2>1, <2>2, LeafGrounded
<1>15. QED
  BY <1>6, <1>11, <1>12, <1>13, <1>14 DEF TreeOK

-----------------------------------------------------------------------------
(* References: who is the only one to hold an inode *)

(* An inode that is listed is found. *)
LEMMA ListedFound ==
  ASSUME NEW s \in Seq(ToPuts), Len(s) <= 2, NEW i, Listed(s, i)
  PROVE  Found_in(s, i) >= 1
<1>1. PICK k \in DOMAIN s : s[k].inum = i
  BY DEF Listed
<1>2. Len(s) \in Nat /\ k \in 1 .. Len(s)
  BY <1>1
<1>3. k = 1 \/ (k = 2 /\ Len(s) = 2)
  <2> DEFINE n == Len(s)
  <2>1. n \in Nat /\ k \in 1 .. n /\ n <= 2
    BY <1>2
  <2> HIDE DEF n
  <2>2. k = 1 \/ (k = 2 /\ n = 2)
    BY <2>1
  <2>3. QED
    BY <2>2 DEF n
<1>4. QED
  BY <1>1, <1>2, <1>3 DEF Found_in, B

(* A pointer counts. *)
LEMMA HeldCounts ==
  ASSUME BaseInv, NEW p \in Procs, NEW i \in Inums, Holds(p, i)
  PROVE  PointersAre(p, i) >= 1 /\ PointersAre(p, i) \in Nat
<1>1. puts[p] \in Seq(ToPuts) /\ Len(puts[p]) <= 2 /\ (freeing[p] # "no" => puts[p] # <<>>)
  BY Before DEF PlaceOK
<1>2. Found_in(puts[p], i) \in Nat
  BY FoundIn
<1>3. Listed(puts[p], i) => Found_in(puts[p], i) >= 1
  BY <1>1, ListedFound
<1>4. Listed(Due(p), i) \/ Freeds(p, i) => Listed(puts[p], i)
  <2>1. CASE Freeds(p, i)
    <3>1. puts[p] # <<>> /\ Head(puts[p]).inum = i
      BY <1>1, <2>1 DEF Freeds
    <3>2. 1 \in DOMAIN puts[p] /\ puts[p][1].inum = i
      BY <1>1, <3>1
    <3>3. QED
      BY <3>2 DEF Listed
  <2>2. CASE Listed(Due(p), i) /\ freeing[p] = "freed"
    <3>1. puts[p] # <<>> /\ Listed(Tail(puts[p]), i)
      BY <1>1, <2>2 DEF Due
    <3>2. PICK k \in DOMAIN Tail(puts[p]) : Tail(puts[p])[k].inum = i
      BY <3>1 DEF Listed
    <3>3. k + 1 \in DOMAIN puts[p] /\ Tail(puts[p])[k] = puts[p][k + 1]
      BY <1>1, <3>1, <3>2
    <3>4. QED
      BY <3>2, <3>3 DEF Listed
  <2>3. CASE Listed(Due(p), i) /\ freeing[p] # "freed"
    BY <2>3 DEF Due
  <2>4. QED
    BY <2>1, <2>2, <2>3
<1>5. Names_it(p, i) => PointersAre(p, i) >= 1
  BY <1>2 DEF Names_it, PointersAre, B
<1>6. PointersAre(p, i) \in Nat /\ PointersAre(p, i) >= Found_in(puts[p], i)
  BY <1>2 DEF PointersAre, B
<1>7. CASE Names_it(p, i)
  BY <1>5, <1>6, <1>7
<1>8. CASE ~Names_it(p, i)
  <2>1. Found_in(puts[p], i) >= 1
    BY <1>3, <1>4, <1>8 DEF Holds, Points
  <2>2. QED
    BY <1>2, <1>6, <2>1
<1>9. QED
  BY <1>7, <1>8

(* Whoever holds an inode has it in the table, *)
LEMMA HeldRefs ==
  ASSUME BaseInv, NEW p \in Procs, NEW i \in Inums
  PROVE  /\ iref[i] \in Nat /\ PointersAre(p, i) \in Nat /\ PointersAre(p, i) <= iref[i]
         /\ Holds(p, i) => iref[i] >= 1
         /\ Holds(p, i) /\ iref[i] = 1 => Alone(p, i)
<1> DEFINE h == [x \in Procs |-> Pointers(x, i)]
<1>0. ProcType /\ (\A x \in Procs : PlaceOK(x)) /\ iref[i] = Cardinality(AllPointers(i))
  BY DEF BaseInv, FsTypeOK, RefCount
<1>1. h \in [Procs -> Nat] /\ AllPointers(i) = Units(h) /\ \A x \in Procs : h[x] = PointersAre(x, i)
  BY <1>0, AllPointersAre, PointersIs
<1> HIDE DEF h
<1>2. iref[i] = Cardinality(Units(h))
  BY <1>0, <1>1
<1>3. iref[i] \in Nat /\ h[p] \in Nat /\ h[p] <= iref[i]
  <2>1. h[p] \in Nat
    BY <1>1
  <2>2. Cardinality(Units(h)) \in Nat /\ Cardinality(Units(h)) >= h[p]
    BY <1>1, UnitsChange
  <2>3. QED
    BY <1>2, <2>1, <2>2
<1>4. ASSUME Holds(p, i), iref[i] = 1, NEW q \in Procs, q # p, Holds(q, i) PROVE FALSE
  <2>1. h[p] >= 1 /\ h[q] >= 1
    BY <1>1, <1>4, HeldCounts
  <2>2. Cardinality(Units(h)) >= h[p] + h[q]
    BY <1>1, <1>4, UnitsTwo
  <2>3. QED
    BY <1>1, <1>2, <1>4, <2>1, <2>2
<1>5. QED
  BY <1>1, <1>3, <1>4, HeldCounts DEF Alone

-----------------------------------------------------------------------------
(* Lists of what is to be put *)

(* An empty list *)
LEMMA NoneListed ==
  ASSUME NEW i
  PROVE  ~Listed(<<>>, i) /\ ~HeldIn(<<>>, i)
BY DEF Listed, HeldIn

(* A list of one *)
LEMMA OneListed ==
  ASSUME NEW x, NEW i
  PROVE  /\ Listed(<<x>>, i) <=> x.inum = i
         /\ HeldIn(<<x>>, i) <=> x.inum = i /\ x.held
         /\ Head(<<x>>) = x /\ Tail(<<x>>) = <<>> /\ <<x>> # <<>>
BY DEF Listed, HeldIn

(* A list of two *)
LEMMA TwoListed ==
  ASSUME NEW x, NEW y, NEW i
  PROVE  /\ Listed(<<x, y>>, i) <=> x.inum = i \/ y.inum = i
         /\ HeldIn(<<x, y>>, i) <=> (x.inum = i /\ x.held) \/ (y.inum = i /\ y.held)
         /\ Head(<<x, y>>) = x /\ Tail(<<x, y>>) = <<y>> /\ <<x, y>> # <<>>
<1>1. DOMAIN <<x, y>> = {1, 2} /\ <<x, y>>[1] = x /\ <<x, y>>[2] = y
  OBVIOUS
<1>2. Head(<<x, y>>) = x /\ Tail(<<x, y>>) = <<y>> /\ <<x, y>> # <<>>
  OBVIOUS
<1>3. QED
  BY <1>1, <1>2, Zenon DEF Listed, HeldIn

(* The first one and the others *)
LEMMA TailListed ==
  ASSUME NEW s \in Seq(ToPuts), s # <<>>, NEW i
  PROVE  /\ Listed(s, i) <=> Head(s).inum = i \/ Listed(Tail(s), i)
         /\ HeldIn(s, i) <=> (Head(s).inum = i /\ Head(s).held) \/ HeldIn(Tail(s), i)
<1>1. 1 \in DOMAIN s /\ s[1] = Head(s)
  OBVIOUS
<1>2. \A k \in DOMAIN Tail(s) : k + 1 \in DOMAIN s /\ Tail(s)[k] = s[k + 1]
  OBVIOUS
<1>3. \A k \in DOMAIN s : k = 1 \/ (k - 1 \in DOMAIN Tail(s) /\ Tail(s)[k - 1] = s[k])
  OBVIOUS
<1>4. Listed(s, i) <=> Head(s).inum = i \/ Listed(Tail(s), i)
  BY <1>1, <1>2, <1>3 DEF Listed
<1>5. HeldIn(s, i) <=> (Head(s).inum = i /\ Head(s).held) \/ HeldIn(Tail(s), i)
  <2>1. ASSUME HeldIn(s, i) PROVE (Head(s).inum = i /\ Head(s).held) \/ HeldIn(Tail(s), i)
    <3>1. PICK k \in DOMAIN s : s[k].inum = i /\ s[k].held
      BY <2>1 DEF HeldIn
    <3>2. CASE k = 1
      BY <1>1, <3>1, <3>2, Zenon
    <3>3. CASE k - 1 \in DOMAIN Tail(s) /\ Tail(s)[k - 1] = s[k]
      BY <3>1, <3>3, Zenon DEF HeldIn
    <3>4. QED
      BY <1>3, <3>2, <3>3
  <2>2. ASSUME Head(s).inum = i, Head(s).held PROVE HeldIn(s, i)
    BY <1>1, <2>2, Zenon DEF HeldIn
  <2>3. ASSUME HeldIn(Tail(s), i) PROVE HeldIn(s, i)
    <3>1. PICK k \in DOMAIN Tail(s) : Tail(s)[k].inum = i /\ Tail(s)[k].held
      BY <2>3 DEF HeldIn
    <3>2. k + 1 \in DOMAIN s /\ Tail(s)[k] = s[k + 1]
      BY <1>2
    <3>3. QED
      BY <3>1, <3>2, Zenon DEF HeldIn
  <2>4. QED
    BY <2>1, <2>2, <2>3
<1>6. QED
  BY <1>4, <1>5

(* The elements that the code makes *)
LEMMA PutsAre ==
  ASSUME NEW i
  PROVE  ToPut(i).inum = i /\ ~ToPut(i).held /\ ToUnlockPut(i).inum = i /\ ToUnlockPut(i).held
BY DEF ToPut, ToUnlockPut

-----------------------------------------------------------------------------
(* What a step of p may do to others (Rely) *)

(* Who frees an inode is the only one to hold it. *)
LEMMA FreesAlone ==
  ASSUME NEW p \in Procs, ProcOK(p), NEW i \in Inums, Frees(p, i)
  PROVE  Alone(p, i)
BY DEF ProcOK, FreeOK, Frees

(* The one that is freed is listed. *)
LEMMA FreesListed ==
  ASSUME BaseInv, NEW p \in Procs, NEW i \in Inums, Frees(p, i)
  PROVE  Listed(Due(p), i) /\ Points(p, i)
<1>1. puts[p] \in Seq(ToPuts) /\ puts[p] # <<>> /\ Due(p) = puts[p]
  BY Before DEF PlaceOK, Frees, Due
<1>2. QED
  BY <1>1, TailListed DEF Frees, Points

(* Then what is known of the others stays true. *)
LEMMA OthersStay ==
  ASSUME BaseInv, \A q \in Procs : ProcOK(q), NEW p \in Procs, Rely(p),
         NEW q \in Procs, q # p
  PROVE  ProcOK(q)'
<1>0. ProcOK(q) /\ ProcOK(p) /\ Same(q) /\ (q \in tx' <=> q \in tx)
  BY DEF Rely
<1>1. /\ cwd'[q] = cwd[q] /\ fd'[q] = fd[q] /\ pc'[q] = pc[q] /\ loc'[q] = loc[q]
      /\ puts'[q] = puts[q] /\ freeing'[q] = freeing[q] /\ Due(q)' = Due(q)
  BY <1>0 DEF Same, Due
<1>2. \A r \in Procs : r # p => \A i : (Points(r, i)' <=> Points(r, i)) /\ (Holds(r, i)' <=> Holds(r, i))
  <2> SUFFICES ASSUME NEW r \in Procs, r # p, NEW i
               PROVE  (Points(r, i)' <=> Points(r, i)) /\ (Holds(r, i)' <=> Holds(r, i))
    OBVIOUS
  <2>1. Same(r)
    BY DEF Rely
  <2>2. QED
    BY <2>1 DEF Same, Points, Holds, Names_it, Due, Freeds
<1>3. ASSUME NEW i \in Inums, Holds(q, i)
      PROVE  /\ ~Alone(p, i) /\ ~Frees(p, i)
             /\ core[i].valid => core'[i].valid
             /\ Live(i) => Live(i)'
             /\ Used(i) => disk'.type[i] = disk.type[i]
  <2>1. ~Alone(p, i)
    BY <1>3 DEF Alone
  <2>2. ~Frees(p, i)
    BY <1>0, <2>1, FreesAlone
  <2>3. QED
    BY <2>1, <2>2 DEF Rely, KeepsHeld, KeepsTypes
<1>4. /\ cwd[q] \in Inums /\ fd[q] \in MaybeInum /\ PlaceOK(q)
      /\ loc[q].cur \in MaybeInum /\ loc[q].ip \in MaybeInum /\ loc[q].old \in MaybeInum
      /\ puts[q] \in Seq(ToPuts) /\ (freeing[q] # "no" => puts[q] # <<>>)
      /\ lock \in [Inums -> Procs \cup {NoProc}]
  BY Before DEF LocalsType, PlaceOK, TableType
<1>5. \A i \in Inums : Names_it(q, i) => Holds(q, i)
  BY DEF Holds, Points
<1>6. FirmOK(q)'
  <2>1. Live(cwd[q])'
    <3>1. PICK i \in Inums : i = cwd[q]
      BY <1>4
    <3>2. Holds(q, i) /\ Live(i)
      BY <1>0, <1>5, <3>1 DEF Names_it, ProcOK, FirmOK
    <3>3. Live(i)'
      BY <1>3, <3>2
    <3>4. QED
      BY <1>1, <3>1, <3>3
  <2>2. fd[q] # Null => disk'.type[fd[q]] # "free"
    <3> SUFFICES ASSUME fd[q] # Null PROVE disk'.type[fd[q]] # "free"
      OBVIOUS
    <3>1. fd[q] \in Inums /\ Holds(q, fd[q]) /\ Used(fd[q])
      BY <1>0, <1>4, <1>5 DEF Names_it, ProcOK, FirmOK, MaybeInum
    <3>2. QED
      BY <1>3, <3>1 DEF Used
  <2>3. loc[q].cur # Null => Sound(loc[q].cur)'
    <3> SUFFICES ASSUME loc[q].cur # Null PROVE Sound(loc[q].cur)'
      OBVIOUS
    <3>1. PICK i \in Inums : i = loc[q].cur
      BY <1>4 DEF MaybeInum
    <3>2. Holds(q, i) /\ Sound(i)
      BY <1>0, <1>5, <3>1 DEF Names_it, ProcOK, FirmOK
    <3>3. Sound(i)'
      BY <1>3, <3>2 DEF Used, Sound
    <3>4. QED
      BY <1>1, <3>1, <3>3
  <2>4. loc[q].old # Null => disk'.type[loc[q].old] = "file"
    <3> SUFFICES ASSUME loc[q].old # Null PROVE disk'.type[loc[q].old] = "file"
      OBVIOUS
    <3>1. loc[q].old \in Inums /\ Holds(q, loc[q].old) /\ disk.type[loc[q].old] = "file"
      BY <1>0, <1>4, <1>5 DEF Names_it, ProcOK, FirmOK, MaybeInum
    <3>2. QED
      BY <1>3, <3>1 DEF Used
  <2>5. QED
    BY <1>1, <2>1, <2>2, <2>3, <2>4 DEF FirmOK, Used
<1>7. \A i \in Inums : lock[i] = q => lock'[i] = q /\ disk'.ent[i] = disk.ent[i] /\ disk'.nlink[i] = disk.nlink[i]
  BY DEF Rely, KeepsLocked
<1> DEFINE l == loc[q]
<1>8. ASSUME pc[q] \in {"iget", "init"} PROVE Fresh(q, l.ip)'
  <2>0. PICK i \in Inums : i = l.ip
    BY <1>4, <1>8 DEF PlaceOK
  <2>1. Fresh(q, i) /\ l.call \in {"creat", "mkdir"}
    BY <1>0, <1>4, <1>8, <2>0 DEF ProcOK, AtOK, PlaceOK
  <2>2. Used(i) /\ disk.nlink[i] = 0 /\ ~Points(p, i) /\ (pc[p] = "iget" => loc[p].ip # i)
    BY <2>1 DEF Fresh, Used, Type
  <2>3. ~Frees(p, i)
    BY <2>1, <2>2, FreesListed
  <2>4. disk'.type[i] = disk.type[i] /\ disk'.nlink[i] = 0
    BY <2>1, <2>2, <2>3 DEF Rely, KeepsTypes, KeepsUnlinked
  <2>5. ~Points(p, i)' /\ (pc'[p] = "iget" => loc'[p].ip # i)
    BY <2>1, <2>2 DEF Rely, NoNewHolds
  <2>6. ASSUME NEW r \in Procs, r # q PROVE ~Points(r, i)' /\ (pc'[r] = "iget" => loc'[r].ip # i)
    <3>1. CASE r = p
      BY <2>5, <3>1
    <3>2. CASE r # p
      <4>1. pc'[r] = pc[r] /\ loc'[r] = loc[r]
        BY <3>2 DEF Rely, Same
      <4>2. ~Points(r, i) /\ (pc[r] = "iget" => loc[r].ip # i)
        BY <2>1, <2>6 DEF Fresh
      <4>3. QED
        BY <1>2, <3>2, <4>1, <4>2
    <3>3. QED
      BY <3>1, <3>2
  <2>7. Fresh(q, i)'
    BY <1>1, <2>1, <2>4, <2>6 DEF Fresh
  <2>8. QED
    BY <1>1, <2>0, <2>7
<1>9. AtOK(q)'
  <2>1. pc[q] \in {"ialloc", "iget", "init", "unlink"} =>
          Live(l.cur)' /\ core'[l.cur].valid /\ lock'[l.cur] = q /\ l.rest[1] \in Names
          /\ disk'.ent[l.cur] = disk.ent[l.cur]
    <3> SUFFICES ASSUME pc[q] \in {"ialloc", "iget", "init", "unlink"}
                 PROVE  Live(l.cur)' /\ core'[l.cur].valid /\ lock'[l.cur] = q /\ l.rest[1] \in Names
                        /\ disk'.ent[l.cur] = disk.ent[l.cur]
      OBVIOUS
    <3>0. PICK i \in Inums : i = l.cur
      BY <1>4 DEF PlaceOK
    <3>1. Holds(q, i)
      BY <1>5, <3>0 DEF Names_it
    <3>2. Live(i) /\ core[i].valid /\ lock[i] = q /\ l.rest[1] \in Names
      BY <1>0, <3>0 DEF ProcOK, AtOK
    <3>3. Live(i)' /\ core'[i].valid /\ lock'[i] = q /\ disk'.ent[i] = disk.ent[i]
      BY <1>3, <1>7, <3>1, <3>2
    <3>4. QED
      BY <1>1, <3>0, <3>2, <3>3
  <2>2. pc[q] = "exists" => Sound(l.ip)'
    <3> SUFFICES ASSUME pc[q] = "exists" PROVE Sound(l.ip)'
      OBVIOUS
    <3>0. PICK i \in Inums : i = l.ip
      BY <1>4 DEF PlaceOK
    <3>1. Holds(q, i) /\ Sound(i)
      BY <1>0, <1>4, <1>5, <3>0 DEF Names_it, ProcOK, AtOK
    <3>2. Sound(i)'
      BY <1>3, <3>1 DEF Used, Sound
    <3>3. QED
      BY <1>1, <3>0, <3>2
  <2>3. pc[q] \in {"created", "unlinked"} =>
          core'[l.ip].valid /\ Used(l.ip)' /\ lock'[l.ip] = q /\ ~Listed(puts'[q], l.ip)
    <3> SUFFICES ASSUME pc[q] \in {"created", "unlinked"}
                 PROVE  core'[l.ip].valid /\ Used(l.ip)' /\ lock'[l.ip] = q /\ ~Listed(puts'[q], l.ip)
      OBVIOUS
    <3>0. PICK i \in Inums : i = l.ip
      BY <1>4 DEF PlaceOK
    <3>1. Holds(q, i)
      BY <1>5, <3>0 DEF Names_it
    <3>2. core[i].valid /\ Used(i) /\ lock[i] = q /\ ~Listed(puts[q], i)
      BY <1>0, <3>0 DEF ProcOK, AtOK
    <3>3. core'[i].valid /\ Used(i)' /\ lock'[i] = q
      BY <1>3, <1>7, <3>1, <3>2 DEF Used
    <3>4. QED
      BY <1>1, <3>0, <3>2, <3>3
  <2>4. (pc[q] \in {"up", "scan"} => Live(l.cur)') /\ (pc[q] = "scan" => Live(l.ip)')
    <3>1. ASSUME pc[q] \in {"up", "scan"} PROVE Live(l.cur)'
      <4>0. PICK i \in Inums : i = l.cur
        BY <1>4, <3>1 DEF PlaceOK
      <4>1. Holds(q, i) /\ Live(i)
        BY <1>0, <1>5, <3>1, <4>0 DEF Names_it, ProcOK, AtOK
      <4>2. Live(i)'
        BY <1>3, <4>1
      <4>3. QED
        BY <1>1, <4>0, <4>2
    <3>2. ASSUME pc[q] = "scan" PROVE Live(l.ip)'
      <4>0. PICK i \in Inums : i = l.ip
        BY <1>4, <3>2 DEF PlaceOK
      <4>1. Holds(q, i) /\ Live(i)
        BY <1>0, <1>5, <3>2, <4>0 DEF Names_it, ProcOK, AtOK
      <4>2. Live(i)'
        BY <1>3, <4>1
      <4>3. QED
        BY <1>1, <4>0, <4>2
    <3>3. QED
      BY <3>1, <3>2
  <2>5. pc[q] = "parent" => disk'.type[l.cur] = "dir"
    <3>1. pc[q] = "parent" => l.cur \in Inums /\ Holds(q, l.cur) /\ disk.type[l.cur] = "dir"
      BY <1>0, <1>4, <1>5 DEF PlaceOK, Names_it, ProcOK, AtOK
    <3>2. QED
      BY <1>3, <3>1 DEF Used
  <2>6. /\ pc[q] \in {"ialloc", "iget", "init"} => disk.ent[l.cur][l.rest[1]] = Null
        /\ pc[q] = "unlink" => disk.ent[l.cur][l.rest[1]] = l.ip
    BY <1>0 DEF ProcOK, AtOK
  <2>7. QED
    BY <1>1, <1>8, <2>1, <2>2, <2>3, <2>4, <2>5, <2>6 DEF AtOK
<1>10. DueOK(q)'
  <2>1. \A i \in Inums : Listed(Due(q), i) => Holds(q, i)
    BY DEF Holds, Points
  <2>2. \A i \in Inums : Listed(Due(q), i) => disk'.type[i] # "free"
    <3> SUFFICES ASSUME NEW i \in Inums, Listed(Due(q), i) PROVE disk'.type[i] # "free"
      OBVIOUS
    <3>1. Used(i)
      BY <1>0 DEF ProcOK, DueOK
    <3>2. QED
      BY <1>3, <2>1, <3>1 DEF Used
  <2>3. \A i \in Inums : HeldIn(Due(q), i) => lock'[i] = q
    BY <1>0, <1>7 DEF ProcOK, DueOK
  <2>4. q \notin tx => \A i \in Inums : Listed(puts[q], i) => Live(i)'
    <3> SUFFICES ASSUME q \notin tx, NEW i \in Inums, Listed(puts[q], i) PROVE Live(i)'
      OBVIOUS
    <3>1. Due(q) = puts[q]
      BY <1>0 DEF ProcOK, FreeOK, Due
    <3>2. Live(i)
      BY <1>0 DEF ProcOK, DueOK
    <3>3. Holds(q, i)
      BY <2>1, <3>1
    <3>4. QED
      BY <1>3, <3>2, <3>3
  <2>5. puts[q] # <<>> /\ Head(puts[q]).held => ~HeldIn(Tail(puts[q]), Head(puts[q]).inum)
    BY <1>0 DEF ProcOK, DueOK
  <2>6. QED
    BY <1>0, <1>1, <2>2, <2>3, <2>4, <2>5 DEF DueOK, Used
<1>11. FreeOK(q)'
  <2>1. ASSUME freeing[q] # "no" PROVE \E i \in Inums : i = Head(puts[q]).inum
    <3>1. Head(puts[q]) \in ToPuts
      BY <1>4, <2>1
    <3>2. QED
      BY <3>1 DEF ToPuts
  <2>2. freeing[q] # "no" => q \in tx'
    BY <1>0 DEF ProcOK, FreeOK
  <2>3. ASSUME NEW i \in Inums, i = Head(puts[q]).inum, freeing[q] = "freeing"
        PROVE  /\ lock'[i] = q /\ disk'.nlink[i] = 0 /\ core'[i].valid /\ Alone(q, i)'
               /\ ~Names_it(q, i)' /\ ~Listed(Tail(puts'[q]), i)
    <3>1. Frees(q, i)
      BY <2>3 DEF Frees
    <3>2. /\ lock[i] = q /\ disk.nlink[i] = 0 /\ core[i].valid /\ Alone(q, i)
          /\ ~Names_it(q, i) /\ ~Listed(Tail(puts[q]), i)
      BY <1>0, <2>3 DEF ProcOK, FreeOK
    <3>3. Points(q, i) /\ Holds(q, i)
      BY <3>1, FreesListed DEF Holds
    <3>4. ~Names_it(q, i)'
      BY <1>1, <3>2 DEF Names_it
    <3>5. ~(pc[p] = "iget" /\ loc[p].ip = i)
      BY <1>0, <3>3 DEF ProcOK, AtOK, Fresh
    <3>6. ~Points(p, i) /\ ~Holds(p, i)
      BY <3>2 DEF Alone, Holds
    <3>7. ~Points(p, i)' /\ ~Freeds(p, i)'
      BY <3>1, <3>2, <3>5, <3>6 DEF Rely, NoNewHolds
    <3>8. ~Holds(p, i)'
      BY <3>7 DEF Holds
    <3>9. \A r \in Procs : r # q => ~Holds(r, i)'
      BY <1>2, <3>2, <3>8 DEF Alone
    <3>10. Alone(q, i)'
      BY <3>9 DEF Alone
    <3>11. QED
      BY <1>1, <1>3, <1>7, <3>1, <3>2, <3>3, <3>4, <3>10
  <2>4. ASSUME NEW i \in Inums, i = Head(puts[q]).inum, freeing[q] = "freed"
        PROVE  disk'.type[i] = "free" \/ i \in overtaken'
    <3>1. Freeds(q, i)
      BY <2>4 DEF Freeds
    <3>2. ~Used(i) \/ i \in overtaken
      BY <1>0, <2>4 DEF ProcOK, FreeOK
    <3>3. QED
      BY <3>1, <3>2 DEF Rely, KeepsFreed
  <2>5. CASE freeing[q] = "no"
    BY <1>1, <2>5 DEF FreeOK
  <2>6. CASE freeing[q] # "no"
    <3>1. PICK i \in Inums : i = Head(puts[q]).inum
      BY <2>1, <2>6
    <3>2. i = Head(puts'[q]).inum
      BY <1>1, <3>1
    <3>3. freeing[q] = "freeing" =>
               /\ lock'[i] = q /\ disk'.nlink[i] = 0 /\ core'[i].valid /\ Alone(q, i)'
               /\ ~Names_it(q, i)' /\ ~Listed(Tail(puts'[q]), i)
      BY <2>3, <3>1
    <3>4. freeing[q] = "freed" => disk'.type[i] = "free" \/ i \in overtaken'
      BY <2>4, <3>1
    <3>5. QED
      BY <1>1, <2>2, <3>2, <3>3, <3>4 DEF FreeOK, Used
  <2>7. QED
    BY <2>5, <2>6
<1>12. QED
  BY <1>0, <1>1, <1>6, <1>9, <1>10, <1>11 DEF ProcOK

-----------------------------------------------------------------------------
(* Steps that leave the disk alone *)

(* unlink() and link() are where they were. *)
LEMMA StillUnderWay ==
  ASSUME NEW p \in Procs, \A q \in Procs : q # p => Same(q), Still(p)
  PROVE  Gone' = Gone /\ Linking' = Linking
<1>1. \A q \in Procs : loc'[q].old = loc[q].old /\ (pc'[q] = "unlinked" <=> pc[q] = "unlinked")
                       /\ (pc[q] = "unlinked" => loc'[q].ip = loc[q].ip)
  BY DEF Still, Same
<1>2. QED
  BY <1>1 DEF Gone, Linking

(* A copy that is loaded is that of the disk. *)
LEMMA LoadedIs ==
  ASSUME TreeInv, NEW i \in Inums, Used(i)
  PROVE  /\ Loaded(i).type = disk.type[i] /\ Loaded(i).nlink = disk.nlink[i] /\ Loaded(i).valid
         /\ ~NoType(i) /\ (core[i].valid => Loaded(i) = core[i])
<1>1. CopyOK(i)
  BY DEF TreeInv, InodeOK
<1>2. CASE core[i].valid
  BY <1>1, <1>2 DEF CopyOK, Loaded, NoType, Used
<1>3. CASE ~core[i].valid
  BY <1>3 DEF Loaded, NoType, Used
<1>4. QED
  BY <1>2, <1>3

(* The inodes after such a step *)
LEMMA InodesStay ==
  ASSUME TreeInv, BaseInv', NEW p \in Procs, OthersSame(p), Frame, CoreStep(p), Marks(p), NEW i \in Inums
  PROVE  InodeOK(i)'
<1>0. InodeOK(i) /\ BaseInv /\ iref[i] \in Int /\ iref'[i] \in Int
  BY DEF TreeInv, BaseInv, FsTypeOK, TableType
<1>1. CopyOK(i)'
  <2>1. CASE core'[i] = core[i] /\ (iref'[i] >= iref[i] \/ (iref[i] > 1 /\ iref'[i] = iref[i] - 1))
    BY <1>0, <2>1 DEF InodeOK, CopyOK, Frame, Used
  <2>2. CASE core'[i] = Loaded(i) /\ Points(p, i) /\ Used(i) /\ iref'[i] >= iref[i]
    <3>1. iref[i] >= 1
      BY <1>0, <2>2, HeldRefs DEF Holds
    <3>2. Loaded(i).type = disk.type[i] /\ Loaded(i).nlink = disk.nlink[i]
      BY <2>2, LoadedIs
    <3>3. QED
      BY <1>0, <2>2, <3>1, <3>2 DEF CopyOK, Frame, Used
  <2>3. CASE core'[i] = Unloaded
    BY <2>3 DEF CopyOK, Unloaded
  <2>4. QED
    BY <2>1, <2>2, <2>3 DEF CoreStep
<1>2. LostOK(i)'
  <2> SUFFICES ASSUME Used(i), disk.nlink[i] = 0, i \notin overtaken, i \notin boot
               PROVE  core'[i].valid \/ \E q \in Procs : pc'[q] \in {"iget", "init"} /\ loc'[q].ip = i
    BY DEF LostOK, Frame, Used
  <2>1. CASE core[i].valid
    <3>1. core'[i] = core[i] \/ core'[i] = Loaded(i)
      BY <2>1 DEF CoreStep
    <3>2. QED
      BY <2>1, <3>1 DEF Loaded
  <2>2. CASE ~core[i].valid
    <3>1. PICK q \in Procs : pc[q] \in {"iget", "init"} /\ loc[q].ip = i
      BY <1>0, <2>2 DEF InodeOK, LostOK
    <3>2. CASE q = p
      BY <3>1, <3>2 DEF Marks
    <3>3. CASE q # p
      BY <3>1, <3>3 DEF OthersSame, Same
    <3>4. QED
      BY <3>2, <3>3
  <2>3. QED
    BY <2>1, <2>2
<1>3. QED
  BY <1>1, <1>2 DEF InodeOK

(* Such a step keeps the invariant if it keeps that of p. *)
LEMMA QuietStep ==
  ASSUME TreeInv, BaseInv', NEW p \in Procs, OthersSame(p), Frame, Still(p), LockStep(p), CoreStep(p), Marks(p),
         NoNewHolds(p), ~panicked', ProcOK(p)'
  PROVE  TreeInv'
<1>0. BaseInv /\ (\A q \in Procs : ProcOK(q)) /\ lock \in [Inums -> Procs \cup {NoProc}]
  BY DEF TreeInv, BaseInv, FsTypeOK, TableType
<1>1. Gone' = Gone /\ Linking' = Linking
  BY StillUnderWay DEF OthersSame
<1>2. DiskInv' /\ StableInv'
  BY <1>1 DEF TreeInv, DiskInv, StableInv, Frame
<1>3. BootInv'
  BY DEF BootInv, Frame
<1>4. \A i \in Inums : InodeOK(i)'
  BY InodesStay
<1>5. KeepsHeld(p)
  <2> SUFFICES ASSUME NEW i \in Inums, ~Alone(p, i)
               PROVE  (core[i].valid => core'[i].valid) /\ (Live(i) => Live(i)')
    BY DEF KeepsHeld
  <2>1. Live(i) => Live(i)'
    BY <1>1 DEF Live, Frame
  <2>2. ~(Holds(p, i) /\ iref[i] = 1)
    BY <1>0, HeldRefs
  <2>3. core'[i] = core[i] \/ core'[i] = Loaded(i)
    BY <2>2 DEF CoreStep
  <2>4. QED
    BY <2>1, <2>3 DEF Loaded
<1>6. KeepsLocked(p) /\ KeepsTypes(p) /\ KeepsUnlinked(p) /\ KeepsFreed(p)
  <2>1. KeepsLocked(p)
    BY DEF KeepsLocked, LockStep, Frame
  <2>2. KeepsTypes(p) /\ KeepsUnlinked(p) /\ KeepsFreed(p)
    BY DEF KeepsTypes, KeepsUnlinked, KeepsFreed, Frame, Used
  <2>3. QED
    BY <2>1, <2>2
<1>7. Rely(p)
  BY <1>5, <1>6 DEF Rely, OthersSame
<1>8. \A q \in Procs : ProcOK(q)'
  BY <1>0, <1>7, OthersStay
<1>9. QED
  BY <1>2, <1>3, <1>4, <1>8 DEF TreeInv

-----------------------------------------------------------------------------
(* What is to be put after a step *)

(* Nothing is to be put. *)
LEMMA DueNone ==
  ASSUME NEW p \in Procs, freeing'[p] = "no", puts'[p] = <<>>
  PROVE  DueOK(p)'
<1>1. Due(p)' = <<>>
  BY DEF Due
<1>2. \A i : ~Listed(<<>>, i) /\ ~HeldIn(<<>>, i)
  BY NoneListed
<1>3. QED
  BY <1>1, <1>2 DEF DueOK

(* One inode is to be put, locked or not, *)
LEMMA DueOne ==
  ASSUME NEW p \in Procs, freeing'[p] = "no", NEW a \in Inums,
         puts'[p] = <<ToPut(a)>> \/ (puts'[p] = <<ToUnlockPut(a)>> /\ lock'[a] = p),
         Used(a)', p \notin tx' => Live(a)'
  PROVE  DueOK(p)'
<1>1. PICK x : puts'[p] = <<x>> /\ x.inum = a /\ (x.held => lock'[a] = p)
  BY PutsAre
<1>2. Due(p)' = <<x>>
  BY <1>1 DEF Due
<1>3. \A i : /\ Listed(<<x>>, i) <=> a = i
             /\ HeldIn(<<x>>, i) <=> a = i /\ x.held
             /\ Tail(<<x>>) = <<>> /\ ~HeldIn(<<>>, i)
  BY <1>1, OneListed, NoneListed
<1>4. QED
  BY <1>1, <1>2, <1>3 DEF DueOK

(* or two. *)
LEMMA DueTwo ==
  ASSUME NEW p \in Procs, freeing'[p] = "no", NEW a \in Inums, NEW b \in Inums,
         \/ puts'[p] = <<ToPut(a), ToPut(b)>>
         \/ puts'[p] = <<ToPut(a), ToUnlockPut(b)>> /\ lock'[b] = p
         \/ puts'[p] = <<ToUnlockPut(a), ToUnlockPut(b)>> /\ lock'[a] = p /\ lock'[b] = p /\ a # b,
         Used(a)', Used(b)', p \notin tx' => Live(a)' /\ Live(b)'
  PROVE  DueOK(p)'
<1>1. PICK x, y : /\ puts'[p] = <<x, y>> /\ x.inum = a /\ y.inum = b
                  /\ (x.held => lock'[a] = p) /\ (y.held => lock'[b] = p) /\ (x.held => a # b)
  BY PutsAre
<1>2. Due(p)' = <<x, y>>
  BY <1>1 DEF Due
<1>3. \A i : /\ Listed(<<x, y>>, i) <=> a = i \/ b = i
             /\ HeldIn(<<x, y>>, i) <=> (a = i /\ x.held) \/ (b = i /\ y.held)
             /\ HeldIn(<<y>>, i) <=> b = i /\ y.held
             /\ Tail(<<x, y>>) = <<y>> /\ Head(<<x, y>>) = x
  BY <1>1, OneListed, TwoListed
<1>4. QED
  BY <1>1, <1>2, <1>3 DEF DueOK

(* The end of a call *)
LEMMA LeftOK ==
  ASSUME NEW p \in Procs, loc'[p] = NoLocals, pc'[p] \in {"user", "end"}, freeing'[p] = "no",
         p \in tx' <=> pc'[p] = "end", Live(cwd[p])', fd'[p] # Null => Used(fd[p])', DueOK(p)'
  PROVE  ProcOK(p)'
<1>1. loc'[p].cur = Null /\ loc'[p].ip = Null /\ loc'[p].old = Null
  BY Constants
<1>2. FirmOK(p)'
  BY <1>1 DEF FirmOK
<1>3. AtOK(p)'
  BY DEF AtOK
<1>4. FreeOK(p)'
  BY DEF FreeOK
<1>5. p \in tx' <=> pc'[p] \notin {"user", "up", "scan"}
  OBVIOUS
<1>6. QED
  BY <1>2, <1>3, <1>4, <1>5 DEF ProcOK

-----------------------------------------------------------------------------
(* Local variables after a step, by what the step sets *)

(* The inode and the path are set. *)
LEMMA LocalsCurRest ==
  ASSUME loc \in [Procs -> LocalsType], NEW p \in Procs, NEW c, NEW x,
         Locals(p, [cur |-> c, rest |-> x])
  PROVE  /\ loc'[p].cur = c /\ loc'[p].rest = x /\ loc'[p].ip = loc[p].ip
         /\ loc'[p].old = loc[p].old /\ loc'[p].call = loc[p].call
<1> DEFINE u == [cur |-> c, rest |-> x]
<1>1. DOMAIN u = {"cur", "rest"} /\ u["cur"] = c /\ u["rest"] = x
  OBVIOUS
<1>2. Locals(p, u)
  OBVIOUS
<1> HIDE DEF u
<1>3. QED
  BY <1>1, <1>2, LocalsAre

(* The pointer and the inode *)
LEMMA LocalsCurIp ==
  ASSUME loc \in [Procs -> LocalsType], NEW p \in Procs, NEW c, NEW x,
         Locals(p, [cur |-> c, ip |-> x])
  PROVE  /\ loc'[p].cur = c /\ loc'[p].ip = x /\ loc'[p].rest = loc[p].rest
         /\ loc'[p].old = loc[p].old /\ loc'[p].call = loc[p].call
<1> DEFINE u == [cur |-> c, ip |-> x]
<1>1. DOMAIN u = {"cur", "ip"} /\ u["cur"] = c /\ u["ip"] = x
  OBVIOUS
<1>2. Locals(p, u)
  OBVIOUS
<1> HIDE DEF u
<1>3. QED
  BY <1>1, <1>2, LocalsAre

(* The call and the pointer *)
LEMMA LocalsCallCur ==
  ASSUME loc \in [Procs -> LocalsType], NEW p \in Procs, NEW c, NEW x,
         Locals(p, [call |-> x, cur |-> c])
  PROVE  /\ loc'[p].call = x /\ loc'[p].cur = c /\ loc'[p].rest = loc[p].rest
         /\ loc'[p].old = loc[p].old /\ loc'[p].ip = loc[p].ip
<1> DEFINE u == [call |-> x, cur |-> c]
<1>1. DOMAIN u = {"call", "cur"} /\ u["call"] = x /\ u["cur"] = c
  OBVIOUS
<1>2. Locals(p, u)
  OBVIOUS
<1> HIDE DEF u
<1>3. QED
  BY <1>1, <1>2, LocalsAre

(* The pointer *)
LEMMA LocalsCur ==
  ASSUME loc \in [Procs -> LocalsType], NEW p \in Procs, NEW x,
         Locals(p, [cur |-> x])
  PROVE  /\ loc'[p].cur = x /\ loc'[p].rest = loc[p].rest /\ loc'[p].ip = loc[p].ip
         /\ loc'[p].old = loc[p].old /\ loc'[p].call = loc[p].call
<1> DEFINE u == [cur |-> x]
<1>1. DOMAIN u = {"cur"} /\ u["cur"] = x
  OBVIOUS
<1>2. Locals(p, u)
  OBVIOUS
<1> HIDE DEF u
<1>3. QED
  BY <1>1, <1>2, LocalsAre

(* The inode *)
LEMMA LocalsIp ==
  ASSUME loc \in [Procs -> LocalsType], NEW p \in Procs, NEW x,
         Locals(p, [ip |-> x])
  PROVE  /\ loc'[p].ip = x /\ loc'[p].cur = loc[p].cur /\ loc'[p].rest = loc[p].rest
         /\ loc'[p].old = loc[p].old /\ loc'[p].call = loc[p].call
<1> DEFINE u == [ip |-> x]
<1>1. DOMAIN u = {"ip"} /\ u["ip"] = x
  OBVIOUS
<1>2. Locals(p, u)
  OBVIOUS
<1> HIDE DEF u
<1>3. QED
  BY <1>1, <1>2, LocalsAre

(* The inode of link(), and the new path *)
LEMMA LocalsOld ==
  ASSUME loc \in [Procs -> LocalsType], NEW p \in Procs, NEW a, NEW b, NEW c,
         Locals(p, [old |-> a, cur |-> b, rest |-> c])
  PROVE  /\ loc'[p].old = a /\ loc'[p].cur = b /\ loc'[p].rest = c
         /\ loc'[p].ip = loc[p].ip /\ loc'[p].call = loc[p].call
<1> DEFINE u == [old |-> a, cur |-> b, rest |-> c]
<1>1. DOMAIN u = {"old", "cur", "rest"} /\ u["old"] = a /\ u["cur"] = b /\ u["rest"] = c
  OBVIOUS
<1>2. Locals(p, u)
  OBVIOUS
<1> HIDE DEF u
<1>3. QED
  BY <1>1, <1>2, LocalsAre

(* A call *)
LEMMA LocalsEnter ==
  ASSUME loc \in [Procs -> LocalsType], NEW p \in Procs, NEW a, NEW b, NEW c, NEW d,
         Locals(p, [call |-> a, rest |-> b, cur |-> c, new |-> d])
  PROVE  /\ loc'[p].call = a /\ loc'[p].rest = b /\ loc'[p].cur = c
         /\ loc'[p].new = d /\ loc'[p].ip = loc[p].ip /\ loc'[p].old = loc[p].old
<1> DEFINE u == [call |-> a, rest |-> b, cur |-> c, new |-> d]
<1>1. DOMAIN u = {"call", "rest", "cur", "new"} /\ u["call"] = a /\ u["rest"] = b /\ u["cur"] = c /\ u["new"] = d
  OBVIOUS
<1>2. Locals(p, u)
  OBVIOUS
<1> HIDE DEF u
<1>3. QED
  BY <1>1, <1>2, LocalsAre

-----------------------------------------------------------------------------
(* Pieces of the argument for a step *)

(* A process at a place of a call, with nothing to put *)
LEMMA AtPlace ==
  ASSUME TreeInv, NEW p \in Procs, NEW l, At(p, l)
  PROVE  /\ BaseInv /\ ProcOK(p) /\ PlaceOK(p) /\ ProcType /\ TableType /\ disk \in Disks /\ RestType
         /\ loc[p].cur \in MaybeInum /\ loc[p].ip \in MaybeInum /\ loc[p].old \in MaybeInum
         /\ cwd[p] \in Inums /\ fd[p] \in MaybeInum /\ Typed(loc[p])
         /\ pc[p] = l /\ puts[p] = <<>> /\ freeing[p] = "no" /\ boot = {} /\ ~panicked
<1>1. BaseInv /\ ProcOK(p) /\ ~panicked
  BY DEF TreeInv
<1>2. PlaceOK(p) /\ ProcType /\ TableType /\ disk \in Disks /\ cwd[p] \in Inums /\ fd[p] \in MaybeInum /\ RestType
  BY <1>1, Before
<1>3. Typed(loc[p])
  BY <1>2, LocalsTyped DEF ProcType
<1>4. freeing[p] = "no"
  BY <1>2 DEF PlaceOK, At, ProcType
<1>5. QED
  BY <1>1, <1>2, <1>3, <1>4 DEF At, Typed

(* A step that leaves disk and link() alone leaves the tree. *)
LEMMA SameTree ==
  ASSUME NEW p \in Procs, OthersSame(p), Frame, Still(p)
  PROVE  \A i : (Live(i)' <=> Live(i)) /\ (Used(i)' <=> Used(i)) /\ (Sound(i)' <=> Sound(i))
<1>1. Gone' = Gone
  BY StillUnderWay DEF OthersSame
<1>2. QED
  BY <1>1 DEF Live, Used, Sound, Frame

(* What ilock() does to the copies *)
LEMMA Loads ==
  ASSUME TreeInv, NEW p \in Procs, NEW i \in Inums, ilock(i), Points(p, i), Used(i),
         \A j \in Inums : iref'[j] >= iref[j]
  PROVE  /\ CoreStep(p) /\ ~panicked' /\ lock[i] = NoProc
         /\ core'[i] = Loaded(i) /\ core'[i].valid /\ core'[i].type = disk.type[i] /\ core'[i].nlink = disk.nlink[i]
         /\ Loaded(i).type = disk.type[i]
<1>1. core \in [Inums -> Copies] /\ ~panicked
  BY DEF TreeInv, BaseInv, FsTypeOK, TableType
<1>2. \A j \in Inums : core'[j] = IF j = i THEN Loaded(i) ELSE core[j]
  BY <1>1 DEF ilock, Put
<1>3. CoreStep(p)
  BY <1>2 DEF CoreStep
<1>4. ~panicked' /\ lock[i] = NoProc
  BY <1>1, LoadedIs DEF ilock, CanLock
<1>5. QED
  BY <1>2, <1>3, <1>4, LoadedIs

(* One more reference *)
LEMMA Gets ==
  ASSUME BaseInv, NEW i \in Inums
  PROVE  /\ iget(i) => \A j \in Inums : iref'[j] >= iref[j]
         /\ iref' = iref => \A j \in Inums : iref'[j] >= iref[j]
<1>1. iref \in [Inums -> Int]
  BY DEF BaseInv, FsTypeOK, TableType
<1>2. QED
  BY <1>1 DEF iget, Put

(* The lock after a step *)
LEMMA Locks ==
  ASSUME BaseInv, NEW p \in Procs, NEW i \in Inums
  PROVE  /\ lock' = lock => LockStep(p)
         /\ lock' = Put(lock, i, p) /\ lock[i] \in {p, NoProc} => LockStep(p) /\ lock'[i] = p
         /\ lock' = Put(lock, i, NoProc) /\ lock[i] \in {p, NoProc} => LockStep(p)
         /\ lock' = Put(lock, i, p) => \A j \in Inums : lock[j] = p => lock'[j] = p
<1>1. lock \in [Inums -> Procs \cup {NoProc}]
  BY DEF BaseInv, FsTypeOK, TableType
<1>2. QED
  BY <1>1 DEF LockStep, Put

(* What a directory in use has under a name *)
LEMMA Looked ==
  ASSUME TreeInv, NEW d \in Inums, Live(d), NEW name \in Elems
  PROVE  /\ dirlookup(d, name) \in MaybeInum /\ disk.type[d] = "dir" /\ disk.nlink[d] > 0
         /\ dirlookup(d, name) # Null => disk.nlink[dirlookup(d, name)] > 0 /\ Sound(dirlookup(d, name))
                                         /\ dirlookup(d, name) \in Inums
         /\ dirlookup(d, name) = Null => name \in Names /\ disk.ent[d][name] = Null
         /\ name \in Names => dirlookup(d, name) = disk.ent[d][name]
         /\ disk.up[d] \in Inums /\ Live(disk.up[d]) /\ disk.nlink[disk.up[d]] > 0
<1>1. DirOK(disk, Gone, d) /\ disk \in Disks /\ \A i \in Inums : NodeOK(disk, Gone, i)
  BY DEF TreeInv, DiskInv, TreeOK, NodeOK, Live, BaseInv, FsTypeOK
<1>2. Live(disk.up[d]) /\ disk.up[d] \in Inums /\ disk.nlink[disk.up[d]] > 0 /\ disk.type[d] = "dir" /\ disk.nlink[d] > 0
  BY <1>1 DEF DirOK, Live, LiveIn
<1>3. Sound(disk.up[d])
  BY <1>2 DEF Sound, Used, Live, LiveIn
<1>4. \A n \in Names : disk.ent[d][n] # Null => EntryOK(disk, Gone, d, n, disk.ent[d][n])
  BY <1>1 DEF DirOK
<1>5. ASSUME NEW n \in Names, disk.ent[d][n] # Null
      PROVE  disk.ent[d][n] \in Inums /\ disk.nlink[disk.ent[d][n]] > 0 /\ Sound(disk.ent[d][n])
  <2> DEFINE e == disk.ent[d][n]
  <2>1. e \in Inums /\ disk.nlink[e] > 0 /\ (disk.type[e] = "dir" => LiveIn(disk, Gone, e))
    BY <1>4, <1>5 DEF EntryOK
  <2>2. disk.type[e] # "free"
    BY <1>1, <2>1 DEF NodeOK
  <2>3. QED
    BY <2>1, <2>2 DEF Sound, Used, Live
<1>6. ".." \notin Names /\ \A n \in Names : disk.ent[d][n] \in MaybeInum
  BY <1>1 DEF Disks
<1>7. CASE name = ".."
  BY <1>2, <1>3, <1>6, <1>7 DEF dirlookup, MaybeInum
<1>8. CASE name \in Names
  BY <1>2, <1>5, <1>6, <1>8 DEF dirlookup
<1>9. QED
  BY <1>7, <1>8 DEF Elems

(* A directory that a process has as its local variable is in use. *)
LEMMA CurIs ==
  ASSUME TreeInv, NEW p \in Procs, NEW i \in Inums, loc[p].cur = i
  PROVE  Sound(i) /\ Used(i) /\ Points(p, i) /\ (disk.type[i] = "dir" => Live(i))
<1>1. Sound(i)
  BY Constants DEF TreeInv, ProcOK, FirmOK
<1>2. QED
  BY <1>1 DEF Sound, Points, Names_it

(* What p may be left to put, by its list *)
May(p, a) == Used(a) /\ (p \in tx' \/ Live(a)) /\ (Points(p, a) \/ disk.nlink[a] > 0)

Hands(p) ==
  \/ puts'[p] = <<>>
  \/ \E a \in Inums :
       /\ May(p, a)
       /\ puts'[p] = <<ToPut(a)>> \/ (puts'[p] = <<ToUnlockPut(a)>> /\ lock'[a] = p)
  \/ \E a, b \in Inums :
       /\ May(p, a) /\ May(p, b)
       /\ \/ puts'[p] = <<ToPut(a), ToPut(b)>>
          \/ puts'[p] = <<ToPut(a), ToUnlockPut(b)>> /\ lock'[b] = p
          \/ puts'[p] = <<ToUnlockPut(a), ToUnlockPut(b)>> /\ lock'[a] = p /\ lock'[b] = p /\ a # b

(* Such a list is as it should be. *)
LEMMA HandsOK ==
  ASSUME NEW p \in Procs, freeing'[p] = "no", Hands(p),
         \A i : (Live(i) => Live(i)') /\ (Used(i) => Used(i)')
  PROVE  DueOK(p)' /\ \A i \in Inums : Listed(puts'[p], i) => Points(p, i) \/ disk.nlink[i] > 0
<1>1. CASE puts'[p] = <<>>
  BY <1>1, DueNone, NoneListed
<1>2. CASE \E a \in Inums :
             /\ May(p, a)
             /\ puts'[p] = <<ToPut(a)>> \/ (puts'[p] = <<ToUnlockPut(a)>> /\ lock'[a] = p)
  <2>1. PICK a \in Inums :
             /\ May(p, a)
             /\ puts'[p] = <<ToPut(a)>> \/ (puts'[p] = <<ToUnlockPut(a)>> /\ lock'[a] = p)
    BY <1>2
  <2>2. Used(a)' /\ (p \notin tx' => Live(a)')
    BY <2>1 DEF May
  <2>3. DueOK(p)'
    BY <2>1, <2>2, DueOne
  <2>4. ASSUME NEW i \in Inums, Listed(puts'[p], i) PROVE i = a
    <3>1. PICK x : puts'[p] = <<x>> /\ x.inum = a
      BY <2>1, PutsAre
    <3>2. Listed(<<x>>, i)
      BY <2>4, <3>1, Zenon
    <3>3. QED
      BY <3>1, <3>2, OneListed
  <2>5. QED
    BY <2>1, <2>3, <2>4 DEF May
<1>3. CASE \E a, b \in Inums :
             /\ May(p, a) /\ May(p, b)
             /\ \/ puts'[p] = <<ToPut(a), ToPut(b)>>
                \/ puts'[p] = <<ToPut(a), ToUnlockPut(b)>> /\ lock'[b] = p
                \/ puts'[p] = <<ToUnlockPut(a), ToUnlockPut(b)>> /\ lock'[a] = p /\ lock'[b] = p /\ a # b
  <2>1. PICK a, b \in Inums :
             /\ May(p, a) /\ May(p, b)
             /\ \/ puts'[p] = <<ToPut(a), ToPut(b)>>
                \/ puts'[p] = <<ToPut(a), ToUnlockPut(b)>> /\ lock'[b] = p
                \/ puts'[p] = <<ToUnlockPut(a), ToUnlockPut(b)>> /\ lock'[a] = p /\ lock'[b] = p /\ a # b
    BY <1>3
  <2>2. Used(a)' /\ Used(b)' /\ (p \notin tx' => Live(a)' /\ Live(b)')
    BY <2>1 DEF May
  <2>3. DueOK(p)'
    BY <2>1, <2>2, DueTwo
  <2>4. ASSUME NEW i \in Inums, Listed(puts'[p], i) PROVE i = a \/ i = b
    <3>1. PICK x, y : puts'[p] = <<x, y>> /\ x.inum = a /\ y.inum = b
      BY <2>1, PutsAre
    <3>2. Listed(<<x, y>>, i)
      BY <2>4, <3>1, Zenon
    <3>3. QED
      BY <3>1, <3>2, TwoListed
  <2>5. QED
    BY <2>1, <2>3, <2>4 DEF May
<1>4. QED
  BY <1>1, <1>2, <1>3 DEF Hands

(* A step within a call *)
LEMMA GoStep ==
  ASSUME TreeInv, BaseInv', NEW p \in Procs, OthersSame(p), Frame, LockStep(p), CoreStep(p), Marks(p), ~panicked',
         freeing'[p] = "no", cwd'[p] = cwd[p], fd'[p] = fd[p], Still(p),
         p \in tx' <=> pc'[p] \notin {"user", "up", "scan"},
         NEW c, loc'[p].cur = c, c # Null => Sound(c), AtOK(p)', Hands(p),
         pc'[p] # "iget" \/ (pc[p] = "iget" /\ loc'[p].ip = loc[p].ip),
         \A i \in Inums : c = i \/ (loc'[p].ip = i /\ pc'[p] # "iget")
                            => Points(p, i) \/ disk.nlink[i] > 0 \/ (pc[p] = "iget" /\ loc[p].ip = i)
  PROVE  TreeInv'
<1>0. ProcOK(p)
  BY DEF TreeInv
<1>1. \A i : (Live(i)' <=> Live(i)) /\ (Used(i)' <=> Used(i)) /\ (Sound(i)' <=> Sound(i))
  BY SameTree
<1>2. FirmOK(p)'
  <2>1. Live(cwd[p])'
    <3>1. PICK w : w = cwd[p]
      OBVIOUS
    <3>2. Live(w)'
      BY <1>0, <1>1, <3>1 DEF ProcOK, FirmOK
    <3>3. QED
      BY <3>1, <3>2
  <2>2. fd'[p] # Null => Used(fd[p])'
    <3>1. PICK w : w = fd[p]
      OBVIOUS
    <3>2. w # Null => Used(w)'
      BY <1>0, <1>1, <3>1 DEF ProcOK, FirmOK
    <3>3. QED
      BY <3>1, <3>2
  <2>3. loc'[p].cur # Null => Sound(loc[p].cur)'
    <3>1. c # Null => Sound(c)'
      BY <1>1
    <3>2. QED
      BY <3>1
  <2>4. loc'[p].old # Null => disk'.type[loc'[p].old] = "file"
    BY <1>0 DEF ProcOK, FirmOK, Still, Frame
  <2>5. QED
    BY <2>1, <2>2, <2>3, <2>4 DEF FirmOK
<1>3. FreeOK(p)'
  BY DEF FreeOK
<1>0h. DueOK(p)' /\ \A i \in Inums : Listed(puts'[p], i) => Points(p, i) \/ disk.nlink[i] > 0
  BY <1>1, HandsOK
<1>4. ProcOK(p)'
  BY <1>2, <1>3, <1>0h DEF ProcOK
<1>5. NoNewHolds(p)
  <2>1. Due(p)' = puts'[p]
    BY DEF Due
  <2>2. ASSUME NEW i \in Inums, Points(p, i)'
        PROVE  Points(p, i) \/ disk.nlink[i] > 0 \/ (pc[p] = "iget" /\ loc[p].ip = i)
    <3>1. cwd[p] = i \/ fd[p] = i \/ loc[p].old = i => Points(p, i)
      BY DEF Points, Names_it
    <3>2. QED
      BY <1>0h, <2>1, <2>2, <3>1 DEF Points, Names_it, Still
  <2>3. \A i \in Inums : ~Freeds(p, i)'
    BY DEF Freeds
  <2>4. QED
    BY <2>2, <2>3 DEF NoNewHolds
<1>6. QED
  BY <1>4, <1>5, QuietStep

(* The end of a call *)
LEMMA LeaveStep ==
  ASSUME TreeInv, BaseInv', NEW p \in Procs, OthersSame(p), Frame, LockStep(p), CoreStep(p), Marks(p), ~panicked',
         loc[p].old = Null, pc[p] # "unlinked", pc[p] # "iget",
         loc'[p] = NoLocals, pc'[p] \in {"user", "end"}, freeing'[p] = "no", p \in tx' <=> pc'[p] = "end",
         NEW w \in Inums, cwd'[p] = w, Live(w), Points(p, w),
         NEW f, fd'[p] = f, f # Null => Used(f) /\ Points(p, f), Hands(p)
  PROVE  TreeInv'
<1>1. loc'[p].cur = Null /\ loc'[p].ip = Null /\ loc'[p].old = Null
  BY Constants
<1>2. Still(p)
  BY <1>1 DEF Still
<1>3. \A i : (Live(i)' <=> Live(i)) /\ (Used(i)' <=> Used(i)) /\ (Sound(i)' <=> Sound(i))
  BY <1>2, SameTree
<1>4. DueOK(p)' /\ \A i \in Inums : Listed(puts'[p], i) => Points(p, i) \/ disk.nlink[i] > 0
  BY <1>3, HandsOK
<1>5. Live(w)' /\ (f # Null => Used(f)')
  BY <1>3
<1>6. ProcOK(p)'
  BY <1>4, <1>5, LeftOK
<1>7. NoNewHolds(p)
  <2> SUFFICES ASSUME NEW i \in Inums
               PROVE  (Points(p, i)' => Points(p, i) \/ disk.nlink[i] > 0) /\ ~Freeds(p, i)' /\ pc'[p] # "iget"
    BY DEF NoNewHolds
  <2>1. Due(p)' = puts'[p] /\ i # Null
    BY DEF Due
  <2>2. QED
    BY <1>1, <1>4, <2>1 DEF Points, Names_it, Freeds
<1>8. QED
  BY <1>2, <1>6, <1>7, QuietStep

-----------------------------------------------------------------------------
(* Each action keeps the invariant: first those that only end a call *)

(* sys_close() *)
LEMMA CloseTree ==
  ASSUME TreeInv, NEW p \in Procs, Close(p)
  PROVE  TreeInv'
<1>0. At(p, "user") /\ fd[p] # Null
  BY DEF Close
<1>1. BaseInv' /\ OthersSame(p)
  BY CloseBase DEF OthersSame, Close, TreeInv
<1>2. /\ BaseInv /\ PlaceOK(p) /\ ProcOK(p) /\ ProcType /\ pc[p] = "user" /\ freeing[p] = "no" /\ boot = {} /\ ~panicked
      /\ cwd[p] \in Inums /\ fd[p] \in Inums
  BY <1>0, AtPlace, Constants
<1>3. /\ loc'[p] = NoLocals /\ pc'[p] = "end" /\ freeing'[p] = "no" /\ cwd'[p] = cwd[p] /\ fd'[p] = Null
      /\ puts'[p] = <<ToPut(fd[p])>> /\ tx' = tx \cup {p} /\ lock' = lock /\ core' = core /\ iref' = iref /\ ~panicked'
  BY <1>2 DEF Close, Leave, ThenPut, Goto, Put, ProcType, table
<1>4. Frame
  BY <1>2 DEF Close, Frame, aside
<1>5. Used(fd[p]) /\ Live(cwd[p]) /\ Points(p, cwd[p]) /\ Points(p, fd[p]) /\ loc[p].old = Null
  BY <1>2 DEF ProcOK, FirmOK, Points, Names_it, PlaceOK
<1>6. Hands(p)
  BY <1>2, <1>3, <1>5 DEF Hands, May
<1>7. LockStep(p) /\ CoreStep(p)
  BY <1>2, <1>3, Gets DEF LockStep, CoreStep
<1>8. Marks(p)
  BY <1>2 DEF Marks
<1>9. QED
  BY <1>1, <1>2, <1>3, <1>4, <1>5, <1>6, <1>7, <1>8, LeaveStep

(* sys_open() *)
LEMMA OpenTree ==
  ASSUME TreeInv, NEW p \in Procs, Open(p)
  PROVE  TreeInv'
<1>0. At(p, "walk") /\ loc[p].call = "open" /\ ilock(loc[p].cur)
  BY DEF Open, Found
<1>1. BaseInv' /\ OthersSame(p)
  BY OpenBase DEF OthersSame, Open, TreeInv
<1>2. /\ BaseInv /\ PlaceOK(p) /\ ProcOK(p) /\ ProcType /\ pc[p] = "walk" /\ freeing[p] = "no" /\ boot = {}
      /\ cwd[p] \in Inums
  BY <1>0, AtPlace
<1>3. PICK i \in Inums : loc[p].cur = i
  BY <1>2 DEF PlaceOK
<1>4. loc[p].old = Null /\ Used(i) /\ Points(p, i) /\ Live(cwd[p]) /\ Points(p, cwd[p])
  BY <1>0, <1>2, <1>3, CurIs DEF PlaceOK, ProcOK, FirmOK, Points, Names_it
<1>5. /\ loc'[p] = NoLocals /\ pc'[p] = "end" /\ freeing'[p] = "no" /\ cwd'[p] = cwd[p]
      /\ tx' = tx /\ lock' = lock /\ iref' = iref
      /\ (fd'[p] = i /\ puts'[p] = <<>>) \/ (fd'[p] = fd[p] /\ puts'[p] = <<ToPut(i)>>)
  BY <1>2, <1>3 DEF Open, Leave, ThenPut, Goto, Put, ProcType
<1>6. Frame
  BY <1>2 DEF Open, Frame, aside
<1>7. p \in tx
  BY <1>2 DEF ProcOK
<1>8. Hands(p)
  BY <1>4, <1>5, <1>7 DEF Hands, May
<1>9. CoreStep(p) /\ ~panicked'
  BY <1>0, <1>2, <1>3, <1>4, <1>5, Gets, Loads
<1>10. LockStep(p) /\ Marks(p)
  BY <1>2, <1>5 DEF LockStep, Marks
<1>11. fd[p] # Null => Used(fd[p]) /\ Points(p, fd[p])
  BY <1>2 DEF ProcOK, FirmOK, Points, Names_it
<1>12. PICK f : f = fd'[p] /\ (f # Null => Used(f) /\ Points(p, f))
  BY <1>4, <1>5, <1>11
<1>13. QED
  BY <1>1, <1>2, <1>4, <1>5, <1>6, <1>7, <1>8, <1>9, <1>10, <1>12, LeaveStep

(* sys_chdir() *)
LEMMA ChdirTree ==
  ASSUME TreeInv, NEW p \in Procs, Chdir(p)
  PROVE  TreeInv'
<1>0. At(p, "walk") /\ loc[p].call = "chdir" /\ ilock(loc[p].cur)
  BY DEF Chdir, Found
<1>1. BaseInv' /\ OthersSame(p)
  BY ChdirBase DEF OthersSame, Chdir, TreeInv
<1>2. /\ BaseInv /\ PlaceOK(p) /\ ProcOK(p) /\ ProcType /\ pc[p] = "walk" /\ freeing[p] = "no" /\ boot = {}
      /\ cwd[p] \in Inums
  BY <1>0, AtPlace
<1>3. PICK i \in Inums : loc[p].cur = i
  BY <1>2 DEF PlaceOK
<1>4. /\ loc[p].old = Null /\ Used(i) /\ Points(p, i) /\ Live(cwd[p]) /\ Points(p, cwd[p]) /\ Used(cwd[p])
      /\ disk.type[i] = "dir" => Live(i)
  BY <1>0, <1>2, <1>3, CurIs DEF PlaceOK, ProcOK, FirmOK, Points, Names_it, Live, LiveIn, Used
<1>5. /\ loc'[p] = NoLocals /\ pc'[p] = "end" /\ freeing'[p] = "no" /\ fd'[p] = fd[p]
      /\ tx' = tx /\ lock' = lock /\ iref' = iref
      /\ \/ cwd'[p] = i /\ puts'[p] = <<ToPut(cwd[p])>> /\ Loaded(i).type = "dir"
         \/ cwd'[p] = cwd[p] /\ puts'[p] = <<ToPut(i)>>
  BY <1>2, <1>3 DEF Chdir, Leave, ThenPut, Goto, Put, ProcType
<1>6. Frame
  BY <1>2 DEF Chdir, Frame, aside
<1>7. p \in tx
  BY <1>2 DEF ProcOK
<1>8. Hands(p)
  BY <1>2, <1>4, <1>5, <1>7 DEF Hands, May
<1>9. CoreStep(p) /\ ~panicked' /\ Loaded(i).type = disk.type[i]
  BY <1>0, <1>2, <1>3, <1>4, <1>5, Gets, Loads
<1>10. LockStep(p) /\ Marks(p)
  BY <1>2, <1>5 DEF LockStep, Marks
<1>11. fd[p] # Null => Used(fd[p]) /\ Points(p, fd[p])
  BY <1>2 DEF ProcOK, FirmOK, Points, Names_it
<1>12. PICK w \in Inums : w = cwd'[p] /\ Live(w) /\ Points(p, w)
  BY <1>2, <1>4, <1>5, <1>9
<1>13. QED
  BY <1>1, <1>2, <1>4, <1>5, <1>6, <1>7, <1>8, <1>9, <1>10, <1>11, <1>12, LeaveStep

(* create() of a name that exists *)
LEMMA CreateExistsTree ==
  ASSUME TreeInv, NEW p \in Procs, CreateExists(p)
  PROVE  TreeInv'
<1>0. At(p, "exists") /\ ilock(loc[p].ip)
  BY DEF CreateExists
<1>1. BaseInv' /\ OthersSame(p)
  BY CreateExistsBase DEF OthersSame, CreateExists, TreeInv
<1>2. /\ BaseInv /\ PlaceOK(p) /\ ProcOK(p) /\ ProcType /\ pc[p] = "exists" /\ freeing[p] = "no" /\ boot = {}
      /\ cwd[p] \in Inums
  BY <1>0, AtPlace
<1>3. PICK i \in Inums : loc[p].ip = i
  BY <1>2 DEF PlaceOK
<1>4. loc[p].old = Null /\ Used(i) /\ Points(p, i) /\ Live(cwd[p]) /\ Points(p, cwd[p])
  BY <1>2, <1>3 DEF PlaceOK, ProcOK, AtOK, Sound, FirmOK, Points, Names_it
<1>5. /\ loc'[p] = NoLocals /\ pc'[p] = "end" /\ freeing'[p] = "no" /\ cwd'[p] = cwd[p]
      /\ tx' = tx /\ lock' = lock /\ iref' = iref
      /\ (fd'[p] = i /\ puts'[p] = <<>>) \/ (fd'[p] = fd[p] /\ puts'[p] = <<ToPut(i)>>)
  BY <1>2, <1>3 DEF CreateExists, Opened, Leave, ThenPut, Goto, Put, ProcType
<1>6. Frame
  BY <1>2 DEF CreateExists, Frame, aside
<1>7. p \in tx
  BY <1>2 DEF ProcOK
<1>8. Hands(p)
  BY <1>4, <1>5, <1>7 DEF Hands, May
<1>9. CoreStep(p) /\ ~panicked'
  BY <1>0, <1>2, <1>3, <1>4, <1>5, Gets, Loads
<1>10. LockStep(p) /\ Marks(p)
  BY <1>2, <1>5 DEF LockStep, Marks
<1>11. fd[p] # Null => Used(fd[p]) /\ Points(p, fd[p])
  BY <1>2 DEF ProcOK, FirmOK, Points, Names_it
<1>12. PICK f : f = fd'[p] /\ (f # Null => Used(f) /\ Points(p, f))
  BY <1>4, <1>5, <1>11
<1>13. QED
  BY <1>1, <1>2, <1>4, <1>5, <1>6, <1>7, <1>8, <1>9, <1>10, <1>12, LeaveStep

(* ialloc() finds no free inode. *)
LEMMA IallocFailsTree ==
  ASSUME TreeInv, NEW p \in Procs, IallocFails(p)
  PROVE  TreeInv'
<1>0. At(p, "ialloc")
  BY DEF IallocFails
<1>1. BaseInv' /\ OthersSame(p)
  BY IallocFailsBase DEF OthersSame, IallocFails, TreeInv
<1>2. /\ BaseInv /\ PlaceOK(p) /\ ProcOK(p) /\ ProcType /\ pc[p] = "ialloc" /\ freeing[p] = "no" /\ boot = {}
      /\ cwd[p] \in Inums /\ ~panicked
  BY <1>0, AtPlace
<1>3. PICK i \in Inums : loc[p].cur = i
  BY <1>2 DEF PlaceOK
<1>4. loc[p].old = Null /\ Used(i) /\ Points(p, i) /\ Live(cwd[p]) /\ Points(p, cwd[p]) /\ lock[i] = p
  BY <1>2, <1>3, CurIs DEF PlaceOK, ProcOK, AtOK, FirmOK, Points, Names_it
<1>5. /\ loc'[p] = NoLocals /\ pc'[p] = "end" /\ freeing'[p] = "no" /\ cwd'[p] = cwd[p] /\ fd'[p] = fd[p]
      /\ tx' = tx /\ lock' = lock /\ iref' = iref /\ core' = core /\ puts'[p] = <<ToUnlockPut(i)>> /\ ~panicked'
  BY <1>2, <1>3 DEF IallocFails, Leave, ThenPut, Goto, Put, ProcType, table
<1>6. Frame
  BY <1>2 DEF IallocFails, Frame, aside
<1>7. p \in tx
  BY <1>2 DEF ProcOK
<1>8. Hands(p)
  BY <1>4, <1>5, <1>7 DEF Hands, May
<1>9. CoreStep(p)
  BY <1>2, <1>5, Gets DEF CoreStep
<1>10. LockStep(p) /\ Marks(p)
  BY <1>2, <1>5 DEF LockStep, Marks
<1>11. fd[p] # Null => Used(fd[p]) /\ Points(p, fd[p])
  BY <1>2 DEF ProcOK, FirmOK, Points, Names_it
<1>12. QED
  BY <1>1, <1>2, <1>4, <1>5, <1>6, <1>7, <1>8, <1>9, <1>10, <1>11, LeaveStep

(* dirlink() finds no room for the name. *)
LEMMA CreateFailsTree ==
  ASSUME TreeInv, NEW p \in Procs, CreateFails(p)
  PROVE  TreeInv'
<1>0. At(p, "init") /\ ilock(loc[p].ip)
  BY DEF CreateFails
<1>1. BaseInv' /\ OthersSame(p)
  BY CreateFailsBase DEF OthersSame, CreateFails, TreeInv
<1>2. /\ BaseInv /\ PlaceOK(p) /\ ProcOK(p) /\ ProcType /\ pc[p] = "init" /\ freeing[p] = "no" /\ boot = {}
      /\ cwd[p] \in Inums
  BY <1>0, AtPlace
<1>3. PICK d \in Inums, i \in Inums : loc[p].cur = d /\ loc[p].ip = i
  BY <1>2 DEF PlaceOK
<1>4. /\ loc[p].old = Null /\ Used(d) /\ Points(p, d) /\ Live(cwd[p]) /\ Points(p, cwd[p]) /\ lock[d] = p
      /\ Points(p, i) /\ loc[p].call \in {"creat", "mkdir"} /\ Fresh(p, i)
  BY <1>2, <1>3, CurIs DEF PlaceOK, ProcOK, AtOK, FirmOK, Points, Names_it
<1>5. Used(i) /\ d # i
  BY <1>3, <1>4 DEF Fresh, Used, Type
<1>6. /\ loc'[p] = NoLocals /\ pc'[p] = "end" /\ freeing'[p] = "no" /\ cwd'[p] = cwd[p] /\ fd'[p] = fd[p]
      /\ tx' = tx /\ lock' = Put(lock, i, p) /\ iref' = iref
      /\ puts'[p] = <<ToUnlockPut(i), ToUnlockPut(d)>>
  BY <1>2, <1>3 DEF CreateFails, Leave, ThenPut, Goto, Put, ProcType
<1>7. Frame
  BY <1>2 DEF CreateFails, Frame, aside
<1>8. p \in tx
  BY <1>2 DEF ProcOK
<1>9. CoreStep(p) /\ ~panicked' /\ lock[i] = NoProc /\ core'[i].valid
  BY <1>0, <1>2, <1>3, <1>4, <1>5, <1>6, Gets, Loads
<1>10. LockStep(p) /\ lock'[i] = p /\ lock'[d] = p
  BY <1>2, <1>4, <1>6, <1>9, Locks
<1>11. Hands(p)
  BY <1>4, <1>5, <1>6, <1>8, <1>10 DEF Hands, May
<1>12. Marks(p)
  BY <1>3, <1>9 DEF Marks
<1>13. fd[p] # Null => Used(fd[p]) /\ Points(p, fd[p])
  BY <1>2 DEF ProcOK, FirmOK, Points, Names_it
<1>14. QED
  BY <1>1, <1>2, <1>4, <1>6, <1>7, <1>8, <1>9, <1>10, <1>11, <1>12, <1>13, LeaveStep

(* create() has made the inode. *)
LEMMA CreatedTree ==
  ASSUME TreeInv, NEW p \in Procs, Created(p)
  PROVE  TreeInv'
<1>0. At(p, "created")
  BY DEF Created
<1>1. BaseInv' /\ OthersSame(p)
  BY CreatedBase DEF OthersSame, Created, TreeInv
<1>2. /\ BaseInv /\ PlaceOK(p) /\ ProcOK(p) /\ ProcType /\ pc[p] = "created" /\ freeing[p] = "no" /\ boot = {}
      /\ cwd[p] \in Inums /\ ~panicked
  BY <1>0, AtPlace
<1>3. PICK i \in Inums : loc[p].ip = i
  BY <1>2 DEF PlaceOK
<1>4. loc[p].old = Null /\ Used(i) /\ Points(p, i) /\ Live(cwd[p]) /\ Points(p, cwd[p]) /\ lock[i] = p
  BY <1>2, <1>3 DEF PlaceOK, ProcOK, AtOK, FirmOK, Points, Names_it
<1>5. /\ loc'[p] = NoLocals /\ pc'[p] = "end" /\ freeing'[p] = "no" /\ cwd'[p] = cwd[p]
      /\ tx' = tx /\ lock' = Put(lock, i, NoProc) /\ iref' = iref /\ core' = core /\ ~panicked'
      /\ (fd'[p] = i /\ puts'[p] = <<>>) \/ (fd'[p] = fd[p] /\ puts'[p] = <<ToPut(i)>>)
  BY <1>2, <1>3 DEF Created, Opened, Leave, ThenPut, Goto, Put, ProcType
<1>6. Frame
  BY <1>2 DEF Created, Frame, aside
<1>7. p \in tx
  BY <1>2 DEF ProcOK
<1>8. Hands(p)
  BY <1>4, <1>5, <1>7 DEF Hands, May
<1>9. CoreStep(p)
  BY <1>2, <1>5, Gets DEF CoreStep
<1>10. LockStep(p) /\ Marks(p)
  BY <1>2, <1>4, <1>5, Locks DEF Marks
<1>11. fd[p] # Null => Used(fd[p]) /\ Points(p, fd[p])
  BY <1>2 DEF ProcOK, FirmOK, Points, Names_it
<1>12. PICK f : f = fd'[p] /\ (f # Null => Used(f) /\ Points(p, f))
  BY <1>4, <1>5, <1>11
<1>13. QED
  BY <1>1, <1>2, <1>4, <1>5, <1>6, <1>7, <1>8, <1>9, <1>10, <1>12, LeaveStep

(* sys_unlink() of a directory that is not empty *)
LEMMA UnlinkRefusedTree ==
  ASSUME TreeInv, NEW p \in Procs, UnlinkRefused(p)
  PROVE  TreeInv'
<1>0. At(p, "unlink") /\ CanLock(loc[p].ip) /\ core' = Put(core, loc[p].ip, Loaded(loc[p].ip))
  BY DEF UnlinkRefused
<1>1. BaseInv' /\ OthersSame(p)
  BY UnlinkRefusedBase DEF OthersSame, UnlinkRefused, TreeInv
<1>2. /\ BaseInv /\ PlaceOK(p) /\ ProcOK(p) /\ ProcType /\ pc[p] = "unlink" /\ freeing[p] = "no" /\ boot = {}
      /\ cwd[p] \in Inums /\ ~panicked /\ core \in [Inums -> Copies]
  BY <1>0, AtPlace DEF TableType
<1>3. PICK d \in Inums, i \in Inums : loc[p].cur = d /\ loc[p].ip = i
  BY <1>2 DEF PlaceOK
<1>4. /\ loc[p].old = Null /\ Used(d) /\ Points(p, d) /\ Live(cwd[p]) /\ Points(p, cwd[p]) /\ lock[d] = p
      /\ Points(p, i) /\ Live(d) /\ loc[p].rest[1] \in Names /\ disk.ent[d][loc[p].rest[1]] = i
  BY <1>2, <1>3, CurIs DEF PlaceOK, ProcOK, AtOK, FirmOK, Points, Names_it
<1>5. Used(i) /\ disk.nlink[i] > 0
  BY <1>3, <1>4, Looked DEF Elems, Sound
<1>6. /\ loc'[p] = NoLocals /\ pc'[p] = "end" /\ freeing'[p] = "no" /\ cwd'[p] = cwd[p] /\ fd'[p] = fd[p]
      /\ tx' = tx /\ lock' = lock /\ iref' = iref
      /\ puts'[p] = <<ToPut(i), ToUnlockPut(d)>>
  BY <1>2, <1>3 DEF UnlinkRefused, Leave, ThenPut, Goto, Put, ProcType
<1>7. Frame
  BY <1>2 DEF UnlinkRefused, Frame, aside
<1>8. p \in tx
  BY <1>2 DEF ProcOK
<1>9. Loaded(i).nlink = disk.nlink[i] /\ ~NoType(i)
  BY <1>5, LoadedIs
<1>10. ~panicked'
  <2>1. disk.nlink[i] # 0
    BY <1>2, <1>5 DEF BaseInv, FsTypeOK, Disks
  <2>2. QED
    BY <1>2, <1>3, <1>9, <2>1 DEF UnlinkRefused
<1>11. CoreStep(p)
  <2>1. \A j \in Inums : iref'[j] >= iref[j]
    BY <1>2, <1>3, <1>6, Gets
  <2>2. \A j \in Inums : core'[j] = IF j = i THEN Loaded(i) ELSE core[j]
    BY <1>0, <1>2, <1>3 DEF Put
  <2>3. QED
    BY <1>4, <1>5, <2>1, <2>2 DEF CoreStep
<1>12. LockStep(p) /\ Marks(p) /\ lock'[d] = p
  BY <1>2, <1>4, <1>6 DEF LockStep, Marks
<1>13. Hands(p)
  BY <1>4, <1>5, <1>6, <1>8, <1>12 DEF Hands, May
<1>14. fd[p] # Null => Used(fd[p]) /\ Points(p, fd[p])
  BY <1>2 DEF ProcOK, FirmOK, Points, Names_it
<1>15. QED
  BY <1>1, <1>2, <1>4, <1>6, <1>7, <1>8, <1>10, <1>11, <1>12, <1>13, <1>14, LeaveStep

-----------------------------------------------------------------------------
(* Then those that look names up *)

(* A name that is not there: link() has then its count to take back. *)
LEMMA NotFoundTree ==
  ASSUME TreeInv, BaseInv', NEW p \in Procs, OthersSame(p), Frame, At(p, "walk"), NotFound(p),
         ilock(loc[p].cur) \/ UNCHANGED <<core, panicked>>, UNCHANGED <<iref, lock, tx, cwd, fd, freeing>>
  PROVE  TreeInv'
<1>2. /\ BaseInv /\ PlaceOK(p) /\ ProcOK(p) /\ ProcType /\ pc[p] = "walk" /\ freeing[p] = "no" /\ boot = {}
      /\ cwd[p] \in Inums
  BY AtPlace
<1>3. PICK i \in Inums : loc[p].cur = i
  BY <1>2 DEF PlaceOK
<1>4. Used(i) /\ Points(p, i) /\ Live(cwd[p]) /\ Points(p, cwd[p])
  BY <1>2, <1>3, CurIs DEF ProcOK, FirmOK, Points, Names_it
<1>5. cwd'[p] = cwd[p] /\ fd'[p] = fd[p] /\ freeing'[p] = "no" /\ tx' = tx /\ p \in tx
  BY <1>2 DEF ProcOK
<1>6. puts'[p] = <<ToPut(i)>>
  BY <1>2, <1>3 DEF NotFound, Leave, ThenPut, Put, ProcType
<1>7. Hands(p)
  BY <1>4, <1>5, <1>6 DEF Hands, May
<1>8. CoreStep(p) /\ ~panicked'
  BY <1>2, <1>3, <1>4, Gets, Loads DEF CoreStep, TreeInv, BaseInv, FsTypeOK, RestType
<1>9. LockStep(p) /\ Marks(p)
  BY <1>2 DEF LockStep, Marks
<1>10. CASE loc[p].old = Null
  <2>1. loc'[p] = NoLocals /\ pc'[p] = "end"
    BY <1>2, <1>10 DEF NotFound, Leave, Goto, Put, ProcType
  <2>2. fd[p] # Null => Used(fd[p]) /\ Points(p, fd[p])
    BY <1>2 DEF ProcOK, FirmOK, Points, Names_it
  <2>3. QED
    BY <1>2, <1>4, <1>5, <1>7, <1>8, <1>9, <1>10, <2>1, <2>2, LeaveStep
<1>11. CASE loc[p].old # Null
  <2>1. Locals(p, [cur |-> Null]) /\ pc'[p] = "undo_link"
    BY <1>2, <1>11 DEF NotFound, Goto, Put, ProcType
  <2>2. loc'[p].cur = Null /\ loc'[p].ip = Null /\ loc'[p].old = loc[p].old
    BY <1>2, <2>1, LocalsCur DEF ProcType, PlaceOK
  <2>3. AtOK(p)'
    BY <2>1 DEF AtOK
  <2>4. Still(p)
    BY <1>2, <2>1, <2>2 DEF Still
  <2>5. \A i1 \in Inums : Null = i1 \/ (loc'[p].ip = i1 /\ pc'[p] # "iget") => FALSE
    BY <2>2
  <2>6. QED
    BY <1>2, <1>5, <1>7, <1>8, <1>9, <2>1, <2>2, <2>3, <2>4, <2>5, GoStep
<1>12. QED
  BY <1>10, <1>11

(* namex(), one path element *)
LEMMA WalkTree ==
  ASSUME TreeInv, NEW p \in Procs, Walk(p)
  PROVE  TreeInv'
<1>0. At(p, "walk") /\ loc[p].rest # <<>> /\ ilock(loc[p].cur)
  BY DEF Walk
<1>1. BaseInv' /\ OthersSame(p)
  BY WalkBase DEF OthersSame, Walk, TreeInv
<1>2. /\ BaseInv /\ PlaceOK(p) /\ ProcOK(p) /\ ProcType /\ Typed(loc[p]) /\ pc[p] = "walk" /\ freeing[p] = "no"
      /\ boot = {} /\ cwd[p] \in Inums
  BY <1>0, AtPlace
<1>3. PICK i \in Inums, n \in Elems : loc[p].cur = i /\ loc[p].rest[1] = n
  BY <1>0, <1>2 DEF PlaceOK, Typed
<1>4. Frame
  BY <1>2 DEF Walk, Frame, aside
<1>5. lock' = lock /\ tx' = tx /\ cwd' = cwd /\ fd' = fd /\ freeing' = freeing /\ p \in tx
  BY <1>2 DEF Walk, ProcOK
<1>6. CASE NotFound(p) /\ UNCHANGED iref
  BY <1>0, <1>1, <1>4, <1>5, <1>6, NotFoundTree
<1>7. CASE ~(NotFound(p) /\ UNCHANGED iref)
  <2>1. PICK next : next = dirlookup(i, n)
    OBVIOUS
  <2>2. /\ Loaded(i).type = "dir" /\ next # Null /\ iget(next) /\ puts'[p] = <<ToPut(i)>> /\ pc'[p] = "walk"
        /\ Locals(p, [cur |-> next, rest |-> Tail(loc[p].rest)])
    BY <1>2, <1>3, <1>7, <2>1 DEF Walk, ThenPut, Put, ProcType
  <2>3. Used(i) /\ Points(p, i) /\ (disk.type[i] = "dir" => Live(i))
    BY <1>3, CurIs
  <2>4. Live(i)
    BY <2>2, <2>3, LoadedIs
  <2>5. next \in Inums /\ Sound(next) /\ disk.nlink[next] > 0
    BY <2>1, <2>2, <2>4, Looked
  <2>6. loc'[p].cur = next /\ loc'[p].ip = Null /\ loc'[p].old = loc[p].old
    <3>1. loc \in [Procs -> LocalsType] /\ loc[p].ip = Null
      BY <1>2 DEF ProcType, PlaceOK
    <3>2. QED
      BY <2>2, <3>1, LocalsCurRest
  <2>7. CoreStep(p) /\ ~panicked'
    BY <1>0, <1>2, <1>3, <2>2, <2>3, <2>5, Gets, Loads
  <2>8. Hands(p)
    BY <1>5, <2>2, <2>3 DEF Hands, May
  <2>9. AtOK(p)' /\ Still(p) /\ LockStep(p) /\ Marks(p)
    BY <1>2, <1>5, <2>2, <2>6 DEF AtOK, Still, LockStep, Marks
  <2>10. QED
    BY <1>1, <1>2, <1>4, <1>5, <2>2, <2>5, <2>6, <2>7, <2>8, <2>9, GoStep
<1>8. QED
  BY <1>6, <1>7

(* nameiparent() *)
LEMMA WalkParentTree ==
  ASSUME TreeInv, NEW p \in Procs, WalkParent(p)
  PROVE  TreeInv'
<1>0. At(p, "walk") /\ (ilock(loc[p].cur) \/ UNCHANGED <<core, panicked>>)
  BY DEF WalkParent
<1>1. BaseInv' /\ OthersSame(p)
  BY WalkParentBase DEF OthersSame, WalkParent, TreeInv
<1>2. /\ BaseInv /\ PlaceOK(p) /\ ProcOK(p) /\ ProcType /\ pc[p] = "walk" /\ freeing[p] = "no"
      /\ boot = {} /\ cwd[p] \in Inums /\ puts[p] = <<>>
  BY <1>0, AtPlace
<1>3. PICK i \in Inums : loc[p].cur = i
  BY <1>2 DEF PlaceOK
<1>4. Frame
  BY <1>2 DEF WalkParent, Frame, aside
<1>5. lock' = lock /\ tx' = tx /\ cwd' = cwd /\ fd' = fd /\ freeing' = freeing /\ iref' = iref /\ p \in tx
  BY <1>2 DEF WalkParent, ProcOK
<1>6. CASE NotFound(p)
  BY <1>0, <1>1, <1>4, <1>5, <1>6, NotFoundTree
<1>7. CASE ~NotFound(p)
  <2>1. ilock(i) /\ Loaded(i).type = "dir" /\ pc'[p] = "parent" /\ loc' = loc /\ puts' = puts
    BY <1>2, <1>3, <1>7 DEF WalkParent, Goto, Put, ProcType
  <2>2. Used(i) /\ Points(p, i) /\ Sound(i)
    BY <1>3, CurIs
  <2>3. disk.type[i] = "dir" /\ loc[p].ip = Null
    BY <1>2, <2>1, <2>2, LoadedIs DEF PlaceOK
  <2>4. CoreStep(p) /\ ~panicked'
    BY <2>1, <1>2, <1>3, <1>5, <2>2, Gets, Loads
  <2>5. Hands(p) /\ Still(p) /\ LockStep(p) /\ Marks(p)
    BY <1>2, <1>5, <2>1 DEF Hands, Still, LockStep, Marks
  <2>6. AtOK(p)'
    BY <1>3, <1>4, <2>1, <2>3 DEF AtOK, Frame
  <2>7. QED
    BY <1>1, <1>2, <1>3, <1>4, <1>5, <2>1, <2>2, <2>3, <2>4, <2>5, <2>6, GoStep
<1>8. QED
  BY <1>6, <1>7

(* What a process that looks a name up in a directory knows *)
LEMMA AtParent ==
  ASSUME TreeInv, NEW p \in Procs, At(p, "parent"), ilock(loc[p].cur), \A j \in Inums : iref'[j] >= iref[j],
         NEW d, d = loc[p].cur
  PROVE  /\ d \in Inums /\ Live(d) /\ Used(d) /\ Points(p, d) /\ Sound(d) /\ loc[p].rest[1] \in Elems /\ loc[p].ip = Null
         /\ CoreStep(p) /\ ~panicked' /\ lock[d] = NoProc /\ core'[d].valid
<1>1. PlaceOK(p) /\ ProcOK(p) /\ Typed(loc[p]) /\ pc[p] = "parent"
  BY AtPlace
<1>2. d \in Inums /\ disk.type[d] = "dir" /\ loc[p].ip = Null /\ loc[p].rest[1] \in Elems
  BY <1>1 DEF PlaceOK, ProcOK, AtOK, Typed
<1>3. Live(d) /\ Used(d) /\ Points(p, d) /\ Sound(d)
  BY <1>2, CurIs
<1>4. QED
  BY <1>2, <1>3, Loads

(* create() looks the name up. *)
LEMMA CreateLookupTree ==
  ASSUME TreeInv, NEW p \in Procs, CreateLookup(p)
  PROVE  TreeInv'
<1>0. At(p, "parent") /\ ilock(loc[p].cur) /\ loc[p].call \in {"creat", "mkdir"}
  BY DEF CreateLookup, FoundParent
<1>1. BaseInv' /\ OthersSame(p)
  BY CreateLookupBase DEF OthersSame, CreateLookup, TreeInv
<1>2. /\ BaseInv /\ PlaceOK(p) /\ ProcOK(p) /\ ProcType /\ pc[p] = "parent" /\ freeing[p] = "no"
      /\ boot = {} /\ puts[p] = <<>> /\ loc[p].rest[1] \in Elems
  BY <1>0, AtPlace DEF PlaceOK, Typed
<1>3. PICK d, n, next : d = loc[p].cur /\ n = loc[p].rest[1] /\ next = dirlookup(d, n)
  OBVIOUS
<1>4. Frame
  BY <1>2 DEF CreateLookup, Frame, aside
<1>5. tx' = tx /\ cwd' = cwd /\ fd' = fd /\ freeing' = freeing /\ p \in tx
  BY <1>2 DEF CreateLookup, ProcOK
<1>6. d \in Inums /\ disk.type[d] = "dir" /\ Live(d)
  <2>1. d \in Inums /\ disk.type[d] = "dir"
    BY <1>2, <1>3 DEF PlaceOK, ProcOK, AtOK
  <2>2. QED
    BY <1>3, <2>1, CurIs
<1>7. CASE next = Null
  <2>1. /\ iref' = iref /\ loc' = loc /\ puts' = puts /\ pc'[p] = "ialloc" /\ lock' = Put(lock, d, p)
    BY <1>2, <1>3, <1>7 DEF CreateLookup, Goto, Put, ProcType
  <2>2. n \in Names /\ disk.ent[d][n] = Null
    <3>1. n \in Elems
      BY <1>2, <1>3
    <3>2. dirlookup(d, n) = Null
      BY <1>3, <1>7
    <3>3. QED
      BY <1>6, <3>1, <3>2, Looked, Zenon
  <2>3. /\ Points(p, d) /\ Sound(d) /\ loc[p].ip = Null /\ CoreStep(p) /\ ~panicked' /\ lock[d] = NoProc /\ core'[d].valid
    BY <1>0, <1>2, <1>3, <1>6, <2>1, Gets, AtParent
  <2>4. LockStep(p) /\ lock'[d] = p
    BY <1>2, <1>6, <2>1, <2>3, Locks
  <2>5. Hands(p) /\ Still(p) /\ Marks(p)
    BY <1>2, <1>5, <2>1 DEF Hands, Still, Marks
  <2>6. Live(d)'
    BY <1>1, <1>4, <1>6, <2>5, SameTree
  <2>7. AtOK(p)'
    BY <1>3, <1>4, <2>1, <2>2, <2>3, <2>4, <2>6 DEF AtOK, Frame
  <2>8. QED
    BY <1>1, <1>2, <1>3, <1>4, <1>5, <1>6, <2>1, <2>3, <2>4, <2>5, <2>7, GoStep
<1>8. CASE next # Null
  <2>1. /\ iget(next) /\ Locals(p, [cur |-> Null, ip |-> next]) /\ puts'[p] = <<ToPut(d)>> /\ pc'[p] = "exists"
        /\ lock' = lock
    BY <1>2, <1>3, <1>8 DEF CreateLookup, Goto, ThenPut, Put, ProcType
  <2>2. next \in Inums /\ Sound(next) /\ disk.nlink[next] > 0
    BY <1>2, <1>3, <1>6, <1>8, Looked
  <2>3. Points(p, d) /\ Used(d) /\ CoreStep(p) /\ ~panicked'
    BY <1>0, <1>2, <1>3, <1>6, <2>1, <2>2, Gets, AtParent
  <2>4. loc'[p].cur = Null /\ loc'[p].ip = next /\ loc'[p].old = loc[p].old
    <3>1. loc \in [Procs -> LocalsType]
      BY <1>2 DEF ProcType
    <3>2. QED
      BY <2>1, <3>1, LocalsCurIp
  <2>5. LockStep(p) /\ Still(p) /\ Marks(p)
    BY <1>2, <2>1, <2>4 DEF LockStep, Still, Marks
  <2>6. Hands(p)
    BY <1>5, <1>6, <2>1, <2>3 DEF Hands, May
  <2>7. Sound(next)'
    BY <1>1, <1>4, <2>2, <2>5, SameTree
  <2>8. AtOK(p)'
    BY <2>1, <2>4, <2>7 DEF AtOK
  <2>9. QED
    BY <1>1, <1>2, <1>4, <1>5, <2>1, <2>2, <2>3, <2>4, <2>5, <2>6, <2>8, GoStep
<1>9. QED
  BY <1>7, <1>8

(* sys_unlink() looks the name up. *)
LEMMA UnlinkLookupTree ==
  ASSUME TreeInv, NEW p \in Procs, UnlinkLookup(p)
  PROVE  TreeInv'
<1>0. At(p, "parent") /\ ilock(loc[p].cur) /\ loc[p].call = "unlink"
  BY DEF UnlinkLookup, FoundParent
<1>1. BaseInv' /\ OthersSame(p)
  BY UnlinkLookupBase DEF OthersSame, UnlinkLookup, TreeInv
<1>2. /\ BaseInv /\ PlaceOK(p) /\ ProcOK(p) /\ ProcType /\ pc[p] = "parent" /\ freeing[p] = "no"
      /\ boot = {} /\ puts[p] = <<>> /\ loc[p].rest[1] \in Elems /\ cwd[p] \in Inums
  BY <1>0, AtPlace DEF PlaceOK, Typed
<1>3. PICK d, n, next : d = loc[p].cur /\ n = loc[p].rest[1] /\ next = dirlookup(d, n)
  OBVIOUS
<1>4. Frame
  BY <1>2 DEF UnlinkLookup, Frame, aside
<1>5. tx' = tx /\ cwd' = cwd /\ fd' = fd /\ freeing' = freeing /\ p \in tx
  BY <1>2 DEF UnlinkLookup, ProcOK
<1>6. d \in Inums /\ disk.type[d] = "dir" /\ Live(d)
  <2>1. d \in Inums /\ disk.type[d] = "dir"
    BY <1>2, <1>3 DEF PlaceOK, ProcOK, AtOK
  <2>2. QED
    BY <1>3, <2>1, CurIs
<1>7. CASE n = ".." \/ next = Null
  <2>1. iref' = iref /\ lock' = lock /\ loc'[p] = NoLocals /\ puts'[p] = <<ToPut(d)>> /\ pc'[p] = "end"
    BY <1>2, <1>3, <1>7 DEF UnlinkLookup, Leave, ThenPut, Goto, Put, ProcType
  <2>2. Points(p, d) /\ Used(d) /\ CoreStep(p) /\ ~panicked'
    BY <1>0, <1>2, <1>3, <1>6, <2>1, Gets, AtParent
  <2>3. LockStep(p) /\ Marks(p)
    BY <1>2, <2>1 DEF LockStep, Marks
  <2>4. Hands(p)
    BY <1>5, <1>6, <2>1, <2>2 DEF Hands, May
  <2>5. Live(cwd[p]) /\ Points(p, cwd[p]) /\ loc[p].old = Null
    BY <1>0, <1>2 DEF ProcOK, FirmOK, Points, Names_it, PlaceOK
  <2>6. fd[p] # Null => Used(fd[p]) /\ Points(p, fd[p])
    BY <1>2 DEF ProcOK, FirmOK, Points, Names_it
  <2>7. QED
    BY <1>1, <1>2, <1>4, <1>5, <2>1, <2>2, <2>3, <2>4, <2>5, <2>6, LeaveStep
<1>8. CASE ~(n = ".." \/ next = Null)
  <2>1. iget(next) /\ Locals(p, [ip |-> next]) /\ puts' = puts /\ pc'[p] = "unlink" /\ lock' = Put(lock, d, p)
    BY <1>2, <1>3, <1>8 DEF UnlinkLookup, Goto, Put, ProcType
  <2>2. next \in Inums /\ Sound(next) /\ disk.nlink[next] > 0 /\ n \in Names /\ disk.ent[d][n] = next
    BY <1>2, <1>3, <1>6, <1>8, Looked DEF Elems
  <2>3. Points(p, d) /\ Sound(d) /\ CoreStep(p) /\ ~panicked' /\ lock[d] = NoProc /\ core'[d].valid
    BY <1>0, <1>2, <1>3, <1>6, <2>1, <2>2, Gets, AtParent
  <2>4. loc'[p].cur = d /\ loc'[p].ip = next /\ loc'[p].old = loc[p].old /\ loc'[p].rest = loc[p].rest
    BY <1>2, <1>3, <2>1, LocalsIp DEF ProcType
  <2>5. LockStep(p) /\ lock'[d] = p
    BY <1>2, <1>6, <2>1, <2>3, Locks
  <2>6. Hands(p) /\ Still(p) /\ Marks(p)
    BY <1>2, <2>1, <2>4 DEF Hands, Still, Marks
  <2>7. Live(d)'
    BY <1>1, <1>4, <1>6, <2>6, SameTree
  <2>8. AtOK(p)'
    BY <1>3, <1>4, <2>1, <2>2, <2>3, <2>4, <2>5, <2>7 DEF AtOK, Frame
  <2>9. QED
    BY <1>1, <1>2, <1>4, <1>5, <2>1, <2>2, <2>3, <2>4, <2>5, <2>6, <2>8, GoStep
<1>9. QED
  BY <1>7, <1>8

(* sys_link() finds the new name taken, or no room for it. *)
LEMMA LinkFailsTree ==
  ASSUME TreeInv, NEW p \in Procs, LinkFails(p)
  PROVE  TreeInv'
<1>0. At(p, "parent") /\ ilock(loc[p].cur)
  BY DEF LinkFails, FoundParent
<1>1. BaseInv' /\ OthersSame(p)
  BY LinkFailsBase DEF OthersSame, LinkFails, TreeInv
<1>2. /\ BaseInv /\ PlaceOK(p) /\ ProcOK(p) /\ ProcType /\ pc[p] = "parent" /\ freeing[p] = "no"
      /\ boot = {} /\ puts[p] = <<>> /\ loc[p].rest[1] \in Elems
  BY <1>0, AtPlace DEF PlaceOK, Typed
<1>3. PICK d, n, next : d = loc[p].cur /\ n = loc[p].rest[1] /\ next = dirlookup(d, n)
  OBVIOUS
<1>4. Frame
  BY <1>2 DEF LinkFails, Frame, aside
<1>5. tx' = tx /\ cwd' = cwd /\ fd' = fd /\ freeing' = freeing /\ p \in tx /\ pc'[p] = "undo_link"
      /\ Locals(p, [cur |-> Null])
  BY <1>2 DEF LinkFails, ProcOK, Goto, Put, ProcType
<1>6. d \in Inums /\ disk.type[d] = "dir" /\ Live(d)
  <2>1. d \in Inums /\ disk.type[d] = "dir"
    BY <1>2, <1>3 DEF PlaceOK, ProcOK, AtOK
  <2>2. QED
    BY <1>3, <2>1, CurIs
<1>7. loc'[p].cur = Null /\ loc'[p].ip = Null /\ loc'[p].old = loc[p].old
  BY <1>2, <1>5, LocalsCur DEF ProcType, PlaceOK
<1>8. Still(p) /\ Marks(p) /\ AtOK(p)'
  BY <1>2, <1>5, <1>7 DEF Still, Marks, AtOK
<1>9. CoreStep(p) /\ ~panicked' /\ LockStep(p) /\ Hands(p)
  <2>1. CASE next = Null
    <3>1. iref' = iref /\ lock' = lock /\ puts'[p] = <<ToPut(d)>>
      BY <1>2, <1>3, <2>1 DEF LinkFails, ThenPut, Put, ProcType
    <3>2. Points(p, d) /\ Used(d) /\ CoreStep(p) /\ ~panicked'
      BY <1>0, <1>2, <1>3, <1>6, <3>1, Gets, AtParent
    <3>3. LockStep(p) /\ Hands(p)
      BY <1>5, <1>6, <3>1, <3>2 DEF LockStep, Hands, May
    <3>4. QED
      BY <3>2, <3>3
  <2>2. CASE next # Null
    <3>1. iget(next) /\ lock' = Put(lock, d, p) /\ puts'[p] = <<ToPut(next), ToUnlockPut(d)>>
      BY <1>2, <1>3, <2>2 DEF LinkFails, ThenPut, Put, ProcType
    <3>2. next \in Inums /\ Used(next) /\ disk.nlink[next] > 0
      BY <1>2, <1>3, <1>6, <2>2, Looked DEF Sound
    <3>3. Points(p, d) /\ Used(d) /\ CoreStep(p) /\ ~panicked' /\ lock[d] = NoProc
      BY <1>0, <1>2, <1>3, <1>6, <3>1, <3>2, Gets, AtParent
    <3>4. LockStep(p) /\ lock'[d] = p
      BY <1>2, <1>6, <3>1, <3>3, Locks
    <3>5. Hands(p)
      BY <1>5, <1>6, <3>1, <3>2, <3>3, <3>4 DEF Hands, May
    <3>6. QED
      BY <3>3, <3>4, <3>5
  <2>3. QED
    BY <2>1, <2>2
<1>10. QED
  BY <1>1, <1>2, <1>4, <1>5, <1>7, <1>8, <1>9, GoStep

-----------------------------------------------------------------------------
(* ialloc() looks its inode up in the table. *)
LEMMA IallocGetTree ==
  ASSUME TreeInv, NEW p \in Procs, IallocGet(p)
  PROVE  TreeInv'
<1>0. At(p, "iget") /\ iget(loc[p].ip)
  BY DEF IallocGet
<1>1. BaseInv' /\ OthersSame(p)
  BY IallocGetBase DEF OthersSame, IallocGet, TreeInv
<1>2. /\ BaseInv /\ PlaceOK(p) /\ ProcOK(p) /\ ProcType /\ pc[p] = "iget" /\ freeing[p] = "no" /\ boot = {} /\ ~panicked
      /\ puts[p] = <<>>
  BY <1>0, AtPlace
<1>3. PICK d, i, n : d \in Inums /\ i \in Inums /\ loc[p].cur = d /\ loc[p].ip = i /\ n = loc[p].rest[1]
  BY <1>2 DEF PlaceOK
<1>4. Frame
  BY <1>2 DEF IallocGet, Frame, aside
<1>5. /\ tx' = tx /\ cwd' = cwd /\ fd' = fd /\ freeing' = freeing /\ p \in tx /\ core' = core /\ lock' = lock
      /\ loc' = loc /\ puts' = puts /\ pc'[p] = "init" /\ ~panicked'
  BY <1>2 DEF IallocGet, ProcOK, Goto, Put, ProcType
<1>6. /\ Live(d) /\ core[d].valid /\ lock[d] = p /\ n \in Names /\ disk.ent[d][n] = Null /\ Fresh(p, i) /\ Sound(d)
      /\ Points(p, d)
  BY <1>2, <1>3, CurIs DEF ProcOK, AtOK
<1>7. CoreStep(p) /\ LockStep(p)
  BY <1>0, <1>2, <1>3, <1>5, Gets DEF CoreStep, LockStep
<1>8. Marks(p) /\ Still(p) /\ Hands(p)
  BY <1>2, <1>5 DEF Marks, Still, Hands
<1>9. Live(d)'
  BY <1>1, <1>4, <1>6, <1>8, SameTree
<1>10. Fresh(p, i)'
  <2>1. ASSUME NEW q \in Procs, q # p PROVE ~Points(q, i)' /\ (pc'[q] = "iget" => loc'[q].ip # i)
    <3>1. Same(q)
      BY <1>1, <2>1 DEF OthersSame
    <3>2. ~Points(q, i) /\ (pc[q] = "iget" => loc[q].ip # i)
      BY <1>6, <2>1 DEF Fresh
    <3>3. QED
      BY <3>1, <3>2 DEF Same, Points, Names_it, Due
  <2>2. QED
    BY <1>4, <1>5, <1>6, <2>1 DEF Fresh, Frame
<1>11. AtOK(p)'
  BY <1>3, <1>4, <1>5, <1>6, <1>9, <1>10 DEF AtOK, Frame
<1>12. \A j \in Inums : d = j \/ (loc'[p].ip = j /\ pc'[p] # "iget") => Points(p, j) \/ (pc[p] = "iget" /\ loc[p].ip = j)
  BY <1>2, <1>5, <1>6
<1>13. QED
  BY <1>1, <1>2, <1>3, <1>4, <1>5, <1>6, <1>7, <1>8, <1>11, <1>12, GoStep

(* sys_getcwd() *)
LEMMA GetcwdTree ==
  ASSUME TreeInv, NEW p \in Procs, Getcwd(p)
  PROVE  TreeInv'
<1>0. At(p, "user") /\ iget(cwd[p])
  BY DEF Getcwd
<1>1. BaseInv' /\ OthersSame(p)
  BY GetcwdBase DEF OthersSame, Getcwd, TreeInv
<1>2. /\ BaseInv /\ PlaceOK(p) /\ ProcOK(p) /\ ProcType /\ pc[p] = "user" /\ freeing[p] = "no" /\ boot = {} /\ ~panicked
      /\ puts[p] = <<>> /\ loc[p].ip = Null
  BY <1>0, AtPlace DEF PlaceOK
<1>3. PICK d \in Inums : d = cwd[p]
  BY <1>0, AtPlace
<1>4. Frame
  BY <1>2 DEF Getcwd, Frame, aside
<1>5. /\ tx' = tx /\ cwd' = cwd /\ fd' = fd /\ freeing' = freeing /\ p \notin tx /\ core' = core /\ lock' = lock
      /\ Locals(p, [call |-> "getcwd", cur |-> d]) /\ puts' = puts /\ pc'[p] = "up" /\ ~panicked'
  BY <1>2, <1>3 DEF Getcwd, ProcOK, Goto, Put, ProcType
<1>6. Live(d) /\ Sound(d) /\ Points(p, d)
  BY <1>2, <1>3 DEF ProcOK, FirmOK, Points, Names_it, Sound, Used, Live, LiveIn
<1>7. CoreStep(p) /\ LockStep(p)
  BY <1>0, <1>2, <1>3, <1>5, Gets DEF CoreStep, LockStep
<1>8. loc'[p].cur = d /\ loc'[p].ip = Null /\ loc'[p].old = loc[p].old
  <2>1. loc \in [Procs -> LocalsType]
    BY <1>2 DEF ProcType
  <2>2. QED
    BY <1>2, <1>5, <2>1, LocalsCallCur
<1>9. Marks(p) /\ Still(p) /\ Hands(p)
  BY <1>2, <1>5, <1>8 DEF Marks, Still, Hands
<1>10. Live(d)'
  BY <1>1, <1>4, <1>6, <1>9, SameTree
<1>11. AtOK(p)'
  BY <1>5, <1>8, <1>10 DEF AtOK
<1>12. QED
  BY <1>1, <1>2, <1>4, <1>5, <1>6, <1>7, <1>8, <1>9, <1>11, GoStep

(* A directory in use has a parent. *)
LEMMA GoUpTree ==
  ASSUME TreeInv, NEW p \in Procs, GoUp(p)
  PROVE  TreeInv'
<1>0. At(p, "up") /\ ilock(loc[p].cur)
  BY DEF GoUp
<1>1. BaseInv' /\ OthersSame(p)
  BY GoUpBase DEF OthersSame, GoUp, TreeInv
<1>2. /\ BaseInv /\ PlaceOK(p) /\ ProcOK(p) /\ ProcType /\ pc[p] = "up" /\ freeing[p] = "no" /\ boot = {}
      /\ puts[p] = <<>> /\ loc[p].ip = Null
  BY <1>0, AtPlace DEF PlaceOK
<1>3. PICK i, parent : i \in Inums /\ i = loc[p].cur /\ parent = disk.up[i]
  BY <1>2 DEF PlaceOK
<1>4. Frame
  BY <1>2 DEF GoUp, Frame, aside
<1>5. Live(i) /\ Sound(i) /\ Points(p, i) /\ Used(i)
  BY <1>2, <1>3, CurIs DEF ProcOK, AtOK
<1>6. parent \in Inums /\ Live(parent) /\ disk.nlink[parent] > 0
  <2>1. ".." \in Elems
    BY DEF Elems
  <2>2. QED
    BY <1>3, <1>5, <2>1, Looked
<1>7. /\ tx' = tx /\ cwd' = cwd /\ fd' = fd /\ freeing' = freeing /\ p \notin tx /\ lock' = lock
      /\ iget(parent) /\ Locals(p, [ip |-> parent]) /\ puts' = puts /\ pc'[p] = "scan"
  BY <1>2, <1>3, <1>6, Constants DEF GoUp, ProcOK, Goto, Put, ProcType
<1>8. CoreStep(p) /\ ~panicked'
  BY <1>0, <1>2, <1>3, <1>5, <1>6, <1>7, Gets, Loads
<1>9. loc'[p].cur = i /\ loc'[p].ip = parent /\ loc'[p].old = loc[p].old
  <2>1. loc \in [Procs -> LocalsType]
    BY <1>2 DEF ProcType
  <2>2. QED
    BY <1>3, <1>7, <2>1, LocalsIp
<1>10. Marks(p) /\ Still(p) /\ Hands(p) /\ LockStep(p)
  BY <1>2, <1>7, <1>9 DEF Marks, Still, Hands, LockStep
<1>11. Live(i)' /\ Live(parent)'
  BY <1>1, <1>4, <1>5, <1>6, <1>10, SameTree
<1>12. AtOK(p)'
  BY <1>7, <1>9, <1>11 DEF AtOK
<1>13. QED
  BY <1>1, <1>2, <1>4, <1>5, <1>6, <1>7, <1>8, <1>9, <1>10, <1>12, GoStep

(* The parent is searched. *)
LEMMA ScanParentTree ==
  ASSUME TreeInv, NEW p \in Procs, ScanParent(p)
  PROVE  TreeInv'
<1>0. At(p, "scan") /\ ilock(loc[p].ip)
  BY DEF ScanParent
<1>1. BaseInv' /\ OthersSame(p)
  BY ScanParentBase DEF OthersSame, ScanParent, TreeInv
<1>2. /\ BaseInv /\ PlaceOK(p) /\ ProcOK(p) /\ ProcType /\ pc[p] = "scan" /\ freeing[p] = "no" /\ boot = {}
      /\ puts[p] = <<>> /\ cwd[p] \in Inums
  BY <1>0, AtPlace
<1>3. PICK i \in Inums, parent \in Inums : i = loc[p].cur /\ parent = loc[p].ip
  BY <1>2 DEF PlaceOK
<1>4. Frame
  BY <1>2 DEF ScanParent, Frame, aside
<1>5. Live(i) /\ Points(p, i) /\ Used(i) /\ Live(parent) /\ Points(p, parent) /\ Used(parent) /\ Sound(parent)
  BY <1>2, <1>3, CurIs DEF ProcOK, AtOK, Points, Names_it, Sound, Used, Live, LiveIn
<1>6. tx' = tx /\ cwd' = cwd /\ fd' = fd /\ freeing' = freeing /\ p \notin tx /\ lock' = lock /\ iref' = iref
  BY <1>2 DEF ScanParent, ProcOK
<1>7. CoreStep(p) /\ ~panicked'
  BY <1>0, <1>2, <1>3, <1>5, <1>6, Gets, Loads
<1>8. LockStep(p) /\ Marks(p)
  BY <1>2, <1>6 DEF LockStep, Marks
<1>9. CASE puts'[p] = <<ToPut(i)>> /\ Locals(p, [cur |-> parent, ip |-> Null]) /\ pc'[p] = "up"
  <2>1. loc'[p].cur = parent /\ loc'[p].ip = Null /\ loc'[p].old = loc[p].old
    <3>1. loc \in [Procs -> LocalsType]
      BY <1>2 DEF ProcType
    <3>2. QED
      BY <1>9, <3>1, LocalsCurIp
  <2>2. Still(p)
    BY <1>2, <1>9, <2>1 DEF Still
  <2>3. Hands(p)
    BY <1>5, <1>9 DEF Hands, May
  <2>4. Live(parent)'
    BY <1>1, <1>4, <1>5, <2>2, SameTree
  <2>5. AtOK(p)'
    BY <1>9, <2>1, <2>4 DEF AtOK
  <2>6. QED
    BY <1>1, <1>2, <1>4, <1>5, <1>6, <1>7, <1>8, <1>9, <2>1, <2>2, <2>3, <2>5, GoStep
<1>10. CASE puts'[p] = <<ToPut(parent), ToPut(i)>> /\ loc'[p] = NoLocals /\ pc'[p] = "user"
  <2>1. Hands(p)
    BY <1>5, <1>10 DEF Hands, May
  <2>2. Live(cwd[p]) /\ Points(p, cwd[p]) /\ loc[p].old = Null
    BY <1>2 DEF ProcOK, FirmOK, Points, Names_it, PlaceOK
  <2>3. fd[p] # Null => Used(fd[p]) /\ Points(p, fd[p])
    BY <1>2 DEF ProcOK, FirmOK, Points, Names_it
  <2>4. QED
    BY <1>1, <1>2, <1>4, <1>6, <1>7, <1>8, <1>10, <2>1, <2>2, <2>3, LeaveStep
<1>11. QED
  BY <1>2, <1>3, <1>9, <1>10 DEF ScanParent, Goto, ThenPut, Put, ProcType

(* begin_op() and the start of namex() *)
LEMMA EnterTree ==
  ASSUME TreeInv, NEW p \in Procs, NEW r \in workload, Enter(p, r)
  PROVE  TreeInv'
<1>0. At(p, "user")
  BY DEF Enter
<1>1. BaseInv' /\ OthersSame(p)
  BY EnterBase DEF OthersSame, Enter, TreeInv
<1>2. /\ BaseInv /\ PlaceOK(p) /\ ProcOK(p) /\ ProcType /\ pc[p] = "user" /\ freeing[p] = "no" /\ boot = {} /\ ~panicked
      /\ puts[p] = <<>> /\ loc[p].ip = Null /\ loc[p].old = Null /\ cwd[p] \in Inums
  BY <1>0, AtPlace DEF PlaceOK
<1>3. PICK d : d = Start(p, r.path)
  OBVIOUS
<1>4. d \in Inums /\ Live(d)
  <2>1. Live(Root)
    BY DEF TreeInv, DiskInv, TreeOK, Live
  <2>2. Live(cwd[p])
    BY <1>2 DEF ProcOK, FirmOK
  <2>3. QED
    BY <1>2, <1>3, <2>1, <2>2 DEF Start
<1>5. Sound(d) /\ disk.nlink[d] > 0
  BY <1>4 DEF Sound, Used, Live, LiveIn
<1>6. Frame
  BY <1>2 DEF Enter, Frame, aside
<1>7. /\ tx' = tx \cup {p} /\ cwd' = cwd /\ fd' = fd /\ freeing' = freeing /\ core' = core /\ lock' = lock
      /\ iget(d) /\ puts' = puts /\ pc'[p] = "walk" /\ ~panicked'
      /\ Locals(p, [call |-> r.call, rest |-> r.path.elems, cur |-> d, new |-> IF r.call = "link" THEN <<r.new>> ELSE <<>>])
  BY <1>2, <1>3 DEF Enter, Goto, Put, ProcType
<1>8. loc'[p].cur = d /\ loc'[p].ip = Null /\ loc'[p].old = loc[p].old
  <2>1. loc \in [Procs -> LocalsType]
    BY <1>2 DEF ProcType
  <2>2. PICK a, b, e : Locals(p, [call |-> a, rest |-> b, cur |-> d, new |-> e])
    BY <1>7
  <2>3. QED
    BY <1>2, <2>1, <2>2, LocalsEnter
<1>9. CoreStep(p) /\ LockStep(p)
  BY <1>2, <1>4, <1>7, Gets DEF CoreStep, LockStep
<1>10. Marks(p) /\ Still(p) /\ Hands(p)
  BY <1>2, <1>7, <1>8 DEF Marks, Still, Hands
<1>11. AtOK(p)'
  BY <1>7 DEF AtOK
<1>12. QED
  BY <1>1, <1>2, <1>5, <1>6, <1>7, <1>8, <1>9, <1>10, <1>11, GoStep

(* end_op(): if nobody else is in a transaction nothing is under way. *)
LEMMA EndTree ==
  ASSUME TreeInv, NEW p \in Procs, End(p)
  PROVE  TreeInv'
<1>0. At(p, "end")
  BY DEF End
<1>1. BaseInv' /\ OthersSame(p)
  BY EndBase DEF OthersSame, End, TreeInv
<1>2. /\ BaseInv /\ PlaceOK(p) /\ ProcOK(p) /\ ProcType /\ pc[p] = "end" /\ freeing[p] = "no" /\ boot = {} /\ ~panicked
      /\ puts[p] = <<>> /\ loc[p].cur = Null /\ loc[p].ip = Null
  BY <1>0, AtPlace DEF PlaceOK
<1>3. /\ tx' = tx \ {p} /\ cwd' = cwd /\ fd' = fd /\ freeing' = freeing /\ core' = core /\ lock' = lock /\ iref' = iref
      /\ puts' = puts /\ loc' = loc /\ pc'[p] = "user" /\ ~panicked' /\ disk' = disk
      /\ stable' = (IF tx \ {p} = {} THEN disk ELSE stable)
  BY <1>2 DEF End, Goto, Put, ProcType, table
<1>4. Still(p) /\ Marks(p) /\ Hands(p) /\ LockStep(p)
  BY <1>2, <1>3 DEF Still, Marks, Hands, LockStep
<1>5. stable' = stable \/ StableInv'
  <2> SUFFICES ASSUME tx \ {p} = {} PROVE StableInv'
    BY <1>3
  <2>1. ASSUME NEW q \in Procs PROVE pc[q] # "unlinked" /\ loc[q].old = Null
    <3>1. PlaceOK(q) /\ ProcOK(q)
      BY DEF TreeInv, BaseInv
    <3>2. pc[q] \in {"user", "up", "scan", "end"}
      BY <1>2, <3>1 DEF ProcOK
    <3>3. QED
      BY <3>1, <3>2 DEF PlaceOK
  <2>2. Gone = {} /\ Linking = NoLinking
    BY <2>1 DEF Gone, Linking, NoLinking
  <2>3. TreeOK(disk, {}) /\ LinksOK(disk, {}, NoLinking)
    BY <2>2 DEF TreeInv, DiskInv
  <2>4. QED
    BY <1>3, <2>3 DEF StableInv
<1>6. Frame
  BY <1>2, <1>3, <1>5 DEF End, Frame, aside
<1>7. CoreStep(p)
  BY <1>2, <1>3, Gets DEF CoreStep
<1>8. AtOK(p)'
  BY <1>3 DEF AtOK
<1>9. QED
  BY <1>1, <1>2, <1>3, <1>4, <1>6, <1>7, <1>8, GoStep

-----------------------------------------------------------------------------
(* iput() *)

(* Nothing comes after the second of two. *)
LEMMA LastOfTwo ==
  ASSUME NEW s \in Seq(ToPuts), s # <<>>, Len(s) <= 2, Tail(s) # <<>>
  PROVE  DOMAIN Tail(Tail(s)) = {}
<1>1. Tail(s) \in Seq(ToPuts) /\ Len(Tail(s)) = Len(s) - 1 /\ Len(s) \in Nat
  OBVIOUS
<1>2. PICK t \in Seq(ToPuts) : t = Tail(s)
  BY <1>1
<1>3. Len(t) = 1
  <2>1. Len(t) # 0
    BY <1>2
  <2>2. QED
    BY <1>1, <1>2, <2>1
<1>4. Len(Tail(t)) = 0 /\ DOMAIN Tail(t) = 1 .. Len(Tail(t))
  BY <1>3
<1>5. 1 .. 0 = {}
  OBVIOUS
<1>6. QED
  BY <1>2, <1>4, <1>5

(* What a process in iput() knows *)
LEMMA InPut ==
  ASSUME TreeInv, NEW p \in Procs, puts[p] # <<>>, NEW i, i = Head(puts[p]).inum
  PROVE  /\ BaseInv /\ PlaceOK(p) /\ ProcOK(p) /\ ProcType /\ TableType /\ boot = {} /\ ~panicked
         /\ i \in Inums /\ Tail(puts[p]) \in Seq(ToPuts)
         /\ freeing[p] \in {"no", "freeing", "freed"} /\ Listed(puts[p], i)
         /\ (freeing[p] # "freed" => Points(p, i)) /\ (freeing[p] = "freed" => Freeds(p, i)) /\ Holds(p, i)
         /\ Head(puts[p]).held \in BOOLEAN
         /\ \A j : HeldIn(puts[p], j) <=> (i = j /\ Head(puts[p]).held) \/ HeldIn(Tail(puts[p]), j)
         /\ \A j : Listed(puts[p], j) <=> i = j \/ Listed(Tail(puts[p]), j)
         /\ Tail(puts[p]) # <<>> => \A j : ~HeldIn(Tail(Tail(puts[p])), j)
<1>1. BaseInv /\ ProcOK(p) /\ ~panicked /\ boot = {}
  BY DEF TreeInv, BootInv
<1>2. PlaceOK(p) /\ ProcType /\ TableType /\ puts[p] \in Seq(ToPuts) /\ Len(puts[p]) <= 2
  BY <1>1, Before DEF PlaceOK
<1>3. Head(puts[p]) \in ToPuts /\ Tail(puts[p]) \in Seq(ToPuts)
  BY <1>2
<1>4. i \in Inums /\ Head(puts[p]).held \in BOOLEAN
  BY <1>3 DEF ToPuts
<1>5. /\ \A j : HeldIn(puts[p], j) <=> (i = j /\ Head(puts[p]).held) \/ HeldIn(Tail(puts[p]), j)
      /\ \A j : Listed(puts[p], j) <=> i = j \/ Listed(Tail(puts[p]), j)
  BY <1>2, TailListed
<1>6. freeing[p] \in {"no", "freeing", "freed"}
  BY <1>2 DEF ProcType
<1>7. (freeing[p] # "freed" => Points(p, i)) /\ (freeing[p] = "freed" => Freeds(p, i)) /\ Holds(p, i)
  BY <1>5, <1>6 DEF Points, Due, Freeds, Holds
<1>8. Tail(puts[p]) # <<>> => \A j : ~HeldIn(Tail(Tail(puts[p])), j)
  BY <1>2, LastOfTwo DEF HeldIn
<1>9. QED
  BY <1>1, <1>2, <1>3, <1>4, <1>5, <1>6, <1>7, <1>8

(* iput() leaves the rest of the call as it is. *)
LEMMA PutStays ==
  ASSUME TreeInv, NEW p \in Procs, puts[p] # <<>>, NEW i, i = Head(puts[p]).inum, OthersSame(p), Frame,
         UNCHANGED <<tx, cwd, fd, pc, loc>>,
         \A j \in Inums : j # i => core'[j] = core[j] /\ (lock[j] = p => lock'[j] = p),
         \A j : Listed(puts'[p], j) => Listed(puts[p], j)
  PROVE  /\ FirmOK(p)' /\ AtOK(p)' /\ Still(p) /\ Marks(p) /\ (p \in tx' <=> pc'[p] \notin {"user", "up", "scan"})
         /\ \A j : (Live(j)' <=> Live(j)) /\ (Used(j)' <=> Used(j)) /\ (Sound(j)' <=> Sound(j))
<1>1. /\ PlaceOK(p) /\ ProcOK(p) /\ ProcType /\ i \in Inums /\ Listed(puts[p], i)
  BY InPut
<1>2. pc[p] \notin {"parent", "ialloc", "iget", "init", "unlink", "scan"}
  BY <1>1 DEF PlaceOK
<1>3. Still(p) /\ Marks(p)
  BY <1>2 DEF Still, Marks
<1>4. \A j : (Live(j)' <=> Live(j)) /\ (Used(j)' <=> Used(j)) /\ (Sound(j)' <=> Sound(j))
  BY <1>3, SameTree
<1>5. FirmOK(p)'
  <2>1. PICK w, f, c : w = cwd[p] /\ f = fd[p] /\ c = loc[p].cur
    OBVIOUS
  <2>2. Live(w)' /\ (f # Null => Used(f)') /\ (c # Null => Sound(c)')
    BY <1>1, <1>4, <2>1 DEF ProcOK, FirmOK
  <2>3. loc[p].old # Null => disk'.type[loc[p].old] = "file"
    BY <1>1 DEF ProcOK, FirmOK, Frame
  <2>4. QED
    BY <2>1, <2>2, <2>3 DEF FirmOK
<1>6. AtOK(p)'
  <2>1. PICK c, x : c = loc[p].cur /\ x = loc[p].ip
    OBVIOUS
  <2>2. pc[p] = "exists" => Sound(x)'
    BY <1>1, <1>4, <2>1 DEF ProcOK, AtOK
  <2>3. pc[p] = "up" => Live(c)'
    BY <1>1, <1>4, <2>1 DEF ProcOK, AtOK
  <2>4. ASSUME pc[p] \in {"created", "unlinked"}
        PROVE  core'[x].valid /\ Used(x)' /\ lock'[x] = p /\ ~Listed(puts'[p], x)
    <3>1. core[x].valid /\ Used(x) /\ lock[x] = p /\ ~Listed(puts[p], x) /\ x \in Inums
      BY <1>1, <2>1, <2>4 DEF ProcOK, AtOK, PlaceOK
    <3>2. x # i
      BY <1>1, <3>1
    <3>3. QED
      BY <1>4, <3>1, <3>2
  <2>5. QED
    BY <1>2, <2>1, <2>2, <2>3, <2>4 DEF AtOK
<1>7. p \in tx' <=> pc'[p] \notin {"user", "up", "scan"}
  BY <1>1 DEF ProcOK
<1>8. QED
  BY <1>3, <1>4, <1>5, <1>6, <1>7

(* The list without its first one *)
LEMMA PopsOK ==
  ASSUME TreeInv, NEW p \in Procs, puts[p] # <<>>, puts'[p] = Tail(puts[p]), freeing'[p] = "no", tx' = tx,
         NEW i, i = Head(puts[p]).inum,
         \A j : Used(j)' <=> Used(j), \A j : Live(j)' <=> Live(j),
         \A j \in Inums : HeldIn(Tail(puts[p]), j) => lock'[j] = p,
         freeing[p] # "no" => p \in tx
  PROVE  DueOK(p)'
<1>1. /\ PlaceOK(p) /\ ProcOK(p) /\ freeing[p] \in {"no", "freeing", "freed"}
      /\ \A j : Listed(puts[p], j) <=> i = j \/ Listed(Tail(puts[p]), j)
      /\ Tail(puts[p]) # <<>> => \A j : ~HeldIn(Tail(Tail(puts[p])), j)
  BY InPut
<1>2. Due(p)' = Tail(puts[p])
  BY DEF Due
<1>3. \A j \in Inums : Listed(Tail(puts[p]), j) => Listed(Due(p), j) /\ Listed(puts[p], j)
  BY <1>1 DEF Due
<1>4. \A j \in Inums : Listed(Tail(puts[p]), j) => Used(j)'
  BY <1>1, <1>3 DEF ProcOK, DueOK
<1>5. p \notin tx => \A j \in Inums : Listed(Tail(puts[p]), j) => Live(j)'
  BY <1>1, <1>3 DEF ProcOK, DueOK
<1>6. puts'[p] # <<>> /\ Head(puts'[p]).held => ~HeldIn(Tail(puts'[p]), Head(puts'[p]).inum)
  BY <1>1
<1>7. QED
  BY <1>2, <1>4, <1>5, <1>6 DEF DueOK

(* A reference that is given up *)
LEMMA DropsOK ==
  ASSUME TreeInv, NEW p \in Procs, NEW i \in Inums, Holds(p, i), Dropped(i),
         disk.nlink[i] > 0 \/ ~core[i].valid \/ i \in overtaken \/ ~Used(i)
  PROVE  CoreStep(p) /\ \A j \in Inums : j # i => core'[j] = core[j]
<1>1. iref \in [Inums -> Int] /\ core \in [Inums -> Copies] /\ BaseInv
  BY DEF TreeInv, BaseInv, FsTypeOK, TableType
<1>2. \A j \in Inums : iref'[j] = IF j = i THEN iref[i] - 1 ELSE iref[j]
  BY <1>1 DEF Dropped, Put
<1>3. iref[i] >= 1
  BY <1>1, HeldRefs
<1>4. CASE iref[i] = 1
  <2>1. \A j \in Inums : core'[j] = IF j = i THEN Unloaded ELSE core[j]
    BY <1>1, <1>4 DEF Dropped, Put
  <2>2. \A j \in Inums : j # i => core'[j] = core[j] /\ iref'[j] >= iref[j]
    BY <1>1, <1>2, <2>1
  <2>3. QED
    BY <1>4, <2>1, <2>2 DEF CoreStep
<1>5. CASE iref[i] # 1
  <2>1. core' = core
    BY <1>5 DEF Dropped
  <2>2. iref[i] > 1 /\ iref'[i] = iref[i] - 1 /\ \A j \in Inums : j # i => iref'[j] >= iref[j]
    BY <1>1, <1>2, <1>3, <1>5
  <2>3. QED
    BY <2>1, <2>2 DEF CoreStep
<1>6. QED
  BY <1>4, <1>5

(* The first step of iput() when it is not the last reference *)
LEMMA PutRefTree ==
  ASSUME TreeInv, NEW p \in Procs, PutRef(p)
  PROVE  TreeInv'
<1>0. puts[p] # <<>> /\ freeing[p] = "no"
  BY DEF PutRef
<1>1. BaseInv' /\ OthersSame(p)
  BY PutRefBase DEF OthersSame, PutRef, TreeInv
<1>2. PICK i : i = Head(puts[p]).inum
  OBVIOUS
<1>3. /\ BaseInv /\ ProcOK(p) /\ ProcType /\ TableType /\ boot = {} /\ ~panicked /\ i \in Inums
      /\ Holds(p, i) /\ Due(p) = puts[p] /\ Head(puts[p]).held \in BOOLEAN
      /\ \A j : HeldIn(puts[p], j) <=> (i = j /\ Head(puts[p]).held) \/ HeldIn(Tail(puts[p]), j)
      /\ \A j : Listed(puts[p], j) <=> i = j \/ Listed(Tail(puts[p]), j)
  BY <1>0, <1>2, InPut DEF Due
<1>4. /\ ~LastRef(i) /\ lock' = Unlocked(Head(puts[p])) /\ Dropped(i) /\ puts'[p] = Tail(puts[p])
      /\ UNCHANGED <<tx, cwd, fd, pc, loc, freeing, panicked>>
  BY <1>2, <1>3 DEF PutRef, Pops, Put, ProcType
<1>5. Frame
  BY <1>3 DEF PutRef, Frame, aside
<1>6. disk.nlink[i] > 0 \/ ~core[i].valid \/ i \in overtaken \/ ~Used(i) \/ iref[i] # 1
  <2> SUFFICES ASSUME core[i].valid, iref[i] = 1 PROVE disk.nlink[i] > 0
    OBVIOUS
  <2>1. core[i].nlink = disk.nlink[i] /\ core[i].nlink # 0
    BY <1>3, <1>4 DEF LastRef, TreeInv, InodeOK, CopyOK
  <2>2. disk.nlink[i] >= 0 /\ disk.nlink[i] \in Int
    BY <1>3 DEF TreeInv, DiskInv, TreeOK, NodeOK, BaseInv, FsTypeOK, Disks
  <2>3. QED
    BY <2>1, <2>2
<1>7. CoreStep(p) /\ \A j \in Inums : j # i => core'[j] = core[j]
  <2>1. CASE iref[i] # 1
    <3>1. iref \in [Inums -> Int] /\ iref[i] >= 1
      BY <1>3, HeldRefs DEF TableType
    <3>2. core' = core /\ \A j \in Inums : iref'[j] = IF j = i THEN iref[i] - 1 ELSE iref[j]
      BY <1>4, <2>1, <3>1 DEF Dropped, Put
    <3>3. iref[i] > 1 /\ iref'[i] = iref[i] - 1 /\ \A j \in Inums : j # i => iref'[j] >= iref[j]
      BY <1>3, <2>1, <3>1, <3>2
    <3>4. QED
      BY <3>2, <3>3 DEF CoreStep
  <2>2. CASE iref[i] = 1
    BY <1>3, <1>4, <1>6, <2>2, DropsOK
  <2>3. QED
    BY <2>1, <2>2
<1>8. \A j \in Inums : lock'[j] = IF j = i /\ Head(puts[p]).held THEN NoProc ELSE lock[j]
  BY <1>2, <1>3, <1>4 DEF Unlocked, Put, TableType
<1>9. Head(puts[p]).held => lock[i] = p /\ ~HeldIn(Tail(puts[p]), i)
  BY <1>0, <1>2, <1>3 DEF ProcOK, DueOK
<1>10. LockStep(p)
  BY <1>8, <1>9 DEF LockStep
<1>11. /\ FirmOK(p)' /\ AtOK(p)' /\ Still(p) /\ Marks(p) /\ (p \in tx' <=> pc'[p] \notin {"user", "up", "scan"})
       /\ \A j : (Live(j)' <=> Live(j)) /\ (Used(j)' <=> Used(j)) /\ (Sound(j)' <=> Sound(j))
  BY <1>0, <1>1, <1>2, <1>3, <1>4, <1>5, <1>7, <1>8, PutStays
<1>12. \A j \in Inums : HeldIn(Tail(puts[p]), j) => lock'[j] = p
  BY <1>3, <1>8, <1>9 DEF ProcOK, DueOK
<1>13. DueOK(p)'
  BY <1>0, <1>2, <1>4, <1>11, <1>12, PopsOK
<1>14. ProcOK(p)'
  BY <1>0, <1>4, <1>11, <1>13 DEF ProcOK, FreeOK
<1>15. NoNewHolds(p)
  <2>1. Due(p)' = Tail(puts[p])
    BY <1>0, <1>4 DEF Due
  <2>2. \A j \in Inums : (Points(p, j)' => Points(p, j)) /\ ~Freeds(p, j)'
    BY <1>0, <1>3, <1>4, <2>1 DEF Points, Names_it, Freeds
  <2>3. QED
    BY <1>4, <2>2 DEF NoNewHolds
<1>16. QED
  BY <1>1, <1>3, <1>4, <1>5, <1>7, <1>10, <1>11, <1>14, <1>15, QuietStep

(* Who has the only reference has no other pointer to the inode. *)
LEMMA OnlyOne ==
  ASSUME BaseInv, NEW p \in Procs, puts[p] # <<>>, freeing[p] # "freed", NEW i \in Inums, i = Head(puts[p]).inum,
         iref[i] = 1
  PROVE  Alone(p, i) /\ ~Names_it(p, i) /\ ~Listed(Tail(puts[p]), i)
<1>1. PlaceOK(p) /\ puts[p] \in Seq(ToPuts) /\ Len(puts[p]) <= 2 /\ PointersAre(p, i) \in Nat /\ PointersAre(p, i) <= 1
  BY Before, HeldRefs DEF PlaceOK
<1>2. Found_in(puts[p], i) \in Nat /\ Found_in(Tail(puts[p]), i) \in Nat
      /\ Found_in(Tail(puts[p]), i) = Found_in(puts[p], i) - 1
  BY <1>1, FoundIn DEF B
<1>3. PointersAre(p, i) = B(cwd[p] = i) + B(fd[p] = i) + B(loc[p].cur = i) + B(loc[p].old = i)
                            + B(loc[p].ip = i /\ pc[p] # "iget") + Found_in(puts[p], i)
  BY DEF PointersAre
<1>4. ~Names_it(p, i) /\ Found_in(Tail(puts[p]), i) = 0
  BY <1>1, <1>2, <1>3 DEF Names_it, B
<1>5. ~Listed(Tail(puts[p]), i)
  <2>1. Tail(puts[p]) \in Seq(ToPuts) /\ Len(Tail(puts[p])) <= 2
    BY <1>1
  <2>2. Listed(Tail(puts[p]), i) => Found_in(Tail(puts[p]), i) >= 1
    BY <2>1, ListedFound
  <2>3. QED
    BY <1>4, <2>2
<1>6. Listed(puts[p], i)
  BY <1>1, TailListed
<1>7. Holds(p, i)
  BY <1>6 DEF Holds, Points, Due
<1>8. QED
  BY <1>4, <1>5, <1>7, HeldRefs

(* iput() of the last reference to an inode without links *)
LEMMA PutLastTree ==
  ASSUME TreeInv, NEW p \in Procs, PutLast(p)
  PROVE  TreeInv'
<1>0. puts[p] # <<>> /\ freeing[p] = "no"
  BY DEF PutLast
<1>1. BaseInv' /\ OthersSame(p)
  BY PutLastBase DEF OthersSame, PutLast, TreeInv
<1>2. PICK i : i = Head(puts[p]).inum
  OBVIOUS
<1>3. /\ BaseInv /\ ProcOK(p) /\ ProcType /\ TableType /\ boot = {} /\ ~panicked /\ i \in Inums
      /\ Holds(p, i) /\ Points(p, i) /\ Due(p) = puts[p] /\ Head(puts[p]).held \in BOOLEAN
      /\ \A j : HeldIn(puts[p], j) <=> (i = j /\ Head(puts[p]).held) \/ HeldIn(Tail(puts[p]), j)
      /\ \A j : Listed(puts[p], j) <=> i = j \/ Listed(Tail(puts[p]), j)
  BY <1>0, <1>2, InPut DEF Due
<1>4. /\ LastRef(i) /\ Unlocked(Head(puts[p]))[i] = NoProc /\ lock' = Put(lock, i, p) /\ freeing'[p] = "freeing"
      /\ UNCHANGED <<tx, iref, core, cwd, fd, pc, loc, puts, panicked>>
  BY <1>2, <1>3 DEF PutLast, Put, ProcType
<1>5. Frame
  BY <1>3 DEF PutLast, Frame, aside
<1>6. iref[i] = 1 /\ core[i].valid /\ disk.nlink[i] = 0
  BY <1>3, <1>4 DEF LastRef, TreeInv, InodeOK, CopyOK
<1>7. lock[i] \in {p, NoProc}
  BY <1>2, <1>3, <1>4 DEF Unlocked, ProcOK, DueOK
<1>8. \A j \in Inums : lock'[j] = IF j = i THEN p ELSE lock[j]
  BY <1>3, <1>4 DEF Put, TableType
<1>9. LockStep(p) /\ CoreStep(p)
  BY <1>3, <1>4, <1>7, <1>8, Gets DEF LockStep, CoreStep
<1>10. /\ FirmOK(p)' /\ AtOK(p)' /\ Still(p) /\ Marks(p) /\ (p \in tx' <=> pc'[p] \notin {"user", "up", "scan"})
       /\ \A j : (Live(j)' <=> Live(j)) /\ (Used(j)' <=> Used(j)) /\ (Sound(j)' <=> Sound(j))
  BY <1>0, <1>1, <1>2, <1>3, <1>4, <1>5, <1>8, PutStays
<1>11. Due(p)' = puts[p]
  BY <1>4 DEF Due
<1>12. DueOK(p)'
  <2>1. \A j \in Inums : HeldIn(puts[p], j) => lock'[j] = p
    BY <1>3, <1>8 DEF ProcOK, DueOK
  <2>2. \A j \in Inums : Listed(puts[p], j) => Used(j)' /\ (p \notin tx => Live(j)')
    BY <1>3, <1>10 DEF ProcOK, DueOK
  <2>3. puts[p] # <<>> /\ Head(puts[p]).held => ~HeldIn(Tail(puts[p]), Head(puts[p]).inum)
    BY <1>3 DEF ProcOK, DueOK
  <2>4. QED
    BY <1>4, <1>11, <2>1, <2>2, <2>3 DEF DueOK
<1>13. FreeOK(p)'
  <2>1. p \in tx
    <3>1. p \notin tx => Live(i)
      BY <1>3 DEF ProcOK, DueOK
    <3>2. QED
      BY <1>6, <3>1 DEF Live, LiveIn
  <2>2. Alone(p, i) /\ ~Names_it(p, i) /\ ~Listed(Tail(puts[p]), i)
    BY <1>0, <1>2, <1>3, <1>6, OnlyOne
  <2>3. Alone(p, i)'
    <3>1. \A q \in Procs : q # p => ~Holds(q, i)'
      BY <1>1, <2>2 DEF Alone, OthersSame, Same, Holds, Points, Names_it, Due, Freeds
    <3>2. QED
      BY <3>1 DEF Alone
  <2>4. ~Names_it(p, i)'
    BY <1>4, <2>2 DEF Names_it
  <2>5. i = Head(puts'[p]).inum /\ core'[i].valid /\ disk'.nlink[i] = 0 /\ lock'[i] = p /\ ~Listed(Tail(puts'[p]), i) /\ p \in tx'
    BY <1>2, <1>3, <1>4, <1>5, <1>6, <1>8, <2>1, <2>2 DEF Frame
  <2>6. QED
    BY <1>4, <2>3, <2>4, <2>5 DEF FreeOK
<1>14. ProcOK(p)'
  BY <1>10, <1>12, <1>13 DEF ProcOK
<1>15. NoNewHolds(p)
  <2>1. \A j \in Inums : (Points(p, j)' => Points(p, j)) /\ ~Freeds(p, j)'
    BY <1>3, <1>4, <1>11 DEF Points, Names_it, Freeds
  <2>2. QED
    BY <1>4, <2>1 DEF NoNewHolds
<1>16. QED
  BY <1>1, <1>3, <1>4, <1>5, <1>9, <1>10, <1>14, <1>15, QuietStep

(* The end of iput() after an inode is freed *)
LEMMA PutFreedTree ==
  ASSUME TreeInv, NEW p \in Procs, PutFreed(p)
  PROVE  TreeInv'
<1>0. freeing[p] = "freed" /\ puts[p] # <<>>
  BY Before DEF PutFreed, TreeInv, PlaceOK
<1>1. BaseInv' /\ OthersSame(p)
  BY PutFreedBase DEF OthersSame, PutFreed, TreeInv
<1>2. PICK i : i = Head(puts[p]).inum
  OBVIOUS
<1>3. /\ BaseInv /\ ProcOK(p) /\ ProcType /\ TableType /\ boot = {} /\ ~panicked /\ i \in Inums
      /\ Holds(p, i) /\ Freeds(p, i) /\ Due(p) = Tail(puts[p])
      /\ \A j : Listed(puts[p], j) <=> i = j \/ Listed(Tail(puts[p]), j)
  BY <1>0, <1>2, InPut DEF Due
<1>4. /\ Dropped(i) /\ puts'[p] = Tail(puts[p]) /\ freeing'[p] = "no"
      /\ UNCHANGED <<tx, cwd, fd, pc, loc, lock, panicked>>
  BY <1>2, <1>3 DEF PutFreed, Pops, Put, ProcType
<1>5. Frame
  BY <1>3 DEF PutFreed, Frame, aside
<1>6. (i \in overtaken \/ ~Used(i)) /\ p \in tx
  BY <1>0, <1>2, <1>3 DEF ProcOK, FreeOK
<1>7. CoreStep(p) /\ \A j \in Inums : j # i => core'[j] = core[j]
  BY <1>3, <1>4, <1>6, DropsOK
<1>8. LockStep(p)
  BY <1>4 DEF LockStep
<1>9. /\ FirmOK(p)' /\ AtOK(p)' /\ Still(p) /\ Marks(p) /\ (p \in tx' <=> pc'[p] \notin {"user", "up", "scan"})
      /\ \A j : (Live(j)' <=> Live(j)) /\ (Used(j)' <=> Used(j)) /\ (Sound(j)' <=> Sound(j))
  BY <1>0, <1>1, <1>2, <1>3, <1>4, <1>5, <1>7, PutStays
<1>10. \A j \in Inums : HeldIn(Tail(puts[p]), j) => lock'[j] = p
  BY <1>3, <1>4 DEF ProcOK, DueOK
<1>11. DueOK(p)'
  BY <1>0, <1>2, <1>4, <1>6, <1>9, <1>10, PopsOK
<1>12. ProcOK(p)'
  BY <1>0, <1>4, <1>9, <1>11 DEF ProcOK, FreeOK
<1>13. NoNewHolds(p)
  <2>1. Due(p)' = Tail(puts[p])
    BY <1>4 DEF Due
  <2>2. \A j \in Inums : (Points(p, j)' => Points(p, j)) /\ ~Freeds(p, j)'
    BY <1>3, <1>4, <2>1 DEF Points, Names_it, Freeds
  <2>3. QED
    BY <1>4, <2>2 DEF NoNewHolds
<1>14. QED
  BY <1>1, <1>3, <1>4, <1>5, <1>7, <1>8, <1>9, <1>12, <1>13, QuietStep

-----------------------------------------------------------------------------
(* Steps that change the disk *)

(* They keep the invariant if they keep what others rely on. *)
LEMMA DiskStep ==
  ASSUME TreeInv, BaseInv', NEW p \in Procs, Rely(p), ProcOK(p)', DiskInv', stable' = stable, boot = {}, boot' = boot,
         \A i \in Inums : InodeOK(i)', ~panicked'
  PROVE  TreeInv'
<1>1. BaseInv /\ \A q \in Procs : ProcOK(q)
  BY DEF TreeInv
<1>2. \A q \in Procs : ProcOK(q)'
  BY <1>1, OthersStay
<1>3. StableInv' /\ BootInv'
  BY DEF TreeInv, StableInv, BootInv
<1>4. QED
  BY <1>2, <1>3 DEF TreeInv

(* The same for one that changes no type *)
LEMMA NodesStep ==
  ASSUME TreeInv, BaseInv', NEW p \in Procs, OthersSame(p), Marks(p), KeepsLocked(p), NoNewHolds(p), KeepsUnlinked(p),
         ProcOK(p)', DiskInv', stable' = stable, boot = {}, boot' = boot, overtaken' = overtaken,
         disk'.type = disk.type, ~panicked',
         \A j \in Inums : ~Alone(p, j) /\ Live(j) => Live(j)',
         \A j \in Inums : (core[j].valid => core'[j].valid) /\ CopyOK(j)',
         \A j \in Inums : disk'.nlink[j] = 0 => disk.nlink[j] = 0 \/ core'[j].valid
  PROVE  TreeInv'
<1>1. KeepsHeld(p) /\ KeepsTypes(p) /\ KeepsFreed(p)
  BY DEF KeepsHeld, KeepsTypes, KeepsFreed, Used
<1>2. Rely(p)
  BY <1>1 DEF Rely, OthersSame
<1>3. ASSUME NEW j \in Inums PROVE LostOK(j)'
  <2> SUFFICES ASSUME Used(j), disk'.nlink[j] = 0, j \notin overtaken, ~core'[j].valid
               PROVE  \E q \in Procs : pc'[q] \in {"iget", "init"} /\ loc'[q].ip = j
    BY DEF LostOK, Used
  <2>1. disk.nlink[j] = 0 /\ ~core[j].valid
    OBVIOUS
  <2>2. PICK q \in Procs : pc[q] \in {"iget", "init"} /\ loc[q].ip = j
    BY <2>1 DEF TreeInv, InodeOK, LostOK
  <2>3. CASE q = p
    BY <2>2, <2>3 DEF Marks
  <2>4. CASE q # p
    BY <2>2, <2>4 DEF OthersSame, Same
  <2>5. QED
    BY <2>3, <2>4
<1>4. \A j \in Inums : InodeOK(j)'
  BY <1>3 DEF InodeOK
<1>5. QED
  BY <1>2, <1>4, DiskStep

(* What a process points to has a type. *)
LEMMA PointsUsed ==
  ASSUME TreeInv, NEW p \in Procs, NEW i \in Inums, Points(p, i)
  PROVE  Used(i)
<1>1. PlaceOK(p) /\ ProcOK(p) /\ ProcType
  BY Before DEF TreeInv
<1>2. CASE cwd[p] = i \/ fd[p] = i \/ loc[p].cur = i \/ loc[p].old = i
  <2>1. i # Null
    OBVIOUS
  <2>2. QED
    BY <1>1, <1>2, <2>1 DEF ProcOK, FirmOK, Sound, Used, Live, LiveIn
<1>3. CASE Listed(Due(p), i)
  BY <1>1, <1>3 DEF ProcOK, DueOK
<1>4. CASE loc[p].ip = i /\ pc[p] # "iget"
  <2>1. pc[p] \in {"exists", "init", "created", "unlink", "unlinked", "scan"}
    <3>1. pc[p] \in Stations /\ i # Null
      BY <1>1 DEF ProcType
    <3>2. QED
      BY <1>1, <1>4, <3>1 DEF PlaceOK, Stations
  <2>2. CASE pc[p] = "init"
    <3>1. loc[p].call \in {"creat", "mkdir"} /\ Fresh(p, i)
      BY <1>1, <1>4, <2>2 DEF PlaceOK, ProcOK, AtOK
    <3>2. QED
      BY <3>1 DEF Fresh, Type, Used
  <2>3. CASE pc[p] = "unlink"
    <3>1. PICK d, n : d = loc[p].cur /\ n = loc[p].rest[1]
      OBVIOUS
    <3>2. d \in Inums /\ n \in Names /\ Live(d) /\ disk.ent[d][n] = i
      BY <1>1, <1>4, <2>3, <3>1 DEF PlaceOK, ProcOK, AtOK
    <3>3. QED
      BY <3>2, Looked DEF Elems, Sound
  <2>4. CASE pc[p] \in {"exists", "created", "unlinked", "scan"}
    BY <1>1, <1>4, <2>4 DEF ProcOK, AtOK, Sound, Used, Live, LiveIn
  <2>5. QED
    BY <2>1, <2>2, <2>3, <2>4
<1>5. QED
  BY <1>2, <1>3, <1>4 DEF Points, Names_it

(* Processes in the middle of link() *)
LEMMA LinkingType == Linking \in [Inums -> SUBSET Procs]
BY DEF Linking

(* ialloc() *)
LEMMA IallocTree ==
  ASSUME TreeInv, NEW p \in Procs, Ialloc(p)
  PROVE  TreeInv'
<1>0. At(p, "ialloc")
  BY DEF Ialloc
<1>1. BaseInv' /\ OthersSame(p)
  BY IallocBase DEF OthersSame, Ialloc, TreeInv
<1>2. /\ BaseInv /\ PlaceOK(p) /\ ProcOK(p) /\ ProcType /\ pc[p] = "ialloc" /\ freeing[p] = "no" /\ boot = {} /\ ~panicked
      /\ puts[p] = <<>> /\ loc[p].ip = Null /\ loc[p].call \in {"creat", "mkdir"} /\ disk \in Disks
      /\ cwd[p] \in Inums /\ fd[p] \in MaybeInum /\ loc[p].old \in MaybeInum
  BY <1>0, AtPlace DEF PlaceOK
<1>3. PICK d, n : d \in Inums /\ loc[p].cur = d /\ n = loc[p].rest[1]
  BY <1>2 DEF PlaceOK
<1>4. PICK t : t = Type(loc[p].call)
  OBVIOUS
<1>5. PICK i \in Inums :
        /\ disk.type[i] = "free"
        /\ disk' = [disk EXCEPT !.type[i] = t, !.nlink[i] = 0]
        /\ overtaken' = IF \E q \in Procs : puts[q] # <<>> /\ Head(puts[q]).inum = i /\ freeing[q] = "freed"
                        THEN overtaken \cup {i} ELSE overtaken
        /\ Locals(p, [ip |-> i])
        /\ Goto(p, "iget")
  BY <1>4 DEF Ialloc
<1>6. /\ cwd' = cwd /\ fd' = fd /\ puts' = puts /\ freeing' = freeing /\ core' = core /\ lock' = lock /\ iref' = iref
      /\ tx' = tx /\ stable' = stable /\ boot' = boot /\ ~panicked' /\ pc'[p] = "iget"
  BY <1>2, <1>5 DEF Ialloc, table, Goto, Put, ProcType
<1>7. loc'[p].cur = d /\ loc'[p].ip = i /\ loc'[p].rest = loc[p].rest /\ loc'[p].old = loc[p].old /\ loc'[p].call = loc[p].call
  <2>1. loc \in [Procs -> LocalsType]
    BY <1>2 DEF ProcType
  <2>2. QED
    BY <1>3, <1>5, <2>1, LocalsIp
<1>8. t \in {"file", "dir"} /\ t # "free"
  BY <1>4 DEF Type
<1>9. /\ disk'.type = [disk.type EXCEPT ![i] = t] /\ disk'.nlink = [disk.nlink EXCEPT ![i] = 0]
      /\ disk'.ent = disk.ent /\ disk'.up = disk.up /\ disk' \in Disks
  BY <1>1, <1>2, <1>5 DEF Disks, BaseInv, FsTypeOK
<1>10. Gone' = Gone /\ Linking' = Linking
  <2>1. Still(p)
    BY <1>2, <1>6, <1>7 DEF Still
  <2>2. QED
    BY <1>1, <2>1, StillUnderWay DEF OthersSame
<1>11. DiskInv' /\ \A j \in Inums : Live(j)' <=> Live(j)
  <2>1. PICK g : g = Gone
    OBVIOUS
  <2>2. PICK ex : ex = Linking
    OBVIOUS
  <2>3. PICK e : e = disk'
    OBVIOUS
  <2>4. TreeOK(disk, g) /\ LinksOK(disk, g, ex)
    BY <2>1, <2>2, Zenon DEF TreeInv, DiskInv
  <2>5. ex \in [Inums -> SUBSET Procs]
    BY <2>2, LinkingType, Zenon
  <2>6. e \in Disks /\ e.type = [disk.type EXCEPT ![i] = t] /\ e.nlink = [disk.nlink EXCEPT ![i] = 0]
        /\ e.ent = disk.ent /\ e.up = disk.up
    BY <1>9, <2>3
  <2>7. TreeOK(e, g) /\ LinksOK(e, g, ex) /\ \A j \in Inums : LiveIn(e, g, j) <=> LiveIn(disk, g, j)
    BY <1>2, <1>5, <1>8, <2>4, <2>5, <2>6, TreeAlloc
  <2>8. QED
    BY <1>10, <2>1, <2>2, <2>3, <2>7, Zenon DEF DiskInv, Live
<1>12. disk.nlink[i] = 0 /\ ~Used(i)
  BY <1>5 DEF TreeInv, DiskInv, TreeOK, NodeOK, Used
<1>13. /\ \A j \in Inums : disk'.nlink[j] = disk.nlink[j]
       /\ \A j \in Inums : j # i => disk'.type[j] = disk.type[j]
       /\ disk'.type[i] = t
  BY <1>2, <1>9, <1>12 DEF Disks
<1>14. KeepsLocked(p) /\ KeepsHeld(p) /\ KeepsTypes(p) /\ KeepsUnlinked(p)
  <2>1. KeepsLocked(p) /\ KeepsUnlinked(p)
    BY <1>6, <1>9, <1>13 DEF KeepsLocked, KeepsUnlinked
  <2>2. KeepsHeld(p)
    BY <1>6, <1>11 DEF KeepsHeld
  <2>3. KeepsTypes(p)
    BY <1>12, <1>13 DEF KeepsTypes
  <2>4. QED
    BY <2>1, <2>2, <2>3
<1>15. NoNewHolds(p)
  <2>1. Due(p)' = Due(p)
    BY <1>6 DEF Due
  <2>2. \A j \in Inums : (Points(p, j)' => Points(p, j)) /\ (Freeds(p, j)' => Freeds(p, j))
    BY <1>3, <1>6, <1>7, <2>1 DEF Points, Names_it, Freeds
  <2>3. QED
    BY <1>7, <1>12, <2>2 DEF NoNewHolds, Holds
<1>16. KeepsFreed(p)
  <2>1. ASSUME NEW q \in Procs, Freeds(q, i) PROVE i \in overtaken'
    <3>1. puts[q] # <<>>
      BY <1>2, <2>1, Before DEF Freeds, PlaceOK
    <3>2. QED
      BY <1>5, <2>1, <3>1 DEF Freeds
  <2>2. overtaken \subseteq overtaken'
    BY <1>5
  <2>3. QED
    BY <1>13, <2>1, <2>2 DEF KeepsFreed, Used
<1>17. Rely(p)
  BY <1>1, <1>14, <1>15, <1>16 DEF Rely, OthersSame
<1>18. \A j \in Inums : Used(j) => Used(j)' /\ j # i /\ disk'.type[j] = disk.type[j]
  BY <1>12, <1>13 DEF Used
<1>19. Live(d) /\ core[d].valid /\ lock[d] = p /\ n \in Names /\ disk.ent[d][n] = Null /\ Sound(d) /\ Used(d)
  BY <1>2, <1>3, CurIs DEF ProcOK, AtOK
<1>20. FirmOK(p)'
  <2>1. PICK w, f, o : w = cwd[p] /\ f = fd[p] /\ o = loc[p].old
    OBVIOUS
  <2>2. Live(w) /\ (f # Null => Used(f)) /\ (o # Null => disk.type[o] = "file") /\ w \in Inums /\ f \in MaybeInum /\ o \in MaybeInum
    BY <1>2, <2>1 DEF ProcOK, FirmOK
  <2>3. Live(w)' /\ (f # Null => Used(f)')
    BY <1>11, <1>18, <2>2, Constants
  <2>4. o # Null => disk'.type[o] = "file"
    <3>1. o # Null => o \in Inums /\ Used(o)
      BY <2>2 DEF Used, MaybeInum
    <3>2. QED
      BY <1>18, <2>2, <3>1
  <2>5. Sound(d)'
    BY <1>3, <1>11, <1>18, <1>19 DEF Sound
  <2>6. QED
    BY <1>6, <1>7, <2>1, <2>3, <2>4, <2>5 DEF FirmOK
<1>21. Fresh(p, i)'
  <2>1. ASSUME NEW q \in Procs, q # p PROVE ~Points(q, i)' /\ (pc'[q] = "iget" => loc'[q].ip # i)
    <3>1. Same(q)
      BY <1>1, <2>1 DEF OthersSame
    <3>2. ~Points(q, i)
      BY <1>12, PointsUsed
    <3>3. pc[q] = "iget" => loc[q].ip # i
      <4>1. ProcOK(q) /\ PlaceOK(q)
        BY Before DEF TreeInv
      <4>2. QED
        BY <1>12, <4>1 DEF ProcOK, PlaceOK, AtOK, Fresh, Used, Type
    <3>4. QED
      BY <3>1, <3>2, <3>3 DEF Same, Points, Names_it, Due
  <2>2. ~Points(p, i)
    BY <1>12, PointsUsed
  <2>3. cwd[p] # i /\ fd[p] # i /\ loc[p].cur # i /\ loc[p].old # i
    BY <2>2 DEF Points, Names_it
  <2>4. disk'.type[i] = Type(loc'[p].call) /\ disk'.nlink[i] = 0
    BY <1>4, <1>7, <1>12, <1>13
  <2>5. QED
    BY <1>3, <1>6, <1>7, <2>1, <2>3, <2>4 DEF Fresh
<1>22. AtOK(p)'
  <2>1. Live(d)'
    BY <1>3, <1>11, <1>19
  <2>2. QED
    BY <1>3, <1>6, <1>7, <1>9, <1>19, <1>21, <2>1 DEF AtOK
<1>23. ProcOK(p)'
  <2>1. DueOK(p)' /\ FreeOK(p)'
    BY <1>2, <1>6, DueNone DEF FreeOK
  <2>2. p \in tx' <=> pc'[p] \notin {"user", "up", "scan"}
    BY <1>2, <1>6 DEF ProcOK
  <2>3. QED
    BY <1>20, <1>22, <2>1, <2>2 DEF ProcOK
<1>24. ASSUME NEW j \in Inums PROVE InodeOK(j)'
  <2>1. InodeOK(j)
    BY DEF TreeInv
  <2>2. CASE j = i
    <3>1. ~core[i].valid
      BY <1>12, <2>1, <2>2 DEF InodeOK, CopyOK
    <3>2. QED
      BY <1>6, <1>7, <2>2, <3>1 DEF InodeOK, CopyOK, LostOK
  <2>3. CASE j # i
    <3>1. CopyOK(j)'
      BY <1>6, <1>13, <2>1, <2>3 DEF InodeOK, CopyOK, Used
    <3>2. LostOK(j)'
      <4> SUFFICES ASSUME Used(j), disk.nlink[j] = 0, j \notin overtaken, j \notin boot, ~core[j].valid
                   PROVE  \E q \in Procs : pc'[q] \in {"iget", "init"} /\ loc'[q].ip = j
        BY <1>5, <1>6, <1>13, <2>3 DEF LostOK, Used
      <4>1. PICK q \in Procs : pc[q] \in {"iget", "init"} /\ loc[q].ip = j
        BY <2>1 DEF InodeOK, LostOK
      <4>2. q # p
        BY <1>2, <4>1
      <4>3. QED
        BY <1>1, <4>1, <4>2 DEF OthersSame, Same
    <3>3. QED
      BY <3>1, <3>2 DEF InodeOK
  <2>4. QED
    BY <2>2, <2>3
<1>25. QED
  BY <1>1, <1>2, <1>6, <1>11, <1>17, <1>23, <1>24, DiskStep

(* iput() frees an inode. *)
LEMMA PutFreeTree ==
  ASSUME TreeInv, NEW p \in Procs, PutFree(p)
  PROVE  TreeInv'
<1>0. puts[p] # <<>> /\ freeing[p] = "freeing"
  BY DEF PutFree
<1>1. BaseInv' /\ OthersSame(p)
  BY PutFreeBase DEF OthersSame, PutFree, TreeInv
<1>2. PICK i : i = Head(puts[p]).inum
  OBVIOUS
<1>3. /\ BaseInv /\ ProcOK(p) /\ PlaceOK(p) /\ ProcType /\ TableType /\ boot = {} /\ ~panicked /\ i \in Inums
      /\ Points(p, i) /\ Due(p) = puts[p]
      /\ \A j : HeldIn(puts[p], j) <=> (i = j /\ Head(puts[p]).held) \/ HeldIn(Tail(puts[p]), j)
      /\ \A j : Listed(puts[p], j) <=> i = j \/ Listed(Tail(puts[p]), j)
  BY <1>0, <1>2, InPut DEF Due
<1>4. /\ disk' = Freed(disk, i) /\ core' = Put(core, i, Unloaded) /\ lock' = Put(lock, i, NoProc)
      /\ overtaken' = overtaken \ {i} /\ freeing'[p] = "freed"
      /\ UNCHANGED <<stable, tx, iref, cwd, fd, pc, loc, puts, boot>> /\ panicked' = (panicked \/ tx = {})
  BY <1>2, <1>3 DEF PutFree, Put, ProcType
<1>5. /\ lock[i] = p /\ disk.nlink[i] = 0 /\ core[i].valid /\ Alone(p, i)
      /\ ~Names_it(p, i) /\ ~Listed(Tail(puts[p]), i) /\ p \in tx
  BY <1>0, <1>2, <1>3 DEF ProcOK, FreeOK
<1>6. ~panicked'
  BY <1>3, <1>4, <1>5
<1>7. disk \in Disks /\ disk' \in Disks
  BY <1>1, <1>3 DEF BaseInv, FsTypeOK
<1>8. /\ disk'.type = [disk.type EXCEPT ![i] = "free"] /\ disk'.nlink = disk.nlink
      /\ disk'.ent = [disk.ent EXCEPT ![i] = EmptyDir] /\ disk'.up = [disk.up EXCEPT ![i] = Null]
  BY <1>4, <1>7 DEF Freed, Disks
<1>9. Gone' = Gone /\ Linking' = Linking
  <2>1. Still(p)
    BY <1>4 DEF Still
  <2>2. QED
    BY <1>1, <2>1, StillUnderWay DEF OthersSame
<1>10. DiskInv' /\ \A j \in Inums : Live(j)' <=> Live(j)
  <2>1. PICK g : g = Gone
    OBVIOUS
  <2>2. PICK ex : ex = Linking
    OBVIOUS
  <2>3. PICK e : e = disk'
    OBVIOUS
  <2>4. TreeOK(disk, g) /\ LinksOK(disk, g, ex)
    BY <2>1, <2>2, Zenon DEF TreeInv, DiskInv
  <2>5. ex \in [Inums -> SUBSET Procs]
    BY <2>2, LinkingType, Zenon
  <2>6. e \in Disks /\ e.type = [disk.type EXCEPT ![i] = "free"] /\ e.nlink = disk.nlink
        /\ e.ent = [disk.ent EXCEPT ![i] = EmptyDir] /\ e.up = [disk.up EXCEPT ![i] = Null]
    BY <1>7, <1>8, <2>3
  <2>7. TreeOK(e, g) /\ LinksOK(e, g, ex) /\ \A j \in Inums : LiveIn(e, g, j) <=> LiveIn(disk, g, j)
    BY <1>3, <1>5, <1>7, <2>4, <2>5, <2>6, TreeFreed
  <2>8. QED
    BY <1>9, <2>1, <2>2, <2>3, <2>7, Zenon DEF DiskInv, Live
<1>11. /\ \A j \in Inums : j # i => disk'.type[j] = disk.type[j] /\ disk'.ent[j] = disk.ent[j]
       /\ disk'.type[i] = "free"
       /\ \A j \in Inums : j # i => core'[j] = core[j] /\ lock'[j] = lock[j]
       /\ core'[i] = Unloaded
  BY <1>3, <1>4, <1>7, <1>8 DEF Disks, TableType, Put
<1>12. Frees(p, i)
  BY <1>0, <1>2 DEF Frees
<1>13. KeepsLocked(p) /\ KeepsHeld(p) /\ KeepsTypes(p) /\ KeepsUnlinked(p)
  <2>1. KeepsLocked(p)
    BY <1>5, <1>8, <1>11 DEF KeepsLocked
  <2>2. KeepsHeld(p)
    BY <1>5, <1>10, <1>11 DEF KeepsHeld
  <2>3. KeepsTypes(p) /\ KeepsUnlinked(p)
    BY <1>8, <1>11, <1>12 DEF KeepsTypes, KeepsUnlinked
  <2>4. QED
    BY <2>1, <2>2, <2>3
<1>14. Due(p)' = Tail(puts[p])
  BY <1>4 DEF Due
<1>15. NoNewHolds(p)
  <2>1. \A j \in Inums : Points(p, j)' => Points(p, j)
    BY <1>3, <1>4, <1>14 DEF Points, Names_it
  <2>2. \A j \in Inums : Freeds(p, j)' => Holds(p, j)
    BY <1>2, <1>3, <1>4 DEF Freeds, Holds
  <2>3. QED
    BY <1>4, <2>1, <2>2 DEF NoNewHolds
<1>16. KeepsFreed(p)
  BY <1>4, <1>11 DEF KeepsFreed, Used
<1>17. Rely(p)
  BY <1>1, <1>13, <1>15, <1>16, <1>4 DEF Rely, OthersSame
<1>18. \A j \in Inums : j # i => (Used(j) => Used(j)') /\ (Sound(j) => Sound(j)')
  BY <1>10, <1>11 DEF Used, Sound
<1>19. pc[p] \notin {"parent", "ialloc", "iget", "init", "unlink", "scan"}
  BY <1>0, <1>3 DEF PlaceOK
<1>20. FirmOK(p)'
  <2>1. PICK w, f, c, o : w = cwd[p] /\ f = fd[p] /\ c = loc[p].cur /\ o = loc[p].old
    OBVIOUS
  <2>2. /\ Live(w) /\ (f # Null => Used(f)) /\ (c # Null => Sound(c)) /\ (o # Null => disk.type[o] = "file")
        /\ w \in Inums /\ f \in MaybeInum /\ c \in MaybeInum /\ o \in MaybeInum
    BY <1>3, <2>1 DEF ProcOK, FirmOK, ProcType, LocalsType
  <2>3. w # i /\ f # i /\ c # i /\ o # i
    BY <1>5, <2>1 DEF Names_it
  <2>4. Live(w)' /\ (f # Null => Used(f)') /\ (c # Null => Sound(c)') /\ (o # Null => disk'.type[o] = "file")
    BY <1>10, <1>11, <1>18, <2>2, <2>3 DEF MaybeInum
  <2>5. QED
    BY <1>4, <2>1, <2>4 DEF FirmOK
<1>21. AtOK(p)'
  <2>1. PICK c, x : c = loc[p].cur /\ x = loc[p].ip
    OBVIOUS
  <2>2. x # i
    BY <1>5, <1>19, <2>1 DEF Names_it
  <2>3. pc[p] = "exists" => Sound(x)'
    <3>1. pc[p] = "exists" => Sound(x) /\ x \in Inums
      BY <1>3, <2>1 DEF ProcOK, AtOK, PlaceOK
    <3>2. QED
      BY <1>18, <2>2, <3>1
  <2>4. pc[p] = "up" => Live(c)'
    <3>1. pc[p] = "up" => Live(c) /\ c \in Inums
      BY <1>3, <2>1 DEF ProcOK, AtOK, PlaceOK
    <3>2. QED
      BY <1>10, <3>1
  <2>5. ASSUME pc[p] \in {"created", "unlinked"}
        PROVE  core'[x].valid /\ Used(x)' /\ lock'[x] = p /\ ~Listed(puts'[p], x)
    <3>1. core[x].valid /\ Used(x) /\ lock[x] = p /\ ~Listed(puts[p], x) /\ x \in Inums
      BY <1>3, <2>1, <2>5 DEF ProcOK, AtOK, PlaceOK
    <3>2. QED
      BY <1>4, <1>11, <1>18, <2>2, <3>1
  <2>6. QED
    BY <1>4, <1>19, <2>1, <2>3, <2>4, <2>5 DEF AtOK
<1>22. DueOK(p)'
  <2>1. \A j \in Inums : Listed(Tail(puts[p]), j) => j # i /\ Used(j)'
    BY <1>3, <1>5, <1>18 DEF ProcOK, DueOK
  <2>2. \A j \in Inums : HeldIn(Tail(puts[p]), j) => lock'[j] = p
    <3> SUFFICES ASSUME NEW j \in Inums, HeldIn(Tail(puts[p]), j) PROVE lock'[j] = p
      OBVIOUS
    <3>1. lock[j] = p
      BY <1>3 DEF ProcOK, DueOK
    <3>2. j # i
      BY <1>5 DEF Listed, HeldIn
    <3>3. QED
      BY <1>11, <3>1, <3>2
  <2>3. puts[p] # <<>> /\ Head(puts[p]).held => ~HeldIn(Tail(puts[p]), Head(puts[p]).inum)
    BY <1>3 DEF ProcOK, DueOK
  <2>4. QED
    BY <1>4, <1>5, <1>14, <2>1, <2>2, <2>3 DEF DueOK
<1>23. FreeOK(p)'
  BY <1>2, <1>4, <1>5, <1>11 DEF FreeOK, Used
<1>24. ProcOK(p)'
  BY <1>3, <1>4, <1>20, <1>21, <1>22, <1>23 DEF ProcOK
<1>25. ASSUME NEW j \in Inums PROVE InodeOK(j)'
  <2>1. InodeOK(j)
    BY DEF TreeInv
  <2>2. CASE j = i
    BY <1>11, <2>2 DEF InodeOK, CopyOK, LostOK, Used, Unloaded
  <2>3. CASE j # i
    BY <1>4, <1>8, <1>11, <2>1, <2>3 DEF InodeOK, CopyOK, LostOK, Used
  <2>4. QED
    BY <2>2, <2>3
<1>26. QED
  BY <1>1, <1>3, <1>4, <1>6, <1>10, <1>17, <1>24, <1>25, DiskStep

(* The parts of the disk with a new name *)
LEMMA LinkedIs ==
  ASSUME disk \in Disks, NEW p \in Procs, NEW d \in Inums, NEW i \in Inums, NEW n \in Names,
         d = loc[p].cur, i = loc[p].ip, n = loc[p].rest[1], d # i
  PROVE  /\ Linked(p).type = disk.type
         /\ Linked(p).up = [disk.up EXCEPT ![i] = IF loc[p].call = "mkdir" THEN d ELSE Null]
         /\ Linked(p).ent = [disk.ent EXCEPT ![d] = [disk.ent[d] EXCEPT ![n] = i]]
         /\ \A j \in Inums : Linked(p).nlink[j] =
              IF j = d THEN (IF loc[p].call = "mkdir" THEN disk.nlink[d] + 1 ELSE disk.nlink[d])
              ELSE IF j = i THEN 1 ELSE disk.nlink[j]
<1>1. Linked(p).type = disk.type
  BY DEF Linked, Disks
<1>2. Linked(p).up = [disk.up EXCEPT ![i] = IF loc[p].call = "mkdir" THEN d ELSE Null]
  BY DEF Linked, Disks
<1>3. Linked(p).ent = [disk.ent EXCEPT ![d] = [disk.ent[d] EXCEPT ![n] = i]]
  BY DEF Linked, Disks
<1>4. \A j \in Inums : Linked(p).nlink[j] =
        IF j = d THEN (IF loc[p].call = "mkdir" THEN disk.nlink[d] + 1 ELSE disk.nlink[d])
        ELSE IF j = i THEN 1 ELSE disk.nlink[j]
  BY DEF Linked, Disks
<1>5. QED
  BY <1>1, <1>2, <1>3, <1>4

(* Two copies that are set *)
LEMMA TwoCopies ==
  ASSUME core \in [Inums -> Copies], NEW d \in Inums, NEW i \in Inums, d # i, NEW a \in Copies, NEW n \in Int,
         core' = [core EXCEPT ![i] = a, ![d].nlink = n]
  PROVE  /\ core'[i] = a /\ \A j \in Inums : j # i /\ j # d => core'[j] = core[j]
         /\ core'[d].valid = core[d].valid /\ core'[d].type = core[d].type /\ core'[d].nlink = n
<1> DEFINE c == [core EXCEPT ![i] = a]
<1>1. c \in [Inums -> Copies] /\ c[i] = a /\ c[d] = core[d] /\ \A j \in Inums : j # i => c[j] = core[j]
  OBVIOUS
<1>2. core' = [c EXCEPT ![d] = [c[d] EXCEPT !.nlink = n]]
  OBVIOUS
<1> HIDE DEF c
<1>3. core'[i] = a /\ core'[d] = [c[d] EXCEPT !.nlink = n] /\ \A j \in Inums : j # i /\ j # d => core'[j] = core[j]
  BY <1>1, <1>2
<1>4. [c[d] EXCEPT !.nlink = n].valid = c[d].valid /\ [c[d] EXCEPT !.nlink = n].type = c[d].type
      /\ [c[d] EXCEPT !.nlink = n].nlink = n
  BY <1>1 DEF Copies
<1>5. QED
  BY <1>1, <1>3, <1>4

(* create() enters the inode it has allocated. *)
LEMMA CreateLinkTree ==
  ASSUME TreeInv, NEW p \in Procs, CreateLink(p)
  PROVE  TreeInv'
<1>0. At(p, "init")
  BY DEF CreateLink
<1>1. BaseInv' /\ OthersSame(p)
  BY CreateLinkBase DEF OthersSame, CreateLink, TreeInv
<1>2. /\ BaseInv /\ PlaceOK(p) /\ ProcOK(p) /\ ProcType /\ TableType /\ pc[p] = "init" /\ freeing[p] = "no" /\ boot = {}
      /\ ~panicked /\ puts[p] = <<>> /\ loc[p].old = Null /\ loc[p].call \in {"creat", "mkdir"} /\ disk \in Disks
      /\ cwd[p] \in Inums /\ fd[p] \in MaybeInum
  BY <1>0, AtPlace DEF PlaceOK
<1>3. PICK d \in Inums, i \in Inums : loc[p].cur = d /\ loc[p].ip = i
  BY <1>2 DEF PlaceOK
<1>4. PICK n \in Names : n = loc[p].rest[1]
  BY <1>2 DEF ProcOK, AtOK
<1>5. /\ Live(d) /\ core[d].valid /\ lock[d] = p /\ disk.ent[d][n] = Null /\ Fresh(p, i)
      /\ Used(d) /\ Points(p, d) /\ Points(p, i)
  BY <1>2, <1>3, <1>4, CurIs DEF ProcOK, AtOK, Points, Names_it
<1>6. i # d /\ disk.nlink[i] = 0 /\ disk.type[i] = Type(loc[p].call) /\ Used(i) /\ disk.type[i] \in {"file", "dir"}
      /\ (disk.type[i] = "dir" <=> loc[p].call = "mkdir")
  BY <1>2, <1>3, <1>5 DEF Fresh, Type, Used
<1>7. /\ disk' = Linked(p) /\ lock[i] = NoProc /\ lock' = Put(lock, i, p) /\ pc'[p] = "created"
      /\ core' = [core EXCEPT ![i] = [Loaded(i) EXCEPT !.nlink = 1], ![d].nlink = disk'.nlink[d]]
      /\ puts'[p] = <<ToUnlockPut(d)>> /\ cwd' = cwd /\ fd' = fd /\ freeing' = freeing /\ tx' = tx /\ iref' = iref
      /\ UNCHANGED <<stable, boot, overtaken>> /\ panicked' = (panicked \/ NoType(i))
  BY <1>2, <1>3 DEF CreateLink, CanLock, Goto, ThenPut, Put, ProcType, aside
<1>8. loc'[p].cur = Null /\ loc'[p].ip = i /\ loc'[p].old = Null /\ loc'[p].call = loc[p].call
  <2>1. loc \in [Procs -> LocalsType] /\ Locals(p, [cur |-> Null])
    BY <1>2 DEF ProcType, CreateLink
  <2>2. QED
    BY <1>2, <1>3, <2>1, LocalsCur
<1>9. PICK w \in Int : w = IF disk.type[i] = "dir" THEN disk.nlink[d] + 1 ELSE disk.nlink[d]
  BY <1>2 DEF Disks
<1>10. disk' \in Disks
  BY <1>1 DEF BaseInv, FsTypeOK
<1>11. /\ disk'.type = disk.type
       /\ disk'.up = [disk.up EXCEPT ![i] = IF disk.type[i] = "dir" THEN d ELSE Null]
       /\ disk'.ent = [disk.ent EXCEPT ![d] = [disk.ent[d] EXCEPT ![n] = i]]
       /\ \A j \in Inums : disk'.nlink[j] = IF j = d THEN w ELSE IF j = i THEN 1 ELSE disk.nlink[j]
  <2>1. loc[p].call = "mkdir" <=> disk.type[i] = "dir"
    BY <1>6
  <2>2. disk' = Linked(p) /\ d = loc[p].cur /\ i = loc[p].ip /\ d # i /\ disk \in Disks
    BY <1>2, <1>3, <1>6, <1>7
  <2>3. /\ Linked(p).type = disk.type
        /\ Linked(p).up = [disk.up EXCEPT ![i] = IF loc[p].call = "mkdir" THEN d ELSE Null]
        /\ Linked(p).ent = [disk.ent EXCEPT ![d] = [disk.ent[d] EXCEPT ![n] = i]]
        /\ \A j \in Inums : Linked(p).nlink[j] =
             IF j = d THEN (IF loc[p].call = "mkdir" THEN disk.nlink[d] + 1 ELSE disk.nlink[d])
             ELSE IF j = i THEN 1 ELSE disk.nlink[j]
    BY <1>4, <2>2, LinkedIs
  <2>4. QED
    BY <1>9, <2>1, <2>2, <2>3
<1>12. Gone' = Gone /\ Linking' = Linking
  <2>1. Still(p)
    BY <1>2, <1>7, <1>8 DEF Still
  <2>2. QED
    BY <1>1, <2>1, StillUnderWay DEF OthersSame
<1>13. DiskInv' /\ \A j \in Inums : Live(j)' <=> Live(j) \/ (j = i /\ disk.type[i] = "dir")
  <2>1. PICK g : g = Gone
    OBVIOUS
  <2>2. PICK ex : ex = Linking
    OBVIOUS
  <2>3. PICK e : e = disk'
    OBVIOUS
  <2>4. TreeOK(disk, g) /\ LinksOK(disk, g, ex) /\ LiveIn(disk, g, d)
    BY <1>5, <2>1, <2>2, Zenon DEF TreeInv, DiskInv, Live
  <2>5. ex \in [Inums -> SUBSET Procs]
    BY <2>2, LinkingType, Zenon
  <2>6. /\ e \in Disks /\ e.type = disk.type
        /\ e.up = [disk.up EXCEPT ![i] = IF disk.type[i] = "dir" THEN d ELSE Null]
        /\ e.ent = [disk.ent EXCEPT ![d] = [disk.ent[d] EXCEPT ![n] = i]]
        /\ \A j \in Inums : e.nlink[j] = IF j = d THEN w ELSE IF j = i THEN 1 ELSE disk.nlink[j]
    BY <1>10, <1>11, <2>3
  <2>7. disk \in Disks /\ disk.ent[d][n] = Null /\ disk.nlink[i] = 0 /\ disk.type[i] \in {"file", "dir"}
    BY <1>2, <1>5, <1>6
  <2>8. e \in Disks /\ Enters(disk, e, d, n, i, w)
    BY <2>6, Zenon DEF Enters
  <2>9. TreeOK(e, g) /\ LinksOK(e, g, ex)
        /\ \A j \in Inums : LiveIn(e, g, j) <=> LiveIn(disk, g, j) \/ (j = i /\ disk.type[i] = "dir")
    BY <1>9, <2>4, <2>5, <2>7, <2>8, TreeLinked
  <2>10. QED
    BY <1>12, <2>1, <2>2, <2>3, <2>9, Zenon DEF DiskInv, Live
<1>14. Loaded(i).type = disk.type[i] /\ Loaded(i).valid /\ ~NoType(i) /\ ~panicked'
  BY <1>2, <1>6, <1>7, LoadedIs
<1>15. PICK a \in Copies : a = [Loaded(i) EXCEPT !.nlink = 1] /\ a.valid /\ a.type = disk.type[i] /\ a.nlink = 1
  <2>1. Loaded(i) \in Copies
    BY <1>2, LoadedType DEF BaseInv
  <2>2. [Loaded(i) EXCEPT !.nlink = 1] \in Copies
    BY <2>1, CopyType
  <2>3. [Loaded(i) EXCEPT !.nlink = 1].valid /\ [Loaded(i) EXCEPT !.nlink = 1].type = disk.type[i]
        /\ [Loaded(i) EXCEPT !.nlink = 1].nlink = 1
    BY <1>14, <2>1 DEF Copies
  <2>4. QED
    BY <2>2, <2>3
<1>16. /\ core'[i] = a /\ \A j \in Inums : j # i /\ j # d => core'[j] = core[j]
       /\ core'[d].valid = core[d].valid /\ core'[d].type = core[d].type /\ core'[d].nlink = w
  <2>1. core' = [core EXCEPT ![i] = a, ![d].nlink = w]
    BY <1>7, <1>11, <1>15
  <2>2. QED
    BY <1>2, <1>6, <2>1, TwoCopies DEF TableType
<1>17. \A j \in Inums : lock'[j] = IF j = i THEN p ELSE lock[j]
  BY <1>2, <1>7 DEF Put, TableType
<1>18. KeepsLocked(p)
  BY <1>2, <1>5, <1>7, <1>11, <1>17 DEF KeepsLocked, Disks
<1>19. Due(p)' = <<ToUnlockPut(d)>> /\ \A j : Listed(<<ToUnlockPut(d)>>, j) <=> j = d
  BY <1>2, <1>7, OneListed, PutsAre DEF Due
<1>20. NoNewHolds(p)
  <2>1. \A j \in Inums : (Points(p, j)' => Points(p, j)) /\ ~Freeds(p, j)'
    BY <1>2, <1>3, <1>5, <1>7, <1>8, <1>19, Constants DEF Points, Names_it, Freeds
  <2>2. QED
    BY <1>7, <2>1 DEF NoNewHolds
<1>21. KeepsUnlinked(p) /\ Marks(p)
  BY <1>3, <1>5, <1>11, <1>15, <1>16 DEF KeepsUnlinked, Marks
<1>22. ProcOK(p)'
  <2>1. FirmOK(p)'
    <3>1. PICK x, f : x = cwd[p] /\ f = fd[p]
      OBVIOUS
    <3>2. Live(x) /\ (f # Null => Used(f)) /\ x \in Inums
      BY <1>2, <3>1 DEF ProcOK, FirmOK
    <3>3. Live(x)' /\ (f # Null => Used(f)')
      BY <1>11, <1>13, <3>2 DEF Used
    <3>4. QED
      BY <1>7, <1>8, <3>1, <3>3 DEF FirmOK
  <2>2. Used(i)' /\ Used(d)'
    BY <1>5, <1>6, <1>11 DEF Used
  <2>3. AtOK(p)'
    <3>1. core'[i].valid /\ lock'[i] = p /\ ~Listed(puts'[p], i) /\ disk'.type[i] # "free"
      <4>1. core'[i].valid
        BY <1>15, <1>16, Zenon
      <4>2. QED
        BY <1>6, <1>7, <1>11, <1>17, <1>19, <4>1 DEF Used
    <3>2. QED
      BY <1>7, <1>8, <3>1 DEF AtOK, Used
  <2>4. p \in tx'
    BY <1>2, <1>7 DEF ProcOK
  <2>5. DueOK(p)'
    BY <1>2, <1>5, <1>6, <1>7, <1>17, <2>2, <2>4, DueOne
  <2>6. FreeOK(p)'
    BY <1>2, <1>7 DEF FreeOK
  <2>7. QED
    BY <1>7, <2>1, <2>3, <2>4, <2>5, <2>6 DEF ProcOK
<1>23. ASSUME NEW j \in Inums PROVE (core[j].valid => core'[j].valid) /\ CopyOK(j)'
  <2>1. CopyOK(j)
    BY DEF TreeInv, InodeOK
  <2>2. CASE j = i
    <3>1. iref[i] \in Nat /\ iref[i] >= 1
      BY <1>2, <1>5, HeldRefs DEF Holds
    <3>2. iref'[i] > 0
      BY <1>7, <3>1
    <3>3. disk'.nlink[i] = 1 /\ disk'.type[i] = disk.type[i] /\ disk.type[i] # "free"
      BY <1>6, <1>11
    <3>4. core'[i].type = disk.type[i] /\ core'[i].nlink = 1 /\ core'[i].valid
      BY <1>15, <1>16
    <3>5. QED
      BY <2>2, <3>2, <3>3, <3>4 DEF CopyOK, Used
  <2>3. CASE j = d
    BY <1>5, <1>7, <1>11, <1>16, <2>1, <2>3 DEF CopyOK, Used
  <2>4. CASE j # i /\ j # d
    BY <1>7, <1>11, <1>16, <2>1, <2>4 DEF CopyOK, Used
  <2>5. QED
    BY <2>2, <2>3, <2>4
<1>24. \A j \in Inums : disk'.nlink[j] = 0 => disk.nlink[j] = 0 \/ core'[j].valid
  BY <1>5, <1>6, <1>11, <1>15, <1>16
<1>25. \A j \in Inums : ~Alone(p, j) /\ Live(j) => Live(j)'
  BY <1>13
<1>26. QED
  BY <1>1, <1>2, <1>7, <1>11, <1>13, <1>14, <1>18, <1>20, <1>21, <1>22, <1>23, <1>24, <1>25, NodesStep

(* The disk without a name *)
Erased(D, d, n, w) == [SetLinks(D, d, w) EXCEPT !.ent[d][n] = Null]

(* Its parts *)
LEMMA ErasedIs ==
  ASSUME NEW D \in Disks, NEW d \in Inums, NEW n \in Names, NEW w \in Int, NEW e, e = Erased(D, d, n, w)
  PROVE  /\ e.type = D.type /\ e.up = D.up /\ e.nlink = [D.nlink EXCEPT ![d] = w]
         /\ e.ent = [D.ent EXCEPT ![d] = [D.ent[d] EXCEPT ![n] = Null]]
<1> DEFINE f == SetLinks(D, d, w)
<1>1. f \in Disks
  BY SetLinksType
<1>2. f.type = D.type /\ f.up = D.up /\ f.nlink = [D.nlink EXCEPT ![d] = w] /\ f.ent = D.ent
  BY DEF Disks, SetLinks
<1>e. e = [f EXCEPT !.ent[d][n] = Null]
  BY DEF Erased
<1> HIDE DEF f
<1>3. e.type = f.type /\ e.up = f.up /\ e.nlink = f.nlink /\ e.ent = [f.ent EXCEPT ![d] = [f.ent[d] EXCEPT ![n] = Null]]
  BY <1>1, <1>e DEF Disks
<1>4. QED
  BY <1>2, <1>3 DEF f

(* Nobody else is in the middle of removing an inode that is not locked. *)
LEMMA NotGone ==
  ASSUME TreeInv, NEW i \in Inums, lock[i] = NoProc
  PROVE  i \notin Gone
<1> SUFFICES ASSUME NEW q \in Procs, pc[q] = "unlinked", loc[q].ip = i PROVE FALSE
  BY DEF Gone
<1>1. lock[i] = q
  BY DEF TreeInv, ProcOK, AtOK
<1>2. QED
  BY <1>1

(* A directory that unlink() removes is no one else's. *)
LEMMA OnlyMine ==
  ASSUME BaseInv, NEW p \in Procs, NEW i \in Inums, loc[p].ip = i, pc[p] # "iget", ~Busy(i)
  PROVE  Alone(p, i) /\ cwd[p] # i
<1>1. /\ iref[i] \in Nat /\ PointersAre(p, i) \in Nat /\ PointersAre(p, i) <= iref[i]
      /\ Holds(p, i) => iref[i] >= 1
      /\ Holds(p, i) /\ iref[i] = 1 => Alone(p, i)
  BY HeldRefs
<1>2. Holds(p, i)
  BY DEF Holds, Points, Names_it
<1>3. iref[i] = 1
  BY <1>1, <1>2 DEF Busy
<1>4. puts[p] \in Seq(ToPuts) /\ Len(puts[p]) <= 2
  BY Before DEF PlaceOK
<1>5. Found_in(puts[p], i) \in Nat
  BY <1>4, FoundIn
<1>6. PointersAre(p, i) = B(cwd[p] = i) + B(fd[p] = i) + B(loc[p].cur = i) + B(loc[p].old = i)
                            + B(loc[p].ip = i /\ pc[p] # "iget") + Found_in(puts[p], i)
  BY DEF PointersAre
<1>7. cwd[p] # i
  BY <1>1, <1>3, <1>5, <1>6 DEF B
<1>8. QED
  BY <1>1, <1>2, <1>3, <1>7

(* unlink() erases the entry. *)
LEMMA UnlinkTree ==
  ASSUME TreeInv, RemoveBusy = FALSE, NEW p \in Procs, Unlink(p)
  PROVE  TreeInv'
<1>0. At(p, "unlink")
  BY DEF Unlink
<1>1. BaseInv' /\ OthersSame(p)
  BY UnlinkBase DEF OthersSame, Unlink, TreeInv
<1>2. /\ BaseInv /\ PlaceOK(p) /\ ProcOK(p) /\ ProcType /\ TableType /\ pc[p] = "unlink" /\ freeing[p] = "no" /\ boot = {}
      /\ ~panicked /\ puts[p] = <<>> /\ loc[p].old = Null /\ disk \in Disks
      /\ cwd[p] \in Inums /\ fd[p] \in MaybeInum
  BY <1>0, AtPlace DEF PlaceOK
<1>3. PICK d \in Inums, i \in Inums : loc[p].cur = d /\ loc[p].ip = i
  BY <1>2 DEF PlaceOK
<1>4. PICK n \in Names : n = loc[p].rest[1]
  BY <1>2 DEF ProcOK, AtOK
<1>5. /\ Live(d) /\ core[d].valid /\ lock[d] = p /\ disk.ent[d][n] = i
      /\ Used(d) /\ Points(p, d) /\ Points(p, i)
  BY <1>2, <1>3, <1>4, CurIs DEF ProcOK, AtOK, Points, Names_it
<1>6. disk.nlink[d] > 0 /\ Used(i) /\ disk.nlink[i] > 0
  BY <1>5, Looked DEF Elems, Sound
<1>7. Loaded(i).type = disk.type[i] /\ Loaded(i).nlink = disk.nlink[i] /\ Loaded(i).valid /\ ~NoType(i)
  BY <1>6, LoadedIs
<1>8. core[d].type = disk.type[d] /\ core[d].nlink = disk.nlink[d] /\ iref[d] > 0
  BY <1>5 DEF TreeInv, InodeOK, CopyOK
<1>9. PICK w \in Int : w = IF disk.type[i] = "dir" THEN disk.nlink[d] - 1 ELSE disk.nlink[d]
  BY <1>2 DEF Disks
<1>10. /\ lock[i] = NoProc /\ (disk.type[i] = "dir" => disk.ent[i] = EmptyDir /\ ~Busy(i))
       /\ disk' = [SetLinks(disk, d, w) EXCEPT !.ent[d][n] = Null]
       /\ core' = [core EXCEPT ![i] = Loaded(i), ![d].nlink = w]
       /\ lock' = Put(lock, i, p) /\ pc'[p] = "unlinked" /\ puts'[p] = <<ToUnlockPut(d)>>
       /\ cwd' = cwd /\ fd' = fd /\ freeing' = freeing /\ tx' = tx /\ iref' = iref
       /\ UNCHANGED <<stable, boot, overtaken>> /\ panicked' = (panicked \/ NoType(i) \/ Loaded(i).nlink = 0)
  <2>1. w = IF Loaded(i).type = "dir" THEN core[d].nlink - 1 ELSE core[d].nlink
    BY <1>7, <1>8, <1>9
  <2>2. pc'[p] = "unlinked" /\ puts'[p] = <<ToUnlockPut(d)>>
    BY <1>2, <1>3 DEF Unlink, Goto, ThenPut, Put, ProcType
  <2>3. disk' = [SetLinks(disk, d, w) EXCEPT !.ent[d][n] = Null]
    BY <1>3, <1>4, <2>1 DEF Unlink
  <2>4. core' = [core EXCEPT ![i] = Loaded(i), ![d].nlink = w]
    BY <1>3, <2>1 DEF Unlink
  <2>5. lock[i] = NoProc /\ (disk.type[i] = "dir" => disk.ent[i] = EmptyDir /\ ~Busy(i))
    BY <1>3, <1>7 DEF Unlink, CanLock, isdirempty
  <2>6. QED
    BY <1>3, <2>2, <2>3, <2>4, <2>5 DEF Unlink, aside
<1>11. i # d /\ i \notin Gone
  BY <1>5, <1>10, NotGone
<1>12. disk.type[i] = "dir" => Alone(p, i) /\ cwd[p] # i
  BY <1>2, <1>3, <1>10, OnlyMine
<1>13. ~panicked'
  <2>1. disk.nlink[i] # 0
    BY <1>2, <1>6 DEF Disks
  <2>2. QED
    BY <1>2, <1>7, <1>10, <2>1
<1>14. loc'[p].cur = Null /\ loc'[p].ip = i /\ loc'[p].old = Null
  <2>1. loc \in [Procs -> LocalsType] /\ Locals(p, [cur |-> Null])
    BY <1>2 DEF ProcType, Unlink
  <2>2. QED
    BY <1>2, <1>3, <2>1, LocalsCur
<1>15. disk' \in Disks
  BY <1>1 DEF BaseInv, FsTypeOK
<1>16. /\ disk'.type = disk.type /\ disk'.up = disk.up /\ disk'.nlink = [disk.nlink EXCEPT ![d] = w]
       /\ disk'.ent = [disk.ent EXCEPT ![d] = [disk.ent[d] EXCEPT ![n] = Null]]
  <2>1. PICK e : e = disk'
    OBVIOUS
  <2>2. e = Erased(disk, d, n, w)
    BY <1>10, <2>1 DEF Erased
  <2>3. /\ e.type = disk.type /\ e.up = disk.up /\ e.nlink = [disk.nlink EXCEPT ![d] = w]
        /\ e.ent = [disk.ent EXCEPT ![d] = [disk.ent[d] EXCEPT ![n] = Null]]
    <3>1. disk \in Disks
      BY <1>2
    <3>2. QED
      BY <2>2, <3>1, ErasedIs
  <2>4. QED
    BY <2>1, <2>3
<1>17. Gone' = Gone \cup {i} /\ Linking' = Linking
  <2>1. \A q \in Procs : q # p => pc'[q] = pc[q] /\ loc'[q] = loc[q]
    BY <1>1 DEF OthersSame, Same
  <2>2. Gone' = Gone \cup {i}
    BY <1>2, <1>10, <1>14, <2>1 DEF Gone
  <2>3. \A q \in Procs : loc'[q].old = loc[q].old
    BY <1>2, <1>14, <2>1
  <2>4. QED
    BY <2>2, <2>3 DEF Linking
<1>18. DiskInv' /\ \A j \in Inums : Live(j)' <=> Live(j) /\ j # i
  <2>1. PICK g : g = Gone
    OBVIOUS
  <2>2. PICK ex : ex = Linking
    OBVIOUS
  <2>3. PICK e : e = disk'
    OBVIOUS
  <2>4. TreeOK(disk, g) /\ LinksOK(disk, g, ex) /\ LiveIn(disk, g, d) /\ i \notin g
    BY <1>5, <1>11, <2>1, <2>2, Zenon DEF TreeInv, DiskInv, Live
  <2>5. ex \in [Inums -> SUBSET Procs]
    BY <2>2, LinkingType, Zenon
  <2>6. /\ e \in Disks /\ e.type = disk.type /\ e.up = disk.up /\ e.nlink = [disk.nlink EXCEPT ![d] = w]
        /\ e.ent = [disk.ent EXCEPT ![d] = [disk.ent[d] EXCEPT ![n] = Null]]
    BY <1>15, <1>16, <2>3
  <2>7. disk \in Disks /\ disk.ent[d][n] = i /\ (disk.type[i] = "dir" => disk.ent[i] = EmptyDir)
    BY <1>2, <1>5, <1>10
  <2>8. PICK h : h = g \cup {i}
    OBVIOUS
  <2>e. e \in Disks /\ Erases(disk, e, g, d, n, i, w)
    BY <1>9, <2>4, <2>6, <2>7 DEF Erases
  <2>9. TreeOK(e, h) /\ LinksOK(e, h, ex)
        /\ \A j \in Inums : LiveIn(e, h, j) <=> LiveIn(disk, g, j) /\ j # i
    <3>1. TreeOK(e, g \cup {i}) /\ LinksOK(e, g \cup {i}, ex)
          /\ \A j \in Inums : LiveIn(e, g \cup {i}, j) <=> LiveIn(disk, g, j) /\ j # i
      BY <2>4, <2>5, <2>7, <2>e, TreeErased
    <3>2. QED
      BY <2>8, <3>1
  <2>10. h = Gone'
    BY <1>17, <2>1, <2>8
  <2>11. QED
    BY <1>17, <2>1, <2>2, <2>3, <2>9, <2>10, Zenon DEF DiskInv, Live
<1>19. /\ core'[i] = Loaded(i) /\ \A j \in Inums : j # i /\ j # d => core'[j] = core[j]
       /\ core'[d].valid = core[d].valid /\ core'[d].type = core[d].type /\ core'[d].nlink = w
  <2>1. Loaded(i) \in Copies
    BY <1>2, LoadedType DEF BaseInv
  <2>2. QED
    BY <1>2, <1>10, <1>11, <2>1, TwoCopies DEF TableType
<1>20. \A j \in Inums : lock'[j] = IF j = i THEN p ELSE lock[j]
  BY <1>2, <1>10 DEF Put, TableType
<1>21. \A j \in Inums : /\ disk'.nlink[j] = IF j = d THEN w ELSE disk.nlink[j]
                        /\ disk'.type[j] = disk.type[j] /\ (j # d => disk'.ent[j] = disk.ent[j])
  BY <1>2, <1>16 DEF Disks
<1>22. KeepsLocked(p)
  BY <1>5, <1>10, <1>20, <1>21 DEF KeepsLocked
<1>23. Due(p)' = <<ToUnlockPut(d)>> /\ \A j : Listed(<<ToUnlockPut(d)>>, j) <=> j = d
  BY <1>2, <1>10, OneListed, PutsAre DEF Due
<1>24. NoNewHolds(p)
  <2>1. \A j \in Inums : (Points(p, j)' => Points(p, j)) /\ ~Freeds(p, j)'
    BY <1>2, <1>3, <1>5, <1>10, <1>14, <1>23, Constants DEF Points, Names_it, Freeds
  <2>2. QED
    BY <1>10, <2>1 DEF NoNewHolds
<1>25. KeepsUnlinked(p) /\ Marks(p)
  BY <1>2, <1>5, <1>21 DEF KeepsUnlinked, Marks
<1>26. ProcOK(p)'
  <2>1. FirmOK(p)'
    <3>1. PICK x, f : x = cwd[p] /\ f = fd[p]
      OBVIOUS
    <3>2. Live(x) /\ (f # Null => Used(f)) /\ x \in Inums
      BY <1>2, <3>1 DEF ProcOK, FirmOK
    <3>3. x # i
      BY <1>12, <3>1, <3>2 DEF Live, LiveIn
    <3>4. Live(x)' /\ (f # Null => Used(f)')
      BY <1>16, <1>18, <3>2, <3>3 DEF Used
    <3>5. QED
      BY <1>10, <1>14, <3>1, <3>4 DEF FirmOK
  <2>2. Used(i)' /\ Used(d)'
    BY <1>5, <1>6, <1>16 DEF Used
  <2>3. AtOK(p)'
    <3>1. core'[i].valid
      BY <1>7, <1>19, Zenon
    <3>2. lock'[i] = p /\ ~Listed(puts'[p], i) /\ disk'.type[i] # "free"
      BY <1>6, <1>10, <1>11, <1>20, <1>21, <1>23 DEF Used
    <3>3. QED
      BY <1>10, <1>14, <3>1, <3>2 DEF AtOK, Used
  <2>4. p \in tx'
    BY <1>2, <1>10 DEF ProcOK
  <2>5. DueOK(p)'
    BY <1>2, <1>5, <1>10, <1>11, <1>20, <2>2, <2>4, DueOne
  <2>6. FreeOK(p)'
    BY <1>2, <1>10 DEF FreeOK
  <2>7. QED
    BY <1>10, <2>1, <2>3, <2>4, <2>5, <2>6 DEF ProcOK
<1>27. ASSUME NEW j \in Inums PROVE (core[j].valid => core'[j].valid) /\ CopyOK(j)'
  <2>1. CopyOK(j)
    BY DEF TreeInv, InodeOK
  <2>2. CASE j = i
    <3>1. iref[i] \in Nat /\ iref[i] >= 1
      BY <1>2, <1>5, HeldRefs DEF Holds
    <3>2. iref'[i] > 0
      BY <1>10, <3>1
    <3>3. QED
      BY <1>6, <1>7, <1>11, <1>19, <1>21, <2>2, <3>2 DEF CopyOK, Used
  <2>3. CASE j = d
    <3>1. iref'[d] > 0
      BY <1>8, <1>10
    <3>2. disk'.nlink[d] = w /\ disk'.type[d] = disk.type[d] /\ disk.type[d] # "free"
      BY <1>5, <1>21 DEF Used
    <3>3. core'[d].type = disk.type[d] /\ core'[d].nlink = w /\ core'[d].valid = core[d].valid
      BY <1>8, <1>19
    <3>4. QED
      BY <2>3, <3>1, <3>2, <3>3 DEF CopyOK, Used
  <2>4. CASE j # i /\ j # d
    BY <1>10, <1>19, <1>21, <2>1, <2>4 DEF CopyOK, Used
  <2>5. QED
    BY <2>2, <2>3, <2>4
<1>28. \A j \in Inums : disk'.nlink[j] = 0 => disk.nlink[j] = 0 \/ core'[j].valid
  BY <1>5, <1>19, <1>21
<1>29. \A j \in Inums : ~Alone(p, j) /\ Live(j) => Live(j)'
  BY <1>12, <1>18 DEF Live, LiveIn
<1>30. QED
  BY <1>1, <1>2, <1>10, <1>13, <1>16, <1>18, <1>22, <1>24, <1>25, <1>26, <1>27, <1>28, <1>29, NodesStep

(* The end of a call that has changed counts or entries *)
LEMMA LeaveNodes ==
  ASSUME TreeInv, BaseInv', NEW p \in Procs, OthersSame(p), KeepsLocked(p), KeepsUnlinked(p), p \in tx,
         pc[p] \notin {"iget", "init"}, loc'[p] = NoLocals, pc'[p] = "end", freeing'[p] = "no", tx' = tx,
         cwd' = cwd, fd' = fd, Hands(p), DiskInv', stable' = stable, boot = {}, boot' = boot, overtaken' = overtaken,
         disk'.type = disk.type, ~panicked', \A j \in Inums : Live(j) => Live(j)',
         \A j \in Inums : (core[j].valid => core'[j].valid) /\ CopyOK(j)',
         \A j \in Inums : disk'.nlink[j] = 0 => disk.nlink[j] = 0 \/ core'[j].valid
  PROVE  TreeInv'
<1>1. ProcOK(p) /\ BaseInv /\ cwd[p] \in Inums
  BY Before DEF TreeInv
<1>2. loc'[p].cur = Null /\ loc'[p].ip = Null /\ loc'[p].old = Null
  BY Constants
<1>3. \A i : (Live(i) => Live(i)') /\ (Used(i) => Used(i)')
  BY DEF Used, Live, LiveIn
<1>4. DueOK(p)' /\ \A i \in Inums : Listed(puts'[p], i) => Points(p, i) \/ disk.nlink[i] > 0
  BY <1>3, HandsOK
<1>5. PICK w, f : w = cwd[p] /\ f = fd[p]
  OBVIOUS
<1>6. Live(w)' /\ (f # Null => Used(f)')
  BY <1>1, <1>3, <1>5 DEF ProcOK, FirmOK
<1>7. Live(cwd[p])' /\ (fd'[p] # Null => Used(fd[p])')
  BY <1>5, <1>6
<1>8. ProcOK(p)'
  BY <1>4, <1>7, LeftOK
<1>9. NoNewHolds(p)
  <2> SUFFICES ASSUME NEW i \in Inums
               PROVE  (Points(p, i)' => Points(p, i) \/ disk.nlink[i] > 0) /\ ~Freeds(p, i)' /\ pc'[p] # "iget"
    BY DEF NoNewHolds
  <2>1. Due(p)' = puts'[p] /\ i # Null
    BY DEF Due
  <2>2. QED
    BY <1>2, <1>4, <2>1 DEF Points, Names_it, Freeds
<1>10. Marks(p)
  BY DEF Marks
<1>11. QED
  BY <1>3, <1>8, <1>9, <1>10, NodesStep

(* A process in link() has a file. *)
LEMMA LinkingFiles ==
  ASSUME TreeInv, NEW i \in Inums
  PROVE  Linking[i] # {} => disk.type[i] = "file"
<1> SUFFICES ASSUME NEW q \in Procs, loc[q].old = i PROVE disk.type[i] = "file"
  BY DEF Linking
<1>1. loc[q].old # Null
  OBVIOUS
<1>2. QED
  BY <1>1 DEF TreeInv, ProcOK, FirmOK

(* unlink() lowers the count of links. *)
LEMMA UnlinkedTree ==
  ASSUME TreeInv, NEW p \in Procs, Unlinked(p)
  PROVE  TreeInv'
<1>0. At(p, "unlinked")
  BY DEF Unlinked
<1>1. BaseInv' /\ OthersSame(p)
  BY UnlinkedBase DEF OthersSame, Unlinked, TreeInv
<1>2. /\ BaseInv /\ PlaceOK(p) /\ ProcOK(p) /\ ProcType /\ TableType /\ pc[p] = "unlinked" /\ freeing[p] = "no" /\ boot = {}
      /\ ~panicked /\ puts[p] = <<>> /\ loc[p].old = Null /\ loc[p].cur = Null /\ disk \in Disks
  BY <1>0, AtPlace DEF PlaceOK
<1>3. PICK i \in Inums : loc[p].ip = i
  BY <1>2 DEF PlaceOK
<1>4. core[i].valid /\ Used(i) /\ lock[i] = p /\ Points(p, i)
  BY <1>2, <1>3 DEF ProcOK, AtOK, Points, Names_it
<1>5. core[i].type = disk.type[i] /\ core[i].nlink = disk.nlink[i] /\ iref[i] > 0
  BY <1>4 DEF TreeInv, InodeOK, CopyOK
<1>6. PICK n \in Int : n = disk.nlink[i] - 1
  BY <1>2 DEF Disks
<1>7. /\ disk' = SetLinks(disk, i, n) /\ core' = [core EXCEPT ![i].nlink = n]
      /\ loc'[p] = NoLocals /\ pc'[p] = "end" /\ puts'[p] = <<ToUnlockPut(i)>> /\ lock' = lock
      /\ cwd' = cwd /\ fd' = fd /\ freeing' = freeing /\ tx' = tx /\ iref' = iref
      /\ UNCHANGED <<stable, boot, overtaken>> /\ panicked' = panicked
  <2>1. n = core[i].nlink - 1
    BY <1>5, <1>6
  <2>2. disk' = SetLinks(disk, i, n) /\ core' = [core EXCEPT ![i].nlink = n]
    BY <1>3, <2>1 DEF Unlinked
  <2>3. loc'[p] = NoLocals /\ pc'[p] = "end" /\ puts'[p] = <<ToUnlockPut(i)>>
    BY <1>2, <1>3 DEF Unlinked, Leave, ThenPut, Goto, Put, ProcType
  <2>4. QED
    BY <2>2, <2>3 DEF Unlinked, aside
<1>8. /\ disk'.type = disk.type /\ disk'.up = disk.up /\ disk'.ent = disk.ent
      /\ disk'.nlink = [disk.nlink EXCEPT ![i] = n] /\ disk' \in Disks
  BY <1>2, <1>7, SetLinksType DEF SetLinks, Disks
<1>9. Gone' = Gone \ {i} /\ Linking' = Linking /\ i \in Gone
  <2>1. \A q \in Procs : q # p => pc'[q] = pc[q] /\ loc'[q] = loc[q]
    BY <1>1 DEF OthersSame, Same
  <2>2. \A q \in Procs : pc[q] = "unlinked" /\ loc[q].ip = i => q = p
    BY <1>4 DEF TreeInv, ProcOK, AtOK
  <2>3. Gone' = Gone \ {i} /\ i \in Gone
    BY <1>2, <1>3, <1>7, <2>1, <2>2 DEF Gone
  <2>4. \A q \in Procs : loc'[q].old = loc[q].old
    BY <1>2, <1>7, <2>1 DEF NoLocals
  <2>5. QED
    BY <2>3, <2>4 DEF Linking
<1>10. DiskInv' /\ \A j \in Inums : Live(j)' <=> Live(j)
  <2>1. PICK g : g = Gone
    OBVIOUS
  <2>2. PICK ex : ex = Linking
    OBVIOUS
  <2>3. PICK e : e = disk'
    OBVIOUS
  <2>4. TreeOK(disk, g) /\ LinksOK(disk, g, ex) /\ i \in g
    BY <1>9, <2>1, <2>2, Zenon DEF TreeInv, DiskInv
  <2>5. ex \in [Inums -> SUBSET Procs] /\ (disk.type[i] = "dir" => ex[i] = {})
    <3>1. disk.type[i] = "dir" => Linking[i] = {}
      BY LinkingFiles
    <3>2. QED
      BY <2>2, <3>1, LinkingType
  <2>6. /\ e \in Disks /\ e.type = disk.type /\ e.up = disk.up /\ e.ent = disk.ent
        /\ e.nlink = [disk.nlink EXCEPT ![i] = disk.nlink[i] - 1]
    BY <1>6, <1>8, <2>3
  <2>7. disk \in Disks
    BY <1>2
  <2>8. PICK h : h = g \ {i}
    OBVIOUS
  <2>9. TreeOK(e, h) /\ LinksOK(e, h, ex) /\ \A j \in Inums : LiveIn(e, h, j) <=> LiveIn(disk, g, j)
    BY <2>4, <2>5, <2>6, <2>7, <2>8, TreeLowered
  <2>10. h = Gone'
    BY <1>9, <2>1, <2>8
  <2>11. QED
    BY <1>9, <2>1, <2>2, <2>3, <2>9, <2>10, Zenon DEF DiskInv, Live
<1>11. /\ \A j \in Inums : j # i => core'[j] = core[j]
       /\ core'[i].valid = core[i].valid /\ core'[i].type = core[i].type /\ core'[i].nlink = n
  BY <1>2, <1>7 DEF TableType, Copies
<1>12. \A j \in Inums : disk'.nlink[j] = IF j = i THEN n ELSE disk.nlink[j]
  BY <1>2, <1>8 DEF Disks
<1>13. KeepsLocked(p)
  BY <1>4, <1>7, <1>8, <1>12 DEF KeepsLocked
<1>14. KeepsUnlinked(p)
  BY <1>4, <1>12 DEF KeepsUnlinked
<1>15. p \in tx
  BY <1>2 DEF ProcOK
<1>16. Hands(p)
  BY <1>4, <1>7, <1>15 DEF Hands, May
<1>17. ASSUME NEW j \in Inums PROVE (core[j].valid => core'[j].valid) /\ CopyOK(j)'
  <2>1. CopyOK(j)
    BY DEF TreeInv, InodeOK
  <2>2. CASE j = i
    <3>1. iref'[i] > 0 /\ disk'.nlink[i] = n /\ disk'.type[i] = disk.type[i] /\ disk.type[i] # "free"
      BY <1>4, <1>5, <1>7, <1>8, <1>12 DEF Used
    <3>2. core'[i].type = disk.type[i] /\ core'[i].nlink = n /\ core'[i].valid = core[i].valid
      BY <1>5, <1>11
    <3>3. QED
      BY <2>2, <3>1, <3>2 DEF CopyOK, Used
  <2>3. CASE j # i
    BY <1>7, <1>8, <1>11, <1>12, <2>1, <2>3 DEF CopyOK, Used
  <2>4. QED
    BY <2>2, <2>3
<1>18. \A j \in Inums : disk'.nlink[j] = 0 => disk.nlink[j] = 0 \/ core'[j].valid
  BY <1>4, <1>11, <1>12
<1>19. QED
  BY <1>1, <1>2, <1>7, <1>8, <1>10, <1>13, <1>14, <1>15, <1>16, <1>17, <1>18, LeaveNodes

(* link() sets a count. *)
LEMMA CountStep ==
  ASSUME TreeInv, BaseInv', NEW p \in Procs, NEW i \in Inums, NEW n \in Int, Used(i), Points(p, i),
         lock[i] = NoProc, lock' = lock, disk' = SetLinks(disk, i, n),
         core' = Put(core, i, [Loaded(i) EXCEPT !.nlink = n]), \A j \in Inums : iref'[j] >= iref[j]
  PROVE  /\ KeepsLocked(p) /\ KeepsUnlinked(p) /\ disk' \in Disks
         /\ disk'.type = disk.type /\ disk'.up = disk.up /\ disk'.ent = disk.ent
         /\ disk'.nlink = [disk.nlink EXCEPT ![i] = n]
         /\ \A j \in Inums : (core[j].valid => core'[j].valid) /\ CopyOK(j)'
         /\ \A j \in Inums : disk'.nlink[j] = 0 => disk.nlink[j] = 0 \/ core'[j].valid
<1>1. BaseInv /\ TableType /\ disk \in Disks
  BY Before DEF TreeInv
<1>2. /\ disk'.type = disk.type /\ disk'.up = disk.up /\ disk'.ent = disk.ent
      /\ disk'.nlink = [disk.nlink EXCEPT ![i] = n] /\ disk' \in Disks
  BY <1>1, SetLinksType DEF SetLinks, Disks
<1>3. \A j \in Inums : disk'.nlink[j] = IF j = i THEN n ELSE disk.nlink[j]
  BY <1>1, <1>2 DEF Disks
<1>4. Loaded(i).type = disk.type[i] /\ Loaded(i).valid /\ Loaded(i) \in Copies
  BY <1>1, LoadedIs, LoadedType DEF BaseInv
<1>5. PICK a \in Copies : a = [Loaded(i) EXCEPT !.nlink = n] /\ a.valid /\ a.type = disk.type[i] /\ a.nlink = n
  <2>1. [Loaded(i) EXCEPT !.nlink = n] \in Copies
    BY <1>4, CopyType
  <2>2. [Loaded(i) EXCEPT !.nlink = n].valid /\ [Loaded(i) EXCEPT !.nlink = n].type = disk.type[i]
        /\ [Loaded(i) EXCEPT !.nlink = n].nlink = n
    BY <1>4 DEF Copies
  <2>3. QED
    BY <2>1, <2>2
<1>6. core'[i] = a /\ \A j \in Inums : j # i => core'[j] = core[j]
  BY <1>1, <1>5 DEF Put, TableType
<1>7. core'[i].valid
  BY <1>5, <1>6, Zenon
<1>8. KeepsLocked(p)
  BY <1>2, <1>3 DEF KeepsLocked
<1>9. KeepsUnlinked(p)
  BY <1>3 DEF KeepsUnlinked
<1>10. ASSUME NEW j \in Inums PROVE (core[j].valid => core'[j].valid) /\ CopyOK(j)'
  <2>1. CopyOK(j)
    BY DEF TreeInv, InodeOK
  <2>2. iref[j] \in Int /\ iref'[j] \in Int
    BY <1>1 DEF BaseInv, FsTypeOK, TableType
  <2>3. CASE j = i
    <3>1. iref[i] \in Nat /\ iref[i] >= 1
      BY <1>1, HeldRefs DEF Holds
    <3>2. iref'[i] > 0
      BY <2>2, <2>3, <3>1
    <3>3. disk'.nlink[i] = n /\ disk'.type[i] = disk.type[i] /\ disk.type[i] # "free"
      BY <1>2, <1>3 DEF Used
    <3>4. core'[i].type = disk.type[i] /\ core'[i].nlink = n
      BY <1>5, <1>6
    <3>5. QED
      BY <1>7, <2>3, <3>2, <3>3, <3>4 DEF CopyOK, Used
  <2>4. CASE j # i
    <3>1. core'[j] = core[j] /\ iref'[j] >= iref[j] /\ disk'.nlink[j] = disk.nlink[j] /\ disk'.type[j] = disk.type[j]
      BY <1>2, <1>3, <1>6, <2>4
    <3>2. QED
      BY <2>1, <2>2, <3>1 DEF CopyOK, Used
  <2>5. QED
    BY <2>3, <2>4
<1>11. \A j \in Inums : disk'.nlink[j] = 0 => disk.nlink[j] = 0 \/ core'[j].valid
  BY <1>3, <1>7
<1>12. QED
  BY <1>2, <1>8, <1>9, <1>10, <1>11

(* The tree after that *)
LEMMA CountTree ==
  ASSUME TreeInv, disk' \in Disks, NEW p \in Procs, NEW i \in Inums, NEW n \in Int, disk.type[i] = "file",
         \/ n = disk.nlink[i] + 1 /\ p \notin Linking[i] /\ Linking'[i] = Linking[i] \cup {p}
         \/ n = disk.nlink[i] - 1 /\ p \in Linking[i] /\ Linking'[i] = Linking[i] \ {p},
         \A j \in Inums : j # i => Linking'[j] = Linking[j], Gone' = Gone,
         disk'.type = disk.type, disk'.up = disk.up, disk'.ent = disk.ent, disk'.nlink = [disk.nlink EXCEPT ![i] = n]
  PROVE  DiskInv' /\ \A j \in Inums : Live(j)' <=> Live(j)
<1>1. PICK g : g = Gone
  OBVIOUS
<1>2. PICK ex : ex = Linking
  OBVIOUS
<1>3. PICK ey : ey = Linking'
  OBVIOUS
<1>4. PICK e : e = disk'
  OBVIOUS
<1>5. TreeOK(disk, g) /\ LinksOK(disk, g, ex)
  BY <1>1, <1>2, Zenon DEF TreeInv, DiskInv
<1>6. ex \in [Inums -> SUBSET Procs] /\ ey \in [Inums -> SUBSET Procs]
  BY <1>2, <1>3 DEF Linking
<1>7. disk \in Disks /\ e \in Disks
  BY <1>4 DEF TreeInv, BaseInv, FsTypeOK
<1>8. \/ n = disk.nlink[i] + 1 /\ p \notin ex[i] /\ ey[i] = ex[i] \cup {p}
      \/ n = disk.nlink[i] - 1 /\ p \in ex[i] /\ ey[i] = ex[i] \ {p}
  BY <1>2, <1>3
<1>9. \A j \in Inums : j # i => ey[j] = ex[j]
  BY <1>2, <1>3
<1>10. /\ e.type = disk.type /\ e.up = disk.up /\ e.ent = disk.ent /\ e.nlink = [disk.nlink EXCEPT ![i] = n]
  BY <1>4
<1>11. TreeOK(e, g) /\ LinksOK(e, g, ey) /\ \A j \in Inums : LiveIn(e, g, j) <=> LiveIn(disk, g, j)
  BY <1>5, <1>6, <1>7, <1>8, <1>9, <1>10, TreeRaised
<1>12. QED
  BY <1>1, <1>3, <1>4, <1>11, Zenon DEF DiskInv, Live

(* link() fails and lowers the count again. *)
LEMMA UndoLinkTree ==
  ASSUME TreeInv, NEW p \in Procs, UndoLink(p)
  PROVE  TreeInv'
<1>0. At(p, "undo_link")
  BY DEF UndoLink
<1>1. BaseInv' /\ OthersSame(p)
  BY UndoLinkBase DEF OthersSame, UndoLink, TreeInv
<1>2. /\ BaseInv /\ PlaceOK(p) /\ ProcOK(p) /\ ProcType /\ TableType /\ pc[p] = "undo_link" /\ freeing[p] = "no" /\ boot = {}
      /\ ~panicked /\ puts[p] = <<>> /\ disk \in Disks
  BY <1>0, AtPlace
<1>3. PICK i \in Inums : loc[p].old = i
  BY <1>2 DEF PlaceOK
<1>4. disk.type[i] = "file" /\ Used(i) /\ Points(p, i) /\ p \in Linking[i]
  BY <1>2, <1>3 DEF ProcOK, FirmOK, Used, Points, Names_it, Linking
<1>5. Loaded(i).nlink = disk.nlink[i] /\ ~NoType(i)
  BY <1>4, LoadedIs
<1>6. PICK n \in Int : n = disk.nlink[i] - 1
  BY <1>2 DEF Disks
<1>7. /\ disk' = SetLinks(disk, i, n) /\ core' = Put(core, i, [Loaded(i) EXCEPT !.nlink = n])
      /\ loc'[p] = NoLocals /\ pc'[p] = "end" /\ puts'[p] = <<ToPut(i)>> /\ lock' = lock /\ lock[i] = NoProc
      /\ cwd' = cwd /\ fd' = fd /\ freeing' = freeing /\ tx' = tx /\ iref' = iref
      /\ UNCHANGED <<stable, boot, overtaken>> /\ ~panicked'
  <2>1. n = Loaded(i).nlink - 1
    BY <1>5, <1>6
  <2>2. disk' = SetLinks(disk, i, n) /\ core' = Put(core, i, [Loaded(i) EXCEPT !.nlink = n])
    BY <1>3, <2>1 DEF UndoLink
  <2>3. loc'[p] = NoLocals /\ pc'[p] = "end" /\ puts'[p] = <<ToPut(i)>>
    BY <1>2, <1>3 DEF UndoLink, Leave, ThenPut, Goto, Put, ProcType
  <2>4. lock[i] = NoProc /\ ~panicked'
    BY <1>2, <1>3, <1>5 DEF UndoLink, CanLock
  <2>5. QED
    BY <2>2, <2>3, <2>4 DEF UndoLink, aside
<1>8. /\ KeepsLocked(p) /\ KeepsUnlinked(p) /\ disk' \in Disks
      /\ disk'.type = disk.type /\ disk'.up = disk.up /\ disk'.ent = disk.ent
      /\ disk'.nlink = [disk.nlink EXCEPT ![i] = n]
      /\ \A j \in Inums : (core[j].valid => core'[j].valid) /\ CopyOK(j)'
      /\ \A j \in Inums : disk'.nlink[j] = 0 => disk.nlink[j] = 0 \/ core'[j].valid
  <2>1. \A j \in Inums : iref'[j] >= iref[j]
    BY <1>2, <1>7, Gets
  <2>2. QED
    BY <1>1, <1>4, <1>7, <2>1, CountStep
<1>9. /\ Gone' = Gone /\ Linking'[i] = Linking[i] \ {p} /\ \A j \in Inums : j # i => Linking'[j] = Linking[j]
  <2>1. \A q \in Procs : q # p => pc'[q] = pc[q] /\ loc'[q] = loc[q]
    BY <1>1 DEF OthersSame, Same
  <2>2. Gone' = Gone
    BY <1>2, <1>7, <2>1 DEF Gone
  <2>3. loc'[p].old = Null
    BY <1>7, Constants
  <2>4. Linking'[i] = Linking[i] \ {p} /\ \A j \in Inums : j # i => Linking'[j] = Linking[j]
    BY <1>3, <2>1, <2>3 DEF Linking
  <2>5. QED
    BY <2>2, <2>4
<1>10. DiskInv' /\ \A j \in Inums : Live(j)' <=> Live(j)
  BY <1>4, <1>6, <1>8, <1>9, CountTree
<1>11. p \in tx
  BY <1>2 DEF ProcOK
<1>12. Hands(p)
  BY <1>4, <1>7, <1>11 DEF Hands, May
<1>13. QED
  BY <1>1, <1>2, <1>7, <1>8, <1>10, <1>11, <1>12, LeaveNodes

(* link() enters the new name. *)
LEMMA LinkNewTree ==
  ASSUME TreeInv, NEW p \in Procs, LinkNew(p)
  PROVE  TreeInv'
<1>0. At(p, "parent") /\ ilock(loc[p].cur) /\ loc[p].call = "link"
  BY DEF LinkNew, FoundParent
<1>1. BaseInv' /\ OthersSame(p)
  BY LinkNewBase DEF OthersSame, LinkNew, TreeInv
<1>2. /\ BaseInv /\ PlaceOK(p) /\ ProcOK(p) /\ ProcType /\ TableType /\ pc[p] = "parent" /\ freeing[p] = "no" /\ boot = {}
      /\ puts[p] = <<>> /\ disk \in Disks /\ loc[p].old \in MaybeInum
  BY <1>0, AtPlace
<1>3. PICK i \in Inums : loc[p].old = i
  BY <1>0, <1>2, Constants DEF PlaceOK, WantsParent
<1>4. disk.type[i] = "file" /\ Used(i) /\ Points(p, i) /\ p \in Linking[i]
  BY <1>2, <1>3 DEF ProcOK, FirmOK, Used, Points, Names_it, Linking
<1>5. iref' = iref /\ \A j \in Inums : iref'[j] >= iref[j]
  BY <1>2, Gets DEF LinkNew
<1>6. PICK d : d = loc[p].cur
  OBVIOUS
<1>7. /\ d \in Inums /\ Live(d) /\ Used(d) /\ Points(p, d) /\ loc[p].rest[1] \in Elems
      /\ ~panicked' /\ lock[d] = NoProc
  BY <1>0, <1>5, <1>6, AtParent
<1>8. PICK n : n = loc[p].rest[1]
  OBVIOUS
<1>9. n \in Names /\ disk.ent[d][n] = Null
  <2>1. dirlookup(d, n) = Null
    BY <1>6, <1>8 DEF LinkNew
  <2>2. QED
    BY <1>7, <1>8, <2>1, Looked
<1>10. /\ disk' = [disk EXCEPT !.ent[d][n] = i] /\ core' = Put(core, d, Loaded(d))
       /\ loc'[p] = NoLocals /\ pc'[p] = "end" /\ puts'[p] = <<ToPut(d), ToPut(i)>> /\ lock' = lock
       /\ cwd' = cwd /\ fd' = fd /\ freeing' = freeing /\ tx' = tx /\ UNCHANGED <<stable, boot, overtaken>>
  <2>1. disk' = [disk EXCEPT !.ent[d][n] = i] /\ core' = Put(core, d, Loaded(d))
    BY <1>3, <1>6, <1>8 DEF LinkNew, ilock
  <2>2. loc'[p] = NoLocals /\ pc'[p] = "end" /\ puts'[p] = <<ToPut(d), ToPut(i)>>
    BY <1>2, <1>3, <1>6 DEF LinkNew, Leave, ThenPut, Goto, Put, ProcType
  <2>3. QED
    BY <2>1, <2>2 DEF LinkNew, aside
<1>11. /\ disk'.type = disk.type /\ disk'.up = disk.up /\ disk'.nlink = disk.nlink
       /\ disk'.ent = [disk.ent EXCEPT ![d] = [disk.ent[d] EXCEPT ![n] = i]]
  BY <1>2, <1>10 DEF Disks
<1>12. /\ Gone' = Gone /\ Linking'[i] = Linking[i] \ {p} /\ \A j \in Inums : j # i => Linking'[j] = Linking[j]
  <2>1. \A q \in Procs : q # p => pc'[q] = pc[q] /\ loc'[q] = loc[q]
    BY <1>1 DEF OthersSame, Same
  <2>2. Gone' = Gone
    BY <1>2, <1>10, <2>1 DEF Gone
  <2>3. loc'[p].old = Null
    BY <1>10, Constants
  <2>4. Linking'[i] = Linking[i] \ {p} /\ \A j \in Inums : j # i => Linking'[j] = Linking[j]
    BY <1>3, <2>1, <2>3 DEF Linking
  <2>5. QED
    BY <2>2, <2>4
<1>13. DiskInv' /\ \A j \in Inums : Live(j)' <=> Live(j)
  <2>1. PICK g : g = Gone
    OBVIOUS
  <2>2. PICK ex : ex = Linking
    OBVIOUS
  <2>3. PICK e : e = disk'
    OBVIOUS
  <2>4. PICK ey : ey = Linking'
    OBVIOUS
  <2>5. TreeOK(disk, g) /\ LinksOK(disk, g, ex) /\ LiveIn(disk, g, d)
    BY <1>7, <2>1, <2>2, Zenon DEF TreeInv, DiskInv, Live
  <2>6. ex \in [Inums -> SUBSET Procs] /\ ey \in [Inums -> SUBSET Procs]
    BY <2>2, <2>4 DEF Linking
  <2>7. p \in ex[i] /\ ey[i] = ex[i] \ {p} /\ \A j \in Inums : j # i => ey[j] = ex[j]
    BY <1>4, <1>12, <2>2, <2>4
  <2>8. /\ e.type = disk.type /\ e.up = disk.up /\ e.nlink = disk.nlink
        /\ e.ent = [disk.ent EXCEPT ![d] = [disk.ent[d] EXCEPT ![n] = i]]
    BY <1>11, <2>3
  <2>9. disk \in Disks /\ e \in Disks /\ disk.ent[d][n] = Null /\ disk.type[i] = "file"
    BY <1>1, <1>2, <1>4, <1>9, <2>3 DEF BaseInv, FsTypeOK
  <2>10. TreeOK(e, g) /\ LinksOK(e, g, ey) /\ \A j \in Inums : LiveIn(e, g, j) <=> LiveIn(disk, g, j)
    BY <1>7, <1>9, <2>5, <2>6, <2>7, <2>8, <2>9, TreeNamed
  <2>11. QED
    BY <1>12, <2>1, <2>3, <2>4, <2>10, Zenon DEF DiskInv, Live
<1>14. Loaded(d).type = disk.type[d] /\ Loaded(d).valid /\ Loaded(d).nlink = disk.nlink[d]
  BY <1>7, LoadedIs
<1>15. core'[d] = Loaded(d) /\ \A j \in Inums : j # d => core'[j] = core[j]
  BY <1>2, <1>7, <1>10 DEF Put, TableType
<1>16. ASSUME NEW j \in Inums PROVE (core[j].valid => core'[j].valid) /\ CopyOK(j)'
  <2>1. CopyOK(j)
    BY DEF TreeInv, InodeOK
  <2>2. CASE j = d
    <3>1. iref[d] \in Nat /\ iref[d] >= 1
      BY <1>2, <1>7, HeldRefs DEF Holds
    <3>2. iref'[d] > 0
      BY <1>5, <3>1
    <3>3. core'[d].valid
      BY <1>14, <1>15, Zenon
    <3>4. QED
      BY <1>7, <1>11, <1>14, <1>15, <2>2, <3>2, <3>3 DEF CopyOK, Used
  <2>3. CASE j # d
    BY <1>5, <1>11, <1>15, <2>1, <2>3 DEF CopyOK, Used
  <2>4. QED
    BY <2>2, <2>3
<1>17. KeepsLocked(p) /\ KeepsUnlinked(p)
  <2>1. \A j \in Inums : j # d => disk'.ent[j] = disk.ent[j]
    BY <1>2, <1>11 DEF Disks
  <2>2. QED
    BY <1>7, <1>10, <1>11, <2>1 DEF KeepsLocked, KeepsUnlinked
<1>18. p \in tx
  BY <1>2 DEF ProcOK
<1>19. Hands(p)
  BY <1>4, <1>7, <1>10, <1>18 DEF Hands, May
<1>20. QED
  BY <1>1, <1>2, <1>7, <1>10, <1>11, <1>13, <1>16, <1>17, <1>18, <1>19, LeaveNodes

(* link() raises the count, unless it is a directory. *)
LEMMA LinkOldTree ==
  ASSUME TreeInv, NEW p \in Procs, LinkOld(p)
  PROVE  TreeInv'
<1>0. At(p, "walk") /\ loc[p].call = "link" /\ ~WantsParent(p)
  BY DEF LinkOld, Found
<1>1. BaseInv' /\ OthersSame(p)
  BY LinkOldBase DEF OthersSame, LinkOld, TreeInv
<1>2. /\ BaseInv /\ PlaceOK(p) /\ ProcOK(p) /\ ProcType /\ TableType /\ pc[p] = "walk" /\ freeing[p] = "no" /\ boot = {}
      /\ puts[p] = <<>> /\ ~panicked /\ disk \in Disks /\ cwd[p] \in Inums /\ fd[p] \in MaybeInum
      /\ loc[p].ip = Null /\ loc[p].old = Null
  BY <1>0, AtPlace DEF PlaceOK, WantsParent
<1>3. PICK i \in Inums : loc[p].cur = i
  BY <1>2 DEF PlaceOK
<1>4. /\ Used(i) /\ Sound(i) /\ Points(p, i) /\ Live(cwd[p]) /\ Points(p, cwd[p]) /\ (disk.type[i] = "dir" => Live(i))
      /\ p \in tx
  BY <1>2, <1>3, CurIs DEF ProcOK, FirmOK, Points, Names_it
<1>5. Loaded(i).type = disk.type[i] /\ Loaded(i).nlink = disk.nlink[i] /\ ~NoType(i)
  BY <1>4, LoadedIs
<1>6. /\ ~panicked' /\ lock[i] = NoProc /\ lock' = lock /\ cwd' = cwd /\ fd' = fd /\ freeing' = freeing
      /\ tx' = tx /\ UNCHANGED <<stable, boot, overtaken>>
  BY <1>2, <1>3, <1>5 DEF LinkOld, CanLock, aside
<1>7. CASE disk.type[i] = "dir"
  <2>1. disk' = disk /\ iref' = iref /\ core' = Put(core, i, Loaded(i)) /\ Leave(p, <<ToPut(i)>>)
    BY <1>3, <1>5, <1>7 DEF LinkOld
  <2>2. loc'[p] = NoLocals /\ pc'[p] = "end" /\ puts'[p] = <<ToPut(i)>>
    BY <1>2, <2>1 DEF Leave, ThenPut, Goto, Put, ProcType
  <2>3. Frame
    BY <1>2, <1>6, <2>1 DEF Frame
  <2>4. Hands(p)
    <3>1. p \in tx' /\ Used(i) /\ Points(p, i)
      BY <1>4, <1>6, Zenon
    <3>2. May(p, i)
      BY <3>1, Zenon DEF May
    <3>3. QED
      BY <1>3, <2>2, <3>2, Zenon DEF Hands
  <2>5. ilock(i)
    <3>1. panicked' = (panicked \/ NoType(i)) /\ lock[i] = NoProc
      BY <1>3, <1>6 DEF LinkOld
    <3>2. QED
      BY <2>1, <3>1, Zenon DEF ilock, CanLock
  <2>6. CoreStep(p)
    <3>1. \A j \in Inums : iref'[j] >= iref[j]
      BY <1>2, <2>1, Gets
    <3>2. QED
      BY <1>4, <2>5, <3>1, Loads
  <2>7. LockStep(p) /\ Marks(p)
    BY <1>2, <1>6 DEF LockStep, Marks
  <2>8. fd[p] # Null => Used(fd[p]) /\ Points(p, fd[p])
    BY <1>2 DEF ProcOK, FirmOK, Points, Names_it
  <2>9. QED
    BY <1>1, <1>2, <1>4, <1>6, <2>2, <2>3, <2>4, <2>6, <2>7, <2>8, LeaveStep
<1>8. CASE disk.type[i] # "dir"
  <2>1. disk.type[i] = "file" /\ disk.type[i] # "dir"
    BY <1>2, <1>4, <1>8 DEF Used, Disks, InodeTypes
  <2>2. PICK n \in Int : n = disk.nlink[i] + 1
    BY <1>2 DEF Disks
  <2>3. PICK s, new : new = loc[p].new[1] /\ s = Start(p, new)
    OBVIOUS
  <2>4. /\ disk' = SetLinks(disk, i, n) /\ core' = Put(core, i, [Loaded(i) EXCEPT !.nlink = n])
        /\ iget(s) /\ Locals(p, [old |-> i, cur |-> s, rest |-> new.elems]) /\ puts' = puts /\ pc' = pc
    <3>1. n = Loaded(i).nlink + 1
      BY <1>5, <2>2
    <3>2. QED
      BY <1>3, <1>5, <2>1, <2>3, <3>1 DEF LinkOld
  <2>5. loc'[p].old = i /\ loc'[p].cur = s /\ loc'[p].ip = Null
    <3>1. loc \in [Procs -> LocalsType]
      BY <1>2 DEF ProcType
    <3>2. QED
      BY <1>2, <2>4, <3>1, LocalsOld
  <2>6. s \in Inums /\ Live(s) /\ (Points(p, s) \/ disk.nlink[s] > 0)
    <3>1. Live(Root)
      BY DEF TreeInv, DiskInv, TreeOK, Live
    <3>2. s = Root \/ s = cwd[p]
      BY <2>3 DEF Start
    <3>3. QED
      BY <1>2, <1>4, <3>1, <3>2 DEF Live, LiveIn
  <2>7. \A j \in Inums : iref'[j] >= iref[j]
    BY <1>2, <2>4, <2>6, Gets
  <2>8. /\ KeepsLocked(p) /\ KeepsUnlinked(p) /\ disk' \in Disks
        /\ disk'.type = disk.type /\ disk'.up = disk.up /\ disk'.ent = disk.ent
        /\ disk'.nlink = [disk.nlink EXCEPT ![i] = n]
        /\ \A j \in Inums : (core[j].valid => core'[j].valid) /\ CopyOK(j)'
        /\ \A j \in Inums : disk'.nlink[j] = 0 => disk.nlink[j] = 0 \/ core'[j].valid
    BY <1>1, <1>4, <1>6, <2>4, <2>7, CountStep
  <2>9. /\ Gone' = Gone /\ p \notin Linking[i] /\ Linking'[i] = Linking[i] \cup {p}
        /\ \A j \in Inums : j # i => Linking'[j] = Linking[j]
    <3>1. \A q \in Procs : q # p => pc'[q] = pc[q] /\ loc'[q] = loc[q]
      BY <1>1 DEF OthersSame, Same
    <3>2. Gone' = Gone
      BY <1>2, <2>4, <3>1 DEF Gone
    <3>3. Linking'[i] = Linking[i] \cup {p} /\ p \notin Linking[i]
          /\ \A j \in Inums : j # i => Linking'[j] = Linking[j]
      BY <1>2, <2>5, <3>1 DEF Linking
    <3>4. QED
      BY <3>2, <3>3
  <2>10. DiskInv' /\ \A j \in Inums : Live(j)' <=> Live(j)
    BY <2>1, <2>2, <2>8, <2>9, CountTree
  <2>11. Due(p)' = <<>> /\ \A j : ~Listed(<<>>, j)
    BY <1>2, <1>6, <2>4, NoneListed DEF Due
  <2>12. NoNewHolds(p)
    <3>1. \A j \in Inums : (Points(p, j)' => Points(p, j) \/ disk.nlink[j] > 0) /\ ~Freeds(p, j)'
      BY <1>2, <1>4, <1>6, <2>5, <2>6, <2>11 DEF Points, Names_it, Freeds
    <3>2. QED
      BY <1>2, <2>4, <3>1 DEF NoNewHolds
  <2>13. ProcOK(p)'
    <3>1. FirmOK(p)'
      <4>1. PICK x, f : x = cwd[p] /\ f = fd[p]
        OBVIOUS
      <4>2. Live(x) /\ (f # Null => Used(f)) /\ x \in Inums
        BY <1>2, <4>1 DEF ProcOK, FirmOK
      <4>3. Live(x)' /\ (f # Null => Used(f)') /\ Sound(s)'
        BY <2>6, <2>8, <2>10, <4>2 DEF Used, Sound, Live, LiveIn
      <4>4. disk'.type[i] = "file"
        BY <2>1, <2>8
      <4>5. QED
        BY <1>6, <2>5, <4>1, <4>3, <4>4 DEF FirmOK
    <3>2. AtOK(p)'
      BY <1>2, <2>4 DEF AtOK
    <3>3. DueOK(p)' /\ FreeOK(p)'
      BY <1>2, <1>6, <2>4, DueNone DEF FreeOK
    <3>4. QED
      BY <1>2, <1>4, <1>6, <2>4, <3>1, <3>2, <3>3 DEF ProcOK
  <2>14. Marks(p)
    BY <1>2 DEF Marks
  <2>15. QED
    BY <1>1, <1>2, <1>6, <2>8, <2>10, <2>12, <2>13, <2>14, NodesStep
<1>9. QED
  BY <1>7, <1>8

-----------------------------------------------------------------------------
(* Boot *)

(* A process that has made no call *)
Idle(p) == cwd[p] = Root /\ fd[p] = Null /\ pc[p] = "user" /\ puts[p] = <<>> /\ freeing[p] = "no"
AllIdle == BaseInv /\ tx = {} /\ \A p \in Procs : Idle(p)
IdleOK ==
  /\ Gone = {} /\ Linking = NoLinking
  /\ TreeOK(disk, {}) => \A p \in Procs : ProcOK(p)

(* Nothing is under way then. *)
LEMMA IdleProcs == AllIdle => IdleOK
<1> SUFFICES ASSUME AllIdle PROVE IdleOK
  OBVIOUS
<1>1. \A p \in Procs : /\ pc[p] = "user" /\ freeing[p] = "no" /\ puts[p] = <<>> /\ cwd[p] = Root /\ fd[p] = Null
                       /\ loc[p].cur = Null /\ loc[p].ip = Null /\ loc[p].old = Null
  BY DEF AllIdle, Idle, BaseInv, PlaceOK
<1>2. Gone = {} /\ Linking = NoLinking
  BY <1>1 DEF Gone, Linking, NoLinking
<1>3. ASSUME TreeOK(disk, {}), NEW p \in Procs PROVE ProcOK(p)
  <2>1. Live(Root)
    BY <1>2, <1>3 DEF TreeOK, Live
  <2>2. FirmOK(p)
    BY <1>1, <2>1 DEF FirmOK
  <2>3. AtOK(p) /\ FreeOK(p)
    BY <1>1 DEF AtOK, FreeOK
  <2>4. DueOK(p)
    <3>1. Due(p) = <<>> /\ puts[p] = <<>>
      BY <1>1 DEF Due
    <3>2. \A i : ~Listed(<<>>, i) /\ ~HeldIn(<<>>, i)
      BY NoneListed
    <3>3. QED
      BY <3>1, <3>2 DEF DueOK
  <2>5. p \notin tx
    BY DEF AllIdle
  <2>6. QED
    BY <1>1, <2>2, <2>3, <2>4, <2>5 DEF ProcOK
<1>4. QED
  BY <1>2, <1>3 DEF IdleOK

(* After a crash, too. *)
LEMMA IdleNext == AllIdle' => IdleOK'
BY IdleProcs, PTL

(* The disk that a crash leaves, and the inodes that ireclaim() will look at *)
Booted ==
  /\ AllIdle /\ AtBoot /\ StableInv /\ disk = stable /\ boot = Orphans(stable)
  /\ ~panicked

(* The invariant holds at boot. *)
LEMMA BootTree == Booted => TreeInv
<1> SUFFICES ASSUME Booted PROVE TreeInv
  OBVIOUS
<1>1. IdleOK
  BY IdleProcs DEF Booted
<1>2. DiskInv /\ \A p \in Procs : ProcOK(p)
  BY <1>1 DEF Booted, IdleOK, DiskInv, StableInv
<1>3. \A i \in Inums : ~core[i].valid
  BY DEF Booted, AtBoot, Unloaded
<1>4. \A i \in Inums : InodeOK(i)
  BY <1>3 DEF InodeOK, CopyOK, LostOK, Booted, Orphans, Used
<1>5. BootInv
  BY <1>3 DEF Booted, BootInv, AllIdle, Idle, Orphans, Used
<1>6. QED
  BY <1>2, <1>4, <1>5 DEF TreeInv, Booted, AllIdle

(* A crash leads there. *)
LEMMA BootTreeNext == Booted' => TreeInv'
BY BootTree, PTL

(* What mkfs leaves is a tree. *)
LEMMA EmptyDiskTree == TreeOK(EmptyDisk, {}) /\ LinksOK(EmptyDisk, {}, NoLinking) /\ Orphans(EmptyDisk) = {}
<1>1. PICK d : d = EmptyDisk
  OBVIOUS
<1>2. /\ \A i \in Inums : d.type[i] = IF i = Root THEN "dir" ELSE "free"
      /\ \A i \in Inums : d.nlink[i] = IF i = Root THEN 1 ELSE 0
      /\ \A i \in Inums : d.up[i] = IF i = Root THEN Root ELSE Null
      /\ \A i \in Inums : d.ent[i] = EmptyDir
  BY <1>1 DEF EmptyDisk
<1>3. \A i \in Inums : LiveIn(d, {}, i) <=> i = Root
  BY <1>2 DEF LiveIn
<1>4. TreeOK(d, {})
  <2>1. \A n \in Names : EmptyDir[n] = Null
    BY DEF EmptyDir
  <2>2. ASSUME NEW i \in Inums PROVE NodeOK(d, {}, i)
    BY <1>2, <1>3, <2>1 DEF NodeOK, DirOK
  <2>3. Grounded(d, {})
    BY <1>3 DEF Grounded
  <2>4. QED
    BY <1>2, <1>3, <2>2, <2>3 DEF TreeOK
<1>5. ASSUME NEW i \in Inums
      PROVE  d.nlink[i] = Cardinality(NamesOf(d, {}, i)) + Cardinality(SubsOf(d, {}, i)) + B(i \in {})
                          + Cardinality(NoLinking[i])
  <2>1. NamesOf(d, {}, i) = {}
    BY <1>2 DEF NamesOf, EmptyDir
  <2>2. SubsOf(d, {}, i) = IF i = Root THEN {Root} ELSE {}
    BY <1>2, <1>3 DEF SubsOf
  <2>3. Cardinality({}) = 0 /\ Cardinality({Root}) = 1
    BY FS_EmptySet, FS_Singleton
  <2>4. NoLinking[i] = {} /\ B(i \in {}) = 0
    BY DEF NoLinking, B
  <2>5. Cardinality(SubsOf(d, {}, i)) = d.nlink[i]
    BY <1>2, <2>2, <2>3
  <2>6. d.nlink[i] \in Int
    BY <1>2
  <2>7. Cardinality(NamesOf(d, {}, i)) = 0 /\ B(i \in {}) = 0 /\ Cardinality(NoLinking[i]) = 0
    BY <2>1, <2>3, <2>4
  <2>8. QED
    BY <2>5, <2>6, <2>7
<1>6. Orphans(d) = {}
  BY <1>2 DEF Orphans
<1>7. QED
  BY <1>1, <1>4, <1>5, <1>6 DEF LinksOK

(* The invariant holds initially, *)
LEMMA InitTree ==
  ASSUME FsInit
  PROVE  TreeInv
<1>1. BaseInv /\ AtBoot
  BY InitBase DEF FsInit, AtBoot
<1>2. AllIdle
  BY <1>1 DEF FsInit, AllIdle, Idle
<1>3. StableInv /\ disk = stable /\ boot = Orphans(stable)
  BY EmptyDiskTree DEF FsInit, StableInv
<1>4. QED
  BY <1>1, <1>2, <1>3, BootTree DEF Booted, FsInit

(* after a crash, whatever was under way, *)
LEMMA CrashTree ==
  ASSUME TreeInv, Crash
  PROVE  TreeInv'
<1>1. BaseInv' /\ AtBoot'
  BY CrashBase DEF Crash, AtBoot, TreeInv
<1>2. AllIdle'
  BY <1>1 DEF Crash, AllIdle, Idle
<1>3. StableInv'
  BY DEF Crash, StableInv, TreeInv
<1>4. boot' = Orphans(stable') /\ disk' = stable' /\ ~panicked'
  BY DEF Crash, TreeInv
<1>5. Booted'
  BY <1>1, <1>2, <1>3, <1>4 DEF Booted, Orphans
<1>6. QED
  BY <1>5, BootTreeNext

(* and while ireclaim() is at work. *)
LEMMA ReclaimTree ==
  ASSUME TreeInv, Reclaim
  PROVE  TreeInv'
<1>0. BaseInv /\ BaseInv' /\ disk \in Disks /\ RestType
  BY ReclaimBase DEF TreeInv, BaseInv, FsTypeOK
<1>1. PICK i \in boot : disk' = Freed(disk, i) /\ boot' = boot \ {i}
  BY DEF Reclaim
<1>2. /\ stable' = disk' /\ ~panicked' /\ core' = core /\ cwd' = cwd /\ fd' = fd /\ pc' = pc /\ puts' = puts
      /\ freeing' = freeing /\ tx' = tx /\ overtaken' = overtaken
  BY DEF Reclaim, TreeInv, table, local, aside
<1>3. /\ boot # {} /\ i \in Inums /\ Used(i) /\ disk.nlink[i] = 0
      /\ \A j \in Inums : ~core[j].valid
      /\ \A p \in Procs : Idle(p)
  BY <1>0, <1>1 DEF TreeInv, BootInv, RestType, Idle
<1>4. tx = {}
  <2>1. \A p \in Procs : p \notin tx
    BY <1>3 DEF TreeInv, ProcOK, Idle
  <2>2. QED
    BY <1>0, <2>1 DEF RestType
<1>5. AllIdle /\ AllIdle'
  BY <1>0, <1>2, <1>3, <1>4 DEF AllIdle, Idle
<1>6. IdleOK /\ IdleOK'
  BY <1>5, IdleProcs, IdleNext
<1>7. TreeOK(disk, {}) /\ LinksOK(disk, {}, NoLinking)
  BY <1>6 DEF TreeInv, DiskInv, IdleOK
<1>8. PICK e : e = disk'
  OBVIOUS
<1>9. /\ e.type = [disk.type EXCEPT ![i] = "free"] /\ e.nlink = disk.nlink
      /\ e.ent = [disk.ent EXCEPT ![i] = EmptyDir] /\ e.up = [disk.up EXCEPT ![i] = Null]
      /\ e \in Disks
  BY <1>0, <1>1, <1>3, <1>8, FreedType DEF Freed, Disks
<1>10. NoLinking \in [Inums -> SUBSET Procs]
  BY DEF NoLinking
<1>11. TreeOK(e, {}) /\ LinksOK(e, {}, NoLinking)
  BY <1>0, <1>3, <1>7, <1>9, <1>10, TreeFreed
<1>12. DiskInv' /\ StableInv' /\ \A p \in Procs : ProcOK(p)'
  BY <1>2, <1>6, <1>8, <1>11 DEF DiskInv, StableInv, IdleOK
<1>13. \A j \in Inums : disk'.nlink[j] = disk.nlink[j] /\ disk'.type[j] = IF j = i THEN "free" ELSE disk.type[j]
  BY <1>0, <1>8, <1>9 DEF Disks
<1>14. ASSUME NEW j \in Inums PROVE InodeOK(j)'
  <2>1. CopyOK(j)'
    BY <1>2, <1>3 DEF CopyOK
  <2>2. LostOK(j)'
    <3> SUFFICES ASSUME Used(j)', disk'.nlink[j] = 0, j \notin overtaken', j \notin boot' PROVE FALSE
      BY DEF LostOK
    <3>1. j # i /\ Used(j) /\ disk.nlink[j] = 0 /\ j \notin boot
      BY <1>1, <1>13 DEF Used
    <3>2. core[j].valid \/ \E p \in Procs : pc[p] \in {"iget", "init"}
      BY <1>2, <3>1 DEF TreeInv, InodeOK, LostOK
    <3>3. QED
      BY <1>3, <3>2 DEF Idle
  <2>3. QED
    BY <2>1, <2>2 DEF InodeOK
<1>15. BootInv'
  <2>1. \A j \in boot' : Used(j)' /\ disk'.nlink[j] = 0
    BY <1>0, <1>1, <1>3, <1>13 DEF TreeInv, BootInv, Used, RestType
  <2>2. QED
    BY <1>2, <1>3, <2>1 DEF BootInv, Idle
<1>16. QED
  BY <1>0, <1>2, <1>12, <1>14, <1>15 DEF TreeInv

-----------------------------------------------------------------------------
(* The invariant of the file system *)

(* Each step of a process, if no busy directory is removed *)
LEMMA CallTree ==
  ASSUME TreeInv, RemoveBusy = FALSE, NEW p \in Procs, CallStep(p) \/ Close(p) \/ \E r \in workload : Enter(p, r)
  PROVE  TreeInv'
<1>1. CASE End(p) \/ Close(p)
  BY <1>1, EndTree, CloseTree
<1>2. CASE Iput(p)
  BY <1>2, PutRefTree, PutLastTree, PutFreeTree, PutFreedTree DEF Iput
<1>3. CASE Lookup(p)
  BY <1>3, WalkTree, WalkParentTree, OpenTree, ChdirTree DEF Lookup
<1>4. CASE Create(p)
  BY <1>4, CreateLookupTree, CreateExistsTree, IallocTree, IallocFailsTree, IallocGetTree, CreateLinkTree,
     CreateFailsTree, CreatedTree DEF Create
<1>5. CASE RemoveName(p)
  BY <1>5, UnlinkLookupTree, UnlinkRefusedTree, UnlinkTree, UnlinkedTree DEF RemoveName
<1>6. CASE Link(p)
  BY <1>6, LinkOldTree, LinkNewTree, LinkFailsTree, UndoLinkTree DEF Link
<1>7. CASE PathOfCwd(p)
  BY <1>7, GetcwdTree, GoUpTree, ScanParentTree DEF PathOfCwd
<1>8. CASE \E r \in workload : Enter(p, r)
  BY <1>8, EnterTree
<1>9. QED
  BY <1>1, <1>2, <1>3, <1>4, <1>5, <1>6, <1>7, <1>8 DEF CallStep

(* A step that changes nothing *)
LEMMA NoStepTree ==
  ASSUME TreeInv, UNCHANGED fsVars
  PROVE  TreeInv'
<1>1. /\ UNCHANGED <<workload, disk, stable, tx, cwd, fd, boot, panicked, overtaken>>
      /\ UNCHANGED <<iref, core, lock, pc, loc, puts, freeing>>
  BY DEF fsVars, table, local
<1>2. BaseInv'
  <2>1. BaseInv /\ RestType' /\ disk' \in Disks /\ stable' \in Disks
    BY <1>1 DEF TreeInv, BaseInv, FsTypeOK, RestType
  <2>2. QED
    BY <1>1, <2>1, AsideBase DEF table, local
<1>3. DiskInv' /\ StableInv' /\ BootInv' /\ ~panicked'
  BY <1>1 DEF TreeInv, DiskInv, StableInv, BootInv, Gone, Linking, Used
<1>4. \A i : (Live(i)' <=> Live(i)) /\ (Used(i)' <=> Used(i)) /\ (Sound(i)' <=> Sound(i))
  BY <1>1 DEF Live, Used, Sound, Gone
<1>5. ASSUME NEW p \in Procs PROVE ProcOK(p)'
  <2>1. ProcOK(p)
    BY DEF TreeInv
  <2>2. FirmOK(p)' /\ (p \in tx' <=> pc'[p] \notin {"user", "up", "scan"})
    BY <1>1, <1>4, <2>1 DEF ProcOK, FirmOK
  <2>3. \A q \in Procs : \A i : (Points(q, i)' <=> Points(q, i)) /\ (Holds(q, i)' <=> Holds(q, i))
    BY <1>1 DEF Points, Holds, Names_it, Freeds, Due
  <2>4. AtOK(p)'
    <3>1. \A i : Fresh(p, i)' <=> Fresh(p, i)
      BY <1>1, <2>3 DEF Fresh
    <3>2. QED
      BY <1>1, <1>4, <2>1, <3>1 DEF ProcOK, AtOK
  <2>5. DueOK(p)'
    BY <1>1, <1>4, <2>1 DEF ProcOK, DueOK, Due
  <2>6. FreeOK(p)'
    <3>1. \A i : Alone(p, i)' <=> Alone(p, i)
      BY <2>3 DEF Alone
    <3>2. QED
      BY <1>1, <1>4, <2>1, <3>1 DEF ProcOK, FreeOK, Names_it
  <2>7. QED
    BY <2>2, <2>4, <2>5, <2>6 DEF ProcOK
<1>6. ASSUME NEW i \in Inums PROVE InodeOK(i)'
  BY <1>1 DEF TreeInv, InodeOK, CopyOK, LostOK, Used
<1>7. QED
  BY <1>2, <1>3, <1>5, <1>6 DEF TreeInv

(* Directories form a tree, counts of links are those of the entries, with *)
(* what unlink() and link() have under way, and nobody points to an inode  *)
(* that is free: an invariant of every interleaving of calls and of every  *)
(* crash, if no directory is removed that somebody is using.               *)
THEOREM FsTree == RemoveBusy = FALSE => (FsSpec => []TreeInv)
<1> SUFFICES ASSUME RemoveBusy = FALSE PROVE FsSpec => []TreeInv
  OBVIOUS
<1>1. FsInit => TreeInv
  BY InitTree
<1>2. TreeInv /\ [FsNext]_fsVars => TreeInv'
  <2> SUFFICES ASSUME TreeInv, [FsNext]_fsVars PROVE TreeInv'
    OBVIOUS
  <2>1. CASE \E p \in Procs : CallStep(p) \/ Close(p) \/ \E r \in workload : Enter(p, r)
    BY <2>1, CallTree
  <2>2. CASE Crash
    BY <2>2, CrashTree
  <2>3. CASE Reclaim
    BY <2>3, ReclaimTree
  <2>4. CASE UNCHANGED fsVars
    BY <2>4, NoStepTree
  <2>5. QED
    BY <2>1, <2>2, <2>3, <2>4 DEF FsNext
<1>3. QED
  BY <1>1, <1>2, PTL DEF FsSpec

(* The links that LinkCount counts are those of a tree. *)
LEMMA StableLinks ==
  ASSUME TreeInv
  PROVE  LinkCount
<1>1. PICK d \in Disks : d = stable
  BY DEF TreeInv, BaseInv, FsTypeOK
<1>2. TreeOK(d, {}) /\ LinksOK(d, {}, NoLinking)
  BY <1>1 DEF TreeInv, StableInv
<1>3. ASSUME NEW i \in Inums PROVE Links(d, i) = IF d.type[i] = "free" THEN 0 ELSE d.nlink[i]
  <2>1. \A j \in Inums : NodeOK(d, {}, j)
    BY <1>2 DEF TreeOK
  <2>2. ASSUME NEW x \in Inums, NEW n \in Names
        PROVE  d.nlink[x] > 0 /\ d.ent[x][n] = i <=> LiveIn(d, {}, x) /\ d.ent[x][n] = i
    <3>1. ASSUME d.ent[x][n] = i PROVE LiveIn(d, {}, x)
      <4>1. EmptyDir[n] = Null /\ i # Null
        BY DEF EmptyDir
      <4>2. QED
        BY <2>1, <3>1, <4>1 DEF NodeOK
    <3>2. QED
      BY <3>1 DEF LiveIn
  <2>3. ASSUME NEW j \in Inums PROVE d.nlink[j] > 0 /\ d.up[j] = i <=> LiveIn(d, {}, j) /\ d.up[j] = i
    <3>1. ASSUME d.up[j] = i PROVE d.type[j] = "dir"
      BY <2>1, <3>1 DEF NodeOK
    <3>2. QED
      BY <3>1 DEF LiveIn
  <2>4. NamesOf(d, {}, i) = {x \in Inums \X Names : d.nlink[x[1]] > 0 /\ d.ent[x[1]][x[2]] = i}
    BY <2>2 DEF NamesOf
  <2>5. SubsOf(d, {}, i) = {j \in Inums : d.nlink[j] > 0 /\ d.up[j] = i}
    BY <2>3 DEF SubsOf
  <2>6. Cardinality(NoLinking[i]) = 0 /\ B(i \in {}) = 0
    BY FS_EmptySet DEF NoLinking, B
  <2>7. Cardinality(NamesOf(d, {}, i)) \in Nat /\ Cardinality(SubsOf(d, {}, i)) \in Nat
    BY LinkSets
  <2>8. d.nlink[i] = Cardinality(NamesOf(d, {}, i)) + Cardinality(SubsOf(d, {}, i)) + B(i \in {})
                     + Cardinality(NoLinking[i])
    BY <1>2 DEF LinksOK
  <2>9. d.nlink[i] = Cardinality(NamesOf(d, {}, i)) + Cardinality(SubsOf(d, {}, i))
    BY <2>6, <2>7, <2>8
  <2>10. Links(d, i) = d.nlink[i]
    BY <2>4, <2>5, <2>9, Zenon DEF Links
  <2>11. d.type[i] = "free" => d.nlink[i] = 0
    BY <2>1 DEF NodeOK
  <2>12. QED
    BY <2>10, <2>11
<1>4. QED
  BY <1>1, <1>3 DEF LinkCount

(* "the number of links referring to it" (fs.c): on the disk that a crash  *)
(* leaves, the count of each inode is that of the entries naming it and of *)
(* its subdirectories, whatever calls the crash has interrupted.           *)
THEOREM LinksCounted == RemoveBusy = FALSE => (FsSpec => []LinkCount)
<1>1. TreeInv => LinkCount
  BY StableLinks
<1>2. QED
  BY <1>1, FsTree, PTL

(* A valid unlocked copy is that of the disk, and neither an open file nor *)
(* a working directory is ever freed.                                      *)
THEOREM CopiesCurrent == RemoveBusy = FALSE => (FsSpec => []CoreIsDisk)
<1>1. TreeInv => CoreIsDisk
  <2> SUFFICES ASSUME TreeInv PROVE CoreIsDisk
    OBVIOUS
  <2>1. ASSUME NEW i \in Inums, core[i].valid PROVE core[i].type = disk.type[i] /\ core[i].nlink = disk.nlink[i]
    BY <2>1 DEF TreeInv, InodeOK, CopyOK
  <2>2. ASSUME NEW p \in Procs PROVE disk.type[cwd[p]] = "dir" /\ (fd[p] # Null => disk.type[fd[p]] # "free")
    BY DEF TreeInv, ProcOK, FirmOK, Live, LiveIn, Used
  <2>3. QED
    BY <2>1, <2>2 DEF CoreIsDisk
<1>2. QED
  BY <1>1, FsTree, PTL

(* An inode without links is held by a process whose iput() will free it,  *)
(* has just been allocated, or is left to ireclaim(): none is lost.        *)
THEOREM InodesKept == RemoveBusy = FALSE => (FsSpec => []NoInodeLost)
<1>1. TreeInv => NoInodeLost
  <2> SUFFICES ASSUME TreeInv, boot = {}, NEW i \in Inums, disk.type[i] # "free", disk.nlink[i] = 0, i \notin overtaken
               PROVE  iref[i] > 0 \/ \E p \in Procs : pc[p] = "iget" /\ loc[p].ip = i
    BY DEF NoInodeLost
  <2>1. CopyOK(i) /\ LostOK(i)
    BY DEF TreeInv, InodeOK
  <2>2. CASE core[i].valid
    BY <2>1, <2>2 DEF CopyOK
  <2>3. CASE ~core[i].valid
    <3>1. PICK p \in Procs : pc[p] \in {"iget", "init"} /\ loc[p].ip = i
      BY <2>1, <2>3 DEF LostOK, Used
    <3>2. CASE pc[p] = "init"
      <4>1. Holds(p, i)
        BY <3>1, <3>2 DEF Holds, Points, Names_it
      <4>2. iref[i] >= 1 /\ iref[i] \in Nat
        BY <4>1, HeldRefs DEF TreeInv
      <4>3. QED
        BY <4>2
    <3>3. QED
      BY <3>1, <3>2
  <2>4. QED
    BY <2>2, <2>3
<1>2. QED
  BY <1>1, FsTree, PTL

(* "ilock: no type", "unlink: nlink < 1" and "log_write outside of trans"  *)
(* do not happen.                                                          *)
THEOREM FsQuiet == RemoveBusy = FALSE => (FsSpec => []NoFsPanic)
<1>1. TreeInv => NoFsPanic
  BY DEF TreeInv, NoFsPanic
<1>2. QED
  BY <1>1, FsTree, PTL

-----------------------------------------------------------------------------
(* Locks *)

(* What a step may do to the locks *)
LocksMove(p) ==
  \A i \in Inums : (lock'[i] = lock[i] \/ lock'[i] \in {p, NoProc}) /\ (lock'[i] = p => HasLock(p, i)')

(* Then the locks of the others are where they were. *)
LEMMA LocksStay ==
  ASSUME LocksHeld, NEW p \in Procs, \A q \in Procs : q # p => Same(q), LocksMove(p)
  PROVE  LocksHeld'
<1> SUFFICES ASSUME NEW i \in Inums, NEW q \in Procs, lock'[i] = q PROVE HasLock(q, i)'
  BY DEF LocksHeld
<1>1. CASE q = p
  BY <1>1 DEF LocksMove
<1>2. CASE q # p
  <2>1. lock[i] = q
    BY <1>2 DEF LocksMove
  <2>2. HasLock(q, i)
    BY <2>1 DEF LocksHeld
  <2>3. Same(q)
    BY <1>2
  <2>4. QED
    BY <2>2, <2>3 DEF Same, HasLock, Frees, Due
<1>3. QED
  BY <1>1, <1>2

(* Who has nothing to put has locked what its place in the call says. *)
LEMMA LocksOf ==
  ASSUME LocksHeld, BaseInv, NEW p \in Procs, puts[p] = <<>>, NEW i \in Inums, lock[i] = p
  PROVE  \/ pc[p] \in Locking /\ loc[p].cur = i
         \/ pc[p] \in Finishing /\ loc[p].ip = i
<1>1. freeing[p] = "no"
  BY Before DEF PlaceOK
<1>2. ~HeldIn(Due(p), i) /\ ~Frees(p, i)
  BY <1>1, NoneListed DEF Due, Frees
<1>3. QED
  BY <1>2 DEF LocksHeld, HasLock

(* A step of a process that has nothing locked and that locks nothing *)
LEMMA FreeLocks ==
  ASSUME LocksHeld, BaseInv, NEW p \in Procs, \A q \in Procs : q # p => Same(q),
         puts[p] = <<>>, pc[p] \notin Locking \cup Finishing, lock' = lock
  PROVE  LocksHeld'
<1>1. \A i \in Inums : lock[i] # p
  BY LocksOf
<1>2. LocksMove(p)
  BY <1>1 DEF LocksMove
<1>3. QED
  BY <1>2, LocksStay

(* Most steps are of that kind. *)
LEMMA PlainLocks ==
  ASSUME LocksHeld, BaseInv, NEW p \in Procs,
         \/ End(p) \/ Close(p) \/ Walk(p) \/ WalkParent(p) \/ Open(p) \/ Chdir(p) \/ CreateExists(p)
         \/ LinkOld(p) \/ LinkNew(p) \/ UndoLink(p) \/ Getcwd(p) \/ GoUp(p) \/ ScanParent(p)
         \/ \E r \in workload : Enter(p, r)
  PROVE  LocksHeld'
<1> USE DEF At, Locking, Finishing
<1>1. CASE End(p)
  BY <1>1, EndBase, FreeLocks DEF End, table
<1>2. CASE Close(p)
  BY <1>2, CloseBase, FreeLocks DEF Close, table
<1>3. CASE Walk(p)
  BY <1>3, WalkBase, FreeLocks DEF Walk
<1>4. CASE WalkParent(p)
  BY <1>4, WalkParentBase, FreeLocks DEF WalkParent
<1>5. CASE Open(p)
  BY <1>5, OpenBase, FreeLocks DEF Open, Found
<1>6. CASE Chdir(p)
  BY <1>6, ChdirBase, FreeLocks DEF Chdir, Found
<1>7. CASE CreateExists(p)
  BY <1>7, CreateExistsBase, FreeLocks DEF CreateExists
<1>8. CASE LinkOld(p)
  BY <1>8, LinkOldBase, FreeLocks DEF LinkOld, Found
<1>9. CASE LinkNew(p)
  BY <1>9, LinkNewBase, FreeLocks DEF LinkNew, FoundParent
<1>10. CASE UndoLink(p)
  BY <1>10, UndoLinkBase, FreeLocks DEF UndoLink
<1>11. CASE Getcwd(p)
  BY <1>11, GetcwdBase, FreeLocks DEF Getcwd
<1>12. CASE GoUp(p)
  BY <1>12, GoUpBase, FreeLocks DEF GoUp
<1>13. CASE ScanParent(p)
  BY <1>13, ScanParentBase, FreeLocks DEF ScanParent
<1>14. CASE \E r \in workload : Enter(p, r)
  BY <1>14, EnterBase, FreeLocks DEF Enter
<1>15. QED
  BY <1>1, <1>2, <1>3, <1>4, <1>5, <1>6, <1>7, <1>8, <1>9, <1>10, <1>11, <1>12, <1>13, <1>14

(* What a process has at a place of its call *)
LEMMA LockPlace ==
  ASSUME BaseInv, NEW p \in Procs, NEW l, At(p, l)
  PROVE  /\ PlaceOK(p) /\ ProcType /\ loc \in [Procs -> LocalsType] /\ lock \in [Inums -> Procs \cup {NoProc}]
         /\ pc[p] = l /\ puts[p] = <<>> /\ freeing[p] = "no"
BY Before DEF At, PlaceOK, ProcType, TableType

(* What is on the list with its lock is held. *)
LEMMA HeldDue ==
  ASSUME NEW p \in Procs, freeing'[p] = "no", NEW i, HeldIn(puts'[p], i)
  PROVE  HasLock(p, i)'
BY DEF HasLock, Due

(* A list of two with a lock to be released *)
LEMMA HeldOfTwo ==
  ASSUME NEW x, NEW i
  PROVE  HeldIn(<<x, ToUnlockPut(i)>>, i) /\ HeldIn(<<ToUnlockPut(i), x>>, i)
<1>1. ToUnlockPut(i).inum = i /\ ToUnlockPut(i).held
  BY PutsAre
<1>2. PICK y : y = ToUnlockPut(i)
  OBVIOUS
<1>3. y.inum = i /\ y.held
  BY <1>1, <1>2
<1>4. 2 \in DOMAIN <<x, y>> /\ <<x, y>>[2] = y /\ 1 \in DOMAIN <<y, x>> /\ <<y, x>>[1] = y
  OBVIOUS
<1>5. HeldIn(<<x, y>>, i) /\ HeldIn(<<y, x>>, i)
  BY <1>3, <1>4, Zenon DEF HeldIn
<1>6. QED
  BY <1>2, <1>5

(* create() locks the directory and enters it, *)
LEMMA CreateLookupLocks ==
  ASSUME LocksHeld, BaseInv, NEW p \in Procs, CreateLookup(p)
  PROVE  LocksHeld'
<1>1. \A q \in Procs : q # p => Same(q)
  BY CreateLookupBase
<1>2. /\ ProcType /\ lock \in [Inums -> Procs \cup {NoProc}] /\ pc[p] = "parent" /\ puts[p] = <<>>
  BY LockPlace DEF CreateLookup, FoundParent
<1>3. \A i \in Inums : lock[i] # p
  BY <1>2, LocksOf DEF Locking, Finishing
<1>4. CASE lock' = lock
  BY <1>1, <1>2, <1>4, FreeLocks DEF Locking, Finishing
<1>5. CASE lock' # lock
  <2>1. lock' = Put(lock, loc[p].cur, p) /\ pc'[p] = "ialloc" /\ loc' = loc
    BY <1>2, <1>5 DEF CreateLookup, Goto, Put, ProcType
  <2>2. LocksMove(p)
    BY <1>2, <1>3, <2>1 DEF LocksMove, Put, HasLock, Locking
  <2>3. QED
    BY <1>1, <2>2, LocksStay
<1>6. QED
  BY <1>4, <1>5

(* keeps it while it allocates the inode, *)
LEMMA IallocLocks ==
  ASSUME LocksHeld, BaseInv, NEW p \in Procs, Ialloc(p) \/ IallocGet(p)
  PROVE  LocksHeld'
<1>1. \A q \in Procs : q # p => Same(q)
  BY IallocBase, IallocGetBase
<1>2. /\ ProcType /\ loc \in [Procs -> LocalsType] /\ pc[p] \in {"ialloc", "iget"} /\ puts[p] = <<>>
  BY LockPlace DEF Ialloc, IallocGet
<1>3. lock' = lock /\ pc'[p] \in Locking /\ loc'[p].cur = loc[p].cur
  <2>1. CASE Ialloc(p)
    <3>1. PICK i \in Inums : Locals(p, [ip |-> i]) /\ Goto(p, "iget")
      BY <2>1 DEF Ialloc
    <3>2. loc'[p].cur = loc[p].cur
      BY <1>2, <3>1, LocalsIp
    <3>3. QED
      BY <1>2, <2>1, <3>1, <3>2 DEF Ialloc, table, Goto, Put, ProcType, Locking
  <2>2. CASE IallocGet(p)
    BY <1>2, <2>2 DEF IallocGet, Goto, Put, ProcType, Locking
  <2>3. QED
    BY <2>1, <2>2
<1>4. \A i \in Inums : lock[i] = p => loc[p].cur = i
  BY <1>2, LocksOf DEF Finishing
<1>5. LocksMove(p)
  BY <1>3, <1>4 DEF LocksMove, HasLock
<1>6. QED
  BY <1>1, <1>5, LocksStay

(* and unlocks it with the reference. *)
LEMMA IallocFailsLocks ==
  ASSUME LocksHeld, BaseInv, NEW p \in Procs, IallocFails(p)
  PROVE  LocksHeld'
<1>1. \A q \in Procs : q # p => Same(q)
  BY IallocFailsBase
<1>2. /\ ProcType /\ pc[p] = "ialloc" /\ puts[p] = <<>> /\ freeing[p] = "no"
  BY LockPlace DEF IallocFails
<1>3. lock' = lock /\ puts'[p] = <<ToUnlockPut(loc[p].cur)>> /\ freeing'[p] = "no"
  BY <1>2 DEF IallocFails, table, Leave, ThenPut, Put, ProcType
<1>4. \A i \in Inums : lock[i] = p => HeldIn(puts'[p], i)
  BY <1>2, <1>3, LocksOf, OneListed, PutsAre DEF Finishing
<1>5. LocksMove(p)
  BY <1>3, <1>4, HeldDue DEF LocksMove
<1>6. QED
  BY <1>1, <1>5, LocksStay

(* The new inode, or the one to be removed, is locked as well. *)
LEMMA BothLocks ==
  ASSUME LocksHeld, BaseInv, NEW p \in Procs, CreateLink(p) \/ Unlink(p)
  PROVE  LocksHeld'
<1>1. \A q \in Procs : q # p => Same(q)
  BY CreateLinkBase, UnlinkBase
<1>2. /\ ProcType /\ loc \in [Procs -> LocalsType] /\ lock \in [Inums -> Procs \cup {NoProc}]
      /\ pc[p] \in {"init", "unlink"} /\ puts[p] = <<>> /\ freeing[p] = "no"
  BY LockPlace DEF CreateLink, Unlink
<1>3. /\ lock' = Put(lock, loc[p].ip, p) /\ puts'[p] = <<ToUnlockPut(loc[p].cur)>> /\ freeing'[p] = "no"
      /\ pc'[p] \in Finishing /\ Locals(p, [cur |-> Null])
  <2>1. CASE CreateLink(p)
    BY <1>2, <2>1 DEF CreateLink, ThenPut, Goto, Put, ProcType, Finishing
  <2>2. CASE Unlink(p)
    BY <1>2, <2>2 DEF Unlink, ThenPut, Goto, Put, ProcType, Finishing
  <2>3. QED
    BY <2>1, <2>2
<1>4. loc'[p].ip = loc[p].ip
  BY <1>2, <1>3, LocalsCur
<1>5. \A i \in Inums : lock[i] = p => HeldIn(puts'[p], i)
  BY <1>2, <1>3, LocksOf, OneListed, PutsAre DEF Finishing
<1>6. \A i \in Inums : lock'[i] = p => lock[i] = p \/ i = loc[p].ip
  BY <1>2, <1>3 DEF Put
<1>7. LocksMove(p)
  <2>1. ASSUME NEW i \in Inums, lock'[i] = p PROVE HasLock(p, i)'
    <3>1. CASE i = loc[p].ip
      BY <1>3, <1>4, <3>1 DEF HasLock
    <3>2. CASE lock[i] = p
      BY <1>3, <1>5, <3>2, HeldDue
    <3>3. QED
      BY <1>6, <2>1, <3>1, <3>2
  <2>2. \A i \in Inums : lock'[i] = lock[i] \/ lock'[i] \in {p, NoProc}
    BY <1>2, <1>3 DEF Put
  <2>3. QED
    BY <2>1, <2>2 DEF LocksMove
<1>8. QED
  BY <1>1, <1>7, LocksStay

(* Both are unlocked when the disk is full. *)
LEMMA CreateFailsLocks ==
  ASSUME LocksHeld, BaseInv, NEW p \in Procs, CreateFails(p)
  PROVE  LocksHeld'
<1>1. \A q \in Procs : q # p => Same(q)
  BY CreateFailsBase
<1>2. /\ ProcType /\ lock \in [Inums -> Procs \cup {NoProc}] /\ pc[p] = "init" /\ puts[p] = <<>> /\ freeing[p] = "no"
  BY LockPlace DEF CreateFails
<1>3. PICK d, i : d = loc[p].cur /\ i = loc[p].ip
  OBVIOUS
<1>4. lock' = Put(lock, i, p) /\ puts'[p] = <<ToUnlockPut(i), ToUnlockPut(d)>> /\ freeing'[p] = "no"
  BY <1>2, <1>3 DEF CreateFails, Leave, ThenPut, Put, ProcType
<1>5. \A j \in Inums : lock'[j] = p => j = i \/ j = d
  BY <1>2, <1>3, <1>4, LocksOf DEF Put, Finishing
<1>6. HeldIn(puts'[p], i) /\ HeldIn(puts'[p], d)
  BY <1>4, HeldOfTwo, Zenon
<1>7. \A j \in Inums : lock'[j] = lock[j] \/ lock'[j] \in {p, NoProc}
  BY <1>2, <1>4 DEF Put
<1>8. LocksMove(p)
  BY <1>4, <1>5, <1>6, <1>7, HeldDue DEF LocksMove
<1>9. QED
  BY <1>1, <1>8, LocksStay

(* The new inode is unlocked at the end, *)
LEMMA CreatedLocks ==
  ASSUME LocksHeld, BaseInv, NEW p \in Procs, Created(p)
  PROVE  LocksHeld'
<1>1. \A q \in Procs : q # p => Same(q)
  BY CreatedBase
<1>2. /\ lock \in [Inums -> Procs \cup {NoProc}] /\ pc[p] = "created" /\ puts[p] = <<>>
  BY LockPlace DEF Created
<1>3. lock' = Put(lock, loc[p].ip, NoProc)
  BY DEF Created
<1>4. \A j \in Inums : lock[j] = p => j = loc[p].ip
  BY <1>2, LocksOf DEF Locking
<1>5. LocksMove(p)
  BY <1>2, <1>3, <1>4 DEF LocksMove, Put
<1>6. QED
  BY <1>1, <1>5, LocksStay

(* the removed one with the reference. *)
LEMMA UnlinkedLocks ==
  ASSUME LocksHeld, BaseInv, NEW p \in Procs, Unlinked(p)
  PROVE  LocksHeld'
<1>1. \A q \in Procs : q # p => Same(q)
  BY UnlinkedBase
<1>2. /\ ProcType /\ pc[p] = "unlinked" /\ puts[p] = <<>> /\ freeing[p] = "no"
  BY LockPlace DEF Unlinked
<1>3. lock' = lock /\ puts'[p] = <<ToUnlockPut(loc[p].ip)>> /\ freeing'[p] = "no"
  BY <1>2 DEF Unlinked, Leave, ThenPut, Put, ProcType
<1>4. \A i \in Inums : lock[i] = p => HeldIn(puts'[p], i)
  BY <1>2, <1>3, LocksOf, OneListed, PutsAre DEF Locking
<1>5. LocksMove(p)
  BY <1>3, <1>4, HeldDue DEF LocksMove
<1>6. QED
  BY <1>1, <1>5, LocksStay

(* unlink() locks the directory, *)
LEMMA UnlinkLookupLocks ==
  ASSUME LocksHeld, BaseInv, NEW p \in Procs, UnlinkLookup(p)
  PROVE  LocksHeld'
<1>1. \A q \in Procs : q # p => Same(q)
  BY UnlinkLookupBase
<1>2. /\ ProcType /\ loc \in [Procs -> LocalsType] /\ lock \in [Inums -> Procs \cup {NoProc}]
      /\ pc[p] = "parent" /\ puts[p] = <<>>
  BY LockPlace DEF UnlinkLookup, FoundParent
<1>3. \A i \in Inums : lock[i] # p
  BY <1>2, LocksOf DEF Locking, Finishing
<1>4. CASE lock' = lock
  BY <1>1, <1>2, <1>4, FreeLocks DEF Locking, Finishing
<1>5. CASE lock' # lock
  <2>1. PICK next : lock' = Put(lock, loc[p].cur, p) /\ pc'[p] = "unlink" /\ Locals(p, [ip |-> next])
    BY <1>2, <1>5 DEF UnlinkLookup, Goto, Put, ProcType
  <2>2. loc'[p].cur = loc[p].cur
    BY <1>2, <2>1, LocalsIp
  <2>3. LocksMove(p)
    BY <1>2, <1>3, <2>1, <2>2 DEF LocksMove, Put, HasLock, Locking
  <2>4. QED
    BY <1>1, <2>3, LocksStay
<1>6. QED
  BY <1>4, <1>5

(* and unlocks it when the directory to be removed is not empty. *)
LEMMA UnlinkRefusedLocks ==
  ASSUME LocksHeld, BaseInv, NEW p \in Procs, UnlinkRefused(p)
  PROVE  LocksHeld'
<1>1. \A q \in Procs : q # p => Same(q)
  BY UnlinkRefusedBase
<1>2. /\ ProcType /\ pc[p] = "unlink" /\ puts[p] = <<>> /\ freeing[p] = "no"
  BY LockPlace DEF UnlinkRefused
<1>3. lock' = lock /\ puts'[p] = <<ToPut(loc[p].ip), ToUnlockPut(loc[p].cur)>> /\ freeing'[p] = "no"
  BY <1>2 DEF UnlinkRefused, Leave, ThenPut, Put, ProcType
<1>4. \A i \in Inums : lock[i] = p => HeldIn(puts'[p], i)
  <2>1. \A i \in Inums : lock[i] = p => i = loc[p].cur
    BY <1>2, LocksOf DEF Finishing
  <2>2. HeldIn(puts'[p], loc[p].cur)
    BY <1>3, HeldOfTwo, Zenon
  <2>3. QED
    BY <2>1, <2>2
<1>5. LocksMove(p)
  BY <1>3, <1>4, HeldDue DEF LocksMove
<1>6. QED
  BY <1>1, <1>5, LocksStay

(* link() locks the directory when the name is there already. *)
LEMMA LinkFailsLocks ==
  ASSUME LocksHeld, BaseInv, NEW p \in Procs, LinkFails(p)
  PROVE  LocksHeld'
<1>1. \A q \in Procs : q # p => Same(q)
  BY LinkFailsBase
<1>2. /\ ProcType /\ lock \in [Inums -> Procs \cup {NoProc}]
      /\ pc[p] = "parent" /\ puts[p] = <<>> /\ freeing[p] = "no"
  BY LockPlace DEF LinkFails, FoundParent
<1>3. \A i \in Inums : lock[i] # p
  BY <1>2, LocksOf DEF Locking, Finishing
<1>4. CASE lock' = lock
  BY <1>1, <1>2, <1>4, FreeLocks DEF Locking, Finishing
<1>5. CASE lock' # lock
  <2>1. PICK d, next : d = loc[p].cur /\ next = dirlookup(d, loc[p].rest[1])
    OBVIOUS
  <2>2. lock' = Put(lock, d, p) /\ puts'[p] = <<ToPut(next), ToUnlockPut(d)>> /\ freeing'[p] = "no"
    BY <1>2, <1>5, <2>1 DEF LinkFails, ThenPut, Put, ProcType
  <2>3. HeldIn(puts'[p], d)
    BY <2>2, HeldOfTwo, Zenon
  <2>4. \A i \in Inums : lock'[i] = p => i = d
    BY <1>2, <1>3, <2>2 DEF Put
  <2>5. LocksMove(p)
    BY <1>2, <2>2, <2>3, <2>4, HeldDue DEF LocksMove, Put
  <2>6. QED
    BY <1>1, <2>5, LocksStay
<1>6. QED
  BY <1>4, <1>5

(* iput() of a reference that is not the last one *)
LEMMA PutRefLocks ==
  ASSUME LocksHeld, BaseInv, NEW p \in Procs, PutRef(p)
  PROVE  LocksHeld'
<1>1. \A q \in Procs : q # p => Same(q)
  BY PutRefBase
<1>2. /\ ProcType /\ lock \in [Inums -> Procs \cup {NoProc}] /\ puts[p] \in Seq(ToPuts) /\ puts[p] # <<>>
      /\ freeing[p] = "no"
  BY Before DEF PutRef, TableType
<1>3. PICK x : x = Head(puts[p])
  OBVIOUS
<1>4. /\ lock' = Unlocked(x) /\ puts'[p] = Tail(puts[p]) /\ freeing'[p] = "no"
      /\ pc' = pc /\ loc' = loc
  BY <1>2, <1>3 DEF PutRef, Pops, Put, ProcType
<1>5. \A i \in Inums : lock'[i] = lock[i] \/ (lock'[i] = NoProc /\ x.held /\ i = x.inum)
  BY <1>2, <1>4 DEF Unlocked, Put
<1>6. ASSUME NEW i \in Inums, lock'[i] = p PROVE HasLock(p, i)'
  <2>1. lock[i] = p /\ ~(x.held /\ i = x.inum)
    <3>1. lock[i] = p
      BY <1>5, <1>6
    <3>2. ASSUME x.held, i = x.inum PROVE lock'[i] = NoProc
      BY <1>2, <1>4, <3>2 DEF Unlocked, Put
    <3>3. QED
      BY <1>6, <3>1, <3>2
  <2>2. HasLock(p, i)
    BY <2>1 DEF LocksHeld
  <2>3. HeldIn(puts[p], i) => HeldIn(Tail(puts[p]), i)
    BY <1>2, <1>3, <2>1, TailListed
  <2>4. QED
    BY <1>2, <1>4, <2>2, <2>3 DEF HasLock, Due, Frees
<1>7. LocksMove(p)
  BY <1>5, <1>6 DEF LocksMove
<1>8. QED
  BY <1>1, <1>7, LocksStay

(* iput() of the last one locks the inode, *)
LEMMA PutLastLocks ==
  ASSUME LocksHeld, BaseInv, NEW p \in Procs, PutLast(p)
  PROVE  LocksHeld'
<1>1. \A q \in Procs : q # p => Same(q)
  BY PutLastBase
<1>2. /\ ProcType /\ lock \in [Inums -> Procs \cup {NoProc}] /\ freeing[p] = "no"
  BY Before DEF PutLast, TableType
<1>3. PICK x : x = Head(puts[p])
  OBVIOUS
<1>4. /\ lock' = Put(lock, x.inum, p) /\ puts' = puts /\ freeing'[p] = "freeing"
      /\ pc' = pc /\ loc' = loc
  BY <1>2, <1>3 DEF PutLast, Put, ProcType
<1>5. \A i \in Inums : IF i = x.inum THEN lock'[i] = p ELSE lock'[i] = lock[i]
  BY <1>2, <1>4 DEF Put
<1>6. ASSUME NEW i \in Inums, lock'[i] = p PROVE HasLock(p, i)'
  <2>1. CASE i = x.inum
    BY <1>3, <1>4, <2>1 DEF HasLock, Frees
  <2>2. CASE i # x.inum
    <3>1. HasLock(p, i)
      BY <1>5, <1>6, <2>2 DEF LocksHeld
    <3>2. QED
      BY <1>2, <1>4, <3>1 DEF HasLock, Due, Frees
  <2>3. QED
    BY <2>1, <2>2
<1>7. LocksMove(p)
  BY <1>5, <1>6 DEF LocksMove
<1>8. QED
  BY <1>1, <1>7, LocksStay

(* unlocks it when it is free *)
LEMMA PutFreeLocks ==
  ASSUME LocksHeld, BaseInv, NEW p \in Procs, PutFree(p)
  PROVE  LocksHeld'
<1>1. \A q \in Procs : q # p => Same(q)
  BY PutFreeBase
<1>2. /\ ProcType /\ lock \in [Inums -> Procs \cup {NoProc}] /\ puts[p] \in Seq(ToPuts) /\ puts[p] # <<>>
      /\ freeing[p] = "freeing"
  BY Before DEF PutFree, TableType
<1>3. PICK x : x = Head(puts[p])
  OBVIOUS
<1>4. /\ lock' = Put(lock, x.inum, NoProc) /\ puts' = puts /\ freeing'[p] = "freed"
      /\ pc' = pc /\ loc' = loc
  BY <1>2, <1>3 DEF PutFree, Put, ProcType
<1>5. \A i \in Inums : IF i = x.inum THEN lock'[i] = NoProc ELSE lock'[i] = lock[i]
  BY <1>2, <1>4 DEF Put
<1>6. ASSUME NEW i \in Inums, lock'[i] = p PROVE HasLock(p, i)'
  <2>1. lock[i] = p /\ i # x.inum
    BY <1>5, <1>6
  <2>2. HasLock(p, i)
    BY <2>1 DEF LocksHeld
  <2>3. HeldIn(puts[p], i) => HeldIn(Tail(puts[p]), i)
    BY <1>2, <1>3, <2>1, TailListed
  <2>4. QED
    BY <1>2, <1>3, <1>4, <2>1, <2>2, <2>3 DEF HasLock, Due, Frees
<1>7. LocksMove(p)
  BY <1>5, <1>6 DEF LocksMove
<1>8. QED
  BY <1>1, <1>7, LocksStay

(* and gives the reference up. *)
LEMMA PutFreedLocks ==
  ASSUME LocksHeld, BaseInv, NEW p \in Procs, PutFreed(p)
  PROVE  LocksHeld'
<1>1. \A q \in Procs : q # p => Same(q)
  BY PutFreedBase
<1>2. ProcType /\ freeing[p] = "freed"
  BY Before DEF PutFreed
<1>3. lock' = lock /\ puts'[p] = Tail(puts[p]) /\ freeing'[p] = "no" /\ pc' = pc /\ loc' = loc
  BY <1>2 DEF PutFreed, Pops, Put, ProcType
<1>4. ASSUME NEW i \in Inums, lock'[i] = p PROVE HasLock(p, i)'
  <2>1. HasLock(p, i)
    BY <1>3, <1>4 DEF LocksHeld
  <2>2. QED
    BY <1>2, <1>3, <2>1 DEF HasLock, Due, Frees
<1>5. LocksMove(p)
  BY <1>3, <1>4 DEF LocksMove
<1>6. QED
  BY <1>1, <1>5, LocksStay

(* Each step of a process keeps the locks where they belong. *)
LEMMA CallLocks ==
  ASSUME LocksHeld, BaseInv, NEW p \in Procs, CallStep(p) \/ Close(p) \/ \E r \in workload : Enter(p, r)
  PROVE  LocksHeld'
<1>1. CASE End(p) \/ Close(p) \/ \E r \in workload : Enter(p, r)
  BY <1>1, PlainLocks
<1>2. CASE Iput(p)
  BY <1>2, PutRefLocks, PutLastLocks, PutFreeLocks, PutFreedLocks DEF Iput
<1>3. CASE Lookup(p)
  BY <1>3, PlainLocks DEF Lookup
<1>4. CASE Create(p)
  BY <1>4, CreateLookupLocks, PlainLocks, IallocLocks, IallocFailsLocks, BothLocks, CreateFailsLocks, CreatedLocks
     DEF Create
<1>5. CASE RemoveName(p)
  BY <1>5, UnlinkLookupLocks, UnlinkRefusedLocks, BothLocks, UnlinkedLocks DEF RemoveName
<1>6. CASE Link(p)
  BY <1>6, PlainLocks, LinkFailsLocks DEF Link
<1>7. CASE PathOfCwd(p)
  BY <1>7, PlainLocks DEF PathOfCwd
<1>8. QED
  BY <1>1, <1>2, <1>3, <1>4, <1>5, <1>6, <1>7 DEF CallStep

(* Every lock that is held is held by a process that is about to use it or *)
(* to release it: there is no path of a call, however it fails, on which   *)
(* an inode is left locked.                                                *)
THEOREM LocksKept == FsSpec => []LocksHeld
<1>1. FsInit => LocksHeld
  BY DEF FsInit, LocksHeld
<1>2. BaseInv /\ LocksHeld /\ [FsNext]_fsVars => LocksHeld'
  <2> SUFFICES ASSUME BaseInv, LocksHeld, [FsNext]_fsVars PROVE LocksHeld'
    OBVIOUS
  <2>1. CASE \E p \in Procs : CallStep(p) \/ Close(p) \/ \E r \in workload : Enter(p, r)
    BY <2>1, CallLocks
  <2>2. CASE Crash
    BY <2>2 DEF Crash, LocksHeld
  <2>3. CASE Reclaim
    BY <2>3 DEF Reclaim, LocksHeld, HasLock, Due, Frees, table, local
  <2>4. CASE UNCHANGED fsVars
    BY <2>4 DEF fsVars, LocksHeld, HasLock, Due, Frees, table, local
  <2>5. QED
    BY <2>1, <2>2, <2>3, <2>4 DEF FsNext
<1>3. QED
  BY <1>1, <1>2, FsBase, PTL DEF FsSpec

-----------------------------------------------------------------------------
(* Waiting *)

(* Whoever has an inode locked points to it. *)
LEMMA LockPoints ==
  ASSUME BaseInv, NEW p \in Procs, NEW i \in Inums, HasLock(p, i)
  PROVE  Points(p, i)
<1>1. HeldIn(Due(p), i) => Points(p, i)
  BY DEF HeldIn, Listed, Points
<1>2. QED
  BY <1>1, FreesListed DEF HasLock, Points, Names_it, Locking, Finishing

(* The last reference to an inode without links is never waited for: who   *)
(* holds it is the only one that could have it locked.                     *)
LEMMA LastIsFree ==
  ASSUME TreeInv, LocksHeld, NEW p \in Procs, puts[p] # <<>>, freeing[p] = "no",
         NEW i \in Inums, Head(puts[p]).inum = i, ~Head(puts[p]).held, LastRef(i)
  PROVE  lock[i] \notin Procs
<1> SUFFICES ASSUME NEW r \in Procs, lock[i] = r PROVE FALSE
  OBVIOUS
<1>0. BaseInv /\ ProcOK(p) /\ PlaceOK(p) /\ puts[p] \in Seq(ToPuts) /\ Len(puts[p]) <= 2
  BY Before DEF TreeInv, PlaceOK
<1>1. HasLock(r, i)
  BY DEF LocksHeld
<1>2. Listed(puts[p], i)
  BY <1>0, TailListed
<1>3. Holds(p, i)
  BY <1>2 DEF Holds, Points, Due
<1>4. Alone(p, i) /\ PointersAre(p, i) <= 1 /\ PointersAre(p, i) \in Nat
  <2>1. iref[i] = 1
    BY DEF LastRef
  <2>2. QED
    BY <1>0, <1>3, <2>1, HeldRefs
<1>5. r = p
  BY <1>0, <1>1, <1>4, LockPoints DEF Alone, Holds
<1>6. CASE HeldIn(puts[p], i)
  <2>1. PICK k \in DOMAIN puts[p] : puts[p][k].inum = i /\ puts[p][k].held
    BY <1>6 DEF HeldIn
  <2>2. Len(puts[p]) \in Nat /\ k \in 1 .. Len(puts[p]) /\ puts[p][1] = Head(puts[p])
    BY <1>0, <2>1
  <2>3. k # 1
    BY <2>1, <2>2
  <2>4. k = 2 /\ Len(puts[p]) = 2
    <3> DEFINE n == Len(puts[p])
    <3>1. n \in Nat /\ k \in 1 .. n /\ n <= 2 /\ k # 1
      BY <1>0, <2>2, <2>3
    <3> HIDE DEF n
    <3>2. k = 2 /\ n = 2
      BY <3>1
    <3>3. QED
      BY <3>2 DEF n
  <2>5. Found_in(puts[p], i) = 2
    BY <2>1, <2>2, <2>4 DEF Found_in, B
  <2>6. PointersAre(p, i) >= 2
    BY <2>5 DEF PointersAre, B
  <2>7. QED
    BY <1>4, <2>6
<1>7. CASE ~HeldIn(puts[p], i)
  <2>1. Due(p) = puts[p] /\ ~Frees(p, i)
    BY DEF Due, Frees
  <2>2. \/ pc[p] \in Locking /\ loc[p].cur = i
        \/ pc[p] \in Finishing /\ loc[p].ip = i
    BY <1>1, <1>5, <1>7, <2>1 DEF HasLock
  <2>3. pc[p] \notin Locking
    BY <1>0 DEF PlaceOK, Locking
  <2>4. pc[p] \in Finishing => ~Listed(puts[p], loc[p].ip)
    BY <1>0 DEF ProcOK, AtOK, Finishing
  <2>5. QED
    BY <1>2, <2>2, <2>3, <2>4
<1>8. QED
  BY <1>6, <1>7

(* Neither is an inode that has just been allocated. *)
LEMMA NewIsFree ==
  ASSUME TreeInv, LocksHeld, NEW p \in Procs, pc[p] = "init", puts[p] = <<>>, NEW i \in Inums, loc[p].ip = i
  PROVE  lock[i] \notin Procs
<1> SUFFICES ASSUME NEW r \in Procs, lock[i] = r PROVE FALSE
  OBVIOUS
<1>1. BaseInv /\ Fresh(p, i)
  BY DEF TreeInv, ProcOK, AtOK
<1>2. Points(r, i)
  BY <1>1, LockPoints DEF LocksHeld
<1>3. r = p
  BY <1>1, <1>2 DEF Fresh
<1>4. loc[p].cur = i
  BY <1>1, <1>3, LocksOf DEF Finishing
<1>5. QED
  BY <1>1, <1>4 DEF Fresh

(* So who waits with something locked is in unlink(), with the directory,  *)
(* for what the entry names.                                               *)
LEMMA WhoWaits ==
  ASSUME TreeInv, LocksHeld, NEW p \in Procs, NEW i \in Awaited(p), lock[i] \in Procs,
         NEW j \in Inums, lock[j] = p
  PROVE  pc[p] = "unlink" /\ puts[p] = <<>> /\ i = loc[p].ip /\ j = loc[p].cur
<1>0. BaseInv /\ PlaceOK(p) /\ puts[p] \in Seq(ToPuts) /\ loc[p] \in LocalsType
  BY Before DEF TreeInv
<1>1. CASE puts[p] # <<>>
  <2>1. Head(puts[p]).inum = i /\ freeing[p] = "no" /\ ~Head(puts[p]).held /\ LastRef(i)
    BY <1>1 DEF Awaited
  <2>2. i \in Inums
    <3>1. Head(puts[p]) \in ToPuts
      BY <1>0, <1>1
    <3>2. QED
      BY <2>1, <3>1 DEF ToPuts
  <2>3. QED
    BY <1>1, <2>1, <2>2, LastIsFree
<1>2. CASE puts[p] = <<>>
  <2>1. \/ pc[p] \in Locking /\ loc[p].cur = j
        \/ pc[p] \in Finishing /\ loc[p].ip = j
    BY <1>0, <1>2, LocksOf
  <2>2. /\ pc[p] \in {"walk", "parent", "up", "exists", "init", "unlink", "scan", "undo_link"}
        /\ pc[p] \in {"init", "unlink"} => i = loc[p].ip
    BY <1>2 DEF Awaited
  <2>3. pc[p] # "init"
    <3> SUFFICES ASSUME pc[p] = "init" PROVE FALSE
      OBVIOUS
    <3>1. i = loc[p].ip /\ i \in Inums
      BY <1>0, <2>2 DEF PlaceOK
    <3>2. QED
      BY <1>2, <3>1, NewIsFree
  <2>4. QED
    BY <1>2, <2>1, <2>2, <2>3 DEF Locking, Finishing
<1>3. QED
  BY <1>1, <1>2

(* It is a directory below the one that is locked, or a file. *)
LEMMA UnlinkBelow ==
  ASSUME TreeInv, NEW p \in Procs, pc[p] = "unlink", NEW x, NEW y, loc[p].cur = x, loc[p].ip = y
  PROVE  Live(x) /\ y # Root /\ (disk.type[y] = "dir" => disk.up[y] = x)
<1>1. BaseInv /\ PlaceOK(p) /\ ProcOK(p) /\ DiskInv
  BY Before DEF TreeInv
<1>2. x \in Inums /\ y \in Inums
  BY <1>1 DEF PlaceOK
<1>3. PICK n \in Names : disk.ent[x][n] = y
  BY <1>1 DEF ProcOK, AtOK
<1>4. Live(x)
  BY <1>1 DEF ProcOK, AtOK
<1>5. DirOK(disk, Gone, x)
  BY <1>1, <1>2, <1>4 DEF DiskInv, TreeOK, NodeOK, Live
<1>6. EntryOK(disk, Gone, x, n, y)
  <2>1. y # Null
    BY <1>2
  <2>2. QED
    BY <1>3, <1>5, <2>1 DEF DirOK
<1>7. QED
  BY <1>4, <1>6 DEF EntryOK

(* A circle would be one of directories. *)
LEMMA NoneInCircle ==
  ASSUME TreeInv, LocksHeld
  PROVE  NoCircle
<1> SUFFICES ASSUME NEW S \in SUBSET Procs, S # {}, \A p \in S : \E i \in Awaited(p) : lock[i] \in S
             PROVE  FALSE
  BY DEF NoCircle
<1>0. \A p \in Procs : Awaited(p) \subseteq Inums
  <2> SUFFICES ASSUME NEW p \in Procs, NEW i \in Awaited(p) PROVE i \in Inums
    OBVIOUS
  <2>1. BaseInv /\ PlaceOK(p) /\ puts[p] \in Seq(ToPuts)
    BY Before DEF TreeInv
  <2>2. CASE puts[p] # <<>>
    <3>1. i = Head(puts[p]).inum /\ Head(puts[p]) \in ToPuts
      BY <2>1, <2>2 DEF Awaited
    <3>2. QED
      BY <3>1 DEF ToPuts
  <2>3. CASE puts[p] = <<>>
    BY <2>1, <2>3 DEF Awaited, PlaceOK
  <2>4. QED
    BY <2>2, <2>3
<1> DEFINE H == {p \in S : \E j \in Inums : lock[j] = p}
           T == {loc[p].cur : p \in H}
<1>1. ASSUME NEW p \in S
      PROVE  \E i \in Awaited(p) : i \in Inums /\ lock[i] \in H
  BY <1>0
<1>2. ASSUME NEW p \in H
      PROVE  /\ pc[p] = "unlink" /\ lock[loc[p].ip] \in H /\ loc[p].ip \in Inums
             /\ \A j \in Inums : lock[j] = p => j = loc[p].cur
  <2>1. p \in S /\ p \in Procs
    OBVIOUS
  <2>2. PICK i \in Awaited(p) : i \in Inums /\ lock[i] \in H
    BY <1>1, <2>1
  <2>3. lock[i] \in Procs
    BY <2>2
  <2>4. \A j \in Inums : lock[j] = p => pc[p] = "unlink" /\ i = loc[p].ip /\ j = loc[p].cur
    BY <2>1, <2>3, WhoWaits
  <2>5. QED
    BY <2>2, <2>4
<1>3. T # {} /\ T \in SUBSET Inums /\ \A x \in T : LiveIn(disk, Gone, x)
  <2>1. H # {}
    BY <1>1
  <2>2. ASSUME NEW p \in H PROVE loc[p].cur \in Inums /\ LiveIn(disk, Gone, loc[p].cur)
    <3>1. Live(loc[p].cur)
      BY <1>2, UnlinkBelow
    <3>2. QED
      BY <3>1 DEF Live, LiveIn
  <2>3. QED
    BY <2>1, <2>2
<1>4. Grounded(disk, Gone)
  BY DEF TreeInv, DiskInv, TreeOK
<1>5. PICK x \in T : \A y \in T : disk.up[y] = x => y = Root
  <2> HIDE DEF T
  <2>1. QED
    BY <1>3, <1>4, Zenon DEF Grounded
<1>6. PICK p \in H : x = loc[p].cur
  BY <1>5
<1>7. PICK y : y = loc[p].ip
  OBVIOUS
<1>8. y \in T
  <2>1. PICK r \in H : r = lock[y]
    BY <1>2, <1>6, <1>7
  <2>2. y = loc[r].cur
    BY <1>2, <1>6, <1>7, <2>1
  <2>3. QED
    BY <2>2
<1>9. Live(x) /\ y # Root /\ (disk.type[y] = "dir" => disk.up[y] = x)
  BY <1>2, <1>6, <1>7, UnlinkBelow
<1>10. disk.type[y] = "dir"
  BY <1>3, <1>8 DEF LiveIn
<1>11. QED
  BY <1>5, <1>8, <1>9, <1>10

(* No set of processes waits in a circle for the locks of inodes, whatever *)
(* calls they are in and however many they are: only unlink() waits with a *)
(* lock, for an inode one level below, and directories form no circle.     *)
THEOREM NoDeadlock == RemoveBusy = FALSE => (FsSpec => []NoCircle)
<1>1. TreeInv /\ LocksHeld => NoCircle
  BY NoneInCircle
<1>2. QED
  BY <1>1, FsTree, LocksKept, PTL

(* Directories in use form no circle, on the disk as the calls see it and  *)
(* on the one that a crash leaves: namex() and getcwd() following ".." go  *)
(* up to the root.                                                         *)
THEOREM NoDirectoryLoops == RemoveBusy = FALSE => (FsSpec => []NoLoops)
<1>1. TreeInv => NoLoops
  BY DEF TreeInv, DiskInv, StableInv, TreeOK, NoLoops
<1>2. QED
  BY <1>1, FsTree, PTL
=============================================================================
