----------------------------- MODULE FileSysInv -----------------------------
(***************************************************************************)
(* The inductive invariants of FileSys, and what one process may rely on   *)
(* when another takes a step.                                              *)
(*                                                                         *)
(* BaseInv: types, what a process has in its local variables and in its    *)
(* list of inodes to iput() at each place of a call (PlaceOK), and the     *)
(* counts of references.  TreeInv: directories are linked both ways and    *)
(* form no circle, link counts are those of the entries up to what link()  *)
(* and unlink() have under way, copies are those of the disk, and nobody   *)
(* points to a free inode.  LocksHeld: who has which inode locked.         *)
(***************************************************************************)
EXTENDS FileSys

(* The elements of paths, pointers, and the lists of what is to be put *)
Elems == Names \cup {".."}
MaybeInum == Inums \cup {Null}
ToPuts == [inum : Inums, held : BOOLEAN]
InodeTypes == {"free", "file", "dir"}
Copies == [valid : BOOLEAN, type : InodeTypes, nlink : Int]
Disks == [type : [Inums -> InodeTypes], nlink : [Inums -> Int],
          ent : [Inums -> [Names -> MaybeInum]], up : [Inums -> MaybeInum]]
LocalsType == [call : Calls \cup {"none", "getcwd"}, rest : Seq(Elems), new : Seq(Paths),
               cur : MaybeInum, ip : MaybeInum, old : MaybeInum]
Stations == {"user", "walk", "parent", "exists", "ialloc", "iget", "init", "created",
             "unlink", "unlinked", "undo_link", "up", "scan", "end"}

(* What the kernel keeps of a process *)
ProcType ==
  /\ cwd \in [Procs -> Inums] /\ fd \in [Procs -> MaybeInum]
  /\ pc \in [Procs -> Stations]
  /\ loc \in [Procs -> LocalsType]
  /\ puts \in [Procs -> Seq(ToPuts)]
  /\ freeing \in [Procs -> {"no", "freeing", "freed"}]

(* The inode table *)
TableType ==
  /\ iref \in [Inums -> Int] /\ core \in [Inums -> Copies]
  /\ lock \in [Inums -> Procs \cup {NoProc}]

RestType ==
  /\ workload \in Workloads /\ tx \in SUBSET Procs
  /\ boot \in SUBSET Inums /\ panicked \in BOOLEAN /\ overtaken \in SUBSET Inums

FsTypeOK == ProcType /\ TableType /\ RestType /\ disk \in Disks /\ stable \in Disks

(* What a process has in its local variables at each place *)
PlaceOK(p) ==
  LET l == loc[p] IN
  /\ freeing[p] # "no" => puts[p] # <<>>
  /\ Len(puts[p]) <= 2
  /\ l.old # Null => l.call = "link"
  /\ pc[p] \in {"user", "end"} => l.cur = Null /\ l.ip = Null /\ l.old = Null
  /\ pc[p] \in {"walk", "parent"} => l.cur \in Inums /\ l.ip = Null /\ l.call \in Calls
  /\ pc[p] = "walk" /\ l.call = "link" /\ l.old = Null => l.new # <<>>
  /\ pc[p] = "parent" => Len(l.rest) = 1 /\ WantsParent(p)
  /\ pc[p] = "exists" => l.cur = Null /\ l.ip \in Inums
  /\ pc[p] \in {"exists", "ialloc", "iget", "init", "created"} => l.call \in {"creat", "mkdir"}
  /\ pc[p] \in {"ialloc", "iget", "init"} =>
       l.cur \in Inums /\ Len(l.rest) = 1
  /\ pc[p] = "ialloc" => l.ip = Null
  /\ pc[p] \in {"iget", "init"} => l.ip \in Inums
  /\ pc[p] = "created" => l.cur = Null /\ l.ip \in Inums
  /\ pc[p] \in {"unlink", "unlinked"} => l.call = "unlink"
  /\ pc[p] = "unlink" => l.cur \in Inums /\ l.ip \in Inums /\ Len(l.rest) = 1 /\ l.rest[1] \in Names
  /\ pc[p] = "unlinked" => l.cur = Null /\ l.ip \in Inums
  /\ pc[p] = "undo_link" => l.cur = Null /\ l.ip = Null /\ l.old \in Inums
  /\ pc[p] \in {"up", "scan"} => l.cur \in Inums /\ l.call = "getcwd"
  /\ pc[p] = "up" => l.ip = Null
  /\ pc[p] = "scan" => l.ip \in Inums
  /\ pc[p] \in {"parent", "ialloc", "iget", "init", "unlink", "scan"} => puts[p] = <<>>

(* Types, places, and the counts of references *)
BaseInv == FsTypeOK /\ (\A p \in Procs : PlaceOK(p)) /\ RefCount

-----------------------------------------------------------------------------
(* The tree of directories.  g: directories and files whose entry is gone  *)
(* and whose count unlink() has still to lower; ex[i]: processes in link() *)
(* that have raised the count of i and have yet to enter its new name.     *)

LiveIn(d, g, i) == i \in Inums /\ d.type[i] = "dir" /\ d.nlink[i] > 0 /\ i \notin g

(* The entry e of directory i under name n *)
EntryOK(d, g, i, n, e) ==
  /\ e \in Inums /\ e # Root /\ e # i /\ d.nlink[e] > 0
  /\ d.type[e] = "dir" => /\ LiveIn(d, g, e) /\ d.up[e] = i
                          /\ \A m \in Names : d.ent[i][m] = e => m = n

(* A directory in use *)
DirOK(d, g, i) ==
  /\ LiveIn(d, g, d.up[i])
  /\ i # Root => d.up[i] # i /\ \E n \in Names : d.ent[d.up[i]][n] = i
  /\ \A n \in Names : d.ent[i][n] # Null => EntryOK(d, g, i, n, d.ent[i][n])

NodeOK(d, g, i) ==
  /\ d.nlink[i] >= 0
  /\ d.type[i] = "free" => d.nlink[i] = 0
  /\ d.type[i] # "dir" => d.up[i] = Null
  /\ ~LiveIn(d, g, i) => d.ent[i] = EmptyDir
  /\ LiveIn(d, g, i) => DirOK(d, g, i)

(* There is no circle of directories: among any of those in use there is   *)
(* one with no subdirectory there, and one whose parent is not there.      *)
Grounded(d, g) ==
  \A T \in SUBSET Inums :
    T # {} /\ (\A x \in T : LiveIn(d, g, x)) =>
      /\ \E x \in T : \A y \in T : d.up[y] = x => y = Root
      /\ \E x \in T : x = Root \/ d.up[x] \notin T

TreeOK(d, g) ==
  /\ LiveIn(d, g, Root) /\ d.up[Root] = Root
  /\ \A i \in Inums : NodeOK(d, g, i)
  /\ Grounded(d, g)

(* The entries that name i, and its subdirectories with itself if it is the root *)
NamesOf(d, g, i) == {x \in Inums \X Names : LiveIn(d, g, x[1]) /\ d.ent[x[1]][x[2]] = i}
SubsOf(d, g, i) == {j \in Inums : LiveIn(d, g, j) /\ d.up[j] = i}

LinksOK(d, g, ex) ==
  \A i \in Inums :
    d.nlink[i] = Cardinality(NamesOf(d, g, i)) + Cardinality(SubsOf(d, g, i)) + B(i \in g) + Cardinality(ex[i])

Gone == {i \in Inums : \E p \in Procs : pc[p] = "unlinked" /\ loc[p].ip = i}
Linking == [i \in Inums |-> {p \in Procs : loc[p].old = i}]
NoLinking == [i \in Inums |-> {}]

DiskInv == TreeOK(disk, Gone) /\ LinksOK(disk, Gone, Linking)
StableInv == TreeOK(stable, {}) /\ LinksOK(stable, {}, NoLinking)

Live(i) == LiveIn(disk, Gone, i)
Used(i) == disk.type[i] # "free"
Sound(i) == Used(i) /\ (disk.type[i] = "dir" => Live(i))

(* Directories in use form no circle, on the disk as the calls see it and  *)
(* on the one that a crash leaves.                                         *)
NoLoops == Grounded(disk, Gone) /\ Grounded(stable, {})

-----------------------------------------------------------------------------
(* What processes point to and have locked *)

Listed(s, i) == \E k \in DOMAIN s : s[k].inum = i
HeldIn(s, i) == \E k \in DOMAIN s : s[k].inum = i /\ s[k].held

(* What is to be put, without the inode that has just been freed *)
Due(p) == IF freeing[p] = "freed" THEN Tail(puts[p]) ELSE puts[p]
Frees(p, i) == freeing[p] = "freeing" /\ Head(puts[p]).inum = i
Freeds(p, i) == freeing[p] = "freed" /\ Head(puts[p]).inum = i

Names_it(p, i) ==
  cwd[p] = i \/ fd[p] = i \/ loc[p].cur = i \/ loc[p].old = i \/ (loc[p].ip = i /\ pc[p] # "iget")

Points(p, i) == Names_it(p, i) \/ Listed(Due(p), i)
Holds(p, i) == Points(p, i) \/ Freeds(p, i)

Alone(p, i) == \A q \in Procs : q # p => ~Holds(q, i)

(* An inode that p has allocated and nobody else knows of *)
Fresh(p, i) ==
  /\ disk.type[i] = Type(loc[p].call) /\ disk.nlink[i] = 0
  /\ cwd[p] # i /\ fd[p] # i /\ loc[p].cur # i /\ loc[p].old # i
  /\ \A q \in Procs : q # p => ~Points(q, i) /\ (pc[q] = "iget" => loc[q].ip # i)

FirmOK(p) ==
  /\ Live(cwd[p])
  /\ fd[p] # Null => Used(fd[p])
  /\ loc[p].cur # Null => Sound(loc[p].cur)
  /\ loc[p].old # Null => disk.type[loc[p].old] = "file"

AtOK(p) ==
  LET l == loc[p] IN
  /\ pc[p] \in {"ialloc", "iget", "init", "unlink"} =>
       Live(l.cur) /\ core[l.cur].valid /\ lock[l.cur] = p /\ l.rest[1] \in Names
  /\ pc[p] \in {"ialloc", "iget", "init"} => disk.ent[l.cur][l.rest[1]] = Null
  /\ pc[p] = "unlink" => disk.ent[l.cur][l.rest[1]] = l.ip
  /\ pc[p] \in {"iget", "init"} => Fresh(p, l.ip)
  /\ pc[p] = "exists" => Sound(l.ip)
  /\ pc[p] \in {"created", "unlinked"} =>
       core[l.ip].valid /\ Used(l.ip) /\ lock[l.ip] = p /\ ~Listed(puts[p], l.ip)
  /\ pc[p] \in {"up", "scan"} => Live(l.cur)
  /\ pc[p] = "scan" => Live(l.ip)
  /\ pc[p] = "parent" => disk.type[l.cur] = "dir"

DueOK(p) ==
  /\ \A i \in Inums : Listed(Due(p), i) => Used(i)
  /\ \A i \in Inums : HeldIn(Due(p), i) => lock[i] = p
  /\ p \notin tx => \A i \in Inums : Listed(puts[p], i) => Live(i)
  /\ puts[p] # <<>> /\ Head(puts[p]).held => ~HeldIn(Tail(puts[p]), Head(puts[p]).inum)

FreeOK(p) ==
  LET i == Head(puts[p]).inum IN
  /\ freeing[p] # "no" => p \in tx
  /\ freeing[p] = "freeing" =>
       /\ lock[i] = p /\ disk.nlink[i] = 0 /\ core[i].valid /\ Alone(p, i)
       /\ ~Names_it(p, i) /\ ~Listed(Tail(puts[p]), i)
  /\ freeing[p] = "freed" => ~Used(i) \/ i \in overtaken

ProcOK(p) ==
  /\ p \in tx <=> pc[p] \notin {"user", "up", "scan"}
  /\ FirmOK(p) /\ AtOK(p) /\ DueOK(p) /\ FreeOK(p)

(* Valid copies, and inodes without links that are not lost *)
CopyOK(i) ==
  core[i].valid => /\ core[i].type = disk.type[i] /\ core[i].nlink = disk.nlink[i]
                   /\ Used(i) /\ iref[i] > 0
LostOK(i) ==
  Used(i) /\ disk.nlink[i] = 0 /\ i \notin overtaken /\ i \notin boot
    => core[i].valid \/ \E p \in Procs : pc[p] \in {"iget", "init"} /\ loc[p].ip = i

InodeOK(i) == CopyOK(i) /\ LostOK(i)

BootInv ==
  boot # {} =>
    /\ stable = disk
    /\ \A i \in boot : Used(i) /\ disk.nlink[i] = 0
    /\ \A i \in Inums : ~core[i].valid
    /\ \A p \in Procs :
         /\ cwd[p] = Root /\ fd[p] = Null /\ pc[p] = "user" /\ puts[p] = <<>> /\ freeing[p] = "no"

(* The invariant of the file system *)
TreeInv ==
  /\ BaseInv /\ DiskInv /\ StableInv
  /\ \A p \in Procs : ProcOK(p)
  /\ \A i \in Inums : InodeOK(i)
  /\ BootInv /\ ~panicked

-----------------------------------------------------------------------------
(* Locks: a sleep lock is held only where the code is about to use it or   *)
(* to release it, so that nobody waits for a lock that is forgotten.       *)

Locking == {"ialloc", "iget", "init", "unlink"}
Finishing == {"created", "unlinked"}

(* The places where p has inode i locked *)
HasLock(p, i) ==
  \/ HeldIn(Due(p), i)
  \/ Frees(p, i)
  \/ pc[p] \in Locking /\ loc[p].cur = i
  \/ pc[p] \in Finishing /\ loc[p].ip = i

LocksHeld == \A i \in Inums, p \in Procs : lock[i] = p => HasLock(p, i)

-----------------------------------------------------------------------------
(* What a step of p may do to others *)

(* The variables of q stay as they are. *)
Same(q) ==
  /\ cwd'[q] = cwd[q] /\ fd'[q] = fd[q] /\ pc'[q] = pc[q] /\ loc'[q] = loc[q]
  /\ puts'[q] = puts[q] /\ freeing'[q] = freeing[q]

(* What others have locked is left alone. *)
KeepsLocked(p) ==
  \A i \in Inums : lock[i] \notin {p, NoProc} =>
    lock'[i] = lock[i] /\ disk'.ent[i] = disk.ent[i] /\ disk'.nlink[i] = disk.nlink[i]

(* Inodes that others hold stay valid and in the tree. *)
KeepsHeld(p) ==
  \A i \in Inums : ~Alone(p, i) => (core[i].valid => core'[i].valid) /\ (Live(i) => Live(i)')

KeepsTypes(p) ==
  \A i \in Inums : Used(i) => disk'.type[i] = disk.type[i] \/ Frees(p, i)

(* No reference to an inode without links comes out of nothing. *)
NoNewHolds(p) ==
  \A i \in Inums :
    /\ Points(p, i)' => Points(p, i) \/ disk.nlink[i] > 0 \/ (pc[p] = "iget" /\ loc[p].ip = i)
    /\ Freeds(p, i)' => Holds(p, i)
    /\ pc'[p] = "iget" /\ loc'[p].ip = i => (pc[p] = "iget" /\ loc[p].ip = i) \/ ~Used(i)

KeepsUnlinked(p) ==
  \A i \in Inums : disk.nlink[i] = 0 => disk'.nlink[i] = 0 \/ Points(p, i)

KeepsFreed(p) ==
  \A i \in Inums : ~Used(i) \/ i \in overtaken =>
    disk'.type[i] = "free" \/ i \in overtaken' \/ \A q \in Procs : q # p => ~Freeds(q, i)

Rely(p) ==
  /\ KeepsLocked(p) /\ KeepsHeld(p) /\ KeepsTypes(p) /\ NoNewHolds(p) /\ KeepsUnlinked(p) /\ KeepsFreed(p)
  /\ \A q \in Procs : q # p => Same(q) /\ (q \in tx' <=> q \in tx)

-----------------------------------------------------------------------------
(* Steps that leave the disk alone *)

(* What a step does to locks, to copies and counts of references *)
LockStep(p) == \A i \in Inums : lock'[i] = lock[i] \/ lock[i] \in {p, NoProc}

CoreStep(p) ==
  \A i \in Inums :
    \/ core'[i] = core[i] /\ (iref'[i] >= iref[i] \/ (iref[i] > 1 /\ iref'[i] = iref[i] - 1))
    \/ core'[i] = Loaded(i) /\ Points(p, i) /\ Used(i) /\ iref'[i] >= iref[i]
    \/ /\ core'[i] = Unloaded /\ iref[i] = 1 /\ Holds(p, i)
       /\ disk.nlink[i] > 0 \/ ~core[i].valid \/ i \in overtaken \/ ~Used(i)

(* An inode that has been allocated stays marked until there is a copy. *)
Marks(p) ==
  pc[p] \in {"iget", "init"} =>
    (pc'[p] \in {"iget", "init"} /\ loc'[p].ip = loc[p].ip) \/ core'[loc[p].ip].valid

(* What unlink() and link() have under way *)
Still(p) ==
  /\ loc'[p].old = loc[p].old /\ (pc'[p] = "unlinked" <=> pc[p] = "unlinked")
  /\ pc[p] = "unlinked" => loc'[p].ip = loc[p].ip

Frame ==
  disk' = disk /\ (stable' = stable \/ StableInv') /\ boot = {} /\ boot' = boot /\ overtaken' = overtaken

OthersSame(p) == \A q \in Procs : q # p => Same(q) /\ (q \in tx' <=> q \in tx)
=============================================================================
