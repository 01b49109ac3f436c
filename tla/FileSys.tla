------------------------------ MODULE FileSys ------------------------------
(***************************************************************************)
(* Inodes, directories and the system calls on paths: kernel/fs.c,         *)
(* kernel/sysfile.c and sys_getcwd() of kernel/syscall.c, on a disk whose  *)
(* transactions are those of module AtomicDisk.                            *)
(*                                                                         *)
(* A step is the part of a call that holds the sleep lock of an inode, up  *)
(* to and including its last access to data that the lock does not protect *)
(* (the inode table, the allocation of an inode), or one critical section  *)
(* of iput().  File contents are left out (see FileData), and so is the    *)
(* sharing of open files (see Pipe): a process has one descriptor.         *)
(***************************************************************************)
EXTENDS Integers, Sequences, FiniteSets, Updates

CONSTANTS
  Procs,
  Inums,      \* inode numbers
  Root,       \* ROOTINO
  Names,      \* names in directories, without "." and ".."
  Workloads,  \* sets of calls with paths: what programs may do with the disk
  NoProc,     \* nobody
  Null,       \* inode number 0
  RemoveBusy  \* whether a directory may be removed while others are using it

Calls == {"open", "chdir", "link", "creat", "mkdir", "unlink"}

(* Whether a path begins with "/", and its elements *)
Paths == [abs : BOOLEAN, elems : Seq(Names \cup {".."})]

ASSUME FsAssumption ==
  /\ IsFiniteSet(Procs) /\ IsFiniteSet(Inums) /\ IsFiniteSet(Names)
  /\ Root \in Inums /\ Null \notin Inums /\ NoProc \notin Procs
  /\ ".." \notin Names
  /\ \A w \in Workloads : \A r \in w :
       r.call \in Calls /\ r.path \in Paths /\ (r.call = "link" => r.new \in Paths)
  /\ RemoveBusy \in BOOLEAN

VARIABLES
  workload, \* the calls of this run
  disk,     \* inodes and directories, as operations see them
  stable,   \* the same as of the last commit: what a crash leaves
  tx,       \* the processes between begin_op() and end_op()
  iref,     \* ip->ref of the table entry of an inode, 0 when there is none
  core,     \* ip->valid, ip->type, ip->nlink
  lock,     \* who holds ip->lock
  cwd,      \* p->cwd
  fd,       \* the inode of p's open file
  pc,       \* the place in the call
  loc,      \* its local variables
  puts,     \* inodes that p is to iput() before it goes on at pc
  freeing,  \* whether p is in the middle of an iput(): "no", "freeing", "freed"
  boot,     \* the inodes that ireclaim() has still to look at
  panicked, \* the panics of ilock(), sys_unlink() and log_write()
  overtaken \* history: inodes allocated again before the iput() that freed
            \* them gave up its reference

table == <<iref, core, lock>>
local == <<pc, loc, puts, freeing>>
aside == <<workload, overtaken>>
fsVars == <<workload, disk, stable, tx, table, cwd, fd, local, boot, panicked, overtaken>>

EmptyDir == [n \in Names |-> Null]
Unloaded == [valid |-> FALSE, type |-> "free", nlink |-> 0]

(* cur: ip or dp of namex() and of its caller; ip: the inode of the last   *)
(* path element; rest: the path elements not yet looked up; old: sys_link's *)
(* ip.                                                                     *)
NoLocals == [call |-> "none", rest |-> <<>>, new |-> <<>>,
             cur |-> Null, ip |-> Null, old |-> Null]

(* mkfs leaves an empty root directory. *)
EmptyDisk ==
  [type |-> [i \in Inums |-> IF i = Root THEN "dir" ELSE "free"],
   nlink |-> [i \in Inums |-> IF i = Root THEN 1 ELSE 0],
   ent |-> [i \in Inums |-> EmptyDir],
   up |-> [i \in Inums |-> IF i = Root THEN Root ELSE Null]]

FsInit ==
  /\ workload \in Workloads
  /\ disk = EmptyDisk
  /\ stable = EmptyDisk
  /\ tx = {}
  /\ iref = [i \in Inums |-> IF i = Root THEN Cardinality(Procs) ELSE 0]
  /\ core = [i \in Inums |-> Unloaded]
  /\ lock = [i \in Inums |-> NoProc]
  /\ cwd = [p \in Procs |-> Root]
  /\ fd = [p \in Procs |-> Null]
  /\ pc = [p \in Procs |-> "user"]
  /\ loc = [p \in Procs |-> NoLocals]
  /\ puts = [p \in Procs |-> <<>>]
  /\ freeing = [p \in Procs |-> "no"]
  /\ boot = {}
  /\ panicked = FALSE
  /\ overtaken = {}

-----------------------------------------------------------------------------
(* Pieces of steps *)

At(p, l) == pc[p] = l /\ puts[p] = <<>> /\ boot = {}

Goto(p, l) == pc' = Put(pc, p, l)

Locals(p, upd) ==
  loc' = Put(loc, p, [f \in DOMAIN NoLocals |->
                        IF f \in DOMAIN upd THEN upd[f] ELSE loc[p][f]])

iget(i) == iref' = Put(iref, i, iref[i] + 1)

(* ilock() reads the inode unless a valid copy is there. *)
Loaded(i) ==
  IF core[i].valid THEN core[i]
  ELSE [valid |-> TRUE, type |-> disk.type[i], nlink |-> disk.nlink[i]]

NoType(i) == Loaded(i).type = "free"
CanLock(i) == lock[i] = NoProc

(* ilock() by a process that unlocks the inode in the same step, or sets   *)
(* lock' itself.                                                           *)
ilock(i) ==
  /\ CanLock(i)
  /\ core' = Put(core, i, Loaded(i))
  /\ panicked' = (panicked \/ NoType(i))

(* ip->nlink = n and iupdate() *)
SetLinks(d, i, n) == [d EXCEPT !.nlink[i] = n]

dirlookup(i, name) == IF name = ".." THEN disk.up[i] ELSE disk.ent[i][name]

isdirempty(i) == disk.ent[i] = EmptyDir

(* An inode to iput(), with its lock to be released before or not. *)
ToPut(i) == [inum |-> i, held |-> FALSE]
ToUnlockPut(i) == [inum |-> i, held |-> TRUE]

ThenPut(p, s) == puts' = Put(puts, p, s)

(* The end of a call, after the references in s are dropped. *)
Leave(p, s) ==
  /\ ThenPut(p, s)
  /\ Goto(p, "end")
  /\ loc' = Put(loc, p, NoLocals)

-----------------------------------------------------------------------------
(* iput() *)

(* A plausible bug: open files are not counted. *)
LastRefEver(i) == core[i].valid /\ core[i].nlink = 0

LastRef(i) == iref[i] = 1 /\ core[i].valid /\ core[i].nlink = 0

Dropped(i) ==
  /\ iref' = Put(iref, i, iref[i] - 1)
  /\ core' = IF iref[i] = 1 THEN Put(core, i, Unloaded) ELSE core

Unlocked(x) == IF x.held THEN Put(lock, x.inum, NoProc) ELSE lock

Pops(p) == puts' = Put(puts, p, Tail(puts[p]))

(* The reference is not the last one, or the inode has links. *)
PutRef(p) ==
  /\ puts[p] # <<>> /\ freeing[p] = "no"
  /\ LET x == Head(puts[p]) IN
     /\ ~LastRef(x.inum)
     /\ lock' = Unlocked(x)
     /\ Dropped(x.inum)
  /\ Pops(p)
  /\ UNCHANGED <<disk, stable, tx, cwd, fd, pc, loc, freeing, boot, panicked, aside>>

(* It is: the lock is taken and itable.lock released. *)
PutLast(p) ==
  /\ puts[p] # <<>> /\ freeing[p] = "no"
  /\ LET x == Head(puts[p]) IN
     /\ LastRef(x.inum)
     /\ Unlocked(x)[x.inum] = NoProc
     /\ lock' = Put(lock, x.inum, p)
  /\ freeing' = Put(freeing, p, "freeing")
  /\ UNCHANGED <<disk, stable, tx, iref, core, cwd, fd, pc, loc, puts, boot, panicked, aside>>

Freed(d, i) ==
  [d EXCEPT !.type[i] = "free", !.ent[i] = EmptyDir, !.up[i] = Null]

(* A plausible bug: the copy in memory stays valid. *)
PutFreeValid(p) ==
  LET i == Head(puts[p]).inum IN
  /\ puts[p] # <<>> /\ freeing[p] = "freeing"
  /\ disk' = Freed(disk, i)
  /\ core' = Put(core, i, [core[i] EXCEPT !.type = "free"])
  /\ lock' = Put(lock, i, NoProc)
  /\ freeing' = Put(freeing, p, "freed")
  /\ overtaken' = overtaken \ {i}
  /\ panicked' = (panicked \/ tx = {})
  /\ UNCHANGED <<stable, tx, iref, cwd, fd, pc, loc, puts, boot, workload>>

(* itrunc(), type 0, iupdate(), valid 0.  log_write() wants a transaction. *)
PutFree(p) ==
  LET i == Head(puts[p]).inum IN
  /\ puts[p] # <<>> /\ freeing[p] = "freeing"
  /\ disk' = Freed(disk, i)
  /\ core' = Put(core, i, Unloaded)
  /\ lock' = Put(lock, i, NoProc)
  /\ freeing' = Put(freeing, p, "freed")
  /\ overtaken' = overtaken \ {i}
  /\ panicked' = (panicked \/ tx = {})
  /\ UNCHANGED <<stable, tx, iref, cwd, fd, pc, loc, puts, boot, workload>>

PutFreed(p) ==
  /\ freeing[p] = "freed"
  /\ Dropped(Head(puts[p]).inum)
  /\ freeing' = Put(freeing, p, "no")
  /\ Pops(p)
  /\ UNCHANGED <<disk, stable, tx, lock, cwd, fd, pc, loc, boot, panicked, aside>>

-----------------------------------------------------------------------------
(* begin_op() and end_op(); the last to end commits. *)

Start(p, path) == IF path.abs THEN Root ELSE cwd[p]

(* A call with its path r.path and, of link(), the other path r.new *)
Enter(p, r) ==
  /\ At(p, "user")
  /\ tx' = tx \cup {p}
  /\ Locals(p, [call |-> r.call, rest |-> r.path.elems, cur |-> Start(p, r.path),
                new |-> IF r.call = "link" THEN <<r.new>> ELSE <<>>])
  /\ iget(Start(p, r.path))
  /\ Goto(p, "walk")
  /\ UNCHANGED <<disk, stable, core, lock, cwd, fd, puts, freeing, boot, panicked, aside>>

End(p) ==
  /\ At(p, "end")
  /\ tx' = tx \ {p}
  /\ stable' = IF tx \ {p} = {} THEN disk ELSE stable
  /\ Goto(p, "user")
  /\ UNCHANGED <<disk, table, cwd, fd, loc, puts, freeing, boot, panicked, aside>>

(* sys_close(), of the last descriptor of the file *)
Close(p) ==
  /\ At(p, "user") /\ fd[p] # Null
  /\ fd' = Put(fd, p, Null)
  /\ tx' = tx \cup {p}
  /\ Leave(p, <<ToPut(fd[p])>>)
  /\ UNCHANGED <<disk, stable, table, cwd, freeing, boot, panicked, aside>>

-----------------------------------------------------------------------------
(* namex() *)

WantsParent(p) ==
  \/ loc[p].call \in {"creat", "mkdir", "unlink"}
  \/ loc[p].call = "link" /\ loc[p].old # Null

(* The path cannot be followed; sys_link() has then to undo something. *)
NotFound(p) ==
  IF loc[p].old = Null THEN Leave(p, <<ToPut(loc[p].cur)>>)
  ELSE /\ ThenPut(p, <<ToPut(loc[p].cur)>>)
       /\ Locals(p, [cur |-> Null])
       /\ Goto(p, "undo_link")

Walk(p) ==
  LET i == loc[p].cur  rest == loc[p].rest IN
  /\ At(p, "walk") /\ rest # <<>>
  /\ ~(WantsParent(p) /\ Len(rest) = 1)
  /\ ilock(i)
  /\ LET next == dirlookup(i, rest[1]) IN
     IF Loaded(i).type # "dir" \/ next = Null
       THEN NotFound(p) /\ UNCHANGED iref
       ELSE /\ iget(next)
            /\ ThenPut(p, <<ToPut(i)>>)
            /\ Locals(p, [cur |-> next, rest |-> Tail(rest)])
            /\ UNCHANGED pc
  /\ UNCHANGED <<disk, stable, tx, lock, cwd, fd, freeing, boot, aside>>

(* nameiparent() stops one level early; a path without elements has none. *)
WalkParent(p) ==
  LET i == loc[p].cur  rest == loc[p].rest IN
  /\ At(p, "walk") /\ WantsParent(p)
  /\ \/ rest = <<>> /\ NotFound(p) /\ UNCHANGED <<core, panicked>>
     \/ /\ Len(rest) = 1 /\ ilock(i)
        /\ IF Loaded(i).type # "dir" THEN NotFound(p)
           ELSE Goto(p, "parent") /\ UNCHANGED <<loc, puts>>
  /\ UNCHANGED <<disk, stable, tx, iref, lock, cwd, fd, freeing, boot, aside>>

Found(p, c) == At(p, "walk") /\ loc[p].rest = <<>> /\ loc[p].call = c /\ ~WantsParent(p)
FoundParent(p, C) == At(p, "parent") /\ loc[p].call \in C

-----------------------------------------------------------------------------
(* sys_open() without O_CREATE; the table of open files may be full. *)
Open(p) ==
  LET i == loc[p].cur IN
  /\ Found(p, "open") /\ ilock(i)
  /\ \/ fd[p] = Null /\ fd' = Put(fd, p, i) /\ Leave(p, <<>>)
     \/ fd[p] # Null /\ UNCHANGED fd /\ Leave(p, <<ToPut(i)>>)
  /\ UNCHANGED <<disk, stable, tx, iref, lock, cwd, freeing, boot, aside>>

(* A plausible bug: the reference to the old directory is kept. *)
ChdirKeeps(p) ==
  LET i == loc[p].cur IN
  /\ Found(p, "chdir") /\ ilock(i)
  /\ IF Loaded(i).type = "dir"
       THEN cwd' = Put(cwd, p, i) /\ Leave(p, <<>>)
       ELSE UNCHANGED cwd /\ Leave(p, <<ToPut(i)>>)
  /\ UNCHANGED <<disk, stable, tx, iref, lock, fd, freeing, boot, aside>>

(* sys_chdir().  p->cwd is set after end_op(), which no one else can tell. *)
Chdir(p) ==
  LET i == loc[p].cur IN
  /\ Found(p, "chdir") /\ ilock(i)
  /\ IF Loaded(i).type = "dir"
       THEN cwd' = Put(cwd, p, i) /\ Leave(p, <<ToPut(cwd[p])>>)
       ELSE UNCHANGED cwd /\ Leave(p, <<ToPut(i)>>)
  /\ UNCHANGED <<disk, stable, tx, iref, lock, fd, freeing, boot, aside>>

-----------------------------------------------------------------------------
(* create(), for sys_open() with O_CREATE and sys_mkdir() *)

CreateLookup(p) ==
  LET d == loc[p].cur  next == dirlookup(d, loc[p].rest[1]) IN
  /\ FoundParent(p, {"creat", "mkdir"}) /\ ilock(d)
  /\ lock' = IF next = Null THEN Put(lock, d, p) ELSE lock
  /\ IF next = Null
       THEN Goto(p, "ialloc") /\ UNCHANGED <<iref, loc, puts>>
       ELSE /\ iget(next)
            /\ ThenPut(p, <<ToPut(d)>>)
            /\ Locals(p, [cur |-> Null, ip |-> next])
            /\ Goto(p, "exists")
  /\ UNCHANGED <<disk, stable, tx, cwd, fd, freeing, boot, aside>>

(* What open() does with the locked inode that create() returns. *)
Opened(p, i) ==
  \/ fd[p] = Null /\ fd' = Put(fd, p, i) /\ Leave(p, <<>>)
  \/ fd[p] # Null /\ UNCHANGED fd /\ Leave(p, <<ToPut(i)>>)

CreateExists(p) ==
  LET i == loc[p].ip IN
  /\ At(p, "exists") /\ ilock(i)
  /\ IF loc[p].call = "creat" /\ Loaded(i).type = "file"
       THEN Opened(p, i)
       ELSE UNCHANGED fd /\ Leave(p, <<ToPut(i)>>)
  /\ UNCHANGED <<disk, stable, tx, iref, lock, cwd, freeing, boot, aside>>

Type(c) == IF c = "mkdir" THEN "dir" ELSE "file"

(* ialloc() marks the inode and then calls iget(), which may find an entry *)
(* that the process that freed the inode has not yet given up.             *)
Ialloc(p) ==
  /\ At(p, "ialloc")
  /\ \E i \in Inums :
       /\ disk.type[i] = "free"
       /\ disk' = [disk EXCEPT !.type[i] = Type(loc[p].call), !.nlink[i] = 0]
       /\ overtaken' = IF \E q \in Procs : puts[q] # <<>> /\ Head(puts[q]).inum = i /\ freeing[q] = "freed"
                       THEN overtaken \cup {i} ELSE overtaken
       /\ Locals(p, [ip |-> i])
       /\ Goto(p, "iget")
  /\ UNCHANGED <<stable, tx, table, cwd, fd, puts, freeing, boot, panicked, workload>>

IallocFails(p) ==
  /\ At(p, "ialloc")
  /\ \A i \in Inums : disk.type[i] # "free"
  /\ Leave(p, <<ToUnlockPut(loc[p].cur)>>)
  /\ UNCHANGED <<disk, stable, tx, table, cwd, fd, freeing, boot, panicked, aside>>

IallocGet(p) ==
  /\ At(p, "iget")
  /\ iget(loc[p].ip)
  /\ Goto(p, "init")
  /\ UNCHANGED <<disk, stable, tx, core, lock, cwd, fd, loc, puts, freeing, boot, panicked, aside>>

(* The entries "." and ".." of a new directory and the entry in dp. *)
Linked(p) ==
  LET d == loc[p].cur  i == loc[p].ip  c == loc[p].call IN
  [disk EXCEPT !.nlink[i] = 1,
               !.up[i] = IF c = "mkdir" THEN d ELSE Null,
               !.ent[d][loc[p].rest[1]] = i,
               !.nlink[d] = IF c = "mkdir" THEN @ + 1 ELSE @]

CreateLink(p) ==
  LET d == loc[p].cur  i == loc[p].ip IN
  /\ At(p, "init") /\ CanLock(i)
  /\ disk' = Linked(p)
  /\ core' = [core EXCEPT ![i] = [Loaded(i) EXCEPT !.nlink = 1],
                          ![d].nlink = disk'.nlink[d]]
  /\ panicked' = (panicked \/ NoType(i))
  /\ lock' = Put(lock, i, p)
  /\ ThenPut(p, <<ToUnlockPut(d)>>)
  /\ Locals(p, [cur |-> Null])
  /\ Goto(p, "created")
  /\ UNCHANGED <<stable, tx, iref, cwd, fd, freeing, boot, aside>>

(* The disk is full: dirlink() fails and create() takes the inode back. *)
CreateFails(p) ==
  LET d == loc[p].cur  i == loc[p].ip IN
  /\ At(p, "init") /\ ilock(i)
  /\ lock' = Put(lock, i, p)
  /\ Leave(p, <<ToUnlockPut(i), ToUnlockPut(d)>>)
  /\ UNCHANGED <<disk, stable, tx, iref, cwd, fd, freeing, boot, aside>>

Created(p) ==
  LET i == loc[p].ip IN
  /\ At(p, "created")
  /\ lock' = Put(lock, i, NoProc)
  /\ IF loc[p].call = "creat" THEN Opened(p, i)
     ELSE UNCHANGED fd /\ Leave(p, <<ToPut(i)>>)
  /\ UNCHANGED <<disk, stable, tx, iref, core, cwd, freeing, boot, panicked, aside>>

-----------------------------------------------------------------------------
(* sys_unlink() *)

(* A plausible bug: the name ".." is not refused. *)
UnlinkLookupDotDot(p) ==
  LET d == loc[p].cur  next == dirlookup(d, loc[p].rest[1]) IN
  /\ FoundParent(p, {"unlink"}) /\ ilock(d)
  /\ IF next = Null
       THEN Leave(p, <<ToPut(d)>>) /\ UNCHANGED <<iref, lock>>
       ELSE /\ iget(next)
            /\ lock' = Put(lock, d, p)
            /\ Locals(p, [ip |-> next])
            /\ Goto(p, "unlink")
            /\ UNCHANGED puts
  /\ UNCHANGED <<disk, stable, tx, cwd, fd, freeing, boot, aside>>

UnlinkLookup(p) ==
  LET d == loc[p].cur  next == dirlookup(d, loc[p].rest[1]) IN
  /\ FoundParent(p, {"unlink"}) /\ ilock(d)
  /\ IF loc[p].rest[1] = ".." \/ next = Null
       THEN Leave(p, <<ToPut(d)>>) /\ UNCHANGED <<iref, lock>>
       ELSE /\ iget(next)
            /\ lock' = Put(lock, d, p)
            /\ Locals(p, [ip |-> next])
            /\ Goto(p, "unlink")
            /\ UNCHANGED puts
  /\ UNCHANGED <<disk, stable, tx, cwd, fd, freeing, boot, aside>>

UnlinkRefused(p) ==
  LET d == loc[p].cur  i == loc[p].ip IN
  /\ At(p, "unlink") /\ CanLock(i)
  /\ Loaded(i).type = "dir" /\ ~isdirempty(i)
  /\ core' = Put(core, i, Loaded(i))
  /\ panicked' = (panicked \/ NoType(i) \/ Loaded(i).nlink = 0)
  /\ Leave(p, <<ToPut(i), ToUnlockPut(d)>>)
  /\ UNCHANGED <<disk, stable, tx, iref, lock, cwd, fd, freeing, boot, aside>>

(* A directory that somebody has as working directory, or is looking at. *)
Busy(i) == iref[i] > 1

(* A plausible bug: the link of ".." is not given back. *)
UnlinkKeepsDotDot(p) ==
  LET d == loc[p].cur  i == loc[p].ip IN
  /\ At(p, "unlink") /\ CanLock(i)
  /\ Loaded(i).type = "dir" => isdirempty(i) /\ (Busy(i) => RemoveBusy)
  /\ disk' = [disk EXCEPT !.ent[d][loc[p].rest[1]] = Null]
  /\ core' = Put(core, i, Loaded(i))
  /\ panicked' = (panicked \/ NoType(i) \/ Loaded(i).nlink = 0)
  /\ lock' = Put(lock, i, p)
  /\ ThenPut(p, <<ToUnlockPut(d)>>)
  /\ Locals(p, [cur |-> Null])
  /\ Goto(p, "unlinked")
  /\ UNCHANGED <<stable, tx, iref, cwd, fd, freeing, boot, aside>>

(* The entry is erased, with the link of ".." of a directory. *)
Unlink(p) ==
  LET d == loc[p].cur  i == loc[p].ip
      n == IF Loaded(i).type = "dir" THEN core[d].nlink - 1 ELSE core[d].nlink IN
  /\ At(p, "unlink") /\ CanLock(i)
  /\ Loaded(i).type = "dir" => isdirempty(i) /\ (Busy(i) => RemoveBusy)
  /\ disk' = [SetLinks(disk, d, n) EXCEPT !.ent[d][loc[p].rest[1]] = Null]
  /\ core' = [core EXCEPT ![i] = Loaded(i), ![d].nlink = n]
  /\ panicked' = (panicked \/ NoType(i) \/ Loaded(i).nlink = 0)
  /\ lock' = Put(lock, i, p)
  /\ ThenPut(p, <<ToUnlockPut(d)>>)
  /\ Locals(p, [cur |-> Null])
  /\ Goto(p, "unlinked")
  /\ UNCHANGED <<stable, tx, iref, cwd, fd, freeing, boot, aside>>

Unlinked(p) ==
  LET i == loc[p].ip  n == core[i].nlink - 1 IN
  /\ At(p, "unlinked")
  /\ disk' = SetLinks(disk, i, n)
  /\ core' = [core EXCEPT ![i].nlink = n]
  /\ Leave(p, <<ToUnlockPut(i)>>)
  /\ UNCHANGED <<stable, tx, iref, lock, cwd, fd, freeing, boot, panicked, aside>>

-----------------------------------------------------------------------------
(* sys_link(): the count is raised before the new name is there. *)

(* A plausible bug: the file stays locked. *)
LinkOldLocked(p) ==
  LET i == loc[p].cur  n == Loaded(i).nlink + 1  new == loc[p].new[1] IN
  /\ Found(p, "link") /\ CanLock(i)
  /\ panicked' = (panicked \/ NoType(i))
  /\ disk' = SetLinks(disk, i, n)
  /\ core' = Put(core, i, [Loaded(i) EXCEPT !.nlink = n])
  /\ lock' = Put(lock, i, p)
  /\ iget(Start(p, new))
  /\ Locals(p, [old |-> i, cur |-> Start(p, new), rest |-> new.elems])
  /\ UNCHANGED <<stable, tx, cwd, fd, freeing, boot, puts, pc, aside>>

LinkOld(p) ==
  LET i == loc[p].cur  n == Loaded(i).nlink + 1  new == loc[p].new[1] IN
  /\ Found(p, "link") /\ CanLock(i)
  /\ panicked' = (panicked \/ NoType(i))
  /\ IF Loaded(i).type = "dir"
       THEN /\ core' = Put(core, i, Loaded(i))
            /\ Leave(p, <<ToPut(i)>>)
            /\ UNCHANGED <<disk, iref>>
       ELSE /\ disk' = SetLinks(disk, i, n)
            /\ core' = Put(core, i, [Loaded(i) EXCEPT !.nlink = n])
            /\ iget(Start(p, new))
            /\ Locals(p, [old |-> i, cur |-> Start(p, new), rest |-> new.elems])
            /\ UNCHANGED <<puts, pc>>
  /\ UNCHANGED <<stable, tx, lock, cwd, fd, freeing, boot, aside>>

LinkNew(p) ==
  LET d == loc[p].cur  name == loc[p].rest[1]  i == loc[p].old IN
  /\ FoundParent(p, {"link"}) /\ ilock(d)
  /\ dirlookup(d, name) = Null
  /\ disk' = [disk EXCEPT !.ent[d][name] = i]
  /\ Leave(p, <<ToPut(d), ToPut(i)>>)
  /\ UNCHANGED <<stable, tx, iref, lock, cwd, fd, freeing, boot, aside>>

(* The name exists, or the disk is full. *)
LinkFails(p) ==
  LET d == loc[p].cur  next == dirlookup(d, loc[p].rest[1]) IN
  /\ FoundParent(p, {"link"}) /\ ilock(d)
  /\ IF next = Null
       THEN ThenPut(p, <<ToPut(d)>>) /\ UNCHANGED <<iref, lock>>
       ELSE /\ iget(next)
            /\ lock' = Put(lock, d, p)
            /\ ThenPut(p, <<ToPut(next), ToUnlockPut(d)>>)
  /\ Locals(p, [cur |-> Null])
  /\ Goto(p, "undo_link")
  /\ UNCHANGED <<disk, stable, tx, cwd, fd, freeing, boot, aside>>

UndoLink(p) ==
  LET i == loc[p].old  n == Loaded(i).nlink - 1 IN
  /\ At(p, "undo_link") /\ CanLock(i)
  /\ disk' = SetLinks(disk, i, n)
  /\ core' = Put(core, i, [Loaded(i) EXCEPT !.nlink = n])
  /\ panicked' = (panicked \/ NoType(i))
  /\ Leave(p, <<ToPut(i)>>)
  /\ UNCHANGED <<stable, tx, iref, lock, cwd, fd, freeing, boot, aside>>

-----------------------------------------------------------------------------
(* sys_getcwd(), outside any transaction *)

Getcwd(p) ==
  /\ At(p, "user")
  /\ iget(cwd[p])
  /\ Locals(p, [call |-> "getcwd", cur |-> cwd[p]])
  /\ Goto(p, "up")
  /\ UNCHANGED <<disk, stable, tx, core, lock, cwd, fd, puts, freeing, boot, panicked, aside>>

GoUp(p) ==
  LET i == loc[p].cur IN
  /\ At(p, "up") /\ ilock(i)
  /\ IF disk.up[i] = Null
       THEN /\ ThenPut(p, <<ToPut(i)>>)
            /\ loc' = Put(loc, p, NoLocals)
            /\ Goto(p, "user")
            /\ UNCHANGED iref
       ELSE /\ iget(disk.up[i])
            /\ Locals(p, [ip |-> disk.up[i]])
            /\ Goto(p, "scan")
            /\ UNCHANGED puts
  /\ UNCHANGED <<disk, stable, tx, lock, cwd, fd, freeing, boot, aside>>

(* The entry of cur in its parent is looked for, unless cur is the root. *)
ScanParent(p) ==
  LET i == loc[p].cur  parent == loc[p].ip IN
  /\ At(p, "scan") /\ ilock(parent)
  /\ IF parent # i /\ \E n \in Names : disk.ent[parent][n] = i
       THEN /\ ThenPut(p, <<ToPut(i)>>)
            /\ Locals(p, [cur |-> parent, ip |-> Null])
            /\ Goto(p, "up")
       ELSE /\ ThenPut(p, <<ToPut(parent), ToPut(i)>>)
            /\ loc' = Put(loc, p, NoLocals)
            /\ Goto(p, "user")
  /\ UNCHANGED <<disk, stable, tx, iref, lock, cwd, fd, freeing, boot, aside>>

-----------------------------------------------------------------------------
(* A crash, and the boot that follows with new processes. *)

(* A plausible bug: nothing is reclaimed. *)
OrphansNone(d) == {}

Orphans(d) == {i \in Inums : d.type[i] # "free" /\ d.nlink[i] = 0}

Crash ==
  /\ disk' = stable
  /\ tx' = {}
  /\ iref' = [i \in Inums |-> IF i = Root THEN Cardinality(Procs) ELSE 0]
  /\ core' = [i \in Inums |-> Unloaded]
  /\ lock' = [i \in Inums |-> NoProc]
  /\ cwd' = [p \in Procs |-> Root]
  /\ fd' = [p \in Procs |-> Null]
  /\ pc' = [p \in Procs |-> "user"]
  /\ loc' = [p \in Procs |-> NoLocals]
  /\ puts' = [p \in Procs |-> <<>>]
  /\ freeing' = [p \in Procs |-> "no"]
  /\ boot' = Orphans(stable)
  /\ overtaken' = {}
  /\ UNCHANGED <<stable, panicked, workload>>

(* ireclaim(): an inode that has no links is freed, in a transaction.      *)
Reclaim ==
  /\ \E i \in boot : disk' = Freed(disk, i) /\ boot' = boot \ {i}
  /\ stable' = disk'
  /\ UNCHANGED <<tx, table, cwd, fd, local, panicked, aside>>

-----------------------------------------------------------------------------
Iput(p) == PutRef(p) \/ PutLast(p) \/ PutFree(p) \/ PutFreed(p)

Lookup(p) == Walk(p) \/ WalkParent(p) \/ Open(p) \/ Chdir(p)

Create(p) ==
  \/ CreateLookup(p) \/ CreateExists(p) \/ Ialloc(p) \/ IallocFails(p)
  \/ IallocGet(p) \/ CreateLink(p) \/ CreateFails(p) \/ Created(p)

RemoveName(p) == UnlinkLookup(p) \/ UnlinkRefused(p) \/ Unlink(p) \/ Unlinked(p)

Link(p) == LinkOld(p) \/ LinkNew(p) \/ LinkFails(p) \/ UndoLink(p)

PathOfCwd(p) == Getcwd(p) \/ GoUp(p) \/ ScanParent(p)

CallStep(p) ==
  \/ End(p) \/ Iput(p) \/ Lookup(p) \/ Create(p) \/ RemoveName(p) \/ Link(p) \/ PathOfCwd(p)

FsNext ==
  \/ \E p \in Procs : CallStep(p) \/ Close(p) \/ \E r \in workload : Enter(p, r)
  \/ Crash \/ Reclaim

FsSpec == FsInit /\ [][FsNext]_fsVars

-----------------------------------------------------------------------------
(* Properties *)

(* "the number of links referring to it" (fs.c): on the disk that a crash  *)
(* leaves, the count of an inode is that of the entries that name it, and  *)
(* of its subdirectories, in directories that have not been removed.       *)
Links(d, i) ==
  Cardinality({x \in Inums \X Names : d.nlink[x[1]] > 0 /\ d.ent[x[1]][x[2]] = i})
  + Cardinality({j \in Inums : d.nlink[j] > 0 /\ d.up[j] = i})

LinkCount ==
  \A i \in Inums :
    Links(stable, i) = IF stable.type[i] = "free" THEN 0 ELSE stable.nlink[i]

(* The pointers of p to inode i *)
B(x) == IF x THEN 1 ELSE 0
Pointers(p, i) ==
  B(cwd[p] = i) + B(fd[p] = i) + B(loc[p].cur = i) + B(loc[p].old = i)
    + B(loc[p].ip = i /\ pc[p] # "iget")
    + Cardinality({k \in DOMAIN puts[p] : puts[p][k].inum = i})

AllPointers(i) == UNION {{p} \X (1 .. Pointers(p, i)) : p \in Procs}

(* "ip->ref tracks the number of in-memory pointers to the entry". *)
RefCount == \A i \in Inums : iref[i] = Cardinality(AllPointers(i))

(* A valid copy in memory that nobody has locked is that of the disk, and  *)
(* an open file or a working directory has not been freed.                 *)
CoreIsDisk ==
  /\ \A i \in Inums :
       core[i].valid /\ lock[i] = NoProc
         => core[i].type = disk.type[i] /\ core[i].nlink = disk.nlink[i]
  /\ \A p \in Procs : disk.type[cwd[p]] = "dir" /\ (fd[p] # Null => disk.type[fd[p]] # "free")

(* An inode without links is referenced by somebody whose iput() will free *)
(* it, unless it has just been allocated; a crash leaves it to ireclaim(). *)
NoInodeLost ==
  boot = {} =>
    \A i \in Inums :
      disk.type[i] # "free" /\ disk.nlink[i] = 0 /\ i \notin overtaken
        => iref[i] > 0 \/ \E p \in Procs : pc[p] = "iget" /\ loc[p].ip = i

(* "iput() frees if the reference and link counts have fallen to zero"     *)
(* (fs.c), whoever else is at work.                                        *)
InodesFreed ==
  boot = {} =>
    \A i \in Inums :
      disk.type[i] # "free" /\ disk.nlink[i] = 0
        => iref[i] > 0 \/ \E p \in Procs : pc[p] = "iget" /\ loc[p].ip = i

(* Processes do not lock inodes in a circle: some call can go on, or is    *)
(* held back by no lock but by RemoveBusy.                                 *)
NoLockCycle ==
  (boot = {} /\ \A p \in Procs : pc[p] # "user")
    => \E p \in Procs : ENABLED CallStep(p) \/ (At(p, "unlink") /\ CanLock(loc[p].ip))

(* The inodes whose lock the next step of p takes *)
Awaited(p) ==
  CASE puts[p] # <<>> ->
         {x.inum : x \in {y \in {Head(puts[p])} : freeing[p] = "no" /\ ~y.held /\ LastRef(y.inum)}}
    [] puts[p] = <<>> /\ pc[p] \in {"walk", "parent", "up"} -> {loc[p].cur}
    [] puts[p] = <<>> /\ pc[p] \in {"exists", "init", "unlink", "scan"} -> {loc[p].ip}
    [] puts[p] = <<>> /\ pc[p] = "undo_link" -> {loc[p].old}
    [] OTHER -> {}

(* However many processes there are, no set of them waits in a circle, each *)
(* for a lock that itself or another of them has: sys_unlink() and create() *)
(* lock an inode while they have its directory locked.                      *)
NoCircle ==
  \A S \in SUBSET Procs : S # {} => \E p \in S : \A i \in Awaited(p) : lock[i] \notin S

(* The panics "ilock: no type" (fs.c), "unlink: nlink < 1" (sysfile.c) and *)
(* "log_write outside of trans" (log.c) do not happen.                     *)
NoFsPanic == ~panicked
=============================================================================
