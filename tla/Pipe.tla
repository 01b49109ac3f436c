-------------------------------- MODULE Pipe --------------------------------
(***************************************************************************)
(* A pipe (kernel/pipe.c), the two open files that are its ends            *)
(* (kernel/file.c) and the descriptors that refer to them, through pipe(), *)
(* dup(), fork(), read(), write(), close(), exit() and kill().             *)
(*                                                                         *)
(* One page serves for pipes, again and again.  A step is what a process   *)
(* does under ftable.lock, or one turn of a loop under pi->lock; how many  *)
(* turns the n of a read() or write() makes is left open.                  *)
(***************************************************************************)
EXTENDS Naturals, Sequences, FiniteSets, Updates

CONSTANTS
  Users,    \* processes, by their slots
  PIPESIZE,
  WRAP,     \* nread and nwrite are counted modulo WRAP (2^32)
  Bytes,
  MAXREF,   \* bound: references to a file
  Victims,  \* bound: those that are killed in a read() or write()
  NoUser    \* nobody

ASSUME PipeAssumption ==
  /\ PIPESIZE \in Nat \ {0} /\ WRAP \in Nat
  /\ WRAP % PIPESIZE = 0 /\ WRAP > PIPESIZE
  /\ MAXREF \in Nat \ {0}
  /\ Users \subseteq Nat /\ NoUser \notin Users /\ IsFiniteSet(Users)

Ends == {"r", "w"}

VARIABLES
  page,    \* is the page of struct pipe allocated?
  opened,  \* pi->readopen and pi->writeopen: the open ends
  nread, nwrite, bytes,
  pilock,  \* who has pi->lock
  fileref, \* f->ref of the file of an end
  fds,     \* how many descriptors a process has of an end
  shut,    \* the ends that a process is about to fileclose()
  at,      \* where a process is
  dying,   \* p->killed
  closing, \* what its fileclose() has left to close: an end, or the page
  unread,  \* history: bytes written and not read yet
  deserted \* history: a killed writer left bytes without a wakeup()

byteVars == <<nread, nwrite, bytes, unread, deserted>>
fileVars == <<fileref, fds, shut, closing>>
pipeVars == <<page, opened, byteVars, pilock, fileVars, at, dying>>

(* What kalloc() and kfree() fill a page with, as far as it matters *)
Junk == [n \in 0 .. PIPESIZE - 1 |-> CHOOSE b \in Bytes : TRUE]

PipeInit ==
  /\ page = FALSE /\ opened = {}
  /\ nread = 0 /\ nwrite = 0
  /\ bytes = Junk
  /\ pilock = NoUser
  /\ fileref = [e \in Ends |-> 0]
  /\ fds = [p \in Users |-> [e \in Ends |-> 0]]
  /\ shut = [p \in Users |-> <<>>]
  /\ closing = [p \in Users |-> "no"]
  /\ at = [p \in Users |-> "none"]
  /\ dying = [p \in Users |-> FALSE]
  /\ unread = <<>> /\ deserted = FALSE

-----------------------------------------------------------------------------
(* Descriptors *)

(* p makes a system call: it is alive, in user code, and not killed. *)
Calls(p) == at[p] = "user" /\ shut[p] = <<>> /\ closing[p] = "no" /\ ~dying[p]

(* allocproc() takes the first free slot. *)
FirstFree(p) == at[p] = "none" /\ \A q \in Users : at[q] = "none" => p <= q

(* A process without descriptors of the pipe is started. *)
Started(p) ==
  /\ FirstFree(p)
  /\ at' = Put(at, p, "user")
  /\ UNCHANGED <<page, opened, byteVars, pilock, fileVars, dying>>

(* sys_pipe().  When the numbers of the descriptors cannot be copied out,  *)
(* both files are closed again.                                            *)
SysPipe(p) ==
  /\ Calls(p) /\ ~page /\ \A e \in Ends : fileref[e] = 0
  /\ page' = TRUE /\ opened' = Ends
  /\ nread' = 0 /\ nwrite' = 0 /\ UNCHANGED <<bytes, unread, deserted>>
  /\ fileref' = [e \in Ends |-> 1]
  /\ \/ fds' = Put(fds, p, [e \in Ends |-> 1]) /\ UNCHANGED shut
     \/ shut' = Put(shut, p, <<"r", "w">>) /\ UNCHANGED fds
  /\ UNCHANGED <<pilock, closing, at, dying>>

SysDup(p, e) ==
  /\ Calls(p) /\ fds[p][e] > 0 /\ fileref[e] < MAXREF
  /\ fds' = [fds EXCEPT ![p][e] = @ + 1]
  /\ fileref' = Incr(fileref, e)
  /\ UNCHANGED <<page, opened, byteVars, pilock, shut, closing, at, dying>>

(* fork(): the child q has a copy of each descriptor. *)
Fork(p, q) ==
  /\ Calls(p) /\ FirstFree(q)
  /\ \A e \in Ends : fileref[e] + fds[p][e] <= MAXREF
  /\ fds' = Put(fds, q, fds[p])
  /\ fileref' = [e \in Ends |-> fileref[e] + fds[p][e]]
  /\ at' = Put(at, q, "user")
  /\ UNCHANGED <<page, opened, byteVars, pilock, shut, closing, dying>>

SysClose(p, e) ==
  /\ Calls(p) /\ fds[p][e] > 0
  /\ fds' = [fds EXCEPT ![p][e] = @ - 1]
  /\ shut' = Put(shut, p, <<e>>)
  /\ UNCHANGED <<page, opened, byteVars, pilock, fileref, closing, at, dying>>

Times(e, n) == [k \in 1 .. n |-> e]

(* kexit(), of its own or because it was killed *)
Exit(p) ==
  /\ at[p] = "user" /\ shut[p] = <<>> /\ closing[p] = "no"
  /\ shut' = Put(shut, p, Times("r", fds[p]["r"]) \o Times("w", fds[p]["w"]))
  /\ fds' = Put(fds, p, [e \in Ends |-> 0])
  /\ at' = Put(at, p, "exits")
  /\ UNCHANGED <<page, opened, byteVars, pilock, fileref, closing, dying>>

Gone(p) ==
  /\ at[p] = "exits" /\ shut[p] = <<>> /\ closing[p] = "no"
  /\ at' = Put(at, p, "none")
  /\ dying' = Put(dying, p, FALSE)
  /\ UNCHANGED <<page, opened, byteVars, pilock, fileVars>>

(* fileclose(): the last reference closes the end. *)
FileClose(p) ==
  LET e == Head(shut[p]) IN
  /\ shut[p] # <<>> /\ closing[p] = "no"
  /\ fileref' = Decr(fileref, e)
  /\ closing' = IF fileref[e] = 1 THEN Put(closing, p, e) ELSE closing
  /\ shut' = Put(shut, p, Tail(shut[p]))
  /\ UNCHANGED <<page, opened, byteVars, pilock, fds, at, dying>>

-----------------------------------------------------------------------------
(* wakeup() of the readers or of the writers *)
WakeUp(e) ==
  [q \in Users |->
     CASE e = "r" /\ at[q] = "sleeps_read" -> "wakes_read"
       [] e = "w" /\ at[q] = "sleeps_write" -> "wakes_write"
       [] OTHER -> at[q]]

(* A plausible bug: the writers that wait for room are not told. *)
PipeCloseUnheard(p) ==
  LET e == closing[p] IN
  /\ e \in Ends /\ pilock = NoUser
  /\ opened' = opened \ {e}
  /\ at' = IF e = "w" THEN WakeUp("r") ELSE at
  /\ deserted' = (e # "w" /\ deserted)
  /\ closing' = Put(closing, p, IF opened' = {} THEN "page" ELSE "no")
  /\ UNCHANGED <<page, nread, nwrite, bytes, unread, pilock, fileref, fds, shut, dying>>

(* pipeclose() *)
PipeClose(p) ==
  LET e == closing[p] IN
  /\ e \in Ends /\ pilock = NoUser
  /\ opened' = opened \ {e}
  /\ at' = IF e = "w" THEN WakeUp("r") ELSE WakeUp("w")
  /\ deserted' = (e # "w" /\ deserted)
  /\ closing' = Put(closing, p, IF opened' = {} THEN "page" ELSE "no")
  /\ UNCHANGED <<page, nread, nwrite, bytes, unread, pilock, fileref, fds, shut, dying>>

(* Its kfree() *)
FreePage(p) ==
  /\ closing[p] = "page"
  /\ page' = FALSE
  /\ nread' = 0 /\ nwrite' = 0 /\ bytes' = Junk /\ unread' = <<>> /\ deserted' = FALSE
  /\ closing' = Put(closing, p, "no")
  /\ UNCHANGED <<opened, pilock, fileref, fds, shut, at, dying>>

-----------------------------------------------------------------------------
(* read() and write() *)

(* The call, up to its acquire(&pi->lock) *)
SysReadWrite(p, e) ==
  /\ Calls(p) /\ fds[p][e] > 0
  /\ pilock = NoUser
  /\ pilock' = p
  /\ at' = Put(at, p, IF e = "r" THEN "reading" ELSE "writing")
  /\ UNCHANGED <<page, opened, byteVars, fileVars, dying>>

(* acquire(&pi->lock) at the end of sleep() *)
WakeLocked(p) ==
  /\ at[p] \in {"wakes_read", "wakes_write"} /\ pilock = NoUser
  /\ pilock' = p
  /\ at' = Put(at, p, IF at[p] = "wakes_read" THEN "reading" ELSE "writing")
  /\ UNCHANGED <<page, opened, byteVars, fileVars, dying>>

(* p releases the lock and returns; place is where that leaves everybody. *)
Leaves(p, place) ==
  /\ pilock' = NoUser
  /\ at' = Put(place, p, "user")

Full == nwrite = (nread + PIPESIZE) % WRAP
Empty == nread = nwrite

WriteGivesUp(p) ==
  /\ at[p] = "writing"
  /\ "r" \notin opened \/ dying[p]
  /\ Leaves(p, at)
  /\ deserted' = (deserted \/ ~Empty)
  /\ UNCHANGED <<page, opened, nread, nwrite, bytes, unread, fileVars, dying>>

GoesOn(p) == at[p] = "writing" /\ "r" \in opened /\ ~dying[p]

WriteFull(p) ==
  /\ GoesOn(p) /\ Full
  /\ at' = Put(WakeUp("r"), p, "will_sleep_write")
  /\ deserted' = FALSE
  /\ UNCHANGED <<page, opened, nread, nwrite, bytes, unread, pilock, fileVars, dying>>

(* A plausible bug: the place of a byte is found after nwrite is advanced. *)
WriteByteNext(p, b) ==
  /\ GoesOn(p) /\ ~Full
  /\ nwrite' = (nwrite + 1) % WRAP
  /\ bytes' = Put(bytes, nwrite' % PIPESIZE, b)
  /\ unread' = Append(unread, b)
  /\ UNCHANGED <<page, opened, nread, deserted, pilock, fileVars, at, dying>>

WriteByte(p, b) ==
  /\ GoesOn(p) /\ ~Full
  /\ bytes' = Put(bytes, nwrite % PIPESIZE, b)
  /\ nwrite' = (nwrite + 1) % WRAP
  /\ unread' = Append(unread, b)
  /\ UNCHANGED <<page, opened, nread, deserted, pilock, fileVars, at, dying>>

(* All n bytes are written, or copyin() fails. *)
WriteEnds(p) ==
  /\ at[p] = "writing"
  /\ Leaves(p, WakeUp("r"))
  /\ deserted' = FALSE
  /\ UNCHANGED <<page, opened, nread, nwrite, bytes, unread, fileVars, dying>>

ReadGivesUp(p) ==
  /\ at[p] = "reading" /\ Empty /\ "w" \in opened /\ dying[p]
  /\ Leaves(p, at)
  /\ UNCHANGED <<page, opened, byteVars, fileVars, dying>>

ReadEmpty(p) ==
  /\ at[p] = "reading" /\ Empty /\ "w" \in opened /\ ~dying[p]
  /\ at' = Put(at, p, "will_sleep_read")
  /\ UNCHANGED <<page, opened, byteVars, pilock, fileVars, dying>>

ReadStarts(p) ==
  /\ at[p] = "reading" /\ ~(Empty /\ "w" \in opened)
  /\ at' = Put(at, p, "copies")
  /\ UNCHANGED <<page, opened, byteVars, pilock, fileVars, dying>>

ReadByte(p) ==
  /\ at[p] = "copies" /\ ~Empty
  /\ nread' = (nread + 1) % WRAP
  /\ unread' = Tail(unread)
  /\ UNCHANGED <<page, opened, nwrite, bytes, deserted, pilock, fileVars, at, dying>>

(* All n bytes are read, the pipe is empty, or copyout() fails. *)
ReadEnds(p) ==
  /\ at[p] = "copies"
  /\ Leaves(p, WakeUp("w"))
  /\ UNCHANGED <<page, opened, byteVars, fileVars, dying>>

(* sleep(): a kill() since the test of killed wakes nobody. *)
PipeSleep(p) ==
  /\ at[p] \in {"will_sleep_read", "will_sleep_write"}
  /\ at' = Put(at, p, IF at[p] = "will_sleep_read" THEN "sleeps_read" ELSE "sleeps_write")
  /\ pilock' = NoUser
  /\ UNCHANGED <<page, opened, byteVars, fileVars, dying>>

(* kill() of a process in a read() or write(); of another, see Exit.       *)
PipeKill(p) ==
  /\ p \in Victims
  /\ at[p] \notin {"none", "user", "exits"}
  /\ ~dying[p] \/ at[p] \in {"sleeps_read", "sleeps_write"}
  /\ dying' = Put(dying, p, TRUE)
  /\ at' = CASE at[p] = "sleeps_read" -> Put(at, p, "wakes_read")
             [] at[p] = "sleeps_write" -> Put(at, p, "wakes_write")
             [] OTHER -> at
  /\ UNCHANGED <<page, opened, byteVars, pilock, fileVars>>

PipeStep(p) ==
  \/ WakeLocked(p) \/ PipeSleep(p) \/ FileClose(p) \/ PipeClose(p) \/ FreePage(p) \/ Gone(p)
  \/ WriteGivesUp(p) \/ WriteFull(p) \/ WriteEnds(p) \/ \E b \in Bytes : WriteByte(p, b)
  \/ ReadGivesUp(p) \/ ReadEmpty(p) \/ ReadStarts(p) \/ ReadByte(p) \/ ReadEnds(p)

PipeNext ==
  \E p \in Users :
    \/ PipeStep(p) \/ Started(p) \/ SysPipe(p) \/ Exit(p) \/ PipeKill(p)
    \/ \E e \in Ends : SysDup(p, e) \/ SysClose(p, e) \/ SysReadWrite(p, e)
    \/ \E q \in Users : Fork(p, q)

PipeSpec == PipeInit /\ [][PipeNext]_pipeVars

-----------------------------------------------------------------------------
(* Properties *)

(* What a process has of an end: its descriptors, and those it is closing *)
Holds(p, e) == fds[p][e] + Cardinality({k \in DOMAIN shut[p] : shut[p][k] = e})

References(e) == UNION {{p} \X (1 .. Holds(p, e)) : p \in Users}

(* A file has as many references as there are descriptors of it, and       *)
(* nothing of a pipe is touched without a reference, so that its page is   *)
(* freed once, after the last use.                                         *)
RefsCount == \A e \in Ends : fileref[e] = Cardinality(References(e))

InPipe(p) == at[p] \notin {"none", "user", "exits"} \/ closing[p] # "no"

PageOutlivesUse ==
  /\ \A p \in Users : InPipe(p) => page
  /\ page <=> opened # {} \/ \E p \in Users : closing[p] = "page"
  /\ \A e \in Ends : e \in opened <=> fileref[e] > 0 \/ \E p \in Users : closing[p] = e
  /\ \A p, q \in Users : closing[p] # "no" /\ closing[p] = closing[q] => p = q

(* What is read is what was written, in order, across the wrap of the      *)
(* buffer and of the counters.                                             *)
BytesInOrder ==
  LET n == (WRAP + nwrite - nread) % WRAP IN
  /\ n = Len(unread) /\ n <= PIPESIZE
  /\ \A k \in 1 .. n : bytes[(nread + k - 1) % PIPESIZE] = unread[k]

(* No wake-up is lost: who sleeps has a reason.  A reader may sleep beside *)
(* bytes of a writer that was killed between two of them: pipewrite() then *)
(* returns without a wakeup().                                             *)
NoWakeupLost ==
  pilock = NoUser =>
    \A p \in Users :
      /\ at[p] = "sleeps_read" => deserted \/ (Empty /\ "w" \in opened)
      /\ at[p] = "sleeps_write" => Full /\ "r" \in opened

PipeWorks == RefsCount /\ PageOutlivesUse /\ BytesInOrder
=============================================================================
