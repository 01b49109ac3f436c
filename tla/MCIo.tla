-------------------------------- MODULE MCIo --------------------------------
(***************************************************************************)
(* An instance of the kernel's input and output: the message queues, pipes *)
(* and console that processes wait for, and the log, block allocation, the *)
(* disk driver and the serial port under them.  `part' tells which of them *)
(* moves; the others keep their first state.                               *)
(***************************************************************************)
EXTENDS MsgQueue, Log, Virtio, Console, Uart, Pipe, FileData

VARIABLE part

Parts == {"queues", "log", "disk", "console", "port", "pipe", "files"}

ioVars ==
  <<part, vars, logVars, viVars, consVars, uartVars, pipeVars, fdVars>>

OneOf(S) == CHOOSE x \in S : TRUE

IoInit ==
  /\ part \in Parts
  /\ Init /\ LogInit /\ VirtioInit /\ ConsoleInit /\ UartInit /\ PipeInit /\ FileDataInit
  /\ part # "log" => disk_home = OneOf([Home -> Data]) /\ disk_log = [s \in LogSlots |-> OneOf(Data)]

Queue(A) ==
  /\ part = "queues" /\ A
  /\ UNCHANGED <<part, logVars, viVars, consVars, uartVars, pipeVars, fdVars>>
Logs(A) ==
  /\ part = "log" /\ A
  /\ UNCHANGED <<part, vars, viVars, consVars, uartVars, pipeVars, fdVars>>
Drives(A) ==
  /\ part = "disk" /\ A
  /\ UNCHANGED <<part, vars, logVars, consVars, uartVars, pipeVars, fdVars>>
Cons(A) ==
  /\ part = "console" /\ A
  /\ UNCHANGED <<part, vars, logVars, viVars, uartVars, pipeVars, fdVars>>
Port(A) ==
  /\ part = "port" /\ A
  /\ UNCHANGED <<part, vars, logVars, viVars, consVars, pipeVars, fdVars>>
Pipes(A) ==
  /\ part = "pipe" /\ A
  /\ UNCHANGED <<part, vars, logVars, viVars, consVars, uartVars, fdVars>>
Allots(A) ==
  /\ part = "files" /\ A
  /\ UNCHANGED <<part, vars, logVars, viVars, consVars, uartVars, pipeVars>>

(* Next, LogNext, VirtioNext, ConsoleNext, UartNext, PipeNext and          *)
(* FileDataNext, action by action                                          *)
QueueNext ==
  \E p \in Procs :
    \/ \E q \in Requests : Queue(Call(p, q))
    \/ Queue(TestInitialized(p)) \/ Queue(InitQueue(p)) \/ Queue(InitDone(p))
    \/ Queue(Acquire(p))
    \/ Queue(SendFull(p)) \/ Queue(SendFault(p)) \/ Queue(SendCopy(p)) \/ Queue(SendDone(p))
    \/ Queue(RecvEmpty(p)) \/ Queue(RecvFault(p)) \/ Queue(RecvCopy(p)) \/ Queue(RecvDone(p))

LogsNext ==
  \/ \E p \in Ops : Logs(BeginOp(p)) \/ Logs(EndOp(p)) \/ Logs(Committed(p))
  \/ \E p \in Ops, b \in Home :
       \/ Logs(Bread(p, b)) \/ Logs(Brelse(p, b)) \/ \E v \in Data : Logs(LogWrite(p, b, v))
  \/ \E b \in Home : Logs(Recycle(b))
  \/ Logs(WriteLog) \/ Logs(WriteHead) \/ Logs(InstallTrans) \/ Logs(EraseHead)
  \/ Logs(PowerFails) \/ Logs(ReadHead) \/ Logs(Recover) \/ Logs(ClearLog)

DrivesNext ==
  \/ \E b \in Bufs, way \in {"read", "write"} : Drives(Ask(b, way))
  \/ \E b \in Bufs :
       \/ Drives(NoDescriptors(b)) \/ Drives(Submit(b)) \/ Drives(StillOnDisk(b))
       \/ Drives(Finished(b)) \/ Drives(BufReleased(b)) \/ Drives(VirtioKill(b))
  \/ Drives(IntrAck) \/ Drives(IntrLoop) \/ Drives(IntrEnd) \/ Drives(Take)
  \/ \E h \in Descs : Drives(Complete(h))

ConsNext ==
  \/ \E p \in Readers, n \in Counts : Cons(ReadCons(p, n))
  \/ \E p \in Readers :
       \/ Cons(ReadKilled(p)) \/ Cons(ReadWaits(p)) \/ Cons(ReadSleeps(p)) \/ Cons(ReadWakes(p))
       \/ Cons(ReadChar(p)) \/ Cons(ReadEof(p)) \/ Cons(ConsoleKill(p)) \/ Cons(ReaderReplaced(p))
  \/ \E c \in Typed : Cons(KeyComes(c))
  \/ Cons(KeyErase) \/ Cons(KeyKill) \/ Cons(KeyIgnored) \/ Cons(KeyStore)

PortNext ==
  \/ \E p \in Writers, n \in Lengths : Port(WriteCons(p, n))
  \/ \E p \in Writers : Port(UartSleeps(p)) \/ Port(UartSends(p)) \/ Port(UartKill(p))
  \/ \E s \in {Handler, Printf} : Port(SyncCall(s)) \/ Port(SyncIdle(s)) \/ Port(SyncWrites(s))
  \/ Port(PortSends) \/ Port(IntrStarts) \/ Port(IntrTransmit) \/ Port(IntrEnds)

PipesNext ==
  \E p \in Users :
    \/ Pipes(Started(p)) \/ Pipes(SysPipe(p)) \/ Pipes(Exit(p)) \/ Pipes(Gone(p))
    \/ Pipes(FileClose(p)) \/ Pipes(PipeClose(p)) \/ Pipes(FreePage(p))
    \/ Pipes(WakeLocked(p)) \/ Pipes(PipeSleep(p)) \/ Pipes(PipeKill(p))
    \/ Pipes(WriteGivesUp(p)) \/ Pipes(WriteFull(p)) \/ Pipes(WriteEnds(p))
    \/ \E b \in Bytes : Pipes(WriteByte(p, b))
    \/ Pipes(ReadGivesUp(p)) \/ Pipes(ReadEmpty(p)) \/ Pipes(ReadStarts(p))
    \/ Pipes(ReadByte(p)) \/ Pipes(ReadEnds(p))
    \/ \E d \in Ends : Pipes(SysDup(p, d)) \/ Pipes(SysClose(p, d)) \/ Pipes(SysReadWrite(p, d))
    \/ \E q \in Users : Pipes(Fork(p, q))

FilesNext ==
  \E p \in Scribes :
    \/ Allots(StartChunk(p)) \/ Allots(Bmap(p)) \/ Allots(CopyIn(p)) \/ Allots(EndChunk(p))
    \/ Allots(Bfree(p)) \/ Allots(EndTrunc(p))
    \/ \E f \in Files : Allots(StartTrunc(p, f))
    \/ \E f \in Files, o \in Offsets, n \in Sizes : Allots(WriteFile(p, f, o, n))

IoNext ==
  QueueNext \/ LogsNext \/ DrivesNext \/ ConsNext \/ PortNext \/ PipesNext \/ FilesNext

IoSpec == IoInit /\ [][IoNext]_ioVars

-----------------------------------------------------------------------------
(* Properties: what the parts promise, together *)

(* Counts and indices of message queues stay in range, no slot is returned *)
(* half copied, and one process at a time is inside a queue.               *)
QueuesWork == TypeOK /\ OneAtATime

(* Each disk request is done once, with descriptors of its own. *)
DiskWorks == DoneOnce /\ ChainsApart

(* What is typed is read in order, and the port is not overrun. *)
ConsoleWorks == TypedInOrder /\ PortHasRoom

(* Blocks have one owner and files have no holes. *)
FilesKeepBlocks == BlocksOwned /\ NoHoles

(* Nobody sleeps without a reason that ends with a wakeup(), in            *)
(* begin_op(), virtio_disk_rw(), uartwrite(), consoleread(), pipe reads    *)
(* and writes.                                                             *)
SleepersHaveCause ==
  /\ BeginWaitsHaveCause /\ DiskWaitsHaveCause /\ WritersWaitForPort
  /\ ReadersWaitForLines /\ NoWakeupLost

=============================================================================
