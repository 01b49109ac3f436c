------------------------------ MODULE FileData ------------------------------
(***************************************************************************)
(* The blocks of files: filewrite() of kernel/file.c, and writei(), bmap() *)
(* balloc(), bfree() and itrunc() of kernel/fs.c.                          *)
(*                                                                         *)
(* Processes write to and truncate files, which they lock, and share the   *)
(* bitmap of blocks.  A step is a change of the bitmap, with what is done  *)
(* to the locked inode for it, or the copying of what goes in one block.   *)
(* begin_op() is not waited for and nothing crashes: see module Log.       *)
(***************************************************************************)
EXTENDS Naturals, FiniteSets, FiniteSetsExt, Updates

CONSTANTS
  Scribes,             \* processes
  Files,               \* inodes
  Blocks,              \* blocks for data, which are in one block of the bitmap
  BSIZE, NDIRECT, NINDIRECT,
  LOGRESERVE,          \* MAXOPBLOCKS
  Offsets, Sizes,      \* f->off when a process writes, and how many bytes
  NoScribe, NoFile

ASSUME FileDataAssumption ==
  /\ Blocks \subseteq Nat \ {0} /\ IsFiniteSet(Blocks)
  /\ BSIZE \in Nat \ {0} /\ NDIRECT \in Nat /\ NINDIRECT \in Nat
  /\ LOGRESERVE \in Nat /\ LOGRESERVE >= 6
  /\ Offsets \subseteq Nat /\ Sizes \subseteq Nat \ {0}
  /\ NoScribe \notin Scribes /\ NoFile \notin Files

MAXFILE == NDIRECT + NINDIRECT

VARIABLES
  bitmap,  \* the blocks that are in use
  size,    \* ip->size
  addrs,   \* ip->addrs[] of a file; entry NDIRECT is the indirect block
  table,   \* what its indirect block holds
  locker,  \* who has ip->lock
  does,    \* where a process is
  file,    \* the file it works on
  off,     \* f->off and then off of writei()
  todo,    \* bytes of filewrite() that are not in a chunk yet
  piece,   \* bytes of the chunk that are not written yet
  freeing  \* how far the loops of itrunc() are

inodeVars == <<size, addrs, table>>
fdVars == <<bitmap, inodeVars, locker, does, file, off, todo, piece, freeing>>

FileDataInit ==
  /\ bitmap = {}
  /\ size = [f \in Files |-> 0]
  /\ addrs = [f \in Files |-> [n \in 0 .. NDIRECT |-> 0]]
  /\ table = [f \in Files |-> [n \in 0 .. NINDIRECT - 1 |-> 0]]
  /\ locker = [f \in Files |-> NoScribe]
  /\ does = [p \in Scribes |-> "user"]
  /\ file = [p \in Scribes |-> NoFile]
  /\ off = [p \in Scribes |-> 0] /\ todo = [p \in Scribes |-> 0]
  /\ piece = [p \in Scribes |-> 0]
  /\ freeing = [p \in Scribes |-> 0]

Idle(p) ==
  /\ does' = Put(does, p, "user")
  /\ file' = Put(file, p, NoFile) /\ off' = Put(off, p, 0)
  /\ todo' = Put(todo, p, 0) /\ piece' = Put(piece, p, 0)

-----------------------------------------------------------------------------
(* filewrite() *)

WriteFile(p, f, at, n) ==
  /\ does[p] = "user"
  /\ does' = Put(does, p, "chunk")
  /\ file' = Put(file, p, f) /\ off' = Put(off, p, at) /\ todo' = Put(todo, p, n)
  /\ UNCHANGED <<bitmap, inodeVars, locker, piece, freeing>>

(* "write a few blocks at a time to avoid exceeding the maximum log        *)
(* transaction size, including i-node, indirect block, allocation blocks,  *)
(* and 2 blocks of slop for non-aligned writes."                           *)
Most == ((LOGRESERVE - 1 - 1 - 2) \div 2) * BSIZE

Chunk(p) == Min({todo[p], Most})

(* begin_op(), ilock() and the tests of writei() *)
StartChunk(p) ==
  LET f == file[p] IN
  /\ does[p] = "chunk" /\ locker[f] = NoScribe
  /\ IF off[p] > size[f] \/ off[p] + Chunk(p) > MAXFILE * BSIZE
       THEN Idle(p) /\ UNCHANGED locker
       ELSE /\ locker' = Put(locker, f, p)
            /\ piece' = Put(piece, p, Chunk(p))
            /\ todo' = Put(todo, p, todo[p] - Chunk(p))
            /\ does' = Put(does, p, "writes")
            /\ UNCHANGED <<file, off>>
  /\ UNCHANGED <<bitmap, inodeVars, freeing>>

(* What bmap() of block n of file f finds missing first *)
Missing(f, n) ==
  CASE n < NDIRECT /\ addrs[f][n] = 0 -> "direct"
    [] n >= NDIRECT /\ addrs[f][NDIRECT] = 0 -> "indirect"
    [] n >= NDIRECT /\ addrs[f][NDIRECT] # 0 /\ table[f][n - NDIRECT] = 0 -> "entry"
    [] OTHER -> "nothing"

(* balloc(): the first block that is free *)
Bmap(p) ==
  LET f == file[p]
      n == off[p] \div BSIZE
      lack == Missing(f, n)
      b == Min(Blocks \ bitmap) IN
  /\ does[p] = "writes" /\ piece[p] > 0
  /\ lack # "nothing" /\ Blocks \ bitmap # {}
  /\ bitmap' = bitmap \cup {b}
  /\ addrs' = CASE lack = "direct" -> [addrs EXCEPT ![f][n] = b]
                [] lack = "indirect" -> [addrs EXCEPT ![f][NDIRECT] = b]
                [] lack = "entry" -> addrs
  /\ table' = IF lack = "entry" THEN [table EXCEPT ![f][n - NDIRECT] = b] ELSE table
  /\ UNCHANGED <<size, locker, does, file, off, todo, piece, freeing>>

(* either_copyin() and log_write() *)
CopyIn(p) ==
  LET f == file[p]
      n == off[p] \div BSIZE
      m == Min({piece[p], BSIZE - (off[p] % BSIZE)}) IN
  /\ does[p] = "writes" /\ piece[p] > 0
  /\ Missing(f, n) = "nothing"
  /\ off' = Put(off, p, off[p] + m)
  /\ piece' = Put(piece, p, piece[p] - m)
  /\ UNCHANGED <<bitmap, inodeVars, locker, does, file, todo, freeing>>

(* The loop of writei() ends, also for want of a block or because the      *)
(* data cannot be copied in; a piece that was written counts.               *)
EndChunk(p) ==
  LET f == file[p] IN
  /\ does[p] = "writes"
  /\ piece[p] > 0 =>
       Missing(f, off[p] \div BSIZE) = "nothing" \/ Blocks \ bitmap = {}
  /\ size' = Put(size, f, Max({size[f], off[p]}))
  /\ locker' = Put(locker, f, NoScribe)
  /\ IF piece[p] = 0 /\ todo[p] > 0
       THEN does' = Put(does, p, "chunk") /\ UNCHANGED <<file, off, todo, piece>>
       ELSE Idle(p)
  /\ UNCHANGED <<bitmap, addrs, table, freeing>>

-----------------------------------------------------------------------------
(* itrunc(), by open() with O_TRUNC or the last iput() of an unlinked file *)

StartTrunc(p, f) ==
  /\ does[p] = "user" /\ locker[f] = NoScribe
  /\ locker' = Put(locker, f, p)
  /\ file' = Put(file, p, f)
  /\ does' = Put(does, p, "truncates")
  /\ freeing' = Put(freeing, p, 0)
  /\ UNCHANGED <<bitmap, inodeVars, off, todo, piece>>

(* The blocks that itrunc() has yet to free are those from place n on: the *)
(* direct ones, those of the table, the indirect block.                    *)
Place(f, n) ==
  CASE n < NDIRECT -> addrs[f][n]
    [] n \in NDIRECT .. MAXFILE - 1 /\ addrs[f][NDIRECT] # 0 -> table[f][n - NDIRECT]
    [] n = MAXFILE -> addrs[f][NDIRECT]
    [] OTHER -> 0

ToFree(p) == {n \in freeing[p] .. MAXFILE : Place(file[p], n) # 0}

Cleared(f, n) ==
  CASE n < NDIRECT -> [addrs EXCEPT ![f][n] = 0]
    [] n = MAXFILE -> [addrs EXCEPT ![f][NDIRECT] = 0]
    [] OTHER -> addrs

(* A plausible bug: the indirect block itself is forgotten. *)
BfreeNotLast(p) ==
  LET n == Min(ToFree(p)) IN
  /\ does[p] = "truncates" /\ ToFree(p) # {}
  /\ bitmap' = IF n = MAXFILE THEN bitmap ELSE bitmap \ {Place(file[p], n)}
  /\ addrs' = Cleared(file[p], n)
  /\ freeing' = Put(freeing, p, n + 1)
  /\ UNCHANGED <<size, table, locker, does, file, off, todo, piece>>

(* The next bfree() *)
Bfree(p) ==
  LET n == Min(ToFree(p)) IN
  /\ does[p] = "truncates" /\ ToFree(p) # {}
  /\ bitmap' = bitmap \ {Place(file[p], n)}
  /\ addrs' = Cleared(file[p], n)
  /\ freeing' = Put(freeing, p, n + 1)
  /\ UNCHANGED <<size, table, locker, does, file, off, todo, piece>>

EndTrunc(p) ==
  LET f == file[p] IN
  /\ does[p] = "truncates" /\ ToFree(p) = {}
  /\ size' = Put(size, f, 0)
  /\ table' = Put(table, f, [n \in 0 .. NINDIRECT - 1 |-> 0])
  /\ locker' = Put(locker, f, NoScribe)
  /\ Idle(p)
  /\ freeing' = Put(freeing, p, 0)
  /\ UNCHANGED <<bitmap, addrs>>

FileDataNext ==
  \E p \in Scribes :
    \/ StartChunk(p) \/ Bmap(p) \/ CopyIn(p) \/ EndChunk(p) \/ Bfree(p) \/ EndTrunc(p)
    \/ \E f \in Files :
         StartTrunc(p, f) \/ \E at \in Offsets, n \in Sizes : WriteFile(p, f, at, n)

FileDataSpec == FileDataInit /\ [][FileDataNext]_fdVars

-----------------------------------------------------------------------------
(* Properties *)

(* Where file f has blocks: an itrunc() under way has freed the first ones.*)
Places(f) ==
  {n \in 0 .. MAXFILE :
     /\ Place(f, n) # 0
     /\ \A p \in Scribes : does[p] = "truncates" /\ file[p] = f => n >= freeing[p]}

(* The bitmap is what the files have, and no block is in two places: no    *)
(* block is freed twice ("freeing free block") and none is lost.           *)
BlocksOwned ==
  /\ bitmap = UNION {{Place(f, n) : n \in Places(f)} : f \in Files}
  /\ Cardinality(bitmap) =
       Cardinality({pl \in Files \X (0 .. MAXFILE) : pl[2] \in Places(pl[1])})

(* A file has a block for every byte up to its size, so that a read(),     *)
(* which has no transaction, never makes bmap() allocate.                  *)
NoHoles ==
  \A f \in Files :
    (\A p \in Scribes : ~(does[p] = "truncates" /\ file[p] = f)) =>
      \A n \in 0 .. MAXFILE - 1 : n * BSIZE < size[f] => Missing(f, n) = "nothing"
=============================================================================
