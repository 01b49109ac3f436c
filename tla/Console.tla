------------------------------ MODULE Console ------------------------------
(***************************************************************************)
(* The input of the console (kernel/console.c): lines that are edited      *)
(* while they are typed, and consoleread().                                *)
(*                                                                         *)
(* A step is a turn of a loop under cons.lock.  The handler keeps the lock *)
(* while it sends the echo; how that is done is in module Uart.            *)
(***************************************************************************)
EXTENDS Naturals, Sequences, FiniteSets, Updates

CONSTANTS
  Readers,           \* processes that read the console
  INPUT_BUF_SIZE,
  CWRAP,             \* the indices are counted modulo CWRAP (2^32)
  Letters,           \* characters without a meaning of their own
  Counts,            \* how many bytes a read() asks for
  NoReader

Newline == "LF"
EndOfFile == "^D"
Typed == Letters \cup {Newline, EndOfFile, "^H", "^U"}
ConsHandler == "consoleintr"

ASSUME ConsoleAssumption ==
  /\ INPUT_BUF_SIZE \in Nat \ {0} /\ CWRAP \in Nat
  /\ CWRAP % INPUT_BUF_SIZE = 0 /\ CWRAP > INPUT_BUF_SIZE
  /\ Counts \subseteq Nat \ {0}
  /\ NoReader \notin Readers /\ ConsHandler \notin Readers

VARIABLES
  r, w, e, cbuf, \* cons.r, cons.w, cons.e and cons.buf
  conslock,      \* who has cons.lock
  rd,            \* where a reader is
  want, got,     \* n and target - n of its consoleread()
  stopped,       \* killed
  key,           \* the character of consoleintr()
  line           \* history: the characters that are to be read, in order

lineVars == <<r, w, e, cbuf, line>>
readerVars == <<conslock, rd, want, got, stopped>>
consVars == <<lineVars, readerVars, key>>

ConsoleInit ==
  /\ r = 0 /\ w = 0 /\ e = 0 /\ line = <<>>
  /\ cbuf = [n \in 0 .. INPUT_BUF_SIZE - 1 |-> "0"]
  /\ conslock = NoReader
  /\ rd = [p \in Readers |-> "user"]
  /\ want = [p \in Readers |-> 0] /\ got = [p \in Readers |-> 0]
  /\ stopped = [p \in Readers |-> FALSE]
  /\ key = "0"

Minus(a, b) == (CWRAP + a - b) % CWRAP
Plus1(a) == (a + 1) % CWRAP
At(a) == cbuf[a % INPUT_BUF_SIZE]

-----------------------------------------------------------------------------
(* consoleread() *)

ReadCons(p, n) ==
  /\ rd[p] = "user" /\ ~stopped[p] /\ conslock = NoReader
  /\ conslock' = p
  /\ rd' = Put(rd, p, "loop")
  /\ want' = Put(want, p, n) /\ got' = Put(got, p, 0)
  /\ UNCHANGED <<lineVars, stopped, key>>

Returns(p) ==
  /\ conslock' = NoReader
  /\ rd' = Put(rd, p, "user")
  /\ want' = Put(want, p, 0) /\ got' = Put(got, p, 0)

ReadKilled(p) ==
  /\ rd[p] = "loop" /\ r = w /\ stopped[p]
  /\ Returns(p)
  /\ UNCHANGED <<lineVars, stopped, key>>

ReadWaits(p) ==
  /\ rd[p] = "loop" /\ r = w /\ ~stopped[p]
  /\ rd' = Put(rd, p, "falls_asleep")
  /\ UNCHANGED <<lineVars, conslock, want, got, stopped, key>>

ReadSleeps(p) ==
  /\ rd[p] = "falls_asleep"
  /\ rd' = Put(rd, p, "asleep")
  /\ conslock' = NoReader
  /\ UNCHANGED <<lineVars, want, got, stopped, key>>

ReadWakes(p) ==
  /\ rd[p] = "woken" /\ conslock = NoReader
  /\ conslock' = p
  /\ rd' = Put(rd, p, "loop")
  /\ UNCHANGED <<lineVars, want, got, stopped, key>>

(* A character is copied out, or cannot be; "a whole line has arrived". *)
ReadChar(p) ==
  /\ rd[p] = "loop" /\ r # w /\ At(r) # EndOfFile
  /\ r' = Plus1(r)
  /\ line' = Tail(line)
  /\ \/ IF At(r) = Newline \/ got[p] + 1 = want[p]
          THEN Returns(p)
          ELSE got' = Incr(got, p) /\ UNCHANGED <<conslock, rd, want>>
     \/ Returns(p)
  /\ UNCHANGED <<w, e, cbuf, stopped, key>>

(* A plausible bug: the end-of-file that ends a line is used up. *)
ReadEofLost(p) ==
  /\ rd[p] = "loop" /\ r # w /\ At(r) = EndOfFile
  /\ r' = Plus1(r)
  /\ line' = IF got[p] = 0 THEN Tail(line) ELSE line
  /\ Returns(p)
  /\ UNCHANGED <<w, e, cbuf, stopped, key>>

(* "Save ^D for next time, to make sure caller gets a 0-byte result." *)
ReadEof(p) ==
  /\ rd[p] = "loop" /\ r # w /\ At(r) = EndOfFile
  /\ r' = IF got[p] > 0 THEN r ELSE Plus1(r)
  /\ line' = IF got[p] = 0 THEN Tail(line) ELSE line
  /\ Returns(p)
  /\ UNCHANGED <<w, e, cbuf, stopped, key>>

ConsoleKill(p) ==
  /\ rd[p] # "user" /\ (~stopped[p] \/ rd[p] = "asleep")
  /\ stopped' = Put(stopped, p, TRUE)
  /\ rd' = IF rd[p] = "asleep" THEN Put(rd, p, "woken") ELSE rd
  /\ UNCHANGED <<lineVars, conslock, want, got, key>>

(* The process exits and another takes its place. *)
ReaderReplaced(p) ==
  /\ rd[p] = "user" /\ stopped[p]
  /\ stopped' = Put(stopped, p, FALSE)
  /\ UNCHANGED <<lineVars, conslock, rd, want, got, key>>

-----------------------------------------------------------------------------
(* consoleintr() *)

Room == Minus(e, r) < INPUT_BUF_SIZE

(* It gets the lock, and sends the echo. *)
KeyComes(c) ==
  /\ conslock = NoReader
  /\ conslock' = ConsHandler
  /\ key' = c
  /\ UNCHANGED <<lineVars, rd, want, got, stopped>>

(* It lets cons.lock go. *)
KeyDone ==
  /\ conslock = ConsHandler
  /\ key' = "0"
  /\ conslock' = NoReader

Cut(s, n) == SubSeq(s, 1, Len(s) - n)

KeyErase ==
  /\ KeyDone
  /\ key = "^H" /\ e # w
  /\ e' = Minus(e, 1)
  /\ line' = Cut(line, 1)
  /\ UNCHANGED <<r, w, cbuf, rd, want, got, stopped>>

(* ^U: nothing that is not yet to be read is a newline. *)
KeyKill ==
  /\ KeyDone
  /\ key = "^U" /\ e # w
  /\ e' = w
  /\ line' = Cut(line, Minus(e, w))
  /\ UNCHANGED <<r, w, cbuf, rd, want, got, stopped>>

Ignored ==
  IF key \in {"^H", "^U"} THEN e = w ELSE ~Room

KeyIgnored ==
  /\ KeyDone
  /\ Ignored
  /\ UNCHANGED <<lineVars, rd, want, got, stopped>>

(* A character is stored; a whole line, or a full buffer, is to be read. *)
KeyStore ==
  /\ KeyDone
  /\ key \notin {"^H", "^U"} /\ Room
  /\ cbuf' = Put(cbuf, e % INPUT_BUF_SIZE, key)
  /\ e' = Plus1(e)
  /\ line' = Append(line, key)
  /\ IF key \in {Newline, EndOfFile} \/ Minus(e', r) = INPUT_BUF_SIZE
       THEN /\ w' = e'
            /\ rd' = [p \in Readers |-> IF rd[p] = "asleep" THEN "woken" ELSE rd[p]]
       ELSE UNCHANGED <<w, rd>>
  /\ UNCHANGED <<r, want, got, stopped>>

-----------------------------------------------------------------------------
ConsoleNext ==
  \/ \E p \in Readers :
       \/ ReadKilled(p) \/ ReadWaits(p) \/ ReadSleeps(p) \/ ReadWakes(p) \/ ReadChar(p)
       \/ ReadEof(p) \/ ConsoleKill(p) \/ ReaderReplaced(p) \/ \E n \in Counts : ReadCons(p, n)
  \/ KeyErase \/ KeyKill \/ KeyIgnored \/ KeyStore \/ \E c \in Typed : KeyComes(c)

ConsoleSpec == ConsoleInit /\ [][ConsoleNext]_consVars

-----------------------------------------------------------------------------
(* Properties *)

(* Between r and e the buffer holds what was typed and edited, in order,   *)
(* across the wrap of buffer and indices, and up to w there are whole      *)
(* lines or a full buffer: an end-of-file waits for a read() of its own.   *)
TypedInOrder ==
  /\ Minus(e, r) = Len(line) /\ Len(line) <= INPUT_BUF_SIZE
  /\ Minus(w, r) <= Len(line)
  /\ \A k \in 1 .. Len(line) : At(r + k - 1) = line[k]
  /\ \A k \in Minus(w, r) + 1 .. Len(line) : line[k] \notin {Newline, EndOfFile}

(* A reader that sleeps has nothing to read. *)
ReadersWaitForLines ==
  conslock = NoReader => \A p \in Readers : rd[p] = "asleep" => r = w
=============================================================================
