------------------------------ MODULE CoroFile ------------------------------
(***************************************************************************)
(* The files of coro_file.hpp as they are built without io_uring: a        *)
(* basic_seq_coro_file over a std::fstream and a basic_random_coro_file    *)
(* over a descriptor.  Every read and write is a function that is posted   *)
(* to the executor of the file, one io_context with one thread, and the    *)
(* coroutine that asked for it goes on with its answer.                    *)
(*                                                                         *)
(* There is one path.  The stream library and the kernel are external: a   *)
(* stream has a position for reading and writing, eofbit, failbit and the  *)
(* count of its last read; a byte is the number of the call that wrote it. *)
(* seek() and close() run on the caller's thread, which neither kind of    *)
(* file allows while calls are pending: it is the caller's part to wait.   *)
(***************************************************************************)
EXTENDS Integers, Sequences

CONSTANTS FileUsers,    \* coroutines
          MaxFileCalls, \* bound on the calls
          Content,      \* what the file may hold at the beginning; Missing: nothing
          OpenModes,    \* sets of "in", "out", "app" and "trunc"
          Counts,       \* bytes to read or write
          Offsets       \* where

VARIABLES class,     \* "seq" or "random"
          disk,      \* the bytes of the file, or Missing
          stream,    \* frw_seq_file_
          fd,        \* *prw_random_file_ with what it was opened for, or Closed
          eof_,      \* of the object
          work,      \* the functions that wait in the executor
          reader,    \* what each coroutine waits for, or the answer it has got
          fileCalls, \* calls so far
          opened,    \* how often the file has been opened
          read,      \* what the reads of a stream have returned, in their order,
                     \*   while it has only been read since it was opened first
          finished   \* the calls that have been answered

(* A byte is a number, and so is a place in a file. *)
FileAssumption ==
  /\ Content \subseteq Seq(Nat) \union {<<"missing">>}
  /\ Counts \subseteq Nat /\ Offsets \subseteq Nat

fileVars == <<class, disk, stream, fd, eof_, work, reader, fileCalls, opened, read, finished>>

Missing == <<"missing">>
Closed  == {"closed"}
Tainted == <<"tainted">>

Shut == [is_open |-> FALSE, mode |-> {}, pos |-> 0, eofbit |-> FALSE, failbit |-> FALSE, gcount |-> 0]

Init ==
  /\ class \in {"seq", "random"}
  /\ disk \in Content
  /\ stream = Shut
  /\ fd = Closed
  /\ eof_ = FALSE
  /\ work = <<>>
  /\ reader = [u \in FileUsers |-> [at |-> "idle"]]
  /\ fileCalls = 0 /\ opened = 0
  /\ read = <<>>
  /\ finished = {}

-----------------------------------------------------------------------------
Smaller(x, y) == IF x < y THEN x ELSE y

(* The bytes from an offset on, and the file with some written over it; a    *)
(* file that is written past its end is filled up with zeros.                *)
BytesAt(offset, size) == SubSeq(disk, offset + 1, Smaller(Len(disk), offset + size))

Overwritten(offset, size, number) ==
  [i \in 1..(IF size > 0 /\ offset + size > Len(disk) THEN offset + size ELSE Len(disk)) |->
     IF i \in (offset + 1)..(offset + size) THEN number
     ELSE IF i <= Len(disk) THEN disk[i] ELSE 0]

(* Combinations of modes that fstream::open() knows; those with "out" alone  *)
(* or with "trunc" empty the file, and only reading needs one that is there. *)
StreamOpens(mode) ==
  /\ mode \in {{"in"}, {"out"}, {"app"}, {"in", "out"}, {"trunc", "out"},
               {"in", "out", "trunc"}, {"in", "out", "app"}}
  /\ mode \in {{"in"}, {"in", "out"}} => disk # Missing

Emptied(mode) == IF mode \in {{"out"}, {"trunc", "out"}, {"in", "out", "trunc"}} \/ disk = Missing
                 THEN <<>> ELSE disk

(* to_flags(): "read" and "write" are the access mode of the open() flags.   *)
to_flags(mode) ==
  CASE mode = {"in"}                  -> {"read"}
    [] mode = {"out"}                 -> {"write"}
    [] mode = {"app"}                 -> {"read", "append"}      \* O_APPEND alone is O_RDONLY
    [] mode = {"trunc"}               -> {"read", "truncate"}
    [] mode = {"trunc", "out"}        -> {"write", "create", "truncate"}
    [] mode = {"in", "out", "trunc"}  -> {"read", "write", "create", "truncate"}
    [] mode = {"in", "out", "app"}    -> {"read", "write", "create", "append"}
    [] OTHER                          -> {"read", "write"}

-----------------------------------------------------------------------------
(* A coroutine makes a call; a function for it is posted.                    *)
Free(u) == fileCalls < MaxFileCalls /\ reader[u].at \in {"idle", "returned"}

Call(u, op, mode, offset, size) ==
  [of |-> u, op |-> op, number |-> fileCalls + 1, mode |-> mode, offset |-> offset, size |-> size,
   before |-> disk, done |-> finished]

Post(u, f) ==
  /\ work' = Append(work, f)
  /\ reader' = [reader EXCEPT ![u] = [at |-> "waiting", call |-> f]]
  /\ fileCalls' = fileCalls + 1

Answered(f, ec, n, bytes) == [at |-> "returned", call |-> f, ec |-> ec, n |-> n, bytes |-> bytes]

Returns(u, f, ec, n, bytes) == reader' = [reader EXCEPT ![u] = Answered(f, ec, n, bytes)]

(* open() of one that is open already leaves it as it is and succeeds. *)
OpenAgain(u) == \E mode \in OpenModes :
  /\ Free(u)
  /\ IF class = "seq" THEN stream.is_open ELSE fd # Closed
  /\ Returns(u, Call(u, "open", mode, 0, 0), "ok", 0, <<>>)
  /\ fileCalls' = fileCalls + 1
  /\ UNCHANGED <<class, disk, stream, fd, eof_, work, opened, read, finished>>

(* A stream is opened by the executor while the caller blocks. *)
OpenStream(u) == \E mode \in OpenModes :
  /\ Free(u) /\ class = "seq" /\ ~stream.is_open
  /\ Post(u, Call(u, "open", mode, 0, 0))
  /\ UNCHANGED <<class, disk, stream, fd, eof_, opened, read, finished>>

(* A descriptor is opened by the caller, when nobody else uses the object.   *)
OpenFd(u) == \E mode \in OpenModes :
  LET flags == to_flags(mode)
      ok == disk # Missing \/ "create" \in flags
  IN  /\ Free(u) /\ class = "random" /\ fd = Closed /\ work = <<>>
      /\ fd' = IF ok THEN flags ELSE Closed
      /\ disk' = IF ok /\ ("truncate" \in flags \/ disk = Missing) THEN <<>> ELSE disk
      /\ Returns(u, Call(u, "open", mode, 0, 0), IF ok THEN "ok" ELSE "error", 0, <<>>)
      /\ opened' = opened + 1 /\ fileCalls' = fileCalls + 1
      /\ UNCHANGED <<class, stream, eof_, work, read, finished>>

(* async_read() and async_write() of a stream. *)
Transfer(u) == \E op \in {"read", "write"}, size \in Counts :
  /\ Free(u) /\ class = "seq"
  /\ Post(u, Call(u, op, {}, 0, size))
  /\ UNCHANGED <<class, disk, stream, fd, eof_, opened, read, finished>>

(* async_read_at() and async_write_at(); the function that they post uses    *)
(* the descriptor, which must be there.                                      *)
TransferAt(u) == \E op \in {"read", "write"}, offset \in Offsets, size \in Counts :
  /\ Free(u) /\ class = "random" /\ fd # Closed
  /\ Post(u, Call(u, op, {}, offset, size))
  /\ UNCHANGED <<class, disk, stream, fd, eof_, opened, read, finished>>

(* close(): closing a stream leaves its bits as they are. *)
Closes(u) ==
  /\ Free(u) /\ work = <<>>
  /\ Returns(u, Call(u, "close", {}, 0, 0), "ok", 0, <<>>)
  /\ fileCalls' = fileCalls + 1
  /\ UNCHANGED <<class, disk, eof_, work, opened, read, finished>>

CloseStream(u) == class = "seq" /\ Closes(u) /\ stream' = [stream EXCEPT !.is_open = FALSE] /\ UNCHANGED fd
CloseFd(u) == class = "random" /\ Closes(u) /\ fd' = Closed /\ UNCHANGED stream

(* seek() from the beginning: seekg() clears eofbit, and moves unless        *)
(* failbit is set, which a read that was short has left.                     *)
Seek(u) == \E offset \in Offsets :
  /\ Free(u) /\ work = <<>> /\ class = "seq"
  /\ stream' = IF ~stream.is_open THEN stream
               ELSE [stream EXCEPT !.eofbit = FALSE, !.pos = IF stream.failbit THEN @ ELSE offset]
  /\ Returns(u, Call(u, "seek", {}, offset, 0),
             IF stream.is_open /\ ~stream.failbit THEN "ok" ELSE "error", 0, <<>>)
  /\ fileCalls' = fileCalls + 1
  /\ read' = Tainted
  /\ UNCHANGED <<class, disk, fd, eof_, work, opened, finished>>

-----------------------------------------------------------------------------
(* The functions that are posted, run one at a time in their order.          *)

(* fstream::open() fails on one that is open and leaves failbit; the caller  *)
(* is told whether the stream is open.                                       *)
RunOpen(f) ==
  LET ok == ~stream.is_open /\ StreamOpens(f.mode)
  IN  /\ stream' = IF ok THEN [Shut EXCEPT !.is_open = TRUE, !.mode = f.mode]
                   ELSE [stream EXCEPT !.failbit = TRUE]
      /\ disk' = IF ok THEN Emptied(f.mode) ELSE disk
      /\ opened' = opened + 1
      /\ read' = IF opened = 0 THEN read ELSE Tainted
      /\ Returns(f.of, f, IF stream'.is_open THEN "ok" ELSE "error", 0, <<>>)
      /\ UNCHANGED <<eof_, finished>>

(* fstream::read() and write(): a stream with a bit set does nothing but to  *)
(* set failbit; a read that finds less than it wants sets both.              *)
Good == stream.is_open /\ ~stream.eofbit /\ ~stream.failbit

AfterRead(size) ==
  LET n == IF Good /\ "in" \in stream.mode THEN Len(BytesAt(stream.pos, size)) ELSE 0
  IN  [stream EXCEPT !.gcount = n, !.pos = @ + n,
                     !.eofbit = @ \/ (Good /\ "in" \in stream.mode /\ n < size),
                     !.failbit = @ \/ ~Good \/ n < size \/ (size > 0 /\ "in" \notin stream.mode)]

WritePos == IF "app" \in stream.mode THEN Len(disk) ELSE stream.pos

(* Mutant: only a read that finds nothing meets the end of the file.         *)
MeetsNothing(s) == s.eofbit /\ s.gcount = 0

MeetsEof(s) == s.eofbit

(* Without an error a read returns what it was asked for; at the end of the  *)
(* file it returns the count of the last read, and so does a write that is   *)
(* refused then; anything else is an error.                                  *)
RunSeq(f) ==
  LET writes == Good /\ stream.mode \cap {"out", "app"} # {}
      s == IF f.op = "read" THEN AfterRead(f.size)
           ELSE IF writes THEN [stream EXCEPT !.pos = WritePos + f.size]
           ELSE [stream EXCEPT !.failbit = TRUE]
      fine == IF f.op = "read" THEN ~s.failbit ELSE writes
      bytes == IF f.op = "read" THEN BytesAt(stream.pos, s.gcount) ELSE <<>>
  IN  /\ stream' = s
      /\ disk' = IF f.op = "write" /\ writes THEN Overwritten(WritePos, f.size, f.number) ELSE disk
      /\ eof_' = (eof_ \/ (~fine /\ MeetsEof(s)))
      /\ read' = IF f.op = "write" \/ read = Tainted THEN Tainted ELSE read \o bytes
      /\ IF fine THEN Returns(f.of, f, "ok", f.size, bytes)
         ELSE IF s.eofbit THEN Returns(f.of, f, "ok", s.gcount, bytes)
         ELSE Returns(f.of, f, "error", 0, <<>>)
      /\ finished' = finished \union {f.number}
      /\ UNCHANGED opened

(* pread() and pwrite(); what was opened to append ignores the offset.  An   *)
(* empty answer is taken for the end of the file, also when nothing was      *)
(* asked for.                                                                *)
RunRandom(f) ==
  LET bytes == BytesAt(f.offset, f.size)
      offset == IF "append" \in fd THEN Len(disk) ELSE f.offset
  IN  /\ \/ /\ f.op = "read" /\ "read" \in fd
            /\ eof_' = (eof_ \/ bytes = <<>>)
            /\ Returns(f.of, f, "ok", Len(bytes), bytes)
            /\ UNCHANGED disk
         \/ /\ f.op = "write" /\ "write" \in fd
            /\ disk' = Overwritten(offset, f.size, f.number)
            /\ Returns(f.of, f, "ok", f.size, <<>>)
            /\ UNCHANGED eof_
         \/ /\ f.op \notin fd
            /\ Returns(f.of, f, "error", -1, <<>>)
            /\ UNCHANGED <<disk, eof_>>
      /\ finished' = finished \union {f.number}
      /\ UNCHANGED <<stream, opened, read>>

Run ==
  /\ work # <<>>
  /\ work' = Tail(work)
  /\ LET f == Head(work)
     IN  \/ f.op = "open" /\ RunOpen(f)
         \/ f.op # "open" /\ class = "seq" /\ RunSeq(f)
         \/ f.op # "open" /\ class = "random" /\ RunRandom(f)
  /\ UNCHANGED <<class, fd, fileCalls>>

-----------------------------------------------------------------------------
Next ==
  \/ Run
  \/ \E u \in FileUsers : \/ OpenAgain(u) \/ OpenStream(u) \/ OpenFd(u) \/ Transfer(u)
                          \/ TransferAt(u) \/ CloseStream(u) \/ CloseFd(u) \/ Seek(u)
-----------------------------------------------------------------------------
(* Reading a file that was opened once until eof() says so returns all of    *)
(* it, once and in order, whichever coroutines read how much; and no read    *)
(* has found less than it wanted before eof() says so.                       *)
ReadToTheEnd ==
  class = "seq" /\ opened <= 1 /\ read # Tainted /\ disk # Missing =>
    /\ read = SubSeq(disk, 1, Len(read))
    /\ eof_ /\ stream.is_open /\ "in" \in stream.mode => Len(read) = Len(disk)
    /\ \A u \in FileUsers :
         /\ reader[u].at = "returned" /\ reader[u].call.op = "read" /\ reader[u].ec = "ok"
         /\ reader[u].n < reader[u].call.size
         => eof_

(* A read at an offset returns the bytes that are there: each is the one     *)
(* that was there when the read was asked for, or comes from a write that    *)
(* had not returned by then.                                                 *)
ReadsWhatWasWritten ==
  \A u \in FileUsers :
    class = "random" /\ reader[u].at = "returned" /\ reader[u].call.op = "read" /\ reader[u].ec = "ok" =>
      LET f == reader[u].call
      IN  /\ reader[u].n = Len(reader[u].bytes) /\ reader[u].n <= f.size
          /\ \A i \in 1..reader[u].n :
               \/ f.offset + i <= Len(f.before) /\ reader[u].bytes[i] = f.before[f.offset + i]
               \/ reader[u].bytes[i] \notin f.done

FilesAnswerTruly == ReadToTheEnd /\ ReadsWhatWasWritten
=============================================================================
