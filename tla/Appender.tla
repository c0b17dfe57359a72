------------------------------ MODULE Appender ------------------------------
(***************************************************************************)
(* easylog::appender, appender.hpp: records go to the file from the thread *)
(* that logs, under a lock, or over a queue from a thread of the appender; *)
(* files are rolled when they are full; stop() ends the thread, and a next *)
(* run of the program goes on with the same files.                         *)
(*                                                                         *)
(* A record is a pair of its thread and a number.  The queue is external:  *)
(* the records of one thread keep their order.  What a file holds is the   *)
(* sequence of its records; the mark at its beginning and each record      *)
(* count one towards its size.                                             *)
(***************************************************************************)
EXTENDS Naturals, Sequences, SequencesExt

CONSTANTS Loggers,      \* threads that log
          MaxFileSize,  \* max_file_size_
          MaxFiles,     \* max_files_
          MaxRecords,   \* bound on the records of all threads
          MaxRestarts   \* bound on the runs after the first

(* A limit on the files is set; without one they are never rolled.           *)
AppenderAssumption == MaxFiles \in Nat \ {0} /\ MaxFileSize \in Nat

VARIABLES async,     \* whether the appender has a thread
          queue,     \* queue_
          stop,      \* stop_
          fileSize,  \* file_size_
          files,     \* the files on disk by their numbers, newest first
          written,   \* all records that were written, in order
          writer,    \* where the writing thread is
          logger,    \* the number each thread is at, and whether it must notify
          owner,     \* "running", "notify", "join" or "destroyed"
          restarts

vars == <<async, queue, stop, fileSize, files, written, writer, logger, owner, restarts>>
disk == <<fileSize, files, written>>

Absent == << <<>> >>   \* no file: none has a record without a thread
Numbers == 0..(MaxFiles - 1)

Init ==
  /\ async \in BOOLEAN
  /\ queue = <<>> /\ stop = FALSE
  /\ fileSize = 1 /\ written = <<>>
  /\ files = [n \in Numbers |-> IF n = 0 THEN <<>> ELSE Absent]
  /\ writer = "loop"
  /\ logger = [l \in Loggers |-> [count |-> 0, notify |-> FALSE]]
  /\ owner = "running"
  /\ restarts = 0

Records == Len(queue) + Len(written)

-----------------------------------------------------------------------------
(* Mutant: the newest file is renamed first. *)
RolledForward ==
  [n \in Numbers |-> IF n = 0 THEN <<>> ELSE IF n = MaxFiles - 1 THEN files[0] ELSE Absent]

(* roll_log_files(): the oldest is removed and the others are renamed, the   *)
(* older first; rename() of a file that is not there does nothing.           *)
Rolled ==
  [n \in Numbers |-> IF n = 0 THEN <<>>
                     ELSE IF files[n - 1] # Absent THEN files[n - 1]
                     ELSE IF n = MaxFiles - 1 THEN Absent ELSE files[n]]

Full == fileSize > MaxFileSize
RollIfFull ==
  IF Full THEN files' = Rolled /\ fileSize' = 1 ELSE UNCHANGED <<files, fileSize>>

(* write_record() with the test for a full file, or without it. *)
WriteTo(f, size, record) ==
  /\ files' = [f EXCEPT ![0] = Append(@, record)]
  /\ fileSize' = size + 1
  /\ written' = Append(written, record)

(* The synchronous form, under mtx_. *)
WriteSync(l) ==
  /\ ~async /\ owner = "running" /\ Records < MaxRecords
  /\ logger' = [logger EXCEPT ![l].count = @ + 1]
  /\ LET record == <<l, logger[l].count>>
     IN  IF Full THEN WriteTo(Rolled, 1, record) ELSE WriteTo(files, fileSize, record)
  /\ UNCHANGED <<async, queue, stop, writer, owner, restarts>>

(* write(): into the queue, and then a notification without que_mtx_.        *)
Write(l) ==
  /\ async /\ owner # "destroyed" /\ Records < MaxRecords /\ ~logger[l].notify
  /\ queue' = Append(queue, <<l, logger[l].count>>)
  /\ logger' = [logger EXCEPT ![l] = [count |-> @.count + 1, notify |-> TRUE]]
  /\ UNCHANGED <<async, stop, disk, writer, owner, restarts>>

WakeWriter == writer' = IF writer = "asleep" THEN "predicate" ELSE writer

NotifyOne(l) ==
  /\ logger[l].notify
  /\ logger' = [logger EXCEPT ![l].notify = FALSE]
  /\ WakeWriter
  /\ UNCHANGED <<async, queue, stop, disk, owner, restarts>>

-----------------------------------------------------------------------------
(* The loop of the thread. *)

At(from, to) == async /\ writer = from /\ writer' = to
Others == UNCHANGED <<async, logger, stop, owner, restarts>>

LoopTest ==
  /\ At("loop", IF stop THEN "ended" ELSE "dequeue")
  /\ IF stop THEN UNCHANGED <<files, fileSize>> ELSE RollIfFull
  /\ UNCHANGED <<queue, written>> /\ Others

(* try_dequeue(): the oldest record of some thread. *)
Oldest(i) == \A j \in 1..(i - 1) : queue[j][1] # queue[i][1]
Dequeue ==
  /\ At("dequeue", "look")
  /\ \/ \E i \in DOMAIN queue : /\ Oldest(i) /\ queue' = RemoveAt(queue, i)
                                /\ WriteTo(files, fileSize, queue[i])
     \/ queue = <<>> /\ UNCHANGED <<queue, disk>>
  /\ Others

Look ==
  /\ At("look", IF queue = <<>> THEN "predicate" ELSE "testStop")
  /\ UNCHANGED <<queue, disk>> /\ Others

(* The predicate of wait(); the thread is only asleep a moment later.        *)
Predicate ==
  /\ At("predicate", IF queue # <<>> \/ stop THEN "testStop" ELSE "fallingAsleep")
  /\ UNCHANGED <<queue, disk>> /\ Others
FallAsleep ==
  /\ At("fallingAsleep", "asleep")
  /\ UNCHANGED <<queue, disk>> /\ Others

TestStop ==
  /\ At("testStop", IF stop /\ queue # <<>> THEN "drain" ELSE "loop")
  /\ UNCHANGED <<queue, disk>> /\ Others

Drain ==
  /\ \/ /\ At("drain", "drain")
        /\ \E i \in DOMAIN queue :
             /\ Oldest(i) /\ queue' = RemoveAt(queue, i)
             /\ IF Full THEN WriteTo(Rolled, 1, queue[i]) ELSE WriteTo(files, fileSize, queue[i])
     \/ queue = <<>> /\ At("drain", "loop") /\ UNCHANGED <<queue, disk>>
  /\ Others

-----------------------------------------------------------------------------
(* stop() under mtx_, and the destructor. *)
Owner(from, to) == owner = from /\ owner' = to

Stop ==
  /\ Owner("running", IF async THEN "notify" ELSE "destroyed")
  /\ stop' = (stop \/ async)
  /\ UNCHANGED <<async, queue, disk, writer, logger, restarts>>

StopNotifies ==
  /\ Owner("notify", "join") /\ WakeWriter
  /\ UNCHANGED <<async, queue, stop, disk, logger, restarts>>

Join ==
  /\ Owner("join", "destroyed") /\ writer = "ended"
  /\ \A l \in Loggers : ~logger[l].notify
  /\ UNCHANGED <<async, queue, stop, disk, writer, logger, restarts>>

(* The program starts again: open_log_file() appends to the newest file and  *)
(* counts from zero, since there is a mark in the file.                      *)
Restart ==
  /\ Owner("destroyed", "running")
  /\ restarts < MaxRestarts /\ restarts' = restarts + 1
  /\ async' \in BOOLEAN
  /\ queue' = <<>> /\ stop' = FALSE /\ writer' = "loop"
  /\ fileSize' = 0
  /\ UNCHANGED <<files, written, logger>>

Run == LoopTest \/ Dequeue \/ Look \/ Predicate \/ FallAsleep \/ TestStop \/ Drain

Next ==
  \/ \E l \in Loggers : WriteSync(l) \/ Write(l) \/ NotifyOne(l)
  \/ Run \/ Stop \/ StopNotifies \/ Join \/ Restart

Spec == Init /\ [][Next]_vars
-----------------------------------------------------------------------------
(* The files, read from the oldest to the newest, are the end of what was    *)
(* written, through all rolling and restarts: no gap between two files and   *)
(* none out of order.  Records are only gone when all files were in use, and *)
(* those of a thread are written in the order it logged them, each once.     *)
Kept == FlattenSeq([n \in 1..MaxFiles |->
                      IF files[MaxFiles - n] = Absent THEN <<>> ELSE files[MaxFiles - n]])
FilesHoldTheTail ==
  /\ IsSuffix(Kept, written)
  /\ Kept = written \/ \A n \in Numbers : files[n] # Absent
  /\ \A i, j \in DOMAIN written :
       i < j /\ written[i][1] = written[j][1] => written[i][2] < written[j][2]
=============================================================================
