------------------------------ MODULE IoProofs ------------------------------
(***************************************************************************)
(* Proofs about the files and the awaitable operations of coro_io, as      *)
(* MCApps composes them, with the lemmas of AppsProofs.                    *)
(***************************************************************************)
EXTENDS AppsProofs

-----------------------------------------------------------------------------
(* CoroFile.  What waits in the executor has not been answered, and what has *)
(* changed in the file since a call was made was written by calls that had   *)
(* not been answered then; and a stream that has only been read since it was *)
(* opened has returned what is before its position.                          *)

(* The files start as their module says and make its steps only. *)
LEMMA FileRuns ==
  /\ MCInit => File!Init
  /\ [MCNext]_<<component, vars, appVars>> => [File!Next]_fileVars
BY DEF MCInit, MCNext, appVars, fileVars

Byte == Nat \union {"missing"}

FileCall == [of : FileUsers, op : {"open", "read", "write"},
             number : Nat \ {0}, mode : OpenModes \union {{}}, offset : Nat, size : Nat,
             before : Seq(Byte), done : SUBSET (Nat \ {0})]

Stream == [is_open : BOOLEAN, mode : OpenModes \union {{}}, pos : Nat, eofbit : BOOLEAN,
           failbit : BOOLEAN, gcount : Nat]

FileTypeOK ==
  /\ class \in {"seq", "random"}
  /\ disk \in Seq(Byte)
  /\ stream \in Stream
  /\ eof_ \in BOOLEAN
  /\ work \in Seq(FileCall)
  /\ DOMAIN reader = FileUsers
  /\ fileCalls \in Nat /\ opened \in Nat
  /\ finished \in SUBSET (Nat \ {0})

(* The calls that wait are different, not answered, and younger than those   *)
(* that were answered when they were made.                                   *)
Pending ==
  /\ \A m \in finished : m <= fileCalls
  /\ \A k \in 1..Len(work) :
       /\ work[k].number <= fileCalls /\ work[k].number \notin finished
       /\ work[k].done \subseteq finished
       /\ \A j \in 1..Len(work) : j # k => work[j].number # work[k].number

(* Each byte of the file is the one that was there when the call was made,   *)
(* or was written since by a call that had not been answered.                *)
Recent(f, d) ==
  \A i \in 1..Len(d) : \/ i <= Len(f.before) /\ d[i] = f.before[i]
                       \/ d[i] \notin f.done

AllRecent ==
  class = "random" => \A k \in 1..Len(work) : work[k].op # "open" /\ Recent(work[k], disk)

(* A stream that was opened at most once and has not been written or moved.  *)
OnlyRead == class = "seq" /\ opened <= 1 /\ read # File!Tainted

ShortRead(a) == a.at = "returned" /\ a.call.op = "read" /\ a.ec = "ok" /\ a.n < a.call.size

ReadSoFar ==
  /\ opened = 0 => ~stream.is_open /\ ~stream.eofbit /\ ~eof_ /\ stream.pos = 0
  /\ read = SubSeq(disk, 1, stream.pos) /\ stream.pos <= Len(disk)
  /\ stream.eofbit => stream.pos = Len(disk)
  /\ eof_ => stream.eofbit
  /\ \A u \in FileUsers : ShortRead(reader[u]) => eof_

FileInv ==
  /\ FileTypeOK /\ Pending /\ AllRecent
  /\ OnlyRead => ReadSoFar
  /\ File!ReadsWhatWasWritten

Bytes(d, o, len) == SubSeq(d, o + 1, File!Smaller(Len(d), o + len))

(* The bytes from a place on are those of the file.                          *)
LEMMA BytesOfFile ==
  ASSUME NEW d \in Seq(Byte), NEW o \in Nat, NEW len \in Nat
  PROVE  /\ Bytes(d, o, len) \in Seq(Byte)
         /\ Len(Bytes(d, o, len)) \in Nat /\ Len(Bytes(d, o, len)) <= len
         /\ \A i \in 1..Len(Bytes(d, o, len)) :
              o + i <= Len(d) /\ Bytes(d, o, len)[i] = d[o + i]
         /\ o <= Len(d) =>
              /\ Len(Bytes(d, o, len)) < len => o + Len(Bytes(d, o, len)) = Len(d)
              /\ o + Len(Bytes(d, o, len)) <= Len(d)
              /\ Bytes(d, o, len) = SubSeq(d, o + 1, o + Len(Bytes(d, o, len)))
  <1> DEFINE b == Bytes(d, o, len)
  <1>1. PICK n \in Nat : n = File!Smaller(Len(d), o + len)
    BY DEF File!Smaller
  <1>2. n <= Len(d) /\ n <= o + len /\ (n = Len(d) \/ n = o + len)
    BY <1>1 DEF File!Smaller
  <1>m. PICK m \in Int : m = o + 1
    OBVIOUS
  <1>3. b = SubSeq(d, m, n)
    BY <1>1, <1>m DEF Bytes
  <1> HIDE DEF b
  <1> SUFFICES /\ b \in Seq(Byte) /\ Len(b) \in Nat /\ Len(b) <= len
               /\ \A i \in 1..Len(b) : o + i <= Len(d) /\ b[i] = d[o + i]
               /\ o <= Len(d) => /\ Len(b) < len => o + Len(b) = Len(d)
                                /\ o + Len(b) <= Len(d) /\ b = SubSeq(d, o + 1, o + Len(b))
    BY DEF b
  <1>4. CASE o < n
    <2>1. \A i \in m..n : d[i] \in Byte
      BY <1>2, <1>m
    <2>a. n \in Int
      OBVIOUS
    <2>b. /\ SubSeq(d, m, n) \in Seq(Byte)
          /\ Len(SubSeq(d, m, n)) = IF m <= n THEN n - m + 1 ELSE 0
          /\ \A i \in 1..(n - m + 1) : SubSeq(d, m, n)[i] = d[m + i - 1]
      BY <2>1, <2>a, SubSeqProperties
    <2>2. b \in Seq(Byte) /\ Len(b) = n - o
      <3>1. m <= n /\ n - m + 1 = n - o
        BY <1>m, <1>4
      <3> QED
        BY <3>1, <2>b, <1>3
    <2>4. ASSUME NEW i \in 1..(n - o) PROVE b[i] = d[o + i]
      <3>1. i \in 1..(n - m + 1) /\ m + i - 1 = o + i
        BY <1>4, <1>m
      <3> QED
        BY <3>1, <2>b, <1>3
    <2>5. o + Len(b) = n
      BY <2>2
    <2>6. o <= Len(d)
      BY <1>2, <1>4
    <2>7. b = SubSeq(d, o + 1, o + Len(b))
      BY <2>5, <1>3, <1>m
    <2>8. /\ Len(b) \in Nat /\ Len(b) <= len /\ o + Len(b) <= Len(d)
          /\ Len(b) < len => o + Len(b) = Len(d)
      BY <2>2, <2>5, <1>2, <1>4
    <2>9. \A i \in 1..Len(b) : o + i <= Len(d) /\ b[i] = d[o + i]
      <3>1. \A i \in 1..(n - o) : o + i <= Len(d)
        BY <1>2
      <3> QED
        BY <3>1, <2>2, <2>4
    <2> QED
      BY <2>2, <2>7, <2>8, <2>9
  <1>5. CASE ~(o < n)
    <2>1. ~(m <= n) /\ n \in Int /\ \A i \in m..n : d[i] \in Byte
      BY <1>5, <1>m
    <2>2. Len(b) = 0 /\ b \in Seq(Byte)
      <3>1. /\ SubSeq(d, m, n) \in Seq(Byte)
            /\ Len(SubSeq(d, m, n)) = IF m <= n THEN n - m + 1 ELSE 0
        BY <2>1, SubSeqProperties
      <3> QED
        BY <3>1, <2>1, <1>3
    <2>3. o <= Len(d) => o + Len(b) = n
      BY <2>2, <1>2, <1>5
    <2>4. Len(b) \in Nat /\ Len(b) <= len /\ ~(\E i \in 1..Len(b) : TRUE)
      BY <2>2
    <2>5. o <= Len(d) => /\ Len(b) < len => o + Len(b) = Len(d)
                        /\ o + Len(b) <= Len(d)
      BY <2>2, <2>3, <1>2
    <2>6. o <= Len(d) => b = SubSeq(d, o + 1, o + Len(b))
      BY <2>3, <1>3, <1>m
    <2> QED
      BY <2>2, <2>4, <2>5, <2>6
  <1> QED
    BY <1>4, <1>5

(* What is read behind what was read continues it.                           *)
LEMMA ReadOn ==
  ASSUME NEW d \in Seq(Byte), NEW o \in Nat, o <= Len(d), NEW len \in Nat
  PROVE  SubSeq(d, 1, o) \o Bytes(d, o, len) = SubSeq(d, 1, o + Len(Bytes(d, o, len)))
  <1> DEFINE b == Bytes(d, o, len)
  <1>0. Len(b) \in Nat /\ o + Len(b) <= Len(d) /\ b = SubSeq(d, o + 1, o + Len(b))
    BY BytesOfFile
  <1> HIDE DEF b
  <1>1. PICK n \in Nat : n = o + Len(b) /\ b = SubSeq(d, o + 1, n) /\ o <= n /\ n <= Len(d)
    BY <1>0
  <1>2. 1 \in 1..(Len(d) + 1) /\ o \in (1 - 1)..Len(d) /\ n \in o..Len(d)
    BY <1>1
  <1>3. SubSeq(d, 1, o) \o SubSeq(d, o + 1, n) = SubSeq(d, 1, n)
    BY <1>2, ConcatAdjacentSubSeq
  <1> QED
    BY <1>1, <1>3 DEF b

(* Writing keeps a file of bytes, and what a call finds there recent.        *)
LEMMA StaysRecent ==
  ASSUME FileTypeOK, NEW o \in Nat, NEW len \in Nat, NEW number \in Nat
  PROVE  /\ File!Overwritten(o, len, number) \in Seq(Byte)
         /\ \A f \in FileCall : Recent(f, disk) /\ number \notin f.done
                                => Recent(f, File!Overwritten(o, len, number))
  <1> DEFINE d == File!Overwritten(o, len, number)
  <1>1. PICK n \in Nat : n = IF len > 0 /\ o + len > Len(disk) THEN o + len ELSE Len(disk)
    BY DEF FileTypeOK
  <1>2. d = [i \in 1..n |-> IF i \in (o + 1)..(o + len) THEN number
                            ELSE IF i <= Len(disk) THEN disk[i] ELSE 0]
    BY <1>1 DEF File!Overwritten
  <1> HIDE DEF d
  <1>3. \A i \in 1..n : d[i] \in {number, 0} \/ (i <= Len(disk) /\ d[i] = disk[i])
    BY <1>2
  <1>4. ASSUME NEW i \in 1..n PROVE d[i] \in Byte
    BY <1>3 DEF FileTypeOK, Byte
  <1>5. d \in Seq(Byte) /\ Len(d) = n
    BY <1>2, <1>4
  <1>6. ASSUME NEW f \in FileCall, Recent(f, disk), number \notin f.done, NEW i \in 1..n
        PROVE  \/ i <= Len(f.before) /\ d[i] = f.before[i]
               \/ d[i] \notin f.done
    <2>1. 0 \notin f.done
      BY DEF FileCall
    <2> QED
      BY <2>1, <1>3, <1>6 DEF Recent, FileTypeOK
  <1> QED
    BY <1>5, <1>6 DEF Recent, d

(* What a read of a file has returned, it has returned.                      *)
Truly(a) ==
  a.at = "returned" /\ a.call.op = "read" /\ a.ec = "ok" =>
    LET f == a.call
    IN  /\ a.n = Len(a.bytes) /\ a.n <= f.size
        /\ \A i \in 1..a.n :
             \/ f.offset + i <= Len(f.before) /\ a.bytes[i] = f.before[f.offset + i]
             \/ a.bytes[i] \notin f.done

(* An answer more leaves the answers that were given as they are.            *)
LEMMA OneAnswerMore ==
  ASSUME FileTypeOK, File!ReadsWhatWasWritten, class' = class, NEW u \in FileUsers, NEW a,
         reader' = [reader EXCEPT ![u] = a], class = "random" => Truly(a)
  PROVE  /\ File!ReadsWhatWasWritten' /\ DOMAIN reader' = FileUsers
         /\ reader'[u] = a /\ \A v \in FileUsers : v # u => reader'[v] = reader[v]
  <1>1. /\ reader'[u] = a /\ \A v \in FileUsers : v # u => reader'[v] = reader[v]
        /\ DOMAIN reader' = FileUsers
    BY DEF FileTypeOK
  <1>2. File!ReadsWhatWasWritten <=> (class = "random" => \A v \in FileUsers : Truly(reader[v]))
    BY DEF File!ReadsWhatWasWritten, Truly
  <1>3. File!ReadsWhatWasWritten'
          <=> (class' = "random" => \A v \in FileUsers : Truly(reader'[v]))
    BY DEF File!ReadsWhatWasWritten, Truly
  <1>4. ASSUME class = "random", NEW v \in FileUsers PROVE Truly(reader'[v])
    <2>1. CASE v = u
      BY <2>1, <1>1, <1>4
    <2>2. CASE v # u
      BY <2>2, <1>1, <1>2, <1>4
    <2> QED
      BY <2>1, <2>2
  <1> QED
    BY <1>1, <1>3, <1>4

(* A call that is answered at once.                                          *)
LEMMA AnsweredAtOnce ==
  ASSUME FileInv, NEW u \in FileUsers, NEW op, op # "read", NEW mode, NEW o, NEW ec, NEW n,
         File!Returns(u, File!Call(u, op, mode, o, 0), ec, n, <<>>),
         fileCalls' = fileCalls + 1, UNCHANGED <<class, work, finished>>
  PROVE  /\ Pending' /\ File!ReadsWhatWasWritten' /\ DOMAIN reader' = FileUsers
         /\ fileCalls' \in Nat
         /\ \A v \in FileUsers : ShortRead(reader'[v]) => ShortRead(reader[v])
         /\ work = <<>> \/ disk' = disk => AllRecent'
  <1> DEFINE f == File!Call(u, op, mode, o, 0)
             a == File!Answered(f, ec, n, <<>>)
  <1>1. a.at = "returned" /\ a.call.op = op
    BY DEF File!Answered, File!Call
  <1>2. reader' = [reader EXCEPT ![u] = a]
    BY DEF File!Returns
  <1> HIDE DEF a, f
  <1>3. Truly(a) /\ ~ShortRead(a)
    BY <1>1 DEF Truly, ShortRead
  <1>4. /\ File!ReadsWhatWasWritten' /\ DOMAIN reader' = FileUsers
        /\ reader'[u] = a /\ \A v \in FileUsers : v # u => reader'[v] = reader[v]
    <2>1. FileTypeOK /\ File!ReadsWhatWasWritten
      BY DEF FileInv
    <2>2. class' = class /\ (class = "random" => Truly(a))
      BY <1>3
    <2> QED
      BY <2>1, <2>2, <1>2, OneAnswerMore, ZenonT(30)
  <1>5. fileCalls' \in Nat /\ Pending'
    <2>1. FileTypeOK /\ Pending
      BY DEF FileInv
    <2>2. fileCalls \in Nat /\ fileCalls' \in Nat
      BY <2>1 DEF FileTypeOK
    <2>3. ASSUME NEW k \in 1..Len(work) PROVE work[k].number \in Nat
      <3>1. work[k] \in FileCall
        BY <2>1 DEF FileTypeOK
      <3> QED
        BY <3>1 DEF FileCall
    <2>4. \A k \in 1..Len(work) : work[k].number <= fileCalls'
      BY <2>1, <2>2, <2>3 DEF Pending
    <2>5. \A k \in finished : k <= fileCalls'
      BY <2>1, <2>2 DEF Pending, FileTypeOK
    <2> QED
      BY <2>1, <2>2, <2>4, <2>5 DEF Pending
  <1>6. work = <<>> \/ disk' = disk => AllRecent'
    BY DEF FileInv, AllRecent
  <1> QED
    BY <1>3, <1>4, <1>5, <1>6

(* A call that is posted to the executor.                                    *)
LEMMA PostedCall ==
  ASSUME FileInv, NEW u \in FileUsers, NEW op \in {"open", "read", "write"},
         NEW mode \in OpenModes \union {{}}, NEW o \in Nat, NEW len \in Nat,
         class = "random" => op # "open",
         File!Post(u, File!Call(u, op, mode, o, len)),
         UNCHANGED <<class, disk, stream, fd, eof_, opened, read, finished>>
  PROVE  FileInv'
  <1> DEFINE f == File!Call(u, op, mode, o, len)
             a == [at |-> "waiting", call |-> f]
             m == Len(work)
  <1>0. FileTypeOK /\ Pending /\ AllRecent /\ File!ReadsWhatWasWritten /\ (OnlyRead => ReadSoFar)
    BY DEF FileInv
  <1>1. /\ f.number = fileCalls + 1 /\ f.before = disk /\ f.done = finished /\ f.op = op
        /\ f \in FileCall
    BY <1>0 DEF File!Call, FileCall, FileTypeOK
  <1>2. /\ work' = Append(work, f) /\ reader' = [reader EXCEPT ![u] = a]
        /\ fileCalls' = fileCalls + 1
    BY DEF File!Post
  <1>3. a.at = "waiting"
    OBVIOUS
  <1> HIDE DEF f, a
  <1>4. Truly(a) /\ ~ShortRead(a)
    BY <1>3 DEF Truly, ShortRead
  <1>5. /\ File!ReadsWhatWasWritten' /\ DOMAIN reader' = FileUsers
        /\ reader'[u] = a /\ \A v \in FileUsers : v # u => reader'[v] = reader[v]
    BY <1>0, <1>2, <1>4, OneAnswerMore
  <1>6. /\ m \in Nat /\ work' \in Seq(FileCall) /\ Len(work') = m + 1
        /\ \A k \in 1..m : work'[k] = work[k]
        /\ work'[m + 1] = f
    BY <1>0, <1>1, <1>2 DEF FileTypeOK
  <1>7. FileTypeOK'
    BY <1>0, <1>2, <1>5, <1>6 DEF FileTypeOK
  <1>8. Pending'
    <2>1. fileCalls \in Nat
      BY <1>0 DEF FileTypeOK
    <2>2. \A n \in finished' : n <= fileCalls'
      BY <1>0, <1>2, <2>1 DEF Pending, FileTypeOK
    <2>3. ASSUME NEW k \in 1..m
          PROVE  /\ work'[k] = work[k] /\ work'[k].number <= fileCalls
                 /\ work'[k].number \notin finished /\ work'[k].done \subseteq finished
                 /\ work[k].number \in Nat
      <3>1. work[k] \in FileCall
        BY <1>0, <1>6 DEF FileTypeOK
      <3> QED
        BY <3>1, <1>0, <1>6 DEF Pending, FileCall
    <2>4. ASSUME NEW k \in 1..(m + 1)
          PROVE  /\ work'[k].number <= fileCalls' /\ work'[k].number \notin finished'
                 /\ work'[k].done \subseteq finished'
                 /\ \A j \in 1..(m + 1) : j # k => work'[j].number # work'[k].number
      <3>1. CASE k = m + 1
        <4>1. work'[k].number = fileCalls + 1 /\ work'[k].done = finished
          BY <3>1, <1>1, <1>6
        <4>2. fileCalls + 1 \notin finished
          BY <1>0, <2>1 DEF Pending
        <4>3. ASSUME NEW j \in 1..(m + 1), j # k PROVE work'[j].number # work'[k].number
          <5>1. j \in 1..m
            BY <4>3, <3>1, <1>6
          <5> QED
            BY <5>1, <4>1, <2>1, <2>3
        <4> QED
          BY <4>1, <4>2, <4>3, <2>1, <1>2
      <3>2. CASE k # m + 1
        <4>1. k \in 1..m
          BY <3>2, <1>6
        <4>2. ASSUME NEW j \in 1..(m + 1), j # k PROVE work'[j].number # work'[k].number
          <5>1. CASE j = m + 1
            BY <5>1, <4>1, <1>1, <1>6, <2>1, <2>3
          <5>2. CASE j # m + 1
            <6>1. j \in 1..m
              BY <5>2, <1>6
            <6> QED
              BY <6>1, <4>1, <4>2, <1>0, <1>6 DEF Pending
          <5> QED
            BY <5>1, <5>2
        <4>3. work'[k].number <= fileCalls'
          BY <4>1, <2>1, <2>3, <1>2
        <4> QED
          BY <4>1, <4>2, <4>3, <2>3
      <3> QED
        BY <3>1, <3>2
    <2> QED
      BY <2>2, <2>4, <1>6 DEF Pending
  <1>9. AllRecent'
    <2> SUFFICES ASSUME class = "random", NEW k \in 1..(m + 1)
                 PROVE  work'[k].op # "open" /\ Recent(work'[k], disk)
      BY <1>6 DEF AllRecent
    <2>1. CASE k = m + 1
      BY <2>1, <1>1, <1>6 DEF Recent
    <2>2. CASE k # m + 1
      <3>1. k \in 1..m
        BY <2>2, <1>6
      <3> QED
        BY <3>1, <1>0, <1>6 DEF AllRecent
    <2> QED
      BY <2>1, <2>2
  <1>10. OnlyRead' => ReadSoFar'
    BY <1>0, <1>4, <1>5 DEF OnlyRead, ReadSoFar
  <1> QED
    BY <1>5, <1>7, <1>8, <1>9, <1>10 DEF FileInv

(* A caller that opens what is open, closes, or moves the position.          *)
LEMMA CallerStep ==
  ASSUME FileInv, NEW u \in FileUsers,
         \/ File!OpenAgain(u) \/ File!OpenStream(u) \/ File!OpenFd(u) \/ File!Transfer(u)
         \/ File!TransferAt(u) \/ File!CloseStream(u) \/ File!CloseFd(u) \/ File!Seek(u)
  PROVE  FileInv'
  <1>0. FileTypeOK /\ Pending /\ AllRecent /\ File!ReadsWhatWasWritten /\ (OnlyRead => ReadSoFar)
    BY DEF FileInv
  <1>a. /\ Counts \subseteq Nat /\ Offsets \subseteq Nat
    BY InstanceAssumption DEF File!FileAssumption
  <1>1. ASSUME NEW op, op # "read", NEW mode, NEW o, NEW ec, NEW n,
               File!Returns(u, File!Call(u, op, mode, o, 0), ec, n, <<>>),
               fileCalls' = fileCalls + 1, UNCHANGED <<class, eof_, work, opened, finished>>,
               work = <<>> \/ disk' = disk, disk' \in Seq(Byte), stream' \in Stream,
               OnlyRead' => /\ disk' = disk /\ read' = read
                            /\ stream' \in {stream, [stream EXCEPT !.is_open = FALSE]}
        PROVE  FileInv'
    <2>1. /\ Pending' /\ File!ReadsWhatWasWritten' /\ DOMAIN reader' = FileUsers
          /\ fileCalls' \in Nat
          /\ \A v \in FileUsers : ShortRead(reader'[v]) => ShortRead(reader[v])
          /\ work = <<>> \/ disk' = disk => AllRecent'
      BY <1>1, AnsweredAtOnce
    <2>2. FileTypeOK'
      BY <1>0, <1>1, <2>1 DEF FileTypeOK
    <2>3. ASSUME OnlyRead' PROVE ReadSoFar'
      <3>1. OnlyRead
        BY <1>1, <2>3 DEF OnlyRead
      <3>2. ReadSoFar
        BY <3>1, <1>0
      <3>3. /\ stream'.pos = stream.pos /\ stream'.eofbit = stream.eofbit
            /\ stream'.is_open => stream.is_open
        BY <1>0, <1>1, <2>3 DEF FileTypeOK, Stream
      <3> QED
        BY <3>2, <3>3, <1>1, <2>1, <2>3 DEF ReadSoFar
    <2> QED
      BY <1>1, <2>1, <2>2, <2>3 DEF FileInv
  <1>2. CASE File!OpenAgain(u)
    <2>1. /\ disk' \in Seq(Byte) /\ stream' \in Stream
          /\ disk' = disk /\ read' = read /\ stream' = stream
      BY <1>0, <1>2 DEF File!OpenAgain, FileTypeOK
    <2> QED
      BY <1>1, <1>2, <2>1 DEF File!OpenAgain
  <1>3. CASE File!OpenStream(u)
    BY <1>3, PostedCall DEF File!OpenStream
  <1>4. CASE File!OpenFd(u)
    <2>1. work = <<>> /\ UNCHANGED <<class, stream, eof_, work, read, finished>> /\ class = "random"
      BY <1>4 DEF File!OpenFd
    <2>2. disk' \in Seq(Byte)
      BY <1>0, <1>4 DEF File!OpenFd, FileTypeOK
    <2>3. ~OnlyRead' /\ opened' \in Nat
      BY <1>0, <1>4, <2>1 DEF OnlyRead, File!OpenFd, FileTypeOK
    <2>4. /\ Pending' /\ File!ReadsWhatWasWritten' /\ DOMAIN reader' = FileUsers
          /\ fileCalls' \in Nat /\ AllRecent'
      BY <1>4, <2>1, AnsweredAtOnce DEF File!OpenFd
    <2> QED
      BY <1>0, <2>1, <2>2, <2>3, <2>4 DEF FileInv, FileTypeOK
  <1>5. CASE File!Transfer(u)
    <2>1. PICK op \in {"read", "write"}, len \in Counts :
            File!Post(u, File!Call(u, op, {}, 0, len))
      BY <1>5 DEF File!Transfer
    <2>2. class = "seq" /\ UNCHANGED <<class, disk, stream, fd, eof_, opened, read, finished>>
      BY <1>5 DEF File!Transfer
    <2>3. op \in {"open", "read", "write"} /\ len \in Nat /\ {} \in OpenModes \union {{}}
      BY <1>a
    <2> QED
      BY <2>1, <2>2, <2>3, PostedCall
  <1>6. CASE File!TransferAt(u)
    <2>1. PICK op \in {"read", "write"}, o \in Offsets, len \in Counts :
            File!Post(u, File!Call(u, op, {}, o, len))
      BY <1>6 DEF File!TransferAt
    <2>2. UNCHANGED <<class, disk, stream, fd, eof_, opened, read, finished>>
      BY <1>6 DEF File!TransferAt
    <2>3. /\ op \in {"open", "read", "write"} /\ op # "open" /\ o \in Nat /\ len \in Nat
          /\ {} \in OpenModes \union {{}}
      BY <1>a
    <2> QED
      BY <2>1, <2>2, <2>3, PostedCall
  <1>7. CASE File!CloseStream(u)
    <2>1. stream' = [stream EXCEPT !.is_open = FALSE] /\ stream' \in Stream
      BY <1>0, <1>7 DEF File!CloseStream, FileTypeOK, Stream
    <2>2. disk' = disk /\ read' = read /\ disk' \in Seq(Byte)
      BY <1>0, <1>7 DEF File!CloseStream, File!Closes, FileTypeOK
    <2> QED
      BY <1>1, <1>7, <2>1, <2>2 DEF File!CloseStream, File!Closes
  <1>8. CASE File!CloseFd(u)
    <2>1. stream' = stream /\ stream' \in Stream
      BY <1>0, <1>8 DEF File!CloseFd, FileTypeOK
    <2>2. disk' = disk /\ read' = read /\ disk' \in Seq(Byte)
      BY <1>0, <1>8 DEF File!CloseFd, File!Closes, FileTypeOK
    <2> QED
      BY <1>1, <1>8, <2>1, <2>2 DEF File!CloseFd, File!Closes
  <1>9. CASE File!Seek(u)
    <2>1. PICK o \in Offsets :
            /\ stream' = IF ~stream.is_open THEN stream
                         ELSE [stream EXCEPT !.eofbit = FALSE,
                                             !.pos = IF stream.failbit THEN @ ELSE o]
            /\ File!Returns(u, File!Call(u, "seek", {}, o, 0),
                   IF stream.is_open /\ ~stream.failbit THEN "ok" ELSE "error", 0, <<>>)
      BY <1>9 DEF File!Seek
    <2>2. stream' \in Stream
      BY <1>0, <1>a, <2>1 DEF FileTypeOK, Stream
    <2>3. /\ fileCalls' = fileCalls + 1 /\ UNCHANGED <<class, disk, eof_, work, opened, finished>>
          /\ ~OnlyRead' /\ disk' \in Seq(Byte)
      BY <1>0, <1>9 DEF File!Seek, OnlyRead, FileTypeOK
    <2> QED
      BY <1>1, <2>1, <2>2, <2>3
  <1> QED
    BY <1>2, <1>3, <1>4, <1>5, <1>6, <1>7, <1>8, <1>9

(* The files begin with nothing asked for.                                   *)
LEMMA FileInit == File!Init => FileInv
  <1> SUFFICES ASSUME File!Init PROVE FileInv
    OBVIOUS
  <1>1. disk \in Seq(Byte)
    <2>1. disk \in Seq(Nat) \/ disk = <<"missing">>
      BY InstanceAssumption DEF File!Init, File!FileAssumption
    <2>2. Nat \subseteq Byte /\ <<"missing">> \in Seq(Byte)
      BY DEF Byte
    <2> QED
      BY <2>1, <2>2, SeqMonotonic
  <1>2. stream \in Stream /\ stream = File!Shut
    <2>1. File!Shut \in Stream
      BY DEF File!Shut, Stream
    <2> QED
      BY <2>1 DEF File!Init
  <1>3. FileTypeOK
    <2>1. /\ class \in {"seq", "random"} /\ eof_ \in BOOLEAN /\ work \in Seq(FileCall)
          /\ finished \in SUBSET (Nat \ {0}) /\ fileCalls \in Nat /\ opened \in Nat
      <3>1. /\ class \in {"seq", "random"} /\ eof_ = FALSE /\ work = <<>> /\ finished = {}
            /\ fileCalls = 0 /\ opened = 0
        BY DEF File!Init
      <3>2. work \in Seq(FileCall)
        BY <3>1, EmptySeq
      <3>3. eof_ \in BOOLEAN /\ finished \in SUBSET (Nat \ {0})
        BY <3>1
      <3>4. fileCalls \in Nat /\ opened \in Nat
        BY <3>1
      <3> QED
        BY <3>1, <3>2, <3>3, <3>4
    <2>2. DOMAIN reader = FileUsers
      BY DEF File!Init
    <2> QED
      BY <1>1, <1>2, <2>1, <2>2 DEF FileTypeOK
  <1>4. Pending /\ AllRecent
    BY DEF File!Init, Pending, AllRecent
  <1>5. ASSUME NEW u \in FileUsers PROVE reader[u].at = "idle"
    BY DEF File!Init
  <1>6. File!ReadsWhatWasWritten
    BY <1>5 DEF File!ReadsWhatWasWritten
  <1>7. ReadSoFar
    <2>1. SubSeq(disk, 1, 0) = <<>>
      BY <1>1
    <2> QED
      BY <1>1, <1>2, <1>5, <2>1 DEF File!Init, ReadSoFar, File!Shut, ShortRead
  <1> QED
    BY <1>3, <1>4, <1>6, <1>7 DEF FileInv

(* What the executor does with the call at the head of its queue.            *)
LEMMA TakenFromQueue ==
  ASSUME FileInv, work # <<>>, work' = Tail(work), UNCHANGED <<class, fileCalls>>,
         NEW f, f = Head(work),
         finished' \in {finished, finished \union {f.number}}
  PROVE  /\ f \in FileCall /\ f.number \notin finished /\ f.number <= fileCalls
         /\ f.done \subseteq finished
         /\ class = "random" => f.op # "open" /\ Recent(f, disk)
         /\ work' \in Seq(FileCall) /\ Pending' /\ finished' \in SUBSET (Nat \ {0})
         /\ (\A g \in FileCall : Recent(g, disk) /\ f.number \notin g.done => Recent(g, disk'))
              => AllRecent'
  <1> DEFINE m == Len(work)
  <1>0. FileTypeOK /\ Pending /\ AllRecent
    BY DEF FileInv
  <1>1. /\ m \in Nat /\ m > 0 /\ 1 \in 1..m /\ f = work[1] /\ f \in FileCall
        /\ work' \in Seq(FileCall) /\ Len(work') = m - 1
        /\ \A k \in 1..(m - 1) : work'[k] = work[k + 1] /\ k + 1 \in 1..m /\ k + 1 # 1
    BY <1>0, HeadTailProperties DEF FileTypeOK
  <1> HIDE DEF m
  <1>2. /\ f.number \notin finished /\ f.number <= fileCalls /\ f.done \subseteq finished
        /\ \A j \in 1..m : j # 1 => work[j].number # f.number
    BY <1>0, <1>1 DEF Pending, m
  <1>3. f.number \in Nat \ {0}
    BY <1>1 DEF FileCall
  <1>4. Pending'
    <2>1. \A n \in finished' : n <= fileCalls'
      BY <1>0, <1>2 DEF Pending
    <2>2. ASSUME NEW k \in 1..(m - 1)
          PROVE  /\ work'[k].number <= fileCalls' /\ work'[k].number \notin finished'
                 /\ work'[k].done \subseteq finished'
                 /\ \A j \in 1..(m - 1) : j # k => work'[j].number # work'[k].number
      <3>1. work'[k] = work[k + 1] /\ k + 1 \in 1..m /\ k + 1 # 1
        BY <1>1
      <3>2. /\ work[k + 1].number <= fileCalls /\ work[k + 1].number \notin finished
            /\ work[k + 1].done \subseteq finished /\ work[k + 1].number # f.number
        BY <3>1, <1>0, <1>2 DEF Pending, m
      <3>3. ASSUME NEW j \in 1..(m - 1), j # k PROVE work'[j].number # work'[k].number
        <4>1. work'[j] = work[j + 1] /\ j + 1 \in 1..m /\ j + 1 # k + 1
          BY <3>3, <1>1
        <4> QED
          BY <4>1, <3>1, <1>0 DEF Pending, m
      <3> QED
        BY <3>1, <3>2, <3>3
    <2> QED
      BY <2>1, <2>2, <1>1 DEF Pending
  <1>5. class = "random" => f.op # "open" /\ Recent(f, disk)
    BY <1>0, <1>1 DEF AllRecent, m
  <1>6. ASSUME \A g \in FileCall : Recent(g, disk) /\ f.number \notin g.done => Recent(g, disk')
        PROVE  AllRecent'
    <2> SUFFICES ASSUME class = "random", NEW k \in 1..(m - 1)
                 PROVE  work'[k].op # "open" /\ Recent(work'[k], disk')
      BY <1>1 DEF AllRecent
    <2>1. work'[k] = work[k + 1] /\ k + 1 \in 1..m
      BY <1>1
    <2>2. work[k + 1] \in FileCall /\ work[k + 1].op # "open" /\ Recent(work[k + 1], disk)
      BY <2>1, <1>0 DEF AllRecent, FileTypeOK, m
    <2>3. f.number \notin work[k + 1].done
      BY <2>1, <1>0, <1>2 DEF Pending, m
    <2> QED
      BY <2>1, <2>2, <2>3, <1>6
  <1> QED
    BY <1>0, <1>1, <1>2, <1>3, <1>4, <1>5, <1>6 DEF FileTypeOK

(* Reading and writing at an offset.                                         *)
LEMMA RandomStep ==
  ASSUME FileInv, work # <<>>, work' = Tail(work), UNCHANGED <<class, fd, fileCalls>>,
         NEW f, f = Head(work), class = "random", File!RunRandom(f)
  PROVE  FileInv'
  <1>0. FileTypeOK /\ Pending /\ AllRecent /\ File!ReadsWhatWasWritten
    BY DEF FileInv
  <1>1. finished' = finished \union {f.number} /\ UNCHANGED <<stream, opened, read>>
    BY DEF File!RunRandom
  <1>2. /\ f \in FileCall /\ f.number \notin finished /\ f.done \subseteq finished
        /\ Recent(f, disk)
        /\ work' \in Seq(FileCall) /\ Pending' /\ finished' \in SUBSET (Nat \ {0})
        /\ (\A g \in FileCall : Recent(g, disk) /\ f.number \notin g.done => Recent(g, disk'))
              => AllRecent'
    BY <1>1, TakenFromQueue
  <1>3. f.of \in FileUsers /\ f.offset \in Nat /\ f.size \in Nat /\ f.number \in Nat
    BY <1>2 DEF FileCall
  <1>4. ASSUME NEW a, Truly(a), reader' = [reader EXCEPT ![f.of] = a],
               disk' \in Seq(Byte), eof_' \in BOOLEAN,
               \A g \in FileCall : Recent(g, disk) /\ f.number \notin g.done => Recent(g, disk')
        PROVE  FileInv'
    <2>1. File!ReadsWhatWasWritten' /\ DOMAIN reader' = FileUsers
      BY <1>0, <1>3, <1>4, OneAnswerMore
    <2>2. FileTypeOK'
      BY <1>0, <1>1, <1>2, <1>4, <2>1 DEF FileTypeOK
    <2>3. ~OnlyRead'
      BY DEF OnlyRead
    <2> QED
      BY <1>2, <1>4, <2>1, <2>2, <2>3 DEF FileInv
  <1>5. CASE f.op = "read" /\ "read" \in fd
    <2> DEFINE b == Bytes(disk, f.offset, f.size)
               a == File!Answered(f, "ok", Len(b), b)
    <2>1. reader' = [reader EXCEPT ![f.of] = a] /\ disk' = disk /\ eof_' \in BOOLEAN
      BY <1>0, <1>5 DEF File!RunRandom, File!Returns, File!BytesAt, Bytes, FileTypeOK
    <2>2. /\ b \in Seq(Byte) /\ Len(b) \in Nat /\ Len(b) <= f.size
          /\ \A i \in 1..Len(b) : f.offset + i <= Len(disk) /\ b[i] = disk[f.offset + i]
      BY <1>0, <1>3, BytesOfFile DEF FileTypeOK
    <2>3. a.call = f /\ a.n = Len(b) /\ a.bytes = b
      BY DEF File!Answered
    <2> HIDE DEF a, b
    <2>4. ASSUME NEW i \in 1..Len(b)
          PROVE  \/ f.offset + i <= Len(f.before) /\ b[i] = f.before[f.offset + i]
                 \/ b[i] \notin f.done
      <3>1. f.offset + i \in 1..Len(disk) /\ b[i] = disk[f.offset + i]
        BY <2>2, <1>3
      <3> QED
        BY <3>1, <1>2 DEF Recent
    <2>5. Truly(a)
      BY <2>2, <2>3, <2>4 DEF Truly
    <2> QED
      BY <2>1, <2>5, <1>0, <1>4 DEF FileTypeOK
  <1>6. CASE f.op = "write" /\ "write" \in fd
    <2> DEFINE o == IF "append" \in fd THEN Len(disk) ELSE f.offset
               a == File!Answered(f, "ok", f.size, <<>>)
    <2>1. /\ reader' = [reader EXCEPT ![f.of] = a] /\ eof_' = eof_
          /\ disk' = File!Overwritten(o, f.size, f.number)
      BY <1>6 DEF File!RunRandom, File!Returns
    <2>2. a.call.op # "read"
      BY <1>6 DEF File!Answered
    <2>3. o \in Nat
      BY <1>0, <1>3 DEF FileTypeOK
    <2> HIDE DEF a, o
    <2>4. Truly(a)
      BY <2>2 DEF Truly
    <2>5. /\ disk' \in Seq(Byte)
          /\ \A g \in FileCall : Recent(g, disk) /\ f.number \notin g.done => Recent(g, disk')
      BY <2>1, <2>3, <1>0, <1>3, StaysRecent
    <2> QED
      BY <2>1, <2>4, <2>5, <1>0, <1>4 DEF FileTypeOK
  <1>7. CASE f.op \notin fd /\ UNCHANGED <<disk, eof_>> /\ File!Returns(f.of, f, "error", -1, <<>>)
    <2> DEFINE a == File!Answered(f, "error", -1, <<>>)
    <2>1. reader' = [reader EXCEPT ![f.of] = a]
      BY <1>7 DEF File!Returns
    <2>2. a.ec # "ok"
      BY DEF File!Answered
    <2> HIDE DEF a
    <2>3. Truly(a)
      BY <2>2 DEF Truly
    <2> QED
      BY <2>1, <2>3, <1>0, <1>4, <1>7 DEF FileTypeOK
  <1> QED
    BY <1>5, <1>6, <1>7 DEF File!RunRandom

(* A read keeps the type of a stream, whatever was done with it before.      *)
LEMMA ReadsInStream ==
  ASSUME FileTypeOK, NEW len \in Nat
  PROVE  File!AfterRead(len) \in Stream
  <1> DEFINE reads == File!Good /\ "in" \in stream.mode
             b == Bytes(disk, stream.pos, len)
  <1>1. disk \in Seq(Byte) /\ stream \in Stream /\ stream.pos \in Nat
    BY DEF FileTypeOK, Stream
  <1>2. Len(b) \in Nat
    BY <1>1, BytesOfFile
  <1> HIDE DEF b
  <1>3. PICK n : n = IF reads THEN Len(b) ELSE 0
    OBVIOUS
  <1>4. File!AfterRead(len)
          = [stream EXCEPT !.gcount = n, !.pos = @ + n,
                           !.eofbit = @ \/ (reads /\ n < len),
                           !.failbit = @ \/ ~File!Good \/ n < len
                                         \/ (len > 0 /\ "in" \notin stream.mode)]
    BY <1>3 DEF File!AfterRead, File!BytesAt, Bytes, b
  <1> HIDE DEF reads
  <1>5. n \in Nat /\ stream.pos + n \in Nat
    BY <1>1, <1>2, <1>3
  <1>6. /\ (stream.eofbit \/ (reads /\ n < len)) \in BOOLEAN
        /\ (stream.failbit \/ ~File!Good \/ n < len \/ (len > 0 /\ "in" \notin stream.mode))
            \in BOOLEAN
    BY <1>1 DEF Stream
  <1> QED
    BY <1>1, <1>4, <1>5, <1>6 DEF Stream

(* A stream that reads.                                                      *)
LEMMA StreamReads ==
  ASSUME FileTypeOK, ReadSoFar, NEW len \in Nat, NEW s, s = File!AfterRead(len)
  PROVE  /\ s \in Stream
         /\ s.eofbit => s.pos = Len(disk)
         /\ stream.eofbit => s.eofbit
         /\ read \o File!BytesAt(stream.pos, s.gcount) = SubSeq(disk, 1, s.pos)
         /\ s.pos <= Len(disk)
         /\ s.is_open = stream.is_open
         /\ ~stream.is_open => s.pos = stream.pos /\ s.eofbit = stream.eofbit
  <1> DEFINE reads == File!Good /\ "in" \in stream.mode
             b == Bytes(disk, stream.pos, len)
  <1>1. /\ disk \in Seq(Byte) /\ Len(disk) \in Nat /\ stream \in Stream /\ stream.pos \in Nat
        /\ stream.pos <= Len(disk)
    BY DEF FileTypeOK, Stream, ReadSoFar
  <1>2. /\ b \in Seq(Byte) /\ Len(b) \in Nat
        /\ Len(b) < len => stream.pos + Len(b) = Len(disk)
        /\ stream.pos + Len(b) <= Len(disk) /\ b = SubSeq(disk, stream.pos + 1, stream.pos + Len(b))
    BY <1>1, BytesOfFile
  <1>3. PICK n : n = IF reads THEN Len(b) ELSE 0
    OBVIOUS
  <1>4. s = [stream EXCEPT !.gcount = n, !.pos = @ + n,
                           !.eofbit = @ \/ (reads /\ n < len),
                           !.failbit = @ \/ ~File!Good \/ n < len
                                         \/ (len > 0 /\ "in" \notin stream.mode)]
    BY <1>3 DEF File!AfterRead, File!BytesAt, Bytes
  <1> HIDE DEF b
  <1>5. n \in Nat /\ stream.pos + n <= Len(disk) /\ stream.pos + n \in Nat
    BY <1>1, <1>2, <1>3
  <1>6. /\ s.gcount = n /\ s.pos = stream.pos + n /\ s.is_open = stream.is_open
        /\ s.eofbit = (stream.eofbit \/ (reads /\ n < len))
        /\ s.mode = stream.mode
    BY <1>1, <1>4 DEF Stream
  <1>7. s \in Stream
    BY ReadsInStream
  <1>8. ~stream.is_open \/ stream.eofbit => ~reads
    BY DEF File!Good
  <1>9. s.eofbit => s.pos = Len(disk)
    <2>1. CASE stream.eofbit
      BY <2>1, <1>1, <1>3, <1>6, <1>8 DEF ReadSoFar
    <2>2. CASE reads /\ n < len
      BY <2>2, <1>2, <1>3, <1>6
    <2> HIDE DEF reads
    <2> QED
      BY <2>1, <2>2, <1>6
  <1>10. read \o File!BytesAt(stream.pos, s.gcount) = SubSeq(disk, 1, s.pos)
    <2> DEFINE c == Bytes(disk, stream.pos, n)
    <2>1. File!BytesAt(stream.pos, s.gcount) = c
      BY <1>6 DEF File!BytesAt, Bytes
    <2>2. Len(c) = n
      <3>1. n <= Len(b) \/ n = 0
        BY <1>3, <1>2
      <3>2. File!Smaller(Len(disk), stream.pos + n) = stream.pos + n
        BY <1>1, <1>5 DEF File!Smaller
      <3>3. c = SubSeq(disk, stream.pos + 1, stream.pos + n)
        BY <3>2 DEF Bytes
      <3>4. Len(c) \in Nat /\ Len(c) <= n /\ (Len(c) < n => stream.pos + Len(c) = Len(disk))
        BY <1>1, <1>5, BytesOfFile
      <3> HIDE DEF c
      <3> QED
        BY <3>4, <1>1, <1>5
    <2>3. SubSeq(disk, 1, stream.pos) \o c = SubSeq(disk, 1, stream.pos + Len(c))
      BY <1>1, <1>5, ReadOn
    <2> HIDE DEF c
    <2> QED
      BY <2>1, <2>2, <2>3, <1>6 DEF ReadSoFar
  <1>11. ~stream.is_open => s.pos = stream.pos /\ s.eofbit = stream.eofbit
    <2>1. stream.eofbit \in BOOLEAN
      BY <1>1 DEF Stream
    <2>2. ASSUME ~stream.is_open PROVE ~reads /\ n = 0
      BY <2>2, <1>3, <1>8
    <2> HIDE DEF reads
    <2> QED
      BY <1>1, <1>6, <2>1, <2>2
  <1>12. stream.eofbit => s.eofbit
    BY <1>6
  <1> QED
    BY <1>1, <1>5, <1>6, <1>7, <1>9, <1>10, <1>11, <1>12

(* The states in which calls leave a stream.                                 *)
LEMMA StreamStates ==
  ASSUME FileTypeOK, NEW mode \in OpenModes \union {{}}, NEW p \in Nat
  PROVE  /\ [stream EXCEPT !.pos = p] \in Stream
         /\ [stream EXCEPT !.failbit = TRUE] \in Stream
         /\ [stream EXCEPT !.failbit = TRUE].pos = stream.pos
         /\ [stream EXCEPT !.failbit = TRUE].eofbit = stream.eofbit
         /\ [stream EXCEPT !.failbit = TRUE].is_open = stream.is_open
         /\ [File!Shut EXCEPT !.is_open = TRUE, !.mode = mode] \in Stream
         /\ [File!Shut EXCEPT !.is_open = TRUE, !.mode = mode].pos = 0
         /\ [File!Shut EXCEPT !.is_open = TRUE, !.mode = mode].eofbit = FALSE
  <1>1. stream \in Stream
    BY DEF FileTypeOK
  <1>2. [stream EXCEPT !.pos = p] \in Stream
    BY <1>1 DEF Stream
  <1>3. [stream EXCEPT !.failbit = TRUE] \in Stream
    BY <1>1 DEF Stream
  <1>4. /\ [stream EXCEPT !.failbit = TRUE].pos = stream.pos
        /\ [stream EXCEPT !.failbit = TRUE].eofbit = stream.eofbit
        /\ [stream EXCEPT !.failbit = TRUE].is_open = stream.is_open
    BY <1>1 DEF Stream
  <1>5. PICK shut \in Stream : shut = File!Shut /\ shut.pos = 0 /\ shut.eofbit = FALSE
    <2>1. File!Shut \in Stream
      BY DEF File!Shut, Stream
    <2>2. File!Shut.pos = 0 /\ File!Shut.eofbit = FALSE
      BY DEF File!Shut
    <2> QED
      BY <2>1, <2>2
  <1>6. /\ [shut EXCEPT !.is_open = TRUE, !.mode = mode] \in Stream
        /\ [shut EXCEPT !.is_open = TRUE, !.mode = mode].pos = shut.pos
        /\ [shut EXCEPT !.is_open = TRUE, !.mode = mode].eofbit = shut.eofbit
    BY DEF Stream
  <1> QED
    BY <1>2, <1>3, <1>4, <1>5, <1>6

(* Opening, reading and writing of a stream.                                 *)
LEMMA StreamStep ==
  ASSUME FileInv, work # <<>>, work' = Tail(work), UNCHANGED <<class, fd, fileCalls>>,
         NEW f, f = Head(work), class = "seq",
         (f.op = "open" /\ File!RunOpen(f)) \/ (f.op # "open" /\ File!RunSeq(f))
  PROVE  FileInv'
  <1>0. FileTypeOK /\ Pending /\ AllRecent /\ File!ReadsWhatWasWritten /\ (OnlyRead => ReadSoFar)
    BY DEF FileInv
  <1>1. finished' \in {finished, finished \union {f.number}}
    BY DEF File!RunOpen, File!RunSeq
  <1>2. /\ f \in FileCall /\ work' \in Seq(FileCall) /\ Pending'
        /\ finished' \in SUBSET (Nat \ {0})
    BY <1>1, TakenFromQueue
  <1>3. /\ f.of \in FileUsers /\ f.size \in Nat /\ f.number \in Nat
        /\ f.mode \in OpenModes \union {{}}
        /\ f.op \in {"open", "read", "write"}
    BY <1>2 DEF FileCall
  <1>4. ASSUME NEW a, reader' = [reader EXCEPT ![f.of] = a],
               disk' \in Seq(Byte), eof_' \in BOOLEAN, stream' \in Stream, opened' \in Nat,
               OnlyRead' => /\ opened' = 0 => ~stream'.is_open /\ ~stream'.eofbit /\ ~eof_'
                                              /\ stream'.pos = 0
                            /\ read' = SubSeq(disk', 1, stream'.pos) /\ stream'.pos <= Len(disk')
                            /\ stream'.eofbit => stream'.pos = Len(disk')
                            /\ eof_' => stream'.eofbit
                            /\ OnlyRead /\ (eof_ => eof_')
                            /\ ShortRead(a) => eof_'
        PROVE  FileInv'
    <2>1. /\ File!ReadsWhatWasWritten' /\ DOMAIN reader' = FileUsers
          /\ reader'[f.of] = a /\ \A v \in FileUsers : v # f.of => reader'[v] = reader[v]
      BY <1>0, <1>3, <1>4, OneAnswerMore
    <2>2. FileTypeOK'
      BY <1>0, <1>2, <1>4, <2>1 DEF FileTypeOK
    <2>3. AllRecent'
      BY DEF AllRecent
    <2>4. ASSUME OnlyRead' PROVE ReadSoFar'
      <3>1. ReadSoFar
        BY <1>0, <1>4, <2>4
      <3>2. ASSUME NEW v \in FileUsers, ShortRead(reader'[v]) PROVE eof_'
        BY <3>1, <3>2, <1>4, <2>1, <2>4 DEF ReadSoFar
      <3> QED
        BY <3>2, <1>4, <2>4 DEF ReadSoFar
    <2> QED
      BY <1>2, <2>1, <2>2, <2>3, <2>4 DEF FileInv
  <1>5. CASE f.op = "open" /\ File!RunOpen(f)
    <2> DEFINE ok == ~stream.is_open /\ File!StreamOpens(f.mode)
    <2>1. PICK ec : reader' = [reader EXCEPT ![f.of] = File!Answered(f, ec, 0, <<>>)]
      BY <1>5 DEF File!RunOpen, File!Returns
    <2>2. PICK a : a = File!Answered(f, ec, 0, <<>>)
      OBVIOUS
    <2>3. /\ stream' = IF ok THEN [File!Shut EXCEPT !.is_open = TRUE, !.mode = f.mode]
                       ELSE [stream EXCEPT !.failbit = TRUE]
          /\ disk' = IF ok THEN File!Emptied(f.mode) ELSE disk
          /\ opened' = opened + 1
          /\ read' = IF opened = 0 THEN read ELSE File!Tainted
          /\ eof_' = eof_
      BY <1>5 DEF File!RunOpen
    <2>4. disk' \in Seq(Byte)
      <3>1. File!Emptied(f.mode) \in {<<>>, disk}
        BY DEF File!Emptied
      <3>2. <<>> \in Seq(Byte) /\ disk \in Seq(Byte)
        BY <1>0, EmptySeq DEF FileTypeOK
      <3> HIDE DEF ok
      <3> QED
        BY <2>3, <3>1, <3>2
    <2>6. ~ShortRead(a)
      BY <1>5, <2>2 DEF File!Answered, ShortRead
    <2>5. CASE ok
      <3>1. /\ stream' \in Stream /\ stream'.pos = 0 /\ stream'.eofbit = FALSE
            /\ opened' \in Nat /\ opened \in Nat
        <4>1. stream' = [File!Shut EXCEPT !.is_open = TRUE, !.mode = f.mode]
          BY <2>3, <2>5
        <4> HIDE DEF ok
        <4>2. opened' \in Nat /\ opened \in Nat
          BY <2>3, <1>0 DEF FileTypeOK
        <4> QED
          BY <4>1, <4>2, <1>0, <1>3, StreamStates
      <3>2. eof_' \in BOOLEAN
        BY <2>3, <1>0 DEF FileTypeOK
      <3>3. ASSUME OnlyRead'
            PROVE  OnlyRead /\ opened' # 0 /\ eof_' = FALSE /\ read' = SubSeq(disk', 1, 0)
        <4>1. opened = 0 /\ read' = read /\ opened' = 1
          BY <2>3, <3>1, <3>3 DEF OnlyRead
        <4>2. OnlyRead
          BY <4>1, <3>3 DEF OnlyRead
        <4>3. ReadSoFar
          BY <4>2, <1>0
        <4>4. eof_ = FALSE /\ read = SubSeq(disk, 1, 0)
          BY <4>1, <4>3, <1>0 DEF ReadSoFar, FileTypeOK
        <4>5. SubSeq(disk, 1, 0) = <<>> /\ SubSeq(disk', 1, 0) = <<>>
          BY <2>4, <1>0 DEF FileTypeOK
        <4> QED
          BY <4>1, <4>2, <4>4, <4>5, <2>3
      <3>4. Len(disk') \in Nat
        BY <2>4
      <3> HIDE DEF ok
      <3> QED
        <4>1. eof_' = eof_
          BY <2>3
        <4>2. ASSUME OnlyRead'
              PROVE  /\ read' = SubSeq(disk', 1, stream'.pos) /\ stream'.pos <= Len(disk')
                     /\ stream'.eofbit => stream'.pos = Len(disk')
                     /\ eof_' => stream'.eofbit
                     /\ OnlyRead /\ opened' # 0
          BY <3>1, <3>3, <3>4, <4>2
        <4> QED
          BY <1>4, <2>1, <2>2, <2>4, <2>6, <3>1, <3>2, <4>1, <4>2
    <2>7. CASE ~ok
      <3>1. /\ stream' \in Stream /\ stream'.pos = stream.pos /\ stream'.eofbit = stream.eofbit
            /\ stream'.is_open = stream.is_open
            /\ opened' \in Nat /\ opened \in Nat /\ disk' = disk
        <4>1. stream' = [stream EXCEPT !.failbit = TRUE] /\ disk' = disk
          BY <2>3, <2>7
        <4> HIDE DEF ok
        <4>2. opened' \in Nat /\ opened \in Nat
          BY <2>3, <1>0 DEF FileTypeOK
        <4> QED
          BY <4>1, <4>2, <1>0, <1>3, StreamStates
      <3>2. eof_' \in BOOLEAN
        BY <2>3, <1>0 DEF FileTypeOK
      <3>3. ASSUME OnlyRead' PROVE OnlyRead /\ opened' # 0 /\ read' = read /\ ReadSoFar
        <4>1. opened = 0 /\ read' = read /\ opened' = 1
          BY <2>3, <3>1, <3>3 DEF OnlyRead
        <4>2. OnlyRead
          BY <4>1, <3>3 DEF OnlyRead
        <4> QED
          BY <4>1, <4>2, <1>0
      <3> HIDE DEF ok
      <3>4. ASSUME OnlyRead'
            PROVE  /\ read' = SubSeq(disk', 1, stream'.pos) /\ stream'.pos <= Len(disk')
                   /\ stream'.eofbit => stream'.pos = Len(disk')
                   /\ eof_' => stream'.eofbit
        BY <3>1, <3>3, <3>4, <2>3 DEF ReadSoFar
      <3> QED
        <4>1. eof_' = eof_
          BY <2>3
        <4> QED
          BY <1>4, <2>1, <2>2, <2>4, <2>6, <3>1, <3>2, <3>3, <3>4, <4>1
    <2> QED
      BY <2>5, <2>7
  <1>6. CASE f.op = "write" /\ File!RunSeq(f)
    <2>1. ~OnlyRead'
      BY <1>6 DEF File!RunSeq, OnlyRead
    <2>2. PICK a : reader' = [reader EXCEPT ![f.of] = a]
      BY <1>6 DEF File!RunSeq, File!Returns
    <2>3. eof_' \in BOOLEAN /\ opened' = opened /\ opened' \in Nat
      BY <1>0, <1>6 DEF File!RunSeq, FileTypeOK
    <2>4. File!WritePos \in Nat /\ stream \in Stream
      BY <1>0 DEF File!WritePos, FileTypeOK, Stream
    <2>5. \/ stream' = [stream EXCEPT !.pos = File!WritePos + f.size]
          \/ stream' = [stream EXCEPT !.failbit = TRUE]
      BY <1>6 DEF File!RunSeq
    <2>6. stream' \in Stream
      <3>1. File!WritePos + f.size \in Nat
        BY <2>4, <1>3
      <3> QED
        BY <3>1, <2>5, <1>0, <1>3, StreamStates
    <2>7. disk' \in {disk, File!Overwritten(File!WritePos, f.size, f.number)}
      BY <1>6 DEF File!RunSeq
    <2>8. disk' \in Seq(Byte)
      <3>1. File!Overwritten(File!WritePos, f.size, f.number) \in Seq(Byte)
        BY <2>4, <1>0, <1>3, StaysRecent
      <3>2. disk \in Seq(Byte)
        BY <1>0 DEF FileTypeOK
      <3> QED
        BY <3>1, <3>2, <2>7
    <2> QED
      BY <1>4, <2>1, <2>2, <2>3, <2>6, <2>8
  <1>7. CASE f.op = "read" /\ File!RunSeq(f)
    <2> DEFINE bytes == File!BytesAt(stream.pos, stream'.gcount)
    <2>1. /\ stream' = File!AfterRead(f.size) /\ disk' = disk /\ opened' = opened
          /\ eof_' = (eof_ \/ (stream'.failbit /\ stream'.eofbit))
          /\ read' = IF read = File!Tainted THEN File!Tainted ELSE read \o bytes
      BY <1>7 DEF File!RunSeq, File!MeetsEof
    <2>2. /\ ~stream'.failbit => File!Returns(f.of, f, "ok", f.size, bytes)
          /\ stream'.failbit /\ ~stream'.eofbit => File!Returns(f.of, f, "error", 0, <<>>)
          /\ stream'.failbit /\ stream'.eofbit
               => File!Returns(f.of, f, "ok", stream'.gcount, bytes)
      BY <1>7 DEF File!RunSeq
    <2>3. PICK a : /\ reader' = [reader EXCEPT ![f.of] = a]
                   /\ ShortRead(a) => stream'.failbit /\ stream'.eofbit
      <3>1. CASE ~stream'.failbit
        <4>1. PICK a : a = File!Answered(f, "ok", f.size, bytes)
          OBVIOUS
        <4>2. a.n = f.size /\ a.call = f
          BY <4>1 DEF File!Answered
        <4>3. ~ShortRead(a)
          BY <4>2, <1>3 DEF ShortRead
        <4>4. reader' = [reader EXCEPT ![f.of] = a]
          BY <4>1, <3>1, <2>2 DEF File!Returns
        <4> QED
          BY <4>3, <4>4
      <3>2. CASE stream'.failbit /\ ~stream'.eofbit
        <4>1. PICK a : a = File!Answered(f, "error", 0, <<>>)
          OBVIOUS
        <4>2. ~ShortRead(a)
          BY <4>1 DEF File!Answered, ShortRead
        <4>3. reader' = [reader EXCEPT ![f.of] = a]
          BY <4>1, <3>2, <2>2 DEF File!Returns
        <4> QED
          BY <4>2, <4>3
      <3>3. CASE stream'.failbit /\ stream'.eofbit
        BY <3>3, <2>2 DEF File!Returns
      <3> QED
        BY <3>1, <3>2, <3>3
    <2> HIDE DEF bytes
    <2>4. /\ disk' \in Seq(Byte) /\ opened' \in Nat /\ opened \in Nat /\ eof_' \in BOOLEAN
      BY <2>1, <1>0 DEF FileTypeOK
    <2>5. stream' \in Stream
      BY <1>0, <1>3, <2>1, ReadsInStream
    <2>6. ASSUME OnlyRead'
          PROVE  /\ opened' = 0 => ~stream'.is_open /\ ~stream'.eofbit /\ ~eof_'
                                   /\ stream'.pos = 0
                 /\ read' = SubSeq(disk', 1, stream'.pos) /\ stream'.pos <= Len(disk')
                 /\ stream'.eofbit => stream'.pos = Len(disk')
                 /\ eof_' => stream'.eofbit
                 /\ OnlyRead /\ (eof_ => eof_')
      <3>1. OnlyRead /\ read' = read \o bytes
        BY <2>1, <2>6 DEF OnlyRead
      <3>2. ReadSoFar
        BY <3>1, <1>0
      <3>3. /\ stream'.eofbit => stream'.pos = Len(disk)
            /\ stream.eofbit => stream'.eofbit
            /\ read \o bytes = SubSeq(disk, 1, stream'.pos)
            /\ stream'.pos <= Len(disk)
            /\ stream'.is_open = stream.is_open
            /\ ~stream.is_open => stream'.pos = stream.pos /\ stream'.eofbit = stream.eofbit
        BY <3>2, <1>0, <1>3, <2>1, StreamReads DEF bytes
      <3>4. eof_' => stream'.eofbit
        BY <3>2, <3>3, <2>1 DEF ReadSoFar
      <3>5. opened' = 0 => ~stream'.is_open /\ ~stream'.eofbit /\ ~eof_' /\ stream'.pos = 0
        BY <3>2, <3>3, <3>4, <2>1 DEF ReadSoFar
      <3> QED
        BY <3>1, <3>3, <3>4, <3>5, <2>1
    <2>7. ShortRead(a) => eof_'
      BY <2>1, <2>3
    <2> QED
      BY <1>4, <2>3, <2>4, <2>5, <2>6, <2>7
  <1> QED
    BY <1>3, <1>5, <1>6, <1>7

(* Every step of the files preserves the invariant.                          *)
LEMMA FileStep == FileInv /\ [File!Next]_fileVars => FileInv'
  <1> SUFFICES ASSUME FileInv, [File!Next]_fileVars PROVE FileInv'
    OBVIOUS
  <1>1. CASE UNCHANGED fileVars
    <2>1. FileTypeOK' /\ Pending' /\ AllRecent'
      BY <1>1 DEF fileVars, FileInv, FileTypeOK, Pending, AllRecent
    <2>2. (OnlyRead => ReadSoFar) => (OnlyRead' => ReadSoFar')
      BY <1>1 DEF fileVars, OnlyRead, ReadSoFar, ShortRead
    <2>3. File!ReadsWhatWasWritten => File!ReadsWhatWasWritten'
      BY <1>1 DEF fileVars, File!ReadsWhatWasWritten
    <2> QED
      BY <2>1, <2>2, <2>3 DEF FileInv
  <1>2. CASE File!Run
    <2>1. PICK f : f = Head(work)
      OBVIOUS
    <2>2. /\ work # <<>> /\ work' = Tail(work) /\ UNCHANGED <<class, fd, fileCalls>>
          /\ \/ f.op = "open" /\ File!RunOpen(f)
             \/ f.op # "open" /\ class = "seq" /\ File!RunSeq(f)
             \/ f.op # "open" /\ class = "random" /\ File!RunRandom(f)
      BY <1>2, <2>1 DEF File!Run
    <2>3. class \in {"seq", "random"}
      BY DEF FileInv, FileTypeOK
    <2>4. CASE class = "seq"
      BY <2>1, <2>2, <2>4, StreamStep
    <2>5. CASE class = "random"
      <3>1. f.op # "open"
        <4>1. f = work[1] /\ 1 \in 1..Len(work)
          BY <2>1, <2>2 DEF FileInv, FileTypeOK
        <4> QED
          BY <4>1, <2>5 DEF FileInv, AllRecent
      <3> QED
        BY <2>1, <2>2, <2>5, <3>1, RandomStep
    <2> QED
      BY <2>3, <2>4, <2>5
  <1> QED
    BY <1>1, <1>2, CallerStep DEF File!Next

(* FilesAnswerTruly of MCApps: whatever is in the file, and whoever reads    *)
(* how much of it, a stream that has only been read since it was opened has  *)
(* returned what is in front of its position, all of the file when eof()     *)
(* says so, and no read was short before; and a read at an offset returns    *)
(* bytes that were there when it was asked for or were written since.        *)
THEOREM FilesAlwaysAnswerTruly == MCSpec => []FilesAnswerTruly
  <1>1. FileInv => FilesAnswerTruly
    <2> SUFFICES ASSUME FileInv PROVE File!FilesAnswerTruly
      BY DEF FilesAnswerTruly
    <2>1. File!ReadsWhatWasWritten /\ FileTypeOK
      BY DEF FileInv
    <2>2. File!ReadToTheEnd
      <3> SUFFICES ASSUME class = "seq", opened <= 1, read # File!Tainted
                   PROVE  /\ read = SubSeq(disk, 1, Len(read))
                          /\ eof_ => Len(read) = Len(disk)
                          /\ \A u \in FileUsers : ShortRead(reader[u]) => eof_
        BY DEF File!ReadToTheEnd, ShortRead
      <3>1. ReadSoFar
        BY DEF FileInv, OnlyRead
      <3>2. disk \in Seq(Byte) /\ stream.pos \in Nat /\ stream.pos <= Len(disk)
        BY <2>1, <3>1 DEF FileTypeOK, Stream, ReadSoFar
      <3>3. PICK p \in Nat : p = stream.pos
        BY <3>2
      <3>4. Len(SubSeq(disk, 1, p)) = p
        BY <3>2, <3>3
      <3> QED
        BY <3>1, <3>3, <3>4 DEF ReadSoFar
    <2> QED
      BY <2>1, <2>2 DEF File!FilesAnswerTruly
  <1> QED
    BY <1>1, FileRuns, FileInit, FileStep, PTL DEF MCSpec

-----------------------------------------------------------------------------
(* CoroIo: whose answer is under way, and what is in the channel.            *)

(* The awaitable operations start as their module says and make its steps    *)
(* only.                                                                     *)
LEMMA AwaitRuns ==
  /\ MCInit => Await!Init /\ kinds \subseteq Await!Operations
  /\ [MCNext]_<<component, vars, appVars>> => [Await!Next]_awaitVars
  <1>1. MCInit => Await!Init /\ kinds \subseteq Await!Operations
    <2> SUFFICES ASSUME MCInit PROVE kinds \subseteq Await!Operations
      BY DEF MCInit
    <2>1. kinds \in Mixes
      BY DEF MCInit, Await!Init
    <2> QED
      BY <2>1, InstanceAssumption DEF Await!CoroIoAssumption
  <1> QED
    BY <1>1 DEF MCNext, appVars, awaitVars

Answers == [ec : {"ok", "error", "exception"}, value : Nat]
Called == {"await", "start", "waiting"}
IoCall ==
  [kind : Await!Operations \union {"none"},
   at : Called \union {"idle", "try", "syscall", "returned"},
   number : Nat, stored : BOOLEAN, arg : Answers, told : Seq(Answers), result : Answers,
   offset : Nat, size : Nat, least : Nat, sent : Seq(Nat)]
Entry == [of : IoCallers, answers : SUBSET Answers]
Channel == [buffer : Seq(Nat), senders : Seq(IoCallers), receivers : Seq(IoCallers),
            in : Seq(Nat), out : Seq(Nat)]

(* What a transfer has sent: from the first byte on, and least is left.      *)
Progress(r) ==
  /\ r.least + Len(r.sent) = r.size /\ Len(r.sent) <= r.offset
  /\ r.sent = [i \in 1..Len(r.sent) |-> (r.offset - Len(r.sent)) + i]

(* A call of the first b calls: which operation comes to which place, and    *)
(* what the handler has told it there.                                       *)
Fits(r, b) ==
  /\ r.at = "idle" <=> r.kind = "none"
  /\ r.at # "idle" => r.number \in 1..b
  /\ r.at \in {"start", "waiting"} => r.stored
  /\ r.kind \in {"send", "receive"} => r.at \in {"try", "waiting", "returned"}
  /\ r.at = "try" => r.kind \in {"send", "receive"}
  /\ r.at = "syscall" => r.kind = "sendfile"
  /\ r.kind = "sendfile" => Progress(r)
  /\ r.at = "returned" => Await!OwnAnswer(r) /\ (r.kind = "sendfile" => Await!FileSent(r))
  /\ r.at \in Called /\ r.kind \in {"wait", "post", "close"} => r.told = <<>>
  /\ r.at \in Called /\ r.kind = "connect" =>
       r.told = <<>> \/ \E a \in Answers : r.told = <<a>> /\ a.ec = "ok"

(* The fields of a call that the handler answers. *)
Told(r, a) == [r EXCEPT !.arg = a, !.told = Append(@, a)]

(* A coroutine that is resumed goes on with its own answer. *)
LEMMA Answered ==
  ASSUME NEW b \in Nat, NEW r \in IoCall, Fits(r, b), r.at = "waiting", NEW a \in Answers,
         NEW s, s = Await!Resumed(Told(r, a), Told(r, a).arg)
  PROVE  /\ s \in IoCall /\ Fits(s, b)
         /\ s.kind = r.kind /\ s.number = r.number /\ s.at \in {"await", "syscall", "returned"}
         /\ r.kind \in {"post", "close", "wait", "send", "receive"} =>
              s.at = "returned" /\ s.result = a
  <1>1. PICK t : t = Told(r, a)
    OBVIOUS
  <1>2. /\ t \in IoCall /\ t.arg = a /\ t.told = Append(r.told, a)
        /\ t.kind = r.kind /\ t.at = r.at /\ t.number = r.number /\ t.stored = r.stored
        /\ t.offset = r.offset /\ t.size = r.size /\ t.least = r.least /\ t.sent = r.sent
    <2>1. PICK q \in Seq(Answers) : q = Append(r.told, a)
      <3>1. r.told \in Seq(Answers)
        BY DEF IoCall
      <3> QED
        BY <3>1, AppendProperties
    <2>2. t = [r EXCEPT !.arg = a, !.told = q]
      BY <1>1, <2>1 DEF Told, IoCall
    <2> QED
      BY <2>1, <2>2 DEF IoCall
  <1>3. s = Await!Resumed(t, a)
    BY <1>1, <1>2
  <1>4. r.number \in 1..b /\ r.told \in Seq(Answers) /\ r.stored /\ r.kind # "none"
    BY DEF Fits, IoCall, Called
  <1>5. CASE r.kind \in {"post", "close", "wait", "send", "receive"}
    <2>1. s = [t EXCEPT !.at = "returned", !.result = a]
      BY <1>2, <1>3, <1>5 DEF Await!Resumed, Await!Returned
    <2>2. /\ s \in IoCall /\ s.kind = r.kind /\ s.at = "returned" /\ s.number = r.number
          /\ s.result = a /\ s.told = Append(r.told, a)
      BY <2>1, <1>2 DEF IoCall
    <2>3. r.kind \in {"post", "close", "wait"} => s.told = <<s.result>>
      <3>1. r.kind \in {"post", "close", "wait"} => r.told = <<>>
        BY DEF Fits, Called
      <3>2. Append(<<>>, a) = <<a>>
        OBVIOUS
      <3> QED
        BY <3>1, <3>2, <2>2
    <2>4. Await!OwnAnswer(s)
      BY <1>5, <2>2, <2>3 DEF Await!OwnAnswer
    <2>5. Fits(s, b)
      BY <1>4, <1>5, <2>2, <2>4 DEF Fits, Called
    <2> QED
      BY <2>2, <2>5
  <1>6. CASE r.kind = "connect"
    <2>1. CASE Len(t.told) = 1 /\ a.ec = "ok"
      <3>1. s = [t EXCEPT !.at = "await"]
        BY <1>2, <1>3, <1>6, <2>1 DEF Await!Resumed
      <3>2. /\ s \in IoCall /\ s.kind = "connect" /\ s.at = "await" /\ s.number = r.number
            /\ s.told = Append(r.told, a)
        BY <3>1, <1>2, <1>6 DEF IoCall, Called
      <3>a. r.told = <<>>
        <4> SUFFICES ASSUME r.told # <<>> PROVE FALSE
          OBVIOUS
        <4>1. PICK o \in Answers : r.told = <<o>>
          BY <1>6 DEF Fits, Called
        <4>2. Len(r.told) = 1 /\ Len(Append(r.told, a)) = Len(r.told) + 1
          BY <4>1, <1>4, AppendProperties
        <4> QED
          BY <4>2, <2>1, <1>2
      <3>b. Append(<<>>, a) = <<a>>
        OBVIOUS
      <3>3. s.told = <<a>>
        BY <3>2, <3>a, <3>b
      <3>4. Fits(s, b)
        BY <1>4, <2>1, <3>2, <3>3 DEF Fits, Called
      <3> QED
        BY <3>2, <3>4, <1>6
    <2>2. CASE ~(Len(t.told) = 1 /\ a.ec = "ok")
      <3>1. s = [t EXCEPT !.at = "returned", !.result = a]
        BY <1>2, <1>3, <1>6, <2>2 DEF Await!Resumed, Await!Returned
      <3>2. /\ s \in IoCall /\ s.kind = "connect" /\ s.at = "returned" /\ s.number = r.number
            /\ s.result = a /\ s.told = Append(r.told, a)
        BY <3>1, <1>2, <1>6 DEF IoCall
      <3>3. CASE r.told = <<>>
        <4>1. s.told = <<a>> /\ a.ec # "ok"
          BY <3>2, <3>3, <1>2, <2>2
        <4>2. Await!OwnAnswer(s)
          BY <3>2, <4>1 DEF Await!OwnAnswer
        <4> QED
          BY <4>2, <3>2, <1>4, <1>6 DEF Fits, Called
      <3>4. CASE \E o \in Answers : r.told = <<o>> /\ o.ec = "ok"
        <4>1. PICK o \in Answers : r.told = <<o>> /\ o.ec = "ok"
          BY <3>4
        <4>2. Len(s.told) = 2 /\ s.told[1] = o /\ s.told[2] = a
          <5>1. Len(r.told) = 1 /\ r.told[1] = o
            BY <4>1
          <5> QED
            BY <5>1, <3>2, <1>4, AppendProperties
        <4>3. Await!OwnAnswer(s)
          BY <3>2, <4>1, <4>2 DEF Await!OwnAnswer
        <4> QED
          BY <4>3, <3>2, <1>4, <1>6 DEF Fits, Called
      <3> QED
        BY <3>3, <3>4, <1>6 DEF Fits, Called
    <2> QED
      BY <2>1, <2>2
  <1>7. CASE r.kind = "sendfile"
    <2>1. Progress(r)
      BY <1>7 DEF Fits
    <2>2. r.size - r.least = Len(r.sent) /\ Len(r.sent) \in Nat
      BY <2>1 DEF Progress, IoCall
    <2>3. CASE a.ec = "ok"
      <3>1. s = [t EXCEPT !.at = "syscall", !.stored = FALSE, !.arg = Await!Fine, !.told = <<>>]
        BY <1>2, <1>3, <1>7, <2>3 DEF Await!Resumed
      <3>2. Await!Fine \in Answers /\ <<>> \in Seq(Answers)
        BY DEF Await!Fine, Await!Answer, Answers
      <3>3. /\ s \in IoCall /\ s.kind = "sendfile" /\ s.at = "syscall" /\ s.number = r.number
            /\ s.offset = r.offset /\ s.size = r.size /\ s.least = r.least /\ s.sent = r.sent
        BY <3>1, <3>2, <1>2, <1>7 DEF IoCall
      <3>4. Fits(s, b)
        BY <2>1, <3>3, <1>4 DEF Fits, Called, Progress
      <3> QED
        BY <3>3, <3>4, <1>7
    <2>4. CASE a.ec # "ok"
      <3>1. PICK x \in Answers : x = [ec |-> a.ec, value |-> Len(r.sent)]
        BY <2>2 DEF Answers
      <3>2. s = [t EXCEPT !.at = "returned", !.result = x]
        BY <1>2, <1>3, <1>7, <2>2, <2>4, <3>1 DEF Await!Resumed, Await!Returned, Await!Answer
      <3>3. /\ s \in IoCall /\ s.kind = "sendfile" /\ s.at = "returned" /\ s.number = r.number
            /\ s.offset = r.offset /\ s.size = r.size /\ s.least = r.least /\ s.sent = r.sent
            /\ s.result = x
        BY <3>2, <1>2, <1>7 DEF IoCall
      <3>4. Await!OwnAnswer(s) /\ Await!FileSent(s)
        BY <2>1, <2>4, <3>1, <3>3 DEF Await!OwnAnswer, Await!FileSent, Progress
      <3>5. Fits(s, b)
        BY <2>1, <3>3, <3>4, <1>4 DEF Fits, Called, Progress
      <3> QED
        BY <3>3, <3>5, <1>7
    <2> QED
      BY <2>3, <2>4
  <1> QED
    BY <1>4, <1>5, <1>6, <1>7 DEF IoCall, Await!Operations

(* The sums of a transfer that goes on by n. *)
LEMMA Moved ==
  \A o, l, z, n \in Nat : l <= o =>
    /\ (z - n) + (l + n) = z + l /\ l + n <= o + n
    /\ (z + l) - (z - n) = l + n /\ (o + n) - (l + n) = o - l
  OBVIOUS

(* One system call sends the next bytes of the file, and the last one says   *)
(* so.                                                                       *)
LEMMA BytesSent ==
  ASSUME NEW b \in Nat, NEW r \in IoCall, Fits(r, b), r.at = "syscall", NEW n \in Nat,
         NEW left \in Nat, left = (IF r.offset < FileSize THEN FileSize - r.offset ELSE 0),
         n <= r.least, n <= left, n = 0 => r.least = 0 \/ left = 0,
         NEW s, s = Await!Sent(r, n)
  PROVE  /\ s \in IoCall /\ Fits(s, b)
         /\ s.kind = "sendfile" /\ s.number = r.number /\ s.at \in {"syscall", "returned"}
  <1>1. PICK t : t = [r EXCEPT !.offset = @ + n, !.least = @ - n,
                               !.sent = @ \o [i \in 1..n |-> r.offset + i]]
    OBVIOUS
  <1>2. PICK more : more = [i \in 1..n |-> r.offset + i]
    OBVIOUS
  <1>3. r.kind = "sendfile" /\ Progress(r) /\ r.number \in 1..b
    BY DEF Fits
  <1>4. /\ r.sent \in Seq(Nat) /\ r.offset \in Nat /\ r.least \in Nat /\ r.size \in Nat
        /\ Len(r.sent) \in Nat /\ more \in Seq(Nat) /\ Len(more) = n
    BY <1>2 DEF IoCall
  <1>5. PICK all \in Seq(Nat) :
          /\ all = r.sent \o more /\ Len(all) = Len(r.sent) + n
          /\ \A i \in 1..(Len(r.sent) + n) :
               all[i] = IF i <= Len(r.sent) THEN r.sent[i] ELSE more[i - Len(r.sent)]
    <2>1. /\ r.sent \o more \in Seq(Nat) /\ Len(r.sent \o more) = Len(r.sent) + Len(more)
          /\ \A i \in 1..(Len(r.sent) + Len(more)) :
               (r.sent \o more)[i] = IF i <= Len(r.sent) THEN r.sent[i] ELSE more[i - Len(r.sent)]
      BY <1>4, ConcatProperties
    <2> QED
      BY <2>1, <1>4
  <1>p. PICK o \in Nat, l \in Nat, z \in Nat :
          o = r.offset /\ l = Len(r.sent) /\ z = r.least /\ r.size = z + l /\ l <= o
    BY <1>3, <1>4 DEF Progress
  <1>6. Len(all) = l + n /\ DOMAIN all = 1..(l + n)
    BY <1>5, <1>p
  <1>7. \A i \in 1..(l + n) : all[i] = IF i <= l THEN r.sent[i] ELSE more[i - l]
    BY <1>5, <1>p
  <1>8. \A i \in 1..(l + n) : all[i] = (o - l) + i
    <2> TAKE i \in 1..(l + n)
    <2>1. CASE i <= l
      <3>1. i \in 1..l /\ r.sent = [j \in 1..l |-> (o - l) + j]
        BY <2>1, <1>3, <1>p DEF Progress
      <3> QED
        BY <2>1, <3>1, <1>7
    <2>2. CASE ~(i <= l)
      <3>1. i - l \in 1..n
        BY <2>2
      <3>2. more[i - l] = o + (i - l)
        BY <3>1, <1>2, <1>p
      <3> QED
        BY <2>2, <3>2, <1>7
    <2> QED
      BY <2>1, <2>2
  <1>9. t = [r EXCEPT !.offset = o + n, !.least = z - n, !.sent = all]
    BY <1>1, <1>2, <1>5, <1>p DEF IoCall
  <1>q. l <= o /\ n <= z
    BY <1>p
  <1>a. o + n \in Nat /\ z - n \in Nat
    BY <1>q
  <1>10. /\ t \in IoCall /\ t.kind = "sendfile" /\ t.at = "syscall" /\ t.number = r.number
         /\ t.offset = o + n /\ t.least = z - n /\ t.sent = all /\ t.size = z + l
    BY <1>3, <1>p, <1>a, <1>9 DEF IoCall
  <1>11. /\ t.least + Len(t.sent) = t.size /\ Len(t.sent) <= t.offset
         /\ t.size - t.least = l + n /\ t.offset - Len(t.sent) = o - l
    <2>1. /\ (z - n) + (l + n) = z + l /\ l + n <= o + n
          /\ (z + l) - (z - n) = l + n /\ (o + n) - (l + n) = o - l
      BY <1>q, Moved
    <2> QED
      BY <2>1, <1>6, <1>10
  <1>12. t.sent = [i \in 1..Len(t.sent) |-> (t.offset - Len(t.sent)) + i]
    <2>1. all = [i \in 1..(l + n) |-> all[i]]
      BY <1>6
    <2>2. all = [i \in 1..(l + n) |-> (o - l) + i]
      BY <1>8, <2>1
    <2> QED
      BY <2>2, <1>6, <1>10, <1>11
  <1>13. Progress(t)
    BY <1>11, <1>12 DEF Progress
  <1>14. s = IF n = 0 \/ t.least = 0 THEN Await!Returned(t, Await!Answer("ok", t.size - t.least)) ELSE t
    BY <1>1 DEF Await!Sent
  <1>15. CASE ~(n = 0 \/ t.least = 0)
    BY <1>3, <1>10, <1>13, <1>14, <1>15 DEF Fits, Called
  <1>16. CASE n = 0 \/ t.least = 0
    <2>1. t.size - t.least = Len(t.sent) /\ Len(t.sent) \in Nat
      BY <1>6, <1>10, <1>11
    <2>2. PICK x \in Answers : x = [ec |-> "ok", value |-> Len(t.sent)]
      BY <2>1 DEF Answers
    <2>3. s = [t EXCEPT !.at = "returned", !.result = x]
      BY <1>14, <1>16, <2>1, <2>2 DEF Await!Returned, Await!Answer
    <2>4. /\ s \in IoCall /\ s.kind = "sendfile" /\ s.at = "returned" /\ s.number = r.number
          /\ s.offset = t.offset /\ s.size = t.size /\ s.least = t.least /\ s.sent = t.sent
          /\ s.result = x
      BY <2>3, <1>10 DEF IoCall
    <2>5. Len(t.sent) = t.size \/ (t.offset >= FileSize /\ Len(t.sent) < t.size)
      <3>1. FileSize \in Nat
        BY InstanceAssumption DEF Await!CoroIoAssumption
      <3>2. CASE z - n = 0
        BY <3>2, <1>6, <1>10
      <3>3. CASE z - n # 0
        <4>1. n = 0 /\ left = 0
          BY <3>3, <1>10, <1>16, <1>p
        <4>2. o >= FileSize /\ o + n = o /\ l + n < z + l
          BY <4>1, <3>1, <3>3, <1>p
        <4> QED
          BY <4>2, <1>6, <1>10
      <3> QED
        BY <3>2, <3>3
    <2>6. Await!OwnAnswer(s) /\ Await!FileSent(s)
      BY <1>12, <2>2, <2>4, <2>5 DEF Await!OwnAnswer, Await!FileSent
    <2>7. Progress(s)
      BY <1>13, <2>4 DEF Progress
    <2> QED
      BY <2>4, <2>6, <2>7, <1>3 DEF Fits, Called
  <1> QED
    BY <1>15, <1>16

AwaitTypeOK ==
  /\ kinds \subseteq Await!Operations
  /\ begun \in Nat
  /\ call \in [IoCallers -> IoCall]
  /\ service \subseteq IoCallers
  /\ onExecutor \in Seq(Entry)
  /\ channel \in Channel

CallsFit == \A c \in IoCallers : Fits(call[c], begun)
NumbersDiffer ==
  \A c, d \in IoCallers :
    c # d /\ call[c].at # "idle" /\ call[d].at # "idle" => call[c].number # call[d].number

Waits(c, operations) == call[c].at = "waiting" /\ call[c].kind \in operations

(* Who is resumed waits, and is resumed once: by asio, by the executor, or   *)
(* by the channel, which hands over to the executor.                         *)
AskedAsio == \A c \in service : Waits(c, {"wait", "connect", "sendfile"})
Queued ==
  \A i \in 1..Len(onExecutor) :
    /\ Waits(onExecutor[i].of, {"post", "close", "send", "receive"})
    /\ call[onExecutor[i].of].kind = "receive" =>
         \E v \in Nat : onExecutor[i].answers = {Await!Answer("ok", v)}
    /\ \A j \in 1..Len(onExecutor) : onExecutor[i].of = onExecutor[j].of => i = j
    /\ \A j \in 1..Len(channel.senders) : channel.senders[j] # onExecutor[i].of
    /\ \A j \in 1..Len(channel.receivers) : channel.receivers[j] # onExecutor[i].of
Sending ==
  \A i \in 1..Len(channel.senders) :
    /\ Waits(channel.senders[i], {"send"})
    /\ \A j \in 1..Len(channel.senders) : channel.senders[i] = channel.senders[j] => i = j
Receiving ==
  \A i \in 1..Len(channel.receivers) :
    /\ Waits(channel.receivers[i], {"receive"})
    /\ \A j \in 1..Len(channel.receivers) : channel.receivers[i] = channel.receivers[j] => i = j

(* What came in has gone out, is in the buffer or waits, in this order.      *)
InOrder ==
  /\ Len(channel.in) = Len(channel.out) + Len(channel.buffer) + Len(channel.senders)
  /\ \A i \in 1..Len(channel.out) : channel.in[i] = channel.out[i]
  /\ \A i \in 1..Len(channel.buffer) : channel.in[Len(channel.out) + i] = channel.buffer[i]
  /\ \A i \in 1..Len(channel.senders) :
       channel.in[Len(channel.out) + Len(channel.buffer) + i] = call[channel.senders[i]].number

(* A value comes in once. *)
OnceEach ==
  /\ \A i, j \in 1..Len(channel.in) : channel.in[i] = channel.in[j] => i = j
  /\ \A i \in 1..Len(channel.in) : channel.in[i] <= begun
  /\ \A c \in IoCallers : call[c].at = "try" /\ call[c].kind = "send" =>
       \A i \in 1..Len(channel.in) : channel.in[i] # call[c].number

(* Nobody waits for what there is. *)
Room ==
  /\ Len(channel.buffer) <= Capacity
  /\ channel.receivers # <<>> => channel.buffer = <<>> /\ channel.senders = <<>>
  /\ channel.senders # <<>> => Len(channel.buffer) = Capacity

(* A value that went out has gone to one receiver, or is on its way there.   *)
Holds(c, v) ==
  /\ call[c].kind = "receive"
  /\ \/ call[c].at = "returned" /\ call[c].result.value = v
     \/ \E i \in 1..Len(onExecutor) : /\ onExecutor[i].of = c
                                      /\ onExecutor[i].answers = {Await!Answer("ok", v)}
WentOut(v) == \E i \in 1..Len(channel.out) : channel.out[i] = v
Received ==
  \A c \in IoCallers, v \in Nat : Holds(c, v) =>
    WentOut(v) /\ \A d \in IoCallers : d # c => ~Holds(d, v)

AwaitInv ==
  /\ AwaitTypeOK /\ CallsFit /\ NumbersDiffer
  /\ AskedAsio /\ Queued /\ Sending /\ Receiving
  /\ InOrder /\ OnceEach /\ Room /\ Received

(* What the type of the state says about the lists. *)
LEMMA Lists ==
  ASSUME AwaitTypeOK
  PROVE  /\ onExecutor \in Seq(Entry) /\ Len(onExecutor) \in Nat
         /\ \A i \in 1..Len(onExecutor) : onExecutor[i] \in Entry /\ onExecutor[i].of \in IoCallers
         /\ service \subseteq IoCallers /\ begun \in Nat
         /\ channel.senders \in Seq(IoCallers) /\ Len(channel.senders) \in Nat
         /\ \A i \in 1..Len(channel.senders) : channel.senders[i] \in IoCallers
         /\ channel.receivers \in Seq(IoCallers) /\ Len(channel.receivers) \in Nat
         /\ \A i \in 1..Len(channel.receivers) : channel.receivers[i] \in IoCallers
         /\ channel.buffer \in Seq(Nat) /\ channel.in \in Seq(Nat) /\ channel.out \in Seq(Nat)
         /\ Len(channel.buffer) \in Nat /\ Len(channel.in) \in Nat /\ Len(channel.out) \in Nat
         /\ \A i \in 1..Len(channel.in) : channel.in[i] \in Nat
  <1>1. onExecutor \in Seq(Entry) /\ channel \in Channel /\ service \subseteq IoCallers /\ begun \in Nat
    BY DEF AwaitTypeOK
  <1>2. \A i \in 1..Len(onExecutor) : onExecutor[i] \in Entry
    BY <1>1
  <1>3. \A i \in 1..Len(onExecutor) : onExecutor[i].of \in IoCallers
    BY <1>2 DEF Entry
  <1>4. /\ channel.senders \in Seq(IoCallers) /\ channel.receivers \in Seq(IoCallers)
        /\ channel.buffer \in Seq(Nat) /\ channel.in \in Seq(Nat) /\ channel.out \in Seq(Nat)
    BY <1>1 DEF Channel
  <1>5. /\ Len(onExecutor) \in Nat /\ Len(channel.senders) \in Nat /\ Len(channel.receivers) \in Nat
        /\ Len(channel.buffer) \in Nat /\ Len(channel.in) \in Nat /\ Len(channel.out) \in Nat
    BY <1>1, <1>4
  <1>6. /\ \A i \in 1..Len(channel.senders) : channel.senders[i] \in IoCallers
        /\ \A i \in 1..Len(channel.receivers) : channel.receivers[i] \in IoCallers
        /\ \A i \in 1..Len(channel.in) : channel.in[i] \in Nat
    BY <1>4
  <1> QED
    BY <1>1, <1>2, <1>3, <1>4, <1>5, <1>6, Zenon

(* A call goes to its next place, or is a new one. *)
LEMMA CallGoes ==
  ASSUME AwaitInv, NEW c \in IoCallers, NEW r \in IoCall, call' = [call EXCEPT ![c] = r],
         \/ begun' = begun /\ r.number = call[c].number /\ call[c].at # "idle"
         \/ begun' = begun + 1 /\ r.number = begun + 1,
         Fits(r, begun')
  PROVE  /\ call' \in [IoCallers -> IoCall] /\ call'[c] = r
         /\ \A d \in IoCallers : d # c => call'[d] = call[d]
         /\ begun' \in Nat /\ begun <= begun'
         /\ CallsFit' /\ NumbersDiffer'
  <1>1. begun \in Nat /\ begun' \in Nat /\ begun <= begun' /\ call \in [IoCallers -> IoCall]
    BY DEF AwaitInv, AwaitTypeOK
  <1>2. /\ call' \in [IoCallers -> IoCall] /\ call'[c] = r
        /\ \A d \in IoCallers : d # c => call'[d] = call[d]
    BY <1>1
  <1>3. \A d \in IoCallers : Fits(call[d], begun) /\ call[d] \in IoCall
    BY <1>1 DEF AwaitInv, CallsFit
  <1>4. \A d \in IoCallers : Fits(call[d], begun')
    <2> TAKE d \in IoCallers
    <2>1. call[d].number \in 1..begun => call[d].number \in 1..begun'
      BY <1>1
    <2> QED
      BY <2>1, <1>3 DEF Fits
  <1>5. CallsFit'
    BY <1>2, <1>4 DEF CallsFit
  <1>6. ASSUME NEW d \in IoCallers, d # c, call[d].at # "idle" PROVE call[d].number # r.number
    <2>1. call[d].number \in 1..begun
      BY <1>3, <1>6 DEF Fits
    <2> QED
      BY <2>1, <1>1, <1>6 DEF AwaitInv, NumbersDiffer
  <1>7. NumbersDiffer'
    BY <1>2, <1>6 DEF AwaitInv, NumbersDiffer
  <1> QED
    BY <1>1, <1>2, <1>5, <1>7

(* What a step does to the receivers: nobody has more than before, or one    *)
(* has a value that went out just now.                                       *)
LEMMA NobodyHasMore ==
  ASSUME Received, \A v \in Nat : WentOut(v) => WentOut(v)',
         \A c \in IoCallers, v \in Nat : Holds(c, v)' => Holds(c, v)
  PROVE  Received'
  BY DEF Received

(* The case of a new value. *)
LEMMA OneHasMore ==
  ASSUME Received, \A v \in Nat : WentOut(v) => WentOut(v)', NEW b \in IoCallers, NEW w \in Nat,
         ~WentOut(w), WentOut(w)',
         \A c \in IoCallers, v \in Nat : Holds(c, v)' => Holds(c, v) \/ (c = b /\ v = w)
  PROVE  Received'
  BY DEF Received

(* Who is on the executor stays there. *)
LEMMA QueuedStays ==
  ASSUME AwaitInv, onExecutor' = onExecutor,
         \A i \in 1..Len(onExecutor) : call'[onExecutor[i].of] = call[onExecutor[i].of],
         \A i \in 1..Len(onExecutor), j \in 1..Len(channel'.senders) :
           channel'.senders[j] # onExecutor[i].of,
         \A i \in 1..Len(onExecutor), j \in 1..Len(channel'.receivers) :
           channel'.receivers[j] # onExecutor[i].of
  PROVE  Queued'
  <1> SUFFICES ASSUME NEW i \in 1..Len(onExecutor)
      PROVE /\ call'[onExecutor[i].of].at = "waiting"
            /\ call'[onExecutor[i].of].kind \in {"post", "close", "send", "receive"}
            /\ call'[onExecutor[i].of].kind = "receive" =>
                 \E v \in Nat : onExecutor[i].answers = {Await!Answer("ok", v)}
            /\ \A j \in 1..Len(onExecutor) : onExecutor[i].of = onExecutor[j].of => i = j
    BY DEF Queued, Waits
  <1> QED
    BY DEF AwaitInv, Queued, Waits

(* A coroutine that nobody resumes any more goes on. *)
LEMMA MovesOn ==
  ASSUME AwaitInv, NEW c \in IoCallers, NEW r \in IoCall, call' = [call EXCEPT ![c] = r],
         \/ begun' = begun /\ r.number = call[c].number /\ call[c].at # "idle" /\ r.at # "try"
         \/ begun' = begun + 1 /\ r.number = begun + 1,
         Fits(r, begun'), ~(r.kind = "receive" /\ r.at = "returned"),
         service' \subseteq service, c \notin service',
         \A i \in 1..Len(onExecutor) : onExecutor[i].of # c,
         \A i \in 1..Len(channel.senders) : channel.senders[i] # c,
         \A i \in 1..Len(channel.receivers) : channel.receivers[i] # c,
         UNCHANGED <<kinds, onExecutor, channel>>
  PROVE  AwaitInv'
  <1>1. /\ call' \in [IoCallers -> IoCall] /\ call'[c] = r
        /\ \A d \in IoCallers : d # c => call'[d] = call[d]
        /\ begun' \in Nat /\ begun <= begun'
        /\ CallsFit' /\ NumbersDiffer'
    BY CallGoes
  <1>2. AwaitTypeOK'
    BY <1>1 DEF AwaitInv, AwaitTypeOK
  <1>3. /\ \A i \in 1..Len(onExecutor) : onExecutor[i].of \in IoCallers
        /\ service \subseteq IoCallers /\ begun \in Nat
        /\ \A i \in 1..Len(channel.senders) : channel.senders[i] \in IoCallers
        /\ \A i \in 1..Len(channel.receivers) : channel.receivers[i] \in IoCallers
        /\ Len(channel.in) \in Nat /\ \A i \in 1..Len(channel.in) : channel.in[i] \in Nat
    BY Lists DEF AwaitInv
  <1>5. AskedAsio' /\ Queued' /\ Sending' /\ Receiving'
    <2>1. AskedAsio'
      BY <1>1, <1>3 DEF AwaitInv, AskedAsio, Waits
    <2>2. Queued'
      <3>1. \A i \in 1..Len(onExecutor) : call'[onExecutor[i].of] = call[onExecutor[i].of]
        BY <1>1, <1>3
      <3>2. \A i \in 1..Len(onExecutor) :
              /\ \A j \in 1..Len(channel.senders) : channel.senders[j] # onExecutor[i].of
              /\ \A j \in 1..Len(channel.receivers) : channel.receivers[j] # onExecutor[i].of
        BY DEF AwaitInv, Queued
      <3> QED
        BY <3>1, <3>2, QueuedStays
    <2>3. Sending' /\ Receiving'
      BY <1>1, <1>3 DEF AwaitInv, Sending, Receiving, Waits
    <2> QED
      BY <2>1, <2>2, <2>3
  <1>6. InOrder'
    BY <1>1, <1>3 DEF AwaitInv, InOrder
  <1>7. OnceEach'
    <2>1. \A i \in 1..Len(channel.in) : channel.in[i] <= begun
      BY DEF AwaitInv, OnceEach
    <2>2. \A i \in 1..Len(channel.in) : channel.in[i] <= begun' /\ channel.in[i] # begun + 1
      BY <2>1, <1>1, <1>3
    <2> QED
      BY <2>2, <1>1 DEF AwaitInv, OnceEach
  <1>8. Room'
    BY DEF AwaitInv, Room
  <1>9. Received'
    <2>1. \A v \in Nat : WentOut(v) => WentOut(v)'
      BY DEF WentOut
    <2>2. ASSUME NEW d \in IoCallers, NEW v \in Nat, Holds(d, v)' PROVE Holds(d, v)
      BY <2>2, <1>1 DEF Holds
    <2> QED
      BY <2>1, <2>2, NobodyHasMore DEF AwaitInv
  <1> QED
    BY <1>1, <1>2, <1>5, <1>6, <1>7, <1>8, <1>9 DEF AwaitInv

(* A coroutine that does not wait goes on by itself. *)
LEMMA GoesOnAlone ==
  ASSUME AwaitInv, NEW c \in IoCallers, NEW r \in IoCall, call' = [call EXCEPT ![c] = r],
         \/ begun' = begun /\ r.number = call[c].number /\ call[c].at # "idle" /\ r.at # "try"
         \/ begun' = begun + 1 /\ r.number = begun + 1,
         Fits(r, begun'), call[c].at # "waiting", ~(r.kind = "receive" /\ r.at = "returned"),
         UNCHANGED <<kinds, service, onExecutor, channel>>
  PROVE  AwaitInv'
  <1>1. /\ c \notin service
        /\ \A i \in 1..Len(onExecutor) : onExecutor[i].of # c
        /\ \A i \in 1..Len(channel.senders) : channel.senders[i] # c
        /\ \A i \in 1..Len(channel.receivers) : channel.receivers[i] # c
    BY DEF AwaitInv, AskedAsio, Queued, Sending, Receiving, Waits
  <1> QED
    BY <1>1, MovesOn

(* What is handed over comes last on the executor. *)
LEMMA HandedOver ==
  ASSUME AwaitTypeOK, NEW e \in Entry, onExecutor' = Append(onExecutor, e)
  PROVE  /\ onExecutor' \in Seq(Entry) /\ Len(onExecutor') = Len(onExecutor) + 1
         /\ \A i \in 1..Len(onExecutor) :
              i \in 1..Len(onExecutor') /\ onExecutor'[i] = onExecutor[i]
         /\ onExecutor'[Len(onExecutor) + 1] = e
         /\ \A i \in 1..Len(onExecutor') :
              \/ i \in 1..Len(onExecutor) /\ onExecutor'[i] = onExecutor[i]
              \/ i = Len(onExecutor) + 1 /\ onExecutor'[i] = e
  <1>1. onExecutor \in Seq(Entry)
    BY DEF AwaitTypeOK
  <1>2. PICK n \in Nat : n = Len(onExecutor)
    BY <1>1
  <1>3. /\ onExecutor' \in Seq(Entry) /\ Len(onExecutor') = n + 1
        /\ \A i \in 1..n : onExecutor'[i] = onExecutor[i]
        /\ onExecutor'[n + 1] = e
    BY <1>1, <1>2, AppendProperties
  <1>4. /\ \A i \in 1..(n + 1) : i \in 1..n \/ i = n + 1
        /\ \A i \in 1..n : i \in 1..(n + 1)
    OBVIOUS
  <1> QED
    BY <1>2, <1>3, <1>4

(* Who is handed something is on the executor once. *)
LEMMA QueuedOnce ==
  ASSUME AwaitInv, NEW e \in Entry, onExecutor' = Append(onExecutor, e),
         \A i \in 1..Len(onExecutor) : onExecutor[i].of # e.of,
         Waits(e.of, {"post", "close", "send", "receive"})',
         call'[e.of].kind = "receive" => \E v \in Nat : e.answers = {Await!Answer("ok", v)},
         \A i \in 1..Len(onExecutor) : call'[onExecutor[i].of] = call[onExecutor[i].of],
         \A j \in 1..Len(channel'.senders) :
           /\ channel'.senders[j] # e.of
           /\ \A i \in 1..Len(onExecutor) : channel'.senders[j] # onExecutor[i].of,
         \A j \in 1..Len(channel'.receivers) :
           /\ channel'.receivers[j] # e.of
           /\ \A i \in 1..Len(onExecutor) : channel'.receivers[j] # onExecutor[i].of
  PROVE  Queued'
  <1>1. \A i \in 1..Len(onExecutor') :
          \/ i \in 1..Len(onExecutor) /\ onExecutor'[i] = onExecutor[i]
          \/ i = Len(onExecutor) + 1 /\ onExecutor'[i] = e
    BY HandedOver DEF AwaitInv
  <1> SUFFICES ASSUME NEW i \in 1..Len(onExecutor')
      PROVE /\ Waits(onExecutor[i].of, {"post", "close", "send", "receive"})'
            /\ call'[onExecutor'[i].of].kind = "receive" =>
                 \E v \in Nat : onExecutor'[i].answers = {Await!Answer("ok", v)}
            /\ \A j \in 1..Len(onExecutor') : onExecutor'[i].of = onExecutor'[j].of => i = j
            /\ \A j \in 1..Len(channel'.senders) : channel'.senders[j] # onExecutor'[i].of
            /\ \A j \in 1..Len(channel'.receivers) : channel'.receivers[j] # onExecutor'[i].of
    BY DEF Queued
  <1>2. CASE i \in 1..Len(onExecutor) /\ onExecutor'[i] = onExecutor[i]
    <2>1. PICK d : d = onExecutor[i].of /\ d = onExecutor'[i].of /\ d # e.of /\ call'[d] = call[d]
      BY <1>2
    <2>2. /\ Waits(d, {"post", "close", "send", "receive"})
          /\ call[d].kind = "receive" =>
               \E v \in Nat : onExecutor[i].answers = {Await!Answer("ok", v)}
          /\ \A j \in 1..Len(onExecutor) : d = onExecutor[j].of => i = j
      BY <1>2, <2>1 DEF AwaitInv, Queued
    <2>3. \A j \in 1..Len(onExecutor') : d = onExecutor'[j].of => i = j
      BY <2>1, <2>2, <1>1
    <2>4. Waits(onExecutor[i].of, {"post", "close", "send", "receive"})'
      BY <2>1, <2>2 DEF Waits
    <2>5. call'[onExecutor'[i].of].kind = "receive" =>
            \E v \in Nat : onExecutor'[i].answers = {Await!Answer("ok", v)}
      BY <1>2, <2>1, <2>2
    <2>6. /\ \A j \in 1..Len(channel'.senders) : channel'.senders[j] # onExecutor'[i].of
          /\ \A j \in 1..Len(channel'.receivers) : channel'.receivers[j] # onExecutor'[i].of
      BY <1>2
    <2>7. \A j \in 1..Len(onExecutor') : onExecutor'[i].of = onExecutor'[j].of => i = j
      BY <2>1, <2>3
    <2> QED
      BY <2>4, <2>5, <2>6, <2>7
  <1>3. CASE i = Len(onExecutor) + 1 /\ onExecutor'[i] = e
    <2>1. \A j \in 1..Len(onExecutor') : onExecutor'[i].of = onExecutor'[j].of => i = j
      BY <1>1, <1>3
    <2>2. Waits(onExecutor[i].of, {"post", "close", "send", "receive"})'
      BY <1>3 DEF Waits
    <2> QED
      BY <2>1, <2>2, <1>3
  <1> QED
    BY <1>1, <1>2, <1>3

(* Where the fields of one call are written, the others stay. *)
LEMMA PlaceWritten ==
  ASSUME AwaitTypeOK, NEW c \in IoCallers, NEW place \in Called \union {"returned"},
         NEW there \in BOOLEAN
  PROVE  [call EXCEPT ![c].stored = there, ![c].at = place]
           = [call EXCEPT ![c] = [@ EXCEPT !.stored = there, !.at = place]]
  BY DEF AwaitTypeOK, IoCall

(* A coroutine calls an operation. *)
LEMMA BeginKeeps ==
  ASSUME AwaitInv, NEW c \in IoCallers, Await!Begin(c)
  PROVE  AwaitInv'
  <1>1. PICK kind \in kinds, bytes \in SendSizes, offset \in {0, 1} :
          /\ kind # "sendfile" => bytes = 0 /\ offset = 0
          /\ call' = [call EXCEPT ![c] =
               [Await!Idle EXCEPT !.kind = kind, !.at = Await!FirstStep(kind), !.number = begun + 1,
                                  !.offset = offset, !.size = bytes, !.least = bytes]]
    BY DEF Await!Begin
  <1>2. kind \in Await!Operations /\ bytes \in Nat /\ offset \in Nat /\ begun \in Nat
    BY <1>1, InstanceAssumption DEF AwaitInv, AwaitTypeOK, Await!CoroIoAssumption
  <1>3. PICK place : place = Await!FirstStep(kind)
    OBVIOUS
  <1>4. /\ place \in {"syscall", "try", "await"}
        /\ place = "syscall" <=> kind = "sendfile"
        /\ place = "try" <=> kind \in {"send", "receive"}
    BY <1>2, <1>3 DEF Await!FirstStep, Await!Operations
  <1>5. PICK r : r = [Await!Idle EXCEPT !.kind = kind, !.at = place, !.number = begun + 1,
                                        !.offset = offset, !.size = bytes, !.least = bytes]
    OBVIOUS
  <1>6. call' = [call EXCEPT ![c] = r]
    BY <1>1, <1>3, <1>5
  <1>7. Await!Idle \in IoCall /\ Await!Idle.told = <<>> /\ Await!Idle.sent = <<>>
    <2>1. Await!Fine \in Answers
      BY DEF Await!Fine, Await!Answer, Answers
    <2>2. <<>> \in Seq(Answers) /\ <<>> \in Seq(Nat)
      OBVIOUS
    <2> QED
      BY <2>1, <2>2 DEF IoCall, Await!Idle
  <1>8. /\ r \in IoCall /\ r.kind = kind /\ r.at = place /\ r.number = begun + 1
        /\ r.offset = offset /\ r.size = bytes /\ r.least = bytes /\ r.told = <<>> /\ r.sent = <<>>
    <2>1. PICK q \in IoCall : q = Await!Idle /\ q.told = <<>> /\ q.sent = <<>>
      BY <1>7
    <2>2. PICK n \in Nat : n = begun + 1
      BY <1>2
    <2>3. r = [q EXCEPT !.kind = kind, !.at = place, !.number = n, !.offset = offset,
                        !.size = bytes, !.least = bytes]
      BY <1>5, <2>1, <2>2
    <2>4. offset \in Nat /\ kind \in Await!Operations \union {"none"}
      BY <1>2
    <2>5. place \in Called \union {"idle", "try", "syscall", "returned"}
      BY <1>4 DEF Called
    <2> QED
      BY <1>2, <2>1, <2>2, <2>3, <2>4, <2>5 DEF IoCall
  <1>9. Progress(r)
    <2>1. Len(r.sent) = 0 /\ r.least = r.size /\ r.size \in Nat /\ r.offset \in Nat
      BY <1>2, <1>8
    <2>2. \A f : <<>> = [i \in 1..0 |-> f]
      OBVIOUS
    <2>3. r.sent = [i \in 1..Len(r.sent) |-> (r.offset - Len(r.sent)) + i]
      BY <2>1, <1>8
    <2> QED
      BY <2>1, <2>3 DEF Progress
  <1>10. Fits(r, begun + 1)
    <2>1. r.number \in 1..(begun + 1)
      BY <1>2, <1>8
    <2> QED
      BY <2>1, <1>2, <1>4, <1>8, <1>9 DEF Fits, Called, Await!Operations
  <1>11. /\ begun' = begun + 1 /\ r.number = begun + 1 /\ call[c].at # "waiting"
         /\ ~(r.kind = "receive" /\ r.at = "returned")
         /\ UNCHANGED <<kinds, service, onExecutor, channel>>
    BY <1>4, <1>8 DEF Await!Begin
  <1> QED
    BY <1>6, <1>8, <1>10, <1>11, GoesOnAlone

(* It stores its handle. *)
LEMMA StoreHandleKeeps ==
  ASSUME AwaitInv, NEW c \in IoCallers, Await!StoreHandle(c)
  PROVE  AwaitInv'
  <1>1. call[c] \in IoCall /\ Fits(call[c], begun) /\ call[c].at = "await"
    BY DEF AwaitInv, AwaitTypeOK, CallsFit, Await!StoreHandle
  <1>2. PICK r : r = [call[c] EXCEPT !.stored = TRUE, !.at = "start"]
    OBVIOUS
  <1>3. call' = [call EXCEPT ![c] = r]
    BY <1>2, PlaceWritten DEF AwaitInv, Called, Await!StoreHandle
  <1>4. /\ r \in IoCall /\ r.at = "start" /\ r.stored /\ r.kind = call[c].kind
        /\ r.number = call[c].number /\ r.told = call[c].told /\ r.offset = call[c].offset
        /\ r.size = call[c].size /\ r.least = call[c].least /\ r.sent = call[c].sent
    BY <1>1, <1>2 DEF IoCall, Called
  <1>5. Fits(r, begun)
    BY <1>1, <1>4 DEF Fits, Called, Progress
  <1>6. UNCHANGED <<begun, kinds, service, onExecutor, channel>>
    BY DEF Await!StoreHandle
  <1> QED
    BY <1>1, <1>3, <1>4, <1>5, <1>6, GoesOnAlone

(* A transfer makes one system call. *)
LEMMA SendFileKeeps ==
  ASSUME AwaitInv, NEW c \in IoCallers, Await!SendFile(c)
  PROVE  AwaitInv'
  <1>1. /\ call[c] \in IoCall /\ Fits(call[c], begun) /\ call[c].at = "syscall"
        /\ call \in [IoCallers -> IoCall]
    BY DEF AwaitInv, AwaitTypeOK, CallsFit, Await!SendFile
  <1>2. call[c].kind = "sendfile" /\ Progress(call[c]) /\ call[c].number \in 1..begun
    BY <1>1 DEF Fits
  <1>3. UNCHANGED <<begun, kinds, service, onExecutor, channel>>
    BY DEF Await!SendFile
  <1>4. PICK left : left = (IF call[c].offset < FileSize THEN FileSize - call[c].offset ELSE 0)
    OBVIOUS
  <1>5. /\ left \in Nat /\ call[c].least \in Nat /\ call[c].offset \in Nat
        /\ SendChunk \in Nat /\ SendChunk # 0
    <2>1. FileSize \in Nat /\ SendChunk \in Nat /\ SendChunk # 0
      BY InstanceAssumption DEF Await!CoroIoAssumption
    <2>2. call[c].least \in Nat /\ call[c].offset \in Nat
      BY <1>1 DEF IoCall
    <2> QED
      BY <2>1, <2>2, <1>4
  <1>6. PICK most : most = Await!Smaller(SendChunk, Await!Smaller(call[c].least, left))
    OBVIOUS
  <1>7. /\ most \in Nat /\ most <= call[c].least /\ most <= left
        /\ most = 0 => call[c].least = 0 \/ left = 0
    BY <1>5, <1>6 DEF Await!Smaller
  <1>8. \/ \E n \in 0..most : (n = 0 => most = 0) /\ call' = [call EXCEPT ![c] = Await!Sent(call[c], n)]
        \/ UNCHANGED call
        \/ call' = [call EXCEPT ![c].at = "await"]
        \/ call' = [call EXCEPT ![c] =
             Await!Returned(call[c], Await!Answer("error", call[c].size - call[c].least))]
    BY <1>4, <1>6 DEF Await!SendFile
  <1>9. ASSUME NEW n \in 0..most, n = 0 => most = 0,
               call' = [call EXCEPT ![c] = Await!Sent(call[c], n)]
        PROVE  AwaitInv'
    <2>1. PICK s : s = Await!Sent(call[c], n)
      OBVIOUS
    <2>2. n \in Nat /\ n <= call[c].least /\ n <= left /\ (n = 0 => call[c].least = 0 \/ left = 0)
      BY <1>5, <1>7, <1>9
    <2>3. begun \in Nat
      BY DEF AwaitInv, AwaitTypeOK
    <2>4. /\ s \in IoCall /\ Fits(s, begun)
          /\ s.kind = "sendfile" /\ s.number = call[c].number /\ s.at \in {"syscall", "returned"}
      BY <1>1, <1>4, <1>5, <2>1, <2>2, <2>3, BytesSent
    <2> QED
      BY <1>1, <1>3, <1>9, <2>1, <2>4, GoesOnAlone
  <1>10. CASE UNCHANGED call
    <2>1. call' = [call EXCEPT ![c] = call[c]]
      BY <1>1, <1>10
    <2> QED
      BY <1>1, <1>2, <1>3, <2>1, GoesOnAlone
  <1>11. CASE call' = [call EXCEPT ![c].at = "await"]
    <2>1. PICK r : r = [call[c] EXCEPT !.at = "await"]
      OBVIOUS
    <2>2. call' = [call EXCEPT ![c] = r]
      BY <1>1, <1>11, <2>1
    <2>3. /\ r \in IoCall /\ r.at = "await" /\ r.kind = "sendfile"
          /\ r.number = call[c].number /\ r.offset = call[c].offset
          /\ r.size = call[c].size /\ r.least = call[c].least /\ r.sent = call[c].sent
      BY <1>1, <1>2, <2>1 DEF IoCall, Called
    <2>4. Fits(r, begun)
      BY <1>2, <2>3 DEF Fits, Called, Progress
    <2> QED
      BY <1>1, <1>3, <2>2, <2>3, <2>4, GoesOnAlone
  <1>12. CASE call' = [call EXCEPT ![c] =
                Await!Returned(call[c], Await!Answer("error", call[c].size - call[c].least))]
    <2>1. call[c].size - call[c].least = Len(call[c].sent) /\ Len(call[c].sent) \in Nat
      BY <1>1, <1>2 DEF Progress, IoCall
    <2>2. PICK x \in Answers : x = [ec |-> "error", value |-> Len(call[c].sent)]
      BY <2>1 DEF Answers
    <2>3. PICK r : r = [call[c] EXCEPT !.at = "returned", !.result = x]
      OBVIOUS
    <2>4. call' = [call EXCEPT ![c] = r]
      BY <1>12, <2>1, <2>2, <2>3 DEF Await!Returned, Await!Answer
    <2>5. /\ r \in IoCall /\ r.at = "returned" /\ r.kind = "sendfile" /\ r.result = x
          /\ r.number = call[c].number /\ r.offset = call[c].offset
          /\ r.size = call[c].size /\ r.least = call[c].least /\ r.sent = call[c].sent
      BY <1>1, <1>2, <2>3 DEF IoCall
    <2>6. Await!OwnAnswer(r) /\ Await!FileSent(r)
      BY <1>2, <2>2, <2>5 DEF Await!OwnAnswer, Await!FileSent, Progress
    <2>7. Fits(r, begun)
      BY <1>2, <2>5, <2>6 DEF Fits, Called, Progress
    <2> QED
      BY <1>1, <1>3, <2>4, <2>5, <2>7, GoesOnAlone
  <1> QED
    BY <1>8, <1>9, <1>10, <1>11, <1>12

(* asio, or the executor, has the operation of c. *)
LEMMA StartOperationKeeps ==
  ASSUME AwaitInv, NEW c \in IoCallers, Await!StartOperation(c)
  PROVE  AwaitInv'
  <1>1. /\ call[c] \in IoCall /\ Fits(call[c], begun) /\ call[c].at = "start"
        /\ call \in [IoCallers -> IoCall] /\ begun \in Nat /\ kinds \subseteq Await!Operations
        /\ channel \in Channel /\ AwaitTypeOK
    BY DEF AwaitInv, AwaitTypeOK, CallsFit, Await!StartOperation
  <1>2. PICK r : r = [call[c] EXCEPT !.at = "waiting"]
    OBVIOUS
  <1>3. call' = [call EXCEPT ![c] = r] /\ UNCHANGED <<kinds, begun, channel>>
    BY <1>1, <1>2 DEF Await!StartOperation
  <1>4. /\ r \in IoCall /\ r.at = "waiting" /\ r.kind = call[c].kind /\ r.stored = call[c].stored
        /\ r.number = call[c].number /\ r.told = call[c].told /\ r.offset = call[c].offset
        /\ r.size = call[c].size /\ r.least = call[c].least /\ r.sent = call[c].sent
    BY <1>1, <1>2 DEF IoCall, Called
  <1>5. Fits(r, begun) /\ r.kind \in {"wait", "connect", "sendfile", "post", "close"}
    <2>1. r.kind \in Await!Operations \union {"none"}
      BY <1>4 DEF IoCall
    <2> QED
      BY <1>1, <1>4, <2>1 DEF Fits, Called, Progress, Await!Operations
  <1>6. /\ call' \in [IoCallers -> IoCall] /\ call'[c] = r
        /\ \A d \in IoCallers : d # c => call'[d] = call[d]
        /\ CallsFit' /\ NumbersDiffer'
    BY <1>1, <1>3, <1>4, <1>5, CallGoes
  <1>7. /\ onExecutor \in Seq(Entry) /\ Len(onExecutor) \in Nat
        /\ \A i \in 1..Len(onExecutor) : onExecutor[i] \in Entry /\ onExecutor[i].of \in IoCallers
        /\ service \subseteq IoCallers
        /\ \A i \in 1..Len(channel.senders) : channel.senders[i] \in IoCallers
        /\ \A i \in 1..Len(channel.receivers) : channel.receivers[i] \in IoCallers
    BY <1>1, Lists
  <1>8. /\ c \notin service
        /\ \A i \in 1..Len(onExecutor) : onExecutor[i].of # c
        /\ \A i \in 1..Len(channel.senders) : channel.senders[i] # c
        /\ \A i \in 1..Len(channel.receivers) : channel.receivers[i] # c
    BY <1>1 DEF AwaitInv, AskedAsio, Queued, Sending, Receiving, Waits
  <1>9. Sending' /\ Receiving' /\ InOrder' /\ OnceEach' /\ Room'
    <2>1. Sending' /\ Receiving'
      BY <1>3, <1>6, <1>7, <1>8 DEF AwaitInv, Sending, Receiving, Waits
    <2>2. InOrder'
      BY <1>3, <1>6, <1>7, <1>8 DEF AwaitInv, InOrder
    <2>3. OnceEach'
      BY <1>3, <1>4, <1>6 DEF AwaitInv, OnceEach
    <2>4. Room'
      BY <1>3 DEF AwaitInv, Room
    <2> QED
      BY <2>1, <2>2, <2>3, <2>4
  <1>10. CASE call[c].kind \in {"post", "close"}
    <2>1. PICK e : /\ onExecutor' = Append(onExecutor, e) /\ e.of = c
                   /\ e \in Entry /\ service' = service
      <3>1. PICK s : /\ s = (IF call[c].kind = "close" THEN {Await!Fine}
                             ELSE {Await!Answer("ok", call[c].number), Await!Answer("exception", 0)})
        OBVIOUS
      <3>2. s \in SUBSET Answers
        <4>1. call[c].number \in Nat
          BY <1>1 DEF IoCall
        <4> QED
          BY <3>1, <4>1 DEF Answers, Await!Fine, Await!Answer
      <3>3. onExecutor' = Append(onExecutor, [of |-> c, answers |-> s]) /\ service' = service
        BY <1>10, <3>1 DEF Await!StartOperation
      <3> QED
        BY <3>2, <3>3 DEF Entry
    <2>2. onExecutor' \in Seq(Entry)
      BY <1>1, <2>1, HandedOver
    <2>3. \A i \in 1..Len(onExecutor') :
            \/ i \in 1..Len(onExecutor) /\ onExecutor'[i] = onExecutor[i]
            \/ onExecutor'[i].of = c
      BY <1>1, <2>1, HandedOver
    <2>4. AwaitTypeOK'
      BY <1>1, <1>3, <1>6, <1>7, <2>1, <2>2 DEF AwaitTypeOK
    <2>5. AskedAsio'
      BY <1>6, <1>7, <1>8, <2>1 DEF AwaitInv, AskedAsio, Waits
    <2>6. Queued'
      <3>1. Waits(e.of, {"post", "close", "send", "receive"})' /\ call'[e.of].kind # "receive"
        BY <1>4, <1>6, <1>10, <2>1 DEF Waits
      <3>2. \A i \in 1..Len(onExecutor) : /\ onExecutor[i].of # e.of
                                          /\ call'[onExecutor[i].of] = call[onExecutor[i].of]
        BY <1>6, <1>7, <1>8, <2>1
      <3>3. /\ \A j \in 1..Len(channel'.senders) : /\ channel'.senders[j] # e.of
                 /\ \A i \in 1..Len(onExecutor) : channel'.senders[j] # onExecutor[i].of
            /\ \A j \in 1..Len(channel'.receivers) : /\ channel'.receivers[j] # e.of
                 /\ \A i \in 1..Len(onExecutor) : channel'.receivers[j] # onExecutor[i].of
        BY <1>3, <1>8, <2>1 DEF AwaitInv, Queued
      <3> QED
        BY <2>1, <3>1, <3>2, <3>3, QueuedOnce
    <2>7. Received'
      <3>1. \A v \in Nat : WentOut(v) => WentOut(v)'
        BY <1>3 DEF WentOut
      <3>2. ASSUME NEW d \in IoCallers, NEW v \in Nat, Holds(d, v)' PROVE Holds(d, v)
        <4>1. d # c
          BY <3>2, <1>4, <1>6, <1>10 DEF Holds
        <4> QED
          BY <3>2, <4>1, <1>6, <2>3 DEF Holds
      <3> QED
        BY <3>1, <3>2, NobodyHasMore DEF AwaitInv
    <2> QED
      BY <1>6, <1>9, <2>4, <2>5, <2>6, <2>7 DEF AwaitInv
  <1>11. CASE ~(call[c].kind \in {"post", "close"})
    <2>1. service' = service \union {c} /\ onExecutor' = onExecutor
      BY <1>11 DEF Await!StartOperation
    <2>2. AwaitTypeOK'
      BY <1>1, <1>3, <1>6, <1>7, <2>1 DEF AwaitTypeOK
    <2>3. AskedAsio'
      BY <1>4, <1>5, <1>6, <1>7, <1>11, <2>1 DEF AwaitInv, AskedAsio, Waits
    <2>4. Queued'
      BY <1>3, <1>6, <1>7, <1>8, <2>1 DEF AwaitInv, Queued, Waits
    <2>5. Received'
      <3>1. \A v \in Nat : WentOut(v) => WentOut(v)'
        BY <1>3 DEF WentOut
      <3>2. ASSUME NEW d \in IoCallers, NEW v \in Nat, Holds(d, v)' PROVE Holds(d, v)
        BY <3>2, <1>4, <1>5, <1>6, <2>1 DEF Holds
      <3> QED
        BY <3>1, <3>2, NobodyHasMore DEF AwaitInv
    <2> QED
      BY <1>6, <1>9, <2>2, <2>3, <2>4, <2>5 DEF AwaitInv
  <1> QED
    BY <1>10, <1>11

(* A handler resumes with its answer the coroutine that waits for it. *)
LEMMA Resumes ==
  ASSUME AwaitInv, NEW c \in IoCallers, NEW a \in Answers, call[c].at = "waiting",
         Await!SetValueThenResume(c, a)
  PROVE  \E s \in IoCall :
           /\ call' = [call EXCEPT ![c] = s] /\ Fits(s, begun)
           /\ s.kind = call[c].kind /\ s.number = call[c].number
           /\ s.at \in {"await", "syscall", "returned"}
           /\ call[c].kind \in {"post", "close", "wait", "send", "receive"} =>
                s.at = "returned" /\ s.result = a
  <1>1. call[c] \in IoCall /\ Fits(call[c], begun) /\ begun \in Nat
    BY DEF AwaitInv, AwaitTypeOK, CallsFit
  <1>2. PICK s : s = Await!Resumed(Told(call[c], a), Told(call[c], a).arg)
    OBVIOUS
  <1>3. call' = [call EXCEPT ![c] = s]
    BY <1>2 DEF Await!SetValueThenResume, Told
  <1>4. /\ s \in IoCall /\ Fits(s, begun)
        /\ s.kind = call[c].kind /\ s.number = call[c].number
        /\ s.at \in {"await", "syscall", "returned"}
        /\ call[c].kind \in {"post", "close", "wait", "send", "receive"} =>
             s.at = "returned" /\ s.result = a
    BY <1>1, <1>2, Answered
  <1> QED
    BY <1>3, <1>4, Zenon

(* asio answers. *)
LEMMA CompleteKeeps ==
  ASSUME AwaitInv, NEW c \in IoCallers, Await!Complete(c)
  PROVE  AwaitInv'
  <1>1. /\ c \in service /\ service' = service \ {c}
        /\ UNCHANGED <<kinds, begun, onExecutor, channel>>
    BY DEF Await!Complete
  <1>2. Waits(c, {"wait", "connect", "sendfile"})
    BY <1>1 DEF AwaitInv, AskedAsio
  <1>3. PICK a \in Answers : Await!SetValueThenResume(c, a)
    <2>1. \A ec \in {"ok", "error"} : Await!Answer(ec, 0) \in Answers
      BY DEF Await!Answer, Answers
    <2> QED
      BY <2>1 DEF Await!Complete
  <1>4. PICK s \in IoCall :
           /\ call' = [call EXCEPT ![c] = s] /\ Fits(s, begun)
           /\ s.kind = call[c].kind /\ s.number = call[c].number
           /\ s.at \in {"await", "syscall", "returned"}
    BY <1>2, <1>3, Resumes DEF Waits
  <1>5. /\ \A i \in 1..Len(onExecutor) : onExecutor[i].of # c
        /\ \A i \in 1..Len(channel.senders) : channel.senders[i] # c
        /\ \A i \in 1..Len(channel.receivers) : channel.receivers[i] # c
    BY <1>2 DEF AwaitInv, Queued, Sending, Receiving, Waits
  <1>6. call[c].at # "idle" /\ s.at # "try" /\ s.kind # "receive" /\ c \notin service'
    BY <1>1, <1>2, <1>4 DEF Waits
  <1>7. begun' = begun /\ service' \subseteq service /\ Fits(s, begun')
    BY <1>1, <1>4
  <1> QED
    BY <1>1, <1>4, <1>5, <1>6, <1>7, MovesOn

(* The executor runs what is first. *)
LEMMA RunPostedKeeps ==
  ASSUME AwaitInv, Await!RunPosted
  PROVE  AwaitInv'
  <1>1. AwaitTypeOK /\ onExecutor # <<>> /\ UNCHANGED <<kinds, begun, service, channel>>
    BY DEF AwaitInv, Await!RunPosted
  <1>2. /\ onExecutor \in Seq(Entry) /\ Len(onExecutor) \in Nat
        /\ \A i \in 1..Len(onExecutor) : onExecutor[i] \in Entry /\ onExecutor[i].of \in IoCallers
        /\ service \subseteq IoCallers
        /\ \A i \in 1..Len(channel.senders) : channel.senders[i] \in IoCallers
        /\ \A i \in 1..Len(channel.receivers) : channel.receivers[i] \in IoCallers
    BY <1>1, Lists
  <1>3. /\ Head(onExecutor) = onExecutor[1] /\ onExecutor' \in Seq(Entry)
        /\ Len(onExecutor) >= 1 /\ Len(onExecutor') = Len(onExecutor) - 1
        /\ \A i \in 1..Len(onExecutor') : onExecutor'[i] = onExecutor[i + 1]
    <2>1. onExecutor' = Tail(onExecutor)
      BY DEF Await!RunPosted
    <2>2. /\ Head(onExecutor) \in Entry /\ Tail(onExecutor) \in Seq(Entry)
          /\ Len(Tail(onExecutor)) = Len(onExecutor) - 1
          /\ \A i \in 1..Len(Tail(onExecutor)) : Tail(onExecutor)[i] = onExecutor[i + 1]
      BY <1>1, <1>2, HeadTailProperties
    <2>3. Len(onExecutor) # 0
      BY <1>1, <1>2, EmptySeq
    <2> QED
      BY <1>2, <2>1, <2>2, <2>3
  <1>4. \A i \in 1..Len(onExecutor') :
          i + 1 \in 1..Len(onExecutor) /\ i + 1 # 1 /\ onExecutor'[i] = onExecutor[i + 1]
    <2>1. PICK n \in Nat : n = Len(onExecutor)
      BY <1>2
    <2>2. \A i \in 1..(n - 1) : i + 1 \in 1..n /\ i + 1 # 1
      OBVIOUS
    <2> QED
      BY <1>3, <2>1, <2>2
  <1>5. PICK c \in IoCallers : c = onExecutor[1].of /\ 1 \in 1..Len(onExecutor)
    BY <1>2, <1>3
  <1>6. PICK a \in Answers : a \in onExecutor[1].answers /\ Await!SetValueThenResume(c, a)
    <2>1. onExecutor[1].answers \subseteq Answers
      BY <1>2, <1>5 DEF Entry
    <2> QED
      BY <1>3, <1>5, <2>1 DEF Await!RunPosted
  <1>7. /\ Waits(c, {"post", "close", "send", "receive"})
        /\ call[c].kind = "receive" => \E v \in Nat : onExecutor[1].answers = {Await!Answer("ok", v)}
        /\ \A j \in 1..Len(onExecutor) : onExecutor[j].of = c => j = 1
        /\ \A j \in 1..Len(channel.senders) : channel.senders[j] # c
        /\ \A j \in 1..Len(channel.receivers) : channel.receivers[j] # c
    BY <1>5 DEF AwaitInv, Queued
  <1>8. c \notin service /\ \A i \in 1..Len(onExecutor') : onExecutor'[i].of # c
    <2>1. c \notin service
      BY <1>7 DEF AwaitInv, AskedAsio, Waits
    <2> QED
      BY <2>1, <1>4, <1>7
  <1>9. PICK s \in IoCall :
           /\ call' = [call EXCEPT ![c] = s] /\ Fits(s, begun)
           /\ s.kind = call[c].kind /\ s.number = call[c].number
           /\ s.at = "returned" /\ s.result = a
    BY <1>6, <1>7, Resumes DEF Waits
  <1>10. /\ call' \in [IoCallers -> IoCall] /\ call'[c] = s
         /\ \A d \in IoCallers : d # c => call'[d] = call[d]
         /\ CallsFit' /\ NumbersDiffer'
    <2>1. begun' = begun /\ call[c].at # "idle" /\ Fits(s, begun')
      BY <1>1, <1>7, <1>9 DEF Waits
    <2> QED
      BY <1>9, <2>1, CallGoes
  <1>11. AwaitTypeOK'
    BY <1>1, <1>3, <1>10 DEF AwaitTypeOK
  <1>12. AskedAsio'
    BY <1>1, <1>2, <1>8, <1>10 DEF AwaitInv, AskedAsio, Waits
  <1>13. Queued'
    <2> SUFFICES ASSUME NEW i \in 1..Len(onExecutor')
        PROVE /\ Waits(onExecutor[i].of, {"post", "close", "send", "receive"})'
              /\ call'[onExecutor'[i].of].kind = "receive" =>
                   \E v \in Nat : onExecutor'[i].answers = {Await!Answer("ok", v)}
              /\ \A j \in 1..Len(onExecutor') : onExecutor'[i].of = onExecutor'[j].of => i = j
              /\ \A j \in 1..Len(channel.senders) : channel.senders[j] # onExecutor'[i].of
              /\ \A j \in 1..Len(channel.receivers) : channel.receivers[j] # onExecutor'[i].of
      BY <1>1 DEF Queued
    <2>1. PICK d \in IoCallers : /\ d = onExecutor[i + 1].of /\ d = onExecutor'[i].of /\ d # c
                               /\ i + 1 \in 1..Len(onExecutor)
      BY <1>2, <1>4, <1>8
    <2>2. /\ Waits(d, {"post", "close", "send", "receive"})
          /\ call[d].kind = "receive" =>
               \E v \in Nat : onExecutor[i + 1].answers = {Await!Answer("ok", v)}
          /\ \A j \in 1..Len(onExecutor) : d = onExecutor[j].of => i + 1 = j
          /\ \A j \in 1..Len(channel.senders) : channel.senders[j] # d
          /\ \A j \in 1..Len(channel.receivers) : channel.receivers[j] # d
      BY <2>1 DEF AwaitInv, Queued
    <2>3. \A j \in 1..Len(onExecutor') : d = onExecutor'[j].of => i + 1 = j + 1
      BY <2>1, <2>2, <1>4
    <2>4. \A j \in 1..Len(onExecutor') : i + 1 = j + 1 => i = j
      <3>1. Len(onExecutor') \in Nat
        BY <1>3
      <3>2. i \in Nat /\ \A j \in 1..Len(onExecutor') : j \in Nat
        BY <3>1
      <3>3. \A x, y \in Nat : x + 1 = y + 1 => x = y
        OBVIOUS
      <3> QED
        BY <3>2, <3>3
    <2>5. call'[d] = call[d] /\ onExecutor'[i] = onExecutor[i + 1]
      BY <2>1, <1>4, <1>10
    <2>6. \A j \in 1..Len(onExecutor') : onExecutor'[i].of = onExecutor'[j].of => i = j
      BY <2>1, <2>3, <2>4
    <2>7. Waits(onExecutor[i].of, {"post", "close", "send", "receive"})'
      BY <2>1, <2>2, <2>5 DEF Waits
    <2>8. call'[onExecutor'[i].of].kind = "receive" =>
            \E v \in Nat : onExecutor'[i].answers = {Await!Answer("ok", v)}
      BY <2>1, <2>2, <2>5
    <2>9. /\ \A j \in 1..Len(channel.senders) : channel.senders[j] # onExecutor'[i].of
          /\ \A j \in 1..Len(channel.receivers) : channel.receivers[j] # onExecutor'[i].of
      BY <2>1, <2>2
    <2> QED
      BY <2>6, <2>7, <2>8, <2>9, Zenon
  <1>14. Sending' /\ Receiving'
    <2>1. Sending'
      BY <1>1, <1>2, <1>7, <1>10 DEF AwaitInv, Sending, Waits
    <2>2. Receiving'
      BY <1>1, <1>2, <1>7, <1>10 DEF AwaitInv, Receiving, Waits
    <2> QED
      BY <2>1, <2>2
  <1>15. InOrder' /\ OnceEach' /\ Room'
    <2>1. InOrder'
      BY <1>1, <1>2, <1>7, <1>10 DEF AwaitInv, InOrder
    <2>2. OnceEach'
      BY <1>1, <1>9, <1>10 DEF AwaitInv, OnceEach
    <2>3. Room'
      BY <1>1 DEF AwaitInv, Room
    <2> QED
      BY <2>1, <2>2, <2>3
  <1>16. Received'
    <2>1. \A v \in Nat : WentOut(v) => WentOut(v)'
      BY <1>1 DEF WentOut
    <2>2. ASSUME NEW d \in IoCallers, NEW v \in Nat, Holds(d, v)' PROVE Holds(d, v)
      <3>1. CASE d = c
        <4>1. call[c].kind = "receive" /\ a.value = v
          BY <2>2, <3>1, <1>8, <1>9, <1>10 DEF Holds
        <4>2. PICK w \in Nat : onExecutor[1].answers = {Await!Answer("ok", w)}
          BY <4>1, <1>7
        <4>3. w = v
          BY <4>1, <4>2, <1>6 DEF Await!Answer
        <4> QED
          BY <4>1, <4>2, <4>3, <1>5, <3>1 DEF Holds
      <3>2. CASE d # c
        BY <2>2, <3>2, <1>4, <1>10 DEF Holds
      <3> QED
        BY <3>1, <3>2
    <2> QED
      BY <2>1, <2>2, NobodyHasMore DEF AwaitInv
  <1> QED
    BY <1>10, <1>11, <1>12, <1>13, <1>14, <1>15, <1>16 DEF AwaitInv

(* The attempt of c to send or to receive ends: it has its result or waits. *)
LEMMA TryEnds ==
  ASSUME AwaitInv, NEW c \in IoCallers, call[c].at = "try", NEW r \in IoCall,
         r.kind = call[c].kind, r.number = call[c].number, r.at \in {"returned", "waiting"},
         r.at = "waiting" => r.stored,
         call' = [call EXCEPT ![c] = r], UNCHANGED <<kinds, begun, service>>
  PROVE  /\ call' \in [IoCallers -> IoCall] /\ call'[c] = r
         /\ \A d \in IoCallers : d # c => call'[d] = call[d]
         /\ \A d \in IoCallers : call'[d].at = "try" => d # c /\ call[d].at = "try"
         /\ call[c].number \in 1..begun /\ begun \in Nat
         /\ CallsFit' /\ NumbersDiffer' /\ AskedAsio'
         /\ \A i \in 1..Len(onExecutor) :
              onExecutor[i].of # c /\ call'[onExecutor[i].of] = call[onExecutor[i].of]
         /\ \A i \in 1..Len(channel.senders) :
              channel.senders[i] # c /\ call'[channel.senders[i]] = call[channel.senders[i]]
         /\ \A i \in 1..Len(channel.receivers) :
              channel.receivers[i] # c /\ call'[channel.receivers[i]] = call[channel.receivers[i]]
  <1>1. Fits(call[c], begun) /\ begun \in Nat /\ call[c] \in IoCall
    BY DEF AwaitInv, AwaitTypeOK, CallsFit
  <1>2. call[c].kind \in {"send", "receive"} /\ call[c].number \in 1..begun
    BY <1>1 DEF Fits
  <1>3. Fits(r, begun)
    <2>1. Await!OwnAnswer(r)
      BY <1>2 DEF Await!OwnAnswer
    <2> QED
      BY <1>2, <2>1 DEF Fits, Called
  <1>4. /\ call' \in [IoCallers -> IoCall] /\ call'[c] = r
        /\ \A d \in IoCallers : d # c => call'[d] = call[d]
        /\ CallsFit' /\ NumbersDiffer'
    BY <1>3, CallGoes
  <1>5. /\ \A i \in 1..Len(onExecutor) : onExecutor[i].of \in IoCallers
        /\ service \subseteq IoCallers
        /\ \A i \in 1..Len(channel.senders) : channel.senders[i] \in IoCallers
        /\ \A i \in 1..Len(channel.receivers) : channel.receivers[i] \in IoCallers
    BY Lists DEF AwaitInv
  <1>6. /\ c \notin service
        /\ \A i \in 1..Len(onExecutor) : onExecutor[i].of # c
        /\ \A i \in 1..Len(channel.senders) : channel.senders[i] # c
        /\ \A i \in 1..Len(channel.receivers) : channel.receivers[i] # c
    BY DEF AwaitInv, AskedAsio, Queued, Sending, Receiving, Waits
  <1>7. AskedAsio'
    BY <1>4, <1>5, <1>6 DEF AwaitInv, AskedAsio, Waits
  <1>8. \A d \in IoCallers : call'[d].at = "try" => d # c /\ call[d].at = "try"
    BY <1>4
  <1> QED
    BY <1>1, <1>2, <1>4, <1>5, <1>6, <1>7, <1>8

(* A sequence with one element more. *)
LEMMA OneMore ==
  ASSUME NEW S, NEW q \in Seq(S), NEW v \in S
  PROVE  /\ Append(q, v) \in Seq(S) /\ Len(Append(q, v)) = Len(q) + 1 /\ Len(q) \in Nat
         /\ \A i \in 1..Len(q) : Append(q, v)[i] = q[i]
         /\ Append(q, v)[Len(q) + 1] = v
         /\ \A i \in 1..(Len(q) + 1) : i \in 1..Len(q) \/ i = Len(q) + 1
  BY AppendProperties

(* A value that has not come in yet comes in, and is last. *)
LEMMA ComesIn ==
  ASSUME AwaitInv, NEW c \in IoCallers, call[c].at = "try", call[c].kind = "send",
         channel'.in = Append(channel.in, call[c].number), begun' = begun,
         \A d \in IoCallers : call'[d].at = "try" =>
           d # c /\ call[d].at = "try" /\ call'[d] = call[d]
  PROVE  OnceEach'
  <1>1. PICK v \in Nat : v = call[c].number /\ v <= begun
    <2>1. begun \in Nat /\ Fits(call[c], begun)
      BY DEF AwaitInv, AwaitTypeOK, CallsFit
    <2>2. call[c].number \in 1..begun
      BY <2>1 DEF Fits
    <2> QED
      BY <2>1, <2>2
  <1>2. channel.in \in Seq(Nat)
    BY Lists DEF AwaitInv
  <1>3. PICK n \in Nat : n = Len(channel.in)
    BY <1>2
  <1>4. /\ Len(channel'.in) = n + 1 /\ channel'.in[n + 1] = v
        /\ \A i \in 1..n : channel'.in[i] = channel.in[i]
        /\ \A i \in 1..(n + 1) : i \in 1..n \/ i = n + 1
    BY <1>1, <1>2, <1>3, OneMore
  <1>5. /\ \A i, j \in 1..n : channel.in[i] = channel.in[j] => i = j
        /\ \A i \in 1..n : channel.in[i] <= begun
        /\ \A i \in 1..n : channel.in[i] # v
        /\ \A d \in IoCallers : call[d].at = "try" /\ call[d].kind = "send" =>
             \A i \in 1..n : channel.in[i] # call[d].number
    BY <1>1, <1>3 DEF AwaitInv, OnceEach
  <1>6. \A d \in IoCallers : d # c /\ call[d].at = "try" => call[d].number # v
    BY <1>1 DEF AwaitInv, NumbersDiffer
  <1>7. \A i, j \in 1..(n + 1) : channel'.in[i] = channel'.in[j] => i = j
    BY <1>4, <1>5
  <1>8. \A i \in 1..(n + 1) : channel'.in[i] <= begun
    BY <1>1, <1>4, <1>5
  <1>9. \A d \in IoCallers : call'[d].at = "try" /\ call'[d].kind = "send" =>
          \A i \in 1..(n + 1) : channel'.in[i] # call'[d].number
    BY <1>4, <1>5, <1>6
  <1> QED
    BY <1>4, <1>7, <1>8, <1>9 DEF OnceEach

(* The value waits in the buffer. *)
LEMMA SendToBufferKeeps ==
  ASSUME AwaitInv, NEW c \in IoCallers, Await!AsyncSend(c),
         channel.receivers = <<>>, Len(channel.buffer) < Capacity
  PROVE  AwaitInv'
  <1>1. /\ call[c].at = "try" /\ call[c].kind = "send" /\ AwaitTypeOK /\ call[c] \in IoCall
        /\ channel \in Channel /\ UNCHANGED <<kinds, begun, service>>
    BY DEF AwaitInv, AwaitTypeOK, Await!AsyncSend
  <1>2. PICK v \in Nat : v = call[c].number
    BY <1>1 DEF IoCall
  <1>3. /\ channel' = [[channel EXCEPT !.in = Append(@, v)] EXCEPT !.buffer = Append(@, v)]
        /\ call' = [call EXCEPT ![c] = Await!Returned(@, Await!Fine)]
        /\ onExecutor' = onExecutor
    <2>1. Len(channel.buffer) # Capacity
      BY Lists DEF AwaitInv, Room
    <2> QED
      BY <1>2, <2>1 DEF Await!AsyncSend
  <1>4. /\ channel'.in = Append(channel.in, v) /\ channel'.buffer = Append(channel.buffer, v)
        /\ channel'.senders = channel.senders /\ channel'.receivers = channel.receivers
        /\ channel'.out = channel.out
    BY <1>1, <1>3 DEF Channel
  <1>5. PICK r \in IoCall : /\ call' = [call EXCEPT ![c] = r] /\ r.kind = "send"
                            /\ r.number = call[c].number /\ r.at = "returned"
    <2>1. Await!Fine \in Answers
      BY DEF Await!Fine, Await!Answer, Answers
    <2>2. PICK r : r = [call[c] EXCEPT !.at = "returned", !.result = Await!Fine]
      OBVIOUS
    <2>3. call' = [call EXCEPT ![c] = r]
      BY <1>1, <1>3, <2>2 DEF Await!Returned, AwaitTypeOK
    <2>4. r \in IoCall /\ r.kind = "send" /\ r.number = call[c].number /\ r.at = "returned"
      BY <1>1, <2>1, <2>2 DEF IoCall
    <2> QED
      BY <2>3, <2>4
  <1>6. /\ call' \in [IoCallers -> IoCall] /\ call'[c] = r
        /\ \A d \in IoCallers : d # c => call'[d] = call[d]
        /\ \A d \in IoCallers : call'[d].at = "try" => d # c /\ call[d].at = "try"
        /\ CallsFit' /\ NumbersDiffer' /\ AskedAsio'
        /\ \A i \in 1..Len(onExecutor) :
             onExecutor[i].of # c /\ call'[onExecutor[i].of] = call[onExecutor[i].of]
        /\ \A i \in 1..Len(channel.senders) :
             channel.senders[i] # c /\ call'[channel.senders[i]] = call[channel.senders[i]]
        /\ \A i \in 1..Len(channel.receivers) :
             channel.receivers[i] # c /\ call'[channel.receivers[i]] = call[channel.receivers[i]]
    BY <1>1, <1>5, TryEnds
  <1>7. /\ channel.in \in Seq(Nat) /\ channel.out \in Seq(Nat) /\ channel.buffer \in Seq(Nat)
        /\ channel.senders \in Seq(IoCallers) /\ channel.receivers \in Seq(IoCallers)
    BY <1>1, Lists
  <1>8. PICK ni \in Nat, no \in Nat, nb \in Nat :
          ni = Len(channel.in) /\ no = Len(channel.out) /\ nb = Len(channel.buffer)
    BY <1>7
  <1>9. channel.senders = <<>> /\ Len(channel.senders) = 0
    BY <1>1, Lists DEF AwaitInv, Room
  <1>10. /\ channel'.in \in Seq(Nat) /\ Len(channel'.in) = ni + 1 /\ channel'.in[ni + 1] = v
         /\ \A i \in 1..ni : channel'.in[i] = channel.in[i]
         /\ channel'.buffer \in Seq(Nat) /\ Len(channel'.buffer) = nb + 1
         /\ channel'.buffer[nb + 1] = v
         /\ \A i \in 1..nb : channel'.buffer[i] = channel.buffer[i]
         /\ \A i \in 1..(nb + 1) : i \in 1..nb \/ i = nb + 1
    <2>1. /\ Append(channel.in, v) \in Seq(Nat) /\ Len(Append(channel.in, v)) = ni + 1
          /\ Append(channel.in, v)[ni + 1] = v
          /\ \A i \in 1..ni : Append(channel.in, v)[i] = channel.in[i]
      BY <1>7, <1>8, OneMore
    <2>2. /\ Append(channel.buffer, v) \in Seq(Nat) /\ Len(Append(channel.buffer, v)) = nb + 1
          /\ Append(channel.buffer, v)[nb + 1] = v
          /\ \A i \in 1..nb : Append(channel.buffer, v)[i] = channel.buffer[i]
          /\ \A i \in 1..(nb + 1) : i \in 1..nb \/ i = nb + 1
      BY <1>7, <1>8, OneMore
    <2> QED
      BY <1>4, <2>1, <2>2
  <1>11. AwaitTypeOK'
    <2>1. channel' \in Channel
      BY <1>1, <1>3, <1>10, <1>4 DEF Channel
    <2> QED
      BY <1>1, <1>3, <1>6, <2>1 DEF AwaitTypeOK
  <1>12. Queued'
    <2>1. \A i \in 1..Len(onExecutor) :
            /\ \A j \in 1..Len(channel.senders) : channel.senders[j] # onExecutor[i].of
            /\ \A j \in 1..Len(channel.receivers) : channel.receivers[j] # onExecutor[i].of
      BY DEF AwaitInv, Queued
    <2> QED
      BY <2>1, <1>3, <1>4, <1>6, QueuedStays
  <1>13. Sending' /\ Receiving'
    BY <1>4, <1>6 DEF AwaitInv, Sending, Receiving, Waits
  <1>14. InOrder'
    <2>1. /\ ni = no + nb
          /\ \A i \in 1..no : channel.in[i] = channel.out[i]
          /\ \A i \in 1..nb : channel.in[no + i] = channel.buffer[i]
      BY <1>8, <1>9 DEF AwaitInv, InOrder
    <2>2. \A i \in 1..no : i \in 1..ni
      BY <2>1
    <2>3. \A i \in 1..nb : no + i \in 1..ni
      BY <2>1
    <2>4. ni + 1 = no + (nb + 1) /\ (no + (nb + 1)) + 0 = ni + 1
      BY <2>1
    <2>5. \A i \in 1..no : channel'.in[i] = channel.out[i]
      BY <1>10, <2>1, <2>2
    <2>6. \A i \in 1..(nb + 1) : channel'.in[no + i] = channel'.buffer[i]
      BY <1>10, <2>1, <2>3, <2>4
    <2>7. Len(channel'.in) = Len(channel'.out) + Len(channel'.buffer) + Len(channel'.senders)
      BY <1>4, <1>8, <1>9, <1>10, <2>4
    <2>8. \A i \in 1..Len(channel'.senders) : FALSE
      BY <1>4, <1>9
    <2> QED
      BY <1>4, <1>8, <1>10, <2>5, <2>6, <2>7, <2>8 DEF InOrder
  <1>15. OnceEach'
    BY <1>1, <1>2, <1>4, <1>6, ComesIn
  <1>16. Room'
    <2>1. Capacity \in Nat
      BY InstanceAssumption DEF Await!CoroIoAssumption
    <2> QED
      BY <1>4, <1>8, <1>9, <1>10, <2>1 DEF Room
  <1>17. Received'
    <2>1. \A w \in Nat : WentOut(w) => WentOut(w)'
      BY <1>4 DEF WentOut
    <2>2. ASSUME NEW d \in IoCallers, NEW w \in Nat, Holds(d, w)' PROVE Holds(d, w)
      BY <2>2, <1>3, <1>5, <1>6 DEF Holds
    <2> QED
      BY <2>1, <2>2, NobodyHasMore DEF AwaitInv
  <1> QED
    BY <1>6, <1>11, <1>12, <1>13, <1>14, <1>15, <1>16, <1>17 DEF AwaitInv

(* The sender waits for room. *)
LEMMA SendWaitsKeeps ==
  ASSUME AwaitInv, NEW c \in IoCallers, Await!AsyncSend(c),
         channel.receivers = <<>>, Len(channel.buffer) = Capacity
  PROVE  AwaitInv'
  <1>1. /\ call[c].at = "try" /\ call[c].kind = "send" /\ AwaitTypeOK /\ call[c] \in IoCall
        /\ channel \in Channel /\ UNCHANGED <<kinds, begun, service>>
    BY DEF AwaitInv, AwaitTypeOK, Await!AsyncSend
  <1>2. PICK v \in Nat : v = call[c].number
    BY <1>1 DEF IoCall
  <1>3. /\ channel' = [[channel EXCEPT !.in = Append(@, v)] EXCEPT !.senders = Append(@, c)]
        /\ call' = [call EXCEPT ![c].stored = TRUE, ![c].at = "waiting"]
        /\ onExecutor' = onExecutor
    <2>1. ~(Len(channel.buffer) < Capacity)
      BY Lists DEF AwaitInv, Room
    <2> QED
      BY <1>2, <2>1 DEF Await!AsyncSend
  <1>4. /\ channel'.in = Append(channel.in, v) /\ channel'.senders = Append(channel.senders, c)
        /\ channel'.buffer = channel.buffer /\ channel'.receivers = channel.receivers
        /\ channel'.out = channel.out
    BY <1>1, <1>3 DEF Channel
  <1>5. PICK r \in IoCall : /\ call' = [call EXCEPT ![c] = r] /\ r.kind = "send" /\ r.stored
                            /\ r.number = call[c].number /\ r.at = "waiting"
    <2>1. PICK r : r = [call[c] EXCEPT !.stored = TRUE, !.at = "waiting"]
      OBVIOUS
    <2>2. call' = [call EXCEPT ![c] = r]
      BY <1>1, <1>3, <2>1, PlaceWritten DEF Called
    <2>3. /\ r \in IoCall /\ r.kind = "send" /\ r.number = call[c].number /\ r.at = "waiting"
          /\ r.stored
      BY <1>1, <2>1 DEF IoCall, Called
    <2> QED
      BY <2>2, <2>3
  <1>6. /\ call' \in [IoCallers -> IoCall] /\ call'[c] = r
        /\ \A d \in IoCallers : d # c => call'[d] = call[d]
        /\ \A d \in IoCallers : call'[d].at = "try" => d # c /\ call[d].at = "try"
        /\ CallsFit' /\ NumbersDiffer' /\ AskedAsio'
        /\ \A i \in 1..Len(onExecutor) :
             onExecutor[i].of # c /\ call'[onExecutor[i].of] = call[onExecutor[i].of]
        /\ \A i \in 1..Len(channel.senders) :
             channel.senders[i] # c /\ call'[channel.senders[i]] = call[channel.senders[i]]
        /\ \A i \in 1..Len(channel.receivers) :
             channel.receivers[i] # c /\ call'[channel.receivers[i]] = call[channel.receivers[i]]
    BY <1>1, <1>5, TryEnds
  <1>7. /\ channel.in \in Seq(Nat) /\ channel.out \in Seq(Nat) /\ channel.buffer \in Seq(Nat)
        /\ channel.senders \in Seq(IoCallers) /\ channel.receivers \in Seq(IoCallers)
        /\ Len(channel.in) \in Nat /\ Len(channel.out) \in Nat /\ Len(channel.buffer) \in Nat
        /\ Len(channel.senders) \in Nat
    BY <1>1, Lists
  <1>8. PICK ni \in Nat, no \in Nat, nb \in Nat, ns \in Nat :
          /\ ni = Len(channel.in) /\ no = Len(channel.out) /\ nb = Len(channel.buffer)
          /\ ns = Len(channel.senders)
    BY <1>7
  <1>10. /\ channel'.in \in Seq(Nat) /\ Len(channel'.in) = ni + 1 /\ channel'.in[ni + 1] = v
         /\ \A i \in 1..ni : channel'.in[i] = channel.in[i]
         /\ channel'.senders \in Seq(IoCallers) /\ Len(channel'.senders) = ns + 1
         /\ channel'.senders[ns + 1] = c
         /\ \A i \in 1..ns : channel'.senders[i] = channel.senders[i]
         /\ \A i \in 1..(ns + 1) : i \in 1..ns \/ i = ns + 1
    <2>1. /\ Append(channel.in, v) \in Seq(Nat) /\ Len(Append(channel.in, v)) = ni + 1
          /\ Append(channel.in, v)[ni + 1] = v
          /\ \A i \in 1..ni : Append(channel.in, v)[i] = channel.in[i]
      BY <1>7, <1>8, OneMore
    <2>2. /\ Append(channel.senders, c) \in Seq(IoCallers)
          /\ Len(Append(channel.senders, c)) = ns + 1 /\ Append(channel.senders, c)[ns + 1] = c
          /\ \A i \in 1..ns : Append(channel.senders, c)[i] = channel.senders[i]
          /\ \A i \in 1..(ns + 1) : i \in 1..ns \/ i = ns + 1
      BY <1>7, <1>8, OneMore
    <2> QED
      BY <1>4, <2>1, <2>2
  <1>11. AwaitTypeOK'
    <2>1. channel' \in Channel
      BY <1>1, <1>3, <1>10, <1>4 DEF Channel
    <2> QED
      BY <1>1, <1>3, <1>6, <2>1 DEF AwaitTypeOK
  <1>12. Queued'
    <2>1. \A i \in 1..Len(onExecutor), j \in 1..(ns + 1) : channel'.senders[j] # onExecutor[i].of
      <3>1. \A i \in 1..Len(onExecutor), j \in 1..ns : channel.senders[j] # onExecutor[i].of
        BY <1>8 DEF AwaitInv, Queued
      <3> QED
        BY <3>1, <1>6, <1>10
    <2>2. \A i \in 1..Len(onExecutor), j \in 1..Len(channel.receivers) :
            channel.receivers[j] # onExecutor[i].of
      BY DEF AwaitInv, Queued
    <2>3. \A i \in 1..Len(onExecutor), j \in 1..Len(channel'.senders) :
            channel'.senders[j] # onExecutor[i].of
      BY <2>1, <1>10
    <2>4. \A i \in 1..Len(onExecutor), j \in 1..Len(channel'.receivers) :
            channel'.receivers[j] # onExecutor[i].of
      BY <2>2, <1>4
    <2>5. \A i \in 1..Len(onExecutor) : call'[onExecutor[i].of] = call[onExecutor[i].of]
      BY <1>6
    <2> QED
      BY <2>3, <2>4, <2>5, <1>3, QueuedStays
  <1>13. Sending' /\ Receiving'
    <2>1. \A i \in 1..ns : channel.senders[i] # c
      BY <1>6, <1>8
    <2>2. \A i \in 1..ns : /\ Waits(channel.senders[i], {"send"})
                          /\ call'[channel.senders[i]] = call[channel.senders[i]]
                          /\ \A j \in 1..ns : channel.senders[i] = channel.senders[j] => i = j
      BY <1>6, <1>8 DEF AwaitInv, Sending
    <2>3. \A i, j \in 1..(ns + 1) : channel'.senders[i] = channel'.senders[j] => i = j
      BY <1>10, <2>1, <2>2
    <2>4. \A i \in 1..(ns + 1) : /\ call'[channel'.senders[i]].at = "waiting"
                                /\ call'[channel'.senders[i]].kind = "send"
      <3>1. \A i \in 1..ns : /\ call'[channel.senders[i]].at = "waiting"
                            /\ call'[channel.senders[i]].kind = "send"
        BY <2>2 DEF Waits
      <3>2. call'[c].at = "waiting" /\ call'[c].kind = "send"
        BY <1>5, <1>6
      <3> QED
        BY <3>1, <3>2, <1>10
    <2>5. Sending'
      BY <1>10, <2>3, <2>4 DEF Sending, Waits
    <2>6. Receiving'
      BY <1>4, <1>6 DEF AwaitInv, Receiving, Waits
    <2> QED
      BY <2>5, <2>6
  <1>14. InOrder'
    <2>1. /\ ni = no + nb + ns
          /\ \A i \in 1..no : channel.in[i] = channel.out[i]
          /\ \A i \in 1..nb : channel.in[no + i] = channel.buffer[i]
          /\ \A i \in 1..ns : channel.in[no + nb + i] = call[channel.senders[i]].number
      BY <1>8 DEF AwaitInv, InOrder
    <2>2. \A i \in 1..no : i \in 1..ni
      BY <2>1
    <2>3. \A i \in 1..nb : no + i \in 1..ni
      BY <2>1
    <2>4. \A i \in 1..ns : no + nb + i \in 1..ni
      BY <2>1
    <2>5. no + nb + (ns + 1) = ni + 1
      BY <2>1
    <2>6. \A i \in 1..no : channel'.in[i] = channel.out[i]
      BY <1>10, <2>1, <2>2
    <2>7. \A i \in 1..nb : channel'.in[no + i] = channel.buffer[i]
      BY <1>10, <2>1, <2>3
    <2>8. \A i \in 1..(ns + 1) : channel'.in[no + nb + i] = call'[channel'.senders[i]].number
      <3> TAKE i \in 1..(ns + 1)
      <3>1. CASE i \in 1..ns
        <4>1. channel'.senders[i] = channel.senders[i] /\ channel'.in[no + nb + i] = channel.in[no + nb + i]
          BY <3>1, <1>10, <2>4
        <4>2. call'[channel.senders[i]] = call[channel.senders[i]]
          BY <3>1, <1>6, <1>8
        <4> QED
          BY <3>1, <4>1, <4>2, <2>1
      <3>2. CASE i = ns + 1
        BY <3>2, <1>2, <1>5, <1>6, <1>10, <2>5
      <3> QED
        BY <3>1, <3>2, <1>10
    <2>9. Len(channel'.in) = Len(channel'.out) + Len(channel'.buffer) + Len(channel'.senders)
      BY <1>4, <1>8, <1>10, <2>5
    <2> QED
      BY <1>4, <1>8, <1>10, <2>6, <2>7, <2>8, <2>9 DEF InOrder
  <1>15. OnceEach'
    BY <1>1, <1>2, <1>4, <1>6, ComesIn
  <1>16. Room'
    BY <1>4 DEF AwaitInv, Room
  <1>17. Received'
    <2>1. \A w \in Nat : WentOut(w) => WentOut(w)'
      BY <1>4 DEF WentOut
    <2>2. ASSUME NEW d \in IoCallers, NEW w \in Nat, Holds(d, w)' PROVE Holds(d, w)
      BY <2>2, <1>3, <1>5, <1>6 DEF Holds
    <2> QED
      BY <2>1, <2>2, NobodyHasMore DEF AwaitInv
  <1> QED
    BY <1>6, <1>11, <1>12, <1>13, <1>14, <1>15, <1>16, <1>17 DEF AwaitInv

(* The first of those who wait goes. *)
LEMMA FirstGoes ==
  ASSUME NEW q \in Seq(IoCallers), q # <<>>,
         \A i, j \in 1..Len(q) : q[i] = q[j] => i = j
  PROVE  /\ Head(q) = q[1] /\ Len(q) >= 1 /\ 1 \in 1..Len(q) /\ q[1] \in IoCallers
         /\ Tail(q) \in Seq(IoCallers) /\ Len(Tail(q)) + 1 = Len(q)
         /\ \A i \in 1..Len(Tail(q)) : /\ i + 1 \in 1..Len(q) /\ Tail(q)[i] = q[i + 1]
                                      /\ Tail(q)[i] # q[1]
         /\ \A i, j \in 1..Len(Tail(q)) : Tail(q)[i] = Tail(q)[j] => i = j
  <1>1. PICK n \in Nat : n = Len(q)
    OBVIOUS
  <1>2. n # 0
    BY <1>1, EmptySeq
  <1>3. /\ Head(q) = q[1] /\ Tail(q) \in Seq(IoCallers) /\ Len(Tail(q)) = n - 1
        /\ \A i \in 1..Len(Tail(q)) : Tail(q)[i] = q[i + 1]
    BY <1>1, HeadTailProperties
  <1>4. /\ 1 \in 1..n /\ (n - 1) + 1 = n
        /\ \A i \in 1..(n - 1) : i + 1 \in 1..n /\ i + 1 # 1
        /\ \A i, j \in 1..(n - 1) : i + 1 = j + 1 => i = j
    BY <1>2
  <1>5. q[1] \in IoCallers
    BY <1>1, <1>4
  <1>6. \A i \in 1..Len(Tail(q)) : i + 1 \in 1..n /\ Tail(q)[i] = q[i + 1] /\ Tail(q)[i] # q[1]
    BY <1>1, <1>3, <1>4
  <1>7. \A i, j \in 1..Len(Tail(q)) : Tail(q)[i] = Tail(q)[j] => i = j
    BY <1>1, <1>3, <1>4
  <1> QED
    BY <1>1, <1>2, <1>3, <1>4, <1>5, <1>6, <1>7

(* A receiver waits: it is handed the value. *)
LEMMA SendHandsOverKeeps ==
  ASSUME AwaitInv, NEW c \in IoCallers, Await!AsyncSend(c), channel.receivers # <<>>
  PROVE  AwaitInv'
  <1>1. /\ call[c].at = "try" /\ call[c].kind = "send" /\ AwaitTypeOK /\ call[c] \in IoCall
        /\ channel \in Channel /\ UNCHANGED <<kinds, begun, service>>
    BY DEF AwaitInv, AwaitTypeOK, Await!AsyncSend
  <1>2. PICK v \in Nat : v = call[c].number
    BY <1>1 DEF IoCall
  <1>3. /\ channel' = [[channel EXCEPT !.in = Append(@, v)]
                         EXCEPT !.receivers = Tail(@), !.out = Append(@, v)]
        /\ call' = [call EXCEPT ![c] = Await!Returned(@, Await!Fine)]
        /\ onExecutor' = Append(onExecutor, Await!Hand(Head(channel.receivers), Await!Answer("ok", v)))
    BY <1>2 DEF Await!AsyncSend
  <1>4. /\ channel'.in = Append(channel.in, v) /\ channel'.out = Append(channel.out, v)
        /\ channel'.senders = channel.senders /\ channel'.buffer = channel.buffer
        /\ channel'.receivers = Tail(channel.receivers)
    BY <1>1, <1>3 DEF Channel
  <1>5. PICK r \in IoCall : /\ call' = [call EXCEPT ![c] = r] /\ r.kind = "send"
                            /\ r.number = call[c].number /\ r.at = "returned"
    <2>1. Await!Fine \in Answers
      BY DEF Await!Fine, Await!Answer, Answers
    <2>2. PICK r : r = [call[c] EXCEPT !.at = "returned", !.result = Await!Fine]
      OBVIOUS
    <2>3. call' = [call EXCEPT ![c] = r]
      BY <1>1, <1>3, <2>2 DEF Await!Returned, AwaitTypeOK
    <2>4. r \in IoCall /\ r.kind = "send" /\ r.number = call[c].number /\ r.at = "returned"
      BY <1>1, <2>1, <2>2 DEF IoCall
    <2> QED
      BY <2>3, <2>4
  <1>6. /\ call' \in [IoCallers -> IoCall] /\ call'[c] = r
        /\ \A d \in IoCallers : d # c => call'[d] = call[d]
        /\ \A d \in IoCallers : call'[d].at = "try" => d # c /\ call[d].at = "try"
        /\ CallsFit' /\ NumbersDiffer' /\ AskedAsio'
        /\ \A i \in 1..Len(onExecutor) :
             onExecutor[i].of # c /\ call'[onExecutor[i].of] = call[onExecutor[i].of]
        /\ \A i \in 1..Len(channel.senders) :
             channel.senders[i] # c /\ call'[channel.senders[i]] = call[channel.senders[i]]
        /\ \A i \in 1..Len(channel.receivers) :
             channel.receivers[i] # c /\ call'[channel.receivers[i]] = call[channel.receivers[i]]
    BY <1>1, <1>5, TryEnds
  <1>7. /\ channel.in \in Seq(Nat) /\ channel.out \in Seq(Nat)
        /\ channel.senders \in Seq(IoCallers) /\ channel.receivers \in Seq(IoCallers)
        /\ Len(channel.in) \in Nat /\ Len(channel.out) \in Nat
    BY <1>1, Lists
  <1>8. PICK ni \in Nat, no \in Nat : ni = Len(channel.in) /\ no = Len(channel.out)
    BY <1>7
  <1>9. channel.senders = <<>> /\ channel.buffer = <<>>
    BY DEF AwaitInv, Room
  <1>a. ni = no /\ \A i \in 1..no : channel.in[i] = channel.out[i]
    <2>1. Len(channel.senders) = 0 /\ Len(channel.buffer) = 0
      BY <1>9
    <2>2. /\ ni = no + Len(channel.buffer) + Len(channel.senders)
          /\ \A i \in 1..no : channel.in[i] = channel.out[i]
      BY <1>8 DEF AwaitInv, InOrder
    <2> QED
      BY <2>1, <2>2
  <1>b. PICK waiting : waiting = channel.receivers
    OBVIOUS
  <1>c. /\ Head(waiting) = waiting[1] /\ 1 \in 1..Len(waiting) /\ waiting[1] \in IoCallers
        /\ Tail(waiting) \in Seq(IoCallers)
        /\ \A i \in 1..Len(Tail(waiting)) : /\ i + 1 \in 1..Len(waiting)
                                           /\ Tail(waiting)[i] = waiting[i + 1]
                                           /\ Tail(waiting)[i] # waiting[1]
        /\ \A i, j \in 1..Len(Tail(waiting)) : Tail(waiting)[i] = Tail(waiting)[j] => i = j
    <2>1. \A i, j \in 1..Len(waiting) : waiting[i] = waiting[j] => i = j
      BY <1>b DEF AwaitInv, Receiving
    <2> QED
      BY <2>1, <1>7, <1>b, FirstGoes
  <1>d. PICK b \in IoCallers : b = waiting[1] /\ Waits(b, {"receive"}) /\ b # c /\ call'[b] = call[b]
    BY <1>6, <1>b, <1>c DEF AwaitInv, Receiving
  <1>e. PICK e \in Entry : /\ onExecutor' = Append(onExecutor, e) /\ e.of = b
                           /\ e.answers = {Await!Answer("ok", v)}
    <2>1. onExecutor' = Append(onExecutor, [of |-> b, answers |-> {Await!Answer("ok", v)}])
      BY <1>3, <1>b, <1>c, <1>d DEF Await!Hand
    <2>2. Await!Answer("ok", v) \in Answers
      BY DEF Await!Answer, Answers
    <2> QED
      BY <2>1, <2>2 DEF Entry
  <1>10. /\ channel'.in \in Seq(Nat) /\ Len(channel'.in) = ni + 1 /\ channel'.in[ni + 1] = v
         /\ \A i \in 1..ni : channel'.in[i] = channel.in[i]
         /\ channel'.out \in Seq(Nat) /\ Len(channel'.out) = no + 1 /\ channel'.out[no + 1] = v
         /\ \A i \in 1..no : channel'.out[i] = channel.out[i]
         /\ \A i \in 1..(no + 1) : i \in 1..no \/ i = no + 1
    <2>1. /\ Append(channel.in, v) \in Seq(Nat) /\ Len(Append(channel.in, v)) = ni + 1
          /\ Append(channel.in, v)[ni + 1] = v
          /\ \A i \in 1..ni : Append(channel.in, v)[i] = channel.in[i]
      BY <1>7, <1>8, OneMore
    <2>2. /\ Append(channel.out, v) \in Seq(Nat) /\ Len(Append(channel.out, v)) = no + 1
          /\ Append(channel.out, v)[no + 1] = v
          /\ \A i \in 1..no : Append(channel.out, v)[i] = channel.out[i]
          /\ \A i \in 1..(no + 1) : i \in 1..no \/ i = no + 1
      BY <1>7, <1>8, OneMore
    <2> QED
      BY <1>4, <2>1, <2>2
  <1>11. AwaitTypeOK'
    <2>1. channel' \in Channel
      <3>1. channel'.receivers \in Seq(IoCallers)
        BY <1>4, <1>b, <1>c
      <3> QED
        BY <1>1, <1>3, <1>4, <1>10, <3>1 DEF Channel
    <2>2. onExecutor' \in Seq(Entry)
      BY <1>1, <1>e, HandedOver
    <2> QED
      BY <1>1, <1>6, <2>1, <2>2 DEF AwaitTypeOK
  <1>12. Queued'
    <2>1. \A i \in 1..Len(onExecutor) : onExecutor[i].of # b
      BY <1>b, <1>c, <1>d DEF AwaitInv, Queued
    <2>2. /\ Waits(e.of, {"post", "close", "send", "receive"})'
          /\ \E w \in Nat : e.answers = {Await!Answer("ok", w)}
      BY <1>d, <1>e DEF Waits
    <2>3. \A j \in 1..Len(channel'.senders) : FALSE
      BY <1>4, <1>9
    <2>4. \A i \in 1..Len(onExecutor), j \in 1..Len(waiting) : waiting[j] # onExecutor[i].of
      BY <1>b DEF AwaitInv, Queued
    <2>5. \A j \in 1..Len(channel'.receivers) :
            /\ channel'.receivers[j] # e.of
            /\ \A i \in 1..Len(onExecutor) : channel'.receivers[j] # onExecutor[i].of
      BY <2>4, <1>4, <1>b, <1>c, <1>d, <1>e
    <2>6. \A i \in 1..Len(onExecutor) :
            onExecutor[i].of # e.of /\ call'[onExecutor[i].of] = call[onExecutor[i].of]
      BY <2>1, <1>6, <1>e
    <2> QED
      BY <1>e, <2>2, <2>3, <2>5, <2>6, QueuedOnce
  <1>13. Sending' /\ Receiving'
    <2>1. \A j \in 1..Len(channel'.senders) : FALSE
      BY <1>4, <1>9
    <2>2. Sending'
      BY <2>1 DEF Sending
    <2>3. \A j \in 1..Len(waiting) : Waits(waiting[j], {"receive"}) /\ call'[waiting[j]] = call[waiting[j]]
      BY <1>6, <1>b DEF AwaitInv, Receiving
    <2>4. \A j \in 1..Len(channel'.receivers) : /\ call'[channel'.receivers[j]].at = "waiting"
                                               /\ call'[channel'.receivers[j]].kind = "receive"
      BY <2>3, <1>4, <1>b, <1>c DEF Waits
    <2>5. \A i, j \in 1..Len(channel'.receivers) : channel'.receivers[i] = channel'.receivers[j] => i = j
      BY <1>4, <1>b, <1>c
    <2>6. Receiving'
      BY <2>4, <2>5 DEF Receiving, Waits
    <2> QED
      BY <2>2, <2>6
  <1>14. InOrder'
    <2>1. \A i \in 1..(no + 1) : channel'.in[i] = channel'.out[i]
      BY <1>a, <1>10
    <2>2. /\ Len(channel'.senders) = 0 /\ Len(channel'.buffer) = 0
          /\ \A j \in 1..Len(channel'.senders) : FALSE
          /\ \A j \in 1..Len(channel'.buffer) : FALSE
      BY <1>4, <1>9
    <2>3. Len(channel'.in) = Len(channel'.out) + Len(channel'.buffer) + Len(channel'.senders)
      BY <2>2, <1>a, <1>10
    <2> QED
      BY <2>1, <2>2, <2>3, <1>10 DEF InOrder
  <1>15. OnceEach'
    BY <1>1, <1>2, <1>4, <1>6, ComesIn
  <1>16. Room'
    <2>1. Capacity \in Nat /\ Len(channel.buffer) <= Capacity
      BY InstanceAssumption DEF Await!CoroIoAssumption, AwaitInv, Room
    <2> QED
      BY <2>1, <1>4, <1>9 DEF Room
  <1>17. Received'
    <2>1. \A w \in Nat : WentOut(w) => WentOut(w)'
      <3> SUFFICES ASSUME NEW w \in Nat, NEW i \in 1..no, channel.out[i] = w PROVE WentOut(w)'
        BY <1>8 DEF WentOut
      <3>1. i \in 1..(no + 1)
        OBVIOUS
      <3> QED
        BY <3>1, <1>10 DEF WentOut
    <2>2. ~WentOut(v)
      <3>1. \A i \in 1..ni : channel.in[i] # v
        BY <1>1, <1>2, <1>8 DEF AwaitInv, OnceEach
      <3> QED
        BY <3>1, <1>8, <1>a DEF WentOut
    <2>3. WentOut(v)'
      <3>1. no + 1 \in 1..(no + 1)
        OBVIOUS
      <3> QED
        BY <3>1, <1>10 DEF WentOut
    <2>4. ASSUME NEW d \in IoCallers, NEW w \in Nat, Holds(d, w)' PROVE Holds(d, w) \/ (d = b /\ w = v)
      <3>1. d # c
        BY <2>4, <1>5, <1>6 DEF Holds
      <3>2. call'[d] = call[d]
        BY <3>1, <1>6
      <3>3. CASE call'[d].at = "returned" /\ call'[d].result.value = w
        BY <2>4, <3>2, <3>3 DEF Holds
      <3>4. CASE \E i \in 1..Len(onExecutor') :
                   onExecutor'[i].of = d /\ onExecutor'[i].answers = {Await!Answer("ok", w)}
        <4>1. PICK i \in 1..Len(onExecutor') :
                onExecutor'[i].of = d /\ onExecutor'[i].answers = {Await!Answer("ok", w)}
          BY <3>4
        <4>2. \/ i \in 1..Len(onExecutor) /\ onExecutor'[i] = onExecutor[i]
              \/ onExecutor'[i] = e
          BY <1>1, <1>e, HandedOver
        <4>3. CASE i \in 1..Len(onExecutor) /\ onExecutor'[i] = onExecutor[i]
          BY <4>1, <4>3, <2>4, <3>2 DEF Holds
        <4>4. CASE onExecutor'[i] = e
          <5>1. d = b /\ Await!Answer("ok", w) \in {Await!Answer("ok", v)}
            BY <4>1, <4>4, <1>e
          <5> QED
            BY <5>1 DEF Await!Answer
        <4> QED
          BY <4>2, <4>3, <4>4
      <3> QED
        BY <2>4, <3>3, <3>4 DEF Holds
    <2> QED
      BY <2>1, <2>2, <2>3, <2>4, OneHasMore DEF AwaitInv
  <1> QED
    BY <1>6, <1>11, <1>12, <1>13, <1>14, <1>15, <1>16, <1>17 DEF AwaitInv

(* The receiver waits for a value. *)
LEMMA ReceiveWaitsKeeps ==
  ASSUME AwaitInv, NEW c \in IoCallers, Await!AsyncReceive(c),
         channel.buffer = <<>>, channel.senders = <<>>
  PROVE  AwaitInv'
  <1>1. /\ call[c].at = "try" /\ call[c].kind = "receive" /\ AwaitTypeOK /\ call[c] \in IoCall
        /\ channel \in Channel /\ UNCHANGED <<kinds, begun, service>>
    BY DEF AwaitInv, AwaitTypeOK, Await!AsyncReceive
  <1>2. /\ channel' = [channel EXCEPT !.receivers = Append(@, c)]
        /\ call' = [call EXCEPT ![c].stored = TRUE, ![c].at = "waiting"]
        /\ onExecutor' = onExecutor
    <2>1. <<>> \o <<>> = <<>>
      OBVIOUS
    <2> QED
      BY <2>1 DEF Await!AsyncReceive
  <1>3. /\ channel'.in = channel.in /\ channel'.senders = channel.senders
        /\ channel'.buffer = channel.buffer /\ channel'.out = channel.out
        /\ channel'.receivers = Append(channel.receivers, c)
    BY <1>1, <1>2 DEF Channel
  <1>4. PICK r \in IoCall : /\ call' = [call EXCEPT ![c] = r] /\ r.kind = "receive" /\ r.stored
                            /\ r.number = call[c].number /\ r.at = "waiting"
    <2>1. PICK r : r = [call[c] EXCEPT !.stored = TRUE, !.at = "waiting"]
      OBVIOUS
    <2>2. call' = [call EXCEPT ![c] = r]
      BY <1>1, <1>2, <2>1, PlaceWritten DEF Called
    <2>3. /\ r \in IoCall /\ r.kind = "receive" /\ r.number = call[c].number /\ r.at = "waiting"
          /\ r.stored
      BY <1>1, <2>1 DEF IoCall, Called
    <2> QED
      BY <2>2, <2>3
  <1>5. /\ call' \in [IoCallers -> IoCall] /\ call'[c] = r
        /\ \A d \in IoCallers : d # c => call'[d] = call[d]
        /\ \A d \in IoCallers : call'[d].at = "try" => d # c /\ call[d].at = "try"
        /\ CallsFit' /\ NumbersDiffer' /\ AskedAsio'
        /\ \A i \in 1..Len(onExecutor) :
             onExecutor[i].of # c /\ call'[onExecutor[i].of] = call[onExecutor[i].of]
        /\ \A i \in 1..Len(channel.senders) :
             channel.senders[i] # c /\ call'[channel.senders[i]] = call[channel.senders[i]]
        /\ \A i \in 1..Len(channel.receivers) :
             channel.receivers[i] # c /\ call'[channel.receivers[i]] = call[channel.receivers[i]]
    BY <1>1, <1>4, TryEnds
  <1>6. channel.receivers \in Seq(IoCallers) /\ Len(channel.receivers) \in Nat
    BY <1>1, Lists
  <1>7. PICK n \in Nat : n = Len(channel.receivers)
    BY <1>6
  <1>8. /\ channel'.receivers \in Seq(IoCallers) /\ Len(channel'.receivers) = n + 1
        /\ channel'.receivers[n + 1] = c
        /\ \A i \in 1..n : channel'.receivers[i] = channel.receivers[i]
        /\ \A i \in 1..(n + 1) : i \in 1..n \/ i = n + 1
    <2>1. /\ Append(channel.receivers, c) \in Seq(IoCallers)
          /\ Len(Append(channel.receivers, c)) = n + 1 /\ Append(channel.receivers, c)[n + 1] = c
          /\ \A i \in 1..n : Append(channel.receivers, c)[i] = channel.receivers[i]
          /\ \A i \in 1..(n + 1) : i \in 1..n \/ i = n + 1
      BY <1>6, <1>7, OneMore
    <2> QED
      BY <1>3, <2>1
  <1>9. AwaitTypeOK'
    <2>1. channel' \in Channel
      BY <1>1, <1>2, <1>3, <1>8 DEF Channel
    <2> QED
      BY <1>1, <1>2, <1>5, <2>1 DEF AwaitTypeOK
  <1>10. Queued'
    <2>1. \A i \in 1..Len(onExecutor), j \in 1..(n + 1) : channel'.receivers[j] # onExecutor[i].of
      <3>1. \A i \in 1..Len(onExecutor), j \in 1..n : channel.receivers[j] # onExecutor[i].of
        BY <1>7 DEF AwaitInv, Queued
      <3> QED
        BY <3>1, <1>5, <1>8
    <2>2. \A i \in 1..Len(onExecutor), j \in 1..Len(channel'.receivers) :
            channel'.receivers[j] # onExecutor[i].of
      BY <2>1, <1>8
    <2>3. \A i \in 1..Len(onExecutor), j \in 1..Len(channel'.senders) :
            channel'.senders[j] # onExecutor[i].of
      BY <1>3 DEF AwaitInv, Queued
    <2>4. \A i \in 1..Len(onExecutor) : call'[onExecutor[i].of] = call[onExecutor[i].of]
      BY <1>5
    <2> QED
      BY <2>2, <2>3, <2>4, <1>2, QueuedStays
  <1>11. Sending' /\ Receiving'
    <2>1. \A i \in 1..n : channel.receivers[i] # c
      BY <1>5, <1>7
    <2>2. \A i \in 1..n : /\ Waits(channel.receivers[i], {"receive"})
                         /\ call'[channel.receivers[i]] = call[channel.receivers[i]]
                         /\ \A j \in 1..n : channel.receivers[i] = channel.receivers[j] => i = j
      BY <1>5, <1>7 DEF AwaitInv, Receiving
    <2>3. \A i, j \in 1..(n + 1) : channel'.receivers[i] = channel'.receivers[j] => i = j
      BY <1>8, <2>1, <2>2
    <2>4. \A i \in 1..(n + 1) : /\ call'[channel'.receivers[i]].at = "waiting"
                               /\ call'[channel'.receivers[i]].kind = "receive"
      <3>1. \A i \in 1..n : /\ call'[channel.receivers[i]].at = "waiting"
                           /\ call'[channel.receivers[i]].kind = "receive"
        BY <2>2 DEF Waits
      <3>2. call'[c].at = "waiting" /\ call'[c].kind = "receive"
        BY <1>4, <1>5
      <3> QED
        BY <3>1, <3>2, <1>8
    <2>5. Receiving'
      BY <1>8, <2>3, <2>4 DEF Receiving, Waits
    <2>6. Sending'
      BY <1>3, <1>5 DEF AwaitInv, Sending, Waits
    <2> QED
      BY <2>5, <2>6
  <1>12. InOrder'
    BY <1>3, <1>5 DEF AwaitInv, InOrder
  <1>13. OnceEach'
    BY <1>1, <1>3, <1>5 DEF AwaitInv, OnceEach
  <1>14. Room'
    BY <1>3 DEF AwaitInv, Room
  <1>15. Received'
    <2>1. \A w \in Nat : WentOut(w) => WentOut(w)'
      BY <1>3 DEF WentOut
    <2>2. ASSUME NEW d \in IoCallers, NEW w \in Nat, Holds(d, w)' PROVE Holds(d, w)
      <3>1. d # c
        BY <2>2, <1>2, <1>4, <1>5 DEF Holds
      <3> QED
        BY <2>2, <3>1, <1>2, <1>5 DEF Holds
    <2> QED
      BY <2>1, <2>2, NobodyHasMore DEF AwaitInv
  <1> QED
    BY <1>5, <1>9, <1>10, <1>11, <1>12, <1>13, <1>14, <1>15 DEF AwaitInv

(* What try_receive() leaves in the buffer: all but the first of q, as many  *)
(* as there is room for.                                                     *)
LEMMA Shifted ==
  ASSUME NEW q \in Seq(Nat), q # <<>>, NEW n \in Nat, n + 1 <= Len(q)
  PROVE  /\ Head(q) = q[1] /\ q[1] \in Nat /\ 1 \in 1..Len(q)
         /\ SubSeq(q, 2, n + 1) \in Seq(Nat) /\ Len(SubSeq(q, 2, n + 1)) = n
         /\ \A i \in 1..n : i + 1 \in 1..Len(q) /\ SubSeq(q, 2, n + 1)[i] = q[i + 1]
  <1>1. PICK l \in Nat : l = Len(q)
    OBVIOUS
  <1>2. /\ 1 \in 1..l /\ Head(q) = q[1] /\ \A i \in 1..n : i + 1 \in 1..l
    BY <1>1, EmptySeq
  <1>3. q[1] \in Nat
    BY <1>1, <1>2
  <1>4. /\ \A i \in 2..(n + 1) : i \in 1..l
        /\ (IF 2 <= n + 1 THEN (n + 1) - 2 + 1 ELSE 0) = n
        /\ \A i \in 1..n : 2 + i - 1 = i + 1
        /\ 2 \in 1..(l + 1) /\ n + 1 \in 0..l /\ 2 <= (n + 1) + 1
    BY <1>1, <1>2
  <1>5. \A i \in 2..(n + 1) : q[i] \in Nat
    BY <1>1, <1>4
  <1>6. /\ SubSeq(q, 2, n + 1) \in Seq(Nat)
        /\ Len(SubSeq(q, 2, n + 1)) = (IF 2 <= n + 1 THEN (n + 1) - 2 + 1 ELSE 0)
        /\ \A i \in 1..((n + 1) - 2 + 1) : SubSeq(q, 2, n + 1)[i] = q[2 + i - 1]
    BY <1>1, <1>4, SubSeqProperties
  <1> QED
    BY <1>1, <1>2, <1>3, <1>4, <1>6

(* Nobody waits and nothing is there. *)
LEMMA NothingThere ==
  ASSUME AwaitTypeOK
  PROVE  channel.buffer \o channel.senders = <<>> <=> channel.buffer = <<>> /\ channel.senders = <<>>
  <1>1. channel.buffer \in Seq(Nat) /\ channel.senders \in Seq(IoCallers)
    BY Lists
  <1>2. channel.buffer \in Seq(Nat \union IoCallers)
    BY <1>1, SeqMonotonic
  <1>3. channel.senders \in Seq(Nat \union IoCallers)
    BY <1>1, SeqMonotonic
  <1> QED
    BY <1>2, <1>3, ConcatEqualIffEmpty

(* The values that have come in and not gone out. *)
Left == channel.buffer \o [i \in DOMAIN channel.senders |-> call[channel.senders[i]].number]

(* They are what came in last, and the buffer keeps what it has room for.    *)
LEMMA LeftInOrder ==
  ASSUME AwaitInv
  PROVE  /\ Left \in Seq(Nat) /\ Len(Left) = Len(channel.buffer) + Len(channel.senders)
         /\ \A i \in 1..Len(Left) : /\ Len(channel.out) + i \in 1..Len(channel.in)
                                   /\ Left[i] = channel.in[Len(channel.out) + i]
         /\ Len(channel.in) = Len(channel.out) + Len(Left)
         /\ channel.buffer # <<>> => Left[1] = Head(channel.buffer)
         /\ channel.buffer = <<>> /\ channel.senders # <<>> =>
              Left[1] = call[Head(channel.senders)].number
  <1>1. /\ channel.buffer \in Seq(Nat) /\ channel.senders \in Seq(IoCallers)
        /\ \A i \in 1..Len(channel.senders) : channel.senders[i] \in IoCallers
        /\ call \in [IoCallers -> IoCall]
        /\ Len(channel.buffer) \in Nat /\ Len(channel.senders) \in Nat
        /\ Len(channel.in) \in Nat /\ Len(channel.out) \in Nat
    BY Lists DEF AwaitInv, AwaitTypeOK
  <1>2. PICK nb \in Nat, ns \in Nat, no \in Nat, ni \in Nat :
          /\ nb = Len(channel.buffer) /\ ns = Len(channel.senders)
          /\ no = Len(channel.out) /\ ni = Len(channel.in)
    BY <1>1
  <1>3. PICK own : own = [i \in DOMAIN channel.senders |-> call[channel.senders[i]].number]
    OBVIOUS
  <1>4. /\ own \in Seq(Nat) /\ Len(own) = ns
        /\ \A i \in 1..ns : own[i] = call[channel.senders[i]].number
    <2>1. DOMAIN channel.senders = 1..ns
      BY <1>1, <1>2
    <2>2. \A i \in 1..ns : call[channel.senders[i]].number \in Nat
      BY <1>1, <1>2 DEF IoCall
    <2>3. own = [i \in 1..ns |-> call[channel.senders[i]].number]
      BY <1>3, <2>1
    <2> QED
      BY <2>2, <2>3
  <1>5. /\ Left \in Seq(Nat) /\ Len(Left) = nb + ns
        /\ \A i \in 1..(nb + ns) : Left[i] = IF i <= nb THEN channel.buffer[i] ELSE own[i - nb]
    <2>1. /\ channel.buffer \o own \in Seq(Nat)
          /\ Len(channel.buffer \o own) = Len(channel.buffer) + Len(own)
          /\ \A i \in 1..(Len(channel.buffer) + Len(own)) :
               (channel.buffer \o own)[i] =
                 IF i <= Len(channel.buffer) THEN channel.buffer[i] ELSE own[i - Len(channel.buffer)]
      BY <1>1, <1>4, ConcatProperties
    <2> QED
      BY <2>1, <1>2, <1>3, <1>4 DEF Left
  <1>6. /\ ni = no + nb + ns
        /\ \A i \in 1..nb : channel.in[no + i] = channel.buffer[i]
        /\ \A i \in 1..ns : channel.in[no + nb + i] = own[i]
    BY <1>2, <1>4 DEF AwaitInv, InOrder
  <1>7. \A i \in 1..(nb + ns) : no + i \in 1..ni
    BY <1>6
  <1>8. \A i \in 1..(nb + ns) : Left[i] = channel.in[no + i]
    <2> TAKE i \in 1..(nb + ns)
    <2>1. CASE i <= nb
      <3>1. i \in 1..nb
        BY <2>1
      <3> QED
        BY <2>1, <3>1, <1>5, <1>6
    <2>2. CASE ~(i <= nb)
      <3>1. PICK j \in 1..ns : j = i - nb /\ no + nb + j = no + i
        BY <2>2
      <3> QED
        BY <2>2, <3>1, <1>5, <1>6
    <2> QED
      BY <2>1, <2>2
  <1>9. ni = no + (nb + ns)
    BY <1>6
  <1>10. channel.buffer # <<>> => Left[1] = Head(channel.buffer)
    <2> SUFFICES ASSUME channel.buffer # <<>> PROVE Left[1] = Head(channel.buffer)
      OBVIOUS
    <2>1. nb # 0
      BY <1>1, <1>2, EmptySeq
    <2>2. 1 \in 1..(nb + ns) /\ 1 <= nb
      BY <2>1
    <2>3. Head(channel.buffer) = channel.buffer[1]
      BY <1>1
    <2> QED
      BY <2>2, <2>3, <1>5
  <1>11. channel.buffer = <<>> /\ channel.senders # <<>> =>
           Left[1] = call[Head(channel.senders)].number
    <2> SUFFICES ASSUME channel.buffer = <<>>, channel.senders # <<>>
        PROVE Left[1] = call[Head(channel.senders)].number
      OBVIOUS
    <2>1. nb = 0 /\ ns # 0
      BY <1>1, <1>2, EmptySeq
    <2>2. 1 \in 1..(nb + ns) /\ ~(1 <= nb) /\ 1 - nb = 1 /\ 1 \in 1..ns
      BY <2>1
    <2>3. Head(channel.senders) = channel.senders[1]
      BY <1>1
    <2> QED
      BY <2>2, <2>3, <1>4, <1>5
  <1> QED
    BY <1>2, <1>5, <1>7, <1>8, <1>9, <1>10, <1>11

(* How much of it the buffer keeps when the first has gone. *)
Kept == IF Capacity < Len(Left) - 1 THEN Capacity ELSE Len(Left) - 1

(* The rest has room, and without room the first that waits gets the place.  *)
LEMMA RoomForTheRest ==
  ASSUME AwaitInv, Left # <<>>
  PROVE  /\ Kept \in Nat /\ Kept + 1 <= Len(Left) /\ Kept <= Capacity
         /\ channel.senders = <<>> => Kept + 1 = Len(channel.buffer)
         /\ channel.senders # <<>> => Kept = Len(channel.buffer) /\ Kept = Capacity
  <1>1. /\ channel.buffer \in Seq(Nat) /\ channel.senders \in Seq(IoCallers)
        /\ Len(channel.buffer) \in Nat /\ Len(channel.senders) \in Nat
    BY Lists DEF AwaitInv
  <1>2. PICK nb \in Nat, ns \in Nat, most \in Nat :
          nb = Len(channel.buffer) /\ ns = Len(channel.senders) /\ most = Capacity
    BY <1>1, InstanceAssumption DEF Await!CoroIoAssumption
  <1>3. nb <= most
    BY <1>2 DEF AwaitInv, Room
  <1>4. Len(Left) = nb + ns /\ Left \in Seq(Nat)
    BY <1>2, LeftInOrder
  <1>5. nb + ns # 0
    BY <1>4, EmptySeq
  <1>6. Kept = IF most < (nb + ns) - 1 THEN most ELSE (nb + ns) - 1
    BY <1>2, <1>4 DEF Kept
  <1>7. CASE channel.senders = <<>>
    <2>1. ns = 0
      BY <1>2, <1>7
    <2> QED
      BY <2>1, <1>2, <1>3, <1>4, <1>5, <1>6, <1>7
  <1>8. CASE channel.senders # <<>>
    <2>1. ns # 0
      BY <1>1, <1>2, <1>8, EmptySeq
    <2>2. nb = most
      BY <1>2, <1>8 DEF AwaitInv, Room
    <2> QED
      <3>1. \A m, k \in Nat : k # 0 => (IF m < (m + k) - 1 THEN m ELSE (m + k) - 1) = m
        OBVIOUS
      <3>2. \A m, k \in Nat : k # 0 => m + 1 <= m + k
        OBVIOUS
      <3>3. Kept = most /\ most + 1 <= nb + ns
        BY <2>1, <2>2, <3>1, <3>2, <1>6
      <3> QED
        <4>1. Kept \in Nat /\ Kept <= Capacity /\ Kept = Len(channel.buffer) /\ Kept = Capacity
          <5>1. Kept = most /\ most = Capacity /\ most = Len(channel.buffer)
            BY <3>3, <2>2, <1>2
          <5>2. most \in Nat /\ most <= most
            OBVIOUS
          <5> QED
            BY <5>1, <5>2
        <4>2. Kept + 1 <= Len(Left)
          BY <3>3, <1>4
        <4> QED
          BY <4>1, <4>2, <1>8
  <1> QED
    BY <1>7, <1>8

(* The receiver gets the first value, and a sender that waits its place.     *)
LEMMA ReceiveTakesKeeps ==
  ASSUME AwaitInv, NEW c \in IoCallers, Await!AsyncReceive(c),
         ~(channel.buffer = <<>> /\ channel.senders = <<>>)
  PROVE  AwaitInv'
  <1>1. /\ call[c].at = "try" /\ call[c].kind = "receive" /\ AwaitTypeOK /\ call[c] \in IoCall
        /\ channel \in Channel /\ UNCHANGED <<kinds, begun, service>>
    BY DEF AwaitInv, AwaitTypeOK, Await!AsyncReceive
  <1>2. PICK first : first = IF channel.buffer # <<>> THEN Head(channel.buffer)
                             ELSE call[Head(channel.senders)].number
    OBVIOUS
  <1>3. /\ Await!TakeValue
        /\ call' = [call EXCEPT ![c] = Await!Returned(@, Await!Answer("ok", first))]
    BY <1>1, <1>2, NothingThere DEF Await!AsyncReceive
  <1>4. /\ channel.in \in Seq(Nat) /\ channel.out \in Seq(Nat) /\ channel.buffer \in Seq(Nat)
        /\ channel.senders \in Seq(IoCallers) /\ channel.receivers \in Seq(IoCallers)
        /\ Len(channel.in) \in Nat /\ Len(channel.out) \in Nat /\ Len(channel.buffer) \in Nat
        /\ Len(channel.senders) \in Nat
    BY <1>1, Lists
  <1>5. PICK ni \in Nat, no \in Nat, nb \in Nat, ns \in Nat :
          /\ ni = Len(channel.in) /\ no = Len(channel.out) /\ nb = Len(channel.buffer)
          /\ ns = Len(channel.senders)
    BY <1>4
  <1>6. /\ Left \in Seq(Nat) /\ Len(Left) = nb + ns /\ Left # <<>>
        /\ \A i \in 1..Len(Left) : no + i \in 1..ni /\ Left[i] = channel.in[no + i]
        /\ ni = no + (nb + ns)
        /\ first = Left[1]
    <2>1. /\ Left \in Seq(Nat) /\ Len(Left) = nb + ns
          /\ \A i \in 1..Len(Left) : no + i \in 1..ni /\ Left[i] = channel.in[no + i]
          /\ ni = no + (nb + ns)
          /\ first = Left[1]
      BY <1>2, <1>5, LeftInOrder
    <2>2. nb + ns # 0
      <3>1. nb # 0 \/ ns # 0
        BY <1>4, <1>5, EmptySeq
      <3> QED
        BY <3>1
    <2> QED
      BY <2>1, <2>2
  <1>7. PICK n \in Nat : n = Kept
    BY <1>6, RoomForTheRest
  <1>8. /\ n + 1 <= Len(Left) /\ n <= Capacity
        /\ channel.senders = <<>> => n + 1 = nb
        /\ channel.senders # <<>> => n = nb /\ n = Capacity
    BY <1>5, <1>6, <1>7, RoomForTheRest
  <1>9. PICK rest : rest = SubSeq(Left, 2, n + 1)
    OBVIOUS
  <1>10. /\ Head(Left) = first /\ first \in Nat /\ 1 \in 1..Len(Left)
         /\ rest \in Seq(Nat) /\ Len(rest) = n
         /\ \A i \in 1..n : i + 1 \in 1..Len(Left) /\ rest[i] = Left[i + 1]
    BY <1>6, <1>8, <1>9, Shifted
  <1>11. /\ channel' = [channel EXCEPT !.buffer = rest,
                          !.senders = IF @ = <<>> THEN @ ELSE Tail(@), !.out = Append(@, first)]
         /\ onExecutor' = IF channel.senders = <<>> THEN onExecutor
                          ELSE Append(onExecutor, Await!Hand(Head(channel.senders), Await!Fine))
    BY <1>3, <1>7, <1>9, <1>10 DEF Await!TakeValue, Left, Kept
  <1>12. /\ channel'.in = channel.in /\ channel'.receivers = channel.receivers
         /\ channel'.buffer = rest /\ channel'.out = Append(channel.out, first)
         /\ channel'.senders = IF channel.senders = <<>> THEN channel.senders ELSE Tail(channel.senders)
    BY <1>1, <1>11 DEF Channel
  <1>13. channel.receivers = <<>>
    BY DEF AwaitInv, Room
  <1>14. PICK r \in IoCall : /\ call' = [call EXCEPT ![c] = r] /\ r.kind = "receive"
                             /\ r.number = call[c].number /\ r.at = "returned"
                             /\ r.result.value = first
    <2>1. PICK a \in Answers : a = Await!Answer("ok", first) /\ a.value = first
      <3>1. PICK x : x = [ec |-> "ok", value |-> first]
        OBVIOUS
      <3>2. x \in Answers /\ x.value = first
        BY <3>1, <1>10 DEF Answers
      <3> QED
        BY <3>1, <3>2 DEF Await!Answer
    <2>2. PICK r : r = [call[c] EXCEPT !.at = "returned", !.result = a]
      OBVIOUS
    <2>3. call' = [call EXCEPT ![c] = r]
      BY <1>1, <1>3, <2>1, <2>2 DEF Await!Returned, AwaitTypeOK
    <2>4. /\ r \in IoCall /\ r.kind = "receive" /\ r.number = call[c].number /\ r.at = "returned"
          /\ r.result = a
      BY <1>1, <2>1, <2>2 DEF IoCall
    <2> QED
      BY <2>1, <2>3, <2>4
  <1>15. /\ call' \in [IoCallers -> IoCall] /\ call'[c] = r
         /\ \A d \in IoCallers : d # c => call'[d] = call[d]
         /\ \A d \in IoCallers : call'[d].at = "try" => d # c /\ call[d].at = "try"
         /\ CallsFit' /\ NumbersDiffer' /\ AskedAsio'
         /\ \A i \in 1..Len(onExecutor) :
              onExecutor[i].of # c /\ call'[onExecutor[i].of] = call[onExecutor[i].of]
         /\ \A i \in 1..Len(channel.senders) :
              channel.senders[i] # c /\ call'[channel.senders[i]] = call[channel.senders[i]]
    BY <1>1, <1>14, TryEnds
  <1>16. /\ channel'.out \in Seq(Nat) /\ Len(channel'.out) = no + 1 /\ channel'.out[no + 1] = first
         /\ \A i \in 1..no : channel'.out[i] = channel.out[i]
         /\ \A i \in 1..(no + 1) : i \in 1..no \/ i = no + 1
    <2>1. /\ Append(channel.out, first) \in Seq(Nat) /\ Len(Append(channel.out, first)) = no + 1
          /\ Append(channel.out, first)[no + 1] = first
          /\ \A i \in 1..no : Append(channel.out, first)[i] = channel.out[i]
          /\ \A i \in 1..(no + 1) : i \in 1..no \/ i = no + 1
      <3>1. channel.out \in Seq(Nat) /\ first \in Nat /\ no = Len(channel.out)
        BY <1>4, <1>5, <1>10
      <3> QED
        BY <3>1, OneMore
    <2> QED
      BY <1>12, <2>1
  <1>17. PICK later : later = channel'.senders
    OBVIOUS
  <1>18. \/ /\ channel.senders = <<>> /\ later = <<>> /\ onExecutor' = onExecutor
         \/ /\ channel.senders # <<>> /\ later = Tail(channel.senders)
            /\ \E e \in Entry : /\ onExecutor' = Append(onExecutor, e) /\ e.of = channel.senders[1]
    <2>1. CASE channel.senders = <<>>
      BY <2>1, <1>11, <1>12, <1>17
    <2>2. CASE channel.senders # <<>>
      <3>1. Head(channel.senders) = channel.senders[1] /\ channel.senders[1] \in IoCallers
        BY <2>2, <1>4, EmptySeq
      <3>2. Await!Fine \in Answers
        BY DEF Await!Fine, Await!Answer, Answers
      <3>3. [of |-> channel.senders[1], answers |-> {Await!Fine}] \in Entry
        BY <3>1, <3>2 DEF Entry
      <3>4. onExecutor' = Append(onExecutor, [of |-> channel.senders[1], answers |-> {Await!Fine}])
        BY <2>2, <3>1, <1>11 DEF Await!Hand
      <3> QED
        BY <2>2, <3>3, <3>4, <1>12, <1>17
    <2> QED
      BY <2>1, <2>2
  <1>19. /\ later \in Seq(IoCallers) /\ Len(later) \in Nat /\ n + Len(later) + 1 = nb + ns
         /\ \A i \in 1..Len(later) : /\ i + 1 \in 1..ns /\ later[i] = channel.senders[i + 1]
                                    /\ later[i] # channel.senders[1]
                                    /\ call'[later[i]] = call[later[i]]
                                    /\ Waits(later[i], {"send"})
         /\ \A i, j \in 1..Len(later) : later[i] = later[j] => i = j
         /\ later # <<>> => n = Capacity
    <2>1. CASE channel.senders = <<>>
      <3>1. later = <<>> /\ ns = 0 /\ n + 1 = nb
        BY <2>1, <1>5, <1>8, <1>18
      <3>2. later \in Seq(IoCallers) /\ Len(later) = 0 /\ \A i \in 1..Len(later) : FALSE
        BY <3>1
      <3> QED
        BY <3>1, <3>2
    <2>2. CASE channel.senders # <<>>
      <3>1. \A i \in 1..ns : /\ Waits(channel.senders[i], {"send"})
                            /\ call'[channel.senders[i]] = call[channel.senders[i]]
                            /\ \A j \in 1..ns : channel.senders[i] = channel.senders[j] => i = j
        BY <1>5, <1>15 DEF AwaitInv, Sending
      <3>2. PICK q \in Seq(IoCallers) : q = channel.senders /\ q # <<>> /\ later = Tail(q) /\ Len(q) = ns
        BY <2>2, <1>4, <1>5, <1>18
      <3>3. \A i, j \in 1..Len(q) : q[i] = q[j] => i = j
        BY <3>1, <3>2
      <3>4. /\ Tail(q) \in Seq(IoCallers) /\ Len(Tail(q)) + 1 = Len(q)
            /\ \A i \in 1..Len(Tail(q)) : /\ i + 1 \in 1..Len(q) /\ Tail(q)[i] = q[i + 1]
                                         /\ Tail(q)[i] # q[1]
            /\ \A i, j \in 1..Len(Tail(q)) : Tail(q)[i] = Tail(q)[j] => i = j
        BY <3>2, <3>3, FirstGoes
      <3>5. later \in Seq(IoCallers) /\ Len(later) \in Nat /\ Len(later) + 1 = ns /\ n = nb
        BY <2>2, <3>2, <3>4, <1>8
      <3>6. n + Len(later) + 1 = nb + ns
        BY <3>5
      <3>7. \A i \in 1..Len(later) : /\ i + 1 \in 1..ns /\ later[i] = channel.senders[i + 1]
                                    /\ later[i] # channel.senders[1]
        BY <3>2, <3>4
      <3>8. \A i, j \in 1..Len(later) : later[i] = later[j] => i = j
        BY <3>2, <3>4
      <3>9. \A i \in 1..Len(later) : call'[later[i]] = call[later[i]] /\ Waits(later[i], {"send"})
        BY <3>1, <3>7
      <3> QED
        BY <2>2, <3>5, <3>6, <3>7, <3>8, <3>9, <1>8
    <2> QED
      BY <2>1, <2>2
  <1>20. AwaitTypeOK'
    <2>1. channel' \in Channel
      BY <1>1, <1>4, <1>10, <1>11, <1>12, <1>16, <1>17, <1>19 DEF Channel
    <2>2. onExecutor' \in Seq(Entry)
      BY <1>1, <1>18, HandedOver DEF AwaitTypeOK
    <2> QED
      BY <1>1, <1>15, <2>1, <2>2 DEF AwaitTypeOK
  <1>21. Queued'
    <2>1. \A i \in 1..Len(onExecutor), j \in 1..ns : channel.senders[j] # onExecutor[i].of
      BY <1>5 DEF AwaitInv, Queued
    <2>2. \A i \in 1..Len(onExecutor), j \in 1..Len(channel'.senders) :
            channel'.senders[j] # onExecutor[i].of
      BY <2>1, <1>17, <1>19
    <2>3. \A j \in 1..Len(channel'.receivers) : FALSE
      BY <1>12, <1>13
    <2>4. \A i \in 1..Len(onExecutor) : call'[onExecutor[i].of] = call[onExecutor[i].of]
      BY <1>15
    <2>5. CASE channel.senders = <<>>
      BY <2>2, <2>3, <2>4, <2>5, <1>18, QueuedStays
    <2>6. CASE channel.senders # <<>>
      <3>1. PICK e \in Entry : onExecutor' = Append(onExecutor, e) /\ e.of = channel.senders[1]
        BY <2>6, <1>18
      <3>2. 1 \in 1..ns
        BY <2>6, <1>4, <1>5, EmptySeq
      <3>3. call'[e.of].at = "waiting" /\ call'[e.of].kind = "send"
        BY <3>1, <3>2, <1>5, <1>15 DEF AwaitInv, Sending, Waits
      <3>4. \A i \in 1..Len(onExecutor) : onExecutor[i].of # e.of
        BY <2>1, <3>1, <3>2
      <3>5. \A j \in 1..Len(channel'.senders) :
              /\ channel'.senders[j] # e.of
              /\ \A i \in 1..Len(onExecutor) : channel'.senders[j] # onExecutor[i].of
        BY <2>2, <3>1, <1>17, <1>19
      <3>6. Waits(e.of, {"post", "close", "send", "receive"})'
        BY <3>3 DEF Waits
      <3> QED
        BY <2>3, <2>4, <3>1, <3>3, <3>4, <3>5, <3>6, QueuedOnce
    <2> QED
      BY <2>5, <2>6
  <1>22. Sending' /\ Receiving'
    <2>1. \A i \in 1..Len(later) : call'[later[i]].at = "waiting" /\ call'[later[i]].kind = "send"
      BY <1>19 DEF Waits
    <2>2. Sending'
      BY <2>1, <1>17, <1>19 DEF Sending, Waits
    <2>3. \A j \in 1..Len(channel'.receivers) : FALSE
      BY <1>12, <1>13
    <2> QED
      BY <2>2, <2>3 DEF Receiving
  <1>23. InOrder'
    <2>1. ni = (no + 1) + n + Len(later)
      <3>1. PICK l \in Nat, m \in Nat : l = Len(later) /\ m = nb + ns /\ n + l + 1 = m /\ ni = no + m
        BY <1>6, <1>19
      <3> QED
        BY <3>1
    <2>2. \A i \in 1..(no + 1) : channel.in[i] = channel'.out[i]
      <3>1. \A i \in 1..no : channel.in[i] = channel.out[i]
        BY <1>5 DEF AwaitInv, InOrder
      <3>2. channel.in[no + 1] = first
        BY <1>6, <1>10
      <3> QED
        BY <3>1, <3>2, <1>16
    <2>3. \A i \in 1..n : channel.in[(no + 1) + i] = rest[i]
      <3> TAKE i \in 1..n
      <3>1. rest[i] = channel.in[no + (i + 1)]
        BY <1>6, <1>10
      <3>2. no + (i + 1) = (no + 1) + i
        OBVIOUS
      <3> QED
        BY <3>1, <3>2
    <2>4. \A i \in 1..Len(later) : channel.in[(no + 1) + n + i] = call'[later[i]].number
      <3> TAKE i \in 1..Len(later)
      <3>1. /\ later[i] = channel.senders[i + 1] /\ i + 1 \in 1..ns
            /\ call'[later[i]] = call[channel.senders[i + 1]]
        BY <1>19
      <3>2. channel.in[no + nb + (i + 1)] = call[channel.senders[i + 1]].number
        BY <3>1, <1>5 DEF AwaitInv, InOrder
      <3>3. n = nb
        <4>1. channel.senders # <<>>
          BY <1>5, <3>1
        <4> QED
          BY <4>1, <1>8
      <3>4. no + nb + (i + 1) = (no + 1) + n + i
        BY <3>3
      <3> QED
        BY <3>1, <3>2, <3>4
    <2>5. /\ Len(channel'.out) = no + 1 /\ Len(channel'.buffer) = n /\ channel'.buffer = rest
          /\ channel'.senders = later /\ channel'.in = channel.in /\ Len(channel'.in) = ni
      BY <1>5, <1>10, <1>12, <1>16, <1>17
    <2> QED
      BY <2>1, <2>2, <2>3, <2>4, <2>5 DEF InOrder
  <1>24. OnceEach'
    BY <1>1, <1>12, <1>15 DEF AwaitInv, OnceEach
  <1>25. Room'
    BY <1>8, <1>10, <1>12, <1>13, <1>17, <1>19 DEF Room
  <1>26. Received'
    <2>1. \A w \in Nat : WentOut(w) => WentOut(w)'
      <3> SUFFICES ASSUME NEW w \in Nat, NEW i \in 1..no, channel.out[i] = w PROVE WentOut(w)'
        BY <1>5 DEF WentOut
      <3>1. i \in 1..(no + 1)
        OBVIOUS
      <3> QED
        BY <3>1, <1>16 DEF WentOut
    <2>2. ~WentOut(first)
      <3>1. \A i \in 1..no : channel.in[i] = channel.out[i]
        BY <1>5 DEF AwaitInv, InOrder
      <3>2. no + 1 \in 1..ni /\ channel.in[no + 1] = first
        BY <1>6, <1>10
      <3>3. \A i \in 1..no : i \in 1..ni /\ i # no + 1
        BY <1>6
      <3>4. \A i, j \in 1..ni : channel.in[i] = channel.in[j] => i = j
        BY <1>5 DEF AwaitInv, OnceEach
      <3>5. \A i \in 1..no : channel.out[i] # first
        BY <3>1, <3>2, <3>3, <3>4
      <3> QED
        BY <3>5, <1>5 DEF WentOut
    <2>3. WentOut(first)'
      <3>1. no + 1 \in 1..(no + 1)
        OBVIOUS
      <3> QED
        BY <3>1, <1>16 DEF WentOut
    <2>4. ASSUME NEW d \in IoCallers, NEW w \in Nat, Holds(d, w)'
          PROVE Holds(d, w) \/ (d = c /\ w = first)
      <3>1. CASE \E i \in 1..Len(onExecutor') :
                   onExecutor'[i].of = d /\ onExecutor'[i].answers = {Await!Answer("ok", w)}
        <4>1. PICK i \in 1..Len(onExecutor') :
                onExecutor'[i].of = d /\ onExecutor'[i].answers = {Await!Answer("ok", w)}
          BY <3>1
        <4>2. CASE i \in 1..Len(onExecutor) /\ onExecutor'[i] = onExecutor[i]
          <5>1. d # c /\ call'[d] = call[d]
            BY <4>1, <4>2, <1>15
          <5> QED
            BY <4>1, <4>2, <5>1, <2>4 DEF Holds
        <4>3. CASE channel.senders # <<>> /\ onExecutor'[i].of = channel.senders[1]
          <5>1. 1 \in 1..ns
            BY <4>3, <1>4, <1>5, EmptySeq
          <5>2. call'[d].kind = "send"
            BY <4>1, <4>3, <5>1, <1>5, <1>15 DEF AwaitInv, Sending, Waits
          <5> QED
            BY <5>2, <2>4 DEF Holds
        <4> QED
          BY <4>2, <4>3, <1>1, <1>18, HandedOver
      <3>2. CASE d = c /\ call'[d].at = "returned" /\ call'[d].result.value = w
        BY <3>2, <1>14, <1>15
      <3>3. CASE d # c /\ call'[d].at = "returned" /\ call'[d].result.value = w
        BY <3>3, <2>4, <1>15 DEF Holds
      <3> QED
        BY <2>4, <3>1, <3>2, <3>3 DEF Holds
    <2> QED
      BY <2>1, <2>2, <2>3, <2>4, <1>10, OneHasMore DEF AwaitInv
  <1> QED
    BY <1>15, <1>20, <1>21, <1>22, <1>23, <1>24, <1>25, <1>26 DEF AwaitInv

(* Nobody has called anything. *)
LEMMA AwaitStarts ==
  ASSUME Await!Init, kinds \subseteq Await!Operations PROVE AwaitInv
  <1>1. /\ begun = 0 /\ call = [c \in IoCallers |-> Await!Idle] /\ service = {} /\ onExecutor = <<>>
        /\ channel = [buffer |-> <<>>, senders |-> <<>>, receivers |-> <<>>, in |-> <<>>, out |-> <<>>]
    BY DEF Await!Init
  <1>2. /\ Await!Idle \in IoCall /\ Await!Idle.at = "idle" /\ Await!Idle.kind = "none"
    <2>1. Await!Fine \in Answers
      BY DEF Await!Fine, Await!Answer, Answers
    <2>2. <<>> \in Seq(Answers) /\ <<>> \in Seq(Nat)
      OBVIOUS
    <2> QED
      BY <2>1, <2>2 DEF IoCall, Await!Idle
  <1>3. \A c \in IoCallers : call[c] = Await!Idle
    BY <1>1
  <1>4. /\ channel.buffer = <<>> /\ channel.senders = <<>> /\ channel.receivers = <<>>
        /\ channel.in = <<>> /\ channel.out = <<>>
    BY <1>1
  <1>5. /\ Len(onExecutor) = 0 /\ Len(channel.buffer) = 0 /\ Len(channel.senders) = 0
        /\ Len(channel.receivers) = 0 /\ Len(channel.in) = 0 /\ Len(channel.out) = 0
        /\ \A i \in 1..0 : FALSE
    BY <1>1, <1>4
  <1>6. AwaitTypeOK
    <2>1. <<>> \in Seq(Nat) /\ <<>> \in Seq(IoCallers) /\ <<>> \in Seq(Entry)
      OBVIOUS
    <2>2. channel \in Channel
      BY <1>1, <2>1 DEF Channel
    <2>3. call \in [IoCallers -> IoCall]
      BY <1>1, <1>2
    <2> QED
      BY <1>1, <2>1, <2>2, <2>3 DEF AwaitTypeOK
  <1>7. CallsFit
    <2>1. Fits(Await!Idle, begun)
      BY <1>2 DEF Fits, Called
    <2> QED
      BY <2>1, <1>3 DEF CallsFit
  <1>8. NumbersDiffer
    BY <1>2, <1>3 DEF NumbersDiffer
  <1>9. AskedAsio /\ Queued /\ Sending /\ Receiving
    BY <1>1, <1>5 DEF AskedAsio, Queued, Sending, Receiving
  <1>10. InOrder
    BY <1>5 DEF InOrder
  <1>11. OnceEach
    BY <1>2, <1>3, <1>5 DEF OnceEach
  <1>12. Room
    BY <1>4, <1>5, InstanceAssumption DEF Room, Await!CoroIoAssumption
  <1>13. Received
    <2>1. \A c \in IoCallers, v \in Nat : ~Holds(c, v)
      BY <1>2, <1>3 DEF Holds
    <2> QED
      BY <2>1 DEF Received
  <1> QED
    BY <1>6, <1>7, <1>8, <1>9, <1>10, <1>11, <1>12, <1>13 DEF AwaitInv

(* Every step keeps it. *)
LEMMA AwaitStep == ASSUME AwaitInv, [Await!Next]_awaitVars PROVE AwaitInv'
  <1>1. ASSUME NEW c \in IoCallers, Await!AsyncSend(c) PROVE AwaitInv'
    <2>1. channel.receivers = <<>> => Len(channel.buffer) < Capacity \/ Len(channel.buffer) = Capacity
      BY <1>1 DEF Await!AsyncSend
    <2> QED
      BY <1>1, <2>1, SendHandsOverKeeps, SendToBufferKeeps, SendWaitsKeeps
  <1>2. ASSUME NEW c \in IoCallers, Await!AsyncReceive(c) PROVE AwaitInv'
    BY <1>2, ReceiveTakesKeeps, ReceiveWaitsKeeps
  <1>3. CASE UNCHANGED awaitVars
    <2>1. UNCHANGED <<kinds, begun, call, service, onExecutor, channel>>
      BY <1>3 DEF awaitVars
    <2>2. AwaitTypeOK' /\ CallsFit' /\ NumbersDiffer'
      BY <2>1 DEF AwaitInv, AwaitTypeOK, CallsFit, NumbersDiffer
    <2>3. AskedAsio'
      BY <2>1 DEF AwaitInv, AskedAsio, Waits
    <2>q. Queued'
      BY <2>1, QueuedStays DEF AwaitInv, Queued
    <2>s. Sending' /\ Receiving'
      BY <2>1 DEF AwaitInv, Sending, Receiving, Waits
    <2>4. InOrder' /\ OnceEach' /\ Room'
      BY <2>1 DEF AwaitInv, InOrder, OnceEach, Room
    <2>5. Received'
      BY <2>1 DEF AwaitInv, Received, Holds, WentOut
    <2> QED
      BY <2>2, <2>3, <2>q, <2>s, <2>4, <2>5 DEF AwaitInv
  <1> QED
    BY <1>1, <1>2, <1>3, RunPostedKeeps, BeginKeeps, StoreHandleKeeps, StartOperationKeeps,
       CompleteKeeps, SendFileKeeps DEF Await!Next

(* Three sequences of values are joined in one order only. *)
LEMMA Joined ==
  ASSUME NEW x \in Seq(Nat), NEW y \in Seq(Nat), NEW z \in Seq(Nat)
  PROVE  (x \o y) \o z = x \o (y \o z)
  OBVIOUS

(* What came in is what went out, then the buffer, then those who wait.      *)
LEMMA InIsOutAndLeft ==
  ASSUME AwaitInv
  PROVE  channel.in = channel.out \o channel.buffer
                        \o [i \in DOMAIN channel.senders |-> call[channel.senders[i]].number]
  <1>1. /\ channel.in \in Seq(Nat) /\ channel.out \in Seq(Nat) /\ channel.buffer \in Seq(Nat)
        /\ Len(channel.in) \in Nat /\ Len(channel.out) \in Nat
    BY Lists DEF AwaitInv
  <1>2. /\ Left \in Seq(Nat) /\ Len(channel.in) = Len(channel.out) + Len(Left)
        /\ \A i \in 1..Len(Left) : Left[i] = channel.in[Len(channel.out) + i]
    BY LeftInOrder
  <1>3. PICK all : all = channel.out \o Left
    OBVIOUS
  <1>4. /\ all \in Seq(Nat) /\ Len(all) = Len(channel.out) + Len(Left)
        /\ \A i \in 1..(Len(channel.out) + Len(Left)) :
             all[i] = IF i <= Len(channel.out) THEN channel.out[i] ELSE Left[i - Len(channel.out)]
    BY <1>1, <1>2, <1>3, ConcatProperties
  <1>5. PICK no \in Nat, nl \in Nat : no = Len(channel.out) /\ nl = Len(Left)
    BY <1>1, <1>2
  <1>6. \A i \in 1..(no + nl) : channel.in[i] = all[i]
    <2> TAKE i \in 1..(no + nl)
    <2>1. CASE i <= no
      <3>1. i \in 1..no
        BY <2>1
      <3> QED
        BY <2>1, <3>1, <1>4, <1>5 DEF AwaitInv, InOrder
    <2>2. CASE ~(i <= no)
      <3>1. PICK j \in 1..nl : j = i - no /\ no + j = i
        BY <2>2
      <3> QED
        BY <2>2, <3>1, <1>2, <1>4, <1>5
    <2> QED
      BY <2>1, <2>2
  <1>7. channel.in = all
    BY <1>1, <1>2, <1>4, <1>5, <1>6, SeqEqual
  <1>8. PICK own : own = [i \in DOMAIN channel.senders |-> call[channel.senders[i]].number]
    OBVIOUS
  <1>9. own \in Seq(Nat)
    <2>1. /\ channel.senders \in Seq(IoCallers) /\ call \in [IoCallers -> IoCall]
          /\ \A i \in 1..Len(channel.senders) : channel.senders[i] \in IoCallers
          /\ Len(channel.senders) \in Nat
      BY Lists DEF AwaitInv, AwaitTypeOK
    <2>2. \A i \in 1..Len(channel.senders) : call[channel.senders[i]].number \in Nat
      BY <2>1 DEF IoCall
    <2>3. own = [i \in 1..Len(channel.senders) |-> call[channel.senders[i]].number]
      BY <2>1, <1>8
    <2> QED
      BY <2>1, <2>2, <2>3
  <1>10. (channel.out \o channel.buffer) \o own = channel.out \o (channel.buffer \o own)
    <2>1. \A x, y, z \in Seq(Nat) : (x \o y) \o z = x \o (y \o z)
      BY Joined
    <2>2. channel.out \in Seq(Nat) /\ channel.buffer \in Seq(Nat)
      BY <1>1
    <2> QED
      BY <2>1, <2>2, <1>9, Zenon
  <1> QED
    BY <1>3, <1>7, <1>8, <1>10 DEF Left

(* The invariant says what is asked of the operations. *)
LEMMA AnswersFollow == ASSUME AwaitInv PROVE Await!AnswersAreOwn
  <1>1. /\ call \in [IoCallers -> IoCall] /\ service \subseteq IoCallers
        /\ \A i \in 1..Len(onExecutor) : onExecutor[i].of \in IoCallers
        /\ onExecutor \in Seq(Entry) /\ channel.senders \in Seq(IoCallers)
        /\ channel.out \in Seq(Nat)
    BY Lists DEF AwaitInv, AwaitTypeOK
  <1>2. /\ DOMAIN onExecutor = 1..Len(onExecutor) /\ DOMAIN channel.senders = 1..Len(channel.senders)
        /\ DOMAIN channel.out = 1..Len(channel.out)
    BY <1>1
  <1>3. \A c \in IoCallers : call[c].at = "returned" =>
          /\ Await!OwnAnswer(call[c])
          /\ call[c].kind = "sendfile" => Await!FileSent(call[c])
    BY DEF AwaitInv, CallsFit, Fits
  <1>4. \A c \in service \union {onExecutor[i].of : i \in DOMAIN onExecutor} : call[c].stored
    <2>1. \A c \in IoCallers : call[c].at = "waiting" => call[c].stored
      BY DEF AwaitInv, CallsFit, Fits
    <2>2. \A c \in service : c \in IoCallers /\ call[c].at = "waiting"
      BY <1>1 DEF AwaitInv, AskedAsio, Waits
    <2>3. \A i \in 1..Len(onExecutor) :
            onExecutor[i].of \in IoCallers /\ call[onExecutor[i].of].at = "waiting"
      BY <1>1 DEF AwaitInv, Queued, Waits
    <2> QED
      BY <1>2, <2>1, <2>2, <2>3
  <1>5. \A c \in IoCallers : call[c].at = "returned" /\ call[c].kind = "receive" =>
          call[c].result.value \in Nat /\ Holds(c, call[c].result.value)
    <2>1. \A c \in IoCallers : call[c].result \in Answers
      BY <1>1 DEF IoCall
    <2> QED
      BY <2>1 DEF Holds, Answers
  <1>6. {call[c].result.value : c \in {d \in IoCallers : /\ call[d].kind = "receive"
                                                        /\ call[d].at = "returned"}}
          \subseteq {channel.out[i] : i \in DOMAIN channel.out}
    <2> SUFFICES ASSUME NEW c \in IoCallers, call[c].kind = "receive", call[c].at = "returned"
        PROVE \E i \in DOMAIN channel.out : channel.out[i] = call[c].result.value
      OBVIOUS
    <2>1. WentOut(call[c].result.value)
      BY <1>5 DEF AwaitInv, Received
    <2> QED
      BY <2>1, <1>2 DEF WentOut
  <1>7. \A c, d \in IoCallers :
          /\ c # d /\ call[c].at = "returned" /\ call[d].at = "returned"
          /\ call[c].kind = "receive" /\ call[d].kind = "receive"
          => call[c].result.value # call[d].result.value
    BY <1>5 DEF AwaitInv, Received
  <1>8. /\ channel.receivers # <<>> => channel.buffer \o channel.senders = <<>>
        /\ channel.senders # <<>> => Len(channel.buffer) = Capacity
    BY NothingThere DEF AwaitInv, Room
  <1>9. \A c \in IoCallers : call[c].kind = "send" /\ call[c].at = "returned" =>
          \A i \in DOMAIN channel.senders : channel.senders[i] # c
    BY <1>2 DEF AwaitInv, Sending, Waits
  <1>10. Await!ChannelInOrder
    BY <1>6, <1>7, <1>8, <1>9, InIsOutAndLeft DEF Await!ChannelInOrder
  <1> QED
    BY <1>3, <1>4, <1>10 DEF Await!AnswersAreOwn

(* Every operation of coro_io.hpp returns what asio answered to it, not what *)
(* another left in the awaitor; the handle is stored before an answer can    *)
(* come; async_sendfile() sends the bytes that were asked for, each once and *)
(* in order; and a channel hands each value to one receiver, in the order in *)
(* which the values came, whatever its capacity and whoever waits.           *)
THEOREM AnswersAreAlwaysOwn == MCSpec => []AnswersAreOwn
  <1>1. MCInit => AwaitInv
    BY AwaitRuns, AwaitStarts
  <1>2. AwaitInv /\ [MCNext]_<<component, vars, appVars>> => AwaitInv'
    BY AwaitRuns, AwaitStep
  <1>3. AwaitInv => AnswersAreOwn
    BY AnswersFollow DEF AnswersAreOwn
  <1> QED
    BY <1>1, <1>2, <1>3, PTL DEF MCSpec
=============================================================================
