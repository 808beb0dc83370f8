-------------------------- MODULE FileStore_proofs --------------------------
(***************************************************************************)
(* Theorems about FileStore, for any number of handlers, any two files and *)
(* any line numbers: a change that meets no other does what it says, and   *)
(* what a reader reads is one version of the file.                         *)
(***************************************************************************)
EXTENDS FileStore, SequenceTheorems, TLAPS

(* Lines a file can come to hold, and what a directory can hold.           *)
Lines == STRING \cup Handlers
Files == Seq(Lines) \cup {Absent}

Server == disk["server"]
Client == disk["client"]

Typed ==
    /\ TypeOK
    /\ disk \in [Places -> Files]
    /\ buf \in [Handlers -> Seq(Lines)]
    /\ before \in [Handlers -> Files]
    /\ met \subseteq Handlers

(* What a handler has where it is: the lock of its stream, the file it has *)
(* opened, and nothing read yet before it reads.                           *)
Holds(h) ==
    /\ pc[h] = "lock" => req[h].op \in {"readF", "download", "writeT", "upload"}
    /\ pc[h] = "read" => \/ req[h].op \in {"readF", "download"} /\ h \in shared
                         \/ req[h].op = "writeT" /\ h \in exclusive
    /\ pc[h] = "copy" => req[h].op = "upload" /\ h \in exclusive
    /\ pc[h] \in {"lock", "read", "copy", "rewrite", "flush"} => Server # Absent
    /\ pc[h] = "create" /\ req[h].op = "download" => Server # Absent
    /\ pc[h] \in {"check", "create", "lock", "copy"} /\ req[h].op = "upload" => Client # Absent
    /\ pc[h] \in {"lock", "read", "flush"} /\ req[h].op = "download" => Client # Absent
    /\ pc[h] \in {"idle", "check", "create", "lock", "copy", "tar"} => buf[h] = <<>>

(* An exclusive lock is the only lock.                                     *)
LocksExclude == \A h \in exclusive : exclusive = {h} /\ shared = {}

(* Where a handler changes the file, and two that do know of each other.   *)
Changing(h) == Active(h) /\ Changes(h)
Noticed == \A g, h \in Handlers : Changing(g) /\ Changing(h) /\ g # h => g \in met /\ h \in met

(* A handler alone with the file finds it as it was, or as it has left it  *)
(* itself, and has in its buffer what belongs there.                       *)
AloneWriting(h) ==
    /\ pc[h] = "create" => before[h] = Absent /\ Server = Absent
    /\ pc[h] \in {"lock", "read", "rewrite"} => before[h] = Server
    /\ pc[h] = "read" => buf[h] \in {<<>>, Server}
    /\ pc[h] = "flush" => before[h] # Absent /\ Server = <<>>
    /\ pc[h] \in {"rewrite", "flush"} => buf[h] = Edited(before[h], req[h].line, Text(h))
    /\ pc[h] \in {"create", "lock", "read", "rewrite", "flush"}

AloneUploading(h) ==
    /\ pc[h] = "check" => before[h] = Server
    /\ pc[h] = "create" => before[h] = Absent /\ Server = Absent
    /\ pc[h] \in {"lock", "copy", "flush"} => before[h] = Absent /\ Server = <<>>
    /\ pc[h] \in {"check", "create", "lock", "copy", "flush"}

Alone(h) == Changing(h) /\ h \notin met =>
               \/ req[h].op = "writeT" /\ AloneWriting(h)
               \/ req[h].op = "upload" /\ AloneUploading(h)

(* Lines b read so far go with a file that now holds d: there is nothing   *)
(* to read on, or reading on gives d.                                      *)
Agree(b, d) == Len(d) <= Len(b) \/ Over(b, d) = d

(* Who reads has lines that go with the file, and with what is about to be *)
(* written to it.                                                          *)
Reads(h) == pc[h] = "read" =>
               /\ Agree(buf[h], Server)
               /\ \A g \in Handlers : Changes(g) /\ pc[g] \in {"rewrite", "flush"} =>
                                         Agree(buf[h], buf[g])

IInv == /\ Typed /\ LocksExclude /\ Noticed
        /\ \A h \in Handlers : Holds(h) /\ Alone(h)
        /\ met = {} => \A h \in Handlers : Reads(h)
-----------------------------------------------------------------------------
(* Lines: what flushing, reading on and editing make.                      *)

(* Writing over a file gives a file.                                       *)
LEMMA OverIsSeq ==
    ASSUME NEW new \in Seq(Lines), NEW old \in Seq(Lines)
    PROVE  Over(new, old) \in Seq(Lines)
<1> DEFINE rest == SubSeq(old, Len(new) + 1, Len(old))
<1>1. Len(new) \in Nat /\ Len(old) \in Nat
  BY LenProperties
<1>2. \A i \in (Len(new) + 1)..Len(old) : old[i] \in Lines
  <2> SUFFICES ASSUME NEW i \in (Len(new) + 1)..Len(old) PROVE old[i] \in Lines
    OBVIOUS
  <2>1. i \in 1..Len(old)
    BY <1>1
  <2> QED
    BY <2>1, ElementOfSeq
<1>3. rest \in Seq(Lines)
  BY <1>1, <1>2, SubSeqProperties
<1> QED
  BY <1>3, ConcatProperties DEF Over

(* Written over nothing, lines are the file.                               *)
LEMMA OverNothing ==
    ASSUME NEW d \in Seq(Lines) PROVE Over(d, <<>>) = d
<1>1. Len(d) \in Nat /\ Len(<<>>) = 0
  BY LenProperties
<1>2. SubSeq(<<>>, Len(d) + 1, Len(<<>>)) = <<>>
  BY <1>1, SubSeqEmpty
<1> QED
  BY <1>2, ConcatEmptySeq DEF Over

(* Who has read nothing reads the whole file.                              *)
LEMMA NothingOver ==
    ASSUME NEW d \in Seq(Lines) PROVE Over(<<>>, d) = d
<1>1. Len(d) \in Nat /\ Len(<<>>) = 0 /\ Len(<<>>) + 1 = 1
  BY LenProperties
<1>2. SubSeq(d, 1, Len(d)) = d
  BY SubSeqFull
<1> QED
  BY <1>1, <1>2, ConcatEmptySeq DEF Over

(* A file edited is a file, and the edit is the one asked for.             *)
LEMMA EditIsRight ==
    ASSUME NEW d \in Seq(Lines), NEW n \in Nat, NEW text \in Lines
    PROVE  /\ Edited(d, n, text) \in Seq(Lines)
           /\ IsEditOf(Edited(d, n, text), d, n, text)
<1>1. CASE HasLine(d, n)
  <2> DEFINE e == [d EXCEPT ![n] = text]
  <2>1. n \in 1..Len(d) /\ Edited(d, n, text) = e
    BY <1>1 DEF HasLine, Edited
  <2>2. e \in Seq(Lines) /\ Len(e) = Len(d) /\ \A i \in 1..Len(d) : e[i] = IF i = n THEN text ELSE d[i]
    BY <2>1, ExceptSeq
  <2> HIDE DEF e
  <2> QED
    BY <2>1, <2>2 DEF IsEditOf
<1>2. CASE ~HasLine(d, n)
  BY <1>2, AppendProperties DEF HasLine, Edited, IsEditOf
<1> QED
  BY <1>1, <1>2

(* Who has read the file before an edit has nothing more to read after it, *)
(* or reads the line added.                                                *)
LEMMA EditAgrees ==
    ASSUME NEW d \in Seq(Lines), NEW n \in Nat, NEW text \in Lines
    PROVE  Agree(d, Edited(d, n, text))
<1>1. CASE HasLine(d, n)
  <2>1. n \in 1..Len(d) /\ Edited(d, n, text) = [d EXCEPT ![n] = text] /\ Len(d) \in Nat
    BY <1>1, LenProperties DEF HasLine, Edited
  <2>2. Len([d EXCEPT ![n] = text]) = Len(d)
    BY <2>1, ExceptSeq
  <2> QED
    BY <2>1, <2>2 DEF Agree
<1>2. CASE ~HasLine(d, n)
  <2> DEFINE e == Append(d, text)
             l == Len(d) + 1
  <2>1. Edited(d, n, text) = e
    BY <1>2 DEF Edited
  <2>2. e \in Seq(Lines) /\ Len(e) = l /\ e[l] = text /\ Len(d) \in Nat
    BY AppendProperties, LenProperties
  <2>3. SubSeq(e, l, l) = <<text>>
    <3>1. \A i \in l..l : e[i] \in Lines
      BY <2>2
    <3>2. SubSeq(e, l, l) \in Seq(Lines) /\ Len(SubSeq(e, l, l)) = 1
      BY <2>2, <3>1, SubSeqProperties
    <3>3. SubSeq(e, l, l)[1] = e[l]
      <4>1. \A i \in 1..(l - l + 1) : SubSeq(e, l, l)[i] = e[l + i - 1]
        BY <2>2, <3>1, SubSeqProperties
      <4> QED
        BY <2>2, <4>1
    <3> HIDE DEF e, l
    <3>4. <<text>> \in Seq(Lines) /\ Len(<<text>>) = 1 /\ <<text>>[1] = text
      OBVIOUS
    <3>5. \A i \in 1..1 : SubSeq(e, l, l)[i] = <<text>>[i]
      BY <2>2, <3>3, <3>4
    <3> QED
      BY <3>2, <3>4, <3>5, SeqEqual
  <2>4. Over(d, e) = d \o <<text>>
    BY <2>2, <2>3 DEF Over
  <2> QED
    BY <2>1, <2>4, AppendIsConcat DEF Agree
<1> QED
  BY <1>1, <1>2

(* Who has read nothing, or just this, reads one version.                  *)
LEMMA FreshAgrees ==
    ASSUME NEW d \in Seq(Lines)
    PROVE  Agree(<<>>, d) /\ Agree(d, d) /\ Agree(d, <<>>)
  BY NothingOver, LenProperties DEF Agree
-----------------------------------------------------------------------------
(* Who acts, acts for itself: what the others have stays theirs.           *)

Own(h) ==
    /\ \A g \in Handlers : g # h => pc'[g] = pc[g] /\ buf'[g] = buf[g] /\ before'[g] = before[g]
    /\ req' = req /\ met \subseteq met'
    /\ \A g \in Handlers : g # h => /\ g \in shared' <=> g \in shared
                                    /\ g \in exclusive' <=> g \in exclusive

(* What a step may do to the two files: nothing, or make one of them a     *)
(* sequence of lines.                                                      *)
FilesKept ==
    /\ disk' \in [Places -> Files]
    /\ Server # Absent => Server' # Absent
    /\ Client # Absent => Client' # Absent

(* Putting lines in one place leaves the other alone.                      *)
LEMMA PutLines ==
    ASSUME Typed, NEW place \in Places, NEW d \in Seq(Lines), disk' = [disk EXCEPT ![place] = d]
    PROVE  /\ FilesKept
           /\ place = "server" => Server' = d /\ Client' = Client
           /\ place = "client" => Client' = d /\ Server' = Server
<1>1. disk \in [Places -> Files] /\ "server" \in Places /\ "client" \in Places
  BY DEF Typed, Places
<1>2. d \in Files /\ d # Absent
  BY AbsentAssumption DEF Files, Lines
<1> QED
  BY <1>1, <1>2 DEF FilesKept, Server, Client

(* A step that leaves the disk alone leaves both files as they are.        *)
LEMMA SameFiles == Typed /\ UNCHANGED disk => FilesKept /\ Server' = Server /\ Client' = Client
  BY DEF Typed, FilesKept, Server, Client

(* What is on the disk and in the buffers is lines, and what is asked for  *)
(* is a request.                                                           *)
LEMMA FilesAreLines ==
    ASSUME Typed
    PROVE  /\ Server # Absent => Server \in Seq(Lines)
           /\ Client # Absent => Client \in Seq(Lines)
           /\ Server \in Files
           /\ \A h \in Handlers : /\ buf[h] \in Seq(Lines) /\ Text(h) \in Lines
                                  /\ req[h] \in Requests /\ req[h].line \in Nat /\ req[h].op \in Ops
           /\ <<>> \in Seq(Lines)
<1>1. disk["server"] \in Files /\ disk["client"] \in Files
  BY DEF Typed, Places
<1>2. \A h \in Handlers : req[h] \in Requests
  BY DEF Typed, TypeOK
<1>3. \A r \in Requests : r.line \in Nat /\ r.op \in Ops
  BY LinesAssumption DEF Requests, Ops
<1> QED
  BY <1>1, <1>2, <1>3 DEF Typed, Files, Lines, Server, Client, Text

(* Every step of a handler is its own.                                     *)
LEMMA StepIsOwn ==
    ASSUME Typed, NEW h \in Handlers, Step(h) PROVE Own(h)
<1> USE DEF Typed, TypeOK, Goto, Unlock, history, lockVars
<1>1. CASE ReadFStep(h)
  BY <1>1 DEF Own, ReadFStep, ReadOpens, LockShared, ReadMore, ReadEnds, Begins
<1>2. CASE WriteTStep(h)
  BY <1>2 DEF Own, WriteTStep, WriteOpens, WriteCreates, LockExclusive, CloseRead, WriteTruncates,
              WriteFlushes, Begins
<1>3. CASE UploadStep(h)
  BY <1>3 DEF Own, UploadStep, UploadOpens, UploadChecks, UploadCreates, UploadCopies,
              UploadFlushes, Begins
<1>4. CASE DownloadStep(h)
  BY <1>4 DEF Own, DownloadStep, DownloadOpens, DownloadChecks, DownloadCreates, DownloadCopies,
              DownloadFlushes, Begins
<1>5. CASE List(h) \/ ArchiveForks(h) \/ TarReads(h)
  BY <1>5 DEF Own, List, ArchiveForks, TarReads, Begins
<1> QED
  BY <1>1, <1>2, <1>3, <1>4, <1>5 DEF Step

(* What a step writes is lines; what it keeps in its buffer is lines.      *)
LEMMA StepFiles ==
    ASSUME Typed, NEW h \in Handlers, Holds(h), Step(h)
    PROVE  FilesKept /\ buf' \in [Handlers -> Seq(Lines)]
<1>1. buf \in [Handlers -> Seq(Lines)] /\ buf[h] \in Seq(Lines) /\ <<>> \in Seq(Lines)
      /\ "server" \in Places /\ "client" \in Places
  BY FilesAreLines DEF Typed, Places
<1>2. ASSUME UNCHANGED <<disk, buf>> PROVE FilesKept /\ buf' \in [Handlers -> Seq(Lines)]
  BY <1>1, <1>2, SameFiles
<1>3. ASSUME NEW place \in Places, Truncate(place), UNCHANGED buf
      PROVE  FilesKept /\ buf' \in [Handlers -> Seq(Lines)]
  BY <1>1, <1>3, PutLines DEF Truncate
<1>4. CASE ReadMore(h)
  <2>1. Server \in Seq(Lines)
    BY <1>4, FilesAreLines DEF ReadMore, Holds
  <2>2. Over(buf[h], Server) \in Seq(Lines)
    BY <1>1, <2>1, OverIsSeq
  <2>3. disk' = disk /\ buf' = [buf EXCEPT ![h] = Over(@, Server)]
    BY <1>4 DEF ReadMore, Server
  <2> QED
    BY <1>1, <2>2, <2>3, SameFiles
<1>5. CASE CloseRead(h)
  <2>1. Edited(buf[h], req[h].line, Text(h)) \in Seq(Lines)
    BY <1>1, FilesAreLines, EditIsRight
  <2>2. disk' = disk /\ buf' = [buf EXCEPT ![h] = Edited(@, req[h].line, Text(h))]
    BY <1>5 DEF CloseRead
  <2> QED
    BY <1>1, <2>1, <2>2, SameFiles
<1>6. ASSUME Flush("server", buf[h]), pc[h] = "flush", UNCHANGED buf
      PROVE  FilesKept /\ buf' \in [Handlers -> Seq(Lines)]
  <2>1. Server \in Seq(Lines)
    BY <1>6, FilesAreLines DEF Holds
  <2>2. Over(buf[h], Server) \in Seq(Lines)
    BY <1>1, <2>1, OverIsSeq
  <2>3. disk' = [disk EXCEPT !["server"] = Over(buf[h], Server)]
    BY <1>6 DEF Flush, Server
  <2> QED
    BY <1>1, <1>6, <2>2, <2>3, PutLines
<1>7. CASE UploadCopies(h)
  <2>1. Client \in Seq(Lines)
    BY <1>7, FilesAreLines DEF UploadCopies, Is, Holds
  <2>2. disk' = disk /\ buf' = [buf EXCEPT ![h] = Client]
    BY <1>7 DEF UploadCopies, Client
  <2> QED
    BY <1>1, <2>1, <2>2, SameFiles
<1>8. CASE DownloadFlushes(h)
  <2>1. Client \in Seq(Lines)
    BY <1>8, FilesAreLines DEF DownloadFlushes, Is, Holds
  <2>2. Over(buf[h], Client) \in Seq(Lines)
    BY <1>1, <2>1, OverIsSeq
  <2>3. disk' = [disk EXCEPT !["client"] = Over(buf[h], Client)] /\ buf' = buf
    BY <1>8 DEF DownloadFlushes, Flush, Client
  <2> QED
    BY <1>1, <2>2, <2>3, PutLines
<1>9. CASE TarReads(h)
  <2>1. /\ disk' = disk
        /\ \/ buf' = buf
           \/ Server # Absent /\ buf' = [buf EXCEPT ![h] = Server]
    BY <1>1, <1>9 DEF TarReads, Server
  <2>2. Server # Absent => Server \in Seq(Lines)
    BY FilesAreLines
  <2> QED
    BY <1>1, <2>1, <2>2, SameFiles
<1>10. CASE WriteCreates(h) \/ WriteTruncates(h) \/ UploadCreates(h)
  BY <1>1, <1>3, <1>10 DEF WriteCreates, WriteTruncates, UploadCreates
<1>11. CASE DownloadCreates(h)
  BY <1>1, <1>3, <1>11 DEF DownloadCreates
<1>12. CASE WriteFlushes(h) \/ UploadFlushes(h)
  BY <1>6, <1>12 DEF WriteFlushes, UploadFlushes, Is
<1>13. CASE \/ ReadOpens(h) \/ LockShared(h) \/ ReadEnds(h) \/ WriteOpens(h) \/ LockExclusive(h)
            \/ UploadOpens(h) \/ UploadChecks(h) \/ DownloadOpens(h) \/ DownloadChecks(h)
            \/ DownloadCopies(h) \/ List(h) \/ ArchiveForks(h)
  BY <1>2, <1>13 DEF ReadOpens, LockShared, ReadEnds, WriteOpens, LockExclusive, UploadOpens,
                     UploadChecks, DownloadOpens, DownloadChecks, DownloadCopies, List, ArchiveForks
<1> QED
  BY <1>4, <1>5, <1>7, <1>8, <1>9, <1>10, <1>11, <1>12, <1>13
     DEF Step, ReadFStep, WriteTStep, UploadStep, DownloadStep

(* Where a handler goes, and that it gives its lock up when it leaves the  *)
(* section the lock is for.                                                *)
LEMMA StepTyped ==
    ASSUME Typed, NEW h \in Handlers, Holds(h), Step(h) PROVE Typed'
<1> USE DEF Typed, TypeOK
<1>1. disk' \in [Places -> Files] /\ buf' \in [Handlers -> Seq(Lines)]
  BY StepFiles DEF FilesKept
<1>2. req' \in [Handlers -> Requests]
  BY StepIsOwn DEF Own
<1>3. before' \in [Handlers -> Files] /\ met' \subseteq Handlers
  <2>1. ASSUME NEW op, Begins(h, op) PROVE before' \in [Handlers -> Files] /\ met' \subseteq Handlers
    <3>1. disk["server"] \in Files
      BY FilesAreLines DEF Server
    <3> QED
      BY <2>1, <3>1 DEF Begins
  <2>2. ASSUME UNCHANGED history PROVE before' \in [Handlers -> Files] /\ met' \subseteq Handlers
    BY <2>2 DEF history
  <2> QED
    BY <2>1, <2>2 DEF Step, ReadFStep, WriteTStep, UploadStep, DownloadStep, ReadOpens, LockShared,
       ReadMore, ReadEnds, WriteOpens, WriteCreates, LockExclusive, CloseRead, WriteTruncates,
       WriteFlushes, UploadOpens, UploadChecks, UploadCreates, UploadCopies, UploadFlushes,
       DownloadOpens, DownloadChecks, DownloadCreates, DownloadCopies, DownloadFlushes, List,
       ArchiveForks, TarReads
<1> DEFINE Sections == /\ pc' \in [Handlers -> {"idle", "lock", "read", "create", "check", "copy",
                                               "rewrite", "flush", "tar", "done"}]
                       /\ shared' \subseteq Handlers /\ exclusive' \subseteq Handlers
                       /\ \A g \in shared' \cup exclusive' : pc'[g] \in {"read", "copy"}
<1>4. ASSUME ReadFStep(h) PROVE Sections
  BY <1>4 DEF ReadFStep, ReadOpens, LockShared, ReadMore, ReadEnds, Begins, Is, Goto, Unlock, lockVars
<1>5. ASSUME WriteTStep(h) PROVE Sections
  BY <1>5 DEF WriteTStep, WriteOpens, WriteCreates, LockExclusive, CloseRead, WriteTruncates,
              WriteFlushes, Begins, Is, Goto, Unlock, lockVars
<1>6. ASSUME UploadStep(h) PROVE Sections
  BY <1>6 DEF UploadStep, UploadOpens, UploadChecks, UploadCreates, UploadCopies,
              UploadFlushes, Begins, Is, Goto, Unlock, lockVars
<1>7. ASSUME DownloadStep(h) PROVE Sections
  BY <1>7 DEF DownloadStep, DownloadOpens, DownloadChecks, DownloadCreates, DownloadCopies,
              DownloadFlushes, Begins, Is, Goto, Unlock, lockVars
<1>8. ASSUME List(h) \/ ArchiveForks(h) \/ TarReads(h) PROVE Sections
  BY <1>8 DEF List, ArchiveForks, TarReads, Begins, Is, Goto, lockVars
<1> QED
  BY <1>1, <1>2, <1>3, <1>4, <1>5, <1>6, <1>7, <1>8 DEF Step
-----------------------------------------------------------------------------
(* Locks, and what a handler has where it is.                              *)

(* flock gives an exclusive lock only when there is no other, and no other *)
(* while there is an exclusive one.                                        *)
LEMMA LocksStep ==
    ASSUME Typed, LocksExclude, NEW h \in Handlers, Step(h) PROVE LocksExclude'
<1>1. \/ UNCHANGED <<shared, exclusive>>
      \/ exclusive = {} /\ shared' = shared \cup {h} /\ exclusive' = exclusive
      \/ exclusive = {} /\ shared = {} /\ exclusive' = exclusive \cup {h} /\ shared' = shared
      \/ Unlock(h)
  BY DEF Step, ReadFStep, WriteTStep, UploadStep, DownloadStep, ReadOpens, LockShared,
         ReadMore, ReadEnds, WriteOpens, WriteCreates, LockExclusive, CloseRead, WriteTruncates,
         WriteFlushes, UploadOpens, UploadChecks, UploadCreates, UploadCopies, UploadFlushes,
         DownloadOpens, DownloadChecks, DownloadCreates, DownloadCopies, DownloadFlushes, List,
         ArchiveForks, TarReads, MayShare, MayExclude, lockVars
<1> QED
  BY <1>1 DEF LocksExclude, Unlock

(* Another handler's step takes nothing away.                              *)
LEMMA HoldsKept ==
    ASSUME NEW h \in Handlers, NEW g \in Handlers, g # h, Holds(g), Own(h), FilesKept
    PROVE  Holds(g)'
  BY DEF Holds, Own, FilesKept

(* Its own leaves it with what belongs to the place it comes to.           *)
LEMMA HoldsStep ==
    ASSUME Typed, NEW h \in Handlers, Holds(h), Step(h) PROVE Holds(h)'
<1> USE DEF Goto
<1>1. /\ FilesKept /\ req' = req
      /\ \A s : [pc EXCEPT ![h] = s][h] = s
      /\ \A b : [buf EXCEPT ![h] = b][h] = b
  BY StepFiles, StepIsOwn DEF Own, Typed, TypeOK
<1>2. ASSUME NEW op, Begins(h, op) PROVE pc[h] = "idle" /\ req[h].op = op /\ buf[h] = <<>>
  BY <1>2 DEF Begins, Is, Holds
<1>3. ASSUME pc'[h] = "done" PROVE Holds(h)'
  BY <1>3 DEF Holds
<1>4. CASE ReadOpens(h)
  BY <1>1, <1>2, <1>4 DEF ReadOpens, Holds, FilesKept, Server
<1>5. CASE LockShared(h)
  BY <1>1, <1>5 DEF LockShared, Holds, FilesKept
<1>6. CASE ReadMore(h)
  BY <1>1, <1>6 DEF ReadMore, Holds, FilesKept, lockVars
<1>7. CASE WriteOpens(h)
  BY <1>1, <1>2, <1>7 DEF WriteOpens, Holds, FilesKept, Server
<1>8. CASE LockExclusive(h)
  BY <1>1, <1>8 DEF LockExclusive, Holds, FilesKept
<1>9. CASE CloseRead(h)
  BY <1>1, <1>9 DEF CloseRead, Is, Holds, FilesKept
<1>10. CASE WriteTruncates(h)
  BY <1>1, <1>10 DEF WriteTruncates, Is, Holds, FilesKept
<1>11. CASE UploadOpens(h)
  BY <1>1, <1>2, <1>11 DEF UploadOpens, Holds, FilesKept, Client
<1>12. CASE UploadChecks(h)
  BY <1>1, <1>12 DEF UploadChecks, Is, Holds, FilesKept
<1>13. CASE UploadCreates(h)
  <2>1. Server' # Absent /\ Client' # Absent
    <3>1. <<>> \in Seq(Lines) /\ <<>> # Absent /\ "server" \in Places
      BY FilesAreLines, AbsentAssumption DEF Lines, Places
    <3>2. Server' = <<>>
      BY <1>13, <3>1, PutLines DEF UploadCreates, Truncate
    <3> QED
      BY <1>1, <1>13, <3>1, <3>2 DEF UploadCreates, Is, Holds, FilesKept
  <2> QED
    BY <1>1, <1>13, <2>1 DEF UploadCreates, Is, Holds
<1>14. CASE UploadCopies(h)
  BY <1>1, <1>14 DEF UploadCopies, Is, Holds, FilesKept
<1>15. CASE DownloadOpens(h)
  BY <1>1, <1>2, <1>15 DEF DownloadOpens, Holds, FilesKept
<1>16. CASE DownloadChecks(h)
  <2>1. /\ pc[h] = "check" /\ req[h].op = "download" /\ UNCHANGED <<disk, buf>>
        /\ pc'[h] = "done" \/ (pc'[h] = "create" /\ Server # Absent)
    BY <1>1, <1>16 DEF DownloadChecks, Is, Server
  <2> QED
    BY <1>1, <2>1 DEF Holds, FilesKept
<1>17. CASE DownloadCreates(h)
  <2>1. Client' # Absent
    <3>1. <<>> \in Seq(Lines) /\ <<>> # Absent /\ "client" \in Places
      BY FilesAreLines, AbsentAssumption DEF Lines, Places
    <3> QED
      BY <1>17, <3>1, PutLines DEF DownloadCreates, Truncate
  <2>2. pc[h] = "create" /\ req[h].op = "download" /\ pc' = [pc EXCEPT ![h] = "lock"] /\ buf' = buf
    BY <1>17 DEF DownloadCreates, Is
  <2> QED
    BY <1>1, <2>1, <2>2 DEF Holds, FilesKept
<1>18. CASE DownloadCopies(h)
  BY <1>1, <1>18 DEF DownloadCopies, Is, Holds, FilesKept
<1>19. CASE ArchiveForks(h)
  BY <1>1, <1>2, <1>19 DEF ArchiveForks, Holds, FilesKept
<1>20. CASE \/ ReadEnds(h) \/ WriteCreates(h) \/ WriteFlushes(h) \/ UploadFlushes(h)
            \/ DownloadFlushes(h) \/ List(h) \/ TarReads(h)
  BY <1>1, <1>3, <1>20 DEF ReadEnds, WriteCreates, WriteFlushes, UploadFlushes, DownloadFlushes,
                           List, TarReads
<1> QED
  BY <1>4, <1>5, <1>6, <1>7, <1>8, <1>9, <1>10, <1>11, <1>12, <1>13, <1>14, <1>15, <1>16, <1>17,
     <1>18, <1>19, <1>20 DEF Step, ReadFStep, WriteTStep, UploadStep, DownloadStep
-----------------------------------------------------------------------------
(* Changing requests that overlap, and those that do not.                  *)

(* Every step is the first of its request or one of a request under way.   *)
LEMMA FirstOrNot ==
    ASSUME NEW h \in Handlers, Step(h)
    PROVE  (\E op : Begins(h, op)) \/ (Active(h) /\ UNCHANGED history)
<1>1. CASE \/ ReadOpens(h) \/ WriteOpens(h) \/ UploadOpens(h) \/ DownloadOpens(h)
           \/ List(h) \/ ArchiveForks(h)
  BY <1>1 DEF ReadOpens, WriteOpens, UploadOpens, DownloadOpens, List, ArchiveForks
<1>2. CASE LockShared(h) \/ ReadMore(h) \/ ReadEnds(h) \/ WriteCreates(h) \/ LockExclusive(h)
  BY <1>2 DEF LockShared, ReadMore, ReadEnds, WriteCreates, LockExclusive, Is, Active
<1>3. CASE CloseRead(h) \/ WriteTruncates(h) \/ WriteFlushes(h) \/ UploadChecks(h)
  BY <1>3 DEF CloseRead, WriteTruncates, WriteFlushes, UploadChecks, Is, Active
<1>4. CASE UploadCreates(h) \/ UploadCopies(h) \/ UploadFlushes(h)
  BY <1>4 DEF UploadCreates, UploadCopies, UploadFlushes, Is, Active
<1>5. CASE \/ DownloadChecks(h) \/ DownloadCreates(h) \/ DownloadCopies(h) \/ DownloadFlushes(h)
           \/ TarReads(h)
  BY <1>5 DEF DownloadChecks, DownloadCreates, DownloadCopies, DownloadFlushes, TarReads, Is, Active
<1> QED
  BY <1>1, <1>2, <1>3, <1>4, <1>5 DEF Step, ReadFStep, WriteTStep, UploadStep, DownloadStep

(* Only a changing request changes the server's file.                      *)
LEMMA WhoChanges ==
    ASSUME Typed, NEW h \in Handlers, Step(h), Server' # Server PROVE Changing(h)
<1>1. \A d : [disk EXCEPT !["client"] = d]["server"] = Server
  BY DEF Typed, Places, Server
<1>2. CASE \/ WriteCreates(h) \/ WriteTruncates(h) \/ WriteFlushes(h)
           \/ UploadCreates(h) \/ UploadFlushes(h)
  BY <1>2 DEF WriteCreates, WriteTruncates, WriteFlushes, UploadCreates, UploadFlushes, Is,
              Changing, Changes, Active
<1>3. CASE DownloadCreates(h) \/ DownloadFlushes(h)
  <2>1. PICK d : disk' = [disk EXCEPT !["client"] = d]
    BY <1>3 DEF DownloadCreates, DownloadFlushes, Truncate, Flush
  <2>2. [disk EXCEPT !["client"] = d]["server"] = Server
    BY <1>1
  <2> QED
    BY <2>1, <2>2 DEF Server
<1>4. CASE UNCHANGED disk
  BY <1>4 DEF Server
<1> QED
  BY <1>2, <1>3, <1>4
     DEF Step, ReadFStep, WriteTStep, UploadStep, DownloadStep, ReadOpens, LockShared,
         ReadMore, ReadEnds, WriteOpens, LockExclusive, CloseRead, UploadOpens, UploadChecks,
         UploadCopies, DownloadOpens, DownloadChecks, DownloadCopies, List, ArchiveForks, TarReads

(* A request that begins while another is under way is noticed with it.    *)
LEMMA NoticedStep ==
    ASSUME Typed, Noticed, NEW h \in Handlers, Step(h) PROVE Noticed'
<1>1. Own(h)
  BY StepIsOwn
<1>2. \A g \in Handlers : g # h => (Changing(g)' <=> Changing(g))
  BY <1>1 DEF Own, Changing, Active, Changes
<1>3. \A g \in Handlers : g # h /\ Changing(g) /\ Changing(h)' => g \in met' /\ h \in met'
  <2> SUFFICES ASSUME NEW g \in Handlers, g # h, Changing(g), Changing(h)'
               PROVE  g \in met' /\ h \in met'
    OBVIOUS
  <2>1. Changes(h)
    BY <1>1 DEF Own, Changing, Changes
  <2>2. CASE \E op : Begins(h, op)
    BY <2>1, <2>2 DEF Begins, Changing
  <2>3. CASE Active(h) /\ UNCHANGED history
    BY <2>1, <2>3 DEF Noticed, Changing, history
  <2> QED
    BY <2>2, <2>3, FirstOrNot
<1>4. \A g, k \in Handlers : Changing(g) /\ Changing(k) /\ g # k => g \in met' /\ k \in met'
  BY <1>1 DEF Own, Noticed
<1> QED
  BY <1>2, <1>3, <1>4 DEF Noticed

(* A handler that is alone is left alone.                                  *)
LEMMA AloneKept ==
    ASSUME Typed, Noticed, NEW h \in Handlers, NEW g \in Handlers, g # h, Step(h), Alone(g)
    PROVE  Alone(g)'
<1>1. Own(h)
  BY StepIsOwn
<1>2. SUFFICES ASSUME Changing(g)', g \notin met' PROVE Alone(g)'
  BY DEF Alone
<1>3. Changing(g) /\ g \notin met
  BY <1>1, <1>2 DEF Own, Changing, Active, Changes
<1>4. Server' = Server
  BY <1>3, WhoChanges DEF Noticed
<1>5. UNCHANGED <<pc[g], buf[g], before[g], req>>
  BY <1>1 DEF Own
<1>6. (req[g].op = "writeT" /\ AloneWriting(g)) \/ (req[g].op = "upload" /\ AloneUploading(g))
  BY <1>3 DEF Alone
<1>7. CASE req[g].op = "writeT" /\ AloneWriting(g)
  BY <1>4, <1>5, <1>7 DEF Alone, AloneWriting, Text
<1>8. CASE req[g].op = "upload" /\ AloneUploading(g)
  BY <1>4, <1>5, <1>8 DEF Alone, AloneUploading
<1> QED
  BY <1>6, <1>7, <1>8

(* Alone, it writes back what it has read, edited, or what it uploads.     *)
LEMMA AloneStep ==
    ASSUME Typed, Noticed, NEW h \in Handlers, Holds(h), Alone(h), Step(h)
    PROVE  Alone(h)'
<1>1. /\ Own(h) /\ FilesKept /\ req' = req
      /\ \A s : [pc EXCEPT ![h] = s][h] = s
      /\ \A b : [buf EXCEPT ![h] = b][h] = b
      /\ \A b : [before EXCEPT ![h] = b][h] = b
  BY StepIsOwn, StepFiles DEF Own, Typed, TypeOK
<1>2. SUFFICES ASSUME Changing(h)', h \notin met' PROVE Alone(h)'
  BY DEF Alone
<1>3. Changes(h) /\ h \notin met /\ pc'[h] \notin {"idle", "done"}
  BY <1>1, <1>2 DEF Own, Changing, Active, Changes
<1>4. req[h].op \in {"writeT", "upload"}
  BY <1>3 DEF Changes
<1>5. /\ Active(h) /\ req[h].op = "writeT" => AloneWriting(h)
      /\ Active(h) /\ req[h].op = "upload" => AloneUploading(h)
  BY <1>3 DEF Alone, Changing
<1>6. <<>> \in Seq(Lines) /\ <<>> # Absent /\ "server" \in Places
  BY FilesAreLines, AbsentAssumption DEF Lines, Places
<1>7. ASSUME NEW op, Begins(h, op) PROVE before'[h] = Server /\ req[h].op = op
  BY <1>1, <1>7 DEF Begins, Is, Server
<1> USE DEF Goto
<1>8. CASE WriteOpens(h)
  <2>1. /\ req[h].op = "writeT" /\ before'[h] = Server /\ Server' = Server
        /\ pc'[h] = IF Server = Absent THEN "create" ELSE "lock"
    BY <1>1, <1>7, <1>8 DEF WriteOpens, Server
  <2>2. AloneWriting(h)'
    BY <2>1 DEF AloneWriting
  <2> QED
    BY <1>1, <2>1, <2>2 DEF Alone
<1>9. CASE LockExclusive(h)
  <2>1. /\ pc[h] = "lock" /\ Active(h) /\ UNCHANGED <<disk, buf, before>>
        /\ pc'[h] = IF req[h].op = "writeT" THEN "read" ELSE "copy"
    BY <1>1, <1>9 DEF LockExclusive, history, Active
  <2>2. buf[h] = <<>>
    BY <2>1 DEF Holds
  <2>3. req[h].op = "writeT" => AloneWriting(h)'
    BY <1>5, <2>1, <2>2 DEF AloneWriting, Server
  <2>4. req[h].op = "upload" => AloneUploading(h)'
    BY <1>5, <2>1 DEF AloneUploading, Server
  <2> QED
    BY <1>1, <1>4, <2>3, <2>4 DEF Alone
<1>10. CASE ReadMore(h)
  <2>1. /\ pc[h] = "read" /\ pc' = pc /\ Active(h) /\ UNCHANGED <<disk, before>>
        /\ buf'[h] = Over(buf[h], Server) /\ Len(Server) > Len(buf[h])
    BY <1>1, <1>10 DEF ReadMore, More, history, Active, Server
  <2>2. req[h].op = "writeT" /\ Server \in Seq(Lines)
    BY <1>4, <2>1, FilesAreLines DEF Holds
  <2>3. buf[h] \in {<<>>, Server}
    BY <1>5, <2>1, <2>2 DEF AloneWriting
  <2>4. buf'[h] = Server
    BY <2>1, <2>2, <2>3, NothingOver, LenProperties
  <2>5. AloneWriting(h)'
    BY <1>5, <2>1, <2>2, <2>4 DEF AloneWriting, Server
  <2> QED
    BY <1>1, <2>2, <2>5 DEF Alone
<1>11. CASE CloseRead(h)
  <2>1. /\ pc[h] = "read" /\ pc'[h] = "rewrite" /\ Active(h) /\ UNCHANGED <<disk, before>>
        /\ req[h].op = "writeT" /\ ~More(h)
        /\ buf'[h] = Edited(buf[h], req[h].line, Text(h))
    BY <1>1, <1>11 DEF CloseRead, Is, history, Active
  <2>2. before[h] = Server /\ buf[h] \in {<<>>, Server} /\ Server \in Seq(Lines)
    BY <1>5, <2>1, FilesAreLines DEF AloneWriting, Holds
  <2>3. buf[h] = Server
    <3>1. CASE buf[h] = <<>>
      <4>1. ~(Len(Server) > 0) /\ Len(Server) \in Nat
        BY <2>1, <2>2, <3>1, LenProperties DEF More, Enough, Server
      <4> QED
        BY <2>2, <3>1, <4>1, EmptySeq
    <3> QED
      BY <2>2, <3>1
  <2>4. AloneWriting(h)'
    BY <1>1, <2>1, <2>2, <2>3 DEF AloneWriting, Server, Text
  <2> QED
    BY <1>1, <2>1, <2>4 DEF Alone
<1>12. CASE WriteTruncates(h)
  <2>1. /\ pc[h] = "rewrite" /\ pc'[h] = "flush" /\ Active(h) /\ UNCHANGED <<buf, before>>
        /\ req[h].op = "writeT" /\ disk' = [disk EXCEPT !["server"] = <<>>]
    BY <1>1, <1>12 DEF WriteTruncates, Truncate, Is, history, Active
  <2>2. Server' = <<>>
    BY <1>6, <2>1, PutLines
  <2>3. before[h] # Absent /\ buf[h] = Edited(before[h], req[h].line, Text(h))
    BY <1>5, <2>1 DEF AloneWriting, Holds
  <2>4. AloneWriting(h)'
    BY <1>1, <2>1, <2>2, <2>3 DEF AloneWriting, Text
  <2> QED
    BY <1>1, <2>1, <2>4 DEF Alone
<1>13. CASE UploadOpens(h)
  <2>1. /\ req[h].op = "upload" /\ before'[h] = Server /\ Server' = Server
        /\ pc'[h] = "check"
    BY <1>1, <1>3, <1>7, <1>13 DEF UploadOpens, Server
  <2>2. AloneUploading(h)'
    BY <2>1 DEF AloneUploading
  <2> QED
    BY <1>1, <2>1, <2>2 DEF Alone
<1>14. CASE UploadChecks(h)
  <2>1. /\ pc[h] = "check" /\ pc'[h] = "create" /\ Active(h) /\ UNCHANGED <<disk, before>>
        /\ req[h].op = "upload" /\ Server = Absent
    BY <1>1, <1>3, <1>14 DEF UploadChecks, NameIsFree, Is, history, Active, Server
  <2>2. AloneUploading(h)'
    BY <1>5, <2>1 DEF AloneUploading, Server
  <2> QED
    BY <1>1, <2>1, <2>2 DEF Alone
<1>15. CASE UploadCreates(h)
  <2>1. /\ pc[h] = "create" /\ pc'[h] = "lock" /\ Active(h) /\ UNCHANGED before
        /\ req[h].op = "upload" /\ disk' = [disk EXCEPT !["server"] = <<>>]
    BY <1>1, <1>15 DEF UploadCreates, Truncate, Is, history, Active
  <2>2. Server' = <<>>
    BY <1>6, <2>1, PutLines
  <2>3. AloneUploading(h)'
    BY <1>5, <2>1, <2>2 DEF AloneUploading
  <2> QED
    BY <1>1, <2>1, <2>3 DEF Alone
<1>16. CASE UploadCopies(h)
  <2>1. /\ pc[h] = "copy" /\ pc'[h] = "flush" /\ Active(h) /\ UNCHANGED <<disk, before>>
        /\ req[h].op = "upload"
    BY <1>1, <1>16 DEF UploadCopies, Is, history, Active
  <2>2. AloneUploading(h)'
    BY <1>5, <2>1 DEF AloneUploading, Server
  <2> QED
    BY <1>1, <2>1, <2>2 DEF Alone
<1>17. CASE \/ WriteCreates(h) \/ WriteFlushes(h) \/ UploadFlushes(h) \/ List(h) \/ TarReads(h)
            \/ ReadEnds(h) \/ DownloadFlushes(h)
  BY <1>1, <1>3, <1>17 DEF WriteCreates, WriteFlushes, UploadFlushes, List, TarReads, ReadEnds,
                           DownloadFlushes
<1>18. CASE \/ ReadOpens(h) \/ LockShared(h) \/ DownloadOpens(h) \/ DownloadChecks(h)
            \/ DownloadCreates(h) \/ DownloadCopies(h) \/ ArchiveForks(h)
  BY <1>4, <1>18 DEF ReadOpens, LockShared, DownloadOpens, DownloadChecks, DownloadCreates,
                     DownloadCopies, ArchiveForks, Begins, Is
<1> QED
  BY <1>8, <1>9, <1>10, <1>11, <1>12, <1>13, <1>14, <1>15, <1>16, <1>17, <1>18
     DEF Step, ReadFStep, WriteTStep, UploadStep, DownloadStep
-----------------------------------------------------------------------------
(* Readers.                                                                *)

(* Reading on gives the file, and the file goes with what a lone writer    *)
(* has in its buffer.                                                      *)
LEMMA ReadsOn ==
    ASSUME Typed, Noticed, \A g \in Handlers : Holds(g) /\ Alone(g), met = {},
           NEW h \in Handlers, Reads(h), ReadMore(h)
    PROVE  buf'[h] = Server /\ Reads(h)'
<1>1. /\ pc[h] = "read" /\ pc' = pc /\ disk' = disk /\ UNCHANGED history
      /\ buf' = [buf EXCEPT ![h] = Over(@, Server)] /\ Len(Server) > Len(buf[h])
  BY DEF ReadMore, More, Server
<1>2. Server \in Seq(Lines) /\ buf[h] \in Seq(Lines)
  BY <1>1, FilesAreLines DEF Holds
<1>3. Len(Server) \in Nat /\ Len(buf[h]) \in Nat
  BY <1>2, LenProperties
<1>4. Over(buf[h], Server) = Server
  BY <1>1, <1>3 DEF Reads, Agree
<1>5. buf'[h] = Server /\ \A g \in Handlers : g # h => buf'[g] = buf[g]
  BY <1>1, <1>4 DEF Typed
<1>6. ASSUME NEW g \in Handlers, Changes(g), pc[g] \in {"rewrite", "flush"}
      PROVE  Agree(Server, buf[g])
  <2>1. Changing(g) /\ g \notin met /\ req[g].op \in {"writeT", "upload"}
    BY <1>6 DEF Changing, Active, Changes
  <2>2. CASE pc[g] = "flush"
    <3>1. Server = <<>>
      BY <2>1, <2>2 DEF Alone, AloneWriting, AloneUploading
    <3> QED
      BY <1>1, <1>3, <3>1
  <2>3. CASE pc[g] = "rewrite"
    <3>1. buf[g] = Edited(Server, req[g].line, Text(g))
      BY <2>1, <2>3 DEF Alone, AloneWriting, AloneUploading
    <3> QED
      BY <1>2, <3>1, FilesAreLines, EditAgrees
  <2> QED
    BY <1>6, <2>2, <2>3
<1>7. Server' = Server /\ req' = req
  BY <1>1 DEF Server, history
<1>8. \A g \in Handlers : Changes(g) /\ pc[g] \in {"rewrite", "flush"} => g # h
  BY <1>1
<1>9. \A g \in Handlers : Changes(g)' <=> Changes(g)
  BY <1>7 DEF Changes
<1>10. Agree(Server, Server)
  BY <1>2, FreshAgrees
<1> QED
  BY <1>1, <1>5, <1>6, <1>7, <1>8, <1>9, <1>10 DEF Reads

(* Whatever anybody does to the file, and whoever takes up writing, what a *)
(* reader has read so far goes with it.                                    *)
LEMMA ReadsStep ==
    ASSUME Typed, LocksExclude, Noticed, \A g \in Handlers : Holds(g) /\ Alone(g),
           met = {}, \A g \in Handlers : Reads(g),
           NEW h \in Handlers, Step(h), NEW r \in Handlers
    PROVE  Reads(r)'
<1>1. /\ Own(h) /\ FilesKept /\ req' = req /\ Typed'
      /\ \A s : [pc EXCEPT ![h] = s][h] = s
      /\ \A b : [buf EXCEPT ![h] = b][h] = b
  BY StepIsOwn, StepFiles, StepTyped DEF Own, Typed, TypeOK
<1>2. \A g \in Handlers : Changes(g)' <=> Changes(g)
  BY <1>1 DEF Changes
<1>3. Holds(r)'
  <2>1. CASE r = h
    BY <2>1, HoldsStep
  <2>2. CASE r # h
    BY <1>1, <2>2, HoldsKept
  <2> QED
    BY <2>1, <2>2
<1>4. CASE ReadMore(h)
  <2>1. CASE r = h
    BY <1>4, <2>1, ReadsOn
  <2>2. CASE r # h
    <3>1. buf'[r] = buf[r] /\ pc' = pc /\ disk' = disk /\ pc[h] = "read"
      BY <1>1, <1>4, <2>2 DEF ReadMore, Own
    <3>2. \A g \in Handlers : g # h => buf'[g] = buf[g]
      BY <1>1 DEF Own
    <3> QED
      BY <1>2, <3>1, <3>2 DEF Reads, Server
  <2> QED
    BY <2>1, <2>2
<1>5. SUFFICES ASSUME ~ReadMore(h), pc'[r] = "read" PROVE Reads(r)'
  BY <1>4 DEF Reads
<1>6. CASE CloseRead(h) \/ UploadCopies(h)
  <2>1. h \in exclusive /\ pc'[h] \in {"rewrite", "flush"} /\ exclusive' = exclusive \ {h}
    BY <1>1, <1>6 DEF CloseRead, UploadCopies, Is, Goto, Unlock, Holds
  <2>2. r # h /\ exclusive = {h} /\ shared = {}
    BY <1>5, <2>1 DEF LocksExclude
  <2>3. pc[r] = "read"
    BY <1>1, <1>5, <2>2 DEF Own
  <2> QED
    BY <2>2, <2>3 DEF Holds
<1>7. CASE LockShared(h) \/ LockExclusive(h)
  <2>1. /\ pc[h] = "lock" /\ UNCHANGED <<disk, buf>>
        /\ pc'[h] \in {"read", "copy"}
    BY <1>1, <1>7 DEF LockShared, LockExclusive, Goto
  <2>2. \A g \in Handlers : pc'[g] \in {"rewrite", "flush"} => pc[g] = pc'[g]
    BY <1>1, <2>1 DEF Own
  <2>3. CASE r = h
    <3>1. buf[r] = <<>>
      BY <2>1, <2>3 DEF Holds
    <3>2. Server \in Seq(Lines)
      BY <2>1, <2>3, FilesAreLines DEF Holds
    <3> QED
      BY <1>2, <2>1, <3>1, <3>2, FilesAreLines, FreshAgrees DEF Reads, Server
  <2>4. CASE r # h
    BY <1>1, <1>2, <1>5, <2>1, <2>2, <2>4 DEF Reads, Server, Own
  <2> QED
    BY <2>3, <2>4
<1>8. CASE WriteTruncates(h) \/ WriteFlushes(h) \/ UploadFlushes(h)
  <2>1. /\ Changing(h) /\ h \notin met /\ pc[h] \in {"rewrite", "flush"} /\ buf' = buf
        /\ pc'[h] \in {"flush", "done"} /\ req[h].op \in {"writeT", "upload"}
    BY <1>1, <1>8 DEF WriteTruncates, WriteFlushes, UploadFlushes, Changing, Active, Changes, Is, Goto
  <2>2. r # h /\ pc[r] = "read" /\ buf'[r] = buf[r]
    BY <1>1, <1>5, <2>1 DEF Own
  <2>3. Agree(buf[r], buf[h]) /\ buf[r] \in Seq(Lines) /\ buf[h] \in Seq(Lines)
    BY <2>1, <2>2, FilesAreLines DEF Reads, Changing
  <2>4. ASSUME NEW g \in Handlers, Changes(g), pc'[g] \in {"rewrite", "flush"}
        PROVE  Agree(buf[r], buf[g])
    <3>1. CASE g = h
      BY <2>3, <3>1
    <3>2. CASE g # h
      <4>1. pc[g] = pc'[g]
        BY <1>1, <3>2 DEF Own
      <4> QED
        BY <2>2, <2>4, <4>1 DEF Reads
    <3> QED
      BY <3>1, <3>2
  <2>5. Server' \in {<<>>, buf[h]}
    <3>1. CASE WriteTruncates(h)
      BY <3>1, PutLines, FilesAreLines DEF WriteTruncates, Truncate, Places
    <3>2. CASE WriteFlushes(h) \/ UploadFlushes(h)
      <4>1. pc[h] = "flush" /\ disk' = [disk EXCEPT !["server"] = Over(buf[h], Server)]
        BY <3>2 DEF WriteFlushes, UploadFlushes, Flush, Is, Server
      <4>2. Server = <<>>
        BY <2>1, <4>1 DEF Alone, AloneWriting, AloneUploading
      <4>3. Over(buf[h], Server) = buf[h]
        BY <2>3, <4>2, OverNothing
      <4> QED
        BY <2>3, <4>1, <4>3, PutLines DEF Places
    <3> QED
      BY <1>8, <3>1, <3>2
  <2>6. Agree(buf[r], Server')
    BY <2>3, <2>5, FreshAgrees
  <2> QED
    BY <1>2, <2>1, <2>4, <2>6 DEF Reads
<1>9. CASE WriteCreates(h) \/ UploadCreates(h)
  <2>1. /\ Changing(h) /\ h \notin met /\ pc[h] = "create"
        /\ pc'[h] \in {"lock", "done"} /\ req[h].op \in {"writeT", "upload"}
    BY <1>1, <1>9 DEF WriteCreates, UploadCreates, Changing, Active, Changes, Is, Goto
  <2>2. Server = Absent
    BY <2>1 DEF Alone, AloneWriting, AloneUploading
  <2>3. pc[r] = "read"
    BY <1>1, <1>5, <2>1 DEF Own
  <2> QED
    BY <2>2, <2>3 DEF Holds
<1>10. ASSUME Server' = Server, pc'[h] \notin {"read", "rewrite"},
              pc'[h] = "flush" => ~Changes(h)
       PROVE  Reads(r)'
  <2>1. r # h /\ pc[r] = "read" /\ buf'[r] = buf[r]
    BY <1>1, <1>5, <1>10 DEF Own
  <2>2. ASSUME NEW g \in Handlers, Changes(g), pc'[g] \in {"rewrite", "flush"}
        PROVE  Agree(buf[r], buf'[g])
    <3>1. g # h /\ pc[g] = pc'[g] /\ buf'[g] = buf[g]
      BY <1>1, <1>10, <2>2 DEF Own
    <3> QED
      BY <2>1, <2>2, <3>1 DEF Reads
  <2> QED
    BY <1>2, <1>10, <2>1, <2>2 DEF Reads
<1>11. CASE DownloadCreates(h) \/ DownloadFlushes(h)
  <2>1. ~Changes(h) /\ pc'[h] \notin {"read", "rewrite"} /\ ~Changing(h)
    BY <1>1, <1>11 DEF DownloadCreates, DownloadFlushes, Changing, Changes, Is, Goto
  <2> QED
    BY <1>10, <2>1, WhoChanges
<1>12. CASE DownloadCopies(h)
  BY <1>1, <1>10, <1>12 DEF DownloadCopies, Changes, Is, Goto, Server
<1>13. CASE \/ ReadOpens(h) \/ ReadEnds(h) \/ WriteOpens(h) \/ UploadOpens(h) \/ UploadChecks(h)
            \/ DownloadOpens(h) \/ DownloadChecks(h) \/ List(h) \/ ArchiveForks(h) \/ TarReads(h)
  <2>1. disk' = disk /\ pc'[h] \notin {"read", "rewrite", "flush"}
    BY <1>1, <1>13 DEF ReadOpens, ReadEnds, WriteOpens, UploadOpens, UploadChecks, DownloadOpens,
                       DownloadChecks, List, ArchiveForks, TarReads, Goto
  <2> QED
    BY <1>10, <2>1 DEF Server
<1> QED
  BY <1>5, <1>6, <1>7, <1>8, <1>9, <1>11, <1>12, <1>13
     DEF Step, ReadFStep, WriteTStep, UploadStep, DownloadStep
-----------------------------------------------------------------------------
(* The invariant, and what it gives.                                       *)

(* Before anybody has begun, nobody holds or changes anything.             *)
LEMMA InitInv == Init => IInv
<1> SUFFICES ASSUME Init PROVE IInv
  OBVIOUS
<1>1. ServerLines \in Files /\ ClientLines \in Files /\ Absent \in Files
  <2>1. \A s \in Seq(STRING) : s \in Seq(Lines)
    <3> SUFFICES ASSUME NEW s \in Seq(STRING) PROVE s \in Seq(Lines)
      OBVIOUS
    <3>1. Len(s) \in Nat /\ s \in [1..Len(s) -> STRING]
      BY LenProperties
    <3>2. s \in [1..Len(s) -> Lines]
      BY <3>1 DEF Lines
    <3> QED
      BY <3>1, <3>2, IsASeq
  <2> QED
    BY <2>1, LinesAssumption DEF Files
<1>2. disk \in [Places -> Files]
  BY <1>1 DEF Init
<1>3. buf \in [Handlers -> Seq(Lines)] /\ before \in [Handlers -> Files]
  <2>1. <<>> \in Seq(Lines)
    OBVIOUS
  <2> QED
    BY <1>1, <2>1 DEF Init
<1>4. \A h \in Handlers : pc[h] = "idle" /\ buf[h] = <<>>
  BY DEF Init
<1>5. Typed
  BY <1>2, <1>3 DEF Init, Typed, TypeOK
<1>6. LocksExclude /\ Noticed
  BY <1>4 DEF Init, LocksExclude, Noticed, Changing, Active
<1>7. \A h \in Handlers : Holds(h) /\ Alone(h) /\ Reads(h)
  BY <1>4 DEF Holds, Alone, Changing, Active, Reads
<1> QED
  BY <1>5, <1>6, <1>7 DEF IInv

(* A step that changes nothing keeps everything.                           *)
LEMMA Stutter == IInv /\ UNCHANGED vars => IInv'
<1> SUFFICES ASSUME IInv, UNCHANGED vars PROVE IInv'
  OBVIOUS
<1>1. UNCHANGED <<disk, shared, exclusive, pc, req, buf, answer, met, before>>
  BY DEF vars, lockVars, history
<1>2. Typed' /\ LocksExclude' /\ Noticed'
  BY <1>1 DEF IInv, Typed, TypeOK, LocksExclude, Noticed, Changing, Active, Changes
<1>3. \A h \in Handlers : Holds(h)' /\ (Reads(h)' <=> Reads(h))
  BY <1>1 DEF IInv, Holds, Reads, Changes, Server, Client
<1>4. \A h \in Handlers : Alone(h)'
  BY <1>1 DEF IInv, Alone, AloneWriting, AloneUploading, Changing, Active, Changes, Server, Text
<1> QED
  BY <1>1, <1>2, <1>3, <1>4 DEF IInv

(* Every step of every handler keeps it.                                   *)
LEMMA NextInv == IInv /\ [Next]_vars => IInv'
<1> SUFFICES ASSUME IInv, [Next]_vars PROVE IInv'
  OBVIOUS
<1>1. CASE UNCHANGED vars
  BY <1>1, Stutter
<1>2. ASSUME NEW h \in Handlers, Step(h) PROVE IInv'
  <2>1. Typed /\ LocksExclude /\ Noticed /\ \A g \in Handlers : Holds(g) /\ Alone(g)
    BY DEF IInv
  <2>2. Typed' /\ LocksExclude' /\ Noticed'
    BY <1>2, <2>1, StepTyped, LocksStep, NoticedStep
  <2>3. Own(h) /\ FilesKept
    BY <1>2, <2>1, StepIsOwn, StepFiles
  <2>4. ASSUME NEW g \in Handlers PROVE Holds(g)' /\ Alone(g)'
    <3>1. CASE g = h
      BY <1>2, <2>1, <3>1, HoldsStep, AloneStep
    <3>2. CASE g # h
      BY <1>2, <2>1, <2>3, <3>2, HoldsKept, AloneKept
    <3> QED
      BY <3>1, <3>2
  <2>5. ASSUME met' = {} PROVE \A g \in Handlers : Reads(g)'
    <3>1. met = {} /\ \A g \in Handlers : Reads(g)
      BY <2>3, <2>5 DEF Own, IInv
    <3> QED
      BY <1>2, <2>1, <3>1, ReadsStep
  <2> QED
    BY <2>2, <2>4, <2>5 DEF IInv
<1> QED
  BY <1>1, <1>2 DEF Next, Done

(* The invariant holds of every handler at every moment.                   *)
THEOREM Invariance == Spec => []IInv
  BY InitInv, NextInv, PTL DEF Spec

(* The handlers are where their code can be, and every lock belongs to a   *)
(* handler between its flock and its fclose.                               *)
THEOREM TypeCorrect == Spec => []TypeOK
<1>1. IInv => TypeOK
  BY DEF IInv, Typed
<1> QED
  BY <1>1, Invariance, PTL

(* When a request that changes the file ends without having met another,   *)
(* the file is as its command says.                                        *)
LEMMA EndsRight ==
    ASSUME IInv, NEW h \in Handlers, Step(h), pc[h] # "done", pc'[h] = "done",
           Changes(h), h \notin met
    PROVE  Wanted(h, Server)'
<1>1. Typed /\ Holds(h) /\ Alone(h)
  BY DEF IInv
<1>2. /\ req' = req /\ req[h].op \in {"writeT", "upload"} /\ req[h].line \in Nat
      /\ Text(h) \in Lines /\ buf[h] \in Seq(Lines) /\ <<>> \in Seq(Lines)
      /\ \A s : [pc EXCEPT ![h] = s][h] = s
  BY <1>1, StepIsOwn, FilesAreLines DEF Own, Changes, Typed, TypeOK
<1> USE DEF Goto
<1>3. CASE WriteCreates(h)
  <2>1. /\ Changing(h) /\ pc[h] = "create" /\ req[h].op = "writeT" /\ before' = before
        /\ disk' = [disk EXCEPT !["server"] = <<>>]
    BY <1>3 DEF WriteCreates, Truncate, Is, Changing, Active, history
  <2>2. Server' = <<>>
    BY <1>1, <1>2, <2>1, PutLines DEF Places
  <2>3. before[h] = Absent
    BY <1>1, <2>1 DEF Alone, AloneWriting
  <2> QED
    BY <1>2, <2>1, <2>2, <2>3 DEF Wanted
<1>4. CASE WriteFlushes(h)
  <2>1. /\ Changing(h) /\ pc[h] = "flush" /\ req[h].op = "writeT" /\ before' = before
        /\ disk' = [disk EXCEPT !["server"] = Over(buf[h], Server)]
    BY <1>4 DEF WriteFlushes, Flush, Is, Changing, Active, history, Server
  <2>2. /\ before[h] # Absent /\ Server = <<>>
        /\ buf[h] = Edited(before[h], req[h].line, Text(h))
    BY <1>1, <2>1 DEF Alone, AloneWriting
  <2>3. Server' = buf[h]
    BY <1>1, <1>2, <2>1, <2>2, OverNothing, PutLines DEF Places
  <2>4. before[h] \in Seq(Lines)
    BY <1>1, <2>2 DEF Typed, Files
  <2>5. IsEditOf(buf[h], before[h], req[h].line, Text(h))
    BY <1>2, <2>2, <2>4, EditIsRight
  <2> QED
    BY <1>2, <2>1, <2>2, <2>3, <2>5 DEF Wanted, IsEditOf, Text
<1>5. CASE UploadOpens(h)
  <2>1. req[h].op = "upload" /\ before'[h] = Server /\ Server' = Server
    BY <1>1, <1>5 DEF UploadOpens, Begins, Is, Server, Typed
  <2> QED
    BY <1>2, <2>1 DEF Wanted
<1>6. CASE UploadChecks(h)
  <2>1. /\ Changing(h) /\ pc[h] = "check" /\ req[h].op = "upload" /\ before' = before
        /\ Server' = Server /\ Server # Absent
    BY <1>2, <1>6 DEF UploadChecks, NameIsFree, Is, Changing, Active, history, Server
  <2>2. before[h] = Server
    BY <1>1, <2>1 DEF Alone, AloneUploading
  <2> QED
    BY <1>2, <2>1, <2>2 DEF Wanted
<1>7. CASE UploadFlushes(h)
  <2>1. /\ Changing(h) /\ pc[h] = "flush" /\ req[h].op = "upload" /\ before' = before /\ buf' = buf
        /\ disk' = [disk EXCEPT !["server"] = Over(buf[h], Server)]
    BY <1>7 DEF UploadFlushes, Flush, Is, Changing, Active, history, Server
  <2>2. before[h] = Absent /\ Server = <<>>
    BY <1>1, <2>1 DEF Alone, AloneUploading
  <2>3. Server' = buf[h]
    BY <1>1, <1>2, <2>1, <2>2, OverNothing, PutLines DEF Places
  <2> QED
    BY <1>2, <2>1, <2>2, <2>3 DEF Wanted
<1>8. CASE \/ ReadOpens(h) \/ ReadEnds(h) \/ DownloadOpens(h) \/ DownloadChecks(h)
           \/ DownloadFlushes(h) \/ List(h) \/ TarReads(h) \/ ArchiveForks(h)
           \/ DownloadCreates(h) \/ DownloadCopies(h)
  BY <1>2, <1>8 DEF ReadOpens, ReadEnds, DownloadOpens, DownloadChecks, DownloadFlushes, List,
                    TarReads, ArchiveForks, DownloadCreates, DownloadCopies, Begins, Is
<1>9. CASE \/ LockShared(h) \/ ReadMore(h) \/ WriteOpens(h) \/ LockExclusive(h) \/ CloseRead(h)
           \/ WriteTruncates(h) \/ UploadCreates(h) \/ UploadCopies(h)
  <2>1. pc'[h] # "done"
    BY <1>2, <1>9 DEF LockShared, ReadMore, WriteOpens, LockExclusive, CloseRead, WriteTruncates,
                      UploadCreates, UploadCopies
  <2> QED
    BY <2>1
<1> QED
  BY <1>3, <1>4, <1>5, <1>6, <1>7, <1>8, <1>9
     DEF Step, ReadFStep, WriteTStep, UploadStep, DownloadStep

(* No reader or download comes between what a lone writeT or upload reads, *)
(* truncates and writes, and so does what its command says.                *)
THEOREM LoneChangesStand == Spec => LoneChangesAreRight
<1>1. ASSUME IInv, Next
      PROVE  \A h \in Handlers : Ends(h) /\ Changes(h) /\ h \notin met'
                => Wanted(h, disk["server"])'
  <2> SUFFICES ASSUME NEW h \in Handlers, Ends(h), Changes(h), h \notin met'
               PROVE  Wanted(h, disk["server"])'
    OBVIOUS
  <2>1. pc[h] # "done" /\ pc'[h] = "done"
    BY DEF Ends
  <2>2. PICK g \in Handlers : Step(g)
    BY <1>1, <2>1 DEF Next, Done, vars
  <2>3. g = h
    BY <1>1, <2>1, <2>2, StepIsOwn DEF IInv, Own
  <2>4. h \notin met
    BY <1>1, <2>2, StepIsOwn DEF IInv, Own
  <2> QED
    BY <1>1, <2>1, <2>2, <2>3, <2>4, EndsRight DEF Server
<1> QED
  BY Invariance, <1>1, PTL DEF Spec, LoneChangesAreRight

(* What a reader adds to what it has read is of the version it began with, *)
(* or all it has is of the version now there.                              *)
THEOREM OneVersionIsRead == Spec => ReadsOneVersion
<1>1. ASSUME IInv, Next
      PROVE  \A h \in Handlers : pc[h] = "read" /\ buf'[h] # buf[h] /\ met = {}
                                   /\ pc'[h] = "read"
                => buf'[h] = disk["server"]
  <2> SUFFICES ASSUME NEW h \in Handlers, pc[h] = "read", buf'[h] # buf[h],
                      met = {}, pc'[h] = "read"
               PROVE  buf'[h] = disk["server"]
    OBVIOUS
  <2>1. PICK g \in Handlers : Step(g)
    BY <1>1 DEF Next, Done, vars
  <2>2. g = h
    BY <1>1, <2>1, StepIsOwn DEF IInv, Own
  <2>3. \A s : [pc EXCEPT ![h] = s][h] = s
    BY <1>1 DEF IInv, Typed, TypeOK
  <2>4. ReadMore(h)
    BY <2>1, <2>2, <2>3
       DEF Step, ReadFStep, WriteTStep, UploadStep, DownloadStep, ReadOpens, LockShared, ReadEnds,
           WriteOpens, WriteCreates, LockExclusive, CloseRead, WriteTruncates, WriteFlushes,
           UploadOpens, UploadChecks, UploadCreates, UploadCopies, UploadFlushes, DownloadOpens,
           DownloadChecks, DownloadCreates, DownloadCopies, DownloadFlushes, List, ArchiveForks,
           TarReads, Begins, Is, Goto
  <2> QED
    BY <1>1, <2>4, ReadsOn DEF IInv, Server
<1> QED
  BY Invariance, <1>1, PTL DEF Spec, ReadsOneVersion
=============================================================================
