----------------------------- MODULE FileStore -----------------------------
(***************************************************************************)
(* What the handlers of the file server (sys03) do to one file: list,      *)
(* readF, writeT, upload, download and archServer, system call by system   *)
(* call, so that the handlers of several clients interleave between them.  *)
(* Module FileServer has the traffic that brings a request here and takes  *)
(* its answer away.                                                        *)
(*                                                                         *)
(* A file is a sequence of lines.  It is taken to fit stdio's buffer:      *)
(* what is written appears in one write when the stream is closed, at the  *)
(* beginning of the file, and a read returns all there is from its place   *)
(* on; fgets reads on until a read returns nothing.  flock's locks belong  *)
(* to an open stream and end when it is closed.                            *)
(***************************************************************************)
EXTENDS Naturals, Sequences

CONSTANTS Handlers,      \* forked handlers, each with one request
          ServerLines,   \* the file's lines in the server's directory
          ClientLines,   \* and in the client's
          MaxLine,       \* the largest line number asked for; 0: not given
          Absent         \* no such file

Places == {"server", "client"}
Ops == {"list", "readF", "writeT", "upload", "download", "archServer"}
Requests == [op : {"readF", "writeT"}, line : 0..MaxLine]
            \cup [op : Ops \ {"readF", "writeT"}, line : {0}]

ASSUME LinesAssumption ==
    /\ ServerLines \in Seq(STRING) /\ ClientLines \in Seq(STRING)
    /\ MaxLine \in Nat

(* No content, not even an empty one, is taken for the absence of a file.  *)
ASSUME AbsentAssumption == Absent \notin Seq(STRING \cup Handlers)

VARIABLES
    disk,       \* [Places -> sequences of lines, or Absent]
    shared,     \* handlers whose stream on the server's file holds LOCK_SH
    exclusive,  \*   and those whose stream holds LOCK_EX
    pc,         \* [Handlers -> where the handler is]
    req,        \* [Handlers -> Requests]
    buf,        \* [Handlers -> the lines read so far, or to be written]
    answer,     \* [Handlers -> what the response says happened]
    met,        \* history: changing requests that overlapped another one
    before      \* history: [Handlers -> the server's file at the start]

lockVars == <<shared, exclusive>>
history == <<met, before, req>>
vars == <<disk, lockVars, pc, buf, answer, history>>

Init ==
    /\ disk \in {d \in [Places -> {ServerLines, ClientLines, Absent}] :
                   /\ d["server"] \in {ServerLines, Absent}
                   /\ d["client"] \in {ClientLines, Absent}}
    /\ shared = {} /\ exclusive = {}
    /\ pc = [h \in Handlers |-> "idle"]
    /\ req \in [Handlers -> Requests]
    /\ buf = [h \in Handlers |-> <<>>]
    /\ answer = [h \in Handlers |-> "none"]
    /\ met = {} /\ before = [h \in Handlers |-> Absent]
-----------------------------------------------------------------------------
Is(h, op, at) == pc[h] = at /\ req[h].op = op
Goto(h, at)   == pc' = [pc EXCEPT ![h] = at]
Says(h, text) == answer' = [answer EXCEPT ![h] = text]

(* fopen(.., "w") creates the file, or empties the one that is there.      *)
Truncate(place) == disk' = [disk EXCEPT ![place] = <<>>]

(* fclose writes the stream's buffer over the beginning of the file.       *)
Over(new, old) == new \o SubSeq(old, Len(new) + 1, Len(old))
Flush(place, lines) == disk' = [disk EXCEPT ![place] = Over(lines, @)]

(* Defects: writers keep out writers only; a stream that is still open     *)
(* keeps an exclusive lock.                                                *)
MayExcludeReaders(h) == exclusive = {}
UnlockShared(h)      == shared' = shared \ {h} /\ UNCHANGED exclusive

(* Locks on the server's file.                                             *)
MayShare(h)   == exclusive = {}
MayExclude(h) == exclusive = {} /\ shared = {}
Unlock(h) == shared' = shared \ {h} /\ exclusive' = exclusive \ {h}

Changes(h) == req[h].op \in {"writeT", "upload"}
Active(h)  == pc[h] \notin {"idle", "done"}

(* The first system call of a request that handleClient passes on.         *)
Begins(h, op) ==
    /\ Is(h, op, "idle")
    /\ before' = [before EXCEPT ![h] = disk["server"]]
    /\ LET others == {g \in Handlers \ {h} : Active(g) /\ Changes(g)}
       IN  met' = IF Changes(h) /\ others # {} THEN met \cup others \cup {h} ELSE met
    /\ UNCHANGED req
-----------------------------------------------------------------------------
(* readF (read_server_file).                                               *)

ReadOpens(h) ==
    /\ Begins(h, "readF")
    /\ IF disk["server"] = Absent THEN Goto(h, "done") /\ Says(h, "failed")
       ELSE Goto(h, "lock") /\ UNCHANGED answer
    /\ UNCHANGED <<disk, lockVars, buf>>

LockShared(h) ==
    /\ pc[h] = "lock" /\ req[h].op \in {"readF", "download"}
    /\ MayShare(h)
    /\ shared' = shared \cup {h}
    /\ Goto(h, "read")
    /\ UNCHANGED <<disk, exclusive, buf, answer, history>>

(* readF of one line stops at that line.                                   *)
Enough(h) == req[h].op = "readF" /\ req[h].line # 0 /\ Len(buf[h]) >= req[h].line

More(h) == Len(disk["server"]) > Len(buf[h]) /\ ~Enough(h)

(* A read finds more lines, or finds none; every reader of the file does.  *)
ReadMore(h) ==
    /\ pc[h] = "read" /\ More(h)
    /\ buf' = [buf EXCEPT ![h] = Over(@, disk["server"])]
    /\ UNCHANGED <<disk, lockVars, pc, answer, history>>

ReadEnds(h) ==
    /\ Is(h, "readF", "read") /\ ~More(h)
    /\ Unlock(h)
    /\ Goto(h, "done") /\ Says(h, "read")
    /\ UNCHANGED <<disk, buf, history>>
-----------------------------------------------------------------------------
(* writeT (write_server_file).  The lock is on the stream that reads the   *)
(* file; closing that stream gives it up, and the stream that writes the   *)
(* file back has none.                                                     *)

WriteOpens(h) ==
    /\ Begins(h, "writeT")
    /\ Goto(h, IF disk["server"] = Absent THEN "create" ELSE "lock")
    /\ UNCHANGED <<disk, lockVars, buf, answer>>

(* The message after line 167.                                             *)
Message(h, written) ==
    IF req[h].line = 0 THEN "appended" ELSE IF written THEN "written" ELSE "no such line"

(* A file that was not there is created, and nothing is written to it.     *)
WriteCreates(h) ==
    /\ Is(h, "writeT", "create")
    /\ Truncate("server")
    /\ Goto(h, "done") /\ Says(h, Message(h, FALSE))
    /\ UNCHANGED <<lockVars, buf, history>>

LockExclusive(h) ==
    /\ pc[h] = "lock" /\ req[h].op \in {"writeT", "upload"}
    /\ MayExclude(h)
    /\ exclusive' = exclusive \cup {h}
    /\ Goto(h, IF req[h].op = "writeT" THEN "read" ELSE "copy")
    /\ UNCHANGED <<disk, shared, buf, answer, history>>

HasLine(lines, n) == n \in 1..Len(lines)

(* Defect: the line is inserted before the one it should replace.          *)
Inserted(lines, n, text) ==
    IF HasLine(lines, n) THEN SubSeq(lines, 1, n - 1) \o <<text>> \o SubSeq(lines, n, Len(lines))
    ELSE Append(lines, text)

(* The temporary file: the line replaced, or one more at the end.          *)
Edited(lines, n, text) ==
    IF HasLine(lines, n) THEN [lines EXCEPT ![n] = text] ELSE Append(lines, text)

(* The line handler h is asked to write: one of its own.                   *)
Text(h) == h

CloseRead(h) ==
    /\ Is(h, "writeT", "read") /\ ~More(h)
    /\ Unlock(h)
    /\ buf' = [buf EXCEPT ![h] = Edited(@, req[h].line, Text(h))]
    /\ Says(h, Message(h, HasLine(buf[h], req[h].line)))
    /\ Goto(h, "rewrite")
    /\ UNCHANGED <<disk, history>>

WriteTruncates(h) ==
    /\ Is(h, "writeT", "rewrite")
    /\ Truncate("server")
    /\ Goto(h, "flush")
    /\ UNCHANGED <<lockVars, buf, answer, history>>

WriteFlushes(h) ==
    /\ Is(h, "writeT", "flush")
    /\ Flush("server", buf[h])
    /\ Goto(h, "done")
    /\ UNCHANGED <<lockVars, buf, answer, history>>
-----------------------------------------------------------------------------
(* upload: from the client's directory, only if the server has no such     *)
(* file.  The lock is given up before the buffer is written.               *)

UploadOpens(h) ==
    /\ Begins(h, "upload")
    /\ IF disk["client"] = Absent THEN Goto(h, "done") /\ Says(h, "failed")
       ELSE Goto(h, "check") /\ UNCHANGED answer
    /\ UNCHANGED <<disk, lockVars, buf>>

(* access(server_path, F_OK) == -1.                                        *)
NameIsFree(h) == disk["server"] = Absent

UploadChecks(h) ==
    /\ Is(h, "upload", "check")
    /\ IF NameIsFree(h) THEN Goto(h, "create") /\ UNCHANGED answer
       ELSE Goto(h, "done") /\ Says(h, "exists")
    /\ UNCHANGED <<disk, lockVars, buf, history>>

UploadCreates(h) ==
    /\ Is(h, "upload", "create")
    /\ Truncate("server")
    /\ Goto(h, "lock")
    /\ UNCHANGED <<lockVars, buf, answer, history>>

UploadCopies(h) ==
    /\ Is(h, "upload", "copy")
    /\ buf' = [buf EXCEPT ![h] = disk["client"]]
    /\ Unlock(h)
    /\ Goto(h, "flush")
    /\ UNCHANGED <<disk, answer, history>>

UploadFlushes(h) ==
    /\ Is(h, "upload", "flush")
    /\ Flush("server", buf[h])
    /\ Goto(h, "done") /\ Says(h, "uploaded")
    /\ UNCHANGED <<lockVars, buf, history>>
-----------------------------------------------------------------------------
(* download: to the client's directory, only if it has no such file.       *)

DownloadOpens(h) ==
    /\ Begins(h, "download")
    /\ IF disk["client"] # Absent THEN Goto(h, "done") /\ Says(h, "exists")
       ELSE Goto(h, "check") /\ UNCHANGED answer
    /\ UNCHANGED <<disk, lockVars, buf>>

DownloadChecks(h) ==
    /\ Is(h, "download", "check")
    /\ IF disk["server"] = Absent THEN Goto(h, "done") /\ Says(h, "failed")
       ELSE Goto(h, "create") /\ UNCHANGED answer
    /\ UNCHANGED <<disk, lockVars, buf, history>>

DownloadCreates(h) ==
    /\ Is(h, "download", "create")
    /\ Truncate("client")
    /\ Goto(h, "lock")
    /\ UNCHANGED <<lockVars, buf, answer, history>>

DownloadCopies(h) ==
    /\ Is(h, "download", "read") /\ ~More(h)
    /\ Unlock(h)
    /\ Goto(h, "flush")
    /\ UNCHANGED <<disk, buf, answer, history>>

DownloadFlushes(h) ==
    /\ Is(h, "download", "flush")
    /\ Flush("client", buf[h])
    /\ Goto(h, "done") /\ Says(h, "downloaded")
    /\ UNCHANGED <<lockVars, buf, history>>
-----------------------------------------------------------------------------
(* list (list_server_files): one look at the directory.                    *)
List(h) ==
    /\ Begins(h, "list")
    /\ Goto(h, "done")
    /\ Says(h, IF disk["server"] = Absent THEN "nothing" ELSE "listed")
    /\ UNCHANGED <<disk, lockVars, buf>>

(* archServer (arch_server_files): a child runs tar, which reads without a *)
(* lock, and the handler waits for it.                                     *)
ArchiveForks(h) ==
    /\ Begins(h, "archServer")
    /\ Goto(h, "tar")
    /\ UNCHANGED <<disk, lockVars, buf, answer>>

TarReads(h) ==
    /\ Is(h, "archServer", "tar")
    /\ \/ /\ buf' = [buf EXCEPT ![h] = IF disk["server"] = Absent THEN @ ELSE disk["server"]]
          /\ Says(h, "archived")
       \/ UNCHANGED buf /\ Says(h, "failed")
    /\ Goto(h, "done")
    /\ UNCHANGED <<disk, lockVars, history>>
-----------------------------------------------------------------------------
ReadFStep(h)  == ReadOpens(h) \/ LockShared(h) \/ ReadMore(h) \/ ReadEnds(h)
WriteTStep(h) == WriteOpens(h) \/ WriteCreates(h) \/ LockExclusive(h) \/ CloseRead(h)
                 \/ WriteTruncates(h) \/ WriteFlushes(h)
UploadStep(h) == UploadOpens(h) \/ UploadChecks(h) \/ UploadCreates(h)
                 \/ UploadCopies(h) \/ UploadFlushes(h)
DownloadStep(h) == DownloadOpens(h) \/ DownloadChecks(h) \/ DownloadCreates(h)
                   \/ DownloadCopies(h) \/ DownloadFlushes(h)
Step(h) == ReadFStep(h) \/ WriteTStep(h) \/ UploadStep(h) \/ DownloadStep(h)
           \/ List(h) \/ ArchiveForks(h) \/ TarReads(h)

(* Every handler has had its request.                                      *)
Done == (\A h \in Handlers : pc[h] = "done") /\ UNCHANGED vars

Next == (\E h \in Handlers : Step(h)) \/ Done

Spec == Init /\ [][Next]_vars
-----------------------------------------------------------------------------
TypeOK ==
    /\ pc \in [Handlers -> {"idle", "lock", "read", "create", "check", "copy",
                            "rewrite", "flush", "tar", "done"}]
    /\ req \in [Handlers -> Requests]
    /\ shared \subseteq Handlers /\ exclusive \subseteq Handlers
    /\ \A h \in shared \cup exclusive : pc[h] \in {"read", "copy"}

Ends(h) == pc[h] # "done" /\ pc'[h] = "done"

(* Line n of old is replaced by the text, or the text is put at the end.   *)
IsEditOf(new, old, n, text) ==
    IF n \in 1..Len(old)
    THEN /\ Len(new) = Len(old) /\ new[n] = text
         /\ \A i \in 1..Len(old) \ {n} : new[i] = old[i]
    ELSE new = Append(old, text)

(* What a lone request may leave in the server's directory.                *)
Wanted(h, left) ==
    CASE before[h] # Absent /\ req[h].op = "writeT" -> IsEditOf(left, before[h], req[h].line, Text(h))
      [] before[h] # Absent /\ req[h].op = "upload" -> left = before[h]
      [] before[h] = Absent /\ req[h].op = "writeT" -> left = <<>>
      [] before[h] = Absent /\ req[h].op = "upload" -> left \in {Absent, buf[h]}

(* A request that changes the file and meets no other such request does    *)
(* what its command says, whatever readers and downloads do meanwhile:     *)
(* writeT puts every line back with its own in place or at the end, upload *)
(* leaves a file alone that is there and copies one that is not (125-164,  *)
(* 204-235).  The exception is writeT of a file that does not exist.       *)
LoneChangesAreRight ==
    [][\A h \in Handlers : Ends(h) /\ Changes(h) /\ h \notin met'
          => Wanted(h, disk["server"])']_vars

(* A reader reads in several steps, and its lock does not keep out the     *)
(* streams that truncate and rewrite the file (61-92, 147-163, 284-297).   *)
(* Still, when it reads on, what it then has is what the file then holds,  *)
(* as long as no two changing requests have overlapped: no answer is put   *)
(* together from two versions of the file.                                 *)
ReadsOneVersion ==
    [][\A h \in Handlers : pc[h] = "read" /\ buf'[h] # buf[h] /\ met = {}
             /\ pc'[h] = "read"
          => buf'[h] = disk["server"]]_vars
=============================================================================
