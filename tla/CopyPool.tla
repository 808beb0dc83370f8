------------------------------ MODULE CopyPool ------------------------------
(***************************************************************************)
(* The directory copy utility (sys05): one manager thread walks the source *)
(* tree, opens every regular file and its copy and puts the pair of        *)
(* descriptors in a ring buffer; the worker threads take pairs out, copy   *)
(* and close them.  The buffer is a monitor: one mutex, the conditions     *)
(* not_empty and not_full.  SIGINT only sets a flag.                       *)
(*                                                                         *)
(* Every step between two acquisitions of the mutex, and every section     *)
(* under it, is one action: inside a section only `stop' can change, and   *)
(* no section reads it twice with different consequences.  A thread        *)
(* blocked in pthread_cond_wait is a member of the wait set of the         *)
(* condition (notEmpty) or sets notFull; being signalled, or waking        *)
(* spuriously, removes it, and it then runs its test again.                *)
(*                                                                         *)
(* A definition marked `Defect' is no part of the specification: it is a   *)
(* slip the code could have had in the definition it stands before, kept   *)
(* to show that the properties notice it.                                  *)
(***************************************************************************)
EXTENDS Naturals, Sequences, FiniteSets

CONSTANTS
    Workers,      \* the worker threads (num_workers of them)
    BufferSize,   \* buffer_size, the first argument of the program
    Entries,      \* what the source tree holds, the root left out
    Root,         \* the source directory itself
    Parent,       \* [Entries -> directory the entry is in]
    Kind,         \* [Entries -> Kinds]
    NoRead,       \* entries and directories that open/opendir refuses
    NoWrite,      \* files whose copy cannot be created
    FdLimit,      \* descriptors the process may have open
    NoFile

(* "other" stands for sockets and devices, which process_directory passes  *)
(* over, and for entries whose lstat fails.                                *)
Kinds == {"regular", "directory", "fifo", "symlink", "other"}

Directories == {Root} \cup {e \in Entries : Kind[e] = "directory"}
Regulars    == {e \in Entries : Kind[e] = "regular"}
Slots       == 0..(BufferSize - 1)

ASSUME WorkersAssumption == IsFiniteSet(Workers) /\ Workers # {}
ASSUME SizeAssumption    == BufferSize \in Nat \ {0} /\ FdLimit \in Nat
ASSUME TreeAssumption    == /\ IsFiniteSet(Entries)
                            /\ Root \notin Entries
                            /\ NoFile \notin Entries \cup {Root}
                            /\ Kind \in [Entries -> Kinds]
                            /\ Parent \in [Entries -> Directories]

VARIABLES
    unread,       \* entries readdir has not returned yet
    dirs,         \* directories of the process_directory calls, innermost first
    mpc, cur,     \* where the manager is, and the entry it works on
    buffer, in, out, count, done,    \* file_buffer
    stop,         \* set by the SIGINT handler
    notEmpty,     \* workers blocked on not_empty
    notFull,      \* TRUE while the manager is blocked on not_full
    wpc, held,    \* where each worker is, and the pair it took
    fds,          \* open descriptors
    dst,          \* what exists at the destination
    stats,        \* regular_files (= total_files), directories, fifo_files, symlinks
    files_copied,
    joined        \* main has joined every thread

walkVars   == <<unread, dirs, cur, stats>>
ringVars   == <<buffer, in, out, count>>
workerVars == <<wpc, held, files_copied>>
vars == <<walkVars, mpc, ringVars, done, stop, notEmpty, notFull, workerVars,
          fds, dst, joined>>

Src(e) == <<"src", e>>
Dst(e) == <<"dst", e>>
Dir(d) == <<"dir", d>>
Descriptors == {Src(e) : e \in Regulars} \cup {Dst(e) : e \in Regulars}
               \cup {Dir(d) : d \in Directories}

Init == /\ unread = Entries /\ dirs = <<>> /\ cur = Root
        /\ stats = [k \in Kinds |-> 0]
        /\ mpc = "opendir"
        /\ buffer = [i \in Slots |-> NoFile]
        /\ in = 0 /\ out = 0 /\ count = 0 /\ done = FALSE
        /\ stop = FALSE
        /\ notEmpty = {} /\ notFull = FALSE
        /\ wpc = [w \in Workers |-> "loop"]
        /\ held = [w \in Workers |-> NoFile]
        /\ files_copied = 0
        /\ fds = {}
        /\ dst = [e \in Entries |-> "absent"]
        /\ joined = FALSE
-----------------------------------------------------------------------------
(* The manager's walk.                                                     *)

HasFd == Cardinality(fds) < FdLimit

(* Where the manager goes on when the process_directory call whose caller  *)
(* has the directories `rest' open returns.                                *)
ReturnTo(rest) == IF rest = <<>> THEN "finish" ELSE "readdir"

OpenDir ==
    /\ mpc = "opendir"
    /\ \/ /\ HasFd /\ cur \notin NoRead
          /\ dirs' = <<cur>> \o dirs
          /\ fds' = fds \cup {Dir(cur)}
          /\ mpc' = "readdir"
       \/ /\ ~HasFd \/ cur \in NoRead
          /\ mpc' = ReturnTo(dirs)
          /\ UNCHANGED <<dirs, fds>>
    /\ UNCHANGED <<unread, cur, stats, ringVars, done, stop, notEmpty, notFull,
                   workerVars, dst, joined>>

Here == {e \in unread : Parent[e] = Head(dirs)}

(* Defect: stop is looked at only at the buffer.                           *)
WalksOn(e) == e \in Here

Walks(e) == e \in Here /\ ~stop

(* One round of the readdir loop, up to the first open of a regular file. *)
ReadEntry(e) ==
    /\ mpc = "readdir" /\ Walks(e)
    /\ unread' = unread \ {e}
    /\ cur' = e
    /\ mpc' = IF Kind[e] = "regular" THEN "opensrc"
              ELSE IF Kind[e] = "directory" THEN "opendir" ELSE "readdir"
    /\ stats' = IF Kind[e] \in {"directory", "fifo", "symlink"}
                THEN [stats EXCEPT ![Kind[e]] = @ + 1] ELSE stats
    /\ dst' = IF Kind[e] \in {"directory", "symlink"}
              THEN [dst EXCEPT ![e] = "made"] ELSE dst
    /\ UNCHANGED <<dirs, ringVars, done, stop, notEmpty, notFull, workerVars,
                   fds, joined>>

CloseDir ==
    /\ mpc = "readdir"
    /\ stop \/ Here = {}
    /\ fds' = fds \ {Dir(Head(dirs))}
    /\ dirs' = Tail(dirs)
    /\ mpc' = ReturnTo(Tail(dirs))
    /\ UNCHANGED <<unread, cur, stats, ringVars, done, stop, notEmpty, notFull,
                   workerVars, dst, joined>>

OpenSource ==
    /\ mpc = "opensrc"
    /\ \/ /\ HasFd /\ cur \notin NoRead
          /\ fds' = fds \cup {Src(cur)}
          /\ mpc' = "opendst"
       \/ /\ ~HasFd \/ cur \in NoRead
          /\ mpc' = "readdir"
          /\ UNCHANGED fds
    /\ UNCHANGED <<walkVars, ringVars, done, stop, notEmpty, notFull,
                   workerVars, dst, joined>>

(* Defect: the source stays open when the copy cannot be created.          *)
OpenDestLeaking ==
    /\ mpc = "opendst"
    /\ \/ /\ HasFd /\ cur \notin NoWrite
          /\ fds' = fds \cup {Dst(cur)}
          /\ dst' = [dst EXCEPT ![cur] = "empty"]
          /\ mpc' = "put"
       \/ /\ ~HasFd \/ cur \in NoWrite
          /\ mpc' = "readdir"
          /\ UNCHANGED <<dst, fds>>
    /\ UNCHANGED <<walkVars, ringVars, done, stop, notEmpty, notFull,
                   workerVars, joined>>

(* O_CREAT | O_TRUNC: from here on an empty copy exists.                   *)
OpenDest ==
    /\ mpc = "opendst"
    /\ \/ /\ HasFd /\ cur \notin NoWrite
          /\ fds' = fds \cup {Dst(cur)}
          /\ dst' = [dst EXCEPT ![cur] = "empty"]
          /\ mpc' = "put"
       \/ /\ ~HasFd \/ cur \in NoWrite
          /\ fds' = fds \ {Src(cur)}
          /\ mpc' = "readdir"
          /\ UNCHANGED dst
    /\ UNCHANGED <<walkVars, ringVars, done, stop, notEmpty, notFull,
                   workerVars, joined>>
-----------------------------------------------------------------------------
(* The manager at the buffer.                                              *)

(* Defects: the next index runs off the ring; a pair is put whether or not *)
(* stop is set.                                                            *)
AdvanceOffTheEnd(i) == i + 1
MayQueueAfterStop   == count # BufferSize

Advance(i) == (i + 1) % BufferSize
MayQueue   == count # BufferSize /\ ~stop

(* Defect: only the transition from an empty buffer is signalled.          *)
SignalFirstOnly ==
    \/ (notEmpty = {} \/ count # 0) /\ UNCHANGED notEmpty
    \/ \E w \in notEmpty : count = 0 /\ notEmpty' = notEmpty \ {w}

(* pthread_cond_signal(&not_empty): some waiting worker, if there is one.  *)
SignalNotEmpty ==
    \/ notEmpty = {} /\ UNCHANGED notEmpty
    \/ \E w \in notEmpty : notEmpty' = notEmpty \ {w}

Broadcast == notEmpty' = {}

(* pthread_cond_signal(&not_full): only the manager ever waits for it.     *)
SignalNotFull == notFull' = FALSE

WaitNotFull ==
    /\ mpc = "put" /\ ~notFull
    /\ count = BufferSize /\ ~stop
    /\ notFull' = TRUE
    /\ UNCHANGED <<walkVars, mpc, ringVars, done, stop, notEmpty, workerVars,
                   fds, dst, joined>>

(* The stop branch: the pair just opened is closed again, not queued.      *)
Discard ==
    /\ mpc = "put" /\ ~notFull
    /\ stop
    /\ fds' = fds \ {Src(cur), Dst(cur)}
    /\ mpc' = "readdir"
    /\ UNCHANGED <<walkVars, ringVars, done, stop, notEmpty, notFull,
                   workerVars, dst, joined>>

Enqueue ==
    /\ mpc = "put" /\ ~notFull
    /\ MayQueue
    /\ buffer' = [buffer EXCEPT ![in] = cur]
    /\ in' = Advance(in)
    /\ count' = count + 1
    /\ stats' = [stats EXCEPT !["regular"] = @ + 1]
    /\ SignalNotEmpty
    /\ mpc' = "readdir"
    /\ UNCHANGED <<unread, dirs, cur, out, done, stop, notFull, workerVars,
                   fds, dst, joined>>

(* manager_thread after the walk: done, and a broadcast.                   *)
FinishWalk ==
    /\ mpc = "finish"
    /\ done' = TRUE
    /\ Broadcast
    /\ mpc' = "end"
    /\ UNCHANGED <<walkVars, ringVars, stop, notFull, workerVars, fds, dst, joined>>
-----------------------------------------------------------------------------
(* A worker.                                                               *)

AtLoop(w) == wpc[w] = "loop" /\ w \notin notEmpty

WaitNotEmpty(w) ==
    /\ AtLoop(w)
    /\ count = 0 /\ ~done /\ ~stop
    /\ notEmpty' = notEmpty \cup {w}
    /\ UNCHANGED <<walkVars, mpc, ringVars, done, stop, notFull, workerVars,
                   fds, dst, joined>>

(* Defect: a worker leaves pairs in the buffer when the end is announced.  *)
MayLeaveEarly == done \/ stop

MayLeave == count = 0 /\ (done \/ stop)

Exit(w) ==
    /\ AtLoop(w)
    /\ MayLeave
    /\ wpc' = [wpc EXCEPT ![w] = "exit"]
    /\ UNCHANGED <<walkVars, mpc, ringVars, done, stop, notEmpty, notFull,
                   held, files_copied, fds, dst, joined>>

Dequeue(w) ==
    /\ AtLoop(w)
    /\ count # 0
    /\ held' = [held EXCEPT ![w] = buffer[out]]
    /\ out' = Advance(out)
    /\ count' = count - 1
    /\ SignalNotFull
    /\ wpc' = [wpc EXCEPT ![w] = "copy"]
    /\ UNCHANGED <<walkVars, mpc, buffer, in, done, stop, notEmpty,
                   files_copied, fds, dst, joined>>

(* The read/write loop: it copies everything or stops at a failed write.   *)
CopyFile(w) ==
    /\ wpc[w] = "copy"
    /\ \E r \in {"full", "partial"} : dst' = [dst EXCEPT ![held[w]] = r]
    /\ wpc' = [wpc EXCEPT ![w] = "close"]
    /\ UNCHANGED <<walkVars, mpc, ringVars, done, stop, notEmpty, notFull,
                   held, files_copied, fds, joined>>

CloseSource(w) ==
    /\ wpc[w] = "close"
    /\ fds' = fds \ {Src(held[w])}
    /\ wpc' = [wpc EXCEPT ![w] = "closedst"]
    /\ UNCHANGED <<walkVars, mpc, ringVars, done, stop, notEmpty, notFull,
                   held, files_copied, dst, joined>>

CloseDest(w) ==
    /\ wpc[w] = "closedst"
    /\ fds' = fds \ {Dst(held[w])}
    /\ wpc' = [wpc EXCEPT ![w] = "account"]
    /\ UNCHANGED <<walkVars, mpc, ringVars, done, stop, notEmpty, notFull,
                   held, files_copied, dst, joined>>

(* The second section of the mutex.  The pair goes out of scope here.      *)
Account(w) ==
    /\ wpc[w] = "account"
    /\ files_copied' = files_copied + 1
    /\ held' = [held EXCEPT ![w] = NoFile]
    /\ wpc' = [wpc EXCEPT ![w] = "loop"]
    /\ UNCHANGED <<walkVars, mpc, ringVars, done, stop, notEmpty, notFull,
                   fds, dst, joined>>
-----------------------------------------------------------------------------
(* The environment, and main.                                              *)

(* handle_signal.                                                          *)
Interrupt ==
    /\ ~stop
    /\ stop' = TRUE
    /\ UNCHANGED <<walkVars, mpc, ringVars, done, notEmpty, notFull, workerVars,
                   fds, dst, joined>>

(* pthread_cond_wait may return without having been signalled.             *)
SpuriousWakeup ==
    /\ \/ notFull' = FALSE /\ notFull /\ UNCHANGED notEmpty
       \/ \E w \in notEmpty : notEmpty' = notEmpty \ {w} /\ UNCHANGED notFull
    /\ UNCHANGED <<walkVars, mpc, ringVars, done, stop, workerVars, fds, dst, joined>>

ThreadsEnded == mpc = "end" /\ \A w \in Workers : wpc[w] = "exit"

(* main returns from the last pthread_join and prints the statistics.      *)
Join ==
    /\ ~joined
    /\ ThreadsEnded
    /\ joined' = TRUE
    /\ UNCHANGED <<walkVars, mpc, ringVars, done, stop, notEmpty, notFull,
                   workerVars, fds, dst>>

Terminated == joined /\ UNCHANGED vars

ManagerStep == \/ OpenDir \/ (\E e \in Entries : ReadEntry(e)) \/ CloseDir
               \/ OpenSource \/ OpenDest
               \/ WaitNotFull \/ Discard \/ Enqueue \/ FinishWalk

WorkerStep(w) == \/ WaitNotEmpty(w) \/ Exit(w) \/ Dequeue(w)
                 \/ CopyFile(w) \/ CloseSource(w) \/ CloseDest(w) \/ Account(w)

ThreadStep == ManagerStep \/ \E w \in Workers : WorkerStep(w)
Environment == Interrupt \/ SpuriousWakeup

Next == ThreadStep \/ Environment \/ Join \/ Terminated

(* A thread that can run does run: each thread is a pthread of its own,    *)
(* and the mutex is held for a bounded time.  Nothing makes SIGINT or a    *)
(* spurious wakeup happen.                                                 *)
Fairness == /\ WF_vars(ManagerStep)
            /\ \A w \in Workers : WF_vars(WorkerStep(w))
            /\ WF_vars(Join)

Spec == Init /\ [][Next]_vars /\ Fairness
-----------------------------------------------------------------------------
(* What must hold.                                                         *)

(* Every variable stays in its range; the ring's indices stay inside the   *)
(* array the program uses of `buffer' (in, out, count of file_buffer).     *)
TypeOK ==
    /\ unread \subseteq Entries
    /\ dirs \in Seq(Directories)
    /\ cur \in Entries \cup {Root}
    /\ stats \in [Kinds -> Nat]
    /\ mpc \in {"opendir", "readdir", "opensrc", "opendst", "put", "finish", "end"}
    /\ buffer \in [Slots -> Entries \cup {NoFile}]
    /\ in \in Slots /\ out \in Slots /\ count \in 0..BufferSize
    /\ done \in BOOLEAN /\ stop \in BOOLEAN
    /\ notEmpty \subseteq Workers /\ notFull \in BOOLEAN
    /\ wpc \in [Workers -> {"loop", "copy", "close", "closedst", "account", "exit"}]
    /\ held \in [Workers -> Entries \cup {NoFile}]
    /\ files_copied \in Nat
    /\ fds \subseteq Descriptors
    /\ dst \in [Entries -> {"absent", "made", "empty", "full", "partial"}]
    /\ joined \in BOOLEAN

(* The live part of the ring, oldest pair first.                           *)
Live == {(out + i) % BufferSize : i \in 0..(count - 1)}
Queue == [i \in 1..count |-> buffer[(out + i - 1) % BufferSize]]
Busy == {w \in Workers : wpc[w] \in {"copy", "close", "closedst", "account"}}

(* A worker that has left its loop has seen the end: no pair is in the     *)
(* buffer, now or ever again.  The workers test count and stop under the   *)
(* mutex, the handler sets stop without it, so SIGINT between the          *)
(* manager's two looks at the buffer could strand a pair whose descriptors *)
(* nobody would close (worker_thread 59-62, process_directory 138-143).    *)
ExitedMeansDrained ==
    (\E w \in Workers : wpc[w] = "exit") => count = 0 /\ (done \/ stop)

(* Every open descriptor has exactly one owner who will close it: the      *)
(* walk for the directories, the manager for the pair it is opening, the   *)
(* buffer for the pairs queued, a worker for the pair it copies.  No pair  *)
(* is in two places (lines 119-142, 64, 83-84).                            *)
QueuedFiles == {buffer[i] : i \in Live}
HeldAt(pcs) == {held[w] : w \in {v \in Workers : wpc[v] \in pcs}}
OpeningFds  == {Src(f) : f \in {g \in {cur} : mpc \in {"opendst", "put"}}}
               \cup {Dst(f) : f \in {g \in {cur} : mpc = "put"}}
OneOwner ==
    /\ fds = {Dir(dirs[i]) : i \in DOMAIN dirs} \cup OpeningFds
             \cup {Src(f) : f \in QueuedFiles \cup HeldAt({"copy", "close"})}
             \cup {Dst(f) : f \in QueuedFiles \cup HeldAt({"copy", "close", "closedst"})}
    /\ \A i, j \in Live : buffer[i] = buffer[j] => i = j
    /\ \A v, w \in Busy : held[v] = held[w] => v = w
    /\ \A w \in Busy : held[w] \notin QueuedFiles
    /\ mpc \in {"opendst", "put"} =>
          cur \notin QueuedFiles \cup {held[w] : w \in Busy}

(* No wakeup is lost although both sides signal one waiter at a time and   *)
(* signal before they unlock: whenever a worker sleeps on not_empty there  *)
(* is an awake worker for every queued pair, and the walk has not ended;   *)
(* the manager sleeps only in front of a full buffer.                      *)
NoLostWakeup ==
    /\ notEmpty # {} => /\ count <= Cardinality({w \in Workers : AtLoop(w)})
                        /\ ~done
    /\ notFull => mpc = "put" /\ count = BufferSize

(* The pool needs at most this many descriptors: the open directories and  *)
(* two for each pair that is queued, being copied or being opened.         *)
PoolFds == 2 * (BufferSize + Cardinality(Workers) + 1)

(* The directories the walk gets into: each that may be opened, if it is   *)
(* the root or in one of them.                                             *)
WalkedInto(S) == \A d \in Directories \ NoRead : d = Root \/ Parent[d] \in S => d \in S
Reachable == {d \in Directories : \A S \in SUBSET Directories : WalkedInto(S) => d \in S}

(* Below that bound open fails for want of a descriptor, and the file is   *)
(* reported and skipped.  Above it a run without SIGINT copies every file  *)
(* it may read and write, in every directory it gets into.                 *)
Depth == Cardinality(Directories)
EveryFileCopied ==
    joined /\ ~stop /\ FdLimit >= PoolFds + Depth =>
        \A f \in Regulars \ (NoRead \cup NoWrite) :
            Parent[f] \in Reachable => dst[f] \in {"full", "partial"}

(* After SIGINT the destination is left with at most one file that was     *)
(* created but never handed to a worker, and without SIGINT with none:     *)
(* what was queued when the signal came is still copied.                   *)
StrayCopies == {e \in Entries : dst[e] = "empty"}
NoStrayCopies ==
    joined => \A e, f \in StrayCopies : stop /\ e = f

(* The pool is a bounded FIFO hand-over (module WorkQueue): put once, taken *)
(* in order by one worker, nothing after the close, left only when drained. *)
HandOver == INSTANCE WorkQueue WITH
    Files <- Regulars, Capacity <- BufferSize,
    queue <- Queue,
    finished <- {f \in Regulars : /\ dst[f] \in {"full", "partial"}
                                  /\ \A w \in Workers : held[w] # f},
    closed <- done \/ stop,
    gone <- {w \in Workers : wpc[w] = "exit"}
RefinesWorkQueue == HandOver!Spec
=============================================================================
