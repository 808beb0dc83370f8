--------------------------- MODULE CopyPool_proofs ---------------------------
(***************************************************************************)
(* Theorems about CopyPool, and in the last section about CopyBarrier, for *)
(* any number of workers, any buffer size and any source tree.             *)
(***************************************************************************)
EXTENDS CopyBarrier, FiniteSetTheorems, TLAPS

(* The manager has a directory open whenever it is inside the readdir      *)
(* loop, and what it works on is of the kind its place in the loop says.   *)
WalkInv == /\ mpc \in {"readdir", "opensrc", "opendst", "put"} => dirs # <<>>
           /\ mpc = "opendir" => cur \in Directories
           /\ mpc \in {"opensrc", "opendst", "put"} => cur \in Regulars
           /\ done <=> mpc = "end"

IInv == TypeOK /\ WalkInv /\ ExitedMeansDrained

(* The next index of the ring is an index of the ring.                     *)
LEMMA NextSlot == \A i \in Slots : Advance(i) \in Slots
  BY SizeAssumption DEF Slots, Advance

(* The initial state is typed and satisfies the inductive invariant.       *)
LEMMA InitInv == Init => IInv
<1> SUFFICES ASSUME Init PROVE IInv
  OBVIOUS
<1> USE SizeAssumption, TreeAssumption DEF Init
<1>1. TypeOK
  <2>1. dirs \in Seq(Directories) /\ fds \subseteq Descriptors
    OBVIOUS
  <2>2. in \in Slots /\ out \in Slots /\ count \in 0..BufferSize
    BY DEF Slots
  <2> QED
    BY <2>1, <2>2 DEF TypeOK
<1>2. WalkInv
  BY DEF WalkInv, Directories
<1>3. ExitedMeansDrained
  BY DEF ExitedMeansDrained
<1> QED
  BY <1>1, <1>2, <1>3 DEF IInv

(* A step of the walk keeps the inductive invariant: OpenDir, ReadEntry,   *)
(* CloseDir and the two opens.                                             *)
LEMMA WalkStepInv ==
    IInv /\ (OpenDir \/ (\E e \in Entries : ReadEntry(e)) \/ CloseDir
             \/ OpenSource \/ OpenDest) => IInv'
<1> SUFFICES ASSUME IInv PROVE
      (OpenDir \/ (\E e \in Entries : ReadEntry(e)) \/ CloseDir \/ OpenSource \/ OpenDest) => IInv'
  OBVIOUS
<1> USE SizeAssumption, TreeAssumption DEF IInv, TypeOK, WalkInv
<1>1. CASE OpenDir
  <2>1. dirs' \in Seq(Directories) /\ (mpc' = "readdir" => dirs' # <<>>)
    <3>1. CASE dirs' = <<cur>> \o dirs
      <4>1. <<cur>> \in Seq(Directories)
        BY <1>1 DEF OpenDir
      <4>2. <<cur>> \o dirs \in Seq(Directories) /\ <<cur>> \o dirs # <<>>
        BY <4>1
      <4> QED
        BY <3>1, <4>2
    <3>2. CASE dirs' = dirs /\ mpc' = ReturnTo(dirs)
      BY <3>2 DEF ReturnTo
    <3> QED
      BY <1>1, <3>1, <3>2 DEF OpenDir
  <2>2. fds' \subseteq Descriptors
    BY <1>1 DEF OpenDir, Descriptors
  <2>3. mpc' \in {"readdir", "finish"}
    BY <1>1 DEF OpenDir, ReturnTo
  <2> QED
    BY <1>1, <2>1, <2>2, <2>3
       DEF OpenDir, walkVars, ringVars, workerVars, ExitedMeansDrained
<1>2. ASSUME NEW e \in Entries, ReadEntry(e) PROVE IInv'
  <2>1. e \in Entries /\ Kind[e] \in Kinds
    BY <1>2
  <2>2. stats' \in [Kinds -> Nat]
    BY <1>2, <2>1 DEF ReadEntry, Kinds
  <2>3. mpc' \in {"opensrc", "opendir", "readdir"} /\ cur' \in Entries
    BY <1>2, <2>1 DEF ReadEntry
  <2>4. /\ mpc' = "opendir" => cur' \in Directories
        /\ mpc' = "opensrc" => cur' \in Regulars
    BY <1>2, <2>1 DEF ReadEntry, Directories, Regulars
  <2>5. dst' \in [Entries -> {"absent", "made", "empty", "full", "partial"}]
    BY <1>2 DEF ReadEntry
  <2>6. unread' \subseteq Entries /\ dirs' = dirs /\ dirs # <<>> /\ mpc = "readdir"
    BY <1>2 DEF ReadEntry
  <2> QED
    BY <1>2, <2>2, <2>3, <2>4, <2>5, <2>6
       DEF ReadEntry, ringVars, workerVars, ExitedMeansDrained
<1>3. CASE CloseDir
  <2>1. dirs' \in Seq(Directories) /\ (mpc' = "readdir" => dirs' # <<>>)
    BY <1>3 DEF CloseDir, ReturnTo
  <2>2. mpc' \in {"readdir", "finish"} /\ fds' \subseteq Descriptors
    BY <1>3 DEF CloseDir, ReturnTo
  <2> QED
    BY <1>3, <2>1, <2>2
       DEF CloseDir, walkVars, ringVars, workerVars, ExitedMeansDrained
<1>4. CASE OpenSource
  <2>1. fds' \subseteq Descriptors
    BY <1>4 DEF OpenSource, Descriptors
  <2> QED
    BY <1>4, <2>1 DEF OpenSource, walkVars, ringVars, workerVars, ExitedMeansDrained
<1>5. CASE OpenDest
  <2>1. fds' \subseteq Descriptors
    <3>1. Dst(cur) \in Descriptors
      BY <1>5 DEF OpenDest, Descriptors
    <3> QED
      BY <1>5, <3>1 DEF OpenDest
  <2> QED
    BY <1>5, <2>1 DEF OpenDest, walkVars, ringVars, workerVars, ExitedMeansDrained
<1> QED
  BY <1>1, <1>2, <1>3, <1>4, <1>5

(* A step of the manager at the buffer keeps the inductive invariant.      *)
(* Enqueue keeps the buffer drained for those who left because it puts     *)
(* nothing once stop is set, and done is not set before the walk ends.     *)
LEMMA BufferStepInv ==
    IInv /\ (WaitNotFull \/ Discard \/ Enqueue \/ FinishWalk) => IInv'
<1> SUFFICES ASSUME IInv PROVE (WaitNotFull \/ Discard \/ Enqueue \/ FinishWalk) => IInv'
  OBVIOUS
<1> USE SizeAssumption, TreeAssumption DEF IInv, TypeOK, WalkInv
<1>1. CASE WaitNotFull
  BY <1>1 DEF WaitNotFull, walkVars, ringVars, workerVars, ExitedMeansDrained
<1>2. CASE Discard
  BY <1>2 DEF Discard, walkVars, ringVars, workerVars, ExitedMeansDrained
<1>3. CASE Enqueue
  <2>1. in' \in Slots /\ count' \in 0..BufferSize
    BY <1>3, NextSlot DEF Enqueue, MayQueue
  <2>2. buffer' \in [Slots -> Entries \cup {NoFile}] /\ stats' \in [Kinds -> Nat]
    BY <1>3 DEF Enqueue, Regulars, Kinds
  <2>3. notEmpty' \subseteq Workers
    BY <1>3 DEF Enqueue, SignalNotEmpty
  <2>4. \A w \in Workers : wpc[w] # "exit"
    BY <1>3 DEF Enqueue, MayQueue, ExitedMeansDrained
  <2> QED
    BY <1>3, <2>1, <2>2, <2>3, <2>4 DEF Enqueue, workerVars, ExitedMeansDrained
<1>4. CASE FinishWalk
  BY <1>4 DEF FinishWalk, Broadcast, walkVars, ringVars, workerVars, ExitedMeansDrained
<1> QED
  BY <1>1, <1>2, <1>3, <1>4

(* A step of a worker keeps the inductive invariant.                       *)
LEMMA WorkerStepInv == \A w \in Workers : IInv /\ WorkerStep(w) => IInv'
<1> SUFFICES ASSUME NEW w \in Workers, IInv PROVE WorkerStep(w) => IInv'
  OBVIOUS
<1> USE SizeAssumption, TreeAssumption DEF IInv, TypeOK, WalkInv
<1>1. CASE WaitNotEmpty(w)
  BY <1>1 DEF WaitNotEmpty, walkVars, ringVars, workerVars, ExitedMeansDrained
<1>2. CASE Exit(w)
  BY <1>2 DEF Exit, MayLeave, walkVars, ringVars, ExitedMeansDrained
<1>3. CASE Dequeue(w)
  <2>1. out' \in Slots /\ count' \in 0..BufferSize
    BY <1>3, NextSlot DEF Dequeue
  <2>2. held' \in [Workers -> Entries \cup {NoFile}]
    BY <1>3 DEF Dequeue
  <2> QED
    BY <1>3, <2>1, <2>2 DEF Dequeue, SignalNotFull, walkVars, ExitedMeansDrained
<1>4. CASE CopyFile(w)
  <2>1. /\ wpc' \in [Workers -> {"loop", "copy", "close", "closedst", "account", "exit"}]
        /\ \A v \in Workers : wpc'[v] = "exit" => wpc[v] = "exit"
    BY <1>4 DEF CopyFile
  <2>2. dst' \in [Entries -> {"absent", "made", "empty", "full", "partial"}]
    BY <1>4 DEF CopyFile
  <2>3. UNCHANGED <<walkVars, mpc, ringVars, done, stop, notEmpty, notFull, held,
                    files_copied, fds, joined>>
    BY <1>4 DEF CopyFile
  <2>4. TypeOK' /\ WalkInv'
    BY <2>1, <2>2, <2>3 DEF walkVars, ringVars
  <2>5. ExitedMeansDrained'
    BY <2>1, <2>3 DEF ringVars, ExitedMeansDrained
  <2> QED
    BY <2>4, <2>5
<1>5. CASE CloseSource(w)
  BY <1>5 DEF CloseSource, walkVars, ringVars, ExitedMeansDrained
<1>6. CASE CloseDest(w)
  BY <1>6 DEF CloseDest, walkVars, ringVars, ExitedMeansDrained
<1>7. CASE Account(w)
  BY <1>7 DEF Account, walkVars, ringVars, ExitedMeansDrained
<1> QED
  BY <1>1, <1>2, <1>3, <1>4, <1>5, <1>6, <1>7 DEF WorkerStep

(* SIGINT, a spurious wakeup, the join and a stutter keep it as well.      *)
LEMMA OtherStepInv == IInv /\ (Environment \/ Join \/ UNCHANGED vars) => IInv'
<1> SUFFICES ASSUME IInv PROVE (Environment \/ Join \/ UNCHANGED vars) => IInv'
  OBVIOUS
<1> USE SizeAssumption, TreeAssumption DEF IInv, TypeOK, WalkInv
<1>1. CASE Interrupt
  BY <1>1 DEF Interrupt, walkVars, ringVars, workerVars, ExitedMeansDrained
<1>2. CASE SpuriousWakeup
  BY <1>2 DEF SpuriousWakeup, walkVars, ringVars, workerVars, ExitedMeansDrained
<1>3. CASE Join
  BY <1>3 DEF Join, walkVars, ringVars, workerVars, ExitedMeansDrained
<1>4. CASE UNCHANGED vars
  BY <1>4 DEF vars, walkVars, ringVars, workerVars, ExitedMeansDrained
<1> QED
  BY <1>1, <1>2, <1>3, <1>4 DEF Environment

(* The inductive invariant holds throughout.                               *)
THEOREM Invariance == Spec => []IInv
<1>1. IInv /\ [Next]_vars => IInv'
  BY WalkStepInv, BufferStepInv, WorkerStepInv, OtherStepInv
     DEF Next, ThreadStep, ManagerStep, Terminated
<1> QED
  BY InitInv, <1>1, PTL DEF Spec

(* Every variable keeps its type: the ring's indices and count stay in     *)
(* range for every buffer size (worker_thread and process_directory).      *)
THEOREM TypeCorrect == Spec => []TypeOK
  BY Invariance, PTL DEF IInv

(* A worker that has left its loop leaves a drained buffer, for good: no   *)
(* pair put in the buffer is stranded by SIGINT or by the end of the walk. *)
THEOREM Drained == Spec => []ExitedMeansDrained
  BY Invariance, PTL DEF IInv

-----------------------------------------------------------------------------
(* The ring.                                                               *)

SlotAt(o, i) == (o + i) % BufferSize

(* One turn of the ring at most: the remainder is a subtraction.           *)
LEMMA Remainder ==
    ASSUME NEW x \in Nat, x < 2 * BufferSize
    PROVE  x % BufferSize = IF x < BufferSize THEN x ELSE x - BufferSize
<1>1. BufferSize \in Nat \ {0}
  BY SizeAssumption
<1>2. CASE x < BufferSize
  BY <1>1, <1>2
<1>3. CASE ~(x < BufferSize)
  <2>1. x - BufferSize \in 0..(BufferSize - 1) /\ x = BufferSize * 1 + (x - BufferSize)
    BY <1>1, <1>3
  <2> QED
    BY <1>1, <1>3, <2>1
<1> QED
  BY <1>2, <1>3

(* The slot i places after slot o, with the wrap spelt out.                *)
LEMMA SlotFacts ==
    ASSUME NEW o \in Slots, NEW i \in 0..BufferSize
    PROVE  /\ SlotAt(o, i) \in Slots
           /\ SlotAt(o, i) = IF o + i < BufferSize THEN o + i ELSE o + i - BufferSize
<1>1. BufferSize \in Nat \ {0} /\ o \in Nat /\ i \in Nat /\ o + i < 2 * BufferSize
  BY SizeAssumption DEF Slots
<1>2. SlotAt(o, i) = IF o + i < BufferSize THEN o + i ELSE o + i - BufferSize
  BY <1>1, Remainder DEF SlotAt
<1> QED
  BY <1>1, <1>2 DEF Slots

(* Fewer than BufferSize places apart, slots differ.                       *)
LEMMA SlotsDiffer ==
    ASSUME NEW o \in Slots, NEW i \in 0..(BufferSize - 1), NEW j \in 0..(BufferSize - 1),
           SlotAt(o, i) = SlotAt(o, j)
    PROVE  i = j
<1>1. BufferSize \in Nat \ {0} /\ o \in Nat /\ o < BufferSize
  BY SizeAssumption DEF Slots
<1> QED
  BY <1>1, SlotFacts

(* Advancing is one place further, wherever counting began.                *)
LEMMA AdvanceSlot ==
    ASSUME NEW o \in Slots, NEW i \in 0..(BufferSize - 1)
    PROVE  Advance(SlotAt(o, i)) = SlotAt(o, i + 1) /\ SlotAt(Advance(o), i) = SlotAt(o, i + 1)
           /\ SlotAt(o, 0) = o
<1>1. BufferSize \in Nat \ {0} /\ o \in Nat /\ o < BufferSize /\ i \in Nat /\ i < BufferSize
  BY SizeAssumption DEF Slots
<1>2. SlotAt(o, i) \in Slots /\ SlotAt(o, i) = IF o + i < BufferSize THEN o + i ELSE o + i - BufferSize
  BY <1>1, SlotFacts
<1>3. SlotAt(o, i + 1) = IF o + i + 1 < BufferSize THEN o + i + 1 ELSE o + i + 1 - BufferSize
  BY <1>1, SlotFacts
<1>4. ASSUME NEW s \in Slots
      PROVE  Advance(s) = IF s + 1 < BufferSize THEN s + 1 ELSE s + 1 - BufferSize
  <2>1. s + 1 \in Nat /\ s + 1 < 2 * BufferSize
    BY <1>1 DEF Slots
  <2>2. (s + 1) % BufferSize = IF s + 1 < BufferSize THEN s + 1 ELSE s + 1 - BufferSize
    BY <1>1, <2>1, Remainder
  <2> QED
    BY <2>2 DEF Advance
<1>5. Advance(SlotAt(o, i)) = SlotAt(o, i + 1)
  BY <1>1, <1>2, <1>3, <1>4
<1>6. Advance(o) \in Slots /\ Advance(o) = IF o + 1 < BufferSize THEN o + 1 ELSE o + 1 - BufferSize
  BY <1>4, NextSlot
<1>7. SlotAt(Advance(o), i) = IF Advance(o) + i < BufferSize THEN Advance(o) + i
                              ELSE Advance(o) + i - BufferSize
  BY <1>1, <1>6, SlotFacts
<1>8. SlotAt(Advance(o), i) = SlotAt(o, i + 1)
  BY <1>1, <1>3, <1>6, <1>7
<1>9. SlotAt(o, 0) = o
  BY <1>1, SlotFacts
<1> QED
  BY <1>5, <1>8, <1>9

(* The pairs queued lie between out and in.                                *)
RingInv == in = SlotAt(out, count)

(* The live slots are the count slots from out on.                         *)
LEMMA LiveSlots == Live = {SlotAt(out, i) : i \in 0..(count - 1)}
  BY DEF Live, SlotAt

(* Enqueue adds the slot it fills to the live part, Dequeue takes the      *)
(* oldest out.                                                             *)
LEMMA RingPut ==
    ASSUME TypeOK, RingInv, count # BufferSize,
           in' = Advance(in), out' = out, count' = count + 1
    PROVE  Live' = Live \cup {in} /\ in \notin Live /\ RingInv'
<1>1. /\ BufferSize \in Nat \ {0} /\ out \in Slots /\ count \in 0..(BufferSize - 1)
      /\ count \in Nat /\ count < BufferSize
  BY SizeAssumption DEF TypeOK
<1>2. Live' = {SlotAt(out, i) : i \in 0..count}
  BY <1>1 DEF Live, SlotAt
<1>3. 0..count = (0..(count - 1)) \cup {count}
  BY <1>1
<1>4. Live' = Live \cup {in}
  BY <1>2, <1>3, LiveSlots DEF RingInv
<1>5. in \notin Live
  <2> SUFFICES ASSUME NEW i \in 0..(count - 1), SlotAt(out, i) = SlotAt(out, count) PROVE FALSE
    BY LiveSlots DEF RingInv
  <2>1. i \in 0..(BufferSize - 1)
    BY <1>1
  <2>2. i = count
    BY <1>1, <2>1, SlotsDiffer
  <2> QED
    BY <1>1, <2>2
<1>6. RingInv'
  BY <1>1, AdvanceSlot DEF RingInv
<1> QED
  BY <1>4, <1>5, <1>6

(* A dequeue takes the slot out points at, a live one, from the live       *)
(* slots.                                                                  *)
LEMMA RingTake ==
    ASSUME TypeOK, RingInv, count # 0,
           in' = in, out' = Advance(out), count' = count - 1
    PROVE  Live' = Live \ {out} /\ out \in Live /\ RingInv'
<1>1. /\ BufferSize \in Nat \ {0} /\ out \in Slots /\ count \in 1..BufferSize
      /\ count \in Nat /\ count <= BufferSize
  BY SizeAssumption DEF TypeOK
<1>2. \A i \in 0..(count - 2) : SlotAt(out', i) = SlotAt(out, i + 1)
  <2> SUFFICES ASSUME NEW i \in 0..(count - 2) PROVE SlotAt(out', i) = SlotAt(out, i + 1)
    OBVIOUS
  <2>1. i \in 0..(BufferSize - 1)
    BY <1>1
  <2> QED
    BY <1>1, <2>1, AdvanceSlot
<1>3. Live' = {SlotAt(out', i) : i \in 0..(count - 2)}
  <2>1. count' - 1 = count - 2
    BY <1>1
  <2> QED
    BY <2>1 DEF Live, SlotAt
<1>4. out = SlotAt(out, 0) /\ out \in Live
  <2>1. 0 \in 0..(BufferSize - 1) /\ 0 \in 0..(count - 1)
    BY <1>1
  <2> QED
    BY <1>1, <2>1, AdvanceSlot, LiveSlots
<1>5. ASSUME NEW x \in Live' PROVE x \in Live \ {out}
  <2>1. PICK i \in 0..(count - 2) : x = SlotAt(out, i + 1)
    BY <1>2, <1>3
  <2>2. i + 1 \in 0..(count - 1) /\ i + 1 \in 0..(BufferSize - 1) /\ i + 1 # 0
        /\ 0 \in 0..(BufferSize - 1)
    BY <1>1
  <2> QED
    BY <1>1, <1>4, <2>1, <2>2, SlotsDiffer, LiveSlots
<1>6. ASSUME NEW x \in Live, x # out PROVE x \in Live'
  <2>1. PICK i \in 0..(count - 1) : x = SlotAt(out, i)
    BY LiveSlots
  <2>2. i # 0
    BY <1>4, <1>6, <2>1
  <2>3. i - 1 \in 0..(count - 2) /\ (i - 1) + 1 = i
    BY <1>1, <2>2
  <2> QED
    BY <1>2, <1>3, <2>1, <2>3
<1>7. RingInv'
  <2>1. count - 1 \in 0..(BufferSize - 1) /\ (count - 1) + 1 = count
    BY <1>1
  <2> QED
    BY <1>1, <2>1, AdvanceSlot DEF RingInv
<1> QED
  BY <1>4, <1>5, <1>6, <1>7

-----------------------------------------------------------------------------
(* Sleepers.                                                               *)

(* Only a worker in its loop sleeps on not_empty.                          *)
SleepersLoop == \A w \in notEmpty : wpc[w] = "loop"

WakeInv == SleepersLoop /\ NoLostWakeup

Awake == {w \in Workers : AtLoop(w)}

(* There are finitely many workers to count.                               *)
LEMMA AwakeIsFinite ==
    ASSUME NEW S \in SUBSET Workers PROVE IsFiniteSet(S) /\ Cardinality(S) \in Nat
  BY WorkersAssumption, FS_Subset, FS_CardinalityType

(* More workers awake do no harm; a signal wakes one for a new pair, and a *)
(* worker that takes a pair leaves with it.                                *)
LEMMA WakeStep ==
    ASSUME TypeOK, SleepersLoop, WalkInv, NoLostWakeup, [Next]_vars
    PROVE  WakeInv'
<1> DEFINE enough == count <= Cardinality(Awake)
<1>1. count \in Nat /\ BufferSize \in Nat \ {0} /\ notEmpty \subseteq Workers
      /\ Awake \in SUBSET Workers /\ Awake' \in SUBSET Workers
      /\ IsFiniteSet(Awake) /\ IsFiniteSet(Awake')
      /\ Cardinality(Awake) \in Nat /\ Cardinality(Awake') \in Nat
  <2>1. Awake \in SUBSET Workers /\ Awake' \in SUBSET Workers
    BY DEF Awake
  <2> QED
    BY <2>1, AwakeIsFinite, SizeAssumption DEF TypeOK
<1>2. /\ notEmpty # {} => count <= Cardinality(Awake) /\ ~done
      /\ notFull => mpc = "put" /\ count = BufferSize
  BY DEF NoLostWakeup, Awake
<1>3. ASSUME SleepersLoop',
             notEmpty' # {} => count' <= Cardinality(Awake') /\ ~done',
             notFull' => mpc' = "put" /\ count' = BufferSize
      PROVE  WakeInv'
  BY <1>3 DEF WakeInv, NoLostWakeup, Awake
<1>4. ASSUME Awake \subseteq Awake' PROVE Cardinality(Awake) <= Cardinality(Awake')
  BY <1>1, <1>4, FS_Subset
<1>5. CASE UNCHANGED <<mpc, count, done, notEmpty, notFull, wpc>>
  <2>1. Awake' = Awake
    BY <1>5 DEF Awake, AtLoop
  <2> QED
    BY <1>2, <1>3, <1>5, <2>1 DEF SleepersLoop
<1>6. CASE OpenDir \/ (\E e \in Entries : ReadEntry(e)) \/ CloseDir \/ OpenSource \/ OpenDest
  <2>1. UNCHANGED <<count, done, notEmpty, notFull, wpc>> /\ mpc # "put"
    BY <1>6 DEF OpenDir, ReadEntry, CloseDir, OpenSource, OpenDest, ringVars, workerVars
  <2>2. Awake' = Awake
    BY <2>1 DEF Awake, AtLoop
  <2> QED
    BY <1>2, <1>3, <2>1, <2>2 DEF SleepersLoop
<1>7. CASE WaitNotFull \/ Discard
  <2>1. /\ UNCHANGED <<count, done, notEmpty, wpc>>
        /\ notFull' => mpc' = "put" /\ count' = BufferSize
    BY <1>7 DEF WaitNotFull, Discard, ringVars, workerVars
  <2>2. Awake' = Awake
    BY <2>1 DEF Awake, AtLoop
  <2> QED
    BY <1>2, <1>3, <2>1, <2>2 DEF SleepersLoop
<1>8. CASE Enqueue
  <2>1. ~notFull' /\ count' = count + 1 /\ wpc' = wpc /\ done' = done
    BY <1>8 DEF Enqueue, workerVars
  <2>2. CASE notEmpty' = {}
    BY <1>3, <2>1, <2>2 DEF SleepersLoop
  <2>3. ASSUME NEW w \in notEmpty, notEmpty' = notEmpty \ {w} PROVE WakeInv'
    <3>1. w \notin Awake /\ Awake' = Awake \cup {w}
      BY <1>1, <2>1, <2>3 DEF Awake, AtLoop, SleepersLoop
    <3>2. Cardinality(Awake') = Cardinality(Awake) + 1
      BY <1>1, <3>1, FS_AddElement
    <3>3. SleepersLoop'
      BY <2>1, <2>3 DEF SleepersLoop
    <3> QED
      BY <1>1, <1>2, <1>3, <2>1, <2>3, <3>2, <3>3
  <2> QED
    BY <1>8, <2>2, <2>3 DEF Enqueue, SignalNotEmpty
<1>9. CASE FinishWalk
  BY <1>2, <1>3, <1>9 DEF FinishWalk, Broadcast, SleepersLoop
<1>10. ASSUME NEW w \in Workers, WaitNotEmpty(w) \/ Exit(w) PROVE WakeInv'
  <2>1. UNCHANGED <<mpc, count, done, notFull>> /\ count = 0
    BY <1>10 DEF WaitNotEmpty, Exit, MayLeave, ringVars
  <2>2. SleepersLoop'
    BY <1>10 DEF WaitNotEmpty, Exit, AtLoop, SleepersLoop, workerVars, TypeOK
  <2>3. notEmpty' # {} => ~done
    BY <1>2, <1>10 DEF WaitNotEmpty, Exit
  <2> QED
    BY <1>1, <1>2, <1>3, <2>1, <2>2, <2>3
<1>11. ASSUME NEW w \in Workers, Dequeue(w) PROVE WakeInv'
  <2>1. ~notFull' /\ count' = count - 1 /\ count # 0 /\ UNCHANGED <<done, notEmpty>>
        /\ wpc' = [wpc EXCEPT ![w] = "copy"] /\ w \in Awake
    BY <1>11 DEF Dequeue, SignalNotFull, Awake
  <2>2. Awake' = Awake \ {w}
    BY <2>1 DEF Awake, AtLoop, TypeOK
  <2>3. Cardinality(Awake') = Cardinality(Awake) - 1
    BY <1>1, <2>1, <2>2, FS_RemoveElement
  <2>4. SleepersLoop'
    BY <2>1 DEF SleepersLoop, Awake, AtLoop, TypeOK
  <2> QED
    BY <1>1, <1>2, <1>3, <2>1, <2>3, <2>4
<1>12. ASSUME NEW w \in Workers, CopyFile(w) \/ CloseSource(w) \/ CloseDest(w) \/ Account(w)
       PROVE  WakeInv'
  <2>1. UNCHANGED <<mpc, count, done, notFull, notEmpty>> /\ wpc[w] # "loop"
        /\ \A v \in Workers : v # w => wpc'[v] = wpc[v]
    BY <1>12 DEF CopyFile, CloseSource, CloseDest, Account, ringVars, TypeOK
  <2>2. Awake \subseteq Awake' /\ SleepersLoop'
    BY <1>1, <2>1 DEF Awake, AtLoop, SleepersLoop
  <2> QED
    BY <1>1, <1>2, <1>3, <1>4, <2>1, <2>2
<1>13. CASE SpuriousWakeup
  <2>1. UNCHANGED <<mpc, count, done, wpc>> /\ notEmpty' \subseteq notEmpty
        /\ (notFull' => notFull)
    BY <1>13 DEF SpuriousWakeup, ringVars, workerVars
  <2>2. Awake \subseteq Awake' /\ SleepersLoop'
    BY <2>1 DEF Awake, AtLoop, SleepersLoop
  <2> QED
    BY <1>1, <1>2, <1>3, <1>4, <2>1, <2>2
<1>14. CASE Interrupt \/ Join \/ Terminated \/ UNCHANGED vars
  BY <1>5, <1>14 DEF Interrupt, Join, Terminated, vars, ringVars, workerVars
<1> QED
  BY <1>6, <1>7, <1>8, <1>9, <1>10, <1>11, <1>12, <1>13, <1>14
     DEF Next, ThreadStep, ManagerStep, WorkerStep, Environment

-----------------------------------------------------------------------------
(* The walk.                                                               *)

(* Opening a directory puts it in front of those open, closing one takes   *)
(* the front away.                                                         *)
LEMMA Push ==
    ASSUME NEW S, NEW s \in Seq(S), NEW x \in S
    PROVE  /\ DOMAIN (<<x>> \o s) = 1..(Len(s) + 1) /\ (<<x>> \o s)[1] = x
           /\ \A i \in 1..Len(s) : (<<x>> \o s)[i + 1] = s[i]
           /\ DOMAIN s = 1..Len(s) /\ Len(s) \in Nat
<1>1. <<x>> \in Seq(S) /\ Len(<<x>>) = 1 /\ <<x>>[1] = x
  OBVIOUS
<1> QED
  BY <1>1

(* What Tail does to a stack.                                              *)
LEMMA Pop ==
    ASSUME NEW S, NEW s \in Seq(S), s # <<>>
    PROVE  /\ DOMAIN Tail(s) = 1..(Len(s) - 1) /\ Head(s) = s[1] /\ Head(s) \in S
           /\ \A i \in 1..(Len(s) - 1) : Tail(s)[i] = s[i + 1]
           /\ DOMAIN s = 1..Len(s) /\ Len(s) \in Nat \ {0}
  OBVIOUS

OpenDirs == {dirs[i] : i \in DOMAIN dirs}

(* No directory is open twice, and none that is open or about to be opened *)
(* will be returned by readdir again.                                      *)
DirsInv == /\ \A i, j \in DOMAIN dirs : dirs[i] = dirs[j] => i = j
           /\ OpenDirs \cap unread = {}
           /\ mpc = "opendir" => cur \notin unread \cup OpenDirs

(* opendir puts one more directory, one that is not open, on the stack.    *)
LEMMA OpenPushes ==
    ASSUME TypeOK, DirsInv, cur \in Directories, mpc = "opendir", dirs' = <<cur>> \o dirs
    PROVE  /\ OpenDirs' = OpenDirs \cup {cur}
           /\ \A i, j \in DOMAIN dirs' : dirs'[i] = dirs'[j] => i = j
<1> DEFINE n == Len(dirs)
<1>1. /\ DOMAIN dirs' = 1..(n + 1) /\ dirs'[1] = cur
      /\ \A i \in 1..n : dirs'[i + 1] = dirs[i]
      /\ DOMAIN dirs = 1..n /\ n \in Nat
  BY Push DEF TypeOK
<1> HIDE DEF n
<1>2. \A j \in 1..(n + 1) : j = 1 \/ (j - 1 \in 1..n /\ dirs'[j] = dirs[j - 1])
  <2> SUFFICES ASSUME NEW j \in 1..(n + 1), j # 1 PROVE j - 1 \in 1..n /\ dirs'[j] = dirs[j - 1]
    OBVIOUS
  <2>1. j - 1 \in 1..n /\ (j - 1) + 1 = j
    BY <1>1
  <2> QED
    BY <1>1, <2>1
<1>3. OpenDirs' = OpenDirs \cup {cur}
  <2>1. OpenDirs' \subseteq OpenDirs \cup {cur}
    BY <1>1, <1>2 DEF OpenDirs
  <2>2. 1 \in 1..(n + 1) /\ \A i \in 1..n : i + 1 \in 1..(n + 1)
    BY <1>1
  <2>3. \A i \in 1..n : dirs[i] \in OpenDirs'
    BY <1>1, <2>2 DEF OpenDirs
  <2>4. cur \in OpenDirs'
    BY <1>1, <2>2 DEF OpenDirs
  <2> QED
    BY <1>1, <2>1, <2>3, <2>4 DEF OpenDirs
<1>4. \A i \in 1..n : dirs[i] # cur
  BY <1>1 DEF DirsInv, OpenDirs
<1>5. ASSUME NEW i \in 1..(n + 1), NEW j \in 1..(n + 1), dirs'[i] = dirs'[j] PROVE i = j
  <2>1. (i = 1 /\ dirs'[i] = cur) \/ (i - 1 \in 1..n /\ dirs'[i] = dirs[i - 1])
    BY <1>1, <1>2
  <2>2. (j = 1 /\ dirs'[j] = cur) \/ (j - 1 \in 1..n /\ dirs'[j] = dirs[j - 1])
    BY <1>1, <1>2
  <2>3. CASE i - 1 \in 1..n /\ j - 1 \in 1..n /\ dirs[i - 1] = dirs[j - 1]
    <3>1. i - 1 = j - 1
      BY <1>1, <2>3 DEF DirsInv
    <3> QED
      BY <1>1, <3>1
  <2> QED
    BY <1>4, <1>5, <2>1, <2>2, <2>3
<1> QED
  BY <1>1, <1>3, <1>5

(* closedir takes the innermost directory off the stack.                   *)
LEMMA ClosePops ==
    ASSUME TypeOK, DirsInv, dirs # <<>>, dirs' = Tail(dirs)
    PROVE  /\ OpenDirs' = OpenDirs \ {Head(dirs)} /\ Head(dirs) \in OpenDirs
           /\ \A i, j \in DOMAIN dirs' : dirs'[i] = dirs'[j] => i = j
<1> DEFINE n == Len(dirs)
<1>1. /\ DOMAIN dirs' = 1..(n - 1) /\ Head(dirs) = dirs[1]
      /\ \A i \in 1..(n - 1) : dirs'[i] = dirs[i + 1]
      /\ DOMAIN dirs = 1..n /\ n \in Nat \ {0}
  BY Pop DEF TypeOK
<1> HIDE DEF n
<1>2. \A i \in 1..(n - 1) : i + 1 \in 1..n /\ i + 1 # 1 /\ dirs'[i] = dirs[i + 1]
  BY <1>1
<1>3. \A i \in 1..n : i # 1 => i - 1 \in 1..(n - 1) /\ (i - 1) + 1 = i
  BY <1>1
<1>4. 1 \in 1..n
  BY <1>1
<1>5. ASSUME NEW d \in OpenDirs' PROVE d \in OpenDirs \ {Head(dirs)}
  <2>1. PICK i \in 1..(n - 1) : d = dirs[i + 1]
    BY <1>1, <1>2 DEF OpenDirs
  <2>2. d # dirs[1]
    BY <1>1, <1>2, <1>4, <2>1 DEF DirsInv
  <2> QED
    BY <1>1, <1>2, <2>1, <2>2 DEF OpenDirs
<1>6. ASSUME NEW d \in OpenDirs, d # Head(dirs) PROVE d \in OpenDirs'
  <2>1. PICK i \in 1..n : d = dirs[i] /\ i # 1
    BY <1>1, <1>6 DEF OpenDirs
  <2>2. d = dirs'[i - 1] /\ i - 1 \in 1..(n - 1)
    BY <1>1, <1>3, <2>1
  <2> QED
    BY <1>1, <2>2 DEF OpenDirs
<1>7. Head(dirs) \in OpenDirs
  BY <1>1, <1>4 DEF OpenDirs
<1>8. ASSUME NEW i \in 1..(n - 1), NEW j \in 1..(n - 1), dirs'[i] = dirs'[j] PROVE i = j
  <2>1. i + 1 = j + 1
    BY <1>1, <1>2, <1>8 DEF DirsInv
  <2> QED
    BY <1>1, <2>1
<1> QED
  BY <1>1, <1>5, <1>6, <1>7, <1>8

(* No step opens a directory that is open already.                         *)
LEMMA DirsStep ==
    ASSUME TypeOK, WalkInv, DirsInv, [Next]_vars
    PROVE  DirsInv'
<1>1. CASE UNCHANGED dirs /\ unread' \subseteq unread /\ mpc' # "opendir"
  BY <1>1 DEF DirsInv, OpenDirs
<1>2. CASE UNCHANGED <<dirs, unread, mpc, cur>>
  BY <1>2 DEF DirsInv, OpenDirs
<1>3. CASE OpenDir
  <2>1. unread' = unread /\ mpc' # "opendir" /\ cur \notin unread
    BY <1>3 DEF OpenDir, ReturnTo, DirsInv
  <2>2. CASE dirs' = dirs
    BY <1>1, <2>1, <2>2
  <2>3. CASE dirs' = <<cur>> \o dirs
    <3>1. /\ OpenDirs' = OpenDirs \cup {cur}
          /\ \A i, j \in DOMAIN dirs' : dirs'[i] = dirs'[j] => i = j
      BY <1>3, <2>3, OpenPushes DEF OpenDir, WalkInv
    <3>2. OpenDirs' \cap unread' = {}
      BY <2>1, <3>1 DEF DirsInv
    <3> QED
      BY <2>1, <3>1, <3>2 DEF DirsInv
  <2> QED
    BY <1>3, <2>2, <2>3 DEF OpenDir
<1>4. ASSUME NEW e \in Entries, ReadEntry(e) PROVE DirsInv'
  <2>1. dirs' = dirs /\ unread' = unread \ {e} /\ cur' = e /\ e \in unread
    BY <1>4 DEF ReadEntry, Walks, Here
  <2>2. OpenDirs' = OpenDirs
    BY <2>1 DEF OpenDirs
  <2>3. e \notin OpenDirs /\ OpenDirs \cap unread' = {}
    BY <2>1 DEF DirsInv
  <2> QED
    BY <2>1, <2>2, <2>3 DEF DirsInv
<1>5. CASE CloseDir
  <2>1. unread' = unread /\ mpc' # "opendir" /\ dirs # <<>> /\ dirs' = Tail(dirs)
    BY <1>5 DEF CloseDir, ReturnTo, WalkInv
  <2>2. /\ OpenDirs' = OpenDirs \ {Head(dirs)}
        /\ \A i, j \in DOMAIN dirs' : dirs'[i] = dirs'[j] => i = j
    BY <2>1, ClosePops
  <2> QED
    BY <2>1, <2>2 DEF DirsInv
<1>6. CASE OpenSource \/ OpenDest \/ WaitNotFull \/ Discard \/ Enqueue \/ FinishWalk
  <2>1. UNCHANGED <<dirs, unread>>
    BY <1>6 DEF OpenSource, OpenDest, WaitNotFull, Discard, Enqueue, FinishWalk, walkVars
  <2>2. mpc' # "opendir"
    BY <1>6 DEF OpenSource, OpenDest, WaitNotFull, Discard, Enqueue, FinishWalk
  <2> QED
    BY <1>1, <2>1, <2>2
<1>7. CASE (\E w \in Workers : WorkerStep(w)) \/ Environment \/ Join \/ Terminated \/ UNCHANGED vars
  BY <1>2, <1>7 DEF WorkerStep, WaitNotEmpty, Exit, Dequeue, CopyFile, CloseSource, CloseDest,
     Account, Environment, Interrupt, SpuriousWakeup, Join, Terminated, vars, walkVars
<1> QED
  BY <1>3, <1>4, <1>5, <1>6, <1>7 DEF Next, ThreadStep, ManagerStep

-----------------------------------------------------------------------------
(* Where each file is.                                                     *)

QueueDistinct == \A i, j \in Live : buffer[i] = buffer[j] => i = j

(* A file that readdir has yet to return has no copy; one that is queued   *)
(* has an empty copy, and so has one a worker has only taken; what the     *)
(* manager is opening is neither queued nor taken.                         *)
Fresh    == \A f \in Regulars : f \in unread => dst[f] = "absent"
QueuedOK == \A f \in QueuedFiles : f \in Regulars /\ f \notin unread /\ dst[f] = "empty"
HeldOK   == \A w \in Workers :
    /\ wpc[w] \in {"loop", "exit"} => held[w] = NoFile
    /\ wpc[w] \notin {"loop", "exit"} =>
          held[w] \in Regulars /\ held[w] \notin unread /\ held[w] \notin QueuedFiles
    /\ wpc[w] = "copy" => dst[held[w]] = "empty"
    /\ wpc[w] \in {"close", "closedst", "account"} => dst[held[w]] \in {"full", "partial"}
HeldDistinct == \A v, w \in Workers : held[v] = held[w] /\ held[v] # NoFile => v = w
CurOK == mpc \in {"opensrc", "opendst", "put"} =>
    /\ cur \notin unread /\ cur \notin QueuedFiles
    /\ \A w \in Workers : held[w] # cur
    /\ dst[cur] = IF mpc = "put" THEN "empty" ELSE "absent"

PlaceInv == RingInv /\ QueueDistinct /\ Fresh /\ QueuedOK /\ HeldOK /\ HeldDistinct /\ CurOK

(* A regular file is an entry of the tree, and not the mark of no file.    *)
LEMMA RegularsAreFiles == Regulars \subseteq Entries /\ NoFile \notin Regulars
                          /\ Root \notin Regulars /\ NoFile \notin Entries
  BY TreeAssumption DEF Regulars

(* An enqueue adds the manager's file to the queued ones.                  *)
LEMMA PutEffect ==
    ASSUME TypeOK, RingInv, QueueDistinct, cur \notin QueuedFiles, Enqueue
    PROVE  RingInv' /\ QueueDistinct' /\ QueuedFiles' = QueuedFiles \cup {cur}
<1>1. Live' = Live \cup {in} /\ in \notin Live /\ RingInv'
  BY RingPut DEF Enqueue, MayQueue
<1>2. \A i \in Live : i \in Slots
  BY SlotFacts, SizeAssumption, LiveSlots DEF TypeOK
<1>3. buffer'[in] = cur /\ \A i \in Live : buffer'[i] = buffer[i]
  BY <1>1, <1>2 DEF Enqueue, TypeOK
<1>4. QueuedFiles' = QueuedFiles \cup {cur}
  BY <1>1, <1>3 DEF QueuedFiles
<1>5. QueueDistinct'
  BY <1>1, <1>3 DEF QueueDistinct, QueuedFiles
<1> QED
  BY <1>1, <1>4, <1>5

(* A dequeue takes the file at out, and no other, from the queued ones.    *)
LEMMA TakeEffect ==
    ASSUME TypeOK, RingInv, QueueDistinct, NEW w \in Workers, Dequeue(w)
    PROVE  /\ RingInv' /\ QueueDistinct' /\ buffer[out] \in QueuedFiles
           /\ QueuedFiles' = QueuedFiles \ {buffer[out]}
<1>1. Live' = Live \ {out} /\ out \in Live /\ RingInv' /\ buffer' = buffer
  BY RingTake DEF Dequeue
<1>2. QueuedFiles' = QueuedFiles \ {buffer[out]} /\ buffer[out] \in QueuedFiles
  BY <1>1 DEF QueuedFiles, QueueDistinct
<1>3. QueueDistinct'
  BY <1>1 DEF QueueDistinct
<1> QED
  BY <1>1, <1>2, <1>3

(* A step that leaves the ring alone leaves the queued files alone.        *)
LEMMA SameQueue ==
    ASSUME UNCHANGED ringVars
    PROVE  (RingInv => RingInv') /\ (QueueDistinct => QueueDistinct') /\ QueuedFiles' = QueuedFiles
<1>1. Live' = Live
  BY DEF Live, ringVars
<1> QED
  BY <1>1 DEF ringVars, RingInv, SlotAt, QueueDistinct, QueuedFiles

(* A step that moves no file.                                              *)
LEMMA QuietPlace ==
    ASSUME PlaceInv, UNCHANGED <<ringVars, unread, cur, dst, held>>,
           mpc' \in {"opensrc", "opendst", "put"} =>
              mpc' = mpc \/ (mpc = "opensrc" /\ mpc' = "opendst"),
           \A v \in Workers : \/ wpc'[v] = wpc[v]
                              \/ {wpc[v], wpc'[v]} \subseteq {"loop", "exit"}
                              \/ {wpc[v], wpc'[v]} \subseteq {"close", "closedst", "account"}
    PROVE  PlaceInv'
<1>1. RingInv' /\ QueueDistinct' /\ QueuedFiles' = QueuedFiles
  BY SameQueue DEF PlaceInv
<1>2. Fresh' /\ QueuedOK'
  BY <1>1 DEF PlaceInv, Fresh, QueuedOK
<1>3. HeldOK'
  <2> SUFFICES ASSUME NEW v \in Workers
      PROVE  /\ wpc'[v] \in {"loop", "exit"} => held[v] = NoFile
             /\ wpc'[v] \notin {"loop", "exit"} =>
                   held[v] \in Regulars /\ held[v] \notin unread /\ held[v] \notin QueuedFiles
             /\ wpc'[v] = "copy" => dst[held[v]] = "empty"
             /\ wpc'[v] \in {"close", "closedst", "account"} => dst[held[v]] \in {"full", "partial"}
    BY <1>1 DEF HeldOK
  <2>1. CASE wpc'[v] = wpc[v]
    BY <2>1 DEF PlaceInv, HeldOK
  <2>2. CASE {wpc[v], wpc'[v]} \subseteq {"loop", "exit"}
    BY <2>2 DEF PlaceInv, HeldOK
  <2>3. CASE {wpc[v], wpc'[v]} \subseteq {"close", "closedst", "account"}
    BY <2>3 DEF PlaceInv, HeldOK
  <2> QED
    BY <2>1, <2>2, <2>3
<1>4. HeldDistinct'
  BY DEF PlaceInv, HeldDistinct
<1>5. CurOK'
  BY <1>1 DEF PlaceInv, CurOK
<1> QED
  BY <1>1, <1>2, <1>3, <1>4, <1>5 DEF PlaceInv

(* readdir returns a file that is nowhere yet.                             *)
LEMMA ReadPlace ==
    ASSUME TypeOK, PlaceInv, NEW e \in Entries, ReadEntry(e)
    PROVE  PlaceInv'
<1>1. /\ e \in unread /\ unread' = unread \ {e} /\ cur' = e
      /\ UNCHANGED <<ringVars, held, wpc>> /\ mpc' \notin {"opendst", "put"}
      /\ mpc' = "opensrc" => e \in Regulars
  BY DEF ReadEntry, Walks, Here, workerVars, Regulars
<1>2. \A f \in Regulars : dst'[f] = dst[f]
  BY RegularsAreFiles DEF ReadEntry, TypeOK, Regulars
<1>3. RingInv' /\ QueueDistinct' /\ QueuedFiles' = QueuedFiles
  BY <1>1, SameQueue DEF PlaceInv
<1>4. Fresh' /\ QueuedOK'
  BY <1>1, <1>2, <1>3 DEF PlaceInv, Fresh, QueuedOK
<1>5. HeldOK'
  BY <1>1, <1>2, <1>3 DEF PlaceInv, HeldOK, TypeOK
<1>6. HeldDistinct'
  BY <1>1 DEF PlaceInv, HeldDistinct
<1>7. CurOK'
  <2>1. e \notin unread' /\ e \notin QueuedFiles
    BY <1>1 DEF PlaceInv, QueuedOK
  <2>2. \A w \in Workers : held[w] # e
    BY <1>1, RegularsAreFiles DEF PlaceInv, HeldOK
  <2>3. e \in Regulars => dst[e] = "absent"
    BY <1>1 DEF PlaceInv, Fresh
  <2> QED
    BY <1>1, <1>2, <1>3, <2>1, <2>2, <2>3 DEF CurOK
<1> QED
  BY <1>3, <1>4, <1>5, <1>6, <1>7 DEF PlaceInv

(* The copy is created, and the manager alone knows of it.                 *)
LEMMA OpenPlace ==
    ASSUME TypeOK, WalkInv, PlaceInv, OpenDest
    PROVE  PlaceInv'
<1>1. /\ UNCHANGED <<ringVars, unread, cur, held, wpc>> /\ mpc = "opendst"
      /\ cur \in Regulars
  BY DEF OpenDest, walkVars, workerVars, WalkInv
<1>2. CASE dst' = dst /\ mpc' = "readdir"
  BY <1>1, <1>2, QuietPlace
<1>3. CASE dst' = [dst EXCEPT ![cur] = "empty"] /\ mpc' = "put"
  <2>1. dst'[cur] = "empty" /\ \A f \in Regulars : f # cur => dst'[f] = dst[f]
    BY <1>1, <1>3, RegularsAreFiles DEF TypeOK
  <2>2. RingInv' /\ QueueDistinct' /\ QueuedFiles' = QueuedFiles
    BY <1>1, SameQueue DEF PlaceInv
  <2>3. cur \notin unread /\ cur \notin QueuedFiles /\ \A w \in Workers : held[w] # cur
    BY <1>1 DEF PlaceInv, CurOK
  <2>4. Fresh' /\ QueuedOK'
    BY <1>1, <2>1, <2>2, <2>3 DEF PlaceInv, Fresh, QueuedOK
  <2>5. HeldOK'
    BY <1>1, <2>1, <2>2, <2>3 DEF PlaceInv, HeldOK, TypeOK
  <2>6. HeldDistinct' /\ CurOK'
    BY <1>1, <1>3, <2>1, <2>2, <2>3 DEF PlaceInv, HeldDistinct, CurOK
  <2> QED
    BY <2>2, <2>4, <2>5, <2>6 DEF PlaceInv
<1> QED
  BY <1>2, <1>3 DEF OpenDest

(* A file put into the ring is in the ring only.                           *)
LEMMA EnqueuePlace ==
    ASSUME TypeOK, WalkInv, PlaceInv, Enqueue
    PROVE  PlaceInv'
<1>1. /\ UNCHANGED <<unread, cur, held, wpc, dst>> /\ mpc = "put" /\ mpc' = "readdir"
      /\ cur \in Regulars
  BY DEF Enqueue, workerVars, WalkInv
<1>2. /\ cur \notin unread /\ cur \notin QueuedFiles /\ dst[cur] = "empty"
      /\ \A w \in Workers : held[w] # cur
  BY <1>1 DEF PlaceInv, CurOK
<1>3. RingInv' /\ QueueDistinct' /\ QueuedFiles' = QueuedFiles \cup {cur}
  BY <1>2, PutEffect DEF PlaceInv
<1>4. Fresh' /\ QueuedOK'
  BY <1>1, <1>2, <1>3 DEF PlaceInv, Fresh, QueuedOK
<1>5. HeldOK'
  BY <1>1, <1>2, <1>3 DEF PlaceInv, HeldOK, TypeOK
<1>6. HeldDistinct' /\ CurOK'
  BY <1>1 DEF PlaceInv, HeldDistinct, CurOK
<1> QED
  BY <1>3, <1>4, <1>5, <1>6 DEF PlaceInv

(* A file taken from the ring is in the worker's hands only.               *)
LEMMA DequeuePlace ==
    ASSUME TypeOK, PlaceInv, NEW w \in Workers, Dequeue(w)
    PROVE  PlaceInv'
<1> DEFINE f == buffer[out]
<1>1. /\ UNCHANGED <<unread, cur, dst, mpc>> /\ wpc[w] = "loop"
      /\ wpc'[w] = "copy" /\ held'[w] = f
      /\ \A v \in Workers : v # w => held'[v] = held[v] /\ wpc'[v] = wpc[v]
  BY DEF Dequeue, AtLoop, walkVars, TypeOK
<1> HIDE DEF f
<1>2. /\ RingInv' /\ QueueDistinct' /\ f \in QueuedFiles
      /\ QueuedFiles' = QueuedFiles \ {f}
  BY TakeEffect DEF PlaceInv, f
<1>3. f \in Regulars /\ f \notin unread /\ dst[f] = "empty" /\ \A v \in Workers : held[v] # f
  <2>1. f \in Regulars /\ f \notin unread /\ dst[f] = "empty"
    BY <1>2 DEF PlaceInv, QueuedOK
  <2>2. \A v \in Workers : held[v] # f
    BY <1>2, <2>1, RegularsAreFiles DEF PlaceInv, HeldOK
  <2> QED
    BY <2>1, <2>2
<1>4. Fresh' /\ QueuedOK'
  BY <1>1, <1>2 DEF PlaceInv, Fresh, QueuedOK
<1>5. HeldOK'
  <2>1. ASSUME NEW v \in Workers, v # w
      PROVE  /\ wpc[v] \in {"loop", "exit"} => held[v] = NoFile
             /\ wpc[v] \notin {"loop", "exit"} =>
                   held[v] \in Regulars /\ held[v] \notin unread /\ held[v] \notin QueuedFiles'
             /\ wpc[v] = "copy" => dst[held[v]] = "empty"
             /\ wpc[v] \in {"close", "closedst", "account"} => dst[held[v]] \in {"full", "partial"}
    BY <1>2 DEF PlaceInv, HeldOK
  <2> QED
    BY <1>1, <1>2, <1>3, <2>1 DEF HeldOK
<1>6. HeldDistinct'
  BY <1>1, <1>3 DEF PlaceInv, HeldDistinct
<1>7. CurOK'
  BY <1>1, <1>2, <1>3 DEF PlaceInv, CurOK
<1> QED
  BY <1>2, <1>4, <1>5, <1>6, <1>7 DEF PlaceInv

(* Only its holder writes a copy, and gives the pair up last.              *)
LEMMA CopyPlace ==
    ASSUME TypeOK, PlaceInv, NEW w \in Workers, CopyFile(w)
    PROVE  PlaceInv'
<1> DEFINE f == held[w]
<1>1. /\ UNCHANGED <<ringVars, unread, cur, held, mpc>> /\ wpc[w] = "copy" /\ wpc'[w] = "close"
      /\ \A v \in Workers : v # w => wpc'[v] = wpc[v]
  BY DEF CopyFile, walkVars, TypeOK
<1>2. f \in Regulars /\ f \notin unread /\ f \notin QueuedFiles /\ f # NoFile
  BY <1>1, RegularsAreFiles DEF PlaceInv, HeldOK
<1>3. /\ dst'[f] \in {"full", "partial"}
      /\ \A g \in Regulars : g # f => dst'[g] = dst[g]
  BY <1>2, RegularsAreFiles DEF CopyFile, TypeOK
<1>4. \A v \in Workers : v # w => held[v] # f
  BY <1>2 DEF PlaceInv, HeldDistinct
<1>5. mpc \in {"opensrc", "opendst", "put"} => cur # f
  BY DEF PlaceInv, CurOK
<1> HIDE DEF f
<1>6. RingInv' /\ QueueDistinct' /\ QueuedFiles' = QueuedFiles
  BY <1>1, SameQueue DEF PlaceInv
<1>7. Fresh' /\ QueuedOK'
  BY <1>1, <1>2, <1>3, <1>6 DEF PlaceInv, Fresh, QueuedOK
<1>8. HeldOK'
  <2>1. ASSUME NEW v \in Workers, v # w
      PROVE  /\ wpc[v] \in {"loop", "exit"} => held[v] = NoFile
             /\ wpc[v] \notin {"loop", "exit"} =>
                   held[v] \in Regulars /\ held[v] \notin unread /\ held[v] \notin QueuedFiles
             /\ wpc[v] = "copy" => dst'[held[v]] = "empty"
             /\ wpc[v] \in {"close", "closedst", "account"} => dst'[held[v]] \in {"full", "partial"}
    BY <1>3, <1>4, <2>1 DEF PlaceInv, HeldOK
  <2> QED
    BY <1>1, <1>2, <1>3, <1>6, <2>1 DEF HeldOK, f
<1>9. HeldDistinct'
  BY <1>1 DEF PlaceInv, HeldDistinct
<1>10. CurOK'
  <2>1. mpc \in {"opensrc", "opendst", "put"} => dst'[cur] = dst[cur]
    <3>1. ASSUME cur # f PROVE dst'[cur] = dst[cur]
      BY <3>1 DEF CopyFile, TypeOK, f
    <3> QED
      BY <1>5, <3>1
  <2> QED
    BY <1>1, <1>6, <2>1 DEF PlaceInv, CurOK
<1> QED
  BY <1>6, <1>7, <1>8, <1>9, <1>10 DEF PlaceInv

(* A file accounted for is in nobody's hands.                              *)
LEMMA AccountPlace ==
    ASSUME TypeOK, PlaceInv, NEW w \in Workers, Account(w)
    PROVE  PlaceInv'
<1>1. /\ UNCHANGED <<ringVars, unread, cur, dst, mpc>>
      /\ wpc'[w] = "loop" /\ held'[w] = NoFile
      /\ \A v \in Workers : v # w => held'[v] = held[v] /\ wpc'[v] = wpc[v]
  BY DEF Account, walkVars, TypeOK
<1>2. RingInv' /\ QueueDistinct' /\ QueuedFiles' = QueuedFiles
  BY <1>1, SameQueue DEF PlaceInv
<1>3. Fresh' /\ QueuedOK'
  BY <1>1, <1>2 DEF PlaceInv, Fresh, QueuedOK
<1>4. HeldOK'
  BY <1>1, <1>2 DEF PlaceInv, HeldOK
<1>5. HeldDistinct'
  BY <1>1 DEF PlaceInv, HeldDistinct
<1>6. CurOK'
  <2>1. mpc \in {"opensrc", "opendst", "put"} => cur # NoFile
    BY TreeAssumption DEF TypeOK
  <2> QED
    BY <1>1, <1>2, <2>1 DEF PlaceInv, CurOK
<1> QED
  BY <1>2, <1>3, <1>4, <1>5, <1>6 DEF PlaceInv

(* No step gives a file a second place.                                    *)
LEMMA PlaceStep ==
    ASSUME TypeOK, WalkInv, PlaceInv, [Next]_vars
    PROVE  PlaceInv'
<1>1. CASE OpenDir \/ CloseDir \/ OpenSource \/ WaitNotFull \/ Discard \/ FinishWalk
  <2>1. UNCHANGED <<ringVars, unread, cur, dst, held, wpc>>
    BY <1>1 DEF OpenDir, CloseDir, OpenSource, WaitNotFull, Discard, FinishWalk,
                walkVars, workerVars
  <2>2. mpc' \in {"opensrc", "opendst", "put"} =>
              mpc' = mpc \/ (mpc = "opensrc" /\ mpc' = "opendst")
    BY <1>1 DEF OpenDir, CloseDir, OpenSource, WaitNotFull, Discard, FinishWalk, ReturnTo
  <2> QED
    BY <2>1, <2>2, QuietPlace
<1>2. CASE Environment \/ Join \/ Terminated \/ UNCHANGED vars
  BY <1>2, QuietPlace DEF Environment, Interrupt, SpuriousWakeup, Join, Terminated, vars,
                          walkVars, workerVars
<1>3. ASSUME NEW w \in Workers, WaitNotEmpty(w) \/ Exit(w) \/ CloseSource(w) \/ CloseDest(w)
      PROVE  PlaceInv'
  <2>1. UNCHANGED <<ringVars, unread, cur, dst, held, mpc>>
    BY <1>3 DEF WaitNotEmpty, Exit, CloseSource, CloseDest, walkVars, workerVars
  <2>2. \A v \in Workers : v # w => wpc'[v] = wpc[v]
    BY <1>3 DEF WaitNotEmpty, Exit, CloseSource, CloseDest, workerVars, TypeOK
  <2>3. \/ wpc'[w] = wpc[w]
        \/ {wpc[w], wpc'[w]} \subseteq {"loop", "exit"}
        \/ {wpc[w], wpc'[w]} \subseteq {"close", "closedst", "account"}
    BY <1>3 DEF WaitNotEmpty, Exit, CloseSource, CloseDest, workerVars, TypeOK, AtLoop
  <2> QED
    BY <2>1, <2>2, <2>3, QuietPlace
<1> QED
  BY <1>1, <1>2, <1>3, ReadPlace, OpenPlace, EnqueuePlace, DequeuePlace, CopyPlace, AccountPlace
     DEF Next, ThreadStep, ManagerStep, WorkerStep

-----------------------------------------------------------------------------
(* Who closes what.                                                        *)

HasSrc(f) == \/ f \in QueuedFiles
             \/ f = cur /\ mpc \in {"opendst", "put"}
             \/ \E w \in Workers : held[w] = f /\ wpc[w] \in {"copy", "close"}
HasDst(f) == \/ f \in QueuedFiles
             \/ f = cur /\ mpc = "put"
             \/ \E w \in Workers : held[w] = f /\ wpc[w] \in {"copy", "close", "closedst"}

DirFds == \A d \in Directories : Dir(d) \in fds <=> d \in OpenDirs
SrcFds == \A f \in Regulars : Src(f) \in fds <=> HasSrc(f)
DstFds == \A f \in Regulars : Dst(f) \in fds <=> HasDst(f)
FdsInv == DirFds /\ SrcFds /\ DstFds

(* Descriptors of different kinds or of different files differ.            *)
LEMMA FdsDiffer ==
    \A e, f : /\ (Src(e) = Src(f) <=> e = f) /\ (Dst(e) = Dst(f) <=> e = f)
              /\ (Dir(e) = Dir(f) <=> e = f)
              /\ Src(e) # Dst(f) /\ Src(e) # Dir(f) /\ Dst(e) # Dir(f)
  BY DEF Src, Dst, Dir

(* The open directories are those on the stack.                            *)
LEMMA SameOpenDirs == UNCHANGED dirs => OpenDirs' = OpenDirs
  BY DEF OpenDirs

(* What a step moves, as far as descriptors are concerned: nothing.        *)
LEMMA QuietFds ==
    ASSUME FdsInv, UNCHANGED <<fds, dirs>>,
           \A f \in Regulars : (HasSrc(f)' <=> HasSrc(f)) /\ (HasDst(f)' <=> HasDst(f))
    PROVE  FdsInv'
  BY SameOpenDirs DEF FdsInv, DirFds, SrcFds, DstFds

(* The manager opens and closes directories.                               *)
LEMMA DirFdsStep ==
    ASSUME TypeOK, WalkInv, DirsInv, FdsInv, OpenDir \/ CloseDir
    PROVE  FdsInv'
<1>1. UNCHANGED <<ringVars, cur, held, wpc>> /\ {mpc, mpc'} \cap {"opendst", "put"} = {}
  BY DEF OpenDir, CloseDir, ReturnTo, workerVars
<1>2. QueuedFiles' = QueuedFiles
  BY <1>1, SameQueue
<1>3. \A f \in Regulars : (HasSrc(f)' <=> HasSrc(f)) /\ (HasDst(f)' <=> HasDst(f))
  BY <1>1, <1>2 DEF HasSrc, HasDst
<1>4. CASE UNCHANGED <<fds, dirs>>
  BY <1>3, <1>4, QuietFds
<1>5. CASE dirs' = <<cur>> \o dirs /\ fds' = fds \cup {Dir(cur)} /\ mpc = "opendir"
  <2>1. OpenDirs' = OpenDirs \cup {cur}
    BY <1>5, OpenPushes DEF WalkInv
  <2> QED
    BY <1>3, <1>5, <2>1, FdsDiffer DEF FdsInv, DirFds, SrcFds, DstFds
<1>6. CASE dirs' = Tail(dirs) /\ fds' = fds \ {Dir(Head(dirs))} /\ mpc = "readdir"
  <2>1. OpenDirs' = OpenDirs \ {Head(dirs)}
    BY <1>6, ClosePops DEF WalkInv
  <2> QED
    BY <1>3, <1>6, <2>1, FdsDiffer DEF FdsInv, DirFds, SrcFds, DstFds
<1> QED
  BY <1>4, <1>5, <1>6 DEF OpenDir, CloseDir

(* The manager opens the two files of a pair, or gives them up.            *)
LEMMA PairFdsStep ==
    ASSUME TypeOK, WalkInv, PlaceInv, FdsInv,
           OpenSource \/ OpenDest \/ Discard
    PROVE  FdsInv'
<1>1. UNCHANGED <<ringVars, dirs, cur, held, wpc>> /\ cur \in Regulars
      /\ mpc \in {"opensrc", "opendst", "put"}
  BY DEF OpenSource, OpenDest, Discard, walkVars, workerVars, WalkInv
<1>2. QueuedFiles' = QueuedFiles /\ OpenDirs' = OpenDirs
  BY <1>1, SameQueue, SameOpenDirs
<1>3. cur \notin QueuedFiles /\ \A w \in Workers : held[w] # cur
  BY <1>1 DEF PlaceInv, CurOK
<1>4. \A f \in Regulars : f # cur =>
         (HasSrc(f)' <=> HasSrc(f)) /\ (HasDst(f)' <=> HasDst(f))
  BY <1>1, <1>2 DEF HasSrc, HasDst
<1>5. /\ HasSrc(cur) <=> mpc \in {"opendst", "put"}
      /\ HasSrc(cur)' <=> mpc' \in {"opendst", "put"}
      /\ HasDst(cur) <=> mpc = "put"
      /\ HasDst(cur)' <=> mpc' = "put"
  BY <1>1, <1>2, <1>3 DEF HasSrc, HasDst
<1>6. /\ fds' \subseteq fds \cup {Src(cur), Dst(cur)}
      /\ fds \subseteq fds' \cup {Src(cur), Dst(cur)}
      /\ Src(cur) \in fds' <=> mpc' \in {"opendst", "put"}
      /\ Dst(cur) \in fds' <=> mpc' = "put"
  <2>1. Src(cur) \in fds <=> mpc \in {"opendst", "put"}
    BY <1>1, <1>5 DEF FdsInv, SrcFds
  <2>2. Dst(cur) \in fds <=> mpc = "put"
    BY <1>1, <1>5 DEF FdsInv, DstFds
  <2>3. CASE OpenSource
    BY <2>1, <2>2, <2>3, FdsDiffer DEF OpenSource
  <2>4. CASE OpenDest
    BY <2>1, <2>2, <2>4, FdsDiffer DEF OpenDest
  <2>5. CASE Discard
    BY <2>1, <2>2, <2>5, FdsDiffer DEF Discard
  <2> QED
    BY <2>3, <2>4, <2>5
<1>7. DirFds'
  BY <1>2, <1>6, FdsDiffer DEF FdsInv, DirFds
<1>8. SrcFds'
  <2> SUFFICES ASSUME NEW f \in Regulars PROVE Src(f) \in fds' <=> HasSrc(f)'
    BY DEF SrcFds
  <2>1. CASE f = cur
    BY <1>1, <1>5, <1>6, <2>1
  <2>2. CASE f # cur
    BY <1>4, <1>6, <2>2, FdsDiffer DEF FdsInv, SrcFds
  <2> QED
    BY <2>1, <2>2
<1>9. DstFds'
  <2> SUFFICES ASSUME NEW f \in Regulars PROVE Dst(f) \in fds' <=> HasDst(f)'
    BY DEF DstFds
  <2>1. CASE f = cur
    BY <1>1, <1>5, <1>6, <2>1
  <2>2. CASE f # cur
    BY <1>4, <1>6, <2>2, FdsDiffer DEF FdsInv, DstFds
  <2> QED
    BY <2>1, <2>2
<1> QED
  BY <1>7, <1>8, <1>9 DEF FdsInv

(* The pair passes from the manager to the buffer and on to a worker.      *)
LEMMA HandOverFdsStep ==
    ASSUME TypeOK, WalkInv, PlaceInv, FdsInv, Enqueue \/ \E w \in Workers : Dequeue(w)
    PROVE  FdsInv'
<1>1. UNCHANGED <<fds, dirs>>
  BY DEF Enqueue, Dequeue, walkVars
<1>2. CASE Enqueue
  <2>1. UNCHANGED <<cur, held, wpc>> /\ mpc = "put" /\ mpc' = "readdir"
    BY <1>2 DEF Enqueue, workerVars
  <2>2. QueuedFiles' = QueuedFiles \cup {cur}
    BY <1>2, <2>1, PutEffect DEF PlaceInv, CurOK
  <2>3. \A f \in Regulars : (HasSrc(f)' <=> HasSrc(f)) /\ (HasDst(f)' <=> HasDst(f))
    BY <2>1, <2>2 DEF HasSrc, HasDst
  <2> QED
    BY <1>1, <2>3, QuietFds
<1>3. ASSUME NEW w \in Workers, Dequeue(w) PROVE FdsInv'
  <2> DEFINE g == buffer[out]
  <2>1. /\ UNCHANGED <<cur, mpc>> /\ wpc[w] = "loop"
        /\ wpc'[w] = "copy" /\ held'[w] = g
        /\ \A v \in Workers : v # w => held'[v] = held[v] /\ wpc'[v] = wpc[v]
    BY <1>3 DEF Dequeue, AtLoop, walkVars, TypeOK
  <2>2. QueuedFiles' = QueuedFiles \ {g} /\ g \in QueuedFiles
    BY <1>3, TakeEffect DEF PlaceInv
  <2> HIDE DEF g
  <2>3. \A f \in Regulars : HasSrc(f)' <=> HasSrc(f)
    BY <2>1, <2>2 DEF HasSrc
  <2>4. \A f \in Regulars : HasDst(f)' <=> HasDst(f)
    BY <2>1, <2>2 DEF HasDst
  <2> QED
    BY <1>1, <2>3, <2>4, QuietFds
<1> QED
  BY <1>2, <1>3

(* A worker closes the two descriptors of the pair it holds.               *)
LEMMA CloseFdsStep ==
    ASSUME TypeOK, PlaceInv, FdsInv, NEW w \in Workers, CloseSource(w) \/ CloseDest(w)
    PROVE  FdsInv'
<1>0. PICK g : g = held[w]
  OBVIOUS
<1>1. /\ UNCHANGED <<ringVars, dirs, cur, mpc, held>>
      /\ \A v \in Workers : v # w => wpc'[v] = wpc[v]
      /\ wpc[w] \in {"close", "closedst"}
  BY DEF CloseSource, CloseDest, walkVars, TypeOK
<1>2. QueuedFiles' = QueuedFiles /\ OpenDirs' = OpenDirs
  BY <1>1, SameQueue, SameOpenDirs
<1>3. g \in Regulars /\ g \notin QueuedFiles /\ \A v \in Workers : v # w => held[v] # g
  BY <1>0, <1>1, RegularsAreFiles DEF PlaceInv, HeldOK, HeldDistinct
<1>4. mpc \in {"opendst", "put"} => cur # g
  BY <1>0 DEF PlaceInv, CurOK
<1>5. \A f \in Regulars : f # g =>
         (HasSrc(f)' <=> HasSrc(f)) /\ (HasDst(f)' <=> HasDst(f))
  BY <1>0, <1>1, <1>2 DEF HasSrc, HasDst
<1>6. /\ HasSrc(g) <=> wpc[w] \in {"copy", "close"}
      /\ HasSrc(g)' <=> wpc'[w] \in {"copy", "close"}
      /\ HasDst(g) <=> wpc[w] \in {"copy", "close", "closedst"}
      /\ HasDst(g)' <=> wpc'[w] \in {"copy", "close", "closedst"}
  <2>1. g = held[w] /\ held'[w] = g
    BY <1>0, <1>1
  <2> QED
    BY <1>1, <1>2, <1>3, <1>4, <2>1 DEF HasSrc, HasDst
<1>7. DirFds'
  <2>1. fds' = fds \ {Src(g)} \/ fds' = fds \ {Dst(g)}
    BY <1>0 DEF CloseSource, CloseDest
  <2>2. \A d \in Directories : Dir(d) \in fds' <=> Dir(d) \in fds
    BY <2>1, FdsDiffer
  <2> QED
    BY <1>2, <2>2 DEF FdsInv, DirFds
<1>8. CASE CloseSource(w)
  <2>1. fds' = fds \ {Src(g)} /\ wpc[w] = "close" /\ wpc'[w] = "closedst"
    BY <1>0, <1>8 DEF CloseSource, TypeOK
  <2>2. SrcFds'
    BY <1>3, <1>5, <1>6, <2>1, FdsDiffer DEF FdsInv, SrcFds
  <2>3. \A f \in Regulars : HasDst(f)' <=> HasDst(f)
    BY <1>5, <1>6, <2>1
  <2>4. DstFds'
    BY <2>1, <2>3, FdsDiffer DEF FdsInv, DstFds
  <2> QED
    BY <1>7, <2>2, <2>4 DEF FdsInv
<1>9. CASE CloseDest(w)
  <2>1. fds' = fds \ {Dst(g)} /\ wpc[w] = "closedst" /\ wpc'[w] = "account"
    BY <1>0, <1>9 DEF CloseDest, TypeOK
  <2>2. DstFds'
    BY <1>3, <1>5, <1>6, <2>1, FdsDiffer DEF FdsInv, DstFds
  <2>3. \A f \in Regulars : HasSrc(f)' <=> HasSrc(f)
    BY <1>5, <1>6, <2>1
  <2>4. SrcFds'
    BY <2>1, <2>3, FdsDiffer DEF FdsInv, SrcFds
  <2> QED
    BY <1>7, <2>2, <2>4 DEF FdsInv
<1> QED
  BY <1>8, <1>9

(* No step opens a descriptor nobody owns or loses one that is open.       *)
LEMMA FdsStep ==
    ASSUME TypeOK, WalkInv, DirsInv, PlaceInv, FdsInv, [Next]_vars
    PROVE  FdsInv'
<1>1. CASE (\E e \in Entries : ReadEntry(e)) \/ WaitNotFull \/ FinishWalk
  <2>1. /\ UNCHANGED <<ringVars, dirs, fds, held, wpc>>
        /\ \/ {mpc, mpc'} \cap {"opendst", "put"} = {}
           \/ UNCHANGED <<cur, mpc>>
    BY <1>1 DEF ReadEntry, WaitNotFull, FinishWalk, walkVars, workerVars
  <2>2. QueuedFiles' = QueuedFiles
    BY <2>1, SameQueue
  <2>3. \A f \in Regulars : (HasSrc(f)' <=> HasSrc(f)) /\ (HasDst(f)' <=> HasDst(f))
    BY <2>1, <2>2 DEF HasSrc, HasDst
  <2> QED
    BY <2>1, <2>3, QuietFds
<1>2. CASE Environment \/ Join \/ Terminated \/ UNCHANGED vars
  <2>1. UNCHANGED <<ringVars, dirs, fds, held, wpc, cur, mpc>>
    BY <1>2 DEF Environment, Interrupt, SpuriousWakeup, Join, Terminated, vars,
                walkVars, workerVars
  <2>2. QueuedFiles' = QueuedFiles
    BY <2>1, SameQueue
  <2>3. \A f \in Regulars : (HasSrc(f)' <=> HasSrc(f)) /\ (HasDst(f)' <=> HasDst(f))
    BY <2>1, <2>2 DEF HasSrc, HasDst
  <2> QED
    BY <2>1, <2>3, QuietFds
<1>3. ASSUME NEW w \in Workers, WaitNotEmpty(w) \/ Exit(w) \/ CopyFile(w) \/ Account(w)
      PROVE  FdsInv'
  <2>1. /\ UNCHANGED <<ringVars, dirs, fds, cur, mpc>>
        /\ \A v \in Workers : v # w => held'[v] = held[v] /\ wpc'[v] = wpc[v]
    BY <1>3 DEF WaitNotEmpty, Exit, CopyFile, Account, walkVars, workerVars, TypeOK
  <2>2. \/ held'[w] = held[w] /\ {wpc[w], wpc'[w]} \subseteq {"copy", "close"}
        \/ {wpc[w], wpc'[w]} \subseteq {"loop", "exit", "account"}
    BY <1>3 DEF WaitNotEmpty, Exit, CopyFile, Account, AtLoop, workerVars, TypeOK
  <2>3. QueuedFiles' = QueuedFiles
    BY <2>1, SameQueue
  <2>4. \A f \in Regulars : HasSrc(f)' <=> HasSrc(f)
    BY <2>1, <2>2, <2>3 DEF HasSrc
  <2>5. \A f \in Regulars : HasDst(f)' <=> HasDst(f)
    BY <2>1, <2>2, <2>3 DEF HasDst
  <2> QED
    BY <2>1, <2>4, <2>5, QuietFds
<1> QED
  BY <1>1, <1>2, <1>3, DirFdsStep, PairFdsStep, HandOverFdsStep, CloseFdsStep
     DEF Next, ThreadStep, ManagerStep, WorkerStep

(* A copy that is empty at the end was neither queued nor taken: it is the *)
(* one the manager gave up because of SIGINT, after which it opens none.   *)
StrayInv == \A e \in Entries : dst[e] = "empty" =>
    \/ e \in QueuedFiles
    \/ \E w \in Workers : held[w] = e /\ wpc[w] = "copy"
    \/ e = cur /\ mpc = "put"
    \/ e = cur /\ stop /\ mpc \in {"readdir", "finish", "end"}

(* A step that fills or queues no copy, and ends no walk with a pair in    *)
(* hand, leaves the created but unfilled copies as they are.               *)
LEMMA StrayQuiet ==
    ASSUME StrayInv, UNCHANGED <<ringVars, dst, held, cur>>, stop => stop',
           \A v \in Workers : wpc[v] = "copy" => wpc'[v] = "copy",
           \/ mpc' = mpc
           \/ mpc \notin {"put", "readdir", "finish", "end"}
           \/ mpc # "put" /\ mpc' \in {"readdir", "finish", "end"}
           \/ stop /\ mpc' \in {"readdir", "finish", "end"}
    PROVE  StrayInv'
<1>1. QueuedFiles' = QueuedFiles
  BY SameQueue
<1> QED
  BY <1>1 DEF StrayInv

(* In every step an unfilled copy stays queued, being filled, in the       *)
(* manager's hands, or the one SIGINT left.                                *)
LEMMA StrayStep ==
    ASSUME TypeOK, WalkInv, PlaceInv, StrayInv, [Next]_vars
    PROVE  StrayInv'
<1>1. CASE OpenDir \/ CloseDir \/ OpenSource \/ WaitNotFull \/ Discard \/ FinishWalk
           \/ Environment \/ Join \/ Terminated \/ UNCHANGED vars
  <2>1. UNCHANGED <<ringVars, dst, held, cur, wpc>> /\ (stop => stop')
    BY <1>1 DEF OpenDir, CloseDir, OpenSource, WaitNotFull, Discard, FinishWalk, Environment,
                Interrupt, SpuriousWakeup, Join, Terminated, vars, walkVars, workerVars
  <2>2. \/ mpc' = mpc
        \/ mpc \notin {"put", "readdir", "finish", "end"}
        \/ mpc # "put" /\ mpc' \in {"readdir", "finish", "end"}
        \/ stop /\ mpc' \in {"readdir", "finish", "end"}
    BY <1>1 DEF OpenDir, CloseDir, OpenSource, WaitNotFull, Discard, FinishWalk, Environment,
                Interrupt, SpuriousWakeup, Join, Terminated, vars, ReturnTo
  <2> QED
    BY <2>1, <2>2, StrayQuiet
<1>2. ASSUME NEW w \in Workers, WaitNotEmpty(w) \/ Exit(w) \/ CloseSource(w) \/ CloseDest(w)
      PROVE  StrayInv'
  <2>1. UNCHANGED <<ringVars, dst, held, cur, stop, mpc>>
        /\ \A v \in Workers : wpc[v] = "copy" => wpc'[v] = "copy"
    BY <1>2 DEF WaitNotEmpty, Exit, CloseSource, CloseDest, AtLoop, walkVars, workerVars, TypeOK
  <2> QED
    BY <2>1, StrayQuiet
<1>3. ASSUME NEW e \in Entries, ReadEntry(e) PROVE StrayInv'
  <2>1. UNCHANGED <<ringVars, held, wpc>> /\ mpc = "readdir" /\ ~stop
        /\ \A f \in Entries : dst'[f] = "empty" => dst[f] = "empty"
    BY <1>3 DEF ReadEntry, Walks, workerVars, TypeOK
  <2>2. QueuedFiles' = QueuedFiles
    BY <2>1, SameQueue
  <2> QED
    BY <2>1, <2>2 DEF StrayInv
<1>4. CASE OpenDest
  <2>1. UNCHANGED <<ringVars, held, wpc, cur, stop>> /\ mpc = "opendst"
    BY <1>4 DEF OpenDest, walkVars, workerVars
  <2>2. QueuedFiles' = QueuedFiles
    BY <2>1, SameQueue
  <2>3. CASE dst' = dst /\ mpc' = "readdir"
    BY <2>1, <2>3, StrayQuiet
  <2>4. CASE dst' = [dst EXCEPT ![cur] = "empty"] /\ mpc' = "put"
    <3>1. \A f \in Entries : f # cur => dst'[f] = dst[f]
      BY <2>4 DEF TypeOK
    <3> QED
      BY <2>1, <2>2, <2>4, <3>1 DEF StrayInv
  <2> QED
    BY <1>4, <2>3, <2>4 DEF OpenDest
<1>5. CASE Enqueue
  <2>1. UNCHANGED <<dst, held, wpc, cur, stop>> /\ mpc = "put"
        /\ ~stop
    BY <1>5 DEF Enqueue, MayQueue, workerVars
  <2>2. QueuedFiles' = QueuedFiles \cup {cur}
    BY <1>5, <2>1, PutEffect DEF PlaceInv, CurOK
  <2> QED
    BY <2>1, <2>2 DEF StrayInv
<1>6. ASSUME NEW w \in Workers, Dequeue(w) PROVE StrayInv'
  <2> DEFINE f == buffer[out]
  <2>1. /\ UNCHANGED <<dst, cur, mpc, stop>> /\ wpc[w] = "loop"
        /\ wpc'[w] = "copy" /\ held'[w] = f
        /\ \A v \in Workers : v # w => held'[v] = held[v] /\ wpc'[v] = wpc[v]
    BY <1>6 DEF Dequeue, AtLoop, walkVars, TypeOK
  <2>2. QueuedFiles' = QueuedFiles \ {f}
    BY <1>6, TakeEffect DEF PlaceInv
  <2> HIDE DEF f
  <2> QED
    BY <2>1, <2>2 DEF StrayInv
<1>7. ASSUME NEW w \in Workers, CopyFile(w) PROVE StrayInv'
  <2>1. /\ UNCHANGED <<ringVars, cur, mpc, stop, held>> /\ wpc[w] = "copy"
        /\ \A v \in Workers : v # w => wpc'[v] = wpc[v]
    BY <1>7 DEF CopyFile, walkVars, TypeOK
  <2>2. held[w] \in Entries
    BY <2>1, RegularsAreFiles DEF PlaceInv, HeldOK
  <2>3. dst'[held[w]] # "empty" /\ \A f \in Entries : f # held[w] => dst'[f] = dst[f]
    BY <1>7, <2>2 DEF CopyFile, TypeOK
  <2>4. QueuedFiles' = QueuedFiles
    BY <2>1, SameQueue
  <2> QED
    BY <2>1, <2>3, <2>4 DEF StrayInv
<1>8. ASSUME NEW w \in Workers, Account(w) PROVE StrayInv'
  <2>1. /\ UNCHANGED <<ringVars, cur, mpc, stop, dst>> /\ wpc[w] = "account"
        /\ \A v \in Workers : v # w => held'[v] = held[v] /\ wpc'[v] = wpc[v]
    BY <1>8 DEF Account, walkVars, TypeOK
  <2>2. QueuedFiles' = QueuedFiles
    BY <2>1, SameQueue
  <2> QED
    BY <2>1, <2>2 DEF StrayInv
<1> QED
  BY <1>1, <1>2, <1>3, <1>4, <1>5, <1>6, <1>7, <1>8
     DEF Next, ThreadStep, ManagerStep, WorkerStep

(* Every pair ever queued is queued, taken or accounted for.               *)
Taken == {w \in Workers : wpc[w] \notin {"loop", "exit"}}
CountInv == stats["regular"] = count + Cardinality(Taken) + files_copied

(* No step makes the statistics of manager and workers disagree.           *)
LEMMA CountStep ==
    ASSUME TypeOK, CountInv, [Next]_vars
    PROVE  CountInv'
<1>1. /\ Taken \in SUBSET Workers /\ Taken' \in SUBSET Workers
      /\ count \in Nat /\ files_copied \in Nat /\ stats["regular"] \in Nat
      /\ IsFiniteSet(Taken) /\ IsFiniteSet(Taken')
      /\ Cardinality(Taken) \in Nat /\ Cardinality(Taken') \in Nat
  <2>1. Taken \in SUBSET Workers /\ Taken' \in SUBSET Workers
    BY DEF Taken
  <2>2. count \in Nat /\ files_copied \in Nat /\ stats["regular"] \in Nat
    BY SizeAssumption DEF TypeOK, Kinds
  <2> QED
    BY <2>1, <2>2, AwakeIsFinite
<1>2. ASSUME UNCHANGED <<count, files_copied>>, stats'["regular"] = stats["regular"],
             \A w \in Workers : wpc'[w] \in {"loop", "exit"} <=> wpc[w] \in {"loop", "exit"}
      PROVE  CountInv'
  <2>1. Taken' = Taken
    BY <1>2 DEF Taken
  <2> QED
    BY <1>2, <2>1 DEF CountInv
<1>3. CASE OpenDir \/ CloseDir \/ OpenSource \/ OpenDest \/ WaitNotFull \/ Discard \/ FinishWalk
           \/ Environment \/ Join \/ Terminated \/ UNCHANGED vars
  <2>1. UNCHANGED <<count, files_copied, stats, wpc>>
    BY <1>3 DEF OpenDir, CloseDir, OpenSource, OpenDest, WaitNotFull, Discard, FinishWalk,
       Environment, Interrupt, SpuriousWakeup, Join, Terminated, vars, walkVars, ringVars, workerVars
  <2> QED
    BY <1>2, <2>1
<1>4. ASSUME NEW e \in Entries, ReadEntry(e) PROVE CountInv'
  <2>1. UNCHANGED <<count, files_copied, wpc>> /\ stats'["regular"] = stats["regular"]
    BY <1>4 DEF ReadEntry, ringVars, workerVars, TypeOK
  <2> QED
    BY <1>2, <2>1
<1>5. CASE Enqueue
  <2>1. count' = count + 1 /\ stats'["regular"] = stats["regular"] + 1
        /\ UNCHANGED <<files_copied, wpc>>
    BY <1>5 DEF Enqueue, workerVars, TypeOK, Kinds
  <2>2. Taken' = Taken
    BY <2>1 DEF Taken
  <2> QED
    BY <1>1, <2>1, <2>2 DEF CountInv
<1>6. ASSUME NEW w \in Workers, WorkerStep(w) PROVE CountInv'
  <2>1. CASE WaitNotEmpty(w) \/ Exit(w) \/ CopyFile(w) \/ CloseSource(w) \/ CloseDest(w)
    <3>1. UNCHANGED <<count, files_copied, stats>>
          /\ \A v \in Workers : wpc'[v] \in {"loop", "exit"} <=> wpc[v] \in {"loop", "exit"}
      BY <2>1 DEF WaitNotEmpty, Exit, CopyFile, CloseSource, CloseDest, AtLoop,
                  walkVars, ringVars, workerVars, TypeOK
    <3> QED
      BY <1>2, <3>1
  <2>2. CASE Dequeue(w)
    <3>1. UNCHANGED <<files_copied, stats>> /\ count' = count - 1
          /\ wpc[w] = "loop" /\ wpc' = [wpc EXCEPT ![w] = "copy"]
      BY <2>2 DEF Dequeue, AtLoop, walkVars
    <3>2. Taken' = Taken \cup {w} /\ w \notin Taken
      BY <3>1 DEF Taken, TypeOK
    <3>3. Cardinality(Taken') = Cardinality(Taken) + 1
      BY <1>1, <3>2, FS_AddElement
    <3> QED
      BY <1>1, <3>1, <3>3 DEF CountInv
  <2>3. CASE Account(w)
    <3>1. UNCHANGED <<count, stats>> /\ files_copied' = files_copied + 1
          /\ wpc[w] = "account" /\ wpc' = [wpc EXCEPT ![w] = "loop"]
      BY <2>3 DEF Account, walkVars, ringVars
    <3>2. Taken' = Taken \ {w} /\ w \in Taken
      BY <3>1 DEF Taken, TypeOK
    <3>3. Cardinality(Taken') = Cardinality(Taken) - 1
      BY <1>1, <3>2, FS_RemoveElement
    <3> QED
      BY <1>1, <3>1, <3>3 DEF CountInv
  <2> QED
    BY <1>6, <2>1, <2>2, <2>3 DEF WorkerStep
<1> QED
  BY <1>3, <1>4, <1>5, <1>6 DEF Next, ThreadStep, ManagerStep

(* Everything that is known of the pool.                                   *)
PoolInv == IInv /\ WakeInv /\ DirsInv /\ PlaceInv /\ FdsInv /\ StrayInv /\ CountInv
           /\ (joined => ThreadsEnded)

(* The pool begins in its invariant.                                       *)
LEMMA PoolInit == Init => PoolInv
<1> SUFFICES ASSUME Init PROVE PoolInv
  OBVIOUS
<1>1. IInv
  BY InitInv
<1>2. Live = {}
  BY SizeAssumption DEF Init, Live
<1>3. QueuedFiles = {} /\ OpenDirs = {} /\ Taken = {}
  BY <1>2 DEF Init, QueuedFiles, OpenDirs, Taken
<1>4. WakeInv /\ DirsInv
  BY <1>3, TreeAssumption DEF Init, WakeInv, SleepersLoop, NoLostWakeup, DirsInv
<1>5. RingInv
  <2>1. 0 \in Slots /\ 0 \in 0..BufferSize /\ 0 < BufferSize /\ BufferSize \in Nat
    BY SizeAssumption DEF Slots
  <2> QED
    BY <2>1, SlotFacts DEF Init, RingInv
<1>6. PlaceInv
  BY <1>2, <1>3, <1>5, RegularsAreFiles
     DEF Init, PlaceInv, QueueDistinct, Fresh, QueuedOK, HeldOK, HeldDistinct, CurOK
<1>7. FdsInv /\ StrayInv
  BY <1>3 DEF Init, FdsInv, DirFds, SrcFds, DstFds, HasSrc, HasDst, StrayInv
<1>8. CountInv
  BY <1>3, FS_EmptySet DEF Init, CountInv, Kinds
<1> QED
  BY <1>1, <1>4, <1>6, <1>7, <1>8 DEF PoolInv, Init

(* main has joined only threads that have ended, and they stay ended.      *)
LEMMA JoinedStep ==
    ASSUME TypeOK, joined => ThreadsEnded, [Next]_vars
    PROVE  joined' => ThreadsEnded'
<1>1. CASE Join
  BY <1>1 DEF Join, ThreadsEnded, workerVars
<1>2. CASE ~Join
  <2>1. joined' = joined
    BY <1>2 DEF Next, ThreadStep, ManagerStep, WorkerStep, OpenDir, ReadEntry, CloseDir, OpenSource,
       OpenDest, WaitNotFull, Discard, Enqueue, FinishWalk, WaitNotEmpty, Exit, Dequeue, CopyFile,
       CloseSource, CloseDest, Account, Environment, Interrupt, SpuriousWakeup, Terminated, vars
  <2>2. ThreadsEnded => ~ManagerStep
    BY DEF ThreadsEnded, ManagerStep, OpenDir, ReadEntry, CloseDir, OpenSource, OpenDest,
           WaitNotFull, Discard, Enqueue, FinishWalk
  <2>3. ThreadsEnded => \A w \in Workers : ~WorkerStep(w)
    BY DEF ThreadsEnded, WorkerStep, WaitNotEmpty, Exit, Dequeue, CopyFile, CloseSource,
           CloseDest, Account, AtLoop
  <2>4. Environment \/ Terminated \/ UNCHANGED vars => UNCHANGED <<mpc, wpc>>
    BY DEF Environment, Interrupt, SpuriousWakeup, Terminated, vars, workerVars
  <2>5. ThreadsEnded => ThreadsEnded'
    BY <1>2, <2>2, <2>3, <2>4 DEF Next, ThreadStep, ThreadsEnded
  <2> QED
    BY <2>1, <2>5
<1> QED
  BY <1>1, <1>2

(* Every step of the pool keeps the invariant.                             *)
LEMMA PoolStep == PoolInv /\ [Next]_vars => PoolInv'
<1> SUFFICES ASSUME PoolInv, [Next]_vars PROVE PoolInv'
  OBVIOUS
<1>1. TypeOK /\ WalkInv /\ SleepersLoop /\ NoLostWakeup
  BY DEF PoolInv, IInv, WakeInv
<1>2. IInv'
  BY WalkStepInv, BufferStepInv, WorkerStepInv, OtherStepInv
     DEF PoolInv, Next, ThreadStep, ManagerStep, Terminated
<1>3. WakeInv' /\ DirsInv' /\ PlaceInv'
  BY <1>1, WakeStep, DirsStep, PlaceStep DEF PoolInv
<1>4. FdsInv' /\ StrayInv' /\ CountInv' /\ (joined' => ThreadsEnded')
  BY <1>1, FdsStep, StrayStep, CountStep, JoinedStep DEF PoolInv
<1> QED
  BY <1>2, <1>3, <1>4 DEF PoolInv

(* The whole invariant of the pool.                                        *)
THEOREM PoolInvariance == Spec => []PoolInv
  BY PoolInit, PoolStep, PTL DEF Spec

(* No wakeup is lost: a worker sleeps only while there is an awake one for *)
(* every queued pair, the manager only in front of a full buffer.          *)
THEOREM Wakeups == Spec => []NoLostWakeup
  BY PoolInvariance, PTL DEF PoolInv, WakeInv

(* Every open descriptor has exactly one owner who will close it.          *)
THEOREM Ownership == Spec => []OneOwner
<1>1. PoolInv => OneOwner
  <2> SUFFICES ASSUME PoolInv PROVE OneOwner
    OBVIOUS
  <2>1. TypeOK /\ WalkInv /\ PlaceInv /\ FdsInv
    BY DEF PoolInv, IInv
  <2>2. {Dir(dirs[i]) : i \in DOMAIN dirs} = {Dir(d) : d \in OpenDirs}
        /\ OpenDirs \subseteq Directories
    BY <2>1 DEF OpenDirs, TypeOK
  <2>3. /\ \A w \in Workers : wpc[w] \notin {"loop", "exit"} => held[w] \in Regulars
        /\ QueuedFiles \subseteq Regulars
        /\ mpc \in {"opendst", "put"} => cur \in Regulars
    BY <2>1 DEF PlaceInv, HeldOK, QueuedOK, WalkInv
  <2>4. ASSUME NEW f PROVE f \in Regulars /\ HasSrc(f) <=>
           f \in QueuedFiles \cup HeldAt({"copy", "close"}) \/ Src(f) \in OpeningFds
    BY <2>3, FdsDiffer DEF HasSrc, HeldAt, OpeningFds
  <2>5. ASSUME NEW f PROVE f \in Regulars /\ HasDst(f) <=>
           f \in QueuedFiles \cup HeldAt({"copy", "close", "closedst"}) \/ Dst(f) \in OpeningFds
    BY <2>3, FdsDiffer DEF HasDst, HeldAt, OpeningFds
  <2> DEFINE owned == {Dir(d) : d \in OpenDirs} \cup OpeningFds
             \cup {Src(f) : f \in QueuedFiles \cup HeldAt({"copy", "close"})}
             \cup {Dst(f) : f \in QueuedFiles \cup HeldAt({"copy", "close", "closedst"})}
  <2>6. ASSUME NEW x \in fds PROVE x \in owned
    <3>1. CASE x \in {Src(e) : e \in Regulars}
      <4>1. PICK f \in Regulars : x = Src(f)
        BY <3>1
      <4>2. HasSrc(f)
        BY <2>1, <2>6, <4>1 DEF FdsInv, SrcFds
      <4> QED
        BY <2>4, <4>1, <4>2
    <3>2. CASE x \in {Dst(e) : e \in Regulars}
      <4>1. PICK f \in Regulars : x = Dst(f)
        BY <3>2
      <4>2. HasDst(f)
        BY <2>1, <2>6, <4>1 DEF FdsInv, DstFds
      <4> QED
        BY <2>5, <4>1, <4>2
    <3>3. CASE x \in {Dir(d) : d \in Directories}
      BY <2>1, <2>6, <3>3 DEF FdsInv, DirFds
    <3> QED
      BY <2>1, <3>1, <3>2, <3>3 DEF TypeOK, Descriptors
  <2>7. ASSUME NEW x \in owned PROVE x \in fds
    <3>1. CASE x \in {Dir(d) : d \in OpenDirs}
      BY <2>1, <2>2, <3>1 DEF FdsInv, DirFds
    <3>2. ASSUME NEW f, x = Src(f), f \in QueuedFiles \cup HeldAt({"copy", "close"}) \/ Src(f) \in OpeningFds
          PROVE  x \in fds
      BY <2>1, <2>4, <3>2 DEF FdsInv, SrcFds
    <3>3. ASSUME NEW f, x = Dst(f),
                 f \in QueuedFiles \cup HeldAt({"copy", "close", "closedst"}) \/ Dst(f) \in OpeningFds
          PROVE  x \in fds
      BY <2>1, <2>5, <3>3 DEF FdsInv, DstFds
    <3>4. CASE x \in OpeningFds
      BY <3>2, <3>3, <3>4 DEF OpeningFds
    <3> QED
      BY <2>7, <3>1, <3>2, <3>3, <3>4
  <2>8. fds = owned
    BY <2>6, <2>7
  <2>9. \A v \in Busy : wpc[v] \notin {"loop", "exit"} /\ held[v] # NoFile /\ held[v] \notin QueuedFiles
    BY <2>1, <2>3, RegularsAreFiles DEF Busy, PlaceInv, HeldOK
  <2>10. \A v, w \in Busy : held[v] = held[w] => v = w
    BY <2>1, <2>9 DEF Busy, PlaceInv, HeldDistinct
  <2>11. mpc \in {"opendst", "put"} => cur \notin QueuedFiles \cup {held[w] : w \in Busy}
    BY <2>1 DEF Busy, PlaceInv, CurOK
  <2> QED
    BY <2>1, <2>2, <2>8, <2>9, <2>10, <2>11 DEF OneOwner, PlaceInv, QueueDistinct
<1> QED
  BY PoolInvariance, <1>1, PTL

(* SIGINT leaves at most one file that was created and never handed over,  *)
(* a run without SIGINT none.                                              *)
THEOREM AtMostOneStray == Spec => []NoStrayCopies
<1>1. PoolInv => NoStrayCopies
  <2> SUFFICES ASSUME PoolInv, joined, NEW e \in StrayCopies PROVE stop /\ e = cur
    BY DEF NoStrayCopies
  <2>1. TypeOK /\ ExitedMeansDrained /\ mpc = "end" /\ \A w \in Workers : wpc[w] = "exit"
    BY DEF PoolInv, IInv, ThreadsEnded
  <2>2. count = 0
    BY <2>1, WorkersAssumption DEF ExitedMeansDrained
  <2>3. QueuedFiles = {}
    BY <2>2, LiveSlots DEF QueuedFiles
  <2> QED
    BY <2>1, <2>3 DEF PoolInv, StrayInv, StrayCopies
<1> QED
  BY PoolInvariance, <1>1, PTL

-----------------------------------------------------------------------------
(* Every file is copied.                                                   *)

(* What the walk leaves behind while SIGINT has not come and open does not *)
(* fail for want of a descriptor: a directory it has got into is on the    *)
(* stack or read to its end, and a file it has come to is on its way.      *)
Spare   == ~stop /\ FdLimit >= PoolFds + Depth
Entered == {d \in Directories \ NoRead : d \notin unread /\ ~(mpc = "opendir" /\ cur = d)}
ReadThrough == \A d \in Entered \ OpenDirs : \A e \in unread : Parent[e] # d

OnItsWay(f) == \/ f \in QueuedFiles \/ dst[f] \in {"full", "partial"}
               \/ f = cur /\ mpc \in {"opensrc", "opendst", "put"}
               \/ \E w \in Workers : held[w] = f
Wanted == Regulars \ (NoRead \cup NoWrite)
NoneSkipped == \A f \in Wanted : f \notin unread => OnItsWay(f)

WalkedInv == /\ mpc \in {"finish", "end"} => dirs = <<>>
             /\ Spare => ReadThrough /\ NoneSkipped

(* Two sets together have no more elements than one and the other.         *)
LEMMA UnionSize ==
    ASSUME NEW S, NEW T, IsFiniteSet(S), IsFiniteSet(T)
    PROVE  /\ IsFiniteSet(S \cup T)
           /\ Cardinality(S \cup T) \in Nat
           /\ Cardinality(S \cup T) <= Cardinality(S) + Cardinality(T)
<1>1. /\ IsFiniteSet(S \cup T) /\ IsFiniteSet(S \cap T)
      /\ Cardinality(S \cup T) = Cardinality(S) + Cardinality(T) - Cardinality(S \cap T)
  BY FS_Union, FS_Subset
<1>2. Cardinality(S) \in Nat /\ Cardinality(T) \in Nat /\ Cardinality(S \cap T) \in Nat
  BY <1>1, FS_CardinalityType
<1> DEFINE all == Cardinality(S \cup T)
           common == Cardinality(S \cap T)
<1>3. all = Cardinality(S) + Cardinality(T) - common /\ common \in Nat
  BY <1>1, <1>2
<1>4. all \in Nat
  BY <1>1, FS_CardinalityType
<1> HIDE DEF all, common
<1>5. all <= Cardinality(S) + Cardinality(T)
  BY <1>2, <1>3, <1>4
<1> QED
  BY <1>1, <1>4, <1>5 DEF all

(* The slots queue, and the workers hold, so many files at most.           *)
LEMMA FilesUnderWay ==
    ASSUME TypeOK
    PROVE  LET under == QueuedFiles \cup {held[w] : w \in Workers}
           IN  /\ IsFiniteSet(under) /\ Cardinality(under) \in Nat
               /\ Cardinality(under) <= BufferSize + Cardinality(Workers)
<1> DEFINE taken == {held[w] : w \in Workers}
<1>1. /\ IsFiniteSet(Slots) /\ Cardinality(Slots) = BufferSize /\ BufferSize \in Nat
      /\ IsFiniteSet(Workers) /\ Cardinality(Workers) \in Nat
  <2>1. BufferSize \in Nat \ {0} /\ 0 \in Int /\ BufferSize - 1 \in Int
    BY SizeAssumption
  <2>2. IsFiniteSet(Slots) /\ Cardinality(Slots) = BufferSize
    BY <2>1, FS_Interval DEF Slots
  <2> QED
    BY <2>1, <2>2, WorkersAssumption, FS_CardinalityType
<1>2. Live \in SUBSET Slots
  BY SizeAssumption DEF Live, Slots, TypeOK
<1>3. IsFiniteSet(Live) /\ Cardinality(Live) <= BufferSize /\ Cardinality(Live) \in Nat
  BY <1>1, <1>2, FS_Subset, FS_CardinalityType
<1>4. IsFiniteSet(QueuedFiles) /\ Cardinality(QueuedFiles) <= Cardinality(Live)
  <2> DEFINE g == [i \in Live |-> buffer[i]]
  <2>1. g \in Surjection(Live, QueuedFiles)
    BY DEF Surjection, QueuedFiles
  <2> HIDE DEF g
  <2> QED
    BY <1>3, <2>1, FS_Surjection
<1>5. IsFiniteSet(taken) /\ Cardinality(taken) <= Cardinality(Workers)
  <2> DEFINE g == [w \in Workers |-> held[w]]
  <2>1. g \in Surjection(Workers, taken)
    BY DEF Surjection
  <2> HIDE DEF g, taken
  <2> QED
    BY <1>1, <2>1, FS_Surjection
<1>6. Cardinality(QueuedFiles) \in Nat /\ Cardinality(taken) \in Nat
  BY <1>4, <1>5, FS_CardinalityType
<1> HIDE DEF taken
<1>7. /\ IsFiniteSet(QueuedFiles \cup taken) /\ Cardinality(QueuedFiles \cup taken) \in Nat
      /\ Cardinality(QueuedFiles \cup taken) <= Cardinality(QueuedFiles) + Cardinality(taken)
  BY <1>4, <1>5, UnionSize
<1>8. Cardinality(QueuedFiles \cup taken) <= BufferSize + Cardinality(Workers)
  BY <1>1, <1>3, <1>4, <1>5, <1>6, <1>7
<1> QED
  BY <1>7, <1>8 DEF taken

(* As many descriptors as the directories and PoolFds are enough for every *)
(* open of the walk.                                                       *)
LEMMA OpenSucceeds ==
    ASSUME PoolInv, Spare, mpc \in {"opendir", "opensrc", "opendst"}
    PROVE  HasFd
<1> DEFINE under == QueuedFiles \cup {held[w] : w \in Workers}
           dirfds == {Dir(d) : d \in Directories}
           srcs == {Src(f) : f \in under}
           dsts == {Dst(f) : f \in under}
           bound == BufferSize + Cardinality(Workers)
<1>1. TypeOK /\ WalkInv /\ FdsInv
  BY DEF PoolInv, IInv
<1>2. IsFiniteSet(under) /\ Cardinality(under) \in Nat /\ Cardinality(under) <= bound
  BY <1>1, FilesUnderWay
<1>3. IsFiniteSet(Directories) /\ Depth \in Nat
  <2>1. {e \in Entries : Kind[e] = "directory"} \in SUBSET Entries
    OBVIOUS
  <2>2. IsFiniteSet({e \in Entries : Kind[e] = "directory"}) /\ IsFiniteSet({Root})
    BY <2>1, TreeAssumption, FS_Subset, FS_Singleton
  <2> QED
    BY <2>2, UnionSize, FS_CardinalityType DEF Directories, Depth
<1>4. IsFiniteSet(dirfds) /\ Cardinality(dirfds) <= Depth
  <2> DEFINE g == [x \in Directories |-> Dir(x)]
  <2>1. g \in Surjection(Directories, dirfds)
    BY DEF Surjection
  <2> HIDE DEF g, dirfds
  <2> QED
    BY <1>3, <2>1, FS_Surjection DEF Depth
<1>5. IsFiniteSet(srcs) /\ Cardinality(srcs) <= Cardinality(under)
  <2> DEFINE g == [x \in under |-> Src(x)]
  <2>1. g \in Surjection(under, srcs)
    BY DEF Surjection
  <2> HIDE DEF g, srcs, under
  <2> QED
    BY <1>2, <2>1, FS_Surjection
<1>6. IsFiniteSet(dsts) /\ Cardinality(dsts) <= Cardinality(under)
  <2> DEFINE g == [x \in under |-> Dst(x)]
  <2>1. g \in Surjection(under, dsts)
    BY DEF Surjection
  <2> HIDE DEF g, dsts, under
  <2> QED
    BY <1>2, <2>1, FS_Surjection
<1>7. fds \subseteq ((dirfds \cup srcs) \cup dsts) \cup {Src(cur)}
  <2> SUFFICES ASSUME NEW x \in fds PROVE x \in ((dirfds \cup srcs) \cup dsts) \cup {Src(cur)}
    OBVIOUS
  <2>1. CASE x \in {Src(e) : e \in Regulars}
    <3>1. PICK f \in Regulars : x = Src(f)
      BY <2>1
    <3>2. HasSrc(f)
      BY <1>1, <3>1 DEF FdsInv, SrcFds
    <3>3. f \in under \/ f = cur
      BY <3>2 DEF HasSrc
    <3> QED
      BY <3>1, <3>3
  <2>2. CASE x \in {Dst(e) : e \in Regulars}
    <3>1. PICK f \in Regulars : x = Dst(f)
      BY <2>2
    <3>2. HasDst(f)
      BY <1>1, <3>1 DEF FdsInv, DstFds
    <3>3. f \in under
      BY <3>2 DEF HasDst
    <3> QED
      BY <3>1, <3>3
  <2>3. CASE x \in {Dir(d) : d \in Directories}
    BY <2>3
  <2> QED
    BY <1>1, <2>1, <2>2, <2>3 DEF TypeOK, Descriptors
<1> HIDE DEF under, dirfds, srcs, dsts
<1>8. /\ Cardinality(dirfds) \in Nat /\ Cardinality(srcs) \in Nat /\ Cardinality(dsts) \in Nat
      /\ Cardinality(Workers) \in Nat /\ BufferSize \in Nat /\ FdLimit \in Nat
  BY <1>4, <1>5, <1>6, WorkersAssumption, SizeAssumption, FS_CardinalityType
<1> DEFINE two == dirfds \cup srcs
           three == two \cup dsts
           all == three \cup {Src(cur)}
<1>9. /\ IsFiniteSet(two) /\ Cardinality(two) \in Nat
      /\ Cardinality(two) <= Cardinality(dirfds) + Cardinality(srcs)
  BY <1>4, <1>5, UnionSize
<1> HIDE DEF two
<1>10. /\ IsFiniteSet(three) /\ Cardinality(three) \in Nat
       /\ Cardinality(three) <= Cardinality(two) + Cardinality(dsts)
  BY <1>6, <1>9, UnionSize
<1> HIDE DEF three
<1>11. IsFiniteSet(all) /\ Cardinality(all) \in Nat /\ Cardinality(all) <= Cardinality(three) + 1
  <2> DEFINE x == Src(cur)
  <2> HIDE DEF x
  <2> SUFFICES /\ IsFiniteSet(three \cup {x}) /\ Cardinality(three \cup {x}) \in Nat
               /\ Cardinality(three \cup {x}) <= Cardinality(three) + 1
    BY DEF x
  <2>1. /\ IsFiniteSet(three \cup {x})
        /\ Cardinality(three \cup {x}) \in {Cardinality(three), Cardinality(three) + 1}
    BY <1>10, FS_AddElement
  <2> QED
    BY <1>10, <2>1
<1>12. fds \in SUBSET all
  BY <1>7 DEF three, two
<1> HIDE DEF all
<1>13. Cardinality(fds) <= Cardinality(all) /\ Cardinality(fds) \in Nat
  BY <1>11, <1>12, FS_Subset, FS_CardinalityType
<1>14. FdLimit >= 2 * (BufferSize + Cardinality(Workers) + 1) + Depth
  BY DEF Spare, PoolFds
<1>15. Cardinality(fds) <= Depth + bound + bound + 1
  BY <1>2, <1>3, <1>4, <1>5, <1>6, <1>8, <1>9, <1>10, <1>11, <1>13
<1> QED
  BY <1>3, <1>8, <1>13, <1>14, <1>15 DEF HasFd

(* The walk ends with the directory it began with.                         *)
LEMMA StackEmpties ==
    ASSUME mpc \in {"finish", "end"} => dirs = <<>>, [Next]_vars
    PROVE  mpc' \in {"finish", "end"} => dirs' = <<>>
<1>1. CASE OpenDir
  <2>1. mpc' = "readdir" \/ (mpc' = ReturnTo(dirs) /\ dirs' = dirs)
    BY <1>1 DEF OpenDir
  <2> QED
    BY <2>1 DEF ReturnTo
<1>2. CASE CloseDir
  <2>1. mpc' = ReturnTo(Tail(dirs)) /\ dirs' = Tail(dirs)
    BY <1>2 DEF CloseDir
  <2> QED
    BY <2>1 DEF ReturnTo
<1>3. CASE \/ (\E e \in Entries : ReadEntry(e)) \/ OpenSource \/ OpenDest \/ WaitNotFull
           \/ Discard \/ Enqueue \/ FinishWalk
  BY <1>3 DEF ReadEntry, OpenSource, OpenDest, WaitNotFull, Discard, Enqueue, FinishWalk, walkVars
<1>4. CASE (\E w \in Workers : WorkerStep(w)) \/ Environment \/ Join \/ Terminated \/ UNCHANGED vars
  BY <1>4 DEF WorkerStep, WaitNotEmpty, Exit, Dequeue, CopyFile, CloseSource, CloseDest,
     Account, Environment, Interrupt, SpuriousWakeup, Join, Terminated, vars, walkVars
<1> QED
  BY <1>1, <1>2, <1>3, <1>4 DEF Next, ThreadStep, ManagerStep

(* SIGINT is not forgotten.                                                *)
LEMMA SpareStep == [Next]_vars /\ Spare' => Spare
  BY DEF Spare, PoolFds, Depth, Next, ThreadStep, ManagerStep, WorkerStep, OpenDir, ReadEntry, CloseDir,
     OpenSource, OpenDest, WaitNotFull, Discard, Enqueue, FinishWalk, WaitNotEmpty, Exit, Dequeue,
     CopyFile, CloseSource, CloseDest, Account, Environment, Interrupt, SpuriousWakeup, Join,
     Terminated, vars

(* closedir comes when readdir has returned every entry, and opendir does  *)
(* not fail.                                                               *)
LEMMA ReadThroughStep ==
    ASSUME PoolInv, Spare, ReadThrough, [Next]_vars
    PROVE  ReadThrough'
<1>1. TypeOK /\ WalkInv /\ DirsInv /\ ~stop
  BY DEF PoolInv, IInv, Spare
<1>2. ASSUME UNCHANGED <<unread, dirs>>, mpc # "opendir",
             mpc' # "opendir"
      PROVE  ReadThrough'
  <2>1. OpenDirs' = OpenDirs /\ Entered' = Entered
    BY <1>2, SameOpenDirs DEF Entered
  <2> QED
    BY <1>2, <2>1 DEF ReadThrough
<1>3. CASE OpenDir
  <2>1. unread' = unread /\ cur' = cur /\ mpc = "opendir" /\ mpc' # "opendir" /\ cur \in Directories
    BY <1>1, <1>3 DEF OpenDir, ReturnTo, WalkInv
  <2>2. HasFd
    BY <2>1, OpenSucceeds
  <2>3. CASE cur \notin NoRead
    <3>1. OpenDirs' = OpenDirs \cup {cur}
      BY <1>1, <1>3, <2>1, <2>2, <2>3, OpenPushes DEF OpenDir
    <3>2. Entered' = Entered \cup {cur}
      BY <1>1, <2>1, <2>3 DEF Entered, DirsInv
    <3> QED
      BY <2>1, <3>1, <3>2 DEF ReadThrough
  <2>4. CASE cur \in NoRead
    <3>1. dirs' = dirs
      BY <1>3, <2>4 DEF OpenDir
    <3>2. OpenDirs' = OpenDirs /\ Entered' = Entered
      BY <2>1, <2>4, <3>1, SameOpenDirs DEF Entered
    <3> QED
      BY <2>1, <3>2 DEF ReadThrough
  <2> QED
    BY <2>3, <2>4
<1>4. ASSUME NEW e \in Entries, ReadEntry(e) PROVE ReadThrough'
  <2>1. /\ dirs' = dirs /\ unread' = unread \ {e} /\ cur' = e /\ mpc = "readdir"
        /\ mpc' = "opendir" <=> Kind[e] = "directory"
    BY <1>4 DEF ReadEntry
  <2>2. OpenDirs' = OpenDirs
    BY <2>1, SameOpenDirs
  <2>3. e \in Directories <=> Kind[e] = "directory"
    BY TreeAssumption DEF Directories
  <2>4. Entered' \subseteq Entered
    BY <2>1, <2>3 DEF Entered
  <2> QED
    BY <2>1, <2>2, <2>4 DEF ReadThrough
<1>5. CASE CloseDir
  <2>1. /\ unread' = unread /\ mpc = "readdir" /\ mpc' # "opendir" /\ dirs # <<>> /\ dirs' = Tail(dirs)
        /\ Here = {}
    BY <1>1, <1>5 DEF CloseDir, ReturnTo, WalkInv
  <2>2. OpenDirs' = OpenDirs \ {Head(dirs)}
    BY <1>1, <2>1, ClosePops
  <2>3. Entered' = Entered
    BY <2>1 DEF Entered
  <2>4. \A e \in unread : Parent[e] # Head(dirs)
    BY <2>1 DEF Here
  <2> QED
    BY <2>1, <2>2, <2>3, <2>4 DEF ReadThrough
<1>6. CASE OpenSource \/ OpenDest \/ WaitNotFull \/ Discard \/ Enqueue \/ FinishWalk
  <2>1. UNCHANGED <<dirs, unread>> /\ mpc # "opendir" /\ mpc' # "opendir"
    BY <1>6 DEF OpenSource, OpenDest, WaitNotFull, Discard, Enqueue, FinishWalk, walkVars
  <2> QED
    BY <1>2, <2>1
<1>7. CASE (\E w \in Workers : WorkerStep(w)) \/ Environment \/ Join \/ Terminated \/ UNCHANGED vars
  <2>1. UNCHANGED <<dirs, unread, mpc, cur>>
    BY <1>7 DEF WorkerStep, WaitNotEmpty, Exit, Dequeue, CopyFile, CloseSource, CloseDest,
       Account, Environment, Interrupt, SpuriousWakeup, Join, Terminated, vars, walkVars
  <2>2. OpenDirs' = OpenDirs /\ Entered' = Entered
    BY <2>1, SameOpenDirs DEF Entered
  <2> QED
    BY <2>1, <2>2 DEF ReadThrough
<1> QED
  BY <1>3, <1>4, <1>5, <1>6, <1>7 DEF Next, ThreadStep, ManagerStep

(* Neither open fails for a file that may be read and written, and each    *)
(* file goes from hand to hand until it is copied.                         *)
LEMMA NoneSkippedStep ==
    ASSUME PoolInv, Spare, NoneSkipped, [Next]_vars
    PROVE  NoneSkipped'
<1>1. TypeOK /\ WalkInv /\ PlaceInv /\ ~stop
  BY DEF PoolInv, IInv, Spare
<1> SUFFICES ASSUME NEW f \in Wanted, f \notin unread' PROVE OnItsWay(f)'
  BY DEF NoneSkipped
<1>2. f \in Regulars /\ f \in Entries /\ f \notin NoRead /\ f \notin NoWrite
      /\ Kind[f] = "regular"
  BY DEF Wanted, Regulars
<1>3. CASE OpenDir \/ CloseDir \/ WaitNotFull \/ FinishWalk
           \/ Environment \/ Join \/ Terminated \/ UNCHANGED vars
  <2>1. UNCHANGED <<unread, ringVars, dst, held>>
    BY <1>3 DEF OpenDir, CloseDir, WaitNotFull, FinishWalk, Environment,
                Interrupt, SpuriousWakeup, Join, Terminated, vars, walkVars, workerVars
  <2>2. mpc \in {"opensrc", "opendst", "put"} => UNCHANGED <<mpc, cur>>
    BY <1>3 DEF OpenDir, CloseDir, WaitNotFull, FinishWalk, Environment,
                Interrupt, SpuriousWakeup, Join, Terminated, vars, walkVars
  <2>3. QueuedFiles' = QueuedFiles
    BY <2>1, SameQueue
  <2> QED
    BY <2>1, <2>2, <2>3 DEF NoneSkipped, OnItsWay
<1>4. ASSUME NEW e \in Entries, ReadEntry(e) PROVE OnItsWay(f)'
  <2>1. /\ UNCHANGED <<ringVars, held>> /\ unread' = unread \ {e} /\ cur' = e /\ mpc = "readdir"
        /\ Kind[e] = "regular" => mpc' = "opensrc"
        /\ dst' = dst \/ (Kind[e] # "regular" /\ dst' = [dst EXCEPT ![e] = "made"])
    BY <1>4 DEF ReadEntry, workerVars
  <2>2. QueuedFiles' = QueuedFiles
    BY <2>1, SameQueue
  <2>3. dst'[f] = dst[f]
    BY <1>1, <1>2, <2>1 DEF TypeOK
  <2>4. CASE f = e
    BY <1>2, <2>1, <2>4 DEF OnItsWay
  <2>5. CASE f # e
    <3>1. OnItsWay(f)
      BY <2>1, <2>5 DEF NoneSkipped
    <3> QED
      BY <2>1, <2>2, <2>3, <3>1 DEF OnItsWay
  <2> QED
    BY <2>4, <2>5
<1>5. CASE OpenSource \/ OpenDest
  <2>1. UNCHANGED <<unread, ringVars, held, cur>> /\ mpc \in {"opensrc", "opendst"}
    BY <1>5 DEF OpenSource, OpenDest, walkVars, workerVars
  <2>2. HasFd
    BY <2>1, OpenSucceeds
  <2>3. cur \notin NoRead \cup NoWrite => mpc' \in {"opendst", "put"}
    BY <1>5, <2>2 DEF OpenSource, OpenDest
  <2>4. QueuedFiles' = QueuedFiles
    BY <2>1, SameQueue
  <2>5. f # cur => dst'[f] = dst[f]
    BY <1>1, <1>2, <1>5 DEF OpenSource, OpenDest, TypeOK
  <2>6. OnItsWay(f)
    BY <2>1 DEF NoneSkipped
  <2>7. CASE f = cur
    BY <1>2, <2>1, <2>3, <2>7 DEF OnItsWay
  <2>8. CASE f # cur
    BY <2>1, <2>4, <2>5, <2>6, <2>8 DEF OnItsWay
  <2> QED
    BY <2>7, <2>8
<1>6. CASE Discard
  BY <1>1, <1>6 DEF Discard
<1>7. CASE Enqueue
  <2>1. UNCHANGED <<unread, dst, held, cur>> /\ mpc = "put"
    BY <1>7 DEF Enqueue, workerVars
  <2>2. QueuedFiles' = QueuedFiles \cup {cur}
    BY <1>1, <1>7, <2>1, PutEffect DEF PlaceInv, CurOK
  <2> QED
    BY <2>1, <2>2 DEF NoneSkipped, OnItsWay
<1>8. ASSUME NEW w \in Workers, Dequeue(w) PROVE OnItsWay(f)'
  <2> DEFINE g == buffer[out]
  <2>1. /\ UNCHANGED <<unread, dst, cur, mpc>> /\ wpc[w] = "loop" /\ held'[w] = g
        /\ \A v \in Workers : v # w => held'[v] = held[v]
    BY <1>1, <1>8 DEF Dequeue, AtLoop, walkVars, TypeOK
  <2>2. QueuedFiles' = QueuedFiles \ {g}
    BY <1>1, <1>8, TakeEffect DEF PlaceInv
  <2>3. held[w] # f
    BY <1>1, <1>2, <2>1, RegularsAreFiles DEF PlaceInv, HeldOK
  <2> HIDE DEF g
  <2> QED
    BY <2>1, <2>2, <2>3 DEF NoneSkipped, OnItsWay
<1>9. ASSUME NEW w \in Workers, CopyFile(w) PROVE OnItsWay(f)'
  <2>1. UNCHANGED <<unread, ringVars, cur, mpc, held>> /\ wpc[w] = "copy"
    BY <1>9 DEF CopyFile, walkVars
  <2>2. dst'[f] = dst[f] \/ dst'[f] \in {"full", "partial"}
    BY <1>1, <1>2, <1>9 DEF CopyFile, TypeOK
  <2>3. QueuedFiles' = QueuedFiles
    BY <2>1, SameQueue
  <2> QED
    BY <2>1, <2>2, <2>3 DEF NoneSkipped, OnItsWay
<1>10. ASSUME NEW w \in Workers, WaitNotEmpty(w) \/ Exit(w) \/ CloseSource(w) \/ CloseDest(w)
       PROVE  OnItsWay(f)'
  <2>1. UNCHANGED <<unread, ringVars, dst, held, cur, mpc>>
    BY <1>10 DEF WaitNotEmpty, Exit, CloseSource, CloseDest, walkVars, workerVars
  <2>2. QueuedFiles' = QueuedFiles
    BY <2>1, SameQueue
  <2> QED
    BY <2>1, <2>2 DEF NoneSkipped, OnItsWay
<1>11. ASSUME NEW w \in Workers, Account(w) PROVE OnItsWay(f)'
  <2>1. /\ UNCHANGED <<unread, ringVars, cur, mpc, dst>> /\ wpc[w] = "account"
        /\ \A v \in Workers : v # w => held'[v] = held[v]
    BY <1>1, <1>11 DEF Account, walkVars, TypeOK
  <2>2. QueuedFiles' = QueuedFiles
    BY <2>1, SameQueue
  <2>3. dst[held[w]] \in {"full", "partial"}
    BY <1>1, <2>1 DEF PlaceInv, HeldOK
  <2> QED
    BY <2>1, <2>2, <2>3 DEF NoneSkipped, OnItsWay
<1> QED
  BY <1>3, <1>4, <1>5, <1>6, <1>7, <1>8, <1>9, <1>10, <1>11
     DEF Next, ThreadStep, ManagerStep, WorkerStep

(* The walk begins with everything unread.                                 *)
LEMMA WalkedInit == Init => WalkedInv
<1> SUFFICES ASSUME Init PROVE WalkedInv
  OBVIOUS
<1>1. unread = Entries /\ mpc = "opendir" /\ cur = Root
  BY DEF Init
<1>2. Entered = {}
  BY <1>1 DEF Entered, Directories
<1>3. \A f \in Wanted : f \in unread
  BY <1>1 DEF Wanted, Regulars
<1> QED
  BY <1>1, <1>2, <1>3 DEF WalkedInv, ReadThrough, NoneSkipped

(* Every step of the pool keeps what is said of the walk.                  *)
LEMMA WalkedStep == PoolInv /\ WalkedInv /\ [Next]_vars => WalkedInv'
  BY StackEmpties, SpareStep, ReadThroughStep, NoneSkippedStep DEF WalkedInv

(* A run without SIGINT, and with enough descriptors, copies every file it *)
(* may read and write in every directory the walk gets into: the ones it   *)
(* has entered are closed under the rule that defines Reachable.           *)
THEOREM NothingIsSkipped == Spec => []EveryFileCopied
<1>1. PoolInv /\ WalkedInv => EveryFileCopied
  <2> SUFFICES ASSUME PoolInv, WalkedInv, joined, Spare,
                      NEW f \in Wanted, Parent[f] \in Reachable
               PROVE  dst[f] \in {"full", "partial"}
    BY DEF EveryFileCopied, Spare, Wanted
  <2>1. /\ TypeOK /\ ExitedMeansDrained /\ PlaceInv /\ mpc = "end"
        /\ \A w \in Workers : wpc[w] = "exit"
    BY DEF PoolInv, IInv, ThreadsEnded
  <2>2. OpenDirs = {}
    BY <2>1 DEF WalkedInv, OpenDirs
  <2>3. \A d \in Entered : \A e \in unread : Parent[e] # d
    BY <2>2 DEF WalkedInv, ReadThrough
  <2>4. WalkedInto(Entered)
    <3> SUFFICES ASSUME NEW d \in Directories \ NoRead, d = Root \/ Parent[d] \in Entered
                 PROVE  d \in Entered
      BY DEF WalkedInto
    <3>1. d \notin unread
      <4>1. CASE d = Root
        BY <2>1, <4>1, TreeAssumption DEF TypeOK
      <4>2. CASE Parent[d] \in Entered
        BY <2>3, <4>2
      <4> QED
        BY <4>1, <4>2
    <3> QED
      BY <2>1, <3>1 DEF Entered
  <2>5. Entered \in SUBSET Directories
    BY DEF Entered
  <2>6. Parent[f] \in Entered
    BY <2>4, <2>5 DEF Reachable
  <2>7. OnItsWay(f)
    BY <2>3, <2>6 DEF WalkedInv, NoneSkipped
  <2>8. QueuedFiles = {}
    <3>1. count = 0
      BY <2>1, WorkersAssumption DEF ExitedMeansDrained
    <3> QED
      BY <3>1, LiveSlots DEF QueuedFiles
  <2>9. \A w \in Workers : held[w] # f
    BY <2>1, RegularsAreFiles DEF PlaceInv, HeldOK, Wanted
  <2> QED
    BY <2>1, <2>7, <2>8, <2>9 DEF OnItsWay
<1> QED
  BY PoolInvariance, WalkedInit, WalkedStep, <1>1, PTL DEF Spec

-----------------------------------------------------------------------------
(* The hand-over.                                                          *)

Finished == {f \in Regulars : /\ dst[f] \in {"full", "partial"}
                              /\ \A w \in Workers : held[w] # f}
Closed == done \/ stop
Left   == {w \in Workers : wpc[w] = "exit"}

(* Sequences equal place by place are equal.                               *)
LEMMA EqualSequences ==
    ASSUME NEW S, NEW s \in Seq(S), NEW t \in Seq(S), Len(s) = Len(t),
           \A i \in 1..Len(s) : s[i] = t[i]
    PROVE  s = t
  OBVIOUS

(* The queue is what the live slots hold, oldest first.                    *)
QueueOf(b, o, c) == [i \in 1..c |-> b[(o + i - 1) % BufferSize]]

(* The queue read off the ring is a sequence of as many files as the ring  *)
(* counts, the i-th in the (i-1)-st slot from out.                         *)
LEMMA QueueIs ==
    ASSUME NEW b \in [Slots -> Entries \cup {NoFile}], NEW o \in Slots, NEW c \in 0..BufferSize
    PROVE  /\ QueueOf(b, o, c) \in Seq(Entries \cup {NoFile}) /\ Len(QueueOf(b, o, c)) = c
           /\ DOMAIN QueueOf(b, o, c) = 1..c
           /\ \A i \in 1..c : QueueOf(b, o, c)[i] = b[SlotAt(o, i - 1)]
<1>1. c \in Nat /\ BufferSize \in Nat /\ c <= BufferSize /\ o \in Nat
  BY SizeAssumption DEF Slots
<1>2. \A i \in 1..c : (o + i - 1) % BufferSize = SlotAt(o, i - 1)
  <2> SUFFICES ASSUME NEW i \in 1..c PROVE (o + i - 1) % BufferSize = SlotAt(o, i - 1)
    OBVIOUS
  <2>1. o + i - 1 = o + (i - 1)
    BY <1>1
  <2> QED
    BY <2>1 DEF SlotAt
<1>3. QueueOf(b, o, c) = [i \in 1..c |-> b[SlotAt(o, i - 1)]]
  BY <1>2 DEF QueueOf
<1>4. \A i \in 1..c : i - 1 \in 0..BufferSize
  BY <1>1
<1>5. \A i \in 1..c : b[SlotAt(o, i - 1)] \in Entries \cup {NoFile}
  BY <1>1, <1>4, SlotFacts
<1> QED
  BY <1>1, <1>3, <1>5

(* What the queue holds is what is queued.                                 *)
LEMMA QueueHolds ==
    ASSUME TypeOK PROVE {Queue[i] : i \in DOMAIN Queue} = QueuedFiles
<1>1. count \in Nat
  BY SizeAssumption DEF TypeOK
<1>2. Queue = QueueOf(buffer, out, count)
  BY DEF Queue, QueueOf
<1>3. DOMAIN Queue = 1..count /\ \A i \in 1..count : Queue[i] = buffer[SlotAt(out, i - 1)]
  <2>1. buffer \in [Slots -> Entries \cup {NoFile}] /\ out \in Slots /\ count \in 0..BufferSize
    BY DEF TypeOK
  <2> QED
    BY <1>2, <2>1, QueueIs
<1>4. \A i \in 0..(count - 1) : i + 1 \in 1..count /\ (i + 1) - 1 = i
  BY <1>1
<1>5. \A j \in 1..count : j - 1 \in 0..(count - 1)
  BY <1>1
<1>6. \A x : x \in QueuedFiles <=> \E i \in 0..(count - 1) : x = buffer[SlotAt(out, i)]
  BY LiveSlots DEF QueuedFiles
<1>7. ASSUME NEW i \in 0..(count - 1)
      PROVE  buffer[SlotAt(out, i)] \in {Queue[j] : j \in DOMAIN Queue}
  <2>1. Queue[i + 1] = buffer[SlotAt(out, i)]
    BY <1>3, <1>4
  <2> QED
    BY <1>3, <1>4, <2>1
<1>8. ASSUME NEW j \in 1..count PROVE Queue[j] \in QueuedFiles
  BY <1>3, <1>5, <1>6
<1> QED
  BY <1>3, <1>6, <1>7, <1>8

(* Manager's enqueue is the queue's Append, also where the ring wraps.     *)
LEMMA EnqueueAppends ==
    ASSUME TypeOK, TypeOK', RingInv, cur \in Regulars, Enqueue
    PROVE  Queue' = Append(Queue, cur)
<1> DEFINE S == Entries \cup {NoFile}
<1>1. cur \in S /\ count' = count + 1 /\ out' = out /\ count < BufferSize
      /\ BufferSize \in Nat /\ count \in Nat /\ out \in Slots
  BY RegularsAreFiles, SizeAssumption DEF TypeOK, Enqueue, MayQueue
<1>2. /\ Queue \in Seq(S) /\ Len(Queue) = count
      /\ \A i \in 1..count : Queue[i] = buffer[SlotAt(out, i - 1)]
  <2>1. Queue = QueueOf(buffer, out, count)
    BY DEF Queue, QueueOf
  <2> QED
    BY <2>1, QueueIs DEF TypeOK
<1>3. /\ Queue' \in Seq(S) /\ Len(Queue') = count + 1
      /\ \A i \in 1..(count + 1) : Queue'[i] = buffer'[SlotAt(out, i - 1)]
  <2>1. Queue' = QueueOf(buffer', out', count')
    BY DEF Queue, QueueOf
  <2>2. /\ Queue' \in Seq(S) /\ Len(Queue') = count'
        /\ \A i \in 1..count' : Queue'[i] = buffer'[SlotAt(out', i - 1)]
    BY <2>1, QueueIs DEF TypeOK
  <2> QED
    BY <1>1, <2>2
<1>4. /\ Append(Queue, cur) \in Seq(S) /\ Len(Append(Queue, cur)) = count + 1
      /\ \A i \in 1..count : Append(Queue, cur)[i] = Queue[i]
      /\ Append(Queue, cur)[count + 1] = cur
  BY <1>1, <1>2
<1>5. buffer'[in] = cur /\ \A i \in 1..count : buffer'[SlotAt(out, i - 1)] = buffer[SlotAt(out, i - 1)]
  <2>1. in \notin Live /\ in \in Slots
    BY RingPut DEF Enqueue, MayQueue, TypeOK
  <2>2. \A i \in 1..count : SlotAt(out, i - 1) \in Live /\ SlotAt(out, i - 1) \in Slots
    <3> SUFFICES ASSUME NEW i \in 1..count
                 PROVE  SlotAt(out, i - 1) \in Live /\ SlotAt(out, i - 1) \in Slots
      OBVIOUS
    <3>1. i - 1 \in 0..(count - 1) /\ i - 1 \in 0..BufferSize
      BY <1>1
    <3> QED
      BY <1>1, <3>1, LiveSlots, SlotFacts
  <2> QED
    BY <2>1, <2>2 DEF Enqueue, TypeOK
<1>6. Queue'[count + 1] = cur
  <2>1. (count + 1) - 1 = count /\ count + 1 \in 1..(count + 1)
    BY <1>1
  <2> QED
    BY <1>3, <1>5, <2>1 DEF RingInv
<1>7. \A i \in 1..(count + 1) : i \in 1..count \/ i = count + 1
  BY <1>1
<1>8. \A i \in 1..(count + 1) : Queue'[i] = Append(Queue, cur)[i]
  BY <1>2, <1>3, <1>4, <1>5, <1>6, <1>7
<1> QED
  BY <1>3, <1>4, <1>8, EqualSequences

(* A worker's dequeue takes the head of the queue.                         *)
LEMMA DequeueTails ==
    ASSUME TypeOK, TypeOK', NEW w \in Workers, Dequeue(w)
    PROVE  Queue # <<>> /\ Queue' = Tail(Queue) /\ Head(Queue) = buffer[out]
<1> DEFINE S == Entries \cup {NoFile}
<1>1. /\ count' = count - 1 /\ out' = Advance(out) /\ buffer' = buffer
      /\ count \in 1..BufferSize /\ BufferSize \in Nat /\ out \in Slots
  BY SizeAssumption DEF TypeOK, Dequeue
<1>2. /\ Queue \in Seq(S) /\ Len(Queue) = count
      /\ \A i \in 1..count : Queue[i] = buffer[SlotAt(out, i - 1)]
  <2>1. Queue = QueueOf(buffer, out, count)
    BY DEF Queue, QueueOf
  <2> QED
    BY <2>1, QueueIs DEF TypeOK
<1>3. /\ Queue' \in Seq(S) /\ Len(Queue') = count - 1
      /\ \A i \in 1..(count - 1) : Queue'[i] = buffer[SlotAt(Advance(out), i - 1)]
  <2>1. Queue' = QueueOf(buffer', out', count')
    BY DEF Queue, QueueOf
  <2>2. /\ Queue' \in Seq(S) /\ Len(Queue') = count'
        /\ \A i \in 1..count' : Queue'[i] = buffer'[SlotAt(out', i - 1)]
    BY <2>1, QueueIs DEF TypeOK
  <2> QED
    BY <1>1, <2>2
<1>4. /\ Queue # <<>> /\ Head(Queue) = Queue[1]
      /\ Tail(Queue) \in Seq(S) /\ Len(Tail(Queue)) = count - 1
      /\ \A i \in 1..(count - 1) : Tail(Queue)[i] = Queue[i + 1]
  BY <1>1, <1>2
<1>5. Queue[1] = buffer[out]
  <2>1. 1 \in 1..count /\ 1 - 1 = 0 /\ 0 \in 0..(BufferSize - 1)
    BY <1>1
  <2> QED
    BY <1>1, <1>2, <2>1, AdvanceSlot
<1>6. ASSUME NEW i \in 1..(count - 1) PROVE Queue'[i] = Tail(Queue)[i]
  <2>1. i - 1 \in 0..(BufferSize - 1) /\ (i - 1) + 1 = i /\ i + 1 \in 1..count /\ (i + 1) - 1 = i
    BY <1>1
  <2>2. SlotAt(Advance(out), i - 1) = SlotAt(out, i)
    BY <1>1, <2>1, AdvanceSlot
  <2>3. Queue'[i] = buffer[SlotAt(out, i)]
    BY <1>3, <2>2
  <2>4. Queue[i + 1] = buffer[SlotAt(out, i)]
    BY <1>2, <2>1
  <2> QED
    BY <1>4, <2>3, <2>4
<1> QED
  BY <1>3, <1>4, <1>5, <1>6, EqualSequences

(* A step that leaves the queue alone.                                     *)
LEMMA SameHandOver ==
    ASSUME UNCHANGED <<ringVars, held>>, Finished' = Finished, Closed' = Closed, Left' = Left
    PROVE  UNCHANGED HandOver!qvars
<1>1. Queue' = Queue
  BY DEF Queue, ringVars
<1> QED
  BY <1>1 DEF HandOver!qvars, Finished, Closed, Left

(* A step of the manager is a Put or the Close of the hand-over, or none   *)
(* of its steps.                                                           *)
LEMMA ManagerHandsOver ==
    ASSUME PoolInv, PoolInv', ManagerStep
    PROVE  HandOver!Next \/ UNCHANGED HandOver!qvars
<1>1. TypeOK /\ WalkInv /\ PlaceInv /\ TypeOK'
  BY DEF PoolInv, IInv
<1>2. CASE OpenDir \/ CloseDir \/ OpenSource \/ WaitNotFull \/ Discard
  <2>1. UNCHANGED <<ringVars, held, dst, wpc, done, stop>>
    BY <1>2 DEF OpenDir, CloseDir, OpenSource, WaitNotFull, Discard, workerVars
  <2> QED
    BY <2>1, SameHandOver DEF Finished, Closed, Left
<1>3. ASSUME NEW e \in Entries, ReadEntry(e) PROVE UNCHANGED HandOver!qvars
  <2>1. UNCHANGED <<ringVars, held, wpc, done, stop>>
    BY <1>3 DEF ReadEntry, workerVars
  <2>2. \A f \in Regulars : dst'[f] = dst[f]
    BY <1>1, <1>3 DEF ReadEntry, TypeOK, Regulars
  <2> QED
    BY <2>1, <2>2, SameHandOver DEF Finished, Closed, Left
<1>4. CASE OpenDest
  <2>1. UNCHANGED <<ringVars, held, wpc, done, stop>> /\ mpc = "opendst" /\ cur \in Regulars
    BY <1>1, <1>4 DEF OpenDest, workerVars, WalkInv
  <2>2. dst[cur] = "absent"
    BY <1>1, <2>1 DEF PlaceInv, CurOK
  <2>3. \A f \in Regulars : dst'[f] = dst[f] \/ (f = cur /\ dst'[f] = "empty")
    BY <1>1, <1>4, RegularsAreFiles DEF OpenDest, TypeOK
  <2>4. Finished' = Finished
    BY <2>1, <2>2, <2>3 DEF Finished
  <2> QED
    BY <2>1, <2>4, SameHandOver DEF Closed, Left
<1>5. CASE Enqueue
  <2>1. UNCHANGED <<held, wpc, done, stop, dst>> /\ mpc = "put" /\ cur \in Regulars
        /\ ~stop /\ ~done /\ count < BufferSize
    BY <1>1, <1>5, SizeAssumption DEF Enqueue, MayQueue, workerVars, WalkInv, TypeOK
  <2>2. dst[cur] = "empty" /\ cur \notin QueuedFiles /\ \A w \in Workers : held[w] # cur
    BY <1>1, <2>1 DEF PlaceInv, CurOK
  <2>3. Queue' = Append(Queue, cur)
    BY <1>1, <1>5, <2>1, EnqueueAppends DEF PlaceInv
  <2>4. Queue = QueueOf(buffer, out, count)
    BY DEF Queue, QueueOf
  <2>5. Len(Queue) < BufferSize
    BY <1>1, <2>1, <2>4, QueueIs DEF TypeOK
  <2>6. cur \notin {Queue[i] : i \in DOMAIN Queue} \cup {held[w] : w \in Workers} \cup Finished
    BY <1>1, <2>2, QueueHolds DEF Finished
  <2>7. HandOver!Put(cur)
    BY <2>1, <2>3, <2>5, <2>6 DEF HandOver!Put, HandOver!Seen, HandOver!Queued, Finished
  <2> QED
    BY <2>1, <2>7 DEF HandOver!Next
<1>6. CASE FinishWalk
  <2>1. UNCHANGED <<ringVars, held, dst, wpc, stop>> /\ done' = TRUE
    BY <1>6 DEF FinishWalk, workerVars
  <2>2. Queue' = Queue
    BY <2>1 DEF Queue, ringVars
  <2>3. CASE stop
    BY <2>1, <2>3, SameHandOver DEF Finished, Closed, Left
  <2>4. CASE ~stop
    <3>1. ~Closed /\ Closed'
      BY <1>1, <1>6, <2>1, <2>4 DEF FinishWalk, Closed, WalkInv
    <3>2. HandOver!Close
      BY <2>1, <2>2, <3>1 DEF HandOver!Close, Closed, TypeOK
    <3> QED
      BY <3>2 DEF HandOver!Next
  <2> QED
    BY <2>3, <2>4
<1> QED
  BY <1>2, <1>3, <1>4, <1>5, <1>6 DEF ManagerStep

(* A step of a worker is a step of the hand-over, or none.                 *)
LEMMA WorkerTakesOver ==
    ASSUME PoolInv, PoolInv', NEW w \in Workers, WorkerStep(w)
    PROVE  HandOver!Next \/ UNCHANGED HandOver!qvars
<1>1. TypeOK /\ WalkInv /\ PlaceInv /\ TypeOK'
  BY DEF PoolInv, IInv
<1>2. CASE WaitNotEmpty(w) \/ CloseSource(w) \/ CloseDest(w)
  <2>1. UNCHANGED <<ringVars, held, dst, done, stop>>
        /\ \A v \in Workers : wpc'[v] = "exit" <=> wpc[v] = "exit"
    BY <1>1, <1>2 DEF WaitNotEmpty, CloseSource, CloseDest, workerVars, TypeOK
  <2> QED
    BY <2>1, SameHandOver DEF Finished, Closed, Left
<1>3. CASE CopyFile(w)
  <2>1. UNCHANGED <<ringVars, held, done, stop>> /\ wpc[w] = "copy"
        /\ \A v \in Workers : wpc'[v] = "exit" <=> wpc[v] = "exit"
    BY <1>1, <1>3 DEF CopyFile, TypeOK
  <2>2. \A f \in Regulars : f # held[w] => dst'[f] = dst[f]
    BY <1>1, <1>3, RegularsAreFiles DEF CopyFile, TypeOK
  <2>3. Finished' = Finished
    BY <2>1, <2>2 DEF Finished
  <2> QED
    BY <2>1, <2>3, SameHandOver DEF Closed, Left
<1>4. CASE Exit(w)
  <2>1. /\ UNCHANGED <<ringVars, held, dst, done, stop>> /\ count = 0 /\ (done \/ stop)
        /\ held[w] = NoFile /\ wpc' = [wpc EXCEPT ![w] = "exit"]
    BY <1>1, <1>4 DEF Exit, MayLeave, AtLoop, PlaceInv, HeldOK
  <2>2. Left' = Left \cup {w} /\ Finished' = Finished /\ Closed' = Closed
    BY <1>1, <2>1 DEF Left, Finished, Closed, TypeOK
  <2>3. Queue' = Queue
    BY <2>1 DEF Queue, ringVars
  <2>4. Queue = QueueOf(buffer, out, count)
    BY DEF Queue, QueueOf
  <2>5. Queue \in Seq(Entries \cup {NoFile}) /\ Len(Queue) = count
    BY <1>1, <2>4, QueueIs DEF TypeOK
  <2>6. Queue = <<>>
    BY <2>1, <2>5
  <2>7. HandOver!Leave(w)
    BY <2>1, <2>2, <2>3, <2>6 DEF HandOver!Leave, Left, Finished, Closed
  <2> QED
    BY <2>7 DEF HandOver!Next
<1>5. CASE Dequeue(w)
  <2>1. /\ UNCHANGED <<dst, done, stop>> /\ wpc[w] = "loop" /\ held[w] = NoFile
        /\ held' = [held EXCEPT ![w] = buffer[out]]
        /\ \A v \in Workers : wpc'[v] = "exit" <=> wpc[v] = "exit"
    BY <1>1, <1>5 DEF Dequeue, AtLoop, PlaceInv, HeldOK, TypeOK
  <2>2. Queue # <<>> /\ Queue' = Tail(Queue) /\ Head(Queue) = buffer[out]
    BY <1>1, <1>5, DequeueTails
  <2>3. buffer[out] \in Regulars /\ dst[buffer[out]] = "empty"
    BY <1>1, <1>5, TakeEffect DEF PlaceInv, QueuedOK
  <2>4. \A f \in Regulars : f # buffer[out] =>
           ((\A v \in Workers : held'[v] # f) <=> (\A v \in Workers : held[v] # f))
    <3>1. held'[w] = buffer[out] /\ \A v \in Workers : v # w => held'[v] = held[v]
      BY <1>1, <2>1 DEF TypeOK
    <3> QED
      BY <2>1, <3>1, RegularsAreFiles
  <2>5. Finished' = Finished
    BY <2>1, <2>3, <2>4 DEF Finished
  <2>6. Closed' = Closed /\ Left' = Left /\ w \notin Left
    BY <2>1 DEF Closed, Left
  <2>7. HandOver!Take(w)
    BY <2>1, <2>2, <2>5, <2>6 DEF HandOver!Take, Finished, Closed, Left
  <2> QED
    BY <2>7 DEF HandOver!Next
<1>6. CASE Account(w)
  <2>1. /\ UNCHANGED <<ringVars, dst, done, stop>> /\ wpc[w] = "account"
        /\ held' = [held EXCEPT ![w] = NoFile]
        /\ \A v \in Workers : wpc'[v] = "exit" <=> wpc[v] = "exit"
    BY <1>1, <1>6 DEF Account, TypeOK
  <2>2. held[w] \in Regulars /\ dst[held[w]] \in {"full", "partial"} /\ held[w] # NoFile
    BY <1>1, <2>1, RegularsAreFiles DEF PlaceInv, HeldOK
  <2>3. \A v \in Workers : v # w => held[v] # held[w]
    BY <1>1, <2>2 DEF PlaceInv, HeldDistinct
  <2>4. held'[w] = NoFile /\ \A v \in Workers : v # w => held'[v] = held[v]
    BY <1>1, <2>1 DEF TypeOK
  <2>5. Finished' = Finished \cup {held[w]}
    BY <2>1, <2>2, <2>3, <2>4, RegularsAreFiles DEF Finished
  <2>6. Closed' = Closed /\ Left' = Left /\ Queue' = Queue
    BY <2>1 DEF Closed, Left, Queue, ringVars
  <2>7. HandOver!Finish(w)
    BY <2>1, <2>2, <2>5, <2>6 DEF HandOver!Finish, Finished, Closed, Left
  <2> QED
    BY <2>7 DEF HandOver!Next
<1> QED
  BY <1>2, <1>3, <1>4, <1>5, <1>6 DEF WorkerStep

(* SIGINT closes the hand-over, and nothing else outside the threads       *)
(* touches it.                                                             *)
LEMMA OthersHandOver ==
    ASSUME PoolInv, Environment \/ Join \/ Terminated \/ UNCHANGED vars
    PROVE  HandOver!Next \/ UNCHANGED HandOver!qvars
<1>1. UNCHANGED <<ringVars, held, dst, wpc, done>>
  BY DEF Environment, Interrupt, SpuriousWakeup, Join, Terminated, vars, workerVars
<1>2. Queue' = Queue /\ Finished' = Finished /\ Left' = Left
  BY <1>1 DEF Queue, ringVars, Finished, Left
<1>3. CASE Closed' = Closed
  BY <1>1, <1>2, <1>3, SameHandOver
<1>4. CASE Closed' # Closed
  <2>1. ~Closed /\ Closed'
    BY <1>1, <1>4 DEF Closed, Environment, Interrupt, SpuriousWakeup, Join, Terminated, vars,
                      PoolInv, IInv, TypeOK
  <2>2. HandOver!Close
    BY <1>1, <1>2, <2>1 DEF HandOver!Close, Closed, Finished, Left
  <2> QED
    BY <2>2 DEF HandOver!Next
<1> QED
  BY <1>3, <1>4

(* The pool is a bounded first-in, first-out hand-over: the initial states *)
(* are its initial states and each step of manager, worker, SIGINT or main *)
(* is one of its steps or none.                                            *)
THEOREM PoolIsHandOver == Spec => HandOver!Init /\ [][HandOver!Next]_(HandOver!qvars)
<1>1. Init => HandOver!Init
  <2> SUFFICES ASSUME Init PROVE HandOver!Init
    OBVIOUS
  <2>1. TypeOK /\ count = 0
    BY InitInv DEF IInv, Init
  <2>2. Queue = QueueOf(buffer, out, count)
    BY DEF Queue, QueueOf
  <2>3. Queue \in Seq(Entries \cup {NoFile}) /\ Len(Queue) = 0
    BY <2>1, <2>2, QueueIs DEF TypeOK
  <2>4. Queue = <<>>
    BY <2>3
  <2>5. Finished = {} /\ Closed = FALSE /\ Left = {} /\ held = [w \in Workers |-> NoFile]
    BY RegularsAreFiles DEF Init, Finished, Closed, Left
  <2> QED
    BY <2>4, <2>5 DEF HandOver!Init, Finished, Closed, Left
<1>2. PoolInv /\ PoolInv' /\ [Next]_vars => HandOver!Next \/ UNCHANGED HandOver!qvars
  BY ManagerHandsOver, WorkerTakesOver, OthersHandOver DEF Next, ThreadStep
<1> QED
  BY <1>1, <1>2, PoolInvariance, PTL DEF Spec
-----------------------------------------------------------------------------
(* The barrier of the enhanced copy utility.  Its steps are steps of the   *)
(* plain pool, so the pool's invariant holds of it unchanged; what the     *)
(* barrier adds is that whoever is past it has seen every worker arrive.   *)

(* Who has arrived has left its loop, and the first to pass saw them all.  *)
AtBarrier == /\ arrived \subseteq {w \in Workers : wpc[w] = "exit"}
             /\ passed \subseteq arrived
             /\ passed # {} => arrived = Workers

BarrierInv == PoolInv /\ AtBarrier

(* A worker that has left its loop is through: no step of the pool brings  *)
(* it back.                                                                *)
LEMMA ExitIsFinal ==
    ASSUME TypeOK, [Next]_vars, NEW w \in Workers, wpc[w] = "exit"
    PROVE  wpc'[w] = "exit"
<1>1. ASSUME NEW v \in Workers, WorkerStep(v) PROVE wpc'[w] = "exit"
  BY <1>1 DEF WorkerStep, WaitNotEmpty, Exit, Dequeue, CopyFile, CloseSource, CloseDest, Account,
              AtLoop, workerVars, TypeOK
<1>2. ASSUME ManagerStep \/ Environment \/ Join \/ UNCHANGED vars PROVE wpc' = wpc
  BY <1>2 DEF ManagerStep, OpenDir, ReadEntry, CloseDir, OpenSource, OpenDest, WaitNotFull, Discard,
              Enqueue, FinishWalk, Environment, Interrupt, SpuriousWakeup, Join, workerVars, vars
<1> QED
  BY <1>1, <1>2 DEF Next, ThreadStep, Terminated

(* The barrier never does anything the plain pool could not do.            *)
LEMMA StepsOfThePool == [BarrierNext]_allVars => [Next]_vars
  BY DEF BarrierNext, BarrierManager, BarrierThread, BarrierWorker, BarrierSignal, BarrierJoin,
         BarrierDone, Arrive, Pass, Next, ThreadStep, allVars

(* Who has arrived stays, and the barrier opens for all of them.           *)
LEMMA ArrivalStep ==
    ASSUME TypeOK, AtBarrier, [BarrierNext]_allVars
    PROVE  AtBarrier'
<1>1. \A w \in Workers : wpc[w] = "exit" => wpc'[w] = "exit"
  BY ExitIsFinal, StepsOfThePool
<1>2. ASSUME NEW w \in Workers, Arrive(w) PROVE AtBarrier'
  BY <1>1, <1>2 DEF Arrive, AtBarrier
<1>3. ASSUME NEW w \in Workers, Pass(w) PROVE AtBarrier'
  <2>1. arrived = Workers
    BY <1>3, WorkersAssumption, FS_Subset DEF Pass, AtBarrier, BarrierCount
  <2> QED
    BY <1>1, <1>3, <2>1 DEF Pass, AtBarrier
<1>4. CASE UNCHANGED barrierVars
  BY <1>1, <1>4 DEF AtBarrier, barrierVars
<1> QED
  BY <1>2, <1>3, <1>4 DEF BarrierNext, BarrierManager, BarrierThread, BarrierWorker, BarrierSignal,
                          BarrierJoin, BarrierDone, allVars

(* Every run of the enhanced utility keeps the pool's invariant, and at    *)
(* the barrier (103-106) stand only workers that have left their loop.     *)
THEOREM BarrierInvariance == BarrierSpec => []BarrierInv
<1>1. BarrierInit => BarrierInv
  BY PoolInit DEF BarrierInit, BarrierInv, AtBarrier
<1>2. BarrierInv /\ [BarrierNext]_allVars => BarrierInv'
  BY PoolStep, StepsOfThePool, ArrivalStep DEF BarrierInv, PoolInv, IInv
<1> QED
  BY <1>1, <1>2, PTL DEF BarrierSpec

(* Once any worker is past the barrier nothing is queued, nobody copies,   *)
(* and every file the manager ever queued is copied and closed.            *)
THEOREM NobodyPassesEarly == BarrierSpec => []PassedMeansCopied
<1>1. BarrierInv => PassedMeansCopied
  <2> SUFFICES ASSUME BarrierInv, passed # {} PROVE PassedMeansCopied
    BY DEF PassedMeansCopied
  <2>1. TypeOK /\ WalkInv /\ ExitedMeansDrained /\ PlaceInv /\ FdsInv /\ CountInv
    BY DEF BarrierInv, PoolInv, IInv
  <2>2. \A w \in Workers : wpc[w] = "exit"
    BY DEF BarrierInv, AtBarrier
  <2>3. count = 0 /\ (done \/ stop)
    BY <2>1, <2>2, WorkersAssumption DEF ExitedMeansDrained
  <2>4. \A w \in Workers : held[w] = NoFile
    BY <2>1, <2>2 DEF PlaceInv, HeldOK
  <2>5. stats["regular"] = files_copied
    <3>1. Taken = {}
      BY <2>2 DEF Taken
    <3> QED
      BY <2>1, <2>3, <3>1, FS_EmptySet DEF CountInv, TypeOK
  <2>6. QueuedFiles = {}
    <3>1. Live = {}
      BY <2>3 DEF Live
    <3> QED
      BY <3>1 DEF QueuedFiles
  <2>7. ASSUME NEW f \in Regulars, Src(f) \in fds \/ Dst(f) \in fds
        PROVE  f = cur /\ mpc \in {"opendst", "put"} /\ stop
    <3>1. HasSrc(f) \/ HasDst(f)
      BY <2>1, <2>7 DEF FdsInv, SrcFds, DstFds
    <3>2. f = cur /\ mpc \in {"opendst", "put"}
      BY <2>2, <2>6, <3>1 DEF HasSrc, HasDst
    <3> QED
      BY <2>1, <2>3, <3>2 DEF WalkInv
  <2> QED
    BY <2>2, <2>3, <2>4, <2>5, <2>7 DEF PassedMeansCopied
<1> QED
  BY BarrierInvariance, <1>1, PTL

(* Step by step the enhanced utility is the plain one, so whatever the     *)
(* plain pool never does (losing a wakeup, a descriptor or a file) it does *)
(* not do either.                                                          *)
THEOREM BarrierIsThePool == BarrierSpec => Init /\ [][Next]_vars /\ []PoolInv
<1>1. BarrierInit => Init
  BY DEF BarrierInit
<1>2. BarrierInv => PoolInv
  BY DEF BarrierInv
<1> QED
  BY <1>1, <1>2, StepsOfThePool, BarrierInvariance, PTL DEF BarrierSpec
=============================================================================
