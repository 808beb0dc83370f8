---------------------------- MODULE Kernel_proofs ----------------------------
(***************************************************************************)
(* Theorems about the two parts of the kernel (os01) that are modelled.    *)
(* They share no state, so each part's theorems are about its own          *)
(* specification.                                                          *)
(*                                                                         *)
(* The process table, of any length and for any pids: no pid is given      *)
(* twice, who waits waits for a process of the table and the processor is  *)
(* never left with a task that cannot run.                                 *)
(*                                                                         *)
(* The heap, for every size, header size and sequence of requests: the     *)
(* same facts about a chunk map h are kept by splitting a chunk and by     *)
(* absorbing a chunk in its predecessor, and free is at most two           *)
(* absorptions.                                                            *)
(***************************************************************************)
EXTENDS TaskManager, MemoryManager, TLAPS

(* The process table.                                                      *)

Task == [pid : Nat, ppid : Nat \cup {-1}, state : States, waitPid : Nat \cup {-1}]

(* The pids of table t are distinct and were all given before pid p.       *)
FreshPids(t, p) ==
    /\ \A i, j \in DOMAIN t : t[i].pid = t[j].pid => i = j
    /\ \A i \in DOMAIN t : t[i].pid < p

(* Whoever waits in table t waits for the process of another entry.        *)
Awaited(t) ==
    \A i \in DOMAIN t : t[i].state = "WAITING" =>
        \E j \in DOMAIN t : j # i /\ t[j].pid = t[i].waitPid

TaskIInv == TaskTypeOK /\ FreshPids(tasks, processCounter) /\ Awaited(tasks) /\ WorkConserving

(* A pid that getTaskIndex finds is the pid of some entry.                 *)
LEMMA FoundIsThere ==
    ASSUME NEW t, NEW pid, TaskIndex(t, pid) # -1
    PROVE  \E j \in DOMAIN t : t[j].pid = pid
  BY DEF TaskIndex

(* Schedule leaves the table as it was but for one waiter that it releases,*)
(* and gives the processor to a READY task if any can run.                 *)
LEMMA ScheduleKeeps ==
    ASSUME NEW n \in Nat \ {0}, NEW t \in [0..(n - 1) -> Task], NEW p,
           FreshPids(t, p), Awaited(t), currentTask \in -1..(n - 1), Schedule(t, n)
    PROVE  /\ tasks' \in [0..(n - 1) -> Task] /\ currentTask' \in -1..(n - 1)
           /\ FreshPids(tasks', p) /\ Awaited(tasks')
           /\ WorkConserving'
<1>1. CASE Candidates(t) = {}
  <2>1. tasks' = t /\ currentTask' = currentTask
    BY <1>1 DEF Schedule
  <2>2. \A i \in DOMAIN tasks' : ~Runnable(tasks', i)
    BY <1>1, <2>1 DEF Candidates
  <2> QED
    BY <2>1, <2>2 DEF WorkConserving
<1>2. CASE Candidates(t) # {}
  <2>1. PICK i \in Candidates(t) :
           /\ currentTask' = i
           /\ tasks' = IF t[i].state = "READY" THEN t
                       ELSE [t EXCEPT ![i].state = "READY", ![i].waitPid = 0]
    BY <1>2 DEF Schedule
  <2>2. i \in 0..(n - 1)
    BY DEF Candidates
  <2>3. tasks' \in [0..(n - 1) -> Task] /\ tasks'[i].state = "READY"
    BY <2>1, <2>2 DEF Task, States
  <2>4. \A j \in 0..(n - 1) :
           /\ tasks'[j].pid = t[j].pid
           /\ tasks'[j].state = "WAITING" =>
                 t[j].state = "WAITING" /\ tasks'[j].waitPid = t[j].waitPid
    BY <2>1, <2>2 DEF Task
  <2>5. FreshPids(tasks', p) /\ Awaited(tasks')
    BY <2>3, <2>4 DEF FreshPids, Awaited
  <2>6. WorkConserving'
    BY <2>1, <2>3 DEF WorkConserving
  <2> QED
    BY <2>1, <2>2, <2>3, <2>5, <2>6
<1> QED
  BY <1>1, <1>2

(* The table as it is, and what the conjuncts of TaskIInv say of it.       *)
LEMMA TableIsSound ==
    ASSUME TaskIInv
    PROVE  /\ numTasks \in Nat \ {0} /\ numTasks <= MaxTasks /\ MaxTasks \in Nat
           /\ tasks \in [0..(numTasks - 1) -> Task]
           /\ currentTask \in -1..(numTasks - 1)
           /\ processCounter \in Nat
           /\ FreshPids(tasks, processCounter) /\ Awaited(tasks)
  BY TableAssumption DEF TaskIInv, TaskTypeOK, Task

(* The table begins in the invariant: task 0 alone.                        *)
LEMMA TaskInitInv == TaskInit => TaskIInv
<1> SUFFICES ASSUME TaskInit PROVE TaskIInv
  OBVIOUS
<1>1. TaskTypeOK
  BY TableAssumption DEF TaskInit, TaskTypeOK, States, Minus1, NoResult
<1>2. FreshPids(tasks, processCounter) /\ Awaited(tasks) /\ WorkConserving
  BY DEF TaskInit, FreshPids, Awaited, WorkConserving, Running
<1> QED
  BY <1>1, <1>2 DEF TaskIInv

(* The tick, and the end of a task: exit turns the running task's state    *)
(* to FINISHED, so nobody begins to wait.                                  *)
LEMMA TickAndExitInv == TaskIInv /\ (TimerTick \/ SysExit) => TaskIInv'
<1> SUFFICES ASSUME TaskIInv, TimerTick \/ SysExit PROVE TaskIInv'
  OBVIOUS
<1> DEFINE t == [tasks EXCEPT ![currentTask].state = "FINISHED"]
<1>1. CASE TimerTick
  BY <1>1, TableIsSound, ScheduleKeeps DEF TimerTick, TaskIInv, TaskTypeOK, Task
<1>2. CASE SysExit
  <2>1. currentTask \in 0..(numTasks - 1)
    BY <1>2, TableIsSound DEF SysExit, Running
  <2>2. t \in [0..(numTasks - 1) -> Task]
    BY <2>1, TableIsSound DEF Task, States
  <2>3. \A j \in 0..(numTasks - 1) :
           /\ t[j].pid = tasks[j].pid /\ t[j].waitPid = tasks[j].waitPid
           /\ t[j].state = "WAITING" => tasks[j].state = "WAITING"
    BY <2>1, TableIsSound DEF Task
  <2>4. FreshPids(t, processCounter)
    BY <2>2, <2>3, TableIsSound DEF FreshPids
  <2>5. Awaited(t)
    BY <2>2, <2>3, TableIsSound DEF Awaited
  <2> HIDE DEF t
  <2>6. Schedule(t, numTasks) /\ UNCHANGED <<numTasks, processCounter, ecx, gdt>>
    BY <1>2 DEF SysExit, t
  <2> QED
    BY <2>2, <2>4, <2>5, <2>6, TableIsSound, ScheduleKeeps DEF TaskIInv, TaskTypeOK, Task
<1> QED
  BY <1>1, <1>2

(* fork: the child's pid is the counter's old value, which no entry has.   *)
LEMMA ForkInv == TaskIInv /\ SysFork => TaskIInv'
<1> SUFFICES ASSUME TaskIInv, SysFork PROVE TaskIInv'
  OBVIOUS
<1> DEFINE n == numTasks
           t == [i \in 0..n |-> IF i = n THEN Child ELSE tasks[i]]
<1>1. currentTask \in 0..(n - 1) /\ gdt' = gdt /\ gdt \in BOOLEAN
      /\ ecx \in [0..(n - 1) -> Nat \cup {-1, NoResult}]
  BY TableIsSound DEF SysFork, Running, TaskIInv, TaskTypeOK
<1>2. CASE ForkFails
  <2>1. ecx' \in [0..(n - 1) -> Nat \cup {-1, NoResult}]
    BY <1>1, <1>2 DEF ForkFails
  <2>2. Schedule(tasks, n) /\ UNCHANGED <<numTasks, processCounter>>
    BY <1>2 DEF ForkFails
  <2> QED
    BY <1>1, <2>1, <2>2, TableIsSound, ScheduleKeeps DEF TaskIInv, TaskTypeOK, Task
<1>3. CASE ForkChild
  <2>1. n < MaxTasks /\ n' = n + 1 /\ processCounter' = processCounter + 1
        /\ Schedule(t, n + 1)
    BY <1>3, TableIsSound DEF ForkChild, TableFull
  <2>2. ecx' \in [0..n -> Nat \cup {-1, NoResult}]
    BY <1>1, <1>3, TableIsSound DEF ForkChild
  <2>3. Child \in Task /\ Child.pid = processCounter /\ Child.state = "READY"
    BY <1>1, TableIsSound DEF Child, Task, States, Minus1
  <2>4. /\ t \in [0..n -> Task] /\ t[n].pid = processCounter /\ t[n].state = "READY"
        /\ \A j \in 0..(n - 1) : t[j] = tasks[j]
    BY <2>3, TableIsSound
  <2>5. DOMAIN t = 0..n /\ DOMAIN tasks = 0..(n - 1) /\ 0..n = (0..(n - 1)) \cup {n}
        /\ \A j \in 0..(n - 1) : tasks[j].pid \in Nat
    BY <2>4, TableIsSound DEF Task
  <2> HIDE DEF t
  <2>6. FreshPids(t, processCounter + 1)
    <3>1. \A i \in 0..(n - 1) : t[i].pid < processCounter /\ t[i].pid \in Nat
      BY <2>4, <2>5, TableIsSound DEF FreshPids
    <3>2. \A i, j \in 0..(n - 1) : t[i].pid = t[j].pid => i = j
      BY <2>4, <2>5, TableIsSound DEF FreshPids
    <3>3. processCounter \in Nat
      BY TableIsSound
    <3>4. \A i \in 0..n : t[i].pid < processCounter + 1
      BY <2>4, <2>5, <3>1, <3>3
    <3>5. \A i, j \in 0..n : t[i].pid = t[j].pid => i = j
      BY <2>4, <2>5, <3>1, <3>2, <3>3
    <3> QED
      BY <2>5, <3>4, <3>5 DEF FreshPids
  <2>7. Awaited(t)
    <3> SUFFICES ASSUME NEW i \in 0..n, t[i].state = "WAITING"
                 PROVE  \E j \in 0..n : j # i /\ t[j].pid = t[i].waitPid
      BY <2>5 DEF Awaited
    <3>1. i \in 0..(n - 1) /\ t[i] = tasks[i]
      BY <2>4, <2>5
    <3>2. PICK j \in 0..(n - 1) : j # i /\ tasks[j].pid = tasks[i].waitPid
      BY <2>5, <3>1, TableIsSound DEF Awaited
    <3> QED
      BY <2>4, <2>5, <3>1, <3>2
  <2>8. n + 1 \in Nat \ {0} /\ (n + 1) - 1 = n /\ currentTask \in -1..n
    BY <1>1, TableIsSound
  <2>9. /\ tasks' \in [0..n -> Task] /\ currentTask' \in -1..n
        /\ FreshPids(tasks', processCounter + 1) /\ Awaited(tasks')
        /\ WorkConserving'
    BY <2>1, <2>4, <2>6, <2>7, <2>8, ScheduleKeeps
  <2> QED
    BY <1>1, <2>1, <2>2, <2>8, <2>9, TableIsSound DEF TaskIInv, TaskTypeOK, Task
<1> QED
  BY <1>2, <1>3 DEF SysFork

(* waitpid: a task begins to wait only for a process getTaskIndex has      *)
(* found, and not for itself.                                              *)
LEMMA WaitInv == \A pid \in Pids : TaskIInv /\ SysWaitpid(pid) => TaskIInv'
<1> SUFFICES ASSUME NEW pid \in Pids, TaskIInv, SysWaitpid(pid) PROVE TaskIInv'
  OBVIOUS
<1> DEFINE t == [tasks EXCEPT ![currentTask].state = "WAITING", ![currentTask].waitPid = pid]
<1>1. currentTask \in 0..(numTasks - 1) /\ pid \in Nat
  BY TableIsSound, TableAssumption DEF SysWaitpid, Running
<1>2. CASE NothingToWaitFor(pid)
  <2>1. UNCHANGED taskVars
    BY <1>2 DEF SysWaitpid, taskVars
  <2> QED
    BY <2>1 DEF taskVars, TaskIInv, TaskTypeOK, WorkConserving, Running
<1>3. CASE ~NothingToWaitFor(pid)
  <2>1. PICK j \in DOMAIN tasks : tasks[j].pid = pid
    BY <1>3, FoundIsThere DEF NothingToWaitFor
  <2>2. j # currentTask
    BY <1>3, <2>1 DEF NothingToWaitFor
  <2>3. t \in [0..(numTasks - 1) -> Task]
    BY <1>1, TableIsSound DEF Task, States
  <2>4. /\ t[currentTask].waitPid = pid
        /\ \A i \in 0..(numTasks - 1) : t[i].pid = tasks[i].pid
        /\ \A i \in 0..(numTasks - 1) : i # currentTask => t[i] = tasks[i]
    BY <1>1, TableIsSound DEF Task
  <2>5. FreshPids(t, processCounter)
    BY <2>3, <2>4, TableIsSound DEF FreshPids
  <2>6. Awaited(t)
    BY <1>1, <2>1, <2>2, <2>3, <2>4, TableIsSound DEF Awaited
  <2> HIDE DEF t
  <2>7. Schedule(t, numTasks) /\ UNCHANGED <<numTasks, processCounter, ecx, gdt>>
    BY <1>3 DEF SysWaitpid, t
  <2> QED
    BY <2>3, <2>5, <2>6, <2>7, TableIsSound, ScheduleKeeps DEF TaskIInv, TaskTypeOK, Task
<1> QED
  BY <1>2, <1>3

(* execve makes its caller ready and changes no pid and no waiter.         *)
LEMMA ExecveInv == TaskIInv /\ SysExecve => TaskIInv'
<1> SUFFICES ASSUME TaskIInv, SysExecve PROVE TaskIInv'
  OBVIOUS
<1>1. currentTask \in 0..(numTasks - 1)
      /\ tasks' = [tasks EXCEPT ![currentTask].state = "READY"]
      /\ UNCHANGED <<numTasks, currentTask, processCounter, gdt>>
  BY TableIsSound DEF SysExecve, Running
<1>2. ecx' \in [0..(numTasks - 1) -> Nat \cup {-1, NoResult}]
  BY DEF SysExecve, TaskIInv, TaskTypeOK
<1>3. tasks' \in [0..(numTasks - 1) -> Task] /\ tasks'[currentTask].state = "READY"
  BY <1>1, TableIsSound DEF Task, States
<1>4. \A j \in 0..(numTasks - 1) :
         /\ tasks'[j].pid = tasks[j].pid /\ tasks'[j].waitPid = tasks[j].waitPid
         /\ tasks'[j].state = "WAITING" => tasks[j].state = "WAITING"
  BY <1>1, TableIsSound DEF Task
<1>5. FreshPids(tasks', processCounter)
  BY <1>3, <1>4, TableIsSound DEF FreshPids
<1>6. Awaited(tasks')
  BY <1>3, <1>4, TableIsSound DEF Awaited
<1> QED
  BY <1>1, <1>2, <1>3, <1>5, <1>6 DEF TaskIInv, TaskTypeOK, Task, WorkConserving

(* For any table size and any pids, the process table keeps its invariant  *)
(* whatever system calls the tasks make and whenever the timer ticks       *)
(* (multitasking.cpp 78-252).                                              *)
THEOREM TaskInvariance == TaskSpec => []TaskIInv
<1>1. TaskIInv /\ UNCHANGED taskVars => TaskIInv'
  BY DEF taskVars, TaskIInv, TaskTypeOK, WorkConserving, Running
<1>2. TaskIInv /\ [TaskNext]_taskVars => TaskIInv'
  BY <1>1, TickAndExitInv, ForkInv, WaitInv, ExecveInv DEF TaskNext
<1> QED
  BY TaskInitInv, <1>2, PTL DEF TaskSpec

(* Every variable keeps its type: above all, fork never writes past the    *)
(* last entry of the table (multitasking.cpp, fork).                       *)
THEOREM TaskTypeCorrect == TaskSpec => []TaskTypeOK
  BY TaskInvariance, PTL DEF TaskIInv

(* The fallback of Schedule, which lets a task go on that has exited or    *)
(* waits, is taken only while no task at all could run.                    *)
THEOREM ProcessorIsNotWasted == TaskSpec => []WorkConserving
  BY TaskInvariance, PTL DEF TaskIInv

(* No two entries have one pid, and a waiting task waits for the process   *)
(* of another entry.                                                       *)
THEOREM EveryWaiterHasATarget == TaskSpec => []WaitersHaveATarget
<1>1. TaskIInv => WaitersHaveATarget
  BY DEF TaskIInv, FreshPids, Awaited, WaitersHaveATarget
<1> QED
  BY TaskInvariance, <1>1, PTL

(* getTaskIndex stops at the first match; it is the only one, so what it   *)
(* finds for the pid of an entry is that entry.                            *)
THEOREM FirstMatchIsTheEntry ==
    TaskSpec => [](\A i \in DOMAIN tasks : TaskIndex(tasks, tasks[i].pid) = i)
<1>1. TaskIInv => \A i \in DOMAIN tasks : TaskIndex(tasks, tasks[i].pid) = i
  <2> SUFFICES ASSUME TaskIInv, NEW i \in DOMAIN tasks
               PROVE  TaskIndex(tasks, tasks[i].pid) = i
    OBVIOUS
  <2>1. {j \in DOMAIN tasks : tasks[j].pid = tasks[i].pid} = {i}
    BY DEF TaskIInv, FreshPids
  <2>2. i \in Int
    BY TableIsSound
  <2> QED
    BY <2>1, <2>2 DEF TaskIndex
<1> QED
  BY TaskInvariance, <1>1, PTL
-----------------------------------------------------------------------------
(* The heap.                                                               *)

(* What a chunk map must satisfy for its list to be the memory.            *)
WellFormed(h) == Typed(h) /\ LinksMeet(h) /\ InOrder(h)

IInv == TypeOK /\ ListTilesHeap /\ ListInOrder

(* A successor is another chunk, at a higher address.                      *)
LEMMA NextIsHigher ==
    ASSUME NEW h, WellFormed(h), NEW a \in DOMAIN h, h[a].next # Null
    PROVE  h[a].next \in DOMAIN h /\ h[a].next > a /\ a \in Nat /\ h[a].size \in Nat
  BY HeapAssumption DEF WellFormed, Typed, LinksMeet, Limit, End, Null

(* Absorbing the successor b of chunk a keeps the list well formed, keeps  *)
(* the first chunk and takes exactly b's header out.                       *)
LEMMA AbsorbKeeps ==
    ASSUME NEW h, WellFormed(h), NEW a \in DOMAIN h, h[a].next # Null
    PROVE  LET b == h[a].next
               g == Absorb(h, a, b)
           IN  WellFormed(g) /\ DOMAIN g = DOMAIN h \ {b}
<1> DEFINE b == h[a].next
           g == Absorb(h, a, b)
<1> USE HeapAssumption
<1>1. b \in DOMAIN h /\ b > a /\ b # a /\ a \in Nat /\ b \in Nat /\ Null \notin DOMAIN h
  BY NextIsHigher DEF WellFormed, Typed, Null, End
<1>2. DOMAIN g = DOMAIN h \ {b}
  BY DEF Absorb
<1>3. /\ h[b].prev = a
      /\ Limit(h, a) = b
      /\ h[b].next = Null => Limit(h, b) = End
      /\ h[b].next # Null => h[b].next = Limit(h, b) /\ h[h[b].next].prev = b
      /\ h[b].next # b /\ h[b].next # a
      /\ h[b].next \in DOMAIN h \cup {Null}
      /\ h[a].size \in Nat /\ h[b].size \in Nat
  BY <1>1 DEF WellFormed, Typed, LinksMeet, Limit, Null, End
<1>4. /\ g[a].next = h[b].next /\ g[a].prev = h[a].prev
      /\ g[a].allocated = h[a].allocated /\ g[a].size = h[a].size + h[b].size + Header
      /\ g[a] = [next |-> h[b].next, prev |-> h[a].prev,
                 allocated |-> h[a].allocated, size |-> h[a].size + h[b].size + Header]
      /\ \A c \in DOMAIN g : c # a /\ c = h[b].next =>
            /\ g[c] = WithPrev(h[c], a)
            /\ g[c].next = h[c].next /\ g[c].prev = a /\ g[c].size = h[c].size
      /\ \A c \in DOMAIN g : c # a /\ c # h[b].next => g[c] = h[c]
  BY <1>1, <1>2 DEF Absorb, WithPrev, MergedSize
<1>5. \A c \in DOMAIN h : /\ h[c].next = b => c = a
                          /\ h[c].prev = b => c = h[b].next
  BY <1>1, <1>3 DEF WellFormed, Typed, LinksMeet, Null, End
<1>6. Typed(g)
  <2>1. \A c \in DOMAIN g : g[c] \in [next : DOMAIN g \cup {Null}, prev : DOMAIN g \cup {Null},
                                       allocated : BOOLEAN, size : Nat]
    <3> SUFFICES ASSUME NEW c \in DOMAIN g
                 PROVE  g[c] \in [next : DOMAIN g \cup {Null}, prev : DOMAIN g \cup {Null},
                                  allocated : BOOLEAN, size : Nat]
      OBVIOUS
    <3>1. /\ h[c] = [next |-> h[c].next, prev |-> h[c].prev,
                     allocated |-> h[c].allocated, size |-> h[c].size]
          /\ h[c].next \in DOMAIN h \cup {Null} /\ h[c].prev \in DOMAIN h \cup {Null}
          /\ h[c].allocated \in BOOLEAN /\ h[c].size \in Nat
      BY <1>2 DEF WellFormed, Typed
    <3>2. c \in DOMAIN h /\ c # b /\ b # Null
      BY <1>1, <1>2
    <3>3. CASE c = a
      <4>1. h[b].next \in DOMAIN g \cup {Null} /\ h[a].prev \in DOMAIN g \cup {Null}
        BY <1>1, <1>2, <1>3, <1>5, <3>1, <3>3
      <4> QED
        BY <1>3, <1>4, <3>1, <3>3, <4>1
    <3>4. CASE c # a /\ c = h[b].next
      <4>1. h[c].next \in DOMAIN g \cup {Null} /\ a \in DOMAIN g
        BY <1>1, <1>2, <1>5, <3>1, <3>2, <3>4
      <4>2. g[c] = [next |-> h[c].next, prev |-> a,
                    allocated |-> h[c].allocated, size |-> h[c].size]
        BY <1>4, <3>4 DEF WithPrev
      <4> HIDE DEF g
      <4> QED
        BY <3>1, <4>1, <4>2
    <3>5. CASE c # a /\ c # h[b].next
      <4>1. h[c].next \in DOMAIN g \cup {Null} /\ h[c].prev \in DOMAIN g \cup {Null}
        BY <1>1, <1>2, <1>5, <3>1, <3>2, <3>5
      <4> QED
        BY <1>4, <3>1, <3>5, <4>1
    <3> QED
      BY <3>3, <3>4, <3>5
  <2>2. g \in [DOMAIN g -> [next : DOMAIN g \cup {Null}, prev : DOMAIN g \cup {Null},
                           allocated : BOOLEAN, size : Nat]]
    BY <2>1, <1>2 DEF Absorb
  <2> HIDE DEF g
  <2> QED
    BY <1>1, <1>2, <2>2 DEF WellFormed, Typed
<1>7. \A c \in DOMAIN g : Limit(g, c) = IF c = a THEN Limit(h, b) ELSE Limit(h, c)
  BY <1>1, <1>2, <1>3, <1>4 DEF Limit, WellFormed, Typed
<1>8. LinksMeet(g)
  BY <1>1, <1>2, <1>3, <1>4, <1>5, <1>7 DEF WellFormed, Typed, LinksMeet
<1>9. InOrder(g)
  BY <1>1, <1>2, <1>3, <1>7 DEF WellFormed, Typed, InOrder, Limit, End
<1> QED
  BY <1>2, <1>6, <1>8, <1>9 DEF WellFormed

(* Marking a chunk free or taken changes no link.                          *)
LEMMA MarkKeeps ==
    ASSUME NEW h, WellFormed(h), NEW a \in DOMAIN h, NEW t \in BOOLEAN
    PROVE  LET g == Marked(h, a, t) IN WellFormed(g) /\ DOMAIN g = DOMAIN h
<1> DEFINE g == Marked(h, a, t)
<1> USE HeapAssumption
<1>1. DOMAIN g = DOMAIN h
  BY DEF Marked
<1>2. /\ g[a] = [next |-> h[a].next, prev |-> h[a].prev, allocated |-> t, size |-> h[a].size]
      /\ \A c \in DOMAIN h : c # a => g[c] = h[c]
  BY DEF Marked
<1>3. \A c \in DOMAIN h : g[c].next = h[c].next /\ g[c].prev = h[c].prev /\ g[c].size = h[c].size
  BY <1>2
<1>4. \A c \in DOMAIN h : g[c] \in [next : DOMAIN h \cup {Null}, prev : DOMAIN h \cup {Null},
                                    allocated : BOOLEAN, size : Nat]
  BY <1>2 DEF WellFormed, Typed
<1>5. g = [c \in DOMAIN h |-> g[c]]
  BY DEF Marked
<1> HIDE DEF g
<1>6. Typed(g)
  BY <1>1, <1>4, <1>5 DEF WellFormed, Typed
<1>7. \A c \in DOMAIN h : Limit(g, c) = Limit(h, c) /\ h[c].next \in DOMAIN h \cup {Null}
                          /\ h[c].prev \in DOMAIN h \cup {Null}
  BY <1>3 DEF Limit, WellFormed, Typed
<1>8. LinksMeet(g) /\ InOrder(g)
  BY <1>1, <1>3, <1>7 DEF WellFormed, LinksMeet, InOrder
<1> QED
  BY <1>1, <1>6, <1>8 DEF WellFormed, g

(* Splitting a chunk that has room for the request, a header and a byte    *)
(* keeps the list well formed, and adds one header.                        *)
LEMMA SplitKeeps ==
    ASSUME NEW h, WellFormed(h), NEW a \in DOMAIN h, NEW n \in Nat,
           h[a].size >= n + Header + 1
    PROVE  LET g == SplitAt(h, a, n)
           IN  WellFormed(g) /\ DOMAIN g = DOMAIN h \cup {a + Header + n}
<1> DEFINE temp == a + Header + n
           g == SplitAt(h, a, n)
           nx == h[a].next
           rest == h[a].size - n - Header
<1> USE HeapAssumption
<1>1. DOMAIN g = DOMAIN h \cup {temp}
  BY DEF SplitAt
<1>2. /\ a \in Nat /\ temp \in Nat /\ a < temp /\ temp # Null /\ a # Null
      /\ h[a].size \in Nat /\ temp < Limit(h, a) /\ rest \in Nat
      /\ nx \in DOMAIN h \cup {Null} /\ nx # a
      /\ h[a].prev \in DOMAIN h \cup {Null} /\ h[a].prev # a
      /\ temp \in Start..End
      /\ Limit(h, a) \in Nat
  <2>1. /\ a \in Start..End /\ h[a].size \in Nat
        /\ nx \in DOMAIN h \cup {Null} /\ h[a].prev \in DOMAIN h \cup {Null}
    BY DEF WellFormed, Typed
  <2>2. a \in Nat /\ a # Null /\ Start \in Nat /\ End \in Nat
    BY <2>1 DEF End, Null
  <2>3. nx # a /\ h[a].prev # a
    BY <2>1, <2>2 DEF WellFormed, Typed, LinksMeet, Limit, Null, End
  <2>4. a + Header + h[a].size <= End
    <3>1. CASE nx = Null
      BY <2>1, <2>2, <3>1 DEF WellFormed, LinksMeet, Limit
    <3>2. CASE nx # Null
      <4>1. Limit(h, a) = nx /\ nx \in Start..End
        BY <2>1, <3>2 DEF WellFormed, Typed, LinksMeet
      <4> QED
        BY <2>1, <2>2, <4>1 DEF Limit
    <3> QED
      BY <3>1, <3>2
  <2>5. /\ temp \in Nat /\ a < temp /\ temp # Null /\ rest \in Nat
        /\ temp < a + Header + h[a].size /\ temp \in Start..End
    BY <2>1, <2>2, <2>4 DEF Null
  <2>6. Limit(h, a) = a + Header + h[a].size /\ Limit(h, a) \in Nat
    BY <2>1, <2>2 DEF Limit
  <2> QED
    BY <2>1, <2>2, <2>3, <2>5, <2>6
<1>3. \A c \in DOMAIN h :
         /\ c \in Nat /\ c # Null /\ h[c].size \in Nat /\ Limit(h, c) \in Nat
         /\ c < Limit(h, c)
         /\ h[c].next \in DOMAIN h \cup {Null} /\ h[c].prev \in DOMAIN h \cup {Null}
         /\ h[c].allocated \in BOOLEAN
         /\ h[c] = [next |-> h[c].next, prev |-> h[c].prev,
                    allocated |-> h[c].allocated, size |-> h[c].size]
  BY DEF WellFormed, Typed, Limit, Null, End
<1>4. \A c, d \in DOMAIN h : c < d => Limit(h, c) <= d
  BY DEF WellFormed, InOrder
<1>5. temp \notin DOMAIN h
  BY <1>2, <1>4
<1>6. /\ g[temp] = [next |-> nx, prev |-> a, allocated |-> FALSE, size |-> rest]
      /\ g[a] = [next |-> temp, prev |-> h[a].prev, allocated |-> TRUE, size |-> n]
      /\ \A c \in DOMAIN h : c # a /\ c = nx =>
            g[c] = [next |-> h[c].next, prev |-> temp,
                    allocated |-> h[c].allocated, size |-> h[c].size]
      /\ \A c \in DOMAIN h : c # a /\ c # nx => g[c] = h[c]
  BY <1>1, <1>2, <1>5 DEF SplitAt, WithPrev, Rest
<1>7. g = [c \in DOMAIN g |-> g[c]]
  BY DEF SplitAt
<1> HIDE DEF g, temp, rest, nx
<1>8. /\ g[temp].next = nx /\ g[temp].prev = a /\ g[temp].size = rest
      /\ g[a].next = temp /\ g[a].prev = h[a].prev /\ g[a].size = n
      /\ \A c \in DOMAIN h : c # a =>
            /\ g[c].next = h[c].next /\ g[c].size = h[c].size
            /\ c = nx => g[c].prev = temp
            /\ c # nx => g[c].prev = h[c].prev
  <2>1. ASSUME NEW c \in DOMAIN h, c # a, c = nx
        PROVE  g[c].next = h[c].next /\ g[c].size = h[c].size /\ g[c].prev = temp
    <3>1. g[c] = [next |-> h[c].next, prev |-> temp,
                  allocated |-> h[c].allocated, size |-> h[c].size]
      BY <1>6, <2>1
    <3> QED
      BY <3>1
  <2>2. ASSUME NEW c \in DOMAIN h, c # a, c # nx
        PROVE  g[c] = h[c]
    BY <1>6, <2>2
  <2> QED
    BY <1>6, <2>1, <2>2
<1>9. Typed(g)
  <2> DEFINE R == [next : DOMAIN g \cup {Null}, prev : DOMAIN g \cup {Null},
                   allocated : BOOLEAN, size : Nat]
  <2>1. g[temp] \in R
    BY <1>1, <1>2, <1>6
  <2>2. g[a] \in R
    BY <1>1, <1>2, <1>6
  <2>3. ASSUME NEW c \in DOMAIN h, c # a, c = nx PROVE g[c] \in R
    BY <1>1, <1>3, <1>6, <2>3
  <2>4. ASSUME NEW c \in DOMAIN h, c # a, c # nx PROVE g[c] \in R
    <3>1. g[c] = h[c]
      BY <1>6, <2>4
    <3>2. h[c] \in R
      BY <1>1, <1>3
    <3> QED
      BY <3>1, <3>2
  <2>5. \A c \in DOMAIN g : g[c] \in R
    <3> HIDE DEF R
    <3> QED
      BY <1>1, <2>1, <2>2, <2>3, <2>4
  <2>6. g \in [DOMAIN g -> R]
    <3> HIDE DEF R
    <3> QED
      BY <1>7, <2>5
  <2>7. DOMAIN g \subseteq Start..End
    BY <1>1, <1>2 DEF WellFormed, Typed
  <2> QED
    BY <2>6, <2>7 DEF Typed
<1>10. /\ Limit(g, temp) = Limit(h, a) /\ Limit(g, a) = temp
       /\ \A c \in DOMAIN h : c # a => Limit(g, c) = Limit(h, c)
  <2>1. Limit(g, a) = temp
    BY <1>8 DEF Limit, temp
  <2>2. \A c \in DOMAIN h : c # a => Limit(g, c) = Limit(h, c)
    BY <1>8 DEF Limit
  <2>3. temp + Header + rest = a + Header + h[a].size
    BY <1>2 DEF temp, rest
  <2> QED
    BY <1>8, <2>1, <2>2, <2>3 DEF Limit
<1>11. LinksMeet(g)
  <2>1. \A c \in DOMAIN h : /\ h[c].next = Null => Limit(h, c) = End
                            /\ h[c].next # Null => Limit(h, c) = h[c].next
                                                   /\ h[h[c].next].prev = c
                            /\ h[c].prev = Null => c = Start
                            /\ h[c].prev # Null => h[h[c].prev].next = c
    BY DEF WellFormed, LinksMeet
  <2>2. \A c \in DOMAIN h : /\ h[c].next = nx /\ nx # Null => c = a
                            /\ h[c].prev = a => c = nx
                            /\ h[c].next # c /\ h[c].prev # c
    BY <1>2, <1>3, <2>1 DEF nx
  <2>3. nx # Null => nx \in DOMAIN h /\ h[nx].prev = a
    BY <1>2, <2>1 DEF nx
  <2> SUFFICES ASSUME NEW c \in DOMAIN g
               PROVE  /\ g[c].next = Null => Limit(g, c) = End
                      /\ g[c].next # Null => Limit(g, c) = g[c].next /\ g[g[c].next].prev = c
                      /\ g[c].prev = Null => c = Start
                      /\ g[c].prev # Null => g[g[c].prev].next = c
    BY DEF LinksMeet
  <2>4. CASE c = temp
    BY <1>2, <1>8, <1>10, <2>1, <2>3, <2>4 DEF nx
  <2>5. CASE c = a
    <3>1. h[a].prev # Null => h[a].prev # a /\ h[h[a].prev].next = a
      BY <1>2, <2>1
    <3> QED
      BY <1>2, <1>3, <1>8, <1>10, <2>1, <2>5, <3>1
  <2>6. CASE c \in DOMAIN h /\ c # a
    <3>1. h[c].next # Null => h[c].next \in DOMAIN h /\ h[c].next # nx
      BY <1>3, <2>2, <2>6
    <3>2. h[c].next # Null => g[h[c].next].prev = c
      BY <1>8, <2>1, <2>6, <3>1
    <3>3. c # nx /\ h[c].prev # Null => h[c].prev \in DOMAIN h /\ h[c].prev # a
      BY <1>3, <2>2, <2>6
    <3>4. g[c].prev # Null => g[g[c].prev].next = c
      BY <1>2, <1>8, <2>1, <2>6, <3>3
    <3>5. g[c].prev = Null => c = Start
      BY <1>2, <1>8, <2>1, <2>6
    <3> QED
      BY <1>8, <1>10, <2>1, <2>6, <3>2, <3>4, <3>5
  <2> QED
    BY <1>1, <2>4, <2>5, <2>6
<1>12. InOrder(g)
  <2> SUFFICES ASSUME NEW c \in DOMAIN g, NEW d \in DOMAIN g, c < d PROVE Limit(g, c) <= d
    BY DEF InOrder
  <2>1. ASSUME NEW e \in DOMAIN h PROVE /\ e < temp => e <= a
                                        /\ temp < e => Limit(h, a) <= e
    BY <1>2, <1>3, <1>4
  <2>2. CASE c = temp
    <3>1. d \in DOMAIN h /\ temp < d
      BY <1>1, <1>2, <1>3, <2>2
    <3> QED
      BY <1>10, <2>1, <2>2, <3>1
  <2>3. CASE c = a
    <3>1. CASE d = temp
      BY <1>2, <1>10, <2>3, <3>1
    <3>2. CASE d \in DOMAIN h
      <4>1. Limit(h, a) <= d /\ d \in Nat
        BY <1>3, <1>4, <2>3, <3>2
      <4>2. Limit(g, c) = temp
        BY <1>10, <2>3
      <4>3. temp <= d
        BY <1>2, <4>1
      <4> QED
        BY <4>2, <4>3
    <3> QED
      BY <1>1, <3>1, <3>2
  <2>4. CASE c \in DOMAIN h /\ c # a /\ d = temp
    <3>1. c < a
      BY <1>2, <1>3, <2>1, <2>4
    <3>2. Limit(h, c) <= a
      BY <1>4, <2>4, <3>1
    <3> QED
      BY <1>2, <1>3, <1>10, <2>4, <3>2
  <2>5. CASE c \in DOMAIN h /\ c # a /\ d \in DOMAIN h
    BY <1>4, <1>10, <2>5
  <2> QED
    BY <1>1, <2>2, <2>3, <2>4, <2>5
<1> QED
  BY <1>1, <1>9, <1>11, <1>12 DEF WellFormed, g, temp

(* The constructor's list.                                                 *)
LEMMA InitInv == Init => IInv
<1> SUFFICES ASSUME Init PROVE IInv
  OBVIOUS
<1> USE HeapAssumption DEF Init, Null, End
<1>1. CASE Size < Header
  BY <1>1 DEF IInv, TypeOK, Typed, ListTilesHeap, ListInOrder, LinksMeet, InOrder, Headers
<1>2. CASE ~(Size < Header)
  <2>1. /\ first = Start /\ DOMAIN chunk = {Start} /\ Size - Header \in Nat
        /\ chunk = [a \in {Start} |-> [next |-> 0, prev |-> 0,
                                       allocated |-> FALSE, size |-> Size - Header]]
        /\ chunk[Start] = [next |-> 0, prev |-> 0, allocated |-> FALSE, size |-> Size - Header]
    BY <1>2
  <2>2. Limit(chunk, Start) = Start + Size
    BY <2>1 DEF Limit
  <2> QED
    BY <2>1, <2>2 DEF IInv, TypeOK, Typed, ListTilesHeap, ListInOrder, LinksMeet, InOrder, Headers
<1> QED
  BY <1>1, <1>2

(* malloc keeps the list well formed, whether it splits a chunk or not.    *)
LEMMA MallocInv ==
    ASSUME IInv, NEW n \in Requests, Malloc(n)
    PROVE  IInv'
<1> USE HeapAssumption
<1>1. WellFormed(chunk) /\ n \in Nat /\ first' = first
  BY DEF IInv, TypeOK, ListTilesHeap, ListInOrder, WellFormed, Malloc
<1>2. PICK a \in Headers : IF Splits(a, n) THEN Split(a, n) ELSE Take(a)
  BY DEF Malloc
<1>3. WellFormed(chunk') /\ Headers \subseteq DOMAIN chunk' /\ Headers # {}
  <2>1. CASE Splits(a, n)
    <3>1. chunk' = SplitAt(chunk, a, n)
      BY <1>2, <2>1 DEF Split
    <3>2. WellFormed(chunk') /\ DOMAIN chunk' = DOMAIN chunk \cup {a + Header + n}
      BY <1>1, <2>1, <3>1, SplitKeeps DEF Splits, Headers
    <3> QED
      BY <3>2 DEF Headers
  <2>2. CASE ~Splits(a, n)
    BY <1>1, <1>2, <2>2, MarkKeeps DEF Take, Headers
  <2> QED
    BY <2>1, <2>2
<1> QED
  BY <1>1, <1>3 DEF IInv, TypeOK, ListTilesHeap, ListInOrder, WellFormed, Headers

(* The chunk at Start is nobody's successor, so free never takes it away.  *)
LEMMA FreeInv ==
    ASSUME IInv, NEW a \in Headers, Free(a)
    PROVE  IInv'
<1> DEFINE h == Freed(a)
           k == MergePrev(a)
           b == AtHand(a)
<1> USE HeapAssumption
<1>1. WellFormed(chunk) /\ first' = first /\ a \in DOMAIN chunk
      /\ (first # Null => Start \in DOMAIN chunk) /\ (first = Null => Headers = {})
  BY DEF IInv, TypeOK, ListTilesHeap, ListInOrder, WellFormed, Free, Headers
<1>2. WellFormed(h) /\ DOMAIN h = DOMAIN chunk /\ h[a].prev = chunk[a].prev
  <2>1. WellFormed(h) /\ DOMAIN h = DOMAIN chunk
    BY <1>1, MarkKeeps DEF Freed
  <2>2. h[a].prev = chunk[a].prev
    BY <1>1 DEF Freed, Marked
  <2> QED
    BY <2>1, <2>2
<1> HIDE DEF h
<1>3. WellFormed(k) /\ b \in DOMAIN k /\ (Start \in DOMAIN chunk => Start \in DOMAIN k)
  <2> DEFINE p == chunk[a].prev
  <2>1. CASE FreeAt(h, p)
    <3>1. p # Null /\ p \in DOMAIN h /\ h[p].next = a /\ a # Null
      BY <1>1, <1>2, <2>1 DEF FreeAt, WellFormed, Typed, LinksMeet, Null, End
    <3>2. k = Absorb(h, p, a) /\ b = p
      BY <2>1 DEF MergePrev, AtHand, h
    <3> HIDE DEF p
    <3>3. /\ WellFormed(Absorb(h, p, h[p].next))
          /\ DOMAIN Absorb(h, p, h[p].next) = DOMAIN h \ {h[p].next}
      BY <1>2, <3>1, AbsorbKeeps
    <3>4. h[p].next > p
      BY <1>2, <3>1, NextIsHigher
    <3>5. p \in Start..End /\ a \in Start..End
      BY <1>1, <1>2, <3>1 DEF WellFormed, Typed
    <3>6. a # Start /\ a # p
      BY <3>1, <3>4, <3>5 DEF End
    <3> QED
      BY <1>1, <1>2, <3>1, <3>2, <3>3, <3>6
  <2>2. CASE ~FreeAt(h, p)
    BY <1>1, <1>2, <2>2 DEF MergePrev, AtHand, h
  <2> QED
    BY <2>1, <2>2
<1> HIDE DEF k, b
<1>4. chunk' = MergeNext(k, b)
  BY DEF Free, k, b
<1>5. WellFormed(chunk') /\ (Start \in DOMAIN chunk => Start \in DOMAIN chunk')
  <2>1. CASE FreeAt(k, k[b].next)
    <3>1. k[b].next # Null /\ chunk' = Absorb(k, b, k[b].next)
      BY <1>4, <2>1 DEF FreeAt, MergeNext
    <3>2. k[b].next > b /\ b \in Start..End /\ k[b].next \in Start..End
      BY <1>3, <3>1, NextIsHigher DEF WellFormed, Typed
    <3>3. WellFormed(chunk') /\ DOMAIN chunk' = DOMAIN k \ {k[b].next}
      BY <1>3, <3>1, AbsorbKeeps
    <3> QED
      BY <1>3, <3>2, <3>3 DEF End
  <2>2. CASE ~FreeAt(k, k[b].next)
    BY <1>3, <1>4, <2>2 DEF MergeNext
  <2> QED
    BY <2>1, <2>2
<1> QED
  BY <1>1, <1>5 DEF IInv, TypeOK, ListTilesHeap, ListInOrder, WellFormed, Headers

(* The chunks always tile the heap, in the order of the list, whatever is  *)
(* allocated and freed: the constructor, malloc and free all keep it.      *)
THEOREM HeapWellFormed == Spec => []IInv
<1>1. IInv /\ [Next]_vars => IInv'
  <2> SUFFICES ASSUME IInv, [Next]_vars PROVE IInv'
    OBVIOUS
  <2>1. ASSUME NEW n \in Requests, Malloc(n) PROVE IInv'
    BY <2>1, MallocInv
  <2>2. ASSUME NEW n \in Requests, MallocFails(n) PROVE IInv'
    BY <2>2 DEF MallocFails, vars, IInv, TypeOK, ListTilesHeap, ListInOrder, Headers
  <2>3. ASSUME NEW a \in Headers, Free(a) PROVE IInv'
    BY <2>3, FreeInv
  <2>4. CASE UNCHANGED vars
    BY <2>4 DEF vars, IInv, TypeOK, ListTilesHeap, ListInOrder, Headers
  <2> QED
    BY <2>1, <2>2, <2>3, <2>4 DEF Next
<1> QED
  BY InitInv, <1>1, PTL DEF Spec

(* Every chunk ends where the next begins, or where the heap does, and the *)
(* links are inverse (malloc 46-58, free 71-87).                           *)
THEOREM Tiled == Spec => []ListTilesHeap
<1>1. IInv => ListTilesHeap
  BY DEF IInv
<1> QED
  BY HeapWellFormed, <1>1, PTL

(* No two blocks overlap, and the list is in the order of the addresses.   *)
THEOREM Ordered == Spec => []ListInOrder
<1>1. IInv => ListInOrder
  BY DEF IInv
<1> QED
  BY HeapWellFormed, <1>1, PTL

(* The fields of a header and the place of every header in the heap.       *)
THEOREM TypeCorrect == Spec => []TypeOK
<1>1. IInv => TypeOK
  BY DEF IInv
<1> QED
  BY HeapWellFormed, <1>1, PTL
-----------------------------------------------------------------------------
(* Free neighbours.                                                        *)

(* Chunk c, if it is free, is followed by a taken chunk or by none.        *)
Alone(h, c) == ~h[c].allocated /\ h[c].next # Null => h[h[c].next].allocated

(* What absorbing chunk b in a leaves of h: every other chunk keeps its    *)
(* successor, size and flag, and only a was linked to what goes.           *)
Absorbed(h, a, b, g) ==
    /\ b \in DOMAIN h /\ b # a /\ DOMAIN g = DOMAIN h \ {b}
    /\ h[b].next \in (DOMAIN h \ {a, b}) \cup {Null}
    /\ g[a].next = h[b].next /\ g[a].allocated = h[a].allocated
    /\ \A c \in DOMAIN g : c # a =>
          /\ g[c].next = h[c].next /\ h[c].next \in (DOMAIN h \ {b}) \cup {Null}
          /\ g[c].allocated = h[c].allocated /\ g[c].size = h[c].size

(* What a merge leaves in every field of the list.                         *)
LEMMA AbsorbFields ==
    ASSUME NEW h, WellFormed(h), NEW a \in DOMAIN h, h[a].next # Null
    PROVE  Absorbed(h, a, h[a].next, Absorb(h, a, h[a].next))
<1> DEFINE b == h[a].next
           g == Absorb(h, a, b)
<1>1. b \in DOMAIN h /\ b > a /\ b # a /\ a \in Nat /\ b \in Nat /\ Null \notin DOMAIN h
  BY HeapAssumption, NextIsHigher DEF WellFormed, Typed, Null, End
<1>2. DOMAIN g = DOMAIN h \ {b}
  BY DEF Absorb
<1>3. /\ g[a].next = h[b].next /\ g[a].allocated = h[a].allocated
      /\ \A c \in DOMAIN g : c # a /\ c = h[b].next => g[c] = WithPrev(h[c], a)
      /\ \A c \in DOMAIN g : c # a /\ c # h[b].next => g[c] = h[c]
  BY <1>1, <1>2 DEF Absorb
<1>4. ASSUME NEW c \in DOMAIN g, c # a
      PROVE  /\ g[c].next = h[c].next /\ g[c].allocated = h[c].allocated
             /\ g[c].size = h[c].size
  <2> HIDE DEF g
  <2> QED
    BY <1>3, <1>4 DEF WithPrev
<1>5. /\ \A c \in DOMAIN h : h[c].next \in DOMAIN h \cup {Null} /\ (h[c].next = b => c = a)
      /\ h[b].next # b /\ h[b].next # a
  BY <1>1, HeapAssumption DEF WellFormed, Typed, LinksMeet, Limit, Null, End
<1> HIDE DEF g, b
<1>6. h[b].next \in (DOMAIN h \ {a, b}) \cup {Null}
  BY <1>1, <1>5
<1>7. \A c \in DOMAIN g : c # a => h[c].next \in (DOMAIN h \ {b}) \cup {Null}
  BY <1>2, <1>5
<1>8. Absorbed(h, a, b, g)
  BY <1>1, <1>2, <1>3, <1>4, <1>6, <1>7 DEF Absorbed
<1> QED
  BY <1>8 DEF g, b

(* Absorbing brings no other chunk next to a free one.                     *)
LEMMA AbsorbAlone ==
    ASSUME NEW h, WellFormed(h), NEW a \in DOMAIN h, h[a].next # Null,
           \A c \in DOMAIN h \ {a, h[a].next} : Alone(h, c)
    PROVE  LET b == h[a].next
               g == Absorb(h, a, b)
           IN  /\ \A c \in DOMAIN g \ {a} : Alone(g, c)
               /\ ~h[b].allocated /\ Alone(h, b) => Alone(g, a)
<1> DEFINE b == h[a].next
           g == Absorb(h, a, b)
<1>1. /\ b \in DOMAIN h /\ b # a /\ DOMAIN g = DOMAIN h \ {b}
      /\ h[b].next \in (DOMAIN h \ {a, b}) \cup {Null}
      /\ g[a].next = h[b].next /\ g[a].allocated = h[a].allocated
      /\ \A c \in DOMAIN g : c # a =>
            /\ g[c].next = h[c].next /\ h[c].next \in (DOMAIN h \ {b}) \cup {Null}
            /\ g[c].allocated = h[c].allocated
  <2>1. Absorbed(h, a, b, g)
    BY AbsorbFields
  <2> HIDE DEF g, b
  <2> QED
    BY <2>1 DEF Absorbed
<1>2. \A c \in DOMAIN h \ {a, b} : Alone(h, c)
  OBVIOUS
<1> HIDE DEF g, b
<1>3. \A c \in DOMAIN g : g[c].allocated = h[c].allocated
  BY <1>1
<1>4. ASSUME NEW c \in DOMAIN g \ {a} PROVE Alone(g, c)
  BY <1>1, <1>2, <1>3 DEF Alone
<1>5. ~h[b].allocated /\ Alone(h, b) => Alone(g, a)
  BY <1>1, <1>3 DEF Alone
<1> QED
  BY <1>4, <1>5 DEF g, b

(* A heap map with its free chunks apart.                                  *)
Apart(h) == WellFormed(h) /\ \A c \in DOMAIN h : Alone(h, c)

(* malloc makes no two free neighbours.                                    *)
LEMMA MallocAlone ==
    ASSUME Apart(chunk), NEW n \in Requests, Malloc(n)
    PROVE  \A c \in DOMAIN chunk' : Alone(chunk', c)
<1>1. PICK a \in Headers : /\ ~chunk[a].allocated
                           /\ IF Splits(a, n) THEN Split(a, n) ELSE Take(a)
  BY DEF Malloc, IsFirstFit, Fits
<1>2. /\ a \in DOMAIN chunk /\ Null \notin DOMAIN chunk
      /\ \A c \in DOMAIN chunk : chunk[c].next \in DOMAIN chunk \cup {Null}
      /\ \A c \in DOMAIN chunk : Alone(chunk, c)
      /\ chunk[a].next # Null => chunk[chunk[a].next].allocated
  BY <1>1, HeapAssumption DEF Apart, WellFormed, Typed, Alone, Headers, Null, End
<1>3. CASE ~Splits(a, n)
  <2>1. /\ DOMAIN chunk' = DOMAIN chunk
        /\ chunk'[a].allocated
        /\ \A c \in DOMAIN chunk : c # a => chunk'[c] = chunk[c]
    BY <1>1, <1>2, <1>3 DEF Take, Marked
  <2> QED
    BY <1>2, <2>1 DEF Alone
<1>4. CASE Splits(a, n)
  <2> DEFINE temp == a + Header + n
             g == SplitAt(chunk, a, n)
             nx == chunk[a].next
  <2>1. chunk' = g /\ DOMAIN g = DOMAIN chunk \cup {temp}
    BY <1>1, <1>4 DEF Split, SplitAt
  <2>2. temp # a /\ (temp \in DOMAIN chunk => chunk[a].size < n + Header + 1)
    <3>1. /\ a \in Nat /\ n \in Nat /\ Header \in Nat \ {0} /\ chunk[a].size \in Nat
          /\ temp \in DOMAIN chunk /\ a < temp => a + Header + chunk[a].size <= temp
      BY <1>2, HeapAssumption DEF Apart, WellFormed, Typed, InOrder, Limit, End
    <3> QED
      BY <3>1
  <2>3. temp \notin DOMAIN chunk
    <3>1. chunk[a].size >= n + Header + 1 /\ chunk[a].size \in Nat /\ n \in Nat /\ Header \in Nat
      BY <1>2, <1>4, HeapAssumption DEF Splits, Apart, WellFormed, Typed
    <3> QED
      BY <2>2, <3>1
  <2>4. /\ ~g[temp].allocated /\ g[temp].next = nx
        /\ g[a].allocated
        /\ \A c \in DOMAIN chunk : c # a /\ c = nx => g[c] = WithPrev(chunk[c], temp)
        /\ \A c \in DOMAIN chunk : c # a /\ c # nx => g[c] = chunk[c]
    BY <1>2, <2>2, <2>3 DEF SplitAt
  <2> HIDE DEF g, temp, nx
  <2>5. \A c \in DOMAIN chunk : c # a => /\ g[c].next = chunk[c].next
                                         /\ g[c].allocated = chunk[c].allocated
    <3> SUFFICES ASSUME NEW c \in DOMAIN chunk, c # a
                 PROVE  g[c].next = chunk[c].next /\ g[c].allocated = chunk[c].allocated
      OBVIOUS
    <3>1. CASE c = nx
      <4>1. g[c] = [next |-> chunk[c].next, prev |-> temp,
                    allocated |-> chunk[c].allocated, size |-> chunk[c].size]
        BY <2>4, <3>1 DEF WithPrev
      <4> QED
        BY <4>1
    <3>2. CASE c # nx
      BY <2>4, <3>2
    <3> QED
      BY <3>1, <3>2
  <2>6. nx # Null => g[nx].allocated
    BY <1>2, <2>4, <2>5 DEF nx
  <2>7. Alone(g, temp) /\ Alone(g, a)
    BY <2>4, <2>6 DEF Alone
  <2>8. ASSUME NEW c \in DOMAIN chunk, c # a PROVE Alone(g, c)
    BY <1>2, <2>4, <2>5, <2>8 DEF Alone
  <2> QED
    BY <2>1, <2>7, <2>8
<1> QED
  BY <1>3, <1>4

(* The chunk set free is the only one that may stand next to a free one,   *)
(* and free looks at both of its sides.                                    *)
LEMMA FreeAlone ==
    ASSUME Apart(chunk), NEW a \in Headers, Free(a)
    PROVE  \A c \in DOMAIN chunk' : Alone(chunk', c)
<1> DEFINE h == Freed(a)
           p == chunk[a].prev
           k == MergePrev(a)
           b == AtHand(a)
<1>1. /\ a \in DOMAIN chunk /\ Null \notin DOMAIN chunk /\ WellFormed(chunk)
      /\ chunk[a].allocated
      /\ \A c \in DOMAIN chunk : Alone(chunk, c)
      /\ \A c \in DOMAIN chunk : chunk[c].next \in DOMAIN chunk \cup {Null}
  BY HeapAssumption DEF Apart, WellFormed, Typed, Headers, Null, End, Free
<1>2. /\ DOMAIN h = DOMAIN chunk
      /\ h[a].next = chunk[a].next /\ h[a].prev = p /\ ~h[a].allocated
      /\ \A c \in DOMAIN chunk : c # a => h[c] = chunk[c]
  BY <1>1 DEF Freed, Marked
<1>3. WellFormed(h)
  BY <1>1, MarkKeeps DEF Freed
<1> HIDE DEF h, p
<1>4. /\ p \in DOMAIN h \cup {Null} /\ (p # Null => h[p].next = a /\ p # a)
      /\ \A c \in DOMAIN h : h[c].next = a => c = p
  <2>1. p \in DOMAIN h \cup {Null} /\ (p # Null => h[p].next = a)
    BY <1>1, <1>2, <1>3 DEF WellFormed, Typed, LinksMeet
  <2>2. p # Null => p # a
    BY <1>3, <2>1, NextIsHigher, <1>1
  <2>3. \A c \in DOMAIN h : h[c].next = a => c = p
    BY <1>1, <1>2, <1>3 DEF WellFormed, LinksMeet
  <2> QED
    BY <2>1, <2>2, <2>3
<1>5. \A c \in DOMAIN h \ {a, p} : Alone(h, c)
  <2> SUFFICES ASSUME NEW c \in DOMAIN h \ {a, p} PROVE Alone(h, c)
    OBVIOUS
  <2>1. h[c] = chunk[c] /\ Alone(chunk, c) /\ chunk[c].next # a
        /\ chunk[c].next \in DOMAIN chunk \cup {Null}
    BY <1>1, <1>2, <1>4
  <2> QED
    BY <1>2, <2>1 DEF Alone
<1>6. /\ WellFormed(k) /\ b \in DOMAIN k /\ ~k[b].allocated
      /\ \A c \in DOMAIN k \ {b} : Alone(k, c)
  <2>1. CASE FreeAt(h, p)
    <3>1. p \in DOMAIN h /\ h[p].next = a /\ a # Null /\ ~h[p].allocated
      BY <1>1, <1>4, <2>1 DEF FreeAt
    <3>2. k = Absorb(h, p, a) /\ b = p
      BY <2>1 DEF MergePrev, AtHand, h, p
    <3> HIDE DEF k, b
    <3>3. WellFormed(k)
      BY <1>3, <3>1, <3>2, AbsorbKeeps
    <3>4. p \in DOMAIN k /\ k[p].allocated = h[p].allocated
      <4>1. Absorbed(h, p, a, k)
        BY <1>3, <3>1, <3>2, AbsorbFields, <1>1
      <4> QED
        BY <1>4, <3>1, <4>1 DEF Absorbed
    <3>5. \A c \in DOMAIN k \ {p} : Alone(k, c)
      BY <1>3, <1>5, <3>1, <3>2, AbsorbAlone
    <3> QED
      BY <3>1, <3>2, <3>3, <3>4, <3>5
  <2>2. CASE ~FreeAt(h, p)
    <3>1. k = h /\ b = a
      BY <2>2 DEF MergePrev, AtHand, h, p
    <3> HIDE DEF k, b
    <3>2. p # Null => Alone(h, p)
      BY <1>4, <2>2 DEF FreeAt, Alone
    <3>3. \A c \in DOMAIN h \ {a} : Alone(h, c)
      BY <1>1, <1>2, <1>5, <3>2
    <3> QED
      BY <1>1, <1>2, <1>3, <3>1, <3>3
  <2> QED
    BY <2>1, <2>2
<1>7. chunk' = MergeNext(k, b)
  BY DEF Free
<1> HIDE DEF k, b
<1>8. CASE FreeAt(k, k[b].next)
  <2>1. k[b].next # Null /\ chunk' = Absorb(k, b, k[b].next) /\ ~k[k[b].next].allocated
    BY <1>7, <1>8 DEF FreeAt, MergeNext
  <2>2. k[b].next \in DOMAIN k /\ k[b].next # b
    <3>1. Absorbed(k, b, k[b].next, Absorb(k, b, k[b].next))
      BY <1>6, <2>1, AbsorbFields
    <3> QED
      BY <3>1 DEF Absorbed
  <2>3. Alone(k, k[b].next)
    BY <1>6, <2>2
  <2> QED
    BY <1>6, <2>1, <2>3, AbsorbAlone
<1>9. CASE ~FreeAt(k, k[b].next)
  <2>1. chunk' = k
    BY <1>7, <1>9 DEF MergeNext
  <2>2. Alone(k, b)
    BY <1>9 DEF FreeAt, Alone
  <2> QED
    BY <1>6, <2>1, <2>2
<1> QED
  BY <1>8, <1>9

(* No two neighbours of the list are ever both free, although free looks   *)
(* one chunk to either side only.                                          *)
THEOREM FreeChunksStandApart == Spec => []NoFreeNeighbours
<1>1. Init => NoFreeNeighbours
  BY HeapAssumption DEF Init, NoFreeNeighbours, Headers, Null
<1>2. IInv /\ NoFreeNeighbours /\ [Next]_vars => NoFreeNeighbours'
  <2> SUFFICES ASSUME IInv, NoFreeNeighbours, [Next]_vars PROVE NoFreeNeighbours'
    OBVIOUS
  <2>1. Apart(chunk)
    BY DEF IInv, TypeOK, ListTilesHeap, ListInOrder, WellFormed, Apart, NoFreeNeighbours, Alone, Headers
  <2>2. (\A c \in DOMAIN chunk' : Alone(chunk', c)) => NoFreeNeighbours'
    BY DEF NoFreeNeighbours, Alone, Headers
  <2>3. ASSUME NEW n \in Requests, MallocFails(n) PROVE UNCHANGED vars
    BY <2>3 DEF MallocFails
  <2>4. UNCHANGED vars => NoFreeNeighbours'
    BY DEF NoFreeNeighbours, Headers, vars
  <2> QED
    BY <2>1, <2>2, <2>3, <2>4, MallocAlone, FreeAlone DEF Next
<1> QED
  BY HeapWellFormed, <1>1, <1>2, PTL DEF Spec
-----------------------------------------------------------------------------
(* What callers get.                                                       *)

(* The chunks that are out, and the blocks their callers hold.             *)
Out(h)      == {b \in DOMAIN h : h[b].allocated}
Block(h, a) == [base |-> a + Header, length |-> h[a].size]
Blocks(h)   == {Block(h, a) : a \in Out(h)}

(* No chunk reaches past the end of the heap.                              *)
LEMMA ChunksInHeap ==
    ASSUME NEW h, WellFormed(h), NEW a \in DOMAIN h
    PROVE  /\ a \in Nat /\ Start <= a /\ h[a].size \in Nat
           /\ a + Header + h[a].size <= Start + Size
           /\ \A c \in DOMAIN h : a < c => a + Header + h[a].size <= c
<1>1. /\ \A c \in DOMAIN h : c \in Nat /\ Start <= c /\ c <= Start + Size /\ h[c].size \in Nat
      /\ h[a].next \in DOMAIN h \cup {Null}
  BY HeapAssumption DEF WellFormed, Typed, End
<1>2. a + Header + h[a].size <= Start + Size
  <2>1. CASE h[a].next = Null
    BY <1>1, <2>1, HeapAssumption DEF WellFormed, LinksMeet, Limit, End
  <2>2. CASE h[a].next # Null
    <3>1. a + Header + h[a].size = h[a].next /\ h[a].next \in DOMAIN h
      BY <1>1, <2>2 DEF WellFormed, LinksMeet, Limit
    <3> QED
      BY <1>1, <3>1
  <2> QED
    BY <2>1, <2>2
<1>3. \A c \in DOMAIN h : a < c => a + Header + h[a].size <= c
  BY DEF WellFormed, InOrder, Limit
<1> QED
  BY <1>1, <1>2, <1>3

(* Different chunks, disjoint blocks.                                      *)
LEMMA BlocksApart ==
    ASSUME NEW h, WellFormed(h), NEW a \in DOMAIN h, NEW c \in DOMAIN h, a # c
    PROVE  /\ Promise!Bytes(Block(h, a)) \cap Promise!Bytes(Block(h, c)) = {}
           /\ Block(h, a).base # Block(h, c).base
<1>1. /\ a \in Nat /\ c \in Nat /\ h[a].size \in Nat /\ h[c].size \in Nat
      /\ a < c => a + Header + h[a].size <= c
      /\ c < a => c + Header + h[c].size <= a
      /\ Header \in Nat \ {0}
  BY ChunksInHeap, HeapAssumption
<1>2. /\ Promise!Bytes(Block(h, a)) = (a + Header)..(a + Header + h[a].size - 1)
      /\ Promise!Bytes(Block(h, c)) = (c + Header)..(c + Header + h[c].size - 1)
      /\ Block(h, a).base = a + Header /\ Block(h, c).base = c + Header
  BY DEF Block, Promise!Bytes
<1>3. ASSUME NEW x \in (a + Header)..(a + Header + h[a].size - 1),
             x \in (c + Header)..(c + Header + h[c].size - 1)
      PROVE  FALSE
  <2>1. CASE a < c
    BY <1>1, <1>3, <2>1
  <2>2. CASE c < a
    BY <1>1, <1>3, <2>2
  <2> QED
    BY <1>1, <2>1, <2>2
<1> QED
  BY <1>1, <1>2, <1>3

(* Taking one more chunk is Allocate.                                      *)
LEMMA OneMoreOut ==
    ASSUME NEW h, NEW g, WellFormed(g), NEW a \in DOMAIN g, NEW n \in Nat,
           a \notin Out(h), Out(g) = Out(h) \cup {a}, n <= g[a].size,
           \A c \in Out(h) : g[c].size = h[c].size
    PROVE  \E b \in Promise!AllBlocks :
              /\ b.length >= n
              /\ Promise!Bytes(b) \subseteq Promise!Arena
              /\ \A c \in Blocks(h) : Promise!Bytes(b) \cap Promise!Bytes(c) = {} /\ b.base # c.base
              /\ Blocks(g) = Blocks(h) \cup {b}
<1> DEFINE b == Block(g, a)
<1>1. /\ a \in Nat /\ Start <= a /\ g[a].size \in Nat
      /\ a + Header + g[a].size <= Start + Size
      /\ Start \in Nat /\ Size \in Nat /\ Header \in Nat \ {0}
  BY ChunksInHeap, HeapAssumption
<1>2. b.base = a + Header /\ b.length = g[a].size
      /\ b = [base |-> a + Header, length |-> g[a].size]
  BY DEF Block
<1>3. b \in Promise!AllBlocks
  <2>1. a + Header \in Start..(Start + Size) /\ g[a].size \in 0..Size
    BY <1>1
  <2> QED
    BY <1>2, <2>1 DEF Promise!AllBlocks
<1>4. Promise!Bytes(b) \subseteq Promise!Arena
  BY <1>1, <1>2 DEF Promise!Bytes, Promise!Arena
<1>5. ASSUME NEW c \in Out(h) PROVE Block(h, c) = Block(g, c) /\ c \in DOMAIN g /\ c # a
  <2>1. c \in Out(g)
    OBVIOUS
  <2> QED
    BY <2>1 DEF Block, Out
<1> HIDE DEF b
<1>6. ASSUME NEW c \in Blocks(h)
      PROVE  Promise!Bytes(b) \cap Promise!Bytes(c) = {} /\ b.base # c.base
  <2>1. PICK d \in Out(h) : c = Block(g, d)
    BY <1>5, <1>6 DEF Blocks
  <2> QED
    BY <1>5, <2>1, BlocksApart DEF b
<1>7. Blocks(g) = Blocks(h) \cup {b}
  <2>1. Blocks(g) \subseteq Blocks(h) \cup {b}
    BY <1>5 DEF Blocks, b
  <2>2. Blocks(h) \subseteq Blocks(g)
    BY <1>5 DEF Blocks
  <2>3. b \in Blocks(g)
    BY DEF Blocks, b
  <2> QED
    BY <2>1, <2>2, <2>3
<1> QED
  BY <1>1, <1>2, <1>3, <1>4, <1>6, <1>7

(* malloc adds one block, large enough, inside the heap and apart from     *)
(* every other: an Allocate of the abstract heap.                          *)
LEMMA MallocAllocates ==
    ASSUME IInv, NEW n \in Requests, Malloc(n)
    PROVE  \E b \in Promise!AllBlocks :
              /\ b.length >= n
              /\ Promise!Bytes(b) \subseteq Promise!Arena
              /\ \A c \in Blocks(chunk) : Promise!Bytes(b) \cap Promise!Bytes(c) = {}
                                          /\ b.base # c.base
              /\ Blocks(chunk') = Blocks(chunk) \cup {b}
<1>1. WellFormed(chunk) /\ WellFormed(chunk') /\ n \in Nat
  BY MallocInv, HeapAssumption DEF IInv, TypeOK, ListTilesHeap, ListInOrder, WellFormed
<1>2. PICK a \in Headers : /\ ~chunk[a].allocated /\ chunk[a].size > n
                           /\ IF Splits(a, n) THEN Split(a, n) ELSE Take(a)
  BY DEF Malloc, IsFirstFit, Fits
<1>3. a \in DOMAIN chunk /\ a \notin Out(chunk) /\ chunk[a].size \in Nat
  BY <1>1, <1>2 DEF Headers, Out, WellFormed, Typed
<1>4. a \in DOMAIN chunk' /\ Out(chunk') = Out(chunk) \cup {a} /\ n <= chunk'[a].size
      /\ \A c \in Out(chunk) : chunk'[c].size = chunk[c].size
  <2>1. CASE ~Splits(a, n)
    <3>1. /\ DOMAIN chunk' = DOMAIN chunk
          /\ chunk'[a].allocated /\ chunk'[a].size = chunk[a].size
          /\ \A c \in DOMAIN chunk : c # a => chunk'[c] = chunk[c]
      BY <1>2, <1>3, <2>1 DEF Take, Marked
    <3> QED
      BY <1>1, <1>2, <1>3, <3>1 DEF Out
  <2>2. CASE Splits(a, n)
    <3> DEFINE temp == a + Header + n
    <3>1. chunk' = SplitAt(chunk, a, n)
      BY <1>2, <2>2 DEF Split
    <3>2. temp \notin DOMAIN chunk /\ temp # a
      <4>1. a \in Nat /\ Header \in Nat \ {0} /\ chunk[a].size >= n + Header + 1
            /\ \A c \in DOMAIN chunk : a < c => a + Header + chunk[a].size <= c
        BY <1>1, <1>3, <2>2, ChunksInHeap, HeapAssumption DEF Splits
      <4>2. a < temp /\ ~(a + Header + chunk[a].size <= temp)
        BY <1>1, <1>3, <4>1
      <4> QED
        BY <4>1, <4>2
    <3>3. /\ DOMAIN chunk' = DOMAIN chunk \cup {temp}
          /\ ~chunk'[temp].allocated
          /\ chunk'[a].allocated /\ chunk'[a].size = n
          /\ \A c \in DOMAIN chunk : c # a =>
                chunk'[c] = chunk[c] \/ chunk'[c] = WithPrev(chunk[c], temp)
      BY <1>3, <3>1, <3>2 DEF SplitAt
    <3>4. ASSUME NEW c \in DOMAIN chunk, c # a
          PROVE  chunk'[c].allocated = chunk[c].allocated /\ chunk'[c].size = chunk[c].size
      <4>1. WithPrev(chunk[c], temp).allocated = chunk[c].allocated
            /\ WithPrev(chunk[c], temp).size = chunk[c].size
        BY DEF WithPrev
      <4> QED
        BY <3>3, <3>4, <4>1
    <3> QED
      BY <1>1, <1>3, <3>3, <3>4 DEF Out
  <2> QED
    BY <2>1, <2>2
<1> QED
  BY <1>1, <1>3, <1>4, OneMoreOut

(* Merging two free chunks takes nothing from a caller.                    *)
LEMMA AbsorbKeepsBlocks ==
    ASSUME NEW h, WellFormed(h), NEW a \in DOMAIN h, h[a].next # Null,
           ~h[a].allocated, ~h[h[a].next].allocated
    PROVE  Blocks(Absorb(h, a, h[a].next)) = Blocks(h)
<1> DEFINE b == h[a].next
           g == Absorb(h, a, b)
<1>1. Absorbed(h, a, b, g)
  BY AbsorbFields
<1>2. ~h[b].allocated
  OBVIOUS
<1> HIDE DEF b, g
<1>3. Out(g) = Out(h) /\ \A c \in Out(h) : g[c].size = h[c].size
  BY <1>1, <1>2 DEF Absorbed, Out
<1>4. \A c \in Out(h) : Block(g, c) = Block(h, c)
  BY <1>3 DEF Block
<1>5. Blocks(g) = Blocks(h)
  BY <1>3, <1>4 DEF Blocks
<1> QED
  BY <1>5 DEF g, b

(* free takes away the block it is given and no other: a Release of the    *)
(* abstract heap.                                                          *)
LEMMA FreeReleases ==
    ASSUME IInv, NEW a \in Headers, Free(a)
    PROVE  Block(chunk, a) \in Blocks(chunk) /\ Blocks(chunk') = Blocks(chunk) \ {Block(chunk, a)}
<1> DEFINE h == Freed(a)
           p == chunk[a].prev
           k == MergePrev(a)
           b == AtHand(a)
<1>1. /\ a \in DOMAIN chunk /\ Null \notin DOMAIN chunk /\ WellFormed(chunk)
      /\ chunk[a].allocated
  BY HeapAssumption
     DEF IInv, TypeOK, ListTilesHeap, ListInOrder, WellFormed, Typed, Headers, Null, End, Free
<1>2. /\ DOMAIN h = DOMAIN chunk
      /\ h[a].prev = p /\ ~h[a].allocated
      /\ \A c \in DOMAIN chunk : c # a => h[c] = chunk[c]
  BY <1>1 DEF Freed, Marked
<1>3. WellFormed(h)
  BY <1>1, MarkKeeps DEF Freed
<1> HIDE DEF h, p
<1>4. Blocks(h) = Blocks(chunk) \ {Block(chunk, a)}
  <2>1. Out(h) = Out(chunk) \ {a} /\ a \in Out(chunk)
    BY <1>1, <1>2 DEF Out
  <2>2. \A c \in Out(h) : Block(h, c) = Block(chunk, c) /\ Block(chunk, c) # Block(chunk, a)
    BY <1>1, <1>2, <2>1, BlocksApart DEF Out, Block
  <2> QED
    BY <2>1, <2>2 DEF Blocks
<1>5. WellFormed(k) /\ b \in DOMAIN k /\ ~k[b].allocated /\ Blocks(k) = Blocks(h)
  <2>1. CASE FreeAt(h, p)
    <3>1. /\ p \in DOMAIN h /\ h[p].next = a /\ a # Null /\ ~h[p].allocated /\ ~h[a].allocated
      BY <1>1, <1>2, <1>3, <2>1 DEF FreeAt, WellFormed, Typed, LinksMeet
    <3>2. k = Absorb(h, p, a) /\ b = p
      BY <2>1 DEF MergePrev, AtHand, h, p
    <3> HIDE DEF k, b
    <3>3. Absorbed(h, p, a, k)
      BY <1>3, <3>1, <3>2, AbsorbFields
    <3>4. WellFormed(k) /\ Blocks(k) = Blocks(h)
      BY <1>3, <3>1, <3>2, AbsorbKeeps, AbsorbKeepsBlocks
    <3> QED
      BY <3>1, <3>2, <3>3, <3>4 DEF Absorbed
  <2>2. CASE ~FreeAt(h, p)
    BY <1>1, <1>2, <1>3, <2>2 DEF MergePrev, AtHand, h, p
  <2> QED
    BY <2>1, <2>2
<1>6. chunk' = MergeNext(k, b)
  BY DEF Free
<1> HIDE DEF k, b
<1>7. Blocks(chunk') = Blocks(k)
  BY <1>5, <1>6, AbsorbKeepsBlocks DEF MergeNext, FreeAt
<1>8. Block(chunk, a) \in Blocks(chunk)
  BY <1>1 DEF Blocks, Out
<1> QED
  BY <1>4, <1>5, <1>7, <1>8

(* The blocks of the refinement.                                           *)
BlocksOut == {[base |-> a + Header, length |-> chunk[a].size] :
                 a \in {b \in Headers : chunk[b].allocated}}

(* The chunk list keeps what Allocator promises: malloc hands out a block  *)
(* of the heap that overlaps no other block out, and nothing but a free of *)
(* that block takes it back.  Allocator states no fairness, so this is the *)
(* whole refinement.                                                       *)
THEOREM KeepsThePromise == Spec => RefinesAllocator
<1>1. Init => Promise!Init
  BY DEF Init, Promise!Init, Headers
<1>2. IInv /\ [Next]_vars => [Promise!Next]_(BlocksOut)
  <2> SUFFICES ASSUME IInv, [Next]_vars PROVE [Promise!Next]_(BlocksOut)
    OBVIOUS
  <2>1. ASSUME NEW n \in Requests, Malloc(n) PROVE Promise!Next
    BY <2>1, MallocAllocates DEF Promise!Next, Promise!Allocate, Blocks, Block, Out, Headers
  <2>2. ASSUME NEW a \in Headers, Free(a) PROVE Promise!Next
    BY <2>2, FreeReleases DEF Promise!Next, Promise!Release, Blocks, Block, Out, Headers
  <2>3. ASSUME UNCHANGED vars PROVE UNCHANGED BlocksOut
    BY <2>3 DEF vars, Headers, BlocksOut
  <2> QED
    BY <2>1, <2>2, <2>3 DEF Next, MallocFails
<1> QED
  BY HeapWellFormed, <1>1, <1>2, PTL DEF Spec, RefinesAllocator, Promise!Spec, BlocksOut
=============================================================================
