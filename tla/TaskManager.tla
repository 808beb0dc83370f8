---------------------------- MODULE TaskManager ----------------------------
(***************************************************************************)
(* The kernel's process table (os01, multitasking.cpp) behind its system   *)
(* calls (syscalls.cpp) and the timer interrupt (interrupts.cpp).  Every   *)
(* gate is an interrupt gate, so a system call or a tick runs from entry   *)
(* to iret without interruption: one action each, with the Schedule it     *)
(* ends in.  Which system calls a program makes, and with which pids, is   *)
(* left open.  Of a task's saved registers only ecx, where fork returns,   *)
(* is kept.                                                                *)
(*                                                                         *)
(* A definition marked `Defect' is no part of the specification: it is a   *)
(* slip the code could have had in the definition it stands before, kept   *)
(* to show that the properties notice it.                                  *)
(***************************************************************************)
EXTENDS Integers, FiniteSets

CONSTANTS MaxTasks,    \* length of tasks[] (256)
          Pids         \* pids a program may pass to waitpid

ASSUME TableAssumption == MaxTasks \in Nat \ {0} /\ Pids \subseteq Nat

VARIABLES tasks,         \* [0..numTasks-1 -> [pid, ppid, state, waitPid]]
          numTasks,
          currentTask,   \* -1 until the first tick leaves kernelMain
          processCounter,
          ecx,           \* [0..numTasks-1 -> what its last fork returned]
          gdt            \* whether task 0's gdt pointer is not null

taskVars == <<tasks, numTasks, currentTask, processCounter, ecx, gdt>>

States == {"READY", "WAITING", "FINISHED"}
Minus1 == -1
NoResult == -2           \* ecx of a task that has not returned from fork

(* kernelMain: Task init_task, AddTask, Activate.  AddTask copies neither  *)
(* the gdt pointer nor allocates the entry it writes to, so what task 0's  *)
(* gdt holds is whatever the memory held; its children inherit it.         *)
TaskInit ==
    /\ tasks = [i \in {0} |-> [pid |-> 0, ppid |-> Minus1,
                               state |-> "READY", waitPid |-> Minus1]]
    /\ numTasks = 1
    /\ processCounter = 1
    /\ currentTask = -1
    /\ ecx = [i \in {0} |-> NoResult]
    /\ gdt \in BOOLEAN
-----------------------------------------------------------------------------
(* getTaskIndex, on table t: the first entry with that pid, or -1.         *)
TaskIndex(t, pid) ==
    LET Same == {i \in DOMAIN t : t[i].pid = pid}
    IN  IF Same = {} THEN -1 ELSE CHOOSE i \in Same : \A j \in Same : i <= j

(* A waiting task whose process has finished is released when the round    *)
(* robin comes past it.                                                    *)
Released(t, i) == /\ t[i].state = "WAITING"
                  /\ TaskIndex(t, t[i].waitPid) # -1
                  /\ t[TaskIndex(t, t[i].waitPid)].state = "FINISHED"
Runnable(t, i) == t[i].state = "READY" \/ Released(t, i)

(* Defect: waiting tasks are passed over for good.                         *)
CandidatesReady(t) == {i \in DOMAIN t : t[i].state = "READY"}

Candidates(t) == {i \in DOMAIN t : Runnable(t, i)}

(* Steps of the round robin from the current task to task i.               *)
DistanceFromZero(i, n) == i    \* Defect: the search always starts at entry 0

Distance(i, n) == (i - (currentTask + 1)) % n

(* Schedule on table t of n tasks: from the one after the current one on,  *)
(* the first that is or becomes READY runs; if none is, the interrupted    *)
(* code goes on, whatever its task's state.                                *)
Schedule(t, n) ==
    IF Candidates(t) = {}
    THEN tasks' = t /\ UNCHANGED currentTask
    ELSE \E i \in Candidates(t) :
            /\ \A j \in Candidates(t) : Distance(i, n) <= Distance(j, n)
            /\ currentTask' = i
            /\ tasks' = IF t[i].state = "READY" THEN t
                        ELSE [t EXCEPT ![i].state = "READY", ![i].waitPid = 0]
-----------------------------------------------------------------------------
Running == currentTask # -1

TimerTick ==
    /\ Schedule(tasks, numTasks)
    /\ UNCHANGED <<numTasks, processCounter, ecx, gdt>>

SysExit ==
    /\ Running
    /\ Schedule([tasks EXCEPT ![currentTask].state = "FINISHED"], numTasks)
    /\ UNCHANGED <<numTasks, processCounter, ecx, gdt>>

TableFullLate == numTasks > MaxTasks    \* Defect: one entry too many

TableFull == numTasks >= MaxTasks

Child == [pid |-> processCounter, ppid |-> tasks[currentTask].pid,
          state |-> "READY", waitPid |-> Minus1]

(* fork: the table is full, there is no descriptor table to give the       *)
(* child, or there is a child.                                             *)
ForkFails ==
    /\ TableFull \/ ~gdt
    /\ ecx' = [ecx EXCEPT ![currentTask] = IF TableFull THEN 0 ELSE -1]
    /\ Schedule(tasks, numTasks)
    /\ UNCHANGED <<numTasks, processCounter>>

ForkChild ==
    /\ ~TableFull /\ gdt
    /\ ecx' = [i \in 0..numTasks |-> IF i = numTasks THEN 0
                                     ELSE IF i = currentTask THEN processCounter
                                     ELSE ecx[i]]
    /\ Schedule([i \in 0..numTasks |-> IF i = numTasks THEN Child ELSE tasks[i]],
                numTasks + 1)
    /\ numTasks' = numTasks + 1
    /\ processCounter' = processCounter + 1

SysFork ==
    /\ Running
    /\ ForkFails \/ ForkChild
    /\ UNCHANGED gdt

(* Defect: a process may wait for itself.                                  *)
NothingElseToWaitFor(pid) == \/ pid = 0
                             \/ TaskIndex(tasks, pid) = -1
                             \/ tasks[TaskIndex(tasks, pid)].state = "FINISHED"

(* waitpid(0), on oneself, on no process or on a finished one returns.     *)
NothingToWaitFor(pid) == \/ pid = tasks[currentTask].pid
                         \/ pid = 0
                         \/ TaskIndex(tasks, pid) = -1
                         \/ tasks[TaskIndex(tasks, pid)].state = "FINISHED"

SysWaitpid(pid) ==
    /\ Running
    /\ IF NothingToWaitFor(pid)
       THEN UNCHANGED <<tasks, currentTask>>
       ELSE Schedule([tasks EXCEPT ![currentTask].state = "WAITING",
                                   ![currentTask].waitPid = pid], numTasks)
    /\ UNCHANGED <<numTasks, processCounter, ecx, gdt>>

(* execve: the task starts afresh, READY whatever it was; the new program  *)
(* has not called fork (that it starts with its pid in ecx no one reads).  *)
SysExecve ==
    /\ Running
    /\ tasks' = [tasks EXCEPT ![currentTask].state = "READY"]
    /\ ecx' = [ecx EXCEPT ![currentTask] = NoResult]
    /\ UNCHANGED <<numTasks, currentTask, processCounter, gdt>>

TaskNext ==
    \/ TimerTick \/ SysExit \/ SysFork \/ SysExecve
    \/ \E pid \in Pids : SysWaitpid(pid)

(* The timer keeps ticking: nothing in the kernel or its programs clears   *)
(* the interrupt flag.                                                     *)
TaskSpec == TaskInit /\ [][TaskNext]_taskVars /\ WF_taskVars(TimerTick)
-----------------------------------------------------------------------------
(* What must hold.                                                         *)

(* Every variable stays in its range, and the table has numTasks entries.  *)
TaskTypeOK ==
    /\ numTasks \in 1..MaxTasks
    /\ tasks \in [0..(numTasks - 1) -> [pid : Nat, ppid : Nat \cup {-1}, state : States,
                                        waitPid : Nat \cup {-1}]]
    /\ currentTask \in -1..(numTasks - 1)
    /\ processCounter \in Nat
    /\ ecx \in [0..(numTasks - 1) -> Nat \cup {-1, NoResult}]
    /\ gdt \in BOOLEAN

(* The fallback of Schedule (line 251) lets a task go on after it has      *)
(* exited or begun to wait; it is taken only while no task at all could    *)
(* run, however exits, forks, waits and ticks follow each other.           *)
WorkConserving ==
    Running /\ tasks[currentTask].state # "READY" =>
        \A i \in DOMAIN tasks : ~Runnable(tasks, i)

(* A waiting task waits for exactly one entry of the table, and not for    *)
(* itself: pids are never given twice, so the process whose end releases   *)
(* it is the one it named (getTaskIndex finds the first match only).       *)
WaitersHaveATarget ==
    /\ \A i, j \in DOMAIN tasks : tasks[i].pid = tasks[j].pid => i = j
    /\ \A i \in DOMAIN tasks : tasks[i].state = "WAITING" =>
          \E j \in DOMAIN tasks : j # i /\ tasks[j].pid = tasks[i].waitPid

(* Round robin: a task that is ready, or whose awaited process has         *)
(* finished, gets the processor, whatever system calls the others make in  *)
(* between; a waiter is then no longer waiting (Schedule 230-237).         *)
NoStarvation ==
    \A i \in 0..(MaxTasks - 1) :
        (i \in DOMAIN tasks /\ Runnable(tasks, i)) ~> currentTask = i
=============================================================================
