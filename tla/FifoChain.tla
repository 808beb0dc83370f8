----------------------------- MODULE FifoChain -----------------------------
(***************************************************************************)
(* The FIFO exercise (sys02).  The parent sends an array through fifo1 to  *)
(* child 1, which adds it up, and through fifo2, followed by the word      *)
(* "multiply", to child 2, which multiplies it; child 1 then sends its sum *)
(* through fifo2 as well.  Nothing but sleeps keeps the three messages in  *)
(* fifo2 apart.  The parent counts its children's ends in a handler of     *)
(* SIGCHLD and leaves when it has counted two.                             *)
(*                                                                         *)
(* A FIFO holds cells, the bytes of the program; an int has IntSize of     *)
(* them and the word WordSize.  A cell says what it is part of, so that a  *)
(* reader that gets other cells than it should is known to compute         *)
(* garbage.                                                                *)
(***************************************************************************)
EXTENDS Naturals, Sequences, FiniteSets

CONSTANTS IntSize,     \* sizeof(int): 4
          WordSize,    \* sizeof "multiply": 9
          MaxSize,     \* a bound on array_size
          Capacity,    \* cells a FIFO holds
          PipeBuf      \* writes of at most this many cells are indivisible

ASSUME SizeAssumption ==
    /\ IntSize \in Nat \ {0} /\ WordSize \in Nat \ {0} /\ MaxSize \in Nat \ {0}
    /\ PipeBuf \in Nat /\ Capacity \in Nat
    /\ IntSize <= PipeBuf /\ WordSize <= PipeBuf /\ PipeBuf <= Capacity

Procs    == {"parent", "child1", "child2"}
Children == {"child1", "child2"}
Fifos    == {"fifo1", "fifo2"}

VARIABLES
    array_size,     \* the argument
    prompt,         \* do all steps take less time than the sleeps allow?
    pc,             \* [Procs -> where the process is]
    fifo,           \* [Fifos -> the cells in it]
    readers, writers, \* [Fifos -> who has it open, or waits in open]
    left,           \* what the parent still has to write in the call it is in
    added,          \* did child 1 add up the right array?
    got,            \* what child 2 has read as array and word
    result,         \* what child 2 prints
    zombies,        \* children that have ended and are not waited for
    pending,        \* is SIGCHLD pending?
    handling,       \* is the parent in sigchld_handler?
    child_counter

dataVars == <<left, added, got, result>>
fifoVars == <<fifo, readers, writers>>
childVars == <<zombies, pending, handling, child_counter>>
vars == <<array_size, prompt, pc, fifoVars, dataVars, childVars>>

Cells(what, n) == [i \in 1..n |-> <<what, i>>]
Array   == Cells("array", IntSize * array_size)
Message == Cells("word", WordSize)
Sum(ok) == Cells(IF ok THEN "sum" ELSE "garbage", IntSize)

Init ==
    /\ array_size \in 1..MaxSize /\ prompt \in BOOLEAN
    /\ pc = [p \in Procs |-> IF p = "parent" THEN "fork1" ELSE "unborn"]
    /\ fifo = [f \in Fifos |-> <<>>]
    /\ readers = [f \in Fifos |-> {}] /\ writers = [f \in Fifos |-> {}]
    /\ left = <<>> /\ added = FALSE /\ got = <<>> /\ result = "none"
    /\ zombies = {} /\ pending = FALSE /\ handling = FALSE /\ child_counter = 0

Goto(p, at) == pc' = [pc EXCEPT ![p] = at]
-----------------------------------------------------------------------------
(* FIFOs.                                                                  *)

(* Where a process goes on when its open of f returns.                     *)
Opened(p, f) == CASE p = "parent" /\ f = "fifo1" -> "open2"
                  [] p = "parent" /\ f = "fifo2" -> "write1"
                  [] p = "child1" /\ f = "fifo1" -> "sleep"
                  [] p = "child1" /\ f = "fifo2" -> "write"
                  [] OTHER -> "sleep"

Waiting(f) == IF f = "fifo1" THEN "wait1" ELSE "wait2"

(* open blocks until the other side has been opened, and frees a process   *)
(* that waits there.                                                       *)
Open(p, f, mine, others) ==
    pc' = IF others = {} THEN [pc EXCEPT ![p] = Waiting(f)]
          ELSE [q \in Procs |->
                   IF q = p \/ (q \in others /\ pc[q] = Waiting(f))
                   THEN Opened(q, f) ELSE pc[q]]

OpenToRead(p, f) ==
    /\ Open(p, f, readers[f], writers[f])
    /\ readers' = [readers EXCEPT ![f] = @ \cup {p}]
    /\ UNCHANGED <<fifo, writers>>

OpenToWrite(p, f) ==
    /\ Open(p, f, writers[f], readers[f])
    /\ writers' = [writers EXCEPT ![f] = @ \cup {p}]
    /\ UNCHANGED <<fifo, readers>>

Room(f) == Capacity - Len(fifo[f])

(* What a write of `data' puts in at once: all or nothing up to PIPE_BUF   *)
(* cells, as much as there is room for beyond.                             *)
Portion(f, data) == IF Len(data) <= PipeBuf
                    THEN (IF Len(data) <= Room(f) THEN Len(data) ELSE 0)
                    ELSE (IF Len(data) <= Room(f) THEN Len(data) ELSE Room(f))

(* A FIFO nobody will read kills its writer with SIGPIPE.                  *)
Broken(f) == readers[f] = {}

(* read returns what is there, up to n cells, or nothing at the end.       *)
Readable(f) == fifo[f] # <<>> \/ writers[f] = {}
Taken(f, n) == SubSeq(fifo[f], 1, IF n <= Len(fifo[f]) THEN n ELSE Len(fifo[f]))
Rest(f, n)  == SubSeq(fifo[f], n + 1, Len(fifo[f]))
-----------------------------------------------------------------------------
(* The parent.  Its steps wait while it is in the handler.                 *)

Parent(at) == pc["parent"] = at /\ ~handling

Fork ==
    /\ UNCHANGED <<fifoVars, dataVars, childVars>>
    /\ \/ /\ Parent("fork1")
          /\ pc' = [pc EXCEPT !["parent"] = "fork2", !["child1"] = "open1"]
       \/ /\ Parent("fork2")
          /\ pc' = [pc EXCEPT !["parent"] = "open1", !["child2"] = "open2"]

ParentOpens ==
    /\ \/ Parent("open1") /\ OpenToWrite("parent", "fifo1") /\ UNCHANGED left
       \/ Parent("open2") /\ OpenToWrite("parent", "fifo2") /\ left' = Array
    /\ UNCHANGED <<added, got, result, childVars>>

(* One call of write, at pc `at', which goes on at `after' with the next   *)
(* call's data.                                                            *)
Write(at, f, after, data) ==
    /\ Parent(at)
    /\ IF Broken(f)
       THEN Goto("parent", "killed") /\ UNCHANGED <<fifo, left>>
       ELSE LET n == Portion(f, left)
            IN  /\ n > 0
                /\ fifo' = [fifo EXCEPT ![f] = @ \o SubSeq(left, 1, n)]
                /\ IF n = Len(left) THEN Goto("parent", after) /\ left' = data
                   ELSE left' = SubSeq(left, n + 1, Len(left)) /\ UNCHANGED pc
    /\ UNCHANGED <<readers, writers, added, got, result, childVars>>

ParentWrites == \/ Write("write1", "fifo1", "write2", Array)
                \/ Write("write2", "fifo2", "writeword", Message)
                \/ Write("writeword", "fifo2", "close", <<>>)

ParentCloses ==
    /\ Parent("close")
    /\ Goto("parent", "loop")
    /\ writers' = [f \in Fifos |-> writers[f] \ {"parent"}]
    /\ UNCHANGED <<fifo, readers, dataVars, childVars>>

(* The loop that prints "Proceeding...": it ends at two.                   *)
ParentLeaves ==
    /\ Parent("loop") /\ child_counter = 2
    /\ Goto("parent", "end")
    /\ UNCHANGED <<fifoVars, dataVars, childVars>>

(* SIGCHLD: any number of ends may be behind one signal.  A write  *)
(* that has put in a part of its data returns, and the parent takes any    *)
(* count but -1 for success; all other calls are restarted.                *)
EnterHandler ==
    /\ pending /\ ~handling /\ pc["parent"] \notin {"end", "killed"}
    /\ pending' = FALSE /\ handling' = TRUE
    /\ IF pc["parent"] = "write2" /\ left # Array
       THEN Goto("parent", "writeword") /\ left' = Message
       ELSE UNCHANGED <<pc, left>>
    /\ UNCHANGED <<fifoVars, added, got, result, zombies, child_counter>>

(* Defect: one child is waited for per signal.                             *)
WaitsOnce(c) == /\ zombies' = zombies \ {c} /\ child_counter' = child_counter + 1
                /\ handling' = FALSE

(* One round of the waitpid loop.                                          *)
WaitsForAll(c) == /\ zombies' = zombies \ {c} /\ child_counter' = child_counter + 1
                  /\ UNCHANGED handling

Reap == /\ handling
        /\ \/ \E c \in zombies : WaitsForAll(c)
           \/ /\ zombies = {} /\ handling' = FALSE
              /\ UNCHANGED <<zombies, child_counter>>
        /\ UNCHANGED <<pc, fifoVars, dataVars, pending>>

ParentStep == Fork \/ ParentOpens \/ ParentWrites \/ ParentCloses \/ ParentLeaves
-----------------------------------------------------------------------------
(* The children.                                                           *)

(* exit, or death by a signal: all descriptors are closed and the parent   *)
(* is sent SIGCHLD.                                                        *)
Ends(c, how) ==
    /\ Goto(c, how)
    /\ readers' = [f \in Fifos |-> readers[f] \ {c}]
    /\ writers' = [f \in Fifos |-> writers[f] \ {c}]
    /\ zombies' = zombies \cup {c} /\ pending' = TRUE
    /\ UNCHANGED <<handling, child_counter>>

ChildOpens ==
    /\ \/ pc["child1"] = "open1" /\ OpenToRead("child1", "fifo1")
       \/ pc["child2"] = "open2" /\ OpenToRead("child2", "fifo2")
       \/ pc["child1"] = "open2" /\ OpenToWrite("child1", "fifo2")
    /\ UNCHANGED <<dataVars, childVars>>

(* Is p about to do something, rather than asleep, blocked or at an end?   *)
Busy(p) ==
    \/ pc[p] \in {"fork1", "fork2", "open1", "open2", "close"}
    \/ pc[p] = "write1" /\ (Broken("fifo1") \/ Portion("fifo1", left) > 0)
    \/ pc[p] \in {"write2", "writeword"} /\ (Broken("fifo2") \/ Portion("fifo2", left) > 0)
    \/ pc[p] = "write" /\ (Broken("fifo2") \/ Room("fifo2") >= IntSize)
    \/ p = "child1" /\ pc[p] = "read" /\ Readable("fifo1")

(* Defect: child 2 does not sleep the second time.                         *)
NoNap == TRUE

(* The sleeps.  When all is prompt, sleep(10) outlasts everything the      *)
(* parent, and a child not yet asleep, have to do; the children wake at    *)
(* about the same time, and sleep(2) outlasts what child 1 has left to do. *)
TenSeconds == prompt => /\ ~Busy("parent")
                        /\ \A c \in Children : pc[c] \notin {"unborn", "open1"}
                        /\ pc["child2"] # "open2"
TwoSeconds == prompt => ~Busy("child1") /\ pc["child1"] # "sleep"

Wake(c) ==
    /\ \/ pc[c] = "sleep" /\ TenSeconds /\ Goto(c, "read")
       \/ c = "child2" /\ pc[c] = "nap" /\ TwoSeconds /\ Goto(c, "readsum")
    /\ UNCHANGED <<fifoVars, dataVars, childVars>>

(* child1_fifo: one read, whatever it returns is added up.                 *)
ReadAndAdd ==
    /\ pc["child1"] = "read" /\ Readable("fifo1")
    /\ added' = (Taken("fifo1", IntSize * array_size) = Array)
    /\ fifo' = [fifo EXCEPT !["fifo1"] = Rest("fifo1", IntSize * array_size)]
    /\ readers' = [readers EXCEPT !["fifo1"] = @ \ {"child1"}]
    /\ Goto("child1", "open2")
    /\ UNCHANGED <<writers, left, got, result, childVars>>

SendSum ==
    /\ pc["child1"] = "write"
    /\ IF Broken("fifo2") THEN Ends("child1", "killed") /\ UNCHANGED fifo
       ELSE /\ Room("fifo2") >= IntSize
            /\ fifo' = [fifo EXCEPT !["fifo2"] = @ \o Sum(added)]
            /\ Ends("child1", "end")
    /\ UNCHANGED dataVars

(* child2_fifo: a read each for the array and for the word.                *)
Receive(at, n, after) ==
    /\ pc["child2"] = at /\ Readable("fifo2")
    /\ got' = Append(got, Taken("fifo2", n))
    /\ fifo' = [fifo EXCEPT !["fifo2"] = Rest("fifo2", n)]
    /\ Goto("child2", after)
    /\ UNCHANGED <<readers, writers, left, added, result, childVars>>

ReadArray == Receive("read", IntSize * array_size, "readword")
ReadWord  == Receive("readword", WordSize, "nap")

ReadSum ==
    /\ pc["child2"] = "readsum" /\ Readable("fifo2")
    /\ result' = IF got = <<Array, Message>> /\ Taken("fifo2", IntSize) = Sum(TRUE)
                 THEN "right" ELSE "wrong"
    /\ fifo' = [fifo EXCEPT !["fifo2"] = Rest("fifo2", IntSize)]
    /\ Ends("child2", "end")
    /\ UNCHANGED <<left, added, got>>

Child1Step == ReadAndAdd \/ SendSum
Child2Step == ReadArray \/ ReadWord \/ ReadSum

Next == /\ UNCHANGED <<array_size, prompt>>
        /\ \/ ParentStep \/ EnterHandler \/ Reap
           \/ ChildOpens \/ Child1Step \/ Child2Step
           \/ \E c \in Children : Wake(c)

(* Every process runs, the sleeps end and signals are delivered; no        *)
(* process goes round a loop that changes anything, so that no step can be *)
(* put off for ever.                                                       *)
Fairness == WF_vars(Next)

Spec == Init /\ [][Next]_vars /\ Fairness
-----------------------------------------------------------------------------
(* The array and the word fit into fifo2 together.                         *)
Fits == array_size \in {n \in 1..MaxSize : IntSize * n + WordSize <= Capacity}

(* The sleeps do their work (218, 274, 306): if no step takes longer than  *)
(* they allow for and the FIFO holds what is sent, child 2 prints the sum  *)
(* plus the product of the array, although three messages of two senders   *)
(* share one FIFO and each is read with a single call.                     *)
RightWhenPrompt == prompt /\ Fits /\ result # "none" => result = "right"

(* The parent's loop ends: however the ends of the children and SIGCHLD    *)
(* fall together, both are counted (67-80, 187-196).                       *)
ParentEnds == (prompt /\ Fits) ~> (pc["parent"] = "end")
=============================================================================
