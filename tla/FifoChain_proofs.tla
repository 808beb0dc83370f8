-------------------------- MODULE FifoChain_proofs --------------------------
(***************************************************************************)
(* The theorems about FifoChain, for arrays, words and FIFOs of any size:  *)
(* with the sleeps kept, the three messages in fifo2 are not mixed up; and *)
(* in any timing the parent counts every end of a child once.              *)
(***************************************************************************)
EXTENDS FifoChain, FiniteSetTheorems, SequenceTheorems, TLAPS

(* Where the processes are before the parent has closed its FIFOs: only    *)
(* the parent moves on, a child at most opens its first FIFO.              *)
Before1   == {"fork1", "fork2", "open1", "wait1"}
Before2   == Before1 \cup {"open2", "wait2"}
Setup     == Before2 \cup {"write1", "write2", "writeword", "close"}

P  == pc["parent"]
C1 == pc["child1"]
C2 == pc["child2"]

(* Each child is created once, opens its FIFO to read, and sleeps as soon  *)
(* as the parent has opened it too.                                        *)
Child1Born ==
    /\ C1 \in {"unborn", "open1", "wait1", "sleep"}
    /\ C1 = "unborn" <=> P = "fork1"
    /\ C1 = "sleep" <=> P \notin Before1
    /\ P = "wait1" => C1 = "open1"
    /\ readers["fifo1"] = IF C1 \in {"unborn", "open1"} THEN {} ELSE {"child1"}
    /\ writers["fifo1"] = IF P \in {"fork1", "fork2", "open1"} THEN {} ELSE {"parent"}

Child2Born ==
    /\ C2 \in {"unborn", "open2", "wait2", "sleep"}
    /\ C2 = "unborn" <=> P \in {"fork1", "fork2"}
    /\ C2 = "sleep" <=> P \notin Before2
    /\ P = "wait2" => C2 = "open2"
    /\ readers["fifo2"] = IF C2 \in {"unborn", "open2"} THEN {} ELSE {"child2"}
    /\ writers["fifo2"] = IF P \in Before1 \cup {"open2"} THEN {} ELSE {"parent"}

(* What the parent has written, and what it writes next: each call of      *)
(* write puts in all its data.                                             *)
Written1 == IF P \in {"write2", "writeword", "close"} THEN Array ELSE <<>>
Written2 == IF P = "close" THEN Array \o Message
            ELSE IF P = "writeword" THEN Array ELSE <<>>

Filling ==
    /\ P \in Setup
    /\ Child1Born /\ Child2Born
    /\ fifo["fifo1"] = Written1 /\ fifo["fifo2"] = Written2
    /\ P \in {"wait2", "write1", "write2"} => left = Array
    /\ P = "writeword" => left = Message
    /\ got = <<>> /\ result = "none"

(* Afterwards the array is in fifo1 until child 1 reads it, and what child *)
(* 2 has not read is in fifo2, followed by the sum once it is sent.        *)
Unread == CASE C2 \in {"sleep", "read"} -> Array \o Message
            [] C2 = "readword" -> Message
            [] OTHER -> <<>>
Sent   == IF C1 = "end" THEN Sum(TRUE) ELSE <<>>
ReadSoFar == CASE C2 \in {"sleep", "read"} -> <<>>
               [] C2 = "readword" -> <<Array>>
               [] OTHER -> <<Array, Message>>

Emptying ==
    /\ P \in {"loop", "end"}
    /\ C1 \in {"sleep", "read", "open2", "write", "end"}
    /\ C2 \in {"sleep", "read", "readword", "nap", "readsum", "end"}
    /\ IF C1 \in {"sleep", "read"} THEN fifo["fifo1"] = Array ELSE added
    /\ C2 \in {"readsum", "end"} => C1 = "end"
    /\ IF C2 = "end" THEN result = "right"
       ELSE /\ "child2" \in readers["fifo2"] /\ result = "none"
            /\ fifo["fifo2"] = Unread \o Sent
            /\ got = ReadSoFar

Typed ==
    /\ array_size \in 1..MaxSize /\ prompt \in BOOLEAN
    /\ DOMAIN pc = Procs
    /\ DOMAIN fifo = Fifos /\ DOMAIN readers = Fifos /\ DOMAIN writers = Fifos

IInv == Typed /\ (prompt /\ Fits => Filling \/ Emptying)
-----------------------------------------------------------------------------
(* The counting of the children's ends, whatever is prompt or fits.        *)

Ended == {c \in Children : pc[c] \in {"end", "killed"}}

(* Every child is created once, and each one that has ended has been       *)
(* counted or will be: the signal is pending or the handler is at work.    *)
Counting ==
    /\ DOMAIN pc = Procs
    /\ P = "fork1" => C1 = "unborn"
    /\ P \in {"fork1", "fork2"} => C2 = "unborn"
    /\ zombies \subseteq Ended /\ child_counter \in Nat
    /\ child_counter + Cardinality(zombies) = Cardinality(Ended)
    /\ zombies # {} => pending \/ handling
    /\ P = "end" => child_counter = 2

(* What follows: the branch for a third child (200-203) is dead code, a    *)
(* signal is never lost while a child is not waited for, and the parent    *)
(* leaves no zombie behind.                                                *)
EndsAreCounted ==
    /\ child_counter <= 2
    /\ zombies # {} => pending \/ handling
    /\ P = "end" => zombies = {} /\ Ended = Children
-----------------------------------------------------------------------------
(* Cells in sequence.                                                      *)

Kinds == {"array", "word", "sum", "garbage"}
Cell  == Kinds \X Nat

(* A message of n cells is n cells long.                                   *)
LEMMA CellsInSequence ==
    ASSUME NEW what \in Kinds, NEW n \in Nat
    PROVE  Cells(what, n) \in Seq(Cell) /\ Len(Cells(what, n)) = n
<1> DEFINE s == Cells(what, n)
<1>1. s \in [1..n -> Cell] /\ DOMAIN s = 1..n
  BY DEF Cells, Cell
<1>2. s \in Seq(Cell)
  BY <1>1, SeqDef
<1> HIDE DEF s
<1>3. Len(s) \in Nat /\ 1..Len(s) = 1..n
  BY <1>1, <1>2, LenProperties
<1>4. Len(s) = n
  <2>1. Len(s) # 0 => Len(s) \in 1..n
    BY <1>3
  <2>2. n # 0 => n \in 1..Len(s)
    BY <1>3
  <2> QED
    BY <1>3, <2>1, <2>2
<1> QED
  BY <1>2, <1>4 DEF s

(* The three messages, and the room there is for them.                     *)
LEMMA MessageSizes ==
    ASSUME Typed
    PROVE  /\ Array \in Seq(Cell) /\ Len(Array) = IntSize * array_size /\ Len(Array) \in Nat \ {0}
           /\ Message \in Seq(Cell) /\ Len(Message) = WordSize /\ WordSize \in Nat \ {0}
           /\ Sum(TRUE) \in Seq(Cell) /\ Len(Sum(TRUE)) = IntSize /\ IntSize \in Nat \ {0}
           /\ Capacity \in Nat /\ PipeBuf \in Nat /\ IntSize <= Capacity /\ WordSize <= Capacity
           /\ Fits => Len(Array) + Len(Message) <= Capacity
<1>1. /\ IntSize \in Nat \ {0} /\ WordSize \in Nat \ {0} /\ array_size \in Nat \ {0}
      /\ Capacity \in Nat /\ PipeBuf \in Nat /\ IntSize <= Capacity /\ WordSize <= Capacity
  BY SizeAssumption DEF Typed
<1>2. IntSize * array_size \in Nat \ {0}
  BY <1>1
<1>3. Array \in Seq(Cell) /\ Len(Array) = IntSize * array_size
  BY <1>2, CellsInSequence DEF Array, Kinds
<1>4. Message \in Seq(Cell) /\ Len(Message) = WordSize
  BY <1>1, CellsInSequence DEF Message, Kinds
<1>5. Sum(TRUE) \in Seq(Cell) /\ Len(Sum(TRUE)) = IntSize
  BY <1>1, CellsInSequence DEF Sum, Kinds
<1>6. Fits => IntSize * array_size + WordSize <= Capacity
  BY DEF Fits
<1> QED
  BY <1>1, <1>2, <1>3, <1>4, <1>5, <1>6

(* No message is empty.                                                    *)
LEMMA MessagesAreNotEmpty == Typed => Array # <<>> /\ Message # <<>> /\ Sum(TRUE) # <<>>
<1>1. Len(<<>>) = 0
  OBVIOUS
<1> QED
  BY <1>1, MessageSizes

(* A read for the length of the first message in a FIFO gets it, and       *)
(* leaves the others.                                                      *)
LEMMA ReadsFirst ==
    ASSUME NEW f \in Fifos, NEW s \in Seq(Cell), s # <<>>, NEW t \in Seq(Cell), fifo[f] = s \o t
    PROVE  Taken(f, Len(s)) = s /\ Rest(f, Len(s)) = t
<1>1. /\ Len(s) \in Nat \ {0} /\ Len(t) \in Nat /\ s \o t \in Seq(Cell)
      /\ Len(s \o t) = Len(s) + Len(t)
  BY EmptySeq, LenProperties, ConcatProperties
<1>2. SubSeq(s \o t, 1, Len(s)) = s
  <2>1. 1 \in 1..Len(s) /\ Len(s) \in 1..Len(s)
    BY <1>1
  <2> QED
    BY <2>1, SubSeqOfConcat1, SubSeqFull
<1>3. SubSeq(s \o t, Len(s) + 1, Len(s) + Len(t)) = t
  <2>1. CASE Len(t) = 0
    <3>1. t = <<>>
      BY <2>1, EmptySeq
    <3> QED
      BY <1>1, <2>1, <3>1, SubSeqEmpty
  <2>2. CASE Len(t) # 0
    <3>1. /\ Len(s) + 1 \in (Len(s) + 1)..(Len(s) + Len(t))
          /\ Len(s) + Len(t) \in (Len(s) + 1)..(Len(s) + Len(t))
          /\ (Len(s) + 1) - Len(s) = 1 /\ (Len(s) + Len(t)) - Len(s) = Len(t)
      BY <1>1, <2>2
    <3> QED
      BY <3>1, SubSeqOfConcat2, SubSeqFull
  <2> QED
    BY <2>1, <2>2
<1>4. Len(fifo[f]) = Len(s) + Len(t) /\ Len(s) <= Len(fifo[f])
  BY <1>1
<1>5. Taken(f, Len(s)) = SubSeq(fifo[f], 1, Len(s))
  BY <1>4 DEF Taken
<1>6. Rest(f, Len(s)) = SubSeq(fifo[f], Len(s) + 1, Len(s) + Len(t))
  BY <1>4 DEF Rest
<1> QED
  BY <1>2, <1>3, <1>5, <1>6

(* The same when nothing follows.                                          *)
LEMMA ReadsAll ==
    ASSUME NEW f \in Fifos, fifo[f] \in Seq(Cell), fifo[f] # <<>>
    PROVE  Taken(f, Len(fifo[f])) = fifo[f]
<1>1. fifo[f] = fifo[f] \o <<>> /\ <<>> \in Seq(Cell)
  BY ConcatEmptySeq, EmptySeq
<1> QED
  BY <1>1, ReadsFirst

(* Where there is room for all the data, write puts it in at once.         *)
LEMMA WritesAll ==
    ASSUME NEW f \in Fifos, NEW at, NEW after, NEW data, Write(at, f, after, data),
           ~Broken(f), left \in Seq(Cell), left # <<>>, fifo[f] \in Seq(Cell),
           Capacity \in Nat, Len(fifo[f]) + Len(left) <= Capacity
    PROVE  /\ P = at /\ Goto("parent", after) /\ left' = data
           /\ fifo' = [fifo EXCEPT ![f] = fifo[f] \o left]
           /\ UNCHANGED <<readers, writers, got, result>>
<1>1. Len(left) \in Nat \ {0} /\ Len(fifo[f]) \in Nat
  BY EmptySeq, LenProperties
<1>2. Portion(f, left) = Len(left) /\ SubSeq(left, 1, Len(left)) = left
  BY <1>1, SubSeqFull DEF Portion, Room
<1> QED
  BY <1>2 DEF Write, Parent, P

(* The second of two sequences appended.                                   *)
LEMMA AppendSecond == ASSUME NEW x, NEW y PROVE Append(<<x>>, y) = <<x, y>>
<1> DEFINE a == Append(<<x>>, y)
           b == <<x, y>>
<1>1. <<x>> \in Seq({x, y}) /\ y \in {x, y} /\ b \in Seq({x, y})
  OBVIOUS
<1>2. a \in Seq({x, y}) /\ Len(a) = 2 /\ a[1] = x /\ a[2] = y
  BY <1>1, AppendProperties
<1>3. Len(b) = 2 /\ b[1] = x /\ b[2] = y
  OBVIOUS
<1> HIDE DEF a, b
<1>4. Len(a) = Len(b) /\ \A i \in 1..Len(a) : a[i] = b[i]
  BY <1>2, <1>3
<1>5. a = b
  BY <1>1, <1>2, <1>4, SeqEqual
<1> QED
  BY <1>5 DEF a, b
-----------------------------------------------------------------------------
(* While the parent fills the FIFOs.                                       *)

(* The messages do not change.                                             *)
LEMMA SameMessages == UNCHANGED array_size => Array' = Array /\ Message' = Message
  BY DEF Array, Message, Cells

(* Only the parent is not asleep for long: a child that wakes finds it     *)
(* done.  Each of its writes can go on, for there is a reader and room.    *)
LEMMA ParentIsBusy ==
    ASSUME Typed, Fits, prompt, Filling
    PROVE  ~TenSeconds
<1> SUFFICES ASSUME TenSeconds PROVE FALSE
  OBVIOUS
<1>1. ~Busy("parent") /\ C1 \notin {"unborn", "open1"} /\ C2 \notin {"unborn", "open1", "open2"}
  BY DEF TenSeconds, Children, C1, C2
<1>2. P \in {"write1", "write2", "writeword"}
  BY <1>1 DEF Filling, Setup, Before2, Before1, Child1Born, Child2Born, Busy, P
<1>3. readers["fifo1"] = {"child1"} /\ readers["fifo2"] = {"child2"}
  BY <1>1, <1>2 DEF Filling, Child1Born, Child2Born
<1>4. /\ Len(<<>>) = 0 /\ Len(Array) \in Nat \ {0} /\ Len(Message) \in Nat \ {0}
      /\ Capacity \in Nat /\ PipeBuf \in Nat /\ Len(Array) + Len(Message) <= Capacity
  BY MessageSizes
<1>5. CASE P = "write1"
  <2>1. fifo["fifo1"] = <<>> /\ left = Array
    BY <1>5 DEF Filling, Written1
  <2>2. Portion("fifo1", left) > 0
    BY <1>4, <2>1 DEF Portion, Room
  <2> QED
    BY <1>1, <1>5, <2>2 DEF Busy, P
<1>6. CASE P = "write2"
  <2>1. fifo["fifo2"] = <<>> /\ left = Array
    BY <1>6 DEF Filling, Written2
  <2>2. Portion("fifo2", left) > 0
    BY <1>4, <2>1 DEF Portion, Room
  <2> QED
    BY <1>1, <1>6, <2>2 DEF Busy, P
<1>7. CASE P = "writeword"
  <2>1. fifo["fifo2"] = Array /\ left = Message
    BY <1>7 DEF Filling, Written2
  <2>2. Portion("fifo2", left) > 0
    BY <1>4, <2>1 DEF Portion, Room
  <2> QED
    BY <1>1, <1>7, <2>2 DEF Busy, P
<1> QED
  BY <1>2, <1>5, <1>6, <1>7

(* fork creates each child once.                                           *)
LEMMA FillingFork == ASSUME Typed, Filling, Fork, UNCHANGED <<array_size, prompt>> PROVE Filling'
<1>1. UNCHANGED <<array_size, fifo, readers, writers, left, got, result>>
  BY DEF Fork, fifoVars, dataVars
<1>2. CASE Parent("fork1") /\ pc' = [pc EXCEPT !["parent"] = "fork2", !["child1"] = "open1"]
  <2>1. P = "fork1" /\ P' = "fork2" /\ C1' = "open1" /\ C2' = C2
    BY <1>2 DEF Parent, P, C1, C2, Typed, Procs
  <2> QED
    BY <1>1, <2>1 DEF Filling, Child1Born, Child2Born, Written1, Written2, Setup, Before1, Before2
<1>3. CASE Parent("fork2") /\ pc' = [pc EXCEPT !["parent"] = "open1", !["child2"] = "open2"]
  <2>1. P = "fork2" /\ P' = "open1" /\ C1' = C1 /\ C2' = "open2"
    BY <1>3 DEF Parent, P, C1, C2, Typed, Procs
  <2> QED
    BY <1>1, <2>1 DEF Filling, Child1Born, Child2Born, Written1, Written2, Setup, Before1, Before2
<1> QED
  BY <1>2, <1>3 DEF Fork

(* open: the first of the two sides waits, the second frees it.            *)
LEMMA FillingParentOpens ==
    ASSUME Typed, Filling, ParentOpens, UNCHANGED <<array_size, prompt>>
    PROVE  Filling'
<1>1. UNCHANGED <<array_size, fifo, got, result>> /\ Array' = Array
  BY SameMessages DEF ParentOpens, OpenToWrite
<1>2. CASE Parent("open1") /\ OpenToWrite("parent", "fifo1") /\ UNCHANGED left
  <2>1. /\ P = "open1" /\ readers' = readers
        /\ writers["fifo1"] = {} /\ writers["fifo2"] = {}
        /\ writers' = [writers EXCEPT !["fifo1"] = @ \cup {"parent"}]
        /\ Open("parent", "fifo1", writers["fifo1"], readers["fifo1"])
    BY <1>2 DEF Parent, P, OpenToWrite, Filling, Child1Born, Child2Born, Before1
  <2>2. writers'["fifo1"] = {"parent"} /\ writers'["fifo2"] = {}
    BY <2>1 DEF Typed, Fifos
  <2>3. CASE C1 = "open1"
    <3>1. readers["fifo1"] = {} /\ pc' = [pc EXCEPT !["parent"] = "wait1"]
      BY <2>1, <2>3 DEF Filling, Child1Born, Open, Waiting
    <3>2. P' = "wait1" /\ C1' = C1 /\ C2' = C2
      BY <3>1 DEF P, C1, C2, Typed, Procs
    <3> QED
      BY <1>1, <1>2, <2>1, <2>2, <2>3, <3>2
         DEF Filling, Child1Born, Child2Born, Written1, Written2, Setup, Before1, Before2
  <2>4. CASE C1 = "wait1"
    <3>1. readers["fifo1"] = {"child1"}
      BY <2>1, <2>4 DEF Filling, Child1Born
    <3>2. P' = "open2" /\ C1' = "sleep" /\ C2' = C2
      BY <2>1, <2>4, <3>1 DEF Open, Opened, Waiting, P, C1, C2, Procs
    <3> QED
      BY <1>1, <1>2, <2>1, <2>2, <2>4, <3>1, <3>2
         DEF Filling, Child1Born, Child2Born, Written1, Written2, Setup, Before1, Before2
  <2> QED
    BY <2>1, <2>3, <2>4 DEF Filling, Child1Born, Before1
<1>3. CASE Parent("open2") /\ OpenToWrite("parent", "fifo2") /\ left' = Array
  <2>1. /\ P = "open2" /\ readers' = readers
        /\ writers["fifo1"] = {"parent"} /\ writers["fifo2"] = {}
        /\ writers' = [writers EXCEPT !["fifo2"] = @ \cup {"parent"}]
        /\ Open("parent", "fifo2", writers["fifo2"], readers["fifo2"])
    BY <1>3 DEF Parent, P, OpenToWrite, Filling, Child1Born, Child2Born, Before1
  <2>2. writers'["fifo1"] = {"parent"} /\ writers'["fifo2"] = {"parent"}
    BY <2>1 DEF Typed, Fifos
  <2>3. CASE C2 = "open2"
    <3>1. readers["fifo2"] = {} /\ pc' = [pc EXCEPT !["parent"] = "wait2"]
      BY <2>1, <2>3 DEF Filling, Child2Born, Open, Waiting
    <3>2. P' = "wait2" /\ C1' = C1 /\ C2' = C2
      BY <3>1 DEF P, C1, C2, Typed, Procs
    <3> QED
      BY <1>1, <1>3, <2>1, <2>2, <2>3, <3>2
         DEF Filling, Child1Born, Child2Born, Written1, Written2, Setup, Before1, Before2
  <2>4. CASE C2 = "wait2"
    <3>1. readers["fifo2"] = {"child2"}
      BY <2>1, <2>4 DEF Filling, Child2Born
    <3>2. P' = "write1" /\ C1' = C1 /\ C2' = "sleep"
      BY <2>1, <2>4, <3>1 DEF Open, Opened, Waiting, P, C1, C2, Procs
    <3> QED
      BY <1>1, <1>3, <2>1, <2>2, <2>4, <3>1, <3>2
         DEF Filling, Child1Born, Child2Born, Written1, Written2, Setup, Before1, Before2
  <2> QED
    BY <2>1, <2>3, <2>4 DEF Filling, Child2Born, Before1, Before2
<1> QED
  BY <1>2, <1>3 DEF ParentOpens

(* The same from the children's side.                                      *)
LEMMA FillingChildOpens ==
    ASSUME Typed, Filling, ChildOpens, UNCHANGED <<array_size, prompt>>
    PROVE  Filling'
<1>1. UNCHANGED <<array_size, fifo, left, got, result>> /\ Array' = Array
  BY SameMessages DEF ChildOpens, OpenToRead, OpenToWrite, dataVars
<1>2. CASE pc["child1"] = "open1" /\ OpenToRead("child1", "fifo1")
  <2>1. /\ C1 = "open1" /\ writers' = writers /\ readers["fifo1"] = {}
        /\ readers' = [readers EXCEPT !["fifo1"] = @ \cup {"child1"}]
        /\ Open("child1", "fifo1", readers["fifo1"], writers["fifo1"])
    BY <1>2 DEF C1, OpenToRead, Filling, Child1Born
  <2>2. readers'["fifo1"] = {"child1"} /\ readers'["fifo2"] = readers["fifo2"]
    BY <2>1 DEF Typed, Fifos
  <2>3. CASE P \in {"fork1", "fork2", "open1"}
    <3>1. writers["fifo1"] = {} /\ pc' = [pc EXCEPT !["child1"] = "wait1"]
      BY <2>1, <2>3 DEF Filling, Child1Born, Open, Waiting
    <3>2. P' = P /\ C1' = "wait1" /\ C2' = C2
      BY <3>1 DEF P, C1, C2, Typed, Procs
    <3> QED
      BY <1>1, <2>1, <2>2, <2>3, <3>2
         DEF Filling, Child1Born, Child2Born, Written1, Written2, Setup, Before1, Before2
  <2>4. CASE P = "wait1"
    <3>1. writers["fifo1"] = {"parent"}
      BY <2>1, <2>4 DEF Filling, Child1Born
    <3>2. P' = "open2" /\ C1' = "sleep" /\ C2' = C2
      BY <2>1, <2>4, <3>1 DEF Open, Opened, Waiting, P, C1, C2, Procs
    <3> QED
      BY <1>1, <2>1, <2>2, <2>4, <3>1, <3>2
         DEF Filling, Child1Born, Child2Born, Written1, Written2, Setup, Before1, Before2
  <2> QED
    BY <2>1, <2>3, <2>4 DEF Filling, Child1Born, Before1
<1>3. CASE pc["child2"] = "open2" /\ OpenToRead("child2", "fifo2")
  <2>1. /\ C2 = "open2" /\ writers' = writers /\ readers["fifo2"] = {}
        /\ readers' = [readers EXCEPT !["fifo2"] = @ \cup {"child2"}]
        /\ Open("child2", "fifo2", readers["fifo2"], writers["fifo2"])
    BY <1>3 DEF C2, OpenToRead, Filling, Child2Born
  <2>2. readers'["fifo2"] = {"child2"} /\ readers'["fifo1"] = readers["fifo1"]
    BY <2>1 DEF Typed, Fifos
  <2>3. CASE P \in Before1 \cup {"open2"}
    <3>1. writers["fifo2"] = {} /\ pc' = [pc EXCEPT !["child2"] = "wait2"]
      BY <2>1, <2>3 DEF Filling, Child2Born, Open, Waiting
    <3>2. P' = P /\ C1' = C1 /\ C2' = "wait2"
      BY <3>1 DEF P, C1, C2, Typed, Procs
    <3> QED
      BY <1>1, <2>1, <2>2, <2>3, <3>2
         DEF Filling, Child1Born, Child2Born, Written1, Written2, Setup, Before1, Before2
  <2>4. CASE P = "wait2"
    <3>1. writers["fifo2"] = {"parent"}
      BY <2>1, <2>4 DEF Filling, Child2Born, Before1
    <3>2. P' = "write1" /\ C1' = C1 /\ C2' = "sleep"
      BY <2>1, <2>4, <3>1 DEF Open, Opened, Waiting, P, C1, C2, Procs
    <3> QED
      BY <1>1, <2>1, <2>2, <2>4, <3>1, <3>2
         DEF Filling, Child1Born, Child2Born, Written1, Written2, Setup, Before1, Before2
  <2> QED
    BY <2>1, <2>3, <2>4 DEF Filling, Child2Born, Before1, Before2
<1>4. ~(pc["child1"] = "open2")
  BY DEF Filling, Child1Born, C1
<1> QED
  BY <1>2, <1>3, <1>4 DEF ChildOpens

(* Each write puts in its message whole, behind what is there.             *)
LEMMA FillingWrites ==
    ASSUME Typed, Fits, Filling, ParentWrites, UNCHANGED <<array_size, prompt>>
    PROVE  Filling'
<1>1. /\ Array \in Seq(Cell) /\ Message \in Seq(Cell) /\ Array # <<>> /\ Message # <<>>
      /\ <<>> \in Seq(Cell) /\ Len(<<>>) = 0 /\ Len(Array) \in Nat /\ Len(Message) \in Nat
      /\ Capacity \in Nat /\ Len(Array) + Len(Message) <= Capacity
      /\ <<>> \o Array = Array
  BY MessageSizes, MessagesAreNotEmpty, ConcatEmptySeq, EmptySeq
<1>2. Array' = Array /\ Message' = Message
  BY SameMessages
<1>3. ASSUME P \in {"write1", "write2", "writeword"}, NEW to \in {"write2", "writeword", "close"},
             Goto("parent", to)
      PROVE  P' = to /\ C1' = C1 /\ C2' = C2 /\ C1 = "sleep" /\ C2 = "sleep"
  BY <1>3 DEF Goto, P, C1, C2, Typed, Procs, Filling, Child1Born, Child2Born, Before1, Before2
<1>4. P \in {"write1", "write2", "writeword"} => ~Broken("fifo1") /\ ~Broken("fifo2")
  BY DEF Filling, Child1Born, Child2Born, Before1, Before2, Broken
<1>5. CASE Write("write1", "fifo1", "write2", Array)
  <2>1. P = "write1" /\ fifo["fifo1"] = <<>> /\ fifo["fifo2"] = <<>> /\ left = Array
    BY <1>5 DEF Write, Parent, P, Filling, Written1, Written2
  <2>2. /\ Goto("parent", "write2") /\ left' = Array
        /\ fifo' = [fifo EXCEPT !["fifo1"] = <<>> \o Array]
        /\ UNCHANGED <<readers, writers, got, result>>
    <3>1. /\ fifo["fifo1"] \in Seq(Cell) /\ left \in Seq(Cell) /\ left # <<>>
          /\ Len(fifo["fifo1"]) + Len(left) <= Capacity /\ ~Broken("fifo1")
      BY <1>1, <1>4, <2>1
    <3>2. /\ Goto("parent", "write2") /\ left' = Array
          /\ fifo' = [fifo EXCEPT !["fifo1"] = fifo["fifo1"] \o left]
          /\ UNCHANGED <<readers, writers, got, result>>
      BY <1>1, <1>5, <3>1, WritesAll DEF Fifos
    <3> QED
      BY <2>1, <3>2
  <2>3. P' = "write2" /\ C1' = C1 /\ C2' = C2 /\ C1 = "sleep" /\ C2 = "sleep"
    BY <1>3, <2>1, <2>2
  <2>4. fifo'["fifo1"] = Array /\ fifo'["fifo2"] = <<>>
    BY <1>1, <2>1, <2>2 DEF Typed, Fifos
  <2> QED
    BY <1>2, <2>1, <2>2, <2>3, <2>4
       DEF Filling, Child1Born, Child2Born, Written1, Written2, Setup, Before1, Before2
<1>6. CASE Write("write2", "fifo2", "writeword", Message)
  <2>1. P = "write2" /\ fifo["fifo1"] = Array /\ fifo["fifo2"] = <<>> /\ left = Array
    BY <1>6 DEF Write, Parent, P, Filling, Written1, Written2
  <2>2. /\ Goto("parent", "writeword") /\ left' = Message
        /\ fifo' = [fifo EXCEPT !["fifo2"] = <<>> \o Array]
        /\ UNCHANGED <<readers, writers, got, result>>
    <3>1. /\ fifo["fifo2"] \in Seq(Cell) /\ left \in Seq(Cell) /\ left # <<>>
          /\ Len(fifo["fifo2"]) + Len(left) <= Capacity /\ ~Broken("fifo2")
      BY <1>1, <1>4, <2>1
    <3>2. /\ Goto("parent", "writeword") /\ left' = Message
          /\ fifo' = [fifo EXCEPT !["fifo2"] = fifo["fifo2"] \o left]
          /\ UNCHANGED <<readers, writers, got, result>>
      BY <1>1, <1>6, <3>1, WritesAll DEF Fifos
    <3> QED
      BY <2>1, <3>2
  <2>3. P' = "writeword" /\ C1' = C1 /\ C2' = C2 /\ C1 = "sleep" /\ C2 = "sleep"
    BY <1>3, <2>1, <2>2
  <2>4. fifo'["fifo1"] = Array /\ fifo'["fifo2"] = Array
    BY <1>1, <2>1, <2>2 DEF Typed, Fifos
  <2> QED
    BY <1>2, <2>1, <2>2, <2>3, <2>4
       DEF Filling, Child1Born, Child2Born, Written1, Written2, Setup, Before1, Before2
<1>7. CASE Write("writeword", "fifo2", "close", <<>>)
  <2>1. P = "writeword" /\ fifo["fifo1"] = Array /\ fifo["fifo2"] = Array /\ left = Message
    BY <1>7 DEF Write, Parent, P, Filling, Written1, Written2
  <2>2. /\ Goto("parent", "close")
        /\ fifo' = [fifo EXCEPT !["fifo2"] = Array \o Message]
        /\ UNCHANGED <<readers, writers, got, result>>
    BY <1>1, <1>4, <1>7, <2>1, WritesAll DEF Fifos
  <2>3. P' = "close" /\ C1' = C1 /\ C2' = C2 /\ C1 = "sleep" /\ C2 = "sleep"
    BY <1>3, <2>1, <2>2
  <2>4. fifo'["fifo1"] = Array /\ fifo'["fifo2"] = Array \o Message
    BY <1>1, <2>1, <2>2 DEF Typed, Fifos
  <2> QED
    BY <1>2, <2>1, <2>2, <2>3, <2>4
       DEF Filling, Child1Born, Child2Born, Written1, Written2, Setup, Before1, Before2
<1> QED
  BY <1>5, <1>6, <1>7 DEF ParentWrites

(* When the parent closes its FIFOs, everything it sent is in them and     *)
(* both children are still asleep.                                         *)
LEMMA FillingCloses ==
    ASSUME Typed, Filling, ParentCloses, UNCHANGED <<array_size, prompt>>
    PROVE  Emptying'
<1>1. Array' = Array /\ Message' = Message
  BY SameMessages
<1>2. P = "close" /\ Goto("parent", "loop") /\ UNCHANGED <<fifo, readers, added, got, result>>
  BY DEF ParentCloses, Parent, P, dataVars
<1>3. P' = "loop" /\ C1' = C1 /\ C2' = C2 /\ C1 = "sleep" /\ C2 = "sleep"
      /\ readers["fifo2"] = {"child2"}
  BY <1>2 DEF Goto, P, C1, C2, Typed, Procs, Filling, Child1Born, Child2Born, Before1, Before2
<1>4. fifo["fifo1"] = Array /\ fifo["fifo2"] = Array \o Message /\ got = <<>> /\ result = "none"
  BY <1>2 DEF Filling, Written1, Written2
<1>5. (Array \o Message) \o <<>> = Array \o Message
  BY MessageSizes, ConcatProperties, ConcatEmptySeq
<1>6. Unread' = Array \o Message /\ Sent' = <<>> /\ ReadSoFar' = <<>>
  BY <1>1, <1>3 DEF Unread, Sent, ReadSoFar
<1> QED
  BY <1>1, <1>2, <1>3, <1>4, <1>5, <1>6 DEF Emptying

(* Every step from there.                                                  *)
LEMMA FillingStep ==
    ASSUME Typed, prompt, Fits, Filling, Next
    PROVE  Filling' \/ Emptying'
<1>1. UNCHANGED <<array_size, prompt>>
  BY DEF Next
<1>2. C1 \in {"unborn", "open1", "wait1", "sleep"} /\ C2 \in {"unborn", "open2", "wait2", "sleep"}
      /\ P \notin {"loop", "end"}
  BY DEF Filling, Child1Born, Child2Born, Setup, Before1, Before2
<1>3. CASE ParentStep
  BY <1>1, <1>2, <1>3, FillingFork, FillingParentOpens, FillingWrites, FillingCloses
     DEF ParentStep, ParentLeaves, Parent, P
<1>4. CASE EnterHandler \/ Reap
  <2>1. UNCHANGED <<pc, fifo, readers, writers, left, got, result>>
    BY <1>4 DEF EnterHandler, Reap, fifoVars, dataVars, Filling, P
  <2>2. P' = P /\ C1' = C1 /\ C2' = C2 /\ Array' = Array /\ Message' = Message
    BY <1>1, <2>1, SameMessages DEF P, C1, C2
  <2> QED
    BY <2>1, <2>2 DEF Filling, Child1Born, Child2Born, Written1, Written2
<1>5. CASE ChildOpens
  BY <1>1, <1>5, FillingChildOpens
<1>6. CASE Child1Step \/ Child2Step
  BY <1>2, <1>6 DEF Child1Step, Child2Step, ReadAndAdd, SendSum, ReadArray, ReadWord, ReadSum,
     Receive, C1, C2
<1>7. ASSUME NEW c \in Children, Wake(c) PROVE FALSE
  BY <1>2, <1>7, ParentIsBusy DEF Wake, C2
<1> QED
  BY <1>3, <1>4, <1>5, <1>6, <1>7 DEF Next
-----------------------------------------------------------------------------
(* While the children empty the FIFOs.                                     *)

(* What child 2 has not read, and the sum, are sequences of cells.         *)
LEMMA UnreadAndSent ==
    ASSUME Typed
    PROVE  /\ Unread \in Seq(Cell) /\ Sent \in Seq(Cell) /\ <<>> \in Seq(Cell)
           /\ \A s \in Seq(Cell) : s \o <<>> = s /\ <<>> \o s = s
<1>1. /\ Array \in Seq(Cell) /\ Message \in Seq(Cell) /\ Sum(TRUE) \in Seq(Cell)
      /\ <<>> \in Seq(Cell) /\ Array \o Message \in Seq(Cell)
  BY MessageSizes, EmptySeq, ConcatProperties
<1> QED
  BY <1>1, ConcatEmptySeq DEF Unread, Sent

(* A step that moves no child but from one sleep to its read changes       *)
(* nothing of what is to be read.                                          *)
LEMMA EmptyingKept ==
    ASSUME Typed, Emptying, UNCHANGED <<array_size, fifo, readers, added, got, result>>,
           C1' = C1 \/ (C1 = "sleep" /\ C1' = "read") \/ (C1 = "open2" /\ C1' = "write"),
           C2' = C2 \/ (C2 = "sleep" /\ C2' = "read")
                    \/ (C2 = "nap" /\ C2' = "readsum" /\ C1' = "end"),
           P' \in {"loop", "end"}
    PROVE  Emptying'
<1>1. Array' = Array /\ Message' = Message /\ Sum(TRUE)' = Sum(TRUE)
  BY SameMessages DEF Sum, Cells
<1>2. /\ C1 \in {"sleep", "read", "open2", "write", "end"}
      /\ C2 \in {"sleep", "read", "readword", "nap", "readsum", "end"}
  BY DEF Emptying
<1>3. C1' = "end" <=> C1 = "end"
  BY <1>2
<1>4. Sent' = Sent
  BY <1>1, <1>3 DEF Sent
<1>5. Unread' = Unread /\ ReadSoFar' = ReadSoFar
  BY <1>1, <1>2 DEF Unread, ReadSoFar
<1> QED
  BY <1>1, <1>2, <1>3, <1>4, <1>5 DEF Emptying

(* When child 2 wakes for the second time, child 1 has sent the sum: its   *)
(* open finds child 2, and its write finds room.                           *)
LEMMA SumIsThere ==
    ASSUME Typed, prompt, Emptying, C2 = "nap", TwoSeconds
    PROVE  C1 = "end"
<1>1. ~Busy("child1") /\ C1 # "sleep"
  BY DEF TwoSeconds, C1
<1>2. C1 # "read"
  <2> SUFFICES ASSUME C1 = "read" PROVE FALSE
    OBVIOUS
  <2>1. Readable("fifo1")
    BY MessagesAreNotEmpty DEF Emptying, Readable
  <2> QED
    BY <1>1, <2>1 DEF Busy, C1
<1>3. C1 # "open2"
  BY <1>1 DEF Busy, C1
<1>4. C1 # "write"
  <2> SUFFICES ASSUME C1 = "write" PROVE FALSE
    OBVIOUS
  <2>1. fifo["fifo2"] = <<>>
    BY UnreadAndSent DEF Emptying, Unread, Sent
  <2>2. Room("fifo2") >= IntSize
    <3>1. Len(fifo["fifo2"]) = 0
      BY <2>1
    <3> QED
      BY <3>1, MessageSizes DEF Room
  <2> QED
    BY <1>1, <2>2 DEF Busy, C1
<1> QED
  BY <1>1, <1>2, <1>3, <1>4 DEF Emptying

(* Waking up.                                                              *)
LEMMA EmptyingWake ==
    ASSUME Typed, prompt, Emptying, NEW c \in Children, Wake(c), UNCHANGED array_size
    PROVE  Emptying'
<1>1. UNCHANGED <<fifo, readers, added, got, result>>
  BY DEF Wake, fifoVars, dataVars
<1>2. CASE pc[c] = "sleep" /\ Goto(c, "read")
  <2>1. CASE c = "child1"
    <3>1. C1 = "sleep" /\ C1' = "read" /\ C2' = C2 /\ P' = P
      BY <1>2, <2>1 DEF Goto, P, C1, C2, Typed, Procs
    <3> QED
      BY <1>1, <3>1, EmptyingKept DEF Emptying
  <2>2. CASE c = "child2"
    <3>1. C2 = "sleep" /\ C2' = "read" /\ C1' = C1 /\ P' = P
      BY <1>2, <2>2 DEF Goto, P, C1, C2, Typed, Procs
    <3> QED
      BY <1>1, <3>1, EmptyingKept DEF Emptying
  <2> QED
    BY <2>1, <2>2 DEF Children
<1>3. CASE c = "child2" /\ pc[c] = "nap" /\ TwoSeconds /\ Goto(c, "readsum")
  <2>1. C2 = "nap" /\ C2' = "readsum" /\ C1' = C1 /\ P' = P
    BY <1>3 DEF Goto, P, C1, C2, Typed, Procs
  <2>2. C1 = "end"
    BY <1>3, <2>1, SumIsThere
  <2> QED
    BY <1>1, <2>1, <2>2, EmptyingKept DEF Emptying
<1> QED
  BY <1>2, <1>3 DEF Wake

(* Child 1 opens fifo2, which child 2 still reads.                         *)
LEMMA EmptyingOpens ==
    ASSUME Typed, Emptying, ChildOpens, UNCHANGED array_size
    PROVE  Emptying'
<1>1. C1 = "open2" /\ OpenToWrite("child1", "fifo2")
  BY DEF ChildOpens, Emptying, C1, C2
<1>2. UNCHANGED <<fifo, readers, added, got, result>>
  BY <1>1 DEF ChildOpens, OpenToWrite, dataVars
<1>3. C2 # "end" /\ "child2" \in readers["fifo2"]
  BY <1>1 DEF Emptying
<1>4. pc' = [q \in Procs |->
                 IF q = "child1" \/ (q \in readers["fifo2"] /\ pc[q] = "wait2")
                 THEN Opened(q, "fifo2") ELSE pc[q]]
  BY <1>1, <1>3 DEF OpenToWrite, Open, Waiting
<1>5. P # "wait2" /\ C2 # "wait2"
  BY DEF Emptying
<1>6. C1' = "write" /\ C2' = C2 /\ P' = P
  BY <1>4, <1>5 DEF Procs, Opened, P, C1, C2
<1> QED
  BY <1>1, <1>2, <1>6, EmptyingKept DEF Emptying

(* Child 1 adds up the array, all of it, and sends the sum.                *)
LEMMA EmptyingChild1 ==
    ASSUME Typed, Emptying, Child1Step, UNCHANGED array_size
    PROVE  Emptying'
<1>1. Array' = Array /\ Message' = Message /\ Sum(TRUE)' = Sum(TRUE)
  BY SameMessages DEF Sum, Cells
<1>2. CASE ReadAndAdd
  <2>1. C1 = "read" /\ fifo["fifo1"] = Array /\ Array \in Seq(Cell) /\ Array # <<>>
        /\ Len(Array) = IntSize * array_size
    BY <1>2, MessageSizes, MessagesAreNotEmpty DEF ReadAndAdd, Emptying, C1
  <2>2. Taken("fifo1", IntSize * array_size) = Array
    BY <2>1, ReadsAll DEF Fifos
  <2>3. added' = TRUE /\ UNCHANGED <<got, result>> /\ Goto("child1", "open2")
    BY <1>2, <2>2 DEF ReadAndAdd
  <2>4. C1' = "open2" /\ C2' = C2 /\ P' = P
    BY <2>3 DEF Goto, P, C1, C2, Typed, Procs
  <2>5. fifo'["fifo2"] = fifo["fifo2"] /\ readers'["fifo2"] = readers["fifo2"]
    BY <1>2 DEF ReadAndAdd, Typed, Fifos
  <2>6. C2 \notin {"readsum", "end"}
    BY <2>1 DEF Emptying
  <2>7. Unread' = Unread /\ Sent' = Sent /\ ReadSoFar' = ReadSoFar
    BY <1>1, <2>1, <2>4 DEF Unread, Sent, ReadSoFar
  <2> QED
    BY <2>3, <2>4, <2>5, <2>6, <2>7 DEF Emptying
<1>3. CASE SendSum
  <2>1. C1 = "write" /\ added /\ C2 \notin {"readsum", "end"} /\ "child2" \in readers["fifo2"]
    BY <1>3 DEF SendSum, Emptying, C1
  <2>2. /\ fifo' = [fifo EXCEPT !["fifo2"] = @ \o Sum(added)]
        /\ Goto("child1", "end") /\ readers' = [f \in Fifos |-> readers[f] \ {"child1"}]
        /\ UNCHANGED <<added, got, result>>
    BY <1>3, <2>1 DEF SendSum, Broken, Ends, dataVars
  <2>3. C1' = "end" /\ C2' = C2 /\ P' = P
    BY <2>2 DEF Goto, P, C1, C2, Typed, Procs
  <2>4. fifo["fifo2"] = Unread /\ Sent' = Sum(TRUE)
    BY <1>1, <2>1, <2>3, UnreadAndSent DEF Emptying, Sent
  <2>5. fifo'["fifo2"] = Unread \o Sum(TRUE) /\ "child2" \in readers'["fifo2"]
    <3>1. Sum(added) = Sum(TRUE)
      BY <2>1 DEF Sum
    <3> QED
      BY <2>1, <2>2, <2>4, <3>1 DEF Typed, Fifos
  <2>6. Unread' = Unread /\ ReadSoFar' = ReadSoFar
    BY <1>1, <2>3 DEF Unread, ReadSoFar
  <2> QED
    BY <2>1, <2>2, <2>3, <2>4, <2>5, <2>6 DEF Emptying
<1> QED
  BY <1>2, <1>3 DEF Child1Step

(* Child 2 reads the array, the word and the sum, each of them whole.      *)
LEMMA EmptyingChild2 ==
    ASSUME Typed, Emptying, Child2Step, UNCHANGED array_size
    PROVE  Emptying'
<1>1. Array' = Array /\ Message' = Message /\ Sum(TRUE)' = Sum(TRUE)
  BY SameMessages DEF Sum, Cells
<1>2. /\ Array \in Seq(Cell) /\ Message \in Seq(Cell) /\ Sum(TRUE) \in Seq(Cell) /\ Sent \in Seq(Cell)
      /\ Array # <<>> /\ Message # <<>> /\ Sum(TRUE) # <<>>
      /\ Len(Array) = IntSize * array_size /\ Len(Message) = WordSize /\ Len(Sum(TRUE)) = IntSize
      /\ Message \o Sent \in Seq(Cell)
  BY MessageSizes, MessagesAreNotEmpty, UnreadAndSent, ConcatProperties
<1>3. ASSUME NEW at, NEW n, NEW after, Receive(at, n, after)
      PROVE  /\ C2 = at /\ C2' = after /\ C1' = C1 /\ P' = P
             /\ got' = Append(got, Taken("fifo2", n))
             /\ fifo'["fifo1"] = fifo["fifo1"] /\ fifo'["fifo2"] = Rest("fifo2", n)
             /\ UNCHANGED <<readers, added, result>>
             /\ Sent' = Sent
  <2>1. C2 = at /\ C2' = after /\ C1' = C1 /\ P' = P
    BY <1>3 DEF Receive, Goto, P, C1, C2, Typed, Procs
  <2>2. fifo'["fifo1"] = fifo["fifo1"] /\ fifo'["fifo2"] = Rest("fifo2", n)
    BY <1>3 DEF Receive, Typed, Fifos
  <2>3. got' = Append(got, Taken("fifo2", n)) /\ UNCHANGED <<readers, added, result>>
    BY <1>3 DEF Receive
  <2>4. Sent' = Sent
    BY <1>1, <2>1 DEF Sent
  <2> QED
    BY <2>1, <2>2, <2>3, <2>4
<1>4. CASE ReadArray
  <2>1. /\ C2 = "read" /\ C2' = "readword" /\ C1' = C1 /\ P' = P
        /\ got' = Append(got, Taken("fifo2", Len(Array)))
        /\ fifo'["fifo1"] = fifo["fifo1"] /\ fifo'["fifo2"] = Rest("fifo2", Len(Array))
        /\ UNCHANGED <<readers, added, result>> /\ Sent' = Sent
    BY <1>2, <1>3, <1>4 DEF ReadArray
  <2>2. fifo["fifo2"] = Array \o (Message \o Sent) /\ got = <<>>
    <3>1. fifo["fifo2"] = Unread \o Sent /\ got = ReadSoFar
      BY <2>1 DEF Emptying
    <3>2. Unread = Array \o Message /\ ReadSoFar = <<>>
      BY <2>1 DEF Unread, ReadSoFar
    <3>3. (Array \o Message) \o Sent = Array \o (Message \o Sent)
      <4>1. Array \in Seq(Cell) /\ Message \in Seq(Cell) /\ Sent \in Seq(Cell)
        BY <1>2, Zenon
      <4> QED
        BY <4>1, ConcatAssociative
    <3> QED
      BY <3>1, <3>2, <3>3
  <2>3. Taken("fifo2", Len(Array)) = Array /\ Rest("fifo2", Len(Array)) = Message \o Sent
    BY <1>2, <2>2, ReadsFirst DEF Fifos
  <2>4. Unread' = Message /\ ReadSoFar' = <<Array>>
    BY <1>1, <2>1 DEF Unread, ReadSoFar
  <2>5. got' = <<Array>>
    BY <2>1, <2>2, <2>3
  <2> QED
    BY <1>1, <2>1, <2>3, <2>4, <2>5 DEF Emptying
<1>5. CASE ReadWord
  <2>1. /\ C2 = "readword" /\ C2' = "nap" /\ C1' = C1 /\ P' = P
        /\ got' = Append(got, Taken("fifo2", Len(Message)))
        /\ fifo'["fifo1"] = fifo["fifo1"] /\ fifo'["fifo2"] = Rest("fifo2", Len(Message))
        /\ UNCHANGED <<readers, added, result>> /\ Sent' = Sent
    BY <1>2, <1>3, <1>5 DEF ReadWord
  <2>2. fifo["fifo2"] = Message \o Sent /\ got = <<Array>>
    BY <2>1 DEF Emptying, Unread, ReadSoFar
  <2>3. Taken("fifo2", Len(Message)) = Message /\ Rest("fifo2", Len(Message)) = Sent
    BY <1>2, <2>2, ReadsFirst DEF Fifos
  <2>4. Unread' = <<>> /\ ReadSoFar' = <<Array, Message>>
    BY <1>1, <2>1 DEF Unread, ReadSoFar
  <2>5. got' = <<Array, Message>>
    <3>1. got' = Append(<<Array>>, Message)
      BY <2>1, <2>2, <2>3
    <3> QED
      BY <3>1, AppendSecond
  <2>6. Sent = <<>> \o Sent
    BY UnreadAndSent
  <2> QED
    BY <1>1, <2>1, <2>3, <2>4, <2>5, <2>6 DEF Emptying
<1>6. CASE ReadSum
  <2>1. /\ C2 = "readsum" /\ C1 = "end" /\ Goto("child2", "end")
        /\ fifo' = [fifo EXCEPT !["fifo2"] = Rest("fifo2", IntSize)] /\ added' = added
    BY <1>6 DEF ReadSum, Ends, Emptying, C2
  <2>2. C2' = "end" /\ C1' = C1 /\ P' = P
    BY <2>1 DEF Goto, P, C1, C2, Typed, Procs
  <2>3. fifo["fifo2"] = Sum(TRUE) /\ got = <<Array, Message>>
    BY <1>2, <2>1, UnreadAndSent DEF Emptying, Unread, Sent, ReadSoFar
  <2>4. Taken("fifo2", IntSize) = Sum(TRUE)
    BY <1>2, <2>3, ReadsAll DEF Fifos
  <2>5. result' = "right"
    BY <1>6, <2>3, <2>4 DEF ReadSum
  <2> QED
    BY <2>1, <2>2, <2>5 DEF Emptying
<1> QED
  BY <1>4, <1>5, <1>6 DEF Child2Step

(* Every step from there.                                                  *)
LEMMA EmptyingStep ==
    ASSUME Typed, prompt, Emptying, Next
    PROVE  Emptying'
<1>1. array_size' = array_size
  BY DEF Next
<1>2. CASE ParentStep
  <2>1. ParentLeaves
    BY <1>2 DEF ParentStep, Fork, ParentOpens, ParentWrites, Write, ParentCloses, Parent, Emptying, P
  <2>2. UNCHANGED <<fifo, readers, added, got, result>> /\ Goto("parent", "end")
    BY <2>1 DEF ParentLeaves, fifoVars, dataVars
  <2>3. C1' = C1 /\ C2' = C2 /\ P' = "end"
    BY <2>2 DEF Goto, P, C1, C2, Typed, Procs
  <2> QED
    BY <1>1, <2>2, <2>3, EmptyingKept
<1>3. CASE EnterHandler \/ Reap
  <2>1. UNCHANGED <<pc, fifo, readers, added, got, result>>
    BY <1>3 DEF EnterHandler, Reap, fifoVars, dataVars, Emptying, P
  <2>2. C1' = C1 /\ C2' = C2 /\ P' = P
    BY <2>1 DEF P, C1, C2
  <2> QED
    BY <1>1, <2>1, <2>2, EmptyingKept DEF Emptying
<1> QED
  BY <1>1, <1>2, <1>3, EmptyingOpens, EmptyingChild1, EmptyingChild2, EmptyingWake DEF Next
-----------------------------------------------------------------------------
(* The type is kept by every step.                                         *)
LEMMA TypeStep == Typed /\ [Next]_vars => Typed'
<1> SUFFICES ASSUME Typed, [Next]_vars PROVE Typed'
  OBVIOUS
<1>1. UNCHANGED <<array_size, prompt>>
  BY DEF Next, vars
<1>2. DOMAIN pc' = Procs
  BY DEF Typed, Next, vars, ParentStep, Fork, ParentOpens, ParentWrites, Write, ParentCloses, ParentLeaves,
     EnterHandler, Reap, ChildOpens, Child1Step, Child2Step, ReadAndAdd, SendSum, Ends, ReadArray, ReadWord,
     ReadSum, Receive, Wake, Goto, OpenToRead, OpenToWrite, Open
<1>3. DOMAIN fifo' = Fifos
  BY DEF Typed, Next, vars, ParentStep, Fork, ParentOpens, ParentWrites, Write, ParentCloses, ParentLeaves,
     EnterHandler, Reap, ChildOpens, Child1Step, Child2Step, ReadAndAdd, SendSum, ReadArray, ReadWord,
     ReadSum, Receive, Wake, OpenToRead, OpenToWrite, fifoVars
<1>4. DOMAIN readers' = Fifos /\ DOMAIN writers' = Fifos
  BY DEF Typed, Next, vars, ParentStep, Fork, ParentOpens, ParentWrites, Write, ParentCloses, ParentLeaves,
     EnterHandler, Reap, ChildOpens, Child1Step, Child2Step, ReadAndAdd, SendSum, Ends, ReadArray, ReadWord,
     ReadSum, Receive, Wake, OpenToRead, OpenToWrite, fifoVars
<1> QED
  BY <1>1, <1>2, <1>3, <1>4 DEF Typed

(* The beginning: nobody but the parent is there.                          *)
LEMMA InitInv == Init => IInv
<1> SUFFICES ASSUME Init PROVE IInv
  OBVIOUS
<1>1. Typed
  BY DEF Init, Typed
<1>2. P = "fork1" /\ C1 = "unborn" /\ C2 = "unborn"
  BY DEF Init, P, C1, C2, Procs
<1>3. /\ fifo["fifo1"] = <<>> /\ fifo["fifo2"] = <<>>
      /\ readers["fifo1"] = {} /\ readers["fifo2"] = {}
      /\ writers["fifo1"] = {} /\ writers["fifo2"] = {}
      /\ got = <<>> /\ result = "none"
  BY DEF Init, Fifos
<1>4. Filling
  BY <1>2, <1>3 DEF Filling, Child1Born, Child2Born, Written1, Written2, Setup, Before1, Before2
<1> QED
  BY <1>1, <1>4 DEF IInv

(* A step changes neither the array's length nor whether all is prompt.    *)
LEMMA NextInv == IInv /\ [Next]_vars => IInv'
<1> SUFFICES ASSUME IInv, [Next]_vars PROVE IInv'
  OBVIOUS
<1>1. Typed' /\ prompt' = prompt /\ Fits' = Fits
  BY TypeStep DEF IInv, Next, vars, Fits
<1>2. CASE UNCHANGED vars
  <2>1. /\ UNCHANGED <<fifo, readers, writers, left, added, got, result>>
        /\ UNCHANGED array_size
    BY <1>2 DEF vars, fifoVars, dataVars
  <2>2. P' = P /\ C1' = C1 /\ C2' = C2
    BY <1>2 DEF vars, P, C1, C2
  <2>3. Array' = Array /\ Message' = Message
    BY <2>1, SameMessages
  <2>4. Filling => Filling'
    BY <2>1, <2>2, <2>3 DEF Filling, Child1Born, Child2Born, Written1, Written2
  <2>5. Emptying => Emptying'
    BY <2>1, <2>2, EmptyingKept DEF IInv, Emptying
  <2> QED
    BY <1>1, <2>4, <2>5 DEF IInv
<1>3. CASE Next
  BY <1>1, <1>3, FillingStep, EmptyingStep DEF IInv
<1> QED
  BY <1>2, <1>3

(* For arrays, words and FIFOs of any size, the parent fills the FIFOs     *)
(* before a child wakes, and the children empty them in order, if the      *)
(* sleeps are kept and the messages fit (main.c 121-204, 218-310).         *)
THEOREM Invariance == Spec => []IInv
  BY InitInv, NextInv, PTL DEF Spec

(* With the sleeps kept and the messages fitting, child 2 prints the right *)
(* result, although three messages of two senders go through one FIFO.     *)
THEOREM PromptIsRight == Spec => []RightWhenPrompt
<1>1. IInv => RightWhenPrompt
  BY DEF IInv, RightWhenPrompt, Filling, Emptying
<1> QED
  BY Invariance, <1>1, PTL
-----------------------------------------------------------------------------
(* The counting.                                                           *)

(* At most two children end, and only finitely many are not waited for.    *)
LEMMA EndedIsSmall ==
    /\ IsFiniteSet(Ended) /\ Cardinality(Ended) \in Nat /\ Cardinality(Ended) <= 2
    /\ Cardinality(Ended) = 2 => Ended = Children
    /\ \A Z \in SUBSET Ended : IsFiniteSet(Z) /\ Cardinality(Z) \in Nat
<1>1. Children = ({} \cup {"child1"}) \cup {"child2"} /\ "child2" \notin {} \cup {"child1"}
  BY DEF Children
<1>2. IsFiniteSet({} \cup {"child1"}) /\ Cardinality({} \cup {"child1"}) = 1
  <2>1. IsFiniteSet({}) /\ Cardinality({}) = 0
    BY FS_EmptySet
  <2>2. "child1" \notin {}
    OBVIOUS
  <2>3. /\ IsFiniteSet({} \cup {"child1"})
        /\ Cardinality({} \cup {"child1"}) = IF "child1" \in {} THEN Cardinality({}) ELSE Cardinality({}) + 1
    BY <2>1, FS_AddElement, Zenon
  <2> QED
    BY <2>1, <2>2, <2>3
<1>3. IsFiniteSet(Children) /\ Cardinality(Children) = 2
  BY <1>1, <1>2, FS_AddElement
<1>4. Ended \subseteq Children
  BY DEF Ended
<1>5. /\ IsFiniteSet(Ended) /\ Cardinality(Ended) <= Cardinality(Children)
      /\ Cardinality(Ended) = Cardinality(Children) => Ended = Children
  BY <1>3, <1>4, FS_Subset
<1>6. ASSUME NEW Z \in SUBSET Ended PROVE IsFiniteSet(Z) /\ Cardinality(Z) \in Nat
  <2>1. IsFiniteSet(Z)
    BY <1>5, FS_Subset
  <2> QED
    BY <2>1, FS_CardinalityType
<1> QED
  BY <1>3, <1>5, <1>6, FS_CardinalityType

(* A step that ends no child, and counts none.                             *)
LEMMA CountingKept ==
    ASSUME Counting, UNCHANGED <<zombies, child_counter>>, Ended' = Ended, DOMAIN pc' = Procs,
           zombies # {} => pending' \/ handling',
           P' = "fork1" => C1' = "unborn", P' \in {"fork1", "fork2"} => C2' = "unborn",
           P' = "end" => child_counter = 2
    PROVE  Counting'
  BY DEF Counting

(* The parent creates the children, and leaves when it has counted two.    *)
LEMMA ParentCounts ==
    ASSUME Counting, ParentStep
    PROVE  Counting'
<1>1. UNCHANGED <<zombies, pending, handling, child_counter>>
  BY DEF ParentStep, Fork, ParentOpens, ParentWrites, Write, ParentCloses, ParentLeaves, childVars
<1>2. DOMAIN pc = Procs /\ (P = "fork1" => C1 = "unborn")
      /\ (P \in {"fork1", "fork2"} => C2 = "unborn")
      /\ (zombies # {} => pending \/ handling)
  BY DEF Counting
<1>3. CASE Fork
  <2>1. DOMAIN pc' = Procs /\ P' \notin {"fork1", "end"} /\ (P' = "fork2" => C2' = "unborn")
    BY <1>2, <1>3 DEF Fork, Parent, P, C1, C2, Procs
  <2>2. (C1' = C1 \/ (C1 = "unborn" /\ C1' = "open1")) /\ (C2' = C2 \/ (C2 = "unborn" /\ C2' = "open2"))
    BY <1>2, <1>3 DEF Fork, Parent, P, C1, C2, Procs
  <2>3. Ended' = Ended
    BY <2>2 DEF Ended, Children, C1, C2
  <2> QED
    BY <1>1, <1>2, <2>1, <2>3, CountingKept
<1>4. CASE ParentOpens
  <2>1. DOMAIN pc' = Procs /\ P' \in {"wait1", "wait2", "open2", "write1"}
    BY <1>2, <1>4 DEF ParentOpens, OpenToWrite, Open, Opened, Waiting, P, Procs
  <2>2. /\ C1' = C1 \/ (C1 \in {"wait1", "wait2"} /\ C1' \in {"sleep", "write"})
        /\ C2' = C2 \/ (C2 \in {"wait1", "wait2"} /\ C2' \in {"sleep", "write"})
    BY <1>2, <1>4 DEF ParentOpens, OpenToWrite, Open, Opened, Waiting, C1, C2, Procs
  <2>3. Ended' = Ended
    BY <2>2 DEF Ended, Children, C1, C2
  <2> QED
    BY <1>1, <1>2, <2>1, <2>3, CountingKept
<1>5. CASE ParentWrites
  <2>1. pc' = pc \/ \E at \in {"killed", "write2", "writeword", "close"} : Goto("parent", at)
    BY <1>5 DEF ParentWrites, Write
  <2>2. P \in {"write1", "write2", "writeword"}
    BY <1>5 DEF ParentWrites, Write, Parent, P
  <2>3. DOMAIN pc' = Procs /\ C1' = C1 /\ C2' = C2 /\ P' \notin {"fork1", "fork2", "end"}
    BY <1>2, <2>1, <2>2 DEF Goto, P, C1, C2, Procs
  <2>4. Ended' = Ended
    BY <2>3 DEF Ended, Children, C1, C2
  <2> QED
    BY <1>1, <1>2, <2>3, <2>4, CountingKept
<1>6. CASE ParentCloses \/ ParentLeaves
  <2>1. DOMAIN pc' = Procs /\ C1' = C1 /\ C2' = C2 /\ P' \in {"loop", "end"}
        /\ (P' = "end" => child_counter = 2)
    BY <1>2, <1>6 DEF ParentCloses, ParentLeaves, Goto, P, C1, C2, Procs
  <2>2. Ended' = Ended
    BY <2>1 DEF Ended, Children, C1, C2
  <2> QED
    BY <1>1, <1>2, <2>1, <2>2, CountingKept
<1> QED
  BY <1>3, <1>4, <1>5, <1>6 DEF ParentStep

(* A child that goes on, but not to its end.                               *)
LEMMA ChildGoesOn ==
    ASSUME Counting, ChildOpens \/ ReadAndAdd \/ ReadArray \/ ReadWord \/ \E c \in Children : Wake(c)
    PROVE  Counting'
<1>1. UNCHANGED <<zombies, pending, handling, child_counter>>
  BY DEF ChildOpens, ReadAndAdd, ReadArray, ReadWord, Receive, Wake, childVars
<1>2. DOMAIN pc = Procs
  BY DEF Counting
<1>3. /\ DOMAIN pc' = Procs
      /\ P' = P \/ (P \in {"wait1", "wait2"} /\ P' \in {"sleep", "write", "write1", "open2"})
      /\ C1' = C1 \/ (C1 \notin {"unborn", "end", "killed"} /\ C1' \notin {"end", "killed"})
      /\ C2' = C2 \/ (C2 \notin {"unborn", "end", "killed"} /\ C2' \notin {"end", "killed"})
  <2>1. CASE ChildOpens
    BY <1>2, <2>1 DEF ChildOpens, OpenToRead, OpenToWrite, Open, Opened, Waiting, P, C1, C2, Procs
  <2>2. CASE ReadAndAdd \/ ReadArray \/ ReadWord \/ \E c \in Children : Wake(c)
    BY <1>2, <2>2 DEF ReadAndAdd, ReadArray, ReadWord, Receive, Wake, Goto, P, C1, C2, Procs, Children
  <2> QED
    BY <2>1, <2>2
<1>4. Ended' = Ended
  BY <1>3 DEF Ended, Children, C1, C2
<1> QED
  BY <1>1, <1>3, <1>4, CountingKept DEF Counting

(* A child that ends is one more to be counted, and SIGCHLD is pending.    *)
LEMMA ChildEnds ==
    ASSUME Counting, NEW c \in Children, NEW how \in {"end", "killed"}, Ends(c, how),
           pc[c] \notin {"unborn", "end", "killed"}
    PROVE  Counting'
<1>1. /\ DOMAIN pc = Procs /\ zombies \subseteq Ended
      /\ child_counter + Cardinality(zombies) = Cardinality(Ended) /\ child_counter \in Nat
  BY DEF Counting
<1>2. zombies' = zombies \cup {c} /\ pending' = TRUE /\ child_counter' = child_counter
  BY DEF Ends
<1>3. pc' = [pc EXCEPT ![c] = how]
  BY DEF Ends, Goto
<1>4. c \notin Ended /\ c \notin zombies /\ Ended' = Ended \cup {c}
  BY <1>1, <1>3 DEF Ended, Children, Procs
<1>5. Cardinality(Ended') = Cardinality(Ended) + 1 /\ Cardinality(zombies') = Cardinality(zombies) + 1
  BY <1>1, <1>2, <1>4, EndedIsSmall, FS_AddElement
<1>6. Cardinality(Ended) \in Nat /\ Cardinality(zombies) \in Nat
  BY <1>1, EndedIsSmall
<1>7. child_counter' + Cardinality(zombies') = Cardinality(Ended')
  BY <1>1, <1>2, <1>5, <1>6
<1>8. /\ DOMAIN pc' = Procs /\ P' = P
      /\ C1' = C1 \/ C1 # "unborn"
      /\ C2' = C2 \/ C2 # "unborn"
  BY <1>1, <1>3 DEF P, C1, C2, Children, Procs
<1> QED
  BY <1>1, <1>2, <1>4, <1>7, <1>8 DEF Counting

(* The handler: the signal is taken, and all children that have ended are  *)
(* waited for before it is left.                                           *)
LEMMA HandlerCounts ==
    ASSUME Counting, EnterHandler \/ Reap
    PROVE  Counting'
<1>1. /\ DOMAIN pc = Procs /\ zombies \subseteq Ended
      /\ child_counter + Cardinality(zombies) = Cardinality(Ended) /\ child_counter \in Nat
      /\ (P = "fork1" => C1 = "unborn") /\ (P \in {"fork1", "fork2"} => C2 = "unborn")
      /\ (P = "end" => child_counter = 2)
  BY DEF Counting
<1>2. CASE EnterHandler
  <2>1. UNCHANGED <<zombies, child_counter>> /\ handling'
    BY <1>2 DEF EnterHandler
  <2>2. pc' = pc \/ (P = "write2" /\ Goto("parent", "writeword"))
    BY <1>2 DEF EnterHandler, P
  <2>3. DOMAIN pc' = Procs /\ C1' = C1 /\ C2' = C2 /\ (P' = P \/ P' = "writeword")
    BY <1>1, <2>2 DEF Goto, P, C1, C2, Procs
  <2>4. Ended' = Ended
    BY <2>3 DEF Ended, Children, C1, C2
  <2> QED
    BY <1>1, <2>1, <2>3, <2>4, CountingKept
<1>3. CASE Reap
  <2>1. pc' = pc /\ pending' = pending /\ handling
    BY <1>3 DEF Reap
  <2>2. P' = P /\ C1' = C1 /\ C2' = C2 /\ Ended' = Ended
    BY <2>1 DEF P, C1, C2, Ended
  <2>3. CASE zombies = {} /\ handling' = FALSE /\ UNCHANGED <<zombies, child_counter>>
    BY <1>1, <2>1, <2>2, <2>3, CountingKept
  <2>4. ASSUME NEW c \in zombies, WaitsForAll(c) PROVE Counting'
    <3>1. zombies' = zombies \ {c} /\ child_counter' = child_counter + 1 /\ handling'
      BY <2>1, <2>4 DEF WaitsForAll
    <3>2. Cardinality(zombies') = Cardinality(zombies) - 1 /\ Cardinality(zombies) \in Nat
      BY <1>1, <2>4, <3>1, EndedIsSmall, FS_RemoveElement
    <3>3. Cardinality(zombies) > 0
      BY <1>1, <2>4, EndedIsSmall, FS_EmptySet
    <3>4. child_counter' + Cardinality(zombies') = Cardinality(Ended') /\ child_counter' \in Nat
      BY <1>1, <2>2, <3>1, <3>2, EndedIsSmall
    <3>5. P # "end"
      BY <1>1, <3>2, <3>3, EndedIsSmall
    <3> QED
      BY <1>1, <2>1, <2>2, <3>1, <3>4, <3>5 DEF Counting
  <2> QED
    BY <1>3, <2>3, <2>4 DEF Reap
<1> QED
  BY <1>2, <1>3

(* Every step keeps the count.                                             *)
LEMMA CountingStep == Counting /\ [Next]_vars => Counting'
<1> SUFFICES ASSUME Counting, [Next]_vars PROVE Counting'
  OBVIOUS
<1>1. CASE SendSum
  <2>1. PICK how \in {"end", "killed"} : Ends("child1", how)
    BY <1>1 DEF SendSum
  <2>2. "child1" \in Children /\ pc["child1"] \notin {"unborn", "end", "killed"}
    BY <1>1 DEF SendSum, Children
  <2> QED
    BY <2>1, <2>2, ChildEnds
<1>2. CASE ReadSum
  <2>1. Ends("child2", "end")
    BY <1>2 DEF ReadSum
  <2>2. "child2" \in Children /\ pc["child2"] \notin {"unborn", "end", "killed"}
    BY <1>2 DEF ReadSum, Children
  <2> QED
    BY <2>1, <2>2, ChildEnds
<1>3. CASE UNCHANGED vars
  BY <1>3 DEF vars, childVars, Counting, Ended, P, C1, C2
<1>4. CASE Next
  BY <1>1, <1>2, <1>4, ParentCounts, HandlerCounts, ChildGoesOn DEF Next, Child1Step, Child2Step
<1> QED
  BY <1>3, <1>4

(* However the ends of the children fall, prompt or not and whatever fits: *)
(* no end is lost, although one SIGCHLD may stand for two (main.c 67-80),  *)
(* none is counted twice, and the parent leaves its loop (187-204) only    *)
(* after both children have ended and been waited for.                     *)
THEOREM EveryEndIsCounted == Spec => []EndsAreCounted
<1>1. Init => Counting
  <2> SUFFICES ASSUME Init PROVE Counting
    OBVIOUS
  <2>1. DOMAIN pc = Procs /\ P = "fork1" /\ C1 = "unborn" /\ C2 = "unborn"
    BY DEF Init, P, C1, C2, Procs
  <2>2. Ended = {} /\ zombies = {} /\ child_counter = 0
    BY <2>1 DEF Init, Ended, Children, C1, C2
  <2> QED
    BY <2>1, <2>2, FS_EmptySet DEF Counting
<1>2. Counting => EndsAreCounted
  <2> SUFFICES ASSUME Counting PROVE EndsAreCounted
    OBVIOUS
  <2>1. /\ Cardinality(zombies) \in Nat /\ IsFiniteSet(zombies)
        /\ Cardinality(Ended) \in Nat /\ Cardinality(Ended) <= 2
        /\ child_counter + Cardinality(zombies) = Cardinality(Ended) /\ child_counter \in Nat
    BY EndedIsSmall DEF Counting
  <2>2. child_counter <= 2
    BY <2>1
  <2>3. P = "end" => Cardinality(zombies) = 0 /\ Cardinality(Ended) = 2
    BY <2>1 DEF Counting
  <2> QED
    BY <2>1, <2>2, <2>3, EndedIsSmall, FS_EmptySet DEF Counting, EndsAreCounted
<1> QED
  BY <1>1, <1>2, CountingStep, PTL DEF Spec
=============================================================================
