----------------------------- MODULE WorkQueue -----------------------------
(***************************************************************************)
(* What the manager and the workers of the directory copy utilities (sys05 *)
(* and sys06) promise each other, with no ring buffer, no mutex, no        *)
(* condition variables and no file descriptors: a bounded FIFO hand-over.  *)
(* The manager puts a file in at most once, one worker takes it, files are *)
(* taken in the order they were put, nothing is put once the queue is      *)
(* closed, and a worker leaves only a closed and drained queue.            *)
(*                                                                         *)
(* CopyPool refines this module.                                           *)
(***************************************************************************)
EXTENDS Naturals, Sequences

CONSTANTS Files,      \* the files the manager may hand over
          Workers,    \* the consumers
          Capacity,   \* how many files fit in the queue
          NoFile      \* what an idle worker holds

VARIABLES queue,      \* files handed over and not yet taken, oldest first
          held,       \* [Workers -> Files \cup {NoFile}]
          finished,   \* files some worker has finished with
          closed,     \* TRUE once the manager can put no more
          gone        \* workers that have left

qvars == <<queue, held, finished, closed, gone>>

Queued == {queue[i] : i \in DOMAIN queue}
Seen   == Queued \cup {held[w] : w \in Workers} \cup finished

Init == /\ queue = <<>>
        /\ held = [w \in Workers |-> NoFile]
        /\ finished = {}
        /\ closed = FALSE
        /\ gone = {}

Put(f) == /\ ~closed
          /\ Len(queue) < Capacity
          /\ f \notin Seen
          /\ queue' = Append(queue, f)
          /\ UNCHANGED <<held, finished, closed, gone>>

Close == /\ ~closed
         /\ closed' = TRUE
         /\ UNCHANGED <<queue, held, finished, gone>>

Take(w) == /\ queue # <<>>
           /\ held[w] = NoFile
           /\ w \notin gone
           /\ held' = [held EXCEPT ![w] = Head(queue)]
           /\ queue' = Tail(queue)
           /\ UNCHANGED <<finished, closed, gone>>

Finish(w) == /\ held[w] # NoFile
             /\ finished' = finished \cup {held[w]}
             /\ held' = [held EXCEPT ![w] = NoFile]
             /\ UNCHANGED <<queue, closed, gone>>

Leave(w) == /\ closed
            /\ queue = <<>>
            /\ held[w] = NoFile
            /\ gone' = gone \cup {w}
            /\ UNCHANGED <<queue, held, finished, closed>>

Next == \/ \E f \in Files : Put(f)
        \/ Close
        \/ \E w \in Workers : Take(w) \/ Finish(w) \/ Leave(w)

(* A file that is put is taken, a file that is taken is finished, and once *)
(* the queue is closed every worker leaves.                                *)
Fairness == /\ WF_qvars(\E w \in Workers : Take(w))
            /\ \A w \in Workers : WF_qvars(Finish(w)) /\ WF_qvars(Leave(w) /\ w \notin gone)

Spec == Init /\ [][Next]_qvars /\ Fairness
=============================================================================
