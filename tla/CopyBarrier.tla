---------------------------- MODULE CopyBarrier ----------------------------
(***************************************************************************)
(* The enhanced directory copy utility (sys06): the pool of sys05 with a   *)
(* pthread barrier, initialised for num_workers threads, that every worker *)
(* waits at after its loop and before it returns.  All the other threads'  *)
(* steps are those of CopyPool, line for line; they leave the barrier      *)
(* alone.  A worker whose wpc is "exit" has reached the barrier call.      *)
(***************************************************************************)
EXTENDS CopyPool

VARIABLES arrived,    \* workers that have called pthread_barrier_wait
          passed      \* workers it has released

barrierVars == <<arrived, passed>>
allVars == <<vars, barrierVars>>

BarrierInit == Init /\ arrived = {} /\ passed = {}

BarrierManager   == ManagerStep /\ UNCHANGED barrierVars
BarrierWorker(w) == WorkerStep(w) /\ UNCHANGED barrierVars
BarrierSignal    == Environment /\ UNCHANGED barrierVars

Arrive(w) == /\ wpc[w] = "exit" /\ w \notin arrived
             /\ arrived' = arrived \cup {w}
             /\ UNCHANGED <<vars, passed>>

(* Defects: the barrier is initialised for one thread too few, or for the  *)
(* manager as well.                                                        *)
BarrierCountShort == Cardinality(Workers) - 1
BarrierCountLong  == Cardinality(Workers) + 1

(* pthread_barrier_init(&barrier, NULL, num_workers).                      *)
BarrierCount == Cardinality(Workers)

(* The last arrival opens the barrier; the others return at their leisure. *)
Pass(w) == /\ w \in arrived \ passed
           /\ Cardinality(arrived) = BarrierCount
           /\ passed' = passed \cup {w}
           /\ UNCHANGED <<vars, arrived>>

(* main's joins return once the manager and every worker have returned,    *)
(* and only then does main destroy the barrier.                            *)
BarrierJoin == /\ Join
               /\ passed = Workers
               /\ UNCHANGED barrierVars

BarrierDone == Terminated /\ UNCHANGED barrierVars

BarrierThread(w) == BarrierWorker(w) \/ Arrive(w) \/ Pass(w)

BarrierNext == \/ BarrierManager \/ (\E w \in Workers : BarrierThread(w))
               \/ BarrierSignal \/ BarrierJoin \/ BarrierDone

BarrierFairness == /\ WF_allVars(BarrierManager)
                   /\ \A w \in Workers : WF_allVars(BarrierThread(w))
                   /\ WF_allVars(BarrierJoin)

BarrierSpec == BarrierInit /\ [][BarrierNext]_allVars /\ BarrierFairness
-----------------------------------------------------------------------------
(* What the barrier is for (lines 103-106): once any worker is past it the *)
(* whole job is over - nothing queued, nobody copying, every file the      *)
(* manager ever queued copied and closed - even when SIGINT has made some  *)
(* workers leave long before the manager.                                  *)
PassedMeansCopied ==
    passed # {} => /\ count = 0
                   /\ \A w \in Workers : wpc[w] = "exit" /\ held[w] = NoFile
                   /\ stats["regular"] = files_copied
                   /\ \A f \in Regulars : Src(f) \in fds \/ Dst(f) \in fds =>
                         f = cur /\ mpc \in {"opendst", "put"} /\ stop

(* The barrier changes when workers return, not what the pool does: every  *)
(* behaviour of the enhanced utility, fairness and termination included,   *)
(* is one of the plain utility.                                            *)
RefinesPool == Spec
=============================================================================
