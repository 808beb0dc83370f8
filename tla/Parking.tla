------------------------------ MODULE Parking ------------------------------
(***************************************************************************)
(* The parking lot (sys04, main.c): owners leave their vehicle on a        *)
(* temporary spot and wait until the valet of its kind has taken charge.   *)
(* The code writes everything twice, for pickups and for automobiles; here *)
(* each variable is a function of the kind.  main starts a wave of owners  *)
(* of each kind, joins them all, then starts and joins one more owner of   *)
(* each kind, and destroys the semaphores.  The code's waves are as large  *)
(* as the lots; larger ones stand for the arrivals of its disabled loop.   *)
(*                                                                         *)
(* A definition marked `Defect' is no part of the specification: it is a   *)
(* slip the code could have had in the definition it stands before, kept   *)
(* to show that the properties notice it.                                  *)
(***************************************************************************)
EXTENDS Naturals, FiniteSets

CONSTANTS Spots,     \* [Kinds -> temporary spots]: MAX_PICKUPS, MAX_AUTOMOBILES
          Wave       \* [Kinds -> owners in the first wave]

Kinds == {"pickup", "automobile"}

ASSUME LotAssumption == Spots \in [Kinds -> Nat \ {0}] /\ Wave \in [Kinds -> Nat]

(* Owners in the order main creates them; the last two are the extra ones. *)
InWave == Wave["pickup"] + Wave["automobile"]
Owners == 1..(InWave + 2)
KindOf(o) == IF o <= Wave["pickup"] \/ o = InWave + 1 THEN "pickup" ELSE "automobile"
OwnersOf(k) == {o \in Owners : KindOf(o) = k}

VARIABLES created,      \* owner threads main has created
          cleaned,      \* main has destroyed the semaphores and returned
          opc,          \* [Owners -> where the owner is]
          turnedAway,   \* owners that found no spot
          apc,          \* [Kinds -> where the attendant is]
          mFree,        \* mFree_pickup, mFree_automobile
          newVehicle,   \* value of newPickup, newAutomobile
          inCharge      \* value of inChargeforPickup, inChargeforAutomobile

vars == <<created, cleaned, opc, turnedAway, apc, mFree, newVehicle, inCharge>>

Init == /\ created = 0 /\ cleaned = FALSE
        /\ opc = [o \in Owners |-> "unborn"]
        /\ turnedAway = {}
        /\ apc = [k \in Kinds |-> "idle"]
        /\ mFree = Spots
        /\ newVehicle = [k \in Kinds |-> 0]
        /\ inCharge = [k \in Kinds |-> 0]
-----------------------------------------------------------------------------
(* main.                                                                   *)

AllDone(n) == \A o \in 1..n : opc[o] = "done"

(* The wave is created without waiting; an extra owner only after the      *)
(* joins of all the owners before it.                                      *)
MayCreate == \/ created < InWave
             \/ created < InWave + 2 /\ AllDone(created)

CreateOwner ==
    /\ MayCreate
    /\ created' = created + 1
    /\ opc' = [opc EXCEPT ![created + 1] = "start"]
    /\ UNCHANGED <<cleaned, turnedAway, apc, mFree, newVehicle, inCharge>>

Cleanup ==
    /\ created = InWave + 2 /\ AllDone(created) /\ ~cleaned
    /\ cleaned' = TRUE
    /\ UNCHANGED <<created, opc, turnedAway, apc, mFree, newVehicle, inCharge>>
-----------------------------------------------------------------------------
(* carOwner.  The section under the mutex is one step.                     *)

HasSpotUnchecked(k) == TRUE    \* Defect: the count is not looked at

HasSpot(k) == mFree[k] > 0

Park(o) ==
    /\ opc[o] = "start"
    /\ HasSpot(KindOf(o))
    /\ mFree' = [mFree EXCEPT ![KindOf(o)] = @ - 1]
    /\ opc' = [opc EXCEPT ![o] = "parked"]
    /\ UNCHANGED <<created, cleaned, turnedAway, apc, newVehicle, inCharge>>

TurnAway(o) ==
    /\ opc[o] = "start"
    /\ ~HasSpot(KindOf(o))
    /\ turnedAway' = turnedAway \cup {o}
    /\ opc' = [opc EXCEPT ![o] = "done"]
    /\ UNCHANGED <<created, cleaned, apc, mFree, newVehicle, inCharge>>

(* sem_post(&newPickup)                                                    *)
Announce(o) ==
    /\ opc[o] = "parked"
    /\ newVehicle' = [newVehicle EXCEPT ![KindOf(o)] = @ + 1]
    /\ opc' = [opc EXCEPT ![o] = "waiting"]
    /\ UNCHANGED <<created, cleaned, turnedAway, apc, mFree, inCharge>>

(* sem_wait(&inChargeforPickup) returns: any waiting owner may be the one. *)
Leave(o) ==
    /\ opc[o] = "waiting" /\ inCharge[KindOf(o)] > 0
    /\ inCharge' = [inCharge EXCEPT ![KindOf(o)] = @ - 1]
    /\ opc' = [opc EXCEPT ![o] = "done"]
    /\ UNCHANGED <<created, cleaned, turnedAway, apc, mFree, newVehicle>>
-----------------------------------------------------------------------------
(* carAttendant.                                                           *)

(* sem_wait(&newPickup) returns.                                           *)
Fetch(k) ==
    /\ apc[k] = "idle" /\ newVehicle[k] > 0
    /\ newVehicle' = [newVehicle EXCEPT ![k] = @ - 1]
    /\ apc' = [apc EXCEPT ![k] = "parking"]
    /\ UNCHANGED <<created, cleaned, opc, turnedAway, mFree, inCharge>>

(* Defect: the spot is not given back.                                     *)
TakeKeepingSpot(k) ==
    /\ apc[k] = "parking"
    /\ apc' = [apc EXCEPT ![k] = "posting"]
    /\ UNCHANGED <<created, cleaned, opc, turnedAway, mFree, newVehicle, inCharge>>

(* The section under the mutex.                                            *)
Take(k) ==
    /\ apc[k] = "parking"
    /\ mFree' = [mFree EXCEPT ![k] = @ + 1]
    /\ apc' = [apc EXCEPT ![k] = "posting"]
    /\ UNCHANGED <<created, cleaned, opc, turnedAway, newVehicle, inCharge>>

(* Defect: every release is posted to the pickups' semaphore.              *)
ReleaseOther(k) ==
    /\ apc[k] = "posting"
    /\ inCharge' = [inCharge EXCEPT !["pickup"] = @ + 1]
    /\ apc' = [apc EXCEPT ![k] = "idle"]
    /\ UNCHANGED <<created, cleaned, opc, turnedAway, mFree, newVehicle>>

(* sem_post(&inChargeforPickup)                                            *)
Release(k) ==
    /\ apc[k] = "posting"
    /\ inCharge' = [inCharge EXCEPT ![k] = @ + 1]
    /\ apc' = [apc EXCEPT ![k] = "idle"]
    /\ UNCHANGED <<created, cleaned, opc, turnedAway, mFree, newVehicle>>
-----------------------------------------------------------------------------
MainStep         == CreateOwner \/ Cleanup
OwnerStep(o)     == Park(o) \/ TurnAway(o) \/ Announce(o) \/ Leave(o)

AttendantStep(k) == Fetch(k) \/ Take(k) \/ Release(k)

(* The process is over once main has returned.                             *)
Next == \/ MainStep
        \/ \E o \in Owners : OwnerStep(o)
        \/ \E k \in Kinds : ~cleaned /\ AttendantStep(k)
        \/ cleaned /\ UNCHANGED vars

(* Each thread that can run does; a sleep ends.                            *)
Fairness == /\ WF_vars(MainStep)
            /\ \A o \in Owners : WF_vars(OwnerStep(o))
            /\ \A k \in Kinds : WF_vars(~cleaned /\ AttendantStep(k))

Spec == Init /\ [][Next]_vars /\ Fairness
-----------------------------------------------------------------------------
(* What must hold.                                                         *)

(* Every variable stays in its range; no counter of free spots leaves it.  *)
TypeOK ==
    /\ created \in 0..(InWave + 2) /\ cleaned \in BOOLEAN
    /\ opc \in [Owners -> {"unborn", "start", "parked", "waiting", "done"}]
    /\ turnedAway \subseteq Owners
    /\ apc \in [Kinds -> {"idle", "parking", "posting"}]
    /\ mFree \in [Kinds -> Nat] /\ \A k \in Kinds : mFree[k] <= Spots[k]
    /\ newVehicle \in [Kinds -> Nat] /\ inCharge \in [Kinds -> Nat]

At(k, pc)     == Cardinality({o \in OwnersOf(k) : opc[o] = pc})
Valet(k, pcs) == IF apc[k] \in pcs THEN 1 ELSE 0

(* Every spot is free, or under a vehicle whose owner has not announced it *)
(* yet, whose announcement is pending, or that the valet is about to take: *)
(* counter, semaphore and threads agree though no lock covers all three.   *)
SpotsConserved ==
    \A k \in Kinds :
        mFree[k] + At(k, "parked") + newVehicle[k] + Valet(k, {"parking"}) = Spots[k]

(* For every owner that waits there is a vehicle still to be taken or a    *)
(* release under way, and no release is left over: the releases are        *)
(* anonymous, so one too few would block an owner, and main, for ever.     *)
(* With SpotsConserved it also says that main's cleanup meets no valet     *)
(* inside (169-174): once no owner parks or waits, both valets are idle.   *)
ReleasesMatchWaiters ==
    \A k \in Kinds :
        At(k, "waiting") = newVehicle[k] + Valet(k, {"parking", "posting"}) + inCharge[k]

(* Every owner parks or is turned away and leaves, and main returns.       *)
MainReturns == <>cleaned
=============================================================================
