---------------------------- MODULE Parking_proofs ----------------------------
(***************************************************************************)
(* Theorems about Parking, for lots and waves of any size: the counters of *)
(* free spots, the four semaphores and the threads agree at every moment.  *)
(***************************************************************************)
EXTENDS Parking, FiniteSetTheorems, TLAPS

OwnerPCs == {"unborn", "start", "parked", "waiting", "done"}

(* At, for any record f of where the owners are.                           *)
CountAt(f, k, pc) == Cardinality({o \in OwnersOf(k) : f[o] = pc})

(* main creates each owner once: a thread not created yet is nowhere.      *)
UnbornAreUnborn == \A o \in Owners : o > created => opc[o] = "unborn"

IInv == TypeOK /\ UnbornAreUnborn /\ SpotsConserved /\ ReleasesMatchWaiters

(* There are finitely many owners, and each is of a kind.                  *)
LEMMA OwnersFinite ==
    /\ InWave \in Nat /\ IsFiniteSet(Owners)
    /\ \A o \in Owners : KindOf(o) \in Kinds
    /\ \A k \in Kinds : OwnersOf(k) \subseteq Owners
<1>1. InWave \in Nat
  BY LotAssumption DEF InWave, Kinds
<1>2. IsFiniteSet(Owners)
  BY <1>1, FS_Interval DEF Owners
<1> QED
  BY <1>1, <1>2 DEF KindOf, Kinds, OwnersOf

(* A count is a number.                                                    *)
LEMMA CountIsNat == \A f, k, pc : k \in Kinds => CountAt(f, k, pc) \in Nat
<1> SUFFICES ASSUME NEW f, NEW k \in Kinds, NEW pc PROVE CountAt(f, k, pc) \in Nat
  OBVIOUS
<1>1. IsFiniteSet({o \in OwnersOf(k) : f[o] = pc})
  BY OwnersFinite, FS_Subset
<1> QED
  BY <1>1, FS_CardinalityType DEF CountAt

(* In g owner o is at b, in f it was at a, and every other owner is where  *)
(* it was.                                                                 *)
Moves(f, g, o, a, b) ==
    /\ a # b /\ f[o] = a /\ g[o] = b
    /\ \A u \in Owners : u # o => g[u] = f[u]

(* Then there is one owner of its kind more at b, one less at a, and no    *)
(* other count changes.                                                    *)
LEMMA CountMoves ==
    ASSUME NEW f, NEW g, NEW a, NEW b, NEW o \in Owners, Moves(f, g, o, a, b),
           NEW k \in Kinds, NEW pc
    PROVE  /\ k = KindOf(o) /\ pc = b => CountAt(g, k, pc) = CountAt(f, k, pc) + 1
           /\ k = KindOf(o) /\ pc = a => CountAt(g, k, pc) = CountAt(f, k, pc) - 1
           /\ k # KindOf(o) \/ (pc # a /\ pc # b) => CountAt(g, k, pc) = CountAt(f, k, pc)
<1> DEFINE F == {u \in OwnersOf(k) : f[u] = pc}
           G == {u \in OwnersOf(k) : g[u] = pc}
<1> USE DEF Moves
<1>1. IsFiniteSet(F) /\ IsFiniteSet(G)
  BY OwnersFinite, FS_Subset
<1>2. Cardinality(F) = CountAt(f, k, pc) /\ Cardinality(G) = CountAt(g, k, pc)
  BY DEF CountAt
<1>3. o \in OwnersOf(k) <=> k = KindOf(o)
  BY DEF OwnersOf
<1>4. CASE k # KindOf(o) \/ (pc # b /\ pc # a)
  <2>1. F = G
    BY <1>3, <1>4, OwnersFinite
  <2> QED
    BY <1>2, <1>4, <2>1
<1>5. CASE k = KindOf(o) /\ pc = b
  <2>1. G = F \cup {o} /\ o \notin F
    BY <1>3, <1>5, OwnersFinite
  <2> HIDE DEF F, G
  <2>2. Cardinality(G) = Cardinality(F) + 1
    BY <1>1, <2>1, FS_AddElement
  <2> QED
    BY <1>2, <1>5, <2>2
<1>6. CASE k = KindOf(o) /\ pc = a
  <2>1. G = F \ {o} /\ o \in F
    BY <1>3, <1>6, OwnersFinite
  <2> HIDE DEF F, G
  <2>2. Cardinality(G) = Cardinality(F) - 1
    BY <1>1, <2>1, FS_RemoveElement
  <2> QED
    BY <1>2, <1>6, <2>2
<1> QED
  BY <1>4, <1>5, <1>6

(* The initial state: no owner is anywhere yet.                            *)
LEMMA InitInv == Init => IInv
<1> SUFFICES ASSUME Init PROVE IInv
  OBVIOUS
<1> USE LotAssumption, OwnersFinite DEF Init
<1>1. TypeOK /\ UnbornAreUnborn
  <2>1. mFree \in [Kinds -> Nat] /\ \A k \in Kinds : mFree[k] <= Spots[k]
    BY DEF Kinds
  <2>2. created \in 0..(InWave + 2) /\ turnedAway \subseteq Owners
    OBVIOUS
  <2>3. opc \in [Owners -> OwnerPCs]
    BY DEF OwnerPCs
  <2> QED
    BY <2>1, <2>2, <2>3 DEF TypeOK, UnbornAreUnborn, OwnerPCs
<1>2. \A k \in Kinds : At(k, "parked") = 0 /\ At(k, "waiting") = 0
  <2> SUFFICES ASSUME NEW k \in Kinds PROVE At(k, "parked") = 0 /\ At(k, "waiting") = 0
    OBVIOUS
  <2>1. {o \in OwnersOf(k) : opc[o] = "parked"} = {}
        /\ {o \in OwnersOf(k) : opc[o] = "waiting"} = {}
    OBVIOUS
  <2> QED
    BY <2>1, FS_EmptySet DEF At
<1>3. SpotsConserved /\ ReleasesMatchWaiters
  BY <1>2 DEF SpotsConserved, ReleasesMatchWaiters, Valet
<1> QED
  BY <1>1, <1>3 DEF IInv

(* The two equations of kind j, for any values of the state they relate.   *)
SpotEquation(f, m, n, a, j) ==
    m[j] + CountAt(f, j, "parked") + n[j] + (IF a[j] = "parking" THEN 1 ELSE 0) = Spots[j]
WaiterEquation(f, n, a, c, j) ==
    CountAt(f, j, "waiting") =
        n[j] + (IF a[j] \in {"parking", "posting"} THEN 1 ELSE 0) + c[j]
Balanced(f, m, n, a, c, j) ==
    SpotEquation(f, m, n, a, j) /\ WaiterEquation(f, n, a, c, j)

(* The two invariants are one set of equations for each kind of vehicle.   *)
LEMMA Equations ==
    /\ SpotsConserved /\ ReleasesMatchWaiters <=>
          \A j \in Kinds : Balanced(opc, mFree, newVehicle, apc, inCharge, j)
    /\ (SpotsConserved /\ ReleasesMatchWaiters)' <=>
          \A j \in Kinds : Balanced(opc', mFree', newVehicle', apc', inCharge', j)
  BY DEF SpotsConserved, ReleasesMatchWaiters, Valet, At, CountAt,
         Balanced, SpotEquation, WaiterEquation

(* A step of an owner changes the counts of its own kind only, and with    *)
(* them the counter or the semaphore that stands for it.                   *)
LEMMA OwnerStepInv == \A o \in Owners : IInv /\ OwnerStep(o) => IInv'
<1> SUFFICES ASSUME NEW o \in Owners, IInv, OwnerStep(o) PROVE IInv'
  OBVIOUS
<1> DEFINE k == KindOf(o)
           Before(j) == Balanced(opc, mFree, newVehicle, apc, inCharge, j)
           After(j)  == Balanced(opc', mFree', newVehicle', apc', inCharge', j)
<1> USE LotAssumption, OwnersFinite DEF IInv
<1>1. /\ opc \in [Owners -> OwnerPCs] /\ k \in Kinds
      /\ mFree \in [Kinds -> Nat] /\ newVehicle \in [Kinds -> Nat]
      /\ inCharge \in [Kinds -> Nat]
  BY DEF TypeOK, OwnerPCs
<1>2. \A j \in Kinds : /\ Before(j)
                       /\ CountAt(opc, j, "parked") \in Nat
                       /\ CountAt(opc, j, "waiting") \in Nat
  BY CountIsNat, Equations
<1>3. ASSUME \A j \in Kinds : After(j) PROVE (SpotsConserved /\ ReleasesMatchWaiters)'
  BY <1>3, Equations
<1> HIDE DEF k
<1>4. CASE Park(o)
  <2>1. Moves(opc, opc', o, "start", "parked")
    BY <1>1, <1>4 DEF Park, Moves
  <2>2. /\ CountAt(opc', k, "parked") = CountAt(opc, k, "parked") + 1
        /\ CountAt(opc', k, "waiting") = CountAt(opc, k, "waiting")
    BY <1>1, <2>1, CountMoves DEF k
  <2>3. ASSUME NEW j \in Kinds \ {k}
        PROVE  /\ CountAt(opc', j, "parked") = CountAt(opc, j, "parked")
               /\ CountAt(opc', j, "waiting") = CountAt(opc, j, "waiting")
    BY <1>1, <2>1, CountMoves DEF k
  <2>4. mFree'[k] = mFree[k] - 1 /\ \A j \in Kinds \ {k} : mFree'[j] = mFree[j]
    BY <1>1, <1>4 DEF Park, k
  <2>5. After(k)
    BY <1>1, <1>2, <1>4, <2>2, <2>4 DEF Park, Balanced, SpotEquation, WaiterEquation
  <2>6. \A j \in Kinds \ {k} : After(j)
    BY <1>1, <1>2, <1>4, <2>3, <2>4 DEF Park, Balanced, SpotEquation, WaiterEquation
  <2>7. TypeOK' /\ UnbornAreUnborn'
    BY <1>1, <1>4, <2>4 DEF Park, HasSpot, TypeOK, UnbornAreUnborn, k
  <2> QED
    BY <1>3, <2>5, <2>6, <2>7
<1>5. CASE TurnAway(o)
  <2>1. Moves(opc, opc', o, "start", "done")
    BY <1>1, <1>5 DEF TurnAway, Moves
  <2>2. /\ CountAt(opc', k, "parked") = CountAt(opc, k, "parked")
        /\ CountAt(opc', k, "waiting") = CountAt(opc, k, "waiting")
    BY <1>1, <2>1, CountMoves DEF k
  <2>3. ASSUME NEW j \in Kinds \ {k}
        PROVE  /\ CountAt(opc', j, "parked") = CountAt(opc, j, "parked")
               /\ CountAt(opc', j, "waiting") = CountAt(opc, j, "waiting")
    BY <1>1, <2>1, CountMoves DEF k
  <2>5. After(k)
    BY <1>1, <1>2, <1>5, <2>2 DEF TurnAway, Balanced, SpotEquation, WaiterEquation
  <2>6. \A j \in Kinds \ {k} : After(j)
    BY <1>1, <1>2, <1>5, <2>3 DEF TurnAway, Balanced, SpotEquation, WaiterEquation
  <2>7. TypeOK' /\ UnbornAreUnborn'
    BY <1>1, <1>5 DEF TurnAway, TypeOK, UnbornAreUnborn
  <2> QED
    BY <1>3, <2>5, <2>6, <2>7
<1>6. CASE Announce(o)
  <2>1. Moves(opc, opc', o, "parked", "waiting")
    BY <1>1, <1>6 DEF Announce, Moves
  <2>2. /\ CountAt(opc', k, "parked") = CountAt(opc, k, "parked") - 1
        /\ CountAt(opc', k, "waiting") = CountAt(opc, k, "waiting") + 1
    BY <1>1, <2>1, CountMoves DEF k
  <2>3. ASSUME NEW j \in Kinds \ {k}
        PROVE  /\ CountAt(opc', j, "parked") = CountAt(opc, j, "parked")
               /\ CountAt(opc', j, "waiting") = CountAt(opc, j, "waiting")
    BY <1>1, <2>1, CountMoves DEF k
  <2>4. newVehicle'[k] = newVehicle[k] + 1 /\ \A j \in Kinds \ {k} : newVehicle'[j] = newVehicle[j]
    BY <1>1, <1>6 DEF Announce, k
  <2>5. After(k)
    <3>1. newVehicle[k] \in Nat /\ mFree[k] \in Nat /\ inCharge[k] \in Nat
      BY <1>1
    <3>2. SpotEquation(opc', mFree', newVehicle', apc', k)
      BY <1>1, <1>2, <1>6, <2>2, <2>4, <3>1 DEF Announce, Balanced, SpotEquation
    <3>3. WaiterEquation(opc', newVehicle', apc', inCharge', k)
      BY <1>1, <1>2, <1>6, <2>2, <2>4, <3>1 DEF Announce, Balanced, WaiterEquation
    <3> QED
      BY <3>2, <3>3 DEF Balanced
  <2>6. \A j \in Kinds \ {k} : After(j)
    BY <1>1, <1>2, <1>6, <2>3, <2>4 DEF Announce, Balanced, SpotEquation, WaiterEquation
  <2>7. TypeOK' /\ UnbornAreUnborn'
    BY <1>1, <1>6, <2>4 DEF Announce, TypeOK, UnbornAreUnborn, k
  <2> QED
    BY <1>3, <2>5, <2>6, <2>7
<1>7. CASE Leave(o)
  <2>1. Moves(opc, opc', o, "waiting", "done")
    BY <1>1, <1>7 DEF Leave, Moves
  <2>2. /\ CountAt(opc', k, "parked") = CountAt(opc, k, "parked")
        /\ CountAt(opc', k, "waiting") = CountAt(opc, k, "waiting") - 1
    BY <1>1, <2>1, CountMoves DEF k
  <2>3. ASSUME NEW j \in Kinds \ {k}
        PROVE  /\ CountAt(opc', j, "parked") = CountAt(opc, j, "parked")
               /\ CountAt(opc', j, "waiting") = CountAt(opc, j, "waiting")
    BY <1>1, <2>1, CountMoves DEF k
  <2>4. inCharge'[k] = inCharge[k] - 1 /\ \A j \in Kinds \ {k} : inCharge'[j] = inCharge[j]
    BY <1>1, <1>7 DEF Leave, k
  <2>5. After(k)
    BY <1>1, <1>2, <1>7, <2>2, <2>4 DEF Leave, Balanced, SpotEquation, WaiterEquation
  <2>6. \A j \in Kinds \ {k} : After(j)
    BY <1>1, <1>2, <1>7, <2>3, <2>4 DEF Leave, Balanced, SpotEquation, WaiterEquation
  <2>7. TypeOK' /\ UnbornAreUnborn'
    BY <1>1, <1>7, <2>4 DEF Leave, TypeOK, UnbornAreUnborn, k
  <2> QED
    BY <1>3, <2>5, <2>6, <2>7
<1> QED
  BY <1>4, <1>5, <1>6, <1>7 DEF OwnerStep

(* A step of an attendant.  That the counter of free spots does not pass   *)
(* the size of the lot in Take follows from the first equation.            *)
LEMMA AttendantStepInv == \A k \in Kinds : IInv /\ AttendantStep(k) => IInv'
<1> SUFFICES ASSUME NEW k \in Kinds, IInv, AttendantStep(k) PROVE IInv'
  OBVIOUS
<1> DEFINE Before(j) == Balanced(opc, mFree, newVehicle, apc, inCharge, j)
           After(j)  == Balanced(opc', mFree', newVehicle', apc', inCharge', j)
<1> USE LotAssumption DEF IInv
<1>1. /\ apc \in [Kinds -> {"idle", "parking", "posting"}]
      /\ mFree \in [Kinds -> Nat] /\ newVehicle \in [Kinds -> Nat]
      /\ inCharge \in [Kinds -> Nat]
  BY DEF TypeOK
<1>2. \A j \in Kinds : /\ Before(j)
                       /\ CountAt(opc, j, "parked") \in Nat
                       /\ CountAt(opc, j, "waiting") \in Nat
  BY CountIsNat, Equations
<1>3. ASSUME \A j \in Kinds : After(j) PROVE (SpotsConserved /\ ReleasesMatchWaiters)'
  BY <1>3, Equations
<1>4. CASE Fetch(k)
  <2>1. /\ newVehicle'[k] = newVehicle[k] - 1 /\ apc'[k] = "parking"
        /\ \A j \in Kinds \ {k} : newVehicle'[j] = newVehicle[j] /\ apc'[j] = apc[j]
    BY <1>1, <1>4 DEF Fetch
  <2>2. After(k)
    BY <1>1, <1>2, <1>4, <2>1 DEF Fetch, Balanced, SpotEquation, WaiterEquation
  <2>3. \A j \in Kinds \ {k} : After(j)
    BY <1>1, <1>2, <1>4, <2>1 DEF Fetch, Balanced, SpotEquation, WaiterEquation
  <2>5. TypeOK' /\ UnbornAreUnborn'
    BY <1>1, <1>4, <2>1 DEF Fetch, TypeOK, UnbornAreUnborn
  <2> QED
    BY <1>3, <2>2, <2>3, <2>5
<1>5. CASE Take(k)
  <2>1. /\ mFree'[k] = mFree[k] + 1 /\ apc'[k] = "posting"
        /\ \A j \in Kinds \ {k} : mFree'[j] = mFree[j] /\ apc'[j] = apc[j]
    BY <1>1, <1>5 DEF Take
  <2>2. After(k)
    BY <1>1, <1>2, <1>5, <2>1 DEF Take, Balanced, SpotEquation, WaiterEquation
  <2>3. \A j \in Kinds \ {k} : After(j)
    BY <1>1, <1>2, <1>5, <2>1 DEF Take, Balanced, SpotEquation, WaiterEquation
  <2>4. mFree'[k] <= Spots[k]
    BY <1>1, <1>2, <1>5, <2>1 DEF Take, Balanced, SpotEquation
  <2>5. TypeOK' /\ UnbornAreUnborn'
    BY <1>1, <1>5, <2>1, <2>4 DEF Take, TypeOK, UnbornAreUnborn
  <2> QED
    BY <1>3, <2>2, <2>3, <2>5
<1>6. CASE Release(k)
  <2>1. /\ inCharge'[k] = inCharge[k] + 1 /\ apc'[k] = "idle"
        /\ \A j \in Kinds \ {k} : inCharge'[j] = inCharge[j] /\ apc'[j] = apc[j]
    BY <1>1, <1>6 DEF Release
  <2>2. After(k)
    BY <1>1, <1>2, <1>6, <2>1 DEF Release, Balanced, SpotEquation, WaiterEquation
  <2>3. \A j \in Kinds \ {k} : After(j)
    BY <1>1, <1>2, <1>6, <2>1 DEF Release, Balanced, SpotEquation, WaiterEquation
  <2>5. TypeOK' /\ UnbornAreUnborn'
    BY <1>1, <1>6, <2>1 DEF Release, TypeOK, UnbornAreUnborn
  <2> QED
    BY <1>3, <2>2, <2>3, <2>5
<1> QED
  BY <1>4, <1>5, <1>6 DEF AttendantStep

(* main starts an owner that was nowhere, and the cleanup moves nothing.   *)
LEMMA MainStepInv == IInv /\ (MainStep \/ UNCHANGED vars) => IInv'
<1> SUFFICES ASSUME IInv PROVE MainStep \/ UNCHANGED vars => IInv'
  OBVIOUS
<1> USE LotAssumption, OwnersFinite DEF IInv
<1>1. CASE CreateOwner
  <2> DEFINE o == created + 1
  <2>1. created \in 0..(InWave + 1) /\ o \in Owners
    BY <1>1 DEF CreateOwner, MayCreate, TypeOK, Owners
  <2>2. opc[o] = "unborn" /\ opc' = [opc EXCEPT ![o] = "start"]
    BY <1>1, <2>1 DEF CreateOwner, UnbornAreUnborn
  <2>3. ASSUME NEW j \in Kinds
        PROVE  /\ CountAt(opc', j, "parked") = CountAt(opc, j, "parked")
               /\ CountAt(opc', j, "waiting") = CountAt(opc, j, "waiting")
    <3>1. Moves(opc, opc', o, "unborn", "start")
      BY <2>1, <2>2 DEF TypeOK, Moves
    <3> QED
      BY <2>1, <3>1, CountMoves
  <2>4. SpotsConserved' /\ ReleasesMatchWaiters'
    BY <1>1, <2>3, Equations DEF CreateOwner, Balanced, SpotEquation, WaiterEquation
  <2>5. UnbornAreUnborn'
    BY <1>1, <2>1, <2>2 DEF CreateOwner, UnbornAreUnborn, Owners
  <2>6. TypeOK'
    BY <1>1, <2>1, <2>2 DEF CreateOwner, TypeOK, OwnerPCs
  <2> QED
    BY <2>4, <2>5, <2>6
<1>2. CASE Cleanup \/ UNCHANGED vars
  <2>1. UNCHANGED <<created, opc, turnedAway, apc, mFree, newVehicle, inCharge>>
        /\ cleaned' \in BOOLEAN
    BY <1>2 DEF Cleanup, vars, TypeOK
  <2> QED
    BY <2>1, Equations DEF TypeOK, UnbornAreUnborn
<1> QED
  BY <1>1, <1>2 DEF MainStep

(* The inductive invariant holds throughout.                               *)
THEOREM Invariance == Spec => []IInv
<1>1. IInv /\ [Next]_vars => IInv'
  BY OwnerStepInv, AttendantStepInv, MainStepInv DEF Next
<1> QED
  BY InitInv, <1>1, PTL DEF Spec

(* Every variable keeps its type, and no counter of free spots passes the  *)
(* size of its lot (carOwner 38-49, carAttendant 80-92).                   *)
THEOREM TypeCorrect == Spec => []TypeOK
  BY Invariance, PTL DEF IInv

(* No spot is lost or given twice, although counter, semaphore and valet   *)
(* are never changed under one lock: in a lot of any size.                 *)
THEOREM NoSpotLost == Spec => []SpotsConserved
  BY Invariance, PTL DEF IInv

(* There is exactly one release, given or still to come, for each owner    *)
(* that waits, however many arrive and however their threads interleave.   *)
THEOREM EveryWaiterIsReleased == Spec => []ReleasesMatchWaiters
  BY Invariance, PTL DEF IInv
=============================================================================
