----------------------------- MODULE MCParking -----------------------------
(* Two spots of each kind and a wave of three owners of each: in the       *)
(* program waves are as large as the lots, and an owner is turned away     *)
(* only by arrivals such as its disabled loop would bring.                 *)
EXTENDS Parking

MCSpots   == [k \in Kinds |-> 2]
LargeWave == [k \in Kinds |-> MCSpots[k] + 1]
=============================================================================
