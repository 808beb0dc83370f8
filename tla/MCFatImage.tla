----------------------------- MODULE MCFatImage -----------------------------
(* A short name and a longer one with the same first eight characters;     *)
(* paths of up to two names.                                               *)
EXTENDS FatImage, TLC

CONSTANTS short, long
MCStored  == [n \in Names |-> short]
MCPaths   == {<<>>, <<short>>, <<short, short>>}
Symmetric == Permutations(Procs)
=============================================================================
