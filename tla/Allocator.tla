----------------------------- MODULE Allocator -----------------------------
(***************************************************************************)
(* What malloc and free promise their callers, with no chunk list: a block *)
(* handed out lies inside the arena and overlaps no other block out, and   *)
(* only free takes a block back.                                           *)
(***************************************************************************)
EXTENDS Naturals

CONSTANTS Start, Size,    \* the arena is Start .. Start+Size-1
          Requests        \* sizes callers ask for

VARIABLE blocks           \* blocks out: [base, length]

Arena == Start..(Start + Size - 1)
Bytes(b) == b.base..(b.base + b.length - 1)
AllBlocks == [base : Start..(Start + Size), length : 0..Size]

Init == blocks = {}

(* A block may be longer than was asked for: a rest too small to be a      *)
(* chunk of its own is given along.                                        *)
Allocate(n) == \E b \in AllBlocks :
                  /\ b.length >= n
                  /\ Bytes(b) \subseteq Arena
                  /\ \A c \in blocks : Bytes(b) \cap Bytes(c) = {} /\ b.base # c.base
                  /\ blocks' = blocks \cup {b}

Release(b) == blocks' = blocks \ {b}

Next == (\E n \in Requests : Allocate(n)) \/ (\E b \in blocks : Release(b))

Spec == Init /\ [][Next]_blocks
=============================================================================
