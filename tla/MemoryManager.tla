--------------------------- MODULE MemoryManager ---------------------------
(***************************************************************************)
(* The kernel heap (os01, memorymanagement.cpp): a doubly linked list of   *)
(* chunks, each a header followed by its payload.  malloc takes the first  *)
(* free chunk that is larger than the request and splits off what is left  *)
(* if a header and a byte fit in it; free merges a chunk with a free       *)
(* neighbour on either side.  Addresses are numbers, and 0 is the null     *)
(* pointer.  `chunk' holds the headers in use: a header swallowed by a     *)
(* merge is payload again and no longer in its domain.                     *)
(*                                                                         *)
(* A definition marked `Defect' is no part of the specification: it is a   *)
(* slip the code could have had in the definition it stands before, kept   *)
(* to show that the properties notice it.                                  *)
(***************************************************************************)
EXTENDS Naturals, FiniteSets

CONSTANTS Start, Size,    \* the constructor's arguments
          Header,         \* sizeof(MemoryChunk)
          Requests        \* sizes callers pass to malloc

ASSUME HeapAssumption == /\ Start \in Nat \ {0} /\ Size \in Nat
                         /\ Header \in Nat \ {0}
                         /\ Requests \subseteq Nat

VARIABLES first, chunk

vars == <<first, chunk>>
Null == 0
End  == Start + Size

Headers == DOMAIN chunk

(* The constructor.                                                        *)
Init == IF Size < Header
        THEN first = Null /\ chunk = [a \in {} |-> [next |-> Null, prev |-> Null,
                                                    allocated |-> FALSE, size |-> 0]]
        ELSE /\ first = Start
             /\ chunk = [a \in {Start} |-> [next |-> Null, prev |-> Null,
                                            allocated |-> FALSE, size |-> Size - Header]]
-----------------------------------------------------------------------------
(* Defect: the back link of the next chunk is left alone.                  *)
WithPrevForgotten(c, p) == c

(* temp->next->prev = ..., chunk->next->prev = ...                         *)
WithPrev(c, p) == [next |-> c.next, prev |-> p, allocated |-> c.allocated, size |-> c.size]

(* chunk->allocated = t                                                    *)
Marked(h, a, t) == [h EXCEPT ![a] = [next |-> h[a].next, prev |-> h[a].prev,
                                     allocated |-> t, size |-> h[a].size]]

(* malloc's search takes the first chunk of the list that fits, which is   *)
(* the one at the lowest address: ListInOrder says the list is in order.   *)
FitsTaken(a, n) == chunk[a].size > n    \* Defect: taken chunks are given again

Fits(a, n) == ~chunk[a].allocated /\ chunk[a].size > n
IsFirstFit(a, n) == Fits(a, n) /\ \A b \in Headers : Fits(b, n) => a <= b

Take(a) == chunk' = Marked(chunk, a, TRUE)

(* Defects: the test and the size leave the new header out.                *)
SplitsTooOften(a, n)  == chunk[a].size >= n + 1
RestTooLarge(h, a, n) == h[a].size - n

Splits(a, n)  == chunk[a].size >= n + Header + 1
Rest(h, a, n) == h[a].size - n - Header

(* h with the chunk a cut to n bytes and taken, and the rest a free chunk  *)
(* after it.                                                               *)
SplitAt(h, a, n) ==
    LET temp == a + Header + n
    IN  [b \in DOMAIN h \cup {temp} |->
            IF b = temp
            THEN [next |-> h[a].next, prev |-> a, allocated |-> FALSE,
                  size |-> Rest(h, a, n)]
            ELSE IF b = a
            THEN [next |-> temp, prev |-> h[a].prev, allocated |-> TRUE, size |-> n]
            ELSE IF b = h[a].next THEN WithPrev(h[b], temp)
            ELSE h[b]]

Split(a, n) == chunk' = SplitAt(chunk, a, n)

Malloc(n) ==
    /\ \E a \in Headers :
          /\ IsFirstFit(a, n)
          /\ IF Splits(a, n) THEN Split(a, n) ELSE Take(a)
    /\ UNCHANGED first

(* No chunk fits: malloc returns 0 and nothing changes.                    *)
MallocFails(n) == (\A a \in Headers : ~Fits(a, n)) /\ UNCHANGED vars
-----------------------------------------------------------------------------
(* free of the payload of chunk a, which some malloc returned: the chunk   *)
(* goes, merged into prev, and then the chunk at hand swallows next.       *)
FreeAt(h, a) == a # Null /\ ~h[a].allocated

MergedSize(h, a, b) == h[a].size + h[b].size + Header

(* h without chunk b, which the chunk a before it absorbs.                 *)
Absorb(h, a, b) ==
    [c \in DOMAIN h \ {b} |->
        IF c = a THEN [next |-> h[b].next, prev |-> h[a].prev,
                       allocated |-> h[a].allocated, size |-> MergedSize(h, a, b)]
        ELSE IF c = h[b].next THEN WithPrev(h[c], a)
        ELSE h[c]]

Freed(a) == Marked(chunk, a, FALSE)

MergePrev(a) == IF FreeAt(Freed(a), chunk[a].prev)
                THEN Absorb(Freed(a), chunk[a].prev, a) ELSE Freed(a)
AtHand(a) == IF FreeAt(Freed(a), chunk[a].prev) THEN chunk[a].prev ELSE a

MergeNextNever(h, a) == h    \* Defect: only the chunk before is merged

MergeNext(h, a) == IF FreeAt(h, h[a].next) THEN Absorb(h, a, h[a].next) ELSE h

Free(a) ==
    /\ chunk[a].allocated
    /\ chunk' = MergeNext(MergePrev(a), AtHand(a))
    /\ UNCHANGED first

Next == \/ \E n \in Requests : Malloc(n) \/ MallocFails(n)
        \/ \E a \in Headers : Free(a)

Spec == Init /\ [][Next]_vars
-----------------------------------------------------------------------------
(* What must hold.                                                         *)

(* The parts of the invariant, for a chunk map h.                          *)
Typed(h) ==
    /\ DOMAIN h \subseteq Start..End
    /\ h \in [DOMAIN h -> [next : DOMAIN h \cup {Null}, prev : DOMAIN h \cup {Null},
                           allocated : BOOLEAN, size : Nat]]

Limit(h, a) == a + Header + h[a].size

LinksMeet(h) ==
    \A a \in DOMAIN h :
       /\ h[a].next = Null => Limit(h, a) = End
       /\ h[a].next # Null => Limit(h, a) = h[a].next /\ h[h[a].next].prev = a
       /\ h[a].prev = Null => a = Start
       /\ h[a].prev # Null => h[h[a].prev].next = a

InOrder(h) == \A a, b \in DOMAIN h : a < b => Limit(h, a) <= b

(* Headers have the fields of a MemoryChunk, and lie in the heap.          *)
TypeOK == first \in {Null, Start} /\ Typed(chunk)

(* The list and the memory agree: every chunk ends where the next header   *)
(* begins, or at the end of the heap, next and prev are inverse, and the   *)
(* list starts at the start of the heap.  So no byte is lost, whatever is  *)
(* split and merged (lines 46-58 and 71-87).                               *)
ListTilesHeap ==
    /\ first = Null => Headers = {}
    /\ first # Null => Start \in Headers
    /\ LinksMeet(chunk)

(* No chunk reaches into another: the list is in the order of the          *)
(* addresses, which makes malloc's search first fit, and two blocks that   *)
(* are out never overlap.                                                  *)
ListInOrder == InOrder(chunk)

(* Free neighbours never stay apart: free looks only one chunk to either   *)
(* side, and that is enough (lines 71-87): as the list tiles the heap, a    *)
(* heap of which nothing is out is one chunk again.                        *)
NoFreeNeighbours ==
    \A a \in Headers : ~chunk[a].allocated /\ chunk[a].next # Null =>
        chunk[chunk[a].next].allocated

(* Callers get what module Allocator promises.                             *)
Promise == INSTANCE Allocator WITH
    blocks <- {[base |-> a + Header, length |-> chunk[a].size] :
                  a \in {b \in Headers : chunk[b].allocated}}
RefinesAllocator == Promise!Spec
=============================================================================
