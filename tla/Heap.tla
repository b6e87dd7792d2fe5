-------------------------------- MODULE Heap --------------------------------
(***************************************************************************)
(* What malloc(), realloc() and free() promise a program: the blocks it    *)
(* has never overlap.                                                      *)
(***************************************************************************)
EXTENDS Integers

VARIABLE heap   \* the blocks the program has: which it is, its first address, its length

\* Blocks of no bytes have their own addresses too.
Apart(b, c) == b.ptr # c.ptr /\ (b.ptr + b.len <= c.ptr \/ c.ptr + c.len <= b.ptr)

Block == [id : Nat, ptr : Nat, len : Nat]

\* b can be handed out: it overlaps no block the program has.
Fresh(b) == b \in Block /\ \A c \in heap : Apart(b, c)

Empty == heap = {}

Allocate == \E b \in heap' : Fresh(b) /\ heap' = heap \cup {b}

Discard == \E b \in heap : heap' = heap \ {b}

\* realloc(): the new block is another one, so that the old can be copied.
Resize == \E b \in heap, c \in heap' : Fresh(c) /\ heap' = (heap \ {b}) \cup {c}

GiveUp == heap' = {}

Step == Allocate \/ Discard \/ Resize \/ GiveUp

HeapSpec == Empty /\ [][Step]_heap
=============================================================================
