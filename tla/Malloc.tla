------------------------------- MODULE Malloc -------------------------------
(***************************************************************************)
(* The memory functions (libgloss/malloc.c, mallocglue.c, realloc.c):      *)
(* malloc(), calloc(), memalign(), realloc() and free() on one pool of     *)
(* WarpOS, which is external.  A block carries its way back in three words *)
(* before its first byte; they are as safe as the arithmetic that placed   *)
(* them.  size_t has Bits bits: the product in calloc() and the sum in      *)
(* memamiga() wrap.                                                        *)
(***************************************************************************)
EXTENDS Integers, FiniteSets

CONSTANTS
  Bits,        \* the width of size_t, 32 in the code
  Memory,      \* no byte of the pool is at this address or above
  Places,      \* addresses AllocPooledPPC() may return
  Wanted,      \* numbers of bytes a program asks for; calloc() gets them as a product
  Aligns,      \* alignments memalign() is called with
  MaxBlocks    \* bound: blocks a program has at a time

Word == 2^Bits

ASSUME WidthAssumption == Bits \in Nat /\ Word \in Nat /\ Word > 64 /\ Memory \in Nat /\ Memory <= Word
ASSUME PlaceAssumption == Places \subseteq Nat
ASSUME SizeAssumption ==
  Wanted \subseteq Nat /\ Aligns \subseteq 0 .. Word - 1 /\ MaxBlocks \in Nat

VARIABLES
  phase,     \* before __initmalloc, running, after __exitmalloc; "wild": an illegal
             \* instruction in free(), or memory given back that is not the block's
  chunks,    \* what the pool has given and not got back
  blocks,    \* the blocks of the program
  wrapped    \* a size has wrapped

vars == <<phase, chunks, blocks, wrapped>>

Chunk == [at : Nat, size : Nat]

\* loc and size are the words before the block, sound: nothing has been written over them.
Block == [ptr : Int, want : Nat, loc : Nat, size : Nat, wraps : BOOLEAN, sound : BOOLEAN]

ChunkOf(b) == [at |-> b.loc, size |-> b.size]

Header == 12

----------------------------------------------------------------------------
(* memamiga()                                                              *)

Alignment(align) == IF align < 32 THEN 32 ELSE align

\* (align & -align) == align
IsPower(align) == \E k \in 0 .. Bits - 1 : align = 2^k

\* A mutation of TotalSize: the alignment is not counted.
WithoutAlignment(n, align) == (n + 32) % Word

TotalSize(n, align) == (n + align + 32) % Word

\* size_t does not hold the product of calloc() or the sum of memamiga().
Wraps(want, align) == want + align + 32 >= Word

\* (a + align + 31) & -align
Aligned(a, align) == LET x == (a + align + 31) % Word IN x - (x % align)

\* A mutation of Words: the size that was asked for is stored.
WantedWords(want, align, a) ==
  [ptr |-> Aligned(a, align), want |-> want, loc |-> a, size |-> want % Word,
   wraps |-> Wraps(want, align), sound |-> TRUE]

\* The block with its three words, in the chunk at a.
Words(want, align, a) ==
  [ptr |-> Aligned(a, align), want |-> want, loc |-> a, size |-> TotalSize(want % Word, align),
   wraps |-> Wraps(want, align), sound |-> TRUE]

\* Writing n bytes at address q hits the words before block b.
Hits(q, n, b) ==
  \E i \in 0 .. (IF n < Word THEN n ELSE Word) - 1 : (q + i) % Word \in b.ptr - Header .. b.ptr - 1

Overwritten(set, q, n) == {[b EXCEPT !.sound = b.sound /\ ~Hits(q, n, b)] : b \in set}

\* AllocPooledPPC() may give size bytes at a.
Given(a, size) ==
  /\ size > 0 /\ a + size <= Memory
  /\ \A c \in chunks : a + size <= c.at \/ c.at + c.size <= a

\* The blocks there are once block b has been made among old: its words are written.
With(old, b) == Overwritten(old, b.ptr - Header, Header) \cup {b}

----------------------------------------------------------------------------
Init ==
  /\ phase = "start"
  /\ chunks = {} /\ blocks = {} /\ wrapped = FALSE

\* __initmalloc
InitMalloc ==
  /\ phase = "start" /\ phase' = "running"
  /\ UNCHANGED <<chunks, blocks, wrapped>>

\* memalign(), and malloc() with 32.
Memalign(want, align) ==
  LET al == Alignment(align) IN
  /\ phase = "running" /\ want < Word /\ IsPower(al) /\ Cardinality(blocks) < MaxBlocks
  /\ \E a \in Places :
       LET b == Words(want, al, a) IN
       /\ Given(a, TotalSize(want % Word, al))
       /\ chunks' = chunks \cup {ChunkOf(b)}
       /\ blocks' = With(blocks, b)
  /\ wrapped' = (wrapped \/ Wraps(want, al))
  /\ UNCHANGED phase

\* calloc() clears as many bytes as it has asked for.
Calloc(want) ==
  /\ phase = "running" /\ Cardinality(blocks) < MaxBlocks
  /\ \E a \in Places :
       LET b == Words(want, 32, a) IN
       /\ Given(a, TotalSize(want % Word, 32))
       /\ chunks' = chunks \cup {ChunkOf(b)}
       /\ blocks' = Overwritten(With(blocks, b), b.ptr, want % Word)
  /\ wrapped' = (wrapped \/ Wraps(want, 32))
  /\ UNCHANGED phase

\* The pool has no memory, or the alignment is no power of two: NULL.
Refused ==
  /\ phase = "running"
  /\ UNCHANGED vars

\* FreePooledPPC() is given what the words say.
Returned(b) == chunks' = chunks \ {ChunkOf(b)}

\* The cookie is gone, or the other words are: an illegal instruction or somebody
\* else's memory.
Crash(b) == ~b.sound /\ phase' = "wild" /\ UNCHANGED <<chunks, blocks>>

Free(b) ==
  /\ phase = "running"
  /\ \/ b.sound /\ Returned(b) /\ blocks' = blocks \ {b} /\ UNCHANGED phase
     \/ Crash(b)
  /\ UNCHANGED wrapped

\* realloc() has copied into c and frees b; old are the blocks as the copying left them.
Replace(b, c, old) ==
  \/ /\ b.sound /\ b \in old
     /\ chunks' = (chunks \cup {ChunkOf(c)}) \ {ChunkOf(b)}
     /\ blocks' = old \ {b} /\ UNCHANGED phase
  \/ ~(b.sound /\ b \in old) /\ phase' = "wild" /\ UNCHANGED <<chunks, blocks>>

\* realloc() copies as many bytes as the new block was asked to have.
Realloc(b, want) ==
  /\ phase = "running" /\ want # 0 /\ want < Word
  /\ \E a \in Places :
       LET c == Words(want, 32, a) IN
       /\ Given(a, TotalSize(want % Word, 32))
       /\ Replace(b, c, Overwritten(With(blocks, c), c.ptr, want))
  /\ wrapped' = (wrapped \/ Wraps(want, 32))

\* A program that writes all the bytes it believes to have.
Fill(b) ==
  /\ phase = "running"
  /\ blocks' = Overwritten(blocks, b.ptr, b.want)
  /\ UNCHANGED <<phase, chunks, wrapped>>

\* __exitmalloc
ExitMalloc ==
  /\ phase = "running" /\ phase' = "ended"
  /\ chunks' = {} /\ blocks' = {}
  /\ UNCHANGED wrapped

Next ==
  \/ InitMalloc \/ Refused \/ ExitMalloc
  \/ \E want \in Wanted : Calloc(want) \/ (\E align \in Aligns : Memalign(want, align))
  \/ \E b \in blocks : Free(b) \/ Fill(b) \/ (\E want \in Wanted : Realloc(b, want))

Spec == Init /\ [][Next]_vars

----------------------------------------------------------------------------
TypeOK ==
  /\ phase \in {"start", "running", "ended", "wild"}
  /\ chunks \subseteq Chunk
  /\ blocks \subseteq Block
  /\ wrapped \in BOOLEAN

\* Every byte the pool has given belongs to one block and goes back with it, whole and
\* once, also after a realloc() (malloc.c:40-41, 58-60, realloc.c:33).
Accounted ==
  phase # "wild" =>
    /\ chunks = {ChunkOf(b) : b \in blocks}
    /\ \A b, c \in blocks : b.loc = c.loc => b = c

\* As long as no size has wrapped (malloc.c:29), a program that stays within its blocks
\* never writes over the words before a block (malloc.c:33-41), and free() finds them.
WordsSurvive == ~wrapped => phase # "wild" /\ \A b \in blocks : b.sound

\* The blocks a program can rely on.
Reliable == {[id |-> b.loc, ptr |-> b.ptr, len |-> b.want] : b \in {c \in blocks : ~c.wraps}}

Promise == INSTANCE Heap WITH heap <- Reliable

\* The blocks whose size has not wrapped are blocks as Heap promises them: whatever the
\* alignment and however they are resized, none overlaps another (malloc.c:29-33).
KeepsPromise == Promise!HeapSpec
=============================================================================
