---------------------------- MODULE MallocProofs ----------------------------
(***************************************************************************)
(* For every width of size_t, every pool and all requests: the memory      *)
(* functions account for what they take, keep the words before the blocks  *)
(* of a program intact as long as no size has wrapped, and implement Heap. *)
(***************************************************************************)
EXTENDS Malloc, TLAPS

\* A block whose size has not wrapped lies in its chunk, 32 bytes or more behind its
\* beginning: there the three words are.
Laid(b) == ~b.wraps => b.loc + 32 <= b.ptr /\ b.ptr + b.want <= b.loc + b.size

Separate(c, d) == c.at + c.size <= d.at \/ d.at + d.size <= c.at

\* The invariant of the chunks ch, the blocks bl and of whether a size has wrapped; realloc()
\* goes through it three times.
Good(ch, bl, wr) ==
  /\ ch \subseteq Chunk /\ bl \subseteq Block /\ wr \in BOOLEAN
  /\ \A c, d \in ch : c # d => Separate(c, d)
  /\ \A c \in ch : c.size > 0 /\ c.at + c.size <= Memory
  /\ ch = {ChunkOf(b) : b \in bl}
  /\ \A b, c \in bl : b.loc = c.loc => b = c
  /\ \A b \in bl : Laid(b)
  /\ ~wr => \A b \in bl : b.sound /\ ~b.wraps

IInv ==
  /\ phase \in {"start", "running", "ended", "wild"}
  /\ Good(chunks, blocks, wrapped)
  /\ ~wrapped => phase # "wild"

USE DEF Chunk, Block, ChunkOf

----------------------------------------------------------------------------
\* Arithmetic.

\* What % is for a divisor that is not 0.
LEMMA Remainder ==
  ASSUME NEW x \in Nat, NEW n \in Nat, n > 0
  PROVE  /\ x % n \in 0 .. n - 1
         /\ x < n => x % n = x
         /\ x - (x % n) \in Nat /\ x - (x % n) <= x /\ x - (x % n) > x - n
OBVIOUS

LEMMA Alignments ==
  ASSUME NEW align \in Aligns
  PROVE  Alignment(align) \in 32 .. Word - 1
BY WidthAssumption, SizeAssumption DEF Alignment

\* A new block is a block, and lies in its chunk.
LEMMA NewBlock ==
  ASSUME NEW want \in Nat, NEW al \in 32 .. Word - 1, NEW a \in Nat,
         Given(a, TotalSize(want % Word, al))
  PROVE  LET b == Words(want, al, a) IN
         /\ b \in Block /\ Laid(b) /\ b.sound
         /\ b.loc = a /\ b.size = TotalSize(want % Word, al) /\ b.want = want
         /\ b.wraps = Wraps(want, al)
<1> DEFINE b == Words(want, al, a)
           x == (a + al + 31) % Word
<1>1. Word \in Nat /\ Word > 64 /\ Memory <= Word /\ Memory \in Nat
  BY WidthAssumption
<1>2. want % Word \in 0 .. Word - 1 /\ TotalSize(want % Word, al) \in Nat /\ x \in Nat
  <2>1. want % Word \in 0 .. Word - 1
    BY <1>1, Remainder
  <2>2. (want % Word) + al + 32 \in Nat /\ a + al + 31 \in Nat
    BY <1>1, <2>1
  <2> QED
    BY <1>1, <2>1, <2>2, Remainder DEF TotalSize
<1>3. x - (x % al) \in Nat /\ x - (x % al) <= x /\ x - (x % al) > x - al
  BY <1>1, <1>2, Remainder
<1>4. b \in Block
  BY <1>2, <1>3 DEF Words, Aligned, Wraps
<1>5. ASSUME ~Wraps(want, al)
      PROVE  a + 32 <= b.ptr /\ b.ptr + want <= a + b.size
  <2>1. want + al + 32 < Word /\ want < Word
    BY <1>1, <1>5 DEF Wraps
  <2>2. TotalSize(want % Word, al) = want + al + 32
    <3>1. want % Word = want
      BY <1>1, <2>1, Remainder
    <3> QED
      BY <1>1, <2>1, <3>1, Remainder DEF TotalSize
  <2>3. a + al + 31 < Word
    BY <1>1, <2>2 DEF Given
  <2>4. x = a + al + 31
    BY <1>1, <2>3, Remainder
  <2> QED
    BY <1>3, <2>2, <2>4 DEF Words, Aligned
<1> QED
  BY <1>4, <1>5 DEF Words, Laid

\* Writing the n bytes at q misses the words of a block that begins elsewhere.
LEMMA Misses ==
  ASSUME NEW q \in Nat, NEW n \in Nat, q + n <= Word, NEW b \in Block,
         q + n <= b.ptr - Header \/ b.ptr <= q
  PROVE  ~Hits(q, n, b)
<1> SUFFICES ASSUME NEW i \in 0 .. (IF n < Word THEN n ELSE Word) - 1,
                    (q + i) % Word \in b.ptr - Header .. b.ptr - 1
             PROVE  FALSE
  BY DEF Hits
<1>1. Word \in Nat /\ Word > 64
  BY WidthAssumption
<1>2. i \in Nat /\ i < n /\ q + i < Word
  BY <1>1
<1>3. (q + i) % Word = q + i
  BY <1>1, <1>2, Remainder
<1> QED
  BY <1>2, <1>3 DEF Header

----------------------------------------------------------------------------
\* Overwriting changes nothing of a block but whether its words are sound.

Kept(x, b) ==
  /\ x.ptr = b.ptr /\ x.want = b.want /\ x.loc = b.loc /\ x.size = b.size
  /\ x.wraps = b.wraps

LEMMA OverwrittenKeeps ==
  ASSUME NEW set \in SUBSET Block, NEW q \in Int, NEW n \in Nat
  PROVE  /\ Overwritten(set, q, n) \subseteq Block
         /\ \A x \in Overwritten(set, q, n) : \E b \in set :
              /\ Kept(x, b) /\ x.sound = (b.sound /\ ~Hits(q, n, b))
         /\ \A b \in set : \E x \in Overwritten(set, q, n) : Kept(x, b)
         /\ (\A b, c \in set : b.loc = c.loc => b = c) =>
              \A x, y \in Overwritten(set, q, n) : x.loc = y.loc => x = y
<1> DEFINE ow(b) == [b EXCEPT !.sound = b.sound /\ ~Hits(q, n, b)]
<1>1. \A b \in set : ow(b) \in Block
  BY DEF Hits
<1>2. \A b \in set : Kept(ow(b), b) /\ ow(b).sound = (b.sound /\ ~Hits(q, n, b))
  BY DEF Kept
<1>3. Overwritten(set, q, n) = {ow(b) : b \in set}
  BY DEF Overwritten
<1> HIDE DEF ow
<1>4. ASSUME \A b, c \in set : b.loc = c.loc => b = c,
             NEW x \in Overwritten(set, q, n), NEW y \in Overwritten(set, q, n), x.loc = y.loc
      PROVE  x = y
  BY <1>2, <1>3, <1>4 DEF Kept
<1> QED
  BY <1>1, <1>2, <1>3, <1>4
----------------------------------------------------------------------------
\* The three steps the calls are made of.

\* Writing within block b keeps the invariant.
LEMMA WritingKeepsGood ==
  ASSUME NEW ch, NEW bl, NEW wr, Good(ch, bl, wr),
         NEW b \in bl, NEW n \in Nat, wr \/ n <= b.want
  PROVE  Good(ch, Overwritten(bl, b.ptr, n), wr)
<1> DEFINE ow == Overwritten(bl, b.ptr, n)
<1>1. bl \in SUBSET Block /\ b \in Block
  BY DEF Good
<1>2. /\ ow \subseteq Block
      /\ \A x \in ow : \E c \in bl : Kept(x, c) /\ x.sound = (c.sound /\ ~Hits(b.ptr, n, c))
      /\ \A c \in bl : \E x \in ow : Kept(x, c)
      /\ (\A c, d \in bl : c.loc = d.loc => c = d) =>
           \A x, y \in ow : x.loc = y.loc => x = y
  BY <1>1, OverwrittenKeeps
<1> HIDE DEF ow
<1>3. ch = {ChunkOf(x) : x \in ow}
  <2>1. ch = {ChunkOf(c) : c \in bl}
    BY DEF Good
  <2> QED
    BY <1>2, <2>1 DEF Kept
<1>4. \A x \in ow : Laid(x)
  BY <1>2 DEF Good, Laid, Kept
<1>5. ASSUME ~wr, NEW x \in ow
      PROVE  x.sound /\ ~x.wraps
  <2>1. PICK c \in bl : Kept(x, c) /\ x.sound = (c.sound /\ ~Hits(b.ptr, n, c))
    BY <1>2
  <2>2. c.sound /\ ~c.wraps /\ ~b.wraps /\ Laid(b) /\ Laid(c)
    BY <1>5 DEF Good
  <2>3. ~Hits(b.ptr, n, c)
    <3>1. b.loc \in Nat /\ b.size \in Nat /\ b.want \in Nat /\ b.ptr \in Int
          /\ c.loc \in Nat /\ c.size \in Nat /\ c.want \in Nat /\ c.ptr \in Int /\ c \in Block
      BY <1>1, <1>2, <2>1 DEF Good
    <3>2. b.loc + 32 <= b.ptr /\ b.ptr + n <= b.loc + b.size /\ c.loc + 32 <= c.ptr
          /\ c.ptr + c.want <= c.loc + c.size
      BY <1>5, <2>2, <3>1 DEF Laid
    <3>3. ChunkOf(b) \in ch /\ ChunkOf(c) \in ch
      BY <2>1 DEF Good
    <3>4. b.loc + b.size <= Memory
      BY <3>3 DEF Good
    <3>5. b.ptr + n <= Word
      BY <3>1, <3>2, <3>4, WidthAssumption
    <3>6. b.ptr + n <= c.ptr - Header \/ c.ptr <= b.ptr
      <4>1. CASE b = c
        BY <3>1, <4>1
      <4>2. CASE b # c
        <5>1. b.loc # c.loc
          BY <2>1, <4>2 DEF Good
        <5>2. b.loc + b.size <= c.loc \/ c.loc + c.size <= b.loc
          BY <3>3, <5>1 DEF Good, Separate
        <5> QED
          BY <3>1, <3>2, <5>2 DEF Header
      <4> QED
        BY <4>1, <4>2
    <3> QED
      BY <3>1, <3>2, <3>5, <3>6, Misses
  <2> QED
    BY <2>1, <2>2, <2>3 DEF Kept
<1>6. Good(ch, ow, wr)
  BY <1>2, <1>3, <1>4, <1>5 DEF Good
<1> QED
  BY <1>6 DEF ow

\* Allocating keeps it.
LEMMA AddingKeepsGood ==
  ASSUME Good(chunks, blocks, wrapped), NEW want \in Nat, NEW al \in 32 .. Word - 1,
         NEW a \in Nat, Given(a, TotalSize(want % Word, al))
  PROVE  LET b == Words(want, al, a) IN
         /\ Good(chunks \cup {ChunkOf(b)}, With(blocks, b), wrapped \/ Wraps(want, al))
         /\ b \in With(blocks, b)
<1> DEFINE b == Words(want, al, a)
           q == b.ptr - Header
           ow == Overwritten(blocks, q, Header)
           ch == chunks \cup {ChunkOf(b)}
<1>1. /\ b \in Block /\ Laid(b) /\ b.sound
      /\ b.loc = a /\ b.size = TotalSize(want % Word, al) /\ b.want = want
      /\ b.wraps = Wraps(want, al)
  BY NewBlock
<1> HIDE DEF b
<1>2. blocks \in SUBSET Block /\ q \in Int /\ Header \in Nat
  BY <1>1 DEF Good, Header
<1>3. /\ ow \subseteq Block
      /\ \A x \in ow : \E c \in blocks : Kept(x, c) /\ x.sound = (c.sound /\ ~Hits(q, Header, c))
      /\ \A c \in blocks : \E x \in ow : Kept(x, c)
      /\ (\A c, d \in blocks : c.loc = d.loc => c = d) =>
           \A x, y \in ow : x.loc = y.loc => x = y
  BY <1>2, OverwrittenKeeps
<1> HIDE DEF ow
<1>4. With(blocks, b) = ow \cup {b}
  BY DEF With, ow, q
<1>5. /\ b.size > 0 /\ a + b.size <= Memory
      /\ \A c \in chunks : a + b.size <= c.at \/ c.at + c.size <= a
  BY <1>1 DEF Given
<1>6. \A c \in ch : c.size > 0 /\ c.at + c.size <= Memory
  BY <1>1, <1>5 DEF Good
<1>7. \A c, d \in ch : c # d => Separate(c, d)
  BY <1>1, <1>5 DEF Good, Separate
<1>8. ch = {ChunkOf(x) : x \in ow \cup {b}}
  <2>1. chunks = {ChunkOf(c) : c \in blocks}
    BY DEF Good
  <2>2. chunks = {ChunkOf(x) : x \in ow}
    BY <1>3, <2>1 DEF Kept
  <2> QED
    BY <2>2
<1>9. \A c \in blocks : c.loc # a
  <2> SUFFICES ASSUME NEW c \in blocks, c.loc = a PROVE FALSE
    OBVIOUS
  <2>1. ChunkOf(c) \in chunks /\ c \in Block
    BY DEF Good
  <2>2. c.size > 0
    BY <2>1 DEF Good
  <2> QED
    BY <1>1, <1>5, <2>1, <2>2
<1>10. \A x, y \in ow \cup {b} : x.loc = y.loc => x = y
  BY <1>1, <1>3, <1>9 DEF Kept, Good
<1>11. \A x \in ow \cup {b} : Laid(x)
  BY <1>1, <1>3 DEF Good, Laid, Kept
<1>12. ASSUME ~(wrapped \/ Wraps(want, al)), NEW x \in ow
       PROVE  x.sound /\ ~x.wraps
  <2>1. PICK c \in blocks : Kept(x, c) /\ x.sound = (c.sound /\ ~Hits(q, Header, c))
    BY <1>3
  <2>2. c.sound /\ ~c.wraps /\ ~b.wraps /\ Laid(c)
    BY <1>1, <1>12 DEF Good
  <2>3. ~Hits(q, Header, c)
    <3>1. b.loc \in Nat /\ b.size \in Nat /\ b.want \in Nat /\ b.ptr \in Int
          /\ c.loc \in Nat /\ c.size \in Nat /\ c.want \in Nat /\ c.ptr \in Int /\ c \in Block
      BY <1>1, <1>2
    <3>2. b.loc + 32 <= b.ptr /\ b.ptr + b.want <= b.loc + b.size /\ c.loc + 32 <= c.ptr
          /\ c.ptr + c.want <= c.loc + c.size
      BY <1>1, <2>2 DEF Laid
    <3>3. ChunkOf(c) \in chunks
      BY DEF Good
    <3>4. b.loc + b.size <= c.loc \/ c.loc + c.size <= b.loc
      BY <1>1, <1>5, <3>3
    <3>5. q \in Nat /\ q + Header <= Word /\ (q + Header <= c.ptr - Header \/ c.ptr <= q)
      BY <1>1, <1>5, <3>1, <3>2, <3>4, WidthAssumption DEF Header
    <3> QED
      BY <1>2, <3>1, <3>5, Misses
  <2> QED
    BY <2>1, <2>2, <2>3 DEF Kept
<1>13. Wraps(want, al) \in BOOLEAN /\ wrapped \in BOOLEAN
  BY DEF Wraps, Good
<1>14. ch \subseteq Chunk /\ ow \cup {b} \subseteq Block
  BY <1>1, <1>3 DEF Good
<1> QED
  <2>1. Good(ch, ow \cup {b}, wrapped \/ Wraps(want, al))
    BY <1>1, <1>6, <1>7, <1>8, <1>10, <1>11, <1>12, <1>13, <1>14 DEF Good
  <2> QED
    BY <1>4, <2>1 DEF b

\* Giving a block back keeps it.
LEMMA RemovingKeepsGood ==
  ASSUME NEW ch, NEW bl, NEW wr, Good(ch, bl, wr), NEW b \in bl
  PROVE  Good(ch \ {ChunkOf(b)}, bl \ {b}, wr)
<1>1. \A c \in bl : c # b => ChunkOf(c) # ChunkOf(b)
  BY DEF Good
<1>2. ch = {ChunkOf(c) : c \in bl}
  BY DEF Good
<1>3. ch \ {ChunkOf(b)} = {ChunkOf(c) : c \in bl \ {b}}
  BY <1>1, <1>2
<1> QED
  BY <1>3 DEF Good

----------------------------------------------------------------------------
\* The invariant.

\* The copying of realloc() and the freeing of the old block keep it.
LEMMA ReplacingKeepsGood ==
  ASSUME Good(chunks, blocks, wrapped), NEW b \in blocks, NEW want \in Nat, NEW a \in Nat,
         Given(a, TotalSize(want % Word, 32))
  PROVE  LET c   == Words(want, 32, a)
             old == Overwritten(With(blocks, c), c.ptr, want)
             wr  == wrapped \/ Wraps(want, 32)
         IN /\ Good(chunks \cup {ChunkOf(c)}, old, wr)
            /\ b \in old => Good((chunks \cup {ChunkOf(c)}) \ {ChunkOf(b)}, old \ {b}, wr)
            /\ ~wr => b.sound /\ b \in old
<1> DEFINE c   == Words(want, 32, a)
           old == Overwritten(With(blocks, c), c.ptr, want)
           wr  == wrapped \/ Wraps(want, 32)
           ch  == chunks \cup {ChunkOf(c)}
<1>1. 32 \in 32 .. Word - 1
  BY WidthAssumption
<1>2. Good(ch, With(blocks, c), wr) /\ c \in With(blocks, c) /\ c.want = want
      /\ c \in Block /\ c.loc = a
  BY <1>1, AddingKeepsGood, NewBlock
<1> HIDE DEF c
<1>3. Good(ch, old, wr)
  BY <1>2, WritingKeepsGood
<1>4. b \in old => Good(ch \ {ChunkOf(b)}, old \ {b}, wr)
  BY <1>3, RemovingKeepsGood
<1>5. ASSUME ~wr
      PROVE  b.sound /\ b \in old
  <2>1. b \in Block /\ blocks \in SUBSET Block /\ With(blocks, c) \in SUBSET Block
    BY <1>2 DEF Good
  <2>2. b.sound
    BY <1>5 DEF Good
  <2>3. PICK x \in Overwritten(blocks, c.ptr - Header, Header) : Kept(x, b)
    BY <1>2, <2>1, OverwrittenKeeps DEF Header
  <2>4. x \in With(blocks, c)
    BY DEF With
  <2>5. PICK y \in old : Kept(y, x)
    BY <1>2, <2>1, <2>4, OverwrittenKeeps
  <2>6. y.sound /\ y \in Block
    BY <1>3, <1>5 DEF Good
  <2>7. y = b
    BY <2>1, <2>2, <2>3, <2>5, <2>6 DEF Kept
  <2> QED
    BY <2>2, <2>7
<1> QED
  BY <1>3, <1>4, <1>5 DEF c

LEMMA InitGood == Init => IInv
BY DEF Init, IInv, Good

LEMMA NextGood == IInv /\ [Next]_vars => IInv'
<1> SUFFICES ASSUME IInv, [Next]_vars PROVE IInv'
  OBVIOUS
<1> USE DEF IInv
<1>0. Good(chunks, blocks, wrapped) /\ Places \subseteq Nat /\ Wanted \subseteq Nat
      /\ Word \in Nat /\ Word > 64 /\ 32 \in 32 .. Word - 1
  BY WidthAssumption, PlaceAssumption, SizeAssumption
<1>1. CASE InitMalloc
  BY <1>1 DEF InitMalloc
<1>2. CASE Refused
  BY <1>2 DEF Refused, vars
<1>3. CASE ExitMalloc
  <2>1. Good({}, {}, wrapped)
    BY <1>0 DEF Good
  <2> QED
    BY <1>3, <2>1 DEF ExitMalloc
<1>4. ASSUME NEW want \in Wanted, Calloc(want)
      PROVE  IInv'
  <2>1. PICK a \in Places :
          LET b == Words(want, 32, a) IN
          /\ Given(a, TotalSize(want % Word, 32))
          /\ chunks' = chunks \cup {ChunkOf(b)}
          /\ blocks' = Overwritten(With(blocks, b), b.ptr, want % Word)
    BY <1>4 DEF Calloc
  <2> DEFINE b == Words(want, 32, a)
             wr == wrapped \/ Wraps(want, 32)
  <2>2. want \in Nat /\ a \in Nat /\ want % Word \in Nat /\ (want < Word => want % Word = want)
    BY <1>0, Remainder
  <2>3. Good(chunks \cup {ChunkOf(b)}, With(blocks, b), wr) /\ b \in With(blocks, b)
    BY <1>0, <2>1, <2>2, AddingKeepsGood
  <2>4. b.want = want
    BY DEF Words
  <2>5. wr \/ want % Word <= want
    BY <1>0, <2>2 DEF Wraps
  <2> HIDE DEF b
  <2>6. Good(chunks \cup {ChunkOf(b)}, Overwritten(With(blocks, b), b.ptr, want % Word), wr)
    BY <2>2, <2>3, <2>4, <2>5, WritingKeepsGood
  <2>7. /\ chunks' = chunks \cup {ChunkOf(b)}
        /\ blocks' = Overwritten(With(blocks, b), b.ptr, want % Word)
        /\ wrapped' = wr /\ phase' = phase
    BY <1>4, <2>1 DEF Calloc, b
  <2> QED
    BY <2>6, <2>7
<1>5. ASSUME NEW want \in Wanted, NEW align \in Aligns, Memalign(want, align)
      PROVE  IInv'
  <2> DEFINE al == Alignment(align)
  <2>1. PICK a \in Places :
          LET b == Words(want, al, a) IN
          /\ Given(a, TotalSize(want % Word, al))
          /\ chunks' = chunks \cup {ChunkOf(b)}
          /\ blocks' = With(blocks, b)
    BY <1>5 DEF Memalign
  <2>2. want \in Nat /\ a \in Nat /\ al \in 32 .. Word - 1
    BY <1>0, Alignments
  <2>3. Good(chunks \cup {ChunkOf(Words(want, al, a))}, With(blocks, Words(want, al, a)),
             wrapped \/ Wraps(want, al))
    BY <1>0, <2>1, <2>2, AddingKeepsGood
  <2>4. wrapped' = (wrapped \/ Wraps(want, al)) /\ phase' = phase
    BY <1>5 DEF Memalign
  <2> QED
    BY <2>1, <2>3, <2>4
<1>6. ASSUME NEW b \in blocks, Free(b)
      PROVE  IInv'
  <2>1. CASE b.sound /\ Returned(b) /\ blocks' = blocks \ {b} /\ UNCHANGED phase
    <3>1. Good(chunks \ {ChunkOf(b)}, blocks \ {b}, wrapped)
      BY <1>0, RemovingKeepsGood
    <3> QED
      BY <1>6, <2>1, <3>1 DEF Free, Returned
  <2>2. CASE Crash(b)
    <3>1. wrapped
      BY <1>0, <2>2 DEF Crash, Good
    <3> QED
      BY <1>0, <1>6, <2>2, <3>1 DEF Crash, Free
  <2> QED
    BY <1>6, <2>1, <2>2 DEF Free
<1>7. ASSUME NEW b \in blocks, Fill(b)
      PROVE  IInv'
  <2>1. b.want \in Nat /\ b.want <= b.want
    BY <1>0 DEF Good
  <2>2. Good(chunks, Overwritten(blocks, b.ptr, b.want), wrapped)
    BY <1>0, <2>1, WritingKeepsGood
  <2> QED
    BY <1>7, <2>2 DEF Fill
<1>8. ASSUME NEW b \in blocks, NEW want \in Wanted, Realloc(b, want)
      PROVE  IInv'
  <2>1. PICK a \in Places :
          LET c == Words(want, 32, a) IN
          /\ Given(a, TotalSize(want % Word, 32))
          /\ Replace(b, c, Overwritten(With(blocks, c), c.ptr, want))
    BY <1>8 DEF Realloc
  <2> DEFINE c   == Words(want, 32, a)
             old == Overwritten(With(blocks, c), c.ptr, want)
             wr  == wrapped \/ Wraps(want, 32)
  <2>2. want \in Nat /\ a \in Nat
    BY <1>0
  <2>3. /\ b \in old => Good((chunks \cup {ChunkOf(c)}) \ {ChunkOf(b)}, old \ {b}, wr)
        /\ ~wr => b.sound /\ b \in old
    BY <1>0, <2>1, <2>2, ReplacingKeepsGood
  <2>4. Replace(b, c, old) /\ wrapped' = wr
    BY <1>8, <2>1 DEF Realloc
  <2>5. Good(chunks, blocks, wr)
    BY <1>0 DEF Good, Wraps
  <2> HIDE DEF c, old, wr
  <2>6. CASE b.sound /\ b \in old
    <3>1. /\ chunks' = (chunks \cup {ChunkOf(c)}) \ {ChunkOf(b)} /\ blocks' = old \ {b}
          /\ phase' = phase /\ wrapped' = wr
      BY <2>4, <2>6 DEF Replace
    <3>2. Good(chunks', blocks', wrapped')
      BY <2>3, <2>6, <3>1
    <3>3. phase # "wild"
      BY <1>8 DEF Realloc
    <3> QED
      BY <3>1, <3>2, <3>3
  <2>7. CASE ~(b.sound /\ b \in old)
    <3>1. phase' = "wild" /\ chunks' = chunks /\ blocks' = blocks /\ wrapped' = wr /\ wr
      BY <2>3, <2>4, <2>7 DEF Replace
    <3> QED
      BY <2>5, <3>1
  <2> QED
    BY <2>6, <2>7
<1>9. CASE UNCHANGED vars
  BY <1>9 DEF vars
<1> QED
  BY <1>1, <1>2, <1>3, <1>4, <1>5, <1>6, <1>7, <1>8, <1>9 DEF Next

\* The invariant holds in every state.
THEOREM MallocSafe == Spec => []IInv
BY InitGood, NextGood, PTL DEF Spec

\* Nothing the pool has given is lost or given back in part (Accounted).
THEOREM AllAccounted == Spec => []Accounted
<1>1. IInv => Accounted
  BY DEF IInv, Good, Accounted
<1> QED
  BY <1>1, MallocSafe, PTL

\* Unless a size wraps, no words are overwritten and free() never crashes (WordsSurvive).
THEOREM WordsAreKept == Spec => []WordsSurvive
<1>1. IInv => WordsSurvive
  BY DEF IInv, Good, WordsSurvive
<1> QED
  BY <1>1, MallocSafe, PTL

----------------------------------------------------------------------------
\* The refinement.

Seen(b) == [id |-> b.loc, ptr |-> b.ptr, len |-> b.want]

SeenIn(bl) == {Seen(b) : b \in {c \in bl : ~c.wraps}}

\* The abstract block of each block is its own, and a natural one.
LEMMA SeenApart ==
  ASSUME NEW ch, NEW bl, NEW wr, Good(ch, bl, wr)
  PROVE  /\ \A b, c \in bl : Seen(b) = Seen(c) => b = c
         /\ \A b \in bl : ~b.wraps => Seen(b) \in Promise!Block
         /\ \A b, c \in bl : b # c /\ ~b.wraps /\ ~c.wraps => Promise!Apart(Seen(b), Seen(c))
<1>1. \A b, c \in bl : Seen(b) = Seen(c) => b = c
  BY DEF Good, Seen
<1>2. ASSUME NEW b \in bl, ~b.wraps PROVE Seen(b) \in Promise!Block
  <2>1. b.loc \in Nat /\ b.want \in Nat /\ b.ptr \in Int /\ b.loc + 32 <= b.ptr
    BY <1>2 DEF Good, Laid
  <2> QED
    BY <2>1 DEF Seen, Promise!Block
<1>3. ASSUME NEW b \in bl, NEW c \in bl, b # c, ~b.wraps, ~c.wraps
      PROVE  Promise!Apart(Seen(b), Seen(c))
  <2>1. b.loc \in Nat /\ b.want \in Nat /\ b.ptr \in Int /\ b.size \in Nat
        /\ c.loc \in Nat /\ c.want \in Nat /\ c.ptr \in Int /\ c.size \in Nat
    BY DEF Good
  <2>2. ChunkOf(b) \in ch /\ ChunkOf(c) \in ch /\ b.loc # c.loc
    BY <1>3 DEF Good
  <2>3. b.loc + b.size <= c.loc \/ c.loc + c.size <= b.loc
    BY <2>2 DEF Good, Separate
  <2>4. b.loc + 32 <= b.ptr /\ b.ptr + b.want <= b.loc + b.size
        /\ c.loc + 32 <= c.ptr /\ c.ptr + c.want <= c.loc + c.size
    BY <1>3 DEF Good, Laid
  <2> QED
    BY <2>1, <2>3, <2>4 DEF Seen, Promise!Apart
<1> QED
  BY <1>1, <1>2, <1>3

\* Writing changes no abstract block.
LEMMA WritingUnseen ==
  ASSUME NEW bl \in SUBSET Block, NEW q \in Int, NEW n \in Nat
  PROVE  SeenIn(Overwritten(bl, q, n)) = SeenIn(bl)
<1> DEFINE ow == Overwritten(bl, q, n)
<1>1. (\A x \in ow : \E b \in bl : Kept(x, b)) /\ (\A b \in bl : \E x \in ow : Kept(x, b))
  BY OverwrittenKeeps
<1> HIDE DEF ow
<1>2. \A x, b : Kept(x, b) => Seen(x) = Seen(b) /\ x.wraps = b.wraps
  BY DEF Kept, Seen
<1>3. SeenIn(ow) \subseteq SeenIn(bl)
  BY <1>1, <1>2 DEF SeenIn
<1>4. SeenIn(bl) \subseteq SeenIn(ow)
  <2> SUFFICES ASSUME NEW b \in bl, ~b.wraps PROVE Seen(b) \in SeenIn(ow)
    BY DEF SeenIn
  <2> QED
    BY <1>1, <1>2 DEF SeenIn
<1> QED
  BY <1>3, <1>4 DEF ow

\* With a new block the program sees that block more, or none if it has wrapped.
LEMMA AddingSeen ==
  ASSUME Good(chunks, blocks, wrapped), NEW want \in Nat, NEW al \in 32 .. Word - 1,
         NEW a \in Nat, Given(a, TotalSize(want % Word, al))
  PROVE  LET b == Words(want, al, a)
             n == SeenIn(With(blocks, b))
         IN /\ b.wraps => n = SeenIn(blocks)
            /\ ~b.wraps => /\ n = SeenIn(blocks) \cup {Seen(b)} /\ Seen(b) \in Promise!Block
                           /\ \A c \in SeenIn(blocks) : Promise!Apart(Seen(b), c)
            /\ \A c \in blocks : Seen(c) # Seen(b)
<1> DEFINE b  == Words(want, al, a)
           ow == Overwritten(blocks, b.ptr - Header, Header)
<1>1. Good(chunks \cup {ChunkOf(b)}, With(blocks, b), wrapped \/ Wraps(want, al))
      /\ b \in With(blocks, b) /\ b \in Block /\ b.loc = a
  BY ZenonT(40), AddingKeepsGood, NewBlock
<1> HIDE DEF b
<1>2. SeenIn(ow) = SeenIn(blocks)
  BY <1>1, WritingUnseen DEF Good, Header
<1>3. With(blocks, b) = ow \cup {b}
  BY DEF With
<1>4. \A c \in blocks : c.loc # a
  <2> SUFFICES ASSUME NEW c \in blocks, c.loc = a PROVE FALSE
    OBVIOUS
  <2>1. ChunkOf(c) \in chunks /\ c \in Block
    BY DEF Good
  <2>2. c.size > 0
    BY <2>1 DEF Good
  <2>3. TotalSize(want % Word, al) > 0 /\ TotalSize(want % Word, al) \in Nat
    BY Remainder, WidthAssumption, <1>1 DEF Given, Words, b
  <2> QED
    BY <2>1, <2>2, <2>3 DEF Given
<1> HIDE DEF ow
<1>5. b.wraps => SeenIn(ow \cup {b}) = SeenIn(ow)
  BY DEF SeenIn
<1>6. ~b.wraps => SeenIn(ow \cup {b}) = SeenIn(ow) \cup {Seen(b)}
  BY DEF SeenIn
<1>7. ASSUME ~b.wraps, NEW c \in SeenIn(blocks) PROVE Promise!Apart(Seen(b), c)
  <2>1. PICK x \in ow : c = Seen(x) /\ ~x.wraps
    BY <1>2 DEF SeenIn
  <2>2. PICK y \in blocks : c = Seen(y)
    BY DEF SeenIn
  <2>3. x # b
    BY <1>1, <1>4, <2>1, <2>2 DEF Seen
  <2> QED
    BY <1>1, <1>3, <1>7, <2>1, <2>3, SeenApart
<1>8. ~b.wraps => Seen(b) \in Promise!Block
  BY <1>1, SeenApart
<1>9. \A c \in blocks : Seen(c) # Seen(b)
  BY <1>1, <1>4 DEF Seen
<1> QED
  BY <1>2, <1>3, <1>5, <1>6, <1>7, <1>8, <1>9 DEF b

LEMMA RemovingSeen ==
  ASSUME NEW ch, NEW bl, NEW wr, Good(ch, bl, wr), NEW b \in bl
  PROVE  /\ b.wraps => SeenIn(bl \ {b}) = SeenIn(bl)
         /\ ~b.wraps => SeenIn(bl \ {b}) = SeenIn(bl) \ {Seen(b)} /\ Seen(b) \in SeenIn(bl)
<1>1. \A c \in bl : Seen(b) = Seen(c) => b = c
  BY SeenApart
<1> QED
  BY <1>1 DEF SeenIn

\* How a step of the memory functions looks to the program.
LEMMA StepSeen ==
  ASSUME IInv, [Next]_vars
  PROVE  [Promise!Step]_Reliable
<1> USE DEF IInv
<1> DEFINE s == SeenIn(blocks)
           t == SeenIn(blocks')
<1>1. Reliable = s /\ Reliable' = t
  BY DEF Reliable, SeenIn, Seen
<1> SUFFICES \/ t = s
             \/ \E b \in t : /\ b \in Promise!Block /\ (\A c \in s : Promise!Apart(b, c))
                             /\ t = s \cup {b}
             \/ \E b \in s : t = s \ {b}
             \/ \E b \in s, c \in t : /\ c \in Promise!Block /\ (\A d \in s : Promise!Apart(c, d))
                                      /\ t = (s \ {b}) \cup {c}
             \/ t = {}
  BY <1>1 DEF Promise!Step, Promise!Allocate, Promise!Discard, Promise!Resize, Promise!GiveUp,
              Promise!Fresh
<1>2. Good(chunks, blocks, wrapped) /\ Places \subseteq Nat /\ Wanted \subseteq Nat
      /\ Word \in Nat /\ Word > 64 /\ 32 \in 32 .. Word - 1 /\ blocks \in SUBSET Block
  BY WidthAssumption, PlaceAssumption, SizeAssumption DEF Good
<1>3. CASE UNCHANGED blocks
  BY <1>3
<1>4. CASE ExitMalloc
  BY <1>4 DEF ExitMalloc, SeenIn
<1>5. ASSUME NEW want \in Wanted, Calloc(want)
      PROVE  \/ t = s
             \/ \E b \in t : /\ b \in Promise!Block /\ (\A c \in s : Promise!Apart(b, c))
                             /\ t = s \cup {b}
  <2>1. PICK a \in Places :
          LET b == Words(want, 32, a) IN
          /\ Given(a, TotalSize(want % Word, 32))
          /\ chunks' = chunks \cup {ChunkOf(b)}
          /\ blocks' = Overwritten(With(blocks, b), b.ptr, want % Word)
    BY <1>5 DEF Calloc
  <2> DEFINE b == Words(want, 32, a)
             n == SeenIn(With(blocks, b))
  <2>2. want \in Nat /\ a \in Nat /\ want % Word \in Nat
    BY <1>2, Remainder
  <2>3. /\ b.wraps => n = s
        /\ ~b.wraps => /\ n = s \cup {Seen(b)} /\ Seen(b) \in Promise!Block
                       /\ \A c \in s : Promise!Apart(Seen(b), c)
        /\ Good(chunks \cup {ChunkOf(b)}, With(blocks, b), wrapped \/ Wraps(want, 32))
        /\ b \in Block
    <3>1. Given(a, TotalSize(want % Word, 32))
      BY <2>1
    <3>2. /\ b.wraps => n = s
          /\ ~b.wraps => /\ n = s \cup {Seen(b)} /\ Seen(b) \in Promise!Block
                         /\ \A c \in s : Promise!Apart(Seen(b), c)
      BY <1>2, <2>2, <3>1, AddingSeen
    <3>3. Good(chunks \cup {ChunkOf(b)}, With(blocks, b), wrapped \/ Wraps(want, 32))
      BY <1>2, <2>2, <3>1, AddingKeepsGood
    <3>4. b \in Block
      BY <1>2, <2>2, <3>1, NewBlock
    <3> QED
      BY <3>2, <3>3, <3>4
  <2>4. t = n
    <3>1. blocks' = Overwritten(With(blocks, b), b.ptr, want % Word)
      BY <2>1
    <3> HIDE DEF b
    <3>2. With(blocks, b) \in SUBSET Block /\ b.ptr \in Int
      BY <2>3 DEF Good
    <3> QED
      BY <2>2, <3>1, <3>2, WritingUnseen
  <2> HIDE DEF b, n, s, t
  <2> QED
    BY <2>3, <2>4
<1>6. ASSUME NEW want \in Wanted, NEW align \in Aligns, Memalign(want, align)
      PROVE  \/ t = s
             \/ \E b \in t : /\ b \in Promise!Block /\ (\A c \in s : Promise!Apart(b, c))
                             /\ t = s \cup {b}
  <2> DEFINE al == Alignment(align)
  <2>1. PICK a \in Places :
          LET b == Words(want, al, a) IN
          /\ Given(a, TotalSize(want % Word, al))
          /\ chunks' = chunks \cup {ChunkOf(b)}
          /\ blocks' = With(blocks, b)
    BY <1>6 DEF Memalign
  <2> DEFINE b == Words(want, al, a)
  <2>2. want \in Nat /\ a \in Nat /\ al \in 32 .. Word - 1
    BY <1>2, Alignments
  <2> HIDE DEF al
  <2>3. /\ b.wraps => t = s
        /\ ~b.wraps => /\ t = s \cup {Seen(b)} /\ Seen(b) \in Promise!Block
                       /\ \A c \in s : Promise!Apart(Seen(b), c)
    BY <1>2, <2>1, <2>2, AddingSeen
  <2> HIDE DEF b, s, t
  <2> QED
    BY <2>3
<1>7. ASSUME NEW b \in blocks, Free(b)
      PROVE  t = s \/ \E c \in s : t = s \ {c}
  <2>1. CASE blocks' = blocks \ {b}
    BY <1>2, <2>1, RemovingSeen
  <2> QED
    BY <1>7, <2>1 DEF Free, Crash
<1>8. ASSUME NEW b \in blocks, Fill(b)
      PROVE  t = s
  <2>1. b.want \in Nat /\ b.ptr \in Int
    BY <1>2
  <2> QED
    BY <1>2, <1>8, <2>1, WritingUnseen DEF Fill
<1>9. ASSUME NEW b \in blocks, NEW want \in Wanted, Realloc(b, want)
      PROVE  \/ t = s
             \/ \E c \in t : /\ c \in Promise!Block /\ (\A d \in s : Promise!Apart(c, d))
                             /\ t = s \cup {c}
             \/ \E c \in s : t = s \ {c}
             \/ \E c \in s, d \in t : /\ d \in Promise!Block /\ (\A e \in s : Promise!Apart(d, e))
                                      /\ t = (s \ {c}) \cup {d}
  <2>1. PICK a \in Places :
          LET c == Words(want, 32, a) IN
          /\ Given(a, TotalSize(want % Word, 32))
          /\ Replace(b, c, Overwritten(With(blocks, c), c.ptr, want))
    BY <1>9 DEF Realloc
  <2> DEFINE c   == Words(want, 32, a)
             old == Overwritten(With(blocks, c), c.ptr, want)
             n   == SeenIn(old)
  <2>2. want \in Nat /\ a \in Nat
    BY <1>2
  <2>3. /\ c.wraps => SeenIn(With(blocks, c)) = s
        /\ ~c.wraps => /\ SeenIn(With(blocks, c)) = s \cup {Seen(c)} /\ Seen(c) \in Promise!Block
                       /\ \A d \in s : Promise!Apart(Seen(c), d)
        /\ Seen(b) # Seen(c)
        /\ Good(chunks \cup {ChunkOf(c)}, With(blocks, c), wrapped \/ Wraps(want, 32))
        /\ c \in Block
    <3>1. Given(a, TotalSize(want % Word, 32))
      BY <2>1
    <3>2. /\ c.wraps => SeenIn(With(blocks, c)) = s
          /\ ~c.wraps => /\ SeenIn(With(blocks, c)) = s \cup {Seen(c)} /\ Seen(c) \in Promise!Block
                         /\ \A d \in s : Promise!Apart(Seen(c), d)
      BY <1>2, <2>2, <3>1, AddingSeen
    <3>3. Seen(b) # Seen(c)
      BY <1>2, <2>2, <3>1, AddingSeen
    <3>4. Good(chunks \cup {ChunkOf(c)}, With(blocks, c), wrapped \/ Wraps(want, 32))
      BY <1>2, <2>2, <3>1, AddingKeepsGood
    <3>5. c \in Block
      BY <1>2, <2>2, <3>1, NewBlock
    <3> QED
      BY <3>2, <3>3, <3>4, <3>5
  <2>4. Good(chunks \cup {ChunkOf(c)}, old, wrapped \/ Wraps(want, 32))
    BY <1>2, <2>1, <2>2, ReplacingKeepsGood
  <2>5. CASE b.sound /\ b \in old
    <3>1. blocks' = old \ {b}
      BY <2>1, <2>5 DEF Replace
    <3> HIDE DEF c
    <3>2. n = SeenIn(With(blocks, c))
      BY <2>2, <2>3, WritingUnseen DEF Good
    <3> HIDE DEF old
    <3>3. /\ b.wraps => t = n
          /\ ~b.wraps => t = n \ {Seen(b)} /\ Seen(b) \in s
      <4>1. ~b.wraps => Seen(b) \in s
        BY DEF SeenIn
      <4> QED
        BY <2>4, <2>5, <3>1, <4>1, RemovingSeen
    <3> HIDE DEF n, s, t
    <3>4. CASE c.wraps
      BY <2>3, <3>2, <3>3, <3>4
    <3>5. CASE ~c.wraps /\ b.wraps
      BY <2>3, <3>2, <3>3, <3>5
    <3>6. CASE ~c.wraps /\ ~b.wraps
      <4>1. t = (s \ {Seen(b)}) \cup {Seen(c)}
        BY <2>3, <3>2, <3>3, <3>6
      <4> QED
        BY <2>3, <3>3, <3>6, <4>1
    <3> QED
      BY <3>4, <3>5, <3>6
  <2>6. CASE ~(b.sound /\ b \in old)
    BY <2>1, <2>6 DEF Replace
  <2> QED
    BY <2>5, <2>6
<1> QED
  BY <1>3, <1>4, <1>5, <1>6, <1>7, <1>8, <1>9 DEF Next, InitMalloc, Refused, vars

\* The memory functions implement Heap (KeepsPromise).
THEOREM HeapImplemented == Spec => KeepsPromise
<1>1. Init => Promise!Empty
  BY DEF Init, Promise!Empty, Reliable
<1>2. IInv /\ [Next]_vars => [Promise!Step]_Reliable
  BY StepSeen
<1> QED
  BY <1>1, <1>2, MallocSafe, PTL DEF Spec, KeepsPromise, Promise!HeapSpec
=============================================================================
