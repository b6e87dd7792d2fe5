------------------------------ MODULE MCMalloc ------------------------------
(***************************************************************************)
(* An address space of 256 bytes for TLC.                                  *)
(***************************************************************************)
EXTENDS Malloc

\* AllocPooledPPC() returns multiples of 8: some that are aligned, and some just above.
SomePlaces == {0, 24, 40, 64, 72, 96, 128, 192}

\* With an alignment of 32 the sum of memamiga() is 64, 88 and 255; then it wraps to 0, to
\* 8 and, for a product that only calloc() can be asked for, 79.
ManySizes == {0, 24, 191, 192, 200, 271}

\* malloc()'s and smaller ones, no power of two, a larger one.
ManyAligns == {0, 32, 48, 64}
=============================================================================
