------------------------------ MODULE MCFileIO ------------------------------
(***************************************************************************)
(* Values of the constants of FileIO for TLC.                              *)
(***************************************************************************)
EXTENDS FileIO, TLC

CONSTANTS in, out, h1, h2

TheHandles == {in, out, h1, h2}
Symmetry   == Permutations({h1, h2})

\* fopen(name, "r") and open(dir, O_RDONLY).
ReadOnly == {{}}

NoStd == {}
Third      == {3}
\* All but fdopen(), whose streams without a file the runs of Descriptors have.
SomeCalls  == LibCalls \ {"fdopen"}

\* Past a FILE whose owners have parted the properties promise nothing.
Relevant == ~miscounted /\ ~severed
=============================================================================
