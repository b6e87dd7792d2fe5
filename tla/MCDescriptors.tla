--------------------------- MODULE MCDescriptors ---------------------------
(***************************************************************************)
(* Values of the constants of Descriptors for TLC.                         *)
(***************************************************************************)
EXTENDS Descriptors, TLC

CONSTANTS in, out, h1, h2

TwoHandles == {in, out, h1, h2}

\* The handles dos.library and socket() give out are interchangeable.
Symmetry == Permutations({h1, h2})

\* fopen(name, "r"), open(dir, O_RDONLY); fopen(name, "w").
ReadOrTruncate == {{}, {"WRONLY", "CREAT", "TRUNC"}}

StdoutOnly == {1}

\* The descriptors dup2() is given.
StdoutAndAbove == {1, 3, 4}

\* A standard stream is not what __sinit() made it.
StdChanged ==
  \E d \in 0 .. 2 :
    fp[d] \notin {NULL, d} \/ iob[d] \notin {Blank, StdFile(d)} \/ Refs(d) # {}

\* A handle of the program is open and in no FILE.
SomeLost == \E h \in Handles \ Std : dos[h] # "closed" /\ h \notin Held

\* One descriptor and one FILE beside the standard ones, and a handle to spare.
OneAtOnce ==
  /\ fp[4] = NULL /\ iob[4] = Blank /\ FreeHandles(Lib) # {}
  /\ SomeLost \/ miscounted => \A f \in Files : iob[f].nestcnt <= 1

\* Two of each.
TwoAtOnce == ~StdChanged /\ ~SomeLost /\ ~miscounted

\* From these states TLC goes on; those that follow them are checked too.
Bounded == phase = "main" => OneAtOnce \/ TwoAtOnce
=============================================================================
