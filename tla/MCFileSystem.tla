---------------------------- MODULE MCFileSystem ----------------------------
(***************************************************************************)
(* Two names, the ones mkstemp() tries, for TLC.                           *)
(***************************************************************************)
EXTENDS FileSystem

CONSTANTS t1, t2

TwoNames == {t1, t2}
InTurn   == <<t1, t2>>

\* fopen(name, "r+") with O_APPEND, and fopen(name, "w"); O_EXCL comes from mkstemp().
Usual == {{"APPEND"}, {"CREAT", "TRUNC"}}
=============================================================================
