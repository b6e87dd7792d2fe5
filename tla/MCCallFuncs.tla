---------------------------- MODULE MCCallFuncs ----------------------------
(***************************************************************************)
(* Lists of up to MaxLen priorities for TLC.                               *)
(***************************************************************************)
EXTENDS CallFuncs

CONSTANT MaxLen

AllLists == UNION {[1 .. n -> LONG] : n \in 0 .. MaxLen}
=============================================================================
