----------------------------- MODULE CallOrder -----------------------------
(***************************************************************************)
(* What callfuncs() of the startup code promises: it calls the functions   *)
(* of a list one by one by their priority, the init functions from the     *)
(* lowest and the fini functions from the highest, and those of equal      *)
(* priority in the order of the list.                                      *)
(***************************************************************************)
EXTENDS Integers, Sequences

CONSTANT Lists      \* the lists of priorities it may be given

VARIABLES
  list,       \* the priority of each function
  ascending,  \* TRUE for the init list
  called      \* the functions called so far, in order

absVars == <<list, ascending, called>>

Functions == 1 .. Len(list)

Called == {called[k] : k \in 1 .. Len(called)}

\* f is called before g.
Before(f, g) ==
  \/ IF ascending THEN list[f] < list[g] ELSE list[f] > list[g]
  \/ list[f] = list[g] /\ f < g

Start ==
  /\ list \in Lists
  /\ ascending \in BOOLEAN
  /\ called = <<>>

CallNext(f) ==
  /\ f \in Functions \ Called
  /\ \A g \in Functions \ Called : g # f => Before(f, g)
  /\ called' = Append(called, f)
  /\ UNCHANGED <<list, ascending>>

CallSome == \E f \in Functions : CallNext(f)

Order == Start /\ [][CallSome]_absVars /\ WF_absVars(CallSome)
=============================================================================
