----------------------------- MODULE CallFuncs -----------------------------
(***************************************************************************)
(* callfuncs() of startup/startupwos.c, which calls the init functions     *)
(* before main() and the fini functions at exit.  The list is not sorted:  *)
(* the function walks it again and again, calls the functions whose        *)
(* priority is highPri, and looks on the way for the next lower one.       *)
(* Priorities are LONG, the comparisons are between ULONGs.  A function of *)
(* the list is its position; one that calls exit() ends the walk, which    *)
(* Startup models.                                                         *)
(***************************************************************************)
EXTENDS Integers, Sequences

CONSTANTS
  Half,     \* LONG is -Half .. Half - 1 (2^31 in the code)
  Lists     \* the lists of priorities callfuncs() may be given

Word  == Half + Half
LONG  == -Half .. Half - 1
ULONG == 0 .. Word - 1

ASSUME WordAssumption == Half \in Nat \ {0, 1}
ASSUME ListAssumption == Lists \subseteq Seq(LONG)

VARIABLES
  list,       \* cf_Priority of each function of the list
  ascending,  \* the flag is -1, as for the init list; 0 for the fini list
  called,     \* the functions called so far, in order
  cf,         \* the position in the list
  highPri,    \* the priority called in this walk
  nextHigh,   \* the highest priority below it seen in this walk
  returned    \* callfuncs() has returned

vars == <<list, ascending, called, cf, highPri, nextHigh, returned>>

Functions == 1 .. Len(list)
Called    == {called[k] : k \in 1 .. Len(called)}

ToULONG(x) == IF x < 0 THEN x + Word ELSE x

\* A mutation of Flagged: the flag is not used.
Unflagged(u) == u

\* u ^ flag
Flagged(u) == IF ascending THEN Word - 1 - u ELSE u

\* pri = (cf->cf_Priority + 1) ^ flag
Pri(f) == Flagged(ToULONG(list[f] + 1))

Init ==
  /\ list \in Lists
  /\ ascending \in BOOLEAN
  /\ called = <<>>
  /\ cf = 1
  /\ highPri = Word - 1
  /\ nextHigh = 0
  /\ returned = FALSE

\* The walk has reached a function.
Walking == ~returned /\ cf \in Functions

\* The function has the priority of this walk: it is called, and returns.
Call ==
  /\ Walking /\ Pri(cf) = highPri
  /\ called' = Append(called, cf)
  /\ cf' = cf + 1
  /\ UNCHANGED <<list, ascending, highPri, nextHigh, returned>>

\* Mutations of Candidate: the last lower priority instead of the highest; the
\* highest of all.
AnyLower(pri)  == pri < highPri
AnyHigher(pri) == pri > nextHigh

Candidate(pri) == pri < highPri /\ pri > nextHigh

\* Its priority is the best candidate for the next walk.
Remember ==
  /\ Walking /\ Pri(cf) # highPri /\ Candidate(Pri(cf))
  /\ nextHigh' = Pri(cf)
  /\ cf' = cf + 1
  /\ UNCHANGED <<list, ascending, called, highPri, returned>>

\* A mutation of Pass: the list is not stepped on for a function that is neither.
PassStays ==
  /\ Walking /\ Pri(cf) # highPri /\ ~Candidate(Pri(cf))
  /\ UNCHANGED vars

Pass ==
  /\ Walking /\ Pri(cf) # highPri /\ ~Candidate(Pri(cf))
  /\ cf' = cf + 1
  /\ UNCHANGED <<list, ascending, called, highPri, nextHigh, returned>>

\* nextHigh at the start of a walk.
FirstCandidate == 0

NextWalk ==
  /\ ~returned /\ cf \notin Functions /\ nextHigh # 0
  /\ highPri' = nextHigh
  /\ cf' = 1
  /\ nextHigh' = FirstCandidate
  /\ UNCHANGED <<list, ascending, called, returned>>

Return ==
  /\ ~returned /\ cf \notin Functions /\ nextHigh = 0
  /\ returned' = TRUE
  /\ UNCHANGED <<list, ascending, called, cf, highPri, nextHigh>>

Next == Call \/ Remember \/ Pass \/ NextWalk \/ Return

\* The loop runs on the processor that called it and waits for nothing.
Spec == Init /\ [][Next]_vars /\ WF_vars(Next)

----------------------------------------------------------------------------
TypeOK ==
  /\ list \in Lists
  /\ ascending \in BOOLEAN
  /\ called \in Seq(Functions)
  /\ cf \in 1 .. Len(list) + 1
  /\ highPri \in ULONG /\ nextHigh \in 0 .. highPri - 1
  /\ returned \in BOOLEAN

\* Functions of ordinary priorities (startupwos.c:154 adds 1 to them, and those
\* below 0 wrap around) are called in their order and none twice, equal ones in
\* the order of the list.
InOrder ==
  \A k, l \in 1 .. Len(called) :
    k < l /\ list[called[k]] >= 0 /\ list[called[l]] >= 0 =>
      \/ IF ascending THEN list[called[k]] < list[called[l]]
                      ELSE list[called[k]] > list[called[l]]
      \/ list[called[k]] = list[called[l]] /\ called[k] < called[l]

\* When callfuncs() returns, it has called every function but those whose
\* converted priority is 0 (startupwos.c:163, pri > nextHigh): -1 in the fini list
\* and -2 in the init list.
AllCalled ==
  returned => Called = {f \in Functions : list[f] # (IF ascending THEN -2 ELSE -1)}

\* callfuncs() returns: each walk lowers highPri (startupwos.c:171).
Ends == <>returned

\* Lists that CallOrder speaks of.  Of any other nothing is claimed: it is mapped to the
\* empty list, of which nothing is called.
Ordinary == \A f \in Functions : list[f] >= 0

Abstract == INSTANCE CallOrder WITH list   <- IF Ordinary THEN list ELSE <<>>,
                                    called <- IF Ordinary THEN called ELSE <<>>

\* For lists of priorities that are not negative callfuncs() does what CallOrder says
\* (startupwos.c:141-174).
Implements == Abstract!Order
=============================================================================
