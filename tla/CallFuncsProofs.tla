-------------------------- MODULE CallFuncsProofs --------------------------
(***************************************************************************)
(* Proofs about CallFuncs, for every list of priorities and every width of *)
(* LONG: the functions are called in order, none is left out, and the      *)
(* steps are those of CallOrder.                                           *)
(***************************************************************************)
EXTENDS CallFuncs, TLAPS

\* What has been called is what the walks so far have selected.
Selected ==
  \A f \in Functions :
    f \in Called <=> \/ Pri(f) > highPri
                     \/ Pri(f) = highPri /\ f < cf

\* nextHigh is not lower than any lower priority this walk has passed.
Highest ==
  \A f \in Functions : f < cf /\ Pri(f) < highPri => Pri(f) <= nextHigh

\* InOrder, of the converted priorities.
ByPri ==
  \A k, l \in 1 .. Len(called) :
    k < l => \/ Pri(called[k]) > Pri(called[l])
             \/ Pri(called[k]) = Pri(called[l]) /\ called[k] < called[l]

Ended == returned => cf \notin Functions /\ nextHigh = 0

IInv == TypeOK /\ Selected /\ Highest /\ ByPri /\ Ended

\* The converted priority is a ULONG (startupwos.c:154).
LEMMA PriType ==
  ASSUME list \in Seq(LONG), ascending \in BOOLEAN, NEW f \in Functions
  PROVE  Pri(f) \in ULONG
<1>1. list[f] \in LONG
  BY DEF Functions
<1>2. ToULONG(list[f] + 1) \in ULONG
  BY <1>1, WordAssumption DEF ToULONG, LONG, ULONG, Word
<1> QED
  BY <1>2, WordAssumption DEF Pri, Flagged, ULONG, Word

\* For priorities that are not negative, the higher converted priority comes first
\* in the order of the list (startupwos.c:154).
LEMMA PriOrder ==
  ASSUME list \in Seq(LONG), ascending \in BOOLEAN,
         NEW f \in Functions, NEW g \in Functions, list[f] >= 0, list[g] >= 0
  PROVE  /\ Pri(f) > Pri(g) <=> IF ascending THEN list[f] < list[g] ELSE list[f] > list[g]
         /\ Pri(f) = Pri(g) <=> list[f] = list[g]
<1>1. list[f] \in LONG /\ list[g] \in LONG
  BY DEF Functions
<1>2. ToULONG(list[f] + 1) = list[f] + 1 /\ ToULONG(list[g] + 1) = list[g] + 1
  BY <1>1 DEF ToULONG, LONG
<1>3. CASE ascending
  <2>1. Pri(f) = Word - 1 - (list[f] + 1) /\ Pri(g) = Word - 1 - (list[g] + 1)
    BY <1>2, <1>3 DEF Pri, Flagged
  <2>2. /\ Pri(f) > Pri(g) <=> list[f] < list[g]
        /\ Pri(f) = Pri(g) <=> list[f] = list[g]
    <3>1. list[f] \in Int /\ list[g] \in Int /\ Word \in Int
      BY <1>1, WordAssumption DEF Word, LONG
    <3> QED
      BY <2>1, <3>1
  <2> QED
    BY <1>3, <2>2
<1>4. CASE ~ascending
  <2>1. Pri(f) = list[f] + 1 /\ Pri(g) = list[g] + 1
    BY <1>2, <1>4 DEF Pri, Flagged
  <2>2. /\ Pri(f) > Pri(g) <=> list[f] > list[g]
        /\ Pri(f) = Pri(g) <=> list[f] = list[g]
    <3>1. list[f] \in Int /\ list[g] \in Int
      BY <1>1, WordAssumption DEF LONG
    <3> QED
      BY <2>1, <3>1
  <2> QED
    BY <1>4, <2>2
<1> QED
  BY <1>3, <1>4

\* Only -1 in the fini list and -2 in the init list become 0.
LEMMA PriZero ==
  ASSUME list \in Seq(LONG), ascending \in BOOLEAN, NEW f \in Functions
  PROVE  Pri(f) = 0 <=> list[f] = (IF ascending THEN -2 ELSE -1)
<1>1. list[f] \in LONG
  BY DEF Functions
<1>2. CASE ascending
  <2>1. Pri(f) = Word - 1 - ToULONG(list[f] + 1)
    BY <1>2 DEF Pri, Flagged
  <2>2. Pri(f) = 0 <=> list[f] = -2
    BY SMTT(20), <1>1, <2>1, WordAssumption DEF ToULONG, LONG, Word
  <2> QED
    BY <1>2, <2>2
<1>3. CASE ~ascending
  <2>1. Pri(f) = ToULONG(list[f] + 1)
    BY <1>3 DEF Pri, Flagged
  <2>2. Pri(f) = 0 <=> list[f] = -1
    BY <1>1, <2>1, WordAssumption DEF ToULONG, LONG, Word
  <2> QED
    BY <1>3, <2>2
<1> QED
  BY <1>2, <1>3

\* A step that leaves the list alone leaves the priorities alone.
LEMMA PriStable ==
  ASSUME UNCHANGED <<list, ascending>>
  PROVE  Functions' = Functions /\ \A f \in Functions : Pri(f)' = Pri(f)
BY DEF Functions, Pri, Flagged, ToULONG

\* Init establishes the invariant.
LEMMA InitInv == Init => IInv
<1> SUFFICES ASSUME Init PROVE IInv
  OBVIOUS
<1>1. list \in Seq(LONG) /\ Len(list) \in Nat
  BY ListAssumption DEF Init
<1>2. TypeOK
  <2>1. highPri \in ULONG /\ nextHigh \in 0 .. highPri - 1
    BY WordAssumption DEF Init, ULONG, Word
  <2>2. called \in Seq(Functions)
    BY DEF Init
  <2>3. cf \in 1 .. Len(list) + 1
    BY <1>1 DEF Init
  <2> QED
    BY <1>1, <2>1, <2>2, <2>3 DEF Init, TypeOK
<1>3. Called = {}
  BY DEF Init, Called
<1>4. \A f \in Functions : Pri(f) \in ULONG
  BY <1>1, PriType DEF Init
<1>5. Selected
  BY <1>3, <1>4, WordAssumption DEF Init, Selected, ULONG, Word, Functions
<1>6. Highest
  BY DEF Init, Highest, Functions
<1>7. ByPri /\ Ended
  BY DEF Init, ByPri, Ended
<1> QED
  BY <1>2, <1>5, <1>6, <1>7 DEF IInv

\* Every step preserves the invariant.
LEMMA NextInv == IInv /\ [Next]_vars => IInv'
<1> SUFFICES ASSUME IInv, [Next]_vars PROVE IInv'
  OBVIOUS
<1> USE WordAssumption
<1>1. list \in Seq(LONG) /\ Len(list) \in Nat /\ called \in Seq(Functions) /\ ascending \in BOOLEAN
  BY ListAssumption DEF IInv, TypeOK
<1>2. \A f \in Functions : Pri(f) \in ULONG
  BY <1>1, PriType
<1>3. CASE Call
  <2>1. Functions' = Functions /\ \A f \in Functions : Pri(f)' = Pri(f)
    BY <1>3, PriStable DEF Call
  <2>2. cf \in Functions /\ Pri(cf) = highPri /\ called' = Append(called, cf) /\ cf' = cf + 1
    BY <1>3 DEF Call, Walking
  <2>3. TypeOK'
    BY <1>1, <1>3, <2>1, <2>2 DEF Call, IInv, TypeOK, Functions
  <2>4. Len(called') = Len(called) + 1 /\ called'[Len(called) + 1] = cf
        /\ \A k \in 1 .. Len(called) : called'[k] = called[k]
    BY <1>1, <2>2
  <2>5. Called' = Called \cup {cf}
    BY <1>1, <2>4 DEF Called
  <2>6. Selected'
    BY <1>2, <1>3, <2>1, <2>2, <2>5 DEF Call, IInv, Selected, Functions, ULONG
  <2>7. Highest'
    BY <1>2, <1>3, <2>1, <2>2 DEF Call, IInv, Highest, Functions, ULONG
  <2>8. ByPri'
    <3> SUFFICES ASSUME NEW k \in 1 .. Len(called'), NEW l \in 1 .. Len(called'), k < l
                 PROVE  \/ Pri(called[k])' > Pri(called[l])'
                        \/ Pri(called[k])' = Pri(called[l])' /\ called'[k] < called'[l]
      BY DEF ByPri
    <3>1. k \in 1 .. Len(called) /\ called'[k] = called[k] /\ called[k] \in Functions
      BY <1>1, <2>4
    <3>2. CASE l \in 1 .. Len(called)
      <4>1. called'[l] = called[l] /\ called[l] \in Functions
        BY <1>1, <2>4, <3>2
      <4>2. \/ Pri(called[k]) > Pri(called[l])
            \/ Pri(called[k]) = Pri(called[l]) /\ called[k] < called[l]
        BY <3>1, <3>2 DEF IInv, ByPri
      <4> QED
        BY <2>1, <3>1, <4>1, <4>2
    <3>3. CASE l = Len(called) + 1
      <4>1. called'[l] = cf
        BY <2>4, <3>3
      <4>2. called[k] \in Called
        BY <3>1 DEF Called
      <4>3. Pri(called[k]) > highPri \/ (Pri(called[k]) = highPri /\ called[k] < cf)
        BY <3>1, <4>2 DEF IInv, Selected
      <4> QED
        BY <2>1, <2>2, <3>1, <4>1, <4>3
    <3> QED
      BY <1>1, <2>4, <3>2, <3>3
  <2>9. Ended'
    BY <1>3 DEF Call, Walking, Ended
  <2> QED
    BY <2>3, <2>6, <2>7, <2>8, <2>9 DEF IInv
<1>4. CASE Remember
  <2>1. Functions' = Functions /\ \A f \in Functions : Pri(f)' = Pri(f)
    BY <1>4, PriStable DEF Remember
  <2>2. cf \in Functions /\ Pri(cf) < highPri /\ Pri(cf) > nextHigh /\ nextHigh' = Pri(cf)
        /\ cf' = cf + 1 /\ Pri(cf) \in ULONG
    BY <1>2, <1>4 DEF Remember, Walking, Candidate
  <2>3. TypeOK'
    BY <1>1, <1>4, <2>1, <2>2 DEF Remember, IInv, TypeOK, Functions, ULONG
  <2>4. Selected'
    BY <1>2, <1>4, <2>1, <2>2 DEF Remember, IInv, Selected, Called, Functions, ULONG
  <2>5. Highest'
    <3>1. cf \in Int /\ nextHigh \in Int /\ highPri \in Int
      BY WordAssumption DEF IInv, TypeOK, ULONG
    <3>2. \A f \in Functions : Pri(f) \in Int /\ f \in Int
      BY <1>2 DEF ULONG, Functions
    <3>3. \A f \in Functions : f < cf' /\ Pri(f) < highPri => Pri(f) <= nextHigh'
      BY <1>4, <2>2, <3>1, <3>2 DEF Remember, IInv, Highest
    <3> QED
      BY <1>4, <2>1, <3>3 DEF Remember, Highest
  <2>6. ByPri'
    BY <1>1, <1>4, <2>1 DEF Remember, IInv, ByPri
  <2>7. Ended'
    BY <1>4 DEF Remember, Walking, Ended
  <2> QED
    BY <2>3, <2>4, <2>5, <2>6, <2>7 DEF IInv
<1>5. CASE Pass
  <2>1. Functions' = Functions /\ \A f \in Functions : Pri(f)' = Pri(f)
    BY <1>5, PriStable DEF Pass
  <2>2. cf \in Functions /\ Pri(cf) # highPri /\ ~(Pri(cf) < highPri /\ Pri(cf) > nextHigh)
        /\ cf' = cf + 1 /\ Pri(cf) \in ULONG
    BY <1>2, <1>5 DEF Pass, Walking, Candidate
  <2>3. TypeOK'
    BY <1>1, <1>5, <2>1, <2>2 DEF Pass, IInv, TypeOK, Functions
  <2>4. Selected'
    BY <1>2, <1>5, <2>1, <2>2 DEF Pass, IInv, Selected, Called, Functions, ULONG
  <2>5. Highest'
    <3>1. cf \in Int /\ nextHigh \in Int /\ highPri \in Int
      BY WordAssumption DEF IInv, TypeOK, ULONG
    <3>2. \A f \in Functions : Pri(f) \in Int /\ f \in Int
      BY <1>2 DEF ULONG, Functions
    <3>3. \A f \in Functions : f < cf' /\ Pri(f) < highPri => Pri(f) <= nextHigh'
      BY <1>5, <2>2, <3>1, <3>2 DEF Pass, IInv, Highest
    <3> QED
      BY <1>5, <2>1, <3>3 DEF Pass, Highest
  <2>6. ByPri'
    BY <1>1, <1>5, <2>1 DEF Pass, IInv, ByPri
  <2>7. Ended'
    BY <1>5 DEF Pass, Walking, Ended
  <2> QED
    BY <2>3, <2>4, <2>5, <2>6, <2>7 DEF IInv
<1>6. CASE NextWalk
  <2>1. Functions' = Functions /\ \A f \in Functions : Pri(f)' = Pri(f)
    BY <1>6, PriStable DEF NextWalk
  <2>2. nextHigh > 0 /\ highPri' = nextHigh /\ nextHigh' = 0 /\ cf' = 1
        /\ \A f \in Functions : f < cf
    BY <1>1, <1>6 DEF NextWalk, FirstCandidate, IInv, TypeOK, ULONG, Functions
  <2>3. TypeOK'
    <3>1. highPri' \in ULONG /\ nextHigh' \in 0 .. highPri' - 1
      BY <2>2, WordAssumption DEF IInv, TypeOK, ULONG, Word
    <3> QED
      BY <1>1, <1>6, <2>1, <2>2, <3>1 DEF NextWalk, IInv, TypeOK
  <2>4. \A f \in Functions : Pri(f) > nextHigh <=> Pri(f) >= highPri
    BY <1>2, <2>2 DEF IInv, TypeOK, Highest, ULONG
  <2>5. Selected'
    <3>1. highPri \in Int /\ nextHigh \in Int
      BY WordAssumption DEF IInv, TypeOK, ULONG
    <3>2. \A f \in Functions : Pri(f) \in Int /\ f \in Int /\ f >= 1 /\ f < cf
      BY <1>2, <2>2 DEF ULONG, Functions
    <3>3. \A f \in Functions : f \in Called <=> Pri(f) > nextHigh
      BY <2>4, <3>1, <3>2 DEF IInv, Selected
    <3>4. \A f \in Functions :
            f \in Called <=> Pri(f) > highPri' \/ (Pri(f) = highPri' /\ f < cf')
      BY <2>2, <3>2, <3>3
    <3> QED
      BY <1>6, <2>1, <3>4 DEF NextWalk, Selected, Called
  <2>6. Highest'
    BY <2>1, <2>2 DEF Highest, Functions
  <2>7. ByPri'
    BY <1>1, <1>6, <2>1 DEF NextWalk, IInv, ByPri
  <2>8. Ended'
    BY <1>6 DEF NextWalk, Ended
  <2> QED
    BY <2>3, <2>5, <2>6, <2>7, <2>8 DEF IInv
<1>7. CASE Return
  <2>1. Functions' = Functions /\ \A f \in Functions : Pri(f)' = Pri(f)
    BY <1>7, PriStable DEF Return
  <2> QED
    BY <1>1, <1>7, <2>1 DEF Return, IInv, TypeOK, Selected, Called, Highest, ByPri, Ended
<1>8. CASE UNCHANGED vars
  <2>1. Functions' = Functions /\ \A f \in Functions : Pri(f)' = Pri(f)
    BY <1>8, PriStable DEF vars
  <2> QED
    BY <1>1, <1>8, <2>1 DEF vars, IInv, TypeOK, Selected, Called, Highest, ByPri, Ended
<1> QED
  BY <1>3, <1>4, <1>5, <1>6, <1>7, <1>8 DEF Next

\* The inductive invariant holds in every state.
LEMMA Invariant == Spec => []IInv
BY InitInv, NextInv, PTL DEF Spec

\* The variables of callfuncs() keep their types; nextHigh stays below highPri, so
\* the walks come to an end.
THEOREM WalksDescend == Spec => []TypeOK
<1>1. IInv => TypeOK
  BY DEF IInv
<1> QED
  BY <1>1, Invariant, PTL

\* The functions are called in the order of their priorities and none twice.
THEOREM CalledInOrder == Spec => []InOrder
<1>1. IInv => InOrder
  <2> SUFFICES ASSUME IInv, NEW k \in 1 .. Len(called), NEW l \in 1 .. Len(called), k < l,
                      list[called[k]] >= 0, list[called[l]] >= 0
               PROVE  \/ IF ascending THEN list[called[k]] < list[called[l]]
                                      ELSE list[called[k]] > list[called[l]]
                      \/ list[called[k]] = list[called[l]] /\ called[k] < called[l]
    BY DEF InOrder
  <2>1. list \in Seq(LONG) /\ ascending \in BOOLEAN
        /\ called[k] \in Functions /\ called[l] \in Functions
    BY ListAssumption DEF IInv, TypeOK
  <2>2. \/ Pri(called[k]) > Pri(called[l])
        \/ Pri(called[k]) = Pri(called[l]) /\ called[k] < called[l]
    BY DEF IInv, ByPri
  <2> QED
    BY <2>1, <2>2, PriOrder
<1> QED
  BY <1>1, Invariant, PTL

\* When callfuncs() returns, no function is left out but those of the two priorities
\* that become 0.
THEOREM NoneLeftOut == Spec => []AllCalled
<1>1. IInv => AllCalled
  <2> SUFFICES ASSUME IInv, returned
               PROVE  Called = {f \in Functions : list[f] # (IF ascending THEN -2 ELSE -1)}
    BY DEF AllCalled
  <2>1. list \in Seq(LONG) /\ ascending \in BOOLEAN /\ Len(list) \in Nat /\ called \in Seq(Functions)
    BY ListAssumption DEF IInv, TypeOK
  <2>2. \A f \in Functions : f < cf
    BY <2>1 DEF IInv, TypeOK, Ended, Functions
  <2>3. \A f \in Functions : Pri(f) \in ULONG
    BY <2>1, PriType
  <2>4. \A f \in Functions : f \in Called <=> Pri(f) # 0
    BY <2>2, <2>3 DEF IInv, TypeOK, Selected, Highest, Ended, ULONG
  <2>5. Called \subseteq Functions
    BY <2>1 DEF Called
  <2>6. \A f \in Functions : f \in Called <=> list[f] # (IF ascending THEN -2 ELSE -1)
    BY <2>1, <2>4, PriZero
  <2> QED
    BY <2>5, <2>6
<1> QED
  BY <1>1, Invariant, PTL

\* callfuncs() takes no step that CallOrder does not allow, for lists without
\* negative priorities: the safety part of Implements.
THEOREM StepsInOrder ==
  ASSUME <<>> \in Lists
  PROVE  Spec => Abstract!Start /\ [][Abstract!CallSome]_(Abstract!absVars)
<1>1. Init => Abstract!Start
  BY DEF Init, Abstract!Start
<1>2. IInv /\ [Next]_vars => [Abstract!CallSome]_(Abstract!absVars)
  <2> SUFFICES ASSUME IInv, [Next]_vars PROVE [Abstract!CallSome]_(Abstract!absVars)
    OBVIOUS
  <2>1. CASE Call /\ Ordinary
    <3>1. list \in Seq(LONG) /\ ascending \in BOOLEAN
      BY ListAssumption DEF IInv, TypeOK
    <3>2. cf \in Functions /\ Pri(cf) = highPri
      BY <2>1 DEF Call, Walking
    <3>3. cf \notin Called
      BY <3>2 DEF IInv, TypeOK, Selected, Functions, ULONG
    <3>4. ASSUME NEW g \in Functions \ Called, g # cf
          PROVE  \/ IF ascending THEN list[cf] < list[g] ELSE list[cf] > list[g]
                 \/ list[cf] = list[g] /\ cf < g
      <4>1. list[cf] >= 0 /\ list[g] >= 0
        BY <2>1, <3>2, <3>4 DEF Ordinary
      <4>2. Pri(g) \in ULONG /\ Pri(cf) \in ULONG
        BY <3>1, <3>2, <3>4, PriType
      <4>3. Pri(cf) > Pri(g) \/ (Pri(cf) = Pri(g) /\ cf < g)
        <5>1. cf \in Int /\ g \in Int /\ highPri \in Int /\ Pri(g) \in Int /\ g \notin Called
          BY <3>2, <3>4, <4>2, WordAssumption DEF IInv, TypeOK, Functions, ULONG
        <5>2. ~(Pri(g) > highPri \/ (Pri(g) = highPri /\ g < cf))
          BY <3>4, <5>1 DEF IInv, Selected
        <5> QED
          BY <3>2, <3>4, <5>1, <5>2
      <4> QED
        BY <3>1, <3>2, <3>4, <4>1, <4>3, PriOrder
    <3>5. list' = list /\ ascending' = ascending /\ called' = Append(called, cf) /\ Ordinary'
      BY <2>1 DEF Call, Ordinary, Functions
    <3>6. Abstract!Functions = Functions /\ Abstract!Called = Called
      BY <2>1 DEF Abstract!Functions, Abstract!Called, Functions, Called
    <3>7. Abstract!CallNext(cf)
      BY <2>1, <3>2, <3>3, <3>4, <3>5, <3>6 DEF Abstract!CallNext, Abstract!Before
    <3> QED
      BY <3>2, <3>6, <3>7 DEF Abstract!CallSome
  <2>2. CASE Call /\ ~Ordinary
    <3>1. list' = list /\ ascending' = ascending
      BY <2>2 DEF Call
    <3>2. ~Ordinary'
      BY <2>2, <3>1 DEF Ordinary, Functions
    <3> QED
      BY <2>2, <3>1, <3>2 DEF Abstract!absVars
  <2>3. CASE UNCHANGED <<list, ascending, called>>
    <3>1. Ordinary' = Ordinary
      BY <2>3 DEF Ordinary, Functions
    <3> QED
      BY <2>3, <3>1 DEF Abstract!absVars
  <2> QED
    BY <2>1, <2>2, <2>3 DEF Next, Remember, Pass, NextWalk, Return, vars
<1> QED
  BY <1>1, <1>2, Invariant, PTL DEF Spec
=============================================================================
