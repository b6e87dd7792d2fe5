---------------------------- MODULE SelectProofs ----------------------------
(***************************************************************************)
(* Theorems about Select: for any number of descriptors, whatever they are *)
(* and whatever becomes ready while select() runs.                         *)
(***************************************************************************)
EXTENDS Select, FiniteSetTheorems, WellFoundedInduction, TLAPS

----------------------------------------------------------------------------
(* Numbers and counts.                                                     *)

\* Descriptors have a least one.
LEMMA LeastIn ==
  ASSUME NEW S \in SUBSET Fds, S # {}
  PROVE  Least(S) \in S /\ \A y \in S : Least(S) <= y
<1> DEFINE R == {p \in Nat \X Nat : p[1] < p[2]}
<1>1. S \subseteq Nat /\ Fds \subseteq Int
  BY FdAssumption DEF Fds
<1>2. IsWellFoundedOn(R, Nat)
  BY NatLessThanWellFounded DEF OpToRel
<1>3. \A x, y \in Nat : y < x => <<y, x>> \in R
  OBVIOUS
<1> HIDE DEF R
<1>4. PICK x \in S : \A y \in S : <<y, x>> \notin R
  BY <1>1, <1>2, WFMin
<1>5. ASSUME NEW y \in S PROVE x <= y
  <2>1. x \in Nat /\ y \in Nat
    BY <1>1
  <2>2. ~(y < x)
    BY <1>3, <1>4, <2>1
  <2> QED
    BY <2>1, <2>2
<1> QED
  BY <1>5 DEF Least

\* A set of descriptors is finite.
LEMMA FdSets ==
  ASSUME NEW S \in SUBSET Fds
  PROVE  IsFiniteSet(S) /\ Cardinality(S) \in Nat /\ (Cardinality(S) = 0 <=> S = {})
<1>1. IsFiniteSet(Fds)
  BY FdAssumption, FS_Interval DEF Fds
<1>2. IsFiniteSet(S)
  BY <1>1, FS_Subset
<1> QED
  BY <1>2, FS_CardinalityType, FS_EmptySet

LEMMA SumOfFds ==
  ASSUME NEW s \in [Kinds -> SUBSET Fds]
  PROVE  SumOf(s) \in Nat /\ (SumOf(s) = 0 => \A k \in Kinds : s[k] = {})
<1>1. s["rd"] \in SUBSET Fds /\ s["wr"] \in SUBSET Fds /\ s["ex"] \in SUBSET Fds
  BY DEF Kinds
<1> DEFINE a == Cardinality(s["rd"])
           b == Cardinality(s["wr"])
           c == Cardinality(s["ex"])
<1>2. /\ a \in Nat /\ (a = 0 <=> s["rd"] = {})
      /\ b \in Nat /\ (b = 0 <=> s["wr"] = {})
      /\ c \in Nat /\ (c = 0 <=> s["ex"] = {})
  BY <1>1, FdSets
<1>3. SumOf(s) = a + b + c
  BY DEF SumOf
<1> HIDE DEF a, b, c
<1>4. SumOf(s) \in Nat /\ (SumOf(s) = 0 => a = 0 /\ b = 0 /\ c = 0)
  BY <1>2, <1>3
<1> QED
  BY <1>2, <1>4 DEF Kinds

----------------------------------------------------------------------------
(* What the call asks for, which it does not change.                       *)

Asking == table \in [Fds -> Entry] /\ asked \in [Kinds -> SUBSET Fds]

LEMMA Asks ==
  ASSUME Asking
  PROVE  /\ \A k \in Kinds : FilesOf(k) \subseteq Fds /\ Sockets(k) \subseteq Fds
         /\ Blocking \subseteq Fds
         /\ \A fd \in Fds : \A kind : Is(fd, kind) => table[fd].handle \in Handles
         /\ nfile \in Nat /\ nsock \in Nat
         /\ nsock = 0 => \A k \in Kinds : Sockets(k) = {}
         /\ \A k \in Kinds : \A fd \in FilesOf(k) : ~Is(fd, "socket")
         /\ \A fd \in Blocking : ~Is(fd, "socket")
<1>1. \A k \in Kinds : asked[k] \subseteq Fds
  BY DEF Asking
<1>2. \A k \in Kinds : FilesOf(k) \subseteq asked[k] /\ \A fd \in FilesOf(k) : ~Is(fd, "socket")
  BY DEF FilesOf, Is, Kinds
<1>3. \A k \in Kinds : Sockets(k) \subseteq asked[k]
  BY DEF Sockets
<1>4. Blocking \subseteq Fds /\ \A fd \in Blocking : ~Is(fd, "socket")
  <2>1. Blocking \subseteq asked["rd"] /\ "rd" \in Kinds
    BY DEF Blocking, Kinds
  <2> QED
    BY <1>1, <2>1 DEF Blocking, Is
<1>5. \A fd \in Fds : \A kind : Is(fd, kind) => table[fd].handle \in Handles
  BY DEF Asking, Entry, Is
<1>6. nfile \in Nat
  <2>1. [k \in Kinds |-> FilesOf(k)] \in [Kinds -> SUBSET Fds]
    BY <1>1, <1>2
  <2> QED
    BY <2>1, SumOfFds DEF nfile
<1>7. nsock \in Nat /\ (nsock = 0 => \A k \in Kinds : Sockets(k) = {})
  <2> DEFINE s == [k \in Kinds |-> Sockets(k)]
  <2>1. s \in [Kinds -> SUBSET Fds]
    BY <1>1, <1>3
  <2>2. \A k \in Kinds : s[k] = Sockets(k)
    OBVIOUS
  <2>3. nsock = SumOf(s)
    BY DEF nsock
  <2> HIDE DEF s
  <2> QED
    BY <2>1, <2>2, <2>3, SumOfFds
<1> QED
  BY <1>1, <1>2, <1>3, <1>4, <1>5, <1>6, <1>7

----------------------------------------------------------------------------
(* From handles back to descriptors.                                       *)

HandlesOf(k) == {table[fd].handle : fd \in Sockets(k)}

SocketsFound(k, w) == {FdOf(table[fd].handle) : fd \in {f \in Sockets(k) : table[f].handle \in w.arrived[k]}}
TerminalsFound(w)  == {fd \in Blocking : table[fd].handle \in w.typed}

LEMMA ReadyIs ==
  ASSUME NEW k, NEW w
  PROVE  ReadyOf(k, w) = FilesOf(k) \cup SocketsFound(k, w) \cup IF k = "rd" THEN TerminalsFound(w) ELSE {}
  BY DEF ReadyOf, SocketsFound, TerminalsFound

\* amitcp2fd() finds a descriptor that has the socket.
LEMMA FdOfSocket ==
  ASSUME Asking, NEW k \in Kinds, NEW h \in HandlesOf(k)
  PROVE  FdOf(h) \in Fds /\ Is(FdOf(h), "socket") /\ table[FdOf(h)].handle = h
<1> DEFINE S == {fd \in Fds : Is(fd, "socket") /\ table[fd].handle = h}
<1>1. PICK fd \in Sockets(k) : h = table[fd].handle
  BY DEF HandlesOf
<1>2. fd \in Fds /\ Is(fd, "socket")
  BY Asks DEF Sockets
<1>3. S \in SUBSET Fds /\ S # {}
  BY <1>1, <1>2
<1>4. Least(S) \in S
  BY <1>3, LeastIn
<1> QED
  BY <1>4 DEF FdOf

\* The sockets that are ready, as descriptors.
LEMMA Found ==
  ASSUME Asking, NEW k \in Kinds, NEW w
  PROVE  SocketsFound(k, w) = {FdOf(h) : h \in HandlesOf(k) \cap w.arrived[k]}
  BY DEF SocketsFound, HandlesOf

\* There are as many descriptors as sockets, and none of them is in the sets yet.
LEMMA ConvertedOnce ==
  ASSUME Asking, NEW k \in Kinds, NEW H \in SUBSET HandlesOf(k), NEW S \in SUBSET Fds,
         \A fd \in S : ~Is(fd, "socket")
  PROVE  LET F == {FdOf(h) : h \in H} IN
         F \in SUBSET Fds /\ Cardinality(S \cup F) = Cardinality(S) + Cardinality(H)
<1> DEFINE F == {FdOf(h) : h \in H}
           f == [h \in H |-> FdOf(h)]
<1>1. \A h \in H : FdOf(h) \in Fds /\ Is(FdOf(h), "socket") /\ table[FdOf(h)].handle = h
  BY FdOfSocket
<1>2. F \in SUBSET Fds /\ S \cap F = {}
  BY <1>1
<1>3. \A g, h \in H : FdOf(g) = FdOf(h) => g = h
  BY <1>1
<1>4. f \in Injection(H, F) /\ f \in Surjection(H, F)
  BY <1>3 DEF Injection, Surjection, IsInjective
<1> HIDE DEF F, f
<1>5. IsFiniteSet(S) /\ IsFiniteSet(F) /\ Cardinality(S) \in Nat /\ Cardinality(F) \in Nat
  BY <1>2, FdSets
<1>6. IsFiniteSet(H)
  BY <1>4, <1>5, FS_Injection
<1>7. Cardinality(F) = Cardinality(H)
  BY <1>4, <1>6, FS_Surjection
<1>8. Cardinality(S \cup F) = Cardinality(S) + Cardinality(F) - Cardinality({})
  BY <1>2, <1>5, FS_Union
<1>9. Cardinality({}) = 0
  BY FS_EmptySet
<1> QED
  BY <1>2, <1>5, <1>7, <1>8, <1>9 DEF F

\* As many handles as descriptors of sockets, or fewer.
LEMMA ReadyCounts ==
  ASSUME Asking, NEW from, \A k \in Kinds : from[k] \in SUBSET HandlesOf(k)
  PROVE  (\A k \in Kinds : Cardinality(from[k]) \in Int) /\ SumOf(from) \in Int
<1>1. \A k \in Kinds : Cardinality(from[k]) \in Int
  <2>1. ASSUME NEW k \in Kinds PROVE IsFiniteSet(from[k])
    <3> DEFINE H == from[k]
               F == {FdOf(h) : h \in H}
               f == [h \in H |-> FdOf(h)]
    <3>1. \A h \in H : FdOf(h) \in Fds /\ table[FdOf(h)].handle = h
      BY FdOfSocket
    <3>2. f \in Injection(H, Fds)
      BY <3>1 DEF Injection, IsInjective
    <3>3. IsFiniteSet(Fds)
      BY FdSets
    <3> QED
      BY <3>2, <3>3, FS_Injection
  <2> QED
    BY <2>1, FS_CardinalityType
<1>2. "rd" \in Kinds /\ "wr" \in Kinds /\ "ex" \in Kinds
  BY DEF Kinds
<1> QED
  BY <1>1, <1>2 DEF SumOf

LEMMA ConvertedAll ==
  ASSUME Asking, sets \in [Kinds -> SUBSET Fds], \A k \in Kinds : \A fd \in sets[k] : ~Is(fd, "socket"),
         NEW from, \A k \in Kinds : from[k] \in SUBSET HandlesOf(k)
  PROVE  LET t == [k \in Kinds |-> sets[k] \cup {FdOf(h) : h \in from[k]}] IN
         t \in [Kinds -> SUBSET Fds] /\ SumOf(t) = SumOf(sets) + SumOf(from)
<1> DEFINE t == [k \in Kinds |-> sets[k] \cup {FdOf(h) : h \in from[k]}]
<1>1. \A k \in Kinds : t[k] \in SUBSET Fds /\ Cardinality(t[k]) = Cardinality(sets[k]) + Cardinality(from[k])
  <2>1. ASSUME NEW k \in Kinds
        PROVE  t[k] \in SUBSET Fds /\ Cardinality(t[k]) = Cardinality(sets[k]) + Cardinality(from[k])
    BY ConvertedOnce
  <2> QED
    BY <2>1
<1>2. \A k \in Kinds : Cardinality(sets[k]) \in Nat /\ Cardinality(t[k]) \in Nat
  BY <1>1, FdSets
<1>3. \A k \in Kinds : Cardinality(from[k]) \in Int
  BY ReadyCounts
<1>4. "rd" \in Kinds /\ "wr" \in Kinds /\ "ex" \in Kinds
  BY DEF Kinds
<1>5. t \in [Kinds -> SUBSET Fds]
  BY <1>1
<1> HIDE DEF t
<1>6. SumOf(t) = SumOf(sets) + SumOf(from)
  BY <1>1, <1>2, <1>3, <1>4 DEF SumOf
<1> QED
  BY <1>5, <1>6 DEF t

----------------------------------------------------------------------------
(* The invariant.                                                          *)

\* Where select() is, or will be when the terminals have been asked.
At == IF pc = "ask" THEN then ELSE pc

\* The sockets are still to be asked, if there are any; all have been asked.
Before == At \in {"look", "terminals", "again", "round", "wait", "sleep"}
After  == At = "done" \/ (pc = "returned" /\ n >= 0)

Typed ==
  /\ Asking
  /\ DOMAIN arrived = Kinds
  /\ sets \in [Kinds -> SUBSET Fds]
  /\ todo \in SUBSET Blocking
  /\ n \in Int
  /\ pc = "ask" => then \in {"look", "terminals", "again", "round", "wait", "done"}

\* What was ready at the call still is.
Earlier == early.typed \subseteq typed /\ \A k \in Kinds : early.arrived[k] \subseteq arrived[k]

\* The questions that are asked of terminals alone, and the wait.
Placed ==
  /\ At \in {"terminals", "again", "round", "sleep"} => nsock = 0
  /\ pc = "sleep" => n = 0
  /\ At = "wait" => nfile = 0 /\ nsock > 0

\* Until then the sets hold no socket.
NoSockets ==
  Before => /\ tcp = [k \in Kinds |-> HandlesOf(k)]
            /\ \A k \in Kinds : \A fd \in sets[k] : ~Is(fd, "socket")

Sound ==
  (Before \/ After) /\ ~Mixed =>
    (\A k \in Kinds : sets[k] \subseteq ReadyOf(k, Now)) /\ n = SumOf(sets)

\* The files are in the sets, a terminal that was ready is or is still to be asked, and
\* the sockets that were ready come in the end.
Complete ==
  /\ Before \/ After =>
       /\ \A k \in Kinds : FilesOf(k) \subseteq sets[k]
       /\ \A fd \in TerminalsFound(early) : fd \in sets["rd"] \/ (pc = "ask" /\ fd \in todo)
  /\ After => \A k \in Kinds : SocketsFound(k, early) \subseteq sets[k]

Inv == Typed /\ Earlier /\ Placed /\ NoSockets /\ Sound /\ Complete

LEMMA InvInit == Init => Inv
<1> SUFFICES ASSUME Init PROVE Inv
  OBVIOUS
<1>1. Asking
  BY TableAssumption, RequestAssumption DEF Init, Asking
<1>2. pc = "called" /\ At = "called" /\ ~Before /\ ~After
  BY DEF Init, At, Before, After
<1>3. Typed
  BY <1>1, <1>2 DEF Typed, Init, Asking, Empty
<1>4. Earlier
  BY DEF Earlier, Init, Empty
<1> QED
  BY <1>2, <1>3, <1>4 DEF Inv, Placed, NoSockets, Sound, Complete

\* The table and what is asked for stay.
LEMMA Stays ==
  ASSUME UNCHANGED <<table, asked, timeout>>
  PROVE  /\ Asking' <=> Asking
         /\ \A k : FilesOf(k)' = FilesOf(k) /\ Sockets(k)' = Sockets(k) /\ HandlesOf(k)' = HandlesOf(k)
         /\ Blocking' = Blocking /\ nfile' = nfile /\ nsock' = nsock
         /\ \A h : FdOf(h)' = FdOf(h)
         /\ \A fd, kind : Is(fd, kind)' <=> Is(fd, kind)
         /\ Mixed' <=> Mixed
<1>1. Asking' <=> Asking
  BY DEF Asking
<1>2. \A fd, kind : Is(fd, kind)' <=> Is(fd, kind)
  BY DEF Is
<1>3. \A k : FilesOf(k)' = FilesOf(k) /\ Sockets(k)' = Sockets(k) /\ HandlesOf(k)' = HandlesOf(k)
  BY DEF FilesOf, Sockets, HandlesOf, Is
<1>4. Blocking' = Blocking
  BY DEF Blocking, Is
<1>5. nfile' = nfile /\ nsock' = nsock
  BY DEF nfile, nsock, FilesOf, Sockets, Is
<1>6. \A h : FdOf(h)' = FdOf(h)
  BY DEF FdOf, Is
<1>7. Mixed' <=> Mixed
  BY <1>4, <1>5 DEF Mixed
<1> QED
  BY <1>1, <1>2, <1>3, <1>4, <1>5, <1>6, <1>7

LEMMA StillReady ==
  ASSUME UNCHANGED <<world, early>>
  PROVE  /\ \A k : ReadyOf(k, Now)' = ReadyOf(k, Now)
         /\ \A k : SocketsFound(k, early)' = SocketsFound(k, early)
         /\ TerminalsFound(early)' = TerminalsFound(early)
         /\ Earlier' <=> Earlier
<1>1. UNCHANGED <<table, asked, timeout>>
  BY DEF world
<1>2. Now' = Now /\ early' = early /\ typed' = typed /\ arrived' = arrived /\ table' = table
  BY DEF world, Now
<1>3. \A k : /\ ReadyOf(k, Now) = FilesOf(k) \cup SocketsFound(k, Now) \cup IF k = "rd" THEN TerminalsFound(Now) ELSE {}
             /\ ReadyOf(k, Now)' = FilesOf(k)' \cup SocketsFound(k, Now)' \cup IF k = "rd" THEN TerminalsFound(Now)' ELSE {}
  BY DEF ReadyOf, SocketsFound, TerminalsFound
<1>4. \A k : SocketsFound(k, early)' = SocketsFound(k, early) /\ SocketsFound(k, Now)' = SocketsFound(k, Now)
  BY <1>1, <1>2, Stays DEF SocketsFound
<1>5. TerminalsFound(early)' = TerminalsFound(early) /\ TerminalsFound(Now)' = TerminalsFound(Now)
  BY <1>1, <1>2, Stays DEF TerminalsFound
<1>6. \A k : ReadyOf(k, Now)' = ReadyOf(k, Now)
  <2>1. \A k : FilesOf(k)' = FilesOf(k)
    BY <1>1, Stays
  <2> QED
    BY <1>3, <1>4, <1>5, <2>1
<1>7. Earlier' <=> Earlier
  BY <1>2 DEF Earlier
<1> QED
  BY <1>4, <1>5, <1>6, <1>7

\* select() goes on, and no set changes.
LEMMA Moves ==
  ASSUME Inv, UNCHANGED <<world, early, sets, tcp, n>>, Before \/ At = "done",
         pc = "ask" => todo = {}, todo' \in SUBSET Blocking,
         pc' = "ask" => then' \in {"look", "terminals", "again", "round", "wait", "done"},
         Before' => Before, Placed', After' => At = "done" \/ nsock = 0
  PROVE  Inv'
<1>1. UNCHANGED <<table, asked, timeout>> /\ sets' = sets /\ tcp' = tcp /\ n' = n /\ arrived' = arrived
  BY DEF world
<1>2. UNCHANGED <<world, early>>
  OBVIOUS
<1>3. Typed'
  BY <1>1, Stays DEF Inv, Typed
<1>4. Earlier'
  BY <1>2, StillReady DEF Inv
<1>5. NoSockets'
  BY <1>1, Stays DEF Inv, NoSockets
<1>6. Sound'
  <2>1. Mixed' <=> Mixed
    BY <1>1, Stays
  <2>2. SumOf(sets)' = SumOf(sets)
    BY <1>1 DEF SumOf
  <2>3. \A k : ReadyOf(k, Now)' = ReadyOf(k, Now)
    BY <1>2, StillReady
  <2>4. ~Mixed => (\A k \in Kinds : sets[k] \subseteq ReadyOf(k, Now)) /\ n = SumOf(sets)
    BY DEF Inv, Sound, After
  <2> QED
    BY <1>1, <2>1, <2>2, <2>3, <2>4 DEF Sound
<1>7. Complete'
  <2>1. \A k : FilesOf(k)' = FilesOf(k)
    BY <1>1, Stays
  <2>2. TerminalsFound(early)' = TerminalsFound(early)
    BY <1>2, StillReady
  <2>3. \A k : SocketsFound(k, early)' = SocketsFound(k, early)
    BY <1>2, StillReady
  <2>4. /\ \A k \in Kinds : FilesOf(k) \subseteq sets[k]
        /\ \A fd \in TerminalsFound(early) : fd \in sets["rd"]
        /\ At = "done" => \A k \in Kinds : SocketsFound(k, early) \subseteq sets[k]
    BY DEF Inv, Complete, After
  <2>5. nsock = 0 => \A k \in Kinds : SocketsFound(k, early) = {}
    BY Asks DEF Inv, Typed, SocketsFound
  <2> QED
    BY <1>1, <2>1, <2>2, <2>3, <2>4, <2>5 DEF Complete
<1> QED
  BY <1>3, <1>4, <1>5, <1>6, <1>7 DEF Inv

\* The descriptors of sockets are added to the sets, when they may be: the ready ones,
\* or in the mixed case all.
LEMMA Converts ==
  ASSUME Inv, UNCHANGED <<world, early>>, Before, pc # "ask",
         NEW from, NEW i \in Int, Convert(from, i),
         \A k \in Kinds : HandlesOf(k) \cap arrived[k] \subseteq from[k] /\ from[k] \subseteq HandlesOf(k),
         ~Mixed => /\ \A k \in Kinds : from[k] \subseteq arrived[k]
                   /\ i = SumOf(from),
         todo' \in SUBSET Blocking,
         pc' = "ask" => then' = "done", pc' \in {"ask", "done", "returned"}
  PROVE  Inv'
<1>1. UNCHANGED <<table, asked, timeout>> /\ arrived' = arrived
  BY DEF world
<1>2. /\ sets' = [k \in Kinds |-> sets[k] \cup {FdOf(h) : h \in from[k]}]
      /\ n' = n + i
  BY DEF Convert
<1>3. sets' \in [Kinds -> SUBSET Fds] /\ SumOf(sets)' = SumOf(sets) + SumOf(from)
  <2>1. Asking /\ sets \in [Kinds -> SUBSET Fds]
    BY DEF Inv, Typed
  <2>2. \A k \in Kinds : \A fd \in sets[k] : ~Is(fd, "socket")
    BY DEF Inv, NoSockets
  <2>3. SumOf(sets') = SumOf(sets) + SumOf(from) /\ sets' \in [Kinds -> SUBSET Fds]
    BY <1>2, <2>1, <2>2, ConvertedAll
  <2>4. SumOf(sets)' = SumOf(sets')
    BY DEF SumOf
  <2> QED
    BY <2>3, <2>4
<1>4. ~Before' /\ At' # "terminals" /\ At' # "again" /\ At' # "round" /\ At' # "sleep" /\ At' # "wait" /\ pc' # "sleep"
  BY DEF Before, At
<1>5. Typed'
  BY <1>1, <1>2, <1>3, Stays DEF Inv, Typed
<1>6. Earlier'
  BY StillReady DEF Inv
<1>7. Sound'
  <2>1. ASSUME ~Mixed
        PROVE  (\A k \in Kinds : sets'[k] \subseteq ReadyOf(k, Now)) /\ n' = SumOf(sets)'
    <3>1. (\A k \in Kinds : sets[k] \subseteq ReadyOf(k, Now)) /\ n = SumOf(sets)
      BY <2>1 DEF Inv, Sound
    <3>2. \A k \in Kinds : {FdOf(h) : h \in from[k]} \subseteq SocketsFound(k, Now)
      BY <2>1, Found DEF Inv, Typed, Now
    <3>3. \A k \in Kinds : {FdOf(h) : h \in from[k]} \subseteq ReadyOf(k, Now)
      BY <3>2, ReadyIs
    <3>4. n' = SumOf(sets)'
      BY <1>2, <1>3, <2>1, <3>1
    <3> QED
      BY <1>2, <3>1, <3>3, <3>4
  <2>2. (Mixed' <=> Mixed) /\ \A k : ReadyOf(k, Now)' = ReadyOf(k, Now)
    BY <1>1, Stays, StillReady
  <2> QED
    BY <2>1, <2>2 DEF Sound
<1>8. Complete'
  <2>1. \A k \in Kinds : sets[k] \subseteq sets'[k] /\ {FdOf(h) : h \in from[k]} \subseteq sets'[k]
    BY <1>2
  <2>2. /\ \A k \in Kinds : FilesOf(k) \subseteq sets[k]
        /\ \A fd \in TerminalsFound(early) : fd \in sets["rd"]
    BY DEF Inv, Complete
  <2>3. \A k \in Kinds : SocketsFound(k, early) \subseteq {FdOf(h) : h \in from[k]}
    <3>1. \A k \in Kinds : early.arrived[k] \subseteq arrived[k]
      BY DEF Inv, Earlier
    <3> QED
      BY <3>1, Found DEF Inv, Typed
  <2>4. /\ \A k : FilesOf(k)' = FilesOf(k) /\ SocketsFound(k, early)' = SocketsFound(k, early)
        /\ TerminalsFound(early)' = TerminalsFound(early)
    BY <1>1, Stays, StillReady
  <2>5. "rd" \in Kinds
    BY DEF Kinds
  <2>6. /\ \A k \in Kinds : FilesOf(k)' \subseteq sets'[k]
        /\ \A fd \in TerminalsFound(early)' : fd \in sets'["rd"]
    BY <2>1, <2>2, <2>4, <2>5
  <2>7. \A k \in Kinds : SocketsFound(k, early)' \subseteq sets'[k]
    BY <2>1, <2>3, <2>4
  <2> QED
    BY <2>6, <2>7 DEF Complete
<1> QED
  BY <1>4, <1>5, <1>6, <1>7, <1>8 DEF Inv, Placed, NoSockets

----------------------------------------------------------------------------
(* The steps.                                                              *)

\* What becomes ready can only add to what the sets may hold.
LEMMA WorldStep == Inv /\ World => Inv'
<1> SUFFICES ASSUME Inv, World PROVE Inv'
  OBVIOUS
<1>1. /\ UNCHANGED <<table, asked, timeout, early, pc, then, todo, sets, tcp, n>>
      /\ typed \subseteq typed' /\ DOMAIN arrived' = Kinds
      /\ \A k \in Kinds : arrived[k] \subseteq arrived'[k]
  <2>1. DOMAIN arrived = Kinds
    BY DEF Inv, Typed
  <2>2. PICK fd \in Fds : Type(fd) \/ \E k \in Kinds : Arrive(k, fd)
    BY DEF World
  <2>3. CASE Type(fd)
    BY <2>1, <2>3 DEF Type
  <2>4. CASE \E k \in Kinds : Arrive(k, fd)
    BY <2>1, <2>4 DEF Arrive
  <2> QED
    BY <2>2, <2>3, <2>4
<1>2. UNCHANGED <<table, asked, timeout>>
  BY <1>1
<1>3. At' = At /\ (Before' <=> Before) /\ (After' <=> After)
  BY <1>1 DEF At, Before, After
<1>4. Typed' /\ Placed' /\ NoSockets' /\ Earlier'
  <2>1. Typed'
    BY <1>1, <1>2, Stays DEF Inv, Typed
  <2>2. Placed'
    BY <1>1, <1>2, <1>3, Stays DEF Inv, Placed
  <2>3. NoSockets'
    BY <1>1, <1>2, <1>3, Stays DEF Inv, NoSockets
  <2>4. Earlier'
    BY <1>1 DEF Inv, Earlier
  <2> QED
    BY <2>1, <2>2, <2>3, <2>4
<1>5. Sound'
  <2>1. \A k \in Kinds : ReadyOf(k, Now) \subseteq ReadyOf(k, Now)'
    <3>1. \A k \in Kinds : SocketsFound(k, Now) \subseteq SocketsFound(k, Now)'
      BY <1>1, <1>2, Stays DEF SocketsFound, Now
    <3>2. TerminalsFound(Now) \subseteq TerminalsFound(Now)'
      BY <1>1, <1>2, Stays DEF TerminalsFound, Now
    <3>3. \A k : /\ ReadyOf(k, Now) = FilesOf(k) \cup SocketsFound(k, Now) \cup IF k = "rd" THEN TerminalsFound(Now) ELSE {}
                 /\ ReadyOf(k, Now)' = FilesOf(k)' \cup SocketsFound(k, Now)' \cup IF k = "rd" THEN TerminalsFound(Now)' ELSE {}
      BY DEF ReadyOf, SocketsFound, TerminalsFound
    <3>4. \A k : FilesOf(k)' = FilesOf(k)
      BY <1>2, Stays
    <3> QED
      BY <3>1, <3>2, <3>3, <3>4
  <2>2. SumOf(sets)' = SumOf(sets) /\ (Mixed' <=> Mixed)
    BY <1>1, <1>2, Stays DEF SumOf
  <2>3. (Before \/ After) /\ ~Mixed =>
          (\A k \in Kinds : sets[k] \subseteq ReadyOf(k, Now)) /\ n = SumOf(sets)
    BY DEF Inv, Sound
  <2> QED
    BY <1>1, <1>3, <2>1, <2>2, <2>3 DEF Sound
<1>6. Complete'
  <2>1. \A k : FilesOf(k)' = FilesOf(k)
    BY <1>2, Stays
  <2>2. TerminalsFound(early)' = TerminalsFound(early) /\ \A k : SocketsFound(k, early)' = SocketsFound(k, early)
    BY <1>1, <1>2, Stays DEF TerminalsFound, SocketsFound
  <2> QED
    BY <1>1, <1>3, <2>1, <2>2 DEF Inv, Complete
<1> QED
  BY <1>4, <1>5, <1>6 DEF Inv

LEMMA FailStep == Inv /\ WaitFails => Inv'
<1> SUFFICES ASSUME Inv, WaitFails PROVE Inv'
  OBVIOUS
<1>1. UNCHANGED <<world, early, then, todo, sets, tcp>> /\ pc' = "returned" /\ n' = -1
  BY DEF WaitFails, Return
<1>2. UNCHANGED <<table, asked, timeout>> /\ arrived' = arrived /\ todo' = todo /\ sets' = sets
  BY <1>1 DEF world
<1>3. ~Before' /\ ~After' /\ At' = "returned"
  BY <1>1 DEF Before, After, At
<1>4. Typed'
  BY <1>1, <1>2, Stays DEF Inv, Typed
<1>5. Earlier'
  BY <1>1, StillReady DEF Inv
<1> QED
  BY <1>1, <1>3, <1>4, <1>5 DEF Inv, Placed, NoSockets, Sound, Complete

\* The steps that change no set.
LEMMA MoveStep == Inv /\ (Asked \/ Terminals \/ Done \/ Sleep) => Inv'
<1> SUFFICES ASSUME Inv, Asked \/ Terminals \/ Done \/ Sleep PROVE Inv'
  OBVIOUS
<1>1. todo \in SUBSET Blocking /\ Blocking \in SUBSET Blocking
  BY DEF Inv, Typed
<1>2. Placed
  BY DEF Inv
<1>3. CASE Asked
  <2>1. /\ pc = "ask" /\ todo = {} /\ pc' = then /\ UNCHANGED <<world, early, then, todo, sets, tcp, n>>
        /\ UNCHANGED <<table, asked, timeout>>
    BY <1>3 DEF Asked, world
  <2>2. then \in {"look", "terminals", "again", "round", "wait", "done"}
    BY <2>1 DEF Inv, Typed
  <2>3. At = then /\ At' = then /\ pc' # "ask" /\ pc' # "sleep" /\ pc' # "returned"
    BY <2>1, <2>2 DEF At
  <2>4. Before \/ At = "done"
    BY <2>2, <2>3 DEF Before
  <2>5. Placed'
    BY <1>2, <2>1, <2>3, Stays DEF Placed
  <2>6. (Before' => Before) /\ (After' => At = "done")
    BY <2>3 DEF Before, After
  <2> QED
    BY <1>1, <2>1, <2>3, <2>4, <2>5, <2>6, Moves
<1>4. CASE Terminals
  <2>1. /\ UNCHANGED <<world, early, sets, tcp>> /\ n' = n /\ UNCHANGED <<table, asked, timeout>>
        /\ pc \in {"terminals", "again", "round"}
        /\ \/ pc' = "ask" /\ then' \in {"again", "round"} /\ todo' = Blocking
           \/ pc' \in {"returned", "terminals"} /\ todo' = todo
    BY <1>4 DEF Terminals, AskThen, Return, world
  <2>2. At = pc /\ Before /\ nsock = 0
    BY <1>2, <2>1 DEF At, Before, Placed
  <2>3. At' \in {"again", "round", "returned", "terminals"} /\ pc' # "sleep"
    BY <2>1 DEF At
  <2>4. Placed'
    BY <2>1, <2>2, <2>3, Stays DEF Placed
  <2> QED
    BY <1>1, <2>1, <2>2, <2>4, Moves
<1>5. CASE Done
  <2>1. /\ pc = "done" /\ UNCHANGED <<world, early, then, todo, sets, tcp>> /\ pc' = "returned" /\ n' = n
    BY <1>5 DEF Done, Return
  <2>2. At = "done" /\ At' = "returned" /\ Before' = FALSE
    BY <2>1 DEF At, Before
  <2>3. Placed'
    BY <2>1, <2>2 DEF Placed
  <2> QED
    BY <1>1, <2>1, <2>2, <2>3, Moves
<1>6. CASE Sleep
  <2>1. pc = "sleep" /\ nsock = 0 /\ n = 0 /\ At = "sleep" /\ Before
    BY <1>2, <1>6 DEF Sleep, At, Before, Placed
  <2>2. UNCHANGED <<world, early, then, todo, sets, tcp>> /\ n' = n /\ pc' \in {"returned", "wild"}
    BY <1>6, <2>1 DEF Sleep, Return
  <2>3. At' \in {"returned", "wild"} /\ ~Before'
    BY <2>2 DEF At, Before
  <2>4. Placed'
    BY <2>2, <2>3 DEF Placed
  <2> QED
    BY <1>1, <2>1, <2>2, <2>3, <2>4, Moves
<1> QED
  BY <1>3, <1>4, <1>5, <1>6

\* The scan puts the files into the sets.
LEMMA ScanStep == Inv /\ Scan => Inv'
<1> SUFFICES ASSUME Inv, Scan PROVE Inv'
  OBVIOUS
<1>1. UNCHANGED <<table, asked, timeout, typed, arrived>> /\ early' = [typed |-> typed, arrived |-> arrived]
  BY DEF Scan, world
<1>2. Asking /\ DOMAIN arrived = Kinds /\ todo \in SUBSET Blocking /\ sets \in [Kinds -> SUBSET Fds] /\ n \in Int
  BY DEF Inv, Typed
<1>3. /\ Asking' /\ Blocking' = Blocking /\ nfile' = nfile /\ nsock' = nsock
      /\ \A k : FilesOf(k)' = FilesOf(k) /\ Sockets(k)' = Sockets(k) /\ HandlesOf(k)' = HandlesOf(k)
  BY <1>1, <1>2, Stays
<1>4. Earlier'
  BY <1>1 DEF Earlier
<1>5. CASE Bad
  <2>1. pc' = "returned" /\ n' = -1 /\ UNCHANGED <<then, todo, sets, tcp>>
    BY <1>5 DEF Scan, Return
  <2>2. ~Before' /\ ~After' /\ At' = "returned"
    BY <2>1 DEF Before, After, At
  <2>3. Typed'
    BY <1>1, <1>2, <1>3, <2>1 DEF Typed
  <2> QED
    BY <1>4, <2>1, <2>2, <2>3 DEF Inv, Placed, NoSockets, Sound, Complete
<1>6. CASE ~Bad
  <2> DEFINE files == [k \in Kinds |-> FilesOf(k)]
             label == IF nfile > 0 THEN "look" ELSE IF nsock = 0 THEN "terminals" ELSE "wait"
  <2>1. /\ sets' = files /\ n' = nfile /\ tcp' = [k \in Kinds |-> HandlesOf(k)]
        /\ IF Blocking # {} THEN pc' = "ask" /\ then' = label /\ todo' = Blocking
           ELSE /\ pc' = IF nfile = 0 /\ nsock = 0 THEN "sleep" ELSE label
                /\ then' = then /\ todo' = todo
    BY <1>6 DEF Scan, AskThen, HandlesOf
  <2>2. /\ \A k \in Kinds : FilesOf(k) \subseteq Fds
        /\ nfile \in Nat /\ nsock \in Nat
        /\ \A k \in Kinds : \A fd \in FilesOf(k) : ~Is(fd, "socket")
    BY <1>2, Asks
  <2>3. files \in [Kinds -> SUBSET Fds] /\ nfile = SumOf(files)
    BY <2>2 DEF nfile
  <2>4. /\ label \in {"look", "terminals", "wait"}
        /\ label = "terminals" => nsock = 0
        /\ label = "wait" => nfile = 0 /\ nsock > 0
    BY <2>2
  <2>5. \A k \in Kinds : files[k] = FilesOf(k)
    OBVIOUS
  <2> HIDE DEF files, label
  <2>6. /\ At' = label \/ (At' = "sleep" /\ nfile = 0 /\ nsock = 0)
        /\ pc' \in {"ask", "sleep", label} /\ (pc' = "sleep" => nfile = 0 /\ nsock = 0)
    BY <2>1, <2>4 DEF At
  <2>7. Before' /\ ~After'
    BY <2>4, <2>6 DEF Before, After, At
  <2>8. Typed'
    BY <1>1, <1>2, <1>3, <2>1, <2>2, <2>3, <2>4 DEF Typed
  <2>9. Placed'
    BY <1>3, <2>1, <2>4, <2>6 DEF Placed
  <2>10. NoSockets'
    <3>1. \A fd, kind : Is(fd, kind)' <=> Is(fd, kind)
      BY <1>1, Stays
    <3> QED
      BY <1>3, <2>1, <2>2, <2>5, <3>1 DEF NoSockets
  <2>11. Sound'
    <3>1. SumOf(sets)' = SumOf(files)
      BY <2>1 DEF SumOf
    <3>2. \A k \in Kinds : FilesOf(k)' \subseteq ReadyOf(k, Now)'
      BY DEF ReadyOf
    <3> QED
      BY <1>3, <2>1, <2>3, <2>5, <3>1, <3>2 DEF Sound
  <2>12. Complete'
    <3>1. TerminalsFound(early)' \subseteq Blocking'
      BY DEF TerminalsFound
    <3>2. \A fd \in TerminalsFound(early)' : pc' = "ask" /\ fd \in todo'
      BY <1>3, <2>1, <3>1
    <3> QED
      BY <1>3, <2>1, <2>5, <2>7, <3>2 DEF Complete
  <2> QED
    BY <1>4, <2>8, <2>9, <2>10, <2>11, <2>12 DEF Inv
<1> QED
  BY <1>5, <1>6

\* A terminal that is asked is in the set once, if it was typed at.
LEMMA AskStep == Inv /\ Ask => Inv'
<1> SUFFICES ASSUME Inv, Ask PROVE Inv'
  OBVIOUS
<1> DEFINE fd == Least(todo)
<1>1. /\ pc = "ask" /\ todo # {} /\ Answers(fd) /\ todo' = todo \ {fd}
      /\ UNCHANGED <<world, early>> /\ UNCHANGED <<pc, then, tcp>>
  BY DEF Ask
<1>2. UNCHANGED <<table, asked, timeout>> /\ arrived' = arrived
  BY <1>1 DEF world
<1>3. fd \in todo /\ fd \in Blocking /\ fd \in Fds /\ ~Is(fd, "socket")
  <2>1. todo \in SUBSET Blocking /\ Blocking \subseteq Fds /\ \A d \in Blocking : ~Is(d, "socket")
    BY Asks DEF Inv, Typed
  <2>2. fd \in todo
    BY <1>1, <2>1, LeastIn
  <2> QED
    BY <2>1, <2>2
<1> HIDE DEF fd
<1>4. sets \in [Kinds -> SUBSET Fds] /\ n \in Int /\ "rd" \in Kinds
  BY DEF Inv, Typed, Kinds
<1>5. /\ sets' \in [Kinds -> SUBSET Fds] /\ n' \in Int
      /\ \A k \in Kinds : sets[k] \subseteq sets'[k]
      /\ \A k \in Kinds : \A d \in sets'[k] \ sets[k] : k = "rd" /\ d = fd /\ table[fd].handle \in typed
      /\ table[fd].handle \in typed => fd \in sets'["rd"]
  BY <1>1, <1>3, <1>4 DEF Answers
<1>6. n = SumOf(sets) => n' = SumOf(sets)'
  <2>1. CASE table[fd].handle \in typed /\ fd \notin sets["rd"]
    <3>1. sets' = [sets EXCEPT !["rd"] = @ \cup {fd}] /\ n' = n + 1
      BY <1>1, <2>1 DEF Answers
    <3>2. /\ sets'["rd"] = sets["rd"] \cup {fd} /\ sets'["wr"] = sets["wr"] /\ sets'["ex"] = sets["ex"]
      BY <1>4, <3>1 DEF Kinds
    <3>3. sets["rd"] \in SUBSET Fds /\ sets["wr"] \in SUBSET Fds /\ sets["ex"] \in SUBSET Fds
      BY <1>4 DEF Kinds
    <3>4. Cardinality(sets["rd"] \cup {fd}) = Cardinality(sets["rd"]) + 1
      BY <2>1, <3>3, FdSets, FS_AddElement
    <3>5. /\ Cardinality(sets["rd"]) \in Nat /\ Cardinality(sets["wr"]) \in Nat
          /\ Cardinality(sets["ex"]) \in Nat
      BY <3>3, FdSets
    <3>6. SumOf(sets)' = SumOf(sets) + 1
      BY <3>2, <3>4, <3>5 DEF SumOf
    <3> QED
      BY <3>1, <3>6
  <2>2. CASE ~(table[fd].handle \in typed /\ fd \notin sets["rd"])
    BY <1>1, <2>2 DEF Answers, SumOf
  <2> QED
    BY <2>1, <2>2
<1>7. At' = At /\ (Before' <=> Before) /\ (After' <=> After)
  BY <1>1 DEF At, Before, After
<1>8. Typed'
  BY <1>1, <1>2, <1>5, Stays DEF Inv, Typed
<1>9. Earlier'
  BY <1>1, StillReady DEF Inv
<1>10. Placed'
  BY <1>1, <1>2, <1>7, Stays DEF Inv, Placed
<1>11. NoSockets'
  BY <1>1, <1>2, <1>3, <1>5, <1>7, Stays DEF Inv, NoSockets
<1>12. Sound'
  <2>1. table[fd].handle \in typed => fd \in ReadyOf("rd", Now)
    BY <1>3, ReadyIs DEF TerminalsFound, Now
  <2>2. (Mixed' <=> Mixed) /\ \A k : ReadyOf(k, Now)' = ReadyOf(k, Now)
    BY <1>1, <1>2, Stays, StillReady
  <2>3. (Before \/ After) /\ ~Mixed =>
          (\A k \in Kinds : sets[k] \subseteq ReadyOf(k, Now)) /\ n = SumOf(sets)
    BY DEF Inv, Sound
  <2> QED
    BY <1>5, <1>6, <1>7, <2>1, <2>2, <2>3 DEF Sound
<1>13. Complete'
  <2>1. \A d \in TerminalsFound(early) : table[d].handle \in typed
    BY DEF Inv, Earlier, TerminalsFound
  <2>2. /\ \A k : FilesOf(k)' = FilesOf(k) /\ SocketsFound(k, early)' = SocketsFound(k, early)
        /\ TerminalsFound(early)' = TerminalsFound(early)
    BY <1>1, <1>2, Stays, StillReady
  <2>3. Before \/ After =>
          /\ \A k \in Kinds : FilesOf(k) \subseteq sets[k]
          /\ \A d \in TerminalsFound(early) : d \in sets["rd"] \/ d \in todo
    BY DEF Inv, Complete
  <2>4. After => \A k \in Kinds : SocketsFound(k, early) \subseteq sets[k]
    BY DEF Inv, Complete
  <2>5. Before \/ After =>
          \A d \in TerminalsFound(early) : d \in sets'["rd"] \/ (pc' = "ask" /\ d \in todo')
    BY <1>1, <1>4, <1>5, <2>1, <2>3
  <2> QED
    BY <1>5, <1>7, <2>2, <2>3, <2>4, <2>5 DEF Complete
<1> QED
  BY <1>8, <1>9, <1>10, <1>11, <1>12, <1>13 DEF Inv

\* The sockets are asked, or all taken to be ready.
LEMMA SocketStep == Inv /\ (Look \/ Wait \/ Unwaited) => Inv'
<1> SUFFICES ASSUME Inv, Look \/ Wait \/ Unwaited PROVE Inv'
  OBVIOUS
<1>1. todo \in SUBSET Blocking /\ Blocking \in SUBSET Blocking
  BY DEF Inv, Typed
<1>2. Placed /\ NoSockets
  BY DEF Inv
<1>3. Before =>
        /\ \A k \in Kinds : Ready[k] = HandlesOf(k) \cap arrived[k]
        /\ \A k \in Kinds : tcp[k] = HandlesOf(k)
  BY <1>2 DEF NoSockets, Ready
<1>4. ASSUME NEW m, WaitSelect(m)
      PROVE  Convert(Ready, SumOf(Ready))
  BY <1>4 DEF WaitSelect
<1>5. Before => SumOf(Ready) \in Int
  <2>1. ASSUME Before PROVE SumOf(Ready) \in Int
    <3>1. Asking
      BY DEF Inv, Typed
    <3>2. \A k \in Kinds : Ready[k] \in SUBSET HandlesOf(k)
      BY <1>3, <2>1
    <3> QED
      BY <3>1, <3>2, ReadyCounts
  <2> QED
    BY <2>1
<1>6. CASE Look
  <2>1. pc = "look" /\ UNCHANGED <<world, early, then, todo>>
    BY <1>6 DEF Look
  <2>2. Before /\ At = "look" /\ pc # "ask"
    BY <2>1 DEF Before, At
  <2>3. CASE nsock = 0 /\ Return(n) /\ UNCHANGED <<sets, tcp>>
    <3>1. pc' = "returned" /\ n' = n /\ At' = "returned" /\ ~Before'
      BY <2>3 DEF Return, At, Before
    <3>2. Placed'
      BY <3>1 DEF Placed
    <3> QED
      BY <1>1, <2>1, <2>2, <2>3, <3>1, <3>2, Moves
  <2>4. CASE nsock > 0 /\ WaitSelect(TRUE) /\ pc' = "returned"
    <3>1. Convert(Ready, SumOf(Ready)) /\ SumOf(Ready) \in Int
      BY <1>4, <1>5, <2>2, <2>4
    <3>2. \A k \in Kinds : /\ HandlesOf(k) \cap arrived[k] \subseteq Ready[k] /\ Ready[k] \subseteq HandlesOf(k)
                           /\ Ready[k] \subseteq arrived[k]
      BY <1>3, <2>2
    <3>3. todo' \in SUBSET Blocking /\ pc' # "ask" /\ pc' \in {"ask", "done", "returned"}
      BY <1>1, <2>1, <2>4
    <3> QED
      BY <2>1, <2>2, <3>1, <3>2, <3>3, Converts
  <2> QED
    BY <1>6, <2>3, <2>4 DEF Look
<1>7. CASE Wait \/ Unwaited
  <2>1. pc = "wait" /\ UNCHANGED <<world, early>> /\ Finish
    BY <1>7 DEF Wait, Unwaited
  <2>2. Before /\ At = "wait" /\ pc # "ask"
    BY <2>1 DEF Before, At
  <2>3. todo' \in SUBSET Blocking /\ (pc' = "ask" => then' = "done") /\ pc' \in {"ask", "done", "returned"}
    BY <1>1, <2>1 DEF Finish, AskThen
  <2>4. CASE Wait
    <3>1. Convert(Ready, SumOf(Ready)) /\ SumOf(Ready) \in Int
      BY <1>4, <1>5, <2>2, <2>4 DEF Wait
    <3>2. \A k \in Kinds : /\ HandlesOf(k) \cap arrived[k] \subseteq Ready[k] /\ Ready[k] \subseteq HandlesOf(k)
                           /\ Ready[k] \subseteq arrived[k]
      BY <1>3, <2>2
    <3> QED
      BY <2>1, <2>2, <2>3, <3>1, <3>2, Converts
  <2>5. CASE Unwaited
    <3>1. Convert(tcp, MaxFd) /\ MaxFd \in Int
      BY <2>5, FdAssumption DEF Unwaited
    <3>2. Mixed
      BY <1>2, <2>2, <2>5 DEF Unwaited, Placed, Mixed
    <3>3. \A k \in Kinds : HandlesOf(k) \cap arrived[k] \subseteq tcp[k] /\ tcp[k] \subseteq HandlesOf(k)
      BY <1>3, <2>2
    <3> QED
      BY <2>1, <2>2, <2>3, <3>1, <3>2, <3>3, Converts
  <2> QED
    BY <1>7, <2>4, <2>5
<1> QED
  BY <1>6, <1>7

LEMMA InvStep == Inv /\ [Next]_vars => Inv'
<1> SUFFICES ASSUME Inv, [Next]_vars PROVE Inv'
  OBVIOUS
<1>1. CASE UNCHANGED vars
  <2>1. /\ UNCHANGED <<world, early>> /\ UNCHANGED <<table, asked, timeout, arrived, pc, then, todo, sets, tcp, n>>
    BY <1>1 DEF vars, world
  <2>2. UNCHANGED <<table, asked, timeout>>
    BY <2>1
  <2>3. At' = At /\ (Before' <=> Before) /\ (After' <=> After)
    BY <2>1 DEF At, Before, After
  <2>4. SumOf(sets)' = SumOf(sets)
    BY <2>1 DEF SumOf
  <2>5. Typed' /\ Placed' /\ NoSockets'
    BY <2>1, <2>2, <2>3, Stays DEF Inv, Typed, Placed, NoSockets
  <2>6. Sound' /\ Complete' /\ Earlier'
    BY <2>1, <2>2, <2>3, <2>4, Stays, StillReady DEF Inv, Sound, Complete
  <2> QED
    BY <2>5, <2>6 DEF Inv
<1>2. CASE Next
  BY <1>2, WorldStep, FailStep, MoveStep, ScanStep, AskStep, SocketStep DEF Next, Runs
<1> QED
  BY <1>1, <1>2

\* select() names only what was asked for and is ready.
THEOREM OnlyReadyNamed == Spec => []OnlyReady
<1>1. Inv => OnlyReady
  BY DEF Inv, Sound, After, OnlyReady, Answered
<1> QED
  BY InvInit, InvStep, <1>1, PTL DEF Spec

\* What it returns is the number of descriptors it names.
THEOREM CountsNamed == Spec => []CountRight
<1>1. Inv => CountRight
  BY DEF Inv, Sound, After, CountRight, Answered
<1> QED
  BY InvInit, InvStep, <1>1, PTL DEF Spec

\* What was ready at the call is named.
THEOREM ReadyIsNamed == Spec => []NothingMissed
<1>1. Inv => NothingMissed
  <2> SUFFICES ASSUME Inv, Answered, NEW k \in Kinds
               PROVE  ReadyOf(k, early) \subseteq sets[k]
    BY DEF NothingMissed
  <2>1. After /\ pc # "ask"
    BY DEF Answered, After
  <2>2. FilesOf(k) \subseteq sets[k] /\ SocketsFound(k, early) \subseteq sets[k]
        /\ TerminalsFound(early) \subseteq sets["rd"]
    BY <2>1 DEF Inv, Complete
  <2> QED
    BY <2>2, ReadyIs
<1> QED
  BY InvInit, InvStep, <1>1, PTL DEF Spec
=============================================================================
