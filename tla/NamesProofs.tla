---------------------------- MODULE NamesProofs ----------------------------
(***************************************************************************)
(* Theorems about Names: for every set of names, modes and times.          *)
(***************************************************************************)
EXTENDS Names, SequenceTheorems, WellFoundedInduction, TLAPS

----------------------------------------------------------------------------
(* Modes and times.                                                        *)

\* The mode that stat() finds is the one that chmod() was given (prot.c:20-53,
\* __stdiowin.c:175-183).
LEMMA ModeReturns ==
  ASSUME NEW mode \in SUBSET Bits
  PROVE  Prot2Mode(Mode2Prot(mode)) = mode
  BY DEF Prot2Mode, Mode2Prot, Bits, Own, Rest

\* C and TLA+ divide a number alike that is not negative.
LEMMA QuotOfNat ==
  ASSUME NEW a \in Nat, NEW b \in Nat \ {0}
  PROVE  Quot(a, b) = a \div b /\ Remd(a, b) = a % b
<1>1. Quot(a, b) = a \div b
  BY DEF Quot
<1>2. a = b * (a \div b) + (a % b)
  OBVIOUS
<1>3. a \div b \in Int /\ a % b \in Int
  OBVIOUS
<1> QED
  BY <1>1, <1>2, <1>3 DEF Remd

\* Seconds are days, minutes and seconds.
LEMMA DaysOf ==
  ASSUME NEW s \in Nat
  PROVE  /\ s \div 86400 \in Nat /\ s % 86400 \in Nat /\ s % 86400 < 86400
         /\ s = 86400 * (s \div 86400) + (s % 86400)
  BY SMT

LEMMA MinutesOf ==
  ASSUME NEW r \in Nat, r < 86400
  PROVE  /\ r \div 60 \in Nat /\ r \div 60 < 1440 /\ r % 60 \in Nat /\ r % 60 < 60
         /\ r = 60 * (r \div 60) + (r % 60)
  BY SMT

LEMMA TicksOf ==
  ASSUME NEW q \in Nat, q < 60, NEW u \in Nat, u < 50
  PROVE  q * 50 + u < 3000 /\ (q * 50 + u) \div 50 = q
  BY SMT

\* Days, minutes and ticks are parts of a time, and add up to it.
LEMMA TimeReturns ==
  ASSUME NEW t \in Timeval, t.sec >= Epoch, t.usec < 1000000
  PROVE  UnixTime(Datestamp(t)) = t.sec /\ IsDate(Datestamp(t))
<1>1. Carried(t) = t
  BY SMT DEF Carried, Timeval
<1>2. t.sec - Epoch \in Nat /\ Epoch = 2922 * 86400 /\ t.sec \in Int
  BY SMT DEF Timeval, Epoch, SecsPerDay
<1>3. PICK s \in Nat : s = t.sec - Epoch
  BY SMT, <1>2
<1>4. PICK d \in Nat, r \in Nat : r < 86400 /\ d = s \div 86400 /\ r = s % 86400 /\ s = 86400 * d + r
  BY SMT, <1>3, DaysOf
<1>5. PICK m \in Nat, q \in Nat : m < 1440 /\ q < 60 /\ m = r \div 60 /\ q = r % 60 /\ r = 60 * m + q
  BY SMT, <1>4, MinutesOf
<1>6. PICK u \in Nat : u < 50 /\ u = t.usec \div 20000
  <2>1. t.usec \div 20000 \in Nat /\ t.usec \div 20000 < 50
    BY SMT DEF Timeval
  <2> QED
    BY SMT, <2>1
<1>7. PICK k \in Nat : k < 3000 /\ k = q * 50 + u /\ k \div 50 = q
  BY SMT, <1>5, <1>6, TicksOf
<1>8. Quot(s, SecsPerDay) = d /\ Remd(s, SecsPerDay) = r
  <2>1. SecsPerDay = 86400
    BY SMT DEF SecsPerDay
  <2>2. 86400 \in Nat \ {0}
    BY SMT
  <2> QED
    BY SMT, <2>1, <2>2, <1>4, QuotOfNat
<1>9. Quot(r, 60) = m /\ Remd(r, 60) = q
  BY SMT, <1>5, QuotOfNat
<1>10. Datestamp(t) = [days |-> d, minute |-> m, tick |-> k]
  BY SMT, <1>1, <1>3, <1>6, <1>7, <1>8, <1>9 DEF Datestamp, TicksPerSecond
<1>11. Quot(k, TicksPerSecond) = q
  <2>1. TicksPerSecond \in Nat \ {0} /\ TicksPerSecond = 50
    BY SMT DEF TicksPerSecond
  <2>2. Quot(k, 50) = k \div 50
    BY SMT, QuotOfNat
  <2> QED
    BY SMT, <2>1, <2>2, <1>7
<1>12. UnixTime(Datestamp(t)) = ((d + 2922) * 1440 + m) * 60 + q
  BY SMT, <1>10, <1>11 DEF UnixTime
<1>13. IsDate(Datestamp(t))
  BY SMT, <1>5, <1>7, <1>10 DEF IsDate, TicksPerSecond
<1>14. ((d + 2922) * 1440 + m) * 60 + q = t.sec
  <2>1. t.sec = s + 2922 * 86400
    BY SMT, <1>2, <1>3
  <2>2. ((d + 2922) * 1440 + m) * 60 + q = (86400 * d + (60 * m + q)) + 2922 * 86400
    BY SMT
  <2> QED
    BY SMT, <2>1, <2>2, <1>4, <1>5
<1> QED
  BY SMT, <1>12, <1>13, <1>14

\* What DateStamp() answers is a date, and a time for stat().
LEMMA DateIsTime ==
  ASSUME NEW date \in Dates
  PROVE  UnixTime(date) \in Int /\ IsDate(date)
<1>1. date.days \in Nat /\ date.minute \in 0 .. 1439 /\ date.tick \in 0 .. 2999
  <2>1. date \in [days : Nat, minute : 0 .. 1439, tick : 0 .. 2999]
    BY DateAssumption
  <2> QED
    BY SMT, <2>1
<1>2. PICK d : d = date.days
  OBVIOUS
<1>3. PICK m : m = date.minute
  OBVIOUS
<1>4. PICK k : k = date.tick
  OBVIOUS
<1>5. d \in Nat /\ m \in 0 .. 1439 /\ k \in 0 .. 2999
  BY SMT, <1>1, <1>2, <1>3, <1>4
<1>6. PICK q \in Int : q = Quot(k, TicksPerSecond)
  <2>1. k \in Nat /\ TicksPerSecond \in Nat \ {0} /\ TicksPerSecond = 50
    BY SMT, <1>5 DEF TicksPerSecond
  <2>2. Quot(k, TicksPerSecond) = k \div 50
    BY <2>1, QuotOfNat
  <2>3. k \div 50 \in Int
    BY SMT, <2>1
  <2> QED
    BY <2>2, <2>3
<1>7. UnixTime(date) = ((d + 2922) * 1440 + m) * 60 + q
  BY SMT, <1>2, <1>3, <1>4, <1>6 DEF UnixTime
<1>8. ((d + 2922) * 1440 + m) * 60 + q \in Int
  BY SMT, <1>5
<1>9. d >= 0 /\ m \in 0 .. 1439 /\ k \in 0 .. 60 * TicksPerSecond - 1
  BY SMT, <1>5 DEF TicksPerSecond
<1>10. IsDate(date)
  BY SMT, <1>2, <1>3, <1>4, <1>9 DEF IsDate
<1> QED
  BY <1>7, <1>8, <1>10

\* What the file has is what its last mode and time became, or the date when utimes() was
\* given none.
Stored ==
  /\ wish \in [mode : SUBSET Bits, time : Timeval]
  /\ file = [prot |-> Mode2Prot(wish.mode), date |-> file.date]
  /\ \/ file.date = Datestamp(wish.time)
     \/ file.date \in Dates /\ wish.time.sec = UnixTime(file.date)

LEMMA StoredInit == Init => Stored
<1> SUFFICES ASSUME Init PROVE Stored
  OBVIOUS
<1>1. Epoch \in Nat /\ Epoch >= Epoch
  BY SMT DEF Epoch, SecsPerDay
<1> DEFINE t == [sec |-> Epoch, usec |-> 0]
<1>2. t \in Timeval /\ Carried(t) = t
  BY SMT, <1>1 DEF Timeval, Carried
<1>3. Datestamp(t) = [days |-> 0, minute |-> 0, tick |-> 0]
  <2>1. Carried(t).sec - Epoch = 0 /\ Carried(t).usec = 0
    BY SMT, <1>1, <1>2
  <2>2. 0 \div SecsPerDay = 0 /\ 0 % SecsPerDay = 0 /\ SecsPerDay \in Nat \ {0}
    BY SMT DEF SecsPerDay
  <2>3. Quot(0, SecsPerDay) = 0 /\ Remd(0, SecsPerDay) = 0 /\ Quot(0, 60) = 0 /\ Remd(0, 60) = 0
    BY SMT, <2>2, QuotOfNat
  <2> QED
    BY SMT, <2>1, <2>3 DEF Datestamp, TicksPerSecond
<1>4. Mode2Prot(Own) = {} /\ Own \in SUBSET Bits
  BY SMT DEF Mode2Prot, Own, Rest, Bits
<1> QED
  BY SMT, <1>2, <1>3, <1>4 DEF Init, Stored

LEMMA StoredStep == Stored /\ [Next]_vars => Stored'
<1> SUFFICES ASSUME Stored, [Next]_vars PROVE Stored'
  OBVIOUS
<1>1. ASSUME UNCHANGED <<file, wish>> PROVE Stored'
  BY <1>1 DEF Stored
<1>2. CASE NameCalls
  BY <1>1, <1>2 DEF NameCalls, Only
<1>3. CASE TwoNameCalls
  BY <1>1, <1>3 DEF TwoNameCalls, Only
<1>4. CASE OtherCalls
  BY <1>1, <1>4 DEF OtherCalls, Only
<1>5. CASE MkdirCall \/ OpendirCall \/ ClosedirCall \/ Exit
  BY <1>1, <1>5 DEF MkdirCall, OpendirCall, ClosedirCall, Exit
<1>6. CASE ChmodCall
  <2>1. PICK mode \in Modes, far \in 0 .. 1 :
          IF far = 1 THEN file' = [file EXCEPT !.prot = Mode2Prot(mode)] /\ wish' = [wish EXCEPT !.mode = mode]
          ELSE UNCHANGED <<file, wish>>
    BY <1>6 DEF ChmodCall
  <2> QED
    BY <1>1, <2>1, ModeAssumption DEF Stored
<1>7. CASE UtimesCall
  <2>1. ASSUME NEW time \in Times, Dated(Datestamp(time), time) PROVE Stored'
    BY <2>1, ModeAssumption DEF Stored, Dated
  <2>2. ASSUME NEW date \in Dates, Dated(date, [sec |-> UnixTime(date), usec |-> 0]) PROVE Stored'
    <3>1. UnixTime(date) \in Int
      BY DateIsTime
    <3> DEFINE t == [sec |-> UnixTime(date), usec |-> 0]
    <3>2. t \in Timeval /\ t.sec = UnixTime(date)
      BY <3>1 DEF Timeval
    <3> HIDE DEF t
    <3> QED
      BY <2>2, <3>2 DEF Stored, Dated, t
  <2> QED
    BY <1>1, <1>7, <2>1, <2>2 DEF UtimesCall
<1>8. CASE UNCHANGED vars
  BY <1>1, <1>8 DEF vars
<1> QED
  BY <1>2, <1>3, <1>4, <1>5, <1>6, <1>7, <1>8 DEF Next

\* stat() returns every mode, and every time from 1978 on to the second.
THEOREM AttributesReturn == Spec => []AttributesKept
<1>1. Stored => AttributesKept
  <2> SUFFICES ASSUME Stored PROVE AttributesKept
    OBVIOUS
  <2> QED
    BY SMT, ModeReturns, TimeReturns, DateIsTime DEF Stored, AttributesKept
<1> QED
  BY StoredInit, StoredStep, <1>1, PTL DEF Spec

----------------------------------------------------------------------------
(* What is taken and given back.                                           *)

Counts == [Kinds -> Int]

Plus(h, kind) == [h EXCEPT ![kind] = @ + 1]
Minus(h, kind) == [h EXCEPT ![kind] = @ - 1]

\* The call has come to L, and h is held.
Holds(L, h) == h \in Counts /\ "held" \in DOMAIN L /\ L.held = h

LEMMA StartHolds ==
  ASSUME held \in Counts
  PROVE  Holds(Start, held)
  BY DEF Holds, Start

LEMMA PlusCounts ==
  ASSUME NEW h \in Counts, NEW kind \in Kinds
  PROVE  Plus(h, kind) \in Counts /\ Minus(h, kind) \in Counts
  BY DEF Plus, Minus, Counts

LEMMA PlusMinus ==
  ASSUME NEW h \in Counts, NEW kind \in Kinds
  PROVE  Minus(Plus(h, kind), kind) = h
<1> DEFINE g == Minus(Plus(h, kind), kind)
<1>1. g \in [Kinds -> Int] /\ h \in [Kinds -> Int]
  BY DEF Plus, Minus, Counts
<1>2. ASSUME NEW k \in Kinds PROVE g[k] = h[k]
  BY <1>2 DEF Plus, Minus, Counts
<1> HIDE DEF g
<1>3. g = h
  BY <1>1, <1>2
<1> QED
  BY <1>3 DEF g

LEMMA TakeHolds ==
  ASSUME NEW L, NEW h, Holds(L, h), NEW kind \in Kinds
  PROVE  Holds(Take(L, kind), Plus(h, kind))
<1>1. Plus(h, kind) \in Counts
  BY PlusCounts DEF Holds
<1>2. DOMAIN Take(L, kind) = DOMAIN L
  BY DEF Take
<1>3. Take(L, kind).held = Plus(h, kind)
  BY DEF Take, Holds, Plus
<1> QED
  BY <1>1, <1>2, <1>3 DEF Holds

LEMMA GiveHolds ==
  ASSUME NEW L, NEW h, Holds(L, h), NEW kind \in Kinds
  PROVE  Holds(Give(L, kind), Minus(h, kind))
<1>1. Minus(h, kind) \in Counts
  BY PlusCounts DEF Holds
<1>2. DOMAIN Give(L, kind) = DOMAIN L
  BY DEF Give
<1>3. Give(L, kind).held = Minus(h, kind)
  BY DEF Give, Holds, Minus
<1> QED
  BY <1>1, <1>2, <1>3 DEF Holds

LEMMA BackHolds ==
  ASSUME NEW L, NEW h \in Counts, NEW kind \in Kinds, Holds(L, Plus(h, kind))
  PROVE  Holds(Give(L, kind), h)
  BY GiveHolds, PlusMinus

LEMMA BrieflyHolds ==
  ASSUME NEW L, NEW h, Holds(L, h), NEW kind \in Kinds
  PROVE  Holds(Briefly(L, kind), h)
  BY TakeHolds, BackHolds DEF Briefly, Holds

LEMMA AskHolds ==
  ASSUME NEW L, NEW h, Holds(L, h), NEW ptr
  PROVE  Holds(Ask(L), h) /\ Holds(AskFor(L, ptr), h)
<1>1. \A p : DOMAIN AskFor(L, p) = DOMAIN L /\ ("held" \in DOMAIN L => AskFor(L, p).held = L.held)
  BY DEF AskFor
<1> QED
  BY <1>1 DEF Holds, Ask

LEMMA ConvertHolds ==
  ASSUME NEW L, NEW h, Holds(L, h), NEW ptr, NEW memory, NEW intact
  PROVE  Holds(ConvertFrom(L, ptr, memory, intact), h) /\ Holds(Convert(L, ptr, memory), h)
<1>1. \A x, y : /\ DOMAIN [L EXCEPT !.ptr = y] = DOMAIN L
                /\ DOMAIN [L EXCEPT !.s1 = x, !.ptr = y] = DOMAIN L
                /\ "held" \in DOMAIN L =>
                     [L EXCEPT !.ptr = y].held = L.held /\ [L EXCEPT !.s1 = x, !.ptr = y].held = L.held
  OBVIOUS
<1>2. \A x, y : Holds([L EXCEPT !.ptr = y], h) /\ Holds([L EXCEPT !.s1 = x, !.ptr = y], h)
  BY <1>1 DEF Holds
<1>3. \A i : Holds(ConvertFrom(L, ptr, memory, i), h)
  BY <1>2 DEF ConvertFrom
<1> QED
  BY <1>3 DEF Convert

LEMMA ConvertedHolds ==
  ASSUME held \in Counts, NEW memory
  PROVE  Holds(Converted(memory), held)
  BY StartHolds, ConvertHolds DEF Converted

\* Calls that take a lock or nothing.
LEMMA LockCallsHold ==
  ASSUME held \in Counts, NEW memory, NEW memory2, NEW intact, NEW far
  PROVE  /\ Holds(Access(memory, far), held) /\ Holds(Unlink(memory), held)
         /\ Holds(Chdir(memory, far), held) /\ Holds(Chmod(memory), held)
         /\ Holds(Realpath(memory, far), held) /\ Holds(Truncate(far), held) /\ Holds(Utimes, held)
         /\ Holds(Chown(memory, far), IF far = 2 THEN Plus(held, "lock") ELSE held)
<1>1. "lock" \in Kinds /\ "handle" \in Kinds
  BY DEF Kinds
<1>2. Holds(Start, held) /\ Holds(Converted(memory), held)
  BY StartHolds, ConvertedHolds
<1>3. Holds(Ask(Start), held) /\ Holds(Ask(Converted(memory)), held)
  BY <1>2, AskHolds
<1>4. Holds(Take(Ask(Converted(memory)), "lock"), Plus(held, "lock"))
  BY <1>1, <1>3, TakeHolds
<1>5. Holds(Briefly(Ask(Converted(memory)), "lock"), held) /\ Holds(Briefly(Ask(Start), "handle"), held)
  BY <1>1, <1>3, BrieflyHolds
<1>6. Holds(Access(memory, far), held) /\ Holds(Unlink(memory), held)
  BY <1>2, <1>3, <1>5 DEF Access, Unlink
<1>7. Holds(Chdir(memory, far), held) /\ Holds(Chmod(memory), held) /\ Holds(Utimes, held)
  BY <1>3, <1>5 DEF Chdir, Chmod, Utimes
<1>8. Holds(Realpath(memory, far), held) /\ Holds(Truncate(far), held)
  BY <1>2, <1>3, <1>5 DEF Realpath, Truncate
<1>9. Holds(Chown(memory, far), IF far = 2 THEN Plus(held, "lock") ELSE held)
  BY <1>3, <1>4, <1>5 DEF Chown
<1> QED
  BY <1>6, <1>7, <1>8, <1>9

\* stat() takes a lock and a block while the window is set aside.
LEMMA StatHolds ==
  ASSUME held \in Counts, NEW memory, NEW far
  PROVE  Holds(Stat(memory, far), held)
<1> DEFINE C == Converted(memory)
           A == Ask(Take(C, "window"))
           h == Plus(held, "window")
<1>1. "window" \in Kinds /\ "lock" \in Kinds /\ "fib" \in Kinds
  BY DEF Kinds
<1>2. Holds(C, held)
  BY ConvertedHolds
<1>3. Holds(A, h)
  BY <1>1, <1>2, TakeHolds, AskHolds
<1>4. Holds(Give(Examined(Take(A, "lock"), far), "lock"), h)
  <2>1. Holds(Take(A, "lock"), Plus(h, "lock"))
    BY <1>1, <1>3, TakeHolds
  <2>2. Holds(Examined(Take(A, "lock"), far), Plus(h, "lock"))
    BY <1>1, <2>1, BrieflyHolds DEF Examined
  <2> QED
    BY <1>1, <1>3, <2>2, BackHolds DEF Holds
<1>5. ASSUME NEW B, Holds(B, h) PROVE Holds(Give(B, "window"), held)
  BY <1>1, <1>5, BackHolds
<1> HIDE DEF C, A, h
<1>6. Holds(Give(IF far = 0 THEN A ELSE Give(Examined(Take(A, "lock"), far), "lock"), "window"), held)
  BY <1>3, <1>4, <1>5
<1> QED
  BY <1>2, <1>6 DEF Stat, C, A

\* Calls with two names.
LEMMA TwoNamesHold ==
  ASSUME held \in Counts, NEW memory, NEW memory2, NEW far
  PROVE  /\ Holds(Link(memory, far), held) /\ Holds(Symlink(memory, memory2), held)
         /\ Holds(Rename(memory, memory2, far), held)
<1>1. "lock" \in Kinds
  BY DEF Kinds
<1>2. \A L : Holds(L, held) => Holds(Briefly(L, "lock"), held)
  BY <1>1, BrieflyHolds
<1>3. \A L, ptr : Holds(L, held) => Holds(Ask(L), held) /\ Holds(AskFor(L, ptr), held)
  BY AskHolds
<1>4. \A L, ptr, m : Holds(L, held) => Holds(Convert(L, ptr, m), held)
  BY ConvertHolds
<1>5. Holds(Start, held) /\ Holds(Converted(memory), held)
  BY StartHolds, ConvertedHolds
<1>6. Holds(Link(memory, far), held)
  <2> DEFINE C == AskFor(Converted(memory), ProgramName(path))
  <2>1. Holds(C, held)
    BY <1>3, <1>5
  <2>2. Holds(AskFor(Take(C, "lock"), ProgramName(Other)), Plus(held, "lock"))
    BY <1>1, <2>1, TakeHolds, AskHolds
  <2>3. Holds(Give(AskFor(Take(C, "lock"), ProgramName(Other)), "lock"), held)
    BY <1>1, <2>2, BackHolds
  <2> HIDE DEF C
  <2> QED
    BY <2>1, <2>3 DEF Link, C
<1>7. Holds(Symlink(memory, memory2), held)
  <2>1. Holds(Convert(Converted(memory), ProgramName(Other), memory2), held)
    BY <1>4, <1>5
  <2> QED
    BY <1>3, <1>5, <2>1 DEF Symlink
<1>8. Holds(Rename(memory, memory2, far), held)
  <2> DEFINE C == Convert(Start, ProgramName(Other), memory)
             T == AskFor(C, Copied(C.ptr))
             D == Convert(T, ProgramName(path), memory2)
  <2>1. Holds(T, held)
    BY <1>3, <1>4, <1>5
  <2> HIDE DEF T, C
  <2>2. Holds(D, held)
    BY <1>4, <2>1
  <2> HIDE DEF D
  <2>3. Holds(Briefly(T, "lock"), held) /\ Holds(AskFor(Ask(D), Copied(C.ptr)), held)
    BY <1>2, <1>3, <2>1, <2>2
  <2> QED
    BY <2>1, <2>3 DEF Rename, C, T, D
<1> QED
  BY <1>6, <1>7, <1>8

LEMMA MkdirHolds ==
  ASSUME held \in Counts, NEW memory, NEW memory2, NEW intact, NEW far
  PROVE  Holds(Mkdir(memory, memory2, intact, far), held)
<1> DEFINE C == Converted(memory)
           S == IF Failed(C) \/ C.ptr.name = System THEN C
                ELSE [C EXCEPT !.ptr.name.parts = Stripped(@)]
           M == Briefly(Ask(S), "lock")
<1>1. Holds(C, held)
  BY ConvertedHolds
<1> HIDE DEF C
<1>2. Holds([C EXCEPT !.ptr.name.parts = Stripped(@)], held)
  BY <1>1 DEF Holds
<1>3. Holds(S, held)
  BY <1>1, <1>2
<1> HIDE DEF S
<1>4. Holds(Ask(S), held)
  BY <1>3, AskHolds
<1>5. "lock" \in Kinds
  BY DEF Kinds
<1>6. Holds(M, held)
  BY <1>4, <1>5, BrieflyHolds
<1> HIDE DEF M
<1>7. Holds(Ask(ConvertFrom(M, M.ptr, memory2, intact)), held)
  BY <1>6, ConvertHolds, AskHolds
<1> QED
  BY <1>4, <1>7 DEF Mkdir, C, S, M

\* readlink() and getcwd() and getpass() may keep what they took.
LEMMA KeepersHold ==
  ASSUME held \in Counts, NEW memory, NEW far
  PROVE  /\ Holds(Readlink(memory, far), IF far = 0 THEN held ELSE Plus(held, "handle"))
         /\ Holds(Getcwd(far), IF far = 1 THEN Plus(held, "memory") ELSE held)
         /\ Holds(Getpass(far), IF far = 1 THEN Plus(held, "handle") ELSE held)
<1>1. "handle" \in Kinds /\ "memory" \in Kinds /\ "port" \in Kinds
  BY DEF Kinds
<1>2. Holds(Start, held) /\ Holds(Ask(Converted(memory)), held)
  BY StartHolds, ConvertedHolds, AskHolds
<1>3. Holds(Take(Ask(Converted(memory)), "handle"), Plus(held, "handle"))
  BY <1>1, <1>2, TakeHolds
<1>4. Holds(Briefly(Ask(Take(Ask(Converted(memory)), "handle")), "port"), Plus(held, "handle"))
  BY <1>1, <1>3, AskHolds, BrieflyHolds
<1>5. Holds(Readlink(memory, far), IF far = 0 THEN held ELSE Plus(held, "handle"))
  BY <1>2, <1>3, <1>4 DEF Readlink, UnLockHandle
<1>6. Holds(Take(Start, "memory"), Plus(held, "memory")) /\ Holds(Take(Start, "handle"), Plus(held, "handle"))
  BY <1>1, <1>2, TakeHolds
<1>7. Holds(Briefly(Start, "handle"), held)
  BY <1>1, <1>2, BrieflyHolds
<1> QED
  BY <1>2, <1>5, <1>6, <1>7 DEF Getcwd, Getpass

\* What is held twice is given back twice.
LEMMA PairsHold ==
  ASSUME held \in Counts, NEW memory, NEW memory2, NEW far
  PROVE  /\ Holds(Popen(memory, memory2, far), held) /\ Holds(Fnmatch(memory, far), held)
         /\ Holds(Dotimer(far), held)
<1>1. "handle" \in Kinds /\ "memory" \in Kinds /\ "signal" \in Kinds /\ "device" \in Kinds
  BY DEF Kinds
<1>2. Holds(Start, held)
  BY StartHolds
<1>3. \A kind \in Kinds : Plus(held, kind) \in Counts
  BY PlusCounts
<1>4. \A L : \A kind \in Kinds : Holds(L, Plus(held, kind)) => Holds(Give(L, kind), held)
  BY BackHolds
<1>5. \A L : \A k1, k2 \in Kinds :
        Holds(L, Plus(Plus(held, k1), k2)) => Holds(Give(Give(L, k2), k1), held)
  BY <1>3, <1>4, BackHolds
<1>6. \A kind \in Kinds : Holds(Take(Start, kind), Plus(held, kind))
  BY <1>2, TakeHolds
<1>7. \A k1, k2 \in Kinds : Holds(Take(Take(Start, k1), k2), Plus(Plus(held, k1), k2))
  BY <1>6, TakeHolds
<1>8. \A L, h, ptr, m : Holds(L, h) => Holds(Ask(Convert(L, ptr, m)), h)
  BY ConvertHolds, AskHolds
<1>9. Holds(Popen(memory, memory2, far), held)
  <2> DEFINE P == Take(Start, "handle")
             N == Take(P, "handle")
             S == Ask(Convert(N, ProgramName(path), memory))
             G == Give(Give(S, "handle"), "handle")
  <2>1. Holds(Give(P, "handle"), held) /\ Holds(N, Plus(Plus(held, "handle"), "handle"))
    BY <1>1, <1>4, <1>6, <1>7
  <2>2. Holds(G, held)
    BY <1>1, <1>5, <1>8, <2>1
  <2> HIDE DEF G
  <2>3. Holds(Ask(Convert(G, PipeName, memory2)), held)
    BY <1>8, <2>2
  <2> HIDE DEF P, N, S
  <2> QED
    BY <1>2, <2>1, <2>2, <2>3 DEF Popen, P, N, S, G
<1>10. Holds(Fnmatch(memory, far), held)
  <2> DEFINE P == Take(Start, "memory")
             T == Take(P, "memory")
             M == IF far = 2 THEN T ELSE Ask(Convert(T, ProgramName(path), memory))
             h == Plus(Plus(held, "memory"), "memory")
  <2>1. Holds(Give(P, "memory"), held) /\ Holds(T, h)
    BY <1>1, <1>4, <1>6, <1>7
  <2> HIDE DEF T, P
  <2>2. Holds(Ask(Convert(T, ProgramName(path), memory)), h)
    BY <1>8, <2>1
  <2>3. Holds(M, h)
    BY <2>1, <2>2
  <2> HIDE DEF M
  <2>4. Holds(Give(Give(M, "memory"), "memory"), held)
    BY <1>1, <1>5, <2>3
  <2> QED
    BY <1>2, <2>1, <2>4 DEF Fnmatch, P, T, M
<1>11. Holds(Briefly(Take(Take(Start, "memory"), "signal"), "device"), Plus(Plus(held, "memory"), "signal"))
  BY <1>1, <1>7, BrieflyHolds
<1>12. Holds(Dotimer(far), held)
  <2> DEFINE M == Take(Start, "memory")
             S == Take(M, "signal")
             D == Briefly(S, "device")
  <2>1. Holds(Give(M, "memory"), held) /\ Holds(Give(Give(S, "signal"), "memory"), held)
    BY <1>1, <1>4, <1>5, <1>6, <1>7
  <2>2. Holds(Give(Give(D, "signal"), "memory"), held)
    BY <1>1, <1>5, <1>11
  <2> HIDE DEF M, S, D
  <2> QED
    BY <1>2, <2>1, <2>2 DEF Dotimer, M, S, D
<1> QED
  BY <1>9, <1>10, <1>12

\* A DIR is a lock and memory.
LEMMA DirsHold ==
  ASSUME held \in Counts, NEW memory, NEW far
  PROVE  /\ Holds(Opendir(memory, far),
                  IF far \in 0 .. 2 THEN held ELSE Plus(Plus(held, "memory"), "lock"))
         /\ Holds(Closedir, Minus(Minus(held, "lock"), "memory"))
<1>1. "lock" \in Kinds /\ "memory" \in Kinds
  BY DEF Kinds
<1>2. Holds(Start, held) /\ Holds(Converted(memory), held)
  BY StartHolds, ConvertedHolds
<1> DEFINE C == Converted(memory)
           M == Ask(Take(C, "memory"))
           K == Take(M, "lock")
           h == Plus(held, "memory")
<1>3. Holds(M, h) /\ h \in Counts
  BY <1>1, <1>2, TakeHolds, AskHolds, PlusCounts
<1> HIDE DEF M
<1>4. Holds(K, Plus(h, "lock"))
  BY <1>1, <1>3, TakeHolds
<1>5. Holds(Give(M, "memory"), held)
  BY <1>1, <1>3, BackHolds
<1>6. Holds(Give(Give(K, "lock"), "memory"), held)
  <2>1. Holds(Give(K, "lock"), h)
    BY <1>1, <1>3, <1>4, BackHolds
  <2> QED
    BY <1>1, <2>1, BackHolds
<1>7. Holds(Closedir, Minus(Minus(held, "lock"), "memory"))
  BY <1>1, <1>2, GiveHolds DEF Closedir
<1>8. Holds(Opendir(memory, far),
            IF far \in 0 .. 2 THEN held ELSE Plus(Plus(held, "memory"), "lock"))
  <2> HIDE DEF C, K
  <2>1. Opendir(memory, far) =
          IF far = 0 THEN C
          ELSE IF far = 1 THEN Give(M, "memory")
          ELSE IF far = 2 THEN Give(Give(K, "lock"), "memory") ELSE K
    BY DEF Opendir, C, M, K
  <2>2. far \in 0 .. 2 <=> far = 0 \/ far = 1 \/ far = 2
    BY SMT
  <2> QED
    BY <1>2, <1>4, <1>5, <1>6, <2>1, <2>2 DEF C
<1> QED
  BY <1>7, <1>8

Counted == held \in Counts /\ dirs \in Int

\* The ways through a call that keep what they took.
Keeping == {[call |-> "chown", far |-> 2], [call |-> "readlink", far |-> 1],
            [call |-> "readlink", far |-> 2], [call |-> "getcwd", far |-> 1],
            [call |-> "getpass", far |-> 1]}

\* After the step, what is held is counted, and it is what it was, or the call is one of these.
Settled == Counted' /\ (Extra' # Extra => did' \in Keeping)

LEMMA DoesHeld ==
  ASSUME NEW call, NEW far, NEW L, NEW h, Does(call, far, L), Holds(L, h)
  PROVE  /\ held' = h /\ h \in Counts
         /\ did' = [call |-> call, far |-> far] /\ did.call # "exit"
  BY DEF Does, Holds

LEMMA SameExtra ==
  ASSUME held' = held, dirs' = dirs, did.call # "exit", did'.call # "exit"
  PROVE  Extra' = Extra
  BY DEF Extra

\* A call that gives back all it took.
LEMMA OnlySettles ==
  ASSUME Counted, NEW call, call # "exit", NEW far, NEW L, Holds(L, held), Does(call, far, L),
         dirs' = dirs
  PROVE  Settled
<1>1. held' = held /\ did' = [call |-> call, far |-> far] /\ did.call # "exit"
  BY DoesHeld
<1>2. did'.call # "exit"
  BY <1>1
<1>3. Extra' = Extra
  BY <1>1, <1>2, SameExtra
<1> QED
  BY <1>1, <1>3 DEF Settled, Counted

\* A call that keeps what it took.
LEMMA KeeperSettles ==
  ASSUME Counted, NEW call, NEW far, NEW L, NEW h, Holds(L, h), Does(call, far, L), dirs' = dirs,
         [call |-> call, far |-> far] \in Keeping
  PROVE  Settled
<1>1. held' = h /\ h \in Counts /\ did' = [call |-> call, far |-> far]
  BY DoesHeld
<1> QED
  BY <1>1 DEF Settled, Counted

LEMMA NameCallsSettle ==
  ASSUME Counted, NameCalls
  PROVE  Settled
<1>1. held \in Counts
  BY DEF Counted
<1>2. \A call, far, L : /\ call # "exit" /\ Holds(L, held) /\ Only(call, far, L) => Settled
  BY OnlySettles DEF Only
<1>3. \A call, far, L, h : /\ [call |-> call, far |-> far] \in Keeping /\ Holds(L, h) /\ Only(call, far, L)
                           => Settled
  BY KeeperSettles DEF Only
<1>4. PICK memory \in BOOLEAN :
    \/ \E far \in 0 .. 1 : \/ Only("access", far, Access(memory, far))
                           \/ Only("chdir", far, Chdir(memory, far))
                           \/ Only("link", far, Link(memory, far))
                           \/ Only("realpath", far, Realpath(memory, far))
    \/ \E far \in 0 .. 2 : Only("readlink", far, Readlink(memory, far))
    \/ \E far \in 0 .. 3 : \/ Only("stat", far, Stat(memory, far))
                           \/ Only("chown", far, Chown(memory, far))
                           \/ Only("fnmatch", far, Fnmatch(memory, far))
    \/ Only("unlink", 0, Unlink(memory))
  BY DEF NameCalls
<1>5. ASSUME NEW far, Only("access", far, Access(memory, far)) \/ Only("chdir", far, Chdir(memory, far))
                      \/ Only("realpath", far, Realpath(memory, far)) \/ Only("unlink", far, Unlink(memory))
      PROVE  Settled
  <2>1. /\ Holds(Access(memory, far), held) /\ Holds(Chdir(memory, far), held)
        /\ Holds(Realpath(memory, far), held) /\ Holds(Unlink(memory), held)
    BY <1>1, LockCallsHold
  <2> QED
    BY <1>2, <1>5, <2>1
<1>6. ASSUME NEW far, Only("link", far, Link(memory, far)) \/ Only("stat", far, Stat(memory, far))
                      \/ Only("fnmatch", far, Fnmatch(memory, far))
      PROVE  Settled
  <2>1. Holds(Link(memory, far), held) /\ Holds(Stat(memory, far), held)
    BY <1>1, TwoNamesHold, StatHolds
  <2>2. Holds(Fnmatch(memory, far), held)
    BY <1>1, PairsHold
  <2> QED
    BY <1>2, <1>6, <2>1, <2>2
<1>7. ASSUME NEW far, Only("chown", far, Chown(memory, far))
      PROVE  Settled
  <2>1. Holds(Chown(memory, far), IF far = 2 THEN Plus(held, "lock") ELSE held)
    BY <1>1, LockCallsHold
  <2>2. CASE far = 2
    BY <1>3, <1>7, <2>1, <2>2 DEF Keeping
  <2>3. CASE far # 2
    BY <1>2, <1>7, <2>1, <2>3
  <2> QED
    BY <2>2, <2>3
<1>8. ASSUME NEW far \in 0 .. 2, Only("readlink", far, Readlink(memory, far))
      PROVE  Settled
  <2>1. Holds(Readlink(memory, far), IF far = 0 THEN held ELSE Plus(held, "handle"))
    BY <1>1, KeepersHold
  <2>2. CASE far = 0
    BY <1>2, <1>8, <2>1, <2>2
  <2>3. CASE far = 1 \/ far = 2
    BY <1>3, <1>8, <2>1, <2>3 DEF Keeping
  <2> QED
    BY <2>2, <2>3
<1> QED
  BY <1>4, <1>5, <1>6, <1>7, <1>8

LEMMA OtherCallsSettle ==
  ASSUME Counted, TwoNameCalls \/ OtherCalls
  PROVE  Settled
<1>1. held \in Counts
  BY DEF Counted
<1>2. \A call, far, L : /\ call # "exit" /\ Holds(L, held) /\ Only(call, far, L) => Settled
  BY OnlySettles DEF Only
<1>3. \A call, far, L, h : /\ [call |-> call, far |-> far] \in Keeping /\ Holds(L, h) /\ Only(call, far, L)
                           => Settled
  BY KeeperSettles DEF Only
<1>4. CASE TwoNameCalls
  <2>1. PICK memory \in BOOLEAN, memory2 \in BOOLEAN :
          \/ Only("symlink", 0, Symlink(memory, memory2))
          \/ \E far \in 0 .. 2 : Only("rename", far, Rename(memory, memory2, far))
          \/ \E far \in 0 .. 3 : Only("popen", far, Popen(memory, memory2, far))
    BY <1>4 DEF TwoNameCalls
  <2>2. \A far : /\ Holds(Symlink(memory, memory2), held) /\ Holds(Rename(memory, memory2, far), held)
                 /\ Holds(Popen(memory, memory2, far), held)
    BY <1>1, TwoNamesHold, PairsHold
  <2> QED
    BY <1>2, <2>1, <2>2
<1>5. ASSUME NEW far, Only("truncate", far, Truncate(far)) \/ Only("times", far, Dotimer(far))
      PROVE  Settled
  <2>1. Holds(Truncate(far), held) /\ Holds(Dotimer(far), held)
    BY <1>1, LockCallsHold, PairsHold
  <2> QED
    BY <1>2, <1>5, <2>1
<1>6. ASSUME NEW far, Only("getcwd", far, Getcwd(far)) \/ Only("getpass", far, Getpass(far))
      PROVE  Settled
  <2>1. /\ Holds(Getcwd(far), IF far = 1 THEN Plus(held, "memory") ELSE held)
        /\ Holds(Getpass(far), IF far = 1 THEN Plus(held, "handle") ELSE held)
    BY <1>1, KeepersHold
  <2>2. CASE far = 1
    BY <1>3, <1>6, <2>1, <2>2 DEF Keeping
  <2>3. CASE far # 1
    BY <1>2, <1>6, <2>1, <2>3
  <2> QED
    BY <2>2, <2>3
<1> QED
  BY <1>4, <1>5, <1>6 DEF OtherCalls

LEMMA AttributeCallsSettle ==
  ASSUME Counted, MkdirCall \/ ChmodCall \/ UtimesCall
  PROVE  Settled
<1>1. held \in Counts
  BY DEF Counted
<1>2. PICK memory, memory2, intact, far, call :
        /\ call # "exit" /\ dirs' = dirs
        /\ \/ Does(call, far, Mkdir(memory, memory2, intact, far))
           \/ Does(call, far, Chmod(memory)) \/ Does(call, far, Utimes)
  <2>1. CASE MkdirCall
    BY <2>1 DEF MkdirCall
  <2>2. CASE ChmodCall
    BY <2>2 DEF ChmodCall
  <2>3. CASE UtimesCall
    BY <2>3 DEF UtimesCall
  <2> QED
    BY <2>1, <2>2, <2>3
<1>3. Holds(Mkdir(memory, memory2, intact, far), held) /\ Holds(Chmod(memory), held) /\ Holds(Utimes, held)
  BY <1>1, MkdirHolds, LockCallsHold
<1> QED
  BY <1>2, <1>3, OnlySettles

\* A DIR more, a DIR less, and none after exit().
LEMMA DirCallsSettle ==
  ASSUME Counted, OpendirCall \/ ClosedirCall \/ Exit
  PROVE  Settled
<1>1. held \in [Kinds -> Int] /\ held \in Counts /\ dirs \in Int
  BY DEF Counted, Counts
<1>2. "lock" \in Kinds /\ "memory" \in Kinds
  BY DEF Kinds
<1>3. ASSUME held' \in Counts, dirs' \in Int, did.call # "exit",
             \A k \in Kinds :
               held'[k] - (IF k \in {"lock", "memory"} THEN dirs' ELSE 0)
                        - (IF k = "lock" /\ did'.call # "exit" THEN 1 ELSE 0)
               = held[k] - (IF k \in {"lock", "memory"} THEN dirs ELSE 0)
                         - (IF k = "lock" THEN 1 ELSE 0)
      PROVE  Settled
  <2>1. Extra' = Extra
    BY <1>3 DEF Extra
  <2> QED
    BY <1>3, <2>1 DEF Settled, Counted
<1>4. CASE OpendirCall
  <2>1. PICK memory \in BOOLEAN, far \in 0 .. 3 :
          /\ Does("opendir", far, Opendir(memory, far))
          /\ dirs' = IF far = 3 THEN dirs + 1 ELSE dirs
    BY <1>4 DEF OpendirCall
  <2>2. Holds(Opendir(memory, far), IF far \in 0 .. 2 THEN held ELSE Plus(Plus(held, "memory"), "lock"))
    BY <1>1, DirsHold
  <2>3. CASE far \in 0 .. 2
    <3>1. dirs' = dirs /\ Holds(Opendir(memory, far), held)
      BY <2>1, <2>2, <2>3
    <3> QED
      BY <2>1, <3>1, OnlySettles
  <2>4. CASE far = 3
    <3>1. Holds(Opendir(memory, far), Plus(Plus(held, "memory"), "lock"))
      BY <2>2, <2>4
    <3>2. /\ held' = Plus(Plus(held, "memory"), "lock") /\ held' \in Counts
          /\ did'.call = "opendir" /\ did.call # "exit"
      <4>1. did' = [call |-> "opendir", far |-> far]
        BY <2>1, <3>1, DoesHeld
      <4> QED
        BY <2>1, <3>1, <4>1, DoesHeld
    <3>3. dirs' = dirs + 1
      BY <2>1, <2>4
    <3>4. \A k \in Kinds : held'[k] = held[k] + (IF k \in {"lock", "memory"} THEN 1 ELSE 0)
      BY <1>1, <1>2, <3>2 DEF Plus
    <3>5. \A k \in Kinds : held[k] \in Int
      BY <1>1
    <3>6. \A k \in Kinds :
            held'[k] - (IF k \in {"lock", "memory"} THEN dirs' ELSE 0)
                     - (IF k = "lock" /\ did'.call # "exit" THEN 1 ELSE 0)
            = held[k] - (IF k \in {"lock", "memory"} THEN dirs ELSE 0)
                      - (IF k = "lock" THEN 1 ELSE 0)
      BY <1>1, <3>2, <3>3, <3>4, <3>5
    <3> QED
      BY <1>1, <1>3, <3>2, <3>3, <3>6
  <2> QED
    BY <2>1, <2>3, <2>4
<1>5. CASE ClosedirCall
  <2>1. Does("closedir", 0, Closedir) /\ dirs' = dirs - 1
    BY <1>5 DEF ClosedirCall
  <2>2. Holds(Closedir, Minus(Minus(held, "lock"), "memory"))
    BY <1>1, DirsHold
  <2>3. /\ held' = Minus(Minus(held, "lock"), "memory") /\ held' \in Counts
        /\ did'.call = "closedir" /\ did.call # "exit"
    <3>1. did' = [call |-> "closedir", far |-> 0]
      BY <2>1, <2>2, DoesHeld
    <3> QED
      BY <2>1, <2>2, <3>1, DoesHeld
  <2>4. \A k \in Kinds : held'[k] = held[k] - (IF k \in {"lock", "memory"} THEN 1 ELSE 0)
    BY <1>1, <1>2, <2>3 DEF Minus
  <2>5. \A k \in Kinds : held[k] \in Int
    BY <1>1
  <2>6. \A k \in Kinds :
          held'[k] - (IF k \in {"lock", "memory"} THEN dirs' ELSE 0)
                   - (IF k = "lock" /\ did'.call # "exit" THEN 1 ELSE 0)
          = held[k] - (IF k \in {"lock", "memory"} THEN dirs ELSE 0)
                    - (IF k = "lock" THEN 1 ELSE 0)
    BY <1>1, <2>1, <2>3, <2>4, <2>5
  <2> QED
    BY <1>1, <1>3, <2>1, <2>3, <2>6
<1>6. CASE Exit
  <2> DEFINE h == [held EXCEPT !["lock"] = @ - 1 - dirs, !["memory"] = @ - dirs]
             L == [Start EXCEPT !.held["lock"] = @ - 1 - dirs, !.held["memory"] = @ - dirs]
  <2>1. Does("exit", 0, L) /\ dirs' = 0
    BY <1>6 DEF Exit
  <2>2. held' = h
    <3>1. L.held = h
      BY DEF Start
    <3>2. held' = L.held
      BY <2>1 DEF Does
    <3> QED
      BY <3>1, <3>2
  <2>3. did'.call = "exit" /\ did.call # "exit"
    BY <2>1 DEF Does
  <2>4. h \in Counts
    BY <1>1, <1>2 DEF Counts
  <2>5. \A k \in Kinds : held'[k] = held[k] - (IF k \in {"lock", "memory"} THEN dirs ELSE 0)
                                            - (IF k = "lock" THEN 1 ELSE 0)
    BY <1>1, <1>2, <2>2
  <2>6. \A k \in Kinds : held[k] \in Int
    BY <1>1
  <2>7. \A k \in Kinds :
          held'[k] - (IF k \in {"lock", "memory"} THEN dirs' ELSE 0)
                   - (IF k = "lock" /\ did'.call # "exit" THEN 1 ELSE 0)
          = held[k] - (IF k \in {"lock", "memory"} THEN dirs ELSE 0)
                    - (IF k = "lock" THEN 1 ELSE 0)
    BY <1>1, <2>1, <2>3, <2>5, <2>6
  <2>8. held' \in Counts /\ dirs' \in Int
    BY <2>1, <2>2, <2>4
  <2> QED
    BY <1>3, <2>3, <2>7, <2>8
<1> QED
  BY <1>4, <1>5, <1>6

LEMMA CountedInit == Init => Counted
  BY SMT DEF Init, Counted, Counts

LEMMA CountedStep == Counted /\ [Next]_vars => Counted' /\ [Extra' # Extra => did' \in Keeping]_vars
<1> SUFFICES ASSUME Counted, [Next]_vars
             PROVE  Counted' /\ [Extra' # Extra => did' \in Keeping]_vars
  OBVIOUS
<1>1. CASE UNCHANGED vars
  BY <1>1 DEF vars, Counted
<1>2. CASE Next
  <2>1. Settled
    BY <1>2, NameCallsSettle, OtherCallsSettle, AttributeCallsSettle, DirCallsSettle DEF Next
  <2> QED
    BY <2>1 DEF Settled
<1> QED
  BY <1>1, <1>2

\* Every call but four gives back what it took, on every way through it.
THEOREM EverythingReleased == Spec => Released
<1>1. Init => Counted
  BY CountedInit
<1>2. Counted /\ [Next]_vars => Counted'
  BY CountedStep
<1>3. Counted /\ [Next]_vars => [Extra' # Extra => did' \in Keeping]_vars
  BY CountedStep
<1>4. Spec => [][Extra' # Extra => did' \in Keeping]_vars
  BY <1>1, <1>2, <1>3, PTL DEF Spec
<1> QED
  BY <1>4 DEF Released, Keeping

----------------------------------------------------------------------------
(* The names that reach the operating system.                              *)

Fields == {"s1", "held", "asked", "ptr"}
Places == {"one", "two"}

\* The other address is one of the two as well.
LEMMA NextIsPlace == \A s \in Places : NextPlace[s] \in Places
BY DEF Places, NextPlace

\* The name is there when the operating system reads it.
Sound(a) == a.live /\ a.name # Garbage

\* The name in the hands of the call: there, or NULL.
InHand(L, ptr) == Live(L, ptr) /\ ptr.name # Garbage
Absent(ptr)    == ptr.name = NULL

\* L has the fields of a call, and M is L but for what is held.
IsCall(L)  == DOMAIN L = Fields /\ L.s1 \in Places
Same(L, M) == IsCall(M) /\ M.s1 = L.s1 /\ M.asked = L.asked /\ M.ptr = L.ptr

\* Every name it got is there, and with AllSeen some may be NULL.
AllSound(L) == IsCall(L) /\ \A a \in L.asked : Sound(a)
AllSeen(L)  == IsCall(L) /\ \A a \in L.asked : Sound(a) \/ a.name = NULL

\* A name is not NULL, and neither it nor what __amigapath() makes of it is garbage.
LEMMA RecordsAreNames ==
  ASSUME NEW volume, NEW parts, NEW name, name = [volume |-> volume, parts |-> parts]
  PROVE  /\ name # NULL /\ name # Garbage
         /\ Amigapath(name) # NULL /\ Amigapath(name) # Garbage
<1>1. \A v, p : [volume |-> v, parts |-> p] # NULL /\ [volume |-> v, parts |-> p] # Garbage
  <2>1. SUFFICES ASSUME NEW v, NEW p, NEW r, r = [volume |-> v, parts |-> p]
                 PROVE  r # NULL /\ r # Garbage
    OBVIOUS
  <2>2. "volume" \in DOMAIN r
    BY <2>1
  <2>3. "volume" \notin DOMAIN NULL /\ "volume" \notin DOMAIN Garbage
    BY DEF NULL, Garbage
  <2> QED
    BY <2>2, <2>3
<1>2. \A p : Name(p) # NULL /\ Name(p) # Garbage
  BY <1>1 DEF Name
<1>3. System # NULL /\ System # Garbage
  BY <1>1 DEF System
<1>4. \A p : Rooted(p) # NULL /\ Rooted(p) # Garbage
  BY <1>1, <1>2, <1>3 DEF Rooted
<1>5. \A p : [name EXCEPT !.parts = p] = [volume |-> volume, parts |-> p]
  OBVIOUS
<1>6. PICK passed : Amigapath(name) = IF name.volume = NoVolume THEN Rooted(passed)
                                      ELSE [name EXCEPT !.parts = passed]
  BY Zenon DEF Amigapath
<1> QED
  BY <1>1, <1>4, <1>5, <1>6

LEMMA NamesAreNames ==
  ASSUME NEW parts
  PROVE  /\ Name(parts) # NULL /\ Name(parts) # Garbage
         /\ Amigapath(Name(parts)) # NULL /\ Amigapath(Name(parts)) # Garbage
<1> PICK name : name = [volume |-> NoVolume, parts |-> parts]
  OBVIOUS
<1>1. Name(parts) = name
  BY DEF Name
<1> QED
  BY <1>1, RecordsAreNames

LEMMA StartAsksNothing ==
  ASSUME s1 \in Places
  PROVE  IsCall(Start) /\ Start.asked = {} /\ AllSound(Start) /\ AllSeen(Start)
  BY DEF IsCall, Start, Fields, AllSound, AllSeen

LEMMA TheStart == InHand(Start, ProgramName(path))
  BY NamesAreNames DEF InHand, Live, ProgramName, Pointer

\* What is taken and given back changes no name.
LEMMA HeldAlone ==
  ASSUME NEW L, IsCall(L), NEW kind
  PROVE  Same(L, Take(L, kind)) /\ Same(L, Give(L, kind)) /\ Same(L, Briefly(L, kind))
<1>1. \A M : IsCall(M) => Same(M, Take(M, kind)) /\ Same(M, Give(M, kind))
  BY DEF IsCall, Same, Fields, Take, Give
<1> QED
  BY <1>1 DEF Same, Briefly

LEMMA SameNames ==
  ASSUME NEW L, NEW M, Same(L, M)
  PROVE  /\ IsCall(M) /\ M.ptr = L.ptr
         /\ AllSound(L) => AllSound(M)
         /\ AllSeen(L) => AllSeen(M)
         /\ \A p : InHand(L, p) => InHand(M, p)
  BY DEF Same, AllSound, AllSeen, InHand, Live

LEMMA SoundIsSeen == \A L : AllSound(L) => AllSeen(L)
  BY DEF AllSound, AllSeen

\* A name in hand is handed on.
LEMMA AskStays ==
  ASSUME NEW L, IsCall(L), NEW ptr
  PROVE  /\ IsCall(AskFor(L, ptr)) /\ AskFor(L, ptr).s1 = L.s1 /\ AskFor(L, ptr).ptr = L.ptr
         /\ AskFor(L, ptr).asked =
              L.asked \cup {[name |-> ptr.name, live |-> Live(L, ptr), means |-> ptr.means]}
  BY DEF IsCall, Fields, AskFor

LEMMA AskSound ==
  ASSUME NEW L, IsCall(L), NEW ptr
  PROVE  /\ IsCall(AskFor(L, ptr)) /\ AskFor(L, ptr).ptr = L.ptr
         /\ AllSound(L) /\ InHand(L, ptr) => AllSound(AskFor(L, ptr))
         /\ AllSeen(L) /\ (InHand(L, ptr) \/ Absent(ptr)) => AllSeen(AskFor(L, ptr))
         /\ \A p : InHand(L, p) => InHand(AskFor(L, ptr), p)
<1> DEFINE a == [name |-> ptr.name, live |-> Live(L, ptr), means |-> ptr.means]
<1>1. a.name = ptr.name /\ a.live = Live(L, ptr)
  BY Zenon
<1>2. InHand(L, ptr) => Sound(a)
  BY Zenon, <1>1 DEF InHand, Sound
<1>3. Absent(ptr) => a.name = NULL
  BY Zenon, <1>1 DEF Absent
<1>4. AskFor(L, ptr).asked = L.asked \cup {a}
  BY Zenon, AskStays
<1> HIDE DEF a
<1>5. AllSound(L) /\ InHand(L, ptr) => AllSound(AskFor(L, ptr))
  BY <1>2, <1>4, AskStays DEF AllSound
<1>6. AllSeen(L) /\ (InHand(L, ptr) \/ Absent(ptr)) => AllSeen(AskFor(L, ptr))
  BY <1>2, <1>3, <1>4, AskStays DEF AllSeen
<1>7. AskFor(L, ptr).s1 = L.s1
  BY AskStays
<1>8. \A p : InHand(L, p) => InHand(AskFor(L, ptr), p)
  BY <1>7 DEF InHand, Live
<1> QED
  BY <1>5, <1>6, <1>8, AskStays

\* A name was converted in L, which left C: the result is there, or NULL.
Gives(L, C, parts) ==
  /\ IsCall(C) /\ C.asked = L.asked /\ C.ptr.means = parts
  /\ C.ptr = Pointer(C.ptr.at, C.ptr.name, parts)
  /\ (InHand(C, C.ptr) /\ C.ptr.at # "null") \/ (Absent(C.ptr) /\ C.ptr.at = "null")

\* __amigapath() of a name that outlasts the call: the result is there, or NULL
\* (__stdiowin.c:40-58).
LEMMA LastingGives ==
  ASSUME NEW L, IsCall(L), NEW name, NEW parts, NEW memory \in BOOLEAN,
         name \notin {NULL, Garbage}, Amigapath(name) # Garbage
  PROVE  Gives(L, Convert(L, Pointer("lasts", name, parts), memory), parts)
<1> DEFINE p == Pointer("lasts", name, parts)
           to == NextPlace[L.s1]
           made == Amigapath(name)
           n == Pointer("null", NULL, parts)
           q == Pointer(IF made = System THEN "lasts" ELSE to, made, parts)
<1>1. p.at = "lasts" /\ p.name = name /\ p.means = parts /\ p = Pointer(p.at, p.name, parts)
  BY DEF Pointer
<1>2. Duplicate(L, p, TRUE) = name
  BY <1>1 DEF Duplicate
<1>3. name \notin {NULL, Garbage} /\ made # Garbage
  OBVIOUS
<1>4. n.at = "null" /\ n.name = NULL /\ n.means = parts /\ n = Pointer(n.at, n.name, parts)
  BY DEF Pointer
<1>5. q.at \in {"lasts", to} /\ q.name = made /\ q.means = parts /\ q = Pointer(q.at, q.name, parts)
  BY DEF Pointer
<1>6. to \in Places
  BY Zenon, NextIsPlace DEF IsCall
<1> PICK C : C = Convert(L, p, memory)
  OBVIOUS
<1>7. C = IF ~pathconv THEN [L EXCEPT !.ptr = p]
          ELSE IF ~memory THEN [L EXCEPT !.s1 = to, !.ptr = n]
          ELSE [L EXCEPT !.s1 = to, !.ptr = q]
  BY <1>1, <1>2, <1>3 DEF Convert, ConvertFrom
<1> HIDE DEF p, to, made, n, q
<1>8. ASSUME ~pathconv PROVE Gives(L, C, parts)
  <2>1. IsCall(C) /\ C.asked = L.asked /\ C.ptr = p
    BY <1>7, <1>8 DEF IsCall, Fields
  <2> QED
    <3>1. p.at # "null" /\ p.name # Garbage
      BY <1>1, <1>3
    <3>2. InHand(C, p)
      BY <1>1, <3>1 DEF InHand, Live
    <3> QED
      BY <2>1, <1>1, <3>1, <3>2 DEF Gives
<1>9. ASSUME pathconv, ~memory PROVE Gives(L, C, parts)
  <2>0. C = [L EXCEPT !.s1 = to, !.ptr = n]
    BY Zenon, <1>7, <1>9
  <2>1. IsCall(C) /\ C.asked = L.asked /\ C.ptr = n
    BY <2>0, <1>6 DEF IsCall, Fields
  <2> QED
    BY <2>1, <1>4 DEF Gives, Absent
<1>10. ASSUME pathconv, memory PROVE Gives(L, C, parts)
  <2>0. C = [L EXCEPT !.s1 = to, !.ptr = q]
    BY Zenon, <1>7, <1>10
  <2>1. IsCall(C) /\ C.asked = L.asked /\ C.ptr = q /\ C.s1 = to
    BY <2>0, <1>6 DEF IsCall, Fields
  <2> QED
    <3>1. q.at # "null" /\ q.name # Garbage
      BY <1>3, <1>5, <1>6 DEF Places
    <3>2. InHand(C, q)
      BY <2>1, <1>5, <3>1 DEF InHand, Live
    <3> QED
      BY <2>1, <1>5, <3>1, <3>2 DEF Gives
<1> QED
  BY <1>8, <1>9, <1>10 DEF p

\* The names of the program, and that of popen()'s pipe.
LEMMA ConvertGives ==
  ASSUME NEW L, IsCall(L), NEW parts, NEW memory \in BOOLEAN
  PROVE  Gives(L, Convert(L, ProgramName(parts), memory), parts)
<1> PICK name : name = Name(parts)
  OBVIOUS
<1>1. name \notin {NULL, Garbage} /\ Amigapath(name) # Garbage
  BY NamesAreNames
<1> QED
  BY <1>1, LastingGives DEF ProgramName

LEMMA PipeGives ==
  ASSUME NEW L, IsCall(L), NEW memory \in BOOLEAN
  PROVE  Gives(L, Convert(L, PipeName, memory), PipeName.means)
<1> PICK name, means : /\ name = [volume |-> "PIPE", parts |-> <<"warpos_popen">>]
                       /\ means = <<"", "PIPE", "warpos_popen">>
  OBVIOUS
<1>1. name \notin {NULL, Garbage} /\ Amigapath(name) # Garbage
  BY RecordsAreNames
<1>2. PipeName = Pointer("lasts", name, means)
  BY DEF PipeName
<1>3. PipeName.means = means
  BY <1>2 DEF Pointer
<1> QED
  BY <1>1, <1>2, <1>3, LastingGives

\* NULL is in the hands of a call only where it asked and was answered "no memory".
LEMMA ConvertedGives ==
  ASSUME s1 \in Places, NEW memory \in BOOLEAN, NEW C, C = Converted(memory)
  PROVE  /\ IsCall(C) /\ C.ptr.means = path /\ AllSound(C) /\ AllSeen(C)
         /\ InHand(C, C.ptr) \/ (Absent(C.ptr) /\ C.ptr.at = "null")
         /\ ~Failed(C) => InHand(C, C.ptr)
<1>1. Gives(Start, C, path)
  BY StartAsksNothing, ConvertGives DEF Converted
<1>2. C.asked = {}
  BY <1>1, StartAsksNothing DEF Gives
<1> QED
  BY <1>1, <1>2 DEF Gives, Absent, Failed, AllSound, AllSeen

\* A call that asks for what it converted has asked for names that are there, or for NULL;
\* one that looked first, only for the former.
LEMMA AskedConverted ==
  ASSUME s1 \in Places, NEW memory \in BOOLEAN, NEW C, C = Converted(memory)
  PROVE  IsCall(Ask(C)) /\ AllSeen(Ask(C)) /\ (~Failed(C) => AllSound(Ask(C)))
  BY ConvertedGives, AskSound DEF Ask

\* The calls that look (access.c:26, unlink.c:27), and the calls that do not convert.
LEMMA LookersSound ==
  ASSUME s1 \in Places, NEW memory \in BOOLEAN, NEW far
  PROVE  /\ AllSound(Access(memory, far)) /\ AllSound(Unlink(memory))
         /\ AllSound(Truncate(far)) /\ AllSound(Utimes)
<1> PICK C : C = Converted(memory)
  OBVIOUS
<1>1. AllSound(C)
  BY ConvertedGives
<1>2. IsCall(Ask(C)) /\ (~Failed(C) => AllSound(Ask(C)) /\ AllSound(Briefly(Ask(C), "lock")))
  BY AskedConverted, HeldAlone, SameNames
<1>3. AllSound(Access(memory, far)) /\ AllSound(Unlink(memory))
  BY Zenon, <1>1, <1>2 DEF Access, Unlink
<1>4. Start.ptr = ProgramName(path)
  BY DEF Start
<1>5. IsCall(Ask(Start)) /\ AllSound(Ask(Start))
  BY <1>4, StartAsksNothing, TheStart, AskSound DEF Ask
<1>6. AllSound(Briefly(Ask(Start), "handle"))
  BY <1>5, HeldAlone, SameNames
<1> QED
  BY <1>3, <1>5, <1>6 DEF Truncate, Utimes

\* stat() looks before it asks (stat.c:35).
LEMMA StatSound ==
  ASSUME s1 \in Places, NEW memory \in BOOLEAN, NEW far
  PROVE  AllSound(Stat(memory, far))
<1> PICK C : C = Converted(memory)
  OBVIOUS
<1>1. IsCall(C) /\ AllSound(C) /\ (~Failed(C) => InHand(C, C.ptr))
  BY ConvertedGives
<1> PICK W : W = Take(C, "window")
  OBVIOUS
<1>2. IsCall(W) /\ W.ptr = C.ptr /\ AllSound(W) /\ (~Failed(C) => InHand(W, W.ptr))
  BY <1>1, HeldAlone, SameNames
<1> PICK A : A = Ask(W)
  OBVIOUS
<1>3. IsCall(A) /\ (~Failed(C) => AllSound(A))
  BY <1>2, AskSound DEF Ask
<1> PICK K : K = Take(A, "lock")
  OBVIOUS
<1>4. IsCall(K) /\ (~Failed(C) => AllSound(K))
  BY <1>3, HeldAlone, SameNames
<1> PICK E : E = Examined(K, far)
  OBVIOUS
<1>5. IsCall(E) /\ (~Failed(C) => AllSound(E))
  BY <1>4, HeldAlone, SameNames DEF Examined
<1> PICK B : B = IF far = 0 THEN A ELSE Give(E, "lock")
  OBVIOUS
<1>6. IsCall(B) /\ (~Failed(C) => AllSound(B))
  BY <1>3, <1>5, HeldAlone, SameNames
<1>7. ~Failed(C) => AllSound(Give(B, "window"))
  BY <1>6, HeldAlone, SameNames
<1>8. Stat(memory, far) = IF Failed(C) THEN C ELSE Give(B, "window")
  BY Zenon DEF Stat
<1> QED
  BY Zenon, <1>1, <1>7, <1>8

\* The calls that do not look.
LEMMA OthersSeen ==
  ASSUME s1 \in Places, NEW memory \in BOOLEAN, NEW far
  PROVE  /\ AllSeen(Chdir(memory, far)) /\ AllSeen(Chmod(memory)) /\ AllSeen(Chown(memory, far))
         /\ AllSeen(Realpath(memory, far)) /\ AllSeen(Readlink(memory, far))
<1> PICK C : C = Converted(memory)
  OBVIOUS
<1> PICK A : A = Ask(C)
  OBVIOUS
<1>1. IsCall(A) /\ AllSeen(A)
  BY AskedConverted
<1>2. AllSeen(Briefly(A, "lock")) /\ AllSeen(Take(A, "lock"))
  BY <1>1, HeldAlone, SameNames
<1>3. AllSeen(Chdir(memory, far)) /\ AllSeen(Chmod(memory)) /\ AllSeen(Chown(memory, far))
  BY Zenon, <1>1, <1>2 DEF Chdir, Chmod, Chown
<1>4. AllSeen(Realpath(memory, far))
  BY Zenon, <1>1, <1>2, StartAsksNothing DEF Realpath
<1>5. InHand(C, C.ptr) \/ Absent(C.ptr)
  BY ConvertedGives
<1>6. IsCall(C)
  BY ConvertedGives
<1>7. A.ptr = C.ptr /\ (InHand(A, A.ptr) \/ Absent(A.ptr))
  BY <1>5, <1>6, AskSound DEF Ask
<1> PICK K : K = Take(A, "handle")
  OBVIOUS
<1>8. IsCall(K) /\ K.ptr = A.ptr /\ AllSeen(K) /\ (InHand(K, K.ptr) \/ Absent(K.ptr))
  BY <1>1, <1>7, HeldAlone, SameNames
<1>9. AllSeen(Ask(K)) /\ IsCall(Ask(K))
  BY <1>8, AskSound DEF Ask
<1>10. AllSeen(Briefly(Ask(K), "port"))
  BY <1>9, HeldAlone, SameNames
<1>11. AllSeen(Readlink(memory, far))
  BY Zenon, <1>1, <1>8, <1>10 DEF Readlink, UnLockHandle
<1> QED
  BY <1>3, <1>4, <1>11

LEMMA ProgramNameInHand ==
  ASSUME NEW L, NEW parts
  PROVE  InHand(L, ProgramName(parts))
  BY NamesAreNames DEF InHand, Live, ProgramName, Pointer

\* link() hands on both names as the program gave them (link.c:33).
LEMMA LinkSound ==
  ASSUME s1 \in Places, NEW memory \in BOOLEAN, NEW far
  PROVE  AllSound(Link(memory, far))
<1> PICK C : C = AskFor(Converted(memory), ProgramName(path))
  OBVIOUS
<1>1. IsCall(C) /\ AllSound(C)
  BY ConvertedGives, AskSound, ProgramNameInHand
<1> PICK K : K = Take(C, "lock")
  OBVIOUS
<1>2. IsCall(K) /\ AllSound(K)
  BY <1>1, HeldAlone, SameNames
<1> PICK A : A = AskFor(K, ProgramName(Other))
  OBVIOUS
<1>3. IsCall(A) /\ AllSound(A)
  BY <1>2, AskSound, ProgramNameInHand
<1>4. AllSound(Give(A, "lock"))
  BY <1>3, HeldAlone, SameNames
<1> QED
  BY Zenon, <1>1, <1>4 DEF Link

\* symlink() has converted the other name, and asks for its own where it was (symlink.c:31-35).
LEMMA SymlinkSeen ==
  ASSUME s1 \in Places, NEW memory \in BOOLEAN, NEW memory2 \in BOOLEAN
  PROVE  /\ IsCall(Symlink(memory, memory2))
         /\ \A a \in Symlink(memory, memory2).asked : Sound(a) \/ a.means = path
<1> PICK C : C = Converted(memory)
  OBVIOUS
<1>1. IsCall(C) /\ AllSound(C) /\ C.ptr.means = path
  BY ConvertedGives
<1> PICK D : D = Convert(C, ProgramName(Other), memory2)
  OBVIOUS
<1>2. Gives(C, D, Other)
  BY <1>1, ConvertGives
<1>3. IsCall(D) /\ AllSound(D) /\ (~Failed(D) => InHand(D, D.ptr))
  BY <1>1, <1>2 DEF Gives, AllSound, Absent, Failed
<1> PICK A : A = AskFor(D, D.ptr)
  OBVIOUS
<1>4. IsCall(A) /\ (~Failed(D) => AllSound(A))
  BY <1>3, AskSound
<1>5. Symlink(memory, memory2) = IF Failed(C) THEN C ELSE IF Failed(D) THEN D ELSE AskFor(A, C.ptr)
  BY Zenon DEF Symlink
<1>6. CASE Failed(C) \/ Failed(D)
  <2>1. Symlink(memory, memory2) = C \/ Symlink(memory, memory2) = D
    BY Zenon, <1>5, <1>6
  <2> QED
    BY <2>1, <1>1, <1>3 DEF AllSound
<1>7. CASE ~Failed(C) /\ ~Failed(D)
  <2>1. Symlink(memory, memory2) = AskFor(A, C.ptr)
    BY Zenon, <1>5, <1>7
  <2> DEFINE b == [name |-> C.ptr.name, live |-> Live(A, C.ptr), means |-> C.ptr.means]
  <2>2. b.means = path
    BY Zenon, <1>1
  <2>3. AskFor(A, C.ptr).asked = A.asked \cup {b}
    <3>1. IsCall(A)
      BY <1>4
    <3>2. \A p : AskFor(A, p).asked = A.asked \cup {[name |-> p.name, live |-> Live(A, p), means |-> p.means]}
      BY Zenon, <3>1, AskStays
    <3> QED
      BY Zenon, <3>2
  <2> HIDE DEF b
  <2>4. \A a \in AskFor(A, C.ptr).asked : a = b \/ a \in A.asked
    BY <2>3
  <2>5. IsCall(AskFor(A, C.ptr))
    BY <1>4, AskSound
  <2> QED
    BY <2>1, <2>2, <2>4, <2>5, <1>4, <1>7 DEF AllSound
<1> QED
  BY <1>6, <1>7

\* rename() keeps a copy (rename.c:34).
LEMMA RenameSeen ==
  ASSUME s1 \in Places, NEW memory \in BOOLEAN, NEW memory2 \in BOOLEAN, NEW far
  PROVE  AllSeen(Rename(memory, memory2, far))
<1> PICK C : C = Convert(Start, ProgramName(Other), memory)
  OBVIOUS
<1>1. Gives(Start, C, Other)
  BY StartAsksNothing, ConvertGives
<1>2. IsCall(C) /\ C.asked = {} /\ AllSeen(C)
  BY <1>1, StartAsksNothing DEF Gives, AllSeen
<1> PICK p : p = Copied(C.ptr)
  OBVIOUS
<1>3. \A L : InHand(L, p) \/ Absent(p)
  <2> PICK at, name : C.ptr = Pointer(at, name, Other) /\ at = C.ptr.at /\ name = C.ptr.name
    BY <1>1 DEF Gives
  <2>1. p.name = name /\ p.at = IF at = "null" THEN "null" ELSE "lasts"
    BY DEF Copied, Pointer
  <2>2. CASE Absent(C.ptr)
    BY <2>1, <2>2 DEF Absent
  <2>3. CASE InHand(C, C.ptr) /\ C.ptr.at # "null"
    <3>1. p.at = "lasts" /\ p.name # Garbage
      BY <2>1, <2>3 DEF InHand
    <3> QED
      BY <3>1 DEF InHand, Live
  <2> QED
    BY <1>1, <2>2, <2>3 DEF Gives
<1> PICK T : T = AskFor(C, p)
  OBVIOUS
<1>4. IsCall(T) /\ AllSeen(T)
  BY <1>2, <1>3, AskSound
<1>5. AllSeen(Briefly(T, "lock"))
  BY <1>4, HeldAlone, SameNames
<1> PICK D : D = Convert(T, ProgramName(path), memory2)
  OBVIOUS
<1>6. Gives(T, D, path)
  BY <1>4, ConvertGives
<1>7. IsCall(D) /\ AllSeen(D) /\ (InHand(D, D.ptr) \/ Absent(D.ptr))
  BY <1>4, <1>6 DEF Gives, AllSeen
<1>8. IsCall(Ask(D)) /\ AllSeen(Ask(D))
  BY <1>7, AskSound DEF Ask
<1>9. AllSeen(AskFor(Ask(D), p))
  BY <1>8, <1>3, AskSound
<1> QED
  BY Zenon, <1>4, <1>5, <1>9 DEF Rename

\* mkdir() has chmod() convert the name again, where the first conversion left it (mkdir.c:33):
\* what is asked for is there, though what is there may be garbage.
LEMMA MkdirSeen ==
  ASSUME s1 \in Places, NEW memory \in BOOLEAN, NEW memory2 \in BOOLEAN, NEW intact, NEW far
  PROVE  /\ IsCall(Mkdir(memory, memory2, intact, far))
         /\ \A a \in Mkdir(memory, memory2, intact, far).asked : Sound(a) \/ a.name \in {NULL, Garbage}
<1> DEFINE Found(L) == IsCall(L) /\ \A a \in L.asked : Sound(a) \/ a.name \in {NULL, Garbage}
<1>1. \A L, p : Found(L) /\ (Live(L, p) \/ Absent(p)) => Found(AskFor(L, p))
  <2> SUFFICES ASSUME NEW L, NEW p, Found(L), Live(L, p) \/ Absent(p) PROVE Found(AskFor(L, p))
    BY Zenon
  <2> DEFINE a == [name |-> p.name, live |-> Live(L, p), means |-> p.means]
  <2>1. a.name = p.name /\ a.live = Live(L, p)
    BY Zenon
  <2>2. Sound(a) \/ a.name \in {NULL, Garbage}
    BY Zenon, <2>1 DEF Sound, Absent
  <2>3. IsCall(L)
    OBVIOUS
  <2>4. AskFor(L, p).asked = L.asked \cup {a} /\ IsCall(AskFor(L, p))
    BY Zenon, <2>3, AskStays, AskSound
  <2> HIDE DEF a
  <2> QED
    BY <2>2, <2>4
<1>2. \A L, M : Found(L) /\ Same(L, M) => Found(M)
  BY DEF Same
<1> PICK C : C = Converted(memory)
  OBVIOUS
<1>3. Found(C) /\ IsCall(C) /\ (Live(C, C.ptr) \/ Absent(C.ptr)) /\ (~Failed(C) => Live(C, C.ptr))
  BY ConvertedGives DEF AllSound, InHand
<1> PICK S : S = IF Failed(C) \/ C.ptr.name = System THEN C
                 ELSE [C EXCEPT !.ptr.name.parts = Stripped(@)]
  OBVIOUS
<1>4. /\ Found(S) /\ IsCall(S)
      /\ Live(S, S.ptr) \/ Absent(S.ptr)
      /\ ~Failed(C) => Live(S, S.ptr)
  <2>1. CASE S = C
    BY <2>1, <1>3
  <2>2. CASE ~Failed(C) /\ S = [C EXCEPT !.ptr.name.parts = Stripped(@)]
    <3> PICK p, o : p = C.ptr /\ o = [p EXCEPT !.name.parts = Stripped(@)]
      OBVIOUS
    <3>1. S = [C EXCEPT !.ptr = o]
      BY Zenon, <2>2
    <3>2. S.s1 = C.s1 /\ S.asked = C.asked /\ S.ptr = o /\ IsCall(S)
      BY <3>1, <1>3 DEF IsCall, Fields
    <3>3. p = Pointer(p.at, p.name, path)
      <4>1. Gives(Start, C, path)
        BY StartAsksNothing, ConvertGives DEF Converted
      <4> QED
        BY <4>1 DEF Gives
    <3>4. o.at = p.at
      BY <3>3 DEF Pointer
    <3> QED
      BY <3>2, <3>4, <1>3, <2>2 DEF Live
  <2> QED
    BY <2>1, <2>2
<1> PICK A : A = Ask(S)
  OBVIOUS
<1>5. Found(A) /\ IsCall(A) /\ A.ptr = S.ptr /\ (~Failed(C) => Live(A, A.ptr))
  <2>1. A.s1 = S.s1 /\ A.ptr = S.ptr
    <3>1. IsCall(S)
      BY <1>4
    <3>2. \A p : AskFor(S, p).s1 = S.s1 /\ AskFor(S, p).ptr = S.ptr
      BY <3>1 DEF IsCall, Fields, AskFor
    <3> QED
      BY Zenon, <3>2 DEF Ask
  <2> QED
    BY <2>1, <1>1, <1>4 DEF Ask, Live
<1> PICK M : M = Briefly(A, "lock")
  OBVIOUS
<1>6. Same(A, M)
  BY <1>5, HeldAlone
<1>7. Found(M) /\ IsCall(M) /\ (~Failed(C) => Live(M, M.ptr))
  BY <1>2, <1>5, <1>6 DEF Same, Live
<1> PICK D : D = ConvertFrom(M, M.ptr, memory2, intact)
  OBVIOUS
<1>8. ~Failed(C) => Found(D) /\ (Live(D, D.ptr) \/ Absent(D.ptr))
  <2> SUFFICES ASSUME ~Failed(C) PROVE Found(D) /\ (Live(D, D.ptr) \/ Absent(D.ptr))
    OBVIOUS
  <2> PICK p : p = M.ptr
    OBVIOUS
  <2>1. CASE ~pathconv
    <3>1. D = [M EXCEPT !.ptr = p]
      BY Zenon, <2>1 DEF ConvertFrom
    <3>2. D.s1 = M.s1 /\ D.asked = M.asked /\ D.ptr = p /\ IsCall(D)
      BY <3>1, <1>7 DEF IsCall, Fields
    <3> QED
      BY ZenonT(40), <3>2, <1>7 DEF Live
  <2>2. CASE pathconv /\ memory2
    <3> PICK to : to = NextPlace[M.s1]
      OBVIOUS
    <3>1. PICK made : D = [M EXCEPT !.s1 = to,
                             !.ptr = Pointer(IF made = System THEN "lasts" ELSE to, made, p.means)]
      BY ZenonT(40), <2>2 DEF ConvertFrom
    <3> PICK q : q = Pointer(IF made = System THEN "lasts" ELSE to, made, p.means)
      OBVIOUS
    <3>2. q.at \in {"lasts", to}
      BY DEF Pointer
    <3>3. D = [M EXCEPT !.s1 = to, !.ptr = q]
      BY Zenon, <3>1
    <3>4. to \in Places
      BY Zenon, <1>7, NextIsPlace DEF IsCall
    <3>5. D.s1 = to /\ D.asked = M.asked /\ D.ptr = q /\ IsCall(D)
      BY <3>3, <3>4, <1>7 DEF IsCall, Fields
    <3> QED
      BY <3>2, <3>5, <1>7 DEF Live
  <2>3. CASE pathconv /\ ~memory2
    <3> PICK to, q : to = NextPlace[M.s1] /\ q = Pointer("null", NULL, p.means)
      OBVIOUS
    <3>1. D = [M EXCEPT !.s1 = to, !.ptr = q]
      BY ZenonT(40), <2>3 DEF ConvertFrom
    <3>2. to \in Places
      BY Zenon, <1>7, NextIsPlace DEF IsCall
    <3>3. q.name = NULL
      BY DEF Pointer
    <3>4. D.asked = M.asked /\ D.ptr = q /\ IsCall(D)
      BY <3>1, <3>2, <1>7 DEF IsCall, Fields
    <3> QED
      BY <3>3, <3>4, <1>7 DEF Absent
  <2> QED
    BY <2>1, <2>2, <2>3
<1>9. ~Failed(C) => Found(Ask(D))
  BY <1>1, <1>8 DEF Ask
<1>10. Mkdir(memory, memory2, intact, far) = IF Failed(C) \/ far = 0 THEN A ELSE Ask(D)
  BY Zenon DEF Mkdir
<1> QED
  BY <1>5, <1>9, <1>10

\* opendir() takes the DIR before it asks (dir.c:61-67).
LEMMA OpendirSeen ==
  ASSUME s1 \in Places, NEW memory \in BOOLEAN, NEW far
  PROVE  AllSeen(Opendir(memory, far)) /\ AllSeen(Closedir)
<1> PICK C : C = Converted(memory)
  OBVIOUS
<1>1. IsCall(C) /\ AllSeen(C) /\ (InHand(C, C.ptr) \/ Absent(C.ptr))
  BY ConvertedGives
<1> PICK B : B = Take(C, "memory")
  OBVIOUS
<1>2. IsCall(B) /\ AllSeen(B) /\ (InHand(B, B.ptr) \/ Absent(B.ptr))
  BY <1>1, HeldAlone, SameNames
<1> PICK M : M = Ask(B)
  OBVIOUS
<1>3. IsCall(M) /\ AllSeen(M)
  BY <1>2, AskSound DEF Ask
<1>4. AllSeen(Give(M, "memory"))
  BY <1>3, HeldAlone, SameNames
<1> PICK K : K = Take(M, "lock")
  OBVIOUS
<1>5. IsCall(K) /\ AllSeen(K)
  BY <1>3, HeldAlone, SameNames
<1> PICK G : G = Give(K, "lock")
  OBVIOUS
<1>6. IsCall(G) /\ AllSeen(G)
  BY <1>5, HeldAlone, SameNames
<1>7. AllSeen(Give(G, "memory"))
  BY <1>6, HeldAlone, SameNames
<1>8. AllSeen(Opendir(memory, far))
  BY Zenon, <1>1, <1>4, <1>5, <1>7 DEF Opendir
<1> PICK X : X = Give(Start, "lock")
  OBVIOUS
<1>9. IsCall(X) /\ AllSeen(X)
  BY StartAsksNothing, HeldAlone, SameNames
<1>10. AllSeen(Give(X, "memory"))
  BY <1>9, HeldAlone, SameNames
<1> QED
  BY Zenon, <1>8, <1>10 DEF Closedir

\* popen() converts the command with its handles open (popen.c:46),
\* and fopen() the name of the pipe (popen.c:53).
LEMMA PopenSeen ==
  ASSUME s1 \in Places, NEW memory \in BOOLEAN, NEW memory2 \in BOOLEAN, NEW far
  PROVE  AllSeen(Popen(memory, memory2, far))
<1> PICK P : P = Take(Start, "handle")
  OBVIOUS
<1>1. IsCall(P) /\ AllSeen(P)
  BY StartAsksNothing, HeldAlone, SameNames
<1> PICK N : N = Take(P, "handle")
  OBVIOUS
<1>2. IsCall(N) /\ AllSeen(N)
  BY <1>1, HeldAlone, SameNames
<1> PICK C : C = Convert(N, ProgramName(path), memory)
  OBVIOUS
<1>3. Gives(N, C, path)
  BY <1>2, ConvertGives
<1>4. IsCall(C) /\ AllSeen(C) /\ (InHand(C, C.ptr) \/ Absent(C.ptr))
  BY <1>2, <1>3 DEF Gives, AllSeen
<1> PICK S : S = Ask(C)
  OBVIOUS
<1>5. IsCall(S) /\ AllSeen(S)
  BY <1>4, AskSound DEF Ask
<1> PICK G : G = Give(S, "handle")
  OBVIOUS
<1>6. IsCall(G) /\ AllSeen(G)
  BY <1>5, HeldAlone, SameNames
<1> PICK H : H = Give(G, "handle")
  OBVIOUS
<1>7. AllSeen(Give(P, "handle")) /\ IsCall(H) /\ AllSeen(H)
  BY <1>1, <1>6, HeldAlone, SameNames
<1> PICK D : D = Convert(H, PipeName, memory2)
  OBVIOUS
<1>8. Gives(H, D, PipeName.means)
  BY <1>7, PipeGives
<1>9. IsCall(D) /\ AllSeen(D) /\ (InHand(D, D.ptr) \/ Absent(D.ptr))
  BY <1>7, <1>8 DEF Gives, AllSeen
<1>10. AllSeen(Ask(D))
  BY <1>9, AskSound DEF Ask
<1> QED
  BY Zenon, <1>7, <1>10, StartAsksNothing DEF Popen

\* fnmatch() converts the string between two blocks (fnmatch.c:64).
LEMMA FnmatchSeen ==
  ASSUME s1 \in Places, NEW memory \in BOOLEAN, NEW far
  PROVE  AllSeen(Fnmatch(memory, far))
<1> PICK P : P = Take(Start, "memory")
  OBVIOUS
<1>1. IsCall(P) /\ AllSeen(P)
  BY StartAsksNothing, HeldAlone, SameNames
<1> PICK T : T = Take(P, "memory")
  OBVIOUS
<1>2. IsCall(T) /\ AllSeen(T)
  BY <1>1, HeldAlone, SameNames
<1> PICK C : C = Convert(T, ProgramName(path), memory)
  OBVIOUS
<1>3. Gives(T, C, path)
  BY <1>2, ConvertGives
<1>4. IsCall(C) /\ AllSeen(C) /\ (InHand(C, C.ptr) \/ Absent(C.ptr))
  BY <1>2, <1>3 DEF Gives, AllSeen
<1> PICK M : M = IF far = 2 THEN T ELSE Ask(C)
  OBVIOUS
<1>5. IsCall(M) /\ AllSeen(M)
  BY <1>2, <1>4, AskSound DEF Ask
<1> PICK G : G = Give(M, "memory")
  OBVIOUS
<1>6. IsCall(G) /\ AllSeen(G)
  BY <1>5, HeldAlone, SameNames
<1>7. AllSeen(Give(P, "memory")) /\ AllSeen(Give(G, "memory"))
  BY <1>1, <1>6, HeldAlone, SameNames
<1> QED
  BY Zenon, <1>7, StartAsksNothing DEF Fnmatch

\* These take no name.
LEMMA NamelessSound ==
  ASSUME s1 \in Places, NEW far
  PROVE  AllSound(Getcwd(far)) /\ AllSound(Getpass(far)) /\ AllSound(Dotimer(far))
<1>1. /\ AllSound(Take(Start, "memory")) /\ AllSound(Take(Start, "handle"))
      /\ AllSound(Briefly(Start, "handle"))
  BY StartAsksNothing, HeldAlone, SameNames
<1>2. AllSound(Getcwd(far)) /\ AllSound(Getpass(far))
  BY Zenon, <1>1, StartAsksNothing DEF Getcwd, Getpass
<1> PICK M : M = Take(Start, "memory")
  OBVIOUS
<1>3. IsCall(M) /\ AllSound(M)
  BY StartAsksNothing, HeldAlone, SameNames
<1> PICK S : S = Take(M, "signal")
  OBVIOUS
<1>4. IsCall(S) /\ AllSound(S)
  BY <1>3, HeldAlone, SameNames
<1> PICK D : D = Briefly(S, "device")
  OBVIOUS
<1>5. IsCall(D) /\ AllSound(D)
  BY <1>4, HeldAlone, SameNames
<1> PICK G, H : G = Give(S, "signal") /\ H = Give(D, "signal")
  OBVIOUS
<1>6. IsCall(G) /\ AllSound(G) /\ IsCall(H) /\ AllSound(H)
  BY <1>4, <1>5, HeldAlone, SameNames
<1>7. AllSound(Give(M, "memory")) /\ AllSound(Give(G, "memory")) /\ AllSound(Give(H, "memory"))
  BY <1>3, <1>6, HeldAlone, SameNames
<1>8. AllSound(Dotimer(far))
  BY Zenon, <1>7, StartAsksNothing DEF Dotimer
<1> QED
  BY <1>2, <1>8

----------------------------------------------------------------------------
\* s1 is at one of its places, and the names of the last call are there: what is preserved.
NamesLive == s1 \in Places /\ LiveNames

LEMMA SoundLives ==
  ASSUME NEW call, NEW far, NEW L, Does(call, far, L), AllSound(L)
  PROVE  NamesLive'
<1>1. s1' \in Places /\ asked' = L.asked
  BY DEF Does, AllSound, IsCall
<1> QED
  BY <1>1 DEF NamesLive, LiveNames, AllSound, Sound

LEMMA SeenLives ==
  ASSUME NEW call \in Unchecked, NEW far, NEW L, Does(call, far, L), AllSeen(L)
  PROVE  NamesLive'
<1>1. s1' \in Places /\ asked' = L.asked
  BY DEF Does, AllSeen, IsCall
<1>2. did' = [call |-> call, far |-> far]
  BY DEF Does
<1>3. did'.call \in Unchecked
  BY <1>2
<1>4. \A a \in L.asked : Sound(a) \/ a.name = NULL
  BY DEF AllSeen
<1> QED
  BY <1>1, <1>3, <1>4 DEF NamesLive, LiveNames, Sound

LEMMA NameCallsLive ==
  ASSUME s1 \in Places, NameCalls
  PROVE  NamesLive'
<1> PICK memory \in BOOLEAN :
      \/ \E far \in 0 .. 1 : \/ Only("access", far, Access(memory, far))
                             \/ Only("chdir", far, Chdir(memory, far))
                             \/ Only("link", far, Link(memory, far))
                             \/ Only("realpath", far, Realpath(memory, far))
      \/ \E far \in 0 .. 2 : Only("readlink", far, Readlink(memory, far))
      \/ \E far \in 0 .. 3 : \/ Only("stat", far, Stat(memory, far))
                             \/ Only("chown", far, Chown(memory, far))
                               \/ Only("fnmatch", far, Fnmatch(memory, far))
      \/ Only("unlink", 0, Unlink(memory))
  BY DEF NameCalls
<1>1. \A call, far, L : Only(call, far, L) /\ AllSound(L) => NamesLive'
  BY SoundLives DEF Only
<1>2. \A call, far, L : call \in Unchecked /\ Only(call, far, L) /\ AllSeen(L) => NamesLive'
  BY SeenLives DEF Only
<1>3. \A far : /\ Only("access", far, Access(memory, far)) => NamesLive'
               /\ Only("link", far, Link(memory, far)) => NamesLive'
               /\ Only("stat", far, Stat(memory, far)) => NamesLive'
               /\ Only("unlink", far, Unlink(memory)) => NamesLive'
  BY <1>1, LookersSound, LinkSound, StatSound
<1>4. {"chdir", "realpath", "readlink", "chown", "fnmatch"} \subseteq Unchecked
  BY DEF Unchecked
<1>5. \A far : /\ Only("chdir", far, Chdir(memory, far)) => NamesLive'
               /\ Only("realpath", far, Realpath(memory, far)) => NamesLive'
               /\ Only("readlink", far, Readlink(memory, far)) => NamesLive'
               /\ Only("chown", far, Chown(memory, far)) => NamesLive'
  BY <1>2, <1>4, OthersSeen
<1>6. \A far : Only("fnmatch", far, Fnmatch(memory, far)) => NamesLive'
  BY <1>2, <1>4, FnmatchSeen
<1> QED
  BY <1>3, <1>5, <1>6

LEMMA TwoNameCallsLive ==
  ASSUME s1 \in Places, TwoNameCalls
  PROVE  NamesLive'
<1> PICK memory \in BOOLEAN, memory2 \in BOOLEAN :
      \/ Only("symlink", 0, Symlink(memory, memory2))
      \/ \E far \in 0 .. 2 : Only("rename", far, Rename(memory, memory2, far))
      \/ \E far \in 0 .. 3 : Only("popen", far, Popen(memory, memory2, far))
  BY DEF TwoNameCalls
<1>1. CASE Only("symlink", 0, Symlink(memory, memory2))
  <2> PICK L : L = Symlink(memory, memory2)
    OBVIOUS
  <2>1. Does("symlink", 0, L) /\ path' = path
    BY <1>1 DEF Only
  <2>2. IsCall(L) /\ \A a \in L.asked : Sound(a) \/ a.means = path
    BY SymlinkSeen
  <2>3. asked' = L.asked /\ s1' \in Places /\ did' = [call |-> "symlink", far |-> 0]
    BY <2>1, <2>2 DEF Does, IsCall
  <2>4. did'.call = "symlink"
    BY <2>3
  <2> QED
    BY <2>1, <2>2, <2>3, <2>4 DEF NamesLive, LiveNames, Sound
<1>2. CASE \E far \in 0 .. 2 : Only("rename", far, Rename(memory, memory2, far))
  <2>1. "rename" \in Unchecked
    BY DEF Unchecked
  <2>2. PICK far : Does("rename", far, Rename(memory, memory2, far))
    BY <1>2 DEF Only
  <2> QED
    BY <2>1, <2>2, RenameSeen, SeenLives
<1>3. CASE \E far \in 0 .. 3 : Only("popen", far, Popen(memory, memory2, far))
  <2>1. "popen" \in Unchecked
    BY DEF Unchecked
  <2>2. PICK far : Does("popen", far, Popen(memory, memory2, far))
    BY <1>3 DEF Only
  <2> QED
    BY <2>1, <2>2, PopenSeen, SeenLives
<1> QED
  BY <1>1, <1>2, <1>3

LEMMA OtherCallsLive ==
  ASSUME s1 \in Places, OtherCalls \/ UtimesCall
  PROVE  NamesLive'
<1>1. PICK call, far, L :
        /\ Does(call, far, L)
        /\ L \in {Truncate(far), Getcwd(far), Getpass(far), Dotimer(far), Utimes}
  BY DEF OtherCalls, UtimesCall, Only
<1>2. AllSound(L)
  <2>1. TRUE \in BOOLEAN
    OBVIOUS
  <2> QED
    BY <1>1, <2>1, LookersSound, NamelessSound
<1> QED
  BY <1>1, <1>2, SoundLives

LEMMA MkdirLives ==
  ASSUME s1 \in Places, MkdirCall
  PROVE  NamesLive'
<1>1. PICK memory \in BOOLEAN, memory2 \in BOOLEAN, intact \in BOOLEAN, far \in 0 .. 1 :
        Does("mkdir", far, Mkdir(memory, memory2, intact, far))
  BY DEF MkdirCall
<1> PICK L : L = Mkdir(memory, memory2, intact, far)
  OBVIOUS
<1>2. IsCall(L) /\ \A a \in L.asked : Sound(a) \/ a.name \in {NULL, Garbage}
  BY MkdirSeen
<1>3. asked' = L.asked /\ s1' \in Places /\ did' = [call |-> "mkdir", far |-> far]
  BY <1>1, <1>2 DEF Does, IsCall
<1>4. did'.call = "mkdir" /\ "mkdir" \in Unchecked
  BY <1>3 DEF Unchecked
<1> QED
  BY <1>2, <1>3, <1>4 DEF NamesLive, LiveNames, Sound

LEMMA ChmodAndDirsLive ==
  ASSUME s1 \in Places, ChmodCall \/ OpendirCall
  PROVE  NamesLive'
<1>1. PICK memory, call, far, L :
        /\ memory \in BOOLEAN /\ Does(call, far, L)
        /\ \/ call = "chmod" /\ L = Chmod(memory)
           \/ call = "opendir" /\ L = Opendir(memory, far)
  BY DEF ChmodCall, OpendirCall
<1>2. AllSeen(L)
  BY <1>1, OthersSeen, OpendirSeen
<1>3. call \in Unchecked
  BY <1>1 DEF Unchecked
<1> QED
  BY <1>1, <1>2, <1>3, SeenLives

LEMMA AsksNothingLives ==
  ASSUME s1 \in Places, ClosedirCall \/ Exit
  PROVE  NamesLive'
<1>1. CASE ClosedirCall
  <2>1. Does("closedir", 0, Closedir)
    BY <1>1 DEF ClosedirCall
  <2> PICK X : X = Give(Start, "lock")
    OBVIOUS
  <2>2. IsCall(X) /\ AllSound(X)
    BY StartAsksNothing, HeldAlone, SameNames
  <2>3. AllSound(Give(X, "memory"))
    BY <2>2, HeldAlone, SameNames
  <2> QED
    BY <2>1, <2>3, SoundLives DEF Closedir
<1>2. CASE Exit
  <2> PICK L : L = [Start EXCEPT !.held["lock"] = @ - 1 - dirs, !.held["memory"] = @ - dirs]
    OBVIOUS
  <2>1. Does("exit", 0, L)
    BY Zenon, <1>2 DEF Exit
  <2>2. L.asked = {} /\ L.s1 = s1
    BY DEF Start
  <2>3. asked' = {} /\ s1' \in Places
    BY <2>1, <2>2 DEF Does
  <2> QED
    BY <2>3 DEF NamesLive, LiveNames
<1> QED
  BY <1>1, <1>2

LEMMA LiveStep == NamesLive /\ [Next]_vars => NamesLive'
<1> SUFFICES ASSUME NamesLive, [Next]_vars PROVE NamesLive'
  OBVIOUS
<1>1. CASE Next
  BY <1>1, NameCallsLive, TwoNameCallsLive, OtherCallsLive, MkdirLives, ChmodAndDirsLive, AsksNothingLives
     DEF Next, NamesLive
<1>2. CASE UNCHANGED vars
  BY <1>2 DEF vars, NamesLive, LiveNames
<1> QED
  BY <1>1, <1>2

\* For all names and any number of calls: every name that reaches the operating system is
\* there, but for the exceptions LiveNames has (symlink.c:31-35, mkdir.c:33, and NULL for the
\* calls that do not look).
THEOREM NamesAreThere == Spec => []LiveNames
<1>1. Init => NamesLive
  BY DEF Init, NamesLive, LiveNames, Places
<1>2. NamesLive => LiveNames
  BY DEF NamesLive
<1> QED
  BY <1>1, <1>2, LiveStep, PTL DEF Spec

----------------------------------------------------------------------------
(* What the names mean.  The definitions recur over a name: induction over *)
(* numbers, with sets for the predicates, shows that the functions they    *)
(* describe are there, and what these make of one part more.               *)

\* Of some numbers one is the least.
LEMMA LeastNumber ==
  ASSUME NEW T, T \subseteq Nat, T # {}
  PROVE  \E n \in T : \A m \in T : n <= m
<1> DEFINE R == OpToRel(<, Nat)
<1>1. IsWellFoundedOn(R, Nat)
  BY NatLessThanWellFounded
<1>2. \A a, b \in Nat : a < b => <<a, b>> \in R
  BY SMT DEF OpToRel
<1> HIDE DEF R
<1>3. PICK n \in T : \A m \in T : <<m, n>> \notin R
  BY <1>1, WFMin
<1>4. \A m \in T : ~(m < n)
  BY <1>2, <1>3, Zenon
<1>5. QED
  BY <1>4, SMT

\* What holds of 0, and of a number if of the one before it, holds up to any number.
LEMMA Induction ==
  ASSUME NEW n \in Nat, NEW G, 0 \in G, \A k \in 1 .. n : k - 1 \in G => k \in G
  PROVE  \A k \in 0 .. n : k \in G
<1> SUFFICES ASSUME {k \in 0 .. n : k \notin G} # {}
             PROVE  FALSE
  OBVIOUS
<1>1. PICK k \in {m \in 0 .. n : m \notin G} : \A m \in {m \in 0 .. n : m \notin G} : k <= m
  <2>1. {k \in 0 .. n : k \notin G} \subseteq Nat
    BY SMT
  <2>2. QED
    BY <2>1, LeastNumber
<1>2. k \in 1 .. n /\ k - 1 \in 0 .. n /\ k - 1 \in G
  BY <1>1, SMT
<1>3. QED
  BY <1>1, <1>2

\* A recursive function over 0 .. n is there, and has its values in S, if its step has.
Recurs(f, n, S, b, D) ==
  f \in [0 .. n -> S] /\ f[0] = b /\ \A k \in 1 .. n : f[k] = D[k][f[k - 1]]

\* There is such a function: n steps of it, if there are n - 1.
LEMMA Recursion ==
  ASSUME NEW n \in Nat, NEW S, NEW b \in S, NEW D \in [1 .. n -> [S -> S]]
  PROVE  \E f : Recurs(f, n, S, b, D)
<1> DEFINE
      Is(f, m) == f \in [0 .. m -> S] /\ f[0] = b /\ \A k \in 1 .. m : f[k] = D[k][f[k - 1]]
      G == {m \in 0 .. n : \E f : Is(f, m)}
<1>1. 0 \in G
  <2>1. Is([k \in 0 .. 0 |-> b], 0)
    BY SMT
  <2>2. 0 \in 0 .. n
    BY SMT
  <2>3. QED
    BY <2>1, <2>2
<1>2. ASSUME NEW m \in 1 .. n, m - 1 \in G
      PROVE  m \in G
  <2>1. PICK f : Is(f, m - 1)
    BY <1>2
  <2> DEFINE g == [k \in 0 .. m |-> IF k = m THEN D[m][f[m - 1]] ELSE f[k]]
  <2>2. D[m][f[m - 1]] \in S
    BY <2>1, SMT
  <2>3. g \in [0 .. m -> S]
    BY <2>1, <2>2, SMT
  <2>4. g[0] = b
    BY <2>1, SMT
  <2>5. ASSUME NEW k \in 1 .. m
        PROVE  g[k] = D[k][g[k - 1]]
    BY <2>1, SMT
  <2>6. m \in 0 .. n
    BY SMT
  <2>7. QED
    BY <2>3, <2>4, <2>5, <2>6
<1>3. n \in G
  <2> HIDE DEF G
  <2>1. \A k \in 0 .. n : k \in G
    BY <1>1, <1>2, Induction
  <2>2. QED
    BY <2>1, SMT
<1>4. QED
  BY <1>3 DEF Recurs


\* Sequences are those that begin with none and grow by one.
LEMMA SequenceInduction ==
  ASSUME NEW S, NEW G, <<>> \in G,
         \A s \in Seq(S), e \in S : s \in G => Append(s, e) \in G
  PROVE  \A s \in Seq(S) : s \in G
<1> SUFFICES ASSUME NEW s \in Seq(S)
             PROVE  s \in G
  OBVIOUS
<1>1. PICK n \in Nat : n = Len(s)
  BY LenProperties
<1> DEFINE H == {k \in 0 .. n : SubSeq(s, 1, k) \in G}
<1>2. 0 \in H
  <2>1. SubSeq(s, 1, 0) = <<>>
    BY SubSeqEmpty
  <2>2. 0 \in 0 .. n
    BY SMT
  <2>3. QED
    BY <2>1, <2>2
<1>3. ASSUME NEW k \in 1 .. n, k - 1 \in H
      PROVE  k \in H
  <2>1. k \in 0 .. n /\ k - 1 \in Int /\ 1 \in 1 .. n /\ 1 <= k
    BY SMT
  <2>2. PICK e \in S : e = s[k]
    BY <1>1, ElementOfSeq
  <2>3. PICK m \in Int : m = k - 1 /\ \A i \in 1 .. m : i \in 1 .. n
    BY <2>1, SMT
  <2>4. PICK t \in Seq(S) : t = SubSeq(s, 1, k - 1)
    <3>1. \A i \in 1 .. m : s[i] \in S
      BY <1>1, <2>3, ElementOfSeq
    <3>2. SubSeq(s, 1, m) \in Seq(S)
      BY <3>1, SubSeqProperties
    <3>3. QED
      BY <2>3, <3>2
  <2>5. SubSeq(s, 1, k) = SubSeq(s, 1, k - 1) \o <<s[k]>>
    <3>1. 1 \in 1 .. Len(s) /\ k \in 1 .. Len(s)
      BY <1>1, <2>1
    <3>2. QED
      BY <3>1, SubSeqRecursiveSecond
  <2>6. Append(t, e) = t \o <<e>>
    BY AppendIsConcat
  <2>7. t \in G
    BY <1>3, <2>4
  <2>8. Append(t, e) \in G
    BY <2>7
  <2>9. QED
    BY <2>1, <2>2, <2>4, <2>5, <2>6, <2>8
<1> HIDE DEF H
<1>4. \A k \in 0 .. n : k \in H
  BY <1>2, <1>3, Induction
<1>5. n \in 0 .. n
  BY SMT
<1>6. SubSeq(s, 1, n) = s
  BY <1>1, SubSeqFull
<1>7. QED
  BY <1>4, <1>5, <1>6 DEF H

----------------------------------------------------------------------------
Part == STRING \cup {"", "."}
Word == Part \ {"", ".", "SYS"}
Dirs == Seq(Part)

\* A step leads from directory to directory.
LEMMA StepTypes ==
  ASSUME NEW dir \in Dirs, NEW c \in Part
  PROVE  UnixStep(dir, c) \in Dirs /\ AmigaStep(dir, c) \in Dirs
<1>1. Append(dir, c) \in Dirs
  BY AppendProperties DEF Dirs
<1>2. dir # <<>> => Front(dir) \in Dirs
  <2>1. PICK n \in Nat : n = Len(dir)
    BY LenProperties DEF Dirs
  <2>2. PICK m \in Int : m = n - 1 /\ \A i \in 1 .. m : i \in 1 .. n
    BY SMT
  <2>3. \A i \in 1 .. m : dir[i] \in Part
    BY <2>1, <2>2, ElementOfSeq DEF Dirs
  <2>4. SubSeq(dir, 1, m) \in Dirs
    BY <2>3, SubSeqProperties DEF Dirs
  <2>5. QED
    BY <2>1, <2>2, <2>4 DEF Front
<1>3. UnixStep(dir, c) \in Dirs
  BY <1>1, <1>2 DEF UnixStep
<1>4. Len(dir) > 1 => dir # <<>>
  BY EmptySeq
<1>5. AmigaStep(dir, c) \in Dirs
  BY <1>1, <1>2, <1>4 DEF AmigaStep
<1>6. QED
  BY <1>3, <1>5

\* dir[] of UnixWalk, and the same without its first value.
Walks(d, from, parts, n) ==
  /\ d[0] = from
  /\ \A k \in 1 .. n : d[k] = UnixStep(d[k - 1], parts[k])

\* UnixWalk is the function that its definition describes: there is one.
LEMMA UnixWalkIs ==
  ASSUME NEW parts \in Dirs, NEW n \in Nat, n = Len(parts)
  PROVE  Walks(UnixWalk(parts), IF Absolute(parts) THEN <<>> ELSE Cwd, parts, n)
<1> DEFINE from == IF Absolute(parts) THEN <<>> ELSE Cwd
           D == [k \in 1 .. n |-> [dir \in Dirs |-> UnixStep(dir, parts[k])]]
           Is(d) == d = [k \in 0 .. n |-> IF k = 0 THEN from ELSE UnixStep(d[k - 1], parts[k])]
<1>1. from \in Dirs
  <2>1. <<>> \in Dirs
    BY EmptySeq DEF Dirs
  <2>2. Cwd \in Dirs
    BY VolumeAssumption, SeqMonotonic DEF Dirs, Part
  <2>3. QED
    BY Zenon, <2>1, <2>2
<1>2. \A k \in 1 .. n : parts[k] \in Part
  BY ElementOfSeq DEF Dirs
<1>3. D \in [1 .. n -> [Dirs -> Dirs]]
  BY <1>2, StepTypes
<1> HIDE DEF from
<1>4. PICK d : d \in [0 .. n -> Dirs] /\ d[0] = from /\ \A k \in 1 .. n : d[k] = D[k][d[k - 1]]
  <2> HIDE DEF D
  <2>1. PICK d : Recurs(d, n, Dirs, from, D)
    BY <1>1, <1>3, Recursion
  <2>2. QED
    BY <2>1 DEF Recurs
<1>5. \A k \in 1 .. n : d[k - 1] \in Dirs
  BY <1>4, SMT
<1>6. Is(d)
  <2>1. \A k \in 0 .. n : k # 0 => k \in 1 .. n
    BY SMT
  <2>2. \A k \in 0 .. n : d[k] = IF k = 0 THEN from ELSE UnixStep(d[k - 1], parts[k])
    BY <1>4, <1>5, <2>1
  <2>3. QED
    BY <1>4, <2>2
<1>7. PICK g : Is(g) /\ UnixWalk(parts) = g
  BY <1>6 DEF UnixWalk, from
<1>8. 0 \in 0 .. n /\ \A k \in 1 .. n : k \in 0 .. n /\ k # 0
  BY SMT
<1>9. g[0] = from /\ \A k \in 1 .. n : g[k] = UnixStep(g[k - 1], parts[k])
  BY <1>7, <1>8
<1>10. QED
  BY <1>7, <1>9 DEF Walks, from

\* at[] of AmigaWalk.
Goes(d, from, parts, n) ==
  /\ d[0] = from
  /\ \A k \in 1 .. n : d[k] = AmigaStep(d[k - 1], parts[k])

\* So it is of AmigaWalk.
LEMMA AmigaWalkIs ==
  ASSUME NEW from \in Dirs, NEW parts \in Dirs, NEW n \in Nat, n = Len(parts)
  PROVE  \E d : Goes(d, from, parts, n) /\ AmigaWalk(from, parts) = d[n]
<1> DEFINE D == [k \in 1 .. n |-> [dir \in Dirs |-> AmigaStep(dir, parts[k])]]
           Is(d) == d = [k \in 0 .. n |-> IF k = 0 THEN from ELSE AmigaStep(d[k - 1], parts[k])]
<1>2. \A k \in 1 .. n : parts[k] \in Part
  BY ElementOfSeq DEF Dirs
<1>3. D \in [1 .. n -> [Dirs -> Dirs]]
  BY <1>2, StepTypes
<1>4. PICK d : d \in [0 .. n -> Dirs] /\ d[0] = from /\ \A k \in 1 .. n : d[k] = D[k][d[k - 1]]
  <2> HIDE DEF D
  <2>1. PICK d : Recurs(d, n, Dirs, from, D)
    BY <1>3, Recursion
  <2>2. QED
    BY <2>1 DEF Recurs
<1>5. \A k \in 1 .. n : d[k - 1] \in Dirs
  BY <1>4, SMT
<1>6. Is(d)
  <2>1. \A k \in 0 .. n : k # 0 => k \in 1 .. n
    BY SMT
  <2>2. \A k \in 0 .. n : d[k] = IF k = 0 THEN from ELSE AmigaStep(d[k - 1], parts[k])
    BY <1>4, <1>5, <2>1
  <2>3. QED
    BY <1>4, <2>2
<1>7. PICK g : Is(g) /\ AmigaWalk(from, parts) = g[n]
  BY <1>6 DEF AmigaWalk
<1>8. 0 \in 0 .. n /\ \A k \in 1 .. n : k \in 0 .. n /\ k # 0
  BY SMT
<1>9. g[0] = from /\ \A k \in 1 .. n : g[k] = AmigaStep(g[k - 1], parts[k])
  BY <1>7, <1>8
<1>10. QED
  BY <1>7, <1>9 DEF Goes

\* others[] of Undotted.
Sifts(f, parts, n) ==
  /\ f[0] = <<>>
  /\ \A k \in 1 .. n : f[k] = IF parts[k] # "." THEN Append(f[k - 1], parts[k]) ELSE f[k - 1]

\* So it is of Undotted.
LEMMA UndottedIs ==
  ASSUME NEW parts \in Dirs, NEW n \in Nat, n = Len(parts)
  PROVE  \E f : Sifts(f, parts, n) /\ Undotted(parts) = f[n]
<1> DEFINE Then(s, k) == IF parts[k] # "." THEN Append(s, parts[k]) ELSE s
           D == [k \in 1 .. n |-> [s \in Dirs |-> Then(s, k)]]
           Is(d) == d = [k \in 0 .. n |-> IF k = 0 THEN <<>>
                                          ELSE IF parts[k] # "." THEN Append(d[k - 1], parts[k])
                                          ELSE d[k - 1]]
<1>1. <<>> \in Dirs
  BY EmptySeq DEF Dirs
<1>2. \A k \in 1 .. n : parts[k] \in Part
  BY ElementOfSeq DEF Dirs
<1>3. D \in [1 .. n -> [Dirs -> Dirs]]
  <2>1. \A k \in 1 .. n : \A s \in Dirs : Then(s, k) \in Dirs
    BY <1>2, AppendProperties DEF Dirs
  <2> HIDE DEF Then
  <2>2. QED
    BY <2>1
<1>4. PICK d : d \in [0 .. n -> Dirs] /\ d[0] = <<>> /\ \A k \in 1 .. n : d[k] = D[k][d[k - 1]]
  <2> HIDE DEF D
  <2>1. PICK d : Recurs(d, n, Dirs, <<>>, D)
    BY <1>1, <1>3, Recursion
  <2>2. QED
    BY <2>1 DEF Recurs
<1>5. \A k \in 1 .. n : d[k - 1] \in Dirs
  BY <1>4, SMT
<1>6. Is(d)
  <2>1. \A k \in 0 .. n : k # 0 => k \in 1 .. n
    BY SMT
  <2>2. \A k \in 0 .. n : d[k] = IF k = 0 THEN <<>> ELSE Then(d[k - 1], k)
    <3> HIDE DEF Then
    <3>1. QED
      BY <1>4, <1>5, <2>1
  <2>3. QED
    BY <1>4, <2>2
<1>7. PICK g : Is(g) /\ Undotted(parts) = g[n]
  BY <1>6 DEF Undotted
<1>8. 0 \in 0 .. n /\ \A k \in 1 .. n : k \in 0 .. n /\ k # 0
  BY SMT
<1>9. g[0] = <<>> /\ \A k \in 1 .. n : g[k] = Then(g[k - 1], k)
  BY <1>7, <1>8
<1>10. QED
  BY <1>7, <1>9 DEF Sifts

\* What Undotted makes of a beginning does not depend on what follows.
LEMMA SiftsAgree ==
  ASSUME NEW s, NEW t, NEW n \in Nat, \A k \in 1 .. n : s[k] = t[k],
         NEW d, NEW e, Sifts(d, s, n), Sifts(e, t, n)
  PROVE  d[n] = e[n]
<1> DEFINE G == {k \in 0 .. n : d[k] = e[k]}
<1>1. 0 \in G
  <2>1. 0 \in 0 .. n
    BY SMT
  <2>2. QED
    BY <2>1 DEF Sifts
<1>2. ASSUME NEW k \in 1 .. n, k - 1 \in G
      PROVE  k \in G
  <2>1. k \in 0 .. n
    BY SMT
  <2>2. QED
    BY <1>2, <2>1 DEF Sifts
<1> HIDE DEF G
<1>3. \A k \in 0 .. n : k \in G
  BY <1>1, <1>2, Induction
<1>4. n \in 0 .. n
  BY SMT
<1>5. QED
  BY <1>3, <1>4 DEF G

\* Nothing is left of nothing.
LEMMA UndottedEmpty == Undotted(<<>>) = <<>>
<1>1. PICK s \in Dirs, n \in Nat : s = <<>> /\ n = 0 /\ n = Len(s)
  BY EmptySeq DEF Dirs
<1>2. \E f : Sifts(f, s, n) /\ Undotted(s) = f[n]
  BY <1>1, UndottedIs
<1>3. QED
  BY <1>1, <1>2 DEF Sifts

\* Undotted takes a part at a time.
LEMMA UndottedAppend ==
  ASSUME NEW s \in Dirs, NEW c \in Part
  PROVE  Undotted(Append(s, c)) = IF c # "." THEN Append(Undotted(s), c) ELSE Undotted(s)
<1>1. PICK n \in Nat : n = Len(s)
  BY LenProperties DEF Dirs
<1>2. PICK t \in Dirs : /\ t = Append(s, c) /\ Len(t) = n + 1 /\ t[n + 1] = c
                        /\ \A k \in 1 .. n : t[k] = s[k]
  <2>1. /\ Append(s, c) \in Dirs /\ Len(Append(s, c)) = n + 1 /\ Append(s, c)[n + 1] = c
        /\ \A k \in 1 .. n : Append(s, c)[k] = s[k]
    BY <1>1, AppendProperties DEF Dirs
  <2>2. QED
    BY <2>1
<1>3. PICK d : Sifts(d, s, n) /\ Undotted(s) = d[n]
  BY <1>1, UndottedIs
<1>4. PICK m \in Nat : m = n + 1 /\ m = Len(t)
  BY <1>2, SMT
<1>5. PICK e : Sifts(e, t, m) /\ Undotted(t) = e[m]
  BY <1>4, UndottedIs
<1>6. m \in 1 .. m /\ m - 1 = n /\ \A k \in 1 .. n : k \in 1 .. m
  BY <1>4, SMT
<1>7. e[m] = IF c # "." THEN Append(e[n], c) ELSE e[n]
  BY <1>2, <1>4, <1>5, <1>6 DEF Sifts
<1>8. Sifts(e, t, n)
  BY <1>5, <1>6 DEF Sifts
<1>9. e[n] = d[n]
  <2>1. \A k \in 1 .. n : s[k] = t[k]
    BY <1>2
  <2>2. QED
    BY ONLY n \in Nat, <2>1, <1>3, <1>8, SiftsAgree
<1>10. QED
  BY <1>2, <1>3, <1>5, <1>7, <1>9

\* kept[] of OneSlash.
Keeps(f, parts, n) ==
  /\ f[0] = <<>>
  /\ \A k \in 1 .. n :
       f[k] = IF k \in {1, n} \/ parts[k] # "" THEN Append(f[k - 1], parts[k]) ELSE f[k - 1]

\* OneSlash is the function that its definition describes.
LEMMA OneSlashIs ==
  ASSUME NEW parts \in Dirs, NEW n \in Nat, n = Len(parts)
  PROVE  \E f : f \in [0 .. n -> Dirs] /\ Keeps(f, parts, n) /\ OneSlash(parts) = f[n]
<1> DEFINE Then(s, k) == IF k \in {1, n} \/ parts[k] # "" THEN Append(s, parts[k]) ELSE s
           D == [k \in 1 .. n |-> [s \in Dirs |-> Then(s, k)]]
           Is(d) == d = [k \in 0 .. n |-> IF k = 0 THEN <<>>
                                          ELSE IF k \in {1, n} \/ parts[k] # ""
                                               THEN Append(d[k - 1], parts[k])
                                          ELSE d[k - 1]]
<1>1. <<>> \in Dirs
  BY EmptySeq DEF Dirs
<1>2. \A k \in 1 .. n : parts[k] \in Part
  BY ElementOfSeq DEF Dirs
<1>0. \A k \in 1 .. n : \A s \in Dirs : Then(s, k) \in Dirs
  BY <1>2, AppendProperties DEF Dirs
<1>3. D \in [1 .. n -> [Dirs -> Dirs]]
  <2> HIDE DEF Then
  <2>2. QED
    BY <1>0
<1>4. PICK d : d \in [0 .. n -> Dirs] /\ d[0] = <<>> /\ \A k \in 1 .. n : d[k] = D[k][d[k - 1]]
  <2> HIDE DEF D
  <2>1. PICK d : Recurs(d, n, Dirs, <<>>, D)
    BY <1>1, <1>3, Recursion
  <2>2. QED
    BY <2>1 DEF Recurs
<1>5. \A k \in 1 .. n : d[k - 1] \in Dirs
  <2>1. \A k \in 1 .. n : k - 1 \in 0 .. n
    BY SMT
  <2>2. QED
    BY <1>4, <2>1
<1>6. Is(d)
  <2>1. \A k \in 0 .. n : k # 0 => k \in 1 .. n
    BY SMT
  <2>2. \A k \in 0 .. n : d[k] = IF k = 0 THEN <<>> ELSE Then(d[k - 1], k)
    <3> HIDE DEF Then
    <3>1. QED
      BY <1>4, <1>5, <2>1
  <2>3. QED
    BY <1>4, <2>2
<1>7. PICK g : Is(g) /\ OneSlash(parts) = g[n]
  <2>1. OneSlash(parts) = (CHOOSE g : Is(g))[n]
    BY Zenon DEF OneSlash
  <2> HIDE DEF Is
  <2>2. QED
    BY Zenon, <1>6, <2>1
<1>8. 0 \in 0 .. n /\ \A k \in 1 .. n : k \in 0 .. n /\ k # 0
  BY SMT
<1>9. g[0] = <<>> /\ \A k \in 1 .. n : g[k] = Then(g[k - 1], k)
  BY <1>7, <1>8
<1>10. \A k \in 0 .. n : g[k] \in Dirs
  <2> DEFINE G == {k \in 0 .. n : g[k] \in Dirs}
  <2>1. 0 \in G
    BY <1>1, <1>8, <1>9
  <2>2. ASSUME NEW k \in 1 .. n, k - 1 \in G
        PROVE  k \in G
    <3> HIDE DEF Then
    <3>1. QED
      BY <1>0, <1>8, <1>9, <2>2
  <2> HIDE DEF G
  <2>3. \A k \in 0 .. n : k \in G
    BY <2>1, <2>2, Induction
  <2>4. QED
    BY <2>3 DEF G
<1>11. g \in [0 .. n -> Dirs]
  BY <1>7, <1>10
<1>12. QED
  BY <1>7, <1>9, <1>11 DEF Keeps

\* From one directory the parts lead to another, and never up from a volume.
Way(d, from, parts, n) ==
  /\ d[0] = from
  /\ \A k \in 0 .. n : d[k] \in Dirs
  /\ \A k \in 1 .. n :
       d[k] = UnixStep(d[k - 1], parts[k]) /\ (parts[k] = ".." => Len(d[k - 1]) > 1)

Leads(from, parts, dir) == \E d : Way(d, from, parts, Len(parts)) /\ d[Len(parts)] = dir

\* No parts lead nowhere else.
LEMMA LeadsEmpty ==
  ASSUME NEW from \in Dirs
  PROVE  /\ Leads(from, <<>>, from)
         /\ \A dir : Leads(from, <<>>, dir) => dir = from
<1>1. PICK s \in Dirs, n \in Nat : s = <<>> /\ n = 0 /\ n = Len(s)
  BY EmptySeq DEF Dirs
<1>2. Way([k \in 0 .. 0 |-> from], from, s, 0)
  BY SMT DEF Way
<1>3. [k \in 0 .. 0 |-> from][0] = from
  BY SMT
<1>4. Leads(from, s, from)
  BY <1>1, <1>2, <1>3 DEF Leads
<1>5. \A dir : Leads(from, s, dir) => dir = from
  BY <1>1 DEF Leads, Way
<1>6. QED
  BY <1>1, <1>4, <1>5

\* One part more is one step more.
LEMMA LeadsAppend ==
  ASSUME NEW from \in Dirs, NEW s \in Dirs, NEW dir, Leads(from, s, dir), NEW c \in Part,
         c = ".." => Len(dir) > 1
  PROVE  Leads(from, Append(s, c), UnixStep(dir, c))
<1>1. PICK n \in Nat : n = Len(s)
  BY LenProperties DEF Dirs
<1>2. PICK t \in Dirs : /\ t = Append(s, c) /\ Len(t) = n + 1 /\ t[n + 1] = c
                        /\ \A k \in 1 .. n : t[k] = s[k]
  <2>1. /\ Append(s, c) \in Dirs /\ Len(Append(s, c)) = n + 1 /\ Append(s, c)[n + 1] = c
        /\ \A k \in 1 .. n : Append(s, c)[k] = s[k]
    BY <1>1, AppendProperties DEF Dirs
  <2>2. QED
    BY <2>1
<1>3. PICK d : Way(d, from, s, n) /\ d[n] = dir
  BY <1>1 DEF Leads
<1>4. n \in 0 .. n /\ dir \in Dirs
  <2>1. n \in 0 .. n
    BY SMT
  <2>2. QED
    BY <1>3, <2>1 DEF Way
<1>5. PICK last : last = UnixStep(dir, c)
  OBVIOUS
<1>6. last \in Dirs
  BY <1>4, <1>5, StepTypes
<1> DEFINE e == [k \in 0 .. n + 1 |-> IF k = n + 1 THEN last ELSE d[k]]
<1>7. e[n + 1] = last /\ e[0] = from
  <2>1. 0 \in 0 .. n + 1 /\ 0 # n + 1 /\ n + 1 \in 0 .. n + 1
    BY SMT
  <2>2. QED
    BY <1>3, <2>1 DEF Way
<1>8. \A k \in 0 .. n : e[k] = d[k]
  BY SMT
<1>9. ASSUME NEW k \in 0 .. n + 1
      PROVE  e[k] \in Dirs
  <2>1. k \in 0 .. n \/ k = n + 1
    BY SMT
  <2>2. QED
    BY <1>3, <1>6, <1>7, <1>8, <2>1 DEF Way
<1>10. ASSUME NEW k \in 1 .. n + 1
       PROVE  e[k] = UnixStep(e[k - 1], t[k]) /\ (t[k] = ".." => Len(e[k - 1]) > 1)
  <2> HIDE DEF e
  <2>1. CASE k = n + 1
    <3>1. k - 1 = n
      BY <2>1, SMT
    <3>2. e[k - 1] = dir /\ t[k] = c /\ e[k] = last
      BY <1>2, <1>3, <1>4, <1>7, <1>8, <2>1, <3>1
    <3>3. QED
      BY <1>5, <3>2
  <2>2. CASE k # n + 1
    <3>1. k \in 1 .. n /\ k \in 0 .. n /\ k - 1 \in 0 .. n
      BY <2>2, SMT
    <3>2. e[k] = d[k] /\ e[k - 1] = d[k - 1] /\ t[k] = s[k]
      BY <1>2, <1>8, <3>1
    <3>3. QED
      BY <1>3, <3>1, <3>2 DEF Way
  <2>3. QED
    BY <2>1, <2>2
<1>11. Way(e, from, t, n + 1)
  <2> HIDE DEF e
  <2>1. QED
    BY <1>7, <1>9, <1>10 DEF Way
<1>12. Leads(from, t, last)
  <2> HIDE DEF e
  <2>1. QED
    BY <1>2, <1>7, <1>11 DEF Leads
<1>13. QED
  BY <1>2, <1>5, <1>12

\* Names of parts without "" and "." are understood when ".." is empty.
Up(c) == IF c = ".." THEN "" ELSE c

Ups(parts) == [i \in 1 .. Len(parts) |-> Up(parts[i])]

\* Each part is made one.
LEMMA UpsType ==
  ASSUME NEW s \in Dirs
  PROVE  Ups(s) \in Dirs /\ Len(Ups(s)) = Len(s) /\ \A i \in 1 .. Len(s) : Ups(s)[i] = Up(s[i])
<1>1. PICK n \in Nat : n = Len(s)
  BY LenProperties DEF Dirs
<1>2. \A i \in 1 .. n : s[i] \in Part
  BY <1>1, ElementOfSeq DEF Dirs
<1>3. \A i \in 1 .. n : Up(s[i]) \in Part
  BY <1>2 DEF Up, Part
<1>4. /\ [i \in 1 .. n |-> Up(s[i])] \in Seq(Part)
      /\ Len([i \in 1 .. n |-> Up(s[i])]) = n
  <2> HIDE DEF Part
  <2>1. QED
    BY <1>3, SMT
<1>5. QED
  BY <1>1, <1>4 DEF Ups, Dirs

\* Where Unix parts lead, those with ".." made empty lead on AmigaOS.
LEMMA LeadsAmiga ==
  ASSUME NEW from \in Dirs, NEW s \in Seq(Word), NEW dir, Leads(from, s, dir)
  PROVE  AmigaWalk(from, Ups(s)) = dir
<1>1. PICK n \in Nat : n = Len(s)
  BY LenProperties
<1>2. s \in Dirs
  BY SeqMonotonic DEF Dirs, Word
<1>3. PICK d : Way(d, from, s, n) /\ d[n] = dir
  BY <1>1 DEF Leads
<1>4. PICK u \in Dirs : u = Ups(s) /\ n = Len(u) /\ \A k \in 1 .. n : u[k] = Up(s[k])
  BY <1>1, <1>2, UpsType
<1>5. PICK e : Goes(e, from, u, n) /\ AmigaWalk(from, u) = e[n]
  BY <1>4, AmigaWalkIs
<1> DEFINE G == {k \in 0 .. n : e[k] = d[k]}
<1>6. 0 \in G
  <2>1. 0 \in 0 .. n
    BY SMT
  <2>2. QED
    BY <1>3, <1>5, <2>1 DEF Way, Goes
<1>7. ASSUME NEW k \in 1 .. n, k - 1 \in G
      PROVE  k \in G
  <2>1. k \in 0 .. n /\ k - 1 \in 0 .. n
    BY SMT
  <2>2. PICK b \in Dirs : b = d[k - 1] /\ b = e[k - 1]
    BY <1>3, <1>7, <2>1 DEF Way
  <2>3. PICK c \in Word : c = s[k]
    BY <1>1, ElementOfSeq
  <2>4. d[k] = UnixStep(b, c) /\ (c = ".." => Len(b) > 1)
    BY <1>3, <2>2, <2>3 DEF Way
  <2>5. e[k] = AmigaStep(b, Up(c))
    BY <1>4, <1>5, <2>2, <2>3 DEF Goes
  <2>6. c \notin {"", "."}
    BY DEF Word
  <2>7. AmigaStep(b, Up(c)) = UnixStep(b, c)
    <3>1. CASE c = ".."
      <4>1. b # <<>>
        BY <2>4, <3>1, EmptySeq
      <4>2. UnixStep(b, c) = Front(b)
        BY <3>1, <4>1 DEF UnixStep
      <4>3. AmigaStep(b, Up(c)) = Front(b)
        BY <2>4, <3>1 DEF AmigaStep, Up
      <4>4. QED
        BY <4>2, <4>3
    <3>2. CASE c # ".."
      BY <2>6, <3>2 DEF UnixStep, AmigaStep, Up
    <3>3. QED
      BY <3>1, <3>2
  <2>8. QED
    BY <2>1, <2>4, <2>5, <2>7
<1> HIDE DEF G
<1>8. \A k \in 0 .. n : k \in G
  BY <1>6, <1>7, Induction
<1>9. n \in 0 .. n
  BY SMT
<1>10. QED
  BY <1>3, <1>4, <1>5, <1>8, <1>9 DEF G

\* One part in front of others.
LEMMA OneMore ==
  ASSUME NEW v \in Part, NEW s \in Dirs, NEW n \in Nat, n = Len(s)
  PROVE  /\ <<v>> \o s \in Dirs /\ Len(<<v>> \o s) = n + 1 /\ (<<v>> \o s)[1] = v
         /\ \A k \in 1 .. n : (<<v>> \o s)[k + 1] = s[k]
<1>1. PICK f \in Dirs : f = <<v>> /\ Len(f) = 1 /\ f[1] = v
  <2>1. <<v>> \in Seq(Part) /\ Len(<<v>>) = 1 /\ <<v>>[1] = v
    OBVIOUS
  <2>2. QED
    BY <2>1 DEF Dirs
<1>2. /\ f \o s \in Dirs /\ Len(f \o s) = 1 + n
      /\ \A i \in 1 .. 1 + n : (f \o s)[i] = IF i <= 1 THEN f[i] ELSE s[i - 1]
  BY <1>1, ConcatProperties DEF Dirs
<1>3. 1 + n = n + 1 /\ 1 \in 1 .. 1 + n /\ 1 <= 1
  BY SMT
<1>4. \A k \in 1 .. n : k + 1 \in 1 .. 1 + n /\ ~(k + 1 <= 1) /\ (k + 1) - 1 = k
  BY SMT
<1>5. (f \o s)[1] = v
  BY <1>1, <1>2, <1>3
<1>6. \A k \in 1 .. n : (f \o s)[k + 1] = s[k]
  BY <1>2, <1>4
<1>7. QED
  BY <1>1, <1>2, <1>3, <1>5, <1>6

\* The first part is the volume.
LEMMA LeadsFromVolume ==
  ASSUME NEW v \in Word, NEW s \in Dirs, NEW dir, Leads(<<>>, <<v>> \o s, dir)
  PROVE  v # ".." /\ Leads(<<v>>, s, dir)
<1>1. PICK n \in Nat : n = Len(s)
  BY LenProperties DEF Dirs
<1>2. PICK t \in Dirs : /\ t = <<v>> \o s /\ Len(t) = n + 1 /\ t[1] = v
                        /\ \A k \in 1 .. n : t[k + 1] = s[k]
  <2>1. v \in Part
    BY DEF Word
  <2>2. /\ <<v>> \o s \in Dirs /\ Len(<<v>> \o s) = n + 1 /\ (<<v>> \o s)[1] = v
        /\ \A k \in 1 .. n : (<<v>> \o s)[k + 1] = s[k]
    BY <1>1, <2>1, OneMore
  <2>3. QED
    BY <2>2
<1>3. PICK d : Way(d, <<>>, t, n + 1) /\ d[n + 1] = dir
  BY <1>2 DEF Leads
<1>4. 1 \in 1 .. n + 1 /\ 1 - 1 = 0
  BY SMT
<1>5. d[1] = UnixStep(<<>>, v) /\ (v = ".." => Len(<<>>) > 1)
  BY <1>2, <1>3, <1>4 DEF Way
<1>6. v # ".."
  <2>1. Len(<<>>) = 0
    BY EmptySeq
  <2>2. QED
    BY <1>5, <2>1
<1>7. v \notin {"", "."}
  BY DEF Word
<1>8. d[1] = <<v>>
  <2>1. UnixStep(<<>>, v) = Append(<<>>, v)
    BY <1>6, <1>7 DEF UnixStep
  <2>2. QED
    BY <1>5, <2>1
<1> DEFINE e == [k \in 0 .. n |-> d[k + 1]]
<1>9. /\ \A k \in 0 .. n : e[k] = d[k + 1] /\ k + 1 \in 0 .. n + 1
      /\ 0 \in 0 .. n /\ n \in 0 .. n /\ 0 + 1 = 1
  BY SMT
<1> HIDE DEF e
<1>10. ASSUME NEW k \in 1 .. n
       PROVE  e[k] = UnixStep(e[k - 1], s[k]) /\ (s[k] = ".." => Len(e[k - 1]) > 1)
  <2>1. /\ k \in 0 .. n /\ k - 1 \in 0 .. n /\ (k - 1) + 1 = k /\ k + 1 \in 1 .. n + 1
        /\ (k + 1) - 1 = k
    BY SMT
  <2>2. e[k] = d[k + 1] /\ e[k - 1] = d[k] /\ t[k + 1] = s[k]
    BY <1>2, <1>9, <2>1
  <2>3. d[k + 1] = UnixStep(d[k], t[k + 1]) /\ (t[k + 1] = ".." => Len(d[k]) > 1)
    BY <1>3, <2>1 DEF Way
  <2>4. QED
    BY <2>2, <2>3
<1>11. Way(e, <<v>>, s, n)
  <2>1. e[0] = <<v>>
    BY <1>8, <1>9
  <2>2. \A k \in 0 .. n : e[k] \in Dirs
    BY <1>3, <1>9 DEF Way
  <2>3. QED
    BY <1>10, <2>1, <2>2 DEF Way
<1>12. e[n] = dir
  BY <1>3, <1>9
<1>13. QED
  BY <1>1, <1>6, <1>11, <1>12 DEF Leads

From(parts) == IF Absolute(parts) THEN <<>> ELSE Cwd

\* Names begin in a directory.
LEMMA FromType == \A parts : From(parts) \in Dirs
<1>1. Cwd \in Dirs
  BY VolumeAssumption, SeqMonotonic DEF Dirs, Part
<1>2. <<>> \in Dirs
  BY EmptySeq DEF Dirs
<1>3. QED
  BY <1>1, <1>2 DEF From

\* dir[] of UnixWalk, of a name that leaves no volume.
LEMMA UnixWay ==
  ASSUME NEW parts \in Dirs, NEW n \in Nat, n = Len(parts), ~LeavesVolume(parts)
  PROVE  Way(UnixWalk(parts), From(parts), parts, n)
<1> DEFINE d == UnixWalk(parts)
<1>1. d[0] = From(parts) /\ \A k \in 1 .. n : d[k] = UnixStep(d[k - 1], parts[k])
  BY UnixWalkIs DEF Walks, From
<1>2. \A k \in 1 .. n : ~(parts[k] = ".." /\ Len(d[k - 1]) <= 1)
  BY DEF LeavesVolume
<1> HIDE DEF d
<1> DEFINE G == {k \in 0 .. n : d[k] \in Dirs}
<1>3. 0 \in G
  <2>1. 0 \in 0 .. n
    BY SMT
  <2>2. QED
    BY <1>1, <2>1, FromType
<1>4. ASSUME NEW k \in 1 .. n, k - 1 \in G
      PROVE  k \in G
  <2>1. k \in 0 .. n /\ k - 1 \in 0 .. n
    BY SMT
  <2>2. parts[k] \in Part
    BY ElementOfSeq DEF Dirs
  <2>3. QED
    BY <1>1, <1>4, <2>1, <2>2, StepTypes
<1>5. \A k \in 0 .. n : d[k] \in Dirs
  <2> HIDE DEF G
  <2>1. \A k \in 0 .. n : k \in G
    BY <1>3, <1>4, Induction
  <2>2. QED
    BY <2>1 DEF G
<1>6. ASSUME NEW k \in 1 .. n, parts[k] = ".."
      PROVE  Len(d[k - 1]) > 1
  <2>1. k - 1 \in 0 .. n
    BY SMT
  <2>2. PICK m \in Nat : m = Len(d[k - 1])
    BY <1>5, <2>1, LenProperties DEF Dirs
  <2>3. ~(m <= 1)
    BY <1>2, <1>6, <2>2
  <2>4. QED
    BY <2>2, <2>3, SMT
<1>7. QED
  BY <1>1, <1>5, <1>6 DEF Way, d

----------------------------------------------------------------------------
(* What the first two passes leave: one slash, if any, and the parts that  *)
(* lead somewhere.                                                         *)

Slash(parts) == IF Absolute(parts) THEN <<"">> ELSE <<>>

\* The words of a name.
WordsOf(parts) == Word \cap {parts[i] : i \in 1 .. Len(parts)}

\* The words of a name are words, and parts.
LEMMA WordsAreWords ==
  ASSUME NEW parts, NEW words \in Seq(WordsOf(parts))
  PROVE  words \in Seq(Word) /\ words \in Dirs
<1>1. words \in Seq(Word)
  BY SeqMonotonic DEF WordsOf
<1>2. QED
  BY <1>1, SeqMonotonic DEF Dirs, Word

\* A relative name does not go up first.
GoesOn(parts, words, i) ==
  Absolute(parts) \/ (IF words = <<>> THEN \A j \in 1 .. i : parts[j] \in {"", "."}
                      ELSE words[1] # "..")

\* What Undotted makes of what OneSlash has kept of i parts.
Sifted(parts, kept, dir, i) ==
  \E words \in Seq(WordsOf(parts)) :
    /\ Undotted(kept) = Slash(parts) \o words
    /\ Leads(From(parts), words, dir)
    /\ GoesOn(parts, words, i)

\* The slash in front is a part or none.
LEMMA SlashType == \A parts : Slash(parts) \in Dirs
<1>1. "" \in Part
  BY DEF Part
<1>2. <<"">> \in Dirs /\ <<>> \in Dirs
  <2>1. PICK e \in Part : e = ""
    BY <1>1
  <2>2. <<e>> \in Seq(Part) /\ <<>> \in Seq(Part)
    BY EmptySeq
  <2>3. QED
    BY <2>1, <2>2 DEF Dirs
<1>3. QED
  BY <1>2 DEF Slash

\* What is appended to a name is appended to its end.
LEMMA ConcatAppend ==
  ASSUME NEW h \in Dirs, NEW s \in Dirs, NEW c \in Part
  PROVE  Append(h \o s, c) = h \o Append(s, c)
<1>1. PICK t \in Seq(Part) : t = <<c>>
  <2>1. <<c>> \in Seq(Part)
    OBVIOUS
  <2>2. QED
    BY <2>1
<1>2. Append(s, c) = s \o t
  BY <1>1, AppendIsConcat DEF Dirs
<1>3. h \o s \in Seq(Part) /\ h \in Seq(Part) /\ s \in Seq(Part)
  BY ConcatProperties DEF Dirs
<1>4. Append(h \o s, c) = (h \o s) \o t
  BY <1>1, <1>3, AppendIsConcat
<1>5. (h \o s) \o t = h \o (s \o t)
  BY ONLY <1>3, t \in Seq(Part), ConcatAssociative
<1>6. QED
  BY <1>2, <1>4, <1>5

\* With one part more, a relative name that does not start up still goes on.
LEMMA GoesOnAppend ==
  ASSUME NEW parts \in Dirs, ~StartsUp(parts), NEW i \in 1 .. Len(parts), NEW words \in Seq(Word),
         GoesOn(parts, words, i - 1)
  PROVE  /\ parts[i] \in {"", "."} => GoesOn(parts, words, i)
         /\ parts[i] \in Word => GoesOn(parts, Append(words, parts[i]), i)
         /\ ~Absolute(parts) /\ words = <<>> => parts[i] # ".."
<1>1. PICK n \in Nat : n = Len(parts)
  BY LenProperties DEF Dirs
<1>2. CASE Absolute(parts)
  BY <1>2 DEF GoesOn
<1>3. CASE ~Absolute(parts) /\ words # <<>>
  <2>1. words[1] # ".."
    BY <1>3 DEF GoesOn
  <2>2. ASSUME parts[i] \in Word
        PROVE  Append(words, parts[i])[1] = words[1] /\ Append(words, parts[i]) # <<>>
    <3>1. PICK m \in Nat : m = Len(words) /\ m # 0
      BY <1>3, EmptySeq, LenProperties
    <3>2. 1 \in 1 .. m
      BY <3>1, SMT
    <3>3. QED
      BY <2>2, <3>1, <3>2, AppendProperties
  <2>3. QED
    BY <1>3, <2>1, <2>2 DEF GoesOn
<1>4. CASE ~Absolute(parts) /\ words = <<>>
  <2>1. \A j \in 1 .. i - 1 : parts[j] \in {"", "."}
    BY <1>4 DEF GoesOn
  <2>2. parts[i] # ".."
    BY <1>4, <2>1 DEF StartsUp
  <2>3. \A j \in 1 .. i : j = i \/ j \in 1 .. i - 1
    BY <1>1, SMT
  <2>4. parts[i] \in {"", "."} => GoesOn(parts, words, i)
    BY <1>4, <2>1, <2>3 DEF GoesOn
  <2>5. Append(<<>>, parts[i]) = <<parts[i]>> /\ <<parts[i]>>[1] = parts[i] /\ <<parts[i]>> # <<>>
    OBVIOUS
  <2>6. QED
    BY <1>4, <2>2, <2>4, <2>5 DEF GoesOn
<1>5. QED
  BY <1>2, <1>3, <1>4

\* One part more.
LEMMA SiftedMore ==
  ASSUME NEW parts \in Dirs, ~StartsUp(parts), NEW i \in 1 .. Len(parts),
         NEW kept \in Dirs, NEW dir \in Dirs, Sifted(parts, kept, dir, i - 1),
         parts[i] = ".." => Len(dir) > 1, parts[i] # "SYS"
  PROVE  /\ parts[i] = "" => Sifted(parts, kept, UnixStep(dir, parts[i]), i)
         /\ parts[i] # "" => Sifted(parts, Append(kept, parts[i]), UnixStep(dir, parts[i]), i)
<1>1. PICK words \in Seq(WordsOf(parts)) :
        /\ Undotted(kept) = Slash(parts) \o words
        /\ Leads(From(parts), words, dir)
        /\ GoesOn(parts, words, i - 1)
  BY DEF Sifted
<1>2. PICK c \in Part : c = parts[i]
  BY ElementOfSeq DEF Dirs
<1>3. Undotted(Append(kept, c)) = IF c # "." THEN Append(Undotted(kept), c) ELSE Undotted(kept)
  BY UndottedAppend
<1>4. words \in Seq(Word) /\ words \in Dirs /\ From(parts) \in Dirs /\ Slash(parts) \in Dirs
  BY WordsAreWords, FromType, SlashType
<1>5. CASE c \in {"", "."}
  <2>1. UnixStep(dir, c) = dir
    BY <1>5 DEF UnixStep
  <2>2. GoesOn(parts, words, i)
    BY <1>1, <1>2, <1>4, <1>5, GoesOnAppend
  <2>3. Sifted(parts, kept, dir, i)
    BY <1>1, <2>2 DEF Sifted
  <2>4. c = "." => Sifted(parts, Append(kept, c), dir, i)
    BY <1>1, <1>3, <2>2 DEF Sifted
  <2>5. QED
    BY <1>2, <1>5, <2>1, <2>3, <2>4
<1>6. CASE c \notin {"", "."}
  <2>1. c \in Word
    BY <1>2, <1>6 DEF Word
  <2>2. GoesOn(parts, Append(words, c), i)
    BY <1>1, <1>2, <1>4, <2>1, GoesOnAppend
  <2>3. Leads(From(parts), Append(words, c), UnixStep(dir, c))
    BY <1>1, <1>2, <1>4, LeadsAppend
  <2>4. Undotted(Append(kept, c)) = Slash(parts) \o Append(words, c)
    <3>1. Append(Slash(parts) \o words, c) = Slash(parts) \o Append(words, c)
      BY <1>4, ConcatAppend
    <3>2. QED
      BY <1>1, <1>3, <1>6, <3>1
  <2>5. Append(words, c) \in Seq(WordsOf(parts))
    <3>1. c \in WordsOf(parts)
      BY <1>2, <2>1 DEF WordsOf
    <3>2. QED
      BY <3>1, AppendProperties
  <2>6. Sifted(parts, Append(kept, c), UnixStep(dir, c), i)
    BY <2>2, <2>3, <2>4, <2>5 DEF Sifted
  <2>7. QED
    BY <1>2, <1>6, <2>6
<1>7. QED
  BY <1>5, <1>6

\* OneSlash leaves the last part and before it what SiftedMore says of all others.
LEMMA KeptOf ==
  ASSUME NEW parts \in Dirs, NEW n \in Nat, n = Len(parts), n # 0, ~StartsUp(parts),
         ~LeavesVolume(parts), \A k \in 1 .. n : parts[k] # "SYS"
  PROVE  \E kept \in Dirs, dir \in Dirs :
           /\ OneSlash(parts) = Append(kept, parts[n])
           /\ Sifted(parts, kept, dir, n - 1)
           /\ UnixMeaning(parts) = UnixStep(dir, parts[n])
           /\ parts[n] = ".." => Len(dir) > 1
<1>1. PICK f : f \in [0 .. n -> Dirs] /\ Keeps(f, parts, n) /\ OneSlash(parts) = f[n]
  BY OneSlashIs
<1>2. PICK u : u = UnixWalk(parts)
  OBVIOUS
<1>3. Way(u, From(parts), parts, n)
  BY <1>2, UnixWay
<1>4. /\ n - 1 \in Nat /\ n \in 1 .. n /\ n - 1 \in 0 .. n - 1 /\ 0 \in 0 .. n - 1
      /\ n - 1 = 0 => ~(n > 1)
      /\ \A i \in 0 .. n - 1 : i \in 0 .. n
      /\ \A i \in 1 .. n - 1 : i \in 1 .. n /\ i \in 0 .. n - 1 /\ i - 1 \in 0 .. n /\ i # n /\ n > 1
  BY SMT
<1> DEFINE G == {i \in 0 .. n - 1 : (i = 0 /\ Absolute(parts)) \/ Sifted(parts, f[i], u[i], i)}
<1>5. 0 \in G
  <2>1. CASE Absolute(parts)
    BY <1>4, <2>1
  <2>2. CASE ~Absolute(parts)
    <3>1. f[0] = <<>> /\ u[0] = From(parts)
      BY <1>1, <1>3 DEF Keeps, Way
    <3>2. Undotted(<<>>) = Slash(parts) \o <<>>
      BY <2>2, UndottedEmpty DEF Slash
    <3>3. Leads(From(parts), <<>>, From(parts))
      BY FromType, LeadsEmpty
    <3>4. \A j \in 1 .. 0 : FALSE
      BY SMT
    <3>5. PICK words \in Seq(WordsOf(parts)) : words = <<>>
      BY EmptySeq
    <3>6. GoesOn(parts, words, 0)
      BY <3>4, <3>5 DEF GoesOn
    <3>7. Sifted(parts, f[0], u[0], 0)
      BY <3>1, <3>2, <3>3, <3>5, <3>6 DEF Sifted
    <3>8. QED
      BY <1>4, <3>7
  <2>3. QED
    BY <2>1, <2>2
<1>6. ASSUME NEW i \in 1 .. n - 1, i - 1 \in G
      PROVE  i \in G
  <2>1. i \in 0 .. n - 1 /\ i \in 1 .. n /\ i - 1 \in 0 .. n /\ i # n
    BY <1>4
  <2>2. f[i] = IF i = 1 \/ parts[i] # "" THEN Append(f[i - 1], parts[i]) ELSE f[i - 1]
    BY <1>1, <2>1 DEF Keeps
  <2>3. u[i] = UnixStep(u[i - 1], parts[i]) /\ (parts[i] = ".." => Len(u[i - 1]) > 1)
    BY <1>3, <2>1 DEF Way
  <2>4. CASE Absolute(parts) /\ i = 1
    <3>1. f[0] = <<>> /\ u[0] = <<>> /\ parts[1] = ""
      BY <1>1, <1>3, <2>4 DEF Keeps, Way, From, Absolute
    <3>2. i - 1 = 0
      BY <2>4, SMT
    <3>3. f[i] = Append(<<>>, "") /\ u[i] = <<>>
      BY <2>2, <2>3, <2>4, <3>1, <3>2 DEF UnixStep
    <3>4. PICK words \in Dirs, c \in Part : words = <<>> /\ c = ""
      BY EmptySeq DEF Part, Dirs
    <3>5. Undotted(Append(words, c)) = Append(<<>>, "")
      BY <3>4, UndottedAppend, UndottedEmpty
    <3>6. Append(<<>>, "") = Slash(parts) \o <<>>
      <4>1. PICK t \in Seq(Part) : t = Slash(parts)
        BY SlashType DEF Dirs
      <4>2. t \o <<>> = t
        BY ConcatEmptySeq
      <4>3. Append(<<>>, "") = <<"">>
        OBVIOUS
      <4>4. QED
        BY <2>4, <4>1, <4>2, <4>3 DEF Slash
    <3>7. Leads(From(parts), <<>>, <<>>)
      BY <2>4, FromType, LeadsEmpty DEF From
    <3>8. GoesOn(parts, <<>>, i)
      BY <2>4 DEF GoesOn
    <3>9. <<>> \in Seq(WordsOf(parts))
      BY EmptySeq
    <3>10. Sifted(parts, f[i], u[i], i)
      BY <3>3, <3>4, <3>5, <3>6, <3>7, <3>8, <3>9 DEF Sifted
    <3>11. QED
      BY <2>1, <3>10
  <2>5. CASE ~(Absolute(parts) /\ i = 1)
    <3>1. i # 1 => i - 1 # 0
      BY SMT
    <3>2. Sifted(parts, f[i - 1], u[i - 1], i - 1)
      BY <1>6, <2>5, <3>1
    <3>3. i = 1 => parts[i] # ""
      BY <1>4, <2>5 DEF Absolute
    <3>4. f[i - 1] \in Dirs /\ u[i - 1] \in Dirs
      BY <1>1, <1>3, <2>1 DEF Way
    <3>5. PICK k \in Dirs, d \in Dirs : k = f[i - 1] /\ d = u[i - 1]
      BY <3>4
    <3>6. parts[i] # "SYS"
      BY <2>1
    <3>7. /\ parts[i] = "" => Sifted(parts, k, UnixStep(d, parts[i]), i)
          /\ parts[i] # "" => Sifted(parts, Append(k, parts[i]), UnixStep(d, parts[i]), i)
      BY <2>1, <2>3, <3>2, <3>5, <3>6, SiftedMore
    <3>8. Sifted(parts, f[i], u[i], i)
      BY <2>2, <2>3, <3>3, <3>5, <3>7
    <3>9. QED
      BY <2>1, <3>8
  <2>6. QED
    BY <2>4, <2>5
<1> HIDE DEF G
<1>7. \A i \in 0 .. n - 1 : i \in G
  <2>1. PICK m \in Nat : m = n - 1
    BY <1>4
  <2>2. QED
    BY <1>5, <1>6, <2>1, Induction
<1>8. Sifted(parts, f[n - 1], u[n - 1], n - 1)
  BY <1>4, <1>7 DEF G, Absolute
<1>9. f[n - 1] \in Dirs /\ u[n - 1] \in Dirs
  BY <1>1, <1>3, <1>4 DEF Way
<1>10. f[n] = Append(f[n - 1], parts[n])
  BY <1>1, <1>4 DEF Keeps
<1>11. u[n] = UnixStep(u[n - 1], parts[n]) /\ (parts[n] = ".." => Len(u[n - 1]) > 1)
  BY <1>3, <1>4 DEF Way
<1>12. QED
  BY <1>1, <1>2, <1>8, <1>9, <1>10, <1>11 DEF UnixMeaning

\* The last part, and what is before it.
LEMMA AppendLast ==
  ASSUME NEW s \in Dirs, NEW c \in Part
  PROVE  /\ Append(s, c) \in Dirs /\ Append(s, c) # <<>>
         /\ Last(Append(s, c)) = c /\ Front(Append(s, c)) = s
         /\ s # <<>> => Append(s, c)[1] = s[1]
         /\ s = <<>> => Append(s, c)[1] = c
<1>1. PICK n \in Nat : n = Len(s)
  BY LenProperties DEF Dirs
<1>2. /\ Append(s, c) \in Dirs /\ Len(Append(s, c)) = n + 1 /\ Append(s, c)[n + 1] = c
      /\ \A k \in 1 .. n : Append(s, c)[k] = s[k]
  BY <1>1, AppendProperties DEF Dirs
<1>3. PICK t \in Dirs : t = Append(s, c)
  BY <1>2
<1>4. /\ n + 1 # 0 /\ (n + 1) - 1 = n /\ (n # 0 => 1 \in 1 .. n) /\ (n = 0 => n + 1 = 1)
      /\ n \in 0 .. n + 1 /\ n \in Int /\ 1 \in Int
  BY SMT
<1>5. t # <<>>
  BY <1>2, <1>3, <1>4, EmptySeq
<1>6. Last(t) = c
  BY <1>2, <1>3 DEF Last
<1>7. Front(t) = s
  <2>1. SubSeq(t, 1, n) = SubSeq(s, 1, n)
    <3>1. /\ n - 1 + 1 = n /\ (1 <= n => n - 1 + 1 = n) /\ (~(1 <= n) => n = 0)
          /\ \A i \in 1 .. n : 1 + i - 1 = i
      BY SMT
    <3>2. \A i \in 1 .. n : s[i] \in Part
      BY <1>1, ElementOfSeq DEF Dirs
    <3>3. \A i \in 1 .. n : t[i] = s[i]
      BY <1>2, <1>3
    <3>4. /\ SubSeq(s, 1, n) \in Seq(Part) /\ Len(SubSeq(s, 1, n)) = n
          /\ \A i \in 1 .. n : SubSeq(s, 1, n)[i] = s[i]
      BY <1>4, <3>1, <3>2, SubSeqProperties
    <3>5. /\ SubSeq(t, 1, n) \in Seq(Part) /\ Len(SubSeq(t, 1, n)) = n
          /\ \A i \in 1 .. n : SubSeq(t, 1, n)[i] = t[i]
      <4>1. \A i \in 1 .. n : t[i] \in Part
        BY <3>2, <3>3
      <4>2. QED
        BY <1>4, <3>1, <4>1, SubSeqProperties
    <3>6. PICK a \in Seq(Part), b \in Seq(Part) : a = SubSeq(s, 1, n) /\ b = SubSeq(t, 1, n)
      BY <3>4, <3>5
    <3>7. a = b
      BY <3>3, <3>4, <3>5, <3>6, SeqEqual
    <3>8. QED
      BY <3>6, <3>7
  <2>2. SubSeq(s, 1, n) = s
    BY <1>1, SubSeqFull DEF Dirs
  <2>3. QED
    BY <1>2, <1>3, <1>4, <2>1, <2>2 DEF Front
<1>8. s # <<>> => n # 0
  BY <1>1, EmptySeq DEF Dirs
<1>9. s = <<>> => n = 0
  BY <1>1, EmptySeq
<1>10. s # <<>> => t[1] = s[1]
  BY <1>2, <1>3, <1>4, <1>8
<1>11. s = <<>> => t[1] = c
  BY <1>2, <1>3, <1>4, <1>9
<1>12. QED
  BY <1>3, <1>5, <1>6, <1>7, <1>10, <1>11

\* The words that are left lead to a directory, from which the last part leads to the file.
LEMMA DotlessOf ==
  ASSUME NEW parts \in Dirs, NEW n \in Nat, n = Len(parts), n # 0, ~StartsUp(parts),
         ~LeavesVolume(parts), \A k \in 1 .. n : parts[k] # "SYS"
  PROVE  \E words \in Seq(WordsOf(parts)), last \in WordsOf(parts) \cup {""}, dir \in Dirs :
           /\ WithoutDots(OneSlash(parts)) = Append(Slash(parts) \o words, last)
           /\ Leads(From(parts), words, dir)
           /\ UnixMeaning(parts) = UnixStep(dir, last)
           /\ last = ".." => Len(dir) > 1
           /\ Absolute(parts) \/ (IF words = <<>> THEN last # ".." ELSE words[1] # "..")
<1>1. PICK kept \in Dirs, dir \in Dirs :
        /\ OneSlash(parts) = Append(kept, parts[n])
        /\ Sifted(parts, kept, dir, n - 1)
        /\ UnixMeaning(parts) = UnixStep(dir, parts[n])
        /\ parts[n] = ".." => Len(dir) > 1
  BY KeptOf
<1>2. PICK words \in Seq(WordsOf(parts)) :
        /\ Undotted(kept) = Slash(parts) \o words
        /\ Leads(From(parts), words, dir)
        /\ GoesOn(parts, words, n - 1)
  BY <1>1 DEF Sifted
<1>3. n \in 1 .. n
  BY SMT
<1>4. PICK c \in Part : c = parts[n]
  BY <1>3, ElementOfSeq DEF Dirs
<1>5. Last(Append(kept, c)) = c
  BY AppendLast
<1>6. Undotted(Append(kept, c)) = IF c # "." THEN Append(Undotted(kept), c) ELSE Undotted(kept)
  BY UndottedAppend
<1>7. ~Absolute(parts) /\ words = <<>> => c # ".."
  BY <1>2, <1>3, <1>4, WordsAreWords, GoesOnAppend
<1>8. Absolute(parts) \/ (IF words = <<>> THEN c # ".." ELSE words[1] # "..")
  BY <1>2, <1>7 DEF GoesOn
<1>9. CASE c = "."
  <2>1. WithoutDots(OneSlash(parts)) = Append(Slash(parts) \o words, "")
    BY <1>1, <1>2, <1>4, <1>5, <1>6, <1>9 DEF WithoutDots
  <2>2. UnixMeaning(parts) = UnixStep(dir, "")
    BY <1>1, <1>4, <1>9 DEF UnixStep
  <2>3. Absolute(parts) \/ (IF words = <<>> THEN "" # ".." ELSE words[1] # "..")
    BY <1>8
  <2>4. QED
    BY <1>2, <2>1, <2>2, <2>3
<1>10. CASE c # "."
  <2>1. WithoutDots(OneSlash(parts)) = Append(Slash(parts) \o words, c)
    BY <1>1, <1>2, <1>4, <1>5, <1>6, <1>10 DEF WithoutDots
  <2>2. c \in WordsOf(parts) \cup {""}
    <3>1. c # "SYS"
      BY <1>3, <1>4
    <3>2. QED
      BY <1>3, <1>4, <1>10, <3>1 DEF WordsOf, Word
  <2>3. QED
    BY <1>1, <1>2, <1>4, <1>8, <2>1, <2>2
<1>11. QED
  BY <1>9, <1>10

\* Each part is made one, wherever it stands.
LEMMA UpsConcat ==
  ASSUME NEW s \in Dirs, NEW t \in Dirs
  PROVE  Ups(s \o t) = Ups(s) \o Ups(t)
<1>1. PICK m \in Nat, n \in Nat : m = Len(s) /\ n = Len(t)
  BY LenProperties DEF Dirs
<1>2. PICK w \in Dirs : /\ w = s \o t /\ Len(w) = m + n
                        /\ \A i \in 1 .. m + n : w[i] = IF i <= m THEN s[i] ELSE t[i - m]
  <2>1. /\ s \o t \in Dirs /\ Len(s \o t) = m + n
        /\ \A i \in 1 .. m + n : (s \o t)[i] = IF i <= m THEN s[i] ELSE t[i - m]
    BY <1>1, ConcatProperties DEF Dirs
  <2>2. QED
    BY <2>1
<1>3. PICK a \in Dirs, b \in Dirs :
        /\ a = Ups(s) /\ Len(a) = m /\ \A i \in 1 .. m : a[i] = Up(s[i])
        /\ b = Ups(t) /\ Len(b) = n /\ \A i \in 1 .. n : b[i] = Up(t[i])
  BY <1>1, UpsType
<1>4. PICK x \in Dirs : x = Ups(w) /\ Len(x) = m + n /\ \A i \in 1 .. m + n : x[i] = Up(w[i])
  <2>1. PICK k : k = m + n
    OBVIOUS
  <2>2. Len(w) = k
    BY <1>2, <2>1
  <2>3. Ups(w) \in Dirs /\ Len(Ups(w)) = k /\ \A i \in 1 .. k : Ups(w)[i] = Up(w[i])
    BY <2>2, UpsType
  <2>4. QED
    BY <2>1, <2>3
<1>5. PICK y \in Dirs : /\ y = a \o b /\ Len(y) = m + n
                        /\ \A i \in 1 .. m + n : y[i] = IF i <= m THEN a[i] ELSE b[i - m]
  <2>1. a \in Seq(Part) /\ b \in Seq(Part) /\ Len(a) = m /\ Len(b) = n
    BY <1>3 DEF Dirs
  <2>2. /\ a \o b \in Seq(Part) /\ Len(a \o b) = m + n
        /\ \A i \in 1 .. m + n : (a \o b)[i] = IF i <= m THEN a[i] ELSE b[i - m]
    BY ONLY <2>1, ConcatProperties
  <2>3. QED
    BY <2>2 DEF Dirs
<1>6. \A i \in 1 .. m + n : (i <= m => i \in 1 .. m) /\ (~(i <= m) => i - m \in 1 .. n)
  BY SMT
<1>7. \A i \in 1 .. m + n : x[i] = y[i]
  BY SMTT(40), <1>2, <1>3, <1>4, <1>5, <1>6
<1>8. x = y
  BY <1>4, <1>5, <1>7, SeqEqual DEF Dirs
<1>9. QED
  BY <1>2, <1>3, <1>4, <1>5, <1>8

\* A single part.
LEMMA UpsOne ==
  ASSUME NEW c \in Part
  PROVE  <<c>> \in Dirs /\ Ups(<<c>>) = <<Up(c)>> /\ Up(c) \in Part
<1>1. <<c>> \in Dirs /\ Len(<<c>>) = 1 /\ <<c>>[1] = c
  BY DEF Dirs
<1>2. PICK s \in Dirs : s = <<c>>
  BY <1>1
<1>3. Up(c) \in Part
  BY DEF Up, Part
<1>4. PICK a \in Dirs : a = Ups(s) /\ Len(a) = 1 /\ \A i \in 1 .. 1 : a[i] = Up(s[i])
  BY <1>1, <1>2, UpsType
<1>5. <<Up(c)>> \in Dirs /\ Len(<<Up(c)>>) = 1 /\ <<Up(c)>>[1] = Up(c)
  BY <1>3 DEF Dirs
<1>6. PICK b \in Dirs : b = <<Up(c)>>
  BY <1>5
<1>7. \A i \in 1 .. 1 : i = 1
  BY SMT
<1>8. \A i \in 1 .. 1 : a[i] = b[i]
  BY <1>1, <1>2, <1>4, <1>5, <1>6, <1>7
<1>9. a = b
  BY <1>4, <1>5, <1>6, <1>8, SeqEqual DEF Dirs
<1>10. QED
  BY <1>1, <1>2, <1>3, <1>4, <1>6, <1>9

\* One part more.
LEMMA UpsAppend ==
  ASSUME NEW s \in Dirs, NEW c \in Part
  PROVE  Ups(Append(s, c)) = Append(Ups(s), Up(c))
<1>1. PICK t \in Dirs : t = <<c>>
  BY UpsOne
<1>2. Append(s, c) = s \o t
  BY <1>1, AppendIsConcat DEF Dirs
<1>3. Ups(s \o t) = Ups(s) \o Ups(t)
  BY UpsConcat
<1>4. PICK a \in Dirs, d \in Part : a = Ups(s) /\ d = Up(c)
  BY UpsType, UpsOne
<1>5. Append(a, d) = a \o <<d>>
  BY AppendIsConcat DEF Dirs
<1>6. QED
  BY <1>1, <1>2, <1>3, <1>4, <1>5, UpsOne

\* No part.
LEMMA UpsEmpty == Ups(<<>>) = <<>>
<1>1. PICK a \in Dirs, b \in Dirs : a = <<>> /\ Len(a) = 0 /\ b = Ups(a)
  BY EmptySeq, UpsType DEF Dirs
<1>2. Len(b) = 0
  BY <1>1, UpsType
<1>3. b = <<>>
  BY <1>2, EmptySeq DEF Dirs
<1>4. QED
  BY <1>1, <1>3

\* What ends a name: a slash, or the name of a file.
Tails == {<<>>, <<"">>}

Ends(words, end) ==
  \/ end = <<"">>
  \/ end = <<>> /\ \E front \in Seq(Word), c \in Word \ {".."} : words = Append(front, c)

\* A name ends with a slash or without.
LEMMA EndsInTails == \A words, end : Ends(words, end) => end \in Tails
  BY DEF Ends, Tails

\* One more word at the end of a name whose words are made ready for AmigaOS.
LEMMA UpAppended ==
  ASSUME NEW h \in Dirs, NEW s \in Dirs, NEW c \in Part
  PROVE  Append(h \o Ups(s), Up(c)) = h \o Ups(Append(s, c))
<1>1. PICK u \in Dirs : u = Ups(s)
  BY UpsType
<1>2. PICK d \in Part : d = Up(c)
  BY UpsOne
<1>3. Append(h \o u, d) = h \o Append(u, d)
  BY ConcatAppend
<1>4. QED
  BY <1>1, <1>2, <1>3, UpsAppend

\* The end, empty or not, of a name whose words are made ready for AmigaOS.
LEMMA EndAppended ==
  ASSUME NEW h \in Dirs, NEW s \in Dirs
  PROVE  /\ (h \o Ups(s)) \o <<"">> = Append(h \o Ups(s), "")
         /\ (h \o Ups(s)) \o <<>> = h \o Ups(s)
         /\ h \o Ups(s) \in Dirs
<1>1. PICK u \in Dirs : u = Ups(s)
  BY UpsType
<1>2. h \o u \in Dirs
  BY ConcatProperties DEF Dirs
<1>3. PICK a \in Dirs : a = h \o u
  BY <1>2
<1>4. PICK e \in Part : e = ""
  BY DEF Part
<1>5. a \o <<e>> = Append(a, e)
  BY AppendIsConcat DEF Dirs
<1>6. a \o <<>> = a
  BY ConcatEmptySeq DEF Dirs
<1>7. QED
  BY <1>1, <1>3, <1>4, <1>5, <1>6

\* What the three passes leave: the words that lead to the file, with ".." made empty.
LEMMA PassedOf ==
  ASSUME NEW parts \in Dirs, NEW n \in Nat, n = Len(parts), n # 0, ~StartsUp(parts),
         ~LeavesVolume(parts), \A k \in 1 .. n : parts[k] # "SYS"
  PROVE  \E words \in Seq(WordsOf(parts)), end \in Tails :
           /\ UpAsEmpty(WithoutDots(OneSlash(parts))) = (Slash(parts) \o Ups(words)) \o end
           /\ Ends(words, end)
           /\ Leads(From(parts), words, UnixMeaning(parts))
           /\ Absolute(parts) \/ words = <<>> \/ words[1] # ".."
<1>1. PICK words \in Seq(WordsOf(parts)), last \in WordsOf(parts) \cup {""}, dir \in Dirs :
        /\ WithoutDots(OneSlash(parts)) = Append(Slash(parts) \o words, last)
        /\ Leads(From(parts), words, dir)
        /\ UnixMeaning(parts) = UnixStep(dir, last)
        /\ last = ".." => Len(dir) > 1
        /\ Absolute(parts) \/ (IF words = <<>> THEN last # ".." ELSE words[1] # "..")
  BY DotlessOf
<1>2. words \in Dirs /\ last \in Part /\ Slash(parts) \in Dirs /\ From(parts) \in Dirs
  <2>1. words \in Dirs
    BY WordsAreWords
  <2>2. last \in Part
    BY DEF WordsOf, Word, Part
  <2>3. QED
    BY <2>1, <2>2, SlashType, FromType
<1>3. PICK s \in Dirs : s = Slash(parts) \o words
  <2>1. Slash(parts) \o words \in Dirs
    BY <1>2, ConcatProperties DEF Dirs
  <2>2. QED
    BY <2>1
<1>4. PICK q \in Dirs : q = Append(s, last) /\ Last(q) = last
  <2>1. last \in Part
    BY <1>2
  <2>2. QED
    BY ONLY Zenon, <2>1, s \in Dirs, AppendLast
<1>5. UpAsEmpty(q) = Ups(q) \o (IF last = ".." THEN <<"">> ELSE <<>>)
  BY <1>4 DEF UpAsEmpty, Ups, Up
<1>6. Ups(q) = Append(Ups(s), Up(last))
  BY <1>2, <1>4, UpsAppend
<1>7. Ups(s) = Slash(parts) \o Ups(words)
  <2>1. Ups(Slash(parts)) = Slash(parts)
    <3>1. PICK c \in Part : c = ""
      BY DEF Part
    <3>2. Ups(<<c>>) = <<c>>
      BY <3>1, UpsOne DEF Up
    <3>3. QED
      BY <3>1, <3>2, UpsEmpty DEF Slash
  <2>2. Ups(Slash(parts) \o words) = Ups(Slash(parts)) \o Ups(words)
    BY <1>2, UpsConcat
  <2>3. QED
    BY <1>3, <2>1, <2>2
<1>8. UpAsEmpty(WithoutDots(OneSlash(parts)))
        = Append(Slash(parts) \o Ups(words), Up(last)) \o (IF last = ".." THEN <<"">> ELSE <<>>)
  BY <1>1, <1>3, <1>4, <1>5, <1>6, <1>7
<1>9. /\ (Slash(parts) \o Ups(words)) \o <<"">> = Append(Slash(parts) \o Ups(words), "")
      /\ Append(Slash(parts) \o Ups(words), Up(last)) = Slash(parts) \o Ups(Append(words, last))
  <2>1. PICK h \in Dirs : h = Slash(parts)
    BY <1>2
  <2>2. PICK w \in Dirs, c \in Part : w = words /\ c = last
    BY <1>2
  <2>3. (h \o Ups(w)) \o <<"">> = Append(h \o Ups(w), "")
    BY EndAppended
  <2>4. Append(h \o Ups(w), Up(c)) = h \o Ups(Append(w, c))
    BY UpAppended
  <2>5. QED
    BY ONLY Zenon, <2>1, <2>2, <2>3, <2>4
<1>10. CASE last = ""
  <2>1. PICK r \in Dirs : r = Append(Slash(parts) \o Ups(words), "")
    <3>1. PICK a \in Dirs, c \in Part : a = Slash(parts) \o Ups(words) /\ c = ""
      BY <1>2, EndAppended DEF Part
    <3>2. QED
      BY <3>1, AppendLast
  <2>2. r \o <<>> = r
    BY ConcatEmptySeq DEF Dirs
  <2>3. Up(last) = "" /\ last # ".."
    BY <1>10 DEF Up
  <2>4. UpAsEmpty(WithoutDots(OneSlash(parts))) = (Slash(parts) \o Ups(words)) \o <<"">>
    BY <1>8, <1>9, <2>1, <2>2, <2>3
  <2>5. UnixMeaning(parts) = dir
    BY <1>1, <1>10 DEF UnixStep
  <2>6. Ends(words, <<"">>)
    BY DEF Ends
  <2>7. QED
    BY <1>1, <2>4, <2>5, <2>6, EndsInTails
<1>11. CASE last # ""
  <2>1. last \in WordsOf(parts) /\ last \in Word /\ words \in Seq(Word)
    BY <1>11, WordsAreWords DEF WordsOf
  <2>2. PICK more \in Seq(WordsOf(parts)) : more = Append(words, last)
    BY <2>1, AppendProperties
  <2>3. Leads(From(parts), more, UnixMeaning(parts))
    BY <1>1, <1>2, <2>2, LeadsAppend
  <2>4. Absolute(parts) \/ more = <<>> \/ more[1] # ".."
    BY <1>1, <1>2, <2>2, AppendLast
  <2>5. CASE last = ".."
    <3>1. UpAsEmpty(WithoutDots(OneSlash(parts))) = (Slash(parts) \o Ups(more)) \o <<"">>
      BY <1>8, <1>9, <2>2, <2>5
    <3>2. Ends(more, <<"">>)
      BY DEF Ends
    <3>3. QED
      BY <2>3, <2>4, <3>1, <3>2, EndsInTails
  <2>6. CASE last # ".."
    <3>1. UpAsEmpty(WithoutDots(OneSlash(parts))) = (Slash(parts) \o Ups(more)) \o <<>>
      BY <1>8, <1>9, <2>2, <2>6
    <3>2. Ends(more, <<>>)
      BY <2>1, <2>2, <2>6 DEF Ends
    <3>3. QED
      BY <2>3, <2>4, <3>1, <3>2, EndsInTails
  <2>7. QED
    BY <2>5, <2>6
<1>12. QED
  BY <1>10, <1>11

\* Without the slash that ends it, a name is its words.
LEMMA Trimmed ==
  ASSUME NEW words \in Seq(Word), NEW end, Ends(words, end), NEW r, r = Ups(words) \o end
  PROVE  /\ (IF Last(r) = "" THEN Front(r) ELSE r) = Ups(words)
         /\ r \in Dirs /\ r # <<>>
<1>1. words \in Dirs
  BY SeqMonotonic DEF Dirs, Word
<1>2. PICK u \in Dirs : u = Ups(words)
  BY <1>1, UpsType
<1>3. CASE end = <<"">>
  <2>1. PICK c \in Part : c = ""
    BY DEF Part
  <2>2. r = Append(u, c)
    BY <1>2, <1>3, <2>1, AppendIsConcat DEF Dirs
  <2>3. QED
    BY <1>2, <2>1, <2>2, AppendLast
<1>4. CASE end = <<>> /\ \E front \in Seq(Word), c \in Word \ {".."} : words = Append(front, c)
  <2>1. PICK front \in Seq(Word), c \in Word \ {".."} : words = Append(front, c)
    BY <1>4
  <2>2. r = u
    BY <1>2, <1>4, ConcatEmptySeq DEF Dirs
  <2>3. front \in Dirs /\ c \in Part
    BY SeqMonotonic DEF Dirs, Word
  <2>4. PICK f \in Dirs, d \in Part : f = Ups(front) /\ d = Up(c)
    BY <2>3, UpsType, UpsOne
  <2>5. u = Append(f, d)
    BY <1>2, <2>1, <2>3, <2>4, UpsAppend
  <2>6. d # ""
    BY <2>4 DEF Up, Word
  <2>7. Last(u) = d /\ u # <<>>
    BY <2>5, AppendLast
  <2>8. QED
    BY <1>2, <2>2, <2>6, <2>7
<1>5. QED
  BY <1>3, <1>4 DEF Ends

\* A word is no name of the root directory, nor the lack of a volume.
LEMMA WordIs == \A v \in Word : v # "" /\ v # NoVolume /\ v # "SYS"
  BY VolumeAssumption DEF Word, Part

\* Where a name of AmigaOS begins.
Base(volume) == IF volume = NoVolume THEN Cwd ELSE <<volume>>

\* name is for AmigaOS what parts are for Unix: the words from a volume on, or from the
\* current directory, lead to dir.
Translates(name, parts, dir) ==
  \/ name = System /\ dir = <<>>
  \/ \E volume \in Word \cup {NoVolume}, words \in Seq(WordsOf(parts)), end \in Tails :
       /\ name = [volume |-> volume, parts |-> Ups(words) \o end]
       /\ Ends(words, end)
       /\ Leads(Base(volume), words, dir)
       /\ volume = NoVolume => words = <<>> \/ words[1] # ".."

\* A volume is a directory, and so is the current one.
LEMMA BaseType == \A volume \in Word \cup {NoVolume} : Base(volume) \in Dirs
<1>1. \A volume \in Word : <<volume>> \in Dirs
  BY UpsOne DEF Word
<1>2. Cwd \in Dirs
  BY VolumeAssumption, SeqMonotonic DEF Dirs, Part
<1>3. QED
  BY <1>1, <1>2 DEF Base

\* The pass for the volume: the first word of an absolute name becomes it.
LEMMA RootedTranslates ==
  ASSUME NEW parts, NEW words \in Seq(WordsOf(parts)), NEW end, Ends(words, end), NEW dir,
         Leads(<<>>, words, dir)
  PROVE  Translates(Rooted((<<"">> \o Ups(words)) \o end), parts, dir)
<1>0. words \in Seq(Word)
  BY WordsAreWords
<1>1. words \in Dirs
  BY WordsAreWords
<1>2. PICK first \in Dirs : first = <<"">>
  BY UpsOne DEF Part
<1>3. end \in Dirs
  BY <1>2, EmptySeq DEF Ends, Dirs
<1>4. PICK u \in Dirs : u = Ups(words)
  BY <1>1, UpsType
<1>5. PICK r \in Dirs : r = u \o end
  <2>1. u \o end \in Dirs
    BY <1>3, ConcatProperties DEF Dirs
  <2>2. QED
    BY <2>1
<1>6. (first \o u) \o end = first \o r
  BY <1>3, <1>5, ConcatAssociative DEF Dirs
<1>7. PICK m \in Nat : m = Len(r)
  BY LenProperties DEF Dirs
<1>8. m # 0
  <2>1. r # <<>>
    BY <1>0, <1>4, <1>5, Trimmed
  <2>2. QED
    BY <1>7, <2>1, EmptySeq DEF Dirs
<1>9. PICK q \in Dirs : /\ q = first \o r /\ Len(q) = 1 + m /\ q[1] = ""
                        /\ \A i \in 1 .. m : q[i + 1] = r[i]
  <2>1. PICK c \in Part : c = ""
    BY DEF Part
  <2>2. m + 1 = 1 + m
    BY SMT
  <2>3. /\ <<c>> \o r \in Dirs /\ Len(<<c>> \o r) = m + 1 /\ (<<c>> \o r)[1] = c
        /\ \A i \in 1 .. m : (<<c>> \o r)[i + 1] = r[i]
    BY <1>7, OneMore
  <2>4. QED
    BY <1>2, <2>1, <2>2, <2>3
<1>10. /\ 1 + m # 1 /\ 1 \in 1 .. m /\ 1 + 1 = 2 /\ (1 + m = 2 <=> m = 1)
  BY <1>8, SMT
<1>11. q[2] = r[1] /\ Len(q) # 1
  BY <1>9, <1>10
<1>12. Rooted(q) = IF r[1] = "" THEN System
                   ELSE [volume |-> r[1],
                         parts  |-> IF m = 1 THEN <<"">> ELSE SubSeq(q, 3, Len(q))]
  BY <1>9, <1>10, <1>11 DEF Rooted
<1>13. CASE words = <<>>
  <2>1. end = <<"">>
    <3>1. \A front \in Seq(Word), c \in Word : words # Append(front, c)
      BY <1>0, <1>13, AppendProperties
    <3>2. QED
      BY <3>1 DEF Ends
  <2>2. Len(u) = 0
    BY <1>1, <1>4, <1>13, UpsType, EmptySeq
  <2>3. u = <<>>
    BY <2>2, EmptySeq DEF Dirs
  <2>4. r = <<"">>
    BY <1>2, <1>5, <2>1, <2>3, ConcatEmptySeq DEF Dirs
  <2>5. Rooted(q) = System
    BY <1>12, <2>4
  <2>6. dir = <<>>
    <3>1. <<>> \in Dirs
      BY EmptySeq DEF Dirs
    <3>2. QED
      BY <1>13, <3>1, LeadsEmpty
  <2>7. QED
    BY <1>2, <1>4, <1>5, <1>6, <1>9, <2>5, <2>6 DEF Translates
<1>14. CASE words # <<>>
  <2>1. PICK k \in Nat : k = Len(words) /\ k # 0
    BY <1>0, <1>14, EmptySeq, LenProperties
  <2>2. PICK v \in Word : v = words[1]
    <3>1. 1 \in 1 .. k
      BY <2>1, SMT
    <3>2. QED
      BY <1>0, <2>1, <3>1, ElementOfSeq
  <2>3. PICK rest \in Seq(WordsOf(parts)) : words = <<v>> \o rest
    <3>1. PICK t \in Seq(WordsOf(parts)) : t = Tail(words)
      BY <1>14, HeadTailProperties
    <3>2. 1 \in 1 .. k /\ k \in 1 .. k /\ 1 + 1 = 2
      BY <2>1, SMT
    <3>3. SubSeq(words, 1, k) = <<words[1]>> \o SubSeq(words, 1 + 1, k)
      BY <2>1, <3>2, SubSeqRecursiveFirst
    <3>4. SubSeq(words, 1, k) = words
      BY <2>1, SubSeqFull
    <3>5. t = SubSeq(words, 2, k)
      BY <1>14, <2>1, <3>1, TailIsSubSeq
    <3>6. QED
      BY <2>2, <3>1, <3>2, <3>3, <3>4, <3>5
  <2>4. rest \in Seq(Word) /\ rest \in Dirs /\ <<v>> \in Dirs /\ v \in Part
    <3>1. rest \in Dirs /\ rest \in Seq(Word)
      BY WordsAreWords
    <3>2. QED
      BY <3>1, UpsOne DEF Word
  <2>5. v # ".." /\ Leads(<<v>>, rest, dir)
    <3>1. Leads(<<>>, <<v>> \o rest, dir)
      BY <2>3
    <3>2. QED
      BY <2>4, <3>1, LeadsFromVolume
  <2>6. PICK h \in Dirs, w \in Dirs : h = <<v>> /\ w = Ups(rest)
    BY <2>4, UpsType
  <2>7. u = h \o w
    <3>1. Up(v) = v
      BY <2>5 DEF Up
    <3>2. Ups(<<v>>) = <<v>>
      BY <2>4, <3>1, UpsOne
    <3>3. Ups(h \o rest) = Ups(h) \o Ups(rest)
      BY <2>4, UpsConcat
    <3>4. QED
      BY <1>4, <2>3, <2>6, <3>2, <3>3
  <2>8. PICK x \in Dirs : x = w \o end
    <3>1. w \o end \in Dirs
      BY <1>3, ConcatProperties DEF Dirs
    <3>2. QED
      BY <3>1
  <2>9. r = h \o x
    <3>1. PICK e \in Seq(Part) : e = end
      BY <1>3 DEF Dirs
    <3>2. h \in Seq(Part) /\ w \in Seq(Part)
      BY DEF Dirs
    <3>3. (h \o w) \o e = h \o (w \o e)
      BY ONLY <3>2, e \in Seq(Part), ConcatAssociative
    <3>4. QED
      BY <1>5, <2>7, <2>8, <3>1, <3>3
  <2>10. PICK j \in Nat : j = Len(x)
    BY LenProperties DEF Dirs
  <2>11. m = 1 + j /\ r[1] = v /\ \A i \in 1 .. j : r[i + 1] = x[i]
    <3>1. j + 1 = 1 + j
      BY SMT
    <3>2. QED
      BY <1>7, <2>4, <2>6, <2>9, <2>10, <3>1, OneMore
  <2>12. v # "" /\ v # NoVolume /\ v # "SYS"
    BY WordIs
  <2> DEFINE p == IF m = 1 THEN <<"">> ELSE SubSeq(q, 3, Len(q))
  <2>13. Rooted(q) = [volume |-> v, parts |-> p]
    BY <1>12, <2>11, <2>12
  <2>14. CASE m = 1
    <3>1. PICK none \in Seq(WordsOf(parts)) : none = <<>>
      BY EmptySeq
    <3>2. rest = <<>>
      <4>1. j = 0
        BY <2>11, <2>14, SMT
      <4>2. x = <<>>
        BY <2>10, <4>1, EmptySeq DEF Dirs
      <4>3. w = <<>>
        <5>1. PICK e \in Seq(Part) : e = end
          BY <1>3 DEF Dirs
        <5>2. w \in Seq(Part) /\ w \o e = <<>>
          BY <2>8, <4>2, <5>1 DEF Dirs
        <5>3. QED
          BY ONLY <5>2, e \in Seq(Part), ConcatEqualIffEmpty
      <4>4. Len(rest) = 0
        BY <2>4, <2>6, <4>3, UpsType, EmptySeq
      <4>5. QED
        BY <2>4, <4>4, EmptySeq DEF Dirs
    <3>3. p = Ups(none) \o <<"">>
      <4>1. Ups(none) = <<>>
        BY <3>1, UpsEmpty
      <4>2. <<>> \o first = first
        BY ConcatEmptySeq DEF Dirs
      <4>3. QED
        BY <1>2, <2>14, <4>1, <4>2
    <3>4. Ends(none, <<"">>)
      BY DEF Ends
    <3>5. Leads(Base(v), none, dir)
      BY <2>5, <2>12, <3>1, <3>2 DEF Base
    <3> HIDE DEF p
    <3>6. Translates([volume |-> v, parts |-> p], parts, dir)
      BY <2>12, <3>3, <3>4, <3>5, EndsInTails DEF Translates
    <3>7. QED
      BY <1>2, <1>4, <1>5, <1>6, <1>9, <2>13, <3>6
  <2>15. CASE m # 1
    <3>1. /\ j \in Nat \ {0} /\ 1 + m = j + 2 /\ 3 <= j + 2 /\ j + 2 - 3 + 1 = j
          /\ j + 2 \in Int /\ 3 \in Int
          /\ \A i \in 1 .. j : 3 + i - 1 = i + 1 + 1 /\ i + 1 \in 1 .. m
      BY <2>11, <2>15, SMT
    <3>2. \A i \in 1 .. j : q[i + 1 + 1] = x[i]
      BY <1>9, <2>11, <3>1
    <3>3. \A i \in 3 .. j + 2 : q[i] \in Part
      <4>1. \A i \in 3 .. j + 2 : i \in 1 .. 1 + m
        BY <3>1, SMT
      <4>2. QED
        BY <1>9, <4>1, ElementOfSeq DEF Dirs
    <3>4. /\ SubSeq(q, 3, j + 2) \in Seq(Part) /\ Len(SubSeq(q, 3, j + 2)) = j
          /\ \A i \in 1 .. j : SubSeq(q, 3, j + 2)[i] = q[3 + i - 1]
      BY <3>1, <3>3, SubSeqProperties
    <3>5. PICK y \in Seq(Part) : y = SubSeq(q, 3, j + 2)
      BY <3>4
    <3>6. \A i \in 1 .. j : y[i] = x[i]
      BY <3>1, <3>2, <3>4, <3>5
    <3>7. y = x
      BY <2>10, <3>4, <3>5, <3>6, SeqEqual DEF Dirs
    <3>8. p = x
      BY <1>9, <2>15, <3>1, <3>5, <3>7
    <3>9. Ends(rest, end)
      <4>1. CASE end = <<"">>
        BY <4>1 DEF Ends
      <4>2. CASE end = <<>> /\ \E front \in Seq(Word), c \in Word \ {".."} : words = Append(front, c)
        <5>1. PICK front \in Seq(Word), c \in Word \ {".."} : words = Append(front, c)
          BY <4>2
        <5>2. rest # <<>>
          <6>1. x = w
            BY <2>8, <4>2, ConcatEmptySeq DEF Dirs
          <6>2. Len(w) = j
            BY <2>10, <6>1
          <6>3. Len(rest) = j
            BY <2>4, <2>6, <6>2, UpsType
          <6>4. QED
            BY <3>1, <6>3, EmptySeq
        <5>3. PICK f \in Seq(Word), e \in Word : rest = Append(f, e)
          BY <2>4, <5>2, SequenceEmptyOrAppend
        <5>4. f \in Dirs /\ e \in Part /\ front \in Dirs /\ c \in Part
          BY SeqMonotonic DEF Dirs, Word
        <5>5. words = Append(h \o f, e)
          <6>1. h \in Dirs /\ f \in Dirs /\ e \in Part
            BY <2>6, <5>4
          <6>2. h \o Append(f, e) = Append(h \o f, e)
            BY <6>1, ConcatAppend
          <6>3. words = h \o rest /\ rest = Append(f, e)
            BY <2>3, <2>6, <5>3
          <6>4. QED
            BY ONLY Zenon, <6>2, <6>3
        <5>6. PICK g \in Dirs : g = h \o f
          <6>1. h \o f \in Dirs
            BY <5>4, ConcatProperties DEF Dirs
          <6>2. QED
            BY <6>1
        <5>7. e = c
          <6>1. Last(Append(front, c)) = c /\ Last(Append(g, e)) = e
            BY <5>4, AppendLast
          <6>2. QED
            BY <5>1, <5>5, <5>6, <6>1
        <5>8. QED
          BY <4>2, <5>1, <5>3, <5>7 DEF Ends
      <4>3. QED
        BY <4>1, <4>2 DEF Ends
    <3>10. Leads(Base(v), rest, dir)
      BY <2>5, <2>12 DEF Base
    <3>11. p = Ups(rest) \o end
      BY <2>6, <2>8, <3>8
    <3> HIDE DEF p
    <3>12. Translates([volume |-> v, parts |-> p], parts, dir)
      BY <2>12, <3>9, <3>10, <3>11, EndsInTails DEF Translates
    <3>13. QED
      BY <1>2, <1>4, <1>5, <1>6, <1>9, <2>13, <3>12
  <2>16. QED
    BY <2>14, <2>15
<1>15. QED
  BY <1>13, <1>14

\* __amigapath() as a whole (__stdiowin.c:40-124).
LEMMA AmigapathTranslates ==
  ASSUME NEW parts \in Dirs, NEW n \in Nat, n = Len(parts), n # 0, ~StartsUp(parts),
         ~LeavesVolume(parts), \A k \in 1 .. n : parts[k] # "SYS"
  PROVE  Translates(Amigapath(Name(parts)), parts, UnixMeaning(parts))
<1>1. PICK words \in Seq(WordsOf(parts)), end \in Tails :
        /\ UpAsEmpty(WithoutDots(OneSlash(parts))) = (Slash(parts) \o Ups(words)) \o end
        /\ Ends(words, end)
        /\ Leads(From(parts), words, UnixMeaning(parts))
        /\ Absolute(parts) \/ words = <<>> \/ words[1] # ".."
  BY PassedOf
<1>0. words \in Seq(Word)
  BY WordsAreWords
<1>2. Amigapath(Name(parts)) = Rooted((Slash(parts) \o Ups(words)) \o end)
  BY <1>1 DEF Amigapath, Name
<1>3. CASE Absolute(parts)
  <2>1. Leads(<<>>, words, UnixMeaning(parts)) /\ Slash(parts) = <<"">>
    BY <1>1, <1>3 DEF From, Slash
  <2>2. QED
    BY <1>1, <1>2, <2>1, RootedTranslates
<1>4. CASE ~Absolute(parts)
  <2>1. words \in Dirs
    BY WordsAreWords
  <2>2. PICK u \in Dirs : u = Ups(words)
    BY <2>1, UpsType
  <2>3. PICK r : r = Ups(words) \o end
    OBVIOUS
  <2>4. (Slash(parts) \o Ups(words)) \o end = r
    <3>1. <<>> \o u = u
      BY ConcatEmptySeq DEF Dirs
    <3>2. QED
      BY <1>4, <2>2, <2>3, <3>1 DEF Slash
  <2>5. /\ (IF Last(r) = "" THEN Front(r) ELSE r) = Ups(words)
        /\ r \in Dirs /\ r # <<>>
    BY <1>0, <1>1, <2>3, Trimmed
  <2>6. Len(r) = 1 \/ r[1] # ""
    <3>1. CASE words = <<>>
      <4>1. \A front \in Seq(Word), c \in Word : words # Append(front, c)
        BY <1>0, <3>1, AppendProperties
      <4>2. end = <<"">>
        BY <1>1, <4>1 DEF Ends
      <4>3. Len(u) = 0
        BY <2>1, <2>2, <3>1, UpsType, EmptySeq
      <4>4. u = <<>>
        BY <4>3, EmptySeq DEF Dirs
      <4>5. PICK e \in Dirs : e = <<"">>
        BY UpsOne DEF Part
      <4>6. <<>> \o e = e
        BY ConcatEmptySeq DEF Dirs
      <4>7. Len(e) = 1
        BY <4>5
      <4>8. QED
        BY <2>2, <2>3, <4>2, <4>4, <4>5, <4>6, <4>7
    <3>2. CASE words # <<>>
      <4>1. PICK k \in Nat : k = Len(words) /\ k # 0
        BY <1>0, <3>2, EmptySeq, LenProperties
      <4>2. 1 \in 1 .. k
        BY <4>1, SMT
      <4>3. PICK v \in Word : v = words[1] /\ v # ".."
        <5>1. words[1] \in Word
          BY <1>0, <4>1, <4>2, ElementOfSeq
        <5>2. words[1] # ".."
          BY <1>1, <1>4, <3>2
        <5>3. QED
          BY <5>1, <5>2
      <4>4. u[1] = v /\ Len(u) = k
        BY <2>1, <2>2, <4>1, <4>2, <4>3, UpsType DEF Up
      <4>5. end \in Dirs
        <5>1. <<"">> \in Dirs
          BY UpsOne DEF Part
        <5>2. <<>> \in Dirs
          BY EmptySeq DEF Dirs
        <5>3. QED
          BY <1>1, <5>1, <5>2 DEF Ends
      <4>6. PICK j \in Nat : j = Len(end)
        BY <4>5, LenProperties DEF Dirs
      <4>7. \A i \in 1 .. k + j : (u \o end)[i] = IF i <= k THEN u[i] ELSE end[i - k]
        BY <4>4, <4>5, <4>6, ConcatProperties DEF Dirs
      <4>8. 1 \in 1 .. k + j /\ 1 <= k
        BY <4>1, SMT
      <4>9. r[1] = v
        BY <2>2, <2>3, <4>4, <4>7, <4>8
      <4>10. QED
        BY <4>3, <4>9, WordIs
    <3>3. QED
      BY <3>1, <3>2
  <2>7. Amigapath(Name(parts)) = Name(r)
    BY <1>2, <2>4, <2>6 DEF Rooted
  <2>8. Leads(Base(NoVolume), words, UnixMeaning(parts))
    BY <1>1, <1>4 DEF From, Base
  <2>9. Name(r) = [volume |-> NoVolume, parts |-> Ups(words) \o end]
    BY <2>3 DEF Name
  <2>10. Translates(Name(r), parts, UnixMeaning(parts))
    BY <1>1, <1>4, <2>8, <2>9 DEF Translates
  <2>11. QED
    BY <2>7, <2>10
<1>5. QED
  BY <1>3, <1>4

\* What is translated is what dos.library finds.
LEMMA TranslatesMeans ==
  ASSUME NEW name, NEW parts, NEW dir, Translates(name, parts, dir)
  PROVE  AmigaMeaning(name) = dir
<1>1. CASE name = System /\ dir = <<>>
  BY <1>1 DEF AmigaMeaning
<1>2. CASE \E volume \in Word \cup {NoVolume}, words \in Seq(WordsOf(parts)), end \in Tails :
              /\ name = [volume |-> volume, parts |-> Ups(words) \o end]
              /\ Ends(words, end)
              /\ Leads(Base(volume), words, dir)
  <2>1. PICK volume \in Word \cup {NoVolume}, words \in Seq(WordsOf(parts)), end \in Tails :
          /\ name = [volume |-> volume, parts |-> Ups(words) \o end]
          /\ Ends(words, end)
          /\ Leads(Base(volume), words, dir)
    BY <1>2
  <2>2. PICK r : r = Ups(words) \o end
    OBVIOUS
  <2>3. (IF Last(r) = "" THEN Front(r) ELSE r) = Ups(words)
    BY <2>1, <2>2, WordsAreWords, Trimmed
  <2>4. volume # "SYS"
    BY WordIs, VolumeAssumption
  <2>5. name.volume = volume /\ name.parts = r /\ name # System
    BY <2>1, <2>2, <2>4 DEF System
  <2>6. AmigaMeaning(name) = AmigaWalk(Base(volume), Ups(words))
    BY <2>3, <2>5 DEF AmigaMeaning, Base
  <2>7. PICK base \in Dirs : base = Base(volume)
    BY BaseType
  <2>8. AmigaWalk(base, Ups(words)) = dir
    BY <2>1, <2>7, WordsAreWords, LeadsAmiga
  <2>9. QED
    BY <2>6, <2>7, <2>8
<1>3. QED
  BY <1>1, <1>2 DEF Translates

----------------------------------------------------------------------------
(* A name without ".." is the same for __amigapath() when it is given to   *)
(* it again.                                                               *)

\* No part is "." or "..", and none is empty, but for the one that a slash is.
Clean(parts) ==
  \/ parts = <<"">>
  \/ parts # <<>> /\ parts \in Seq(Word \ {".."})

\* The parts of a clean name.
LEMMA CleanIs ==
  ASSUME NEW parts, Clean(parts), NEW n, n = Len(parts)
  PROVE  /\ parts \in Dirs /\ n \in Nat \ {0}
         /\ \A i \in 1 .. n : /\ parts[i] \in Part /\ parts[i] # "." /\ parts[i] # ".."
                              /\ parts[i] = "" => i = 1 /\ n = 1
<1>1. CASE parts = <<"">>
  <2>1. parts \in Dirs
    BY <1>1, UpsOne DEF Part
  <2>2. n = 1 /\ parts[1] = ""
    BY <1>1
  <2>3. \A i \in 1 .. 1 : i = 1
    BY SMT
  <2>4. "" \in Part /\ "" # "." /\ "" # ".." /\ 1 \in Nat \ {0}
    BY DEF Part
  <2>5. QED
    BY <2>1, <2>2, <2>3, <2>4
<1>2. CASE parts # <<>> /\ parts \in Seq(Word \ {".."})
  <2>1. parts \in Dirs
    BY <1>2, SeqMonotonic DEF Dirs, Word
  <2>2. n \in Nat \ {0}
    BY <1>2, EmptySeq
  <2>3. \A i \in 1 .. n : parts[i] \in Word \ {".."}
    BY <1>2, ElementOfSeq
  <2>4. \A c \in Word \ {".."} : c \in Part /\ c # "." /\ c # ".." /\ c # ""
    BY DEF Word
  <2>5. QED
    BY <2>1, <2>2, <2>3, <2>4
<1>3. QED
  BY <1>1, <1>2 DEF Clean

\* The passes leave a clean name alone.
LEMMA OneSlashClean ==
  ASSUME NEW parts, Clean(parts)
  PROVE  OneSlash(parts) = parts
<1>1. PICK n \in Nat \ {0} : n = Len(parts)
  BY CleanIs
<1>2. parts \in Dirs /\ \A i \in 1 .. n : parts[i] \in Part /\ (parts[i] = "" => i = 1)
  BY <1>1, CleanIs
<1>3. PICK f : f \in [0 .. n -> Dirs] /\ Keeps(f, parts, n) /\ OneSlash(parts) = f[n]
  BY <1>1, <1>2, OneSlashIs
<1> DEFINE G == {k \in 0 .. n : Len(f[k]) = k /\ \A i \in 1 .. k : f[k][i] = parts[i]}
<1>4. 0 \in G
  <2>1. 0 \in 0 .. n /\ \A i \in 1 .. 0 : FALSE
    BY SMT
  <2>2. f[0] = <<>> /\ Len(<<>>) = 0
    BY <1>3, EmptySeq DEF Keeps
  <2>3. QED
    BY <2>1, <2>2
<1>5. ASSUME NEW k \in 1 .. n, k - 1 \in G
      PROVE  k \in G
  <2>1. /\ k \in 0 .. n /\ k - 1 \in 0 .. n /\ (k - 1) + 1 = k
        /\ \A i \in 1 .. k : i = k \/ i \in 1 .. k - 1
    BY SMT
  <2>2. PICK s \in Dirs : s = f[k - 1] /\ Len(s) = k - 1 /\ \A i \in 1 .. k - 1 : s[i] = parts[i]
    BY <1>3, <1>5, <2>1
  <2>3. PICK c \in Part : c = parts[k]
    BY <1>2
  <2>4. f[k] = Append(s, c)
    BY <1>2, <1>3, <2>2, <2>3 DEF Keeps
  <2>5. /\ Len(Append(s, c)) = (k - 1) + 1 /\ Append(s, c)[(k - 1) + 1] = c
        /\ \A i \in 1 .. k - 1 : Append(s, c)[i] = s[i]
    BY <2>2, AppendProperties DEF Dirs
  <2>6. Len(f[k]) = k /\ f[k][k] = parts[k] /\ \A i \in 1 .. k - 1 : f[k][i] = parts[i]
    BY <2>1, <2>2, <2>3, <2>4, <2>5
  <2>7. QED
    BY <2>1, <2>6
<1> HIDE DEF G
<1>6. \A k \in 0 .. n : k \in G
  BY <1>4, <1>5, Induction
<1>7. n \in 0 .. n
  BY SMT
<1>8. f[n] \in Dirs /\ Len(f[n]) = n /\ \A i \in 1 .. n : f[n][i] = parts[i]
  BY <1>3, <1>6, <1>7 DEF G
<1>9. PICK s \in Seq(Part) : s = f[n]
  BY <1>8 DEF Dirs
<1>10. s = parts
  BY <1>1, <1>2, <1>8, <1>9, SeqEqual DEF Dirs
<1>11. QED
  BY <1>3, <1>9, <1>10

\* There is no "." to take away.
LEMMA UndottedClean ==
  ASSUME NEW parts \in Seq(Part \ {"."})
  PROVE  Undotted(parts) = parts
<1> DEFINE G == {s \in Dirs : Undotted(s) = s}
<1>1. <<>> \in G
  BY UndottedEmpty, EmptySeq DEF Dirs
<1>2. ASSUME NEW s \in Seq(Part \ {"."}), NEW c \in Part \ {"."}, s \in G
      PROVE  Append(s, c) \in G
  BY <1>2, UndottedAppend, AppendLast
<1> HIDE DEF G
<1>3. \A s \in Seq(Part \ {"."}) : s \in G
  BY <1>1, <1>2, SequenceInduction
<1>4. QED
  BY <1>3 DEF G

\* Nor is there a ".." or a slash in front.
LEMMA PassesClean ==
  ASSUME NEW parts, Clean(parts)
  PROVE  /\ UpAsEmpty(WithoutDots(OneSlash(parts))) = parts
         /\ Rooted(parts) = Name(parts)
<1>1. PICK n \in Nat \ {0} : n = Len(parts)
  BY CleanIs
<1>2. /\ parts \in Dirs
      /\ \A i \in 1 .. n : /\ parts[i] \in Part /\ parts[i] # "." /\ parts[i] # ".."
                           /\ parts[i] = "" => i = 1 /\ n = 1
  BY <1>1, CleanIs
<1>3. n \in 1 .. n /\ 1 \in 1 .. n
  BY SMT
<1>4. parts \in Seq(Part \ {"."})
  <2>1. parts \in [1 .. n -> Part]
    BY <1>1, <1>2, LenProperties DEF Dirs
  <2>2. parts \in [1 .. n -> Part \ {"."}]
    BY <1>2, <2>1
  <2>3. QED
    BY <2>2, SeqDef
<1>5. Last(parts) \notin {".", ".."}
  BY <1>1, <1>2, <1>3 DEF Last
<1>6. WithoutDots(OneSlash(parts)) = parts
  BY <1>4, <1>5, OneSlashClean, UndottedClean DEF WithoutDots
<1>7. Ups(parts) = parts
  <2>1. PICK u \in Seq(Part) : u = Ups(parts) /\ Len(u) = n /\ \A i \in 1 .. n : u[i] = Up(parts[i])
    BY <1>1, <1>2, UpsType DEF Dirs
  <2>2. \A i \in 1 .. n : u[i] = parts[i]
    BY <1>2, <2>1 DEF Up
  <2>3. u = parts
    BY <1>1, <1>2, <2>1, <2>2, SeqEqual DEF Dirs
  <2>4. QED
    BY <2>1, <2>3
<1>8. UpAsEmpty(parts) = parts
  <2>1. UpAsEmpty(parts) = Ups(parts) \o <<>>
    BY <1>5 DEF UpAsEmpty, Ups, Up
  <2>2. parts \o <<>> = parts
    BY <1>2, ConcatEmptySeq DEF Dirs
  <2>3. QED
    BY <1>7, <2>1, <2>2
<1>9. Rooted(parts) = Name(parts)
  BY <1>1, <1>2, <1>3 DEF Rooted
<1>10. QED
  BY <1>6, <1>8, <1>9

\* mkdir() strips the slash at the end, and __amigapath() leaves the rest (mkdir.c:27-33).
LEMMA StrippedTranslates ==
  ASSUME NEW name, NEW parts, NEW dir, Translates(name, parts, dir), name # System,
         ".." \notin {parts[i] : i \in 1 .. Len(parts)},
         NEW less, less = [name EXCEPT !.parts = Stripped(@)]
  PROVE  AmigaMeaning(less) = dir /\ Amigapath(less) = less /\ less # System
<1>1. PICK volume \in Word \cup {NoVolume}, words \in Seq(WordsOf(parts)), end \in Tails :
        /\ name = [volume |-> volume, parts |-> Ups(words) \o end]
        /\ Ends(words, end)
        /\ Leads(Base(volume), words, dir)
  BY DEF Translates
<1>2. words \in Seq(Word \ {".."}) /\ words \in Seq(Word) /\ words \in Dirs
  <2>1. WordsOf(parts) \subseteq Word \ {".."}
    BY DEF WordsOf
  <2>2. QED
    BY <2>1, WordsAreWords, SeqMonotonic
<1>3. words = <<>> \/ Clean(words)
  BY <1>2 DEF Clean
<1>4. Ups(words) = words
  <2>1. CASE words = <<>>
    BY <2>1, UpsEmpty
  <2>2. CASE Clean(words)
    <3>1. PICK n \in Nat : n = Len(words)
      BY <1>2, LenProperties
    <3>2. \A i \in 1 .. n : words[i] \in Word \ {".."}
      BY <1>2, <3>1, ElementOfSeq
    <3>3. PICK u \in Dirs : u = Ups(words) /\ Len(u) = n /\ \A i \in 1 .. n : u[i] = Up(words[i])
      BY <1>2, <3>1, UpsType
    <3>4. \A i \in 1 .. n : u[i] = words[i]
      BY <3>2, <3>3 DEF Up
    <3>5. u = words
      BY <1>2, <3>1, <3>3, <3>4, SeqEqual DEF Dirs
    <3>6. QED
      BY <3>3, <3>5
  <2>3. QED
    BY <1>3, <2>1, <2>2
<1>5. PICK p : p = Stripped(words \o end)
  OBVIOUS
<1>6. p = (IF words = <<>> THEN <<"">> ELSE words)
  <2>1. CASE end = <<"">>
    <3>1. PICK c \in Part : c = ""
      BY DEF Part
    <3>2. words \o end = Append(words, c)
      BY <1>2, <2>1, <3>1, AppendIsConcat DEF Dirs
    <3>3. Last(Append(words, c)) = c /\ Front(Append(words, c)) = words
      BY <1>2, AppendLast
    <3>4. PICK n \in Nat : n = Len(words) /\ Len(Append(words, c)) = n + 1
      BY <1>2, LenProperties, AppendProperties DEF Dirs
    <3>5. CASE words = <<>>
      <4>1. Append(<<>>, "") = <<"">> /\ Len(<<"">>) = 1 /\ ~(1 > 1)
        OBVIOUS
      <4>2. PICK q : q = words \o end
        OBVIOUS
      <4>3. q = <<"">>
        BY <3>1, <3>2, <3>5, <4>1, <4>2
      <4>4. Stripped(q) = q
        BY <4>1, <4>3 DEF Stripped
      <4>5. QED
        BY <1>5, <3>5, <4>2, <4>3, <4>4
    <3>6. CASE words # <<>>
      <4>1. n # 0
        BY <1>2, <3>4, <3>6, EmptySeq
      <4>2. n + 1 > 1
        BY <4>1, SMT
      <4>3. QED
        BY <1>5, <3>1, <3>2, <3>3, <3>4, <3>6, <4>2 DEF Stripped
    <3>7. QED
      BY <3>5, <3>6
  <2>2. CASE end = <<>> /\ \E front \in Seq(Word), c \in Word \ {".."} : words = Append(front, c)
    <3>1. PICK front \in Seq(Word), c \in Word \ {".."} : words = Append(front, c)
      BY <2>2
    <3>2. front \in Dirs /\ c \in Part /\ c # ""
      BY SeqMonotonic DEF Dirs, Word
    <3>3. Last(words) = c /\ words # <<>>
      BY <3>1, <3>2, AppendLast
    <3>4. words \o end = words
      BY <1>2, <2>2, ConcatEmptySeq DEF Dirs
    <3>5. QED
      BY <1>5, <3>2, <3>3, <3>4 DEF Stripped
  <2>3. QED
    BY <1>1, <2>1, <2>2 DEF Ends
<1>7. Clean(p)
  BY <1>3, <1>6 DEF Clean
<1>8. less = [volume |-> volume, parts |-> p]
  BY <1>1, <1>4, <1>5
<1>9. volume # "SYS"
  BY WordIs, VolumeAssumption
<1>10. less # System /\ less.volume = volume /\ less.parts = p
  <2>1. less.volume = volume /\ less.parts = p
    BY <1>8
  <2>2. System.volume = "SYS"
    BY DEF System
  <2>3. QED
    BY <1>9, <2>1, <2>2
<1>11. AmigaMeaning(less) = dir
  <2>1. PICK e : Ends(words, e) /\ p = Ups(words) \o e
    <3>1. CASE words = <<>>
      <4>1. PICK first \in Dirs : first = <<"">>
        BY UpsOne DEF Part
      <4>2. <<>> \o first = first
        BY ConcatEmptySeq DEF Dirs
      <4>3. QED
        BY <1>4, <1>6, <3>1, <4>1, <4>2 DEF Ends
    <3>2. CASE words # <<>>
      <4>1. words \o <<>> = words
        BY <1>2, ConcatEmptySeq
      <4>2. PICK front \in Seq(Word \ {".."}), c \in Word \ {".."} : words = Append(front, c)
        BY <1>2, <3>2, SequenceEmptyOrAppend
      <4>3. front \in Seq(Word)
        BY SeqMonotonic
      <4>4. QED
        BY <1>4, <1>6, <3>2, <4>1, <4>2, <4>3 DEF Ends
    <3>3. QED
      BY <3>1, <3>2
  <2>2. CASE volume # NoVolume \/ words = <<>> \/ words[1] # ".."
    <3>1. Translates(less, parts, dir)
      BY <1>1, <1>8, <2>1, <2>2, EndsInTails DEF Translates
    <3>2. QED
      BY <3>1, TranslatesMeans
  <2>3. CASE words # <<>>
    <3>1. PICK k \in Nat : k = Len(words) /\ k # 0
      BY <1>2, <2>3, EmptySeq, LenProperties
    <3>2. 1 \in 1 .. k
      BY <3>1, SMT
    <3>3. words[1] \in Word \ {".."}
      BY <1>2, <3>1, <3>2, ElementOfSeq
    <3>4. QED
      BY <2>2, <3>3
  <2>4. QED
    BY <2>2, <2>3
<1>12. Amigapath(less) = less
  <2>1. UpAsEmpty(WithoutDots(OneSlash(p))) = p /\ Rooted(p) = Name(p)
    BY <1>7, PassesClean
  <2>2. CASE volume = NoVolume
    BY <1>8, <1>10, <2>1, <2>2 DEF Amigapath, Name
  <2>3. CASE volume # NoVolume
    BY <1>8, <1>10, <2>1, <2>3 DEF Amigapath
  <2>4. QED
    BY <2>2, <2>3
<1>13. QED
  BY <1>10, <1>11, <1>12

\* "SYS:" is itself.
LEMMA SystemTranslates == Amigapath(System) = System
<1>1. Clean(<<"">>)
  BY DEF Clean
<1>2. System.volume = "SYS" /\ System.parts = <<"">>
  BY DEF System
<1>3. "SYS" # NoVolume
  BY VolumeAssumption
<1>4. UpAsEmpty(WithoutDots(OneSlash(<<"">>))) = <<"">>
  BY <1>1, PassesClean
<1>5. [System EXCEPT !.parts = <<"">>] = System
  <2>1. PICK t : t = <<"">>
    OBVIOUS
  <2>2. System = [volume |-> "SYS", parts |-> t]
    BY <2>1 DEF System
  <2>3. [[volume |-> "SYS", parts |-> t] EXCEPT !.parts = t] = [volume |-> "SYS", parts |-> t]
    OBVIOUS
  <2>4. QED
    BY <2>1, <2>2, <2>3
<1>6. QED
  BY <1>2, <1>3, <1>4, <1>5 DEF Amigapath

----------------------------------------------------------------------------
(* The names that the calls ask for.                                       *)

\* What __amigapath() makes of a name of the program leads where the name does.
LEMMA NameTranslates ==
  ASSUME NEW parts \in Seq(STRING) \ {<<>>}, Translatable(parts)
  PROVE  Translates(Amigapath(Name(parts)), parts, UnixMeaning(parts))
<1>1. parts \in Dirs
  BY SeqMonotonic DEF Dirs, Part
<1>2. PICK n \in Nat : n = Len(parts) /\ n # 0
  BY EmptySeq, LenProperties
<1>3. \A k \in 1 .. n : parts[k] # "SYS"
  BY <1>2 DEF Translatable
<1>4. QED
  BY <1>1, <1>2, <1>3, AmigapathTranslates DEF Translatable

\* A name that AmigaOS understands as Unix does, if it is there and can be translated.
Proper(x) ==
  \/ x.name \in {NULL, Garbage}
  \/ Translatable(x.means) => AmigaMeaning(x.name) = UnixMeaning(x.means)

AllProper(L) == IsCall(L) /\ \A a \in L.asked : Proper(a)

\* Names are converted, and the program has one.
Converting == s1 \in Places /\ pathconv /\ path \in Paths

\* The names of the program are strings between slashes.
LEMMA ProgramPaths ==
  ASSUME NEW parts \in Paths \cup {Other}
  PROVE  parts \in Seq(STRING) \ {<<>>}
  BY PathAssumption

\* A call begins without having asked.
LEMMA StartProper ==
  ASSUME Converting
  PROVE  IsCall(Start) /\ AllProper(Start)
<1>1. IsCall(Start) /\ Start.asked = {}
  BY StartAsksNothing DEF Converting
<1>2. QED
  BY <1>1 DEF AllProper

\* A call that is the same but for what it holds.
LEMMA SameProper ==
  ASSUME NEW L, AllProper(L), NEW M, Same(L, M)
  PROVE  AllProper(M) /\ IsCall(M) /\ M.ptr = L.ptr
  BY DEF Same, AllProper

\* What is taken and given back changes no name.
LEMMA HeldProper ==
  ASSUME NEW L, AllProper(L), NEW kind
  PROVE  /\ AllProper(Take(L, kind)) /\ Take(L, kind).ptr = L.ptr
         /\ AllProper(Give(L, kind)) /\ Give(L, kind).ptr = L.ptr
         /\ AllProper(Briefly(L, kind)) /\ Briefly(L, kind).ptr = L.ptr
<1>1. IsCall(L)
  BY DEF AllProper
<1>2. QED
  BY <1>1, HeldAlone, SameProper

\* One name more is asked for.
LEMMA AskProper ==
  ASSUME NEW L, AllProper(L), NEW ptr, Proper(ptr)
  PROVE  AllProper(AskFor(L, ptr)) /\ AskFor(L, ptr).ptr = L.ptr
<1> DEFINE a == [name |-> ptr.name, live |-> Live(L, ptr), means |-> ptr.means]
<1>1. a.name = ptr.name /\ a.means = ptr.means
  BY Zenon
<1>2. Proper(a)
  BY <1>1 DEF Proper
<1>3. IsCall(L)
  BY DEF AllProper
<1>4. IsCall(AskFor(L, ptr)) /\ AskFor(L, ptr).ptr = L.ptr /\ AskFor(L, ptr).asked = L.asked \cup {a}
  BY Zenon, <1>3, AskStays
<1> HIDE DEF a
<1>5. \A b \in L.asked : Proper(b)
  BY DEF AllProper
<1>6. QED
  BY <1>2, <1>4, <1>5 DEF AllProper

\* The name in the hands of a call that has converted one.
LEMMA ConvertProper ==
  ASSUME Converting, NEW L, AllProper(L), NEW parts \in Paths \cup {Other}, NEW memory \in BOOLEAN,
         NEW C, C = Convert(L, ProgramName(parts), memory)
  PROVE  /\ AllProper(C) /\ Proper(C.ptr) /\ C.ptr.means = parts
         /\ Failed(C) \/ C.ptr.name = Amigapath(Name(parts))
<1> DEFINE p == ProgramName(parts)
           to == NextPlace[L.s1]
           made == Amigapath(Name(parts))
           n == Pointer("null", NULL, parts)
           q == Pointer(IF made = System THEN "lasts" ELSE to, made, parts)
<1>1. IsCall(L) /\ \A b \in L.asked : Proper(b)
  BY DEF AllProper
<1>2. Gives(L, C, parts)
  BY <1>1, ConvertGives
<1>3. AllProper(C) /\ C.ptr.means = parts
  BY <1>1, <1>2 DEF Gives, AllProper
<1>4. p.at = "lasts" /\ p.name = Name(parts) /\ p.means = parts
  BY DEF ProgramName, Pointer
<1>5. Duplicate(L, p, TRUE) = Name(parts)
  BY <1>4 DEF Duplicate
<1>6. Name(parts) \notin {NULL, Garbage}
  BY NamesAreNames
<1>7. C = IF ~memory THEN [L EXCEPT !.s1 = to, !.ptr = n] ELSE [L EXCEPT !.s1 = to, !.ptr = q]
  BY <1>4, <1>5, <1>6 DEF Convert, ConvertFrom, Converting
<1>8. n.name = NULL /\ q.name = made
  BY DEF Pointer
<1> HIDE DEF p, to, made, n, q
<1>9. C.ptr = n \/ C.ptr = q
  <2>1. \A x : [L EXCEPT !.s1 = to, !.ptr = x].ptr = x
    BY <1>1 DEF IsCall, Fields
  <2>2. QED
    BY Zenon, <1>7, <2>1
<1>10. C.ptr.name \in {NULL, made}
  BY <1>8, <1>9
<1>11. Translatable(parts) => AmigaMeaning(made) = UnixMeaning(parts)
  BY ProgramPaths, NameTranslates, TranslatesMeans DEF made
<1>12. Proper(C.ptr)
  BY <1>3, <1>10, <1>11 DEF Proper
<1>13. QED
  BY <1>3, <1>10, <1>12 DEF Failed, made

\* The name of the program, converted.
LEMMA ConvertedProper ==
  ASSUME Converting, NEW memory \in BOOLEAN, NEW C, C = Converted(memory)
  PROVE  /\ AllProper(C) /\ Proper(C.ptr) /\ C.ptr.means = path
         /\ Failed(C) \/ C.ptr.name = Amigapath(Name(path))
  BY StartProper, ConvertProper DEF Converted, Converting

\* The calls that take one name and convert it.
LEMMA OneNameProper ==
  ASSUME Converting, NEW memory \in BOOLEAN, NEW far
  PROVE  /\ AllProper(Access(memory, far)) /\ AllProper(Unlink(memory))
         /\ AllProper(Chdir(memory, far)) /\ AllProper(Chmod(memory)) /\ AllProper(Chown(memory, far))
         /\ AllProper(Realpath(memory, far)) /\ AllProper(Readlink(memory, far))
<1> PICK C : C = Converted(memory)
  OBVIOUS
<1> PICK A : A = Ask(C)
  OBVIOUS
<1>1. AllProper(C) /\ AllProper(A) /\ A.ptr = C.ptr /\ Proper(A.ptr)
  BY ConvertedProper, AskProper DEF Ask
<1>2. AllProper(Briefly(A, "lock")) /\ AllProper(Take(A, "lock"))
  BY <1>1, HeldProper
<1>3. AllProper(Access(memory, far)) /\ AllProper(Unlink(memory))
  BY Zenon, <1>1, <1>2 DEF Access, Unlink
<1>4. AllProper(Chdir(memory, far)) /\ AllProper(Chmod(memory)) /\ AllProper(Chown(memory, far))
  BY Zenon, <1>1, <1>2 DEF Chdir, Chmod, Chown
<1>5. AllProper(Realpath(memory, far))
  BY Zenon, <1>1, <1>2, StartProper DEF Realpath
<1> PICK K : K = Take(A, "handle")
  OBVIOUS
<1>6. AllProper(K) /\ Proper(K.ptr)
  BY <1>1, HeldProper
<1>7. AllProper(Ask(K))
  BY <1>6, AskProper DEF Ask
<1>8. AllProper(Briefly(Ask(K), "port"))
  BY <1>7, HeldProper
<1>9. AllProper(Readlink(memory, far))
  BY Zenon, <1>1, <1>6, <1>8 DEF Readlink, UnLockHandle
<1>10. QED
  BY <1>3, <1>4, <1>5, <1>9

\* stat() (stat.c:35-47).
LEMMA StatProper ==
  ASSUME Converting, NEW memory \in BOOLEAN, NEW far
  PROVE  AllProper(Stat(memory, far))
<1> PICK C, W, A, K, E, B :
      /\ C = Converted(memory) /\ W = Take(C, "window") /\ A = Ask(W) /\ K = Take(A, "lock")
      /\ E = Examined(K, far) /\ B = IF far = 0 THEN A ELSE Give(E, "lock")
  OBVIOUS
<1>1. AllProper(C) /\ Proper(C.ptr)
  BY ConvertedProper
<1>2. AllProper(W) /\ Proper(W.ptr)
  BY <1>1, HeldProper
<1>3. AllProper(A)
  BY <1>2, AskProper DEF Ask
<1>4. AllProper(K)
  BY <1>3, HeldProper
<1>5. AllProper(E)
  BY <1>4, HeldProper DEF Examined
<1>6. AllProper(B)
  BY <1>3, <1>5, HeldProper
<1>7. AllProper(Give(B, "window"))
  BY <1>6, HeldProper
<1>8. Stat(memory, far) = IF Failed(C) THEN C ELSE Give(B, "window")
  BY Zenon DEF Stat
<1>9. QED
  BY Zenon, <1>1, <1>7, <1>8

\* symlink(), of both names (symlink.c:31-35).
LEMMA SymlinkProper ==
  ASSUME Converting, NEW memory \in BOOLEAN, NEW memory2 \in BOOLEAN
  PROVE  AllProper(Symlink(memory, memory2))
<1> PICK C : C = Converted(memory)
  OBVIOUS
<1> PICK D : D = Convert(C, ProgramName(Other), memory2)
  OBVIOUS
<1>1. AllProper(C) /\ Proper(C.ptr)
  BY ConvertedProper
<1>2. AllProper(D) /\ Proper(D.ptr)
  BY <1>1, ConvertProper
<1>3. AllProper(AskFor(D, D.ptr))
  BY <1>2, AskProper
<1>4. AllProper(AskFor(AskFor(D, D.ptr), C.ptr))
  BY <1>1, <1>3, AskProper
<1>5. QED
  BY Zenon, <1>1, <1>2, <1>4 DEF Symlink

\* rename(), of both names (rename.c:31-50).
LEMMA RenameProper ==
  ASSUME Converting, NEW memory \in BOOLEAN, NEW memory2 \in BOOLEAN, NEW far
  PROVE  AllProper(Rename(memory, memory2, far))
<1> PICK C : C = Convert(Start, ProgramName(Other), memory)
  OBVIOUS
<1>1. AllProper(C) /\ Proper(C.ptr)
  BY StartProper, ConvertProper
<1> PICK p : p = Copied(C.ptr)
  OBVIOUS
<1>2. Proper(p)
  <2>1. Gives(Start, C, Other)
    BY StartProper, ConvertGives
  <2>2. PICK at, name : C.ptr = Pointer(at, name, Other)
    BY <2>1 DEF Gives
  <2>3. p.name = C.ptr.name /\ p.means = C.ptr.means
    BY <2>2 DEF Copied, Pointer
  <2>4. QED
    BY <1>1, <2>3 DEF Proper
<1> PICK T : T = AskFor(C, p)
  OBVIOUS
<1>3. AllProper(T)
  BY <1>1, <1>2, AskProper
<1> PICK D : D = Convert(T, ProgramName(path), memory2)
  OBVIOUS
<1>4. AllProper(D) /\ Proper(D.ptr)
  BY <1>3, ConvertProper DEF Converting
<1>5. AllProper(Ask(D))
  BY <1>4, AskProper DEF Ask
<1>6. AllProper(AskFor(Ask(D), p))
  BY <1>2, <1>5, AskProper
<1>7. AllProper(Briefly(T, "lock"))
  BY <1>3, HeldProper
<1>8. QED
  BY Zenon, <1>3, <1>6, <1>7 DEF Rename

\* opendir() and closedir().
LEMMA OpendirProper ==
  ASSUME Converting, NEW memory \in BOOLEAN, NEW far
  PROVE  AllProper(Opendir(memory, far)) /\ AllProper(Closedir)
<1> PICK C, B, M, K, G :
      /\ C = Converted(memory) /\ B = Take(C, "memory") /\ M = Ask(B) /\ K = Take(M, "lock")
      /\ G = Give(K, "lock")
  OBVIOUS
<1>1. AllProper(C) /\ Proper(C.ptr)
  BY ConvertedProper
<1>2. AllProper(B) /\ Proper(B.ptr)
  BY <1>1, HeldProper
<1>3. AllProper(M)
  BY <1>2, AskProper DEF Ask
<1>4. AllProper(K) /\ AllProper(G)
  BY <1>3, HeldProper
<1>5. AllProper(Give(M, "memory")) /\ AllProper(Give(G, "memory"))
  BY <1>3, <1>4, HeldProper
<1>6. AllProper(Opendir(memory, far))
  BY Zenon, <1>1, <1>4, <1>5 DEF Opendir
<1>7. AllProper(Give(Start, "lock"))
  BY StartProper, HeldProper
<1>8. AllProper(Give(Give(Start, "lock"), "memory"))
  BY <1>7, HeldProper
<1>9. QED
  BY Zenon, <1>6, <1>8 DEF Closedir

\* fnmatch(), of the string.
LEMMA FnmatchProper ==
  ASSUME Converting, NEW memory \in BOOLEAN, NEW far
  PROVE  AllProper(Fnmatch(memory, far))
<1> PICK P, T, C, M, G :
      /\ P = Take(Start, "memory") /\ T = Take(P, "memory")
      /\ C = Convert(T, ProgramName(path), memory) /\ M = IF far = 2 THEN T ELSE Ask(C)
      /\ G = Give(M, "memory")
  OBVIOUS
<1>1. AllProper(P)
  BY StartProper, HeldProper
<1>2. AllProper(T)
  BY <1>1, HeldProper
<1>3. AllProper(C) /\ Proper(C.ptr)
  BY <1>2, ConvertProper DEF Converting
<1>4. AllProper(M)
  BY <1>2, <1>3, AskProper DEF Ask
<1>5. AllProper(G)
  BY <1>4, HeldProper
<1>6. AllProper(Give(P, "memory")) /\ AllProper(Give(G, "memory"))
  BY <1>1, <1>5, HeldProper
<1>7. QED
  BY Zenon, <1>6, StartProper DEF Fnmatch

\* The calls that take no name.
LEMMA NamelessProper ==
  ASSUME Converting, NEW far
  PROVE  AllProper(Getcwd(far)) /\ AllProper(Getpass(far)) /\ AllProper(Dotimer(far))
<1>1. /\ AllProper(Take(Start, "memory")) /\ AllProper(Take(Start, "handle"))
      /\ AllProper(Briefly(Start, "handle"))
  BY StartProper, HeldProper
<1>2. AllProper(Getcwd(far)) /\ AllProper(Getpass(far))
  BY Zenon, <1>1, StartProper DEF Getcwd, Getpass
<1> PICK M, S, D, G, H :
      /\ M = Take(Start, "memory") /\ S = Take(M, "signal") /\ D = Briefly(S, "device")
      /\ G = Give(S, "signal") /\ H = Give(D, "signal")
  OBVIOUS
<1>3. AllProper(M) /\ AllProper(S)
  BY <1>1, HeldProper
<1>4. AllProper(D) /\ AllProper(G)
  BY <1>3, HeldProper
<1>5. AllProper(H)
  BY <1>4, HeldProper
<1>6. AllProper(Give(M, "memory")) /\ AllProper(Give(G, "memory")) /\ AllProper(Give(H, "memory"))
  BY <1>3, <1>4, <1>5, HeldProper
<1>7. AllProper(Dotimer(far))
  BY Zenon, <1>6, StartProper DEF Dotimer
<1>8. QED
  BY <1>2, <1>7

\* Without ".." in it, the name that mkdir() strips is what chmod() makes of it again
\* (mkdir.c:28-33).
GoesUp(parts) == ".." \in {parts[i] : i \in 1 .. Len(parts)}

Settles(x) ==
  /\ x.means = path
  /\ \/ GoesUp(path) \/ ~Translatable(path)
     \/ AmigaMeaning(x.name) = UnixMeaning(path) /\ Amigapath(x.name) = x.name

\* What mkdir() asks for itself.
LEMMA StrippedSettles ==
  ASSUME Converting, NEW memory \in BOOLEAN, NEW C, C = Converted(memory), ~Failed(C),
         NEW S, S = IF C.ptr.name = System THEN C ELSE [C EXCEPT !.ptr.name.parts = Stripped(@)]
  PROVE  S.asked = C.asked /\ IsCall(S) /\ Settles(S.ptr)
<1>1. Gives(Start, C, path)
  BY StartProper, ConvertGives DEF Converted
<1>2. PICK at, name : C.ptr = Pointer(at, name, path) /\ name = C.ptr.name
  BY <1>1 DEF Gives
<1>3. IsCall(C)
  BY <1>1 DEF Gives
<1>4. name = Amigapath(Name(path))
  BY <1>2, ConvertedProper
<1>5. Translatable(path) => Translates(name, path, UnixMeaning(path))
  BY <1>4, ProgramPaths, NameTranslates DEF Converting
<1>6. CASE name = System
  <2>1. S = C
    BY <1>2, <1>6
  <2>2. Translatable(path) => AmigaMeaning(System) = UnixMeaning(path)
    BY <1>5, <1>6, TranslatesMeans
  <2>3. C.ptr.means = path
    BY <1>1 DEF Gives
  <2>4. QED
    BY <1>2, <1>3, <1>6, <2>1, <2>2, <2>3, SystemTranslates DEF Settles
<1>7. CASE name # System
  <2>1. PICK less : less = [name EXCEPT !.parts = Stripped(@)]
    OBVIOUS
  <2>2. PICK p, o : p = C.ptr /\ o = [p EXCEPT !.name.parts = Stripped(@)]
    OBVIOUS
  <2>3. S = [C EXCEPT !.ptr = o]
    BY Zenon, <1>2, <1>7, <2>2
  <2>4. IsCall(S) /\ S.asked = C.asked /\ S.ptr = o
    BY <1>3, <2>3 DEF IsCall, Fields
  <2>5. o.name = less /\ o.means = path
    <3>1. p = Pointer(at, name, path)
      BY <1>2, <2>2
    <3>2. \A n : [Pointer(at, n, path) EXCEPT !.name.parts = Stripped(@)]
                   = Pointer(at, [n EXCEPT !.parts = Stripped(@)], path)
      BY DEF Pointer
    <3>3. o = Pointer(at, less, path)
      BY Zenon, <2>1, <2>2, <3>1, <3>2
    <3>4. QED
      BY <3>3 DEF Pointer
  <2>6. Translatable(path) /\ ~GoesUp(path) =>
          AmigaMeaning(less) = UnixMeaning(path) /\ Amigapath(less) = less
    BY <1>5, <1>7, <2>1, StrippedTranslates DEF GoesUp
  <2>7. QED
    BY <2>4, <2>5, <2>6 DEF Settles
<1>8. QED
  BY <1>6, <1>7

\* What chmod() makes of it.
LEMMA AgainSettles ==
  ASSUME pathconv, NEW L, IsCall(L), Settles(L.ptr), NEW memory \in BOOLEAN, NEW intact,
         NEW D, D = ConvertFrom(L, L.ptr, memory, intact)
  PROVE  /\ IsCall(D) /\ D.asked = L.asked /\ D.ptr.means = path
         /\ GoesUp(path) \/ Proper(D.ptr)
<1> PICK p, to, text : p = L.ptr /\ to = NextPlace[L.s1] /\ text = Duplicate(L, p, intact)
  OBVIOUS
<1> PICK made : made = IF text \in {NULL, Garbage} THEN Garbage ELSE Amigapath(text)
  OBVIOUS
<1> PICK q : q = IF memory THEN Pointer(IF made = System THEN "lasts" ELSE to, made, p.means)
                 ELSE Pointer("null", NULL, p.means)
  OBVIOUS
<1>1. D = [L EXCEPT !.s1 = to, !.ptr = q]
  BY ZenonT(40) DEF ConvertFrom
<1>2. q.name \in {made, NULL} /\ q.means = p.means
  BY DEF Pointer
<1>3. L.s1 \in Places
  BY DEF IsCall
<1>4. to \in Places
  BY <1>3 DEF Places, NextPlace
<1>5. IsCall(D) /\ D.asked = L.asked /\ D.ptr = q
  BY <1>1, <1>4 DEF IsCall, Fields
<1>6. p.means = path
  BY DEF Settles
<1>7. text = p.name \/ text = Garbage
  BY Zenon DEF Duplicate
<1>8. made = Garbage \/ made = Amigapath(p.name)
  BY <1>7
<1>9. GoesUp(path) \/ Proper(q)
  <2>1. CASE q.name \in {NULL, Garbage}
    BY <2>1 DEF Proper
  <2>2. CASE q.name = made /\ made = Amigapath(p.name)
    BY <1>2, <1>6, <2>2 DEF Proper, Settles
  <2>3. QED
    BY <1>2, <1>8, <2>1, <2>2
<1>10. QED
  BY <1>2, <1>5, <1>6, <1>9

\* mkdir() and the chmod() in it ask for the name, but for one that goes up.
LEMMA MkdirProper ==
  ASSUME Converting, NEW memory \in BOOLEAN, NEW memory2 \in BOOLEAN, NEW intact, NEW far
  PROVE  \A a \in Mkdir(memory, memory2, intact, far).asked :
           a.means = path /\ (GoesUp(path) \/ Proper(a))
<1> DEFINE Right(x) == x.means = path /\ (GoesUp(path) \/ Proper(x))
           Found(L) == IsCall(L) /\ \A a \in L.asked : Right(a)
<1>1. \A L, p : Found(L) /\ Right(p) => Found(AskFor(L, p)) /\ AskFor(L, p).ptr = L.ptr
  <2> SUFFICES ASSUME NEW L, NEW p, Found(L), Right(p)
               PROVE  Found(AskFor(L, p)) /\ AskFor(L, p).ptr = L.ptr
    BY Zenon
  <2> DEFINE a == [name |-> p.name, live |-> Live(L, p), means |-> p.means]
  <2>1. a.name = p.name /\ a.means = p.means
    BY Zenon
  <2>2. Right(a)
    BY <2>1 DEF Proper
  <2>3. IsCall(L)
    OBVIOUS
  <2>4. AskFor(L, p).asked = L.asked \cup {a} /\ IsCall(AskFor(L, p)) /\ AskFor(L, p).ptr = L.ptr
    BY Zenon, <2>3, AskStays
  <2> HIDE DEF a, Right
  <2>5. QED
    BY <2>2, <2>4
<1> PICK C : C = Converted(memory)
  OBVIOUS
<1>2. Found(C) /\ Right(C.ptr)
  <2>1. C.asked = {}
    <3>1. Gives(Start, C, path)
      BY StartProper, ConvertGives DEF Converted
    <3>2. Start.asked = {}
      BY StartAsksNothing DEF Converting
    <3>3. QED
      BY <3>1, <3>2 DEF Gives
  <2>2. QED
    BY <2>1, ConvertedProper DEF AllProper
<1> PICK S : S = IF Failed(C) \/ C.ptr.name = System THEN C
                 ELSE [C EXCEPT !.ptr.name.parts = Stripped(@)]
  OBVIOUS
<1>3. CASE Failed(C)
  <2>1. Mkdir(memory, memory2, intact, far) = Ask(C)
    BY Zenon, <1>3 DEF Mkdir
  <2>2. Found(Ask(C))
    BY <1>1, <1>2 DEF Ask
  <2>3. QED
    BY <2>1, <2>2
<1>4. CASE ~Failed(C)
  <2>1. S = IF C.ptr.name = System THEN C ELSE [C EXCEPT !.ptr.name.parts = Stripped(@)]
    BY Zenon, <1>4
  <2>2. S.asked = C.asked /\ IsCall(S) /\ Settles(S.ptr)
    BY <1>4, <2>1, StrippedSettles
  <2>3. Right(S.ptr)
    BY <2>2 DEF Settles, Proper
  <2> HIDE DEF Right
  <2>4. Found(S)
    BY <1>2, <2>2
  <2> HIDE DEF Found
  <2> PICK A : A = Ask(S)
    OBVIOUS
  <2>5. Found(A) /\ A.ptr = S.ptr
    BY <1>1, <2>3, <2>4 DEF Ask
  <2> PICK M : M = Briefly(A, "lock")
    OBVIOUS
  <2>6. Found(M) /\ M.ptr = S.ptr /\ IsCall(M)
    <3>1. IsCall(A)
      BY <2>5 DEF Found
    <3>2. Same(A, M)
      BY <3>1, HeldAlone
    <3>3. QED
      BY <2>5, <3>2 DEF Same, Found
  <2> PICK D : D = ConvertFrom(M, M.ptr, memory2, intact)
    OBVIOUS
  <2>7. IsCall(D) /\ D.asked = M.asked /\ Right(D.ptr)
    <3>1. pathconv /\ IsCall(M) /\ Settles(M.ptr)
      BY <2>2, <2>6 DEF Converting
    <3>2. IsCall(D) /\ D.asked = M.asked /\ D.ptr.means = path /\ (GoesUp(path) \/ Proper(D.ptr))
      BY ONLY <3>1, D = ConvertFrom(M, M.ptr, memory2, intact), AgainSettles
    <3>3. QED
      BY <3>2 DEF Right
  <2>8. Found(D)
    BY <2>6, <2>7 DEF Found
  <2>9. Found(Ask(D))
    BY <1>1, <2>7, <2>8 DEF Ask
  <2>10. Mkdir(memory, memory2, intact, far) = IF far = 0 THEN A ELSE Ask(D)
    BY Zenon, <1>4 DEF Mkdir
  <2>11. Found(Mkdir(memory, memory2, intact, far))
    BY <2>5, <2>9, <2>10
  <2>12. QED
    BY <2>11 DEF Found, Right
<1>5. QED
  BY <1>3, <1>4

----------------------------------------------------------------------------
\* Where names are converted, the program's is one of Paths, and those of the last call are
\* understood: what is preserved.
NamesMean == s1 \in Places /\ (pathconv => path \in Paths) /\ SameMeaning

\* A call that asks for proper names, or does not convert.
LEMMA ProperMeans ==
  ASSUME NEW call, NEW far, NEW L, Does(call, far, L), pathconv' = pathconv,
         call \in NotConverted \/ (pathconv => AllProper(L))
  PROVE  SameMeaning'
<1>1. asked' = L.asked /\ did' = [call |-> call, far |-> far]
  BY DEF Does
<1>2. did'.call = call
  BY <1>1
<1>3. CASE call \in NotConverted
  BY <1>2, <1>3 DEF SameMeaning
<1>4. CASE pathconv => AllProper(L)
  <2>1. pathconv' => \A a \in asked' : Proper(a)
    BY <1>1, <1>4 DEF AllProper
  <2>2. QED
    BY <2>1 DEF SameMeaning, Proper
<1>5. QED
  BY <1>3, <1>4

\* And changes nothing else.
LEMMA OnlyMeans ==
  ASSUME NEW call, NEW far, NEW L, Only(call, far, L),
         call \in NotConverted \/ (pathconv => AllProper(L))
  PROVE  (pathconv' => path' = path) /\ pathconv' = pathconv /\ SameMeaning'
<1>1. Does(call, far, L) /\ pathconv' = pathconv /\ path' = path
  BY DEF Only
<1>2. QED
  BY <1>1, ProperMeans

\* The calls, action by action.
LEMMA NameCallsMean ==
  ASSUME s1 \in Places, pathconv => path \in Paths, NameCalls
  PROVE  SameMeaning' /\ pathconv' = pathconv /\ path' = path
<1> PICK memory \in BOOLEAN :
      \/ \E far \in 0 .. 1 : \/ Only("access", far, Access(memory, far))
                             \/ Only("chdir", far, Chdir(memory, far))
                             \/ Only("link", far, Link(memory, far))
                             \/ Only("realpath", far, Realpath(memory, far))
      \/ \E far \in 0 .. 2 : Only("readlink", far, Readlink(memory, far))
      \/ \E far \in 0 .. 3 : \/ Only("stat", far, Stat(memory, far))
                             \/ Only("chown", far, Chown(memory, far))
                               \/ Only("fnmatch", far, Fnmatch(memory, far))
      \/ Only("unlink", 0, Unlink(memory))
  BY DEF NameCalls
<1>1. \A call, far, L : Only(call, far, L) => path' = path /\ pathconv' = pathconv
  BY DEF Only
<1>2. \A call, far, L : Only(call, far, L) /\ (pathconv => AllProper(L)) => SameMeaning'
  BY OnlyMeans
<1>3. \A far, L : Only("link", far, L) => SameMeaning'
  <2>1. "link" \in NotConverted
    BY DEF NotConverted
  <2>2. QED
    BY <2>1, OnlyMeans
<1>4. pathconv => Converting
  BY DEF Converting
<1>5. \A far : pathconv => /\ AllProper(Access(memory, far)) /\ AllProper(Unlink(memory))
                          /\ AllProper(Chdir(memory, far)) /\ AllProper(Chown(memory, far))
                          /\ AllProper(Realpath(memory, far)) /\ AllProper(Readlink(memory, far))
                          /\ AllProper(Stat(memory, far)) /\ AllProper(Fnmatch(memory, far))
  BY <1>4, OneNameProper, StatProper, FnmatchProper
<1>6. \A far : /\ Only("access", far, Access(memory, far)) => SameMeaning'
               /\ Only("chdir", far, Chdir(memory, far)) => SameMeaning'
               /\ Only("realpath", far, Realpath(memory, far)) => SameMeaning'
               /\ Only("readlink", far, Readlink(memory, far)) => SameMeaning'
               /\ Only("stat", far, Stat(memory, far)) => SameMeaning'
               /\ Only("chown", far, Chown(memory, far)) => SameMeaning'
               /\ Only("fnmatch", far, Fnmatch(memory, far)) => SameMeaning'
               /\ Only("unlink", far, Unlink(memory)) => SameMeaning'
  BY <1>2, <1>5
<1>7. \A far : Only("link", far, Link(memory, far)) => SameMeaning'
  BY <1>3
<1>8. SameMeaning'
  BY <1>6, <1>7
<1>9. QED
  BY <1>1, <1>8

\* symlink(), rename() and popen().
LEMMA TwoNameCallsMean ==
  ASSUME s1 \in Places, pathconv => path \in Paths, TwoNameCalls
  PROVE  SameMeaning' /\ pathconv' = pathconv /\ path' = path
<1> PICK memory \in BOOLEAN, memory2 \in BOOLEAN :
      \/ Only("symlink", 0, Symlink(memory, memory2))
      \/ \E far \in 0 .. 2 : Only("rename", far, Rename(memory, memory2, far))
      \/ \E far \in 0 .. 3 : Only("popen", far, Popen(memory, memory2, far))
  BY DEF TwoNameCalls
<1>1. PICK call, far, L :
        /\ Only(call, far, L)
        /\ L = Symlink(memory, memory2) \/ L = Rename(memory, memory2, far) \/ call = "popen"
  OBVIOUS
<1>2. call \in NotConverted \/ (pathconv => AllProper(L))
  BY <1>1, SymlinkProper, RenameProper DEF Converting, NotConverted
<1>3. path' = path /\ pathconv' = pathconv
  BY <1>1 DEF Only
<1>4. QED
  BY <1>1, <1>2, <1>3, OnlyMeans

\* The calls without a name.
LEMMA OtherCallsMean ==
  ASSUME s1 \in Places, pathconv => path \in Paths, OtherCalls
  PROVE  SameMeaning' /\ pathconv' = pathconv /\ path' = path
<1>1. PICK call, far, L :
        /\ Only(call, far, L)
        /\ call = "truncate" \/ L \in {Getcwd(far), Getpass(far), Dotimer(far)}
  BY DEF OtherCalls
<1>2. call \in NotConverted \/ (pathconv => AllProper(L))
  BY <1>1, NamelessProper DEF NotConverted, Converting
<1>3. path' = path /\ pathconv' = pathconv
  BY <1>1 DEF Only
<1>4. QED
  BY <1>1, <1>2, <1>3, OnlyMeans

\* mkdir(), where a name that goes up is the exception.
LEMMA MkdirMeans ==
  ASSUME s1 \in Places, pathconv => path \in Paths, MkdirCall
  PROVE  SameMeaning' /\ pathconv' = pathconv /\ (pathconv => path' = path)
<1>1. PICK memory \in BOOLEAN, memory2 \in BOOLEAN, intact \in BOOLEAN, far \in 0 .. 1 :
        Does("mkdir", far, Mkdir(memory, memory2, intact, far))
  BY DEF MkdirCall
<1>2. pathconv' = pathconv /\ (pathconv => path' = path)
  BY DEF MkdirCall
<1> PICK L : L = Mkdir(memory, memory2, intact, far)
  OBVIOUS
<1>3. pathconv => \A a \in L.asked : a.means = path /\ (GoesUp(path) \/ Proper(a))
  BY MkdirProper DEF Converting
<1>4. asked' = L.asked /\ did' = [call |-> "mkdir", far |-> far]
  BY <1>1 DEF Does
<1>5. did'.call = "mkdir"
  BY <1>4
<1>6. pathconv' => \A a \in asked' : Proper(a) \/ GoesUp(a.means)
  BY <1>2, <1>3, <1>4
<1>7. SameMeaning'
  BY <1>5, <1>6 DEF SameMeaning, Proper, GoesUp
<1>8. QED
  BY <1>2, <1>7

\* chmod(); utimes() converts nothing.
LEMMA ChmodAndUtimesMean ==
  ASSUME s1 \in Places, pathconv => path \in Paths, ChmodCall \/ UtimesCall
  PROVE  SameMeaning' /\ pathconv' = pathconv /\ path' = path
<1>1. pathconv' = pathconv /\ path' = path
  BY DEF ChmodCall, UtimesCall
<1>2. CASE ChmodCall
  <2>1. PICK memory \in BOOLEAN, far \in 0 .. 1 : Does("chmod", far, Chmod(memory))
    BY <1>2 DEF ChmodCall
  <2>2. pathconv => AllProper(Chmod(memory))
    BY OneNameProper DEF Converting
  <2>3. QED
    BY <1>1, <2>1, <2>2, ProperMeans
<1>3. CASE UtimesCall
  <2>1. PICK far : Does("utimes", far, Utimes)
    BY <1>3 DEF UtimesCall
  <2>2. "utimes" \in NotConverted
    BY DEF NotConverted
  <2>3. QED
    BY <1>1, <2>1, <2>2, ProperMeans
<1>4. QED
  BY <1>2, <1>3

\* opendir(), closedir() and exit().
LEMMA DirCallsMean ==
  ASSUME s1 \in Places, pathconv => path \in Paths, OpendirCall \/ ClosedirCall \/ Exit
  PROVE  SameMeaning' /\ pathconv' = pathconv /\ path' = path
<1>1. pathconv' = pathconv /\ path' = path
  BY DEF OpendirCall, ClosedirCall, Exit
<1>2. CASE OpendirCall
  <2>1. PICK memory \in BOOLEAN, far \in 0 .. 3 : Does("opendir", far, Opendir(memory, far))
    BY <1>2 DEF OpendirCall
  <2>2. pathconv => AllProper(Opendir(memory, far))
    BY OpendirProper DEF Converting
  <2>3. QED
    BY <1>1, <2>1, <2>2, ProperMeans
<1>3. CASE ClosedirCall
  <2>1. Does("closedir", 0, Closedir)
    BY <1>3 DEF ClosedirCall
  <2>2. TRUE \in BOOLEAN
    OBVIOUS
  <2>3. pathconv => AllProper(Closedir)
    BY <2>2, OpendirProper DEF Converting
  <2>4. QED
    BY <1>1, <2>1, <2>3, ProperMeans
<1>4. CASE Exit
  <2> PICK L : L = [Start EXCEPT !.held["lock"] = @ - 1 - dirs, !.held["memory"] = @ - dirs]
    OBVIOUS
  <2>1. Does("exit", 0, L)
    BY Zenon, <1>4 DEF Exit
  <2>2. L.asked = {} /\ L.s1 = s1 /\ DOMAIN L = Fields
    BY DEF Start, Fields
  <2>3. AllProper(L)
    BY <2>2 DEF AllProper, IsCall
  <2>4. QED
    BY <1>1, <2>1, <2>3, ProperMeans
<1>5. QED
  BY <1>2, <1>3, <1>4

\* The step of the induction.
LEMMA MeanStep == NamesLive /\ NamesMean /\ [Next]_vars => NamesMean'
<1> SUFFICES ASSUME NamesLive, NamesMean, [Next]_vars PROVE NamesMean'
  OBVIOUS
<1>1. s1' \in Places
  BY LiveStep DEF NamesLive
<1>2. CASE Next
  <2>1. s1 \in Places /\ (pathconv => path \in Paths)
    BY DEF NamesMean
  <2>2. SameMeaning' /\ pathconv' = pathconv /\ (pathconv => path' = path)
    BY <1>2, <2>1, NameCallsMean, TwoNameCallsMean, OtherCallsMean, MkdirMeans, ChmodAndUtimesMean,
       DirCallsMean DEF Next
  <2>3. QED
    BY <1>1, <2>1, <2>2 DEF NamesMean
<1>3. CASE UNCHANGED vars
  BY <1>1, <1>3 DEF vars, NamesMean, SameMeaning
<1>4. QED
  BY <1>2, <1>3

\* For all names that can be translated, of any length, and any number of calls: what
\* dos.library finds is what Unix means (__stdiowin.c:40-124), but for mkdir() of a name
\* that goes up (mkdir.c:33).
THEOREM MeaningIsKept == Spec => []SameMeaning
<1>1. Init => NamesLive /\ NamesMean
  BY DEF Init, NamesLive, NamesMean, LiveNames, SameMeaning, Places
<1>2. NamesLive /\ NamesMean /\ [Next]_vars => (NamesLive /\ NamesMean)'
  BY LiveStep, MeanStep
<1>3. NamesMean => SameMeaning
  BY DEF NamesMean
<1>4. QED
  BY <1>1, <1>2, <1>3, PTL DEF Spec
=============================================================================
