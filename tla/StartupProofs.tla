--------------------------- MODULE StartupProofs ---------------------------
(***************************************************************************)
(* Proofs about Startup, for every set of locks, and for any number of     *)
(* handlers and of calls of exit(): what the program has when its last     *)
(* fini function has returned, and that none of them used what was not     *)
(* there.  The invariant says what is held after each function of the two  *)
(* lists.                                                                  *)
(***************************************************************************)
EXTENDS Startup, TLAPS

InitFunctions == DOMAIN InitPriority
FiniFunctions == DOMAIN FiniPriority

AnyLock == Locks \cup {Launcher, Icon, NoLock}

OsTypes ==
  [locks : SUBSET AnyLock, cwd : AnyLock, input : {"launcher", "window"}, window : BOOLEAN,
   blocks : SUBSET Blocks, pool : BOOLEAN, base : BOOLEAN, socket : BOOLEAN, sem : BOOLEAN]

LibTypes ==
  [cd : AnyLock, window : BOOLEAN, command : SUBSET Blocks, oldlock : AnyLock,
   havelock : BOOLEAN, dirlist : BOOLEAN, dirs : SUBSET Locks, fp : BOOLEAN,
   stdin : {"none", "launcher", "window"}, SocketBase : BOOLEAN]

\* That of faults is part of FaultsOnlyEarly.
TypeOK ==
  /\ start \in [wb : BOOLEAN, args : BOOLEAN, window : BOOLEAN]
  /\ mode \in {"init", "main", "dtors", "handler", "fini", "returned", "wild"}
  /\ done \subseteq InitFunctions \cup FiniFunctions
  /\ os \in OsTypes
  /\ lib \in LibTypes
  /\ handlers \in Nat

\* The fini function f has given back what it gives back.
Given(f) == mode \in {"fini", "returned"} /\ f \in done

\* Of the fini list those were called that come first, and none when a handler runs.
ListOrder ==
  /\ mode = "handler" => done = {}
  /\ mode = "returned" => done = FiniFunctions
  /\ mode = "fini" =>
       /\ done \subseteq FiniFunctions
       /\ \A f \in done, g \in FiniFunctions \ done : FiniPriority[f] >= FiniPriority[g]

\* What the init functions that were called have left, and no other.
InitPhase ==
  mode = "init" =>
    /\ "__init_fd" \in done => "__initmalloc" \in done /\ os.pool
    /\ lib.fp <=> "__init_fd" \in done
    /\ os.sem <=> "__init_sem" \in done
    /\ lib.dirlist <=> "_INIT_5_dirlist" \in done
    /\ lib.havelock <=> "__initchdir" \in done
    /\ "_INIT_5_dirlist" \in done =>
         {"__initmalloc", "__init_fd", "__init_sem", "__initcommandline"} \subseteq done
    /\ "__initchdir" \in done => "_INIT_5_dirlist" \in done
    /\ IF "__initcommandline" \in done
       THEN start.wb /\ start.args => lib.cd = Launcher
       ELSE lib.cd = NoLock /\ ~lib.window /\ lib.command = {}
    /\ ~lib.SocketBase /\ lib.dirs = {} /\ handlers = 0

\* exit() can have been called.
Ended == mode \notin {"init", "wild"}

\* What is held apart from locks, and what the static variables say of it.
ThingsHeld ==
  /\ Ended => IF Given("__exitmalloc") THEN ~os.pool ELSE lib.dirlist => os.pool
  /\ Ended => IF Given("__exit_sem") THEN ~os.sem ELSE lib.dirlist => os.sem
  /\ Ended => IF lib.dirlist THEN lib.fp /\ (start.wb /\ start.args => lib.cd = Launcher)
                             ELSE lib.dirs = {} /\ ~lib.havelock
  /\ mode # "wild" =>
       /\ os.base <=> lib.SocketBase /\ ~Given("_EXIT_4_bsdsocket")
       /\ os.socket => lib.SocketBase /\ ~Given("__exit_fd")
       /\ os.window <=> lib.window /\ ~Given("__exitcommandline")
       /\ os.blocks = IF Given("__exitcommandline") THEN {} ELSE lib.command
       /\ IF start.wb THEN lib.command = {} ELSE ~lib.window
       /\ Given("doexit") => handlers = 0

\* The program is in the directory of its icon; it ended before it could be, so that
\* __exitcommandline() unlocks the directory of the launcher; where __exitchdir() goes.
Entered == lib.cd = Launcher
Lost == EndedEarly /\ start.wb /\ start.args
Home == IF lib.havelock THEN lib.oldlock ELSE os.cwd

\* The locks of open DIRs, that of chdir(), that of the directory of the icon.
DirsHeld == IF Given("_EXIT_5_dirlist") THEN {} ELSE lib.dirs
CwdHeld == IF lib.havelock /\ ~Given("__exitchdir") THEN {os.cwd} ELSE {}
HomeHeld == IF Entered /\ ~Given("__exitcommandline") THEN {Home} \ {NoLock} ELSE {}

\* These are the locks that are held, no two of them the same.
LocksHeld ==
  mode # "wild" /\ ~Lost =>
    /\ os.locks = {Launcher, Icon} \cup DirsHeld \cup CwdHeld \cup HomeHeld
    /\ DirsHeld \subseteq Locks /\ CwdHeld \subseteq Locks /\ HomeHeld \subseteq Locks
    /\ DirsHeld \cap CwdHeld = {} /\ HomeHeld \cap (DirsHeld \cup CwdHeld) = {}
    /\ lib.cd \in {NoLock, Launcher}
    /\ Entered => start.wb /\ start.args
    /\ ~Entered /\ lib.havelock => lib.oldlock = Launcher
    /\ ~Entered /\ ~lib.havelock => os.cwd = Launcher
    /\ Given("__exitchdir") /\ ~Given("__exitcommandline") /\ lib.havelock => os.cwd = lib.oldlock
    /\ Given("__exitcommandline") => os.cwd = Launcher

IInv == TypeOK /\ ListOrder /\ InitPhase /\ ThingsHeld /\ LocksHeld /\ FaultsOnlyEarly

\* The init functions and the priorities their order follows from.
LEMMA InitNumbers ==
  /\ InitFunctions = {"__initmalloc", "__init_fd", "__init_sem", "__initcommandline",
       "__initamigapath", "_INIT_3_progname", "_INIT_5_dirlist", "__initchdir", "__inittimer"}
  /\ InitPriority["__initmalloc"] = 110 /\ InitPriority["__init_fd"] = 130
  /\ InitPriority["__init_sem"] = 140 /\ InitPriority["__initcommandline"] = 150
  /\ InitPriority["_INIT_5_dirlist"] = 180 /\ InitPriority["__initchdir"] = 190
  BY DEF InitFunctions, InitPriority

\* The fini functions and theirs.
LEMMA FiniNumbers ==
  /\ FiniFunctions = {"doexit", "__exitchdir", "_EXIT_5_dirlist", "__exitcommandline",
       "__exit_sem", "__exit_fd", "_EXIT_4_bsdsocket", "__exitmalloc"}
  /\ FiniPriority["doexit"] = 210 /\ FiniPriority["__exitchdir"] = 190
  /\ FiniPriority["_EXIT_5_dirlist"] = 180 /\ FiniPriority["__exitcommandline"] = 150
  /\ FiniPriority["__exit_sem"] = 140 /\ FiniPriority["__exit_fd"] = 130
  /\ FiniPriority["_EXIT_4_bsdsocket"] = 120 /\ FiniPriority["__exitmalloc"] = 110
  BY DEF FiniFunctions, FiniPriority, Fini

\* What was called before an init function that needs it (callfuncs()).
LEMMA InitOrder ==
  /\ Initialising("__init_fd") => "__initmalloc" \in done
  /\ Initialising("__initcommandline") => "__initmalloc" \in done
  /\ Initialising("_INIT_5_dirlist") =>
       {"__initmalloc", "__init_fd", "__init_sem", "__initcommandline"} \subseteq done
  /\ Initialising("__initchdir") => {"__initmalloc", "_INIT_5_dirlist"} \subseteq done
  BY InitNumbers DEF Initialising, InitFunctions

\* What was called before a fini function.
LEMMA FiniOrder ==
  /\ Finishing("__exitchdir") => "doexit" \in done
  /\ Finishing("_EXIT_5_dirlist") => "__exitchdir" \in done
  /\ Finishing("__exitcommandline") => {"__exitchdir", "_EXIT_5_dirlist"} \subseteq done
  BY FiniNumbers DEF Finishing, FiniFunctions

\* What CurrentDir() leaves alone.
OtherFields(o, p) ==
  /\ o.input = p.input /\ o.window = p.window /\ o.blocks = p.blocks /\ o.pool = p.pool
  /\ o.base = p.base /\ o.socket = p.socket /\ o.sem = p.sem

\* CurrentDir(l) with a new lock, and UnLock(CurrentDir(l)).
LEMMA EnterDoes ==
  ASSUME os \in OsTypes, NEW l \in Locks
  PROVE  /\ Enter(l) \in OsTypes
         /\ Enter(l).locks = os.locks \cup {l} /\ Enter(l).cwd = l
         /\ OtherFields(Enter(l), os)
  <1>1. os.locks \cup {l} \in SUBSET AnyLock /\ l \in AnyLock
    BY DEF OsTypes, AnyLock
  <1>2. Enter(l) \in OsTypes
    BY <1>1 DEF OsTypes, Enter
  <1> QED
    BY <1>2 DEF OsTypes, Enter, OtherFields

LEMMA LeaveDoes ==
  ASSUME NEW o \in OsTypes, NEW l \in AnyLock
  PROVE  /\ Leave(o, l) \in OsTypes
         /\ Leave(o, l).locks = o.locks \ {os.cwd} /\ Leave(o, l).cwd = l
         /\ OtherFields(Leave(o, l), o)
  <1>1. o.locks \ {os.cwd} \in SUBSET AnyLock
    BY DEF OsTypes
  <1>2. Leave(o, l) \in OsTypes
    BY <1>1 DEF OsTypes, Leave
  <1> QED
    BY <1>2 DEF OsTypes, Leave, OtherFields
\* A fini function that is called has those of a lower priority still before it, and the
\* list stays in order.
LEMMA FiniStep ==
  ASSUME NEW f \in FiniFunctions, ListOrder, Finishing(f)
  PROVE  /\ \A g \in FiniFunctions : FiniPriority[g] < FiniPriority[f] => g \notin done
         /\ done' = done \cup {f} /\ mode' = mode => ListOrder'
  <1>1. FiniPriority \in [FiniFunctions -> Int]
    BY FiniNumbers DEF FiniFunctions, FiniPriority, Fini
  <1> QED
    BY <1>1 DEF ListOrder, Finishing, FiniFunctions

----------------------------------------------------------------------------
\* The init functions.

LEMMA InitMallocStep == ASSUME IInv, InitMalloc PROVE IInv'
  <1> USE DEF InitMalloc, rest, Returns, Strays, Exit, Initialising, NewLocks, Enter
  <1>1. TypeOK'
    <2>1. os' \in OsTypes
      BY DEF IInv, TypeOK, OsTypes
    <2>2. lib' \in LibTypes
      BY DEF IInv, TypeOK
    <2>3. done' \subseteq InitFunctions \cup FiniFunctions
      BY InitNumbers DEF IInv, TypeOK
    <2> QED
      BY <2>1, <2>2, <2>3 DEF IInv, TypeOK
  <1>2. ListOrder'
    BY DEF ListOrder
  <1>3. InitPhase'
    BY DEF IInv, InitPhase
  <1>4. ThingsHeld'
    BY DEF IInv, ThingsHeld, Ended, Given
  <1>5. LocksHeld'
    BY DEF IInv, Given, LocksHeld, Lost, EndedEarly, Entered, DirsHeld, CwdHeld, HomeHeld,
       Home
  <1>6. FaultsOnlyEarly'
    BY DEF IInv, FaultsOnlyEarly, EndedEarly
  <1> QED
    BY <1>1, <1>2, <1>3, <1>4, <1>5, <1>6 DEF IInv

LEMMA InitFdStep == ASSUME IInv, InitFd PROVE IInv'
  <1> USE DEF InitFd, Needs, rest, Returns, Strays, Exit, Initialising, NewLocks, Enter
  <1>1. CASE os.pool /\ Returns("__init_fd") /\ lib' = [lib EXCEPT !.fp = TRUE, !.stdin = os.input]
    <2>1. TypeOK'
      <3>1. os' \in OsTypes
        BY <1>1 DEF IInv, TypeOK
      <3>2. lib' \in LibTypes
        BY <1>1 DEF IInv, TypeOK, OsTypes, LibTypes
      <3>3. done' \subseteq InitFunctions \cup FiniFunctions
        BY InitNumbers, <1>1 DEF IInv, TypeOK
      <3> QED
        BY <3>1, <3>2, <3>3, <1>1 DEF IInv, TypeOK
    <2>2. ListOrder'
      BY <1>1 DEF ListOrder
    <2>3. InitPhase'
      BY InitOrder, <1>1 DEF IInv, InitPhase
    <2>4. ThingsHeld'
      BY <1>1 DEF IInv, ThingsHeld, Ended, Given
    <2>5. LocksHeld'
      BY <1>1 DEF IInv, Given, LocksHeld, Lost, EndedEarly, Entered, DirsHeld, CwdHeld,
         HomeHeld, Home
    <2>6. FaultsOnlyEarly'
      BY <1>1 DEF IInv, FaultsOnlyEarly, EndedEarly
    <2> QED
      BY <2>1, <2>2, <2>3, <2>4, <2>5, <2>6 DEF IInv
  <1>2. CASE Exit /\ UNCHANGED lib
    <2>1. TypeOK'
      BY <1>2 DEF IInv, TypeOK
    <2>2. ListOrder'
      BY <1>2 DEF ListOrder
    <2>3. InitPhase'
      BY <1>2 DEF InitPhase
    <2>4. ThingsHeld'
      BY InitNumbers, InitOrder, <1>2 DEF IInv, InitPhase, ThingsHeld, Ended, Given
    <2>5. LocksHeld'
      BY <1>2 DEF IInv, Given, LocksHeld, Lost, EndedEarly, Entered, DirsHeld, CwdHeld,
         HomeHeld, Home
    <2>6. FaultsOnlyEarly'
      BY <1>2 DEF IInv, InitPhase, FaultsOnlyEarly, EndedEarly
    <2> QED
      BY <2>1, <2>2, <2>3, <2>4, <2>5, <2>6 DEF IInv
  <1>3. CASE mode' = "wild" /\ UNCHANGED <<done, exits, lib>>
    <2>1. TypeOK'
      BY <1>3 DEF IInv, TypeOK
    <2>2. ListOrder' /\ InitPhase' /\ LocksHeld'
      BY <1>3 DEF ListOrder, InitPhase, LocksHeld
    <2>3. ThingsHeld'
      BY <1>3 DEF ThingsHeld, Ended
    <2>4. FaultsOnlyEarly'
      BY <1>3 DEF IInv, InitPhase, FaultsOnlyEarly, EndedEarly
    <2> QED
      BY <2>1, <2>2, <2>3, <2>4 DEF IInv
  <1> QED
    BY <1>1, <1>2, <1>3

LEMMA InitSemStep == ASSUME IInv, InitSem PROVE IInv'
  <1> USE DEF InitSem, rest, Returns, Strays, Exit, Initialising, NewLocks, Enter
  <1>1. TypeOK'
    <2>1. os' \in OsTypes
      BY DEF IInv, TypeOK, OsTypes
    <2>2. lib' \in LibTypes
      BY DEF IInv, TypeOK
    <2>3. done' \subseteq InitFunctions \cup FiniFunctions
      BY InitNumbers DEF IInv, TypeOK
    <2> QED
      BY <2>1, <2>2, <2>3 DEF IInv, TypeOK
  <1>2. ListOrder'
    BY DEF ListOrder
  <1>3. InitPhase'
    BY DEF IInv, InitPhase
  <1>4. ThingsHeld'
    BY DEF IInv, ThingsHeld, Ended, Given
  <1>5. LocksHeld'
    BY DEF IInv, Given, LocksHeld, Lost, EndedEarly, Entered, DirsHeld, CwdHeld, HomeHeld,
       Home
  <1>6. FaultsOnlyEarly'
    BY DEF IInv, FaultsOnlyEarly, EndedEarly
  <1> QED
    BY <1>1, <1>2, <1>3, <1>4, <1>5, <1>6 DEF IInv

LEMMA InitWorkbenchStep == ASSUME IInv, InitWorkbench PROVE IInv'
  <1> USE DEF rest, Returns, Initialising, OtherFields
  <1>1. os \in OsTypes /\ lib \in LibTypes /\ start \in [wb : BOOLEAN, args : BOOLEAN, window : BOOLEAN]
    BY DEF IInv, TypeOK
  <1>2. /\ Initialising("__initcommandline") /\ start.wb
        /\ done' = done \cup {"__initcommandline"}
        /\ UNCHANGED <<start, mode, handlers, faults>>
    BY DEF InitWorkbench
  <1>3. /\ lib' \in LibTypes
        /\ lib'.window = start.window /\ lib'.cd = IF start.args THEN os.cwd ELSE lib.cd
        /\ lib'.command = lib.command /\ lib'.oldlock = lib.oldlock
        /\ lib'.havelock = lib.havelock /\ lib'.dirlist = lib.dirlist /\ lib'.dirs = lib.dirs
        /\ lib'.fp = lib.fp /\ lib'.SocketBase = lib.SocketBase
    BY <1>1 DEF InitWorkbench, OsTypes, LibTypes
  <1>4. PICK o \in IF start.args THEN {Enter(l) : l \in NewLocks} \cup {[os EXCEPT !.cwd = NoLock]}
                                ELSE {os} :
          os' = IF start.window THEN [o EXCEPT !.window = TRUE, !.input = "window"] ELSE o
    BY DEF InitWorkbench
  <1>5. /\ o \in OsTypes /\ OtherFields(o, os)
        /\ \/ ~start.args /\ o.locks = os.locks /\ o.cwd = os.cwd
           \/ start.args /\ o.locks = os.locks /\ o.cwd = NoLock
           \/ start.args /\ \E l \in Locks \ os.locks : o.locks = os.locks \cup {l} /\ o.cwd = l
    <2>1. CASE ~start.args
      BY <1>1, <1>4, <2>1
    <2>2. CASE start.args /\ o = [os EXCEPT !.cwd = NoLock]
      BY <1>1, <2>2 DEF OsTypes, AnyLock
    <2>3. ASSUME start.args, NEW l \in NewLocks, o = Enter(l)
          PROVE  o \in OsTypes /\ OtherFields(o, os) /\ o.locks = os.locks \cup {l} /\ o.cwd = l
      BY <1>1, <2>3, EnterDoes DEF NewLocks
    <2> QED
      BY <1>4, <2>1, <2>2, <2>3 DEF NewLocks
  <1>6. /\ os' \in OsTypes
        /\ os'.locks = o.locks /\ os'.cwd = o.cwd /\ os'.blocks = os.blocks
        /\ os'.window <=> start.window \/ os.window
        /\ os'.pool = os.pool /\ os'.base = os.base /\ os'.socket = os.socket /\ os'.sem = os.sem
    BY <1>1, <1>4, <1>5 DEF OsTypes
  <1>7. /\ ~lib.havelock /\ lib.dirs = {} /\ lib.cd = NoLock
        /\ os.cwd = Launcher /\ os.locks = {Launcher, Icon}
    BY <1>1, <1>2, LocksAssumption DEF IInv, InitPhase, LocksHeld, Lost, EndedEarly, Entered,
       Given, DirsHeld, CwdHeld, HomeHeld
  <1> HIDE DEF OtherFields
  <1>11. TypeOK'
    BY InitNumbers, <1>1, <1>2, <1>3, <1>5, <1>6, <1>7 DEF IInv, TypeOK
  <1>12. ListOrder'
    BY <1>1, <1>2, <1>3, <1>5, <1>6, <1>7 DEF ListOrder
  <1>13. InitPhase'
    BY <1>1, <1>2, <1>3, <1>5, <1>6, <1>7 DEF IInv, InitPhase
  <1>14. ThingsHeld'
    BY InitNumbers, InitOrder, <1>1, <1>2, <1>3, <1>5, <1>6, <1>7 DEF IInv, InitPhase,
       ThingsHeld, Ended, Given
  <1>15. LocksHeld'
    BY LocksAssumption, InitNumbers, InitOrder, <1>1, <1>2, <1>3, <1>5, <1>6, <1>7 DEF
       IInv, Given, LocksHeld, Lost, EndedEarly, Entered, DirsHeld, CwdHeld, HomeHeld, Home,
       TypeOK, OsTypes, LibTypes
  <1>16. FaultsOnlyEarly'
    BY <1>1, <1>2, <1>3, <1>5, <1>6, <1>7 DEF IInv, FaultsOnlyEarly, EndedEarly
  <1> QED
    BY <1>11, <1>12, <1>13, <1>14, <1>15, <1>16 DEF IInv

LEMMA NoWindowStep == ASSUME IInv, NoWindow PROVE IInv'
  <1> USE DEF NoWindow, rest, Returns, Strays, Exit, Initialising, NewLocks, Enter
  <1>1. TypeOK'
    BY DEF IInv, TypeOK
  <1>2. ListOrder'
    BY DEF ListOrder
  <1>3. InitPhase'
    BY DEF InitPhase
  <1>4. ThingsHeld'
    BY InitNumbers, InitOrder DEF IInv, InitPhase, ThingsHeld, Ended, Given
  <1>5. LocksHeld'
    BY DEF IInv, Given, LocksHeld, Lost, EndedEarly, Entered, DirsHeld, CwdHeld, HomeHeld,
       Home
  <1>6. FaultsOnlyEarly'
    BY DEF IInv, FaultsOnlyEarly, EndedEarly
  <1> QED
    BY <1>1, <1>2, <1>3, <1>4, <1>5, <1>6 DEF IInv

LEMMA InitCommandlineStep == ASSUME IInv, InitCommandline PROVE IInv'
  <1> USE DEF InitCommandline, rest, Returns, Strays, Exit, Initialising, NewLocks, Enter
  <1>1. TypeOK'
    <2>1. os' \in OsTypes
      BY DEF IInv, TypeOK, OsTypes, LibTypes, Blocks
    <2>2. lib' \in LibTypes
      BY DEF IInv, TypeOK, OsTypes, LibTypes, Blocks
    <2>3. done' \subseteq InitFunctions \cup FiniFunctions
      BY InitNumbers DEF IInv, TypeOK
    <2> QED
      BY <2>1, <2>2, <2>3 DEF IInv, TypeOK
  <1>2. ListOrder'
    BY DEF ListOrder
  <1>3. InitPhase'
    BY DEF IInv, InitPhase
  <1>4. ThingsHeld'
    BY InitNumbers, InitOrder DEF IInv, InitPhase, ThingsHeld, Ended, Given
  <1>5. LocksHeld'
    BY DEF IInv, Given, LocksHeld, Lost, EndedEarly, Entered, DirsHeld, CwdHeld, HomeHeld,
       Home
  <1>6. FaultsOnlyEarly'
    BY DEF IInv, FaultsOnlyEarly, EndedEarly
  <1> QED
    BY <1>1, <1>2, <1>3, <1>4, <1>5, <1>6 DEF IInv

LEMMA InitAmigapathStep == ASSUME IInv, InitAmigapath PROVE IInv'
  <1> USE DEF InitAmigapath, rest, Returns, Strays, Exit, Initialising, NewLocks, Enter
  <1>1. TypeOK'
    BY InitNumbers DEF IInv, TypeOK
  <1>2. ListOrder'
    BY DEF ListOrder
  <1>3. InitPhase'
    BY DEF IInv, InitPhase
  <1>4. ThingsHeld'
    BY DEF IInv, ThingsHeld, Ended, Given
  <1>5. LocksHeld'
    BY DEF IInv, Given, LocksHeld, Lost, EndedEarly, Entered, DirsHeld, CwdHeld, HomeHeld,
       Home
  <1>6. FaultsOnlyEarly'
    BY DEF IInv, FaultsOnlyEarly, EndedEarly
  <1> QED
    BY <1>1, <1>2, <1>3, <1>4, <1>5, <1>6 DEF IInv

LEMMA InitPrognameStep == ASSUME IInv, InitProgname PROVE IInv'
  <1> USE DEF InitProgname, rest, Returns, Strays, Exit, Initialising, NewLocks, Enter
  <1>1. TypeOK'
    BY InitNumbers DEF IInv, TypeOK
  <1>2. ListOrder'
    BY DEF ListOrder
  <1>3. InitPhase'
    BY DEF IInv, InitPhase
  <1>4. ThingsHeld'
    BY DEF IInv, ThingsHeld, Ended, Given
  <1>5. LocksHeld'
    BY DEF IInv, Given, LocksHeld, Lost, EndedEarly, Entered, DirsHeld, CwdHeld, HomeHeld,
       Home
  <1>6. FaultsOnlyEarly'
    BY DEF IInv, FaultsOnlyEarly, EndedEarly
  <1> QED
    BY <1>1, <1>2, <1>3, <1>4, <1>5, <1>6 DEF IInv

LEMMA InitDirlistStep == ASSUME IInv, InitDirlist PROVE IInv'
  <1> USE DEF InitDirlist, rest, Returns, Strays, Exit, Initialising, NewLocks, Enter
  <1>1. TypeOK'
    <2>1. os' \in OsTypes
      BY DEF IInv, TypeOK
    <2>2. lib' \in LibTypes
      BY DEF IInv, TypeOK, LibTypes
    <2>3. done' \subseteq InitFunctions \cup FiniFunctions
      BY InitNumbers DEF IInv, TypeOK
    <2> QED
      BY <2>1, <2>2, <2>3 DEF IInv, TypeOK
  <1>2. ListOrder'
    BY DEF ListOrder
  <1>3. InitPhase'
    BY InitNumbers, InitOrder DEF IInv, InitPhase
  <1>4. ThingsHeld'
    BY DEF IInv, ThingsHeld, Ended, Given
  <1>5. LocksHeld'
    BY LocksAssumption, InitNumbers, InitOrder DEF IInv, InitPhase, Given, LocksHeld,
       Lost, EndedEarly, Entered, DirsHeld, CwdHeld, HomeHeld, Home, TypeOK, OsTypes,
       LibTypes
  <1>6. FaultsOnlyEarly'
    BY DEF IInv, FaultsOnlyEarly, EndedEarly
  <1> QED
    BY <1>1, <1>2, <1>3, <1>4, <1>5, <1>6 DEF IInv

LEMMA InitChdirStep == ASSUME IInv, InitChdir PROVE IInv'
  <1> USE DEF rest, Returns, Exit, Initialising
  <1>1. CASE Exit /\ UNCHANGED <<os, lib>>
    <2> USE DEF InitChdir
    <2>1. TypeOK'
      BY <1>1 DEF IInv, TypeOK
    <2>2. ListOrder'
      BY <1>1 DEF ListOrder
    <2>3. InitPhase'
      BY <1>1 DEF InitPhase
    <2>4. ThingsHeld'
      BY InitNumbers, InitOrder, <1>1 DEF IInv, InitPhase, ThingsHeld, Ended, Given
    <2>5. LocksHeld'
      BY <1>1 DEF IInv, Given, LocksHeld, Lost, EndedEarly, Entered, DirsHeld, CwdHeld,
         HomeHeld, Home
    <2>6. FaultsOnlyEarly'
      BY <1>1 DEF IInv, FaultsOnlyEarly, EndedEarly
    <2> QED
      BY <2>1, <2>2, <2>3, <2>4, <2>5, <2>6 DEF IInv
  <1>2. ASSUME NEW l \in NewLocks, os' = Enter(l), Returns("__initchdir"),
                lib' = [lib EXCEPT !.oldlock = os.cwd, !.havelock = TRUE]
        PROVE  IInv'
    <2>1. /\ Initialising("__initchdir") /\ done' = done \cup {"__initchdir"}
          /\ UNCHANGED <<start, mode, handlers, faults>>
      BY <1>2 DEF InitChdir
    <2>2. os \in OsTypes /\ lib \in LibTypes /\ l \in Locks /\ l \notin os.locks
      BY DEF IInv, TypeOK, NewLocks
    <2>3. /\ lib' \in LibTypes
          /\ lib'.oldlock = os.cwd /\ lib'.havelock = TRUE /\ lib'.cd = lib.cd
          /\ lib'.window = lib.window /\ lib'.command = lib.command /\ lib'.dirlist = lib.dirlist
         /\ lib'.dirs = lib.dirs /\ lib'.fp = lib.fp /\ lib'.SocketBase = lib.SocketBase
      BY <1>2, <2>2 DEF OsTypes, LibTypes
    <2>4. /\ os' \in OsTypes /\ os'.locks = os.locks \cup {l} /\ os'.cwd = l
          /\ OtherFields(os', os)
      BY <1>2, <2>2, EnterDoes
    <2> USE DEF OtherFields
    <2>11. TypeOK'
      BY InitNumbers, <2>1, <2>2, <2>3, <2>4 DEF IInv, TypeOK
    <2>12. ListOrder'
      BY <2>1, <2>2, <2>3, <2>4 DEF ListOrder
    <2>13. InitPhase'
      BY InitNumbers, InitOrder, <2>1, <2>2, <2>3, <2>4 DEF IInv, InitPhase
    <2>14. ThingsHeld'
      BY <2>1, <2>2, <2>3, <2>4 DEF IInv, ThingsHeld, Ended, Given
    <2>15. LocksHeld'
      BY LocksAssumption, InitNumbers, InitOrder, <2>1, <2>2, <2>3, <2>4 DEF IInv,
         InitPhase, Given, LocksHeld, Lost, EndedEarly, Entered, DirsHeld, CwdHeld, HomeHeld,
         Home, TypeOK, OsTypes, LibTypes
    <2>16. FaultsOnlyEarly'
      BY <2>1, <2>2, <2>3, <2>4 DEF IInv, FaultsOnlyEarly, EndedEarly
    <2> QED
      BY <2>11, <2>12, <2>13, <2>14, <2>15, <2>16 DEF IInv
  <1> QED
    BY <1>1, <1>2 DEF InitChdir

LEMMA InitTimerStep == ASSUME IInv, InitTimer PROVE IInv'
  <1> USE DEF InitTimer, rest, Returns, Strays, Exit, Initialising, NewLocks, Enter
  <1>1. TypeOK'
    BY InitNumbers DEF IInv, TypeOK
  <1>2. ListOrder'
    BY DEF ListOrder
  <1>3. InitPhase'
    BY DEF IInv, InitPhase
  <1>4. ThingsHeld'
    BY DEF IInv, ThingsHeld, Ended, Given
  <1>5. LocksHeld'
    BY DEF IInv, Given, LocksHeld, Lost, EndedEarly, Entered, DirsHeld, CwdHeld, HomeHeld,
       Home
  <1>6. FaultsOnlyEarly'
    BY DEF IInv, FaultsOnlyEarly, EndedEarly
  <1> QED
    BY <1>1, <1>2, <1>3, <1>4, <1>5, <1>6 DEF IInv

LEMMA MainStep == ASSUME IInv, Main PROVE IInv'
  <1> USE DEF Main, rest, Returns, Strays, Exit, Initialising, NewLocks, Enter
  <1>1. TypeOK'
    BY DEF IInv, TypeOK
  <1>2. ListOrder'
    BY DEF ListOrder
  <1>3. InitPhase'
    BY DEF InitPhase
  <1>4. ThingsHeld'
    BY InitNumbers, InitOrder DEF IInv, InitPhase, ThingsHeld, Ended, Given
  <1>5. LocksHeld'
    BY DEF IInv, Given, LocksHeld, Lost, EndedEarly, Entered, DirsHeld, CwdHeld, HomeHeld,
       Home
  <1>6. FaultsOnlyEarly'
    BY DEF IInv, FaultsOnlyEarly, EndedEarly
  <1> QED
    BY <1>1, <1>2, <1>3, <1>4, <1>5, <1>6 DEF IInv

----------------------------------------------------------------------------
\* The program.

LEMMA OpendirStep == ASSUME IInv, Opendir PROVE IInv'
  <1> USE DEF Opendir, rest, Exit, Needs, ProgramRuns, NewLocks, Enter, Leave
  <1>1. TypeOK'
    <2>1. os' \in OsTypes
      BY DEF IInv, TypeOK, OsTypes, LibTypes, AnyLock
    <2>2. lib' \in LibTypes
      BY DEF IInv, TypeOK, LibTypes
    <2>3. done' \subseteq InitFunctions \cup FiniFunctions
      BY DEF IInv, TypeOK
    <2> QED
      BY <2>1, <2>2, <2>3 DEF IInv, TypeOK
  <1>2. ListOrder'
    BY DEF IInv, ListOrder
  <1>3. InitPhase'
    BY DEF InitPhase
  <1>4. ThingsHeld'
    BY DEF IInv, ThingsHeld, Ended, Given
  <1>5. LocksHeld'
    BY DEF IInv, Given, LocksHeld, Lost, EndedEarly, Entered, DirsHeld, CwdHeld, HomeHeld,
       Home
  <1>6. FaultsOnlyEarly'
    BY DEF IInv, FaultsOnlyEarly, EndedEarly
  <1> QED
    BY <1>1, <1>2, <1>3, <1>4, <1>5, <1>6 DEF IInv

LEMMA ClosedirStep == ASSUME IInv, Closedir PROVE IInv'
  <1> USE DEF Closedir, rest, Exit, Needs, ProgramRuns, NewLocks, Enter, Leave
  <1>1. TypeOK'
    <2>1. os' \in OsTypes
      BY DEF IInv, TypeOK, OsTypes
    <2>2. lib' \in LibTypes
      BY DEF IInv, TypeOK, LibTypes
    <2>3. done' \subseteq InitFunctions \cup FiniFunctions
      BY DEF IInv, TypeOK
    <2> QED
      BY <2>1, <2>2, <2>3 DEF IInv, TypeOK
  <1>2. ListOrder'
    BY DEF IInv, ListOrder
  <1>3. InitPhase'
    BY DEF InitPhase
  <1>4. ThingsHeld'
    BY DEF IInv, ThingsHeld, Ended, Given
  <1>5. LocksHeld'
    BY LocksAssumption DEF IInv, Given, LocksHeld, Lost, EndedEarly, Entered, DirsHeld,
       CwdHeld, HomeHeld, Home, TypeOK, OsTypes, LibTypes
  <1>6. FaultsOnlyEarly'
    BY DEF IInv, FaultsOnlyEarly, EndedEarly
  <1> QED
    BY <1>1, <1>2, <1>3, <1>4, <1>5, <1>6 DEF IInv

LEMMA ChdirStep == ASSUME IInv, Chdir PROVE IInv'
  <1> USE DEF rest, Needs, ProgramRuns
  <1>1. PICK l \in NewLocks : os' = Leave(Enter(l), l)
    BY DEF Chdir
  <1>2. /\ ProgramRuns /\ Needs("lock", os.cwd \in os.locks)
        /\ UNCHANGED <<start, mode, done, handlers, lib>>
    BY DEF Chdir
  <1>3. os \in OsTypes /\ l \in Locks /\ l \notin os.locks /\ l \in AnyLock
    BY DEF IInv, TypeOK, NewLocks, AnyLock
  <1>4. /\ os' \in OsTypes
        /\ os'.locks = (os.locks \cup {l}) \ {os.cwd} /\ os'.cwd = l
        /\ OtherFields(os', os)
    BY <1>1, <1>3, EnterDoes, LeaveDoes DEF OtherFields
  <1> USE DEF OtherFields
  <1>11. TypeOK'
    BY <1>2, <1>3, <1>4 DEF IInv, TypeOK
  <1>12. ListOrder'
    BY <1>2, <1>3, <1>4 DEF IInv, ListOrder
  <1>13. InitPhase'
    BY <1>2, <1>3, <1>4 DEF InitPhase
  <1>14. ThingsHeld'
    BY <1>2, <1>3, <1>4 DEF IInv, ThingsHeld, Ended, Given
  <1>15. LocksHeld'
    BY LocksAssumption, <1>2, <1>3, <1>4 DEF IInv, Given, LocksHeld, Lost, EndedEarly,
       Entered, DirsHeld, CwdHeld, HomeHeld, Home, TypeOK, OsTypes, LibTypes
  <1>16. FaultsOnlyEarly'
    BY <1>2, <1>3, <1>4 DEF IInv, FaultsOnlyEarly, EndedEarly, InitPhase, ThingsHeld,
       Ended, Given, TypeOK, OsTypes, LibTypes, LocksHeld, Lost, EndedEarly, Entered,
       DirsHeld, CwdHeld, HomeHeld, Home
  <1> QED
    BY <1>11, <1>12, <1>13, <1>14, <1>15, <1>16 DEF IInv

LEMMA SocketStep == ASSUME IInv, Socket PROVE IInv'
  <1> USE DEF Socket, rest, Exit, Needs, ProgramRuns, NewLocks, Enter, Leave
  <1>1. TypeOK'
    <2>1. os' \in OsTypes
      BY DEF IInv, TypeOK, OsTypes
    <2>2. lib' \in LibTypes
      BY DEF IInv, TypeOK, LibTypes
    <2>3. done' \subseteq InitFunctions \cup FiniFunctions
      BY DEF IInv, TypeOK
    <2> QED
      BY <2>1, <2>2, <2>3 DEF IInv, TypeOK
  <1>2. ListOrder'
    BY DEF IInv, ListOrder
  <1>3. InitPhase'
    BY DEF InitPhase
  <1>4. ThingsHeld'
    BY DEF IInv, ThingsHeld, Ended, Given
  <1>5. LocksHeld'
    BY DEF IInv, Given, LocksHeld, Lost, EndedEarly, Entered, DirsHeld, CwdHeld, HomeHeld,
       Home
  <1>6. FaultsOnlyEarly'
    BY DEF IInv, FaultsOnlyEarly, EndedEarly
  <1> QED
    BY <1>1, <1>2, <1>3, <1>4, <1>5, <1>6 DEF IInv

LEMMA AtexitStep == ASSUME IInv, Atexit PROVE IInv'
  <1> USE DEF Atexit, rest, Exit, Needs, ProgramRuns, NewLocks, Enter, Leave
  <1>1. TypeOK'
    BY DEF IInv, TypeOK
  <1>2. ListOrder'
    BY DEF IInv, ListOrder
  <1>3. InitPhase'
    BY DEF InitPhase
  <1>4. ThingsHeld'
    BY DEF IInv, ThingsHeld, Ended, Given
  <1>5. LocksHeld'
    BY DEF IInv, Given, LocksHeld, Lost, EndedEarly, Entered, DirsHeld, CwdHeld, HomeHeld,
       Home
  <1>6. FaultsOnlyEarly'
    BY DEF IInv, FaultsOnlyEarly, EndedEarly
  <1> QED
    BY <1>1, <1>2, <1>3, <1>4, <1>5, <1>6 DEF IInv

LEMMA CallExitStep == ASSUME IInv, CallExit PROVE IInv'
  <1> USE DEF CallExit, rest, Exit, Needs, ProgramRuns, NewLocks, Enter, Leave
  <1>1. TypeOK'
    BY DEF IInv, TypeOK
  <1>2. ListOrder'
    BY DEF ListOrder
  <1>3. InitPhase'
    BY DEF InitPhase
  <1>4. ThingsHeld'
    BY DEF IInv, ThingsHeld, Ended, Given
  <1>5. LocksHeld'
    BY DEF IInv, Given, LocksHeld, Lost, EndedEarly, Entered, DirsHeld, CwdHeld, HomeHeld,
       Home
  <1>6. FaultsOnlyEarly'
    BY DEF IInv, FaultsOnlyEarly, EndedEarly
  <1> QED
    BY <1>1, <1>2, <1>3, <1>4, <1>5, <1>6 DEF IInv

----------------------------------------------------------------------------
\* The end of the program.

LEMMA DestroyedStep == ASSUME IInv, Destroyed PROVE IInv'
  <1> USE DEF Destroyed, rest, Returns, Strays, Needs, Finishing, Leave
  <1>1. TypeOK'
    BY DEF IInv, TypeOK
  <1>2. ListOrder'
    BY DEF ListOrder
  <1>3. InitPhase'
    BY DEF InitPhase
  <1>4. ThingsHeld'
    BY DEF IInv, ThingsHeld, Ended, Given
  <1>5. LocksHeld'
    BY DEF IInv, Given, LocksHeld, Lost, EndedEarly, Entered, DirsHeld, CwdHeld, HomeHeld,
       Home
  <1>6. FaultsOnlyEarly'
    BY DEF IInv, FaultsOnlyEarly, EndedEarly
  <1> QED
    BY <1>1, <1>2, <1>3, <1>4, <1>5, <1>6 DEF IInv

LEMMA CallHandlerStep == ASSUME IInv, CallHandler PROVE IInv'
  <1> USE DEF CallHandler, rest, Returns, Strays, Needs, Finishing, Leave
  <1>1. TypeOK'
    BY DEF IInv, TypeOK
  <1>2. ListOrder'
    BY FiniNumbers, FiniOrder, FiniStep DEF IInv, ListOrder
  <1>3. InitPhase'
    BY DEF InitPhase
  <1>4. ThingsHeld'
    BY FiniNumbers, FiniOrder, FiniStep DEF IInv, ThingsHeld, Ended, Given, TypeOK,
       OsTypes, LibTypes
  <1>5. LocksHeld'
    BY FiniNumbers, FiniOrder, FiniStep DEF IInv, Given, LocksHeld, Lost, EndedEarly,
       Entered, DirsHeld, CwdHeld, HomeHeld, Home, TypeOK, OsTypes, LibTypes
  <1>6. FaultsOnlyEarly'
    BY DEF IInv, FaultsOnlyEarly, EndedEarly
  <1> QED
    BY <1>1, <1>2, <1>3, <1>4, <1>5, <1>6 DEF IInv

LEMMA HandlerReturnsStep == ASSUME IInv, HandlerReturns PROVE IInv'
  <1> USE DEF HandlerReturns, rest, Returns, Strays, Needs, Finishing, Leave
  <1>1. TypeOK'
    BY DEF IInv, TypeOK
  <1>2. ListOrder'
    BY DEF IInv, ListOrder
  <1>3. InitPhase'
    BY DEF InitPhase
  <1>4. ThingsHeld'
    BY DEF IInv, ThingsHeld, Ended, Given, ListOrder
  <1>5. LocksHeld'
    BY DEF IInv, Given, ListOrder, LocksHeld, Lost, EndedEarly, Entered, DirsHeld,
       CwdHeld, HomeHeld, Home
  <1>6. FaultsOnlyEarly'
    BY DEF IInv, FaultsOnlyEarly, EndedEarly
  <1> QED
    BY <1>1, <1>2, <1>3, <1>4, <1>5, <1>6 DEF IInv

LEMMA DoexitStep == ASSUME IInv, Doexit PROVE IInv'
  <1> USE DEF Doexit, rest, Returns, Strays, Needs, Finishing, Leave
  <1>1. TypeOK'
    BY FiniNumbers DEF IInv, TypeOK
  <1>2. ListOrder'
    BY FiniNumbers, FiniOrder, FiniStep DEF IInv
  <1>3. InitPhase'
    BY DEF InitPhase
  <1>4. ThingsHeld'
    BY DEF IInv, ThingsHeld, Ended, Given
  <1>5. LocksHeld'
    BY DEF IInv, Given, LocksHeld, Lost, EndedEarly, Entered, DirsHeld, CwdHeld, HomeHeld,
       Home
  <1>6. FaultsOnlyEarly'
    BY DEF IInv, FaultsOnlyEarly, EndedEarly
  <1> QED
    BY <1>1, <1>2, <1>3, <1>4, <1>5, <1>6 DEF IInv

LEMMA ExitChdirStep == ASSUME IInv, ExitChdir PROVE IInv'
  <1> USE DEF rest, Returns, Needs, Finishing
  <1>1. CASE ~lib.havelock
    <2> USE DEF ExitChdir
    <2>1. TypeOK'
      BY FiniNumbers, <1>1 DEF IInv, TypeOK
    <2>2. ListOrder'
      BY FiniNumbers, FiniOrder, FiniStep, <1>1 DEF IInv
    <2>3. InitPhase'
      BY <1>1 DEF InitPhase
    <2>4. ThingsHeld'
      BY <1>1 DEF IInv, ThingsHeld, Ended, Given
    <2>5. LocksHeld'
      BY <1>1 DEF IInv, Given, LocksHeld, Lost, EndedEarly, Entered, DirsHeld, CwdHeld,
         HomeHeld, Home
    <2>6. FaultsOnlyEarly'
      BY <1>1 DEF IInv, FaultsOnlyEarly, EndedEarly
    <2> QED
      BY <2>1, <2>2, <2>3, <2>4, <2>5, <2>6 DEF IInv
  <1>2. CASE lib.havelock
    <2>1. /\ Finishing("__exitchdir") /\ done' = done \cup {"__exitchdir"}
          /\ UNCHANGED <<start, mode, handlers, lib>>
          /\ Needs("lock", os.cwd \in os.locks)
      BY <1>2 DEF ExitChdir
    <2>2. os \in OsTypes /\ lib \in LibTypes /\ lib.oldlock \in AnyLock
      BY DEF IInv, TypeOK, LibTypes
    <2>3. /\ os' \in OsTypes /\ os'.locks = os.locks \ {os.cwd} /\ os'.cwd = lib.oldlock
          /\ OtherFields(os', os)
      BY <1>2, <2>2, LeaveDoes DEF ExitChdir
    <2> USE DEF OtherFields
    <2>11. TypeOK'
      BY FiniNumbers, <1>2, <2>1, <2>2, <2>3 DEF IInv, TypeOK
    <2>12. ListOrder'
      BY FiniNumbers, FiniOrder, FiniStep, <1>2, <2>1, <2>2, <2>3 DEF IInv
    <2>13. InitPhase'
      BY <1>2, <2>1, <2>2, <2>3 DEF InitPhase
    <2>14. ThingsHeld'
      BY <1>2, <2>1, <2>2, <2>3 DEF IInv, ThingsHeld, Ended, Given
    <2>15. LocksHeld'
      BY LocksAssumption, FiniNumbers, FiniOrder, FiniStep, <1>2, <2>1, <2>2, <2>3 DEF
         IInv, Given, LocksHeld, Lost, EndedEarly, Entered, DirsHeld, CwdHeld, HomeHeld,
         Home, TypeOK, OsTypes, LibTypes
    <2>16. FaultsOnlyEarly'
      BY FiniNumbers, FiniOrder, FiniStep, <1>2, <2>1, <2>2, <2>3 DEF IInv,
         FaultsOnlyEarly, EndedEarly, InitPhase, ThingsHeld, Ended, Given, TypeOK, OsTypes,
         LibTypes, LocksHeld, Lost, EndedEarly, Entered, DirsHeld, CwdHeld, HomeHeld, Home
    <2> QED
      BY <2>11, <2>12, <2>13, <2>14, <2>15, <2>16 DEF IInv
  <1> QED
    BY <1>1, <1>2

LEMMA ExitDirlistStep == ASSUME IInv, ExitDirlist PROVE IInv'
  <1> USE DEF ExitDirlist, rest, Returns, Strays, Needs, Finishing, Leave
  <1>1. TypeOK'
    <2>1. os' \in OsTypes
      BY DEF IInv, TypeOK, OsTypes
    <2>2. lib' \in LibTypes
      BY DEF IInv, TypeOK
    <2>3. done' \subseteq InitFunctions \cup FiniFunctions
      BY FiniNumbers DEF IInv, TypeOK
    <2> QED
      BY <2>1, <2>2, <2>3 DEF IInv, TypeOK
  <1>2. ListOrder'
    BY FiniNumbers, FiniOrder, FiniStep DEF IInv, ListOrder
  <1>3. InitPhase'
    BY DEF InitPhase
  <1>4. ThingsHeld'
    BY FiniNumbers, FiniOrder, FiniStep DEF IInv, ThingsHeld, Ended, Given, TypeOK,
       OsTypes, LibTypes
  <1>5. LocksHeld'
    BY LocksAssumption, FiniNumbers, FiniOrder, FiniStep DEF IInv, InitPhase, ThingsHeld,
       Ended, Given, LocksHeld, Lost, EndedEarly, Entered, DirsHeld, CwdHeld, HomeHeld, Home,
       TypeOK, OsTypes, LibTypes
  <1>6. FaultsOnlyEarly'
    BY FiniNumbers, FiniOrder, FiniStep DEF IInv, FaultsOnlyEarly, EndedEarly, ThingsHeld,
       Ended, Given
  <1> QED
    BY <1>1, <1>2, <1>3, <1>4, <1>5, <1>6 DEF IInv

LEMMA ExitWorkbenchStep == ASSUME IInv, ExitWorkbench PROVE IInv'
  <1> USE DEF ExitWorkbench, rest, Returns, Strays, Needs, Finishing, Leave
  <1>1. TypeOK'
    <2>1. os' \in OsTypes
      BY DEF IInv, TypeOK, OsTypes, LibTypes
    <2>2. lib' \in LibTypes
      BY DEF IInv, TypeOK
    <2>3. done' \subseteq InitFunctions \cup FiniFunctions
      BY FiniNumbers DEF IInv, TypeOK
    <2> QED
      BY <2>1, <2>2, <2>3 DEF IInv, TypeOK
  <1>2. ListOrder'
    BY FiniNumbers, FiniOrder, FiniStep DEF IInv
  <1>3. InitPhase'
    BY DEF InitPhase
  <1>4. ThingsHeld'
    BY DEF IInv, ThingsHeld, Ended, Given
  <1>5. LocksHeld'
    BY LocksAssumption, FiniNumbers, FiniOrder, FiniStep DEF IInv, InitPhase, ThingsHeld,
       Ended, Given, LocksHeld, Lost, EndedEarly, Entered, DirsHeld, CwdHeld, HomeHeld, Home,
       TypeOK, OsTypes, LibTypes
  <1>6. FaultsOnlyEarly'
    BY FiniNumbers, FiniOrder, FiniStep DEF IInv, FaultsOnlyEarly, EndedEarly, ThingsHeld,
       Ended, Given
  <1> QED
    BY <1>1, <1>2, <1>3, <1>4, <1>5, <1>6 DEF IInv

LEMMA ExitCommandlineStep == ASSUME IInv, ExitCommandline PROVE IInv'
  <1> USE DEF ExitCommandline, rest, Returns, Strays, Needs, Finishing, Leave
  <1>1. TypeOK'
    <2>1. os' \in OsTypes
      BY DEF IInv, TypeOK, OsTypes
    <2>2. lib' \in LibTypes
      BY DEF IInv, TypeOK
    <2>3. done' \subseteq InitFunctions \cup FiniFunctions
      BY FiniNumbers DEF IInv, TypeOK
    <2> QED
      BY <2>1, <2>2, <2>3 DEF IInv, TypeOK
  <1>2. ListOrder'
    BY FiniNumbers, FiniOrder, FiniStep DEF IInv
  <1>3. InitPhase'
    BY DEF InitPhase
  <1>4. ThingsHeld'
    BY DEF IInv, ThingsHeld, Ended, Given
  <1>5. LocksHeld'
    BY FiniNumbers, FiniOrder, FiniStep DEF IInv, Given, LocksHeld, Lost, EndedEarly,
       Entered, DirsHeld, CwdHeld, HomeHeld, Home, TypeOK, OsTypes, LibTypes
  <1>6. FaultsOnlyEarly'
    BY FiniNumbers, FiniOrder, FiniStep DEF IInv, FaultsOnlyEarly, EndedEarly, ThingsHeld,
       Ended, Given
  <1> QED
    BY <1>1, <1>2, <1>3, <1>4, <1>5, <1>6 DEF IInv

LEMMA ExitSemStep == ASSUME IInv, ExitSem PROVE IInv'
  <1> USE DEF ExitSem, rest, Returns, Strays, Needs, Finishing, Leave
  <1>1. TypeOK'
    <2>1. os' \in OsTypes
      BY DEF IInv, TypeOK, OsTypes
    <2>2. lib' \in LibTypes
      BY DEF IInv, TypeOK
    <2>3. done' \subseteq InitFunctions \cup FiniFunctions
      BY FiniNumbers DEF IInv, TypeOK
    <2> QED
      BY <2>1, <2>2, <2>3 DEF IInv, TypeOK
  <1>2. ListOrder'
    BY FiniNumbers, FiniOrder, FiniStep DEF IInv, ListOrder
  <1>3. InitPhase'
    BY DEF InitPhase
  <1>4. ThingsHeld'
    BY DEF IInv, ThingsHeld, Ended, Given
  <1>5. LocksHeld'
    BY DEF IInv, Given, LocksHeld, Lost, EndedEarly, Entered, DirsHeld, CwdHeld, HomeHeld,
       Home
  <1>6. FaultsOnlyEarly'
    BY FiniNumbers, FiniOrder, FiniStep DEF IInv, FaultsOnlyEarly, EndedEarly, ThingsHeld,
       Ended, Given
  <1> QED
    BY <1>1, <1>2, <1>3, <1>4, <1>5, <1>6 DEF IInv

LEMMA ExitFdStep == ASSUME IInv, ExitFd PROVE IInv'
  <1> USE DEF ExitFd, rest, Returns, Strays, Needs, Finishing, Leave
  <1>1. TypeOK'
    <2>1. os' \in OsTypes
      BY DEF IInv, TypeOK, OsTypes
    <2>2. lib' \in LibTypes
      BY DEF IInv, TypeOK
    <2>3. done' \subseteq InitFunctions \cup FiniFunctions
      BY FiniNumbers DEF IInv, TypeOK
    <2> QED
      BY <2>1, <2>2, <2>3 DEF IInv, TypeOK
  <1>2. ListOrder'
    BY FiniNumbers, FiniOrder, FiniStep DEF IInv, ListOrder
  <1>3. InitPhase'
    BY DEF InitPhase
  <1>4. ThingsHeld'
    BY DEF IInv, ThingsHeld, Ended, Given
  <1>5. LocksHeld'
    BY DEF IInv, Given, LocksHeld, Lost, EndedEarly, Entered, DirsHeld, CwdHeld, HomeHeld,
       Home
  <1>6. FaultsOnlyEarly'
    BY FiniNumbers, FiniOrder, FiniStep DEF IInv, FaultsOnlyEarly, EndedEarly, ThingsHeld,
       Ended, Given
  <1> QED
    BY <1>1, <1>2, <1>3, <1>4, <1>5, <1>6 DEF IInv

LEMMA ExitBsdsocketStep == ASSUME IInv, ExitBsdsocket PROVE IInv'
  <1> USE DEF ExitBsdsocket, rest, Returns, Strays, Needs, Finishing, Leave
  <1>1. TypeOK'
    <2>1. os' \in OsTypes
      BY DEF IInv, TypeOK, OsTypes
    <2>2. lib' \in LibTypes
      BY DEF IInv, TypeOK
    <2>3. done' \subseteq InitFunctions \cup FiniFunctions
      BY FiniNumbers DEF IInv, TypeOK
    <2> QED
      BY <2>1, <2>2, <2>3 DEF IInv, TypeOK
  <1>2. ListOrder'
    BY FiniNumbers, FiniOrder, FiniStep DEF IInv
  <1>3. InitPhase'
    BY DEF InitPhase
  <1>4. ThingsHeld'
    BY DEF IInv, ThingsHeld, Ended, Given
  <1>5. LocksHeld'
    BY DEF IInv, Given, LocksHeld, Lost, EndedEarly, Entered, DirsHeld, CwdHeld, HomeHeld,
       Home
  <1>6. FaultsOnlyEarly'
    BY FiniNumbers, FiniOrder, FiniStep DEF IInv, FaultsOnlyEarly, EndedEarly, ThingsHeld,
       Ended, Given
  <1> QED
    BY <1>1, <1>2, <1>3, <1>4, <1>5, <1>6 DEF IInv

LEMMA ExitMallocStep == ASSUME IInv, ExitMalloc PROVE IInv'
  <1> USE DEF ExitMalloc, rest, Returns, Strays, Needs, Finishing, Leave
  <1>1. TypeOK'
    <2>1. os' \in OsTypes
      BY DEF IInv, TypeOK, OsTypes
    <2>2. lib' \in LibTypes
      BY DEF IInv, TypeOK
    <2>3. done' \subseteq InitFunctions \cup FiniFunctions
      BY FiniNumbers DEF IInv, TypeOK
    <2> QED
      BY <2>1, <2>2, <2>3 DEF IInv, TypeOK
  <1>2. ListOrder'
    BY FiniNumbers, FiniOrder, FiniStep DEF IInv, ListOrder
  <1>3. InitPhase'
    BY DEF InitPhase
  <1>4. ThingsHeld'
    BY DEF IInv, ThingsHeld, Ended, Given
  <1>5. LocksHeld'
    BY DEF IInv, Given, LocksHeld, Lost, EndedEarly, Entered, DirsHeld, CwdHeld, HomeHeld,
       Home
  <1>6. FaultsOnlyEarly'
    BY FiniNumbers, FiniOrder, FiniStep DEF IInv, FaultsOnlyEarly, EndedEarly, ThingsHeld,
       Ended, Given
  <1> QED
    BY <1>1, <1>2, <1>3, <1>4, <1>5, <1>6 DEF IInv

LEMMA ReturnStep == ASSUME IInv, Return PROVE IInv'
  <1> USE DEF Return, rest, Returns, Strays, Needs, Finishing, Leave
  <1>1. TypeOK'
    BY DEF IInv, TypeOK
  <1>2. ListOrder'
    BY FiniNumbers, FiniOrder, FiniStep DEF IInv, ListOrder, FiniFunctions
  <1>3. InitPhase'
    BY DEF InitPhase
  <1>4. ThingsHeld'
    BY DEF IInv, ThingsHeld, Ended, Given
  <1>5. LocksHeld'
    BY DEF IInv, Given, LocksHeld, Lost, EndedEarly, Entered, DirsHeld, CwdHeld, HomeHeld,
       Home
  <1>6. FaultsOnlyEarly'
    BY DEF IInv, FaultsOnlyEarly, EndedEarly
  <1> QED
    BY <1>1, <1>2, <1>3, <1>4, <1>5, <1>6 DEF IInv

----------------------------------------------------------------------------
LEMMA InitIInv == Init => IInv
  <1> SUFFICES ASSUME Init PROVE IInv
    OBVIOUS
  <1> USE DEF Init
  <1>1. TypeOK
    <2>1. os \in OsTypes
      BY DEF OsTypes, AnyLock
    <2>2. lib \in LibTypes
      BY DEF LibTypes, AnyLock
    <2> QED
      BY <2>1, <2>2 DEF TypeOK
  <1>2. ListOrder
    BY DEF ListOrder
  <1>3. InitPhase
    BY DEF InitPhase
  <1>4. ThingsHeld
    BY DEF ThingsHeld, Ended, Given
  <1>5. LocksHeld
    BY LocksAssumption DEF LocksHeld, Entered, DirsHeld, CwdHeld, HomeHeld, Given
  <1>6. FaultsOnlyEarly
    BY DEF FaultsOnlyEarly
  <1> QED
    BY <1>1, <1>2, <1>3, <1>4, <1>5, <1>6 DEF IInv

LEMMA StepIInv == IInv /\ [Next]_vars => IInv'
  <1> SUFFICES ASSUME IInv, [Next]_vars PROVE IInv'
    OBVIOUS
  <1>1. CASE UNCHANGED vars
    <2> USE <1>1 DEF vars
    <2>1. TypeOK'
      BY DEF IInv, TypeOK
    <2>2. ListOrder' /\ InitPhase' /\ FaultsOnlyEarly'
      BY DEF IInv, ListOrder, InitPhase, FaultsOnlyEarly, EndedEarly
    <2>3. ThingsHeld'
      BY DEF IInv, ThingsHeld, Ended, Given
    <2>4. LocksHeld'
      BY DEF IInv, LocksHeld, Lost, EndedEarly, Entered, DirsHeld, CwdHeld, HomeHeld, Home, Given
    <2> QED
      BY <2>1, <2>2, <2>3, <2>4 DEF IInv
  <1>2. CASE Initialise
    BY <1>2, InitMallocStep, InitFdStep, InitSemStep, InitWorkbenchStep, NoWindowStep,
       InitCommandlineStep, InitAmigapathStep, InitPrognameStep, InitDirlistStep,
       InitChdirStep, InitTimerStep, MainStep DEF Initialise
  <1>3. CASE Program
    BY <1>3, OpendirStep, ClosedirStep, ChdirStep, SocketStep, AtexitStep, CallExitStep
       DEF Program
  <1>4. CASE Finish
    BY <1>4, DestroyedStep, CallHandlerStep, HandlerReturnsStep, DoexitStep,
       ExitChdirStep, ExitDirlistStep, ExitWorkbenchStep, ExitCommandlineStep,
       ExitSemStep, ExitFdStep, ExitBsdsocketStep, ExitMallocStep, ReturnStep DEF Finish
  <1> QED
    BY <1>1, <1>2, <1>3, <1>4 DEF Next

----------------------------------------------------------------------------
\* The state that the lists and the program leave behind is the one of IInv, after every
\* call of a function of the lists (startupwos.c:114-137, 199-239).
THEOREM Invariance == Spec => []IInv
  <1> QED
    BY InitIInv, StepIInv, PTL DEF Spec

\* Whatever chdir(), opendir() and exit() were called, from main(), a destructor or a
\* handler: when the program has returned, its locks are unlocked and the launcher has its
\* directory again (chdir.c:54-64, dir.c:43-57, __nocommandline.c:135-147).
THEOREM LocksReturned == Spec => []LocksGivenBack
  <1>1. IInv => LocksGivenBack
    <2> SUFFICES ASSUME IInv, Returned, ~(EndedEarly /\ start.wb /\ start.args)
                 PROVE  os.locks = {Launcher, Icon} /\ os.cwd = Launcher
      BY DEF LocksGivenBack
    <2>1. /\ Given("__exitchdir") /\ Given("_EXIT_5_dirlist") /\ Given("__exitcommandline")
      BY FiniNumbers DEF IInv, ListOrder, Returned, Given
    <2> QED
      BY <2>1 DEF IInv, LocksHeld, Returned, Lost, DirsHeld, CwdHeld, HomeHeld
  <1> QED
    BY <1>1, Invariance, PTL

\* Window, command line, library, sockets, pool and semaphore are given back too, and no
\* handler of atexit() is left (startupwos.c:114-137).
THEOREM AllReturned == Spec => []AllGivenBack
  <1>1. IInv => AllGivenBack
    <2> SUFFICES ASSUME IInv, Returned
                 PROVE  /\ ~os.window /\ os.blocks = {} /\ ~os.base /\ ~os.socket
                        /\ ~os.pool /\ ~os.sem /\ handlers = 0
      BY DEF AllGivenBack
    <2>1. \A f \in FiniFunctions : Given(f)
      BY DEF IInv, ListOrder, Returned, Given
    <2>2. /\ Given("__exitcommandline") /\ Given("__exit_sem") /\ Given("__exit_fd")
          /\ Given("_EXIT_4_bsdsocket") /\ Given("__exitmalloc") /\ Given("doexit")
      BY <2>1, FiniNumbers
    <2> QED
      BY <2>2 DEF IInv, TypeOK, OsTypes, LibTypes, ThingsHeld, Ended, Returned
  <1> QED
    BY <1>1, Invariance, PTL

\* A fini function uses nothing that is not there, unless the program ended before its
\* init functions had come so far (__fd.c, dir.c:43-57, semaphore of __init_sem).
THEOREM NoFaultLater == Spec => []FaultsOnlyEarly
  <1> QED
    BY Invariance, PTL DEF IInv
=============================================================================
