------------------------------ MODULE Startup ------------------------------
(***************************************************************************)
(* From the start of a program to its return: the init functions that      *)
(* callfuncs() of startup/startupwos.c calls, main(), and exit(), which    *)
(* calls the destructors and the fini functions and then leaves with the   *)
(* stack and the link register saved at the start, from wherever it was    *)
(* called.  An init function, a destructor or an atexit() handler may call *)
(* exit() too.  Each action is one function of the lists, with what it     *)
(* takes from the system or gives back.  callfuncs() itself is CallFuncs,  *)
(* here it is what CallOrder says of it; what the fini functions do with   *)
(* descriptors and streams is in Descriptors.                              *)
(***************************************************************************)
EXTENDS Integers

CONSTANTS
  NoLock,       \* the lock 0
  Launcher,     \* the lock of the directory the program is started in
  Icon,         \* wa_Lock of the start message of Workbench
  Locks,        \* the locks AmigaDOS may hand out
  MaxHandlers,  \* bound: calls of atexit()
  MaxExits      \* bound: calls of exit()

\* A lock is an address, 0 is none; a lock that is handed out is not the one the launcher
\* keeps, nor the one Workbench does.
ASSUME LocksAssumption ==
  /\ Launcher \notin Locks /\ Icon \notin Locks
  /\ NoLock \notin Locks \cup {Launcher, Icon}

VARIABLES
  start,       \* from Workbench (wb), with sm_ArgList (args), __stdiowin not empty (window)
  mode,        \* what runs; "wild" after memory that is nobody's was used
  done,        \* the functions of the present list that were called
  os,          \* what the process has of the system
  lib,         \* the static variables of the library
  handlers,    \* functions registered with atexit() and not yet called
  registered,  \* calls of atexit()
  exits,       \* calls of exit()
  faults       \* what was used before it existed or after it was given back

vars == <<start, mode, done, os, lib, handlers, registered, exits, faults>>
rest == <<start, handlers, registered>>

Blocks == {"cline", "argv", "name"}

(* os:  locks that are not unlocked, CurrentDir(), Input(), whether the window is open,    *)
(*      the blocks of AllocVecPPC(), pool, base of bsdsocket.library, socket, semaphore.   *)
(* lib: cd, window and the blocks of the command line (__nocommandline.c); oldlock and     *)
(*      havelock (chdir.c); dirlist and the locks in it (dir.c); __fp and __stdin          *)
(*      (__stdiowin.c); SocketBase (bsdsocket.c).                                          *)

----------------------------------------------------------------------------
\* The lists.

InitPriority ==
  [__initmalloc |-> 110, __init_fd |-> 130, __init_sem |-> 140, __initcommandline |-> 150,
   __initamigapath |-> 160, _INIT_3_progname |-> 170, _INIT_5_dirlist |-> 180,
   __initchdir |-> 190, __inittimer |-> 200]

Fini(ofDoexit, ofChdir, ofMalloc) ==
  [doexit |-> ofDoexit, __exitchdir |-> ofChdir, _EXIT_5_dirlist |-> 180,
   __exitcommandline |-> 150, __exit_sem |-> 140, __exit_fd |-> 130,
   _EXIT_4_bsdsocket |-> 120, __exitmalloc |-> ofMalloc]

\* Mutations of FiniPriority: the handlers after what they use; the first directory
\* before the later one.
DoexitLast == Fini(100, 190, 110)
ChdirLate  == Fini(210, 145, 110)

FiniPriority == Fini(210, 190, 110)

\* callfuncs() has come to f.
Initialising(f) ==
  /\ mode = "init" /\ f \notin done
  /\ \A g \in DOMAIN InitPriority \ done : InitPriority[f] <= InitPriority[g]

Finishing(f) ==
  /\ mode = "fini" /\ f \notin done
  /\ \A g \in DOMAIN FiniPriority \ done : FiniPriority[f] >= FiniPriority[g]

\* f returns to callfuncs().
Returns(f) == done' = done \cup {f} /\ UNCHANGED <<mode, exits>>

\* f reads through memory that is not what it takes it for: it finds nothing to do,
\* or anything happens.
Strays(f, what) ==
  /\ faults' = faults \cup {what}
  /\ Returns(f) \/ (mode' = "wild" /\ UNCHANGED <<done, exits>>)

\* exit(): the destructors are next.
Exit == mode' = "dtors" /\ exits' = exits + 1 /\ UNCHANGED done

\* The fault of a step that needs what may be missing.
Needs(what, present) == faults' = IF present THEN faults ELSE faults \cup {what}

----------------------------------------------------------------------------
Init ==
  /\ start \in [wb : BOOLEAN, args : BOOLEAN, window : BOOLEAN]
  /\ mode = "init" /\ done = {}
  /\ os = [locks |-> {Launcher, Icon}, cwd |-> Launcher, input |-> "launcher", window |-> FALSE,
           blocks |-> {}, pool |-> FALSE, base |-> FALSE, socket |-> FALSE, sem |-> FALSE]
  /\ lib = [cd |-> NoLock, window |-> FALSE, command |-> {}, oldlock |-> NoLock,
            havelock |-> FALSE, dirlist |-> FALSE, dirs |-> {}, fp |-> FALSE, stdin |-> "none",
            SocketBase |-> FALSE]
  /\ handlers = 0 /\ registered = 0 /\ exits = 0
  /\ faults = {}

NewLocks == Locks \ os.locks

\* CurrentDir(l) with a lock l that was just made.
Enter(l) == [os EXCEPT !.locks = @ \cup {l}, !.cwd = l]

\* CreatePoolPPC() may fail, which is not looked at.
InitMalloc ==
  /\ Initialising("__initmalloc") /\ Returns("__initmalloc")
  /\ \E created \in BOOLEAN : os' = [os EXCEPT !.pool = created]
  /\ UNCHANGED <<rest, lib, faults>>

\* Without memory for the table the program ends; without a pool calloc() is the first to
\* use what is not there.
InitFd ==
  /\ Initialising("__init_fd")
  /\ \/ os.pool /\ Returns("__init_fd") /\ lib' = [lib EXCEPT !.fp = TRUE, !.stdin = os.input]
     \/ Exit /\ UNCHANGED lib
     \/ ~os.pool /\ mode' = "wild" /\ UNCHANGED <<done, exits, lib>>
  /\ Needs("pool", os.pool)
  /\ UNCHANGED <<rest, os>>

InitSem ==
  /\ Initialising("__init_sem") /\ Returns("__init_sem")
  /\ os' = [os EXCEPT !.sem = TRUE]
  /\ UNCHANGED <<rest, lib, faults>>

\* The window of a program started from Workbench opens, and the program goes to the
\* directory of its icon; DupLock() may return 0.
InitWorkbench ==
  /\ Initialising("__initcommandline") /\ start.wb /\ Returns("__initcommandline")
  /\ lib' = [lib EXCEPT !.window = start.window, !.cd = IF start.args THEN os.cwd ELSE @]
  /\ \E o \in IF start.args THEN {Enter(l) : l \in NewLocks} \cup {[os EXCEPT !.cwd = NoLock]}
                            ELSE {os} :
       os' = IF start.window THEN [o EXCEPT !.window = TRUE, !.input = "window"] ELSE o
  /\ UNCHANGED <<rest, faults>>

\* It does not open.
NoWindow ==
  /\ Initialising("__initcommandline") /\ start.wb /\ start.window
  /\ Exit
  /\ UNCHANGED <<rest, os, lib, faults>>

\* The words of the command line, the vector of arguments and the name of the
\* program are allocated in this order; the first that cannot be ends the program.
InitCommandline ==
  /\ Initialising("__initcommandline") /\ ~start.wb
  /\ \E b \in {{}, {"cline"}, {"cline", "argv"}, Blocks} :
       /\ os' = [os EXCEPT !.blocks = b] /\ lib' = [lib EXCEPT !.command = b]
       /\ IF b = Blocks THEN Returns("__initcommandline") ELSE Exit
  /\ UNCHANGED <<rest, faults>>

\* When GetProgramName() fails the name is read from sm_ArgList.
InitProgname ==
  /\ Initialising("_INIT_3_progname")
  /\ \/ Returns("_INIT_3_progname") /\ UNCHANGED faults
     \/ start.wb /\ ~start.args /\ Strays("_INIT_3_progname", "sm_ArgList")
  /\ UNCHANGED <<rest, os, lib>>

InitDirlist ==
  /\ Initialising("_INIT_5_dirlist") /\ Returns("_INIT_5_dirlist")
  /\ lib' = [lib EXCEPT !.dirlist = TRUE, !.dirs = {}]
  /\ UNCHANGED <<rest, os, faults>>

InitChdir ==
  /\ Initialising("__initchdir")
  /\ \/ /\ \E l \in NewLocks : os' = Enter(l)
        /\ lib' = [lib EXCEPT !.oldlock = os.cwd, !.havelock = TRUE]
        /\ Returns("__initchdir")
     \/ Exit /\ UNCHANGED <<os, lib>>
  /\ UNCHANGED <<rest, faults>>

\* They keep nothing that is given back.
InitAmigapath ==
  /\ Initialising("__initamigapath") /\ Returns("__initamigapath")
  /\ UNCHANGED <<rest, os, lib, faults>>

InitTimer ==
  /\ Initialising("__inittimer") /\ Returns("__inittimer")
  /\ UNCHANGED <<rest, os, lib, faults>>

\* The constructors and main().
Main ==
  /\ mode = "init" /\ done = DOMAIN InitPriority
  /\ mode' = "main"
  /\ UNCHANGED <<rest, done, os, lib, exits, faults>>

----------------------------------------------------------------------------
\* The program: main(), and what it has given exit() to call, the destructors and
\* the handlers.
ProgramRuns == mode \in {"main", "dtors", "handler"} /\ lib.havelock

Opendir ==
  /\ ProgramRuns
  /\ \E l \in NewLocks :
       os' = [os EXCEPT !.locks = @ \cup {l}] /\ lib' = [lib EXCEPT !.dirs = @ \cup {l}]
  /\ UNCHANGED <<rest, mode, done, exits, faults>>

Closedir ==
  /\ ProgramRuns
  /\ \E l \in lib.dirs :
       os' = [os EXCEPT !.locks = @ \ {l}] /\ lib' = [lib EXCEPT !.dirs = @ \ {l}]
  /\ UNCHANGED <<rest, mode, done, exits, faults>>

\* UnLock(CurrentDir(l))
Leave(o, l) == [o EXCEPT !.locks = @ \ {os.cwd}, !.cwd = l]

Chdir ==
  /\ ProgramRuns
  /\ \E l \in NewLocks : os' = Leave(Enter(l), l)
  /\ Needs("lock", os.cwd \in os.locks)
  /\ UNCHANGED <<rest, mode, done, lib, exits>>

\* The first call that needs bsdsocket.library opens it.
Socket ==
  /\ ProgramRuns
  /\ os' = [os EXCEPT !.base = TRUE, !.socket = TRUE]
  /\ lib' = [lib EXCEPT !.SocketBase = TRUE]
  /\ UNCHANGED <<rest, mode, done, exits, faults>>

Atexit ==
  /\ ProgramRuns /\ registered < MaxHandlers
  /\ handlers' = handlers + 1 /\ registered' = registered + 1
  /\ UNCHANGED <<start, mode, done, os, lib, exits, faults>>

\* exit(), and the return from main().
CallExit ==
  /\ ProgramRuns /\ exits < MaxExits
  /\ Exit
  /\ UNCHANGED <<rest, os, lib, faults>>

\* The destructors have returned.
Destroyed ==
  /\ mode = "dtors"
  /\ mode' = "fini" /\ done' = {}
  /\ UNCHANGED <<rest, os, lib, exits, faults>>

----------------------------------------------------------------------------
\* Mutations of CallHandler: the end of the list is not seen; only one handler is
\* called; the handler stays on the list.
CallHandlerAlways ==
  /\ Finishing("doexit")
  /\ handlers' = handlers - 1
  /\ mode' = "handler"
  /\ UNCHANGED <<start, done, os, lib, registered, exits, faults>>
CallHandlerOnce ==
  /\ Finishing("doexit") /\ handlers > 0
  /\ handlers' = handlers - 1
  /\ mode' = "handler" /\ done' = done \cup {"doexit"}
  /\ UNCHANGED <<start, os, lib, registered, exits, faults>>
CallHandlerKeeps ==
  /\ Finishing("doexit") /\ handlers > 0
  /\ mode' = "handler"
  /\ UNCHANGED <<rest, done, os, lib, exits, faults>>

\* __call_exitprocs() takes a handler off its list and calls it.
CallHandler ==
  /\ Finishing("doexit") /\ handlers > 0
  /\ handlers' = handlers - 1
  /\ mode' = "handler"
  /\ UNCHANGED <<start, done, os, lib, registered, exits, faults>>

HandlerReturns ==
  /\ mode = "handler"
  /\ mode' = "fini"
  /\ UNCHANGED <<rest, done, os, lib, exits, faults>>

Doexit ==
  /\ Finishing("doexit") /\ handlers = 0 /\ Returns("doexit")
  /\ UNCHANGED <<rest, os, lib, faults>>

ExitChdir ==
  /\ Finishing("__exitchdir") /\ Returns("__exitchdir")
  /\ IF lib.havelock
     THEN os' = Leave(os, lib.oldlock) /\ Needs("lock", os.cwd \in os.locks)
     ELSE UNCHANGED <<os, faults>>
  /\ UNCHANGED <<rest, lib>>

\* The DIRs that are still open; the list has no head without its init function.
ExitDirlist ==
  /\ Finishing("_EXIT_5_dirlist")
  /\ IF lib.dirlist
     THEN /\ os' = [os EXCEPT !.locks = @ \ lib.dirs]
          /\ Needs("pool", lib.dirs = {} \/ os.pool)
          /\ Returns("_EXIT_5_dirlist")
     ELSE Strays("_EXIT_5_dirlist", "dirlist") /\ UNCHANGED os
  /\ UNCHANGED <<rest, lib>>

ExitWorkbench ==
  /\ Finishing("__exitcommandline") /\ start.wb /\ Returns("__exitcommandline")
  /\ LET o == [os EXCEPT !.window = FALSE] IN os' = IF start.args THEN Leave(o, lib.cd) ELSE o
  /\ Needs("window", lib.window => os.window)
  /\ UNCHANGED <<rest, lib>>

ExitCommandline ==
  /\ Finishing("__exitcommandline") /\ ~start.wb /\ Returns("__exitcommandline")
  /\ os' = [os EXCEPT !.blocks = @ \ lib.command]
  /\ Needs("blocks", lib.command \subseteq os.blocks)
  /\ UNCHANGED <<rest, lib>>

\* FreeSemaphorePPC() of a semaphore that was never initialised.
ExitSem ==
  /\ Finishing("__exit_sem")
  /\ IF os.sem THEN Returns("__exit_sem") /\ UNCHANGED faults
               ELSE Strays("__exit_sem", "semaphore")
  /\ os' = [os EXCEPT !.sem = FALSE]
  /\ UNCHANGED <<rest, lib>>

\* close() of the sockets needs the library.
ExitFd ==
  /\ Finishing("__exit_fd")
  /\ IF lib.fp THEN Returns("__exit_fd") /\ Needs("library", os.socket => os.base)
               ELSE Strays("__exit_fd", "__fp")
  /\ os' = [os EXCEPT !.socket = FALSE]
  /\ UNCHANGED <<rest, lib>>

\* SocketBase keeps its value.
ExitBsdsocket ==
  /\ Finishing("_EXIT_4_bsdsocket") /\ Returns("_EXIT_4_bsdsocket")
  /\ os' = [os EXCEPT !.base = FALSE]
  /\ Needs("library", lib.SocketBase => os.base)
  /\ UNCHANGED <<rest, lib>>

ExitMalloc ==
  /\ Finishing("__exitmalloc")
  /\ IF os.pool THEN Returns("__exitmalloc") /\ UNCHANGED faults ELSE Strays("__exitmalloc", "pool")
  /\ os' = [os EXCEPT !.pool = FALSE]
  /\ UNCHANGED <<rest, lib>>

\* The launcher continues after its call of the program.
Return ==
  /\ mode = "fini" /\ done = DOMAIN FiniPriority
  /\ mode' = "returned"
  /\ UNCHANGED <<rest, done, os, lib, exits, faults>>

----------------------------------------------------------------------------
Initialise ==
  \/ InitMalloc \/ InitFd \/ InitSem \/ InitWorkbench \/ NoWindow \/ InitCommandline
  \/ InitAmigapath \/ InitProgname \/ InitDirlist \/ InitChdir \/ InitTimer \/ Main

Program == Opendir \/ Closedir \/ Chdir \/ Socket \/ Atexit \/ CallExit

Finish ==
  \/ Destroyed \/ CallHandler \/ HandlerReturns \/ Doexit \/ ExitChdir \/ ExitDirlist
  \/ ExitWorkbench \/ ExitCommandline \/ ExitSem \/ ExitFd \/ ExitBsdsocket \/ ExitMalloc
  \/ Return

Next == Initialise \/ Program \/ Finish

\* The functions of the library wait for nothing; destructors and handlers are assumed
\* to return or to call exit().  Nothing makes main() end.
Spec == Init /\ [][Next]_vars /\ WF_vars(Initialise) /\ WF_vars(Finish)

----------------------------------------------------------------------------
Returned == mode = "returned"

\* exit() before the list of directories exists: memory for the pool, the table, the command
\* line or the window was not to be had (malloc.c:67, __stdiowin.c:151, __nocommandline.c:46,
\* 63, 108, 127).
EndedEarly == mode # "init" /\ ~lib.dirlist

\* Whatever the program did with chdir(), opendir() and exit(), also inside a destructor
\* or a handler, the launcher gets back its directory and every lock the library took is
\* unlocked, once (chdir.c:61, dir.c:46-54, __nocommandline.c:141-142).  Not so when a
\* program from Workbench ends before it has entered the directory of its icon.
LocksGivenBack ==
  Returned /\ ~(EndedEarly /\ start.wb /\ start.args) =>
    os.locks = {Launcher, Icon} /\ os.cwd = Launcher

\* The other things too: window, memory, library, socket, pool and semaphore; and every
\* handler was called.
AllGivenBack ==
  Returned =>
    /\ ~os.window /\ os.blocks = {} /\ ~os.base /\ ~os.socket /\ ~os.pool /\ ~os.sem
    /\ handlers = 0

\* No fini function uses what one before it gave back, or gives back what an exit()
\* before gave back already, though SocketBase, window, havelock and cline keep their
\* values.  What does not exist yet is used only when the program ends early, and
\* sm_ArgList only when Workbench sends none (progname.c:28).
FaultsOnlyEarly ==
  /\ faults \subseteq {"pool", "dirlist", "semaphore", "__fp", "sm_ArgList"}
  /\ faults \subseteq {"sm_ArgList"} \/ EndedEarly

\* An exit() comes to its end, however many more there are in destructors and handlers:
\* each restarts the fini list and the handlers left become fewer (startupwos.c:114-137).
ExitEnds == mode = "dtors" ~> mode \in {"returned", "wild"}

----------------------------------------------------------------------------
\* What a comment says.

\* "set original lock" (__nocommandline.c:141): the current directory of the launcher,
\* locked as it was.
OriginalLockSet == Returned => os.cwd = Launcher /\ Launcher \in os.locks
=============================================================================
