---------------------------- MODULE Descriptors ----------------------------
(***************************************************************************)
(* The descriptor table of the C library: __fp, the table from POSIX       *)
(* descriptors to FILE objects, the pool of FILE objects that stdio and    *)
(* the system-call layer share, and the AmigaDOS handles, locks and        *)
(* AmiTCP sockets the FILEs hold.                                          *)
(*                                                                         *)
(* A call of the library is one action.  What it does to the table, the    *)
(* pool and the handles is written as operators on a record L of those     *)
(* variables, so that a call made inside another call (the close() in      *)
(* dup2(), the _open_fp() in freopen()) is the same operator.  What        *)
(* dos.library and bsdsocket.library answer is chosen freely.              *)
(***************************************************************************)
EXTENDS Integers, FiniteSets

CONSTANTS
  InitMaxfd,    \* entries of __fp after __init_fd (256 in the code)
  Slack,        \* what getfd adds to twice the old size (8 in the code)
  MaxfdBound,   \* bound: no table larger than this is ever allocated
  NumFiles,     \* FILE objects memory has room for, the three of stdio included
  Handles,      \* handles, locks and sockets the operating system may give out
  StdIn, StdOut,\* the two handles Input() and Output() return
  NoHandle,     \* the value 0 of _handle
  NULL,         \* a null FILE pointer
  Requests,     \* the sets of O_ flags that open() and fopen() are called with
  DupTargets,   \* the second arguments dup2() is called with
  Calls,        \* the calls the program makes
  StdUsed,      \* the standard descriptors it passes to them
  MaxNest,      \* bound: no FILE is duplicated further than this
  Disciplined   \* TRUE: the program only uses descriptors it was given

FDs   == 0 .. MaxfdBound - 1
Files == 0 .. NumFiles - 1
Std   == {StdIn, StdOut}
LibCalls == {"open", "fopen", "freopen", "fclose", "fdopen", "close", "dup", "dup2",
             "fcntl", "socket"}
OFlag == {"WRONLY", "RDWR", "CREAT", "EXCL", "TRUNC", "APPEND"}

ASSUME SizeAssumption ==
  /\ InitMaxfd \in Nat /\ InitMaxfd > 3
  /\ Slack \in Nat
  /\ MaxfdBound \in Nat /\ MaxfdBound >= InitMaxfd
  /\ NumFiles \in Nat /\ NumFiles >= 3
  /\ MaxNest \in Nat
  /\ DupTargets \subseteq 0 .. InitMaxfd - 1
  /\ Disciplined \in BOOLEAN

ASSUME ValueAssumption ==
  /\ Std \subseteq Handles
  /\ NoHandle \notin Handles
  /\ NULL \notin Files
  /\ Requests \subseteq SUBSET OFlag
  /\ Calls \subseteq LibCalls
  /\ StdUsed \subseteq 0 .. 2

VARIABLES
  fp,          \* __fp: the FILE of each descriptor, or NULL
  maxfd,       \* __maxfd
  iob,         \* the FILE objects, in the order __sfp searches them
  dos,         \* what the operating system holds open under each handle
  sdidinit,    \* __sdidinit: __sinit has set up the three standard FILEs
  phase,       \* where the program is: main, the exit functions, or the end
  cursor,      \* the loop variable of the exit function that is running
  owned,       \* descriptors the program was given and has not closed
  miscounted,  \* a FILE was installed where its count does not see it (Miscounts)
  faulted      \* dos.library refused a Close() during exit

vars == <<fp, maxfd, iob, dos, sdidinit, phase, cursor, owned, miscounted, faulted>>

FileFlags == {"free", "reserved", "std", "stream"}
FdFlags   == {"STDIO", "DIRLOCK", "SOCKET"}
DosState  == {"closed", "file", "lock", "sock"}
Phases    == {"main", "cleanup", "exitfd", "done", "wild"}

(***************************************************************************)
(* A FILE, with the fields WarpUp adds.  "free" is _flags = 0, "reserved"  *)
(* is the 1 that __sfp leaves, "std" a standard stream (its _close is      *)
(* NULL) and "stream" a FILE with the _close of stdio.                     *)
(***************************************************************************)
FILE == [flags: FileFlags, file: FDs \cup {-1}, handle: Handles \cup {NoHandle},
         fdflags: SUBSET FdFlags, nestcnt: Nat]

Blank == [flags |-> "free", file |-> -1, handle |-> NoHandle, fdflags |-> {}, nestcnt |-> 0]

Lib == [fp |-> fp, maxfd |-> maxfd, iob |-> iob, dos |-> dos, sdidinit |-> sdidinit]

Becomes(L) ==
  /\ fp' = L.fp /\ maxfd' = L.maxfd /\ iob' = L.iob
  /\ dos' = L.dos /\ sdidinit' = L.sdidinit

----------------------------------------------------------------------------
(* The pool of FILE objects.                                               *)

StdHandle == [f \in 0 .. 2 |-> IF f = 0 THEN StdIn ELSE StdOut]

\* std(): the FILE of a standard descriptor.
StdFile(f) == [flags |-> "std", file |-> f, handle |-> StdHandle[f],
               fdflags |-> {"STDIO"}, nestcnt |-> 0]

\* __sinit(), which __sfp() calls first: descriptors 0, 1 and 2 exist only from
\* then on.
Sinited(L) ==
  IF L.sdidinit THEN L
  ELSE [L EXCEPT !.iob = [f \in Files |-> IF f < 3 THEN StdFile(f) ELSE L.iob[f]],
                 !.fp  = [d \in FDs |-> IF d < 3 THEN d ELSE L.fp[d]],
                 !.sdidinit = TRUE]

\* The FILE that __sfp() finds: the first free one.
IsSfp(L, f) == L.iob[f].flags = "free" /\ \A g \in Files : g < f => L.iob[g].flags # "free"

\* No FILE is free and _malloc_r fails in __sfmoreglue().
SfpFails(L) == \A f \in Files : L.iob[f].flags # "free"

\* What __sfp() leaves in the FILE it found.
Reserved(L, f) == [L EXCEPT !.iob[f] = [Blank EXCEPT !.flags = "reserved"]]

SetFlags(L, f, fl)    == [L EXCEPT !.iob[f].flags = fl]
SetStream(L, f, fd)   == [L EXCEPT !.iob[f].flags = "stream", !.iob[f].file = fd]

----------------------------------------------------------------------------
(* The table.                                                              *)

\* getfd() finds the table full.
TableFull(L) == \A d \in 3 .. L.maxfd - 1 : L.fp[d] # NULL

\* The descriptor getfd() returns: the first free one above 2, or the first
\* entry that realloc() adds.
IsGetfd(L, fd) ==
  \/ /\ fd \in 3 .. L.maxfd - 1 /\ L.fp[fd] = NULL
     /\ \A d \in 3 .. fd - 1 : L.fp[d] # NULL
  \/ /\ fd = L.maxfd /\ TableFull(L)
     /\ L.maxfd + L.maxfd + Slack <= MaxfdBound

\* A mutation of Getfd: the larger table is a new one.
GetfdForgets(L, fd) ==
  IF fd < L.maxfd THEN L
  ELSE [L EXCEPT !.fp = [d \in FDs |-> NULL], !.maxfd = L.maxfd + L.maxfd + Slack]

\* The table once getfd() has returned fd.
Getfd(L, fd) ==
  IF fd < L.maxfd THEN L
  ELSE [L EXCEPT !.fp = [d \in FDs |-> IF d < L.maxfd THEN L.fp[d] ELSE NULL],
                 !.maxfd = L.maxfd + L.maxfd + Slack]

----------------------------------------------------------------------------
(* Handles.                                                                *)

FreeHandles(L) == {h \in Handles \ Std : L.dos[h] = "closed"}

\* What Close() and CloseSocket() do: each releases its own kind of object,
\* and neither releases a lock.
Release(L, h, kind) ==
  IF h # NoHandle /\ L.dos[h] = kind THEN [L EXCEPT !.dos[h] = "closed"] ELSE L

ReleaseKind(r) == IF "SOCKET" \in r.fdflags THEN "sock" ELSE "file"

\* Close() is asked and answers ok: a socket is closed without an answer.
CloseRefused(r, ok) == "SOCKET" \notin r.fdflags /\ ~ok

\* A mutation of IsNested: the count only changes.
AlwaysNested(r) == TRUE

\* close() of a FILE that other descriptors share only counts down; the entry of
\* the descriptor stays.
IsNested(r) == r.nestcnt > 0

\* Mutations of CloseNested: the entry goes and the count stays; the FILE is emptied.
CloseNestedClears(L, f, fd)  == [L EXCEPT !.fp[fd] = NULL]
CloseNestedEmpties(L, f, fd) == [L EXCEPT !.iob[f].handle = NoHandle, !.iob[f].fdflags = {}]

CloseNested(L, f, fd) == [L EXCEPT !.iob[f].nestcnt = @ - 1]

\* A mutation of Emptied: the FILE keeps its handle.
KeepsHandle(r) == [r EXCEPT !.fdflags = {}]

\* The FILE after its handle was closed.
Emptied(r) == [r EXCEPT !.handle = NoHandle, !.fdflags = {}]

\* _close(fd), where ok is what Close() answers if it is asked.
CloseFd(L, fd, ok) ==
  IF fd \notin 3 .. L.maxfd - 1 THEN L
  ELSE IF L.fp[fd] = NULL THEN L
  ELSE LET f == L.fp[fd]
           r == L.iob[f]
       IN IF IsNested(r) THEN CloseNested(L, f, fd)
          ELSE IF CloseRefused(r, ok) THEN L
          ELSE [Release(L, r.handle, ReleaseKind(r)) EXCEPT
                  !.iob[f] = Emptied(@), !.fp[fd] = NULL]

\* _close(fd) returns 0.
CloseSucceeds(L, fd, ok) ==
  \/ fd \in 0 .. 2
  \/ /\ fd \in 3 .. L.maxfd - 1 /\ L.fp[fd] # NULL
     /\ LET r == L.iob[L.fp[fd]] IN IsNested(r) \/ ~CloseRefused(r, ok)

\* _fclose_r: closes the descriptor of a FILE that has a _close, frees the FILE.
FcloseFile(L, f, ok) ==
  LET c == IF L.iob[f].flags = "stream" THEN CloseFd(L, L.iob[f].file, ok) ELSE L
  IN SetFlags(c, f, "free")

----------------------------------------------------------------------------
(* Opening a file.                                                         *)

\* What dos.library may answer to the calls _open_fp() makes: what Lock() and
\* Examine() find, and whether opening, creating, truncating and seeking work.
DosAnswers == [lock: {"dir", "file", "nolock", "absent"}, open: BOOLEAN, create: BOOLEAN,
               setsize: {"ok", "fail", "unknown"}, reopen: BOOLEAN, seek: BOOLEAN]

Results == {"refused", "stranded", "lock", "file"}

\* How _open_fp() ends.  "stranded" is the failed truncation, which returns
\* without closing the handle it has opened.
OpenResult(flags, a) ==
  LET old == a.lock \in {"file", "nolock"} /\ a.open
      new == ~old /\ "CREAT" \in flags /\ a.create
      truncates == ~new /\ "TRUNC" \in flags
      appends   == ~new /\ ~truncates /\ "APPEND" \in flags
  IN IF a.lock = "dir"
       THEN IF flags \cap {"CREAT", "TRUNC", "APPEND", "RDWR", "WRONLY"} = {}
              THEN "lock" ELSE "refused"
     ELSE IF old /\ {"CREAT", "EXCL"} \subseteq flags THEN "refused"
     ELSE IF ~old /\ ~new THEN "refused"
     ELSE IF truncates /\ a.setsize = "fail" THEN "stranded"
     ELSE IF truncates /\ a.setsize = "unknown" /\ ~a.reopen THEN "refused"
     ELSE IF appends /\ ~a.seek THEN "refused"
     ELSE "file"

OpenResults == [flags \in Requests |-> {OpenResult(flags, a) : a \in DosAnswers}]

\* The FILE of an opened file or locked directory; what else it was stays set.
Holding(r, res, h) ==
  [r EXCEPT !.handle = h, !.fdflags = @ \cup (IF res = "lock" THEN {"DIRLOCK"} ELSE {})]

\* _open_fp() for FILE f once getfd() has returned fd; h is the handle it is given.
OpenFp(L, f, fd, res, h) ==
  LET G == Getfd(L, fd)
  IN IF res = "refused" THEN G
     ELSE IF res = "stranded" THEN [G EXCEPT !.dos[h] = "file"]
     ELSE [G EXCEPT !.dos[h] = res, !.fp[fd] = f, !.iob[f] = Holding(@, res, h)]

Opened(res) == res \in {"lock", "file"}

----------------------------------------------------------------------------
(* The calls.                                                              *)

Init ==
  /\ fp = [d \in FDs |-> NULL]
  /\ maxfd = InitMaxfd
  /\ iob = [f \in Files |-> Blank]
  /\ dos = [h \in Handles |-> IF h \in Std THEN "file" ELSE "closed"]
  /\ sdidinit = FALSE
  /\ phase = "main" /\ cursor = 0
  /\ owned = 0 .. 2
  /\ miscounted = FALSE /\ faulted = FALSE

\* The program is running and calls this function.
Called(call) == phase = "main" /\ call \in Calls

\* The program may pass fd to a call.
MayUse(fd) ==
  /\ fd \in StdUsed \cup 3 .. maxfd - 1
  /\ Disciplined => fd \in owned

\* The program is given the descriptors in got and gives up those in lost.
Learns(got, lost) == owned' = IF Disciplined THEN (owned \ lost) \cup got ELSE owned

Quiet   == UNCHANGED <<phase, cursor, miscounted, faulted>>
NoTable == phase' = "wild" /\ UNCHANGED <<cursor, owned, miscounted, faulted>>

\* The first stdio call on a standard stream (CHECK_INIT).
Stdio ==
  /\ phase = "main" /\ ~sdidinit
  /\ Becomes(Sinited(Lib))
  /\ Learns({}, {}) /\ Quiet

\* realloc() fails in getfd(), which has overwritten __fp with its answer: there
\* is no table any more and the next call that reads it does so through NULL.
LoseTable ==
  /\ phase = "main" /\ TableFull(Lib)
  /\ Becomes(Lib) /\ NoTable

\* open(): the FILE that __sfp() reserves stays reserved if _open_fp() fails.
Open(flags) ==
  LET S == Sinited(Lib) IN
  /\ Called("open")
  /\ \E f \in Files, fd \in FDs :
       LET R == Reserved(S, f) IN
       /\ IsSfp(S, f) /\ IsGetfd(R, fd)
       /\ \E res \in OpenResults[flags], h \in FreeHandles(S) \cup {NoHandle} :
            /\ (h = NoHandle) <=> (res = "refused")
            /\ Becomes(OpenFp(R, f, fd, res, h))
            /\ Learns(IF Opened(res) THEN {fd} ELSE {}, {})
  /\ Quiet

\* _open_fp() as fopen() and freopen() use it, with the FILE f of the caller:
\* the caller sets the real flags, or sets the FILE free.
OpenStream(L, f, fd, res, h) ==
  LET O == OpenFp(L, f, fd, res, h)
  IN IF Opened(res) THEN SetStream(O, f, fd) ELSE SetFlags(O, f, "free")

\* fopen()
Fopen(flags) ==
  LET S == Sinited(Lib) IN
  /\ Called("fopen")
  /\ \E f \in Files, fd \in FDs :
       LET R == Reserved(S, f) IN
       /\ IsSfp(S, f) /\ IsGetfd(R, fd)
       /\ \E res \in OpenResults[flags], h \in FreeHandles(S) \cup {NoHandle} :
            /\ (h = NoHandle) <=> (res = "refused")
            /\ Becomes(OpenStream(R, f, fd, res, h))
            /\ Learns(IF Opened(res) THEN {fd} ELSE {}, {})
  /\ Quiet

\* freopen(name, mode, f), where ok is what Close() answers for the old file.
\* A standard stream has no _close, so its handle is overwritten.
\* Handles are names: the new file gets one that was free before the old was closed.
Freopen(f, flags) ==
  LET S == Sinited(Lib) IN
  /\ Called("freopen") /\ S.iob[f].flags \in {"std", "stream"}
  /\ MayUse(S.iob[f].file)
  /\ \E ok \in BOOLEAN :
       LET C == IF S.iob[f].flags = "stream" THEN CloseFd(S, S.iob[f].file, ok) ELSE S IN
       \E fd \in FDs :
         /\ IsGetfd(C, fd)
         /\ \E res \in OpenResults[flags], h \in FreeHandles(S) \cup {NoHandle} :
              /\ (h = NoHandle) <=> (res = "refused")
              /\ Becomes(OpenStream(C, f, fd, res, h))
              /\ Learns(IF Opened(res) THEN {fd} ELSE {}, {S.iob[f].file} \ (0 .. 2))
  /\ Quiet

\* fclose(f); freopen() ends the same way when its mode is bad or its name NULL.
Fclose(f) ==
  /\ Called("fclose") /\ iob[f].flags \in {"std", "stream"}
  /\ MayUse(iob[f].file)
  /\ \E ok \in BOOLEAN : Becomes(FcloseFile(Lib, f, ok))
  /\ Learns({}, {iob[f].file} \ (0 .. 2)) /\ Quiet

\* fdopen(fd) for a descriptor that has a FILE: the FILE becomes a stream of fd.
Fdopen(fd) ==
  /\ Called("fdopen") /\ MayUse(fd) /\ fp[fd] # NULL
  /\ Becomes(SetStream(Lib, fp[fd], fd))
  /\ Learns({}, {}) /\ Quiet

\* fdopen(fd) for a descriptor that has none: a FILE without a handle.
FdopenUnused(fd) ==
  LET S == Sinited(Lib) IN
  /\ Called("fdopen") /\ MayUse(fd) /\ fp[fd] = NULL
  /\ \E f \in Files :
       /\ IsSfp(S, f)
       /\ Becomes([SetStream(Reserved(S, f), f, fd) EXCEPT !.fp[fd] = f])
  /\ Learns({}, {})
  /\ miscounted' = (miscounted \/ fd < 3)
  /\ UNCHANGED <<phase, cursor, faulted>>

\* close(fd)
Close(fd) ==
  /\ Called("close") /\ MayUse(fd) /\ fd > 2
  /\ \E ok \in BOOLEAN :
       /\ Becomes(CloseFd(Lib, fd, ok))
       /\ Learns({}, IF CloseSucceeds(Lib, fd, ok) THEN {fd} ELSE {})
  /\ Quiet

----------------------------------------------------------------------------
(* Sockets and duplicates.                                                 *)

\* The FILE g that __sfp() returned becomes the FILE of socket h at descriptor fd.
SocketFile(L, g, fd, h) ==
  [L EXCEPT !.dos[h] = "sock", !.fp[fd] = g,
            !.iob[g] = [Blank EXCEPT !.flags = "reserved", !.file = fd,
                                     !.handle = h, !.fdflags = {"SOCKET"}]]

\* __socket2fd(): the descriptors that already denote socket h.
KnownSocket(L, h) ==
  {d \in 3 .. L.maxfd - 1 : /\ L.fp[d] # NULL
                            /\ "SOCKET" \in L.iob[L.fp[d]].fdflags
                            /\ L.iob[L.fp[d]].handle = h}

\* socket() and accept(), once bsdsocket.library has answered with socket h.
Socket(h) ==
  LET S == Sinited(Lib) IN
  /\ Called("socket") /\ h \in FreeHandles(Lib) /\ KnownSocket(Lib, h) = {}
  /\ \E fd \in FDs, f \in Files :
       /\ IsGetfd(Lib, fd) /\ IsSfp(S, f)
       /\ Becomes(SocketFile(Getfd(S, fd), f, fd, h))
       /\ Learns({fd}, {})
  /\ Quiet

\* No FILE for the socket: it stays open.
SocketNoFile(h) ==
  LET S == Sinited(Lib) IN
  /\ Called("socket") /\ h \in FreeHandles(Lib) /\ KnownSocket(Lib, h) = {}
  /\ SfpFails(S)
  /\ \E fd \in FDs :
       /\ IsGetfd(Lib, fd)
       /\ Becomes([Getfd(S, fd) EXCEPT !.dos[h] = "sock"])
  /\ Learns({}, {}) /\ Quiet

\* A mutation of DupSockets: the new FILE is given the socket of the old one.
SameSocket(L, f) == {L.iob[f].handle}

\* The sockets Dup2Socket() may return for FILE f.
DupSockets(L, f) == FreeHandles(L)

\* What dup() and dup2() do once the descriptor is chosen: a file or a lock is
\* shared; a socket is duplicated into a FILE of its own.
Duplicate(L, f, newd) ==
  \/ /\ "SOCKET" \notin L.iob[f].fdflags /\ L.iob[f].nestcnt < MaxNest
     /\ Becomes([L EXCEPT !.fp[newd] = f, !.iob[f].nestcnt = @ + 1])
  \/ /\ "SOCKET" \in L.iob[f].fdflags
     /\ \E g \in Files, h \in DupSockets(L, f) :
          IsSfp(L, g) /\ Becomes(SocketFile(L, g, newd, h))

\* The socket is not duplicated, or there is no FILE for it and it is closed.
NotDuplicated(L, f) == "SOCKET" \in L.iob[f].fdflags /\ Becomes(L)

\* dup() stores the truth value of getfd() < 0 where it means the descriptor.
DupTarget(fd) == 0

\* dup(oldd)
Dup(oldd) ==
  /\ Called("dup") /\ MayUse(oldd) /\ fp[oldd] # NULL
  /\ \E fd \in FDs :
       /\ IsGetfd(Lib, fd)
       /\ \/ /\ Duplicate(Getfd(Lib, fd), fp[oldd], DupTarget(fd))
             /\ Learns({DupTarget(fd)}, {}) /\ miscounted' = (miscounted \/ DupTarget(fd) < 3)
          \/ /\ NotDuplicated(Getfd(Lib, fd), fp[oldd])
             /\ Learns({}, {}) /\ UNCHANGED miscounted
  /\ UNCHANGED <<phase, cursor, faulted>>

\* A disciplined program duplicates onto a standard descriptor, one it was given
\* or one the table does not use, and never a descriptor onto itself.
MayReplace(oldd, newd) ==
  Disciplined => oldd # newd /\ (newd \in owned \/ fp[newd] = NULL)

\* The references to a FILE and its _nestcnt part: at 0, 1 and 2, which close()
\* ignores, on a descriptor of the same FILE, and if close(newd) fails.
Miscounts(oldd, newd, ok) ==
  \/ newd < 3
  \/ fp[newd] # NULL /\ (fp[newd] = fp[oldd] \/ ~CloseSucceeds(Lib, newd, ok))

\* dup2(oldd, newd): the answer of close(newd) is ignored.
Dup2(oldd, newd) ==
  /\ Called("dup2") /\ MayUse(oldd) /\ fp[oldd] # NULL /\ MayReplace(oldd, newd)
  /\ \E ok \in BOOLEAN :
       LET C == IF fp[newd] # NULL THEN CloseFd(Lib, newd, ok) ELSE Lib IN
       \/ /\ Duplicate(C, fp[oldd], newd)
          /\ Learns({newd}, {}) /\ miscounted' = (miscounted \/ Miscounts(oldd, newd, ok))
       \/ /\ NotDuplicated(C, fp[oldd])
          /\ Learns({}, {newd} \ (0 .. 2)) /\ UNCHANGED miscounted
  /\ UNCHANGED <<phase, cursor, faulted>>

\* fcntl(fd, F_DUPFD): a socket is shared like a file, and 0 is returned, never
\* the descriptor.
FcntlDup(fd) ==
  /\ Called("fcntl") /\ MayUse(fd) /\ fp[fd] # NULL /\ iob[fp[fd]].nestcnt < MaxNest
  /\ \E newfd \in FDs :
       /\ IsGetfd(Lib, newfd)
       /\ Becomes([Getfd(Lib, newfd) EXCEPT !.fp[newfd] = fp[fd], !.iob[fp[fd]].nestcnt = @ + 1])
  /\ Learns({}, {}) /\ Quiet

----------------------------------------------------------------------------
(* Exit.                                                                   *)

\* exit() runs the fini functions: doexit (priority 210) calls _cleanup_r.
Exit ==
  /\ phase = "main"
  /\ phase' = "cleanup" /\ cursor' = 0
  /\ UNCHANGED <<fp, maxfd, iob, dos, sdidinit, owned, miscounted, faulted>>

\* _cleanup_r() closes the stream in FILE number cursor.  _fwalk skips FILEs that
\* are free, reserved or have no descriptor.
Cleanup ==
  /\ phase = "cleanup" /\ cursor \in Files
  /\ IF iob[cursor].flags \in {"std", "stream"} /\ iob[cursor].file # -1
       THEN \E ok \in BOOLEAN :
              /\ Becomes(FcloseFile(Lib, cursor, ok))
              /\ faulted' = (faulted \/ ~ok)
       ELSE Becomes(Lib) /\ UNCHANGED faulted
  /\ cursor' = cursor + 1
  /\ UNCHANGED <<phase, owned, miscounted>>

CleanupEnds ==
  /\ phase = "cleanup" /\ cursor \notin Files
  /\ phase' = "exitfd" /\ cursor' = 3
  /\ UNCHANGED <<fp, maxfd, iob, dos, sdidinit, owned, miscounted, faulted>>

\* Mutations of EndOfTable: the size __init_fd() chose, and one entry too few.
EndOfFirstTable == InitMaxfd
EndTooSoon      == maxfd - 1

\* Where the loop of __exit_fd() ends.
EndOfTable == maxfd

\* __exit_fd() (priority 130) closes descriptor cursor.
ExitFd ==
  /\ phase = "exitfd" /\ cursor < EndOfTable
  /\ IF fp[cursor] # NULL
       THEN \E ok \in BOOLEAN :
              /\ Becomes(CloseFd(Lib, cursor, ok))
              /\ faulted' = (faulted \/ ~ok)
       ELSE Becomes(Lib) /\ UNCHANGED faulted
  /\ cursor' = cursor + 1
  /\ UNCHANGED <<phase, owned, miscounted>>

ExitFdEnds ==
  /\ phase = "exitfd" /\ cursor >= EndOfTable
  /\ phase' = "done"
  /\ UNCHANGED <<fp, maxfd, iob, dos, sdidinit, cursor, owned, miscounted, faulted>>

----------------------------------------------------------------------------
Next ==
  \/ Stdio \/ LoseTable
  \/ \E flags \in Requests : Open(flags) \/ Fopen(flags)
  \/ \E f \in Files, flags \in Requests : Freopen(f, flags)
  \/ \E f \in Files : Fclose(f)
  \/ \E fd \in FDs : Fdopen(fd) \/ FdopenUnused(fd) \/ Close(fd) \/ Dup(fd) \/ FcntlDup(fd)
  \/ \E oldd \in FDs, newd \in DupTargets : Dup2(oldd, newd)
  \/ \E h \in Handles : Socket(h) \/ SocketNoFile(h)
  \/ Exit \/ Cleanup \/ CleanupEnds \/ ExitFd \/ ExitFdEnds

Spec == Init /\ [][Next]_vars

----------------------------------------------------------------------------
(* Properties.                                                             *)

TypeOK ==
  /\ fp \in [FDs -> Files \cup {NULL}]
  /\ maxfd \in InitMaxfd .. MaxfdBound
  /\ iob \in [Files -> FILE]
  /\ dos \in [Handles -> DosState]
  /\ sdidinit \in BOOLEAN
  /\ phase \in Phases /\ cursor \in Nat
  /\ owned \subseteq FDs
  /\ miscounted \in BOOLEAN /\ faulted \in BOOLEAN

\* A handle that can be lost: not one of the two the shell gave the program.
Own(h) == h \in Handles \ Std

\* No FILE keeps a handle after it was closed (close.c:42-50): a later read or
\* close would go to whatever the system has since opened under that number.
NoStaleHandle ==
  \A f \in Files : Own(iob[f].handle) => dos[iob[f].handle] # "closed"

\* No two FILEs hold one handle, so closing a stream never closes another's file.
OneOwner ==
  \A f, g \in Files : f # g /\ Own(iob[f].handle) => iob[f].handle # iob[g].handle

\* The descriptors above 2 that refer to FILE f.
Refs(f) == {d \in 3 .. MaxfdBound - 1 : fp[d] = f}

\* Unless dup() or dup2() let the two part (Miscounts), the count close() consults
\* (close.c:33) is lower than the number of descriptors of the FILE: some close()
\* always reaches the handle.
NestBelowRefs ==
  ~miscounted =>
    \A f \in Files : Own(iob[f].handle) /\ Refs(f) # {} => iob[f].nestcnt < Cardinality(Refs(f))

\* When exit() has run every fini function, no descriptor above 2 leads to an open
\* handle, unless a FILE was miscounted or dos.library refused a Close().
ExitCloses ==
  phase = "done" /\ ~miscounted /\ ~faulted =>
    \A d \in 3 .. maxfd - 1 : fp[d] # NULL => ~Own(iob[fp[d]].handle)

Held == {iob[f].handle : f \in Files}

\* An open handle drops out of every FILE only where the code lets it: __sfp() takes
\* over a FILE that was freed with its handle (findfp.c:212), freopen() overwrites
\* one (open.c:234), or close() sends it to the wrong release function.
AbandonedOnlyWhere ==
  [][\A f \in Files :
       LET h == iob[f].handle IN
       Own(h) /\ h \notin Held' /\ dos'[h] # "closed" =>
         \/ iob[f].flags = "free"
         \/ iob'[f].handle # NoHandle
         \/ dos[h] # ReleaseKind(iob[f])]_vars
=============================================================================
