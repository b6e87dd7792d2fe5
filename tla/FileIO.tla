------------------------------- MODULE FileIO -------------------------------
(***************************************************************************)
(* The calls that find their file in the descriptor table, together with   *)
(* those that change the table (Descriptors): read(), write(), lseek(),    *)
(* fsync(), ftruncate(), isatty(), fstat(), ioctl(), F_SETFL and the calls *)
(* on sockets.  Which object such a call hands to which library is an      *)
(* operator; its only lasting effect is that bsdsocket.library is opened   *)
(* when it is first needed and closed by a fini function.                  *)
(***************************************************************************)
EXTENDS Descriptors

VARIABLES
  base,      \* SocketBase: NULL, open, or what the fini function leaves of it
  severed    \* fclose() or freopen() has ended a FILE that other descriptors share

ioVars == <<vars, base, severed>>

----------------------------------------------------------------------------
(* What a call reaches.                                                    *)

Nothing == [lib |-> "none", handle |-> NoHandle]

Entry(fd) == iob[fp[fd]]

Is(fd, flag) == flag \in Entry(fd).fdflags

Dos(fd) == [lib |-> "dos", handle |-> Entry(fd).handle]

\* __init_bsdsocket(fd) returns the socket.
Bsdsocket(fd) ==
  IF Is(fd, "SOCKET") THEN [lib |-> "bsdsocket", handle |-> Entry(fd).handle] ELSE Nothing

\* A mutation of Read: locks are not told from handles.
ReadsLocks(fd) == IF Is(fd, "SOCKET") THEN Bsdsocket(fd) ELSE Dos(fd)

Read(fd) ==
  IF Is(fd, "SOCKET") THEN Bsdsocket(fd)
  ELSE IF Is(fd, "DIRLOCK") THEN Nothing ELSE Dos(fd)

Write(fd) ==
  IF Is(fd, "SOCKET") THEN Bsdsocket(fd)
  ELSE IF Is(fd, "DIRLOCK") THEN Nothing ELSE Dos(fd)

Lseek(fd) == Dos(fd)

Ftruncate(fd) == Dos(fd)

Fsync(fd) == IF Is(fd, "SOCKET") \/ Entry(fd).handle = NoHandle THEN Nothing ELSE Dos(fd)

Isatty(fd) == IF Is(fd, "SOCKET") THEN Nothing ELSE Dos(fd)

Fstat(fd) == IF Entry(fd).handle = NoHandle THEN Nothing ELSE Dos(fd)

\* fcntl(fd, F_SETFL, O_APPEND) goes to the end of the file.
SetAppend(fd) == IF Is(fd, "SOCKET") THEN Nothing ELSE Dos(fd)

Ioctl(fd) == IF Is(fd, "SOCKET") THEN Bsdsocket(fd) ELSE Nothing

Bind(fd)        == Bsdsocket(fd)
Connect(fd)     == Bsdsocket(fd)
Listen(fd)      == Bsdsocket(fd)
Accept(fd)      == Bsdsocket(fd)
Recv(fd)        == Bsdsocket(fd)
Recvfrom(fd)    == Bsdsocket(fd)
Recvmsg(fd)     == Bsdsocket(fd)
Send(fd)        == Bsdsocket(fd)
Sendmsg(fd)     == Bsdsocket(fd)
Sendto(fd)      == Bsdsocket(fd)
Setsockopt(fd)  == Bsdsocket(fd)
Getsockopt(fd)  == Bsdsocket(fd)
Getsockname(fd) == Bsdsocket(fd)
Getpeername(fd) == Bsdsocket(fd)
Shutdown(fd)    == Bsdsocket(fd)

\* The calls that ask whether the descriptor is what they can work on.
Careful(fd) ==
  {Read(fd), Write(fd), Ioctl(fd), Bind(fd), Connect(fd), Listen(fd), Accept(fd), Recv(fd),
   Recvfrom(fd), Recvmsg(fd), Send(fd), Sendmsg(fd), Sendto(fd), Setsockopt(fd), Getsockopt(fd),
   Getsockname(fd), Getpeername(fd), Shutdown(fd)}

\* Those that hand on a lock, and those that hand on whatever there is.
TakesLocks(fd) == {Fsync(fd), Isatty(fd), SetAppend(fd)}

TakesAll(fd) == {Lseek(fd), Ftruncate(fd), Fstat(fd)}

----------------------------------------------------------------------------
(* Steps.                                                                  *)

InitIO == Init /\ base = "closed" /\ severed = FALSE

\* __init_bsdsocket(): the library is opened, or can not be opened or set up.
InitBsdsocket ==
  /\ phase = "main" /\ base = "closed"
  /\ base' = "open"
  /\ UNCHANGED <<vars, severed>>

\* A new socket comes from the library.
GetsSocket == \E h \in Handles : dos[h] # "sock" /\ dos'[h] = "sock"

\* fclose() or freopen() of a FILE that is shared, as its count says or as another
\* descriptor of the program shows: the FILE is set free or given another file whatever
\* close() makes of it.
Severs ==
  \E f \in Files :
    /\ \/ iob[f].nestcnt > 0
       \/ \E fd \in owned \cap owned' : fp[fd] = f /\ fp'[fd] = f
    /\ \/ iob[f].flags = "stream" /\ iob'[f].flags = "free"
       \/ iob'[f].handle \notin {iob[f].handle, NoHandle}

\* The calls of Descriptors.
TableCall ==
  /\ Next
  /\ base' = IF GetsSocket THEN "open" ELSE base
  /\ severed' = (severed \/ Severs)

\* A mutation of ExitPhase: the priority is above that of __exit_fd.
BeforeExitFd == "exitfd"

\* Priority 120 comes after 130.
ExitPhase == "done"

\* _EXIT_4_bsdsocket leaves SocketBase as it is.
ExitBsdsocket ==
  /\ phase = ExitPhase /\ base = "open"
  /\ base' = "gone"
  /\ UNCHANGED <<vars, severed>>

NextIO == TableCall \/ InitBsdsocket \/ ExitBsdsocket

SpecIO == InitIO /\ [][NextIO]_ioVars

----------------------------------------------------------------------------
(* Properties.                                                             *)

\* The object is open and of the kind that the functions of the library take.
Fits(o) ==
  \/ o.lib = "none"
  \/ o.lib = "dos" /\ o.handle # NoHandle /\ dos[o.handle] = "file"
  \/ o.lib = "bsdsocket" /\ o.handle # NoHandle /\ dos[o.handle] = "sock"

\* Whatever has been opened, closed, duplicated and severed, a call on a descriptor the
\* program was given reaches an open object of the right kind, or refuses: read(), write()
\* and the socket calls always (read.c:37-50), fsync(), isatty() and F_SETFL unless it is a
\* directory (fsync.c:34), lseek(), ftruncate() and fstat() only for a file (lseek.c:34).
RightObject ==
  phase = "main" /\ Disciplined /\ ~miscounted /\ ~severed =>
    \A fd \in owned \ (0 .. 2) :
      /\ fp[fd] # NULL
      /\ \A o \in Careful(fd) : Fits(o)
      /\ ~Is(fd, "DIRLOCK") => \A o \in TakesLocks(fd) : Fits(o)
      /\ Entry(fd).fdflags = {} => \A o \in TakesAll(fd) : Fits(o)

\* What a descriptor of the program leads to changes only by dup2() onto it and by
\* freopen() of a stream of that number, also when the table moves, and whatever happens
\* to the other descriptors of a shared FILE (open.c:108-118, close.c:33, freopen.c:132).
Undisturbed ==
  [][phase = "main" /\ Disciplined /\ ~miscounted' /\ ~severed' =>
       \A fd \in (owned \cap owned') \ (0 .. 2) :
         \/ fp'[fd] # NULL /\ iob'[fp'[fd]].handle = iob[fp[fd]].handle
         \/ fd \in DupTargets /\ fp'[fd] \notin {NULL, fp[fd]} /\ maxfd' = maxfd
         \/ \E f \in Files : iob'[f].file = fd /\ iob'[f].handle \notin {NoHandle, iob[f].handle}]_ioVars

\* CloseSocket() is called while the library that gave the socket is open: by the program,
\* by dup2() and by the fini functions, whose order is that of two numbers in two files
\* (bsdsocket.c:80, __stdiowin.c:208).
ClosedByLibrary ==
  [][\A h \in Handles : dos[h] = "sock" /\ dos'[h] = "closed" => base = "open"]_ioVars
=============================================================================
