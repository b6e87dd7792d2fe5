------------------------------- MODULE Select -------------------------------
(***************************************************************************)
(* One call of select() (libgloss/select.c) while users type and peers     *)
(* send.  Regular files are ready at once, terminals are asked one by one  *)
(* with WaitForChar(), sockets together with WaitSelect() of               *)
(* bsdsocket.library.  Each question is a step; between two of them, and   *)
(* while one waits, more becomes ready.  Lengths of time are left out: a   *)
(* wait that may time out does so whenever nothing is ready.               *)
(***************************************************************************)
EXTENDS Integers, FiniteSets

CONSTANTS
  MaxFd,     \* __maxfd, the number of descriptors
  Tables,    \* what they may be, as functions from Fds to Entry
  Requests,  \* what it may be asked for: the sets of the three parameters
  Handles,   \* handles of terminals and sockets
  NONE       \* no entry; no timeout

Fds   == 0 .. MaxFd - 1
Kinds == {"rd", "wr", "ex"}

\* FDFL_SOCKET, FDFL_DIRLOCK, FDFL_INTERACTIVE, and __SRD and __SWR of _flags.
Entry == [kind : {"socket", "dir", "terminal", "file"}, rd : BOOLEAN, wr : BOOLEAN,
          handle : Handles] \cup {NONE}

ASSUME FdAssumption == MaxFd \in Nat \ {0}
ASSUME TableAssumption == Tables \subseteq [Fds -> Entry]
ASSUME RequestAssumption == Requests \subseteq [Kinds -> SUBSET Fds]

VARIABLES
  table,     \* __fp
  asked,     \* readfds, writefds and exceptfds at the call, with nfds = __maxfd
  timeout,   \* TRUE if there is one
  typed,     \* the terminals at which a character waits
  arrived,   \* the sockets that are ready, for each of the three sets
  early,     \* typed and arrived at the call
  pc,        \* what select() does next
  then,      \* and after the terminals have been asked
  todo,      \* the terminals still to be asked
  sets,      \* the three sets as they are now
  tcp,       \* tcpread, tcpwrite and tcpexcept
  n          \* what it has found, and returns

world == <<table, asked, timeout, typed, arrived>>
vars  == <<world, early, pc, then, todo, sets, tcp, n>>

Is(fd, kind) == table[fd] # NONE /\ table[fd].kind = kind

SumOf(s) == Cardinality(s["rd"]) + Cardinality(s["wr"]) + Cardinality(s["ex"])

Empty == [k \in Kinds |-> {}]

Least(S) == CHOOSE x \in S : \A y \in S : x <= y

----------------------------------------------------------------------------
Init ==
  /\ table \in Tables
  /\ asked \in Requests
  /\ timeout \in BOOLEAN
  /\ typed = {} /\ arrived = Empty /\ early = [typed |-> {}, arrived |-> Empty]
  /\ pc = "called" /\ then = "returned" /\ todo = {}
  /\ sets = asked /\ tcp = Empty /\ n = 0

\* A character is typed, a socket becomes ready; both stay so until somebody reads.
Type(fd) ==
  /\ fd \in asked["rd"] /\ Is(fd, "terminal")
  /\ typed' = typed \cup {table[fd].handle}
  /\ UNCHANGED <<table, asked, timeout, arrived, early, pc, then, todo, sets, tcp, n>>

Arrive(k, fd) ==
  /\ fd \in asked[k] /\ Is(fd, "socket")
  /\ arrived' = [arrived EXCEPT ![k] = @ \cup {table[fd].handle}]
  /\ UNCHANGED <<table, asked, timeout, typed, early, pc, then, todo, sets, tcp, n>>

----------------------------------------------------------------------------
\* The scan of the three sets.

Sockets(k) == {fd \in asked[k] : Is(fd, "socket")}

\* EBADF: no file, or a directory in the first two sets.
Bad ==
  \/ \E k \in Kinds : \E fd \in asked[k] : table[fd] = NONE
  \/ \E k \in {"rd", "wr"} : \E fd \in asked[k] : Is(fd, "dir")

\* blockfds: what blocks is a terminal that is read; a terminal may be written at once.
Blocking == {fd \in asked["rd"] : Is(fd, "terminal") /\ table[fd].rd}
FilesOf(k) ==
  CASE k = "rd" -> {fd \in asked[k] : Is(fd, "file") /\ table[fd].rd}
    [] k = "wr" -> {fd \in asked[k] : (Is(fd, "file") \/ Is(fd, "terminal")) /\ table[fd].wr}
    [] k = "ex" -> {}

nfile == SumOf([k \in Kinds |-> FilesOf(k)])
nsock == SumOf([k \in Kinds |-> Sockets(k)])

Return(result) == pc' = "returned" /\ n' = result

\* The terminals in blockfds are asked, then select() goes on at label.
AskThen(label) == pc' = "ask" /\ then' = label /\ todo' = Blocking

\* Ready files need no wait; terminals alone are asked until one answers; otherwise
\* the sockets do the waiting.
Scan ==
  /\ pc = "called"
  /\ early' = [typed |-> typed, arrived |-> arrived]
  /\ IF Bad
     THEN Return(-1) /\ UNCHANGED <<then, todo, sets, tcp>>
     ELSE /\ sets' = [k \in Kinds |-> FilesOf(k)]
          /\ tcp' = [k \in Kinds |-> {table[fd].handle : fd \in Sockets(k)}]
          /\ n' = nfile
          /\ LET label == IF nfile > 0 THEN "look" ELSE IF nsock = 0 THEN "terminals" ELSE "wait"
             IN  IF Blocking # {} THEN AskThen(label)
                 ELSE /\ pc' = IF nfile = 0 /\ nsock = 0 THEN "sleep" ELSE label
                      /\ UNCHANGED <<then, todo>>
  /\ UNCHANGED world

\* Mutations of Answers: the answer is not tested; terminals found before count again.
AnswersAlways(fd) ==
  IF fd \notin sets["rd"]
  THEN sets' = [sets EXCEPT !["rd"] = @ \cup {fd}] /\ n' = n + 1
  ELSE UNCHANGED <<sets, n>>
AnswersTwice(fd) ==
  IF table[fd].handle \in typed
  THEN sets' = [sets EXCEPT !["rd"] = @ \cup {fd}] /\ n' = n + 1
  ELSE UNCHANGED <<sets, n>>

Answers(fd) ==
  IF table[fd].handle \in typed /\ fd \notin sets["rd"]
  THEN sets' = [sets EXCEPT !["rd"] = @ \cup {fd}] /\ n' = n + 1
  ELSE UNCHANGED <<sets, n>>

\* poll_interactive() comes to the next terminal.  Its wait is over.
Ask ==
  /\ pc = "ask" /\ todo # {}
  /\ Answers(Least(todo))
  /\ todo' = todo \ {Least(todo)}
  /\ UNCHANGED <<world, early, pc, then, tcp>>

Asked ==
  /\ pc = "ask" /\ todo = {}
  /\ pc' = then
  /\ UNCHANGED <<world, early, then, todo, sets, tcp, n>>

\* Terminals only: while none has answered all are asked with a wait and again
\* without one; with a timeout there is one such round.
Terminals ==
  /\ \/ pc = "terminals" /\ n = 0 /\ AskThen("again") /\ UNCHANGED n
     \/ pc = "terminals" /\ n > 0 /\ Return(n) /\ UNCHANGED <<then, todo>>
     \/ pc = "again" /\ AskThen("round") /\ UNCHANGED n
     \/ pc = "round" /\ timeout /\ Return(n) /\ UNCHANGED <<then, todo>>
     \/ pc = "round" /\ ~timeout /\ pc' = "terminals" /\ UNCHANGED <<then, todo, n>>
  /\ UNCHANGED <<world, early, sets, tcp>>

----------------------------------------------------------------------------
\* The first descriptor of the socket.
FdOf(handle) == Least({fd \in Fds : Is(fd, "socket") /\ table[fd].handle = handle})

\* A mutation of Convert: only readfds.
ConvertReads(from, i) ==
  /\ sets' = [sets EXCEPT !["rd"] = @ \cup {FdOf(h) : h \in from["rd"]}]
  /\ n' = n + i

\* amitcp2fd() for the three sets, i sockets.
Convert(from, i) ==
  /\ sets' = [k \in Kinds |-> sets[k] \cup {FdOf(h) : h \in from[k]}]
  /\ n' = n + i

\* WaitSelect() leaves the sockets that are ready, at least one or after a timeout none.
Ready == [k \in Kinds |-> tcp[k] \cap arrived[k]]

WaitSelect(maytimeout) ==
  /\ SumOf(Ready) > 0 \/ maytimeout
  /\ tcp' = Ready
  /\ Convert(Ready, SumOf(Ready))

\* It fails, for instance by a break signal.
WaitFails ==
  /\ (pc = "look" /\ nsock > 0) \/ (pc = "wait" /\ (n > 0 \/ Blocking = {} \/ timeout))
  /\ Return(-1)
  /\ UNCHANGED <<world, early, then, todo, sets, tcp>>

\* Files are ready: how many sockets are too?
Look ==
  /\ pc = "look"
  /\ \/ nsock = 0 /\ Return(n) /\ UNCHANGED <<sets, tcp>>
     \/ nsock > 0 /\ WaitSelect(TRUE) /\ pc' = "returned"
  /\ UNCHANGED <<world, early, then, todo>>

\* After the sockets the terminals are asked a last time.
Finish == IF Blocking # {} THEN AskThen("done") ELSE pc' = "done" /\ UNCHANGED <<then, todo>>

\* select.c:261 tests n + i == 0 when i still counts the descriptors of the last scan:
\* with terminals, sockets and no timeout nothing is waited for, and all sockets
\* asked for are taken to be ready.
Unwaited ==
  /\ pc = "wait" /\ n = 0 /\ Blocking # {} /\ ~timeout
  /\ Convert(tcp, MaxFd)
  /\ Finish
  /\ UNCHANGED <<world, early, tcp>>

\* Mutation of Wait: the timeout is not passed on.
WaitForever ==
  /\ pc = "wait" /\ (n > 0 \/ Blocking = {} \/ timeout)
  /\ WaitSelect(n > 0) /\ Finish
  /\ UNCHANGED <<world, early>>

\* The sockets are waited for, or only looked at when a terminal has answered.
Wait ==
  /\ pc = "wait" /\ (n > 0 \/ Blocking = {} \/ timeout)
  /\ WaitSelect(n > 0 \/ timeout) /\ Finish
  /\ UNCHANGED <<world, early>>

Done ==
  /\ pc = "done"
  /\ Return(n)
  /\ UNCHANGED <<world, early, then, todo, sets, tcp>>

\* Nothing to ask.  Without a timeout its address, 0, is read.
Sleep ==
  /\ pc = "sleep"
  /\ \/ Return(0)
     \/ ~timeout /\ pc' = "wild" /\ UNCHANGED n
  /\ UNCHANGED <<world, early, then, todo, sets, tcp>>

----------------------------------------------------------------------------
Runs == Scan \/ Ask \/ Asked \/ Terminals \/ Look \/ Unwaited \/ Wait \/ Done \/ Sleep

World ==
  /\ pc \notin {"returned", "wild"}
  /\ \E fd \in Fds : Type(fd) \/ \E k \in Kinds : Arrive(k, fd)

Next == Runs \/ WaitFails \/ World

\* A wait that can end ends; none need fail.
Spec == Init /\ [][Next]_vars /\ WF_vars(Runs)

----------------------------------------------------------------------------
Answered == pc = "returned" /\ n >= 0

\* What is ready of what was asked for, when w was so; a socket goes by the first of its
\* descriptors (select.c:49-54).
ReadyOf(k, w) ==
  FilesOf(k) \cup {FdOf(table[fd].handle) : fd \in {f \in Sockets(k) : table[f].handle \in w.arrived[k]}}
             \cup IF k = "rd" THEN {fd \in Blocking : table[fd].handle \in w.typed} ELSE {}

Now == [typed |-> typed, arrived |-> arrived]

\* Terminals and sockets without a timeout (select.c:258-266).
Mixed == nfile = 0 /\ nsock > 0 /\ Blocking # {} /\ ~timeout

\* select() names only what was asked for and is ready, a socket by the first of its
\* descriptors, though it asks in up to four places (select.c:202-297).
OnlyReady ==
  Answered /\ ~Mixed => \A k \in Kinds : sets[k] \subseteq ReadyOf(k, Now)

\* It returns how many there are, though terminals are asked again and files, terminals
\* and sockets are counted apart (select.c:77-80, 219, 242, 293-296).
CountRight == Answered /\ ~Mixed => n = SumOf(sets)

\* What was ready when select() was called is named, whatever it then waited for.
NothingMissed == Answered => \A k \in Kinds : ReadyOf(k, early) \subseteq sets[k]

SomethingReady == \E k \in Kinds : ReadyOf(k, Now) # {}

\* select() returns if it has a timeout or something is ready, for terminals and
\* sockets alike and whichever comes first (select.c:226-297).
Returns == (timeout \/ SomethingReady) ~> pc = "returned"

----------------------------------------------------------------------------
\* What a comment says.

\* "infinte timeout, so check for files in between" (select.c:259): what it returns then
\* is ready.
MixedWaits == Answered => \A k \in Kinds : sets[k] \subseteq ReadyOf(k, Now)
=============================================================================
