------------------------------ MODULE MCSelect ------------------------------
(***************************************************************************)
(* Tables of three descriptors for TLC.                                    *)
(***************************************************************************)
EXTENDS Select

Of(kind, rd, wr, handle) == [kind |-> kind, rd |-> rd, wr |-> wr, handle |-> handle]

\* stdin as fopen() leaves it, a file of open(), which sets neither flag, a file that
\* is read and written, a directory, two sockets.
Tty   == Of("terminal", TRUE, FALSE, 10)
Tty2  == Of("terminal", TRUE, TRUE, 11)
Plain == Of("file", FALSE, FALSE, 12)
File  == Of("file", TRUE, TRUE, 13)
Dir   == Of("dir", FALSE, FALSE, 14)
Sock1 == Of("socket", FALSE, FALSE, 20)
Sock2 == Of("socket", FALSE, FALSE, 21)

Table(a, b, c) == [fd \in 0 .. 2 |-> CASE fd = 0 -> a [] fd = 1 -> b [] fd = 2 -> c]

TypedTables ==
  {Table(Tty, File, Sock1), Table(Tty, Tty2, Sock1), Table(Tty, Tty2, File),
   Table(Tty, Sock1, Sock2), Table(Sock1, Tty, Sock1), Table(Plain, Dir, NONE)}

TheHandles == 10 .. 21

\* Any descriptors to read, the last two to write, the last for exceptions.
SomeRequests ==
  {[rd |-> r, wr |-> w, ex |-> e] : r \in SUBSET (0 .. 2), w \in SUBSET {1, 2}, e \in SUBSET {2}}
=============================================================================
