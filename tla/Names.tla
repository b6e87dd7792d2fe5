------------------------------- MODULE Names -------------------------------
(***************************************************************************)
(* The calls that take the name of a file (libgloss/access.c, chdir.c,     *)
(* chmod.c, chown.c, dir.c, link.c, mkdir.c, popen.c, readlink.c,          *)
(* realpath.c, stat.c, symlink.c, truncate.c, unlink.c, utime.c, and the   *)
(* names in rename.c) and some that take none but hold things meanwhile    *)
(* (getcwd.c, getpass.c, fnmatch.c, times.c).                              *)
(*                                                                         *)
(* A call is an action.  It is written as the operators on a record L that *)
(* its calls to the operating system are, in their order; far says how     *)
(* many of those succeed.  What one converts, asks for and holds is then   *)
(* what the code does on that way through it.                              *)
(***************************************************************************)
EXTENDS Pathnames, Attributes

CONSTANTS
  Paths,      \* the names the program uses, as Unix has them
  Other,      \* the second name of rename(), link() and symlink()
  Modes,      \* modes for chmod() and mkdir()
  Times,      \* times for utimes()
  Dates,      \* what DateStamp() answers
  MaxHeld     \* bound: how many things of each kind are held

ASSUME PathAssumption == Paths \cup {Other} \in SUBSET (Seq(STRING) \ {<<>>})
ASSUME ModeAssumption == Modes \subseteq SUBSET Bits /\ Times \subseteq Timeval
ASSUME DateAssumption == Dates \subseteq [days : Nat, minute : 0 .. 1439, tick : 0 .. 2999]

\* No name; what is read from memory that was freed.
NULL    == [none |-> "NULL"]
Garbage == [none |-> "freed"]

Kinds == {"lock", "handle", "fib", "port", "memory", "signal", "device", "window"}

ASSUME HeldAssumption == MaxHeld \in [Kinds -> Nat]

VARIABLES
  path,       \* the name the program uses
  pathconv,   \* __pathconv
  s1,         \* where s1 of __amigapath() is: at one of two addresses in turn
  held,       \* how many things of each kind the calls have taken and not given back;
              \* "window" is pr_WindowPtr while it is -1
  dirs,       \* how many DIRs are in dirlist
  file,       \* protection and date of the file
  wish,       \* the mode and the time the program gave it last
  asked,      \* the names the last call gave to the operating system
  did         \* the last call, and how far it came

vars == <<path, pathconv, s1, held, dirs, file, wish, asked, did>>

----------------------------------------------------------------------------
(* What calls are made of.                                                 *)

\* A name in memory: where, what is there, and what the program means by it.
Pointer(at, name, means) == [at |-> at, name |-> name, means |-> means]

\* A string of the program or on the stack outlasts the call.
ProgramName(parts) == Pointer("lasts", Name(parts), parts)

\* ptr is the name the call has in its hands.
Start == [s1 |-> s1, held |-> held, asked |-> {}, ptr |-> ProgramName(path)]

Take(L, kind) == [L EXCEPT !.held[kind] = @ + 1]
Give(L, kind) == [L EXCEPT !.held[kind] = @ - 1]

Live(L, ptr) == ptr.at \in {"lasts", L.s1}

\* The operating system gets a name.
AskFor(L, ptr) ==
  [L EXCEPT !.asked = @ \cup {[name |-> ptr.name, live |-> Live(L, ptr), means |-> ptr.means]}]

Ask(L) == AskFor(L, L.ptr)

\* free(s1) and strdup(name): what free() leaves of the name, if it is s1, may be intact.
NextPlace == [one |-> "two", two |-> "one"]

Duplicate(L, ptr, intact) ==
  IF ptr.at # L.s1 \/ intact THEN ptr.name ELSE Garbage

\* __amigapath(); strdup() may find no memory.
ConvertFrom(L, ptr, memory, intact) ==
  LET text == Duplicate(L, ptr, intact)
      to   == NextPlace[L.s1]
      made == IF text \in {NULL, Garbage} THEN Garbage ELSE Amigapath(text)
  IN IF ~pathconv THEN [L EXCEPT !.ptr = ptr]
     ELSE IF ~memory THEN [L EXCEPT !.s1 = to, !.ptr = Pointer("null", NULL, ptr.means)]
     ELSE [L EXCEPT !.s1 = to,
                    !.ptr = Pointer(IF made = System THEN "lasts" ELSE to, made, ptr.means)]

Convert(L, ptr, memory) == ConvertFrom(L, ptr, memory, TRUE)

Converted(memory) == Convert(Start, ProgramName(path), memory)

Failed(L) == L.ptr.name = NULL

\* A lock that is taken and given back.
Briefly(L, kind) == Give(Take(L, kind), kind)

\* UnLock() of what is a handle.
UnLockHandle(L) == L

----------------------------------------------------------------------------
(* The calls; far is how many of the calls they make succeed.              *)

Access(memory, far) ==
  LET C == Converted(memory)
  IN IF Failed(C) THEN C ELSE IF far = 0 THEN Ask(C) ELSE Briefly(Ask(C), "lock")

Unlink(memory) == LET C == Converted(memory) IN IF Failed(C) THEN C ELSE Ask(C)

\* A mutation of Examined: the block is freed only if Examine() succeeds.
ExaminedOrLost(L, far) == IF far = 2 THEN Take(L, "fib") ELSE Briefly(L, "fib")

\* stat() between Lock() and UnLock(): the block for Examine().
Examined(L, far) == IF far = 1 THEN L ELSE Briefly(L, "fib")

Stat(memory, far) ==
  LET C == Converted(memory)
      A == Ask(Take(C, "window"))
      B == IF far = 0 THEN A ELSE Give(Examined(Take(A, "lock"), far), "lock")
  IN IF Failed(C) THEN C ELSE Give(B, "window")

\* The lock of the directory before is given back for the new one.
Chdir(memory, far) ==
  LET C == Ask(Converted(memory)) IN IF far = 0 THEN C ELSE Briefly(C, "lock")

Chmod(memory) == Ask(Converted(memory))

\* The lock stays when SetOwner() fails.
Chown(memory, far) ==
  LET C == Ask(Converted(memory))
  IN IF far = 0 THEN C ELSE IF far = 2 THEN Take(C, "lock") ELSE Briefly(C, "lock")

\* The name is converted, and the one the program gave is used.
Link(memory, far) ==
  LET C == AskFor(Converted(memory), ProgramName(path))
      K == Take(C, "lock")
  IN IF far = 0 THEN C ELSE Give(AskFor(K, ProgramName(Other)), "lock")

Symlink(memory, memory2) ==
  LET C == Converted(memory)
      D == Convert(C, ProgramName(Other), memory2)
  IN IF Failed(C) THEN C ELSE IF Failed(D) THEN D ELSE AskFor(AskFor(D, D.ptr), C.ptr)

\* A mutation of Copied: the converted name stays where it is.
NotCopied(ptr) == ptr

\* strcpy(to_dos, ...)
Copied(ptr) == [ptr EXCEPT !.at = IF @ = "null" THEN "null" ELSE "lasts"]

\* rename() of the name to Other.
Rename(memory, memory2, far) ==
  LET C == Convert(Start, ProgramName(Other), memory)
      T == AskFor(C, Copied(C.ptr))
      D == Convert(T, ProgramName(path), memory2)
  IN IF far = 0 THEN T
     ELSE IF far = 1 THEN Briefly(T, "lock") ELSE AskFor(Ask(D), Copied(C.ptr))

\* The slash at the end, which mkdir() removes where the name is.
Stripped(parts) == IF Len(parts) > 1 /\ Last(parts) = "" THEN Front(parts) ELSE parts

\* chmod() converts the name again.
Mkdir(memory, memory2, intact, far) ==
  LET C == Converted(memory)
      S == IF Failed(C) \/ C.ptr.name = System THEN C
           ELSE [C EXCEPT !.ptr.name.parts = Stripped(@)]
      M == Briefly(Ask(S), "lock")
  IN IF Failed(C) \/ far = 0 THEN Ask(S) ELSE Ask(ConvertFrom(M, M.ptr, memory2, intact))

\* Open() gives a handle, which UnLock() can not give back.
Readlink(memory, far) ==
  LET C == Ask(Converted(memory))
      K == Take(C, "handle")
  IN IF far = 0 THEN C
     ELSE IF far = 1 THEN UnLockHandle(K) ELSE UnLockHandle(Briefly(Ask(K), "port"))

Realpath(memory, far) ==
  LET C == Ask(Converted(memory))
  IN IF path = <<"">> THEN Start ELSE IF far = 0 THEN C ELSE Briefly(C, "lock")

Truncate(far) == LET A == Ask(Start) IN IF far = 0 THEN A ELSE Briefly(A, "handle")

Utimes == Ask(Start)

\* DIR, lock, and a look whether it is a directory.
Opendir(memory, far) ==
  LET C == Converted(memory)
      M == Ask(Take(C, "memory"))
      K == Take(M, "lock")
  IN IF far = 0 THEN C
     ELSE IF far = 1 THEN Give(M, "memory")
     ELSE IF far = 2 THEN Give(Give(K, "lock"), "memory") ELSE K

Closedir == Give(Give(Start, "lock"), "memory")

\* What popen() calls its pipe.
PipeName == Pointer("lasts", [volume |-> "PIPE", parts |-> <<"warpos_popen">>],
                    <<"", "PIPE", "warpos_popen">>)

\* The pipe and "NIL:" go to the new process, if there is one; then fopen() converts the
\* name of the pipe.
Popen(memory, memory2, far) ==
  LET P == Take(Start, "handle")
      N == Take(P, "handle")
      S == Ask(Convert(N, ProgramName(path), memory))
      G == Give(Give(S, "handle"), "handle")
  IN IF far = 0 THEN Start
     ELSE IF far = 1 THEN Give(P, "handle")
     ELSE IF far = 2 THEN G ELSE Ask(Convert(G, PipeName, memory2))

\* Two patterns in memory, and the string.
Fnmatch(memory, far) ==
  LET P == Take(Start, "memory")
      T == Take(P, "memory")
      M == IF far = 2 THEN T ELSE Ask(Convert(T, ProgramName(path), memory))
  IN IF far = 0 THEN Start ELSE IF far = 1 THEN Give(P, "memory") ELSE Give(Give(M, "memory"), "memory")

\* The buffer is lost when the directory has no name that fits.
Getcwd(far) == IF far = 1 THEN Take(Start, "memory") ELSE Start

\* The console stays open when it can not be set to single characters.
Getpass(far) ==
  IF far = 0 THEN Start ELSE IF far = 1 THEN Take(Start, "handle") ELSE Briefly(Start, "handle")

\* dotimer(), for times() and getrusage().
Dotimer(far) ==
  LET M == Take(Start, "memory")
      S == Take(M, "signal")
  IN IF far = 0 THEN Start
     ELSE IF far = 1 THEN Give(M, "memory")
     ELSE IF far = 2 THEN Give(Give(S, "signal"), "memory")
     ELSE Give(Give(Briefly(S, "device"), "signal"), "memory")

----------------------------------------------------------------------------
Init ==
  /\ path \in Paths
  /\ pathconv \in BOOLEAN
  /\ s1 = "one"
  /\ held = [k \in Kinds |-> IF k = "lock" THEN 1 ELSE 0]   \* __initchdir()
  /\ dirs = 0
  /\ file = [prot |-> {}, date |-> [days |-> 0, minute |-> 0, tick |-> 0]]
  /\ wish = [mode |-> Own, time |-> [sec |-> Epoch, usec |-> 0]]
  /\ asked = {}
  /\ did = [call |-> "none", far |-> 0]

\* The program has made the call, which leaves L.
Does(call, far, L) ==
  /\ did.call # "exit"
  /\ \A k \in Kinds : L.held[k] <= MaxHeld[k]
  /\ s1' = L.s1 /\ held' = L.held /\ asked' = L.asked
  /\ did' = [call |-> call, far |-> far]

Only(call, far, L) == Does(call, far, L) /\ UNCHANGED <<path, pathconv, dirs, file, wish>>

\* Calls that change nothing else; without pathconv, strdup() is not called.
NameCalls ==
  \E memory \in BOOLEAN :
    /\ pathconv \/ memory
    /\ \/ \E far \in 0 .. 1 : \/ Only("access", far, Access(memory, far))
                              \/ Only("chdir", far, Chdir(memory, far))
                              \/ Only("link", far, Link(memory, far))
                              \/ Only("realpath", far, Realpath(memory, far))
       \/ \E far \in 0 .. 2 : Only("readlink", far, Readlink(memory, far))
       \/ \E far \in 0 .. 3 : \/ Only("stat", far, Stat(memory, far))
                              \/ Only("chown", far, Chown(memory, far))
                              \/ Only("fnmatch", far, Fnmatch(memory, far))
       \/ Only("unlink", 0, Unlink(memory))

TwoNameCalls ==
  \E memory, memory2 \in BOOLEAN :
    /\ pathconv \/ (memory /\ memory2)
    /\ \/ Only("symlink", 0, Symlink(memory, memory2))
       \/ \E far \in 0 .. 2 : Only("rename", far, Rename(memory, memory2, far))
       \/ \E far \in 0 .. 3 : Only("popen", far, Popen(memory, memory2, far))

OtherCalls ==
  \/ \E far \in 0 .. 1 : Only("truncate", far, Truncate(far))
  \/ \E far \in 0 .. 2 : Only("getcwd", far, Getcwd(far)) \/ Only("getpass", far, Getpass(far))
  \/ \E far \in 0 .. 3 : Only("times", far, Dotimer(far))

MkdirCall ==
  /\ \E memory, memory2, intact \in BOOLEAN, far \in 0 .. 1 :
       /\ pathconv \/ (memory /\ memory2)
       /\ Does("mkdir", far, Mkdir(memory, memory2, intact, far))
  /\ path' = IF pathconv THEN path ELSE Stripped(path)
  /\ UNCHANGED <<pathconv, dirs, file, wish>>

ChmodCall ==
  /\ \E memory \in BOOLEAN, mode \in Modes, far \in 0 .. 1 :
       /\ pathconv \/ memory
       /\ Does("chmod", far, Chmod(memory))
       /\ IF far = 1 THEN file' = [file EXCEPT !.prot = Mode2Prot(mode)] /\ wish' = [wish EXCEPT !.mode = mode]
          ELSE UNCHANGED <<file, wish>>
  /\ UNCHANGED <<path, pathconv, dirs>>

\* The file has the date now, and the program means the time.
Dated(date, time) == file' = [file EXCEPT !.date = date] /\ wish' = [wish EXCEPT !.time = time]

\* With a time, or with NULL for now, which is what gettimeofday() answers.
UtimesCall ==
  /\ \/ Does("utimes", 0, Utimes) /\ UNCHANGED <<file, wish>>
     \/ /\ Does("utimes", 1, Utimes)
        /\ \/ \E time \in Times : Dated(Datestamp(time), time)
           \/ \E date \in Dates : Dated(date, [sec |-> UnixTime(date), usec |-> 0])
  /\ UNCHANGED <<path, pathconv, dirs>>

OpendirCall ==
  /\ \E memory \in BOOLEAN, far \in 0 .. 3 :
       /\ pathconv \/ memory
       /\ Does("opendir", far, Opendir(memory, far))
       /\ dirs' = IF far = 3 THEN dirs + 1 ELSE dirs
  /\ UNCHANGED <<path, pathconv, file, wish>>

ClosedirCall ==
  /\ dirs > 0
  /\ Does("closedir", 0, Closedir) /\ dirs' = dirs - 1
  /\ UNCHANGED <<path, pathconv, file, wish>>

\* The fini functions: __exitchdir(), and _EXIT_5_dirlist() for each DIR.
Exit ==
  /\ Does("exit", 0, [Start EXCEPT !.held["lock"] = @ - 1 - dirs, !.held["memory"] = @ - dirs])
  /\ dirs' = 0
  /\ UNCHANGED <<path, pathconv, file, wish>>

Next ==
  \/ NameCalls \/ TwoNameCalls \/ OtherCalls \/ MkdirCall \/ ChmodCall \/ UtimesCall
  \/ OpendirCall \/ ClosedirCall \/ Exit

Spec == Init /\ [][Next]_vars

----------------------------------------------------------------------------
(* Properties.                                                             *)

\* Calls that hand on the name as the program gave it (link.c:33, utime.c:64, truncate.c:15),
\* and one whose strings are a command and the name of a pipe (popen.c:46, 53).
NotConverted == {"link", "utimes", "truncate", "popen"}

\* Names that __amigapath() can translate: not those that begin by going up ("../a" becomes
\* the volume "a:", and ".." "SYS:", __stdiowin.c:91, 108), nor what AmigaOS has no name for,
\* above a volume and beside the root directory, which is "SYS:".
Translatable(parts) ==
  /\ ~StartsUp(parts) /\ ~LeavesVolume(parts)
  /\ "SYS" \notin {parts[i] : i \in 1 .. Len(parts)}

\* When names are converted, dos.library finds for a name the file that Unix means.  mkdir()
\* of a name with ".." in it does not count: chmod() converts the name again and takes a way
\* up for one slash too many (mkdir.c:33).
SameMeaning ==
  pathconv /\ did.call \notin NotConverted =>
    \A a \in asked :
      a.name \notin {NULL, Garbage} /\ Translatable(a.means) =>
        \/ AmigaMeaning(a.name) = UnixMeaning(a.means)
        \/ did.call = "mkdir" /\ ".." \in {a.means[i] : i \in 1 .. Len(a.means)}

\* The calls that do not ask whether __amigapath() had memory.
Unchecked == {"chdir", "chmod", "chown", "mkdir", "opendir", "readlink", "realpath",
              "rename", "popen", "fnmatch"}

\* A name that reaches the operating system is there: no call keeps one that the next
\* conversion frees, except symlink() (symlink.c:31-35) and mkdir() (mkdir.c:33), and
\* where __amigapath() answers NULL, only the calls named above do not see it.
LiveNames ==
  \A a \in asked :
    \/ a.live /\ a.name # Garbage
    \/ a.name = NULL /\ did.call \in Unchecked
    \/ did.call = "symlink" /\ a.means = path
    \/ did.call = "mkdir" /\ a.name = Garbage

\* What is held beyond the current directory and the DIRs of the program.
Extra == [k \in Kinds |->
  held[k] - (IF k \in {"lock", "memory"} THEN dirs ELSE 0)
          - (IF k = "lock" /\ did.call # "exit" THEN 1 ELSE 0)]

\* Whatever fails on the way, a call gives back the locks, handles, blocks and signals
\* it took and the window it set aside, and exit() the rest, with four exceptions: chown() when
\* SetOwner() fails (chown.c:44), readlink() (readlink.c:52), getcwd() without a name (getcwd.c:21)
\* and getpass() without a console mode (getpass.c:36).
Released ==
  [][Extra' # Extra =>
       did' \in {[call |-> "chown", far |-> 2], [call |-> "readlink", far |-> 1],
                 [call |-> "readlink", far |-> 2], [call |-> "getcwd", far |-> 1],
                 [call |-> "getpass", far |-> 1]}]_vars

\* stat() finds the mode that chmod() set and the time that utimes() set, the present if it was
\* given none, of the years that AmigaOS has, as a date that it knows (prot.c:20-53,
\* utime.c:37-62, __stdiowin.c:172-191).
AttributesKept ==
  /\ Prot2Mode(file.prot) = wish.mode
  /\ wish.time.sec >= Epoch /\ wish.time.usec < 1000000 =>
       UnixTime(file.date) = wish.time.sec /\ IsDate(file.date)
=============================================================================
