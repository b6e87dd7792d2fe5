# A verification project for Newlib for WarpOS

This directory models the C library of `src/` (newlib 3.2.0 for WarpOS, with the
glue of `libgloss/`) in TLA+. TLC checks the models on small instances, TLAPS
proves the theorems for every value of the constants. Everything is written from
the C source; AmigaDOS (`dos.library`), AmiTCP (`bsdsocket.library`) and the
parts of newlib that the repository does not carry (`fclose`, `_fwalk`) are
modelled from how the sources here use them, and `PROJECT.json` marks those
definitions external.

## The system

The library is linked into one program. It has no thread of its own: it runs when
the program calls it, between the init functions that `startup/startupwos.c` runs
before `main()` and the fini functions it runs at exit. What surrounds it is
concurrent: other AmigaDOS programs change the same files, a peer answers on a
socket, a user types.

| Component | State it keeps | Operations | Hard behaviours | Correct when |
|---|---|---|---|---|
| Descriptor table and FILE pool (`open.c`, `close.c`, `dup.c`, `dup2.c`, `fcntl.c`, `socket2fd.c`, `findfp.c`, `fopen.c`, `freopen.c`, `fdopen.c`, `__stdiowin.c`) | `__fp`, `__maxfd`, the glue list of FILEs, and in each FILE `_flags`, `_file`, `_handle`, `_fdflags`, `_nestcnt` | open, fopen, freopen, fclose, fdopen, close, dup, dup2, F_DUPFD, socket, accept, `__sinit`, `_cleanup_r`, `__exit_fd` | one FILE behind several descriptors, half-failed opens, a table that moves, two layers that free the same object | no FILE has a handle that is closed, no handle has two FILEs, nothing stays open after exit |
| File input and output (`read.c`, `write.c`, `lseek.c`, `fsync.c`, `ftruncate.c`, `truncate.c`, `isatty.c`, `ioctl.c`, `fstat.c`) | none | one dos.library call each | locks, files and sockets in one field, a FILE that changes under its other descriptors | the descriptor reaches the file it was given for, and each function an object of its kind |
| Sockets (`bsdsocket.c`, `connect.c`, `recv.c`, ... ) | `SocketBase` | open the library on demand, translate the descriptor, forward | library closed while descriptors live | no call reaches a closed library |
| select (`select.c`, `socketselect.c`) | the sets of the call | scan, poll the terminals, wait for the sockets | readiness that changes while it looks, no timeout, two kinds of descriptor | what it returns is ready and was asked for |
| Start and exit (`startupwos.c`, `exit.c`, `__nocommandline.c`, `progname.c`) | the init and fini lists, command line, window and current directory | `callfuncs`, `_exit`, the init and fini functions | an init function that exits, an exit inside exit | what init took, fini gives back, in reverse order |
| Names and attributes (`__stdiowin.c`, `chdir.c`, `stat.c`, `mkdir.c`, `chmod.c`, `utime.c`, `prot.c`, ...) | the static copy of a name, `__pathconv` | convert a name, lock, ask, set, give back | a buffer that the next call frees, four passes over one string, a step that fails between take and give | dos.library finds what Unix means, nothing stays taken, mode and time come back |
| File system calls (`rename.c`, `unlink.c`, `access.c`, ...) and temporary files (`mktemp.c`, `tmpfile.c`) | none, a counter | several dos.library calls in sequence | other programs act in between, one step of several fails | a name denotes the old or the new file, two programs do not create one file |
| Memory (`malloc.c`, `mallocglue.c`, `realloc.c`) | one pool, a header below each block | memalign, free, realloc | size and alignment arithmetic, wrap-around, a way back that lies beside the data | blocks never overlap, the words before a block survive, every byte goes back once |
| Directories (`dir.c`, `chdir.c`) | the list of DIRs, the first current directory | opendir, closedir, readdir, chdir | locks held at exit | every lock is released once |
| Processes (`execve.c`, `execvp.c`, `execl.c`, `execle.c`, `execlp.c`, `popen.c`, `pclose.c`) | a `program_info` per search, what the process is set to meanwhile; for popen() a counter of pipe names | find a command or its interpreter, make its line, run it; start a child with handles | a dozen steps of which each may fail, a count shared with other programs, a line that another program reads | everything is restored and freed, the command stays loaded, its arguments arrive |
| Time, users, environment | `initclock` | reads | none | - |

The table is the heart: every other component that touches a file or a socket
goes through a descriptor, and close(), exit() and stdio share its FILEs without
agreeing on who owns them.

## Modules

### `Descriptors`: the table, the pool and the handles

| Variable | In the code |
|---|---|
| `fp`, `maxfd` | `__fp`, `__maxfd` (`__stdiowin.c:31-32`) |
| `iob` | the FILEs in the order `__sfp()` walks the glue list (`findfp.c:209-217`) with the fields `_flags`, `_file`, `_handle`, `_fdflags`, `_nestcnt` |
| `dos` | what dos.library and bsdsocket.library hold open under each handle |
| `sdidinit` | `__sdidinit` |
| `phase`, `cursor` | main, then the fini functions `doexit` and `__exit_fd` with their loop variables; `wild` after the table was lost |
| `owned`, `miscounted`, `faulted` | not in the code: what the program was given, whether dup(), dup2() or fdopen() installed a FILE where its count cannot see it, whether dos.library refused a Close() during exit |

A call is one action. Its effect is written as an operator on the record of the
five library variables, so that close() inside dup2() (`CloseFd`), `_open_fp()`
inside open(), fopen() and freopen() (`OpenFp`) and `__sinit()` inside `__sfp()`
(`Sinited`) are the operators the calls of the same name use. `_flags` is
abstracted to four values: `free` (0), `reserved` (the 1 that `__sfp()` leaves and
open() and the socket calls keep), `std` (a standard stream, without `_close`)
and `stream` (with `__sclose`). The answers of `Lock()`, `Examine()`, `Open()`,
`SetFileSize()` and `Seek()` are enumerated in `DosAnswers`, and `OpenResult`
follows `_open_fp()` through them to one of four endings; one of them is
`stranded`, the failed truncation that returns with the file open.

What the model leaves out: the contents and names of files, O_NONBLOCK and the
flags in `_fcntl`, descriptors beyond the table (dup(), dup2(), fcntl() and
ioctl() index `__fp` without a check), buffers and flushing, a `__sfp()` that
fails in open() (the call then returns -1 and changes nothing further), fclose()
of a FILE that stdio does not know. `HAVE_FCNTL` is undefined, as in the build
the repository describes. A handle is a name: the next file may get the same
name again as soon as it is closed, which is how AmigaDOS reuses addresses.
`Close()` releases a file, `CloseSocket()` a socket, neither a lock.

### `MCDescriptors` and its configurations

Values for TLC only.

| Run | Question | Bounds | Distinct states |
|---|---|---|---|
| `files` | every call in any order, from a program that may close descriptors twice, use ones it does not own, and closes, reopens, duplicates and overwrites its standard output | table of 5 (descriptors 1, 3 and 4 are usable), 5 FILEs (two beyond stdio, and that of standard output once it is closed), two handles beside the two of the shell, nesting up to 2; within these, `Bounded` | 588,291 |

The run `io` of `FileIO` adds a table that grows from 4 to 8, from a program that uses what it
was given.

The bounds are small because the hazards are. While the program runs, `Bounded`, the constraint
of the run, goes on from two kinds of states, and what follows in one step is checked too; the
fini functions are followed from all of them:

* `TwoAtOnce`: two descriptors, FILEs and handles of the program, while the standard streams are
  as `__sinit()` left them, no handle is lost and nothing `miscounted`. Here are a FILE with two
  counted descriptors, so that `_nestcnt` of 1 meets two references, two FILEs that each hold a
  handle of the program, and dup2() of a socket while a handle is left for the copy: what
  `OneOwner` and `NestBelowRefs` are about.
* `OneAtOnce`: one of each while the standard streams change in any way, truncations fail,
  handles are lost and counts part from references (with nesting up to 1 after these two). Of the
  two handles of the program one is free, so that the next call is given what another has just
  closed.

The two handles are interchangeable (`Symmetry`): no constant, definition or property tells
them apart.

No run checks for deadlock: the program ends. No run needs fairness: the properties of this
module are about what the calls leave behind.

Properties:

* `TypeOK`: in particular `_nestcnt` never goes below 0.
* `NoStaleHandle`: no FILE keeps a handle after Close(). The interesting paths are
  a FILE that fclose() freed while duplicates refer to it, one that freopen()
  took over, and one that dup2() overwrote.
* `OneOwner`: no two FILEs hold one handle, also when dup2() gives the copy of a
  socket a handle of its own (`dup2.c:36`).
* `NestBelowRefs`: the count close() consults is lower than the number of
  descriptors of the FILE, so some close() reaches the handle. It fails after
  dup2() onto 0 to 2, onto a descriptor of the same FILE or over a descriptor
  that could not be closed, and after dup(), which always installs at 0
  (`dup.c:27`); `miscounted` records these and nothing else.
* `ExitCloses`: after both fini functions no descriptor above 2 leads to an open
  handle.
* `AbandonedOnlyWhere`: an open handle drops out of every FILE in three places only.

`MayReplace` says what a program may duplicate onto: descriptors that are its own or
unused. "Unused" means that the table has no entry: close() of a duplicated FILE leaves
the entry (`close.c:33-37`), and a dup2() onto that descriptor number closes the FILE
again, under the program's other descriptor. With the condition dropped, TLC finds that
program in the run `io`.

Four disagreements with comments are in the model and plain to see there, without a
run: `FDFL_DIRLOCK` is "file is a lock, not a handle!" (`fdflags.h:13`), yet close()
of a directory hands the lock to Close() and forgets it (`close.c:42`, `ReleaseKind`);
`FDFL_STDIO` says "never close" (`fdflags.h:11`), yet after dup2(1, n) and close(n)
the fini function closes the handle of the shell; a FILE "is free if 0"
(`reent.h:190`), yet fclose(stdout) frees the FILE that descriptor 1 refers to, and
the next fopen() gets it; and an open() that fails never releases the slot that
"caller sets real flags" of (`findfp.c:224`).

### `DescriptorsProofs`: what is proved

For every size of the table, the pool and the handle space, and every choice of
calls (the assumptions are `SizeAssumption` and `ValueAssumption` of
`Descriptors`):

* `TypeCorrect`: `Spec => []TypeOK`
* `NeverStale`: `Spec => []NoStaleHandle`
* `NeverShared`: `Spec => []OneOwner`

None of the three is inductive alone. A stale handle would appear if a close()
released a handle that a second FILE holds, so `NoStaleHandle` needs `OneOwner`;
`OneOwner` needs `NoStaleHandle`, because a new handle is one that is closed, and
no FILE may still hold it. Both need that an own handle is never one of the two
of the shell. `IInv` is the conjunction `Sound(Lib)`, on the record of the library
variables, and `RestOK`, the types of the rest. Each operator on the record
(`Sinited`, `Reserved`, `Getfd`, `CloseFd`, `OpenFp`, `SocketFile`, ...) has one
lemma: it preserves `Sound` under the condition its callers establish. An action
is then a composition of lemmas, and `HandlesSafe` joins them.

The other three properties rest on more:

* `NeverMiscounted`: `Spec => []NestBelowRefs`. That a FILE has more descriptors than
  `_nestcnt` says is not inductive, as the standard descriptors are counted by nobody:
  `Even` says that the descriptors from 3 on are more than the count, for a FILE with a
  handle of the program, and that no descriptor lies above the table (else a table that
  grows would bring one back). It is preserved only while nothing is `miscounted`;
  lemmas count the descriptors of a FILE when one is installed, given away or replaced.
* `ExitLeavesNothing`: `Spec => []ExitCloses`. `ExitLoop` is the loop of `__exit_fd()`:
  at `cursor`, a FILE with an open handle has more descriptors to come than its count,
  so its last one finds the count at 0. `CountInv` joins `IInv`, `Even` and `ExitLoop`.
* `NeverLost`: `Spec => AbandonedOnlyWhere`. Each operator keeps the handles that are held
  (`Keeps`) but for the three exceptions. `KeepInv` adds to `IInv` that the table and the
  pool are empty until `__sinit()` has run (`Untouched`), which makes that call harmless.

The module ends with what is proved of `FileIO`, below.

### `FileIO`: the calls on a descriptor

`FileIO` extends `Descriptors`: its steps are those of the table, with two variables
more. `base` is `SocketBase` (`bsdsocket.c:28`), opened when it is first needed and
closed by a fini function; `severed` is not in the code: it records that fclose() or
freopen() has ended a FILE other descriptors share. Each call that looks a descriptor
up is an operator that says which object it hands to which library, or `Nothing` where
it refuses: read(), write(), lseek(), fsync(), ftruncate(), isatty(), fstat(), ioctl(),
F_SETFL, and the fifteen calls on sockets, which all go through `__init_bsdsocket()`.
Positions and contents are left out.

The run `io` has a program that uses the descriptors it was given, with every call but
fdopen(), two handles, two spare FILEs, a table of 4 that becomes 8, nesting up to 1:
1,027,753 states. States in which a FILE was miscounted or severed are not followed:
nothing is promised there.

* `RightObject`: what a call reaches is open and of the kind that its library takes, or
  the call refuses. For read(), write() and the socket calls that holds of every
  descriptor, for fsync(), isatty() and F_SETFL of every one but a directory, for
  lseek(), ftruncate() and fstat() only of a file: those hand a lock, or a socket, to a
  function for file handles.
* `Undisturbed`: what a descriptor leads to changes only by dup2() onto it and by
  freopen() of its stream, whatever happens to the other descriptors of its FILE and
  however the table moves.
* `ClosedByLibrary`: CloseSocket() is called while the library is open. Only the
  priorities 120 and 130 of two fini functions in two files see to it at exit.
* `ExitCloses`, here with a table that has grown.

`DescriptorsProofs` proves them for every size of table, pool and handle space. Each step of
`FileIO` is one of `Descriptors` or leaves its variables alone (`TableRefined`: `SpecIO =>
Spec`), so the theorems above hold here too. `LibraryOutlivesSockets` (`ClosedByLibrary`)
needs one fact, on what `base` is in each phase (`BaseOK`), and no hypothesis.
`ReachesRightObject` (`RightObject`) and `LeavesOthersAlone` (`Undisturbed`) are for programs
that leave the standard descriptors and fdopen() alone (`StdUsed = {}`, `"fdopen" \notin
Calls`), as the program of the run does. The properties do not hold of the others, and TLC says
why: after fclose(stdout) and an open() that fails in the FILE this freed, dup2(1, 3) gives a
descriptor that leads to no file; and (with three handles) after socket() to 3, F_DUPFD of it,
fdopen(3), dup2() of a file onto 3 and freopen() of the stream, a file handle is in a FILE that
is still flagged FDFL_SOCKET.
The invariant `ReachInv` has `CountInv` and `KeepInv` and two parts:

* `Good(Lib, Mine)`, until something is miscounted or severed: the descriptors that the
  program owns lead to FILEs that are not free, with a handle that is open and of the kind
  the flags say, and no FILE has more of them than `_nestcnt + 1`. The last is what
  makes it inductive: a close() that reaches the handle has no other owner behind it.
* `Streams(Lib)`: a FILE that stdio opened is no socket and one of the standard streams is
  0 to 2, so that fclose() and freopen(), which do not look at the flags, do no harm.

What `severed` excludes is a fact about the code: after fopen(), dup2(4, 3) and fclose()
of the stream, whose FILE `_nestcnt` keeps open for descriptor 3, the FILE is free all
the same, the next open() gets it, and descriptor 3 reads the new file. freopen() does
the same at once (`freopen.c:132`).

### `Heap`, `Malloc` and `MallocProofs`: memory

`Malloc` has memamiga(), calloc(), realloc() and free() on a size_t of `Bits` bits; the
pool of WarpOS is external and may give any room that is free, or none (`Refused`).

| Variable | In the code |
|---|---|
| `chunks` | what the pool has given and not got back |
| `blocks` | the blocks of the program, with the words `memloc` and `memsize` before them (`loc`, `size`); `sound` is FALSE once anything was written over them |
| `wrapped` | not in the code: a size has wrapped |

A program may at any time write every byte it believes to have (`Fill`), and calloc()
and realloc() write too; `Overwritten` works out whose words that hits, around the end of
the address space if need be. free() of a block whose words are gone ends in the illegal
instruction of `malloc.c:55` or gives back what is not the block's (`Crash`).

`Heap` is what is promised: blocks that never overlap. The run `memory` has 8 bits and 256
bytes of memory, eight places, three blocks at a time, alignments of 0, 32, 48 (refused) and
64, and sizes whose sum is 64, 88, 255, and wraps to 0, to 8 and, for a product that only
calloc() can be asked for, to 79: 82,884 states. The size of 255 just fits, the next one is
refused, those after give a block that is far shorter than it says; three blocks give a
neighbour on either side.

* `Accounted`: every byte the pool has given belongs to one block and goes back with it,
  whole and once, also when sizes wrap.
* `WordsSurvive`: while no size has wrapped, a program that stays within its blocks
  never writes over the words before a block.
* `KeepsPromise`: the blocks whose size has not wrapped implement `Heap`.

A size that wraps is what `WordsSurvive` and `KeepsPromise` leave out, and what a program is
exposed to. The sum at `malloc.c:29` is not checked: a size just below 2^32 is given a few
bytes, realloc() copies as many as were asked for over the words of a block that follows, and
free() of that one finds the cookie gone, "Memory corruption" (`malloc.c:54-55`), in a program
that wrote nothing it had not asked for. Without `~wrapped` in `WordsSurvive` TLC finds the
words overwritten by the second allocation. `Accounted` holds there too.

`MallocProofs` proves all three for every width and pool, from
`WidthAssumption`, `PlaceAssumption` and `SizeAssumption`. The invariant says that a chunk
is within memory and apart from the others, that each block has one, and that, unless its
size wrapped, the words and the bytes of a block lie inside its chunk: `align + 31` rounded
down to a multiple of `align` leaves room for 12 bytes before and for `want` bytes behind.
So no write within a block reaches another's words, and a new block is apart from the old
ones.

What realloc() reads is left out: it copies as many bytes as the new block has
(`realloc.c:32`), which is beyond the old one when it grows.

### `CallOrder` and `CallFuncs`: the order of the init and fini functions

`callfuncs()` (`startupwos.c:141-174`) does not sort its list. It walks it once for
each priority, calls the functions of the present priority `highPri` and looks on
the way for the next lower one, `nextHigh`; the flag -1 turns the order round for
the init list. `CallFuncs` has the loop with its local variables (`cf` is the
position), one action per branch of its body: `Call`, `Remember`, `Pass`, and
`NextWalk` and `Return` at the end of a walk. `LONG` is `-Half .. Half - 1`, and the
sum `cf_Priority + 1`, stored in a ULONG, wraps (`ToULONG`). A function of the list
that does not return ends the walk, which `Startup` has.

`CallOrder` is what it promises: one function after the other, each the first of
those that are left. `Implements` says that `CallFuncs` refines it for lists of
priorities from 0 on (others are mapped to the empty list). The run `calls` checks
it with every list of up to four priorities of a LONG of 6 values (48,072 states),
and for all lists, negative ones included:

* `InOrder`: functions with ordinary priorities are called in order, equal ones in
  that of the list, none twice, whatever the negative ones do to the walks;
* `AllCalled`: nothing is left out, but for the one priority that becomes 0, which
  the code also uses for "no lower priority": -1 in a fini list, -2 in an init list;
* `Ends`: the function returns. The fairness is weak fairness of the whole loop,
  which waits for nothing.

Four priorities give every order of two walks with a candidate seen too early, too
late and twice; 6 values give each kind of wrap.

`CallFuncsProofs` proves for every width of LONG and every set of lists (from
`WordAssumption`, `ListAssumption`): `WalksDescend` (`TypeOK`, with `nextHigh <
highPri`, the measure of `Ends`), `CalledInOrder`, `NoneLeftOut`, and
`StepsInOrder`, the safety part of the refinement. The invariant is `TypeOK` with
four facts about the walk: what was called has a higher priority than `highPri`, or
the same and an earlier position, and all of those were called (`Selected`);
`nextHigh` is the highest priority below it among those passed (`Highest`); the
calls so far are ordered by converted priority (`ByPri`); after the return nothing
above 0 is left (`Ended`). The lemmas about `Pri` say that the conversion keeps the
order of priorities from 0 on, in either direction. `Ends` and the fairness of
`Implements` are model-checked only.

### `Startup`: from start to return

| Variable | In the code |
|---|---|
| `start` | the start message: from Workbench, with arguments, a window wanted |
| `mode`, `done` | what runs, and the functions of the present list that were called |
| `os` | locks, current directory, Input(), window, blocks, pool, library, socket, semaphore of the process |
| `lib` | `cd`, `window`, `cline`, `oldlock`, `havelock`, the list of DIRs, `__fp`, `__stdin`, `SocketBase` |
| `handlers`, `registered`, `exits` | atexit() functions left, and the bounds |
| `faults` | not in the code: what was used before it existed or after it was gone |

Each init and fini function is an action (`InitFd`, `ExitChdir`, ...) that is
enabled when `callfuncs()` comes to it: the priorities are in `InitPriority` and
`FiniPriority`, and `Initialising` and `Finishing` are the promise of `CallOrder`. An
init function that fails calls exit(), and so may main(), a destructor and a
handler: `_exit()` never returns to its caller, it runs the destructors and the fini
list from the start and leaves with the stack of the start. What a program does
in between is opendir(), closedir(), chdir(), the first socket call and atexit().
A fini function that reads what was never initialised goes astray (`Strays`): it
finds nothing to do, or the program is `wild` and nothing more is said of it.

The run `lifecycle` has four locks (DupLock() at the start, chdir.c, one chdir() in
progress, one DIR), two handlers and three exits: an exit inside a handler inside
an exit inside a destructor. 75,388 states.

* `LocksGivenBack`: the launcher gets back its directory and all locks, each
  unlocked once, however the program moved about. `chdir.c` restores its directory
  inside that of `__nocommandline.c`.
* `AllGivenBack`: so are window, memory, library, socket, pool and semaphore, and
  every handler was called.
* `FaultsOnlyEarly`: nothing is used after it was given back, although the fini
  functions do not reset `SocketBase`, `window`, `havelock` and `cline` and may be
  started several times; something is used too early only when the start failed. The pool
  is the first: nobody looks whether CreatePoolPPC() gave one (`malloc.c:67`), and
  `__init_fd()` allocates from it.
* `ExitEnds`: every exit() ends. Fairness: the init and fini functions run, and
  wait for nothing; destructors and handlers of the program are assumed to return
  or to call exit(). main() is under no fairness.

`StartupProofs` proves the three invariants for any set of locks and any number of handlers
and exits (`LocksReturned`, `AllReturned`, `NoFaultLater`), from `LocksAssumption`: the
directories of the launcher and of the icon are not among the locks the program takes,
and 0 is no lock. None of the three says what holds in the middle of a list, so none is
inductive. `IInv` does (`Invariance`): the fini functions that were called are those of the
highest priorities (`ListOrder`, from which each action learns what ran before it); each init
function that was called has left its thing, in the order of their priorities (`InitPhase`);
from then on a thing is there until its fini function was called in this run of the list, and
the static variables say so (`ThingsHeld`); the locks are those of the launcher, the DIRs, the
current directory and the directory of the icon, no two the same (`LocksHeld`). An exit()
inside a destructor or a handler sets the list back, and `Given` counts only the present run:
as neither runs after a fini function, nothing was given back before that it would give again.
`ExitEnds` is model-checked only.

The disagreement `OriginalLockSet`, run `original_lock`: `__exitcommandline()`
"set[s] original lock" (`__nocommandline.c:141`) with a `cd` that is still 0 when
the window did not open, and unlocks the directory of the launcher.

Two things the model shows without a run: an init function that fails makes
`_EXIT_5_dirlist()` walk a list that was not initialised (`dir.c:46-54`); and the
standard streams are what Input() was before the window opened, because
`__init_fd` (130) runs before `__initcommandline` (150).

### `Select`: one call of select()

`asked`, `timeout` and `table` are the parameters and what they refer to; `sets`,
`tcp`, `n` and `todo` the local sets and the count; `pc` and `then` the place in
the function; `typed` and `arrived` the terminals and sockets that are ready, which
grow at any time (`World`), also between two questions. Regular files are ready at
once, terminals are asked one by one (`Ask`), sockets together (`Look`, `Wait`).
Lengths of time are left out: a wait that may time out ends when it likes. `nfds`
is `__maxfd`; a negative timeout (EINVAL), errno and the contents of the sets after
an error are left out. The answer 5 of `__socket_select()` when the library does
not open is not reachable with a socket in the table.

The run `select_calls` has six tables of three descriptors (two terminals, files
that are open for reading, both ways, and by open(), a directory, two sockets and
one socket twice), any descriptors to read, two to write and one for exceptions,
with and without a timeout: 241,035 states. Three descriptors give every mixture
of two kinds and one of a third.

* `OnlyReady`, `CountRight`: what is returned is ready, and counted once, though up
  to four places count.
* `NothingMissed`: what was ready at the call is in the answer.
* `Returns`: it returns if it has a timeout or something is ready. Fairness: a wait
  that can end ends. That WaitSelect() fails is never required.

`OnlyReady` and `CountRight` except terminals and sockets without a timeout, the
case of the disagreement `MixedWaits`, run `select_mixed`: the loop below "infinte
timeout, so check for files in between" (`select.c:259`) tests a variable that the
scan left at nfds (line 261), so it is never entered and every socket asked for is
reported. With nothing to wait for and no timeout select() reads the timeout at
address 0 (line 275, `Sleep`).

`SelectProofs` proves the three invariants for any number of descriptors, any table, any
request and any order in which things become ready (`OnlyReadyNamed`, `CountsNamed`,
`ReadyIsNamed`), from `FdAssumption`, `TableAssumption` and `RequestAssumption`. The
invariant `Inv` says for the place in the function (`At`: where select() is, or goes on
after the terminals) whether the sockets are still to be asked (`Before`) or have been
(`After`). Before, the sets hold no socket (`NoSockets`), so that the descriptors
amitcp2fd() adds are new, and as many as the handles it was given, each of which leads
back to itself (`FdOfSocket`, `ConvertedOnce`); a terminal that was ready at the call is in
the set or still in `todo` (`Complete`); and the questions that ask terminals alone are
reached only without sockets (`Placed`). That descriptors have a least one, which `FdOf` and
`Ask` need, comes from the library's theorem on well-founded relations. `Returns` is a
liveness property and model-checked only.

### `FileSystem`: files among several programs

Each call of dos.library in open(), mkstemp(), rename(), access() and unlink() is a
step of a program. `dir` is what the names denote, `fh` the lock or handle a call
holds, `desc` the file of the descriptor (one per program), `data` who has written
what is in a file it has open, `protected` the files with the delete bit, `lost`
handles that nobody knows any more. dos.library is external: a file in use can be
neither deleted nor emptied nor locked exclusively; Rename() does not replace.
Directories, the table and the pool are in `Descriptors`. A handler that does not
know Lock() (`open.c:171-174`) is left out, as it is no file system.

The run `file_names` has two programs, two files and two names, which are the ones
mkstemp() tries; one of the programs renames (`Renamers`), one truncation may fail
(`MaxLost`). 506,315 states. Two of each are the smallest instance in which a name
is taken over, a template is exhausted and a handle blocks another program.

* `TypeOK`: with it, a file is held exclusively only between two calls of dos.library
  that follow each other, so that nobody is locked out for longer.
* `NothingLeftHeld`: whichever step failed, a call that returned holds nothing. The
  failed truncation (`open.c:217-219`) is the exception, its handle goes to `lost`.
* `WrittenKept`: what a program wrote into a file it has open is lost only by the
  O_TRUNC of somebody who found the file there, never by one who has just made it.
* `CallsReturn`: every call returns, also the loop of mkstemp(). Fairness: each
  program runs, dos.library answers; that a program makes another call is not
  assumed.

`FileSystemProofs` proves the first three for any number of programs, names and
files and any bound on the truncations that fail (`TypeCorrect`, `NothingIsLeft`,
`WrittenIsKept`), from `TempAssumption`, `OpeningsAssumption` and `NoneAssumption`.
The invariant has a part for each program (`ProgramOK`: a lock or a handle is held
only at the steps between its taking and its release, and an open() that has created
its file has no O_TRUNC left), and one for all: a file in use has a name
(`UsedAreNamed`). The second is what `WrittenKept` needs: Delete and NewFile spare a
file in use only if it has the name they look at, and a file without a name could be
made a second time. `CallsReturn` is model-checked only.

The disagreement `OneEach`, run `temp_race`: mkstemp() "doesn't suffer the race
condition" (`mktemp.c:119`), but the gap between Close() and the second Open()
(`open.c:186-187`) lets a second program, which found no file before, empty and
open the same one.

Properties that one would expect and that do not hold: open(O_CREAT) keeps a file
that exists (not if it is locked by access() or rename() at that moment, or must not
be read); rename() loses no file (it deletes the target first, and the source when
both names are equal; two crossed calls lose both); tmpfile() deletes its file
(DeleteFile() refuses a file that is open).

### `CommandLine` and `Processes`: execve() and its kin

`CommandLine` has the two translations, each as the code makes it: `LengthOf` counts
what `ArgString` writes (`execve.c:595-685`), `Words` is the loop of
`__initcommandline()`: `Read` is the recursive function that takes `Scan` from character to
character. Characters are blanks, the quote, the star, the line feed, 0xA0 and any other.

| Variable of `Processes` | In the code |
|---|---|
| `prog[p].info` | the `program_info` of the command (1) and of its interpreter (2), as the set of the fields that are not 0 |
| `prog[p].changed`, `dvp`, `dirs` | `pr_WindowPtr`, file system task, current directory, program name and home while they are not those of the program; the DevProc of the loop over an assign |
| `prog[p].error` | `error` of `find_command()`, which starts with any value: nothing sets it before line 372 |
| `prog[p].scratch`, `left` | `argv` of execl(), `path_copy`, `command_buffer`, `arg_string`; the directories of the path left |
| `prog[p].line` | what the line for `RunCommand()` is made of |
| `listed`, `uses`, `others` | the resident command, its `seg_UC`, and how many other programs hold it |

A call of malloc(), strdup(), Lock() or LoadSeg() that may fail is one step with both
outcomes; what is found under a name is any of resident command, builtin, loadable
file, ARexx or shell script with and without arguments, file with the script bit,
nothing. An empty file in place of a script makes `get_first_script_line()` write through an
address it never got (`execve.c:213`), after which the program may do anything (`wild`).
`level` tells the search for the command from that for its interpreter.
Left out: which errno, what follows exit() (`Startup`), envp (execve() ignores it), a
program without CLI (Workbench: line 819 reads through address 0), `__amigapath()`.

The run `commands` has one program in every detail and two more users of the resident
command, a path and an assign of two directories, and as arguments every string of up
to three of six characters, alone, and pairs with an empty, a quoted and a plain
first one: 103,644 states. One program suffices because programs meet in `uses` only,
which `others` exercises; two directories give a loop that goes round and one that
stops; three characters give a quote or star at the head, in the middle and at the end.

* `AllRestored`: whatever fails, window, file system, directory, name and home are
  those of the program again and the program_infos and the memory are freed.
* `UsersCounted`: `seg_UC` is exactly the number of program_infos that hold the
  command, so the user cannot remove it from under one.
* `RunsLoaded`: what is run is loaded and no script, in the directory of the caller.
* `LineFits`: length and line, two functions, agree, and whatever the line, its words fit in
  the buffer of the program that reads it.
* `ArgumentsArrive`: the other program's `argv` is the one given, after the name of the
  script if it is one.
* `CallsEnd`: the two loops end, unless such an empty file was met. Fairness: a program that
  is inside a call goes on. A command that runs is under no fairness, nor is a program that
  has not called.

What does not come through, and `Plain` and `Bare` therefore leave out: the name of a script
is passed on as it is, so one with a blank in it becomes two words; empty arguments are
dropped, a quote at the head is taken for quoting that was already done, and a line feed,
written as "*N", is read as "N" (`__nocommandline.c:86-94`). And RunCommand() answers
-1 both when it ran nothing and when the command returned -1 (`execve.c:828`): the
program goes on after its command then, against "when it has returned the currently
running program will exit" (`execve.c:692-693`), and execvp() may try the next directory.

`ProcessesProofs` proves `AllRestored`, `UsersCounted` and `RunsLoaded` for any number of
programs and other users, any path and assign and any arguments (`EverythingRestored`,
`UsersAreCounted`, `LoadedIsRun`), from `BoundAssumption`, `StringAssumption` and
`VectorAssumption`. The invariant `Inv` has two parts. `ProgramOK` says for each place in
the calls what is changed, held and found: while find_command() looks (`Finding`) the
directory is changed only under a DevProc; while it looks for an interpreter the
`program_info` of the script asks for one, so the script is no resident command; once the
command may run (`Running`) only one `program_info` is left. `Counted` says that
`Users`, the pairs of a program and a `program_info` with the command, is finite and `uses`
its cardinality with `others`. Each step either leaves `Users` as it is (`Moves`), adds the
level that looks (`ResidentOK`) or frees both (`FreesOK`), and there it matters that at most
one of the two is a user: free_program_info() would otherwise count both down, the model's
`Freed` only one.

`LineAlwaysFits` and `ArgumentsDoArrive` prove `LineFits` and `ArgumentsArrive` for arguments of
any number and length; what `Inv` gives them is that the parts of the line are strings. The rest
is about the functions. `Recursion` shows that a recursive function exists, so that what its
definition says of each value may be used (`ReadIs`, `BuildingIs`, `CountingIs`, `SizingIs`), and
`Induction`, from the least number that would be an exception, replaces the library's induction
theorem: the predicate is a set there. Then `LengthIsLength` follows the line as it grows,
`ScanFits` compares buffer and line after each character, and `ArgumentsArrive` rests on
`ReadConcat`: what is read of two strings is what is read of the second from where the first
led, so that each character as it is escaped (`ReadEscaped`), each argument with its quotes
(`ReadWritten`) and each blank between two (`ReadBlank`) is a lemma. `CallsEnd` is a liveness
property and model-checked only.

### `Pathnames`, `Attributes` and `Names`: the calls that take a name

`Pathnames` has `__amigapath()` pass by pass on names as sequences of what stands
between the slashes, and two meanings of a name: `UnixMeaning`, the reference, and
`AmigaMeaning`, what dos.library finds. `Attributes` has the two translations of
protection bits and dates, which different calls use in opposite directions.

`Names` makes an action of each call: access(), chdir(), chmod(), chown(), link(),
mkdir(), opendir(), closedir(), popen(), readlink(), realpath(), rename(), stat(),
symlink(), truncate(), unlink(), utimes(), and of getcwd(), getpass(), fnmatch() and
times(), which hold things meanwhile. A call is written as the operators on a record that
its calls to the system are, in their order; `far` says how many of them succeed, and
`memory` whether `strdup()` did.

| Variable | In the code |
|---|---|
| `path`, `pathconv` | the name the program uses, in its own memory; `__pathconv` |
| `s1` | where the static `s1` of `__amigapath()` is: a name is alive while it is there |
| `held`, `dirs` | how many locks, handles, blocks, ports, signals and devices are taken, and whether `pr_WindowPtr` is set aside; the DIRs in the list |
| `file`, `wish` | protection and date of the file; mode and time it was given last |
| `asked`, `did` | the names the last call gave to the system; the call |

The run `names` starts with each name of up to four of the parts "", ".", ".." and "a",
converted or not, in a current directory two levels deep: 25,530 states. Every call is made
with each; sequences of calls are followed with one that is converted and one that is not, and
from a file that utimes() gave a time (one with the present is looked at once). Four parts give
every pair of parts between a first and a last one.

* `SameMeaning`: a converted name is found where Unix means it if it is `Translatable`. A
  relative name that begins by going up is not, as ".." leaves an empty part that the last pass
  takes for a slash at the beginning: "../a" is the volume "a:", and ".." is "SYS:"
  (`__stdiowin.c:91, 108`). Nor are two kinds of name that AmigaOS has no other for: those that
  go up from a volume to the root, and those with a part "SYS", the name of the root itself.
  mkdir() of a name with ".." in it is an exception, for the second conversion (`mkdir.c:33`).
* `LiveNames`: no name that was freed reaches the system, though the buffer is static, but
  for symlink(), whose first name the second conversion frees (`symlink.c:31-35`), and
  mkdir(), whose chmod() converts the buffer of its own result (`mkdir.c:33`); NULL for
  want of memory reaches it from the ten calls that do not look.
* `Released`: whatever step fails, what a call took is given back, with four exceptions:
  the locks of chown() and readlink() (which gives a handle to UnLock()), the buffer of
  getcwd() and the console of getpass().
* `AttributesKept`: stat() finds the mode that chmod() set, and the time that utimes()
  set if AmigaDOS has that year, as a date that it knows. utimes(file, NULL) sets what
  DateStamp() answers (`Dates`), which gettimeofday() would have given as the same time.

`NamesProofs` proves `AttributesKept` for all modes and times (`AttributesReturn`), from
`ModeAssumption` and `DateAssumption`: that the file has what its last mode and time became
is inductive (`Stored`), `ModeReturns` inverts the bits, and `TimeReturns` adds up days,
minutes and ticks again. It also proves `Released` (`EverythingReleased`), from no
assumption on the constants: `Holds(L, h)` says that a call has come to `L` with `h` held,
the lemmas on `Take`, `Give`, `Ask` and `Convert` say how each moves it, a lemma per group
of calls adds them up on every way through, and `Counted` (the counts and the number of DIRs
are integers) is the invariant under which the sums cancel. `MaxHeld` only bounds the runs:
no step of the proof uses it. And it proves `LiveNames` for all names (`NamesAreThere`),
likewise from no assumption: a name that was converted is at the address `s1` has, or NULL
(`Gives`), the lemmas on the steps of a call carry it there, and the invariant adds that
`s1` is at one of its two addresses. For that `NULL` and `Garbage` are records without the
fields of a name.

`MeaningIsKept` proves `SameMeaning` for names of any length in any current directory, from
`PathAssumption` (names are sequences of strings, and not empty) and `VolumeAssumption`. The
invariant `NamesMean` is `SameMeaning` with what the calls need of the program's own name; that
every name a call has asked for is one Unix and AmigaOS agree on (`AllProper`) is carried from
one of its steps to the next. What a conversion gives is `AmigapathTranslates`, pass by pass,
with the recursive functions treated as those of `CommandLine` are:

1. after the first two passes there is the slash at the beginning, if there was one, and the
   words that lead to the file: the parts that are neither empty nor "." (`Sifted`, `KeptOf`,
   `DotlessOf`);
2. after the third, each ".." among them is empty, and one at the end has a slash more
   (`PassedOf`);
3. the fourth gives a current directory or a volume and words to go from there
   (`RootedTranslates`), as the first part is empty only if the name is absolute. That is where a
   name that begins by going up is lost;
4. from there the two walks reach the same directory. A way up never starts at a volume, where
   AmigaOS would stay and Unix leave.

A name that was translated and has no ".." is not changed by a second conversion
(`StrippedTranslates`): this is what mkdir() needs.

Further facts that the model shows: NOIXPATHS=1 turns the conversion on, which the comment
takes for turning it off (`__stdiowin.c:138-140`); link(), utimes() and truncate() use the
name as it is given; popen() converts its command line as if it were a name, and its
fopen() the name of the pipe; microseconds
of exactly a second are not carried (`utime.c:41`), which gives tick 3000 of a minute.

## Plan

Done: `Descriptors`, `FileIO`, `Malloc`, `CallFuncs`, `Startup`, `Select`, `FileSystem`,
`Processes` with `CommandLine`, `Names` with `Pathnames` and `Attributes`; proofs for
`Descriptors` and `FileIO`, `Malloc`, `CallFuncs`, `Startup`, `FileSystem`, `Select`,
`Processes` and `Names`. Every invariant that a passing run checks is stated by a theorem, for
every value of the constants. What could still be done:

1. Proofs: `RightObject` and `Undisturbed` for programs that use their standard descriptors
   and never end a standard stream, and those that call fdopen() of files only.
2. `Popen`: the child that uses the handles, the names of the pipes, pclose() and the ids
   wait() answers with; with it the command that returns -1.
3. An atomic specification of the calls of `FileSystem`, refined when only one program is
   inside a call.

Liveness (`Ends`, `ExitEnds`, `Returns`, `CallsReturn`, `CallsEnd`, the fairness of
`Implements`) stays with TLC: the prover does not know ENABLED. Recursion over data is proved
about where the model needs it, in `CommandLine` and `Pathnames`, which define recursive
functions and no recursive operators; the induction is from a least number, as the theorems
of the library that take a predicate can not be used.

## Not modelled

See the components of `PROJECT.json`: the questions to the resolver (gethostbyname() and
the like), sleep() and its kin, readdir() and dirname(), constant answers, debug output
and declarations, none of which keeps state. How `__start()` reads the task object is not
modelled, nor are two PowerPC tasks that share the library: nothing in the repository
creates one. What the destructors of a program do, which a nested exit() runs again, is
the program's.

Known to go wrong without a property that could hold: a realloc() of the table that fails
loses every open file (`open.c:109`); descriptor `__maxfd` passes the check of the calls
that look one up (`read.c:31`); dup() installs at descriptor 0 (`dup.c:27`); rename()
deletes its target first (`rename.c:42`); open(O_CREAT) takes a locked file for a missing
one (`open.c:182`); RunCommand() answers -1 for two things (`execve.c:828`).
