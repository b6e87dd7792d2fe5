----------------------------- MODULE FileSystem -----------------------------
(***************************************************************************)
(* Several programs that create, open, rename and delete files at the same *)
(* time: open() (libgloss/open.c), mkstemp() (newlib/stdio/mktemp.c),      *)
(* rename(), access(), unlink() and close() as the sequences of calls to   *)
(* dos.library that they are, each call a step.  dos.library itself is     *)
(* external: a file that is open or locked can not be deleted, emptied or  *)
(* locked exclusively, MODE_OLDFILE shares a file and MODE_NEWFILE does    *)
(* not.  Directories and what happens to the descriptor are in             *)
(* Descriptors; a program has one descriptor here.                         *)
(***************************************************************************)
EXTENDS Integers, Sequences, FiniteSets

CONSTANTS
  Programs, Names, Objects,
  Temp,        \* the names mkstemp() tries, in this order
  Renamers,    \* the programs that call rename()
  Openings,    \* flags open() is called with
  MaxLost,     \* bound: truncations that fail
  NONE

ASSUME TempAssumption == Temp \in Seq(Names) /\ Len(Temp) > 0
ASSUME OpeningsAssumption == Openings \subseteq SUBSET {"CREAT", "EXCL", "TRUNC", "APPEND"}
ASSUME NoneAssumption == NONE \notin Objects

VARIABLES
  dir,        \* the file of each name
  data,       \* who of those that have a file open has written what is in it
  protected,  \* the files that are protected against deletion
  call,       \* the call a program is in
  pc,         \* how far it has come
  fh,         \* the lock or handle the call holds
  desc,       \* the file of the descriptor
  lost        \* files with a handle that no variable of the program has any more

files == <<dir, data, protected>>
vars  == <<files, call, pc, fh, desc, lost>>

\* The parameters of a call: the present name and, for rename(), the new one; flags as
\* they are now; the position in Temp for mkstemp().
Call == [op : {"none", "open", "mkstemp", "rename", "access"}, name : Names, to : Names,
         flags : SUBSET {"CREAT", "EXCL", "TRUNC", "APPEND"}, k : 0 .. Len(Temp),
         fresh : BOOLEAN]      \* open() has created the file

Holding == [file : Objects, mode : {"shared", "exclusive"}]

NoFile == [file |-> NONE, mode |-> "shared"]

NoCall == [op |-> "none", name |-> Temp[1], to |-> Temp[1], flags |-> {}, k |-> 0, fresh |-> FALSE]

NoDesc == [file |-> NONE, op |-> "none"]

Exists(name) == dir[name] # NONE

\* Somebody has a lock on the file or has opened it.
InUse(o) == \E p \in Programs : fh[p].file = o \/ desc[p].file = o \/ o \in lost[p]

Exclusive(o) == \E p \in Programs : fh[p] = [file |-> o, mode |-> "exclusive"]

CanShare(name)   == Exists(name) /\ ~Exclusive(dir[name])
CanExclude(name) == Exists(name) /\ ~InUse(dir[name])

Init ==
  /\ dir \in {d \in [Names -> Objects \cup {NONE}] :
                \A m, n \in Names : m # n /\ d[m] = d[n] => d[m] = NONE}
  /\ data = [o \in Objects |-> {}]
  /\ protected \in SUBSET {dir[n] : n \in {m \in Names : Exists(m)}}
  /\ call = [p \in Programs |-> NoCall]
  /\ pc = [p \in Programs |-> "idle"]
  /\ fh = [p \in Programs |-> NoFile]
  /\ desc = [p \in Programs |-> NoDesc]
  /\ lost = [p \in Programs |-> {}]

----------------------------------------------------------------------------
\* Steps of a call.

Holds(p, o, mode) == fh' = [fh EXCEPT ![p] = [file |-> o, mode |-> mode]]

\* UnLock() or Close() of what the call holds.
Release(p) == fh' = [fh EXCEPT ![p] = NoFile]

Goto(p, step) == pc' = [pc EXCEPT ![p] = step]

\* The call returns.
Return(p) == Goto(p, "idle") /\ call' = [call EXCEPT ![p] = NoCall]

Begin(p, op, name, to, flags, k, step) ==
  /\ pc[p] = "idle"
  /\ call' = [call EXCEPT ![p] = [op |-> op, name |-> name, to |-> to, flags |-> flags, k |-> k,
                                  fresh |-> FALSE]]
  /\ Goto(p, step)
  /\ UNCHANGED <<files, fh, desc, lost>>

\* The file is in the descriptor, open() and mkstemp() return.
Install(p, o) ==
  /\ desc' = [desc EXCEPT ![p] = [file |-> o, op |-> call[p].op]]
  /\ Release(p)
  /\ Return(p)

Has(p, flag) == flag \in call[p].flags

Open(p) ==
  /\ desc[p] = NoDesc
  /\ \E name \in Names, flags \in Openings : Begin(p, "open", name, name, flags, 0, "lock")

\* The first name depends on the number of the process.  The flags of open() are its own.
Mkstemp(p) ==
  /\ desc[p] = NoDesc
  /\ \E k \in 1 .. Len(Temp) :
       Begin(p, "mkstemp", Temp[k], Temp[k], {"CREAT", "EXCL"}, k, "lock")

\* Lock(name, SHARED_LOCK)
Lock(p) ==
  /\ pc[p] = "lock"
  /\ IF CanShare(call[p].name)
     THEN Holds(p, dir[call[p].name], "shared") /\ Goto(p, "locked")
     ELSE Goto(p, "opened") /\ UNCHANGED fh
  /\ UNCHANGED <<files, call, desc, lost>>

\* OpenFromLock() makes the lock a handle.
OpenFromLock(p) ==
  /\ pc[p] = "locked"
  /\ Goto(p, "opened")
  /\ UNCHANGED <<files, call, fh, desc, lost>>

\* A mutation of OpenFromLockFails: the lock is kept.
LockKept(p) ==
  /\ pc[p] = "locked"
  /\ Return(p)
  /\ UNCHANGED <<files, fh, desc, lost>>

\* It fails, as for a file that must not be read.
OpenFromLockFails(p) ==
  /\ pc[p] = "locked"
  /\ Release(p) /\ Goto(p, "opened")
  /\ UNCHANGED <<files, call, desc, lost>>

Opened(p) == pc[p] = "opened" /\ fh[p] # NoFile
Missing(p) == pc[p] = "opened" /\ fh[p] = NoFile

\* A mutation of NextName: the name stays.
SameName(p) == Goto(p, "lock") /\ UNCHANGED call

\* mkstemp() goes on with the next name, or returns 0 when there is none.
NextName(p) ==
  IF call[p].k < Len(Temp)
  THEN /\ Goto(p, "lock")
       /\ call' = [call EXCEPT ![p].k = @ + 1, ![p].name = Temp[call[p].k + 1]]
  ELSE Return(p)

\* EEXIST
FileExists(p) ==
  /\ Opened(p) /\ Has(p, "CREAT") /\ Has(p, "EXCL")
  /\ Release(p)
  /\ IF call[p].op = "mkstemp" THEN NextName(p) ELSE Return(p)
  /\ UNCHANGED <<files, desc, lost>>

\* ENOENT
NoEntry(p) ==
  /\ Missing(p) /\ ~Has(p, "CREAT")
  /\ Return(p)
  /\ UNCHANGED <<files, fh, desc, lost>>

\* The file that Open(name, MODE_NEWFILE) makes, or empties.
NewFile(p, o) ==
  /\ IF Exists(call[p].name) THEN CanExclude(call[p].name) /\ o = dir[call[p].name]
     ELSE o \in Objects /\ \A n \in Names : dir[n] # o
  /\ dir' = [dir EXCEPT ![call[p].name] = o]
  /\ data' = [data EXCEPT ![o] = {}]
  /\ Holds(p, o, "exclusive")
  /\ UNCHANGED protected

\* A mutation of FreshFlags: nothing is cleared.
AllFlags(flags) == flags

\* O_TRUNC and O_APPEND are cleared.
FreshFlags(flags) == flags \ {"TRUNC", "APPEND"}

Create(p) ==
  /\ Missing(p) /\ Has(p, "CREAT")
  /\ \E o \in Objects : NewFile(p, o)
  /\ Goto(p, "created")
  /\ call' = [call EXCEPT ![p].flags = FreshFlags(@), ![p].fresh = TRUE]
  /\ UNCHANGED <<desc, lost>>

\* The file is in use, or the disk is full.
CreateFails(p) ==
  /\ Missing(p) /\ Has(p, "CREAT")
  /\ Return(p)
  /\ UNCHANGED <<files, fh, desc, lost>>

\* A mutation of CloseCreated: the file stays open.
CreatedKept(p) ==
  /\ pc[p] = "created"
  /\ Goto(p, "reopen")
  /\ UNCHANGED <<files, call, fh, desc, lost>>

CloseCreated(p) ==
  /\ pc[p] = "created"
  /\ Release(p) /\ Goto(p, "reopen")
  /\ UNCHANGED <<files, call, desc, lost>>

\* Open(name, MODE_OLDFILE)
Reopen(p) ==
  /\ pc[p] = "reopen" /\ CanShare(call[p].name)
  /\ Holds(p, dir[call[p].name], "shared") /\ Goto(p, "opened")
  /\ call' = [call EXCEPT ![p].flags = @ \ {"CREAT", "EXCL"}]
  /\ UNCHANGED <<files, desc, lost>>

ReopenFails(p) ==
  /\ pc[p] = "reopen"
  /\ Return(p)
  /\ UNCHANGED <<files, fh, desc, lost>>

Truncates(p) == Opened(p) /\ Has(p, "TRUNC") /\ ~(Has(p, "CREAT") /\ Has(p, "EXCL"))

Truncate(p) ==
  /\ Truncates(p)
  /\ data' = [data EXCEPT ![fh[p].file] = {}]
  /\ Install(p, fh[p].file)
  /\ UNCHANGED <<dir, protected, lost>>

\* The handler does not know SetFileSize(): as if the file had to be created.
TruncateAnew(p) ==
  /\ Truncates(p)
  /\ Release(p)
  /\ call' = [call EXCEPT ![p].flags = {"CREAT"}]
  /\ UNCHANGED <<files, pc, desc, lost>>

Losses == Cardinality(UNION {{p} \X lost[p] : p \in Programs})

\* EIO, and the handle stays open.
TruncateFails(p) ==
  /\ Truncates(p) /\ Losses < MaxLost
  /\ lost' = [lost EXCEPT ![p] = @ \cup {fh[p].file}]
  /\ Release(p) /\ Return(p)
  /\ UNCHANGED <<files, desc>>

\* Nothing is left to be done but to seek to the end.
Ready(p) == Opened(p) /\ ~Has(p, "TRUNC") /\ ~(Has(p, "CREAT") /\ Has(p, "EXCL"))

Succeed(p) ==
  /\ Ready(p)
  /\ Install(p, fh[p].file)
  /\ UNCHANGED <<files, lost>>

SeekFails(p) ==
  /\ Ready(p) /\ Has(p, "APPEND")
  /\ Release(p) /\ Return(p)
  /\ UNCHANGED <<files, desc, lost>>

Write(p) ==
  /\ pc[p] = "idle" /\ desc[p] # NoDesc
  /\ data' = [data EXCEPT ![desc[p].file] = @ \cup {p}]
  /\ UNCHANGED <<dir, protected, call, pc, fh, desc, lost>>

Close(p) ==
  /\ pc[p] = "idle" /\ desc[p] # NoDesc
  /\ desc' = [desc EXCEPT ![p] = NoDesc]
  /\ data' = [data EXCEPT ![desc[p].file] = @ \ {p}]
  /\ UNCHANGED <<dir, protected, call, pc, fh, lost>>

----------------------------------------------------------------------------
\* unlink(), access() and rename().

CanDelete(name) == CanExclude(name) /\ dir[name] \notin protected

\* DeleteFile() succeeds.
Delete(name) ==
  /\ CanDelete(name)
  /\ dir' = [dir EXCEPT ![name] = NONE]
  /\ data' = [data EXCEPT ![dir[name]] = {}]

Unlink(p) ==
  /\ pc[p] = "idle"
  /\ \E name \in Names : Delete(name)
  /\ UNCHANGED <<protected, call, pc, fh, desc, lost>>

\* access(name, W_OK) asks for an exclusive lock.
Access(p) == \E name \in Names : Begin(p, "access", name, name, {}, 0, "try")

Try(p) ==
  /\ pc[p] = "try"
  /\ IF CanExclude(call[p].name)
     THEN Holds(p, dir[call[p].name], "exclusive") /\ Goto(p, "tried") /\ UNCHANGED call
     ELSE Return(p) /\ UNCHANGED fh
  /\ UNCHANGED <<files, desc, lost>>

Unlock(p) ==
  /\ pc[p] = "tried"
  /\ Release(p)
  /\ IF call[p].op = "rename" THEN Goto(p, "delete") /\ UNCHANGED call ELSE Return(p)
  /\ UNCHANGED <<files, desc, lost>>

Rename(p) ==
  p \in Renamers /\ \E from, to \in Names : Begin(p, "rename", from, to, {}, 0, "target")

\* Lock(to_dos, EXCLUSIVE_LOCK)
Target(p) ==
  /\ pc[p] = "target"
  /\ \/ /\ CanExclude(call[p].to)
        /\ Holds(p, dir[call[p].to], "exclusive") /\ Goto(p, "tried") /\ UNCHANGED call
     \/ ~Exists(call[p].to) /\ Goto(p, "move") /\ UNCHANGED <<call, fh>>
     \/ Exists(call[p].to) /\ ~CanExclude(call[p].to) /\ Return(p) /\ UNCHANGED fh
  /\ UNCHANGED <<files, desc, lost>>

DeleteTarget(p) ==
  /\ pc[p] \in {"delete", "again"}
  /\ Delete(call[p].to)
  /\ Goto(p, "move")
  /\ UNCHANGED <<protected, call, fh, desc, lost>>

Protected(name) == Exists(name) /\ dir[name] \in protected

\* ERROR_DELETE_PROTECTED: SetProtection(to_dos, 0), and a second attempt.
Unprotect(p) ==
  /\ pc[p] = "delete" /\ Protected(call[p].to)
  /\ protected' = protected \ {dir[call[p].to]}
  /\ Goto(p, "again")
  /\ UNCHANGED <<dir, data, call, fh, desc, lost>>

DeleteFails(p) ==
  /\ pc[p] = "again" \/ (pc[p] = "delete" /\ ~Protected(call[p].to))
  /\ ~CanDelete(call[p].to)
  /\ Return(p)
  /\ UNCHANGED <<files, fh, desc, lost>>

Moved(from, to) == [dir EXCEPT ![from] = NONE, ![to] = dir[from]]

\* Rename() does not replace a file.
Move(p) ==
  /\ pc[p] = "move"
  /\ Exists(call[p].name) /\ ~Exists(call[p].to)
  /\ dir' = Moved(call[p].name, call[p].to)
  /\ Return(p)
  /\ UNCHANGED <<data, protected, fh, desc, lost>>

\* The source is not there or in use, the target exists, the disk is another one.
MoveFails(p) ==
  /\ pc[p] = "move"
  /\ Return(p)
  /\ UNCHANGED <<files, fh, desc, lost>>

----------------------------------------------------------------------------
Calls(p) == Open(p) \/ Mkstemp(p) \/ Write(p) \/ Close(p) \/ Unlink(p) \/ Access(p) \/ Rename(p)

Step(p) ==
  \/ Lock(p) \/ OpenFromLock(p) \/ OpenFromLockFails(p) \/ FileExists(p) \/ NoEntry(p)
  \/ Create(p) \/ CreateFails(p) \/ CloseCreated(p) \/ Reopen(p) \/ ReopenFails(p)
  \/ Truncate(p) \/ TruncateAnew(p) \/ TruncateFails(p) \/ Succeed(p) \/ SeekFails(p)
  \/ Try(p) \/ Unlock(p)
  \/ Target(p) \/ DeleteTarget(p) \/ Unprotect(p) \/ DeleteFails(p) \/ Move(p) \/ MoveFails(p)

Next == \E p \in Programs : Calls(p) \/ Step(p)

\* Every program runs, and dos.library answers.
Spec == Init /\ [][Next]_vars /\ \A p \in Programs : WF_vars(Step(p))

----------------------------------------------------------------------------
\* A call has a file exclusively only from Open(MODE_NEWFILE) to Close() (open.c:184-186)
\* and from Lock(EXCLUSIVE_LOCK) to UnLock() (rename.c:37-40, access.c:29-32).
TypeOK ==
  /\ dir \in [Names -> Objects \cup {NONE}]
  /\ data \in [Objects -> SUBSET Programs]
  /\ protected \subseteq Objects
  /\ call \in [Programs -> Call]
  /\ pc \in [Programs -> {"idle", "lock", "locked", "opened", "created", "reopen", "try",
                          "tried", "target", "delete", "again", "move"}]
  /\ fh \in [Programs -> Holding \cup {NoFile}]
  /\ desc \in [Programs -> [file : Objects, op : {"open", "mkstemp"}] \cup {NoDesc}]
  /\ lost \in [Programs -> SUBSET Objects]
  /\ \A p \in Programs : fh[p].mode = "exclusive" <=> pc[p] \in {"created", "tried"}

\* Whatever fails on the way, a call that has returned keeps neither lock nor handle but
\* that of its descriptor (open.c:148-236, rename.c:36-93); the failed truncation
\* (open.c:217-219) is the exception, whose handle is in lost.
NothingLeftHeld == \A p \in Programs : pc[p] = "idle" => fh[p] = NoFile

\* What a program has written into a file it has open is lost only through O_TRUNC, and
\* not through that of an open() that has just created the file, though others may open
\* and write it between lines 187 and 205 (open.c:197).
WrittenKept ==
  [][\A q \in Programs :
       LET o == desc[q].file IN
       o # NONE /\ q \in data[o] /\ q \notin data'[o] =>
         \/ desc'[q] = NoDesc
         \/ \E p \in Programs : Truncates(p) /\ fh[p].file = o /\ ~call[p].fresh]_vars

\* Every call returns, whatever the others do: mkstemp() tries each name but once
\* (mktemp.c:248-263).
CallsReturn == \A p \in Programs : pc[p] # "idle" ~> pc[p] = "idle"

----------------------------------------------------------------------------
\* What the documentation says.

\* "Whenever possible use <<mkstemp>> instead.  It doesn't suffer the race condition."
\* (mktemp.c:118-119): no two programs are given one file.
OneEach ==
  \A p, q \in Programs :
    p # q /\ desc[p].op = "mkstemp" /\ desc[q].op = "mkstemp" => desc[p].file # desc[q].file
=============================================================================
