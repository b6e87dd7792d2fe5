-------------------------- MODULE FileSystemProofs --------------------------
(***************************************************************************)
(* Proofs about FileSystem, for any number of programs, names and files:   *)
(* a call that has returned holds nothing, and what is written into an     *)
(* open file survives the calls of the other programs.                     *)
(***************************************************************************)
EXTENDS FileSystem, TLAPS

Steps == {"idle", "lock", "locked", "opened", "created", "reopen", "try", "tried", "target",
          "delete", "again", "move"}

Descriptor == [file : Objects, op : {"open", "mkstemp"}] \cup {NoDesc}

\* What is true of a program that is in the call c at step s, holds f, and has the
\* descriptor d and the lost handles l.
ProgramOK(c, s, f, d, l) ==
  /\ c \in Call /\ s \in Steps /\ f \in Holding \cup {NoFile}
  /\ d \in Descriptor /\ l \in SUBSET Objects
  /\ f.mode = "exclusive" <=> s \in {"created", "tried"}
  /\ f # NoFile => s \in {"locked", "opened", "created", "tried"}
  /\ s \in {"lock", "locked", "opened", "created", "reopen"} => c.op \in {"open", "mkstemp"}
  /\ c.fresh => "TRUNC" \notin c.flags

FilesOK ==
  /\ dir \in [Names -> Objects \cup {NONE}]
  /\ data \in [Objects -> SUBSET Programs]
  /\ protected \subseteq Objects

Functional ==
  /\ call \in [Programs -> Call] /\ pc \in [Programs -> Steps]
  /\ fh \in [Programs -> Holding \cup {NoFile}]
  /\ desc \in [Programs -> Descriptor] /\ lost \in [Programs -> SUBSET Objects]

Named(o) == \E n \in Names : dir[n] = o

\* A file in use has a name: nobody deletes it, nobody creates it a second time.
UsedAreNamed == \A o \in Objects : InUse(o) => Named(o)

IInv ==
  /\ FilesOK /\ Functional /\ UsedAreNamed
  /\ \A p \in Programs : ProgramOK(call[p], pc[p], fh[p], desc[p], lost[p])

\* Nothing is held, and no descriptor is open, in NONE.
LEMMA NoFileFacts ==
  /\ NoFile.file = NONE /\ NoFile.mode = "shared" /\ NoDesc.file = NONE
  /\ NoCall \in Call /\ NoCall.op = "none" /\ ~NoCall.fresh
  /\ \A o \in Objects : o # NONE
<1>1. Temp[1] \in Names /\ 0 \in 0 .. Len(Temp)
  BY TempAssumption
<1> QED
  BY <1>1, NoneAssumption DEF NoFile, NoDesc, NoCall, Call

\* A step that changes the files and what belongs to one program.
LEMMA OneProgram ==
  ASSUME IInv, FilesOK', NEW p \in Programs,
         NEW c, NEW s, NEW f, NEW d, NEW l, ProgramOK(c, s, f, d, l),
         call' = [call EXCEPT ![p] = c], pc' = [pc EXCEPT ![p] = s],
         fh' = [fh EXCEPT ![p] = f], desc' = [desc EXCEPT ![p] = d],
         lost' = [lost EXCEPT ![p] = l],
         \A o \in Objects : InUse(o) => Named(o)',
         \A o \in Objects : f.file = o \/ d.file = o \/ o \in l => Named(o)'
  PROVE  IInv'
<1>1. Functional'
  BY DEF IInv, Functional, ProgramOK
<1>2. \A q \in Programs : ProgramOK(call'[q], pc'[q], fh'[q], desc'[q], lost'[q])
  <2> SUFFICES ASSUME NEW q \in Programs
               PROVE  ProgramOK(call'[q], pc'[q], fh'[q], desc'[q], lost'[q])
    OBVIOUS
  <2>1. CASE q = p
    <3>1. call'[q] = c /\ pc'[q] = s /\ fh'[q] = f /\ desc'[q] = d /\ lost'[q] = l
      BY <2>1 DEF IInv, Functional
    <3> QED
      BY <3>1
  <2>2. CASE q # p
    <3>1. /\ call'[q] = call[q] /\ pc'[q] = pc[q] /\ fh'[q] = fh[q]
          /\ desc'[q] = desc[q] /\ lost'[q] = lost[q]
      BY <2>2 DEF IInv, Functional
    <3> QED
      BY <3>1 DEF IInv
  <2> QED
    BY <2>1, <2>2
<1>3. UsedAreNamed'
  <2> SUFFICES ASSUME NEW o \in Objects, NEW q \in Programs,
                      fh'[q].file = o \/ desc'[q].file = o \/ o \in lost'[q]
               PROVE  Named(o)'
    BY DEF UsedAreNamed, InUse
  <2>1. CASE q = p
    <3>1. fh'[q] = f /\ desc'[q] = d /\ lost'[q] = l
      BY <2>1 DEF IInv, Functional
    <3> QED
      BY <3>1
  <2>2. CASE q # p
    <3>1. fh'[q] = fh[q] /\ desc'[q] = desc[q] /\ lost'[q] = lost[q]
      BY <2>2 DEF IInv, Functional
    <3> QED
      BY <3>1 DEF InUse
  <2> QED
    BY <2>1, <2>2
<1> QED
  BY <1>1, <1>2, <1>3 DEF IInv

LEMMA InitInv == Init => IInv
<1> SUFFICES ASSUME Init PROVE IInv
  OBVIOUS
<1>1. FilesOK
  BY DEF Init, FilesOK, Exists
<1>2. Functional
  BY NoFileFacts DEF Init, Functional, Steps, Descriptor
<1>3. UsedAreNamed
  BY NoFileFacts DEF Init, UsedAreNamed, InUse
<1>4. \A p \in Programs : ProgramOK(call[p], pc[p], fh[p], desc[p], lost[p])
  BY NoFileFacts DEF Init, ProgramOK, Steps, Descriptor
<1> QED
  BY <1>1, <1>2, <1>3, <1>4 DEF IInv

\* What the invariant says of one program.
LEMMA Facts ==
  ASSUME IInv, NEW p \in Programs
  PROVE  /\ ProgramOK(call[p], pc[p], fh[p], desc[p], lost[p])
         /\ \A o \in Objects : fh[p].file = o \/ desc[p].file = o \/ o \in lost[p] => Named(o)
BY DEF IInv, UsedAreNamed, InUse

\* The other programs' part of the state does not change.
Only(p) ==
  /\ call' = [call EXCEPT ![p] = call'[p]] /\ pc' = [pc EXCEPT ![p] = pc'[p]]
  /\ fh' = [fh EXCEPT ![p] = fh'[p]] /\ desc' = [desc EXCEPT ![p] = desc'[p]]
  /\ lost' = [lost EXCEPT ![p] = lost'[p]]

\* What the program has in use.
Uses(p, o) == fh[p].file = o \/ desc[p].file = o \/ o \in lost[p]

Own(p) == ProgramOK(call[p], pc[p], fh[p], desc[p], lost[p])

\* A step of one program that may change the files.
LEMMA Alone ==
  ASSUME IInv, FilesOK', NEW p \in Programs, Only(p), Own(p)',
         \A o \in Objects : InUse(o) => Named(o)',
         \A o \in Objects : Uses(p, o)' => Named(o)'
  PROVE  IInv'
<1>1. ProgramOK(call'[p], pc'[p], fh'[p], desc'[p], lost'[p])
  BY DEF Own
<1>2. \A o \in Objects : fh'[p].file = o \/ desc'[p].file = o \/ o \in lost'[p] => Named(o)'
  BY DEF Uses
<1>3. /\ call' = [call EXCEPT ![p] = call'[p]] /\ pc' = [pc EXCEPT ![p] = pc'[p]]
      /\ fh' = [fh EXCEPT ![p] = fh'[p]] /\ desc' = [desc EXCEPT ![p] = desc'[p]]
      /\ lost' = [lost EXCEPT ![p] = lost'[p]]
  BY DEF Only
<1> QED
  BY <1>1, <1>2, <1>3, OneProgram

\* A step of one program that leaves the files alone.
LEMMA Quiet ==
  ASSUME IInv, UNCHANGED files, NEW p \in Programs, Only(p), Own(p)',
         \A o \in Objects : Uses(p, o)' => Uses(p, o) \/ Named(o)
  PROVE  IInv'
<1>1. FilesOK' /\ \A o \in Objects : Named(o) => Named(o)'
  BY DEF IInv, FilesOK, files, Named
<1>2. \A o \in Objects : InUse(o) => Named(o)'
  BY <1>1 DEF IInv, UsedAreNamed
<1>3. \A o \in Objects : Uses(p, o)' => Named(o)'
  BY <1>1, Facts DEF Uses
<1> QED
  BY <1>1, <1>2, <1>3, Alone

\* Every step is a step of one program.
LEMMA Separate ==
  ASSUME IInv, NEW p \in Programs, Calls(p) \/ Step(p)
  PROVE  Only(p)
<1> USE DEF IInv, Functional, Only
<1> USE DEF Holds, Release, Goto, Return, Begin, Install
<1>1. CASE Open(p)
  BY <1>1 DEF Open
<1>2. CASE Mkstemp(p)
  BY <1>2 DEF Mkstemp
<1>3. CASE Write(p) \/ Close(p) \/ Unlink(p)
  BY <1>3 DEF Write, Close, Unlink
<1>4. CASE Access(p) \/ Rename(p)
  BY <1>4 DEF Access, Rename
<1>5. CASE Lock(p) \/ OpenFromLock(p) \/ OpenFromLockFails(p)
  BY <1>5 DEF Lock, OpenFromLock, OpenFromLockFails
<1>6. CASE FileExists(p)
  BY <1>6 DEF FileExists, NextName
<1>7. CASE NoEntry(p) \/ CreateFails(p) \/ ReopenFails(p) \/ SeekFails(p)
  BY <1>7 DEF NoEntry, CreateFails, ReopenFails, SeekFails
<1>8. CASE Create(p)
  BY <1>8 DEF Create, NewFile
<1>9. CASE CloseCreated(p) \/ Reopen(p)
  BY <1>9 DEF CloseCreated, Reopen
<1>10. CASE Truncate(p) \/ Succeed(p)
  BY <1>10 DEF Truncate, Succeed
<1>11. CASE TruncateAnew(p) \/ TruncateFails(p)
  BY <1>11 DEF TruncateAnew, TruncateFails
<1>12. CASE Try(p) \/ Unlock(p)
  BY <1>12 DEF Try, Unlock
<1>13. CASE Target(p)
  BY <1>13 DEF Target
<1>14. CASE DeleteTarget(p) \/ Unprotect(p) \/ DeleteFails(p)
  BY <1>14 DEF DeleteTarget, Unprotect, DeleteFails
<1>15. CASE Move(p) \/ MoveFails(p)
  BY <1>15 DEF Move, MoveFails
<1> QED
  BY <1>1, <1>2, <1>3, <1>4, <1>5, <1>6, <1>7, <1>8, <1>9, <1>10, <1>11, <1>12, <1>13,
     <1>14, <1>15 DEF Calls, Step

\* A call begins.
LEMMA BeginInv ==
  ASSUME IInv, NEW p \in Programs, Open(p) \/ Mkstemp(p) \/ Access(p) \/ Rename(p)
  PROVE  IInv'
<1>1. Only(p)
  BY Separate DEF Calls
<1>2. UNCHANGED <<files, fh, desc, lost>> /\ pc[p] = "idle"
  BY DEF Open, Mkstemp, Access, Rename, Begin
<1>3. Own(p) /\ fh[p] = NoFile
  BY <1>2, Facts DEF Own, ProgramOK
<1>4. /\ call'[p] \in Call /\ ~call'[p].fresh
      /\ \/ pc'[p] = "lock" /\ call'[p].op \in {"open", "mkstemp"}
         \/ pc'[p] \in {"try", "target"}
  <2>1. CASE Open(p)
    BY <2>1, OpeningsAssumption DEF Open, Begin, Goto, IInv, Functional, Call
  <2>2. CASE Mkstemp(p)
    BY <2>2, TempAssumption DEF Mkstemp, Begin, Goto, IInv, Functional, Call
  <2>3. CASE Access(p)
    BY <2>3 DEF Access, Begin, Goto, IInv, Functional, Call
  <2>4. CASE Rename(p)
    BY <2>4 DEF Rename, Begin, Goto, IInv, Functional, Call
  <2> QED
    BY <2>1, <2>2, <2>3, <2>4
<1>5. Own(p)'
  BY <1>2, <1>3, <1>4, NoFileFacts DEF Own, ProgramOK, Steps
<1> QED
  BY <1>1, <1>2, <1>5, Quiet DEF Uses

\* A call returns and holds nothing any more.
LEMMA ReturnInv ==
  ASSUME IInv, NEW p \in Programs, Step(p), UNCHANGED <<files, desc, lost>>,
         Return(p), fh'[p] = NoFile
  PROVE  IInv'
<1>1. Only(p) /\ call'[p] = NoCall /\ pc'[p] = "idle"
  BY Separate DEF Return, Goto, IInv, Functional
<1>2. Own(p)'
  BY <1>1, Facts, NoFileFacts DEF Own, ProgramOK, Steps
<1>3. \A o \in Objects : Uses(p, o)' => Uses(p, o) \/ Named(o)
  BY NoFileFacts DEF Uses
<1> QED
  BY <1>1, <1>2, <1>3, Quiet

\* A call goes on to another step; it may let go of what it holds.
LEMMA GoesOn ==
  ASSUME IInv, NEW p \in Programs, Step(p), UNCHANGED <<files, desc, lost>>, Own(p)',
         fh'[p] \in {fh[p], NoFile}
  PROVE  IInv'
<1>1. \A o \in Objects : Uses(p, o)' => Uses(p, o) \/ Named(o)
  BY NoFileFacts DEF Uses
<1> QED
  BY <1>1, Separate, Quiet

\* A call takes hold of the file of a name.
LEMMA Takes ==
  ASSUME IInv, NEW p \in Programs, Step(p), UNCHANGED <<files, desc, lost>>, Own(p)',
         NEW name \in Names, fh'[p].file = dir[name]
  PROVE  IInv'
<1>1. \A o \in Objects : Uses(p, o)' => Uses(p, o) \/ Named(o)
  BY DEF Uses, Named
<1> QED
  BY <1>1, Separate, Quiet

\* The file goes into the descriptor.
LEMMA Installed ==
  ASSUME IInv, FilesOK', dir' = dir, UNCHANGED lost, NEW p \in Programs, Step(p),
         Opened(p), Install(p, fh[p].file)
  PROVE  IInv'
<1>1. /\ Only(p) /\ call'[p] = NoCall /\ pc'[p] = "idle" /\ fh'[p] = NoFile
      /\ desc'[p] = [file |-> fh[p].file, op |-> call[p].op]
  BY Separate DEF Install, Release, Return, Goto, IInv, Functional
<1>2. fh[p].file \in Objects /\ desc'[p] \in Descriptor
  BY <1>1, Facts DEF Opened, ProgramOK, Holding, Descriptor
<1>3. Own(p)'
  BY <1>1, <1>2, Facts, NoFileFacts DEF Own, ProgramOK, Steps
<1>4. \A o \in Objects : Named(o) => Named(o)'
  BY DEF Named
<1>5. \A o \in Objects : InUse(o) => Named(o)'
  BY <1>4 DEF IInv, UsedAreNamed
<1>6. \A o \in Objects : Uses(p, o)' => Named(o)'
  BY <1>1, <1>2, <1>4, Facts, NoFileFacts DEF Uses
<1> QED
  BY <1>1, <1>3, <1>5, <1>6, Alone

\* Nobody has the file in use that is deleted.
LEMMA DeleteInv ==
  ASSUME IInv, NEW name \in Names, Delete(name), protected' = protected
  PROVE  FilesOK' /\ \A o \in Objects : InUse(o) => Named(o)'
<1>1. FilesOK'
  BY DEF IInv, FilesOK, Delete, CanDelete, CanExclude, Exists
<1>2. ASSUME NEW o \in Objects, InUse(o) PROVE Named(o)'
  <2>1. PICK n \in Names : dir[n] = o
    BY <1>2 DEF IInv, UsedAreNamed, Named
  <2>2. n # name
    BY <1>2, <2>1 DEF Delete, CanDelete, CanExclude
  <2> QED
    BY <2>1, <2>2 DEF Delete, Named, IInv, FilesOK
<1> QED
  BY <1>1, <1>2

\* A failure, or the end of a call that installs nothing.
LEMMA EndInv ==
  ASSUME IInv, NEW p \in Programs,
         NoEntry(p) \/ CreateFails(p) \/ ReopenFails(p) \/ SeekFails(p) \/ DeleteFails(p)
           \/ MoveFails(p)
  PROVE  IInv'
<1>1. Step(p)
  BY DEF Step
<1>2. UNCHANGED <<files, desc, lost>> /\ Return(p)
  BY DEF NoEntry, CreateFails, ReopenFails, SeekFails, DeleteFails, MoveFails
<1>3. fh'[p] = NoFile
  <2>1. CASE SeekFails(p)
    BY <2>1 DEF SeekFails, Release, IInv, Functional
  <2>2. CASE NoEntry(p) \/ CreateFails(p)
    BY <2>2 DEF NoEntry, CreateFails, Missing
  <2>3. CASE ReopenFails(p) \/ DeleteFails(p) \/ MoveFails(p)
    BY <2>3, Facts DEF ReopenFails, DeleteFails, MoveFails, ProgramOK
  <2> QED
    BY <2>1, <2>2, <2>3
<1> QED
  BY <1>1, <1>2, <1>3, ReturnInv

\* The steps of open() and mkstemp() that change no file and go on.
LEMMA OpenInv ==
  ASSUME IInv, NEW p \in Programs,
         Lock(p) \/ OpenFromLock(p) \/ OpenFromLockFails(p) \/ CloseCreated(p) \/ Reopen(p)
           \/ TruncateAnew(p) \/ FileExists(p)
  PROVE  IInv'
<1> USE NoFileFacts
<1>1. Step(p) /\ Only(p) /\ UNCHANGED <<files, desc, lost>>
  BY Separate DEF Step, Lock, OpenFromLock, OpenFromLockFails, CloseCreated, Reopen,
                  TruncateAnew, FileExists
<1>2. Own(p) /\ desc'[p] = desc[p] /\ lost'[p] = lost[p]
  BY <1>1, Facts DEF Own
<1>3. CASE Lock(p)
  <2>1. call'[p] = call[p] /\ pc[p] = "lock"
    BY <1>3 DEF Lock
  <2>2. CASE CanShare(call[p].name)
    <3>1. fh'[p] = [file |-> dir[call[p].name], mode |-> "shared"] /\ pc'[p] = "locked"
      BY <1>3, <2>2 DEF Lock, Holds, Goto, IInv, Functional
    <3>2. call[p].name \in Names /\ fh'[p] \in Holding
      BY <1>2, <2>2, <3>1 DEF Own, ProgramOK, Call, CanShare, Exists, Holding, IInv, FilesOK
    <3>3. Own(p)'
      BY <1>2, <2>1, <3>1, <3>2 DEF Own, ProgramOK, Steps
    <3> QED
      BY <1>1, <3>1, <3>2, <3>3, Takes
  <2>3. CASE ~CanShare(call[p].name)
    <3>1. fh'[p] = fh[p] /\ pc'[p] = "opened"
      BY <1>3, <2>3 DEF Lock, Goto, IInv, Functional
    <3>2. Own(p)'
      BY <1>2, <2>1, <3>1 DEF Own, ProgramOK, Steps
    <3> QED
      BY <1>1, <3>1, <3>2, GoesOn
  <2> QED
    BY <2>2, <2>3
<1>4. CASE OpenFromLock(p) \/ OpenFromLockFails(p) \/ CloseCreated(p)
  <2>1. /\ call'[p] = call[p] /\ pc[p] \in {"locked", "created"}
        /\ \/ pc[p] = "locked" /\ pc'[p] = "opened" /\ fh'[p] = fh[p]
           \/ pc'[p] \in {"opened", "reopen"} /\ fh'[p] = NoFile
    BY <1>4 DEF OpenFromLock, OpenFromLockFails, CloseCreated, Release, Goto, IInv, Functional
  <2>2. Own(p)'
    BY <1>2, <2>1 DEF Own, ProgramOK, Steps
  <2> QED
    BY <1>1, <2>1, <2>2, GoesOn
<1>5. CASE Reopen(p)
  <2>1. /\ fh'[p] = [file |-> dir[call[p].name], mode |-> "shared"] /\ pc'[p] = "opened"
        /\ call'[p] = [call[p] EXCEPT !.flags = @ \ {"CREAT", "EXCL"}] /\ pc[p] = "reopen"
    BY <1>5 DEF Reopen, Holds, Goto, IInv, Functional
  <2>2. call[p].name \in Names /\ fh'[p] \in Holding
    BY <1>2, <1>5, <2>1 DEF Reopen, Own, ProgramOK, Call, CanShare, Exists, Holding, IInv, FilesOK
  <2>3. /\ call'[p] \in Call /\ call'[p].op = call[p].op /\ call'[p].fresh = call[p].fresh
        /\ call'[p].flags \subseteq call[p].flags
    BY <1>2, <2>1 DEF Own, ProgramOK, Call
  <2>4. Own(p)'
    BY <1>2, <2>1, <2>2, <2>3 DEF Own, ProgramOK, Steps
  <2> QED
    BY <1>1, <2>1, <2>2, <2>4, Takes
<1>6. CASE TruncateAnew(p)
  <2>1. /\ fh'[p] = NoFile /\ pc'[p] = pc[p] /\ pc[p] = "opened"
        /\ call'[p] = [call[p] EXCEPT !.flags = {"CREAT"}]
    BY <1>6 DEF TruncateAnew, Truncates, Opened, Release, IInv, Functional
  <2>2. call'[p] \in Call /\ call'[p].op = call[p].op /\ "TRUNC" \notin call'[p].flags
    BY <1>2, <2>1 DEF Own, ProgramOK, Call
  <2>3. Own(p)'
    BY <1>2, <2>1, <2>2 DEF Own, ProgramOK, Steps
  <2> QED
    BY <1>1, <2>1, <2>3, GoesOn
<1>7. CASE FileExists(p)
  <2>1. fh'[p] = NoFile /\ pc[p] = "opened"
    BY <1>7 DEF FileExists, Opened, Release, IInv, Functional
  <2>2. CASE Return(p)
    BY <1>1, <2>1, <2>2, ReturnInv
  <2>3. CASE ~Return(p)
    <3>1. /\ pc'[p] = "lock" /\ call[p].k < Len(Temp)
          /\ call'[p] = [call[p] EXCEPT !.k = @ + 1, !.name = Temp[call[p].k + 1]]
      BY <1>7, <2>3 DEF FileExists, NextName, Goto, IInv, Functional
    <3>2. call[p].k + 1 \in 1 .. Len(Temp) /\ Temp[call[p].k + 1] \in Names
      BY <1>2, <3>1, TempAssumption DEF Own, ProgramOK, Call
    <3>3. /\ call'[p] \in Call /\ call'[p].op = call[p].op /\ call'[p].fresh = call[p].fresh
          /\ call'[p].flags = call[p].flags
      <4> DEFINE c == [call[p] EXCEPT !.k = @ + 1]
      <4>1. c \in Call /\ c.op = call[p].op /\ c.fresh = call[p].fresh /\ c.flags = call[p].flags
        BY <1>2, <3>1, <3>2 DEF Own, ProgramOK, Call
      <4>2. call'[p] = [c EXCEPT !.name = Temp[call[p].k + 1]]
        BY <1>2, <3>1 DEF Own, ProgramOK, Call
      <4> HIDE DEF c
      <4> QED
        BY <4>1, <4>2, <3>2 DEF Call
    <3>4. Own(p)'
      BY <1>2, <2>1, <3>1, <3>3 DEF Own, ProgramOK, Steps
    <3> QED
      BY <1>1, <2>1, <3>4, GoesOn
  <2> QED
    BY <2>2, <2>3
<1> QED
  BY <1>3, <1>4, <1>5, <1>6, <1>7

\* open() creates a file: one that has no name yet, or that nobody uses.
LEMMA CreateInv == ASSUME IInv, NEW p \in Programs, Create(p) PROVE IInv'
<1>1. PICK o \in Objects : NewFile(p, o)
  BY DEF Create
<1>2. Step(p) /\ Only(p) /\ UNCHANGED <<desc, lost>> /\ Missing(p)
  BY Separate DEF Step, Create
<1>3. Own(p) /\ call[p].name \in Names /\ call[p].op \in {"open", "mkstemp"}
  BY <1>2, Facts DEF Own, ProgramOK, Call, Missing
<1>4. /\ fh'[p] = [file |-> o, mode |-> "exclusive"] /\ pc'[p] = "created"
      /\ call'[p] = [[call[p] EXCEPT !.flags = FreshFlags(@)] EXCEPT !.fresh = TRUE]
  BY <1>1 DEF Create, NewFile, Holds, Goto, IInv, Functional
<1>5. /\ call'[p] \in Call /\ call'[p].op = call[p].op /\ "TRUNC" \notin call'[p].flags
  <2> DEFINE c == [call[p] EXCEPT !.flags = FreshFlags(@)]
  <2>1. c \in Call /\ c.op = call[p].op /\ "TRUNC" \notin c.flags
    BY <1>3 DEF Own, ProgramOK, Call, FreshFlags
  <2>2. call'[p] = [c EXCEPT !.fresh = TRUE]
    BY <1>4
  <2> HIDE DEF c
  <2> QED
    BY <2>1, <2>2 DEF Call
<1>6. Own(p)'
  BY <1>2, <1>3, <1>4, <1>5, NoFileFacts DEF Own, ProgramOK, Steps, Holding
<1>7. FilesOK'
  BY <1>1 DEF IInv, FilesOK, NewFile
<1>8. ASSUME NEW u \in Objects, Named(u) PROVE Named(u)'
  <2>1. PICK n \in Names : dir[n] = u
    BY <1>8 DEF Named
  <2>2. CASE n = call[p].name
    BY <1>1, <1>3, <2>1, <2>2, NoFileFacts DEF NewFile, Exists, Named, IInv, FilesOK
  <2>3. CASE n # call[p].name
    BY <1>1, <2>1, <2>3 DEF NewFile, Named, IInv, FilesOK
  <2> QED
    BY <2>2, <2>3
<1>9. \A u \in Objects : InUse(u) => Named(u)'
  BY <1>8 DEF IInv, UsedAreNamed
<1>10. Named(o)'
  BY <1>1, <1>3 DEF NewFile, Named, IInv, FilesOK
<1>11. \A u \in Objects : Uses(p, u)' => Named(u)'
  <2>1. desc'[p] = desc[p] /\ lost'[p] = lost[p]
    BY <1>2
  <2> QED
    BY <2>1, <1>4, <1>8, <1>10, Facts DEF Uses
<1> QED
  BY <1>2, <1>6, <1>7, <1>9, <1>11, Alone

\* The last steps of open() and mkstemp().
LEMMA InstallInv ==
  ASSUME IInv, NEW p \in Programs, Truncate(p) \/ Succeed(p) \/ TruncateFails(p)
  PROVE  IInv'
<1>1. Step(p) /\ Only(p) /\ Opened(p)
  BY Separate DEF Step, Truncate, Succeed, TruncateFails, Truncates, Ready
<1>2. fh[p].file \in Objects
  BY <1>1, Facts DEF Opened, ProgramOK, Holding
<1>3. CASE Truncate(p) \/ Succeed(p)
  <2>1. dir' = dir /\ UNCHANGED lost /\ Install(p, fh[p].file)
    BY <1>3 DEF Truncate, Succeed, files
  <2>2. FilesOK'
    BY <1>2, <1>3 DEF Truncate, Succeed, files, IInv, FilesOK
  <2> QED
    BY <1>1, <2>1, <2>2, Installed
<1>4. CASE TruncateFails(p)
  <2>1. /\ call'[p] = NoCall /\ pc'[p] = "idle" /\ fh'[p] = NoFile /\ desc'[p] = desc[p]
        /\ lost'[p] = lost[p] \cup {fh[p].file} /\ UNCHANGED files
    BY <1>4 DEF TruncateFails, Release, Return, Goto, IInv, Functional
  <2>2. Own(p)'
    BY <1>2, <2>1, Facts, NoFileFacts DEF Own, ProgramOK, Steps
  <2>3. \A o \in Objects : Uses(p, o)' => Uses(p, o)
    BY <2>1, NoFileFacts DEF Uses
  <2> QED
    BY <1>1, <2>1, <2>2, <2>3, Quiet
<1> QED
  BY <1>3, <1>4

\* access(), and the lock rename() has on its target.
LEMMA TryInv ==
  ASSUME IInv, NEW p \in Programs, Try(p) \/ Unlock(p) \/ Target(p) \/ Unprotect(p)
  PROVE  IInv'
<1> USE NoFileFacts
<1>1. Step(p) /\ Only(p) /\ UNCHANGED <<desc, lost>>
  BY Separate DEF Step, Try, Unlock, Target, Unprotect
<1>2. /\ Own(p) /\ desc'[p] = desc[p] /\ lost'[p] = lost[p]
      /\ call[p].name \in Names /\ call[p].to \in Names
  BY <1>1, Facts DEF Own, ProgramOK, Call
<1>3. ASSUME NEW name \in Names, CanExclude(name), Holds(p, dir[name], "exclusive"),
             Goto(p, "tried"), UNCHANGED <<files, call>>
      PROVE  IInv'
  <2>1. /\ call'[p] = call[p] /\ pc'[p] = "tried"
        /\ fh'[p] = [file |-> dir[name], mode |-> "exclusive"] /\ fh'[p] \in Holding
    BY <1>3 DEF Holds, Goto, IInv, Functional, FilesOK, CanExclude, Exists, Holding
  <2>2. Own(p)'
    BY <1>2, <2>1 DEF Own, ProgramOK, Steps
  <2> QED
    BY <1>1, <1>3, <2>1, <2>2, Takes DEF files
<1>4. CASE Try(p)
  <2>1. CASE CanExclude(call[p].name)
    BY <1>2, <1>3, <1>4, <2>1 DEF Try
  <2>2. CASE ~CanExclude(call[p].name)
    <3>1. Return(p) /\ UNCHANGED <<files, desc, lost>> /\ fh'[p] = NoFile
      BY <1>2, <1>4, <2>2 DEF Try, Own, ProgramOK
    <3> QED
      BY <1>1, <3>1, ReturnInv
  <2> QED
    BY <2>1, <2>2
<1>5. CASE Unlock(p)
  <2>1. fh'[p] = NoFile /\ UNCHANGED <<files, desc, lost>>
    BY <1>5 DEF Unlock, Release, IInv, Functional
  <2>2. CASE Return(p)
    BY <1>1, <2>1, <2>2, ReturnInv
  <2>3. CASE ~Return(p)
    <3>1. call'[p] = call[p] /\ pc'[p] = "delete"
      BY <1>5, <2>3 DEF Unlock, Goto, IInv, Functional
    <3>2. Own(p)'
      BY <1>2, <2>1, <3>1 DEF Own, ProgramOK, Steps
    <3> QED
      BY <1>1, <2>1, <3>2, GoesOn
  <2> QED
    BY <2>2, <2>3
<1>6. CASE Target(p)
  <2>1. fh[p] = NoFile /\ UNCHANGED <<files, desc, lost>>
    BY <1>2, <1>6 DEF Target, Own, ProgramOK
  <2>2. CASE CanExclude(call[p].to) /\ Holds(p, dir[call[p].to], "exclusive") /\ Goto(p, "tried")
               /\ UNCHANGED call
    BY <1>2, <1>3, <2>1, <2>2
  <2>3. CASE Goto(p, "move") /\ UNCHANGED <<call, fh>>
    <3>1. call'[p] = call[p] /\ pc'[p] = "move" /\ fh'[p] = NoFile
      BY <2>1, <2>3 DEF Goto, IInv, Functional
    <3>2. Own(p)'
      BY <1>2, <3>1 DEF Own, ProgramOK, Steps
    <3> QED
      BY <1>1, <2>1, <3>1, <3>2, GoesOn
  <2>4. CASE Return(p) /\ UNCHANGED fh
    BY <1>1, <2>1, <2>4, ReturnInv
  <2> QED
    BY <1>6, <2>2, <2>3, <2>4 DEF Target
<1>7. CASE Unprotect(p)
  <2>1. /\ call'[p] = call[p] /\ pc'[p] = "again" /\ fh'[p] = fh[p]
        /\ pc[p] = "delete" /\ dir' = dir
    BY <1>7 DEF Unprotect, Goto, IInv, Functional
  <2>2. Own(p)'
    BY <1>2, <2>1 DEF Own, ProgramOK, Steps
  <2>3. FilesOK' /\ \A o \in Objects : Named(o) => Named(o)'
    BY <1>7, <2>1 DEF Unprotect, IInv, FilesOK, Named
  <2>4. \A o \in Objects : InUse(o) => Named(o)'
    BY <2>3 DEF IInv, UsedAreNamed
  <2>5. \A o \in Objects : Uses(p, o)' => Named(o)'
    BY <1>2, <2>1, <2>3, Facts DEF Uses
  <2> QED
    BY <1>1, <2>2, <2>3, <2>4, <2>5, Alone
<1> QED
  BY <1>4, <1>5, <1>6, <1>7

\* Files are deleted or get another name.
LEMMA NamesInv ==
  ASSUME IInv, NEW p \in Programs, Unlink(p) \/ DeleteTarget(p) \/ Move(p)
  PROVE  IInv'
<1>1. Only(p) /\ UNCHANGED <<fh, desc, lost>>
  BY Separate DEF Calls, Step, Unlink, DeleteTarget, Move
<1>2. Own(p) /\ call[p].name \in Names /\ call[p].to \in Names
  BY Facts DEF Own, ProgramOK, Call
<1>3. Own(p)'
  <2>1. fh'[p] = fh[p] /\ desc'[p] = desc[p] /\ lost'[p] = lost[p]
    BY <1>1
  <2>2. CASE Unlink(p)
    BY <1>2, <2>1, <2>2 DEF Unlink, Own
  <2>3. CASE DeleteTarget(p)
    <3>1. call'[p] = call[p] /\ pc'[p] = "move" /\ pc[p] \in {"delete", "again"}
      BY <2>3 DEF DeleteTarget, Goto, IInv, Functional
    <3> QED
      BY <1>2, <2>1, <3>1 DEF Own, ProgramOK, Steps
  <2>4. CASE Move(p)
    <3>1. call'[p] = NoCall /\ pc'[p] = "idle" /\ pc[p] = "move"
      BY <2>4 DEF Move, Return, Goto, IInv, Functional
    <3> QED
      BY <1>2, <2>1, <3>1, NoFileFacts DEF Own, ProgramOK, Steps
  <2> QED
    BY <2>2, <2>3, <2>4
<1>4. FilesOK' /\ \A o \in Objects : InUse(o) => Named(o)'
  <2>1. CASE Unlink(p) \/ DeleteTarget(p)
    BY <1>2, <2>1, DeleteInv DEF Unlink, DeleteTarget
  <2>2. CASE Move(p)
    <3>1. FilesOK'
      BY <1>2, <2>2 DEF Move, Moved, IInv, FilesOK
    <3>2. ASSUME NEW o \in Objects, NEW n \in Names, dir[n] = o PROVE Named(o)'
      <4>1. n # call[p].to
        BY <2>2, <3>2, NoFileFacts DEF Move, Exists
      <4>2. CASE n = call[p].name
        BY <1>2, <2>2, <3>2, <4>2 DEF Move, Moved, Named, IInv, FilesOK
      <4>3. CASE n # call[p].name
        BY <1>2, <2>2, <3>2, <4>1, <4>3 DEF Move, Moved, Named, IInv, FilesOK
      <4> QED
        BY <4>2, <4>3
    <3> QED
      BY <3>1, <3>2 DEF IInv, UsedAreNamed, Named
  <2> QED
    BY <2>1, <2>2
<1>5. \A o \in Objects : Uses(p, o)' => Named(o)'
  BY <1>1, <1>4 DEF Uses, InUse
<1> QED
  BY <1>1, <1>3, <1>4, <1>5, Alone

\* The descriptor is written and closed.
LEMMA DataInv == ASSUME IInv, NEW p \in Programs, Write(p) \/ Close(p) PROVE IInv'
<1>1. Only(p) /\ UNCHANGED <<dir, protected, call, pc, fh, lost>>
  BY Separate DEF Calls, Write, Close
<1>2. Own(p) /\ desc[p].file \in Objects
  BY Facts DEF Own, ProgramOK, Descriptor, Write, Close
<1>3. desc'[p] \in {desc[p], NoDesc}
  BY DEF Write, Close, IInv, Functional
<1>4. Own(p)'
  <2>1. call'[p] = call[p] /\ pc'[p] = pc[p] /\ fh'[p] = fh[p] /\ lost'[p] = lost[p]
    BY <1>1
  <2> QED
    BY <1>2, <1>3, <2>1 DEF Own, ProgramOK, Descriptor
<1>5. FilesOK' /\ \A o \in Objects : Named(o) => Named(o)'
  BY <1>1, <1>2 DEF Write, Close, IInv, FilesOK, Named
<1>6. \A o \in Objects : InUse(o) => Named(o)'
  BY <1>5 DEF IInv, UsedAreNamed
<1>7. \A o \in Objects : Uses(p, o)' => Named(o)'
  BY <1>1, <1>3, <1>5, Facts, NoFileFacts DEF Uses
<1> QED
  BY <1>1, <1>4, <1>5, <1>6, <1>7, Alone

LEMMA NextInv == IInv /\ [Next]_vars => IInv'
<1> SUFFICES ASSUME IInv, [Next]_vars PROVE IInv'
  OBVIOUS
<1>1. ASSUME NEW p \in Programs, Calls(p) PROVE IInv'
  BY <1>1, BeginInv, NamesInv, DataInv DEF Calls
<1>2. ASSUME NEW p \in Programs, Step(p) PROVE IInv'
  BY <1>2, EndInv, OpenInv, CreateInv, InstallInv, TryInv, NamesInv DEF Step
<1>3. CASE UNCHANGED vars
  BY <1>3 DEF vars, files, IInv, FilesOK, Functional, UsedAreNamed, InUse, Named
<1> QED
  BY <1>1, <1>2, <1>3 DEF Next

LEMMA Invariant == Spec => []IInv
BY InitInv, NextInv, PTL DEF Spec

----------------------------------------------------------------------------
\* A call has a file exclusively only while it creates it, or between the lock and the
\* unlock of rename() and access() (open.c:184-186, rename.c:37-40, access.c:29-32).
THEOREM TypeCorrect == Spec => []TypeOK
<1>1. IInv => TypeOK
  BY Facts DEF IInv, FilesOK, Functional, ProgramOK, TypeOK, Steps, Descriptor
<1> QED
  BY <1>1, Invariant, PTL

\* A call that has returned, however it failed, keeps no lock and no handle but that of
\* the descriptor (open.c:148-236, rename.c:36-93).
THEOREM NothingIsLeft == Spec => []NothingLeftHeld
<1>1. IInv => NothingLeftHeld
  BY Facts DEF ProgramOK, NothingLeftHeld
<1> QED
  BY <1>1, Invariant, PTL

\* What is written in a file that is in use is lost only by a truncation.
LEMMA DataKept ==
  ASSUME IInv, [Next]_vars, NEW q \in Programs, NEW o \in Objects,
         desc[q].file = o, q \in data[o], q \notin data'[o]
  PROVE  \/ desc'[q] = NoDesc
         \/ \E p \in Programs : Truncates(p) /\ fh[p].file = o /\ ~call[p].fresh
<1>1. InUse(o) /\ Named(o)
  BY DEF InUse, IInv, UsedAreNamed
<1>2. data' # data
  OBVIOUS
<1>3. PICK p \in Programs : \/ Write(p) \/ Close(p) \/ Unlink(p) \/ DeleteTarget(p)
                            \/ Create(p) \/ Truncate(p)
  <2>1. PICK p \in Programs : Calls(p) \/ Step(p)
    BY <1>2 DEF Next, vars, files
  <2>2. CASE Calls(p)
    BY <1>2, <2>2 DEF Calls, Open, Mkstemp, Access, Rename, Begin, files
  <2>3. CASE Step(p)
    BY <1>2, <2>3 DEF Step, Lock, OpenFromLock, OpenFromLockFails, FileExists, NoEntry,
         CreateFails, CloseCreated, Reopen, ReopenFails, TruncateAnew, TruncateFails, Succeed,
         SeekFails, Try, Unlock, Target, Unprotect, DeleteFails, Move, MoveFails, files
  <2> QED
    BY <2>1, <2>2, <2>3
<1>4. CASE Write(p)
  BY <1>4 DEF Write, IInv, FilesOK
<1>5. CASE Close(p)
  <2>1. p = q
    BY <1>5 DEF Close, IInv, FilesOK
  <2> QED
    BY <1>5, <2>1 DEF Close, IInv, Functional
<1>6. ASSUME NEW name \in Names, Delete(name) PROVE FALSE
  <2>1. dir[name] # o /\ dir[name] \in Objects
    BY <1>1, <1>6 DEF Delete, CanDelete, CanExclude, Exists, IInv, FilesOK
  <2> QED
    BY <1>6, <2>1 DEF Delete, IInv, FilesOK
<1>7. CASE Unlink(p) \/ DeleteTarget(p)
  <2>1. call[p].to \in Names
    BY Facts DEF ProgramOK, Call
  <2> QED
    BY <1>6, <1>7, <2>1 DEF Unlink, DeleteTarget
<1>8. CASE Create(p)
  <2>1. PICK u \in Objects : NewFile(p, u)
    BY <1>8 DEF Create
  <2>2. u # o
    BY <1>1, <2>1 DEF NewFile, CanExclude, Named
  <2> QED
    BY <2>1, <2>2 DEF NewFile, IInv, FilesOK
<1>9. CASE Truncate(p)
  <2>1. Truncates(p) /\ data' = [data EXCEPT ![fh[p].file] = {}]
    BY <1>9 DEF Truncate
  <2>2. fh[p].file = o
    BY <2>1 DEF IInv, FilesOK
  <2>3. ~call[p].fresh
    BY <2>1, Facts DEF Truncates, Has, ProgramOK, Call
  <2> QED
    BY <2>1, <2>2, <2>3
<1> QED
  BY <1>3, <1>4, <1>5, <1>7, <1>8, <1>9

\* What a program has written into an open file is lost only through O_TRUNC, and never
\* through that of the open() that has created it (open.c:197).
THEOREM WrittenIsKept == Spec => WrittenKept
<1> DEFINE A ==
      \A q \in Programs :
        LET o == desc[q].file IN
        o # NONE /\ q \in data[o] /\ q \notin data'[o] =>
          \/ desc'[q] = NoDesc
          \/ \E p \in Programs : Truncates(p) /\ fh[p].file = o /\ ~call[p].fresh
<1>1. IInv /\ [Next]_vars => A
  <2> SUFFICES ASSUME IInv, [Next]_vars, NEW q \in Programs, desc[q].file # NONE,
                      q \in data[desc[q].file], q \notin data'[desc[q].file]
               PROVE  \/ desc'[q] = NoDesc
                      \/ \E p \in Programs : Truncates(p) /\ fh[p].file = desc[q].file
                                             /\ ~call[p].fresh
    OBVIOUS
  <2>1. desc[q].file \in Objects
    BY Facts, NoFileFacts DEF ProgramOK, Descriptor
  <2> QED
    BY <2>1, DataKept
<1>2. IInv /\ [Next]_vars => [A]_vars
  BY <1>1
<1> HIDE DEF A
<1>3. Spec => [][A]_vars
  BY <1>2, Invariant, PTL DEF Spec
<1> QED
  BY <1>3 DEF A, WrittenKept
=============================================================================
